----------------------------- MODULE TaskMemory -----------------------------
(***************************************************************************)
(* What the Coordinator of one research task remembers of earlier turns.   *)
(* There are two memories: the stable checkpoint in the request store,     *)
(* written when a turn completes, and the thread that LangGraph keeps      *)
(* in langgraph.sqlite3 of the workspace, written as a turn goes on.  The  *)
(* runtime cached by the router (router.py, _agent_session_for) and its    *)
(* engine (deep_runtime.py) move turns between them.                       *)
(*                                                                         *)
(* A turn stands for all messages of one submitted request.  Summaries     *)
(* remember what they summarize.  The turns of a task never overlap, which *)
(* is OneAgentPerConversation of RequestRouter.                            *)
(***************************************************************************)
EXTENDS Naturals, Sequences, SequencesExt

CONSTANTS
    Turns,      \* request ids, each submitted at most once
    Old,        \* turns of a checkpoint that is older than the thread
    NoTurn,
    MaxRetries  \* model_recovery.RETRY_DELAYS, its length

ASSUME MemoryAssumption ==
    /\ Old \in Seq(Nat) /\ IsInjective(Old)
    /\ Turns \cap Nat = {} /\ NoTurn \notin Turns \cup Nat
    /\ MaxRetries \in Nat

VARIABLES
    thread,     \* turns in the graph state of the task's thread
    checkpoint, \* turns in the messages of the stable checkpoint
    current,    \* the checkpoint was written by this runtime profile and prompt
    cached,     \* a runtime of the task is in _agent_sessions
    messages,   \* its engine's _messages
    seed,       \* its engine's _seed_messages
    turn,       \* the request that runs, or NoTurn
    phase,      \* how far its stream has come
    input,      \* messages handed to the graph and not yet recorded
    retries,    \* resumptions of this turn so far
    outcome     \* of each turn

runtime == <<cached, messages, seed>>
stream  == <<turn, phase, input, retries>>
vars    == <<thread, checkpoint, current, runtime, stream, outcome>>

Init ==
    /\ thread = <<>> /\ checkpoint \in {<<>>, Old} /\ current \in BOOLEAN
    /\ cached = FALSE /\ messages = <<>> /\ seed = <<>>
    /\ turn = NoTurn /\ phase = "idle" /\ input = <<>> /\ retries = 0
    /\ outcome = [q \in Turns |-> "new"]

\* load_messages of a new engine: a checkpoint of another runtime policy is
\* ignored.
Restored == IF current THEN checkpoint ELSE <<>>

\* A cached runtime goes on as it is; a new one loads the checkpoint.
Opens(q) ==
    /\ phase = "idle" /\ outcome[q] = "new"
    /\ turn' = q /\ phase' = "launched" /\ retries' = 0
    /\ outcome' = [outcome EXCEPT ![q] = "open"]
    /\ \/ cached /\ UNCHANGED runtime
       \/ cached' = TRUE /\ messages' = Restored /\ seed' = Restored
    /\ UNCHANGED <<thread, checkpoint, current, input>>

\* The runtime of an inactive task is closed to make room for another task's.
Evicted ==
    /\ phase = "idle" /\ cached
    /\ cached' = FALSE /\ messages' = <<>> /\ seed' = <<>>
    /\ UNCHANGED <<thread, checkpoint, current, stream, outcome>>

\* _input_messages: the restored messages go in front of the first input of a
\* thread that has none, and are given up in any case.
Reads ==
    /\ phase = "launched" /\ phase' = "reading"
    /\ input' = Append(IF thread = <<>> THEN seed ELSE <<>>, turn)
    /\ seed' = <<>>
    /\ UNCHANGED <<thread, checkpoint, current, cached, messages, turn, retries, outcome>>

\* Mutant of Records: a thread of its own for every request.
RecordsAfresh ==
    /\ phase = "reading" /\ phase' = "running"
    /\ thread' = input /\ input' = <<>>
    /\ UNCHANGED <<checkpoint, current, runtime, turn, retries, outcome>>

\* The graph saves its input before it calls the model.
Records ==
    /\ phase = "reading" /\ phase' = "running"
    /\ thread' = thread \o input /\ input' = <<>>
    /\ UNCHANGED <<checkpoint, current, runtime, turn, retries, outcome>>

\* A recoverable model error, or an answer that is missing, with no tool active.
Pauses ==
    /\ phase = "running" /\ retries < MaxRetries
    /\ phase' = "waiting" /\ retries' = retries + 1
    /\ messages' = thread
    /\ UNCHANGED <<thread, checkpoint, current, cached, seed, turn, input, outcome>>

\* resume_message: the saved graph goes on, without another user message.
Resumes ==
    /\ phase = "waiting" /\ phase' = "running"
    /\ UNCHANGED <<thread, checkpoint, current, runtime, turn, input, retries, outcome>>

\* Mutant of Answers: the engine's messages are not refreshed.
AnswersUnrefreshed ==
    /\ phase = "running" /\ phase' = "answered"
    /\ UNCHANGED <<thread, checkpoint, current, runtime, turn, input, retries, outcome>>

Answers ==
    /\ phase = "running" /\ phase' = "answered"
    /\ messages' = thread
    /\ UNCHANGED <<thread, checkpoint, current, cached, seed, turn, input, retries, outcome>>

Settles(o) ==
    /\ turn' = NoTurn /\ phase' = "idle" /\ input' = <<>>
    /\ outcome' = [outcome EXCEPT ![turn] = o]
    /\ UNCHANGED retries

Commits ==
    /\ phase = "answered"
    /\ checkpoint' = messages /\ current' = TRUE
    /\ Settles("completed")
    /\ UNCHANGED <<thread, runtime>>

\* An exception inside the stream refreshes the engine's messages; a budget that
\* is used up, a cancellation and the limits of a checkpoint do not.
Stops(o) ==
    /\ phase # "idle" /\ o \in {"failed", "cancelled"}
    /\ \/ UNCHANGED messages
       \/ phase \in {"reading", "running"} /\ o = "failed" /\ messages' = thread
    /\ Settles(o)
    /\ UNCHANGED <<thread, checkpoint, current, cached, seed>>

\* A restart recovers the open request, as completed when its conclusion was
\* recorded already, and may bring a new runtime policy.
Crash ==
    /\ \/ phase = "idle" /\ UNCHANGED <<stream, outcome>>
       \/ phase # "idle" /\ Settles("interrupted")
       \/ phase = "answered" /\ Settles("completed")
    /\ current' \in {current, FALSE}
    /\ cached' = FALSE /\ messages' = <<>> /\ seed' = <<>>
    /\ UNCHANGED <<thread, checkpoint>>

Next ==
    \/ \E q \in Turns : Opens(q)
    \/ Reads \/ Records \/ Pauses \/ Resumes \/ Answers \/ Commits
    \/ \E o \in {"failed", "cancelled"} : Stops(o)
    \/ Evicted \/ Crash

Spec == Init /\ [][Next]_vars

-----------------------------------------------------------------------------
(* Properties.                                                             *)

Remembered(s) == {s[i] : i \in DOMAIN s}

TypeOK ==
    /\ {thread, checkpoint, messages, seed, input} \subseteq Seq(Turns \cup Remembered(Old))
    /\ current \in BOOLEAN /\ cached \in BOOLEAN
    /\ turn \in Turns \cup {NoTurn}
    /\ phase \in {"idle", "launched", "reading", "running", "waiting", "answered"}
    /\ retries \in 0..MaxRetries
    /\ outcome \in [Turns -> {"new", "open", "completed", "failed", "cancelled",
                              "interrupted"}]

\* No turn that completed is ever missing from what the model is shown, whatever
\* failed, was cancelled, was evicted or crashed since.
CompletedTurnsKept == \A q \in Turns : outcome[q] = "completed" => q \in Remembered(thread)

\* The stable checkpoint is the conversation up to and including a turn that
\* completed: after a restart the thread goes on where the checkpoint ends.
CheckpointIsConversation ==
    checkpoint \notin {<<>>, Old} =>
        /\ IsPrefix(checkpoint, thread)
        /\ Last(checkpoint) \in Turns /\ outcome[Last(checkpoint)] = "completed"

\* "Failed, cancelled, and interrupted requests retain the preceding checkpoint ...
\* instead of becoming memory" (ADR 0015): no checkpoint has such a turn.  The code
\* leaves it in the thread, and the next turn that completes makes the whole thread
\* the checkpoint.
FailedTurnsStayOut ==
    \A q \in Turns :
        outcome[q] \in {"failed", "cancelled", "interrupted"} => q \notin Remembered(checkpoint)

Talk == INSTANCE Conversation WITH said <- thread, stable <- checkpoint, fate <- outcome

\* The two memories of a task are one conversation: cached or evicted, seeded or
\* not, retried, stopped or restarted, the runtime over its thread and its checkpoint
\* (deep_runtime.py, submit_message and _refresh_messages) implements Conversation, in
\* which turns that failed are part of what the next one completes.
ConversationRefined == Talk!ConversationSpec
=============================================================================
