---------------------------- MODULE RequestRouter ---------------------------
(***************************************************************************)
(* The request router of the OceanMind backend over its durable journal:   *)
(* src/oceanx/backend/router.py, and the stdio host that feeds and stops   *)
(* it (host.py).                                                           *)
(*                                                                         *)
(* One asyncio loop runs the line handler, which takes one request at a    *)
(* time, and one task (here: agent) per submitted request.  Steps          *)
(* interleave only where the code awaits; LoopHeld names the places where  *)
(* a coroutine goes on without suspending, so that nothing but a crash can *)
(* come in between.  Emitting an event counts as a suspension, because the *)
(* frame writer may be awaitable.                                          *)
(*                                                                         *)
(* task.cancel() acts at the next resumption of its target, which runs     *)
(* nothing in between, so it is delivered in the step that calls it; the   *)
(* set _cancelling_agent_requests only repeats what that delivery does.    *)
(***************************************************************************)
EXTENDS RequestStore

CONSTANT MaxRuns    \* bound: number of backend processes in a behaviour

ASSUME MaxRunsAssumption == MaxRuns \in Nat \ {0}

VARIABLES
    agent,    \* phase of the asyncio task that executes each submit
    graph,    \* submits whose model graph still runs in the background
    cached,   \* conversations with a runtime in _agent_sessions
    asking,   \* submits with a future in _pending_questions
    line,     \* the request the line handler works on
    pc,       \* where the line handler is
    news,     \* terminals the line handler is about to emit
    host,     \* "up", "draining" (close has begun) or "down"
    shutdown, \* shutdown_requested
    runs,     \* backend processes started so far
    seen      \* terminal outcomes the client was told of each submit

loopVars == <<agent, graph, cached, asking>>
lineVars == <<line, pc, news>>
hostVars == <<host, shutdown, runs>>
vars     == <<storeVars, loopVars, lineVars, hostVars, seen>>

TaskCommands == {"archive", "reopen", "delete"}
AskedOf      == {"cancel", "respond"}
Commands     == TaskCommands \cup AskedOf \cup {"shutdown"}
Idle         == [kind |-> "idle", req |-> None, arg |-> None]

\* Phases of an agent, in order: the stream, the settling of leftover Expert
\* work, the recorded conclusion, the displayed answer; then the emission of
\* the terminal it committed; then the finally block.  "none" is an agent that
\* is in no table, "aborted" one that was cancelled inside its finally block
\* and will never leave the tables.
Running   == {"streaming", "settling", "concluding", "answered"}
Announced == {"completed", "failed"}
Over      == {"none", "aborted"}
Phases    == Running \cup Announced \cup Over \cup {"closing"}

Done(r) == agent[r] \in Over

RouterInit ==
    /\ StoreInit
    /\ agent = [r \in Submits |-> "none"]
    /\ graph = {} /\ cached = {} /\ asking = {}
    /\ line = Idle /\ pc = "idle" /\ news = {}
    /\ host = "up" /\ shutdown = FALSE /\ runs = 1
    /\ seen = [r \in Submits |-> {}]

-----------------------------------------------------------------------------
(* Scheduling.                                                             *)

\* Mutant of Stale: waits for rows that have their terminal, not for tasks.
StaleByRow(k) == {r \in Submits : scope[r] = k /\ state[r] \in Terminal}

\* Agents of a conversation whose request has its terminal already.
Stale(k) == {r \in Submits : scope[r] = k /\ ~Done(r) /\ state[r] \in Terminal}

\* Mutant of RuntimeBusy: the check is missing.
NeverBusy(k) == FALSE

RuntimeBusy(k) ==
    k \in cached /\ \E r \in Submits : scope[r] = k /\ agent[r] # "none"

Concluding == \E r \in Submits : agent[r] = "concluding"

LoopHeld == Concluding \/ pc \in {"check", "claimed"}

AgentMay == host # "down" /\ ~LoopHeld
LineMay  == host = "up" /\ ~Concluding

\* task.cancel(): caught where the agent awaits, it leads to the finally
\* block; inside the finally block it ends the task on the spot.
CancelledAgents(R) ==
    [r \in Submits |-> IF r \notin R \/ Done(r) THEN agent[r]
                       ELSE IF agent[r] = "closing" THEN "aborted" ELSE "closing"]

\* A stream cancelled while it is awaited takes its graph down with it.
Streaming(R) == {r \in R : agent[r] = "streaming"}

\* Mutant of Fail: only task-bound requests get a terminal.
FailTaskOnly(r, recoverable) ==
    IF state[r] \in Open /\ scope[r] \in Tasks
    THEN CommitTaskTerminalWithoutCheckpoint(r, recoverable) ELSE UNCHANGED storeVars

\* _fail_request: a request that has its terminal keeps it.
Fail(r, recoverable) ==
    IF state[r] \notin Open THEN UNCHANGED storeVars
    ELSE IF scope[r] \in Tasks THEN CommitTaskTerminalWithoutCheckpoint(r, recoverable)
    ELSE CommitTerminal(r, "failed")

-----------------------------------------------------------------------------
(* The line handler: one request from the reservation to its last emission.*)

Reserved(r, kind, arg) ==
    /\ LineMay /\ pc = "idle" /\ ~shutdown
    /\ line' = [kind |-> kind, req |-> r, arg |-> arg]
    /\ pc' = "accepted"
    /\ UNCHANGED <<loopVars, news, hostVars, seen>>

Submit(r, k) == Reserve(r, k) /\ Reserved(r, "submit", k)

Command(c, kind, arg) ==
    /\ Reserve(c, IF kind \in TaskCommands THEN arg ELSE None)
    /\ Reserved(c, kind, arg)

\* A repeated request is answered from its row.
Replay(r) ==
    /\ LineMay /\ pc = "idle" /\ ~shutdown
    /\ state[r] \in Terminal
    /\ seen' = [seen EXCEPT ![r] = @ \cup {state[r]}]
    /\ UNCHANGED <<storeVars, loopVars, lineVars, hostVars>>

Accepted ==
    /\ LineMay /\ pc = "accepted"
    /\ MarkInProgress(line.req)
    /\ pc' = "check"
    /\ UNCHANGED <<loopVars, line, news, hostVars, seen>>

\* Every refusal with a typed error, "already has an active foreground agent
\* request" among them, and a runtime that cannot be prepared.
SubmitRefused ==
    /\ LineMay /\ line.kind = "submit"
    /\ \/ pc \in {"check", "preparing"}
       \/ pc = "waiting" /\ Stale(line.arg) = {}
    /\ Fail(line.req, TRUE)
    /\ pc' = "reply" /\ news' = {<<line.req, "failed">>}
    /\ UNCHANGED <<loopVars, line, hostVars, seen>>

\* A fast follow-up waits for the cleanup of its predecessors.
SubmitWaits ==
    /\ LineMay /\ line.kind = "submit" /\ pc = "check"
    /\ Stale(line.arg) # {}
    /\ pc' = "waiting"
    /\ UNCHANGED <<storeVars, loopVars, line, news, hostVars, seen>>

\* _agent_session_for: a cached runtime is reused while its binding holds;
\* otherwise it is closed, and with it every inactive task runtime.
SessionFor(k) ==
    LET inactive == {t \in Tasks \cap cached :
                       \A r \in Submits : scope[r] = t => agent[r] = "none"} IN
    \/ k \in cached /\ UNCHANGED cached
    \/ cached' = (cached \ {k}) \ (IF k \in Tasks THEN inactive ELSE {})

SubmitClaims ==
    /\ LineMay /\ line.kind = "submit" /\ pc \in {"check", "waiting"}
    /\ Stale(line.arg) = {}
    /\ ~RuntimeBusy(line.arg)
    /\ IF line.arg \in Tasks
       THEN BeginTaskRequest(line.req) /\ pc' = "claimed" /\ UNCHANGED cached
       ELSE SessionFor(line.arg) /\ pc' = "preparing" /\ UNCHANGED storeVars
    /\ UNCHANGED <<agent, graph, asking, line, news, hostVars, seen>>

SubmitPlans ==
    /\ LineMay /\ pc = "claimed"
    /\ StartTaskWorkflow(line.req)
    /\ SessionFor(line.arg)
    /\ pc' = "preparing"
    /\ UNCHANGED <<agent, graph, asking, line, news, hostVars, seen>>

\* The agent task, up to its first suspension: nothing else is read from
\* stdin before that.
SubmitLaunches ==
    /\ LineMay /\ pc = "preparing"
    /\ AppendQuestion(line.req)
    /\ agent' = [agent EXCEPT ![line.req] = "streaming"]
    /\ graph' = graph \cup {line.req}
    /\ cached' = cached \cup {line.arg}
    /\ line' = Idle /\ pc' = "idle"
    /\ UNCHANGED <<asking, news, hostVars, seen>>

\* A control request that names something unknown, stale or not its own.
CommandRefused ==
    /\ LineMay /\ pc = "check" /\ line.kind \in Commands \ {"shutdown"}
    /\ line.kind = "cancel" => ~Present(line.arg)
    /\ CommitTerminal(line.req, "failed")
    /\ pc' = "reply"
    /\ UNCHANGED <<loopVars, line, news, hostVars, seen>>

CancelStops ==
    /\ LineMay /\ line.kind = "cancel" /\ pc = "check"
    /\ Present(line.arg) /\ ~Done(line.arg)
    /\ agent' = CancelledAgents({line.arg})
    /\ graph' = graph \ Streaming({line.arg})
    /\ asking' = asking \ Streaming({line.arg})
    /\ pc' = "stopping"
    /\ UNCHANGED <<storeVars, cached, line, news, hostVars, seen>>

\* Mutant of CancelCommits: the terminal is written while the agent still runs.
CancelCommitsAtOnce ==
    /\ LineMay /\ line.kind = "cancel" /\ pc \in {"check", "stopping"}
    /\ CommitCancellation(line.req, line.arg)
    /\ news' = IF state[line.arg] \in Open THEN {<<line.arg, "cancelled">>} ELSE {}
    /\ pc' = "reply"
    /\ UNCHANGED <<loopVars, line, hostVars, seen>>

CancelCommits ==
    /\ LineMay /\ line.kind = "cancel" /\ pc \in {"check", "stopping"}
    /\ Done(line.arg)
    /\ CommitCancellation(line.req, line.arg)
    /\ news' = IF state[line.arg] \in Open THEN {<<line.arg, "cancelled">>} ELSE {}
    /\ pc' = "reply"
    /\ UNCHANGED <<loopVars, line, hostVars, seen>>

Responds ==
    /\ LineMay /\ line.kind = "respond" /\ pc = "check"
    /\ line.arg \in asking
    /\ CommitInteractionResponse(line.req, line.arg)
    /\ asking' = asking \ {line.arg}
    /\ pc' = "reply"
    /\ UNCHANGED <<agent, graph, cached, line, news, hostVars, seen>>

TaskCommandApplies ==
    /\ LineMay /\ pc = "check"
    /\ \/ line.kind = "archive" /\ SetTaskStatus(line.arg, "archived")
       \/ line.kind = "reopen" /\ SetTaskStatus(line.arg, "active")
       \/ line.kind = "delete" /\ DeleteResearchTask(line.arg, line.req)
    /\ pc' = "applied"
    /\ UNCHANGED <<loopVars, line, news, hostVars, seen>>

\* commit_terminal of a task command, after its projection was refreshed, and
\* of system.shutdown.
CommandCommits ==
    /\ LineMay
    /\ pc = "applied" \/ (pc = "check" /\ line.kind = "shutdown")
    /\ CommitTerminal(line.req, "completed")
    /\ pc' = "reply"
    /\ UNCHANGED <<loopVars, line, news, hostVars, seen>>

Replies ==
    /\ LineMay /\ pc = "reply"
    /\ seen' = [r \in Submits |-> seen[r] \cup {o \in Terminal : <<r, o>> \in news}]
    /\ shutdown' = (line.kind = "shutdown")
    /\ line' = Idle /\ pc' = "idle" /\ news' = {}
    /\ UNCHANGED <<storeVars, loopVars, host, runs>>

-----------------------------------------------------------------------------
(* The agent of request r.                                                 *)

Goes(r, from, to) == agent[r] = from /\ agent' = [agent EXCEPT ![r] = to]

WorkflowAdvances(r) ==
    /\ AgentMay /\ agent[r] = "streaming"
    /\ workflow[r] = "planning" /\ TransitionTaskWorkflow(r, "working")
    /\ UNCHANGED <<loopVars, lineVars, hostVars, seen>>

\* Tools of the graph, which outlives the agent's interest in it when the
\* agent stops reading the stream without closing it.
Asks(r) ==
    /\ AgentMay /\ r \in graph
    /\ interaction[r] = "none" /\ CreateInteraction(r)
    /\ asking' = asking \cup {r}
    /\ UNCHANGED <<agent, graph, cached, lineVars, hostVars, seen>>

ToolBegins(r) ==
    /\ AgentMay /\ r \in graph
    /\ toolCall[r] = "none" /\ BeginToolCall(r)
    /\ UNCHANGED <<loopVars, lineVars, hostVars, seen>>

ToolEnds(r) ==
    /\ AgentMay /\ r \in graph
    /\ toolCall[r] = "in_progress" /\ RecordOperationResult(r)
    /\ UNCHANGED <<loopVars, lineVars, hostVars, seen>>

StreamEnds(r) ==
    /\ AgentMay /\ toolCall[r] # "in_progress" /\ r \notin asking
    /\ Goes(r, "streaming", "settling")
    /\ graph' = graph \ {r}
    /\ UNCHANGED <<storeVars, cached, asking, lineVars, hostVars, seen>>

\* _fail_request of an agent, followed by the emission of what it committed.
Fails(r, recoverable) ==
    /\ Fail(r, recoverable)
    /\ agent' = [agent EXCEPT ![r] = IF state[r] \in Open THEN "failed" ELSE "closing"]

\* A model error, the turn limit, or no tool progress for too long.
StreamFails(r, recoverable) ==
    /\ AgentMay /\ agent[r] = "streaming"
    /\ Fails(r, recoverable)
    /\ graph' = graph \ {r} /\ asking' = asking \ {r}
    /\ UNCHANGED <<cached, lineVars, hostVars, seen>>

\* The tool-call budget is noticed between two events of the stream, which
\* stays open behind the failing agent.
BudgetFails(r) ==
    /\ AgentMay /\ agent[r] = "streaming"
    /\ Fails(r, TRUE)
    /\ UNCHANGED <<graph, cached, asking, lineVars, hostVars, seen>>

Concludes(r) ==
    /\ AgentMay /\ Goes(r, "settling", "concluding")
    /\ RecordCoordinatorResult(r)
    /\ UNCHANGED <<graph, cached, asking, lineVars, hostVars, seen>>

\* Neither a durable Coordinator result nor a final text.
StopsWithoutAnswer(r) ==
    /\ AgentMay /\ agent[r] = "settling"
    /\ Fails(r, TRUE)
    /\ UNCHANGED <<graph, cached, asking, lineVars, hostVars, seen>>

Answers(r) ==
    /\ host # "down" /\ Goes(r, "concluding", "answered")
    /\ AppendAnswer(r)
    /\ UNCHANGED <<graph, cached, asking, lineVars, hostVars, seen>>

Commits(r) ==
    /\ AgentMay /\ Goes(r, "answered", "completed")
    /\ IF scope[r] \in Tasks THEN CommitTaskTerminalWithCheckpoint(r)
       ELSE CommitTerminal(r, "completed")
    /\ UNCHANGED <<graph, cached, asking, lineVars, hostVars, seen>>

\* The conversation does not fit the checkpoint limits.
CheckpointRejected(r) ==
    /\ AgentMay /\ agent[r] = "answered" /\ scope[r] \in Tasks
    /\ Fails(r, TRUE)
    /\ UNCHANGED <<graph, cached, asking, lineVars, hostVars, seen>>

Announces(r) ==
    /\ AgentMay /\ agent[r] \in Announced
    /\ agent' = [agent EXCEPT ![r] = "closing"]
    /\ seen' = IF Present(r) THEN [seen EXCEPT ![r] = @ \cup {agent[r]}] ELSE seen
    /\ UNCHANGED <<storeVars, graph, cached, asking, lineVars, hostVars>>

Closes(r) ==
    /\ AgentMay /\ Goes(r, "closing", "none")
    /\ UNCHANGED <<storeVars, graph, cached, asking, lineVars, hostVars, seen>>

\* The unread stream of a finished agent is finalized by the loop.
GraphCollected(r) ==
    /\ AgentMay /\ Done(r) /\ r \in graph
    /\ graph' = graph \ {r} /\ asking' = asking \ {r}
    /\ UNCHANGED <<storeVars, agent, cached, lineVars, hostVars, seen>>

-----------------------------------------------------------------------------
(* The host.                                                               *)

\* End of input, or a requested shutdown: shutdown_active_analysis.
DrainBegins ==
    /\ host = "up" /\ pc = "idle" /\ ~LoopHeld
    /\ runs < MaxRuns
    /\ host' = "draining"
    /\ agent' = CancelledAgents(Submits)
    /\ graph' = graph \ Streaming(Submits)
    /\ asking' = asking \ Streaming(Submits)
    /\ UNCHANGED <<storeVars, cached, lineVars, shutdown, runs, seen>>

MemoryLost ==
    /\ agent' = [r \in Submits |-> "none"]
    /\ graph' = {} /\ cached' = {} /\ asking' = {}
    /\ line' = Idle /\ pc' = "idle" /\ news' = {}
    /\ host' = "down" /\ shutdown' = FALSE
    /\ UNCHANGED <<runs, seen>>

\* A requested shutdown leaves open rows to the next start.
DrainEnds ==
    /\ host = "draining" /\ \A r \in Submits : Done(r)
    /\ IF shutdown THEN UNCHANGED storeVars ELSE RecoverIncomplete
    /\ MemoryLost

Crash ==
    /\ host # "down" /\ runs < MaxRuns
    /\ MemoryLost
    /\ UNCHANGED storeVars

\* Mutant of Restart: the constructor does not recover the journal.
RestartUnrecovered ==
    /\ host = "down"
    /\ host' = "up" /\ runs' = runs + 1
    /\ UNCHANGED <<storeVars, loopVars, lineVars, shutdown, seen>>

Restart ==
    /\ host = "down"
    /\ RecoverIncomplete
    /\ host' = "up" /\ runs' = runs + 1
    /\ UNCHANGED <<loopVars, lineVars, shutdown, seen>>

-----------------------------------------------------------------------------
ClientStep ==
    \/ \E r \in Submits : (\E k \in Conversations : Submit(r, k)) \/ Replay(r)
    \/ \E c \in Controls :
         \/ \E r \in Submits, kind \in AskedOf : Command(c, kind, r)
         \/ \E t \in Tasks, kind \in TaskCommands : Command(c, kind, t)
         \/ Command(c, "shutdown", None)

LineStep ==
    \/ Accepted \/ Replies
    \/ SubmitRefused \/ SubmitWaits \/ SubmitClaims \/ SubmitPlans \/ SubmitLaunches
    \/ CommandRefused \/ CancelStops \/ CancelCommits \/ Responds
    \/ TaskCommandApplies \/ CommandCommits

AgentStep(r) ==
    \/ WorkflowAdvances(r) \/ Asks(r) \/ ToolBegins(r) \/ ToolEnds(r)
    \/ StreamEnds(r) \/ BudgetFails(r)
    \/ \E recoverable \in BOOLEAN : StreamFails(r, recoverable)
    \/ Concludes(r) \/ StopsWithoutAnswer(r) \/ Answers(r)
    \/ Commits(r) \/ CheckpointRejected(r)
    \/ Announces(r) \/ Closes(r) \/ GraphCollected(r)

HostStep == DrainBegins \/ DrainEnds \/ Crash \/ Restart

Next ==
    \/ ClientStep
    \/ LineStep
    \/ \E r \in Submits : AgentStep(r)
    \/ HostStep

\* The loop runs every coroutine that can go on, a process that is closing
\* ends, and the desktop starts the backend again; clients, crashes and the
\* end of input are free.
Fairness ==
    /\ WF_vars(LineStep)
    /\ \A r \in Submits : WF_vars(AgentStep(r))
    /\ WF_vars(DrainEnds)
    /\ WF_vars(Restart)

Spec     == RouterInit /\ [][Next]_vars
FairSpec == Spec /\ Fairness

-----------------------------------------------------------------------------
(* Properties.                                                             *)

RouterTypeOK ==
    /\ agent \in [Submits -> Phases]
    /\ graph \subseteq Submits /\ cached \subseteq Conversations
    /\ asking \subseteq Submits
    /\ line \in [kind : Commands \cup {"submit", "idle"}, req : Requests \cup {None},
                 arg : Submits \cup Conversations \cup {None}]
    /\ pc \in {"idle", "accepted", "check", "waiting", "claimed", "preparing",
               "stopping", "applied", "reply"}
    /\ news \subseteq Submits \X Terminal
    /\ host \in {"up", "draining", "down"} /\ shutdown \in BOOLEAN /\ runs \in Nat
    /\ seen \in [Submits -> SUBSET Terminal]

TypeOK == StoreTypeOK /\ RouterTypeOK

\* A task's active_request_id names a request that is in progress in that very
\* task, and the task is not archived or deleted under it.
ActiveSlotOwner ==
    \A t \in Tasks : slot[t] # None =>
        /\ state[slot[t]] = "in_progress"
        /\ scope[slot[t]] = t
        /\ task[t] = "active"

\* An agent that still works on its answer holds its conversation: its request
\* is in progress, its task's slot is its own, and its runtime is cached, which
\* is what makes the next submit of the same conversation wait or be refused.
RunningHoldsConversation ==
    \A r \in Submits : agent[r] \in Running =>
        /\ state[r] = "in_progress"
        /\ scope[r] \in cached
        /\ scope[r] \in Tasks => slot[scope[r]] = r

\* Two agents never work in the same conversation: they would share one engine
\* and its messages.
OneAgentPerConversation ==
    \A r, q \in Submits :
        r # q /\ agent[r] \in Running /\ agent[q] \in Running => scope[r] # scope[q]

\* Every open submit has somebody in the process who will settle it: the line
\* handler, its agent, or the cancellation that waits for that agent.
OpenSubmitIsOwned ==
    host = "up" => \A r \in Submits : state[r] \in Open =>
        \/ line.kind = "submit" /\ line.req = r
        \/ agent[r] \in Running
        \/ pc = "stopping" /\ line.arg = r

\* What a client was told of a request is what the journal says of it, replays
\* and restarts included.
SeenIsDurable ==
    \A r \in Submits : Present(r) => seen[r] \subseteq {state[r]}

\* The conversation a task remembers ends with a completed request of that task
\* whose answer is recorded and displayed (ADR 0015).
CheckpointSound ==
    \A t \in Tasks : checkpoint[t] # None =>
        /\ state[checkpoint[t]] = "completed"
        /\ scope[checkpoint[t]] = t
        /\ checkpoint[t] \in receipt
        /\ answers[checkpoint[t]] > 0

\* An answer that was durably received is never written off as interrupted.
ReceiptSurvivesRestart ==
    \A r \in receipt : state[r] # "interrupted"

\* A cancelled or interrupted request leaves no question the desktop would
\* still show as pending.
NoQuestionAfterStop ==
    \A r \in Submits : state[r] \in {"cancelled", "interrupted"} =>
        interaction[r] # "pending" /\ r \notin asking

\* A terminal is final: nothing but the deletion of its task removes it.
TerminalIsFinal ==
    [][\A r \in Requests : state[r] \in Terminal => state'[r] \in {state[r], "deleted"}]_vars

\* A task changes what it remembers only in the step that completes its owner,
\* or when it is deleted.
MemoryFollowsCompletion ==
    [][\A t \in Tasks : checkpoint'[t] # checkpoint[t] =>
          \/ task'[t] = "deleted" /\ checkpoint'[t] = None
          \/ /\ checkpoint'[t] = slot[t] /\ slot'[t] = None
             /\ state'[slot[t]] = "completed"]_vars

\* Every request settles, through crashes, cancellations and shutdowns.
EveryRequestSettles ==
    \A r \in Requests : state[r] \in Open ~> state[r] \notin Open

\* The line handler always comes back for the next request.
HandlerReturns == pc # "idle" ~> pc = "idle"

-----------------------------------------------------------------------------
(* The router over its store implements the abstract journal.              *)

Journal == INSTANCE RequestJournal WITH
    outcome <- [r \in Submits |-> IF state[r] \in Open THEN "open" ELSE state[r]],
    home    <- [r \in Submits |-> scope[r]],
    owner   <- slot,
    memory  <- checkpoint

JournalRefined == Journal!JournalSpec

-----------------------------------------------------------------------------
(* Statements of the repository that the code does not keep.               *)

RefusedAsBusy(k) ==
    /\ line.kind = "submit" /\ line.arg = k /\ pc \in {"check", "waiting"}
    /\ k \in Tasks => task[k] = "active"
    /\ Stale(k) = {} /\ RuntimeBusy(k)

\* "A fast follow-up must wait for that bounded cleanup instead of being
\* misclassified as concurrent work" (router.py, session.submit): who is refused
\* as concurrent work meets a request that is still open.
FollowUpNotMisclassified ==
    \A k \in Conversations : RefusedAsBusy(k) =>
        \E r \in Submits : scope[r] = k /\ agent[r] # "none" /\ state[r] \in Open

=============================================================================
