-------------------------- MODULE TaskMemoryProofs --------------------------
(***************************************************************************)
(* For every set of turns, every older checkpoint and every number of      *)
(* retries: no completed turn is ever missing from the thread, and the     *)
(* checkpoint is always the beginning of the thread.                       *)
(*                                                                         *)
(* Neither is inductive.  The invariant adds how the turn that runs moves: *)
(* it is the last of what the graph is given, then the last of the thread, *)
(* and the engine has the whole thread once there is an answer (Flow).     *)
(* With it engine, graph and checkpoint are one conversation               *)
(* (the module Conversation).                                              *)
(*                                                                         *)
(* In the second half are theorems about the functions beside it, for      *)
(* histories of any length: the transcript of an Expert, the record of a   *)
(* workspace, the sources of a task, the results that go with an answer.   *)
(***************************************************************************)
EXTENDS TaskMemory, ExpertMemory, TaskSources, WorkspaceState, TaskAnswer,
        WellFoundedInduction, TLAPS

Known == Turns \cup Remembered(Old)

MemoryType ==
    /\ thread \in Seq(Known) /\ checkpoint \in Seq(Known)
    /\ messages \in Seq(Known) /\ seed \in Seq(Known) /\ input \in Seq(Known)
    /\ current \in BOOLEAN /\ cached \in BOOLEAN
    /\ turn \in Turns \cup {NoTurn}
    /\ phase \in {"idle", "launched", "reading", "running", "waiting", "answered"}
    /\ retries \in 0..MaxRetries
    /\ outcome \in [Turns -> {"new", "open", "completed", "failed", "cancelled",
                              "interrupted"}]

EndsWith(s, q) == s # <<>> /\ Last(s) = q

Flow ==
    /\ phase # "idle" => turn \in Turns /\ outcome[turn] = "open"
    /\ phase = "reading" => EndsWith(input, turn)
    /\ phase \in {"running", "waiting", "answered"} => EndsWith(thread, turn)
    /\ phase = "answered" => messages = thread

IInv == MemoryType /\ Flow /\ CompletedTurnsKept /\ CheckpointIsConversation

-----------------------------------------------------------------------------
LEMMA OldKnown == Old \in Seq(Known)
BY MemoryAssumption DEF Known, Remembered

LEMMA EmptyKnown == <<>> \in Seq(Known)
OBVIOUS

LEMMA SamePrefix == ASSUME NEW s \in Seq(Known) PROVE IsPrefix(s, s)
BY DEF IsPrefix

LEMMA LongerPrefix ==
    ASSUME NEW p \in Seq(Known), NEW s \in Seq(Known), NEW t \in Seq(Known), IsPrefix(p, s)
    PROVE  IsPrefix(p, s \o t)
BY DEF IsPrefix

LEMMA LongerRemembers ==
    ASSUME NEW s \in Seq(Known), NEW t \in Seq(Known)
    PROVE  Remembered(s) \subseteq Remembered(s \o t)
<1> SUFFICES ASSUME NEW i \in DOMAIN s PROVE i \in DOMAIN (s \o t) /\ (s \o t)[i] = s[i]
    BY DEF Remembered
<1> QED
    OBVIOUS

LEMMA LongerEnds ==
    ASSUME NEW s \in Seq(Known), NEW t \in Seq(Known), NEW q, EndsWith(t, q)
    PROVE  EndsWith(s \o t, q)
<1>1. Len(t) > 0 /\ Len(s \o t) = Len(s) + Len(t)
    BY DEF EndsWith
<1>2. (s \o t)[Len(s) + Len(t)] = t[Len(t)]
    BY <1>1
<1> QED
    BY <1>1, <1>2 DEF EndsWith, Last

LEMMA EndRemembered ==
    ASSUME NEW s \in Seq(Known), NEW q, EndsWith(s, q) PROVE q \in Remembered(s)
BY DEF EndsWith, Last, Remembered

LEMMA AppendEnds ==
    ASSUME NEW s \in Seq(Known), NEW q \in Known
    PROVE  Append(s, q) \in Seq(Known) /\ EndsWith(Append(s, q), q)
BY DEF EndsWith, Last

LEMMA InitInv == Init => IInv
<1> SUFFICES ASSUME Init PROVE IInv
    OBVIOUS
<1>1. checkpoint \in Seq(Known)
    BY OldKnown, EmptyKnown DEF Init
<1>4. outcome \in [Turns -> {"new", "open", "completed", "failed", "cancelled",
                              "interrupted"}]
    BY DEF Init
<1>5. retries \in 0..MaxRetries
    BY MemoryAssumption DEF Init
<1>2. MemoryType
    BY <1>1, <1>4, <1>5, EmptyKnown DEF Init, MemoryType
<1>3. Flow /\ CompletedTurnsKept /\ CheckpointIsConversation
    BY DEF Init, Flow, CompletedTurnsKept, CheckpointIsConversation
<1> QED
    BY <1>2, <1>3 DEF IInv

\* A turn that is settled without completing leaves what is remembered alone.
LEMMA Untouched ==
    ASSUME IInv, UNCHANGED <<thread, checkpoint>>, MemoryType',
           \A q \in Turns : outcome'[q] = "completed" <=> outcome[q] = "completed"
    PROVE  CompletedTurnsKept' /\ CheckpointIsConversation'
BY DEF IInv, CompletedTurnsKept, CheckpointIsConversation

LEMMA NextInv == IInv /\ [Next]_vars => IInv'
<1> SUFFICES ASSUME IInv, [Next]_vars PROVE IInv'
    OBVIOUS
<1> USE DEF IInv
<1> Turns \subseteq Known
    BY DEF Known
<1>1. ASSUME NEW q \in Turns, Opens(q) PROVE IInv'
    <2>5. Restored \in Seq(Known)
        BY EmptyKnown DEF Restored, MemoryType
    <2>6. messages' \in Seq(Known) /\ seed' \in Seq(Known) /\ cached' \in BOOLEAN
        BY <1>1, <2>5, Zenon DEF Opens, MemoryType, runtime
    <2>7. retries' \in 0..MaxRetries
        BY <1>1, MemoryAssumption DEF Opens
    <2>1. MemoryType'
        BY <1>1, <2>6, <2>7 DEF Opens, MemoryType
    <2>2. Flow'
        BY <1>1 DEF Opens, Flow, MemoryType
    <2>3. \A p \in Turns : outcome'[p] = "completed" <=> outcome[p] = "completed"
        BY <1>1 DEF Opens, MemoryType
    <2>4. UNCHANGED <<thread, checkpoint>>
        BY <1>1 DEF Opens
    <2> QED
        BY <2>1, <2>2, <2>3, <2>4, Untouched
<1>2. CASE Reads
    <2>1. turn \in Known /\ (IF thread = <<>> THEN seed ELSE <<>>) \in Seq(Known)
        BY <1>2, EmptyKnown DEF Reads, MemoryType, Flow
    <2>2. input' \in Seq(Known) /\ EndsWith(input', turn)
        BY <1>2, <2>1, AppendEnds DEF Reads
    <2>3. MemoryType'
        BY <1>2, <2>2, EmptyKnown DEF Reads, MemoryType
    <2>4. Flow'
        BY <1>2, <2>2 DEF Reads, Flow
    <2> QED
        BY <1>2, <2>3, <2>4, Untouched DEF Reads
<1>3. CASE Records
    <2>1. thread' \in Seq(Known) /\ EndsWith(thread', turn)
        BY <1>3, LongerEnds DEF Records, MemoryType, Flow
    <2>2. MemoryType'
        BY <1>3, <2>1, EmptyKnown DEF Records, MemoryType, runtime
    <2>3. Flow'
        BY <1>3, <2>1 DEF Records, Flow, runtime
    <2>4. CompletedTurnsKept'
        BY <1>3, LongerRemembers DEF Records, CompletedTurnsKept, MemoryType
    <2>5. CheckpointIsConversation'
        BY <1>3, LongerPrefix DEF Records, CheckpointIsConversation, MemoryType
    <2> QED
        BY <2>2, <2>3, <2>4, <2>5
<1>4. CASE Pauses
    <2>1. MemoryType' /\ Flow'
        BY <1>4, MemoryAssumption DEF Pauses, MemoryType, Flow
    <2> QED
        BY <1>4, <2>1, Untouched DEF Pauses
<1>5. CASE Resumes
    <2>1. MemoryType' /\ Flow'
        BY <1>5 DEF Resumes, MemoryType, Flow, runtime
    <2> QED
        BY <1>5, <2>1, Untouched DEF Resumes
<1>6. CASE Answers
    <2>1. MemoryType' /\ Flow'
        BY <1>6 DEF Answers, MemoryType, Flow
    <2> QED
        BY <1>6, <2>1, Untouched DEF Answers
<1>7. CASE Commits
    <2>1. MemoryType' /\ Flow'
        BY <1>7, EmptyKnown DEF Commits, Settles, MemoryType, Flow, runtime
    <2>2. /\ checkpoint' = thread /\ thread' = thread
          /\ EndsWith(thread, turn) /\ turn \in Turns
          /\ outcome' = [outcome EXCEPT ![turn] = "completed"]
        BY <1>7 DEF Commits, Settles, Flow
    <2>3. CompletedTurnsKept'
        BY <2>2, EndRemembered DEF CompletedTurnsKept, MemoryType
    <2>4. CheckpointIsConversation'
        BY <2>2, SamePrefix DEF CheckpointIsConversation, MemoryType, EndsWith
    <2> QED
        BY <2>1, <2>3, <2>4
<1>8. ASSUME NEW o \in {"failed", "cancelled"}, Stops(o) PROVE IInv'
    <2>1. MemoryType' /\ Flow'
        BY <1>8, EmptyKnown DEF Stops, Settles, MemoryType, Flow
    <2> QED
        BY <1>8, <2>1, Untouched DEF Stops, Settles, Flow, MemoryType
<1>9. CASE Evicted
    <2>1. MemoryType' /\ Flow'
        BY <1>9, EmptyKnown DEF Evicted, MemoryType, Flow, stream
    <2> QED
        BY <1>9, <2>1, Untouched DEF Evicted
<1>10. CASE Crash
    <2>1. MemoryType' /\ Flow'
        BY <1>10, EmptyKnown DEF Crash, Settles, MemoryType, Flow, stream
    <2>2. CASE phase = "answered" /\ Settles("completed")
        <3>1. /\ EndsWith(thread, turn) /\ turn \in Turns
              /\ outcome' = [outcome EXCEPT ![turn] = "completed"]
              /\ UNCHANGED <<thread, checkpoint>>
            BY <1>10, <2>2 DEF Crash, Settles, Flow
        <3>2. CompletedTurnsKept'
            BY <3>1, EndRemembered DEF CompletedTurnsKept, MemoryType
        <3>3. CheckpointIsConversation'
            BY <3>1 DEF CheckpointIsConversation, MemoryType
        <3> QED
            BY <2>1, <3>2, <3>3
    <2>3. CASE ~(phase = "answered" /\ Settles("completed"))
        BY <1>10, <2>1, <2>3, Untouched DEF Crash, Settles, Flow, MemoryType, stream
    <2> QED
        BY <2>2, <2>3
<1>11. CASE UNCHANGED vars
    BY <1>11
    DEF vars, runtime, stream, MemoryType, Flow, CompletedTurnsKept, CheckpointIsConversation
<1> QED
    BY <1>1, <1>2, <1>3, <1>4, <1>5, <1>6, <1>7, <1>8, <1>9, <1>10, <1>11 DEF Next

\* The invariant holds of the memory of every task, whatever fails, is stopped,
\* evicted or restarted (router.py, deep_runtime.py).
THEOREM Invariance == Spec => []IInv
BY InitInv, NextInv, PTL DEF Spec

\* No failure, cancellation, eviction or crash takes a completed turn out of what
\* the model is shown (deep_runtime.py, _input_messages).
THEOREM CompletedTurnsStay == Spec => []CompletedTurnsKept
<1>1. IInv => CompletedTurnsKept
    BY DEF IInv
<1> QED
    BY <1>1, Invariance, PTL

\* The stable checkpoint is the beginning of the thread and ends with a turn that
\* completed (store.py, commit_task_terminal).
THEOREM CheckpointStaysConversation == Spec => []CheckpointIsConversation
<1>1. IInv => CheckpointIsConversation
    BY DEF IInv
<1> QED
    BY <1>1, Invariance, PTL
-----------------------------------------------------------------------------
(* The refinement of Conversation.  A step of the runtime must not say a   *)
(* turn twice, nor bring the older checkpoint along once the conversation  *)
(* has begun: Novel is what rules both out.                                *)

Novel ==
    /\ \A q \in Turns : outcome[q] = "new" => q \notin Remembered(thread)
    /\ \A q \in Turns : outcome[q] = "open" => phase # "idle" /\ q = turn
    /\ phase \in {"launched", "reading"} => turn \notin Remembered(thread)
    /\ thread = <<>> => checkpoint \in {<<>>, Old} /\ seed \in {<<>>, checkpoint}
    /\ phase = "reading" =>
          \/ input = <<turn>>
          \/ thread = <<>> /\ input = Append(checkpoint, turn)

LEMMA AppendRemembers ==
    ASSUME NEW s \in Seq(Known), NEW q \in Known, NEW p \in Remembered(Append(s, q))
    PROVE  p = q \/ p \in Remembered(s)
<1>1. PICK i \in DOMAIN Append(s, q) : p = Append(s, q)[i]
    BY DEF Remembered
<1>2. CASE i = Len(s) + 1
    BY <1>1, <1>2
<1>3. CASE i # Len(s) + 1
    <2>1. i \in DOMAIN s /\ p = s[i]
        BY <1>1, <1>3
    <2> QED
        BY <2>1 DEF Remembered
<1> QED
    BY <1>2, <1>3

LEMMA OldForgotten ==
    ASSUME NEW q \in Turns PROVE q \notin Remembered(Old) /\ q \notin Remembered(<<>>)
<1>1. \A i \in DOMAIN Old : Old[i] \in Nat
    BY MemoryAssumption
<1>2. q \notin Nat
    BY MemoryAssumption
<1> QED
    BY <1>1, <1>2 DEF Remembered

\* What Records adds to the thread is the turn, and to an empty one, before it,
\* what the checkpoint keeps from before.
LEMMA RecordsSays ==
    ASSUME IInv, Novel, Records
    PROVE  /\ turn \in Turns /\ outcome[turn] = "open" /\ turn \notin Remembered(thread)
           /\ \/ thread' = Append(thread, turn)
              \/ thread = <<>> /\ thread' = Append(checkpoint, turn)
<1>1. turn \in Turns /\ outcome[turn] = "open" /\ turn \notin Remembered(thread)
    BY DEF IInv, Flow, Novel, Records
<1>2. thread \in Seq(Known) /\ checkpoint \in Seq(Known) /\ turn \in Known
    BY <1>1 DEF IInv, MemoryType, Known
<1>3. CASE input = <<turn>>
    <2>1. thread' = thread \o <<turn>>
        BY <1>3 DEF Records
    <2> QED
        BY <1>1, <1>2, <2>1
<1>4. CASE thread = <<>> /\ input = Append(checkpoint, turn)
    <2>1. thread' = <<>> \o Append(checkpoint, turn)
        BY <1>4 DEF Records
    <2> QED
        BY <1>1, <1>2, <1>4, <2>1
<1> QED
    BY <1>3, <1>4 DEF Novel, Records

LEMMA InitNovel == Init => Novel
BY DEF Init, Novel, Remembered

LEMMA NextNovel == IInv /\ Novel /\ [Next]_vars => Novel'
<1> SUFFICES ASSUME IInv, Novel, [Next]_vars PROVE Novel'
    OBVIOUS
<1> MemoryType /\ Flow
    BY DEF IInv
<1>1. ASSUME NEW q \in Turns, Opens(q) PROVE Novel'
    <2>1. seed' \in {seed, <<>>, checkpoint}
        BY <1>1, Zenon DEF Opens, runtime, Restored
    <2> QED
        BY <1>1, <2>1 DEF Opens, Novel, MemoryType
<1>2. CASE Reads
    <2>1. Append(<<>>, turn) = <<turn>>
        OBVIOUS
    <2>2. thread # <<>> => input' = <<turn>>
        BY <1>2, <2>1 DEF Reads
    <2>3. thread = <<>> => input' \in {<<turn>>, Append(checkpoint, turn)}
        BY <1>2, <2>1 DEF Reads, Novel
    <2> QED
        BY <1>2, <2>2, <2>3 DEF Reads, Novel
<1>3. CASE Records
    <2>1. /\ turn \in Turns /\ outcome[turn] = "open" /\ turn \notin Remembered(thread)
          /\ \/ thread' = Append(thread, turn)
             \/ thread = <<>> /\ thread' = Append(checkpoint, turn)
        BY <1>3, RecordsSays
    <2>2. thread \in Seq(Known) /\ checkpoint \in Seq(Known) /\ turn \in Known
        BY <2>1 DEF MemoryType, Known
    <2>3. thread' # <<>>
        BY <2>1, <2>2
    <2>4. ASSUME NEW q \in Turns, outcome[q] = "new" PROVE q \notin Remembered(thread')
        <3>1. q # turn
            BY <2>1, <2>4
        <3>2. q \notin Remembered(thread)
            BY <2>4 DEF Novel
        <3>3. thread = <<>> => q \notin Remembered(checkpoint)
            BY OldForgotten DEF Novel
        <3> QED
            BY <2>1, <2>2, <3>1, <3>2, <3>3, AppendRemembers
    <2> QED
        BY <1>3, <2>3, <2>4 DEF Records, Novel
<1>4. CASE Pauses
    BY <1>4 DEF Pauses, Novel
<1>5. CASE Resumes
    BY <1>5 DEF Resumes, Novel, runtime
<1>6. CASE Answers
    BY <1>6 DEF Answers, Novel
<1>7. CASE Commits
    <2>1. thread # <<>> /\ turn \in Turns /\ outcome[turn] = "open"
        BY <1>7 DEF Commits, Flow, EndsWith
    <2> QED
        BY <1>7, <2>1 DEF Commits, Settles, Novel, MemoryType
<1>8. ASSUME NEW o \in {"failed", "cancelled"}, Stops(o) PROVE Novel'
    BY <1>8 DEF Stops, Settles, Novel, Flow, MemoryType
<1>9. CASE Evicted
    BY <1>9 DEF Evicted, Novel, stream
<1>10. CASE Crash
    <2>1. UNCHANGED <<thread, checkpoint>> /\ seed' = <<>>
        BY <1>10 DEF Crash
    <2>2. CASE phase = "idle" /\ UNCHANGED <<stream, outcome>>
        BY <2>1, <2>2 DEF Novel, stream
    <2>3. ASSUME NEW o \in {"interrupted", "completed"}, phase # "idle" /\ Settles(o)
          PROVE  Novel'
        BY <2>1, <2>3 DEF Settles, Novel, Flow, MemoryType
    <2> QED
        BY <1>10, <2>2, <2>3 DEF Crash
<1>11. CASE UNCHANGED vars
    BY <1>11 DEF vars, runtime, stream, Novel
<1> QED
    BY <1>1, <1>2, <1>3, <1>4, <1>5, <1>6, <1>7, <1>8, <1>9, <1>10, <1>11 DEF Next

LEMMA StepRefines == IInv /\ Novel /\ [Next]_vars => [Talk!ConversationNext]_(Talk!talk)
<1> SUFFICES ASSUME IInv, Novel, [Next]_vars PROVE [Talk!ConversationNext]_(Talk!talk)
    OBVIOUS
<1> MemoryType /\ Flow
    BY DEF IInv
<1> USE DEF Talk!ConversationNext, Talk!talk
<1>1. ASSUME NEW q \in Turns, Opens(q) PROVE Talk!Asks(q)
    BY <1>1 DEF Opens, Novel, Talk!Asks
<1>2. CASE Records
    BY <1>2, RecordsSays DEF Records, Remembered, Talk!Says, Talk!Heard
<1>3. ASSUME turn \in Turns, phase = "answered", Settles("completed"),
             thread' = thread, checkpoint' \in {checkpoint, thread}
      PROVE  Talk!Completes(turn)
    <2>1. outcome[turn] = "open" /\ thread # <<>> /\ thread[Len(thread)] = turn
        BY <1>3 DEF Flow, EndsWith, Last
    <2> QED
        BY <1>3, <2>1 DEF Settles, Talk!Completes
<1>4. ASSUME NEW o \in {"failed", "cancelled", "interrupted"}, phase # "idle", Settles(o),
             UNCHANGED <<thread, checkpoint>>
      PROVE  turn \in Turns /\ Talk!Fails(turn)
    BY <1>4 DEF Flow, Settles, Talk!Fails
<1>5. CASE Commits
    <2>1. turn \in Turns /\ messages = thread
        BY <1>5 DEF Commits, Flow
    <2> QED
        BY <1>3, <1>5, <2>1 DEF Commits
<1>6. ASSUME NEW o \in {"failed", "cancelled"}, Stops(o)
      PROVE  \E q \in Turns : Talk!Fails(q)
    BY <1>4, <1>6 DEF Stops
<1>7. CASE Crash
    <2>1. UNCHANGED <<thread, checkpoint>>
        BY <1>7 DEF Crash
    <2>2. CASE phase = "idle" /\ UNCHANGED <<stream, outcome>>
        BY <2>1, <2>2
    <2>3. CASE phase # "idle" /\ Settles("interrupted")
        BY <1>4, <2>1, <2>3
    <2>4. CASE phase = "answered" /\ Settles("completed")
        BY <1>3, <2>1, <2>4 DEF Flow
    <2> QED
        BY <1>7, <2>2, <2>3, <2>4 DEF Crash
<1>8. CASE Reads \/ Pauses \/ Resumes \/ Answers \/ Evicted \/ UNCHANGED vars
    BY <1>8 DEF Reads, Pauses, Resumes, Answers, Evicted, vars
<1> QED
    BY <1>1, <1>2, <1>5, <1>6, <1>7, <1>8 DEF Next

\* Cached or evicted, seeded or not, retried, stopped or restarted, the runtime over
\* its thread and its checkpoint is one conversation, in which no turn is said twice
\* and none that completed is lost (deep_runtime.py, _input_messages; ADR 0015).
THEOREM MemoryIsOneConversation == Spec => ConversationRefined
<1>1. Init => Talk!ConversationInit
    BY DEF Init, Talk!ConversationInit
<1>2. Spec => [](IInv /\ Novel)
    BY InitInv, NextInv, InitNovel, NextNovel, PTL DEF Spec
<1> QED
    BY <1>1, <1>2, StepRefines, PTL DEF Spec, ConversationRefined, Talk!ConversationSpec

-----------------------------------------------------------------------------
(* Induction, from the fact that numbers are well ordered.                 *)

\* Of a set of numbers one is the least.
LEMMA LeastNat ==
  ASSUME NEW T \in SUBSET Nat, T # {}
  PROVE  \E m \in T : \A n \in T : m <= n
<1> DEFINE R == OpToRel(<, Nat)
<1>1. IsWellFoundedOn(R, Nat)
  BY NatLessThanWellFounded
<1>2. PICK m \in T : \A n \in T : <<n, m>> \notin R
  <2> HIDE DEF R
  <2> QED BY <1>1, WFMin
<1>3. \A n \in T : ~(n < m)
  BY <1>2 DEF OpToRel
<1> QED BY <1>3

\* And if they have a bound, one is the greatest.
LEMMA GreatestNat ==
  ASSUME NEW T \in SUBSET Nat, T # {}, NEW b \in Nat, \A n \in T : n <= b
  PROVE  \E m \in T : \A n \in T : n <= m
<1> DEFINE U == {b - n : n \in T}
<1>0. \A n \in T : b - n \in Nat
  OBVIOUS
<1>1. U \in SUBSET Nat /\ U # {}
  BY <1>0
<1>2. PICK u \in U : \A v \in U : u <= v
  <2> HIDE DEF U
  <2> QED BY <1>1, LeastNat
<1>3. PICK m \in T : u = b - m
  OBVIOUS
<1>4. \A n \in T : b - m <= b - n
  BY <1>2, <1>3
<1> QED BY <1>4

\* With the first number and the successors of its members a set has all numbers.
LEMMA Inductive ==
  ASSUME NEW T, 0 \in T, \A n \in Nat : n \in T => n + 1 \in T
  PROVE  Nat \subseteq T
<1> SUFFICES ASSUME Nat \ T # {} PROVE FALSE
  OBVIOUS
<1>1. PICK m \in Nat \ T : \A n \in Nat \ T : m <= n
  BY LeastNat
<1>2. m # 0 /\ m - 1 \in Nat /\ m - 1 \in T
  BY <1>1
<1> QED BY <1>1, <1>2

-----------------------------------------------------------------------------
(* The transcript of an Expert.                                            *)

\* All of s is found in t, in its order.
Embeds(s, t) ==
    \E f \in [1..Len(s) -> 1..Len(t)] :
        /\ \A i, j \in 1..Len(s) : i < j => f[i] < f[j]
        /\ \A i \in 1..Len(s) : t[f[i]] = s[i]

LEMMA EmbedsLonger ==
  ASSUME NEW M, NEW s \in Seq(M), NEW t \in Seq(M), NEW u \in Seq(M), Embeds(s, t)
  PROVE  Embeds(s, t \o u)
<1>1. PICK f \in [1..Len(s) -> 1..Len(t)] :
          /\ \A i, j \in 1..Len(s) : i < j => f[i] < f[j]
          /\ \A i \in 1..Len(s) : t[f[i]] = s[i]
  BY DEF Embeds
<1>2. Len(t \o u) = Len(t) + Len(u) /\ \A k \in 1..Len(t) : (t \o u)[k] = t[k]
  OBVIOUS
<1> DEFINE h == t \o u
<1> HIDE DEF h
<1>3. f \in [1..Len(s) -> 1..Len(h)]
  BY <1>2 DEF h
<1>4. \A i \in 1..Len(s) : h[f[i]] = s[i]
  BY <1>1, <1>2 DEF h
<1>5. Embeds(s, h)
  BY <1>1, <1>3, <1>4 DEF Embeds
<1> QED BY <1>5 DEF h

LEMMA EmbedsSelf == ASSUME NEW M, NEW s \in Seq(M) PROVE Embeds(s, s)
<1> DEFINE f == [i \in 1..Len(s) |-> i]
<1>1. f \in [1..Len(s) -> 1..Len(s)]
  OBVIOUS
<1> QED BY <1>1 DEF Embeds

\* A conversation with another end is found when that end is added.
LEMMA EmbedsReplaced ==
  ASSUME NEW M, NEW s \in Seq(M), NEW t \in Seq(M), NEW m \in Seq(M),
         NEW p \in 0..Len(s), p <= Len(m), SubSeq(s, 1, p) = SubSeq(m, 1, p),
         Embeds(s, t)
  PROVE  Embeds(m, t \o SubSeq(m, p + 1, Len(m)))
<1> DEFINE rest == SubSeq(m, p + 1, Len(m))
           h == t \o rest
<1>1. PICK f \in [1..Len(s) -> 1..Len(t)] :
          /\ \A i, j \in 1..Len(s) : i < j => f[i] < f[j]
          /\ \A i \in 1..Len(s) : t[f[i]] = s[i]
  BY DEF Embeds
<1>2. Len(s) \in Nat /\ Len(t) \in Nat /\ Len(m) \in Nat
  OBVIOUS
<1>3. rest \in Seq(M) /\ Len(rest) = Len(m) - p
      /\ \A k \in 1..(Len(m) - p) : rest[k] = m[p + k]
  BY <1>2
<1>4. \A i \in 1..p : s[i] = m[i]
  <2>1. \A i \in 1..p : SubSeq(s, 1, p)[i] = s[i] /\ SubSeq(m, 1, p)[i] = m[i]
    BY <1>2
  <2> QED BY <2>1
<1> HIDE DEF rest
<1>4a. h \in Seq(M)
  BY <1>3
<1>4b. Len(h) = Len(t) + Len(rest)
  BY <1>3
<1>5. h \in Seq(M) /\ Len(h) = Len(t) + (Len(m) - p)
  BY <1>4a, <1>4b, <1>3
<1>6. \A k \in 1..Len(t) : h[k] = t[k]
  BY <1>3
<1>7. \A k \in 1..(Len(m) - p) : h[Len(t) + k] = m[p + k]
  BY <1>2, <1>3
<1> HIDE DEF h
<1> DEFINE g == [i \in 1..Len(m) |-> IF i <= p THEN f[i] ELSE Len(t) + (i - p)]
<1>e. \A i \in 1..p : i \in 1..Len(m) /\ i \in 1..Len(s) /\ i <= p
  BY <1>2
<1>a. \A i \in 1..p : i \in 1..Len(m) /\ i \in 1..Len(s) /\ f[i] \in 1..Len(t) /\ g[i] = f[i]
  BY <1>e
<1>b. \A i \in 1..Len(m) : i > p => g[i] = Len(t) + (i - p) /\ i - p \in 1..(Len(m) - p)
  BY <1>2
<1>c. \A i \in 1..Len(m) : i \in 1..p \/ i > p
  BY <1>2
<1>d. g = [i \in 1..Len(m) |-> g[i]]
  OBVIOUS
<1> HIDE DEF g
<1>8. g \in [1..Len(m) -> 1..Len(h)]
  <2>1. \A i \in 1..Len(m) : g[i] \in 1..Len(h)
    BY <1>2, <1>5, <1>a, <1>b, <1>c
  <2> QED BY <2>1, <1>d
<1>9. ASSUME NEW i \in 1..Len(m), NEW j \in 1..Len(m), i < j PROVE g[i] < g[j]
  <2>1. CASE i \in 1..p /\ j \in 1..p
    BY <1>1, <1>9, <1>a, <2>1
  <2>2. CASE i \in 1..p /\ j > p
    BY <1>2, <1>a, <1>b, <2>2
  <2>3. CASE i > p /\ j > p
    BY <1>2, <1>9, <1>b, <2>3
  <2>4. CASE i > p /\ j \in 1..p
    BY <1>2, <1>9, <2>4
  <2> QED BY <1>c, <2>1, <2>2, <2>3, <2>4
<1>10. ASSUME NEW i \in 1..Len(m) PROVE h[g[i]] = m[i]
  <2>1. CASE i \in 1..p
    <3>1. h[g[i]] = t[f[i]]
      BY <2>1, <1>a, <1>6
    <3> QED BY <3>1, <2>1, <1>1, <1>a, <1>4
  <2>2. CASE i > p
    <3>1. h[g[i]] = m[p + (i - p)]
      BY <2>2, <1>b, <1>7
    <3>2. p + (i - p) = i
      BY <1>2
    <3> QED BY <3>1, <3>2
  <2> QED BY <2>1, <2>2, <1>c
<1>11. Embeds(m, h)
  BY <1>8, <1>9, <1>10 DEF Embeds
<1> QED BY <1>11 DEF h, rest

\* A save adds to what the transcript tells what follows the part in common.
LEMMA AppendedToTold ==
  ASSUME NEW M, NEW saved \in Seq(M), NEW m \in Seq(M), NEW history \in Seq(M)
  PROVE  \E p \in 0..Len(saved) :
             /\ p <= Len(m) /\ SubSeq(saved, 1, p) = SubSeq(m, 1, p)
             /\ Appended(saved, m, history)
                = Transcript(saved, history) \o SubSeq(m, p + 1, Len(m))
<1> DEFINE common == {n \in 0..Len(saved) : n <= Len(m)
                                         /\ SubSeq(saved, 1, n) = SubSeq(m, 1, n)}
           p == CHOOSE n \in common : \A k \in common : k <= n
<1>1. Len(saved) \in Nat /\ Len(m) \in Nat
  OBVIOUS
<1>2. 0 \in common /\ common \in SUBSET Nat /\ \A n \in common : n <= Len(saved)
  BY <1>1
<1>3. \E n \in common : \A k \in common : k <= n
  <2> HIDE DEF common
  <2> QED BY <1>1, <1>2, GreatestNat
<1>4. p \in common
  <2> HIDE DEF common
  <2> QED BY <1>3
<1>5. Appended(saved, m, history)
      = (history \o (IF history = <<>> THEN saved ELSE <<>>)) \o SubSeq(m, p + 1, Len(m))
  BY DEF Appended
<1>6. history \o (IF history = <<>> THEN saved ELSE <<>>) = Transcript(saved, history)
  BY DEF Transcript
<1> HIDE DEF p
<1> QED BY <1>4, <1>5, <1>6

\* What the transcript tells, it tells after the next save, and that save as well.
LEMMA AppendedTellsMore ==
  ASSUME NEW M, NEW saved \in Seq(M), NEW m \in Seq(M), NEW history \in Seq(M),
         history = <<>> \/ Embeds(saved, history)
  PROVE  /\ Appended(saved, m, history) \in Seq(M)
         /\ Embeds(m, Appended(saved, m, history))
         /\ Transcript(m, Appended(saved, m, history)) = Appended(saved, m, history)
<1> DEFINE next == Appended(saved, m, history)
           told == Transcript(saved, history)
<1>1. PICK p \in 0..Len(saved) : /\ p <= Len(m) /\ SubSeq(saved, 1, p) = SubSeq(m, 1, p)
                                 /\ next = told \o SubSeq(m, p + 1, Len(m))
  BY AppendedToTold
<1>2. told \in Seq(M) /\ Embeds(saved, told)
  BY EmbedsSelf DEF Transcript
<1> HIDE DEF told, next
<1>3. SubSeq(m, p + 1, Len(m)) \in Seq(M)
  BY <1>1
<1>4. Embeds(m, next)
  BY <1>1, <1>2, EmbedsReplaced
<1>5. next \in Seq(M)
  BY <1>1, <1>2, <1>3
<1>6. ASSUME next = <<>> PROVE m = <<>>
  <2>1. PICK f \in [1..Len(m) -> 1..Len(next)] : TRUE
    BY <1>4 DEF Embeds
  <2>2. 1..Len(next) = {}
    BY <1>6
  <2>3. 1 \notin 1..Len(m)
    BY <2>1, <2>2
  <2>4. Len(m) = 0
    BY <2>3
  <2> QED BY <2>4
<1>7. Transcript(m, next) = next
  BY <1>6 DEF Transcript
<1> QED BY <1>4, <1>5, <1>7 DEF next, told

\* It only grows, and so does the history.
LEMMA AppendedGrows ==
  ASSUME NEW M, NEW saved \in Seq(M), NEW m \in Seq(M), NEW history \in Seq(M)
  PROVE  \E more \in Seq(M) : Appended(saved, m, history) = Transcript(saved, history) \o more
<1> DEFINE told == Transcript(saved, history)
<1>1. PICK p \in 0..Len(saved) : /\ p <= Len(m)
                                 /\ Appended(saved, m, history) = told \o SubSeq(m, p + 1, Len(m))
  BY AppendedToTold
<1> HIDE DEF told
<1>2. SubSeq(m, p + 1, Len(m)) \in Seq(M)
  BY <1>1
<1>3. \E more \in Seq(M) : Appended(saved, m, history) = told \o more
  BY <1>1, <1>2
<1> QED BY <1>3 DEF told

LEMMA AppendedExtends ==
  ASSUME NEW M, NEW saved \in Seq(M), NEW m \in Seq(M), NEW history \in Seq(M)
  PROVE  \E new \in Seq(M) : Appended(saved, m, history) = history \o new
<1> DEFINE next == Appended(saved, m, history)
           first == IF history = <<>> THEN saved ELSE <<>>
<1>1. PICK more \in Seq(M) : next = Transcript(saved, history) \o more
  BY AppendedGrows
<1>2. Transcript(saved, history) = history \o first /\ first \in Seq(M)
  BY DEF Transcript
<1> HIDE DEF next, first
<1>3. (history \o first) \o more = history \o (first \o more) /\ first \o more \in Seq(M)
  BY <1>2
<1>4. \E new \in Seq(M) : next = history \o new
  BY <1>1, <1>2, <1>3
<1> QED BY <1>4 DEF next

\* What was saved as s, with the history before, is told by the history now.
Tells(s, before, saved, history, M) ==
    /\ Embeds(s, Transcript(saved, history))
    /\ \E new \in Seq(M) : history = before \o new

LEMMA TellsOn ==
  ASSUME NEW M, NEW s \in Seq(M), NEW before \in Seq(M), NEW saved \in Seq(M),
         NEW m \in Seq(M), NEW history \in Seq(M),
         history = <<>> \/ Embeds(saved, history), Tells(s, before, saved, history, M)
  PROVE  Tells(s, before, m, Appended(saved, m, history), M)
<1> DEFINE next == Appended(saved, m, history)
           told == Transcript(saved, history)
<1>1. PICK more \in Seq(M) : next = told \o more
  BY AppendedGrows
<1>2. \E new \in Seq(M) : next = history \o new
  BY AppendedExtends
<1>3. PICK add \in Seq(M) : history = before \o add
  BY DEF Tells
<1>4. Transcript(m, next) = next
  BY AppendedTellsMore
<1>5. Embeds(s, told) /\ told \in Seq(M)
  BY DEF Tells, Transcript
<1> HIDE DEF next, told
<1>6. Embeds(s, next)
  BY <1>1, <1>5, EmbedsLonger
<1>7. \A new \in Seq(M) : /\ (before \o add) \o new = before \o (add \o new)
                          /\ add \o new \in Seq(M)
  OBVIOUS
<1>8. \E n \in Seq(M) : next = before \o n
  BY <1>2, <1>3, <1>7
<1>9. Tells(s, before, m, next, M)
  BY <1>4, <1>6, <1>8 DEF Tells
<1> QED BY <1>9 DEF next

LEMMA TellsItself ==
  ASSUME NEW M, NEW saved \in Seq(M), NEW m \in Seq(M), NEW history \in Seq(M),
         history = <<>> \/ Embeds(saved, history)
  PROVE  Tells(m, Appended(saved, m, history), m, Appended(saved, m, history), M)
<1> DEFINE next == Appended(saved, m, history)
<1>1. Transcript(m, next) = next
  BY AppendedTellsMore
<1>2. next \in Seq(M) /\ Embeds(m, next)
  BY AppendedTellsMore
<1> HIDE DEF next
<1>3. next = next \o <<>> /\ <<>> \in Seq(M)
  BY <1>2
<1>4. Tells(m, next, m, next, M)
  BY <1>1, <1>2, <1>3 DEF Tells
<1> QED BY <1>4 DEF next

\* Every conversation that an Expert ever saved, also one that a later save cut or
\* replaced, is found in its transcript, message by message and in order, and the
\* history is never rewritten (store.py, save_expert_session_checkpoint).
THEOREM TranscriptTellsEverySave ==
  ASSUME NEW M, NEW save \in [Nat -> Seq(M)], NEW history, history[0] = <<>>,
         \A n \in Nat : history[n + 1] = Appended(save[n], save[n + 1], history[n])
  PROVE  \A n \in Nat : \A i \in 0..n :
             /\ Embeds(save[i], Transcript(save[n], history[n]))
             /\ \E new \in Seq(M) : history[n] = history[i] \o new
<1> DEFINE Kept(n) == /\ history[n] = <<>> \/ Embeds(save[n], history[n])
                      /\ \A i \in 0..n : /\ history[i] \in Seq(M)
                                         /\ Tells(save[i], history[i], save[n], history[n], M)
           T == {n \in Nat : Kept(n)}
<1>1. Kept(0)
  <2> DEFINE first == save[0]
  <2>1. first \in Seq(M) /\ <<>> \in Seq(M)
    OBVIOUS
  <2>1a. <<>> = <<>> \o <<>>
    OBVIOUS
  <2> HIDE DEF first
  <2>2. Embeds(first, Transcript(first, <<>>))
    BY <2>1, EmbedsSelf DEF Transcript
  <2>3. Tells(first, <<>>, first, <<>>, M)
    BY <2>1, <2>1a, <2>2 DEF Tells
  <2>4. \A i \in 0..0 : i = 0
    OBVIOUS
  <2> QED BY <2>1, <2>3, <2>4 DEF first
<1>2. ASSUME NEW n \in Nat, Kept(n) PROVE Kept(n + 1)
  <2> DEFINE saved == save[n]
             m == save[n + 1]
             had == history[n]
             next == Appended(saved, m, had)
  <2>0. n + 1 \in Nat /\ \A i \in 0..n : i \in Nat
    OBVIOUS
  <2>1. saved \in Seq(M) /\ m \in Seq(M)
    BY <2>0
  <2>2. n \in 0..n
    OBVIOUS
  <2>3. had \in Seq(M) /\ (had = <<>> \/ Embeds(saved, had))
    BY <1>2, <2>2
  <2>4. history[n + 1] = next
    OBVIOUS
  <2>5. \A i \in 0..n : history[i] \in Seq(M) /\ save[i] \in Seq(M)
                        /\ Tells(save[i], history[i], saved, had, M)
    BY <1>2, <2>0, Zenon
  <2>6. \A i \in 0..(n + 1) : i = n + 1 \/ i \in 0..n
    OBVIOUS
  <2> HIDE DEF saved, m, had
  <2>7. next \in Seq(M) /\ Embeds(m, next)
    BY <2>1, <2>3, AppendedTellsMore
  <2>8. Tells(m, next, m, next, M)
    BY <2>1, <2>3, TellsItself
  <2>9. \A i \in 0..n : Tells(save[i], history[i], m, next, M)
    BY <2>1, <2>3, <2>5, TellsOn
  <2> HIDE DEF next
  <2>10. \A i \in 0..(n + 1) : history[i] \in Seq(M) /\ Tells(save[i], history[i], m, next, M)
    BY <2>4, <2>5, <2>6, <2>7, <2>8, <2>9, Zenon DEF m
  <2> QED BY <2>4, <2>7, <2>10 DEF m
<1> HIDE DEF Kept
<1>3. 0 \in T /\ \A n \in Nat : n \in T => n + 1 \in T
  BY <1>1, <1>2
<1>4. Nat \subseteq T
  <2> HIDE DEF T
  <2> QED BY <1>3, Inductive
<1> QED BY <1>4 DEF Kept, Tells

-----------------------------------------------------------------------------
(* The record of a workspace.  P are the providers, K what a policy may     *)
(* allow, R the requests.                                                   *)

ByClient(v, w, P, K, R) ==
    \E e \in Nat \cup {Nobody} :
        \/ \E path : path # "" /\ w = Opened(v, path, e)
        \/ \E slot, ref, rows : w = Activated(v, slot, ref, rows, e)
        \/ \E p \in P, k \in K, r \in R : w = Confirmed(v, p, k, r, e)

ByTurn(v, w, P) == \E p \in P : w = InForceFor(v, p)

\* It was never opened.
Shut(w) == w.path = ""

IsWorkspace(w, P, K, R) ==
    /\ w \in [path : {w.path}, revision : Nat, active : {w.active},
              policies : Seq([provider : P, allows : K, by : R \cup {Nobody}]), current : Nat]
    /\ w.current = Len(w.policies)
    /\ Shut(w) => w.policies = <<>>

\* Versions stay as they are, in their order.
Keeps(v, w) ==
    /\ v.revision <= w.revision /\ Len(v.policies) <= Len(w.policies)
    /\ \A i \in 1..Len(v.policies) : w.policies[i] = v.policies[i]

\* w with one more policy.
Added(w, policy, revision) ==
    [path |-> w.path, revision |-> revision, active |-> w.active,
     policies |-> Append(w.policies, policy), current |-> Len(w.policies) + 1]

LEMMA AddsPolicy ==
  ASSUME NEW P, NEW K, NEW R, NEW w, IsWorkspace(w, P, K, R), ~Shut(w),
         NEW policy \in [provider : P, allows : K, by : R \cup {Nobody}],
         NEW r \in Nat, w.revision <= r
  PROVE  /\ IsWorkspace(Added(w, policy, r), P, K, R) /\ Keeps(w, Added(w, policy, r))
         /\ Len(Added(w, policy, r).policies) = Len(w.policies) + 1
         /\ Added(w, policy, r).policies[Len(w.policies) + 1] = policy
<1> DEFINE ps == w.policies
           n == Len(ps)
           qs == Append(ps, policy)
           Policies == [provider : P, allows : K, by : R \cup {Nobody}]
           v == [path |-> w.path, revision |-> r, active |-> w.active,
                 policies |-> qs, current |-> n + 1]
<1>1. Added(w, policy, r) = v
  BY DEF Added
<1>2. ps \in Seq(Policies) /\ n \in Nat
  BY DEF IsWorkspace
<1> HIDE DEF ps, Policies
<1>3. qs \in Seq(Policies) /\ Len(qs) = n + 1 /\ qs[n + 1] = policy
      /\ \A i \in 1..n : qs[i] = ps[i]
  BY <1>2 DEF Policies
<1> HIDE DEF qs
<1>4. IsWorkspace(v, P, K, R)
  <2>1. v.path = w.path
    OBVIOUS
  <2>2. ~Shut(v)
    BY <2>1, Zenon DEF Shut
  <2> QED BY <1>3, <2>2 DEF IsWorkspace, Policies
<1>5. Keeps(w, v)
  BY <1>2, <1>3 DEF Keeps, IsWorkspace, ps
<1> QED BY <1>1, <1>3, <1>4, <1>5 DEF ps

\* The request that is named in a policy confirmed it, when v became w.
Confirms(v, w, policy) == w = Added(v, policy, v.revision + 1)

\* What a client changes it changes once for each revision it has seen.
LEMMA ClientStep ==
  ASSUME NEW P, NEW K, NEW R, Nobody \notin Nat, NEW v, NEW w,
         IsWorkspace(v, P, K, R), ByClient(v, w, P, K, R)
  PROVE  /\ IsWorkspace(w, P, K, R) /\ Keeps(v, w)
         /\ w # v => w.revision = v.revision + 1
         /\ w.policies # v.policies =>
                \E policy \in [provider : P, allows : K, by : R] :
                    /\ w.policies = Append(v.policies, policy) /\ Confirms(v, w, policy)
<1>1. PICK e \in Nat \cup {Nobody} :
          \/ \E path : path # "" /\ w = Opened(v, path, e)
          \/ \E slot, ref, rows : w = Activated(v, slot, ref, rows, e)
          \/ \E p \in P, k \in K, r \in R : w = Confirmed(v, p, k, r, e)
  BY DEF ByClient
<1>2. Keeps(v, v)
  BY DEF Keeps, IsWorkspace
<1>3. CASE w = v
  BY <1>2, <1>3, Zenon
<1>4. CASE w # v /\ \E path : path # "" /\ w = Opened(v, path, e)
  <2>1. PICK path : path # "" /\ w = Opened(v, path, e)
    BY <1>4
  <2>2. w = [v EXCEPT !.path = path, !.revision = @ + 1]
    BY <1>4, <2>1, Zenon DEF Opened
  <2>3. w = [path |-> path, revision |-> v.revision + 1, active |-> v.active,
             policies |-> v.policies, current |-> v.current]
    BY <2>2 DEF IsWorkspace
  <2>4. w.path = path
    BY <2>3
  <2>5. ~Shut(w)
    BY <2>1, <2>4, Zenon DEF Shut
  <2>6. IsWorkspace(w, P, K, R) /\ Keeps(v, w)
    BY <2>3, <2>5 DEF IsWorkspace, Keeps
  <2>7. w.revision = v.revision + 1 /\ w.policies = v.policies
    BY <2>3
  <2> QED BY <2>6, <2>7
<1>5. CASE w # v /\ \E slot, ref, rows : w = Activated(v, slot, ref, rows, e)
  <2>1. PICK slot, ref, rows : w = Activated(v, slot, ref, rows, e)
    BY <1>5
  <2>2. /\ ~Shut(v)
        /\ w = [v EXCEPT !.active = [s \in DOMAIN @ \cup {slot} |-> IF s = slot THEN ref ELSE @[s]],
                         !.revision = @ + 1]
    BY <1>5, <2>1, Zenon DEF Activated, Shut
  <2>3. PICK a : w = [path |-> v.path, revision |-> v.revision + 1, active |-> a,
                      policies |-> v.policies, current |-> v.current]
    BY <2>2 DEF IsWorkspace
  <2>4. w.path = v.path
    BY <2>3
  <2>5. ~Shut(w)
    BY <2>2, <2>4, Zenon DEF Shut
  <2> QED BY <2>3, <2>5 DEF IsWorkspace, Keeps
<1>6. CASE w # v /\ \E p \in P, k \in K, r \in R : w = Confirmed(v, p, k, r, e)
  <2>1. PICK p \in P, k \in K, r \in R : w = Confirmed(v, p, k, r, e)
    BY <1>6
  <2> DEFINE policy == [provider |-> p, allows |-> k, by |-> r]
  <2>2. /\ ~Shut(v)
        /\ w = [v EXCEPT !.policies = Append(@, policy), !.current = Len(v.policies) + 1,
                         !.revision = @ + 1]
    BY <1>6, <2>1, Zenon DEF Confirmed, Shut
  <2>3. policy \in [provider : P, allows : K, by : R]
        /\ policy \in [provider : P, allows : K, by : R \cup {Nobody}]
    OBVIOUS
  <2> HIDE DEF policy
  <2>4. w = Added(v, policy, v.revision + 1)
    BY <2>2 DEF IsWorkspace, Added
  <2>5. v.revision \in Nat
    BY DEF IsWorkspace
  <2>6. IsWorkspace(w, P, K, R) /\ Keeps(v, w)
    BY <2>2, <2>3, <2>4, <2>5, AddsPolicy
  <2>7. w.revision = v.revision + 1 /\ w.policies = Append(v.policies, policy)
    BY <2>4 DEF Added
  <2> QED BY <2>3, <2>4, <2>6, <2>7 DEF Confirms
<1> QED BY <1>1, <1>3, <1>4, <1>5, <1>6

\* What nobody has set, and what a turn works under.
Own(p) == [provider |-> p, allows |-> Default, by |-> Nobody]

Works(w, p) == w.current \in 1..Len(w.policies) /\ w.policies[w.current].provider = p

AddsAtMost(v, w, policy) == w = v \/ w.policies = Append(v.policies, policy)

\* A turn gets a policy of its provider, which allows nothing by itself.
LEMMA TurnStep ==
  ASSUME NEW P, NEW K, NEW R, Default \in K, NEW v, IsWorkspace(v, P, K, R), NEW p \in P,
         NEW w, w = InForceFor(v, p)
  PROVE  /\ IsWorkspace(w, P, K, R) /\ Keeps(v, w)
         /\ ~Shut(v) => Works(w, p)
         /\ AddsAtMost(v, w, Own(p))
<1> DEFINE own == Own(p)
<1>1. CASE Shut(v) \/ (v.current # 0 /\ v.policies[v.current].provider = p)
  <2>1. w = v
    BY <1>1, Zenon DEF InForceFor, Shut
  <2>2. Keeps(v, v)
    BY DEF Keeps, IsWorkspace
  <2>3. v.current = 0 \/ v.current \in 1..Len(v.policies)
    BY DEF IsWorkspace
  <2> QED BY <1>1, <2>1, <2>2, <2>3 DEF Works, AddsAtMost
<1>2. CASE ~(Shut(v) \/ (v.current # 0 /\ v.policies[v.current].provider = p))
  <2>1. w = [v EXCEPT !.policies = Append(@, own), !.current = Len(v.policies) + 1]
    BY <1>2, Zenon DEF InForceFor, Shut, Own
  <2> HIDE DEF own
  <2>2. w = Added(v, own, v.revision)
    BY <2>1 DEF IsWorkspace, Added
  <2>3. own \in [provider : P, allows : K, by : R \cup {Nobody}] /\ own.provider = p
    BY DEF own, Own
  <2>4. v.revision \in Nat /\ v.revision <= v.revision /\ Len(v.policies) \in Nat
    BY DEF IsWorkspace
  <2>5. /\ IsWorkspace(w, P, K, R) /\ Keeps(v, w)
        /\ Len(w.policies) = Len(v.policies) + 1 /\ w.policies[Len(v.policies) + 1] = own
    BY <1>2, <2>2, <2>3, <2>4, AddsPolicy
  <2>6. w.policies = Append(v.policies, own) /\ w.current = Len(v.policies) + 1
    BY <2>2 DEF Added
  <2>7. w.current \in 1..Len(w.policies)
    BY <2>4, <2>5, <2>6
  <2> QED BY <2>3, <2>5, <2>6, <2>7 DEF own, Works, AddsAtMost
<1> QED BY <1>1, <1>2

\* The life of a workspace: what clients change, and the turns that begin in it.
Lives(w, P, K, R) ==
    /\ w[0] = Closed
    /\ \A n \in Nat : ByClient(w[n], w[n + 1], P, K, R) \/ ByTurn(w[n], w[n + 1], P)

\* A policy that nobody confirmed allows the default, and any other was confirmed by
\* the request it names, for the provider it names, before step n.
Consented(policy, w, n, R) ==
    \/ policy.by = Nobody /\ policy.allows = Default
    \/ policy.by \in R /\ \E k \in 0..(n - 1) : Confirms(w[k], w[k + 1], policy)

AllConsented(ps, w, n, R) == \A i \in 1..Len(ps) : Consented(ps[i], w, n, R)

LEMMA KeepsOn ==
  ASSUME NEW P, NEW K, NEW R, NEW u, NEW v, NEW w,
         IsWorkspace(u, P, K, R), IsWorkspace(v, P, K, R), IsWorkspace(w, P, K, R),
         Keeps(u, v), Keeps(v, w)
  PROVE  Keeps(u, w)
<1>1. /\ Len(u.policies) \in Nat /\ Len(v.policies) \in Nat /\ Len(w.policies) \in Nat
      /\ u.revision \in Nat /\ v.revision \in Nat /\ w.revision \in Nat
  BY DEF IsWorkspace
<1> QED BY <1>1 DEF Keeps

LEMMA LongerConsented ==
  ASSUME NEW P, NEW K, NEW R, NEW w, NEW n \in Nat, NEW ps, AllConsented(ps, w, n, R)
  PROVE  AllConsented(ps, w, n + 1, R)
<1>1. 0..(n - 1) \subseteq 0..((n + 1) - 1)
  OBVIOUS
<1> QED BY <1>1 DEF AllConsented, Consented

LEMMA AppendConsented ==
  ASSUME NEW S, NEW R, NEW w, NEW n \in Nat, NEW ps \in Seq(S), NEW policy \in S,
         AllConsented(ps, w, n, R), Consented(policy, w, n, R)
  PROVE  AllConsented(Append(ps, policy), w, n, R)
<1>1. /\ Len(Append(ps, policy)) = Len(ps) + 1 /\ Append(ps, policy)[Len(ps) + 1] = policy
      /\ \A i \in 1..Len(ps) : Append(ps, policy)[i] = ps[i]
      /\ \A i \in 1..(Len(ps) + 1) : i = Len(ps) + 1 \/ i \in 1..Len(ps)
  OBVIOUS
<1> QED BY <1>1 DEF AllConsented

\* A turn adds at most a policy that allows the default.
LEMMA TurnConsented ==
  ASSUME NEW P, NEW K, NEW R, Default \in K, NEW v, IsWorkspace(v, P, K, R), NEW p \in P,
         NEW w, NEW n \in Nat, AllConsented(v.policies, w, n, R)
  PROVE  AllConsented(InForceFor(v, p).policies, w, n, R)
<1> DEFINE own == Own(p)
           S == [provider : P, allows : K, by : R \cup {Nobody}]
<1>0. \A u : u = InForceFor(v, p) => AddsAtMost(v, u, Own(p))
  BY TurnStep
<1>1. AddsAtMost(v, InForceFor(v, p), Own(p))
  BY <1>0, Zenon
<1>2. v.policies \in Seq(S) /\ own \in S
  BY DEF IsWorkspace, Own
<1>3. Consented(own, w, n, R)
  BY DEF Consented, Own
<1> HIDE DEF S
<1> QED BY <1>1, <1>2, <1>3, AppendConsented DEF AddsAtMost

LEMMA ClosedIsSound ==
  ASSUME NEW P, NEW K, NEW R, NEW x, NEW v,
         v = [path |-> x, revision |-> 0, active |-> <<>>, policies |-> <<>>, current |-> 0]
  PROVE  IsWorkspace(v, P, K, R) /\ Keeps(v, v) /\ v.policies = <<>>
BY DEF IsWorkspace, Keeps

LEMMA LifeIsSound ==
  ASSUME NEW P, NEW K, NEW R, Default \in K, Nobody \notin Nat, NEW w, Lives(w, P, K, R)
  PROVE  \A n \in Nat : \A i \in 0..n :
             IsWorkspace(w[i], P, K, R) /\ Keeps(w[i], w[n]) /\ AllConsented(w[n].policies, w, n, R)
<1> DEFINE Good(n) == \A i \in 0..n :
               IsWorkspace(w[i], P, K, R) /\ Keeps(w[i], w[n]) /\ AllConsented(w[n].policies, w, n, R)
           T == {n \in Nat : Good(n)}
<1>1. Good(0)
  <2>1. \E x : Closed = [path |-> x, revision |-> 0, active |-> <<>>,
                                   policies |-> <<>>, current |-> 0]
    BY Zenon DEF Closed
  <2>2. IsWorkspace(Closed, P, K, R) /\ Keeps(Closed, Closed) /\ Closed.policies = <<>>
    BY <2>1, ClosedIsSound
  <2>3. AllConsented(Closed.policies, w, 0, R)
    BY <2>2 DEF AllConsented
  <2>5. \A i \in 0..0 : i = 0
    OBVIOUS
  <2>6. w[0] = Closed
    BY DEF Lives
  <2> QED BY <2>2, <2>3, <2>5, <2>6, Zenon
<1>2. ASSUME NEW n \in Nat, Good(n) PROVE Good(n + 1)
  <2> DEFINE v == w[n]
             u == w[n + 1]
  <2>1. n \in 0..n /\ n + 1 \in Nat /\ \A i \in 0..(n + 1) : i = n + 1 \/ i \in 0..n
    OBVIOUS
  <2>2. IsWorkspace(v, P, K, R) /\ AllConsented(v.policies, w, n, R)
    BY <1>2, <2>1, Zenon
  <2>3. AllConsented(v.policies, w, n + 1, R)
    BY <2>2, LongerConsented
  <2>4. IsWorkspace(u, P, K, R) /\ Keeps(v, u) /\ AllConsented(u.policies, w, n + 1, R)
    <3>1. CASE ByTurn(v, u, P)
      <4>1. PICK p \in P : u = InForceFor(v, p)
        BY <3>1 DEF ByTurn
      <4>2. IsWorkspace(u, P, K, R) /\ Keeps(v, u)
        <5> HIDE DEF u, v
        <5> QED BY <4>1, <2>2, TurnStep
      <4>3. AllConsented(u.policies, w, n + 1, R)
        <5> HIDE DEF u, v
        <5> QED BY <4>1, <2>1, <2>2, <2>3, TurnConsented
      <4> QED BY <4>2, <4>3
    <3>2. CASE ByClient(v, u, P, K, R)
      <4> DEFINE S == [provider : P, allows : K, by : R \cup {Nobody}]
      <4>1. /\ IsWorkspace(u, P, K, R) /\ Keeps(v, u)
            /\ u.policies # v.policies =>
                   \E policy \in [provider : P, allows : K, by : R] :
                       /\ u.policies = Append(v.policies, policy) /\ Confirms(v, u, policy)
        <5> HIDE DEF u, v
        <5> QED BY <2>2, <3>2, ClientStep
      <4>2. ASSUME NEW policy \in [provider : P, allows : K, by : R], Confirms(v, u, policy),
                   u.policies = Append(v.policies, policy)
            PROVE  AllConsented(u.policies, w, n + 1, R)
        <5>1. n \in 0..((n + 1) - 1)
          OBVIOUS
        <5>2. policy.by \in R /\ policy \in S
          OBVIOUS
        <5>3. Consented(policy, w, n + 1, R)
          BY <4>2, <5>1, <5>2 DEF Consented
        <5>4. v.policies \in Seq(S)
          BY <2>2 DEF IsWorkspace
        <5> HIDE DEF u, v, S
        <5> QED BY <2>1, <2>3, <4>2, <5>2, <5>3, <5>4, AppendConsented
      <4>3. u.policies = v.policies => AllConsented(u.policies, w, n + 1, R)
        BY <2>3
      <4> HIDE DEF u, v
      <4> QED BY <4>1, <4>2, <4>3
    <3> QED BY <3>1, <3>2 DEF Lives
  <2>5. Keeps(u, u)
    BY <2>4 DEF Keeps, IsWorkspace
  <2>6. \A i \in 0..n : IsWorkspace(w[i], P, K, R) /\ Keeps(w[i], v)
    BY <1>2, Zenon
  <2>7. \A i \in 0..n : Keeps(w[i], u)
    <3> HIDE DEF u, v
    <3> QED BY <2>2, <2>4, <2>6, KeepsOn
  <2> QED BY <2>1, <2>4, <2>5, <2>6, <2>7, Zenon
<1> HIDE DEF Good
<1>3. 0 \in T /\ \A n \in Nat : n \in T => n + 1 \in T
  BY <1>1, <1>2
<1>4. Nat \subseteq T
  <2> HIDE DEF T
  <2> QED BY <1>3, Inductive
<1> QED BY <1>4 DEF Good

\* Whatever clients and turns did before: a turn works under a policy of its own
\* provider, and one that allows more than the default was confirmed by a request,
\* for this provider and exactly so; and no version of a policy is ever changed
\* (store.py, commit_disclosure_policy, set_disclosure_policy; context.py).
THEOREM DisclosureNeedsConsent ==
  ASSUME NEW P, NEW K, NEW R, Default \in K, Nobody \notin Nat, NEW w, Lives(w, P, K, R),
         NEW n \in Nat, ~Shut(w[n]), NEW p \in P
  PROVE  LET now    == InForceFor(w[n], p)
             policy == now.policies[now.current]
         IN /\ policy.provider = p
            /\ policy.allows # Default =>
                   policy.by \in R /\ \E k \in 0..(n - 1) : Confirms(w[k], w[k + 1], policy)
            /\ \A i \in 0..n : Keeps(w[i], now)
<1> DEFINE v == w[n]
           now == InForceFor(v, p)
           policy == now.policies[now.current]
<1>1. n \in 0..n
  OBVIOUS
<1>2. /\ IsWorkspace(v, P, K, R) /\ AllConsented(v.policies, w, n, R)
      /\ \A i \in 0..n : IsWorkspace(w[i], P, K, R) /\ Keeps(w[i], v)
  BY <1>1, LifeIsSound, Zenon
<1>3. ~Shut(v)
  OBVIOUS
<1> HIDE DEF v
<1>4. /\ IsWorkspace(now, P, K, R) /\ Keeps(v, now)
      /\ now.current \in 1..Len(now.policies) /\ policy.provider = p
  <2>1. \A u : u = now => /\ IsWorkspace(u, P, K, R) /\ Keeps(v, u) /\ Works(u, p)
    BY <1>2, <1>3, TurnStep
  <2> QED BY <2>1, Zenon DEF Works
<1>5. AllConsented(now.policies, w, n, R)
  BY <1>2, TurnConsented
<1>6. Consented(policy, w, n, R)
  <2> HIDE DEF now
  <2> QED BY <1>4, <1>5 DEF AllConsented
<1>7. \A i \in 0..n : Keeps(w[i], now)
  <2> HIDE DEF now
  <2> QED BY <1>2, <1>4, KeepsOn
<1> HIDE DEF policy
<1>8. policy.allows # Default =>
          policy.by \in R /\ \E k \in 0..(n - 1) : Confirms(w[k], w[k + 1], policy)
  BY <1>6 DEF Consented
<1> QED BY <1>4, <1>7, <1>8, Zenon DEF v, policy

\* Of clients that have seen the same revision one changes the workspace, and it is
\* left as it is by all that name this revision after it (store.py,
\* commit_workspace_open, commit_active_ref, commit_disclosure_policy).
THEOREM StaleClientsChangeNothing ==
  ASSUME NEW P, NEW K, NEW R, Default \in K, Nobody \notin Nat, NEW w, Lives(w, P, K, R),
         NEW i \in Nat, NEW j \in Nat, i < j,
         ByClient(w[i], w[i + 1], P, K, R), w[i + 1] # w[i]
  PROVE  LET seen == w[i].revision
         IN /\ \A path : Opened(w[j], path, seen) = w[j]
            /\ \A slot, ref, rows : Activated(w[j], slot, ref, rows, seen) = w[j]
            /\ \A p, k, r : Confirmed(w[j], p, k, r, seen) = w[j]
<1>1. i + 1 \in Nat /\ i + 1 \in 0..j /\ i \in 0..i /\ j \in 0..j
  OBVIOUS
<1>2. IsWorkspace(w[i], P, K, R) /\ IsWorkspace(w[j], P, K, R) /\ Keeps(w[i + 1], w[j])
  BY <1>1, LifeIsSound, Zenon
<1>3. w[i + 1].revision = w[i].revision + 1
  <2> DEFINE v == w[i]
             u == w[i + 1]
  <2>1. IsWorkspace(v, P, K, R) /\ ByClient(v, u, P, K, R) /\ u # v
    BY <1>2
  <2> HIDE DEF u, v
  <2>2. u.revision = v.revision + 1
    BY <2>1, ClientStep
  <2> QED BY <2>2 DEF u, v
<1>4. w[i].revision \in Nat /\ w[j].revision \in Nat
  BY <1>2 DEF IsWorkspace
<1>5. w[i].revision # w[j].revision /\ w[i].revision # Nobody
  BY <1>2, <1>3, <1>4 DEF Keeps
<1>6. ~Sees(w[j], w[i].revision)
  BY <1>5 DEF Sees
<1> QED BY <1>6, Zenon DEF Opened, Activated, Confirmed

-----------------------------------------------------------------------------
(* The sources of a task.                                                  *)

Levels == {"local_reference", "materialized_snapshot"}

\* What an import asks for, and what it leaves; A are the values fields may have.
ImportsOf(A) == [id : A, task : A, level : Levels, scope : A, locator : A, print : A,
                 staged : BOOLEAN, names : BOOLEAN]
Rows(A)  == [level : Levels, scope : A, locator : A, print : A]
Links(A) == [task : A, row : Nat, relation : {"source"}, origin : A]

\* Every link leads to a row, and a task has one link to each of its sources.
LinkedOnce(rows, links) ==
    /\ \A i \in 1..Len(links) : links[i].row \in 1..Len(rows)
    /\ \A i, j \in 1..Len(links) :
           links[i].task = links[j].task /\ links[i].row = links[j].row => i = j

\* The import found the source as row k.
IsRowOf(rows, r, k) ==
    k \in 1..Len(rows) /\ rows[k] = [level |-> r.level, scope |-> r.scope,
                                     locator |-> r.locator, print |-> r.print]

LinksTo(rows, links, r) ==
    \E i \in 1..Len(links) : links[i].task = r.task /\ IsRowOf(rows, r, links[i].row)

Extended(s, t) == Len(s) <= Len(t) /\ \A i \in 1..Len(s) : t[i] = s[i]

LEMMA AppendIs ==
  ASSUME NEW S, NEW s \in Seq(S), NEW x \in S
  PROVE  /\ Append(s, x) \in Seq(S) /\ Len(s) \in Nat /\ Len(Append(s, x)) = Len(s) + 1
         /\ Append(s, x)[Len(s) + 1] = x /\ \A i \in 1..Len(s) : Append(s, x)[i] = s[i]
         /\ Extended(s, Append(s, x)) /\ Extended(s, s)
         /\ \A i \in 1..(Len(s) + 1) : i = Len(s) + 1 \/ i \in 1..Len(s)
BY DEF Extended

\* A link that is not there yet is added at the end.
LEMMA LinkedAdds ==
  ASSUME NEW A, NEW rows \in Seq(Rows(A)), NEW links \in Seq(Links(A)), LinkedOnce(rows, links),
         NEW more \in Seq(Rows(A)), Extended(rows, more), NEW r \in ImportsOf(A),
         NEW k \in Nat, IsRowOf(more, r, k),
         \A i \in 1..Len(links) : links[i].task = r.task => links[i].row # k,
         NEW l, l = [task |-> r.task, row |-> k, relation |-> "source", origin |-> r.id]
  PROVE  /\ Linked(links, l) \in Seq(Links(A)) /\ Extended(links, Linked(links, l))
         /\ LinkedOnce(more, Linked(links, l)) /\ LinksTo(more, Linked(links, l), r)
<1>1. l \in Links(A) /\ l.task = r.task /\ l.row = k
  BY DEF Links, ImportsOf
<1>2. l \notin ToSet(links)
  <2>1. ASSUME NEW i \in 1..Len(links), links[i] = l PROVE FALSE
    BY <1>1, <2>1
  <2> QED BY <2>1 DEF ToSet
<1>3. Linked(links, l) = Append(links, l)
  BY <1>2 DEF Linked
<1> DEFINE all == Append(links, l)
           n == Len(links)
<1>4. /\ all \in Seq(Links(A)) /\ n \in Nat /\ Len(all) = n + 1 /\ all[n + 1] = l
      /\ \A i \in 1..n : all[i] = links[i]
      /\ Extended(links, all) /\ \A i \in 1..(n + 1) : i = n + 1 \/ i \in 1..n
  BY <1>1, AppendIs
<1>5. Len(rows) \in Nat /\ Len(more) \in Nat /\ Len(rows) <= Len(more)
  BY DEF Extended
<1> HIDE DEF all, n
<1>6. \A i \in 1..n : /\ links[i].row \in 1..Len(more)
                      /\ links[i].task = r.task => links[i].row # k
  BY <1>5 DEF LinkedOnce, n
<1>7. k \in 1..Len(more)
  BY DEF IsRowOf
<1>8. \A i \in 1..Len(all) : all[i].row \in 1..Len(more)
  BY <1>1, <1>4, <1>6, <1>7
<1>9. \A i, j \in 1..n : links[i].task = links[j].task /\ links[i].row = links[j].row => i = j
  BY DEF LinkedOnce, n
<1>10. ASSUME NEW i \in 1..Len(all), NEW j \in 1..Len(all),
              all[i].task = all[j].task, all[i].row = all[j].row
       PROVE  i = j
  <2>1. (i = n + 1 \/ i \in 1..n) /\ (j = n + 1 \/ j \in 1..n)
    BY <1>4
  <2>2. CASE i \in 1..n /\ j \in 1..n
    <3>1. all[i] = links[i] /\ all[j] = links[j]
      BY <1>4, <2>2
    <3> QED BY <1>9, <1>10, <2>2, <3>1
  <2>3. CASE i = n + 1 /\ j \in 1..n
    <3>1. all[i] = l /\ all[j] = links[j]
      BY <1>4, <2>3
    <3> QED BY <1>1, <1>6, <1>10, <2>3, <3>1
  <2>4. CASE i \in 1..n /\ j = n + 1
    <3>1. all[i] = links[i] /\ all[j] = l
      BY <1>4, <2>4
    <3> QED BY <1>1, <1>6, <1>10, <2>4, <3>1
  <2> QED BY <2>1, <2>2, <2>3, <2>4
<1>11. LinkedOnce(more, all)
  BY <1>8, <1>10 DEF LinkedOnce
<1>12. n + 1 \in 1..Len(all) /\ all[n + 1].task = r.task /\ IsRowOf(more, r, all[n + 1].row)
  BY <1>1, <1>4
<1>13. LinksTo(more, all, r)
  BY <1>12 DEF LinksTo
<1> QED BY <1>3, <1>4, <1>11, <1>13 DEF all

\* One import.
LEMMA ImportStep ==
  ASSUME NEW A, NoTask \in A, NEW rows \in Seq(Rows(A)), NEW links \in Seq(Links(A)),
         LinkedOnce(rows, links), NEW r \in ImportsOf(A),
         NEW before, before = [rows |-> rows, links |-> links],
         NEW after, after = Imported(before, r)
  PROVE  /\ after = [rows |-> after.rows, links |-> after.links]
         /\ after.rows \in Seq(Rows(A)) /\ after.links \in Seq(Links(A))
         /\ LinkedOnce(after.rows, after.links)
         /\ Extended(rows, after.rows) /\ Extended(links, after.links)
         /\ r.task # NoTask => LinksTo(after.rows, after.links, r)
<1> DEFINE new == [level |-> r.level, scope |-> r.scope, locator |-> r.locator, print |-> r.print]
           found == Reusable(rows, r.scope, r.locator, r.print)
           again == r.level # "materialized_snapshot" /\ ~r.staged /\ ~r.names /\ found # {}
           row   == IF again THEN CHOOSE i \in found : TRUE ELSE Len(rows) + 1
           link  == [task |-> r.task, row |-> row, relation |-> "source", origin |-> r.id]
           had   == again /\ row \in SourceOf(links, r.task)
           more  == IF again THEN rows ELSE Append(rows, new)
           all   == IF r.task = NoTask \/ had THEN links ELSE Linked(links, link)
<1>1. before.rows = rows /\ before.links = links
  OBVIOUS
<1>2. Imported(before, r) = [rows |-> more, links |-> all]
  BY <1>1, Zenon DEF Imported
<1>3. after.rows = more /\ after.links = all /\ after = [rows |-> after.rows, links |-> after.links]
  <2> HIDE DEF more, all
  <2> QED BY <1>2
<1>4. new \in Rows(A)
  BY DEF Rows, ImportsOf
<1>5. /\ more \in Seq(Rows(A)) /\ Extended(rows, more) /\ IsRowOf(more, r, row) /\ row \in Nat
      /\ ~again => row = Len(rows) + 1
  <2>1. CASE again
    <3>1. row \in found
      <4> HIDE DEF found
      <4> QED BY <2>1
    <3>2. row \in 1..Len(rows) /\ rows[row] = [level |-> "local_reference", scope |-> r.scope,
                                               locator |-> r.locator, print |-> r.print]
      <4> HIDE DEF row
      <4> QED BY <3>1 DEF Reusable
    <3>3. r.level = "local_reference"
      BY <2>1 DEF ImportsOf, Levels
    <3> HIDE DEF row, again
    <3> QED BY <2>1, <3>2, <3>3, <1>4, AppendIs DEF IsRowOf
  <2>2. CASE ~again
    <3>1. row = Len(rows) + 1 /\ more = Append(rows, new)
      BY <2>2
    <3> HIDE DEF row, more, again, new
    <3>2. /\ more \in Seq(Rows(A)) /\ Extended(rows, more) /\ Len(rows) \in Nat
          /\ Len(more) = row /\ more[row] = new
      BY <3>1, <1>4, AppendIs
    <3> QED BY <3>1, <3>2 DEF IsRowOf, new
  <2> QED BY <2>1, <2>2
<1>6. CASE had
  <2>1. PICK i \in 1..Len(links) : links[i].task = r.task /\ links[i].row = row
    <3> HIDE DEF row, again
    <3> QED BY <1>6 DEF SourceOf
  <2>2. more = rows /\ all = links
    BY <1>6
  <2> HIDE DEF more, all, row, again
  <2>3. LinksTo(more, all, r)
    BY <1>5, <2>1, <2>2 DEF LinksTo
  <2>4. Extended(links, links)
    BY DEF Extended
  <2> QED BY <1>3, <1>5, <2>2, <2>3, <2>4
<1>7. CASE ~had /\ r.task = NoTask
  <2>1. all = links /\ Extended(links, links)
    BY <1>7 DEF Extended
  <2> HIDE DEF more, all, row, again
  <2>2. LinkedOnce(more, links)
    BY <1>5 DEF LinkedOnce, Extended
  <2> QED BY <1>3, <1>5, <1>7, <2>1, <2>2
<1>8. CASE ~had /\ r.task # NoTask
  <2>1. all = Linked(links, link)
    BY <1>8
  <2>2. ASSUME NEW i \in 1..Len(links), links[i].task = r.task, links[i].row = row PROVE FALSE
    <3>0. links[i] \in Links(A)
      OBVIOUS
    <3>1. links[i].relation = "source"
      BY <3>0 DEF Links
    <3>2. row \in SourceOf(links, r.task)
      <4> HIDE DEF row
      <4> QED BY <2>2, <3>1 DEF SourceOf
    <3>3. ~again
      BY <1>8, <3>2
    <3>4. row = Len(rows) + 1 /\ row \in 1..Len(rows) /\ Len(rows) \in Nat
      <4> HIDE DEF row, again
      <4> QED BY <1>5, <3>3, <2>2 DEF LinkedOnce
    <3> HIDE DEF row
    <3> QED BY <3>4
  <2> HIDE DEF more, all, row, again
  <2>3. /\ all \in Seq(Links(A)) /\ Extended(links, all)
        /\ LinkedOnce(more, all) /\ LinksTo(more, all, r)
    BY <1>5, <2>1, <2>2, LinkedAdds
  <2> QED BY <1>3, <1>5, <2>3
<1> QED BY <1>6, <1>7, <1>8

\* Whatever is imported, in whatever order: a task has one link to each of its
\* sources and finds under it what its import found there; no row and no link is
\* ever changed or moved (router.py, _dataset_import; store.py,
\* find_local_dataset_reference, link_task_artifact).
THEOREM ImportsLinkOnce ==
  ASSUME NEW A, NoTask \in A, NEW r \in [Nat -> ImportsOf(A)], NEW library,
         library[0] = [rows |-> <<>>, links |-> <<>>],
         \A n \in Nat : library[n + 1] = Imported(library[n], r[n])
  PROVE  \A n \in Nat :
             /\ LinkedOnce(library[n].rows, library[n].links)
             /\ Extended(library[n].rows, library[n + 1].rows)
             /\ Extended(library[n].links, library[n + 1].links)
             /\ r[n].task # NoTask =>
                    LinksTo(library[n + 1].rows, library[n + 1].links, r[n])
<1> DEFINE Sound(x) == /\ x = [rows |-> x.rows, links |-> x.links]
                       /\ x.rows \in Seq(Rows(A)) /\ x.links \in Seq(Links(A))
                       /\ LinkedOnce(x.rows, x.links)
           T == {n \in Nat : Sound(library[n])}
<1>1. Sound(library[0])
  <2>1. <<>> \in Seq(Rows(A)) /\ <<>> \in Seq(Links(A)) /\ LinkedOnce(<<>>, <<>>)
    BY DEF LinkedOnce
  <2> QED BY <2>1
<1>2. ASSUME NEW n \in Nat, Sound(library[n])
      PROVE  /\ Sound(library[n + 1])
             /\ Extended(library[n].rows, library[n + 1].rows)
             /\ Extended(library[n].links, library[n + 1].links)
             /\ r[n].task # NoTask =>
                    LinksTo(library[n + 1].rows, library[n + 1].links, r[n])
  <2> DEFINE x == library[n]
             y == library[n + 1]
             q == r[n]
  <2>1. y = Imported(x, q) /\ q \in ImportsOf(A) /\ Sound(x)
    BY <1>2
  <2> HIDE DEF x, y, q
  <2>2. /\ Sound(y) /\ Extended(x.rows, y.rows) /\ Extended(x.links, y.links)
        /\ q.task # NoTask => LinksTo(y.rows, y.links, q)
    BY <2>1, ImportStep
  <2> QED BY <2>2 DEF x, y, q
<1> HIDE DEF Sound
<1>3. 0 \in T /\ \A n \in Nat : n \in T => n + 1 \in T
  BY <1>1, <1>2
<1>4. Nat \subseteq T
  <2> HIDE DEF T
  <2> QED BY <1>3, Inductive
<1> QED BY <1>2, <1>4 DEF Sound

\* The kinds of what is in a folder; what is below something is below a directory, or
\* where a link leads.
IsFolder(folder, Names) ==
    /\ DOMAIN folder \subseteq Seq(Names)
    /\ \A p \in DOMAIN folder : folder[p] \in {"file", "directory", "link", "special"}
    /\ \A p \in DOMAIN folder : \A q \in Prefixes(p) \ {<<>>, p} :
           q \in DOMAIN folder /\ folder[q] \in {"directory", "link"}

LEMMA PrefixOf ==
  ASSUME NEW Names, NEW p \in Seq(Names), NEW q \in Seq(Names)
  PROVE  /\ IsPrefix(q, p) => q \in Prefixes(p)
         /\ p \in Prefixes(p) /\ IsPrefix(p, p)
<1>1. SubSeq(q, 1, Len(q)) = q /\ SubSeq(p, 1, Len(p)) = p /\ Len(q) \in Nat /\ Len(p) \in Nat
  OBVIOUS
<1>2. ASSUME IsPrefix(q, p) PROVE q \in Prefixes(p)
  <2>1. q = SubSeq(p, 1, Len(q)) /\ Len(q) \in 0..Len(p)
    BY <1>1, <1>2 DEF IsPrefix
  <2> QED BY <2>1 DEF Prefixes
<1>3. Len(p) \in 0..Len(p) /\ p = SubSeq(p, 1, Len(p))
  BY <1>1
<1>4. p \in Prefixes(p)
  BY <1>3 DEF Prefixes
<1>5. IsPrefix(p, p)
  BY <1>1 DEF IsPrefix
<1> QED BY <1>2, <1>4, <1>5

\* What an import takes is in the workspace whatever stands there: the way to it is
\* directories, and a snapshot of it has all the files there are, and nothing else,
\* or there is none (router.py, _workspace_dataset_source, _dataset_snapshot_files).
THEOREM SourcesAreInside ==
  ASSUME NEW Names, NEW folder, IsFolder(folder, Names), NEW path \in Seq(Names),
         WorkspaceSource(folder, path) # "refused"
  PROVE  LET files == SnapshotFiles(folder, path)
             all   == {p \in DOMAIN folder : IsPrefix(path, p) /\ folder[p] # "directory"}
         IN /\ \A p \in Prefixes(path) \ {<<>>, path} : folder[p] = "directory"
            /\ files \in {{}, all}
            /\ \A p \in files : folder[p] = "file"
<1>1. /\ \A p \in Prefixes(path) \ {<<>>} : KindOf(folder, p) # "link"
      /\ KindOf(folder, path) \in {"file", "directory"}
  <2>1. path # <<>> /\ path \in Prefixes(path)
    BY PrefixOf DEF WorkspaceSource, Safe
  <2> QED BY <2>1 DEF WorkspaceSource
<1>2. path \in DOMAIN folder /\ folder[path] \in {"file", "directory"}
  BY <1>1 DEF KindOf
<1>3. \A p \in Prefixes(path) \ {<<>>, path} : folder[p] = "directory"
  BY <1>1, <1>2 DEF IsFolder, KindOf
<1> DEFINE all == {p \in DOMAIN folder : IsPrefix(path, p) /\ folder[p] # "directory"}
<1>4. \A p \in Under(folder, path) : p \in DOMAIN folder /\ p \in Seq(Names) /\ p # path
                                     /\ IsPrefix(path, p) /\ path \in Prefixes(p)
  BY PrefixOf DEF Under, IsFolder
<1>5. CASE folder[path] = "file"
  <2>1. path # <<>>
    BY DEF WorkspaceSource, Safe
  <2>2. ASSUME NEW p \in Under(folder, path) PROVE FALSE
    <3>1. folder[path] \in {"directory", "link"}
      BY <1>4, <2>1 DEF IsFolder
    <3> QED BY <1>5, <3>1
  <2>3. all = {path}
    BY <1>2, <1>5, <2>2, PrefixOf DEF Under
  <2>4. SnapshotFiles(folder, path) = {path}
    BY <1>5 DEF SnapshotFiles
  <2> QED BY <1>3, <1>5, <2>3, <2>4
<1>6. CASE folder[path] = "directory" /\ \E p \in Under(folder, path) : folder[p] \in {"link", "special"}
  <2>1. SnapshotFiles(folder, path) = {}
    BY <1>6 DEF SnapshotFiles
  <2> QED BY <1>3, <2>1
<1>7. CASE folder[path] = "directory" /\ \A p \in Under(folder, path) : folder[p] \notin {"link", "special"}
  <2>1. SnapshotFiles(folder, path) = {p \in Under(folder, path) : folder[p] = "file"}
    BY <1>7 DEF SnapshotFiles
  <2>2. all = {p \in Under(folder, path) : folder[p] = "file"}
    BY <1>7, <1>4 DEF Under, IsFolder
  <2> QED BY <1>3, <2>1, <2>2
<1> QED BY <1>2, <1>5, <1>6, <1>7

-----------------------------------------------------------------------------
(* The results that go with an answer.                                     *)

LEMMA Bounded ==
  ASSUME NEW n \in Nat, NEW f, \A i \in 1..n : f[i] \in Nat
  PROVE  \E b \in Nat : \A i \in 1..n : f[i] <= b
<1> DEFINE T == {k \in Nat : k <= n => \E b \in Nat : \A i \in 1..k : f[i] <= b}
<1>1. 0 \in T
  OBVIOUS
<1>2. ASSUME NEW k \in Nat, k \in T PROVE k + 1 \in T
  <2> SUFFICES ASSUME k + 1 <= n PROVE \E b \in Nat : \A i \in 1..(k + 1) : f[i] <= b
    OBVIOUS
  <2>1. PICK b \in Nat : \A i \in 1..k : f[i] <= b
    BY <1>2
  <2>2. k + 1 \in 1..n /\ f[k + 1] \in Nat
    OBVIOUS
  <2>3. b + f[k + 1] \in Nat /\ \A i \in 1..(k + 1) : f[i] <= b + f[k + 1]
    BY <2>1, <2>2
  <2> QED BY <2>3
<1>3. Nat \subseteq T
  <2> HIDE DEF T
  <2> QED BY <1>1, <1>2, Inductive
<1>4. n \in T /\ n <= n
  <2> HIDE DEF T
  <2> QED BY <1>3
<1> QED BY <1>4

\* The latest round of each Expert that has results speaks for it, alone: everything
\* that goes with the answer is of such a round, and every Expert with results has
\* one (router.py, _durable_team_result_refs).
THEOREM LatestRoundsSpeakAlone ==
  ASSUME NEW n \in Nat, NEW rows, DOMAIN rows = 1..n,
         \A i \in 1..n : rows[i].round \in Nat /\ rows[i].expert \in BOOLEAN
  PROVE  LET has(i)    == rows[i].expert /\ rows[i].refs # {}
             latest(i) == has(i) /\ \A j \in 1..n : has(j) /\ rows[j].job = rows[i].job
                                                    => rows[j].round <= rows[i].round
         IN /\ \A i \in 1..n : has(i) =>
                   \E j \in 1..n : /\ latest(j) /\ rows[j].job = rows[i].job
                                   /\ rows[j].refs \subseteq Durable(rows)
            /\ \A r \in Durable(rows) : \E j \in 1..n : latest(j) /\ r \in rows[j].refs
<1> DEFINE has(i)    == rows[i].expert /\ rows[i].refs # {}
           latest(i) == has(i) /\ \A j \in 1..n : has(j) /\ rows[j].job = rows[i].job
                                                  => rows[j].round <= rows[i].round
           having == {i \in 1..n : has(i)}
           first  == {i \in having : \A j \in having : rows[j].job = rows[i].job =>
                         \/ rows[j].round < rows[i].round
                         \/ rows[j].round = rows[i].round /\ i <= j}
<1>1. Durable(rows) = UNION {rows[i].refs : i \in first}
  BY DEF Durable
<1>2. \A i \in first : i \in 1..n /\ latest(i)
  OBVIOUS
<1>3. ASSUME NEW i \in 1..n, has(i)
      PROVE  \E j \in first : rows[j].job = rows[i].job
  <2> DEFINE mine == {j \in having : rows[j].job = rows[i].job}
             rounds == {rows[j].round : j \in mine}
             f == [j \in 1..n |-> rows[j].round]
  <2>1. i \in mine
    BY <1>3
  <2>2. \A j \in 1..n : f[j] \in Nat
    OBVIOUS
  <2>3. PICK b \in Nat : \A j \in 1..n : f[j] <= b
    <3> HIDE DEF f
    <3> QED BY <2>2, Bounded
  <2>4. rounds \in SUBSET Nat /\ rounds # {} /\ \A m \in rounds : m <= b
    BY <2>1, <2>3
  <2>5. PICK m \in rounds : \A k \in rounds : k <= m
    <3> HIDE DEF rounds
    <3> QED BY <2>4, GreatestNat
  <2> DEFINE last == {j \in mine : rows[j].round = m}
  <2>6. last \in SUBSET Nat /\ last # {}
    OBVIOUS
  <2>7. PICK j \in last : \A k \in last : j <= k
    <3> HIDE DEF last
    <3> QED BY <2>6, LeastNat
  <2>8. j \in having /\ rows[j].job = rows[i].job /\ rows[j].round = m
    OBVIOUS
  <2>9. ASSUME NEW k \in having, rows[k].job = rows[j].job
        PROVE  \/ rows[k].round < rows[j].round
               \/ rows[k].round = rows[j].round /\ j <= k
    <3>1. k \in mine /\ rows[k].round \in rounds /\ rows[k].round <= m
      BY <2>5, <2>8, <2>9
    <3>2. rows[k].round \in Nat /\ m \in Nat
      BY <2>4
    <3>3. rows[k].round = m => j <= k
      BY <2>7, <3>1
    <3> QED BY <2>8, <3>1, <3>2, <3>3
  <2>10. j \in first
    BY <2>8, <2>9
  <2> QED BY <2>8, <2>10
<1> HIDE DEF first
<1>4. ASSUME NEW i \in 1..n, has(i)
      PROVE  \E j \in 1..n : /\ latest(j) /\ rows[j].job = rows[i].job
                             /\ rows[j].refs \subseteq Durable(rows)
  <2>1. PICK j \in first : rows[j].job = rows[i].job
    BY <1>3, <1>4
  <2>2. rows[j].refs \subseteq Durable(rows)
    BY <1>1
  <2> HIDE DEF latest
  <2> QED BY <1>2, <2>1, <2>2
<1>5. ASSUME NEW r \in Durable(rows) PROVE \E j \in 1..n : latest(j) /\ r \in rows[j].refs
  <2>1. PICK j \in first : r \in rows[j].refs
    BY <1>1
  <2> HIDE DEF latest
  <2> QED BY <1>2, <2>1
<1> QED BY <1>4, <1>5
=============================================================================
