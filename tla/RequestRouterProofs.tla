------------------------- MODULE RequestRouterProofs ------------------------
(***************************************************************************)
(* Proofs about RequestRouter, for every set of requests and tasks and     *)
(* every number of processes.                                              *)
(*                                                                         *)
(* The invariants the runs check are not inductive by themselves: whether  *)
(* a submit may claim a conversation depends on where the line handler is  *)
(* (LineOK, PrepareOK), whether an emission is true depends on who is      *)
(* about to emit what (NewsOK).  IInv adds these facts.  Each of its four  *)
(* parts has one lemma per actor, and the theorems follow from IInv.  What *)
(* a Stop and a restart leave of a turn needs a second invariant above it, *)
(* on where the graph of an agent stands (GraphOK).                        *)
(***************************************************************************)
EXTENDS RequestRouter, TLAPS

USE DEF Requests, Terminal, Open, Running, Announced, Over, Phases,
        TaskCommands, AskedOf, Commands, Idle, Present, Done,
        journalVars, taskVars, turnVars, rowVars, storeVars, StoreTypeOK, RouterTypeOK,
        loopVars, lineVars, hostVars

-----------------------------------------------------------------------------
(* The inductive invariant.                                                *)

\* What the line handler knows of the request it works on.
LineOK ==
    /\ pc = "idle" <=> line.kind = "idle"
    /\ line.kind = "submit" =>
          /\ line.req \in Submits /\ line.arg \in Conversations
          /\ scope[line.req] = line.arg
          /\ agent[line.req] = "none"
          /\ pc \in {"accepted", "check", "waiting", "claimed", "preparing", "reply"}
          /\ pc = "accepted" => state[line.req] = "accepted"
          /\ pc \in {"check", "waiting", "claimed", "preparing"} =>
                state[line.req] = "in_progress"
          /\ pc = "reply" => state[line.req] = "failed"
    /\ line.kind \in Commands => line.req \in Controls
    /\ line.kind \in AskedOf => line.arg \in Submits
    /\ line.kind \in TaskCommands => line.arg \in Tasks
    /\ pc \in {"waiting", "claimed", "preparing"} => line.kind = "submit"
    /\ pc = "stopping" => line.kind = "cancel"
    /\ pc = "applied" => line.kind \in TaskCommands

\* An identity nobody used has no agent; a working agent's request is open.
AgentOK ==
    \A r \in Submits :
        /\ state[r] = "absent" => agent[r] = "none"
        /\ agent[r] \in Announced => state[r] \in {agent[r], "deleted"}

\* A submit that prepares its runtime has its conversation for itself.
PrepareOK ==
    pc \in {"claimed", "preparing"} =>
        /\ line.arg \in Tasks => slot[line.arg] = line.req
        /\ \A r \in Submits : agent[r] \in Running => scope[r] # line.arg

\* A running agent's conclusion is recorded before it is displayed.
TurnOK ==
    \A r \in Submits :
        /\ agent[r] \in {"concluding", "answered"} => r \in receipt
        /\ agent[r] = "answered" /\ scope[r] \in Tasks => answers[r] > 0

\* The line handler only emits terminals the journal holds.
NewsOK ==
    /\ pc # "reply" => news = {}
    /\ \A r \in Submits, o \in Terminal : <<r, o>> \in news => state[r] = o

\* So did everybody before, unless the request went with its task.
SeenOK ==
    \A r \in Submits, o \in Terminal : o \in seen[r] => state[r] \in {o, "deleted"}

\* A process that is down has no memory.
DownOK ==
    host = "down" =>
        /\ \A r \in Submits : agent[r] = "none"
        /\ line = Idle /\ pc = "idle" /\ news = {}

CoreOK ==
    /\ LineOK /\ AgentOK /\ PrepareOK /\ TurnOK /\ DownOK
    /\ ActiveSlotOwner /\ RunningHoldsConversation /\ OneAgentPerConversation
    /\ OpenSubmitIsOwned /\ CheckpointSound

IInv == TypeOK /\ CoreOK /\ NewsOK /\ SeenOK

-----------------------------------------------------------------------------
(* Types.                                                                  *)

\* TypeOK is preserved by clients.
LEMMA TypeClient == ASSUME IInv, ClientStep PROVE TypeOK'
<1> USE IdentityAssumption DEF IInv, CoreOK, TypeOK, LineOK
<1>1. ASSUME NEW r \in Submits, NEW k \in Conversations, Submit(r, k) PROVE TypeOK'
  BY <1>1 DEF Submit, Reserve, Reserved
<1>2. ASSUME NEW r \in Submits, Replay(r) PROVE TypeOK'
  BY <1>2 DEF Replay
<1>3. ASSUME NEW c \in Controls, NEW kind \in AskedOf, NEW r \in Submits,
             Command(c, kind, r)
      PROVE TypeOK'
  BY <1>3 DEF Command, Reserve, Reserved
<1>4. ASSUME NEW c \in Controls, NEW kind \in TaskCommands, NEW t \in Tasks,
             Command(c, kind, t)
      PROVE TypeOK'
  BY <1>4 DEF Command, Reserve, Reserved
<1>5. ASSUME NEW c \in Controls, Command(c, "shutdown", None) PROVE TypeOK'
  BY <1>5 DEF Command, Reserve, Reserved
<1> HIDE DEF TypeOK
<1> QED
  BY <1>1, <1>2, <1>3, <1>4, <1>5 DEF ClientStep

\* TypeOK is preserved by the line handler.
LEMMA TypeLine == ASSUME IInv, LineStep PROVE TypeOK'
<1> USE IdentityAssumption DEF IInv, CoreOK, TypeOK, LineOK
<1>1. CASE Accepted
  BY <1>1 DEF Accepted, MarkInProgress
<1>2. CASE Replies
  BY <1>2 DEF Replies
<1>3. CASE SubmitRefused
  BY <1>3 DEF SubmitRefused, Fails, Fail, CommitTaskTerminalWithoutCheckpoint,
     CommitTerminal, ToolCallsClosed, SlotsReleased, WorkflowSet
<1>4. CASE SubmitWaits
  BY <1>4 DEF SubmitWaits
<1>5. CASE SubmitClaims
  BY <1>5 DEF SubmitClaims, BeginTaskRequest, CanBegin, SessionFor, RuntimeBusy
<1>6. CASE SubmitPlans
  BY <1>6 DEF SubmitPlans, StartTaskWorkflow, SessionFor
<1>7. CASE SubmitLaunches
  BY <1>7 DEF SubmitLaunches, AppendQuestion
<1>8. CASE CommandRefused
  BY <1>8 DEF CommandRefused, CommitTerminal, ToolCallsClosed
<1>9. CASE CancelStops
  BY <1>9 DEF CancelStops, CancelledAgents, Streaming
<1>10. CASE CancelCommits
  BY <1>10 DEF CancelCommits, CommitCancellation, Cancelled, ToolCallsClosed,
     SlotsReleased, InteractionsInterrupted
<1>11. CASE Responds
  BY <1>11 DEF Responds, CommitInteractionResponse
<1>12. CASE TaskCommandApplies
  BY <1>12 DEF TaskCommandApplies, SetTaskStatus, DeleteResearchTask
<1>13. CASE CommandCommits
  BY <1>13 DEF CommandCommits, CommitTerminal, ToolCallsClosed
<1> QED
  BY <1>1, <1>2, <1>3, <1>4, <1>5, <1>6, <1>7, <1>8, <1>9, <1>10, <1>11, <1>12,
     <1>13 DEF LineStep

\* TypeOK is preserved by agents.
LEMMA TypeAgent == ASSUME IInv, NEW r \in Submits, AgentStep(r) PROVE TypeOK'
<1> USE IdentityAssumption DEF IInv, CoreOK, TypeOK, LineOK
<1>1. CASE WorkflowAdvances(r) \/ Asks(r) \/ ToolBegins(r) \/ ToolEnds(r) \/ GraphCollected(r)
  BY <1>1 DEF WorkflowAdvances, Asks, ToolBegins, ToolEnds, GraphCollected,
     TransitionTaskWorkflow, CreateInteraction, BeginToolCall, RecordOperationResult
<1>2. CASE StreamEnds(r) \/ Closes(r)
  BY <1>2 DEF StreamEnds, Closes, Goes
<1>3. ASSUME NEW b \in BOOLEAN, StreamFails(r, b) PROVE TypeOK'
  BY <1>3 DEF StreamFails, Fails, Fail, CommitTaskTerminalWithoutCheckpoint,
     CommitTerminal, ToolCallsClosed, SlotsReleased, WorkflowSet
<1>4. CASE BudgetFails(r) \/ StopsWithoutAnswer(r) \/ CheckpointRejected(r)
  BY <1>4 DEF BudgetFails, StopsWithoutAnswer, CheckpointRejected, Fails, Fail,
     CommitTaskTerminalWithoutCheckpoint, CommitTerminal, ToolCallsClosed,
     SlotsReleased, WorkflowSet
<1>5. CASE Concludes(r) \/ Answers(r)
  BY <1>5 DEF Concludes, Answers, Goes, RecordCoordinatorResult, AppendAnswer
<1>6. CASE Commits(r)
  BY <1>6 DEF Commits, Goes, CommitTaskTerminalWithCheckpoint, CommitTerminal,
     ToolCallsClosed, WorkflowSet
<1>7. CASE Announces(r)
  BY <1>7 DEF Announces
<1> QED
  BY <1>1, <1>2, <1>3, <1>4, <1>5, <1>6, <1>7 DEF AgentStep

\* TypeOK is preserved by the host.
LEMMA TypeHost == ASSUME IInv, HostStep PROVE TypeOK'
<1> USE IdentityAssumption DEF IInv, CoreOK, TypeOK, LineOK
<1>1. CASE DrainBegins
  BY <1>1 DEF DrainBegins, CancelledAgents, Streaming
<1>2. CASE DrainEnds
  <2>1. StoreTypeOK'
    <3>1. UNCHANGED storeVars \/ RecoverIncomplete
      BY <1>2 DEF DrainEnds
    <3> QED
      BY <3>1 DEF IInv, TypeOK, RecoverIncomplete, Delivered, ToolCallsClosed,
         InteractionsInterrupted, SlotsReleased
  <2>2. RouterTypeOK'
    BY <1>2 DEF DrainEnds, MemoryLost, IInv, TypeOK
  <2> QED
    BY <2>1, <2>2 DEF TypeOK
<1>3. CASE Crash
  BY <1>3 DEF Crash, MemoryLost
<1>4. CASE Restart
  BY <1>4 DEF Restart, RecoverIncomplete, Delivered, ToolCallsClosed,
     InteractionsInterrupted, SlotsReleased
<1> QED
  BY <1>1, <1>2, <1>3, <1>4 DEF HostStep

-----------------------------------------------------------------------------
(* Who owns what: the line handler, the agents, the slots, the memory.     *)

\* CoreOK is preserved by clients.
LEMMA CoreClient == ASSUME IInv, ClientStep PROVE CoreOK'
<1> USE IdentityAssumption DEF IInv, TypeOK, CoreOK, LineOK, AgentOK, PrepareOK,
       TurnOK, DownOK, ActiveSlotOwner, RunningHoldsConversation,
       OneAgentPerConversation, OpenSubmitIsOwned, CheckpointSound, LineMay
<1>1. ASSUME NEW r \in Submits, NEW k \in Conversations, Submit(r, k) PROVE CoreOK'
  BY <1>1 DEF Submit, Reserve, Reserved
<1>2. ASSUME NEW r \in Submits, Replay(r) PROVE CoreOK'
  BY <1>2 DEF Replay
<1>3. ASSUME NEW c \in Controls, NEW kind \in AskedOf, NEW r \in Submits,
             Command(c, kind, r)
      PROVE CoreOK'
  BY <1>3 DEF Command, Reserve, Reserved
<1>4. ASSUME NEW c \in Controls, NEW kind \in TaskCommands, NEW t \in Tasks,
             Command(c, kind, t)
      PROVE CoreOK'
  BY <1>4 DEF Command, Reserve, Reserved
<1>5. ASSUME NEW c \in Controls, Command(c, "shutdown", None) PROVE CoreOK'
  BY <1>5 DEF Command, Reserve, Reserved
<1> QED
  BY <1>1, <1>2, <1>3, <1>4, <1>5 DEF ClientStep

\* CoreOK is preserved by the line handler.
LEMMA CoreLine == ASSUME IInv, LineStep PROVE CoreOK'
<1> USE IdentityAssumption DEF IInv, TypeOK, CoreOK, LineOK, AgentOK, PrepareOK,
       TurnOK, DownOK, ActiveSlotOwner, RunningHoldsConversation,
       OneAgentPerConversation, OpenSubmitIsOwned, CheckpointSound, LineMay
<1>1. CASE Accepted
  BY <1>1 DEF Accepted, MarkInProgress
<1>2. CASE Replies
  BY <1>2 DEF Replies
<1>3. CASE SubmitRefused
  BY <1>3 DEF SubmitRefused, Fails, Fail, CommitTaskTerminalWithoutCheckpoint,
     CommitTerminal, ToolCallsClosed, SlotsReleased, WorkflowSet
<1>4. CASE SubmitWaits
  BY <1>4 DEF SubmitWaits
<1>5. CASE SubmitClaims
  BY <1>5 DEF SubmitClaims, BeginTaskRequest, CanBegin, SessionFor, RuntimeBusy
<1>6. CASE SubmitPlans
  BY <1>6 DEF SubmitPlans, StartTaskWorkflow, SessionFor
<1>7. CASE SubmitLaunches
  BY <1>7 DEF SubmitLaunches, AppendQuestion
<1>8. CASE CommandRefused
  BY <1>8 DEF CommandRefused, CommitTerminal, ToolCallsClosed
<1>9. CASE CancelStops
  BY <1>9 DEF CancelStops, CancelledAgents, Streaming
<1>10. CASE CancelCommits
  BY <1>10 DEF CancelCommits, CommitCancellation, Cancelled, ToolCallsClosed,
     SlotsReleased, InteractionsInterrupted
<1>11. CASE Responds
  BY <1>11 DEF Responds, CommitInteractionResponse
<1>12. CASE TaskCommandApplies
  BY <1>12 DEF TaskCommandApplies, SetTaskStatus, DeleteResearchTask
<1>13. CASE CommandCommits
  BY <1>13 DEF CommandCommits, CommitTerminal, ToolCallsClosed
<1> QED
  BY <1>1, <1>2, <1>3, <1>4, <1>5, <1>6, <1>7, <1>8, <1>9, <1>10, <1>11, <1>12,
     <1>13 DEF LineStep

\* CoreOK is preserved by agents.
LEMMA CoreAgent == ASSUME IInv, NEW r \in Submits, AgentStep(r) PROVE CoreOK'
<1> USE IdentityAssumption DEF IInv, TypeOK, CoreOK, LineOK, AgentOK, PrepareOK,
       TurnOK, DownOK, ActiveSlotOwner, RunningHoldsConversation,
       OneAgentPerConversation, OpenSubmitIsOwned, CheckpointSound, LineMay
<1>1. CASE WorkflowAdvances(r) \/ Asks(r) \/ ToolBegins(r) \/ ToolEnds(r) \/ GraphCollected(r)
  BY <1>1 DEF WorkflowAdvances, Asks, ToolBegins, ToolEnds, GraphCollected,
     TransitionTaskWorkflow, CreateInteraction, BeginToolCall, RecordOperationResult
<1>2. CASE StreamEnds(r) \/ Closes(r)
  BY <1>2 DEF StreamEnds, Closes, Goes
<1>3. ASSUME NEW b \in BOOLEAN, StreamFails(r, b) PROVE CoreOK'
  BY <1>3 DEF StreamFails, Fails, Fail, CommitTaskTerminalWithoutCheckpoint,
     CommitTerminal, ToolCallsClosed, SlotsReleased, WorkflowSet
<1>4. CASE BudgetFails(r) \/ StopsWithoutAnswer(r) \/ CheckpointRejected(r)
  <2>1. agent[r] \in Running /\ Fails(r, TRUE)
    BY <1>4 DEF BudgetFails, StopsWithoutAnswer, CheckpointRejected
  <2>2. UNCHANGED <<graph, cached, asking, lineVars, hostVars, seen>>
    BY <1>4 DEF BudgetFails, StopsWithoutAnswer, CheckpointRejected
  <2>3. CASE scope[r] \in Tasks
    BY <2>1, <2>2, <2>3 DEF Fails, Fail, CommitTaskTerminalWithoutCheckpoint,
       ToolCallsClosed, SlotsReleased, WorkflowSet
  <2>4. CASE scope[r] \notin Tasks
    BY <2>1, <2>2, <2>4 DEF Fails, Fail, CommitTerminal, ToolCallsClosed
  <2> QED
    BY <2>3, <2>4
<1>5. CASE Concludes(r) \/ Answers(r)
  BY <1>5 DEF Concludes, Answers, Goes, RecordCoordinatorResult, AppendAnswer
<1>6. CASE Commits(r)
  <2>1. CASE scope[r] \in Tasks
    BY <1>6, <2>1 DEF Commits, Goes, CommitTaskTerminalWithCheckpoint, ToolCallsClosed,
       WorkflowSet
  <2>2. CASE scope[r] \notin Tasks
    BY <1>6, <2>2 DEF Commits, Goes, CommitTerminal, ToolCallsClosed
  <2> QED
    BY <2>1, <2>2
<1>7. CASE Announces(r)
  BY <1>7 DEF Announces
<1> QED
  BY <1>1, <1>2, <1>3, <1>4, <1>5, <1>6, <1>7 DEF AgentStep

\* CoreOK is preserved by the host.
LEMMA CoreHost == ASSUME IInv, HostStep PROVE CoreOK'
<1> USE IdentityAssumption DEF IInv, TypeOK, CoreOK, LineOK, AgentOK, PrepareOK,
       TurnOK, DownOK, ActiveSlotOwner, RunningHoldsConversation,
       OneAgentPerConversation, OpenSubmitIsOwned, CheckpointSound, LineMay
<1>1. CASE DrainBegins
  BY <1>1 DEF DrainBegins, CancelledAgents, Streaming
<1>2. CASE DrainEnds
  BY <1>2 DEF DrainEnds, MemoryLost, RecoverIncomplete, Delivered, ToolCallsClosed,
     InteractionsInterrupted, SlotsReleased
<1>3. CASE Crash
  BY <1>3 DEF Crash, MemoryLost
<1>4. CASE Restart
  BY <1>4 DEF Restart, RecoverIncomplete, Delivered, ToolCallsClosed,
     InteractionsInterrupted, SlotsReleased
<1> QED
  BY <1>1, <1>2, <1>3, <1>4 DEF HostStep

-----------------------------------------------------------------------------
(* What is about to be told.                                               *)

\* An agent changes no other request, and its own only by settling it with the
\* terminal it then announces.
LEMMA AgentEffect ==
  ASSUME IInv, NEW r \in Submits, AgentStep(r)
  PROVE  /\ UNCHANGED <<line, pc, news>>
         /\ \/ UNCHANGED state
            \/ /\ state[r] = "in_progress"
               /\ \E o \in Announced : state' = [state EXCEPT ![r] = o]
<1> DEFINE Effect == /\ UNCHANGED <<line, pc, news>>
                     /\ \/ UNCHANGED state
                        \/ /\ state[r] = "in_progress"
                           /\ \E o \in Announced : state' = [state EXCEPT ![r] = o]
<1> USE DEF IInv, CoreOK, TypeOK, RunningHoldsConversation
<1>1. CASE WorkflowAdvances(r) \/ Asks(r) \/ ToolBegins(r) \/ ToolEnds(r) \/ GraphCollected(r)
  BY <1>1 DEF WorkflowAdvances, Asks, ToolBegins, ToolEnds, GraphCollected,
     TransitionTaskWorkflow, CreateInteraction, BeginToolCall, RecordOperationResult
<1>2. CASE StreamEnds(r) \/ Closes(r)
  BY <1>2 DEF StreamEnds, Closes, Goes
<1>3. ASSUME NEW b \in BOOLEAN, StreamFails(r, b) PROVE Effect
  BY <1>3 DEF StreamFails, Fails, Fail, CommitTaskTerminalWithoutCheckpoint,
     CommitTerminal, ToolCallsClosed, SlotsReleased, WorkflowSet
<1>4. CASE BudgetFails(r) \/ StopsWithoutAnswer(r) \/ CheckpointRejected(r)
  BY <1>4 DEF BudgetFails, StopsWithoutAnswer, CheckpointRejected, Fails, Fail,
     CommitTaskTerminalWithoutCheckpoint, CommitTerminal, ToolCallsClosed,
     SlotsReleased, WorkflowSet
<1>5. CASE Concludes(r) \/ Answers(r)
  BY <1>5 DEF Concludes, Answers, Goes, RecordCoordinatorResult, AppendAnswer
<1>6. CASE Commits(r)
  BY <1>6 DEF Commits, Goes, CommitTaskTerminalWithCheckpoint, CommitTerminal,
     ToolCallsClosed, WorkflowSet
<1>7. CASE Announces(r)
  BY <1>7 DEF Announces
<1> QED
  BY <1>1, <1>2, <1>3, <1>4, <1>5, <1>6, <1>7 DEF AgentStep

\* Recovery settles what is open and touches nothing else in the journal.
LEMMA RecoverEffect ==
  ASSUME TypeOK, RecoverIncomplete
  PROVE  \A q \in Requests :
            state'[q] = IF state[q] \in Open
                        THEN (IF q \in receipt THEN "completed" ELSE "interrupted")
                        ELSE state[q]
  BY DEF TypeOK, RecoverIncomplete, Delivered

\* NewsOK is preserved by clients.
LEMMA NewsClient == ASSUME IInv, ClientStep PROVE NewsOK'
<1> USE IdentityAssumption DEF IInv, TypeOK, CoreOK, LineOK,
       RunningHoldsConversation, DownOK, NewsOK
<1>1. ASSUME NEW r \in Submits, NEW k \in Conversations, Submit(r, k) PROVE NewsOK'
  BY <1>1 DEF Submit, Reserve, Reserved
<1>2. ASSUME NEW r \in Submits, Replay(r) PROVE NewsOK'
  BY <1>2 DEF Replay
<1>3. ASSUME NEW c \in Controls, NEW kind \in AskedOf, NEW r \in Submits,
             Command(c, kind, r)
      PROVE NewsOK'
  BY <1>3 DEF Command, Reserve, Reserved
<1>4. ASSUME NEW c \in Controls, NEW kind \in TaskCommands, NEW t \in Tasks,
             Command(c, kind, t)
      PROVE NewsOK'
  BY <1>4 DEF Command, Reserve, Reserved
<1>5. ASSUME NEW c \in Controls, Command(c, "shutdown", None) PROVE NewsOK'
  BY <1>5 DEF Command, Reserve, Reserved
<1> HIDE DEF NewsOK
<1> QED
  BY <1>1, <1>2, <1>3, <1>4, <1>5 DEF ClientStep

\* NewsOK is preserved by the line handler.
LEMMA NewsLine == ASSUME IInv, LineStep PROVE NewsOK'
<1> USE IdentityAssumption DEF IInv, TypeOK, CoreOK, LineOK,
       RunningHoldsConversation, DownOK, NewsOK
<1>1. CASE Accepted
  BY <1>1 DEF Accepted, MarkInProgress
<1>2. CASE Replies
  BY <1>2 DEF Replies
<1>3. CASE SubmitRefused
  BY <1>3 DEF SubmitRefused, Fails, Fail, CommitTaskTerminalWithoutCheckpoint,
     CommitTerminal, ToolCallsClosed, SlotsReleased, WorkflowSet
<1>4. CASE SubmitWaits
  BY <1>4 DEF SubmitWaits
<1>5. CASE SubmitClaims
  BY <1>5 DEF SubmitClaims, BeginTaskRequest, CanBegin, SessionFor, RuntimeBusy
<1>6. CASE SubmitPlans
  BY <1>6 DEF SubmitPlans, StartTaskWorkflow, SessionFor
<1>7. CASE SubmitLaunches
  BY <1>7 DEF SubmitLaunches, AppendQuestion
<1>8. CASE CommandRefused
  BY <1>8 DEF CommandRefused, CommitTerminal, ToolCallsClosed
<1>9. CASE CancelStops
  BY <1>9 DEF CancelStops, CancelledAgents, Streaming
<1>10. CASE CancelCommits
  BY <1>10 DEF CancelCommits, CommitCancellation, Cancelled, ToolCallsClosed,
     SlotsReleased, InteractionsInterrupted
<1>11. CASE Responds
  BY <1>11 DEF Responds, CommitInteractionResponse
<1>12. CASE TaskCommandApplies
  BY <1>12 DEF TaskCommandApplies, SetTaskStatus, DeleteResearchTask
<1>13. CASE CommandCommits
  BY <1>13 DEF CommandCommits, CommitTerminal, ToolCallsClosed
<1> QED
  BY <1>1, <1>2, <1>3, <1>4, <1>5, <1>6, <1>7, <1>8, <1>9, <1>10, <1>11, <1>12,
     <1>13 DEF LineStep

\* NewsOK is preserved by agents.
LEMMA NewsAgent == ASSUME IInv, NEW r \in Submits, AgentStep(r) PROVE NewsOK'
<1>1. CASE UNCHANGED state
  BY <1>1, AgentEffect DEF IInv, NewsOK
<1>2. ASSUME state[r] = "in_progress", NEW o \in Announced, state' = [state EXCEPT ![r] = o]
      PROVE NewsOK'
  <2>1. ASSUME NEW q \in Submits, NEW p \in Terminal, <<q, p>> \in news PROVE state'[q] = p
    <3>1. state[q] = p
      BY <2>1 DEF IInv, NewsOK
    <3> QED
      BY <1>2, <3>1 DEF IInv, TypeOK
  <2> QED
    BY <2>1, AgentEffect DEF IInv, NewsOK
<1> QED
  BY <1>1, <1>2, AgentEffect

\* NewsOK is preserved by the host.
LEMMA NewsHost == ASSUME IInv, HostStep PROVE NewsOK'
<1> USE IdentityAssumption DEF IInv, TypeOK, CoreOK, LineOK,
       RunningHoldsConversation, DownOK, NewsOK
<1>1. CASE DrainBegins
  BY <1>1 DEF DrainBegins, CancelledAgents, Streaming
<1>2. CASE DrainEnds
  BY <1>2 DEF DrainEnds, MemoryLost, RecoverIncomplete, Delivered, ToolCallsClosed,
     InteractionsInterrupted, SlotsReleased
<1>3. CASE Crash
  BY <1>3 DEF Crash, MemoryLost
<1>4. CASE Restart
  BY <1>4 DEF Restart, RecoverIncomplete, Delivered, ToolCallsClosed,
     InteractionsInterrupted, SlotsReleased
<1> QED
  BY <1>1, <1>2, <1>3, <1>4 DEF HostStep

-----------------------------------------------------------------------------
(* What was told.                                                          *)

\* SeenOK is preserved by clients.
LEMMA SeenClient == ASSUME IInv, ClientStep PROVE SeenOK'
<1> USE IdentityAssumption DEF IInv, TypeOK, CoreOK, LineOK, AgentOK, NewsOK, SeenOK
<1>1. ASSUME NEW r \in Submits, NEW k \in Conversations, Submit(r, k) PROVE SeenOK'
  BY <1>1 DEF Submit, Reserve, Reserved
<1>2. ASSUME NEW r \in Submits, Replay(r) PROVE SeenOK'
  BY <1>2 DEF Replay
<1>3. ASSUME NEW c \in Controls, NEW kind \in AskedOf, NEW r \in Submits,
             Command(c, kind, r)
      PROVE SeenOK'
  BY <1>3 DEF Command, Reserve, Reserved
<1>4. ASSUME NEW c \in Controls, NEW kind \in TaskCommands, NEW t \in Tasks,
             Command(c, kind, t)
      PROVE SeenOK'
  BY <1>4 DEF Command, Reserve, Reserved
<1>5. ASSUME NEW c \in Controls, Command(c, "shutdown", None) PROVE SeenOK'
  BY <1>5 DEF Command, Reserve, Reserved
<1> HIDE DEF SeenOK
<1> QED
  BY <1>1, <1>2, <1>3, <1>4, <1>5 DEF ClientStep

\* SeenOK is preserved by the line handler.
LEMMA SeenLine == ASSUME IInv, LineStep PROVE SeenOK'
<1> USE IdentityAssumption DEF IInv, TypeOK, CoreOK, LineOK, AgentOK, NewsOK, SeenOK
<1>1. CASE Accepted
  BY <1>1 DEF Accepted, MarkInProgress
<1>2. CASE Replies
  <2>1. ASSUME NEW q \in Submits, NEW p \in Terminal, p \in seen'[q]
        PROVE state'[q] \in {p, "deleted"}
    <3>1. p \in seen[q] \/ <<q, p>> \in news
      BY <1>2, <2>1 DEF Replies
    <3>2. UNCHANGED state
      BY <1>2 DEF Replies
    <3>3. CASE p \in seen[q]
      BY <3>2, <3>3 DEF IInv, SeenOK
    <3>4. CASE <<q, p>> \in news
      BY <3>2, <3>4 DEF IInv, NewsOK
    <3> QED
      BY <3>1, <3>3, <3>4
  <2> QED
    BY <2>1 DEF SeenOK
<1>3. CASE SubmitRefused
  <2>1. UNCHANGED seen /\ state' = [state EXCEPT ![line.req] = "failed"]
    BY <1>3 DEF SubmitRefused, Fail, CommitTaskTerminalWithoutCheckpoint, CommitTerminal,
       IInv, LineOK, TypeOK
  <2>2. line.req \in Submits /\ state[line.req] = "in_progress"
    BY <1>3 DEF SubmitRefused, IInv, LineOK
  <2>3. ASSUME NEW q \in Submits, NEW p \in Terminal, p \in seen[q]
        PROVE state'[q] \in {p, "deleted"}
    <3>1. state[q] \in {p, "deleted"}
      BY <2>3 DEF IInv, SeenOK
    <3>2. CASE q = line.req
      BY <2>2, <3>1, <3>2
    <3>3. CASE q # line.req
      BY <2>1, <3>1, <3>3 DEF IInv, TypeOK
    <3> QED
      BY <3>2, <3>3
  <2> QED
    BY <2>1, <2>3 DEF SeenOK
<1>4. CASE SubmitWaits
  BY <1>4 DEF SubmitWaits
<1>5. CASE SubmitClaims
  BY <1>5 DEF SubmitClaims, BeginTaskRequest, CanBegin, SessionFor, RuntimeBusy
<1>6. CASE SubmitPlans
  BY <1>6 DEF SubmitPlans, StartTaskWorkflow, SessionFor
<1>7. CASE SubmitLaunches
  BY <1>7 DEF SubmitLaunches, AppendQuestion
<1>8. CASE CommandRefused
  BY <1>8 DEF CommandRefused, CommitTerminal, ToolCallsClosed
<1>9. CASE CancelStops
  BY <1>9 DEF CancelStops, CancelledAgents, Streaming
<1>10. CASE CancelCommits
  BY <1>10 DEF CancelCommits, CommitCancellation, Cancelled, ToolCallsClosed,
     SlotsReleased, InteractionsInterrupted
<1>11. CASE Responds
  BY <1>11 DEF Responds, CommitInteractionResponse
<1>12. CASE TaskCommandApplies
  <2>1. UNCHANGED seen /\ \A q \in Submits : state'[q] \in {state[q], "deleted"}
    BY <1>12 DEF TaskCommandApplies, SetTaskStatus, DeleteResearchTask, IInv, TypeOK
  <2> QED
    BY <2>1 DEF IInv, SeenOK
<1>13. CASE CommandCommits
  <2>1. UNCHANGED seen /\ \A q \in Submits : state'[q] = state[q]
    BY <1>13 DEF CommandCommits, CommitTerminal
  <2> QED
    BY <2>1 DEF SeenOK
<1> QED
  BY <1>1, <1>2, <1>3, <1>4, <1>5, <1>6, <1>7, <1>8, <1>9, <1>10, <1>11, <1>12,
     <1>13 DEF LineStep

\* SeenOK is preserved by agents.
LEMMA SeenAgent == ASSUME IInv, NEW r \in Submits, AgentStep(r) PROVE SeenOK'
<1>1. CASE Announces(r)
  <2>1. state[r] \in {agent[r], "deleted"} /\ UNCHANGED state
    BY <1>1 DEF Announces, IInv, CoreOK, AgentOK
  <2>2. ASSUME NEW q \in Submits, NEW p \in Terminal, p \in seen'[q]
        PROVE p \in seen[q] \/ (q = r /\ p = agent[r])
    BY <1>1, <2>2 DEF Announces, IInv, TypeOK
  <2> QED
    BY <2>1, <2>2 DEF IInv, SeenOK
<1>2. CASE ~Announces(r)
  <2>1. UNCHANGED seen
    BY <1>2 DEF AgentStep, WorkflowAdvances, Asks, ToolBegins, ToolEnds, StreamEnds,
       BudgetFails, StreamFails, Concludes, StopsWithoutAnswer, Answers, Commits,
       CheckpointRejected, Closes, GraphCollected
  <2>2. ASSUME NEW q \in Submits, NEW p \in Terminal, p \in seen[q]
        PROVE state'[q] \in {p, "deleted"}
    <3>1. state[q] \in {p, "deleted"}
      BY <2>2 DEF IInv, SeenOK
    <3> QED
      BY <3>1, AgentEffect DEF IInv, TypeOK
  <2> QED
    BY <2>1, <2>2 DEF SeenOK
<1> QED
  BY <1>1, <1>2

\* SeenOK is preserved by the host.
LEMMA SeenHost == ASSUME IInv, HostStep PROVE SeenOK'
<1> USE IdentityAssumption DEF IInv, TypeOK, CoreOK, LineOK, AgentOK, NewsOK, SeenOK
<1>1. CASE DrainBegins
  BY <1>1 DEF DrainBegins, CancelledAgents, Streaming
<1>2. CASE DrainEnds
  <2>1. UNCHANGED seen
    BY <1>2 DEF DrainEnds, MemoryLost
  <2>2. UNCHANGED state \/ RecoverIncomplete
    BY <1>2 DEF DrainEnds
  <2> QED
    BY <2>1, <2>2, RecoverEffect DEF IInv, TypeOK, SeenOK
<1>3. CASE Crash
  BY <1>3 DEF Crash, MemoryLost
<1>4. CASE Restart
  <2>1. UNCHANGED seen /\ RecoverIncomplete
    BY <1>4 DEF Restart
  <2> QED
    BY <2>1, RecoverEffect DEF IInv, TypeOK, SeenOK
<1> QED
  BY <1>1, <1>2, <1>3, <1>4 DEF HostStep

-----------------------------------------------------------------------------
(* The invariant.                                                          *)

\* IInv holds initially.
LEMMA InitIInv == RouterInit => IInv
<1> SUFFICES ASSUME RouterInit PROVE IInv
  OBVIOUS
<1> USE DEF RouterInit, StoreInit
<1>1. StoreTypeOK
  <2>1. answers \in [Submits -> Nat]
    OBVIOUS
  <2> QED
    BY <2>1, IdentityAssumption
<1>2. RouterTypeOK
  <2>1. seen \in [Submits -> SUBSET Terminal]
    OBVIOUS
  <2>2. line \in [kind : Commands \cup {"submit", "idle"}, req : Requests \cup {None},
                  arg : Submits \cup Conversations \cup {None}]
    OBVIOUS
  <2> QED
    BY <2>1, <2>2
<1>3. LineOK /\ ActiveSlotOwner /\ AgentOK /\ RunningHoldsConversation
  BY IdentityAssumption DEF LineOK, ActiveSlotOwner, AgentOK, RunningHoldsConversation
<1>4. OneAgentPerConversation /\ PrepareOK /\ NewsOK /\ SeenOK /\ DownOK
  BY DEF OneAgentPerConversation, PrepareOK, NewsOK, SeenOK, DownOK
<1>5. TurnOK /\ CheckpointSound /\ OpenSubmitIsOwned
  BY DEF TurnOK, CheckpointSound, OpenSubmitIsOwned
<1> QED
  BY <1>1, <1>2, <1>3, <1>4, <1>5 DEF IInv, TypeOK, CoreOK

\* IInv is inductive.
LEMMA NextIInv == IInv /\ [Next]_vars => IInv'
<1> SUFFICES ASSUME IInv, [Next]_vars PROVE IInv'
  OBVIOUS
<1>1. CASE ClientStep
  BY <1>1, TypeClient, CoreClient, NewsClient, SeenClient DEF IInv
<1>2. CASE LineStep
  BY <1>2, TypeLine, CoreLine, NewsLine, SeenLine DEF IInv
<1>3. ASSUME NEW r \in Submits, AgentStep(r) PROVE IInv'
  BY <1>3, TypeAgent, CoreAgent, NewsAgent, SeenAgent DEF IInv
<1>4. CASE HostStep
  BY <1>4, TypeHost, CoreHost, NewsHost, SeenHost DEF IInv
<1>5. CASE UNCHANGED vars
  <2> USE <1>5 DEF vars, IInv
  <2>1. TypeOK'
    BY DEF TypeOK
  <2>2. (LineOK /\ AgentOK /\ PrepareOK /\ TurnOK /\ DownOK)'
    BY DEF CoreOK, LineOK, AgentOK, PrepareOK, TurnOK, DownOK
  <2>3. (ActiveSlotOwner /\ RunningHoldsConversation /\ OneAgentPerConversation)'
    BY DEF CoreOK, ActiveSlotOwner, RunningHoldsConversation, OneAgentPerConversation
  <2>4. (OpenSubmitIsOwned /\ CheckpointSound /\ NewsOK /\ SeenOK)'
    BY DEF CoreOK, OpenSubmitIsOwned, CheckpointSound, NewsOK, SeenOK
  <2> QED
    BY <2>1, <2>2, <2>3, <2>4 DEF CoreOK
<1> QED
  BY <1>1, <1>2, <1>3, <1>4, <1>5 DEF Next

\* IInv holds in every reachable state.
THEOREM Invariance == Spec => []IInv
  BY InitIInv, NextIInv, PTL DEF Spec

\* Every variable keeps its type in every behaviour of the router and its store.
THEOREM TypeCorrect == Spec => []TypeOK
  BY Invariance, PTL DEF IInv

\* A task's active request is in progress in that task (begin_task_request and
\* every commit that clears active_request_id).
THEOREM SlotNamesItsOwner == Spec => []ActiveSlotOwner
  BY Invariance, PTL DEF IInv, CoreOK

\* A working agent holds its conversation (session.submit, _agent_session_for).
THEOREM RunningAgentHolds == Spec => []RunningHoldsConversation
  BY Invariance, PTL DEF IInv, CoreOK

\* No two working agents share a conversation and its engine (session.submit).
THEOREM OneAgentWorks == Spec => []OneAgentPerConversation
  BY Invariance, PTL DEF IInv, CoreOK

\* While the process is up, every open submit has somebody who will settle it
\* (_session_submit, _execute_agent_request, _cancel_agent_request).
THEOREM OpenSubmitsAreOwned == Spec => []OpenSubmitIsOwned
  BY Invariance, PTL DEF IInv, CoreOK

\* What a task remembers is a completed, received and displayed turn of that
\* task (commit_task_terminal_with_checkpoint).
THEOREM CheckpointIsSound == Spec => []CheckpointSound
  BY Invariance, PTL DEF IInv, CoreOK

\* What a client was told of a request is what the journal says of it
\* (_broadcast_committed_terminal, request replay).
THEOREM SeenStaysDurable == Spec => []SeenIsDurable
<1>1. IInv => SeenIsDurable
  BY DEF IInv, TypeOK, SeenOK, SeenIsDurable
<1> QED
  BY <1>1, Invariance, PTL

-----------------------------------------------------------------------------
(* What a Stop and a restart leave of a turn.                              *)

\* A graph that is still at work, and a question that still waits, belong to a
\* request that has its terminal or to an agent that reads the stream: StreamEnds
\* and every cancellation take the graph with them.
GraphOK ==
    /\ \A r \in graph \cup asking :
          /\ state[r] # "absent"
          /\ state[r] \in Open => agent[r] = "streaming"
    /\ host = "down" => graph = {} /\ asking = {}

StopOK == GraphOK /\ ReceiptSurvivesRestart /\ NoQuestionAfterStop

\* StopOK is preserved by clients.
LEMMA StopClient == ASSUME IInv, StopOK, ClientStep PROVE StopOK'
<1> USE IdentityAssumption DEF IInv, TypeOK, StopOK, GraphOK, ReceiptSurvivesRestart,
       NoQuestionAfterStop
<1>1. ASSUME NEW r \in Submits, NEW k \in Conversations, Submit(r, k) PROVE StopOK'
  BY <1>1 DEF Submit, Reserve, Reserved
<1>2. ASSUME NEW r \in Submits, Replay(r) PROVE StopOK'
  BY <1>2 DEF Replay
<1>3. ASSUME NEW c \in Controls, NEW kind \in Commands, NEW arg, Command(c, kind, arg)
      PROVE StopOK'
  BY <1>3 DEF Command, Reserve, Reserved
<1> HIDE DEF StopOK
<1> QED
  BY <1>1, <1>2, <1>3 DEF ClientStep

\* StopOK is preserved by the line handler: it writes "cancelled" only when the
\* agent of the request is over.
LEMMA StopLine == ASSUME IInv, StopOK, LineStep PROVE StopOK'
<1> USE IdentityAssumption DEF IInv, TypeOK, CoreOK, LineOK, StopOK, GraphOK,
       ReceiptSurvivesRestart, NoQuestionAfterStop, LineMay
<1>1. CASE Accepted \/ Replies \/ SubmitWaits
  BY <1>1 DEF Accepted, MarkInProgress, Replies, SubmitWaits
<1>2. CASE SubmitRefused
  BY <1>2 DEF SubmitRefused, Fail, CommitTaskTerminalWithoutCheckpoint, CommitTerminal
<1>3. CASE SubmitClaims \/ SubmitPlans
  BY <1>3 DEF SubmitClaims, BeginTaskRequest, SubmitPlans, StartTaskWorkflow
<1>4. CASE SubmitLaunches
  BY <1>4 DEF SubmitLaunches, AppendQuestion
<1>5. CASE CommandRefused \/ CommandCommits
  BY <1>5 DEF CommandRefused, CommandCommits, CommitTerminal
<1>6. CASE CancelStops
  BY <1>6 DEF CancelStops, CancelledAgents, Streaming
<1>7. CASE CancelCommits
  BY <1>7 DEF CancelCommits, CommitCancellation, Cancelled, InteractionsInterrupted
<1>8. CASE Responds
  BY <1>8 DEF Responds, CommitInteractionResponse
<1>9. CASE TaskCommandApplies
  BY <1>9 DEF TaskCommandApplies, SetTaskStatus, DeleteResearchTask
<1> QED
  BY <1>1, <1>2, <1>3, <1>4, <1>5, <1>6, <1>7, <1>8, <1>9 DEF LineStep

\* StopOK is preserved by agents: who records a conclusion holds an open request,
\* and whoever asks, or leaves the stream, does so while it is open.
LEMMA StopAgent == ASSUME IInv, StopOK, NEW r \in Submits, AgentStep(r) PROVE StopOK'
<1> USE DEF IInv, TypeOK, CoreOK, RunningHoldsConversation, StopOK, GraphOK,
       ReceiptSurvivesRestart, NoQuestionAfterStop, AgentMay, Goes
<1>1. CASE WorkflowAdvances(r) \/ ToolBegins(r) \/ ToolEnds(r) \/ GraphCollected(r)
  BY <1>1 DEF WorkflowAdvances, ToolBegins, ToolEnds, GraphCollected,
     TransitionTaskWorkflow, BeginToolCall, RecordOperationResult
<1>2. CASE Asks(r)
  BY <1>2 DEF Asks, CreateInteraction
<1>3. CASE StreamEnds(r) \/ Closes(r) \/ Announces(r)
  BY <1>3 DEF StreamEnds, Closes, Announces
<1>4. ASSUME NEW b \in BOOLEAN, StreamFails(r, b) PROVE StopOK'
  BY <1>4 DEF StreamFails, Fails, Fail, CommitTaskTerminalWithoutCheckpoint, CommitTerminal
<1>5. CASE BudgetFails(r) \/ StopsWithoutAnswer(r) \/ CheckpointRejected(r)
  BY <1>5 DEF BudgetFails, StopsWithoutAnswer, CheckpointRejected, Fails, Fail,
     CommitTaskTerminalWithoutCheckpoint, CommitTerminal
<1>6. CASE Concludes(r) \/ Answers(r)
  BY <1>6 DEF Concludes, Answers, RecordCoordinatorResult, AppendAnswer
<1>7. CASE Commits(r)
  BY <1>7 DEF Commits, CommitTaskTerminalWithCheckpoint, CommitTerminal
<1> QED
  BY <1>1, <1>2, <1>3, <1>4, <1>5, <1>6, <1>7 DEF AgentStep

\* StopOK is preserved by the host: recovery runs in a process without graphs,
\* writes off no received answer and closes every question of what it settles.
LEMMA StopHost == ASSUME IInv, StopOK, HostStep PROVE StopOK'
<1> USE DEF IInv, TypeOK, StopOK, GraphOK, ReceiptSurvivesRestart, NoQuestionAfterStop
<1>1. CASE DrainBegins
  BY <1>1 DEF DrainBegins, CancelledAgents, Streaming
<1>2. CASE DrainEnds
  BY <1>2, RecoverEffect DEF DrainEnds, MemoryLost, RecoverIncomplete, InteractionsInterrupted
<1>3. CASE Crash
  BY <1>3 DEF Crash, MemoryLost
<1>4. CASE Restart
  BY <1>4, RecoverEffect DEF Restart, RecoverIncomplete, InteractionsInterrupted
<1> QED
  BY <1>1, <1>2, <1>3, <1>4 DEF HostStep

\* StopOK holds in every reachable state.
LEMMA StopInvariance == Spec => []StopOK
<1>1. RouterInit => StopOK
  BY DEF RouterInit, StoreInit, StopOK, GraphOK, ReceiptSurvivesRestart, NoQuestionAfterStop
<1>2. IInv /\ StopOK /\ [Next]_vars => StopOK'
  <2> SUFFICES ASSUME IInv, StopOK, [Next]_vars PROVE StopOK'
    OBVIOUS
  <2>1. CASE UNCHANGED vars
    BY <2>1 DEF vars, StopOK, GraphOK, ReceiptSurvivesRestart, NoQuestionAfterStop
  <2> QED
    BY <2>1, StopClient, StopLine, StopAgent, StopHost DEF Next
<1> QED
  BY <1>1, <1>2, Invariance, PTL DEF Spec

\* An answer that was durably received is never written off as interrupted
\* (recover_incomplete looks up coordinator_result_receipts).
THEOREM ReceiptsSurvive == Spec => []ReceiptSurvivesRestart
  BY StopInvariance, PTL DEF StopOK

\* A cancelled or interrupted request leaves no question that is still pending
\* (_cancel_agent_request, commit_cancellation, recover_incomplete).
THEOREM NoQuestionSurvivesStop == Spec => []NoQuestionAfterStop
  BY StopInvariance, PTL DEF StopOK

-----------------------------------------------------------------------------
(* What no step may do.                                                    *)

FinalStep  == \A r \in Requests : state[r] \in Terminal => state'[r] \in {state[r], "deleted"}

MemoryStep ==
    \A t \in Tasks : checkpoint'[t] # checkpoint[t] =>
        \/ task'[t] = "deleted" /\ checkpoint'[t] = None
        \/ /\ checkpoint'[t] = slot[t] /\ slot'[t] = None
           /\ state'[slot[t]] = "completed"

\* Every line handler that writes a row reads it first.
LEMMA LineIsFinal == ASSUME IInv, LineStep PROVE FinalStep
<1> USE DEF IInv, TypeOK, FinalStep
<1>1. CASE Accepted
  BY <1>1 DEF Accepted, MarkInProgress
<1>2. CASE SubmitRefused
  BY <1>2 DEF SubmitRefused, Fail, CommitTaskTerminalWithoutCheckpoint, CommitTerminal
<1>3. CASE CommandRefused \/ CommandCommits
  BY <1>3 DEF CommandRefused, CommandCommits, CommitTerminal
<1>4. CASE CancelCommits
  BY <1>4 DEF CancelCommits, CommitCancellation, Cancelled
<1>5. CASE Responds
  BY <1>5 DEF Responds, CommitInteractionResponse
<1>6. CASE TaskCommandApplies
  BY <1>6 DEF TaskCommandApplies, SetTaskStatus, DeleteResearchTask
<1>7. CASE SubmitClaims \/ SubmitPlans \/ SubmitLaunches
  BY <1>7 DEF SubmitClaims, BeginTaskRequest, SubmitPlans, StartTaskWorkflow,
     SubmitLaunches, AppendQuestion
<1>8. CASE Replies \/ SubmitWaits \/ CancelStops
  BY <1>8 DEF Replies, SubmitWaits, CancelStops
<1> QED
  BY <1>1, <1>2, <1>3, <1>4, <1>5, <1>6, <1>7, <1>8 DEF LineStep

\* No step of the router or its host takes a terminal back.
LEMMA StepIsFinal == ASSUME IInv, [Next]_vars PROVE FinalStep
<1>1. CASE ClientStep
  BY <1>1 DEF ClientStep, Submit, Replay, Command, Reserve, FinalStep, IInv, TypeOK
<1>2. CASE LineStep
  BY <1>2, LineIsFinal
<1>3. ASSUME NEW r \in Submits, AgentStep(r) PROVE FinalStep
  BY <1>3, AgentEffect DEF FinalStep, IInv, TypeOK
<1>4. CASE HostStep
  <2>1. UNCHANGED state \/ RecoverIncomplete
    BY <1>4 DEF HostStep, DrainBegins, DrainEnds, Crash, Restart
  <2> QED
    BY <2>1, RecoverEffect DEF FinalStep, IInv
<1>5. CASE UNCHANGED vars
  BY <1>5 DEF FinalStep, vars
<1> QED
  BY <1>1, <1>2, <1>3, <1>4, <1>5 DEF Next

\* Only a committing agent and task.delete touch what a task remembers.
LEMMA StepRemembers == ASSUME IInv, [Next]_vars PROVE MemoryStep
<1>1. CASE ClientStep \/ UNCHANGED vars
  BY <1>1 DEF ClientStep, Submit, Replay, Command, Reserve, MemoryStep, vars
<1>2. CASE TaskCommandApplies
  BY <1>2 DEF TaskCommandApplies, SetTaskStatus, DeleteResearchTask, MemoryStep, IInv, TypeOK
<1>3. CASE LineStep /\ ~TaskCommandApplies
  <2>1. UNCHANGED checkpoint
    BY <1>3 DEF LineStep, Accepted, MarkInProgress, Replies, SubmitRefused, Fail,
       CommitTaskTerminalWithoutCheckpoint, CommitTerminal, SubmitWaits, SubmitClaims,
       BeginTaskRequest, SubmitPlans, StartTaskWorkflow, SubmitLaunches, AppendQuestion,
       CommandRefused, CancelStops, CancelCommits, CommitCancellation, Responds,
       CommitInteractionResponse, CommandCommits
  <2> QED
    BY <2>1 DEF MemoryStep
<1>4. ASSUME NEW r \in Submits, Commits(r) PROVE MemoryStep
  <2>1. CASE scope[r] \in Tasks
    BY <1>4, <2>1 DEF Commits, CommitTaskTerminalWithCheckpoint, MemoryStep, IInv, TypeOK
  <2>2. CASE scope[r] \notin Tasks
    BY <1>4, <2>2 DEF Commits, CommitTerminal, MemoryStep
  <2> QED
    BY <2>1, <2>2
<1>5. ASSUME NEW r \in Submits, AgentStep(r), ~Commits(r) PROVE MemoryStep
  <2>1. UNCHANGED checkpoint
    BY <1>5 DEF AgentStep, WorkflowAdvances, TransitionTaskWorkflow, Asks, CreateInteraction,
       ToolBegins, BeginToolCall, ToolEnds, RecordOperationResult, StreamEnds, BudgetFails,
       StreamFails, Fails, Fail, CommitTaskTerminalWithoutCheckpoint, CommitTerminal,
       Concludes, RecordCoordinatorResult, StopsWithoutAnswer, Answers, AppendAnswer,
       CheckpointRejected, Announces, Closes, GraphCollected
  <2> QED
    BY <2>1 DEF MemoryStep
<1>6. CASE HostStep
  BY <1>6 DEF HostStep, DrainBegins, DrainEnds, Crash, Restart, RecoverIncomplete, MemoryStep
<1> QED
  BY <1>1, <1>2, <1>3, <1>4, <1>5, <1>6 DEF Next

\* A terminal is final (commit_terminal, commit_task_terminal_*,
\* commit_cancellation and recover_incomplete all leave a settled row alone).
THEOREM TerminalStaysFinal == Spec => TerminalIsFinal
<1>1. IInv /\ [Next]_vars => [\A r \in Requests : state[r] \in Terminal =>
                                 state'[r] \in {state[r], "deleted"}]_vars
  BY StepIsFinal DEF FinalStep
<1> HIDE DEF Terminal, Requests
<1> QED
  BY <1>1, Invariance, PTL DEF Spec, TerminalIsFinal

\* A task changes what it remembers only when its owner completes or the task is
\* deleted (commit_task_terminal_with_checkpoint, delete_research_task).
THEOREM MemoryChangesOnCompletion == Spec => MemoryFollowsCompletion
<1>1. IInv /\ [Next]_vars => [\A t \in Tasks : checkpoint'[t] # checkpoint[t] =>
          \/ task'[t] = "deleted" /\ checkpoint'[t] = None
          \/ /\ checkpoint'[t] = slot[t] /\ slot'[t] = None
             /\ state'[slot[t]] = "completed"]_vars
  BY StepRemembers DEF MemoryStep
<1> QED
  BY <1>1, Invariance, PTL DEF Spec, MemoryFollowsCompletion

-----------------------------------------------------------------------------
(* The journal.  Its variables are functions of the router's (INSTANCE      *)
(* Journal in RequestRouter), so that the router over its store implements *)
(* RequestJournal is one simulation step per action, under IInv.           *)

\* A step of the journal, seen through the refinement mapping.
JournalStep == Journal!JournalNext \/ UNCHANGED Journal!journal

-----------------------------------------------------------------------------
(* What the store's commits are to the journal.                            *)

\* A step that leaves every submit's row, slot and memory alone is no step.
LEMMA Stutters ==
  ASSUME UNCHANGED <<scope, slot, checkpoint>>,
         \A q \in Submits : state'[q] = state[q] \/ {state[q], state'[q]} \subseteq Open
  PROVE  JournalStep
<1>1. [q \in Submits |-> IF state[q] \in Open THEN "open" ELSE state[q]]' =
      [q \in Submits |-> IF state[q] \in Open THEN "open" ELSE state[q]]
  OBVIOUS
<1> QED
  BY <1>1 DEF JournalStep, Journal!journal

\* A terminal of one open submit gives its slot back and remembers nothing but
\* a completed turn.
LEMMA Settles ==
  ASSUME IInv, NEW r \in Submits, NEW o \in Terminal,
         state[r] \in Open,
         \A q \in Submits : state'[q] = IF q = r THEN o ELSE state[q],
         UNCHANGED scope,
         slot' = SlotsReleased({r}),
         \/ UNCHANGED checkpoint
         \/ /\ o = "completed" /\ scope[r] \in Tasks /\ slot[scope[r]] = r
            /\ checkpoint' = [checkpoint EXCEPT ![scope[r]] = r]
  PROVE  JournalStep
<1> DEFINE kept  == IF checkpoint' = checkpoint THEN {} ELSE {scope[r]}
           final == [q \in {r} |-> o]
           oc    == [q \in Submits |-> IF state[q] \in Open THEN "open" ELSE state[q]]
<1>1. oc' = [q \in Submits |-> IF q \in {r} THEN final[q] ELSE oc[q]]
  OBVIOUS
<1>2. slot' = [t \in Tasks |-> IF slot[t] \in {r} THEN None ELSE slot[t]]
  BY DEF SlotsReleased
<1>3. kept \in SUBSET {t \in Tasks : slot[t] \in {r} /\ final[slot[t]] = "completed"}
  OBVIOUS
<1>4. checkpoint' = [t \in Tasks |-> IF t \in kept THEN slot[t] ELSE checkpoint[t]]
  BY DEF IInv, TypeOK
<1>5. Journal!Settle({r}, final)
  BY <1>1, <1>2, <1>3, <1>4 DEF Journal!Settle
<1>6. final \in [{r} -> Terminal] /\ {r} \in SUBSET Submits
  OBVIOUS
<1> QED
  BY <1>5, <1>6 DEF JournalStep, Journal!JournalNext

\* _fail_request of an open submit.
LEMMA FailSettles ==
  ASSUME IInv, NEW r \in Submits, NEW b \in BOOLEAN, state[r] \in Open, Fail(r, b)
  PROVE  JournalStep
<1>1. /\ \A q \in Submits : state'[q] = IF q = r THEN "failed" ELSE state[q]
      /\ UNCHANGED <<scope, checkpoint>>
  BY DEF Fail, CommitTaskTerminalWithoutCheckpoint, CommitTerminal, IInv, TypeOK
<1>2. slot' = SlotsReleased({r})
  <2>1. CASE scope[r] \in Tasks
    BY <2>1 DEF Fail, CommitTaskTerminalWithoutCheckpoint
  <2>2. CASE scope[r] \notin Tasks
    <3>1. UNCHANGED slot
      BY <2>2 DEF Fail, CommitTerminal
    <3>2. \A t \in Tasks : slot[t] # r
      BY <2>2, IdentityAssumption DEF IInv, CoreOK, ActiveSlotOwner
    <3> QED
      BY <3>1, <3>2 DEF SlotsReleased, IInv, TypeOK
  <2> QED
    BY <2>1, <2>2
<1> QED
  BY <1>1, <1>2, Settles

\* A restart settles every open submit at once and remembers none of them.
LEMMA RecoverySettles == ASSUME IInv, RecoverIncomplete PROVE JournalStep
<1>1. PICK R \in SUBSET Submits : R = {q \in Submits : state[q] \in Open}
  OBVIOUS
<1>2. PICK final \in [R -> Terminal] :
        final = [q \in R |-> IF q \in receipt THEN "completed" ELSE "interrupted"]
  OBVIOUS
<1> DEFINE oc == [q \in Submits |-> IF state[q] \in Open THEN "open" ELSE state[q]]
<1>3. oc' = [q \in Submits |-> IF q \in R THEN final[q] ELSE oc[q]]
  <2>1. \A q \in Submits : state'[q] = IF q \in R THEN final[q] ELSE state[q]
    BY <1>1, <1>2, RecoverEffect DEF IInv
  <2> QED
    BY <1>1, <1>2, <2>1
<1>4. slot' = [t \in Tasks |-> IF slot[t] \in R THEN None ELSE slot[t]]
  BY <1>1, IdentityAssumption DEF RecoverIncomplete, SlotsReleased, IInv, TypeOK
<1>5. \E kept \in SUBSET {t \in Tasks : slot[t] \in R /\ final[slot[t]] = "completed"} :
         checkpoint' = [t \in Tasks |-> IF t \in kept THEN slot[t] ELSE checkpoint[t]]
  <2>1. checkpoint' = [t \in Tasks |-> IF t \in {} THEN slot[t] ELSE checkpoint[t]]
    BY DEF RecoverIncomplete, IInv, TypeOK
  <2> WITNESS {} \in SUBSET {t \in Tasks : slot[t] \in R /\ final[slot[t]] = "completed"}
  <2> QED
    BY <2>1
<1>6. Journal!Settle(R, final)
  <2>1. [q \in Submits |-> scope[q]]' = [q \in Submits |-> scope[q]]
    BY DEF RecoverIncomplete
  <2>2. \A q \in R : oc[q] = "open"
    BY <1>1
  <2> QED
    BY <1>3, <1>4, <1>5, <2>1, <2>2 DEF Journal!Settle
<1> QED
  BY <1>6 DEF JournalStep, Journal!JournalNext

\* session.cancel settles its target, or nothing.
LEMMA CancellationSettles ==
  ASSUME IInv, NEW c \in Controls, NEW r \in Submits, CommitCancellation(c, r)
  PROVE  JournalStep
<1>1. CASE state[r] \in Open
  <2>1. /\ \A q \in Submits : state'[q] = IF q = r THEN "cancelled" ELSE state[q]
        /\ UNCHANGED <<scope, checkpoint>> /\ slot' = SlotsReleased({r})
    BY <1>1, IdentityAssumption DEF CommitCancellation, Cancelled
  <2> QED
    BY <1>1, <2>1, Settles
<1>2. CASE state[r] \notin Open
  <2>1. /\ \A q \in Submits : state'[q] = state[q]
        /\ UNCHANGED <<scope, checkpoint, slot>>
    BY <1>2, IdentityAssumption DEF CommitCancellation, Cancelled, SlotsReleased, IInv, TypeOK
  <2> QED
    BY <2>1, Stutters
<1> QED
  BY <1>1, <1>2

\* task.delete takes the outcomes of its requests with it.
LEMMA DeletionForgets ==
  ASSUME IInv, NEW c \in Controls, NEW t \in Tasks, DeleteResearchTask(t, c)
  PROVE  JournalStep
<1> DEFINE oc == [q \in Submits |-> IF state[q] \in Open THEN "open" ELSE state[q]]
<1>1. oc' = [q \in Submits |-> IF scope[q] = t /\ oc[q] # "absent" THEN "deleted" ELSE oc[q]]
  <2>1. \A q \in Submits :
           state'[q] = IF scope[q] = t /\ state[q] # "absent" THEN "deleted" ELSE state[q]
    BY IdentityAssumption DEF DeleteResearchTask, IInv, TypeOK
  <2> QED
    BY <2>1 DEF IInv, TypeOK
<1>2. Journal!Forget(t)
  BY <1>1 DEF Journal!Forget, DeleteResearchTask
<1> QED
  BY <1>2 DEF JournalStep, Journal!JournalNext

-----------------------------------------------------------------------------
(* One step of the router.                                                 *)

\* Clients accept.
LEMMA ClientSimulates == ASSUME IInv, ClientStep PROVE JournalStep
<1>1. ASSUME NEW r \in Submits, NEW k \in Conversations, Submit(r, k) PROVE JournalStep
  <2> DEFINE oc == [q \in Submits |-> IF state[q] \in Open THEN "open" ELSE state[q]]
             hm == [q \in Submits |-> scope[q]]
  <2>1. oc' = [oc EXCEPT ![r] = "open"] /\ hm' = [hm EXCEPT ![r] = k]
    BY <1>1 DEF Submit, Reserve, IInv, TypeOK
  <2>2. Journal!Accept(r, k)
    BY <1>1, <2>1 DEF Journal!Accept, Submit, Reserve
  <2> QED
    BY <2>2 DEF JournalStep, Journal!JournalNext
<1>2. ASSUME NEW r \in Submits, Replay(r) PROVE JournalStep
  BY <1>2, Stutters DEF Replay
<1>3. ASSUME NEW c \in Controls, NEW kind \in Commands, NEW arg, Command(c, kind, arg)
      PROVE  JournalStep
  <2> DEFINE oc == [q \in Submits |-> IF state[q] \in Open THEN "open" ELSE state[q]]
             hm == [q \in Submits |-> scope[q]]
  <2>1. UNCHANGED <<oc, hm, slot, checkpoint>>
    BY <1>3, IdentityAssumption DEF Command, Reserve, IInv, TypeOK
  <2> QED
    BY <2>1 DEF JournalStep, Journal!journal
<1> QED
  BY <1>1, <1>2, <1>3 DEF ClientStep

\* The line handler claims, settles and forgets.
LEMMA LineSimulates == ASSUME IInv, LineStep PROVE JournalStep
<1> USE DEF IInv, TypeOK, CoreOK, LineOK
<1>1. CASE Accepted
  BY <1>1, Stutters DEF Accepted, MarkInProgress
<1>2. CASE SubmitRefused
  BY <1>2, FailSettles DEF SubmitRefused
<1>3. CASE SubmitClaims
  <2>1. CASE line.arg \in Tasks
    <3>1. Journal!Claim(line.req)
      BY <1>3, <2>1 DEF SubmitClaims, BeginTaskRequest, CanBegin, Journal!Claim
    <3> QED
      BY <1>3, <3>1 DEF SubmitClaims, JournalStep, Journal!JournalNext
  <2>2. CASE line.arg \notin Tasks
    BY <1>3, <2>2, Stutters DEF SubmitClaims
  <2> QED
    BY <2>1, <2>2
<1>4. CASE CommandRefused \/ CommandCommits
  BY <1>4, Stutters, IdentityAssumption DEF CommandRefused, CommandCommits, CommitTerminal
<1>5. CASE CancelCommits
  BY <1>5, CancellationSettles DEF CancelCommits
<1>6. CASE Responds
  BY <1>6, Stutters, IdentityAssumption DEF Responds, CommitInteractionResponse
<1>7. CASE TaskCommandApplies
  BY <1>7, DeletionForgets, Stutters DEF TaskCommandApplies, SetTaskStatus
<1>8. CASE Replies \/ SubmitWaits \/ SubmitPlans \/ SubmitLaunches \/ CancelStops
  BY <1>8, Stutters DEF Replies, SubmitWaits, SubmitPlans, StartTaskWorkflow,
     SubmitLaunches, AppendQuestion, CancelStops
<1> QED
  BY <1>1, <1>2, <1>3, <1>4, <1>5, <1>6, <1>7, <1>8 DEF LineStep

\* Agents settle their own request.
LEMMA AgentSimulates == ASSUME IInv, NEW r \in Submits, AgentStep(r) PROVE JournalStep
<1>1. ASSUME NEW b \in BOOLEAN, Fails(r, b) PROVE JournalStep
  <2>1. CASE state[r] \in Open
    BY <1>1, <2>1, FailSettles DEF Fails
  <2>2. CASE state[r] \notin Open
    BY <1>1, <2>2, Stutters DEF Fails, Fail
  <2> QED
    BY <2>1, <2>2
<1>2. CASE Commits(r)
  <2>1. state[r] \in Open /\ \A q \in Submits : state'[q] = IF q = r THEN "completed" ELSE state[q]
    BY <1>2 DEF Commits, Goes, CommitTaskTerminalWithCheckpoint, CommitTerminal, IInv,
       TypeOK, CoreOK, RunningHoldsConversation
  <2>2. CASE scope[r] \in Tasks
    <3>1. slot[scope[r]] = r /\ UNCHANGED scope
          /\ checkpoint' = [checkpoint EXCEPT ![scope[r]] = r]
      BY <1>2, <2>2 DEF Commits, CommitTaskTerminalWithCheckpoint
    <3>2. slot' = SlotsReleased({r})
      BY <1>2, <2>2, IdentityAssumption DEF Commits, CommitTaskTerminalWithCheckpoint,
         SlotsReleased, IInv, TypeOK, CoreOK, ActiveSlotOwner
    <3> QED
      BY <2>1, <2>2, <3>1, <3>2, Settles
  <2>3. CASE scope[r] \notin Tasks
    <3>1. UNCHANGED <<scope, slot, checkpoint>>
      BY <1>2, <2>3 DEF Commits, CommitTerminal
    <3>2. slot' = SlotsReleased({r})
      BY <2>3, <3>1, IdentityAssumption DEF SlotsReleased, IInv, TypeOK, CoreOK, ActiveSlotOwner
    <3> QED
      BY <2>1, <3>1, <3>2, Settles
  <2> QED
    BY <2>2, <2>3
<1>3. CASE ~Commits(r) /\ \A b \in BOOLEAN : ~Fails(r, b)
  <2>1. UNCHANGED <<state, scope, slot, checkpoint>>
    BY <1>3 DEF AgentStep, WorkflowAdvances, TransitionTaskWorkflow, Asks, CreateInteraction,
       ToolBegins, BeginToolCall, ToolEnds, RecordOperationResult, StreamEnds, BudgetFails,
       StreamFails, Concludes, RecordCoordinatorResult, StopsWithoutAnswer, Answers,
       AppendAnswer, CheckpointRejected, Announces, Closes, GraphCollected
  <2> QED
    BY <2>1, Stutters
<1> QED
  BY <1>1, <1>2, <1>3

\* The host settles through recovery.
LEMMA HostSimulates == ASSUME IInv, HostStep PROVE JournalStep
<1>1. RecoverIncomplete \/ UNCHANGED storeVars
  BY DEF HostStep, DrainBegins, DrainEnds, Crash, Restart
<1>2. CASE RecoverIncomplete
  BY <1>2, RecoverySettles
<1>3. CASE UNCHANGED storeVars
  BY <1>3, Stutters
<1> QED
  BY <1>1, <1>2, <1>3

-----------------------------------------------------------------------------
\* The initial states agree.
LEMMA JournalStarts == RouterInit => Journal!JournalInit
  BY DEF RouterInit, StoreInit, Journal!JournalInit

\* Every step of the router is a step of the journal or a stutter.
LEMMA StepSimulates == IInv /\ [Next]_vars => [Journal!JournalNext]_(Journal!journal)
<1> SUFFICES ASSUME IInv, [Next]_vars PROVE JournalStep
  BY DEF JournalStep
<1>1. CASE UNCHANGED vars
  BY <1>1, Stutters DEF vars
<1> QED
  BY <1>1, ClientSimulates, LineSimulates, AgentSimulates, HostSimulates DEF Next

\* The router, its store, its agents and its host keep the promise of
\* RequestJournal to the desktop: one outcome per accepted request, given in the
\* instant in which it gives its conversation back, and only completed owners
\* remembered (request_records and research_tasks of store.py).
THEOREM RouterImplementsJournal == Spec => JournalRefined
<1> HIDE DEF Terminal
<1> QED
  BY JournalStarts, StepSimulates, Invariance, PTL
  DEF Spec, JournalRefined, Journal!JournalSpec

=============================================================================
