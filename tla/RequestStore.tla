---------------------------- MODULE RequestStore ----------------------------
(***************************************************************************)
(* The durable request journal of the OceanMind backend                    *)
(* (src/oceanx/backend/store.py).  The store is one SQLite connection      *)
(* behind one lock, and every write runs inside BEGIN IMMEDIATE / COMMIT   *)
(* or ROLLBACK, so every operator below is one atomic step; a store error  *)
(* rolls the transaction back and is a guard here.                         *)
(*                                                                         *)
(* Abstractions: payloads, events and texts are dropped; a request row is  *)
(* its state, a task row is its status and active request, the workflow,   *)
(* interaction and tool-call tables hold at most one row per request, and  *)
(* the optimistic revision counters are left to the callers, which treat a *)
(* stale expected revision as one more reason to refuse.                   *)
(***************************************************************************)
EXTENDS Naturals

CONSTANTS
    Submits,    \* request ids of session.submit (agent) requests
    Controls,   \* request ids of every other request type
    Tasks,      \* ids of the research tasks
    Conversations, \* the tasks, and the client sessions of submits without one
    None        \* SQL NULL

ASSUME IdentityAssumption ==
    /\ Submits \cap Controls = {}
    /\ Tasks \subseteq Conversations
    /\ None \notin Submits \cup Controls \cup Conversations

VARIABLES
    \* request_records
    state,       \* row state; "absent" before the row, "deleted" after it
    scope,       \* conversation named by the row, or None
    \* research_tasks
    task,        \* status, "deleted" once the row is gone
    slot,        \* active_request_id
    checkpoint,  \* terminal_request_id of the stable checkpoint
    \* one row per foreground request
    workflow,    \* task_workflows.state, "none" when there is no row
    interaction, \* task_interactions.state, "none" when there is no row
    receipt,     \* requests with a coordinator_result_receipts row
    toolCall,    \* tool_call_records.state, "none" when there is no row
    \* task_transcript_items
    shown,       \* requests whose user turn is displayed
    answers,     \* number of displayed assistant answers
    marked       \* requests whose display rows carry interrupted = 1

journalVars == <<state, scope>>
taskVars    == <<task, slot, checkpoint>>
turnVars    == <<workflow, interaction, receipt, toolCall>>
rowVars     == <<shown, answers, marked>>
storeVars   == <<state, scope, task, slot, checkpoint, workflow, interaction,
                 receipt, toolCall, shown, answers, marked>>

Requests      == Submits \cup Controls
Terminal      == {"completed", "failed", "cancelled", "interrupted"}
Open          == {"accepted", "in_progress"}
Present(r)    == state[r] \in Open \cup Terminal

StoreInit ==
    /\ state       = [r \in Requests |-> "absent"]
    /\ scope       = [r \in Requests |-> None]
    /\ task        = [t \in Tasks |-> "active"]
    /\ slot        = [t \in Tasks |-> None]
    /\ checkpoint  = [t \in Tasks |-> None]
    /\ workflow    = [r \in Submits |-> "none"]
    /\ interaction = [r \in Submits |-> "none"]
    /\ receipt     = {}
    /\ toolCall    = [r \in Submits |-> "none"]
    /\ shown       = {}
    /\ answers     = [r \in Submits |-> 0]
    /\ marked      = {}

StoreTypeOK ==
    /\ state \in [Requests -> {"absent", "deleted"} \cup Open \cup Terminal]
    /\ scope \in [Requests -> Conversations \cup {None}]
    /\ task \in [Tasks -> {"active", "archived", "deleted"}]
    /\ slot \in [Tasks -> Submits \cup {None}]
    /\ checkpoint \in [Tasks -> Submits \cup {None}]
    /\ workflow \in [Submits -> {"none", "planning", "working", "completed",
                                 "incomplete", "failed"}]
    /\ interaction \in [Submits -> {"none", "pending", "answered", "interrupted"}]
    /\ toolCall \in [Submits -> {"none", "in_progress", "completed"}]
    /\ receipt \subseteq Submits /\ shown \subseteq Submits /\ marked \subseteq Submits
    /\ answers \in [Submits -> Nat]

-----------------------------------------------------------------------------
(* The request row.                                                        *)

\* A known identity is returned unchanged, so only a new one writes.
Reserve(r, k) ==
    /\ state[r] = "absent"
    /\ state' = [state EXCEPT ![r] = "accepted"]
    /\ scope' = [scope EXCEPT ![r] = k]
    /\ UNCHANGED <<taskVars, turnVars, rowVars>>

MarkInProgress(r) ==
    /\ Present(r)
    /\ state' = [state EXCEPT ![r] = IF @ \in Terminal THEN @ ELSE "in_progress"]
    /\ UNCHANGED <<scope, taskVars, turnVars, rowVars>>

\* Tool calls still in progress are closed together with their request.
ToolCallsClosed(R) ==
    [q \in Submits |-> IF q \in R /\ toolCall[q] = "in_progress"
                       THEN "completed" ELSE toolCall[q]]

\* Mutant of SlotsReleased: the active request id survives its request.
SlotsKept(R) == slot

SlotsReleased(R) ==
    [t \in Tasks |-> IF slot[t] \in R THEN None ELSE slot[t]]

\* Mutant of InteractionsInterrupted: a pending question survives.
InteractionsKept(R) == interaction

InteractionsInterrupted(R) ==
    [q \in Submits |-> IF q \in R /\ interaction[q] = "pending"
                       THEN "interrupted" ELSE interaction[q]]

\* commit_terminal: a request that already has its terminal keeps it.
CommitTerminal(r, outcome) ==
    /\ Present(r)
    /\ IF state[r] \in Terminal
       THEN UNCHANGED <<state, toolCall>>
       ELSE /\ state' = [state EXCEPT ![r] = outcome]
            /\ toolCall' = ToolCallsClosed({r})
    /\ UNCHANGED <<scope, taskVars, workflow, interaction, receipt, rowVars>>

-----------------------------------------------------------------------------
(* Task-bound foreground requests.                                         *)

CanBegin(r) ==
    /\ scope[r] \in Tasks
    /\ task[scope[r]] = "active"
    /\ slot[scope[r]] = None

BeginTaskRequest(r) ==
    /\ CanBegin(r)
    /\ slot' = [slot EXCEPT ![scope[r]] = r]
    /\ UNCHANGED <<journalVars, task, checkpoint, turnVars, rowVars>>

\* INSERT OR IGNORE: an existing row survives.
StartTaskWorkflow(r) ==
    /\ slot[scope[r]] = r
    /\ workflow' = [workflow EXCEPT ![r] = IF @ = "none" THEN "planning" ELSE @]
    /\ UNCHANGED <<journalVars, taskVars, interaction, receipt, toolCall, rowVars>>

TransitionTaskWorkflow(r, w) ==
    /\ workflow[r] # "none"
    /\ workflow' = [workflow EXCEPT ![r] = w]
    /\ UNCHANGED <<journalVars, taskVars, interaction, receipt, toolCall, rowVars>>

WorkflowSet(R, w) ==
    [q \in Submits |-> IF q \in R /\ workflow[q] # "none" THEN w ELSE workflow[q]]

CommitTaskTerminalWithCheckpoint(r) ==
    /\ state[r] \in Open
    /\ slot[scope[r]] = r
    /\ state' = [state EXCEPT ![r] = "completed"]
    /\ toolCall' = ToolCallsClosed({r})
    /\ checkpoint' = [checkpoint EXCEPT ![scope[r]] = r]
    /\ slot' = [slot EXCEPT ![scope[r]] = None]
    /\ workflow' = WorkflowSet({r}, "completed")
    /\ UNCHANGED <<scope, task, interaction, receipt, rowVars>>

\* Mutant: a failed turn becomes what the task remembers.
FailedTurnRemembered(r, recoverable) ==
    /\ state[r] \in Open
    /\ state' = [state EXCEPT ![r] = "failed"]
    /\ toolCall' = ToolCallsClosed({r})
    /\ workflow' = WorkflowSet({r}, IF recoverable THEN "incomplete" ELSE "failed")
    /\ checkpoint' = [checkpoint EXCEPT ![scope[r]] = r]
    /\ slot' = SlotsReleased({r})
    /\ UNCHANGED <<scope, task, interaction, receipt, rowVars>>

\* Only _fail_request calls it, with request.failed and a code other than
\* request_interrupted: the display rows are not marked.
CommitTaskTerminalWithoutCheckpoint(r, recoverable) ==
    /\ state[r] \in Open
    /\ state' = [state EXCEPT ![r] = "failed"]
    /\ toolCall' = ToolCallsClosed({r})
    /\ workflow' = WorkflowSet({r}, IF recoverable THEN "incomplete" ELSE "failed")
    /\ slot' = SlotsReleased({r})
    /\ UNCHANGED <<scope, task, checkpoint, interaction, receipt, rowVars>>

-----------------------------------------------------------------------------
(* Evidence a running request leaves behind.                               *)

CreateInteraction(r) ==
    /\ state[r] \in Open
    /\ interaction' = [interaction EXCEPT ![r] = "pending"]
    /\ UNCHANGED <<journalVars, taskVars, workflow, receipt, toolCall, rowVars>>

\* The answer and the terminal of the responding control request c.
CommitInteractionResponse(c, r) ==
    /\ state[c] \in Open
    /\ interaction[r] = "pending"
    /\ interaction' = [interaction EXCEPT ![r] = "answered"]
    /\ state' = [state EXCEPT ![c] = "completed"]
    /\ UNCHANGED <<scope, taskVars, workflow, receipt, toolCall, rowVars>>

RecordCoordinatorResult(r) ==
    /\ r \in receipt \/ state[r] \in Open
    /\ receipt' = receipt \cup {r}
    /\ UNCHANGED <<journalVars, taskVars, workflow, interaction, toolCall, rowVars>>

\* The request's own state is not read here.
BeginToolCall(r) ==
    /\ toolCall' = [toolCall EXCEPT ![r] = IF @ = "none" THEN "in_progress" ELSE @]
    /\ UNCHANGED <<journalVars, taskVars, workflow, interaction, receipt, rowVars>>

RecordOperationResult(r) ==
    /\ toolCall' = [toolCall EXCEPT ![r] = IF @ = "none" THEN @ ELSE "completed"]
    /\ UNCHANGED <<journalVars, taskVars, workflow, interaction, receipt, rowVars>>

\* A submit without a task has no transcript rows.
AppendQuestion(r) ==
    /\ shown' = IF scope[r] \in Tasks THEN shown \cup {r} ELSE shown
    /\ UNCHANGED <<journalVars, taskVars, turnVars, answers, marked>>

AppendAnswer(r) ==
    /\ answers' = [answers EXCEPT ![r] = IF scope[r] \in Tasks THEN @ + 1 ELSE @]
    /\ UNCHANGED <<journalVars, taskVars, turnVars, shown, marked>>

-----------------------------------------------------------------------------
(* Control requests.                                                       *)

\* A target that has its terminal keeps it.
Cancelled(r) == IF state[r] \in Open THEN {r} ELSE {}

\* The terminal of an open target and of the control request c, in one
\* transaction.  The workflow row of the target is not touched.
CommitCancellation(c, r) ==
    LET cancelled == Cancelled(r) IN
    /\ state[c] \in Open
    /\ Present(r)
    /\ state' = [q \in Requests |-> IF q \in cancelled THEN "cancelled"
                                    ELSE IF q = c THEN "completed" ELSE state[q]]
    /\ toolCall' = ToolCallsClosed(cancelled)
    /\ interaction' = InteractionsInterrupted(cancelled)
    /\ marked' = marked \cup (cancelled \cap shown)
    /\ slot' = SlotsReleased(cancelled)
    /\ UNCHANGED <<scope, task, checkpoint, workflow, receipt, shown, answers>>

SetTaskStatus(t, status) ==
    /\ task[t] # "deleted"
    /\ slot[t] = None
    /\ task' = [task EXCEPT ![t] = status]
    /\ UNCHANGED <<journalVars, slot, checkpoint, turnVars, rowVars>>

\* Every row owned by the task goes with it; the workspace evidence stays.  The
\* identity is spent ("deleted"): clients mint a fresh one for every request.
\* Only the row of the deleting request c survives.
DeleteResearchTask(t, c) ==
    LET gone == {r \in Requests : Present(r) /\ scope[r] = t} \ {c} IN
    /\ task[t] # "deleted"
    /\ slot[t] = None
    /\ task' = [task EXCEPT ![t] = "deleted"]
    /\ checkpoint' = [checkpoint EXCEPT ![t] = None]
    /\ state' = [q \in Requests |-> IF q \in gone THEN "deleted" ELSE state[q]]
    /\ workflow' = [q \in Submits |-> IF q \in gone THEN "none" ELSE workflow[q]]
    /\ interaction' = [q \in Submits |-> IF q \in gone THEN "none" ELSE interaction[q]]
    /\ toolCall' = [q \in Submits |-> IF q \in gone THEN "none" ELSE toolCall[q]]
    /\ receipt' = receipt \ gone
    /\ shown' = shown \ gone
    /\ answers' = [q \in Submits |-> IF q \in gone THEN 0 ELSE answers[q]]
    /\ marked' = marked \ gone
    /\ UNCHANGED <<scope, slot>>

-----------------------------------------------------------------------------
(* Recovery.                                                               *)

\* Mutant of Delivered: receipts are not looked up.
NothingDelivered(R) == {}

Delivered(R) == R \cap receipt

\* A durable coordinator receipt turns the interrupted request into a
\* completed one; every other open request becomes interrupted.
RecoverIncomplete ==
    LET open      == {r \in Requests : state[r] \in Open}
        delivered == Delivered(open)
        lost      == open \ delivered
        ofTask    == {r \in Submits : scope[r] \in Tasks}
        legacy    == {r \in lost \cap ofTask : workflow[r] = "none"} IN
    /\ state' = [q \in Requests |-> IF q \in delivered THEN "completed"
                                    ELSE IF q \in lost THEN "interrupted" ELSE state[q]]
    /\ toolCall' = ToolCallsClosed(open)
    /\ interaction' = InteractionsInterrupted(open)
    /\ answers' = [q \in Submits |-> IF q \in delivered \cap ofTask
                                     THEN answers[q] + 1 ELSE answers[q]]
    /\ workflow' = [q \in Submits |->
                       IF workflow[q] = "none" \/ q \notin open \cap ofTask THEN workflow[q]
                       ELSE IF q \in delivered THEN "completed" ELSE "incomplete"]
    /\ marked' = marked \cup (legacy \cap shown)
    /\ slot' = SlotsReleased(open)
    /\ UNCHANGED <<scope, task, checkpoint, receipt, shown>>

=============================================================================
