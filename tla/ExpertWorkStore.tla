-------------------------- MODULE ExpertWorkStore --------------------------
(***************************************************************************)
(* The durable side of the Expert team (src/oceanx/backend/store.py): the  *)
(* rows of team_work_records and code_executions, the result manifests the *)
(* executions leave on disk, and the published task results.  Each         *)
(* operator is the new value of one row under one store transaction.       *)
(*                                                                         *)
(* Abstractions: an execution stands for its program and the one file it   *)
(* may declare, and executions are numbered as they start.  The four       *)
(* terminal states of a row are one, "settled": what the code decides on   *)
(* them it decides on the author (result_origin) and the failure class of  *)
(* the result, which are kept with the executions it cites and offers.  No *)
(* code under src calls record_workstream_draft, so a row has no draft.    *)
(***************************************************************************)
EXTENDS Naturals, FiniteSets

CONSTANTS
    Orders,      \* work order ids
    Experts,     \* those of a domain Expert; the others are discussions, without code
    Sessions,    \* job keys: one logical Expert each
    Requests,    \* foreground requests
    SessionOf,   \* [Orders -> Sessions]
    RequestOf,   \* [Orders -> Requests], parent_request_id
    Round,       \* [Orders -> Nat], session_round
    Executions,  \* code execution ids
    FileOf,      \* [Executions -> names], the file an execution saves if it does
    Nobody       \* no order

\* The job key of an order holds its authority: every round of a session is that
\* of a domain Expert, or none is.
ASSUME OrderAssumption ==
    /\ Experts \subseteq Orders
    /\ SessionOf \in [Orders -> Sessions]
    /\ \A v, w \in Orders : SessionOf[v] = SessionOf[w] => (v \in Experts <=> w \in Experts)
    /\ RequestOf \in [Orders -> Requests]
    /\ Round \in [Orders -> Nat]
    /\ Nobody \notin Orders
    /\ Executions \subseteq Nat /\ DOMAIN FileOf = Executions

VARIABLES
    row,        \* team_work_records
    execution,  \* code_executions
    published   \* of each execution: the order its task result names, on disk

durable == <<row, execution, published>>

Active   == {"queued", "running"}
Failures == {"none", "transient", "cancelled", "other"}
Origins  == {"none", "agent", "recovered"}

Result == [origin : Origins, failure : Failures,
           evidence : SUBSET Executions, outputs : SUBSET Executions]
NoResult == [origin |-> "none", failure |-> "none", evidence |-> {}, outputs |-> {}]

Row == [state : {"none", "settled"} \cup Active, result : Result,
        succeeded : SUBSET Executions,  \* successful_execution_ids of the checkpoint
        bound : SUBSET Executions]      \* result_bundle items with a result_ref

Execution == [state : {"none", "running", "succeeded", "failed", "cancelled"},
              owner : Orders \cup {Nobody},
              manifest : BOOLEAN,     \* left by a process that died before the row was written
              declared : BOOLEAN]     \* the stored result carries discovered_results

StoreTypeOK ==
    /\ row \in [Orders -> Row]
    /\ execution \in [Executions -> Execution]
    /\ published \in [Executions -> Orders \cup {Nobody}]

StoreInit ==
    /\ row = [w \in Orders |-> [state |-> "none", result |-> NoResult,
                                succeeded |-> {}, bound |-> {}]]
    /\ execution = [e \in Executions |-> [state |-> "none", owner |-> Nobody,
                                          manifest |-> FALSE, declared |-> FALSE]]
    /\ published = [e \in Executions |-> Nobody]

-----------------------------------------------------------------------------
(* Reads.                                                                  *)

SessionRows(w) == {v \in Orders : SessionOf[v] = SessionOf[w] /\ row[v].state # "none"}

\* list_agent_job_code_executions: those of every round of the session.
SessionExecutions(w) == {e \in Executions : execution[e].owner \in SessionRows(w)}

\* The latest earlier round of the session; several rounds may share a number.
PriorRounds(w) ==
    LET earlier == {v \in SessionRows(w) : Round[v] < Round[w]}
    IN {v \in earlier : \A u \in earlier : Round[u] <= Round[v]}

\* A result the backend wrote after a transient failure may be worked on again.
CanResume(w) ==
    /\ row[w].state = "settled"
    /\ row[w].result.origin = "recovered"
    /\ row[w].result.failure = "transient"

-----------------------------------------------------------------------------
(* Writes.                                                                 *)

\* A new round starts from the evidence and the published results of the last.
Created(w) ==
    [state |-> "queued", result |-> NoResult,
     succeeded |-> UNION {row[v].succeeded : v \in PriorRounds(w)},
     bound     |-> UNION {row[v].bound : v \in PriorRounds(w)}]

\* Mutant of Resumed: the checkpoint starts afresh.
ResumedAfresh(w) == [row[w] EXCEPT !.state = "queued", !.succeeded = {}]

Resumed(w) == [row[w] EXCEPT !.state = "queued"]

MarkedRunning(w) == [row[w] EXCEPT !.state = "running", !.result = NoResult]

\* complete_team_work adds the published items of the row to the outputs; a row
\* that has settled keeps its result, and the caller gets an error.
Completed(w, result) ==
    IF row[w].state \in Active
    THEN [row[w] EXCEPT !.state = "settled",
                        !.result = [result EXCEPT !.outputs = @ \cup row[w].bound]]
    ELSE row[w]

\* What the backend writes for a row whose participant is gone.
Salvaged(w, failure) ==
    Completed(w, [origin |-> "recovered", failure |-> failure,
                  evidence |-> row[w].succeeded, outputs |-> row[w].bound])

StartExecution(w, e) ==
    /\ w \in Experts /\ row[w].state = "running" /\ execution[e].state = "none"
    /\ \A f \in Executions : f < e => execution[f].state # "none"
    /\ execution' = [execution EXCEPT ![e].state = "running", ![e].owner = w]

\* Mutant of FinishExecution: the order is not told.
FinishUnnoted(e, state, declares) ==
    /\ execution[e].state = "running"
    /\ execution' = [execution EXCEPT ![e].state = state, ![e].declared = declares]
    /\ UNCHANGED row

\* finish_code_execution notes a success in the checkpoint of its order, whatever
\* the state of that order by then.
FinishExecution(e, state, declares) ==
    /\ execution[e].state = "running"
    /\ execution' = [execution EXCEPT ![e].state = state, ![e].declared = declares]
    /\ row' = IF state = "succeeded"
              THEN [row EXCEPT ![execution[e].owner].succeeded = @ \cup {e}]
              ELSE row

\* record_workstream_results: the binding joins the row, where it takes the place
\* of another one of its file, and the stored result.
Bound(w, e) ==
    [row[w] EXCEPT !.bound = {f \in @ : FileOf[f] # FileOf[e]} \cup {e},
                   !.result.outputs = IF row[w].result = NoResult THEN @ ELSE @ \cup {e}]
=============================================================================
