--------------------------- MODULE TeamWorkProofs ---------------------------
(***************************************************************************)
(* For all orders, sessions, requests, retries, cancellations and crashes: *)
(* one Expert never works in two rounds at once, no program outlives the   *)
(* participant that waits for it, nothing that was computed is missing     *)
(* from a result, and no round stays open without a delegate.              *)
(*                                                                         *)
(* The invariant says of each order what the place of its delegate implies *)
(* of the lock, the participant and the request (Placed), and of its row   *)
(* what the programs that ran for it imply (Recorded).  A second one, above *)
(* the first, says what a row may offer and which results have no binding  *)
(* (BookInv); with it the rows are a book of rounds (WorkBook).            *)
(*                                                                         *)
(* At the end are theorems about functions beside it, for inputs of any    *)
(* size: the order of a plan, what acceptance publishes, reading a file.   *)
(***************************************************************************)
EXTENDS TeamWork, WorkPlan, FiniteSetTheorems, WellFoundedInduction, TLAPS

Holding == {"preparing", "running", "cancelling", "backoff"}

\* The delegate of w, its participant and its request.
Placed(w) ==
    /\ pc[w] \in Holding => lock[SessionOf[w]] = w
    /\ part[w] \in {"active", "timing"} => pc[w] = "running"
    /\ pc[w] = "running" => part[w] # "none"
    /\ pc[w] = "cancelling" =>
          /\ part[w] = "stopping" /\ phase[RequestOf[w]] = "unwinding"
          /\ w \in awaited[RequestOf[w]]
    /\ pc[w] = "running" /\ part[w] = "stopping" =>
          /\ phase[RequestOf[w]] \in {"settling", "closing"}
          /\ w \in awaited[RequestOf[w]]
    /\ pc[w] \in {"waiting", "preparing", "backoff"} => part[w] = "none"
    /\ part[w] = "stopping" => phase[RequestOf[w]] \notin {"new", "idle", "assigning"}
    /\ stage # "up" => pc[w] = "idle" /\ part[w] = "none"

\* The row of w and the programs that ran for it.  A round that settles while one
\* of them runs was stopped.
Recorded(w) ==
    /\ part[w] # "none" \/ Busy(w) =>
          row[w].state \in Active \/ (row[w].state = "settled" /\ row[w].result.failure = "cancelled")
    /\ \A e \in Executions :
          execution[e].state # "none" /\ execution[e].owner = w =>
              /\ row[w].state # "none"
              /\ execution[e].state = "succeeded" => e \in row[w].succeeded
              /\ stage = "up" /\ execution[e].state = "running" => part[w] # "none"
    /\ row[w].state = "settled" /\ row[w].result.origin # "none"
       /\ row[w].result.failure # "cancelled" =>
          \A e \in Executions :
              execution[e].owner = w /\ execution[e].state = "succeeded"
              => e \in row[w].result.evidence
    /\ stage = "up" /\ phase[RequestOf[w]] = "closed" /\ row[w].state \in Active
          => pc[w] \notin Over

Requested(r) ==
    /\ awaited[r] \subseteq OrdersOf(r)
    /\ phase[r] \in {"new", "idle", "settled"} => awaited[r] = {}
    /\ stage # "up" => phase[r] \in {"new", "closed"} /\ awaited[r] = {}

Started ==
    /\ \A e \in Executions : execution[e].state # "none" => execution[e].owner \in Experts
    /\ stage = "bindings" => \A e \in Executions : execution[e].state # "running"

IInv ==
    /\ TypeOK /\ Started
    /\ \A r \in Requests : Requested(r)
    /\ \A w \in Orders : Placed(w) /\ Recorded(w)

-----------------------------------------------------------------------------
(* What the operators of the store do to a row.                            *)

LEMMA CreatedFacts ==
    ASSUME TypeOK, NEW w \in Orders
    PROVE  Created(w) \in Row /\ Created(w).state = "queued"
<1>1. \A v \in Orders : row[v].succeeded \subseteq Executions /\ row[v].bound \subseteq Executions
    BY DEF TypeOK, StoreTypeOK, Row
<1>2. PriorRounds(w) \subseteq Orders
    BY DEF PriorRounds, SessionRows
<1>3. /\ UNION {row[v].succeeded : v \in PriorRounds(w)} \subseteq Executions
      /\ UNION {row[v].bound : v \in PriorRounds(w)} \subseteq Executions
    BY <1>1, <1>2
<1>4. NoResult \in Result
    BY DEF NoResult, Result, Origins, Failures
<1> QED
    BY <1>3, <1>4 DEF Created, Row, Active

LEMMA ResumedFacts ==
    ASSUME TypeOK, NEW w \in Orders
    PROVE  /\ Resumed(w) \in Row /\ Resumed(w).state = "queued"
           /\ Resumed(w).succeeded = row[w].succeeded
<1>1. row[w] \in Row
    BY DEF TypeOK, StoreTypeOK
<1> QED
    BY <1>1 DEF Resumed, Row, Active

LEMMA MarkedRunningFacts ==
    ASSUME TypeOK, NEW w \in Orders
    PROVE  /\ MarkedRunning(w) \in Row /\ MarkedRunning(w).state = "running"
           /\ MarkedRunning(w).succeeded = row[w].succeeded
<1>1. NoResult \in Result
    BY DEF NoResult, Result, Origins, Failures
<1>2. row[w] \in Row
    BY DEF TypeOK, StoreTypeOK
<1> QED
    BY <1>1, <1>2 DEF MarkedRunning, Row, Active

LEMMA CompletedFacts ==
    ASSUME TypeOK, NEW w \in Orders, NEW result \in Result
    PROVE  /\ Completed(w, result) \in Row
           /\ Completed(w, result).succeeded = row[w].succeeded
           /\ row[w].state \in Active =>
                 /\ Completed(w, result).state = "settled"
                 /\ Completed(w, result).result.origin = result.origin
                 /\ Completed(w, result).result.failure = result.failure
                 /\ Completed(w, result).result.evidence = result.evidence
           /\ row[w].state \notin Active => Completed(w, result) = row[w]
<1>1. row[w] \in Row
    BY DEF TypeOK, StoreTypeOK
<1>2. [result EXCEPT !.outputs = @ \cup row[w].bound] \in Result
    BY <1>1 DEF Result, Row
<1> QED
    BY <1>1, <1>2 DEF Completed, Row, Result, Active

LEMMA SalvagedFacts ==
    ASSUME TypeOK, NEW w \in Orders, NEW failure \in Failures
    PROVE  /\ Salvaged(w, failure) \in Row
           /\ Salvaged(w, failure).succeeded = row[w].succeeded
           /\ row[w].state \in Active =>
                 /\ Salvaged(w, failure).state = "settled"
                 /\ Salvaged(w, failure).result.failure = failure
                 /\ Salvaged(w, failure).result.evidence = row[w].succeeded
           /\ row[w].state \notin Active => Salvaged(w, failure) = row[w]
<1> DEFINE result == [origin |-> "recovered", failure |-> failure,
                      evidence |-> row[w].succeeded, outputs |-> row[w].bound]
<1>1. result \in Result /\ result.failure = failure /\ result.evidence = row[w].succeeded
    BY DEF Result, Origins, TypeOK, StoreTypeOK, Row
<1>2. Salvaged(w, failure) = Completed(w, result)
    BY DEF Salvaged
<1> HIDE DEF result
<1> QED
    BY <1>1, <1>2, CompletedFacts

LEMMA BoundFacts ==
    ASSUME TypeOK, NEW w \in Orders, NEW e \in Executions
    PROVE  /\ Bound(w, e) \in Row
           /\ Bound(w, e).state = row[w].state
           /\ Bound(w, e).succeeded = row[w].succeeded
           /\ Bound(w, e).result.origin = row[w].result.origin
           /\ Bound(w, e).result.failure = row[w].result.failure
           /\ Bound(w, e).result.evidence = row[w].result.evidence
<1>1. row[w] \in Row
    BY DEF TypeOK, StoreTypeOK
<1>2. row[w].result \in Result
    BY <1>1 DEF Row
<1>3. {f \in row[w].bound : FileOf[f] # FileOf[e]} \cup {e} \subseteq Executions
    BY <1>1 DEF Row
<1>4. row[w].result.outputs \cup {e} \subseteq Executions
    BY <1>2 DEF Result
<1> QED
    BY <1>1, <1>2, <1>3, <1>4 DEF Bound, Row, Result

LEMMA TerminalFacts ==
    ASSUME TypeOK, NEW w \in Orders, NEW origin \in Origins, NEW failure \in Failures
    PROVE  /\ Terminal(w, origin, failure) \in Result
           /\ Terminal(w, origin, failure).origin = origin
           /\ Terminal(w, origin, failure).failure = failure
           /\ \A e \in Executions :
                 /\ row[w].state # "none"
                 /\ execution[e].owner = w /\ execution[e].state = "succeeded"
                 => e \in Terminal(w, origin, failure).evidence
<1>1. Candidates(w) \subseteq Executions
    BY DEF Candidates, Delivered, SessionExecutions, TypeOK, StoreTypeOK, Row
<1>2. SessionExecutions(w) \subseteq Executions
    BY DEF SessionExecutions
<1>3. ASSUME row[w].state # "none", NEW e \in Executions, execution[e].owner = w
      PROVE  e \in SessionExecutions(w)
    BY <1>3 DEF SessionExecutions, SessionRows
<1> QED
    BY <1>1, <1>2, <1>3 DEF Terminal, Result

-----------------------------------------------------------------------------
(* Types.                                                                  *)

LEMMA TypesOfReleases ==
    ASSUME TypeOK, NEW W, Releases(W)
    PROVE  lock' \in [Sessions -> Orders \cup {Nobody}] /\ tries' \in [Orders -> Nat]
BY DEF Releases, TypeOK

LEMMA TypesOfDelivers ==
    ASSUME TypeOK, NEW w \in Orders, NEW result \in Result, Delivers(w, result)
    PROVE  /\ row' \in [Orders -> Row]
           /\ pc' \in [Orders -> Over \cup {"waiting", "preparing", "running", "cancelling",
                                            "backoff"}]
           /\ lock' \in [Sessions -> Orders \cup {Nobody}] /\ tries' \in [Orders -> Nat]
<1>1. row' \in [Orders -> Row]
    BY CompletedFacts DEF Delivers, TypeOK, StoreTypeOK
<1>2. CASE BacksOff(w)
    BY <1>1, <1>2 DEF BacksOff, TypeOK
<1>3. ASSUME NEW how \in {"returned", "raised"}, Leaves(w, how) 
      PROVE  /\ pc' \in [Orders -> Over \cup {"waiting", "preparing", "running", "cancelling",
                                              "backoff"}]
             /\ lock' \in [Sessions -> Orders \cup {Nobody}] /\ tries' \in [Orders -> Nat]
    BY <1>3, TypesOfReleases DEF Leaves, TypeOK, Over
<1> QED
    BY <1>1, <1>2, <1>3 DEF Delivers

\* A program that is over, or that leaves a manifest, is recorded as such.
LEMMA TypesOfExecution ==
    ASSUME TypeOK, NEW e \in Executions, NEW declares \in BOOLEAN,
           NEW state \in {"succeeded", "failed", "cancelled"}
    PROVE  /\ [execution[e] EXCEPT !.state = state] \in Execution
           /\ [execution[e] EXCEPT !.state = state, !.declared = declares] \in Execution
           /\ [execution[e] EXCEPT !.manifest = TRUE] \in Execution
<1>1. execution[e] \in Execution
    BY DEF TypeOK, StoreTypeOK
<1> QED
    BY <1>1 DEF Execution

LEMMA TypesOfFinish ==
    ASSUME TypeOK, NEW e \in Executions, NEW state \in {"succeeded", "failed", "cancelled"},
           NEW declares \in BOOLEAN, FinishExecution(e, state, declares)
    PROVE  row' \in [Orders -> Row] /\ execution' \in [Executions -> Execution]
<1>1. execution' \in [Executions -> Execution]
    <2>1. execution' = [execution EXCEPT ![e] = [@ EXCEPT !.state = state, !.declared = declares]]
        BY DEF FinishExecution, TypeOK, StoreTypeOK
    <2> QED
        BY <2>1, TypesOfExecution DEF TypeOK, StoreTypeOK
<1>2. CASE state = "succeeded" /\ execution[e].owner \in Orders
    <2>1. row[execution[e].owner] \in Row
        BY <1>2 DEF TypeOK, StoreTypeOK
    <2>2. [row[execution[e].owner] EXCEPT !.succeeded = @ \cup {e}] \in Row
        BY <2>1 DEF Row
    <2> QED
        BY <1>1, <1>2, <2>2 DEF FinishExecution, TypeOK, StoreTypeOK
<1>3. CASE ~(state = "succeeded" /\ execution[e].owner \in Orders)
    BY <1>1, <1>3 DEF FinishExecution, TypeOK, StoreTypeOK
<1> QED
    BY <1>2, <1>3

LEMMA TypesOfDies ==
    ASSUME TypeOK, Dies
    PROVE  /\ pc' \in [Orders -> Over] /\ tries' \in [Orders -> Nat]
           /\ part' \in [Orders -> {"none"}] /\ lock' \in [Sessions -> {Nobody}]
           /\ phase' \in [Requests -> {"new", "closed"}] /\ awaited' \in [Requests -> {{}}]
           /\ stops' \in [Requests -> Nat] /\ stage' = "down" /\ runs' \in Nat
           /\ row' = row
BY DEF Dies, TypeOK, Over

LEMMA InitTyped == Init => TypeOK
<1> SUFFICES ASSUME Init PROVE TypeOK
    OBVIOUS
<1>1. NoResult \in Result
    BY DEF NoResult, Result, Origins, Failures
<1>2. StoreTypeOK
    BY <1>1 DEF Init, StoreInit, StoreTypeOK, Row, Execution, Active
<1> QED
    BY <1>2 DEF Init, TypeOK, Over

LEMMA NextTyped == TypeOK /\ [Next]_vars => TypeOK'
<1> SUFFICES ASSUME TypeOK, [Next]_vars PROVE TypeOK'
    OBVIOUS
<1> USE DEF durable, delegates, turns, process
<1>1. ASSUME NEW r \in Requests, Opens(r) PROVE TypeOK'
    BY <1>1 DEF Opens, TypeOK, StoreTypeOK
<1>2. ASSUME NEW r \in Requests, Stops(r) PROVE TypeOK'
    BY <1>2, TypesOfReleases DEF Stops, TypeOK, StoreTypeOK, Over
<1>3. ASSUME NEW r \in Requests, StopsAgain(r) PROVE TypeOK'
    BY <1>3, TypesOfReleases DEF StopsAgain, TypeOK, StoreTypeOK, Over
<1>4. ASSUME NEW r \in Requests, AssignmentEnds(r) PROVE TypeOK'
    BY <1>4 DEF AssignmentEnds, Forgets, TypeOK, StoreTypeOK, Over
<1>5. ASSUME NEW r \in Requests, Settles(r) PROVE TypeOK'
    BY <1>5 DEF Settles, OrdersOf, TypeOK, StoreTypeOK, Over
<1>6. ASSUME NEW r \in Requests, Settled(r) PROVE TypeOK'
    <2>1. row' \in [Orders -> Row]
        BY <1>6, SalvagedFacts DEF Settled, SettledRows, TypeOK, StoreTypeOK, Failures
    <2> QED
        BY <1>6, <2>1 DEF Settled, Forgets, TypeOK, StoreTypeOK, Over
<1>7. ASSUME NEW r \in Requests, NEW W \in SUBSET Orders, Dispatches(r, W) PROVE TypeOK'
    BY <1>7 DEF Dispatches, TypeOK, StoreTypeOK
<1>8. ASSUME NEW w \in Orders, Prepares(w) PROVE TypeOK'
    <2>1. row' \in [Orders -> Row]
        BY <1>8, MarkedRunningFacts, CreatedFacts, ResumedFacts
        DEF Prepares, TypeOK, StoreTypeOK
    <2>2. lock' \in [Sessions -> Orders \cup {Nobody}]
        BY <1>8 DEF Prepares, TypeOK
    <2> QED
        BY <1>8, <2>1, <2>2 DEF Prepares, TypeOK, StoreTypeOK
<1>9. ASSUME NEW w \in Orders, ReturnsAtOnce(w) \/ Refused(w) PROVE TypeOK'
    BY <1>9, TypesOfReleases DEF ReturnsAtOnce, Refused, Leaves, TypeOK, StoreTypeOK, Over
<1>10. ASSUME NEW w \in Orders, SourcesUnavailable(w) PROVE TypeOK'
    <2>1. [NoResult EXCEPT !.failure = "other"] \in Result
        BY DEF NoResult, Result, Origins, Failures
    <2>2. row' \in [Orders -> Row]
        BY <1>10, <2>1, CompletedFacts DEF SourcesUnavailable, TypeOK, StoreTypeOK
    <2> QED
        BY <1>10, <2>2, TypesOfReleases DEF SourcesUnavailable, Leaves, TypeOK, StoreTypeOK, Over
<1>11. ASSUME NEW w \in Orders, StartsParticipant(w) PROVE TypeOK'
    <2>1. row' \in [Orders -> Row]
        BY <1>11, MarkedRunningFacts DEF StartsParticipant, TypeOK, StoreTypeOK
    <2>2. lock' \in [Sessions -> Orders \cup {Nobody}] /\ tries' \in [Orders -> Nat]
        BY <1>11, TypesOfReleases DEF StartsParticipant, Leaves, TypeOK
    <2> QED
        BY <1>11, <2>1, <2>2 DEF StartsParticipant, Leaves, TypeOK, StoreTypeOK, Over
<1>12. ASSUME NEW w \in Orders, TimesOut(w) PROVE TypeOK'
    BY <1>12 DEF TimesOut, TypeOK, StoreTypeOK
<1>13. ASSUME NEW w \in Orders, ParticipantEnds(w) PROVE TypeOK'
    <2>1. PICK origin \in Origins, failure \in Failures :
              Delivers(w, Terminal(w, origin, failure))
        BY <1>13 DEF ParticipantEnds, Origins, Failures
    <2>2. Terminal(w, origin, failure) \in Result
        BY TerminalFacts
    <2>3. UNCHANGED <<execution, published, turns, process>>
          /\ part' = [part EXCEPT ![w] = "none"]
        BY <1>13 DEF ParticipantEnds, Ends
    <2> QED
        BY <2>1, <2>2, <2>3, TypesOfDelivers DEF TypeOK, StoreTypeOK
<1>14. ASSUME NEW w \in Orders, ParticipantVanishes(w) PROVE TypeOK'
    <2>1. lock' \in [Sessions -> Orders \cup {Nobody}] /\ tries' \in [Orders -> Nat]
        BY <1>14, TypesOfReleases DEF ParticipantVanishes, Leaves, TypeOK
    <2> QED
        BY <1>14, <2>1 DEF ParticipantVanishes, Ends, Leaves, TypeOK, StoreTypeOK, Over
<1>15. ASSUME NEW w \in Orders, NEW e \in Executions, ExecutionStarts(w, e) PROVE TypeOK'
    BY <1>15 DEF ExecutionStarts, StartExecution, TypeOK, StoreTypeOK, Execution
<1>16. ASSUME NEW w \in Orders, NEW e \in Executions, Publishes(w, e) PROVE TypeOK'
    <2>1. row' \in [Orders -> Row]
        BY <1>16, BoundFacts DEF Publishes, TypeOK, StoreTypeOK
    <2> QED
        BY <1>16, <2>1 DEF Publishes, Materialized, TypeOK, StoreTypeOK
<1>17. ASSUME NEW w \in Orders, NEW e \in Executions, CrashAfterResult(w, e) PROVE TypeOK'
    BY <1>17, TypesOfDies DEF CrashAfterResult, Materialized, TypeOK, StoreTypeOK
<1>18. ASSUME NEW e \in Executions, ExecutionReturns(e) \/ ExecutionCancelled(e) PROVE TypeOK'
    <2>1. row' \in [Orders -> Row] /\ execution' \in [Executions -> Execution]
        BY <1>18, TypesOfFinish DEF ExecutionReturns, ExecutionCancelled
    <2> QED
        BY <1>18, <2>1 DEF ExecutionReturns, ExecutionCancelled, TypeOK, StoreTypeOK
<1>19. ASSUME NEW e \in Executions, CrashAfterManifest(e) PROVE TypeOK'
    <2>1. execution' \in [Executions -> Execution]
        BY <1>19, TypesOfExecution DEF CrashAfterManifest, TypeOK, StoreTypeOK
    <2> QED
        BY <1>19, <2>1, TypesOfDies DEF CrashAfterManifest, TypeOK, StoreTypeOK
<1>20. CASE Crash
    BY <1>20, TypesOfDies DEF Crash, TypeOK, StoreTypeOK
<1>21. CASE Restart
    BY <1>21 DEF Restart, TypeOK, StoreTypeOK
<1>22. CASE FailsRunning
    <2>1. execution' \in [Executions -> Execution]
        <3>1. ASSUME NEW e \in Executions PROVE execution'[e] \in Execution
            <4>1. execution'[e] = IF execution[e].state = "running"
                                  THEN [execution[e] EXCEPT !.state = "failed"]
                                  ELSE [execution[e] EXCEPT !.state = execution[e].state]
                BY <1>22 DEF FailsRunning
            <4>2. execution[e] \in Execution
                BY DEF TypeOK, StoreTypeOK
            <4> QED
                BY <4>1, <4>2 DEF Execution
        <3>2. execution' = [e \in Executions |-> execution'[e]]
            BY <1>22 DEF FailsRunning
        <3> QED
            BY <3>1, <3>2
    <2> QED
        BY <1>22, <2>1 DEF FailsRunning, TypeOK, StoreTypeOK
<1>23. CASE Interrupts
    <2>1. row' \in [Orders -> Row]
        BY <1>23, SalvagedFacts DEF Interrupts, TypeOK, StoreTypeOK, Failures
    <2> QED
        BY <1>23, <2>1 DEF Interrupts, TypeOK, StoreTypeOK
<1>24. ASSUME NEW e \in Executions, SettlesManifest(e) PROVE TypeOK'
    <2>1. row' \in [Orders -> Row] /\ execution' \in [Executions -> Execution]
        BY <1>24, TypesOfFinish DEF SettlesManifest
    <2> QED
        BY <1>24, <2>1 DEF SettlesManifest, TypeOK, StoreTypeOK
<1>25. ASSUME NEW w \in Orders, NEW e \in Executions, RestoresBinding(w, e) PROVE TypeOK'
    <2>1. row' \in [Orders -> Row]
        BY <1>25, BoundFacts DEF RestoresBinding, TypeOK, StoreTypeOK
    <2> QED
        BY <1>25, <2>1 DEF RestoresBinding, TypeOK, StoreTypeOK
<1>26. CASE UNCHANGED vars
    BY <1>26 DEF vars, TypeOK, StoreTypeOK
<1> QED
    BY <1>1, <1>2, <1>3, <1>4, <1>5, <1>6, <1>7, <1>8, <1>9, <1>10, <1>11, <1>12, <1>13,
       <1>14, <1>15, <1>16, <1>17, <1>18, <1>19, <1>20, <1>21, <1>22, <1>23, <1>24, <1>25, <1>26
    DEF Next, RequestStep, DelegateStep, ExecutionStep, RecoveryStep

-----------------------------------------------------------------------------
(* Requests and delegates.                                                 *)

\* A request awaits only orders of its own, and nothing where it decides alone.
LEMMA RequestedNext ==
    ASSUME IInv, [Next]_vars, NEW q \in Requests
    PROVE  Requested(q)'
<1> USE DEF durable, delegates, turns, process
<1> USE DEF IInv, TypeOK, Requested, OrdersOf
<1>1. ASSUME NEW r \in Requests, Opens(r)
      PROVE  Requested(q)'
    BY <1>1 DEF Opens
<1>2. ASSUME NEW r \in Requests, Stops(r)
      PROVE  Requested(q)'
    BY <1>2 DEF Stops, Releases
<1>3. ASSUME NEW r \in Requests, StopsAgain(r)
      PROVE  Requested(q)'
    BY <1>3 DEF StopsAgain, Releases
<1>4. ASSUME NEW r \in Requests, AssignmentEnds(r)
      PROVE  Requested(q)'
    BY <1>4 DEF AssignmentEnds, Forgets
<1>5. ASSUME NEW r \in Requests, Settles(r)
      PROVE  Requested(q)'
    BY <1>5 DEF Settles, OrdersOf
<1>6. ASSUME NEW r \in Requests, Settled(r)
      PROVE  Requested(q)'
    BY <1>6 DEF Settled, Forgets
<1>7. ASSUME NEW r \in Requests, NEW W \in SUBSET Orders, Dispatches(r, W)
      PROVE  Requested(q)'
    BY <1>7 DEF Dispatches, Dispatchable
<1>8. ASSUME NEW w \in Orders, Prepares(w)
      PROVE  Requested(q)'
    BY <1>8 DEF Prepares, Enters
<1>9. ASSUME NEW w \in Orders, ReturnsAtOnce(w) \/ Refused(w)
      PROVE  Requested(q)'
    BY <1>9 DEF ReturnsAtOnce, Refused, Enters, Leaves, Releases
<1>10. ASSUME NEW w \in Orders, SourcesUnavailable(w)
      PROVE  Requested(q)'
    BY <1>10 DEF SourcesUnavailable, Leaves, Releases
<1>11. ASSUME NEW w \in Orders, StartsParticipant(w)
      PROVE  Requested(q)'
    BY <1>11 DEF StartsParticipant, Leaves, Releases
<1>12. ASSUME NEW w \in Orders, TimesOut(w)
      PROVE  Requested(q)'
    BY <1>12 DEF TimesOut
<1>13. ASSUME NEW w \in Orders, ParticipantEnds(w)
      PROVE  Requested(q)'
    BY <1>13 DEF ParticipantEnds, Ends, Delivers, BacksOff, Leaves, Releases
<1>14. ASSUME NEW w \in Orders, ParticipantVanishes(w)
      PROVE  Requested(q)'
    BY <1>14 DEF ParticipantVanishes, Ends, Leaves, Releases
<1>15. ASSUME NEW w \in Orders, NEW e \in Executions, ExecutionStarts(w, e)
      PROVE  Requested(q)'
    BY <1>15 DEF ExecutionStarts
<1>16. ASSUME NEW w \in Orders, NEW e \in Executions, Publishes(w, e)
      PROVE  Requested(q)'
    BY <1>16 DEF Publishes
<1>17. ASSUME NEW w \in Orders, NEW e \in Executions, CrashAfterResult(w, e)
      PROVE  Requested(q)'
    BY <1>17 DEF CrashAfterResult, Dies
<1>18. ASSUME NEW e \in Executions, ExecutionReturns(e) \/ ExecutionCancelled(e)
      PROVE  Requested(q)'
    BY <1>18 DEF ExecutionReturns, ExecutionCancelled
<1>19. ASSUME NEW e \in Executions, CrashAfterManifest(e)
      PROVE  Requested(q)'
    BY <1>19 DEF CrashAfterManifest, Dies
<1>20. ASSUME Crash
      PROVE  Requested(q)'
    BY <1>20 DEF Crash, Dies
<1>21. ASSUME Restart
      PROVE  Requested(q)'
    BY <1>21 DEF Restart
<1>22. ASSUME FailsRunning
      PROVE  Requested(q)'
    BY <1>22 DEF FailsRunning
<1>23. ASSUME Interrupts
      PROVE  Requested(q)'
    BY <1>23 DEF Interrupts
<1>24. ASSUME NEW e \in Executions, SettlesManifest(e)
      PROVE  Requested(q)'
    BY <1>24 DEF SettlesManifest
<1>25. ASSUME NEW w \in Orders, NEW e \in Executions, RestoresBinding(w, e)
      PROVE  Requested(q)'
    BY <1>25 DEF RestoresBinding
<1>26. ASSUME UNCHANGED vars
      PROVE  Requested(q)'
    BY <1>26 DEF vars
<1> QED
    BY <1>1, <1>2, <1>3, <1>4, <1>5, <1>6, <1>7, <1>8, <1>9, <1>10, <1>11, <1>12, <1>13, <1>14, <1>15, <1>16, <1>17, <1>18, <1>19, <1>20, <1>21, <1>22, <1>23, <1>24, <1>25, <1>26
    DEF Next, RequestStep, DelegateStep, ExecutionStep, RecoveryStep

\* The lock of a session is held by the one delegate that works.
LEMMA PlacedNext ==
    ASSUME IInv, [Next]_vars, NEW v \in Orders
    PROVE  Placed(v)'
<1> USE DEF durable, delegates, turns, process
<1>0. /\ SessionOf[v] \in Sessions /\ RequestOf[v] \in Requests /\ Nobody \notin Orders
      /\ \A w \in Orders : SessionOf[w] \in Sessions /\ RequestOf[w] \in Requests
      /\ Requested(RequestOf[v])
    BY OrderAssumption DEF IInv
<1> USE <1>0, OrderAssumption DEF IInv, TypeOK, Placed, Holding, Over, Requested, OrdersOf
<1>1. ASSUME NEW r \in Requests, Opens(r)
      PROVE  Placed(v)'
    BY <1>1 DEF Opens
<1>2. ASSUME NEW r \in Requests, Stops(r)
      PROVE  Placed(v)'
    BY <1>2 DEF Stops, Releases
<1>3. ASSUME NEW r \in Requests, StopsAgain(r)
      PROVE  Placed(v)'
    BY <1>3 DEF StopsAgain, Releases
<1>4. ASSUME NEW r \in Requests, AssignmentEnds(r)
      PROVE  Placed(v)'
    BY <1>4 DEF AssignmentEnds, Forgets
<1>5. ASSUME NEW r \in Requests, Settles(r)
      PROVE  Placed(v)'
    BY <1>5 DEF Settles, OrdersOf
<1>6. ASSUME NEW r \in Requests, Settled(r)
      PROVE  Placed(v)'
    BY <1>6 DEF Settled, Forgets
<1>7. ASSUME NEW r \in Requests, NEW W \in SUBSET Orders, Dispatches(r, W)
      PROVE  Placed(v)'
    BY <1>7 DEF Dispatches, Dispatchable
<1>8. ASSUME NEW w \in Orders, Prepares(w)
      PROVE  Placed(v)'
    BY <1>8 DEF Prepares, Enters
<1>9. ASSUME NEW w \in Orders, ReturnsAtOnce(w) \/ Refused(w)
      PROVE  Placed(v)'
    BY <1>9 DEF ReturnsAtOnce, Refused, Enters, Leaves, Releases
<1>10. ASSUME NEW w \in Orders, SourcesUnavailable(w)
      PROVE  Placed(v)'
    BY <1>10 DEF SourcesUnavailable, Leaves, Releases
<1>11. ASSUME NEW w \in Orders, StartsParticipant(w)
      PROVE  Placed(v)'
    BY <1>11 DEF StartsParticipant, Leaves, Releases
<1>12. ASSUME NEW w \in Orders, TimesOut(w)
      PROVE  Placed(v)'
    BY <1>12 DEF TimesOut
<1>13. ASSUME NEW w \in Orders, ParticipantEnds(w)
      PROVE  Placed(v)'
    BY <1>13 DEF ParticipantEnds, Ends, Delivers, BacksOff, Leaves, Releases
<1>14. ASSUME NEW w \in Orders, ParticipantVanishes(w)
      PROVE  Placed(v)'
    BY <1>14 DEF ParticipantVanishes, Ends, Leaves, Releases
<1>15. ASSUME NEW w \in Orders, NEW e \in Executions, ExecutionStarts(w, e)
      PROVE  Placed(v)'
    BY <1>15 DEF ExecutionStarts
<1>16. ASSUME NEW w \in Orders, NEW e \in Executions, Publishes(w, e)
      PROVE  Placed(v)'
    BY <1>16 DEF Publishes
<1>17. ASSUME NEW w \in Orders, NEW e \in Executions, CrashAfterResult(w, e)
      PROVE  Placed(v)'
    BY <1>17 DEF CrashAfterResult, Dies
<1>18. ASSUME NEW e \in Executions, ExecutionReturns(e) \/ ExecutionCancelled(e)
      PROVE  Placed(v)'
    <2>1. UNCHANGED <<delegates, turns, process>>
        BY <1>18 DEF ExecutionReturns, ExecutionCancelled
    <2> QED
        BY <2>1
<1>19. ASSUME NEW e \in Executions, CrashAfterManifest(e)
      PROVE  Placed(v)'
    BY <1>19 DEF CrashAfterManifest, Dies
<1>20. ASSUME Crash
      PROVE  Placed(v)'
    BY <1>20 DEF Crash, Dies
<1>21. ASSUME Restart
      PROVE  Placed(v)'
    BY <1>21 DEF Restart
<1>22. ASSUME FailsRunning
      PROVE  Placed(v)'
    BY <1>22 DEF FailsRunning
<1>23. ASSUME Interrupts
      PROVE  Placed(v)'
    BY <1>23 DEF Interrupts
<1>24. ASSUME NEW e \in Executions, SettlesManifest(e)
      PROVE  Placed(v)'
    BY <1>24 DEF SettlesManifest
<1>25. ASSUME NEW w \in Orders, NEW e \in Executions, RestoresBinding(w, e)
      PROVE  Placed(v)'
    BY <1>25 DEF RestoresBinding
<1>26. ASSUME UNCHANGED vars
      PROVE  Placed(v)'
    BY <1>26 DEF vars
<1> QED
    BY <1>1, <1>2, <1>3, <1>4, <1>5, <1>6, <1>7, <1>8, <1>9, <1>10, <1>11, <1>12, <1>13, <1>14, <1>15, <1>16, <1>17, <1>18, <1>19, <1>20, <1>21, <1>22, <1>23, <1>24, <1>25, <1>26
    DEF Next, RequestStep, DelegateStep, ExecutionStep, RecoveryStep

-----------------------------------------------------------------------------
(* Rows and programs.                                                      *)


\* What the end of a program changes.
LEMMA FinishFacts ==
    ASSUME IInv, NEW e \in Executions, NEW state \in {"succeeded", "failed", "cancelled"},
           NEW declares \in BOOLEAN, FinishExecution(e, state, declares)
    PROVE  /\ execution[e].state = "running" /\ execution[e].owner \in Orders
           /\ \A f \in Executions : /\ execution'[f].owner = execution[f].owner
                                    /\ f # e => execution'[f].state = execution[f].state
           /\ execution'[e].state = state
           /\ \A v \in Orders : /\ row'[v].state = row[v].state
                                /\ row'[v].result = row[v].result
                                /\ row[v].succeeded \subseteq row'[v].succeeded
           /\ state = "succeeded" => e \in row'[execution[e].owner].succeeded
<1>1. /\ execution \in [Executions -> Execution] /\ row \in [Orders -> Row]
    BY DEF IInv, TypeOK, StoreTypeOK
<1>2. execution[e].state = "running" /\ execution[e].owner \in Orders
    BY OrderAssumption DEF IInv, Started, FinishExecution
<1>3. /\ \A f \in Executions : /\ execution'[f].owner = execution[f].owner
                               /\ f # e => execution'[f].state = execution[f].state
      /\ execution'[e].state = state
    BY <1>1 DEF FinishExecution, Execution
<1>4. CASE state = "succeeded"
    <2>1. \A v \in Orders : row'[v] = IF v = execution[e].owner
                                      THEN [row[v] EXCEPT !.succeeded = @ \cup {e}] ELSE row[v]
        BY <1>1, <1>2, <1>4 DEF FinishExecution
    <2>2. \A v \in Orders : row[v] \in Row
        BY <1>1
    <2> QED
        BY <1>2, <1>3, <2>1, <2>2 DEF Row
<1>5. CASE state # "succeeded"
    BY <1>2, <1>3, <1>5 DEF FinishExecution
<1> QED
    BY <1>4, <1>5

LEMMA StartedNext == IInv /\ [Next]_vars => Started'
<1> SUFFICES ASSUME IInv, [Next]_vars PROVE Started'
    OBVIOUS
<1> USE DEF IInv, Started, durable, delegates, turns, process
<1>1. ASSUME NEW w \in Orders, NEW e \in Executions, ExecutionStarts(w, e) PROVE Started'
    <2>1. stage = "up"
        BY <1>1 DEF ExecutionStarts, Placed
    <2>2. execution \in [Executions -> Execution] /\ execution[e] \in Execution
        BY DEF TypeOK, StoreTypeOK
    <2>3. /\ w \in Experts /\ stage' = stage
          /\ execution' = [execution EXCEPT ![e] = [@ EXCEPT !.state = "running", !.owner = w]]
        BY <1>1, <2>2 DEF ExecutionStarts, StartExecution
    <2> QED
        BY <2>1, <2>2, <2>3 DEF Execution
<1>2. ASSUME NEW e \in Executions, ExecutionReturns(e) \/ ExecutionCancelled(e) PROVE Started'
    <2>1. PICK state \in {"succeeded", "failed", "cancelled"}, declares \in BOOLEAN :
              FinishExecution(e, state, declares)
        BY <1>2 DEF ExecutionReturns, ExecutionCancelled
    <2>2. stage' = stage
        BY <1>2 DEF ExecutionReturns, ExecutionCancelled
    <2> QED
        BY <2>1, <2>2, FinishFacts
<1>3. ASSUME NEW e \in Executions, SettlesManifest(e) PROVE Started'
    <2>1. FinishExecution(e, "succeeded", FALSE) /\ stage' = stage
        BY <1>3 DEF SettlesManifest
    <2> QED
        BY <2>1, FinishFacts
<1>4. ASSUME NEW e \in Executions, CrashAfterManifest(e) PROVE Started'
    <2>1. execution \in [Executions -> Execution] /\ execution[e] \in Execution
        BY DEF TypeOK, StoreTypeOK
    <2> QED
        BY <1>4, <2>1 DEF CrashAfterManifest, Dies, Execution
<1>5. CASE FailsRunning
    <2>1. ASSUME NEW e \in Executions
          PROVE  /\ execution'[e].owner = execution[e].owner
                 /\ execution'[e].state = IF execution[e].state = "running" THEN "failed"
                                          ELSE execution[e].state
        <3>1. execution[e] \in Execution
            BY DEF TypeOK, StoreTypeOK
        <3> QED
            BY <1>5, <3>1 DEF FailsRunning, Execution
    <2> QED
        BY <2>1
<1>6. CASE UNCHANGED execution /\ (stage' = stage \/ stage' # "bindings")
    BY <1>6
<1> QED
    BY <1>1, <1>2, <1>3, <1>4, <1>5, <1>6
    DEF Next, RequestStep, DelegateStep, ExecutionStep, RecoveryStep, Opens, Stops, StopsAgain,
        AssignmentEnds, Settles, Settled, Dispatches, Prepares, ReturnsAtOnce, Refused,
        SourcesUnavailable, StartsParticipant, TimesOut, ParticipantEnds, ParticipantVanishes,
        Publishes, CrashAfterResult, Crash, Dies, Restart, Interrupts, RestoresBinding, vars

\* An order whose row and programs do not change.
LEMMA RecordedKept ==
    ASSUME IInv, NEW v \in Orders, row'[v] = row[v], execution' = execution, stage' = stage,
           part'[v] = "none" <=> part[v] = "none",
           stage = "up" /\ phase'[RequestOf[v]] = "closed" /\ row[v].state \in Active
           => pc'[v] \notin Over
    PROVE  Recorded(v)'
BY DEF IInv, Recorded, Busy, Active

\* An order whose program or participant ends, or whose process dies.
LEMMA RecordedAtRest ==
    ASSUME IInv, NEW v \in Orders, row' = row, stage' # "up", part'[v] = "none",
           \A e \in Executions : /\ execution'[e].owner = execution[e].owner
                                 /\ execution'[e].state = execution[e].state
    PROVE  Recorded(v)'
BY DEF IInv, Recorded, Busy, Active

\* An order one of whose programs ends.
LEMMA RecordedFinished ==
    ASSUME IInv, NEW e \in Executions, NEW state \in {"succeeded", "failed", "cancelled"},
           NEW declares \in BOOLEAN, FinishExecution(e, state, declares),
           UNCHANGED <<delegates, turns, process>>, NEW v \in Orders
    PROVE  Recorded(v)'
<1>1. Recorded(v) /\ UNCHANGED <<part, pc, phase, stage>>
    BY DEF IInv, delegates, turns, process
<1>2. Busy(v)' => Busy(v)
    BY FinishFacts DEF Busy
<1>3. row'[v].state = row[v].state /\ row'[v].result = row[v].result
    BY FinishFacts
<1>4. ASSUME NEW f \in Executions, execution'[f].state # "none", execution'[f].owner = v
      PROVE  /\ row[v].state # "none"
             /\ execution'[f].state = "succeeded" => f \in row'[v].succeeded
             /\ stage = "up" /\ execution'[f].state = "running" => part[v] # "none"
    BY <1>1, <1>4, FinishFacts DEF Recorded
<1>5. ASSUME row[v].state = "settled", row[v].result.failure # "cancelled",
             row[v].result.origin # "none",
             NEW f \in Executions, execution'[f].owner = v, execution'[f].state = "succeeded"
      PROVE  f \in row[v].result.evidence
    <2>1. ~Busy(v)
        BY <1>1, <1>5 DEF Recorded, Active
    <2>2. execution[f].owner = v /\ execution[f].state = "succeeded"
        BY <1>5, <2>1, FinishFacts DEF Busy
    <2> QED
        BY <1>1, <1>5, <2>2 DEF Recorded
<1> QED
    BY <1>1, <1>2, <1>3, <1>4, <1>5 DEF Recorded

LEMMA RecordedNext == ASSUME IInv, [Next]_vars, NEW v \in Orders PROVE Recorded(v)'
<1> USE DEF durable, delegates, turns, process
<1>0. /\ TypeOK /\ RequestOf[v] \in Requests /\ row \in [Orders -> Row]
      /\ Placed(v) /\ Recorded(v)
    BY OrderAssumption DEF IInv, TypeOK, StoreTypeOK
<1>b. \A r \in Requests : v \in awaited[r] => r = RequestOf[v]
    BY DEF IInv, Requested, OrdersOf
<1>a. ASSUME stage = "up", part[v] = "none" PROVE ~Busy(v)
    BY <1>0, <1>a DEF Recorded, Busy
<1>1. ASSUME NEW r \in Requests, Opens(r) PROVE Recorded(v)'
    BY <1>1, <1>0, RecordedKept DEF Opens, TypeOK, Recorded
<1>2. ASSUME NEW r \in Requests, Stops(r) PROVE Recorded(v)'
    <2>1. part'[v] = "none" <=> part[v] = "none"
        BY <1>2, <1>0 DEF Stops, TypeOK, Placed
    <2>2. phase'[RequestOf[v]] = "closed" =>
              phase[RequestOf[v]] = "closed" /\ pc'[v] = pc[v]
        BY <1>2, <1>0, <1>b DEF Stops, TypeOK
    <2> QED
        BY <1>2, <1>0, <2>1, <2>2, RecordedKept DEF Stops, Recorded
<1>3. ASSUME NEW r \in Requests, StopsAgain(r) PROVE Recorded(v)'
    <2>1. phase'[RequestOf[v]] = "closed" =>
              phase[RequestOf[v]] = "closed" /\ pc'[v] = pc[v]
        BY <1>3, <1>0, <1>b DEF StopsAgain, TypeOK
    <2> QED
        BY <1>3, <1>0, <2>1, RecordedKept DEF StopsAgain, Recorded
<1>4. ASSUME NEW r \in Requests, AssignmentEnds(r) PROVE Recorded(v)'
    BY <1>4, <1>0, RecordedKept DEF AssignmentEnds, Forgets, TypeOK, Recorded, Over
<1>5. ASSUME NEW r \in Requests, Settles(r) PROVE Recorded(v)'
    <2>1. part'[v] = "none" <=> part[v] = "none"
        BY <1>5, <1>0 DEF Settles, TypeOK, Placed
    <2>2. phase'[RequestOf[v]] = "closed" =>
              phase[RequestOf[v]] = "closed" /\ pc'[v] = pc[v]
        BY <1>5, <1>0, <1>b DEF Settles, TypeOK
    <2> QED
        BY <1>5, <1>0, <2>1, <2>2, RecordedKept DEF Settles, Recorded
<1>6. ASSUME NEW r \in Requests, Settled(r) PROVE Recorded(v)'
    <2>1. /\ part' = part /\ execution' = execution /\ stage' = stage
          /\ row'[v] = IF v \in OrdersOf(r) THEN Salvaged(v, "cancelled") ELSE row[v]
        BY <1>6 DEF Settled, SettledRows
    <2>2. CASE v \in OrdersOf(r) /\ row[v].state \in Active
        <3>1. /\ row'[v].state = "settled" /\ row'[v].result.failure = "cancelled"
              /\ row'[v].succeeded = row[v].succeeded
            BY <1>0, <2>1, <2>2, SalvagedFacts DEF Failures
        <3> QED
            BY <1>0, <2>1, <2>2, <3>1 DEF Recorded, Busy, Active
    <2>3. CASE ~(v \in OrdersOf(r) /\ row[v].state \in Active)
        <3>1. row'[v] = row[v]
            BY <1>0, <2>1, <2>3, SalvagedFacts DEF Failures
        <3>2. row[v].state \in Active => RequestOf[v] # r
            BY <2>3 DEF OrdersOf
        <3>3. row[v].state \in Active /\ phase'[RequestOf[v]] = "closed" =>
                  phase[RequestOf[v]] = "closed" /\ pc'[v] = pc[v]
            BY <1>6, <1>0, <1>b, <3>2 DEF Settled, Forgets, TypeOK
        <3> QED
            BY <1>0, <2>1, <3>1, <3>3, RecordedKept DEF Recorded
    <2> QED
        BY <2>2, <2>3
<1>7. ASSUME NEW r \in Requests, NEW W \in SUBSET Orders, Dispatches(r, W) PROVE Recorded(v)'
    BY <1>7, <1>0, RecordedKept DEF Dispatches, TypeOK, Recorded, Over
<1>8. ASSUME NEW w \in Orders, Prepares(w) PROVE Recorded(v)'
    <2>1. CASE v = w
        <3>1. pc[v] \in {"waiting", "backoff"} /\ part[v] = "none" /\ stage = "up"
            BY <1>8, <1>0, <2>1 DEF Prepares, Enters, Placed
        <3>2. row'[v].state \in Active
            BY <1>8, <1>0, <2>1, MarkedRunningFacts, CreatedFacts, ResumedFacts
            DEF Prepares, Active
        <3>3. row[v].state # "none" => row'[v].succeeded = row[v].succeeded
            BY <1>8, <1>0, <2>1, MarkedRunningFacts, ResumedFacts DEF Prepares
        <3>4. ~Busy(v) /\ execution' = execution
            BY <1>8, <1>a, <3>1 DEF Prepares
        <3>5. pc'[v] \notin Over
            BY <1>8, <1>0, <2>1 DEF Prepares, TypeOK, Over
        <3> QED
            BY <1>0, <3>2, <3>3, <3>4, <3>5 DEF Recorded, Busy, Active
    <2>2. CASE v # w
        BY <1>8, <1>0, <2>2, RecordedKept DEF Prepares, TypeOK, Recorded
    <2> QED
        BY <2>1, <2>2
<1>9. ASSUME NEW w \in Orders, ReturnsAtOnce(w) \/ Refused(w) PROVE Recorded(v)'
    BY <1>9, <1>0, RecordedKept DEF ReturnsAtOnce, Refused, Leaves, TypeOK, Recorded, Active
<1>10. ASSUME NEW w \in Orders, SourcesUnavailable(w) PROVE Recorded(v)'
    <2>1. CASE v = w
        <3>1. part[v] = "none" /\ stage = "up" /\ execution' = execution /\ part' = part
            BY <1>10, <1>0, <2>1 DEF SourcesUnavailable, Placed
        <3>2. [NoResult EXCEPT !.failure = "other"] \in Result
              /\ [NoResult EXCEPT !.failure = "other"].origin = "none"
            BY DEF NoResult, Result, Origins, Failures
        <3>3. /\ row'[v].succeeded = row[v].succeeded
              /\ row[v].state \in Active =>
                    row'[v].state = "settled" /\ row'[v].result.origin = "none"
              /\ row[v].state \notin Active => row'[v] = row[v]
            BY <1>10, <1>0, <2>1, <3>2, CompletedFacts DEF SourcesUnavailable
        <3>4. ~Busy(v)
            BY <1>a, <3>1
        <3> QED
            BY <1>0, <3>1, <3>3, <3>4 DEF Recorded, Busy, Active
    <2>2. CASE v # w
        BY <1>10, <1>0, <2>2, RecordedKept DEF SourcesUnavailable, Leaves, TypeOK, Recorded
    <2> QED
        BY <2>1, <2>2
<1>11. ASSUME NEW w \in Orders, StartsParticipant(w) PROVE Recorded(v)'
    <2>1. CASE v = w /\ row[v].state \in Active
        <3>1. part[v] = "none" /\ stage = "up" /\ execution' = execution
            BY <1>11, <1>0, <2>1 DEF StartsParticipant, Placed
        <3>2. row'[v].state = "running" /\ row'[v].succeeded = row[v].succeeded
            BY <1>11, <1>0, <2>1, MarkedRunningFacts DEF StartsParticipant
        <3>3. pc'[v] \notin Over
            BY <1>11, <1>0, <2>1 DEF StartsParticipant, TypeOK, Over
        <3>4. ~Busy(v)
            BY <1>a, <3>1
        <3> QED
            BY <1>0, <2>1, <3>1, <3>2, <3>3, <3>4 DEF Recorded, Busy, Active
    <2>2. CASE ~(v = w /\ row[v].state \in Active)
        BY <1>11, <1>0, <2>2, RecordedKept DEF StartsParticipant, Leaves, TypeOK, Recorded
    <2> QED
        BY <2>1, <2>2
<1>12. ASSUME NEW w \in Orders, TimesOut(w) PROVE Recorded(v)'
    BY <1>12, <1>0, RecordedKept DEF TimesOut, TypeOK, Recorded
<1>13. ASSUME NEW w \in Orders, ParticipantEnds(w) PROVE Recorded(v)'
    <2>1. PICK origin \in Origins, failure \in Failures :
              Delivers(w, Terminal(w, origin, failure))
        BY <1>13 DEF ParticipantEnds, Origins, Failures
    <2>2. /\ ~Busy(w) /\ part' = [part EXCEPT ![w] = "none"] /\ part[w] # "none"
          /\ execution' = execution /\ stage' = stage /\ phase' = phase
        BY <1>13 DEF ParticipantEnds, Ends
    <2>3. CASE v = w
        <3>1. /\ row'[v].succeeded = row[v].succeeded
              /\ row[v].state \in Active =>
                    /\ row'[v].state = "settled"
                    /\ row'[v].result.evidence = Terminal(w, origin, failure).evidence
              /\ row[v].state \notin Active => row'[v] = row[v]
            BY <1>0, <2>1, <2>3, CompletedFacts, TerminalFacts DEF Delivers, TypeOK, StoreTypeOK
        <3>2. row[v].state \in Active =>
                  \A e \in Executions :
                      execution[e].owner = v /\ execution[e].state = "succeeded"
                      => e \in row'[v].result.evidence
            BY <1>0, <2>3, <3>1, TerminalFacts DEF Active
        <3>3. part'[v] = "none"
            BY <1>0, <2>2, <2>3 DEF TypeOK
        <3> QED
            BY <1>0, <2>2, <2>3, <3>1, <3>2, <3>3 DEF Recorded, Busy, Active
    <2>4. CASE v # w
        <3>1. row'[v] = row[v] /\ pc'[v] = pc[v] /\ part'[v] = part[v]
            BY <1>0, <2>1, <2>2, <2>4 DEF Delivers, BacksOff, Leaves, TypeOK
        <3> QED
            BY <1>0, <2>2, <3>1, RecordedKept DEF Recorded
    <2> QED
        BY <2>3, <2>4
<1>14. ASSUME NEW w \in Orders, ParticipantVanishes(w) PROVE Recorded(v)'
    <2>1. /\ ~Busy(w) /\ part' = [part EXCEPT ![w] = "none"] /\ part[w] = "stopping"
          /\ row' = row /\ execution' = execution /\ stage' = stage /\ phase' = phase
        BY <1>14 DEF ParticipantVanishes, Ends
    <2>2. CASE v = w
        <3>1. phase[RequestOf[v]] # "closed" \/ pc'[v] = pc[v]
            BY <1>14, <1>0, <2>1, <2>2 DEF ParticipantVanishes, Placed
        <3> QED
            BY <1>0, <2>1, <2>2, <3>1 DEF Recorded, Busy, Active, TypeOK
    <2>3. CASE v # w
        BY <1>14, <1>0, <2>1, <2>3, RecordedKept DEF ParticipantVanishes, Leaves, TypeOK, Recorded
    <2> QED
        BY <2>2, <2>3
<1>15. ASSUME NEW w \in Orders, NEW e \in Executions, ExecutionStarts(w, e) PROVE Recorded(v)'
    <2>0. execution \in [Executions -> Execution] /\ execution[e] \in Execution
        BY <1>0 DEF TypeOK, StoreTypeOK
    <2>1. /\ UNCHANGED <<row, pc, part, phase, stage>>
          /\ part[w] = "active" /\ row[w].state = "running" /\ execution[e].state = "none"
          /\ execution' = [execution EXCEPT ![e] = [@ EXCEPT !.state = "running", !.owner = w]]
        BY <1>15, <2>0 DEF ExecutionStarts, StartExecution
    <2>2. /\ execution'[e].state = "running" /\ execution'[e].owner = w
          /\ \A f \in Executions \ {e} : execution'[f] = execution[f]
        BY <2>0, <2>1 DEF Execution
    <2> QED
        BY <1>0, <2>1, <2>2 DEF Recorded, Busy, Active
<1>16. ASSUME NEW w \in Orders, NEW e \in Executions, Publishes(w, e) PROVE Recorded(v)'
    <2>1. UNCHANGED <<execution, pc, part, phase, stage>>
          /\ row' = [row EXCEPT ![w] = Bound(w, e)]
        BY <1>16 DEF Publishes
    <2> QED
        BY <1>0, <2>1, BoundFacts DEF Recorded, Busy, Active
<1>17. ASSUME NEW w \in Orders, NEW e \in Executions, CrashAfterResult(w, e) PROVE Recorded(v)'
    BY <1>17, RecordedAtRest DEF CrashAfterResult, Dies
<1>18. ASSUME NEW e \in Executions, ExecutionReturns(e) \/ ExecutionCancelled(e)
       PROVE  Recorded(v)'
    <2>1. PICK state \in {"succeeded", "failed", "cancelled"}, declares \in BOOLEAN :
              FinishExecution(e, state, declares)
        BY <1>18 DEF ExecutionReturns, ExecutionCancelled
    <2>2. UNCHANGED <<delegates, turns, process>>
        BY <1>18 DEF ExecutionReturns, ExecutionCancelled
    <2> QED
        BY <2>1, <2>2, RecordedFinished
<1>19. ASSUME NEW e \in Executions, CrashAfterManifest(e) PROVE Recorded(v)'
    <2>1. \A f \in Executions : execution[f] \in Execution
        BY <1>0 DEF TypeOK, StoreTypeOK
    <2>2. \A f \in Executions : /\ execution'[f].owner = execution[f].owner
                                /\ execution'[f].state = execution[f].state
        BY <1>19, <1>0, <2>1 DEF CrashAfterManifest, TypeOK, StoreTypeOK, Execution
    <2> QED
        BY <1>19, <2>2, RecordedAtRest DEF CrashAfterManifest, Dies
<1>20. CASE Crash
    BY <1>20, RecordedAtRest DEF Crash, Dies
<1>21. CASE Restart
    BY <1>21, <1>0, RecordedAtRest DEF Restart, Placed
<1>22. CASE FailsRunning
    <2>1. ASSUME NEW e \in Executions
          PROVE  /\ execution'[e].owner = execution[e].owner
                 /\ execution'[e].state = IF execution[e].state = "running" THEN "failed"
                                          ELSE execution[e].state
        <3>1. execution[e] \in Execution
            BY <1>0 DEF TypeOK, StoreTypeOK
        <3> QED
            BY <1>22, <3>1 DEF FailsRunning, Execution
    <2>2. UNCHANGED <<row, pc, part, phase>> /\ part[v] = "none" /\ stage' # "up"
        BY <1>22, <1>0 DEF FailsRunning, Placed
    <2> QED
        BY <1>0, <2>1, <2>2 DEF Recorded, Busy, Active
<1>23. CASE Interrupts
    <2>1. /\ UNCHANGED <<execution, pc, part, phase>>
          /\ row'[v] = Salvaged(v, "transient") /\ part[v] = "none"
        BY <1>23, <1>0 DEF Interrupts, Placed
    <2>2. \A e \in Executions : execution[e].state # "running"
        BY <1>23 DEF Interrupts, IInv, Started
    <2>3. /\ row'[v].succeeded = row[v].succeeded
          /\ row[v].state \in Active =>
                row'[v].state = "settled" /\ row'[v].result.evidence = row[v].succeeded
          /\ row[v].state \notin Active => row'[v] = row[v]
        BY <1>0, <2>1, SalvagedFacts DEF Failures
    <2> QED
        BY <1>0, <2>1, <2>2, <2>3 DEF Recorded, Busy, Active
<1>24. ASSUME NEW e \in Executions, SettlesManifest(e) PROVE Recorded(v)'
    BY <1>24, RecordedFinished DEF SettlesManifest
<1>25. ASSUME NEW w \in Orders, NEW e \in Executions, RestoresBinding(w, e)
       PROVE  Recorded(v)'
    <2>1. UNCHANGED <<execution, pc, part, phase, stage>>
          /\ row' = [row EXCEPT ![w] = Bound(w, e)]
        BY <1>25 DEF RestoresBinding
    <2> QED
        BY <1>0, <2>1, BoundFacts DEF Recorded, Busy, Active
<1>26. CASE UNCHANGED vars
    BY <1>26, <1>0, RecordedKept DEF vars, Recorded
<1> QED
    BY <1>1, <1>2, <1>3, <1>4, <1>5, <1>6, <1>7, <1>8, <1>9, <1>10, <1>11, <1>12, <1>13,
       <1>14, <1>15, <1>16, <1>17, <1>18, <1>19, <1>20, <1>21, <1>22, <1>23, <1>24, <1>25, <1>26
    DEF Next, RequestStep, DelegateStep, ExecutionStep, RecoveryStep

-----------------------------------------------------------------------------
LEMMA InitInv == Init => IInv
<1> SUFFICES ASSUME Init PROVE IInv
    OBVIOUS
<1>1. TypeOK
    BY InitTyped
<1>2. Started /\ \A r \in Requests : Requested(r)
    BY DEF Init, StoreInit, Started, Requested
<1>3. ASSUME NEW w \in Orders PROVE Placed(w) /\ Recorded(w)
    <2>1. RequestOf[w] \in Requests
        BY OrderAssumption
    <2> QED
        BY <2>1 DEF Init, StoreInit, Placed, Recorded, Busy, Holding, Active
<1> QED
    BY <1>1, <1>2, <1>3 DEF IInv

LEMMA NextInv == IInv /\ [Next]_vars => IInv'
<1> SUFFICES ASSUME IInv, [Next]_vars PROVE IInv'
    OBVIOUS
<1>1. TypeOK'
    BY NextTyped DEF IInv
<1>2. Started'
    BY StartedNext
<1>3. \A r \in Requests : Requested(r)'
    BY RequestedNext
<1>4. \A w \in Orders : Placed(w)' /\ Recorded(w)'
    BY PlacedNext, RecordedNext
<1> QED
    BY <1>1, <1>2, <1>3, <1>4 DEF IInv

\* The invariant holds of every team, whatever its delegates, programs, requests
\* and backend processes do (orchestrator.py, store.py, expert_recovery.py).
THEOREM Invariance == Spec => []IInv
BY InitInv, NextInv, PTL DEF Spec

\* Every variable keeps its type.
THEOREM TypeCorrect == Spec => []TypeOK
<1>1. IInv => TypeOK
    BY DEF IInv
<1> QED
    BY <1>1, Invariance, PTL

\* One Expert never works in two rounds at once: the lock of its session is held
\* by the one delegate whose participant has not been told to stop (delegate).
THEOREM OneExpertWorks == Spec => []OneActivePerSession
<1>1. IInv => OneActivePerSession
    BY DEF IInv, Placed, Holding, OneActivePerSession
<1> QED
    BY <1>1, Invariance, PTL

\* While the backend is up, a running program has a participant that waits for it,
\* through time limits, cancellations and restarts (expert_execution.py).
THEOREM ProgramsHaveTheirExpert == Spec => []NoExecutionOutlivesItsExpert
<1>1. IInv => NoExecutionOutlivesItsExpert
    BY OrderAssumption DEF IInv, Started, Recorded, NoExecutionOutlivesItsExpert
<1> QED
    BY <1>1, Invariance, PTL

\* A result that no cancellation cut short cites every execution of its order that
\* succeeded (orchestrator.py, _terminal_result; store.py, finish_code_execution).
THEOREM EvidenceStays == Spec => []EvidenceKept
<1>1. IInv => EvidenceKept
    BY DEF IInv, Recorded, EvidenceKept
<1> QED
    BY <1>1, Invariance, PTL

\* A round that is active after its request has closed has a delegate that will
\* settle it (orchestrator.py, settle_request).
THEOREM LeftoversAreSettled == Spec => []LeftoverSettled
<1>1. IInv => LeftoverSettled
    BY DEF IInv, Recorded, LeftoverSettled
<1> QED
    BY <1>1, Invariance, PTL

-----------------------------------------------------------------------------
(* The book of rounds.  What a row is shown as follows from the row alone;  *)
(* that acceptances only grow rests on which candidates a row may offer,    *)
(* and on which task results may have lost their binding.                   *)

Unassigned == [state |-> "none", result |-> NoResult, succeeded |-> {}, bound |-> {}]

\* A row x of w: one candidate for each file, and none for a file with an accepted
\* one; a discussion has no programs to show.
Sound(w, x) ==
    /\ x.state = "none" => x = Unassigned
    /\ \A e \in x.result.outputs \ x.bound :
          /\ \A f \in x.bound : FileOf[f] # FileOf[e]
          /\ \A f \in x.result.outputs \ x.bound : FileOf[f] = FileOf[e] => f = e
    /\ w \notin Experts =>
          /\ x.succeeded = {} /\ x.bound = {}
          /\ x.result.evidence = {} /\ x.result.outputs = {}

Opened(w) == row[w].state # "none" \/ pc[w] # "idle" => phase[RequestOf[w]] # "new"

\* A task result without its binding is left by a process that died in between;
\* an active round still offers it.
Orphaned(w) ==
    \A e \in Executions : published[e] = w /\ e \notin row[w].bound =>
        /\ phase[RequestOf[w]] = "closed" /\ pc[w] \in Over
        /\ row[w].state \in Active => e \in row[w].result.outputs

Owned == \A e \in Executions : execution[e].owner \in Experts \cup {Nobody}

BookInv == Owned /\ \A w \in Orders : Sound(w, row[w]) /\ Opened(w) /\ Orphaned(w)

\* What a step does to the rows.
RowStep ==
    \/ row' = row
    \/ \E w \in Orders : Prepares(w)
    \/ \E w \in Orders :
          /\ pc[w] = "preparing" /\ row[w].state \in Active
          /\ row' = [row EXCEPT ![w] = MarkedRunning(w)]
    \/ \E w \in Orders, result \in Result :
          /\ pc[w] \notin Over
          /\ \/ result.evidence = {} /\ result.outputs = {}
             \/ \E origin \in Origins, failure \in Failures :
                   result = Terminal(w, origin, failure)
          /\ row' = [row EXCEPT ![w] = Completed(w, result)]
    \/ \E W \in SUBSET Orders, failure \in Failures :
          row' = [w \in Orders |-> IF w \in W THEN Salvaged(w, failure) ELSE row[w]]
    \/ \E e \in Executions :
          /\ execution[e].owner \in Experts /\ execution[e].state # "none"
          /\ row' = [row EXCEPT ![execution[e].owner].succeeded = @ \cup {e}]
    \/ \E w \in Orders, e \in Executions :
          /\ Offers(w, e)
          /\ row' = [row EXCEPT ![w] = Bound(w, e)]

LEMMA FinishRows ==
    ASSUME IInv, NEW e \in Executions, NEW state, NEW declares,
           FinishExecution(e, state, declares)
    PROVE  RowStep
<1>1. execution[e].owner \in Experts /\ execution[e].state # "none"
    BY DEF IInv, Started, FinishExecution
<1> QED
    BY <1>1 DEF FinishExecution, RowStep

LEMMA NextRows == ASSUME IInv, BookInv, [Next]_vars PROVE RowStep
<1> USE DEF durable, delegates, turns, process
<1>0. row = [w \in Orders |-> row[w]]
    BY DEF IInv, TypeOK, StoreTypeOK
<1>1. CASE UNCHANGED row
    BY <1>1 DEF RowStep
<1>2. ASSUME NEW r \in Requests, Settled(r) PROVE RowStep
    <2>1. OrdersOf(r) \in SUBSET Orders
        BY DEF OrdersOf
    <2> QED
        BY <1>2, <2>1 DEF Settled, SettledRows, RowStep, Failures
<1>3. ASSUME NEW w \in Orders, Prepares(w) PROVE RowStep
    BY <1>3 DEF RowStep
<1>4. ASSUME NEW w \in Orders, SourcesUnavailable(w) PROVE RowStep
    <2>1. /\ [NoResult EXCEPT !.failure = "other"] \in Result
          /\ [NoResult EXCEPT !.failure = "other"].evidence = {}
          /\ [NoResult EXCEPT !.failure = "other"].outputs = {}
        BY DEF NoResult, Result, Origins, Failures
    <2>2. /\ pc[w] \notin Over
          /\ row' = [row EXCEPT ![w] = Completed(w, [NoResult EXCEPT !.failure = "other"])]
        BY <1>4 DEF SourcesUnavailable, Over
    <2> QED
        BY <2>1, <2>2 DEF RowStep
<1>5. ASSUME NEW w \in Orders, StartsParticipant(w) PROVE RowStep
    BY <1>5 DEF StartsParticipant, RowStep
<1>6. ASSUME NEW w \in Orders, ParticipantEnds(w) PROVE RowStep
    <2>1. PICK origin \in Origins, failure \in Failures :
              Delivers(w, Terminal(w, origin, failure))
        BY <1>6 DEF ParticipantEnds, Origins, Failures
    <2>2. pc[w] \notin Over
        BY <1>6 DEF ParticipantEnds, IInv, Placed, Over
    <2>3. Terminal(w, origin, failure) \in Result
        BY TerminalFacts DEF IInv
    <2> QED
        BY <2>1, <2>2, <2>3 DEF Delivers, RowStep
<1>7. ASSUME NEW w \in Orders, NEW e \in Executions, Publishes(w, e) PROVE RowStep
    BY <1>7 DEF Publishes, Acceptable, RowStep
<1>8. ASSUME NEW e \in Executions, ExecutionReturns(e) \/ ExecutionCancelled(e) \/ SettlesManifest(e)
      PROVE  RowStep
    BY <1>8, FinishRows DEF ExecutionReturns, ExecutionCancelled, SettlesManifest
<1>9. CASE Interrupts
    <2>1. row' = [w \in Orders |-> IF w \in Orders THEN Salvaged(w, "transient") ELSE row[w]]
        BY <1>9 DEF Interrupts
    <2> QED
        BY <2>1 DEF RowStep, Failures
<1>10. ASSUME NEW w \in Orders, NEW e \in Executions, RestoresBinding(w, e) PROVE RowStep
    <2>1. Offers(w, e)
        BY <1>10 DEF RestoresBinding, Unbound, BookInv, Orphaned, Offers
    <2> QED
        BY <1>10, <2>1 DEF RestoresBinding, RowStep
<1> QED
    BY <1>1, <1>2, <1>3, <1>4, <1>5, <1>6, <1>7, <1>8, <1>9, <1>10
    DEF Next, RequestStep, DelegateStep, ExecutionStep, RecoveryStep, Opens, Stops, StopsAgain,
        AssignmentEnds, Settles, Dispatches, ReturnsAtOnce, Refused, TimesOut,
        ParticipantVanishes, ExecutionStarts, CrashAfterResult, CrashAfterManifest, Crash, Dies,
        Restart, FailsRunning, vars

-----------------------------------------------------------------------------
(* Rows stay sound.                                                        *)

\* The rows of w as its store operations leave it.
LEMMA CreatedSound ==
    ASSUME TypeOK, NEW w \in Orders, w \in Experts
    PROVE  Sound(w, Created(w)) /\ Created(w).result.evidence = {}
BY DEF Created, Sound, NoResult

LEMMA ResumedSound ==
    ASSUME TypeOK, NEW w \in Orders, Sound(w, row[w])
    PROVE  /\ Sound(w, Resumed(w))
           /\ Resumed(w).bound = row[w].bound
           /\ Resumed(w).result = row[w].result
<1>1. row[w] \in Row
    BY DEF TypeOK, StoreTypeOK
<1> QED
    BY <1>1 DEF Resumed, Sound, Row

LEMMA MarkedRunningSound ==
    ASSUME TypeOK, NEW w \in Orders, Sound(w, row[w])
    PROVE  /\ Sound(w, MarkedRunning(w))
           /\ MarkedRunning(w).bound = row[w].bound
           /\ MarkedRunning(w).result.evidence = {}
<1>1. row[w] \in Row
    BY DEF TypeOK, StoreTypeOK
<1> QED
    BY <1>1 DEF MarkedRunning, Sound, Row, NoResult

LEMMA CompletedBound ==
    ASSUME TypeOK, NEW w \in Orders, NEW result \in Result
    PROVE  /\ Completed(w, result).bound = row[w].bound
           /\ row[w].state \in Active =>
                 Completed(w, result).result.outputs = result.outputs \cup row[w].bound
<1>1. row[w] \in Row
    BY DEF TypeOK, StoreTypeOK
<1> QED
    BY <1>1 DEF Completed, Row, Result

\* Only programs of the same session are cited, and those are of Experts.
LEMMA NothingToShow ==
    ASSUME Owned, NEW w \in Orders, w \notin Experts
    PROVE  SessionExecutions(w) = {}
<1>1. ASSUME NEW e \in Executions, execution[e].owner \in SessionRows(w) PROVE FALSE
    BY <1>1, OrderAssumption DEF Owned, SessionRows
<1> QED
    BY <1>1 DEF SessionExecutions

\* Of one file the last candidate counts, and none if it has been accepted.
LEMMA DeliveredFacts ==
    ASSUME NEW S \in SUBSET Executions, NEW accepted
    PROVE  /\ accepted \subseteq Delivered(S, accepted, FileOf)
           /\ Delivered(S, accepted, FileOf) \subseteq accepted \cup S
           /\ \A e \in Delivered(S, accepted, FileOf) \ accepted :
                 /\ \A f \in accepted : FileOf[f] # FileOf[e]
                 /\ \A f \in Delivered(S, accepted, FileOf) \ accepted :
                       FileOf[f] = FileOf[e] => f = e
<1>1. S \subseteq Nat
    BY OrderAssumption
<1>2. ASSUME NEW e \in S, NEW f \in S, FileOf[f] = FileOf[e],
             \A g \in S : FileOf[g] = FileOf[e] => g <= e,
             \A g \in S : FileOf[g] = FileOf[f] => g <= f
      PROVE  f = e
    <2>1. f <= e /\ e <= f /\ e \in Nat /\ f \in Nat
        BY <1>1, <1>2
    <2> QED
        BY <2>1
<1>3. \A e \in Delivered(S, accepted, FileOf) \ accepted :
          /\ e \in S
          /\ \A g \in S : FileOf[g] = FileOf[e] => g <= e
          /\ \A f \in accepted : FileOf[f] # FileOf[e]
    BY DEF Delivered
<1> QED
    BY <1>2, <1>3 DEF Delivered

LEMMA TerminalOffers ==
    ASSUME TypeOK, Owned, NEW w \in Orders, Sound(w, row[w]),
           NEW origin \in Origins, NEW failure \in Failures
    PROVE  LET outputs == Terminal(w, origin, failure).outputs
           IN /\ \A e \in outputs \ row[w].bound :
                    /\ \A f \in row[w].bound : FileOf[f] # FileOf[e]
                    /\ \A f \in outputs \ row[w].bound : FileOf[f] = FileOf[e] => f = e
              /\ w \notin Experts =>
                    outputs = {} /\ Terminal(w, origin, failure).evidence = {}
<1> DEFINE S == {e \in SessionExecutions(w) : execution[e].declared}
<1>1. S \in SUBSET Executions
    BY DEF SessionExecutions
<1>2. /\ Terminal(w, origin, failure).outputs = Delivered(S, row[w].bound, FileOf)
      /\ Terminal(w, origin, failure).evidence =
            Delivered(S, row[w].bound, FileOf)
            \cup {e \in SessionExecutions(w) : execution[e].state = "succeeded"}
    BY DEF Terminal, Candidates
<1>3. w \notin Experts => SessionExecutions(w) = {} /\ row[w].bound = {}
    BY NothingToShow DEF Sound
<1>4. w \notin Experts => S = {}
    BY <1>3
<1> HIDE DEF S
<1>5. w \notin Experts => Delivered(S, row[w].bound, FileOf) = {}
    BY <1>1, <1>3, <1>4, DeliveredFacts
<1> QED
    BY <1>1, <1>2, <1>3, <1>5, DeliveredFacts

LEMMA CompletedSound ==
    ASSUME TypeOK, Owned, NEW w \in Orders, Sound(w, row[w]), NEW result \in Result,
           \/ result.evidence = {} /\ result.outputs = {}
           \/ \E origin \in Origins, failure \in Failures : result = Terminal(w, origin, failure)
    PROVE  Sound(w, Completed(w, result))
<1>1. CASE row[w].state \notin Active
    BY <1>1, CompletedFacts
<1>2. CASE row[w].state \in Active
    <2>1. /\ Completed(w, result).state = "settled"
          /\ Completed(w, result).succeeded = row[w].succeeded
          /\ Completed(w, result).bound = row[w].bound
          /\ Completed(w, result).result.evidence = result.evidence
          /\ Completed(w, result).result.outputs = result.outputs \cup row[w].bound
        BY <1>2, CompletedFacts, CompletedBound
    <2>2. \A e \in result.outputs \ row[w].bound :
              /\ \A f \in row[w].bound : FileOf[f] # FileOf[e]
              /\ \A f \in result.outputs \ row[w].bound : FileOf[f] = FileOf[e] => f = e
        BY TerminalOffers
    <2>3. w \notin Experts => result.outputs = {} /\ result.evidence = {}
        BY TerminalOffers
    <2> QED
        BY <2>1, <2>2, <2>3 DEF Sound
<1> QED
    BY <1>1, <1>2

LEMMA SalvagedSound ==
    ASSUME TypeOK, NEW w \in Orders, Sound(w, row[w]), NEW failure \in Failures
    PROVE  Sound(w, Salvaged(w, failure)) /\ Salvaged(w, failure).bound = row[w].bound
<1> DEFINE result == [origin |-> "recovered", failure |-> failure,
                      evidence |-> row[w].succeeded, outputs |-> row[w].bound]
<1>1. /\ result \in Result /\ result.evidence = row[w].succeeded
      /\ result.outputs = row[w].bound
    BY DEF Result, Origins, TypeOK, StoreTypeOK, Row
<1>2. Salvaged(w, failure) = Completed(w, result)
    BY DEF Salvaged
<1> HIDE DEF result
<1>3. CASE row[w].state \in Active
    <2>1. /\ Completed(w, result).state = "settled"
          /\ Completed(w, result).succeeded = row[w].succeeded
          /\ Completed(w, result).bound = row[w].bound
          /\ Completed(w, result).result.evidence = row[w].succeeded
          /\ Completed(w, result).result.outputs = row[w].bound
        BY <1>1, <1>3, CompletedFacts, CompletedBound
    <2> QED
        BY <1>2, <2>1 DEF Sound
<1>4. CASE row[w].state \notin Active
    BY <1>1, <1>2, <1>4, CompletedFacts
<1> QED
    BY <1>3, <1>4

\* What is accepted is not accepted in the place of another one.
LEMMA BoundSound ==
    ASSUME TypeOK, NEW w \in Orders, Sound(w, row[w]), NEW e \in Executions, Offers(w, e)
    PROVE  /\ Sound(w, Bound(w, e))
           /\ Bound(w, e).bound = row[w].bound \cup {e}
           /\ row[w].result.outputs \subseteq Bound(w, e).result.outputs
<1>1. row[w] \in Row /\ row[w].result \in Result
    BY DEF TypeOK, StoreTypeOK, Row
<1>2. e \in row[w].result.outputs /\ e \notin row[w].bound
    BY DEF Offers
<1>3. row[w].result # NoResult /\ w \in Experts /\ row[w].state # "none"
    BY <1>2 DEF Sound, Unassigned, NoResult
<1>4. {f \in row[w].bound : FileOf[f] # FileOf[e]} = row[w].bound
    BY <1>2 DEF Sound
<1>5. /\ Bound(w, e).bound = row[w].bound \cup {e}
      /\ Bound(w, e).state = row[w].state
      /\ Bound(w, e).result.outputs = row[w].result.outputs \cup {e}
    BY <1>1, <1>3, <1>4 DEF Bound, Row, Result
<1>6. row[w].result.outputs \cup {e} = row[w].result.outputs
    BY <1>2
<1>7. \A d \in row[w].result.outputs \ (row[w].bound \cup {e}) :
          /\ \A f \in row[w].bound \cup {e} : FileOf[f] # FileOf[d]
          /\ \A f \in row[w].result.outputs \ (row[w].bound \cup {e}) :
                FileOf[f] = FileOf[d] => f = d
    BY <1>2 DEF Sound
<1> QED
    BY <1>3, <1>5, <1>6, <1>7 DEF Sound

\* What a step keeps of a row: what was accepted, and what it may offer.
LEMMA RowsAfter ==
    ASSUME IInv, BookInv, RowStep, NEW v \in Orders
    PROVE  /\ Sound(v, row'[v])
           /\ row[v].bound \subseteq row'[v].bound
           /\ row[v].state # "none" => row'[v].state # "none"
           /\ pc[v] = "idle" /\ row[v].state = "none" => row'[v].state = "none"
           /\ pc[v] \in Over /\ row'[v].state \in Active =>
                 /\ row[v].state \in Active
                 /\ row[v].result.outputs \subseteq row'[v].result.outputs
<1>0. /\ TypeOK /\ Owned /\ row \in [Orders -> Row] /\ row[v] \in Row
      /\ \A w \in Orders : Sound(w, row[w])
    BY DEF IInv, BookInv, TypeOK, StoreTypeOK
<1>1. CASE row'[v] = row[v]
    BY <1>0, <1>1
<1>2. CASE Prepares(v)
    <2>1. pc[v] \notin Over
        BY <1>2 DEF Prepares, Enters, Over
    <2>2. row'[v] = IF v \notin Experts THEN MarkedRunning(v)
                    ELSE IF row[v].state = "none" THEN Created(v) ELSE Resumed(v)
        BY <1>0, <1>2 DEF Prepares
    <2>3. v \in Experts /\ row[v].state = "none" => row[v].bound = {}
        BY <1>0 DEF Sound, Unassigned
    <2> QED
        BY <1>0, <2>1, <2>2, <2>3, CreatedFacts, CreatedSound, ResumedFacts, ResumedSound,
           MarkedRunningFacts, MarkedRunningSound DEF Over
<1>3. CASE pc[v] = "preparing" /\ row'[v] = MarkedRunning(v)
    BY <1>0, <1>3, MarkedRunningFacts, MarkedRunningSound DEF Over
<1>4. ASSUME pc[v] \notin Over, NEW result \in Result, row'[v] = Completed(v, result),
             \/ result.evidence = {} /\ result.outputs = {}
             \/ \E origin \in Origins, failure \in Failures : result = Terminal(v, origin, failure)
      PROVE  /\ Sound(v, row'[v])
             /\ row[v].bound \subseteq row'[v].bound
             /\ row[v].state # "none" => row'[v].state # "none"
             /\ pc[v] # "idle"
    BY <1>0, <1>4, CompletedFacts, CompletedBound, CompletedSound DEF Over
<1>5. ASSUME NEW failure \in Failures, row'[v] = Salvaged(v, failure)
      PROVE  /\ Sound(v, row'[v])
             /\ row[v].bound \subseteq row'[v].bound
             /\ row'[v].state # "none" <=> row[v].state # "none"
             /\ row'[v].state \in Active => row'[v] = row[v]
    BY <1>0, <1>5, SalvagedFacts, SalvagedSound DEF Active
<1>6. ASSUME v \in Experts, row[v].state # "none", NEW e \in Executions,
             row'[v] = [row[v] EXCEPT !.succeeded = @ \cup {e}]
      PROVE  /\ Sound(v, row'[v])
             /\ row'[v].bound = row[v].bound /\ row'[v].result = row[v].result
             /\ row'[v].state = row[v].state
    BY <1>0, <1>6 DEF Row, Sound
<1>7. ASSUME NEW e \in Executions, Offers(v, e), row'[v] = Bound(v, e)
      PROVE  /\ Sound(v, row'[v])
             /\ row[v].bound \subseteq row'[v].bound
             /\ row'[v].state = row[v].state
             /\ row[v].result.outputs \subseteq row'[v].result.outputs
    BY <1>0, <1>7, BoundFacts, BoundSound
<1>8. \A e \in Executions : execution[e].state # "none" /\ execution[e].owner = v
                            => row[v].state # "none"
    BY DEF IInv, Recorded
<1>9. ASSUME NEW e \in Executions, execution[e].owner \in Experts, execution[e].state # "none",
             row' = [row EXCEPT ![execution[e].owner].succeeded = @ \cup {e}]
      PROVE  row'[v] = row[v] \/ /\ v \in Experts /\ row[v].state # "none"
                                 /\ row'[v] = [row[v] EXCEPT !.succeeded = @ \cup {e}]
    BY <1>0, <1>8, <1>9
<1>10. CASE \E w \in Orders : Prepares(w)
    <2>1. PICK w \in Orders : Prepares(w)
        BY <1>10
    <2>2. v = w \/ row'[v] = row[v]
        BY <1>0, <2>1 DEF Prepares
    <2> QED
        BY <1>1, <1>2, <2>1, <2>2
<1>11. CASE row' = row \/ \E w \in Orders :
                 /\ pc[w] = "preparing" /\ row[w].state \in Active
                 /\ row' = [row EXCEPT ![w] = MarkedRunning(w)]
    BY <1>0, <1>1, <1>3, <1>11
<1>12. CASE \E w \in Orders, result \in Result :
                 /\ pc[w] \notin Over
                 /\ \/ result.evidence = {} /\ result.outputs = {}
                    \/ \E origin \in Origins, failure \in Failures :
                          result = Terminal(w, origin, failure)
                 /\ row' = [row EXCEPT ![w] = Completed(w, result)]
    <2>1. PICK w \in Orders, result \in Result :
                 /\ pc[w] \notin Over
                 /\ \/ result.evidence = {} /\ result.outputs = {}
                    \/ \E origin \in Origins, failure \in Failures :
                          result = Terminal(w, origin, failure)
                 /\ row' = [row EXCEPT ![w] = Completed(w, result)]
        BY <1>12
    <2>2. CASE v # w
        BY <1>0, <1>1, <2>1, <2>2
    <2>3. CASE v = w
        <3>1. row'[v] = Completed(v, result)
            BY <1>0, <2>1, <2>3
        <3> QED
            BY <1>4, <2>1, <2>3, <3>1
    <2> QED
        BY <2>2, <2>3
<1>13. CASE \E W \in SUBSET Orders, failure \in Failures :
                 row' = [w \in Orders |-> IF w \in W THEN Salvaged(w, failure) ELSE row[w]]
    <2>1. PICK W \in SUBSET Orders, failure \in Failures :
                 row' = [w \in Orders |-> IF w \in W THEN Salvaged(w, failure) ELSE row[w]]
        BY <1>13
    <2>2. row'[v] = row[v] \/ row'[v] = Salvaged(v, failure)
        BY <2>1
    <2> QED
        BY <1>1, <1>5, <2>2
<1>14. CASE \E e \in Executions :
                 /\ execution[e].owner \in Experts /\ execution[e].state # "none"
                 /\ row' = [row EXCEPT ![execution[e].owner].succeeded = @ \cup {e}]
    BY <1>1, <1>6, <1>9, <1>14
<1>15. CASE \E w \in Orders, e \in Executions :
                 Offers(w, e) /\ row' = [row EXCEPT ![w] = Bound(w, e)]
    <2>1. PICK w \in Orders, e \in Executions :
                 Offers(w, e) /\ row' = [row EXCEPT ![w] = Bound(w, e)]
        BY <1>15
    <2>2. row'[v] = row[v] \/ (v = w /\ row'[v] = Bound(v, e))
        BY <1>0, <2>1
    <2> QED
        BY <1>1, <1>7, <2>1, <2>2
<1> QED
    BY <1>10, <1>11, <1>12, <1>13, <1>14, <1>15 DEF RowStep

-----------------------------------------------------------------------------
(* Requests stay opened, and orphans stay where they are.                  *)

LEMMA OwnedNext == ASSUME IInv, BookInv, [Next]_vars PROVE Owned'
<1> USE DEF durable, delegates, turns, process
<1>0. Owned /\ execution \in [Executions -> Execution]
    BY DEF IInv, BookInv, TypeOK, StoreTypeOK
<1>1. CASE UNCHANGED execution
    BY <1>0, <1>1 DEF Owned
<1>2. ASSUME NEW w \in Orders, NEW e \in Executions, ExecutionStarts(w, e) PROVE Owned'
    <2>1. execution[e] \in Execution
        BY <1>0
    <2>2. w \in Experts
          /\ execution' = [execution EXCEPT ![e] = [@ EXCEPT !.state = "running", !.owner = w]]
        BY <1>2, <2>1 DEF ExecutionStarts, StartExecution
    <2> QED
        BY <1>0, <2>1, <2>2 DEF Owned, Execution
<1>3. ASSUME NEW e \in Executions, ExecutionReturns(e) \/ ExecutionCancelled(e) \/ SettlesManifest(e)
      PROVE  Owned'
    <2>1. PICK state \in {"succeeded", "failed", "cancelled"}, declares \in BOOLEAN :
              FinishExecution(e, state, declares)
        BY <1>3 DEF ExecutionReturns, ExecutionCancelled, SettlesManifest
    <2>2. \A f \in Executions : execution'[f].owner = execution[f].owner
        BY <2>1, FinishFacts
    <2> QED
        BY <1>0, <2>2 DEF Owned
<1>4. ASSUME NEW e \in Executions, CrashAfterManifest(e) PROVE Owned'
    <2>1. \A f \in Executions : execution'[f].owner = execution[f].owner
        BY <1>0, <1>4 DEF CrashAfterManifest, Execution
    <2> QED
        BY <1>0, <2>1 DEF Owned
<1>5. CASE FailsRunning
    <2>1. ASSUME NEW f \in Executions PROVE execution'[f].owner = execution[f].owner
        <3>1. execution[f] \in Execution
            BY <1>0
        <3> QED
            BY <1>5, <3>1 DEF FailsRunning, Execution
    <2> QED
        BY <1>0, <2>1 DEF Owned
<1> QED
    BY <1>1, <1>2, <1>3, <1>4, <1>5
    DEF Next, RequestStep, DelegateStep, ExecutionStep, RecoveryStep, Opens, Stops, StopsAgain,
        AssignmentEnds, Settles, Settled, Dispatches, Prepares, ReturnsAtOnce, Refused,
        SourcesUnavailable, StartsParticipant, TimesOut, ParticipantEnds, ParticipantVanishes,
        Publishes, CrashAfterResult, Crash, Dies, Restart, Interrupts, RestoresBinding, vars

\* A request is new once and closes once, and it alone dispatches its orders.
TurnStep(v) ==
    LET r == RequestOf[v]
    IN /\ phase[r] # "new" => phase'[r] # "new"
       /\ phase[r] = "closed" => phase'[r] = "closed"
       /\ pc[v] = "idle" => pc'[v] = "idle" \/ phase[r] = "idle"
       /\ pc[v] \in Over /\ phase[r] = "closed" => pc'[v] \in Over

LEMMA TurnsAfter == ASSUME IInv, [Next]_vars, NEW v \in Orders PROVE TurnStep(v)
<1> USE DEF durable, delegates, turns, process
<1>0. /\ RequestOf[v] \in Requests /\ Placed(v) /\ Requested(RequestOf[v])
      /\ \A w \in Orders : Placed(w)
      /\ phase \in [Requests -> {"new", "idle", "assigning", "unwinding", "settling", "settled",
                                 "closing", "closed"}]
      /\ pc \in [Orders -> Over \cup {"waiting", "preparing", "running", "cancelling", "backoff"}]
    BY OrderAssumption DEF IInv, TypeOK
<1>1. ASSUME NEW r \in Requests,
             Opens(r) \/ AssignmentEnds(r) \/ Settled(r)
      PROVE  TurnStep(v)
    BY <1>0, <1>1 DEF TurnStep, Opens, AssignmentEnds, Settled, Forgets, Over
<1>2. ASSUME NEW r \in Requests, Stops(r) PROVE TurnStep(v)
    BY <1>0, <1>2 DEF TurnStep, Stops, Over
<1>3. ASSUME NEW r \in Requests, StopsAgain(r) PROVE TurnStep(v)
    BY <1>0, <1>3 DEF TurnStep, StopsAgain, Over
<1>4. ASSUME NEW r \in Requests, Settles(r) PROVE TurnStep(v)
    BY <1>0, <1>4 DEF TurnStep, Settles, Over
<1>5. ASSUME NEW r \in Requests, NEW W \in SUBSET Orders, Dispatches(r, W) PROVE TurnStep(v)
    BY <1>0, <1>5 DEF TurnStep, Dispatches, Dispatchable, Over
<1>6. ASSUME NEW w \in Orders, Prepares(w) PROVE TurnStep(v)
    BY <1>0, <1>6 DEF TurnStep, Prepares, Enters, Over
<1>7. ASSUME NEW w \in Orders, ReturnsAtOnce(w) \/ Refused(w) PROVE TurnStep(v)
    BY <1>0, <1>7 DEF TurnStep, ReturnsAtOnce, Refused, Enters, Leaves, Over
<1>8. ASSUME NEW w \in Orders, SourcesUnavailable(w) \/ StartsParticipant(w) PROVE TurnStep(v)
    BY <1>0, <1>8 DEF TurnStep, SourcesUnavailable, StartsParticipant, Leaves, Over
<1>9. ASSUME NEW w \in Orders, ParticipantEnds(w) PROVE TurnStep(v)
    <2>1. pc[w] \notin Over /\ UNCHANGED phase
        BY <1>0, <1>9 DEF ParticipantEnds, Placed, Over
    <2>2. \A u \in Orders \ {w} : pc'[u] = pc[u]
        BY <1>0, <1>9 DEF ParticipantEnds, Delivers, BacksOff, Leaves
    <2> QED
        BY <1>0, <2>1, <2>2 DEF TurnStep, Over
<1>10. ASSUME NEW w \in Orders, ParticipantVanishes(w) PROVE TurnStep(v)
    BY <1>0, <1>10 DEF TurnStep, ParticipantVanishes, Leaves, Over
<1>11. CASE Dies
    BY <1>0, <1>11 DEF TurnStep, Dies, Over
<1>12. CASE UNCHANGED <<pc, phase>>
    BY <1>12 DEF TurnStep
<1> QED
    BY <1>1, <1>2, <1>3, <1>4, <1>5, <1>6, <1>7, <1>8, <1>9, <1>10, <1>11, <1>12
    DEF Next, RequestStep, DelegateStep, ExecutionStep, RecoveryStep, TimesOut, ExecutionStarts,
        Publishes, CrashAfterResult, ExecutionReturns, ExecutionCancelled, CrashAfterManifest,
        Crash, Restart, FailsRunning, Interrupts, SettlesManifest, RestoresBinding, vars

\* A result that is written without its binding is the last thing a process does.
LEMMA PublishedAfter ==
    ASSUME IInv, BookInv, [Next]_vars, NEW v \in Orders, NEW e \in Executions,
           published'[e] = v, published[e] # v
    PROVE  \/ e \in row'[v].bound
           \/ Offers(v, e) /\ row' = row /\ Dies
<1> USE DEF durable, delegates, turns, process
<1>0. published \in [Executions -> Orders \cup {Nobody}] /\ row \in [Orders -> Row]
    BY DEF IInv, TypeOK, StoreTypeOK
<1>1. ASSUME NEW w \in Orders, NEW f \in Executions, Publishes(w, f) PROVE e \in row'[v].bound
    <2>1. v = w /\ e = f
        BY <1>0, <1>1 DEF Publishes, Materialized
    <2>2. row'[v] = Bound(v, e) /\ Offers(v, e)
        BY <1>0, <1>1, <2>1 DEF Publishes, Acceptable
    <2>3. Bound(v, e).bound = row[v].bound \cup {e}
        BY <2>2, BoundSound DEF IInv, BookInv
    <2> QED
        BY <2>2, <2>3
<1>2. ASSUME NEW w \in Orders, NEW f \in Executions, CrashAfterResult(w, f)
      PROVE  Offers(v, e) /\ row' = row /\ Dies
    <2>1. v = w /\ e = f
        BY <1>0, <1>2 DEF CrashAfterResult, Materialized
    <2> QED
        BY <1>2, <2>1 DEF CrashAfterResult, Acceptable, Dies
<1>3. CASE UNCHANGED published
    BY <1>3
<1> QED
    BY <1>1, <1>2, <1>3
    DEF Next, RequestStep, DelegateStep, ExecutionStep, RecoveryStep, Opens, Stops, StopsAgain,
        AssignmentEnds, Settles, Settled, Dispatches, Prepares, ReturnsAtOnce, Refused,
        SourcesUnavailable, StartsParticipant, TimesOut, ParticipantEnds, ParticipantVanishes,
        ExecutionStarts, ExecutionReturns, ExecutionCancelled, CrashAfterManifest, Crash, Restart,
        FailsRunning, SettlesManifest, Interrupts, RestoresBinding, vars

LEMMA OrphanedNext ==
    ASSUME IInv, BookInv, [Next]_vars, NEW v \in Orders
    PROVE  Orphaned(v)'
<1>0. /\ RequestOf[v] \in Requests /\ Orphaned(v) /\ Opened(v) /\ Sound(v, row[v])
    BY OrderAssumption DEF BookInv
<1>1. RowStep
    BY NextRows
<1> SUFFICES ASSUME NEW e \in Executions, published'[e] = v, e \notin row'[v].bound
             PROVE  /\ phase'[RequestOf[v]] = "closed" /\ pc'[v] \in Over
                    /\ row'[v].state \in Active => e \in row'[v].result.outputs
    BY DEF Orphaned
<1>2. e \notin row[v].bound
    BY <1>1, RowsAfter
<1>3. CASE published[e] = v
    <2>1. /\ phase[RequestOf[v]] = "closed" /\ pc[v] \in Over
          /\ row[v].state \in Active => e \in row[v].result.outputs
        BY <1>0, <1>2, <1>3 DEF Orphaned
    <2>2. phase'[RequestOf[v]] = "closed" /\ pc'[v] \in Over
        BY <2>1, TurnsAfter DEF TurnStep
    <2>3. row'[v].state \in Active =>
              row[v].state \in Active /\ row[v].result.outputs \subseteq row'[v].result.outputs
        BY <1>1, <2>1, RowsAfter
    <2> QED
        BY <2>1, <2>2, <2>3
<1>4. CASE published[e] # v
    <2>1. Offers(v, e) /\ row' = row /\ Dies
        BY <1>4, PublishedAfter
    <2>2. row[v].state # "none"
        BY <1>0, <2>1 DEF Offers, Sound, Unassigned, NoResult
    <2>3. phase'[RequestOf[v]] = "closed" /\ pc'[v] \in Over
        BY <1>0, <2>1, <2>2 DEF Opened, Dies, Over
    <2> QED
        BY <2>1, <2>3 DEF Offers
<1> QED
    BY <1>3, <1>4

LEMMA OpenedNext ==
    ASSUME IInv, BookInv, [Next]_vars, NEW v \in Orders
    PROVE  Opened(v)'
<1>1. RowStep /\ Opened(v)
    BY NextRows DEF BookInv
<1>2. pc[v] = "idle" /\ row[v].state = "none" => row'[v].state = "none"
    BY <1>1, RowsAfter
<1>3. pc[v] = "idle" => pc'[v] = "idle" \/ phase[RequestOf[v]] = "idle"
    BY TurnsAfter DEF TurnStep
<1>4. phase[RequestOf[v]] # "new" => phase'[RequestOf[v]] # "new"
    BY TurnsAfter DEF TurnStep
<1> QED
    BY <1>1, <1>2, <1>3, <1>4 DEF Opened

LEMMA BookInitInv == Init => BookInv
<1> SUFFICES ASSUME Init PROVE BookInv
    OBVIOUS
<1>1. Owned
    BY DEF Init, StoreInit, Owned
<1>2. ASSUME NEW w \in Orders PROVE Sound(w, row[w]) /\ Opened(w) /\ Orphaned(w)
    <2>1. row[w] = Unassigned /\ pc[w] = "idle" /\ \A e \in Executions : published[e] = Nobody
        BY <1>2 DEF Init, StoreInit, Unassigned
    <2>2. w # Nobody
        BY OrderAssumption
    <2> QED
        BY <2>1, <2>2 DEF Sound, Opened, Orphaned, Unassigned, NoResult
<1> QED
    BY <1>1, <1>2 DEF BookInv

LEMMA BookNextInv == IInv /\ BookInv /\ [Next]_vars => BookInv'
<1> SUFFICES ASSUME IInv, BookInv, [Next]_vars PROVE BookInv'
    OBVIOUS
<1>1. RowStep
    BY NextRows
<1>2. \A w \in Orders : Sound(w, row[w])' /\ Opened(w)' /\ Orphaned(w)'
    BY <1>1, RowsAfter, OpenedNext, OrphanedNext DEF Sound
<1> QED
    BY <1>2, OwnedNext DEF BookInv

LEMMA BookInvariance == Spec => [](IInv /\ BookInv)
<1>1. Init => IInv /\ BookInv
    BY InitInv, BookInitInv
<1>2. (IInv /\ BookInv) /\ [Next]_vars => (IInv /\ BookInv)'
    BY NextInv, BookNextInv
<1> QED
    BY <1>1, <1>2, PTL DEF Spec

-----------------------------------------------------------------------------
(* Every step is one of the book, or is not seen by it.                    *)

BookStep == Book!BookNext \/ UNCHANGED Book!bookVars

\* One row changes, and it is opened.
LEMMA BookOpens ==
    ASSUME IInv, NEW w \in Orders, NEW x \in Row, row' = [row EXCEPT ![w] = x],
           row[w].state = "none" \/ CanResume(w), x.state \in Active,
           row[w].succeeded \subseteq x.succeeded, row[w].bound \subseteq x.bound,
           x.result.evidence = row[w].result.evidence
    PROVE  BookStep
<1>0. row \in [Orders -> Row] /\ x.succeeded \subseteq Executions /\ x.bound \subseteq Executions
    BY DEF IInv, TypeOK, StoreTypeOK, Row
<1>1. \A v \in Orders : row'[v] = IF v = w THEN x ELSE row[v]
    BY <1>0
<1>2. Shown(w) \in {"unassigned", "interrupted"}
    BY DEF Shown, CanResume, Active
<1>3. \A v \in Orders : Shown(v)' = IF v = w THEN "open" ELSE Shown(v)
    BY <1>1 DEF Shown, CanResume, Active
<1>4. x.succeeded = row[w].succeeded \cup x.succeeded /\ x.bound = row[w].bound \cup x.bound
    OBVIOUS
<1>5. \A v \in Orders :
          /\ row'[v].succeeded = IF v = w THEN row[w].succeeded \cup x.succeeded
                                 ELSE row[v].succeeded
          /\ row'[v].bound = IF v = w THEN row[w].bound \cup x.bound ELSE row[v].bound
    <2> DEFINE known == row[w].succeeded \cup x.succeeded
               results == row[w].bound \cup x.bound
    <2>1. known = x.succeeded /\ results = x.bound
        BY <1>4
    <2> HIDE DEF known, results
    <2>2. \A v \in Orders :
              /\ row'[v].succeeded = IF v = w THEN known ELSE row[v].succeeded
              /\ row'[v].bound = IF v = w THEN results ELSE row[v].bound
        BY <1>1, <2>1
    <2> QED
        BY <2>2 DEF known, results
<1>6. Book!Opens(w)
    <2>1. [v \in Orders |-> Shown(v)]' = [[v \in Orders |-> Shown(v)] EXCEPT ![w] = "open"]
        BY <1>3
    <2>2. [v \in Orders |-> row[v].result.evidence]' = [v \in Orders |-> row[v].result.evidence]
        BY <1>1
    <2>3. [v \in Orders |-> row[v].succeeded]'
          = [[v \in Orders |-> row[v].succeeded] EXCEPT ![w] = @ \cup x.succeeded]
        BY <1>5
    <2>4. [v \in Orders |-> row[v].bound]'
          = [[v \in Orders |-> row[v].bound] EXCEPT ![w] = @ \cup x.bound]
        BY <1>5
    <2>5. \E known, results \in SUBSET Executions :
              /\ [v \in Orders |-> row[v].succeeded]'
                 = [[v \in Orders |-> row[v].succeeded] EXCEPT ![w] = @ \cup known]
              /\ [v \in Orders |-> row[v].bound]'
                 = [[v \in Orders |-> row[v].bound] EXCEPT ![w] = @ \cup results]
        <3>1. x.succeeded \in SUBSET Executions /\ x.bound \in SUBSET Executions
            BY <1>0
        <3> QED
            BY <2>3, <2>4, <3>1, Zenon
    <2>6. [v \in Orders |-> Shown(v)][w] \in {"unassigned", "interrupted"}
        BY <1>2
    <2> QED
        BY <2>1, <2>2, <2>5, <2>6, Zenon DEF Book!Opens
<1> QED
    BY <1>6 DEF BookStep, Book!BookNext

\* An open row loses a result that was withdrawn, and nothing else.
LEMMA BookResumes ==
    ASSUME IInv, NEW w \in Orders, NEW x \in Row, row' = [row EXCEPT ![w] = x],
           row[w].state \in Active, x.state \in Active,
           x.succeeded = row[w].succeeded, x.bound = row[w].bound, x.result.evidence = {}
    PROVE  BookStep
<1>0. row \in [Orders -> Row]
    BY DEF IInv, TypeOK, StoreTypeOK
<1>1. \A v \in Orders : row'[v] = IF v = w THEN x ELSE row[v]
    BY <1>0
<1>2. Shown(w) = "open" /\ \A v \in Orders : Shown(v)' = Shown(v)
    BY <1>1 DEF Shown, CanResume, Active
<1>3. \A v \in Orders :
          row'[v].result.evidence = IF v = w THEN {} ELSE row[v].result.evidence
    BY <1>1
<1>4. Book!Resumes(w)
    <2>1. [v \in Orders |-> Shown(v)]' = [v \in Orders |-> Shown(v)]
        BY <1>2
    <2>2. [v \in Orders |-> row[v].result.evidence]'
          = [[v \in Orders |-> row[v].result.evidence] EXCEPT ![w] = {}]
        BY <1>3
    <2>3. [v \in Orders |-> row[v].succeeded]' = [v \in Orders |-> row[v].succeeded]
        BY <1>1
    <2>4. [v \in Orders |-> row[v].bound]' = [v \in Orders |-> row[v].bound]
        BY <1>1
    <2> QED
        BY <1>2, <2>1, <2>2, <2>3, <2>4 DEF Book!Resumes
<1> QED
    BY <1>4 DEF BookStep, Book!BookNext

\* Rows without a change are not seen.
LEMMA BookStutters ==
    ASSUME \A v \in Orders : row'[v] = row[v]
    PROVE  BookStep
<1>1. \A v \in Orders : Shown(v)' = Shown(v)
    BY DEF Shown, CanResume
<1>2. /\ [v \in Orders |-> Shown(v)]' = [v \in Orders |-> Shown(v)]
      /\ [v \in Orders |-> row[v].result.evidence]' = [v \in Orders |-> row[v].result.evidence]
      /\ [v \in Orders |-> row[v].succeeded]' = [v \in Orders |-> row[v].succeeded]
      /\ [v \in Orders |-> row[v].bound]' = [v \in Orders |-> row[v].bound]
    BY <1>1
<1> QED
    BY <1>2 DEF BookStep, Book!bookVars

\* Some active rows get a result, and the others stay as they are.
LEMMA BookSettles ==
    ASSUME IInv, NEW W \in SUBSET Orders,
           \A v \in Orders : row'[v] \in Row,
           \A v \in Orders \ W : row'[v] = row[v],
           \A v \in W : /\ row[v].state \in Active /\ row'[v].state = "settled"
                        /\ row'[v].succeeded = row[v].succeeded
                        /\ row'[v].bound = row[v].bound
    PROVE  BookStep
<1>1. CASE W = {}
    BY <1>1, BookStutters
<1>2. CASE W # {}
    <2> DEFINE kind  == [v \in W |-> Shown(v)']
               cites == [v \in W |-> row'[v].result.evidence]
    <2>1. /\ \A v \in W : Shown(v) = "open" /\ Shown(v)' \in {"interrupted", "final"}
          /\ \A v \in Orders \ W : Shown(v)' = Shown(v)
        BY DEF Shown, CanResume, Active
    <2>2. kind \in [W -> {"interrupted", "final"}] /\ cites \in [W -> SUBSET Executions]
        BY <2>1 DEF Row, Result
    <2>3. [v \in Orders |-> Shown(v)]'
          = [v \in Orders |-> IF v \in W THEN kind[v] ELSE [u \in Orders |-> Shown(u)][v]]
        BY <2>1
    <2>4. [v \in Orders |-> row[v].result.evidence]'
          = [v \in Orders |-> IF v \in W THEN cites[v]
                              ELSE [u \in Orders |-> row[u].result.evidence][v]]
        OBVIOUS
    <2>5. [v \in Orders |-> row[v].succeeded]' = [v \in Orders |-> row[v].succeeded]
        OBVIOUS
    <2>6. [v \in Orders |-> row[v].bound]' = [v \in Orders |-> row[v].bound]
        OBVIOUS
    <2>7. \A v \in W : [u \in Orders |-> Shown(u)][v] = "open"
        BY <2>1
    <2> HIDE DEF kind, cites
    <2>8. Book!Settles(W)
        BY <1>2, <2>2, <2>3, <2>4, <2>5, <2>6, <2>7 DEF Book!Settles
    <2> QED
        BY <2>8 DEF BookStep, Book!BookNext
<1> QED
    BY <1>1, <1>2

\* A row learns of a program that succeeded.
LEMMA BookComputes ==
    ASSUME IInv, NEW w \in Orders, NEW e \in Executions,
           row' = [row EXCEPT ![w].succeeded = @ \cup {e}]
    PROVE  BookStep
<1>0. row \in [Orders -> Row] /\ row[w] \in Row
    BY DEF IInv, TypeOK, StoreTypeOK
<1>1. /\ \A v \in Orders : row'[v] = IF v = w THEN [row[w] EXCEPT !.succeeded = @ \cup {e}]
                                     ELSE row[v]
      /\ \A v \in Orders : /\ row'[v].state = row[v].state /\ row'[v].result = row[v].result
                           /\ row'[v].bound = row[v].bound
                           /\ row'[v].succeeded = IF v = w THEN row[v].succeeded \cup {e}
                                                  ELSE row[v].succeeded
    BY <1>0 DEF Row
<1>2. \A v \in Orders : Shown(v)' = Shown(v)
    BY <1>1 DEF Shown, CanResume
<1>3. Book!Computes(w, e)
    <2>1. [v \in Orders |-> Shown(v)]' = [v \in Orders |-> Shown(v)]
        BY <1>2
    <2>2. [v \in Orders |-> row[v].result.evidence]' = [v \in Orders |-> row[v].result.evidence]
        BY <1>1
    <2>3. [v \in Orders |-> row[v].succeeded]'
          = [[v \in Orders |-> row[v].succeeded] EXCEPT ![w] = @ \cup {e}]
        BY <1>1
    <2>4. [v \in Orders |-> row[v].bound]' = [v \in Orders |-> row[v].bound]
        BY <1>1
    <2> QED
        BY <2>1, <2>2, <2>3, <2>4 DEF Book!Computes
<1> QED
    BY <1>3 DEF BookStep, Book!BookNext

\* One of the candidates of a row is accepted.
LEMMA BookAccepts ==
    ASSUME IInv, BookInv, NEW w \in Orders, NEW e \in Executions, Offers(w, e),
           row' = [row EXCEPT ![w] = Bound(w, e)]
    PROVE  BookStep
<1>0. TypeOK /\ row \in [Orders -> Row] /\ Sound(w, row[w])
    BY DEF IInv, BookInv, TypeOK, StoreTypeOK
<1>1. /\ Bound(w, e).state = row[w].state
      /\ Bound(w, e).succeeded = row[w].succeeded
      /\ Bound(w, e).result.origin = row[w].result.origin
      /\ Bound(w, e).result.failure = row[w].result.failure
      /\ Bound(w, e).result.evidence = row[w].result.evidence
      /\ Bound(w, e).bound = row[w].bound \cup {e}
    BY <1>0, BoundFacts, BoundSound
<1>2. \A v \in Orders : row'[v] = IF v = w THEN Bound(w, e) ELSE row[v]
    BY <1>0
<1>3. \A v \in Orders : Shown(v)' = Shown(v)
    BY <1>1, <1>2 DEF Shown, CanResume
<1>4. \A v \in Orders :
          row'[v].bound = IF v = w THEN row[w].bound \cup {e} ELSE row[v].bound
    BY <1>1, <1>2
<1>5. Book!Accepts(w, e)
    <2>1. [v \in Orders |-> Shown(v)]' = [v \in Orders |-> Shown(v)]
        BY <1>3
    <2>2. [v \in Orders |-> row[v].result.evidence]' = [v \in Orders |-> row[v].result.evidence]
        BY <1>1, <1>2
    <2>3. [v \in Orders |-> row[v].succeeded]' = [v \in Orders |-> row[v].succeeded]
        BY <1>1, <1>2
    <2>4. [v \in Orders |-> row[v].bound]'
          = [[v \in Orders |-> row[v].bound] EXCEPT ![w] = @ \cup {e}]
        BY <1>4
    <2> QED
        BY <2>1, <2>2, <2>3, <2>4 DEF Book!Accepts
<1> QED
    BY <1>5 DEF BookStep, Book!BookNext

LEMMA BookPrepares == ASSUME IInv, BookInv, NEW w \in Orders, Prepares(w) PROVE BookStep
<1> DEFINE x == IF w \notin Experts THEN MarkedRunning(w)
                ELSE IF row[w].state = "none" THEN Created(w) ELSE Resumed(w)
<1>0. TypeOK /\ Sound(w, row[w])
    BY DEF IInv, BookInv
<1>1. row' = [row EXCEPT ![w] = x] /\ (row[w].state = "none" \/ CanResume(w))
    BY DEF Prepares
<1>2. CASE w \notin Experts
    <2>1. x = MarkedRunning(w) /\ row[w].result.evidence = {}
        BY <1>0, <1>2 DEF Sound
    <2> HIDE DEF x
    <2> QED
        BY <1>0, <1>1, <2>1, MarkedRunningFacts, MarkedRunningSound, BookOpens DEF Active
<1>3. CASE w \in Experts /\ row[w].state = "none"
    <2>1. /\ x = Created(w) /\ row[w].result.evidence = {}
          /\ row[w].succeeded = {} /\ row[w].bound = {}
        BY <1>0, <1>3 DEF Sound, Unassigned, NoResult
    <2> HIDE DEF x
    <2>2. x \in Row /\ x.state \in Active /\ x.result.evidence = {}
        BY <1>0, <1>3, <2>1, CreatedFacts, CreatedSound DEF Active
    <2> QED
        BY <1>1, <2>1, <2>2, BookOpens
<1>4. CASE w \in Experts /\ row[w].state # "none"
    <2>1. x = Resumed(w)
        BY <1>4
    <2> HIDE DEF x
    <2>2. /\ x \in Row /\ x.state \in Active /\ x.result = row[w].result
          /\ x.bound = row[w].bound /\ x.succeeded = row[w].succeeded
        BY <1>0, <2>1, ResumedFacts, ResumedSound DEF Active
    <2> QED
        BY <1>1, <2>2, BookOpens
<1> QED
    BY <1>2, <1>3, <1>4

LEMMA BookCompletes ==
    ASSUME IInv, NEW w \in Orders, NEW result \in Result,
           row' = [row EXCEPT ![w] = Completed(w, result)]
    PROVE  BookStep
<1>0. TypeOK /\ row \in [Orders -> Row]
    BY DEF IInv, TypeOK, StoreTypeOK
<1>1. /\ \A v \in Orders \ {w} : row'[v] = row[v]
      /\ row'[w] = Completed(w, result)
      /\ \A v \in Orders : row'[v] \in Row
    BY <1>0, CompletedFacts
<1>2. CASE row[w].state \in Active
    <2>1. /\ row'[w].state = "settled" /\ row'[w].succeeded = row[w].succeeded
          /\ row'[w].bound = row[w].bound
        BY <1>0, <1>1, <1>2, CompletedFacts, CompletedBound
    <2>2. {w} \in SUBSET Orders /\ \A v \in {w} : v = w
        OBVIOUS
    <2> QED
        BY <1>1, <1>2, <2>1, <2>2, BookSettles
<1>3. CASE row[w].state \notin Active
    BY <1>0, <1>1, <1>3, CompletedFacts, BookStutters
<1> QED
    BY <1>2, <1>3

LEMMA BookSalvages ==
    ASSUME IInv, BookInv, NEW W \in SUBSET Orders, NEW failure \in Failures,
           row' = [w \in Orders |-> IF w \in W THEN Salvaged(w, failure) ELSE row[w]]
    PROVE  BookStep
<1> DEFINE open == {w \in W : row[w].state \in Active}
<1>0. TypeOK /\ row \in [Orders -> Row] /\ \A w \in Orders : Sound(w, row[w])
    BY DEF IInv, BookInv, TypeOK, StoreTypeOK
<1>1. \A v \in Orders \ open : row'[v] = row[v]
    BY <1>0, SalvagedFacts
<1>2. \A v \in open : /\ row[v].state \in Active /\ row'[v].state = "settled"
                      /\ row'[v].succeeded = row[v].succeeded
                      /\ row'[v].bound = row[v].bound
    BY <1>0, SalvagedFacts, SalvagedSound
<1>3. \A v \in Orders : row'[v] \in Row
    BY <1>0, SalvagedFacts
<1>4. open \in SUBSET Orders
    OBVIOUS
<1> HIDE DEF open
<1> QED
    BY <1>1, <1>2, <1>3, <1>4, BookSettles

LEMMA StepSimulates == IInv /\ BookInv /\ [Next]_vars => [Book!BookNext]_(Book!bookVars)
<1> SUFFICES ASSUME IInv, BookInv, [Next]_vars PROVE BookStep
    BY DEF BookStep
<1>0. RowStep /\ TypeOK /\ \A w \in Orders : Sound(w, row[w])
    BY NextRows DEF IInv, BookInv
<1>1. CASE row' = row
    BY <1>1, BookStutters
<1>2. CASE \E w \in Orders : Prepares(w)
    BY <1>2, BookPrepares
<1>3. ASSUME NEW w \in Orders, row[w].state \in Active,
             row' = [row EXCEPT ![w] = MarkedRunning(w)]
      PROVE  BookStep
    <2>1. /\ MarkedRunning(w) \in Row /\ MarkedRunning(w).state \in Active
          /\ MarkedRunning(w).succeeded = row[w].succeeded
          /\ MarkedRunning(w).bound = row[w].bound
          /\ MarkedRunning(w).result.evidence = {}
        BY <1>0, MarkedRunningFacts, MarkedRunningSound DEF Active
    <2> QED
        BY <1>3, <2>1, BookResumes
<1>4. ASSUME NEW w \in Orders, NEW result \in Result,
             row' = [row EXCEPT ![w] = Completed(w, result)]
      PROVE  BookStep
    BY <1>4, BookCompletes
<1>5. ASSUME NEW W \in SUBSET Orders, NEW failure \in Failures,
             row' = [w \in Orders |-> IF w \in W THEN Salvaged(w, failure) ELSE row[w]]
      PROVE  BookStep
    BY <1>5, BookSalvages
<1>6. ASSUME NEW e \in Executions, execution[e].owner \in Experts,
             row' = [row EXCEPT ![execution[e].owner].succeeded = @ \cup {e}]
      PROVE  BookStep
    BY <1>6, OrderAssumption, BookComputes
<1>7. ASSUME NEW w \in Orders, NEW e \in Executions, Offers(w, e),
             row' = [row EXCEPT ![w] = Bound(w, e)]
      PROVE  BookStep
    BY <1>7, BookAccepts
<1> QED
    BY <1>0, <1>1, <1>2, <1>3, <1>4, <1>5, <1>6, <1>7 DEF RowStep

LEMMA BookStarts == Init => Book!BookInit
<1> SUFFICES ASSUME Init PROVE Book!BookInit
    OBVIOUS
<1>1. \A w \in Orders : /\ Shown(w) = "unassigned" /\ row[w].result.evidence = {}
                        /\ row[w].succeeded = {} /\ row[w].bound = {}
    BY DEF Init, StoreInit, Shown, NoResult
<1> QED
    BY <1>1 DEF Book!BookInit

\* The team keeps the book of rounds: a round is opened once, gets one result, is
\* opened again only when the backend wrote that result after a transient failure,
\* and what it computed and what was accepted is never taken back (store.py,
\* team_work_records; orchestrator.py; expert_recovery.py).
THEOREM TeamKeepsTheBook == Spec => WorkBookRefined
BY BookStarts, StepSimulates, BookInvariance, PTL DEF Spec, WorkBookRefined, Book!BookSpec
-----------------------------------------------------------------------------
(* Induction, from the fact that numbers are well ordered.                 *)

\* Of a set of numbers one is the least.
LEMMA LeastNat ==
  ASSUME NEW T \in SUBSET Nat, T # {}
  PROVE  \E m \in T : \A n \in T : m <= n
<1> DEFINE R == OpToRel(<, Nat)
<1>1. IsWellFoundedOn(R, Nat)
  BY NatLessThanWellFounded
<1>2. PICK m \in T : \A n \in T : <<n, m>> \notin R
  <2> HIDE DEF R
  <2> QED BY <1>1, WFMin
<1>3. \A n \in T : ~(n < m)
  BY <1>2 DEF OpToRel
<1> QED BY <1>3

\* With the first number and the successors of its members a set has all numbers.
LEMMA Inductive ==
  ASSUME NEW T, 0 \in T, \A n \in Nat : n \in T => n + 1 \in T
  PROVE  Nat \subseteq T
<1> SUFFICES ASSUME Nat \ T # {} PROVE FALSE
  OBVIOUS
<1>1. PICK m \in Nat \ T : \A n \in Nat \ T : m <= n
  BY LeastNat
<1>2. m # 0 /\ m - 1 \in Nat /\ m - 1 \in T
  BY <1>1
<1> QED BY <1>1, <1>2

-----------------------------------------------------------------------------
(* The order of a plan.                                                    *)

Ids(todos) == {todos[i].id : i \in DOMAIN todos}

\* The todos S and those they wait for.
Onward(todos, S) ==
    S \cup UNION {todos[i].depends : i \in {j \in DOMAIN todos : todos[j].id \in S}}

\* f goes onward from d.
Walks(todos, d, f) ==
    f = [n \in 0..Len(todos) |-> IF n = 0 THEN d ELSE Onward(todos, f[n - 1])]

LEMMA SomeWalk ==
  ASSUME NEW todos, NEW d, NEW m \in Nat
  PROVE  \E f : f = [n \in 0..m |-> IF n = 0 THEN d ELSE Onward(todos, f[n - 1])]
<1> DEFINE Upto(f, k) == f = [n \in 0..k |-> IF n = 0 THEN d ELSE Onward(todos, f[n - 1])]
           T == {k \in Nat : \E f : Upto(f, k)}
<1>1. \E f : Upto(f, 0)
  <2> DEFINE g == [n \in 0..0 |-> d]
  <2>1. Upto(g, 0)
    OBVIOUS
  <2> QED BY <2>1
<1>2. ASSUME NEW k \in Nat, NEW f, Upto(f, k) PROVE \E g : Upto(g, k + 1)
  <2> DEFINE g == [n \in 0..(k + 1) |-> IF n = k + 1 THEN Onward(todos, f[k]) ELSE f[n]]
             h == [n \in 0..(k + 1) |-> IF n = 0 THEN d ELSE Onward(todos, g[n - 1])]
  <2>1. \A n \in 0..k : f[n] = IF n = 0 THEN d ELSE Onward(todos, f[n - 1])
    <3> HIDE DEF g, h
    <3> QED BY <1>2
  <2>2. \A n \in 0..k : g[n] = f[n]
    OBVIOUS
  <2>3. g[k + 1] = Onward(todos, f[k]) /\ k + 1 \in 0..(k + 1)
    OBVIOUS
  <2>4. \A n \in 0..(k + 1) : g[n] = IF n = 0 THEN d ELSE Onward(todos, g[n - 1])
    <3> TAKE n \in 0..(k + 1)
    <3> HIDE DEF g
    <3>1. CASE n = k + 1
      <4>1. n - 1 = k /\ k \in 0..k /\ n # 0
        BY <3>1
      <4> QED BY <2>2, <2>3, <3>1, <4>1
    <3>2. CASE n # k + 1
      <4>1. n \in 0..k /\ (n # 0 => n - 1 \in 0..k)
        BY <3>2
      <4> QED BY <2>1, <2>2, <4>1
    <3> QED BY <3>1, <3>2
  <2>5. g = h
    <3>1. \A n \in 0..(k + 1) : g[n] = h[n]
      <4> HIDE DEF g
      <4> QED BY <2>4
    <3>2. g = [n \in 0..(k + 1) |-> g[n]] /\ h = [n \in 0..(k + 1) |-> h[n]]
      OBVIOUS
    <3> HIDE DEF g, h
    <3> QED BY <3>1, <3>2
  <2>6. Upto(g, k + 1)
    <3> HIDE DEF g
    <3> QED BY <2>5
  <2> QED BY <2>6
<1>3. 0 \in T /\ \A k \in Nat : k \in T => k + 1 \in T
  <2> HIDE DEF Upto
  <2> QED BY <1>1, <1>2
<1>4. Nat \subseteq T
  <2> HIDE DEF T
  <2> QED BY <1>3, Inductive
<1> QED BY <1>4

LEMMA ReachesWalks ==
  ASSUME NEW X, NEW todos \in Seq(X), NEW t
  PROVE  \E f : Walks(todos, t.depends, f) /\ Reaches(todos, t) = f[Len(todos)]
<1> DEFINE f == CHOOSE g : g = [n \in 0..Len(todos) |->
                                   IF n = 0 THEN t.depends ELSE Onward(todos, g[n - 1])]
<1>1. Len(todos) \in Nat
  OBVIOUS
<1>2. f = [n \in 0..Len(todos) |-> IF n = 0 THEN t.depends ELSE Onward(todos, f[n - 1])]
  BY <1>1, SomeWalk
<1>3. Reaches(todos, t) = f[Len(todos)]
  BY DEF Reaches, Onward
<1> HIDE DEF f
<1> QED BY <1>2, <1>3 DEF Walks

LEMMA WalkSteps ==
  ASSUME NEW X, NEW todos \in Seq(X), NEW d, NEW f, Walks(todos, d, f)
  PROVE  /\ f[0] = d
         /\ \A n \in Nat : n < Len(todos) => f[n + 1] = Onward(todos, f[n])
<1>1. Len(todos) \in Nat
  OBVIOUS
<1>2. \A n \in 0..Len(todos) : f[n] = IF n = 0 THEN d ELSE Onward(todos, f[n - 1])
  BY DEF Walks
<1>3. ASSUME NEW n \in Nat, n < Len(todos) PROVE f[n + 1] = Onward(todos, f[n])
  <2>1. n + 1 \in 0..Len(todos) /\ n + 1 # 0 /\ (n + 1) - 1 = n
    BY <1>1, <1>3
  <2> QED BY <1>2, <2>1
<1>4. f[0] = d
  BY <1>1, <1>2
<1> QED BY <1>3, <1>4

LEMMA OnwardGrows ==
  ASSUME NEW todos, NEW S, NEW U, S \subseteq U
  PROVE  S \subseteq Onward(todos, S) /\ Onward(todos, S) \subseteq Onward(todos, U)
BY DEF Onward

\* What is reached stays in every set that nothing leads out of.
LEMMA ReachesStays ==
  ASSUME NEW X, NEW todos \in Seq(X), NEW t, NEW S,
         t.depends \subseteq S, Onward(todos, S) \subseteq S
  PROVE  Reaches(todos, t) \subseteq S
<1>1. PICK f : Walks(todos, t.depends, f) /\ Reaches(todos, t) = f[Len(todos)]
  BY ReachesWalks
<1>2. /\ f[0] = t.depends
      /\ \A n \in Nat : n < Len(todos) => f[n + 1] = Onward(todos, f[n])
  BY <1>1, WalkSteps
<1> DEFINE T == {n \in Nat : n <= Len(todos) => f[n] \subseteq S}
<1>3. 0 \in T
  BY <1>2
<1>4. ASSUME NEW n \in Nat, n \in T PROVE n + 1 \in T
  <2> SUFFICES ASSUME n + 1 <= Len(todos) PROVE f[n + 1] \subseteq S
    OBVIOUS
  <2>1. Len(todos) \in Nat
    OBVIOUS
  <2>2. n < Len(todos) /\ f[n] \subseteq S
    BY <1>4, <2>1
  <2>3. Onward(todos, f[n]) \subseteq Onward(todos, S)
    BY <2>2, OnwardGrows
  <2> QED BY <1>2, <2>2, <2>3
<1>5. Nat \subseteq T
  <2> HIDE DEF T
  <2> QED BY <1>3, <1>4, Inductive
<1>6. Len(todos) \in T /\ Len(todos) \in Nat
  <2> HIDE DEF T
  <2> QED BY <1>5
<1> QED BY <1>1, <1>6

LEMMA FewIds ==
  ASSUME NEW X, NEW todos \in Seq(X)
  PROVE  IsFiniteSet(Ids(todos)) /\ Cardinality(Ids(todos)) <= Len(todos)
<1> DEFINE m == Len(todos)
           g == [i \in 1..m |-> todos[i].id]
<1>1. m \in Nat /\ DOMAIN todos = 1..m
  OBVIOUS
<1>2. IsFiniteSet(1..m) /\ Cardinality(1..m) = m
  <2>1. 1 \in Int /\ m \in Int /\ m - 1 + 1 = m /\ (1 > m => m = 0)
    BY <1>1
  <2> HIDE DEF m
  <2> QED BY <1>1, <2>1, FS_Interval
<1>3. g \in Surjection(1..m, Ids(todos))
  BY <1>1 DEF Surjection, Ids
<1> HIDE DEF g, m
<1>4. IsFiniteSet(Ids(todos)) /\ Cardinality(Ids(todos)) <= Cardinality(1..m)
  BY <1>2, <1>3, FS_Surjection
<1> QED BY <1>2, <1>4 DEF m

\* As many steps as there are todos are enough: with each a walk has one more, or
\* it is at its end.
LEMMA ReachesEnds ==
  ASSUME NEW X, NEW todos \in Seq(X), NEW t,
         t.depends \subseteq Ids(todos),
         \A i \in DOMAIN todos : todos[i].depends \subseteq Ids(todos)
  PROVE  /\ t.depends \subseteq Reaches(todos, t)
         /\ Onward(todos, Reaches(todos, t)) \subseteq Reaches(todos, t)
         /\ Reaches(todos, t) \subseteq Ids(todos)
<1> DEFINE all == Ids(todos)
           m == Len(todos)
<1>1. PICK f : Walks(todos, t.depends, f) /\ Reaches(todos, t) = f[m]
  BY ReachesWalks
<1>2. f[0] = t.depends /\ \A n \in Nat : n < m => f[n + 1] = Onward(todos, f[n])
  BY <1>1, WalkSteps
<1>3. m \in Nat /\ DOMAIN todos = 1..m
  OBVIOUS
<1>4. IsFiniteSet(all) /\ Cardinality(all) <= m /\ Cardinality(all) \in Nat
  BY <1>3, FewIds, FS_CardinalityType
<1>5. \A S \in SUBSET all : Onward(todos, S) \subseteq all
  BY DEF Onward
<1> DEFINE Far(n) == /\ f[n] \subseteq all /\ t.depends \subseteq f[n]
                     /\ \/ Onward(todos, f[n]) \subseteq f[n]
                        \/ n < Cardinality(f[n])
           T == {n \in Nat : n <= m => Far(n)}
<1>6. Far(0)
  <2>1. CASE t.depends = {}
    BY <1>2, <2>1 DEF Onward
  <2>2. CASE t.depends # {}
    <3>1. IsFiniteSet(t.depends)
      BY <1>4, FS_Subset
    <3>2. Cardinality(t.depends) \in Nat /\ Cardinality(t.depends) # 0
      BY <2>2, <3>1, FS_CardinalityType, FS_EmptySet
    <3> QED BY <1>2, <3>2
  <2> QED BY <2>1, <2>2
<1>7. ASSUME NEW n \in Nat, n < m, Far(n) PROVE Far(n + 1)
  <2>1. f[n + 1] = Onward(todos, f[n]) /\ f[n] \subseteq f[n + 1]
    BY <1>2, <1>7, OnwardGrows
  <2>2. f[n + 1] \subseteq all /\ t.depends \subseteq f[n + 1]
    <3> HIDE DEF all
    <3> QED BY <1>5, <1>7, <2>1
  <2>3. CASE Onward(todos, f[n]) \subseteq f[n]
    <3>1. f[n + 1] = f[n]
      BY <2>1, <2>3
    <3> QED BY <2>2, <2>3, <3>1
  <2>4. CASE ~(Onward(todos, f[n]) \subseteq f[n])
    <3>1. n < Cardinality(f[n])
      BY <1>7, <2>4
    <3>2. f[n] \subseteq f[n + 1] /\ f[n] # f[n + 1]
      BY <2>1, <2>4
    <3>3. IsFiniteSet(f[n + 1])
      BY <1>4, <2>2, FS_Subset
    <3>4. /\ Cardinality(f[n]) \in Nat /\ Cardinality(f[n + 1]) \in Nat
          /\ Cardinality(f[n]) < Cardinality(f[n + 1])
      BY <3>2, <3>3, FS_Subset, FS_CardinalityType
    <3>5. n + 1 < Cardinality(f[n + 1])
      BY <3>1, <3>4
    <3> QED BY <2>2, <3>5
  <2> QED BY <2>3, <2>4
<1>8. 0 \in T /\ \A n \in Nat : n \in T => n + 1 \in T
  <2>1. ASSUME NEW n \in Nat, n \in T, n + 1 <= m PROVE Far(n + 1)
    <3>1. n < m /\ Far(n)
      <4> HIDE DEF Far
      <4> QED BY <1>3, <2>1
    <3> HIDE DEF Far
    <3> QED BY <1>7, <3>1
  <2> HIDE DEF Far
  <2> QED BY <1>6, <2>1
<1>9. Nat \subseteq T
  <2> HIDE DEF T
  <2> QED BY <1>8, Inductive
<1>10. Far(m)
  <2>1. m \in T /\ m <= m
    <3> HIDE DEF T, m
    <3> QED BY <1>3, <1>9
  <2> HIDE DEF Far, m
  <2> QED BY <2>1
<1>11. Onward(todos, f[m]) \subseteq f[m]
  <2> SUFFICES ASSUME m < Cardinality(f[m]) PROVE FALSE
    BY <1>10
  <2>1. Cardinality(f[m]) <= Cardinality(all) /\ Cardinality(f[m]) \in Nat
    <3> HIDE DEF all, m
    <3> QED BY <1>4, <1>10, FS_Subset, FS_CardinalityType
  <2> HIDE DEF all, m
  <2> QED BY <1>3, <1>4, <2>1
<1> QED BY <1>1, <1>10, <1>11

\* A plan is in order when its todos can be done one after the other, each after
\* those it depends on, and only then (team/models.py, validate_todo_graph).
THEOREM OrderedPlansCanBeDone ==
  ASSUME NEW X, NEW todos \in Seq(X)
  PROVE  Ordered(todos) <=>
             /\ \A i, j \in DOMAIN todos : todos[i].id = todos[j].id => i = j
             /\ \A i \in DOMAIN todos : todos[i].depends \subseteq {todos[j].id : j \in DOMAIN todos}
             /\ \E place \in [DOMAIN todos -> Nat] : \A i, j \in DOMAIN todos :
                    todos[j].id \in todos[i].depends => place[j] < place[i]
<1> SUFFICES ASSUME \A i, j \in DOMAIN todos : todos[i].id = todos[j].id => i = j,
                    \A i \in DOMAIN todos : todos[i].depends \subseteq Ids(todos)
             PROVE  (\A i \in DOMAIN todos : todos[i].id \notin Reaches(todos, todos[i]))
                    <=> \E place \in [DOMAIN todos -> Nat] : \A i, j \in DOMAIN todos :
                            todos[j].id \in todos[i].depends => place[j] < place[i]
  BY DEF Ordered, Ids
<1>1. ASSUME \A i \in DOMAIN todos : todos[i].id \notin Reaches(todos, todos[i])
      PROVE  \E place \in [DOMAIN todos -> Nat] : \A i, j \in DOMAIN todos :
                 todos[j].id \in todos[i].depends => place[j] < place[i]
  <2> DEFINE place == [i \in DOMAIN todos |-> Cardinality(Reaches(todos, todos[i]))]
  <2>1. \A i \in DOMAIN todos :
            /\ todos[i].depends \subseteq Reaches(todos, todos[i])
            /\ Onward(todos, Reaches(todos, todos[i])) \subseteq Reaches(todos, todos[i])
            /\ Reaches(todos, todos[i]) \subseteq Ids(todos)
    BY ReachesEnds
  <2>2. IsFiniteSet(Ids(todos))
    BY FewIds
  <2>3. \A i \in DOMAIN todos : /\ IsFiniteSet(Reaches(todos, todos[i]))
                                /\ Cardinality(Reaches(todos, todos[i])) \in Nat
    BY <2>1, <2>2, FS_Subset, FS_CardinalityType
  <2>4. place \in [DOMAIN todos -> Nat]
    BY <2>3
  <2>5. ASSUME NEW i \in DOMAIN todos, NEW j \in DOMAIN todos, todos[j].id \in todos[i].depends
        PROVE  place[j] < place[i]
    <3> DEFINE Ri == Reaches(todos, todos[i])
               Rj == Reaches(todos, todos[j])
    <3>1. todos[j].id \in Ri /\ todos[j].id \notin Rj
      BY <1>1, <2>1, <2>5
    <3>2. Onward(todos, Ri) \subseteq Ri
      BY <2>1
    <3>3. todos[j].depends \subseteq Ri
      <4> HIDE DEF Ri
      <4> QED BY <3>1, <3>2 DEF Onward
    <3>4. Rj \subseteq Ri
      <4> HIDE DEF Ri
      <4> QED BY <3>2, <3>3, ReachesStays
    <3>5. Cardinality(Rj) < Cardinality(Ri)
      <4>1. IsFiniteSet(Ri) /\ Cardinality(Ri) \in Nat /\ Cardinality(Rj) \in Nat
        BY <2>3
      <4>2. Rj \in SUBSET Ri /\ Rj # Ri
        BY <3>1, <3>4
      <4> HIDE DEF Ri, Rj
      <4> QED BY <4>1, <4>2, FS_Subset
    <3> QED BY <3>5
  <2> HIDE DEF place
  <2> QED BY <2>4, <2>5
<1>2. ASSUME NEW place \in [DOMAIN todos -> Nat],
             \A i, j \in DOMAIN todos : todos[j].id \in todos[i].depends => place[j] < place[i],
             NEW i \in DOMAIN todos
      PROVE  todos[i].id \notin Reaches(todos, todos[i])
  <2> DEFINE S == {todos[j].id : j \in {k \in DOMAIN todos : place[k] < place[i]}}
  <2>1. todos[i].depends \subseteq S
    BY <1>2 DEF Ids
  <2>2. Onward(todos, S) \subseteq S
    <3> SUFFICES ASSUME NEW j \in DOMAIN todos, todos[j].id \in S, NEW x \in todos[j].depends
                 PROVE  x \in S
      BY DEF Onward
    <3>1. PICK k \in DOMAIN todos : place[k] < place[i] /\ todos[j].id = todos[k].id
      OBVIOUS
    <3>2. j = k
      BY <3>1
    <3>3. PICK l \in DOMAIN todos : x = todos[l].id
      BY DEF Ids
    <3>4. place[l] < place[j] /\ place[j] < place[i]
      BY <1>2, <3>1, <3>2, <3>3
    <3>5. place[l] \in Nat /\ place[j] \in Nat /\ place[i] \in Nat
      BY <1>2
    <3>6. place[l] < place[i]
      BY <3>4, <3>5
    <3> QED BY <3>3, <3>6
  <2>3. Reaches(todos, todos[i]) \subseteq S
    <3> HIDE DEF S
    <3> QED BY <2>1, <2>2, ReachesStays
  <2>4. todos[i].id \notin S
    <3>1. place[i] \in Nat
      BY <1>2
    <3> QED BY <3>1
  <2> QED BY <2>3, <2>4
<1> QED BY <1>1, <1>2

-----------------------------------------------------------------------------
(* What is published, and what is read.                                    *)

\* What is asked for is published up to the first that cannot be, which is left
\* with all that come after it; and nothing is, if one of them was not offered
\* (tools.py, OceanPublishOutputsTool).
THEOREM AcceptanceStopsAtTheFirst ==
  ASSUME NEW X, NEW paths \in Seq(X), NEW offered, NEW sound
  PROVE  LET done == Accepts(paths, offered, sound)
             all  == \A i \in DOMAIN paths : paths[i] \in offered
         IN /\ ~all => done = <<>>
            /\ Len(done) <= Len(paths)
            /\ \A i \in 1..Len(done) : done[i] = paths[i] /\ paths[i] \in sound
            /\ all /\ Len(done) < Len(paths) => paths[Len(done) + 1] \notin sound
<1> DEFINE m == Len(paths)
           front == {i \in DOMAIN paths : \A j \in 1..i : paths[j] \in sound}
           bad == {i \in 1..m : paths[i] \notin sound}
           all == \A i \in DOMAIN paths : paths[i] \in offered
<1>1. m \in Nat /\ DOMAIN paths = 1..m
  OBVIOUS
<1>2. ToSet(paths) \subseteq offered <=> all
  BY DEF ToSet
<1>3. PICK k \in 0..m : /\ front = 1..k
                        /\ k < m => paths[k + 1] \notin sound
  <2>1. CASE bad = {}
    <3>1. front = 1..m
      BY <1>1, <2>1
    <3> QED BY <1>1, <3>1
  <2>2. CASE bad # {}
    <3>1. PICK b \in bad : \A i \in bad : b <= i
      <4>1. bad \in SUBSET Nat
        OBVIOUS
      <4> HIDE DEF bad
      <4> QED BY <2>2, <4>1, LeastNat
    <3>2. b - 1 \in 0..m /\ b \in 1..m /\ paths[b] \notin sound
      BY <1>1
    <3>3. \A i \in 1..m : i < b => paths[i] \in sound
      BY <3>1
    <3>4. front = 1..(b - 1)
      BY <1>1, <3>2, <3>3
    <3> QED BY <3>2, <3>4
  <2> QED BY <2>1, <2>2
<1>4. Cardinality(front) = k
  <2>1. 1 \in Int /\ k \in Int /\ k - 1 + 1 = k /\ (1 > k => k = 0)
    BY <1>1
  <2>2. Cardinality(1..k) = k
    BY <2>1, FS_Interval
  <2> HIDE DEF front
  <2> QED BY <1>3, <2>2
<1>5. CASE ~all
  <2>1. Accepts(paths, offered, sound) = <<>>
    BY <1>2, <1>5 DEF Accepts
  <2> QED BY <1>1, <1>5, <2>1
<1>6. CASE all
  <2> DEFINE done == SubSeq(paths, 1, k)
  <2>1. Accepts(paths, offered, sound) = done
    BY <1>2, <1>4, <1>6 DEF Accepts
  <2>2. Len(done) = k /\ \A i \in 1..k : done[i] = paths[i]
    BY <1>1
  <2>3. \A i \in 1..k : paths[i] \in sound
    BY <1>3
  <2> HIDE DEF done
  <2> QED BY <1>1, <1>3, <1>6, <2>1, <2>2, <2>3
<1> QED BY <1>5, <1>6

\* Who reads a text chunk by chunk, each where the last one says that the next one
\* starts, reads every character once and comes to an end (expert_execution.py,
\* read_expert_file).
THEOREM ChunksAreTheText ==
  ASSUME NoName \notin Nat, NEW n \in Nat, NEW limit \in Nat \ {0},
         NEW at, at[0] = 0,
         \A k \in Nat : at[k + 1] = IF at[k] = NoName THEN NoName
                                    ELSE Chunk(n, at[k], limit).next
  PROVE  LET Reads(k, c) == at[k] # NoName /\ LET chunk == Chunk(n, at[k], limit)
                                              IN c \in chunk.from..(chunk.from + chunk.length - 1)
         IN /\ at[n + 1] = NoName
            /\ \A c \in 0..(n - 1) : \E k \in 0..n : /\ Reads(k, c)
                                                     /\ \A j \in Nat : Reads(j, c) => j = k
<1> DEFINE Reads(k, c) == at[k] # NoName /\ LET chunk == Chunk(n, at[k], limit)
                                            IN c \in chunk.from..(chunk.from + chunk.length - 1)
           upto(k) == IF at[k] = NoName THEN n ELSE at[k]
           Place(k) == at[k] = NoName \/ (at[k] \in Nat /\ k <= at[k] /\ (k # 0 => at[k] < n))
           Once(k) == /\ \A j \in 0..(k - 1), c \in Nat : Reads(j, c) => c < upto(k)
                      /\ \A c \in Nat : c < upto(k) =>
                             \E j \in 0..(k - 1) : /\ Reads(j, c)
                                                   /\ \A i \in 0..(k - 1) : Reads(i, c) => i = j
           T == {k \in Nat : Place(k) /\ Once(k)}
<1>1. Place(0) /\ Once(0)
  BY DEF Chunk
<1>2. ASSUME NEW k \in Nat, Place(k), Once(k) PROVE Place(k + 1) /\ Once(k + 1)
  <2>1. CASE at[k] = NoName
    <3>1. at[k + 1] = NoName /\ upto(k + 1) = upto(k)
      BY <2>1
    <3>2. \A c : ~Reads(k, c)
      BY <2>1
    <3>3. 0..((k + 1) - 1) = 0..(k - 1) \cup {k}
      OBVIOUS
    <3>4. Place(k + 1)
      BY <3>1
    <3> HIDE DEF Reads, upto
    <3>5. Once(k + 1)
      BY <1>2, <3>1, <3>2, <3>3
    <3> QED BY <3>4, <3>5
  <2>2. CASE at[k] # NoName
    <3>1. at[k] \in Nat /\ k <= at[k] /\ (k # 0 => at[k] < n) /\ upto(k) = at[k]
      BY <1>2, <2>2
    <3>2. at[k + 1] = IF n - at[k] <= limit \/ at[k] >= n THEN NoName ELSE at[k] + limit
      BY <2>2 DEF Chunk
    <3>3. /\ Place(k + 1) /\ upto(k + 1) \in Nat /\ upto(k) <= upto(k + 1)
          /\ \A c \in Nat : Reads(k, c) <=> upto(k) <= c /\ c < upto(k + 1)
      <4>1. CASE at[k] >= n
        <5>1. at[k + 1] = NoName /\ upto(k + 1) = n /\ at[k] = n
          BY <3>1, <3>2, <4>1
        <5>2. Chunk(n, at[k], limit).from = at[k] /\ Chunk(n, at[k], limit).length = 0
          BY <4>1 DEF Chunk
        <5> QED BY <3>1, <5>1, <5>2
      <4>2. CASE at[k] < n /\ n - at[k] <= limit
        <5>1. at[k + 1] = NoName /\ upto(k + 1) = n
          BY <3>2, <4>2
        <5>2. /\ Chunk(n, at[k], limit).from = at[k]
              /\ Chunk(n, at[k], limit).length = n - at[k]
          BY <3>1, <4>2 DEF Chunk
        <5> QED BY <2>2, <3>1, <4>2, <5>1, <5>2
      <4>3. CASE at[k] < n /\ ~(n - at[k] <= limit)
        <5>1. at[k + 1] = at[k] + limit /\ at[k + 1] \in Nat /\ at[k + 1] < n
          BY <3>1, <3>2, <4>3
        <5>2. upto(k + 1) = at[k] + limit
          BY <5>1
        <5>3. /\ Chunk(n, at[k], limit).from = at[k]
              /\ Chunk(n, at[k], limit).length = limit
          BY <3>1, <4>3 DEF Chunk
        <5> QED BY <2>2, <3>1, <5>1, <5>2, <5>3
      <4> QED BY <3>1, <4>1, <4>2, <4>3
    <3>4. 0..((k + 1) - 1) = 0..(k - 1) \cup {k} /\ k \notin 0..(k - 1)
      OBVIOUS
    <3>5. upto(k) \in Nat
      BY <3>1
    <3> HIDE DEF Reads, upto
    <3>6. ASSUME NEW j \in 0..((k + 1) - 1), NEW c \in Nat, Reads(j, c) PROVE c < upto(k + 1)
      <4>1. CASE j = k
        BY <3>3, <3>6, <4>1
      <4>2. CASE j # k
        <5>1. j \in 0..(k - 1)
          BY <3>4, <4>2
        <5>2. c < upto(k)
          BY <1>2, <3>6, <5>1
        <5> QED BY <3>3, <3>5, <5>2
      <4> QED BY <4>1, <4>2
    <3>7. ASSUME NEW c \in Nat, c < upto(k + 1)
          PROVE  \E j \in 0..((k + 1) - 1) : /\ Reads(j, c)
                                            /\ \A i \in 0..((k + 1) - 1) : Reads(i, c) => i = j
      <4>1. CASE c < upto(k)
        <5>1. ~Reads(k, c)
          BY <3>3, <3>5, <4>1
        <5>2. PICK j \in 0..(k - 1) : Reads(j, c) /\ \A i \in 0..(k - 1) : Reads(i, c) => i = j
          BY <1>2, <4>1
        <5> QED BY <3>4, <5>1, <5>2
      <4>2. CASE upto(k) <= c
        <5>1. Reads(k, c)
          BY <3>3, <3>7, <4>2
        <5>2. \A i \in 0..(k - 1) : ~Reads(i, c)
          BY <1>2, <3>5, <4>2
        <5> QED BY <3>4, <5>1, <5>2
      <4> QED BY <3>5, <4>1, <4>2
    <3> QED BY <3>3, <3>6, <3>7
  <2> QED BY <2>1, <2>2
<1>3. 0 \in T /\ \A k \in Nat : k \in T => k + 1 \in T
  <2> HIDE DEF Place, Once
  <2> QED BY <1>1, <1>2
<1>4. Nat \subseteq T
  <2> HIDE DEF T
  <2> QED BY <1>3, Inductive
<1>5. \A k \in Nat : Place(k) /\ Once(k)
  <2> HIDE DEF Place, Once
  <2> QED BY <1>4
<1>6. \A k \in Nat : k > n => at[k] = NoName
  <2> HIDE DEF Once
  <2> QED BY <1>5
<1>7. n + 1 \in Nat /\ n + 1 > n /\ (n + 1) - 1 = n
  OBVIOUS
<1>8. upto(n + 1) = n
  BY <1>6, <1>7
<1>9. \A j \in Nat : \A c : Reads(j, c) => j \in 0..n
  BY <1>6
<1>10. \A c \in 0..(n - 1) : \E k \in 0..n : Reads(k, c) /\ \A j \in Nat : Reads(j, c) => j = k
  <2> TAKE c \in 0..(n - 1)
  <2> HIDE DEF Reads, upto, Place
  <2>1. PICK k \in 0..n : Reads(k, c) /\ \A i \in 0..n : Reads(i, c) => i = k
    <3>1. Once(n + 1)
      <4> HIDE DEF Once
      <4> QED BY <1>5, <1>7
    <3>2. c \in Nat /\ c < upto(n + 1)
      BY <1>8
    <3> QED BY <1>7, <3>1, <3>2
  <2> QED BY <1>9, <2>1
<1> QED BY <1>6, <1>7, <1>10
=============================================================================
