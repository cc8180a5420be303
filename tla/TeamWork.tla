------------------------------ MODULE TeamWork ------------------------------
(***************************************************************************)
(* Delegating to Experts: src/oceanx/team/orchestrator.py as ocean_assign  *)
(* (router.py, _execute_team_plan) drives it, the code executions an       *)
(* Expert starts (expert_execution.py), the publication of their outputs   *)
(* (tools.py, task_results.py) and the reconciliation after a restart      *)
(* (expert_recovery.py).                                                   *)
(*                                                                         *)
(* A request awaits one delegate coroutine per dispatched order; a         *)
(* delegate holds the lock of its Expert session, starts a participant     *)
(* task and awaits it.  Two coroutines interleave where they await; what   *)
(* runs without an await is one action.                                    *)
(*                                                                         *)
(* Abstractions: the requests belong to one task, which runs them one      *)
(* after the other; budgets, revision conflicts and the limit on Experts   *)
(* of a request are a refusal at any time; an order has one delegate at a  *)
(* time (a second one would wait for the lock and return the same result); *)
(* a Stop does not arrive while the request settles its orders.            *)
(***************************************************************************)
EXTENDS ExpertWorkStore, ExpertOutputs

CONSTANTS
    MaxRetries,  \* settings.max_transient_retries
    MaxStops,    \* bound: cancellations of one request
    MaxRuns      \* bound: number of backend processes

ASSUME BoundAssumption == MaxRetries \in Nat /\ MaxStops \in Nat /\ MaxRuns \in Nat

VARIABLES
    pc,          \* where the delegate of each order is
    tries,       \* its retry_index, 0 when it is over
    part,        \* the participant task of each order
    lock,        \* holder of each session's lock
    phase,       \* where each request's coroutine is
    awaited,     \* orders whose delegates (or participants) it awaits
    stops,       \* cancellations of each request that is not closed
    stage,       \* "up", "down", or the step of the recovery
    runs         \* processes started

delegates == <<pc, tries, part, lock>>
turns     == <<phase, awaited, stops>>
process   == <<stage, runs>>
vars      == <<durable, delegates, turns, process>>

Over == {"idle", "returned", "raised"}       \* no delegate runs

Init ==
    /\ StoreInit
    /\ pc = [w \in Orders |-> "idle"]
    /\ tries = [w \in Orders |-> 0]
    /\ part = [w \in Orders |-> "none"]
    /\ lock = [s \in Sessions |-> Nobody]
    /\ phase = [r \in Requests |-> "new"]
    /\ awaited = [r \in Requests |-> {}]
    /\ stops = [r \in Requests |-> 0]
    /\ stage = "up" /\ runs = 1

OrdersOf(r) == {w \in Orders : RequestOf[w] = r}
Busy(w)     == \E e \in Executions : execution[e].owner = w /\ execution[e].state = "running"

\* The delegates of W are over: they leave their locks.
Releases(W) ==
    /\ lock' = [s \in Sessions |-> IF lock[s] \in W THEN Nobody ELSE lock[s]]
    /\ tries' = [w \in Orders |-> IF w \in W THEN 0 ELSE tries[w]]

\* The request no longer awaits anything.
Forgets(r) ==
    /\ awaited' = [awaited EXCEPT ![r] = {}]
    /\ pc' = [w \in Orders |-> IF w \in awaited[r] /\ pc[w] \in Over THEN "idle" ELSE pc[w]]

-----------------------------------------------------------------------------
(* The request.                                                            *)

Opens(r) ==
    /\ stage = "up" /\ phase[r] = "new"
    /\ \A q \in Requests : phase[q] \in {"new", "closed"}
    /\ phase' = [phase EXCEPT ![r] = "idle"]
    /\ UNCHANGED <<durable, delegates, awaited, stops, process>>

\* A new round of a session without an active one, or the continuation of a
\* round of this request that the backend had to close.
Dispatchable(r, w) ==
    /\ RequestOf[w] = r /\ pc[w] \in Over
    /\ \A v \in SessionRows(w) : row[v].state \notin Active
    /\ \/ row[w].state = "none" /\ Round[w] = Cardinality(SessionRows(w)) + 1
       \/ /\ row[w].state = "settled" /\ row[w].result.origin = "recovered"
          /\ \A v \in SessionRows(w) : Round[v] <= Round[w]

\* ocean_assign: at most one order per Expert session in a wave.
Dispatches(r, W) ==
    /\ phase[r] = "idle" /\ W # {}
    /\ \A w \in W : Dispatchable(r, w)
    /\ \A v, w \in W : v # w => SessionOf[v] # SessionOf[w]
    /\ phase' = [phase EXCEPT ![r] = "assigning"]
    /\ awaited' = [awaited EXCEPT ![r] = W]
    /\ pc' = [w \in Orders |-> IF w \in W THEN "waiting" ELSE pc[w]]
    /\ UNCHANGED <<durable, tries, part, lock, stops, process>>

\* gather returns when all have returned, and raises with the first that
\* raises: the other delegates go on.
AssignmentEnds(r) ==
    /\ phase[r] = "assigning"
    /\ \/ \A w \in awaited[r] : pc[w] = "returned"
       \/ \E w \in awaited[r] : pc[w] = "raised"
    /\ phase' = [phase EXCEPT ![r] = "idle"]
    /\ Forgets(r)
    /\ UNCHANGED <<durable, tries, part, lock, stops, process>>

\* The task of the request is cancelled, and gather cancels every delegate it
\* awaits: one that awaits its participant cancels it and shields the wait.
Stops(r) ==
    LET live == {w \in awaited[r] : pc[w] \notin Over}
        shielded == {w \in live : pc[w] = "running"}
    IN /\ phase[r] \in {"idle", "assigning"} /\ stops[r] < MaxStops
       /\ stops' = [stops EXCEPT ![r] = @ + 1]
       /\ phase' = [phase EXCEPT ![r] = "unwinding"]
       /\ pc' = [w \in Orders |-> IF w \in shielded THEN "cancelling"
                                  ELSE IF w \in live THEN "raised" ELSE pc[w]]
       /\ part' = [w \in Orders |-> IF w \in shielded THEN "stopping" ELSE part[w]]
       /\ Releases(live \ shielded)
       /\ UNCHANGED <<durable, awaited, process>>

\* A second cancellation ends the shielded wait, not the participant.
StopsAgain(r) ==
    LET left == {w \in awaited[r] : pc[w] = "cancelling"}
    IN /\ phase[r] = "unwinding" /\ left # {} /\ stops[r] < MaxStops
       /\ stops' = [stops EXCEPT ![r] = @ + 1]
       /\ pc' = [w \in Orders |-> IF w \in left THEN "raised" ELSE pc[w]]
       /\ Releases(left)
       /\ UNCHANGED <<durable, part, phase, awaited, process>>

\* settle_request cancels the participants that still have a binding and awaits
\* them.  A request that ends settles its orders before its terminal and again,
\* as one that was stopped, when it closes.
Settles(r) ==
    LET left == {w \in OrdersOf(r) : pc[w] \in {"running", "cancelling"}}
    IN /\ \/ phase[r] = "idle" /\ phase' = [phase EXCEPT ![r] = "settling"]
          \/ /\ phase[r] = "unwinding" /\ \A w \in awaited[r] : pc[w] \in Over
             /\ phase' = [phase EXCEPT ![r] = "closing"]
          \/ phase[r] = "settled" /\ phase' = [phase EXCEPT ![r] = "closing"]
       /\ awaited' = [awaited EXCEPT ![r] = left]
       /\ pc' = [w \in Orders |-> IF w \in awaited[r] \ left THEN "idle" ELSE pc[w]]
       /\ part' = [w \in Orders |-> IF w \in left THEN "stopping" ELSE part[w]]
       /\ UNCHANGED <<durable, tries, lock, stops, process>>

\* Mutant of SettledRows: only those whose participant was awaited.
AwaitedRows(r) ==
    [w \in Orders |-> IF w \in awaited[r] THEN Salvaged(w, "cancelled") ELSE row[w]]

\* Rows that are still active get a result from what they saved.
SettledRows(r) ==
    [w \in Orders |-> IF w \in OrdersOf(r) THEN Salvaged(w, "cancelled") ELSE row[w]]

Settled(r) ==
    /\ \A w \in awaited[r] : part[w] = "none"
    /\ \/ phase[r] = "settling" /\ phase' = [phase EXCEPT ![r] = "settled"] /\ UNCHANGED stops
       \/ /\ phase[r] = "closing" /\ phase' = [phase EXCEPT ![r] = "closed"]
          /\ stops' = [stops EXCEPT ![r] = 0]
    /\ row' = SettledRows(r)
    /\ Forgets(r)
    /\ UNCHANGED <<execution, published, tries, part, lock, process>>

-----------------------------------------------------------------------------
(* A delegate.                                                             *)

\* How it ends matters to the request that awaits it.
Leaves(w, how) ==
    /\ pc' = [pc EXCEPT ![w] = IF w \in awaited[RequestOf[w]] THEN how ELSE "idle"]
    /\ Releases({w})

\* It keeps the lock while it waits for another try.
BacksOff(w) ==
    /\ pc' = [pc EXCEPT ![w] = "backoff"]
    /\ tries' = [tries EXCEPT ![w] = @ + 1]
    /\ UNCHANGED lock

\* Mutant of Enters: without the lock.
EntersUnlocked(w) == pc[w] \in {"backoff", "waiting"}

\* The lock is taken, or the delay before another try is over.
Enters(w) ==
    pc[w] = "backoff" \/ (pc[w] = "waiting" /\ lock[SessionOf[w]] = Nobody)

\* _delegate_once up to its first await: a new row, or one taken up again.  A
\* domain Expert first gets its sources; the discussion partner starts at once.
Prepares(w) ==
    /\ Enters(w)
    /\ row[w].state = "none" \/ CanResume(w)
    /\ row' = [row EXCEPT ![w] =
           IF w \notin Experts THEN MarkedRunning(w)
           ELSE IF @.state = "none" THEN Created(w) ELSE Resumed(w)]
    /\ pc' = [pc EXCEPT ![w] = IF w \in Experts THEN "preparing" ELSE "running"]
    /\ part' = [part EXCEPT ![w] = IF w \in Experts THEN @ ELSE "active"]
    /\ lock' = [lock EXCEPT ![SessionOf[w]] = w]
    /\ UNCHANGED <<execution, published, tries, turns, process>>

\* A settled row that may not be resumed is the answer.
ReturnsAtOnce(w) ==
    /\ Enters(w)
    /\ row[w].state = "settled" /\ ~CanResume(w)
    /\ Leaves(w, "returned")
    /\ UNCHANGED <<durable, part, turns, process>>

\* The limit on Experts is reached, or the workspace revision has moved on.
Refused(w) ==
    /\ Enters(w)
    /\ row[w].state = "none"
    /\ Leaves(w, "raised")
    /\ UNCHANGED <<durable, part, turns, process>>

SourcesUnavailable(w) ==
    /\ pc[w] = "preparing"
    /\ Leaves(w, IF row[w].state \in Active THEN "returned" ELSE "raised")
    /\ row' = [row EXCEPT ![w] = Completed(w, [NoResult EXCEPT !.failure = "other"])]
    /\ UNCHANGED <<execution, published, part, turns, process>>

\* mark_team_work_running refuses a row that was settled meanwhile.
StartsParticipant(w) ==
    /\ pc[w] = "preparing"
    /\ \/ /\ row[w].state \in Active
          /\ row' = [row EXCEPT ![w] = MarkedRunning(w)]
          /\ pc' = [pc EXCEPT ![w] = "running"]
          /\ part' = [part EXCEPT ![w] = "active"]
          /\ UNCHANGED <<tries, lock>>
       \/ /\ row[w].state \notin Active
          /\ Leaves(w, "raised")
          /\ UNCHANGED <<row, part>>
    /\ UNCHANGED <<execution, published, turns, process>>

\* The wall-time limit cancels what the participant is doing.
TimesOut(w) ==
    /\ part[w] = "active"
    /\ part' = [part EXCEPT ![w] = "timing"]
    /\ UNCHANGED <<durable, pc, tries, lock, turns, process>>

\* _terminal_result: every success of the session, and the candidates that are
\* neither saved again later nor hidden by an accepted file of their name.
Candidates(w) ==
    Delivered({e \in SessionExecutions(w) : execution[e].declared}, row[w].bound, FileOf)

Terminal(w, origin, failure) ==
    [origin |-> origin, failure |-> failure, outputs |-> Candidates(w),
     evidence |-> Candidates(w)
                  \cup {e \in SessionExecutions(w) : execution[e].state = "succeeded"}]

\* The delegate stores the result; after a transient failure it tries again.
Delivers(w, result) ==
    /\ row' = [row EXCEPT ![w] = Completed(w, result)]
    /\ IF pc[w] = "running" /\ row[w].state \in Active
          /\ result.failure = "transient" /\ tries[w] < MaxRetries
       THEN BacksOff(w)
       ELSE Leaves(w, IF pc[w] = "running" /\ row[w].state \in Active
                      THEN "returned" ELSE "raised")

\* Mutant of Ends: the program it runs is left alone.
EndsAtOnce(w) == part' = [part EXCEPT ![w] = "none"]

\* The participant task ends, with nothing left running.
Ends(w) == ~Busy(w) /\ part' = [part EXCEPT ![w] = "none"]

ParticipantEnds(w) ==
    /\ Ends(w)
    /\ \/ part[w] = "active" /\ \/ Delivers(w, Terminal(w, "agent", "none"))
                                \/ Delivers(w, Terminal(w, "recovered", "other"))
       \/ part[w] = "timing" /\ Delivers(w, Terminal(w, "recovered", "transient"))
       \/ /\ part[w] = "stopping" /\ pc[w] \in {"running", "cancelling"}
          /\ Delivers(w, Terminal(w, "recovered", "cancelled"))
    /\ UNCHANGED <<execution, published, turns, process>>

\* The cancellation hits the cleanup, or nobody waits any more: no result.
ParticipantVanishes(w) ==
    /\ Ends(w)
    /\ part[w] = "stopping"
    /\ IF pc[w] \in {"running", "cancelling"} THEN Leaves(w, "raised")
       ELSE UNCHANGED <<pc, tries, lock>>
    /\ UNCHANGED <<durable, turns, process>>

-----------------------------------------------------------------------------
(* Code executions.  The calls of one participant run next to each other.  *)

ExecutionStarts(w, e) ==
    /\ part[w] = "active"
    /\ StartExecution(w, e)
    /\ UNCHANGED <<row, published, delegates, turns, process>>

\* Manifest and row are written without an await in between.
ExecutionReturns(e) ==
    /\ execution[e].state = "running" /\ part[execution[e].owner] = "active"
    /\ \E state \in {"succeeded", "failed"}, declares \in BOOLEAN :
           FinishExecution(e, state, declares)
    /\ UNCHANGED <<published, delegates, turns, process>>

ExecutionCancelled(e) ==
    /\ execution[e].state = "running" /\ part[execution[e].owner] \in {"timing", "stopping"}
    /\ FinishExecution(e, "cancelled", FALSE)
    /\ UNCHANGED <<published, delegates, turns, process>>

-----------------------------------------------------------------------------
(* Publication.  The Coordinator accepts a candidate of the last result    *)
(* that offers its file: the task result is written and bound to the row   *)
(* without an await in between.                                            *)

Offers(w, e) == e \in row[w].result.outputs \ row[w].bound

Acceptable(w, e) ==
    /\ \E r \in Requests : phase[r] \in {"idle", "assigning"}
    /\ Offers(w, e) /\ execution[e].declared
    /\ \A v \in SessionRows(w), f \in Executions :
           Offers(v, f) /\ FileOf[f] = FileOf[e] => Round[v] <= Round[w]

\* A result that exists already is found by its materialization key.
Materialized(w, e) == published' = [published EXCEPT ![e] = IF @ = Nobody THEN w ELSE @]

Publishes(w, e) ==
    /\ stage = "up" /\ Acceptable(w, e) /\ Materialized(w, e)
    /\ row' = [row EXCEPT ![w] = Bound(w, e)]
    /\ UNCHANGED <<execution, delegates, turns, process>>

-----------------------------------------------------------------------------
(* The process.                                                            *)

Dies ==
    /\ stage # "down" /\ runs < MaxRuns
    /\ stage' = "down"
    /\ pc' = [w \in Orders |-> "idle"]
    /\ tries' = [w \in Orders |-> 0]
    /\ part' = [w \in Orders |-> "none"]
    /\ lock' = [s \in Sessions |-> Nobody]
    /\ phase' = [r \in Requests |-> IF phase[r] = "new" THEN "new" ELSE "closed"]
    /\ awaited' = [r \in Requests |-> {}]
    /\ stops' = [r \in Requests |-> 0]
    /\ UNCHANGED <<row, runs>>

Crash == Dies /\ UNCHANGED <<execution, published>>

\* The process dies between a task result and its binding.
CrashAfterResult(w, e) ==
    /\ Dies /\ Acceptable(w, e) /\ Materialized(w, e)
    /\ UNCHANGED execution

\* The process dies between the manifest of an execution and its row.
CrashAfterManifest(e) ==
    /\ Dies
    /\ execution[e].state = "running" /\ part[execution[e].owner] = "active"
    /\ execution' = [execution EXCEPT ![e].manifest = TRUE]
    /\ UNCHANGED published

Restart ==
    /\ stage = "down"
    /\ stage' = "manifests" /\ runs' = runs + 1
    /\ UNCHANGED <<durable, delegates, turns>>

\* What the manifest proves is settled; its discovered_results are not read.
SettlesManifest(e) ==
    /\ stage = "manifests" /\ execution[e].manifest
    /\ FinishExecution(e, "succeeded", FALSE)
    /\ UNCHANGED <<published, delegates, turns, process>>

FailsRunning ==
    /\ stage = "manifests"
    /\ \A e \in Executions : execution[e].state = "running" => ~execution[e].manifest
    /\ execution' = [e \in Executions |->
           [execution[e] EXCEPT !.state = IF @ = "running" THEN "failed" ELSE @]]
    /\ stage' = "bindings"
    /\ UNCHANGED <<row, published, delegates, turns, runs>>

Unbound(w, e) == row[w].state \in Active /\ published[e] = w /\ e \notin row[w].bound

\* _restore_result_bindings looks at the active rows only.
RestoresBinding(w, e) ==
    /\ stage = "bindings" /\ Unbound(w, e)
    /\ row' = [row EXCEPT ![w] = Bound(w, e)]
    /\ UNCHANGED <<execution, published, delegates, turns, process>>

\* interrupt_active_team_work.
Interrupts ==
    /\ stage = "bindings"
    /\ \A w \in Orders, e \in Executions : ~Unbound(w, e)
    /\ row' = [w \in Orders |-> Salvaged(w, "transient")]
    /\ stage' = "up"
    /\ UNCHANGED <<execution, published, delegates, turns, runs>>

-----------------------------------------------------------------------------
RequestStep(r) == AssignmentEnds(r) \/ Settles(r) \/ Settled(r)

DelegateStep(w) ==
    \/ Prepares(w) \/ ReturnsAtOnce(w) \/ Refused(w)
    \/ SourcesUnavailable(w) \/ StartsParticipant(w)
    \/ TimesOut(w) \/ ParticipantEnds(w) \/ ParticipantVanishes(w)

ExecutionStep(e) == ExecutionReturns(e) \/ ExecutionCancelled(e)

RecoveryStep ==
    \/ Restart \/ FailsRunning \/ Interrupts
    \/ \E e \in Executions : SettlesManifest(e)
    \/ \E w \in Orders, e \in Executions : RestoresBinding(w, e)

Next ==
    \/ \E r \in Requests : Opens(r) \/ Stops(r) \/ StopsAgain(r) \/ RequestStep(r)
    \/ \E r \in Requests, W \in SUBSET Orders : Dispatches(r, W)
    \/ \E w \in Orders : DelegateStep(w)
    \/ \E w \in Orders, e \in Executions :
           ExecutionStarts(w, e) \/ Publishes(w, e) \/ CrashAfterResult(w, e)
    \/ \E e \in Executions : ExecutionStep(e) \/ CrashAfterManifest(e)
    \/ Crash \/ RecoveryStep

\* Coroutines go on, participants have a wall-time limit and executions theirs,
\* and the desktop starts the backend again.
Fairness ==
    /\ \A r \in Requests : WF_vars(RequestStep(r))
    /\ \A w \in Orders : WF_vars(DelegateStep(w))
    /\ \A e \in Executions : WF_vars(ExecutionStep(e))
    /\ WF_vars(RecoveryStep)

Spec     == Init /\ [][Next]_vars
FairSpec == Spec /\ Fairness

-----------------------------------------------------------------------------
(* Properties.                                                             *)

TypeOK ==
    /\ StoreTypeOK
    /\ pc \in [Orders -> Over \cup {"waiting", "preparing", "running", "cancelling", "backoff"}]
    /\ tries \in [Orders -> Nat]
    /\ part \in [Orders -> {"none", "active", "timing", "stopping"}]
    /\ lock \in [Sessions -> Orders \cup {Nobody}]
    /\ phase \in [Requests -> {"new", "idle", "assigning", "unwinding", "settling", "settled",
                               "closing", "closed"}]
    /\ awaited \in [Requests -> SUBSET Orders]
    /\ stops \in [Requests -> Nat]
    /\ stage \in {"up", "down", "manifests", "bindings"} /\ runs \in Nat

\* Two rounds of one Expert never work at once: at most one participant of a
\* session has not been told to stop (delegate, the lock of the session).
OneActivePerSession ==
    \A v, w \in Orders :
        /\ SessionOf[v] = SessionOf[w]
        /\ part[v] \in {"active", "timing"} /\ part[w] \in {"active", "timing"}
        => v = w

\* While the backend is up a running execution has the participant that waits
\* for it: no program runs on that nobody will settle.
NoExecutionOutlivesItsExpert ==
    \A e \in Executions : stage = "up" /\ execution[e].state = "running"
        => part[execution[e].owner] # "none"

\* A result that was not cut short by a cancellation cites every execution of
\* its order that succeeded, also one that only its manifest proves.
EvidenceKept ==
    \A w \in Orders :
        /\ row[w].state = "settled" /\ row[w].result.origin # "none"
        /\ row[w].result.failure # "cancelled"
        => \A e \in Executions :
               execution[e].owner = w /\ execution[e].state = "succeeded"
               => e \in row[w].result.evidence

\* A round that is active after its request has closed has a delegate that will
\* settle it; nothing else stays queued or running.
LeftoverSettled ==
    \A w \in Orders :
        /\ stage = "up" /\ phase[RequestOf[w]] = "closed" /\ row[w].state \in Active
        => pc[w] \notin Over

\* Every round gets a result, through failures, cancellations and restarts: again and
\* again none is open, and a round that is not open any more has its result.
EveryOrderSettles == []<>(\A w \in Orders : row[w].state \notin Active)

\* What the book of rounds shows of a row.
Shown(w) ==
    IF row[w].state = "none" THEN "unassigned"
    ELSE IF row[w].state \in Active THEN "open"
    ELSE IF CanResume(w) THEN "interrupted" ELSE "final"

Book == INSTANCE WorkBook WITH
    status   <- [w \in Orders |-> Shown(w)],
    cited    <- [w \in Orders |-> row[w].result.evidence],
    computed <- [w \in Orders |-> row[w].succeeded],
    accepted <- [w \in Orders |-> row[w].bound]

\* A round has one result, which is final unless the backend wrote it after a
\* transient failure; evidence and acceptances are never taken back.
WorkBookRefined == Book!BookSpec

=============================================================================
