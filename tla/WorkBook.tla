------------------------------ MODULE WorkBook ------------------------------
(***************************************************************************)
(* What the Expert team promises about the rounds of work it records       *)
(* (src/oceanx/backend/store.py, team_work_records): a round is opened     *)
(* once, gets one result, and is opened again only when the backend itself *)
(* had to write that result after a transient failure.  What a round has   *)
(* computed and what was accepted of it is never taken back.               *)
(***************************************************************************)
CONSTANTS Orders, Executions

VARIABLES
    status,    \* "unassigned", "open", "interrupted" or "final"
    cited,     \* the executions the result of each round cites
    computed,  \* successful executions noted for each round
    accepted   \* published executions of each round

bookVars == <<status, cited, computed, accepted>>

BookInit ==
    /\ status = [w \in Orders |-> "unassigned"]
    /\ cited = [w \in Orders |-> {}]
    /\ computed = [w \in Orders |-> {}]
    /\ accepted = [w \in Orders |-> {}]

\* A round starts from what earlier rounds of its Expert have left.
Opens(w) ==
    /\ status[w] \in {"unassigned", "interrupted"}
    /\ status' = [status EXCEPT ![w] = "open"]
    /\ \E known, results \in SUBSET Executions :
           /\ computed' = [computed EXCEPT ![w] = @ \cup known]
           /\ accepted' = [accepted EXCEPT ![w] = @ \cup results]
    /\ cited' = cited

\* The result of an interrupted round is withdrawn before it is worked on.
Resumes(w) ==
    /\ status[w] = "open"
    /\ cited' = [cited EXCEPT ![w] = {}]
    /\ UNCHANGED <<status, computed, accepted>>

Computes(w, e) ==
    /\ computed' = [computed EXCEPT ![w] = @ \cup {e}]
    /\ UNCHANGED <<status, cited, accepted>>

Accepts(w, e) ==
    /\ accepted' = [accepted EXCEPT ![w] = @ \cup {e}]
    /\ UNCHANGED <<status, cited, computed>>

\* Some open rounds get their results, together.
Settles(W) ==
    /\ W # {} /\ \A w \in W : status[w] = "open"
    /\ \E kind \in [W -> {"interrupted", "final"}], cites \in [W -> SUBSET Executions] :
           /\ status' = [w \in Orders |-> IF w \in W THEN kind[w] ELSE status[w]]
           /\ cited' = [w \in Orders |-> IF w \in W THEN cites[w] ELSE cited[w]]
    /\ UNCHANGED <<computed, accepted>>

BookNext ==
    \/ \E w \in Orders : Opens(w) \/ Resumes(w)
    \/ \E w \in Orders, e \in Executions : Computes(w, e) \/ Accepts(w, e)
    \/ \E W \in SUBSET Orders : Settles(W)

BookSpec == BookInit /\ [][BookNext]_bookVars
=============================================================================
