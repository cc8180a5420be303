------------------------------ MODULE WorkPlan ------------------------------
(***************************************************************************)
(* What ocean_assign makes of a plan of the Coordinator: which of the      *)
(* dispatched todos open a new round of an Expert and which go on with an  *)
(* interrupted one, with which budget, sources and scope                   *)
(* (src/oceanx/backend/router.py, _execute_team_plan; tools.py and         *)
(* team/models.py for the form of a plan).  These are functions of the     *)
(* rows on record; TeamWork has the steps that follow.                     *)
(*                                                                         *)
(* An Expert is a profile and a key, NoKey for the default instance.      *)
(* Job keys, which the code hashes, are the Expert itself; rows of older   *)
(* releases have others.  Texts are left out, and an order has the scope   *)
(* its fields stand for.                                                   *)
(***************************************************************************)
EXTENDS Integers, Sequences, FiniteSets, SequencesExt

CONSTANTS
    NoKey,
    Discussions  \* the profiles of discussion partners

\* Each member of s once, where it first appears.
Distinct(s) == FoldLeft(LAMBDA seen, x : IF x \in ToSet(seen) THEN seen ELSE Append(seen, x),
                       <<>>, s)

-----------------------------------------------------------------------------
(* The form of a plan.  A todo: [id, expert, depends, review, tier, handles, *)
(* selects, continues, report, given]: the sources it names, whether it     *)
(* names any, whether it continues a report and which, and its scope.       *)

\* What is reached from t over the dependencies.
Reaches(todos, t) ==
    LET next(S) == S \cup UNION {todos[i].depends : i \in {j \in DOMAIN todos : todos[j].id \in S}}
        after[n \in 0..Len(todos)] == IF n = 0 THEN t.depends ELSE next(after[n - 1])
    IN after[Len(todos)]

\* validate_todo_graph.
Ordered(todos) ==
    /\ \A i, j \in DOMAIN todos : todos[i].id = todos[j].id => i = j
    /\ \A i \in DOMAIN todos :
           /\ todos[i].depends \subseteq {todos[j].id : j \in DOMAIN todos}
           /\ todos[i].id \notin Reaches(todos, todos[i])

\* OceanTodoInput: a review has a subject, and is made by a named Expert.
Reviewable(t) ==
    t.review => t.depends # {} /\ t.expert.key # NoKey /\ t.expert.profile \notin Discussions

\* The default instance may be spelled out.
Instance(t) == [t.expert EXCEPT !.key = IF @ = NoKey THEN "default" ELSE @]

WellFormed(todos, dispatch) ==
    /\ Len(todos) \in 1..6 /\ Cardinality(dispatch) \in 1..4
    /\ Ordered(todos) /\ \A i \in DOMAIN todos : Reviewable(todos[i])
    /\ dispatch \subseteq {todos[i].id : i \in DOMAIN todos}

OneForEach(wave) == \A i, j \in DOMAIN wave : Instance(wave[i]) = Instance(wave[j]) => i = j

-----------------------------------------------------------------------------
(* Budgets.                                                                *)

Resources == {"turns", "calls", "input", "output", "seconds"}

Limits ==
    [quick    |-> [turns |-> 24, calls |-> 12, input |-> 160000, output |-> 32000, seconds |-> 300],
     standard |-> [turns |-> 64, calls |-> 32, input |-> 320000, output |-> 64000, seconds |-> 600]]

\* Less is not worth another model call.
Floor == [turns |-> 1, calls |-> 1, input |-> 8000, output |-> 2000, seconds |-> 30]

\* _participant_work_budget: what the request allows, cut to the tier.  The other
\* Experts of the request do not count.
WorkBudget(budget, tier) ==
    [k \in Resources |->
        IF tier = "deep" \/ budget[k] <= Limits[tier][k] THEN budget[k] ELSE Limits[tier][k]]

NoBudget == [k \in Resources |-> 0]

\* _remaining_participant_work_budget, of one row or none.
Remaining(total, used) ==
    LET left == [k \in Resources |-> total[k] - used[k]]
    IN IF \E k \in Resources : left[k] < Floor[k] THEN NoBudget ELSE left

\* _team_work_token_usage: the results of the request.  A row whose round goes on
\* has none, and neither does what earlier tries of a row used.
TeamTokens(rows) ==
    FoldSeq(LAMBDA r, sum : sum + IF r.result THEN r.usage.input + r.usage.output ELSE 0, 0, rows)

-----------------------------------------------------------------------------
(* Sessions.  A row: [id, job, expert, todo, request, round, state, result, *)
(* origin, usage, scope, sources]; result tells whether it has one.        *)

\* _agent_job_records: the default instance also owns unnamed rows of its profile,
\* whatever their job key was.
JobRows(rows, expert) ==
    SelectSeq(rows, LAMBDA r : r.job = expert \/ (expert.key = NoKey /\ r.expert = expert))

\* The latest key is adopted, so that the session keeps its folder.
JobKey(rows, expert) ==
    LET mine == JobRows(rows, expert) IN IF mine = <<>> THEN expert ELSE Last(mine).job

HasActive(mine) == mine # <<>> /\ Last(mine).state \in {"queued", "running"}

Returned(mine) == SelectSeq(mine, LAMBDA r : r.result)

\* A round the backend had to end goes on when the same request asks for the same
\* todo again, says nothing of its own about a continuation, and has room left.
GoesOn(t, mine, request, budget) ==
    /\ mine # <<>> /\ ~t.continues
    /\ LET r == Last(mine) IN
       /\ r.request = request /\ r.todo = t.id
       /\ r.result /\ r.origin = "recovered"
       /\ Remaining(WorkBudget(budget, t.tier), r.usage) # NoBudget

\* The row an explicit continuation refers to: any returned one if it names none.
Continued(t, mine) ==
    SelectSeq(Returned(mine), LAMBDA r : t.report \in {NoKey, r.id})

-----------------------------------------------------------------------------
(* An order.                                                               *)

UnknownHandles(t, sources) == ToSet(t.handles) \ (1..Len(sources)) # {}

Sourceless(t) == t.expert.profile \in Discussions

\* All sources of the task unless some are selected.
Sources(t, sources) ==
    IF Sourceless(t) THEN <<>>
    ELSE IF t.handles = <<>> THEN sources
    ELSE Distinct([i \in DOMAIN t.handles |-> sources[t.handles[i]]])

\* The scientific scope of a continuation is the former one where the todo says
\* nothing: given is a partial function.
Scope(t, mine) ==
    IF t.continues /\ Returned(mine) # <<>>
    THEN [f \in DOMAIN Last(Continued(t, mine)).scope \cup DOMAIN t.given |->
             IF f \in DOMAIN t.given THEN t.given[f] ELSE Last(Continued(t, mine)).scope[f]]
    ELSE t.given

Order(t, rows, request, operation, sources, budget) ==
    LET mine == JobRows(rows, t.expert)
        row  == Last(mine)
    IN IF GoesOn(t, mine, request, budget)
       THEN [id |-> row.id, job |-> row.job, todo |-> t.id, round |-> row.round,
             sources |-> row.sources, scope |-> row.scope, mode |-> "same",
             budget |-> Remaining(WorkBudget(budget, t.tier), row.usage)]
       ELSE [id |-> <<request, JobKey(rows, t.expert), operation>>,
             job |-> JobKey(rows, t.expert), todo |-> t.id,
             round |-> Len(Returned(mine)) + 1,
             sources |-> IF t.continues /\ Returned(mine) # <<>> /\ ~t.selects
                         THEN Last(Continued(t, mine)).sources ELSE Sources(t, sources),
             scope |-> Scope(t, mine),
             mode |-> IF Returned(mine) = <<>> THEN "new" ELSE "continue",
             budget |-> WorkBudget(budget, t.tier)]

-----------------------------------------------------------------------------
(* A wave.                                                                 *)

\* From here on the tokens of the team are kept for the Coordinator's answer.
Cutoff(team, reserve) == IF team > reserve THEN team - reserve ELSE 0

\* Why a wave is refused; nothing has been written by then.
Refusals(wave, rows, request, sources, budget, team, reserve) ==
    LET mine(t) == JobRows(rows, t.expert)
        new     == {i \in DOMAIN wave : ~GoesOn(wave[i], mine(wave[i]), request, budget)}
        own     == SelectSeq(rows, LAMBDA r : r.request = request)
    IN  {why \in {"one todo for each Expert"} : ~OneForEach(wave)}
        \cup {why \in {"no sources for a discussion"} : \E i \in DOMAIN wave :
                  Sourceless(wave[i]) /\ wave[i].handles # <<>>}
        \cup {why \in {"unknown source"} : \E i \in DOMAIN wave :
                  ~Sourceless(wave[i]) /\ UnknownHandles(wave[i], sources)}
        \cup {why \in {"active round"} : \E i \in DOMAIN wave : HasActive(mine(wave[i]))}
        \cup {why \in {"reserved for the answer"} :
                  new # {} /\ TeamTokens(own) >= Cutoff(team, reserve)}
        \cup {why \in {"no capacity"} : \E i \in new :
                  Remaining(WorkBudget(budget, wave[i].tier), NoBudget) = NoBudget}
        \cup {why \in {"unknown report"} : \E i \in new :
                  /\ wave[i].continues /\ Returned(mine(wave[i])) # <<>>
                  /\ Continued(wave[i], mine(wave[i])) = <<>>}

WorkOrders(wave, rows, request, operation, sources, budget) ==
    [i \in DOMAIN wave |-> Order(wave[i], rows, request, operation, sources, budget)]
=============================================================================
