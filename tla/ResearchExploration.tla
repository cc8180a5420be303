-------------------------- MODULE ResearchExploration -----------------------
(***************************************************************************)
(* The exploration tree of a research task (src/oceanx/exploration.py):    *)
(* hypotheses, tests, the budget of Expert rounds, and the decision that   *)
(* stops the question.  The Coordinator changes it with ocean_exploration, *)
(* ocean_assign resumes it and reserves a wave of tests (router.py), and   *)
(* Experts record facts of their own while they work.  Each call is one    *)
(* transaction; the calls of Coordinator, router and Experts interleave.   *)
(*                                                                         *)
(* Abstractions: what a test is about is fixed with its identity; of the   *)
(* revision only matters whether the Coordinator has read the latest; the  *)
(* texts of claims, summaries and reflections, the order of               *)
(* recommendations and trees of the first protocol version are left out.   *)
(***************************************************************************)
EXTENDS Naturals, FiniteSets

CONSTANTS
    Nodes,         \* hypotheses under the root
    Tests,         \* test identities; an Expert's local name is scoped to its order
    Orders,        \* work orders of Experts
    Results,       \* what a test may show
    Budgets,       \* execution budgets that may be asked for
    DefaultBudget, \* 20
    TargetsOf,     \* [Tests -> SUBSET Nodes]
    AuthorOf,      \* [Tests -> Orders \cup {Coordinator}]
    ScopeOf,       \* [Orders -> SUBSET Nodes], authorized nodes
    Coordinator, None

ASSUME ExplorationAssumption ==
    /\ IsFiniteSet(Orders)
    /\ Budgets \cup {DefaultBudget} \subseteq Nat \ {0}
    /\ TargetsOf \in [Tests -> SUBSET Nodes]
    /\ AuthorOf \in [Tests -> Orders \cup {Coordinator}]
    /\ ScopeOf \in [Orders -> SUBSET Nodes]
    /\ None \notin Results \cup Tests

VARIABLES
    tree,      \* [exists, mode, paused, budget, used]
    stop,      \* the exit of stop_decision
    node,      \* hypotheses: their status
    test,      \* tests: [status, result]
    charged,   \* execution_ids of the tree
    notes,     \* test facts of Experts recorded while there was no tree
    turn,      \* a request of the task runs, with its Coordinator
    fresh,     \* the Coordinator has read the latest revision
    seen,      \* the results it has read
    wave,      \* orders that ocean_assign has bound and awaits
    work       \* work orders: "none", "running" or "over"

record     == <<tree, stop, node, test, charged, notes>>
attention  == <<turn, fresh, seen>>
assignment == <<wave, work>>
vars       == <<record, attention, assignment>>

Judgments == {"untested", "established", "other"}   \* the other four are treated alike
Exits    == {"answered", "unable_to_answer", "ideas_delivered"}   \* final decisions
Unplanned == [status |-> "none", result |-> None]

Init ==
    /\ tree = [exists |-> FALSE, mode |-> "iterative", paused |-> FALSE, budget |-> DefaultBudget, used |-> 0]
    /\ stop = "none"
    /\ node = [n \in Nodes |-> "none"]
    /\ test = [t \in Tests |-> Unplanned]
    /\ charged = {}
    /\ notes = [t \in Tests |-> Unplanned]
    /\ turn = FALSE /\ fresh = TRUE /\ seen = {}
    /\ wave = {} /\ work = [o \in Orders |-> "none"]

Done    == {t \in Tests : test[t].status = "done"}
Running == {t \in Tests : test[t].status = "running"}
Known(n) == node[n] # "none"

\* The Coordinator is told the tree after its own change, and with a read.
Told(T) == fresh' = TRUE /\ seen' = T

\* Mutant of Unseen: the revision is not saved.
Unsaved == UNCHANGED <<fresh, seen>>

\* Somebody else has saved a new revision.
Unseen == fresh' = FALSE /\ UNCHANGED seen

-----------------------------------------------------------------------------
(* The Coordinator.                                                        *)

TurnBegins ==
    /\ ~turn /\ turn' = TRUE
    /\ UNCHANGED <<record, fresh, seen, assignment>>

\* Experts that still run settle with their request.
TurnEnds ==
    /\ turn /\ turn' = FALSE /\ wave' = {}
    /\ work' = [o \in Orders |-> IF work[o] = "running" THEN "over" ELSE work[o]]
    /\ UNCHANGED <<record, fresh, seen>>

Reads ==
    /\ turn /\ Told(Done)
    /\ UNCHANGED <<record, turn, assignment>>

\* Every change names the revision it was decided on; the tools of the tree run
\* one at a time.
Decides == turn /\ fresh

Started(mode, budget) ==
    [exists |-> TRUE, mode |-> mode, paused |-> FALSE, budget |-> budget, used |-> 0]

Starts(mode, budget) ==
    /\ Decides /\ ~tree.exists
    /\ tree' = Started(mode, budget)
    /\ Told({})
    /\ UNCHANGED <<stop, node, test, charged, notes, turn, assignment>>

Resumed(mode, budget) ==
    /\ tree' = [tree EXCEPT !.paused = FALSE, !.mode = mode, !.budget = budget]
    /\ stop' = "none"

Resumes(mode, budget) ==
    /\ Decides /\ tree.exists
    /\ budget = tree.budget \/ (budget \in Budgets /\ tree.used <= budget)
    /\ Resumed(mode, budget)
    /\ Told(Done)
    /\ UNCHANGED <<node, test, charged, notes, turn, assignment>>

\* Mutant of NothingRuns: reserved tests may be open when the question is closed.
NothingAsked == TRUE

NothingRuns == Running = {}

\* A decision on the question needs its tests settled; a mere stop does not.
Pauses(exit) ==
    /\ Decides /\ tree.exists
    /\ \/ exit \in Exits /\ NothingRuns /\ (exit = "ideas_delivered" <=> tree.mode = "ideas")
       \/ exit = IF tree.used >= tree.budget THEN "budget_exhausted" ELSE "interrupted"
    /\ stop' = exit
    /\ tree' = [tree EXCEPT !.paused = TRUE]
    /\ Told(Done)
    /\ UNCHANGED <<node, test, charged, notes, turn, assignment>>

\* What follows needs a tree that is not paused.
Updates ==
    /\ Decides /\ tree.exists /\ ~tree.paused
    /\ UNCHANGED <<tree, stop, charged, notes, turn, assignment>>

Proposes(n) ==
    /\ Updates /\ ~Known(n)
    /\ node' = [node EXCEPT ![n] = "untested"]
    /\ Told(Done) /\ UNCHANGED test

Planned(feasible) ==
    [status |-> IF feasible THEN "todo" ELSE "infeasible", result |-> None]

PlansTest(t, feasible) ==
    /\ Updates /\ AuthorOf[t] = Coordinator /\ test[t].status = "none"
    /\ \A n \in TargetsOf[t] : Known(n)
    /\ test' = [test EXCEPT ![t] = Planned(feasible)]
    /\ Told(Done) /\ UNCHANGED node

MarksInfeasible(t) ==
    /\ Updates /\ test[t].status \in {"todo", "running"}
    /\ test' = [test EXCEPT ![t].status = "infeasible"]
    /\ Told(Done) /\ UNCHANGED node

\* Mutant of Recordable: a result may be corrected.
RecordableAgain(facts, t) == facts[t].status # "none"

\* A result is recorded once, also for a test that was given up.
Recordable(facts, t) == facts[t].status \notin {"none", "done"}

Recorded(facts, t, result) ==
    [facts EXCEPT ![t].status = "done", ![t].result = result]

Records(t, result) ==
    /\ Updates /\ Recordable(test, t)
    /\ test' = Recorded(test, t, result)
    /\ Told(Done \cup {t}) /\ UNCHANGED node

\* "established" cites a test of this hypothesis and another one.
Adjudicates(n, judgment, t) ==
    /\ Updates /\ Known(n)
    /\ t # None => test[t].status # "none" /\ n \in TargetsOf[t]
    /\ judgment = "established" => t # None /\ Cardinality(TargetsOf[t]) >= 2
    /\ node' = [node EXCEPT ![n] = judgment]
    /\ Told(Done) /\ UNCHANGED test

\* Reflection adds nothing but text here; it waits for the wave to settle.
Reflects ==
    /\ Updates /\ NothingRuns
    /\ Told(Done) /\ UNCHANGED <<node, test>>

-----------------------------------------------------------------------------
(* ocean_assign and the Experts.                                           *)

\* With a research question the tree is started, or taken up again; the router
\* binds the orders only afterwards and may still refuse them.
AssignOpens ==
    /\ turn /\ wave = {}
    /\ \/ /\ ~tree.exists
          /\ tree' = Started("iterative", DefaultBudget)
          /\ UNCHANGED stop
       \/ /\ tree.exists /\ (tree.paused \/ tree.mode # "iterative")
          /\ Resumed("iterative", tree.budget)
    /\ Unseen
    /\ UNCHANGED <<node, test, charged, notes, turn, assignment>>

\* Mutant of Attempts: every dispatch is an attempt, a replayed one as well.
AttemptsReplayed(W) == Cardinality(W)

\* Orders that were charged before are not charged again.
Attempts(W) == Cardinality(W \ charged)

\* begin_tests and the dispatch of the wave it reserves for.
Assigns(W, T) ==
    /\ turn /\ wave = {} /\ W # {} /\ T # {}
    /\ \A o \in W : work[o] # "running"
    /\ tree.exists /\ ~tree.paused /\ tree.mode = "iterative"
    /\ \A t \in T : test[t].status # "none"
    /\ tree.used + Attempts(W) <= tree.budget
    /\ tree' = [tree EXCEPT !.used = @ + Attempts(W)]
    /\ charged' = charged \cup W
    /\ test' = [t \in Tests |-> IF t \in T /\ test[t].status = "todo"
                                THEN [test[t] EXCEPT !.status = "running"] ELSE test[t]]
    /\ wave' = W
    /\ Unseen
    /\ UNCHANGED <<stop, node, notes, turn, work>>

\* Without registered tests nothing is reserved, and no tree is needed.
AssignsUnregistered(W) ==
    /\ turn /\ wave = {} /\ W # {}
    /\ \A o \in W : work[o] # "running"
    /\ wave' = W
    /\ UNCHANGED <<record, attention, work>>

ExpertStarts(o) ==
    /\ o \in wave /\ work[o] # "running"
    /\ work' = [work EXCEPT ![o] = "running"]
    /\ UNCHANGED <<record, attention, wave>>

ExpertEnds(o) ==
    /\ work[o] = "running"
    /\ work' = [work EXCEPT ![o] = "over"]
    /\ UNCHANGED <<record, attention, wave>>

\* The assignment returns, with the tree as it is; other Experts of the wave
\* may work on when one of them has raised.
AssignReturns ==
    /\ wave # {} /\ \E o \in wave : work[o] # "running"
    /\ wave' = {} /\ Told(Done)
    /\ UNCHANGED <<record, turn, work>>

\* An Expert writes to the tree, or beside it while there is none; a pause does
\* not stop it, and it does not reopen the question.
Notes(o, t) ==
    /\ work[o] = "running" /\ AuthorOf[t] = o /\ TargetsOf[t] \subseteq ScopeOf[o]
    /\ \A n \in ScopeOf[o] : Known(n)
    /\ UNCHANGED <<tree, stop, node, charged, turn, assignment>>

ExpertPlans(o, t) ==
    /\ Notes(o, t)
    /\ IF tree.exists
       THEN /\ test[t].status = "none"
            /\ test' = [test EXCEPT ![t] = Planned(TRUE)]
            /\ Unseen /\ UNCHANGED notes
       ELSE /\ notes[t].status = "none"
            /\ notes' = [notes EXCEPT ![t] = Planned(TRUE)]
            /\ UNCHANGED <<test, fresh, seen>>

\* With the result may come the test itself, after the fact.
ExpertRecords(o, t, result) ==
    /\ Notes(o, t)
    /\ IF tree.exists
       THEN /\ test[t].status = "none" \/ Recordable(test, t)
            /\ test' = Recorded(test, t, result)
            /\ Unseen /\ UNCHANGED notes
       ELSE /\ notes[t].status = "none" \/ Recordable(notes, t)
            /\ notes' = Recorded(notes, t, result)
            /\ UNCHANGED <<test, fresh, seen>>

\* The backend ends: the turn is over, and its conversation may be forgotten.
Crash ==
    /\ turn /\ turn' = FALSE /\ wave' = {}
    /\ work' = [o \in Orders |-> IF work[o] = "running" THEN "over" ELSE work[o]]
    /\ fresh' = FALSE /\ seen' = {}
    /\ UNCHANGED record

-----------------------------------------------------------------------------
CoordinatorStep ==
    \/ TurnBegins \/ TurnEnds \/ Reads \/ Reflects \/ AssignOpens \/ AssignReturns
    \/ \E mode \in {"ideas", "iterative"}, budget \in Budgets \cup {tree.budget, DefaultBudget} :
           Starts(mode, budget) \/ Resumes(mode, budget)
    \/ \E exit \in Exits \cup {"budget_exhausted", "interrupted"} : Pauses(exit)
    \/ \E n \in Nodes : Proposes(n)
    \/ \E t \in Tests : MarksInfeasible(t) \/ \E f \in BOOLEAN : PlansTest(t, f)
    \/ \E t \in Tests, result \in Results : Records(t, result)
    \/ \E n \in Nodes, j \in Judgments, t \in Tests \cup {None} : Adjudicates(n, j, t)
    \/ \E W \in SUBSET Orders : AssignsUnregistered(W) \/ \E T \in SUBSET Tests : Assigns(W, T)

ExpertStep ==
    \E o \in Orders :
        \/ ExpertStarts(o) \/ ExpertEnds(o)
        \/ \E t \in Tests : ExpertPlans(o, t) \/ \E x \in Results : ExpertRecords(o, t, x)

Next == CoordinatorStep \/ ExpertStep \/ Crash
Spec == Init /\ [][Next]_vars

-----------------------------------------------------------------------------
(* Properties.                                                             *)

Fact == [status : {"none", "todo", "running", "done", "infeasible"},
         result : Results \cup {None}]

TypeOK ==
    /\ tree \in [exists : BOOLEAN, mode : {"ideas", "iterative"}, paused : BOOLEAN,
                 budget : Nat, used : Nat]
    /\ stop \in Exits \cup {"none", "budget_exhausted", "interrupted"}
    /\ node \in [Nodes -> Judgments \cup {"none"}]
    /\ test \in [Tests -> Fact] /\ notes \in [Tests -> Fact]
    /\ charged \subseteq Orders /\ wave \subseteq Orders
    /\ turn \in BOOLEAN /\ fresh \in BOOLEAN /\ seen \subseteq Tests
    /\ work \in [Orders -> {"none", "running", "over"}]

\* "Reserve research attempts by real Expert WorkOrder" (begin_tests): through
\* replays, follow-ups, crashes and changed budgets the attempts used are the
\* orders charged, and never more than the budget.
BudgetKept == tree.used = Cardinality(charged) /\ tree.used <= tree.budget

\* A question with a final decision has no reserved test that is still open,
\* whatever assignments and Experts do after it.
AnsweredIsSettled == stop \in Exits => tree.paused /\ Running = {}

\* Recorded facts are final: neither a retry, nor giving a test up, nor another
\* author changes a result, in the tree or beside it.
FactsAreFinal ==
    [][\A t \in Tests :
          /\ test[t].status = "done" => test'[t] = test[t]
          /\ notes[t].status = "done" => notes'[t] = notes[t]]_vars

\* A hypothesis is judged, and the question is decided, with every recorded
\* result in view, also those Experts record while the Coordinator thinks.
DecisionIsInformed ==
    [][node' # node \/ (stop' \in Exits /\ stop' # stop) => Done \subseteq seen]_vars

Question == INSTANCE ResearchQuestion WITH
    found   <- [t \in Tests |-> test[t].result], awaited <- Running, verdict <- node,
    answer  <- IF stop \in Exits THEN stop ELSE None,
    spent   <- charged, allowed <- tree.budget, view <- seen

\* The tree with its revisions, pauses, waves and authors is one question, asked
\* within a budget and decided with open eyes: it implements ResearchQuestion
\* (exploration.py, apply_command; router.py, ocean_assign).
QuestionRefined == Question!QuestionSpec
=============================================================================
