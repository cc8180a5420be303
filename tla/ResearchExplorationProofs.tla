----------------------- MODULE ResearchExplorationProofs --------------------
(***************************************************************************)
(* The properties of ResearchExploration for every set of hypotheses,      *)
(* tests, orders and budgets.  The budget and the settled question are     *)
(* inductive with the types; that decisions are informed rests on one      *)
(* more fact, InView: who has read the latest revision has read every      *)
(* result.  With these the tree, its Coordinator and its Experts are one   *)
(* question (the module ResearchQuestion).                                 *)
(***************************************************************************)
EXTENDS ResearchExploration, FiniteSetTheorems, TLAPS

\* Whoever has read the latest revision has read every recorded result.
InView == fresh => Done \subseteq seen

\* The type of the tree alone.
Tree == [exists : BOOLEAN, mode : {"ideas", "iterative"}, paused : BOOLEAN,
         budget : Nat, used : Nat]

\* The initial state is typed.
LEMMA InitTyped == Init => TypeOK
  <1> SUFFICES ASSUME Init PROVE TypeOK
    OBVIOUS
  <1> USE DEF Init
  <1>1. /\ tree \in Tree
        /\ stop \in Exits \cup {"none", "budget_exhausted", "interrupted"}
    BY ExplorationAssumption DEF ExplorationAssumption, Tree
  <1>2. Unplanned \in Fact
    BY DEF Unplanned, Fact
  <1>3. /\ node \in [Nodes -> Judgments \cup {"none"}]
        /\ test \in [Tests -> Fact] /\ notes \in [Tests -> Fact]
        /\ work \in [Orders -> {"none", "running", "over"}]
    BY <1>2
  <1>4. charged \subseteq Orders /\ wave \subseteq Orders /\ seen \subseteq Tests
    OBVIOUS
  <1>5. turn \in BOOLEAN /\ fresh \in BOOLEAN
    OBVIOUS
  <1> QED  BY <1>1, <1>3, <1>4, <1>5 DEF TypeOK, Tree

\* A tree that is started, or taken up again, is a tree.
LEMMA TreeTyped ==
  ASSUME tree \in Tree, NEW mode \in {"ideas", "iterative"},
         NEW budget \in Budgets \cup {tree.budget, DefaultBudget}
  PROVE  /\ Started(mode, budget) \in Tree
         /\ [tree EXCEPT !.paused = FALSE, !.mode = mode, !.budget = budget] \in Tree
  BY ExplorationAssumption DEF ExplorationAssumption, Tree, Started

\* A fact that is planned, or recorded, is a fact.
LEMMA PlansTyped ==
  ASSUME NEW facts \in [Tests -> Fact], NEW t \in Tests, NEW f \in BOOLEAN
  PROVE  [facts EXCEPT ![t] = Planned(f)] \in [Tests -> Fact]
  BY DEF Fact, Planned

LEMMA FactsTyped ==
  ASSUME NEW facts \in [Tests -> Fact], NEW t \in Tests, NEW x \in Results
  PROVE  Recorded(facts, t, x) \in [Tests -> Fact]
  BY DEF Fact, Recorded

\* The attempts of a wave are a number.
LEMMA AttemptsNat ==
  ASSUME NEW W \in SUBSET Orders
  PROVE  Attempts(W) \in Nat
  <1>1. IsFiniteSet(W \ charged)
    BY ExplorationAssumption, FS_Subset DEF ExplorationAssumption
  <1> QED  BY <1>1, FS_CardinalityType DEF Attempts

\* Every step keeps the types.
LEMMA StepTyped == TypeOK /\ [Next]_vars => TypeOK'
  <1> SUFFICES ASSUME TypeOK, [Next]_vars PROVE TypeOK'
    OBVIOUS
  <1> USE ExplorationAssumption DEF ExplorationAssumption, TypeOK, record, attention, assignment
  <1>1. CASE TurnBegins \/ TurnEnds \/ Reads \/ AssignReturns \/ Crash
    BY <1>1 DEF TurnBegins, TurnEnds, Reads, AssignReturns, Crash, Told, Done
  <1>2. CASE Reflects \/ AssignOpens
    <2>0. tree \in Tree
      BY DEF Tree
    <2>a. /\ Started("iterative", DefaultBudget) \in Tree
          /\ [tree EXCEPT !.paused = FALSE, !.mode = "iterative", !.budget = tree.budget] \in Tree
      BY <2>0, TreeTyped
    <2>1. tree' \in Tree
      BY <1>2, <2>0, <2>a DEF Reflects, AssignOpens, Updates, Resumed
    <2>2. stop' \in Exits \cup {"none", "budget_exhausted", "interrupted"}
      BY <1>2 DEF Reflects, AssignOpens, Updates, Resumed
    <2>3. fresh' \in BOOLEAN /\ seen' \subseteq Tests /\ UNCHANGED <<node, test, notes, charged, turn, wave, work>>
      BY <1>2 DEF Reflects, AssignOpens, Updates, Told, Done, Unseen
    <2> QED  BY <2>1, <2>2, <2>3 DEF Tree
  <1>3. ASSUME NEW mode \in {"ideas", "iterative"},
               NEW budget \in Budgets \cup {tree.budget, DefaultBudget},
               Starts(mode, budget) \/ Resumes(mode, budget)
        PROVE  TypeOK'
    <2>0. tree \in Tree
      BY DEF Tree
    <2>a. /\ Started(mode, budget) \in Tree
          /\ [tree EXCEPT !.paused = FALSE, !.mode = mode, !.budget = budget] \in Tree
      BY <2>0, TreeTyped
    <2>1. tree' \in Tree
      BY <1>3, <2>a DEF Starts, Resumes, Resumed
    <2>2. stop' \in Exits \cup {"none", "budget_exhausted", "interrupted"}
      BY <1>3 DEF Starts, Resumes, Resumed
    <2>3. fresh' \in BOOLEAN /\ seen' \subseteq Tests /\ UNCHANGED <<node, test, notes, charged, turn, wave, work>>
      BY <1>3 DEF Starts, Resumes, Told, Done
    <2> QED  BY <2>1, <2>2, <2>3 DEF Tree
  <1>4. ASSUME NEW exit \in Exits \cup {"budget_exhausted", "interrupted"}, Pauses(exit)
        PROVE  TypeOK'
    BY <1>4 DEF Pauses, Told, Done
  <1>5. ASSUME NEW n \in Nodes, Proposes(n)
        PROVE  TypeOK'
    BY <1>5 DEF Proposes, Updates, Told, Done, Judgments
  <1>6. ASSUME NEW t \in Tests, NEW f \in BOOLEAN, PlansTest(t, f)
        PROVE  TypeOK'
    BY <1>6 DEF PlansTest, Updates, Told, Done, Planned, Fact
  <1>7. ASSUME NEW t \in Tests, MarksInfeasible(t)
        PROVE  TypeOK'
    BY <1>7 DEF MarksInfeasible, Updates, Told, Done, Fact
  <1>8. ASSUME NEW t \in Tests, NEW result \in Results, Records(t, result)
        PROVE  TypeOK'
    BY <1>8, FactsTyped DEF Records, Updates, Told, Done
  <1>9. ASSUME NEW n \in Nodes, NEW j \in Judgments, NEW t \in Tests \cup {None},
               Adjudicates(n, j, t)
        PROVE  TypeOK'
    BY <1>9 DEF Adjudicates, Updates, Told, Done
  <1>10. ASSUME NEW W \in SUBSET Orders, AssignsUnregistered(W)
         PROVE  TypeOK'
    BY <1>10 DEF AssignsUnregistered
  <1>11. ASSUME NEW W \in SUBSET Orders, NEW T \in SUBSET Tests, Assigns(W, T)
         PROVE  TypeOK'
    <2>1. Attempts(W) \in Nat
      BY AttemptsNat
    <2>2. test' \in [Tests -> Fact]
      BY <1>11 DEF Assigns, Fact
    <2>3. tree' \in Tree
      BY <1>11, <2>1 DEF Assigns, Tree
    <2>4. /\ charged' \subseteq Orders /\ wave' \subseteq Orders /\ fresh' \in BOOLEAN
          /\ UNCHANGED <<stop, node, notes, turn, seen, work>>
      BY <1>11 DEF Assigns, Unseen
    <2> QED  BY <2>2, <2>3, <2>4 DEF Tree
  <1>12. ASSUME NEW o \in Orders, ExpertStarts(o) \/ ExpertEnds(o)
         PROVE  TypeOK'
    BY <1>12 DEF ExpertStarts, ExpertEnds
  <1>13. ASSUME NEW o \in Orders, NEW t \in Tests, ExpertPlans(o, t)
         PROVE  TypeOK'
    <2>a. /\ [test EXCEPT ![t] = Planned(TRUE)] \in [Tests -> Fact]
          /\ [notes EXCEPT ![t] = Planned(TRUE)] \in [Tests -> Fact]
      BY PlansTyped
    <2>1. test' \in [Tests -> Fact] /\ notes' \in [Tests -> Fact]
      BY <1>13, <2>a DEF ExpertPlans
    <2>2. fresh' \in BOOLEAN /\ UNCHANGED <<tree, stop, node, charged, turn, seen, wave, work>>
      BY <1>13 DEF ExpertPlans, Notes, Unseen
    <2> QED  BY <2>1, <2>2
  <1>14. ASSUME NEW o \in Orders, NEW t \in Tests, NEW x \in Results, ExpertRecords(o, t, x)
         PROVE  TypeOK'
    <2>1. test' \in [Tests -> Fact] /\ notes' \in [Tests -> Fact]
      BY <1>14, FactsTyped DEF ExpertRecords
    <2>2. fresh' \in BOOLEAN /\ UNCHANGED <<tree, stop, node, charged, turn, seen, wave, work>>
      BY <1>14 DEF ExpertRecords, Notes, Unseen
    <2> QED  BY <2>1, <2>2
  <1>15. CASE UNCHANGED vars
    BY <1>15 DEF vars
  <1> QED
    BY <1>1, <1>2, <1>3, <1>4, <1>5, <1>6, <1>7, <1>8, <1>9, <1>10, <1>11, <1>12, <1>13, <1>14,
       <1>15 DEF Next, CoordinatorStep, ExpertStep

\* Every variable of the exploration keeps its type.
THEOREM TypeCorrect == Spec => []TypeOK
  BY InitTyped, StepTyped, PTL DEF Spec

-----------------------------------------------------------------------------
\* A wave charges its new orders once.
LEMMA ChargedOnce ==
  ASSUME TypeOK, NEW W \in SUBSET Orders
  PROVE  Cardinality(charged \cup W) = Cardinality(charged) + Attempts(W)
  <1>1. IsFiniteSet(charged) /\ IsFiniteSet(W \ charged)
    BY ExplorationAssumption, FS_Subset DEF ExplorationAssumption, TypeOK
  <1>2. charged \cup W = charged \cup (W \ charged) /\ charged \cap (W \ charged) = {}
    OBVIOUS
  <1>3. Cardinality(charged) \in Nat /\ Attempts(W) \in Nat /\ Cardinality({}) = 0
    BY <1>1, AttemptsNat, FS_CardinalityType, FS_EmptySet
  <1>4. Cardinality(charged \cup (W \ charged))
          = Cardinality(charged) + Cardinality(W \ charged) - Cardinality({})
    BY <1>1, <1>2, FS_Union
  <1>5. Cardinality(charged \cup W) = Cardinality(charged \cup (W \ charged))
    BY <1>2
  <1> QED  BY <1>3, <1>4, <1>5 DEF Attempts

\* Before there is a tree nothing is planned, used or decided.
NoTree == ~tree.exists =>
    /\ tree.used = 0 /\ stop = "none"
    /\ \A t \in Tests : test[t].status = "none"

\* What is kept together with the types.
IInv == TypeOK /\ NoTree /\ BudgetKept /\ AnsweredIsSettled /\ InView

\* The initial state satisfies it.
LEMMA InitInvariant == Init => IInv
  <1> SUFFICES ASSUME Init PROVE IInv
    OBVIOUS
  <1>1. tree.exists = FALSE /\ tree.used = 0 /\ tree.budget = DefaultBudget /\ stop = "none"
    BY DEF Init
  <1>2. Done = {} /\ \A t \in Tests : test[t].status = "none"
    BY DEF Init, Unplanned, Done
  <1>3. BudgetKept
    BY <1>1, ExplorationAssumption, FS_EmptySet DEF ExplorationAssumption, Init, BudgetKept
  <1> QED  BY <1>1, <1>2, <1>3, InitTyped DEF IInv, NoTree, AnsweredIsSettled, InView, Exits

\* The budget is kept by every step that leaves it alone or raises it.
LEMMA BudgetSame ==
  ASSUME BudgetKept, tree'.used = tree.used, charged' = charged,
         tree'.budget = tree.budget \/ tree.used <= tree'.budget
  PROVE  BudgetKept'
  BY DEF BudgetKept

\* Every step keeps the invariant.
LEMMA StepInvariant == IInv /\ [Next]_vars => IInv'
  <1> SUFFICES ASSUME IInv, [Next]_vars PROVE IInv'
    OBVIOUS
  <1> DEFINE Others == NoTree /\ BudgetKept /\ AnsweredIsSettled /\ InView
  <1>0. TypeOK'
    BY StepTyped DEF IInv
  <1>t. /\ tree \in Tree /\ test \in [Tests -> Fact]
        /\ NoTree /\ BudgetKept /\ AnsweredIsSettled /\ InView
    BY DEF IInv, TypeOK, Tree
  <1> USE DEF NoTree, AnsweredIsSettled, InView, record, attention, assignment
  <1>1. ASSUME TurnBegins \/ TurnEnds \/ Reads \/ AssignReturns \/ Crash
        PROVE  Others'
    <2>1. UNCHANGED record
      BY <1>1 DEF TurnBegins, TurnEnds, Reads, AssignReturns, Crash
    <2>2. InView'
      BY <1>1, <2>1, <1>t DEF TurnBegins, TurnEnds, Reads, AssignReturns, Crash, Told, Done
    <2> QED  BY <2>1, <2>2, <1>t, BudgetSame DEF Running
  <1>2. ASSUME AssignOpens
        PROVE  Others'
    <2>1. NoTree' /\ AnsweredIsSettled' /\ InView'
      <3>1. stop' \notin Exits /\ fresh' = FALSE
        BY <1>2, <1>t DEF AssignOpens, Unseen, Resumed, Exits
      <3>2. tree'.exists
        <4>1. CASE tree.exists
          BY <4>1, <1>2, <1>t DEF AssignOpens, Resumed, Tree
        <4>2. CASE ~tree.exists
          BY <4>2, <1>2 DEF AssignOpens, Started
        <4> QED  BY <4>1, <4>2
      <3> QED  BY <3>1, <3>2
    <2>2. BudgetKept'
      <3>1. CASE tree.exists
        BY <3>1, <1>2, <1>t, BudgetSame DEF AssignOpens, Resumed, Tree
      <3>2. CASE ~tree.exists
        BY <3>2, <1>2, <1>t, ExplorationAssumption
        DEF AssignOpens, Started, BudgetKept, ExplorationAssumption
      <3> QED  BY <3>1, <3>2
    <2> QED  BY <2>1, <2>2
  <1>3. ASSUME NEW mode \in {"ideas", "iterative"},
               NEW budget \in Budgets \cup {tree.budget, DefaultBudget},
               Starts(mode, budget)
        PROVE  Others'
    <2>1. budget \in Nat
      BY <1>t, ExplorationAssumption DEF ExplorationAssumption, Tree
    <2>2. BudgetKept'
      BY <1>3, <2>1, <1>t DEF Starts, Started, BudgetKept
    <2> QED  BY <1>3, <1>t, <2>2 DEF Starts, Started, Told, Exits, Done
  <1>4. ASSUME NEW mode \in {"ideas", "iterative"},
               NEW budget \in Budgets \cup {tree.budget, DefaultBudget},
               Resumes(mode, budget)
        PROVE  Others'
    <2>1. NoTree' /\ AnsweredIsSettled' /\ InView'
      BY <1>4, <1>t DEF Resumes, Resumed, Told, Exits, Tree, Done
    <2>2. BudgetKept'
      BY <1>4, <1>t, BudgetSame DEF Resumes, Resumed, Tree
    <2> QED  BY <2>1, <2>2
  <1>5. ASSUME NEW exit \in Exits \cup {"budget_exhausted", "interrupted"}, Pauses(exit)
        PROVE  Others'
    <2>1. exit \in Exits => Running = {}
      BY <1>5 DEF Pauses, NothingRuns, Exits
    <2>2. NoTree' /\ AnsweredIsSettled' /\ InView'
      BY <1>5, <2>1, <1>t DEF Pauses, Told, Tree, Done, Running
    <2>3. BudgetKept'
      BY <1>5, <1>t, BudgetSame DEF Pauses, Tree
    <2> QED  BY <2>2, <2>3
  <1>6. ASSUME Updates,
               \/ Reflects \/ \E n \in Nodes : Proposes(n)
               \/ \E n \in Nodes, j \in Judgments, t \in Tests \cup {None} : Adjudicates(n, j, t)
        PROVE  Others'
    <2>1. UNCHANGED test /\ Told(Done)
      BY <1>6 DEF Reflects, Proposes, Adjudicates
    <2> QED  BY <1>6, <2>1, <1>t, BudgetSame DEF Updates, Told, Done, Running
  <1>7. ASSUME NEW t \in Tests, \/ MarksInfeasible(t)
                               \/ \E f \in BOOLEAN : PlansTest(t, f)
                               \/ \E x \in Results : Records(t, x)
        PROVE  Others'
    <2>1. Updates
      BY <1>7 DEF MarksInfeasible, PlansTest, Records
    <2>2. BudgetKept'
      BY <2>1, <1>t, BudgetSame DEF Updates
    <2>3. NoTree' /\ AnsweredIsSettled'
      BY <2>1, <1>t DEF Updates
    <2>4. Done' \subseteq seen'
      BY <1>7, <1>t
      DEF MarksInfeasible, PlansTest, Records, Recorded, Planned, Told, Done, Fact
    <2> QED  BY <2>2, <2>3, <2>4
  <1>8. ASSUME NEW W \in SUBSET Orders,
               AssignsUnregistered(W) \/ \E o \in Orders : ExpertStarts(o) \/ ExpertEnds(o)
        PROVE  Others'
    <2>1. UNCHANGED <<record, attention>>
      BY <1>8 DEF AssignsUnregistered, ExpertStarts, ExpertEnds
    <2> QED  BY <2>1, <1>t, BudgetSame DEF Done, Running
  <1>9. ASSUME NEW W \in SUBSET Orders, NEW T \in SUBSET Tests, Assigns(W, T)
        PROVE  Others'
    <2>1. Attempts(W) \in Nat /\ Cardinality(charged \cup W) = Cardinality(charged) + Attempts(W)
      BY AttemptsNat, ChargedOnce DEF IInv
    <2>2. BudgetKept'
      BY <1>9, <2>1, <1>t DEF Assigns, BudgetKept, Tree
    <2>3. NoTree' /\ InView' /\ AnsweredIsSettled'
      BY <1>9, <1>t DEF Assigns, Unseen, Tree
    <2> QED  BY <2>2, <2>3
  <1>10. ASSUME NEW o \in Orders, NEW t \in Tests,
                ExpertPlans(o, t) \/ \E x \in Results : ExpertRecords(o, t, x)
         PROVE  Others'
    <2>1. Notes(o, t)
      BY <1>10 DEF ExpertPlans, ExpertRecords
    <2>2. BudgetKept'
      BY <2>1, <1>t, BudgetSame DEF Notes
    <2>3. Running' \subseteq Running
      BY <1>10, <1>t DEF ExpertPlans, ExpertRecords, Planned, Recorded, Running, Fact
    <2>4. NoTree'
      BY <1>10, <2>1, <1>t DEF Notes, ExpertPlans, ExpertRecords
    <2>5. InView'
      BY <1>10, <1>t DEF ExpertPlans, ExpertRecords, Unseen, Done
    <2>6. AnsweredIsSettled'
      BY <2>1, <2>3, <1>t DEF Notes
    <2> QED  BY <2>2, <2>4, <2>5, <2>6
  <1>11. ASSUME UNCHANGED vars
         PROVE  Others'
    BY <1>11, <1>t, BudgetSame DEF vars, Done, Running
  <1>12. Others'
    BY <1>1, <1>2, <1>3, <1>4, <1>5, <1>6, <1>7, <1>8, <1>9, <1>10, <1>11
    DEF Next, CoordinatorStep, ExpertStep, Reflects, Proposes, Adjudicates
  <1> QED  BY <1>0, <1>12 DEF IInv

\* The invariant of the exploration, for every number of tests and orders.
THEOREM Invariance == Spec => []IInv
  BY InitInvariant, StepInvariant, PTL DEF Spec

\* The attempts used are the orders charged, and never exceed the budget.
THEOREM BudgetIsKept == Spec => []BudgetKept
  <1>1. IInv => BudgetKept
    BY DEF IInv
  <1> QED  BY <1>1, Invariance, PTL

\* A final decision never stands beside a reserved test that is still open.
THEOREM AnsweredStaysSettled == Spec => []AnsweredIsSettled
  <1>1. IInv => AnsweredIsSettled
    BY DEF IInv
  <1> QED  BY <1>1, Invariance, PTL

\* Judgments and final decisions are taken with every result in view.
THEOREM DecisionsAreInformed == Spec => DecisionIsInformed
  <1> DEFINE A == node' # node \/ (stop' \in Exits /\ stop' # stop) => Done \subseteq seen
  <1>1. IInv /\ [Next]_vars => [A]_vars
    <2> SUFFICES ASSUME IInv, Next, node' # node \/ (stop' \in Exits /\ stop' # stop)
                 PROVE  Done \subseteq seen
      OBVIOUS
    <2>1. fresh => Done \subseteq seen
      BY DEF IInv, InView
    <2>2. CASE \/ \E exit \in Exits \cup {"budget_exhausted", "interrupted"} : Pauses(exit)
               \/ \E n \in Nodes : Proposes(n)
               \/ \E n \in Nodes, j \in Judgments, t \in Tests \cup {None} : Adjudicates(n, j, t)
      BY <2>1, <2>2 DEF Pauses, Proposes, Adjudicates, Updates, Decides
    <2>3. CASE UNCHANGED <<stop, node>>
      BY <2>3
    <2>4. CASE UNCHANGED node /\ stop' = "none"
      BY <2>4 DEF Exits
    <2>5. CASE \/ TurnBegins \/ TurnEnds \/ Reads \/ AssignReturns \/ Crash \/ Reflects
               \/ \E W \in SUBSET Orders : AssignsUnregistered(W)
                                          \/ \E T \in SUBSET Tests : Assigns(W, T)
               \/ \E t \in Tests : \/ MarksInfeasible(t)
                                     \/ \E f \in BOOLEAN : PlansTest(t, f)
               \/ \E t \in Tests, result \in Results : Records(t, result)
               \/ ExpertStep
      <3>1. UNCHANGED <<stop, node>>
        BY <2>5
        DEF TurnBegins, TurnEnds, Reads, AssignReturns, Crash, Reflects, AssignsUnregistered,
            Assigns, MarksInfeasible, PlansTest, Records, Updates, ExpertStep, ExpertStarts,
            ExpertEnds, ExpertPlans, ExpertRecords, Notes, record
      <3> QED  BY <3>1, <2>3
    <2>6. CASE \/ AssignOpens
               \/ \E mode \in {"ideas", "iterative"},
                     budget \in Budgets \cup {tree.budget, DefaultBudget} :
                     Starts(mode, budget) \/ Resumes(mode, budget)
      <3>1. UNCHANGED node /\ (stop' = stop \/ stop' = "none")
        BY <2>6 DEF AssignOpens, Starts, Resumes, Resumed
      <3> QED  BY <3>1 DEF Exits
    <2> QED  BY <2>2, <2>5, <2>6 DEF Next, CoordinatorStep
  <1>2. [][A]_vars => DecisionIsInformed
    BY DEF DecisionIsInformed
  <1> HIDE DEF A
  <1> QED  BY <1>1, <1>2, Invariance, PTL DEF Spec

\* Recorded facts are final.
THEOREM FactsStayFinal == Spec => FactsAreFinal
  <1> DEFINE A == \A t \in Tests : /\ test[t].status = "done" => test'[t] = test[t]
                                   /\ notes[t].status = "done" => notes'[t] = notes[t]
  <1>1. TypeOK /\ [Next]_vars => [A]_vars
    <2> SUFFICES ASSUME TypeOK, Next, NEW t \in Tests
                 PROVE  /\ test[t].status = "done" => test'[t] = test[t]
                        /\ notes[t].status = "done" => notes'[t] = notes[t]
      OBVIOUS
    <2>0. test \in [Tests -> Fact] /\ notes \in [Tests -> Fact]
      BY DEF TypeOK
    <2>1. ASSUME NEW u \in Tests, \/ MarksInfeasible(u)
                                 \/ \E f \in BOOLEAN : PlansTest(u, f)
                                 \/ \E x \in Results : Records(u, x)
          PROVE  (test[t].status = "done" => test'[t] = test[t]) /\ UNCHANGED notes
      BY <2>0, <2>1 DEF MarksInfeasible, PlansTest, Records, Recordable, Recorded, Updates
    <2>2. ASSUME NEW o \in Orders, NEW u \in Tests,
                 ExpertPlans(o, u) \/ \E x \in Results : ExpertRecords(o, u, x)
          PROVE  /\ test[t].status = "done" => test'[t] = test[t]
                 /\ notes[t].status = "done" => notes'[t] = notes[t]
      BY <2>0, <2>2 DEF ExpertPlans, ExpertRecords, Recordable, Recorded
    <2>3. ASSUME NEW W \in SUBSET Orders, NEW T \in SUBSET Tests, Assigns(W, T)
          PROVE  (test[t].status = "done" => test'[t] = test[t]) /\ UNCHANGED notes
      BY <2>0, <2>3 DEF Assigns
    <2>4. CASE \/ TurnBegins \/ TurnEnds \/ Reads \/ AssignReturns \/ Crash \/ Reflects
               \/ AssignOpens
               \/ \E W \in SUBSET Orders : AssignsUnregistered(W)
               \/ \E o \in Orders : ExpertStarts(o) \/ ExpertEnds(o)
               \/ \E n \in Nodes : Proposes(n)
               \/ \E n \in Nodes, j \in Judgments, v \in Tests \cup {None} : Adjudicates(n, j, v)
               \/ \E exit \in Exits \cup {"budget_exhausted", "interrupted"} : Pauses(exit)
               \/ \E mode \in {"ideas", "iterative"},
                     budget \in Budgets \cup {tree.budget, DefaultBudget} :
                     Starts(mode, budget) \/ Resumes(mode, budget)
      BY <2>4
      DEF TurnBegins, TurnEnds, Reads, AssignReturns, Crash, Reflects, AssignOpens,
          AssignsUnregistered, ExpertStarts, ExpertEnds, Proposes, Adjudicates, Pauses, Starts,
          Resumes, Updates, record
    <2> QED  BY <2>1, <2>2, <2>3, <2>4 DEF Next, CoordinatorStep, ExpertStep
  <1>2. [][A]_vars => FactsAreFinal
    BY DEF FactsAreFinal
  <1> HIDE DEF A
  <1> QED  BY <1>1, <1>2, TypeCorrect, PTL DEF Spec
-----------------------------------------------------------------------------
(* The refinement of ResearchQuestion.  A test has a result when it is     *)
(* done and only then (Kept), so what the abstract question has found are  *)
(* the tests that are done.                                                *)

Kept == \A t \in Tests : test[t].status = "done" <=> test[t].result # None

LEMMA InitKept == Init => Kept
  BY DEF Init, Kept, Unplanned

\* A test changes by being planned, given up, reserved or recorded.
LEMMA TestMoves ==
  ASSUME Next, TypeOK
  PROVE  \/ UNCHANGED test
         \/ \E t \in Tests, f \in BOOLEAN :
               test[t].status = "none" /\ test' = [test EXCEPT ![t] = Planned(f)]
         \/ \E t \in Tests : MarksInfeasible(t)
         \/ \E t \in Tests, x \in Results :
               test[t].status # "done" /\ test' = Recorded(test, t, x)
         \/ \E W \in SUBSET Orders, T \in SUBSET Tests : Assigns(W, T)
  <1> DEFINE Plans   == \E t \in Tests, f \in BOOLEAN :
                           test[t].status = "none" /\ test' = [test EXCEPT ![t] = Planned(f)]
             Finds == \E t \in Tests, x \in Results :
                           test[t].status # "done" /\ test' = Recorded(test, t, x)
  <1>1. ASSUME NEW t \in Tests, NEW f \in BOOLEAN, PlansTest(t, f)
        PROVE  Plans
    BY <1>1 DEF PlansTest
  <1>2. ASSUME NEW t \in Tests, NEW x \in Results, Records(t, x)
        PROVE  Finds
    BY <1>2 DEF Records, Recordable
  <1>3. ASSUME NEW o \in Orders, NEW t \in Tests, ExpertPlans(o, t)
        PROVE  UNCHANGED test \/ Plans
    BY <1>3 DEF ExpertPlans
  <1>4. ASSUME NEW o \in Orders, NEW t \in Tests, NEW x \in Results, ExpertRecords(o, t, x)
        PROVE  UNCHANGED test \/ Finds
    BY <1>4 DEF ExpertRecords, Recordable
  <1>5. ASSUME \/ TurnBegins \/ TurnEnds \/ Reads \/ AssignReturns \/ Crash \/ Reflects
               \/ AssignOpens
               \/ \E W \in SUBSET Orders : AssignsUnregistered(W)
               \/ \E o \in Orders : ExpertStarts(o) \/ ExpertEnds(o)
               \/ \E n \in Nodes : Proposes(n)
               \/ \E n \in Nodes, j \in Judgments, v \in Tests \cup {None} : Adjudicates(n, j, v)
               \/ \E exit \in Exits \cup {"budget_exhausted", "interrupted"} : Pauses(exit)
               \/ \E mode \in {"ideas", "iterative"},
                     budget \in Budgets \cup {tree.budget, DefaultBudget} :
                     Starts(mode, budget) \/ Resumes(mode, budget)
        PROVE  UNCHANGED test
    BY <1>5
    DEF TurnBegins, TurnEnds, Reads, AssignReturns, Crash, Reflects, AssignOpens,
        AssignsUnregistered, ExpertStarts, ExpertEnds, Proposes, Adjudicates, Pauses, Starts,
        Resumes, record
  <1> HIDE DEF Plans, Finds
  <1>6. \/ UNCHANGED test \/ Plans \/ Finds
        \/ \E t \in Tests : MarksInfeasible(t)
        \/ \E W \in SUBSET Orders, T \in SUBSET Tests : Assigns(W, T)
    BY <1>1, <1>2, <1>3, <1>4, <1>5 DEF Next, CoordinatorStep, ExpertStep
  <1> QED  BY <1>6 DEF Plans, Finds

LEMMA StepKept == TypeOK /\ Kept /\ [Next]_vars => Kept'
  <1> SUFFICES ASSUME TypeOK, Kept, [Next]_vars PROVE Kept'
    OBVIOUS
  <1>t. test \in [Tests -> Fact] /\ None \notin Results
    BY ExplorationAssumption DEF ExplorationAssumption, TypeOK
  <1>1. CASE UNCHANGED test
    BY <1>1 DEF Kept
  <1>2. ASSUME NEW t \in Tests, NEW f \in BOOLEAN, test' = [test EXCEPT ![t] = Planned(f)]
        PROVE  Kept'
    BY <1>2, <1>t DEF Kept, Planned
  <1>3. ASSUME NEW t \in Tests, MarksInfeasible(t) PROVE Kept'
    BY <1>3, <1>t DEF MarksInfeasible, Kept, Fact
  <1>4. ASSUME NEW t \in Tests, NEW x \in Results, test' = Recorded(test, t, x) PROVE Kept'
    BY <1>4, <1>t DEF Recorded, Kept, Fact
  <1>5. ASSUME NEW W \in SUBSET Orders, NEW T \in SUBSET Tests, Assigns(W, T) PROVE Kept'
    BY <1>5, <1>t DEF Assigns, Kept, Fact
  <1>6. CASE UNCHANGED vars
    BY <1>6, <1>1 DEF vars, record
  <1> QED  BY <1>1, <1>2, <1>3, <1>4, <1>5, <1>6, TestMoves

\* What the question has found, and sees, is what is done.
LEMMA FoundIsDone == Kept => Question!Found = Done
  BY DEF Kept, Done, Question!Found

LEMMA Seen == Kept' /\ seen' \in {seen, Done', {}} => Question!Sees
  <1> SUFFICES ASSUME Kept', seen' \in {seen, Done', {}} PROVE Question!Sees
    OBVIOUS
  <1>1. (Question!Found = Done)'
    BY DEF Kept, Done, Question!Found
  <1> QED  BY <1>1 DEF Question!Sees

\* A step that changes neither what is planned nor what is decided is a look.
LEMMA LooksOnly ==
  ASSUME Question!Sees, UNCHANGED <<tree.budget, stop, node, charged>>,
         Running' = Running, \A t \in Tests : test'[t].result = test[t].result
  PROVE  Question!Looks
  BY DEF Question!Looks

LEMMA PlansLook ==
  ASSUME TypeOK, Kept, NEW t \in Tests, NEW f \in BOOLEAN, test[t].status = "none",
         test' = [test EXCEPT ![t] = Planned(f)]
  PROVE  Running' = Running /\ \A u \in Tests : test'[u].result = test[u].result
  <1>1. test \in [Tests -> Fact] /\ test[t].result = None
    BY DEF TypeOK, Kept
  <1> QED  BY <1>1 DEF Planned, Running

LEMMA RecordsFind ==
  ASSUME TypeOK, Kept, Question!Sees, UNCHANGED <<tree, stop, node, charged>>,
         NEW t \in Tests, NEW x \in Results, test[t].status # "done",
         test' = Recorded(test, t, x)
  PROVE  Question!Finds(t, x)
  <1> DEFINE found == [u \in Tests |-> test[u].result]
  <1>1. test \in [Tests -> Fact] /\ test[t].result = None
    BY DEF TypeOK, Kept
  <1>2. \A u \in Tests : test'[u].result = IF u = t THEN x ELSE test[u].result
    BY <1>1 DEF Recorded, Fact
  <1>3. Running' = Running \ {t}
    BY <1>1 DEF Recorded, Running, Fact
  <1>4. [u \in Tests |-> test'[u].result] = [found EXCEPT ![t] = x]
    BY <1>2
  <1> QED  BY <1>1, <1>3, <1>4 DEF Question!Finds

\* The instance counts as the tree does.
LEMMA SameCount == ASSUME NEW S PROVE Question!Cardinality(S) = Cardinality(S)
  BY DEF Question!Cardinality, Cardinality

LEMMA StepQuestion ==
  IInv /\ Kept /\ [Next]_vars => [Question!QuestionNext]_(Question!question)
  <1> SUFFICES ASSUME IInv, Kept, Next PROVE Question!QuestionNext
    BY DEF vars, record, attention, Running, Question!question
  <1>t. /\ TypeOK /\ tree \in Tree /\ test \in [Tests -> Fact]
        /\ NoTree /\ BudgetKept /\ AnsweredIsSettled /\ InView
    BY DEF IInv, TypeOK, Tree
  <1>p. Kept' /\ BudgetKept' /\ tree' \in Tree
    BY StepKept, StepInvariant, <1>t DEF IInv, TypeOK, Tree
  <1> USE DEF Question!QuestionNext
  <1>1. ASSUME \/ TurnBegins \/ TurnEnds \/ Reads \/ AssignReturns \/ Crash \/ Reflects
               \/ \E W \in SUBSET Orders : AssignsUnregistered(W)
               \/ \E o \in Orders : ExpertStarts(o) \/ ExpertEnds(o)
        PROVE  Question!QuestionNext
    <2>1. UNCHANGED <<tree, stop, node, test, charged>> /\ seen' \in {seen, Done, {}}
      BY <1>1
      DEF TurnBegins, TurnEnds, Reads, AssignReturns, Crash, Reflects, Updates, Told,
          AssignsUnregistered, ExpertStarts, ExpertEnds, record, attention
    <2>2. Running' = Running /\ Done' = Done
      BY <2>1 DEF Running, Done
    <2> QED  BY <2>1, <2>2, <1>p, Seen, LooksOnly
  <1>2. ASSUME \/ AssignOpens
               \/ \E mode \in {"ideas", "iterative"},
                     budget \in Budgets \cup {tree.budget, DefaultBudget} :
                     Starts(mode, budget) \/ Resumes(mode, budget)
        PROVE  Question!QuestionNext
    <2>1. UNCHANGED <<node, test, charged>> /\ seen' \in {seen, Done, {}} /\ stop' = "none"
      BY <1>2, <1>t DEF AssignOpens, Starts, Resumes, Resumed, Told, Unseen, NoTree
    <2>2. Running' = Running /\ Done' = Done
      BY <2>1 DEF Running, Done
    <2>3. tree'.budget \in Nat /\ Cardinality(charged) <= tree'.budget
      BY <2>1, <1>p DEF BudgetKept, Tree
    <2>4. Question!Sees
      BY <2>1, <2>2, <1>p, Seen
    <2> QED  BY <2>1, <2>2, <2>3, <2>4, SameCount DEF Question!Reopens, Exits
  <1>3. ASSUME NEW exit \in Exits \cup {"budget_exhausted", "interrupted"}, Pauses(exit)
        PROVE  Question!QuestionNext
    <2>1. /\ UNCHANGED <<node, test, charged>> /\ seen' = Done /\ stop' = exit
          /\ tree'.budget = tree.budget
          /\ exit \in Exits => Running = {} /\ Done \subseteq seen
      BY <1>3, <1>t DEF Pauses, Told, Tree, Decides, InView, NothingRuns, Exits
    <2>2. Running' = Running /\ Done' = Done
      BY <2>1 DEF Running, Done
    <2>3. Question!Sees
      BY <2>1, <2>2, <1>p, Seen
    <2>4. CASE exit \in Exits
      <3>1. Question!Answers(exit)
        BY <2>1, <2>2, <2>3, <2>4, FoundIsDone DEF Question!Answers
      <3> QED  BY <3>1, <2>4
    <2>5. CASE exit \notin Exits
      BY <2>1, <2>2, <2>3, <2>5, <1>t, SameCount DEF Question!Reopens, BudgetKept, Tree
    <2> QED  BY <2>4, <2>5
  <1>4. ASSUME NEW n \in Nodes, NEW j \in Judgments,
               node' = [node EXCEPT ![n] = j], Updates, Told(Done), UNCHANGED test
        PROVE  Question!QuestionNext
    <2>1. UNCHANGED <<tree, stop, charged>> /\ seen' = Done /\ Done \subseteq seen
      BY <1>4, <1>t DEF Updates, Decides, Told, InView
    <2>2. Running' = Running /\ Done' = Done
      BY <1>4 DEF Running, Done
    <2>3. Question!Sees
      BY <2>1, <2>2, <1>p, Seen
    <2>4. Question!Judges(n, j)
      BY <1>4, <2>1, <2>2, <2>3, FoundIsDone DEF Question!Judges
    <2> QED  BY <2>4
  <1>5. ASSUME NEW n \in Nodes, Proposes(n) PROVE Question!QuestionNext
    BY <1>4, <1>5 DEF Proposes, Judgments
  <1>6. ASSUME NEW n \in Nodes, NEW j \in Judgments, NEW t \in Tests \cup {None},
               Adjudicates(n, j, t)
        PROVE  Question!QuestionNext
    BY <1>4, <1>6 DEF Adjudicates
  <1>7. ASSUME NEW t \in Tests, NEW f \in BOOLEAN, PlansTest(t, f)
        PROVE  Question!QuestionNext
    <2>1. /\ UNCHANGED <<tree, stop, node, charged>> /\ seen' = Done
          /\ test[t].status = "none" /\ test' = [test EXCEPT ![t] = Planned(f)]
      BY <1>7 DEF PlansTest, Updates, Told
    <2>2. Done' = Done
      BY <2>1, <1>t DEF Done, Planned
    <2> QED  BY <2>1, <2>2, <1>t, <1>p, Seen, PlansLook, LooksOnly
  <1>8. ASSUME NEW t \in Tests, MarksInfeasible(t) PROVE Question!QuestionNext
    <2>1. /\ UNCHANGED <<tree, stop, node, charged>> /\ seen' = Done
          /\ test[t].status # "done" /\ test' = [test EXCEPT ![t].status = "infeasible"]
      BY <1>8 DEF MarksInfeasible, Updates, Told
    <2>2. /\ Done' = Done /\ Running' = Running \ {t}
          /\ \A u \in Tests : test'[u].result = test[u].result
      BY <2>1, <1>t DEF Done, Running, Fact
    <2>3. Question!Sees
      BY <2>1, <2>2, <1>p, Seen
    <2>4. Question!GivesUp(t)
      BY <2>1, <2>2, <2>3 DEF Question!GivesUp
    <2> QED  BY <2>4
  <1>9. ASSUME NEW t \in Tests, NEW x \in Results, Records(t, x) PROVE Question!QuestionNext
    <2>1. /\ UNCHANGED <<tree, stop, node, charged>> /\ seen' = Done \cup {t}
          /\ test[t].status # "done" /\ test' = Recorded(test, t, x)
      BY <1>9 DEF Records, Recordable, Updates, Told
    <2>2. Done' = Done \cup {t}
      BY <2>1, <1>t DEF Done, Recorded, Fact
    <2> QED  BY <2>1, <2>2, <1>t, <1>p, Seen, RecordsFind
  <1>10. ASSUME NEW W \in SUBSET Orders, NEW T \in SUBSET Tests, Assigns(W, T)
         PROVE  Question!QuestionNext
    <2> DEFINE U == {t \in T : test[t].status = "todo"}
    <2>1. /\ UNCHANGED <<stop, node, seen>> /\ charged' = charged \cup W
          /\ tree'.budget = tree.budget /\ stop \notin Exits
      BY <1>10, <1>t DEF Assigns, Unseen, Tree, AnsweredIsSettled
    <2>2. \A u \in Tests : test'[u].result = test[u].result
      BY <1>10, <1>t DEF Assigns, Fact
    <2>3. Running' = Running \cup U /\ U \cap Done = {}
      BY <1>10, <1>t DEF Assigns, Running, Done, Fact
    <2>4. Cardinality(charged') <= tree.budget
      BY <2>1, <1>p DEF BudgetKept
    <2>5. Question!Sees
      BY <2>1, <1>p, Seen
    <2>6. Question!Tries(W, U)
      BY <2>1, <2>2, <2>3, <2>4, <2>5, FoundIsDone, SameCount DEF Question!Tries
    <2> QED  BY <2>6
  <1>11. ASSUME NEW o \in Orders, NEW t \in Tests, ExpertPlans(o, t)
         PROVE  Question!QuestionNext
    <2>1. UNCHANGED <<tree, stop, node, charged, seen>>
      BY <1>11 DEF ExpertPlans, Notes, Unseen
    <2>2. Running' = Running /\ \A u \in Tests : test'[u].result = test[u].result
      BY <1>11, <1>t, PlansLook DEF ExpertPlans, Running
    <2> QED  BY <2>1, <2>2, <1>p, Seen, LooksOnly
  <1>12. ASSUME NEW o \in Orders, NEW t \in Tests, NEW x \in Results, ExpertRecords(o, t, x)
         PROVE  Question!QuestionNext
    <2>1. UNCHANGED <<tree, stop, node, charged, seen>>
      BY <1>12 DEF ExpertRecords, Notes, Unseen
    <2>2. CASE tree.exists
      <3>1. test[t].status # "done" /\ test' = Recorded(test, t, x)
        BY <1>12, <2>2 DEF ExpertRecords, Recordable
      <3> QED  BY <3>1, <2>1, <1>t, <1>p, Seen, RecordsFind
    <2>3. CASE ~tree.exists
      <3>1. UNCHANGED test
        BY <1>12, <2>3 DEF ExpertRecords
      <3>2. Running' = Running
        BY <3>1 DEF Running
      <3> QED  BY <3>1, <3>2, <2>1, <1>p, Seen, LooksOnly
    <2> QED  BY <2>2, <2>3
  <1> QED
    BY <1>1, <1>2, <1>3, <1>5, <1>6, <1>7, <1>8, <1>9, <1>10, <1>11, <1>12
    DEF Next, CoordinatorStep, ExpertStep

\* The exploration tree is one question with a budget, decided with open eyes
\* (exploration.py, apply_command): Coordinator, router and Experts, whatever they
\* interleave, replay or lose in a crash, only take steps of ResearchQuestion.
THEOREM ExplorationIsOneQuestion == Spec => QuestionRefined
  <1>1. Init => Question!QuestionInit
    <2> SUFFICES ASSUME Init PROVE Question!QuestionInit
      OBVIOUS
    <2>1. Running = {} /\ \A t \in Tests : test[t].result = None
      BY DEF Init, Running, Unplanned
    <2>2. tree.budget \in Nat
      BY ExplorationAssumption DEF ExplorationAssumption, Init
    <2> QED  BY <2>1, <2>2 DEF Init, Exits, Question!QuestionInit
  <1>2. Spec => [](IInv /\ Kept)
    <2>1. IInv => TypeOK
      BY DEF IInv
    <2> QED  BY <2>1, InitInvariant, StepInvariant, InitKept, StepKept, PTL DEF Spec
  <1> QED
    BY <1>1, <1>2, StepQuestion, PTL DEF Spec, QuestionRefined, Question!QuestionSpec
=============================================================================
