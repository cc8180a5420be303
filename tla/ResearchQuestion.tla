---------------------------- MODULE ResearchQuestion ---------------------------
(***************************************************************************)
(* What the exploration of a research question promises, without trees,    *)
(* revisions, waves and Experts: what was found stays found; attempts are  *)
(* paid for, each once, out of a budget; and nobody judges a hypothesis or *)
(* decides the question without knowing everything that was found, or      *)
(* decides it while a test is still awaited.                               *)
(***************************************************************************)
EXTENDS Naturals, FiniteSets

CONSTANTS Nodes, Tests, Orders, Results, Judgments, Exits, None

VARIABLES
    found,    \* what each test has shown, or None
    awaited,  \* tests that were asked for
    verdict,  \* of each hypothesis
    answer,   \* the final decision, or None
    spent,    \* attempts that were paid for
    allowed,  \* how many may be
    view      \* the results the one who decides knows of

question == <<found, awaited, verdict, answer, spent, allowed, view>>

Found == {t \in Tests : found[t] # None}

QuestionInit ==
    /\ found = [t \in Tests |-> None] /\ awaited = {}
    /\ verdict = [n \in Nodes |-> "none"] /\ answer = None
    /\ spent = {} /\ allowed \in Nat /\ view = {}

\* With any step one may learn all there is to know, or have it forgotten.
Sees == view' \in {view, Found', {}}

Looks == Sees /\ UNCHANGED <<found, awaited, verdict, answer, spent, allowed>>

Finds(t, x) ==
    /\ found[t] = None /\ found' = [found EXCEPT ![t] = x]
    /\ awaited' = awaited \ {t}
    /\ Sees /\ UNCHANGED <<verdict, answer, spent, allowed>>

GivesUp(t) ==
    /\ awaited' = awaited \ {t}
    /\ Sees /\ UNCHANGED <<found, verdict, answer, spent, allowed>>

Judges(n, j) ==
    /\ Found \subseteq view
    /\ verdict' = [verdict EXCEPT ![n] = j]
    /\ Sees /\ UNCHANGED <<found, awaited, answer, spent, allowed>>

Answers(a) ==
    /\ Found \subseteq view /\ awaited = {}
    /\ answer' = a
    /\ Sees /\ UNCHANGED <<found, awaited, verdict, spent, allowed>>

\* The decision may be taken back, and the budget changed to one that covers what
\* was spent.
Reopens ==
    /\ answer' = None
    /\ allowed' \in Nat /\ Cardinality(spent) <= allowed'
    /\ Sees /\ UNCHANGED <<found, awaited, verdict, spent>>

\* Tests are asked for, and attempts paid for, only while the question is open.
Tries(W, T) ==
    /\ answer = None /\ T \cap Found = {}
    /\ spent' = spent \cup W /\ Cardinality(spent') <= allowed
    /\ awaited' = awaited \cup T
    /\ Sees /\ UNCHANGED <<found, verdict, answer, allowed>>

QuestionNext ==
    \/ Looks \/ Reopens
    \/ \E t \in Tests : GivesUp(t) \/ \E x \in Results : Finds(t, x)
    \/ \E n \in Nodes, j \in Judgments : Judges(n, j)
    \/ \E a \in Exits : Answers(a)
    \/ \E W \in SUBSET Orders, T \in SUBSET Tests : Tries(W, T)

QuestionSpec == QuestionInit /\ [][QuestionNext]_question
=============================================================================
