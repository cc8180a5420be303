------------------------ MODULE MCResearchExploration -----------------------
(* Small instances of ResearchExploration for TLC. *)
EXTENDS ResearchExploration, TLC

CONSTANTS h1, h2, c1, x1, o1, o2

\* The Coordinator's test is about both hypotheses, the Expert's about none.
MCTargetsOf == (c1 :> {h1, h2}) @@ (x1 :> {})
MCAuthorOf  == (c1 :> Coordinator) @@ (x1 :> o1)
MCScopeOf   == (o1 :> {}) @@ (o2 :> {})

\* Nothing tells the results, or the two hypotheses, from one another.
Symmetry == Permutations(Results) \cup Permutations(Nodes)
=============================================================================
