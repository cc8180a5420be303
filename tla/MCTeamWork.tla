----------------------------- MODULE MCTeamWork -----------------------------
(* Instances of TeamWork for TLC: an Expert a asked twice, by one request    *)
(* after the other, and a discussion b asked together with its first round.  *)
EXTENDS TeamWork, TLC

CONSTANTS a1, b1, a2, A, B, r1, r2

MCSessionOf == [w \in Orders |-> IF w = b1 THEN B ELSE A]
MCRequestOf == [w \in Orders |-> IF w = a2 THEN r2 ELSE r1]
MCRound     == [w \in Orders |-> IF w = a2 THEN 2 ELSE 1]
MCFileOf    == [e \in Executions |-> "view"]

=============================================================================
