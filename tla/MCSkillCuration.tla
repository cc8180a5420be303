-------------------------- MODULE MCSkillCuration --------------------------
(* Small instances of SkillCuration for TLC. *)
EXTENDS SkillCuration, TLC

CONSTANTS r1, r2, t1, shipped, fresh

\* Each note is saved in a round of its own.
MCRequestOf == <<r1, r2>>
MCOneTask   == (r1 :> t1) @@ (r2 :> t1)
=============================================================================
