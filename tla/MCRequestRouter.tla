--------------------------- MODULE MCRequestRouter --------------------------
(* Small instances of RequestRouter for TLC. *)
EXTENDS RequestRouter, TLC

\* Requests of one kind are interchangeable; used by the safety runs only.
Symmetry == Permutations(Submits) \cup Permutations(Controls)

=============================================================================
