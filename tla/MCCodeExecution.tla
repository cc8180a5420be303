-------------------------- MODULE MCCodeExecution --------------------------
(* Small instances of CodeExecution for TLC. *)
EXTENDS CodeExecution, TLC

CONSTANTS c1, c2, fit, plot, grid

MCMaxStops == (c1 :> 2) @@ (c2 :> 0)
MCProgram == (c1 :> fit) @@ (c2 :> fit)
=============================================================================
