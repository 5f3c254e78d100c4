--------------------------- MODULE MCSmartPosAuth ---------------------------
(* Constants for model checking SmartPosAuth.                                *)
EXTENDS SmartPosAuth, TLC
CONSTANTS c1, c2
Symmetry == Permutations(Callers)
=============================================================================
