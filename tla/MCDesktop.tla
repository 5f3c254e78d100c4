----------------------------- MODULE MCDesktop ------------------------------
(* Instances of Desktop for TLC.                                            *)
EXTENDS Desktop
CONSTANTS i1, i2
=============================================================================
