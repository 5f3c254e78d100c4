---------------------------- MODULE MCCrmSession ----------------------------
(* Instances of CrmSession for TLC.                                         *)
EXTENDS CrmSession
CONSTANTS c1, c2
=============================================================================
