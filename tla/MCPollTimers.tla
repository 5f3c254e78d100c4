---------------------------- MODULE MCPollTimers ----------------------------
(* Instances of PollTimers for TLC.                                         *)
EXTENDS PollTimers
=============================================================================
