----------------------------- MODULE MCAgentUi ------------------------------
(* Instances of AgentUi for TLC: the desktop agent, one session at a time.  *)
EXTENDS AgentUi

CONSTANTS c1, c2, k1, t1, gui

OneProcess == [t \in Tasks |-> gui]
OwnedByGui == [c \in Cmds |-> gui]
=============================================================================
