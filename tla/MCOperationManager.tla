------------------------- MODULE MCOperationManager -------------------------
(* Instances of OperationManager for TLC: one agent process.                *)
EXTENDS OperationManager, TLC

CONSTANTS c1, c2, t1, t2, gui

OneProcess == [t \in Tasks |-> gui]
OwnedByGui == [c \in Cmds |-> gui]

\* The commands are alike, and so are the tasks, as every run that uses this has
\* safety properties only.
Interchangeable == Permutations({c1, c2}) \cup Permutations({t1, t2})
=============================================================================
