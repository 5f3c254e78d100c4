SPECIFICATION Spec
CONSTANTS
  c1 = c1  c2 = c2
  Cmds = {c1, c2}
  NoCmd = NoCmd
  MaxBuffer = 2
  AttemptCap = 2
  FloatLimit = 3
INVARIANTS
  NotQueued
CHECK_DEADLOCK FALSE
