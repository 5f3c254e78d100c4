SPECIFICATION Spec
CONSTANTS
  c1 = c1  c2 = c2
  Cmds = {c1, c2}
  NoCmd = NoCmd
  MaxBuffer = 2
  AttemptCap = 3
  FloatLimit = 3
INVARIANTS
  NeverDies
CHECK_DEADLOCK FALSE
