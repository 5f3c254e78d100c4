SPECIFICATION FairSpec
CONSTANTS
  c1 = c1  c2 = c2
  Cmds = {c1, c2}
  NoCmd = NoCmd
  MaxBuffer = 2
  AttemptCap = 2
  FloatLimit = 3
INVARIANTS
  TypeOK ServingMeansFree
PROPERTIES
  ReconnectsUntilStopped StopHeardEnds HeardIsFinal OperationsEnd OutcomeIsTold ImplementsRunLoop
CHECK_DEADLOCK FALSE
