SPECIFICATION Spec
CONSTANTS
  Interval = 3
  Timeout = 7
  MaxWait = 1
  MaxTime = 24
  MaxLosses = 2
INVARIANTS
  TypeOK ReviewOnlyWhenUnknown ReviewInTime
PROPERTIES
  ActualizeIsSpaced
CHECK_DEADLOCK FALSE
