SPECIFICATION FairUiSpec
CONSTANTS
  c1 = c1  c2 = c2  k1 = k1  t1 = t1  gui = gui
  Cmds = {c1, k1}
  Checks = {k1}
  Tasks = {t1}
  Procs = {gui}
  CrmProcs = {gui}
  OtherStatuses = {}
  ProcOf <- OneProcess
  OwnerOf <- OwnedByGui
  NoCmd = NoCmd
  NoTask = NoTask
  MaxCrashes = 2
INVARIANTS
  UiTypeOK RunningIsShown
PROPERTIES
  EveryOperationEnds
