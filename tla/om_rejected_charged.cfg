SPECIFICATION Spec
CONSTANTS
  c1 = c1  c2 = c2   t1 = t1  t2 = t2  gui = gui
  Cmds = {c1}
  Checks = {}
  Tasks = {t1}
  Procs = {gui}
  CrmProcs = {gui}
  OtherStatuses = {}
  ProcOf <- OneProcess
  OwnerOf <- OwnedByGui
  NoCmd = NoCmd
  NoTask = NoTask
  MaxCrashes = 0
INVARIANTS
  RejectedNeverRuns
