SPECIFICATION Spec
CONSTANTS
  c1 = c1  c2 = c2   t1 = t1  t2 = t2  gui = gui
  Cmds = {c1, c2}
  Checks = {}
  Tasks = {t1, t2}
  Procs = {gui}
  CrmProcs = {gui}
  OtherStatuses = {"pending"}
  ProcOf <- OneProcess
  OwnerOf <- OwnedByGui
  NoCmd = NoCmd
  NoTask = NoTask
  MaxCrashes = 2
INVARIANTS
  TypeOK AtMostOneStart RecordedBeforeSent Truthful ToldIsRecorded NoneAbandoned OneLostPerCrash
  SingleActive RejectedStartsNever ToldIsTrue
PROPERTIES
  FinalIsFinal ReplyStands ImplementsLedger
SYMMETRY Interchangeable
