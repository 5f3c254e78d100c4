SPECIFICATION FairSpec
CONSTANTS
  i1 = i1  i2 = i2
  Ids = {i1, i2}
  NoId = NoId
  Checks = {"check_connections", "register_smart_pos"}
  MaxCrashes = 1
INVARIANTS
  TypeOK NothingOutlives
PROPERTIES
  StartsConfigured AgentIdStays PostedIsAnswered StopEnds
