SPECIFICATION FairSpec
CONSTANTS
  i1 = i1  i2 = i2
  Ids = {i1, i2}
  NoId = NoId
  Checks = {"check_connections"}
  MaxCrashes = 0
PROPERTIES
  ExitEnds
