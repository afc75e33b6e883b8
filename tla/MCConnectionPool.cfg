SPECIFICATION FairSpec
CONSTANTS
  i1 = i1
  i2 = i2
  s1 = s1
  s2 = s2
  s3 = s3
  Ids <- MCIds
  Paired <- MCPaired
  Sockets <- MCSockets
  NoSocket = NoSocket
  MaxInstances = 2
  MaxAttempts = 2
  EndModes = {"quiet", "sync", "late"}
  MaxRuns = 3
INVARIANTS
  TypeOK
  MapHoldsLiveSockets
  DisconnectedIsRetried
PROPERTIES
  DisconnectedLeaves
