SPECIFICATION FairSpec
CONSTANTS
  crm = crm
  audit = audit
  received = received
  connected = connected
  NoRow = NoRow
  Target = Target
  Webhooks = {crm, audit}
  Types = {received, connected}
  TestType = connected
  Subscribed <- MCSubscribed
  Edits <- MCEdits
  Past <- MCPast
  ReplayTake = 2
  MaxCalls = 4
  MaxOverlap = 1
  MaxReplays = 1
  MaxMishaps = 1
INVARIANTS
  TypeOK
  PersistedBeforeQueued
  ResolvedMeansQueued
  ReplayKeepsOrder
PROPERTIES
  PersistedIsQueued
CHECK_DEADLOCK FALSE
