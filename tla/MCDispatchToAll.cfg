SPECIFICATION Spec
CONSTANTS
  crm = crm
  audit = audit
  received = received
  connected = connected
  NoRow = NoRow
  Target = Target
  Webhooks = {crm, audit}
  Types = {received, connected}
  TestType = connected
  Subscribed <- MCSubscribed
  Edits <- MCEdits
  Past <- MCPast
  ReplayTake = 2
  MaxCalls = 2
  MaxOverlap = 1
  MaxReplays = 0
  MaxMishaps = 0
INVARIANTS
  DispatchedToAll
CHECK_DEADLOCK FALSE
