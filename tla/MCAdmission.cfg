SPECIFICATION Spec
CONSTANTS
  Clients = {c1, c2}
  ApiKeys = {"key"}
  Phones = {p1, p2}
  Guards <- MCGuards
  limit <- MClimit
  Quota = 1
  MaxRequests = 5
  Traffics <- MCTraffics
  MaxMishaps = 1
SYMMETRY Symmetry
INVARIANTS TypeOK CachesAgree RateLimitsHold 
CHECK_DEADLOCK FALSE
