\* Two requests against one trial call: the half-open limit is hit, and completions of
\* attempts of every era meet every state; beside them a request without a breaker.
SPECIFICATION HttpFairSpec
CONSTANTS
  c1 = c1
  c2 = c2
  Callers <- MCCallers
  Bot = "slack"
  Private = {p1}
  FailureThreshold = 2
  HalfOpenMax = 1
  ResetTimeout = 2
  MaxAttempts = 2
INVARIANTS
  TypeOK
  ProbesAccounted
  CountsConsecutiveFailures
  CarriedOutOncePerLoss
PROPERTIES
  OpenIsProbed
