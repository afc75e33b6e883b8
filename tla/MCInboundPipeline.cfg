SPECIFICATION FairSpec
CONSTANTS
  hello = hello
  ping = ping
  photo = photo
  again = again
  Jobs = {hello, ping, photo}
  key <- MCKey
  kind <- MCKind
  NumWebhooks = 2
  Concurrency = 2
  MaxAttempts = 2
  MaxBuffered = 2
  MaxFaults = 3
INVARIANTS
  TypeOK
  BufferBelowLimit
  AtMostOncePerWebhook
  TextIsKept
  TextIsForwardedOnce
CHECK_DEADLOCK FALSE
PROPERTIES
  JobsSettle
