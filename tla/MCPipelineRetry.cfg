SPECIFICATION Spec
CONSTANTS
  hello = hello
  ping = ping
  photo = photo
  again = again
  Jobs = {hello, photo, again}
  key <- MCKey
  kind <- MCKind
  NumWebhooks = 1
  Concurrency = 1
  MaxAttempts = 3
  MaxBuffered = 3
  MaxFaults = 1
INVARIANT
  OnlyDuplicatesAreDropped
CHECK_DEADLOCK FALSE
