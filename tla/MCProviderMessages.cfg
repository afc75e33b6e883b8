SPECIFICATION FairSpec
CONSTANTS
  m1 = m1
  i1 = i1
  h1 = h1
  h2 = h2
  None = None
  Outbound = {m1}
  Inbound = {i1}
  Handlers = {h1, h2}
  Kinds = {"DELIVERED"}
  MaxAttempts = 2
  MaxBatch = 2
  MaxMishaps = 1
INVARIANTS
  TypeOK
  AnswersAgree
  EventsAreBacked
PROPERTIES
  KeepsLifecycle
  SendsSettle
  LateReportsArePublished
CHECK_DEADLOCK FALSE
