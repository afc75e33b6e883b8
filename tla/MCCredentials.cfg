SPECIFICATION Spec
CONSTANTS
  Ids = {c1, c2}
  Accounts = {acc1, acc2}
  Secrets = {s1, s2}
  MaxCalls = 3
  MaxMishaps = 1
SYMMETRY Symmetry
INVARIANTS TypeOK EventsGetThrough
CHECK_DEADLOCK FALSE
