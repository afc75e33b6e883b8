SPECIFICATION Spec
CONSTANTS
  Schedules = {s1}
  Crons = {k1}
  Messages = {m1, m2}
  Broadcasts = {b1}
  StoredIds = {s1, k1, m1, m2, b1}
  Pending = {p1, p2}
  Unreadable = {p2}
  QueryAnswers = {TRUE, FALSE}
  Clients = {c1, c2}
  Pods = {w1, w2}
  Recipients = 2
  Now = 20
  Times <- MCTimes
  Windows <- MCWindows
  Attempts = 2
  MaxCalls = 3
  MaxTicks = 1
  MaxMishaps = 1
SYMMETRY MCSymmetry
INVARIANTS TypeOK RetiredHasNoJobs SentOncePerProcess SmartScheduleFitsWindow
CHECK_DEADLOCK FALSE
