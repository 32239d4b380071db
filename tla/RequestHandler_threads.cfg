SPECIFICATION Spec
CONSTANTS
  t1 = t1
  t2 = t2
  s1 = s1
  s2 = s2
  Threads = {t1, t2}
  Sessions = {s1, s2}
  WORunMultithreaded = TRUE
  TimeOut = 1
  MaxTime = 2
  MinimumActiveSessionsCount = 1
  MaxRequests = 3
SYMMETRY MCSymmetry
CHECK_DEADLOCK FALSE
INVARIANTS
  RestorableIsSupervised
  NeverRestoredAfterTermination
  HandlerExclusive
  RequestsNeverStuck
PROPERTIES
  ImplementsRegistry
