SPECIFICATION FairSpec
CONSTANTS
  t1 = t1
  s1 = s1
  s2 = s2
  Threads = {t1}
  Sessions = {s1, s2}
  WORunMultithreaded = FALSE
  TimeOut = 1
  MaxTime = 4
  MinimumActiveSessionsCount = 1
  MaxRequests = 4
CHECK_DEADLOCK FALSE
INVARIANTS
  TypeOK
  TablesAgree
  TimedOutStaysGone
  AwakeForItsRequest
  TerminationAnnouncedOnce
PROPERTIES DrainedApplicationTerminates
