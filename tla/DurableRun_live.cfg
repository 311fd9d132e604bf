SPECIFICATION FairSpec
CONSTANTS
  Task = t
  Run = r
  NoTask = NoTask
  NoRun = NoRun
  NoError = NoError
  NoCall = NoCall
  Workers = {w1}
  Operators = {o}
  Evidence = {ev}
  MaxIterations = 2
  MaxTools = 1
  MaxParallel = 1
  Policies <- NoBoundary
  Deadlines = TRUE
  LocalCancel = TRUE
  LeaseSeconds = 1
  MaxLag = 0
  MaxNow = 1
  MaxAttempt = 2
  MaxVersion = 12
  MaxFaults = 1
CHECK_DEADLOCK FALSE
INVARIANTS
  StoppedMeansSettled
PROPERTIES
  EventuallySettled
