SPECIFICATION SpecTasks
CONSTANTS
  NoTask = NoTask
  NoRun = NoRun
  NoError = NoError
  NoCall = NoCall
  r1 = r1
  r2 = r2
  i1 = i1
  i2 = i2
  f = f
  g = g
  v = v
  w = w
  Tasks = {t1}
  Runs = {r1, r2}
  Interrupts = {i1, i2}
  Operators = {op1}
  Evidence = {seen}
  UncertainErrors = {lost}
  OtherErrors = {broke}
  LeaseSeconds = 1
  MaxLag = 1
  MaxNow = 1
  MaxAttempt = 2
  MaxVersion = 2
  Workbenches = {r1, r2}
  Files = {f, g}
  Contents = {v, w}
  Absent = NoTask
  Initial <- Original
  MaxAccidents = 1
  DurableRuns = {r1, r2}
  MaxAttempts = 2
  MaxIterations = 3
  MaxFailures = 2
  MaxCrashes = 2
SYMMETRY Interchangeable
CHECK_DEADLOCK FALSE
INVARIANTS
  ControlCoherent
  AuditTracksState
  DeliveredWhole
  RecommendationsSound
PROPERTIES
  DecisionsKept
  ImplementsFencedLog
  DecisionFinal
