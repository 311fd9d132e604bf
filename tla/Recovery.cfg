SPECIFICATION SpecRecovery
CONSTANTS
  Task = t
  Run = r
  NoTask = NoTask
  NoRun = NoRun
  NoError = NoError
  NoCall = NoCall
  Workers = {w1, w2}
  Callers = {w1, w2}
  HostEffects = {e}
  Risky = {e}
  Outcomes <- Objects
  Opaque = {"object"}
  Nothing = Nothing
  MaxClaims = 2
  Operators = {}
  Evidence = {ev}
  MaxIterations = 1
  MaxTools = 2
  MaxParallel = 2
  Policies <- Boundaries
  Deadlines = FALSE
  LocalCancel = FALSE
  LeaseSeconds = 1
  MaxLag = 0
  MaxNow = 1
  MaxAttempt = 4
  MaxVersion = 6
  MaxFaults = 1
SYMMETRY Interchangeable
CHECK_DEADLOCK FALSE
INVARIANTS
  RunSound
  RunEffectsSound
