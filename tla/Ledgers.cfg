SPECIFICATION SpecLedgers
CONSTANTS
  p1 = p1
  p2 = p2
  c1 = c1
  c2 = c2
  c3 = c3
  r1 = r1
  e1 = e1
  e2 = e2
  n1 = n1
  n2 = n2
  NoKey = NoKey
  NoId = NoId
  Plain = Plain
  WithRows = WithRows
  NoCall = NoCall
  Processes = {p1, p2}
  Effects = {e1, e2}
  Calls = {c1, c2, c3}
  Reconcilers = {r1}
  EffectOf <- SharedEffect
  Estimate <- Unit
  Spends = {1, 2}
  Limit = 2
  MaxCrashes = 1
  Keys = {e1, e2}
  ProviderIds = {n1, n2}
  Callers = {c1, c2}
  Inquirers = {p1, p2}
  Ids = {e1, e2}
  Payloads = {c1, c2}
  Handles = {p1, p2}
  SnapshotInterval = 1
  KeepSnapshots = 1
  MaxClaims = 2
  MaxFaults = 1
  Clients = {p1, p2}
  WriteKeys = {e1}
  Bodies = {c1, c2}
  MaxRequests = 1
  MaxId = 2
  MaxWriteFaults = 1
  Nothing = NoCall
SYMMETRY Interchangeable
CHECK_DEADLOCK FALSE
INVARIANTS
  ExecutedOnce
  AnswersAgree
  SpendAccounted
  JournalSound
  ProjectionsFollowTape
  ConnectorsSound
PROPERTIES
  OutcomeNeverRewritten
  ImplementsClaimTape
