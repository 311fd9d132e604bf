SPECIFICATION SpecTalk
CONSTANTS
  a = a
  b = b
  i = i
  j = j
  System = System
  m1 = m1
  m2 = m2
  m3 = m3
  goal = goal
  r1 = r1
  r2 = r2
  None = None
  Conversations = {a, b}
  Messages = {m1, m2}
  Clients = {i, j}
  Requests <- OneGoal
  Runs = {r1, r2}
  RunOf <- OwnRun
  PageSize = 1
  MaxEvents = 1
  Callers = {a, b}
  RequestIds = {r1}
  Payloads = {i, j}
  Writes = {i, j}
  AllowWrites = FALSE
  Nothing = None
  MaxRestarts = 1
  Handles = {a, b}
  Prompts = {m1, m2, m3}
  MaxVersion = 4
  Processes = {a, b}
  Identities = {i, j}
  Delegations = {1}
  Grants <- ScopeSets
  Absent = None
  Hosts = {a, b}
  MessageCount = 2
  Contents = {1}
  NoPayload = None
  Limit = 2
  MaxAttempts = 3
  MaxFaults = 1
  ReplayCalls = {a, b}
  MaxSource = 2
  Ends = {"result", "rejected"}
  MaxStops = 1
  ModelCallers = {a, b}
  Effects = {i, j}
  Unasked = None
  Budget = 3
  Estimates = {1, 2}
  Usages = {0, 2}
  MaxModelAttempts = 2
  MaxModelFaults = 2
  MaxPieces = 2
  StreamAttempts = 2
  Missing = None
  Replies <- SomeReplies
  MaxIterations = 2
  MaxParallel = 2
  ToolBudget = 2
  Unset = None
  Workers = {a, b}
  StepCount = 3
  Values = {1, 2}
  Nobody = None
  MaxFlowFaults = 1
SYMMETRY Interchangeable
CHECK_DEADLOCK FALSE
INVARIANTS
  ChatFollowsRuns
  TurnsAreChained
  DeliveriesTold
  AuthorityWithinGrantor
  
  
  
  ActionsSound
  ReplaySound
  ResumesSoundly
