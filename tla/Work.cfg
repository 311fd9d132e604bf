SPECIFICATION SpecWork
CONSTANTS
  w1 = w1
  w2 = w2
  h1 = h1
  h2 = h2
  d1 = d1
  d2 = d2
  m1 = m1
  m2 = m2
  x = x
  y = y
  Tasks = {t1}
  Runs = {q1}
  Interrupts = {}
  Operators = {}
  Evidence = {}
  UncertainErrors = {unc}
  OtherErrors = {oth}
  NoTask = NoTask
  NoRun = NoRun
  NoError = NoError
  NoCall = NoCall
  LeaseSeconds = 1
  MaxLag = 0
  MaxNow = 2
  MaxAttempt = 2
  MaxVersion = 2
  Runners = {w1, w2}
  Handlers = {h1, h2}
  Payloads <- TwoPayloads
  MaxCached = 1
  MaxTombs = 1
  MaxPosts = 3
  Callers = {w1, w2}
  Strategies = {"round_robin", "map_reduce", "select", "swarm", "external"}
  Inputs = {h1, h2}
  Results = {x, y}
  Plain = {m1}
  Durable = {m2}
  Chain <- TeamOrder
  Limit = 3
  MaxConcurrency = 2
  MaxHops = 2
  MaxAttempts = 2
  MaxCalls = 2
  MaxFaults = 2
  Nothing = NoRun
SYMMETRY Interchangeable
CHECK_DEADLOCK FALSE
INVARIANTS
  OneHistoryPerFence
  
