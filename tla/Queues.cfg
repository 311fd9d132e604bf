SPECIFICATION SpecQueues
CONSTANTS
  e1 = e1
  e2 = e2
  runA = runA
  runB = runB
  h1 = h1
  h2 = h2
  Nobody = Nobody
  AnyRun = AnyRun
  Events = {e1, e2}
  EventRuns = {runA, runB}
  RunOf <- TwoRuns
  Handles = {h1, h2}
  Filter <- OneOfEach
  BatchSize = 1
  MaxFaults = 2
CHECK_DEADLOCK FALSE
INVARIANTS
  MirrorFaithful
PROPERTIES
  EventuallyMirrored
  EveryRunSettles
  WorkflowSettles
