SPECIFICATION ReplaySpec
CONSTANTS
  ReplayCalls = {e1, e2}
  MaxSource = 2
  Ends = {"result", "rejected"}
  MaxStops = 1
CHECK_DEADLOCK FALSE
INVARIANTS
  SubstitutesHaveResults
