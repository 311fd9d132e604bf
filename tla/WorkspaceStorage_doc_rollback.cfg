CONSTANTS
  Procs = {p1, p2}
  NoProc = nobody
  MaxCrashes = 0
  MaxErrors = 1
SPECIFICATION Spec
INVARIANTS
  FailedRestoreRecoverable
