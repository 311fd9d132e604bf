SPECIFICATION Spec
CONSTANTS
  NoTask = NoTask
  NoRun = NoRun
  NoError = NoError
  NoCall = NoCall
  Tasks = {t1}
  Runs = {r1}
  Interrupts = {}
  Operators = {op1}
  Evidence = {seen}
  UncertainErrors = {lost}
  OtherErrors = {bad}
  LeaseSeconds = 1
  MaxLag = 1
  MaxNow = 3
  MaxAttempt = 3
  MaxVersion = 2
CHECK_DEADLOCK FALSE
INVARIANTS
  UncertainFailureRecordable
