SPECIFICATION HostSpec
CONSTANTS
  Callers = {a, b}
  HostEffects = {e}
  Risky = {e}
  Outcomes <- Objects
  Opaque = {"object"}
  Nothing = Nothing
  MaxClaims = 2
CHECK_DEADLOCK FALSE
INVARIANTS
  RepeatRecovers
