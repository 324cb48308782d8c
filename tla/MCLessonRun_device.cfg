SPECIFICATION Spec
CONSTANTS
  Plan <- MCExplained
  MaxAttempts = 1
  Halts = {h1, h2}
  MaxRestarts = 0
INVARIANTS DeviceIsHeld
CHECK_DEADLOCK FALSE
