SPECIFICATION FairSpec
CONSTANTS
  Plan <- MCExplained
  MaxAttempts = 1
  Halts = {h1, h2}
  MaxRestarts = 0
INVARIANTS RunningHasWork
PROPERTIES OverIsFinal HaltsEnd
CHECK_DEADLOCK FALSE
