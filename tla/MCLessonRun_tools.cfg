SPECIFICATION Spec
CONSTANTS
  Plan <- MCTaught
  MaxAttempts = 1
  Halts = {h1}
  MaxRestarts = 1
INVARIANTS TypeOK UncertaintySurvives NoActionAfterHalt
PROPERTIES NeverReplayed
CHECK_DEADLOCK FALSE
