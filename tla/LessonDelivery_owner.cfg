SPECIFICATION Spec
CONSTANTS
  MaxRevision = 6
  MaxAttempts = 1
  MaxRestarts = 0
  MaxLate = 0
  OtherRevisions = {}
INVARIANT OneExecution
CHECK_DEADLOCK FALSE
