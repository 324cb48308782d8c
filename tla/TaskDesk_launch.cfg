SPECIFICATION Spec
CONSTANTS
  Tasks = {t1, t2}
  Explanation = Explanation
  None = None
  MaxCalls = 1
  MaxRestarts = 1
  MaxQueue = 1
  RestoreFirst = TRUE
INVARIANTS TypeOK OneAtATime NoOrphan RunningIsShown SavedIsShown
CHECK_DEADLOCK FALSE
PROPERTIES StopIsForGood
