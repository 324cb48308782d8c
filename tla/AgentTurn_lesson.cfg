SPECIFICATION Spec
CONSTANTS
  Calls = {c1, c2}
  ObserveCalls = {c2}
  NoCall = NoCall
  MaxTurns = 2
  MaxRestarts = 0
  LessonChild = TRUE
PROPERTIES KeepsPromise
CHECK_DEADLOCK FALSE
