SPECIFICATION FairSpec
CONSTANTS
  Calls = {c1, c2}
  ObserveCalls = {c2}
  NoCall = NoCall
  MaxTurns = 2
  MaxRestarts = 1
  LessonChild = FALSE
INVARIANTS TypeOK AtMostOnce ToldTheTruth NoCompletionOverUnknown
PROPERTIES KeepsPromise SettledIsFinal DurableBeforeEffect AbortedTurnsDispatchNothing TurnEnds
CHECK_DEADLOCK FALSE
