SPECIFICATION Spec
CONSTANTS
  Requests = {r1, r2, r3}
  Images = {r3}
  Turns = {t1, t2}
  NoTurn = NoTurn
  Handlers = {h1, h2}
  Estimate = 2
  MaxCost = 3
  Limit = 4
  ImageLimit = 1
  MessageLimit = 1
  CallLimit = 2
  Enforce = TRUE
SYMMETRY Symmetry
INVARIANTS TypeOK OnePaidCall SpendIsCommitted ReleasedTurnsOweNothing WithinLimit
PROPERTIES DecidedIsFinal
CHECK_DEADLOCK FALSE
