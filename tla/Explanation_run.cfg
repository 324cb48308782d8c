SPECIFICATION Spec
CONSTANTS
  MaxStarts = 2
  MaxRequests = 2
  MaxBreaks = 1
  MaxLate = 1
INVARIANTS TypeOK NeverReplayed AsksUnderClaim DeviceIsFreed
PROPERTIES AskedForOnce
CHECK_DEADLOCK FALSE
