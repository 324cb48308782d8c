SPECIFICATION FairSpec
CONSTANTS
  MaxStarts = 1
  MaxRequests = 2
  MaxBreaks = 1
  MaxLate = 0
PROPERTIES StopEnds
CHECK_DEADLOCK FALSE
