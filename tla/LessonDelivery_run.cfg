SPECIFICATION Spec
CONSTANTS
  MaxRevision = 5
  MaxAttempts = 1
  MaxRestarts = 1
  MaxLate = 1
  OtherRevisions = {4}
INVARIANTS TypeOK ClaimIsRight StepsAgree ReportedIsDurable SeenIsTrue
CHECK_DEADLOCK FALSE
