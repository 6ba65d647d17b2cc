SPECIFICATION Spec
CONSTANTS
  Keys = {k1, k2, k3}
  None = None
  NumBuckets = 2
  MaxId = 4
  Slots = 2
  MaxChanges = 3
  Needs = {0, 10240, 10241, 102400, 16777215, 16777216}
  MinLog = 10240
  MaxLog = 16777215
  MaxRetries = 10
  Attempts = 5
INVARIANTS
  TypeOK
  StableYielded
  NoRepetition
  QuerySurvivesRemovals
  VerdictReported
PROPERTY Ends
CHECK_DEADLOCK FALSE
