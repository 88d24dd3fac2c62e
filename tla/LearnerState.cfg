\* Three requests, racing or one after another.
SPECIFICATION MCSpec
CONSTANTS
  Requests = {r1, r2, r3}
  c1 = c1
  c2 = c2
  Claims = {c1, c2}
  TierOf <- ListedAndDocumented
  None = None
  MaxInFlight = 3
  MaxItems = 2
SYMMETRY Interchangeable
INVARIANTS LevelIsEarned WaitingRowIsTheRecord
PROPERTY WaitingLevelFollowsAnswers
CHECK_DEADLOCK FALSE
