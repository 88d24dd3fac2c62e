\* Three submissions, two at once, or four one after another with every trigger.
SPECIFICATION MCSpec
CONSTANTS
  Requests = {r1, r2, r3, r4}
  Misconceptions = {m1}
  Items = {i1, i2}
  None = None
  ConfirmCount = 2
  Window = 0
  Cooldown = 1
  MaxCycles = 2
  OtherTriggers = TRUE
  MaxRacing = 3
  MaxInFlight = 2
  MaxTime = 1
SYMMETRY Interchangeable
INVARIANTS FailuresBehindStatus RowsBehindHistory
PROPERTIES WaitingPersistentStays WaitingReflectionsSpaced
CHECK_DEADLOCK FALSE
