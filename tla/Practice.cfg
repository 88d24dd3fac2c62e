\* Three requests, two of them at once: sets of two items, one generated or more.
SPECIFICATION MCSpec
CONSTANTS
  r1 = r1
  r2 = r2
  r3 = r3
  sk = sk
  p = p
  m = m
  unknown = unknown
  s1 = s1
  s2 = s2
  c1 = c1
  p1 = p1
  g1 = g1
  g2 = g2
  None = None
  Requests = {r1, r2, r3}
  MaxInFlight = 2
  Skill = {sk, p}
  HardParents <- MCHardParents
  RootOf <- MCRootOf
  MisconceptionsOf <- MCMisconceptionsOf
  CuratedItems <- MCCuratedItems
  FreshIds = {g1, g2}
  Asked <- MCAsked
  Responses <- MCResponses
  Reports <- MCReports
  PRACTICE_SET_TARGET_SIZE = 2
  PRACTICE_SET_PREREQ_BLOCK_MIN_ITEMS = 1
  ASSESSOR_MAX_RETRIES = 1
  LOW_SCORE_MIN_ITEMS = 2
INVARIANTS SetsAreSound ConfirmedByTwo ClassesAgree
SYMMETRY Interchangeable
CHECK_DEADLOCK FALSE
