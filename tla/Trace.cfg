\* Two actions, two run ids, a bus that keeps two events of one run.
SPECIFICATION MCSpec
CONSTANTS
  r1 = r1
  r2 = r2
  i1 = i1
  i2 = i2
  c1 = c1
  c2 = c2
  None = None
  Requests = {r1, r2}
  Reads = {r1}
  RunIds = {i1, i2}
  Watched = {i1}
  Conns = {c1, c2}
  MaxSteps = 2
  MAX_REPLAY_RUNS = 1
  MAX_EVENTS_PER_RUN = 2
INVARIANTS PanelFollowsRun AuditKept
PROPERTIES PanelCatchesUp
CHECK_DEADLOCK FALSE
