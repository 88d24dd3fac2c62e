\* One reflection, an agent's draft of at most one operator, a chain of three skills.
SPECIFICATION FairSpec
CONSTANTS
  base = base
  top = top
  mid = mid
  r1 = r1
  Skills = {base, mid, top}
  Prereqs <- Chain
  Ancestors <- ChainAncestors
  Resources = {r1}
  None = None
  FirstPlans <- Plans
  FirstFree = 2
  GapReports <- Reports
  Budget = 80
  NewSkillCap = 2
  MaxSlot = 5
  MaxRounds = 2
  MaxOps = 1
  AgentDelays <- Delays
  AgentMinutes = {20}
  ProbeCounts = {0, 2}
  MaxReflections = 1
PROPERTIES AppliedObeysRules PolicyLosesNoWork PolicyDelaysInOrder CheckFollowsRemediation EveryReflectionEnds
CHECK_DEADLOCK FALSE
