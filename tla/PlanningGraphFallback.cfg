CONSTANTS
  p = p
  s = s
  q = q
  own = own
  other = other
  shared = shared
  Skill <- MCSkill
  HardPrereq <- MCHardPrereq
  RoleLevel <- MCRoleLevel
  EdgeLevel <- MCEdgeLevel
  Weight <- MCWeight
  Urgency <- MCUrgency
  Alphabet <- MCAlphabet
  Resource <- MCResource
  NoResource = NoResource
  Targets <- MCTargets
  Duration <- MCDuration
  Bank <- MCBank
  Learners <- MCLearners
  Budgets = {54, 270}
  NewSkillCaps = {1, 3}
  SessionCaps = {45}
  DoneSets <- MCDoneSets
  Gateways <- MCGateways
  DraftItem <- MCDraftItem
  MaxDraftItems = 0
SPECIFICATION PlanningSpec
INVARIANTS FallbackIsValid
CHECK_DEADLOCK FALSE
