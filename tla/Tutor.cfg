\* Every kind of request, at any of five records, with commits in between.
SPECIFICATION TutorSpec
CONSTANTS
  p = p
  s = s
  q = q
  x = x
  unheard = unheard
  role = role
  e1 = e1
  e2 = e2
  e3 = e3
  w1 = w1
  v1 = v1
  v2 = v2
  i1 = i1
  i2 = i2
  i3 = i3
  o1 = o1
  d1 = d1
  d2 = d2
  g1 = g1
  m1 = m1
  best = best
  same = same
  far = far
  gone = gone
  invented = invented
  Nil = Nil
  Role = role
  Skill <- MCSkill
  HardPrereq <- MCHardPrereq
  RoleLevel <- MCRoleLevel
  EdgeLevel <- MCEdgeLevel
  Weight <- MCWeight
  Urgency <- MCUrgency
  Alphabet <- MCAlphabet
  OtherSkill = {x}
  Offers <- MCOffers
  Row <- MCRow
  History <- MCHistory
  Requests <- MCRequests
  Drafts <- MCDrafts
  MAX_GAPS_SHOWN = 1
  MAX_STRENGTHS_SHOWN = 1
  MAX_SKILL_STATES_SHOWN = 2
  MAX_EVIDENCE_IDS_PER_ROW = 1
  TUTOR_SEARCH_RESOURCES_TOP_K = 2
  PROGRESS_REPORT_NEXT_STEPS_LIMIT = 1
INVARIANTS AnswerGrounded OffersUsable ReportAddsUp
PROPERTY EveryTurnAnswers
CHECK_DEADLOCK FALSE
