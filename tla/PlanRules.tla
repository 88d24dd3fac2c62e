------------------------------ MODULE PlanRules ------------------------------
(***************************************************************************)
(* What a plan is made of, and the hard rules of the plan validator        *)
(* (src/backend/app/planning/validator.py, validate_plan) as predicates.   *)
(*                                                                         *)
(* An objective is named by its skill: there is one objective per skill    *)
(* (objective_id_for).  A resource item names a resource and the index of  *)
(* one of its sessions; other items have neither.  An item depends on the  *)
(* item at position dep of the plan, 0 when it depends on none.  bank      *)
(* counts its practice items; their identity, the soft rules, labels and   *)
(* messages are left out.                                                  *)
(***************************************************************************)
EXTENDS GapEngine, Arrangement, SequencesExt

CONSTANTS
  Resource,   \* the resources of the catalog
  NoResource  \* the resource of an item that has none

ASSUME ResourceAssumption == NoResource \notin Resource

ItemType == {"resource", "practice", "probe", "project", "review"}
LessonType == {"resource", "practice", "project"}

PlanItem == [type : ItemType, skill : Skill, res : Resource \cup {NoResource},
             index : Nat, bank : Nat, est : Int, difficulty : Int,
             day : Int, dep : Nat]

(* What an objective may use: its resources, ranked, each with the         *)
(* sessions still to be studied, and how many practice items it has.       *)
OfferedSession(cs, r) == UNION {ToSet(cs.resources[n].sessions) :
                           n \in {k \in DOMAIN cs.resources : cs.resources[k].id = r}}
OfferedResource(cs) == {cs.resources[n].id : n \in DOMAIN cs.resources}

Minutes(items) ==
  LET upTo[n \in 0..Len(items)] == IF n = 0 THEN 0 ELSE upTo[n - 1] + items[n].est
  IN  upTo[Len(items)]

(* V1: the plan fits the budget.                                           *)
WithinBudget(items, budget) == Minutes(items) <= budget

(* V2: every item refers to what its objective offers.                     *)
RefersToCandidates(items, cands) ==
  \A n \in DOMAIN items :
    LET i == items[n] IN
      /\ i.skill \in DOMAIN cands
      /\ i.res = NoResource \/ i.res \in OfferedResource(cands[i.skill])
      /\ i.bank <= cands[i.skill].bank

(* V3: a lesson comes after each hard prerequisite that is not MET: some   *)
(* item of it on a strictly earlier day.  (The validator's second chance,  *)
(* an earlier probe of an UNVERIFIED prerequisite, is such an item too.)   *)
PrerequisitesFirst(items, status) ==
  \A n \in DOMAIN items : items[n].type \in LessonType =>
    \A p \in HardParents(items[n].skill) :
      \/ status[p] = "MET"
      \/ \E m \in DOMAIN items : /\ items[m].skill = p
                                 /\ items[m].day < items[n].day

(* V4: no item is more than one level above the learner.                   *)
WithinReach(items, level) ==
  \A n \in DOMAIN items : items[n].difficulty <= level[items[n].skill] + 1

(* V5: at most newSkillCap skills that are not MET get lessons.            *)
FewNewSkills(items, status, newSkillCap) ==
  Cardinality({s \in Skill : /\ status[s] # "MET"
                             /\ \E n \in DOMAIN items : /\ items[n].skill = s
                                                        /\ items[n].type \in LessonType})
    <= newSkillCap

(* V_DUP: a skill uses a session once, reviews apart.                      *)
NoDuplicates(items) ==
  \A m, n \in DOMAIN items :
    /\ m # n
    /\ items[m].res # NoResource
    /\ "review" \notin {items[m].type, items[n].type}
    => \/ items[m].skill # items[n].skill
       \/ items[m].res # items[n].res
       \/ items[m].index # items[n].index

(* V_SESSION: a resource item is a real session with its own length, is    *)
(* scheduled once, and the sessions scheduled of a resource are the first  *)
(* ones still to be studied, in the order of study.                        *)
SessionsInOrder(items, cands) ==
  LET study == {n \in DOMAIN items : items[n].res # NoResource}
      offered(n) == OfferedSession(cands[items[n].skill], items[n].res)
  IN  \A n \in study :
        /\ \E s \in offered(n) : s.index = items[n].index /\ s.est = items[n].est
        /\ \A m \in study \ {n} : items[m].res = items[n].res =>
             /\ items[m].index # items[n].index
             /\ items[m].index > items[n].index => items[m].day >= items[n].day
        /\ \A s \in offered(n) : s.index < items[n].index =>
             \E m \in study : items[m].res = items[n].res /\ items[m].index = s.index

(* The rules that may reject a plan, run by the Planning graph with        *)
(* enforce_sessions.                                                       *)
ValidatePlan(items, cands, gaps, budget, newSkillCap) ==
  /\ WithinBudget(items, budget)
  /\ RefersToCandidates(items, cands)
  /\ PrerequisitesFirst(items, gaps.status)
  /\ WithinReach(items, gaps.level)
  /\ FewNewSkills(items, gaps.status, newSkillCap)
  /\ NoDuplicates(items)
  /\ SessionsInOrder(items, cands)
==============================================================================
