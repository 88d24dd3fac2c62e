------------------------------ MODULE GapEngine ------------------------------
(***************************************************************************)
(* The skill-gap engine (src/backend/app/gap/engine.py, analyze_gaps): a   *)
(* pure function from what is known of a learner's skills to the gaps of a *)
(* role and the objectives worth planning for.                             *)
(*                                                                         *)
(* Skill is the scope of the role: the skills it requires and the closure  *)
(* of their hard prerequisites.  A learner gives every skill the strongest *)
(* tier on file ("none" when there is no row, "claimed" for E0, "shown"    *)
(* for E1 and above) and the highest level the tier gate confirms, which   *)
(* is 0 unless something was shown.  The gate itself is in LearnerState.   *)
(* Labels, strengths, evidence ids and audit flags are left out: no step   *)
(* of planning reads them.                                                 *)
(*                                                                         *)
(* BlockedByWeakOnly is a mutant of Blocked.                               *)
(***************************************************************************)
EXTENDS Integers, Sequences, FiniteSets, FiniteSetsExt

CONSTANTS
  Skill,        \* the skills in the scope of the role
  HardPrereq,   \* the pairs <<p, s>>: p is a hard prerequisite of s
  RoleLevel,    \* the level the role requires of a skill, 0 when it requires none
  EdgeLevel,    \* the level of p the edge <<p, s>> demands
  Weight,       \* the role's weight of a skill, 0 when it requires none
  Urgency,      \* n unmet dependents to 100 * (1 + ln(1 + n)), rounded
  Alphabet      \* the rank of a skill's id among the sorted ids

ASSUME GraphAssumption ==
  /\ IsFiniteSet(Skill)
  /\ HardPrereq \subseteq Skill \X Skill
  /\ RoleLevel \in [Skill -> 0..3]
  /\ EdgeLevel \in [HardPrereq -> 1..3]
  /\ Weight \in [Skill -> 0..3]
  /\ Urgency \in [0..Cardinality(Skill) -> Nat]
  /\ Alphabet \in [Skill -> Nat]
  /\ \A s, t \in Skill : Alphabet[s] = Alphabet[t] => s = t
  \* graph/validation.py refuses a graph with a cycle
  /\ \E depth \in [Skill -> 0..Cardinality(Skill)] :
       \A e \in HardPrereq : depth[e[1]] < depth[e[2]]

(* What is known of a learner.                                             *)
LearnerRecord == [tier : {"none", "claimed"}, level : {0}]
                   \cup [tier : {"shown"}, level : 0..3]
Learner == [Skill -> LearnerRecord]

Status == {"MET", "WEAK", "UNVERIFIED", "MISSING", "BLOCKED"}

HardParents(s) == {p \in Skill : <<p, s>> \in HardPrereq}

(* The skills that depend on a skill, directly or not.                     *)
HardDescendants(s) ==
  LET dependents(T) == {d \in Skill : \E x \in T : <<x, d>> \in HardPrereq}
  IN  {d \in Skill : \A T \in SUBSET Skill : dependents(T \cup {s}) \subseteq T => d \in T}

(* The level planning aims at: the role's, or what a dependent demands.    *)
RequiredLevel(s) ==
  LET demanded == {EdgeLevel[e] : e \in {x \in HardPrereq : x[1] = s}}
      base     == IF demanded = {} THEN {1} ELSE demanded
  IN  Min({Max(base \cup {RoleLevel[s]}), 3})

RawStatus(learner, s) ==
  CASE learner[s].tier = "none"                -> "MISSING"
    [] learner[s].tier # "none"
         /\ learner[s].level >= RequiredLevel(s) -> "MET"
    [] learner[s].tier = "shown"
         /\ learner[s].level < RequiredLevel(s)  -> "WEAK"
    [] OTHER                                   -> "UNVERIFIED"

BlockedByWeakOnly(learner) ==
  {s \in Skill : /\ RawStatus(learner, s) # "MET"
                 /\ \E p \in HardParents(s) : RawStatus(learner, p) = "WEAK"}

(* An UNVERIFIED prerequisite does not block; it gets a probe first.       *)
Blocked(learner) ==
  {s \in Skill : /\ RawStatus(learner, s) # "MET"
                 /\ \E p \in HardParents(s) :
                      RawStatus(learner, p) \in {"WEAK", "MISSING"}}

RootGaps(learner) ==
  {s \in Skill : RawStatus(learner, s) # "MET"} \ Blocked(learner)

FinalStatus(learner, s) ==
  IF s \in Blocked(learner) THEN "BLOCKED" ELSE RawStatus(learner, s)

WeightReaching(s) ==
  LET reached == {Weight[d] : d \in {s} \cup HardDescendants(s)} \ {0}
  IN  IF reached = {} THEN 1 ELSE Max(reached)

UnmetDependents(learner, s) ==
  Cardinality({d \in HardDescendants(s) : RawStatus(learner, d) # "MET"})

Priority(learner, s) ==
  WeightReaching(s) * Urgency[UnmetDependents(learner, s)]

(* The topological layers of the unmet skills.                             *)
OrderingLayer(learner) ==
  LET layer[s \in Skill] ==
        LET unmet == {p \in HardParents(s) : RawStatus(learner, p) # "MET"}
        IN  IF unmet = {} THEN 0 ELSE 1 + Max({layer[p] : p \in unmet})
  IN  layer

(* One objective per root gap: a probe for a claim nobody has checked,     *)
(* otherwise a lesson.                                                     *)
Objectives(learner) ==
  [s \in RootGaps(learner) |->
     [kind     |-> IF RawStatus(learner, s) = "UNVERIFIED" THEN "probe" ELSE "lesson",
      target   |-> RequiredLevel(s),
      priority |-> Priority(learner, s),
      layer    |-> OrderingLayer(learner)[s]]]

AnalyzeGaps(learner) ==
  [status     |-> [s \in Skill |-> FinalStatus(learner, s)],
   level      |-> [s \in Skill |-> learner[s].level],
   objectives |-> Objectives(learner)]
==============================================================================
