------------------------------ MODULE Struggle -------------------------------
(***************************************************************************)
(* The Struggle Classifier (src/backend/app/assessment/struggle.py): six   *)
(* rules over the answers of one submission and what is known of the       *)
(* learner, each on its own, and the order of precedence that picks the    *)
(* signal the reflection starts from.  Pure: no session, no model.         *)
(*                                                                         *)
(* An outcome is one graded answer; tag is the misconception of a wrong    *)
(* option that carries one.  Shares are compared in tenths, the mastery    *)
(* estimate is in percent.                                                 *)
(*                                                                         *)
(* ExcessiveDifficultyAlone is a mutant of the definition that follows it; *)
(* nothing uses it.                                                        *)
(***************************************************************************)
EXTENDS Integers, FiniteSets

CONSTANTS
  None,                \* no tag, nothing reported, not known
  LOW_SCORE_MIN_ITEMS

\* ItemOutcome.difficulty as DIFFICULTY_LABEL_TO_LEVEL has it.
DifficultyLevel(label) == CASE label = "easy" -> 1 [] label = "medium" -> 2 [] OTHER -> 3

\* What the caller has resolved; a field it knows nothing of keeps its default.
DefaultContext(skill) ==
  [skill |-> skill, level |-> 0, estimate |-> 0, n_obs |-> 0,
   prereqs |-> <<>>, probes |-> <<>>, roots |-> <<>>, prior |-> <<>>,
   ratio |-> None, completion |-> None, overloaded |-> FALSE, retries |-> FALSE,
   newSkills |-> 0, skillCap |-> 3, resourceDone |-> TRUE]

ValueOr(f, k, default) == IF k \in DOMAIN f THEN f[k] ELSE default

ItemsOf(outcomes) == {o.item : o \in outcomes}
On(outcomes, skill) == {o \in outcomes : o.skill = skill}
ScoreBelow(outcomes, tenths) ==
  10 * Cardinality({o \in outcomes : o.correct}) < tenths * Cardinality(outcomes)

Signal(class, confidence, evidence, about) ==
  [class |-> class, confidence |-> confidence, evidence |-> evidence, about |-> about]

LowScore(outcomes, c) ==
  LET relevant == On(outcomes, c.skill) IN
  {Signal("low_score", IF ScoreBelow(relevant, 4) THEN "medium" ELSE "low",
          ItemsOf(relevant), None)
     : x \in {y \in {relevant} : Cardinality(y) >= LOW_SCORE_MIN_ITEMS /\ ScoreBelow(y, 6)}}

\* Distinct items of this submission and of earlier ones that caught the same
\* misconception: two confirm it.
TaggedWith(outcomes, m) == ItemsOf({o \in outcomes : o.tag = m})
ConfirmedByItems(outcomes, c, m) ==
  Cardinality(TaggedWith(outcomes, m)) + ValueOr(c.prior, m, 0) >= 2
RepeatedMisconception(outcomes, c) ==
  {Signal("repeated_misconception",
          IF ConfirmedByItems(outcomes, c, m) THEN "high" ELSE "low",
          TaggedWith(outcomes, m), m)
     : m \in {o.tag : o \in outcomes} \ {None}}

\* A prerequisite that was asked and failed, or one that a misconception of
\* the skill is rooted in.
Unmet(c) == {p \in DOMAIN c.prereqs : c.prereqs[p] # "MET"}
ProbedBelow(outcomes, c, p) ==
  \/ On(outcomes, p) # {} /\ ScoreBelow(On(outcomes, p), 6)
  \/ ValueOr(c.probes, p, 10) < 6
Attributed(outcomes, c, p) ==
  {o \in On(outcomes, c.skill) : o.tag # None /\ ValueOr(c.roots, o.tag, None) = p}
MissingPrerequisite(outcomes, c) ==
  LET probed == {p \in Unmet(c) : ProbedBelow(outcomes, c, p)}
      rooted == {p \in Unmet(c) \ probed : Attributed(outcomes, c, p) # {}}
  IN  {Signal("missing_prerequisite", "high", ItemsOf(On(outcomes, p)), p) : p \in probed}
      \cup {Signal("missing_prerequisite", "medium", ItemsOf(Attributed(outcomes, c, p)), p)
              : p \in rooted}

AboveLevel(outcomes, c) ==
  {o \in On(outcomes, c.skill) : DifficultyLevel(o.difficulty) > c.level}
ExcessiveDifficultyAlone(outcomes, c) ==
  {Signal("excessive_difficulty", "medium", ItemsOf(above), None)
     : above \in {a \in {AboveLevel(outcomes, c)} : Cardinality(a) >= 2 /\ ScoreBelow(a, 5)}}
ExcessiveDifficulty(outcomes, c) ==
  {Signal("excessive_difficulty", "medium", ItemsOf(above), None)
     : above \in {a \in {AboveLevel(outcomes, c)} :
                    /\ Unmet(c) = {}
                    /\ RepeatedMisconception(outcomes, c) = {}
                    /\ Cardinality(a) >= 2 /\ ScoreBelow(a, 5)}}

\* Two of five corroborating signs; time alone is not enough.
OverloadSigns(c) ==
  [planned_vs_actual |-> IF c.ratio = None THEN FALSE ELSE c.ratio > 15,
   low_completion |-> IF c.completion = None THEN FALSE ELSE c.completion < 6,
   self_reported |-> c.overloaded, rising_retries |-> c.retries,
   too_many_new_skills |-> c.newSkills > c.skillCap]
CognitiveOverload(c) ==
  LET signs == OverloadSigns(c) IN
  IF Cardinality({k \in DOMAIN signs : signs[k]}) < 2 THEN {}
  ELSE {Signal("cognitive_overload", IF signs.self_reported THEN "high" ELSE "medium", {}, None)}

InsufficientPractice(outcomes, c) ==
  IF /\ c.n_obs < 4 /\ c.estimate < 55
     /\ RepeatedMisconception(outcomes, c) = {}
     /\ c.resourceDone
  THEN {Signal("insufficient_practice", "medium", ItemsOf(On(outcomes, c.skill)), None)}
  ELSE {}

ClassifyStruggle(outcomes, c) ==
  LowScore(outcomes, c) \cup RepeatedMisconception(outcomes, c)
    \cup MissingPrerequisite(outcomes, c) \cup ExcessiveDifficulty(outcomes, c)
    \cup CognitiveOverload(c) \cup InsufficientPractice(outcomes, c)

STRUGGLE_ACTION_PRECEDENCE ==
  <<"repeated_misconception", "missing_prerequisite", "excessive_difficulty",
    "cognitive_overload", "insufficient_practice", "low_score">>

\* primary_signal: the class a reflection acts on, or None.
Triggering(signals) == {s \in signals : s.confidence \in {"medium", "high"}}
PrimaryClass(signals) ==
  LET ranks == {n \in DOMAIN STRUGGLE_ACTION_PRECEDENCE :
                  \E s \in Triggering(signals) : s.class = STRUGGLE_ACTION_PRECEDENCE[n]}
  IN  IF ranks = {} THEN None
      ELSE STRUGGLE_ACTION_PRECEDENCE[CHOOSE n \in ranks : \A k \in ranks : n <= k]
=============================================================================
