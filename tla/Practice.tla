------------------------------ MODULE Practice -------------------------------
(***************************************************************************)
(* Practice sets and their grading (src/backend/app/assessment): a set is  *)
(* assembled from the item bank, short of items the Assessor Agent drafts  *)
(* more and a blind solver has to find the key of each, and a submission   *)
(* is graded against the stored keys, moves the learner's rows and is      *)
(* classified by Struggle.                                                 *)
(*                                                                         *)
(* A request is one transaction: it reads what is committed when it        *)
(* starts, the model's answers come one at a time, and it commits at its   *)
(* end or not at all.  No query for items has an order: which of the       *)
(* unseen ones fill a set is open.  What the gap engine says of the        *)
(* prerequisites is an input.  Answers of the last fourteen days count.    *)
(*                                                                         *)
(* TakeSeen and TaggedBefore are mutants of the definitions that follow    *)
(* them; no action uses them.                                              *)
(***************************************************************************)
EXTENDS Struggle, Sequences, FiniteSetsExt, SequencesExt

CONSTANTS
  Requests,
  MaxInFlight,         \* how many requests may be open at once
  Skill,
  HardParents,         \* direct hard prerequisites of each skill
  RootOf,              \* of each misconception the skill it is ROOTED_IN
  MisconceptionsOf,    \* the misconceptions catalogued for each skill
  CuratedItems,        \* the bank as seeded: item records by id
  FreshIds,            \* ids of generated items (bound on their number)
  Asked,               \* the skills and purposes clients ask sets for
  Responses,           \* what a generation call may answer: sequences of drafts
  Reports,             \* overload reports that come with a submission
  PRACTICE_SET_TARGET_SIZE,
  PRACTICE_SET_PREREQ_BLOCK_MIN_ITEMS,
  ASSESSOR_MAX_RETRIES

Purposes == {"practice", "probe", "resolution-check", "prereq-block"}

\* The catalog is sound: no skill is its own prerequisite, and the tags of an
\* item name misconceptions.
ASSUME SkillAssumption ==
  /\ HardParents \in [Skill -> SUBSET Skill] /\ \A s \in Skill : s \notin HardParents[s]
  /\ MisconceptionsOf \in [Skill -> SUBSET DOMAIN RootOf] /\ None \notin DOMAIN RootOf
ASSUME NoneAssumption == None \notin {"MET", "UNVERIFIED", "MISSING"}
ASSUME ItemsAssumption ==
  /\ IsFiniteSet(DOMAIN CuratedItems)
  /\ \A i \in DOMAIN CuratedItems : \A n \in DOMAIN CuratedItems[i].options :
       CuratedItems[i].options[n].tag \in DOMAIN RootOf \cup {None}
\* An answer of the model is a list of drafts, the options of each are a list.
Drafts == UNION {ToSet(answer) : answer \in Responses}
ASSUME ResponsesAssumption ==
  /\ Responses \subseteq Seq(Drafts)
  /\ \A draft \in Drafts : draft.options \in Seq(ToSet(draft.options))
ASSUME AskedAssumption == Asked \subseteq Skill \X (Purposes \ {"resolution-check"})
ASSUME IdAssumption == FreshIds \cap DOMAIN CuratedItems = {}
ASSUME SizeAssumption ==
  /\ PRACTICE_SET_TARGET_SIZE \in Nat /\ PRACTICE_SET_PREREQ_BLOCK_MIN_ITEMS \in Nat
  /\ ASSESSOR_MAX_RETRIES \in Nat /\ MaxInFlight \in Nat

Misconception == DOMAIN RootOf

VARIABLES
  bank,      \* practice_items: item records by id
  sets,      \* practice_sessions
  graded,    \* of each skill the items in assessments of it
  caught,    \* of each misconception the items whose answer caught it
  rows,      \* learner_skill_states
  outcome,   \* what the submission committed last has found
  req        \* the open requests

vars == <<bank, sets, graded, caught, rows, outcome, req>>

\* The Mastery Updater is LearnerState's.
Mastery == INSTANCE LearnerState WITH
  Requests <- {}, Claims <- {}, TierOf <- <<>>, MaxInFlight <- 1, MaxItems <- 0,
  state <- None, claims <- <<>>, evidence <- {}, graded <- 0, pc <- <<>>, tx <- <<>>

NoOutcome == [by |-> None, skill |-> None, answered |-> {}, signals |-> {}]
Idle == [phase |-> "idle", skill |-> None, purpose |-> None, tag |-> None, gap |-> <<>>,
         items |-> {}, attempts |-> 0, drafts |-> <<>>, made |-> <<>>, write |-> None]

Init ==
  /\ bank = CuratedItems
  /\ sets = {}
  /\ graded = [s \in Skill |-> {}]
  /\ caught = [m \in Misconception |-> {}]
  /\ rows = [s \in Skill |-> None]
  /\ outcome = NoOutcome
  /\ req = [r \in Requests |-> Idle]

Open == {r \in Requests : req[r].phase \notin {"idle", "ended"}}
MayBegin(r) == req[r].phase = "idle" /\ Cardinality(Open) < MaxInFlight

\* An exception, a lost connection: nothing of the request stays.
Fail(r) ==
  /\ r \in Open
  /\ req' = [req EXCEPT ![r] = [Idle EXCEPT !.phase = "ended"]]
  /\ UNCHANGED <<bank, sets, graded, caught, rows, outcome>>

----------------------------------------------------------------------------
(* Assembling a set.                                                       *)

ItemsFor(skill, purpose) ==
  {i \in DOMAIN bank : bank[i].skill = skill /\ bank[i].purpose = purpose}
Targets(i, m) == \E n \in DOMAIN bank[i].options : bank[i].options[n].tag = m

\* items[:n] of a query without an order.
Take(items, n) == kSubset(IF Cardinality(items) < n THEN Cardinality(items) ELSE n, items)

\* A resolution check asks items tagged with the misconception, or else any.
CheckPool(skill, m) ==
  LET all == ItemsFor(skill, "resolution-check")
      tagged == {i \in all : Targets(i, m)}
  IN  IF tagged # {} THEN tagged ELSE all

\* The gap engine knows no skill outside the role, and nothing without a
\* profile; a graded skill is no longer unverified.  Only what it says of the
\* hard prerequisites is used.
GapStatuses(skill) ==
  {g \in UNION {[S -> {"MET", "UNVERIFIED", "MISSING"}] : S \in SUBSET HardParents[skill]} :
     \A s \in DOMAIN g : g[s] = "UNVERIFIED" => rows[s] = None}

TakeSeen(skill, purpose) ==
  Take(ItemsFor(skill, purpose), PRACTICE_SET_TARGET_SIZE)
TakeUnseen(skill, purpose) ==
  Take(ItemsFor(skill, purpose) \ graded[skill], PRACTICE_SET_TARGET_SIZE)

BeginSet(r, skill, purpose, gap) ==
  /\ \E items \in TakeUnseen(skill, purpose) :
       req' = [req EXCEPT ![r] =
         [Idle EXCEPT !.skill = skill, !.purpose = purpose, !.gap = gap, !.items = items,
            !.phase = IF Cardinality(items) < PRACTICE_SET_TARGET_SIZE
                      THEN "generating" ELSE "assembled"]]
  /\ UNCHANGED <<bank, sets, graded, caught, rows, outcome>>

\* Only a reflection names the misconception; without one it is an error.
BeginCheck(r, skill, m) ==
  /\ \E items \in IF m = None THEN {{}}
                  ELSE Take(CheckPool(skill, m) \ graded[skill],
                            PRACTICE_SET_PREREQ_BLOCK_MIN_ITEMS) :
       req' = [req EXCEPT ![r] =
         [Idle EXCEPT !.skill = skill, !.purpose = "resolution-check", !.tag = m,
            !.items = items, !.phase = IF m = None THEN "ended" ELSE "assembled"]]
  /\ UNCHANGED <<bank, sets, graded, caught, rows, outcome>>

\* parse_generation_response: one bad draft rejects the answer.
WellFormed(draft, skill) ==
  /\ Len(draft.options) \in 3..5
  /\ Cardinality({n \in DOMAIN draft.options : draft.options[n].key}) = 1
  /\ \A n \in DOMAIN draft.options :
       /\ draft.options[n].tag \in MisconceptionsOf[skill] \cup {None}
       /\ draft.options[n].key => draft.options[n].tag = None
Parsed(drafts, skill) == drafts # <<>> /\ \A n \in DOMAIN drafts : WellFormed(drafts[n], skill)

\* _generate: a model that is away ends it, an answer that does not parse is
\* asked for again.
GenerationDegrades(r) ==
  /\ req[r].phase = "generating"
  /\ req' = [req EXCEPT ![r].phase = "assembled"]
  /\ UNCHANGED <<bank, sets, graded, caught, rows, outcome>>

Generate(r, drafts) ==
  /\ req[r].phase = "generating"
  /\ req' = [req EXCEPT ![r] =
       IF Parsed(drafts, @.skill) THEN [@ EXCEPT !.drafts = drafts, !.phase = "solving"]
       ELSE [@ EXCEPT !.attempts = req[r].attempts + 1,
                      !.phase = IF req[r].attempts < ASSESSOR_MAX_RETRIES
                                THEN "generating" ELSE "assembled"]]
  /\ UNCHANGED <<bank, sets, graded, caught, rows, outcome>>

KeyIndex(draft) == CHOOSE n \in DOMAIN draft.options :
  draft.options[n].key /\ \A k \in DOMAIN draft.options : draft.options[k].key => n <= k

\* The solver answers without the key, or not at all: that fails the draft.
Accepted(draft, chosen) == chosen = KeyIndex(draft)

Unused(r) == FreshIds \ (DOMAIN bank \cup UNION {DOMAIN req[q].made : q \in Requests})

Solve(r, chosen) ==
  LET draft == Head(req[r].drafts)
      row == [skill |-> req[r].skill, purpose |-> "practice", difficulty |-> draft.difficulty,
              options |-> draft.options, solved |-> chosen]
  IN
  /\ req[r].phase = "solving"
  /\ Accepted(draft, chosen) => Unused(r) # {}
  /\ req' = [req EXCEPT
       ![r].drafts = Tail(@),
       ![r].phase = IF Len(req[r].drafts) = 1 THEN "assembled" ELSE "solving",
       ![r].made = IF Accepted(draft, chosen)
                   THEN [i \in DOMAIN @ \cup {CHOOSE i \in Unused(r) : TRUE} |->
                           IF i \in DOMAIN @ THEN @[i] ELSE row]
                   ELSE @]
  /\ UNCHANGED <<bank, sets, graded, caught, rows, outcome>>

\* The prerequisite-block rule: two items on each hard prerequisite that the
\* learner only claims, seen or not.
PrereqPool(p) ==
  IF ItemsFor(p, "prereq-block") # {} THEN ItemsFor(p, "prereq-block")
  ELSE ItemsFor(p, "practice")
UnverifiedPrereqs(r) ==
  {p \in HardParents[req[r].skill] :
     req[r].purpose \in {"practice", "probe"} /\ ValueOr(req[r].gap, p, None) = "UNVERIFIED"}
PrereqBlocks(r) ==
  {UNION {choice[p] : p \in UnverifiedPrereqs(r)} :
     choice \in [UnverifiedPrereqs(r) ->
                   UNION {Take(PrereqPool(p), PRACTICE_SET_PREREQ_BLOCK_MIN_ITEMS)
                            : p \in UnverifiedPrereqs(r)}]}

CommitSet(r) ==
  /\ req[r].phase = "assembled"
  /\ \E block \in PrereqBlocks(r) :
       /\ \A p \in UnverifiedPrereqs(r) :
            {i \in block : bank[i].skill = p} \in
              Take(PrereqPool(p), PRACTICE_SET_PREREQ_BLOCK_MIN_ITEMS)
       /\ sets' = sets \cup
            {[by |-> r, skill |-> req[r].skill, purpose |-> req[r].purpose, tag |-> req[r].tag,
              items |-> req[r].items \cup DOMAIN req[r].made \cup block]}
  /\ bank' = [i \in DOMAIN bank \cup DOMAIN req[r].made |->
                IF i \in DOMAIN bank THEN bank[i] ELSE req[r].made[i]]
  /\ req' = [req EXCEPT ![r] = [Idle EXCEPT !.phase = "ended"]]
  /\ UNCHANGED <<graded, caught, rows, outcome>>

----------------------------------------------------------------------------
(* Grading a set.                                                          *)

\* grade_mcq: an index outside the options is wrong and catches nothing.
Graded(i, chosen) ==
  LET options == bank[i].options
      inside == chosen \in DOMAIN options
      correct == IF inside THEN options[chosen].key ELSE FALSE
  IN  [item |-> i, skill |-> bank[i].skill, difficulty |-> bank[i].difficulty,
       correct |-> correct,
       tag |-> IF inside /\ ~correct THEN options[chosen].tag ELSE None]

\* Every item may stay unanswered.
AnswersTo(items) ==
  LET longest == Max({Len(bank[i].options) : i \in items} \cup {0}) IN
  UNION {[S -> 0..longest] : S \in SUBSET items}

Count(outcomes, s, correct) ==
  [d \in {"easy", "medium", "hard"} |->
     Cardinality({o \in outcomes : o.skill = s /\ o.correct = correct /\ o.difficulty = d})]
RowAfter(outcomes, s) ==
  IF On(outcomes, s) = {} THEN rows[s]
  ELSE Mastery!AfterAnswers(IF rows[s] = None THEN Mastery!Unclaimed ELSE rows[s],
                            Count(outcomes, s, TRUE), Count(outcomes, s, FALSE))

\* The misconception's distinct items so far, less those of this attempt:
\* an item answered again counts once.
TaggedBefore(outcomes, m) == Cardinality(caught[m])
PriorItems(outcomes, m) == Cardinality(caught[m] \ TaggedWith(outcomes, m))

Context(outcomes, set, gap, report) ==
  LET skill == set.skill
      row == RowAfter(outcomes, skill)
      answered == On(outcomes, skill) # {}
      tags == {o.tag : o \in outcomes} \ {None}
      prereqs == HardParents[skill] \cap DOMAIN gap
  IN  [DefaultContext(skill) EXCEPT
         !.level = IF answered THEN Mastery!CurrentLevel(row) ELSE 0,
         !.estimate = IF answered THEN (100 * row.alpha) \div (row.alpha + row.beta) ELSE 0,
         !.n_obs = IF answered THEN row.n_obs ELSE 0,
         !.prereqs = [p \in prereqs |-> gap[p]],
         !.roots = [m \in tags |-> RootOf[m]],
         !.prior = [m \in tags |-> PriorItems(outcomes, m)],
         !.ratio = report.ratio, !.completion = report.completion,
         !.overloaded = report.overloaded]

\* submit_practice_set up to the routing; a resolution check is graded and
\* says whether it was passed, and nothing else moves.
BeginSubmit(r, set, answers, gap, report) ==
  /\ \E outcomes \in {{Graded(i, answers[i]) : i \in DOMAIN answers}} :
       /\ \A s \in DOMAIN gap : gap[s] = "UNVERIFIED" => On(outcomes, s) = {}
       /\ \E context \in {Context(outcomes, set, gap, report)} :
            req' = [req EXCEPT ![r] = [Idle EXCEPT
              !.phase = "submitted",
              !.write =
                IF set.purpose = "resolution-check"
                THEN [skill |-> set.skill, answered |-> outcomes, rows |-> <<>>, signals |-> {}]
                ELSE [skill |-> set.skill, answered |-> outcomes,
                      rows |-> [s \in {o.skill : o \in outcomes} |-> RowAfter(outcomes, s)],
                      signals |-> ClassifyStruggle(outcomes, context)]]]
  /\ UNCHANGED <<bank, sets, graded, caught, rows, outcome>>

CommitSubmit(r) ==
  LET w == req[r].write IN
  /\ req[r].phase = "submitted"
  /\ graded' = [graded EXCEPT ![w.skill] = @ \cup ItemsOf(w.answered)]
  /\ caught' = [m \in Misconception |-> caught[m] \cup TaggedWith(w.answered, m)]
  /\ rows' = [s \in Skill |-> ValueOr(w.rows, s, rows[s])]
  /\ outcome' = [by |-> r, skill |-> w.skill, answered |-> w.answered, signals |-> w.signals]
  /\ req' = [req EXCEPT ![r] = [Idle EXCEPT !.phase = "ended"]]
  /\ UNCHANGED <<bank, sets>>
----------------------------------------------------------------------------
Begin(r) ==
  \/ \E skill \in Skill, purpose \in Purposes : <<skill, purpose>> \in Asked /\
       \E gap \in GapStatuses(skill) : BeginSet(r, skill, purpose, gap)
  \/ \E skill \in Skill, m \in Misconception \cup {None} : BeginCheck(r, skill, m)
  \/ \E set \in sets, report \in Reports :
       \E answers \in AnswersTo(set.items), gap \in GapStatuses(set.skill) :
         BeginSubmit(r, set, answers, gap, report)

Next ==
  \E r \in Requests :
    \/ MayBegin(r) /\ Begin(r)
    \/ \E drafts \in Responses : Generate(r, drafts)
    \/ GenerationDegrades(r)
    \/ \E chosen \in (1..5) \cup {None} : Solve(r, chosen)
    \/ CommitSet(r) \/ CommitSubmit(r) \/ Fail(r)

Spec == Init /\ [][Next]_vars

----------------------------------------------------------------------------
\* An item the model wrote comes into the bank only when the solver has found
\* its key, and that is the only one; the key catches no misconception
\* (agents/assessor.py: fails the item closed).
GeneratedAreSolved ==
  \A i \in DOMAIN bank \ DOMAIN CuratedItems : \A n \in DOMAIN bank[i].options :
    /\ bank[i].options[n].key <=> n = bank[i].solved
    /\ n = bank[i].solved => bank[i].options[n].tag = None

\* The classes of one submission agree: a task is never too hard for a learner
\* who lacks a prerequisite or repeats a misconception, practice is not what a
\* repeated misconception needs, and a suspicion alone starts no reflection.
Classes(signals) == {s.class : s \in signals}
ClassesAgree ==
  LET found == Classes(outcome.signals)
      primary == PrimaryClass(outcome.signals) IN
  /\ "excessive_difficulty" \in found =>
       {"missing_prerequisite", "repeated_misconception"} \cap found = {}
  /\ ~({"insufficient_practice", "repeated_misconception"} \subseteq found)
  /\ primary # None => \E s \in outcome.signals : s.class = primary /\ s.confidence # "low"
  /\ \A s \in outcome.signals : s.class = "missing_prerequisite" =>
       s.about \in HardParents[outcome.skill] /\ s.evidence # {}

=============================================================================
