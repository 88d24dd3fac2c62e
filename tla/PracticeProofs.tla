---------------------------- MODULE PracticeProofs ----------------------------
(***************************************************************************)
(* What a practice set may hold, what confirms a misconception, and that   *)
(* the classes of one submission agree: for any bank, learner and model,   *)
(* and any number of requests at once.                                     *)
(*                                                                         *)
(* The invariant says of a request what its transaction may rely on: the   *)
(* items it took were in the bank and unseen when it began, the rows the   *)
(* model wrote are solved and under ids nobody else has, and what it is    *)
(* about to commit was counted against what it had read.  What other       *)
(* requests commit meanwhile disturbs none of it: the bank only grows, and *)
(* so does what is graded.                                                 *)
(***************************************************************************)
EXTENDS MCPractice, FiniteSetTheorems, TLAPS

\* The fields of a request.
Shaped(q) ==
  q = [phase |-> q.phase, skill |-> q.skill, purpose |-> q.purpose, tag |-> q.tag, gap |-> q.gap,
       items |-> q.items, attempts |-> q.attempts, drafts |-> q.drafts, made |-> q.made,
       write |-> q.write]
Phases == {"idle", "generating", "solving", "assembled", "submitted", "ended"}

Types ==
  /\ DOMAIN req = Requests /\ DOMAIN begun = Requests
  /\ \A r \in Requests :
       /\ Shaped(req[r]) /\ req[r].phase \in Phases
       /\ req[r].phase = "idle" => req[r] = Idle
       /\ req[r].phase \in {"generating", "solving", "assembled"} => req[r].skill \in Skill

\* The bank holds the curated items, and every tag names a misconception.
TagsKnown(options) == \A n \in DOMAIN options : options[n].tag \in Misconception \cup {None}
BankSound ==
  /\ DOMAIN CuratedItems \subseteq DOMAIN bank /\ IsFiniteSet(DOMAIN bank)
  /\ \A i \in DOMAIN bank : TagsKnown(bank[i].options)
  /\ GeneratedAreSolved

\* What is graded is of the bank, and what a request saw of it is still graded.
SawOf(r) ==
  /\ \A s \in Skill : begun[r].graded[s] \subseteq DOMAIN bank
  /\ \A mc \in Misconception : begun[r].caught[mc] \subseteq caught[mc]
HistoryKept ==
  /\ graded \in [Skill -> SUBSET DOMAIN bank]
  /\ caught \in [Misconception -> SUBSET DOMAIN bank]
  /\ \A r \in Requests : SawOf(r)

\* A draft the blind solver is asked about has one key, which has no tag.
Asks(drafts, skill) ==
  /\ drafts # <<>> /\ drafts \in Seq(Drafts)
  /\ \A n \in DOMAIN drafts : WellFormed(drafts[n], skill)
DraftsOf(r) == req[r].phase = "solving" => Asks(req[r].drafts, req[r].skill)

\* A row the model wrote: its key is the option the solver chose.
Solved(row) ==
  \A n \in DOMAIN row.options :
    /\ row.options[n].key <=> n = row.solved
    /\ n = row.solved => row.options[n].tag = None
MadeOf(r) ==
  /\ IsFiniteSet(DOMAIN req[r].made)
  /\ \A i \in DOMAIN req[r].made :
       /\ req[r].made[i].skill = req[r].skill
       /\ Solved(req[r].made[i]) /\ TagsKnown(req[r].made[i].options)
\* Its id is nobody else's.
MadeApart ==
  \A r \in Requests :
    /\ DOMAIN req[r].made \cap DOMAIN bank = {}
    /\ \A q \in Requests : q # r => DOMAIN req[r].made \cap DOMAIN req[q].made = {}

\* The items taken are of the set's skill and were unseen when it was begun, and
\* a prerequisite that was unverified then had no answer.
TakenOf(r) ==
  /\ \A i \in req[r].items :
       /\ i \in DOMAIN bank /\ bank[i].skill = req[r].skill
       /\ i \notin begun[r].graded[req[r].skill]
  /\ \A s \in DOMAIN req[r].gap : req[r].gap[s] = "UNVERIFIED" => begun[r].rows[s] = None

\* What is said of the answers counts what the request had read.
Confirmed(r, answered, signals) ==
  \A signal \in signals : signal.class = "repeated_misconception" =>
    /\ signal.about \in Misconception
    /\ signal.confidence = "high" <=>
         Cardinality(begun[r].caught[signal.about] \cup TaggedWith(answered, signal.about)) >= 2
Agree(signals, skill) ==
  LET found == Classes(signals)
      primary == PrimaryClass(signals) IN
  /\ "excessive_difficulty" \in found =>
       {"missing_prerequisite", "repeated_misconception"} \cap found = {}
  /\ ~({"insufficient_practice", "repeated_misconception"} \subseteq found)
  /\ primary # None => \E s \in signals : s.class = primary /\ s.confidence # "low"
  /\ \A s \in signals : s.class = "missing_prerequisite" =>
       s.about \in HardParents[skill] /\ s.evidence # {}
WriteOf(r) ==
  req[r].phase = "submitted" =>
    LET w == req[r].write IN
    /\ w.skill \in Skill /\ ItemsOf(w.answered) \subseteq DOMAIN bank
    /\ Confirmed(r, w.answered, w.signals) /\ Agree(w.signals, w.skill)

RequestsSound == \A r \in Requests : DraftsOf(r) /\ MadeOf(r) /\ TakenOf(r) /\ WriteOf(r)

\* A set is what its request, which is over, has committed.
HoldsUnseen(set) ==
  \A i \in set.items :
    /\ i \in DOMAIN bank
    /\ bank[i].skill = set.skill => i \notin begun[set.by].graded[set.skill]
    /\ bank[i].skill # set.skill =>
         /\ set.purpose \in {"practice", "probe"}
         /\ bank[i].skill \in HardParents[set.skill]
         /\ begun[set.by].rows[bank[i].skill] = None
SetSound(set) ==
  /\ set.by \in Requests /\ req[set.by].phase = "ended" /\ set.skill \in Skill
  /\ HoldsUnseen(set)
SetsSound == \A set \in sets : SetSound(set)

\* And so is what the submission committed last has found.
OutcomeSound ==
  /\ outcome.signals # {} =>
       /\ outcome.by \in Requests /\ req[outcome.by].phase = "ended"
       /\ Confirmed(outcome.by, outcome.answered, outcome.signals)
       /\ \A mc \in Misconception : TaggedWith(outcome.answered, mc) \subseteq caught[mc]
  /\ Agree(outcome.signals, outcome.skill)

PracticeInv ==
  /\ Types /\ BankSound /\ HistoryKept /\ RequestsSound /\ MadeApart /\ SetsSound /\ OutcomeSound

-----------------------------------------------------------------------------
(* The classifier.                                                         *)

\* Each rule has its own class.
LEMMA RulesHaveClasses ==
  ASSUME NEW O, NEW c
  PROVE  /\ \A s \in LowScore(O, c) : s.class = "low_score"
         /\ \A s \in RepeatedMisconception(O, c) : s.class = "repeated_misconception"
         /\ \A s \in MissingPrerequisite(O, c) : s.class = "missing_prerequisite"
         /\ \A s \in ExcessiveDifficulty(O, c) : s.class = "excessive_difficulty"
         /\ \A s \in CognitiveOverload(c) : s.class = "cognitive_overload"
         /\ \A s \in InsufficientPractice(O, c) : s.class = "insufficient_practice"
<1>0. \A class, confidence, evidence, about : Signal(class, confidence, evidence, about).class = class
  BY DEF Signal
<1> HIDE DEF Signal
<1>1. \A s \in LowScore(O, c) : s.class = "low_score"
  BY <1>0 DEF LowScore
<1>2. \A s \in RepeatedMisconception(O, c) : s.class = "repeated_misconception"
  BY <1>0 DEF RepeatedMisconception
<1>3. \A s \in MissingPrerequisite(O, c) : s.class = "missing_prerequisite"
  BY <1>0 DEF MissingPrerequisite
<1>4. \A s \in ExcessiveDifficulty(O, c) : s.class = "excessive_difficulty"
  BY <1>0 DEF ExcessiveDifficulty
<1>5. \A s \in CognitiveOverload(c) : s.class = "cognitive_overload"
  BY <1>0 DEF CognitiveOverload
<1>6. \A s \in InsufficientPractice(O, c) : s.class = "insufficient_practice"
  BY <1>0 DEF InsufficientPractice
<1> QED
  BY <1>1, <1>2, <1>3, <1>4, <1>5, <1>6

\* The signals of a class come from its rule.
LEMMA RuleOfClass ==
  ASSUME NEW O, NEW c, NEW s \in ClassifyStruggle(O, c)
  PROVE  /\ s.class = "repeated_misconception" => s \in RepeatedMisconception(O, c)
         /\ s.class = "missing_prerequisite" => s \in MissingPrerequisite(O, c)
         /\ s.class = "excessive_difficulty" => s \in ExcessiveDifficulty(O, c)
         /\ s.class = "insufficient_practice" => s \in InsufficientPractice(O, c)
<1>1. \/ s \in LowScore(O, c) \/ s \in RepeatedMisconception(O, c) \/ s \in MissingPrerequisite(O, c)
      \/ s \in ExcessiveDifficulty(O, c) \/ s \in CognitiveOverload(c) \/ s \in InsufficientPractice(O, c)
  BY DEF ClassifyStruggle
<1> QED
  BY <1>1, RulesHaveClasses

\* What a reflection starts from is a signal that triggers one.
LEMMA PrimaryTriggers ==
  ASSUME NEW signals, PrimaryClass(signals) # None
  PROVE  \E s \in signals : s.class = PrimaryClass(signals) /\ s.confidence # "low"
<1> DEFINE ranks == {n \in DOMAIN STRUGGLE_ACTION_PRECEDENCE :
                       \E s \in Triggering(signals) : s.class = STRUGGLE_ACTION_PRECEDENCE[n]}
<1>1. ranks # {}
  BY DEF PrimaryClass
<1>2. PrimaryClass(signals) = STRUGGLE_ACTION_PRECEDENCE[CHOOSE n \in ranks : \A k \in ranks : n <= k]
  BY <1>1 DEF PrimaryClass
<1>3. ranks \subseteq 1..6
  BY DEF STRUGGLE_ACTION_PRECEDENCE
<1>4. \E n \in ranks : \A k \in ranks : n <= k
  <2> HIDE DEF ranks
  <2>1. \A k \in ranks : k = 1 \/ k = 2 \/ k = 3 \/ k = 4 \/ k = 5 \/ k = 6
    BY <1>3
  <2> QED
    BY <1>1, <2>1
<1>5. PICK n \in ranks : PrimaryClass(signals) = STRUGGLE_ACTION_PRECEDENCE[n]
  <2> HIDE DEF ranks
  <2> QED
    BY <1>2, <1>4
<1>6. PICK s \in Triggering(signals) : s.class = STRUGGLE_ACTION_PRECEDENCE[n]
  BY <1>5
<1> QED
  BY <1>5, <1>6 DEF Triggering

\* A missing prerequisite is a hard one of the skill, and answers show it.
LEMMA MissingIsShown ==
  ASSUME NEW O, NEW c, c.probes = <<>>, NEW s \in MissingPrerequisite(O, c)
  PROVE  s.about \in Unmet(c) /\ s.evidence # {}
<1>1. \A p0 : ValueOr(c.probes, p0, 10) = 10
  BY DEF ValueOr
<1>2. \A p0 : ProbedBelow(O, c, p0) => On(O, p0) # {}
  BY <1>1 DEF ProbedBelow
<1>3. \A S : S # {} => ItemsOf(S) # {}
  BY DEF ItemsOf
<1>4. \A class, confidence, evidence, about :
        LET x == Signal(class, confidence, evidence, about) IN x.evidence = evidence /\ x.about = about
  BY DEF Signal
<1>5. \/ \E p0 \in Unmet(c) : ProbedBelow(O, c, p0)
           /\ s = Signal("missing_prerequisite", "high", ItemsOf(On(O, p0)), p0)
      \/ \E p0 \in Unmet(c) : Attributed(O, c, p0) # {}
           /\ s = Signal("missing_prerequisite", "medium", ItemsOf(Attributed(O, c, p0)), p0)
  BY DEF MissingPrerequisite
<1> QED
  BY <1>2, <1>3, <1>4, <1>5

\* Whatever was answered, and whatever is known of the learner, the classes of
\* one submission agree.
LEMMA ClassifierAgrees ==
  ASSUME NEW O, NEW c, c.probes = <<>>, NEW skill, DOMAIN c.prereqs \subseteq HardParents[skill]
  PROVE  Agree(ClassifyStruggle(O, c), skill)
<1> DEFINE signals == ClassifyStruggle(O, c)
<1>1. \A s \in signals : /\ s.class = "repeated_misconception" => s \in RepeatedMisconception(O, c)
                         /\ s.class = "missing_prerequisite" => s \in MissingPrerequisite(O, c)
                         /\ s.class = "excessive_difficulty" => s \in ExcessiveDifficulty(O, c)
                         /\ s.class = "insufficient_practice" => s \in InsufficientPractice(O, c)
  BY RuleOfClass
<1>2. \A class : class \in Classes(signals) <=> \E s \in signals : s.class = class
  BY DEF Classes
<1>3. \A s \in MissingPrerequisite(O, c) : s.about \in Unmet(c) /\ s.evidence # {}
  BY MissingIsShown
<1>4. ExcessiveDifficulty(O, c) # {} => Unmet(c) = {} /\ RepeatedMisconception(O, c) = {}
  BY DEF ExcessiveDifficulty
<1>5. InsufficientPractice(O, c) # {} => RepeatedMisconception(O, c) = {}
  BY DEF InsufficientPractice
<1>6. Unmet(c) \subseteq HardParents[skill]
  BY DEF Unmet
<1> HIDE DEF signals
<1>7. "excessive_difficulty" \in Classes(signals) =>
        {"missing_prerequisite", "repeated_misconception"} \cap Classes(signals) = {}
  BY <1>1, <1>2, <1>3, <1>4
<1>8. ~({"insufficient_practice", "repeated_misconception"} \subseteq Classes(signals))
  BY <1>1, <1>2, <1>5
<1>9. PrimaryClass(signals) # None =>
        \E s \in signals : s.class = PrimaryClass(signals) /\ s.confidence # "low"
  BY PrimaryTriggers
<1>10. \A s \in signals : s.class = "missing_prerequisite" =>
         s.about \in HardParents[skill] /\ s.evidence # {}
  BY <1>1, <1>3, <1>6
<1>11. Agree(signals, skill)
  BY <1>7, <1>8, <1>9, <1>10 DEF Agree
<1> QED
  BY <1>11 DEF signals

\* Nothing found agrees with itself.
LEMMA NothingAgrees == ASSUME NEW skill PROVE Agree({}, skill)
<1>1. Classes({}) = {}
  BY DEF Classes
<1>2. PrimaryClass({}) = None
  <2>1. Triggering({}) = {}
    BY DEF Triggering
  <2>2. {n \in DOMAIN STRUGGLE_ACTION_PRECEDENCE :
           \E s \in Triggering({}) : s.class = STRUGGLE_ACTION_PRECEDENCE[n]} = {}
    BY <2>1
  <2> QED
    BY <2>2 DEF PrimaryClass
<1> QED
  BY <1>1, <1>2 DEF Agree

-----------------------------------------------------------------------------
(* What the steps of others disturb.                                       *)

Snapshots == begun' = [r \in Requests |-> IF req[r].phase = "idle" THEN Committed' ELSE begun[r]]

\* What a step may do to the committed tables.
Grows ==
  /\ DOMAIN bank \subseteq DOMAIN bank' /\ \A i \in DOMAIN bank : bank'[i] = bank[i]
  /\ graded' \in [Skill -> SUBSET DOMAIN bank'] /\ caught' \in [Misconception -> SUBSET DOMAIN bank']
  /\ \A mc \in Misconception : caught[mc] \subseteq caught'[mc]

\* A request that has begun keeps what it saw; one that has not sees the tables.
LEMMA BegunIsKept ==
  ASSUME Snapshots, NEW q \in Requests
  PROVE  /\ req[q].phase # "idle" => begun'[q] = begun[q]
         /\ req[q].phase = "idle" => begun'[q].graded = graded' /\ begun'[q].caught = caught'
                                     /\ begun'[q].rows = rows'
BY DEF Snapshots, Committed

LEMMA SawStays ==
  ASSUME PracticeInv, Snapshots, Grows, NEW q \in Requests
  PROVE  SawOf(q)'
<1>1. SawOf(q)
  BY DEF PracticeInv, HistoryKept
<1>2. CASE req[q].phase = "idle"
  BY <1>2, BegunIsKept DEF SawOf, Grows
<1>3. CASE req[q].phase # "idle"
  <2>1. begun'[q] = begun[q]
    BY <1>3, BegunIsKept
  <2> QED
    BY <1>1, <2>1 DEF SawOf, Grows
<1> QED
  BY <1>2, <1>3

\* A request that takes no step keeps what it relies on.
LEMMA OtherKeeps ==
  ASSUME PracticeInv, Snapshots, Grows, NEW q \in Requests, req'[q] = req[q]
  PROVE  DraftsOf(q)' /\ MadeOf(q)' /\ TakenOf(q)' /\ WriteOf(q)'
<1>0. DraftsOf(q) /\ MadeOf(q) /\ TakenOf(q) /\ WriteOf(q)
  BY DEF PracticeInv, RequestsSound
<1>1. DraftsOf(q)' /\ MadeOf(q)'
  BY <1>0 DEF DraftsOf, MadeOf
<1>2. CASE req[q].phase = "idle"
  <2>1. req[q] = Idle
    BY <1>2 DEF PracticeInv, Types
  <2>2. req[q].items = {} /\ DOMAIN req[q].gap = {} /\ req[q].phase # "submitted"
    BY <2>1, <1>2 DEF Idle
  <2> QED
    BY <1>1, <2>2 DEF TakenOf, WriteOf
<1>3. CASE req[q].phase # "idle"
  <2>1. begun'[q] = begun[q]
    BY <1>3, BegunIsKept
  <2>2. TakenOf(q)'
    BY <1>0, <2>1 DEF TakenOf, Grows
  <2>3. \A answered, signals : Confirmed(q, answered, signals) => Confirmed(q, answered, signals)'
    BY <2>1 DEF Confirmed
  <2>4. WriteOf(q)'
    BY <1>0, <2>3 DEF WriteOf, Grows
  <2> QED
    BY <1>1, <2>2, <2>4
<1> QED
  BY <1>2, <1>3

\* The sets and the outcome of requests that are over stay as sound as they were.
LEMMA SetStays ==
  ASSUME PracticeInv, Snapshots, Grows, NEW set \in sets, req'[set.by] = req[set.by]
  PROVE  SetSound(set)'
<1>1. SetSound(set)
  BY DEF PracticeInv, SetsSound
<1>2. set.by \in Requests /\ begun'[set.by] = begun[set.by]
  BY <1>1, BegunIsKept DEF SetSound
<1>3. HoldsUnseen(set)'
  BY <1>1, <1>2 DEF SetSound, HoldsUnseen, Grows
<1> QED
  BY <1>1, <1>3 DEF SetSound

LEMMA OutcomeStays ==
  ASSUME PracticeInv, Snapshots, Grows, outcome' = outcome,
         \A q \in Requests : req[q].phase = "ended" => req'[q] = req[q]
  PROVE  OutcomeSound'
<1>1. OutcomeSound
  BY DEF PracticeInv
<1>2. CASE outcome.signals = {}
  BY <1>1, <1>2 DEF OutcomeSound
<1>3. CASE outcome.signals # {}
  <2>1. outcome.by \in Requests /\ req[outcome.by].phase = "ended"
    BY <1>1, <1>3 DEF OutcomeSound
  <2>2. PICK by : by = outcome.by
    OBVIOUS
  <2>3. req'[by] = req[by] /\ begun'[by] = begun[by]
    BY <2>1, <2>2, BegunIsKept
  <2>4. \A answered, signals : Confirmed(by, answered, signals) => Confirmed(by, answered, signals)'
    BY <2>3 DEF Confirmed
  <2>5. outcome'.by = by
    BY <2>2
  <2>6. Confirmed(by, outcome.answered, outcome.signals)
    BY <1>1, <1>3, <2>2 DEF OutcomeSound
  <2>7. Confirmed(by, outcome.answered, outcome.signals)'
    BY <2>4, <2>6
  <2>8. \A mc \in Misconception : TaggedWith(outcome.answered, mc) \subseteq caught'[mc]
    BY <1>1, <1>3 DEF OutcomeSound, Grows
  <2>9. Agree(outcome.signals, outcome.skill)'
    BY <1>1 DEF OutcomeSound
  <2>10. outcome'.by \in Requests /\ req'[outcome'.by].phase = "ended"
    BY <2>1, <2>2, <2>3, <2>5
  <2> QED
    BY <2>2, <2>7, <2>8, <2>9, <2>10 DEF OutcomeSound
<1> QED
  BY <1>2, <1>3

Tables == <<bank, sets, graded, caught, rows, outcome>>

\* A step that leaves the tables alone leaves them sound.
LEMMA TablesStay ==
  ASSUME PracticeInv, Snapshots, UNCHANGED Tables, Grows,
         \A q \in Requests : req[q].phase = "ended" => req'[q] = req[q]
  PROVE  BankSound' /\ HistoryKept' /\ SetsSound' /\ OutcomeSound'
<1>1. BankSound'
  BY DEF PracticeInv, BankSound, Tables, GeneratedAreSolved
<1>2. HistoryKept'
  BY SawStays DEF HistoryKept, Grows
<1>3. SetsSound'
  <2> SUFFICES ASSUME NEW set \in sets PROVE SetSound(set)'
    BY DEF SetsSound, Tables
  <2>1. set.by \in Requests /\ req[set.by].phase = "ended"
    BY DEF PracticeInv, SetsSound, SetSound
  <2>2. req'[set.by] = req[set.by]
    BY <2>1
  <2> QED
    BY <2>2, SetStays
<1>4. OutcomeSound'
  BY OutcomeStays DEF Tables
<1> QED
  BY <1>1, <1>2, <1>3, <1>4

LEMMA TablesGrow ==
  ASSUME PracticeInv, UNCHANGED Tables
  PROVE  Grows
BY DEF PracticeInv, HistoryKept, Tables, Grows

\* A step that moves one request on and leaves the tables alone.
LEMMA RequestMoves ==
  ASSUME PracticeInv, Snapshots, UNCHANGED Tables, NEW r \in Requests, NEW x,
         req' = [req EXCEPT ![r] = x], req[r].phase # "ended",
         Shaped(x), x.phase \in Phases \ {"idle"},
         x.phase \in {"generating", "solving", "assembled"} => x.skill \in Skill,
         DraftsOf(r)', MadeOf(r)', TakenOf(r)', WriteOf(r)',
         DOMAIN x.made \cap DOMAIN bank = {},
         \A q \in Requests \ {r} : DOMAIN x.made \cap DOMAIN req[q].made = {}
  PROVE  PracticeInv'
<1>1. /\ DOMAIN req' = Requests /\ req'[r] = x
      /\ \A q \in Requests : q # r => req'[q] = req[q]
  BY DEF PracticeInv, Types
<1>2. Grows
  BY TablesGrow
<1>3. Types'
  <2>1. DOMAIN begun' = Requests
    BY DEF Snapshots
  <2>2. \A q \in Requests :
          /\ Shaped(req'[q]) /\ req'[q].phase \in Phases
          /\ req'[q].phase = "idle" => req'[q] = Idle
          /\ req'[q].phase \in {"generating", "solving", "assembled"} => req'[q].skill \in Skill
    BY <1>1 DEF PracticeInv, Types
  <2> QED
    BY <1>1, <2>1, <2>2 DEF Types, Shaped
<1>4. BankSound' /\ HistoryKept' /\ SetsSound' /\ OutcomeSound'
  BY <1>1, <1>2, TablesStay
<1>5. RequestsSound'
  <2> SUFFICES ASSUME NEW q \in Requests PROVE DraftsOf(q)' /\ MadeOf(q)' /\ TakenOf(q)' /\ WriteOf(q)'
    BY DEF RequestsSound
  <2>1. CASE q = r
    BY <2>1
  <2>2. CASE q # r
    BY <2>2, <1>1, <1>2, OtherKeeps
  <2> QED
    BY <2>1, <2>2
<1>6. MadeApart'
  <2>1. bank' = bank
    BY DEF Tables
  <2>2. \A q \in Requests : q # r => DOMAIN req[q].made \cap DOMAIN x.made = {}
    OBVIOUS
  <2>3. \A q, s \in Requests : q # s => DOMAIN req'[q].made \cap DOMAIN req'[s].made = {}
    BY <1>1, <2>2 DEF PracticeInv, MadeApart
  <2>4. \A q \in Requests : DOMAIN req'[q].made \cap DOMAIN bank' = {}
    BY <1>1, <2>1 DEF PracticeInv, MadeApart
  <2> QED
    BY <2>3, <2>4 DEF MadeApart
<1> QED
  BY <1>3, <1>4, <1>5, <1>6 DEF PracticeInv

\* The same, of a request that has made no row, or makes none.
LEMMA RequestMovesPlainly ==
  ASSUME PracticeInv, Snapshots, UNCHANGED Tables, NEW r \in Requests, NEW x,
         req' = [req EXCEPT ![r] = x], req[r].phase # "ended",
         Shaped(x), x.phase \in Phases \ {"idle"},
         x.phase \in {"generating", "solving", "assembled"} => x.skill \in Skill,
         DraftsOf(r)', TakenOf(r)', WriteOf(r)',
         x.made = <<>> \/ (x.made = req[r].made /\ x.skill = req[r].skill)
  PROVE  PracticeInv'
<1>1. req'[r] = x
  BY DEF PracticeInv, Types
<1>2. CASE x.made = <<>>
  <2>1. DOMAIN x.made = {}
    BY <1>2
  <2>2. MadeOf(r)'
    BY <1>1, <2>1, FS_EmptySet DEF MadeOf
  <2> QED
    BY <2>1, <2>2, RequestMoves
<1>3. CASE x.made = req[r].made /\ x.skill = req[r].skill
  <2>1. MadeOf(r)'
    BY <1>1, <1>3 DEF PracticeInv, RequestsSound, MadeOf
  <2>2. DOMAIN x.made \cap DOMAIN bank = {} /\ \A q \in Requests \ {r} : DOMAIN x.made \cap DOMAIN req[q].made = {}
    BY <1>3 DEF PracticeInv, MadeApart
  <2> QED
    BY <2>1, <2>2, RequestMoves
<1> QED
  BY <1>2, <1>3

-----------------------------------------------------------------------------
(* The steps that assemble a set.                                          *)

LEMMA Taking ==
  ASSUME NEW items, NEW n, NEW pool, items \in Take(pool, n)
  PROVE  items \subseteq pool
<1>1. \A k : kSubset(k, pool) \subseteq SUBSET pool
  BY DEF kSubset
<1> QED
  BY <1>1 DEF Take

LEMMA FailStep ==
  ASSUME PracticeInv, Snapshots, NEW r \in Requests, Fail(r)
  PROVE  PracticeInv'
<1>1. PICK x : x = [Idle EXCEPT !.phase = "ended"]
  OBVIOUS
<1>2. req' = [req EXCEPT ![r] = x] /\ UNCHANGED Tables /\ req[r].phase # "ended" /\ req'[r] = x
  BY <1>1 DEF Fail, Open, Tables, PracticeInv, Types
<1>3. Shaped(x) /\ x.phase = "ended" /\ x.made = <<>> /\ x.items = {} /\ x.gap = <<>>
  BY <1>1 DEF Idle, Shaped
<1>4. DraftsOf(r)' /\ TakenOf(r)' /\ WriteOf(r)'
  <2>1. DOMAIN x.gap = {}
    BY <1>3
  <2> QED
    BY <1>2, <1>3, <2>1 DEF DraftsOf, TakenOf, WriteOf
<1> QED
  BY <1>2, <1>3, <1>4, RequestMovesPlainly DEF Phases

LEMMA BeginSetStep ==
  ASSUME PracticeInv, Snapshots, NEW r \in Requests, MayBegin(r), NEW skill \in Skill, NEW purpose,
         NEW gap \in GapStatuses(skill), BeginSet(r, skill, purpose, gap)
  PROVE  PracticeInv'
<1>1. PICK items \in TakeUnseen(skill, purpose) :
        req' = [req EXCEPT ![r] =
          [Idle EXCEPT !.skill = skill, !.purpose = purpose, !.gap = gap, !.items = items,
             !.phase = IF Cardinality(items) < PRACTICE_SET_TARGET_SIZE
                       THEN "generating" ELSE "assembled"]]
  BY DEF BeginSet
<1>2. PICK x : x = [Idle EXCEPT !.skill = skill, !.purpose = purpose, !.gap = gap, !.items = items,
                      !.phase = IF Cardinality(items) < PRACTICE_SET_TARGET_SIZE
                                THEN "generating" ELSE "assembled"]
  OBVIOUS
<1>3. req' = [req EXCEPT ![r] = x] /\ UNCHANGED Tables /\ req[r].phase = "idle" /\ req'[r] = x
  BY <1>1, <1>2 DEF BeginSet, MayBegin, Tables, PracticeInv, Types
<1>4. /\ Shaped(x) /\ x.phase \in {"generating", "assembled"} /\ x.made = <<>>
      /\ x.items = items /\ x.gap = gap /\ x.skill = skill
  BY <1>2 DEF Idle, Shaped
<1>5. \A i \in items : i \in DOMAIN bank /\ bank[i].skill = skill /\ i \notin graded[skill]
  BY Taking DEF TakeUnseen, ItemsFor
<1>6. \A s \in DOMAIN gap : gap[s] = "UNVERIFIED" => rows[s] = None
  BY DEF GapStatuses
<1>7. begun'[r].graded = graded /\ begun'[r].rows = rows
  BY <1>3, BegunIsKept DEF Tables
<1>8. TakenOf(r)'
  BY <1>3, <1>4, <1>5, <1>6, <1>7 DEF TakenOf, Tables
<1>9. DraftsOf(r)' /\ WriteOf(r)'
  BY <1>3, <1>4 DEF DraftsOf, WriteOf
<1> QED
  BY <1>3, <1>4, <1>8, <1>9, RequestMovesPlainly DEF Phases

LEMMA BeginCheckStep ==
  ASSUME PracticeInv, Snapshots, NEW r \in Requests, MayBegin(r), NEW skill \in Skill, NEW mc,
         BeginCheck(r, skill, mc)
  PROVE  PracticeInv'
<1>1. PICK items \in IF mc = None THEN {{}}
                     ELSE Take(CheckPool(skill, mc) \ graded[skill], PRACTICE_SET_PREREQ_BLOCK_MIN_ITEMS) :
        req' = [req EXCEPT ![r] =
          [Idle EXCEPT !.skill = skill, !.purpose = "resolution-check", !.tag = mc,
             !.items = items, !.phase = IF mc = None THEN "ended" ELSE "assembled"]]
  BY DEF BeginCheck
<1>2. PICK x : x = [Idle EXCEPT !.skill = skill, !.purpose = "resolution-check", !.tag = mc,
                      !.items = items, !.phase = IF mc = None THEN "ended" ELSE "assembled"]
  OBVIOUS
<1>3. req' = [req EXCEPT ![r] = x] /\ UNCHANGED Tables /\ req[r].phase = "idle" /\ req'[r] = x
  BY <1>1, <1>2 DEF BeginCheck, MayBegin, Tables, PracticeInv, Types
<1>4. /\ Shaped(x) /\ x.phase \in {"ended", "assembled"} /\ x.made = <<>>
      /\ x.items = items /\ x.gap = <<>> /\ x.skill = skill
  BY <1>2 DEF Idle, Shaped
<1>5. CheckPool(skill, mc) \subseteq ItemsFor(skill, "resolution-check")
  BY DEF CheckPool
<1>6. items \subseteq ItemsFor(skill, "resolution-check") \ graded[skill]
  BY <1>5, Taking
<1>7. \A i \in items : i \in DOMAIN bank /\ bank[i].skill = skill /\ i \notin graded[skill]
  BY <1>6 DEF ItemsFor
<1>8. begun'[r].graded = graded
  BY <1>3, BegunIsKept DEF Tables
<1>9. TakenOf(r)'
  <2>1. DOMAIN x.gap = {}
    BY <1>4
  <2> QED
    BY <1>3, <1>4, <1>7, <1>8, <2>1 DEF TakenOf, Tables
<1>10. DraftsOf(r)' /\ WriteOf(r)'
  BY <1>3, <1>4 DEF DraftsOf, WriteOf
<1> QED
  BY <1>3, <1>4, <1>9, <1>10, RequestMovesPlainly DEF Phases

\* An open request keeps the items it took.
LEMMA TakenStays ==
  ASSUME PracticeInv, Snapshots, UNCHANGED Tables, NEW r \in Requests, req[r].phase # "idle",
         req'[r].items = req[r].items, req'[r].gap = req[r].gap, req'[r].skill = req[r].skill
  PROVE  TakenOf(r)'
<1>1. begun'[r] = begun[r]
  BY BegunIsKept
<1>2. TakenOf(r)
  BY DEF PracticeInv, RequestsSound
<1> QED
  BY <1>1, <1>2 DEF TakenOf, Tables

LEMMA GenerationDegradesStep ==
  ASSUME PracticeInv, Snapshots, NEW r \in Requests, GenerationDegrades(r)
  PROVE  PracticeInv'
<1>1. PICK x : x = [req[r] EXCEPT !.phase = "assembled"]
  OBVIOUS
<1>2. req' = [req EXCEPT ![r] = x] /\ UNCHANGED Tables /\ req[r].phase = "generating" /\ req'[r] = x
  BY <1>1 DEF GenerationDegrades, Tables, PracticeInv, Types
<1>3. Shaped(req[r]) /\ req[r].skill \in Skill
  BY <1>2 DEF PracticeInv, Types
<1>4. /\ Shaped(x) /\ x.phase = "assembled" /\ x.made = req[r].made
      /\ x.items = req[r].items /\ x.gap = req[r].gap /\ x.skill = req[r].skill
  BY <1>1, <1>3 DEF Shaped
<1>5. TakenOf(r)'
  BY <1>2, <1>4, TakenStays
<1>6. DraftsOf(r)' /\ WriteOf(r)'
  BY <1>2, <1>4 DEF DraftsOf, WriteOf
<1> QED
  BY <1>2, <1>3, <1>4, <1>5, <1>6, RequestMovesPlainly DEF Phases

LEMMA GenerateStep ==
  ASSUME PracticeInv, Snapshots, NEW r \in Requests, NEW drafts \in Responses, Generate(r, drafts)
  PROVE  PracticeInv'
<1>1. /\ UNCHANGED Tables /\ req[r].phase = "generating" /\ Shaped(req[r]) /\ req[r].skill \in Skill
      /\ DOMAIN req = Requests
  BY DEF Generate, Tables, PracticeInv, Types
<1>2. CASE Parsed(drafts, req[r].skill)
  <2>1. PICK x : x = [req[r] EXCEPT !.drafts = drafts, !.phase = "solving"]
    OBVIOUS
  <2>2. req' = [req EXCEPT ![r] = x] /\ req'[r] = x
    BY <1>1, <1>2, <2>1 DEF Generate
  <2>3. /\ Shaped(x) /\ x.phase = "solving" /\ x.made = req[r].made /\ x.drafts = drafts
        /\ x.items = req[r].items /\ x.gap = req[r].gap /\ x.skill = req[r].skill
    BY <1>1, <2>1 DEF Shaped
  <2>4. TakenOf(r)'
    BY <1>1, <2>2, <2>3, TakenStays
  <2>5. Asks(drafts, req[r].skill)
    BY <1>2, ResponsesAssumption DEF Parsed, Asks
  <2>6. DraftsOf(r)' /\ WriteOf(r)'
    BY <2>2, <2>3, <2>5 DEF DraftsOf, WriteOf
  <2> QED
    BY <1>1, <2>2, <2>3, <2>4, <2>6, RequestMovesPlainly DEF Phases
<1>3. CASE ~ Parsed(drafts, req[r].skill)
  <2>1. PICK x : x = [req[r] EXCEPT !.attempts = req[r].attempts + 1,
                        !.phase = IF req[r].attempts < ASSESSOR_MAX_RETRIES
                                  THEN "generating" ELSE "assembled"]
    OBVIOUS
  <2>2. req' = [req EXCEPT ![r] = x] /\ req'[r] = x
    BY <1>1, <1>3, <2>1 DEF Generate
  <2>3. /\ Shaped(x) /\ x.phase \in {"generating", "assembled"} /\ x.made = req[r].made
        /\ x.items = req[r].items /\ x.gap = req[r].gap /\ x.skill = req[r].skill
    BY <1>1, <2>1 DEF Shaped
  <2>4. TakenOf(r)'
    BY <1>1, <2>2, <2>3, TakenStays
  <2>5. DraftsOf(r)' /\ WriteOf(r)'
    BY <2>2, <2>3 DEF DraftsOf, WriteOf
  <2> QED
    BY <1>1, <2>2, <2>3, <2>4, <2>5, RequestMovesPlainly DEF Phases
<1> QED
  BY <1>2, <1>3

\* The index the solver has to find is that of the one key of a draft.
LEMMA KeyIsTheOnly ==
  ASSUME NEW skill \in Skill, NEW draft, WellFormed(draft, skill),
         draft.options \in Seq(ToSet(draft.options))
  PROVE  \A n \in DOMAIN draft.options :
           /\ draft.options[n].key <=> n = KeyIndex(draft)
           /\ n = KeyIndex(draft) => draft.options[n].tag = None
           /\ draft.options[n].tag \in Misconception \cup {None}
<1> DEFINE keys == {n \in DOMAIN draft.options : draft.options[n].key}
<1>1. Len(draft.options) \in Nat /\ DOMAIN draft.options = 1..Len(draft.options)
  OBVIOUS
<1>2. IsFiniteSet(DOMAIN draft.options)
  BY <1>1, FS_Interval
<1>3. IsFiniteSet(keys)
  BY <1>2, FS_Subset
<1>4. PICK n0 : keys = {n0}
  BY <1>3, FS_Singleton DEF WellFormed
<1>5. n0 \in DOMAIN draft.options /\ draft.options[n0].key
  BY <1>4
<1>6. \A n \in DOMAIN draft.options : draft.options[n].key => n = n0
  BY <1>4
<1>7. KeyIndex(draft) = n0
  <2>1. n0 \in Nat
    BY <1>1, <1>5
  <2>2. \A k \in DOMAIN draft.options : draft.options[k].key => n0 <= k
    BY <1>6, <2>1
  <2> QED
    BY <1>5, <1>6, <2>2 DEF KeyIndex
<1>8. \A n \in DOMAIN draft.options :
        /\ draft.options[n].tag \in MisconceptionsOf[skill] \cup {None}
        /\ draft.options[n].key => draft.options[n].tag = None
  BY DEF WellFormed
<1>9. MisconceptionsOf[skill] \subseteq Misconception
  BY SkillAssumption DEF Misconception
<1> QED
  BY <1>5, <1>6, <1>7, <1>8, <1>9

\* What is left of the drafts is as well formed.
LEMMA AsksRest ==
  ASSUME NEW drafts, NEW skill, Asks(drafts, skill)
  PROVE  /\ WellFormed(Head(drafts), skill) /\ Head(drafts).options \in Seq(ToSet(Head(drafts).options))
         /\ Len(drafts) # 1 => Asks(Tail(drafts), skill)
<1>1. drafts \in Seq(Drafts) /\ drafts # <<>> /\ \A n \in DOMAIN drafts : WellFormed(drafts[n], skill)
  BY DEF Asks
<1>2. Len(drafts) \in Nat /\ Len(drafts) > 0 /\ DOMAIN drafts = 1..Len(drafts)
  BY <1>1
<1>3. Head(drafts) = drafts[1] /\ 1 \in DOMAIN drafts /\ Head(drafts) \in Drafts
  BY <1>1, <1>2
<1>4. /\ Tail(drafts) \in Seq(Drafts) /\ Len(Tail(drafts)) = Len(drafts) - 1
      /\ \A n \in 1..Len(drafts) - 1 : Tail(drafts)[n] = drafts[n + 1] /\ n + 1 \in DOMAIN drafts
  BY <1>1, <1>2
<1>5. ASSUME Len(drafts) # 1 PROVE Asks(Tail(drafts), skill)
  <2> PICK rest : rest = Tail(drafts)
    OBVIOUS
  <2>1. rest \in Seq(Drafts) /\ Len(rest) = Len(drafts) - 1 /\ Len(rest) > 0
    BY <1>2, <1>4, <1>5
  <2>2. DOMAIN rest = 1..Len(rest) /\ rest # <<>>
    <3>1. DOMAIN rest = 1..Len(rest)
      BY <2>1
    <3>2. 1 \in DOMAIN rest
      <4>1. Len(rest) \in Nat /\ Len(rest) > 0
        BY <1>2, <2>1
      <4> QED
        BY <3>1, <4>1
    <3>3. \A n : n \notin DOMAIN <<>>
      OBVIOUS
    <3> QED
      BY <3>1, <3>2, <3>3, Zenon
  <2>3. \A n \in DOMAIN rest : WellFormed(rest[n], skill)
    BY <1>1, <1>4, <2>1, <2>2
  <2> QED
    BY <2>1, <2>2, <2>3 DEF Asks
<1> QED
  BY <1>1, <1>3, <1>5, ResponsesAssumption

\* Whose row the solver has accepted.
LEMMA AcceptedIsSolved ==
  ASSUME NEW skill \in Skill, NEW draft, WellFormed(draft, skill),
         draft.options \in Seq(ToSet(draft.options)), NEW chosen, Accepted(draft, chosen), NEW row,
         row = [skill |-> skill, purpose |-> "practice", difficulty |-> draft.difficulty,
                options |-> draft.options, solved |-> chosen]
  PROVE  row.skill = skill /\ Solved(row) /\ TagsKnown(row.options)
<1>1. row.skill = skill /\ row.options = draft.options /\ row.solved = KeyIndex(draft)
  BY DEF Accepted
<1>2. \A n \in DOMAIN draft.options :
        /\ draft.options[n].key <=> n = KeyIndex(draft)
        /\ n = KeyIndex(draft) => draft.options[n].tag = None
        /\ draft.options[n].tag \in Misconception \cup {None}
  BY KeyIsTheOnly
<1> QED
  BY <1>1, <1>2 DEF Solved, TagsKnown

LEMMA SolveStep ==
  ASSUME PracticeInv, Snapshots, NEW r \in Requests, NEW chosen, Solve(r, chosen)
  PROVE  PracticeInv'
<1>1. /\ UNCHANGED Tables /\ req[r].phase = "solving" /\ Shaped(req[r]) /\ req[r].skill \in Skill
      /\ DOMAIN req = Requests
  BY DEF Solve, Tables, PracticeInv, Types
<1>2. PICK drafts, skill, made : drafts = req[r].drafts /\ skill = req[r].skill /\ made = req[r].made
  OBVIOUS
<1>3. PICK draft : draft = Head(drafts)
  OBVIOUS
<1>4. PICK row : row = [skill |-> skill, purpose |-> "practice", difficulty |-> draft.difficulty,
                        options |-> draft.options, solved |-> chosen]
  OBVIOUS
<1>5. Asks(drafts, skill)
  BY <1>1, <1>2 DEF PracticeInv, RequestsSound, DraftsOf
<1>6. /\ WellFormed(draft, skill) /\ draft.options \in Seq(ToSet(draft.options))
      /\ Len(drafts) # 1 => Asks(Tail(drafts), skill)
  BY <1>3, <1>5, AsksRest
<1>7. PICK id : id = CHOOSE i \in Unused(r) : TRUE
  OBVIOUS
<1>8. Accepted(draft, chosen) =>
        id \notin DOMAIN bank /\ \A q \in Requests : id \notin DOMAIN req[q].made
  BY <1>2, <1>3, <1>7 DEF Solve, Unused
<1>9. PICK after : after = IF Accepted(draft, chosen)
                           THEN [i \in DOMAIN made \cup {id} |-> IF i \in DOMAIN made THEN made[i] ELSE row]
                           ELSE made
  OBVIOUS
<1>10. PICK x : x = [req[r] EXCEPT !.drafts = Tail(drafts),
                       !.phase = IF Len(drafts) = 1 THEN "assembled" ELSE "solving", !.made = after]
  OBVIOUS
<1>11. req' = [req EXCEPT ![r] = x] /\ req'[r] = x
  BY <1>1, <1>2, <1>3, <1>4, <1>7, <1>9, <1>10 DEF Solve
<1>12. /\ Shaped(x) /\ x.made = after /\ x.drafts = Tail(drafts)
       /\ x.items = req[r].items /\ x.gap = req[r].gap /\ x.skill = skill
       /\ x.phase \in {"assembled", "solving"}
       /\ x.phase = "solving" => Len(drafts) # 1
  BY <1>1, <1>2, <1>10 DEF Shaped
<1>13. TakenOf(r)'
  BY <1>1, <1>2, <1>11, <1>12, TakenStays
<1>14. DraftsOf(r)' /\ WriteOf(r)'
  BY <1>6, <1>11, <1>12 DEF DraftsOf, WriteOf
<1>15. /\ IsFiniteSet(DOMAIN made) /\ DOMAIN made \cap DOMAIN bank = {}
       /\ \A q \in Requests \ {r} : DOMAIN made \cap DOMAIN req[q].made = {}
       /\ \A i \in DOMAIN made : made[i].skill = skill /\ Solved(made[i]) /\ TagsKnown(made[i].options)
  BY <1>2 DEF PracticeInv, RequestsSound, MadeOf, MadeApart
<1>16. /\ IsFiniteSet(DOMAIN after) /\ DOMAIN after \cap DOMAIN bank = {}
       /\ \A q \in Requests \ {r} : DOMAIN after \cap DOMAIN req[q].made = {}
       /\ \A i \in DOMAIN after : after[i].skill = skill /\ Solved(after[i]) /\ TagsKnown(after[i].options)
  <2>1. CASE ~ Accepted(draft, chosen)
    BY <1>9, <1>15, <2>1
  <2>2. CASE Accepted(draft, chosen)
    <3>1. DOMAIN after = DOMAIN made \cup {id}
          /\ \A i \in DOMAIN after : after[i] = IF i \in DOMAIN made THEN made[i] ELSE row
      BY <1>9, <2>2
    <3>2. IsFiniteSet(DOMAIN after)
      BY <1>15, <3>1, FS_AddElement
    <3>3. DOMAIN after \cap DOMAIN bank = {}
          /\ \A q \in Requests \ {r} : DOMAIN after \cap DOMAIN req[q].made = {}
      BY <1>8, <1>15, <2>2, <3>1
    <3>4. row.skill = skill /\ Solved(row) /\ TagsKnown(row.options)
      BY <1>1, <1>2, <1>4, <1>6, <2>2, AcceptedIsSolved
    <3>5. \A i \in DOMAIN after : after[i].skill = skill /\ Solved(after[i]) /\ TagsKnown(after[i].options)
      BY <1>15, <3>1, <3>4
    <3> QED
      BY <3>2, <3>3, <3>5
  <2> QED
    BY <2>1, <2>2
<1>17. MadeOf(r)'
  BY <1>11, <1>12, <1>16 DEF MadeOf
<1>18. x.made = after /\ x.phase \in Phases \ {"idle"}
  BY <1>12 DEF Phases
<1> QED
  BY <1>1, <1>2, <1>11, <1>12, <1>13, <1>14, <1>16, <1>17, <1>18, RequestMoves

\* The items of a prerequisite block are on hard prerequisites of the skill
\* that were unverified when the request began.
LEMMA BlocksAreUnverified ==
  ASSUME PracticeInv, NEW r \in Requests, req[r].phase = "assembled", NEW block \in PrereqBlocks(r),
         NEW i \in block
  PROVE  /\ i \in DOMAIN bank /\ req[r].purpose \in {"practice", "probe"}
         /\ bank[i].skill \in HardParents[req[r].skill] /\ bank[i].skill # req[r].skill
         /\ begun[r].rows[bank[i].skill] = None
<1> DEFINE UP == UnverifiedPrereqs(r)
<1>1. PICK choice \in [UP -> UNION {Take(PrereqPool(pre), PRACTICE_SET_PREREQ_BLOCK_MIN_ITEMS) : pre \in UP}] :
        block = UNION {choice[pre] : pre \in UP}
  BY DEF PrereqBlocks
<1>2. PICK pre0 \in UP : i \in choice[pre0]
  BY <1>1
<1>3. PICK pre \in UP : choice[pre0] \in Take(PrereqPool(pre), PRACTICE_SET_PREREQ_BLOCK_MIN_ITEMS)
  BY <1>1, <1>2
<1>4. i \in PrereqPool(pre)
  BY <1>2, <1>3, Taking
<1>5. i \in DOMAIN bank /\ bank[i].skill = pre
  BY <1>4 DEF PrereqPool, ItemsFor
<1>6. /\ pre \in HardParents[req[r].skill] /\ req[r].purpose \in {"practice", "probe"}
      /\ pre \in DOMAIN req[r].gap /\ req[r].gap[pre] = "UNVERIFIED"
  BY NoneAssumption DEF UnverifiedPrereqs, ValueOr
<1>7. begun[r].rows[pre] = None
  BY <1>6 DEF PracticeInv, RequestsSound, TakenOf
<1>8. req[r].skill \in Skill
  BY DEF PracticeInv, Types
<1> QED
  BY <1>5, <1>6, <1>7, <1>8, SkillAssumption

\* A step that ends a request leaves the others' rows apart, its own going to
\* the bank or away.
LEMMA EndingKeepsApart ==
  ASSUME PracticeInv, NEW r \in Requests,
         req' = [req EXCEPT ![r] = [Idle EXCEPT !.phase = "ended"]],
         DOMAIN bank' \subseteq DOMAIN bank \cup DOMAIN req[r].made
  PROVE  MadeApart'
<1>1. /\ DOMAIN req'[r].made = {}
      /\ \A q \in Requests : q # r => req'[q] = req[q]
  BY DEF PracticeInv, Types, Idle
<1>2. \A q \in Requests : DOMAIN req'[q].made \cap DOMAIN bank' = {}
  BY <1>1 DEF PracticeInv, MadeApart
<1>3. \A q, s \in Requests : q # s => DOMAIN req'[q].made \cap DOMAIN req'[s].made = {}
  BY <1>1 DEF PracticeInv, MadeApart
<1> QED
  BY <1>2, <1>3 DEF MadeApart

\* What holds of the requests when one ends with a commit.
LEMMA EndingStep ==
  ASSUME PracticeInv, Snapshots, Grows, NEW r \in Requests, req[r].phase \notin {"idle", "ended"},
         req' = [req EXCEPT ![r] = [Idle EXCEPT !.phase = "ended"]],
         DOMAIN bank' \subseteq DOMAIN bank \cup DOMAIN req[r].made
  PROVE  /\ Types' /\ HistoryKept' /\ RequestsSound' /\ MadeApart'
         /\ req'[r].phase = "ended" /\ begun'[r] = begun[r]
         /\ \A q \in Requests : req[q].phase = "ended" => req'[q] = req[q]
         /\ \A set \in sets : SetSound(set)'
<1>1. PICK x : x = [Idle EXCEPT !.phase = "ended"]
  OBVIOUS
<1>2. /\ DOMAIN req' = Requests /\ req'[r] = x
      /\ \A q \in Requests : q # r => req'[q] = req[q]
  BY <1>1 DEF PracticeInv, Types
<1>3. Shaped(x) /\ x.phase = "ended" /\ x.made = <<>> /\ x.items = {} /\ x.gap = <<>>
  BY <1>1 DEF Idle, Shaped
<1>4. DraftsOf(r)' /\ MadeOf(r)' /\ TakenOf(r)' /\ WriteOf(r)'
  <2>1. DOMAIN x.gap = {} /\ DOMAIN x.made = {}
    BY <1>3
  <2> QED
    BY <1>2, <1>3, <2>1, FS_EmptySet DEF DraftsOf, MadeOf, TakenOf, WriteOf
<1>5. RequestsSound'
  <2> SUFFICES ASSUME NEW q \in Requests PROVE DraftsOf(q)' /\ MadeOf(q)' /\ TakenOf(q)' /\ WriteOf(q)'
    BY DEF RequestsSound
  <2>1. CASE q = r
    BY <1>4, <2>1
  <2>2. CASE q # r
    BY <1>2, <2>2, OtherKeeps
  <2> QED
    BY <2>1, <2>2
<1>6. Types'
  <2>1. DOMAIN begun' = Requests
    BY DEF Snapshots
  <2>2. \A q \in Requests :
          /\ Shaped(req'[q]) /\ req'[q].phase \in Phases
          /\ req'[q].phase = "idle" => req'[q] = Idle
          /\ req'[q].phase \in {"generating", "solving", "assembled"} => req'[q].skill \in Skill
    BY <1>2, <1>3 DEF PracticeInv, Types, Phases
  <2> QED
    BY <1>2, <2>1, <2>2 DEF Types, Shaped
<1>7. HistoryKept'
  BY SawStays DEF HistoryKept, Grows
<1>8. MadeApart'
  BY EndingKeepsApart
<1>9. begun'[r] = begun[r]
  BY BegunIsKept
<1>10. \A set \in sets : SetSound(set)'
  <2> SUFFICES ASSUME NEW set \in sets PROVE SetSound(set)'
    OBVIOUS
  <2>1. set.by \in Requests /\ req[set.by].phase = "ended"
    BY DEF PracticeInv, SetsSound, SetSound
  <2>2. req'[set.by] = req[set.by]
    BY <1>2, <2>1
  <2> QED
    BY <2>2, SetStays
<1> QED
  BY <1>2, <1>3, <1>5, <1>6, <1>7, <1>8, <1>9, <1>10

LEMMA CommitSetStep ==
  ASSUME PracticeInv, Snapshots, NEW r \in Requests, CommitSet(r)
  PROVE  PracticeInv'
<1>1. PICK block \in PrereqBlocks(r) :
        sets' = sets \cup
          {[by |-> r, skill |-> req[r].skill, purpose |-> req[r].purpose, tag |-> req[r].tag,
            items |-> req[r].items \cup DOMAIN req[r].made \cup block]}
  BY DEF CommitSet
<1>2. PICK made, skill : made = req[r].made /\ skill = req[r].skill
  OBVIOUS
<1>3. PICK set : set = [by |-> r, skill |-> skill, purpose |-> req[r].purpose, tag |-> req[r].tag,
                        items |-> req[r].items \cup DOMAIN made \cup block]
  OBVIOUS
<1>4. /\ req[r].phase = "assembled" /\ sets' = sets \cup {set}
      /\ DOMAIN bank' = DOMAIN bank \cup DOMAIN made
      /\ \A i \in DOMAIN bank \cup DOMAIN made : bank'[i] = IF i \in DOMAIN bank THEN bank[i] ELSE made[i]
      /\ req' = [req EXCEPT ![r] = [Idle EXCEPT !.phase = "ended"]]
      /\ UNCHANGED <<graded, caught, rows, outcome>>
  BY <1>1, <1>2, <1>3 DEF CommitSet
<1>5. /\ IsFiniteSet(DOMAIN made) /\ DOMAIN made \cap DOMAIN bank = {}
      /\ \A i \in DOMAIN made : made[i].skill = skill /\ Solved(made[i]) /\ TagsKnown(made[i].options)
  BY <1>2 DEF PracticeInv, RequestsSound, MadeOf, MadeApart
<1>6. Grows
  BY <1>4 DEF PracticeInv, HistoryKept, Grows
<1>7. /\ Types' /\ HistoryKept' /\ RequestsSound' /\ MadeApart'
      /\ req'[r].phase = "ended" /\ begun'[r] = begun[r]
      /\ \A q \in Requests : req[q].phase = "ended" => req'[q] = req[q]
      /\ \A s \in sets : SetSound(s)'
  BY <1>2, <1>4, <1>6, EndingStep
<1>8. BankSound'
  <2>1. DOMAIN CuratedItems \subseteq DOMAIN bank' /\ IsFiniteSet(DOMAIN bank')
    BY <1>4, <1>5, FS_Union DEF PracticeInv, BankSound
  <2>2. \A i \in DOMAIN bank' : TagsKnown(bank'[i].options)
    BY <1>4, <1>5 DEF PracticeInv, BankSound
  <2>3. \A i \in DOMAIN bank \ DOMAIN CuratedItems : Solved(bank[i])
    BY DEF PracticeInv, BankSound, GeneratedAreSolved, Solved
  <2>4. \A i \in DOMAIN bank' \ DOMAIN CuratedItems : Solved(bank'[i])
    BY <1>4, <1>5, <2>3
  <2>5. GeneratedAreSolved'
    BY <2>4 DEF GeneratedAreSolved, Solved
  <2> QED
    BY <2>1, <2>2, <2>5 DEF BankSound, TagsKnown
<1>9. SetSound(set)'
  <2>1. set.by = r /\ set.skill = skill /\ set.purpose = req[r].purpose
        /\ set.items = req[r].items \cup DOMAIN made \cup block
    BY <1>3
  <2>2. skill \in Skill
    BY <1>2, <1>4 DEF PracticeInv, Types
  <2>3. \A i \in req[r].items : /\ i \in DOMAIN bank' /\ bank'[i].skill = skill
                                /\ i \notin begun[r].graded[skill]
    BY <1>2, <1>4 DEF PracticeInv, RequestsSound, TakenOf
  <2>4. \A i \in DOMAIN made : /\ i \in DOMAIN bank' /\ bank'[i].skill = skill
                               /\ i \notin begun[r].graded[skill]
    BY <1>4, <1>5, <2>2 DEF PracticeInv, HistoryKept, SawOf
  <2>5. \A i \in block : /\ i \in DOMAIN bank' /\ set.purpose \in {"practice", "probe"}
                         /\ bank'[i].skill \in HardParents[skill] /\ bank'[i].skill # skill
                         /\ begun[r].rows[bank'[i].skill] = None
    BY <1>2, <1>4, <2>1, BlocksAreUnverified
  <2>6. HoldsUnseen(set)'
    BY <1>7, <2>1, <2>3, <2>4, <2>5 DEF HoldsUnseen
  <2> QED
    BY <1>7, <2>1, <2>2, <2>6 DEF SetSound
<1>10. SetsSound'
  BY <1>4, <1>7, <1>9 DEF SetsSound
<1>11. OutcomeSound'
  BY <1>4, <1>6, <1>7, OutcomeStays
<1> QED
  BY <1>7, <1>8, <1>10, <1>11 DEF PracticeInv

-----------------------------------------------------------------------------
(* The steps that grade a set.                                             *)

\* Prior items and those of this submission, less the ones counted twice, are
\* the distinct items that caught a misconception.
LEMMA CountedOnce ==
  ASSUME NEW A, NEW B, IsFiniteSet(A), IsFiniteSet(B)
  PROVE  Cardinality(A) + Cardinality(B \ A) = Cardinality(B \cup A)
<1>1. IsFiniteSet(B \ A)
  BY FS_Subset
<1>2. A \cap (B \ A) = {} /\ A \cup (B \ A) = B \cup A
  OBVIOUS
<1>3. Cardinality(A \cup (B \ A)) = Cardinality(A) + Cardinality(B \ A) - Cardinality(A \cap (B \ A))
  BY <1>1, FS_Union
<1>4. Cardinality(A \cap (B \ A)) = 0
  BY <1>2, FS_EmptySet
<1>5. Cardinality(A) \in Nat /\ Cardinality(B \ A) \in Nat
  BY <1>1, FS_CardinalityType
<1>6. Cardinality(B \cup A) = Cardinality(A) + Cardinality(B \ A) - 0
  BY <1>2, <1>3, <1>4
<1> QED
  BY <1>5, <1>6

\* The graded answers of a set are on items of the bank, and their tags name
\* misconceptions.
LEMMA OutcomesFit ==
  ASSUME PracticeInv, NEW answers, DOMAIN answers \subseteq DOMAIN bank, NEW outcomes,
         outcomes = {Graded(i, answers[i]) : i \in DOMAIN answers}
  PROVE  /\ ItemsOf(outcomes) \subseteq DOMAIN bank
         /\ \A o \in outcomes : o.tag \in Misconception \cup {None}
<1>1. \A i \in DOMAIN answers :
        Graded(i, answers[i]).item = i /\ Graded(i, answers[i]).tag \in Misconception \cup {None}
  <2> SUFFICES ASSUME NEW i \in DOMAIN answers
               PROVE  Graded(i, answers[i]).item = i /\ Graded(i, answers[i]).tag \in Misconception \cup {None}
    OBVIOUS
  <2>1. TagsKnown(bank[i].options)
    BY DEF PracticeInv, BankSound
  <2> QED
    BY <2>1 DEF Graded, TagsKnown
<1>2. \A o \in outcomes : o.item \in DOMAIN bank /\ o.tag \in Misconception \cup {None}
  BY <1>1
<1> QED
  BY <1>2 DEF ItemsOf

\* What the classifier is told of the misconceptions and the prerequisites.
LEMMA ContextFits ==
  ASSUME NEW outcomes, NEW set, NEW gap, NEW report, NEW c, c = Context(outcomes, set, gap, report)
  PROVE  /\ c.probes = <<>>
         /\ DOMAIN c.prereqs \subseteq HardParents[set.skill]
         /\ \A mc \in {o.tag : o \in outcomes} \ {None} :
              ValueOr(c.prior, mc, 0) = PriorItems(outcomes, mc)
<1>1. c.probes = <<>>
  BY DEF Context, DefaultContext
<1>2. c.prereqs = [pre \in HardParents[set.skill] \cap DOMAIN gap |-> gap[pre]]
  BY DEF Context, DefaultContext
<1>3. c.prior = [mc \in {o.tag : o \in outcomes} \ {None} |-> PriorItems(outcomes, mc)]
  BY DEF Context, DefaultContext
<1> QED
  BY <1>1, <1>2, <1>3 DEF ValueOr

\* The classifier confirms a misconception when two distinct items have caught it.
LEMMA ClassifierConfirms ==
  ASSUME PracticeInv, NEW outcomes, NEW c,
         ItemsOf(outcomes) \subseteq DOMAIN bank,
         \A o \in outcomes : o.tag \in Misconception \cup {None},
         \A mc \in {o.tag : o \in outcomes} \ {None} :
           ValueOr(c.prior, mc, 0) = PriorItems(outcomes, mc)
  PROVE  \A signal \in ClassifyStruggle(outcomes, c) : signal.class = "repeated_misconception" =>
           /\ signal.about \in Misconception
           /\ signal.confidence = "high" <=>
                Cardinality(caught[signal.about] \cup TaggedWith(outcomes, signal.about)) >= 2
<1> SUFFICES ASSUME NEW signal \in ClassifyStruggle(outcomes, c), signal.class = "repeated_misconception"
             PROVE  /\ signal.about \in Misconception
                    /\ signal.confidence = "high" <=>
                         Cardinality(caught[signal.about] \cup TaggedWith(outcomes, signal.about)) >= 2
  OBVIOUS
<1>1. PICK mc \in {o.tag : o \in outcomes} \ {None} :
        signal = Signal("repeated_misconception", IF ConfirmedByItems(outcomes, c, mc) THEN "high" ELSE "low",
                        TaggedWith(outcomes, mc), mc)
  BY RuleOfClass DEF RepeatedMisconception
<1>2. signal.about = mc /\ signal.confidence = IF ConfirmedByItems(outcomes, c, mc) THEN "high" ELSE "low"
  BY <1>1 DEF Signal
<1>3. mc \in Misconception
  OBVIOUS
<1>4. IsFiniteSet(DOMAIN bank) /\ caught[mc] \subseteq DOMAIN bank
  BY <1>3 DEF PracticeInv, BankSound, HistoryKept
<1>5. TaggedWith(outcomes, mc) \subseteq DOMAIN bank
  BY DEF TaggedWith, ItemsOf
<1>6. IsFiniteSet(caught[mc]) /\ IsFiniteSet(TaggedWith(outcomes, mc))
  BY <1>4, <1>5, FS_Subset
<1>7. Cardinality(TaggedWith(outcomes, mc)) + PriorItems(outcomes, mc)
        = Cardinality(caught[mc] \cup TaggedWith(outcomes, mc))
  BY <1>6, CountedOnce DEF PriorItems
<1>8. ConfirmedByItems(outcomes, c, mc) <=> Cardinality(caught[mc] \cup TaggedWith(outcomes, mc)) >= 2
  BY <1>7 DEF ConfirmedByItems
<1> QED
  BY <1>2, <1>3, <1>8

LEMMA BeginSubmitStep ==
  ASSUME PracticeInv, Snapshots, NEW r \in Requests, MayBegin(r), NEW set \in sets, NEW report,
         NEW answers \in AnswersTo(set.items), NEW gap, BeginSubmit(r, set, answers, gap, report)
  PROVE  PracticeInv'
<1>1. PICK outcomes : outcomes = {Graded(i, answers[i]) : i \in DOMAIN answers}
  OBVIOUS
<1>2. PICK c : c = Context(outcomes, set, gap, report)
  OBVIOUS
<1>3. PICK w : w = IF set.purpose = "resolution-check"
                   THEN [skill |-> set.skill, answered |-> outcomes, rows |-> <<>>, signals |-> {}]
                   ELSE [skill |-> set.skill, answered |-> outcomes,
                         rows |-> [s \in {o.skill : o \in outcomes} |-> RowAfter(outcomes, s)],
                         signals |-> ClassifyStruggle(outcomes, c)]
  OBVIOUS
<1>4. PICK x : x = [Idle EXCEPT !.phase = "submitted", !.write = w]
  OBVIOUS
<1>5. req' = [req EXCEPT ![r] = x] /\ UNCHANGED Tables /\ req[r].phase = "idle" /\ req'[r] = x
  <2>1. req' = [req EXCEPT ![r] = x]
    BY <1>1, <1>2, <1>3, <1>4 DEF BeginSubmit
  <2> QED
    BY <2>1 DEF BeginSubmit, MayBegin, Tables, PracticeInv, Types
<1>6. /\ Shaped(x) /\ x.phase = "submitted" /\ x.made = <<>> /\ x.items = {} /\ x.gap = <<>>
      /\ x.write = w
  BY <1>4 DEF Idle, Shaped
<1>7. set.skill \in Skill /\ set.items \subseteq DOMAIN bank
  BY DEF PracticeInv, SetsSound, SetSound, HoldsUnseen
<1>8. DOMAIN answers \subseteq set.items
  BY DEF AnswersTo
<1>9. ItemsOf(outcomes) \subseteq DOMAIN bank /\ \A o \in outcomes : o.tag \in Misconception \cup {None}
  BY <1>1, <1>7, <1>8, OutcomesFit
<1>10. begun'[r].caught = caught
  BY <1>5, BegunIsKept DEF Tables
<1>11. /\ w.skill = set.skill /\ w.answered = outcomes
       /\ w.signals = IF set.purpose = "resolution-check" THEN {} ELSE ClassifyStruggle(outcomes, c)
  BY <1>3
<1>12. Agree(w.signals, set.skill)
  BY <1>2, <1>11, ContextFits, ClassifierAgrees, NothingAgrees
<1>13. Confirmed(r, outcomes, w.signals)'
  <2>0. \A mc \in {o.tag : o \in outcomes} \ {None} :
          ValueOr(c.prior, mc, 0) = PriorItems(outcomes, mc)
    BY <1>2, ContextFits
  <2>1. \A signal \in ClassifyStruggle(outcomes, c) : signal.class = "repeated_misconception" =>
          /\ signal.about \in Misconception
          /\ signal.confidence = "high" <=>
               Cardinality(caught[signal.about] \cup TaggedWith(outcomes, signal.about)) >= 2
    BY <1>9, <2>0, ClassifierConfirms
  <2> QED
    BY <1>10, <1>11, <2>1 DEF Confirmed
<1>14. DraftsOf(r)' /\ TakenOf(r)'
  <2>1. DOMAIN x.gap = {}
    BY <1>6
  <2> QED
    BY <1>5, <1>6, <2>1 DEF DraftsOf, TakenOf
<1>15. WriteOf(r)'
  BY <1>5, <1>6, <1>7, <1>9, <1>11, <1>12, <1>13 DEF WriteOf, Tables
<1> QED
  BY <1>5, <1>6, <1>14, <1>15, RequestMovesPlainly DEF Phases

LEMMA CommitSubmitStep ==
  ASSUME PracticeInv, Snapshots, NEW r \in Requests, CommitSubmit(r)
  PROVE  PracticeInv'
<1>1. PICK w : w = req[r].write
  OBVIOUS
<1>2. /\ req[r].phase = "submitted" /\ UNCHANGED <<bank, sets>>
      /\ graded' = [graded EXCEPT ![w.skill] = graded[w.skill] \cup ItemsOf(w.answered)]
      /\ caught' = [mc \in Misconception |-> caught[mc] \cup TaggedWith(w.answered, mc)]
      /\ outcome' = [by |-> r, skill |-> w.skill, answered |-> w.answered, signals |-> w.signals]
      /\ req' = [req EXCEPT ![r] = [Idle EXCEPT !.phase = "ended"]]
  BY <1>1 DEF CommitSubmit
<1>3. /\ w.skill \in Skill /\ ItemsOf(w.answered) \subseteq DOMAIN bank
      /\ Confirmed(r, w.answered, w.signals) /\ Agree(w.signals, w.skill)
  BY <1>1, <1>2 DEF PracticeInv, RequestsSound, WriteOf
<1>4. \A mc : TaggedWith(w.answered, mc) \subseteq DOMAIN bank
  BY <1>3 DEF TaggedWith, ItemsOf
<1>5. Grows
  BY <1>2, <1>3, <1>4 DEF PracticeInv, HistoryKept, Grows
<1>6. /\ Types' /\ HistoryKept' /\ RequestsSound' /\ MadeApart'
      /\ req'[r].phase = "ended" /\ begun'[r] = begun[r]
      /\ \A q \in Requests : req[q].phase = "ended" => req'[q] = req[q]
      /\ \A s \in sets : SetSound(s)'
  BY <1>2, <1>5, EndingStep
<1>7. BankSound'
  BY <1>2 DEF PracticeInv, BankSound, GeneratedAreSolved
<1>8. SetsSound'
  BY <1>2, <1>6 DEF SetsSound
<1>9. OutcomeSound'
  <2>1. outcome'.by = r /\ outcome'.skill = w.skill /\ outcome'.answered = w.answered
        /\ outcome'.signals = w.signals
    BY <1>2
  <2>2. Confirmed(r, w.answered, w.signals)'
    BY <1>3, <1>6 DEF Confirmed
  <2>3. \A mc \in Misconception : TaggedWith(w.answered, mc) \subseteq caught'[mc]
    BY <1>2
  <2>4. Agree(w.signals, w.skill)'
    BY <1>3
  <2>5. Confirmed(r, outcome.answered, outcome.signals)'
    BY <2>1, <2>2 DEF Confirmed
  <2>6. Confirmed(outcome.by, outcome.answered, outcome.signals)'
    BY <2>1, <2>5 DEF Confirmed
  <2>7. Agree(outcome.signals, outcome.skill)'
    BY <2>1, <2>4
  <2> QED
    BY <1>6, <2>1, <2>3, <2>6, <2>7 DEF OutcomeSound
<1> QED
  BY <1>6, <1>7, <1>8, <1>9 DEF PracticeInv

-----------------------------------------------------------------------------
LEMMA PracticeBegins == MCInit => PracticeInv
<1> SUFFICES ASSUME MCInit PROVE PracticeInv
  OBVIOUS
<1>1. /\ bank = CuratedItems /\ sets = {} /\ outcome = NoOutcome
      /\ graded = [s \in Skill |-> {}] /\ caught = [mc \in Misconception |-> {}]
      /\ req = [r \in Requests |-> Idle] /\ begun = [r \in Requests |-> Committed]
  BY DEF MCInit, Init
<1>2. /\ Shaped(Idle) /\ Idle.phase = "idle" /\ Idle.made = <<>> /\ Idle.items = {} /\ Idle.gap = <<>>
  BY DEF Idle, Shaped
<1>3. DOMAIN Idle.made = {} /\ DOMAIN Idle.gap = {}
  BY <1>2
<1>4. Types
  BY <1>1, <1>2 DEF Types, Phases
<1>5. BankSound
  BY <1>1, ItemsAssumption DEF BankSound, TagsKnown, GeneratedAreSolved, Misconception
<1>6. HistoryKept
  BY <1>1 DEF HistoryKept, SawOf, Committed
<1>7. RequestsSound
  BY <1>1, <1>2, <1>3, FS_EmptySet DEF RequestsSound, DraftsOf, MadeOf, TakenOf, WriteOf
<1>8. MadeApart
  BY <1>1, <1>3 DEF MadeApart
<1>9. SetsSound
  BY <1>1 DEF SetsSound
<1>10. OutcomeSound
  <2>1. outcome.signals = {}
    BY <1>1 DEF NoOutcome
  <2> QED
    BY <2>1, NothingAgrees DEF OutcomeSound
<1> QED
  BY <1>4, <1>5, <1>6, <1>7, <1>8, <1>9, <1>10 DEF PracticeInv

LEMMA BeginStep ==
  ASSUME PracticeInv, Snapshots, NEW r \in Requests, MayBegin(r), Begin(r)
  PROVE  PracticeInv'
<1>1. CASE \E skill \in Skill, purpose \in Purposes : <<skill, purpose>> \in Asked /\
             \E gap \in GapStatuses(skill) : BeginSet(r, skill, purpose, gap)
  BY <1>1, BeginSetStep
<1>2. CASE \E skill \in Skill, mc \in Misconception \cup {None} : BeginCheck(r, skill, mc)
  BY <1>2, BeginCheckStep
<1>3. CASE \E set \in sets, report \in Reports :
             \E answers \in AnswersTo(set.items), gap \in GapStatuses(set.skill) :
               BeginSubmit(r, set, answers, gap, report)
  BY <1>3, BeginSubmitStep
<1> QED
  BY <1>1, <1>2, <1>3 DEF Begin

LEMMA PracticeStep ==
  ASSUME PracticeInv, MCNext
  PROVE  PracticeInv'
<1>1. Snapshots /\ Next
  BY DEF MCNext, Snapshots
<1>2. PICK r \in Requests :
        \/ MayBegin(r) /\ Begin(r)
        \/ \E drafts \in Responses : Generate(r, drafts)
        \/ GenerationDegrades(r)
        \/ \E chosen \in (1..5) \cup {None} : Solve(r, chosen)
        \/ CommitSet(r) \/ CommitSubmit(r) \/ Fail(r)
  BY <1>1 DEF Next
<1>3. CASE MayBegin(r) /\ Begin(r)
  BY <1>1, <1>3, BeginStep
<1>4. CASE \E drafts \in Responses : Generate(r, drafts)
  BY <1>1, <1>4, GenerateStep
<1>5. CASE GenerationDegrades(r)
  BY <1>1, <1>5, GenerationDegradesStep
<1>6. CASE \E chosen \in (1..5) \cup {None} : Solve(r, chosen)
  BY <1>1, <1>6, SolveStep
<1>7. CASE CommitSet(r)
  BY <1>1, <1>7, CommitSetStep
<1>8. CASE CommitSubmit(r)
  BY <1>1, <1>8, CommitSubmitStep
<1>9. CASE Fail(r)
  BY <1>1, <1>9, FailStep
<1> QED
  BY <1>2, <1>3, <1>4, <1>5, <1>6, <1>7, <1>8, <1>9

LEMMA PracticeStutters ==
  ASSUME PracticeInv, UNCHANGED <<vars, begun>>
  PROVE  PracticeInv'
<1>1. UNCHANGED <<bank, sets, graded, caught, rows, outcome, req, begun>>
  BY DEF vars
<1>2. Types'
  BY <1>1 DEF PracticeInv, Types, Shaped
<1>3. BankSound' /\ HistoryKept' /\ MadeApart'
  BY <1>1 DEF PracticeInv, BankSound, GeneratedAreSolved, HistoryKept, SawOf, MadeApart
<1>4. \A by, answered, signals : Confirmed(by, answered, signals) => Confirmed(by, answered, signals)'
  BY <1>1 DEF Confirmed
<1>5. RequestsSound'
  <2>1. \A r \in Requests : DraftsOf(r)' /\ MadeOf(r)' /\ TakenOf(r)'
    BY <1>1 DEF PracticeInv, RequestsSound, DraftsOf, MadeOf, TakenOf
  <2>2. \A r \in Requests : WriteOf(r)'
    BY <1>1, <1>4 DEF PracticeInv, RequestsSound, WriteOf
  <2> QED
    BY <2>1, <2>2 DEF RequestsSound
<1>6. SetsSound'
  BY <1>1 DEF PracticeInv, SetsSound, SetSound, HoldsUnseen
<1>7. OutcomeSound'
  <2> PICK by, answered, signals, skill :
        by = outcome.by /\ answered = outcome.answered /\ signals = outcome.signals /\ skill = outcome.skill
    OBVIOUS
  <2>1. outcome'.by = by /\ outcome'.answered = answered /\ outcome'.signals = signals /\ outcome'.skill = skill
    BY <1>1
  <2>2. signals # {} =>
          /\ by \in Requests /\ req'[by].phase = "ended" /\ Confirmed(by, answered, signals)'
          /\ \A mc \in Misconception : TaggedWith(answered, mc) \subseteq caught'[mc]
    BY <1>1, <1>4 DEF PracticeInv, OutcomeSound
  <2>3. Agree(signals, skill)
    BY DEF PracticeInv, OutcomeSound
  <2> QED
    BY <2>1, <2>2, <2>3 DEF OutcomeSound, Confirmed
<1> QED
  BY <1>2, <1>3, <1>5, <1>6, <1>7 DEF PracticeInv

LEMMA PracticeInvHolds == MCSpec => []PracticeInv
<1>1. PracticeInv /\ [MCNext]_<<vars, begun>> => PracticeInv'
  BY PracticeStep, PracticeStutters
<1> QED
  BY PracticeBegins, <1>1, PTL DEF MCSpec

\* What a committed set holds: items of the bank that were unseen on its skill,
\* prerequisites only where nothing had been answered, and of the model's items
\* only those whose key a blind solver has found (assessment/item_bank.py,
\* agents/assessor.py).
THEOREM SetsAlwaysSound == MCSpec => []SetsAreSound
<1>1. PracticeInv => SetsAreSound
  BY DEF PracticeInv, BankSound, SetsSound, SetSound, HoldsUnseen, SetsAreSound
<1> QED
  BY <1>1, PracticeInvHolds, PTL

\* However submissions race and repeat, a misconception is confirmed exactly when
\* two distinct items known to the request have caught it (service.py:284-290).
THEOREM AlwaysConfirmedByTwo == MCSpec => []ConfirmedByTwo
<1>1. PracticeInv => ConfirmedByTwo
  <2> SUFFICES ASSUME PracticeInv, NEW signal \in outcome.signals, signal.class = "repeated_misconception"
               PROVE  LET known == begun[outcome.by].caught[signal.about]
                                     \cup TaggedWith(outcome.answered, signal.about) IN
                      /\ signal.confidence = "high" <=> Cardinality(known) >= 2
                      /\ known \subseteq caught[signal.about]
    BY DEF ConfirmedByTwo
  <2>1. /\ outcome.by \in Requests /\ Confirmed(outcome.by, outcome.answered, outcome.signals)
        /\ \A mc \in Misconception : TaggedWith(outcome.answered, mc) \subseteq caught[mc]
    BY DEF PracticeInv, OutcomeSound
  <2>2. SawOf(outcome.by)
    BY <2>1 DEF PracticeInv, HistoryKept
  <2> QED
    BY <2>1, <2>2 DEF Confirmed, SawOf
<1> QED
  BY <1>1, PracticeInvHolds, PTL

\* The classes found in one submission never contradict each other, whatever was
\* answered and known (assessment/struggle.py).
THEOREM ClassesAlwaysAgree == MCSpec => []ClassesAgree
<1>1. PracticeInv => ClassesAgree
  BY DEF PracticeInv, OutcomeSound, Agree, ClassesAgree
<1> QED
  BY <1>1, PracticeInvHolds, PTL
===============================================================================
