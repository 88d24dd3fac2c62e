---------------------------- MODULE LearnerState ----------------------------
(***************************************************************************)
(* What the system believes of one learner's command of one skill: the     *)
(* learner_skill_states row, written by two rules that differ on purpose.  *)
(* Confirmed claims and intake set the row to a fixed prior when they are  *)
(* of a stronger tier (EvidenceCommitService); graded answers accumulate   *)
(* on whatever is there and make the tier E3 (the Mastery Updater).        *)
(*                                                                         *)
(* A request is one transaction at READ COMMITTED.  It reads the row once  *)
(* (the session's identity map keeps it), computes, and commits the        *)
(* columns whose value changed from what it had read; no row is locked     *)
(* when it is read.  alpha and beta are in tenths, tier 3 stands for E3.   *)
(*                                                                         *)
(* LevelByTier, ReseededByAny and ReseededInPart are mutants of the        *)
(* definitions they precede: no action uses them.                          *)
(***************************************************************************)
EXTENDS Naturals, FiniteSets

CONSTANTS
  Requests,     \* the submissions, intakes and claim confirmations
  Claims,       \* pending_claims of the learner
  TierOf,       \* their tiers
  None,         \* no row, no claim
  MaxInFlight,  \* how many requests may be open at once
  MaxItems      \* bound on the answers on the skill in one submission

Tiers == 0..3
Difficulties == {"easy", "medium", "hard"}
Bands == {"unknown", "learning", "developing", "proficient"}

ASSUME TierAssumption == TierOf \in [Claims -> 0..2]
ASSUME BoundsAssumption == MaxInFlight \in Nat \ {0} /\ MaxItems \in Nat

VARIABLES
  state,      \* the learner_skill_states row, or None
  claims,     \* pending_claims.status
  evidence,   \* committed evidence rows of the skill
  graded,     \* how many answers the committed E3 evidence stands for
  pc,
  tx          \* what an open request has read, and what it will write

vars == <<state, claims, evidence, graded, pc, tx>>

SkillState == [alpha : Nat, beta : Nat, n_obs : Nat, tier : Tiers, band : Bands]
Evidence == [by : Requests, claim : Claims \cup {None}, tier : Tiers]
ASSUME NoneAssumption == None \notin Claims /\ None \notin SkillState

ClaimStatus == {"pending", "removed", "confirmed"}
Transaction == [seen : SkillState \cup {None}, new : SkillState \cup {None},
                claims : [Claims -> ClaimStatus], evidence : SUBSET Evidence, graded : Nat]

Pending == [c \in Claims |-> "pending"]
NoTx == [seen |-> None, new |-> None, claims |-> Pending, evidence |-> {}, graded |-> 0]

InFlight == {r \in Requests : pc[r] \in {"open", "evidence", "answers"}}

\* EVIDENCE_TIER_PRIORS, and the row a first piece of evidence inserts.
PriorAlpha(tier) == CASE tier = 0 -> 5 [] tier = 1 -> 10 [] OTHER -> 20
PriorBeta(tier) == CASE tier = 0 -> 10 [] tier = 1 -> 15 [] OTHER -> 30
PriorRow(tier) == [alpha |-> PriorAlpha(tier), beta |-> PriorBeta(tier),
                   n_obs |-> 0, tier |-> tier, band |-> "unknown"]
\* MASTERY_DEFAULT_PRIOR
Unclaimed == [alpha |-> 10, beta |-> 10, n_obs |-> 0, tier |-> 0, band |-> "unknown"]

EstimateBelow(alpha, beta, percent) == 100 * alpha < percent * (alpha + beta)

\* compute_band
Band(alpha, beta, n_obs, tier) ==
  IF n_obs = 0 /\ tier <= 1 THEN "unknown"
  ELSE IF EstimateBelow(alpha, beta, 55) THEN "learning"
  ELSE IF EstimateBelow(alpha, beta, 75) \/ n_obs < 3 THEN "developing"
  ELSE "proficient"

\* _level_met: the tier gate, and _current_level.
Threshold(level) == CASE level = 1 -> 50 [] level = 2 -> 70 [] OTHER -> 85
LevelByTier(s, level) ==
  /\ s # None
  /\ s.tier >= level
  /\ level = 3 => s.n_obs >= 3
LevelMet(s, level) ==
  /\ s # None
  /\ ~EstimateBelow(s.alpha, s.beta, Threshold(level))
  /\ s.tier >= level
  /\ level = 3 => s.n_obs >= 3
CurrentLevel(s) ==
  IF LevelMet(s, 3) THEN 3
  ELSE IF LevelMet(s, 2) THEN 2 ELSE IF LevelMet(s, 1) THEN 1 ELSE 0

-----------------------------------------------------------------------------
Init ==
  /\ state = None
  /\ claims = Pending
  /\ evidence = {}
  /\ graded = 0
  /\ pc = [r \in Requests |-> "idle"]
  /\ tx = [r \in Requests |-> NoTx]

database == <<state, claims, evidence, graded>>

Begin(r) ==
  /\ pc[r] = "idle"
  /\ Cardinality(InFlight) < MaxInFlight
  /\ pc' = [pc EXCEPT ![r] = "open"]
  /\ UNCHANGED <<database, tx>>

End(r) ==
  /\ pc' = [pc EXCEPT ![r] = "ended"]
  /\ tx' = [tx EXCEPT ![r] = NoTx]

\* An exception, a deadlock the database resolved, a lost connection.
Rollback(r) ==
  /\ r \in InFlight
  /\ End(r)
  /\ UNCHANGED database

\* The answers of a submission on the skill, easy, medium and hard ones, right
\* and wrong: update_mastery for each of them.
Answers == [Difficulties -> 0..MaxItems]
AnswerCount(a) == a["easy"] + a["medium"] + a["hard"]
AfterAnswers(s, right, wrong) ==
  LET alpha == s.alpha + 7 * right["easy"] + 10 * right["medium"] + 13 * right["hard"]
      beta == s.beta + 13 * wrong["easy"] + 10 * wrong["medium"] + 7 * wrong["hard"]
      n_obs == s.n_obs + AnswerCount(right) + AnswerCount(wrong)
  IN [alpha |-> alpha, beta |-> beta, n_obs |-> n_obs, tier |-> 3,
      band |-> Band(alpha, beta, n_obs, 3)]

\* submit_practice_set: the row is read and the new one computed.
ReadForSubmission(r) ==
  \E right \in Answers, wrong \in Answers :
    LET count == AnswerCount(right) + AnswerCount(wrong) IN
    /\ pc[r] = "open"
    /\ count \in 1..MaxItems
    /\ tx' = [tx EXCEPT ![r] =
         [NoTx EXCEPT
            !.seen = state,
            !.new = AfterAnswers(IF state = None THEN Unclaimed ELSE state, right, wrong),
            !.evidence = {[by |-> r, claim |-> None, tier |-> 3]},
            !.graded = count]]
    /\ pc' = [pc EXCEPT ![r] = "answers"]
    /\ UNCHANGED database

\* EvidenceCommitService._upsert_skill_state on the row s.
ReseededByAny(s, tier) ==
  IF s = None THEN PriorRow(tier)
  ELSE [s EXCEPT !.tier = tier, !.alpha = PriorAlpha(tier), !.beta = PriorBeta(tier)]
ReseededInPart(s, tier) ==
  CASE s = None -> PriorRow(tier)
    [] s # None /\ tier > s.tier -> [s EXCEPT !.tier = tier, !.alpha = PriorAlpha(tier)]
    [] OTHER -> s
AfterEvidence(s, tier) ==
  CASE s = None -> PriorRow(tier)
    [] s # None /\ tier > s.tier ->
         [s EXCEPT !.tier = tier, !.alpha = PriorAlpha(tier), !.beta = PriorBeta(tier)]
    [] OTHER -> s

\* write_evidence, for a claim or for a skill named at intake: the first one of
\* a request reads the row, later ones see what the request made of it.
WriteEvidence(r, claim, tier) ==
  LET first == pc[r] = "open"
      s == IF first THEN state ELSE tx[r].new
  IN [tx[r] EXCEPT
        !.seen = IF first THEN state ELSE @,
        !.new = AfterEvidence(s, tier),
        !.evidence = @ \cup {[by |-> r, claim |-> claim, tier |-> tier]},
        !.claims = [c \in Claims |-> IF c = claim THEN "confirmed" ELSE @[c]]]

\* create_learner_profile: a skill the learner lists at intake is E0 evidence.
Intake(r) ==
  /\ pc[r] \in {"open", "evidence"}
  /\ tx[r].claims = Pending
  /\ tx' = [tx EXCEPT ![r] = WriteEvidence(r, None, 0)]
  /\ pc' = [pc EXCEPT ![r] = "evidence"]
  /\ UNCHANGED database

\* commit_confirmed_claims, one decision: a claim that is not pending, in the
\* database or in the request's own session, is ignored.
Undecided(r, c) == claims[c] = "pending" /\ tx[r].claims[c] = "pending"

\* No intake in the same request.
Confirming(r) ==
  /\ pc[r] \in {"open", "evidence"}
  /\ \A e \in tx[r].evidence : e.claim # None

ConfirmClaim(r) ==
  \E c \in Claims :
    /\ Confirming(r)
    /\ Undecided(r, c)
    /\ tx' = [tx EXCEPT ![r] = WriteEvidence(r, c, TierOf[c])]
    /\ pc' = [pc EXCEPT ![r] = "evidence"]
    /\ UNCHANGED database

\* The claim is removed, or confirmed for another skill or for none.
DecideElsewhere(r) ==
  \E c \in Claims, status \in {"removed", "confirmed"} :
    /\ Confirming(r)
    /\ Undecided(r, c)
    /\ tx' = [tx EXCEPT ![r].claims[c] = status]
    /\ UNCHANGED <<database, pc>>

\* Only the columns that changed are in the UPDATE.
Column(new, seen, stored) == IF new # seen THEN new ELSE stored
RowWritten(new, seen, stored) ==
  [alpha |-> Column(new.alpha, seen.alpha, stored.alpha),
   beta |-> Column(new.beta, seen.beta, stored.beta),
   n_obs |-> Column(new.n_obs, seen.n_obs, stored.n_obs),
   tier |-> Column(new.tier, seen.tier, stored.tier),
   band |-> Column(new.band, seen.band, stored.band)]

\* The commit.  An INSERT of a row another request has inserted meanwhile
\* violates uq_learner_skill_state: that request can only be rolled back.
Commit(r) ==
  /\ r \in InFlight
  /\ CASE tx[r].new = None -> state' = state
       [] tx[r].new # None /\ tx[r].seen = None -> state = None /\ state' = tx[r].new
       [] OTHER -> state' = RowWritten(tx[r].new, tx[r].seen, state)
  /\ claims' = [c \in Claims |-> Column(tx[r].claims[c], "pending", claims[c])]
  /\ evidence' = evidence \cup tx[r].evidence
  /\ graded' = graded + tx[r].graded
  /\ End(r)

Next ==
  \E r \in Requests :
    \/ Begin(r)
    \/ Rollback(r)
    \/ ReadForSubmission(r)
    \/ Intake(r)
    \/ ConfirmClaim(r)
    \/ DecideElsewhere(r)
    \/ Commit(r)

Spec == Init /\ [][Next]_vars

-----------------------------------------------------------------------------
TypeOK ==
  /\ state \in SkillState \cup {None}
  /\ claims \in [Claims -> ClaimStatus]
  /\ evidence \subseteq Evidence
  /\ graded \in Nat
  /\ pc \in [Requests -> {"idle", "open", "evidence", "answers", "ended"}]
  /\ tx \in [Requests -> Transaction]

ClaimRow(s) ==
  s.tier <= 2 /\ s.n_obs = 0 /\ s.alpha = PriorAlpha(s.tier) /\ s.beta = PriorBeta(s.tier)

\* Whatever raced, the row is backed by what is on record: some evidence has its
\* tier, it counts no answer that was not graded, and without answers it is the
\* prior of a claim, never parts of two.
RowBacked ==
  state # None =>
    /\ \E e \in evidence : e.tier = state.tier
    /\ state.n_obs <= graded
    /\ graded = 0 => ClaimRow(state)

\* What makes it inductive: what an open request will write is backed by what it
\* had read and by the evidence it brings.
RequestSound(r) ==
  /\ pc[r] \in {"idle", "open", "ended"} => tx[r].new = None /\ tx[r].graded = 0
  /\ tx[r].new = None => tx[r].seen = None
  /\ pc[r] = "answers" => tx[r].graded > 0
  /\ tx[r].new # None =>
       /\ tx[r].new.n_obs <= (IF tx[r].seen = None THEN 0 ELSE tx[r].seen.n_obs) + tx[r].graded
       /\ \/ tx[r].seen # None /\ tx[r].new.tier = tx[r].seen.tier
          \/ \E e \in tx[r].evidence : e.tier = tx[r].new.tier
       /\ tx[r].graded = 0 /\ graded = 0 => ClaimRow(tx[r].new)
  /\ tx[r].seen # None =>
       /\ state # None
       /\ tx[r].seen.n_obs <= graded
       /\ graded = 0 => ClaimRow(tx[r].seen)
RequestsSound == \A r \in Requests : RequestSound(r)
Inv == TypeOK /\ RequestsSound /\ RowBacked

\* Requests that race may lose answers and even mix two rows, but however many
\* claims are confirmed at once, claims alone meet no level ("a self-report or
\* inference alone can never satisfy this for any level", _level_met), and
\* level 3 takes three graded answers.
LevelIsEarned ==
  /\ CurrentLevel(state) > 0 => graded > 0
  /\ CurrentLevel(state) = 3 => graded >= 3

\* The three below hold of a client that waits for each answer before it sends
\* the next request.
\*
\* The row is exactly what the record says: the tier of the strongest evidence,
\* every answer counted, the estimate a claim gives, the band of the estimate.
RowIsTheRecord ==
  /\ state = None <=> evidence = {}
  /\ state # None =>
       /\ \A e \in evidence : e.tier <= state.tier
       /\ state.n_obs = graded
       /\ graded = 0 => ClaimRow(state)
       /\ state.band = IF graded = 0 THEN "unknown"
                       ELSE Band(state.alpha, state.beta, state.n_obs, state.tier)

\* A claim becomes evidence at most once, and never after the learner removed
\* it, whatever decisions a request repeats.
ClaimUsedOnce ==
  \A c \in Claims :
    LET rows == {e \in evidence : e.claim = c} IN
    /\ Cardinality(rows) <= 1
    /\ rows # {} => claims[c] = "confirmed"

Rank(band) == CASE band = "unknown" -> 0 [] band = "learning" -> 1
                [] band = "developing" -> 2 [] OTHER -> 3
BandRank(s) == IF s = None THEN 0 ELSE Rank(s.band)
Known(s) == IF s = None THEN Unclaimed ELSE s

\* Although every graded answer lifts the tier to E3 and brings the gates that
\* count answers nearer, a submission without a right answer never raises the
\* learner's level, nor a band above "learning"; and although stronger claims
\* reset the estimate to a prior, nothing but a wrong answer ever lowers them.
LevelFollowsAnswers ==
  LET right == graded' > graded /\ state'.alpha > Known(state).alpha
      wrong == graded' > graded /\ state'.beta > Known(state).beta
  IN
  /\ graded' > graded /\ ~right =>
       /\ CurrentLevel(state') <= CurrentLevel(state)
       /\ BandRank(state') > BandRank(state) => state'.band = "learning"
  /\ ~wrong =>
       /\ CurrentLevel(state') >= CurrentLevel(state)
       /\ BandRank(state') >= BandRank(state)
=============================================================================
