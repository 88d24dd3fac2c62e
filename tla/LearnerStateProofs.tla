------------------------- MODULE LearnerStateProofs -------------------------
(***************************************************************************)
(* The invariants of LearnerState for every set of requests and of claims, *)
(* every number of requests in flight and of answers in a submission.      *)
(***************************************************************************)
EXTENDS MCLearnerState, FiniteSetTheorems, TLAPS

\* The row a claim inserts is a row.
LEMMA PriorRowType ==
  ASSUME NEW tier \in 0..2
  PROVE  PriorRow(tier) \in SkillState /\ ClaimRow(PriorRow(tier)) /\ PriorRow(tier).n_obs = 0
<1>1. tier = 0 \/ tier = 1 \/ tier = 2
  OBVIOUS
<1> QED
  BY <1>1 DEF PriorRow, PriorAlpha, PriorBeta, SkillState, Tiers, Bands, ClaimRow

\* Evidence leaves a row of its own tier, or the tier of the row it found; a
\* prior stays one; no answer is added.
LEMMA AfterEvidenceLemma ==
  ASSUME NEW s \in SkillState \cup {None}, NEW tier \in 0..2
  PROVE  /\ AfterEvidence(s, tier) \in SkillState
         /\ AfterEvidence(s, tier).n_obs = IF s = None THEN 0 ELSE s.n_obs
         /\ (s # None /\ AfterEvidence(s, tier).tier = s.tier) \/ AfterEvidence(s, tier).tier = tier
         /\ s = None \/ ClaimRow(s) => ClaimRow(AfterEvidence(s, tier))
<1> DEFINE n == AfterEvidence(s, tier)
<1>p. PriorAlpha(tier) \in Nat /\ PriorBeta(tier) \in Nat /\ tier \in Tiers
  BY DEF PriorAlpha, PriorBeta, Tiers
<1>1. CASE s = None
  <2>1. n = PriorRow(tier)
    BY <1>1 DEF AfterEvidence
  <2>2. n.tier = tier
    BY <2>1 DEF PriorRow
  <2> QED
    BY <1>1, <2>1, <2>2, PriorRowType
<1>2. CASE s # None /\ tier > s.tier
  <2>1. s \in SkillState
    BY <1>2
  <2>2. n = [s EXCEPT !.tier = tier, !.alpha = PriorAlpha(tier), !.beta = PriorBeta(tier)]
    BY <1>2 DEF AfterEvidence
  <2>3. n \in SkillState /\ n.n_obs = s.n_obs /\ n.tier = tier
    BY <2>1, <2>2, <1>p DEF SkillState
  <2>4. n.alpha = PriorAlpha(tier) /\ n.beta = PriorBeta(tier)
    BY <2>1, <2>2 DEF SkillState
  <2>5. ClaimRow(s) => ClaimRow(n)
    BY <2>3, <2>4 DEF ClaimRow
  <2> QED
    BY <1>2, <2>3, <2>5
<1>3. CASE s # None /\ ~(tier > s.tier)
  <2>1. n = s
    BY <1>3 DEF AfterEvidence
  <2> QED
    BY <1>3, <2>1
<1> QED
  BY <1>1, <1>2, <1>3

\* Graded answers leave an E3 row with that many more observations.
LEMMA AfterAnswersLemma ==
  ASSUME NEW s \in SkillState, NEW right \in Answers, NEW wrong \in Answers
  PROVE  /\ AfterAnswers(s, right, wrong) \in SkillState
         /\ AfterAnswers(s, right, wrong).tier = 3
         /\ AfterAnswers(s, right, wrong).n_obs =
              s.n_obs + (AnswerCount(right) + AnswerCount(wrong))
<1>1. \A d \in Difficulties : right[d] \in Nat /\ wrong[d] \in Nat
  BY BoundsAssumption DEF Answers
<1> DEFINE alpha == s.alpha + 7 * right["easy"] + 10 * right["medium"] + 13 * right["hard"]
           beta == s.beta + 13 * wrong["easy"] + 10 * wrong["medium"] + 7 * wrong["hard"]
           n_obs == s.n_obs + AnswerCount(right) + AnswerCount(wrong)
<1>2. /\ right["easy"] \in Nat /\ right["medium"] \in Nat /\ right["hard"] \in Nat
      /\ wrong["easy"] \in Nat /\ wrong["medium"] \in Nat /\ wrong["hard"] \in Nat
  BY <1>1 DEF Difficulties
<1>3. s.alpha \in Nat /\ s.beta \in Nat /\ s.n_obs \in Nat
  BY DEF SkillState
<1>4. AnswerCount(right) \in Nat /\ AnswerCount(wrong) \in Nat
  BY <1>2 DEF AnswerCount
<1>5. alpha \in Nat /\ beta \in Nat
  BY <1>2, <1>3
<1>6. n_obs \in Nat /\ n_obs = s.n_obs + (AnswerCount(right) + AnswerCount(wrong))
  BY <1>3, <1>4
<1>7. Band(alpha, beta, n_obs, 3) \in Bands
  BY DEF Band, Bands
<1>8. AfterAnswers(s, right, wrong) = [alpha |-> alpha, beta |-> beta, n_obs |-> n_obs,
        tier |-> 3, band |-> Band(alpha, beta, n_obs, 3)]
  BY DEF AfterAnswers
<1> HIDE DEF alpha, beta, n_obs
<1> QED
  BY <1>5, <1>6, <1>7, <1>8 DEF SkillState, Tiers

LEMMA InitInv == Init => Inv
<1> SUFFICES ASSUME Init PROVE Inv
  OBVIOUS
<1> USE DEF Init
<1>1. TypeOK
  BY DEF TypeOK, NoTx, Pending, Transaction, ClaimStatus
<1>2. RequestsSound
  BY DEF RequestsSound, RequestSound, NoTx
<1>3. RowBacked
  BY DEF RowBacked
<1> QED
  BY <1>1, <1>2, <1>3 DEF Inv

\* A step of a request that leaves the committed rows alone.
LEMMA RequestStep ==
  ASSUME Inv, NEW r \in Requests, UNCHANGED database,
         NEW w \in {"idle", "open", "evidence", "answers", "ended"},
         NEW t \in Transaction,
         pc' = [pc EXCEPT ![r] = w], tx' = [tx EXCEPT ![r] = t],
         RequestSound(r)'
  PROVE  Inv'
<1> USE DEF Inv, database
<1>1. TypeOK'
  BY DEF TypeOK
<1>2. RowBacked'
  BY DEF RowBacked
<1>3. ASSUME NEW q \in Requests, q # r PROVE RequestSound(q)'
  <2>1. pc'[q] = pc[q] /\ tx'[q] = tx[q]
    BY <1>3 DEF TypeOK
  <2>2. RequestSound(q)
    BY DEF RequestsSound
  <2> QED
    BY <2>1, <2>2 DEF RequestSound
<1>4. RequestsSound'
  BY <1>3 DEF RequestsSound
<1> QED
  BY <1>1, <1>2, <1>4

\* The end of a request whose rows are not kept.
LEMMA RollbackStep ==
  ASSUME Inv, NEW r \in Requests, Rollback(r)
  PROVE  Inv'
<1>1. NoTx \in Transaction
  BY DEF NoTx, Pending, Transaction, ClaimStatus
<1>2. RequestSound(r)'
  BY DEF Rollback, End, RequestSound, NoTx, Inv, TypeOK
<1> QED
  BY <1>1, <1>2, RequestStep DEF Rollback, End

\* write_evidence: the first piece reads the row, the others build on the
\* request's own copy of it.
LEMMA WriteStep ==
  ASSUME Inv, NEW r \in Requests, pc[r] \in {"open", "evidence"},
         NEW claim \in Claims \cup {None}, NEW tier \in 0..2,
         tx' = [tx EXCEPT ![r] = WriteEvidence(r, claim, tier)],
         pc' = [pc EXCEPT ![r] = "evidence"],
         UNCHANGED database
  PROVE  Inv'
<1> DEFINE s == IF pc[r] = "open" THEN state ELSE tx[r].new
           seen == IF pc[r] = "open" THEN state ELSE tx[r].seen
           new == AfterEvidence(s, tier)
           t == WriteEvidence(r, claim, tier)
<1>1. tx[r] \in Transaction /\ RequestSound(r) /\ TypeOK /\ RowBacked
  BY DEF Inv, TypeOK, RequestsSound
<1>2. s \in SkillState \cup {None} /\ seen \in SkillState \cup {None}
  BY <1>1 DEF TypeOK, Transaction
<1>3. /\ new \in SkillState
      /\ new.n_obs = IF s = None THEN 0 ELSE s.n_obs
      /\ (s # None /\ new.tier = s.tier) \/ new.tier = tier
      /\ s = None \/ ClaimRow(s) => ClaimRow(new)
  BY <1>2, AfterEvidenceLemma
<1>4. new # None
  BY <1>3, NoneAssumption
<1> HIDE DEF new
<1> DEFINE e0 == [by |-> r, claim |-> claim, tier |-> tier]
<1>5. /\ t.new = new /\ t.seen = seen /\ t.graded = tx[r].graded
      /\ t.evidence = tx[r].evidence \cup {e0}
  BY <1>1 DEF WriteEvidence, Transaction, new
<1>6. e0 \in Evidence /\ e0.tier = tier
  BY DEF Evidence, Tiers
<1>7. t \in Transaction
  BY <1>1, <1>2, <1>3, <1>6 DEF Transaction, ClaimStatus, WriteEvidence, new
<1> HIDE DEF t
<1>8. tx'[r] = t /\ pc'[r] = "evidence" /\ UNCHANGED <<state, evidence, graded>>
  BY DEF Inv, TypeOK, database, t
<1>9. pc[r] = "open" => tx[r].new = None /\ tx[r].graded = 0
  BY <1>1 DEF RequestSound
<1>10. tx[r].new = None => tx[r].seen = None
  BY <1>1 DEF RequestSound
<1>11. \E e \in t.evidence : e.tier = tier
  BY <1>5, <1>6
<1>12. \A e \in tx[r].evidence : e \in t.evidence
  BY <1>5
<1>13. tx[r].graded \in Nat /\ graded \in Nat /\ (seen # None => seen.n_obs \in Nat)
  BY <1>1, <1>2 DEF TypeOK, Transaction, SkillState
<1>14. new.n_obs <= (IF seen = None THEN 0 ELSE seen.n_obs) + tx[r].graded
  <2>1. CASE pc[r] = "open"
    BY <1>3, <1>9, <1>13, <2>1
  <2>2. CASE pc[r] # "open" /\ tx[r].new = None
    BY <1>3, <1>10, <1>13, <2>2
  <2>3. CASE pc[r] # "open" /\ tx[r].new # None
    BY <1>1, <1>3, <1>13, <2>3 DEF RequestSound
  <2> QED
    BY <2>1, <2>2, <2>3
<1>15. \/ seen # None /\ new.tier = seen.tier
       \/ \E e \in t.evidence : e.tier = new.tier
  <2>1. CASE new.tier = tier
    BY <1>11, <2>1
  <2>2. CASE s # None /\ new.tier = s.tier /\ pc[r] = "open"
    BY <2>2
  <2>3. CASE s # None /\ new.tier = s.tier /\ pc[r] # "open"
    BY <1>1, <1>5, <1>12, <2>3 DEF RequestSound
  <2> QED
    BY <1>3, <2>1, <2>2, <2>3
<1>16. tx[r].graded = 0 /\ graded = 0 => ClaimRow(new)
  BY <1>1, <1>3 DEF RequestSound, RowBacked
<1>17. seen # None => /\ state # None
                      /\ seen.n_obs <= graded
                      /\ graded = 0 => ClaimRow(seen)
  BY <1>1 DEF RequestSound, RowBacked
<1>18. RequestSound(r)'
  BY <1>4, <1>5, <1>8, <1>14, <1>15, <1>16, <1>17 DEF RequestSound, ClaimRow
<1> QED
  BY <1>7, <1>18, RequestStep DEF t

\* A decision that writes no evidence.
LEMMA DecideStep ==
  ASSUME Inv, NEW r \in Requests, DecideElsewhere(r)
  PROVE  Inv'
<1>1. PICK c \in Claims, status \in {"removed", "confirmed"} :
        tx' = [tx EXCEPT ![r].claims[c] = status]
  BY DEF DecideElsewhere
<1> DEFINE t == [tx[r] EXCEPT !.claims[c] = status]
<1>2. tx[r] \in Transaction /\ pc[r] \in {"open", "evidence"} /\ RequestSound(r)
  BY DEF Inv, TypeOK, RequestsSound, DecideElsewhere, Confirming
<1>3. t \in Transaction
  BY <1>2 DEF Transaction, ClaimStatus
<1>4. /\ t.seen = tx[r].seen /\ t.new = tx[r].new
      /\ t.evidence = tx[r].evidence /\ t.graded = tx[r].graded
  BY <1>2 DEF Transaction
<1> HIDE DEF t
<1>5. tx' = [tx EXCEPT ![r] = t] /\ tx'[r] = t
  BY <1>1 DEF Inv, TypeOK, t
<1>6. pc' = [pc EXCEPT ![r] = pc[r]] /\ UNCHANGED database
  BY DEF DecideElsewhere, Inv, TypeOK
<1>7. RequestSound(r)'
  BY <1>2, <1>4, <1>5, <1>6 DEF RequestSound, database, DecideElsewhere, ClaimRow
<1> QED
  BY <1>2, <1>3, <1>5, <1>6, <1>7, RequestStep

\* A graded submission: the row it will write counts the row it read and its own
\* answers, and its evidence is E3.
LEMMA SubmissionStep ==
  ASSUME Inv, NEW r \in Requests, ReadForSubmission(r)
  PROVE  Inv'
<1>1. PICK right \in Answers, wrong \in Answers :
        LET count == AnswerCount(right) + AnswerCount(wrong) IN
        /\ pc[r] = "open"
        /\ count \in 1..MaxItems
        /\ tx' = [tx EXCEPT ![r] =
             [NoTx EXCEPT
                !.seen = state,
                !.new = AfterAnswers(IF state = None THEN Unclaimed ELSE state, right, wrong),
                !.evidence = {[by |-> r, claim |-> None, tier |-> 3]},
                !.graded = count]]
        /\ pc' = [pc EXCEPT ![r] = "answers"]
        /\ UNCHANGED database
  BY DEF ReadForSubmission
<1> DEFINE count == AnswerCount(right) + AnswerCount(wrong)
           s == IF state = None THEN Unclaimed ELSE state
           new == AfterAnswers(s, right, wrong)
<1>2. s \in SkillState /\ (state = None => s.n_obs = 0)
  BY DEF Inv, TypeOK, Unclaimed, SkillState, Tiers, Bands
<1>3. new \in SkillState /\ new.tier = 3 /\ new.n_obs = s.n_obs + count
  BY <1>2, AfterAnswersLemma
<1>4. new # None
  BY <1>3, NoneAssumption
<1>5. count \in Nat /\ count > 0
  BY <1>1, BoundsAssumption
<1>6. tx' = [tx EXCEPT ![r] = [NoTx EXCEPT !.seen = state, !.new = new,
               !.evidence = {[by |-> r, claim |-> None, tier |-> 3]}, !.graded = count]]
  BY <1>1
<1> HIDE DEF count, new, s
<1> DEFINE t == [NoTx EXCEPT !.seen = state, !.new = new,
               !.evidence = {[by |-> r, claim |-> None, tier |-> 3]}, !.graded = count]
<1>7. [by |-> r, claim |-> None, tier |-> 3] \in Evidence
  BY DEF Evidence, Tiers
<1>8. NoTx \in Transaction /\ t \in Transaction
  BY <1>3, <1>5, <1>7 DEF Transaction, Pending, ClaimStatus, Inv, TypeOK, NoTx
<1>81. /\ t.seen = state /\ t.new = new /\ t.graded = count
       /\ \E e \in t.evidence : e.tier = 3
  BY DEF NoTx
<1> HIDE DEF t
<1>9. RequestSound(r)'
  <2>1. tx'[r] = t /\ pc'[r] = "answers"
    BY <1>1, <1>6 DEF Inv, TypeOK, t
  <2>2. UNCHANGED <<state, graded>>
    BY <1>1 DEF database
  <2>3. state # None => state.n_obs <= graded /\ (graded = 0 => ClaimRow(state))
    BY DEF Inv, RowBacked
  <2>4. new.n_obs <= (IF state = None THEN 0 ELSE state.n_obs) + count
    BY <1>2, <1>3, <1>5 DEF SkillState, s
  <2> QED
    BY <1>3, <1>4, <1>5, <1>81, <2>1, <2>2, <2>3, <2>4 DEF RequestSound, ClaimRow
<1> QED
  BY <1>1, <1>6, <1>8, <1>9, RequestStep DEF t

\* The columns of a row written over another: each is one of the two.
LEMMA RowWrittenLemma ==
  ASSUME NEW new \in SkillState, NEW seen \in SkillState, NEW stored \in SkillState
  PROVE  LET w == RowWritten(new, seen, stored) IN
         /\ w \in SkillState
         /\ w.n_obs = new.n_obs \/ w.n_obs = stored.n_obs
         /\ w.tier = stored.tier \/ (w.tier = new.tier /\ new.tier # seen.tier)
         /\ ClaimRow(new) /\ ClaimRow(seen) /\ ClaimRow(stored) => ClaimRow(w)
<1> DEFINE w == RowWritten(new, seen, stored)
<1>1. w \in SkillState
  BY DEF RowWritten, Column, SkillState
<1>2. /\ w.alpha = Column(new.alpha, seen.alpha, stored.alpha)
      /\ w.beta = Column(new.beta, seen.beta, stored.beta)
      /\ w.n_obs = Column(new.n_obs, seen.n_obs, stored.n_obs)
      /\ w.tier = Column(new.tier, seen.tier, stored.tier)
  BY DEF RowWritten
<1> HIDE DEF w
<1>3. ASSUME ClaimRow(new), ClaimRow(seen), ClaimRow(stored) PROVE ClaimRow(w)
  <2>1. new.tier \in Tiers /\ seen.tier \in Tiers /\ stored.tier \in Tiers
    BY DEF SkillState
  <2>2. (new.tier = 0 \/ new.tier = 1 \/ new.tier = 2)
        /\ (seen.tier = 0 \/ seen.tier = 1 \/ seen.tier = 2)
    BY <1>3, <2>1 DEF ClaimRow, Tiers
  <2>3. new.alpha = seen.alpha <=> new.tier = seen.tier
    BY <1>3, <2>2 DEF ClaimRow, PriorAlpha
  <2>4. new.beta = seen.beta <=> new.tier = seen.tier
    BY <1>3, <2>2 DEF ClaimRow, PriorBeta
  <2>5. CASE new.tier = seen.tier
    BY <1>2, <1>3, <2>3, <2>4, <2>5 DEF ClaimRow, Column
  <2>6. CASE new.tier # seen.tier
    BY <1>2, <1>3, <2>3, <2>4, <2>6 DEF ClaimRow, Column
  <2> QED
    BY <2>5, <2>6
<1>4. w.n_obs = new.n_obs \/ w.n_obs = stored.n_obs
  BY <1>2 DEF Column
<1>5. w.tier = stored.tier \/ (w.tier = new.tier /\ new.tier # seen.tier)
  BY <1>2 DEF Column
<1> QED
  BY <1>1, <1>3, <1>4, <1>5 DEF w

\* The commit is the one step that writes: the row stays backed, and what the
\* other open requests have read stays true, because rows are never deleted and
\* the record only grows.
LEMMA CommitStep ==
  ASSUME Inv, NEW r \in Requests, Commit(r)
  PROVE  Inv'
<1>1. /\ TypeOK /\ RowBacked /\ RequestSound(r)
      /\ tx[r] \in Transaction
  BY DEF Inv, TypeOK, RequestsSound
<1> DEFINE new == tx[r].new
           seen == tx[r].seen
<1>2. /\ new \in SkillState \cup {None} /\ seen \in SkillState \cup {None}
      /\ tx[r].graded \in Nat /\ graded \in Nat /\ tx[r].evidence \subseteq Evidence
      /\ tx[r].claims \in [Claims -> ClaimStatus]
      /\ state \in SkillState \cup {None}
  BY <1>1 DEF TypeOK, Transaction
<1>3. /\ claims' = [c \in Claims |-> Column(tx[r].claims[c], "pending", claims[c])]
      /\ evidence' = evidence \cup tx[r].evidence
      /\ graded' = graded + tx[r].graded
      /\ pc' = [pc EXCEPT ![r] = "ended"]
      /\ tx' = [tx EXCEPT ![r] = NoTx]
  BY DEF Commit, End
<1>4. \/ new = None /\ state' = state
      \/ new # None /\ seen = None /\ state = None /\ state' = new
      \/ new # None /\ seen # None /\ state' = RowWritten(new, seen, state)
  BY DEF Commit
<1>5. seen # None => state # None
  BY <1>1 DEF RequestSound
<1>6. graded' \in Nat /\ graded <= graded' /\ tx[r].graded <= graded'
      /\ (graded' = 0 => graded = 0 /\ tx[r].graded = 0)
  BY <1>2, <1>3
<1>7. state' \in SkillState \cup {None} /\ (state # None => state' # None)
  BY <1>2, <1>4, <1>5, RowWrittenLemma, NoneAssumption
<1>8. TypeOK'
  <2>1. claims' \in [Claims -> ClaimStatus]
    BY <1>1, <1>2, <1>3 DEF TypeOK, Column
  <2>2. NoTx \in Transaction
    BY DEF NoTx, Pending, Transaction, ClaimStatus
  <2>3. evidence' \subseteq Evidence
    BY <1>1, <1>2, <1>3 DEF TypeOK
  <2>4. pc' \in [Requests -> {"idle", "open", "evidence", "answers", "ended"}]
        /\ tx' \in [Requests -> Transaction]
    BY <1>1, <1>3, <2>2 DEF TypeOK
  <2> QED
    BY <1>6, <1>7, <2>1, <2>3, <2>4 DEF TypeOK
<1>9. RowBacked'
  <2> SUFFICES ASSUME state' # None
               PROVE  /\ \E e \in evidence' : e.tier = state'.tier
                      /\ state'.n_obs <= graded'
                      /\ graded' = 0 => ClaimRow(state')
    BY DEF RowBacked, ClaimRow
  <2>1. CASE new = None
    <3>1. state' = state /\ state \in SkillState
      BY <1>2, <1>4, <2>1
    <3> QED
      BY <1>1, <1>2, <1>3, <1>6, <3>1 DEF RowBacked, SkillState
  <2>2. CASE new # None /\ seen = None
    <3>1. state' = new /\ new \in SkillState
      BY <1>2, <1>4, <2>2
    <3>2. /\ new.n_obs <= tx[r].graded
          /\ \E e \in tx[r].evidence : e.tier = new.tier
          /\ tx[r].graded = 0 /\ graded = 0 => ClaimRow(new)
      BY <1>1, <1>2, <2>2, <3>1 DEF RequestSound, SkillState
    <3> QED
      BY <1>2, <1>3, <1>6, <3>1, <3>2 DEF SkillState
  <2>3. CASE new # None /\ seen # None
    <3>1. /\ state' = RowWritten(new, seen, state)
          /\ new \in SkillState /\ seen \in SkillState /\ state \in SkillState
      BY <1>2, <1>4, <1>5, <2>3
    <3>2. /\ new.n_obs <= seen.n_obs + tx[r].graded
          /\ seen.n_obs <= graded
          /\ new.tier = seen.tier \/ \E e \in tx[r].evidence : e.tier = new.tier
          /\ tx[r].graded = 0 /\ graded = 0 => ClaimRow(new)
          /\ graded = 0 => ClaimRow(seen)
      BY <1>1, <2>3 DEF RequestSound
    <3>3. /\ state.n_obs <= graded
          /\ \E e \in evidence : e.tier = state.tier
          /\ graded = 0 => ClaimRow(state)
      BY <1>1, <1>5, <2>3 DEF RowBacked
    <3>4. /\ state'.n_obs = new.n_obs \/ state'.n_obs = state.n_obs
          /\ state'.tier = state.tier \/ (state'.tier = new.tier /\ new.tier # seen.tier)
          /\ ClaimRow(new) /\ ClaimRow(seen) /\ ClaimRow(state) => ClaimRow(state')
      BY <3>1, RowWrittenLemma
    <3>5. state'.n_obs <= graded'
      BY <1>2, <1>3, <3>1, <3>2, <3>3, <3>4 DEF SkillState
    <3>6. \E e \in evidence' : e.tier = state'.tier
      BY <1>3, <3>2, <3>3, <3>4
    <3> QED
      BY <1>6, <3>2, <3>3, <3>4, <3>5, <3>6
  <2> QED
    BY <2>1, <2>2, <2>3
<1>10. RequestsSound'
  <2> SUFFICES ASSUME NEW q \in Requests PROVE RequestSound(q)'
    BY DEF RequestsSound
  <2>1. CASE q = r
    BY <1>1, <1>3, <2>1 DEF TypeOK, RequestSound, NoTx
  <2>2. CASE q # r
    <3>1. pc'[q] = pc[q] /\ tx'[q] = tx[q] /\ RequestSound(q) /\ tx[q] \in Transaction
      BY <1>1, <1>3, <2>2 DEF TypeOK, Inv, RequestsSound
    <3>2. tx[q].seen # None => tx[q].seen.n_obs \in Nat
      BY <3>1 DEF Transaction, SkillState
    <3>3. tx[q].seen # None => state # None /\ tx[q].seen.n_obs <= graded
      BY <3>1 DEF RequestSound
    <3>4. tx[q].seen # None => state' # None /\ tx[q].seen.n_obs <= graded'
      BY <1>2, <1>6, <1>7, <3>2, <3>3
    <3> QED
      BY <1>6, <3>1, <3>4 DEF RequestSound, ClaimRow
  <2> QED
    BY <2>1, <2>2
<1> QED
  BY <1>8, <1>9, <1>10 DEF Inv

LEMMA NextInv == Inv /\ [Next]_vars => Inv'
<1> SUFFICES ASSUME Inv, [Next]_vars PROVE Inv'
  OBVIOUS
<1>1. ASSUME NEW r \in Requests, Begin(r) PROVE Inv'
  <2>1. tx[r] \in Transaction /\ RequestSound(r) /\ pc[r] = "idle"
    BY <1>1 DEF Inv, TypeOK, RequestsSound, Begin
  <2>2. tx' = [tx EXCEPT ![r] = tx[r]] /\ UNCHANGED database
        /\ pc' = [pc EXCEPT ![r] = "open"]
    BY <1>1 DEF Inv, TypeOK, Begin
  <2>3. RequestSound(r)'
    BY <1>1, <2>1, <2>2 DEF RequestSound, database, Inv, TypeOK, ClaimRow, Begin
  <2> QED
    BY <2>1, <2>2, <2>3, RequestStep
<1>2. ASSUME NEW r \in Requests, Intake(r) PROVE Inv'
  <2>1. /\ tx' = [tx EXCEPT ![r] = WriteEvidence(r, None, 0)]
        /\ pc' = [pc EXCEPT ![r] = "evidence"]
        /\ pc[r] \in {"open", "evidence"}
        /\ UNCHANGED database
    BY <1>2 DEF Intake
  <2>2. 0 \in 0..2 /\ None \in Claims \cup {None}
    OBVIOUS
  <2> QED
    BY <2>1, <2>2, WriteStep
<1>3. ASSUME NEW r \in Requests, ConfirmClaim(r) PROVE Inv'
  <2>1. PICK c \in Claims : /\ tx' = [tx EXCEPT ![r] = WriteEvidence(r, c, TierOf[c])]
                            /\ pc' = [pc EXCEPT ![r] = "evidence"]
                            /\ pc[r] \in {"open", "evidence"}
                            /\ UNCHANGED database
    BY <1>3 DEF ConfirmClaim, Confirming
  <2>2. TierOf[c] \in 0..2
    BY TierAssumption
  <2> QED
    BY <2>1, <2>2, WriteStep
<1>4. CASE UNCHANGED vars
  <2>1. TypeOK' /\ RowBacked'
    BY <1>4 DEF Inv, TypeOK, RowBacked, vars
  <2>2. RequestsSound'
    BY <1>4 DEF Inv, RequestsSound, RequestSound, vars
  <2> QED
    BY <2>1, <2>2 DEF Inv
<1> QED
  BY <1>1, <1>2, <1>3, <1>4, RollbackStep, SubmissionStep, DecideStep, CommitStep DEF Next

\* Inv is an invariant for every value of the constants.
THEOREM InvHolds == Spec => []Inv
<1>1. Init => Inv
  BY InitInv
<1>2. Inv /\ [Next]_vars => Inv'
  BY NextInv
<1> QED
  BY <1>1, <1>2, PTL DEF Spec

\* However many claims are confirmed, and whatever requests race, claims alone
\* meet no level, and level 3 takes three graded answers.
THEOREM LevelsAreEarned == Spec => []LevelIsEarned
<1>1. Inv => LevelIsEarned
  <2> SUFFICES ASSUME Inv PROVE LevelIsEarned
    OBVIOUS
  <2>1. graded \in Nat /\ state \in SkillState \cup {None}
    BY DEF Inv, TypeOK
  <2>2. ASSUME graded = 0 PROVE CurrentLevel(state) = 0
    <3>1. CASE state = None
      BY <3>1 DEF CurrentLevel, LevelMet
    <3>2. CASE state # None
      <4>1. ClaimRow(state) /\ state.tier \in Tiers
        BY <2>1, <2>2, <3>2 DEF Inv, RowBacked, SkillState, ClaimRow
      <4>2. state.tier = 0 \/ state.tier = 1 \/ state.tier = 2
        BY <4>1 DEF ClaimRow, Tiers
      <4>3. EstimateBelow(state.alpha, state.beta, 50)
            /\ EstimateBelow(state.alpha, state.beta, 70)
            /\ EstimateBelow(state.alpha, state.beta, 85)
        BY <4>1, <4>2 DEF ClaimRow, PriorAlpha, PriorBeta, EstimateBelow
      <4>4. Threshold(1) = 50 /\ Threshold(2) = 70 /\ Threshold(3) = 85
        BY DEF Threshold
      <4> QED
        BY <4>3, <4>4 DEF CurrentLevel, LevelMet
    <3> QED
      BY <3>1, <3>2
  <2>3. ASSUME CurrentLevel(state) = 3 PROVE graded >= 3
    <3>1. LevelMet(state, 3)
      BY <2>3 DEF CurrentLevel
    <3>2. state # None /\ state.n_obs >= 3
      BY <3>1 DEF LevelMet
    <3> QED
      BY <2>1, <3>2 DEF Inv, RowBacked, SkillState
  <2> QED
    BY <2>1, <2>2, <2>3 DEF LevelIsEarned
<1> QED
  BY <1>1, InvHolds, PTL

-----------------------------------------------------------------------------
\* A client that waits for its answers.

\* A piece of evidence leaves what the record says with it.
LEMMA RecordAfterEvidence ==
  ASSUME NEW s \in SkillState \cup {None}, NEW rows, NEW n \in Nat, NEW tier \in 0..2,
         NEW e0, e0.tier = tier, IsRecordOf(s, rows, n),
         \A e \in rows : e.tier \in Tiers
  PROVE  IsRecordOf(AfterEvidence(s, tier), rows \cup {e0}, n)
<1> DEFINE new == AfterEvidence(s, tier)
<1>1. new \in SkillState /\ new # None
  BY AfterEvidenceLemma, NoneAssumption
<1>p. /\ PriorAlpha(tier) \in Nat /\ PriorBeta(tier) \in Nat
      /\ PriorAlpha(tier) <= PriorBeta(tier) /\ PriorBeta(tier) >= 10
  BY DEF PriorAlpha, PriorBeta
<1>2. CASE s = None
  <2>1. new = PriorRow(tier) /\ n = 0 /\ rows = {}
    BY <1>2 DEF AfterEvidence, IsRecordOf
  <2>2. /\ new.tier = tier /\ new.n_obs = 0 /\ new.band = "unknown"
        /\ new.alpha = PriorAlpha(tier) /\ new.beta = PriorBeta(tier)
    BY <2>1 DEF PriorRow
  <2>3. ClaimRow(new)
    BY <2>1, PriorRowType
  <2> QED
    BY <1>1, <1>p, <2>1, <2>2, <2>3 DEF IsRecordOf
<1>3. CASE s # None /\ tier > s.tier
  <2>1. s \in SkillState /\ s.tier \in 0..3
    BY <1>3 DEF SkillState, Tiers
  <2>2. n = 0
    BY <1>3, <2>1 DEF IsRecordOf
  <2>3. new = [s EXCEPT !.tier = tier, !.alpha = PriorAlpha(tier), !.beta = PriorBeta(tier)]
    BY <1>3 DEF AfterEvidence
  <2>4. /\ new.tier = tier /\ new.n_obs = s.n_obs /\ new.band = s.band
        /\ new.alpha = PriorAlpha(tier) /\ new.beta = PriorBeta(tier)
    BY <2>1, <2>3 DEF SkillState
  <2>5. ClaimRow(new) /\ new.band = "unknown" /\ new.n_obs = n
    BY <1>3, <2>2, <2>4 DEF IsRecordOf, ClaimRow
  <2>6. \A e \in rows \cup {e0} : e.tier <= new.tier
    <3>1. \A e \in rows : e.tier <= s.tier
      BY <1>3 DEF IsRecordOf
    <3> HIDE DEF new
    <3>2. ASSUME NEW e \in rows PROVE e.tier <= new.tier
      <4>1. e.tier <= s.tier /\ e.tier \in 0..3
        BY <3>1 DEF Tiers
      <4> QED
        BY <1>3, <2>1, <2>4, <4>1
    <3> QED
      BY <2>4, <3>2
  <2> QED
    BY <1>1, <1>p, <2>2, <2>4, <2>5, <2>6 DEF IsRecordOf
<1>4. CASE s # None /\ ~(tier > s.tier)
  <2>1. new = s /\ s.tier \in 0..3
    BY <1>4 DEF AfterEvidence, SkillState, Tiers
  <2>2. e0.tier <= s.tier
    BY <1>4, <2>1
  <2> QED
    BY <1>4, <2>1, <2>2 DEF IsRecordOf
<1> QED
  BY <1>2, <1>3, <1>4

\* Graded answers leave what the record says with them.
LEMMA RecordAfterAnswers ==
  ASSUME NEW s \in SkillState \cup {None}, NEW rows, NEW n \in Nat, NEW e0, e0.tier = 3,
         NEW right \in Answers, NEW wrong \in Answers,
         AnswerCount(right) + AnswerCount(wrong) > 0,
         IsRecordOf(s, rows, n), \A e \in rows : e.tier \in Tiers
  PROVE  /\ IsRecordOf(AfterAnswers(Known(s), right, wrong), rows \cup {e0},
                       n + (AnswerCount(right) + AnswerCount(wrong)))
         /\ Moved(Known(s), AfterAnswers(Known(s), right, wrong))
<1> DEFINE new == AfterAnswers(Known(s), right, wrong)
           count == AnswerCount(right) + AnswerCount(wrong)
<1>1. Known(s) \in SkillState /\ (s = None => Known(s).n_obs = 0)
  BY DEF Known, Unclaimed, SkillState, Tiers, Bands
<1>2. new \in SkillState /\ new # None /\ new.tier = 3 /\ new.n_obs = Known(s).n_obs + count
  BY <1>1, AfterAnswersLemma, NoneAssumption
<1>3. /\ right["easy"] \in Nat /\ right["medium"] \in Nat /\ right["hard"] \in Nat
      /\ wrong["easy"] \in Nat /\ wrong["medium"] \in Nat /\ wrong["hard"] \in Nat
  BY BoundsAssumption DEF Answers, Difficulties
<1>4. Known(s).n_obs = n
  BY <1>1 DEF Known, IsRecordOf
<1>5. Known(s).alpha <= Known(s).beta + 13 * n /\ Known(s).beta >= 10
  <2>1. CASE s = None
    <3>1. n = 0
      BY <2>1 DEF IsRecordOf
    <3> QED
      BY <2>1, <3>1 DEF Known, Unclaimed
  <2>2. CASE s # None
    BY <2>2 DEF Known, IsRecordOf
  <2> QED
    BY <2>1, <2>2
<1>6. Known(s).alpha \in Nat /\ Known(s).beta \in Nat
  BY <1>1 DEF SkillState
<1>7. /\ new.alpha = Known(s).alpha + 7 * right["easy"] + 10 * right["medium"] + 13 * right["hard"]
      /\ new.beta = Known(s).beta + 13 * wrong["easy"] + 10 * wrong["medium"] + 7 * wrong["hard"]
      /\ new.band = Band(new.alpha, new.beta, new.n_obs, 3)
  BY DEF AfterAnswers
<1>8. /\ count \in Nat
      /\ count = right["easy"] + right["medium"] + right["hard"]
                 + (wrong["easy"] + wrong["medium"] + wrong["hard"])
  BY <1>3 DEF AnswerCount
<1> HIDE DEF new, count
<1>9. new.alpha <= new.beta + 13 * (n + count) /\ new.beta >= 10
  BY <1>3, <1>5, <1>6, <1>7, <1>8
<1>10. \A e \in rows \cup {e0} : e.tier <= new.tier
  BY <1>2 DEF Tiers
<1>11. n + count > 0 /\ new.n_obs = n + count
  BY <1>2, <1>4, <1>8 DEF count
<1>12. new.band = Band(new.alpha, new.beta, n + count, 3)
  BY <1>7, <1>11
<1>13. n + count # 0
  BY <1>8, <1>11
<1>14. IsRecordOf(new, rows \cup {e0}, n + count)
  BY <1>2, <1>9, <1>10, <1>11, <1>12, <1>13 DEF IsRecordOf
<1>15. Moved(Known(s), new)
  <2>1. count > 0
    BY DEF count
  <2> QED
    BY <1>3, <1>6, <1>7, <1>8, <2>1 DEF Moved
<1> QED
  BY <1>14, <1>15 DEF new, count

LEMMA AtMostOne ==
  ASSUME NEW S, IsFiniteSet(S), Cardinality(S) <= 1
  PROVE  \A q, r \in S : q = r
<1> SUFFICES ASSUME NEW q \in S, NEW r \in S, q # r PROVE FALSE
  OBVIOUS
<1>1. {q, r} \subseteq S
  OBVIOUS
<1>2. Cardinality({q, r}) <= Cardinality(S)
  BY <1>1, FS_Subset
<1>3. IsFiniteSet({q}) /\ Cardinality({q}) = 1
  BY FS_Singleton
<1>4. {q, r} = {q} \cup {r}
  OBVIOUS
<1>5. Cardinality({q, r}) = 2
  <2>1. r \notin {q}
    OBVIOUS
  <2>2. Cardinality({q} \cup {r}) = Cardinality({q}) + 1
    BY <1>3, <2>1, FS_AddElement
  <2> QED
    BY <1>3, <1>4, <2>2
<1>6. Cardinality(S) \in Nat
  BY FS_CardinalityType
<1> QED
  BY <1>2, <1>5, <1>6

\* A request that takes a step is the only one that may become open.
LEMMA FiniteInFlight ==
  ASSUME TypeOK, IsFiniteSet(InFlight), NEW r \in Requests, NEW w,
         pc' = [pc EXCEPT ![r] = w]
  PROVE  IsFiniteSet(InFlight')
<1>1. InFlight' \subseteq InFlight \cup {r}
  BY DEF InFlight, TypeOK
<1>2. IsFiniteSet(InFlight \cup {r})
  BY FS_AddElement
<1> QED
  BY <1>1, <1>2, FS_Subset

\* A step of the only open request, that leaves the committed rows alone.
LEMMA WaitingStep ==
  ASSUME TypeOK, WaitingInv, Waits, UNCHANGED client, NEW r \in Requests, UNCHANGED database,
         NEW w, NEW t, pc' = [pc EXCEPT ![r] = w], tx' = [tx EXCEPT ![r] = t],
         \A p, q \in InFlight' : p = q, RequestKnows(r)'
  PROVE  WaitingInv'
<1>1. IsFiniteSet(InFlight')
  BY FiniteInFlight DEF WaitingInv
<1>2. IsRecordOf(state, evidence, graded)' /\ OnePerClaim(evidence, claims)'
  <2>1. IsRecordOf(state, evidence, graded) /\ OnePerClaim(evidence, claims)
    BY DEF WaitingInv
  <2> QED
    BY <2>1 DEF database, IsRecordOf, OnePerClaim, ClaimRow
<1>3. ASSUME NEW q \in Requests, q # r PROVE RequestKnows(q)'
  <2>1. pc'[q] = pc[q] /\ tx'[q] = tx[q] /\ (q \in InFlight' <=> q \in InFlight)
    BY <1>3 DEF TypeOK, InFlight
  <2>2. RequestKnows(q)
    BY DEF WaitingInv
  <2>3. UNCHANGED <<state, claims, evidence, graded>>
    BY DEF database
  <2>4. IsRecordOf(tx[q].new, evidence \cup tx[q].evidence, graded + tx[q].graded)' <=>
        IsRecordOf(tx[q].new, evidence \cup tx[q].evidence, graded + tx[q].graded)
    BY <2>1, <2>3 DEF IsRecordOf, ClaimRow
  <2>5. OnePerClaim(tx[q].evidence, tx[q].claims)' <=> OnePerClaim(tx[q].evidence, tx[q].claims)
    BY <2>1 DEF OnePerClaim
  <2>6. /\ q \notin InFlight' => tx'[q] = NoTx
        /\ pc'[q] = "open" => tx'[q] = [NoTx EXCEPT !.claims = tx'[q].claims]
        /\ pc'[q] \in {"evidence", "answers"} => tx'[q].seen = state' /\ tx'[q].new # None
    BY <2>1, <2>2, <2>3 DEF RequestKnows
  <2>7. pc'[q] \in {"evidence", "answers"} =>
          IsRecordOf(tx[q].new, evidence \cup tx[q].evidence, graded + tx[q].graded)'
    BY <2>1, <2>2, <2>4 DEF RequestKnows
  <2>8. \A c \in Claims : tx'[q].claims[c] # "pending" => claims'[c] = "pending"
    BY <2>1, <2>2, <2>3 DEF RequestKnows
  <2>9. OnePerClaim(tx[q].evidence, tx[q].claims)'
    BY <2>2, <2>5 DEF RequestKnows
  <2>10. /\ pc'[q] = "evidence" => tx'[q].graded = 0 /\ (graded' > 0 => tx'[q].new = state')
         /\ pc'[q] = "answers" => tx'[q].graded > 0 /\ Moved(Known(state), tx[q].new)
    BY <2>1, <2>2, <2>3 DEF RequestKnows
  <2>11. Moved(Known(state), tx[q].new) <=> Moved(Known(state), tx[q].new)'
    BY <2>1, <2>3 DEF Moved, Known, Unclaimed
  <2> QED
    BY <2>6, <2>7, <2>8, <2>9, <2>10, <2>11 DEF RequestKnows, NoTx
<1> QED
  BY <1>1, <1>2, <1>3 DEF WaitingInv, Waits

\* A request that has ended, or has not begun, knows nothing.
LEMMA NothingKnown ==
  ASSUME NEW r \in Requests, r \notin InFlight', tx'[r] = NoTx
  PROVE  RequestKnows(r)'
<1>1. pc'[r] \notin {"open", "evidence", "answers"}
  BY DEF InFlight
<1> QED
  BY <1>1 DEF RequestKnows, NoTx, Pending, OnePerClaim

\* write_evidence adds what the record says with the new piece, and one row of a
\* claim that had none.
LEMMA WaitingWrite ==
  ASSUME Inv, WaitingInv, Waits, UNCHANGED client, NEW r \in Requests,
         pc[r] \in {"open", "evidence"},
         NEW claim \in Claims \cup {None}, NEW tier \in 0..2,
         claim # None => Undecided(r, claim),
         tx' = [tx EXCEPT ![r] = WriteEvidence(r, claim, tier)],
         pc' = [pc EXCEPT ![r] = "evidence"],
         UNCHANGED database, \A p, q \in InFlight' : p = q
  PROVE  WaitingInv'
<1> DEFINE s == IF pc[r] = "open" THEN state ELSE tx[r].new
           new == AfterEvidence(s, tier)
           t == WriteEvidence(r, claim, tier)
           e0 == [by |-> r, claim |-> claim, tier |-> tier]
           rows == evidence \cup tx[r].evidence
           n == graded + tx[r].graded
<1>1. TypeOK /\ tx[r] \in Transaction /\ RequestKnows(r) /\ IsRecordOf(state, evidence, graded)
  BY DEF Inv, TypeOK, WaitingInv
<1>2. s \in SkillState \cup {None} /\ n \in Nat /\ graded \in Nat
      /\ rows \subseteq Evidence
  BY <1>1 DEF TypeOK, Transaction
<1>3. IsRecordOf(s, rows, n)
  <2>1. CASE pc[r] = "open"
    <3>1. tx[r].evidence = {} /\ tx[r].graded = 0
      BY <1>1, <2>1 DEF RequestKnows, NoTx
    <3>2. rows = evidence /\ n = graded
      BY <1>2, <3>1
    <3> QED
      BY <1>1, <2>1, <3>2
  <2>2. CASE pc[r] = "evidence"
    BY <1>1, <2>2 DEF RequestKnows
  <2> QED
    BY <2>1, <2>2
<1>4. \A e \in rows : e.tier \in Tiers
  BY <1>2 DEF Evidence
<1>5. new \in SkillState /\ new # None
  BY <1>2, AfterEvidenceLemma, NoneAssumption
<1>6. e0.tier = tier /\ e0.claim = claim
  OBVIOUS
<1>7. IsRecordOf(new, rows \cup {e0}, n)
  <2> HIDE DEF e0, rows, n, s, new
  <2> QED
    BY <1>2, <1>3, <1>4, <1>6, RecordAfterEvidence DEF new
<1> HIDE DEF new, s
<1>8. /\ t.new = new /\ t.graded = tx[r].graded
      /\ t.seen = state
      /\ t.evidence = tx[r].evidence \cup {e0}
      /\ t.claims = [c \in Claims |-> IF c = claim THEN "confirmed" ELSE tx[r].claims[c]]
  <2>1. /\ t.new = new /\ t.graded = tx[r].graded
        /\ t.seen = IF pc[r] = "open" THEN state ELSE tx[r].seen
        /\ t.evidence = tx[r].evidence \cup {e0}
        /\ t.claims = [c \in Claims |-> IF c = claim THEN "confirmed" ELSE tx[r].claims[c]]
    BY <1>1 DEF WriteEvidence, Transaction, new, s
  <2>2. pc[r] # "open" => tx[r].seen = state
    BY <1>1 DEF RequestKnows
  <2> QED
    BY <2>1, <2>2
<1> HIDE DEF t
<1>9. tx'[r] = t /\ pc'[r] = "evidence" /\ r \in InFlight'
      /\ UNCHANGED <<state, claims, evidence, graded>>
  BY <1>1 DEF TypeOK, database, t, InFlight
<1>10. OnePerClaim(t.evidence, t.claims)
  <2>1. OnePerClaim(tx[r].evidence, tx[r].claims)
    BY <1>1 DEF RequestKnows
  <2>2. \A e \in tx[r].evidence : e.claim \in Claims \cup {None}
    BY <1>1 DEF Transaction, Evidence
  <2>3. claim # None => tx[r].claims[claim] = "pending"
    BY DEF Undecided
  <2>4. claim # None => \A e \in tx[r].evidence : e.claim # claim
    BY <2>1, <2>3 DEF OnePerClaim
  <2>5. \A d, e \in t.evidence : d.claim = e.claim /\ d.claim # None => d = e
    <3> HIDE DEF e0
    <3> QED
      BY <1>6, <1>8, <2>1, <2>4, Zenon DEF OnePerClaim
  <2>6. ASSUME NEW e \in t.evidence, e.claim # None PROVE t.claims[e.claim] = "confirmed"
    <3>1. CASE e \in tx[r].evidence
      <4>1. e.claim \in Claims /\ tx[r].claims[e.claim] = "confirmed"
        BY <2>1, <2>2, <2>6, <3>1 DEF OnePerClaim
      <4> QED
        BY <1>8, <4>1
    <3>2. CASE e = e0
      <4>1. e.claim = claim /\ claim \in Claims
        BY <1>6, <2>6, <3>2
      <4> QED
        BY <1>8, <4>1
    <3> QED
      BY <1>8, <3>1, <3>2
  <2> QED
    BY <2>5, <2>6 DEF OnePerClaim
<1>11. \A c \in Claims : t.claims[c] # "pending" => claims[c] = "pending"
  <2>1. \A c \in Claims : tx[r].claims[c] # "pending" => claims[c] = "pending"
    BY <1>1 DEF RequestKnows
  <2> QED
    BY <1>8, <2>1, NoneAssumption DEF Undecided
<1>12. evidence \cup t.evidence = rows \cup {e0}
  BY <1>8
\* An assessed row stays as it is.
<1>14. tx[r].graded = 0
  BY <1>1 DEF RequestKnows, NoTx
<1>15. graded > 0 => new = state
  <2>1. ASSUME graded > 0 PROVE s = state /\ state # None /\ state.tier = 3
    BY <1>1, <1>2, <2>1 DEF RequestKnows, IsRecordOf, s
  <2> QED
    BY <2>1 DEF AfterEvidence, new
<1>13. RequestKnows(r)'
  <2>1. IsRecordOf(t.new, evidence \cup t.evidence, graded + t.graded)
    BY <1>7, <1>8, <1>12
  <2>2. IsRecordOf(tx[r].new, evidence \cup tx[r].evidence, graded + tx[r].graded)'
    BY <1>9, <2>1 DEF IsRecordOf, ClaimRow
  <2>3. OnePerClaim(tx[r].evidence, tx[r].claims)'
    BY <1>9, <1>10 DEF OnePerClaim
  <2>4. tx'[r].seen = state' /\ tx'[r].new # None
    BY <1>5, <1>8, <1>9
  <2>5. \A c \in Claims : tx'[r].claims[c] # "pending" => claims'[c] = "pending"
    BY <1>9, <1>11
  <2>6. tx'[r].graded = 0 /\ (graded' > 0 => tx'[r].new = state')
    BY <1>8, <1>9, <1>14, <1>15
  <2> QED
    BY <1>9, <2>2, <2>3, <2>4, <2>5, <2>6 DEF RequestKnows
<1> QED
  BY <1>1, <1>13, WaitingStep DEF t

LEMMA WaitingDecide ==
  ASSUME Inv, WaitingInv, Waits, UNCHANGED client, NEW r \in Requests, DecideElsewhere(r),
         \A p, q \in InFlight' : p = q
  PROVE  WaitingInv'
<1>1. PICK c \in Claims, status \in {"removed", "confirmed"} :
        Undecided(r, c) /\ tx' = [tx EXCEPT ![r].claims[c] = status]
  BY DEF DecideElsewhere
<1> DEFINE t == [tx[r] EXCEPT !.claims[c] = status]
<1>2. /\ TypeOK /\ tx[r] \in Transaction /\ pc[r] \in {"open", "evidence"} /\ RequestKnows(r)
      /\ UNCHANGED <<state, claims, evidence, graded, pc>>
  BY DEF Inv, TypeOK, WaitingInv, DecideElsewhere, Confirming, database
<1>3. /\ t.seen = tx[r].seen /\ t.new = tx[r].new
      /\ t.evidence = tx[r].evidence /\ t.graded = tx[r].graded
      /\ t.claims = [tx[r].claims EXCEPT ![c] = status]
      /\ t \in Transaction
  BY <1>2 DEF Transaction, ClaimStatus
<1> HIDE DEF t
<1>4. tx' = [tx EXCEPT ![r] = t] /\ tx'[r] = t /\ pc' = [pc EXCEPT ![r] = pc[r]]
  BY <1>1, <1>2 DEF TypeOK, t
<1>5. OnePerClaim(t.evidence, t.claims)
  <2>1. OnePerClaim(tx[r].evidence, tx[r].claims)
    BY <1>2 DEF RequestKnows
  <2>2. \A e \in tx[r].evidence : e.claim \in Claims \cup {None}
    BY <1>2 DEF Transaction, Evidence
  <2>3. \A e \in tx[r].evidence : e.claim # c
    BY <1>1, <2>1, NoneAssumption DEF Undecided, OnePerClaim
  <2>4. \A d \in Claims : d # c => t.claims[d] = tx[r].claims[d]
    BY <1>2, <1>3 DEF Transaction
  <2>5. ASSUME NEW e \in t.evidence, e.claim # None PROVE t.claims[e.claim] = "confirmed"
    <3>1. e.claim \in Claims /\ e.claim # c /\ tx[r].claims[e.claim] = "confirmed"
      BY <1>3, <2>1, <2>2, <2>3, <2>5 DEF OnePerClaim
    <3> QED
      BY <2>4, <3>1
  <2> QED
    BY <1>3, <2>1, <2>5 DEF OnePerClaim
<1>6. \A d \in Claims : t.claims[d] # "pending" => claims[d] = "pending"
  <2>1. \A d \in Claims : tx[r].claims[d] # "pending" => claims[d] = "pending"
    BY <1>2 DEF RequestKnows
  <2>2. \A d \in Claims : d # c => t.claims[d] = tx[r].claims[d]
    BY <1>2, <1>3 DEF Transaction
  <2> QED
    BY <1>1, <2>1, <2>2 DEF Undecided
<1>7. pc[r] = "open" => t = [NoTx EXCEPT !.claims = t.claims]
  <2>1. ASSUME pc[r] = "open" PROVE t = [NoTx EXCEPT !.claims = t.claims]
    <3>1. tx[r] = [NoTx EXCEPT !.claims = tx[r].claims]
      BY <1>2, <2>1 DEF RequestKnows
    <3>2. tx[r].seen = None /\ tx[r].new = None /\ tx[r].evidence = {} /\ tx[r].graded = 0
      BY <3>1 DEF NoTx
    <3>3. t.seen = None /\ t.new = None /\ t.evidence = {} /\ t.graded = 0
      BY <1>3, <3>2
    <3>4. t = [seen |-> t.seen, new |-> t.new, claims |-> t.claims, evidence |-> t.evidence,
               graded |-> t.graded]
      BY <1>3 DEF Transaction
    <3>5. t = [seen |-> None, new |-> None, claims |-> t.claims, evidence |-> {}, graded |-> 0]
      BY <3>3, <3>4
    <3>6. [NoTx EXCEPT !.claims = t.claims] =
          [seen |-> None, new |-> None, claims |-> t.claims, evidence |-> {}, graded |-> 0]
      BY DEF NoTx
    <3> QED
      BY <3>5, <3>6
  <2> QED
    BY <2>1
<1>8. RequestKnows(r)'
  <2>1. tx'[r] = t /\ pc'[r] = pc[r] /\ UNCHANGED <<state, claims, evidence, graded>>
        /\ r \in InFlight'
    BY <1>2, <1>4 DEF InFlight
  <2>2. pc[r] = "evidence" => /\ t.seen = state /\ t.new # None
                              /\ IsRecordOf(t.new, evidence \cup t.evidence, graded + t.graded)
    BY <1>2, <1>3 DEF RequestKnows
  <2>3. pc[r] = "evidence" =>
          IsRecordOf(tx[r].new, evidence \cup tx[r].evidence, graded + tx[r].graded)'
    BY <2>1, <2>2 DEF IsRecordOf, ClaimRow
  <2>4. OnePerClaim(tx[r].evidence, tx[r].claims)'
    BY <1>5, <2>1 DEF OnePerClaim
  <2>5. pc'[r] # "answers"
    BY <1>2, <2>1
  <2>6. \A d \in Claims : tx'[r].claims[d] # "pending" => claims'[d] = "pending"
    BY <1>6, <2>1
  <2>7. pc'[r] = "open" => tx'[r] = [NoTx EXCEPT !.claims = tx'[r].claims]
    BY <1>7, <2>1
  <2>8. pc'[r] = "evidence" => tx'[r].seen = state' /\ tx'[r].new # None
    BY <2>1, <2>2
  <2>9. pc'[r] = "evidence" => tx'[r].graded = 0 /\ (graded' > 0 => tx'[r].new = state')
    BY <1>2, <1>3, <2>1 DEF RequestKnows
  <2> QED
    BY <2>1, <2>3, <2>4, <2>5, <2>6, <2>7, <2>8, <2>9 DEF RequestKnows, NoTx
<1> QED
  BY <1>2, <1>4, <1>8, WaitingStep DEF database

LEMMA WaitingSubmission ==
  ASSUME Inv, WaitingInv, Waits, UNCHANGED client, NEW r \in Requests, ReadForSubmission(r),
         \A p, q \in InFlight' : p = q
  PROVE  WaitingInv'
<1>1. PICK right \in Answers, wrong \in Answers :
        LET count == AnswerCount(right) + AnswerCount(wrong) IN
        /\ pc[r] = "open"
        /\ count \in 1..MaxItems
        /\ tx' = [tx EXCEPT ![r] =
             [NoTx EXCEPT
                !.seen = state,
                !.new = AfterAnswers(IF state = None THEN Unclaimed ELSE state, right, wrong),
                !.evidence = {[by |-> r, claim |-> None, tier |-> 3]},
                !.graded = count]]
        /\ pc' = [pc EXCEPT ![r] = "answers"]
        /\ UNCHANGED database
  BY DEF ReadForSubmission
<1> DEFINE count == AnswerCount(right) + AnswerCount(wrong)
           new == AfterAnswers(Known(state), right, wrong)
           e0 == [by |-> r, claim |-> None, tier |-> 3]
           t == [NoTx EXCEPT !.seen = state, !.new = new, !.evidence = {e0}, !.graded = count]
<1>2. /\ TypeOK /\ IsRecordOf(state, evidence, graded) /\ state \in SkillState \cup {None}
      /\ graded \in Nat /\ \A e \in evidence : e.tier \in Tiers
  BY DEF Inv, TypeOK, WaitingInv, Evidence
<1>3. count > 0
  BY <1>1, BoundsAssumption
<1>4. IsRecordOf(new, evidence \cup {e0}, graded + count) /\ Moved(Known(state), new)
  <2>1. e0.tier = 3
    OBVIOUS
  <2> HIDE DEF e0
  <2> QED
    BY <1>2, <1>3, <2>1, RecordAfterAnswers
<1>5. new # None
  <2>1. Known(state) \in SkillState
    BY <1>2 DEF Known, Unclaimed, SkillState, Tiers, Bands
  <2> QED
    BY <2>1, AfterAnswersLemma, NoneAssumption
<1>6. tx' = [tx EXCEPT ![r] = t]
  BY <1>1 DEF Known
<1>7. /\ t.seen = state /\ t.new = new /\ t.evidence = {e0} /\ t.graded = count
      /\ t.claims = Pending
  BY DEF NoTx
<1> HIDE DEF t, new, count
<1>8. tx'[r] = t /\ pc'[r] = "answers" /\ r \in InFlight'
      /\ UNCHANGED <<state, claims, evidence, graded>>
  BY <1>1, <1>2, <1>6 DEF TypeOK, database, InFlight
<1>9. RequestKnows(r)'
  <2>1. IsRecordOf(tx[r].new, evidence \cup tx[r].evidence, graded + tx[r].graded)'
    BY <1>4, <1>7, <1>8 DEF IsRecordOf, ClaimRow
  <2>2. OnePerClaim(tx[r].evidence, tx[r].claims)'
    BY <1>7, <1>8 DEF OnePerClaim
  <2>3. tx'[r].graded > 0
    BY <1>3, <1>7, <1>8 DEF count
  <2>4. Moved(Known(state), tx[r].new)'
    BY <1>4, <1>7, <1>8 DEF Moved, Known, Unclaimed
  <2> QED
    BY <1>5, <1>7, <1>8, <2>1, <2>2, <2>3, <2>4 DEF RequestKnows, Pending
<1> QED
  BY <1>1, <1>2, <1>6, <1>9, WaitingStep

\* The commit of the only open request writes the row it computed: the row it
\* had read is still the one in force.
LEMMA WaitingWrites ==
  ASSUME Inv, WaitingInv, Waits, NEW r \in Requests, Commit(r)
  PROVE  \/ tx[r].new = None /\ tx[r] = [NoTx EXCEPT !.claims = tx[r].claims] /\ state' = state
         \/ tx[r].new # None /\ tx[r].seen = state /\ state' = tx[r].new
<1>1. /\ RequestKnows(r) /\ pc[r] \in {"open", "evidence", "answers"}
      /\ tx[r] \in Transaction /\ state \in SkillState \cup {None}
  BY DEF Inv, TypeOK, WaitingInv, Commit, InFlight
<1>2. \/ tx[r].new = None /\ state' = state
      \/ tx[r].new # None /\ tx[r].seen = None /\ state = None /\ state' = tx[r].new
      \/ tx[r].new # None /\ tx[r].seen # None /\ state' = RowWritten(tx[r].new, tx[r].seen, state)
  BY DEF Commit
<1>3. CASE pc[r] = "open"
  <2>1. tx[r].new = None /\ tx[r] = [NoTx EXCEPT !.claims = tx[r].claims]
    BY <1>1, <1>3 DEF RequestKnows, NoTx
  <2> QED
    BY <1>2, <2>1
<1>4. CASE pc[r] # "open"
  <2>1. tx[r].new # None /\ tx[r].seen = state
    BY <1>1, <1>4 DEF RequestKnows
  <2>2. ASSUME state # None, state' = RowWritten(tx[r].new, state, state)
        PROVE  state' = tx[r].new
    <3> DEFINE new == tx[r].new
    <3>1. new \in SkillState
      BY <1>1, <2>1 DEF Transaction
    <3>2. state' = [alpha |-> new.alpha, beta |-> new.beta, n_obs |-> new.n_obs,
                    tier |-> new.tier, band |-> new.band]
      BY <2>2 DEF RowWritten, Column
    <3>3. new = [alpha |-> new.alpha, beta |-> new.beta, n_obs |-> new.n_obs,
                 tier |-> new.tier, band |-> new.band]
      BY <3>1 DEF SkillState
    <3> QED
      BY <3>2, <3>3
  <2> QED
    BY <1>2, <2>1, <2>2
<1> QED
  BY <1>3, <1>4

LEMMA WaitingCommit ==
  ASSUME Inv, WaitingInv, Waits, UNCHANGED client, NEW r \in Requests, Commit(r)
  PROVE  WaitingInv'
<1>1. /\ TypeOK /\ tx[r] \in Transaction /\ RequestKnows(r) /\ r \in InFlight
      /\ IsRecordOf(state, evidence, graded) /\ OnePerClaim(evidence, claims)
      /\ graded \in Nat /\ evidence \subseteq Evidence /\ claims \in [Claims -> ClaimStatus]
  BY DEF Inv, TypeOK, WaitingInv, Commit
<1>2. /\ claims' = [c \in Claims |-> Column(tx[r].claims[c], "pending", claims[c])]
      /\ evidence' = evidence \cup tx[r].evidence
      /\ graded' = graded + tx[r].graded
      /\ pc' = [pc EXCEPT ![r] = "ended"]
      /\ tx' = [tx EXCEPT ![r] = NoTx]
  BY DEF Commit, End
<1>3. InFlight' = {}
  <2>1. \A q \in InFlight : q = r
    BY <1>1 DEF WaitingInv
  <2>2. \A q \in Requests : q # r => q \notin InFlight'
    BY <1>1, <1>2, <2>1 DEF TypeOK, InFlight
  <2>3. r \notin InFlight'
    BY <1>1, <1>2 DEF TypeOK, InFlight
  <2> QED
    BY <2>2, <2>3 DEF InFlight
<1>4. IsRecordOf(state, evidence, graded)'
  <2> SUFFICES IsRecordOf(state', evidence', graded')
    BY DEF IsRecordOf, ClaimRow
  <2>1. CASE tx[r].new = None
    <3>1. state' = state /\ tx[r] = [NoTx EXCEPT !.claims = tx[r].claims]
      BY <2>1, WaitingWrites
    <3>2. tx[r].evidence = {} /\ tx[r].graded = 0
      BY <3>1 DEF NoTx
    <3>3. evidence' = evidence /\ graded' = graded
      BY <1>1, <1>2, <3>2
    <3> QED
      BY <1>1, <3>1, <3>3
  <2>2. CASE tx[r].new # None
    <3>1. state' = tx[r].new
      BY <2>2, WaitingWrites
    <3>2. pc[r] # "open"
      BY <1>1, <2>2 DEF RequestKnows, NoTx
    <3>3. pc[r] \in {"evidence", "answers"}
      BY <1>1, <3>2 DEF InFlight
    <3> QED
      BY <1>1, <1>2, <3>1, <3>3 DEF RequestKnows
  <2> QED
    BY <2>1, <2>2
<1>5. OnePerClaim(evidence, claims)'
  <2>1. /\ OnePerClaim(tx[r].evidence, tx[r].claims)
        /\ \A c \in Claims : tx[r].claims[c] # "pending" => claims[c] = "pending"
    BY <1>1 DEF RequestKnows
  <2>2. /\ \A e \in evidence : e.claim \in Claims \cup {None}
        /\ \A e \in tx[r].evidence : e.claim \in Claims \cup {None}
    BY <1>1 DEF Transaction, Evidence
  <2>3. ASSUME NEW d \in evidence, NEW e \in tx[r].evidence, d.claim # None
        PROVE  d.claim # e.claim
    <3> SUFFICES ASSUME d.claim = e.claim PROVE FALSE
      OBVIOUS
    <3>1. e.claim \in Claims /\ claims[e.claim] = "confirmed" /\ tx[r].claims[e.claim] = "confirmed"
      BY <1>1, <2>1, <2>2, <2>3 DEF OnePerClaim
    <3> QED
      BY <2>1, <3>1
  <2>4. \A d, e \in evidence' : d.claim = e.claim /\ d.claim # None => d = e
    <3> SUFFICES ASSUME NEW d \in evidence', NEW e \in evidence', d.claim = e.claim, d.claim # None
                 PROVE  d = e
      OBVIOUS
    <3>1. CASE d \in evidence /\ e \in evidence
      BY <1>1, <3>1 DEF OnePerClaim
    <3>2. CASE d \in tx[r].evidence /\ e \in tx[r].evidence
      BY <2>1, <3>2 DEF OnePerClaim
    <3> QED
      BY <1>2, <2>3, <3>1, <3>2
  <2>5. ASSUME NEW e \in evidence', e.claim # None PROVE claims'[e.claim] = "confirmed"
    <3>1. CASE e \in evidence
      <4>1. e.claim \in Claims /\ claims[e.claim] = "confirmed"
        BY <1>1, <2>2, <2>5, <3>1 DEF OnePerClaim
      <4>2. tx[r].claims[e.claim] = "pending"
        BY <2>1, <4>1
      <4> QED
        BY <1>2, <4>1, <4>2 DEF Column
    <3>2. CASE e \in tx[r].evidence
      <4>1. e.claim \in Claims /\ tx[r].claims[e.claim] = "confirmed"
        BY <2>1, <2>2, <2>5, <3>2 DEF OnePerClaim
      <4> QED
        BY <1>2, <4>1 DEF Column
    <3> QED
      BY <1>2, <3>1, <3>2
  <2> QED
    BY <2>4, <2>5 DEF OnePerClaim
<1>6. ASSUME NEW q \in Requests PROVE RequestKnows(q)'
  <2>1. q \notin InFlight'
    BY <1>3
  <2>2. tx'[q] = NoTx
    <3>1. CASE q = r
      BY <1>1, <1>2, <3>1 DEF TypeOK
    <3>2. CASE q # r
      <4>1. q \notin InFlight
        BY <1>1, <3>2 DEF WaitingInv
      <4>2. tx[q] = NoTx
        BY <4>1 DEF WaitingInv, RequestKnows
      <4> QED
        BY <1>1, <1>2, <3>2, <4>2 DEF TypeOK
    <3> QED
      BY <3>1, <3>2
  <2> QED
    BY <2>1, <2>2, NothingKnown
<1>7. IsFiniteSet(InFlight')
  BY <1>3, FS_EmptySet
<1> QED
  BY <1>3, <1>4, <1>5, <1>6, <1>7 DEF WaitingInv, Waits

LEMMA WaitingInit == MCInit => WaitingInv
<1> SUFFICES ASSUME MCInit PROVE WaitingInv
  OBVIOUS
<1>1. InFlight = {}
  BY DEF MCInit, Init, InFlight
<1>2. IsFiniteSet(InFlight)
  BY <1>1, FS_EmptySet
<1>3. IsRecordOf(state, evidence, graded) /\ OnePerClaim(evidence, claims)
  BY DEF MCInit, Init, IsRecordOf, OnePerClaim
<1>4. ASSUME NEW r \in Requests PROVE RequestKnows(r)
  <2>1. tx[r] = NoTx /\ pc[r] = "idle"
    BY DEF MCInit, Init
  <2> QED
    BY <2>1 DEF RequestKnows, NoTx, Pending, OnePerClaim
<1> QED
  BY <1>1, <1>2, <1>3, <1>4 DEF WaitingInv

LEMMA WaitingNext == Inv /\ WaitingInv /\ [MCNext]_<<vars, client>> => WaitingInv'
<1> SUFFICES ASSUME Inv, WaitingInv, [MCNext]_<<vars, client>> PROVE WaitingInv'
  OBVIOUS
<1>1. CASE UNCHANGED <<vars, client>>
  <2>1. InFlight' = InFlight /\ UNCHANGED <<state, claims, evidence, graded, pc, tx, client>>
    BY <1>1 DEF vars, InFlight
  <2>2. (\A r \in Requests : RequestKnows(r)) => \A r \in Requests : RequestKnows(r)'
    <3> SUFFICES ASSUME NEW r \in Requests, RequestKnows(r) PROVE RequestKnows(r)'
      OBVIOUS
    <3>1. IsRecordOf(tx[r].new, evidence \cup tx[r].evidence, graded + tx[r].graded) <=>
          IsRecordOf(tx[r].new, evidence \cup tx[r].evidence, graded + tx[r].graded)'
      BY <2>1 DEF IsRecordOf, ClaimRow
    <3>2. OnePerClaim(tx[r].evidence, tx[r].claims) <=> OnePerClaim(tx[r].evidence, tx[r].claims)'
      BY <2>1 DEF OnePerClaim
    <3>3. Moved(Known(state), tx[r].new) <=> Moved(Known(state), tx[r].new)'
      BY <2>1 DEF Moved, Known, Unclaimed
    <3>4. (r \in InFlight' <=> r \in InFlight) /\ NoTx' = NoTx
      BY <2>1 DEF NoTx
    <3> QED
      BY <2>1, <3>1, <3>2, <3>3, <3>4 DEF RequestKnows
  <2>3. IsRecordOf(state, evidence, graded) => IsRecordOf(state, evidence, graded)'
    BY <2>1 DEF IsRecordOf, ClaimRow
  <2>4. OnePerClaim(evidence, claims) => OnePerClaim(evidence, claims)'
    BY <2>1 DEF OnePerClaim
  <2> QED
    BY <2>1, <2>2, <2>3, <2>4 DEF WaitingInv, Waits
<1>2. CASE MCNext
  <2>1. TypeOK /\ TypeOK' /\ IsFiniteSet(InFlight) /\ UNCHANGED client
        /\ (Waits => Cardinality(InFlight') <= 1)
    <3>1. [Next]_vars
      BY <1>2 DEF MCNext
    <3> QED
      BY <1>2, <3>1, NextInv DEF Inv, WaitingInv, MCNext
  <2>2. PICK r \in Requests : \/ Begin(r) \/ Rollback(r) \/ ReadForSubmission(r) \/ Intake(r)
                              \/ ConfirmClaim(r) \/ DecideElsewhere(r) \/ Commit(r)
    BY <1>2 DEF MCNext, Next
  <2>3. \E w : pc' = [pc EXCEPT ![r] = w]
    <3>1. TypeOK
      BY <2>1
    <3>2. CASE DecideElsewhere(r)
      <4>1. pc' = [pc EXCEPT ![r] = pc[r]]
        BY <3>1, <3>2 DEF DecideElsewhere, TypeOK
      <4> QED
        BY <4>1
    <3> QED
      BY <2>2, <3>2 DEF Begin, Rollback, ReadForSubmission, Intake, ConfirmClaim, Commit, End
  <2>4. IsFiniteSet(InFlight')
    BY <2>1, <2>3, FiniteInFlight
  <2>5. CASE ~Waits
    BY <2>1, <2>4, <2>5 DEF WaitingInv, Waits
  <2>6. CASE Waits
    <3>1. \A p, q \in InFlight' : p = q
      BY <2>1, <2>4, <2>6, AtMostOne
    <3>2. CASE Begin(r)
      <4>1. /\ pc[r] = "idle" /\ pc' = [pc EXCEPT ![r] = "open"] /\ UNCHANGED <<database, tx>>
        BY <3>2 DEF Begin
      <4>2. tx[r] = NoTx /\ r \in InFlight'
        BY <2>1, <2>6, <4>1 DEF WaitingInv, RequestKnows, InFlight, TypeOK
      <4>3. tx' = [tx EXCEPT ![r] = NoTx] /\ tx'[r] = NoTx /\ pc'[r] = "open"
        BY <2>1, <4>1, <4>2 DEF TypeOK
      <4>4. RequestKnows(r)'
        BY <4>2, <4>3 DEF RequestKnows, NoTx, Pending, OnePerClaim
      <4> QED
        BY <2>1, <2>6, <3>1, <4>1, <4>3, <4>4, WaitingStep
    <3>3. CASE Rollback(r)
      <4>1. /\ pc' = [pc EXCEPT ![r] = "ended"] /\ tx' = [tx EXCEPT ![r] = NoTx]
            /\ UNCHANGED database
        BY <3>3 DEF Rollback, End
      <4>2. r \notin InFlight' /\ tx'[r] = NoTx
        BY <2>1, <4>1 DEF TypeOK, InFlight
      <4>3. RequestKnows(r)'
        BY <4>2, NothingKnown
      <4> QED
        BY <2>1, <2>6, <3>1, <4>1, <4>3, WaitingStep
    <3>4. CASE Intake(r)
      <4>1. /\ tx' = [tx EXCEPT ![r] = WriteEvidence(r, None, 0)]
            /\ pc' = [pc EXCEPT ![r] = "evidence"]
            /\ pc[r] \in {"open", "evidence"}
            /\ UNCHANGED database
        BY <3>4 DEF Intake
      <4>2. 0 \in 0..2 /\ None \in Claims \cup {None}
        OBVIOUS
      <4> QED
        BY <2>1, <2>6, <3>1, <4>1, <4>2, WaitingWrite
    <3>5. CASE ConfirmClaim(r)
      <4>1. PICK c \in Claims : /\ tx' = [tx EXCEPT ![r] = WriteEvidence(r, c, TierOf[c])]
                                /\ pc' = [pc EXCEPT ![r] = "evidence"]
                                /\ pc[r] \in {"open", "evidence"}
                                /\ Undecided(r, c)
                                /\ UNCHANGED database
        BY <3>5 DEF ConfirmClaim, Confirming
      <4>2. TierOf[c] \in 0..2
        BY TierAssumption
      <4> QED
        BY <2>1, <2>6, <3>1, <4>1, <4>2, WaitingWrite
    <3> QED
      BY <2>1, <2>2, <2>6, <3>1, <3>2, <3>3, <3>4, <3>5, WaitingDecide, WaitingSubmission,
         WaitingCommit
  <2> QED
    BY <2>5, <2>6
<1> QED
  BY <1>1, <1>2

\* The two invariants together, of both kinds of client.
LEMMA WaitingHolds == MCSpec => []Inv /\ []WaitingInv
<1>1. MCInit => Inv /\ WaitingInv
  BY InitInv, WaitingInit DEF MCInit
<1>2. [MCNext]_<<vars, client>> => [Next]_vars
  BY DEF MCNext, vars
<1>3. Inv /\ WaitingInv /\ [MCNext]_<<vars, client>> => (Inv /\ WaitingInv)'
  BY <1>2, NextInv, WaitingNext
<1> QED
  BY <1>1, <1>3, PTL DEF MCSpec

\* A client that waits for its answers finds in the row exactly what the record
\* says, and each claim in the record at most once and as it was decided
\* (EvidenceCommitService, update_mastery).
THEOREM WaitingRowAlwaysTheRecord == MCSpec => []WaitingRowIsTheRecord
<1>1. Inv /\ WaitingInv => WaitingRowIsTheRecord
  <2> SUFFICES ASSUME Inv, WaitingInv, Waits PROVE RowIsTheRecord /\ ClaimUsedOnce
    BY DEF WaitingRowIsTheRecord
  <2>1. /\ IsRecordOf(state, evidence, graded) /\ OnePerClaim(evidence, claims)
        /\ graded \in Nat
    BY DEF Inv, TypeOK, WaitingInv
  <2>2. RowIsTheRecord
    BY <2>1 DEF IsRecordOf, RowIsTheRecord, ClaimRow
  <2>3. ASSUME NEW c \in Claims
        PROVE  LET rows == {e \in evidence : e.claim = c}
               IN  Cardinality(rows) <= 1 /\ (rows # {} => claims[c] = "confirmed")
    <3> DEFINE rows == {e \in evidence : e.claim = c}
    <3>1. c # None
      BY NoneAssumption
    <3>2. \A d, e \in rows : d = e
      BY <2>1, <3>1 DEF OnePerClaim
    <3>3. rows # {} => claims[c] = "confirmed"
      BY <2>1, <3>1 DEF OnePerClaim
    <3>4. Cardinality(rows) <= 1
      <4>1. CASE rows = {}
        <5> HIDE DEF rows
        <5> QED
          BY <4>1, FS_EmptySet
      <4>2. CASE rows # {}
        <5> HIDE DEF rows
        <5>1. PICK e \in rows : rows = {e}
          BY <3>2, <4>2
        <5> QED
          <6>1. Cardinality({e}) = 1
            BY FS_Singleton
          <6> QED
            BY <5>1, <6>1
      <4> QED
        BY <4>1, <4>2
    <3> QED
      BY <3>3, <3>4
  <2> QED
    BY <2>2, <2>3 DEF ClaimUsedOnce
<1> QED
  BY <1>1, WaitingHolds, PTL

-----------------------------------------------------------------------------
\* What the levels and bands do when the client waits.

\* A row no answer was graded for meets no level, and its band is the lowest.
LEMMA NoAnswersNoLevel ==
  ASSUME NEW s \in SkillState \cup {None}, NEW rows, IsRecordOf(s, rows, 0)
  PROVE  CurrentLevel(s) = 0 /\ BandRank(s) = 0
<1>1. CASE s = None
  BY <1>1 DEF CurrentLevel, LevelMet, BandRank
<1>2. CASE s # None
  <2>1. ClaimRow(s) /\ s.band = "unknown" /\ s.tier \in Tiers
    BY <1>2 DEF IsRecordOf, SkillState
  <2>2. s.tier = 0 \/ s.tier = 1 \/ s.tier = 2
    BY <2>1 DEF ClaimRow, Tiers
  <2>3. EstimateBelow(s.alpha, s.beta, 50)
        /\ EstimateBelow(s.alpha, s.beta, 70)
        /\ EstimateBelow(s.alpha, s.beta, 85)
    BY <2>1, <2>2 DEF ClaimRow, PriorAlpha, PriorBeta, EstimateBelow
  <2>4. Threshold(1) = 50 /\ Threshold(2) = 70 /\ Threshold(3) = 85
    BY DEF Threshold
  <2>5. CurrentLevel(s) = 0
    BY <2>3, <2>4 DEF CurrentLevel, LevelMet
  <2> QED
    BY <1>2, <2>1, <2>5 DEF BandRank, Rank
<1> QED
  BY <1>1, <1>2

\* What level and band of an assessed row are.
LEMMA AssessedRow ==
  ASSUME NEW s \in SkillState, s.tier = 3, s.n_obs > 0,
         s.band = Band(s.alpha, s.beta, s.n_obs, 3)
  PROVE  /\ CurrentLevel(s) = IF 15 * s.alpha >= 85 * s.beta /\ s.n_obs >= 3 THEN 3
                             ELSE IF 30 * s.alpha >= 70 * s.beta THEN 2
                             ELSE IF 50 * s.alpha >= 50 * s.beta THEN 1 ELSE 0
         /\ BandRank(s) = IF 45 * s.alpha < 55 * s.beta THEN 1
                         ELSE IF 25 * s.alpha < 75 * s.beta \/ s.n_obs < 3 THEN 2 ELSE 3
         /\ BandRank(s) = 1 => s.band = "learning"
<1>0. s # None /\ s.alpha \in Nat /\ s.beta \in Nat /\ s.n_obs \in Nat
  BY NoneAssumption DEF SkillState
<1>1. /\ EstimateBelow(s.alpha, s.beta, 85) <=> 15 * s.alpha < 85 * s.beta
      /\ EstimateBelow(s.alpha, s.beta, 75) <=> 25 * s.alpha < 75 * s.beta
      /\ EstimateBelow(s.alpha, s.beta, 70) <=> 30 * s.alpha < 70 * s.beta
      /\ EstimateBelow(s.alpha, s.beta, 55) <=> 45 * s.alpha < 55 * s.beta
      /\ EstimateBelow(s.alpha, s.beta, 50) <=> 50 * s.alpha < 50 * s.beta
  BY <1>0 DEF EstimateBelow
<1>2. /\ LevelMet(s, 3) <=> 15 * s.alpha >= 85 * s.beta /\ s.n_obs >= 3
      /\ LevelMet(s, 2) <=> 30 * s.alpha >= 70 * s.beta
      /\ LevelMet(s, 1) <=> 50 * s.alpha >= 50 * s.beta
  <2>1. Threshold(1) = 50 /\ Threshold(2) = 70 /\ Threshold(3) = 85
    BY DEF Threshold
  <2> QED
    BY <1>0, <1>1, <2>1 DEF LevelMet
<1>3. CurrentLevel(s) = IF 15 * s.alpha >= 85 * s.beta /\ s.n_obs >= 3 THEN 3
                        ELSE IF 30 * s.alpha >= 70 * s.beta THEN 2
                        ELSE IF 50 * s.alpha >= 50 * s.beta THEN 1 ELSE 0
  BY <1>2 DEF CurrentLevel
<1>4. s.band = IF 45 * s.alpha < 55 * s.beta THEN "learning"
               ELSE IF 25 * s.alpha < 75 * s.beta \/ s.n_obs < 3 THEN "developing"
               ELSE "proficient"
  <2>1. ~ (s.n_obs = 0 /\ 3 <= 1)
    OBVIOUS
  <2> QED
    BY <1>1, <2>1 DEF Band
<1>5. BandRank(s) = Rank(s.band)
  BY <1>0 DEF BandRank
<1>6. BandRank(s) = IF 45 * s.alpha < 55 * s.beta THEN 1
                    ELSE IF 25 * s.alpha < 75 * s.beta \/ s.n_obs < 3 THEN 2 ELSE 3
  BY <1>4, <1>5 DEF Rank
<1>7. BandRank(s) = 1 => s.band = "learning"
  BY <1>4, <1>6
<1> QED
  BY <1>3, <1>6, <1>7

\* What a submission may do to them, without a right or without a wrong answer.
\* That fewer than three answers meet no level 3 and make no one proficient, once
\* the last of them is wrong, is what the estimate's distance from a prior gives.
LEMMA SubmissionMoves ==
  ASSUME NEW s \in SkillState \cup {None}, NEW new \in SkillState, NEW n \in Nat, NEW rows,
         IsRecordOf(s, rows, n),
         new.tier = 3, new.n_obs > n, new.band = Band(new.alpha, new.beta, new.n_obs, 3),
         Moved(Known(s), new)
  PROVE  /\ new.alpha <= Known(s).alpha =>
              /\ CurrentLevel(new) <= CurrentLevel(s)
              /\ BandRank(new) > BandRank(s) => new.band = "learning"
         /\ new.beta <= Known(s).beta =>
              /\ CurrentLevel(new) >= CurrentLevel(s)
              /\ BandRank(new) >= BandRank(s)
<1> DEFINE a == Known(s).alpha
           b == Known(s).beta
<1>1. a \in Nat /\ b \in Nat /\ new.alpha \in Nat /\ new.beta \in Nat /\ new.n_obs \in Nat
  BY DEF Known, Unclaimed, SkillState
<1>2. new.alpha >= a /\ new.beta >= b /\ new.alpha + new.beta >= a + b + 7
  BY DEF Moved
<1>3. a <= b + 13 * n /\ b >= 10
  <2>1. CASE s = None
    <3>1. n = 0
      BY <2>1 DEF IsRecordOf
    <3> QED
      BY <2>1, <3>1 DEF Known, Unclaimed
  <2>2. CASE s # None
    BY <2>2 DEF Known, IsRecordOf
  <2> QED
    BY <2>1, <2>2
<1>4. new.n_obs > 0
  BY <1>1
<1>5. /\ CurrentLevel(new) = IF 15 * new.alpha >= 85 * new.beta /\ new.n_obs >= 3 THEN 3
                             ELSE IF 30 * new.alpha >= 70 * new.beta THEN 2
                             ELSE IF 50 * new.alpha >= 50 * new.beta THEN 1 ELSE 0
      /\ BandRank(new) = IF 45 * new.alpha < 55 * new.beta THEN 1
                         ELSE IF 25 * new.alpha < 75 * new.beta \/ new.n_obs < 3 THEN 2 ELSE 3
      /\ BandRank(new) = 1 => new.band = "learning"
  BY <1>4, AssessedRow
<1>6. CASE n = 0
  <2>1. CurrentLevel(s) = 0 /\ BandRank(s) = 0
    BY <1>6, NoAnswersNoLevel
  <2>2. ASSUME new.alpha <= a PROVE CurrentLevel(new) = 0 /\ BandRank(new) = 1
    <3>1. new.alpha <= b /\ new.beta >= b + 7
      BY <1>1, <1>2, <1>3, <1>6, <2>2
    <3> HIDE DEF a, b
    <3> QED
      BY <1>1, <1>5, <3>1
  <2>3. CurrentLevel(new) >= 0 /\ BandRank(new) >= 0
    BY <1>5
  <2> QED
    BY <1>5, <2>1, <2>2, <2>3
<1>7. CASE n > 0
  <2>1. s # None /\ s \in SkillState /\ s.alpha = a /\ s.beta = b
    BY <1>7 DEF IsRecordOf, Known
  <2>2. s.tier = 3 /\ s.n_obs = n /\ s.band = Band(s.alpha, s.beta, s.n_obs, 3)
    BY <1>7, <2>1 DEF IsRecordOf
  <2>3. /\ CurrentLevel(s) = IF 15 * a >= 85 * b /\ n >= 3 THEN 3
                             ELSE IF 30 * a >= 70 * b THEN 2
                             ELSE IF 50 * a >= 50 * b THEN 1 ELSE 0
        /\ BandRank(s) = IF 45 * a < 55 * b THEN 1
                         ELSE IF 25 * a < 75 * b \/ n < 3 THEN 2 ELSE 3
    BY <1>7, <2>1, <2>2, AssessedRow
  <2> HIDE DEF a, b
  <2>4. ASSUME new.alpha <= a
        PROVE  /\ CurrentLevel(new) <= CurrentLevel(s)
               /\ BandRank(new) > BandRank(s) => new.band = "learning"
    <3>1. new.alpha = a /\ new.beta >= b + 7
      BY <1>1, <1>2, <2>4
    <3>2. n < 3 => 15 * a < 85 * new.beta /\ 25 * a < 75 * new.beta
      BY <1>1, <1>3, <3>1
    <3>3. CurrentLevel(new) <= CurrentLevel(s)
      BY <1>1, <1>5, <2>3, <3>1, <3>2
    <3>4. BandRank(new) > BandRank(s) => BandRank(new) = 1
      BY <1>1, <1>5, <2>3, <3>1, <3>2
    <3> QED
      BY <1>5, <3>3, <3>4
  <2>5. ASSUME new.beta <= b
        PROVE  CurrentLevel(new) >= CurrentLevel(s) /\ BandRank(new) >= BandRank(s)
    <3>1. new.beta = b /\ new.alpha >= a
      BY <1>1, <1>2, <2>5
    <3> QED
      BY <1>1, <1>5, <2>3, <3>1
  <2> QED
    BY <2>4, <2>5 DEF a, b
<1> QED
  BY <1>6, <1>7

LEMMA WaitingLevels ==
  ASSUME Inv, WaitingInv, TypeOK', Waits, NEW r \in Requests, Commit(r)
  PROVE  LevelFollowsAnswers
<1>1. /\ RequestKnows(r) /\ pc[r] \in {"open", "evidence", "answers"}
      /\ tx[r] \in Transaction /\ state \in SkillState \cup {None} /\ graded \in Nat
      /\ IsRecordOf(state, evidence, graded) /\ graded' = graded + tx[r].graded
  BY DEF Inv, TypeOK, WaitingInv, Commit, InFlight
<1>2. CASE tx[r].graded > 0
  <2>1. pc[r] = "answers" /\ Moved(Known(state), tx[r].new)
    BY <1>1, <1>2 DEF RequestKnows, NoTx
  <2>2. tx[r].new # None /\ state' = tx[r].new /\ tx[r].new \in SkillState
    <3>1. tx[r].new # None
      BY <1>1, <2>1 DEF RequestKnows
    <3> QED
      BY <1>1, <3>1, WaitingWrites DEF Transaction
  <2>3. tx[r].graded \in Nat
    BY <1>1 DEF Transaction
  <2>4. /\ state'.tier = 3 /\ state'.n_obs = graded + tx[r].graded
        /\ state'.band = Band(state'.alpha, state'.beta, state'.n_obs, 3)
    BY <1>1, <1>2, <2>1, <2>2, <2>3 DEF RequestKnows, IsRecordOf
  <2>5. /\ state'.alpha <= Known(state).alpha =>
              /\ CurrentLevel(state') <= CurrentLevel(state)
              /\ BandRank(state') > BandRank(state) => state'.band = "learning"
        /\ state'.beta <= Known(state).beta =>
              /\ CurrentLevel(state') >= CurrentLevel(state)
              /\ BandRank(state') >= BandRank(state)
    BY <1>1, <1>2, <2>1, <2>2, <2>3, <2>4, SubmissionMoves
  <2>6. /\ state'.alpha \in Nat /\ state'.beta \in Nat
        /\ Known(state).alpha \in Nat /\ Known(state).beta \in Nat
    BY <1>1, <2>2 DEF SkillState, Known, Unclaimed
  <2>7. graded' > graded
    BY <1>1, <1>2, <2>3
  <2> QED
    BY <2>5, <2>6, <2>7 DEF LevelFollowsAnswers
<1>3. CASE tx[r].graded = 0
  <2>1. graded' = graded
    BY <1>1, <1>3
  <2>2. CurrentLevel(state') >= CurrentLevel(state) /\ BandRank(state') >= BandRank(state)
    <3>1. CASE graded = 0
      <4>1. CurrentLevel(state) = 0 /\ BandRank(state) = 0
        BY <1>1, <3>1, NoAnswersNoLevel
      <4>2. CurrentLevel(state') \in 0..3 /\ BandRank(state') \in 0..3
        BY DEF CurrentLevel, BandRank, Rank
      <4> QED
        BY <4>1, <4>2
    <3>2. CASE graded > 0
      <4>1. tx[r].new # None => tx[r].new = state
        <5>1. CASE pc[r] = "open"
          BY <1>1, <5>1 DEF RequestKnows, NoTx
        <5>2. CASE pc[r] = "evidence"
          BY <1>1, <3>2, <5>2 DEF RequestKnows
        <5>3. CASE pc[r] = "answers"
          BY <1>1, <1>3, <5>3 DEF RequestKnows
        <5> QED
          BY <1>1, <5>1, <5>2, <5>3
      <4>3. state' = state
        BY <4>1, WaitingWrites
      <4>2. CurrentLevel(state) \in 0..3 /\ BandRank(state) \in 0..3
        BY DEF CurrentLevel, BandRank, Rank
      <4> QED
        BY <4>2, <4>3
    <3> QED
      BY <1>1, <3>1, <3>2
  <2> QED
    BY <1>1, <2>1, <2>2 DEF LevelFollowsAnswers
<1> QED
  BY <1>1, <1>2, <1>3 DEF Transaction

\* Of every step, when the client waits: without a right answer no level rises,
\* nor a band above "learning"; without a wrong one nothing falls (_level_met,
\* _current_level, compute_band).
THEOREM WaitingLevelsFollow == MCSpec => WaitingLevelFollowsAnswers
<1>1. Inv /\ Inv' /\ WaitingInv /\ [MCNext]_<<vars, client>> => [Waits => LevelFollowsAnswers]_vars
  <2> SUFFICES ASSUME Inv, Inv', WaitingInv, [MCNext]_<<vars, client>>, ~ UNCHANGED vars, Waits
               PROVE  LevelFollowsAnswers
    OBVIOUS
  <2>1. PICK r \in Requests : \/ Begin(r) \/ Rollback(r) \/ ReadForSubmission(r) \/ Intake(r)
                              \/ ConfirmClaim(r) \/ DecideElsewhere(r) \/ Commit(r)
    BY DEF MCNext, Next, vars
  <2>2. CASE UNCHANGED database
    <3>1. state' = state /\ graded' = graded /\ graded \in Nat
      BY <2>2 DEF database, Inv, TypeOK
    <3>2. CurrentLevel(state) \in 0..3 /\ BandRank(state) \in 0..3
      BY DEF CurrentLevel, BandRank, Rank
    <3> QED
      BY <3>1, <3>2 DEF LevelFollowsAnswers
  <2>3. CASE Commit(r)
    BY <2>3, WaitingLevels DEF Inv
  <2>4. ~ Commit(r) => UNCHANGED database
    BY <2>1 DEF Begin, Rollback, ReadForSubmission, Intake, ConfirmClaim, DecideElsewhere
  <2> QED
    BY <2>2, <2>3, <2>4
<1> QED
  BY <1>1, WaitingHolds, PTL DEF MCSpec, WaitingLevelFollowsAnswers
=============================================================================
