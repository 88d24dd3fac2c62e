------------------------ MODULE MisconceptionsProofs ------------------------
(***************************************************************************)
(* FailuresBehindStatus and RowsBehindHistory, for any number of           *)
(* submissions, misconceptions and items, any thresholds and any number of *)
(* requests in flight; and what a client that waits for its answers can    *)
(* rely on.  Only the commit of a check touches the counter; a lost update *)
(* makes it smaller than the number of failures, never larger.             *)
(***************************************************************************)
EXTENDS MCMisconceptions, FiniteSetTheorems, TLAPS

LEMMA FailuresFinite ==
  ASSUME TypeOK, NEW m
  PROVE  IsFiniteSet(Failures(m)) /\ Cardinality(Failures(m)) \in Nat
<1>1. Failures(m) \in SUBSET Requests
  BY DEF Failures, TypeOK
<1>2. IsFiniteSet(Failures(m))
  BY <1>1, RequestsAssumption, FS_Subset
<1> QED
  BY <1>2, FS_CardinalityType

LEMMA Defaults ==
  /\ NoRow \in LearnerMisconception
  /\ NoSubmission \in Submission
  /\ NoTx \in Transaction
BY DEF NoRow, NoSubmission, NoTx, Read, NoTags, LearnerMisconception, Statuses, Submission,
       Transaction, Tags

\* A read is a transaction that has not yet looked a second time.
LEMMA ReadType ==
  ASSUME NEW sub \in Submission, NEW seen \in LearnerMisconception
  PROVE  /\ Read(sub, seen) \in Transaction
         /\ Read(sub, seen).sub = sub /\ Read(sub, seen).seen = seen
         /\ Read(sub, seen).again = FALSE
BY DEF Read, Transaction

\* The second look touches the transaction only: the submission stays, and the row
\* is the one read before, or the one in force if none was read.
LEMMA SelectedAgain ==
  ASSUME TypeOK, NEW r \in Requests, SelectAgain(r),
         NEW m, m = tx[r].sub.misconception
  PROVE  /\ UNCHANGED <<lm, done, row, submitted, now, pc>> /\ pc[r] = "open"
         /\ m \in Misconceptions /\ tx[r].sub.check = None
         /\ tx' \in [Requests -> Transaction]
         /\ \A q \in Requests \ {r} : tx'[q] = tx[q]
         /\ tx'[r].sub = tx[r].sub /\ tx'[r].again /\ tx'[r].remediated_at = now
         /\ tx'[r].seen = IF tx[r].seen.status = "absent" THEN lm[m] ELSE tx[r].seen
<1> DEFINE seen == IF tx[r].seen.status = "absent" THEN lm[m] ELSE tx[r].seen
           t == [sub |-> tx[r].sub, again |-> TRUE, remediated_at |-> now, seen |-> seen]
<1>1. tx[r] \in Transaction /\ tx[r].sub \in Submission /\ now \in Nat
  BY DEF TypeOK, Transaction
<1>2. m \in Misconceptions /\ tx[r].sub.check = None /\ pc[r] = "open"
  BY <1>1 DEF SelectAgain, Submission, Tags
<1>3. seen \in LearnerMisconception
  BY <1>1, <1>2 DEF TypeOK, Transaction
<1>4. t \in Transaction
  BY <1>1, <1>3 DEF Transaction
<1>5. tx' = [tx EXCEPT ![r] = t]
  BY DEF SelectAgain
<1> HIDE DEF seen
<1>6. t.sub = tx[r].sub /\ t.again /\ t.remediated_at = now /\ t.seen = seen
  OBVIOUS
<1> HIDE DEF t
<1>7. tx' \in [Requests -> Transaction] /\ tx'[r] = t /\ \A q \in Requests \ {r} : tx'[q] = tx[q]
  BY <1>4, <1>5 DEF TypeOK
<1>8. UNCHANGED <<lm, done, row, submitted, now, pc>>
  BY DEF SelectAgain
<1> QED
  BY <1>2, <1>6, <1>7, <1>8 DEF seen

LEMMA InitInv == Init => Inv
<1> SUFFICES ASSUME Init PROVE Inv
  OBVIOUS
<1>1. TypeOK
  BY Defaults DEF Init, TypeOK
<1>2. RequestsSound
  BY DEF Init, RequestsSound, RequestSound
<1>3. FailuresBehindStatus
  <2> SUFFICES ASSUME NEW m \in Misconceptions
               PROVE  lm[m].cycles <= Cardinality(Failures(m)) /\ lm[m].status # "persistent"
    BY DEF FailuresBehindStatus
  <2>1. Cardinality(Failures(m)) \in Nat
    BY <1>1, FailuresFinite
  <2> QED
    BY <2>1 DEF Init, NoRow
<1> QED
  BY <1>1, <1>2, <1>3 DEF Inv

\* A step that commits nothing: it closes a request, or moves the clock.
LEMMA QuietStep ==
  ASSUME Inv, UNCHANGED <<lm, done, row, submitted>>, now' \in Nat,
         tx' \in [Requests -> Transaction],
         pc' \in [Requests -> {"idle", "open", "closed"}],
         \A q \in Requests : pc'[q] \in {pc[q], "closed"},
         \A q \in Requests : pc'[q] = "open" => tx'[q] = tx[q]
  PROVE  Inv'
<1>1. TypeOK'
  BY DEF Inv, TypeOK
<1>2. RequestsSound'
  BY DEF Inv, RequestsSound, RequestSound, Failures
<1>3. FailuresBehindStatus'
  BY DEF Inv, FailuresBehindStatus, Failures
<1> QED
  BY <1>1, <1>2, <1>3 DEF Inv

\* A read: the counter it saw is the committed one.
LEMMA OpenStep ==
  ASSUME Inv, NEW r \in Requests, NEW t \in Transaction, Open(r, t),
         t.sub.check # None => t.sub.misconception \in Misconceptions,
         t.sub.misconception \in Misconceptions => t.seen = lm[t.sub.misconception]
  PROVE  Inv'
<1>0. \A m : Failures(m)' = Failures(m)
  BY DEF Open, Failures
<1>1. TypeOK'
  BY DEF Inv, TypeOK, Open
<1>2. RequestsSound'
  <2> SUFFICES ASSUME NEW q \in Requests PROVE RequestSound(q)'
    BY DEF RequestsSound
  <2>1. RequestSound(q)
    BY DEF Inv, RequestsSound
  <2>2. CASE q # r
    <3>1. pc'[q] = pc[q] /\ tx'[q] = tx[q] /\ done' = done
      BY <2>2 DEF Open, Inv, TypeOK
    <3> QED
      BY <1>0, <2>1, <3>1 DEF RequestSound
  <2>3. CASE q = r
    <3>1. tx'[r] = t /\ pc[r] = "idle" /\ done' = done
      BY DEF Open, Inv, TypeOK
    <3>2. t.sub.misconception \in Misconceptions =>
            t.seen.cycles <= Cardinality(Failures(t.sub.misconception))
      BY DEF Inv, FailuresBehindStatus
    <3> QED
      BY <1>0, <2>1, <2>3, <3>1, <3>2 DEF RequestSound
  <2> QED
    BY <2>2, <2>3
<1>3. FailuresBehindStatus'
  BY <1>0 DEF Inv, FailuresBehindStatus, Open
<1> QED
  BY <1>1, <1>2, <1>3 DEF Inv

\* The commit of submission t: it may only add to the failures of the
\* misconception it checks, and the row written must respect the new count.
LEMMA InsertStep ==
  ASSUME Inv, NEW r \in Requests, NEW t, t = tx[r].sub, pc[r] = "open", Insert(r),
         submitted' \in SUBSET Requests,
         lm' \in [Misconceptions -> LearnerMisconception],
         \A m \in Misconceptions :
           LET failures == Cardinality(Failures(m)) +
                             IF t.check # None /\ ~t.passed /\ t.misconception = m THEN 1 ELSE 0
           IN  /\ lm'[m].cycles <= failures
               /\ lm'[m].status = "persistent" => failures >= MaxCycles
  PROVE  Inv'
<1>1. /\ done' = done \cup {r} /\ row' = [row EXCEPT ![r] = t]
      /\ pc' = [pc EXCEPT ![r] = "closed"] /\ tx' = [tx EXCEPT ![r] = NoTx] /\ now' = now
  BY DEF Insert, Close
<1>2. t \in Submission /\ r \notin done
  BY DEF Inv, TypeOK, Transaction, RequestsSound, RequestSound
<1>3. TypeOK'
  BY <1>1, <1>2, Defaults DEF Inv, TypeOK
<1>4. \A m : Failures(m)' = Failures(m) \cup
               IF t.check # None /\ ~t.passed /\ t.misconception = m THEN {r} ELSE {}
  BY <1>1, <1>2 DEF Failures, Inv, TypeOK
<1>5. \A m : r \notin Failures(m)
  BY <1>2 DEF Failures
<1>6. \A m : Cardinality(Failures(m)) \in Nat /\ IsFiniteSet(Failures(m))
  BY FailuresFinite DEF Inv
<1>7. \A m : Cardinality(Failures(m))' = Cardinality(Failures(m)) +
               IF t.check # None /\ ~t.passed /\ t.misconception = m THEN 1 ELSE 0
  <2> SUFFICES ASSUME NEW m
               PROVE  Cardinality(Failures(m))' = Cardinality(Failures(m)) +
                        IF t.check # None /\ ~t.passed /\ t.misconception = m THEN 1 ELSE 0
    OBVIOUS
  <2>1. Cardinality(Failures(m) \cup {r}) = Cardinality(Failures(m)) + 1
    BY <1>5, <1>6, FS_AddElement
  <2>2. CASE t.check # None /\ ~t.passed /\ t.misconception = m
    <3>1. Failures(m)' = Failures(m) \cup {r}
      BY <1>4, <2>2
    <3> QED
      BY <2>1, <2>2, <3>1
  <2>3. CASE ~(t.check # None /\ ~t.passed /\ t.misconception = m)
    <3>1. Failures(m)' = Failures(m)
      BY <1>4, <2>3
    <3> QED
      BY <1>6, <2>3, <3>1
  <2> QED
    BY <2>2, <2>3
<1>8. RequestsSound'
  <2> SUFFICES ASSUME NEW q \in Requests PROVE RequestSound(q)'
    BY DEF RequestsSound
  <2>1. RequestSound(q)
    BY DEF Inv, RequestsSound
  <2>2. CASE q = r
    BY <1>1, <2>2 DEF RequestSound, Inv, TypeOK
  <2>3. CASE q # r
    <3> DEFINE m == tx[q].sub.misconception
    <3>1. pc'[q] = pc[q] /\ tx'[q] = tx[q] /\ (q \in done' <=> q \in done)
      BY <1>1, <2>3 DEF Inv, TypeOK
    <3>2. tx[q].seen.cycles \in Nat
      BY DEF Inv, TypeOK, Transaction, LearnerMisconception
    <3>3. \A n : tx[q].seen.cycles <= Cardinality(Failures(n)) =>
                 tx[q].seen.cycles <= Cardinality(Failures(n))'
      BY <1>6, <1>7, <3>2
    <3>4. pc[q] = "open" /\ m \in Misconceptions =>
            \E n : n = m /\ tx[q].seen.cycles <= Cardinality(Failures(n))
      BY <2>1 DEF RequestSound
    <3>5. pc[q] = "open" /\ m \in Misconceptions =>
            \E n : n = m /\ tx[q].seen.cycles <= Cardinality(Failures(n))'
      BY <3>3, <3>4
    <3> QED
      BY <2>1, <3>1, <3>5 DEF RequestSound, Failures
  <2> QED
    BY <2>2, <2>3
<1>9. FailuresBehindStatus'
  BY <1>7 DEF FailuresBehindStatus
<1> QED
  BY <1>3, <1>8, <1>9 DEF Inv

\* The value Written gives the row: each column its own or the one it had.
LEMMA WrittenRow ==
  ASSUME TypeOK, NEW m \in Misconceptions, NEW seen, NEW status \in Statuses,
         NEW cycles \in Nat, NEW at \in Nat, Written(m, seen, status, cycles, at)
  PROVE  /\ lm' \in [Misconceptions -> LearnerMisconception]
         /\ lm'[m].status = IF status # seen.status THEN status ELSE lm[m].status
         /\ lm'[m].cycles = IF cycles # seen.cycles THEN cycles ELSE lm[m].cycles
         /\ lm'[m].last_remediated_at =
              IF at # seen.last_remediated_at THEN at ELSE lm[m].last_remediated_at
         /\ \A n \in Misconceptions \ {m} : lm'[n] = lm[n]
<1> DEFINE new == [status |-> IF status # seen.status THEN status ELSE lm[m].status,
                   cycles |-> IF cycles # seen.cycles THEN cycles ELSE lm[m].cycles,
                   last_remediated_at |->
                     IF at # seen.last_remediated_at THEN at ELSE lm[m].last_remediated_at]
<1>1. lm' = [lm EXCEPT ![m] = new]
  BY DEF Written
<1>2. lm[m] \in LearnerMisconception
  BY DEF TypeOK
<1>3. new \in LearnerMisconception
  BY <1>2 DEF LearnerMisconception
<1>4. lm'[m] = new
  BY <1>1 DEF TypeOK
<1>5. lm' \in [Misconceptions -> LearnerMisconception]
  BY <1>1, <1>3 DEF TypeOK
<1>6. \A n \in Misconceptions \ {m} : lm'[n] = lm[n]
  BY <1>1 DEF TypeOK
<1> QED
  BY <1>4, <1>5, <1>6

-----------------------------------------------------------------------------
LEMMA NextInv == Inv /\ [Next]_vars => Inv'
<1> SUFFICES ASSUME Inv, [Next]_vars PROVE Inv'
  OBVIOUS
<1>t. TypeOK
  BY DEF Inv
<1>n. \A m : Cardinality(Failures(m)) \in Nat
  BY <1>t, FailuresFinite
<1>f. \A m \in Misconceptions :
        /\ lm[m] \in LearnerMisconception
        /\ lm[m].cycles \in Nat /\ lm[m].cycles <= Cardinality(Failures(m))
        /\ lm[m].status = "persistent" => Cardinality(Failures(m)) >= MaxCycles
  BY <1>t DEF Inv, FailuresBehindStatus, TypeOK, LearnerMisconception
<1>c. MaxCycles \in Nat
  BY ThresholdsAssumption
<1>1. CASE Tick
  BY <1>1, <1>t, QuietStep DEF Tick, TypeOK
<1>2. ASSUME NEW r \in Requests, Rollback(r) PROVE Inv'
  <2>1. /\ tx' \in [Requests -> Transaction]
        /\ pc' \in [Requests -> {"idle", "open", "closed"}]
        /\ now' \in Nat
        /\ UNCHANGED <<lm, done, row, submitted>>
        /\ \A q \in Requests : pc'[q] \in {pc[q], "closed"}
        /\ \A q \in Requests : pc'[q] = "open" => tx'[q] = tx[q]
    BY <1>2, <1>t, Defaults DEF Rollback, Close, TypeOK
  <2> QED
    BY <2>1, QuietStep
<1>3. ASSUME NEW r \in Requests, ReadPractice(r) PROVE Inv'
  <2>1. PICK tags \in [Items -> Tags], trigger \in Tags, other \in BOOLEAN,
             hasItems \in BOOLEAN, reflection \in {"none", "attention", "applied"} :
          Open(r, PracticeTx(tags, trigger, reflection, hasItems))
    BY <1>3 DEF ReadPractice
  <2> DEFINE sub == [NoSubmission EXCEPT !.at = now, !.tags = tags,
                       !.misconception = trigger, !.reflection = reflection,
                       !.hasItems = hasItems]
             seen == IF trigger = None THEN NoRow ELSE lm[trigger]
             t == Read(sub, seen)
  <2>2. now \in Nat
    BY <1>t DEF TypeOK
  <2>3. sub \in Submission /\ sub.check = None /\ sub.misconception = trigger
    BY <2>2 DEF NoSubmission, Submission, NoTags, Tags
  <2>4. trigger # None => trigger \in Misconceptions
    BY DEF Tags
  <2>5. seen \in LearnerMisconception
    BY <1>f, <2>4, Defaults
  <2>6. trigger \in Misconceptions => seen = lm[trigger]
    BY NoneAssumption
  <2>8. Open(r, t)
    BY <2>1 DEF PracticeTx
  <2> HIDE DEF seen, sub
  <2>7. t \in Transaction /\ t.sub = sub /\ t.seen = seen
    BY <2>3, <2>5, ReadType
  <2> HIDE DEF t
  <2> QED
    BY <2>3, <2>6, <2>7, <2>8, OpenStep
<1>4. ASSUME NEW r \in Requests, ReadCheck(r) PROVE Inv'
  <2>1. PICK c \in Checks, tags \in [Items -> Tags], passed \in BOOLEAN :
          Open(r, CheckTx(c, tags, passed))
    BY <1>4 DEF ReadCheck
  <2> DEFINE m == row[c].misconception
             sub == [NoSubmission EXCEPT !.at = now, !.tags = tags, !.check = c,
                       !.misconception = m, !.passed = passed]
             t == Read(sub, lm[m])
  <2>2. now \in Nat
    BY <1>t DEF TypeOK
  <2>3. c \in Requests /\ m \in Misconceptions
    BY <1>t DEF Checks, TypeOK, Submission, Tags
  <2>4. sub \in Submission /\ sub.misconception = m
    BY <2>2, <2>3 DEF NoSubmission, Submission, NoTags, Tags
  <2>5. lm[m] \in LearnerMisconception
    BY <1>f, <2>3
  <2>7. Open(r, t)
    BY <2>1 DEF CheckTx
  <2> HIDE DEF sub, m
  <2>6. t \in Transaction /\ t.sub = sub /\ t.seen = lm[m]
    BY <2>4, <2>5, ReadType
  <2> HIDE DEF t
  <2> QED
    BY <2>3, <2>4, <2>6, <2>7, OpenStep
<1>5. ASSUME NEW r \in Requests, CommitPractice(r) PROVE Inv'
  <2>1. /\ pc[r] = "open" /\ tx[r].sub.check = None /\ Insert(r)
        /\ lm' = lm /\ submitted' = submitted
    BY <1>5 DEF CommitPractice
  <2>2. lm' \in [Misconceptions -> LearnerMisconception] /\ submitted' \in SUBSET Requests
    BY <1>t, <2>1 DEF TypeOK
  <2> QED
    BY <1>f, <1>n, <2>1, <2>2, InsertStep
<1>6. ASSUME NEW r \in Requests, CommitRemediation(r) PROVE Inv'
  <2> DEFINE m == tx[r].sub.misconception
             seen == tx[r].seen
             at == tx[r].remediated_at
  <2>1. /\ pc[r] = "open" /\ tx[r].sub.check = None /\ m # None /\ Insert(r)
        /\ Written(m, seen, "remediating", seen.cycles, at) /\ submitted' = submitted
    BY <1>6 DEF CommitRemediation, CyclesKept
  <2>2. /\ m \in Misconceptions /\ seen.cycles \in Nat /\ at \in Nat
        /\ submitted' \in SUBSET Requests
    BY <1>t, <2>1 DEF TypeOK, Transaction, Submission, Tags, LearnerMisconception
  <2>3. "remediating" \in Statuses
    BY DEF Statuses
  <2> HIDE DEF m, seen, at
  <2>4. /\ lm' \in [Misconceptions -> LearnerMisconception]
        /\ lm'[m].status \in {"remediating", lm[m].status}
        /\ lm'[m].cycles = lm[m].cycles
        /\ \A n \in Misconceptions \ {m} : lm'[n] = lm[n]
    BY <1>t, <2>1, <2>2, <2>3, WrittenRow
  <2>5. \A n \in Misconceptions :
          /\ lm'[n].cycles <= Cardinality(Failures(n))
          /\ lm'[n].status = "persistent" => Cardinality(Failures(n)) >= MaxCycles
    BY <1>f, <2>4
  <2> QED
    BY <1>n, <2>1, <2>2, <2>4, <2>5, InsertStep
<1>7. ASSUME NEW r \in Requests, CommitCheck(r) PROVE Inv'
  <2> DEFINE m == tx[r].sub.misconception
             seen == tx[r].seen
             card(n) == Cardinality(Failures(n))
  <2>1. /\ pc[r] = "open" /\ tx[r].sub.check # None /\ Insert(r)
        /\ submitted' = submitted \cup {tx[r].sub.check}
    BY <1>7 DEF CommitCheck
  <2>2. /\ m \in Misconceptions /\ seen.cycles \in Nat /\ seen.last_remediated_at \in Nat
        /\ tx[r].sub.check \in Requests /\ seen.cycles <= card(m)
    BY <1>t, <2>1 DEF TypeOK, Transaction, Submission, LearnerMisconception, Inv,
                      RequestsSound, RequestSound
  <2>3. submitted' \in SUBSET Requests
    BY <1>t, <2>1, <2>2 DEF TypeOK
  <2>4. {"resolved", "persistent", "remediating"} \subseteq Statuses
    BY DEF Statuses
  <2>5. CASE tx[r].sub.passed
    <3>1. Written(m, seen, "resolved", seen.cycles, seen.last_remediated_at)
      BY <1>7, <2>5 DEF CommitCheck
    <3> HIDE DEF m, seen, card
    <3>2. /\ lm' \in [Misconceptions -> LearnerMisconception]
          /\ lm'[m].status \in {"resolved", lm[m].status}
          /\ lm'[m].cycles = lm[m].cycles
          /\ \A n \in Misconceptions \ {m} : lm'[n] = lm[n]
      BY <1>t, <2>2, <2>4, <3>1, WrittenRow
    <3>3. \A n \in Misconceptions :
            /\ lm'[n].cycles <= Cardinality(Failures(n))
            /\ lm'[n].status = "persistent" => Cardinality(Failures(n)) >= MaxCycles
      BY <1>f, <3>2
    <3> QED
      BY <1>n, <2>1, <2>3, <2>5, <3>2, <3>3, InsertStep
  <2>6. CASE ~tx[r].sub.passed
    <3> DEFINE status == IF seen.cycles + 1 >= MaxCycles THEN "persistent" ELSE "remediating"
    <3>1. Written(m, seen, status, seen.cycles + 1, seen.last_remediated_at)
      BY <1>7, <2>6 DEF CommitCheck, StatusAfterFailure
    <3>2. status \in Statuses /\ seen.cycles + 1 \in Nat
      BY <2>2, <2>4
    <3> HIDE DEF m, seen
    <3>3. /\ lm' \in [Misconceptions -> LearnerMisconception]
          /\ lm'[m].status \in {status, lm[m].status}
          /\ lm'[m].cycles = seen.cycles + 1
          /\ \A n \in Misconceptions \ {m} : lm'[n] = lm[n]
      <4> HIDE DEF status
      <4> QED
        BY <1>t, <2>2, <3>1, <3>2, WrittenRow
    <3>4. lm'[m].cycles <= card(m) + 1
      BY <1>n, <2>2, <3>3
    <3>5. lm'[m].status = "persistent" => card(m) + 1 >= MaxCycles
      BY <1>c, <1>f, <1>n, <2>2, <3>3
    <3>6. \A n \in Misconceptions :
            LET failures == card(n) + IF m = n THEN 1 ELSE 0
            IN  /\ lm'[n].cycles <= failures
                /\ lm'[n].status = "persistent" => failures >= MaxCycles
      BY <1>f, <1>n, <3>3, <3>4, <3>5
    <3> QED
      BY <2>1, <2>3, <2>6, <3>3, <3>6, InsertStep DEF m
  <2> QED
    BY <2>5, <2>6
<1>8. ASSUME NEW r \in Requests, SelectAgain(r) PROVE Inv'
  <2> DEFINE m == tx[r].sub.misconception
  <2>1. /\ UNCHANGED <<lm, done, row, submitted, now, pc>> /\ m \in Misconceptions
        /\ tx' \in [Requests -> Transaction] /\ \A q \in Requests \ {r} : tx'[q] = tx[q]
        /\ tx'[r].sub = tx[r].sub /\ tx[r].sub.check = None /\ pc[r] = "open"
        /\ tx'[r].seen = IF tx[r].seen.status = "absent" THEN lm[m] ELSE tx[r].seen
    BY <1>8, <1>t, SelectedAgain
  <2>2. \A n : Failures(n)' = Failures(n)
    BY <2>1 DEF Failures
  <2>3. TypeOK' /\ FailuresBehindStatus'
    BY <2>1, <2>2 DEF Inv, TypeOK, FailuresBehindStatus
  <2>4. RequestSound(r) /\ \A q \in Requests : RequestSound(q)
    BY DEF Inv, RequestsSound
  <2>5. tx'[r].seen.cycles <= Cardinality(Failures(m))
    BY <1>f, <2>1, <2>4 DEF RequestSound
  <2>6. RequestSound(r)'
    BY <2>1, <2>2, <2>4, <2>5 DEF RequestSound
  <2>7. ASSUME NEW q \in Requests \ {r} PROVE RequestSound(q)'
    BY <2>1, <2>2, <2>4 DEF RequestSound
  <2> QED
    BY <2>3, <2>6, <2>7 DEF Inv, RequestsSound
<1>9. CASE UNCHANGED vars
  BY <1>9, <1>t, QuietStep DEF vars, TypeOK
<1> QED
  BY <1>1, <1>2, <1>3, <1>4, <1>5, <1>6, <1>7, <1>8, <1>9 DEF Next

\* Inv is an invariant for every value of the constants.
THEOREM InvHolds == Spec => []Inv
<1>1. Init => Inv
  BY InitInv
<1>2. Inv /\ [Next]_vars => Inv'
  BY NextInv
<1> QED
  BY <1>1, <1>2, PTL DEF Spec

\* However submissions race, "persistent" stands on MaxCycles failed checks.
THEOREM PersistentIsEarned == Spec => []FailuresBehindStatus
<1>1. Inv => FailuresBehindStatus
  BY DEF Inv
<1> QED
  BY <1>1, InvHolds, PTL
-----------------------------------------------------------------------------
\* The tables agree with the history.

\* Submissions are only added, so the items answered with a tag do not become fewer.
LEMMA TaggedGrow ==
  ASSUME done \subseteq done', \A q \in done : row'[q] = row[q],
         NEW m, NEW since, NEW S \in SUBSET Items
  PROVE  Cardinality(S \cup TaggedItems(m, done, since))
           <= Cardinality(S \cup TaggedItems(m, done, since)')
<1>1. /\ S \cup TaggedItems(m, done, since) \subseteq S \cup TaggedItems(m, done, since)'
      /\ S \cup TaggedItems(m, done, since)' \subseteq Items
  BY DEF TaggedItems
<1>2. IsFiniteSet(S \cup TaggedItems(m, done, since)')
  BY <1>1, ItemsAssumption, FS_Subset
<1> QED
  BY <1>1, <1>2, FS_Subset

LEMMA CardItems ==
  ASSUME NEW S \in SUBSET Items
  PROVE  IsFiniteSet(S) /\ Cardinality(S) \in Nat
BY ItemsAssumption, FS_Subset, FS_CardinalityType

LEMMA TaggedType ==
  ASSUME NEW m, NEW since, NEW rows
  PROVE  TaggedItems(m, rows, since) \in SUBSET Items
BY DEF TaggedItems

\* What an open request found when it read is still so after a step that leaves
\* the request alone, deletes no row and adds submissions only.
LEMMA GroundsStay ==
  ASSUME NEW q \in Requests, GroundsRead(q), tx'[q] = tx[q],
         done \subseteq done', \A p \in done : row'[p] = row[p],
         \A m \in Misconceptions : lm[m].status # "absent" => lm'[m].status # "absent"
  PROVE  GroundsRead(q)'
<1>1. PICK t : t = tx[q]
  OBVIOUS
<1> DEFINE S == {i \in Items : t.sub.tags[i] = t.sub.misconception}
           A == TaggedItems(t.sub.misconception, done, t.sub.at)
           B == TaggedItems(t.sub.misconception, done, t.sub.at)'
<1>2. Cardinality(S \cup A) <= Cardinality(S \cup B)
  BY TaggedGrow
<1>3. Cardinality(S \cup A) \in Nat /\ Cardinality(S \cup B) \in Nat
  BY CardItems DEF TaggedItems
<1>4. t.sub.check = None /\ t.sub.misconception \in Misconceptions
        /\ t.sub.reflection # "none" => Cardinality(S \cup A) >= ConfirmCount
  BY <1>1 DEF GroundsRead
<1>5. t.sub.check = None /\ t.sub.misconception \in Misconceptions
        /\ t.sub.reflection # "none" => Cardinality(S \cup B) >= ConfirmCount
  BY <1>2, <1>3, <1>4, ThresholdsAssumption
<1>6. /\ t.sub.check # None => t.seen.status # "absent"
      /\ t.sub.misconception \in Misconceptions /\ t.seen.status # "absent" =>
           lm'[t.sub.misconception].status # "absent"
  BY <1>1 DEF GroundsRead
<1>7. tx'[q] = t
  BY <1>1
<1> QED
  BY <1>5, <1>6, <1>7 DEF GroundsRead, TaggedItems

\* A step that writes nothing leaves what the tables say alone.
LEMMA HistoryQuiet ==
  ASSUME RowsBehindHistory, UNCHANGED <<lm, done, row>>
  PROVE  RowsBehindHistory'
BY DEF RowsBehindHistory, Checks, Remediations, Passes, TaggedItems

LEMMA HistoryQuietStep ==
  ASSUME HistoryInv, TypeOK, UNCHANGED <<lm, done, row>>,
         \A q \in Requests : pc'[q] = "open" => pc[q] = "open" /\ tx'[q] = tx[q]
  PROVE  HistoryInv'
<1>1. RowsBehindHistory'
  BY HistoryQuiet DEF HistoryInv
<1>2. ASSUME NEW q \in Requests, pc'[q] = "open" PROVE GroundsRead(q)'
  <2>1. tx'[q] = tx[q] /\ GroundsRead(q)
    BY <1>2 DEF HistoryInv, InFlight
  <2> QED
    BY <2>1, GroundsStay
<1> QED
  BY <1>1, <1>2 DEF HistoryInv, InFlight

\* A read: it rests on rows that are there, and on answers to enough items.
LEMMA HistoryOpen ==
  ASSUME Inv, HistoryInv, NEW r \in Requests, NEW t \in Transaction, Open(r, t),
         t.sub.check # None => t.seen.status # "absent",
         t.sub.misconception \in Misconceptions => t.seen = lm[t.sub.misconception],
         t.sub.check = None /\ t.sub.misconception \in Misconceptions
           /\ t.sub.reflection # "none" =>
           Cardinality({i \in Items : t.sub.tags[i] = t.sub.misconception}
                         \cup TaggedItems(t.sub.misconception, done, t.sub.at)) >= ConfirmCount
  PROVE  HistoryInv'
<1>1. UNCHANGED <<lm, done, row>> /\ tx' = [tx EXCEPT ![r] = t] /\ pc' = [pc EXCEPT ![r] = "open"]
  BY DEF Open
<1>2. RowsBehindHistory'
  BY <1>1, HistoryQuiet DEF HistoryInv
<1>3. ASSUME NEW q \in Requests, pc'[q] = "open" PROVE GroundsRead(q)'
  <2>1. CASE q = r
    <3>1. tx'[q] = t
      BY <1>1, <2>1 DEF Inv, TypeOK
    <3> QED
      BY <1>1, <3>1 DEF GroundsRead, TaggedItems
  <2>2. CASE q # r
    <3>1. tx'[q] = tx[q] /\ pc[q] = "open"
      BY <1>1, <1>3, <2>2 DEF Inv, TypeOK
    <3>2. GroundsRead(q)
      BY <3>1 DEF HistoryInv, InFlight
    <3> QED
      BY <1>1, <3>1, <3>2, GroundsStay
  <2> QED
    BY <2>1, <2>2
<1> QED
  BY <1>2, <1>3 DEF HistoryInv, InFlight

\* What the commit of submission t adds to the sets of the history.
LEMMA HistoryGrows ==
  ASSUME Inv, NEW r \in Requests, NEW t, t = tx[r].sub, pc[r] = "open", Insert(r)
  PROVE  /\ t \in Submission /\ r \notin done
         /\ done' = done \cup {r} /\ row'[r] = t
         /\ \A q \in Requests \ {r} :
              row'[q] = row[q] /\ pc'[q] = pc[q] /\ tx'[q] = tx[q]
         /\ pc'[r] = "closed" /\ tx'[r] = NoTx /\ now' = now
         /\ Checks' = Checks \cup
              {q \in {r} : t.check = None /\ t.reflection # "none" /\ t.misconception # None}
         /\ Reflections' = Reflections \cup {q \in {r} : t.reflection # "none"}
         /\ \A m : Remediations(m)' = Remediations(m) \cup
              {q \in {r} : t.check = None /\ t.reflection = "applied" /\ t.misconception # None
                             /\ t.misconception = m}
         /\ \A m : Passes(m)' = Passes(m) \cup
              {q \in {r} : t.check # None /\ t.misconception = m /\ t.passed}
<1>1. /\ done' = done \cup {r} /\ row' = [row EXCEPT ![r] = t]
      /\ pc' = [pc EXCEPT ![r] = "closed"] /\ tx' = [tx EXCEPT ![r] = NoTx] /\ now' = now
  BY DEF Insert, Close
<1>2. t \in Submission /\ r \notin done
  BY DEF Inv, TypeOK, Transaction, RequestsSound, RequestSound
<1>3. row'[r] = t /\ \A q \in Requests \ {r} :
        row'[q] = row[q] /\ pc'[q] = pc[q] /\ tx'[q] = tx[q]
  BY <1>1 DEF Inv, TypeOK
<1>4. pc'[r] = "closed" /\ tx'[r] = NoTx
  BY <1>1 DEF Inv, TypeOK
<1>5. done \subseteq Requests /\ \A q \in done : row'[q] = row[q]
  BY <1>2, <1>3 DEF Inv, TypeOK
<1>6. Checks' = Checks \cup
        {q \in {r} : t.check = None /\ t.reflection # "none" /\ t.misconception # None}
  BY <1>1, <1>2, <1>3, <1>5 DEF Checks
<1>7. Reflections' = Reflections \cup {q \in {r} : t.reflection # "none"}
  BY <1>1, <1>2, <1>3, <1>5 DEF Reflections
<1>8. \A m : Remediations(m)' = Remediations(m) \cup
        {q \in {r} : t.check = None /\ t.reflection = "applied" /\ t.misconception # None
                       /\ t.misconception = m}
  BY <1>1, <1>2, <1>3, <1>5 DEF Remediations, Checks
<1>9. \A m : Passes(m)' = Passes(m) \cup
        {q \in {r} : t.check # None /\ t.misconception = m /\ t.passed}
  BY <1>1, <1>2, <1>3, <1>5 DEF Passes
<1> QED
  BY <1>1, <1>2, <1>3, <1>4, <1>6, <1>7, <1>8, <1>9

\* The commit of submission t: a misconception it writes has a remediation, and is
\* resolved only by a check that was passed.
LEMMA HistoryInsert ==
  ASSUME Inv, HistoryInv, NEW r \in Requests, NEW t, t = tx[r].sub, pc[r] = "open", Insert(r),
         \A m \in Misconceptions :
           LET applied == t.check = None /\ t.reflection = "applied" /\ t.misconception = m IN
           /\ lm'[m].status = "absent" <=> lm[m].status = "absent" /\ ~applied
           /\ lm'[m].status = "resolved" =>
                lm[m].status = "resolved" \/ (t.check # None /\ t.misconception = m /\ t.passed)
  PROVE  HistoryInv'
<1>1. /\ t \in Submission /\ r \notin done
      /\ done' = done \cup {r} /\ row'[r] = t /\ done \subseteq Requests
      /\ \A q \in Requests \ {r} : row'[q] = row[q] /\ pc'[q] = pc[q] /\ tx'[q] = tx[q]
      /\ pc'[r] = "closed"
      /\ Checks' = Checks \cup
              {q \in {r} : t.check = None /\ t.reflection # "none" /\ t.misconception # None}
  BY HistoryGrows DEF Inv, TypeOK
<1>2. \A m : Remediations(m)' = Remediations(m) \cup
        {q \in {r} : t.check = None /\ t.reflection = "applied" /\ t.misconception # None
                       /\ t.misconception = m}
  BY HistoryGrows
<1>3. \A m : Passes(m)' = Passes(m) \cup
        {q \in {r} : t.check # None /\ t.misconception = m /\ t.passed}
  BY HistoryGrows
<1>4. done \subseteq done' /\ \A q \in done : row'[q] = row[q]
  BY <1>1
<1>5. ASSUME NEW q \in Requests, pc'[q] = "open" PROVE GroundsRead(q)'
  <2>1. q # r /\ tx'[q] = tx[q] /\ pc[q] = "open"
    BY <1>1, <1>5
  <2>2. GroundsRead(q)
    BY <2>1 DEF HistoryInv, InFlight
  <2> QED
    BY <1>4, <2>1, <2>2, GroundsStay
<1>6. ASSUME NEW m \in Misconceptions
      PROVE  /\ lm'[m].status = "absent" <=> Remediations(m)' = {}
             /\ lm'[m].status = "resolved" => Passes(m)' # {}
  <2>1. /\ lm[m].status = "absent" <=> Remediations(m) = {}
        /\ lm[m].status = "resolved" => Passes(m) # {}
    BY DEF HistoryInv, RowsBehindHistory
  <2>2. Remediations(m)' = {} <=> /\ Remediations(m) = {}
                                  /\ ~(t.check = None /\ t.reflection = "applied"
                                         /\ t.misconception = m)
    BY <1>2, NoneAssumption
  <2>3. Passes(m) # {} \/ (t.check # None /\ t.misconception = m /\ t.passed) => Passes(m)' # {}
    BY <1>3
  <2> QED
    BY <2>1, <2>2, <2>3
<1>7. ASSUME NEW q \in Checks'
      PROVE  Cardinality(TaggedItems(row[q].misconception, done, row[q].at)') >= ConfirmCount
  <2>1. PICK m, at : m = row'[q].misconception /\ at = row'[q].at
    OBVIOUS
  <2> DEFINE A == TaggedItems(m, done, at)
             B == TaggedItems(m, done, at)'
  <2>2. TaggedItems(row[q].misconception, done, row[q].at)' = B
    BY <2>1 DEF TaggedItems
  <2>3. Cardinality(B) \in Nat /\ B \in SUBSET Items
    BY CardItems DEF TaggedItems
  <2>4. CASE q \in Checks
    <3>1. row'[q] = row[q]
      BY <1>4, <2>4 DEF Checks
    <3>2. Cardinality(A) >= ConfirmCount
      BY <2>1, <2>4, <3>1 DEF HistoryInv, RowsBehindHistory
    <3>3. Cardinality({} \cup A) <= Cardinality({} \cup B)
      BY <1>4, TaggedGrow
    <3>4. Cardinality(A) \in Nat
      BY CardItems DEF TaggedItems
    <3> QED
      BY <2>2, <2>3, <3>2, <3>3, <3>4, ThresholdsAssumption
  <2>5. CASE q \notin Checks
    <3>1. q = r /\ t.check = None /\ t.reflection # "none" /\ t.misconception # None
            /\ row'[r] = t
      BY <1>1, <2>5
    <3>2. m = t.misconception /\ at = t.at /\ m \in Misconceptions /\ at \in Nat
      BY <1>1, <2>1, <3>1 DEF Submission, Tags
    <3> DEFINE S == {i \in Items : t.tags[i] = m}
    <3>3. GroundsRead(r)
      BY DEF HistoryInv, InFlight
    <3>4. Cardinality(S \cup A) >= ConfirmCount
      BY <3>1, <3>2, <3>3 DEF GroundsRead
    <3>5. S \cup A \subseteq B
      <4>1. A \subseteq B
        BY <1>4 DEF TaggedItems
      <4>2. at + Window >= at
        BY <3>2, ThresholdsAssumption
      <4>3. r \in done' /\ row'[r].at = at /\ row'[r].tags = t.tags
        BY <1>1, <3>2
      <4>4. S \subseteq B
        BY <4>2, <4>3 DEF TaggedItems
      <4> QED
        BY <4>1, <4>4
    <3>6. Cardinality(S \cup A) <= Cardinality(B) /\ Cardinality(S \cup A) \in Nat
      <4>1. IsFiniteSet(B) /\ S \cup A \in SUBSET Items
        BY <2>3, CardItems DEF TaggedItems
      <4> QED
        BY <3>5, <4>1, CardItems, FS_Subset
    <3> HIDE DEF A, B, S
    <3> QED
      BY <2>2, <2>3, <3>4, <3>6, ThresholdsAssumption
  <2> QED
    BY <2>4, <2>5
<1>8. RowsBehindHistory'
  BY <1>6, <1>7 DEF RowsBehindHistory
<1> QED
  BY <1>5, <1>8 DEF HistoryInv, InFlight

LEMMA HistoryInit == Init => HistoryInv
<1> SUFFICES ASSUME Init PROVE HistoryInv
  OBVIOUS
<1>1. Checks = {} /\ \A m : Remediations(m) = {}
  BY DEF Init, Checks, Remediations
<1>2. \A m \in Misconceptions : lm[m].status = "absent"
  BY DEF Init, NoRow
<1>3. InFlight = {}
  BY DEF Init, InFlight
<1> QED
  BY <1>1, <1>2, <1>3 DEF HistoryInv, RowsBehindHistory

LEMMA HistoryNext == Inv /\ HistoryInv /\ [Next]_vars => HistoryInv'
<1> SUFFICES ASSUME Inv, HistoryInv, [Next]_vars PROVE HistoryInv'
  OBVIOUS
<1>t. TypeOK
  BY DEF Inv
<1>1. CASE Tick
  BY <1>1, <1>t, HistoryQuietStep DEF Tick
<1>2. ASSUME NEW r \in Requests, Rollback(r) PROVE HistoryInv'
  <2>1. /\ UNCHANGED <<lm, done, row>>
        /\ pc' = [pc EXCEPT ![r] = "closed"] /\ tx' = [tx EXCEPT ![r] = NoTx]
    BY <1>2 DEF Rollback, Close
  <2>2. \A q \in Requests : pc'[q] = "open" => pc[q] = "open" /\ tx'[q] = tx[q]
    BY <1>t, <2>1 DEF TypeOK
  <2> QED
    BY <1>t, <2>1, <2>2, HistoryQuietStep
<1>3. ASSUME NEW r \in Requests, ReadPractice(r) PROVE HistoryInv'
  <2>1. PICK tags \in [Items -> Tags], trigger \in Tags, other \in BOOLEAN,
             hasItems \in BOOLEAN, reflection \in {"none", "attention", "applied"} :
          /\ IF \E m \in Misconceptions : Confirmed(m, tags)
             THEN trigger # None /\ Confirmed(trigger, tags)
             ELSE trigger = None
          /\ Open(r, PracticeTx(tags, trigger, reflection, hasItems))
    BY <1>3 DEF ReadPractice
  <2> DEFINE sub == [NoSubmission EXCEPT !.at = now, !.tags = tags,
                       !.misconception = trigger, !.reflection = reflection,
                       !.hasItems = hasItems]
             seen == IF trigger = None THEN NoRow ELSE lm[trigger]
             t == Read(sub, seen)
  <2>2. now \in Nat
    BY <1>t DEF TypeOK
  <2>3. /\ sub \in Submission /\ sub.check = None /\ sub.misconception = trigger
        /\ sub.tags = tags /\ sub.at = now
    BY <2>2 DEF NoSubmission, Submission, NoTags, Tags
  <2>4. trigger # None => trigger \in Misconceptions
    BY DEF Tags
  <2>5. seen \in LearnerMisconception
    BY <1>t, <2>4, Defaults DEF TypeOK
  <2>6. trigger \in Misconceptions => seen = lm[trigger]
    BY NoneAssumption
  <2>8. Open(r, t)
    BY <2>1 DEF PracticeTx
  <2>9. trigger \in Misconceptions =>
          Cardinality({i \in Items : tags[i] = trigger} \cup TaggedItems(trigger, done, now))
            >= ConfirmCount
    BY <2>1, NoneAssumption DEF Confirmed
  <2> HIDE DEF seen, sub
  <2>7. t \in Transaction /\ t.sub = sub /\ t.seen = seen
    BY <2>3, <2>5, ReadType
  <2> HIDE DEF t
  <2> QED
    BY <2>3, <2>6, <2>7, <2>8, <2>9, HistoryOpen
<1>4. ASSUME NEW r \in Requests, ReadCheck(r) PROVE HistoryInv'
  <2>1. PICK c \in Checks, tags \in [Items -> Tags], passed \in BOOLEAN :
          /\ lm[row[c].misconception].status # "absent"
          /\ Open(r, CheckTx(c, tags, passed))
    BY <1>4 DEF ReadCheck
  <2> DEFINE m == row[c].misconception
             sub == [NoSubmission EXCEPT !.at = now, !.tags = tags, !.check = c,
                       !.misconception = m, !.passed = passed]
             t == Read(sub, lm[m])
  <2>2. now \in Nat
    BY <1>t DEF TypeOK
  <2>3. c \in Requests /\ m \in Misconceptions
    BY <1>t DEF Checks, TypeOK, Submission, Tags
  <2>4. sub \in Submission /\ sub.misconception = m /\ sub.check = c /\ c # None
    BY <2>2, <2>3, NoneAssumption DEF NoSubmission, Submission, NoTags, Tags
  <2>5. lm[m] \in LearnerMisconception
    BY <1>t, <2>3 DEF TypeOK
  <2>7. Open(r, t)
    BY <2>1 DEF CheckTx
  <2>8. lm[m].status # "absent"
    BY <2>1
  <2> HIDE DEF sub, m
  <2>6. t \in Transaction /\ t.sub = sub /\ t.seen = lm[m]
    BY <2>4, <2>5, ReadType
  <2> HIDE DEF t
  <2> QED
    BY <2>3, <2>4, <2>6, <2>7, <2>8, HistoryOpen
<1>5. ASSUME NEW r \in Requests, CommitPractice(r) PROVE HistoryInv'
  <2>1. /\ pc[r] = "open" /\ tx[r].sub.check = None /\ Insert(r) /\ lm' = lm
        /\ tx[r].sub.misconception = None \/ tx[r].sub.reflection # "applied"
    BY <1>5 DEF CommitPractice
  <2> QED
    BY <2>1, HistoryInsert, NoneAssumption
<1>6. ASSUME NEW r \in Requests, CommitRemediation(r) PROVE HistoryInv'
  <2> DEFINE m == tx[r].sub.misconception
             seen == tx[r].seen
             at == tx[r].remediated_at
  <2>1. /\ pc[r] = "open" /\ tx[r].sub.check = None /\ tx[r].sub.reflection = "applied"
        /\ m # None /\ Insert(r)
        /\ Written(m, seen, "remediating", seen.cycles, at)
    BY <1>6 DEF CommitRemediation, CyclesKept
  <2>2. m \in Misconceptions /\ seen.cycles \in Nat /\ at \in Nat
    BY <1>t, <2>1 DEF TypeOK, Transaction, Submission, Tags, LearnerMisconception
  <2>3. "remediating" \in Statuses
    BY DEF Statuses
  <2>4. seen.status # "absent" => lm[m].status # "absent"
    BY <2>1, <2>2 DEF HistoryInv, GroundsRead, InFlight
  <2> HIDE DEF seen, at
  <2>5. /\ lm'[m].status = IF "remediating" # seen.status THEN "remediating" ELSE lm[m].status
        /\ \A n \in Misconceptions \ {m} : lm'[n] = lm[n]
    BY <1>t, <2>1, <2>2, <2>3, WrittenRow
  <2>6. lm'[m].status # "absent" /\ (lm'[m].status = "resolved" => lm[m].status = "resolved")
    BY <2>4, <2>5
  <2> QED
    BY <2>1, <2>2, <2>5, <2>6, HistoryInsert
<1>7. ASSUME NEW r \in Requests, CommitCheck(r) PROVE HistoryInv'
  <2> DEFINE m == tx[r].sub.misconception
             seen == tx[r].seen
             status == IF tx[r].sub.passed THEN "resolved" ELSE StatusAfterFailure(seen.cycles + 1)
             cycles == IF tx[r].sub.passed THEN seen.cycles ELSE seen.cycles + 1
  <2>1. /\ pc[r] = "open" /\ tx[r].sub.check # None /\ Insert(r)
        /\ Written(m, seen, status, cycles, seen.last_remediated_at)
    BY <1>7 DEF CommitCheck
  <2>2. /\ m \in Misconceptions /\ cycles \in Nat /\ seen.last_remediated_at \in Nat
    BY <1>t, <2>1 DEF TypeOK, Transaction, Submission, LearnerMisconception, Inv,
                      RequestsSound, RequestSound
  <2>3. /\ status \in Statuses /\ status # "absent"
        /\ status = "resolved" => tx[r].sub.passed
    BY DEF Statuses, StatusAfterFailure
  <2>4. lm[m].status # "absent"
    BY <2>1, <2>2 DEF HistoryInv, GroundsRead, InFlight
  <2> HIDE DEF seen, status, cycles
  <2>5. /\ lm'[m].status = IF status # seen.status THEN status ELSE lm[m].status
        /\ \A n \in Misconceptions \ {m} : lm'[n] = lm[n]
    BY <1>t, <2>1, <2>2, <2>3, WrittenRow
  <2>6. /\ lm'[m].status # "absent"
        /\ lm'[m].status = "resolved" => lm[m].status = "resolved" \/ tx[r].sub.passed
    BY <2>3, <2>4, <2>5
  <2> QED
    BY <2>1, <2>2, <2>4, <2>5, <2>6, HistoryInsert
<1>8. ASSUME NEW r \in Requests, SelectAgain(r) PROVE HistoryInv'
  <2> DEFINE m == tx[r].sub.misconception
  <2>1. /\ UNCHANGED <<lm, done, row, now, pc>> /\ m \in Misconceptions
        /\ \A q \in Requests \ {r} : tx'[q] = tx[q]
        /\ tx'[r].sub = tx[r].sub /\ tx[r].sub.check = None /\ pc[r] = "open"
        /\ tx'[r].seen = IF tx[r].seen.status = "absent" THEN lm[m] ELSE tx[r].seen
    BY <1>8, <1>t, SelectedAgain
  <2>2. RowsBehindHistory'
    BY <2>1, HistoryQuiet DEF HistoryInv
  <2>3. ASSUME NEW q \in Requests \ {r}, pc'[q] = "open" PROVE GroundsRead(q)'
    <3>1. tx'[q] = tx[q] /\ GroundsRead(q)
      BY <2>1, <2>3 DEF HistoryInv, InFlight
    <3> QED
      BY <2>1, <3>1, GroundsStay
  <2>4. GroundsRead(r)'
    <3>1. GroundsRead(r)
      BY <2>1 DEF HistoryInv, InFlight
    <3>2. tx'[r].seen.status # "absent" => lm'[m].status # "absent"
      BY <2>1, <3>1 DEF GroundsRead
    <3> QED
      BY <2>1, <3>1, <3>2 DEF GroundsRead, TaggedItems
  <2> QED
    BY <2>2, <2>3, <2>4 DEF HistoryInv, InFlight
<1>9. CASE UNCHANGED vars
  BY <1>9, <1>t, HistoryQuietStep DEF vars
<1> QED
  BY <1>1, <1>2, <1>3, <1>4, <1>5, <1>6, <1>7, <1>8, <1>9 DEF Next

\* A reflection on a misconception rests on committed wrong answers to enough
\* items, a row on a remediation, and "resolved" on a check that was passed.
THEOREM RowsAlwaysBehindHistory == Spec => []RowsBehindHistory
<1>1. Init => Inv /\ HistoryInv
  BY InitInv, HistoryInit
<1>2. Inv /\ HistoryInv /\ [Next]_vars => (Inv /\ HistoryInv)'
  BY NextInv, HistoryNext
<1>3. HistoryInv => RowsBehindHistory
  BY DEF HistoryInv
<1> QED
  BY <1>1, <1>2, <1>3, PTL DEF Spec

-----------------------------------------------------------------------------
\* A client that waits for each answer.

LEMMA AtMostOne ==
  ASSUME NEW S \in SUBSET Requests, Cardinality(S) <= 1
  PROVE  \A q, r \in S : q = r
<1> SUFFICES ASSUME NEW q \in S, NEW r \in S, q # r PROVE FALSE
  OBVIOUS
<1>1. IsFiniteSet(S) /\ Cardinality(S) \in Nat
  BY RequestsAssumption, FS_Subset, FS_CardinalityType
<1>2. Cardinality({q} \cup {r}) <= Cardinality(S)
  BY <1>1, FS_Subset
<1>3. IsFiniteSet({q}) /\ Cardinality({q}) = 1 /\ r \notin {q}
  BY FS_Singleton
<1>4. Cardinality({q} \cup {r}) = Cardinality({q}) + 1
  BY <1>3, FS_AddElement
<1> QED
  BY <1>1, <1>2, <1>3, <1>4

\* What holds of the rows of a client that waits; a part of WaitingInv.
RowsInTime ==
  \A m \in Misconceptions :
    /\ lm[m].status = "persistent" => lm[m].cycles >= MaxCycles
    /\ lm[m].last_remediated_at <= now
    /\ \A q \in Remediations(m) : row[q].at <= lm[m].last_remediated_at

\* A step that writes nothing; what a request knows of the rows stays so.
LEMMA WaitingQuiet ==
  ASSUME Inv, WaitingInv, Waits, Waits', UNCHANGED <<lm, done, row>>,
         now' \in Nat, now <= now',
         \A q, r \in InFlight' : q = r,
         \A q \in InFlight' : (q \in InFlight /\ tx'[q] = tx[q]) \/ RequestKnows(q)'
  PROVE  WaitingInv'
<1>1. RowsInTime'
  <2>1. RowsInTime /\ \A m \in Misconceptions : lm[m].last_remediated_at \in Nat
    BY DEF WaitingInv, RowsInTime, Inv, TypeOK, LearnerMisconception
  <2>2. now \in Nat
    BY DEF Inv, TypeOK
  <2> QED
    BY <2>1, <2>2 DEF RowsInTime, Remediations, Checks
<1>2. ASSUME NEW q \in InFlight' PROVE RequestKnows(q)'
  <2>1. CASE q \in InFlight /\ tx'[q] = tx[q]
    <3>1. RequestKnows(q) /\ tx[q] \in Transaction /\ now \in Nat
      BY <2>1 DEF WaitingInv, Inv, TypeOK, InFlight
    <3>2. tx[q].sub.at \in Nat
      BY <3>1 DEF Transaction, Submission
    <3>3. tx'[q].sub.at <= now' /\ (tx'[q].again => tx'[q].remediated_at <= now')
      <4>1. tx[q].remediated_at \in Nat
        BY <3>1 DEF Transaction
      <4> QED
        BY <2>1, <3>1, <3>2, <4>1 DEF RequestKnows
    <3> QED
      BY <2>1, <3>1, <3>3 DEF RequestKnows, Reflections
  <2> QED
    BY <1>2, <2>1
<1> QED
  BY <1>1, <1>2 DEF WaitingInv, RowsInTime

\* A commit leaves no request open, and the clock of the row it writes is not
\* behind the remediation it adds.
LEMMA WaitingInsert ==
  ASSUME Inv, WaitingInv, Waits, Waits', NEW r \in Requests, NEW t, t = tx[r].sub,
         pc[r] = "open", Insert(r), lm' \in [Misconceptions -> LearnerMisconception],
         \A m \in Misconceptions :
           /\ lm'[m].status = "persistent" => lm'[m].cycles >= MaxCycles
           /\ lm[m].last_remediated_at <= lm'[m].last_remediated_at
           /\ lm'[m].last_remediated_at <= now
           /\ t.check = None /\ t.reflection = "applied" /\ t.misconception = m =>
                t.at <= lm'[m].last_remediated_at
  PROVE  WaitingInv'
<1>1. /\ t \in Submission /\ r \notin done /\ row'[r] = t /\ now' = now
      /\ \A q \in Requests \ {r} : row'[q] = row[q] /\ pc'[q] = pc[q]
      /\ pc'[r] = "closed"
  BY HistoryGrows
<1>2. \A m : Remediations(m)' = Remediations(m) \cup
        {q \in {r} : t.check = None /\ t.reflection = "applied" /\ t.misconception # None
                       /\ t.misconception = m}
  BY HistoryGrows
<1>3. InFlight' = {}
  BY <1>1 DEF WaitingInv, InFlight
<1>4. t.at <= now /\ t.at \in Nat /\ now \in Nat
  BY <1>1 DEF WaitingInv, RequestKnows, InFlight, Submission, Inv, TypeOK
<1>5. ASSUME NEW m \in Misconceptions, NEW q \in Remediations(m)'
      PROVE  row'[q].at <= lm'[m].last_remediated_at
  <2>1. lm[m].last_remediated_at \in Nat /\ lm'[m].last_remediated_at \in Nat
    BY DEF Inv, TypeOK, LearnerMisconception
  <2>2. CASE q \in Remediations(m)
    <3>1. q \in Requests /\ q # r
      BY <1>1, <2>2 DEF Remediations, Checks, Inv, TypeOK
    <3>2. row'[q] = row[q] /\ row[q].at \in Nat
      BY <1>1, <3>1 DEF Inv, TypeOK, Submission
    <3>3. row[q].at <= lm[m].last_remediated_at
      BY <2>2 DEF WaitingInv
    <3> QED
      BY <2>1, <3>2, <3>3
  <2>3. CASE q \notin Remediations(m)
    <3>1. q = r /\ t.check = None /\ t.reflection = "applied" /\ t.misconception = m
      BY <1>2, <1>5, <2>3
    <3> QED
      BY <1>1, <1>4, <3>1
  <2> QED
    BY <2>2, <2>3
<1> QED
  BY <1>1, <1>3, <1>5 DEF WaitingInv

\* What a remediation writes when nothing overlaps it.
LEMMA WaitingRemediation ==
  ASSUME Inv, WaitingInv, Waits, NEW r \in Requests, CommitRemediation(r),
         NEW m, m = tx[r].sub.misconception
  PROVE  /\ m \in Misconceptions /\ lm[m].status # "persistent"
         /\ lm' \in [Misconceptions -> LearnerMisconception]
         /\ lm'[m].status = "remediating" /\ lm'[m].last_remediated_at <= now
         /\ lm[m].last_remediated_at <= lm'[m].last_remediated_at
         /\ tx[r].sub.at <= lm'[m].last_remediated_at
         /\ \A n \in Misconceptions \ {m} : lm'[n] = lm[n]
<1> DEFINE seen == tx[r].seen
           at == tx[r].remediated_at
<1>1. /\ pc[r] = "open" /\ tx[r].sub.check = None /\ tx[r].sub.reflection = "applied"
      /\ m # None /\ Written(m, seen, "remediating", seen.cycles, at) /\ tx[r].again
  BY DEF CommitRemediation, CyclesKept
<1>2. /\ m \in Misconceptions /\ seen.cycles \in Nat /\ at \in Nat /\ now \in Nat
      /\ tx[r].sub.at \in Nat /\ lm[m].last_remediated_at \in Nat /\ TypeOK
  BY <1>1 DEF Inv, TypeOK, Transaction, Submission, Tags, LearnerMisconception
<1>3. "remediating" \in Statuses
  BY DEF Statuses
<1>4. /\ seen = lm[m] /\ lm[m].status # "persistent"
      /\ lm[m].last_remediated_at <= tx[r].sub.at /\ tx[r].sub.at <= at /\ at <= now
  BY <1>1, <1>2 DEF WaitingInv, RequestKnows, InFlight
<1> HIDE DEF seen, at
<1>5. /\ lm' \in [Misconceptions -> LearnerMisconception]
      /\ lm'[m].status = IF "remediating" # seen.status THEN "remediating" ELSE lm[m].status
      /\ lm'[m].last_remediated_at =
           IF at # seen.last_remediated_at THEN at ELSE lm[m].last_remediated_at
      /\ \A n \in Misconceptions \ {m} : lm'[n] = lm[n]
  BY <1>1, <1>2, <1>3, WrittenRow
<1> QED
  BY <1>2, <1>4, <1>5

\* What a check writes when nothing overlaps it.
LEMMA WaitingCheck ==
  ASSUME Inv, WaitingInv, Waits, NEW r \in Requests, CommitCheck(r),
         NEW m, m = tx[r].sub.misconception
  PROVE  /\ m \in Misconceptions
         /\ lm' \in [Misconceptions -> LearnerMisconception]
         /\ IF tx[r].sub.passed
            THEN lm'[m].status = "resolved"
            ELSE /\ lm'[m].status = StatusAfterFailure(lm[m].cycles + 1)
                 /\ lm'[m].cycles = lm[m].cycles + 1
         /\ lm'[m].last_remediated_at = lm[m].last_remediated_at
         /\ \A n \in Misconceptions \ {m} : lm'[n] = lm[n]
<1> DEFINE seen == tx[r].seen
           passed == tx[r].sub.passed
           status == IF passed THEN "resolved" ELSE StatusAfterFailure(seen.cycles + 1)
           cycles == IF passed THEN seen.cycles ELSE seen.cycles + 1
<1>1. /\ pc[r] = "open" /\ tx[r].sub.check # None
      /\ Written(m, seen, status, cycles, seen.last_remediated_at)
  BY DEF CommitCheck
<1>2. /\ m \in Misconceptions /\ cycles \in Nat /\ seen.last_remediated_at \in Nat /\ TypeOK
      /\ seen.cycles \in Nat
  BY <1>1 DEF TypeOK, Transaction, Submission, LearnerMisconception, Inv,
              RequestsSound, RequestSound
<1>3. status \in Statuses
  BY DEF Statuses, StatusAfterFailure
<1>4. seen = lm[m]
  BY <1>1, <1>2 DEF WaitingInv, RequestKnows, InFlight
<1> HIDE DEF seen, status, cycles, passed
<1>5. /\ lm' \in [Misconceptions -> LearnerMisconception]
      /\ lm'[m].status = IF status # seen.status THEN status ELSE lm[m].status
      /\ lm'[m].cycles = IF cycles # seen.cycles THEN cycles ELSE lm[m].cycles
      /\ lm'[m].last_remediated_at = lm[m].last_remediated_at
      /\ \A n \in Misconceptions \ {m} : lm'[n] = lm[n]
  BY <1>1, <1>2, <1>3, WrittenRow, SMTT(60)
<1>6. lm'[m].status = status /\ lm'[m].cycles = cycles
  BY <1>4, <1>5
<1>7. passed => status = "resolved"
  BY DEF status
<1>8. ~passed => status = StatusAfterFailure(lm[m].cycles + 1) /\ cycles = lm[m].cycles + 1
  BY <1>4 DEF status, cycles
<1> QED
  BY <1>2, <1>5, <1>6, <1>7, <1>8 DEF passed

LEMMA WaitingInit == MCInit => WaitingInv
<1> SUFFICES ASSUME MCInit PROVE WaitingInv
  OBVIOUS
<1>1. InFlight = {}
  BY DEF MCInit, Init, InFlight
<1>2. \A m : Remediations(m) = {}
  BY DEF MCInit, Init, Remediations, Checks
<1>3. \A m \in Misconceptions : lm[m] = NoRow /\ now = 0
  BY DEF MCInit, Init
<1> QED
  BY <1>1, <1>2, <1>3 DEF WaitingInv, NoRow

\* A read when no other request is open: what it found is what there is.
LEMMA WaitingOpen ==
  ASSUME Inv, WaitingInv, Waits, Waits', NEW r \in Requests, NEW t, Open(r, t),
         \A p, q \in InFlight' : p = q, t.sub.at = now, ~t.again,
         t.sub.misconception \in Misconceptions => t.seen = lm[t.sub.misconception],
         t.sub.check = None /\ t.sub.reflection # "none" =>
           IF t.sub.misconception = None
           THEN \A q \in Reflections : now >= row[q].at + Cooldown
           ELSE /\ lm[t.sub.misconception].status # "persistent"
                /\ lm[t.sub.misconception].status = "remediating" =>
                     now >= lm[t.sub.misconception].last_remediated_at + Cooldown
  PROVE  WaitingInv'
<1>1. UNCHANGED <<lm, done, row, now>> /\ tx'[r] = t /\ pc'[r] = "open"
  BY DEF Open, Inv, TypeOK
<1>2. \A q \in InFlight' : q = r
  BY <1>1 DEF InFlight
<1>3. now \in Nat /\ now <= now
  BY DEF Inv, TypeOK
<1>4. RequestKnows(r)'
  <2>1. t.sub.misconception \in Misconceptions =>
          lm[t.sub.misconception].last_remediated_at <= now
    BY DEF WaitingInv
  <2> QED
    BY <1>1, <1>3, <2>1 DEF RequestKnows, Reflections
<1> QED
  BY <1>1, <1>2, <1>3, <1>4, WaitingQuiet

LEMMA WaitingNext ==
  Inv /\ WaitingInv /\ [MCNext]_<<vars, client>> => WaitingInv'
<1> SUFFICES ASSUME Inv, WaitingInv, [MCNext]_<<vars, client>> PROVE WaitingInv'
  OBVIOUS
<1>1. CASE ~Waits
  BY <1>1 DEF MCNext, Waits, WaitingInv
<1>2. CASE Waits
  <2>1. Waits' /\ [Next]_vars
    BY <1>2 DEF MCNext, Waits, vars
  <2>t. TypeOK /\ now \in Nat /\ now <= now
    BY DEF Inv, TypeOK
  <2>m. \A m \in Misconceptions :
          /\ lm[m].cycles \in Nat /\ lm[m].last_remediated_at \in Nat
          /\ lm[m].status = "persistent" => lm[m].cycles >= MaxCycles
          /\ lm[m].last_remediated_at <= now
    BY <1>2 DEF WaitingInv, Inv, TypeOK, LearnerMisconception
  <2>2. CASE UNCHANGED vars
    <3>1. UNCHANGED <<lm, done, row, now>> /\ InFlight' = InFlight /\ tx' = tx
      BY <2>2 DEF vars, InFlight
    <3>2. \A q, r \in InFlight' : q = r
      BY <1>2, <3>1 DEF WaitingInv
    <3> QED
      BY <1>2, <2>1, <2>t, <3>1, <3>2, WaitingQuiet
  <2>3. CASE Next /\ ~UNCHANGED vars
    <3>1. \A p, q \in InFlight' : p = q
      <4>1. Cardinality(InFlight') <= 1
        BY <1>2, <2>3 DEF MCNext, vars
      <4>2. InFlight' \in SUBSET Requests
        BY DEF InFlight
      <4> QED
        BY <4>1, <4>2, AtMostOne
    <3>2. CASE Tick
      <4>1. /\ UNCHANGED <<lm, done, row, tx>> /\ InFlight' = InFlight
            /\ now' \in Nat /\ now <= now'
        BY <2>t, <3>2 DEF Tick, InFlight
      <4> QED
        BY <1>2, <2>1, <3>1, <4>1, WaitingQuiet
    <3>3. ASSUME NEW r \in Requests, Rollback(r) PROVE WaitingInv'
      <4>1. /\ UNCHANGED <<lm, done, row, now>>
            /\ pc' = [pc EXCEPT ![r] = "closed"] /\ tx' = [tx EXCEPT ![r] = NoTx]
        BY <3>3 DEF Rollback, Close
      <4>2. \A q \in InFlight' : q \in InFlight /\ tx'[q] = tx[q]
        BY <2>t, <4>1 DEF InFlight, TypeOK
      <4> QED
        BY <1>2, <2>1, <2>t, <3>1, <4>1, <4>2, WaitingQuiet
    <3>4. ASSUME NEW r \in Requests, ReadPractice(r) PROVE WaitingInv'
      <4>1. PICK tags \in [Items -> Tags], trigger \in Tags, other \in BOOLEAN,
                 hasItems \in BOOLEAN, reflection \in {"none", "attention", "applied"} :
              /\ (reflection = "none") <=>
                   IF trigger # None THEN MisconceptionSkipped(trigger)
                   ELSE ~other \/ SkillSkipped
              /\ Open(r, PracticeTx(tags, trigger, reflection, hasItems))
        BY <3>4 DEF ReadPractice
      <4> DEFINE sub == [NoSubmission EXCEPT !.at = now, !.tags = tags,
                           !.misconception = trigger, !.reflection = reflection,
                           !.hasItems = hasItems]
                 seen == IF trigger = None THEN NoRow ELSE lm[trigger]
                 t == Read(sub, seen)
      <4>2. /\ sub.check = None /\ sub.misconception = trigger /\ sub.at = now
            /\ sub.reflection = reflection
        BY DEF NoSubmission
      <4>3. t.sub = sub /\ (trigger \in Misconceptions => t.seen = lm[trigger]) /\ ~t.again
        BY NoneAssumption DEF Read
      <4>4. Open(r, t)
        BY <4>1 DEF PracticeTx
      <4>5. reflection # "none" /\ trigger = None =>
              \A q \in Reflections : now >= row[q].at + Cooldown
        <5>1. \A q \in Reflections : row[q].at \in Nat
          BY <2>t DEF Reflections, TypeOK, Submission
        <5> QED
          BY <2>t, <4>1, <5>1, ThresholdsAssumption DEF SkillSkipped, Within
      <4>6. reflection # "none" /\ trigger # None =>
              /\ lm[trigger].status # "persistent"
              /\ lm[trigger].status = "remediating" =>
                   now >= lm[trigger].last_remediated_at + Cooldown
        <5>1. trigger # None => lm[trigger].last_remediated_at \in Nat
          BY <2>m DEF Tags
        <5> QED
          BY <2>t, <4>1, <5>1, ThresholdsAssumption DEF MisconceptionSkipped, Within
      <4> HIDE DEF t, sub, seen
      <4> QED
        BY <1>2, <2>1, <3>1, <4>2, <4>3, <4>4, <4>5, <4>6, WaitingOpen
    <3>5. ASSUME NEW r \in Requests, ReadCheck(r) PROVE WaitingInv'
      <4>1. PICK c \in Checks, tags \in [Items -> Tags], passed \in BOOLEAN :
              Open(r, CheckTx(c, tags, passed))
        BY <3>5 DEF ReadCheck
      <4> DEFINE m == row[c].misconception
                 sub == [NoSubmission EXCEPT !.at = now, !.tags = tags, !.check = c,
                           !.misconception = m, !.passed = passed]
                 t == Read(sub, lm[m])
      <4>2. c # None
        BY <2>t, NoneAssumption DEF Checks, TypeOK
      <4>3. sub.check = c /\ sub.misconception = m /\ sub.at = now
        BY DEF NoSubmission
      <4>4. t.sub = sub /\ t.seen = lm[m] /\ ~t.again
        BY DEF Read
      <4>5. Open(r, t)
        BY <4>1 DEF CheckTx
      <4> HIDE DEF t, sub, m
      <4> QED
        BY <1>2, <2>1, <3>1, <4>2, <4>3, <4>4, <4>5, WaitingOpen
    <3>6. ASSUME NEW r \in Requests, CommitPractice(r) PROVE WaitingInv'
      <4>1. /\ pc[r] = "open" /\ Insert(r) /\ lm' = lm
            /\ tx[r].sub.misconception = None \/ tx[r].sub.reflection # "applied"
        BY <3>6 DEF CommitPractice
      <4>2. lm' \in [Misconceptions -> LearnerMisconception]
        BY <2>t, <4>1 DEF TypeOK
      <4> QED
        BY <1>2, <2>1, <2>m, <4>1, <4>2, NoneAssumption, WaitingInsert
    <3>7. ASSUME NEW r \in Requests, CommitRemediation(r) PROVE WaitingInv'
      <4> DEFINE m == tx[r].sub.misconception
      <4>1. pc[r] = "open" /\ Insert(r)
        BY <3>7 DEF CommitRemediation
      <4>2. /\ m \in Misconceptions
            /\ lm' \in [Misconceptions -> LearnerMisconception]
            /\ lm'[m].status = "remediating" /\ lm'[m].last_remediated_at <= now
            /\ lm[m].last_remediated_at <= lm'[m].last_remediated_at
            /\ tx[r].sub.at <= lm'[m].last_remediated_at
            /\ \A n \in Misconceptions \ {m} : lm'[n] = lm[n]
        BY <1>2, <3>7, WaitingRemediation
      <4>3. \A n \in Misconceptions :
              /\ lm'[n].status = "persistent" => lm'[n].cycles >= MaxCycles
              /\ lm[n].last_remediated_at <= lm'[n].last_remediated_at
              /\ lm'[n].last_remediated_at <= now
              /\ n = m => tx[r].sub.at <= lm'[n].last_remediated_at
        <5> HIDE DEF m
        <5> QED
          BY <2>m, <2>t, <4>2
      <4> QED
        BY <1>2, <2>1, <4>1, <4>2, <4>3, WaitingInsert
    <3>8. ASSUME NEW r \in Requests, CommitCheck(r) PROVE WaitingInv'
      <4> DEFINE m == tx[r].sub.misconception
      <4>1. pc[r] = "open" /\ Insert(r) /\ tx[r].sub.check # None
        BY <3>8 DEF CommitCheck
      <4>2. /\ m \in Misconceptions
            /\ lm' \in [Misconceptions -> LearnerMisconception]
            /\ IF tx[r].sub.passed
               THEN lm'[m].status = "resolved"
               ELSE /\ lm'[m].status = StatusAfterFailure(lm[m].cycles + 1)
                    /\ lm'[m].cycles = lm[m].cycles + 1
            /\ lm'[m].last_remediated_at = lm[m].last_remediated_at
            /\ \A n \in Misconceptions \ {m} : lm'[n] = lm[n]
        BY <1>2, <3>8, WaitingCheck
      <4>3. \A n \in Misconceptions :
              /\ lm'[n].status = "persistent" => lm'[n].cycles >= MaxCycles
              /\ lm[n].last_remediated_at <= lm'[n].last_remediated_at
              /\ lm'[n].last_remediated_at <= now
        <5> HIDE DEF m
        <5> QED
          BY <2>m, <2>t, <4>2, ThresholdsAssumption DEF StatusAfterFailure
      <4> QED
        BY <1>2, <2>1, <4>1, <4>2, <4>3, WaitingInsert
    <3>9. ASSUME NEW r \in Requests, SelectAgain(r) PROVE WaitingInv'
      <4> DEFINE m == tx[r].sub.misconception
      <4>1. /\ UNCHANGED <<lm, done, row, now, pc>> /\ m \in Misconceptions
            /\ tx'[r].sub = tx[r].sub /\ tx'[r].again /\ tx'[r].remediated_at = now
            /\ pc[r] = "open"
            /\ tx'[r].seen = IF tx[r].seen.status = "absent" THEN lm[m] ELSE tx[r].seen
        BY <2>t, <3>9, SelectedAgain
      <4>2. RequestKnows(r) /\ InFlight' = InFlight /\ r \in InFlight
        BY <1>2, <4>1 DEF WaitingInv, InFlight
      <4>3. tx'[r].seen = lm'[m]
        BY <4>1, <4>2 DEF RequestKnows
      <4>4. RequestKnows(r)'
        BY <2>t, <4>1, <4>2, <4>3 DEF RequestKnows, Reflections
      <4>5. \A q \in InFlight' : q = r
        BY <3>1, <4>2
      <4> QED
        BY <1>2, <2>1, <2>t, <3>1, <4>1, <4>4, <4>5, WaitingQuiet
    <3> QED
      BY <2>3, <3>2, <3>3, <3>4, <3>5, <3>6, <3>7, <3>8, <3>9 DEF Next
  <2> QED
    BY <2>1, <2>2, <2>3
<1> QED
  BY <1>1, <1>2

\* Only a commit writes to the tables.
LEMMA OnlyCommitsWrite ==
  ASSUME Next
  PROVE  \/ UNCHANGED <<lm, done, row>>
         \/ \E r \in Requests : /\ pc[r] = "open" /\ Insert(r)
                                /\ \/ CommitPractice(r) /\ lm' = lm
                                   \/ CommitRemediation(r) \/ CommitCheck(r)
<1>1. CASE Tick
  BY <1>1 DEF Tick
<1>2. ASSUME NEW r \in Requests, Rollback(r) PROVE UNCHANGED <<lm, done, row>>
  BY <1>2 DEF Rollback
<1>3. ASSUME NEW r \in Requests, ReadPractice(r) \/ ReadCheck(r) \/ SelectAgain(r)
      PROVE  UNCHANGED <<lm, done, row>>
  <2>1. (\E t : Open(r, t)) \/ SelectAgain(r)
    BY <1>3 DEF ReadPractice, ReadCheck
  <2> QED
    BY <2>1 DEF Open, SelectAgain
<1>4. ASSUME NEW r \in Requests, CommitPractice(r) PROVE pc[r] = "open" /\ Insert(r) /\ lm' = lm
  BY <1>4 DEF CommitPractice
<1>5. ASSUME NEW r \in Requests, CommitRemediation(r) \/ CommitCheck(r)
      PROVE  pc[r] = "open" /\ Insert(r)
  BY <1>5 DEF CommitRemediation, CommitCheck
<1> QED
  BY <1>1, <1>2, <1>3, <1>4, <1>5 DEF Next

LEMMA WaitingHolds == MCSpec => [](Inv /\ HistoryInv /\ WaitingInv)
<1> DEFINE J == Inv /\ HistoryInv /\ WaitingInv
<1>1. MCInit => J
  BY InitInv, HistoryInit, WaitingInit DEF MCInit
<1>2. J /\ [MCNext]_<<vars, client>> => J'
  <2>1. [MCNext]_<<vars, client>> => [Next]_vars
    BY DEF MCNext
  <2> QED
    BY <2>1, NextInv, HistoryNext, WaitingNext
<1> QED
  BY <1>1, <1>2, PTL DEF MCSpec

\* The one remediation a client that waits can start leaves no persistent row, and
\* another failed check keeps it persistent.
LEMMA PersistentStep ==
  Inv /\ WaitingInv /\ [MCNext]_<<vars, client>> => [Waits => PersistentStays]_vars
<1> SUFFICES ASSUME Inv, WaitingInv, Next, Waits PROVE PersistentStays
  BY DEF MCNext
<1> SUFFICES ASSUME NEW n \in Misconceptions, lm[n].status = "persistent"
             PROVE  lm'[n].status \in {"persistent", "resolved"}
  BY DEF PersistentStays
<1>1. ASSUME NEW r \in Requests, CommitRemediation(r)
      PROVE  lm'[n].status \in {"persistent", "resolved"}
  <2> DEFINE m == tx[r].sub.misconception
  <2>1. lm[m].status # "persistent" /\ \A k \in Misconceptions \ {m} : lm'[k] = lm[k]
    BY <1>1, WaitingRemediation
  <2> QED
    BY <2>1
<1>2. ASSUME NEW r \in Requests, CommitCheck(r)
      PROVE  lm'[n].status \in {"persistent", "resolved"}
  <2> DEFINE m == tx[r].sub.misconception
  <2>1. /\ IF tx[r].sub.passed THEN lm'[m].status = "resolved"
           ELSE lm'[m].status = StatusAfterFailure(lm[m].cycles + 1)
        /\ \A k \in Misconceptions \ {m} : lm'[k] = lm[k]
    BY <1>2, WaitingCheck
  <2>2. lm[n].cycles \in Nat /\ lm[n].cycles >= MaxCycles
    BY DEF WaitingInv, Inv, TypeOK, LearnerMisconception
  <2>3. StatusAfterFailure(lm[n].cycles + 1) = "persistent"
    BY <2>2, ThresholdsAssumption DEF StatusAfterFailure
  <2> HIDE DEF m
  <2> QED
    BY <2>1, <2>3
<1>3. CASE UNCHANGED lm
  BY <1>3
<1> QED
  BY <1>1, <1>2, <1>3, OnlyCommitsWrite

\* The submission a client that waits commits keeps its distance to the ones before.
LEMMA SpacedInsert ==
  ASSUME Inv, HistoryInv, WaitingInv, Waits, NEW r \in Requests, pc[r] = "open", Insert(r)
  PROVE  RemediationsSpaced /\ OtherReflectionsSpaced
<1>1. PICK t : t = tx[r].sub
  OBVIOUS
<1>2. /\ t \in Submission /\ row'[r] = t
      /\ Reflections' = Reflections \cup {q \in {r} : t.reflection # "none"}
  BY <1>1, HistoryGrows
<1>3. \A m : Remediations(m)' = Remediations(m) \cup
        {q \in {r} : t.check = None /\ t.reflection = "applied" /\ t.misconception # None
                       /\ t.misconception = m}
  BY <1>1, HistoryGrows
<1>4. RequestKnows(r) /\ t.at \in Nat
  BY <1>2 DEF WaitingInv, InFlight, Submission
<1>5. ASSUME NEW m \in Misconceptions, NEW p \in Remediations(m)' \ Remediations(m),
             NEW q \in Remediations(m)
      PROVE  row'[p].at >= row[q].at + Cooldown \/ lm[m].status = "resolved"
  <2>1. p = r /\ t.check = None /\ t.reflection = "applied" /\ t.misconception = m
    BY <1>3, <1>5
  <2>2. /\ lm[m].status # "persistent"
        /\ lm[m].status = "remediating" => t.at >= lm[m].last_remediated_at + Cooldown
    BY <1>1, <1>4, <2>1, NoneAssumption DEF RequestKnows
  <2>3. lm[m].status # "absent"
    BY DEF HistoryInv, RowsBehindHistory
  <2>4. row[q].at <= lm[m].last_remediated_at
    BY DEF WaitingInv
  <2>5. /\ row[q].at \in Nat /\ lm[m].last_remediated_at \in Nat
        /\ lm[m].status \in Statuses
    BY DEF Inv, TypeOK, Remediations, Checks, Submission, LearnerMisconception
  <2>6. CASE lm[m].status = "remediating"
    BY <1>2, <1>4, <2>1, <2>2, <2>4, <2>5, <2>6, ThresholdsAssumption
  <2> QED
    BY <2>2, <2>3, <2>5, <2>6 DEF Statuses
<1>6. ASSUME NEW p \in Reflections' \ Reflections, row'[p].misconception = None,
             NEW q \in Reflections
      PROVE  row'[p].at >= row[q].at + Cooldown
  <2>1. p = r /\ t.reflection # "none" /\ t.misconception = None
    BY <1>2, <1>6
  <2>2. t.check = None
    BY <1>1, <2>1, NoneAssumption DEF Inv, RequestsSound, RequestSound
  <2>3. t.at >= row[q].at + Cooldown
    BY <1>1, <1>4, <2>1, <2>2 DEF RequestKnows
  <2> QED
    BY <1>2, <2>1, <2>3
<1> QED
  BY <1>5, <1>6 DEF RemediationsSpaced, OtherReflectionsSpaced

LEMMA SpacedStep ==
  Inv /\ HistoryInv /\ WaitingInv /\ [MCNext]_<<vars, client>> =>
    [Waits => RemediationsSpaced /\ OtherReflectionsSpaced]_vars
<1> SUFFICES ASSUME Inv, HistoryInv, WaitingInv, Next, Waits
             PROVE  RemediationsSpaced /\ OtherReflectionsSpaced
  BY DEF MCNext
<1>1. CASE \E r \in Requests : pc[r] = "open" /\ Insert(r)
  BY <1>1, SpacedInsert
<1>2. CASE UNCHANGED <<done, row>>
  BY <1>2 DEF RemediationsSpaced, OtherReflectionsSpaced, Remediations, Checks, Reflections
<1> QED
  BY <1>1, <1>2, OnlyCommitsWrite

\* For a client that waits, a persistent misconception is only ever left by a check
\* that is passed.
THEOREM WaitingPersistent == MCSpec => WaitingPersistentStays
<1>1. MCSpec => [](Inv /\ WaitingInv)
  BY WaitingHolds, PTL
<1> QED
  BY <1>1, PersistentStep, PTL DEF MCSpec, WaitingPersistentStays

\* For a client that waits, no reflection repeats one within its cooldown.
THEOREM WaitingSpaced == MCSpec => WaitingReflectionsSpaced
BY WaitingHolds, SpacedStep, PTL DEF MCSpec, WaitingReflectionsSpaced
=============================================================================
