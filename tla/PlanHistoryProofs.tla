------------------------- MODULE PlanHistoryProofs -------------------------
(***************************************************************************)
(* The invariants of PlanHistory, for every set of requests, every number  *)
(* of them in flight and every set of activities.  Inv is inductive; the   *)
(* only step that touches most of it is the commit of a revision.  For a   *)
(* client that waits for its answers, WaitingInv says that every plan is a *)
(* chain, and the plan tables implement LinearHistory.                     *)
(***************************************************************************)
EXTENDS MCPlanHistory, FiniteSetTheorems, SequenceTheorems, TLAPS

\* The revisions of a plan are finitely many, so len(prior_revisions) is a number.
LEMMA RevisionsFinite ==
  ASSUME TypeOK, NEW p
  PROVE  IsFiniteSet(RevisionsOf(p)) /\ Cardinality(RevisionsOf(p)) \in Nat
<1>1. RevisionsOf(p) \in SUBSET Requests
  BY DEF RevisionsOf, TypeOK
<1>2. IsFiniteSet(RevisionsOf(p))
  BY <1>1, RequestsAssumption, FS_Subset
<1> QED
  BY <1>2, FS_CardinalityType

LEMMA InitInv == Init => Inv
<1> SUFFICES ASSUME Init PROVE Inv
  OBVIOUS
<1> USE DEF Init
<1>1. TypeOK
  BY DEF TypeOK, NoRow, NoTx, RevisionRow, Transaction, Kinds, Content, EmptyContent
<1>2. RowsSound /\ RequestsSound
  BY DEF RowsSound, RequestsSound, RequestSound
<1>3. CurrentInPlan /\ ParentNumberedBelow /\ CurrentIsLeaf /\ RevertRecorded
  BY DEF CurrentInPlan, ParentNumberedBelow, CurrentIsLeaf, RevertRecorded
<1> QED
  BY <1>1, <1>2, <1>3 DEF Inv

\* A step that leaves the committed rows alone and only opens or closes a request.
LEMMA RequestStep ==
  ASSUME Inv, NEW r \in Requests, UNCHANGED database,
         NEW w \in {"begun", "ended"}, pc' = [pc EXCEPT ![r] = w],
         pc[r] # "ended",
         tx' \in [Requests -> Transaction], \A q \in Requests \ {r} : tx'[q] = tx[q],
         startedAt' \in [Requests -> Nat], clock' \in Nat
  PROVE  Inv'
<1> USE DEF Inv, database
<1>1. TypeOK'
  BY DEF TypeOK
<1>2. RowsSound'
  BY DEF RowsSound, TypeOK, RevisionsOf
<1>3. RequestsSound'
  <2> SUFFICES ASSUME NEW q \in Requests PROVE RequestSound(q)'
    BY DEF RequestsSound
  <2>1. RequestSound(q) /\ \A p : RevisionsOf(p)' = RevisionsOf(p)
    BY DEF RequestsSound, RevisionsOf
  <2>2. CASE q = r
    BY <2>2 DEF RequestSound, TypeOK
  <2>3. CASE q # r
    <3>1. pc'[q] = pc[q] /\ tx'[q] = tx[q]
      BY <2>3 DEF TypeOK
    <3> QED
      BY <2>1, <3>1 DEF RequestSound
  <2> QED
    BY <2>2, <2>3
<1>4. (CurrentInPlan /\ ParentNumberedBelow /\ CurrentIsLeaf /\ RevertRecorded)'
  BY DEF CurrentInPlan, ParentNumberedBelow, CurrentIsLeaf, RevertRecorded, RevisionsOf
<1> QED
  BY <1>1, <1>2, <1>3, <1>4

\* A read: whatever the draft, the request has seen a committed revision of the
\* plan it will write to, or is about to create the plan.
LEMMA ReadStep ==
  ASSUME Inv, NEW r \in Requests, NEW t \in Transaction, Read(r, t),
         IF t.kind = "initial"
         THEN t.plan = r /\ t.seen = None
         ELSE t.plan \in plans /\ t.seen \in RevisionsOf(t.plan)
  PROVE  Inv'
<1> USE DEF Inv, database, Read
<1>1. TypeOK'
  BY DEF TypeOK
<1>2. RowsSound'
  BY DEF RowsSound, TypeOK, RevisionsOf
<1>3. RequestsSound'
  BY DEF RequestsSound, RequestSound, TypeOK, RevisionsOf
<1>4. (CurrentInPlan /\ ParentNumberedBelow /\ CurrentIsLeaf /\ RevertRecorded)'
  BY DEF CurrentInPlan, ParentNumberedBelow, CurrentIsLeaf, RevertRecorded, RevisionsOf
<1> QED
  BY <1>1, <1>2, <1>3, <1>4

\* Counting the rows committed so far gives a number above the parent's.
LEMMA NumberStep ==
  ASSUME Inv, NEW r \in Requests, Number(r)
  PROVE  Inv'
<1> DEFINE card(p) == Cardinality(RevisionsOf(p))
<1> USE DEF Inv, database, Number, NextNumber
<1>0. \A p : card(p) \in Nat
  BY RevisionsFinite
<1>1. TypeOK'
  <2>1. tx[r] \in Transaction /\ card(tx[r].plan) + 1 \in Nat
    BY <1>0 DEF TypeOK
  <2>2. [tx[r] EXCEPT !.no = card(tx[r].plan) + 1] \in Transaction
    BY <2>1 DEF Transaction
  <2>3. tx' = [tx EXCEPT ![r] = [tx[r] EXCEPT !.no = card(tx[r].plan) + 1]]
    BY DEF TypeOK
  <2>4. tx' \in [Requests -> Transaction]
    BY <2>2, <2>3 DEF TypeOK
  <2> QED
    BY <2>4 DEF TypeOK
<1>2. RowsSound'
  BY DEF RowsSound, TypeOK, RevisionsOf
<1>3. RequestsSound'
  <2> SUFFICES ASSUME NEW q \in Requests PROVE RequestSound(q)'
    BY DEF RequestsSound
  <2>0. \A p : RevisionsOf(p)' = RevisionsOf(p)
    BY DEF RevisionsOf
  <2>1. RequestSound(q) /\ RequestSound(r)
    BY DEF RequestsSound
  <2>2. CASE q # r
    <3>1. tx'[q] = tx[q] /\ pc'[q] = pc[q]
      BY <2>2 DEF TypeOK
    <3> QED
      BY <2>0, <2>1, <3>1 DEF RequestSound
  <2>3. CASE q = r
    <3> DEFINE t == tx[r]
    <3>1. t \in Transaction
      BY DEF TypeOK
    <3>2. tx'[r] = [t EXCEPT !.no = card(t.plan) + 1]
      BY DEF TypeOK
    <3>3. /\ tx'[r].kind = t.kind /\ tx'[r].plan = t.plan /\ tx'[r].seen = t.seen
          /\ tx'[r].no = card(t.plan) + 1
      BY <3>1, <3>2 DEF Transaction
    <3>4. tx'[r].no \in 1..card(t.plan) + 1
      BY <1>0, <3>3
    <3>5. ASSUME t.seen # None PROVE row[t.seen].no < tx'[r].no
      <4>1. t.seen \in RevisionsOf(t.plan)
        BY <2>1, <3>5 DEF RequestSound
      <4>2. row[t.seen].no \in 1..card(t.plan)
        BY <4>1 DEF RowsSound, RevisionsOf
      <4> QED
        BY <1>0, <3>3, <4>2
    <3> QED
      BY <2>0, <2>1, <2>3, <3>3, <3>4, <3>5 DEF RequestSound
  <2> QED
    BY <2>2, <2>3
<1>4. (CurrentInPlan /\ ParentNumberedBelow /\ CurrentIsLeaf /\ RevertRecorded)'
  BY DEF CurrentInPlan, ParentNumberedBelow, CurrentIsLeaf, RevertRecorded, RevisionsOf
<1> QED
  BY <1>1, <1>2, <1>3, <1>4

\* A mark changes nothing but the status of items.
LEMMA MarkStep ==
  ASSUME Inv, NEW r \in Requests, CommitMark(r)
  PROVE  Inv'
<1> USE DEF Inv, CommitMark, End
<1>0. \A p : RevisionsOf(p)' = RevisionsOf(p)
  BY DEF RevisionsOf
<1>1. TypeOK'
  <2>1. tx[r].draft \in Content /\ items \in [Requests -> Content]
    BY DEF TypeOK, Transaction
  <2>2. items' \in [Requests -> Content]
    BY <2>1 DEF Content
  <2>3. NoTx \in Transaction
    BY DEF NoTx, Transaction, Kinds, EmptyContent, Content
  <2> QED
    BY <2>2, <2>3 DEF TypeOK
<1>2. RowsSound'
  BY <1>0 DEF RowsSound, TypeOK
<1>3. RequestsSound'
  BY <1>0 DEF RequestsSound, RequestSound, TypeOK
<1>4. (CurrentInPlan /\ ParentNumberedBelow /\ CurrentIsLeaf /\ RevertRecorded)'
  BY <1>0 DEF CurrentInPlan, ParentNumberedBelow, CurrentIsLeaf, RevertRecorded
<1> QED
  BY <1>1, <1>2, <1>3, <1>4

\* What the commit of a revision writes.  The new row r is numbered above its
\* parent, and only the plan written to has one revision more.
LEMMA CommitEffects ==
  ASSUME Inv, NEW r \in Requests, CommitRevision(r), NEW t, t = tx[r]
  PROVE  /\ pc[r] = "numbered"
         /\ plans' = plans \cup {t.plan}
         /\ revisions' = revisions \cup {r}
         /\ items' = [items EXCEPT ![r] = t.draft]
         /\ current' = [current EXCEPT ![t.plan] = r]
         /\ pc' = [pc EXCEPT ![r] = "ended"]
         /\ tx' = [tx EXCEPT ![r] = NoTx]
         /\ startedAt' = startedAt /\ clock' = clock
         /\ t \in Transaction
         /\ t.plan \in Requests \cup {None} /\ t.seen \in Requests \cup {None}
         /\ t.kind \in Kinds /\ t.no \in Nat /\ t.draft \in Content
         /\ IF t.kind = "initial" THEN t.plan = r /\ t.seen = None
            ELSE t.plan \in plans /\ t.seen \in RevisionsOf(t.plan)
         /\ t.no \in 1..Cardinality(RevisionsOf(t.plan)) + 1
         /\ t.seen # None => row[t.seen].no < t.no
         /\ r \notin revisions /\ r # None /\ t.seen # r
         /\ t.plan \in Requests
         /\ row' \in [Requests -> RevisionRow]
         /\ row'[r] = NewRow(r)
         /\ \A v \in Requests \ {r} :
              /\ row'[v].plan = row[v].plan /\ row'[v].no = row[v].no
              /\ row'[v].parent = row[v].parent /\ row'[v].cause = row[v].cause
              /\ row'[v].reverted_by = IF v = t.seen /\ t.kind = "user_override"
                                       THEN r ELSE row[v].reverted_by
         /\ revisions \subseteq Requests /\ plans \subseteq Requests
         /\ RevisionsOf(t.plan)' = RevisionsOf(t.plan) \cup {r}
         /\ \A p \in Requests \ {t.plan} : RevisionsOf(p)' = RevisionsOf(p)
         /\ \A p : Cardinality(RevisionsOf(p)) \in Nat
         /\ Cardinality(RevisionsOf(t.plan))' = Cardinality(RevisionsOf(t.plan)) + 1
         /\ \A p \in Requests \ {t.plan} : Cardinality(RevisionsOf(p))' = Cardinality(RevisionsOf(p))
<1> DEFINE card(p) == Cardinality(RevisionsOf(p))
<1> USE DEF Inv
<1>0. /\ pc[r] = "numbered"
      /\ plans' = plans \cup {t.plan}
      /\ revisions' = revisions \cup {r}
      /\ items' = [items EXCEPT ![r] = t.draft]
      /\ current' = [current EXCEPT ![t.plan] = r]
      /\ pc' = [pc EXCEPT ![r] = "ended"]
      /\ tx' = [tx EXCEPT ![r] = NoTx]
      /\ startedAt' = startedAt /\ clock' = clock
  BY DEF CommitRevision, PointerAfter, End
<1>1. /\ t \in Transaction
      /\ t.plan \in Requests \cup {None} /\ t.seen \in Requests \cup {None}
      /\ t.kind \in Kinds /\ t.no \in Nat /\ t.draft \in Content
  BY DEF TypeOK, Transaction
<1>2. /\ IF t.kind = "initial" THEN t.plan = r /\ t.seen = None
         ELSE t.plan \in plans /\ t.seen \in RevisionsOf(t.plan)
      /\ t.no \in 1..card(t.plan) + 1
      /\ t.seen # None => row[t.seen].no < t.no
  BY <1>0 DEF RequestsSound, RequestSound
<1>3. r \notin revisions /\ r # None /\ t.seen # r
  BY <1>0, <1>2, NoneAssumption DEF RowsSound, RevisionsOf
<1>4. t.plan \in Requests
  BY <1>2 DEF TypeOK
<1>5. NewRow(r) \in RevisionRow
  BY <1>1 DEF NewRow, RevisionRow
<1>6. /\ row' \in [Requests -> RevisionRow]
      /\ row'[r] = NewRow(r)
      /\ \A v \in Requests \ {r} :
           /\ row'[v].plan = row[v].plan /\ row'[v].no = row[v].no
           /\ row'[v].parent = row[v].parent /\ row'[v].cause = row[v].cause
           /\ row'[v].reverted_by = IF v = t.seen /\ t.kind = "user_override"
                                    THEN r ELSE row[v].reverted_by
  <2>1. row' = [v \in Requests |->
                  CASE v = r -> NewRow(r)
                    [] v = t.seen /\ v # r /\ t.kind = "user_override" ->
                         [row[v] EXCEPT !.reverted_by = r]
                    [] OTHER -> row[v]]
    BY DEF CommitRevision, RowsAfter
  <2>2. \A v \in Requests : row[v] \in RevisionRow
    BY DEF TypeOK
  <2>3. \A v \in Requests : /\ [row[v] EXCEPT !.reverted_by = r] \in RevisionRow
                            /\ [row[v] EXCEPT !.reverted_by = r].plan = row[v].plan
                            /\ [row[v] EXCEPT !.reverted_by = r].no = row[v].no
                            /\ [row[v] EXCEPT !.reverted_by = r].parent = row[v].parent
                            /\ [row[v] EXCEPT !.reverted_by = r].cause = row[v].cause
                            /\ [row[v] EXCEPT !.reverted_by = r].reverted_by = r
    BY <2>2 DEF RevisionRow
  <2>4. \A v \in Requests \ {r} :
          row'[v] = IF v = t.seen /\ t.kind = "user_override"
                    THEN [row[v] EXCEPT !.reverted_by = r] ELSE row[v]
    BY <2>1
  <2>5. row'[r] = NewRow(r)
    BY <2>1
  <2>6. row' \in [Requests -> RevisionRow]
    BY <1>5, <2>1, <2>2, <2>3
  <2>7. ASSUME NEW v \in Requests \ {r}
        PROVE  /\ row'[v].plan = row[v].plan /\ row'[v].no = row[v].no
               /\ row'[v].parent = row[v].parent /\ row'[v].cause = row[v].cause
               /\ row'[v].reverted_by = IF v = t.seen /\ t.kind = "user_override"
                                        THEN r ELSE row[v].reverted_by
    <3>1. CASE v = t.seen /\ t.kind = "user_override"
      <4>1. row'[v] = [row[v] EXCEPT !.reverted_by = r]
        BY <2>4, <3>1
      <4> QED
        BY <2>3, <3>1, <4>1
    <3>2. CASE ~(v = t.seen /\ t.kind = "user_override")
      <4>1. row'[v] = row[v]
        BY <2>4, <3>2
      <4> QED
        BY <3>2, <4>1
    <3> QED
      BY <3>1, <3>2
  <2> QED
    BY <2>5, <2>6, <2>7
<1>7. revisions \subseteq Requests /\ plans \subseteq Requests
  BY DEF TypeOK
<1>8. /\ RevisionsOf(t.plan)' = RevisionsOf(t.plan) \cup {r}
      /\ \A p \in Requests \ {t.plan} : RevisionsOf(p)' = RevisionsOf(p)
  BY <1>0, <1>3, <1>6, <1>7 DEF RevisionsOf, NewRow
<1>9. /\ \A p : card(p) \in Nat
      /\ card(t.plan)' = card(t.plan) + 1
      /\ \A p \in Requests \ {t.plan} : card(p)' = card(p)
  <2>1. \A p : IsFiniteSet(RevisionsOf(p)) /\ card(p) \in Nat
    BY RevisionsFinite
  <2>2. r \notin RevisionsOf(t.plan)
    BY <1>3 DEF RevisionsOf
  <2>3. Cardinality(RevisionsOf(t.plan) \cup {r}) = card(t.plan) + 1
    BY <2>1, <2>2, FS_AddElement
  <2>4. card(t.plan)' = Cardinality(RevisionsOf(t.plan)')
    OBVIOUS
  <2> QED
    BY <1>8, <2>1, <2>3, <2>4
<1> QED
  BY <1>0, <1>1, <1>2, <1>3, <1>4, <1>6, <1>7, <1>8, <1>9

\* No row has the new one for a parent, so the invariant is kept.
LEMMA CommitStep ==
  ASSUME Inv, NEW r \in Requests, CommitRevision(r), NEW t, t = tx[r]
  PROVE  Inv'
<1> DEFINE card(p) == Cardinality(RevisionsOf(p))
<1> USE DEF Inv
<1>0. /\ pc[r] = "numbered"
      /\ plans' = plans \cup {t.plan}
      /\ revisions' = revisions \cup {r}
      /\ items' = [items EXCEPT ![r] = t.draft]
      /\ current' = [current EXCEPT ![t.plan] = r]
      /\ pc' = [pc EXCEPT ![r] = "ended"]
      /\ tx' = [tx EXCEPT ![r] = NoTx]
      /\ startedAt' = startedAt /\ clock' = clock
  BY CommitEffects
<1>1. /\ t \in Transaction
      /\ t.plan \in Requests \cup {None} /\ t.seen \in Requests \cup {None}
      /\ t.kind \in Kinds /\ t.no \in Nat /\ t.draft \in Content
  BY CommitEffects
<1>2. /\ IF t.kind = "initial" THEN t.plan = r /\ t.seen = None
         ELSE t.plan \in plans /\ t.seen \in RevisionsOf(t.plan)
      /\ t.no \in 1..card(t.plan) + 1
      /\ t.seen # None => row[t.seen].no < t.no
  BY CommitEffects
<1>3. r \notin revisions /\ r # None /\ t.seen # r
  BY CommitEffects
<1>4. t.plan \in Requests
  BY CommitEffects
<1>6. /\ row' \in [Requests -> RevisionRow]
      /\ row'[r] = NewRow(r)
      /\ \A v \in Requests \ {r} :
           /\ row'[v].plan = row[v].plan /\ row'[v].no = row[v].no
           /\ row'[v].parent = row[v].parent /\ row'[v].cause = row[v].cause
           /\ row'[v].reverted_by = IF v = t.seen /\ t.kind = "user_override"
                                    THEN r ELSE row[v].reverted_by
  BY CommitEffects
<1>7. revisions \subseteq Requests /\ plans \subseteq Requests
  BY CommitEffects
<1>8. /\ RevisionsOf(t.plan)' = RevisionsOf(t.plan) \cup {r}
      /\ \A p \in Requests \ {t.plan} : RevisionsOf(p)' = RevisionsOf(p)
  BY CommitEffects
<1>9. /\ \A p : card(p) \in Nat
      /\ card(t.plan)' = card(t.plan) + 1
      /\ \A p \in Requests \ {t.plan} : card(p)' = card(p)
  BY CommitEffects
<1>10. TypeOK'
  <2>1. NoTx \in Transaction
    BY DEF NoTx, Transaction, Kinds, EmptyContent, Content
  <2> QED
    BY <1>0, <1>1, <1>4, <1>6, <2>1 DEF TypeOK
<1>11. RowsSound'
  <2>1. plans' \subseteq revisions'
    BY <1>0, <1>2 DEF RowsSound
  <2>2. ASSUME NEW v \in revisions'
        PROVE  pc'[v] = "ended" /\ row'[v].plan \in plans'
    BY <1>0, <1>6, <1>7 DEF NewRow, RowsSound, TypeOK
  <2>3. ASSUME NEW p \in plans', NEW v \in RevisionsOf(p)'
        PROVE  row'[v].no \in 1..card(p)'
    <3>1. CASE v = r
      <4>1. p = t.plan /\ row'[v].no = t.no
        BY <1>6, <3>1 DEF NewRow, RevisionsOf
      <4> QED
        BY <1>2, <1>9, <4>1
    <3>2. CASE v # r
      <4>1. p \in plans /\ v \in RevisionsOf(p) /\ row'[v].no = row[v].no
        BY <1>0, <1>6, <1>7, <3>2 DEF RevisionsOf, RowsSound
      <4>2. row[v].no \in 1..card(p)
        BY <4>1 DEF RowsSound
      <4>3. card(p)' \in {card(p), card(p) + 1}
        BY <1>7, <1>9, <4>1
      <4> QED
        BY <1>9, <4>1, <4>2, <4>3
    <3> QED
      BY <3>1, <3>2
  <2> QED
    BY <2>1, <2>2, <2>3 DEF RowsSound
<1>12. RequestsSound'
  <2> SUFFICES ASSUME NEW q \in Requests, pc'[q] \in {"read", "numbered"}
               PROVE  RequestSound(q)'
    BY DEF RequestsSound, RequestSound
  <2>1. q # r /\ pc'[q] = pc[q] /\ tx'[q] = tx[q]
    BY <1>0 DEF TypeOK
  <2>2. RequestSound(q)
    BY DEF RequestsSound
  <2>3. tx[q] \in Transaction
    BY DEF TypeOK
  <2>4. q \notin revisions
    BY <2>1 DEF RowsSound
  <2>5. tx[q].kind = "initial" => tx[q].plan = q /\ tx[q].seen = None
    BY <2>1, <2>2 DEF RequestSound
  <2>6. tx[q].kind # "initial" => tx[q].plan \in plans /\ tx[q].seen \in RevisionsOf(tx[q].plan)
    BY <2>1, <2>2 DEF RequestSound
  <2>7. tx[q].plan \in Requests
    BY <1>7, <2>5, <2>6
  <2>8. tx[q].seen # None => tx[q].seen \in revisions
    BY <2>5, <2>6 DEF RevisionsOf
  <2>9. tx[q].seen # None => row'[tx[q].seen].no = row[tx[q].seen].no
    BY <1>3, <1>6, <1>7, <2>8
  <2>10. tx[q].kind # "initial" =>
           tx[q].plan \in plans' /\ tx[q].seen \in RevisionsOf(tx[q].plan)'
    BY <1>0, <1>3, <1>6, <1>7, <2>1, <2>6 DEF RevisionsOf
  <2>11. 1..card(tx[q].plan) + 1 \subseteq 1..card(tx[q].plan)' + 1
    <3>1. card(tx[q].plan)' \in {card(tx[q].plan), card(tx[q].plan) + 1}
      BY <1>9, <2>1, <2>7
    <3> QED
      BY <1>9, <3>1
  <2>12. pc[q] = "numbered" =>
           /\ tx[q].kind # "mark"
           /\ tx[q].no \in 1..card(tx[q].plan) + 1
           /\ tx[q].seen # None => row[tx[q].seen].no < tx[q].no
    BY <2>2 DEF RequestSound
  <2> HIDE DEF card
  <2>13. pc[q] = "numbered" => tx[q].no \in 1..card(tx[q].plan)' + 1
    BY <2>11, <2>12
  <2> QED
    BY <2>1, <2>5, <2>9, <2>10, <2>12, <2>13 DEF RequestSound, card
<1>13. CurrentInPlan'
  BY <1>0, <1>4, <1>7, <1>8 DEF CurrentInPlan, TypeOK
<1>14. ParentNumberedBelow'
  <2> SUFFICES ASSUME NEW p \in plans', NEW v \in RevisionsOf(p)', row'[v].parent # None
               PROVE  /\ row'[v].parent \in RevisionsOf(p)'
                      /\ row'[row'[v].parent].no < row'[v].no
    BY DEF ParentNumberedBelow
  <2>0. \A q \in Requests : RevisionsOf(q) \subseteq RevisionsOf(q)'
    BY <1>8
  <2>1. CASE v = r
    <3>1. row'[v].parent = t.seen /\ p = t.plan /\ row'[v].no = t.no
      BY <1>6, <2>1 DEF NewRow, RevisionsOf
    <3>2. t.seen \in RevisionsOf(t.plan)
      BY <1>2, <3>1
    <3>3. row'[t.seen].no = row[t.seen].no
      BY <1>3, <1>6, <1>7, <3>2 DEF RevisionsOf
    <3> QED
      BY <1>2, <1>4, <2>0, <3>1, <3>2, <3>3
  <2>2. CASE v # r
    <3>1. /\ v \in RevisionsOf(p) /\ p \in plans
          /\ row'[v].parent = row[v].parent /\ row'[v].no = row[v].no
      BY <1>0, <1>6, <1>7, <2>2 DEF RevisionsOf, RowsSound
    <3>2. /\ row[v].parent \in RevisionsOf(p)
          /\ row[row[v].parent].no < row[v].no
      BY <3>1 DEF ParentNumberedBelow
    <3>3. row'[row[v].parent].no = row[row[v].parent].no
      BY <1>3, <1>6, <1>7, <3>2 DEF RevisionsOf
    <3> QED
      BY <1>7, <2>0, <3>1, <3>2, <3>3
  <2> QED
    BY <2>1, <2>2
<1>15. CurrentIsLeaf'
  <2>1. ASSUME NEW p \in plans', NEW v \in revisions'
        PROVE  row'[v].parent # current'[p]
    <3>1. p \in Requests /\ row'[v].parent = IF v = r THEN t.seen ELSE row[v].parent
      BY <1>0, <1>4, <1>6, <1>7 DEF NewRow
    <3>2. v # r => v \in revisions /\ (row[v].parent # None => row[v].parent \in revisions)
      BY <1>0 DEF ParentNumberedBelow, RevisionsOf, RowsSound
    <3>3. CASE p = t.plan
      BY <1>0, <1>3, <1>4, <3>1, <3>2, <3>3 DEF TypeOK
    <3>4. CASE p # t.plan
      <4>1. p \in plans /\ current'[p] = current[p] /\ current[p] \in RevisionsOf(p)
        BY <1>0, <3>1, <3>4 DEF CurrentInPlan, TypeOK
      <4>2. t.seen # None => t.seen \in RevisionsOf(t.plan)
        BY <1>2
      <4>3. t.seen # current[p]
        BY <1>7, <3>4, <4>1, <4>2, NoneAssumption DEF RevisionsOf
      <4> QED
        BY <3>1, <3>2, <4>1, <4>3 DEF CurrentIsLeaf
    <3> QED
      BY <3>3, <3>4
  <2> QED
    BY <2>1 DEF CurrentIsLeaf
<1>16. RevertRecorded'
  <2> SUFFICES ASSUME NEW v \in revisions', row'[v].reverted_by # None
               PROVE  /\ row'[v].reverted_by \in revisions'
                      /\ row'[row'[v].reverted_by].parent = v
                      /\ row'[row'[v].reverted_by].cause = "user_override"
                      /\ \A p \in plans' : current'[p] # v
    BY DEF RevertRecorded
  <2>1. v # r /\ v \in revisions
    BY <1>0, <1>6 DEF NewRow
  <2>2. CASE v = t.seen /\ t.kind = "user_override"
    <3>1. row'[v].reverted_by = r /\ row'[r].parent = v /\ row'[r].cause = "user_override"
      BY <1>6, <1>7, <2>1, <2>2 DEF NewRow
    <3>2. \A p \in plans' : current'[p] # v
      BY <1>0, <3>1, <1>15 DEF CurrentIsLeaf
    <3> QED
      BY <1>0, <3>1, <3>2
  <2>3. CASE ~(v = t.seen /\ t.kind = "user_override")
    <3> DEFINE w == row[v].reverted_by
    <3>1. row'[v].reverted_by = w
      BY <1>6, <1>7, <2>1, <2>3
    <3>2. /\ w \in revisions /\ row[w].parent = v /\ row[w].cause = "user_override"
          /\ \A p \in plans : current[p] # v
      BY <2>1, <3>1 DEF RevertRecorded
    <3>3. /\ w \in revisions' /\ row'[w].parent = v /\ row'[w].cause = "user_override"
      BY <1>0, <1>3, <1>6, <1>7, <3>2
    <3>4. \A p \in plans' : current'[p] # v
      BY <1>0, <2>1, <3>2, <1>4, <1>7 DEF TypeOK
    <3> QED
      BY <3>1, <3>3, <3>4
  <2> QED
    BY <2>2, <2>3
<1> QED
  BY <1>10, <1>11, <1>12, <1>13, <1>14, <1>15, <1>16

-----------------------------------------------------------------------------
\* Every step of every request preserves the invariant.
LEMMA NextInv == Inv /\ [Next]_vars => Inv'
<1> SUFFICES ASSUME Inv, [Next]_vars PROVE Inv'
  OBVIOUS
<1>t. TypeOK
  BY DEF Inv
<1>n. NoTx \in Transaction
  BY DEF NoTx, Transaction, Kinds, EmptyContent, Content
<1>1. ASSUME NEW r \in Requests, Begin(r) PROVE Inv'
  <2>1. /\ pc' = [pc EXCEPT ![r] = "begun"] /\ pc[r] # "ended"
        /\ tx' = tx /\ UNCHANGED database
    BY <1>1 DEF Begin
  <2>2. startedAt' \in [Requests -> Nat] /\ clock' \in Nat /\ tx' \in [Requests -> Transaction]
    BY <1>1, <1>t DEF Begin, TypeOK
  <2> QED
    BY <2>1, <2>2, RequestStep
<1>2. ASSUME NEW r \in Requests, Rollback(r) PROVE Inv'
  BY <1>2, <1>t, <1>n, RequestStep DEF Rollback, End, TypeOK
<1>3. ASSUME NEW r \in Requests, ReadForCreate(r) PROVE Inv'
  <2>1. PICK d \in Content :
          Read(r, [kind |-> "initial", plan |-> r, seen |-> None, no |-> 0, draft |-> d])
    BY <1>3 DEF ReadForCreate
  <2> DEFINE t == [kind |-> "initial", plan |-> r, seen |-> None, no |-> 0, draft |-> d]
  <2>2. t \in Transaction /\ t.kind = "initial" /\ t.plan = r /\ t.seen = None
    BY DEF Transaction, Kinds
  <2> HIDE DEF t
  <2> QED
    BY <2>1, <2>2, ReadStep DEF t
<1>4. ASSUME NEW r \in Requests, NEW kind \in Kinds \ {"initial"}, NEW p \in plans,
             NEW d \in Content,
             Read(r, [kind |-> kind, plan |-> p, seen |-> current[p], no |-> 0, draft |-> d])
      PROVE  Inv'
  <2> DEFINE t == [kind |-> kind, plan |-> p, seen |-> current[p], no |-> 0, draft |-> d]
  <2>1. current[p] \in RevisionsOf(p) /\ p \in Requests /\ current[p] \in Requests
    BY DEF Inv, CurrentInPlan, RevisionsOf, TypeOK
  <2>2. t \in Transaction /\ t.kind # "initial" /\ t.plan = p /\ t.seen = current[p]
    BY <2>1 DEF Transaction, Kinds
  <2> HIDE DEF t
  <2> QED
    BY <1>4, <2>1, <2>2, ReadStep DEF t
<1>5. ASSUME NEW r \in Requests, ReadForPatch(r) PROVE Inv'
  BY <1>4, <1>5 DEF ReadForPatch, Kinds
<1>6. ASSUME NEW r \in Requests, ReadForReflection(r) PROVE Inv'
  BY <1>4, <1>6 DEF ReadForReflection, Kinds
<1>7. ASSUME NEW r \in Requests, ReadForRevert(r) PROVE Inv'
  <2>1. PICK p \in plans, v \in revisions :
          /\ current[p] = v
          /\ row[v].parent \in revisions
          /\ Read(r, [kind |-> "user_override", plan |-> p, seen |-> v, no |-> 0,
                      draft |-> items[row[v].parent]])
    BY <1>7 DEF ReadForRevert
  <2>2. items[row[v].parent] \in Content
    BY <1>t, <2>1 DEF TypeOK
  <2> QED
    BY <1>4, <2>1, <2>2 DEF Kinds
<1>8. ASSUME NEW r \in Requests, ReadForMark(r) PROVE Inv'
  <2>1. PICK p \in plans, a \in Activities, s \in ItemStatus :
          Read(r, [kind |-> "mark", plan |-> p, seen |-> current[p], no |-> 0,
                   draft |-> [EmptyContent EXCEPT ![a] = s]])
    BY <1>8 DEF ReadForMark
  <2>2. [EmptyContent EXCEPT ![a] = s] \in Content
    BY DEF EmptyContent, Content
  <2> QED
    BY <1>4, <2>1, <2>2 DEF Kinds
<1>9. ASSUME NEW r \in Requests, Number(r) PROVE Inv'
  BY <1>9, NumberStep
<1>10. ASSUME NEW r \in Requests, CommitRevision(r) PROVE Inv'
  BY <1>10, CommitStep
<1>11. ASSUME NEW r \in Requests, CommitMark(r) PROVE Inv'
  BY <1>11, MarkStep
<1>12. CASE UNCHANGED vars
  <2>1. \A p : RevisionsOf(p)' = RevisionsOf(p)
    BY <1>12 DEF vars, RevisionsOf
  <2>2. (TypeOK /\ RowsSound)'
    BY <1>12, <2>1 DEF vars, Inv, TypeOK, RowsSound
  <2>3. RequestsSound'
    BY <1>12, <2>1 DEF vars, Inv, RequestsSound, RequestSound, RevisionsOf
  <2>4. (CurrentInPlan /\ ParentNumberedBelow /\ CurrentIsLeaf /\ RevertRecorded)'
    BY <1>12, <2>1 DEF vars, Inv, CurrentInPlan, ParentNumberedBelow, CurrentIsLeaf,
                       RevertRecorded
  <2> QED
    BY <2>2, <2>3, <2>4 DEF Inv
<1> QED
  BY <1>1, <1>2, <1>3, <1>5, <1>6, <1>7, <1>8, <1>9, <1>10, <1>11, <1>12 DEF Next

\* The whole of Inv is an invariant: types, rows and open requests included.
THEOREM InvHolds == Spec => []Inv
<1>1. Init => Inv
  BY InitInv
<1>2. Inv /\ [Next]_vars => Inv'
  BY NextInv
<1> QED
  BY <1>1, <1>2, PTL DEF Spec

\* However many requests race, a plan points at one of its own revisions.
THEOREM PointerSafe == Spec => []CurrentInPlan
<1>1. Inv => CurrentInPlan
  BY DEF Inv
<1> QED
  BY <1>1, InvHolds, PTL

\* However many requests race, parents come before children in number, so the
\* history of a plan is a forest and no walk along it is endless.
THEOREM HistoryIsAForest == Spec => []ParentNumberedBelow
<1>1. Inv => ParentNumberedBelow
  BY DEF Inv
<1> QED
  BY <1>1, InvHolds, PTL

\* However many requests race, nothing was built on the revision in force.
THEOREM PointerAtLeaf == Spec => []CurrentIsLeaf
<1>1. Inv => CurrentIsLeaf
  BY DEF Inv
<1> QED
  BY <1>1, InvHolds, PTL

\* However many requests race, a reverted revision is never in force again.
THEOREM RevertsRecorded == Spec => []RevertRecorded
<1>1. Inv => RevertRecorded
  BY DEF Inv
<1> QED
  BY <1>1, InvHolds, PTL
-----------------------------------------------------------------------------
\* A client that waits for each answer: its plans are the logs of LinearHistory.

LEMMA AtMostOne ==
  ASSUME NEW S \in SUBSET Requests, Cardinality(S) <= 1
  PROVE  \A q, r \in S : q = r
<1> SUFFICES ASSUME NEW q \in S, NEW r \in S, q # r PROVE FALSE
  OBVIOUS
<1>1. IsFiniteSet(S) /\ Cardinality(S) \in Nat
  BY RequestsAssumption, FS_Subset, FS_CardinalityType
<1>2. Cardinality({q} \cup {r}) <= Cardinality(S)
  BY <1>1, FS_Subset
<1>3. IsFiniteSet({q}) /\ Cardinality({q}) = 1 /\ r \notin {q}
  BY FS_Singleton
<1>4. Cardinality({q} \cup {r}) = Cardinality({q}) + 1
  BY <1>3, FS_AddElement
<1> QED
  BY <1>1, <1>2, <1>3, <1>4

\* A step that commits nothing.
LEMMA WaitingQuiet ==
  ASSUME WaitingInv, Waits, UNCHANGED database, \A q, r \in InFlight' : q = r,
         \A q \in InFlight' :
           (q \in InFlight /\ tx'[q] = tx[q] /\ pc'[q] = pc[q]) \/ RequestKnows(q)'
  PROVE  WaitingInv'
<1>1. \A p : RevisionsOf(p)' = RevisionsOf(p)
  BY DEF database, RevisionsOf
<1>2. \A p \in plans' : LinearPlan(p)'
  BY <1>1 DEF database, WaitingInv, LinearPlan
<1>3. ASSUME NEW q \in InFlight' PROVE RequestKnows(q)'
  <2>1. CASE q \in InFlight /\ tx'[q] = tx[q] /\ pc'[q] = pc[q]
    <3>1. RequestKnows(q)
      BY <2>1 DEF WaitingInv
    <3> QED
      BY <1>1, <2>1, <3>1 DEF database, RequestKnows
  <2> QED
    BY <1>3, <2>1
<1> QED
  BY <1>2, <1>3 DEF WaitingInv

\* The commit of a revision: it is the next of its plan, on top of the one in force.
LEMMA LinearCommit ==
  ASSUME Inv, WaitingInv, Waits, NEW r \in Requests, CommitRevision(r), NEW t, t = tx[r]
  PROVE  /\ t.no = Cardinality(RevisionsOf(t.plan)) + 1
         /\ t.kind = "initial" => /\ RevisionsOf(t.plan) = {} /\ t.seen = None
                                  /\ Cardinality(RevisionsOf(t.plan)) = 0
         /\ t.kind # "initial" => /\ t.seen = current[t.plan] /\ t.seen \in RevisionsOf(t.plan)
                                  /\ LinearPlan(t.plan) /\ t.plan \in plans
                                  /\ Cardinality(RevisionsOf(t.plan)) >= 1
<1>1. pc[r] = "numbered" /\ r \in InFlight
  BY DEF CommitRevision, InFlight
<1>2. RequestKnows(r) /\ RequestSound(r)
  BY <1>1 DEF WaitingInv, Inv, RequestsSound
<1>3. t.no = Cardinality(RevisionsOf(t.plan)) + 1
  BY <1>1, <1>2 DEF RequestKnows
<1>4. ASSUME t.kind = "initial"
      PROVE  /\ RevisionsOf(t.plan) = {} /\ t.seen = None
             /\ Cardinality(RevisionsOf(t.plan)) = 0
  <2>1. t.plan = r /\ t.seen = None
    BY <1>1, <1>2, <1>4 DEF RequestSound
  <2>2. r \notin revisions
    BY CommitEffects
  <2>3. RevisionsOf(t.plan) = {}
    BY <2>1, <2>2 DEF Inv, RowsSound, RevisionsOf
  <2> QED
    BY <2>1, <2>3, FS_EmptySet
<1>5. ASSUME t.kind # "initial"
      PROVE  /\ t.seen = current[t.plan] /\ t.seen \in RevisionsOf(t.plan)
             /\ LinearPlan(t.plan) /\ t.plan \in plans
             /\ Cardinality(RevisionsOf(t.plan)) >= 1
  <2>1. t.seen = current[t.plan] /\ t.seen \in RevisionsOf(t.plan) /\ t.plan \in plans
    BY <1>1, <1>2, <1>5 DEF RequestKnows, RequestSound
  <2>2. row[t.seen].no \in 1..Cardinality(RevisionsOf(t.plan))
    BY <2>1 DEF Inv, RowsSound
  <2>3. Cardinality(RevisionsOf(t.plan)) \in Nat
    BY CommitEffects
  <2>4. LinearPlan(t.plan)
    BY <2>1 DEF WaitingInv
  <2> QED
    BY <2>1, <2>2, <2>3, <2>4
<1> QED
  BY <1>3, <1>4, <1>5

LEMMA WaitingCommit ==
  ASSUME Inv, WaitingInv, Waits, NEW r \in Requests, CommitRevision(r), NEW t, t = tx[r]
  PROVE  WaitingInv'
<1> DEFINE card(p) == Cardinality(RevisionsOf(p))
<1>0. /\ plans' = plans \cup {t.plan} /\ current' = [current EXCEPT ![t.plan] = r]
      /\ pc' = [pc EXCEPT ![r] = "ended"] /\ pc[r] = "numbered"
      /\ t.plan \in Requests /\ r \notin revisions /\ r # None
      /\ row'[r] = NewRow(r)
      /\ \A v \in Requests \ {r} : row'[v].no = row[v].no /\ row'[v].parent = row[v].parent
      /\ revisions \subseteq Requests /\ plans \subseteq Requests
      /\ \A p : card(p) \in Nat
  BY CommitEffects
<1>1. /\ RevisionsOf(t.plan)' = RevisionsOf(t.plan) \cup {r}
      /\ \A p \in Requests \ {t.plan} : RevisionsOf(p)' = RevisionsOf(p)
      /\ card(t.plan)' = card(t.plan) + 1
      /\ \A p \in Requests \ {t.plan} : card(p)' = card(p)
  BY CommitEffects
<1>2. /\ t.no = card(t.plan) + 1
      /\ t.kind = "initial" => /\ RevisionsOf(t.plan) = {} /\ t.seen = None
                               /\ card(t.plan) = 0
      /\ t.kind # "initial" => /\ t.seen = current[t.plan] /\ t.seen \in RevisionsOf(t.plan)
                               /\ LinearPlan(t.plan) /\ t.plan \in plans
                               /\ card(t.plan) >= 1
  BY LinearCommit
<1>3. row'[r].no = t.no /\ row'[r].parent = t.seen
  BY <1>0 DEF NewRow
<1>4. InFlight' = {}
  <2>1. \A q \in Requests \ {r} : pc'[q] = pc[q]
    BY <1>0 DEF Inv, TypeOK
  <2>2. pc'[r] = "ended"
    BY <1>0 DEF Inv, TypeOK
  <2> QED
    BY <1>0, <2>1, <2>2 DEF WaitingInv, InFlight
<1>5. ASSUME NEW p \in plans', p # t.plan PROVE LinearPlan(p)'
  <2>1. /\ p \in plans /\ p \in Requests /\ current'[p] = current[p] /\ LinearPlan(p)
        /\ RevisionsOf(p)' = RevisionsOf(p) /\ card(p)' = card(p)
        /\ current[p] \in RevisionsOf(p)
    BY <1>0, <1>1, <1>5 DEF WaitingInv, Inv, TypeOK, CurrentInPlan
  <2>2. \A v \in RevisionsOf(p) : v \in Requests \ {r}
    BY <1>0 DEF RevisionsOf
  <2> QED
    BY <1>0, <2>1, <2>2 DEF LinearPlan
<1>6. LinearPlan(t.plan)'
  <2>1. \A v \in RevisionsOf(t.plan) :
          /\ v # r /\ row'[v].no = row[v].no /\ row'[v].parent = row[v].parent
          /\ t.kind # "initial" /\ row[v].no \in 1..card(t.plan)
    BY <1>0, <1>2 DEF RevisionsOf, Inv, RowsSound
  <2>2. current'[t.plan] = r
    BY <1>0 DEF Inv, TypeOK
  <2>3. ASSUME NEW v \in RevisionsOf(t.plan)', NEW w \in RevisionsOf(t.plan)',
               row'[v].no = row'[w].no
        PROVE  v = w
    BY <1>0, <1>1, <1>2, <1>3, <2>1, <2>3 DEF LinearPlan
  <2>4. ASSUME NEW n \in 1..card(t.plan)'
        PROVE  \E v \in RevisionsOf(t.plan)' : row'[v].no = n
    <3>1. CASE n = t.no
      BY <1>1, <1>3, <3>1
    <3>2. CASE n # t.no
      <4>1. n \in 1..card(t.plan) /\ t.kind # "initial"
        BY <1>0, <1>1, <1>2, <3>2
      <4>2. PICK v \in RevisionsOf(t.plan) : row[v].no = n
        BY <1>2, <4>1 DEF LinearPlan
      <4> QED
        BY <1>1, <2>1, <4>2
    <3> QED
      BY <3>1, <3>2
  <2>5. row'[current'[t.plan]].no = card(t.plan)'
    BY <1>1, <1>2, <1>3, <2>2
  <2>6. ASSUME NEW v \in RevisionsOf(t.plan)'
        PROVE  IF row'[v].no = 1 THEN row'[v].parent = None
               ELSE /\ row'[v].parent \in RevisionsOf(t.plan)'
                    /\ row'[row'[v].parent].no + 1 = row'[v].no
    <3>1. CASE v = r
      <4>1. CASE t.kind = "initial"
        BY <1>2, <1>3, <3>1, <4>1
      <4>2. CASE t.kind # "initial"
        <5>1. row[t.seen].no = card(t.plan) /\ row'[t.seen].no = row[t.seen].no
          BY <1>2, <2>1, <4>2 DEF LinearPlan
        <5> QED
          BY <1>0, <1>1, <1>2, <1>3, <3>1, <4>2, <5>1
      <4> QED
        BY <4>1, <4>2
    <3>2. CASE v # r
      <4>1. v \in RevisionsOf(t.plan) /\ LinearPlan(t.plan)
        BY <1>1, <1>2, <2>1, <3>2
      <4> QED
        BY <1>1, <2>1, <4>1 DEF LinearPlan
    <3> QED
      BY <3>1, <3>2
  <2> QED
    BY <2>3, <2>4, <2>5, <2>6 DEF LinearPlan
<1> QED
  BY <1>0, <1>4, <1>5, <1>6 DEF WaitingInv

\* A read when no other request is open: what it found is what there is.
LEMMA WaitingRead ==
  ASSUME Inv, WaitingInv, Waits, NEW r \in Requests, NEW t, Read(r, t),
         \A p, q \in InFlight' : p = q,
         t.kind # "initial" => t.seen = current[t.plan],
         t.kind = "user_override" =>
           row[t.seen].parent # None /\ t.draft = items[row[t.seen].parent],
         t.kind \in {"initial", "patch"} => PlannerDraft(t.draft)
  PROVE  WaitingInv'
<1>1. UNCHANGED database /\ tx'[r] = t /\ pc'[r] = "read"
  BY DEF Read, Inv, TypeOK
<1>2. \A q \in InFlight' : q = r
  BY <1>1 DEF InFlight
<1>3. ASSUME t.kind \in {"initial", "patch"}
      PROVE  \A w \in revisions, a \in Activities :
               items[w][a] = "done" => t.draft[a] = "absent"
  <2>1. PICK offered \in SUBSET (Activities \ Completed) :
          t.draft = [a \in Activities |-> IF a \in offered THEN "planned" ELSE "absent"]
    BY <1>3 DEF PlannerDraft
  <2>2. ASSUME NEW w \in revisions, NEW a \in Activities, items[w][a] = "done"
        PROVE  t.draft[a] = "absent"
    <3>1. a \in Completed
      BY <2>2 DEF Completed
    <3> QED
      BY <2>1, <3>1
  <2> QED
    BY <2>2
<1>4. RequestKnows(r)'
  BY <1>1, <1>3 DEF RequestKnows, database
<1> QED
  BY <1>1, <1>2, <1>4, WaitingQuiet

LEMMA WaitingInit == MCInit => WaitingInv
BY DEF MCInit, Init, WaitingInv, InFlight

LEMMA WaitingNext ==
  Inv /\ WaitingInv /\ [MCNext]_<<vars, client>> => WaitingInv'
<1> SUFFICES ASSUME Inv, WaitingInv, [MCNext]_<<vars, client>> PROVE WaitingInv'
  OBVIOUS
<1>1. CASE ~Waits
  BY <1>1 DEF MCNext, Waits, WaitingInv
<1>2. CASE Waits /\ UNCHANGED vars
  <2>1. UNCHANGED <<database, tx, pc>> /\ InFlight' = InFlight
    BY <1>2 DEF vars, database, InFlight
  <2>2. \A q, r \in InFlight' : q = r
    BY <1>2, <2>1 DEF WaitingInv
  <2> QED
    BY <1>2, <2>1, <2>2, WaitingQuiet
<1>3. CASE Waits /\ Next /\ ~UNCHANGED vars
  <2>1. \A p, q \in InFlight' : p = q
    <3>1. Cardinality(InFlight') <= 1
      BY <1>3 DEF MCNext, vars
    <3>2. InFlight' \in SUBSET Requests
      BY DEF InFlight
    <3> QED
      BY <3>1, <3>2, AtMostOne
  <2>2. ASSUME NEW r \in Requests, Begin(r) PROVE WaitingInv'
    <3>1. UNCHANGED <<database, tx>> /\ pc' = [pc EXCEPT ![r] = "begun"]
      BY <2>2 DEF Begin
    <3>2. \A q \in InFlight' : (q \in InFlight /\ tx'[q] = tx[q] /\ pc'[q] = pc[q])
                               \/ RequestKnows(q)'
      BY <3>1 DEF InFlight, RequestKnows, Inv, TypeOK
    <3> QED
      BY <1>3, <2>1, <3>1, <3>2, WaitingQuiet
  <2>3. ASSUME NEW r \in Requests, Rollback(r) PROVE WaitingInv'
    <3>1. /\ UNCHANGED database /\ pc' = [pc EXCEPT ![r] = "ended"]
          /\ tx' = [tx EXCEPT ![r] = NoTx]
      BY <2>3 DEF Rollback, End
    <3>2. \A q \in InFlight' : q \in InFlight /\ tx'[q] = tx[q] /\ pc'[q] = pc[q]
      BY <3>1 DEF InFlight, Inv, TypeOK
    <3> QED
      BY <1>3, <2>1, <3>1, <3>2, WaitingQuiet
  <2>4. ASSUME NEW r \in Requests, ReadForCreate(r) PROVE WaitingInv'
    <3>1. PICK d \in Content :
            /\ PlannerDraft(d)
            /\ Read(r, [kind |-> "initial", plan |-> r, seen |-> None, no |-> 0, draft |-> d])
      BY <2>4 DEF ReadForCreate
    <3> QED
      BY <1>3, <2>1, <3>1, WaitingRead
  <2>5. ASSUME NEW r \in Requests, ReadForPatch(r) PROVE WaitingInv'
    <3>1. PICK p \in plans, d \in Content :
            /\ PlannerDraft(d)
            /\ Read(r, [kind |-> "patch", plan |-> p, seen |-> current[p], no |-> 0, draft |-> d])
      BY <2>5 DEF ReadForPatch
    <3> QED
      BY <1>3, <2>1, <3>1, WaitingRead
  <2>6. ASSUME NEW r \in Requests, ReadForReflection(r) PROVE WaitingInv'
    <3>1. PICK p \in plans, d \in Content :
            Read(r, [kind |-> "reflection", plan |-> p, seen |-> current[p], no |-> 0,
                     draft |-> d])
      BY <2>6 DEF ReadForReflection
    <3> QED
      BY <1>3, <2>1, <3>1, WaitingRead
  <2>7. ASSUME NEW r \in Requests, ReadForRevert(r) PROVE WaitingInv'
    <3>1. PICK p \in plans, v \in revisions :
            /\ current[p] = v
            /\ row[v].parent \in revisions
            /\ Read(r, [kind |-> "user_override", plan |-> p, seen |-> v, no |-> 0,
                        draft |-> items[row[v].parent]])
      BY <2>7 DEF ReadForRevert
    <3>2. row[v].parent # None
      BY <3>1, NoneAssumption DEF Inv, TypeOK
    <3> QED
      BY <1>3, <2>1, <3>1, <3>2, WaitingRead
  <2>8. ASSUME NEW r \in Requests, ReadForMark(r) PROVE WaitingInv'
    <3>1. PICK p \in plans, a \in Activities, s \in ItemStatus :
            Read(r, [kind |-> "mark", plan |-> p, seen |-> current[p], no |-> 0,
                     draft |-> [EmptyContent EXCEPT ![a] = s]])
      BY <2>8 DEF ReadForMark
    <3> QED
      BY <1>3, <2>1, <3>1, WaitingRead
  <2>9. ASSUME NEW r \in Requests, Number(r) PROVE WaitingInv'
    <3>1. /\ UNCHANGED database /\ pc' = [pc EXCEPT ![r] = "numbered"] /\ pc[r] = "read"
          /\ tx' = [tx EXCEPT ![r] = [tx[r] EXCEPT !.no = NextNumber(tx[r].plan)]]
      BY <2>9 DEF Number, Inv, TypeOK
    <3>2. r \in InFlight /\ tx[r] \in Transaction
      BY <3>1 DEF InFlight, Inv, TypeOK
    <3>3. /\ tx'[r].no = NextNumber(tx[r].plan) /\ tx'[r].kind = tx[r].kind
          /\ tx'[r].plan = tx[r].plan /\ tx'[r].seen = tx[r].seen
          /\ tx'[r].draft = tx[r].draft /\ pc'[r] = "numbered"
      BY <3>1, <3>2 DEF Transaction, Inv, TypeOK
    <3>4. RequestKnows(r)
      BY <1>3, <3>2 DEF WaitingInv
    <3>5. \A p : RevisionsOf(p)' = RevisionsOf(p)
      BY <3>1 DEF database, RevisionsOf
    <3>6. Cardinality(RevisionsOf(tx[r].plan))' = Cardinality(RevisionsOf(tx[r].plan))
      BY <3>3, <3>5
    <3>7. RequestKnows(r)'
      BY <3>1, <3>3, <3>4, <3>6 DEF database, RequestKnows, NextNumber
    <3>8. \A q \in InFlight' : q = r
      BY <2>1, <3>3 DEF InFlight
    <3> QED
      BY <1>3, <2>1, <3>1, <3>7, <3>8, WaitingQuiet
  <2>10. ASSUME NEW r \in Requests, CommitRevision(r) PROVE WaitingInv'
    BY <1>3, <2>10, WaitingCommit
  <2>11. ASSUME NEW r \in Requests, CommitMark(r) PROVE WaitingInv'
    <3>1. /\ UNCHANGED <<plans, current, revisions, row>> /\ pc[r] = "read"
          /\ pc' = [pc EXCEPT ![r] = "ended"]
      BY <2>11 DEF CommitMark, End
    <3>2. InFlight' = {}
      BY <1>3, <3>1 DEF WaitingInv, InFlight, Inv, TypeOK
    <3>3. \A p : RevisionsOf(p)' = RevisionsOf(p)
      BY <3>1 DEF RevisionsOf
    <3>4. \A p \in plans' : LinearPlan(p)'
      BY <1>3, <3>1, <3>3 DEF WaitingInv, LinearPlan
    <3> QED
      BY <3>2, <3>4 DEF WaitingInv
  <2> QED
    BY <1>3, <2>2, <2>3, <2>4, <2>5, <2>6, <2>7, <2>8, <2>9, <2>10, <2>11 DEF Next
<1> QED
  BY <1>1, <1>2, <1>3 DEF MCNext

LEMMA WaitingHolds == MCSpec => [](Inv /\ WaitingInv)
<1> DEFINE J == Inv /\ WaitingInv
<1>1. MCInit => J
  BY InitInv, WaitingInit DEF MCInit
<1>2. J /\ [MCNext]_<<vars, client>> => J'
  <2>1. [MCNext]_<<vars, client>> => [Next]_vars
    BY DEF MCNext
  <2> QED
    BY <2>1, NextInv, WaitingNext
<1> QED
  BY <1>1, <1>2, PTL DEF MCSpec

\* Only a commit adds a revision, and what a plan of the planner offers was not
\* finished when it was drafted.
LEMMA NotOfferedStep ==
  Inv /\ WaitingInv /\ [MCNext]_<<vars, client>> => [Waits => FinishedNotOffered]_vars
<1> SUFFICES ASSUME Inv, WaitingInv, Next, Waits PROVE FinishedNotOffered
  BY DEF MCNext
<1>1. ASSUME NEW r \in Requests, CommitRevision(r) PROVE FinishedNotOffered
  <2>1. PICK t : t = tx[r]
    OBVIOUS
  <2>2. /\ pc[r] = "numbered" /\ revisions' = revisions \cup {r}
        /\ items' = [items EXCEPT ![r] = t.draft] /\ row'[r] = NewRow(r)
    BY <1>1, <2>1, CommitEffects
  <2>3. items'[r] = t.draft /\ row'[r].cause = t.kind
    BY <2>1, <2>2 DEF Inv, TypeOK, NewRow
  <2>4. RequestKnows(r)
    BY <2>2 DEF WaitingInv, InFlight
  <2>5. t.kind \in {"initial", "patch"} =>
          \A w \in revisions, a \in Activities : items[w][a] = "done" => t.draft[a] = "absent"
    BY <2>1, <2>2, <2>4 DEF RequestKnows
  <2> QED
    BY <2>2, <2>3, <2>5 DEF FinishedNotOffered
<1>2. CASE UNCHANGED revisions
  BY <1>2 DEF FinishedNotOffered
<1>3. ASSUME NEW r \in Requests, NEW t, Read(r, t) PROVE UNCHANGED revisions
  BY <1>3 DEF Read, database
<1>4. Next => UNCHANGED revisions \/ \E r \in Requests : CommitRevision(r)
  BY <1>3 DEF Next, Begin, Rollback, ReadForCreate, ReadForPatch, ReadForReflection,
              ReadForRevert, ReadForMark, Number, CommitMark, database
<1> QED
  BY <1>1, <1>2, <1>4

\* For a client that waits, a plan the planner drafts never offers a session the
\* learner has finished.
THEOREM FinishedNeverOffered == MCSpec => WaitingFinishedNotOfferedAgain
BY WaitingHolds, NotOfferedStep, PTL DEF MCSpec, WaitingFinishedNotOfferedAgain

-----------------------------------------------------------------------------
\* The refinement of LinearHistory.

\* A function on 1..n is a sequence of that length.
LEMMA IsLog ==
  ASSUME NEW n \in Nat, NEW s, DOMAIN s = 1..n, s = [i \in 1..n |-> s[i]],
         NEW S, \A i \in 1..n : s[i] \in S
  PROVE  s \in Seq(S) /\ Len(s) = n
<1>1. s \in [1..n -> S]
  OBVIOUS
<1>2. s \in Seq(S)
  BY <1>1, SeqDef
<1>3. Len(s) \in Nat /\ DOMAIN s = 1..Len(s)
  BY <1>2, LenProperties
<1>4. 1..Len(s) = 1..n
  BY <1>3
<1>5. Len(s) = n
  <2>1. ASSUME Len(s) < n PROVE FALSE
    BY <1>3, <1>4, <2>1
  <2>2. ASSUME n < Len(s) PROVE FALSE
    BY <1>3, <1>4, <2>2
  <2> QED
    BY <1>3, <2>1, <2>2
<1> QED
  BY <1>2, <1>5

\* A log one entry longer, and otherwise the same, is the log with that entry appended.
LEMMA IsAppended ==
  ASSUME NEW n \in Nat, NEW s, DOMAIN s = 1..n, s = [i \in 1..n |-> s[i]],
         NEW u, DOMAIN u = 1..n + 1, u = [i \in 1..n + 1 |-> u[i]],
         \A i \in 1..n : u[i] = s[i]
  PROVE  u = Append(s, u[n + 1]) /\ Len(s) = n
<1> DEFINE S == {u[i] : i \in 1..n + 1}
           e == u[n + 1]
<1>1. s \in Seq(S) /\ Len(s) = n
  <2>1. \A i \in 1..n : s[i] \in S
    OBVIOUS
  <2> HIDE DEF S
  <2> QED
    BY <2>1, IsLog
<1>2. u \in Seq(S) /\ Len(u) = n + 1
  <2>1. \A i \in 1..n + 1 : u[i] \in S
    OBVIOUS
  <2>2. n + 1 \in Nat
    OBVIOUS
  <2> HIDE DEF S
  <2> QED
    BY <2>1, <2>2, IsLog
<1>3. e \in S
  OBVIOUS
<1> HIDE DEF S
<1>4. /\ Append(s, e) \in Seq(S) /\ Len(Append(s, e)) = n + 1
      /\ \A i \in 1..n : Append(s, e)[i] = s[i]
      /\ Append(s, e)[n + 1] = e
  BY <1>1, <1>3, AppendProperties
<1>5. ASSUME NEW i \in 1..Len(u) PROVE u[i] = Append(s, e)[i]
  <2>1. CASE i = n + 1
    BY <1>4, <2>1 DEF e
  <2>2. CASE i # n + 1
    <3>1. i \in 1..n
      BY <1>2, <2>2
    <3> QED
      BY <1>4, <3>1
  <2> QED
    BY <2>1, <2>2
<1>6. Len(u) = Len(Append(s, e))
  BY <1>2, <1>4
<1> HIDE DEF e
<1>7. u = Append(s, e)
  BY <1>2, <1>4, <1>5, <1>6, SeqEqual
<1> QED
  BY <1>1, <1>7 DEF e

\* The entry of a revision stands at its number.
LEMMA TheRevision ==
  ASSUME NEW S, NEW rows, NEW v \in S, NEW n, rows[v].no = n,
         \A w \in S : rows[w].no = n => w = v
  PROVE  (CHOOSE w \in S : rows[w].no = n) = v
OBVIOUS

\* The log of a plan holds each of its revisions at its number, and no other.
LogIs(p) ==
  /\ \A v \in RevisionsOf(p) : row[v].no \in DOMAIN LogOf(p) /\ LogOf(p)[row[v].no] = EntryOf(v)
  /\ \A n \in DOMAIN LogOf(p) : \E v \in RevisionsOf(p) : row[v].no = n
LogsAre == \A p \in Requests : LogIs(p)

LEMMA NoPlanNoRevisions ==
  ASSUME Inv, NEW p, p \notin plans
  PROVE  RevisionsOf(p) = {} /\ Cardinality(RevisionsOf(p)) = 0
<1>1. RevisionsOf(p) = {}
  BY DEF Inv, RowsSound, RevisionsOf
<1> QED
  BY <1>1, FS_EmptySet

LEMMA LogsNow == Inv /\ WaitingInv /\ Waits => LogsAre
<1> SUFFICES ASSUME Inv, WaitingInv, Waits, NEW p \in Requests PROVE LogIs(p)
  BY DEF LogsAre
<1>1. CASE p \notin plans
  <2>1. RevisionsOf(p) = {} /\ Cardinality(RevisionsOf(p)) = 0
    BY <1>1, NoPlanNoRevisions
  <2>2. DOMAIN LogOf(p) = {}
    BY <2>1 DEF LogOf
  <2> QED
    BY <2>1, <2>2 DEF LogIs
<1>2. CASE p \in plans
  <2>1. LinearPlan(p)
    BY <1>2 DEF WaitingInv
  <2>2. ASSUME NEW v \in RevisionsOf(p)
        PROVE  row[v].no \in DOMAIN LogOf(p) /\ LogOf(p)[row[v].no] = EntryOf(v)
    <3>1. row[v].no \in 1..Cardinality(RevisionsOf(p))
      BY <1>2 DEF Inv, RowsSound
    <3>2. \A w \in RevisionsOf(p) : row[w].no = row[v].no => w = v
      BY <2>1 DEF LinearPlan
    <3>3. PICK n : n = row[v].no
      OBVIOUS
    <3>4. (CHOOSE w \in RevisionsOf(p) : row[w].no = n) = v
      BY <3>2, <3>3, TheRevision
    <3>5. LogOf(p)[n] = EntryOf(CHOOSE w \in RevisionsOf(p) : row[w].no = n)
      BY <3>1, <3>3 DEF LogOf
    <3>6. LogOf(p)[n] = EntryOf(v)
      BY <3>4, <3>5
    <3> QED
      BY <3>1, <3>3, <3>6 DEF LogOf
  <2>3. \A n \in DOMAIN LogOf(p) : \E v \in RevisionsOf(p) : row[v].no = n
    BY <2>1 DEF LinearPlan, LogOf
  <2> QED
    BY <2>2, <2>3 DEF LogIs
<1> QED
  BY <1>1, <1>2

LEMMA LogsThen == Inv' /\ WaitingInv' /\ Waits' => LogsAre'
BY LogsNow, PTL

\* The entries a step does not touch stay where they are.
LEMMA SameEntries ==
  ASSUME LogsAre, LogsAre', NEW p \in Requests, NEW n \in DOMAIN LogOf(p),
         \A v \in RevisionsOf(p) : v \in RevisionsOf(p)' /\ row'[v].no = row[v].no,
         NEW v \in RevisionsOf(p), row[v].no = n
  PROVE  LogOf(p)[n] = EntryOf(v) /\ LogOf(p)'[n] = EntryOf(v)'
BY DEF LogsAre, LogIs

LEMMA SameLog ==
  ASSUME LogsAre, LogsAre', NEW p \in Requests,
         Cardinality(RevisionsOf(p))' = Cardinality(RevisionsOf(p)),
         \A v \in RevisionsOf(p) : v \in RevisionsOf(p)' /\ EntryOf(v)' = EntryOf(v)
  PROVE  LogOf(p)' = LogOf(p)
<1>1. \A v \in RevisionsOf(p) : row'[v].no = row[v].no
  BY DEF EntryOf
<1>2. DOMAIN LogOf(p)' = DOMAIN LogOf(p)
  BY DEF LogOf
<1>3. ASSUME NEW n \in DOMAIN LogOf(p) PROVE LogOf(p)'[n] = LogOf(p)[n]
  <2>1. PICK v \in RevisionsOf(p) : row[v].no = n
    BY DEF LogsAre, LogIs
  <2>2. LogOf(p)[n] = EntryOf(v) /\ LogOf(p)'[n] = EntryOf(v)'
    BY <1>1, <2>1, SameEntries
  <2> QED
    BY <2>2
<1>4. /\ LogOf(p) = [n \in DOMAIN LogOf(p) |-> LogOf(p)[n]]
      /\ LogOf(p)' = [n \in DOMAIN LogOf(p)' |-> LogOf(p)'[n]]
  BY DEF LogOf
<1> QED
  BY <1>2, <1>3, <1>4

LEMMA LogShape ==
  ASSUME NEW p
  PROVE  /\ DOMAIN LogOf(p) = 1..Cardinality(RevisionsOf(p))
         /\ LogOf(p) = [n \in 1..Cardinality(RevisionsOf(p)) |-> LogOf(p)[n]]
BY DEF LogOf

\* What a log the commit of revision r extends becomes.
LEMMA ExtendedLog ==
  ASSUME Inv, WaitingInv, Waits, LogsAre, LogsAre', NEW r \in Requests,
         CommitRevision(r), NEW t, t = tx[r]
  PROVE  /\ \A p \in Requests \ {t.plan} : LogOf(p)' = LogOf(p)
         /\ Len(LogOf(t.plan)) = Cardinality(RevisionsOf(t.plan))
         /\ LogOf(t.plan)' = Append(LogOf(t.plan),
              [id |-> r, no |-> t.no, parent |-> t.seen, cause |-> t.kind, content |-> t.draft])
<1> DEFINE card(p) == Cardinality(RevisionsOf(p))
           e == [id |-> r, no |-> t.no, parent |-> t.seen, cause |-> t.kind, content |-> t.draft]
<1>1. /\ items' = [items EXCEPT ![r] = t.draft]
      /\ t.plan \in Requests /\ r \notin revisions
      /\ row'[r] = NewRow(r)
      /\ \A v \in Requests \ {r} :
           row'[v].no = row[v].no /\ row'[v].parent = row[v].parent
             /\ row'[v].cause = row[v].cause
      /\ revisions \subseteq Requests
  BY CommitEffects
<1>2. /\ RevisionsOf(t.plan)' = RevisionsOf(t.plan) \cup {r}
      /\ \A p \in Requests \ {t.plan} : RevisionsOf(p)' = RevisionsOf(p)
      /\ \A p : card(p) \in Nat
      /\ card(t.plan)' = card(t.plan) + 1
      /\ \A p \in Requests \ {t.plan} : card(p)' = card(p)
  BY CommitEffects
<1>3. t.no = card(t.plan) + 1
  BY LinearCommit
<1>4. \A v \in revisions : EntryOf(v)' = EntryOf(v)
  BY <1>1 DEF EntryOf, Inv, TypeOK
<1>5. EntryOf(r)' = e
  BY <1>1 DEF EntryOf, NewRow, Inv, TypeOK
<1>6. \A p : RevisionsOf(p) \subseteq revisions
  BY DEF RevisionsOf
<1>7. ASSUME NEW p \in Requests \ {t.plan} PROVE LogOf(p)' = LogOf(p)
  BY <1>2, <1>4, <1>6, SameLog
<1>8. PICK p \in Requests : p = t.plan
  BY <1>1
<1> DEFINE s == LogOf(p)
           u == LogOf(p)'
           n == card(p)
<1>9. /\ n \in Nat /\ card(p)' = n + 1
      /\ DOMAIN s = 1..n /\ s = [i \in 1..n |-> s[i]]
      /\ DOMAIN u = 1..n + 1 /\ u = [i \in 1..n + 1 |-> u[i]]
  <2>1. n \in Nat /\ card(p)' = n + 1
    BY <1>2, <1>8
  <2>2. DOMAIN s = 1..n /\ s = [i \in 1..n |-> s[i]]
    BY LogShape
  <2>3. DOMAIN u = 1..card(p)' /\ u = [i \in 1..card(p)' |-> u[i]]
    BY DEF LogOf
  <2> QED
    BY <2>1, <2>2, <2>3
<1>10. ASSUME NEW i \in 1..n PROVE u[i] = s[i]
  <2>1. PICK v \in RevisionsOf(p) : row[v].no = i
    BY <1>9 DEF LogsAre, LogIs
  <2>2. \A w \in RevisionsOf(p) : w \in RevisionsOf(p)' /\ row'[w].no = row[w].no
    BY <1>1, <1>2, <1>6, <1>8
  <2>3. s[i] = EntryOf(v) /\ u[i] = EntryOf(v)'
    BY <1>9, <2>1, <2>2, SameEntries
  <2> QED
    BY <1>4, <1>6, <2>3
<1>11. u[n + 1] = e
  <2>1. r \in RevisionsOf(p)' /\ row'[r].no = n + 1
    BY <1>1, <1>2, <1>3, <1>8 DEF NewRow
  <2>2. u[row'[r].no] = EntryOf(r)'
    BY <2>1 DEF LogsAre, LogIs
  <2> QED
    BY <1>5, <2>1, <2>2
<1> HIDE DEF s, u, n, e
<1>12. u = Append(s, e) /\ Len(s) = n
  BY <1>9, <1>10, <1>11, IsAppended
<1>13. LogOf(t.plan)' = u /\ LogOf(t.plan) = s /\ card(t.plan) = n
  BY <1>8 DEF s, u, n, LogOf, RevisionsOf
<1> QED
  BY <1>7, <1>12, <1>13 DEF e

Logs == [p \in Requests |-> LogOf(p)]

\* The commit of a revision is one step of LinearHistory: it joins the log.
LEMMA CommitExtends ==
  ASSUME Inv, WaitingInv, Waits, LogsAre, LogsAre', NEW r \in Requests, CommitRevision(r)
  PROVE  Linear!Next
<1>1. PICK t : t = tx[r]
  OBVIOUS
<1> DEFINE p == t.plan
           s == LogOf(p)
           n == Cardinality(RevisionsOf(p))
           e == [id |-> r, no |-> t.no, parent |-> t.seen, cause |-> t.kind, content |-> t.draft]
<1>2. /\ current' = [current EXCEPT ![p] = r] /\ r \notin revisions
      /\ p \in Requests /\ t.kind \in Kinds /\ t.draft \in Content /\ n \in Nat
      /\ pc[r] = "numbered" /\ \A q : Cardinality(RevisionsOf(q)) \in Nat
  BY <1>1, CommitEffects
<1>3. /\ t.no = n + 1
      /\ t.kind = "initial" => t.seen = None /\ n = 0
      /\ t.kind # "initial" => /\ t.seen = current[p] /\ t.seen \in RevisionsOf(p)
                               /\ LinearPlan(p) /\ n >= 1
  BY <1>1, LinearCommit
<1>4. /\ \A q \in Requests \ {p} : LogOf(q)' = LogOf(q)
      /\ Len(s) = n /\ LogOf(p)' = Append(s, e)
  BY <1>1, ExtendedLog
<1>5. DOMAIN s = 1..n /\ s = [i \in 1..n |-> s[i]]
  BY LogShape
<1>6. (s = <<>>) <=> n = 0
  <2>1. s = <<>> => n = 0
    BY <1>4
  <2>2. ASSUME n = 0 PROVE s = <<>>
    <3> DEFINE S == {s[i] : i \in 1..n}
    <3>1. \A i \in 1..n : s[i] \in S
      OBVIOUS
    <3> HIDE DEF S, s, n
    <3>2. s \in Seq(S) /\ Len(s) = n
      BY <1>2, <1>5, <3>1, IsLog
    <3> QED
      BY <2>2, <3>2, EmptySeq
  <2> QED
    BY <2>1, <2>2
<1>7. ASSUME t.kind # "initial" PROVE n \in DOMAIN s /\ s[n] = EntryOf(t.seen)
  <2>1. row[t.seen].no = n
    BY <1>3, <1>7 DEF LinearPlan
  <2> QED
    BY <1>2, <1>3, <1>7, <2>1 DEF LogsAre, LogIs
<1>8. ASSUME t.kind = "user_override"
      PROVE  n > 1 /\ t.draft = s[n - 1].content
  <2> DEFINE v == row[t.seen].parent
  <2>1. v # None /\ t.draft = items[v]
    BY <1>1, <1>2, <1>8 DEF WaitingInv, InFlight, RequestKnows
  <2>2. /\ v \in RevisionsOf(p) /\ row[v].no + 1 = row[t.seen].no
        /\ row[t.seen].no = n
    BY <1>3, <1>8, <2>1 DEF LinearPlan
  <2>3. p \in plans
    BY <1>1, <1>2, <1>8 DEF Inv, RequestsSound, RequestSound
  <2>4. row[v].no \in 1..n
    BY <2>2, <2>3 DEF Inv, RowsSound
  <2>5. row[v].no = n - 1 /\ n > 1
    BY <1>2, <2>2, <2>4
  <2>6. s[row[v].no] = EntryOf(v)
    BY <1>2, <2>2 DEF LogsAre, LogIs
  <2> QED
    BY <2>1, <2>5, <2>6 DEF EntryOf
<1>9. \A q \in Requests : \A i \in DOMAIN LogOf(q) : LogOf(q)[i].id # r
  <2> SUFFICES ASSUME NEW q \in Requests, NEW i \in DOMAIN LogOf(q)
               PROVE  LogOf(q)[i].id # r
    OBVIOUS
  <2>1. PICK v \in RevisionsOf(q) : row[v].no = i
    BY DEF LogsAre, LogIs
  <2>2. LogOf(q)[i] = EntryOf(v)
    BY <2>1 DEF LogsAre, LogIs
  <2> QED
    BY <1>2, <2>1, <2>2 DEF EntryOf, RevisionsOf
<1>10. e = [id |-> r, no |-> Len(s) + 1, cause |-> t.kind, content |-> t.draft,
            parent |-> IF s = <<>> THEN None ELSE s[Len(s)].id]
  <2>1. CASE t.kind = "initial"
    BY <1>3, <1>4, <1>6, <2>1
  <2>2. CASE t.kind # "initial"
    <3>1. s # <<>> /\ s[Len(s)].id = t.seen
      BY <1>2, <1>3, <1>4, <1>6, <1>7, <2>2 DEF EntryOf
    <3> QED
      BY <1>3, <1>4, <3>1
  <2> QED
    BY <2>1, <2>2
<1>11. Logs' = [Logs EXCEPT ![p] = Append(s, e)] /\ Logs[p] = s
  BY <1>2, <1>4 DEF Logs
<1>12. (t.kind = "initial") <=> (s = <<>>)
  BY <1>2, <1>3, <1>6
<1> HIDE DEF p, s, n, e
<1>13. Linear!Extend(p, r, t.kind, t.draft)
  <2>1. ~Linear!Used(r)
    BY <1>9 DEF Linear!Used
  <2>2. t.kind = "user_override" => Len(s) > 1 /\ t.draft = s[Len(s) - 1].content
    BY <1>4, <1>8
  <2> QED
    BY <1>2, <1>10, <1>11, <1>12, <2>1, <2>2 DEF Linear!Extend, Linear!LastOf, Logs
<1> QED
  BY <1>2, <1>13 DEF Linear!Next

\* The commit of a mark changes the last entry of one log.
LEMMA CommitMarks ==
  ASSUME Inv, WaitingInv, Waits, LogsAre, LogsAre', TypeOK', NEW r \in Requests, CommitMark(r)
  PROVE  Linear!Next
<1>1. PICK t : t = tx[r]
  OBVIOUS
<1> DEFINE p == t.plan
           v == t.seen
           s == LogOf(p)
           u == LogOf(p)'
           n == Cardinality(RevisionsOf(p))
           c == items'[v]
<1>2. /\ UNCHANGED <<plans, current, revisions, row>> /\ pc[r] = "read" /\ t.kind = "mark"
      /\ items' = [items EXCEPT ![v] =
                     [a \in Activities |-> IF t.draft[a] # "absent" THEN t.draft[a] ELSE @[a]]]
  BY <1>1 DEF CommitMark
<1>3. p \in plans /\ v \in RevisionsOf(p) /\ p \in Requests /\ v \in Requests
  BY <1>1, <1>2 DEF Inv, RequestsSound, RequestSound, TypeOK, RevisionsOf
<1>4. v = current[p] /\ LinearPlan(p)
  BY <1>1, <1>2, <1>3 DEF WaitingInv, InFlight, RequestKnows
<1>5. row[v].no = n /\ n \in 1..n /\ n \in Nat
  <2>1. n \in Nat
    BY RevisionsFinite DEF Inv
  <2> QED
    BY <1>3, <1>4, <2>1 DEF LinearPlan, Inv, RowsSound
<1>6. c \in Content /\ \A w \in Requests \ {v} : items'[w] = items[w]
  BY <1>2, <1>3 DEF TypeOK
<1>7. \A q : RevisionsOf(q)' = RevisionsOf(q)
  BY <1>2 DEF RevisionsOf
<1>8. \A w \in Requests : EntryOf(w)' = [EntryOf(w) EXCEPT !.content = items'[w]]
  BY <1>2 DEF EntryOf
<1>9. \A w \in Requests \ {v} : EntryOf(w)' = EntryOf(w)
  BY <1>2, <1>6 DEF EntryOf
<1>10. \A q \in Requests \ {p} : LogOf(q)' = LogOf(q)
  <2> SUFFICES ASSUME NEW q \in Requests \ {p} PROVE LogOf(q)' = LogOf(q)
    OBVIOUS
  <2>1. \A w \in RevisionsOf(q) : w \in Requests \ {v}
    BY <1>3 DEF RevisionsOf, Inv, TypeOK
  <2>2. Cardinality(RevisionsOf(q))' = Cardinality(RevisionsOf(q))
    BY <1>7
  <2> QED
    BY <1>7, <1>9, <2>1, <2>2, SameLog
<1>11. /\ DOMAIN s = 1..n /\ s = [i \in 1..n |-> s[i]]
       /\ DOMAIN u = 1..n /\ u = [i \in 1..n |-> u[i]]
  <2>1. DOMAIN s = 1..n /\ s = [i \in 1..n |-> s[i]]
    BY LogShape
  <2>2. DOMAIN u = 1..Cardinality(RevisionsOf(p)') /\ u = [i \in 1..Cardinality(RevisionsOf(p)') |-> u[i]]
    BY DEF LogOf
  <2> QED
    BY <1>7, <2>1, <2>2
<1>12. ASSUME NEW i \in 1..n
       PROVE  u[i] = IF i = n THEN [s[n] EXCEPT !.content = c] ELSE s[i]
  <2>1. PICK w \in RevisionsOf(p) : row[w].no = i
    BY <1>3, <1>11 DEF LogsAre, LogIs
  <2>2. \A q \in RevisionsOf(p) : q \in RevisionsOf(p)' /\ row'[q].no = row[q].no
    BY <1>2, <1>7
  <2>3. s[i] = EntryOf(w) /\ u[i] = EntryOf(w)'
    BY <1>3, <1>11, <2>1, <2>2, SameEntries
  <2>4. w \in Requests
    BY <2>1 DEF RevisionsOf, Inv, TypeOK
  <2>5. w = v <=> i = n
    BY <1>3, <1>4, <1>5, <2>1 DEF LinearPlan
  <2>6. CASE i = n
    BY <1>8, <2>3, <2>4, <2>5, <2>6
  <2>7. CASE i # n
    BY <1>9, <2>3, <2>4, <2>5, <2>7
  <2> QED
    BY <2>6, <2>7
<1>13. Len(s) = n /\ s # <<>>
  <2> DEFINE S == {s[i] : i \in 1..n}
  <2>1. \A i \in 1..n : s[i] \in S
    OBVIOUS
  <2> HIDE DEF S, s, n
  <2>2. s \in Seq(S) /\ Len(s) = n
    BY <1>5, <1>11, <2>1, IsLog
  <2> QED
    BY <1>5, <2>2, EmptySeq
<1> HIDE DEF p, v, s, u, n, c
<1>14. u = [s EXCEPT ![Len(s)] = [s[Len(s)] EXCEPT !.content = c]]
  <2>1. u = [s EXCEPT ![n] = [s[n] EXCEPT !.content = c]]
    BY <1>5, <1>11, <1>12
  <2> QED
    BY <1>13, <2>1
<1>15. Logs' = [Logs EXCEPT ![p] = u] /\ Logs[p] = s
  BY <1>3, <1>10 DEF Logs, u, s
<1>16. Linear!Mark(p, c)
  <2>1. Logs' = [Logs EXCEPT ![p] = [s EXCEPT ![Len(s)] = [s[Len(s)] EXCEPT !.content = c]]]
    BY <1>14, <1>15
  <2> QED
    BY <1>2, <1>13, <1>15, <2>1 DEF Linear!Mark, Logs
<1> QED
  BY <1>3, <1>6, <1>16 DEF Linear!Next

\* Every other step leaves the logs alone.
LEMMA LogsQuiet ==
  ASSUME LogsAre, LogsAre', UNCHANGED database
  PROVE  UNCHANGED <<Logs, current>>
<1>1. \A p \in Requests : RevisionsOf(p)' = RevisionsOf(p)
  BY DEF database, RevisionsOf
<1>2. \A v : EntryOf(v)' = EntryOf(v)
  BY DEF database, EntryOf
<1>3. \A p \in Requests : LogOf(p)' = LogOf(p)
  BY <1>1, <1>2, SameLog
<1> QED
  BY <1>3 DEF Logs, database

LEMMA LinearStep ==
  Inv /\ WaitingInv /\ Inv' /\ WaitingInv' /\ [MCNext]_<<vars, client>> =>
    [Waits => Linear!Next \/ UNCHANGED <<Logs, current>>]_vars
<1> SUFFICES ASSUME Inv, WaitingInv, Inv', WaitingInv', Next, client' = client, Waits
             PROVE  Linear!Next \/ UNCHANGED <<Logs, current>>
  BY DEF MCNext
<1>1. LogsAre
  BY LogsNow
<1>2. LogsAre'
  <2>1. Waits'
    BY DEF Waits
  <2> QED
    BY <2>1, LogsThen
<1>3. ASSUME NEW r \in Requests, CommitRevision(r) PROVE Linear!Next
  BY <1>1, <1>2, <1>3, CommitExtends
<1>4. ASSUME NEW r \in Requests, CommitMark(r) PROVE Linear!Next
  BY <1>1, <1>2, <1>4, CommitMarks DEF Inv
<1>5. CASE UNCHANGED database
  BY <1>1, <1>2, <1>5, LogsQuiet
<1>6. ASSUME NEW r \in Requests, NEW t, Read(r, t) PROVE UNCHANGED database
  BY <1>6 DEF Read
<1>7. UNCHANGED database \/ \E r \in Requests : CommitRevision(r) \/ CommitMark(r)
  BY <1>6 DEF Next, Begin, Rollback, ReadForCreate, ReadForPatch, ReadForReflection,
              ReadForRevert, ReadForMark, Number
<1> QED
  BY <1>3, <1>4, <1>5, <1>7

LEMMA LinearStart == MCInit => Linear!Init
<1> SUFFICES ASSUME MCInit PROVE Linear!Init
  OBVIOUS
<1>1. \A p : RevisionsOf(p) = {}
  BY DEF MCInit, Init, RevisionsOf
<1>2. ASSUME NEW p \in Requests PROVE LogOf(p) = <<>>
  <2>1. Cardinality(RevisionsOf(p)) = 0
    BY <1>1, FS_EmptySet
  <2>2. DOMAIN LogOf(p) = 1..0 /\ LogOf(p) = [n \in 1..0 |-> LogOf(p)[n]]
    BY <2>1, LogShape
  <2>3. LogOf(p) \in Seq({}) /\ Len(LogOf(p)) = 0
    <3>1. \A i \in 1..0 : LogOf(p)[i] \in {}
      OBVIOUS
    <3> QED
      BY <2>2, <3>1, IsLog
  <2> QED
    BY <2>3, EmptySeq
<1> QED
  BY <1>2 DEF MCInit, Init, Linear!Init

\* The plans of a client that waits are the linear logs of LinearHistory: every
\* step of the code is a step of the log, or changes nothing the log shows.
THEOREM LinearHistoryImplemented == MCSpec => ImplementsLinearHistory
<1>1. MCInit => Linear!Init
  BY LinearStart
<1>2. Inv /\ WaitingInv /\ Inv' /\ WaitingInv' /\ [MCNext]_<<vars, client>> =>
        [Waits => Linear!Next \/ UNCHANGED <<[p \in Requests |-> LogOf(p)], current>>]_vars
  BY LinearStep DEF Logs
<1> QED
  BY <1>1, <1>2, WaitingHolds, PTL DEF MCSpec, ImplementsLinearHistory
=============================================================================
