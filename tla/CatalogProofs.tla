---------------------------- MODULE CatalogProofs ----------------------------
(***************************************************************************)
(* What is committed can be taught from, and a server that starts when     *)
(* there are learners serves it whole as long as there are: for any        *)
(* servers, seeders, link jobs and datasets, and any interleaving of their *)
(* steps, those of the walk included, which TLC takes in one piece.        *)
(*                                                                         *)
(* The invariant follows an ingestion.  Whoever validates has the walk to  *)
(* itself; what is past validation is sound; only one transaction at a     *)
(* time has inserted, and it has deleted the very generation it replaces.  *)
(* A learner's profile can be inserted only while no transaction has       *)
(* deleted that generation, and until the last learner is erased none can  *)
(* get that far: the catalog the learners use stays, and so do the         *)
(* references of the items generated for it.                               *)
(***************************************************************************)
EXTENDS Catalog, SequenceTheorems, FiniteSetTheorems, TLAPS

-----------------------------------------------------------------------------
(* The walk of PrerequisiteCheck gives the right verdict on every dataset,  *)
(* for every finite or infinite set of ids: the stack is a path, the closed *)
(* ids are closed under following edges, and they have no cycle.            *)

\* The open ids are exactly those on the stack.
StackIsOpen ==
  \A i \in Ids : color[i] = "grey" <=> \E k \in 1..Len(stack) : stack[k] = i

\* Every id of the stack was reached by an edge of the one below it.
StackIsPath ==
  \A k \in 1..Len(stack) - 1 : <<stack[k], stack[k + 1]>> \in hard

\* No id is on the stack twice.
StackIsSimple ==
  \A k, l \in 1..Len(stack) : stack[k] = stack[l] => k = l

\* What a closed id leads to is closed.
ClosedIsClosed ==
  \A i, j \in Ids : color[i] = "black" /\ <<i, j>> \in hard => color[j] = "black"

\* An edge an open id has followed leads to a closed id, or is the one the
\* walk went on by.
FollowedIsSettled ==
  \A k \in 1..Len(stack) : \A j \in Ids :
    <<stack[k], j>> \in hard =>
      \/ j \in left[stack[k]]
      \/ color[j] = "black"
      \/ k < Len(stack) /\ stack[k + 1] = j

\* An edge still to follow is an edge.
LeftIsSuccessors ==
  \A k \in 1..Len(stack) : left[stack[k]] \subseteq Successors(stack[k])

Closed == {i \in Ids : color[i] = "black"}

CheckInv ==
  /\ CheckTypeOK
  /\ StackIsOpen /\ StackIsPath /\ StackIsSimple
  /\ ClosedIsClosed /\ FollowedIsSettled /\ LeftIsSuccessors
  /\ Acyclic(Closed, hard)
  /\ VerdictIsRight

-----------------------------------------------------------------------------
\* One more closed id, all of whose edges lead to closed ids, closes no cycle.
LEMMA CloseOneMore ==
  ASSUME NEW S, NEW E, NEW n, n \notin S,
         Acyclic(S, E),
         \A i \in S : <<i, n>> \notin E,
         <<n, n>> \notin E
  PROVE  Acyclic(S \cup {n}, E)
<1> SUFFICES ASSUME NEW T \in SUBSET (S \cup {n}), T # {}
             PROVE  \E i \in T : \A j \in T : <<i, j>> \notin E
  BY DEF Acyclic
<1>1. CASE T \ {n} = {}
  <2>1. T = {n}
    BY <1>1
  <2> QED
    BY <2>1
<1>2. CASE T \ {n} # {}
  <2>1. T \ {n} \in SUBSET S
    OBVIOUS
  <2>2. PICK i \in T \ {n} : \A j \in T \ {n} : <<i, j>> \notin E
    BY <1>2, <2>1 DEF Acyclic
  <2>3. <<i, n>> \notin E
    BY <2>1, <2>2
  <2>4. \A j \in T : <<i, j>> \notin E
    BY <2>2, <2>3
  <2> QED
    BY <2>2, <2>4
<1> QED
  BY <1>1, <1>2

\* Nothing closed leads to an id that is not.
LEMMA NothingClosedLeadsOut ==
  ASSUME ClosedIsClosed, NEW n \in Ids, color[n] # "black"
  PROVE  \A i \in Closed : <<i, n>> \notin hard
BY DEF ClosedIsClosed, Closed

\* The initial state.
LEMMA CheckInitHolds == CheckInit => CheckInv
<1> SUFFICES ASSUME CheckInit PROVE CheckInv
  OBVIOUS
<1> USE DEF CheckInit
<1>1. CheckTypeOK
  BY DEF CheckTypeOK, Colors
<1>2. Closed = {}
  BY DEF Closed
<1>3. Acyclic(Closed, hard)
  BY <1>2 DEF Acyclic
<1>4. StackIsOpen /\ StackIsPath /\ StackIsSimple /\ ClosedIsClosed /\ FollowedIsSettled
      /\ LeftIsSuccessors /\ VerdictIsRight
  BY DEF StackIsOpen, StackIsPath, StackIsSimple, ClosedIsClosed, FollowedIsSettled, LeftIsSuccessors,
         VerdictIsRight
<1> QED
  BY <1>1, <1>3, <1>4 DEF CheckInv

\* A new dataset starts a new walk.
LEMMA BeginKeeps ==
  ASSUME NEW skills \in SUBSET Ids, NEW edges \in SUBSET (Ids \X Ids), Begin(skills, edges)
  PROVE  CheckInv'
<1> USE DEF Begin
<1>1. CheckTypeOK'
  BY DEF CheckTypeOK, Colors
<1>2. Closed' = {}
  BY DEF Closed
<1>3. Acyclic(Closed, hard)'
  BY <1>2 DEF Acyclic
<1>4. (StackIsOpen /\ StackIsPath /\ StackIsSimple /\ ClosedIsClosed /\ FollowedIsSettled
      /\ LeftIsSuccessors /\ VerdictIsRight)'
  BY DEF StackIsOpen, StackIsPath, StackIsSimple, ClosedIsClosed, FollowedIsSettled, LeftIsSuccessors,
         VerdictIsRight
<1> QED
  BY <1>1, <1>3, <1>4 DEF CheckInv

\* The walk's state is dropped.
LEMMA ForgetKeeps == Forget => CheckInv'
<1> SUFFICES ASSUME Forget PROVE CheckInv'
  OBVIOUS
<1> USE DEF Forget
<1>1. CheckTypeOK'
  BY DEF CheckTypeOK, Colors
<1>2. Closed' = {}
  BY DEF Closed
<1>3. Acyclic(Closed, hard)'
  BY <1>2 DEF Acyclic
<1>4. (StackIsOpen /\ StackIsPath /\ StackIsSimple /\ ClosedIsClosed /\ FollowedIsSettled
      /\ LeftIsSuccessors /\ VerdictIsRight)'
  BY DEF StackIsOpen, StackIsPath, StackIsSimple, ClosedIsClosed, FollowedIsSettled, LeftIsSuccessors,
         VerdictIsRight
<1> QED
  BY <1>1, <1>3, <1>4 DEF CheckInv

\* Opening a skill nobody reached, on an empty path.
LEMMA RootKeeps ==
  ASSUME CheckInv, Root
  PROVE  CheckInv'
<1> USE DEF CheckInv
<1>1. PICK n \in known : /\ color[n] = "white" /\ Open(n)
                        /\ left' = [left EXCEPT ![n] = Successors(n)]
  BY DEF Root
<1>2. /\ verdict' = verdict /\ verdict = "walking" /\ known' = known /\ hard' = hard
      /\ stack = <<>> /\ n \in Ids
      /\ color' = [color EXCEPT ![n] = "grey"] /\ stack' = Append(stack, n)
  BY <1>1 DEF Root, Open, CheckTypeOK
<1>3. stack' = <<n>> /\ Len(stack') = 1 /\ stack'[1] = n
  BY <1>2
<1>4. CheckTypeOK'
  <2>1. Successors(n) \in SUBSET Ids
    BY DEF Successors
  <2>2. left' \in [Ids -> SUBSET Ids]
    BY <1>1, <2>1 DEF CheckTypeOK
  <2>3. color' \in [Ids -> Colors]
    BY <1>2 DEF CheckTypeOK, Colors
  <2>4. stack' \in Seq(Ids)
    BY <1>2, <1>3
  <2> QED
    BY <1>2, <2>2, <2>3, <2>4 DEF CheckTypeOK
<1>5. \A i \in Ids : color'[i] = IF i = n THEN "grey" ELSE color[i]
  BY <1>2 DEF CheckTypeOK
<1>6. \A i \in Ids : color[i] # "grey"
  BY <1>2 DEF StackIsOpen
<1>7. StackIsOpen'
  BY <1>3, <1>5, <1>6 DEF StackIsOpen
<1>8. StackIsPath' /\ StackIsSimple'
  BY <1>3 DEF StackIsPath, StackIsSimple
<1>9. ClosedIsClosed'
  BY <1>1, <1>2, <1>5 DEF ClosedIsClosed
<1>10. left'[n] = Successors(n)' /\ Successors(n)' = Successors(n)
  BY <1>1, <1>2 DEF CheckTypeOK, Successors
<1>11. FollowedIsSettled'
  BY <1>2, <1>3, <1>10 DEF FollowedIsSettled, Successors
<1>12. LeftIsSuccessors'
  BY <1>3, <1>10 DEF LeftIsSuccessors
<1>13. Closed' = Closed
  BY <1>1, <1>5 DEF Closed
<1>14. Acyclic(Closed, hard)' /\ VerdictIsRight'
  BY <1>2, <1>13 DEF VerdictIsRight
<1> QED
  BY <1>4, <1>7, <1>8, <1>9, <1>11, <1>12, <1>14

\* An edge back into the path: the path from there is a cycle.
LEMMA ClosesKeeps ==
  ASSUME CheckInv, Closes
  PROVE  CheckInv'
<1> USE DEF CheckInv
<1>1. /\ UNCHANGED <<known, hard, color, left, stack>> /\ verdict' = "cycle" /\ stack # <<>>
  BY DEF Closes
<1>2. PICK j \in left[Top] : color[j] = "grey"
  BY DEF Closes
<1>t. stack \in Seq(Ids) /\ Len(stack) \in Nat \ {0} /\ Top = stack[Len(stack)] /\ Top \in Ids
  BY <1>1 DEF CheckTypeOK, Top
<1>3. j \in Ids /\ <<Top, j>> \in hard
  BY <1>t, <1>2 DEF LeftIsSuccessors, Successors, CheckTypeOK
<1>4. PICK k \in 1..Len(stack) : stack[k] = j
  BY <1>2, <1>3 DEF StackIsOpen
<1> DEFINE T == {stack[q] : q \in k..Len(stack)}
<1>5. T \in SUBSET Ids /\ T # {}
  BY <1>t, <1>4
<1>6. \A i \in T : \E m \in T : <<i, m>> \in hard
  <2> SUFFICES ASSUME NEW q \in k..Len(stack)
               PROVE  \E m \in T : <<stack[q], m>> \in hard
    OBVIOUS
  <2>1. CASE q = Len(stack)
    <3>1. k \in k..Len(stack) /\ <<stack[q], stack[k]>> \in hard
      BY <2>1, <1>t, <1>3, <1>4
    <3> QED
      BY <3>1
  <2>2. CASE q # Len(stack)
    <3>1. q \in 1..Len(stack) - 1 /\ q + 1 \in k..Len(stack)
      BY <2>2, <1>t, <1>4
    <3> QED
      BY <3>1 DEF StackIsPath
  <2> QED
    BY <2>1, <2>2
<1>7. ~ Acyclic(Ids, hard)
  BY <1>5, <1>6 DEF Acyclic
<1>8. VerdictIsRight'
  BY <1>1, <1>7 DEF VerdictIsRight
<1>9. CheckTypeOK'
  BY <1>1 DEF CheckTypeOK
<1>10. (StackIsOpen /\ StackIsPath /\ StackIsSimple /\ ClosedIsClosed)'
  BY <1>1 DEF StackIsOpen, StackIsPath, StackIsSimple, ClosedIsClosed
<1>11. (FollowedIsSettled /\ LeftIsSuccessors)' /\ Acyclic(Closed, hard)'
  BY <1>1 DEF FollowedIsSettled, LeftIsSuccessors, Successors, Closed, Acyclic
<1> QED
  BY <1>8, <1>9, <1>10, <1>11

\* The walk stops with every skill reached and none open.
LEMMA AcceptKeeps ==
  ASSUME CheckInv, Accept
  PROVE  CheckInv'
<1> USE DEF CheckInv
<1>1. /\ UNCHANGED <<known, hard, color, left, stack>> /\ verdict' = "acyclic" /\ stack = <<>>
      /\ \A i \in known : color[i] # "white"
  BY DEF Accept
<1>2. known \subseteq Closed
  BY <1>1 DEF StackIsOpen, Closed, CheckTypeOK, Colors
<1>3. Acyclic(known, hard)
  BY <1>2 DEF Acyclic
<1>4. VerdictIsRight'
  BY <1>1, <1>3 DEF VerdictIsRight
<1>5. CheckTypeOK'
  BY <1>1 DEF CheckTypeOK
<1>6. (StackIsOpen /\ StackIsPath /\ StackIsSimple /\ ClosedIsClosed)'
  BY <1>1 DEF StackIsOpen, StackIsPath, StackIsSimple, ClosedIsClosed
<1>7. (FollowedIsSettled /\ LeftIsSuccessors)' /\ Acyclic(Closed, hard)'
  BY <1>1 DEF FollowedIsSettled, LeftIsSuccessors, Successors, Closed, Acyclic
<1> QED
  BY <1>4, <1>5, <1>6, <1>7

\* An edge to an id not reached yet: it is opened on top of the path.
LEMMA DescendKeeps ==
  ASSUME CheckInv, Descend
  PROVE  CheckInv'
<1> USE DEF CheckInv
<1>1. PICK n \in left[Top] : /\ color[n] = "white" /\ Open(n)
                            /\ left' = [left EXCEPT ![Top] = @ \ {n}, ![n] = Successors(n)]
  BY DEF Descend
<1> DEFINE d == Len(stack)
<1>2. /\ verdict' = verdict /\ verdict = "walking" /\ known' = known /\ hard' = hard /\ stack # <<>>
      /\ color' = [color EXCEPT ![n] = "grey"] /\ stack' = Append(stack, n)
  BY <1>1 DEF Descend, Open
<1>t. stack \in Seq(Ids) /\ d \in Nat \ {0} /\ Top = stack[d] /\ Top \in Ids
  BY <1>2 DEF CheckTypeOK, Top
<1>3. n \in Ids /\ <<Top, n>> \in hard
  BY <1>t, <1>1 DEF LeftIsSuccessors, Successors, CheckTypeOK
<1>4. /\ Len(stack') = d + 1 /\ stack'[d + 1] = n
      /\ \A k \in 1..d : stack'[k] = stack[k] /\ stack[k] \in Ids
      /\ stack' \in Seq(Ids)
  BY <1>2, <1>3, <1>t
<1>5. \A i \in Ids : color'[i] = IF i = n THEN "grey" ELSE color[i]
  BY <1>2 DEF CheckTypeOK
<1>6. \A k \in 1..d : stack[k] # n
  BY <1>1, <1>3, <1>t DEF StackIsOpen
<1>7. /\ n # Top
      /\ left'[Top] = left[Top] \ {n} /\ left'[n] = Successors(n)
      /\ \A i \in Ids : i # Top /\ i # n => left'[i] = left[i]
  BY <1>1, <1>3, <1>t, <1>6 DEF CheckTypeOK
<1>8. CheckTypeOK'
  <2>1. Successors(n) \in SUBSET Ids
    BY DEF Successors
  <2>2. left' \in [Ids -> SUBSET Ids]
    BY <1>1, <2>1 DEF CheckTypeOK
  <2>3. color' \in [Ids -> Colors]
    BY <1>2 DEF CheckTypeOK, Colors
  <2> QED
    BY <1>2, <1>4, <2>2, <2>3 DEF CheckTypeOK
<1>9. StackIsOpen'
  <2> SUFFICES ASSUME NEW i \in Ids
               PROVE  color'[i] = "grey" <=> \E k \in 1..d + 1 : stack'[k] = i
    BY <1>4 DEF StackIsOpen
  <2>1. CASE i = n
    BY <2>1, <1>4, <1>5, <1>t
  <2>2. CASE i # n
    <3>1. color'[i] = color[i]
      BY <2>2, <1>5
    <3>2. (\E k \in 1..d + 1 : stack'[k] = i) <=> \E k \in 1..d : stack[k] = i
      BY <2>2, <1>4, <1>t
    <3> QED
      BY <3>1, <3>2 DEF StackIsOpen
  <2> QED
    BY <2>1, <2>2
<1>10. StackIsPath'
  <2> SUFFICES ASSUME NEW k \in 1..d
               PROVE  <<stack'[k], stack'[k + 1]>> \in hard
    BY <1>2, <1>4, <1>t DEF StackIsPath
  <2>1. CASE k = d
    BY <2>1, <1>3, <1>4, <1>t
  <2>2. CASE k # d
    <3>1. k \in 1..d - 1 /\ k + 1 \in 1..d
      BY <2>2, <1>t
    <3> QED
      BY <3>1, <1>4 DEF StackIsPath
  <2> QED
    BY <2>1, <2>2
<1>11. StackIsSimple'
  <2> SUFFICES ASSUME NEW k \in 1..d + 1, NEW l \in 1..d + 1, stack'[k] = stack'[l]
               PROVE  k = l
    BY <1>4 DEF StackIsSimple
  <2>1. k \in 1..d \/ k = d + 1
    BY <1>t
  <2>2. l \in 1..d \/ l = d + 1
    BY <1>t
  <2> QED
    BY <2>1, <2>2, <1>4, <1>6 DEF StackIsSimple
<1>12. ClosedIsClosed'
  BY <1>1, <1>2, <1>5 DEF ClosedIsClosed
<1>13. FollowedIsSettled'
  <2> SUFFICES ASSUME NEW k \in 1..d + 1, NEW j \in Ids, <<stack'[k], j>> \in hard
               PROVE  \/ j \in left'[stack'[k]]
                      \/ color'[j] = "black"
                      \/ k < d + 1 /\ stack'[k + 1] = j
    BY <1>2, <1>4 DEF FollowedIsSettled
  <2>1. CASE k = d + 1
    BY <2>1, <1>4, <1>7 DEF Successors
  <2>2. CASE k = d
    <3>1. stack'[k] = Top /\ stack'[k + 1] = n
      BY <2>2, <1>4, <1>t
    <3>2. j \in left[Top] \/ color[j] = "black"
      BY <2>2, <3>1, <1>t DEF FollowedIsSettled
    <3>3. CASE j = n
      BY <3>3, <3>1, <2>2, <1>t
    <3>4. CASE j # n
      BY <3>4, <3>1, <3>2, <1>5, <1>7
    <3> QED
      BY <3>3, <3>4
  <2>3. CASE k \in 1..d - 1
    <3>1. k \in 1..d /\ k + 1 \in 1..d /\ k < d
      BY <2>3, <1>t
    <3>2. stack'[k] = stack[k] /\ stack'[k + 1] = stack[k + 1]
      BY <3>1, <1>4
    <3>3. j \in left[stack[k]] \/ color[j] = "black" \/ stack[k + 1] = j
      BY <3>1, <3>2 DEF FollowedIsSettled
    <3>4. stack[k] # Top /\ stack[k] # n /\ stack[k] \in Ids
      BY <2>3, <3>1, <1>t, <1>4, <1>6 DEF StackIsSimple
    <3>5. left'[stack[k]] = left[stack[k]]
      BY <3>4, <1>7
    <3>6. color[j] = "black" => color'[j] = "black"
      BY <1>1, <1>5
    <3> QED
      BY <3>1, <3>2, <3>3, <3>5, <3>6
  <2> QED
    BY <2>1, <2>2, <2>3, <1>t
<1>14. LeftIsSuccessors'
  <2> SUFFICES ASSUME NEW k \in 1..d + 1
               PROVE  left'[stack'[k]] \subseteq Successors(stack'[k])
    BY <1>2, <1>4 DEF LeftIsSuccessors, Successors
  <2>1. CASE k = d + 1
    BY <2>1, <1>4, <1>7
  <2>2. CASE k \in 1..d
    <3>1. stack'[k] = stack[k] /\ left[stack[k]] \subseteq Successors(stack[k]) /\ stack[k] # n
      BY <2>2, <1>4, <1>6 DEF LeftIsSuccessors
    <3>2. left'[stack[k]] \subseteq left[stack[k]]
      BY <3>1, <2>2, <1>4, <1>7
    <3> QED
      BY <3>1, <3>2
  <2> QED
    BY <2>1, <2>2, <1>t
<1>15. Closed' = Closed
  BY <1>1, <1>5 DEF Closed
<1>16. Acyclic(Closed, hard)' /\ VerdictIsRight'
  BY <1>2, <1>15 DEF VerdictIsRight
<1> QED
  BY <1>8, <1>9, <1>10, <1>11, <1>12, <1>13, <1>14, <1>16

\* Every edge of the open id leads to a closed one: it is closed in its turn.
LEMMA RetreatKeeps ==
  ASSUME CheckInv, Retreat
  PROVE  CheckInv'
<1> USE DEF CheckInv
<1> DEFINE d == Len(stack)
           n == Top
<1>1. /\ UNCHANGED <<known, hard, left, verdict>> /\ verdict = "walking" /\ stack # <<>>
      /\ color' = [color EXCEPT ![n] = "black"] /\ stack' = SubSeq(stack, 1, d - 1)
      /\ \A j \in left[n] : color[j] = "black"
  BY DEF Retreat
<1>t. stack \in Seq(Ids) /\ d \in Nat \ {0} /\ n = stack[d] /\ n \in Ids
  BY <1>1 DEF CheckTypeOK, Top
<1>2. /\ Len(stack') = d - 1
      /\ \A k \in 1..d - 1 : stack'[k] = stack[k] /\ stack[k] \in Ids
      /\ stack' \in Seq(Ids)
  <2>1. d - 1 \in 0..Len(stack)
    BY <1>t
  <2>2. /\ Len(SubSeq(stack, 1, d - 1)) = d - 1
        /\ SubSeq(stack, 1, d - 1) \in Seq(Ids)
        /\ \A k \in 1..d - 1 : SubSeq(stack, 1, d - 1)[k] = stack[k]
    <3>1. 1 \in Int /\ d - 1 \in Int /\ \A k \in 1..d - 1 : stack[k] \in Ids
      BY <1>t
    <3>2. /\ SubSeq(stack, 1, d - 1) \in Seq(Ids)
          /\ Len(SubSeq(stack, 1, d - 1)) = IF 1 <= d - 1 THEN d - 1 - 1 + 1 ELSE 0
          /\ \A k \in 1..d - 1 - 1 + 1 : SubSeq(stack, 1, d - 1)[k] = stack[1 + k - 1]
      BY <3>1, SubSeqProperties
    <3> HIDE DEF d
    <3>3. d \in Nat \ {0}
      BY <1>t DEF d
    <3> QED
      BY <3>2, <3>3
  <2>3. \A k \in 1..d - 1 : stack[k] \in Ids
    BY <1>t
  <2> QED
    BY <1>1, <2>2, <2>3
<1>3. \A i \in Ids : color'[i] = IF i = n THEN "black" ELSE color[i]
  BY <1>1 DEF CheckTypeOK
<1>4. color[n] = "grey"
  BY <1>t DEF StackIsOpen
<1>5. \A k \in 1..d - 1 : stack[k] # n
  BY <1>t DEF StackIsSimple
<1>6. \A j \in Ids : <<n, j>> \in hard => color[j] = "black"
  <2> SUFFICES ASSUME NEW j \in Ids, <<n, j>> \in hard
               PROVE  color[j] = "black"
    OBVIOUS
  <2>1. d \in 1..Len(stack) /\ ~ (d < Len(stack))
    BY <1>t
  <2> QED
    BY <2>1, <1>1, <1>t DEF FollowedIsSettled
<1>7. CheckTypeOK'
  <2>1. color' \in [Ids -> Colors]
    BY <1>1 DEF CheckTypeOK, Colors
  <2> QED
    BY <1>1, <1>2, <2>1 DEF CheckTypeOK
<1>8. StackIsOpen'
  <2> SUFFICES ASSUME NEW i \in Ids
               PROVE  color'[i] = "grey" <=> \E k \in 1..d - 1 : stack[k] = i
    BY <1>2 DEF StackIsOpen
  <2>1. CASE i = n
    BY <2>1, <1>3, <1>5
  <2>2. CASE i # n
    <3>1. (\E k \in 1..d - 1 : stack[k] = i) <=> \E k \in 1..d : stack[k] = i
      BY <2>2, <1>t
    <3> QED
      BY <2>2, <3>1, <1>3 DEF StackIsOpen
  <2> QED
    BY <2>1, <2>2
<1>9. StackIsPath'
  <2> SUFFICES ASSUME NEW k \in 1..d - 2
               PROVE  <<stack'[k], stack'[k + 1]>> \in hard
    BY <1>1, <1>2, <1>t DEF StackIsPath
  <2>1. k \in 1..d - 1 /\ k + 1 \in 1..d - 1
    BY <1>t
  <2> QED
    BY <2>1, <1>2 DEF StackIsPath
<1>10. StackIsSimple'
  <2> SUFFICES ASSUME NEW k \in 1..d - 1, NEW l \in 1..d - 1, stack'[k] = stack'[l]
               PROVE  k = l
    BY <1>2 DEF StackIsSimple
  <2>1. k \in 1..d /\ l \in 1..d
    BY <1>t
  <2> QED
    BY <2>1, <1>2 DEF StackIsSimple
<1>11. ClosedIsClosed'
  <2> SUFFICES ASSUME NEW i \in Ids, NEW j \in Ids, color'[i] = "black", <<i, j>> \in hard
               PROVE  color'[j] = "black"
    BY <1>1 DEF ClosedIsClosed
  <2>1. color[j] = "black"
    BY <1>3, <1>6 DEF ClosedIsClosed
  <2> QED
    BY <2>1, <1>3
<1>12. FollowedIsSettled'
  <2> SUFFICES ASSUME NEW k \in 1..d - 1, NEW j \in Ids, <<stack'[k], j>> \in hard
               PROVE  \/ j \in left[stack[k]]
                      \/ color'[j] = "black"
                      \/ k < d - 1 /\ stack'[k + 1] = j
    BY <1>1, <1>2 DEF FollowedIsSettled
  <2>1. k \in 1..d /\ k < d /\ stack'[k] = stack[k]
    BY <1>t, <1>2
  <2>2. j \in left[stack[k]] \/ color[j] = "black" \/ stack[k + 1] = j
    BY <2>1 DEF FollowedIsSettled
  <2>3. color[j] = "black" => color'[j] = "black"
    BY <1>3
  <2>4. CASE stack[k + 1] = j /\ k + 1 = d
    BY <2>4, <1>3, <1>t
  <2>5. CASE stack[k + 1] = j /\ k + 1 # d
    <3>1. k + 1 \in 1..d - 1 /\ k < d - 1
      BY <2>5, <1>t
    <3> QED
      BY <3>1, <2>5, <1>2
  <2> QED
    BY <2>2, <2>3, <2>4, <2>5
<1>13. LeftIsSuccessors'
  <2> SUFFICES ASSUME NEW k \in 1..d - 1
               PROVE  left[stack[k]] \subseteq Successors(stack[k])
    BY <1>1, <1>2 DEF LeftIsSuccessors, Successors
  <2>1. k \in 1..d
    BY <1>t
  <2> QED
    BY <2>1 DEF LeftIsSuccessors
<1>14. Closed' = Closed \cup {n}
  BY <1>3, <1>t DEF Closed
<1>15. Acyclic(Closed \cup {n}, hard)
  <2>1. n \notin Closed
    BY <1>4 DEF Closed
  <2>2. <<n, n>> \notin hard
    BY <1>4, <1>6, <1>t
  <2>3. \A i \in Closed : <<i, n>> \notin hard
    BY <1>4, <1>t, NothingClosedLeadsOut
  <2> QED
    BY <2>1, <2>2, <2>3, CloseOneMore
<1>16. Acyclic(Closed, hard)'
  BY <1>1, <1>14, <1>15
<1>17. VerdictIsRight'
  BY <1>1 DEF VerdictIsRight
<1> QED
  BY <1>7, <1>8, <1>9, <1>10, <1>11, <1>12, <1>13, <1>16, <1>17

-----------------------------------------------------------------------------
LEMMA CheckInvKept == CheckInv /\ [CheckNext]_checkVars => CheckInv'
<1> SUFFICES ASSUME CheckInv, [CheckNext]_checkVars PROVE CheckInv'
  OBVIOUS
<1>1. CASE \E skills \in SUBSET Ids, edges \in SUBSET (Ids \X Ids) : Begin(skills, edges)
  BY <1>1, BeginKeeps
<1>2. CASE Root
  BY <1>2, RootKeeps
<1>3. CASE Closes
  BY <1>3, ClosesKeeps
<1>4. CASE Descend
  BY <1>4, DescendKeeps
<1>5. CASE Retreat
  BY <1>5, RetreatKeeps
<1>6. CASE Accept
  BY <1>6, AcceptKeeps
<1>8. CASE Forget
  BY <1>8, ForgetKeeps
<1>7. CASE UNCHANGED checkVars
  <2>1. UNCHANGED <<known, hard, color, left, stack, verdict>>
    BY <1>7 DEF checkVars
  <2>2. CheckTypeOK' /\ VerdictIsRight'
    BY <2>1 DEF CheckInv, CheckTypeOK, VerdictIsRight
  <2>3. (StackIsOpen /\ StackIsPath /\ StackIsSimple /\ ClosedIsClosed)'
    BY <2>1 DEF CheckInv, StackIsOpen, StackIsPath, StackIsSimple, ClosedIsClosed
  <2>4. (FollowedIsSettled /\ LeftIsSuccessors)' /\ Acyclic(Closed, hard)'
    BY <2>1 DEF CheckInv, FollowedIsSettled, LeftIsSuccessors, Successors, Closed, Acyclic
  <2> QED
    BY <2>2, <2>3, <2>4 DEF CheckInv
<1> QED
  BY <1>1, <1>2, <1>3, <1>4, <1>5, <1>6, <1>7, <1>8 DEF CheckNext, CheckStep

\* The walk keeps its invariant: the stack is a simple path of the open ids,
\* and the closed ids, closed under edges, have no cycle.
THEOREM CheckInvHolds == CheckSpec => []CheckInv
BY CheckInvKept, CheckInitHolds, PTL DEF CheckSpec

\* A dataset _check_dag accepts has no cycle of hard prerequisites, and one it
\* rejects has one, for every set of ids and every dataset over it.
THEOREM VerdictAlwaysRight == CheckSpec => []VerdictIsRight
<1>1. CheckInv => VerdictIsRight
  BY DEF CheckInv
<1> QED
  BY <1>1, CheckInvHolds, PTL

-----------------------------------------------------------------------------
(* The catalog.                                                             *)

Known == Datasets \cup Releases

\* A dataset whose report has no error.
Sound(d) == d \in Known /\ RowsAgree(d) /\ Acyclic(Ids, HardEdges(d))

Ingesting(p) == proc[p].pc \in {"checking", "children", "parents", "skills", "committing"}
InFlight == {p \in Procs : Ingesting(p)}

ProcTypes ==
  [pc : {"off", "checking", "children", "parents", "skills", "committing", "loading", "building", "up"},
   data : Known \cup {None}, saw : Nat \cup {None}, children : Nat, parents : Nat,
   item : BOOLEAN, inserted : BOOLEAN, used : BOOLEAN, skillRows : Known \cup {None}]
Types ==
  /\ file \in Known
  /\ db \in [gen : Nat, data : Known \cup {None}]
  /\ learners \in BOOLEAN
  /\ proc \in [Procs -> ProcTypes]
  /\ DOMAIN graph = Servers /\ DOMAIN job = Jobs

\* Each start commits once at most.
CommitsCounted ==
  /\ IsFiniteSet(InFlight) /\ starts \in Nat
  /\ db.gen + Cardinality(InFlight) <= starts /\ starts <= MAX_STARTS

\* The walk is over the dataset of the one process that validates.
WalkIsOnes ==
  \A p \in Procs : proc[p].pc = "checking" =>
    /\ verdict # "idle" /\ proc[p].data \in Known
    /\ known = proc[p].data.skills /\ hard = HardEdges(proc[p].data)
    /\ \A q \in Procs : proc[q].pc = "checking" => q = p

\* Past validation is sound, and so is what was committed.
TransactionsSound == \A p \in Procs : InTransaction(p) => Sound(proc[p].data)
CommittedSound ==
  /\ db.gen = 0 <=> db.data = None
  /\ db.gen # 0 => Sound(db.data) /\ links \in [IdsOf(db.data.resources) -> LinkStatuses]

\* One transaction at a time has inserted, over the generation it deleted.
OneInserts ==
  \A p \in Procs :
    /\ proc[p].pc = "committing" => proc[p].inserted /\ proc[p].parents = db.gen
    /\ proc[p].inserted => proc[p].pc = "committing" /\ \A q \in Procs : proc[q].inserted => q = p

\* While there are learners nothing can be committed.
LearnersHold ==
  learners =>
    /\ db.gen # 0
    /\ \A p \in Procs : /\ proc[p].pc # "committing"
                        /\ proc[p].pc = "skills" => proc[p].parents # db.gen

\* Generated items are of the committed catalog, unless their learner was erased.
ItemsOfCatalog ==
  /\ draft # None =>
       \E skill, tags : \E erased \in BOOLEAN :
         /\ draft = [skill |-> skill, tags |-> tags, erased |-> erased]
         /\ ~ erased => learners /\ tags \subseteq IdsOf(db.data.misconceptions)
  /\ \A i \in generated : ~ i.erased => i.tags \subseteq IdsOf(db.data.misconceptions)
JobsSound == \A j \in Jobs : job[j] # None => \A r \in DOMAIN job[j] : job[j][r] \in LinkStatuses

\* A server that starts while there are learners only reads.
ReadsWhole(p) ==
  /\ learners /\ proc[p].pc \in {"loading", "building", "up"}
  /\ proc[p].pc # "up" => graph[p] = None
  /\ proc[p].pc = "building" => proc[p].skillRows = db.data
  /\ proc[p].pc = "up" => graph[p] \in {None, Build(db.data, db.data)}
UsedServers == \A s \in Servers : proc[s].used => ReadsWhole(s)

CatalogInv ==
  /\ Types /\ CheckInv /\ CommitsCounted
  /\ WalkIsOnes /\ TransactionsSound /\ CommittedSound
  /\ OneInserts /\ LearnersHold
  /\ ItemsOfCatalog /\ JobsSound /\ UsedServers

-----------------------------------------------------------------------------
LEMMA DatasetsKnown ==
  ASSUME NEW d \in Known
  PROVE  d # None /\ d.skills \in SUBSET Ids /\ HardEdges(d) \in SUBSET (Ids \X Ids)
BY DatasetsAssumption DEF Known, HardEdges

\* What one step of a process does to the processes under way.
LEMMA FlightAfter ==
  ASSUME Types, CommitsCounted, NEW p \in Procs, NEW x \in ProcTypes,
         proc' = [proc EXCEPT ![p] = x]
  PROVE  /\ proc' \in [Procs -> ProcTypes] /\ proc'[p] = x
         /\ \A q \in Procs \ {p} : proc'[q] = proc[q]
         /\ IsFiniteSet(InFlight') /\ Cardinality(InFlight') \in Nat /\ Cardinality(InFlight) \in Nat
         /\ Cardinality(InFlight') <= Cardinality(InFlight) + 1
         /\ Ingesting(p) \/ ~ Ingesting(p)' => Cardinality(InFlight') <= Cardinality(InFlight)
         /\ Ingesting(p) /\ ~ Ingesting(p)' => Cardinality(InFlight') + 1 = Cardinality(InFlight)
<1>1. /\ proc' \in [Procs -> ProcTypes] /\ proc'[p] = x
      /\ \A q \in Procs \ {p} : proc'[q] = proc[q]
  BY DEF Types
<1>2. IsFiniteSet(InFlight) /\ Cardinality(InFlight) \in Nat
  BY FS_CardinalityType DEF CommitsCounted
<1>3. \A q \in Procs \ {p} : Ingesting(q)' = Ingesting(q)
  BY <1>1 DEF Ingesting
<1>4. CASE Ingesting(p)' /\ Ingesting(p)
  <2>1. InFlight' = InFlight
    BY <1>3, <1>4 DEF InFlight
  <2> QED
    BY <1>1, <1>2, <1>4, <2>1
<1>5. CASE Ingesting(p)' /\ ~ Ingesting(p)
  <2>1. InFlight' = InFlight \cup {p}
    BY <1>3, <1>5 DEF InFlight
  <2>2. p \notin InFlight
    BY <1>5 DEF InFlight
  <2>3. IsFiniteSet(InFlight \cup {p}) /\ Cardinality(InFlight \cup {p}) = Cardinality(InFlight) + 1
    BY <1>2, <2>2, FS_AddElement
  <2> QED
    BY <1>1, <1>2, <1>5, <2>1, <2>3
<1>6. CASE ~ Ingesting(p)' /\ Ingesting(p)
  <2>1. InFlight' = InFlight \ {p} /\ p \in InFlight
    BY <1>3, <1>6 DEF InFlight
  <2>2. IsFiniteSet(InFlight \ {p}) /\ Cardinality(InFlight \ {p}) = Cardinality(InFlight) - 1
    BY <1>2, <2>1, FS_RemoveElement
  <2>3. Cardinality(InFlight \ {p}) \in Nat
    BY <2>2, FS_CardinalityType
  <2> QED
    BY <1>1, <1>2, <1>6, <2>1, <2>2, <2>3
<1>7. CASE ~ Ingesting(p)' /\ ~ Ingesting(p)
  <2>1. InFlight' = InFlight
    BY <1>3, <1>7 DEF InFlight
  <2> QED
    BY <1>1, <1>2, <1>7, <2>1
<1> QED
  BY <1>4, <1>5, <1>6, <1>7

\* A process moves and nothing is committed.
LEMMA ProcessMoves ==
  ASSUME CatalogInv, CheckInv', NEW p \in Procs, NEW x \in ProcTypes,
         proc' = [proc EXCEPT ![p] = x],
         UNCHANGED <<file, db, links, learners, generated, draft, job>>,
         DOMAIN graph' = Servers, \A s \in Servers \ {p} : graph'[s] = graph[s],
         starts' \in {starts, starts + 1}, starts' <= MAX_STARTS,
         \* nobody else's walk is touched, and nobody else walks when this one does
         UNCHANGED <<known, hard, verdict>> \/ \A q \in Procs \ {p} : proc[q].pc # "checking",
         x.pc = "checking" => /\ \A q \in Procs : proc[q].pc # "checking"
                              /\ verdict' # "idle" /\ x.data \in Known /\ starts' = starts + 1
                              /\ known' = x.data.skills /\ hard' = HardEdges(x.data),
         \* a transaction is sound
         x.pc \in {"children", "parents", "skills", "committing"} => Sound(x.data) /\ Ingesting(p),
         x.pc = "committing" => /\ x.inserted /\ x.parents = db.gen /\ ~ learners
                                /\ \A q \in Procs \ {p} : ~ proc[q].inserted,
         x.inserted => x.pc = "committing",
         learners /\ x.pc = "skills" => x.parents # db.gen,
         \* and a server used by learners reads the catalog
         p \in Servers /\ x.used =>
           /\ learners /\ x.pc \in {"loading", "building", "up"}
           /\ x.pc # "up" => graph'[p] = None
           /\ x.pc = "building" => x.skillRows = db.data
           /\ x.pc = "up" => graph'[p] \in {None, Build(db.data, db.data)}
  PROVE  CatalogInv'
<1> USE DEF CatalogInv
<1>1. /\ proc' \in [Procs -> ProcTypes] /\ proc'[p] = x
      /\ \A q \in Procs \ {p} : proc'[q] = proc[q]
      /\ IsFiniteSet(InFlight') /\ Cardinality(InFlight') \in Nat /\ Cardinality(InFlight) \in Nat
      /\ Cardinality(InFlight') <= Cardinality(InFlight) + 1
      /\ Ingesting(p) \/ ~ Ingesting(p)' => Cardinality(InFlight') <= Cardinality(InFlight)
  BY FlightAfter
<1>2. Types'
  BY <1>1 DEF Types
<1>3. CommitsCounted'
  <2>1. starts' = starts + 1 \/ Cardinality(InFlight') <= Cardinality(InFlight)
    BY <1>1 DEF Ingesting
  <2>2. db.gen \in Nat /\ db' = db
    BY DEF Types
  <2> QED
    BY <1>1, <2>1, <2>2, BoundsAssumption DEF CommitsCounted
<1>4. WalkIsOnes'
  <2> SUFFICES ASSUME NEW q \in Procs, proc'[q].pc = "checking"
               PROVE  /\ verdict' # "idle" /\ proc'[q].data \in Known
                      /\ known' = proc'[q].data.skills /\ hard' = HardEdges(proc'[q].data)
                      /\ \A w \in Procs : proc'[w].pc = "checking" => w = q
    BY DEF WalkIsOnes, HardEdges
  <2>1. CASE q = p
    BY <1>1, <2>1
  <2>2. CASE q # p
    <3>1. proc'[q] = proc[q] /\ proc[q].pc = "checking" /\ UNCHANGED <<known, hard, verdict>>
          /\ x.pc # "checking"
      BY <1>1, <2>2
    <3> QED
      BY <1>1, <3>1 DEF WalkIsOnes
  <2> QED
    BY <2>1, <2>2
<1>5. TransactionsSound'
  <2>1. \A q \in Procs : InTransaction(q)' => Sound(proc'[q].data)
    BY <1>1 DEF TransactionsSound, InTransaction
  <2> QED
    BY <2>1 DEF TransactionsSound, Sound, RowsAgree, UniqueIds, EdgesKnown, RolesKnown, ResourcesKnown, MisconceptionsKnown, ItemsKnown, NoOrphans, UrlsUsable, HardEdges
<1>6. CommittedSound'
  BY DEF CommittedSound
<1>7. OneInserts'
  BY <1>1 DEF OneInserts
<1>8. LearnersHold'
  BY <1>1 DEF LearnersHold
<1>9. ItemsOfCatalog' /\ JobsSound'
  BY DEF ItemsOfCatalog, JobsSound
<1>10. UsedServers'
  BY <1>1 DEF UsedServers, ReadsWhole, Procs
<1> QED
  BY <1>2, <1>3, <1>4, <1>5, <1>6, <1>7, <1>8, <1>9, <1>10

LEMMA CheckUntouched ==
  ASSUME CheckInv, UNCHANGED checkVars
  PROVE  CheckInv' /\ UNCHANGED <<known, hard, verdict>>
BY CheckInvKept DEF checkVars

\* What ends without a commit is off, or up with what it had.
LEMMA ThroughTypes ==
  ASSUME Types, NEW p \in Procs
  PROVE  /\ proc[p] \in ProcTypes /\ Through(p) \in ProcTypes /\ Idle \in ProcTypes
         /\ Through(p).pc = (IF p \in Servers THEN "up" ELSE "off")
         /\ Through(p).used = proc[p].used /\ ~ Through(p).inserted
         /\ Idle.pc = "off" /\ ~ Idle.used /\ ~ Idle.inserted
BY DEF Types, Through, Idle, ProcTypes

\* A server that ingests was not started when there were learners.
LEMMA IngestersUnused ==
  ASSUME CatalogInv, NEW p \in Servers, Ingesting(p)
  PROVE  ~ proc[p].used
BY DEF CatalogInv, UsedServers, ReadsWhole, Ingesting

LEMMA EndsWithoutCommit ==
  ASSUME CatalogInv, CheckInv', NEW p \in Procs, Ingesting(p),
         proc' = [proc EXCEPT ![p] = Through(p)], UNCHANGED restVars,
         UNCHANGED <<known, hard, verdict>> \/ proc[p].pc = "checking"
  PROVE  CatalogInv'
<1> DEFINE x == Through(p)
<1>1. /\ x \in ProcTypes /\ x.pc \in {"up", "off"} /\ ~ x.inserted
      /\ p \in Servers => ~ x.used
  BY ThroughTypes, IngestersUnused DEF CatalogInv
<1> HIDE DEF x
<1>2. /\ UNCHANGED <<file, db, links, learners, generated, draft, job, graph, starts>>
      /\ DOMAIN graph = Servers /\ starts <= MAX_STARTS
  BY DEF restVars, CatalogInv, Types, CommitsCounted
<1>3. UNCHANGED <<known, hard, verdict>> \/ \A q \in Procs \ {p} : proc[q].pc # "checking"
  BY DEF CatalogInv, WalkIsOnes
<1> QED
  BY <1>1, <1>2, <1>3, ProcessMoves DEF x

LEMMA ReleaseStep ==
  ASSUME CatalogInv, Release
  PROVE  CatalogInv'
<1>1. /\ UNCHANGED <<checkVars, db, links, learners, generated, draft, proc, graph, job, starts>>
      /\ file' \in Known
  BY DEF Release, Known
<1>2. CheckInv' /\ UNCHANGED <<known, hard, verdict>>
  BY <1>1, CheckUntouched DEF CatalogInv
<1>3. Types' /\ CommitsCounted' /\ OneInserts' /\ LearnersHold'
  BY <1>1 DEF CatalogInv, Types, CommitsCounted, InFlight, Ingesting, OneInserts, LearnersHold
<1>4. WalkIsOnes' /\ TransactionsSound' /\ CommittedSound'
  BY <1>1, <1>2 DEF CatalogInv, WalkIsOnes, TransactionsSound, InTransaction, CommittedSound
<1>5. ItemsOfCatalog' /\ JobsSound' /\ UsedServers'
  BY <1>1 DEF CatalogInv, ItemsOfCatalog, JobsSound, UsedServers, ReadsWhole
<1> QED
  BY <1>2, <1>3, <1>4, <1>5 DEF CatalogInv

\* A validation begins: nobody else's is under way.
LEMMA LoadStep ==
  ASSUME CatalogInv, NEW p \in Procs, LoadDataset(p), proc[p].pc = "off",
         p \in Servers => ~ learners,
         starts' = starts + 1, starts < MAX_STARTS,
         UNCHANGED <<file, db, links, learners, generated, draft, job>>,
         DOMAIN graph' = Servers, \A s \in Servers \ {p} : graph'[s] = graph[s]
  PROVE  CatalogInv'
<1> DEFINE x == [Idle EXCEPT !.pc = "checking", !.data = file, !.used = learners]
<1>1. /\ proc' = [proc EXCEPT ![p] = x] /\ Begin(file.skills, HardEdges(file))
      /\ \A q \in Procs : proc[q].pc # "checking"
  BY DEF LoadDataset, MayCheck
<1>2. file \in Known /\ file.skills \in SUBSET Ids /\ HardEdges(file) \in SUBSET (Ids \X Ids)
  BY DatasetsKnown DEF CatalogInv, Types
<1>3. CheckInv' /\ known' = file.skills /\ hard' = HardEdges(file) /\ verdict' # "idle"
  BY <1>1, <1>2, BeginKeeps DEF Begin
<1>4. /\ x \in ProcTypes /\ x.pc = "checking" /\ x.data = file /\ ~ x.inserted /\ x.used = learners
  BY <1>2 DEF CatalogInv, Types, ProcTypes, Idle
<1> HIDE DEF x
<1>5. starts' <= MAX_STARTS
  BY BoundsAssumption DEF CatalogInv, CommitsCounted
<1> QED
  BY <1>1, <1>2, <1>3, <1>4, <1>5, ProcessMoves

LEMMA StartStep ==
  ASSUME CatalogInv, NEW s \in Servers, Start(s)
  PROVE  CatalogInv'
<1>1. /\ proc[s].pc = "off" /\ starts < MAX_STARTS /\ starts' = starts + 1 /\ s \in Procs
      /\ graph' = [graph EXCEPT ![s] = None]
      /\ UNCHANGED <<file, db, links, learners, generated, draft, job>>
  BY DEF Start, Procs
<1>2. DOMAIN graph' = Servers /\ \A t \in Servers \ {s} : graph'[t] = graph[t]
  BY <1>1 DEF CatalogInv, Types
<1>3. CASE Seeds /\ LoadDataset(s)
  <2>1. ~ learners
    BY <1>3 DEF Seeds, CatalogInv, LearnersHold
  <2> QED
    BY <1>1, <1>2, <1>3, <2>1, LoadStep
<1>4. CASE ~ Seeds /\ proc' = [proc EXCEPT ![s] = [Idle EXCEPT !.pc = "loading", !.used = learners]]
           /\ UNCHANGED checkVars
  <2> DEFINE x == [Idle EXCEPT !.pc = "loading", !.used = learners]
  <2>1. /\ x \in ProcTypes /\ x.pc = "loading" /\ ~ x.inserted /\ x.used = learners
    BY DEF CatalogInv, Types, ProcTypes, Idle
  <2> HIDE DEF x
  <2>2. CheckInv' /\ UNCHANGED <<known, hard, verdict>>
    BY <1>4, CheckUntouched DEF CatalogInv
  <2>3. starts' <= MAX_STARTS
    BY <1>1, BoundsAssumption DEF CatalogInv, CommitsCounted
  <2>4. graph'[s] = None
    BY <1>1 DEF CatalogInv, Types
  <2> QED
    BY <1>1, <1>2, <1>4, <2>1, <2>2, <2>3, <2>4, ProcessMoves DEF x
<1> QED
  BY <1>3, <1>4 DEF Start

LEMMA StartSeedingStep ==
  ASSUME CatalogInv, NEW p \in Seeders, StartSeeding(p)
  PROVE  CatalogInv'
<1>1. p \in Procs /\ p \notin Servers
  BY ProcsAssumption DEF Procs
<1>2. DOMAIN graph' = Servers /\ \A t \in Servers \ {p} : graph'[t] = graph[t]
  BY DEF StartSeeding, CatalogInv, Types
<1> QED
  BY <1>1, <1>2, LoadStep DEF StartSeeding

LEMMA WalkStep ==
  ASSUME CatalogInv, Walk
  PROVE  CatalogInv'
<1>1. UNCHANGED catalogVars /\ CheckStep
  BY DEF Walk
<1>2. UNCHANGED <<file, db, links, learners, generated, draft, proc, graph, job, starts>>
  BY <1>1 DEF catalogVars
<1>3. CheckInv'
  BY <1>1, CheckInvKept DEF CatalogInv, CheckNext
<1>4. UNCHANGED <<known, hard>> /\ verdict' # "idle"
  BY <1>1 DEF CheckStep, Root, Closes, Descend, Retreat, Accept
<1>5. Types' /\ CommitsCounted' /\ OneInserts' /\ LearnersHold'
  BY <1>2 DEF CatalogInv, Types, CommitsCounted, InFlight, Ingesting, OneInserts, LearnersHold
<1>6. WalkIsOnes' /\ TransactionsSound' /\ CommittedSound'
  BY <1>2, <1>4 DEF CatalogInv, WalkIsOnes, TransactionsSound, InTransaction, CommittedSound
<1>7. ItemsOfCatalog' /\ JobsSound' /\ UsedServers'
  BY <1>2 DEF CatalogInv, ItemsOfCatalog, JobsSound, UsedServers, ReadsWhole
<1> QED
  BY <1>3, <1>5, <1>6, <1>7 DEF CatalogInv

\* The skills of a sound dataset are all its edges touch.
LEMMA AcyclicBeyond ==
  ASSUME NEW d \in Known, EdgesKnown(d), Acyclic(d.skills, HardEdges(d))
  PROVE  Acyclic(Ids, HardEdges(d))
<1> DEFINE E == HardEdges(d)
<1>1. \A i, j : <<i, j>> \in E => i \in d.skills /\ j \in d.skills
  BY DEF HardEdges, EdgesKnown
<1> HIDE DEF E
<1> SUFFICES ASSUME NEW T \in SUBSET Ids, T # {}
             PROVE  \E i \in T : \A j \in T : <<i, j>> \notin E
  BY DEF Acyclic, E
<1>2. CASE T \cap d.skills = {}
  BY <1>1, <1>2
<1>3. CASE T \cap d.skills # {}
  <2>1. PICK i \in T \cap d.skills : \A j \in T \cap d.skills : <<i, j>> \notin E
    BY <1>3 DEF Acyclic, E
  <2> QED
    BY <1>1, <2>1
<1> QED
  BY <1>2, <1>3

LEMMA JudgeStep ==
  ASSUME CatalogInv, NEW p \in Procs, Judge(p)
  PROVE  CatalogInv'
<1>1. /\ proc[p].pc = "checking" /\ verdict # "walking" /\ Forget /\ UNCHANGED restVars
      /\ Ingesting(p) /\ proc[p] \in ProcTypes
  BY DEF Judge, Ingesting, CatalogInv, Types
<1>2. CheckInv'
  BY <1>1, ForgetKeeps
<1>3. CASE verdict = "acyclic" /\ RowsAgree(proc[p].data)
  <2> DEFINE x == [proc[p] EXCEPT !.pc = "children"]
  <2>1. proc' = [proc EXCEPT ![p] = x]
    BY <1>3 DEF Judge
  <2>2. proc[p].data \in Known /\ known = proc[p].data.skills /\ hard = HardEdges(proc[p].data)
        /\ \A q \in Procs \ {p} : proc[q].pc # "checking"
    BY <1>1 DEF CatalogInv, WalkIsOnes
  <2>3. Acyclic(proc[p].data.skills, HardEdges(proc[p].data))
    BY <1>3, <2>2 DEF CatalogInv, CheckInv, VerdictIsRight
  <2>4. Sound(proc[p].data)
    BY <1>3, <2>2, <2>3, AcyclicBeyond DEF Sound, RowsAgree
  <2>5. ~ proc[p].inserted /\ (p \in Servers => ~ proc[p].used)
    BY <1>1, IngestersUnused DEF CatalogInv, OneInserts
  <2>6. /\ x \in ProcTypes /\ x.pc = "children" /\ x.data = proc[p].data
        /\ x.inserted = proc[p].inserted /\ x.used = proc[p].used
    BY <1>1 DEF ProcTypes
  <2> HIDE DEF x
  <2>7. /\ UNCHANGED <<file, db, links, learners, generated, draft, job, graph, starts>>
        /\ DOMAIN graph = Servers /\ starts <= MAX_STARTS
    BY <1>1 DEF restVars, CatalogInv, Types, CommitsCounted
  <2> QED
    BY <1>1, <1>2, <2>1, <2>2, <2>4, <2>5, <2>6, <2>7, ProcessMoves
<1>4. CASE ~ (verdict = "acyclic" /\ RowsAgree(proc[p].data))
  <2>1. proc' = [proc EXCEPT ![p] = Through(p)]
    BY <1>4 DEF Judge
  <2> QED
    BY <1>1, <1>2, <2>1, EndsWithoutCommit
<1> QED
  BY <1>3, <1>4

\* A step of a transaction that goes on.
LEMMA TransactionGoesOn ==
  ASSUME CatalogInv, NEW p \in Procs, InTransaction(p), UNCHANGED <<checkVars, restVars>>,
         NEW x \in ProcTypes, proc' = [proc EXCEPT ![p] = x],
         x.pc \in {"children", "parents", "skills", "committing"},
         x.data = proc[p].data, x.used = proc[p].used,
         x.inserted <=> x.pc = "committing",
         x.pc = "committing" =>
           x.parents = db.gen /\ ~ learners /\ \A q \in Procs \ {p} : ~ proc[q].inserted,
         learners /\ x.pc = "skills" => x.parents # db.gen
  PROVE  CatalogInv'
<1>1. Ingesting(p) /\ Sound(proc[p].data) /\ (p \in Servers => ~ proc[p].used)
  BY IngestersUnused DEF InTransaction, Ingesting, CatalogInv, TransactionsSound
<1>2. CheckInv' /\ UNCHANGED <<known, hard, verdict>>
  BY CheckUntouched DEF CatalogInv
<1>3. /\ UNCHANGED <<file, db, links, learners, generated, draft, job, graph, starts>>
      /\ DOMAIN graph = Servers /\ starts <= MAX_STARTS
  BY DEF restVars, CatalogInv, Types, CommitsCounted
<1>4. x.pc # "checking" /\ Sound(x.data) /\ ~ (p \in Servers /\ x.used)
  BY <1>1
<1> QED
  BY <1>1, <1>2, <1>3, <1>4, ProcessMoves

LEMMA TransactionStep ==
  ASSUME CatalogInv, NEW p \in Procs,
         Wait(p) \/ DeleteChildren(p) \/ DeleteParents(p) \/ InsertSkills(p)
  PROVE  CatalogInv'
<1>0. /\ proc[p] \in ProcTypes /\ db.gen \in Nat
  BY DEF CatalogInv, Types
<1>1. InTransaction(p) /\ Ingesting(p) /\ UNCHANGED <<checkVars, restVars>>
  BY DEF Wait, DeleteChildren, DeleteParents, InsertSkills, InTransaction, Ingesting
<1>2. CheckInv' /\ UNCHANGED <<known, hard, verdict>>
  BY <1>1, CheckUntouched DEF CatalogInv
<1>3. proc[p].inserted => proc[p].pc = "committing"
  BY DEF CatalogInv, OneInserts
<1>4. Deleted(p) \in {0, db.gen} /\ Deleted(p) \in Nat
  BY <1>0 DEF Deleted
<1>5. ASSUME proc' = [proc EXCEPT ![p] = Through(p)] PROVE CatalogInv'
  BY <1>1, <1>2, <1>5, EndsWithoutCommit
<1>6. SawItem(p) \in BOOLEAN
  BY <1>0 DEF ProcTypes, SawItem
<1>7. CASE Wait(p)
  <2> DEFINE x == [proc[p] EXCEPT !.saw = db.gen, !.item = SawItem(p)]
  <2>1. proc' = [proc EXCEPT ![p] = x] /\ proc[p].pc \in {"children", "parents"}
    BY <1>7 DEF Wait
  <2>2. /\ x \in ProcTypes /\ x.pc = proc[p].pc /\ x.data = proc[p].data /\ x.used = proc[p].used
        /\ x.inserted = proc[p].inserted
    BY <1>0, <1>6 DEF ProcTypes
  <2> HIDE DEF x
  <2> QED
    BY <1>1, <1>3, <2>1, <2>2, TransactionGoesOn
<1>8. CASE DeleteChildren(p)
  <2> DEFINE x == [proc[p] EXCEPT !.pc = "parents", !.saw = None,
                                  !.children = Deleted(p), !.item = SawItem(p)]
  <2>1. proc' = [proc EXCEPT ![p] = x] /\ proc[p].pc = "children"
    BY <1>8 DEF DeleteChildren
  <2>2. /\ x \in ProcTypes /\ x.pc = "parents" /\ x.data = proc[p].data /\ x.used = proc[p].used
        /\ x.inserted = proc[p].inserted
    BY <1>0, <1>4, <1>6 DEF ProcTypes
  <2> HIDE DEF x
  <2> QED
    BY <1>1, <1>3, <2>1, <2>2, TransactionGoesOn
<1>9. CASE DeleteParents(p)
  <2>1. CASE Deleted(p) # 0 /\ StillReferred(p)
    BY <1>5, <1>9, <2>1 DEF DeleteParents
  <2>2. CASE ~ (Deleted(p) # 0 /\ StillReferred(p))
    <3> DEFINE x == [proc[p] EXCEPT !.pc = "skills", !.saw = None, !.parents = Deleted(p)]
    <3>1. proc' = [proc EXCEPT ![p] = x] /\ proc[p].pc = "parents"
      BY <1>9, <2>2 DEF DeleteParents
    <3>2. /\ x \in ProcTypes /\ x.pc = "skills" /\ x.data = proc[p].data /\ x.used = proc[p].used
          /\ x.inserted = proc[p].inserted /\ x.parents = Deleted(p)
      BY <1>0, <1>4 DEF ProcTypes
    <3>3. learners => Deleted(p) # db.gen
      BY <2>2 DEF StillReferred, CatalogInv, LearnersHold
    <3> HIDE DEF x
    <3> QED
      BY <1>1, <1>3, <3>1, <3>2, <3>3, TransactionGoesOn
  <2> QED
    BY <2>1, <2>2
<1>10. CASE InsertSkills(p)
  <2>1. CASE proc[p].parents # db.gen
    BY <1>5, <1>10, <2>1 DEF InsertSkills
  <2>2. CASE proc[p].parents = db.gen
    <3> DEFINE x == [proc[p] EXCEPT !.pc = "committing", !.inserted = TRUE]
    <3>1. /\ proc[p].pc = "skills" /\ \A q \in Procs \ {p} : ~ proc[q].inserted
          /\ proc' = [proc EXCEPT ![p] = x]
      BY <1>10, <2>2 DEF InsertSkills
    <3>2. /\ x \in ProcTypes /\ x.pc = "committing" /\ x.data = proc[p].data /\ x.used = proc[p].used
          /\ x.inserted /\ x.parents = proc[p].parents
      BY <1>0 DEF ProcTypes
    <3>3. ~ learners
      BY <2>2, <3>1 DEF CatalogInv, LearnersHold
    <3> HIDE DEF x
    <3> QED
      BY <1>1, <2>2, <3>1, <3>2, <3>3, TransactionGoesOn
  <2> QED
    BY <2>1, <2>2
<1> QED
  BY <1>7, <1>8, <1>9, <1>10

LEMMA CrashStep ==
  ASSUME CatalogInv, NEW p \in Procs, Crash(p)
  PROVE  CatalogInv'
<1>1. Idle \in ProcTypes /\ Idle.pc = "off" /\ ~ Idle.used /\ ~ Idle.inserted
  BY ThroughTypes DEF CatalogInv
<1>2. /\ proc' = [proc EXCEPT ![p] = Idle]
      /\ UNCHANGED <<file, db, links, learners, generated, draft, job, starts>> /\ starts <= MAX_STARTS
      /\ DOMAIN graph' = Servers /\ \A s \in Servers \ {p} : graph'[s] = graph[s]
  BY DEF Crash, CatalogInv, Types, CommitsCounted
<1>3. CheckInv' /\ (UNCHANGED <<known, hard, verdict>> \/ \A q \in Procs \ {p} : proc[q].pc # "checking")
  BY CheckUntouched, ForgetKeeps DEF Crash, CatalogInv, WalkIsOnes
<1> QED
  BY <1>1, <1>2, <1>3, ProcessMoves

LEMMA FailStep ==
  ASSUME CatalogInv, NEW p \in Procs, Fail(p)
  PROVE  CatalogInv'
<1> DEFINE x == Through(p)
<1>1. /\ proc[p].pc \notin {"off", "up"} /\ proc' = [proc EXCEPT ![p] = x] /\ UNCHANGED restVars
      /\ (proc[p].pc = "checking" /\ Forget) \/ UNCHANGED checkVars
  BY DEF Fail
<1>2. CheckInv' /\ (UNCHANGED <<known, hard, verdict>> \/ proc[p].pc = "checking")
  BY <1>1, CheckUntouched, ForgetKeeps DEF CatalogInv
<1>3. CASE Ingesting(p)
  BY <1>1, <1>2, <1>3, EndsWithoutCommit
<1>4. CASE ~ Ingesting(p)
  <2>1. /\ x \in ProcTypes /\ x.pc \in {"up", "off"} /\ ~ x.inserted /\ x.used = proc[p].used
        /\ p \in Servers => x.pc = "up"
    BY ThroughTypes DEF CatalogInv
  <2>2. proc[p] \in ProcTypes /\ proc[p].pc \in {"loading", "building"}
    BY <1>1, <1>4 DEF Ingesting, CatalogInv, Types, ProcTypes
  <2>3. p \in Servers /\ x.used => learners /\ graph[p] = None
    BY <2>1, <2>2 DEF CatalogInv, UsedServers, ReadsWhole
  <2>4. /\ UNCHANGED <<file, db, links, learners, generated, draft, job, graph, starts>>
        /\ DOMAIN graph = Servers /\ starts <= MAX_STARTS
    BY <1>1 DEF restVars, CatalogInv, Types, CommitsCounted
  <2>5. UNCHANGED <<known, hard, verdict>>
    BY <1>2, <2>2
  <2> HIDE DEF x
  <2> QED
    BY <1>1, <1>2, <2>1, <2>3, <2>4, <2>5, ProcessMoves
<1> QED
  BY <1>3, <1>4

LEMMA ReadSkillsStep ==
  ASSUME CatalogInv, NEW s \in Servers, ReadSkills(s)
  PROVE  CatalogInv'
<1> DEFINE x == [proc[s] EXCEPT !.pc = "building", !.skillRows = db.data]
<1>1. /\ s \in Procs /\ proc[s].pc = "loading" /\ UNCHANGED <<checkVars, restVars>>
      /\ proc' = [proc EXCEPT ![s] = x]
  BY DEF ReadSkills, Procs
<1>2. /\ x \in ProcTypes /\ x.pc = "building" /\ x.skillRows = db.data
      /\ x.used = proc[s].used /\ x.inserted = proc[s].inserted
  BY <1>1 DEF CatalogInv, Types, ProcTypes
<1>3. ~ proc[s].inserted /\ (proc[s].used => learners /\ graph[s] = None)
  BY <1>1 DEF CatalogInv, OneInserts, UsedServers, ReadsWhole
<1>4. CheckInv' /\ UNCHANGED <<known, hard, verdict>>
  BY <1>1, CheckUntouched DEF CatalogInv
<1>5. /\ UNCHANGED <<file, db, links, learners, generated, draft, job, graph, starts>>
      /\ DOMAIN graph = Servers /\ starts <= MAX_STARTS
  BY <1>1 DEF restVars, CatalogInv, Types, CommitsCounted
<1> HIDE DEF x
<1> QED
  BY <1>1, <1>2, <1>3, <1>4, <1>5, ProcessMoves

LEMMA ReadRestStep ==
  ASSUME CatalogInv, NEW s \in Servers, ReadRest(s)
  PROVE  CatalogInv'
<1> DEFINE x == Through(s)
<1>1. /\ s \in Procs /\ proc[s].pc = "building" /\ proc' = [proc EXCEPT ![s] = x]
      /\ graph' = [graph EXCEPT ![s] = Build(proc[s].skillRows, db.data)]
      /\ UNCHANGED <<checkVars, file, db, links, learners, generated, draft, job, starts>>
  BY DEF ReadRest, Procs
<1>2. /\ x \in ProcTypes /\ x.pc = "up" /\ x.used = proc[s].used /\ ~ x.inserted
  BY <1>1, ThroughTypes DEF CatalogInv
<1>3. proc[s].used => learners /\ proc[s].skillRows = db.data
  BY <1>1 DEF CatalogInv, UsedServers, ReadsWhole
<1>4. CheckInv' /\ UNCHANGED <<known, hard, verdict>>
  BY <1>1, CheckUntouched DEF CatalogInv
<1>5. /\ DOMAIN graph' = Servers /\ \A t \in Servers \ {s} : graph'[t] = graph[t]
      /\ graph'[s] = Build(proc[s].skillRows, db.data) /\ starts <= MAX_STARTS
  BY <1>1 DEF CatalogInv, Types, CommitsCounted
<1> HIDE DEF x
<1> QED
  BY <1>1, <1>2, <1>3, <1>4, <1>5, ProcessMoves

LEMMA CommitStep ==
  ASSUME CatalogInv, NEW p \in Procs, Commit(p)
  PROVE  CatalogInv'
<1> DEFINE x == [Through(p) EXCEPT !.pc = IF p \in Servers THEN "loading" ELSE "off"]
           d == proc[p].data
<1>1. /\ proc[p].pc = "committing" /\ db' = [gen |-> db.gen + 1, data |-> d]
      /\ links' = [r \in IdsOf(d.resources) |-> (CHOOSE y \in d.resources : y.id = r).link]
      /\ generated' = {} /\ proc' = [proc EXCEPT ![p] = x]
      /\ UNCHANGED <<checkVars, file, learners, draft, graph, job, starts>>
  BY DEF Commit
<1>2. /\ x \in ProcTypes /\ x.pc \in {"loading", "off"} /\ ~ x.inserted
      /\ x.used = proc[p].used
  <2>1. Through(p) \in ProcTypes /\ Through(p).used = proc[p].used /\ ~ Through(p).inserted
    BY ThroughTypes DEF CatalogInv
  <2> QED
    BY <2>1 DEF ProcTypes
<1>3. Sound(d) /\ d \in Known /\ d # None
  BY <1>1, DatasetsKnown DEF CatalogInv, TransactionsSound, InTransaction, Sound
<1>4. ~ learners
  BY <1>1 DEF CatalogInv, LearnersHold
<1>5. /\ proc[p].inserted /\ \A q \in Procs \ {p} : ~ proc[q].inserted /\ proc[q].pc # "committing"
  BY <1>1 DEF CatalogInv, OneInserts
<1>6. \A s \in Servers : ~ proc[s].used
  BY <1>4 DEF CatalogInv, UsedServers, ReadsWhole
<1> HIDE DEF x, d
<1>7. /\ proc' \in [Procs -> ProcTypes] /\ proc'[p] = x
      /\ \A q \in Procs \ {p} : proc'[q] = proc[q]
      /\ IsFiniteSet(InFlight') /\ Cardinality(InFlight') \in Nat /\ Cardinality(InFlight) \in Nat
      /\ Ingesting(p) /\ ~ Ingesting(p)' => Cardinality(InFlight') + 1 = Cardinality(InFlight)
  BY <1>1, <1>2, FlightAfter DEF CatalogInv
<1>8. Cardinality(InFlight') + 1 = Cardinality(InFlight)
  BY <1>1, <1>2, <1>7 DEF Ingesting
<1>9. db.gen \in Nat /\ db'.gen = db.gen + 1 /\ db'.gen \in Nat /\ db'.gen # 0 /\ db'.data = d
  BY <1>1 DEF CatalogInv, Types
<1>10. CheckInv' /\ UNCHANGED <<known, hard, verdict>>
  BY <1>1, CheckUntouched DEF CatalogInv
<1>11. Types'
  BY <1>1, <1>3, <1>7, <1>9 DEF CatalogInv, Types
<1>12. CommitsCounted'
  BY <1>1, <1>7, <1>8, <1>9, BoundsAssumption DEF CatalogInv, CommitsCounted
<1>13. WalkIsOnes'
  BY <1>1, <1>2, <1>7, <1>10 DEF CatalogInv, WalkIsOnes
<1>14. TransactionsSound'
  BY <1>2, <1>7 DEF CatalogInv, TransactionsSound, InTransaction
<1>15. CommittedSound'
  <2>1. \A r \in IdsOf(d.resources) : (CHOOSE y \in d.resources : y.id = r).link \in LinkStatuses
    BY <1>3 DEF IdsOf, Sound, RowsAgree, UrlsUsable
  <2>2. links' \in [IdsOf(d.resources) -> LinkStatuses]
    BY <1>1, <2>1
  <2> QED
    BY <1>3, <1>9, <2>2 DEF CommittedSound
<1>16. OneInserts'
  BY <1>2, <1>5, <1>7 DEF OneInserts
<1>17. LearnersHold' /\ ItemsOfCatalog'
  BY <1>1, <1>4 DEF CatalogInv, LearnersHold, ItemsOfCatalog
<1>18. JobsSound'
  BY <1>1 DEF CatalogInv, JobsSound
<1>19. UsedServers'
  <2>1. \A s \in Servers : ~ proc'[s].used
    BY <1>2, <1>6, <1>7 DEF Procs
  <2> QED
    BY <2>1 DEF UsedServers
<1> QED
  BY <1>10, <1>11, <1>12, <1>13, <1>14, <1>15, <1>16, <1>17, <1>18, <1>19 DEF CatalogInv

\* What others write: nothing of it is a process's.
LEMMA OthersWrite ==
  ASSUME CatalogInv, UNCHANGED <<checkVars, file, db, proc, graph, starts>>,
         learners' \in BOOLEAN, learners => learners', LearnersHold',
         ItemsOfCatalog', JobsSound', DOMAIN job' = Jobs,
         links' = links \/ (db.gen # 0 => links' \in [IdsOf(db.data.resources) -> LinkStatuses])
  PROVE  CatalogInv'
<1>1. CheckInv' /\ UNCHANGED <<known, hard, verdict>>
  BY CheckUntouched DEF CatalogInv
<1>2. Types' /\ CommitsCounted' /\ OneInserts'
  BY DEF CatalogInv, Types, CommitsCounted, InFlight, Ingesting, OneInserts
<1>3. WalkIsOnes' /\ TransactionsSound' /\ CommittedSound'
  BY <1>1 DEF CatalogInv, WalkIsOnes, TransactionsSound, InTransaction, CommittedSound
<1>4. UsedServers'
  BY DEF CatalogInv, UsedServers, ReadsWhole
<1> QED
  BY <1>1, <1>2, <1>3, <1>4 DEF CatalogInv

LEMMA IntakeStep ==
  ASSUME CatalogInv, NEW s \in Servers, Intake(s)
  PROVE  CatalogInv'
<1>1. /\ UNCHANGED <<checkVars, file, db, links, generated, draft, proc, graph, job, starts>>
      /\ learners' = TRUE /\ db.gen # 0
      /\ \A q \in Procs : ~ (InTransaction(q) /\ proc[q].parents = db.gen)
  BY DEF Intake, ParentsFree
<1>2. LearnersHold'
  BY <1>1 DEF LearnersHold, CatalogInv, OneInserts, InTransaction
<1>3. ItemsOfCatalog' /\ JobsSound' /\ DOMAIN job' = Jobs
  BY <1>1 DEF CatalogInv, ItemsOfCatalog, JobsSound, Types
<1> QED
  BY <1>1, <1>2, <1>3, OthersWrite

LEMMA EraseDemoStep ==
  ASSUME CatalogInv, NEW s \in Servers, EraseDemo(s)
  PROVE  CatalogInv'
<1>1. /\ UNCHANGED <<checkVars, file, db, links, generated, graph, job, starts>>
      /\ ~ learners' /\ learners' = FALSE
      /\ draft' = IF draft = None THEN None ELSE [draft EXCEPT !.erased = TRUE]
      /\ proc' = [p \in Procs |-> [proc[p] EXCEPT !.used = FALSE]]
  BY DEF EraseDemo
<1>2. /\ proc' \in [Procs -> ProcTypes]
      /\ \A p \in Procs :
           /\ ~ proc'[p].used /\ proc'[p].pc = proc[p].pc /\ proc'[p].data = proc[p].data
           /\ proc'[p].parents = proc[p].parents /\ proc'[p].inserted = proc[p].inserted
  <2>1. ASSUME NEW p \in Procs
        PROVE  /\ proc'[p] \in ProcTypes /\ ~ proc'[p].used /\ proc'[p].pc = proc[p].pc
               /\ proc'[p].data = proc[p].data /\ proc'[p].parents = proc[p].parents
               /\ proc'[p].inserted = proc[p].inserted
    <3>1. proc[p] \in ProcTypes
      BY DEF CatalogInv, Types
    <3>2. proc'[p] = [proc[p] EXCEPT !.used = FALSE]
      BY <1>1
    <3> QED
      BY <3>1, <3>2 DEF ProcTypes
  <2>2. DOMAIN proc' = Procs /\ proc' = [p \in Procs |-> proc'[p]]
    BY <1>1
  <2> QED
    BY <2>1, <2>2
<1>3. CheckInv' /\ UNCHANGED <<known, hard, verdict>>
  BY <1>1, CheckUntouched DEF CatalogInv
<1>4. InFlight' = InFlight
  BY <1>2 DEF InFlight, Ingesting
<1>5. Types' /\ CommitsCounted'
  BY <1>1, <1>2, <1>4 DEF CatalogInv, Types, CommitsCounted
<1>6. WalkIsOnes'
  BY <1>2, <1>3 DEF CatalogInv, WalkIsOnes, HardEdges
<1>7. TransactionsSound'
  <2>1. \A p \in Procs : InTransaction(p)' => InTransaction(p) /\ Sound(proc[p].data)
    BY <1>2 DEF CatalogInv, TransactionsSound, InTransaction
  <2> QED
    BY <1>2, <2>1 DEF TransactionsSound
<1>8. CommittedSound' /\ JobsSound' /\ LearnersHold'
  BY <1>1 DEF CatalogInv, CommittedSound, JobsSound, LearnersHold
<1>9. OneInserts'
  BY <1>1, <1>2 DEF CatalogInv, OneInserts
<1>10. ItemsOfCatalog'
  BY <1>1 DEF CatalogInv, ItemsOfCatalog
<1>11. UsedServers'
  BY <1>2 DEF UsedServers, Procs
<1> QED
  BY <1>3, <1>5, <1>6, <1>7, <1>8, <1>9, <1>10, <1>11 DEF CatalogInv

LEMMA DraftItemStep ==
  ASSUME CatalogInv, NEW s \in Servers, DraftItem(s)
  PROVE  CatalogInv'
<1>1. /\ UNCHANGED <<checkVars, file, db, links, learners, generated, proc, graph, job, starts>>
      /\ learners /\ generated = {}
  BY DEF DraftItem
<1>2. PICK k \in db.data.skills :
        draft' = [skill |-> k, tags |-> IdsOf({m \in db.data.misconceptions : m.skill = k}),
                  erased |-> FALSE]
  BY DEF DraftItem
<1>3. IdsOf({m \in db.data.misconceptions : m.skill = k}) \subseteq IdsOf(db.data.misconceptions)
  BY DEF IdsOf
<1>4. ItemsOfCatalog'
  BY <1>1, <1>2, <1>3 DEF ItemsOfCatalog
<1>5. LearnersHold' /\ JobsSound' /\ DOMAIN job' = Jobs /\ learners' \in BOOLEAN
  BY <1>1 DEF CatalogInv, LearnersHold, JobsSound, Types
<1> QED
  BY <1>1, <1>4, <1>5, OthersWrite

LEMMA StoreItemStep ==
  ASSUME CatalogInv, StoreItem
  PROVE  CatalogInv'
<1>1. /\ UNCHANGED <<checkVars, file, db, links, learners, proc, graph, job, starts>>
      /\ draft # None /\ generated' \subseteq generated \cup {draft} /\ draft' = None
  BY DEF StoreItem
<1>2. ~ draft.erased => draft.tags \subseteq IdsOf(db.data.misconceptions)
  BY <1>1 DEF CatalogInv, ItemsOfCatalog
<1>3. ItemsOfCatalog'
  BY <1>1, <1>2 DEF CatalogInv, ItemsOfCatalog
<1>4. LearnersHold' /\ JobsSound' /\ DOMAIN job' = Jobs /\ learners' \in BOOLEAN
  BY <1>1 DEF CatalogInv, LearnersHold, JobsSound, Types
<1> QED
  BY <1>1, <1>3, <1>4, OthersWrite

LEMMA LinkJobStep ==
  ASSUME CatalogInv, NEW j \in Jobs, CheckLinks(j) \/ StoreLinks(j)
  PROVE  CatalogInv'
<1>1. UNCHANGED <<checkVars, file, db, learners, generated, draft, proc, graph, starts>>
  BY DEF CheckLinks, StoreLinks
<1>2. LearnersHold' /\ ItemsOfCatalog' /\ learners' \in BOOLEAN
  BY <1>1 DEF CatalogInv, LearnersHold, ItemsOfCatalog, Types
<1>3. DOMAIN job' = Jobs
  BY DEF CheckLinks, StoreLinks, CatalogInv, Types
<1>4. CASE CheckLinks(j)
  <2>1. PICK found \in [DOMAIN links -> Findings] :
          job' = [job EXCEPT ![j] = [r \in {x \in DOMAIN links : found[x] # links[x]} |-> found[r]]]
    BY <1>4 DEF CheckLinks
  <2>2. \A r \in DOMAIN links : found[r] \in LinkStatuses
    BY DEF Findings, CheckUrl, LinkStatuses
  <2>3. /\ job'[j] = [r \in {x \in DOMAIN links : found[x] # links[x]} |-> found[r]]
        /\ \A k \in Jobs \ {j} : job'[k] = job[k]
    BY <2>1 DEF CatalogInv, Types
  <2>4. JobsSound'
    BY <2>2, <2>3 DEF CatalogInv, JobsSound
  <2> QED
    BY <1>1, <1>2, <1>3, <1>4, <2>4, OthersWrite DEF CheckLinks
<1>5. CASE StoreLinks(j)
  <2>1. /\ job[j] # None /\ links' = [r \in DOMAIN links |-> StatusAfter(j, r)]
        /\ job' = [job EXCEPT ![j] = None]
    BY <1>5 DEF StoreLinks
  <2>2. JobsSound'
    BY <2>1 DEF CatalogInv, JobsSound, Types
  <2>3. db.gen # 0 => links' \in [IdsOf(db.data.resources) -> LinkStatuses]
    BY <2>1 DEF CatalogInv, CommittedSound, JobsSound, StatusAfter
  <2> QED
    BY <1>1, <1>2, <1>3, <2>2, <2>3, OthersWrite
<1> QED
  BY <1>4, <1>5

-----------------------------------------------------------------------------
LEMMA CatalogBegins == Init => CatalogInv
<1> SUFFICES ASSUME Init PROVE CatalogInv
  OBVIOUS
<1> USE DEF Init
<1>1. Idle \in ProcTypes /\ Idle.pc = "off" /\ ~ Idle.used /\ ~ Idle.inserted
  BY DEF Idle, ProcTypes
<1>2. CheckInv
  BY CheckInitHolds
<1>3. Types
  BY <1>1 DEF Types, Known, Empty
<1>4. CommitsCounted
  <2>1. InFlight = {}
    BY <1>1 DEF InFlight, Ingesting
  <2> QED
    BY <2>1, FS_EmptySet, BoundsAssumption DEF CommitsCounted, Empty
<1>5. WalkIsOnes /\ TransactionsSound /\ OneInserts /\ UsedServers
  BY <1>1 DEF WalkIsOnes, TransactionsSound, InTransaction, OneInserts, UsedServers, Procs
<1>6. CommittedSound /\ LearnersHold /\ ItemsOfCatalog /\ JobsSound
  BY DEF CommittedSound, LearnersHold, ItemsOfCatalog, JobsSound, Empty
<1> QED
  BY <1>2, <1>3, <1>4, <1>5, <1>6 DEF CatalogInv

LEMMA CatalogStutters ==
  ASSUME CatalogInv, UNCHANGED vars
  PROVE  CatalogInv'
<1>1. UNCHANGED <<checkVars, file, db, links, learners, generated, draft, proc, graph, job, starts>>
  BY DEF vars, catalogVars
<1>2. LearnersHold' /\ ItemsOfCatalog' /\ JobsSound' /\ learners' \in BOOLEAN /\ DOMAIN job' = Jobs
  BY <1>1 DEF CatalogInv, LearnersHold, ItemsOfCatalog, JobsSound, Types
<1> QED
  BY <1>1, <1>2, OthersWrite

LEMMA CatalogStep ==
  ASSUME CatalogInv, Next
  PROVE  CatalogInv'
<1>1. Servers \subseteq Procs
  BY DEF Procs
<1>2. CASE ValidationNext
  BY <1>2, WalkStep, JudgeStep DEF ValidationNext
<1>3. CASE CatalogNext
  BY <1>1, <1>3, ReleaseStep, StoreItemStep, StartStep, ReadSkillsStep, ReadRestStep, IntakeStep,
     EraseDemoStep, DraftItemStep, StartSeedingStep, TransactionStep, CommitStep, CrashStep, FailStep,
     LinkJobStep
     DEF CatalogNext
<1> QED
  BY <1>2, <1>3 DEF Next

LEMMA CatalogInvHolds == Spec => []CatalogInv
<1>1. CatalogInv /\ [Next]_vars => CatalogInv'
  BY CatalogStep, CatalogStutters
<1> QED
  BY CatalogBegins, <1>1, PTL DEF Spec

\* The graph of a sound dataset makes no node of an id that has no row.
LEMMA SoundGraphs ==
  ASSUME NEW d, d # None, RowsAgree(d)
  PROVE  Untyped(Build(d, d)) = {}
<1> DEFINE N == d.skills \cup IdsOf(d.roles) \cup IdsOf(d.misconceptions)
                \cup IdsOf(d.resources) \cup IdsOf(d.items)
<1>1. \A e \in d.edges : e.from \in N /\ e.to \in N
  BY DEF RowsAgree, EdgesKnown
<1>2. \A r \in d.roles : r.id \in N /\ r.needs \subseteq N
  BY DEF RowsAgree, RolesKnown, IdsOf
<1>3. \A r \in d.resources : r.id \in N /\ r.targets \subseteq N
  BY DEF RowsAgree, ResourcesKnown, IdsOf
<1>4. \A i \in d.items : i.id \in N /\ i.skill \in N
  BY DEF RowsAgree, ItemsKnown, IdsOf
<1>5. \A m \in d.misconceptions : m.id \in N /\ m.skill \in N /\ m.root \in N
  BY DEF RowsAgree, MisconceptionsKnown, IdsOf
<1>6. IdsOf(d.resources) \subseteq N
  OBVIOUS
<1> HIDE DEF N
<1> DEFINE E1 == {<<e.from, e.to, e.type>> : e \in d.edges}
           E2 == {<<e.to, e.from, e.type>> : e \in {x \in d.edges : x.type = "RELATED_TO"}}
           E3 == UNION {{<<r.id, s, "REQUIRES">> : s \in r.needs} : r \in d.roles}
           E4 == UNION {{<<r.id, s, "TARGETS">> : s \in r.targets} : r \in d.resources}
           E5 == {<<i.id, i.skill, "ASSESSES">> : i \in d.items}
           E6 == {<<m.id, m.skill, "MISCONCEPTION_OF">> : m \in d.misconceptions}
           E7 == {<<m.id, m.root, "ROOTED_IN">> : m \in d.misconceptions}
           E8 == UNION {{<<m.id, r, "REMEDIATED_BY">> : r \in m.fixes \cap IdsOf(d.resources)}
                        : m \in d.misconceptions}
           Inside(E) == \A e \in E : e[1] \in N /\ e[2] \in N
<1>7. Inside(E1) /\ Inside(E2)
  BY <1>1
<1>8. Inside(E3)
  BY <1>2
<1>9. Inside(E4)
  BY <1>3
<1>10. Inside(E5)
  BY <1>4
<1>11. Inside(E6) /\ Inside(E7)
  BY <1>5
<1>12. Inside(E8)
  BY <1>5, <1>6
<1>13. GraphEdges(d) = E1 \cup E2 \cup E3 \cup E4 \cup E5 \cup E6 \cup E7 \cup E8
  BY Zenon DEF GraphEdges
<1>14. Inside(GraphEdges(d))
  <2> HIDE DEF E1, E2, E3, E4, E5, E6, E7, E8
  <2> QED
    BY <1>7, <1>8, <1>9, <1>10, <1>11, <1>12, <1>13
<1>15. Build(d, d).edges = GraphEdges(d)
      /\ Build(d, d).nodes.Skill \cup Build(d, d).nodes.Other = N
  BY DEF Build, TypedNodes, N
<1>16. PICK g : g = Build(d, d)
  OBVIOUS
<1>17. \A e \in g.edges : {e[1], e[2]} \subseteq N
  BY <1>14, <1>15, <1>16
<1>18. UNION {{e[1], e[2]} : e \in g.edges} \subseteq N
  BY <1>17
<1>19. g.nodes.Skill \cup g.nodes.Other = N
  BY <1>15, <1>16
<1>20. Untyped(g) = (UNION {{e[1], e[2]} : e \in g.edges}) \ (g.nodes.Skill \cup g.nodes.Other)
  BY Zenon DEF Untyped
<1>21. \A U, V : U \subseteq N /\ V = N => U \ V = {}
  OBVIOUS
<1>22. Untyped(g) = {}
  BY <1>18, <1>19, <1>20, <1>21, Zenon
<1> QED
  BY <1>16, <1>22

\* What any ingestion commits, crashes, failures and rival ingestions included,
\* has no cycle of hard prerequisites, and the references no foreign key guards
\* hold in it, those of late link jobs too, and those of items generated later
\* for a learner who was not erased meanwhile (catalog/ingest.py,
\* graph/validation.py).
THEOREM CatalogAlwaysSound == Spec => []CatalogSound
<1>1. CatalogInv => CatalogSound
  <2> SUFFICES ASSUME CatalogInv PROVE CatalogSound
    OBVIOUS
  <2>1. TypeOK
    <3>1. CheckTypeOK
      BY DEF CatalogInv, CheckInv
    <3>2. Cardinality(InFlight) \in Nat /\ db.gen \in Nat
      BY FS_CardinalityType DEF CatalogInv, CommitsCounted, Types
    <3>3. db.gen \in 0..MAX_STARTS
      BY <3>2, BoundsAssumption DEF CatalogInv, CommitsCounted
    <3> QED
      BY <3>1, <3>3, BoundsAssumption DEF TypeOK, CatalogInv, CommittedSound, Types, ProcTypes
  <2>2. ASSUME db.gen # 0
        PROVE  /\ Acyclic(Ids, HardEdges(db.data))
               /\ links \in [IdsOf(db.data.resources) -> LinkStatuses]
               /\ \A m \in db.data.misconceptions : m.fixes \subseteq IdsOf(db.data.resources)
               /\ \A i \in db.data.items \cup {g \in generated : ~ g.erased} :
                    i.tags \subseteq IdsOf(db.data.misconceptions)
    <3>1. Sound(db.data) /\ links \in [IdsOf(db.data.resources) -> LinkStatuses]
      BY <2>2 DEF CatalogInv, CommittedSound
    <3>2. \A i \in generated : ~ i.erased => i.tags \subseteq IdsOf(db.data.misconceptions)
      BY DEF CatalogInv, ItemsOfCatalog
    <3> QED
      BY <3>1, <3>2 DEF Sound, RowsAgree, MisconceptionsKnown, ItemsKnown
  <2> QED
    BY <2>1, <2>2 DEF CatalogSound
<1> QED
  BY <1>1, CatalogInvHolds, PTL

\* A server that starts when there are learners serves the committed catalog,
\* whole, as long as there are, its own graph or one loaded for the request: no
\* ingestion, its own or another's, can come between (bootstrap.py, main.py,
\* api/deps.py).
THEOREM RestartAlwaysServes == Spec => []RestartServesTheCatalog
<1>1. CatalogInv => RestartServesTheCatalog
  <2> SUFFICES ASSUME CatalogInv, NEW s \in Servers, proc[s].pc = "up", proc[s].used
               PROVE  Served(s) = Build(db.data, db.data) /\ Untyped(Served(s)) = {}
    BY DEF RestartServesTheCatalog
  <2>1. learners /\ graph[s] \in {None, Build(db.data, db.data)}
    BY DEF CatalogInv, UsedServers, ReadsWhole
  <2>2. Sound(db.data) /\ db.data # None
    BY <2>1 DEF CatalogInv, LearnersHold, CommittedSound
  <2>3. Served(s) = Build(db.data, db.data)
    BY <2>1 DEF Served
  <2> QED
    BY <2>2, <2>3, SoundGraphs DEF Sound
<1> QED
  BY <1>1, CatalogInvHolds, PTL

\* Inside an ingestion too, whoever validates, crashes or takes turns, a dataset
\* the check accepts has no cycle and one it refuses has one.
THEOREM VerdictStaysRight == Spec => []VerdictIsRight
<1>1. CatalogInv => VerdictIsRight
  BY DEF CatalogInv, CheckInv
<1> QED
  BY <1>1, CatalogInvHolds, PTL

==============================================================================
