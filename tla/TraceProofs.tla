----------------------------- MODULE TraceProofs -----------------------------
(***************************************************************************)
(* The panel follows its run and the audit is kept, for any number of      *)
(* requests, run ids and connections and every bound of the bus.           *)
(*                                                                         *)
(* For the panel the invariant looks along the way of an event: what the   *)
(* bus keeps of a run, what a stream has queued and what the page shows    *)
(* are each in order, and whatever of the first two the page does not show *)
(* yet comes after everything it shows.  For the audit it looks at keys:   *)
(* the row of a request carries its id or its suffixed id, so only another *)
(* request under the same id can take a key between look-up and insert.    *)
(***************************************************************************)
EXTENDS MCTrace, FiniteSetTheorems, SequenceTheorems, TLAPS

Entries == [run : RunIds, events : Seq(Events)]

\* The requests that have begun are finitely many.
Begun == {r \in Requests : ctx[r].phase # "idle"}
BegunFinite == IsFiniteSet(Begun)
IdleBlank == \A r \in Requests : ctx[r].phase = "idle" => ctx[r].steps = <<>>

\* The bus keeps one list per run.
OneListPerRun ==
  \A m, n \in DOMAIN history : history[m].run = history[n].run => m = n

\* What is kept, queued and shown of a run are its steps, in order.
StepsOf(s, i) == InOrder(s) /\ \A e \in ToSet(s) : OfRun(e, i)
StepsKept ==
  \A n \in DOMAIN history :
    history[n].events # <<>> /\ StepsOf(history[n].events, history[n].run)
StepsQueued == \A c \in Conns : StepsOf(conns[c].queue, conns[c].run)
StepsShown == \A i \in Watched : StepsOf(panel[i].shown, i)

\* A stream that still delivers is the one its panel listens to.
OneStream ==
  /\ \A c \in Conns : conns[c].phase = "streaming" =>
       conns[c].run \in Watched /\ panel[conns[c].run].conn = c
  /\ \A i \in Watched : panel[i].conn # None =>
       conns[panel[i].conn].phase = "streaming" /\ conns[panel[i].conn].run = i

\* Shown already, or after everything shown of its request.
ShownOrLater(e, s) ==
  e \in ToSet(s) \/ \A d \in ToSet(s) : d[1] = e[1] => d[2] < e[2]
KeptInTime ==
  \A i \in Watched : \A e \in ToSet(EventsOf(i)) : ShownOrLater(e, panel[i].shown)
QueuedInTime ==
  \A i \in Watched : panel[i].conn # None =>
    \A e \in ToSet(conns[panel[i].conn].queue) : ShownOrLater(e, panel[i].shown)

\* A connected panel shows, or is about to be sent, all that is kept.
NothingMissed ==
  \A i \in Watched : panel[i].conn # None =>
    ToSet(EventsOf(i)) \subseteq ToSet(panel[i].shown) \cup ToSet(conns[panel[i].conn].queue)

\* Within its bounds the bus keeps every step.
AllKept ==
  \A i \in RunIds : InBounds(i) =>
    \A r \in Under(i) : \A n \in Streamed(r) : <<r, n>> \in ToSet(EventsOf(i))

NoneSkipped == \A i \in Watched : InBounds(i) => SkipsNone(i)

BusInv ==
  /\ TypeOK /\ BegunFinite /\ IdleBlank /\ OneListPerRun
  /\ StepsKept /\ StepsQueued /\ StepsShown
  /\ OneStream /\ KeptInTime /\ QueuedInTime /\ NothingMissed
  /\ AllKept /\ NoneSkipped

-----------------------------------------------------------------------------
(* Sequences.                                                              *)

\* A sequence without its entry at k.
LEMMA WithoutOne ==
  ASSUME NEW S, NEW s \in Seq(S), NEW k \in 1..Len(s)
  PROVE  /\ RemoveAt(s, k) \in Seq(S)
         /\ Len(RemoveAt(s, k)) = Len(s) - 1
         /\ \A n \in 1..Len(s) - 1 : RemoveAt(s, k)[n] = IF n < k THEN s[n] ELSE s[n + 1]
<1> DEFINE before == SubSeq(s, 1, k - 1)
           after == SubSeq(s, k + 1, Len(s))
<1>0. Len(s) \in Nat /\ k \in Nat /\ k <= Len(s) /\ k >= 1 /\ k - 1 \in Int /\ k + 1 \in Int
  BY LenProperties
<1>1. /\ before \in Seq(S) /\ Len(before) = k - 1
      /\ \A n \in 1..k - 1 : before[n] = s[n]
  <2>1. \A n \in 1..k - 1 : s[n] \in S
    BY <1>0, ElementOfSeq
  <2> QED
    BY <1>0, <2>1, SubSeqProperties
<1>2. /\ after \in Seq(S) /\ Len(after) = Len(s) - k
      /\ \A n \in 1..Len(s) - k : after[n] = s[k + n]
  <2>1. \A n \in k + 1..Len(s) : s[n] \in S
    BY <1>0, ElementOfSeq
  <2>2. /\ after \in Seq(S) 
        /\ Len(after) = IF k + 1 <= Len(s) THEN Len(s) - (k + 1) + 1 ELSE 0
        /\ \A n \in 1..Len(s) - (k + 1) + 1 : after[n] = s[k + 1 + n - 1]
    BY <1>0, <2>1, SubSeqProperties
  <2> QED
    BY <1>0, <2>2
<1> HIDE DEF before, after
<1>3. /\ before \o after \in Seq(S)
      /\ Len(before \o after) = Len(before) + Len(after)
      /\ \A n \in 1..Len(before) + Len(after) : (before \o after)[n] =
           IF n <= Len(before) THEN before[n] ELSE after[n - Len(before)]
  BY <1>1, <1>2, ConcatProperties
<1>4. RemoveAt(s, k) = before \o after
  BY DEF RemoveAt, before, after
<1>5. ASSUME NEW n \in 1..Len(s) - 1
      PROVE  (before \o after)[n] = IF n < k THEN s[n] ELSE s[n + 1]
  <2>0. Len(before) = k - 1 /\ Len(after) = Len(s) - k
    BY <1>1, <1>2, Zenon
  <2>1. n \in 1..Len(before) + Len(after)
    BY <1>0, <2>0
  <2>2. CASE n < k
    BY <1>0, <1>1, <1>3, <2>1, <2>2
  <2>3. CASE n >= k
    <3>1. n - Len(before) \in 1..Len(s) - k /\ k + (n - Len(before)) = n + 1
      BY <1>0, <1>1, <2>3
    <3> QED
      BY <1>0, <1>1, <1>2, <1>3, <2>1, <2>3, <3>1
  <2>4. n < k \/ n >= k
    BY <1>0
  <2> QED
    BY <2>2, <2>3, <2>4, Zenon
<1>6. Len(before) + Len(after) = Len(s) - 1
  BY <1>0, <1>1, <1>2
<1>7. /\ before \o after \in Seq(S)
      /\ Len(before \o after) = Len(s) - 1
      /\ \A n \in 1..Len(s) - 1 : (before \o after)[n] = IF n < k THEN s[n] ELSE s[n + 1]
  BY <1>3, <1>5, <1>6, Zenon
<1> QED
  BY <1>4, <1>7, Zenon

\* A sequence that repeats nothing is no longer than what it takes from.
LEMMA NoLongerThan ==
  ASSUME NEW n \in Nat, NEW T, IsFiniteSet(T), NEW f \in [1..n -> T],
         \A j, k \in 1..n : f[j] = f[k] => j = k
  PROVE  n <= Cardinality(T)
<1>1. f \in Injection(1..n, T)
  BY DEF Injection, IsInjective
<1>2. Cardinality(1..n) = n
  BY FS_Interval
<1> QED
  BY <1>1, <1>2, FS_Injection

LEMMA TwoOf ==
  ASSUME NEW x, NEW y, x # y
  PROVE  Cardinality({x, y}) = 2
<1>1. IsFiniteSet({y}) /\ Cardinality({y}) = 1
  BY FS_Singleton
<1>2. Cardinality({y} \cup {x}) = Cardinality({y}) + 1
  <2>1. x \notin {y}
    OBVIOUS
  <2> QED
    BY <1>1, <2>1, FS_AddElement, Zenon
<1>3. {x, y} = {y} \cup {x}
  OBVIOUS
<1> QED
  BY <1>1, <1>2, <1>3

\* What the members of an appended or shortened sequence are, and its order.
LEMMA AppendedSteps ==
  ASSUME NEW s \in Seq(Events), NEW e \in Events
  PROVE  /\ Append(s, e) \in Seq(Events)
         /\ ToSet(Append(s, e)) = ToSet(s) \cup {e}
         /\ InOrder(s) /\ (\A d \in ToSet(s) : d[1] = e[1] => d[2] < e[2])
              => InOrder(Append(s, e))
<1>1. /\ Append(s, e) \in Seq(Events) /\ Len(s) \in Nat
      /\ Len(Append(s, e)) = Len(s) + 1
      /\ DOMAIN Append(s, e) = 1..Len(s) + 1 /\ DOMAIN s = 1..Len(s)
      /\ \A n \in 1..Len(s) : Append(s, e)[n] = s[n]
      /\ Append(s, e)[Len(s) + 1] = e
  BY AppendProperties, LenProperties
<1>2. ToSet(Append(s, e)) = ToSet(s) \cup {e}
  BY <1>1 DEF ToSet
<1>3. ASSUME InOrder(s), \A d \in ToSet(s) : d[1] = e[1] => d[2] < e[2],
             NEW m \in DOMAIN Append(s, e), NEW n \in DOMAIN Append(s, e), m < n
      PROVE  Append(s, e)[m][1] # Append(s, e)[n][1] \/ Append(s, e)[m][2] < Append(s, e)[n][2]
  <2>1. m \in 1..Len(s)
    BY <1>1, <1>3
  <2>2. s[m] \in ToSet(s)
    BY <1>1, <2>1 DEF ToSet
  <2>3. CASE n \in 1..Len(s)
    BY <1>1, <1>3, <2>1, <2>3 DEF InOrder
  <2>4. CASE n = Len(s) + 1
    BY <1>1, <1>3, <2>1, <2>2, <2>4
  <2> QED
    BY <1>1, <2>3, <2>4
<1> QED
  BY <1>1, <1>2, <1>3 DEF InOrder

LEMMA ShortenedSteps ==
  ASSUME NEW s \in Seq(Events), s # <<>>
  PROVE  /\ Head(s) \in Events /\ Tail(s) \in Seq(Events)
         /\ ToSet(s) = {Head(s)} \cup ToSet(Tail(s))
         /\ InOrder(s) => /\ InOrder(Tail(s))
                          /\ \A d \in ToSet(Tail(s)) : d[1] = Head(s)[1] => Head(s)[2] < d[2]
<1>1. /\ Head(s) \in Events /\ Tail(s) \in Seq(Events) /\ Head(s) = s[1]
      /\ Len(s) \in Nat /\ Len(s) >= 1 /\ Len(Tail(s)) = Len(s) - 1
      /\ DOMAIN s = 1..Len(s) /\ DOMAIN Tail(s) = 1..Len(s) - 1
      /\ \A n \in 1..Len(s) - 1 : Tail(s)[n] = s[n + 1]
  BY HeadTailProperties, LenProperties, EmptySeq
<1>2. ToSet(s) = {Head(s)} \cup ToSet(Tail(s))
  <2>1. ASSUME NEW n \in 1..Len(s) PROVE s[n] \in {Head(s)} \cup ToSet(Tail(s))
    <3>1. CASE n = 1
      BY <1>1, <3>1
    <3>2. CASE n # 1
      <4>1. n - 1 \in 1..Len(s) - 1 /\ s[n] = Tail(s)[n - 1]
        BY <1>1, <3>2
      <4> QED
        BY <1>1, <4>1 DEF ToSet
    <3> QED
      BY <3>1, <3>2
  <2>2. ASSUME NEW n \in 1..Len(s) - 1 PROVE Tail(s)[n] \in ToSet(s)
    BY <1>1 DEF ToSet
  <2>3. Head(s) \in ToSet(s)
    BY <1>1 DEF ToSet
  <2> QED
    BY <1>1, <2>1, <2>2, <2>3 DEF ToSet
<1>3. ASSUME InOrder(s)
      PROVE  /\ InOrder(Tail(s))
             /\ \A d \in ToSet(Tail(s)) : d[1] = Head(s)[1] => Head(s)[2] < d[2]
  <2>1. ASSUME NEW n \in 1..Len(s) - 1 
        PROVE  Tail(s)[n][1] = Head(s)[1] => Head(s)[2] < Tail(s)[n][2]
    BY <1>1, <1>3 DEF InOrder
  <2>2. InOrder(Tail(s))
    BY <1>1, <1>3 DEF InOrder
  <2> QED
    BY <1>1, <2>1, <2>2 DEF ToSet
<1> QED
  BY <1>1, <1>2, <1>3

-----------------------------------------------------------------------------
(* The history of the bus.                                                 *)

\* A run's list is the one entry it has.
LEMMA ListOfEntry ==
  ASSUME OneListPerRun, NEW n \in DOMAIN history
  PROVE  EventsOf(history[n].run) = history[n].events
BY DEF OneListPerRun, EventsOf, Recorded

LEMMA ListOfRun ==
  ASSUME TypeOK, NEW i \in RunIds
  PROVE  EventsOf(i) \in Seq(Events) /\ Len(EventsOf(i)) <= MAX_EVENTS_PER_RUN
<1>1. CASE Recorded(i) = {}
  <2>1. EventsOf(i) = <<>>
    BY <1>1 DEF EventsOf
  <2> QED
    BY <2>1, EmptySeq, BoundsAssumption
<1>2. CASE Recorded(i) # {}
  <2>1. PICK n \in DOMAIN history : EventsOf(i) = history[n].events
    BY <1>2 DEF EventsOf, Recorded
  <2>2. history \in Seq(Entries) /\ Len(history[n].events) <= MAX_EVENTS_PER_RUN
    BY DEF TypeOK, Entries
  <2>3. history[n] \in Entries
    BY <2>2, LenProperties, ElementOfSeq
  <2> QED
    BY <2>1, <2>2, <2>3 DEF Entries
<1> QED
  BY <1>1, <1>2

ListWith(e, i) ==
  IF Len(EventsOf(i)) < MAX_EVENTS_PER_RUN THEN Append(EventsOf(i), e) ELSE EventsOf(i)

\* A publish leaves every list but that of its run as it is, save the one it
\* may have to give up.
LEMMA HistoryAfter ==
  ASSUME TypeOK, OneListPerRun, NEW i \in RunIds, NEW e \in Events,
         NEW H, H = HistoryWith(e, i)
  PROVE  /\ H \in Seq(Entries) /\ Len(H) <= MAX_REPLAY_RUNS
         /\ \A n \in DOMAIN H : Len(H[n].events) <= MAX_EVENTS_PER_RUN
         /\ \A m, n \in DOMAIN H : H[m].run = H[n].run => m = n
         /\ \E n \in DOMAIN H : H[n].run = i /\ H[n].events = ListWith(e, i)
         /\ \A n \in DOMAIN H : H[n].run # i => \E m \in DOMAIN history : history[m] = H[n]
         /\ Len(history) < MAX_REPLAY_RUNS \/ Recorded(i) # {} =>
              \A m \in DOMAIN history : history[m].run # i => \E n \in DOMAIN H : H[n] = history[m]
<1> DEFINE rest == IF Recorded(i) = {} THEN history
                   ELSE RemoveAt(history, CHOOSE n \in Recorded(i) : TRUE)
           list == ListWith(e, i)
           all == Append(rest, [run |-> i, events |-> list])
<1>1. history \in Seq(Entries) /\ Len(history) \in Nat /\ DOMAIN history = 1..Len(history)
      /\ Len(history) <= MAX_REPLAY_RUNS
      /\ \A n \in DOMAIN history : Len(history[n].events) <= MAX_EVENTS_PER_RUN
  BY LenProperties DEF TypeOK, Entries
<1>2. /\ EventsOf(i) \in Seq(Events) /\ Len(EventsOf(i)) <= MAX_EVENTS_PER_RUN
      /\ Len(EventsOf(i)) \in Nat
  BY ListOfRun, LenProperties
<1>3. list \in Seq(Events) /\ Len(list) <= MAX_EVENTS_PER_RUN
  BY <1>2, AppendProperties, BoundsAssumption DEF ListWith
<1>4. H = IF Len(all) > MAX_REPLAY_RUNS THEN Tail(all) ELSE all
  BY DEF HistoryWith, ListWith
<1> HIDE DEF list
\* What is left of the others.
<1>5. /\ rest \in Seq(Entries) /\ Len(rest) \in Nat
      /\ Len(rest) = IF Recorded(i) = {} THEN Len(history) ELSE Len(history) - 1
      /\ \A n \in 1..Len(rest) : rest[n].run # i /\ \E m \in DOMAIN history : history[m] = rest[n]
      /\ \A m, n \in 1..Len(rest) : rest[m].run = rest[n].run => m = n
      /\ \A m \in DOMAIN history : history[m].run # i => \E n \in 1..Len(rest) : rest[n] = history[m]
  <2>1. CASE Recorded(i) = {}
    <3>1. rest = history
      BY <2>1
    <3>2. \A n \in DOMAIN history : history[n].run # i
      BY <2>1 DEF Recorded
    <3> QED
      BY <1>1, <2>1, <3>1, <3>2 DEF OneListPerRun
  <2>2. CASE Recorded(i) # {}
    <3> DEFINE k == CHOOSE n \in Recorded(i) : TRUE
    <3>1. k \in 1..Len(history) /\ history[k].run = i
      BY <1>1, <2>2 DEF Recorded
    <3>2. rest = RemoveAt(history, k)
      BY <2>2
    <3> HIDE DEF k, rest
    <3>3. \A n \in 1..Len(history) : history[n].run = i => n = k
      BY <1>1, <3>1 DEF OneListPerRun
    <3>4. /\ rest \in Seq(Entries) /\ Len(rest) = Len(history) - 1
          /\ \A n \in 1..Len(history) - 1 : rest[n] = IF n < k THEN history[n] ELSE history[n + 1]
      BY <1>1, <3>1, <3>2, WithoutOne
    <3>5. Len(rest) \in Nat
      BY <3>4, LenProperties
    <3>6. ASSUME NEW n \in 1..Len(rest)
          PROVE  rest[n].run # i /\ \E m \in DOMAIN history : history[m] = rest[n]
      <4>0. /\ n \in 1..Len(history) - 1
            /\ n < k => n \in 1..Len(history) /\ n # k
            /\ ~ n < k => n + 1 \in 1..Len(history) /\ n + 1 # k
        BY <1>1, <3>1, <3>4
      <4>1. PICK m \in 1..Len(history) : rest[n] = history[m] /\ m # k
        BY <3>4, <4>0, Zenon
      <4> QED
        BY <1>1, <3>3, <4>1
    <3>7. ASSUME NEW m \in 1..Len(rest), NEW n \in 1..Len(rest), rest[m].run = rest[n].run
          PROVE  m = n
      <4> DEFINE old(x) == IF x < k THEN x ELSE x + 1
      <4>1. /\ old(m) \in 1..Len(history) /\ rest[m] = history[old(m)]
            /\ old(n) \in 1..Len(history) /\ rest[n] = history[old(n)]
        BY <1>1, <3>1, <3>4
      <4>2. old(m) = old(n)
        BY <1>1, <3>7, <4>1 DEF OneListPerRun
      <4> QED
        BY <1>1, <3>1, <3>4, <4>2
    <3>8. ASSUME NEW m \in DOMAIN history, history[m].run # i
          PROVE  \E n \in 1..Len(rest) : rest[n] = history[m]
      <4>1. CASE m < k
        BY <1>1, <3>1, <3>4, <4>1
      <4>2. CASE m > k
        <5>1. m - 1 \in 1..Len(history) - 1 /\ rest[m - 1] = history[m]
          BY <1>1, <3>1, <3>4, <4>2
        <5> QED
          BY <3>4, <5>1
      <4> QED
        BY <1>1, <3>1, <3>8, <4>1, <4>2
    <3> QED
      BY <1>1, <2>2, <3>4, <3>5, <3>6, <3>7, <3>8
  <2> QED
    BY <2>1, <2>2
<1> HIDE DEF rest
<1>51. /\ Len(rest) \in Nat
       /\ Recorded(i) = {} => Len(rest) = Len(history)
       /\ Recorded(i) # {} => Len(rest) = Len(history) - 1
  BY <1>5, Zenon
<1>6. /\ all \in Seq(Entries) /\ Len(all) = Len(rest) + 1 /\ DOMAIN all = 1..Len(rest) + 1
      /\ \A n \in 1..Len(rest) : all[n] = rest[n]
      /\ all[Len(rest) + 1] = [run |-> i, events |-> list]
  <2>1. [run |-> i, events |-> list] \in Entries
    BY <1>3 DEF Entries
  <2> QED
    BY <1>5, <2>1, AppendProperties, LenProperties
<1> HIDE DEF all
<1>61. Len(all) = Len(rest) + 1
  BY <1>6, Zenon
<1>7. Len(all) <= MAX_REPLAY_RUNS + 1
  <2>1. Len(history) \in Nat /\ Len(history) <= MAX_REPLAY_RUNS
    BY <1>1, Zenon
  <2> QED
    BY <1>51, <1>61, <2>1, BoundsAssumption
<1>8. /\ \A n \in DOMAIN all : n \in 1..Len(rest) \/ n = Len(rest) + 1
      /\ \A n \in 1..Len(rest) : n \in DOMAIN all /\ n # Len(rest) + 1
      /\ Len(rest) + 1 \in DOMAIN all
  BY <1>5, <1>6
<1>9. all[Len(rest) + 1].run = i /\ all[Len(rest) + 1].events = list
  BY <1>6
<1>10. \A n \in DOMAIN all : Len(all[n].events) <= MAX_EVENTS_PER_RUN
  <2>1. \A n \in 1..Len(rest) : Len(rest[n].events) <= MAX_EVENTS_PER_RUN
    BY <1>1, <1>5, Zenon
  <2> QED
    BY <1>3, <1>6, <1>8, <1>9, <2>1, Zenon
<1>11. \A m, n \in DOMAIN all : all[m].run = all[n].run => m = n
  <2>1. \A m, n \in 1..Len(rest) : all[m].run = all[n].run => m = n
    BY <1>5, <1>6, Zenon
  <2>2. \A n \in 1..Len(rest) : all[n].run # i
    BY <1>5, <1>6, Zenon
  <2> QED
    BY <1>8, <1>9, <2>1, <2>2, Zenon
<1>12. \A n \in DOMAIN all : all[n].run # i => \E m \in DOMAIN history : history[m] = all[n]
  <2>1. ASSUME NEW n \in 1..Len(rest)
        PROVE  \E m \in DOMAIN history : history[m] = all[n]
    <3>1. all[n] = rest[n]
      BY <1>6, Zenon
    <3>2. \E m \in DOMAIN history : history[m] = rest[n]
      BY <1>5, Zenon
    <3> QED
      BY <3>1, <3>2, Zenon
  <2> QED
    BY <1>8, <1>9, <2>1, Zenon
<1>13. \A m \in DOMAIN history : history[m].run # i => \E n \in DOMAIN all : all[n] = history[m]
  <2> SUFFICES ASSUME NEW m \in DOMAIN history, history[m].run # i
               PROVE  \E n \in DOMAIN all : all[n] = history[m]
    OBVIOUS
  <2>1. PICK n \in 1..Len(rest) : rest[n] = history[m]
    BY <1>5, Zenon
  <2>2. all[n] = history[m] /\ n \in DOMAIN all
    BY <1>6, <1>8, <2>1, Zenon
  <2> QED
    BY <2>2, Zenon
<1>14. CASE Len(all) <= MAX_REPLAY_RUNS
  <2>1. H = all
    BY <1>4, <1>51, <1>61, <1>14, BoundsAssumption
  <2>2. \E n \in DOMAIN H : H[n].run = i /\ H[n].events = list
    BY <1>8, <1>9, <2>1, Zenon
  <2>3. H \in Seq(Entries) /\ Len(H) <= MAX_REPLAY_RUNS
    BY <1>6, <1>14, <2>1, Zenon
  <2>4. \A n \in DOMAIN H : Len(H[n].events) <= MAX_EVENTS_PER_RUN
    BY <1>10, <2>1, Zenon
  <2>5. \A m, n \in DOMAIN H : H[m].run = H[n].run => m = n
    BY <1>11, <2>1, Zenon
  <2>6. \A n \in DOMAIN H : H[n].run # i => \E m \in DOMAIN history : history[m] = H[n]
    BY <1>12, <2>1, Zenon
  <2>7. \A m \in DOMAIN history : history[m].run # i => \E n \in DOMAIN H : H[n] = history[m]
    BY <1>13, <2>1, Zenon
  <2> QED
    BY <2>2, <2>3, <2>4, <2>5, <2>6, <2>7, Zenon DEF list
<1>15. CASE Len(all) = MAX_REPLAY_RUNS + 1
  <2>1. H = Tail(all)
    BY <1>4, <1>51, <1>61, <1>15, BoundsAssumption
  <2>2. all # <<>>
    BY <1>5, <1>6, EmptySeq
  <2>3. /\ H \in Seq(Entries) /\ Len(H) = Len(rest) /\ DOMAIN H = 1..Len(rest)
        /\ \A n \in 1..Len(rest) : H[n] = all[n + 1]
    BY <1>5, <1>6, <2>1, <2>2, HeadTailProperties, LenProperties
  <2>4. Len(rest) = MAX_REPLAY_RUNS /\ Len(rest) \in DOMAIN H
    <3>1. Len(rest) = MAX_REPLAY_RUNS /\ Len(rest) \in 1..Len(rest)
      BY <1>51, <1>61, <1>15, BoundsAssumption
    <3> QED
      BY <2>3, <3>1, Zenon
  <2>5. ~ (Len(history) < MAX_REPLAY_RUNS \/ Recorded(i) # {})
    <3>1. Len(history) \in Nat /\ Len(history) <= MAX_REPLAY_RUNS
      BY <1>1, Zenon
    <3> QED
      BY <1>51, <2>4, <3>1, BoundsAssumption
  <2>6. \A n \in DOMAIN H : n + 1 \in DOMAIN all
    BY <1>5, <1>6, <2>3
  <2>7. \A m, n \in DOMAIN H : m + 1 = n + 1 => m = n
    BY <2>3
  <2>8. Len(H) <= MAX_REPLAY_RUNS
    BY <2>3, <2>4, BoundsAssumption
  <2>9. \A n \in DOMAIN H : H[n] = all[n + 1] /\ n + 1 \in DOMAIN all
    BY <2>3, <2>6, Zenon
  <2>10. \A n \in DOMAIN H : Len(H[n].events) <= MAX_EVENTS_PER_RUN
    BY <1>10, <2>9, Zenon
  <2>11. \A m, n \in DOMAIN H : H[m].run = H[n].run => m = n
    <3> SUFFICES ASSUME NEW m \in DOMAIN H, NEW n \in DOMAIN H, H[m].run = H[n].run
                 PROVE  m = n
      OBVIOUS
    <3>1. all[m + 1].run = all[n + 1].run /\ m + 1 \in DOMAIN all /\ n + 1 \in DOMAIN all
      BY <2>9, Zenon
    <3>2. m + 1 = n + 1
      BY <1>11, <3>1, Zenon
    <3> QED
      BY <2>7, <3>2, Zenon
  <2>12. \E n \in DOMAIN H : H[n].run = i /\ H[n].events = list
    BY <1>9, <2>4, <2>9, Zenon
  <2>13. \A n \in DOMAIN H : H[n].run # i => \E m \in DOMAIN history : history[m] = H[n]
    BY <1>12, <2>9, Zenon
  <2>14. H \in Seq(Entries)
    BY <2>3, Zenon
  <2> QED
    BY <2>5, <2>8, <2>10, <2>11, <2>12, <2>13, <2>14, Zenon DEF list
<1>16. Len(all) <= MAX_REPLAY_RUNS \/ Len(all) = MAX_REPLAY_RUNS + 1
  BY <1>51, <1>61, <1>7, BoundsAssumption
<1> QED
  BY <1>14, <1>15, <1>16, Zenon

-----------------------------------------------------------------------------
(* Requests begin and take steps, and take none of it back.                *)

Grown ==
  /\ Begun \subseteq Begun' /\ IsFiniteSet(Begun')
  /\ \A r \in Begun : ctx'[r].id = ctx[r].id /\ Streamed(r) \subseteq Streamed(r)'

LEMMA StreamedTypes ==
  ASSUME TypeOK, NEW r \in Requests
  PROVE  /\ Len(ctx[r].steps) \in Nat /\ ctx[r].steps \in Seq(StepKinds)
         /\ \A n \in Streamed(r) : n \in 1..Len(ctx[r].steps)
         /\ IsFiniteSet(Streamed(r))
<1>1. /\ ctx[r].steps \in Seq(StepKinds) /\ Len(ctx[r].steps) \in Nat
      /\ DOMAIN ctx[r].steps = 1..Len(ctx[r].steps)
  BY LenProperties DEF TypeOK
<1>2. Streamed(r) \subseteq 1..Len(ctx[r].steps)
  BY <1>1 DEF Streamed
<1>3. IsFiniteSet(1..Len(ctx[r].steps))
  BY <1>1, FS_Interval
<1> QED
  BY <1>1, <1>2, <1>3, FS_Subset

LEMMA UnderTypes ==
  ASSUME BegunFinite, NEW i
  PROVE  Under(i) \subseteq Begun /\ IsFiniteSet(Under(i))
<1>1. Under(i) \subseteq Begun
  BY DEF Under, Begun
<1> QED
  BY <1>1, FS_Subset DEF BegunFinite

LEMMA TracedFinite == BegunFinite => IsFiniteSet(Traced)
<1> SUFFICES ASSUME BegunFinite PROVE IsFiniteSet(Traced)
  OBVIOUS
<1> DEFINE f == [r \in Begun |-> ctx[r].id]
           T == {f[r] : r \in Begun}
<1>1. f \in Surjection(Begun, T)
  BY DEF Surjection
<1>2. IsFiniteSet(T)
  BY <1>1, FS_Surjection DEF BegunFinite
<1>3. Traced \subseteq T
  BY DEF Traced, Under, Begun
<1> QED
  BY <1>2, <1>3, FS_Subset

LEMMA TracedStaysFinite == BegunFinite' => IsFiniteSet(Traced)'
BY TracedFinite, PTL

LEMMA GrownKeeps ==
  ASSUME TypeOK, TypeOK', BegunFinite, Grown
  PROVE  /\ \A e, i : OfRun(e, i) => OfRun(e, i)'
         /\ \A i \in RunIds : InBounds(i)' => InBounds(i)
<1>1. ASSUME NEW i PROVE Under(i) \subseteq Under(i)'
  BY DEF Under, Begun, Grown
<1>2. ASSUME NEW e, NEW i, OfRun(e, i) PROVE OfRun(e, i)'
  <2>1. e[1] \in Begun /\ e[1] \in Under(i) /\ e[2] \in Streamed(e[1])
    BY <1>2, UnderTypes DEF OfRun
  <2>2. Streamed(e[1]) \subseteq Streamed(e[1])'
    BY <2>1 DEF Grown
  <2> QED
    BY <1>1, <2>1, <2>2 DEF OfRun
<1>3. ASSUME NEW i \in RunIds, InBounds(i)' PROVE InBounds(i)
  <2>0. BegunFinite'
    BY DEF Grown, BegunFinite
  <2>1. IsFiniteSet(Under(i)')
    <3>1. Under(i)' \subseteq Begun'
      BY DEF Under, Begun
    <3> QED
      BY <2>0, <3>1, FS_Subset DEF BegunFinite
  <2>2. Cardinality(Under(i)) <= Cardinality(Under(i)') /\ Cardinality(Under(i)') \in Nat
        /\ Cardinality(Under(i)) \in Nat
    BY <1>1, <2>1, FS_Subset, FS_CardinalityType
  <2>3. Cardinality(Under(i)) <= 1
    BY <1>3, <2>2 DEF InBounds
  <2>4. ASSUME NEW r \in Under(i) PROVE Cardinality(Streamed(r)) <= MAX_EVENTS_PER_RUN
    <3>1. r \in Begun /\ r \in Requests /\ r \in Under(i)'
      BY <1>1, UnderTypes DEF Begun
    <3>2. IsFiniteSet(Streamed(r)')
      <4>1. ctx'[r].steps \in Seq(StepKinds)
        BY <3>1 DEF TypeOK
      <4>2. Streamed(r)' \subseteq 1..Len(ctx'[r].steps) /\ Len(ctx'[r].steps) \in Nat
        BY <4>1, LenProperties DEF Streamed
      <4>3. IsFiniteSet(1..Len(ctx'[r].steps))
        BY <4>2, FS_Interval
      <4> QED
        BY <4>2, <4>3, FS_Subset
    <3>3. Streamed(r) \subseteq Streamed(r)'
      BY <3>1 DEF Grown
    <3>4. Cardinality(Streamed(r)) <= Cardinality(Streamed(r)')
          /\ Cardinality(Streamed(r)') \in Nat /\ Cardinality(Streamed(r)) \in Nat
      BY <3>2, <3>3, FS_Subset, FS_CardinalityType
    <3>5. Cardinality(Streamed(r)') <= MAX_EVENTS_PER_RUN
      BY <1>3, <3>1 DEF InBounds
    <3> QED
      BY <3>4, <3>5, BoundsAssumption
  <2>5. Cardinality(Traced) <= MAX_REPLAY_RUNS
    <3>1. Traced \subseteq Traced'
      <4> SUFFICES ASSUME NEW j \in Traced PROVE j \in Traced'
        OBVIOUS
      <4>1. PICK r \in Under(j) : Streamed(r) # {}
        BY DEF Traced
      <4>2. r \in Under(j)' /\ Streamed(r)' # {}
        BY <1>1, <4>1, UnderTypes DEF Grown
      <4> QED
        BY <4>2 DEF Traced
    <3>2. IsFiniteSet(Traced')
      BY <2>0, TracedStaysFinite
    <3>3. Cardinality(Traced) <= Cardinality(Traced')
          /\ Cardinality(Traced') \in Nat /\ Cardinality(Traced) \in Nat
      BY <3>1, <3>2, FS_Subset, FS_CardinalityType
    <3>4. Cardinality(Traced') <= MAX_REPLAY_RUNS
      BY <1>3 DEF InBounds
    <3> QED
      BY <3>3, <3>4, BoundsAssumption
  <2> QED
    BY <2>3, <2>4, <2>5 DEF InBounds
<1> QED
  BY <1>2, <1>3

\* Steps of the requests alone.
LEMMA QuietStep ==
  ASSUME BusInv, TypeOK', IdleBlank', UNCHANGED <<history, conns, panel>>,
         Begun \subseteq Begun', IsFiniteSet(Begun'),
         \A r \in Begun : ctx'[r].id = ctx[r].id /\ Streamed(r)' = Streamed(r),
         \A r \in Begun' \ Begun : Streamed(r)' = {}
  PROVE  BusInv'
<1> USE DEF BusInv
<1>1. Grown
  BY DEF Grown
<1>2. /\ \A e, i : OfRun(e, i) => OfRun(e, i)'
      /\ \A i \in RunIds : InBounds(i)' => InBounds(i)
  BY <1>1, GrownKeeps
<1>3. BegunFinite' /\ OneListPerRun' /\ OneStream'
  BY DEF BegunFinite, OneListPerRun, OneStream
<1>31. \A i : EventsOf(i)' = EventsOf(i)
  BY DEF EventsOf, Recorded
<1>32. KeptInTime' /\ QueuedInTime' /\ NothingMissed'
  BY <1>31 DEF KeptInTime, QueuedInTime, NothingMissed, ShownOrLater
<1>4. StepsKept' /\ StepsQueued' /\ StepsShown'
  BY <1>2 DEF StepsKept, StepsQueued, StepsShown, StepsOf
<1>5. \A r \in Begun' : Streamed(r)' # {} => r \in Begun /\ Streamed(r)' = Streamed(r)
  OBVIOUS
<1>6. \A i : \A r \in Under(i)' : r \in Begun' /\ (r \in Begun => r \in Under(i))
  BY DEF Under, Begun
<1>7. AllKept'
  <2> SUFFICES ASSUME NEW i \in RunIds, InBounds(i)', NEW r \in Under(i)', NEW n \in Streamed(r)'
               PROVE  <<r, n>> \in ToSet(EventsOf(i)')
    BY DEF AllKept
  <2>1. r \in Under(i) /\ n \in Streamed(r)
    BY <1>5, <1>6
  <2>2. <<r, n>> \in ToSet(EventsOf(i))
    BY <1>2, <2>1 DEF AllKept
  <2> QED
    BY <1>31, <2>2
<1>8. NoneSkipped'
  <2> SUFFICES ASSUME NEW i \in Watched, InBounds(i)', NEW e \in ToSet(panel[i].shown),
                      NEW n \in Streamed(e[1])', n < e[2]
               PROVE  <<e[1], n>> \in ToSet(panel[i].shown)
    BY DEF NoneSkipped, SkipsNone
  <2>1. e[1] \in Begun
    BY UnderTypes DEF StepsShown, StepsOf, OfRun
  <2>2. n \in Streamed(e[1]) /\ InBounds(i)
    BY <1>2, <2>1, WatchedAssumption
  <2> QED
    BY <2>2 DEF NoneSkipped, SkipsNone
<1> QED
  BY <1>3, <1>32, <1>4, <1>7, <1>8

-----------------------------------------------------------------------------
(* Steps of the streams alone.                                             *)

\* The invariants that only look at requests and the history.
RequestsInv ==
  BegunFinite /\ IdleBlank /\ OneListPerRun /\ StepsKept /\ AllKept

LEMMA StreamStep ==
  ASSUME UNCHANGED <<ctx, history>>
  PROVE  /\ RequestsInv => RequestsInv'
         /\ \A e, i : OfRun(e, i)' = OfRun(e, i)
         /\ \A i : EventsOf(i)' = EventsOf(i) /\ InBounds(i)' = InBounds(i)
         /\ \A r : Streamed(r)' = Streamed(r)
<1>1. \A r : Streamed(r)' = Streamed(r)
  BY DEF Streamed
<1>2. \A i : Under(i)' = Under(i)
  BY DEF Under
<1>3. Traced' = Traced
  BY <1>1, <1>2 DEF Traced
<1>4. \A i : EventsOf(i)' = EventsOf(i) /\ InBounds(i)' = InBounds(i)
  BY <1>1, <1>2, <1>3 DEF EventsOf, Recorded, InBounds
<1>5. \A e, i : OfRun(e, i)' = OfRun(e, i)
  BY <1>1, <1>2 DEF OfRun
<1>6. BegunFinite' = BegunFinite /\ IdleBlank' = IdleBlank /\ OneListPerRun' = OneListPerRun
  BY DEF BegunFinite, Begun, IdleBlank, OneListPerRun
<1>7. StepsKept => StepsKept'
  BY <1>5 DEF StepsKept, StepsOf
<1>8. AllKept => AllKept'
  BY <1>1, <1>2, <1>4 DEF AllKept
<1> QED
  BY <1>1, <1>4, <1>5, <1>6, <1>7, <1>8 DEF RequestsInv

\* The list of a run is of its steps.
LEMMA StepsOfList ==
  ASSUME StepsKept, NEW i
  PROVE  StepsOf(EventsOf(i), i)
<1>1. CASE Recorded(i) = {}
  <2>1. EventsOf(i) = <<>>
    BY <1>1 DEF EventsOf
  <2> QED
    BY <2>1 DEF StepsOf, InOrder, ToSet
<1>2. CASE Recorded(i) # {}
  <2>1. PICK n \in DOMAIN history : history[n].run = i /\ EventsOf(i) = history[n].events
    BY <1>2 DEF EventsOf, Recorded
  <2> QED
    BY <2>1 DEF StepsKept
<1> QED
  BY <1>1, <1>2

LEMMA StreamTypes ==
  ASSUME TypeOK
  PROVE  /\ conns \in [Conns -> [phase : {"free", "streaming", "dropped", "ended"},
                                 run : RunIds \cup {None}, queue : Seq(Events)]]
         /\ panel \in [Watched -> [open : BOOLEAN, conn : Conns \cup {None}, shown : Seq(Events)]]
BY DEF TypeOK

LEMMA ConnectStep ==
  ASSUME BusInv, TypeOK', NEW i \in Watched, Connect(i)
  PROVE  BusInv'
<1> USE DEF BusInv
<1>1. PICK c \in Conns :
        /\ conns[c].phase = "free" /\ panel[i].conn = None
        /\ conns' = [conns EXCEPT ![c] = Subscribed(i)]
        /\ panel' = [panel EXCEPT ![i].conn = c]
        /\ UNCHANGED <<ctx, history>>
  BY DEF Connect, Unused
<1>2. /\ conns'[c].phase = "streaming" /\ conns'[c].run = i /\ conns'[c].queue = EventsOf(i)
      /\ \A d \in Conns \ {c} : conns'[d] = conns[d]
      /\ panel'[i].conn = c /\ \A j \in Watched : panel'[j].shown = panel[j].shown
      /\ \A j \in Watched \ {i} : panel'[j] = panel[j]
  BY <1>1, StreamTypes DEF Subscribed
<1>3. c # None /\ \A j \in Watched : panel[j].conn # c /\ (panel[j].conn # None => panel[j].conn \in Conns)
  BY <1>1, StreamTypes, NoneAssumption DEF OneStream
<1>4. /\ RequestsInv'
      /\ \A e, j : OfRun(e, j)' = OfRun(e, j)
      /\ \A j : EventsOf(j)' = EventsOf(j) /\ InBounds(j)' = InBounds(j)
      /\ \A r : Streamed(r)' = Streamed(r)
  BY <1>1, StreamStep DEF RequestsInv
<1>5. StepsShown' /\ NoneSkipped'
  BY <1>2, <1>4 DEF StepsShown, StepsOf, NoneSkipped, SkipsNone
<1>6. StepsQueued'
  <2>1. StepsOf(EventsOf(i), i)
    BY StepsOfList
  <2> QED
    BY <1>2, <1>4, <2>1 DEF StepsQueued, StepsOf
<1>7. OneStream'
  <2>1. ASSUME NEW d \in Conns, conns'[d].phase = "streaming"
        PROVE  conns'[d].run \in Watched /\ panel'[conns'[d].run].conn = d
    <3>1. CASE d = c
      BY <1>2, <3>1
    <3>2. CASE d # c
      BY <1>1, <1>2, <1>3, <2>1, <3>2, NoneAssumption DEF OneStream
    <3> QED
      BY <3>1, <3>2
  <2>2. ASSUME NEW j \in Watched, panel'[j].conn # None
        PROVE  conns'[panel'[j].conn].phase = "streaming" /\ conns'[panel'[j].conn].run = j
    <3>1. CASE j = i
      BY <1>2, <3>1
    <3>2. CASE j # i
      BY <1>2, <1>3, <2>2, <3>2 DEF OneStream
    <3> QED
      BY <3>1, <3>2
  <2> QED
    BY <2>1, <2>2 DEF OneStream
<1>8. KeptInTime'
  BY <1>2, <1>4 DEF KeptInTime, ShownOrLater
<1>9. ASSUME NEW j \in Watched, panel'[j].conn # None
      PROVE  /\ \A e \in ToSet(conns'[panel'[j].conn].queue) : ShownOrLater(e, panel'[j].shown)
             /\ ToSet(EventsOf(j)) \subseteq ToSet(panel'[j].shown) \cup ToSet(conns'[panel'[j].conn].queue)
  <2>1. CASE j = i
    BY <1>2, <2>1 DEF KeptInTime
  <2>2. CASE j # i
    <3>1. panel'[j] = panel[j] /\ conns'[panel[j].conn] = conns[panel[j].conn]
      BY <1>2, <1>3, <1>9, <2>2
    <3> QED
      BY <1>9, <3>1 DEF QueuedInTime, NothingMissed
  <2> QED
    BY <2>1, <2>2
<1>10. QueuedInTime' /\ NothingMissed'
  BY <1>4, <1>9 DEF QueuedInTime, NothingMissed, ShownOrLater
<1> QED
  BY <1>4, <1>5, <1>6, <1>7, <1>8, <1>10 DEF RequestsInv

\* A stream goes, at either end.
LEMMA LeaveStep ==
  ASSUME BusInv, TypeOK', UNCHANGED <<ctx, history>>,
         \A c \in Conns : /\ conns'[c] = conns[c] \/ conns'[c].phase # "streaming"
                          /\ \/ conns'[c].queue = conns[c].queue /\ conns'[c].run = conns[c].run
                             \/ conns'[c].queue = <<>>
                          /\ conns[c].phase = "streaming" /\ conns'[c].phase # "streaming" =>
                               panel'[conns[c].run].conn = None,
         \A i \in Watched : /\ panel'[i].shown = panel[i].shown
                            /\ panel'[i].conn = panel[i].conn \/ panel'[i].conn = None
                            /\ panel[i].conn # None /\ panel'[i].conn = None =>
                                 conns'[panel[i].conn].phase # "streaming"
  PROVE  BusInv'
<1> USE DEF BusInv
<1>1. /\ RequestsInv'
      /\ \A e, j : OfRun(e, j)' = OfRun(e, j)
      /\ \A j : EventsOf(j)' = EventsOf(j) /\ InBounds(j)' = InBounds(j)
      /\ \A r : Streamed(r)' = Streamed(r)
  BY StreamStep DEF RequestsInv
<1>2. StepsShown' /\ NoneSkipped' /\ KeptInTime'
  BY <1>1 DEF StepsShown, StepsOf, NoneSkipped, SkipsNone, KeptInTime, ShownOrLater
<1>3. StepsQueued'
  <2>1. ASSUME NEW c \in Conns
        PROVE  /\ InOrder(conns'[c].queue)
               /\ \A e \in ToSet(conns'[c].queue) : OfRun(e, conns'[c].run)
    <3>1. CASE conns'[c].queue = conns[c].queue /\ conns'[c].run = conns[c].run
      BY <3>1 DEF StepsQueued, StepsOf
    <3>2. CASE conns'[c].queue = <<>>
      BY <3>2 DEF InOrder, ToSet
    <3> QED
      BY <3>1, <3>2
  <2> QED
    BY <1>1, <2>1 DEF StepsQueued, StepsOf
<1>4. \A i \in Watched : panel[i].conn # None => panel[i].conn \in Conns
  BY StreamTypes
<1>5. ASSUME NEW i \in Watched, panel'[i].conn # None
      PROVE  panel'[i].conn = panel[i].conn /\ conns'[panel[i].conn] = conns[panel[i].conn]
  <2>1. panel'[i].conn = panel[i].conn /\ panel[i].conn \in Conns
        /\ conns[panel[i].conn].phase = "streaming" /\ conns[panel[i].conn].run = i
    BY <1>4, <1>5 DEF OneStream
  <2> QED
    BY <1>5, <2>1
<1>6. OneStream'
  <2>1. ASSUME NEW d \in Conns, conns'[d].phase = "streaming"
        PROVE  conns'[d].run \in Watched /\ panel'[conns'[d].run].conn = d
    <3>1. conns'[d] = conns[d] /\ conns[d].run \in Watched /\ panel[conns[d].run].conn = d
      BY <2>1 DEF OneStream
    <3>2. d # None
      BY NoneAssumption
    <3> QED
      BY <2>1, <3>1, <3>2
  <2>2. ASSUME NEW j \in Watched, panel'[j].conn # None
        PROVE  conns'[panel'[j].conn].phase = "streaming" /\ conns'[panel'[j].conn].run = j
    BY <1>5, <2>2 DEF OneStream
  <2> QED
    BY <2>1, <2>2 DEF OneStream
<1>7. QueuedInTime' /\ NothingMissed'
  BY <1>1, <1>5 DEF QueuedInTime, NothingMissed, ShownOrLater
<1> QED
  BY <1>1, <1>2, <1>3, <1>6, <1>7 DEF RequestsInv

LEMMA DropStep ==
  ASSUME BusInv, TypeOK', NEW c \in Conns, Drop(c)
  PROVE  BusInv'
<1>1. /\ UNCHANGED <<ctx, history>>
      /\ conns' = [conns EXCEPT ![c].phase = "dropped"]
      /\ panel' = [panel EXCEPT ![conns[c].run].conn = None]
      /\ conns[c].phase = "streaming"
  BY DEF Drop
<1>2. conns[c].run \in Watched /\ panel[conns[c].run].conn = c
  BY <1>1 DEF BusInv, OneStream
<1>3. /\ conns'[c].phase = "dropped" /\ conns'[c].queue = conns[c].queue
      /\ conns'[c].run = conns[c].run
      /\ \A d \in Conns \ {c} : conns'[d] = conns[d]
      /\ \A j \in Watched \ {conns[c].run} : panel'[j] = panel[j]
      /\ panel'[conns[c].run].conn = None
      /\ panel'[conns[c].run].shown = panel[conns[c].run].shown
  BY <1>1, <1>2, StreamTypes DEF BusInv
<1>4. ASSUME NEW d \in Conns
      PROVE  /\ conns'[d] = conns[d] \/ conns'[d].phase # "streaming"
             /\ conns'[d].queue = conns[d].queue /\ conns'[d].run = conns[d].run
             /\ conns[d].phase = "streaming" /\ conns'[d].phase # "streaming" =>
                  panel'[conns[d].run].conn = None
  BY <1>3
<1>5. ASSUME NEW i \in Watched
      PROVE  /\ panel'[i].shown = panel[i].shown
             /\ panel'[i].conn = panel[i].conn \/ panel'[i].conn = None
             /\ panel[i].conn # None /\ panel'[i].conn = None =>
                  conns'[panel[i].conn].phase # "streaming"
  BY <1>2, <1>3
<1> QED
  BY <1>1, <1>4, <1>5, LeaveStep

LEMMA CloseStep ==
  ASSUME BusInv, TypeOK', NEW i \in Watched, Close(i)
  PROVE  BusInv'
<1> DEFINE c == panel[i].conn
<1>1. /\ UNCHANGED <<ctx, history>>
      /\ panel' = [panel EXCEPT ![i].open = FALSE, ![i].conn = None]
      /\ conns' = IF c = None THEN conns ELSE [conns EXCEPT ![c].phase = "dropped"]
  BY DEF Close
<1>2. c # None => c \in Conns /\ conns[c].phase = "streaming" /\ conns[c].run = i
  BY StreamTypes DEF BusInv, OneStream
<1>3. /\ \A d \in Conns : conns'[d].queue = conns[d].queue /\ conns'[d].run = conns[d].run
      /\ \A d \in Conns \ {c} : conns'[d] = conns[d]
      /\ c # None => conns'[c].phase = "dropped"
      /\ \A j \in Watched \ {i} : panel'[j] = panel[j]
      /\ panel'[i].conn = None /\ panel'[i].shown = panel[i].shown
  <2>1. panel'[i].conn = None /\ panel'[i].shown = panel[i].shown
        /\ \A j \in Watched \ {i} : panel'[j] = panel[j]
    BY <1>1, StreamTypes DEF BusInv
  <2>2. CASE c = None
    BY <1>1, <2>1, <2>2
  <2>3. CASE c # None
    BY <1>1, <1>2, <2>1, <2>3, StreamTypes DEF BusInv
  <2> QED
    BY <2>2, <2>3
<1>4. ASSUME NEW d \in Conns
      PROVE  /\ conns'[d] = conns[d] \/ conns'[d].phase # "streaming"
             /\ conns[d].phase = "streaming" /\ conns'[d].phase # "streaming" =>
                  panel'[conns[d].run].conn = None
  <2>1. CASE d = c
    BY <1>2, <1>3, <2>1, NoneAssumption
  <2>2. CASE d # c
    BY <1>3, <2>2
  <2> QED
    BY <2>1, <2>2
<1>5. ASSUME NEW j \in Watched
      PROVE  /\ panel'[j].shown = panel[j].shown
             /\ panel'[j].conn = panel[j].conn \/ panel'[j].conn = None
             /\ panel[j].conn # None /\ panel'[j].conn = None =>
                  conns'[panel[j].conn].phase # "streaming"
  BY <1>3
<1> QED
  BY <1>1, <1>3, <1>4, <1>5, LeaveStep

LEMMA NoticeStep ==
  ASSUME BusInv, TypeOK', NEW c \in Conns, Notice(c)
  PROVE  BusInv'
<1>1. /\ UNCHANGED <<ctx, history, panel>>
      /\ conns' = [conns EXCEPT ![c] = Unsubscribed(c)]
      /\ conns[c].phase = "dropped"
  BY DEF Notice
<1>2. /\ conns'[c].phase = "ended" /\ conns'[c].queue = <<>>
      /\ \A d \in Conns \ {c} : conns'[d] = conns[d]
  BY <1>1, StreamTypes DEF BusInv, Unsubscribed, Free
<1>3. ASSUME NEW d \in Conns
      PROVE  /\ conns'[d] = conns[d] \/ conns'[d].phase # "streaming"
             /\ \/ conns'[d].queue = conns[d].queue /\ conns'[d].run = conns[d].run
                \/ conns'[d].queue = <<>>
             /\ ~ (conns[d].phase = "streaming" /\ conns'[d].phase # "streaming")
  BY <1>1, <1>2
<1> QED
  BY <1>1, <1>3, LeaveStep

\* The page takes the next event, unless it shows it.
LEMMA ShownSteps ==
  ASSUME NEW s \in Seq(Events), NEW e \in Events
  PROVE  /\ Shown(s, e) \in Seq(Events)
         /\ ToSet(Shown(s, e)) = ToSet(s) \cup {e}
         /\ InOrder(s) /\ ShownOrLater(e, s) => InOrder(Shown(s, e))
<1>1. CASE e \in ToSet(s)
  BY <1>1 DEF Shown
<1>2. CASE e \notin ToSet(s)
  BY <1>2, AppendedSteps DEF Shown, ShownOrLater
<1> QED
  BY <1>1, <1>2

LEMMA DeliverStep ==
  ASSUME BusInv, TypeOK', NEW c \in Conns, Deliver(c)
  PROVE  BusInv'
<1> DEFINE i == conns[c].run
           q == conns[c].queue
           e == Head(q)
           s == panel[i].shown
<1>1. /\ UNCHANGED <<ctx, history>>
      /\ conns[c].phase = "streaming" /\ q # <<>>
      /\ conns' = [conns EXCEPT ![c].queue = Tail(q)]
      /\ panel' = [panel EXCEPT ![i].shown = Shown(s, e)]
  BY DEF Deliver
<1>2. /\ i \in Watched /\ panel[i].conn = c /\ c # None
      /\ q \in Seq(Events) /\ s \in Seq(Events)
  BY <1>1, StreamTypes, NoneAssumption DEF BusInv, OneStream
<1>3. /\ \A d \in Conns : conns'[d].phase = conns[d].phase /\ conns'[d].run = conns[d].run
      /\ conns'[c].queue = Tail(q) /\ \A d \in Conns \ {c} : conns'[d] = conns[d]
      /\ \A j \in Watched : panel'[j].conn = panel[j].conn
      /\ panel'[i].shown = Shown(s, e) /\ \A j \in Watched \ {i} : panel'[j] = panel[j]
  BY <1>1, <1>2, StreamTypes DEF BusInv
<1>4. /\ e \in Events /\ Tail(q) \in Seq(Events)
      /\ ToSet(q) = {e} \cup ToSet(Tail(q))
      /\ InOrder(Tail(q))
      /\ \A d \in ToSet(Tail(q)) : d[1] = e[1] => e[2] < d[2]
  <2>1. InOrder(q)
    BY DEF BusInv, StepsQueued, StepsOf
  <2> QED
    BY <1>1, <1>2, <2>1, ShortenedSteps
<1>5. /\ RequestsInv'
      /\ \A x, j : OfRun(x, j)' = OfRun(x, j)
      /\ \A j : EventsOf(j)' = EventsOf(j) /\ InBounds(j)' = InBounds(j)
      /\ \A r : Streamed(r)' = Streamed(r)
  BY <1>1, StreamStep DEF RequestsInv, BusInv
<1>6. /\ ShownOrLater(e, s) /\ InOrder(s) /\ OfRun(e, i)
      /\ \A x \in ToSet(q) : ShownOrLater(x, s)
  BY <1>2, <1>4 DEF BusInv, QueuedInTime, StepsShown, StepsQueued, StepsOf
<1>7. ToSet(Shown(s, e)) = ToSet(s) \cup {e} /\ InOrder(Shown(s, e))
  BY <1>2, <1>4, <1>6, ShownSteps
\* Of what is kept, the events still to come after this one follow it.
<1>8. ASSUME NEW x, x \in ToSet(Tail(q)) PROVE ShownOrLater(x, Shown(s, e))
  BY <1>4, <1>6, <1>7, <1>8 DEF ShownOrLater
<1>9. ASSUME NEW x \in ToSet(EventsOf(i)) PROVE ShownOrLater(x, Shown(s, e))
  <2>1. x \in ToSet(s) \cup ToSet(q)
    BY <1>2 DEF BusInv, NothingMissed
  <2>2. CASE x \in ToSet(s) \/ x = e
    BY <1>7, <2>2 DEF ShownOrLater
  <2> QED
    BY <1>4, <1>8, <2>1, <2>2
<1> HIDE DEF i, q, e, s
<1>10. StepsQueued'
  <2>1. ASSUME NEW d \in Conns
        PROVE  /\ InOrder(conns'[d].queue)
               /\ \A x \in ToSet(conns'[d].queue) : OfRun(x, conns'[d].run)
    <3>1. CASE d = c
      BY <1>3, <1>4, <3>1 DEF BusInv, StepsQueued, StepsOf, q
    <3>2. CASE d # c
      BY <1>3, <3>2 DEF BusInv, StepsQueued, StepsOf
    <3> QED
      BY <3>1, <3>2
  <2> QED
    BY <1>5, <2>1 DEF StepsQueued, StepsOf
<1>11. StepsShown'
  <2>1. ASSUME NEW j \in Watched
        PROVE  /\ InOrder(panel'[j].shown)
               /\ \A x \in ToSet(panel'[j].shown) : OfRun(x, j)
    <3>1. CASE j = i
      <4>1. \A x \in ToSet(s) : OfRun(x, i)
        BY <1>2 DEF BusInv, StepsShown, StepsOf, s
      <4> QED
        BY <1>3, <1>6, <1>7, <3>1, <4>1
    <3>2. CASE j # i
      BY <1>3, <3>2 DEF BusInv, StepsShown, StepsOf
    <3> QED
      BY <3>1, <3>2
  <2> QED
    BY <1>5, <2>1 DEF StepsShown, StepsOf
<1>12. OneStream'
  BY <1>3, StreamTypes DEF BusInv, OneStream
<1>13. KeptInTime'
  <2>1. ASSUME NEW j \in Watched, NEW x \in ToSet(EventsOf(j))
        PROVE  ShownOrLater(x, panel'[j].shown)
    BY <1>3, <1>9 DEF BusInv, KeptInTime
  <2> QED
    BY <1>5, <2>1 DEF KeptInTime, ShownOrLater
<1>14. ASSUME NEW j \in Watched, panel[j].conn # None
       PROVE  /\ \A x \in ToSet(conns'[panel[j].conn].queue) : ShownOrLater(x, panel'[j].shown)
              /\ ToSet(EventsOf(j)) \subseteq ToSet(panel'[j].shown) \cup ToSet(conns'[panel[j].conn].queue)
  <2>1. CASE j = i
    <3>1. ToSet(EventsOf(i)) \subseteq ToSet(s) \cup ToSet(q)
      BY <1>2 DEF BusInv, NothingMissed, s, q
    <3> QED
      BY <1>2, <1>3, <1>4, <1>7, <1>8, <2>1, <3>1
  <2>2. CASE j # i
    <3>1. panel[j].conn \in Conns /\ panel[j].conn # c
      BY <1>14, <2>2, StreamTypes DEF BusInv, OneStream, i
    <3> QED
      BY <1>3, <1>14, <2>2, <3>1 DEF BusInv, QueuedInTime, NothingMissed
  <2> QED
    BY <2>1, <2>2
<1>15. QueuedInTime' /\ NothingMissed'
  BY <1>3, <1>5, <1>14 DEF QueuedInTime, NothingMissed, ShownOrLater
<1>16. NoneSkipped'
  <2> SUFFICES ASSUME NEW j \in Watched, InBounds(j), NEW x \in ToSet(panel'[j].shown),
                      NEW n \in Streamed(x[1]), n < x[2]
               PROVE  <<x[1], n>> \in ToSet(panel'[j].shown)
    BY <1>5 DEF NoneSkipped, SkipsNone
  <2>1. CASE x \in ToSet(panel[j].shown)
    <3>1. <<x[1], n>> \in ToSet(panel[j].shown)
      BY <2>1 DEF BusInv, NoneSkipped, SkipsNone
    <3> QED
      BY <1>3, <1>7, <3>1 DEF s
  <2>2. CASE j = i /\ x = e
    <3>1. <<e[1], n>> \in ToSet(EventsOf(i))
      BY <1>6, <2>2, WatchedAssumption DEF BusInv, AllKept, OfRun
    <3>2. <<e[1], n>> \in ToSet(s) \cup ToSet(q)
      BY <1>2, <3>1 DEF BusInv, NothingMissed, s, q
    <3>3. <<e[1], n>> \notin ToSet(q)
      <4>1. e[1] \in Requests /\ e[2] \in Nat
        BY <1>4 DEF Events
      <4>2. n \in Nat
        BY <2>2, <4>1, StreamedTypes DEF BusInv
      <4> QED
        BY <1>4, <2>2, <4>1, <4>2
    <3> QED
      BY <1>3, <1>7, <2>2, <3>2, <3>3
  <2> QED
    BY <1>3, <1>7, <2>1, <2>2 DEF s
<1> QED
  BY <1>5, <1>10, <1>11, <1>12, <1>13, <1>15, <1>16 DEF RequestsInv, BusInv

-----------------------------------------------------------------------------
(* A request takes a step, and the bus takes it on.                        *)

LEMMA ListOfEntryNext ==
  OneListPerRun' =>
    (\A n \in DOMAIN history : \A j : history[n].run = j => EventsOf(j) = history[n].events)'
<1>1. OneListPerRun =>
        \A n \in DOMAIN history : \A j : history[n].run = j => EventsOf(j) = history[n].events
  BY ListOfEntry
<1> QED
  BY <1>1, PTL

LEMMA ListsAfter ==
  ASSUME TypeOK, OneListPerRun, NEW i \in RunIds, NEW e \in Events,
         history' = HistoryWith(e, i)
  PROVE  /\ OneListPerRun'
         /\ EventsOf(i)' = ListWith(e, i)
         /\ \A j \in RunIds \ {i} : EventsOf(j)' = EventsOf(j) \/ EventsOf(j)' = <<>>
         /\ Len(history) < MAX_REPLAY_RUNS \/ Recorded(i) # {} =>
              \A j \in RunIds \ {i} : EventsOf(j)' = EventsOf(j)
<1>1. /\ \A m, n \in DOMAIN history' : history'[m].run = history'[n].run => m = n
      /\ \E n \in DOMAIN history' : history'[n].run = i /\ history'[n].events = ListWith(e, i)
      /\ \A n \in DOMAIN history' : history'[n].run # i => \E m \in DOMAIN history : history[m] = history'[n]
      /\ Len(history) < MAX_REPLAY_RUNS \/ Recorded(i) # {} =>
           \A m \in DOMAIN history : history[m].run # i => \E n \in DOMAIN history' : history'[n] = history[m]
  <2>1. PICK H : H = HistoryWith(e, i)
    OBVIOUS
  <2>2. /\ \A m, n \in DOMAIN H : H[m].run = H[n].run => m = n
        /\ \E n \in DOMAIN H : H[n].run = i /\ H[n].events = ListWith(e, i)
        /\ \A n \in DOMAIN H : H[n].run # i => \E m \in DOMAIN history : history[m] = H[n]
        /\ Len(history) < MAX_REPLAY_RUNS \/ Recorded(i) # {} =>
             \A m \in DOMAIN history : history[m].run # i => \E n \in DOMAIN H : H[n] = history[m]
    <3> HIDE DEF OneListPerRun
    <3> QED
      BY <2>1, HistoryAfter
  <2>3. history' = H
    BY <2>1
  <2>4. /\ \A m, n \in DOMAIN history' : history'[m].run = history'[n].run => m = n
        /\ \E n \in DOMAIN history' : history'[n].run = i /\ history'[n].events = ListWith(e, i)
    BY <2>2, <2>3, Zenon
  <2>5. \A n \in DOMAIN history' : history'[n].run # i =>
          \E m \in DOMAIN history : history[m] = history'[n]
    BY <2>2, <2>3, SMT
  <2>6. Len(history) < MAX_REPLAY_RUNS \/ Recorded(i) # {} =>
          \A m \in DOMAIN history : history[m].run # i => \E n \in DOMAIN history' : history'[n] = history[m]
    BY <2>2, <2>3, SMT
  <2> QED
    BY <2>4, <2>5, <2>6, Zenon
<1>2. OneListPerRun'
  BY <1>1 DEF OneListPerRun
<1>3. \A n \in DOMAIN history' : \A j : history'[n].run = j => EventsOf(j)' = history'[n].events
  BY <1>2, ListOfEntryNext
<1>4. EventsOf(i)' = ListWith(e, i)
  BY <1>1, <1>3
<1>5. \A j : Recorded(j)' = {} => EventsOf(j)' = <<>>
  BY DEF EventsOf
<1>6. \A j : Recorded(j) = {} => EventsOf(j) = <<>>
  BY DEF EventsOf
<1>7. ASSUME NEW j \in RunIds \ {i}, NEW n \in DOMAIN history', history'[n].run = j
      PROVE  EventsOf(j)' = EventsOf(j)
  <2>1. PICK m \in DOMAIN history : history[m] = history'[n]
    BY <1>1, <1>7
  <2>2. EventsOf(j) = history[m].events
    BY <1>7, <2>1, ListOfEntry
  <2> QED
    BY <1>3, <1>7, <2>1, <2>2
<1>8. ASSUME NEW j \in RunIds \ {i} 
      PROVE  EventsOf(j)' = EventsOf(j) \/ EventsOf(j)' = <<>>
  <2>1. CASE Recorded(j)' = {}
    BY <1>5, <2>1
  <2>2. CASE Recorded(j)' # {}
    BY <1>7, <2>2 DEF Recorded
  <2> QED
    BY <2>1, <2>2
<1>9. ASSUME Len(history) < MAX_REPLAY_RUNS \/ Recorded(i) # {}, NEW j \in RunIds \ {i}
      PROVE  EventsOf(j)' = EventsOf(j)
  <2>1. CASE Recorded(j) = {}
    BY <1>6, <1>8, <2>1
  <2>2. CASE Recorded(j) # {}
    <3>1. PICK m \in DOMAIN history : history[m].run = j
      BY <2>2 DEF Recorded
    <3>2. PICK n \in DOMAIN history' : history'[n] = history[m]
      BY <1>1, <1>9, <3>1
    <3> QED
      BY <1>7, <3>1, <3>2
  <2> QED
    BY <2>1, <2>2
<1> QED
  BY <1>2, <1>4, <1>8, <1>9

\* A step that is streamed is new, and after every other of its request.
LEMMA EmitGrows ==
  ASSUME BusInv, TypeOK', NEW r \in Requests, NEW kind \in StepKinds, Emit(r, kind)
  PROVE  /\ Grown /\ IdleBlank' /\ Begun' = Begun
         /\ \A i : Under(i)' = Under(i)
         /\ \A x \in Requests : Streamed(x)' =
              IF x = r /\ ctx[r].id # None /\ kind # "call"
              THEN Streamed(r) \cup {Len(ctx[r].steps) + 1} ELSE Streamed(x)
         /\ <<r, Len(ctx[r].steps) + 1>> \in Events
         /\ \A n \in Streamed(r) : n < Len(ctx[r].steps) + 1
<1> DEFINE m == Len(ctx[r].steps) + 1
<1>1. /\ ctx[r].phase = "running" /\ Len(ctx[r].steps) < MaxSteps
      /\ ctx' = [ctx EXCEPT ![r].steps = Append(ctx[r].steps, kind)]
  BY DEF Emit, AddStep
<1>2. /\ ctx'[r].steps = Append(ctx[r].steps, kind)
      /\ \A x \in Requests : ctx'[x].id = ctx[x].id /\ ctx'[x].phase = ctx[x].phase
      /\ \A x \in Requests \ {r} : ctx'[x] = ctx[x]
  BY <1>1 DEF BusInv, TypeOK
<1>3. Begun' = Begun /\ IsFiniteSet(Begun) /\ \A i : Under(i)' = Under(i)
  BY <1>2 DEF Begun, Under, BusInv, BegunFinite
<1>4. IdleBlank'
  BY <1>1, <1>2 DEF BusInv, IdleBlank
<1>5. Len(ctx[r].steps) \in Nat /\ ctx[r].steps \in Seq(StepKinds)
      /\ \A n \in Streamed(r) : n \in 1..Len(ctx[r].steps)
  BY StreamedTypes DEF BusInv
<1>6. \A x \in Requests \ {r} : Streamed(x)' = Streamed(x)
  BY <1>2 DEF Streamed
<1>7. /\ DOMAIN ctx[r].steps = 1..m - 1 /\ DOMAIN ctx'[r].steps = 1..m /\ m \in Nat /\ m >= 1
      /\ \A n \in 1..m - 1 : ctx'[r].steps[n] = ctx[r].steps[n]
      /\ ctx'[r].steps[m] = kind
      /\ 1..m = (1..m - 1) \cup {m}
  BY <1>2, <1>5, AppendProperties, LenProperties
<1>8. Streamed(r)' = IF ctx[r].id # None /\ kind # "call" THEN Streamed(r) \cup {m} ELSE Streamed(r)
  <2> HIDE DEF m
  <2> QED
    BY <1>2, <1>7 DEF Streamed
<1>9. m \in 1..MaxSteps /\ \A n \in Streamed(r) : n < m
  BY <1>1, <1>5, BoundsAssumption
<1>10. Grown
  BY <1>2, <1>3, <1>6, <1>8 DEF Grown, Begun
<1> QED
  BY <1>3, <1>4, <1>6, <1>8, <1>9, <1>10 DEF Events

\* The bus gives up no run as long as there are no more than it keeps.
LEMMA NothingGivenUp ==
  ASSUME BusInv, TypeOK', Grown, NEW i \in RunIds, i \in Traced', Cardinality(Traced') <= MAX_REPLAY_RUNS
  PROVE  Len(history) < MAX_REPLAY_RUNS \/ Recorded(i) # {}
<1> SUFFICES ASSUME Recorded(i) = {} PROVE Len(history) < MAX_REPLAY_RUNS
  OBVIOUS
<1> DEFINE n == Len(history)
           f == [k \in 1..n + 1 |-> IF k \in 1..n THEN history[k].run ELSE i]
<1>1. n \in Nat /\ DOMAIN history = 1..n /\ history \in Seq(Entries)
  BY LenProperties DEF BusInv, TypeOK, Entries
<1>2. \A k \in 1..n : history[k].run # i /\ history[k].run \in RunIds
  <2>1. \A k \in 1..n : history[k] \in Entries
    BY <1>1, ElementOfSeq
  <2> QED
    BY <1>1, <2>1 DEF Recorded, Entries
<1>3. ASSUME NEW k \in 1..n, NEW j, history[k].run = j PROVE j \in Traced'
  <2>1. PICK e : e \in ToSet(history[k].events)
    <3>1. history[k].events # <<>> /\ history[k].events \in Seq(Events)
      <4>1. history[k] \in Entries
        BY <1>1, ElementOfSeq
      <4> QED
        BY <1>1, <4>1 DEF BusInv, StepsKept, Entries
    <3> QED
      BY <3>1, ShortenedSteps
  <2>2. OfRun(e, j)
    BY <1>1, <1>3, <2>1 DEF BusInv, StepsKept, StepsOf
  <2>3. OfRun(e, j)'
    BY <2>2, GrownKeeps DEF BusInv
  <2> QED
    BY <1>2, <1>3, <2>3 DEF OfRun, Traced
<1>4. f \in [1..n + 1 -> Traced']
  BY <1>3
<1>5. ASSUME NEW j \in 1..n + 1, NEW k \in 1..n + 1, f[j] = f[k] PROVE j = k
  <2>1. CASE j \in 1..n /\ k \in 1..n
    BY <1>1, <1>5, <2>1 DEF BusInv, OneListPerRun
  <2>2. CASE j \notin 1..n \/ k \notin 1..n
    BY <1>1, <1>2, <1>5, <2>2
  <2> QED
    BY <2>1, <2>2
<1>6. IsFiniteSet(Traced')
  BY TracedStaysFinite DEF Grown, BegunFinite
<1>7. n + 1 <= Cardinality(Traced')
  <2> HIDE DEF f
  <2> QED
    BY <1>1, <1>4, <1>5, <1>6, NoLongerThan
<1>8. Cardinality(Traced') \in Nat
  BY <1>6, FS_CardinalityType
<1> QED
  BY <1>1, <1>7, <1>8, BoundsAssumption

\* A run that stays within its bounds leaves room for its next step.
LEMMA RoomForTheNext ==
  ASSUME BusInv, NEW r \in Requests, NEW i \in RunIds, NEW m \in Nat, NEW S,
         IsFiniteSet(S), Streamed(r) \subseteq S, m \in S, m \notin Streamed(r),
         r \in Under(i), Cardinality(Under(i)) <= 1, Cardinality(S) <= MAX_EVENTS_PER_RUN
  PROVE  Len(EventsOf(i)) < MAX_EVENTS_PER_RUN
<1> DEFINE s == EventsOf(i)
           n == Len(s)
           f == [k \in 1..n + 1 |-> IF k \in 1..n THEN s[k][2] ELSE m]
<1>1. s \in Seq(Events) /\ n \in Nat /\ DOMAIN s = 1..n /\ StepsOf(s, i)
  BY ListOfRun, LenProperties, StepsOfList DEF BusInv
<1>2. \A x \in Under(i) : x = r
  <2> SUFFICES ASSUME NEW x \in Under(i), x # r PROVE FALSE
    OBVIOUS
  <2>1. IsFiniteSet(Under(i)) /\ {x, r} \subseteq Under(i)
    BY UnderTypes DEF BusInv
  <2>2. Cardinality({x, r}) = 2
    BY TwoOf
  <2>3. Cardinality({x, r}) <= Cardinality(Under(i)) /\ Cardinality(Under(i)) \in Nat
    BY <2>1, FS_Subset, FS_CardinalityType
  <2> QED
    BY <2>2, <2>3
<1>3. ASSUME NEW k \in 1..n PROVE s[k][1] = r /\ s[k][2] \in Streamed(r)
  BY <1>1, <1>2 DEF StepsOf, OfRun, ToSet
<1>4. f \in [1..n + 1 -> S]
  BY <1>3
<1>5. ASSUME NEW j \in 1..n, NEW k \in 1..n, j # k PROVE s[j][2] # s[k][2]
  <2>1. s[j][2] \in Nat /\ s[k][2] \in Nat
    BY <1>3, StreamedTypes DEF BusInv
  <2>2. j < k \/ k < j
    BY <1>1, <1>5
  <2> QED
    BY <1>1, <1>3, <2>1, <2>2 DEF StepsOf, InOrder
<1>6. ASSUME NEW j \in 1..n + 1, NEW k \in 1..n + 1, f[j] = f[k] PROVE j = k
  <2>1. \A x \in 1..n + 1 : x \in 1..n \/ x = n + 1
    BY <1>1
  <2>2. \A x \in 1..n : f[x] = s[x][2] /\ f[x] # m
    BY <1>1, <1>3
  <2>3. f[n + 1] = m
    BY <1>1
  <2> HIDE DEF f
  <2> QED
    BY <1>5, <1>6, <2>1, <2>2, <2>3
<1>7. n + 1 <= Cardinality(S)
  <2> HIDE DEF f
  <2> QED
    BY <1>1, <1>4, <1>6, NoLongerThan
<1> QED
  BY <1>1, <1>7, FS_CardinalityType, BoundsAssumption

LEMMA FiniteStreamedNext == TypeOK' => (\A r \in Requests : IsFiniteSet(Streamed(r)))'
<1>1. TypeOK => \A r \in Requests : IsFiniteSet(Streamed(r))
  BY StreamedTypes
<1> QED
  BY <1>1, PTL

LEMMA StreamEmitted ==
  ASSUME BusInv, TypeOK', NEW r \in Requests, NEW kind \in StepKinds, Emit(r, kind),
         ctx[r].id # None, kind # "call"
  PROVE  BusInv'
<1>0. PICK i \in RunIds, m \in Nat : i = ctx[r].id /\ m = Len(ctx[r].steps) + 1
  <2>1. ctx[r].id \in RunIds
    BY DEF BusInv, TypeOK
  <2>2. Len(ctx[r].steps) + 1 \in Nat
    BY StreamedTypes DEF BusInv
  <2> QED
    BY <2>1, <2>2
<1> DEFINE e == <<r, m>>
<1>1. /\ history' = HistoryWith(e, i)
      /\ conns' = [c \in Conns |->
                     IF Registered(c) /\ conns[c].run = i
                     THEN [conns[c] EXCEPT !.queue = Append(@, e)] ELSE conns[c]]
      /\ panel' = panel /\ ctx[r].phase = "running"
      /\ Len(Append(ctx[r].steps, kind)) = m
  <2>1. Len(Append(ctx[r].steps, kind)) = m
    BY <1>0, StreamedTypes, AppendProperties DEF BusInv
  <2> QED
    BY <1>0, <2>1 DEF Emit, AddStep, Publish
<1>2. /\ Grown /\ IdleBlank' /\ Begun' = Begun
      /\ \A j : Under(j)' = Under(j)
      /\ Streamed(r)' = Streamed(r) \cup {m}
      /\ \A x \in Requests \ {r} : Streamed(x)' = Streamed(x)
      /\ e \in Events
      /\ \A n \in Streamed(r) : n < m
  BY <1>0, EmitGrows
<1>3. m \in Nat /\ m \notin Streamed(r) /\ r \in Under(i) /\ r \in Begun
  BY <1>0, <1>1, <1>2, StreamedTypes DEF BusInv, Under, Begun
<1>4. /\ \A x, j : OfRun(x, j) => OfRun(x, j)'
      /\ \A j \in RunIds : InBounds(j)' => InBounds(j)
  BY <1>2, GrownKeeps DEF BusInv
<1>5. OfRun(e, i)'
  BY <1>2, <1>3 DEF OfRun
<1>6. \A j, s : StepsOf(s, j) => \A d \in ToSet(s) : d[1] = e[1] => d[2] < e[2]
  BY <1>2 DEF StepsOf, OfRun
<1> HIDE DEF e
<1>7. /\ OneListPerRun'
      /\ EventsOf(i)' = ListWith(e, i)
      /\ \A j \in RunIds \ {i} : EventsOf(j)' = EventsOf(j) \/ EventsOf(j)' = <<>>
      /\ Len(history) < MAX_REPLAY_RUNS \/ Recorded(i) # {} =>
           \A j \in RunIds \ {i} : EventsOf(j)' = EventsOf(j)
  BY <1>1, <1>2, ListsAfter DEF BusInv
<1>8. EventsOf(i) \in Seq(Events) /\ StepsOf(EventsOf(i), i)
      /\ Len(EventsOf(i)) <= MAX_EVENTS_PER_RUN
  BY ListOfRun, StepsOfList DEF BusInv
<1>9. /\ ListWith(e, i) # <<>>
      /\ InOrder(ListWith(e, i)) /\ \A x \in ToSet(ListWith(e, i)) : OfRun(x, i)'
      /\ ToSet(ListWith(e, i)) \subseteq ToSet(EventsOf(i)) \cup {e}
      /\ Len(EventsOf(i)) < MAX_EVENTS_PER_RUN =>
           ToSet(ListWith(e, i)) = ToSet(EventsOf(i)) \cup {e}
  <2>1. CASE Len(EventsOf(i)) < MAX_EVENTS_PER_RUN
    <3>1. /\ ToSet(Append(EventsOf(i), e)) = ToSet(EventsOf(i)) \cup {e}
          /\ InOrder(Append(EventsOf(i), e))
      BY <1>2, <1>6, <1>8, AppendedSteps DEF StepsOf
    <3>2. Append(EventsOf(i), e) # <<>>
      BY <1>2, <1>8, AppendProperties
    <3> QED
      BY <1>4, <1>5, <1>8, <2>1, <3>1, <3>2 DEF ListWith, StepsOf
  <2>2. CASE ~ Len(EventsOf(i)) < MAX_EVENTS_PER_RUN
    <3>1. EventsOf(i) # <<>>
      BY <2>2, BoundsAssumption
    <3> QED
      BY <1>4, <1>8, <2>2, <3>1 DEF ListWith, StepsOf
  <2> QED
    BY <2>1, <2>2
<1>10. \A j \in RunIds : ToSet(EventsOf(j)') \subseteq ToSet(EventsOf(j)) \cup IF j = i THEN {e} ELSE {}
  <2>1. ToSet(<<>>) = {}
    BY DEF ToSet
  <2> QED
    BY <1>7, <1>9, <2>1
<1>11. StepsKept'
  <2>1. PICK H : H = history'
    OBVIOUS
  <2>2. ASSUME NEW n \in DOMAIN H, NEW j, H[n].run = j
        PROVE  /\ H[n].events # <<>> /\ InOrder(H[n].events)
               /\ \A x \in ToSet(H[n].events) : OfRun(x, j)'
    <3>1. CASE j = i
      <4>1. \A k \in DOMAIN history' : \A l : history'[k].run = l => EventsOf(l)' = history'[k].events
        BY <1>7, ListOfEntryNext
      <4>2. H[n].events = ListWith(e, i)
        BY <1>7, <2>1, <2>2, <3>1, <4>1
      <4> QED
        BY <1>9, <3>1, <4>2
    <3>2. CASE j # i
      <4>1. PICK k \in DOMAIN history : history[k] = H[n]
        <5>1. \A l \in DOMAIN H : H[l].run # i => \E k \in DOMAIN history : history[k] = H[l]
          BY <1>1, <1>2, <2>1, HistoryAfter DEF BusInv
        <5> QED
          BY <2>2, <3>2, <5>1
      <4>2. H[n].events # <<>> /\ StepsOf(H[n].events, j)
        BY <2>2, <4>1 DEF BusInv, StepsKept
      <4> QED
        BY <1>4, <4>2 DEF StepsOf
    <3> QED
      BY <3>1, <3>2
  <2> QED
    BY <2>1, <2>2 DEF StepsKept, StepsOf
<1>12. ASSUME NEW c \in Conns
       PROVE  /\ conns'[c].phase = conns[c].phase /\ conns'[c].run = conns[c].run
              /\ Registered(c) /\ conns[c].run = i =>
                   /\ ToSet(conns'[c].queue) = ToSet(conns[c].queue) \cup {e}
                   /\ InOrder(conns'[c].queue)
              /\ ~ (Registered(c) /\ conns[c].run = i) => conns'[c].queue = conns[c].queue
  <2>1. conns[c].queue \in Seq(Events) /\ StepsOf(conns[c].queue, conns[c].run)
    BY StreamTypes DEF BusInv, StepsQueued
  <2>2. CASE Registered(c) /\ conns[c].run = i
    <3>1. conns'[c] = [conns[c] EXCEPT !.queue = Append(conns[c].queue, e)]
      BY <1>1, <2>2
    <3>2. conns'[c].queue = Append(conns[c].queue, e) 
          /\ conns'[c].phase = conns[c].phase /\ conns'[c].run = conns[c].run
      BY <3>1, StreamTypes DEF BusInv
    <3>3. /\ ToSet(Append(conns[c].queue, e)) = ToSet(conns[c].queue) \cup {e}
          /\ InOrder(Append(conns[c].queue, e))
      BY <1>2, <1>6, <2>1, AppendedSteps DEF StepsOf
    <3> QED
      BY <2>2, <3>2, <3>3
  <2>3. CASE ~ (Registered(c) /\ conns[c].run = i)
    BY <1>1, <2>3
  <2> QED
    BY <2>2, <2>3
<1>13. StepsQueued'
  <2>1. ASSUME NEW c \in Conns, NEW j, conns[c].run = j
        PROVE  /\ InOrder(conns'[c].queue)
               /\ \A x \in ToSet(conns'[c].queue) : OfRun(x, j)'
    <3>1. StepsOf(conns[c].queue, j)
      BY <2>1 DEF BusInv, StepsQueued
    <3> QED
      BY <1>4, <1>5, <1>12, <2>1, <3>1 DEF StepsOf
  <2> QED
    BY <1>12, <2>1 DEF StepsQueued, StepsOf
<1>14. StepsShown'
  BY <1>1, <1>4 DEF BusInv, StepsShown, StepsOf
<1>15. OneStream'
  BY <1>1, <1>12, StreamTypes DEF BusInv, OneStream
<1>16. \A j \in Watched : ShownOrLater(e, panel[j].shown)
  BY <1>6 DEF BusInv, StepsShown, ShownOrLater
<1>17. KeptInTime'
  <2>1. \A j \in Watched : \A x \in ToSet(EventsOf(j)') : ShownOrLater(x, panel[j].shown)
    BY <1>10, <1>16, WatchedAssumption DEF BusInv, KeptInTime
  <2> QED
    BY <1>1, <2>1 DEF KeptInTime, ShownOrLater
<1>18. ASSUME NEW j \in Watched, panel[j].conn # None
       PROVE  /\ \A x \in ToSet(conns'[panel[j].conn].queue) : ShownOrLater(x, panel[j].shown)
              /\ ToSet(EventsOf(j)') \subseteq ToSet(panel[j].shown) \cup ToSet(conns'[panel[j].conn].queue)
  <2>1. PICK c \in Conns : c = panel[j].conn /\ conns[c].phase = "streaming" /\ conns[c].run = j
    BY <1>18, StreamTypes DEF BusInv, OneStream
  <2>2. /\ ToSet(conns[c].queue) \subseteq ToSet(conns'[c].queue)
        /\ ToSet(conns'[c].queue) \subseteq ToSet(conns[c].queue) \cup {e}
        /\ j = i => e \in ToSet(conns'[c].queue)
    BY <1>12, <2>1 DEF Registered
  <2>3. \A x \in ToSet(conns[c].queue) : ShownOrLater(x, panel[j].shown)
    BY <1>18, <2>1 DEF BusInv, QueuedInTime
  <2>4. ToSet(EventsOf(j)) \subseteq ToSet(panel[j].shown) \cup ToSet(conns[c].queue)
    BY <1>18, <2>1 DEF BusInv, NothingMissed
  <2> QED
    BY <1>10, <1>16, <2>1, <2>2, <2>3, <2>4, WatchedAssumption
<1>19. QueuedInTime' /\ NothingMissed'
  BY <1>1, <1>18 DEF QueuedInTime, NothingMissed, ShownOrLater
<1>20. AllKept'
  <2> SUFFICES ASSUME NEW j \in RunIds, InBounds(j)', NEW x \in Under(j), NEW n \in Streamed(x)'
               PROVE  <<x, n>> \in ToSet(EventsOf(j)')
    BY <1>2 DEF AllKept
  <2>1. Cardinality(Traced') <= MAX_REPLAY_RUNS
    BY DEF InBounds
  <2>2. i \in Traced'
    BY <1>2, <1>3 DEF Traced
  <2>3. \A k \in RunIds \ {i} : EventsOf(k)' = EventsOf(k)
    BY <1>2, <1>7, <2>1, <2>2, NothingGivenUp
  <2>4. \A y \in Under(j) : \A k \in Streamed(y) : <<y, k>> \in ToSet(EventsOf(j))
    BY <1>4 DEF BusInv, AllKept
  <2>5. CASE j = i
    <3>1. Cardinality(Under(i)) <= 1 /\ Cardinality(Streamed(r) \cup {m}) <= MAX_EVENTS_PER_RUN
      BY <1>2, <1>3, <2>5 DEF InBounds
    <3>2. IsFiniteSet(Streamed(r) \cup {m})
      BY <1>2, FiniteStreamedNext
    <3>3. Len(EventsOf(i)) < MAX_EVENTS_PER_RUN
      <4>1. /\ Streamed(r) \subseteq Streamed(r) \cup {m}
            /\ m \in Streamed(r) \cup {m} /\ m \in Nat /\ m \notin Streamed(r)
        BY <1>3
      <4> QED
        BY <1>3, <3>1, <3>2, <4>1, RoomForTheNext
    <3>4. ToSet(EventsOf(i)') = ToSet(EventsOf(i)) \cup {e}
      BY <1>7, <1>9, <3>3
    <3>5. x \in Requests
      BY DEF Under
    <3>6. n \in Streamed(x) \/ <<x, n>> = e
      BY <1>2, <3>5 DEF e
    <3> QED
      BY <2>4, <2>5, <3>4, <3>6
  <2>6. CASE j # i
    <3>1. x \in Requests /\ x # r
      BY <1>0, <2>6 DEF Under
    <3> QED
      BY <1>2, <2>3, <2>4, <2>6, <3>1
  <2> QED
    BY <2>5, <2>6
<1>21. NoneSkipped'
  <2> SUFFICES ASSUME NEW j \in Watched, InBounds(j)', NEW x \in ToSet(panel[j].shown),
                      NEW n \in Streamed(x[1])', n < x[2]
               PROVE  <<x[1], n>> \in ToSet(panel[j].shown)
    BY <1>1 DEF NoneSkipped, SkipsNone
  <2>1. x[1] \in Requests /\ x[2] \in Streamed(x[1])
    BY DEF BusInv, StepsShown, StepsOf, OfRun, Under
  <2>2. n \in Streamed(x[1])
    <3>1. CASE x[1] = r
      <4>1. x[2] \in Nat /\ x[2] < m
        BY <1>2, <2>1, <3>1, StreamedTypes DEF BusInv
      <4>2. n # m
        BY <1>3, <4>1
      <4> QED
        BY <1>2, <3>1, <4>2
    <3>2. CASE x[1] # r
      BY <1>2, <2>1, <3>2
    <3> QED
      BY <3>1, <3>2
  <2>3. InBounds(j)
    BY <1>4, WatchedAssumption
  <2> QED
    BY <2>2, <2>3 DEF BusInv, NoneSkipped, SkipsNone
<1>22. BegunFinite'
  BY <1>2 DEF BusInv, BegunFinite
<1> QED
  BY <1>2, <1>7, <1>11, <1>13, <1>14, <1>15, <1>17, <1>19, <1>20, <1>21, <1>22 DEF BusInv

-----------------------------------------------------------------------------
(* Every step, and the panel.                                              *)

\* A step, streamed or not.
LEMMA EmitStep ==
  ASSUME BusInv, TypeOK', NEW r \in Requests, NEW kind \in StepKinds, Emit(r, kind)
  PROVE  BusInv'
<1>1. CASE ctx[r].id # None /\ kind # "call"
  BY <1>1, StreamEmitted
<1>2. CASE ~ (ctx[r].id # None /\ kind # "call")
  <2>1. UNCHANGED <<history, conns, panel>>
    BY <1>2 DEF Emit
  <2>2. /\ Grown /\ IdleBlank' /\ Begun' = Begun
        /\ \A x \in Requests : Streamed(x)' = Streamed(x)
    BY <1>2, EmitGrows
  <2> QED
    BY <2>1, <2>2, QuietStep DEF Grown, Begun
<1> QED
  BY <1>1, <1>2

LEMMA OpenStep ==
  ASSUME BusInv, TypeOK', NEW r \in Requests, NEW i \in RunIds \cup {None}, Open(r, i)
  PROVE  BusInv'
<1>1. /\ ctx[r].phase = "idle" /\ UNCHANGED <<history, conns, panel>>
      /\ ctx' = [ctx EXCEPT ![r].phase = "running", ![r].id = i]
  BY DEF Open
<1>2. /\ ctx'[r].phase = "running" /\ ctx'[r].steps = ctx[r].steps
      /\ \A x \in Requests \ {r} : ctx'[x] = ctx[x]
  BY <1>1 DEF BusInv, TypeOK
<1>3. Begun' = Begun \cup {r} /\ r \notin Begun
  BY <1>1, <1>2 DEF Begun
<1>4. IsFiniteSet(Begun')
  BY <1>3, FS_AddElement DEF BusInv, BegunFinite
<1>5. ctx'[r].steps = <<>>
  BY <1>1, <1>2 DEF BusInv, IdleBlank
<1>6. IdleBlank'
  BY <1>2 DEF BusInv, IdleBlank
<1>7. Streamed(r)' = {}
  <2>1. DOMAIN ctx'[r].steps = {}
    BY <1>5, EmptySeq
  <2> QED
    BY <2>1 DEF Streamed
<1>8. \A x \in Begun : x # r /\ ctx'[x].id = ctx[x].id /\ Streamed(x)' = Streamed(x)
  BY <1>2, <1>3 DEF Begun, Streamed
<1> QED
  BY <1>1, <1>3, <1>4, <1>6, <1>7, <1>8, QuietStep

\* The types, part by part.
ContextTypes == [phase : Phases, id : RunIds \cup {None},
                 steps : Seq(StepKinds), key : Kept \cup {None}]
StreamTypesOf == [phase : {"free", "streaming", "dropped", "ended"},
                  run : RunIds \cup {None}, queue : Seq(Events)]
PanelTypes == [open : BOOLEAN, conn : Conns \cup {None}, shown : Seq(Events)]
ContextsOK == ctx \in [Requests -> ContextTypes] /\ \A r \in Requests : Len(ctx[r].steps) <= MaxSteps
HistoryOK ==
  /\ history \in Seq(Entries) /\ Len(history) <= MAX_REPLAY_RUNS
  /\ \A n \in DOMAIN history : Len(history[n].events) <= MAX_EVENTS_PER_RUN
StreamsOK == conns \in [Conns -> StreamTypesOf] /\ panel \in [Watched -> PanelTypes]

LEMMA TypesByPart == TypeOK <=> ContextsOK /\ HistoryOK /\ StreamsOK
BY DEF TypeOK, ContextsOK, HistoryOK, StreamsOK, ContextTypes, StreamTypesOf, PanelTypes, Entries

LEMMA TypesByPartNext == TypeOK' <=> ContextsOK' /\ HistoryOK' /\ StreamsOK'
BY TypesByPart, PTL

LEMMA ContextKept ==
  ASSUME ContextsOK, NEW r \in Requests, NEW x \in ContextTypes,
         ctx' = [ctx EXCEPT ![r] = x], Len(x.steps) <= MaxSteps
  PROVE  ContextsOK'
<1>1. /\ ctx' \in [Requests -> ContextTypes]
      /\ \A y \in Requests : ctx'[y] = IF y = r THEN x ELSE ctx[y]
  BY DEF ContextsOK
<1> QED
  BY <1>1 DEF ContextsOK

\* A request goes on, keeping its id and its steps.
LEMMA PhaseStep ==
  ASSUME BusInv, TypeOK', UNCHANGED <<history, conns, panel>>,
         \A x \in Requests : /\ ctx'[x].id = ctx[x].id /\ ctx'[x].steps = ctx[x].steps
                             /\ (ctx'[x].phase = "idle") = (ctx[x].phase = "idle")
  PROVE  BusInv'
<1>1. Begun' = Begun /\ IdleBlank'
  BY DEF Begun, BusInv, IdleBlank
<1>2. \A x \in Begun : ctx'[x].id = ctx[x].id /\ Streamed(x)' = Streamed(x)
  BY DEF Begun, Streamed
<1> QED
  BY <1>1, <1>2, QuietStep DEF BusInv, BegunFinite

LEMMA GoesOn ==
  ASSUME BusInv, TypeOK', NEW r \in Requests,
         Respond(r) \/ LookUp(r) \/ Insert(r) \/ InsertConflicts(r) \/ SaveFails(r)
  PROVE  BusInv'
<1>1. UNCHANGED <<history, conns, panel>> /\ ctx[r].phase # "idle"
  BY DEF Respond, LookUp, Insert, InsertConflicts, SaveFails
<1>2. ctx \in [Requests -> ContextTypes]
  BY DEF BusInv, TypeOK, ContextTypes
<1>3. \A x \in Requests : /\ ctx'[x].id = ctx[x].id /\ ctx'[x].steps = ctx[x].steps
                          /\ (ctx'[x].phase = "idle") = (ctx[x].phase = "idle")
  <2>1. ASSUME NEW phase, phase # "idle", ctx' = [ctx EXCEPT ![r].phase = phase]
        PROVE  \A x \in Requests : /\ ctx'[x].id = ctx[x].id /\ ctx'[x].steps = ctx[x].steps
                                 /\ (ctx'[x].phase = "idle") = (ctx[x].phase = "idle")
    BY <1>1, <1>2, <2>1 DEF ContextTypes
  <2>2. CASE Respond(r)
    <3>1. PICK phase : phase = IF WorthKeeping(r) THEN "responded" ELSE "done"
      OBVIOUS
    <3>2. phase # "idle" /\ ctx' = [ctx EXCEPT ![r].phase = phase]
      BY <2>2, <3>1 DEF Respond
    <3> QED
      BY <2>1, <3>2
  <2>3. CASE LookUp(r)
    BY <1>1, <1>2, <2>3 DEF LookUp, ContextTypes
  <2> QED
    BY <2>1, <2>2, <2>3 DEF Insert, InsertConflicts, SaveFails
<1> QED
  BY <1>1, <1>3, PhaseStep

LEMMA KeyTypes ==
  ASSUME TypeOK, NEW r \in Requests, ctx[r].id \in RunIds \cup {None}
  PROVE  KeyFor(r) \in Kept
BY DEF KeyFor, OwnKey, Kept

LEMMA TypesKept ==
  ASSUME BusInv, Next
  PROVE  TypeOK'
<1>0. ContextsOK /\ HistoryOK /\ StreamsOK /\ TypeOK
  BY TypesByPart DEF BusInv
<1>00. ASSUME NEW r \in Requests PROVE ctx[r] \in ContextTypes /\ Len(ctx[r].steps) <= MaxSteps
  BY <1>0 DEF ContextsOK
\* Requests alone.
<1>1. ASSUME NEW r \in Requests, NEW x \in ContextTypes, ctx' = [ctx EXCEPT ![r] = x],
             Len(x.steps) <= MaxSteps, UNCHANGED <<history, conns, panel>>
      PROVE  TypeOK'
  <2>1. ContextsOK'
    BY <1>0, <1>1, ContextKept
  <2>2. HistoryOK' /\ StreamsOK'
    BY <1>0, <1>1 DEF HistoryOK, StreamsOK
  <2> QED
    BY <2>1, <2>2, TypesByPartNext
<1>2. ASSUME NEW r \in Requests, NEW phase \in Phases, ctx' = [ctx EXCEPT ![r].phase = phase],
             UNCHANGED <<history, conns, panel>>
      PROVE  TypeOK'
  <2> DEFINE x == [ctx[r] EXCEPT !.phase = phase]
  <2>1. x \in ContextTypes /\ x.steps = ctx[r].steps
    BY <1>00 DEF ContextTypes
  <2>2. ctx' = [ctx EXCEPT ![r] = x]
    BY <1>2
  <2> HIDE DEF x
  <2> QED
    BY <1>00, <1>1, <1>2, <2>1, <2>2
<1>3. ASSUME NEW r \in Requests, NEW i \in RunIds \cup {None}, Open(r, i) PROVE TypeOK'
  <2> DEFINE x == [ctx[r] EXCEPT !.phase = "running", !.id = i]
  <2>1. x \in ContextTypes /\ x.steps = ctx[r].steps
    BY <1>00 DEF ContextTypes, Phases
  <2>2. ctx' = [ctx EXCEPT ![r] = x] /\ UNCHANGED <<history, conns, panel>>
    BY <1>3 DEF Open
  <2> HIDE DEF x
  <2> QED
    BY <1>00, <1>1, <2>1, <2>2
<1>4. ASSUME NEW r \in Requests, LookUp(r) PROVE TypeOK'
  <2> DEFINE x == [ctx[r] EXCEPT !.phase = "saving", !.key = KeyFor(r)]
  <2>1. KeyFor(r) \in Kept
    BY <1>0, <1>00, KeyTypes DEF ContextTypes
  <2>2. x \in ContextTypes /\ x.steps = ctx[r].steps
    BY <1>00, <2>1 DEF ContextTypes, Phases
  <2>3. ctx' = [ctx EXCEPT ![r] = x] /\ UNCHANGED <<history, conns, panel>>
    BY <1>4 DEF LookUp
  <2> HIDE DEF x
  <2> QED
    BY <1>00, <1>1, <2>2, <2>3
<1>5. ASSUME NEW r \in Requests, Respond(r) PROVE TypeOK'
  <2>1. PICK phase \in Phases : phase = IF WorthKeeping(r) THEN "responded" ELSE "done"
    BY DEF Phases
  <2> QED
    BY <1>2, <1>5, <2>1 DEF Respond
<1>6. ASSUME NEW r \in Requests, Insert(r) \/ InsertConflicts(r) \/ SaveFails(r) PROVE TypeOK'
  <2>1. {"done", "lost", "unsaved"} \subseteq Phases
    BY DEF Phases
  <2> QED
    BY <1>2, <1>6, <2>1 DEF Insert, InsertConflicts, SaveFails
<1>7. ASSUME NEW r \in Requests, NEW kind \in StepKinds, Emit(r, kind) PROVE TypeOK'
  <2> DEFINE x == [ctx[r] EXCEPT !.steps = Append(ctx[r].steps, kind)]
  <2>1. ctx[r].steps \in Seq(StepKinds) /\ Len(ctx[r].steps) \in Nat
    BY <1>00, LenProperties DEF ContextTypes
  <2>2. /\ Append(ctx[r].steps, kind) \in Seq(StepKinds)
        /\ Len(Append(ctx[r].steps, kind)) = Len(ctx[r].steps) + 1
    BY <2>1, AppendProperties
  <2>3. ctx' = [ctx EXCEPT ![r] = x] /\ Len(ctx[r].steps) < MaxSteps /\ UNCHANGED panel
    BY <1>7 DEF Emit, AddStep
  <2>4. x \in ContextTypes /\ x.steps = Append(ctx[r].steps, kind)
    BY <1>00, <2>2 DEF ContextTypes
  <2>5. Len(ctx[r].steps) + 1 \in 1..MaxSteps
    BY <2>1, <2>3, BoundsAssumption
  <2> HIDE DEF x
  <2>6. ContextsOK'
    <3>1. Len(x.steps) <= MaxSteps
      BY <2>2, <2>4, <2>5, BoundsAssumption
    <3> QED
      BY <1>0, <2>3, <2>4, <3>1, ContextKept
  <2>7. CASE UNCHANGED <<history, conns>>
    <3>1. HistoryOK' /\ StreamsOK'
      BY <1>0, <2>3, <2>7 DEF HistoryOK, StreamsOK
    <3> QED
      BY <2>6, <3>1, TypesByPartNext
  <2>8. CASE ctx[r].id # None /\ Publish(<<r, Len(ctx[r].steps) + 1>>, ctx[r].id)
    <3>1. PICK i \in RunIds, e \in Events : i = ctx[r].id /\ e = <<r, Len(ctx[r].steps) + 1>>
      BY <1>00, <2>5, <2>8 DEF Events, ContextTypes
    <3>2. PICK H : H = HistoryWith(e, i)
      OBVIOUS
    <3>3. /\ H \in Seq(Entries) /\ Len(H) <= MAX_REPLAY_RUNS
          /\ \A n \in DOMAIN H : Len(H[n].events) <= MAX_EVENTS_PER_RUN
      BY <1>0, <3>2, HistoryAfter DEF BusInv
    <3>4. history' = H /\ conns' = [c \in Conns |->
                 IF Registered(c) /\ conns[c].run = i
                 THEN [conns[c] EXCEPT !.queue = Append(@, e)] ELSE conns[c]]
      BY <2>8, <3>1, <3>2 DEF Publish
    <3>5. ASSUME NEW c \in Conns
          PROVE  /\ conns[c] \in StreamTypesOf
                 /\ [conns[c] EXCEPT !.queue = Append(@, e)] \in StreamTypesOf
      <4>1. conns[c] \in StreamTypesOf
        BY <1>0 DEF StreamsOK
      <4>2. Append(conns[c].queue, e) \in Seq(Events)
        BY <4>1, AppendProperties DEF StreamTypesOf
      <4> QED
        BY <4>1, <4>2 DEF StreamTypesOf
    <3>6. StreamsOK'
      BY <1>0, <2>3, <3>4, <3>5 DEF StreamsOK
    <3>7. HistoryOK'
      BY <3>3, <3>4 DEF HistoryOK
    <3> QED
      BY <2>6, <3>6, <3>7, TypesByPartNext
  <2> QED
    BY <1>7, <2>2, <2>7, <2>8 DEF Emit, AddStep
\* Streams alone.
<1>8. ASSUME UNCHANGED <<ctx, history>>, StreamsOK' PROVE TypeOK'
  <2>1. ContextsOK' /\ HistoryOK'
    BY <1>0, <1>8 DEF ContextsOK, HistoryOK
  <2> QED
    BY <1>8, <2>1, TypesByPartNext
<1>9. /\ \A c \in Conns : conns[c] \in StreamTypesOf
      /\ \A i \in Watched : panel[i] \in PanelTypes
  BY <1>0 DEF StreamsOK
<1>10. ASSUME NEW c \in Conns, NEW x \in StreamTypesOf, conns' = [conns EXCEPT ![c] = x],
              NEW i \in Watched, NEW p \in PanelTypes, panel' = [panel EXCEPT ![i] = p],
              UNCHANGED <<ctx, history>>
       PROVE  TypeOK'
  <2>1. StreamsOK'
    BY <1>0, <1>10 DEF StreamsOK
  <2> QED
    BY <1>8, <1>10, <2>1
<1>11. ASSUME NEW i \in Watched, Connect(i) PROVE TypeOK'
  <2>1. i \in RunIds /\ EventsOf(i) \in Seq(Events)
    BY <1>0, ListOfRun, WatchedAssumption
  <2>2. PICK c \in Conns : /\ conns' = [conns EXCEPT ![c] = Subscribed(i)]
                           /\ panel' = [panel EXCEPT ![i] = [panel[i] EXCEPT !.conn = c]]
    BY <1>11 DEF Connect, Unused
  <2>3. Subscribed(i) \in StreamTypesOf /\ [panel[i] EXCEPT !.conn = c] \in PanelTypes
    BY <1>9, <2>1 DEF StreamTypesOf, PanelTypes, Subscribed
  <2>4. UNCHANGED <<ctx, history>>
    BY <1>11 DEF Connect
  <2> QED
    BY <1>10, <2>2, <2>3, <2>4
<1>12. ASSUME NEW i \in Watched, Close(i) PROVE TypeOK'
  <2> DEFINE p == [panel[i] EXCEPT !.open = FALSE, !.conn = None]
  <2>1. p \in PanelTypes
    BY <1>9 DEF PanelTypes
  <2>2. panel' = [panel EXCEPT ![i] = p] /\ UNCHANGED <<ctx, history>>
    BY <1>12 DEF Close
  <2> HIDE DEF p
  <2>3. CASE panel[i].conn = None
    <3>1. conns' = conns
      BY <1>12, <2>3 DEF Close
    <3>2. conns \in [Conns -> StreamTypesOf] /\ panel \in [Watched -> PanelTypes]
      BY <1>0 DEF StreamsOK
    <3>3. panel' \in [Watched -> PanelTypes]
      BY <2>1, <2>2, <3>2
    <3>4. StreamsOK'
      BY <3>1, <3>2, <3>3 DEF StreamsOK
    <3> QED
      BY <1>8, <2>2, <3>4
  <2>4. CASE panel[i].conn # None
    <3>1. PICK c \in Conns : c = panel[i].conn
      BY <1>9, <2>4 DEF PanelTypes
    <3>2. [conns[c] EXCEPT !.phase = "dropped"] \in StreamTypesOf
      BY <1>9 DEF StreamTypesOf
    <3>3. conns' = [conns EXCEPT ![c] = [conns[c] EXCEPT !.phase = "dropped"]]
      BY <1>12, <2>4, <3>1 DEF Close
    <3> QED
      BY <1>10, <2>1, <2>2, <3>2, <3>3
  <2> QED
    BY <2>3, <2>4
<1>13. ASSUME NEW c \in Conns, Deliver(c) \/ Drop(c)
       PROVE  conns[c].run \in Watched
  BY <1>13 DEF Deliver, Drop, BusInv, OneStream
<1>14. ASSUME NEW c \in Conns, Deliver(c) PROVE TypeOK'
  <2> DEFINE i == conns[c].run
             q == conns[c].queue
             s == panel[i].shown
  <2>1. i \in Watched
    BY <1>13, <1>14
  <2>2. q \in Seq(Events) /\ q # <<>> /\ s \in Seq(Events)
    BY <1>9, <1>14, <2>1 DEF Deliver, StreamTypesOf, PanelTypes
  <2>3. Tail(q) \in Seq(Events) /\ Head(q) \in Events
    BY <2>2, ShortenedSteps
  <2>4. Shown(s, Head(q)) \in Seq(Events)
    BY <2>2, <2>3, ShownSteps
  <2>5. /\ [conns[c] EXCEPT !.queue = Tail(q)] \in StreamTypesOf
        /\ [panel[i] EXCEPT !.shown = Shown(s, Head(q))] \in PanelTypes
    BY <1>9, <2>1, <2>3, <2>4 DEF StreamTypesOf, PanelTypes
  <2>6. /\ conns' = [conns EXCEPT ![c] = [conns[c] EXCEPT !.queue = Tail(q)]]
        /\ panel' = [panel EXCEPT ![i] = [panel[i] EXCEPT !.shown = Shown(s, Head(q))]]
        /\ UNCHANGED <<ctx, history>>
    BY <1>14 DEF Deliver
  <2> HIDE DEF i, q, s
  <2> QED
    BY <1>10, <2>1, <2>5, <2>6
<1>15. ASSUME NEW c \in Conns, Drop(c) PROVE TypeOK'
  <2>1. PICK i \in Watched : i = conns[c].run
    BY <1>13, <1>15
  <2>2. /\ [conns[c] EXCEPT !.phase = "dropped"] \in StreamTypesOf
        /\ [panel[i] EXCEPT !.conn = None] \in PanelTypes
    BY <1>9 DEF StreamTypesOf, PanelTypes
  <2>3. /\ conns' = [conns EXCEPT ![c] = [conns[c] EXCEPT !.phase = "dropped"]]
        /\ panel' = [panel EXCEPT ![i] = [panel[i] EXCEPT !.conn = None]]
        /\ UNCHANGED <<ctx, history>>
    BY <1>15, <2>1 DEF Drop
  <2> QED
    BY <1>10, <2>2, <2>3
<1>16. ASSUME NEW c \in Conns, Notice(c) PROVE TypeOK'
  <2>1. Unsubscribed(c) \in StreamTypesOf
    BY EmptySeq DEF Unsubscribed, Free, StreamTypesOf
  <2>2. StreamsOK'
    BY <1>0, <1>16, <2>1 DEF Notice, StreamsOK
  <2> QED
    BY <1>8, <1>16, <2>2 DEF Notice
<1> QED
  BY <1>3, <1>4, <1>5, <1>6, <1>7, <1>11, <1>12, <1>14, <1>15, <1>16 DEF Next

LEMMA BusStep ==
  ASSUME BusInv, Next
  PROVE  BusInv'
<1>1. TypeOK'
  BY TypesKept
<1> QED
  BY <1>1, OpenStep, EmitStep, GoesOn, ConnectStep, CloseStep, DeliverStep, DropStep,
     NoticeStep DEF Next

LEMMA BusStutter ==
  ASSUME BusInv, UNCHANGED vars
  PROVE  BusInv'
<1>1. UNCHANGED <<ctx, history, conns, panel>>
  BY DEF vars
<1>2. TypeOK'
  BY <1>1 DEF BusInv, TypeOK
<1> QED
  BY <1>1, <1>2, PhaseStep

LEMMA BusBegins == Init => BusInv
<1> SUFFICES ASSUME Init PROVE BusInv
  OBVIOUS
<1> USE DEF Init, Idle, Free, Watching
<1>1. \A i : Recorded(i) = {} /\ EventsOf(i) = <<>>
  BY DEF Recorded, EventsOf
<1>2. Begun = {} /\ \A i : Under(i) = {}
  BY DEF Begun, Under
<1>3. ToSet(<<>>) = {} /\ InOrder(<<>>)
  BY DEF ToSet, InOrder
<1>4. TypeOK
  BY BoundsAssumption DEF TypeOK, Phases
<1>5. BegunFinite /\ IdleBlank /\ OneListPerRun /\ StepsKept
  BY <1>2, FS_EmptySet DEF BegunFinite, IdleBlank, OneListPerRun, StepsKept
<1>6. StepsQueued /\ StepsShown /\ OneStream
  BY <1>3 DEF StepsQueued, StepsShown, StepsOf, OneStream
<1>7. KeptInTime /\ QueuedInTime /\ NothingMissed
  BY <1>1, <1>3 DEF KeptInTime, QueuedInTime, NothingMissed
<1>8. AllKept /\ NoneSkipped
  BY <1>2, <1>3 DEF AllKept, NoneSkipped, SkipsNone
<1> QED
  BY <1>4, <1>5, <1>6, <1>7, <1>8 DEF BusInv

\* However panels connect, drop and come back while requests take steps, a
\* panel shows streamed steps of its run, each once and in order, and within
\* the bounds of the bus skips none before one it shows (sse/trace.py,
\* trace-store.ts).
THEOREM PanelAlwaysFollows == Spec => []PanelFollowsRun
<1>1. BusInv /\ [Next]_vars => BusInv'
  BY BusStep, BusStutter
<1>2. BusInv => PanelFollowsRun
  BY DEF BusInv, PanelFollowsRun, StepsShown, StepsOf, NoneSkipped
<1> QED
  BY BusBegins, <1>1, <1>2, PTL DEF Spec

-----------------------------------------------------------------------------
(* The audit.                                                              *)

\* The key a request is, or will be, kept under names it alone, or its id.
KeyOf(r, key) ==
  IF ctx[r].id = None THEN key = <<r>> ELSE key \in {<<ctx[r].id>>, <<ctx[r].id, r>>}

RowsTrue ==
  \A row \in rows :
    /\ row.of \in Requests /\ ctx[row.of].phase = "done"
    /\ row.steps = ctx[row.of].steps /\ KeyOf(row.of, row.key)
OneRowPerKey == \A a, b \in rows : a.key = b.key => a = b
DoneKept ==
  \A r \in Requests : ctx[r].phase = "done" /\ WorthKeeping(r) => \E row \in rows : row.of = r

\* A key looked up stays free, but for a request that races.
KeyFree ==
  \A r \in Requests : ctx[r].phase = "saving" =>
    KeyOf(r, ctx[r].key) /\ (r \notin raced => ctx[r].key \notin Keys)
LostRaced == \A r \in Requests : ctx[r].phase = "lost" => r \in raced
RacingRaced == Racing \subseteq raced

AuditInv == RowsTrue /\ OneRowPerKey /\ DoneKept /\ KeyFree /\ LostRaced /\ RacingRaced

LEMMA RacersKnown ==
  ASSUME BusInv, RacingRaced, NEW r \in Requests, NEW x \in Requests, r # x,
         ctx[r].id # None, ctx[r].id = ctx[x].id,
         ctx[r].phase = "saving", ctx[x].phase = "saving"
  PROVE  r \in raced
<1> DEFINE i == ctx[r].id
<1>1. i \in RunIds /\ {r, x} \subseteq OpenUnder(i)
  BY DEF BusInv, TypeOK, OpenUnder, Under
<1>2. IsFiniteSet(OpenUnder(i))
  <2>1. OpenUnder(i) \subseteq Under(i) /\ IsFiniteSet(Under(i))
    BY UnderTypes DEF OpenUnder, BusInv
  <2> QED
    BY <2>1, FS_Subset
<1>3. Cardinality({r, x}) = 2
  BY TwoOf
<1>4. Cardinality(OpenUnder(i)) > 1
  <2>1. Cardinality({r, x}) <= Cardinality(OpenUnder(i)) /\ Cardinality(OpenUnder(i)) \in Nat
    BY <1>1, <1>2, FS_Subset, FS_CardinalityType
  <2> QED
    BY <1>3, <2>1
<1> QED
  BY <1>1, <1>4 DEF RacingRaced, Racing

LEMMA AuditBegins == MCInit => AuditInv
<1> SUFFICES ASSUME MCInit PROVE AuditInv
  OBVIOUS
<1> USE DEF MCInit, Init, Idle
<1>1. \A i : OpenUnder(i) = {}
  BY DEF OpenUnder, Under
<1>2. Cardinality({}) = 0
  BY FS_EmptySet
<1>3. Racing = {}
  BY <1>1, <1>2 DEF Racing
<1> QED
  BY <1>3 DEF AuditInv, RowsTrue, OneRowPerKey, DoneKept, KeyFree, LostRaced, RacingRaced

\* A step that leaves the rows and the phases, ids, keys and ended steps alone,
\* or begins a request.
LEMMA AuditQuiet ==
  ASSUME AuditInv, UNCHANGED rows, raced \subseteq raced', RacingRaced',
         \A r \in Requests :
           \/ /\ ctx'[r].phase \notin {"done", "saving", "lost"}
              /\ ctx[r].phase \notin {"done", "saving", "lost"}
           \/ ctx'[r] = ctx[r]
  PROVE  AuditInv'
<1> USE DEF AuditInv
<1>1. Keys' = Keys
  BY DEF Keys
<1>2. \A r \in Requests : ctx'[r].phase \in {"done", "saving", "lost"} \/ ctx[r].phase \in {"done", "saving", "lost"}
        => ctx'[r] = ctx[r]
  OBVIOUS
<1>3. RowsTrue'
  BY <1>2 DEF RowsTrue, KeyOf
<1>4. OneRowPerKey' /\ LostRaced'
  BY <1>2 DEF OneRowPerKey, LostRaced
<1>5. DoneKept'
  BY <1>2 DEF DoneKept, WorthKeeping
<1>6. KeyFree'
  BY <1>1, <1>2 DEF KeyFree, KeyOf
<1> QED
  BY <1>3, <1>4, <1>5, <1>6

LEMMA AuditLookUp ==
  ASSUME BusInv, AuditInv, raced \subseteq raced', RacingRaced', NEW r \in Requests, LookUp(r)
  PROVE  AuditInv'
<1> USE DEF AuditInv
<1>1. /\ ctx[r].phase = "responded" /\ UNCHANGED rows
      /\ ctx'[r].phase = "saving" /\ ctx'[r].key = KeyFor(r)
      /\ ctx'[r].id = ctx[r].id /\ ctx'[r].steps = ctx[r].steps
      /\ \A x \in Requests \ {r} : ctx'[x] = ctx[x]
  BY DEF LookUp, BusInv, TypeOK
<1>2. Keys' = Keys
  BY <1>1 DEF Keys
<1>3. \A row \in rows : row.of # r /\ row.of \in Requests
  BY <1>1 DEF RowsTrue
<1>4. ctx[r].id = None => <<r>> \notin Keys
  <2> SUFFICES ASSUME ctx[r].id = None, NEW row \in rows, row.key = <<r>>
               PROVE  FALSE
    BY DEF Keys
  <2>1. ctx[row.of].id \in RunIds \cup {None}
    BY <1>3 DEF BusInv, TypeOK
  <2> QED
    BY <1>3, <2>1, FreshIdAssumption DEF RowsTrue, KeyOf
<1>5. <<ctx[r].id, r>> \notin Keys
  BY <1>3 DEF RowsTrue, KeyOf, Keys
<1>6. KeyOf(r, KeyFor(r)) /\ KeyFor(r) \notin Keys
  BY <1>4, <1>5 DEF KeyOf, KeyFor, OwnKey
<1>7. RowsTrue' /\ OneRowPerKey' /\ LostRaced'
  BY <1>1, <1>3 DEF RowsTrue, KeyOf, OneRowPerKey, LostRaced
<1>8. DoneKept'
  BY <1>1 DEF DoneKept, WorthKeeping
<1>9. KeyFree'
  BY <1>1, <1>2, <1>6 DEF KeyFree, KeyOf
<1> QED
  BY <1>7, <1>8, <1>9

LEMMA AuditInsert ==
  ASSUME BusInv, AuditInv, raced \subseteq raced', RacingRaced', NEW r \in Requests, Insert(r)
  PROVE  AuditInv'
<1> USE DEF AuditInv
<1> DEFINE new == [key |-> ctx[r].key, of |-> r, steps |-> ctx[r].steps]
<1>1. /\ ctx[r].phase = "saving" /\ ctx[r].key \notin Keys /\ rows' = rows \cup {new}
      /\ ctx'[r].phase = "done" /\ ctx'[r].id = ctx[r].id /\ ctx'[r].steps = ctx[r].steps
      /\ \A x \in Requests \ {r} : ctx'[x] = ctx[x]
  BY DEF Insert, BusInv, TypeOK
<1>11. new.key = ctx[r].key /\ new.of = r /\ new \in rows'
  BY <1>1
<1>2. Keys' = Keys \cup {ctx[r].key}
  <2> HIDE DEF new
  <2>1. \A row : row \in rows' <=> row \in rows \/ row = new
    BY <1>1
  <2> QED
    BY <1>11, <2>1, Zenon DEF Keys
<1>3. KeyOf(r, ctx[r].key)
  BY <1>1 DEF KeyFree
<1>4. \A row \in rows : row.of # r /\ row.of \in Requests /\ row.key # ctx[r].key
  BY <1>1 DEF RowsTrue, Keys
<1>5. RowsTrue'
  BY <1>1, <1>3, <1>4 DEF RowsTrue, KeyOf
<1>6. OneRowPerKey'
  BY <1>1, <1>4 DEF OneRowPerKey
<1>7. DoneKept' /\ LostRaced'
  <2>1. ASSUME NEW x \in Requests, ctx'[x].phase = "done", WorthKeeping(x)'
        PROVE  \E row \in rows' : row.of = x
    <3>1. CASE x = r
      BY <1>11, <3>1
    <3>2. CASE x # r
      BY <1>1, <2>1, <3>2 DEF DoneKept, WorthKeeping
    <3> QED
      BY <3>1, <3>2
  <2>2. LostRaced'
    BY <1>1 DEF LostRaced
  <2> QED
    BY <2>1, <2>2 DEF DoneKept
<1>8. KeyFree'
  <2> SUFFICES ASSUME NEW x \in Requests, ctx'[x].phase = "saving"
               PROVE  KeyOf(x, ctx[x].key)' /\ (x \notin raced' => ctx[x].key \notin Keys')
    BY <1>1 DEF KeyFree, KeyOf
  <2>1. x # r /\ ctx'[x] = ctx[x] /\ ctx[x].phase = "saving"
    BY <1>1
  <2>2. KeyOf(x, ctx[x].key) /\ (x \notin raced => ctx[x].key \notin Keys)
    BY <2>1 DEF KeyFree
  <2>3. KeyOf(x, ctx[x].key)'
    BY <2>1, <2>2 DEF KeyOf
  <2>4. ASSUME x \notin raced' PROVE ctx[x].key # ctx[r].key
    <3>1. ctx[x].id \in RunIds \cup {None} /\ ctx[r].id \in RunIds \cup {None}
      BY DEF BusInv, TypeOK
    <3>2. ~ (ctx[x].id # None /\ ctx[x].id = ctx[r].id)
      BY <1>1, <2>1, <2>4, RacersKnown
    <3> QED
      BY <1>3, <2>1, <2>2, <3>1, <3>2, FreshIdAssumption DEF KeyOf
  <2> QED
    BY <1>2, <2>2, <2>3, <2>4
<1> QED
  BY <1>5, <1>6, <1>7, <1>8

LEMMA AuditGivenUp ==
  ASSUME BusInv, AuditInv, raced \subseteq raced', RacingRaced', NEW r \in Requests,
         InsertConflicts(r) \/ SaveFails(r) \/ Respond(r)
  PROVE  AuditInv'
<1> USE DEF AuditInv
<1>1. /\ UNCHANGED rows
      /\ ctx'[r].id = ctx[r].id /\ ctx'[r].steps = ctx[r].steps
      /\ \A x \in Requests \ {r} : ctx'[x] = ctx[x]
      /\ ctx[r].phase \in {"saving", "running"} /\ ctx'[r].phase # "saving"
      /\ ctx'[r].phase = "done" => ~ WorthKeeping(r)
      /\ ctx'[r].phase = "lost" => ctx[r].phase = "saving" /\ ctx[r].key \in Keys
  BY DEF InsertConflicts, SaveFails, Respond, BusInv, TypeOK
<1>2. Keys' = Keys
  BY <1>1 DEF Keys
<1>3. RowsTrue' /\ OneRowPerKey'
  BY <1>1 DEF RowsTrue, KeyOf, OneRowPerKey
<1>4. DoneKept'
  BY <1>1 DEF DoneKept, WorthKeeping
<1>5. KeyFree' /\ LostRaced'
  BY <1>1, <1>2 DEF KeyFree, KeyOf, LostRaced
<1> QED
  BY <1>3, <1>4, <1>5

LEMMA AuditStep ==
  ASSUME BusInv, AuditInv, MCNext
  PROVE  AuditInv'
<1>1. Next /\ raced \subseteq raced' /\ RacingRaced'
  BY DEF MCNext, RacingRaced
<1>2. ASSUME NEW r \in Requests, NEW i, Open(r, i) PROVE AuditInv'
  BY <1>1, <1>2, AuditQuiet DEF Open, BusInv, TypeOK
<1>3. ASSUME NEW r \in Requests, NEW kind, Emit(r, kind) PROVE AuditInv'
  BY <1>1, <1>3, AuditQuiet DEF Emit, BusInv, TypeOK
<1>4. ASSUME UNCHANGED <<ctx, rows>> PROVE AuditInv'
  BY <1>1, <1>4, AuditQuiet
<1>5. ASSUME NEW i \in Watched, Connect(i) \/ Close(i) PROVE AuditInv'
  BY <1>4, <1>5 DEF Connect, Close
<1>6. ASSUME NEW c \in Conns, Deliver(c) \/ Drop(c) \/ Notice(c) PROVE AuditInv'
  BY <1>4, <1>6 DEF Deliver, Drop, Notice
<1> QED
  BY <1>1, <1>2, <1>3, <1>5, <1>6, AuditLookUp, AuditInsert, AuditGivenUp DEF Next

\* An action that raced no other under its id loses its record to no other's,
\* whichever requests used its id before (observability/store.py, persist_run).
THEOREM AuditAlwaysKept == MCSpec => []AuditKept
<1>1. MCInit => BusInv
  BY BusBegins DEF MCInit
<1>2. BusInv /\ [MCNext]_<<vars, raced>> => BusInv'
  BY BusStep, BusStutter DEF MCNext
<1>3. BusInv /\ AuditInv /\ [MCNext]_<<vars, raced>> => AuditInv'
  <2>1. ASSUME AuditInv, UNCHANGED <<vars, raced>> PROVE AuditInv'
    <3>1. UNCHANGED <<ctx, rows, raced>>
      BY <2>1 DEF vars
    <3>2. Racing' = Racing
      BY <3>1 DEF Racing, OpenUnder, Under
    <3>3. RacingRaced'
      BY <2>1, <3>1, <3>2 DEF AuditInv, RacingRaced
    <3> QED
      BY <2>1, <3>1, <3>3, AuditQuiet
  <2> QED
    BY <2>1, AuditStep
<1>4. AuditInv => AuditKept
  <2> SUFFICES ASSUME AuditInv, NEW r \in Requests \ raced PROVE InAudit(r)
    BY DEF AuditKept
  <2> USE DEF AuditInv
  <2>1. ctx[r].phase # "lost"
    BY DEF LostRaced
  <2>2. ASSUME ctx[r].phase = "done", WorthKeeping(r)
        PROVE  \E row \in rows :
                 /\ row.of = r /\ row.steps = ctx[r].steps
                 /\ row.key[1] = IF ctx[r].id = None THEN r ELSE ctx[r].id
                 /\ \A other \in rows : other.key = row.key => other = row
    <3>1. PICK row \in rows : row.of = r
      BY <2>2 DEF DoneKept
    <3> QED
      BY <3>1 DEF RowsTrue, KeyOf, OneRowPerKey
  <2> QED
    BY <2>1, <2>2 DEF InAudit
<1> QED
  BY <1>1, <1>2, <1>3, <1>4, AuditBegins, PTL DEF MCSpec
=============================================================================
