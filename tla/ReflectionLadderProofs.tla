----------------------- MODULE ReflectionLadderProofs -----------------------
(***************************************************************************)
(* What a reflection keeps, for every plan, every skill graph and every    *)
(* answer of the agent.  The lemmas say of each operator that it keeps the *)
(* copy of the items well numbered; the policy's operators moreover keep   *)
(* what is done and a counterpart of everything else, delay items within   *)
(* the week and in their order, and remediate before they check.           *)
(***************************************************************************)
EXTENDS ReflectionLadder, SequenceTheorems, TLAPS

WellNumbered(items, n) == items \in SUBSET Item /\ Fresh(items) /\ NumberedBelow(items, n)

\* An operator of a name has the parameters of that name.
LEMMA OpParams ==
  ASSUME NEW op \in Op
  PROVE  /\ op.op = "INSERT_REMEDIATION" =>
              op.skill \in Skills /\ op.resources \in Seq(Resources) /\ op.minutes \in Int
         /\ op.op = "DEFER" => op.delay \in Int
         /\ op.op = "ADD_PROBE" => op.skill \in Skills /\ op.minutes \in Int
         /\ op.op = "REPLACE_RESOURCE" => op.resource \in Resources
  BY DEF Op

\* A new item is an item of the plan.
LEMMA NewItemType ==
  ASSUME NEW n \in Nat, NEW type \in Types, NEW s \in Skills, NEW a \in Resources \cup {None},
         NEW m \in Int, NEW d \in Int
  PROVE  NewItem(n, type, s, a, m, d) \in Item /\ NewItem(n, type, s, a, m, d).n = n
  BY DEF NewItem, Item

\* _insert_remediation numbers its items on from the next number.
LEMMA RemediationsFit ==
  ASSUME NEW items, NEW n \in Nat, WellNumbered(items, n), NEW slot \in Int,
         NEW op \in Op, op.op = "INSERT_REMEDIATION"
  PROVE  WellNumbered(items \cup Remediations(slot, n, op), n + 2)
<1> DEFINE few == 1..Lowest(Len(Listed(op)), 2)
           new(k) == NewItem(n + k - 1, "review", op.skill, Listed(op)[k], op.minutes, slot)
<1>1. op.skill \in Skills /\ op.resources \in Seq(Resources) /\ op.minutes \in Int
  BY OpParams
<1>2. Listed(op) \in Seq(Resources \cup {None})
  <2>1. op.resources \in Seq(Resources \cup {None})
    BY <1>1
  <2>2. <<None>> \in Seq(Resources \cup {None})
    OBVIOUS
  <2> QED  BY <2>1, <2>2, Zenon DEF Listed
<1>3. \A k \in few : k \in 1..2 /\ Listed(op)[k] \in Resources \cup {None}
  BY <1>2 DEF Lowest
<1>4. \A k \in few : new(k) \in Item /\ new(k).n = n + k - 1
  BY <1>1, <1>3 DEF NewItem, Item, Types
<1>5. Remediations(slot, n, op) = {new(k) : k \in few}
  BY DEF Remediations
<1> HIDE DEF new, few
<1>6. \A i \in Remediations(slot, n, op) : i \in Item /\ n <= i.n /\ i.n < n + 2
  BY <1>3, <1>4, <1>5
<1>7. \A i, j \in Remediations(slot, n, op) : i.n = j.n => i = j
  BY <1>3, <1>4, <1>5
<1>8. \A i \in items : i \in Item /\ i.n \in Nat /\ i.n < n
  BY DEF WellNumbered, NumberedBelow, Item
<1> QED  BY <1>6, <1>7, <1>8 DEF WellNumbered, NumberedBelow, Fresh

\* _defer changes nothing but the slot, and nothing of a finished item.
LEMMA DeferredItem ==
  ASSUME NEW i \in Item, NEW op \in Op, op.op = "DEFER"
  PROVE  /\ Deferred(i, op) \in Item /\ Deferred(i, op).n = i.n
         /\ Same(i, Deferred(i, op))
         /\ i.done => Deferred(i, op) = i
<1>1. op.delay \in Int /\ MaxSlot \in Int
  BY OpParams, BoundsAssumption
<1>2. Lowest(i.slot + op.delay, MaxSlot) \in Int
  BY <1>1 DEF Lowest, Item
<1> QED  BY <1>2 DEF Deferred, Item, Same

LEMMA DeferredFit ==
  ASSUME NEW items, NEW n \in Nat, WellNumbered(items, n), NEW op \in Op, op.op = "DEFER"
  PROVE  WellNumbered({Deferred(i, op) : i \in items}, n)
<1>1. \A i \in items : i \in Item
  BY DEF WellNumbered
<1>2. \A i \in items : Deferred(i, op) \in Item /\ Deferred(i, op).n = i.n
  BY <1>1, DeferredItem
<1> QED  BY <1>2 DEF WellNumbered, Fresh, NumberedBelow

\* _add_probe numbers its item with the next number.
LEMMA ProbeFits ==
  ASSUME NEW items, NEW n \in Nat, WellNumbered(items, n), NEW slot \in Int,
         NEW op \in Op, op.op = "ADD_PROBE"
  PROVE  WellNumbered(items \cup {NewItem(n, "probe", op.skill, None, op.minutes, slot)}, n + 1)
<1>1. "probe" \in Types /\ op.skill \in Skills /\ op.minutes \in Int
  BY OpParams DEF Types
<1>2. /\ NewItem(n, "probe", op.skill, None, op.minutes, slot) \in Item
      /\ NewItem(n, "probe", op.skill, None, op.minutes, slot).n = n
  BY <1>1, NewItemType
<1>3. \A i \in items : i \in Item /\ i.n \in Nat /\ i.n < n
  BY DEF WellNumbered, NumberedBelow, Item
<1> QED  BY <1>2, <1>3 DEF WellNumbered, Fresh, NumberedBelow

\* _remove_duplicate and _replace_resource.
LEMMA OthersFit ==
  ASSUME NEW items, NEW n \in Nat, WellNumbered(items, n), NEW m
  PROVE  WellNumbered(Others(items, m), n)
  BY DEF WellNumbered, Fresh, NumberedBelow, Others

LEMMA ReplacedFit ==
  ASSUME NEW items, NEW n \in Nat, WellNumbered(items, n), NEW op, op.resource \in Resources
  PROVE  WellNumbered({IF i.n = op.item THEN [i EXCEPT !.resource = op.resource] ELSE i :
                         i \in items}, n)
<1> DEFINE replaced(i) == IF i.n = op.item THEN [i EXCEPT !.resource = op.resource] ELSE i
<1>1. \A i \in items : i \in Item /\ i.n < n /\ (\A j \in items : i.n = j.n => i = j)
  BY DEF WellNumbered, Fresh, NumberedBelow
<1>2. \A i \in items : replaced(i) \in Item /\ replaced(i).n = i.n
  BY <1>1 DEF Item
<1> HIDE DEF replaced
<1>3. WellNumbered({replaced(i) : i \in items}, n)
  BY <1>1, <1>2 DEF WellNumbered, Fresh, NumberedBelow
<1> QED  BY <1>3 DEF replaced

\* _split_activity numbers its parts with the next two numbers.
LEMMA HalvesOf ==
  ASSUME NEW i \in Item, NEW n \in Nat
  PROVE  /\ \A h \in Halves(i, n) : h \in Item /\ n <= h.n /\ h.n < n + 2 /\ Same(i, h)
         /\ \A h, k \in Halves(i, n) : h.n = k.n => h = k
         /\ Halves(i, n) # {}
<1> DEFINE half == IF i.minutes \div 2 >= 1 THEN i.minutes \div 2 ELSE 1
           part(m, slot) == [i EXCEPT !.n = m, !.minutes = half, !.slot = slot]
<1>1. half \in Int /\ MaxSlot \in Int
  BY BoundsAssumption DEF Item
<1> HIDE DEF half
<1>2. \A m \in Nat, slot \in Int :
        part(m, slot) \in Item /\ part(m, slot).n = m /\ Same(i, part(m, slot))
  BY <1>1 DEF Item, Same
<1>3. Lowest(i.slot, MaxSlot) \in Int /\ Lowest(i.slot + 1, MaxSlot) \in Int
  BY <1>1 DEF Item, Lowest
<1>4. Halves(i, n) = {part(n, Lowest(i.slot, MaxSlot)), part(n + 1, Lowest(i.slot + 1, MaxSlot))}
  BY DEF Halves, half
<1> HIDE DEF part
<1> QED  BY <1>2, <1>3, <1>4

LEMMA SplitFits ==
  ASSUME NEW items, NEW n \in Nat, WellNumbered(items, n), NEW m
  PROVE  /\ WellNumbered(Others(items, m) \cup UNION {Halves(i, n) : i \in Named(items, m)}, n + 2)
         /\ Kept(items, Others(items, m) \cup UNION {Halves(i, n) : i \in Named(items, m)})
<1> DEFINE parts == UNION {Halves(i, n) : i \in Named(items, m)}
<1>1. \A i \in items : i \in Item /\ i.n \in Nat /\ i.n < n /\ (\A j \in items : i.n = j.n => i = j)
  BY DEF WellNumbered, Fresh, NumberedBelow, Item
<1>2. \A h \in parts : h \in Item /\ n <= h.n /\ h.n < n + 2
  BY <1>1, HalvesOf DEF Named
<1>3. \A h, k \in parts : h.n = k.n => h = k
  <2> SUFFICES ASSUME NEW i \in Named(items, m), NEW h \in Halves(i, n),
                      NEW j \in Named(items, m), NEW k \in Halves(j, n), h.n = k.n
               PROVE  h = k
    OBVIOUS
  <2>1. i = j /\ i \in Item
    BY <1>1 DEF Named
  <2> QED  BY <2>1, HalvesOf
<1>4. \A i \in Named(items, m) : \E h \in parts : Same(i, h)
  BY <1>1, HalvesOf DEF Named
<1> HIDE DEF parts
<1>5. WellNumbered(Others(items, m) \cup parts, n + 2)
  BY <1>1, <1>2, <1>3 DEF WellNumbered, Fresh, NumberedBelow, Others
<1>6. Kept(items, Others(items, m) \cup parts)
  BY <1>4 DEF Kept, Same, Others, Named
<1> QED  BY <1>5, <1>6 DEF parts

-----------------------------------------------------------------------------
\* The drafts.
LEMMA PolicyOp ==
  ASSUME NEW items, NEW s \in Skills, NEW m \in Int
  PROVE  /\ \A rs \in Seq(Resources) : Insert(s, rs, m) \in PolicyOps(items)
         /\ m \in Nat => Defer(s, {}, m) \in PolicyOps(items)
         /\ Probe(s, m) \in PolicyOps(items)
         /\ \A n \in Nat : (\A i \in items : i.n = n => ~i.done) => Split(n) \in PolicyOps(items)
<1>1. /\ \A rs \in Seq(Resources) : Insert(s, rs, m) \in Op
      /\ Defer(s, {}, m) \in Op
      /\ Probe(s, m) \in Op
      /\ \A n \in Nat : Split(n) \in Op
  BY DEF Insert, Defer, Probe, Split, Op
<1> QED  BY <1>1 DEF PolicyOps, Insert, Defer, Probe, Split

\* Every draft of the policy has only the operators of the policy.
LEMMA PolicyDrafts ==
  ASSUME NEW items, NEW n, WellNumbered(items, n), NEW g, NEW t \in Triggers(g)
  PROVE  DeterministicDrafts(items, t) \cup MinimalDrafts(t) \subseteq Seq(PolicyOps(items))
<1> DEFINE P == PolicyOps(items)
<1>1. /\ t.skill \in Skills /\ t.root \in Skills /\ t.remedies \in SUBSET Resources
      /\ t.class \in Classes /\ ProbeMinutes(t) \in Int
  BY BoundsAssumption DEF Triggers, ProbeMinutes
<1>2. \A rs \in OneOf(t.remedies) : rs \in Seq(Resources)
  <2>1. <<>> \in Seq(Resources) /\ \A a \in Resources : <<a>> \in Seq(Resources)
    OBVIOUS
  <2> QED  BY <2>1, <1>1, Zenon DEF OneOf
<1>3. /\ \A rs \in OneOf(t.remedies) : Insert(t.root, rs, 20) \in P
      /\ Probe(t.root, ProbeMinutes(t)) \in P
      /\ Defer(t.skill, {}, 1) \in P /\ Defer(t.skill, {}, 2) \in P /\ Defer(t.skill, {}, 3) \in P
  <2>1. /\ 20 \in Int /\ 1 \in Int /\ 2 \in Int /\ 3 \in Int
        /\ 1 \in Nat /\ 2 \in Nat /\ 3 \in Nat
    OBVIOUS
  <2>2. \A rs \in OneOf(t.remedies) : Insert(t.root, rs, 20) \in P
    BY <1>1, <1>2, <2>1, PolicyOp, Zenon
  <2>3. Probe(t.root, ProbeMinutes(t)) \in P
    BY <1>1, PolicyOp, Zenon
  <2>4. Defer(t.skill, {}, 1) \in P /\ Defer(t.skill, {}, 2) \in P /\ Defer(t.skill, {}, 3) \in P
    BY <1>1, <2>1, PolicyOp, Zenon
  <2> QED  BY <2>2, <2>3, <2>4
<1>4. \A m \in SplitItems(items, t.skill) : Split(m) \in P
  <2> TAKE m \in SplitItems(items, t.skill)
  <2>1. m \in Nat /\ \A i \in items : i.n = m => ~i.done
    BY DEF SplitItems, WellNumbered, Fresh, Item
  <2> QED  BY <2>1, <1>1, PolicyOp
<1> HIDE DEF P
<1>5. \A a \in P : <<a>> \in Seq(P)
  OBVIOUS
<1>6. <<>> \in Seq(P) /\ \A a, b \in P : <<a, b>> \in Seq(P)
  OBVIOUS
<1>7. \A a, b \in Seq(P) : a \o b \in Seq(P)
  OBVIOUS
<1>8. MinimalDrafts(t) \subseteq Seq(P)
  BY <1>3, <1>6 DEF MinimalDrafts
<1>9. DeterministicDrafts(items, t) \subseteq Seq(P)
  <2>1. CASE t.class \in {"repeated_misconception", "missing_prerequisite"}
    <3> DEFINE delayed == IF t.root # t.skill THEN <<Defer(t.skill, {}, 2)>> ELSE <<>>
    <3>1. delayed \in Seq(P)
      BY <1>3, <1>5, <1>6
    <3>2. \A rs \in OneOf(t.remedies) :
            <<Insert(t.root, rs, 20), Probe(t.root, ProbeMinutes(t))>> \in Seq(P)
      BY <1>3, <1>6
    <3>3. DeterministicDrafts(items, t) =
            {delayed \o <<Insert(t.root, rs, 20), Probe(t.root, ProbeMinutes(t))>> : rs \in OneOf(t.remedies)}
      BY <2>1 DEF DeterministicDrafts
    <3> HIDE DEF delayed
    <3> QED  BY <3>1, <3>2, <3>3, <1>7
  <2>2. CASE t.class = "excessive_difficulty"
    <3> DEFINE check == IF t.probes > 0 THEN <<Probe(t.root, ProbeMinutes(t))>> ELSE <<>>
               splits == OrNothing({<<Split(m)>> : m \in SplitItems(items, t.skill)})
    <3>1. check \in Seq(P) /\ <<Defer(t.skill, {}, 1)>> \in Seq(P)
      BY <1>3, <1>5, <1>6
    <3>2. splits \subseteq Seq(P)
      BY <1>4, <1>5, <1>6 DEF OrNothing
    <3>3. DeterministicDrafts(items, t) =
            {split \o <<Defer(t.skill, {}, 1)>> \o check : split \in splits}
      BY <2>2 DEF DeterministicDrafts
    <3> HIDE DEF check, splits
    <3> QED  BY <3>1, <3>2, <3>3, <1>7
  <2>3. CASE t.class = "cognitive_overload"
    BY <2>3, <1>3, <1>5 DEF DeterministicDrafts
  <2> QED  BY <2>1, <2>2, <2>3, <1>1 DEF Classes
<1> QED  BY <1>8, <1>9 DEF P

\* The parser lets only operators through.
LEMMA AgentDraftsType ==
  ASSUME NEW items \in SUBSET Item, NEW g, NEW t \in Triggers(g)
  PROVE  AgentDrafts(items, t) \subseteq Seq(Op)
<1>1. t.skill \in Skills /\ t.root \in Skills /\ t.remedies \in SUBSET Resources /\ ProbeMinutes(t) \in Int
  BY BoundsAssumption DEF Triggers, ProbeMinutes
<1>2. {i.n : i \in items} \subseteq Nat
  BY DEF Item
<1>3. \A k \in 0..2 : [1..k -> t.remedies] \subseteq Seq(Resources)
  BY <1>1
<1>4. AgentOps(items, t) \subseteq Op
  BY <1>1, <1>2, <1>3, BoundsAssumption DEF AgentOps, Insert, Defer, Probe, Split, Op
<1>5. \A k \in 0..MaxOps : [1..k -> AgentOps(items, t)] \subseteq Seq(Op)
  BY <1>4, BoundsAssumption
<1> QED  BY <1>5 DEF AgentDrafts

-----------------------------------------------------------------------------
\* The invariant.
LEMMA InitInv == Init => Inv
<1> SUFFICES ASSUME Init PROVE Inv
  OBVIOUS
<1>1. plan # None =>
        plan \in SUBSET Item /\ Fresh(plan) /\ NumberedBelow(plan, FirstFree)
  BY PlansAssumption DEF Init, Fresh, NumberedBelow
<1>2. TypeOK
  <2>1. plan \in (SUBSET Item) \cup {None} /\ work \in SUBSET Item
    BY <1>1, Zenon DEF Init
  <2>2. 0 \in 0..MaxRounds /\ 0 \in 0..MaxReflections
    BY BoundsAssumption
  <2> QED  BY <2>1, <2>2, BoundsAssumption DEF Init, TypeOK
<1>3. Numbered
  BY <1>1 DEF Init, Numbered, Items, Fresh, NumberedBelow
<1>4. FinishedSpared
  BY DEF Init, FinishedSpared, ByPolicy
<1> QED  BY <1>2, <1>3, <1>4 DEF Inv

LEMMA ItemsNumbered ==
  ASSUME Inv
  PROVE  /\ WellNumbered(Items, used) /\ Items \in SUBSET Item
         /\ WellNumbered(work, next)
<1>1. Items \in SUBSET Item
  BY Zenon DEF Inv, TypeOK, Items
<1> QED  BY <1>1 DEF Inv, TypeOK, Numbered, WellNumbered

\* A reflection ends with the plan as it was.
LEMMA EndedInv ==
  ASSUME Inv, NEW how \in {"applied", "aborted"} \cup Complaints,
         Ended(how), UNCHANGED <<plan, used, reflections>>
  PROVE  Inv'
<1>1. TypeOK'
  BY BoundsAssumption DEF Inv, TypeOK, Ended, NoDraft
<1>2. Numbered'
  BY DEF Inv, Numbered, Ended, NoDraft, Items, Fresh, NumberedBelow
<1>3. FinishedSpared'
  BY DEF FinishedSpared, ByPolicy, Ended
<1> QED  BY <1>1, <1>2, <1>3 DEF Inv

\* Another draft is asked for.
LEMMA ToRungInv ==
  ASSUME Inv, rung # "idle", NEW next_rung \in {"agent", "deterministic", "minimal"},
         next_rung = "agent" => round < MaxRounds, ToRung(next_rung)
  PROVE  Inv'
<1>1. TypeOK'
  BY BoundsAssumption DEF Inv, TypeOK, ToRung, RoundAfter, NoDraft, read
<1>2. Numbered'
  BY DEF Inv, Numbered, ToRung, NoDraft, read, Items, Fresh, NumberedBelow
<1>3. FinishedSpared'
  BY DEF FinishedSpared, ByPolicy, ToRung, NoDraft
<1> QED  BY <1>1, <1>2, <1>3 DEF Inv

LEMMA RejectedInv ==
  ASSUME Inv, rung # "idle", NEW why \in Complaints, Rejected(why)
  PROVE  Inv'
<1>1. CASE NextRung = "idle"
  <2>1. Ended(why) /\ UNCHANGED <<plan, used, reflections>>
    BY <1>1 DEF Rejected
  <2> QED  BY <2>1, EndedInv
<1>2. CASE NextRung # "idle"
  <2>1. NextRung \in {"agent", "deterministic", "minimal"} /\ (NextRung = "agent" => round < MaxRounds)
    BY <1>2 DEF NextRung
  <2>2. ToRung(NextRung)
    BY <1>2 DEF Rejected
  <2> QED  BY <2>1, <2>2, ToRungInv
<1> QED  BY <1>1, <1>2

\* A draft is taken up.
LEMMA DraftedInv ==
  ASSUME Inv, rung # "idle", NEW ops \in Seq(Op),
         rung # "agent" => ops \in Seq(PolicyOps(Items)), Drafted(ops)
  PROVE  Inv'
<1>1. TypeOK'
  BY ItemsNumbered, BoundsAssumption DEF Inv, TypeOK, Drafted, read
<1>2. Items' = Items
  BY DEF Drafted, read, Items
<1>3. Numbered'
  BY <1>2 DEF Inv, Numbered, TypeOK, Drafted, read, Fresh, NumberedBelow
<1>4. FinishedSpared'
  <2>1. Kept(Items, Items)
    BY DEF Kept, Same
  <2> QED  BY <1>2, <2>1 DEF FinishedSpared, ByPolicy, Drafted, PolicyOps, Kept
<1> QED  BY <1>1, <1>3, <1>4 DEF Inv

\* An operator is applied: the items it leaves are well numbered and, if the
\* policy drafted it, what is done is kept and everything has its counterpart.
LEMMA AppliedInv ==
  ASSUME Inv, todo \notin {None, <<>>}, NEW items, NEW k \in Nat, Applied(items, k),
         WellNumbered(items, next + k),
         rung \in {"deterministic", "minimal"} =>
           (\A i \in Items : i.done => i \in items) /\ Kept(Items, items)
  PROVE  Inv'
<1>1. rung # "idle" /\ todo \in Seq(Op)
  BY DEF Inv, TypeOK
<1>2. Items' = Items
  BY DEF Applied, read, Items
<1>3. TypeOK'
  BY <1>1 DEF Inv, TypeOK, Applied, read, WellNumbered
<1>4. Numbered'
  BY <1>2 DEF Inv, Numbered, TypeOK, Applied, read, WellNumbered, Fresh, NumberedBelow
<1>5. FinishedSpared'
  <2>1. CASE rung \in {"deterministic", "minimal"}
    <3>1. todo \in Seq(PolicyOps(Items)) /\ Tail(todo) \in Seq(PolicyOps(Items))
      BY <2>1, <1>1 DEF Inv, FinishedSpared, ByPolicy
    <3> QED  BY <2>1, <3>1, <1>2 DEF FinishedSpared, ByPolicy, Applied, read, Kept, PolicyOps
  <2>2. CASE rung \notin {"deterministic", "minimal"}
    BY <2>2 DEF FinishedSpared, ByPolicy, Applied
  <2> QED  BY <2>1, <2>2
<1> QED  BY <1>3, <1>4, <1>5 DEF Inv

\* One step for each action.
LEMMA StepInv == Inv /\ [Next]_vars => Inv'
<1> SUFFICES ASSUME Inv, [Next]_vars PROVE Inv'
  OBVIOUS
<1> USE ItemsNumbered
<1>1. CASE Begin
  <2>1. PICK g \in GapReports : gaps' = g /\ \E t \in Triggers(g) : trigger' = t
    BY <1>1 DEF Begin
  <2>2. gaps' # None /\ gaps' \in GapReports /\ trigger' \in Triggers(gaps')
    BY <2>1, NoneAssumption
  <2>3. TypeOK'
    BY <1>1, <2>2, BoundsAssumption DEF Inv, TypeOK, Begin
  <2>4. Numbered' /\ FinishedSpared'
    BY <1>1 DEF Inv, Numbered, FinishedSpared, ByPolicy, Begin, Items, Fresh, NumberedBelow
  <2> QED  BY <2>3, <2>4 DEF Inv
<1>2. CASE AgentDegrades
  BY <1>2, ToRungInv DEF AgentDegrades
<1>3. CASE AgentUnparsable
  <2>1. CASE attempt < MaxRounds
    <3>1. TypeOK'
      BY <1>3, <2>1, BoundsAssumption DEF Inv, TypeOK, AgentUnparsable, read
    <3>2. Numbered' /\ FinishedSpared'
      BY <1>3, <2>1 DEF Inv, Numbered, FinishedSpared, ByPolicy, AgentUnparsable, read, Items, Fresh, NumberedBelow
    <3> QED  BY <3>1, <3>2 DEF Inv
  <2>2. CASE ~(attempt < MaxRounds)
    BY <1>3, <2>2, ToRungInv DEF AgentUnparsable
  <2> QED  BY <2>1, <2>2
<1>4. CASE AgentAnswers
  <2>1. PICK root \in {trigger.skill, trigger.root}, agrees \in BOOLEAN, ops \in AgentDrafts(Items, trigger) :
          IF agrees /\ Connected(trigger, root) THEN Drafted(ops) ELSE Rejected("draft")
    BY <1>4 DEF AgentAnswers
  <2>2. rung = "agent" /\ trigger \in Triggers(gaps)
    BY <1>4 DEF AgentAnswers, Inv, TypeOK
  <2>3. ops \in Seq(Op)
    BY <2>2, AgentDraftsType
  <2>4. Drafted(ops) \/ Rejected("draft")
    BY <2>1
  <2> QED  BY <2>2, <2>3, <2>4, DraftedInv, RejectedInv DEF Complaints
<1>5. CASE PolicyAnswers
  <2>1. rung # "idle" /\ trigger \in Triggers(gaps)
    BY <1>5 DEF PolicyAnswers, Drafting, Inv, TypeOK
  <2>2. PICK ops \in DeterministicDrafts(Items, trigger) \cup MinimalDrafts(trigger) :
          Drafted(ops) \/ Rejected("draft")
    BY <1>5 DEF PolicyAnswers, Drafting, Inv, TypeOK
  <2>3. ops \in Seq(PolicyOps(Items))
    BY <2>1, PolicyDrafts
  <2>4. ops \in Seq(Op)
    BY <2>3 DEF PolicyOps
  <2> QED  BY <2>1, <2>2, <2>3, <2>4, DraftedInv, RejectedInv DEF Complaints
<1> DEFINE op == Head(todo)
<1>6. ASSUME todo \notin {None, <<>>}
      PROVE  /\ op \in Op /\ next \in Nat
             /\ rung \in {"deterministic", "minimal"} =>
                  /\ op \in PolicyOps(Items)
                  /\ \A i \in Items : i.done => i \in work
                  /\ Kept(Items, work)
  <2>1. rung # "idle" /\ todo \in Seq(Op)
    BY <1>6 DEF Inv, TypeOK
  <2>2. op \in Op /\ next \in Nat
    BY <1>6, <2>1 DEF Inv, TypeOK
  <2>3. ASSUME rung \in {"deterministic", "minimal"} PROVE op \in PolicyOps(Items)
    BY <1>6, <2>3 DEF Inv, FinishedSpared, ByPolicy
  <2> QED  BY <1>6, <2>2, <2>3 DEF Inv, FinishedSpared, ByPolicy
<1> HIDE DEF op
<1>7. CASE InsertRemediation
  <2>1. op.op = "INSERT_REMEDIATION" /\ todo \notin {None, <<>>}
    BY <1>7 DEF InsertRemediation, Applying, op
  <2>2. PICK slot \in EarliestSlot(work, op.skill) : Applied(work \cup Remediations(slot, next, op), 2)
    BY <1>7 DEF InsertRemediation, op
  <2>3. slot \in Int
    BY DEF EarliestSlot, SlotsOfSkill, WellNumbered, Item
  <2>4. WellNumbered(work \cup Remediations(slot, next, op), next + 2)
    BY <1>6, <2>1, <2>3, RemediationsFit
  <2>5. Kept(Items, work) => Kept(Items, work \cup Remediations(slot, next, op))
    BY DEF Kept
  <2> QED  BY <1>6, <2>1, <2>2, <2>4, <2>5, AppliedInv
<1>8. CASE DeferItems
  <2> DEFINE deferred == {Deferred(i, op) : i \in work}
  <2>1. op.op = "DEFER" /\ todo \notin {None, <<>>} /\ Applied(deferred, 0)
    BY <1>8 DEF DeferItems, Applying, op
  <2>2. WellNumbered(deferred, next)
    BY <1>6, <2>1, DeferredFit
  <2>3. \A i \in work : Same(i, Deferred(i, op)) /\ (i.done => Deferred(i, op) = i)
    BY <1>6, <2>1, DeferredItem DEF WellNumbered
  <2>4. Kept(Items, work) => Kept(Items, deferred)
    <3> SUFFICES ASSUME Kept(Items, work), NEW i \in Items PROVE \E j \in deferred : Same(i, j)
      BY DEF Kept
    <3>1. PICK j \in work : Same(i, j)
      BY DEF Kept
    <3>2. Same(i, Deferred(j, op)) /\ Deferred(j, op) \in deferred
      BY <2>3, <3>1 DEF Same
    <3> QED  BY <3>2
  <2>5. \A i \in Items : i.done /\ i \in work => i \in deferred
    BY <2>3
  <2> HIDE DEF deferred
  <2>6. next + 0 = next
    BY <1>6, <2>1
  <2> QED  BY <1>6, <2>1, <2>2, <2>4, <2>5, <2>6, AppliedInv
<1>9. CASE RemoveDuplicate
  <2>1. op.op = "REMOVE_DUPLICATE" /\ todo \notin {None, <<>>} /\ Applied(Others(work, op.item), 0)
    BY <1>9 DEF RemoveDuplicate, Applying, op
  <2>2. WellNumbered(Others(work, op.item), next + 0)
    BY <1>6, <2>1, OthersFit
  <2>3. rung \notin {"deterministic", "minimal"}
    BY <1>6, <2>1 DEF PolicyOps
  <2> QED  BY <2>1, <2>2, <2>3, AppliedInv
<1>10. CASE ReplaceResource
  <2> DEFINE replaced == {IF i.n = op.item THEN [i EXCEPT !.resource = op.resource] ELSE i : i \in work}
  <2>1. op.op = "REPLACE_RESOURCE" /\ todo \notin {None, <<>>} /\ Applied(replaced, 0)
    BY <1>10 DEF ReplaceResource, Applying, op
  <2>2. op.resource \in Resources
    BY <1>6, <2>1, OpParams
  <2>3. WellNumbered(replaced, next)
    BY <1>6, <2>1, <2>2, ReplacedFit
  <2>4. rung \notin {"deterministic", "minimal"} /\ next + 0 = next
    BY <1>6, <2>1 DEF PolicyOps
  <2> HIDE DEF replaced
  <2> QED  BY <2>1, <2>3, <2>4, AppliedInv
<1>11. CASE AddProbe
  <2>1. op.op = "ADD_PROBE" /\ todo \notin {None, <<>>}
    BY <1>11 DEF AddProbe, Applying, op
  <2>2. PICK slot \in CheckSlot(work) :
          Applied(work \cup {NewItem(next, "probe", op.skill, None, op.minutes, slot)}, 1)
    BY <1>11 DEF AddProbe, op
  <2>3. slot \in Int
    BY BoundsAssumption DEF CheckSlot, Lowest, WellNumbered, Item
  <2>4. WellNumbered(work \cup {NewItem(next, "probe", op.skill, None, op.minutes, slot)}, next + 1)
    BY <1>6, <2>1, <2>3, ProbeFits
  <2>5. Kept(Items, work) =>
          Kept(Items, work \cup {NewItem(next, "probe", op.skill, None, op.minutes, slot)})
    BY DEF Kept
  <2> QED  BY <1>6, <2>1, <2>2, <2>4, <2>5, AppliedInv
<1>12. CASE SplitActivity
  <2> DEFINE split == Others(work, op.item) \cup UNION {Halves(i, next) : i \in Named(work, op.item)}
  <2>1. op.op = "SPLIT_ACTIVITY" /\ todo \notin {None, <<>>} /\ Applied(split, 2)
    BY <1>12 DEF SplitActivity, Applying, op
  <2>2. WellNumbered(split, next + 2) /\ Kept(work, split)
    BY <1>6, <2>1, SplitFits
  <2>3. Kept(Items, work) => Kept(Items, split)
    BY <2>2 DEF Kept, Same
  <2>4. rung \in {"deterministic", "minimal"} => \A i \in Items : i.done => i \in split
    BY <1>6, <2>1 DEF PolicyOps, Others
  <2> HIDE DEF split
  <2> QED  BY <1>6, <2>1, <2>2, <2>3, <2>4, AppliedInv
<1>13. CASE OperatorFails
  BY <1>13, RejectedInv DEF OperatorFails, Complaints, Inv, TypeOK
<1>14. CASE Approve
  <2>1. WellNumbered(Items', used') /\ plan' \in (SUBSET Item) \cup {None} /\ used' \in Nat
    BY <1>14, Zenon DEF Approve, Items, WellNumbered, Inv, TypeOK, Fresh, NumberedBelow
  <2>2. TypeOK'
    BY <1>14, <2>1, BoundsAssumption DEF Inv, TypeOK, Approve, Ended, NoDraft
  <2>3. Numbered'
    BY <1>14, <2>1 DEF Numbered, WellNumbered, Approve, Ended, NoDraft, Fresh, NumberedBelow
  <2>4. FinishedSpared'
    BY <1>14 DEF FinishedSpared, ByPolicy, Approve, Ended
  <2> QED  BY <2>2, <2>3, <2>4 DEF Inv
<1>15. CASE RejectPlan
  BY <1>15, RejectedInv, NoneAssumption DEF RejectPlan, Complaints, Inv, TypeOK
<1>16. CASE Abort
  BY <1>16, EndedInv DEF Abort
<1>17. CASE Mark
  <2>1. PICK i \in plan : plan' = (plan \ {i}) \cup {[i EXCEPT !.done = ~i.done]}
    BY <1>17 DEF Mark
  <2>2. plan # None /\ plan \in SUBSET Item /\ Fresh(plan) /\ NumberedBelow(plan, used)
    BY <1>17 DEF Mark, Inv, TypeOK, Numbered, Items
  <2>3. plan' \in SUBSET Item /\ Fresh(plan') /\ NumberedBelow(plan', used)
    <3> DEFINE marked == [i EXCEPT !.done = ~i.done]
    <3>1. marked \in Item /\ marked.n = i.n
      BY <2>2 DEF Item
    <3>2. plan' = (plan \ {i}) \cup {marked}
      BY <2>1
    <3> HIDE DEF marked
    <3>3. \A j \in plan' : j = marked \/ (j \in plan /\ j # i)
      BY <3>2
    <3>4. \A j \in plan : j \in Item /\ j.n < used /\ (j.n = i.n => j = i)
      BY <2>2, <2>1 DEF Fresh, NumberedBelow
    <3>5. plan' \in SUBSET Item /\ NumberedBelow(plan', used)
      BY <3>1, <3>2, <3>3, <3>4 DEF NumberedBelow
    <3>6. Fresh(plan')
      BY <3>1, <3>3, <3>4, <2>2 DEF Fresh
    <3> QED  BY <3>5, <3>6
  <2>4. TypeOK'
    BY <1>17, <2>3 DEF Inv, TypeOK, Mark
  <2>5. Numbered' /\ FinishedSpared'
    BY <1>17, <2>3 DEF Inv, Numbered, FinishedSpared, ByPolicy, TypeOK, Mark, Items, Fresh, NumberedBelow
  <2> QED  BY <2>4, <2>5 DEF Inv
<1>18. CASE UNCHANGED vars
  BY <1>18 DEF vars, Inv, TypeOK, Numbered, FinishedSpared, ByPolicy, Items, Fresh, NumberedBelow, Kept, PolicyOps
<1> QED
  BY <1>1, <1>2, <1>3, <1>4, <1>5, <1>7, <1>8, <1>9, <1>10, <1>11, <1>12, <1>13, <1>14, <1>15,
     <1>16, <1>17, <1>18 DEF Next, Climb

\* Types, numbers and the care of the policy, for every answer of the agent.
THEOREM InvHolds == Spec => []Inv
<1> QED  BY InitInv, StepInv, PTL DEF Spec

-----------------------------------------------------------------------------
\* Only the approval of a draft changes a plan by a reflection.
LEMMA OnlyApprove ==
  ASSUME [Next]_vars, Approving PROVE Approve
  BY DEF Approving, Next, Climb, vars, Begin, AgentDegrades, AgentUnparsable, AgentAnswers,
         PolicyAnswers, InsertRemediation, DeferItems, RemoveDuplicate, ReplaceResource, AddProbe,
         SplitActivity, OperatorFails, RejectPlan, Abort, Mark, Rejected, Drafted, ToRung, Ended,
         Applied

\* The plan a reflection leaves was validated as a whole against the gap
\* analysis of its submission, whichever rung drafted it.
THEOREM ValidatedBeforeApplied == Spec => AppliedObeysRules
<1>1. [Next]_vars => [Approving => HardRules(plan', gaps)]_vars
  BY OnlyApprove DEF Approving, Approve, Admissible
<1> QED  BY <1>1, PTL DEF Spec, AppliedObeysRules

\* An approved draft of the policy was applied to the items of the plan.
LEMMA PolicyApproval ==
  ASSUME Inv, [Next]_vars, Approving, ByPolicy
  PROVE  plan' = work /\ (\A i \in plan : i.done => i \in work) /\ Kept(plan, work)
<1>1. Approve /\ plan # None
  BY OnlyApprove DEF Approving
<1>2. todo # None
  BY <1>1, NoneAssumption DEF Approve
<1>3. Items = plan
  BY <1>1 DEF Items
<1> QED  BY <1>1, <1>2, <1>3 DEF Approve, Inv, FinishedSpared, ByPolicy

\* The policy leaves finished items exactly as they were, and no item disappears
\* without a counterpart, on every plan.
THEOREM NoWorkIsLost == Spec => PolicyLosesNoWork
<1>1. Inv /\ [Next]_vars =>
        [Approving /\ ByPolicy => /\ \A i \in plan : i.done => i \in plan'
                                 /\ Kept(plan, plan')]_vars
  BY PolicyApproval
<1> QED  BY <1>1, InvHolds, PTL DEF Spec, PolicyLosesNoWork

-----------------------------------------------------------------------------
\* Days and order.  A deferral by the policy is to a later day of the week, and
\* of a whole skill.
LEMMA DeferredSlot ==
  ASSUME NEW i \in Item, NEW op \in Op, op.op = "DEFER", op.items = {}, op.delay \in Nat
  PROVE  /\ Deferred(i, op).skill = i.skill /\ Deferred(i, op).done = i.done
         /\ i.slot <= MaxSlot => i.slot <= Deferred(i, op).slot /\ Deferred(i, op).slot <= MaxSlot
         /\ i.skill # op.skill => Deferred(i, op) = i
<1>1. MaxSlot \in Int /\ i.slot \in Int
  BY BoundsAssumption DEF Item
<1>2. CASE i.skill = op.skill /\ ~i.done
  <2>1. Deferred(i, op) = [i EXCEPT !.slot = Lowest(i.slot + op.delay, MaxSlot)]
    BY <1>2 DEF Deferred, DeferMatches
  <2>2. Deferred(i, op).slot = Lowest(i.slot + op.delay, MaxSlot)
    BY <2>1 DEF Item
  <2> QED  BY <1>1, <1>2, <2>1, <2>2 DEF Lowest, Item
<1>3. CASE i.skill # op.skill \/ i.done
  <2>1. Deferred(i, op) = i
    BY <1>3 DEF Deferred, DeferMatches
  <2> QED  BY <1>1, <2>1
<1> QED  BY <1>2, <1>3

\* Open items of one skill are deferred together, so their order stays.
LEMMA DeferredInOrder ==
  ASSUME NEW i \in Item, NEW j \in Item, i.skill = j.skill, ~i.done, ~j.done, i.slot <= j.slot,
         NEW op \in Op, op.op = "DEFER", op.items = {}, op.delay \in Nat
  PROVE  Deferred(i, op).slot <= Deferred(j, op).slot
<1>1. MaxSlot \in Int /\ i.slot \in Int /\ j.slot \in Int
  BY BoundsAssumption DEF Item
<1>2. CASE i.skill = op.skill
  <2>1. /\ Deferred(i, op) = [i EXCEPT !.slot = Lowest(i.slot + op.delay, MaxSlot)]
        /\ Deferred(j, op) = [j EXCEPT !.slot = Lowest(j.slot + op.delay, MaxSlot)]
    BY <1>2 DEF Deferred, DeferMatches
  <2>2. /\ Deferred(i, op).slot = Lowest(i.slot + op.delay, MaxSlot)
        /\ Deferred(j, op).slot = Lowest(j.slot + op.delay, MaxSlot)
    BY <2>1 DEF Item
  <2> QED  BY <1>1, <2>2 DEF Lowest
<1>3. CASE i.skill # op.skill
  BY <1>3 DEF Deferred, DeferMatches
<1> QED  BY <1>2, <1>3

LEMMA DeferredCarried ==
  ASSUME NEW items \in SUBSET Item, NEW others \in SUBSET Item, Carried(items, others),
         NEW op \in Op, op.op = "DEFER", op.items = {}, op.delay \in Nat
  PROVE  Carried(items, {Deferred(i, op) : i \in others})
<1> DEFINE deferred == {Deferred(i, op) : i \in others}
<1>1. MaxSlot \in Int /\ (\A i \in items \cup others : i \in Item /\ i.slot \in Int)
  BY BoundsAssumption DEF Item
<1>2. \A i \in others : Deferred(i, op) \in Item /\ Deferred(i, op).n = i.n
  BY DeferredItem
<1>3. \A i \in others :
        /\ Deferred(i, op).skill = i.skill /\ Deferred(i, op).done = i.done
        /\ i.slot <= MaxSlot => i.slot <= Deferred(i, op).slot /\ Deferred(i, op).slot <= MaxSlot
  BY DeferredSlot
<1>4. ASSUME NEW i \in items, NEW i2 \in others, i.n = i2.n
      PROVE  i.skill = i2.skill /\ i.done = i2.done
  BY <1>4 DEF Carried
<1>5. ASSUME NEW i \in items, NEW j \in items, NEW i2 \in others, NEW j2 \in others,
             i.n = i2.n, j.n = j2.n, i.slot <= MaxSlot, j.slot <= MaxSlot
      PROVE  /\ i.slot <= Deferred(i2, op).slot /\ Deferred(i2, op).slot <= MaxSlot
             /\ i.skill = j.skill /\ ~i.done /\ ~j.done /\ i.slot <= j.slot =>
                  Deferred(i2, op).slot <= Deferred(j2, op).slot
  <2>1. /\ i.slot <= i2.slot /\ i2.slot <= MaxSlot
        /\ i.skill = j.skill /\ ~i.done /\ ~j.done /\ i.slot <= j.slot => i2.slot <= j2.slot
    BY <1>5 DEF Carried, DelayedInOrder
  <2>2. i2.slot <= Deferred(i2, op).slot /\ Deferred(i2, op).slot <= MaxSlot
    BY <2>1, <1>3
  <2>3. i.slot \in Int /\ i2.slot \in Int /\ Deferred(i2, op).slot \in Int
    BY <1>1, <1>2 DEF Item
  <2>4. i.slot <= Deferred(i2, op).slot
    BY <2>1, <2>2, <2>3
  <2>5. ASSUME i.skill = j.skill, ~i.done, ~j.done, i.slot <= j.slot
        PROVE  Deferred(i2, op).slot <= Deferred(j2, op).slot
    <3>1. i2.skill = j2.skill /\ ~i2.done /\ ~j2.done
      BY <1>4, <1>5, <2>5
    <3>2. i2.slot <= j2.slot
      BY <2>1, <2>5
    <3> QED  BY <3>1, <3>2, DeferredInOrder
  <2> QED  BY <2>2, <2>4, <2>5
<1>6. DelayedInOrder(items, deferred)
  <2> SUFFICES ASSUME NEW i \in items, NEW j \in items, NEW a \in deferred, NEW b \in deferred,
                      i.n = a.n, j.n = b.n, i.slot <= MaxSlot, j.slot <= MaxSlot
               PROVE  /\ i.slot <= a.slot /\ a.slot <= MaxSlot
                      /\ i.skill = j.skill /\ ~i.done /\ ~j.done /\ i.slot <= j.slot => a.slot <= b.slot
    BY DEF DelayedInOrder
  <2>1. PICK i2 \in others : a = Deferred(i2, op)
    OBVIOUS
  <2>2. PICK j2 \in others : b = Deferred(j2, op)
    OBVIOUS
  <2>3. i.n = i2.n /\ j.n = j2.n
    BY <1>2, <2>1, <2>2
  <2> QED  BY <1>5, <2>1, <2>2, <2>3
<1>7. \A i \in items : \A a \in deferred : i.n = a.n => i.skill = a.skill /\ i.done = a.done
  BY <1>2, <1>3, <1>4
<1> QED  BY <1>6, <1>7 DEF Carried

\* Items with new numbers are nobody's successors, nor are items that are dropped.
LEMMA NewCarried ==
  ASSUME NEW items, NEW others, Carried(items, others), NEW more,
         \A k \in more : k \in others \/ \A i \in items : i.n # k.n
  PROVE  Carried(items, more)
<1>1. \A k \in more : (\E i \in items : i.n = k.n) => k \in others
  OBVIOUS
<1>2. DelayedInOrder(items, more)
  <2> SUFFICES ASSUME NEW i \in items, NEW j \in items, NEW a \in more, NEW b \in more,
                      i.n = a.n, j.n = b.n, i.slot <= MaxSlot, j.slot <= MaxSlot
               PROVE  /\ i.slot <= a.slot /\ a.slot <= MaxSlot
                      /\ i.skill = j.skill /\ ~i.done /\ ~j.done /\ i.slot <= j.slot => a.slot <= b.slot
    BY DEF DelayedInOrder
  <2>1. a \in others /\ b \in others
    BY <1>1
  <2> QED  BY <2>1 DEF Carried, DelayedInOrder
<1> QED  BY <1>1, <1>2 DEF Carried

LEMMA SelfCarried ==
  ASSUME NEW items \in SUBSET Item, Fresh(items)
  PROVE  Carried(items, items)
<1>1. \A i, j \in items : i.n = j.n => i = j
  BY DEF Fresh
<1>2. \A i \in items : i.slot \in Int
  BY DEF Item
<1> QED  BY <1>1, <1>2 DEF Carried, DelayedInOrder

\* What the copy gets is numbered after everything in the plan.
LEMMA AddedCarried ==
  ASSUME Inv, todo # None, Carried(Items, work), NEW new, \A k \in new : k.n \in Int /\ next <= k.n,
         NEW more \in SUBSET (work \cup new)
  PROVE  Carried(Items, more)
<1>1. \A i \in Items : i.n \in Int /\ i.n < used
  BY ItemsNumbered DEF WellNumbered, NumberedBelow, Item
<1>2. used <= next /\ used \in Int /\ next \in Int
  BY DEF Inv, Numbered, TypeOK
<1>3. \A k \in new : \A i \in Items : i.n # k.n
  BY <1>1, <1>2
<1> QED  BY <1>3, NewCarried

\* The sequences of at most three operators.
LEMMA ShortConcat ==
  ASSUME NEW d, NEW a, NEW b
  PROVE  <<d>> \o <<a, b>> = <<d, a, b>> /\ <<>> \o <<a, b>> = <<a, b>>
<1> DEFINE S == {d, a, b}
<1>1. <<d>> \in Seq(S) /\ <<a, b>> \in Seq(S) /\ <<>> \in Seq(S) /\ <<d, a, b>> \in Seq(S)
  OBVIOUS
<1>2. /\ Len(<<d>> \o <<a, b>>) = 3 /\ Len(<<d, a, b>>) = 3
      /\ \A i \in 1..3 : (<<d>> \o <<a, b>>)[i] = <<d, a, b>>[i]
  OBVIOUS
<1>3. /\ Len(<<>> \o <<a, b>>) = 2 /\ Len(<<a, b>>) = 2
      /\ \A i \in 1..2 : (<<>> \o <<a, b>>)[i] = <<a, b>>[i]
  OBVIOUS
<1>4. <<d>> \o <<a, b>> \in Seq(S) /\ <<>> \o <<a, b>> \in Seq(S)
  BY <1>1
<1>5. <<d>> \o <<a, b>> = <<d, a, b>>
  <2> DEFINE s == <<d>> \o <<a, b>>
             u == <<d, a, b>>
  <2>1. s \in Seq(S) /\ u \in Seq(S) /\ Len(s) = Len(u) /\ \A i \in 1..Len(s) : s[i] = u[i]
    BY <1>1, <1>2, <1>4
  <2> HIDE DEF s, u, S
  <2>2. s = u
    BY <2>1, SeqEqual
  <2> QED  BY <2>2 DEF s, u
<1>6. <<>> \o <<a, b>> = <<a, b>>
  <2> DEFINE s == <<>> \o <<a, b>>
             u == <<a, b>>
  <2>1. s \in Seq(S) /\ u \in Seq(S) /\ Len(s) = Len(u) /\ \A i \in 1..Len(s) : s[i] = u[i]
    BY <1>1, <1>3, <1>4
  <2> HIDE DEF s, u, S
  <2>2. s = u
    BY <2>1, SeqEqual
  <2> QED  BY <2>2 DEF s, u
<1> QED  BY <1>5, <1>6

LEMMA TailOf ==
  ASSUME NEW S, NEW s \in Seq(S), NEW k \in 0..2, Len(s) = k + 1
  PROVE  /\ Len(Tail(s)) = k
         /\ k >= 1 => Tail(s)[1] = s[2]
         /\ k = 2 => Tail(s)[2] = s[3]
         /\ k = 0 => Tail(s) = <<>>
  OBVIOUS

\* A draft of the policy that remediates: the root cause, then its check, after
\* the deferral of the struggling skill where that is another one.
LEMMA DraftShape ==
  ASSUME NEW items, NEW t, t.class \in {"repeated_misconception", "missing_prerequisite"},
         NEW ops \in DeterministicDrafts(items, t) \cup MinimalDrafts(t)
  PROVE  \E a, b, d :
           /\ a.op = "INSERT_REMEDIATION" /\ a.skill = t.root
           /\ b.op = "ADD_PROBE" /\ b.skill = t.root
           /\ d.op = "DEFER" /\ d.items = {} /\ d.skill = t.skill
           /\ ops = <<a, b>> \/ (t.root # t.skill /\ ops = <<d, a, b>>)
<1> DEFINE d == Defer(t.skill, {}, 2)
           a(rs) == Insert(t.root, rs, 20)
           b == Probe(t.root, ProbeMinutes(t))
           delayed == IF t.root # t.skill THEN <<d>> ELSE <<>>
<1>1. /\ DeterministicDrafts(items, t) = {delayed \o <<a(rs), b>> : rs \in OneOf(t.remedies)}
      /\ MinimalDrafts(t) = {<<a(rs), b>> : rs \in OneOf(t.remedies)}
  BY DEF DeterministicDrafts, MinimalDrafts
<1>2. /\ \A rs : a(rs).op = "INSERT_REMEDIATION" /\ a(rs).skill = t.root
      /\ b.op = "ADD_PROBE" /\ b.skill = t.root
      /\ d.op = "DEFER" /\ d.items = {} /\ d.skill = t.skill
  BY DEF Insert, Probe, Defer
<1> HIDE DEF a, b, d
<1>3. PICK rs \in OneOf(t.remedies) : ops = delayed \o <<a(rs), b>> \/ ops = <<a(rs), b>>
  <2> HIDE DEF delayed
  <2> QED  BY <1>1
<1>4. <<d>> \o <<a(rs), b>> = <<d, a(rs), b>> /\ <<>> \o <<a(rs), b>> = <<a(rs), b>>
  BY ShortConcat
<1>5. ops = <<a(rs), b>> \/ (t.root # t.skill /\ ops = <<d, a(rs), b>>)
  <2>1. CASE t.root # t.skill
    BY <2>1, <1>3, <1>4
  <2>2. CASE t.root = t.skill
    BY <2>2, <1>3, <1>4
  <2> QED  BY <2>1, <2>2
<1> QED  BY <1>2, <1>5

\* Taken up, it is still to be applied as a whole.
LEMMA DraftedInOrder ==
  ASSUME Inv, trigger \in Triggers(gaps), ByPolicy,
         NEW ops \in DeterministicDrafts(Items, trigger) \cup MinimalDrafts(trigger), Drafted(ops)
  PROVE  DelayedSoFar' /\ RemedyInOrder'
<1>1. work' = Items /\ Items' = Items /\ todo' = ops /\ trigger' = trigger /\ rung' = rung
  BY DEF Drafted, read, Items
<1>2. DelayedSoFar'
  <2>1. Carried(Items, Items)
    BY ItemsNumbered, SelfCarried DEF WellNumbered
  <2> QED  BY <1>1, <2>1 DEF DelayedSoFar, Carried, DelayedInOrder
<1>3. ASSUME RemediatesFirst PROVE ToDefer' \/ ToInsert'
  <2>1. trigger.class \in {"repeated_misconception", "missing_prerequisite"}
    BY <1>3 DEF RemediatesFirst
  <2>2. PICK a, b, d :
          /\ a.op = "INSERT_REMEDIATION" /\ a.skill = trigger.root
          /\ b.op = "ADD_PROBE" /\ b.skill = trigger.root
          /\ d.op = "DEFER" /\ d.items = {} /\ d.skill = trigger.skill
          /\ ops = <<a, b>> \/ (trigger.root # trigger.skill /\ ops = <<d, a, b>>)
    BY <2>1, DraftShape
  <2>3. CASE ops = <<a, b>>
    <3>1. Len(todo') = 2 /\ todo'[1] = a /\ todo'[2] = b
      BY <1>1, <2>3
    <3>2. OfRoot(work)' = OfRoot(Items)'
      BY <1>1 DEF OfRoot
    <3> QED  BY <1>1, <2>2, <3>1, <3>2 DEF ToInsert, Inserts, Probes
  <2>4. CASE trigger.root # trigger.skill /\ ops = <<d, a, b>>
    <3>1. Len(todo') = 3 /\ todo'[1] = d /\ todo'[2] = a /\ todo'[3] = b
      BY <1>1, <2>4
    <3> QED  BY <1>1, <2>2, <2>4, <3>1 DEF ToDefer, Inserts, Probes
  <2> QED  BY <2>2, <2>3, <2>4
<1> QED  BY <1>1, <1>2, <1>3 DEF RemedyInOrder, RemediatesFirst

\* Deferring another skill leaves the items of the root cause alone.
LEMMA DeferredInTurn ==
  ASSUME Inv, ToDefer, todo # None, todo \in Seq(Op), Items' = Items, trigger' = trigger,
         todo' = Tail(todo), work' = {Deferred(i, todo[1]) : i \in work},
         todo[1] \in Op, todo[1].delay \in Nat
  PROVE  ToInsert'
<1> DEFINE op == todo[1]
<1>1. op.op = "DEFER" /\ op.items = {} /\ op.skill # trigger.root /\ work = Items
  BY DEF ToDefer
<1>2. \A i \in work : /\ Deferred(i, op).skill = i.skill
                      /\ i.skill = trigger.root => Deferred(i, op) = i
  BY <1>1, ItemsNumbered, DeferredSlot
<1>3. OfRoot(work)' = OfRoot(Items)'
  <2> HIDE DEF op
  <2>1. work' = {Deferred(i, op) : i \in Items}
    BY <1>1 DEF op
  <2>2. ASSUME NEW a \in work', a.skill = trigger.root PROVE a \in Items
    <3>1. PICK i \in Items : a = Deferred(i, op)
      BY <2>1
    <3> QED  BY <1>1, <1>2, <2>2, <3>1
  <2>3. ASSUME NEW i \in Items, i.skill = trigger.root PROVE i \in work'
    <3>1. Deferred(i, op) = i
      BY <1>1, <1>2, <2>3
    <3>2. Deferred(i, op) \in work'
      BY <2>1
    <3> QED  BY <3>1, <3>2
  <2> QED  BY <2>2, <2>3 DEF OfRoot
<1>4. Len(todo') = 2 /\ todo'[1] = todo[2] /\ todo'[2] = todo[3]
  <2>1. Len(todo) = 2 + 1 /\ 2 \in 0..2
    BY DEF ToDefer
  <2> QED  BY <2>1, TailOf
<1> QED  BY <1>3, <1>4 DEF ToInsert, ToDefer, Inserts, Probes

\* The remediation is as early as the root cause is planned.
LEMMA InsertedInTurn ==
  ASSUME Inv, ToInsert, todo # None, todo \in Seq(Op), todo[1] \in Op,
         Items' = Items, trigger' = trigger, used' = used,
         todo' = Tail(todo), NEW slot \in EarliestSlot(work, todo[1].skill),
         work' = work \cup Remediations(slot, next, todo[1])
  PROVE  ToCheck'
<1> DEFINE op == todo[1]
<1> PICK a : a = NewItem(next, "review", op.skill, Listed(op)[1], op.minutes, slot)
  OBVIOUS
<1>1. op.op = "INSERT_REMEDIATION" /\ op.skill = trigger.root
  BY DEF ToInsert, Inserts
<1>2. slot \in EarliestSlot(Items, trigger.root)
  <2>1. SlotsOfSkill(work, trigger.root) = SlotsOfSkill(Items, trigger.root)
    BY DEF ToInsert, OfRoot, SlotsOfSkill
  <2> QED  BY <1>1, <2>1 DEF EarliestSlot
<1>3. a \in work'
  <2>1. op.resources \in Seq(Resources)
    BY <1>1, OpParams
  <2>2. Len(Listed(op)) \in Nat \ {0}
    <3>1. CASE op.resources = <<>>
      BY <3>1 DEF Listed
    <3>2. CASE op.resources # <<>>
      BY <2>1, <3>2 DEF Listed
    <3> QED  BY <3>1, <3>2
  <2>3. 1 \in 1..Lowest(Len(Listed(op)), 2) /\ next + 1 - 1 = next
    BY <2>2 DEF Lowest, Inv, TypeOK
  <2>4. a \in Remediations(slot, next, op)
    BY <2>3 DEF Remediations
  <2> QED  BY <2>4
<1>4. a.n = next /\ a.type = "review" /\ a.skill = trigger.root /\ a.slot = slot
  BY <1>1 DEF NewItem
<1>5. next >= used
  BY DEF Inv, Numbered, TypeOK
<1>6. Remediation(a)' /\ (RootWithinWeek' => a.slot <= MaxSlot)
  BY <1>2, <1>4, <1>5 DEF Remediation, RootWithinWeek
<1>7. Len(todo') = 1 /\ todo'[1] = todo[2]
  <2>1. Len(todo) = 1 + 1 /\ 1 \in 0..2
    BY DEF ToInsert
  <2> QED  BY <2>1, TailOf
<1> QED  BY <1>3, <1>6, <1>7 DEF ToCheck, ToInsert, Probes

\* The check comes on the day after the last item, or on the last day.
LEMMA CheckedInTurn ==
  ASSUME Inv, ToCheck, todo # None, todo \in Seq(Op),
         Items' = Items, trigger' = trigger, used' = used,
         todo' = Tail(todo), NEW slot \in CheckSlot(work),
         work' = work \cup {NewItem(next, "probe", todo[1].skill, None, todo[1].minutes, slot)}
  PROVE  Checked'
<1> PICK b : b = NewItem(next, "probe", todo[1].skill, None, todo[1].minutes, slot)
  OBVIOUS
<1>1. b \in work' /\ b.n = next /\ b.type = "probe" /\ b.skill = trigger.root /\ b.slot = slot
  BY DEF NewItem, ToCheck, Probes
<1>2. PICK a \in work : Remediation(a) /\ (RootWithinWeek => a.slot <= MaxSlot)
  BY DEF ToCheck
<1>3. a.slot <= MaxSlot => a.slot <= slot
  <2>1. PICK i \in work : (\A k \in work : k.slot <= i.slot) /\ slot = Lowest(i.slot + 1, MaxSlot)
    BY DEF CheckSlot
  <2>2. a.slot \in Int /\ i.slot \in Int /\ MaxSlot \in Int /\ a.slot <= i.slot
    BY <2>1, ItemsNumbered, BoundsAssumption DEF WellNumbered, Item
  <2> QED  BY <2>1, <2>2 DEF Lowest
<1>4. next >= used
  BY DEF Inv, Numbered, TypeOK
<1>5. todo' = <<>>
  <2>1. Len(todo) = 0 + 1 /\ 0 \in 0..2
    BY DEF ToCheck
  <2> QED  BY <2>1, TailOf
<1>6. a \in work' /\ Remediation(a)' /\ Check(b)' /\ (RootWithinWeek' => a.slot <= b.slot)
  BY <1>1, <1>2, <1>3, <1>4 DEF Remediation, Check, RootWithinWeek
<1> QED  BY <1>1, <1>5, <1>6 DEF Checked

\* The operator an action applies, and what a draft of the policy may hold.
LEMMA HeadOp ==
  ASSUME Inv, todo \notin {None, <<>>}
  PROVE  /\ todo \in Seq(Op) /\ todo[1] = Head(todo) /\ Head(todo) \in Op
         /\ next \in Nat
         /\ ByPolicy => /\ Head(todo) \in PolicyOps(Items)
                        /\ Head(todo).op = "DEFER" => Head(todo).items = {} /\ Head(todo).delay \in Nat
<1>1. todo \in Seq(Op) /\ next \in Nat
  BY DEF Inv, TypeOK
<1>2. todo[1] = Head(todo) /\ Head(todo) \in Op
  BY <1>1
<1>3. ASSUME ByPolicy PROVE Head(todo) \in PolicyOps(Items)
  BY <1>3 DEF Inv, FinishedSpared
<1> QED  BY <1>1, <1>2, <1>3 DEF PolicyOps

\* An operator of the policy is applied: what the copy carries, and whose turn it was.
LEMMA AppliedOrder ==
  ASSUME Inv, todo \notin {None, <<>>}, NEW items, NEW k, Applied(items, k),
         ByPolicy => Carried(Items, items),
         ByPolicy /\ RemediatesFirst => (ToInsert \/ ToCheck \/ Checked)'
  PROVE  DelayedSoFar' /\ RemedyInOrder'
<1>1. Items' = Items /\ rung' = rung /\ trigger' = trigger /\ work' = items
  BY DEF Applied, read, Items
<1>2. DelayedSoFar'
  BY <1>1 DEF DelayedSoFar, ByPolicy, Carried, DelayedInOrder
<1>3. RemedyInOrder'
  BY <1>1 DEF RemedyInOrder, RemediatesFirst, ByPolicy
<1> QED  BY <1>2, <1>3

\* One step for each action; those that leave no draft of the policy together.
LEMMA StepOrder == OrderInv /\ [Next]_vars => DelayedSoFar' /\ RemedyInOrder'
<1> SUFFICES ASSUME OrderInv, [Next]_vars PROVE DelayedSoFar' /\ RemedyInOrder'
  OBVIOUS
<1> USE DEF OrderInv
<1>1. CASE todo' = None \/ ~ByPolicy'
  BY <1>1 DEF DelayedSoFar, RemedyInOrder
<1>2. ASSUME NEW why, Rejected(why) PROVE todo' = None
  BY <1>2 DEF Rejected, Ended, ToRung, NoDraft
<1>3. CASE Begin \/ AgentDegrades \/ AgentUnparsable \/ OperatorFails \/ Approve \/ RejectPlan \/ Abort
  BY <1>1, <1>2, <1>3 DEF Begin, AgentDegrades, AgentUnparsable, OperatorFails, Approve, RejectPlan, Abort,
       Ended, ToRung, NoDraft, ByPolicy, Drafting, read
<1>4. CASE AgentAnswers
  <2>1. rung = "agent" /\ \E ops : Drafted(ops) \/ Rejected("draft")
    BY <1>4 DEF AgentAnswers
  <2> QED  BY <1>1, <1>2, <2>1 DEF Drafted, ByPolicy
<1>5. CASE PolicyAnswers
  <2>1. trigger \in Triggers(gaps)
    BY <1>5 DEF PolicyAnswers, Drafting, Inv, TypeOK
  <2>2. PICK ops \in DeterministicDrafts(Items, trigger) \cup MinimalDrafts(trigger) :
          ByPolicy /\ (Drafted(ops) \/ Rejected("draft"))
    BY <1>5 DEF PolicyAnswers, Drafting, Inv, TypeOK, ByPolicy
  <2> QED  BY <1>1, <1>2, <2>1, <2>2, DraftedInOrder
<1> DEFINE op == Head(todo)
<1>6. ASSUME todo \notin {None, <<>>}
      PROVE  /\ todo \in Seq(Op) /\ op = todo[1] /\ op \in Op /\ next \in Nat
             /\ ByPolicy => Carried(Items, work) /\ op \in PolicyOps(Items)
             /\ ByPolicy /\ op.op = "DEFER" => op.items = {} /\ op.delay \in Nat
             /\ ByPolicy /\ RemediatesFirst => ToDefer \/ ToInsert \/ ToCheck
  BY <1>6, HeadOp DEF DelayedSoFar, RemedyInOrder, Checked
<1>7. ASSUME todo \notin {None, <<>>}, NEW items, NEW k, Applied(items, k)
      PROVE  Items' = Items /\ trigger' = trigger /\ used' = used /\ todo' = Tail(todo) /\ work' = items
  BY <1>7 DEF Applied, read, Items
<1>8. /\ ToDefer => todo[1].op = "DEFER"
      /\ ToInsert => todo[1].op = "INSERT_REMEDIATION"
      /\ ToCheck => todo[1].op = "ADD_PROBE"
  BY DEF ToDefer, ToInsert, ToCheck, Inserts, Probes
<1> HIDE DEF op
<1>9. CASE InsertRemediation
  <2>1. op.op = "INSERT_REMEDIATION" /\ todo \notin {None, <<>>}
    BY <1>9 DEF InsertRemediation, Applying, op
  <2>2. PICK slot \in EarliestSlot(work, op.skill) : Applied(work \cup Remediations(slot, next, op), 2)
    BY <1>9 DEF InsertRemediation, op
  <2> DEFINE items == work \cup Remediations(slot, next, op)
  <2>3. \A a \in Remediations(slot, next, op) : a.n \in Int /\ next <= a.n
    BY <1>6, <2>1 DEF Remediations, NewItem
  <2>4. ByPolicy => Carried(Items, items)
    BY <1>6, <2>1, <2>3, AddedCarried
  <2>5. ASSUME ByPolicy, RemediatesFirst PROVE ToCheck'
    <3>1. ToInsert
      BY <1>6, <1>8, <2>1, <2>5
    <3> QED  BY <1>6, <1>7, <2>1, <2>2, <3>1, InsertedInTurn
  <2> HIDE DEF items
  <2> QED  BY <2>1, <2>2, <2>4, <2>5, AppliedOrder DEF items
<1>10. CASE DeferItems
  <2> DEFINE items == {Deferred(i, op) : i \in work}
  <2>1. op.op = "DEFER" /\ todo \notin {None, <<>>} /\ Applied(items, 0)
    BY <1>10 DEF DeferItems, Applying, op
  <2>2. ByPolicy => Carried(Items, items)
    BY <1>6, <2>1, ItemsNumbered, DeferredCarried DEF WellNumbered
  <2>3. ASSUME ByPolicy, RemediatesFirst PROVE ToInsert'
    <3>1. ToDefer
      BY <1>6, <1>8, <2>1, <2>3
    <3> QED  BY <1>6, <1>7, <2>1, <2>3, <3>1, DeferredInTurn
  <2> HIDE DEF items
  <2> QED  BY <2>1, <2>2, <2>3, AppliedOrder
<1>11. CASE RemoveDuplicate \/ ReplaceResource
  <2>1. op.op \in {"REMOVE_DUPLICATE", "REPLACE_RESOURCE"} /\ todo \notin {None, <<>>}
    BY <1>11 DEF RemoveDuplicate, ReplaceResource, Applying, op
  <2>2. ~ByPolicy
    BY <1>6, <2>1 DEF PolicyOps
  <2>3. ~ByPolicy'
    BY <1>11, <2>2 DEF RemoveDuplicate, ReplaceResource, Applied, ByPolicy
  <2> QED  BY <1>1, <2>3
<1>12. CASE AddProbe
  <2>1. op.op = "ADD_PROBE" /\ todo \notin {None, <<>>}
    BY <1>12 DEF AddProbe, Applying, op
  <2>2. PICK slot \in CheckSlot(work) :
          Applied(work \cup {NewItem(next, "probe", op.skill, None, op.minutes, slot)}, 1)
    BY <1>12 DEF AddProbe, op
  <2> DEFINE new == {NewItem(next, "probe", op.skill, None, op.minutes, slot)}
             items == work \cup new
  <2>3. \A b \in new : b.n \in Int /\ next <= b.n
    BY <1>6, <2>1 DEF NewItem
  <2>4. ByPolicy => Carried(Items, items)
    BY <1>6, <2>1, <2>3, AddedCarried
  <2>5. ASSUME ByPolicy, RemediatesFirst PROVE Checked'
    <3>1. ToCheck
      BY <1>6, <1>8, <2>1, <2>5
    <3> QED  BY <1>6, <1>7, <2>1, <2>2, <3>1, CheckedInTurn
  <2> HIDE DEF items
  <2> QED  BY <2>1, <2>2, <2>4, <2>5, AppliedOrder DEF items
<1>13. CASE SplitActivity
  <2> DEFINE halves == UNION {Halves(i, next) : i \in Named(work, op.item)}
             items == Others(work, op.item) \cup halves
  <2>1. op.op = "SPLIT_ACTIVITY" /\ todo \notin {None, <<>>} /\ Applied(items, 2)
    BY <1>13 DEF SplitActivity, Applying, op
  <2>2. \A h \in halves : h.n \in Int /\ next <= h.n
    <3>1. \A i \in Named(work, op.item) : i \in Item
      BY ItemsNumbered DEF WellNumbered, Named
    <3>2. \A i \in Named(work, op.item) : \A h \in Halves(i, next) : h \in Item /\ next <= h.n
      BY <1>6, <2>1, <3>1, HalvesOf
    <3>3. \A h \in halves : h \in Item /\ next <= h.n
      BY <3>2
    <3> QED  BY <3>3 DEF Item
  <2>3. items \in SUBSET (work \cup halves)
    BY DEF Others
  <2> HIDE DEF halves, items
  <2>4. ByPolicy => Carried(Items, items)
    BY <1>6, <2>1, <2>2, <2>3, AddedCarried
  <2>5. ~(ByPolicy /\ RemediatesFirst)
    BY <1>6, <1>8, <2>1
  <2> QED  BY <2>1, <2>4, <2>5, AppliedOrder
<1>14. CASE Mark
  <2>1. todo' = None
    BY <1>14 DEF Mark, Inv, TypeOK
  <2> QED  BY <1>1, <2>1
<1>15. CASE UNCHANGED vars
  <2>1. Items' = Items /\ work' = work /\ todo' = todo /\ trigger' = trigger /\ used' = used /\ rung' = rung
    BY <1>15 DEF vars, Items
  <2>2. DelayedSoFar'
    BY <2>1 DEF DelayedSoFar, ByPolicy, Carried, DelayedInOrder
  <2>3. /\ ToDefer' = ToDefer /\ ToInsert' = ToInsert
        /\ ByPolicy' = ByPolicy /\ RemediatesFirst' = RemediatesFirst
    BY <2>1 DEF ToDefer, ToInsert, Inserts, Probes, OfRoot, ByPolicy, RemediatesFirst
  <2>4. RootWithinWeek' = RootWithinWeek
    BY <2>1 DEF RootWithinWeek, EarliestSlot, SlotsOfSkill
  <2>5. ToCheck' = ToCheck
    BY <2>1, <2>4 DEF ToCheck, Probes, Remediation
  <2>6. Checked' = Checked
    BY <2>1, <2>4 DEF Checked, Remediation, Check
  <2> QED  BY <2>1, <2>2, <2>3, <2>5, <2>6 DEF RemedyInOrder
<1> QED
  BY <1>3, <1>4, <1>5, <1>9, <1>10, <1>11, <1>12, <1>13, <1>14, <1>15 DEF Next, Climb

\* The invariant of the order, with what it rests on.
THEOREM OrderInvHolds == Spec => []OrderInv
<1>1. Init => OrderInv
  BY InitInv DEF OrderInv, Init, DelayedSoFar, RemedyInOrder
<1>2. OrderInv /\ [Next]_vars => OrderInv'
  <2>1. OrderInv => Inv
    BY DEF OrderInv
  <2> QED  BY <2>1, StepInv, StepOrder DEF OrderInv
<1> QED  BY <1>1, <1>2, PTL DEF Spec

\* An approved draft of the policy has been applied as a whole.
LEMMA OrderedApproval ==
  ASSUME OrderInv, [Next]_vars, Approving, ByPolicy
  PROVE  /\ Carried(plan, plan')
         /\ RemediatesFirst => \E a, b \in plan' :
              Remediation(a) /\ Check(b) /\ (RootWithinWeek => a.slot <= b.slot)
<1>1. Inv
  BY DEF OrderInv
<1>2. Approve /\ plan # None /\ plan' = work
  BY <1>1, OnlyApprove, PolicyApproval DEF Approving
<1>3. todo = <<>> /\ todo # None /\ Items = plan
  BY <1>2, NoneAssumption DEF Approve, Items
<1>4. Len(todo) = 0
  BY <1>3
<1>5. RemediatesFirst => Checked
  BY <1>3, <1>4 DEF OrderInv, RemedyInOrder, ToDefer, ToInsert, ToCheck
<1> QED  BY <1>2, <1>3, <1>5 DEF OrderInv, DelayedSoFar, Checked

\* A patch of the policy moves nothing to an earlier day or out of the week, and
\* keeps the order of a skill's open items, on every plan.
THEOREM DelaysStayInOrder == Spec => PolicyDelaysInOrder
<1>1. OrderInv /\ [Next]_vars => [Approving /\ ByPolicy => DelayedInOrder(plan, plan')]_vars
  BY OrderedApproval DEF Carried
<1> QED  BY <1>1, OrderInvHolds, PTL DEF Spec, PolicyDelaysInOrder

\* A patch that remediates a root cause checks it, and not before it is
\* remediated unless all that was planned for it is beyond the week.
THEOREM RemediationThenCheck == Spec => CheckFollowsRemediation
<1>1. OrderInv /\ [Next]_vars =>
        [Approving /\ ByPolicy /\ RemediatesFirst =>
           \E a, b \in plan' :
             Remediation(a) /\ Check(b) /\ (RootWithinWeek => a.slot <= b.slot)]_vars
  BY OrderedApproval
<1> QED  BY <1>1, OrderInvHolds, PTL DEF Spec, CheckFollowsRemediation
=============================================================================
