-------------------------- MODULE ReflectionLadder --------------------------
(***************************************************************************)
(* How a reflection changes the current plan of a learner (run_reflection).*)
(* A ladder of drafts is tried until the validator approves one: the rounds*)
(* of the Reflection Agent, the deterministic policy's draft, for a        *)
(* misconception a minimal draft, and failing all of them the plan stays   *)
(* as it is and needs attention.  A draft is a list of plan-edit operators;*)
(* they are applied one after another to a copy of the plan's items, and   *)
(* the result must satisfy the hard rules of the plan validator.           *)
(*                                                                         *)
(* One reflection runs at a time here: what others commit in the meantime  *)
(* is in PlanHistory, when a reflection is skipped in Misconceptions.  A   *)
(* skill outside the learner's role counts as met at the highest level,    *)
(* which is how every rule treats it.  Objectives, reasons, practice items *)
(* and depends_on are left out.                                            *)
(*                                                                         *)
(* DeferredWithDone, DeferredResources, CheckUpFront,                      *)
(* AdmissibleOrMinimal and RetriedForever are mutants of the definitions   *)
(* they precede: no action uses them.                                      *)
(***************************************************************************)
EXTENDS Integers, Sequences, FiniteSets, FiniteSetsExt

CONSTANTS
  Skills,
  Prereqs,         \* hard direct prerequisites of a skill
  Ancestors,       \* what they reach
  Resources,
  None,
  FirstPlans,      \* the plans the planner may have left: sets of items, or None
  FirstFree,       \* no item of theirs has this number or a higher one
  GapReports,      \* what a gap analysis may report of the skills
  Budget,          \* weekly_hours_budget_minutes
  NewSkillCap,
  MaxSlot,         \* PLAN_WEEK_MAX_DAY_SLOT
  MaxRounds,       \* REFLECTION_MAX_ROUNDS: rounds, and answers asked for in each
  MaxOps,          \* how many operators an agent's draft has (the code has no limit)
  AgentDelays,     \* the delay_days an agent may write (any integer passes the parser)
  AgentMinutes,    \* the est_minutes it may write (likewise)
  ProbeCounts,     \* how many practice items the check that was created has
  MaxReflections

Types == {"resource", "practice", "project", "probe", "review"}
Lessons == {"resource", "practice", "project"}
Classes == {"repeated_misconception", "missing_prerequisite",
            "excessive_difficulty", "cognitive_overload"}

\* plan_items.  n tells the items of one learner's plans apart.
Item == [n : Nat, type : Types, skill : Skills, resource : Resources \cup {None},
         session : Nat, minutes : Int, difficulty : Nat, slot : Int, done : BOOLEAN]
Gap == [met : BOOLEAN, level : Nat]

ASSUME NoneAssumption ==
  None \notin Resources /\ None \notin Skills /\ None \notin GapReports /\ None # <<>>
ASSUME GraphAssumption ==
  /\ Prereqs \in [Skills -> SUBSET Skills] /\ Ancestors \in [Skills -> SUBSET Skills]
  /\ \A s \in Skills : Prereqs[s] \subseteq Ancestors[s] /\ s \notin Ancestors[s]
  /\ \A s \in Skills : \A a \in Ancestors[s] : Ancestors[a] \subseteq Ancestors[s]
ASSUME PlansAssumption ==
  \A p \in FirstPlans \ {None} :
    /\ p \in SUBSET Item
    /\ \A i, j \in p : i.n = j.n => i = j
    /\ \A i \in p : i.n < FirstFree
ASSUME BoundsAssumption ==
  /\ GapReports \subseteq [Skills -> Gap]
  /\ FirstFree \in Nat /\ MaxSlot \in Nat \ {0} /\ MaxRounds \in Nat \ {0}
  /\ MaxOps \in Nat /\ MaxReflections \in Nat /\ NewSkillCap \in Nat /\ Budget \in Nat
  /\ AgentDelays \subseteq Int /\ AgentMinutes \subseteq Int /\ ProbeCounts \subseteq Nat

VARIABLES
  plan,         \* the items of the current revision, or None without a plan
  used,         \* the numbers below it have been given to items
  reflections,  \* how many reflections have begun
  gaps,         \* the gap analysis of the submission
  trigger,      \* the struggle signal, its root cause and what was resolved for it
  rung,         \* whose draft is tried; "idle" between reflections
  round,        \* the round of the agent
  attempt,      \* its attempts at an answer in this round
  todo,         \* the operators of the draft still to apply, None before there is one
  work,         \* the copy of the plan's items they are applied to
  next,         \* the next number for an item of the copy
  outcome       \* how the last reflection ended

vars == <<plan, used, reflections, gaps, trigger, rung, round, attempt, todo, work,
          next, outcome>>
read == <<plan, used, reflections, gaps, trigger>>

-----------------------------------------------------------------------------
\* The hard rules of validate_plan: V1, V3, V4, V5 and V_DUP.  V2 is made a
\* no-op by the permissive candidate sets and sessions are not enforced.  V3's
\* clause for an unverified prerequisite adds nothing: a probe is an item.
MinutesOf(items) == MapThenSumSet(LAMBDA i : i.minutes, items)
InBudget(items) == MinutesOf(items) <= Budget
PrereqsFirst(items, g) ==
  \A i \in items : i.type \in Lessons =>
    \A p \in Prereqs[i.skill] :
      g[p].met \/ \E j \in items : j.skill = p /\ j.slot < i.slot
WithinReach(items, g) == \A i \in items : i.difficulty <= g[i.skill].level + 1
NewSkills(items, g) ==
  {s \in Skills : ~g[s].met /\ \E i \in items : i.skill = s /\ i.type \in Lessons}
Scheduled(items) == {i \in items : i.resource # None /\ i.type # "review"}
NoDuplicates(items) ==
  \A i, j \in Scheduled(items) :
    i.skill = j.skill /\ i.resource = j.resource /\ i.session = j.session => i = j
HardRules(items, g) ==
  /\ InBudget(items)
  /\ PrereqsFirst(items, g)
  /\ WithinReach(items, g)
  /\ Cardinality(NewSkills(items, g)) <= NewSkillCap
  /\ NoDuplicates(items)

-----------------------------------------------------------------------------
\* The operators.  An agent is not shown the items of the plan, so an item_id
\* it writes is "unknown" unless it is one a planner model chose (below).
Lowest(a, b) == IF a <= b THEN a ELSE b
SlotsOfSkill(items, s) == {i.slot : i \in {j \in items : j.skill = s}}

NewItem(n, type, skill, resource, minutes, slot) ==
  [n |-> n, type |-> type, skill |-> skill, resource |-> resource, session |-> 0,
   minutes |-> minutes, difficulty |-> 1, slot |-> slot, done |-> FALSE]

\* _insert_remediation: at the earliest slot of the skill, one item for each of
\* at most two resources, or one without a resource.
EarliestSlot(items, s) ==
  IF SlotsOfSkill(items, s) = {} THEN {1}
  ELSE {d \in SlotsOfSkill(items, s) : \A e \in SlotsOfSkill(items, s) : d <= e}
Listed(op) == IF op.resources = <<>> THEN <<None>> ELSE op.resources
Remediations(slot, n, op) ==
  {NewItem(n + k - 1, "review", op.skill, Listed(op)[k], op.minutes, slot) :
     k \in 1..Lowest(Len(Listed(op)), 2)}

\* _defer: every item of the skill, or named, that is not done; no further than
\* the last slot.
DeferMatches(i, op) == i.skill = op.skill \/ i.n \in op.items
DeferredWithDone(i, op) ==
  IF DeferMatches(i, op) THEN [i EXCEPT !.slot = Lowest(i.slot + op.delay, MaxSlot)] ELSE i
DeferredResources(i, op) ==
  IF DeferMatches(i, op) /\ ~i.done /\ i.type = "resource"
  THEN [i EXCEPT !.slot = Lowest(i.slot + op.delay, MaxSlot)] ELSE i
Deferred(i, op) ==
  IF DeferMatches(i, op) /\ ~i.done
  THEN [i EXCEPT !.slot = Lowest(i.slot + op.delay, MaxSlot)] ELSE i

\* _add_probe: after everything else, no further than the last slot.
CheckUpFront(items) == {1}
CheckSlot(items) ==
  IF items = {} THEN {Lowest(2, MaxSlot)}
  ELSE {Lowest(i.slot + 1, MaxSlot) : i \in {j \in items : \A k \in items : k.slot <= j.slot}}

\* _split_activity into two parts: everything but the day and the minutes is copied.
Others(items, m) == {i \in items : i.n # m}
Halves(i, n) ==
  LET half == IF i.minutes \div 2 >= 1 THEN i.minutes \div 2 ELSE 1
  IN  {[i EXCEPT !.n = n, !.minutes = half, !.slot = Lowest(i.slot, MaxSlot)],
       [i EXCEPT !.n = n + 1, !.minutes = half, !.slot = Lowest(i.slot + 1, MaxSlot)]}

Named(items, m) == {i \in items : i.n = m}

\* Whether apply_operators can apply it or raises OperatorError.
Applicable(items, op) ==
  CASE op.op = "DEFER" ->
         op.skill = None \/ op.items # {} \/ SlotsOfSkill(items, op.skill) # {}
    [] op.op \in {"REMOVE_DUPLICATE", "REPLACE_RESOURCE", "SPLIT_ACTIVITY"} ->
         Named(items, op.item) # {}
    [] OTHER -> TRUE

-----------------------------------------------------------------------------
\* What run_reflection works from.  A misconception may be rooted in any skill;
\* a missing prerequisite is an unmet hard prerequisite; excessive difficulty
\* needs all of them met.
Misconception(t) == t.class = "repeated_misconception"
Triggers(g) ==
  {t \in [class : Classes, skill : Skills, root : Skills, remedies : SUBSET Resources,
          probes : ProbeCounts] :
     CASE t.class = "missing_prerequisite" -> t.root \in Prereqs[t.skill] /\ ~g[t.root].met
       [] t.class = "excessive_difficulty" ->
            t.root = t.skill /\ \A p \in Prereqs[t.skill] : g[p].met
       [] t.class = "cognitive_overload" -> t.root = t.skill
       [] OTHER -> TRUE}

ProbeMinutes(t) == IF t.probes >= 1 THEN 3 * t.probes ELSE 3

Insert(skill, resources, minutes) ==
  [op |-> "INSERT_REMEDIATION", skill |-> skill, resources |-> resources, minutes |-> minutes]
Defer(skill, items, delay) ==
  [op |-> "DEFER", skill |-> skill, items |-> items, delay |-> delay]
Probe(skill, minutes) == [op |-> "ADD_PROBE", skill |-> skill, minutes |-> minutes]
Split(m) == [op |-> "SPLIT_ACTIVITY", item |-> m]

\* The longest pending lesson of the struggling skill (_pick_split_item).
SplitItems(items, s) ==
  LET able == {i \in items : i.skill = s /\ i.type \in Lessons /\ ~i.done}
  IN  {i.n : i \in {j \in able : \A k \in able : k.minutes <= j.minutes}}
OneOf(resources) == IF resources = {} THEN {<<>>} ELSE {<<a>> : a \in resources}
OrNothing(drafts) == IF drafts = {} THEN {<<>>} ELSE drafts

\* build_deterministic_draft and _minimal_misconception_draft: the operator
\* lists they may give (the first of several resources, or of several longest
\* items, is any of them).
DeterministicDrafts(items, t) ==
  CASE t.class \in {"repeated_misconception", "missing_prerequisite"} ->
         {(IF t.root # t.skill THEN <<Defer(t.skill, {}, 2)>> ELSE <<>>)
            \o <<Insert(t.root, rs, 20), Probe(t.root, ProbeMinutes(t))>> : rs \in OneOf(t.remedies)}
    [] t.class = "excessive_difficulty" ->
         {split \o <<Defer(t.skill, {}, 1)>>
            \o (IF t.probes > 0 THEN <<Probe(t.root, ProbeMinutes(t))>> ELSE <<>>) :
            split \in OrNothing({<<Split(m)>> : m \in SplitItems(items, t.skill)})}
    [] OTHER -> {<<Defer(t.skill, {}, 3)>>}
MinimalDrafts(t) ==
  {<<Insert(t.root, rs, 20), Probe(t.root, ProbeMinutes(t))>> : rs \in OneOf(t.remedies)}

\* The parser keeps an agent's draft to the two candidate skills, the candidate
\* resources and probe items; ids of plan items it does not check.  The ids of
\* the first revision of a plan may be ones a planner model chose and another
\* may hit upon; every later revision has fresh uuids.
AgentOps(items, t) ==
  LET names == {None} \cup (IF reflections = 1 THEN {i.n : i \in items} ELSE {})
      skills == {t.skill, t.root}
  IN  {Insert(s, rs, m) : s \in skills, rs \in UNION {[1..k -> t.remedies] : k \in 0..2}, m \in AgentMinutes}
      \cup {Defer(s, {}, d) : s \in skills, d \in AgentDelays}
      \cup {Defer(s, {m}, d) : s \in skills \cup {None}, m \in names, d \in AgentDelays}
      \cup {Probe(s, m) : s \in skills, m \in {3, ProbeMinutes(t)}}
      \cup {Split(m) : m \in names}
      \cup {[op |-> "REMOVE_DUPLICATE", item |-> m] : m \in names}
      \cup {[op |-> "REPLACE_RESOURCE", item |-> m, resource |-> a] :
              m \in names, a \in t.remedies}
AgentDrafts(items, t) == UNION {[1..k -> AgentOps(items, t)] : k \in 0..MaxOps}

\* The checks of validate_reflection before a draft is applied: the root cause
\* is the struggling skill or an ancestor, and what the policy cites is the
\* signal's own evidence, of which an overload has none.
Connected(t, root) == root = t.skill \/ root \in Ancestors[t.skill]
Cited(t) == t.class # "cognitive_overload"

-----------------------------------------------------------------------------
Items == IF plan = None THEN {} ELSE plan

Init ==
  /\ plan \in FirstPlans
  /\ used = FirstFree
  /\ reflections = 0
  /\ gaps = None /\ trigger = None
  /\ rung = "idle" /\ round = 0 /\ attempt = 0
  /\ todo = None /\ work = {} /\ next = 0
  /\ outcome = "none"

NoDraft == todo' = None /\ work' = {} /\ next' = 0
Ended(how) ==
  /\ rung' = "idle" /\ round' = 0 /\ attempt' = 0
  /\ gaps' = None /\ trigger' = None
  /\ outcome' = how
  /\ NoDraft

\* run_reflection up to the agent: a submission has confirmed a struggle.
Begin ==
  /\ rung = "idle"
  /\ reflections < MaxReflections
  /\ reflections' = reflections + 1
  /\ \E g \in GapReports : gaps' = g /\ \E t \in Triggers(g) : trigger' = t
  /\ rung' = "agent" /\ round' = 1 /\ attempt' = 1
  /\ outcome' = "none"
  /\ UNCHANGED <<plan, used, todo, work, next>>

\* A draft that passes the first checks is applied to a copy of the items.
Drafted(ops) ==
  /\ todo' = ops
  /\ work' = Items
  /\ next' = used
  /\ attempt' = 0
  /\ UNCHANGED <<read, rung, round, outcome>>

\* Where a rejected draft leads.  The plan needs attention when the last draft
\* is rejected; the outcome is then why.
NextRung ==
  CASE rung = "agent" /\ round < MaxRounds -> "agent"
    [] rung = "agent" /\ round >= MaxRounds -> "deterministic"
    [] rung = "deterministic" /\ Misconception(trigger) -> "minimal"
    [] OTHER -> "idle"
RetriedForever == 1
RoundAfter == round + 1
ToRung(next_rung) ==
  /\ rung' = next_rung
  /\ round' = IF next_rung = "agent" THEN RoundAfter ELSE round
  /\ attempt' = IF next_rung = "agent" THEN 1 ELSE 0
  /\ NoDraft
  /\ UNCHANGED <<read, outcome>>
Rejected(why) ==
  IF NextRung = "idle"
  THEN Ended(why) /\ UNCHANGED <<plan, used, reflections>>
  ELSE ToRung(NextRung)

Drafting == rung # "idle" /\ todo = None

\* ReflectionAgent.run: the gateway degraded, or its answers cannot be parsed.
AgentDegrades ==
  /\ Drafting /\ rung = "agent"
  /\ ToRung("deterministic")
AgentUnparsable ==
  /\ Drafting /\ rung = "agent"
  /\ IF attempt < MaxRounds
     THEN /\ attempt' = attempt + 1
          /\ UNCHANGED <<read, rung, round, todo, work, next, outcome>>
     ELSE ToRung("deterministic")

\* An answer that can be parsed: it names a candidate root cause, and its class
\* and evidence may or may not agree with the signal's.
AgentAnswers ==
  /\ Drafting /\ rung = "agent"
  /\ \E root \in {trigger.skill, trigger.root}, agrees \in BOOLEAN, ops \in AgentDrafts(Items, trigger) :
       IF agrees /\ Connected(trigger, root) THEN Drafted(ops) ELSE Rejected("draft")

\* The deterministic draft, and the minimal one.
PolicyAnswers ==
  /\ Drafting
  /\ \E ops \in CASE rung = "deterministic" -> DeterministicDrafts(Items, trigger)
                  [] rung = "minimal" -> MinimalDrafts(trigger)
                  [] OTHER -> {} :
       IF Cited(trigger) /\ Connected(trigger, trigger.root) THEN Drafted(ops) ELSE Rejected("draft")

-----------------------------------------------------------------------------
\* apply_operators, one operator a step.
Applying(name) ==
  /\ todo \notin {None, <<>>}
  /\ Head(todo).op = name
  /\ Applicable(work, Head(todo))
Applied(items, numbers) ==
  /\ work' = items
  /\ next' = next + numbers
  /\ todo' = Tail(todo)
  /\ UNCHANGED <<read, rung, round, attempt, outcome>>

InsertRemediation ==
  /\ Applying("INSERT_REMEDIATION")
  /\ \E slot \in EarliestSlot(work, Head(todo).skill) :
       Applied(work \cup Remediations(slot, next, Head(todo)), 2)
DeferItems ==
  /\ Applying("DEFER")
  /\ Applied({Deferred(i, Head(todo)) : i \in work}, 0)
RemoveDuplicate ==
  /\ Applying("REMOVE_DUPLICATE")
  /\ Applied(Others(work, Head(todo).item), 0)
ReplaceResource ==
  /\ Applying("REPLACE_RESOURCE")
  /\ Applied({IF i.n = Head(todo).item THEN [i EXCEPT !.resource = Head(todo).resource] ELSE i :
                i \in work}, 0)
AddProbe ==
  /\ Applying("ADD_PROBE")
  /\ \E slot \in CheckSlot(work) :
       Applied(work \cup {NewItem(next, "probe", Head(todo).skill, None, Head(todo).minutes, slot)}, 1)
SplitActivity ==
  /\ Applying("SPLIT_ACTIVITY")
  /\ Applied(Others(work, Head(todo).item)
               \cup UNION {Halves(i, next) : i \in Named(work, Head(todo).item)}, 2)
OperatorFails ==
  /\ todo \notin {None, <<>>}
  /\ ~Applicable(work, Head(todo))
  /\ Rejected("operators")

\* All operators applied: the plan validator decides.  The new revision is
\* written only if the learner has a plan.
AdmissibleOrMinimal(items) == rung = "minimal" \/ HardRules(items, gaps)
Admissible(items) == HardRules(items, gaps)
Approve ==
  /\ todo = <<>>
  /\ Admissible(work)
  /\ plan' = IF plan = None THEN None ELSE work
  /\ used' = next
  /\ Ended("applied")
  /\ UNCHANGED reflections
RejectPlan ==
  /\ todo = <<>>
  /\ ~Admissible(work)
  /\ Rejected("rules")

\* An exception rolls the whole submission back: a failing query, or a number
\* in an agent's operator that is none.
Abort ==
  /\ rung # "idle"
  /\ Ended("aborted")
  /\ UNCHANGED <<plan, used, reflections>>

\* update_plan_item between reflections (before the last of them, to be bounded).
Mark ==
  /\ rung = "idle" /\ plan # None
  /\ reflections < MaxReflections
  /\ \E i \in plan : plan' = (plan \ {i}) \cup {[i EXCEPT !.done = ~i.done]}
  /\ UNCHANGED <<used, reflections, gaps, trigger, rung, round, attempt, todo, work, next, outcome>>

\* The steps a reflection takes by itself.
Climb ==
  \/ AgentDegrades \/ AgentUnparsable \/ AgentAnswers \/ PolicyAnswers
  \/ InsertRemediation \/ DeferItems \/ RemoveDuplicate \/ ReplaceResource
  \/ AddProbe \/ SplitActivity \/ OperatorFails
  \/ Approve \/ RejectPlan

Next == Begin \/ Climb \/ Abort \/ Mark

Spec == Init /\ [][Next]_vars
\* Every await of run_reflection returns: calls of the LLM have a time-out.
FairSpec == Spec /\ WF_vars(Climb)

-----------------------------------------------------------------------------
Fresh(items) == \A i, j \in items : i.n = j.n => i = j
NumberedBelow(items, n) == \A i \in items : i.n < n

Op ==
  [op : {"INSERT_REMEDIATION"}, skill : Skills, resources : Seq(Resources), minutes : Int]
    \cup [op : {"DEFER"}, skill : Skills \cup {None}, items : SUBSET (Nat \cup {None}), delay : Int]
    \cup [op : {"ADD_PROBE"}, skill : Skills, minutes : Int]
    \cup [op : {"SPLIT_ACTIVITY", "REMOVE_DUPLICATE"}, item : Nat \cup {None}]
    \cup [op : {"REPLACE_RESOURCE"}, item : Nat \cup {None}, resource : Resources]

Complaints == {"draft", "operators", "rules"}

TypeOK ==
  /\ plan \in (SUBSET Item) \cup {None}
  /\ used \in Nat /\ next \in Nat /\ reflections \in 0..MaxReflections
  /\ gaps \in GapReports \cup {None}
  /\ rung \in {"idle", "agent", "deterministic", "minimal"}
  /\ round \in 0..MaxRounds /\ attempt \in 0..MaxRounds
  /\ work \in SUBSET Item
  /\ outcome \in {"none", "applied", "aborted"} \cup Complaints
  /\ rung = "idle" => todo = None
  /\ rung # "idle" => /\ gaps # None /\ trigger \in Triggers(gaps)
                      /\ todo = None \/ todo \in Seq(Op)

\* The items of a plan, and of the copy, are told apart by their numbers.
Numbered ==
  /\ Fresh(Items) /\ NumberedBelow(Items, used)
  /\ Fresh(work) /\ NumberedBelow(work, next)
  /\ todo # None => used <= next

\* For every item there is one of the same kind, skill, resource and session.
Same(i, j) ==
  /\ i.type = j.type /\ i.skill = j.skill
  /\ i.resource = j.resource /\ i.session = j.session
Kept(items, others) == \A i \in items : \E j \in others : Same(i, j)

\* What the policy may do: no removal, no replacement, no split of a finished item,
\* and a deferral is of a whole skill and to a later day.
PolicyOps(items) ==
  {op \in Op :
     /\ op.op \in {"INSERT_REMEDIATION", "DEFER", "ADD_PROBE", "SPLIT_ACTIVITY"}
     /\ op.op = "DEFER" => op.items = {} /\ op.delay \in Nat
     /\ op.op = "SPLIT_ACTIVITY" => \A i \in items : i.n = op.item => ~i.done}

ByPolicy == rung \in {"deterministic", "minimal"}

\* The policy's draft spares what is done and drops nothing.
FinishedSpared ==
  ByPolicy /\ todo # None =>
    /\ \A i \in Items : i.done => i \in work
    /\ Kept(Items, work)
    /\ todo \in Seq(PolicyOps(Items))

Inv == TypeOK /\ Numbered /\ FinishedSpared

\* An item that was within the week stays in it and on its day or a later one, and
\* open items of a skill stay in their order.
DelayedInOrder(items, others) ==
  \A i, j \in items : \A i2, j2 \in others :
    i.n = i2.n /\ j.n = j2.n /\ i.slot <= MaxSlot /\ j.slot <= MaxSlot =>
      /\ i.slot <= i2.slot /\ i2.slot <= MaxSlot
      /\ i.skill = j.skill /\ ~i.done /\ ~j.done /\ i.slot <= j.slot => i2.slot <= j2.slot

\* The half-applied draft of the policy has only delayed what it has kept.
Carried(items, others) ==
  /\ DelayedInOrder(items, others)
  /\ \A i \in items : \A j \in others : i.n = j.n => i.skill = j.skill /\ i.done = j.done
DelayedSoFar == ByPolicy /\ todo # None => Carried(Items, work)

\* The new items of the root cause, and where the earliest of it that is planned
\* is: nothing keeps a planner model from putting all of them beyond the week.
Remediation(a) == a.n >= used /\ a.type = "review" /\ a.skill = trigger.root
Check(b) == b.n >= used /\ b.type = "probe" /\ b.skill = trigger.root
RootWithinWeek == \A slot \in EarliestSlot(Items, trigger.root) : slot <= MaxSlot
OfRoot(items) == {i \in items : i.skill = trigger.root}
RemediatesFirst == trigger.class \in {"repeated_misconception", "missing_prerequisite"}

\* A draft that remediates: first the struggling skill is deferred, unless it is
\* the root cause itself, then the root cause is remediated, then it is checked.
Inserts(op) == op.op = "INSERT_REMEDIATION" /\ op.skill = trigger.root
Probes(op) == op.op = "ADD_PROBE" /\ op.skill = trigger.root
ToDefer ==
  /\ Len(todo) = 3 /\ Inserts(todo[2]) /\ Probes(todo[3])
  /\ todo[1].op = "DEFER" /\ todo[1].items = {} /\ todo[1].skill # trigger.root
  /\ work = Items
ToInsert ==
  /\ Len(todo) = 2 /\ Inserts(todo[1]) /\ Probes(todo[2])
  /\ OfRoot(work) = OfRoot(Items)
ToCheck ==
  /\ Len(todo) = 1 /\ Probes(todo[1])
  /\ \E a \in work : Remediation(a) /\ (RootWithinWeek => a.slot <= MaxSlot)
Checked ==
  /\ todo = <<>>
  /\ \E a, b \in work : Remediation(a) /\ Check(b) /\ (RootWithinWeek => a.slot <= b.slot)
RemedyInOrder ==
  ByPolicy /\ RemediatesFirst /\ todo # None => ToDefer \/ ToInsert \/ ToCheck \/ Checked

OrderInv == Inv /\ DelayedSoFar /\ RemedyInOrder

-----------------------------------------------------------------------------
Approving == outcome # "applied" /\ outcome' = "applied" /\ plan # None

\* Whoever drafted it, the plan a reflection leaves obeys every hard rule, under
\* the gap analysis of the submission that caused it.
AppliedObeysRules == [][Approving => HardRules(plan', gaps)]_vars

\* A reflection of the policy leaves finished items exactly as they were, and
\* nothing the learner was to do disappears from the plan: for every item there
\* is one of the same kind, skill, resource and session.
PolicyLosesNoWork ==
  [][Approving /\ ByPolicy => /\ \A i \in plan : i.done => i \in plan'
                             /\ Kept(plan, plan')]_vars

\* The policy never moves an item to an earlier day or out of the week, and keeps
\* the order in which the open items of a skill are studied: sessions are not
\* checked again when a reflection is validated.  (A planner model may have put an
\* item beyond the week: the cap then brings it back.)
PolicyDelaysInOrder ==
  [][Approving /\ ByPolicy => DelayedInOrder(plan, plan')]_vars

\* A reflection of the policy on a misconception or a missing prerequisite leaves
\* a new remediation of the root cause, and a new check no earlier than it unless
\* all that was planned for the root cause is beyond the week.
CheckFollowsRemediation ==
  [][Approving /\ ByPolicy /\ RemediatesFirst =>
       \E a, b \in plan' :
         Remediation(a) /\ Check(b) /\ (RootWithinWeek => a.slot <= b.slot)]_vars

\* Every reflection ends, whatever the agent answers: rounds, answers and rungs
\* are bounded together.
EveryReflectionEnds == rung # "idle" ~> rung = "idle"
=============================================================================
