------------------------------ MODULE PlanFill -------------------------------
(***************************************************************************)
(* The deterministic half of planning: the sessions a resource divides     *)
(* into (src/backend/app/planning/sessions.py), the top-up of a plan with  *)
(* the next sessions of its own objectives (fill.py, extend_plan) and the  *)
(* fallback planner (fallback.py, build_fallback_plan).  Both loops are    *)
(* functions of the number of objectives or turns they have gone through;  *)
(* CHOOSE next \in {F(x) : x \in {y}} : TRUE is F(y), and has TLC find y    *)
(* once, not at each use of x.                                             *)
(*                                                                         *)
(* PlaceDayFromMonday and FitsSoFar are mutants of the definitions that    *)
(* follow them.                                                            *)
(***************************************************************************)
EXTENDS PlanRules

(* core/thresholds.py *)
PROBE_ITEM_COUNT == 3
PROBE_ITEM_MINUTES_PER_ITEM == 3
PRACTICE_ITEM_MINUTES_PER_ITEM == 5
PRACTICE_ITEMS_PER_LESSON == 2
PLAN_MAX_RESOURCES_PER_OBJECTIVE == 3
NumDays == 5

Least(a, b) == IF a <= b THEN a ELSE b
CeilDiv(a, b) == (a + b - 1) \div b

(* A plan is filled up to 80 % of the budget, spread evenly over the days. *)
OverTarget(minutes, budget) == 5 * minutes > 4 * budget
AtTarget(minutes, budget) == 5 * minutes >= 4 * budget
DayCap(budget) == Max({1, CeilDiv(4 * budget, 5 * NumDays)})

(* The lengths of the sessions of a resource, as even as can be and none   *)
(* longer than the learner's cap.                                          *)
SegmentDurations(duration, cap) ==
  LET n == CeilDiv(duration, cap)
  IN  [k \in 1..n |-> duration \div n + (IF k <= duration % n THEN 1 ELSE 0)]

(* The sessions of resource r that are not yet done.                       *)
SessionizeResource(r, duration, cap, done) ==
  LET segment == SegmentDurations(duration, cap)
      all == [k \in DOMAIN segment |-> [res |-> r, index |-> k, est |-> segment[k]]]
  IN  ElementsAt(all, {k \in DOMAIN all : <<r, k>> \notin done})

DifficultyFor(cs) == Max({1, Least(cs.target, cs.current + 1)})

PlaceDayFromMonday(items, budget, notBefore) ==
  Min({d \in 1..NumDays : Minutes(SelectSeq(items, LAMBDA i : i.day = d))
                             < DayCap(budget)} \cup {NumDays})

(* DayPlanner: the first day from notBefore on that is not yet full, the   *)
(* last day when all are.                                                  *)
DayLoad(items, day) == Minutes(SelectSeq(items, LAMBDA i : i.day = day))
PlaceDay(items, budget, notBefore) ==
  LET start == Least(Max({1, notBefore}), NumDays)
      open  == {d \in start..NumDays : DayLoad(items, d) < DayCap(budget)}
  IN  Min(open \cup {NumDays})

SessionItem(s, cs, session, day, dep) ==
  [type |-> "resource", skill |-> s, res |-> session.res, index |-> session.index,
   bank |-> 0, est |-> session.est, difficulty |-> DifficultyFor(cs),
   day |-> day, dep |-> dep]

(* The positions of the study items of an objective, and the last of them  *)
(* by day, then index, then position.                                      *)
StudyItems(items, s) ==
  {n \in DOMAIN items : /\ items[n].skill = s
                        /\ items[n].type = "resource"
                        /\ items[n].res # NoResource}
LaterStudy(items, m, n) ==
  \/ items[m].day > items[n].day
  \/ items[m].day = items[n].day /\ items[m].index > items[n].index
  \/ items[m].day = items[n].day /\ items[m].index = items[n].index /\ m >= n
LastStudy(items, s) ==
  CHOOSE m \in StudyItems(items, s) :
    \A n \in StudyItems(items, s) : LaterStudy(items, m, n)

StudyOf(items, s, r) == {n \in StudyItems(items, s) : items[n].res = r}

(* By their positions in the ranking: the resources an objective has       *)
(* started, and those it may start, unless another objective uses them.    *)
Started(items, s, cs) ==
  {k \in DOMAIN cs.resources : StudyOf(items, s, cs.resources[k].id) # {}}
Startable(items, s, cs) ==
  LET mine      == {n \in DOMAIN items : items[n].skill = s}
      elsewhere == {items[n].res : n \in DOMAIN items} \ {items[n].res : n \in mine}
      started   == Started(items, s, cs)
      fresh     == {k \in DOMAIN cs.resources \ started : cs.resources[k].id \notin elsewhere}
  IN  {k \in fresh : Cardinality(started) + Cardinality({j \in fresh : j < k})
                        < PLAN_MAX_RESOURCES_PER_OBJECTIVE}

(* When a resource has its turn: those started first, as they were started.*)
StudyTurn(items, s, cs, k) ==
  IF k \in Started(items, s, cs) THEN Min(StudyOf(items, s, cs.resources[k].id))
  ELSE Len(items) + k

(* The sessions an objective may still add, <<resource, session>> by their *)
(* positions, and their order.                                             *)
Scheduled(items, x) == \E n \in DOMAIN items : items[n].res = x.res /\ items[n].index = x.index
SessionsLeft(items, s, cs) ==
  UNION {{<<k, n>> : n \in {m \in DOMAIN cs.resources[k].sessions :
                               ~Scheduled(items, cs.resources[k].sessions[m])}} :
           k \in Started(items, s, cs) \cup Startable(items, s, cs)}
StudiedBefore(items, s, cs) ==
  {xy \in SessionsLeft(items, s, cs) \X SessionsLeft(items, s, cs) :
     \/ StudyTurn(items, s, cs, xy[1][1]) < StudyTurn(items, s, cs, xy[2][1])
     \/ xy[1][1] = xy[2][1] /\ xy[1][2] < xy[2][2]}
ChainQueue(items, s, cs) ==
  LET order == Arranged(SessionsLeft(items, s, cs), StudiedBefore(items, s, cs))
  IN  [m \in DOMAIN order |-> cs.resources[order[m][1]].sessions[order[m][2]]]

(* One turn of an objective: its next session, unless that would pass the  *)
(* target, which ends its chain.                                           *)
TopUpTurn(st, s, cands, budget) ==
  LET next == st.queue[s][st.taken[s] + 1]
      prev == st.last[s]
      day  == PlaceDay(st.items, budget, st.items[prev].day)
  IN  IF \/ AtTarget(Minutes(st.items), budget)
         \/ s \in st.exhausted
         \/ st.taken[s] = Len(st.queue[s])
      THEN st
      ELSE IF OverTarget(Minutes(st.items) + next.est, budget)
      THEN [st EXCEPT !.exhausted = @ \cup {s}]
      ELSE [st EXCEPT !.items = Append(@, SessionItem(s, cands[s], next, day, prev)),
                      !.taken[s] = @ + 1,
                      !.last[s] = Len(st.items) + 1]

(* Rounds over the objectives, one turn each.                              *)
TopUpTurns(start, rounds, order, cands, budget) ==
  LET after[n \in 0..rounds * Len(order)] ==
        IF n = 0 THEN start
        ELSE CHOOSE next \in {TopUpTurn(st, order[((n - 1) % Len(order)) + 1], cands, budget) :
                                st \in {after[n - 1]}} : TRUE
  IN  after[rounds * Len(order)]

(* The plan with its top-up appended: rounds over the objectives that      *)
(* study something, by priority, until no chain can go on.  Every queue is *)
(* fixed before the first round.                                           *)
Chains(items, cands) == {s \in DOMAIN cands : StudyItems(items, s) # {}}
ChainsInOrder(items, cands) ==
  Arranged(Chains(items, cands),
    {ab \in Chains(items, cands) \X Chains(items, cands) :
       \/ cands[ab[1]].priority > cands[ab[2]].priority
       \/ /\ cands[ab[1]].priority = cands[ab[2]].priority
          /\ Alphabet[ab[1]] < Alphabet[ab[2]]})
ExtendPlan(items, cands, budget) ==
  LET chains == Chains(items, cands)
      rounds == Max({0} \cup {Cardinality(SessionsLeft(items, s, cands[s])) : s \in chains})
      start  == [items |-> items, taken |-> [s \in chains |-> 0], exhausted |-> {},
                 queue |-> [s \in chains |-> ChainQueue(items, s, cands[s])],
                 last  |-> [s \in chains |-> LastStudy(items, s)]]
  IN  TopUpTurns(start, rounds, ChainsInOrder(items, cands), cands, budget).items

(* The fallback planner's order: priority, then topological layer, then    *)
(* the order of the objectives.                                            *)
Frontier(cands) ==
  Arranged(DOMAIN cands,
    {ab \in (DOMAIN cands) \X (DOMAIN cands) :
       \/ cands[ab[1]].priority > cands[ab[2]].priority
       \/ /\ cands[ab[1]].priority = cands[ab[2]].priority
          /\ \/ cands[ab[1]].layer < cands[ab[2]].layer
             \/ /\ cands[ab[1]].layer = cands[ab[2]].layer
                /\ Alphabet[ab[1]] < Alphabet[ab[2]]})

FitsSoFar(items, est, budget) == Minutes(items) <= budget
Fits(items, est, budget) == Minutes(items) + est <= budget

(* Practice shares the day of its lesson and does not count towards the    *)
(* load of a day while the frontier is walked.                             *)
FrontierDay(items, budget) ==
  PlaceDay(SelectSeq(items, LAMBDA i : i.type # "practice"), budget, 1)

ScheduleProbe(items, s, cs, budget) ==
  LET count == Least(cs.bank, PROBE_ITEM_COUNT)
      est   == PROBE_ITEM_MINUTES_PER_ITEM * count
  IN  IF count = 0 \/ ~Fits(items, est, budget)
      THEN items
      ELSE Append(items, [type |-> "probe", skill |-> s, res |-> NoResource,
             index |-> 0, bank |-> count, est |-> est, difficulty |-> 1,
             day |-> FrontierDay(items, budget), dep |-> 0])

(* The first session of the best resource no other objective took, and its *)
(* practice.                                                               *)
ScheduleLesson(items, s, cs, budget, newSkillCap) ==
  LET studied == {n \in DOMAIN items : items[n].type = "resource"}
      used    == {items[n].res : n \in studied}
      free    == {k \in DOMAIN cs.resources : cs.resources[k].id \notin used}
      session == cs.resources[Min(free)].sessions[1]
      count   == Least(cs.bank, PRACTICE_ITEMS_PER_LESSON)
      minutes == PRACTICE_ITEM_MINUTES_PER_ITEM * count
      lesson  == SessionItem(s, cs, session, FrontierDay(items, budget), 0)
      practice == [lesson EXCEPT !.type = "practice", !.res = NoResource, !.index = 0,
                     !.bank = count, !.est = minutes, !.dep = Len(items) + 1]
  IN  IF \/ Cardinality({items[n].skill : n \in studied}) >= newSkillCap
         \/ free = {}
         \/ ~Fits(items, session.est + minutes, budget)
      THEN items
      ELSE IF count = 0 THEN Append(items, lesson)
      ELSE Append(Append(items, lesson), practice)

(* Practice moves behind the last study session of its objective.          *)
PracticeAfterStudy(items) ==
  [n \in DOMAIN items |->
     LET last == LastStudy(items, items[n].skill) IN
       IF items[n].type = "practice" /\ StudyItems(items, items[n].skill) # {}
       THEN [items[n] EXCEPT !.day = items[last].day, !.dep = last]
       ELSE items[n]]

(* The objectives one after another, each given what still fits.           *)
Schedule(items, s, cs, budget, newSkillCap) ==
  IF cs.kind = "probe" THEN ScheduleProbe(items, s, cs, budget)
  ELSE ScheduleLesson(items, s, cs, budget, newSkillCap)
Breadth(frontier, cands, budget, newSkillCap) ==
  LET walk[n \in 0..Len(frontier)] ==
        IF n = 0 THEN <<>>
        ELSE CHOOSE next \in {Schedule(items, frontier[n], cands[frontier[n]], budget, newSkillCap) :
                                items \in {walk[n - 1]}} : TRUE
  IN  walk[Len(frontier)]

BuildFallbackPlan(cands, budget, newSkillCap) ==
  LET breadth  == Breadth(Frontier(cands), cands, budget, newSkillCap)
      extended == {ExtendPlan(items, cands, budget) : items \in {breadth}}
  IN  CHOOSE plan \in {PracticeAfterStudy(items) : items \in extended} : TRUE
==============================================================================
