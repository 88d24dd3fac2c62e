---------------------------- MODULE PlanningGraph ----------------------------
(***************************************************************************)
(* One run of G2, the Planning graph (src/backend/app/orchestration/       *)
(* graphs.py, build_planning_graph), with the Planner Agent (agents/       *)
(* planner.py) and the LLM gateway (gateway/llm_gateway.py) it calls:      *)
(*                                                                         *)
(*   build_objectives -> retrieve_candidates -> plan_draft -> validate_plan*)
(*     validate_plan -> end            a draft of the model passed         *)
(*                   -> plan_draft     it did not, one more attempt        *)
(*                   -> fallback_plan  no attempt left, or no model        *)
(*                                                                         *)
(* or, from plan_draft or validate_plan, an exception nothing catches.     *)
(*                                                                         *)
(* plan_draft asks the gateway up to three times for an answer that parses;*)
(* a question is answered from the replay store, by the provider after at  *)
(* most three calls, or not at all.  The catalog, the retriever, the       *)
(* replay store and the provider are external: what they return is a free  *)
(* choice within what the code lets through.  What the run produces is     *)
(* committed by PlanHistory.                                               *)
(*                                                                         *)
(* AnswerRejectedUncounted and KeepUnchecked are mutants of the definitions*)
(* that follow them.                                                       *)
(***************************************************************************)
EXTENDS PlanFill

CONSTANTS
  Targets,           \* per skill, the sequences of resources the retriever may rank
  Duration,          \* the minutes of a resource
  Bank,              \* how many items the bank holds for a probe and for practice of a skill
  Learners,          \* the learners considered
  Budgets,           \* the effective weekly budgets considered, in minutes
  NewSkillCaps,      \* the caps on new skills considered
  SessionCaps,       \* the session lengths considered
  DoneSets,          \* the sets of sessions <<resource, index>> done in earlier weeks
  Gateways,          \* the settings of the gateway considered
  DraftItem(_),      \* the items the model may propose, given the candidates
  MaxDraftItems      \* the longest draft considered

ASSUME PlanningAssumption ==
  /\ Learners \subseteq Learner
  /\ Targets \in [Skill -> SUBSET Seq(Resource)]
  /\ \A s \in Skill : \A ranking \in Targets[s] : IsInjective(ranking)
  /\ Duration \in [Resource -> Nat]
  /\ Bank \in [Skill -> [probe : Nat, practice : Nat]]
  /\ Budgets \subseteq Nat
  /\ NewSkillCaps \subseteq Nat
  /\ SessionCaps \subseteq Nat \ {0}
  /\ DoneSets \subseteq SUBSET (Resource \X Nat)
  /\ Gateways \subseteq [provider : BOOLEAN, replayMode : BOOLEAN]
  /\ MaxDraftItems \in Nat

(* core/thresholds.py, agents/planner.py, gateway/llm_gateway.py           *)
PLANNER_MAX_DRAFT_ATTEMPTS == 2
AgentMaxRetries == 2
GatewayMaxRetries == 2

VARIABLES
  node,        \* where the run is
  request,   \* what it was started with
  gaps,      \* gap_result
  cands,     \* candidate_sets
  attempts,  \* counters["planner_attempts"]
  answers,   \* the answers of this attempt that did not parse
  calls,     \* the failed provider calls of this question
  draft,     \* draft_plan_items_raw and draft_degraded
  final      \* final_items and final_degraded

planningVars == <<node, request, gaps, cands, attempts, answers, calls, draft, final>>

NoPlan == [items |-> <<>>, degraded |-> FALSE]
NoModel == [items |-> <<>>, degraded |-> TRUE]
NoGaps == [objectives |-> <<>>]
NoCandidates == <<>>

Valid(items) ==
  ValidatePlan(items, cands, gaps, request.budget, request.newSkillCap)

(* The run starts with a learner, a budget, the settings of the gateway    *)
(* (is there a provider, does it replay first) and what is already done.   *)
PlanningInit ==
  /\ node = "build_objectives"
  /\ request \in [learner : Learners, budget : Budgets, newSkillCap : NewSkillCaps,
                  sessionCap : SessionCaps, done : DoneSets, gateway : Gateways]
  /\ gaps = NoGaps
  /\ cands = NoCandidates
  /\ attempts = 0
  /\ answers = 0
  /\ calls = 0
  /\ draft = NoPlan
  /\ final = NoPlan

BuildObjectives ==
  /\ node = "build_objectives"
  /\ gaps' = AnalyzeGaps(request.learner)
  /\ node' = "retrieve_candidates"
  /\ UNCHANGED <<request, cands, attempts, answers, calls, draft, final>>

(* The candidate set of an objective, for one ranking of its resources.  A *)
(* probe gets no resource; a resource with nothing left to study is        *)
(* dropped.                                                                *)
CandidateSet(s, ranked) ==
  LET o == gaps.objectives[s]
      all == [n \in DOMAIN ranked |-> [id |-> ranked[n],
                sessions |-> SessionizeResource(ranked[n], Duration[ranked[n]],
                               request.sessionCap, request.done)]]
  IN  [kind      |-> o.kind,
       target    |-> o.target,
       current   |-> gaps.level[s],
       priority  |-> o.priority,
       layer     |-> o.layer,
       resources |-> IF o.kind = "probe" THEN <<>>
                     ELSE ElementsAt(all, {n \in DOMAIN all : all[n].sessions # <<>>}),
       bank      |-> IF o.kind = "probe" THEN Least(Bank[s].probe, PROBE_ITEM_COUNT)
                     ELSE Bank[s].practice]

Rankings == [Skill -> UNION {Targets[s] : s \in Skill}]

RetrieveCandidates ==
  /\ node = "retrieve_candidates"
  /\ \E ranked \in {f \in Rankings : \A s \in Skill : f[s] \in Targets[s]} :
       cands' = [s \in DOMAIN gaps.objectives |-> CandidateSet(s, ranked[s])]
  /\ node' = "plan_draft"
  /\ UNCHANGED <<request, gaps, attempts, answers, calls, draft, final>>

(* Where a question to the gateway starts: LLMGateway.complete.            *)
Question == IF request.gateway.replayMode THEN "replay" ELSE "live"

(* With nothing to plan from the agent answers without asking.             *)
PlanDraft ==
  /\ node = "plan_draft"
  /\ attempts' = attempts + 1
  /\ node' = IF DOMAIN cands = {} THEN "validate_plan" ELSE Question
  /\ UNCHANGED <<request, gaps, cands, answers, calls, draft, final>>

(* No answer: the attempt is degraded, whatever came before.               *)
NoAnswer ==
  /\ draft' = NoModel
  /\ answers' = 0
  /\ calls' = 0
  /\ node' = "validate_plan"
  /\ UNCHANGED <<request, gaps, cands, attempts, final>>

(* An answer is recorded for exactly this prompt.                          *)
ReplayHit ==
  /\ node = "replay"
  /\ node' = "answer"
  /\ UNCHANGED <<request, gaps, cands, attempts, answers, calls, draft, final>>

(* None is: in replay mode the provider is asked next, otherwise it has    *)
(* been asked already.                                                     *)
ReplayMissBeforeLive ==
  /\ node = "replay"
  /\ request.gateway.replayMode
  /\ node' = "live"
  /\ UNCHANGED <<request, gaps, cands, attempts, answers, calls, draft, final>>

ReplayMissAfterLive ==
  /\ node = "replay"
  /\ ~request.gateway.replayMode
  /\ NoAnswer

LiveAnswer ==
  /\ node = "live"
  /\ request.gateway.provider
  /\ calls' = 0
  /\ node' = "answer"
  /\ UNCHANGED <<request, gaps, cands, attempts, answers, draft, final>>

(* A timeout or a retryable error, with a call left.                       *)
LiveRetry ==
  /\ node = "live"
  /\ request.gateway.provider
  /\ calls < GatewayMaxRetries
  /\ calls' = calls + 1
  /\ UNCHANGED <<node, request, gaps, cands, attempts, answers, draft, final>>

(* No provider, no call left, or an error that is not worth a retry.       *)
LiveFails ==
  /\ node = "live"
  /\ IF request.gateway.replayMode
     THEN NoAnswer
     ELSE /\ node' = "replay"
          /\ calls' = 0
          /\ UNCHANGED <<request, gaps, cands, attempts, answers, draft, final>>

AnswerRejectedUncounted ==
  /\ node = "answer"
  /\ node' = Question
  /\ UNCHANGED <<request, gaps, cands, attempts, answers, calls, draft, final>>

(* The answer does not parse, or names an id that is not among the         *)
(* candidates: it is asked for again with the error, three times in all.   *)
AnswerRejected ==
  /\ node = "answer"
  /\ IF answers < AgentMaxRetries
     THEN /\ answers' = answers + 1
          /\ node' = Question
          /\ UNCHANGED <<request, gaps, cands, attempts, calls, draft, final>>
     ELSE NoAnswer

AnswerParsed ==
  /\ node = "answer"
  /\ \E items \in BoundedSeq({i \in DraftItem(cands) : i \in PlanItem}, MaxDraftItems) :
       draft' = [items |-> items, degraded |-> FALSE]
  /\ answers' = 0
  /\ node' = "validate_plan"
  /\ UNCHANGED <<request, gaps, cands, attempts, calls, final>>

(* The answer is JSON of the expected shape with a value of another type.  *)
(* Where an id is looked up, a list or an object cannot be hashed, and the *)
(* parser raises what the agent does not catch; an item_id, a practice item*)
(* or a dependency that is not a string passes the parser, and PlanItem    *)
(* refuses it at the start of validate_plan.  No node of the graph and no  *)
(* caller catches either: the run is over.                                 *)
AnswerRaises ==
  /\ node = "answer"
  /\ node' = "raised"
  /\ UNCHANGED <<request, gaps, cands, attempts, answers, calls, draft, final>>

KeepUnchecked(extended, items) == extended

(* A draft that passed is topped up, and the top-up is kept if the whole   *)
(* still passes.                                                           *)
KeepIfValid(extended, items) == IF Valid(extended) THEN extended ELSE items

AcceptDraft ==
  /\ node = "validate_plan"
  /\ ~draft.degraded
  /\ Valid(draft.items)
  /\ \E extended \in {ExtendPlan(draft.items, cands, request.budget)} :
       final' = [items |-> KeepIfValid(extended, draft.items), degraded |-> FALSE]
  /\ node' = "end"
  /\ UNCHANGED <<request, gaps, cands, attempts, answers, calls, draft>>

(* route_after_validate.  A rejected draft is not read again.              *)
RejectDraft ==
  /\ node = "validate_plan"
  /\ draft.degraded \/ ~Valid(draft.items)
  /\ node' = IF draft.degraded \/ attempts >= PLANNER_MAX_DRAFT_ATTEMPTS
           THEN "fallback_plan" ELSE "plan_draft"
  /\ draft' = NoPlan
  /\ UNCHANGED <<request, gaps, cands, attempts, answers, calls, final>>

(* The fallback plan is final: nothing validates it.                       *)
FallbackPlan ==
  /\ node = "fallback_plan"
  /\ final' = [items |-> BuildFallbackPlan(cands, request.budget, request.newSkillCap),
               degraded |-> TRUE]
  /\ node' = "end"
  /\ UNCHANGED <<request, gaps, cands, attempts, answers, calls, draft>>

PlanningNext ==
  \/ BuildObjectives
  \/ RetrieveCandidates
  \/ PlanDraft
  \/ ReplayHit
  \/ ReplayMissBeforeLive
  \/ ReplayMissAfterLive
  \/ LiveAnswer
  \/ LiveRetry
  \/ LiveFails
  \/ AnswerRejected
  \/ AnswerParsed
  \/ AnswerRaises
  \/ AcceptDraft
  \/ RejectDraft
  \/ FallbackPlan

PlanningSpec == PlanningInit /\ [][PlanningNext]_planningVars

(* A run is one coroutine: a node that can go on does, every provider call *)
(* is under asyncio.wait_for, and nothing outside the run can hold it up.  *)
FairSpec == PlanningSpec /\ WF_planningVars(PlanningNext)
-----------------------------------------------------------------------------
(* Properties                                                              *)

CandidateSetType ==
  [kind : {"probe", "lesson"}, target : 1..3, current : 0..3,
   priority : Nat, layer : Nat,
   resources : Seq([id : Resource,
                    sessions : Seq([res : Resource, index : Nat, est : Nat])]),
   bank : Nat]

(* The three nested retry loops stay within their bounds.                  *)
RetriesBounded ==
  /\ attempts \in 0..PLANNER_MAX_DRAFT_ATTEMPTS
  /\ answers \in 0..AgentMaxRetries
  /\ calls \in 0..GatewayMaxRetries

(* Every variable keeps its type.                                          *)
PlanningTypeOK ==
  /\ node \in {"build_objectives", "retrieve_candidates", "plan_draft", "replay", "live",
             "answer", "validate_plan", "fallback_plan", "end", "raised"}
  /\ request.learner \in Learner /\ request.budget \in Nat
  /\ node # "build_objectives" => gaps.status \in [Skill -> Status]
  /\ \A s \in DOMAIN cands : s \in Skill /\ cands[s] \in CandidateSetType
  /\ RetriesBounded
  /\ draft.items \in Seq(PlanItem) /\ draft.degraded \in BOOLEAN
  /\ final.items \in Seq(PlanItem) /\ final.degraded \in BOOLEAN

(* A plan that is not marked degraded passes every hard rule as a whole,   *)
(* top-up included (validate_plan_node keeps the extension only then).     *)
CommittedDraftIsValid ==
  node = "end" /\ ~final.degraded => Valid(final.items)

(* The fallback plan keeps the rules its loop and the top-up are built     *)
(* around: the budget, the candidates, the difficulty band, the cap on new *)
(* skills and no session twice for a skill.                                *)
FallbackStaysInBounds ==
  node = "end" /\ final.degraded =>
    /\ WithinBudget(final.items, request.budget)
    /\ RefersToCandidates(final.items, cands)
    /\ WithinReach(final.items, gaps.level)
    /\ FewNewSkills(final.items, gaps.status, request.newSkillCap)
    /\ NoDuplicates(final.items)

(* Item n studies its resource from the next session on and in order, and  *)
(* any other resource of its objective that was begun before is finished.  *)
StudiesInOrder(items, n, cs) ==
  LET i    == items[n]
      mine == StudyItems(items, i.skill)
  IN  /\ \A x \in OfferedSession(cs, i.res) : x.index < i.index =>
           \E m \in mine : /\ items[m].res = i.res /\ items[m].index = x.index
                           /\ m < n /\ items[m].day <= i.day
      /\ \A m \in mine : m < n /\ items[m].res # i.res =>
           /\ items[m].day <= i.day
           /\ \A x \in OfferedSession(cs, items[m].res) :
                \E k \in mine : /\ k < n /\ items[k].res = items[m].res
                               /\ items[k].index = x.index

(* Item n depends on a study item of its objective and comes after them.   *)
PractisesAfterStudy(items, n) ==
  LET mine == StudyItems(items, items[n].skill) IN
    /\ items[n].dep \in mine
    /\ \A m \in mine : items[m].day <= items[n].day

(* In a fallback plan each objective studies a resource from its next      *)
(* session on and in order, ends it before it starts another, and          *)
(* practises on the day of its last study session (_chain_queue,           *)
(* _practice_after_study).                                                 *)
FallbackStudiesInOrder ==
  node = "end" /\ final.degraded =>
    \A n \in DOMAIN final.items :
      /\ final.items[n].type = "resource" =>
           StudiesInOrder(final.items, n, cands[final.items[n].skill])
      /\ final.items[n].type = "practice" => PractisesAfterStudy(final.items, n)

(* A fallback plan leaves its budget, its caps, its order of study and the *)
(* candidates it was given alone (build_fallback_plan, extend_plan).       *)
FallbackIsSound == FallbackStaysInBounds /\ FallbackStudiesInOrder

(* Items only for skills none of whose hard prerequisites is WEAK or       *)
(* MISSING, and study material only for skills that are not merely claimed.*)
TeachesReachable(items) ==
  \A n \in DOMAIN items :
    LET raw(x) == RawStatus(request.learner, x)
    IN  /\ \A p \in HardParents(items[n].skill) : raw(p) \in {"MET", "UNVERIFIED"}
        /\ items[n].res # NoResource => raw(items[n].skill) \in {"WEAK", "MISSING"}

(* Whoever made the plan, a blocked skill gets no item, and a claimed one  *)
(* is verified before it is taught (analyze_gaps, build_candidate_sets).   *)
OnlyReachableSkillsTaught == node = "end" => TeachesReachable(final.items)

(* The top-up of any plan: the plan, and behind it sessions of objectives  *)
(* it studies, not before their last study day, up to 80 % of the budget.  *)
TopUpOf(old, new, budget) ==
  /\ IsPrefix(old, new)
  /\ new # old => ~OverTarget(Minutes(new), budget)
  /\ \A n \in Len(old) + 1..Len(new) :
       LET mine == StudyItems(old, new[n].skill) IN
         /\ mine # {}
         /\ new[n].type = "resource"
         /\ \A m \in mine : Least(old[m].day, NumDays) <= new[n].day

(* The top-up keeps the model's items and only continues objectives they   *)
(* study, not before their last study day and up to 80 % of the budget.    *)
TopUpOnlyContinues ==
  [][node = "validate_plan" /\ node' = "end" =>
       TopUpOf(draft.items, final'.items, request.budget)]_planningVars

(* Whatever the model and the provider do, the run ends: with a plan, or   *)
(* with the exception a mistyped answer raises; no retry goes on for good. *)
RunEnds == <>(node \in {"end", "raised"})

(* What ARCHITECTURE_CONTRACTS.md and the module comment of fallback.py    *)
(* promise of the fallback plan: it satisfies all the hard rules.          *)
FallbackIsValid ==
  node = "end" /\ final.degraded => Valid(final.items)
==============================================================================
