-------------------------------- MODULE Tutor --------------------------------
(***************************************************************************)
(* One request to the Tutor: a chat turn (graph G4) or the progress page.  *)
(* It looks at the learner's records with at most two tools, lets a model  *)
(* compose an answer, checks every citation against the ids the tools      *)
(* returned, and falls back to an answer read off the tools' results.      *)
(*                                                                         *)
(* The Tutor only reads, but other requests of the same learner commit     *)
(* while it does: History is the list of the records one after another,    *)
(* version the one in force.  A turn is many SELECTs at READ COMMITTED,    *)
(* and keeps no row of the first when the next runs; a tool that makes     *)
(* several of them may see a commit in their middle, which is why it reads *)
(* at version and ends at some later version.  The skill graph and the     *)
(* catalog do not change in a turn.                                        *)
(*                                                                         *)
(* RemainingUnblocked, AttemptsUncounted and VerifiedIfAnyValid are mutants*)
(* of the definitions that follow them; no action uses them.               *)
(***************************************************************************)
EXTENDS GapEngine, Retrieval, SequencesExt

CONSTANTS
  OtherSkill,  \* skills of the graph outside the role's scope
  Role,        \* the id of the role
  Offers,      \* a skill of the graph to its resources, in the catalog's order
  Row,         \* those resources as the retriever sees them
  History,     \* the learner's records, one commit after another
  Requests,    \* what may be asked
  Drafts(_),   \* citations a model may answer with, given those allowed
  Nil,
  MAX_GAPS_SHOWN, MAX_STRENGTHS_SHOWN, MAX_SKILL_STATES_SHOWN,
  MAX_EVIDENCE_IDS_PER_ROW,
  TUTOR_SEARCH_RESOURCES_TOP_K, PROGRESS_REPORT_NEXT_STEPS_LIMIT

TUTOR_MAX_TOOL_STEPS == 4
TUTOR_MAX_COMPOSE_ATTEMPTS == 2
TUTOR_AGENT_MAX_RETRIES == 2

GraphSkill == Skill \cup OtherSkill

ASSUME LimitsAssumption ==
  {MAX_GAPS_SHOWN, MAX_STRENGTHS_SHOWN, MAX_SKILL_STATES_SHOWN, MAX_EVIDENCE_IDS_PER_ROW,
   TUTOR_SEARCH_RESOURCES_TOP_K, PROGRESS_REPORT_NEXT_STEPS_LIMIT} \subseteq Nat
(* A resource targets a skill once: (resource_id, skill_id) is a key.      *)
ASSUME OffersAssumption ==
  /\ \A r \in DOMAIN Row : IsRow(Row[r])
  /\ Offers \in [GraphSkill -> Seq(DOMAIN Row)]
  /\ \A s \in GraphSkill : \A i, j \in DOMAIN Offers[s] : Offers[s][i] = Offers[s][j] => i = j
(* The columns refer to what is there, and no revision is ever deleted.    *)
ASSUME HistoryAssumption ==
  /\ Len(History) \in Nat /\ DOMAIN History = 1..Len(History)
  /\ \A v \in DOMAIN History : LET rec == History[v] IN
       /\ rec.profile \in {"ok", "no_profile", "unknown_role"}
       /\ rec.learner \in Learner
       /\ \A s \in Skill : IsFiniteSet(rec.evidence[s])
       /\ rec.plan # Nil => rec.revision \in DOMAIN rec.items
       /\ \A r \in DOMAIN rec.items : \A i \in rec.items[r] : i.id # Nil /\ i.skill \in GraphSkill
       /\ \A x \in rec.signals \cup rec.misconceptions : x.skill \in GraphSkill
       /\ \A w \in DOMAIN History : v <= w => DOMAIN rec.items \subseteq DOMAIN History[w].items

VARIABLES
  version,   \* how much of History is committed
  asked,     \* the request being answered, or Nil
  started,   \* the version it started at
  gap,       \* gap_result: the analysis made once per turn
  tools,     \* tool_calls: those still to be made
  results,   \* tool_results
  stage,     \* where the turn is
  composeAttempts,  \* counters["compose_attempts"]
  unparsed,  \* answers of the model within an attempt that did not parse
  drafted,   \* the citations of the draft, or Nil when the agent gave up
  reply      \* what the caller got

turn == <<asked, started, gap, tools, results, stage, composeAttempts, unparsed, drafted, reply>>
tutorVars == <<version, turn>>

Intents == <<"why_changed", "progress", "why_recommended", "gaps",
             "current_skills", "plan">>
Now == History[version]

(* ------------------------------ the intent ----------------------------- *)

(* The first row of keywords the message has a word of wins; a question    *)
(* about a concept needs a skill or a decision to be about.                *)
SkillOf(r) == IF r.hint # Nil THEN r.hint ELSE r.mention

IntentOf(r) ==
  LET said == SelectSeq(Intents, LAMBDA i : i \in r.words)
  IN  CASE said # <<>> -> Head(said)
        [] said = <<>> /\ SkillOf(r) = Nil /\ r.decision = Nil -> "out_of_scope"
        [] OTHER -> "concept_explanation"

Call(tool) == [tool |-> tool, arg |-> Nil]
About(tool, arg) == IF arg = Nil THEN <<>> ELSE <<[tool |-> tool, arg |-> arg]>>

PlanTools(r) ==
  LET intent == IntentOf(r)
      skill  == SkillOf(r)
      planned ==
        CASE intent = "current_skills" ->
               <<Call("get_learner_state")>> \o About("get_evidence", skill)
          [] intent = "gaps" -> <<Call("get_gaps")>> \o About("explain_skill_path", skill)
          [] intent = "plan" -> <<Call("get_current_plan")>>
          [] intent = "why_recommended" ->
               About("get_decision", r.decision) \o <<Call("get_current_plan")>>
          [] intent = "why_changed" ->
               <<Call("get_revisions")>> \o About("get_decision", r.decision)
          [] intent = "concept_explanation" ->
               About("explain_skill_path", skill) \o About("search_resources", skill)
          [] intent = "progress" -> <<Call("get_progress")>>
          [] OTHER -> <<>>
  IN  SubSeq(planned, 1, Min({Len(planned), TUTOR_MAX_TOOL_STEPS}))

(* ------------------------------- the tools ----------------------------- *)

(* A result: the ids in its data, those an answer may cite, and what it    *)
(* says that the properties speak of.                                      *)
Result(tool, shown, cites, says) ==
  [tool |-> tool, data |-> TRUE, shown |-> shown, cites |-> cites, says |-> says]
NoWords == [about |-> Nil]
Nothing(tool) == [tool |-> tool, data |-> FALSE, shown |-> {}, cites |-> {}, says |-> NoWords]

(* The n of a set that come first by some measure the model leaves open.   *)
SomeOf(S, n) == {T \in SUBSET S : Cardinality(T) = Min({n, Cardinality(S)})}

(* The entries of the analysis and its strengths, with their evidence.     *)
GapResult(learner, evidence) ==
  [status |-> AnalyzeGaps(learner).status,
   level |-> AnalyzeGaps(learner).level,
   evidence |-> evidence,
   blocked_by |-> [s \in Skill |->
     IF s \in Blocked(learner)
     THEN {p \in HardParents(s) : RawStatus(learner, p) \in {"WEAK", "MISSING"}}
     ELSE {}],
   priority |-> [s \in Skill |-> Priority(learner, s)]]

WithStatus(S) == {s \in Skill : gap.status[s] \in S}
MetSkills == WithStatus({"MET"})

GetLearnerState(then) ==
  {Result("get_learner_state", {Role} \cup shown, {Role} \cup shown, NoWords) :
     shown \in SomeOf({s \in Skill : then.learner[s].tier # "none"}, MAX_SKILL_STATES_SHOWN)}

(* The first few ids of a row; which come first is left to the database.   *)
Few(S) == CHOOSE T \in SomeOf(S, MAX_EVIDENCE_IDS_PER_ROW) : TRUE

(* The most urgent open gaps and some strengths, a few ids of each.        *)
MostUrgent ==
  LET open == Skill \ MetSkills
  IN  {S \in SomeOf(open, MAX_GAPS_SHOWN) :
         \A s \in S, t \in (open \ S) : gap.priority[s] >= gap.priority[t]}
EvidenceOf(S) == UNION {Few(gap.evidence[s]) : s \in S}
BlockersOf(S) == UNION {Few(gap.blocked_by[s]) : s \in S}
GapIds(S, T) == S \cup T \cup EvidenceOf(S \cup T) \cup BlockersOf(S)
GetGaps ==
  {Result("get_gaps", GapIds(S, T), GapIds(S, T), NoWords) :
     S \in MostUrgent, T \in SomeOf(MetSkills, MAX_STRENGTHS_SHOWN)}

ItemIds(i) == ({i.id, i.skill, i.objective, i.resource, i.decision} \ {Nil}) \cup i.evidence

(* The pointer is read first, the items of its revision after.             *)
GetCurrentPlan(now, then) ==
  IF now.plan = Nil THEN {Result("get_current_plan", {}, {}, NoWords)}
  ELSE LET ids == {now.plan, now.revision} \cup UNION {ItemIds(i) : i \in then.items[now.revision]}
       IN  {Result("get_current_plan", ids, ids, NoWords)}

GetRevisions(now, then) ==
  IF now.plan = Nil THEN {Result("get_revisions", {}, {}, NoWords)}
  ELSE LET ids == {now.plan} \cup DOMAIN then.items IN {Result("get_revisions", ids, ids, NoWords)}

GetEvidence(then, skill) ==
  IF skill \notin GraphSkill THEN {Result("get_evidence", {}, {}, NoWords)}
  ELSE LET ids == {skill} \cup (IF skill \in Skill THEN then.evidence[skill] ELSE {})
       IN  {Result("get_evidence", ids, ids, NoWords)}

(* The ways from a skill along hard prerequisites, as sequences: the graph *)
(* has no cycle, so none is longer than there are skills.                  *)
PathsFrom ==
  [s \in Skill |-> {p \in BoundedSeq(Skill, Cardinality(Skill)) :
                     /\ p # <<>> /\ p[1] = s
                     /\ \A i \in 1..(Len(p) - 1) : <<p[i], p[i + 1]>> \in HardPrereq}]

(* The shortest to a skill the role requires; the path is an id too.       *)
ExplainSkillPath(skill) ==
  LET ways == IF skill \notin Skill THEN {} ELSE {p \in PathsFrom[skill] : RoleLevel[Last(p)] > 0}
      shortest == {p \in ways : \A w \in ways : Len(p) <= Len(w)}
  IN  IF skill \notin GraphSkill THEN {Result("explain_skill_path", {}, {}, NoWords)}
      ELSE IF ways = {} THEN {Result("explain_skill_path", {skill}, {skill}, NoWords)}
      ELSE {Result("explain_skill_path", ToSet(p) \cup {p}, ToSet(p) \cup {p}, NoWords) : p \in shortest}

(* What the retriever is asked for, and what it finds, for every skill,    *)
(* level and met skills.                                                   *)
Query(level, met) ==
  [DefaultQuery EXCEPT !.level = level, !.met = met, !.top = TUTOR_SEARCH_RESOURCES_TOP_K]
Recommended ==
  {[skill |-> s, level |-> level, met |-> met,
    found |-> Recommend(Row, Offers[s], Query(level, met))] :
     s \in GraphSkill, level \in 0..3, met \in SUBSET Skill}

SearchResources(skill) ==
  IF skill \notin GraphSkill
  THEN {Result("search_resources", {}, {}, [about |-> skill, found |-> <<>>])}
  ELSE LET level == IF skill \in Skill THEN gap.level[skill] ELSE 0
           answered == {rec \in Recommended :
                          rec.skill = skill /\ rec.level = level /\ rec.met = MetSkills}
           ids(rec) == {skill} \cup ToSet(rec.found)
       IN  {Result("search_resources", ids(rec), ids(rec), [about |-> skill, found |-> rec.found]) :
              rec \in answered}

RemainingUnblocked == WithStatus({"MISSING", "UNVERIFIED"})
RemainingGaps == WithStatus({"MISSING", "BLOCKED", "UNVERIFIED"})

(* The Report Builder.  The analysis is the turn's; signals, misconceptions*)
(* and the plan are read now, the items of its revision after.             *)
NextSteps(items) ==
  LET ahead == {i \in items : i.status = "planned"}
  IN  {S \in SomeOf(ahead, PROGRESS_REPORT_NEXT_STEPS_LIMIT) :
         \A i \in S, j \in (ahead \ S) : i.day <= j.day}
ReportOn(items, signals, misconceptions, next) ==
  [about |-> Role, acquired |-> MetSkills, in_progress |-> WithStatus({"WEAK"}),
   remaining |-> RemainingGaps, signals |-> signals, misconceptions |-> misconceptions,
   done |-> {i \in items : i.status = "done"}, next |-> next]
ProgressReports(now, then) ==
  LET items == IF now.plan = Nil THEN {} ELSE then.items[now.revision]
      open  == {x \in now.signals : x.open}
  IN  {ReportOn(items, open, now.misconceptions, S) : S \in NextSteps(items)}

(* What may be cited though the data does not show it: the evidence behind *)
(* a bucket and the ids of the signals.                                    *)
HeldIds(report) ==
  (UNION {gap.evidence[s] : s \in report.acquired \cup report.in_progress})
    \cup {x.id : x \in report.signals}
RowIds(rows) == UNION {{x.id, x.skill} : x \in rows}
ReportIds(report) ==
  report.acquired \cup report.in_progress \cup report.remaining
    \cup {x.skill : x \in report.signals}
    \cup RowIds(report.misconceptions \cup report.done \cup report.next)
GetProgress(now, then) ==
  {Result("get_progress", ReportIds(report), ReportIds(report) \cup HeldIds(report), report) :
     report \in ProgressReports(now, then)}

(* Only a decision record of this learner is found.                        *)
GetDecision(then, id) ==
  LET found == {d \in then.decisions : d.id = id}
      ids   == UNION {{d.id} \cup d.evidence \cup d.path \cup d.output : d \in found}
  IN  {Result("get_decision", ids, ids, NoWords)}

ToolResults(call, now, then) ==
  CASE call.tool = "get_learner_state"  -> GetLearnerState(then)
    [] call.tool = "get_gaps"           -> GetGaps
    [] call.tool = "get_current_plan"   -> GetCurrentPlan(now, then)
    [] call.tool = "get_revisions"      -> GetRevisions(now, then)
    [] call.tool = "get_evidence"       -> GetEvidence(then, call.arg)
    [] call.tool = "explain_skill_path" -> ExplainSkillPath(call.arg)
    [] call.tool = "search_resources"   -> SearchResources(call.arg)
    [] call.tool = "get_progress"       -> GetProgress(now, then)
    [] call.tool = "get_decision"       -> GetDecision(then, call.arg)

(* ------------------------------- the turn ------------------------------ *)

ValidIds == UNION {results[i].cites : i \in DOMAIN results}
NoReply == [kind |-> Nil, cites |-> {}]

TutorInit ==
  /\ version \in DOMAIN History
  /\ asked = Nil /\ started = 0
  /\ gap = Nil
  /\ tools = <<>> /\ results = <<>>
  /\ stage = "idle"
  /\ composeAttempts = 0 /\ unparsed = 0
  /\ drafted = Nil
  /\ reply = NoReply

(* Another request of the learner commits.                                 *)
Commit ==
  /\ version < Len(History)
  /\ version' = version + 1
  /\ UNCHANGED turn

(* build_tutor_context: no profile is a 404, a role the graph does not     *)
(* know a 422.  Skill states are read before evidence.                     *)
Begin(r) ==
  /\ stage = "idle"
  /\ asked' = r
  /\ started' = version
  /\ IF Now.profile # "ok"
     THEN /\ stage' = "done"
          /\ reply' = [NoReply EXCEPT !.kind = Now.profile]
          /\ UNCHANGED <<version, gap, tools>>
     ELSE /\ \E later \in version..Len(History) :
               /\ version' = later
               /\ gap' = GapResult(Now.learner, History[later].evidence)
          /\ tools' = IF r.kind = "chat" THEN PlanTools(r) ELSE <<Call("get_progress")>>
          /\ stage' = IF tools' = <<>> THEN "refuse" ELSE "call_tools"
          /\ UNCHANGED reply
  /\ UNCHANGED <<results, composeAttempts, unparsed, drafted>>

Answered(kind, cites) ==
  /\ stage' = "done"
  /\ reply' = [kind |-> kind, cites |-> cites]

RefuseTurn ==
  /\ stage = "refuse"
  /\ Answered("refusal", {})
  /\ UNCHANGED <<version, asked, started, gap, tools, results, composeAttempts, unparsed, drafted>>

ToolReturned(result) ==
  /\ results' = Append(results, result)
  /\ tools' = Tail(tools)
  /\ stage' = IF tools' = <<>> THEN "compose_answer" ELSE "call_tools"
  /\ UNCHANGED <<asked, started, gap, composeAttempts, unparsed, drafted, reply>>

CallTool ==
  /\ stage = "call_tools"
  /\ \E later \in version..Len(History) :
       /\ version' = later
       /\ \E result \in ToolResults(Head(tools), Now, History[later]) : ToolReturned(result)

(* call_tool swallows what a tool raises; the two that only look at the    *)
(* analysis and the graph raise nothing.  The progress page calls its tool *)
(* unguarded.                                                              *)
ToolFails ==
  /\ stage = "call_tools"
  /\ Head(tools).tool \notin {"get_gaps", "explain_skill_path"}
  /\ IF asked.kind = "chat"
     THEN ToolReturned(Nothing(Head(tools).tool))
     ELSE /\ Answered("error", {})
          /\ UNCHANGED <<asked, started, gap, tools, results, composeAttempts, unparsed, drafted>>
  /\ UNCHANGED version

AttemptsUncounted == composeAttempts
AttemptsAfter == composeAttempts + 1

ComposeAnswer ==
  /\ stage = "compose_answer"
  /\ composeAttempts' = AttemptsAfter
  /\ unparsed' = 0
  /\ stage' = "agent"
  /\ UNCHANGED <<version, asked, started, gap, tools, results, drafted, reply>>

(* The agent: the gateway has no model, or the third answer does not parse.*)
AgentDegraded ==
  /\ stage = "agent"
  /\ drafted' = Nil
  /\ stage' = "verify_citations"
  /\ UNCHANGED <<version, asked, started, gap, tools, results, composeAttempts, unparsed, reply>>

AgentUnparsable ==
  /\ stage = "agent"
  /\ unparsed' = unparsed + 1
  /\ IF unparsed < TUTOR_AGENT_MAX_RETRIES
     THEN UNCHANGED <<stage, drafted>>
     ELSE stage' = "verify_citations" /\ drafted' = Nil
  /\ UNCHANGED <<version, asked, started, gap, tools, results, composeAttempts, reply>>

AgentAnswers ==
  /\ stage = "agent"
  /\ \E cites \in Drafts(ValidIds) : drafted' = cites
  /\ stage' = "verify_citations"
  /\ UNCHANGED <<version, asked, started, gap, tools, results, composeAttempts, unparsed, reply>>

VerifiedIfAnyValid(cites, valid) == cites \cap valid # {}

(* An answer without a citation fails like one with an invented id.        *)
VerifyCitations(cites, valid) == cites # {} /\ cites \subseteq valid
Passed == drafted # Nil /\ VerifyCitations(drafted, ValidIds)

FinalizeVerified ==
  /\ stage = "verify_citations"
  /\ Passed
  /\ Answered("answer", drafted)
  /\ UNCHANGED <<version, asked, started, gap, tools, results, composeAttempts, unparsed, drafted>>

MayRegenerate == drafted # Nil /\ composeAttempts < TUTOR_MAX_COMPOSE_ATTEMPTS

Regenerate ==
  /\ stage = "verify_citations"
  /\ ~Passed
  /\ MayRegenerate
  /\ stage' = "compose_answer"
  /\ UNCHANGED <<version, asked, started, gap, tools, results, composeAttempts, unparsed, drafted, reply>>

(* Every result that has data, with all its citable ids.                   *)
ConservativeAnswer ==
  /\ stage = "verify_citations"
  /\ ~Passed
  /\ ~MayRegenerate
  /\ Answered("conservative", UNION {results[i].cites : i \in {j \in DOMAIN results : results[j].data}})
  /\ UNCHANGED <<version, asked, started, gap, tools, results, composeAttempts, unparsed, drafted>>

Turn ==
  \/ \E r \in Requests : Begin(r)
  \/ RefuseTurn
  \/ CallTool
  \/ ToolFails
  \/ ComposeAnswer
  \/ AgentDegraded
  \/ AgentUnparsable
  \/ AgentAnswers
  \/ FinalizeVerified
  \/ Regenerate
  \/ ConservativeAnswer

TutorNext == Commit \/ Turn

(* A turn is straight-line code of one coroutine whose reads and model     *)
(* calls end, by an answer or a timeout.                                   *)
TutorSpec == TutorInit /\ [][TutorNext]_tutorVars /\ WF_tutorVars(Turn)

(* ------------------------------ properties ----------------------------- *)

TutorTypeOK ==
  /\ version \in DOMAIN History
  /\ asked \in Requests \cup {Nil}
  /\ stage \in {"idle", "refuse", "call_tools", "compose_answer", "agent",
                "verify_citations", "done"}
  /\ Len(tools) + Len(results) <= TUTOR_MAX_TOOL_STEPS
  /\ composeAttempts \in 0..TUTOR_MAX_COMPOSE_ATTEMPTS
  /\ unparsed \in 0..(TUTOR_AGENT_MAX_RETRIES + 1)

GraphIds ==
  {Role} \cup GraphSkill \cup DOMAIN Row \cup UNION {PathsFrom[s] : s \in Skill}
PlanIds(rec) == UNION {UNION {ItemIds(i) : i \in rec.items[r]} : r \in DOMAIN rec.items}
DecisionIds(rec) == UNION {{d.id} \cup d.evidence \cup d.path \cup d.output : d \in rec.decisions}
EvidenceIds(rec) == UNION {rec.evidence[s] : s \in Skill}
NoticedIds(rec) == {x.id : x \in rec.signals \cup rec.misconceptions}
OwnIds(rec) ==
  {rec.plan} \cup DOMAIN rec.items \cup PlanIds(rec) \cup EvidenceIds(rec)
    \cup NoticedIds(rec) \cup DecisionIds(rec)

KnownIds(last) == GraphIds \cup UNION {OwnIds(History[v]) : v \in started..last}
BehindReport(result) ==
  IF result.tool # "get_progress" \/ ~result.data THEN {}
  ELSE (UNION {gap.evidence[s] : s \in Skill}) \cup {x.id : x \in result.says.signals}
ShownIds == UNION {results[i].shown \cup BehindReport(results[i]) : i \in DOMAIN results}

(* Grounding, against models that invent ids, hints with other learners'   *)
(* ids and commits in the middle of the turn: what a reply cites names the *)
(* graph or a row this learner had during the turn and stood in a result   *)
(* the model was shown, or behind a progress report (its skills' evidence  *)
(* and its signals, whose ids the data leaves out);                        *)
(* a model's answer cites at least one.  The tools, attempts and answers   *)
(* stay within their bounds meanwhile.                                     *)
AnswerGrounded ==
  /\ TutorTypeOK
  /\ stage = "done" =>
       /\ reply.kind = "answer" => reply.cites # {}
       /\ reply.cites \subseteq KnownIds(version)
       /\ reply.cites \subseteq ShownIds

Usable(row, level, met) ==
  /\ row.link = "ok"
  /\ row.prereqs \subseteq met
  /\ level \in (row.from - 1)..row.to
  /\ row.minutes <= 45
WellChosen(found, usable) ==
  /\ found \subseteq usable
  /\ Cardinality(found) = Min({TUTOR_SEARCH_RESOURCES_TOP_K, Cardinality(usable)})
  /\ \A r, t \in found : (r # t /\ Pair(Row[r]) = Pair(Row[t])) =>
       \A u \in usable : \E w \in found : Pair(Row[w]) = Pair(Row[u])
Useful(skill, found) ==
  LET met   == {s \in Skill : FinalStatus(History[started].learner, s) = "MET"}
      level == IF skill \in Skill THEN History[started].learner[skill].level ELSE 0
  IN  WellChosen(found, {r \in ToSet(Offers[skill]) : Usable(Row[r], level, met)})

(* What search_resources offers can be used: its link works, the learner   *)
(* had met its prerequisites when the turn began (the tool once passed no  *)
(* met skills and found nothing), and no two offers are of one provider    *)
(* and modality while another usable one is left out.                      *)
OffersUsable ==
  \A i \in DOMAIN results :
    (/\ results[i].tool = "search_resources" /\ results[i].data
     /\ results[i].says.about \in GraphSkill) =>
      Useful(results[i].says.about, ToSet(results[i].says.found))

AddsUp(report, last) ==
  LET parts == <<report.acquired, report.in_progress, report.remaining>>
      items == report.done \cup report.next
  IN  /\ UNION Range(parts) = Skill
      /\ \A m, n \in DOMAIN parts : m # n => parts[m] \cap parts[n] = {}
      /\ report.done \cap report.next = {}
      /\ \/ items = {}
         \/ \E v \in started..last : \E r \in DOMAIN History[v].items :
              items \subseteq History[v].items[r]

(* A progress report accounts for every skill of the role exactly once,    *)
(* whatever was committed while it was put together, and speaks of the     *)
(* items of a single revision, none both done and still to do.             *)
ReportAddsUp ==
  \A i \in DOMAIN results :
    (results[i].tool = "get_progress" /\ results[i].data) => AddsUp(results[i].says, version)

(* build_tutor_graph: "a chat turn can never fail to produce *some*        *)
(* grounded answer".  Every request ends with a reply, whatever the model  *)
(* answers; only the progress page may end with an error.                  *)
EveryTurnAnswers ==
  (asked # Nil) ~>
    (stage = "done" /\ (reply.kind = "error" => asked.kind = "progress"))
==============================================================================
