# EduPath in TLA+

EduPath plans a learner's weeks: it extracts skills from documents, finds the
gaps to a role, drafts a weekly plan, grades practice sets, notices when the
learner struggles and revises the plan. The backend (`src/backend/app`, FastAPI
over PostgreSQL) is the subject of these modules; the frontend is only a client
of its HTTP API.

## The system

Every HTTP request is one SQLAlchemy session and one transaction
(`db/session.py`), at PostgreSQL's default READ COMMITTED, committed once at the
end of the route. Nothing is read `FOR UPDATE`, there is no version column, and
a request may spend seconds in LLM calls between its reads and its commit. That
makes the interesting unit the *read* of a request and its *commit*, and the
interesting behaviours the requests that come between the two. Requests of one
learner overlap as soon as a client retries, has two tabs open, or answers
practice while a plan is being drafted.

| Component | State it keeps | Operations | Hard behaviours | What makes it correct |
|---|---|---|---|---|
| Plan history (`planning/service.py`, `reflection/service.py`, `planning_repository.py`) | `weekly_plans`, `plan_revisions`, `plan_items` | create, patch, reflect, revert, mark an item | numbers and pointers from stale reads; reverts | a plan points at one of its own revisions, parents come before children, reverts are recorded, what was finished is not offered again |
| Misconception lifecycle (`assessment/resolution.py`, `reflection/service.py`) | `learner_misconceptions`, `practice_sessions`, `assessments`, `reflection_records` | submit a set, reflect, submit a resolution check | double submission, cooldowns, a check without a row, a row found at the second look, lost increments | evidence behind every reflection, failed checks behind "persistent", remediations spaced |
| Learner skill state (`profiling/commit.py`, `assessment/mastery.py`, the tier gate of `gap/engine.py`) | `learner_skill_states`, `evidence`, `pending_claims` | intake, confirm or remove a claim, graded answers | two update rules on one row, column-wise writes, first insert | no level without answers; the row is what the record says |
| Practice and assessment (`assessment/service.py`, `item_bank.py`, `struggle.py`, `agents/assessor.py`) | `practice_items`, `practice_sessions`, `assessments`, `struggle_signals` | assemble a set, draft and blindly solve items, grade, classify | unordered queries, a model that writes bad items, two requests over one bank | a set holds unseen, solved items; two distinct items confirm a misconception; the classes of one submission agree |
| Reflection ladder (`reflection/*`, `agents/reflection.py`) | none of its own while it runs | agent rounds, deterministic draft, validation, needs attention | bounded rounds, drafts that can never be approved | ends; writes only validated drafts |
| Planning graph G2 (`orchestration/graphs.py`, `planning/*`, `agents/planner.py`) | the `RunState` of a run | draft, validate, one more draft, top-up, fallback | nested retries, degraded provider, answers of the wrong type, a top-up or a fallback that breaks a rule | ends, and a plan it ends with obeys the hard rules and teaches nothing out of reach |
| Gap engine and skill graph (`gap/engine.py`, `graph/*`) | none (pure) | classify gaps, BLOCKED overlay, order; validate and load the graph | shared prerequisites, cycles | the verdict of the cycle search is right; only reachable skills are taught |
| Onboarding G1 (`profiling/*`, `agents/profiler.py`) | `documents`, `pending_claims`, files on disk | parse, extract, verify spans, normalise, save | a model that misquotes, no model, a request that stops after the file is written | a claim quotes its document, names a skill on grounds only, and is accounted for |
| Tutor G4 (`tutor/*`, `agents/tutor.py`, `provenance/citations.py`) | none | intent, bounded tools, composed answer, citation check, progress report | the record changes between two tools; an agent that cites what it was not shown | a turn answers and cites what its tools returned |
| Gateways (`gateway/*`) | counters of a call | provider, retry, fallback, unavailable | time-outs | bounded retries, degradation reported |
| Trace (`sse/trace.py`, `observability/*`, the panel's store in the frontend) | bounded event history, subscriber queues, `agent_runs` | publish, subscribe, stream, persist | a late or lost stream, eviction, one id for two actions | a panel shows the run's events once and in order; finished actions are on record |
| Retrieval (`retrieval/*`) | none; `link_status` of a resource | filter, score, diversify; check links | stale link status | what is offered can be used |
| Catalog (`catalog/*`, `catalog_repository.py`, the start of a server) | the catalog tables, the graph each server caches | validate, replace, load, cache | two servers that start at once, a script beside them, a load that fails, rows that refer to deleted ones | only a sound catalog is committed; a server that starts when there are learners serves it |
| Demo (`demo/*`) | none of its own | reset and re-create one learner, scripted calls of the others | a reset commits before the next learner is made | only the reset is modelled, in `Catalog` |
| Accounts, the rest of the frontend | - | clients and look-ups | none of their own | not modelled |

They interact through the database, except that a submission calls the reflection
ladder inside its own transaction (`submit_practice_set` calls `run_reflection`,
which creates the resolution check and the plan revision), and that planning reads
what practice and profiling have written. `PROJECT.json` lists each component's
sources and status, and every hazard of the code at its line.

## The modules

**`PlanHistory`** is the plans of one learner. `Begin` opens a transaction (its
start is `created_at`, by which the current plan is chosen); `ReadForCreate`,
`ReadForPatch`, `ReadForReflection`, `ReadForRevert` and `ReadForMark` are the
reads of the five operations with their checks; `Number` is
`len(prior_revisions) + 1`; `CommitRevision` and `CommitMark` are the commits; and
`Rollback` is any failure in between. The new revision's content is a free choice
within what the operation may produce: the planner offers only sessions that are
not completed anywhere, a reflection changes the items it read, a revert copies
the parent's. A request stands for the ids of the rows it inserts. Items are
known by what they schedule; their order, minutes and days are left out.
`patch_existing_plan` is modelled although no route calls it (`PatchExposed`).

**`LinearHistory`** is what a plan history promises: a log that grows at its end,
whose last entry is in force. `PlanHistory` maps its rows to such logs (`LogOf`,
`Linear!`); `MCPlanHistory!ImplementsLinearHistory` is the refinement, for a client
that waits for its answers.

**`Misconceptions`** is the misconceptions of one learner on one skill.
`ReadPractice` grades a set, decides whether the wrong answers confirm a
misconception, applies the skip rules of `run_reflection` and chooses how its
ladder ends; `SelectAgain` is the second look for the row that
`upsert_signal_status` takes once a reflection on a misconception is approved: a row
that was found before is the one in the session, with its values of then, a row that
was not may be there by now and is written over, whatever its status.
`CommitPractice` and `CommitRemediation` are the commits without and with such a
reflection; `ReadCheck` and `CommitCheck` are a resolution check
(`record_probe_result`), whose tagged wrong answers are stored and counted in later
windows like any other. Writes go column by column, as the
ORM's do: an attribute that was assigned the value it was read with is not in the
UPDATE. Rows other than `learner_misconceptions` are only inserted and are kept
in `row`, one record per committed submission. "suspected" and "confirmed" exist
only inside a transaction: the one caller of `upsert_signal_status` writes
"remediating" before it commits. `start_remediation` is called by tests only and
is left out.

**`LearnerState`** is one learner's row for one skill. `ReadForSubmission`
computes what `update_mastery` makes of the graded answers of a submission;
`Intake`, `ConfirmClaim` and `DecideElsewhere` are the steps of the two claim
routes, each reading the claims as they are by then but the row only once;
`Commit` writes the changed columns, inserts the row, or cannot (a unique
constraint) and leaves only `Rollback`. `alpha` and `beta` are exact tenths, so
float rounding at a threshold is abstracted away. `Band`, `LevelMet` and
`CurrentLevel` are `compute_band`, `_level_met` and `_current_level`.

**`ReflectionLadder`** is one run of `run_reflection` after another on a plan whose
items have identities, days, minutes and a done mark. `Begin` is what the run reads
(trigger, root cause, gap analysis); `AgentAnswers`, `AgentUnparsable` and
`AgentDegrades` are the ways a call of the Reflection Agent returns; `PolicyAnswers`
takes up the deterministic or the minimal draft. A draft is a list of operators and
each is applied by a step of its own (`InsertRemediation` to `SplitActivity`, or
`OperatorFails`), so a draft may be half applied to the copy `work` when it fails;
`Approve` and `RejectPlan` are `validate_plan` on the result, by the rules V1, V3,
V4, V5 and V_DUP (V2 is a no-op under the permissive candidate sets, sessions are
not enforced). An agent's draft is anything the parser lets through; it is shown no
plan items, so it can name only those whose ids a planner model chose, in a plan's
first revision. `n` is an item's uuid; a revision's copies keep it here. Whoever
else writes the plan meanwhile is in `PlanHistory`; when a reflection is skipped is
in `Misconceptions`.

**`GapEngine`** is `analyze_gaps` as a pure function from what is known of a
learner (per skill, the strongest kind of evidence and the level the tier gate
confirms) to statuses, the BLOCKED overlay, priorities, layers and one objective
per root gap. `1 + ln(1 + n)` is a table (`Urgency`), as only its order and products
matter. Audit flags are left out: no step of planning reads them; strengths are the MET skills,
which only `Tutor` reports.

**`PlanRules`** holds what a plan is made of and the hard rules V1 to V_SESSION as
predicates (`ValidatePlan` is `validate_plan` with `enforce_sessions`); soft rules
never block and are left out. **`PlanFill`** is the deterministic half of planning:
the sessions of a resource (`sessions.py`), the top-up (`ExtendPlan`, `extend_plan`)
with its day planner, and the fallback planner (`BuildFallbackPlan`). Their loops
are recursive functions of the number of steps gone through, in the order the code
walks: one step per objective of the frontier (`Breadth`), one per turn of the
round-robin (`TopUpTurns`, as many rounds as the longest queue has sessions). What
Python's `sorted` does, and a list comprehension with a condition, is said by
positions in **`Arrangement`**, which `Retrieval` uses too.

**`PlanningGraph`** is one run of G2 over these three. `node` is the node of the graph,
or where the Planner Agent is within `plan_draft`: `"replay"` and `"live"` are the two
sources `LLMGateway.complete` tries, in the order the settings give, `"answer"` is a
response that came back. `attempts`, `answers` and `calls` are the three nested
bounds (drafts, answers that did not parse, provider calls). `RetrieveCandidates`
takes any of the rankings the retriever may return; a draft is any list of items
that `parse_planner_response` lets through. `AnswerRaises` is an answer that is JSON of
the expected shape with a value of another type, which raises in the parser or in
`PlanItem` what nothing catches: the run is over (`"raised"`). `AcceptDraft` is the passing branch of
`validate_plan_node` with its top-up, `RejectDraft` the routing after the other, and
`FallbackPlan` the last node, which nothing validates. The patch mode of the agent
takes the same nodes with another prompt. What is done with `final` afterwards is a
commit of `PlanHistory`.

**`Practice`** and **`Struggle`** are practice sets: `Struggle` has the six classes of
`struggle.py` as pure operators, `Practice` the requests. `BeginSet` reads the unseen
items in any order the database may return them, `Generate` and `Solve` are the two
calls behind a generated item, `PrereqBlocks` the items on an untested prerequisite,
and `BeginSubmit` grades and classifies against what was committed when it began.
What the gap engine says of the prerequisites is an input (`Reports`, for the plan's
part of the signals).

**`Onboarding`** is one upload per request: `UploadFile` writes the file to disk
before anything is in the database, `ParseText` to `ParseFails` are the branches of
`parse_documents_node`, `ModelExtracts`, `ModelErrs` and `ScanInstead` the Profiler
Agent with its retries and the scan that replaces it, `Verify` is
`verify_evidence_node`, one claim a step, `Normalize` one label a step, `Save` the only
commit.
A text is a sequence of words and a quotation one word with the offset the model
gives it, right or wrong; `Alike` stands for the fuzzy match at the claimed offset and
`Holds` for the search that replaces it, which finds a quotation inside a word too
(`Inside`). That search runs in the lower case of the text: of the words whose lower
case is longer (`Longer`) those before the place put the stored offsets behind
(`behind`, counted in words). The injection window
is taken at the offset that was claimed, as in the code, while the offset that is
stored may be the corrected one. How near labels are to skills, by one set of vectors or
another, is a constant. Confirming the claims is `LearnerState`'s part.

**`Tutor`** is one request to the tutor, over **`Retrieval`** (the ranker as a pure
function) and `GapEngine`. `History` is the learner's record, commit after commit,
and `version` the one in force, which `Commit` moves at any moment: each of the nine
tools (`ToolResults`) reads its rows at its own version, while the gap analysis is the
one of the turn's beginning (`tutor/context.py:6`). A tool's result carries what it
shows the model, what it makes citable (for a progress report also the evidence behind
it and the ids of its signals, which its data leaves out) and what the properties speak
of; `stage` is the node of the turn, and `VerifyCitations`, `Passed`, `Regenerate` and
`ConservativeAnswer` are the rest of G4. Sorting and diversity in `Retrieval` are stated
by rank: `Arranged` puts a set in the order of its pairs, `ByKey` and `ByVariety` are
the two orders of the code.

**`Trace`** has the contexts of the requests (`AddStep`, `Emit`, `Respond`), the bus
(`Publish` with its two bounds, `Subscribed`, `Unsubscribed`), the panel of the page
(`Connect`, `Deliver`, `Drop`, `Close`, `Notice`) and the audit record
(`LookUp`, `Insert`, `InsertConflicts`, `SaveFails`). The bus lives in one event
loop and publishes in one piece; the audit's check and its insert are two statements.

**`PrerequisiteCheck`** is the cycle search of `graph/validation.py`, pass by pass, in
any order of skills and edges. **`Catalog`** extends it: servers and the seeding script
load a dataset, have it judged, and replace the tables under the row locks PostgreSQL
takes (`Wait`, `DeleteChildren`, `DeleteParents`, `InsertSkills`, `Commit`); servers
then read the tables in two steps and cache the graph. Any of these steps may raise
(`Fail`): a server then comes up without a graph of its own and loads one for each
request (`Served`); any process may crash. Intake, generated items and the link job
write beside them, and a reset of the demo (`EraseDemo`) commits a database without
learners, after which an ingestion succeeds again. An item drafted for the learner that
was erased may still be stored, as the demo's next learner has the same id.

`MC*` modules instantiate them for TLC. `MCPlanHistory`, `MCMisconceptions` and
`MCLearnerState` add a `client` that either waits for each answer or races its
requests, so that one run checks what holds under races and what holds without them
(the properties named `Waiting...` and the refinement). `MCPractice`'s `begun` and
`MCTrace`'s `raced` are history variables that only properties read. The `*Proofs`
modules hold the theorems. Each component's module also defines the mutants the
runs are tried against, beside the definitions they vary; its header names them
and no action uses them.

## The runs

| Run | Question | Bounds |
|---|---|---|
| `plan_history` | Under races, do the pointer, the parents and the reverts stay consistent? Without them, is every plan the linear log it promises to be, and is nothing finished offered again? | four requests, three in flight, or five one after another; one activity: a plan, two revisions that race and a fourth request that meets the result; a create, a reflection, a mark, a revert and a plan after it |
| `misconceptions` | What stands behind a reflection, a status, a cooldown? | three submissions that race, two in flight, or four one after another, with every trigger; one misconception, two items, two ticks: two remediations or two failed checks and one more step |
| `reflection_ladder` | Does every reflection end, in a plan that obeys the hard rules, and do the policy's patches lose no work? | one reflection on any of five plans with any marks, three gap reports over a chain of three skills, every class and root cause, an agent's draft of at most one operator, both rounds and both answers of each |
| `learner_state` | What stands behind a level, and is the row what the record says? | three requests, racing or one after another, two claims of different tiers, two answers each: level 3 is reached |
| `planning_graph` | Does every planning run end, and which rules does the plan obey, whoever made it? | three skills, one a prerequisite of another, a resource that two of them share and that takes two sessions; eight learners, weeks of 54 and 270 minutes, caps of one and three new skills, a session done before or not; drafts of up to two items; a provider that answers, answers with mistyped values, fails or is absent, with and without replay first |
| `planning_graph_fallback` | Does the fallback plan obey every hard rule: no | the same, with empty drafts |
| `onboarding` | Does every pending claim quote its document and name a skill on grounds, whatever the model says? What does an upload leave that stops? | two uploads at once, the second of plain text and without a model; four texts of up to five words with a misspelling, an instruction, an address and an alias that two skills share; answers of up to two of five quotations, well and badly placed; one quotation that is inside another word, one word that lower case lengthens; two sets of vectors that put labels above, between and below the thresholds |
| `practice` | What may a set hold, what confirms a misconception, do the classes agree? | three requests, two at once; sets of two items, two generated ones at most, of good drafts and three kinds of bad ones; a skill with a prerequisite and a misconception rooted in it |
| `tutor` | Does every turn answer, from what its tools returned? | every kind of question, at any of five states of the record with commits in between; citations right, invented and missing; limits of one or two, so that each is reached |
| `trace` | Does a panel show the run, and is every finished action on record? | two actions of two steps on two ids, a bus that keeps one run and two events of it, two connections |
| `catalog` | Is only a sound catalog committed, and what does a server serve that starts when there are learners? | two servers, the script, a link job, one generated item; three starts, one new release; two sound datasets, eight with one row spoilt, and every graph of hard edges over two skills and an id that is none |
| `catalog_unseeded` | Does a server see a catalog that was seeded after it started, with seeding off: no | the same |

Names of requests, misconceptions and items are symmetric, except that the
requests of `PlanHistory` are numbered in the order they begin. In
`reflection_ladder` one operator is enough for the agent, since what a draft does
depends only on the items it leaves and the policy's drafts have up to three; the
plans were chosen so that the last day is reached and passed, the budget is exceeded
by a remediation, an item is split, and an order of days could be inverted. Deadlock is
not checked: a client may stop sending requests, and the bounded set of them runs
out.

In `planning_graph` the short week makes items compete for the budget (a probe, a
lesson and its practice do not fit together) and the long one leaves room for the
top-up, over a day's cap and up to the 80 % mark; two items of a draft suffice for a
violation of each rule that a parsed draft can break, for a draft that a second one replaces, and for a top-up
that has two chains to continue or is to be dropped because both want the shared
resource.

In `catalog` the link job begins when every start is made, as the script is about to
replace the catalog by another one, and no learner and no other ingestion is there yet:
at other times it finds the resources it has checked. It writes when it likes.

`RunEnds` assumes weak fairness of the run's next step. A run is one coroutine
of straight-line nodes, each provider call is under `asyncio.wait_for`, and the replay
store never raises. Which answer comes is left open.

`EveryReflectionEnds` assumes weak fairness of the
ladder's own steps together (`FairSpec`): they are straight-line code in one
coroutine whose only awaits are calls with a time-out and database statements, so a
step that can be taken is taken. Nothing is assumed of which answer comes.

`EveryTurnAnswers` assumes weak fairness of the turn's next step, for the same
reason: a turn is one coroutine over calls with a time-out. `PanelCatchesUp` assumes
that a watching page connects again (`EventSource` does by itself, as long as the page
wants it) and that the generator of a stream goes on: it delivers what its queue
holds, and wakes every 15 s to notice a client that has gone. Nothing is assumed of
the actions that publish. The other runs state no liveness: an upload, a submission
or an ingestion runs through a graph without a loop, or stops with its request.

Two runs end in a violation; `PROJECT.json` quotes the lines they disagree with. The
fallback plan needs a week with two objectives of which one is the
unverified prerequisite of the other: the probe and the lesson both get day 1. With a
larger budget the fallback plan may also schedule one session of a shared resource
under both objectives, as every queue of the top-up is fixed before its first round;
TLC stops at the first trace, and shows this one when `SessionsInOrder` is asked for
alone. The unseeded server caches the graph of empty tables, which load without an
error, so the fall-back of `get_skill_graph_service` never takes place.

More that the code does and its documents say otherwise, met while modelling; the
models behave as the code does, and the properties above are stated so that they hold:

* The history of a plan is not linear when requests overlap
  (`reflection/service.py:433` against the docstring at 407): `ImplementsLinearHistory`
  is about a client that waits.
* A revert takes done marks back with the items (`reflection/service.py:443`, against
  `docs/EduPath_System_Design.md:1003`).
* A resolution check submitted twice makes a misconception persistent after one
  remediation (`assessment/service.py:159`, against `System_Design.md:1085`).
* A DEFER for a skill without items raises (`reflection/operators.py:193`, against
  `docs/IMPLEMENTATION_STATE.md:1952`), and the policy's draft is lost with it.
* A claim confirmed while answers are graded writes a prior over an assessed row
  (`profiling/commit.py:111`, against the docstring at 114).
* `seed_catalog.py:9` calls itself safe to re-run; `replace_all` cannot delete roles
  and skills that learners refer to, so a second run fails once there are any.
* A planning run can fail to produce a plan (`orchestration/graphs.py:265` and
  `docs/ARCHITECTURE_CONTRACTS.md:334` say it never does): an answer with a list for an
  `objective_id` raises `TypeError` (`planning/prompting.py:204`), which `planner.py:100`
  does not catch, and a number for an `item_id` is refused by `PlanItem`
  (`graphs.py:216`) outside any `try`, so the fallback planner is never reached.
  `RunEnds` says only that a run ends.
* A quotation whose offsets did not check out is looked for in `source_text.lower()`,
  and the index there is stored as one of the text (`evidence_verifier.py:46`, against
  the docstring at 31); a character whose lower case is longer puts it behind.
  `ClaimsQuoteTheText` allows for just that.
* A server that starts while a re-ingestion commits may cache a graph of two
  generations: the nine SELECTs of `fetch_all` see two states.
* After a reset of the demo, which commits before the next learner is made
  (`demo/service.py:159`), an ingestion succeeds while servers run that have cached the
  catalog before it: `RestartServesTheCatalog` speaks of a server as long as there are
  learners, and `CatalogSound` excepts what was drafted for a learner that was erased.
* Of two SELECTs that order nothing (`onboarding.py:33`, `:90`) each may return shared
  aliases in an order of its own; `Phrases` assumes one.
* A repository that cannot be had is to degrade the upload; with a long reason the
  status does not fit its column and PostgreSQL refuses the commit
  (`db/models.py:250`). The handler of `InvalidGitHubUrlError` in `learners.py` is
  never reached, as the client catches it.
* The same file uploaded again is a second document with its claims once more.
* "A follow-up check" (`reflection/service.py:377`, `deterministic.py:152`) may come
  before the remediation it follows: a planner model may write any integer as a day
  (`planning/prompting.py:246`) and no rule bounds it; a remediation goes to the first
  day its skill is planned on, its check to day 5 at the latest (`operators.py:226`).
  `CheckFollowsRemediation` excepts a skill that is planned beyond the week only.
* The fixed answer of the tutor to `get_gaps` always reads "n of n skills"
  (`tutor/conservative.py:41`).
* Two actions at once under one new run id leave one audit record
  (`observability/store.py:44`), hence `raced` in `AuditKept`.

## The proofs

TLAPS proves the following for any number of requests, plans, claims, misconceptions,
items, runs, processes and datasets, and any number in flight. Eight modules hold the
proofs, one for a component and one (`GraphProofs`) for the three graphs G1, G2 and G4,
whose modules define no name in common, so that it extends all three; each invariant was checked by TLC on the component's run
before it was proved.

* `PlanHistoryProofs`: `CurrentInPlan`, `ParentNumberedBelow`, `CurrentIsLeaf`
  and `RevertRecorded`. They are not inductive by themselves. `Inv` adds that rows
  come only from requests that ended (`RowsSound`), and what an open request still
  knows (`RequestsSound`): it read a committed revision of the plan it will write
  to, and the number it has taken is above that revision's number and at most one
  above the count. The count only grows, so that stays true whatever commits in
  between; nothing an open request has read is ever its own row, so the new row is
  a leaf when the pointer moves to it. Of a client that waits `WaitingInv` says more:
  one request is open at most, every plan is numbered 1, 2, ... along its parents up
  to the revision in force (`LinearPlan`), and what the open request read is still so.
  From it follow `WaitingFinishedNotOfferedAgain` and the refinement
  `ImplementsLinearHistory`, step by step: a commit is one `Extend` of the log, a mark
  is one `Mark`, and every other step leaves all logs as they are.
* `MisconceptionsProofs`: `FailuresBehindStatus`. The counter an open request has
  read is at most the number of failed checks committed when it read it; failed
  checks are never deleted; so a blind write of that counter plus one, together
  with the failed check that the same commit inserts, keeps the counter below the
  failures, lost updates included. `RowsBehindHistory` rests on `HistoryInv`:
  submissions are only added and rows never deleted, so the answers, the row and the
  passed check that an open request found are still there when it commits. For a
  client that waits the row read is the row in force, a persistent row counts
  `MaxCycles` failures and its clock is behind no remediation (`WaitingInv`); the
  second look for a row finds what the first did. Hence
  `WaitingPersistentStays` and `WaitingReflectionsSpaced`.
* `LearnerStateProofs`: `LevelIsEarned`. `Inv` says of every open request that the
  row it will write is backed by the row it had read together with the evidence
  and the answers it brings, and that as long as nothing was graded every row read
  or written is the prior of exactly one tier. Priors of different tiers differ in
  both columns, so a column-wise write over another prior is never a mixture; all
  priors of claims are below every level's threshold. For a client that waits the
  record is the row (`WaitingRowIsTheRecord`). `WaitingLevelFollowsAnswers` is a
  statement about thresholds: after n answers alpha is at most 13 n tenths ahead of
  beta, and beta at least one, so two answers followed by a wrong one meet neither the
  threshold of level 3 nor that of the top band just as the third answer opens them.
* `ReflectionLadderProofs`: `AppliedObeysRules`, `PolicyLosesNoWork`,
  `PolicyDelaysInOrder` and `CheckFollowsRemediation`, for any plan, skill graph, gap
  report and any number and length of agent drafts. `Inv` says that the items of a
  plan and of the copy are told apart by their numbers, and that while a policy's
  draft is half applied the copy still holds every finished item and a counterpart
  of every other, and only policy operators are left, which split no finished
  item and defer whole skills to later days. `OrderInv` relates the copy to the plan
  item by item (`DelayedSoFar`) and says where in its recipe a draft that remediates is
  (`RemedyInOrder`): while the struggling skill is deferred and the root cause is not
  the same skill, the items of the root cause stay put, so the remediation goes to the
  day the plan has for it. There is a lemma per operator and one for the drafts.
* `GraphProofs`, of G1: `ClaimsQuoteTheText`, `NeverForceFit`, `ScanFindsWhatIsNamed`
  and `SummaryAddsUp`, for any catalog, documents, redaction, model and embedding.
  `OnboardingInv` follows a claim through the nodes of its request: what waits to be
  verified is a quotation of this text or one of the scan's claims, what was kept is
  such a claim verified, at a place that says or holds it (`SpanFound`), each label already normalised has a ground, and at every step
  extracted = unverified + injection + kept + still to verify (`RunFits`). Without a
  model the drafts still to verify and the claims kept stand for the first places at
  which the text names a skill, each once (`ScanFits`), which is why the rows saved are
  those of `ScanFindsWhatIsNamed`: `ScanEnumerates` says so of the scan's sequence,
  `WordsAreExact` that such a label is resolved by the catalog alone, and `KeptLabel`
  that verifying moves a quotation and never changes its label. `SaveStep` adds that no
  other request writes rows under this upload's id.
* `GraphProofs`, of G2: `CommittedDraftIsValid` for any skills, catalog, learner and
  draft: the only step that ends a run undegraded keeps either the validated
  draft or the validated extension, and nothing moves afterwards.
  `TopUpOnlyContinues` and `FallbackIsSound` are about what the two planners of the
  code compute, for any candidates that fit the catalog (`CandsFit`, part of
  `PlanInv`) and any budget. Each loop has an invariant. After every turn of the top-up
  (`ToppedUp`) the old items stand; the n-th item added for an objective is the n-th
  session of its queue, which is fixed before the first turn and repeats nothing; days
  never go back along an objective; and with the item added the plan is at most at the
  target. After every objective of the frontier (`Walked`) an objective has at most one
  lesson, the first session of its resource, a resource has at most one objective, a
  practice stands behind its lesson, and skills and minutes are within their caps.
  `Extended` puts the two together: whatever a queue has before a session is in the
  plan, earlier and no later in the week, be it from the walk or from the top-up, so a
  resource is studied in order (`TopUpInOrder`, with `WalkInOrder` for the lessons) and
  is ended before the next is begun; moving a practice behind the last study of its
  skill (`_practice_after_study`) disturbs none of it. That a loop's
  recursive function exists and keeps its invariant is shown without an induction
  theorem: of the turns after which it would fail there would be a first (`CountingUp`,
  `Looping`).
  From these and `ReachInv` (the candidates offered are those of the root
  gaps of this learner, none has a resource if it is a probe) `OnlyReachableSkillsTaught`
  follows by V2 and the definition of the BLOCKED overlay, whoever made the plan.
  `RetriesStayBounded` bounds the nested retries.
* `GraphProofs`, of G4: `AnswerGrounded`, `OffersUsable` and `ReportAddsUp` for any
  skill graph, catalog, list of commits, requests and model. `TutorInv` says that the
  analysis of a turn that still has tools to call is made of the learner at its start
  and the evidence of a commit no later than now (`GapTrue`); that of every result
  returned so far the citable ids are ids of the graph or rows of a commit the turn has
  seen, and shown or behind it, its offers are well chosen and its report adds up
  (`ResultTrue`); and that a reply given is grounded (`ReplyTrue`). There is a lemma
  for every tool, and one that results stay true whatever commits later (`ResultLasts`):
  the versions a turn has seen only grow. That two SELECTs of one tool straddle a commit
  matters to the plan's items and the progress report, which read the pointer first:
  its revision is still there, as no revision is deleted. `OffersUsable` rests on the
  ranker: ranks in a strict total order are a bijection (`RanksAreOneToOne`), so
  filtering, sorting and diversifying lose and repeat nothing (`Arranging`,
  `Selecting`, `Sorting`); in the order by variety a resource whose pair was seen
  comes after every first one (`Diversifying`); and the fused relevance has a
  positive best, so every score is a number (`ScoreIsNumber`).
* `PracticeProofs`: `SetsAreSound`, `ConfirmedByTwo` and `ClassesAgree` for any bank,
  drafts and learner. `PracticeInv` says what a request may rely on while others commit:
  the bank and what is graded only grow (`BankSound`, `HistoryKept`); the items a
  request took were in the bank and unseen when it began, the rows the model wrote are
  solved and what it is about to say of the answers was counted against what it had
  read (`RequestsSound`); its ids are nobody else's (`MadeApart`); and what is committed
  was so (`SetsSound`, `OutcomeSound`).
* `TraceProofs`: `PanelFollowsRun` and `AuditKept` for any bounds of the bus. `BusInv`
  follows an event on its way: what the bus keeps of a run, what a stream has queued and
  what the page shows are each in order, what is not shown yet comes after what is, and
  within the bounds nothing is missed. `AuditInv` is about keys: the row of an action
  has its id or its suffixed id, so between its look-up and its insert only another
  action under the same id can take the key, and then both are in `raced`.
* `CatalogProofs`: `VerdictIsRight` for any set of ids and any edges. That
  is a statement about cycles, and the search keeps colours; `CheckInv` connects them:
  the grey ids are exactly those of the stack, none twice, and the stack is a path
  along hard edges; a black id leads to black ids only, and there is no cycle among
  the black ones; every edge of a grey id is yet to follow, leads to a black id or to
  the next id of the stack. Closing an id then adds to the black ones an id that none
  of them leads to (`CloseOneMore`), and an edge to a grey id closes a cycle along the
  stack. Acyclicity is stated without paths (every set of ids has one that leads to
  none of it), which needs no induction. `CatalogSound` and
  `RestartServesTheCatalog` follow from `CatalogInv`: whoever validates has the walk to
  itself, what is past validation is sound, one transaction at a time has inserted and
  it deleted the generation it replaces; while a learner's profile refers to that
  generation no transaction gets past the foreign keys, so that what a server reads
  then, in two steps or request by request, stays what is committed until the last
  learner is erased; and an item of a learner who was not has tags of this generation.
  These hold for every interleaving of the walk's steps with the other
  processes (`Spec`); TLC takes a walk in one piece (`MCSpec`).

The theorems assume the `ASSUME`s of the constants and nothing else: sets of requests
and items are finite and bounds positive; `None` is outside the sets; ids the code
draws at random are new (`FreshIdAssumption` of `Trace`, `IdAssumption` of `Practice`);
a process is a server or a seeder and not both (`ProcsAssumption`) and a dataset's tables are over
known ids (`DatasetsAssumption`); the tags of curated items name misconceptions, and
the model's answers are lists (`ItemsAssumption`, `ResponsesAssumption`);
the graph of hard edges has a depth, that is, no cycle, as a graph with one is
refused (`GraphAssumption`), and skill ids are told apart by their alphabet; a ranking
of the retriever names no resource twice (`PlanningAssumption`);
tiers of claims are E0 to E2; the relation of ancestors contains the prerequisites and
is transitive and irreflexive; what stands in for a contact detail is none, and every
label a model may quote has a vector (`RedactedAssumption`, `LikenessesAssumption`);
the tutor's limits are naturals (`LimitsAssumption`), a resource targets a skill once,
as (`resource_id`, `skill_id`) is a key (`OffersAssumption`), and the columns of the
learner's rows refer to rows that exist, of which no revision is ever deleted
(`HistoryAssumption`).
TLC evaluates each of them on the runs.

Model-checked only, and why:

* Liveness (`EveryReflectionEnds`, `RunEnds`, `EveryTurnAnswers`,
  `PanelCatchesUp`): the prover has no fairness.

Every safety property of a run that passes is a theorem. What is proved of the
planners are the properties above; that `ChainQueue`, `Breadth` and `TopUpTurns` are
what `fill.py` and `fallback.py` compute is the translation, as everywhere.

No module uses `RECURSIVE`.

## Not modelled

* The skill's row and the misconception's row of one submission are two modules
  (`LearnerState`, `Misconceptions`), although one transaction writes both, and each
  follows one skill: the order in which a submission locks the rows of two skills
  (`assessment/service.py:234`) and a deadlock between two submissions are a rollback
  that may happen at any time. `start_remediation`, which only tests call, is left out.
* The soft rules of the plan validator and the audit flags of the gap engine inform
  and never decide. `depends_on` of a plan item is read by the frontend only.
* The recording of model answers for replay, the web fallback gateway and the
  formats of documents (PDF, DOCX, archives) are I/O around what the models take as
  inputs. The vectors of the embedding gateway are inputs (`Likenesses`, the closeness
  of a resource), as is the lexical index the ranker fuses with them.
* The read-only metrics of `api/v1/observability.py` and the views that only shape
  rows into responses keep nothing.
* Of the demo only the reset is modelled, in `Catalog`; the other modules speak of a
  learner who is not erased. It is else a client that calls the other operations, but
  for `apply_seeded_state`, which writes the persona's skill rows as the dataset has
  them: what `LearnerState` says of a level does not hold of such rows. Sign-in resolves the learner of a request, and one
  learner is modelled at a time. `src/data/scripts` are run by hand to write and check
  the dataset that `Catalog` takes as an input: literal tables without state.

PostgreSQL, SQLAlchemy and the LLM providers are external; the models use what the
code relies on: READ COMMITTED visibility, row locks of deletions, unique constraints,
atomic commit, and calls that may take any time or fail.
