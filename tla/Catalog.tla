------------------------------- MODULE Catalog -------------------------------
(***************************************************************************)
(* The curated catalog: the dataset on disk, its validation, the           *)
(* transaction that replaces every catalog table, the skill graph each     *)
(* server process builds from them at its start, and what writes to the    *)
(* tables meanwhile: intake, the Assessor and the link-validation job.     *)
(*                                                                         *)
(* Processes are servers (main.py lifespan, catalog/bootstrap.py) and      *)
(* seeders (scripts/seed_catalog.py); both ingest through                  *)
(* catalog/ingest.py.  The database is PostgreSQL at READ COMMITTED: a     *)
(* statement sees what was committed when it began, waits for the rows     *)
(* another transaction has deleted or inserted, and a foreign key or a     *)
(* primary key in its way aborts the transaction.  One ingestion writes    *)
(* all its rows at once, so the committed catalog is one generation.       *)
(*                                                                         *)
(* MisconceptionsKnownFixes and ReferredByRows are mutants of the          *)
(* definitions that follow them.                                           *)
(***************************************************************************)
EXTENDS PrerequisiteCheck, FiniteSets

CONSTANTS
  None,
  Servers, Seeders,  \* the processes that may ingest
  Jobs,              \* runs of scripts/validate_links.py
  Datasets,          \* what the dataset directory may hold at first
  Releases,          \* and what may replace it
  AUTO_SEED,         \* settings.auto_seed_catalog
  MAX_STARTS,        \* bound: starts of processes
  MAX_RELEASES       \* bound: changes of the dataset directory

ASSUME ProcsAssumption == Servers \cap Seeders = {}
ASSUME BoundsAssumption == AUTO_SEED \in BOOLEAN /\ MAX_STARTS \in Nat
\* The edges of a dataset name ids, of a skill or of none.
ASSUME DatasetsAssumption ==
  \A d \in Datasets \cup Releases :
    /\ d # None /\ d.skills \subseteq Ids
    /\ \A e \in d.edges : {e.from, e.to} \subseteq Ids

VARIABLES
  file,        \* the dataset on disk
  db,          \* the committed catalog: its generation, 0 when empty, and its dataset
  links,       \* link_status of its resources
  learners,    \* some learner row refers to it: a profile names its role
  generated,   \* practice items the Assessor added to its items
  draft,       \* an item the Assessor is generating
  proc,        \* per process: where it is, its dataset and its transaction
  graph,       \* per server: app.state.skill_graph_service
  job,         \* per link job: the statuses it is going to write
  starts, releases

catalogVars == <<file, db, links, learners, generated, draft, proc, graph, job, starts, releases>>
vars == <<checkVars, catalogVars>>

\* What a step of a process inside its own transaction leaves alone.
restVars == <<file, db, links, learners, generated, draft, graph, job, starts, releases>>

Procs == Servers \cup Seeders

Empty == [gen |-> 0, data |-> None]
LinkStatuses == {"ok", "redirected", "broken"}

IdsOf(rows) == {r.id : r \in rows}

-----------------------------------------------------------------------------
(* GraphValidator.validate: what the dataset's rows say of each other.  A   *)
(* dataset's lists are sets here, with the ids they give twice beside them; *)
(* the warnings, which stop nothing, are left out.                          *)

UniqueIds(d) == d.twice = {}

EdgesKnown(d) == \A e \in d.edges : {e.from, e.to} \subseteq d.skills

RolesKnown(d) == \A r \in d.roles : r.needs \subseteq d.skills

ResourcesKnown(d) ==
  \A r \in d.resources : r.targets \cup r.prereqs \subseteq d.skills /\ r.targets # {}

MisconceptionsKnownFixes(d) ==  \* mutant: the remediation resources unchecked
  \A m \in d.misconceptions : {m.skill, m.root} \subseteq d.skills
MisconceptionsKnown(d) ==
  \A m \in d.misconceptions :
    {m.skill, m.root} \subseteq d.skills /\ m.fixes \subseteq IdsOf(d.resources)

ItemsKnown(d) ==
  \A i \in d.items :
    i.skill \in d.skills /\ i.keys = 1 /\ i.tags \subseteq IdsOf(d.misconceptions)

Referenced(d) ==
  UNION ({{e.from, e.to} : e \in d.edges} \cup {r.needs : r \in d.roles}
         \cup {r.targets : r \in d.resources} \cup {{m.skill, m.root} : m \in d.misconceptions}
         \cup {{i.skill} : i \in d.items})
NoOrphans(d) == d.skills \subseteq Referenced(d)

UrlsUsable(d) == \A r \in d.resources : r.https /\ r.link \in LinkStatuses

HardEdges(d) == {<<e.from, e.to>> : e \in {x \in d.edges : x.type = "PREREQUISITE_OF" /\ x.hard}}

RowsAgree(d) ==
  /\ UniqueIds(d) /\ EdgesKnown(d) /\ RolesKnown(d) /\ ResourcesKnown(d)
  /\ MisconceptionsKnown(d) /\ ItemsKnown(d) /\ NoOrphans(d) /\ UrlsUsable(d)

-----------------------------------------------------------------------------
(* GraphLoader.build: nodes with their type from the tables of entities,    *)
(* edges from every table; an edge makes its end points nodes, without a    *)
(* type when no row did.  skillRows is what the SELECT of the skills saw,   *)
(* rest what the eight SELECTs after it saw.                                *)

TypedNodes(skillRows, rest) ==
  [Skill |-> IF skillRows = None THEN {} ELSE skillRows.skills,
   Other |-> IF rest = None THEN {}
             ELSE IdsOf(rest.roles) \cup IdsOf(rest.misconceptions) \cup IdsOf(rest.resources)
                  \cup IdsOf(rest.items)]

GraphEdges(d) ==
  {<<e.from, e.to, e.type>> : e \in d.edges}
  \cup {<<e.to, e.from, e.type>> : e \in {x \in d.edges : x.type = "RELATED_TO"}}
  \cup (UNION {{<<r.id, s, "REQUIRES">> : s \in r.needs} : r \in d.roles})
  \cup (UNION {{<<r.id, s, "TARGETS">> : s \in r.targets} : r \in d.resources})
  \cup {<<i.id, i.skill, "ASSESSES">> : i \in d.items}
  \cup {<<m.id, m.skill, "MISCONCEPTION_OF">> : m \in d.misconceptions}
  \cup {<<m.id, m.root, "ROOTED_IN">> : m \in d.misconceptions}
  \cup (UNION {{<<m.id, r, "REMEDIATED_BY">> : r \in m.fixes \cap IdsOf(d.resources)}
               : m \in d.misconceptions})

Build(skillRows, rest) ==
  [nodes |-> TypedNodes(skillRows, rest),
   edges |-> IF rest = None THEN {} ELSE GraphEdges(rest),
   version |-> IF rest = None THEN "unknown" ELSE rest.release]

\* Nodes a query takes for no skill, role or resource: _require_skill and
\* has_role refuse them.
Untyped(g) ==
  (UNION {{e[1], e[2]} : e \in g.edges}) \ (g.nodes.Skill \cup g.nodes.Other)

-----------------------------------------------------------------------------
(* Transactions.                                                            *)

Idle == [pc |-> "off", data |-> None, saw |-> None, children |-> 0, parents |-> 0,
         item |-> FALSE, inserted |-> FALSE, used |-> FALSE, skillRows |-> None]

InTransaction(p) == proc[p].pc \in {"children", "parents", "skills", "committing"}

\* Another transaction has deleted rows of this generation and not ended.
Held(p, gen) ==
  gen # 0 /\ \E q \in Procs \ {p} : InTransaction(q) /\ gen \in {proc[q].children, proc[q].parents}

\* Done with the catalog, by an exception that rolls the transaction back or
\* at its end: a seeder exits, a server serves, with the graph it has or none.
Through(p) == [Idle EXCEPT !.pc = IF p \in Servers THEN "up" ELSE "off", !.used = proc[p].used]

Init ==
  /\ CheckInit
  /\ file \in Datasets
  /\ db = Empty /\ links = <<>> /\ learners = FALSE
  /\ generated = {} /\ draft = None
  /\ proc = [p \in Procs |-> Idle]
  /\ graph = [s \in Servers |-> None]
  /\ job = [j \in Jobs |-> None]
  /\ starts = 0 /\ releases = 0

-----------------------------------------------------------------------------
(* Starting and validating.                                                 *)

\* The dataset directory gets another dataset.
Release ==
  /\ releases < MAX_RELEASES
  /\ \E d \in Releases \ {file} : file' = d
  /\ releases' = releases + 1
  /\ UNCHANGED <<checkVars, db, links, learners, generated, draft, proc, graph, job, starts>>

\* run_ingestion up to its first await: the files are read and validated.
\* The walk is one process's own; the model has one, so they take turns.
MayCheck == \A q \in Procs : proc[q].pc # "checking"
LoadDataset(p) ==
  /\ MayCheck
  /\ proc' = [proc EXCEPT ![p] = [Idle EXCEPT !.pc = "checking", !.data = file, !.used = learners]]
  /\ Begin(file.skills, HardEdges(file))

\* A server starts; ensure_catalog seeds a catalog without skills.
Seeds == AUTO_SEED /\ db.gen = 0
Start(s) ==
  /\ proc[s].pc = "off" /\ starts < MAX_STARTS
  /\ starts' = starts + 1
  /\ \/ Seeds /\ LoadDataset(s)
     \/ ~ Seeds /\ proc' = [proc EXCEPT ![s] = [Idle EXCEPT !.pc = "loading", !.used = learners]]
        /\ UNCHANGED checkVars
  /\ graph' = [graph EXCEPT ![s] = None]
  /\ UNCHANGED <<file, db, links, learners, generated, draft, job, releases>>

\* seed_catalog.py ingests whatever the catalog holds.
StartSeeding(p) ==
  /\ proc[p].pc = "off" /\ starts < MAX_STARTS
  /\ starts' = starts + 1
  /\ LoadDataset(p)
  /\ UNCHANGED <<file, db, links, learners, generated, draft, graph, job, releases>>

\* A pass of _check_dag.
Walk ==
  /\ CheckStep
  /\ UNCHANGED catalogVars

\* The report is complete: any error stops the ingestion.
Judge(p) ==
  /\ proc[p].pc = "checking" /\ verdict # "walking"
  /\ proc' = [proc EXCEPT ![p] = IF verdict = "acyclic" /\ RowsAgree(@.data)
                                 THEN [@ EXCEPT !.pc = "children"] ELSE Through(p)]
  /\ Forget
  /\ UNCHANGED restVars

-----------------------------------------------------------------------------
(* replace_all: the rows of a skill's dependents, then resources, roles and *)
(* skills are deleted, then the new rows inserted, the skills first.        *)

\* The DELETE of the items, the first of the children, saw one the Assessor added.
SawItem(p) ==
  IF proc[p].pc = "children" /\ proc[p].saw = None THEN generated # {} ELSE proc[p].item

\* A DELETE finds the rows it saw held by another transaction, and waits.
Wait(p) ==
  /\ proc[p].pc \in {"children", "parents"} /\ proc[p].saw = None /\ Held(p, db.gen)
  /\ proc' = [proc EXCEPT ![p] = [@ EXCEPT !.saw = db.gen, !.item = SawItem(p)]]
  /\ UNCHANGED <<checkVars, restVars>>

\* The rows a DELETE saw, and those of them that are still there.
Saw(p) == IF proc[p].saw = None THEN db.gen ELSE proc[p].saw
Deleted(p) == IF Saw(p) = db.gen THEN db.gen ELSE 0

DeleteChildren(p) ==
  /\ proc[p].pc = "children" /\ ~ Held(p, Saw(p))
  /\ proc' = [proc EXCEPT ![p] = [@ EXCEPT !.pc = "parents", !.saw = None,
                                         !.children = Deleted(p), !.item = SawItem(p)]]
  /\ UNCHANGED <<checkVars, restVars>>

\* A child left, or inserted since, or a learner row refers to the rows: the
\* foreign key refuses.
ReferredByRows(p) == proc[p].children # db.gen  \* mutant: learners without a foreign key
StillReferred(p) ==
  \/ proc[p].children # db.gen
  \/ generated # {} /\ ~ proc[p].item
  \/ learners
DeleteParents(p) ==
  /\ proc[p].pc = "parents" /\ ~ Held(p, Saw(p))
  /\ proc' = [proc EXCEPT ![p] =
                IF Deleted(p) # 0 /\ StillReferred(p) THEN Through(p)
                ELSE [@ EXCEPT !.pc = "skills", !.saw = None, !.parents = Deleted(p)]]
  /\ UNCHANGED <<checkVars, restVars>>

\* The first INSERT waits for whoever deleted or inserted the same ids; those
\* committed by somebody else stand in its way.  Two datasets share an id.
InsertSkills(p) ==
  /\ proc[p].pc = "skills" /\ ~ Held(p, db.gen)
  /\ \A q \in Procs \ {p} : ~ proc[q].inserted
  /\ proc' = [proc EXCEPT ![p] = IF proc[p].parents # db.gen THEN Through(p)
                                 ELSE [@ EXCEPT !.pc = "committing", !.inserted = TRUE]]
  /\ UNCHANGED <<checkVars, restVars>>

\* The other rows follow, each after the rows it refers to, and the commit; a
\* server goes on to load the graph.
Commit(p) ==
  /\ proc[p].pc = "committing"
  /\ db' = [gen |-> db.gen + 1, data |-> proc[p].data]
  /\ links' = [r \in IdsOf(proc[p].data.resources) |->
                 (CHOOSE x \in proc[p].data.resources : x.id = r).link]
  /\ generated' = {}
  /\ proc' = [proc EXCEPT ![p] = [Through(p) EXCEPT !.pc = IF p \in Servers THEN "loading" ELSE "off"]]
  /\ UNCHANGED <<checkVars, file, learners, draft, graph, job, starts, releases>>

\* A process dies; the database rolls its transaction back.
Crash(p) ==
  /\ proc[p].pc # "off"
  /\ proc' = [proc EXCEPT ![p] = Idle]
  /\ IF proc[p].pc = "checking" THEN Forget ELSE UNCHANGED checkVars
  /\ graph' = IF p \in Servers THEN [graph EXCEPT ![p] = None] ELSE graph
  /\ UNCHANGED <<file, db, links, learners, generated, draft, job, starts, releases>>

\* Something raises: the database is out of reach or times out, a file is not
\* to be read.  The transaction is rolled back.  A seeder exits; a server says
\* so in its log and comes up without a graph of its own.
Fail(p) ==
  /\ proc[p].pc \notin {"off", "up"}
  /\ proc' = [proc EXCEPT ![p] = Through(p)]
  /\ IF proc[p].pc = "checking" THEN Forget ELSE UNCHANGED checkVars
  /\ UNCHANGED restVars

-----------------------------------------------------------------------------
(* The graph of a server.                                                   *)

ReadSkills(s) ==
  /\ proc[s].pc = "loading"
  /\ proc' = [proc EXCEPT ![s] = [@ EXCEPT !.pc = "building", !.skillRows = db.data]]
  /\ UNCHANGED <<checkVars, restVars>>

ReadRest(s) ==
  /\ proc[s].pc = "building"
  /\ graph' = [graph EXCEPT ![s] = Build(proc[s].skillRows, db.data)]
  /\ proc' = [proc EXCEPT ![s] = Through(s)]
  /\ UNCHANGED <<checkVars, file, db, links, learners, generated, draft, job, starts, releases>>

\* get_skill_graph_service: the cached graph, or one loaded for the request.
Served(s) == IF graph[s] # None THEN graph[s] ELSE Build(db.data, db.data)

-----------------------------------------------------------------------------
(* What else writes to the catalog, or refers to it.                        *)

\* No transaction has deleted the rows an INSERT is about to refer to.
ParentsFree == ~ \E q \in Procs : InTransaction(q) /\ proc[q].parents = db.gen

\* Intake inserts the profile of a learner, whose role must have a row.
Intake(s) ==
  /\ proc[s].pc = "up" /\ ~ learners
  /\ db.gen # 0 /\ db.data.roles # {} /\ ParentsFree
  /\ learners' = TRUE
  /\ UNCHANGED <<checkVars, file, db, links, generated, draft, proc, graph, job, starts, releases>>

\* A reset of the demo erases its learner and commits; the intake that follows
\* is a request's like any other, and may fail.  With it the last learner goes.
\* The demo's next learner has the same id, so requests under way may yet commit.
EraseDemo(s) ==
  /\ proc[s].pc = "up" /\ learners
  /\ learners' = FALSE
  /\ draft' = IF draft = None THEN None ELSE [draft EXCEPT !.erased = TRUE]
  /\ proc' = [p \in Procs |-> [proc[p] EXCEPT !.used = FALSE]]
  /\ UNCHANGED <<checkVars, file, db, links, generated, graph, job, starts, releases>>

\* The Assessor reads the misconceptions of a skill, asks the model, and the
\* item it keeps tags its options with some of them.  Bound: one such item.
DraftItem(s) ==
  /\ proc[s].pc = "up" /\ learners /\ draft = None /\ generated = {}
  /\ \E k \in db.data.skills :
       draft' = [skill |-> k, tags |-> IdsOf({m \in db.data.misconceptions : m.skill = k}),
                 erased |-> FALSE]
  /\ UNCHANGED <<checkVars, file, db, links, learners, generated, proc, graph, job, starts, releases>>

\* The item is committed with the practice set it is for, whose learner and
\* skill must have rows; or the request fails.
StoreItem ==
  /\ draft # None
  /\ \/ /\ learners /\ ParentsFree /\ draft.skill \in db.data.skills
        /\ generated' = generated \cup {draft}
     \/ UNCHANGED generated
  /\ draft' = None
  /\ UNCHANGED <<checkVars, file, db, links, learners, proc, graph, job, starts, releases>>

\* check_url: a HEAD, and a GET when the host answers it with an error.
Answers == {"error", "refused", "found", "moved"}
CheckUrl(head, get) ==
  LET last == IF head = "refused" THEN get ELSE head
  IN CASE last = "found" -> "ok"
       [] last = "moved" -> "redirected"
       [] OTHER          -> "broken"
Findings == {CheckUrl(head, get) : head, get \in Answers}

\* The job loads every resource and checks its URL; what it is going to write is
\* every status that differs from the one it loaded.
CheckLinks(j) ==
  /\ job[j] = None /\ db.gen # 0
  /\ \E found \in [DOMAIN links -> Findings] :
       job' = [job EXCEPT ![j] = [r \in {x \in DOMAIN links : found[x] # links[x]} |-> found[r]]]
  /\ UNCHANGED <<checkVars, file, db, links, learners, generated, draft, proc, graph, starts, releases>>

\* update_link_statuses: the resources that are still there get their status.
StatusAfter(j, r) == IF r \in DOMAIN job[j] THEN job[j][r] ELSE links[r]
StoreLinks(j) ==
  /\ job[j] # None /\ ParentsFree
  /\ links' = [r \in DOMAIN links |-> StatusAfter(j, r)]
  /\ job' = [job EXCEPT ![j] = None]
  /\ UNCHANGED <<checkVars, file, db, learners, generated, draft, proc, graph, starts, releases>>

-----------------------------------------------------------------------------
ValidationNext == Walk \/ \E p \in Procs : Judge(p)

CatalogNext ==
  \/ Release \/ StoreItem
  \/ \E s \in Servers : Start(s) \/ ReadSkills(s) \/ ReadRest(s) \/ Intake(s) \/ EraseDemo(s)
                        \/ DraftItem(s)
  \/ \E p \in Seeders : StartSeeding(p)
  \/ \E p \in Procs : Wait(p) \/ DeleteChildren(p) \/ DeleteParents(p) \/ InsertSkills(p)
                      \/ Commit(p) \/ Crash(p) \/ Fail(p)
  \/ \E j \in Jobs : CheckLinks(j) \/ StoreLinks(j)

Next == ValidationNext \/ CatalogNext

Spec == Init /\ [][Next]_vars

-----------------------------------------------------------------------------
TypeOK ==
  /\ CheckTypeOK
  /\ db.gen \in 0..MAX_STARTS /\ (db.gen = 0 <=> db.data = None)
  /\ {learners, AUTO_SEED} \subseteq BOOLEAN
  /\ \A p \in Procs : proc[p].pc \in {"off", "checking", "children", "parents", "skills", "committing",
                                      "loading", "building", "up"}

\* What is committed at any time can be taught from: the hard prerequisites
\* have no cycle, and the references no foreign key guards resolve, those of
\* the items generated since the catalog was loaded included, unless the demo
\* was reset while they were: the tags of an item name misconceptions, the
\* candidates of a misconception name resources.  A link job that outlives an
\* ingestion leaves statuses of its resources only.
CatalogSound ==
  /\ TypeOK
  /\ db.gen # 0 =>
       /\ Acyclic(Ids, HardEdges(db.data))
       /\ links \in [IdsOf(db.data.resources) -> LinkStatuses]
       /\ \A m \in db.data.misconceptions : m.fixes \subseteq IdsOf(db.data.resources)
       /\ \A i \in db.data.items \cup {g \in generated : ~ g.erased} :
            i.tags \subseteq IdsOf(db.data.misconceptions)

\* A server that starts when there are learners serves the committed catalog,
\* whole, as long as there are: out of the graph it loaded at its start, though
\* an ingestion was half-way, or, when that load failed, request by request.
RestartServesTheCatalog ==
  \A s \in Servers : proc[s].pc = "up" /\ proc[s].used =>
    Served(s) = Build(db.data, db.data) /\ Untyped(Served(s)) = {}

\* api/deps.py:70 of get_skill_graph_service: the graph is loaded per request
\* when "the catalog wasn't seeded when the process started".
SeededCatalogIsServed ==
  \A s \in Servers : proc[s].pc = "up" /\ db.gen # 0 => Served(s).nodes.Skill # {}
=============================================================================
