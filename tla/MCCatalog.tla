------------------------------ MODULE MCCatalog ------------------------------
(***************************************************************************)
(* Catalog for TLC.  The dataset on disk is one of two that are sound, one *)
(* of them with a single row spoilt, or the first with other hard edges    *)
(* among its two skills and an id that is none; the two of these that      *)
(* would be as sound as the first are left out.                            *)
(***************************************************************************)
EXTENDS Catalog, TLC

CONSTANTS s1, s2, p1, j1, a, b, x, r1, r2, m1, m2, i1, role

Edge(from, to, type, h) == [from |-> from, to |-> to, type |-> type, hard |-> h]

First ==
  [release |-> "1", twice |-> {}, skills |-> {a, b},
   edges |-> {Edge(a, b, "PREREQUISITE_OF", TRUE)},
   roles |-> {[id |-> role, needs |-> {b}]},
   resources |-> {[id |-> r1, targets |-> {a, b}, prereqs |-> {a}, https |-> TRUE, link |-> "ok"]},
   misconceptions |-> {[id |-> m1, skill |-> b, root |-> a, fixes |-> {r1}]},
   items |-> {[id |-> i1, skill |-> b, keys |-> 1, tags |-> {m1}]}]

\* The next release drops a resource and a misconception, and adds a skill.
Second ==
  [First EXCEPT
     !.release = "2", !.skills = {a, b, x},
     !.edges = @ \cup {Edge(b, x, "PREREQUISITE_OF", TRUE), Edge(x, a, "RELATED_TO", FALSE)},
     !.resources = {[id |-> r2, targets |-> {x}, prereqs |-> {}, https |-> TRUE, link |-> "redirected"]},
     !.misconceptions = {[id |-> m2, skill |-> b, root |-> a, fixes |-> {r2}]},
     !.items = {[id |-> i1, skill |-> b, keys |-> 1, tags |-> {m2}]}]

Spoilt ==
  {[First EXCEPT !.twice = {a}],
   [First EXCEPT !.skills = {a, b, x}],
   [First EXCEPT !.roles = {[id |-> role, needs |-> {x}]}],
   [First EXCEPT !.resources = {[id |-> r1, targets |-> {}, prereqs |-> {a}, https |-> TRUE, link |-> "ok"]}],
   [First EXCEPT !.resources = {[id |-> r1, targets |-> {b}, prereqs |-> {a}, https |-> FALSE, link |-> "ok"]}],
   [First EXCEPT !.misconceptions = {[id |-> m1, skill |-> b, root |-> a, fixes |-> {r2}]}],
   [First EXCEPT !.items = {[id |-> i1, skill |-> b, keys |-> 2, tags |-> {m1}]}],
   [First EXCEPT !.items = {[id |-> i1, skill |-> b, keys |-> 1, tags |-> {m2}]}]}

MCIds == {a, b, x}
Rewired ==
  {[First EXCEPT !.edges = {Edge(e[1], e[2], "PREREQUISITE_OF", TRUE) : e \in E}]  :
     E \in {F \in SUBSET (MCIds \X MCIds) : ~ (F \subseteq {<<b, a>>})}}

MCReleases == {First, Second}
MCDatasets == {First, Second} \cup Spoilt \cup Rewired

\* A walk touches nothing but its own state, so TLC takes it in one piece: only
\* its process moves until the report is judged, fails or dies.
Checking == \E p \in Procs : proc[p].pc = "checking"

\* Bound: the link job begins when every start is made and beside the script, as
\* it is about to replace the catalog by another; no learner and no other
\* ingestion is there yet.
LinksCheckedInTime ==
  \A j \in Jobs : job[j] = None /\ job'[j] # None =>
    /\ starts = MAX_STARTS /\ ~ learners /\ draft = None /\ generated = {}
    /\ \E p \in Seeders : proc[p].pc = "children" /\ proc[p].data # db.data
    /\ \A s \in Servers : proc[s].pc \in {"off", "up"}

MCNext ==
  \/ ValidationNext
  \/ ~ Checking /\ CatalogNext /\ LinksCheckedInTime
  \/ \E p \in Procs : proc[p].pc = "checking" /\ (Crash(p) \/ Fail(p))
MCSpec == Init /\ [][MCNext]_vars

Interchangeable == Permutations({s1, s2})
=============================================================================
