---------------------------- MODULE PlanHistory ----------------------------
(***************************************************************************)
(* The weekly plans of one learner and the revisions written to them by    *)
(* concurrent HTTP requests.                                               *)
(*                                                                         *)
(* Every request is one database transaction at READ COMMITTED: it reads   *)
(* the plan row, works (perhaps for the seconds an LLM call takes), counts *)
(* the plan's revisions, inserts its own and commits once, at the end of   *)
(* the route.  No row is locked when it is read and no constraint protects *)
(* (plan_id, revision_no).  A request that fails anywhere rolls back.      *)
(*                                                                         *)
(* A request creates at most one revision and at most one plan, so the     *)
(* request stands for the uuid of both.                                    *)
(*                                                                         *)
(* NextNumberUnreverted, CompletedInForce, NewRowBesideReverted,           *)
(* RowsMarkingRestored, PointerForgotten and PointerToRestored are mutants *)
(* of the definitions they precede: no action uses them.                   *)
(***************************************************************************)
EXTENDS Naturals, FiniteSets

CONSTANTS
  Requests,      \* the requests of the learner; also the ids of plans and revisions
  Activities,    \* what a plan item schedules: a study session of a resource
  None,          \* SQL NULL
  MaxInFlight,   \* how many requests may be open at once (1: a client that waits)
  PatchExposed,  \* whether something calls patch_existing_plan (no route does)
  AgentEdits     \* TRUE when an LLM provider is configured (LLM_PROVIDER # none)

ASSUME NoneAssumption == None \notin Requests
ASSUME RequestsAssumption == IsFiniteSet(Requests)
ASSUME MaxInFlightAssumption == MaxInFlight \in Nat \ {0}
ASSUME SwitchesAssumption == PatchExposed \in BOOLEAN /\ AgentEdits \in BOOLEAN

VARIABLES
  plans,      \* committed weekly_plans rows
  current,    \* weekly_plans.current_revision_id
  revisions,  \* committed plan_revisions rows
  row,        \* their columns
  items,      \* the status of every activity in a revision's plan_items
  startedAt,  \* when a transaction began: now() of every row it inserts
  clock,
  pc,         \* where each request is
  tx          \* what each request has read and is about to write

vars == <<plans, current, revisions, row, items, startedAt, clock, pc, tx>>

ItemStatus == {"planned", "done", "skipped"}
Content == [Activities -> ItemStatus \cup {"absent"}]
EmptyContent == [a \in Activities |-> "absent"]

Kinds == {"initial", "reflection", "patch", "user_override", "mark"}
RevisionRow == [plan : Requests \cup {None}, no : Nat,
                parent : Requests \cup {None}, cause : Kinds,
                reverted_by : Requests \cup {None}]
Transaction == [kind : Kinds, plan : Requests \cup {None},
                seen : Requests \cup {None}, no : Nat, draft : Content]

NoRow == [plan |-> None, no |-> 0, parent |-> None,
          cause |-> "initial", reverted_by |-> None]
NoTx == [kind |-> "initial", plan |-> None, seen |-> None,
         no |-> 0, draft |-> EmptyContent]

InFlight == {r \in Requests : pc[r] \in {"begun", "read", "numbered"}}
RevisionsOf(p) == {v \in revisions : row[v].plan = p}

\* get_current_plan_for_learner: the plan whose created_at is the latest.
IsLatestPlan(p) == p \in plans /\ \A q \in plans : startedAt[q] <= startedAt[p]

\* list_completed_session_ids: done in any revision of any plan.
CompletedInForce ==
  {a \in Activities : \E p \in plans : current[p] # None /\ items[current[p]][a] = "done"}
Completed == {a \in Activities : \E v \in revisions : items[v][a] = "done"}

-----------------------------------------------------------------------------
Init ==
  /\ plans = {}
  /\ current = [r \in Requests |-> None]
  /\ revisions = {}
  /\ row = [r \in Requests |-> NoRow]
  /\ items = [r \in Requests |-> EmptyContent]
  /\ startedAt = [r \in Requests |-> 0]
  /\ clock = 0
  /\ pc = [r \in Requests |-> "idle"]
  /\ tx = [r \in Requests |-> NoTx]

database == <<plans, current, revisions, row, items>>

\* The first statement of a request opens its transaction.
Begin(r) ==
  /\ pc[r] = "idle"
  /\ Cardinality(InFlight) < MaxInFlight
  /\ clock' = clock + 1
  /\ startedAt' = [startedAt EXCEPT ![r] = clock + 1]
  /\ pc' = [pc EXCEPT ![r] = "begun"]
  /\ UNCHANGED <<database, tx>>

\* The session is closed: what the request had read goes with it.
End(r) ==
  /\ pc' = [pc EXCEPT ![r] = "ended"]
  /\ tx' = [tx EXCEPT ![r] = NoTx]

\* An exception, a 404 or a lost connection: nothing of the request is kept.
\* A reflection that needs attention, or that has no plan, writes no revision
\* and ends the same way as far as the plans are concerned.
Rollback(r) ==
  /\ pc[r] \in {"begun", "read", "numbered"}
  /\ End(r)
  /\ UNCHANGED <<database, startedAt, clock>>

Read(r, t) ==
  /\ pc[r] = "begun"
  /\ tx' = [tx EXCEPT ![r] = t]
  /\ pc' = [pc EXCEPT ![r] = "read"]
  /\ UNCHANGED <<database, startedAt, clock>>

\* What the planning graph may schedule: planned items, and no session the
\* learner has completed.
PlannerDraft(d) ==
  \E offered \in SUBSET (Activities \ Completed) :
    d = [a \in Activities |-> IF a \in offered THEN "planned" ELSE "absent"]

\* What the operators make of the current items.  The deterministic policy
\* inserts items and moves the others; only an LLM agent's draft may also
\* remove items (REMOVE_DUPLICATE), whatever their status.
PatchedDraft(base, d) ==
  \E removed \in SUBSET Activities, added \in SUBSET Activities :
    /\ removed # {} => AgentEdits
    /\ \A a \in added : base[a] = "absent"
    /\ \A a \in removed : base[a] # "absent"
    /\ d = [a \in Activities |->
              CASE a \in added -> "planned"
                [] a \in removed -> "absent"
                [] OTHER -> base[a]]

\* create_plan: the plan row is the request's own, so nothing is read of it.
ReadForCreate(r) ==
  \E d \in Content :
    /\ PlannerDraft(d)
    /\ Read(r, [kind |-> "initial", plan |-> r, seen |-> None, no |-> 0, draft |-> d])

\* patch_existing_plan: any plan of the learner, by id.
ReadForPatch(r) ==
  \E p \in plans, d \in Content :
    /\ PatchExposed
    /\ current[p] # None
    /\ PlannerDraft(d)
    /\ Read(r, [kind |-> "patch", plan |-> p, seen |-> current[p], no |-> 0, draft |-> d])

\* run_reflection up to an approved draft.
ReadForReflection(r) ==
  \E p \in plans, d \in Content :
    /\ IsLatestPlan(p)
    /\ current[p] # None
    /\ PatchedDraft(items[current[p]], d)
    /\ Read(r, [kind |-> "reflection", plan |-> p, seen |-> current[p], no |-> 0, draft |-> d])

\* revert_to_previous_revision: the revision named in the URL must be the
\* current one, and must have a parent, whose items are read.
ReadForRevert(r) ==
  \E p \in plans, v \in revisions :
    /\ current[p] = v
    /\ row[v].plan = p
    /\ row[v].parent \in revisions
    /\ Read(r, [kind |-> "user_override", plan |-> p, seen |-> v, no |-> 0,
                draft |-> items[row[v].parent]])

\* update_plan_item: the item must belong to the current revision.  The draft
\* holds the new status of the one item it changes.
ReadForMark(r) ==
  \E p \in plans, a \in Activities, s \in ItemStatus :
    /\ IsLatestPlan(p)
    /\ current[p] # None
    /\ items[current[p]][a] # "absent"
    /\ items[current[p]][a] # s   \* an unchanged attribute is not written back
    /\ Read(r, [kind |-> "mark", plan |-> p, seen |-> current[p], no |-> 0,
                draft |-> [EmptyContent EXCEPT ![a] = s]])

\* revision_no = len(prior_revisions) + 1, from the rows committed so far.
NextNumberUnreverted(p) == Cardinality({v \in RevisionsOf(p) : row[v].reverted_by = None}) + 1
NextNumber(p) == Cardinality(RevisionsOf(p)) + 1
Number(r) ==
  /\ pc[r] = "read"
  /\ tx[r].kind # "mark"
  /\ tx' = [tx EXCEPT ![r].no = NextNumber(tx[r].plan)]
  /\ pc' = [pc EXCEPT ![r] = "numbered"]
  /\ UNCHANGED <<database, startedAt, clock>>

\* The rows after the commit of a revision.  mark_reverted names it in the
\* revision a revert replaces.
NewRowBesideReverted(r) == [plan |-> tx[r].plan, no |-> tx[r].no, cause |-> tx[r].kind,
              parent |-> IF tx[r].kind = "user_override" THEN row[tx[r].seen].parent
                         ELSE tx[r].seen,
              reverted_by |-> None]
NewRow(r) == [plan |-> tx[r].plan, no |-> tx[r].no, cause |-> tx[r].kind,
              parent |-> tx[r].seen, reverted_by |-> None]
RowsMarkingRestored(r) ==
  [v \in Requests |->
     CASE v = r -> NewRow(r)
       [] v # r /\ tx[r].kind = "user_override" /\ v = row[tx[r].seen].parent ->
            [row[v] EXCEPT !.reverted_by = r]
       [] OTHER -> row[v]]
RowsAfter(r) ==
  [v \in Requests |->
     CASE v = r -> NewRow(r)
       [] v = tx[r].seen /\ v # r /\ tx[r].kind = "user_override" ->
            [row[v] EXCEPT !.reverted_by = r]
       [] OTHER -> row[v]]

\* The pointer of the plan is written whatever it holds by now.
PointerForgotten(r) == current
PointerToRestored(r) ==
  [current EXCEPT ![tx[r].plan] =
     IF tx[r].kind = "user_override" THEN row[tx[r].seen].parent ELSE r]
PointerAfter(r) == [current EXCEPT ![tx[r].plan] = r]

\* The commit of a revision: its row, its items and the pointer.
CommitRevision(r) ==
  /\ pc[r] = "numbered"
  /\ plans' = plans \cup {tx[r].plan}
  /\ revisions' = revisions \cup {r}
  /\ row' = RowsAfter(r)
  /\ items' = [items EXCEPT ![r] = tx[r].draft]
  /\ current' = PointerAfter(r)
  /\ End(r)
  /\ UNCHANGED <<startedAt, clock>>

\* The commit of a mark: the item of the revision that was read.
CommitMark(r) ==
  /\ pc[r] = "read"
  /\ tx[r].kind = "mark"
  /\ items' = [items EXCEPT ![tx[r].seen] =
                 [a \in Activities |->
                    IF tx[r].draft[a] # "absent" THEN tx[r].draft[a] ELSE @[a]]]
  /\ End(r)
  /\ UNCHANGED <<plans, current, revisions, row, startedAt, clock>>

Next ==
  \E r \in Requests :
    \/ Begin(r)
    \/ Rollback(r)
    \/ ReadForCreate(r)
    \/ ReadForPatch(r)
    \/ ReadForReflection(r)
    \/ ReadForRevert(r)
    \/ ReadForMark(r)
    \/ Number(r)
    \/ CommitRevision(r)
    \/ CommitMark(r)

Spec == Init /\ [][Next]_vars

-----------------------------------------------------------------------------
TypeOK ==
  /\ plans \subseteq Requests
  /\ current \in [Requests -> Requests \cup {None}]
  /\ revisions \subseteq Requests
  /\ row \in [Requests -> RevisionRow]
  /\ items \in [Requests -> Content]
  /\ startedAt \in [Requests -> Nat]
  /\ clock \in Nat
  /\ pc \in [Requests -> {"idle", "begun", "read", "numbered", "ended"}]
  /\ tx \in [Requests -> Transaction]

\* A committed plan always points at one of its own revisions, whatever the
\* requests that raced to write the pointer (get_current_plan_route reads the
\* revision and its items through it).
CurrentInPlan == \A p \in plans : current[p] \in RevisionsOf(p)

\* Following parent_revision_id from any revision stays in the plan, goes to
\* strictly smaller revision numbers and so ends: two requests may take the same
\* number, but none takes a number that is not above its parent's.
ParentNumberedBelow ==
  \A p \in plans : \A v \in RevisionsOf(p) : row[v].parent # None =>
    /\ row[v].parent \in RevisionsOf(p)
    /\ row[row[v].parent].no < row[v].no

\* Nothing was ever built on top of the revision in force: the pointer, written
\* blindly by each commit, never falls back to a revision that has a successor.
CurrentIsLeaf == \A p \in plans, v \in revisions : row[v].parent # current[p]

\* reverted_by names a revert of exactly that revision (mark_reverted), and a
\* plan never shows a revision the learner has reverted.
RevertRecorded ==
  \A v \in revisions : row[v].reverted_by # None =>
    LET w == row[v].reverted_by IN
    /\ w \in revisions
    /\ row[w].parent = v
    /\ row[w].cause = "user_override"
    /\ \A p \in plans : current[p] # v

\* What makes the five invariants above inductive: where rows and open requests
\* come from, and that no number taken is above the number of revisions.
RowsSound ==
  /\ plans \subseteq revisions
  /\ \A v \in revisions : pc[v] = "ended" /\ row[v].plan \in plans
  /\ \A p \in plans : \A v \in RevisionsOf(p) :
       row[v].no \in 1..Cardinality(RevisionsOf(p))
RequestSound(r) ==
  pc[r] \in {"read", "numbered"} =>
    /\ IF tx[r].kind = "initial"
       THEN tx[r].plan = r /\ tx[r].seen = None
       ELSE tx[r].plan \in plans /\ tx[r].seen \in RevisionsOf(tx[r].plan)
    /\ pc[r] = "numbered" =>
         /\ tx[r].kind # "mark"
         /\ tx[r].no \in 1..Cardinality(RevisionsOf(tx[r].plan)) + 1
         /\ tx[r].seen # None => row[tx[r].seen].no < tx[r].no
RequestsSound == \A r \in Requests : RequestSound(r)

Inv ==
  /\ TypeOK
  /\ RowsSound
  /\ RequestsSound
  /\ CurrentInPlan
  /\ ParentNumberedBelow
  /\ CurrentIsLeaf
  /\ RevertRecorded

\* A plan the planner drafts never offers a session the learner has finished,
\* even one whose done mark a later revert took out of the revision in force
\* (list_completed_session_ids looks at every revision of every plan).
FinishedNotOffered ==
  \A v \in revisions' \ revisions : row'[v].cause \in {"initial", "patch"} =>
    \A w \in revisions, a \in Activities :
      items[w][a] = "done" => items'[v][a] = "absent"

-----------------------------------------------------------------------------
(* The log of each plan, as LinearHistory sees it, when numbers are unique. *)
EntryOf(v) == [id |-> v, no |-> row[v].no, parent |-> row[v].parent,
               cause |-> row[v].cause, content |-> items[v]]
LogOf(p) == [n \in 1..Cardinality(RevisionsOf(p)) |->
               EntryOf(CHOOSE v \in RevisionsOf(p) : row[v].no = n)]

Linear == INSTANCE LinearHistory WITH
  Plans <- Requests, Revisions <- Requests, Contents <- Content,
  Causes <- Kinds, log <- [p \in Requests |-> LogOf(p)], inForce <- current

=============================================================================
