------------------------------- MODULE Trace --------------------------------
(***************************************************************************)
(* The trace of an action and who sees it: the run context a request fills *)
(* with steps (observability/context.py), the in-process bus that fans the *)
(* steps of a client-chosen run id out over SSE (sse/trace.py,             *)
(* api/v1/runs.py), the panel of the page that asked for them              *)
(* (frontend/lib/trace-store.ts), and the audit rows written once the      *)
(* response is out (main.py, observability/store.py).                      *)
(*                                                                         *)
(* The bus runs on one event loop and its queues are unbounded, so a       *)
(* publish or a subscription happens in one piece; requests, connections   *)
(* and the two statements of an audit write interleave.  An event is its   *)
(* step: the request and the step's number in it.                          *)
(*                                                                         *)
(* PublishedToFirst, SubscribedBlank and KeptUnderItsId are mutants of the *)
(* definitions they precede: no action uses them.                          *)
(***************************************************************************)
EXTENDS Naturals, Sequences, FiniteSets, SequencesExt

CONSTANTS
  Requests,            \* the requests under /api
  Reads,               \* those of them that are a GET
  RunIds,              \* the ids clients choose for X-Run-Id
  Watched,             \* those of them whose page shows a panel
  Conns,               \* bound on the connections to the event streams
  None,
  MaxSteps,            \* bound on the steps of a request
  MAX_REPLAY_RUNS,
  MAX_EVENTS_PER_RUN

ASSUME NoneAssumption == None \notin RunIds /\ None \notin Requests /\ None \notin Conns
ASSUME ReadsAssumption == Reads \subseteq Requests
ASSUME WatchedAssumption == Watched \subseteq RunIds
\* A request that brings no id gets a new one (uuid4), which no client chose.
ASSUME FreshIdAssumption == Requests \cap RunIds = {}
ASSUME BoundsAssumption ==
  MAX_REPLAY_RUNS \in Nat \ {0} /\ MAX_EVENTS_PER_RUN \in Nat \ {0} /\ MaxSteps \in Nat

\* "call" is the gateway's own step of a model call: recorded, never streamed.
StepKinds == {"step", "call"}
Events == Requests \X (1..MaxSteps)

VARIABLES
  ctx,      \* of each request its RunContext, and how far it is
  history,  \* TraceBus._history: the runs in the order of their last event
  conns,    \* the connections, with the queue the bus has registered for them
  panel,    \* of each watched run what its page shows, and its live connection
  rows      \* agent_runs with their agent_steps

vars == <<ctx, history, conns, panel, rows>>

Idle == [phase |-> "idle", id |-> None, steps |-> <<>>, key |-> None]
Free == [phase |-> "free", run |-> None, queue |-> <<>>]
Watching == [open |-> TRUE, conn |-> None, shown |-> <<>>]

Init ==
  /\ ctx = [r \in Requests |-> Idle]
  /\ history = <<>>
  /\ conns = [c \in Conns |-> Free]
  /\ panel = [i \in Watched |-> Watching]
  /\ rows = {}

----------------------------------------------------------------------------
(* The bus.                                                                *)

Recorded(i) == {n \in DOMAIN history : history[n].run = i}
EventsOf(i) == IF Recorded(i) = {} THEN <<>>
               ELSE history[CHOOSE n \in Recorded(i) : TRUE].events
Registered(c) == conns[c].phase \in {"streaming", "dropped"}

\* The run moves to the end, keeps what its bound lets it, and the run
\* silent for longest goes.
HistoryWith(e, i) ==
  LET rest == IF Recorded(i) = {} THEN history
              ELSE RemoveAt(history, CHOOSE n \in Recorded(i) : TRUE)
      events == IF Len(EventsOf(i)) < MAX_EVENTS_PER_RUN
                THEN Append(EventsOf(i), e) ELSE EventsOf(i)
      all == Append(rest, [run |-> i, events |-> events])
  IN  IF Len(all) > MAX_REPLAY_RUNS THEN Tail(all) ELSE all

PublishedToFirst(e, i) ==
  LET queues == {c \in Conns : Registered(c) /\ conns[c].run = i} IN
  /\ history' = HistoryWith(e, i)
  /\ conns' = [c \in Conns |->
                 IF c \in queues /\ c = CHOOSE q \in queues : TRUE
                 THEN [conns[c] EXCEPT !.queue = Append(@, e)] ELSE conns[c]]

Publish(e, i) ==
  /\ history' = HistoryWith(e, i)
  /\ conns' = [c \in Conns |->
                 IF Registered(c) /\ conns[c].run = i
                 THEN [conns[c] EXCEPT !.queue = Append(@, e)] ELSE conns[c]]

SubscribedBlank(i) == [phase |-> "streaming", run |-> i, queue |-> <<>>]
Subscribed(i) == [phase |-> "streaming", run |-> i, queue |-> EventsOf(i)]

----------------------------------------------------------------------------
(* The requests.                                                           *)

Open(r, i) ==
  /\ ctx[r].phase = "idle"
  /\ ctx' = [ctx EXCEPT ![r].phase = "running", ![r].id = i]
  /\ UNCHANGED <<history, conns, panel, rows>>

AddStep(r, kind) == Append(ctx[r].steps, kind)

\* The step is the request's whatever comes of streaming it.
Emit(r, kind) ==
  LET steps == AddStep(r, kind) IN
  /\ ctx[r].phase = "running"
  /\ Len(ctx[r].steps) < MaxSteps
  /\ ctx' = [ctx EXCEPT ![r].steps = steps]
  /\ IF ctx[r].id # None /\ kind # "call"
     THEN Publish(<<r, Len(steps)>>, ctx[r].id)
     ELSE UNCHANGED <<history, conns>>
  /\ UNCHANGED <<panel, rows>>

\* _should_persist
WorthKeeping(r) == r \notin Reads \/ ctx[r].steps # <<>> \/ ctx[r].id # None

\* The response is out, or an exception has become a 500: the middleware's
\* finally runs either way.
Respond(r) ==
  /\ ctx[r].phase = "running"
  /\ ctx' = [ctx EXCEPT ![r].phase = IF WorthKeeping(r) THEN "responded" ELSE "done"]
  /\ UNCHANGED <<history, conns, panel, rows>>

----------------------------------------------------------------------------
(* The audit write: look the id up, insert, swallow what fails.            *)

Keys == {row.key : row \in rows}
\* A request without an id of the client's has a fresh one.
OwnKey(r) == IF ctx[r].id # None THEN <<ctx[r].id>> ELSE <<r>>

KeptUnderItsId(r) == OwnKey(r)

\* A reused id is kept under a suffix of its own.
KeyFor(r) ==
  IF OwnKey(r) \in Keys THEN <<ctx[r].id, r>> ELSE OwnKey(r)

LookUp(r) ==
  /\ ctx[r].phase = "responded"
  /\ ctx' = [ctx EXCEPT ![r].phase = "saving", ![r].key = KeyFor(r)]
  /\ UNCHANGED <<history, conns, panel, rows>>

Insert(r) ==
  /\ ctx[r].phase = "saving"
  /\ ctx[r].key \notin Keys
  /\ rows' = rows \cup {[key |-> ctx[r].key, of |-> r, steps |-> ctx[r].steps]}
  /\ ctx' = [ctx EXCEPT ![r].phase = "done"]
  /\ UNCHANGED <<history, conns, panel>>

\* The primary key is taken since, or the database is out of reach.
InsertConflicts(r) ==
  /\ ctx[r].phase = "saving"
  /\ ctx[r].key \in Keys
  /\ ctx' = [ctx EXCEPT ![r].phase = "lost"]
  /\ UNCHANGED <<history, conns, panel, rows>>

SaveFails(r) ==
  /\ ctx[r].phase = "saving"
  /\ ctx' = [ctx EXCEPT ![r].phase = "unsaved"]
  /\ UNCHANGED <<history, conns, panel, rows>>

----------------------------------------------------------------------------
(* The streams and the panels.                                             *)

\* EventSource connects, and again after every drop, until it is closed.
Unused == {c \in Conns : conns[c].phase = "free"}
Connect(i) ==
  /\ panel[i].open /\ panel[i].conn = None
  /\ Unused # {}
  /\ LET c == CHOOSE c \in Unused : TRUE IN
       /\ conns' = [conns EXCEPT ![c] = Subscribed(i)]
       /\ panel' = [panel EXCEPT ![i].conn = c]
  /\ UNCHANGED <<ctx, history, rows>>

\* The page drops an event whose step it already shows.
Shown(shown, e) == IF e \in ToSet(shown) THEN shown ELSE Append(shown, e)

Deliver(c) ==
  LET i == conns[c].run IN
  /\ conns[c].phase = "streaming"
  /\ conns[c].queue # <<>>
  /\ conns' = [conns EXCEPT ![c].queue = Tail(@)]
  /\ panel' = [panel EXCEPT ![i].shown = Shown(@, Head(conns[c].queue))]
  /\ UNCHANGED <<ctx, history, rows>>

\* The network goes; the server has not noticed.
Drop(c) ==
  /\ conns[c].phase = "streaming"
  /\ conns' = [conns EXCEPT ![c].phase = "dropped"]
  /\ panel' = [panel EXCEPT ![conns[c].run].conn = None]
  /\ UNCHANGED <<ctx, history, rows>>

\* traced() closes its stream a moment after its call has returned.
Close(i) ==
  LET c == panel[i].conn IN
  /\ panel[i].open
  /\ \E r \in Requests : ctx[r].id = i /\ ctx[r].phase \notin {"idle", "running"}
  /\ panel' = [panel EXCEPT ![i].open = FALSE, ![i].conn = None]
  /\ conns' = IF c = None THEN conns ELSE [conns EXCEPT ![c].phase = "dropped"]
  /\ UNCHANGED <<ctx, history, rows>>

\* The generator's finally.
Unsubscribed(c) == [Free EXCEPT !.phase = "ended"]

\* An event that was still waited for goes nowhere; then, or after a ping,
\* the loop sees that the client has gone.
Notice(c) ==
  /\ conns[c].phase = "dropped"
  /\ conns' = [conns EXCEPT ![c] = Unsubscribed(c)]
  /\ UNCHANGED <<ctx, history, panel, rows>>

----------------------------------------------------------------------------
Next ==
  \/ \E r \in Requests :
       \/ \E i \in RunIds \cup {None} : Open(r, i)
       \/ \E kind \in StepKinds : Emit(r, kind)
       \/ Respond(r) \/ LookUp(r) \/ Insert(r) \/ InsertConflicts(r) \/ SaveFails(r)
  \/ \E i \in Watched : Connect(i) \/ Close(i)
  \/ \E c \in Conns : Deliver(c) \/ Drop(c) \/ Notice(c)

\* A browser reconnects, a generator drains its queue and wakes at least
\* every fifteen seconds.
Fairness ==
  /\ \A i \in Watched : WF_vars(Connect(i))
  /\ \A c \in Conns : WF_vars(Deliver(c)) /\ WF_vars(Notice(c))

Spec == Init /\ [][Next]_vars
FairSpec == Spec /\ Fairness

----------------------------------------------------------------------------
\* The types, and that the bus keeps no more than its bounds.
Phases == {"idle", "running", "responded", "saving", "done", "lost", "unsaved"}
Kept == {<<i>> : i \in RunIds \cup Requests} \cup (RunIds \cup {None}) \X Requests
TypeOK ==
  /\ ctx \in [Requests -> [phase : Phases, id : RunIds \cup {None},
                           steps : Seq(StepKinds), key : Kept \cup {None}]]
  /\ \A r \in Requests : Len(ctx[r].steps) <= MaxSteps
  /\ history \in Seq([run : RunIds, events : Seq(Events)])
  /\ Len(history) <= MAX_REPLAY_RUNS
  /\ \A n \in DOMAIN history : Len(history[n].events) <= MAX_EVENTS_PER_RUN
  /\ conns \in [Conns -> [phase : {"free", "streaming", "dropped", "ended"},
                          run : RunIds \cup {None}, queue : Seq(Events)]]
  /\ panel \in [Watched -> [open : BOOLEAN, conn : Conns \cup {None}, shown : Seq(Events)]]

\* The steps of a request that were streamed.
Streamed(r) == {n \in DOMAIN ctx[r].steps : ctx[r].id # None /\ ctx[r].steps[n] # "call"}

\* Runs of one request, short enough for the bus, with no more runs traced
\* than it keeps.
Under(i) == {r \in Requests : ctx[r].phase # "idle" /\ ctx[r].id = i}
Traced == {i \in RunIds : \E r \in Under(i) : Streamed(r) # {}}
InBounds(i) ==
  /\ Cardinality(Under(i)) <= 1
  /\ \A r \in Under(i) : Cardinality(Streamed(r)) <= MAX_EVENTS_PER_RUN
  /\ Cardinality(Traced) <= MAX_REPLAY_RUNS

\* Whenever a panel connects, drops and comes back, it shows streamed steps of
\* its run, each request's in order and each once; within the bounds of the bus
\* it skips none of them (trace-store.ts: no event is missed).  All in states of
\* the types above, the bus within its bounds.
InOrder(s) ==
  \A m, n \in DOMAIN s : m < n => s[m][1] # s[n][1] \/ s[m][2] < s[n][2]
OfRun(e, i) == e[1] \in Under(i) /\ e[2] \in Streamed(e[1])
SkipsNone(i) ==
  \A e \in ToSet(panel[i].shown) : \A n \in Streamed(e[1]) :
    n < e[2] => <<e[1], n>> \in ToSet(panel[i].shown)
PanelFollowsRun ==
  /\ TypeOK
  /\ \A i \in Watched :
       /\ InOrder(panel[i].shown)
       /\ \A e \in ToSet(panel[i].shown) : OfRun(e, i)
       /\ InBounds(i) => SkipsNone(i)

\* An action that has ended and could be written is in the audit under its id
\* or under a suffix of it, with all its steps, also when a client uses an id
\* twice (persist_run: keep both audit records).
InAudit(r) ==
  /\ ctx[r].phase # "lost"
  /\ ctx[r].phase = "done" /\ WorthKeeping(r) =>
       \E row \in rows :
         /\ row.of = r /\ row.steps = ctx[r].steps
         /\ row.key[1] = IF ctx[r].id = None THEN r ELSE ctx[r].id
         /\ \A other \in rows : other.key = row.key => other = row

CaughtUp(i) ==
  \/ ~InBounds(i) \/ ~panel[i].open
  \/ panel[i].conn = None /\ Unused = {}
  \/ \A r \in Under(i) : \A n \in Streamed(r) : <<r, n>> \in ToSet(panel[i].shown)
OnlyPanelsRegistered == \A c \in Conns : Registered(c) => panel[conns[c].run].conn = c

\* Within the bounds, a panel comes to show every step that was streamed,
\* unless it closes or its connections have run out, and a client that has gone
\* is forgotten: no queue takes its events for ever.
PanelCatchesUp == (\A i \in Watched : []<>CaughtUp(i)) /\ []<>OnlyPanelsRegistered
=============================================================================
