--------------------------- MODULE MCPlanHistory ---------------------------
(***************************************************************************)
(* PlanHistory for TLC, with two kinds of client.  One waits for the       *)
(* answer to a request before it sends the next, the other races them and  *)
(* sends RACING of them.  The names of requests carry no meaning, so they  *)
(* are the numbers in which the requests begin.                            *)
(***************************************************************************)
EXTENDS PlanHistory

CONSTANT RACING

VARIABLE client

Waits == client = "waits"
InOrder == \A r \in Requests : pc'[r] # "idle" => \A q \in Requests : q < r => pc'[q] # "idle"

MCInit == Init /\ client \in {"waits", "races"}
MCNext ==
  /\ Next
  /\ InOrder
  /\ IF Waits THEN Cardinality(InFlight') <= 1
     ELSE \A r \in Requests : r > RACING => pc'[r] = "idle"
  /\ UNCHANGED client
MCSpec == MCInit /\ [][MCNext]_<<vars, client>>

\* The revisions of plan p are numbered 1, 2, ...; each is the child of the one
\* before it and the last is in force.
LinearPlan(p) ==
  /\ \A v, w \in RevisionsOf(p) : row[v].no = row[w].no => v = w
  /\ \A n \in 1..Cardinality(RevisionsOf(p)) : \E v \in RevisionsOf(p) : row[v].no = n
  /\ row[current[p]].no = Cardinality(RevisionsOf(p))
  /\ \A v \in RevisionsOf(p) :
       IF row[v].no = 1 THEN row[v].parent = None
       ELSE row[v].parent \in RevisionsOf(p) /\ row[row[v].parent].no + 1 = row[v].no

\* What an open request knows, when none overlaps it: the revision it read is in
\* force, no other took its number, and what it copies or avoids is still there.
RequestKnows(r) ==
  pc[r] \in {"read", "numbered"} =>
    /\ tx[r].kind # "initial" => tx[r].seen = current[tx[r].plan]
    /\ pc[r] = "numbered" => tx[r].no = Cardinality(RevisionsOf(tx[r].plan)) + 1
    /\ tx[r].kind = "user_override" =>
         row[tx[r].seen].parent # None /\ tx[r].draft = items[row[tx[r].seen].parent]
    /\ tx[r].kind \in {"initial", "patch"} =>
         \A w \in revisions, a \in Activities : items[w][a] = "done" => tx[r].draft[a] = "absent"

\* What makes the two below hold.
WaitingInv ==
  Waits => /\ \A q, r \in InFlight : q = r
           /\ \A p \in plans : LinearPlan(p)
           /\ \A r \in InFlight : RequestKnows(r)

\* FinishedNotOffered, for a client that waits.
WaitingFinishedNotOfferedAgain == [][Waits => FinishedNotOffered]_vars

\* The plans of a client that waits are the linear logs of LinearHistory: every
\* request appends one revision to the log it read, marks its last entry, or
\* changes nothing a log shows.
ImplementsLinearHistory ==
  /\ Linear!Init
  /\ [][Waits => Linear!Next \/ UNCHANGED <<[p \in Requests |-> LogOf(p)], current>>]_vars
=============================================================================
