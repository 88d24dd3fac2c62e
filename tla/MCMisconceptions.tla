-------------------------- MODULE MCMisconceptions --------------------------
(***************************************************************************)
(* Misconceptions for TLC, with two kinds of client.  One waits for the    *)
(* answer to a request before it sends the next; one races those it has,   *)
(* and gets fewer of them and no trigger that is not a misconception.  The *)
(* names of requests, misconceptions and items carry no meaning.           *)
(***************************************************************************)
EXTENDS Misconceptions, TLC

CONSTANT MaxRacing

Interchangeable ==
  Permutations(Requests) \cup Permutations(Misconceptions) \cup Permutations(Items)

VARIABLE client

Waits == client = "waits"
ByMisconception(sub) == sub.reflection # "none" => sub.misconception # None
MCInit == Init /\ client \in {"waits", "races"}
MCNext ==
  /\ Next
  /\ Waits => Cardinality(InFlight') <= 1
  /\ ~Waits => /\ \A r \in Requests : ByMisconception(tx'[r].sub)
               /\ Cardinality({r \in Requests : pc'[r] # "idle"}) <= MaxRacing
  /\ UNCHANGED client
MCSpec == MCInit /\ [][MCNext]_<<vars, client>>

\* What an open request knows, when none overlaps it: the row it read is the
\* one in force, and the skip rules it passed still let it pass.
RequestKnows(r) ==
  LET sub == tx[r].sub
      m == sub.misconception
  IN
  /\ sub.at <= now
  /\ tx[r].again => sub.at <= tx[r].remediated_at /\ tx[r].remediated_at <= now
  /\ m \in Misconceptions => tx[r].seen = lm[m] /\ lm[m].last_remediated_at <= sub.at
  /\ sub.check = None /\ sub.reflection # "none" =>
       IF m = None THEN \A q \in Reflections : sub.at >= row[q].at + Cooldown
       ELSE /\ lm[m].status # "persistent"
            /\ lm[m].status = "remediating" => sub.at >= lm[m].last_remediated_at + Cooldown

\* What makes the two below hold: a row counts the failures it was made
\* persistent for, and its clock is behind no remediation and not ahead of time.
WaitingInv ==
  Waits =>
    /\ \A q, r \in InFlight : q = r
    /\ \A m \in Misconceptions :
         /\ lm[m].status = "persistent" => lm[m].cycles >= MaxCycles
         /\ lm[m].last_remediated_at <= now
         /\ \A q \in Remediations(m) : row[q].at <= lm[m].last_remediated_at
    /\ \A r \in InFlight : RequestKnows(r)

\* PersistentStays in every step, for a client that waits.
WaitingPersistentStays == [][Waits => PersistentStays]_vars

\* RemediationsSpaced and OtherReflectionsSpaced in every step, for a client
\* that waits.
WaitingReflectionsSpaced == [][Waits => RemediationsSpaced /\ OtherReflectionsSpaced]_vars
=============================================================================
