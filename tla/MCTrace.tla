------------------------------- MODULE MCTrace -------------------------------
(***************************************************************************)
(* Trace for TLC: two actions of at most two steps on two run ids, a bus   *)
(* that keeps one run and two of its events, and two connections for the   *)
(* panel of one of the ids.  raced remembers the actions that were open    *)
(* while another was open under the same id.                               *)
(***************************************************************************)
EXTENDS Trace

CONSTANTS r1, r2, i1, i2, c1, c2

VARIABLE raced

OpenUnder(i) == {r \in Under(i) : ctx[r].phase \notin {"done", "lost", "unsaved"}}
Racing == UNION {OpenUnder(i) : i \in {j \in RunIds : Cardinality(OpenUnder(j)) > 1}}

MCInit == Init /\ raced = {}
MCNext == Next /\ raced' = raced \cup Racing'
MCSpec == MCInit /\ [][MCNext]_<<vars, raced>> /\ Fairness

\* InAudit, for every action that raced no other under its id: two at once
\* both find a new id free, and the second insert is swallowed.
AuditKept == \A r \in Requests \ raced : InAudit(r)
=============================================================================
