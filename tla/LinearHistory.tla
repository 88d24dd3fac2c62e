--------------------------- MODULE LinearHistory ---------------------------
(***************************************************************************)
(* What the plan history promises: every plan is a log of revisions that   *)
(* only grows at its end.  Revision n is numbered n, its parent is the     *)
(* revision before it, the last one is in force, only the last one's items *)
(* may change, and a revert appends a copy of the last revision but one.   *)
(***************************************************************************)
EXTENDS Naturals, Sequences

CONSTANTS Plans, Revisions, Contents, Causes, None

VARIABLES log, inForce

LastOf(s) == s[Len(s)]
Used(id) == \E p \in Plans : \E n \in DOMAIN log[p] : log[p][n].id = id

Init ==
  /\ log = [p \in Plans |-> <<>>]
  /\ inForce = [p \in Plans |-> None]

\* A revision joins the log of plan p, after everything already there.
Extend(p, id, cause, content) ==
  LET s == log[p] IN
  /\ inForce' = [inForce EXCEPT ![p] = id]
  /\ ~Used(id)
  /\ (cause = "initial") <=> (s = <<>>)
  /\ cause = "user_override" => Len(s) > 1 /\ content = s[Len(s) - 1].content
  /\ log' = [log EXCEPT ![p] = Append(s,
       [id |-> id, no |-> Len(s) + 1, cause |-> cause, content |-> content,
        parent |-> IF s = <<>> THEN None ELSE LastOf(s).id])]

\* The learner marks items of the revision in force.
Mark(p, content) ==
  /\ UNCHANGED inForce
  /\ log[p] # <<>>
  /\ log' = [log EXCEPT ![p][Len(log[p])].content = content]

Next ==
  \E p \in Plans, content \in Contents :
    \/ \E id \in Revisions, cause \in Causes : Extend(p, id, cause, content)
    \/ Mark(p, content)

Spec == Init /\ [][Next]_<<log, inForce>>

=============================================================================
