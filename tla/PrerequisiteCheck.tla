-------------------------- MODULE PrerequisiteCheck --------------------------
(***************************************************************************)
(* GraphValidator._check_dag of graph/validation.py: the depth-first walk  *)
(* that decides whether the hard prerequisites of a dataset form a DAG,    *)
(* before the dataset may replace the catalog.  Everything that orders     *)
(* skills later (gap layers, fallback plans, remediation detours) relies   *)
(* on its verdict and never checks again.                                  *)
(*                                                                         *)
(* One action per pass of a loop of the walk.  The order in which the      *)
(* skills and the edges of a skill are taken is free: a Python set has     *)
(* none, and the dataset's lists come in any.  An edge may name an id that *)
(* is no skill; that is another check's error, and the walk follows it.    *)
(* Mutant: ClosesAtClosed.                                                 *)
(***************************************************************************)
EXTENDS Naturals, Sequences

CONSTANTS Ids   \* the ids a dataset may write where a skill belongs

VARIABLES
  known,     \* the skills of the dataset
  hard,      \* its hard prerequisites, <<before, after>>
  color,     \* the walk's mark on every id
  left,      \* the edges an open id has not followed yet (its iterator)
  stack,     \* the open ids, the path walked
  verdict    \* idle, walking, acyclic or cycle

checkVars == <<known, hard, color, left, stack, verdict>>

Colors == {"white", "grey", "black"}

Successors(i) == {j \in Ids : <<i, j>> \in hard}

Top == stack[Len(stack)]

CheckTypeOK ==
  /\ known \in SUBSET Ids
  /\ hard \in SUBSET (Ids \X Ids)
  /\ color \in [Ids -> Colors]
  /\ left \in [Ids -> SUBSET Ids]
  /\ stack \in Seq(Ids)
  /\ verdict \in {"idle", "walking", "acyclic", "cycle"}

CheckInit ==
  /\ known = {} /\ hard = {}
  /\ color = [i \in Ids |-> "white"]
  /\ left = [i \in Ids |-> {}]
  /\ stack = <<>>
  /\ verdict = "idle"

-----------------------------------------------------------------------------
Begin(skills, edges) ==
  /\ verdict # "walking"
  /\ known' = skills /\ hard' = edges
  /\ color' = [i \in Ids |-> "white"]
  /\ left' = [i \in Ids |-> {}]
  /\ stack' = <<>>
  /\ verdict' = "walking"

\* The walk's caller has read the verdict, and the walk's state is gone.
Forget ==
  /\ known' = {} /\ hard' = {}
  /\ color' = [i \in Ids |-> "white"]
  /\ left' = [i \in Ids |-> {}]
  /\ stack' = <<>>
  /\ verdict' = "idle"

\* An id is opened: marked, and its edges are all still to follow.
Open(i) ==
  /\ color' = [color EXCEPT ![i] = "grey"]
  /\ stack' = Append(stack, i)

\* The outer loop: the next skill nobody reached yet.
Root ==
  /\ verdict = "walking" /\ stack = <<>>
  /\ \E i \in known :
       /\ color[i] = "white"
       /\ Open(i)
       /\ left' = [left EXCEPT ![i] = Successors(i)]
  /\ UNCHANGED <<known, hard, verdict>>

ClosesAtClosed ==  \* mutant: any id reached before closes a cycle
  /\ verdict = "walking" /\ stack # <<>>
  /\ \E j \in left[Top] : color[j] # "white"
  /\ verdict' = "cycle"
  /\ UNCHANGED <<known, hard, color, left, stack>>

\* An edge of the open id leads back into the path: a cycle, and the walk ends.
Closes ==
  /\ verdict = "walking" /\ stack # <<>>
  /\ \E j \in left[Top] : color[j] = "grey"
  /\ verdict' = "cycle"
  /\ UNCHANGED <<known, hard, color, left, stack>>

\* An edge leads to an id not reached yet: the walk goes on from there.
Descend ==
  /\ verdict = "walking" /\ stack # <<>>
  /\ \E j \in left[Top] :
       /\ color[j] = "white"
       /\ Open(j)
       /\ left' = [left EXCEPT ![Top] = @ \ {j}, ![j] = Successors(j)]
  /\ UNCHANGED <<known, hard, verdict>>

\* Every edge that remains leads to a closed id: this one is closed as well.
Retreat ==
  /\ verdict = "walking" /\ stack # <<>>
  /\ \A j \in left[Top] : color[j] = "black"
  /\ color' = [color EXCEPT ![Top] = "black"]
  /\ stack' = SubSeq(stack, 1, Len(stack) - 1)
  /\ UNCHANGED <<known, hard, left, verdict>>

Accept ==
  /\ verdict = "walking" /\ stack = <<>>
  /\ \A i \in known : color[i] # "white"
  /\ verdict' = "acyclic"
  /\ UNCHANGED <<known, hard, color, left, stack>>

CheckStep == Root \/ Closes \/ Descend \/ Retreat \/ Accept

CheckNext ==
  \/ \E skills \in SUBSET Ids, edges \in SUBSET (Ids \X Ids) : Begin(skills, edges)
  \/ CheckStep
  \/ Forget

CheckSpec == CheckInit /\ [][CheckNext]_checkVars

-----------------------------------------------------------------------------
\* No cycle among the ids of S: whatever part of S one takes, some id of it
\* leads to no id of that part.
Acyclic(S, E) ==
  \A T \in SUBSET S : T # {} => \E i \in T : \A j \in T : <<i, j>> \notin E

\* A dataset the walk accepts has no cycle among its skills, and one it
\* rejects does have one: the colours, which the walk never resets between
\* two roots, neither hide a cycle nor take two ways to a skill for one.
VerdictIsRight ==
  /\ verdict = "acyclic" => Acyclic(known, hard)
  /\ verdict = "cycle" => ~ Acyclic(Ids, hard)
=============================================================================
