------------------------- MODULE MCReflectionLadder -------------------------
(***************************************************************************)
(* ReflectionLadder for TLC: a chain of three skills, and plans that a     *)
(* planner may have left of it.                                            *)
(***************************************************************************)
EXTENDS ReflectionLadder, TLC

CONSTANTS base, mid, top, r1

Chain == base :> {} @@ mid :> {base} @@ top :> {mid}
ChainAncestors == base :> {} @@ mid :> {base} @@ top :> {base, mid}

Lesson(n, s, slot, minutes) ==
  [n |-> n, type |-> "resource", skill |-> s, resource |-> r1, session |-> n, minutes |-> minutes,
   difficulty |-> 1, slot |-> slot, done |-> FALSE]
Practice(n, s, slot) ==
  [n |-> n, type |-> "practice", skill |-> s, resource |-> None, session |-> 0, minutes |-> 12,
   difficulty |-> 1, slot |-> slot, done |-> FALSE]

\* Two skills in order, on days the planner model made up.
Late == {Lesson(0, base, 6, 20), Lesson(1, mid, 7, 20)}

\* No plan; two skills in order, with little time left in the week; a skill with
\* its practice late in it; two sessions of a long skill, filling the budget.
Plans ==
  {None,
   {Lesson(0, base, 1, 20), Lesson(1, mid, 2, 20)},
   {Lesson(0, top, 3, 10), Practice(1, top, 4)},
   {Lesson(0, top, 3, 30), Lesson(1, top, 4, 40)},
   Late}

\* Later, and earlier: nothing keeps an agent from it.
Delays == {-1, 2}

\* Everything open, the first skill met, and all but the last met.
Report(met) == [s \in Skills |-> [met |-> s \in met, level |-> IF s \in met THEN 3 ELSE 0]]
Reports == {Report({}), Report({base}), Report({base,mid})}
=============================================================================
