----------------------------- MODULE Arrangement -----------------------------
(***************************************************************************)
(* Python's sorted() and list comprehensions, told by positions: the       *)
(* members of a set in a given order, and the elements of a sequence that  *)
(* stand at given positions.                                               *)
(***************************************************************************)
EXTENDS Integers, Sequences, FiniteSets

(* The members of a finite set one after another, by a strict total order  *)
(* that is given as its pairs.                                             *)
Arranged(S, before) ==
  LET rank(x) == Cardinality({y \in S : <<y, x>> \in before}) + 1
  IN  [n \in 1..Cardinality(S) |-> CHOOSE x \in S : rank(x) = n]

(* Some of a sequence's elements, by their positions.                      *)
ElementsAt(ids, positions) ==
  LET order == Arranged(positions, {ij \in positions \X positions : ij[1] < ij[2]})
  IN  [n \in DOMAIN order |-> ids[order[n]]]
==============================================================================
