------------------------------ MODULE MCPractice ------------------------------
(***************************************************************************)
(* Practice for TLC: a skill sk with the hard prerequisite p and one       *)
(* misconception rooted in p.  Two items ask for sk, one of them may be    *)
(* answered by the misconception; one is a check, and one is on p.  Two    *)
(* requests at most are open.  begun remembers what was committed when a   *)
(* request began.                                                          *)
(***************************************************************************)
EXTENDS Practice, TLC

CONSTANTS r1, r2, r3, sk, p, m, unknown, s1, s2, c1, p1, g1, g2

key == [key |-> TRUE, tag |-> None]
plain == [key |-> FALSE, tag |-> None]
tagged == [key |-> FALSE, tag |-> m]
Item(skill, purpose, difficulty, options) ==
  [skill |-> skill, purpose |-> purpose, difficulty |-> difficulty, options |-> options,
   solved |-> None]

MCHardParents == (sk :> {p}) @@ (p :> {})
MCRootOf == (m :> p)
MCMisconceptionsOf == (sk :> {m}) @@ (p :> {})
MCCuratedItems ==
  (s1 :> Item(sk, "practice", "hard", <<key, tagged>>))
  @@ (s2 :> Item(sk, "practice", "medium", <<tagged, key>>))
  @@ (c1 :> Item(sk, "resolution-check", "easy", <<key, tagged>>))
  @@ (p1 :> Item(p, "practice", "easy", <<plain, key>>))
MCAsked == {<<sk, "practice">>, <<sk, "probe">>, <<p, "practice">>}

Draft(options) == [difficulty |-> "hard", options |-> options]
good == Draft(<<plain, key, tagged>>)
twoKeys == Draft(<<key, key, plain>>)
taggedKey == Draft(<<plain, [key EXCEPT !.tag = m], plain>>)
invented == Draft(<<plain, [plain EXCEPT !.tag = unknown], key>>)
MCResponses == {<<>>, <<good>>, <<good, good>>, <<twoKeys>>, <<good, taggedKey>>, <<invented>>}

MCReports == {[ratio |-> None, completion |-> None, overloaded |-> FALSE],
              [ratio |-> 16, completion |-> 5, overloaded |-> FALSE]}

Interchangeable == Permutations(Requests)

VARIABLE begun
Committed == [graded |-> graded, caught |-> caught, rows |-> rows]
MCInit == Init /\ begun = [r \in Requests |-> Committed]
MCNext ==
  /\ Next
  /\ begun' = [r \in Requests |-> IF req[r].phase = "idle" THEN Committed' ELSE begun[r]]
MCSpec == MCInit /\ [][MCNext]_<<vars, begun>>

\* A set holds items of the bank only, none on its own skill that had been
\* graded in a set on that skill when it was begun, and beside them only items
\* on a hard prerequisite no answer had been graded on; what the model wrote has
\* come into the bank solved.
SetsAreSound ==
  GeneratedAreSolved /\ \A set \in sets : \A i \in set.items :
    /\ i \in DOMAIN bank
    /\ bank[i].skill = set.skill => i \notin begun[set.by].graded[set.skill]
    /\ bank[i].skill # set.skill =>
         /\ set.purpose \in {"practice", "probe"}
         /\ bank[i].skill \in HardParents[set.skill]
         /\ begun[set.by].rows[bank[i].skill] = None

\* A misconception is confirmed when two distinct items have caught it, and
\* suspected when one has, however often a set or an item is answered; answers
\* that another request commits meanwhile are not seen.
ConfirmedByTwo ==
  \A signal \in outcome.signals :
    signal.class = "repeated_misconception" =>
      LET known == begun[outcome.by].caught[signal.about]
                     \cup TaggedWith(outcome.answered, signal.about) IN
      /\ signal.confidence = "high" <=> Cardinality(known) >= 2
      /\ known \subseteq caught[signal.about]
=============================================================================
