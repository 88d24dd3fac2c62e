--------------------------- MODULE MCLearnerState ---------------------------
(***************************************************************************)
(* LearnerState for TLC: a claim of each of two tiers, and two kinds of    *)
(* client.  One waits for the answer to a request before it sends the      *)
(* next, the other races them.  The names of requests carry no meaning.    *)
(***************************************************************************)
EXTENDS LearnerState, TLC

CONSTANTS c1, c2

Interchangeable == Permutations(Requests)
ListedAndDocumented == c1 :> 1 @@ c2 :> 2

VARIABLE client

Waits == client = "waits"
MCInit == Init /\ client \in {"waits", "races"}
MCNext ==
  /\ Next
  /\ Waits => Cardinality(InFlight') <= 1
  /\ UNCHANGED client
MCSpec == MCInit /\ [][MCNext]_<<vars, client>>

\* The row s says what these evidence rows and n graded answers say; an answer
\* moves the estimate by at most 1.3.
IsRecordOf(s, rows, n) ==
  /\ s = None <=> rows = {}
  /\ s = None => n = 0
  /\ s # None =>
       /\ \A e \in rows : e.tier <= s.tier
       /\ s.n_obs = n
       /\ s.alpha <= s.beta + 13 * n /\ s.beta >= 10
       /\ n = 0 => ClaimRow(s) /\ s.band = "unknown"
       /\ n > 0 => s.tier = 3 /\ s.band = Band(s.alpha, s.beta, n, 3)

\* Each claim has at most one of these rows, and the decision they stand for.
OnePerClaim(rows, decided) ==
  /\ \A d, e \in rows : d.claim = e.claim /\ d.claim # None => d = e
  /\ \A e \in rows : e.claim # None => decided[e.claim] = "confirmed"

\* Answers add to the estimate on either side, each at least 0.7.
Moved(old, new) ==
  /\ new.alpha >= old.alpha /\ new.beta >= old.beta
  /\ new.alpha + new.beta >= old.alpha + old.beta + 7

\* What an open request knows, when none overlaps it: it has read the row as it
\* is, will write what the record is after it, and decides claims that are open;
\* evidence leaves an assessed row alone.
RequestKnows(r) ==
  /\ r \notin InFlight => tx[r] = NoTx
  /\ pc[r] = "open" => tx[r] = [NoTx EXCEPT !.claims = tx[r].claims]
  /\ pc[r] \in {"evidence", "answers"} =>
       /\ tx[r].seen = state /\ tx[r].new # None
       /\ IsRecordOf(tx[r].new, evidence \cup tx[r].evidence, graded + tx[r].graded)
  /\ pc[r] = "evidence" => tx[r].graded = 0 /\ (graded > 0 => tx[r].new = state)
  /\ pc[r] = "answers" => tx[r].graded > 0 /\ Moved(Known(state), tx[r].new)
  /\ OnePerClaim(tx[r].evidence, tx[r].claims)
  /\ \A c \in Claims : tx[r].claims[c] # "pending" => claims[c] = "pending"

\* What makes RowIsTheRecord inductive for a client that waits.
WaitingInv ==
  /\ IsFiniteSet(InFlight)
  /\ Waits => /\ \A q, r \in InFlight : q = r
              /\ IsRecordOf(state, evidence, graded)
              /\ OnePerClaim(evidence, claims)
              /\ \A r \in Requests : RequestKnows(r)

\* RowIsTheRecord, for a client that waits, and what it rests on, ClaimUsedOnce.
WaitingRowIsTheRecord == Waits => RowIsTheRecord /\ ClaimUsedOnce

\* LevelFollowsAnswers of every step, for a client that waits.
WaitingLevelFollowsAnswers == [][Waits => LevelFollowsAnswers]_vars
=============================================================================
