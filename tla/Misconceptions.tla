--------------------------- MODULE Misconceptions ---------------------------
(***************************************************************************)
(* The misconceptions of one learner on one skill, from the first tagged   *)
(* wrong answer to "resolved" or "persistent": what submit_practice_set,   *)
(* run_reflection and record_probe_result do to learner_misconceptions.    *)
(*                                                                         *)
(* A request submits a practice set.  It grades the answers and reads what *)
(* it needs (ReadPractice, ReadCheck), may spend seconds on an LLM, looks  *)
(* for the row again if it is to write it (SelectAgain), and commits once. *)
(* Reads lock nothing, and the ORM writes only the columns whose value     *)
(* differs from the one the request had read.                              *)
(*                                                                         *)
(* A request inserts at most one assessment, one reflection record and one *)
(* resolution-check set, so the request stands for the id of each of them. *)
(*                                                                         *)
(* ConfirmedByAttempts, SkippedWithoutEscalation, SkippedWithoutCooldown   *)
(* and CyclesAtRemediation are mutants of the definitions they precede: no *)
(* action uses them.                                                       *)
(***************************************************************************)
EXTENDS Naturals, FiniteSets

CONSTANTS
  Requests,        \* the submissions of the learner
  Misconceptions,  \* the tags of the skill's wrong options
  Items,           \* the practice items whose wrong options are tagged
  None,            \* SQL NULL
  ConfirmCount,    \* REPEATED_MISCONCEPTION_CONFIRM_COUNT: distinct items
  Window,          \* REPEATED_MISCONCEPTION_WINDOW_DAYS, in ticks
  Cooldown,        \* STRUGGLE_REVISION_COOLDOWN_HOURS, in ticks
  MaxCycles,       \* MAX_REMEDIATION_CYCLES
  OtherTriggers,   \* whether the other struggle classes fire, too
  MaxInFlight,     \* how many requests may be open at once
  MaxTime          \* bound on the clock

ASSUME NoneAssumption == None \notin Misconceptions \cup Requests
ASSUME RequestsAssumption == IsFiniteSet(Requests)
ASSUME ItemsAssumption == IsFiniteSet(Items)
ASSUME ThresholdsAssumption ==
  /\ {ConfirmCount, Cooldown, MaxCycles, MaxInFlight} \subseteq Nat \ {0}
  /\ {Window, MaxTime} \subseteq Nat
  /\ OtherTriggers \in BOOLEAN

VARIABLES
  lm,         \* learner_misconceptions, one row per misconception
  done,       \* the requests that committed
  row,        \* what each of them inserted
  submitted,  \* the resolution-check sets with status "submitted"
  now,
  pc,
  tx          \* what an open request has read and is about to insert

vars == <<lm, done, row, submitted, now, pc, tx>>

\* "suspected" and "confirmed" are never committed: the only caller of
\* upsert_signal_status sets "remediating" in the same transaction.
Statuses == {"absent", "remediating", "resolved", "persistent"}
LearnerMisconception == [status : Statuses, cycles : Nat, last_remediated_at : Nat]

Tags == Misconceptions \cup {None}
Submission == [at : Nat, tags : [Items -> Tags], check : Requests \cup {None},
               misconception : Tags, passed : BOOLEAN,
               reflection : {"none", "attention", "applied"}, hasItems : BOOLEAN]
Transaction == [sub : Submission, seen : LearnerMisconception,
                again : BOOLEAN, remediated_at : Nat]

NoTags == [i \in Items |-> None]
NoRow == [status |-> "absent", cycles |-> 0, last_remediated_at |-> 0]
NoSubmission == [at |-> 0, tags |-> NoTags, check |-> None, misconception |-> None,
                 passed |-> FALSE, reflection |-> "none", hasItems |-> FALSE]
Read(sub, seen) == [sub |-> sub, seen |-> seen, again |-> FALSE, remediated_at |-> 0]
NoTx == Read(NoSubmission, NoRow)

InFlight == {r \in Requests : pc[r] = "open"}

\* The practice_sessions of purpose "resolution-check": a reflection on a
\* misconception creates one whether or not a plan patch is then approved.
Checks == {r \in done : row[r].check = None /\ row[r].reflection # "none"
                        /\ row[r].misconception # None}
Reflections == {r \in done : row[r].reflection # "none"}
Remediations(m) == {r \in Checks : row[r].misconception = m /\ row[r].reflection = "applied"}
Failures(m) == {r \in done : row[r].check # None /\ row[r].misconception = m
                             /\ ~row[r].passed}
Passes(m) == {r \in done : row[r].check # None /\ row[r].misconception = m
                           /\ row[r].passed}

-----------------------------------------------------------------------------
Init ==
  /\ lm = [m \in Misconceptions |-> NoRow]
  /\ done = {}
  /\ row = [r \in Requests |-> NoSubmission]
  /\ submitted = {}
  /\ now = 0
  /\ pc = [r \in Requests |-> "idle"]
  /\ tx = [r \in Requests |-> NoTx]

Tick ==
  /\ now < MaxTime
  /\ now' = now + 1
  /\ UNCHANGED <<lm, done, row, submitted, pc, tx>>

Open(r, t) ==
  /\ pc[r] = "idle"
  /\ Cardinality(InFlight) < MaxInFlight
  /\ pc' = [pc EXCEPT ![r] = "open"]
  /\ tx' = [tx EXCEPT ![r] = t]
  /\ UNCHANGED <<lm, done, row, submitted, now>>

Close(r) ==
  /\ pc' = [pc EXCEPT ![r] = "closed"]
  /\ tx' = [tx EXCEPT ![r] = NoTx]
  /\ UNCHANGED now

\* An exception or a lost connection: nothing of the request is kept.
Rollback(r) ==
  /\ pc[r] = "open"
  /\ Close(r)
  /\ UNCHANGED <<lm, done, row, submitted>>

\* _repeated_misconception: distinct items answered with the tag, in this
\* submission and in the committed ones of the window.
TaggedItems(m, rows, since) ==
  {i \in Items : \E r \in rows : row[r].tags[i] = m /\ row[r].at + Window >= since}
ConfirmedByAttempts(m, tags) ==
  /\ \E i \in Items : tags[i] = m
  /\ Cardinality({i \in Items : tags[i] = m}) + Cardinality(TaggedItems(m, done, now))
       >= ConfirmCount
Confirmed(m, tags) ==
  /\ \E i \in Items : tags[i] = m
  /\ Cardinality({i \in Items : tags[i] = m} \cup TaggedItems(m, done, now)) >= ConfirmCount

Within(last, cooldown) == now < last + cooldown

\* The skip rules of run_reflection once a misconception is the trigger.
SkippedWithoutEscalation(m) ==
  lm[m].status = "remediating" /\ Within(lm[m].last_remediated_at, Cooldown)
SkippedWithoutCooldown(m) == lm[m].status = "persistent"
MisconceptionSkipped(m) ==
  \/ lm[m].status = "persistent"
  \/ lm[m].status = "remediating" /\ Within(lm[m].last_remediated_at, Cooldown)

\* The skip rule for the other triggers: any reflection on the skill counts,
\* one that needed attention included.
SkillSkipped == \E r \in Reflections : Within(row[r].at, Cooldown)

PracticeTx(tags, trigger, reflection, hasItems) ==
  Read([NoSubmission EXCEPT !.at = now, !.tags = tags, !.misconception = trigger,
          !.reflection = reflection, !.hasItems = hasItems],
       IF trigger = None THEN NoRow ELSE lm[trigger])

\* submit_practice_set on any set but a resolution check.  A confirmed
\* misconception comes first in STRUGGLE_ACTION_PRECEDENCE; "other" says that
\* one of the other triggering classes fired.  A reflection that is not skipped
\* ends with an approved patch or needs attention.
ReadPractice(r) ==
  \E tags \in [Items -> Tags], trigger \in Tags :
    /\ IF \E m \in Misconceptions : Confirmed(m, tags)
       THEN trigger # None /\ Confirmed(trigger, tags)
       ELSE trigger = None
    /\ \E other, hasItems \in BOOLEAN, reflection \in {"none", "attention", "applied"} :
         /\ other => OtherTriggers
         /\ (reflection = "none") <=>
              IF trigger # None THEN MisconceptionSkipped(trigger) ELSE ~other \/ SkillSkipped
         /\ hasItems => trigger # None /\ reflection # "none"
         /\ Open(r, PracticeTx(tags, trigger, reflection, hasItems))

\* submit_practice_set on a resolution check: nothing asks whether the set was
\* submitted before.  Its answers are stored like any others: a wrong one may
\* carry the tag of any misconception, and then the check is failed, as is one
\* without items.  Without the learner's row record_probe_result raises, and the
\* request is only ever rolled back.
CheckTx(c, tags, passed) ==
  Read([NoSubmission EXCEPT !.at = now, !.tags = tags, !.check = c,
          !.misconception = row[c].misconception, !.passed = passed],
       lm[row[c].misconception])
ReadCheck(r) ==
  \E c \in Checks, tags \in [Items -> Tags], passed \in BOOLEAN :
    /\ lm[row[c].misconception].status # "absent"
    /\ passed => row[c].hasItems /\ tags = NoTags
    /\ ~row[c].hasItems => tags = NoTags
    /\ Open(r, CheckTx(c, tags, passed))

\* The reflection is approved, after its LLM calls: upsert_signal_status looks for
\* the row again.  A row the request has read is the one in its session, with the
\* values it had then; a row it had not found may be there by now, whatever its
\* status, and is what the request has read from here on.
SelectAgain(r) ==
  LET sub == tx[r].sub
      seen == tx[r].seen
  IN
  /\ pc[r] = "open" /\ ~tx[r].again
  /\ sub.check = None /\ sub.misconception # None /\ sub.reflection = "applied"
  /\ tx' = [tx EXCEPT ![r] =
              [sub |-> sub, again |-> TRUE, remediated_at |-> now,
               seen |-> IF seen.status = "absent" THEN lm[sub.misconception] ELSE seen]]
  /\ UNCHANGED <<lm, done, row, submitted, now, pc>>

Insert(r) ==
  /\ done' = done \cup {r}
  /\ row' = [row EXCEPT ![r] = tx[r].sub]
  /\ Close(r)

\* The attributes assigned a value they did not have are written, whatever the
\* row holds by now.
Written(m, seen, status, cycles, at) ==
  lm' = [lm EXCEPT ![m] =
           [status |-> IF status # seen.status THEN status ELSE @.status,
            cycles |-> IF cycles # seen.cycles THEN cycles ELSE @.cycles,
            last_remediated_at |->
              IF at # seen.last_remediated_at THEN at ELSE @.last_remediated_at]]

\* No reflection, one that needs attention, or one with another trigger: the
\* misconception's row is not touched.
CommitPractice(r) ==
  /\ pc[r] = "open"
  /\ tx[r].sub.check = None
  /\ tx[r].sub.misconception = None \/ tx[r].sub.reflection # "applied"
  /\ UNCHANGED lm
  /\ Insert(r)
  /\ UNCHANGED submitted

\* An approved reflection on a misconception: whatever the row it found says, it is
\* "remediating" again.  A request that found none inserts one, and when another
\* has inserted it since then this violates uq_learner_misconception: the request
\* can only be rolled back, its assessment with it.
CyclesAtRemediation(seen) == seen.cycles + 1
CyclesKept(seen) == seen.cycles
CommitRemediation(r) ==
  LET m == tx[r].sub.misconception
      seen == tx[r].seen
  IN
  /\ pc[r] = "open" /\ tx[r].again
  /\ tx[r].sub.check = None
  /\ tx[r].sub.reflection = "applied" /\ m # None
  /\ seen.status = "absent" => lm[m].status = "absent"
  /\ Written(m, seen, "remediating", CyclesKept(seen), tx[r].remediated_at)
  /\ Insert(r)
  /\ UNCHANGED submitted

\* record_probe_result.
StatusAfterFailure(cycles) ==
  IF cycles >= MaxCycles THEN "persistent" ELSE "remediating"
CommitCheck(r) ==
  LET m == tx[r].sub.misconception
      seen == tx[r].seen
      cycles == seen.cycles + 1
  IN
  /\ pc[r] = "open"
  /\ tx[r].sub.check # None
  /\ IF tx[r].sub.passed
     THEN Written(m, seen, "resolved", seen.cycles, seen.last_remediated_at)
     ELSE Written(m, seen, StatusAfterFailure(cycles), cycles, seen.last_remediated_at)
  /\ submitted' = submitted \cup {tx[r].sub.check}
  /\ Insert(r)

Next ==
  \/ Tick
  \/ \E r \in Requests :
       \/ Rollback(r)
       \/ ReadPractice(r)
       \/ ReadCheck(r)
       \/ SelectAgain(r)
       \/ CommitPractice(r)
       \/ CommitRemediation(r)
       \/ CommitCheck(r)

Spec == Init /\ [][Next]_vars

-----------------------------------------------------------------------------
TypeOK ==
  /\ lm \in [Misconceptions -> LearnerMisconception]
  /\ done \subseteq Requests
  /\ row \in [Requests -> Submission]
  /\ submitted \subseteq Requests
  /\ now \in Nat
  /\ pc \in [Requests -> {"idle", "open", "closed"}]
  /\ tx \in [Requests -> Transaction]

\* However submissions race, and however often a check is submitted again, a
\* misconception is called persistent only after MaxCycles failed checks, and
\* the counter never runs ahead of them.
FailuresBehindStatus ==
  \A m \in Misconceptions :
    /\ lm[m].cycles <= Cardinality(Failures(m))
    /\ lm[m].status = "persistent" => Cardinality(Failures(m)) >= MaxCycles

\* What makes it inductive: a committed request is over, and what an open one
\* has read of the counter was true when it read it.
RequestSound(r) ==
  /\ r \in done => pc[r] = "closed"
  /\ pc[r] = "open" =>
       /\ tx[r].sub.check # None => tx[r].sub.misconception \in Misconceptions
       /\ tx[r].sub.misconception \in Misconceptions =>
            tx[r].seen.cycles <= Cardinality(Failures(tx[r].sub.misconception))
RequestsSound == \A r \in Requests : RequestSound(r)
Inv == TypeOK /\ RequestsSound /\ FailuresBehindStatus

\* The tables agree with the history, whatever raced.  A reflection on a
\* misconception rests on wrong answers to ConfirmCount distinct items of the
\* window, all of them committed: answering one item twice, in one set or in
\* two, is not enough.  And although a reflection that needs attention leaves a
\* check without a row, there is a row exactly when some remediation was applied,
\* and it is resolved only after a check was passed.
RowsBehindHistory ==
  /\ \A r \in Checks :
       Cardinality(TaggedItems(row[r].misconception, done, row[r].at)) >= ConfirmCount
  /\ \A m \in Misconceptions :
       /\ lm[m].status = "absent" <=> Remediations(m) = {}
       /\ lm[m].status = "resolved" => Passes(m) # {}

\* What makes it inductive: rows are never deleted and submissions only added,
\* so what an open request found when it read is still there when it commits.
GroundsRead(r) ==
  LET sub == tx[r].sub
      m == sub.misconception
  IN
  /\ sub.check # None => tx[r].seen.status # "absent"
  /\ m \in Misconceptions /\ tx[r].seen.status # "absent" => lm[m].status # "absent"
  /\ sub.check = None /\ m \in Misconceptions /\ sub.reflection # "none" =>
       Cardinality({i \in Items : sub.tags[i] = m} \cup TaggedItems(m, done, sub.at)) >= ConfirmCount
HistoryInv == RowsBehindHistory /\ \A r \in InFlight : GroundsRead(r)

\* The three below hold of every step a client causes that waits for each answer
\* before it sends the next request.
\*
\* A persistent misconception is only ever left by a check that is passed:
\* "never re-remediated" (start_remediation), "escalated, not re-remediated"
\* (run_reflection).
PersistentStays ==
  \A m \in Misconceptions : lm[m].status = "persistent" =>
    lm'[m].status \in {"persistent", "resolved"}

\* A misconception is not remediated again within the cooldown of an earlier
\* remediation, unless a passed check came between.
RemediationsSpaced ==
  \A m \in Misconceptions : \A r \in Remediations(m)' \ Remediations(m) :
    \A q \in Remediations(m) :
      row'[r].at >= row[q].at + Cooldown \/ lm[m].status = "resolved"

\* A reflection that no misconception triggered is a cooldown away from every
\* reflection on the skill before it, whatever triggered that one.
OtherReflectionsSpaced ==
  \A r \in Reflections' \ Reflections : row'[r].misconception = None =>
    \A q \in Reflections : row'[r].at >= row[q].at + Cooldown

=============================================================================
