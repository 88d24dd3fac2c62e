------------------------------ MODULE Retrieval ------------------------------
(***************************************************************************)
(* The Resource Retriever (src/backend/app/retrieval): from the resources  *)
(* of the catalog that target a skill to the few a learner is offered.  It *)
(* is a pure pipeline: a hard filter, two rankings fused by their ranks, a *)
(* weighted score, and a pass that puts different providers and modalities *)
(* first.                                                                  *)
(*                                                                         *)
(* A row is one resource with its edge to the skill; close and words stand *)
(* for the two similarities with the query, which embeddings and texts     *)
(* give.  Fractions are in percent, rounded down, a score in hundredths of *)
(* a percent.                                                              *)
(*                                                                         *)
(* EligibleAtAnyLink is a mutant of the definition that follows it;        *)
(* nothing uses it.                                                        *)
(***************************************************************************)
EXTENDS Arrangement, SequencesExt

(* What is asked for.  An empty language, like no history, excludes        *)
(* nothing; sessions: the caller cuts long resources into study sessions.  *)
DefaultQuery ==
  [level |-> 0, met |-> {}, cap |-> 45, language |-> "", excluded |-> {},
   order |-> <<"do", "read", "watch">>, used |-> {}, failed |-> {},
   sessions |-> FALSE, top |-> 5]

(* The measures of a row; its other columns are compared only.             *)
IsRow(row) ==
  {row.from, row.to, row.minutes, row.age, row.close, row.words} \subseteq Int

(* The named checks of the hard filter.  "redirected" is not "ok".         *)
EligibilityChecks(row, q) ==
  [link_ok           |-> row.link = "ok",
   level_band_ok     |-> row.from <= q.level + 1 /\ q.level <= row.to,
   prerequisites_met |-> row.prereqs \subseteq q.met,
   duration_ok       |-> IF q.sessions THEN row.minutes > 0 ELSE row.minutes <= q.cap,
   language_ok       |-> q.language = "" \/ row.language \in {"", q.language},
   modality_ok       |-> row.modality \notin q.excluded]

EligibleAtAnyLink(row, q) ==
  LET checks == EligibilityChecks(row, q)
  IN  \A c \in DOMAIN checks \ {"link_ok"} : checks[c]

Eligible(row, q) ==
  LET checks == EligibilityChecks(row, q) IN \A c \in DOMAIN checks : checks[c]

(* Python's sorted(..., reverse=True): the highest key first, equal keys   *)
(* in the order they came.                                                 *)
ByKey(ids, key) ==
  {ij \in (DOMAIN ids) \X (DOMAIN ids) :
     \/ key[ids[ij[1]]] > key[ids[ij[2]]]
     \/ key[ids[ij[1]]] = key[ids[ij[2]]] /\ ij[1] < ij[2]}
SortedBy(ids, key) ==
  LET order == Arranged(DOMAIN ids, ByKey(ids, key))
  IN  [n \in DOMAIN order |-> ids[order[n]]]

(* Reciprocal rank fusion with k = 60, in millionths, as a share of the    *)
(* best.                                                                   *)
RRF_K == 60
Million == 1000000
Shares(ids, key) ==
  LET ranking == SortedBy(ids, key)
  IN  [r \in ToSet(ids) |-> Million \div (RRF_K + (CHOOSE i \in DOMAIN ranking : ranking[i] = r))]
Fused(rows, ids) ==
  LET dense   == Shares(ids, [r \in ToSet(ids) |-> rows[r].close])
      keyword == Shares(ids, [r \in ToSet(ids) |-> rows[r].words])
  IN  [r \in ToSet(ids) |-> dense[r] + keyword[r]]
HybridRelevance(rows, ids) ==
  LET fused == Fused(rows, ids)
      top   == Max(Range(fused))
  IN  [r \in ToSet(ids) |-> (100 * fused[r]) \div top]

AtLeastNone(n) == IF n < 0 THEN 0 ELSE n

LevelFit(row, level) ==
  AtLeastNone(100 - 50 * (IF row.from > level THEN row.from - level ELSE level - row.from))

(* age is the days since the link was last verified, -1 for never.         *)
Quality(row) ==
  LET base    == CASE row.curation = "curated" -> 100
                   [] row.curation = "community" -> 60
                   [] OTHER -> 20
      recency == CASE row.age \in 0..180 -> 100 [] row.age \in 181..365 -> 75 [] OTHER -> 50
  IN  (base * recency) \div 100

ModalityPref(row, order) ==
  IF row.modality \notin ToSet(order) THEN 0
  ELSE 100 - (100 * ((CHOOSE i \in DOMAIN order : order[i] = row.modality) - 1))
               \div Len(order)

DurationFit(row, cap) ==
  IF row.minutes <= cap \/ cap <= 0 THEN 100
  ELSE AtLeastNone(100 - (100 * (row.minutes - cap)) \div cap)

(* The weighted sum, less 0.3 for a resource that was followed by failure. *)
Score(rows, ids, q) ==
  LET relevance == HybridRelevance(rows, ids)
  IN  [r \in ToSet(ids) |->
         35 * LevelFit(rows[r], q.level) + 20 * Quality(rows[r])
           + 15 * ModalityPref(rows[r], q.order) + 15 * relevance[r]
           + 10 * DurationFit(rows[r], q.cap) + (IF r \in q.used THEN 0 ELSE 500)
           - (IF r \in q.failed THEN 3000 ELSE 0)]

Pair(row) == <<row.provider, row.modality>>

(* The best of every provider and modality first, then what is left, still *)
(* by score.                                                               *)
First(rows, ranked, i) == \A j \in 1..(i - 1) : Pair(rows[ranked[j]]) # Pair(rows[ranked[i]])
ByVariety(rows, ranked) ==
  {ij \in (DOMAIN ranked) \X (DOMAIN ranked) :
     \/ First(rows, ranked, ij[1]) /\ ~First(rows, ranked, ij[2])
     \/ (First(rows, ranked, ij[1]) <=> First(rows, ranked, ij[2])) /\ ij[1] < ij[2]}
Diversified(rows, ranked, top) ==
  LET order == Arranged(DOMAIN ranked, ByVariety(rows, ranked))
  IN  [n \in (1..top) \cap DOMAIN order |-> ranked[order[n]]]

(* The whole pipeline over the rows of a skill, in the order they came.    *)
Recommend(rows, ids, q) ==
  LET eligible == ElementsAt(ids, {i \in DOMAIN ids : Eligible(rows[ids[i]], q)})
  IN  IF eligible = <<>> THEN <<>>
      ELSE Diversified(rows, SortedBy(eligible, Score(rows, eligible, q)), q.top)
==============================================================================
