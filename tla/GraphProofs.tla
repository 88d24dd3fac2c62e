------------------------------ MODULE GraphProofs ------------------------------
(***************************************************************************)
(* What holds of three of the graphs that serve a learner: of the          *)
(* Onboarding graph (G1) for every catalog, document and answer of a       *)
(* model, of the Planning graph (G2) for every graph of skills, catalog,   *)
(* learner, budget and draft, and of the Tutor graph (G4) for every        *)
(* history of records, request and citation.                               *)
(***************************************************************************)
EXTENDS Onboarding, PlanningGraph, Tutor, FiniteSetTheorems, SequenceTheorems, TLAPS

(* ----------------------- G1: what a run may hold ------------------------ *)

Sources == {Scrub(text) : text \in Texts}
AnyClaims == UNION {Quotations(source) \cup ToSet(Scan(source)) : source \in Sources}
AnyKept == {Verified(claim, source, kind) : claim \in AnyClaims, source \in Sources, kind \in Kinds}
AnyResolution == [skill : Skills \cup {None}, method : Methods]
Summaries == [extracted : Nat, unverified : Nat, injection : Nat, pending : Nat, degraded : BOOLEAN]
Runs == [kind : Kinds, page : Texts, layer : BOOLEAN, source : Sources, status : Statuses,
         attempt : Nat, drafts : Seq(AnyClaims), kept : Seq(AnyKept),
         found : Seq(AnyResolution), summary : Summaries]

RunTypes ==
  /\ TypeOK
  /\ run \in [Uploads -> Runs]
  /\ answer \in [Uploads -> Summaries]

LEMMA EmptySource == <<>> \in Sources
<1>1. Scrub(<<>>) = <<>>
  BY DEF Scrub
<1> QED
  BY <1>1, TextsAssumption DEF Sources

LEMMA SourceShape ==
  ASSUME NEW source \in Sources
  PROVE  /\ Len(source) \in Nat /\ DOMAIN source = 1..Len(source)
         /\ source \in Seq(ToSet(source))
         /\ \A i \in DOMAIN source : source[i] \notin Contacts
<1>1. PICK text \in Texts : source = Scrub(text)
  BY DEF Sources
<1>2. Len(text) \in Nat /\ DOMAIN text = 1..Len(text)
  BY TextsAssumption
<1>3. DOMAIN source = 1..Len(text) /\ \A i \in DOMAIN source : source[i] \notin Contacts
  BY <1>1, <1>2, RedactedAssumption DEF Scrub
<1>4. source = [i \in 1..Len(text) |-> source[i]]
  BY <1>1, <1>2 DEF Scrub
<1>5. source \in Seq(ToSet(source))
  BY <1>2, <1>3, <1>4 DEF ToSet
<1> QED
  BY <1>3, <1>5, LenProperties

LEMMA NoRunTyped == NoRun \in Runs /\ NoSummary \in Summaries
<1>1. NoSummary \in Summaries
  BY DEF NoSummary, Summaries
<1>2. <<>> \in Texts /\ <<>> \in Sources
  BY EmptySource, TextsAssumption
<1> QED
  BY <1>1, <1>2 DEF NoRun, Runs, Kinds, Statuses

(* ------------------------ G1: its pure definitions ---------------------- *)

LEMMA LeastOf ==
  ASSUME NEW S \in SUBSET Nat, S # {}
  PROVE  \E i \in S : \A j \in S : i <= j
<1>1. PICK i \in S : \A j \in S : ~ (<<j, i>> \in OpToRel(<, Nat))
  BY NatLessThanWellFounded, WFMin
<1>2. \A j \in S : ~ (j < i)
  BY <1>1 DEF OpToRel
<1> QED
  BY <1>2

\* A quotation that is verified is where verify_span says it is.
LEMMA SpanFound ==
  ASSUME NEW source \in Sources, NEW claim, SpanVerified(claim, source)
  PROVE  /\ VerifySpan(claim, source) \in DOMAIN source
         /\ Matches(source[VerifySpan(claim, source)], claim.span)
         /\ BehindBy(claim, source) \in {0, Lengthened(source, VerifySpan(claim, source))}
<1> DEFINE exact == {i \in DOMAIN source : Holds(source[i], claim.span)}
<1>0. BehindBy(claim, source) \in {0, Lengthened(source, VerifySpan(claim, source))}
  BY DEF BehindBy
<1>1. DOMAIN source \subseteq Nat
  BY SourceShape
<1>2. CASE SaidAtClaim(claim, source)
  BY <1>0, <1>2 DEF VerifySpan, SaidAtClaim
<1>3. CASE ~ SaidAtClaim(claim, source)
  <2>1. VerifySpan(claim, source) = IF exact = {} THEN 0 ELSE CHOOSE i \in exact : \A j \in exact : i <= j
    BY <1>3 DEF VerifySpan
  <2>2. exact # {}
    BY <2>1 DEF SpanVerified
  <2>3. \E i \in exact : \A j \in exact : i <= j
    BY <1>1, <2>2, LeastOf
  <2>4. VerifySpan(claim, source) \in exact
    BY <2>1, <2>2, <2>3
  <2> QED
    BY <1>0, <2>4 DEF Matches
<1> QED
  BY <1>2, <1>3

LEMMA WordsAreExact ==
  ASSUME NEW label \in Words
  PROVE  /\ FirstSkillOf(label) \in Skills
         /\ Resolutions(label) = {Resolution(FirstSkillOf(label), "exact_alias")}
<1> DEFINE naming == {n \in DOMAIN Phrases : Phrases[n][2] = label}
<1>1. naming # {} /\ naming \in SUBSET Nat
  BY PhrasesAssumption DEF Words
<1>2. \E n \in naming : \A m \in naming : n <= m
  BY <1>1, LeastOf
<1>3. FirstSkillOf(label) \in Skills
  BY <1>2, PhrasesAssumption DEF FirstSkillOf
<1>4. ExactSkill(label) = FirstSkillOf(label) /\ ExactSkill(label) # None
  BY <1>3, BoundsAssumption DEF ExactSkill
<1> QED
  BY <1>3, <1>4 DEF Resolutions

\* What a label may be resolved to.
Grounded(label, to) ==
  /\ to.skill = None <=> to.method = "unmapped"
  /\ label \in Words => to.skill = FirstSkillOf(label) /\ to.method = "exact_alias"
  /\ to.method \in {"embedding", "llm_disambiguation"} =>
       \E like \in Likenesses :
         /\ to.skill \in TopCandidates(like, label)
         /\ \E s \in Skills : like[label][s] >= EMBEDDING_MIN_CANDIDATE_THRESHOLD

LEMMA NearestIsCandidate ==
  ASSUME NEW like, NEW label, NEW s \in Skills, \A t \in Skills : ~ Nearer(like, label, t, s)
  PROVE  s \in TopCandidates(like, label)
<1>1. {t \in Skills : Nearer(like, label, t, s)} = {}
  OBVIOUS
<1>2. Cardinality({t \in Skills : Nearer(like, label, t, s)}) = 0
  BY <1>1, FS_EmptySet
<1> QED
  BY <1>2, BoundsAssumption DEF TopCandidates

Says(text, i, s) == text[i] \in Words /\ FirstSkillOf(text[i]) = s
FirstPlaces(text) ==
  {i \in DOMAIN text : \E s \in Skills : Says(text, i, s) /\ \A j \in 1..(i - 1) : ~ Says(text, j, s)}
ScanClaim(text, i) ==
  [label |-> text[i], span |-> text[i], at |-> i,
   context |-> IF Window(text, i) \cap Verbs # {} THEN "project" ELSE "skills_list"]

\* The scan claims every first place once.
LEMMA ScanEnumerates ==
  ASSUME NEW source \in Sources
  PROVE  /\ Scan(source) \in Seq(ToSet(Scan(source)))
         /\ \A n \in DOMAIN Scan(source) :
              \E i \in FirstPlaces(source) : Scan(source)[n] = ScanClaim(source, i)
         /\ \A i \in FirstPlaces(source) : \E n \in DOMAIN Scan(source) : Scan(source)[n].at = i
         /\ \A m, n \in DOMAIN Scan(source) : Scan(source)[m].at = Scan(source)[n].at => m = n
<1> DEFINE first == FirstPlaces(source)
           N == Cardinality(first)
           places == SetToSeq(first)
<1>1. IsFiniteSet(first)
  <2>1. Len(source) \in Nat /\ DOMAIN source = 1..Len(source)
    BY SourceShape
  <2>2. first \subseteq 1..Len(source)
    BY <2>1 DEF FirstPlaces
  <2>3. IsFiniteSet(1..Len(source))
    BY <2>1, FS_Interval
  <2> QED
    BY <2>2, <2>3, FS_Subset
<1>2. N \in Nat /\ ExistsBijection(1..N, first)
  BY <1>1, FS_CardinalityType
<1>3. places \in [1..N -> first] /\ IsInjective(places)
  <2>1. \E f \in [1..N -> first] : IsInjective(f)
    BY <1>2 DEF ExistsBijection, Bijection, Injection
  <2> QED
    BY <2>1 DEF SetToSeq
<1>4. places \in Surjection(1..N, first)
  <2>1. places \in Injection(1..N, first)
    BY <1>3 DEF Injection
  <2>2. Cardinality(1..N) = N
    BY <1>2, FS_Interval
  <2> QED
    BY <1>1, <2>1, <2>2, FS_Injection
<1>5. Scan(source) = [n \in DOMAIN places |-> ScanClaim(source, places[n])]
  BY DEF Scan, FirstPlaces, Says, ScanClaim
<1> HIDE DEF places, N, first
<1>6. DOMAIN places = 1..N /\ \A n \in 1..N : places[n] \in first
  BY <1>3
<1>7. DOMAIN Scan(source) = 1..N /\ \A n \in 1..N : Scan(source)[n] = ScanClaim(source, places[n])
  BY <1>5, <1>6
<1>8. Scan(source) \in Seq(ToSet(Scan(source)))
  <2>1. Scan(source) = [n \in 1..N |-> Scan(source)[n]]
    BY <1>5, <1>6
  <2>2. \A n \in 1..N : Scan(source)[n] \in ToSet(Scan(source))
    BY <1>7 DEF ToSet
  <2> HIDE <1>5
  <2> QED
    BY <1>2, <2>1, <2>2
<1>9. \A n \in 1..N : Scan(source)[n].at = places[n]
  BY <1>7 DEF ScanClaim
<1>10. \A i \in first : \E n \in 1..N : places[n] = i
  BY <1>4 DEF Surjection
<1> QED
  BY <1>3, <1>6, <1>7, <1>8, <1>9, <1>10 DEF first, IsInjective

LEMMA ScannedLabels ==
  ASSUME NEW source \in Sources, NEW claim \in ToSet(Scan(source))
  PROVE  claim.label \in Words
<1>1. PICK n \in DOMAIN Scan(source) : claim = Scan(source)[n]
  BY DEF ToSet
<1>2. PICK i \in FirstPlaces(source) : claim = ScanClaim(source, i)
  BY <1>1, ScanEnumerates
<1> QED
  BY <1>2 DEF ScanClaim, FirstPlaces, Says

LEMMA ResolvedOnGrounds ==
  ASSUME NEW claim \in AnyClaims, NEW to \in Resolutions(claim.label)
  PROVE  Grounded(claim.label, to) /\ to \in AnyResolution
<1> USE DEF Grounded, AnyResolution, Methods, Resolution
<1>1. CASE claim.label \in Words
  BY <1>1, WordsAreExact, BoundsAssumption
<1>2. CASE claim.label \notin Words
  <2> DEFINE label == claim.label
  <2>1. \A like \in Likenesses : like[label] \in [Skills -> Int]
    BY <1>2, ScannedLabels, LikenessesAssumption DEF AnyClaims, Sources
  <2>2. ExactSkill(label) = None
    BY <1>2 DEF ExactSkill
  <2>3. PICK like \in Likenesses :
          LET best == {s \in Skills : \A t \in Skills : ~ Nearer(like, label, t, s)} IN
          to \in CASE \A s \in best : like[label][s] < EMBEDDING_MIN_CANDIDATE_THRESHOLD -> {Unmapped}
                   [] \E s \in best : like[label][s] >= EMBEDDING_CONFIDENT_THRESHOLD ->
                        {Resolution(s, "embedding") : s \in best}
                   [] OTHER -> {Unmapped} \cup
                        {Resolution(s, "llm_disambiguation") : s \in TopCandidates(like, label)}
    BY <2>2 DEF Resolutions
  <2> DEFINE best == {s \in Skills : \A t \in Skills : ~ Nearer(like, label, t, s)}
  <2> HIDE DEF label
  <2>4. CASE to = Unmapped
    BY <1>2, <2>4 DEF Unmapped, label
  <2>5. ASSUME NEW s \in best, \E t \in best : like[label][t] >= EMBEDDING_CONFIDENT_THRESHOLD,
               to = Resolution(s, "embedding")
        PROVE  Grounded(label, to) /\ to \in AnyResolution
    <3>1. s \in Skills /\ s \in TopCandidates(like, label)
      BY NearestIsCandidate
    <3>2. \E t \in Skills : like[label][t] >= EMBEDDING_MIN_CANDIDATE_THRESHOLD
      BY <2>1, <2>5, <3>1 DEF label, EMBEDDING_CONFIDENT_THRESHOLD, EMBEDDING_MIN_CANDIDATE_THRESHOLD
    <3> QED
      BY <1>2, <2>5, <3>1, <3>2, BoundsAssumption DEF label
  <2>6. ASSUME NEW s \in TopCandidates(like, label), to = Resolution(s, "llm_disambiguation"),
               ~ \A t \in best : like[label][t] < EMBEDDING_MIN_CANDIDATE_THRESHOLD
        PROVE  Grounded(label, to) /\ to \in AnyResolution
    <3>1. s \in Skills
      BY DEF TopCandidates
    <3>2. \E t \in Skills : like[label][t] >= EMBEDDING_MIN_CANDIDATE_THRESHOLD
      BY <2>1, <2>6 DEF label, EMBEDDING_MIN_CANDIDATE_THRESHOLD
    <3> QED
      BY <1>2, <2>6, <3>1, <3>2, BoundsAssumption DEF label
  <2>7. CASE \A s \in best : like[label][s] < EMBEDDING_MIN_CANDIDATE_THRESHOLD
    <3>1. ~ \E s \in best : like[label][s] >= EMBEDDING_CONFIDENT_THRESHOLD
      BY <2>1, <2>7 DEF label, EMBEDDING_CONFIDENT_THRESHOLD, EMBEDDING_MIN_CANDIDATE_THRESHOLD
    <3>2. to = Unmapped
      BY <2>3, <2>7, <3>1
    <3> QED
      BY <2>4, <3>2 DEF label
  <2>8. CASE /\ ~ \A s \in best : like[label][s] < EMBEDDING_MIN_CANDIDATE_THRESHOLD
             /\ \E s \in best : like[label][s] >= EMBEDDING_CONFIDENT_THRESHOLD
    <3>1. to \in {Resolution(s, "embedding") : s \in best}
      BY <2>3, <2>8
    <3> QED
      BY <2>5, <2>8, <3>1 DEF label
  <2>9. CASE /\ ~ \A s \in best : like[label][s] < EMBEDDING_MIN_CANDIDATE_THRESHOLD
             /\ ~ \E s \in best : like[label][s] >= EMBEDDING_CONFIDENT_THRESHOLD
    <3>1. to = Unmapped \/ \E s \in TopCandidates(like, label) : to = Resolution(s, "llm_disambiguation")
      BY <2>3, <2>9
    <3> QED
      BY <2>4, <2>6, <2>9, <3>1 DEF label
  <2> QED
    BY <2>7, <2>8, <2>9
<1> QED
  BY <1>1, <1>2

(* --------------------- G1: the inductive invariant ---------------------- *)

Places == {"idle", "parsing", "extracting", "verifying", "normalizing", "answered", "failed"}
Nameless == {"needs_text_paste", "empty"}

\* A claim worth asking about, as verify_evidence leaves it.
Quoted(claim, text, kind) ==
  /\ claim.at \in DOMAIN text
  /\ Matches(text[claim.at], claim.span)
  /\ claim.behind \in {0, Lengthened(text, claim.at)}
  /\ kind = "github" => claim.tier = 2

\* What a scan found is either still to be verified, kept, or first named
\* beside an instruction.
Askable(text, i) == Window(text, i) \cap Instructions = {}
ScanKept(claim, text) ==
  claim.at \in FirstPlaces(text) /\ Askable(text, claim.at) /\ claim.label = text[claim.at]
ScanFits(r) ==
  /\ \A n \in DOMAIN r.drafts :
       r.drafts[n].at \in FirstPlaces(r.source) /\ r.drafts[n] = ScanClaim(r.source, r.drafts[n].at)
  /\ \A n \in DOMAIN r.kept : ScanKept(r.kept[n], r.source)
  /\ \A m, n \in DOMAIN r.drafts : r.drafts[m].at = r.drafts[n].at => m = n
  /\ \A m, n \in DOMAIN r.kept : r.kept[m].at = r.kept[n].at => m = n
  /\ \A m \in DOMAIN r.drafts, n \in DOMAIN r.kept : r.drafts[m].at # r.kept[n].at
  /\ \A i \in FirstPlaces(r.source) : Askable(r.source, i) =>
       \/ \E n \in DOMAIN r.drafts : r.drafts[n].at = i
       \/ \E n \in DOMAIN r.kept : r.kept[n].at = i

\* What the state of a request is like at each node.
RunFits(u, place, r, stored) ==
  /\ place \in {"parsing", "extracting", "verifying", "normalizing"} /\ r.kind # "github" => u \in stored
  /\ place = "parsing" => r.status \notin Nameless
  /\ place \in {"parsing", "extracting"} => r.kept = <<>>
  /\ place \in {"parsing", "extracting", "verifying"} => r.found = <<>>
  /\ place = "normalizing" => r.drafts = <<>>
  /\ place = "verifying" => r.drafts # <<>>
  /\ r.status \in Nameless => r.source = <<>>
  /\ \A n \in DOMAIN r.kept : Quoted(r.kept[n], r.source, r.kind)
  /\ Len(r.found) <= Len(r.kept)
  /\ \A n \in DOMAIN r.found : r.found[n] \in Resolutions(r.kept[n].label)
  /\ place \in {"verifying", "normalizing"} =>
       /\ r.summary.extracted =
            r.summary.unverified + r.summary.injection + Len(r.kept) + Len(r.drafts)
       /\ r.summary.degraded => ScanFits(r)
RunsTrue == \A u \in Uploads : RunFits(u, pc[u], run[u], files)

DocumentsTrue ==
  \A d \in documents :
    /\ d.id \in Uploads /\ pc[d.id] = "answered"
    /\ d.text \in Sources
    /\ d.kind # "github" => d.id \in files
    /\ d.status \in Nameless => d.text = <<>>
    /\ \A e \in documents : e.id = d.id => e = d

ClaimsTrue ==
  \A c \in claims :
    /\ \E d \in documents : d.id = c.doc /\ Quoted(c.claim, d.text, d.kind)
    /\ c.claim \in AnyKept /\ c.to \in Resolutions(c.claim.label)

AnswersTrue ==
  \A u \in Uploads : pc[u] = "answered" =>
    /\ \E d \in documents : d.id = u
    /\ answer[u].extracted = answer[u].unverified + answer[u].injection + answer[u].pending
    /\ answer[u].pending = Cardinality(RowsFor(u))

ScansTrue ==
  \A d \in documents : answer[d.id].degraded =>
    /\ \A c \in RowsFor(d.id) : ScanKept(c.claim, d.text)
    /\ \A c, e \in RowsFor(d.id) : c.claim.at = e.claim.at => c = e
    /\ \A i \in FirstPlaces(d.text) : Askable(d.text, i) => \E c \in RowsFor(d.id) : c.claim.at = i

OnboardingInv ==
  /\ RunTypes /\ RunsTrue
  /\ DocumentsTrue /\ ClaimsTrue /\ AnswersTrue /\ ScansTrue

(* ------------------------- G1: what steps keep -------------------------- *)

LEMMA OnboardingBegins == Init => OnboardingInv
<1> SUFFICES ASSUME Init PROVE OnboardingInv
  OBVIOUS
<1> USE DEF Init
<1>1. TypeOK
  BY DEF TypeOK
<1>2. RunTypes
  BY <1>1, NoRunTyped DEF RunTypes
<1>3. \A u \in Uploads : RunFits(u, "idle", NoRun, files)
  BY EmptySeq DEF RunFits, NoRun, Nameless
<1>4. RunsTrue
  BY <1>3 DEF RunsTrue
<1> QED
  BY <1>2, <1>4 DEF OnboardingInv, DocumentsTrue, ClaimsTrue, AnswersTrue, ScansTrue

\* A step of a request that does not commit.
LEMMA RunStep ==
  ASSUME OnboardingInv, NEW u \in Uploads, pc[u] # "answered",
         NEW place \in Places \ {"answered"}, NEW r \in Runs,
         RunFits(u, place, r, files'), files' \in {files, files \cup {u}},
         pc' = [pc EXCEPT ![u] = place], run' = [run EXCEPT ![u] = r],
         UNCHANGED <<database, answer>>
  PROVE  OnboardingInv'
<1> USE DEF OnboardingInv, RunTypes
<1>1. UNCHANGED <<documents, claims, answer>>
  BY DEF database
<1>2. pc \in [Uploads -> Places] /\ pc' \in [Uploads -> Places]
  BY DEF TypeOK, Places
<1>3. TypeOK'
  BY <1>1, <1>2 DEF TypeOK, Places
<1>4. RunTypes'
  BY <1>1, <1>3
<1>5. /\ pc'[u] = place /\ run'[u] = r
      /\ \A v \in Uploads \ {u} : pc'[v] = pc[v] /\ run'[v] = run[v]
  BY <1>2
<1>6. ASSUME NEW v \in Uploads, v # u PROVE RunFits(v, pc'[v], run'[v], files')
  <2>1. RunFits(v, pc[v], run[v], files)
    BY DEF RunsTrue
  <2> QED
    BY <1>5, <1>6, <2>1 DEF RunFits
<1>7. RunsTrue'
  BY <1>5, <1>6 DEF RunsTrue
<1>8. \A v \in Uploads : pc[v] = "answered" <=> pc'[v] = "answered"
  BY <1>5
<1>9. DocumentsTrue'
  BY <1>1, <1>8 DEF DocumentsTrue
<1>10. ClaimsTrue' /\ ScansTrue'
  BY <1>1 DEF ClaimsTrue, ScansTrue, RowsFor
<1>11. AnswersTrue'
  BY <1>1, <1>8 DEF AnswersTrue, RowsFor
<1> QED
  BY <1>4, <1>7, <1>9, <1>10, <1>11

LEMMA FailStep ==
  ASSUME OnboardingInv, NEW u \in Uploads, pc[u] # "answered",
         Fails(u), UNCHANGED <<files, database, answer>>
  PROVE  OnboardingInv'
<1>1. RunFits(u, "failed", NoRun, files')
  BY EmptySeq DEF RunFits, NoRun, Nameless
<1> QED
  BY <1>1, RunStep, NoRunTyped DEF Fails, GoTo, Places

LEMMA UploadStep ==
  ASSUME OnboardingInv, NEW u \in Uploads, UploadFile(u) \/ UploadGitHub(u)
  PROVE  OnboardingInv'
<1>1. ASSUME NEW r \in Runs, r.status \notin Nameless, r.kept = <<>>, r.found = <<>>,
             r.kind # "github" => u \in files', files' \in {files, files \cup {u}},
             pc[u] = "idle", run' = [run EXCEPT ![u] = r], GoTo(u, "parsing"),
             UNCHANGED <<database, answer>>
      PROVE  OnboardingInv'
  <2>1. RunFits(u, "parsing", r, files')
    BY <1>1, EmptySeq DEF RunFits
  <2> QED
    BY <1>1, <2>1, RunStep DEF GoTo, Places
<1>2. NoRun.kept = <<>> /\ NoRun.found = <<>> /\ NoRun.status = "pending"
  BY DEF NoRun
<1>3. CASE UploadFile(u)
  <2>1. PICK kind \in Kinds \ {"github"}, page \in Texts, layer \in BOOLEAN :
          run' = [run EXCEPT ![u] = [NoRun EXCEPT !.kind = kind, !.page = page, !.layer = layer]]
    BY <1>3 DEF UploadFile
  <2> DEFINE r == [NoRun EXCEPT !.kind = kind, !.page = page, !.layer = layer]
  <2>2. r \in Runs
    BY NoRunTyped DEF Runs
  <2>3. r.status \notin Nameless /\ r.kept = <<>> /\ r.found = <<>>
    BY <1>2, NoRunTyped DEF Nameless, Runs
  <2> HIDE DEF r
  <2> QED
    BY <1>1, <1>3, <2>1, <2>2, <2>3 DEF UploadFile, r
<1>4. CASE UploadGitHub(u)
  <2>1. PICK page \in Texts, status \in {"pending", "degraded", "degraded: and why at length"} :
          run' = [run EXCEPT ![u] = [NoRun EXCEPT !.kind = "github", !.page = page,
                                                  !.layer = TRUE, !.status = status]]
    BY <1>4 DEF UploadGitHub
  <2> DEFINE r == [NoRun EXCEPT !.kind = "github", !.page = page, !.layer = TRUE, !.status = status]
  <2>2. r \in Runs
    BY NoRunTyped DEF Runs, Kinds, Statuses
  <2>3. r.status \notin Nameless /\ r.kept = <<>> /\ r.found = <<>> /\ r.kind = "github"
    BY <1>2, NoRunTyped DEF Nameless, Runs
  <2> HIDE DEF r
  <2> QED
    BY <1>1, <1>4, <2>1, <2>2, <2>3 DEF UploadGitHub, r
<1> QED
  BY <1>3, <1>4

LEMMA ParsedStep ==
  ASSUME OnboardingInv, NEW u \in Uploads, pc[u] = "parsing",
         NEW text \in Texts, NEW status \in Statuses, Parsed(u, text, status),
         status \in Nameless => text = <<>>
  PROVE  OnboardingInv'
<1> DEFINE r == [run[u] EXCEPT !.source = Scrub(text),
                               !.status = IF run[u].status = "pending" THEN status ELSE run[u].status]
<1>1. run \in [Uploads -> Runs] /\ RunFits(u, "parsing", run[u], files)
  BY DEF OnboardingInv, RunTypes, RunsTrue
<1>2. Scrub(text) \in Sources /\ Scrub(<<>>) = <<>>
  BY DEF Sources, Scrub
<1>3. run' = [run EXCEPT ![u] = r]
  BY <1>1 DEF Parsed
<1>4. r \in Runs
  BY <1>1, <1>2 DEF Runs
<1>5. RunFits(u, "extracting", r, files)
  BY <1>1, <1>2, EmptySeq DEF RunFits, Runs, Nameless
<1> HIDE DEF r
<1> QED
  BY <1>3, <1>4, <1>5, RunStep DEF Parsed, GoTo, Places

LEMMA ExtractedStep ==
  ASSUME OnboardingInv, NEW u \in Uploads, pc[u] = "extracting",
         NEW drafts \in Seq(AnyClaims), NEW degraded \in BOOLEAN, Extracted(u, drafts, degraded),
         degraded => drafts = Scan(run[u].source)
  PROVE  OnboardingInv'
<1> DEFINE counts == [NoSummary EXCEPT !.extracted = Len(drafts), !.degraded = degraded]
           r == [run[u] EXCEPT !.drafts = drafts, !.summary = counts]
           place == IF drafts = <<>> THEN "normalizing" ELSE "verifying"
<1>1. run \in [Uploads -> Runs] /\ RunFits(u, "extracting", run[u], files)
  BY DEF OnboardingInv, RunTypes, RunsTrue
<1>2. run' = [run EXCEPT ![u] = r]
  BY <1>1 DEF Extracted
<1>3. Len(drafts) \in Nat /\ (drafts = <<>> => Len(drafts) = 0) /\ DOMAIN drafts = 1..Len(drafts)
  BY LenProperties, EmptySeq
<1>4. counts \in Summaries
  BY <1>3, NoRunTyped DEF Summaries
<1>5. r \in Runs
  BY <1>1, <1>4 DEF Runs
<1>6. /\ r.drafts = drafts /\ r.source = run[u].source /\ r.kept = <<>> /\ r.found = <<>>
      /\ r.kind = run[u].kind /\ r.status = run[u].status /\ r.summary = counts
  BY <1>1 DEF Runs, RunFits
<1>7. counts.extracted = Len(drafts) /\ counts.unverified = 0 /\ counts.injection = 0
      /\ counts.degraded = degraded
  BY DEF NoSummary
<1>8. degraded => ScanFits(r)
  <2> SUFFICES ASSUME degraded PROVE ScanFits(r)
    OBVIOUS
  <2>1. drafts = Scan(run[u].source) /\ run[u].source \in Sources
    BY <1>1 DEF Runs
  <2>2. /\ \A n \in DOMAIN drafts : \E i \in FirstPlaces(r.source) : drafts[n] = ScanClaim(r.source, i)
        /\ \A i \in FirstPlaces(r.source) : \E n \in DOMAIN drafts : drafts[n].at = i
        /\ \A m, n \in DOMAIN drafts : drafts[m].at = drafts[n].at => m = n
    BY <1>6, <2>1, ScanEnumerates
  <2>3. \A n \in DOMAIN drafts :
          drafts[n].at \in FirstPlaces(r.source) /\ drafts[n] = ScanClaim(r.source, drafts[n].at)
    BY <2>2 DEF ScanClaim
  <2> HIDE DEF r
  <2>4. DOMAIN r.kept = {}
    BY <1>6, EmptySeq
  <2>5. \A i \in FirstPlaces(r.source) : \E n \in DOMAIN r.drafts : r.drafts[n].at = i
    BY <1>6, <2>2
  <2>6. \A m, n \in DOMAIN r.drafts : r.drafts[m].at = r.drafts[n].at => m = n
    BY <1>6, <2>2
  <2>7. \A n \in DOMAIN r.drafts :
          r.drafts[n].at \in FirstPlaces(r.source) /\ r.drafts[n] = ScanClaim(r.source, r.drafts[n].at)
    BY <1>6, <2>3
  <2> QED
    BY <2>4, <2>5, <2>6, <2>7 DEF ScanFits
<1> HIDE DEF counts, r
<1>9. RunFits(u, place, r, files)
  BY <1>1, <1>3, <1>6, <1>7, <1>8, EmptySeq DEF RunFits
<1> QED
  BY <1>2, <1>5, <1>9, RunStep DEF Extracted, VerifyNext, GoTo, Places

\* A claim of the scan is verified where it was found.
LEMMA ScannedClaim ==
  ASSUME NEW text \in Sources, NEW claim, claim.at \in FirstPlaces(text),
         claim = ScanClaim(text, claim.at)
  PROVE  /\ VerifySpan(claim, text) = claim.at /\ claim.at \in DOMAIN text
         /\ Kept(claim, text) <=> Askable(text, claim.at)
<1> PICK i : i = claim.at
  OBVIOUS
<1>1. i \in DOMAIN text /\ text[i] = claim.span /\ claim.at = i
  BY DEF FirstPlaces, ScanClaim
<1>2. VerifySpan(claim, text) = i
  BY <1>1 DEF VerifySpan, SaidAtClaim, Matches, Alike
<1>3. i # 0
  <2>1. DOMAIN text = 1..Len(text) /\ Len(text) \in Nat
    BY SourceShape
  <2> QED
    BY <1>1, <2>1
<1>4. CheckInjection(claim, text) <=> ~ Askable(text, i)
  BY <1>1 DEF CheckInjection, Askable
<1> QED
  BY <1>1, <1>2, <1>3, <1>4 DEF Kept, SpanVerified

\* Whatever becomes of a claim, it is counted once.
CountsAfter(counts, claim, text) ==
  [counts EXCEPT
     !.unverified = counts.unverified + (IF SpanVerified(claim, text) THEN 0 ELSE 1),
     !.injection = counts.injection + (IF Flagged(claim, text) THEN 1 ELSE 0)]
KeptAfter(k, claim, text) == IF Kept(claim, text) THEN k + 1 ELSE k

LEMMA ClaimCounted ==
  ASSUME NEW counts \in Summaries, NEW claim, NEW text, NEW k \in Nat
  PROVE  /\ CountsAfter(counts, claim, text) \in Summaries
         /\ CountsAfter(counts, claim, text).extracted = counts.extracted
         /\ CountsAfter(counts, claim, text).degraded = counts.degraded
         /\ \A d \in Nat : counts.extracted = counts.unverified + counts.injection + k + (d + 1)
              => counts.extracted = CountsAfter(counts, claim, text).unverified
                   + CountsAfter(counts, claim, text).injection + KeptAfter(k, claim, text) + d
<1>after. PICK after : after = CountsAfter(counts, claim, text)
  OBVIOUS
<1>l. PICK l : l = KeptAfter(k, claim, text)
  OBVIOUS
<1>1. counts.unverified \in Nat /\ counts.injection \in Nat /\ counts.extracted \in Nat
  BY DEF Summaries
<1>2. PICK more \in Nat : more = IF SpanVerified(claim, text) THEN 0 ELSE 1
  OBVIOUS
<1>3. PICK flags \in Nat : flags = IF Flagged(claim, text) THEN 1 ELSE 0
  OBVIOUS
<1>4. after = [counts EXCEPT !.unverified = counts.unverified + more,
                             !.injection = counts.injection + flags]
  BY <1>2, <1>3, <1>after, Zenon DEF CountsAfter
<1>5. more + flags + l = k + 1
  <2>1. CASE ~ SpanVerified(claim, text)
    BY <1>2, <1>3, <1>l, <2>1 DEF Flagged, Kept, KeptAfter
  <2>2. CASE SpanVerified(claim, text) /\ CheckInjection(claim, text)
    BY <1>2, <1>3, <1>l, <2>2 DEF Flagged, Kept, KeptAfter
  <2>3. CASE SpanVerified(claim, text) /\ ~ CheckInjection(claim, text)
    BY <1>2, <1>3, <1>l, <2>3 DEF Flagged, Kept, KeptAfter
  <2> QED
    BY <2>1, <2>2, <2>3
<1>6. l \in Nat
  BY <1>l DEF KeptAfter
<1>7. after \in Summaries
  <2>1. counts.unverified + more \in Nat /\ counts.injection + flags \in Nat
    BY <1>1
  <2> QED
    BY <1>4, <2>1 DEF Summaries
<1>8. after.unverified = counts.unverified + more /\ after.injection = counts.injection + flags
  BY <1>4 DEF Summaries
<1>9. after.extracted = counts.extracted
  BY <1>4 DEF Summaries
<1>10. after.degraded = counts.degraded
  BY <1>4 DEF Summaries
<1> QED
  BY <1>1, <1>5, <1>6, <1>7, <1>8, <1>9, <1>10, <1>after, <1>l

LEMMA ErrStep ==
  ASSUME OnboardingInv, NEW u \in Uploads, ModelErrs(u)
  PROVE  OnboardingInv'
<1>s. PICK s : s = run[u]
  OBVIOUS
<1>r. PICK r : r = [s EXCEPT !.attempt = s.attempt + 1]
  OBVIOUS
<1>1. /\ run \in [Uploads -> Runs] /\ s \in Runs /\ pc \in [Uploads -> Places]
      /\ pc[u] = "extracting" /\ RunFits(u, "extracting", s, files)
  BY <1>s DEF OnboardingInv, RunTypes, RunsTrue, ModelErrs, TypeOK, Places
<1>2. run' = [run EXCEPT ![u] = r]
  BY <1>1, <1>s, <1>r DEF ModelErrs
<1>3. r \in Runs
  <2>1. s.attempt + 1 \in Nat
    BY <1>1 DEF Runs
  <2> QED
    BY <1>1, <1>r, <2>1 DEF Runs
<1>4. /\ r.found = s.found /\ r.kept = s.kept /\ r.drafts = s.drafts
      /\ r.source = s.source /\ r.kind = s.kind /\ r.status = s.status
  BY <1>1, <1>r DEF Runs
<1>5. RunFits(u, "extracting", r, files)
  BY <1>1, <1>4 DEF RunFits
<1>6. pc' = [pc EXCEPT ![u] = "extracting"]
  BY <1>1 DEF ModelErrs
<1> QED
  BY <1>1, <1>2, <1>3, <1>5, <1>6, RunStep DEF ModelErrs, Places

LEMMA VerifyStep ==
  ASSUME OnboardingInv, NEW u \in Uploads, Verify(u)
  PROVE  OnboardingInv'
<1>s. PICK s : s = run[u]
  OBVIOUS
<1>text. PICK text : text = s.source
  OBVIOUS
<1>claim. PICK claim : claim = Head(s.drafts)
  OBVIOUS
<1>rest. PICK rest : rest = Tail(s.drafts)
  OBVIOUS
<1>new. PICK new : new = Verified(claim, text, s.kind)
  OBVIOUS
<1>kept. PICK kept : kept = IF Kept(claim, text) THEN Append(s.kept, new) ELSE s.kept
  OBVIOUS
<1>counts. PICK counts : counts = CountsAfter(s.summary, claim, text)
  OBVIOUS
<1>r. PICK r : r = [s EXCEPT !.drafts = rest, !.kept = kept, !.summary = counts]
  OBVIOUS
<1> DEFINE place == IF rest = <<>> THEN "normalizing" ELSE "verifying"
<1>1. run \in [Uploads -> Runs] /\ s \in Runs /\ pc[u] = "verifying" /\ RunFits(u, "verifying", s, files)
  BY <1>s DEF OnboardingInv, RunTypes, RunsTrue, Verify
<1>2. run' = [run EXCEPT ![u] = r]
  BY <1>s, <1>text, <1>claim, <1>rest, <1>new, <1>kept, <1>counts, <1>r DEF Verify, CountsAfter
<1>3. /\ text \in Sources /\ s.kind \in Kinds /\ s.kept \in Seq(AnyKept) /\ s.summary \in Summaries
      /\ s.drafts \in Seq(AnyClaims) /\ s.drafts # <<>> /\ s.found = <<>>
  BY <1>1, <1>text DEF Runs, RunFits
<1>4. /\ claim = s.drafts[1] /\ claim \in AnyClaims /\ rest \in Seq(AnyClaims)
      /\ Len(s.drafts) \in Nat /\ Len(s.drafts) >= 1 /\ Len(rest) = Len(s.drafts) - 1
      /\ DOMAIN s.drafts = 1..Len(s.drafts) /\ DOMAIN rest = 1..Len(s.drafts) - 1
      /\ \A n \in 1..Len(s.drafts) - 1 : rest[n] = s.drafts[n + 1]
  BY <1>3, <1>claim, <1>rest, HeadTailProperties, LenProperties, EmptySeq
<1>5. new \in AnyKept
  BY <1>3, <1>4, <1>new DEF AnyKept
<1>6. /\ kept \in Seq(AnyKept) /\ Len(s.kept) \in Nat /\ DOMAIN s.kept = 1..Len(s.kept)
      /\ Len(kept) = IF Kept(claim, text) THEN Len(s.kept) + 1 ELSE Len(s.kept)
      /\ DOMAIN kept = 1..Len(kept)
      /\ \A n \in 1..Len(s.kept) : kept[n] = s.kept[n]
      /\ Kept(claim, text) => kept[Len(s.kept) + 1] = new
  BY <1>3, <1>5, <1>kept, AppendProperties, LenProperties
<1>7. /\ counts \in Summaries
      /\ counts.extracted = s.summary.extracted /\ counts.degraded = s.summary.degraded
      /\ \A d \in Nat : s.summary.extracted = s.summary.unverified + s.summary.injection + Len(s.kept) + (d + 1)
           => counts.extracted = counts.unverified + counts.injection + Len(kept) + d
  <2>1. s.summary \in Summaries /\ Len(s.kept) \in Nat
    BY <1>3, <1>6
  <2>2. Len(kept) = KeptAfter(Len(s.kept), claim, text)
    BY <1>6 DEF KeptAfter
  <2> QED
    BY <2>1, <2>2, <1>counts, ClaimCounted
<1>8. r \in Runs
  <2>1. rest \in Seq(AnyClaims) /\ kept \in Seq(AnyKept) /\ counts \in Summaries
    BY <1>4, <1>6, <1>7
  <2> QED
    BY <1>1, <1>r, <2>1 DEF Runs
<1>9. /\ r.drafts = rest /\ r.kept = kept /\ r.summary = counts /\ r.source = text
      /\ r.kind = s.kind /\ r.status = s.status /\ r.found = <<>>
  BY <1>1, <1>3, <1>text, <1>r DEF Runs
<1>10. Kept(claim, text) => Quoted(new, text, s.kind)
  BY <1>3, <1>new, SpanFound DEF Kept, Quoted, Verified, AssignTier
<1>11. \A n \in DOMAIN kept : Quoted(kept[n], text, s.kind)
  <2> SUFFICES ASSUME NEW n \in DOMAIN kept PROVE Quoted(kept[n], text, s.kind)
    OBVIOUS
  <2>1. CASE n \in 1..Len(s.kept)
    BY <1>1, <1>6, <1>text, <2>1 DEF RunFits
  <2>2. CASE n \notin 1..Len(s.kept)
    BY <1>6, <1>10, <2>2
  <2> QED
    BY <2>1, <2>2
<1>13. counts.extracted = counts.unverified + counts.injection + Len(kept) + Len(rest)
  <2>1. s.summary.extracted = s.summary.unverified + s.summary.injection + Len(s.kept) + Len(s.drafts)
    BY <1>1 DEF RunFits
  <2>2. Len(rest) \in Nat /\ Len(s.drafts) = Len(rest) + 1
    BY <1>4
  <2> QED
    BY <1>7, <2>1, <2>2
<1>14. r.summary.degraded => ScanFits(r)
  <2> SUFFICES ASSUME r.summary.degraded PROVE ScanFits(r)
    OBVIOUS
  <2>1. ScanFits(s)
    BY <1>1, <1>7, <1>9 DEF RunFits
  <2>2. claim.at \in FirstPlaces(text) /\ claim = ScanClaim(text, claim.at)
    BY <1>4, <1>text, <2>1 DEF ScanFits
  <2>3. /\ VerifySpan(claim, text) = claim.at /\ claim.at \in DOMAIN text
        /\ Kept(claim, text) <=> Askable(text, claim.at)
    BY <2>2, ScannedClaim, <1>3
  <2>4. new.at = claim.at /\ new.label = text[claim.at]
    BY <1>new, <2>2, <2>3 DEF Verified, ScanClaim
  <2>5. \A n \in DOMAIN rest : n + 1 \in DOMAIN s.drafts /\ n + 1 # 1 /\ 1 \in DOMAIN s.drafts
                                /\ rest[n] = s.drafts[n + 1]
    BY <1>4
  <2>6. \A n \in DOMAIN rest : rest[n].at \in FirstPlaces(text) /\ rest[n] = ScanClaim(text, rest[n].at)
    BY <1>text, <2>1, <2>5 DEF ScanFits
  <2>once. \A m, n \in DOMAIN s.drafts : s.drafts[m].at = s.drafts[n].at => m = n
    BY <2>1 DEF ScanFits
  <2>7. ASSUME NEW m \in DOMAIN rest, NEW n \in DOMAIN rest, rest[m].at = rest[n].at
        PROVE  m = n
    <3>1. m + 1 = n + 1
      BY <2>once, <2>5, <2>7
    <3>2. m \in Int /\ n \in Int
      BY <1>4
    <3> QED
      BY <3>1, <3>2
  <2>8. ASSUME NEW n \in DOMAIN rest PROVE rest[n].at # claim.at
    <3>1. s.drafts[n + 1].at # s.drafts[1].at
      BY <2>once, <2>5
    <3> QED
      BY <1>4, <2>5, <3>1
  <2>9. \A n \in DOMAIN s.kept : s.kept[n].at # claim.at /\ \A m \in DOMAIN rest : rest[m].at # s.kept[n].at
    BY <1>4, <2>1, <2>5 DEF ScanFits
  <2>10. \A n \in DOMAIN kept :
           \/ n \in DOMAIN s.kept /\ kept[n] = s.kept[n]
           \/ n = Len(s.kept) + 1 /\ Kept(claim, text) /\ kept[n] = new
    BY <1>6
  <2>11. \A n \in DOMAIN kept : ScanKept(kept[n], text)
    BY <1>text, <2>1, <2>2, <2>3, <2>4, <2>10 DEF ScanFits, ScanKept
  <2>12. \A m, n \in DOMAIN kept : kept[m].at = kept[n].at => m = n
    BY <2>1, <2>4, <2>9, <2>10 DEF ScanFits
  <2>13. \A m \in DOMAIN rest, n \in DOMAIN kept : rest[m].at # kept[n].at
    BY <2>4, <2>8, <2>9, <2>10
  <2>14. ASSUME NEW i \in FirstPlaces(text), Askable(text, i)
         PROVE  \/ \E n \in DOMAIN rest : rest[n].at = i
                \/ \E n \in DOMAIN kept : kept[n].at = i
    <3>1. CASE i = claim.at
      <4>1. Len(s.kept) + 1 \in DOMAIN kept /\ kept[Len(s.kept) + 1] = new
        BY <1>6, <2>3, <2>14, <3>1
      <4> QED
        BY <2>4, <3>1, <4>1
    <3>2. CASE \E n \in DOMAIN s.kept : s.kept[n].at = i
      BY <1>6, <3>2
    <3>3. CASE i # claim.at /\ \E n \in DOMAIN s.drafts : s.drafts[n].at = i
      <4>1. PICK n \in DOMAIN s.drafts : s.drafts[n].at = i
        BY <3>3
      <4>2. n - 1 \in DOMAIN rest /\ rest[n - 1] = s.drafts[n]
        BY <1>4, <3>3, <4>1
      <4> QED
        BY <4>1, <4>2
    <3> QED
      BY <1>text, <2>1, <2>14, <3>1, <3>2, <3>3 DEF ScanFits
  <2> QED
    BY <1>9, <2>6, <2>7, <2>11, <2>12, <2>13, <2>14 DEF ScanFits
<1>15. RunFits(u, place, r, files)
  <2>1. /\ r.kind # "github" => u \in files
        /\ r.status \in Nameless => r.source = <<>>
    BY <1>1, <1>9, <1>text DEF RunFits
  <2>2. \A n \in DOMAIN r.kept : Quoted(r.kept[n], r.source, r.kind)
    BY <1>9, <1>11
  <2>3. Len(r.found) <= Len(r.kept) /\ DOMAIN r.found = {} /\ r.found = <<>>
    BY <1>6, <1>9, EmptySeq
  <2>4. r.summary.extracted = r.summary.unverified + r.summary.injection + Len(r.kept) + Len(r.drafts)
    BY <1>9, <1>13
  <2>5. place = "normalizing" => r.drafts = <<>>
    BY <1>9
  <2>6. place = "verifying" => r.drafts # <<>>
    BY <1>9
  <2> QED
    BY <1>14, <2>1, <2>2, <2>3, <2>4, <2>5, <2>6 DEF RunFits
<1> QED
  BY <1>1, <1>2, <1>8, <1>15, <1>s, <1>rest, RunStep DEF Verify, VerifyNext, GoTo, Places

LEMMA KeptLabel ==
  ASSUME NEW kept \in AnyKept
  PROVE  /\ kept.tier \in 0..2
         /\ \E claim \in AnyClaims : claim.label = kept.label
BY DEF AnyKept, Verified, AssignTier

LEMMA NormalizeStep ==
  ASSUME OnboardingInv, NEW u \in Uploads, Normalize(u)
  PROVE  OnboardingInv'
<1>s. PICK s : s = run[u]
  OBVIOUS
<1>1. run \in [Uploads -> Runs] /\ s \in Runs /\ pc[u] = "normalizing" /\ RunFits(u, "normalizing", s, files)
  BY <1>s DEF OnboardingInv, RunTypes, RunsTrue, Normalize
<1>2. PICK resolution \in Resolutions(s.kept[Len(s.found) + 1].label) :
        run' = [run EXCEPT ![u] = [s EXCEPT !.found = Append(s.found, resolution)]]
  BY <1>1, <1>s DEF Normalize
<1>r. PICK r : r = [s EXCEPT !.found = Append(s.found, resolution)]
  OBVIOUS
<1>3. /\ s.found \in Seq(AnyResolution) /\ s.kept \in Seq(AnyKept)
      /\ Len(s.found) \in Nat /\ DOMAIN s.found = 1..Len(s.found)
      /\ Len(s.kept) \in Nat /\ DOMAIN s.kept = 1..Len(s.kept)
      /\ Len(s.found) + 1 <= Len(s.kept)
  BY <1>1, <1>s, LenProperties DEF Runs, Normalize
<1>4. resolution \in AnyResolution
  <2>1. s.kept[Len(s.found) + 1] \in AnyKept
    BY <1>3, ElementOfSeq
  <2> QED
    BY <1>2, <2>1, KeptLabel, ResolvedOnGrounds
<1>5. /\ Append(s.found, resolution) \in Seq(AnyResolution)
      /\ Len(Append(s.found, resolution)) = Len(s.found) + 1
      /\ DOMAIN Append(s.found, resolution) = 1..Len(s.found) + 1
      /\ \A n \in 1..Len(s.found) : Append(s.found, resolution)[n] = s.found[n]
      /\ Append(s.found, resolution)[Len(s.found) + 1] = resolution
  BY <1>3, <1>4, AppendProperties, LenProperties
<1>6. r \in Runs
  BY <1>1, <1>r, <1>5 DEF Runs
<1>7. /\ r.found = Append(s.found, resolution) /\ r.kept = s.kept /\ r.drafts = s.drafts
      /\ r.source = s.source /\ r.kind = s.kind /\ r.status = s.status /\ r.summary = s.summary
  BY <1>1, <1>r DEF Runs
<1>8. ScanFits(s) => ScanFits(r)
  BY <1>7 DEF ScanFits
<1>9. \A n \in DOMAIN r.found : r.found[n] \in Resolutions(r.kept[n].label)
  <2> SUFFICES ASSUME NEW n \in 1..Len(s.found) + 1
               PROVE  r.found[n] \in Resolutions(s.kept[n].label)
    BY <1>5, <1>7
  <2>1. CASE n \in 1..Len(s.found)
    BY <1>1, <1>3, <1>5, <1>7, <2>1 DEF RunFits
  <2>2. CASE n = Len(s.found) + 1
    BY <1>2, <1>5, <1>7, <2>2
  <2> QED
    BY <1>3, <2>1, <2>2
<1>10. RunFits(u, "normalizing", r, files)
  <2>1. Len(r.found) <= Len(r.kept)
    BY <1>3, <1>5, <1>7
  <2> QED
    BY <1>1, <1>7, <1>8, <1>9, <2>1 DEF RunFits
<1>11. pc' = [pc EXCEPT ![u] = "normalizing"]
  BY <1>1 DEF Normalize, OnboardingInv, RunTypes, TypeOK
<1> QED
  BY <1>1, <1>2, <1>r, <1>6, <1>10, <1>11, RunStep DEF Normalize, Places

\* The rows of a request that saves are one for each claim it kept.
LEMMA RowsSaved ==
  ASSUME OnboardingInv, NEW u \in Uploads, Save(u)
  PROVE  /\ RowsFor(u)' = RowsOf(u)
         /\ \A v \in Uploads \ {u} : RowsFor(v)' = RowsFor(v)
         /\ Cardinality(RowsOf(u)) = Len(run[u].found)
<1>1. /\ claims' = claims \cup RowsOf(u) /\ pc[u] = "normalizing"
      /\ run[u].found \in Seq(AnyResolution)
  BY DEF Save, OnboardingInv, RunTypes, Runs
<1>2. \A c \in RowsOf(u) : c.doc = u
  BY DEF RowsOf
<1>3. \A c \in claims : c.doc # u
  BY <1>1 DEF OnboardingInv, ClaimsTrue, DocumentsTrue
<1>4. RowsFor(u)' = RowsOf(u)
  BY <1>1, <1>2, <1>3 DEF RowsFor
<1>5. \A v \in Uploads \ {u} : RowsFor(v)' = RowsFor(v)
  BY <1>1, <1>2 DEF RowsFor
<1>6. Cardinality(RowsOf(u)) = Len(run[u].found)
  <2> DEFINE N == Len(run[u].found)
             row == [n \in 1..N |-> [doc |-> u, n |-> n, claim |-> run[u].kept[n], to |-> run[u].found[n]]]
  <2>1. N \in Nat /\ DOMAIN run[u].found = 1..N
    BY <1>1, LenProperties
  <2>2. \A n \in 1..N : row[n].n = n
    OBVIOUS
  <2>3. RowsOf(u) = {row[n] : n \in 1..N}
    BY <2>1 DEF RowsOf
  <2>4. DOMAIN row = 1..N /\ row = [n \in 1..N |-> row[n]]
    OBVIOUS
  <2> HIDE DEF row, N
  <2>5. row \in Bijection(1..N, RowsOf(u))
    BY <2>2, <2>3, <2>4 DEF Bijection, Injection, Surjection, IsInjective
  <2> QED
    BY <2>1, <2>5, FS_CountingElements DEF ExistsBijection, N
<1> QED
  BY <1>4, <1>5, <1>6

LEMMA SaveStep ==
  ASSUME OnboardingInv, NEW u \in Uploads, Save(u)
  PROVE  OnboardingInv'
<1>s. PICK s : s = run[u]
  OBVIOUS
<1>doc. PICK doc : doc = [id |-> u, kind |-> s.kind, status |-> s.status, text |-> s.source]
  OBVIOUS
<1>1. /\ run \in [Uploads -> Runs] /\ s \in Runs /\ pc[u] = "normalizing"
      /\ RunFits(u, "normalizing", s, files) /\ pc \in [Uploads -> Places]
      /\ answer \in [Uploads -> Summaries] /\ files \subseteq Uploads
  BY <1>s DEF OnboardingInv, RunTypes, RunsTrue, Save, TypeOK, Places
<1>2. /\ s.source \in Sources /\ s.kind \in Kinds /\ s.status \in Statuses /\ s.summary \in Summaries
      /\ s.kept \in Seq(AnyKept) /\ s.found \in Seq(AnyResolution)
  BY <1>1 DEF Runs
<1>3. /\ DOMAIN s.found = 1..Len(s.found) /\ DOMAIN s.kept = 1..Len(s.kept)
      /\ Len(s.found) \in Nat /\ Len(s.kept) = Len(s.found)
      /\ \A n \in DOMAIN s.kept : s.kept[n] \in AnyKept
      /\ \A n \in DOMAIN s.found : s.found[n] \in AnyResolution
  BY <1>2, <1>s, LenProperties, ElementOfSeq DEF Save
<1>4. /\ documents' = documents \cup {doc} /\ claims' = claims \cup RowsOf(u) /\ files' = files
      /\ doc.id = u /\ doc.kind = s.kind /\ doc.status = s.status /\ doc.text = s.source
  BY <1>s, <1>doc DEF Save
<1>5. /\ pc'[u] = "answered" /\ run'[u] = NoRun
      /\ \A v \in Uploads \ {u} : pc'[v] = pc[v] /\ run'[v] = run[v] /\ answer'[v] = answer[v]
      /\ pc' \in [Uploads -> Places]
  BY <1>1 DEF Save, GoTo, Places
<1>6. answer'[u] = [s.summary EXCEPT !.pending = Len(s.found)]
  BY <1>1, <1>s DEF Save
<1>7. /\ answer'[u] \in Summaries /\ answer'[u].pending = Len(s.found)
      /\ answer'[u].extracted = s.summary.extracted /\ answer'[u].degraded = s.summary.degraded
      /\ answer'[u].unverified = s.summary.unverified /\ answer'[u].injection = s.summary.injection
  BY <1>2, <1>3, <1>6 DEF Summaries
<1>8. \A d \in documents : d.id # u
  BY <1>1 DEF OnboardingInv, DocumentsTrue
<1>9. ASSUME NEW c \in RowsOf(u)
      PROVE  /\ c.doc = u /\ c.claim \in AnyKept /\ c.to \in AnyResolution
             /\ \E n \in DOMAIN s.kept : c.n = n /\ c.claim = s.kept[n] /\ c.to = s.found[n]
  <2>1. PICK n \in DOMAIN s.found : c = [doc |-> u, n |-> n, claim |-> s.kept[n], to |-> s.found[n]]
    BY <1>s DEF RowsOf
  <2> QED
    BY <1>3, <2>1
<1>10. TypeOK'
  <2>1. \A d \in documents' : d.id \in Uploads /\ d.kind \in Kinds /\ d.status \in Statuses
    BY <1>2, <1>4 DEF OnboardingInv, RunTypes, TypeOK
  <2>2. \A c \in claims' : c.claim.tier \in 0..2 /\ c.to.method \in Methods
    BY <1>4, <1>9, KeptLabel DEF OnboardingInv, RunTypes, TypeOK, AnyResolution
  <2>3. DOMAIN run' = Uploads /\ DOMAIN answer' = Uploads
    BY <1>1 DEF Save
  <2> QED
    BY <1>1, <1>4, <1>5, <2>1, <2>2, <2>3 DEF TypeOK, Places
<1>11. RunTypes'
  <2>1. run' \in [Uploads -> Runs]
    BY <1>1, NoRunTyped DEF Save
  <2>2. answer' \in [Uploads -> Summaries]
    BY <1>1, <1>6, <1>7, <1>s DEF Save
  <2> QED
    BY <1>10, <2>1, <2>2 DEF RunTypes
<1>12. RunsTrue'
  <2>1. RunFits(u, "answered", NoRun, files)
    BY EmptySeq DEF RunFits, NoRun, Nameless
  <2> QED
    BY <1>4, <1>5, <2>1 DEF RunsTrue, OnboardingInv
<1>13. DocumentsTrue'
  <2>1. ASSUME NEW d \in documents
        PROVE  /\ d.id \in Uploads /\ pc'[d.id] = "answered" /\ d.text \in Sources
               /\ d.kind # "github" => d.id \in files'
               /\ d.status \in Nameless => d.text = <<>>
               /\ \A e \in documents' : e.id = d.id => e = d
    BY <1>4, <1>5, <1>8 DEF OnboardingInv, DocumentsTrue
  <2>2. /\ pc'[u] = "answered" /\ doc.text \in Sources
        /\ doc.kind # "github" => u \in files'
        /\ doc.status \in Nameless => doc.text = <<>>
        /\ \A e \in documents' : e.id = u => e = doc
    BY <1>1, <1>2, <1>4, <1>5, <1>8 DEF RunFits
  <2> QED
    BY <1>4, <2>1, <2>2 DEF DocumentsTrue
<1>14. ClaimsTrue'
  <2>1. ASSUME NEW c \in claims
        PROVE  /\ \E d \in documents' : d.id = c.doc /\ Quoted(c.claim, d.text, d.kind)
               /\ c.claim \in AnyKept /\ c.to \in Resolutions(c.claim.label)
    BY <1>4 DEF OnboardingInv, ClaimsTrue
  <2>2. ASSUME NEW c \in RowsOf(u)
        PROVE  /\ \E d \in documents' : d.id = c.doc /\ Quoted(c.claim, d.text, d.kind)
               /\ c.claim \in AnyKept /\ c.to \in Resolutions(c.claim.label)
    <3>1. PICK n \in DOMAIN s.kept : c.claim = s.kept[n] /\ c.to = s.found[n]
      BY <1>9
    <3>2. Quoted(c.claim, doc.text, doc.kind) /\ c.to \in Resolutions(c.claim.label)
      BY <1>1, <1>3, <1>4, <3>1 DEF RunFits
    <3> QED
      BY <1>4, <1>9, <3>2
  <2> QED
    BY <1>4, <2>1, <2>2 DEF ClaimsTrue
<1>15. AnswersTrue'
  <2>1. /\ \E d \in documents' : d.id = u
        /\ answer'[u].extracted = answer'[u].unverified + answer'[u].injection + answer'[u].pending
        /\ answer'[u].pending = Cardinality(RowsFor(u)')
    <3>1. s.drafts = <<>> /\ Len(s.drafts) = 0
      BY <1>1, EmptySeq DEF RunFits
    <3>2. s.summary.extracted = s.summary.unverified + s.summary.injection + Len(s.kept) + 0
      BY <1>1, <3>1 DEF RunFits
    <3>3. s.summary.unverified \in Nat /\ s.summary.injection \in Nat
      BY <1>2 DEF Summaries
    <3> QED
      BY <1>3, <1>4, <1>7, <1>s, <3>2, <3>3, RowsSaved
  <2>2. ASSUME NEW v \in Uploads, v # u, pc'[v] = "answered"
        PROVE  /\ \E d \in documents' : d.id = v
               /\ answer'[v].extracted = answer'[v].unverified + answer'[v].injection + answer'[v].pending
               /\ answer'[v].pending = Cardinality(RowsFor(v)')
    <3>1. RowsFor(v)' = RowsFor(v)
      BY <2>2, RowsSaved
    <3> QED
      BY <1>4, <1>5, <2>2, <3>1 DEF OnboardingInv, AnswersTrue
  <2> QED
    BY <2>1, <2>2 DEF AnswersTrue, RowsFor
<1>16. ScansTrue'
  <2>1. ASSUME NEW d \in documents, answer'[d.id].degraded
        PROVE  /\ \A c \in RowsFor(d.id)' : ScanKept(c.claim, d.text)
               /\ \A c, e \in RowsFor(d.id)' : c.claim.at = e.claim.at => c = e
               /\ \A i \in FirstPlaces(d.text) : Askable(d.text, i) =>
                    \E c \in RowsFor(d.id)' : c.claim.at = i
    <3>1. d.id \in Uploads \ {u}
      BY <1>8 DEF OnboardingInv, DocumentsTrue
    <3>2. RowsFor(d.id)' = RowsFor(d.id) /\ answer'[d.id] = answer[d.id]
      BY <1>5, <3>1, RowsSaved
    <3> QED
      BY <2>1, <3>2 DEF OnboardingInv, ScansTrue
  <2>2. ASSUME answer'[u].degraded
        PROVE  /\ \A c \in RowsFor(u)' : ScanKept(c.claim, s.source)
               /\ \A c, e \in RowsFor(u)' : c.claim.at = e.claim.at => c = e
               /\ \A i \in FirstPlaces(s.source) : Askable(s.source, i) =>
                    \E c \in RowsFor(u)' : c.claim.at = i
    <3>1. ScanFits(s) /\ DOMAIN s.drafts = {}
      BY <1>1, <1>7, <2>2, EmptySeq DEF RunFits
    <3>2. RowsFor(u)' = RowsOf(u)
      BY RowsSaved
    <3>3. ASSUME NEW c \in RowsOf(u), NEW e \in RowsOf(u), c.claim.at = e.claim.at
          PROVE  c = e
      <4>1. PICK m \in DOMAIN s.found : c = [doc |-> u, n |-> m, claim |-> s.kept[m], to |-> s.found[m]]
        BY <1>s DEF RowsOf
      <4>2. PICK n \in DOMAIN s.found : e = [doc |-> u, n |-> n, claim |-> s.kept[n], to |-> s.found[n]]
        BY <1>s DEF RowsOf
      <4>3. m = n
        BY <1>3, <3>1, <3>3, <4>1, <4>2 DEF ScanFits
      <4> QED
        BY <4>1, <4>2, <4>3
    <3>4. ASSUME NEW i \in FirstPlaces(s.source), Askable(s.source, i)
          PROVE  \E c \in RowsOf(u) : c.claim.at = i
      <4>1. PICK n \in DOMAIN s.kept : s.kept[n].at = i
        BY <3>1, <3>4 DEF ScanFits
      <4>2. [doc |-> u, n |-> n, claim |-> s.kept[n], to |-> s.found[n]] \in RowsOf(u)
        BY <1>s, <1>3 DEF RowsOf
      <4> QED
        BY <4>1, <4>2
    <3>5. \A c \in RowsOf(u) : ScanKept(c.claim, s.source)
      BY <1>9, <3>1 DEF ScanFits
    <3> QED
      BY <3>2, <3>3, <3>4, <3>5
  <2> SUFFICES ASSUME NEW d \in documents', answer'[d.id].degraded
               PROVE  /\ \A c \in RowsFor(d.id)' : ScanKept(c.claim, d.text)
                      /\ \A c, e \in RowsFor(d.id)' : c.claim.at = e.claim.at => c = e
                      /\ \A i \in FirstPlaces(d.text) : Askable(d.text, i) =>
                           \E c \in RowsFor(d.id)' : c.claim.at = i
    BY DEF ScansTrue, RowsFor
  <2>3. CASE d \in documents
    BY <2>1, <2>3
  <2>4. CASE d = doc
    <3>1. RowsFor(d.id)' = RowsFor(u)'
      BY <1>4, <2>4 DEF RowsFor
    <3> QED
      BY <1>4, <2>2, <2>4, <3>1
  <2> QED
    BY <1>4, <2>3, <2>4
<1> QED
  BY <1>11, <1>12, <1>13, <1>14, <1>15, <1>16 DEF OnboardingInv

LEMMA OnboardingStep ==
  ASSUME OnboardingInv, [Next]_vars
  PROVE  OnboardingInv'
<1>1. CASE UNCHANGED vars
  <2>1. UNCHANGED <<files, documents, claims, pc, run, answer>>
    BY <1>1 DEF vars, database
  <2>2. RunTypes' /\ RunsTrue'
    BY <2>1 DEF OnboardingInv, RunTypes, TypeOK, RunsTrue
  <2>3. DocumentsTrue' /\ ClaimsTrue'
    BY <2>1 DEF OnboardingInv, DocumentsTrue, ClaimsTrue
  <2>4. AnswersTrue' /\ ScansTrue'
    BY <2>1 DEF OnboardingInv, AnswersTrue, ScansTrue, RowsFor
  <2> QED
    BY <2>2, <2>3, <2>4 DEF OnboardingInv
<1>2. CASE Next
  <2> PICK u \in Uploads : Refuse(u) \/ UploadFile(u) \/ UploadGitHub(u) \/ Step(u) \/ Abort(u)
    BY <1>2 DEF Next
  <2>0. run[u] \in Runs
    BY DEF OnboardingInv, RunTypes
  <2>1. CASE Refuse(u) \/ ParseFails(u) \/ SaveFails(u) \/ Abort(u)
    BY <2>1, FailStep DEF Refuse, ParseFails, SaveFails, Abort, Open
  <2>2. CASE UploadFile(u) \/ UploadGitHub(u)
    BY <2>2, UploadStep
  <2>3. CASE ParseText(u)
    <3>1. run[u].page \in Texts /\ "parsed" \in Statuses /\ "parsed" \notin Nameless
      BY <2>0 DEF Runs, Statuses, Nameless
    <3> QED
      BY <2>3, <3>1, ParsedStep DEF ParseText
  <2>4. CASE ParseNothing(u)
    <3>1. <<>> \in Texts /\ {"empty", "needs_text_paste"} \subseteq Statuses
      BY TextsAssumption DEF Statuses
    <3>2. CASE run[u].kind = "github"
      BY <2>4, <3>1, <3>2, ParsedStep DEF ParseNothing
    <3>3. CASE run[u].kind # "github"
      BY <2>4, <3>1, <3>3, ParsedStep DEF ParseNothing
    <3> QED
      BY <3>2, <3>3
  <2>5. CASE Transcribe(u)
    <3>1. "parsed_vlm" \in Statuses /\ "parsed_vlm" \notin Nameless
      BY DEF Statuses, Nameless
    <3> QED
      BY <2>5, <3>1, ParsedStep DEF Transcribe
  <2>6. CASE ModelErrs(u)
    BY <2>6, ErrStep
  <2>7. CASE ScanInstead(u)
    <3>1. run[u].source \in Sources
      BY <2>0 DEF Runs
    <3>2. Scan(run[u].source) \in Seq(AnyClaims)
      <4>1. ToSet(Scan(run[u].source)) \subseteq AnyClaims
        BY <3>1 DEF AnyClaims
      <4> QED
        BY <3>1, <4>1, ScanEnumerates
    <3> QED
      BY <2>7, <3>2, ExtractedStep DEF ScanInstead
  <2>8. CASE ModelExtracts(u)
    <3>1. PICK drafts \in BoundedSeq(Quotations(run[u].source), MAX_QUOTES) : Extracted(u, drafts, FALSE)
      BY <2>8 DEF ModelExtracts
    <3>2. drafts \in Seq(AnyClaims)
      <4>1. Quotations(run[u].source) \subseteq AnyClaims
        BY <2>0 DEF AnyClaims, Runs
      <4>2. PICK m \in 0..MAX_QUOTES : drafts \in [1..m -> Quotations(run[u].source)]
        BY DEF BoundedSeq, SeqOf
      <4>3. m \in Nat /\ drafts \in [1..m -> AnyClaims]
        BY <4>1, <4>2, BoundsAssumption
      <4> QED
        BY <4>3
    <3> QED
      BY <2>8, <3>1, <3>2, ExtractedStep DEF ModelExtracts
  <2>9. CASE Verify(u) \/ Normalize(u) \/ Save(u)
    BY <2>9, VerifyStep, NormalizeStep, SaveStep
  <2> QED
    BY <2>1, <2>2, <2>3, <2>4, <2>5, <2>6, <2>7, <2>8, <2>9 DEF Step
<1> QED
  BY <1>1, <1>2

LEMMA OnboardingInvHolds == Spec => []OnboardingInv
BY OnboardingBegins, OnboardingStep, PTL DEF Spec

\* Whatever a model quotes from whatever document, a claim that waits for the
\* learner is said at a place of its document, and the offsets it is stored with
\* are those of the place in the text or in its lower case
\* (profiling/evidence_verifier.py).
THEOREM ClaimsAlwaysQuote == Spec => []ClaimsQuoteTheText
<1>1. OnboardingInv => ClaimsQuoteTheText
  <2> SUFFICES ASSUME OnboardingInv, NEW c \in claims
               PROVE  \E d \in documents :
                        /\ d.id = c.doc
                        /\ c.claim.at \in DOMAIN d.text
                        /\ Matches(d.text[c.claim.at], c.claim.span)
                        /\ d.text[c.claim.at] \notin Contacts
                        /\ c.claim.behind \in {0, Lengthened(d.text, c.claim.at)}
                        /\ d.kind = "github" => c.claim.tier = 2
    BY DEF ClaimsQuoteTheText, OnboardingInv, RunTypes
  <2>1. PICK d \in documents : d.id = c.doc /\ Quoted(c.claim, d.text, d.kind)
    BY DEF OnboardingInv, ClaimsTrue
  <2>2. d.text \in Sources
    BY DEF OnboardingInv, DocumentsTrue
  <2> QED
    BY <2>1, <2>2, SourceShape DEF Quoted
<1> QED
  BY <1>1, OnboardingInvHolds, PTL

\* A claim names a skill only on grounds, whatever vectors there are and
\* whatever a model picks (profiling/skill_normalizer.py).
THEOREM NeverForcedOn == Spec => []NeverForceFit
<1>1. OnboardingInv => NeverForceFit
  <2> SUFFICES ASSUME OnboardingInv, NEW c \in claims PROVE Grounded(c.claim.label, c.to)
    BY DEF NeverForceFit, Grounded
  <2>1. c.claim \in AnyKept /\ c.to \in Resolutions(c.claim.label)
    BY DEF OnboardingInv, ClaimsTrue
  <2> QED
    BY <2>1, KeptLabel, ResolvedOnGrounds
<1> QED
  BY <1>1, OnboardingInvHolds, PTL

\* Without a model a document is asked about exactly the skills it names, for
\* every catalog and text (profiling/claim_extraction.py).
THEOREM ScanAlwaysFinds == Spec => []ScanFindsWhatIsNamed
<1>1. OnboardingInv => ScanFindsWhatIsNamed
  <2> SUFFICES ASSUME OnboardingInv, NEW d \in documents, answer[d.id].degraded
               PROVE  LET askable(s) == \E i \in DOMAIN d.text :
                            /\ Says(d.text, i, s) /\ \A j \in 1..(i - 1) : ~ Says(d.text, j, s)
                            /\ Askable(d.text, i)
                      IN  /\ {c.to.skill : c \in RowsFor(d.id)} = {s \in Skills : askable(s)}
                          /\ \A c, e \in RowsFor(d.id) : c.to.skill = e.to.skill => c = e
    BY DEF ScanFindsWhatIsNamed, Says, Askable
  <2> DEFINE firstOf(i, s) ==
        i \in DOMAIN d.text /\ Says(d.text, i, s) /\ \A j \in 1..(i - 1) : ~ Says(d.text, j, s)
  <2>1. DOMAIN d.text \subseteq Nat \ {0}
    <3>1. d.text \in Sources
      BY DEF OnboardingInv, DocumentsTrue
    <3>2. DOMAIN d.text = 1..Len(d.text) /\ Len(d.text) \in Nat
      BY <3>1, SourceShape
    <3> QED
      BY <3>2
  <2>2. /\ \A c \in RowsFor(d.id) : ScanKept(c.claim, d.text)
        /\ \A c, e \in RowsFor(d.id) : c.claim.at = e.claim.at => c = e
        /\ \A i \in FirstPlaces(d.text) : Askable(d.text, i) => \E c \in RowsFor(d.id) : c.claim.at = i
    BY DEF OnboardingInv, ScansTrue
  <2>3. ASSUME NEW c \in RowsFor(d.id)
        PROVE  c.to.skill \in Skills /\ firstOf(c.claim.at, c.to.skill) /\ Askable(d.text, c.claim.at)
    <3>1. PICK s \in Skills : firstOf(c.claim.at, s)
      BY <2>2 DEF ScanKept, FirstPlaces
    <3>2. c.claim.label = d.text[c.claim.at] /\ c.claim.label \in Words
          /\ FirstSkillOf(c.claim.label) = s /\ Askable(d.text, c.claim.at)
      BY <2>2, <3>1 DEF ScanKept, Says
    <3>3. c.to \in Resolutions(c.claim.label)
      BY DEF OnboardingInv, ClaimsTrue, RowsFor
    <3>4. c.to.skill = s
      BY <3>2, <3>3, WordsAreExact DEF Resolution
    <3> QED
      BY <3>1, <3>2, <3>4
  <2>4. ASSUME NEW s \in Skills, NEW i, NEW k, firstOf(i, s), firstOf(k, s)
        PROVE  i = k
    BY <2>1, <2>4
  <2>5. ASSUME NEW s \in Skills, NEW i, firstOf(i, s), Askable(d.text, i)
        PROVE  \E c \in RowsFor(d.id) : c.to.skill = s
    <3>1. PICK c \in RowsFor(d.id) : c.claim.at = i
      BY <2>2, <2>5 DEF FirstPlaces
    <3>2. Says(d.text, i, c.to.skill)
      BY <2>3, <3>1
    <3> QED
      BY <2>5, <3>2 DEF Says
  <2>6. ASSUME NEW c \in RowsFor(d.id), NEW e \in RowsFor(d.id), c.to.skill = e.to.skill
        PROVE  c = e
    BY <2>2, <2>3, <2>4, <2>6
  <2> QED
    BY <2>3, <2>5, <2>6
<1> QED
  BY <1>1, OnboardingInvHolds, PTL

\* The summary of an upload accounts for every claim, and its document, file
\* and rows are all there or none (profiling/onboarding.py, intake.py).
THEOREM SummaryAlwaysAddsUp == Spec => []SummaryAddsUp
<1>1. OnboardingInv => SummaryAddsUp
  <2> SUFFICES ASSUME OnboardingInv, NEW u \in Uploads
               PROVE  IF pc[u] = "answered"
                      THEN /\ answer[u].extracted = answer[u].unverified + answer[u].injection + answer[u].pending
                           /\ answer[u].pending = Cardinality(RowsFor(u))
                           /\ \E d \in documents :
                                /\ d.id = u
                                /\ d.kind # "github" => u \in files
                                /\ d.status \in Nameless => RowsFor(u) = {}
                      ELSE RowsFor(u) = {} /\ \A d \in documents : d.id # u
    BY DEF SummaryAddsUp, Nameless
  <2>1. CASE pc[u] = "answered"
    <3>1. PICK d \in documents : d.id = u
      BY <2>1 DEF OnboardingInv, AnswersTrue
    <3>2. ASSUME d.status \in Nameless, NEW c \in RowsFor(u) PROVE FALSE
      <4>1. PICK e \in documents : e.id = c.doc /\ Quoted(c.claim, e.text, e.kind)
        BY DEF OnboardingInv, ClaimsTrue, RowsFor
      <4>2. e = d /\ d.text = <<>>
        BY <3>1, <3>2, <4>1 DEF OnboardingInv, DocumentsTrue, RowsFor
      <4> QED
        BY <4>1, <4>2, EmptySeq DEF Quoted
    <3> QED
      BY <2>1, <3>1, <3>2 DEF OnboardingInv, AnswersTrue, DocumentsTrue
  <2>2. CASE pc[u] # "answered"
    BY <2>2 DEF OnboardingInv, DocumentsTrue, ClaimsTrue, RowsFor
  <2> QED
    BY <2>1, <2>2
<1> QED
  BY <1>1, OnboardingInvHolds, PTL

(* ------------------- G2: how often a draft is retried ------------------ *)

(* Every counter is reset or below its bound where it is next increased.   *)
RetryInv ==
  /\ RetriesBounded
  /\ node \in {"build_objectives", "retrieve_candidates"} => attempts = 0
  /\ node = "plan_draft" => attempts < PLANNER_MAX_DRAFT_ATTEMPTS

(* The retry loops of graph, agent and gateway stay within their bounds.   *)
THEOREM RetriesStayBounded == PlanningSpec => []RetriesBounded
<1> USE DEF RetryInv, RetriesBounded, PLANNER_MAX_DRAFT_ATTEMPTS,
            AgentMaxRetries, GatewayMaxRetries
<1>1. PlanningInit => RetryInv
  BY DEF PlanningInit
<1>2. RetryInv /\ [PlanningNext]_planningVars => RetryInv'
  <2> SUFFICES ASSUME RetryInv, [PlanningNext]_planningVars PROVE RetryInv'
    OBVIOUS
  <2>1. CASE BuildObjectives
    BY <2>1 DEF BuildObjectives
  <2>2. CASE RetrieveCandidates
    BY <2>2 DEF RetrieveCandidates
  <2>3. CASE PlanDraft
    BY <2>3 DEF PlanDraft, Question
  <2>4. CASE ReplayHit \/ ReplayMissBeforeLive \/ ReplayMissAfterLive
    BY <2>4 DEF ReplayHit, ReplayMissBeforeLive, ReplayMissAfterLive, NoAnswer
  <2>5. CASE LiveAnswer \/ LiveRetry \/ LiveFails
    BY <2>5 DEF LiveAnswer, LiveRetry, LiveFails, NoAnswer
  <2>6. CASE AnswerRejected \/ AnswerParsed \/ AnswerRaises
    BY <2>6 DEF AnswerRejected, AnswerParsed, AnswerRaises, NoAnswer, Question
  <2>7. CASE AcceptDraft
    BY <2>7 DEF AcceptDraft
  <2>8. CASE RejectDraft
    BY <2>8 DEF RejectDraft
  <2>9. CASE FallbackPlan
    BY <2>9 DEF FallbackPlan
  <2>10. CASE UNCHANGED planningVars
    BY <2>10 DEF planningVars
  <2> QED
    BY <2>1, <2>2, <2>3, <2>4, <2>5, <2>6, <2>7, <2>8, <2>9, <2>10 DEF PlanningNext
<1>3. RetryInv => RetriesBounded
  OBVIOUS
<1> QED
  BY <1>1, <1>2, <1>3, PTL DEF PlanningSpec

(* A step that does not accept a draft leaves no undegraded plan behind    *)
(* that was not there before, and no step leaves the end.                  *)
LEMMA OtherSteps ==
  ASSUME [PlanningNext]_planningVars, ~AcceptDraft
  PROVE  \/ node' # "end"
         \/ final'.degraded
         \/ /\ node = "end"
            /\ UNCHANGED <<request, gaps, cands, final>>
<1>1. CASE FallbackPlan
  BY <1>1 DEF FallbackPlan
<1>2. CASE UNCHANGED planningVars
  BY <1>2 DEF planningVars
<1>3. CASE PlanningNext /\ ~FallbackPlan
  BY <1>3 DEF PlanningNext, BuildObjectives, RetrieveCandidates, PlanDraft, Question, ReplayHit,
       ReplayMissBeforeLive, ReplayMissAfterLive, NoAnswer, LiveAnswer, LiveRetry,
       LiveFails, AnswerRejected, AnswerParsed, AnswerRaises, RejectDraft
<1> QED
  BY <1>1, <1>2, <1>3

(* What a run commits undegraded passes every hard rule, whatever the      *)
(* top-up made of the draft.                                               *)
THEOREM CommittedDraftHolds == PlanningSpec => []CommittedDraftIsValid
<1>1. PlanningInit => CommittedDraftIsValid
  BY DEF PlanningInit, CommittedDraftIsValid
<1>2. CommittedDraftIsValid /\ [PlanningNext]_planningVars => CommittedDraftIsValid'
  <2> SUFFICES ASSUME CommittedDraftIsValid, [PlanningNext]_planningVars, node' = "end", ~final'.degraded
               PROVE  Valid(final.items)'
    BY DEF CommittedDraftIsValid
  <2>1. CASE AcceptDraft
    <3>1. PICK extended :
            final' = [items |-> KeepIfValid(extended, draft.items), degraded |-> FALSE]
      BY <2>1 DEF AcceptDraft
    <3>2. Valid(final'.items)
      BY <2>1, <3>1 DEF AcceptDraft, KeepIfValid
    <3> QED
      BY <2>1, <3>2 DEF AcceptDraft, Valid
  <2>2. CASE ~AcceptDraft
    <3>1. node = "end" /\ UNCHANGED <<request, gaps, cands, final>>
      BY <2>2, OtherSteps
    <3>2. Valid(final.items)
      BY <3>1 DEF CommittedDraftIsValid
    <3> QED
      BY <3>1, <3>2 DEF Valid
  <2> QED
    BY <2>1, <2>2
<1> QED
  BY <1>1, <1>2, PTL DEF PlanningSpec

(* ----------------------- G2: what its candidates teach ----------------- *)

(* The five outcomes of a skill before the BLOCKED overlay are four.       *)
LEMMA RawStatusRange ==
  ASSUME NEW learner, NEW s
  PROVE  RawStatus(learner, s) \in {"MET", "WEAK", "UNVERIFIED", "MISSING"}
BY DEF RawStatus

(* A root gap is not MET and none of its hard prerequisites blocks it.     *)
LEMMA RootGapIsReachable ==
  ASSUME NEW learner, NEW s \in RootGaps(learner)
  PROVE  /\ RawStatus(learner, s) # "MET"
         /\ \A p \in HardParents(s) : RawStatus(learner, p) \in {"MET", "UNVERIFIED"}
<1>1. s \in Skill /\ RawStatus(learner, s) # "MET" /\ s \notin Blocked(learner)
  BY DEF RootGaps
<1>2. \A p \in HardParents(s) : RawStatus(learner, p) \notin {"WEAK", "MISSING"}
  BY <1>1 DEF Blocked
<1> QED
  BY <1>1, <1>2, RawStatusRange

(* Candidates are offered for root gaps only, and resources only where     *)
(* something is known to be missing.                                       *)
ReachableCandidates(candidates, learner) ==
  \A s \in DOMAIN candidates :
    /\ s \in RootGaps(learner)
    /\ RawStatus(learner, s) = "UNVERIFIED" => candidates[s].resources = <<>>

(* Gaps and candidates are those of the learner the run was started for.   *)
ReachInv ==
  /\ node \in {"build_objectives", "retrieve_candidates"} => cands = NoCandidates
  /\ node = "retrieve_candidates" => gaps = AnalyzeGaps(request.learner)
  /\ ReachableCandidates(cands, request.learner)

LEMMA InitialCandidates == ReachableCandidates(NoCandidates, request.learner)
<1>1. DOMAIN NoCandidates = {}
  BY DEF NoCandidates
<1> QED
  BY <1>1 DEF ReachableCandidates

LEMMA RetrievedCandidates ==
  ASSUME gaps = AnalyzeGaps(request.learner), RetrieveCandidates
  PROVE  ReachableCandidates(cands', request.learner)
<1>1. PICK ranked :
        cands' = [s \in DOMAIN gaps.objectives |-> CandidateSet(s, ranked[s])]
  BY DEF RetrieveCandidates
<1>2. gaps.objectives = Objectives(request.learner)
  BY DEF AnalyzeGaps
<1>3. DOMAIN cands' = RootGaps(request.learner)
  BY <1>1, <1>2 DEF Objectives
<1>4. ASSUME NEW s \in RootGaps(request.learner),
             RawStatus(request.learner, s) = "UNVERIFIED"
      PROVE  cands'[s].resources = <<>>
  <2>1. gaps.objectives[s].kind = "probe"
    BY <1>2, <1>4 DEF Objectives
  <2>2. cands'[s] = CandidateSet(s, ranked[s])
    BY <1>1, <1>3
  <2> QED
    BY <2>1, <2>2 DEF CandidateSet
<1> QED
  BY <1>3, <1>4 DEF ReachableCandidates

LEMMA ReachInvHolds == PlanningSpec => []ReachInv
<1>1. PlanningInit => ReachInv
  BY InitialCandidates DEF PlanningInit, ReachInv
<1>2. ReachInv /\ [PlanningNext]_planningVars => ReachInv'
  <2> SUFFICES ASSUME ReachInv, [PlanningNext]_planningVars PROVE ReachInv'
    OBVIOUS
  <2>1. CASE BuildObjectives
    BY <2>1 DEF BuildObjectives, ReachInv
  <2>2. CASE RetrieveCandidates
    <3>1. gaps = AnalyzeGaps(request.learner)
      BY <2>2 DEF RetrieveCandidates, ReachInv
    <3>2. ReachableCandidates(cands', request.learner)
      BY <2>2, <3>1, RetrievedCandidates
    <3> QED
      BY <2>2, <3>2 DEF RetrieveCandidates, ReachInv
  <2>3. CASE ~BuildObjectives /\ ~RetrieveCandidates
    <3>1. UNCHANGED <<request, gaps, cands>>
          /\ (node' \in {"build_objectives", "retrieve_candidates"} => node' = node)
      BY <2>3 DEF PlanningNext, planningVars, PlanDraft, Question, ReplayHit, ReplayMissBeforeLive,
           ReplayMissAfterLive, NoAnswer, LiveAnswer, LiveRetry, LiveFails,
           AnswerRejected, AnswerParsed, AnswerRaises, AcceptDraft, RejectDraft, FallbackPlan
    <3> QED
      BY <3>1 DEF ReachInv
  <2> QED
    BY <2>1, <2>2, <2>3
<1> QED
  BY <1>1, <1>2, PTL DEF PlanningSpec

(* ---------------- G2 and G4: what sorting by a given order does ---------- *)

StrictOrder(S, before) ==
  /\ \A x \in S : <<x, x>> \notin before
  /\ \A x, y, z \in S : <<x, y>> \in before /\ <<y, z>> \in before => <<x, z>> \in before
  /\ \A x, y \in S : x = y \/ <<x, y>> \in before \/ <<y, x>> \in before
Before(S, before, x) == {y \in S : <<y, x>> \in before}

(* An element with more before it comes later: the ranks of a finite set   *)
(* are 1, 2, ... up to its size, each taken once.                          *)
LEMMA RanksAreOneToOne ==
  ASSUME NEW S, IsFiniteSet(S), NEW before, StrictOrder(S, before),
         NEW rank, rank = [x \in S |-> Cardinality(Before(S, before, x)) + 1]
  PROVE  /\ Cardinality(S) \in Nat
         /\ rank \in Bijection(S, 1..Cardinality(S))
         /\ \A x, y \in S : <<x, y>> \in before => rank[x] < rank[y]
<1>1. Cardinality(S) \in Nat
  BY FS_CardinalityType
<1>2. \A x \in S : IsFiniteSet(Before(S, before, x)) /\ Cardinality(Before(S, before, x)) \in Nat
  BY FS_Subset, FS_CardinalityType DEF Before
<1>3. ASSUME NEW x \in S, NEW y \in S, <<x, y>> \in before PROVE rank[x] < rank[y]
  <2>1. Before(S, before, x) \subseteq Before(S, before, y)
    BY <1>3 DEF Before, StrictOrder
  <2>2. x \in Before(S, before, y) /\ x \notin Before(S, before, x)
    BY <1>3 DEF Before, StrictOrder
  <2>3. /\ Cardinality(Before(S, before, x)) <= Cardinality(Before(S, before, y))
        /\ Cardinality(Before(S, before, x)) # Cardinality(Before(S, before, y))
    BY <1>2, <2>1, <2>2, FS_Subset
  <2> QED
    BY <1>2, <2>3
<1>4. ASSUME NEW x \in S PROVE rank[x] \in 1..Cardinality(S)
  <2>1. Before(S, before, x) \subseteq S /\ x \notin Before(S, before, x)
    BY DEF Before, StrictOrder
  <2>2. /\ Cardinality(Before(S, before, x)) <= Cardinality(S)
        /\ Cardinality(Before(S, before, x)) # Cardinality(S)
    BY <2>1, FS_Subset
  <2> QED
    BY <1>1, <1>2, <2>2
<1>5. rank \in [S -> 1..Cardinality(S)]
  BY <1>4
<1>6. \A x, y \in S : rank[x] = rank[y] => x = y
  <2> SUFFICES ASSUME NEW x \in S, NEW y \in S, rank[x] = rank[y], x # y PROVE FALSE
    OBVIOUS
  <2>1. <<x, y>> \in before \/ <<y, x>> \in before
    BY DEF StrictOrder
  <2>2. rank[x] < rank[y] \/ rank[y] < rank[x]
    BY <2>1, <1>3
  <2> QED
    BY <2>2, <1>4, <1>1
<1>7. rank \in Injection(S, 1..Cardinality(S))
  BY <1>5, <1>6 DEF Injection, IsInjective
<1>8. IsFiniteSet(1..Cardinality(S)) /\ Cardinality(1..Cardinality(S)) = Cardinality(S)
  BY <1>1, FS_Interval
<1>9. rank \in Surjection(S, 1..Cardinality(S))
  BY <1>7, <1>8, FS_Injection
<1> QED
  BY <1>1, <1>3, <1>7, <1>9 DEF Bijection

(* A sequence that names every member of a set once.                       *)
Enumerates(q, S) ==
  /\ IsFiniteSet(S) /\ Cardinality(S) \in Nat
  /\ q \in [1..Cardinality(S) -> S]
  /\ \A i, j \in 1..Cardinality(S) : q[i] = q[j] => i = j
  /\ \A x \in S : \E i \in 1..Cardinality(S) : q[i] = x

LEMMA Arranging ==
  ASSUME NEW S, IsFiniteSet(S), NEW before, StrictOrder(S, before),
         NEW a, a = Arranged(S, before)
  PROVE  /\ Enumerates(a, S)
         /\ \A i, j \in 1..Cardinality(S) : <<a[i], a[j]>> \in before => i < j
<1>1. PICK rank : rank = [x \in S |-> Cardinality(Before(S, before, x)) + 1]
  OBVIOUS
<1>2. /\ Cardinality(S) \in Nat
      /\ rank \in Bijection(S, 1..Cardinality(S))
      /\ \A x, y \in S : <<x, y>> \in before => rank[x] < rank[y]
  BY <1>1, RanksAreOneToOne
<1>3. /\ rank \in [S -> 1..Cardinality(S)]
      /\ \A x, y \in S : rank[x] = rank[y] => x = y
      /\ \A n \in 1..Cardinality(S) : \E x \in S : rank[x] = n
  BY <1>2 DEF Bijection, Injection, IsInjective, Surjection
<1>4. a = [n \in 1..Cardinality(S) |-> CHOOSE x \in S : Cardinality(Before(S, before, x)) + 1 = n]
  BY DEF Arranged, Before
<1>5. ASSUME NEW n \in 1..Cardinality(S) PROVE a[n] \in S /\ rank[a[n]] = n
  <2>1. \E x \in S : Cardinality(Before(S, before, x)) + 1 = n
    BY <1>1, <1>3
  <2>2. a[n] \in S /\ Cardinality(Before(S, before, a[n])) + 1 = n
    BY <1>4, <2>1
  <2> QED
    BY <1>1, <2>2
<1>6. ASSUME NEW x \in S PROVE rank[x] \in 1..Cardinality(S) /\ a[rank[x]] = x
  BY <1>3, <1>5
<1> QED
  BY <1>2, <1>3, <1>4, <1>5, <1>6 DEF Enumerates

(* Renaming what is enumerated, one to one, enumerates the new names.      *)
LEMMA Renaming ==
  ASSUME NEW P, NEW order, Enumerates(order, P),
         NEW f, \A x, y \in P : f[x] = f[y] => x = y,
         NEW T, \A x \in P : f[x] \in T, \A y \in T : \E x \in P : f[x] = y,
         NEW q, q = [n \in DOMAIN order |-> f[order[n]]]
  PROVE  Enumerates(q, T) /\ Cardinality(T) = Cardinality(P)
<1>1. PICK named : named = [x \in P |-> f[x]]
  OBVIOUS
<1>2. named \in Bijection(P, T)
  BY <1>1 DEF Bijection, Injection, IsInjective, Surjection
<1>3. ExistsBijection(P, T)
  BY <1>2 DEF ExistsBijection
<1>4. IsFiniteSet(P)
  BY DEF Enumerates
<1>5. IsFiniteSet(T) /\ Cardinality(T) = Cardinality(P)
  BY <1>3, <1>4, FS_Bijection
<1>6. DOMAIN order = 1..Cardinality(P) /\ Cardinality(P) \in Nat
  BY DEF Enumerates
<1>7. \A n \in 1..Cardinality(P) : order[n] \in P
  BY DEF Enumerates
<1>8. q \in [1..Cardinality(P) -> T]
  BY <1>6, <1>7
<1>9. \A i, j \in 1..Cardinality(P) : q[i] = q[j] => i = j
  BY <1>6, <1>7 DEF Enumerates
<1>10. \A x \in T : \E i \in 1..Cardinality(P) : q[i] = x
  BY <1>6 DEF Enumerates
<1>11. IsFiniteSet(T) /\ Cardinality(T) \in Nat
  BY <1>5, <1>6
<1>12. /\ q \in [1..Cardinality(T) -> T]
       /\ \A i, j \in 1..Cardinality(T) : q[i] = q[j] => i = j
       /\ \A x \in T : \E i \in 1..Cardinality(T) : q[i] = x
  BY <1>5, <1>8, <1>9, <1>10
<1>13. Enumerates(q, T)
  BY <1>11, <1>12 DEF Enumerates
<1> QED
  BY <1>5, <1>13

LEMMA EnumeratesRange ==
  ASSUME NEW q, NEW S, Enumerates(q, S)
  PROVE  ToSet(q) = S /\ DOMAIN q = 1..Cardinality(S)
BY DEF Enumerates, ToSet

LEMMA Selecting ==
  ASSUME NEW ids, NEW S, Enumerates(ids, S), NEW positions \in SUBSET DOMAIN ids,
         NEW T, \A i \in positions : ids[i] \in T, \A y \in T : \E i \in positions : ids[i] = y
  PROVE  Enumerates(ElementsAt(ids, positions), T)
<1>1. PICK before : before = {ij \in positions \X positions : ij[1] < ij[2]}
  OBVIOUS
<1>2. positions \in SUBSET (1..Cardinality(S)) /\ Cardinality(S) \in Nat
  BY DEF Enumerates
<1>3. IsFiniteSet(positions)
  <2>1. IsFiniteSet(1..Cardinality(S))
    BY <1>2, FS_Interval
  <2> QED
    BY <1>2, <2>1, FS_Subset
<1>4. StrictOrder(positions, before)
  BY <1>1, <1>2 DEF StrictOrder
<1>5. PICK order : order = Arranged(positions, before)
  OBVIOUS
<1>6. Enumerates(order, positions)
  BY <1>3, <1>4, <1>5, Arranging
<1>7. ElementsAt(ids, positions) = [n \in DOMAIN order |-> ids[order[n]]]
  BY <1>1, <1>5 DEF ElementsAt
<1>8. \A i, j \in positions : ids[i] = ids[j] => i = j
  BY <1>2 DEF Enumerates
<1> QED
  BY <1>6, <1>7, <1>8, Renaming

(* Sorting loses nothing and adds nothing, whatever the keys.              *)
LEMMA Sorting ==
  ASSUME NEW ids, NEW S, Enumerates(ids, S), NEW key, \A x \in S : key[x] \in Int
  PROVE  Enumerates(SortedBy(ids, key), S)
<1>1. DOMAIN ids = 1..Cardinality(S) /\ Cardinality(S) \in Nat
  BY DEF Enumerates
<1>2. IsFiniteSet(DOMAIN ids)
  BY <1>1, FS_Interval
<1>3. \A i \in DOMAIN ids : key[ids[i]] \in Int /\ i \in Int
  BY <1>1 DEF Enumerates
<1>4. StrictOrder(DOMAIN ids, ByKey(ids, key))
  BY <1>3 DEF StrictOrder, ByKey
<1>5. PICK order : order = Arranged(DOMAIN ids, ByKey(ids, key))
  OBVIOUS
<1>6. Enumerates(order, DOMAIN ids)
  BY <1>2, <1>4, <1>5, Arranging
<1>7. SortedBy(ids, key) = [n \in DOMAIN order |-> ids[order[n]]]
  BY <1>5 DEF SortedBy
<1>8. /\ \A i \in DOMAIN ids : ids[i] \in S
      /\ \A y \in S : \E i \in DOMAIN ids : ids[i] = y
  BY <1>1 DEF Enumerates
<1>9. \A i, j \in DOMAIN ids : ids[i] = ids[j] => i = j
  BY <1>1 DEF Enumerates
<1> QED
  BY <1>6, <1>7, <1>8, <1>9, Renaming

(* No provider and modality comes twice while another is left out: the     *)
(* places of the first of each come before all others.                     *)
Varied(rows, found, S, top) ==
  /\ found \subseteq S
  /\ Cardinality(found) = Min({top, Cardinality(S)})
  /\ \A r, t \in found : (r # t /\ Pair(rows[r]) = Pair(rows[t])) =>
       \A u \in S : \E w \in found : Pair(rows[w]) = Pair(rows[u])
LEMMA Diversifying ==
  ASSUME NEW rows, NEW ranked, NEW S, Enumerates(ranked, S), NEW top \in Nat,
         NEW found, found = ToSet(Diversified(rows, ranked, top))
  PROVE  Varied(rows, found, S, top)
<1>1. PICK n : n = Cardinality(S)
  OBVIOUS
<1>2. PICK m : m = Min({top, n})
  OBVIOUS
<1>3. n \in Nat /\ DOMAIN ranked = 1..n
  BY <1>1 DEF Enumerates
<1>4. m \in Nat /\ m <= top /\ m <= n /\ (m = top \/ m = n)
  BY <1>2, <1>3 DEF Min
<1>5. StrictOrder(DOMAIN ranked, ByVariety(rows, ranked))
  BY <1>3 DEF StrictOrder, ByVariety
<1>6. PICK order : order = Arranged(DOMAIN ranked, ByVariety(rows, ranked))
  OBVIOUS
<1>7. IsFiniteSet(DOMAIN ranked) /\ Cardinality(DOMAIN ranked) = n
  BY <1>3, FS_Interval
<1>8. /\ Enumerates(order, DOMAIN ranked)
      /\ \A i, j \in 1..n : <<order[i], order[j]>> \in ByVariety(rows, ranked) => i < j
  BY <1>5, <1>6, <1>7, Arranging
<1>9. /\ order \in [1..n -> 1..n]
      /\ \A i, j \in 1..n : order[i] = order[j] => i = j
      /\ \A x \in 1..n : \E i \in 1..n : order[i] = x
  BY <1>3, <1>7, <1>8 DEF Enumerates
<1>10. PICK q : q = [i \in 1..m |-> ranked[order[i]]]
  OBVIOUS
<1>11. Diversified(rows, ranked, top) = q
  <2>1. (1..top) \cap DOMAIN order = 1..m
    <3>1. DOMAIN order = 1..n
      BY <1>9
    <3>2. \A i \in Int : (i <= top /\ i <= n) <=> i <= m
      BY <1>3, <1>4
    <3> QED
      BY <1>3, <1>4, <3>1, <3>2
  <2> QED
    BY <1>6, <1>10, <2>1 DEF Diversified
<1>12. found = {ranked[order[i]] : i \in 1..m}
  BY <1>10, <1>11 DEF ToSet
<1>13. /\ ranked \in [1..n -> S]
       /\ \A i, j \in 1..n : ranked[i] = ranked[j] => i = j
       /\ \A x \in S : \E i \in 1..n : ranked[i] = x
  BY <1>1 DEF Enumerates
<1>14. found \subseteq S
  BY <1>3, <1>4, <1>9, <1>12, <1>13
<1>15. Cardinality(found) = m
  <2>1. q \in [1..m -> found]
    BY <1>10, <1>12
  <2>2. \A i, j \in 1..m : q[i] = q[j] => i = j
    <3> SUFFICES ASSUME NEW i \in 1..m, NEW j \in 1..m, q[i] = q[j] PROVE i = j
      OBVIOUS
    <3>1. i \in 1..n /\ j \in 1..n
      BY <1>3, <1>4
    <3>2. order[i] \in 1..n /\ order[j] \in 1..n /\ ranked[order[i]] = ranked[order[j]]
      BY <1>9, <1>10, <3>1
    <3>3. order[i] = order[j]
      BY <1>13, <3>2
    <3> QED
      BY <1>9, <3>1, <3>3
  <2>3. \A x \in found : \E i \in 1..m : q[i] = x
    BY <1>10, <1>12
  <2>4. q \in Bijection(1..m, found)
    BY <2>1, <2>2, <2>3 DEF Bijection, Injection, IsInjective, Surjection
  <2>5. ExistsBijection(1..m, found)
    BY <2>4 DEF ExistsBijection
  <2>6. IsFiniteSet(1..m) /\ Cardinality(1..m) = m
    BY <1>4, FS_Interval
  <2> QED
    BY <2>5, <2>6, FS_Bijection
<1>16. ASSUME NEW i \in 1..n
       PROVE  \E k \in 1..n : /\ First(rows, ranked, k)
                              /\ Pair(rows[ranked[k]]) = Pair(rows[ranked[i]])
  <2>1. PICK P : P = {k \in 1..n : Pair(rows[ranked[k]]) = Pair(rows[ranked[i]])}
    OBVIOUS
  <2>2. P \in SUBSET Nat /\ P # {}
    BY <1>3, <2>1
  <2>3. PICK k \in P : \A j \in P : k <= j
    BY <2>2, LeastOf
  <2>4. \A j \in 1..(k - 1) : j \notin P
    BY <1>3, <2>1, <2>3
  <2>5. k \in 1..n /\ Pair(rows[ranked[k]]) = Pair(rows[ranked[i]])
    BY <2>1, <2>3
  <2>6. \A j \in 1..(k - 1) : Pair(rows[ranked[j]]) # Pair(rows[ranked[k]])
    BY <1>3, <2>1, <2>4, <2>5
  <2> QED
    BY <2>5, <2>6 DEF First
<1>17. ASSUME NEW r \in found, NEW t \in found, r # t, Pair(rows[r]) = Pair(rows[t]), NEW u \in S
       PROVE  \E w \in found : Pair(rows[w]) = Pair(rows[u])
  <2>1. PICK i \in 1..m, j \in 1..m : r = ranked[order[i]] /\ t = ranked[order[j]]
    BY <1>12
  <2>2. /\ order[i] \in 1..n /\ order[j] \in 1..n /\ order[i] # order[j]
        /\ i \in 1..n /\ j \in 1..n
    <3>1. i \in 1..n /\ j \in 1..n
      BY <1>3, <1>4
    <3>2. order[i] \in 1..n /\ order[j] \in 1..n
      BY <1>9, <3>1
    <3> QED
      BY <1>17, <2>1, <3>1, <3>2
  <2>3. PICK x \in {i, j} : ~ First(rows, ranked, order[x])
    <3>1. order[i] < order[j] \/ order[j] < order[i]
      BY <1>3, <2>2
    <3> QED
      BY <1>3, <1>17, <2>1, <2>2, <3>1 DEF First
  <2>4. PICK y \in 1..n : ranked[y] = u
    BY <1>13
  <2>5. PICK k \in 1..n : /\ First(rows, ranked, k)
                          /\ Pair(rows[ranked[k]]) = Pair(rows[u])
    BY <1>16, <2>4
  <2>6. PICK z \in 1..n : order[z] = k
    BY <1>9
  <2>7. <<order[z], order[x]>> \in ByVariety(rows, ranked)
    BY <1>3, <2>2, <2>3, <2>5, <2>6 DEF ByVariety
  <2>8. z < x
    BY <1>8, <2>2, <2>7
  <2>9. z \in 1..m
    BY <1>3, <1>4, <2>2, <2>3, <2>8
  <2> QED
    BY <1>12, <2>5, <2>6, <2>9
<1> QED
  BY <1>1, <1>2, <1>14, <1>15, <1>17 DEF Varied

(* ------------------- the retriever: what it recommends ------------------ *)

LEMMA EligibleIsUsable ==
  ASSUME NEW row, IsRow(row), NEW level \in 0..3, NEW met
  PROVE  Eligible(row, Query(level, met)) <=> Usable(row, level, met)
<1>1. PICK q : q = Query(level, met)
  OBVIOUS
<1>2. /\ q.level = level /\ q.met = met /\ q.cap = 45 /\ q.language = ""
      /\ q.excluded = {} /\ ~q.sessions
  BY <1>1 DEF Query, DefaultQuery
<1>3. Eligible(row, q) <=>
        /\ row.link = "ok"
        /\ row.from <= q.level + 1 /\ q.level <= row.to
        /\ row.prereqs \subseteq q.met
        /\ IF q.sessions THEN row.minutes > 0 ELSE row.minutes <= q.cap
        /\ q.language = "" \/ row.language \in {"", q.language}
        /\ row.modality \notin q.excluded
  <2>1. PICK checks : checks = EligibilityChecks(row, q)
    OBVIOUS
  <2>2. DOMAIN checks = {"link_ok", "level_band_ok", "prerequisites_met", "duration_ok",
                         "language_ok", "modality_ok"}
    BY <2>1 DEF EligibilityChecks
  <2>3. Eligible(row, q) <=> \A c \in DOMAIN checks : checks[c]
    BY <2>1 DEF Eligible
  <2>4. Eligible(row, q) <=>
          /\ checks["link_ok"] /\ checks["level_band_ok"] /\ checks["prerequisites_met"]
          /\ checks["duration_ok"] /\ checks["language_ok"] /\ checks["modality_ok"]
    BY <2>2, <2>3
  <2>5. /\ checks["link_ok"] <=> row.link = "ok"
        /\ checks["level_band_ok"] <=> row.from <= q.level + 1 /\ q.level <= row.to
        /\ checks["prerequisites_met"] <=> row.prereqs \subseteq q.met
    BY <2>1 DEF EligibilityChecks
  <2>6. checks["duration_ok"] <=> IF q.sessions THEN row.minutes > 0 ELSE row.minutes <= q.cap
    BY <2>1 DEF EligibilityChecks
  <2>7. /\ checks["language_ok"] <=> q.language = "" \/ row.language \in {"", q.language}
        /\ checks["modality_ok"] <=> row.modality \notin q.excluded
    BY <2>1 DEF EligibilityChecks
  <2> QED
    BY <2>4, <2>5, <2>6, <2>7
<1>4. row.from \in Int /\ row.to \in Int /\ row.minutes \in Int
  BY DEF IsRow
<1>5. (row.from <= level + 1 /\ level <= row.to) <=> level \in (row.from - 1)..row.to
  BY <1>4
<1>6. (IF q.sessions THEN row.minutes > 0 ELSE row.minutes <= q.cap) <=> row.minutes <= 45
  BY <1>2
<1> QED
  BY <1>1, <1>2, <1>3, <1>5, <1>6 DEF Usable

LEMMA Quotients ==
  ASSUME NEW a \in Nat, NEW b \in Nat, b > 0
  PROVE  a \div b \in Nat /\ a \div b <= a
OBVIOUS

LEMMA GreatestOf ==
  ASSUME NEW S, S # {}, NEW bound \in Nat, \A x \in S : x \in 0..bound
  PROVE  \E x \in S : \A y \in S : y <= x
<1>1. PICK T : T = {bound - x : x \in S}
  OBVIOUS
<1>2. T \in SUBSET Nat /\ T # {}
  BY <1>1
<1>3. PICK i \in T : \A j \in T : i <= j
  BY <1>2, LeastOf
<1>4. PICK x \in S : i = bound - x
  BY <1>1, <1>3
<1>5. ASSUME NEW y \in S PROVE y <= x
  BY <1>1, <1>3, <1>4
<1> QED
  BY <1>5

LEMMA MillionIsNumber == Million \in Nat
BY SMT DEF Million

(* Every row has a place in the ranking, and so a share that is a number.  *)
LEMMA SharesAreNumbers ==
  ASSUME NEW ids, NEW S, Enumerates(ids, S), NEW key, \A x \in S : key[x] \in Int,
         NEW share, share = Shares(ids, key)
  PROVE  /\ \A r \in S : share[r] \in 0..Million
         /\ S # {} => \E r \in S : share[r] > 0
<1>1. PICK ranking : ranking = SortedBy(ids, key)
  OBVIOUS
<1>2. Enumerates(ranking, S) /\ ToSet(ids) = S
  BY <1>1, Sorting, EnumeratesRange
<1>3. share = [r \in S |-> Million \div (RRF_K + (CHOOSE i \in DOMAIN ranking : ranking[i] = r))]
  BY <1>1, <1>2 DEF Shares
<1>4. Cardinality(S) \in Nat /\ DOMAIN ranking = 1..Cardinality(S)
  BY <1>2 DEF Enumerates
<1>5. ASSUME NEW r \in S
      PROVE  \E i \in 1..Cardinality(S) : ranking[i] = r /\ share[r] = Million \div (RRF_K + i)
  <2>1. PICK i : i = CHOOSE j \in DOMAIN ranking : ranking[j] = r
    OBVIOUS
  <2>2. \E j \in DOMAIN ranking : ranking[j] = r
    BY <1>2, <1>4 DEF Enumerates
  <2>3. i \in 1..Cardinality(S) /\ ranking[i] = r
    BY <1>4, <2>1, <2>2
  <2> QED
    BY <1>3, <2>1, <2>3
<1>6. ASSUME NEW r \in S PROVE share[r] \in 0..Million
  <2>1. PICK i \in 1..Cardinality(S) : share[r] = Million \div (RRF_K + i)
    BY <1>5
  <2>2. RRF_K + i \in Nat /\ RRF_K + i > 0
    BY <1>4 DEF RRF_K
  <2> QED
    BY <2>1, <2>2, Quotients, MillionIsNumber
<1>7. ASSUME S # {} PROVE \E r \in S : share[r] > 0
  <2>1. 1 \in 1..Cardinality(S)
    <3>1. Cardinality(S) # 0
      BY <1>7, FS_EmptySet DEF Enumerates
    <3> QED
      BY <1>4, <3>1
  <2>2. ranking[1] \in S
    BY <1>2, <2>1 DEF Enumerates
  <2>3. PICK i \in 1..Cardinality(S) : /\ ranking[i] = ranking[1]
                                       /\ share[ranking[1]] = Million \div (RRF_K + i)
    BY <1>5, <2>2
  <2>4. i = 1
    BY <1>2, <2>1, <2>3 DEF Enumerates
  <2>5. share[ranking[1]] = Million \div (60 + 1)
    BY <2>3, <2>4 DEF RRF_K
  <2>6. Million \div (60 + 1) > 0
    BY SMT DEF Million
  <2> QED
    BY <2>2, <2>5, <2>6
<1> QED
  BY <1>6, <1>7

LEMMA FusedIsNumber ==
  ASSUME NEW rows, NEW ids, NEW S, Enumerates(ids, S), S # {},
         \A r \in S : rows[r].close \in Int /\ rows[r].words \in Int,
         NEW fused, fused = Fused(rows, ids)
  PROVE  /\ DOMAIN fused = S
         /\ \A r \in S : fused[r] \in 0..(Million + Million)
         /\ \E r \in S : fused[r] > 0
<1>1. ToSet(ids) = S
  BY EnumeratesRange
<1>2. PICK close : close = [r \in ToSet(ids) |-> rows[r].close]
  OBVIOUS
<1>3. PICK words : words = [r \in ToSet(ids) |-> rows[r].words]
  OBVIOUS
<1>4. PICK dense, keyword : dense = Shares(ids, close) /\ keyword = Shares(ids, words)
  OBVIOUS
<1>5. /\ \A r \in S : dense[r] \in 0..Million
      /\ \E r \in S : dense[r] > 0
  BY <1>1, <1>2, <1>4, SharesAreNumbers
<1>6. \A r \in S : keyword[r] \in 0..Million
  BY <1>1, <1>3, <1>4, SharesAreNumbers
<1>7. fused = [r \in S |-> dense[r] + keyword[r]]
  BY <1>1, <1>2, <1>3, <1>4 DEF Fused
<1> QED
  BY <1>5, <1>6, <1>7, MillionIsNumber

LEMMA RelevanceIsNumber ==
  ASSUME NEW rows, NEW ids, NEW S, Enumerates(ids, S), S # {},
         \A r \in S : rows[r].close \in Int /\ rows[r].words \in Int
  PROVE  \A r \in S : HybridRelevance(rows, ids)[r] \in Int
<1>1. ToSet(ids) = S
  BY EnumeratesRange
<1>2. PICK fused : fused = Fused(rows, ids)
  OBVIOUS
<1>3. /\ DOMAIN fused = S
      /\ \A r \in S : fused[r] \in 0..(Million + Million)
      /\ \E r \in S : fused[r] > 0
  BY <1>2, FusedIsNumber
<1>4. PICK F : F = Range(fused)
  OBVIOUS
<1>5. F # {} /\ (\A x \in F : x \in 0..(Million + Million)) /\ \A r \in S : fused[r] \in F
  BY <1>3, <1>4 DEF Range
<1>6. PICK top : top = Max(F)
  OBVIOUS
<1>7. top \in Nat /\ top > 0
  <2>1. \E n \in F : \A y \in F : y <= n
    <3>1. Million + Million \in Nat
      BY MillionIsNumber
    <3> QED
      BY <1>5, <3>1, GreatestOf
  <2>2. \E n \in F : \A y \in F : n >= y
    BY <1>5, <2>1, MillionIsNumber
  <2>3. top \in F /\ \A y \in F : top >= y
    BY <1>6, <2>2 DEF Max
  <2> QED
    BY <1>3, <1>5, <2>3, MillionIsNumber
<1>8. HybridRelevance(rows, ids) = [r \in S |-> (100 * fused[r]) \div top]
  BY <1>1, <1>2, <1>4, <1>6 DEF HybridRelevance
<1>9. ASSUME NEW r \in S PROVE (100 * fused[r]) \div top \in Int
  BY <1>3, <1>7, Quotients, MillionIsNumber
<1> QED
  BY <1>8, <1>9

LEMMA FactorsAreNumbers ==
  ASSUME NEW row, IsRow(row), NEW level \in 0..3, NEW cap, cap = 45,
         NEW order, order = <<"do", "read", "watch">>
  PROVE  /\ LevelFit(row, level) \in Int
         /\ Quality(row) \in Int
         /\ ModalityPref(row, order) \in Int
         /\ DurationFit(row, cap) \in Int
<1>1. row.from \in Int /\ row.minutes \in Int
  BY DEF IsRow
<1>2. LevelFit(row, level) \in Int
  BY <1>1 DEF LevelFit, AtLeastNone
<1>3. Quality(row) \in Int
  <2>1. PICK base : base = CASE row.curation = "curated" -> 100
                             [] row.curation = "community" -> 60
                             [] OTHER -> 20
    OBVIOUS
  <2>2. PICK recency : recency = CASE row.age \in 0..180 -> 100
                                   [] row.age \in 181..365 -> 75
                                   [] OTHER -> 50
    OBVIOUS
  <2>3. base \in {100, 60, 20}
    BY <2>1
  <2>4. recency \in {100, 75, 50}
    BY <2>2
  <2>5. Quality(row) = (base * recency) \div 100
    BY <2>1, <2>2 DEF Quality
  <2> QED
    BY <2>3, <2>4, <2>5
<1>4. ModalityPref(row, order) \in Int
  <2>1. CASE row.modality \notin ToSet(order)
    BY <2>1 DEF ModalityPref
  <2>2. CASE row.modality \in ToSet(order)
    <3>1. DOMAIN order = 1..3 /\ Len(order) = 3
      OBVIOUS
    <3>2. \E i \in DOMAIN order : order[i] = row.modality
      BY <2>2 DEF ToSet
    <3>3. PICK i : i = CHOOSE j \in DOMAIN order : order[j] = row.modality
      OBVIOUS
    <3>4. i \in 1..3
      BY <3>1, <3>2, <3>3
    <3>5. ModalityPref(row, order) = 100 - (100 * (i - 1)) \div 3
      BY <2>2, <3>1, <3>3 DEF ModalityPref
    <3> QED
      BY <3>4, <3>5
  <2> QED
    BY <2>1, <2>2
<1>5. DurationFit(row, cap) \in Int
  BY <1>1 DEF DurationFit, AtLeastNone
<1> QED
  BY <1>2, <1>3, <1>4, <1>5

LEMMA ScoreIsNumber ==
  ASSUME NEW rows, NEW ids, NEW S, Enumerates(ids, S), S # {}, \A r \in S : IsRow(rows[r]),
         NEW level \in 0..3, NEW met
  PROVE  \A r \in S : Score(rows, ids, Query(level, met))[r] \in Int
<1>1. ToSet(ids) = S
  BY EnumeratesRange
<1>2. PICK q : q = Query(level, met)
  OBVIOUS
<1>3. /\ q.level = level /\ q.order = <<"do", "read", "watch">> /\ q.cap = 45
      /\ q.used = {} /\ q.failed = {}
  BY <1>2 DEF Query, DefaultQuery
<1>4. PICK relevance : relevance = HybridRelevance(rows, ids)
  OBVIOUS
<1>5. \A r \in S : relevance[r] \in Int
  BY <1>4, RelevanceIsNumber DEF IsRow
<1>6. Score(rows, ids, q) = [r \in S |->
         35 * LevelFit(rows[r], q.level) + 20 * Quality(rows[r])
           + 15 * ModalityPref(rows[r], q.order) + 15 * relevance[r]
           + 10 * DurationFit(rows[r], q.cap) + (IF r \in q.used THEN 0 ELSE 500)
           - (IF r \in q.failed THEN 3000 ELSE 0)]
  BY <1>1, <1>4 DEF Score
<1>7. ASSUME NEW r \in S PROVE Score(rows, ids, q)[r] \in Int
  <2>1. /\ LevelFit(rows[r], q.level) \in Int /\ Quality(rows[r]) \in Int
        /\ ModalityPref(rows[r], q.order) \in Int /\ DurationFit(rows[r], q.cap) \in Int
    BY <1>3, FactorsAreNumbers
  <2>2. Score(rows, ids, q)[r] =
         35 * LevelFit(rows[r], q.level) + 20 * Quality(rows[r])
           + 15 * ModalityPref(rows[r], q.order) + 15 * relevance[r]
           + 10 * DurationFit(rows[r], q.cap) + 500 - 0
    BY <1>3, <1>6
  <2> QED
    BY <1>5, <2>1, <2>2
<1> QED
  BY <1>2, <1>7

LEMMA OffersEnumerate ==
  ASSUME NEW skill \in GraphSkill
  PROVE  /\ Enumerates(Offers[skill], ToSet(Offers[skill]))
         /\ ToSet(Offers[skill]) \subseteq DOMAIN Row
         /\ \A r \in ToSet(Offers[skill]) : IsRow(Row[r])
<1>1. PICK ids : ids = Offers[skill]
  OBVIOUS
<1>2. ids \in Seq(DOMAIN Row) /\ \A i, j \in DOMAIN ids : ids[i] = ids[j] => i = j
  BY <1>1, OffersAssumption
<1>3. PICK n : n = Len(ids)
  OBVIOUS
<1>4. n \in Nat /\ DOMAIN ids = 1..n /\ ids \in [1..n -> DOMAIN Row]
  BY <1>2, <1>3, LenProperties
<1>5. PICK order : order = [i \in 1..n |-> i]
  OBVIOUS
<1>6. IsFiniteSet(1..n) /\ Cardinality(1..n) = n
  BY <1>4, FS_Interval
<1>7. Enumerates(order, 1..n)
  BY <1>4, <1>5, <1>6 DEF Enumerates
<1>8. PICK q : q = [k \in DOMAIN order |-> ids[order[k]]]
  OBVIOUS
<1>9. /\ \A i \in 1..n : ids[i] \in ToSet(ids)
      /\ \A r \in ToSet(ids) : \E i \in 1..n : ids[i] = r
  BY <1>4 DEF ToSet
<1>10. \A i, j \in 1..n : ids[i] = ids[j] => i = j
  BY <1>2, <1>4
<1>11. Enumerates(ids, ToSet(ids))
  <2>1. Enumerates(q, ToSet(ids))
    <3>1. PICK P, T : P = 1..n /\ T = ToSet(ids)
      OBVIOUS
    <3>2. /\ Enumerates(order, P)
          /\ \A i \in P : ids[i] \in T
          /\ \A r \in T : \E i \in P : ids[i] = r
          /\ \A i, j \in P : ids[i] = ids[j] => i = j
      BY <1>7, <1>9, <1>10, <3>1
    <3>3. q = [k \in DOMAIN order |-> ids[order[k]]]
      BY <1>8
    <3>4. Enumerates(order, P)
      BY <3>2
    <3>5. \A x, y \in P : ids[x] = ids[y] => x = y
      BY <3>2
    <3>6. Enumerates(q, T)
      BY <3>2, <3>3, <3>4, <3>5, Renaming
    <3> QED
      BY <3>1, <3>6
  <2>2. q = ids
    BY <1>4, <1>5, <1>8
  <2> QED
    BY <2>1, <2>2
<1>12. ToSet(ids) \subseteq DOMAIN Row
  BY <1>4, <1>9
<1> QED
  BY <1>1, <1>11, <1>12, OffersAssumption

(* Of the usable rows as many as asked for, and none of a kind twice while *)
(* another kind is left out.                                               *)
LEMMA Recommending ==
  ASSUME NEW skill \in GraphSkill, NEW level \in 0..3, NEW met, NEW usable,
         usable = {r \in ToSet(Offers[skill]) : Usable(Row[r], level, met)},
         NEW found, found = ToSet(Recommend(Row, Offers[skill], Query(level, met)))
  PROVE  WellChosen(found, usable)
<1>1. PICK ids, S : ids = Offers[skill] /\ S = ToSet(ids)
  OBVIOUS
<1>2. Enumerates(ids, S) /\ \A r \in S : IsRow(Row[r])
  BY <1>1, OffersEnumerate
<1>3. usable = {r \in S : Usable(Row[r], level, met)}
  BY <1>1
<1>4. found = ToSet(Recommend(Row, ids, Query(level, met)))
  BY <1>1
<1>5. PICK q : q = Query(level, met)
  OBVIOUS
<1>6. q.top = TUTOR_SEARCH_RESOURCES_TOP_K /\ TUTOR_SEARCH_RESOURCES_TOP_K \in Nat
  BY <1>5, LimitsAssumption DEF Query, DefaultQuery
<1>7. PICK positions : positions = {i \in DOMAIN ids : Eligible(Row[ids[i]], q)}
  OBVIOUS
<1>8. PICK eligible : eligible = ElementsAt(ids, positions)
  OBVIOUS
<1>9. Enumerates(eligible, usable)
  <2>1. DOMAIN ids = 1..Cardinality(S) /\ \A i \in DOMAIN ids : ids[i] \in S
    BY <1>2 DEF Enumerates
  <2>2. \A r \in S : Eligible(Row[r], q) <=> Usable(Row[r], level, met)
    BY <1>2, <1>5, EligibleIsUsable
  <2>3. \A i \in positions : ids[i] \in usable
    BY <1>3, <1>7, <2>1, <2>2
  <2>4. \A r \in usable : \E i \in positions : ids[i] = r
    BY <1>2, <1>3, <1>7, <2>1, <2>2 DEF Enumerates
  <2> QED
    BY <1>2, <1>7, <1>8, <2>3, <2>4, Selecting
<1>10. Recommend(Row, ids, q) =
        IF eligible = <<>> THEN <<>>
        ELSE Diversified(Row, SortedBy(eligible, Score(Row, eligible, q)), q.top)
  BY <1>7, <1>8 DEF Recommend
<1>11. CASE eligible = <<>>
  <2>1. DOMAIN eligible = {}
    BY <1>11
  <2>2. usable = {}
    BY <1>9, <2>1 DEF Enumerates
  <2>3. found = {}
    <3>1. Recommend(Row, ids, q) = <<>>
      BY <1>10, <1>11
    <3>2. ToSet(<<>>) = {}
      BY DEF ToSet
    <3> QED
      BY <1>4, <1>5, <3>1, <3>2
  <2>4. Cardinality({}) = 0
    BY FS_EmptySet
  <2>5. Min({TUTOR_SEARCH_RESOURCES_TOP_K, 0}) = 0
    BY <1>6 DEF Min
  <2> QED
    BY <2>2, <2>3, <2>4, <2>5 DEF WellChosen
<1>12. CASE eligible # <<>>
  <2>1. usable # {}
    <3>1. SUFFICES ASSUME usable = {} PROVE FALSE
      OBVIOUS
    <3>2. Cardinality(usable) = 0
      BY <3>1, FS_EmptySet
    <3>3. eligible \in [1..0 -> usable]
      BY <1>9, <3>2 DEF Enumerates
    <3>4. eligible = <<>>
      BY <3>3
    <3> QED
      BY <1>12, <3>4
  <2>2. PICK key : key = Score(Row, eligible, q)
    OBVIOUS
  <2>3. \A r \in usable : key[r] \in Int
    <3>1. \A r \in usable : IsRow(Row[r])
      BY <1>2, <1>3
    <3> QED
      BY <1>5, <1>9, <2>1, <2>2, <3>1, ScoreIsNumber
  <2>4. PICK ranked : ranked = SortedBy(eligible, key)
    OBVIOUS
  <2>5. Enumerates(ranked, usable)
    BY <1>9, <2>3, <2>4, Sorting
  <2>6. found = ToSet(Diversified(Row, ranked, TUTOR_SEARCH_RESOURCES_TOP_K))
    BY <1>4, <1>5, <1>6, <1>10, <1>12, <2>2, <2>4
  <2> QED
    <3>1. Varied(Row, found, usable, TUTOR_SEARCH_RESOURCES_TOP_K)
      BY <1>6, <2>5, <2>6, Diversifying, Zenon
    <3> QED
      BY <3>1 DEF Varied, WellChosen
<1> QED
  BY <1>11, <1>12

(* ------------------- G2: loops, as functions of a number ----------------- *)

(* What holds of 0, and of a number when it holds of the one before, holds *)
(* of them all.                                                            *)
LEMMA CountingUp ==
  ASSUME NEW N \in Nat, NEW Good, 0 \in Good, \A n \in 1..N : n - 1 \in Good => n \in Good
  PROVE  0..N \subseteq Good
<1> SUFFICES ASSUME (0..N) \ Good # {} PROVE FALSE
  OBVIOUS
<1>1. PICK S : S = (0..N) \ Good
  OBVIOUS
<1>2. S \in SUBSET Nat /\ S # {}
  BY <1>1
<1>3. PICK i \in S : \A j \in S : i <= j
  BY <1>2, LeastOf
<1>4. i \in 1..N /\ i \notin Good
  BY <1>1, <1>3
<1>5. i - 1 \in 0..N /\ i - 1 \notin S
  BY <1>3, <1>4
<1> QED
  BY <1>1, <1>4, <1>5

(* A loop that goes on from every state that is good after n - 1 steps to  *)
(* one that is good after n exists, and every state of it is good.         *)
GoesOn(N, Good, start, step) ==
  /\ N \in Nat
  /\ start \in Good[0]
  /\ \A n \in 1..N : \A x \in Good[n - 1] : step[n][x] \in Good[n]
Loop(f, N, Good, start, step) ==
  /\ f = [n \in 0..N |-> IF n = 0 THEN start ELSE step[n][f[n - 1]]]
  /\ \A n \in 0..N : f[n] \in Good[n]

LEMMA Looping ==
  ASSUME NEW N, NEW Good, NEW start, NEW step, GoesOn(N, Good, start, step)
  PROVE  \E f : Loop(f, N, Good, start, step)
<1> USE DEF GoesOn
<1> DEFINE Rounds(f, m) ==
      /\ f = [n \in 0..m |-> IF n = 0 THEN start ELSE step[n][f[n - 1]]]
      /\ \A n \in 0..m : f[n] \in Good[n]
<1>1. PICK Far : Far = {m \in 0..N : \E f : Rounds(f, m)}
  OBVIOUS
<1>2. 0 \in Far
  <2>1. PICK f : f = [n \in 0..0 |-> start]
    OBVIOUS
  <2>2. Rounds(f, 0)
    BY <2>1
  <2> QED
    BY <1>1, <2>2
<1>3. ASSUME NEW n \in 1..N, n - 1 \in Far PROVE n \in Far
  <2>1. PICK f : Rounds(f, n - 1)
    BY <1>1, <1>3
  <2>2. PICK g : g = [k \in 0..n |-> IF k < n THEN f[k] ELSE step[n][f[n - 1]]]
    OBVIOUS
  <2>3. ASSUME NEW k \in 0..n
        PROVE  g[k] = (IF k = 0 THEN start ELSE step[k][g[k - 1]]) /\ g[k] \in Good[k]
    <3>1. CASE k < n
      <4>1. k \in 0..(n - 1) /\ g[k] = f[k] /\ (k # 0 => k - 1 \in 0..n /\ g[k - 1] = f[k - 1])
        BY <2>2, <3>1
      <4>2. f[k] = (IF k = 0 THEN start ELSE step[k][f[k - 1]]) /\ f[k] \in Good[k]
        BY <2>1, <4>1
      <4> QED
        BY <4>1, <4>2
    <3>2. CASE k = n
      <4>1. n \in Nat /\ n # 0 /\ n - 1 \in 0..(n - 1) /\ n - 1 \in 0..n
        OBVIOUS
      <4>2. g[n] = step[n][f[n - 1]] /\ g[n - 1] = f[n - 1]
        BY <2>2, <4>1
      <4>3. f[n - 1] \in Good[n - 1]
        BY <2>1, <4>1
      <4> QED
        BY <3>2, <4>1, <4>2, <4>3
    <3> QED
      BY <3>1, <3>2
  <2>4. g = [k \in 0..n |-> IF k = 0 THEN start ELSE step[k][g[k - 1]]]
    BY <2>2, <2>3
  <2>5. Rounds(g, n)
    BY <2>3, <2>4
  <2> QED
    BY <1>1, <2>5
<1>4. N \in Far
  BY <1>2, <1>3, CountingUp
<1> QED
  BY <1>1, <1>4 DEF Loop

(* ----------------------- G2: the minutes of a plan ----------------------- *)

Lengths(items) == Len(items) \in Nat /\ \A n \in 1..Len(items) : items[n].est \in Int
RunningTotal(t, items) ==
  /\ t \in [0..Len(items) -> Int]
  /\ t[0] = 0
  /\ \A n \in 1..Len(items) : t[n] = t[n - 1] + items[n].est

LEMMA MinutesAreTotal ==
  ASSUME NEW items, Lengths(items)
  PROVE  \E t : RunningTotal(t, items) /\ Minutes(items) = t[Len(items)]
<1>0. PICK N \in Nat : N = Len(items) /\ \A n \in 1..N : items[n].est \in Int
  BY DEF Lengths
<1> DEFINE Sums(u) == u = [n \in 0..N |-> IF n = 0 THEN 0 ELSE u[n - 1] + items[n].est]
<1>1. PICK Good : Good = [n \in 0..N |-> Int]
  OBVIOUS
<1>2. PICK step : step = [n \in 1..N |-> [x \in Int |-> x + items[n].est]]
  OBVIOUS
<1>3. GoesOn(N, Good, 0, step)
  BY <1>0, <1>1, <1>2 DEF GoesOn
<1>4. PICK f : Loop(f, N, Good, 0, step)
  BY <1>3, Looping
<1>5. \A n \in 1..N : step[n][f[n - 1]] = f[n - 1] + items[n].est
  <2>1. \A n \in 1..N : f[n - 1] \in Int
    BY <1>1, <1>4 DEF Loop
  <2> QED
    BY <1>2, <2>1
<1>6. Sums(f)
  BY <1>4, <1>5 DEF Loop
<1>7. PICK upTo : upTo = CHOOSE u : Sums(u)
  OBVIOUS
<1>8. Sums(upTo)
  BY <1>6, <1>7
<1>9. Minutes(items) = upTo[N]
  BY <1>0, <1>7 DEF Minutes
<1>10. 0..N \subseteq {n \in 0..N : upTo[n] \in Int}
  <2>1. PICK P : P = {n \in 0..N : upTo[n] \in Int}
    OBVIOUS
  <2>2. N \in Nat /\ \A n \in 1..N : items[n].est \in Int
    BY <1>0
  <2>3. 0 \in P
    BY <1>8, <2>1, <2>2
  <2>4. ASSUME NEW n \in 1..N, n - 1 \in P PROVE n \in P
    BY <1>8, <2>1, <2>2, <2>4
  <2> QED
    BY <2>1, <2>2, <2>3, <2>4, CountingUp
<1>11. RunningTotal(upTo, items)
  <2>1. upTo \in [0..N -> Int]
    BY <1>8, <1>10
  <2>2. upTo[0] = 0 /\ \A n \in 1..N : upTo[n] = upTo[n - 1] + items[n].est
    BY <1>0, <1>8
  <2> QED
    BY <1>0, <2>1, <2>2 DEF RunningTotal
<1> QED
  BY <1>0, <1>9, <1>11

LEMMA MinutesAreInt ==
  ASSUME NEW items, Lengths(items)
  PROVE  Minutes(items) \in Int
<1>1. PICK t : RunningTotal(t, items) /\ Minutes(items) = t[Len(items)]
  BY MinutesAreTotal
<1> QED
  BY <1>1 DEF RunningTotal, Lengths

(* What two plans have in common takes the same time in both.              *)
LEMMA CommonMinutes ==
  ASSUME NEW a, NEW b, Lengths(a), Lengths(b), Len(a) <= Len(b),
         \A n \in 1..Len(a) : a[n].est = b[n].est,
         NEW t, NEW u, RunningTotal(t, a), RunningTotal(u, b)
  PROVE  \A n \in 0..Len(a) : t[n] = u[n]
<1>1. PICK N \in Nat : N = Len(a) /\ N <= Len(b) /\ Len(b) \in Nat
  BY DEF Lengths
<1>2. PICK P : P = {n \in 0..N : t[n] = u[n]}
  OBVIOUS
<1>3. 0 \in P
  BY <1>1, <1>2 DEF RunningTotal
<1>4. ASSUME NEW n \in 1..N, n - 1 \in P PROVE n \in P
  BY <1>1, <1>2, <1>4 DEF RunningTotal
<1> QED
  BY <1>1, <1>2, <1>3, <1>4, CountingUp

LEMMA SameMinutes ==
  ASSUME NEW a, NEW b, Lengths(a), Len(b) = Len(a),
         \A n \in 1..Len(a) : a[n].est = b[n].est
  PROVE  Minutes(a) = Minutes(b)
<1>1. Lengths(b)
  BY DEF Lengths
<1>2. PICK t : RunningTotal(t, a) /\ Minutes(a) = t[Len(a)]
  BY MinutesAreTotal
<1>3. PICK u : RunningTotal(u, b) /\ Minutes(b) = u[Len(b)]
  BY <1>1, MinutesAreTotal
<1>4. Len(a) \in 0..Len(a) /\ Len(a) <= Len(b)
  BY DEF Lengths
<1> QED
  BY <1>1, <1>2, <1>3, <1>4, CommonMinutes

LEMMA OneMoreItem ==
  ASSUME NEW a, NEW b, Lengths(a), Lengths(b), Len(b) = Len(a) + 1,
         \A n \in 1..Len(a) : a[n].est = b[n].est
  PROVE  Minutes(b) = Minutes(a) + b[Len(b)].est
<1>1. PICK t : RunningTotal(t, a) /\ Minutes(a) = t[Len(a)]
  BY MinutesAreTotal
<1>2. PICK u : RunningTotal(u, b) /\ Minutes(b) = u[Len(b)]
  BY MinutesAreTotal
<1>3. Len(a) \in 0..Len(a) /\ Len(a) <= Len(b) /\ Len(b) \in 1..Len(b) /\ Len(b) - 1 = Len(a)
  BY DEF Lengths
<1>4. t[Len(a)] = u[Len(a)]
  BY <1>1, <1>2, <1>3, CommonMinutes
<1>5. u[Len(b)] = u[Len(b) - 1] + b[Len(b)].est
  BY <1>2, <1>3 DEF RunningTotal
<1> QED
  BY <1>1, <1>2, <1>3, <1>4, <1>5

(* ------------------- G2: the numbers of an objective --------------------- *)

LEMMA GreatestIsMax ==
  ASSUME NEW S, S # {}, NEW bound \in Nat, \A x \in S : x \in 0..bound
  PROVE  Max(S) \in S /\ Max(S) \in 0..bound /\ \A y \in S : y <= Max(S)
<1>1. \E x \in S : \A y \in S : y <= x
  BY GreatestOf
<1>2. Max(S) \in S /\ \A y \in S : Max(S) >= y
  BY <1>1 DEF Max
<1> QED
  BY <1>2

LEMMA LeastIsMin ==
  ASSUME NEW S \in SUBSET Nat, S # {}
  PROVE  Min(S) \in S /\ Min(S) \in Nat /\ \A y \in S : Min(S) <= y
<1>1. \E x \in S : \A y \in S : x <= y
  BY LeastOf
<1> QED
  BY <1>1 DEF Min

LEMMA RequiredLevelIsNumber ==
  ASSUME NEW s \in Skill
  PROVE  RequiredLevel(s) \in 0..3
<1>1. PICK demanded : demanded = {EdgeLevel[e] : e \in {x \in HardPrereq : x[1] = s}}
  OBVIOUS
<1>2. PICK all : all = (IF demanded = {} THEN {1} ELSE demanded) \cup {RoleLevel[s]}
  OBVIOUS
<1>3. all # {} /\ \A x \in all : x \in 0..3
  <2>1. \A e \in HardPrereq : EdgeLevel[e] \in 0..3
    BY GraphAssumption
  <2>2. \A x \in demanded : x \in 0..3
    BY <1>1, <2>1
  <2>3. RoleLevel[s] \in 0..3
    BY GraphAssumption
  <2> QED
    BY <1>2, <2>2, <2>3
<1>4. Max(all) \in 0..3
  BY <1>3, GreatestIsMax
<1>5. {Max(all), 3} \in SUBSET Nat
  BY <1>4
<1>6. Min({Max(all), 3}) \in {Max(all), 3}
  BY <1>5, LeastIsMin
<1>7. RequiredLevel(s) = Min({Max(all), 3})
  BY <1>1, <1>2 DEF RequiredLevel
<1> QED
  BY <1>4, <1>6, <1>7

LEMMA PriorityIsNumber ==
  ASSUME NEW learner, NEW s \in Skill
  PROVE  Priority(learner, s) \in Nat
<1>1. HardDescendants(s) \subseteq Skill
  BY DEF HardDescendants
<1>2. WeightReaching(s) \in Nat
  <2>1. PICK reached : reached = {Weight[d] : d \in {s} \cup HardDescendants(s)} \ {0}
    OBVIOUS
  <2>2. \A x \in reached : x \in 0..3
    BY <1>1, <2>1, GraphAssumption
  <2>3. reached # {} => Max(reached) \in 0..3
    BY <2>2, GreatestIsMax
  <2>4. WeightReaching(s) = IF reached = {} THEN 1 ELSE Max(reached)
    BY <2>1 DEF WeightReaching
  <2> QED
    BY <2>3, <2>4
<1>3. UnmetDependents(learner, s) \in 0..Cardinality(Skill)
  <2>1. PICK U : U = {d \in HardDescendants(s) : RawStatus(learner, d) # "MET"}
    OBVIOUS
  <2>2. U \subseteq Skill
    BY <1>1, <2>1
  <2>3. /\ IsFiniteSet(U) /\ Cardinality(U) <= Cardinality(Skill)
        /\ Cardinality(U) \in Nat /\ Cardinality(Skill) \in Nat
    BY <2>2, GraphAssumption, FS_Subset, FS_CardinalityType
  <2>4. UnmetDependents(learner, s) = Cardinality(U)
    BY <2>1 DEF UnmetDependents
  <2> QED
    BY <2>3, <2>4
<1>4. Urgency[UnmetDependents(learner, s)] \in Nat
  BY <1>3, GraphAssumption
<1> QED
  BY <1>2, <1>4 DEF Priority

(* The graph has no cycle: the layers can be found, prerequisites first.   *)
LEMMA LayerIsNumber ==
  ASSUME NEW learner, NEW s \in Skill
  PROVE  OrderingLayer(learner)[s] \in Nat
<1>0. PICK top \in Nat : top = Cardinality(Skill)
  BY GraphAssumption, FS_CardinalityType
<1>1. PICK depth \in [Skill -> 0..top] : \A e \in HardPrereq : depth[e[1]] < depth[e[2]]
  BY <1>0, GraphAssumption
<1> DEFINE Unmet(t) == {p \in HardParents(t) : RawStatus(learner, p) # "MET"}
           Value(f, t) == IF Unmet(t) = {} THEN 0 ELSE 1 + Max({f[p] : p \in Unmet(t)})
           Layers(f) == f = [t \in Skill |-> Value(f, t)]
           Found(f, n) == \A t \in Skill : depth[t] <= n => f[t] = Value(f, t) /\ f[t] \in 0..depth[t]
<1>2. \A t \in Skill : \A p \in Unmet(t) : p \in Skill /\ depth[p] < depth[t] /\ depth[p] \in Nat /\ depth[t] \in 0..top
  <2> SUFFICES ASSUME NEW t \in Skill, NEW p \in Unmet(t)
               PROVE  p \in Skill /\ depth[p] < depth[t] /\ depth[p] \in Nat /\ depth[t] \in 0..top
    OBVIOUS
  <2>1. p \in Skill /\ <<p, t>> \in HardPrereq
    BY DEF HardParents
  <2> QED
    BY <1>1, <2>1
<1>3. ASSUME NEW f, NEW g, NEW t \in Skill, \A p \in Unmet(t) : f[p] = g[p]
      PROVE  Value(f, t) = Value(g, t)
  <2>1. {f[p] : p \in Unmet(t)} = {g[p] : p \in Unmet(t)}
    BY <1>3
  <2> QED
    BY <2>1
<1>4. ASSUME NEW f, NEW t \in Skill, \A p \in Unmet(t) : f[p] \in 0..depth[p]
      PROVE  Value(f, t) \in 0..depth[t]
  <2>1. CASE Unmet(t) = {}
    BY <1>1, <2>1
  <2>2. CASE Unmet(t) # {}
    <3>1. PICK S : S = {f[p] : p \in Unmet(t)}
      OBVIOUS
    <3>2. S # {}
      BY <2>2, <3>1
    <3>3. depth[t] \in Nat /\ depth[t] # 0
      BY <1>1, <1>2, <2>2
    <3>4. ASSUME NEW x \in S PROVE x \in 0..(depth[t] - 1)
      BY <1>2, <1>4, <3>1, <3>3
    <3>5. Max(S) \in 0..(depth[t] - 1)
      BY <3>2, <3>3, <3>4, GreatestIsMax
    <3>6. Value(f, t) = 1 + Max(S)
      BY <2>2, <3>1
    <3> QED
      BY <3>3, <3>5, <3>6
  <2> QED
    BY <2>1, <2>2
<1> HIDE DEF Value, Unmet
<1>5. PICK Far : Far = {n \in 0..top : \E f : Found(f, n)}
  OBVIOUS
<1>6. ASSUME NEW n \in 0..top, NEW f, \A t \in Skill : depth[t] < n => f[t] = Value(f, t) /\ f[t] \in 0..depth[t]
      PROVE  n \in Far
  <2>1. PICK g : g = [t \in Skill |-> IF depth[t] < n THEN f[t] ELSE Value(f, t)]
    OBVIOUS
  <2>2. ASSUME NEW t \in Skill, depth[t] <= n
        PROVE  g[t] = Value(g, t) /\ g[t] \in 0..depth[t]
    <3>1. \A p \in Unmet(t) : f[p] = g[p] /\ f[p] \in 0..depth[p]
      BY <1>2, <1>6, <2>1, <2>2
    <3>2. Value(f, t) = Value(g, t) /\ Value(f, t) \in 0..depth[t]
      BY <1>3, <1>4, <3>1
    <3>3. g[t] = Value(f, t)
      BY <1>6, <2>1
    <3> QED
      BY <3>2, <3>3
  <2> QED
    BY <1>5, <2>2
<1>7. 0 \in Far
  <2>1. \A t \in Skill : ~ (depth[t] < 0)
    BY <1>1
  <2> QED
    BY <1>6, <2>1
<1>8. ASSUME NEW n \in 1..top, n - 1 \in Far PROVE n \in Far
  <2>1. PICK f : Found(f, n - 1)
    BY <1>5, <1>8
  <2>2. \A t \in Skill : depth[t] < n => depth[t] <= n - 1
    BY <1>1
  <2> QED
    BY <1>6, <2>1, <2>2
<1>9. PICK f : Found(f, top)
  <2>1. top \in Far
    BY <1>7, <1>8, CountingUp
  <2> QED
    BY <1>5, <2>1
<1>10. \E g : Layers(g)
  <2>1. PICK g : g = [t \in Skill |-> f[t]]
    OBVIOUS
  <2>2. ASSUME NEW t \in Skill PROVE g[t] = Value(g, t)
    <3>1. \A p \in Unmet(t) : f[p] = g[p]
      BY <1>2, <2>1
    <3>2. Value(f, t) = Value(g, t)
      BY <1>3, <3>1
    <3>3. f[t] = Value(f, t)
      BY <1>1, <1>9
    <3> QED
      BY <2>1, <3>2, <3>3
  <2> QED
    BY <2>1, <2>2
<1>11. PICK layer : layer = CHOOSE f0 : Layers(f0)
  OBVIOUS
<1>12. Layers(layer)
  BY <1>10, <1>11
<1>13. OrderingLayer(learner) = layer
  BY <1>11 DEF OrderingLayer, Value, Unmet
<1>14. ASSUME NEW n \in 0..top, \A t \in Skill : depth[t] < n => layer[t] \in 0..depth[t]
       PROVE  \A t \in Skill : depth[t] <= n => layer[t] \in 0..depth[t]
  <2> SUFFICES ASSUME NEW t \in Skill, depth[t] <= n PROVE layer[t] \in 0..depth[t]
    OBVIOUS
  <2>1. \A p \in Unmet(t) : layer[p] \in 0..depth[p]
    BY <1>2, <1>14
  <2>2. Value(layer, t) \in 0..depth[t]
    BY <1>4, <2>1
  <2> QED
    BY <1>12, <2>2
<1>15. PICK Right : Right = {n \in 0..top : \A t \in Skill : depth[t] <= n => layer[t] \in 0..depth[t]}
  OBVIOUS
<1>16. 0 \in Right
  <2>1. \A t \in Skill : ~ (depth[t] < 0)
    BY <1>1
  <2> QED
    BY <1>14, <1>15, <2>1
<1>17. ASSUME NEW n \in 1..top, n - 1 \in Right PROVE n \in Right
  <2>1. \A t \in Skill : depth[t] < n => depth[t] <= n - 1
    BY <1>1
  <2>2. \A t \in Skill : depth[t] < n => layer[t] \in 0..depth[t]
    BY <1>15, <1>17, <2>1
  <2> QED
    BY <1>14, <1>15, <2>2
<1>18. top \in Right
  BY <1>16, <1>17, CountingUp
<1>19. layer[s] \in 0..depth[s] /\ depth[s] \in Nat
  BY <1>1, <1>15, <1>18
<1> QED
  BY <1>13, <1>19

(* ---------------------- G2: the candidates offered ----------------------- *)

LEMMA LengthOf ==
  ASSUME NEW q, NEW k \in Nat, NEW f, q = [n \in 1..k |-> f[n]]
  PROVE  Len(q) = k /\ DOMAIN q = 1..k
<1>1. q \in [1..k -> {f[n] : n \in 1..k}]
  OBVIOUS
<1>2. q \in Seq({f[n] : n \in 1..k})
  BY <1>1, SeqDef
<1> QED
  BY <1>1, <1>2, LenProperties

(* The elements at some positions keep their order.                        *)
KeptAt(at, e, q, P) ==
  /\ Len(e) \in Nat /\ DOMAIN e = 1..Len(e)
  /\ at \in [1..Len(e) -> P]
  /\ \A i \in 1..Len(e) : e[i] = q[at[i]] /\ at[i] \in Nat
  /\ \A i, j \in 1..Len(e) : i < j => at[i] < at[j]
  /\ \A p \in P : \E i \in 1..Len(e) : at[i] = p

LEMMA Keeping ==
  ASSUME NEW q, NEW N \in Nat, NEW P, P \subseteq 1..N
  PROVE  \E at : KeptAt(at, ElementsAt(q, P), q, P)
<1> PICK e : e = ElementsAt(q, P)
  OBVIOUS
<1>0. \A p \in P : p \in Nat
  OBVIOUS
<1>1. PICK before : before = {ij \in P \X P : ij[1] < ij[2]}
  OBVIOUS
<1>2. IsFiniteSet(P)
  <2>1. IsFiniteSet(1..N)
    BY FS_Interval
  <2> QED
    BY <2>1, FS_Subset
<1>3. StrictOrder(P, before)
  BY <1>1 DEF StrictOrder
<1>4. PICK at : at = Arranged(P, before)
  OBVIOUS
<1>5. /\ Enumerates(at, P)
      /\ \A i, j \in 1..Cardinality(P) : <<at[i], at[j]>> \in before => i < j
  BY <1>2, <1>3, <1>4, Arranging
<1>6. PICK k \in Nat : k = Cardinality(P) /\ at \in [1..k -> P]
  BY <1>5 DEF Enumerates
<1>7. PICK f : f = [n \in 1..k |-> q[at[n]]]
  OBVIOUS
<1>8. e = [n \in 1..k |-> f[n]]
  BY <1>1, <1>4, <1>6, <1>7 DEF ElementsAt
<1>9. Len(e) = k /\ DOMAIN e = 1..k
  BY <1>8, LengthOf
<1>10. \A i \in 1..k : e[i] = q[at[i]]
  BY <1>7, <1>8
<1>11. ASSUME NEW i \in 1..k, NEW j \in 1..k, i < j PROVE at[i] < at[j]
  <2>1. at[i] \in P /\ at[j] \in P /\ at[i] # at[j]
    BY <1>5, <1>6, <1>11 DEF Enumerates
  <2>2. <<at[j], at[i]>> \notin before
    BY <1>5, <1>6, <1>11
  <2>3. \A x, y \in P : x < y => <<x, y>> \in before
    BY <1>1
  <2>4. ~ (at[j] < at[i])
    BY <2>1, <2>2, <2>3
  <2>5. at[i] \in Nat /\ at[j] \in Nat
    BY <1>0, <2>1
  <2> QED
    BY <2>1, <2>4, <2>5
<1>12. \A p \in P : \E i \in 1..k : at[i] = p
  BY <1>5, <1>6 DEF Enumerates
<1>13. KeptAt(at, e, q, P)
  BY <1>0, <1>6, <1>9, <1>10, <1>11, <1>12 DEF KeptAt
<1> QED
  BY <1>13

(* ------------------- G2: what a run was started with --------------------- *)

PlanTypes ==
  /\ request.learner \in Learners /\ request.budget \in Nat /\ request.newSkillCap \in Nat
  /\ request.sessionCap \in Nat \ {0}

(* What build_candidate_sets lets an objective use: every resource once,   *)
(* with at least one session left, the sessions in their order.            *)
OfferFits(r) ==
  /\ r.id \in Resource
  /\ Len(r.sessions) \in Nat \ {0} /\ DOMAIN r.sessions = 1..Len(r.sessions)
  /\ \A n \in DOMAIN r.sessions : /\ r.sessions[n].res = r.id
                                  /\ r.sessions[n].index \in Nat
                                  /\ r.sessions[n].est \in Int
  /\ \A m, n \in DOMAIN r.sessions : m < n => r.sessions[m].index < r.sessions[n].index
CandidateFits(cs) ==
  /\ cs.kind \in {"probe", "lesson"}
  /\ cs.current \in 0..3 /\ {cs.target, cs.priority, cs.layer, cs.bank} \subseteq Nat
  /\ Len(cs.resources) \in Nat /\ DOMAIN cs.resources = 1..Len(cs.resources)
  /\ \A k \in DOMAIN cs.resources : OfferFits(cs.resources[k])
  /\ \A j, k \in DOMAIN cs.resources : cs.resources[j].id = cs.resources[k].id => j = k
CandsFit(candidates, level) ==
  /\ DOMAIN candidates \subseteq Skill
  /\ \A s \in DOMAIN candidates :
       /\ CandidateFits(candidates[s])
       /\ candidates[s].current = level[s]

SessionsOf(q, r) ==
  /\ Len(q) \in Nat /\ DOMAIN q = 1..Len(q)
  /\ \A n \in 1..Len(q) : q[n].res = r /\ q[n].index \in Nat /\ q[n].est \in Int
  /\ \A m, n \in 1..Len(q) : m < n => q[m].index < q[n].index
LEMMA SessionsFit ==
  ASSUME NEW r, NEW duration \in Nat, NEW cap \in Nat \ {0}, NEW done
  PROVE  SessionsOf(SessionizeResource(r, duration, cap, done), r)
<1> PICK q : q = SessionizeResource(r, duration, cap, done)
  OBVIOUS
<1>1. PICK segment : segment = SegmentDurations(duration, cap)
  OBVIOUS
<1>2. PICK N : N = CeilDiv(duration, cap)
  OBVIOUS
<1>3. N \in Nat
  <2>1. duration + cap - 1 \in Nat /\ cap \in Nat /\ cap > 0
    OBVIOUS
  <2> QED
    BY <1>2, <2>1, Quotients DEF CeilDiv
<1>4. DOMAIN segment = 1..N /\ \A k \in 1..N : segment[k] \in Int
  <2>1. \A k \in 1..N : N > 0 /\ duration \div N \in Nat
    BY <1>3, Quotients
  <2>2. segment = [k \in 1..N |-> duration \div N + (IF k <= duration % N THEN 1 ELSE 0)]
    BY <1>1, <1>2 DEF SegmentDurations
  <2> QED
    BY <2>1, <2>2
<1>5. PICK all : all = [k \in DOMAIN segment |-> [res |-> r, index |-> k, est |-> segment[k]]]
  OBVIOUS
<1>6. PICK P : P = {k \in DOMAIN all : <<r, k>> \notin done}
  OBVIOUS
<1>7. q = ElementsAt(all, P)
  BY <1>1, <1>5, <1>6 DEF SessionizeResource
<1>8. P \subseteq 1..N
  BY <1>4, <1>5, <1>6
<1>9. PICK at : KeptAt(at, q, all, P)
  BY <1>3, <1>7, <1>8, Keeping
<1>10. \A n \in 1..Len(q) : /\ at[n] \in 1..N
                            /\ q[n] = [res |-> r, index |-> at[n], est |-> segment[at[n]]]
  BY <1>4, <1>5, <1>8, <1>9 DEF KeptAt
<1>11. SessionsOf(q, r)
  BY <1>3, <1>4, <1>9, <1>10 DEF KeptAt, SessionsOf
<1> QED
  BY <1>11

LEMMA CandidateSetFits ==
  ASSUME PlanTypes, gaps = AnalyzeGaps(request.learner), NEW s \in DOMAIN gaps.objectives,
         NEW ranked \in Targets[s]
  PROVE  CandidateFits(CandidateSet(s, ranked)) /\ CandidateSet(s, ranked).current = gaps.level[s]
<1>1. s \in Skill /\ s \in RootGaps(request.learner) /\ gaps.objectives = Objectives(request.learner)
  BY DEF AnalyzeGaps, Objectives, RootGaps
<1>2. PICK o : o = gaps.objectives[s]
  OBVIOUS
<1>3. o.kind \in {"probe", "lesson"} /\ {o.target, o.priority, o.layer} \subseteq Nat
  <2>1. o.target = RequiredLevel(s) /\ o.priority = Priority(request.learner, s)
        /\ o.layer = OrderingLayer(request.learner)[s] /\ o.kind \in {"probe", "lesson"}
    BY <1>1, <1>2 DEF Objectives
  <2>2. RequiredLevel(s) \in Nat
    BY <1>1, RequiredLevelIsNumber
  <2> QED
    BY <1>1, <2>1, <2>2, PriorityIsNumber, LayerIsNumber
<1>4. gaps.level[s] \in 0..3
  <2>1. gaps.level[s] = request.learner[s].level
    BY <1>1 DEF AnalyzeGaps
  <2>2. request.learner \in Learner
    BY PlanningAssumption DEF PlanTypes
  <2> QED
    BY <1>1, <2>1, <2>2 DEF Learner, LearnerRecord
<1>5. ranked \in Seq(Resource) /\ IsInjective(ranked)
  BY <1>1, PlanningAssumption
<1>6. PICK N \in Nat : N = Len(ranked) /\ DOMAIN ranked = 1..N /\ \A n \in 1..N : ranked[n] \in Resource
  BY <1>5
<1>7. PICK all : all = [n \in DOMAIN ranked |-> [id |-> ranked[n],
                sessions |-> SessionizeResource(ranked[n], Duration[ranked[n]],
                               request.sessionCap, request.done)]]
  OBVIOUS
<1>8. PICK P : P = {n \in DOMAIN all : all[n].sessions # <<>>}
  OBVIOUS
<1>9. PICK offers : offers = ElementsAt(all, P)
  OBVIOUS
<1>10. P \subseteq 1..N
  BY <1>6, <1>7, <1>8
<1>11. PICK at : KeptAt(at, offers, all, P)
  BY <1>9, <1>10, Keeping
<1>12. ASSUME NEW k \in 1..Len(offers) PROVE OfferFits(offers[k]) /\ offers[k].id = ranked[at[k]]
  <2>1. at[k] \in 1..N /\ offers[k] = all[at[k]] /\ at[k] \in P
    BY <1>10, <1>11 DEF KeptAt
  <2>2. PICK r \in Resource : r = ranked[at[k]]
    BY <1>6, <2>1
  <2>3. PICK q : q = SessionizeResource(r, Duration[r], request.sessionCap, request.done)
    OBVIOUS
  <2>4. offers[k] = [id |-> r, sessions |-> q]
    BY <1>6, <1>7, <2>1, <2>2, <2>3
  <2>5. Duration[r] \in Nat /\ request.sessionCap \in Nat \ {0}
    BY PlanningAssumption DEF PlanTypes
  <2>6. SessionsOf(q, r)
    BY <2>3, <2>5, SessionsFit
  <2>7. q # <<>>
    <3>1. all[at[k]].sessions # <<>>
      BY <1>8, <2>1
    <3> QED
      BY <2>1, <2>4, <3>1
  <2>8. Len(q) # 0
    <3>1. SUFFICES ASSUME Len(q) = 0 PROVE FALSE
      OBVIOUS
    <3>2. q \in Seq({1})
      <4>1. DOMAIN q = {}
        BY <2>6, <3>1 DEF SessionsOf
      <4>2. q = [n \in {} |-> 1]
        BY <2>3, <4>1 DEF SessionizeResource, ElementsAt
      <4> QED
        BY <4>2
    <3> QED
      BY <2>7, <3>1, <3>2
  <2> QED
    BY <2>2, <2>4, <2>6, <2>8 DEF OfferFits, SessionsOf
<1>13. \A j, k \in 1..Len(offers) : offers[j].id = offers[k].id => j = k
  <2> SUFFICES ASSUME NEW j \in 1..Len(offers), NEW k \in 1..Len(offers), offers[j].id = offers[k].id, j # k
               PROVE  FALSE
    OBVIOUS
  <2>1. at[j] \in 1..N /\ at[k] \in 1..N /\ at[j] # at[k]
    <3>1. at[j] \in 1..N /\ at[k] \in 1..N
      BY <1>10, <1>11 DEF KeptAt
    <3>2. j \in Nat /\ k \in Nat
      BY <1>11 DEF KeptAt
    <3>3. at[j] < at[k] \/ at[k] < at[j]
      BY <1>11, <3>2 DEF KeptAt
    <3> QED
      BY <3>1, <3>3
  <2>2. ranked[at[j]] = ranked[at[k]]
    BY <1>12
  <2> QED
    BY <1>5, <1>6, <2>1, <2>2 DEF IsInjective
<1>14. PICK cs : cs = CandidateSet(s, ranked)
  OBVIOUS
<1>15. /\ cs.kind = o.kind /\ cs.target = o.target /\ cs.current = gaps.level[s]
       /\ cs.priority = o.priority /\ cs.layer = o.layer
       /\ cs.resources = (IF o.kind = "probe" THEN <<>> ELSE offers)
       /\ cs.bank = (IF o.kind = "probe" THEN Least(Bank[s].probe, PROBE_ITEM_COUNT) ELSE Bank[s].practice)
  BY <1>2, <1>7, <1>8, <1>9, <1>14 DEF CandidateSet
<1>16. cs.bank \in Nat
  BY <1>1, <1>15, PlanningAssumption DEF Least, PROBE_ITEM_COUNT
<1>17. Len(cs.resources) \in Nat /\ DOMAIN cs.resources = 1..Len(cs.resources)
  BY <1>11, <1>15 DEF KeptAt
<1>18. \A k \in DOMAIN cs.resources : OfferFits(cs.resources[k])
  BY <1>11, <1>12, <1>15 DEF KeptAt
<1>19. \A j, k \in DOMAIN cs.resources : cs.resources[j].id = cs.resources[k].id => j = k
  BY <1>11, <1>13, <1>15 DEF KeptAt
<1> QED
  BY <1>3, <1>4, <1>14, <1>15, <1>16, <1>17, <1>18, <1>19 DEF CandidateFits

LEMMA RetrievedFit ==
  ASSUME PlanTypes, gaps = AnalyzeGaps(request.learner), RetrieveCandidates
  PROVE  CandsFit(cands', gaps.level)
<1>1. PICK ranked \in Rankings :
        /\ \A s \in Skill : ranked[s] \in Targets[s]
        /\ cands' = [s \in DOMAIN gaps.objectives |-> CandidateSet(s, ranked[s])]
  BY DEF RetrieveCandidates
<1>2. DOMAIN gaps.objectives \subseteq Skill
  BY DEF AnalyzeGaps, Objectives, RootGaps
<1>3. ASSUME NEW s \in DOMAIN cands'
      PROVE  CandidateFits(cands'[s]) /\ cands'[s].current = gaps.level[s]
  <2>1. s \in DOMAIN gaps.objectives /\ ranked[s] \in Targets[s] /\ cands'[s] = CandidateSet(s, ranked[s])
    BY <1>1, <1>2
  <2> QED
    BY <2>1, CandidateSetFits
<1> QED
  BY <1>1, <1>2, <1>3 DEF CandsFit

(* ------------------- G2: items, days and the last lesson ----------------- *)

LEMMA ItemFields ==
  ASSUME NEW i \in PlanItem
  PROVE  /\ i.skill \in Skill /\ i.index \in Nat /\ i.bank \in Nat /\ i.dep \in Nat
         /\ i.est \in Int /\ i.difficulty \in Int /\ i.day \in Int
         /\ i.index \in Int
BY DEF PlanItem

LEMMA ItemsTyped ==
  ASSUME NEW items \in Seq(PlanItem)
  PROVE  /\ Len(items) \in Nat /\ DOMAIN items = 1..Len(items)
         /\ \A n \in 1..Len(items) : items[n] \in PlanItem
         /\ Lengths(items)
<1>1. Len(items) \in Nat /\ DOMAIN items = 1..Len(items)
      /\ \A n \in 1..Len(items) : items[n] \in PlanItem
  BY LenProperties
<1>2. \A n \in 1..Len(items) : items[n].est \in Int
  BY <1>1 DEF PlanItem
<1> QED
  BY <1>1, <1>2 DEF Lengths

Grown(more, items, x) ==
  /\ more \in Seq(PlanItem) /\ Len(more) = Len(items) + 1
  /\ DOMAIN more = 1..(Len(items) + 1)
  /\ \A n \in 1..Len(items) : more[n] = items[n]
  /\ more[Len(items) + 1] = x
  /\ Minutes(more) = Minutes(items) + x.est
LEMMA ItemsAppended ==
  ASSUME NEW items \in Seq(PlanItem), NEW x \in PlanItem, NEW more, more = Append(items, x)
  PROVE  Grown(more, items, x)
<1>1. /\ more \in Seq(PlanItem) /\ Len(more) = Len(items) + 1
      /\ \A n \in 1..Len(items) : more[n] = items[n]
      /\ more[Len(items) + 1] = x
  BY AppendProperties
<1>2. Lengths(items) /\ Lengths(more)
  BY <1>1, ItemsTyped
<1>3. Minutes(more) = Minutes(items) + more[Len(more)].est
  BY <1>1, <1>2, OneMoreItem
<1>4. DOMAIN more = 1..(Len(items) + 1)
  BY <1>1, ItemsTyped
<1> QED
  BY <1>1, <1>3, <1>4 DEF Grown

LEMMA LeastProperties ==
  ASSUME NEW a \in Int, NEW b \in Int
  PROVE  Least(a, b) \in {a, b} /\ Least(a, b) <= a /\ Least(a, b) <= b
BY DEF Least

LEMMA NoneLess ==
  ASSUME NEW a \in Nat, NEW b \in Nat
  PROVE  (a = b => ~ (a < b)) /\ (a < b => ~ (b < a))
  OBVIOUS

LEMMA OneIsFirst ==
  ASSUME NEW n \in Nat \ {0}
  PROVE  1 \in 1..n
  OBVIOUS

LEMMA BelowCap ==
  ASSUME NEW a \in Nat, NEW b \in Nat, ~ (a >= b)
  PROVE  a < b
  OBVIOUS

LEMMA LargerOf ==
  ASSUME NEW a \in Int, NEW b \in Int
  PROVE  Max({a, b}) \in {a, b} /\ Max({a, b}) >= a /\ Max({a, b}) >= b
<1>1. \E x \in {a, b} : \A y \in {a, b} : x >= y
  OBVIOUS
<1>2. Max({a, b}) \in {a, b} /\ \A y \in {a, b} : Max({a, b}) >= y
  BY <1>1 DEF Max
<1> QED
  BY <1>2

(* A session is placed on a day of the week, not before the day asked for. *)
LEMMA DayPlaced ==
  ASSUME NEW items, NEW budget, NEW notBefore \in Int
  PROVE  /\ PlaceDay(items, budget, notBefore) \in 1..NumDays
         /\ Least(notBefore, NumDays) <= PlaceDay(items, budget, notBefore)
<1> USE DEF NumDays
<1>1. PICK start : start = Least(Max({1, notBefore}), NumDays)
  OBVIOUS
<1>2. start \in 1..NumDays /\ Least(notBefore, NumDays) <= start
  <2>1. Max({1, notBefore}) \in Int /\ Max({1, notBefore}) >= 1 /\ Max({1, notBefore}) >= notBefore
    BY LargerOf
  <2> QED
    BY <1>1, <2>1 DEF Least
<1>3. PICK open : open = {d \in start..NumDays : DayLoad(items, d) < DayCap(budget)}
  OBVIOUS
<1>4. open \subseteq start..NumDays
  BY <1>3
<1>5. open \cup {NumDays} \in SUBSET Nat
  BY <1>2, <1>4
<1>6. Min(open \cup {NumDays}) \in open \cup {NumDays}
  BY <1>5, LeastIsMin
<1>7. PlaceDay(items, budget, notBefore) = Min(open \cup {NumDays})
  BY <1>1, <1>3 DEF PlaceDay
<1>8. PlaceDay(items, budget, notBefore) \in start..NumDays
  <2>1. open \cup {NumDays} \subseteq start..NumDays
    BY <1>2, <1>4
  <2> QED
    BY <1>6, <1>7, <2>1
<1>9. Least(notBefore, NumDays) \in Int
  BY DEF Least
<1> QED
  BY <1>2, <1>8, <1>9

LEMMA StudyPositions ==
  ASSUME NEW items \in Seq(PlanItem), NEW s
  PROVE  /\ StudyItems(items, s) \subseteq 1..Len(items)
         /\ IsFiniteSet(StudyItems(items, s))
<1>1. StudyItems(items, s) \subseteq 1..Len(items) /\ Len(items) \in Nat
  BY ItemsTyped DEF StudyItems
<1>2. IsFiniteSet(1..Len(items))
  BY <1>1, FS_Interval
<1> QED
  BY <1>1, <1>2, FS_Subset

(* The last study item of an objective is none of the others' elder.       *)
LEMMA LastStudyIsLast ==
  ASSUME NEW items \in Seq(PlanItem), NEW s, StudyItems(items, s) # {}
  PROVE  /\ LastStudy(items, s) \in StudyItems(items, s)
         /\ \A n \in StudyItems(items, s) : items[n].day <= items[LastStudy(items, s)].day
<1>1. PICK S : S = StudyItems(items, s)
  OBVIOUS
<1>2. IsFiniteSet(S) /\ S # {}
  BY <1>1, StudyPositions
<1>3. \A n \in S : n \in Nat /\ items[n].day \in Int /\ items[n].index \in Int
  <2>1. S \subseteq 1..Len(items) /\ Len(items) \in Nat
    BY <1>1, ItemsTyped, StudyPositions
  <2>2. \A n \in S : items[n] \in PlanItem
    BY <2>1, ItemsTyped
  <2>3. \A n \in S : n \in Nat
    BY <2>1
  <2>4. \A n \in S : items[n].day \in Int /\ items[n].index \in Int
    BY <2>2, ItemFields
  <2> QED
    BY <2>3, <2>4
<1>4. PICK before : before = {nm \in S \X S : LaterStudy(items, nm[2], nm[1]) /\ nm[1] # nm[2]}
  OBVIOUS
<1>5. \A n, m \in S : <<n, m>> \in before <=> LaterStudy(items, m, n) /\ n # m
  BY <1>4
<1>6. StrictOrder(S, before)
  <2>1. \A x \in S : <<x, x>> \notin before
    BY <1>5
  <2>2. ASSUME NEW x \in S, NEW y \in S, NEW z \in S, <<x, y>> \in before, <<y, z>> \in before
        PROVE  <<x, z>> \in before
    <3>1. LaterStudy(items, y, x) /\ x # y /\ LaterStudy(items, z, y) /\ y # z
      BY <1>5, <2>2
    <3>2. LaterStudy(items, z, x) /\ x # z
      <4>1. PICK a \in Int, b \in Int, c \in Int, i \in Int, j \in Int, k \in Int :
              /\ a = items[x].day /\ b = items[y].day /\ c = items[z].day
              /\ i = items[x].index /\ j = items[y].index /\ k = items[z].index
        BY <1>3, Zenon
      <4>2. x \in Nat /\ y \in Nat /\ z \in Nat /\ (x = z => a = c /\ i = k)
        BY <1>3, <4>1, Zenon
      <4>3. /\ b > a \/ (b = a /\ j > i) \/ (b = a /\ j = i /\ y >= x)
            /\ c > b \/ (c = b /\ k > j) \/ (c = b /\ k = j /\ z >= y)
            /\ x # y /\ y # z
        BY <3>1, <4>1, Zenon DEF LaterStudy
      <4>4. (c > a \/ (c = a /\ k > i) \/ (c = a /\ k = i /\ z >= x)) /\ x # z
        BY <4>2, <4>3
      <4> QED
        BY <4>1, <4>4, Zenon DEF LaterStudy
    <3> QED
      BY <1>5, <3>2
  <2>3. ASSUME NEW x \in S, NEW y \in S, x # y
        PROVE  <<x, y>> \in before \/ <<y, x>> \in before
    <3>1. LaterStudy(items, y, x) \/ LaterStudy(items, x, y)
      BY <1>3 DEF LaterStudy
    <3> QED
      BY <1>5, <2>3, <3>1
  <2> QED
    BY <2>1, <2>2, <2>3 DEF StrictOrder
<1>7. PICK a : a = Arranged(S, before)
  OBVIOUS
<1>8. /\ Enumerates(a, S)
      /\ \A i, j \in 1..Cardinality(S) : <<a[i], a[j]>> \in before => i < j
  BY <1>2, <1>6, <1>7, Arranging
<1>9. PICK k \in Nat : k = Cardinality(S) /\ a \in [1..k -> S]
                       /\ \A x \in S : \E i \in 1..k : a[i] = x
  BY <1>8 DEF Enumerates
<1>10. k \in 1..k
  BY <1>2, <1>9
<1>11. ASSUME NEW n \in S PROVE LaterStudy(items, a[k], n)
  <2>1. PICK i \in 1..k : a[i] = n
    BY <1>9
  <2>2. CASE n = a[k]
    BY <1>3, <2>2 DEF LaterStudy
  <2>3. CASE n # a[k]
    <3>1. <<a[k], n>> \notin before
      BY <1>8, <1>9, <1>10, <2>1
    <3>2. a[k] \in S
      BY <1>9, <1>10
    <3>3. <<n, a[k]>> \in before
      BY <1>6, <2>3, <3>1, <3>2 DEF StrictOrder
    <3> QED
      BY <1>5, <3>2, <3>3
  <2> QED
    BY <2>2, <2>3
<1>12. \E m \in S : \A n \in S : LaterStudy(items, m, n)
  BY <1>9, <1>10, <1>11
<1>13. LastStudy(items, s) \in S /\ \A n \in S : LaterStudy(items, LastStudy(items, s), n)
  BY <1>1, <1>12 DEF LastStudy
<1>14. \A n \in S : items[n].day <= items[LastStudy(items, s)].day
  BY <1>3, <1>13 DEF LaterStudy
<1> QED
  BY <1>1, <1>13, <1>14

(* -------------------- G2: what an objective may add ---------------------- *)

Chosen(items, s, cs) == Started(items, s, cs) \cup Startable(items, s, cs)

LEMMA ChosenPositions ==
  ASSUME NEW items \in Seq(PlanItem), NEW s, NEW cs, CandidateFits(cs)
  PROVE  /\ Chosen(items, s, cs) \subseteq DOMAIN cs.resources
         /\ Startable(items, s, cs) \cap Started(items, s, cs) = {}
         /\ \A k \in Started(items, s, cs) :
              /\ StudyTurn(items, s, cs, k) \in StudyItems(items, s)
              /\ StudyTurn(items, s, cs, k) \in 1..Len(items)
              /\ items[StudyTurn(items, s, cs, k)].res = cs.resources[k].id
         /\ \A k \in Startable(items, s, cs) :
              /\ StudyTurn(items, s, cs, k) = Len(items) + k
              /\ \A n \in DOMAIN items : items[n].res = cs.resources[k].id =>
                   \E m \in DOMAIN items : items[m].skill = s /\ items[m].res = cs.resources[k].id
<1>1. Started(items, s, cs) \subseteq DOMAIN cs.resources
  BY DEF Started
<1>2. /\ Startable(items, s, cs) \subseteq DOMAIN cs.resources
      /\ Startable(items, s, cs) \cap Started(items, s, cs) = {}
  BY DEF Startable
<1>3. ASSUME NEW k \in Started(items, s, cs)
      PROVE  /\ StudyTurn(items, s, cs, k) \in StudyItems(items, s)
             /\ StudyTurn(items, s, cs, k) \in 1..Len(items)
             /\ items[StudyTurn(items, s, cs, k)].res = cs.resources[k].id
  <2>1. PICK S : S = StudyOf(items, s, cs.resources[k].id)
    OBVIOUS
  <2>2. S # {} /\ StudyTurn(items, s, cs, k) = Min(S)
    BY <2>1 DEF Started, StudyTurn
  <2>3. S \subseteq StudyItems(items, s) /\ StudyItems(items, s) \subseteq 1..Len(items)
        /\ \A n \in S : items[n].res = cs.resources[k].id
    BY <2>1, StudyPositions DEF StudyOf
  <2>4. Min(S) \in S
    <3>1. Len(items) \in Nat
      BY ItemsTyped
    <3>2. S \in SUBSET Nat
      BY <2>3, <3>1
    <3> QED
      BY <2>2, <3>2, LeastIsMin
  <2> QED
    BY <2>2, <2>3, <2>4
<1>4. ASSUME NEW k \in Startable(items, s, cs)
      PROVE  /\ StudyTurn(items, s, cs, k) = Len(items) + k
             /\ \A n \in DOMAIN items : items[n].res = cs.resources[k].id =>
                  \E m \in DOMAIN items : items[m].skill = s /\ items[m].res = cs.resources[k].id
  <2>1. StudyTurn(items, s, cs, k) = Len(items) + k
    BY <1>2 DEF StudyTurn
  <2>2. cs.resources[k].id \notin {items[n].res : n \in DOMAIN items}
              \ {items[n].res : n \in {m \in DOMAIN items : items[m].skill = s}}
    BY DEF Startable
  <2> QED
    BY <2>1, <2>2
<1> QED
  BY <1>1, <1>2, <1>3, <1>4 DEF Chosen

LEMMA TurnsDiffer ==
  ASSUME NEW items \in Seq(PlanItem), NEW s, NEW cs, CandidateFits(cs)
  PROVE  /\ \A k \in Chosen(items, s, cs) : StudyTurn(items, s, cs, k) \in Nat
         /\ \A j, k \in Chosen(items, s, cs) :
              StudyTurn(items, s, cs, j) = StudyTurn(items, s, cs, k) => j = k
         /\ \A j \in Started(items, s, cs), k \in Startable(items, s, cs) :
              StudyTurn(items, s, cs, j) < StudyTurn(items, s, cs, k)
<1>1. Len(items) \in Nat /\ Len(cs.resources) \in Nat /\ DOMAIN cs.resources = 1..Len(cs.resources)
  BY ItemsTyped DEF CandidateFits
<1>2. \A k \in Started(items, s, cs) :
        StudyTurn(items, s, cs, k) \in 1..Len(items) /\ k \in DOMAIN cs.resources
        /\ items[StudyTurn(items, s, cs, k)].res = cs.resources[k].id
  BY ChosenPositions DEF Chosen
<1>3. \A k \in Startable(items, s, cs) : k \in Nat \ {0} /\ StudyTurn(items, s, cs, k) = Len(items) + k
  <2>1. \A k \in Startable(items, s, cs) : k \in 1..Len(cs.resources)
    BY <1>1, ChosenPositions DEF Chosen
  <2> QED
    BY <1>1, <2>1, ChosenPositions
<1>4. \A j \in Started(items, s, cs), k \in Startable(items, s, cs) :
        StudyTurn(items, s, cs, j) < StudyTurn(items, s, cs, k)
  BY <1>1, <1>2, <1>3
<1>5. \A k \in Chosen(items, s, cs) : StudyTurn(items, s, cs, k) \in Nat
  BY <1>1, <1>2, <1>3 DEF Chosen
<1>6. ASSUME NEW j \in Started(items, s, cs), NEW k \in Started(items, s, cs),
             StudyTurn(items, s, cs, j) = StudyTurn(items, s, cs, k)
      PROVE  j = k
  BY <1>2, <1>6 DEF CandidateFits
<1>7. \A j, k \in Startable(items, s, cs) :
        StudyTurn(items, s, cs, j) = StudyTurn(items, s, cs, k) => j = k
  BY <1>1, <1>3
<1>8. \A j, k \in Chosen(items, s, cs) :
        StudyTurn(items, s, cs, j) = StudyTurn(items, s, cs, k) => j = k
  <2> SUFFICES ASSUME NEW j \in Chosen(items, s, cs), NEW k \in Chosen(items, s, cs),
                      StudyTurn(items, s, cs, j) = StudyTurn(items, s, cs, k)
               PROVE  j = k
    OBVIOUS
  <2>1. ~ (StudyTurn(items, s, cs, j) < StudyTurn(items, s, cs, k))
        /\ ~ (StudyTurn(items, s, cs, k) < StudyTurn(items, s, cs, j))
    BY <1>5
  <2> QED
    BY <1>4, <1>6, <1>7, <2>1 DEF Chosen
<1> QED
  BY <1>4, <1>5, <1>8

LEMMA LeftPairs ==
  ASSUME NEW items, NEW s, NEW cs
  PROVE  \A k, n : <<k, n>> \in SessionsLeft(items, s, cs) <=>
           /\ k \in Chosen(items, s, cs) /\ n \in DOMAIN cs.resources[k].sessions
           /\ ~ Scheduled(items, cs.resources[k].sessions[n])
BY DEF SessionsLeft, Chosen

LEMMA LeftArePairs ==
  ASSUME NEW items, NEW s, NEW cs, NEW x \in SessionsLeft(items, s, cs)
  PROVE  /\ x = <<x[1], x[2]>> /\ x[1] \in Chosen(items, s, cs)
         /\ x[2] \in DOMAIN cs.resources[x[1]].sessions
         /\ ~ Scheduled(items, cs.resources[x[1]].sessions[x[2]])
BY DEF SessionsLeft, Chosen

LEMMA LeftIsFinite ==
  ASSUME NEW items \in Seq(PlanItem), NEW s, NEW cs, CandidateFits(cs)
  PROVE  IsFiniteSet(SessionsLeft(items, s, cs))
<1>1. PICK N \in Nat : N = Len(cs.resources) /\ DOMAIN cs.resources = 1..N
  BY DEF CandidateFits
<1>2. PICK Pairs : Pairs = [k \in 1..N |-> {k} \X DOMAIN cs.resources[k].sessions]
  OBVIOUS
<1>3. ASSUME NEW k \in 1..N PROVE IsFiniteSet(Pairs[k])
  <2>1. PICK M \in Nat : DOMAIN cs.resources[k].sessions = 1..M
    BY <1>1 DEF CandidateFits, OfferFits
  <2>2. IsFiniteSet({k})
    BY FS_Singleton
  <2>3. IsFiniteSet(1..M)
    BY FS_Interval
  <2> QED
    BY <1>2, <2>1, <2>2, <2>3, FS_Product
<1>4. IsFiniteSet({Pairs[k] : k \in 1..N})
  <2>1. PICK T : T = {Pairs[k] : k \in 1..N}
    OBVIOUS
  <2>2. Pairs \in Surjection(1..N, T)
    BY <1>2, <2>1 DEF Surjection
  <2>3. IsFiniteSet(1..N)
    BY FS_Interval
  <2> QED
    BY <2>1, <2>2, <2>3, FS_Surjection
<1>5. IsFiniteSet(UNION {Pairs[k] : k \in 1..N})
  <2>1. \A T \in {Pairs[k] : k \in 1..N} : IsFiniteSet(T)
    BY <1>3
  <2> QED
    BY <1>4, <2>1, FS_UNION
<1>6. SessionsLeft(items, s, cs) \subseteq UNION {Pairs[k] : k \in 1..N}
  <2> SUFFICES ASSUME NEW x \in SessionsLeft(items, s, cs)
               PROVE  \E k \in 1..N : x \in Pairs[k]
    OBVIOUS
  <2>1. x = <<x[1], x[2]>> /\ x[1] \in 1..N /\ x[2] \in DOMAIN cs.resources[x[1]].sessions
    BY <1>1, LeftArePairs, ChosenPositions
  <2>2. x \in Pairs[x[1]]
    BY <1>2, <2>1
  <2> QED
    BY <2>1, <2>2
<1> QED
  BY <1>5, <1>6, FS_Subset

(* The queue holds each session left once, resource by resource, in the    *)
(* order of study.                                                         *)
QueuedAt(at, q, items, s, cs) ==
  /\ Len(q) = Cardinality(SessionsLeft(items, s, cs))
  /\ Len(q) \in Nat /\ DOMAIN q = 1..Len(q)
  /\ at \in [1..Len(q) -> SessionsLeft(items, s, cs)]
  /\ \A j \in 1..Len(q) : q[j] = cs.resources[at[j][1]].sessions[at[j][2]]
  /\ \A x \in SessionsLeft(items, s, cs) : \E j \in 1..Len(q) : at[j] = x
  /\ \A i, j \in 1..Len(q) : i # j => at[i] # at[j]
  /\ \A i, j \in 1..Len(q) : i < j =>
       \/ StudyTurn(items, s, cs, at[i][1]) < StudyTurn(items, s, cs, at[j][1])
       \/ at[i][1] = at[j][1] /\ at[i][2] < at[j][2]

LEMMA QueueOrder ==
  ASSUME NEW items \in Seq(PlanItem), NEW s, NEW cs, CandidateFits(cs)
  PROVE  \E at : QueuedAt(at, ChainQueue(items, s, cs), items, s, cs)
<1>1. PICK S : S = SessionsLeft(items, s, cs)
  OBVIOUS
<1>2. PICK before : before = StudiedBefore(items, s, cs)
  OBVIOUS
<1> DEFINE TurnOf(x) == StudyTurn(items, s, cs, x[1])
           Sooner(x, y) == TurnOf(x) < TurnOf(y) \/ (x[1] = y[1] /\ x[2] < y[2])
<1>3. ASSUME NEW x \in S, NEW y \in S PROVE <<x, y>> \in before <=> Sooner(x, y)
  <2>1. before = {xy \in S \X S : \/ StudyTurn(items, s, cs, xy[1][1]) < StudyTurn(items, s, cs, xy[2][1])
                                  \/ xy[1][1] = xy[2][1] /\ xy[1][2] < xy[2][2]}
    BY <1>1, <1>2 DEF StudiedBefore
  <2>2. PICK xy : xy = <<x, y>>
    OBVIOUS
  <2>3. xy \in S \X S /\ xy[1] = x /\ xy[2] = y
    BY <2>2
  <2>4. xy \in before <=> Sooner(x, y)
    BY <2>1, <2>3
  <2> QED
    BY <2>2, <2>4
<1>4. \A x \in S : TurnOf(x) \in Nat /\ x[2] \in Nat /\ x = <<x[1], x[2]>> /\ x[1] \in Chosen(items, s, cs)
  <2> SUFFICES ASSUME NEW x \in S
               PROVE  TurnOf(x) \in Nat /\ x[2] \in Nat /\ x = <<x[1], x[2]>> /\ x[1] \in Chosen(items, s, cs)
    OBVIOUS
  <2>1. x = <<x[1], x[2]>> /\ x[1] \in Chosen(items, s, cs)
        /\ x[2] \in DOMAIN cs.resources[x[1]].sessions /\ x[1] \in DOMAIN cs.resources
    BY <1>1, LeftArePairs, ChosenPositions
  <2>2. OfferFits(cs.resources[x[1]])
    BY <2>1 DEF CandidateFits
  <2>3. x[2] \in Nat
    BY <2>1, <2>2 DEF OfferFits
  <2> QED
    BY <2>1, <2>3, TurnsDiffer
<1>5. \A x, y \in S : TurnOf(x) = TurnOf(y) => x[1] = y[1]
  BY <1>4, TurnsDiffer
<1> HIDE DEF TurnOf
<1>6. \A x \in S : ~ Sooner(x, x)
  BY <1>4
<1>7. ASSUME NEW x \in S, NEW y \in S, NEW z \in S, Sooner(x, y), Sooner(y, z) PROVE Sooner(x, z)
  <2>1. \A u, v \in S : u[1] = v[1] => TurnOf(u) = TurnOf(v)
    BY DEF TurnOf
  <2> QED
    BY <1>4, <1>7, <2>1
<1>8. ASSUME NEW x \in S, NEW y \in S, x # y PROVE Sooner(x, y) \/ Sooner(y, x)
  <2>1. CASE TurnOf(x) = TurnOf(y)
    <3>1. x[1] = y[1]
      BY <1>5, <2>1
    <3>2. x[2] # y[2]
      BY <1>4, <1>8, <3>1
    <3> QED
      BY <1>4, <3>1, <3>2
  <2>2. CASE TurnOf(x) # TurnOf(y)
    <3>1. TurnOf(x) \in Nat /\ TurnOf(y) \in Nat
      BY <1>4
    <3> QED
      BY <2>2, <3>1
  <2> QED
    BY <2>1, <2>2
<1>9. StrictOrder(S, before)
  BY <1>3, <1>6, <1>7, <1>8 DEF StrictOrder
<1>10. PICK at : at = Arranged(S, before)
  OBVIOUS
<1>11. /\ Enumerates(at, S)
       /\ \A i, j \in 1..Cardinality(S) : <<at[i], at[j]>> \in before => i < j
  BY <1>1, <1>9, <1>10, LeftIsFinite, Arranging
<1>12. PICK k \in Nat : /\ k = Cardinality(S) /\ at \in [1..k -> S]
                        /\ \A i, j \in 1..k : at[i] = at[j] => i = j
                        /\ \A x \in S : \E i \in 1..k : at[i] = x
  BY <1>11 DEF Enumerates
<1>13. PICK f : f = [m \in 1..k |-> cs.resources[at[m][1]].sessions[at[m][2]]]
  OBVIOUS
<1>14. PICK q : q = ChainQueue(items, s, cs)
  OBVIOUS
<1>15. q = [m \in 1..k |-> f[m]]
  BY <1>1, <1>2, <1>10, <1>12, <1>13, <1>14 DEF ChainQueue
<1>16. Len(q) = k /\ DOMAIN q = 1..k
  BY <1>15, LengthOf
<1>17. ASSUME NEW i \in 1..k, NEW j \in 1..k, i < j PROVE Sooner(at[i], at[j])
  <2>1. at[i] \in S /\ at[j] \in S /\ at[i] # at[j]
    BY <1>12, <1>17
  <2>2. <<at[j], at[i]>> \notin before
    BY <1>11, <1>12, <1>17
  <2> QED
    BY <1>3, <1>8, <2>1, <2>2
<1>18. \A i, j \in 1..k : i # j => at[i] # at[j]
  BY <1>12
<1>19. QueuedAt(at, q, items, s, cs)
  BY <1>1, <1>12, <1>13, <1>15, <1>16, <1>17, <1>18 DEF QueuedAt, TurnOf
<1> QED
  BY <1>14, <1>19

(* No session is queued twice, none that the plan has already.             *)
QueueFits(q, items) ==
  /\ Len(q) \in Nat
  /\ \A j \in 1..Len(q) : /\ q[j].res \in Resource /\ q[j].index \in Nat /\ q[j].est \in Int
                          /\ ~ Scheduled(items, q[j])
  /\ \A i, j \in 1..Len(q) : q[i].res = q[j].res /\ q[i].index = q[j].index => i = j

From(r, n, x, items, s, cs) ==
  /\ r \in DOMAIN cs.resources /\ r \in Chosen(items, s, cs) /\ OfferFits(cs.resources[r])
  /\ n \in DOMAIN cs.resources[r].sessions /\ n \in Nat
  /\ x = cs.resources[r].sessions[n] /\ x.res = cs.resources[r].id
  /\ x.res \in Resource /\ x.index \in Nat /\ x.est \in Int
  /\ ~ Scheduled(items, x)

Pulled(p, x, items, s, cs) == p = <<p[1], p[2]>> /\ From(p[1], p[2], x, items, s, cs)
LEMMA QueuedFrom ==
  ASSUME NEW items \in Seq(PlanItem), NEW s, NEW cs, CandidateFits(cs),
         NEW at, NEW q, QueuedAt(at, q, items, s, cs), NEW j \in 1..Len(q)
  PROVE  Pulled(at[j], q[j], items, s, cs)
<1>1. at[j] \in SessionsLeft(items, s, cs) /\ q[j] = cs.resources[at[j][1]].sessions[at[j][2]]
  BY DEF QueuedAt
<1>2. PICK r, n : r = at[j][1] /\ n = at[j][2]
  OBVIOUS
<1>3. /\ at[j] = <<r, n>> /\ r \in Chosen(items, s, cs)
      /\ n \in DOMAIN cs.resources[r].sessions
      /\ ~ Scheduled(items, cs.resources[r].sessions[n])
  BY <1>1, <1>2, LeftArePairs
<1>4. PICK x : x = cs.resources[r].sessions[n]
  OBVIOUS
<1>5. r \in DOMAIN cs.resources
  BY <1>3, ChosenPositions
<1>6. OfferFits(cs.resources[r])
  BY <1>5 DEF CandidateFits
<1>7. /\ n \in Nat /\ x.res = cs.resources[r].id /\ x.res \in Resource
      /\ x.index \in Nat /\ x.est \in Int
  <2>1. PICK o : o = cs.resources[r] /\ OfferFits(o) /\ n \in DOMAIN o.sessions /\ x = o.sessions[n]
    BY <1>3, <1>4, <1>6, Zenon
  <2>2. n \in Nat /\ x.res = o.id /\ x.res \in Resource /\ x.index \in Nat /\ x.est \in Int
    BY <2>1 DEF OfferFits
  <2> QED
    BY <2>1, <2>2, Zenon
<1>8. From(r, n, x, items, s, cs)
  BY <1>3, <1>4, <1>5, <1>6, <1>7 DEF From
<1> QED
  BY <1>1, <1>2, <1>3, <1>4, <1>8, Zenon DEF Pulled

LEMMA QueueHasNoRepeats ==
  ASSUME NEW items \in Seq(PlanItem), NEW s, NEW cs, CandidateFits(cs)
  PROVE  QueueFits(ChainQueue(items, s, cs), items)
<1>1. PICK q : q = ChainQueue(items, s, cs)
  OBVIOUS
<1>2. PICK at : QueuedAt(at, q, items, s, cs)
  BY <1>1, QueueOrder
<1>3. Len(q) \in Nat
  BY <1>2 DEF QueuedAt
<1>4. ASSUME NEW j \in 1..Len(q)
      PROVE  From(at[j][1], at[j][2], q[j], items, s, cs) /\ at[j] = <<at[j][1], at[j][2]>>
  <2>1. Pulled(at[j], q[j], items, s, cs)
    BY <1>2, QueuedFrom
  <2> QED
    BY <2>1, Zenon DEF Pulled
<1>5. \A j \in 1..Len(q) : /\ q[j].res \in Resource /\ q[j].index \in Nat /\ q[j].est \in Int
                           /\ ~ Scheduled(items, q[j])
  BY <1>4 DEF From
<1>6. ASSUME NEW i \in 1..Len(q), NEW j \in 1..Len(q), q[i].res = q[j].res, q[i].index = q[j].index
      PROVE  i = j
  <2>1. PICK r, m : r = at[i][1] /\ m = at[i][2] /\ at[i] = <<r, m>> /\ From(r, m, q[i], items, s, cs)
    BY <1>4
  <2>2. PICK u, n : u = at[j][1] /\ n = at[j][2] /\ at[j] = <<u, n>> /\ From(u, n, q[j], items, s, cs)
    BY <1>4
  <2>3. r = u
    BY <1>6, <2>1, <2>2, Zenon DEF From, CandidateFits
  <2>4. PICK w : w = cs.resources[r].sessions
    OBVIOUS
  <2>5. \A a, b \in DOMAIN w : a < b => w[a].index < w[b].index
    BY <2>1, <2>4, Zenon DEF From, OfferFits
  <2>6. /\ m \in DOMAIN w /\ n \in DOMAIN w /\ m \in Nat /\ n \in Nat
        /\ w[m].index = w[n].index /\ w[m].index \in Nat
    BY <1>6, <2>1, <2>2, <2>3, <2>4, Zenon DEF From
  <2>7. m = n
    <3>1. ~ (m < n)
      BY <2>5, <2>6
    <3>2. ~ (n < m)
      BY <2>5, <2>6
    <3> QED
      BY <2>6, <3>1, <3>2
  <2>8. at[i] = at[j]
    BY <2>1, <2>2, <2>3, <2>7
  <2> QED
    BY <1>2, <2>8 DEF QueuedAt
<1> QED
  BY <1>1, <1>3, <1>5, <1>6 DEF QueueFits

(* ------------------------- G2: the top-up, turn by turn ------------------ *)

Continues(i, s, cs, x) ==
  /\ i.type = "resource" /\ i.skill = s /\ i.bank = 0
  /\ i.res = x.res /\ i.index = x.index /\ i.est = x.est
  /\ i.difficulty = DifficultyFor(cs) /\ i.day \in 1..NumDays

Queues(old, candidates) == [s \in Chains(old, candidates) |-> ChainQueue(old, s, candidates[s])]
Added(old, items) == (Len(old) + 1)..Len(items)
TopUpStates(old, candidates) ==
  [items : Seq(PlanItem), taken : [Chains(old, candidates) -> Nat],
   exhausted : SUBSET Chains(old, candidates), queue : {Queues(old, candidates)},
   last : [Chains(old, candidates) -> Nat]]

(* What a turn keeps true.  The old items stand, and the target is not     *)
(* passed; an item that was added is the nth of its chain, and these come  *)
(* in the order of the queue, none on an earlier day than a study item of  *)
(* its objective before it.                                                *)
OldStands(st, old, budget) ==
  /\ Len(old) <= Len(st.items)
  /\ \A k \in 1..Len(old) : st.items[k] = old[k]
  /\ Len(old) < Len(st.items) => ~ OverTarget(Minutes(st.items), budget)
NthOfChain(i, n, st, old, candidates) ==
  /\ i.skill \in Chains(old, candidates)
  /\ n \in 1..st.taken[i.skill]
  /\ Continues(i, i.skill, candidates[i.skill], st.queue[i.skill][n])
ChainsContinue(st, nth, old, candidates) ==
  /\ \A s \in Chains(old, candidates) : st.taken[s] <= Len(st.queue[s])
  /\ \A k \in Added(old, st.items) : NthOfChain(st.items[k], nth[k], st, old, candidates)
  /\ \A s \in Chains(old, candidates) : \A n \in 1..st.taken[s] :
       \E k \in Added(old, st.items) : st.items[k].skill = s /\ nth[k] = n
  /\ \A k, l \in Added(old, st.items) :
       st.items[k].skill = st.items[l].skill /\ k < l => nth[k] < nth[l]
DaysGoOn(st, old, candidates) ==
  /\ \A s \in Chains(old, candidates) :
       /\ st.last[s] \in StudyItems(st.items, s)
       /\ \A m \in StudyItems(st.items, s) :
            Least(st.items[m].day, NumDays) <= Least(st.items[st.last[s]].day, NumDays)
  /\ \A l \in Added(old, st.items) : \A m \in StudyItems(st.items, st.items[l].skill) :
       m < l => Least(st.items[m].day, NumDays) <= st.items[l].day
ToppedUp(st, nth, old, candidates, budget) ==
  /\ st \in TopUpStates(old, candidates)
  /\ OldStands(st, old, budget)
  /\ ChainsContinue(st, nth, old, candidates)
  /\ DaysGoOn(st, old, candidates)

(* An objective that ends its chain changes nothing else.                  *)
LEMMA ChainEnds ==
  ASSUME NEW old, NEW candidates, NEW budget, NEW st, NEW nth, ToppedUp(st, nth, old, candidates, budget),
         NEW s \in Chains(old, candidates)
  PROVE  ToppedUp([st EXCEPT !.exhausted = @ \cup {s}], nth, old, candidates, budget)
<1>1. PICK new : new = [st EXCEPT !.exhausted = @ \cup {s}]
  OBVIOUS
<1>2. /\ new \in TopUpStates(old, candidates)
      /\ new.items = st.items /\ new.taken = st.taken /\ new.queue = st.queue /\ new.last = st.last
  BY <1>1 DEF ToppedUp, TopUpStates
<1>3. OldStands(new, old, budget)
  BY <1>2 DEF ToppedUp, OldStands
<1>4. ChainsContinue(new, nth, old, candidates)
  BY <1>2 DEF ToppedUp, ChainsContinue, NthOfChain
<1>5. DaysGoOn(new, old, candidates)
  BY <1>2 DEF ToppedUp, DaysGoOn
<1> QED
  BY <1>1, <1>2, <1>3, <1>4, <1>5 DEF ToppedUp

(* The item of a session.                                                  *)
SessionFits(i, s, cs, x, day, dep) ==
  i \in PlanItem /\ Continues(i, s, cs, x) /\ i.day = day /\ i.dep = dep /\ i.res # NoResource
LEMMA SessionItemContinues ==
  ASSUME NEW s \in Skill, NEW cs, CandidateFits(cs), NEW x, x.res \in Resource, x.index \in Nat,
         x.est \in Int, NEW day \in 1..NumDays, NEW dep \in Nat,
         NEW i, i = SessionItem(s, cs, x, day, dep)
  PROVE  SessionFits(i, s, cs, x, day, dep)
<1>1. DifficultyFor(cs) \in Int
  <2>1. cs.target \in Int /\ cs.current + 1 \in Int
    BY DEF CandidateFits
  <2>2. PICK reach \in Int : reach = Least(cs.target, cs.current + 1)
    BY <2>1 DEF Least
  <2>3. 1 \in Int
    OBVIOUS
  <2>4. Max({1, reach}) \in {1, reach}
    BY <2>2, <2>3, LargerOf, Zenon
  <2> QED
    BY <2>2, <2>3, <2>4 DEF DifficultyFor
<1>2. day \in Int
  BY DEF NumDays
<1>3. i \in PlanItem
  BY <1>1, <1>2 DEF SessionItem, PlanItem, ItemType
<1> QED
  BY <1>3, ResourceAssumption DEF SessionItem, Continues, SessionFits

LEMMA ReachOfDifficulty ==
  ASSUME NEW cs, CandidateFits(cs)
  PROVE  DifficultyFor(cs) <= cs.current + 1
<1>1. cs.target \in Int /\ cs.current + 1 \in Int /\ cs.current + 1 >= 1
  BY DEF CandidateFits
<1>2. PICK x \in Int : x = Least(cs.target, cs.current + 1) /\ x <= cs.current + 1
  BY <1>1 DEF Least
<1>3. Max({1, x}) \in {1, x}
  BY LargerOf
<1> QED
  BY <1>1, <1>2, <1>3 DEF DifficultyFor

(* A study item more is one more of its objective's only.                  *)
StudyGrown(more, items, x, t) ==
  /\ x.skill = t /\ x.type = "resource" /\ x.res # NoResource
       => StudyItems(more, t) = StudyItems(items, t) \cup {Len(items) + 1}
  /\ ~ (x.skill = t /\ x.type = "resource" /\ x.res # NoResource)
       => StudyItems(more, t) = StudyItems(items, t)
LEMMA StudyAppended ==
  ASSUME NEW items \in Seq(PlanItem), NEW x \in PlanItem, NEW more, more = Append(items, x),
         NEW t
  PROVE  StudyGrown(more, items, x, t)
<1>1. PICK N \in Nat : N = Len(items) /\ DOMAIN items = 1..N
  BY ItemsTyped
<1>2. DOMAIN more = 1..(N + 1) /\ (\A n \in 1..N : more[n] = items[n]) /\ more[N + 1] = x
  <2>1. Grown(more, items, x)
    BY ItemsAppended
  <2> QED
    BY <1>1, <2>1 DEF Grown
<1>3. 1..(N + 1) = (1..N) \cup {N + 1} /\ N + 1 \notin 1..N
  OBVIOUS
<1> QED
  BY <1>1, <1>2, <1>3 DEF StudyItems, StudyGrown

(* A turn that adds the next session of its chain.                         *)
NextOfChain(x, day, i, s, st, candidates, budget) ==
  /\ st.taken[s] # Len(st.queue[s]) /\ x = st.queue[s][st.taken[s] + 1]
  /\ ~ OverTarget(Minutes(st.items) + x.est, budget)
  /\ day = PlaceDay(st.items, budget, st.items[st.last[s]].day)
  /\ i = SessionItem(s, candidates[s], x, day, st.last[s])
ChainExtended(new, st, s, i) ==
  new = [st EXCEPT !.items = Append(@, i), !.taken[s] = @ + 1, !.last[s] = Len(st.items) + 1]
LEMMA ChainGoesOn ==
  ASSUME NEW old \in Seq(PlanItem), NEW candidates, NEW level, CandsFit(candidates, level),
         NEW budget \in Nat, NEW st, NEW nth, ToppedUp(st, nth, old, candidates, budget),
         NEW s \in Chains(old, candidates),
         NEW x, NEW day, NEW i, NextOfChain(x, day, i, s, st, candidates, budget),
         NEW new, ChainExtended(new, st, s, i)
  PROVE  \E other : ToppedUp(new, other, old, candidates, budget)
<1>1. /\ st.items \in Seq(PlanItem) /\ st.taken \in [Chains(old, candidates) -> Nat]
      /\ st.exhausted \in SUBSET Chains(old, candidates) /\ st.queue = Queues(old, candidates)
      /\ st.last \in [Chains(old, candidates) -> Nat] /\ st \in TopUpStates(old, candidates)
  BY DEF ToppedUp, TopUpStates
<1>2. PICK items : items = st.items
  OBVIOUS
<1>3. PICK N \in Nat : N = Len(items) /\ items \in Seq(PlanItem)
  BY <1>1, <1>2, ItemsTyped
<1>4. PICK M \in Nat : M = Len(old)
  BY ItemsTyped
<1>5. s \in DOMAIN candidates /\ s \in Skill /\ CandidateFits(candidates[s])
  BY DEF Chains, CandsFit
<1>6. QueueFits(st.queue[s], old)
  <2>1. st.queue[s] = ChainQueue(old, s, candidates[s])
    BY <1>1 DEF Queues
  <2> QED
    BY <1>5, <2>1, QueueHasNoRepeats
<1>7. PICK t \in Nat : t = st.taken[s] /\ t + 1 \in 1..Len(st.queue[s]) /\ t < Len(st.queue[s])
  <2>1. st.taken[s] \in Nat /\ Len(st.queue[s]) \in Nat /\ st.taken[s] <= Len(st.queue[s])
    BY <1>1, <1>6 DEF QueueFits, ToppedUp, ChainsContinue
  <2>2. st.taken[s] # Len(st.queue[s])
    BY DEF NextOfChain
  <2> QED
    BY <2>1, <2>2
<1>8. x.res \in Resource /\ x.index \in Nat /\ x.est \in Int
  <2>1. x = st.queue[s][t + 1]
    BY <1>7 DEF NextOfChain
  <2> QED
    BY <1>6, <1>7, <2>1 DEF QueueFits
<1>9. st.last[s] \in StudyItems(items, s) /\ st.last[s] \in Nat
  BY <1>1, <1>2 DEF ToppedUp, DaysGoOn
<1>10. /\ \A n \in 1..N : n \in Nat /\ items[n] \in PlanItem /\ items[n].day \in Int
       /\ \A u : StudyItems(items, u) \subseteq 1..N
  <2>1. \A n \in 1..N : n \in Nat /\ items[n] \in PlanItem
    BY <1>3, ItemsTyped
  <2> QED
    BY <1>3, <2>1, ItemFields, StudyPositions
<1>11. day \in 1..NumDays /\ Least(items[st.last[s]].day, NumDays) <= day
  <2>1. items[st.last[s]].day \in Int
    BY <1>9, <1>10
  <2>2. day = PlaceDay(items, budget, items[st.last[s]].day)
    BY <1>2 DEF NextOfChain
  <2> QED
    BY <2>1, <2>2, DayPlaced
<1>12. i \in PlanItem /\ Continues(i, s, candidates[s], x) /\ i.day = day /\ i.res # NoResource
  <2>0. PICK cs : cs = candidates[s]
    OBVIOUS
  <2>1. PICK prev \in Nat : prev = st.last[s]
    BY <1>9
  <2>2. CandidateFits(cs) /\ i = SessionItem(s, cs, x, day, prev)
    BY <1>5, <2>0, <2>1 DEF NextOfChain
  <2>3. s \in Skill /\ day \in 1..NumDays
    BY <1>5, <1>11
  <2>4. SessionFits(i, s, cs, x, day, prev)
    BY <1>8, <2>1, <2>2, <2>3, SessionItemContinues
  <2> QED
    BY <2>0, <2>4 DEF SessionFits
<1>13. PICK more : more = Append(items, i)
  OBVIOUS
<1>14. /\ more \in Seq(PlanItem) /\ Len(more) = N + 1
       /\ \A n \in 1..N : more[n] = items[n]
       /\ more[N + 1] = i
       /\ Minutes(more) = Minutes(items) + i.est
  <2>1. items \in Seq(PlanItem) /\ i \in PlanItem
    BY <1>3, <1>12
  <2>2. Grown(more, items, i)
    BY <1>13, <2>1, ItemsAppended
  <2> QED
    BY <1>3, <2>2 DEF Grown
<1>15. /\ new.items = more /\ new.queue = st.queue /\ new.exhausted = st.exhausted
       /\ new.taken = [st.taken EXCEPT ![s] = t + 1]
       /\ new.last = [st.last EXCEPT ![s] = N + 1]
       /\ new = [items |-> new.items, taken |-> new.taken, exhausted |-> new.exhausted,
                 queue |-> new.queue, last |-> new.last]
  BY <1>1, <1>2, <1>3, <1>7, <1>13 DEF TopUpStates, ChainExtended
<1>16. /\ new.taken \in [Chains(old, candidates) -> Nat] /\ new.last \in [Chains(old, candidates) -> Nat]
       /\ new.taken[s] = t + 1 /\ new.last[s] = N + 1
       /\ \A u \in Chains(old, candidates) \ {s} : new.taken[u] = st.taken[u] /\ new.last[u] = st.last[u]
  <2>1. st.taken \in [Chains(old, candidates) -> Nat] /\ st.last \in [Chains(old, candidates) -> Nat]
        /\ t + 1 \in Nat /\ N + 1 \in Nat
    BY <1>1, <1>3, <1>7
  <2>2. new.taken = [st.taken EXCEPT ![s] = t + 1] /\ new.last = [st.last EXCEPT ![s] = N + 1]
    BY <1>15
  <2> QED
    BY <2>1, <2>2
<1>17. new \in TopUpStates(old, candidates)
  BY <1>1, <1>14, <1>15, <1>16 DEF TopUpStates
<1>18. M <= N /\ OldStands(new, old, budget)
  <2>1. M <= N /\ \A k \in 1..M : items[k] = old[k]
    BY <1>2, <1>3, <1>4 DEF ToppedUp, OldStands
  <2>2. M <= N + 1 /\ \A k \in 1..M : k \in 1..N /\ more[k] = old[k]
    BY <1>14, <2>1
  <2>3. ~ OverTarget(Minutes(more), budget)
    <3>1. ~ OverTarget(Minutes(items) + x.est, budget)
      BY <1>2 DEF NextOfChain
    <3> QED
      BY <1>12, <1>14, <3>1 DEF Continues
  <2> QED
    BY <1>4, <1>14, <1>15, <2>1, <2>2, <2>3 DEF OldStands
<1>19. /\ Added(old, items) = (M + 1)..N /\ Added(old, more) = (M + 1)..(N + 1)
       /\ \A k \in Added(old, more) : k \in Nat /\ (k \in Added(old, items) \/ k = N + 1)
       /\ Added(old, items) \subseteq Added(old, more) /\ N + 1 \in Added(old, more) /\ N + 1 \notin Added(old, items)
       /\ \A k \in Added(old, items) : k \in 1..N /\ k < N + 1
  <2>1. Added(old, items) = (M + 1)..N /\ Added(old, more) = (M + 1)..(N + 1)
    BY <1>3, <1>4, <1>14 DEF Added
  <2>2. M \in Nat /\ N \in Nat /\ M <= N
    BY <1>3, <1>4, <1>18
  <2> QED
    BY <2>1, <2>2
<1>20. PICK other : other = [k \in Added(old, more) |-> IF k \in Added(old, items) THEN nth[k] ELSE t + 1]
  OBVIOUS
<1>21. /\ other[N + 1] = t + 1
       /\ \A k \in Added(old, items) : other[k] = nth[k] /\ k \in 1..N /\ more[k] = items[k]
  <2>1. other[N + 1] = t + 1
    BY <1>19, <1>20
  <2>2. \A k \in Added(old, items) : other[k] = nth[k]
    BY <1>19, <1>20
  <2> QED
    BY <1>14, <1>19, <2>1, <2>2
<1>22. ChainsContinue(new, other, old, candidates)
  <2>1. \A u \in Chains(old, candidates) : new.taken[u] <= Len(new.queue[u])
    <3>1. \A u \in Chains(old, candidates) : st.taken[u] <= Len(st.queue[u])
      BY DEF ToppedUp, ChainsContinue
    <3>2. t + 1 <= Len(st.queue[s])
      BY <1>7
    <3>3. new.queue = st.queue
      BY <1>15
    <3>4. ASSUME NEW u \in Chains(old, candidates) PROVE new.taken[u] <= Len(new.queue[u])
      <4>1. CASE u = s
        BY <1>16, <3>2, <3>3, <4>1
      <4>2. CASE u # s
        BY <1>16, <3>1, <3>3, <4>2
      <4> QED
        BY <4>1, <4>2
    <3> QED
      BY <3>4
  <2>2. \A u \in Chains(old, candidates) : st.taken[u] \in Nat /\ 1..st.taken[u] \subseteq 1..new.taken[u]
    <3>1. 1..t \subseteq 1..(t + 1)
      BY <1>7
    <3>2. ASSUME NEW u \in Chains(old, candidates) PROVE 1..st.taken[u] \subseteq 1..new.taken[u]
      <4>1. CASE u = s
        BY <1>7, <1>16, <3>1, <4>1
      <4>2. CASE u # s
        <5>1. new.taken[u] = st.taken[u]
          BY <1>16, <4>2
        <5> QED
          BY <5>1
      <4> QED
        BY <4>1, <4>2
    <3>3. \A u \in Chains(old, candidates) : st.taken[u] \in Nat
      BY <1>1
    <3> QED
      BY <3>2, <3>3
  <2>3. ASSUME NEW k \in Added(old, more) PROVE NthOfChain(more[k], other[k], new, old, candidates)
    <3>1. CASE k \in Added(old, items)
      <4>1. NthOfChain(items[k], nth[k], st, old, candidates)
        BY <1>2, <3>1 DEF ToppedUp, ChainsContinue
      <4>2. more[k] = items[k] /\ other[k] = nth[k]
        BY <1>21, <3>1
      <4> QED
        BY <1>15, <2>2, <4>1, <4>2 DEF NthOfChain
    <3>2. CASE k = N + 1
      <4>1. more[k] = i /\ other[k] = t + 1 /\ i.skill = s
        BY <1>12, <1>14, <1>21, <3>2 DEF Continues
      <4>2. t + 1 \in 1..new.taken[s] /\ new.queue[s][t + 1] = x
        <5>1. t + 1 \in 1..(t + 1)
          BY <1>7
        <5>2. x = st.queue[s][t + 1]
          BY <1>7 DEF NextOfChain
        <5> QED
          BY <1>15, <1>16, <5>1, <5>2
      <4> QED
        BY <1>12, <4>1, <4>2 DEF NthOfChain
    <3> QED
      BY <1>19, <3>1, <3>2
  <2>4. ASSUME NEW u \in Chains(old, candidates), NEW n \in 1..new.taken[u]
        PROVE  \E k \in Added(old, more) : more[k].skill = u /\ other[k] = n
    <3>1. CASE n \in 1..st.taken[u]
      <4>1. PICK k \in Added(old, items) : items[k].skill = u /\ nth[k] = n
        BY <1>2, <3>1 DEF ToppedUp, ChainsContinue
      <4> QED
        BY <1>19, <1>21, <4>1
    <3>2. CASE n \notin 1..st.taken[u]
      <4>1. u = s /\ n = t + 1
        <5>1. u = s
          <6>1. u # s => new.taken[u] = st.taken[u]
            BY <1>16
          <6> QED
            BY <3>2, <6>1
        <5>2. n \in 1..(t + 1) /\ n \notin 1..t
          BY <1>7, <1>16, <3>2, <5>1
        <5> QED
          BY <1>7, <5>1, <5>2
      <4>2. more[N + 1].skill = s
        BY <1>12, <1>14 DEF Continues
      <4> QED
        BY <1>19, <1>21, <4>1, <4>2
    <3> QED
      BY <3>1, <3>2
  <2>5. ASSUME NEW k \in Added(old, more), NEW l \in Added(old, more), more[k].skill = more[l].skill, k < l
        PROVE  other[k] < other[l]
    <3>1. k \in Added(old, items)
      BY <1>19, <2>5
    <3>2. CASE l \in Added(old, items)
      <4>1. items[k].skill = items[l].skill /\ other[k] = nth[k] /\ other[l] = nth[l]
        BY <1>21, <2>5, <3>1, <3>2
      <4> QED
        BY <1>2, <2>5, <3>1, <3>2, <4>1 DEF ToppedUp, ChainsContinue
    <3>3. CASE l = N + 1
      <4>1. items[k].skill = s /\ other[l] = t + 1 /\ other[k] = nth[k]
        BY <1>12, <1>14, <1>21, <2>5, <3>1, <3>3 DEF Continues
      <4>2. nth[k] \in 1..t
        BY <1>2, <1>7, <3>1, <4>1 DEF ToppedUp, ChainsContinue, NthOfChain
      <4> QED
        BY <1>7, <4>1, <4>2
    <3> QED
      BY <1>19, <3>2, <3>3
  <2>6. new.items = more
    BY <1>15
  <2>7. \A k \in Added(old, new.items) : NthOfChain(new.items[k], other[k], new, old, candidates)
    BY <2>3, <2>6
  <2>8. \A u \in Chains(old, candidates) : \A n \in 1..new.taken[u] :
          \E k \in Added(old, new.items) : new.items[k].skill = u /\ other[k] = n
    <3> SUFFICES ASSUME NEW u \in Chains(old, candidates), NEW n \in 1..new.taken[u]
                 PROVE  \E k \in Added(old, new.items) : new.items[k].skill = u /\ other[k] = n
      OBVIOUS
    <3>1. PICK k \in Added(old, more) : more[k].skill = u /\ other[k] = n
      BY <2>4
    <3> QED
      BY <2>6, <3>1
  <2>9. \A k, l \in Added(old, new.items) :
          new.items[k].skill = new.items[l].skill /\ k < l => other[k] < other[l]
    BY <2>5, <2>6
  <2> QED
    BY <2>1, <2>7, <2>8, <2>9, Zenon DEF ChainsContinue
<1>23. /\ StudyItems(more, s) = StudyItems(items, s) \cup {N + 1}
       /\ \A u : u # s => StudyItems(more, u) = StudyItems(items, u)
  <2>1. i.skill = s /\ i.type = "resource" /\ i.res # NoResource
    BY <1>12 DEF Continues
  <2>2. items \in Seq(PlanItem) /\ i \in PlanItem /\ N = Len(items)
    BY <1>3, <1>12
  <2>3. StudyItems(more, s) = StudyItems(items, s) \cup {N + 1}
    <3>1. StudyGrown(more, items, i, s)
      BY <1>13, <2>2, StudyAppended
    <3> QED
      BY <2>1, <2>2, <3>1 DEF StudyGrown
  <2>4. ASSUME NEW u, u # s PROVE StudyItems(more, u) = StudyItems(items, u)
    <3>1. StudyGrown(more, items, i, u)
      BY <1>13, <2>2, StudyAppended
    <3> QED
      BY <2>1, <2>4, <3>1 DEF StudyGrown
  <2> QED
    BY <2>3, <2>4
<1>24. Least(day, NumDays) = day /\ day \in Nat /\ \A n \in 1..N : Least(items[n].day, NumDays) \in Int
  BY <1>10, <1>11 DEF Least, NumDays
<1>25. \A m \in StudyItems(items, s) : m \in 1..N /\ Least(items[m].day, NumDays) <= day
  <2>1. ASSUME NEW m \in StudyItems(items, s) PROVE m \in 1..N /\ Least(items[m].day, NumDays) <= day
    <3>1. Least(items[m].day, NumDays) <= Least(items[st.last[s]].day, NumDays)
      BY <1>2 DEF ToppedUp, DaysGoOn
    <3>2. m \in 1..N /\ st.last[s] \in 1..N
      BY <1>9, <1>10
    <3>3. Least(items[m].day, NumDays) \in Int /\ Least(items[st.last[s]].day, NumDays) \in Int
      BY <1>24, <3>2
    <3>4. day \in Int /\ Least(items[st.last[s]].day, NumDays) <= day
      BY <1>11, <1>24
    <3> QED
      BY <3>1, <3>2, <3>3, <3>4
  <2> QED
    BY <2>1
<1>26. DaysGoOn(new, old, candidates)
  <2>1. ASSUME NEW u \in Chains(old, candidates), u # s
        PROVE  /\ new.last[u] \in StudyItems(more, u)
               /\ \A m \in StudyItems(more, u) :
                    Least(more[m].day, NumDays) <= Least(more[new.last[u]].day, NumDays)
    <3>1. new.last[u] = st.last[u] /\ StudyItems(more, u) = StudyItems(items, u)
          /\ st.last[u] \in StudyItems(items, u)
      BY <1>2, <1>16, <1>23, <2>1 DEF ToppedUp, DaysGoOn
    <3>2. \A m \in StudyItems(items, u) : m \in 1..N /\ more[m] = items[m]
      BY <1>10, <1>14
    <3>3. \A m \in StudyItems(items, u) :
            Least(items[m].day, NumDays) <= Least(items[st.last[u]].day, NumDays)
      BY <1>2 DEF ToppedUp, DaysGoOn
    <3> QED
      BY <3>1, <3>2, <3>3
  <2>2. /\ new.last[s] \in StudyItems(more, s)
        /\ \A m \in StudyItems(more, s) :
             Least(more[m].day, NumDays) <= Least(more[new.last[s]].day, NumDays)
    <3>1. new.last[s] = N + 1 /\ more[N + 1].day = day
      BY <1>12, <1>14, <1>16
    <3>2. \A m \in StudyItems(items, s) : more[m] = items[m]
      BY <1>10, <1>14
    <3>3. ASSUME NEW m \in StudyItems(more, s) PROVE Least(more[m].day, NumDays) <= day
      <4>1. CASE m \in StudyItems(items, s)
        BY <1>25, <3>2, <4>1
      <4>2. CASE m = N + 1
        BY <1>24, <3>1, <4>2
      <4> QED
        BY <1>23, <4>1, <4>2
    <3> QED
      BY <1>23, <1>24, <3>1, <3>3
  <2>3. ASSUME NEW l \in Added(old, more), NEW m \in StudyItems(more, more[l].skill), m < l
        PROVE  Least(more[m].day, NumDays) <= more[l].day
    <3>1. CASE l \in Added(old, items)
      <4>1. more[l] = items[l] /\ l \in 1..N
        BY <1>21, <3>1
      <4>2. m \in StudyItems(items, items[l].skill) /\ m \in 1..N
        BY <1>10, <1>23, <2>3, <4>1
      <4>3. Least(items[m].day, NumDays) <= items[l].day
        BY <1>2, <2>3, <3>1, <4>2 DEF ToppedUp, DaysGoOn
      <4> QED
        BY <1>14, <4>1, <4>2, <4>3
    <3>2. CASE l = N + 1
      <4>1. more[l] = i /\ i.skill = s /\ i.day = day
        BY <1>12, <1>14, <3>2 DEF Continues
      <4>2. m \in StudyItems(items, s) /\ m \in 1..N
        <5>1. m \in StudyItems(items, s) \cup {N + 1}
          BY <1>23, <2>3, <4>1
        <5>2. m # N + 1
          BY <1>3, <2>3, <3>2
        <5> QED
          BY <1>25, <5>1, <5>2
      <4> QED
        BY <1>14, <1>25, <4>1, <4>2
    <3> QED
      BY <1>19, <3>1, <3>2
  <2> QED
    BY <1>15, <2>1, <2>2, <2>3 DEF DaysGoOn
<1> QED
  BY <1>17, <1>18, <1>22, <1>26 DEF ToppedUp

(* Whatever a turn does, the top-up stays what it is.                      *)
LEMMA TurnKeepsTopUp ==
  ASSUME NEW old \in Seq(PlanItem), NEW candidates, NEW level, CandsFit(candidates, level),
         NEW budget \in Nat, NEW st, NEW nth, ToppedUp(st, nth, old, candidates, budget),
         NEW s \in Chains(old, candidates)
  PROVE  \E other : ToppedUp(TopUpTurn(st, s, candidates, budget), other, old, candidates, budget)
<1>1. PICK x : x = st.queue[s][st.taken[s] + 1]
  OBVIOUS
<1>2. PICK day : day = PlaceDay(st.items, budget, st.items[st.last[s]].day)
  OBVIOUS
<1>3. PICK i : i = SessionItem(s, candidates[s], x, day, st.last[s])
  OBVIOUS
<1>4. PICK new : new = [st EXCEPT !.items = Append(@, i), !.taken[s] = @ + 1,
                                  !.last[s] = Len(st.items) + 1]
  OBVIOUS
<1>5. PICK after : after = TopUpTurn(st, s, candidates, budget)
  OBVIOUS
<1>6. \/ after = st
      \/ after = [st EXCEPT !.exhausted = @ \cup {s}]
      \/ /\ st.taken[s] # Len(st.queue[s]) /\ ~ OverTarget(Minutes(st.items) + x.est, budget)
         /\ after = new
  BY <1>1, <1>2, <1>3, <1>4, <1>5, Zenon DEF TopUpTurn
<1>7. CASE after = st
  BY <1>5, <1>7
<1>8. CASE after = [st EXCEPT !.exhausted = @ \cup {s}]
  <2>1. ToppedUp([st EXCEPT !.exhausted = @ \cup {s}], nth, old, candidates, budget)
    BY ChainEnds
  <2> QED
    BY <1>5, <1>8, <2>1
<1>9. CASE /\ st.taken[s] # Len(st.queue[s]) /\ ~ OverTarget(Minutes(st.items) + x.est, budget)
           /\ after = new
  <2>1. \E other : ToppedUp(new, other, old, candidates, budget)
    <3>1. NextOfChain(x, day, i, s, st, candidates, budget) /\ ChainExtended(new, st, s, i)
      BY <1>1, <1>2, <1>3, <1>4, <1>9 DEF NextOfChain, ChainExtended
    <3> QED
      BY <3>1, ChainGoesOn
  <2> QED
    BY <1>5, <1>9, <2>1
<1> QED
  BY <1>6, <1>7, <1>8, <1>9

(* Before the first turn nothing is added.                                 *)
TopUpStart(old, candidates) ==
  [items |-> old, taken |-> [s \in Chains(old, candidates) |-> 0], exhausted |-> {},
   queue |-> Queues(old, candidates),
   last  |-> [s \in Chains(old, candidates) |-> LastStudy(old, s)]]
LEMMA TopUpStarts ==
  ASSUME NEW old \in Seq(PlanItem), NEW candidates, NEW level, CandsFit(candidates, level),
         NEW budget \in Nat
  PROVE  \E nth : ToppedUp(TopUpStart(old, candidates), nth, old, candidates, budget)
<1>1. PICK st : st = TopUpStart(old, candidates)
  OBVIOUS
<1>2. /\ st.items = old /\ st.taken = [s \in Chains(old, candidates) |-> 0] /\ st.exhausted = {}
      /\ st.queue = Queues(old, candidates)
      /\ st.last = [s \in Chains(old, candidates) |-> LastStudy(old, s)]
      /\ st = [items |-> st.items, taken |-> st.taken, exhausted |-> st.exhausted,
               queue |-> st.queue, last |-> st.last]
  BY <1>1 DEF TopUpStart
<1>3. PICK N \in Nat : N = Len(old)
  BY ItemsTyped
<1>4. Added(old, old) = {}
  BY <1>3 DEF Added
<1>5. ASSUME NEW s \in Chains(old, candidates)
      PROVE  /\ st.last[s] \in StudyItems(old, s) /\ st.last[s] \in Nat
             /\ \A n \in StudyItems(old, s) : Least(old[n].day, NumDays) <= Least(old[st.last[s]].day, NumDays)
             /\ Len(st.queue[s]) \in Nat
  <2>1. PICK last : last = LastStudy(old, s) /\ last = st.last[s]
    BY <1>2
  <2>2. StudyItems(old, s) # {}
    BY DEF Chains
  <2>3. last \in StudyItems(old, s) /\ \A n \in StudyItems(old, s) : old[n].day <= old[last].day
    BY <2>1, <2>2, LastStudyIsLast
  <2>4. StudyItems(old, s) \subseteq 1..N /\ \A n \in 1..N : old[n] \in PlanItem
    BY <1>3, StudyPositions, ItemsTyped
  <2>5. \A n \in StudyItems(old, s) : old[n].day \in Int /\ n \in Nat
    <3>1. \A n \in StudyItems(old, s) : old[n] \in PlanItem
      BY <2>4
    <3>2. \A n \in StudyItems(old, s) : n \in Nat
      BY <1>3, <2>4
    <3> QED
      BY <3>1, <3>2, ItemFields
  <2>6. \A a, b \in Int : a <= b => Least(a, NumDays) <= Least(b, NumDays)
    BY DEF Least, NumDays
  <2>7. QueueFits(ChainQueue(old, s, candidates[s]), old)
    <3>1. CandidateFits(candidates[s])
      BY DEF Chains, CandsFit
    <3> QED
      BY <3>1, QueueHasNoRepeats
  <2>8. Len(st.queue[s]) \in Nat
    BY <1>2, <2>7 DEF Queues, QueueFits
  <2> QED
    BY <2>1, <2>3, <2>5, <2>6, <2>8
<1>6. st \in TopUpStates(old, candidates)
  <2>1. st.last \in [Chains(old, candidates) -> Nat]
    BY <1>2, <1>5
  <2>2. st.taken \in [Chains(old, candidates) -> Nat]
    BY <1>2
  <2> QED
    BY <1>2, <2>1, <2>2 DEF TopUpStates
<1>7. OldStands(st, old, budget)
  BY <1>2, <1>3 DEF OldStands
<1>8. ChainsContinue(st, st, old, candidates)
  <2>1. \A s \in Chains(old, candidates) : st.taken[s] = 0 /\ st.taken[s] <= Len(st.queue[s])
    BY <1>2, <1>5
  <2>2. \A s \in Chains(old, candidates) : 1..st.taken[s] = {}
    BY <2>1
  <2>3. Added(old, st.items) = {}
    BY <1>2, <1>4
  <2> QED
    BY <2>1, <2>2, <2>3 DEF ChainsContinue
<1>9. DaysGoOn(st, old, candidates)
  BY <1>2, <1>4, <1>5 DEF DaysGoOn
<1> QED
  BY <1>1, <1>6, <1>7, <1>8, <1>9 DEF ToppedUp

(* ------------------------ G2: the top-up as a whole ---------------------- *)

LEMMA GreatestOfSome ==
  ASSUME NEW S \in SUBSET Nat, S # {}, IsFiniteSet(S)
  PROVE  Max(S) \in S /\ \A y \in S : y <= Max(S)
<1>1. PICK before : before = {ab \in S \X S : ab[1] > ab[2]}
  OBVIOUS
<1>2. \A x, y \in S : <<x, y>> \in before <=> x > y
  BY <1>1
<1>3. StrictOrder(S, before)
  BY <1>2 DEF StrictOrder
<1>4. PICK a : a = Arranged(S, before)
  OBVIOUS
<1>5. /\ Enumerates(a, S)
      /\ \A i, j \in 1..Cardinality(S) : <<a[i], a[j]>> \in before => i < j
  BY <1>3, <1>4, Arranging
<1>6. PICK k \in Nat : k = Cardinality(S) /\ a \in [1..k -> S] /\ \A x \in S : \E i \in 1..k : a[i] = x
  BY <1>5 DEF Enumerates
<1>7. 1 \in 1..k
  <2>1. PICK x \in S : TRUE
    OBVIOUS
  <2>2. PICK i \in 1..k : a[i] = x
    BY <1>6, <2>1
  <2> QED
    BY <1>6, <2>2
<1>8. ASSUME NEW y \in S PROVE y <= a[1]
  <2>1. PICK i \in 1..k : a[i] = y
    BY <1>6
  <2>2. <<a[i], a[1]>> \notin before
    BY <1>5, <1>6, <1>7
  <2>3. a[1] \in S /\ a[1] \in Nat /\ y \in Nat
    BY <1>6, <1>7
  <2> QED
    BY <1>2, <2>1, <2>2, <2>3
<1>9. \E x \in S : \A y \in S : x >= y
  <2>1. a[1] \in S /\ \A y \in S : y \in Nat /\ a[1] \in Nat
    BY <1>6, <1>7
  <2> QED
    BY <1>8, <2>1
<1>10. Max(S) \in S /\ \A y \in S : Max(S) >= y
  BY <1>9 DEF Max
<1> QED
  BY <1>10

(* The candidates can be put in order.                                     *)
LEMMA CandidatesOrdered ==
  ASSUME NEW candidates, NEW level, CandsFit(candidates, level)
  PROVE  /\ IsFiniteSet(DOMAIN candidates)
         /\ \A a \in DOMAIN candidates : candidates[a].priority \in Nat /\ candidates[a].layer \in Nat
                                         /\ Alphabet[a] \in Nat
         /\ \A a, b \in DOMAIN candidates : Alphabet[a] = Alphabet[b] => a = b
<1>1. IsFiniteSet(DOMAIN candidates)
  BY GraphAssumption, FS_Subset DEF CandsFit
<1>2. \A a \in DOMAIN candidates : candidates[a].priority \in Nat /\ candidates[a].layer \in Nat
                                         /\ Alphabet[a] \in Nat
  BY GraphAssumption DEF CandsFit, CandidateFits
<1>3. \A a, b \in DOMAIN candidates : Alphabet[a] = Alphabet[b] => a = b
  BY GraphAssumption DEF CandsFit
<1> QED
  BY <1>1, <1>2, <1>3

LEMMA ChainOrder ==
  ASSUME NEW old, NEW candidates, NEW level, CandsFit(candidates, level)
  PROVE  \E k \in Nat : /\ Len(ChainsInOrder(old, candidates)) = k
                        /\ ChainsInOrder(old, candidates) \in [1..k -> Chains(old, candidates)]
<1>1. PICK S : S = Chains(old, candidates)
  OBVIOUS
<1>2. S \subseteq DOMAIN candidates /\ IsFiniteSet(S)
  BY <1>1, CandidatesOrdered, FS_Subset DEF Chains
<1>3. PICK before : before = {ab \in S \X S :
       \/ candidates[ab[1]].priority > candidates[ab[2]].priority
       \/ /\ candidates[ab[1]].priority = candidates[ab[2]].priority
          /\ Alphabet[ab[1]] < Alphabet[ab[2]]}
  OBVIOUS
<1> DEFINE Sooner(a, b) ==
       \/ candidates[a].priority > candidates[b].priority
       \/ /\ candidates[a].priority = candidates[b].priority
          /\ Alphabet[a] < Alphabet[b]
<1>4. \A a, b \in S : <<a, b>> \in before <=> Sooner(a, b)
  BY <1>3
<1>5. \A a \in S : candidates[a].priority \in Nat /\ Alphabet[a] \in Nat
  BY <1>2, CandidatesOrdered
<1>6. \A a, b \in S : Alphabet[a] = Alphabet[b] => a = b
  BY <1>2, CandidatesOrdered
<1>7. StrictOrder(S, before)
  <2>1. \A a \in S : ~ Sooner(a, a)
    BY <1>5
  <2>2. \A a, b, c \in S : Sooner(a, b) /\ Sooner(b, c) => Sooner(a, c)
    BY <1>5
  <2>3. \A a, b \in S : a = b \/ Sooner(a, b) \/ Sooner(b, a)
    BY <1>5, <1>6
  <2> QED
    BY <1>4, <2>1, <2>2, <2>3 DEF StrictOrder
<1>8. PICK order : order = Arranged(S, before)
  OBVIOUS
<1>9. Enumerates(order, S)
  BY <1>2, <1>7, <1>8, Arranging
<1>10. PICK k \in Nat : k = Cardinality(S) /\ order \in [1..k -> S]
  BY <1>9 DEF Enumerates
<1>11. order = [n \in 1..k |-> order[n]]
  BY <1>10
<1>12. Len(order) = k
  BY <1>10, <1>11, LengthOf
<1>13. order = ChainsInOrder(old, candidates)
  BY <1>1, <1>3, <1>8 DEF ChainsInOrder
<1> QED
  BY <1>1, <1>10, <1>12, <1>13

LEMMA RoundsAreFinite ==
  ASSUME NEW old \in Seq(PlanItem), NEW candidates, NEW level, CandsFit(candidates, level)
  PROVE  Max({0} \cup {Cardinality(SessionsLeft(old, s, candidates[s])) : s \in Chains(old, candidates)}) \in Nat
<1>1. PICK left : left = [s \in Chains(old, candidates) |-> Cardinality(SessionsLeft(old, s, candidates[s]))]
  OBVIOUS
<1>2. PICK T : T = {left[s] : s \in Chains(old, candidates)}
  OBVIOUS
<1>3. T = {Cardinality(SessionsLeft(old, s, candidates[s])) : s \in Chains(old, candidates)}
  BY <1>1, <1>2
<1>4. ASSUME NEW s \in Chains(old, candidates) PROVE left[s] \in Nat
  <2>1. CandidateFits(candidates[s])
    BY DEF Chains, CandsFit
  <2>2. IsFiniteSet(SessionsLeft(old, s, candidates[s]))
    BY <2>1, LeftIsFinite
  <2> QED
    BY <1>1, <2>2, FS_CardinalityType
<1>5. IsFiniteSet(Chains(old, candidates))
  BY CandidatesOrdered, FS_Subset DEF Chains
<1>6. left \in Surjection(Chains(old, candidates), T)
  BY <1>1, <1>2 DEF Surjection
<1>7. IsFiniteSet(T)
  BY <1>5, <1>6, FS_Surjection
<1>8. IsFiniteSet({0})
  BY FS_Singleton
<1>9. PICK S : S = {0} \cup T
  OBVIOUS
<1>10. IsFiniteSet(S)
  BY <1>7, <1>8, <1>9, FS_Union
<1>11. S \in SUBSET Nat /\ S # {}
  BY <1>2, <1>4, <1>9
<1>12. Max(S) \in S
  BY <1>10, <1>11, GreatestOfSome
<1> QED
  BY <1>3, <1>9, <1>11, <1>12

(* The top-up of a plan is one that turns have made.                       *)
LEMMA ExtendPlanToppedUp ==
  ASSUME NEW old \in Seq(PlanItem), NEW candidates, NEW level, CandsFit(candidates, level),
         NEW budget \in Nat
  PROVE  \E st, nth : /\ ToppedUp(st, nth, old, candidates, budget)
                      /\ ExtendPlan(old, candidates, budget) = st.items
<1>1. PICK start : start = TopUpStart(old, candidates)
  OBVIOUS
<1>2. PICK rounds \in Nat :
        rounds = Max({0} \cup {Cardinality(SessionsLeft(old, s, candidates[s])) : s \in Chains(old, candidates)})
  BY RoundsAreFinite
<1>3. PICK order : order = ChainsInOrder(old, candidates)
  OBVIOUS
<1>4. PICK k \in Nat : Len(order) = k /\ order \in [1..k -> Chains(old, candidates)]
  BY <1>3, ChainOrder
<1>5. PICK total \in Nat : total = rounds * k
  <2>1. rounds \in Nat /\ k \in Nat
    BY <1>2, <1>4
  <2>2. rounds * k \in Nat
    BY <2>1
  <2> QED
    BY <2>2
<1>6. ExtendPlan(old, candidates, budget) = TopUpTurns(start, rounds, order, candidates, budget).items
  BY <1>1, <1>2, <1>3 DEF ExtendPlan, TopUpStart, Queues
<1>7. PICK Good : Good = {st \in TopUpStates(old, candidates) : \E nth : ToppedUp(st, nth, old, candidates, budget)}
  OBVIOUS
<1>8. PICK who : who = [n \in 1..total |-> order[((n - 1) % k) + 1]]
  OBVIOUS
<1>9. ASSUME NEW n \in 1..total PROVE who[n] \in Chains(old, candidates)
  <2>1. k # 0
    BY <1>4, <1>5, <1>9
  <2>2. ((n - 1) % k) + 1 \in 1..k
    BY <1>4, <2>1
  <2> QED
    BY <1>4, <1>8, <2>2
<1>10. PICK move : move = [n \in 1..total |-> [st \in Good |-> TopUpTurn(st, who[n], candidates, budget)]]
  OBVIOUS
<1>11. start \in Good
  BY <1>1, <1>7, TopUpStarts DEF ToppedUp
<1>12. ASSUME NEW n \in 1..total, NEW st \in Good
       PROVE  move[n][st] = TopUpTurn(st, who[n], candidates, budget) /\ move[n][st] \in Good
  <2>1. PICK nth : ToppedUp(st, nth, old, candidates, budget)
    BY <1>7
  <2>2. PICK new : new = TopUpTurn(st, who[n], candidates, budget)
    OBVIOUS
  <2>3. \E other : ToppedUp(new, other, old, candidates, budget)
    BY <1>9, <2>1, <2>2, TurnKeepsTopUp
  <2>4. new \in Good
    BY <1>7, <2>3 DEF ToppedUp
  <2> QED
    BY <1>10, <2>2, <2>4
<1>13. PICK Goods : Goods = [n \in 0..total |-> Good]
  OBVIOUS
<1>14. GoesOn(total, Goods, start, move)
  <2>1. 0 \in 0..total /\ \A n \in 1..total : n \in 0..total /\ n - 1 \in 0..total
    BY <1>5
  <2> QED
    BY <1>5, <1>11, <1>12, <1>13, <2>1 DEF GoesOn
<1>15. PICK f : Loop(f, total, Goods, start, move)
  BY <1>14, Looping
<1> DEFINE Rounds(g) == g = [n \in 0..rounds * Len(order) |->
               IF n = 0 THEN start
               ELSE CHOOSE next \in {TopUpTurn(st, order[((n - 1) % Len(order)) + 1], candidates, budget) :
                                       st \in {g[n - 1]}} : TRUE]
           Turns(g) == g = [n \in 0..total |-> IF n = 0 THEN start
                                               ELSE TopUpTurn(g[n - 1], who[n], candidates, budget)]
<1>16. \A x, t : (CHOOSE next \in {TopUpTurn(st, t, candidates, budget) : st \in {x}} : TRUE)
                    = TopUpTurn(x, t, candidates, budget)
  OBVIOUS
<1>17. ASSUME NEW g PROVE Rounds(g) <=> Turns(g)
  <2>1. rounds * Len(order) = total /\ Len(order) = k
    BY <1>4, <1>5
  <2>2. \A n \in 0..total : n # 0 => n \in 1..total
    BY <1>5
  <2>3. \A n \in 0..total : n # 0 => who[n] = order[((n - 1) % k) + 1]
    BY <1>8, <2>2
  <2>4. ASSUME NEW n \in 0..total
        PROVE  (IF n = 0 THEN start
                ELSE CHOOSE next \in {TopUpTurn(st, order[((n - 1) % Len(order)) + 1], candidates, budget) :
                                       st \in {g[n - 1]}} : TRUE)
               = (IF n = 0 THEN start ELSE TopUpTurn(g[n - 1], who[n], candidates, budget))
    <3>1. CASE n = 0
      BY <3>1
    <3>2. CASE n # 0
      <4>1. who[n] = order[((n - 1) % Len(order)) + 1]
        BY <2>1, <2>3, <3>2
      <4> QED
        BY <1>16, <3>2, <4>1
    <3> QED
      BY <3>1, <3>2
  <2> QED
    BY <2>1, <2>4
<1>18. Turns(f)
  <2>1. f = [n \in 0..total |-> IF n = 0 THEN start ELSE move[n][f[n - 1]]]
    BY <1>15 DEF Loop
  <2>2. \A n \in 1..total : f[n - 1] \in Good
    BY <1>5, <1>13, <1>15 DEF Loop
  <2>3. \A n \in 1..total : move[n][f[n - 1]] = TopUpTurn(f[n - 1], who[n], candidates, budget)
    BY <1>12, <2>2
  <2>4. ASSUME NEW n \in 0..total
        PROVE  (IF n = 0 THEN start ELSE move[n][f[n - 1]])
               = (IF n = 0 THEN start ELSE TopUpTurn(f[n - 1], who[n], candidates, budget))
    <3>1. n # 0 => n \in 1..total
      BY <1>5
    <3> QED
      BY <2>3, <3>1
  <2> QED
    BY <2>1, <2>4
<1> HIDE DEF Rounds, Turns
<1>19. PICK after : after = CHOOSE g : Rounds(g)
  OBVIOUS
<1>20. Turns(after)
  BY <1>17, <1>18, <1>19
<1>21. TopUpTurns(start, rounds, order, candidates, budget) = after[total]
  BY <1>4, <1>5, <1>19 DEF TopUpTurns, Rounds
<1>22. after[0] = start /\ \A n \in 1..total : after[n] = TopUpTurn(after[n - 1], who[n], candidates, budget)
  BY <1>5, <1>20 DEF Turns
<1>23. PICK Fine : Fine = {n \in 0..total : after[n] \in Good}
  OBVIOUS
<1>24. 0 \in Fine
  BY <1>5, <1>11, <1>22, <1>23
<1>25. ASSUME NEW n \in 1..total, n - 1 \in Fine PROVE n \in Fine
  <2>1. after[n - 1] \in Good /\ n \in 0..total
    BY <1>5, <1>23, <1>25
  <2>2. after[n] = move[n][after[n - 1]] /\ move[n][after[n - 1]] \in Good
    BY <1>12, <1>22, <2>1
  <2> QED
    BY <1>23, <2>1, <2>2
<1>26. total \in Fine
  <2>1. 0..total \subseteq Fine
    BY <1>24, <1>25, CountingUp
  <2> QED
    BY <1>5, <2>1
<1>27. PICK st, nth : st = after[total] /\ ToppedUp(st, nth, old, candidates, budget)
  BY <1>7, <1>23, <1>26
<1> QED
  BY <1>6, <1>21, <1>27

(* ------------------------ G2: what a run works with ---------------------- *)

(* Gaps are those of the learner, candidates fit them, drafts are typed.   *)
PlanInv ==
  /\ PlanTypes
  /\ node \in {"build_objectives", "retrieve_candidates"} => cands = NoCandidates
  /\ node # "build_objectives" => gaps = AnalyzeGaps(request.learner)
  /\ node # "build_objectives" => CandsFit(cands, gaps.level)
  /\ draft.items \in Seq(PlanItem)

LEMMA ParsedItems ==
  ASSUME NEW S, S \subseteq PlanItem, NEW n, NEW items \in BoundedSeq(S, n)
  PROVE  items \in Seq(PlanItem)
<1>1. PICK m \in 0..n : items \in [1..m -> S]
  BY DEF BoundedSeq, SeqOf
<1>2. items \in [1..m -> PlanItem] /\ m \in Nat
  BY <1>1
<1> QED
  BY <1>2, SeqDef

LEMMA PlanInvHolds == PlanningSpec => []PlanInv
<1>1. PlanningInit => PlanInv
  <2> SUFFICES ASSUME PlanningInit PROVE PlanInv
    OBVIOUS
  <2>1. PlanTypes
    BY PlanningAssumption DEF PlanningInit, PlanTypes
  <2> QED
    BY <2>1 DEF PlanningInit, PlanInv, NoPlan
<1>2. PlanInv /\ [PlanningNext]_planningVars => PlanInv'
  <2> SUFFICES ASSUME PlanInv, [PlanningNext]_planningVars PROVE PlanInv'
    OBVIOUS
  <2>0. request' = request /\ PlanTypes /\ PlanTypes'
    <3>1. request' = request
      BY DEF PlanningNext, planningVars, BuildObjectives, RetrieveCandidates, PlanDraft, ReplayHit,
           ReplayMissBeforeLive, ReplayMissAfterLive, NoAnswer, LiveAnswer, LiveRetry, LiveFails,
           AnswerRejected, AnswerParsed, AnswerRaises, AcceptDraft, RejectDraft, FallbackPlan
    <3> QED
      BY <3>1 DEF PlanInv, PlanTypes
  <2>1. CASE BuildObjectives
    <3>1. cands' = NoCandidates /\ gaps' = AnalyzeGaps(request.learner) /\ draft' = draft
          /\ node' = "retrieve_candidates"
      BY <2>1 DEF BuildObjectives, PlanInv
    <3>2. DOMAIN NoCandidates = {}
      BY DEF NoCandidates
    <3>3. CandsFit(cands', gaps'.level)
      BY <3>1, <3>2 DEF CandsFit
    <3> QED
      BY <2>0, <3>1, <3>3 DEF PlanInv
  <2>2. CASE RetrieveCandidates
    <3>1. gaps = AnalyzeGaps(request.learner) /\ node = "retrieve_candidates" /\ node' = "plan_draft"
          /\ UNCHANGED <<request, gaps, draft>>
      BY <2>2 DEF RetrieveCandidates, PlanInv
    <3>2. CandsFit(cands', gaps.level)
      BY <2>0, <2>2, <3>1, RetrievedFit
    <3> QED
      BY <2>0, <3>1, <3>2 DEF PlanInv
  <2>3. CASE ~ BuildObjectives /\ ~ RetrieveCandidates
    <3>1. /\ UNCHANGED <<request, gaps, cands>>
          /\ node' = "build_objectives" => node = "build_objectives"
          /\ node' \in {"build_objectives", "retrieve_candidates"} => node = node'
      BY <2>3 DEF PlanningNext, planningVars, PlanDraft, Question, ReplayHit, ReplayMissBeforeLive,
           ReplayMissAfterLive, NoAnswer, LiveAnswer, LiveRetry, LiveFails,
           AnswerRejected, AnswerParsed, AnswerRaises, AcceptDraft, RejectDraft, FallbackPlan
    <3>2. node = "build_objectives" => node' = "build_objectives"
      BY <2>3 DEF PlanningNext, planningVars, PlanDraft, ReplayHit, ReplayMissBeforeLive,
           ReplayMissAfterLive, LiveAnswer, LiveRetry, LiveFails,
           AnswerRejected, AnswerParsed, AnswerRaises, AcceptDraft, RejectDraft, FallbackPlan
    <3>3. draft'.items \in Seq(PlanItem)
      <4>1. CASE AnswerParsed
        <5>1. PICK items \in BoundedSeq({i \in DraftItem(cands) : i \in PlanItem}, MaxDraftItems) :
                draft' = [items |-> items, degraded |-> FALSE]
          BY <4>1 DEF AnswerParsed
        <5>2. items \in Seq(PlanItem)
          BY <5>1, ParsedItems
        <5> QED
          BY <5>1, <5>2
      <4>2. CASE ~ AnswerParsed
        <5>1. draft' = draft \/ draft' = NoModel \/ draft' = NoPlan
          BY <2>3, <4>2 DEF PlanningNext, planningVars, PlanDraft, ReplayHit, ReplayMissBeforeLive,
               ReplayMissAfterLive, NoAnswer, LiveAnswer, LiveRetry, LiveFails,
               AnswerRejected, AnswerRaises, AcceptDraft, RejectDraft, FallbackPlan
        <5>2. <<>> \in Seq(PlanItem)
          OBVIOUS
        <5>3. NoModel.items \in Seq(PlanItem) /\ NoPlan.items \in Seq(PlanItem)
          BY <5>2 DEF NoModel, NoPlan
        <5>4. draft.items \in Seq(PlanItem)
          BY DEF PlanInv
        <5> QED
          BY <5>1, <5>3, <5>4
      <4> QED
        BY <4>1, <4>2
    <3>4. /\ node' \in {"build_objectives", "retrieve_candidates"} => cands' = NoCandidates
          /\ node' # "build_objectives" => gaps' = AnalyzeGaps(request'.learner)
          /\ node' # "build_objectives" => CandsFit(cands', gaps'.level)
      BY <3>1, <3>2 DEF PlanInv
    <3> QED
      BY <2>0, <3>3, <3>4 DEF PlanInv
  <2> QED
    BY <2>1, <2>2, <2>3
<1> QED
  BY <1>1, <1>2, PTL DEF PlanningSpec

LEMMA PrefixOf ==
  ASSUME NEW old \in Seq(PlanItem), NEW new \in Seq(PlanItem), Len(old) <= Len(new),
         \A k \in 1..Len(old) : new[k] = old[k]
  PROVE  /\ IsPrefix(old, new)
         /\ new # old => Len(old) < Len(new)
<1>1. PICK M \in Nat, N \in Nat : M = Len(old) /\ N = Len(new) /\ M <= N
  BY ItemsTyped
<1>2. old \in [1..M -> PlanItem] /\ new \in [1..N -> PlanItem]
  BY <1>1
<1>3. SubSeq(old, 1, M) = old /\ SubSeq(new, 1, M) = old
  BY <1>1, <1>2
<1>4. M = N => new = old
  BY <1>1, <1>2
<1> QED
  BY <1>1, <1>3, <1>4 DEF IsPrefix

LEMMA NothingAdded ==
  ASSUME NEW old \in Seq(PlanItem), NEW budget
  PROVE  TopUpOf(old, old, budget)
<1>1. PICK M \in Nat : M = Len(old)
  BY ItemsTyped
<1>2. IsPrefix(old, old)
  BY <1>1, PrefixOf
<1>3. Len(old) + 1..Len(old) = {}
  BY <1>1
<1> QED
  BY <1>2, <1>3 DEF TopUpOf

LEMMA ExtensionIsTopUp ==
  ASSUME NEW old \in Seq(PlanItem), NEW candidates, NEW level, CandsFit(candidates, level),
         NEW budget \in Nat
  PROVE  TopUpOf(old, ExtendPlan(old, candidates, budget), budget)
<1>1. PICK new : new = ExtendPlan(old, candidates, budget)
  OBVIOUS
<1>2. PICK st, nth : ToppedUp(st, nth, old, candidates, budget) /\ new = st.items
  BY <1>1, ExtendPlanToppedUp
<1>3. new \in Seq(PlanItem)
  BY <1>2 DEF ToppedUp, TopUpStates
<1>4. PICK M \in Nat, N \in Nat : M = Len(old) /\ N = Len(new)
  BY <1>3, ItemsTyped
<1>5. M <= N /\ (\A k \in 1..M : new[k] = old[k]) /\ (M < N => ~ OverTarget(Minutes(new), budget))
  BY <1>2, <1>4 DEF ToppedUp, OldStands
<1>6. IsPrefix(old, new) /\ (new # old => M < N)
  BY <1>3, <1>4, <1>5, PrefixOf
<1>7. ASSUME NEW n \in Len(old) + 1..Len(new)
      PROVE  /\ StudyItems(old, new[n].skill) # {}
             /\ new[n].type = "resource"
             /\ \A m \in StudyItems(old, new[n].skill) : Least(old[m].day, NumDays) <= new[n].day
  <2>1. n \in Added(old, st.items) /\ n > M
    BY <1>2, <1>4 DEF Added
  <2>2. NthOfChain(new[n], nth[n], st, old, candidates)
    BY <1>2, <2>1 DEF ToppedUp, ChainsContinue
  <2>3. StudyItems(old, new[n].skill) # {} /\ new[n].type = "resource"
    BY <2>2 DEF NthOfChain, Continues, Chains
  <2>4. ASSUME NEW m \in StudyItems(old, new[n].skill) PROVE Least(old[m].day, NumDays) <= new[n].day
    <3>1. m \in 1..M /\ m \in 1..N /\ new[m] = old[m]
      BY <1>4, <1>5, StudyPositions
    <3>2. m \in StudyItems(new, new[n].skill)
      BY <1>3, <1>4, <3>1, ItemsTyped DEF StudyItems
    <3>3. Least(new[m].day, NumDays) <= new[n].day
      BY <1>2, <1>4, <2>1, <3>1, <3>2 DEF ToppedUp, DaysGoOn
    <3> QED
      BY <3>1, <3>3
  <2> QED
    BY <2>3, <2>4
<1> QED
  BY <1>1, <1>4, <1>5, <1>6, <1>7 DEF TopUpOf

(* The top-up of a draft keeps the items of the model as they are, adds    *)
(* only sessions of objectives the draft already studies, none before the  *)
(* day of the study it continues, and stops at 80 % of the budget, whatever*)
(* draft passed (extend_plan, called by validate_plan_node).               *)
THEOREM TopUpContinues == PlanningSpec => TopUpOnlyContinues
<1>1. ASSUME PlanInv, [PlanningNext]_planningVars, node = "validate_plan", node' = "end"
      PROVE  TopUpOf(draft.items, final'.items, request.budget)
  <2>1. AcceptDraft
    BY <1>1 DEF PlanningNext, planningVars, BuildObjectives, RetrieveCandidates, PlanDraft,
         ReplayHit, ReplayMissBeforeLive, ReplayMissAfterLive, LiveAnswer, LiveRetry, LiveFails,
         AnswerRejected, AnswerParsed, AnswerRaises, RejectDraft, FallbackPlan
  <2>2. PICK new : /\ new = ExtendPlan(draft.items, cands, request.budget)
                   /\ final' = [items |-> KeepIfValid(new, draft.items), degraded |-> FALSE]
    BY <2>1 DEF AcceptDraft
  <2>3. draft.items \in Seq(PlanItem) /\ CandsFit(cands, gaps.level) /\ request.budget \in Nat
    BY <1>1 DEF PlanInv, PlanTypes
  <2>4. TopUpOf(draft.items, new, request.budget)
    BY <2>2, <2>3, ExtensionIsTopUp
  <2>5. TopUpOf(draft.items, draft.items, request.budget)
    BY <2>3, NothingAdded
  <2>6. final'.items = new \/ final'.items = draft.items
    BY <2>2 DEF KeepIfValid
  <2> QED
    BY <2>4, <2>5, <2>6
<1>2. PlanInv /\ [PlanningNext]_planningVars =>
        [node = "validate_plan" /\ node' = "end" =>
           TopUpOf(draft.items, final'.items, request.budget)]_planningVars
  BY <1>1
<1> QED
  BY <1>2, PlanInvHolds, PTL DEF PlanningSpec, TopUpOnlyContinues

(* ------------------- G2: the walk of the fallback planner ---------------- *)

Lessons(items) == {n \in DOMAIN items : items[n].type = "resource"}
TaughtSkills(items) == {items[n].skill : n \in Lessons(items)}

(* The items the walk makes: the first session of a resource of their      *)
(* objective, practice or a probe.                                         *)
FirstLesson(i, cs) ==
  /\ i.type = "resource" /\ i.bank = 0
  /\ \E k \in DOMAIN cs.resources : i.res = cs.resources[k].id
                                    /\ i.index = cs.resources[k].sessions[1].index
WalkItem(i, candidates) ==
  /\ i.skill \in DOMAIN candidates
  /\ i.day \in 1..NumDays
  /\ i.difficulty <= candidates[i.skill].current + 1
  /\ i.bank <= candidates[i.skill].bank
  /\ FirstLesson(i, candidates[i.skill]) \/ (i.type \in {"practice", "probe"} /\ i.res = NoResource)

(* What is true when the objectives in done have had their turn.           *)
Walked(items, done, candidates, budget, newSkillCap) ==
  /\ items \in Seq(PlanItem)
  /\ Minutes(items) <= budget
  /\ \A n \in 1..Len(items) : WalkItem(items[n], candidates) /\ items[n].skill \in done
  /\ \A n \in 1..Len(items) : items[n].type = "practice" => items[n].skill \in TaughtSkills(items)
  /\ \A m, n \in Lessons(items) : m # n => /\ items[m].skill # items[n].skill
                                           /\ items[m].res # items[n].res
  /\ IsFiniteSet(TaughtSkills(items)) /\ Cardinality(TaughtSkills(items)) <= newSkillCap

LessonsGrown(more, items, x) ==
  /\ TaughtSkills(items) \subseteq TaughtSkills(more)
  /\ x.type = "resource" => /\ Lessons(more) = Lessons(items) \cup {Len(items) + 1}
                            /\ TaughtSkills(more) = TaughtSkills(items) \cup {x.skill}
  /\ x.type # "resource" => /\ Lessons(more) = Lessons(items)
                            /\ TaughtSkills(more) = TaughtSkills(items)
LEMMA LessonsAppended ==
  ASSUME NEW items \in Seq(PlanItem), NEW x \in PlanItem, NEW more, more = Append(items, x)
  PROVE  LessonsGrown(more, items, x)
<1>1. PICK N \in Nat : N = Len(items) /\ DOMAIN items = 1..N
  BY ItemsTyped
<1>2. DOMAIN more = 1..(N + 1) /\ (\A n \in 1..N : more[n] = items[n]) /\ more[N + 1] = x
  <2>1. Grown(more, items, x)
    BY ItemsAppended
  <2> QED
    BY <1>1, <2>1 DEF Grown
<1>3. 1..(N + 1) = (1..N) \cup {N + 1} /\ N + 1 \notin 1..N
  BY <1>1
<1>4. \A n \in Lessons(items) : more[n] = items[n]
  BY <1>1, <1>2 DEF Lessons
<1>5. CASE x.type = "resource"
  <2>1. Lessons(more) = Lessons(items) \cup {N + 1}
    BY <1>1, <1>2, <1>3, <1>5 DEF Lessons
  <2>2. TaughtSkills(more) = TaughtSkills(items) \cup {x.skill}
    <3>1. \A s : s \in TaughtSkills(items) <=> \E n \in Lessons(items) : s = items[n].skill
      BY DEF TaughtSkills
    <3>2. \A s : s \in TaughtSkills(more) <=> \E n \in Lessons(more) : s = more[n].skill
      BY DEF TaughtSkills
    <3>3. \A s : s \in TaughtSkills(more) <=> s \in TaughtSkills(items) \/ s = x.skill
      <4> SUFFICES ASSUME NEW s PROVE s \in TaughtSkills(more) <=> s \in TaughtSkills(items) \/ s = x.skill
        OBVIOUS
      <4>1. ASSUME s \in TaughtSkills(more) PROVE s \in TaughtSkills(items) \/ s = x.skill
        <5>1. PICK n \in Lessons(more) : s = more[n].skill
          BY <3>2, <4>1
        <5> QED
          BY <1>2, <1>4, <2>1, <3>1, <5>1
      <4>2. ASSUME s \in TaughtSkills(items) PROVE s \in TaughtSkills(more)
        <5>1. PICK n \in Lessons(items) : s = items[n].skill
          BY <3>1, <4>2
        <5> QED
          BY <1>4, <2>1, <3>2, <5>1
      <4>3. x.skill \in TaughtSkills(more)
        BY <1>2, <2>1, <3>2
      <4> QED
        BY <4>1, <4>2, <4>3
    <3> QED
      BY <3>3
  <2> QED
    BY <1>1, <1>5, <2>1, <2>2 DEF LessonsGrown
<1>6. CASE x.type # "resource"
  <2>1. Lessons(more) = Lessons(items)
    BY <1>1, <1>2, <1>3, <1>6 DEF Lessons
  <2>2. TaughtSkills(more) = TaughtSkills(items)
    BY <1>4, <2>1 DEF TaughtSkills
  <2> QED
    BY <1>6, <2>1, <2>2 DEF LessonsGrown
<1> QED
  BY <1>5, <1>6

(* One item more.                                                          *)
LEMMA WalkGoesOn ==
  ASSUME NEW candidates, NEW budget \in Nat, NEW newSkillCap \in Nat, NEW done, NEW items,
         Walked(items, done, candidates, budget, newSkillCap),
         NEW x \in PlanItem, WalkItem(x, candidates), x.skill \in done,
         Minutes(items) + x.est <= budget,
         x.type = "practice" => x.skill \in TaughtSkills(items),
         x.type = "resource" => /\ Cardinality(TaughtSkills(items)) < newSkillCap
                                /\ \A n \in Lessons(items) : /\ items[n].skill # x.skill
                                                             /\ items[n].res # x.res,
         NEW more, more = Append(items, x)
  PROVE  Walked(more, done, candidates, budget, newSkillCap)
<1>1. items \in Seq(PlanItem)
  BY DEF Walked
<1>2. PICK N \in Nat : N = Len(items) /\ DOMAIN items = 1..N
  BY <1>1, ItemsTyped
<1>3. Grown(more, items, x)
  BY <1>1, ItemsAppended
<1>4. /\ more \in Seq(PlanItem) /\ Len(more) = N + 1 /\ DOMAIN more = 1..(N + 1)
      /\ \A n \in 1..N : more[n] = items[n]
      /\ more[N + 1] = x
      /\ Minutes(more) = Minutes(items) + x.est
  BY <1>2, <1>3 DEF Grown
<1>5. \A n \in 1..(N + 1) : n \in 1..N \/ n = N + 1
  BY <1>2
<1>6. Minutes(more) <= budget
  BY <1>4
<1>7. ASSUME NEW n \in 1..(N + 1)
      PROVE  /\ WalkItem(more[n], candidates) /\ more[n].skill \in done
             /\ more[n].type = "practice" => more[n].skill \in TaughtSkills(more)
  <2>1. TaughtSkills(items) \subseteq TaughtSkills(more)
    BY <1>1, LessonsAppended DEF LessonsGrown
  <2>2. CASE n \in 1..N
    BY <1>2, <1>4, <2>1, <2>2 DEF Walked
  <2>3. CASE n = N + 1
    BY <1>4, <2>1, <2>3
  <2> QED
    BY <1>5, <2>2, <2>3
<1>8. CASE x.type = "resource"
  <2>1. Lessons(more) = Lessons(items) \cup {N + 1} /\ TaughtSkills(more) = TaughtSkills(items) \cup {x.skill}
    <3>1. LessonsGrown(more, items, x)
      BY <1>1, LessonsAppended
    <3> QED
      BY <1>2, <1>8, <3>1 DEF LessonsGrown
  <2>2. \A n \in Lessons(items) : more[n] = items[n]
    BY <1>2, <1>4 DEF Lessons
  <2>3. ASSUME NEW m \in Lessons(more), NEW n \in Lessons(more), m # n
        PROVE  more[m].skill # more[n].skill /\ more[m].res # more[n].res
    <3>1. CASE m \in Lessons(items) /\ n \in Lessons(items)
      BY <2>2, <2>3, <3>1 DEF Walked
    <3>2. CASE m = N + 1 /\ n \in Lessons(items)
      BY <1>4, <1>8, <2>2, <3>2
    <3>3. CASE m \in Lessons(items) /\ n = N + 1
      BY <1>4, <1>8, <2>2, <3>3
    <3> QED
      BY <2>1, <2>3, <3>1, <3>2, <3>3
  <2>4. x.skill \notin TaughtSkills(items)
    BY <1>8 DEF TaughtSkills
  <2>5. IsFiniteSet(TaughtSkills(items)) /\ Cardinality(TaughtSkills(items)) < newSkillCap
    BY <1>8 DEF Walked
  <2>6. IsFiniteSet(TaughtSkills(more)) /\ Cardinality(TaughtSkills(more)) = Cardinality(TaughtSkills(items)) + 1
        /\ Cardinality(TaughtSkills(items)) \in Nat
    BY <2>1, <2>4, <2>5, FS_AddElement, FS_CardinalityType
  <2>7. Cardinality(TaughtSkills(more)) <= newSkillCap
    BY <2>5, <2>6
  <2> QED
    BY <1>4, <1>6, <1>7, <2>3, <2>6, <2>7 DEF Walked
<1>9. CASE x.type # "resource"
  <2>1. Lessons(more) = Lessons(items) /\ TaughtSkills(more) = TaughtSkills(items)
    <3>1. LessonsGrown(more, items, x)
      BY <1>1, LessonsAppended
    <3> QED
      BY <1>9, <3>1 DEF LessonsGrown
  <2>2. \A n \in Lessons(items) : more[n] = items[n]
    BY <1>2, <1>4 DEF Lessons
  <2>3. \A m, n \in Lessons(more) : m # n => more[m].skill # more[n].skill /\ more[m].res # more[n].res
    <3>1. \A m, n \in Lessons(items) : m # n => items[m].skill # items[n].skill /\ items[m].res # items[n].res
      BY DEF Walked
    <3> SUFFICES ASSUME NEW m \in Lessons(more), NEW n \in Lessons(more), m # n
                 PROVE  more[m].skill # more[n].skill /\ more[m].res # more[n].res
      OBVIOUS
    <3>2. more[m] = items[m] /\ more[n] = items[n] /\ m \in Lessons(items) /\ n \in Lessons(items)
      BY <2>1, <2>2
    <3> QED
      BY <3>1, <3>2
  <2>4. IsFiniteSet(TaughtSkills(more)) /\ Cardinality(TaughtSkills(more)) <= newSkillCap
    BY <2>1 DEF Walked
  <2> QED
    BY <1>4, <1>6, <1>7, <2>3, <2>4 DEF Walked
<1> QED
  BY <1>8, <1>9

LEMMA FrontierDayPlaced ==
  ASSUME NEW items, NEW budget
  PROVE  FrontierDay(items, budget) \in 1..NumDays
<1>1. PICK q : q = SelectSeq(items, LAMBDA i : i.type # "practice")
  OBVIOUS
<1>2. FrontierDay(items, budget) = PlaceDay(q, budget, 1)
  BY <1>1, Zenon DEF FrontierDay
<1>3. PlaceDay(q, budget, 1) \in 1..NumDays
  BY DayPlaced
<1> QED
  BY <1>2, <1>3

(* One objective's turn.                                                   *)
LEMMA ScheduleProbeWalks ==
  ASSUME NEW candidates, NEW level, CandsFit(candidates, level), NEW s \in DOMAIN candidates,
         NEW budget \in Nat, NEW newSkillCap \in Nat, NEW done, s \in done, NEW items,
         Walked(items, done, candidates, budget, newSkillCap)
  PROVE  Walked(ScheduleProbe(items, s, candidates[s], budget), done, candidates, budget, newSkillCap)
<1>1. PICK cs : cs = candidates[s]
  OBVIOUS
<1>2. CandidateFits(cs) /\ s \in Skill
  BY <1>1 DEF CandsFit
<1>3. PICK count \in Nat : count = Least(cs.bank, PROBE_ITEM_COUNT) /\ count <= cs.bank
  BY <1>2 DEF CandidateFits, Least, PROBE_ITEM_COUNT
<1>4. PICK est \in Nat : est = PROBE_ITEM_MINUTES_PER_ITEM * count
  BY <1>3 DEF PROBE_ITEM_MINUTES_PER_ITEM
<1>5. PICK day : day = FrontierDay(items, budget) /\ day \in 1..NumDays
  BY FrontierDayPlaced
<1>6. PICK x : x = [type |-> "probe", skill |-> s, res |-> NoResource,
             index |-> 0, bank |-> count, est |-> est, difficulty |-> 1, day |-> day, dep |-> 0]
  OBVIOUS
<1>7. x \in PlanItem
  BY <1>2, <1>3, <1>4, <1>5, <1>6 DEF PlanItem, ItemType, NumDays
<1>8. WalkItem(x, candidates) /\ x.skill \in done /\ x.type = "probe" /\ x.est = est
  BY <1>1, <1>2, <1>3, <1>5, <1>6 DEF WalkItem, CandidateFits
<1>9. PICK new : new = ScheduleProbe(items, s, cs, budget)
  OBVIOUS
<1>10. new = items \/ (Fits(items, est, budget) /\ new = Append(items, x))
  BY <1>3, <1>4, <1>5, <1>6, <1>9 DEF ScheduleProbe
<1>11. CASE Fits(items, est, budget) /\ new = Append(items, x)
  <2>1. Minutes(items) + x.est <= budget
    BY <1>8, <1>11 DEF Fits
  <2> QED
    BY <1>1, <1>7, <1>8, <1>9, <1>11, <2>1, WalkGoesOn
<1> QED
  BY <1>1, <1>9, <1>10, <1>11

LEMMA ScheduleLessonWalks ==
  ASSUME NEW candidates, NEW level, CandsFit(candidates, level), NEW s \in DOMAIN candidates,
         NEW budget \in Nat, NEW newSkillCap \in Nat, NEW done, s \in done, NEW items,
         Walked(items, done, candidates, budget, newSkillCap),
         \A n \in 1..Len(items) : items[n].skill # s
  PROVE  Walked(ScheduleLesson(items, s, candidates[s], budget, newSkillCap),
                done, candidates, budget, newSkillCap)
<1>1. PICK cs : cs = candidates[s]
  OBVIOUS
<1>2. CandidateFits(cs) /\ s \in Skill
  BY <1>1 DEF CandsFit
<1>3. PICK count \in Nat : count = Least(cs.bank, PRACTICE_ITEMS_PER_LESSON) /\ count <= cs.bank
  BY <1>2 DEF CandidateFits, Least, PRACTICE_ITEMS_PER_LESSON
<1>4. PICK minutes \in Nat : minutes = PRACTICE_ITEM_MINUTES_PER_ITEM * count
  BY <1>3 DEF PRACTICE_ITEM_MINUTES_PER_ITEM
<1>5. PICK day : day = FrontierDay(items, budget) /\ day \in 1..NumDays
  BY FrontierDayPlaced
<1>6. items \in Seq(PlanItem)
  BY DEF Walked
<1>7. PICK N \in Nat : N = Len(items) /\ DOMAIN items = 1..N
  BY <1>6, ItemsTyped
<1>8. PICK used : used = {items[n].res : n \in Lessons(items)}
  OBVIOUS
<1>9. PICK free : free = {k \in DOMAIN cs.resources : cs.resources[k].id \notin used}
  OBVIOUS
<1>10. PICK x : x = cs.resources[Min(free)].sessions[1]
  OBVIOUS
<1>11. PICK lesson : lesson = SessionItem(s, cs, x, day, 0)
  OBVIOUS
<1>12. PICK practice : practice = [lesson EXCEPT !.type = "practice", !.res = NoResource, !.index = 0,
                     !.bank = count, !.est = minutes, !.dep = Len(items) + 1]
  OBVIOUS
<1>13. PICK new : new = ScheduleLesson(items, s, cs, budget, newSkillCap)
  OBVIOUS
<1>14. \/ new = items
       \/ /\ Cardinality(TaughtSkills(items)) < newSkillCap /\ free # {}
          /\ Fits(items, x.est + minutes, budget)
          /\ new = Append(items, lesson) \/ new = Append(Append(items, lesson), practice)
  <2>1. \/ new = items
        \/ /\ ~ (Cardinality(TaughtSkills(items)) >= newSkillCap) /\ free # {}
           /\ Fits(items, x.est + minutes, budget)
           /\ new = Append(items, lesson) \/ new = Append(Append(items, lesson), practice)
    BY <1>3, <1>4, <1>5, <1>8, <1>9, <1>10, <1>11, <1>12, <1>13, Zenon DEF ScheduleLesson, Lessons, TaughtSkills
  <2>2. Cardinality(TaughtSkills(items)) \in Nat
    BY FS_CardinalityType DEF Walked
  <2> QED
    BY <2>1, <2>2, BelowCap, Zenon
<1>15. CASE /\ Cardinality(TaughtSkills(items)) < newSkillCap /\ free # {}
            /\ Fits(items, x.est + minutes, budget)
            /\ new = Append(items, lesson) \/ new = Append(Append(items, lesson), practice)
  <2>1. PICK k : k = Min(free) /\ k \in DOMAIN cs.resources /\ cs.resources[k].id \notin used
    <3>1. DOMAIN cs.resources \subseteq Nat
      BY <1>2 DEF CandidateFits
    <3>2. free \in SUBSET Nat /\ free # {}
      BY <1>9, <1>15, <3>1
    <3>3. Min(free) \in free
      BY <3>2, LeastIsMin
    <3> QED
      BY <1>9, <3>3
  <2>2. OfferFits(cs.resources[k])
    BY <1>2, <2>1 DEF CandidateFits
  <2>3. 1 \in DOMAIN cs.resources[k].sessions
    BY <2>2 DEF OfferFits
  <2>4. x.res = cs.resources[k].id /\ x.res \in Resource /\ x.index \in Nat /\ x.est \in Int
        /\ x.index = cs.resources[k].sessions[1].index
    BY <1>10, <2>1, <2>2, <2>3 DEF OfferFits
  <2>5. SessionFits(lesson, s, cs, x, day, 0)
    BY <1>2, <1>5, <1>11, <2>4, SessionItemContinues
  <2>6. /\ lesson \in PlanItem /\ lesson.type = "resource" /\ lesson.skill = s /\ lesson.bank = 0
        /\ lesson.res = x.res /\ lesson.index = x.index /\ lesson.est = x.est
        /\ lesson.difficulty = DifficultyFor(cs) /\ lesson.day = day
    BY <2>5 DEF SessionFits, Continues
  <2>7. DifficultyFor(cs) <= cs.current + 1
    BY <1>2, ReachOfDifficulty
  <2>8. WalkItem(lesson, candidates)
    <3>1. FirstLesson(lesson, cs)
      BY <2>1, <2>4, <2>6 DEF FirstLesson
    <3>2. 0 <= cs.bank
      BY <1>2 DEF CandidateFits
    <3> QED
      BY <1>1, <1>5, <2>6, <2>7, <3>1, <3>2 DEF WalkItem
  <2>9. PICK more : more = Append(items, lesson)
    OBVIOUS
  <2>10. Minutes(items) \in Int /\ Minutes(items) + x.est + minutes <= budget
    <3>1. Minutes(items) \in Int
      BY <1>6, ItemsTyped, MinutesAreInt
    <3> QED
      BY <1>15, <2>4, <3>1 DEF Fits
  <2>11. Walked(more, done, candidates, budget, newSkillCap)
    <3>1. Minutes(items) + lesson.est <= budget
      BY <2>4, <2>6, <2>10
    <3>2. \A n \in Lessons(items) : items[n].skill # lesson.skill /\ items[n].res # lesson.res
      BY <1>7, <1>8, <2>1, <2>4, <2>6 DEF Lessons
    <3> QED
      BY <1>15, <2>6, <2>8, <2>9, <3>1, <3>2, WalkGoesOn
  <2>12. Grown(more, items, lesson) /\ LessonsGrown(more, items, lesson)
    BY <1>6, <2>6, <2>9, ItemsAppended, LessonsAppended
  <2>13. CASE new = Append(more, practice)
    <3>1. /\ practice \in PlanItem /\ practice.type = "practice" /\ practice.skill = s
          /\ practice.res = NoResource /\ practice.bank = count /\ practice.est = minutes
          /\ practice.difficulty = DifficultyFor(cs) /\ practice.day = day
      <4>1. lesson = [type |-> "resource", skill |-> s, res |-> x.res, index |-> x.index,
                      bank |-> 0, est |-> x.est, difficulty |-> DifficultyFor(cs),
                      day |-> day, dep |-> 0]
        BY <1>11 DEF SessionItem
      <4>2. practice = [type |-> "practice", skill |-> s, res |-> NoResource, index |-> 0,
                        bank |-> count, est |-> minutes, difficulty |-> DifficultyFor(cs),
                        day |-> day, dep |-> N + 1]
        BY <1>7, <1>12, <4>1
      <4>3. DifficultyFor(cs) \in Int /\ day \in Int /\ N + 1 \in Nat
        BY <1>7, <2>6, ItemFields
      <4> QED
        BY <1>2, <1>3, <1>4, <4>2, <4>3 DEF PlanItem, ItemType
    <3>2. WalkItem(practice, candidates)
      BY <1>1, <1>3, <1>5, <2>7, <3>1 DEF WalkItem
    <3>3. Minutes(more) + practice.est <= budget
      BY <2>4, <2>6, <2>10, <2>12, <3>1 DEF Grown
    <3>4. practice.skill \in TaughtSkills(more)
      BY <2>6, <2>12, <3>1 DEF LessonsGrown
    <3> QED
      BY <1>1, <1>13, <2>11, <2>13, <3>1, <3>2, <3>3, <3>4, WalkGoesOn
  <2> QED
    BY <1>1, <1>13, <1>15, <2>9, <2>11, <2>13
<1> QED
  BY <1>1, <1>13, <1>14, <1>15

LEMMA ScheduleWalks ==
  ASSUME NEW candidates, NEW level, CandsFit(candidates, level), NEW s \in DOMAIN candidates,
         NEW budget \in Nat, NEW newSkillCap \in Nat, NEW done, NEW items,
         Walked(items, done, candidates, budget, newSkillCap), s \notin done
  PROVE  Walked(Schedule(items, s, candidates[s], budget, newSkillCap),
                done \cup {s}, candidates, budget, newSkillCap)
<1>1. PICK more : more = done \cup {s}
  OBVIOUS
<1>2. Walked(items, more, candidates, budget, newSkillCap)
  BY <1>1 DEF Walked
<1>3. \A n \in 1..Len(items) : items[n].skill # s
  BY DEF Walked
<1>4. s \in more
  BY <1>1
<1>5. Walked(ScheduleProbe(items, s, candidates[s], budget), more, candidates, budget, newSkillCap)
  BY <1>2, <1>4, ScheduleProbeWalks
<1>6. Walked(ScheduleLesson(items, s, candidates[s], budget, newSkillCap), more, candidates, budget, newSkillCap)
  BY <1>2, <1>3, <1>4, ScheduleLessonWalks
<1> QED
  BY <1>1, <1>5, <1>6 DEF Schedule

(* The frontier is every objective once.                                   *)
LEMMA FrontierOrder ==
  ASSUME NEW candidates, NEW level, CandsFit(candidates, level)
  PROVE  Enumerates(Frontier(candidates), DOMAIN candidates)
         /\ Len(Frontier(candidates)) = Cardinality(DOMAIN candidates)
<1>1. PICK S : S = DOMAIN candidates
  OBVIOUS
<1>2. IsFiniteSet(S)
  BY <1>1, CandidatesOrdered
<1>3. PICK before : before = {ab \in S \X S :
       \/ candidates[ab[1]].priority > candidates[ab[2]].priority
       \/ /\ candidates[ab[1]].priority = candidates[ab[2]].priority
          /\ \/ candidates[ab[1]].layer < candidates[ab[2]].layer
             \/ /\ candidates[ab[1]].layer = candidates[ab[2]].layer
                /\ Alphabet[ab[1]] < Alphabet[ab[2]]}
  OBVIOUS
<1> DEFINE Sooner(a, b) ==
       \/ candidates[a].priority > candidates[b].priority
       \/ /\ candidates[a].priority = candidates[b].priority
          /\ \/ candidates[a].layer < candidates[b].layer
             \/ /\ candidates[a].layer = candidates[b].layer
                /\ Alphabet[a] < Alphabet[b]
<1>4. \A a, b \in S : <<a, b>> \in before <=> Sooner(a, b)
  BY <1>3
<1>5. \A a \in S : candidates[a].priority \in Nat /\ candidates[a].layer \in Nat /\ Alphabet[a] \in Nat
  BY <1>1, CandidatesOrdered
<1>6. \A a, b \in S : Alphabet[a] = Alphabet[b] => a = b
  BY <1>1, CandidatesOrdered
<1>7. StrictOrder(S, before)
  <2>1. \A a \in S : ~ Sooner(a, a)
    BY <1>5
  <2>2. \A a, b, c \in S : Sooner(a, b) /\ Sooner(b, c) => Sooner(a, c)
    BY <1>5
  <2>3. \A a, b \in S : a = b \/ Sooner(a, b) \/ Sooner(b, a)
    BY <1>5, <1>6
  <2> QED
    BY <1>4, <2>1, <2>2, <2>3 DEF StrictOrder
<1>8. PICK order : order = Arranged(S, before)
  OBVIOUS
<1>9. Enumerates(order, S)
  BY <1>2, <1>7, <1>8, Arranging
<1>10. PICK k \in Nat : k = Cardinality(S) /\ order \in [1..k -> S]
  BY <1>9 DEF Enumerates
<1>11. order = [n \in 1..k |-> order[n]]
  BY <1>10
<1>12. Len(order) = k
  BY <1>10, <1>11, LengthOf
<1>13. order = Frontier(candidates)
  BY <1>1, <1>3, <1>8 DEF Frontier
<1> QED
  BY <1>1, <1>9, <1>10, <1>12, <1>13

LEMMA WalkStarts ==
  ASSUME NEW candidates, NEW budget \in Nat, NEW newSkillCap \in Nat
  PROVE  Walked(<<>>, {}, candidates, budget, newSkillCap)
<1>1. PICK items : items = <<>>
  OBVIOUS
<1>2. items \in Seq(PlanItem) /\ Len(items) = 0 /\ DOMAIN items = {}
  BY <1>1
<1>3. Minutes(items) = 0
  <2>1. Lengths(items)
    BY <1>2, ItemsTyped
  <2>2. PICK t : RunningTotal(t, items) /\ Minutes(items) = t[Len(items)]
    BY <2>1, MinutesAreTotal
  <2> QED
    BY <1>2, <2>2 DEF RunningTotal
<1>4. Lessons(items) = {} /\ TaughtSkills(items) = {}
  BY <1>2 DEF Lessons, TaughtSkills
<1>5. 1..Len(items) = {} /\ IsFiniteSet({}) /\ Cardinality({}) = 0
  BY <1>2, FS_EmptySet
<1>6. IsFiniteSet(TaughtSkills(items)) /\ Cardinality(TaughtSkills(items)) <= newSkillCap
  BY <1>4, <1>5
<1>7. Minutes(items) <= budget
  BY <1>3
<1>8. /\ \A n \in 1..Len(items) : WalkItem(items[n], candidates) /\ items[n].skill \in {}
      /\ \A n \in 1..Len(items) : items[n].type = "practice" => items[n].skill \in TaughtSkills(items)
      /\ \A m, n \in Lessons(items) : m # n => /\ items[m].skill # items[n].skill
                                               /\ items[m].res # items[n].res
  BY <1>4, <1>5
<1>9. Walked(items, {}, candidates, budget, newSkillCap)
  BY <1>2, <1>6, <1>7, <1>8 DEF Walked
<1> QED
  BY <1>1, <1>9

(* The walk ends with a plan that every objective had its turn in.         *)
LEMMA BreadthWalked ==
  ASSUME NEW candidates, NEW level, CandsFit(candidates, level),
         NEW budget \in Nat, NEW newSkillCap \in Nat
  PROVE  Walked(Breadth(Frontier(candidates), candidates, budget, newSkillCap),
                DOMAIN candidates, candidates, budget, newSkillCap)
<1>1. PICK frontier : frontier = Frontier(candidates)
  OBVIOUS
<1>2. PICK total \in Nat : /\ total = Len(frontier) /\ frontier \in [1..total -> DOMAIN candidates]
                           /\ \A i, j \in 1..total : frontier[i] = frontier[j] => i = j
                           /\ \A s \in DOMAIN candidates : \E i \in 1..total : frontier[i] = s
  BY <1>1, FrontierOrder DEF Enumerates
<1>3. PICK done : done = [n \in 0..total |-> {frontier[j] : j \in 1..n}]
  OBVIOUS
<1>4. PICK Good : Good = [n \in 0..total |-> {x \in Seq(PlanItem) : Walked(x, done[n], candidates, budget, newSkillCap)}]
  OBVIOUS
<1>5. done[0] = {} /\ done[total] = DOMAIN candidates
  <2>1. \A s \in DOMAIN candidates : s \in {frontier[j] : j \in 1..total}
    BY <1>2
  <2>2. 0 \in 0..total /\ total \in 0..total /\ 1..0 = {}
    BY <1>2
  <2>3. done[0] = {frontier[j] : j \in 1..0} /\ done[total] = {frontier[j] : j \in 1..total}
    BY <1>3, <2>2
  <2>4. done[0] = {}
    BY <2>2, <2>3
  <2>5. \A j \in 1..total : frontier[j] \in DOMAIN candidates
    BY <1>2
  <2>6. done[total] = DOMAIN candidates
    BY <2>1, <2>3, <2>5
  <2> QED
    BY <2>4, <2>6
<1>6. ASSUME NEW n \in 1..total
      PROVE  /\ n \in 0..total /\ n - 1 \in 0..total
             /\ frontier[n] \in DOMAIN candidates /\ frontier[n] \notin done[n - 1]
             /\ done[n] = done[n - 1] \cup {frontier[n]}
  <2>1. n \in 0..total /\ n - 1 \in 0..total /\ 1..n = (1..(n - 1)) \cup {n} /\ n \notin 1..(n - 1)
        /\ 1..(n - 1) \subseteq 1..total
    BY <1>2
  <2>2. done[n] = {frontier[j] : j \in 1..n} /\ done[n - 1] = {frontier[j] : j \in 1..(n - 1)}
    BY <1>3, <2>1
  <2> QED
    BY <1>2, <2>1, <2>2
<1>7. PICK move : move = [n \in 1..total |-> [x \in Seq(PlanItem) |->
                    Schedule(x, frontier[n], candidates[frontier[n]], budget, newSkillCap)]]
  OBVIOUS
<1>8. <<>> \in Good[0]
  <2>1. Walked(<<>>, {}, candidates, budget, newSkillCap)
    BY WalkStarts
  <2>2. <<>> \in Seq(PlanItem) /\ 0 \in 0..total
    BY <1>2
  <2> QED
    BY <1>4, <1>5, <2>1, <2>2
<1>9. ASSUME NEW n \in 1..total, NEW x \in Good[n - 1]
      PROVE  /\ move[n][x] = Schedule(x, frontier[n], candidates[frontier[n]], budget, newSkillCap)
             /\ move[n][x] \in Good[n]
  <2>1. x \in Seq(PlanItem) /\ Walked(x, done[n - 1], candidates, budget, newSkillCap)
    BY <1>4, <1>6
  <2>2. PICK new : new = Schedule(x, frontier[n], candidates[frontier[n]], budget, newSkillCap)
    OBVIOUS
  <2>3. Walked(new, done[n - 1] \cup {frontier[n]}, candidates, budget, newSkillCap)
    BY <1>6, <2>1, <2>2, ScheduleWalks
  <2>4. new \in Good[n]
    <3>1. new \in Seq(PlanItem)
      BY <2>3 DEF Walked
    <3>2. Walked(new, done[n], candidates, budget, newSkillCap)
      BY <1>6, <2>3
    <3>3. Good[n] = {y \in Seq(PlanItem) : Walked(y, done[n], candidates, budget, newSkillCap)}
      BY <1>4, <1>6
    <3> QED
      BY <3>1, <3>2, <3>3
  <2> QED
    BY <1>7, <2>1, <2>2, <2>4
<1>10. GoesOn(total, Good, <<>>, move)
  BY <1>2, <1>8, <1>9 DEF GoesOn
<1>11. PICK f : Loop(f, total, Good, <<>>, move)
  BY <1>10, Looping
<1> DEFINE Rounds(g) == g = [n \in 0..Len(frontier) |->
               IF n = 0 THEN <<>>
               ELSE CHOOSE next \in {Schedule(items, frontier[n], candidates[frontier[n]], budget, newSkillCap) :
                                       items \in {g[n - 1]}} : TRUE]
           Turns(g) == g = [n \in 0..total |-> IF n = 0 THEN <<>>
                 ELSE Schedule(g[n - 1], frontier[n], candidates[frontier[n]], budget, newSkillCap)]
<1>12. \A x, s : (CHOOSE next \in {Schedule(items, s, candidates[s], budget, newSkillCap) : items \in {x}} : TRUE)
                    = Schedule(x, s, candidates[s], budget, newSkillCap)
  OBVIOUS
<1>13. ASSUME NEW g PROVE Rounds(g) <=> Turns(g)
  <2>1. ASSUME NEW n \in 0..total
        PROVE  (IF n = 0 THEN <<>>
                ELSE CHOOSE next \in {Schedule(items, frontier[n], candidates[frontier[n]], budget, newSkillCap) :
                                       items \in {g[n - 1]}} : TRUE)
               = (IF n = 0 THEN <<>>
                  ELSE Schedule(g[n - 1], frontier[n], candidates[frontier[n]], budget, newSkillCap))
    BY <1>12
  <2> QED
    BY <1>2, <2>1
<1>14. Turns(f)
  <2>1. f = [n \in 0..total |-> IF n = 0 THEN <<>> ELSE move[n][f[n - 1]]]
    BY <1>11 DEF Loop
  <2>2. \A n \in 1..total : f[n - 1] \in Good[n - 1]
    BY <1>6, <1>11 DEF Loop
  <2>3. \A n \in 1..total : move[n][f[n - 1]]
           = Schedule(f[n - 1], frontier[n], candidates[frontier[n]], budget, newSkillCap)
    BY <1>9, <2>2
  <2>4. ASSUME NEW n \in 0..total
        PROVE  (IF n = 0 THEN <<>> ELSE move[n][f[n - 1]])
               = (IF n = 0 THEN <<>>
                  ELSE Schedule(f[n - 1], frontier[n], candidates[frontier[n]], budget, newSkillCap))
    <3>1. n # 0 => n \in 1..total
      BY <1>2
    <3> QED
      BY <2>3, <3>1
  <2> QED
    BY <2>1, <2>4
<1> HIDE DEF Rounds, Turns
<1>15. PICK walk : walk = CHOOSE g : Rounds(g)
  OBVIOUS
<1>16. Turns(walk)
  BY <1>13, <1>14, <1>15
<1>17. Breadth(frontier, candidates, budget, newSkillCap) = walk[total]
  BY <1>2, <1>15 DEF Breadth, Rounds
<1>18. walk[0] = <<>> /\ \A n \in 1..total : walk[n] =
         Schedule(walk[n - 1], frontier[n], candidates[frontier[n]], budget, newSkillCap)
  BY <1>2, <1>6, <1>16 DEF Turns
<1>19. PICK Fine : Fine = {n \in 0..total : walk[n] \in Good[n]}
  OBVIOUS
<1>20. 0 \in Fine
  BY <1>2, <1>8, <1>18, <1>19
<1>21. ASSUME NEW n \in 1..total, n - 1 \in Fine PROVE n \in Fine
  <2>1. walk[n - 1] \in Good[n - 1]
    BY <1>19, <1>21
  <2>2. walk[n] = move[n][walk[n - 1]] /\ move[n][walk[n - 1]] \in Good[n]
    BY <1>9, <1>18, <2>1
  <2> QED
    BY <1>6, <1>19, <2>2
<1>22. total \in Fine
  <2>1. 0..total \subseteq Fine
    BY <1>20, <1>21, CountingUp
  <2> QED
    BY <1>2, <2>1
<1>23. Walked(walk[total], done[total], candidates, budget, newSkillCap)
  BY <1>4, <1>19, <1>22
<1> QED
  BY <1>1, <1>5, <1>17, <1>23

(* ------------------ G2: the walk and its top-up together ----------------- *)

Extended(st, nth, base, candidates, budget, newSkillCap) ==
  /\ Walked(base, DOMAIN candidates, candidates, budget, newSkillCap)
  /\ ToppedUp(st, nth, base, candidates, budget)

(* The lessons of the walk are study items, one for an objective at most.  *)
LEMMA BaseStudies ==
  ASSUME NEW candidates, NEW level, CandsFit(candidates, level), NEW budget, NEW newSkillCap,
         NEW base, Walked(base, DOMAIN candidates, candidates, budget, newSkillCap)
  PROVE  /\ \A n \in 1..Len(base) : base[n].res # NoResource => n \in Lessons(base)
         /\ \A n \in Lessons(base) : n \in 1..Len(base) /\ n \in StudyItems(base, base[n].skill)
         /\ \A s : StudyItems(base, s) \subseteq Lessons(base)
         /\ \A s : \A m, n \in StudyItems(base, s) : m = n
<1>1. base \in Seq(PlanItem) /\ DOMAIN base = 1..Len(base)
  BY ItemsTyped DEF Walked
<1>2. \A n \in 1..Len(base) : base[n].res # NoResource => n \in Lessons(base)
  BY <1>1 DEF Walked, WalkItem, FirstLesson, Lessons
<1>3. ASSUME NEW n \in Lessons(base)
      PROVE  n \in 1..Len(base) /\ n \in StudyItems(base, base[n].skill)
  <2>1. n \in 1..Len(base) /\ base[n].type = "resource"
    BY <1>1 DEF Lessons
  <2>2. base[n].skill \in DOMAIN candidates /\ FirstLesson(base[n], candidates[base[n].skill])
    BY <2>1 DEF Walked, WalkItem
  <2>3. base[n].res \in Resource
    BY <2>2 DEF CandsFit, CandidateFits, OfferFits, FirstLesson
  <2> QED
    BY <1>1, <2>1, <2>3, ResourceAssumption DEF StudyItems
<1>4. \A s : StudyItems(base, s) \subseteq Lessons(base)
  BY DEF StudyItems, Lessons
<1>5. ASSUME NEW s, NEW m \in StudyItems(base, s), NEW n \in StudyItems(base, s) PROVE m = n
  <2>1. m \in Lessons(base) /\ n \in Lessons(base) /\ base[m].skill = base[n].skill
    BY <1>4 DEF StudyItems
  <2> QED
    BY <2>1 DEF Walked
<1> QED
  BY <1>2, <1>3, <1>4, <1>5

(* A session an objective may go on with is planned by no other.           *)
LEMMA ScheduledIsOwn ==
  ASSUME NEW candidates, NEW level, CandsFit(candidates, level), NEW budget, NEW newSkillCap,
         NEW base, Walked(base, DOMAIN candidates, candidates, budget, newSkillCap),
         NEW s \in DOMAIN candidates, NEW u \in Chosen(base, s, candidates[s]),
         NEW n \in 1..Len(base), base[n].res = candidates[s].resources[u].id
  PROVE  n \in StudyItems(base, s)
<1>1. PICK cs : cs = candidates[s]
  OBVIOUS
<1>2. CandidateFits(cs) /\ base \in Seq(PlanItem) /\ DOMAIN base = 1..Len(base)
  BY <1>1, ItemsTyped DEF CandsFit, Walked
<1>3. u \in DOMAIN cs.resources
  BY <1>1, <1>2, ChosenPositions
<1>4. PICK id : id = cs.resources[u].id /\ id \in Resource /\ id # NoResource
  BY <1>2, <1>3, ResourceAssumption DEF CandidateFits, OfferFits
<1>5. n \in Lessons(base) /\ base[n].res = id
  BY <1>1, <1>4, BaseStudies
<1>6. PICK m \in Lessons(base) : base[m].skill = s /\ base[m].res = id
  <2>1. CASE u \in Started(base, s, cs)
    <3>1. PICK m \in StudyItems(base, s) : base[m].res = id
      BY <1>4, <2>1 DEF Started, StudyOf
    <3> QED
      BY <3>1, BaseStudies DEF StudyItems
  <2>2. CASE u \in Startable(base, s, cs)
    <3>1. PICK m \in 1..Len(base) : base[m].skill = s /\ base[m].res = id
      BY <1>2, <1>4, <1>5, <2>2, ChosenPositions
    <3> QED
      BY <1>4, <3>1, BaseStudies
  <2> QED
    BY <1>1, <2>1, <2>2 DEF Chosen
<1>7. m = n
  BY <1>5, <1>6 DEF Walked
<1> QED
  BY <1>5, <1>6, <1>7, BaseStudies

(* The items of the whole: those of the walk and those added to it.        *)
LEMMA ExtendedItems ==
  ASSUME NEW candidates, NEW level, CandsFit(candidates, level), NEW budget, NEW newSkillCap,
         NEW base, NEW st, NEW nth, Extended(st, nth, base, candidates, budget, newSkillCap)
  PROVE  /\ base \in Seq(PlanItem) /\ st.items \in Seq(PlanItem)
         /\ Len(base) \in Nat /\ Len(st.items) \in Nat /\ Len(base) <= Len(st.items)
         /\ \A n \in 1..Len(st.items) : n \in 1..Len(base) \/ n \in Added(base, st.items)
         /\ \A n \in 1..Len(base) : n \in 1..Len(st.items) /\ st.items[n] = base[n]
                                    /\ WalkItem(st.items[n], candidates)
         /\ \A n \in Added(base, st.items) :
              n \in 1..Len(st.items) /\ n \in Nat /\ NthOfChain(st.items[n], nth[n], st, base, candidates)
              /\ Len(base) < n
         /\ \A n \in 1..Len(st.items) : st.items[n].day \in 1..NumDays
<1>1. base \in Seq(PlanItem) /\ st.items \in Seq(PlanItem)
  BY DEF Extended, Walked, ToppedUp, TopUpStates
<1>2. PICK M \in Nat, N \in Nat : M = Len(base) /\ N = Len(st.items) /\ M <= N
  BY <1>1, ItemsTyped DEF Extended, ToppedUp, OldStands
<1>3. Added(base, st.items) = (M + 1)..N
  BY <1>2 DEF Added
<1>4. \A n \in 1..N : n \in 1..M \/ n \in Added(base, st.items)
  BY <1>2, <1>3
<1>5. \A n \in 1..M : n \in 1..N /\ st.items[n] = base[n]
  BY <1>2 DEF Extended, ToppedUp, OldStands
<1>6. \A n \in 1..M : WalkItem(st.items[n], candidates)
  BY <1>2, <1>5 DEF Extended, Walked
<1>7. ASSUME NEW n \in Added(base, st.items)
      PROVE  n \in 1..N /\ n \in Nat /\ M < n /\ NthOfChain(st.items[n], nth[n], st, base, candidates)
  <2>1. n \in 1..N /\ n \in Nat /\ M < n
    BY <1>2, <1>3
  <2> QED
    BY <2>1 DEF Extended, ToppedUp, ChainsContinue
<1>8. \A n \in 1..N : st.items[n].day \in 1..NumDays
  <2>1. \A n \in 1..M : st.items[n].day \in 1..NumDays
    BY <1>6 DEF WalkItem
  <2>2. \A n \in Added(base, st.items) : st.items[n].day \in 1..NumDays
    BY <1>7 DEF NthOfChain, Continues
  <2> QED
    BY <1>4, <2>1, <2>2
<1> QED
  BY <1>1, <1>2, <1>4, <1>5, <1>6, <1>7, <1>8

(* The day order of the study items of an objective.                       *)
LEMMA StudyDays ==
  ASSUME NEW candidates, NEW level, CandsFit(candidates, level), NEW budget, NEW newSkillCap,
         NEW base, NEW st, NEW nth, Extended(st, nth, base, candidates, budget, newSkillCap),
         NEW n \in Added(base, st.items), NEW m \in StudyItems(st.items, st.items[n].skill), m < n
  PROVE  st.items[m].day <= st.items[n].day
<1>1. Least(st.items[m].day, NumDays) <= st.items[n].day
  BY DEF Extended, ToppedUp, DaysGoOn
<1>2. m \in 1..Len(st.items)
  BY ExtendedItems, StudyPositions
<1>3. st.items[m].day \in 1..NumDays
  BY <1>2, ExtendedItems
<1> QED
  BY <1>1, <1>3 DEF Least, NumDays

(* An item of the plan that studies a given session, before another item.  *)
StudiedBy(items, s, x, n) ==
  \E k \in StudyItems(items, s) : /\ k < n /\ items[k].day <= items[n].day
                                  /\ items[k].res = x.res /\ items[k].index = x.index

(* Which session an added item studies, and where it stands in the queue.  *)
AtSession(i, n, at, r, c, base, cs) ==
  /\ n \in 1..Len(ChainQueue(base, i.skill, cs)) /\ at[n] = <<r, c>>
  /\ From(r, c, cs.resources[r].sessions[c], base, i.skill, cs)
  /\ Continues(i, i.skill, cs, cs.resources[r].sessions[c])

LEMMA AddedAtSession ==
  ASSUME NEW candidates, NEW level, CandsFit(candidates, level), NEW budget, NEW newSkillCap,
         NEW base, NEW st, NEW nth, Extended(st, nth, base, candidates, budget, newSkillCap),
         NEW n \in Added(base, st.items), NEW s, s = st.items[n].skill, NEW cs, cs = candidates[s],
         NEW at, QueuedAt(at, ChainQueue(base, s, cs), base, s, cs)
  PROVE  /\ s \in Chains(base, candidates) /\ CandidateFits(cs) /\ st.queue[s] = ChainQueue(base, s, cs)
         /\ nth[n] \in 1..st.taken[s] /\ st.taken[s] \in Nat /\ st.taken[s] <= Len(st.queue[s])
         /\ AtSession(st.items[n], nth[n], at, at[nth[n]][1], at[nth[n]][2], base, cs)
<1>1. NthOfChain(st.items[n], nth[n], st, base, candidates) /\ base \in Seq(PlanItem)
  BY ExtendedItems
<1>2. s \in Chains(base, candidates) /\ nth[n] \in 1..st.taken[s]
      /\ Continues(st.items[n], s, cs, st.queue[s][nth[n]])
  BY <1>1 DEF NthOfChain
<1>3. CandidateFits(cs)
  BY <1>2 DEF Chains, CandsFit
<1>4. st.queue[s] = ChainQueue(base, s, cs) /\ st.taken[s] \in Nat
  BY <1>2 DEF Extended, ToppedUp, TopUpStates, Queues
<1>5. st.taken[s] <= Len(st.queue[s])
  BY <1>2 DEF Extended, ToppedUp, ChainsContinue
<1>6. PICK q, j : q = ChainQueue(base, s, cs) /\ j = nth[n]
  OBVIOUS
<1>7. Len(q) \in Nat
  BY <1>6, Zenon DEF QueuedAt
<1>8. j \in 1..Len(q)
  BY <1>2, <1>4, <1>5, <1>6, <1>7
<1>9. From(at[j][1], at[j][2], q[j], base, s, cs) /\ at[j] = <<at[j][1], at[j][2]>>
  <2>1. QueuedAt(at, q, base, s, cs) /\ base \in Seq(PlanItem)
    BY <1>1, <1>6
  <2>2. Pulled(at[j], q[j], base, s, cs)
    BY <1>3, <1>8, <2>1, QueuedFrom
  <2> QED
    BY <2>2 DEF Pulled
<1>10. q[j] = cs.resources[at[j][1]].sessions[at[j][2]]
  BY <1>9, Zenon DEF From
<1>11. AtSession(st.items[n], j, at, at[j][1], at[j][2], base, cs)
  BY <1>2, <1>4, <1>6, <1>8, <1>9, <1>10, Zenon DEF AtSession
<1> QED
  BY <1>2, <1>3, <1>4, <1>5, <1>6, <1>11, Zenon

LEMMA QueueAscends ==
  ASSUME NEW at, NEW q, NEW items, NEW s, NEW cs, QueuedAt(at, q, items, s, cs)
  PROVE  \A a, b \in 1..Len(q) : a < b =>
           \/ StudyTurn(items, s, cs, at[a][1]) < StudyTurn(items, s, cs, at[b][1])
           \/ at[a][1] = at[b][1] /\ at[a][2] < at[b][2]
BY Zenon DEF QueuedAt

(* What comes before a session in the order of study is studied before it. *)
HasTurn(n, s, cs, at, r, c, st, nth, base, candidates) ==
  /\ n \in Added(base, st.items) /\ s = st.items[n].skill /\ cs = candidates[s]
  /\ QueuedAt(at, ChainQueue(base, s, cs), base, s, cs)
  /\ r = at[nth[n]][1] /\ c = at[nth[n]][2]
LEMMA EarlierStudied ==
  ASSUME NEW candidates, NEW level, CandsFit(candidates, level), NEW budget, NEW newSkillCap,
         NEW base, NEW st, NEW nth, Extended(st, nth, base, candidates, budget, newSkillCap),
         NEW n, NEW s, NEW cs, NEW at, NEW r, NEW c,
         HasTurn(n, s, cs, at, r, c, st, nth, base, candidates),
         NEW u \in Chosen(base, s, cs), NEW d \in DOMAIN cs.resources[u].sessions,
         \/ StudyTurn(base, s, cs, u) < StudyTurn(base, s, cs, r)
         \/ u = r /\ d < c
  PROVE  StudiedBy(st.items, s, cs.resources[u].sessions[d], n)
<1>1. /\ s \in Chains(base, candidates) /\ CandidateFits(cs) /\ st.queue[s] = ChainQueue(base, s, cs)
      /\ nth[n] \in 1..st.taken[s] /\ st.taken[s] \in Nat /\ st.taken[s] <= Len(st.queue[s])
      /\ AtSession(st.items[n], nth[n], at, r, c, base, cs)
      /\ st.items[n].skill = s /\ QueuedAt(at, ChainQueue(base, s, cs), base, s, cs)
      /\ n \in Added(base, st.items) /\ cs = candidates[s]
  <2>1. /\ n \in Added(base, st.items) /\ s = st.items[n].skill /\ cs = candidates[s]
        /\ QueuedAt(at, ChainQueue(base, s, cs), base, s, cs)
        /\ r = at[nth[n]][1] /\ c = at[nth[n]][2]
    BY DEF HasTurn
  <2> QED
    BY <2>1, AddedAtSession
<1>2. PICK x : x = cs.resources[u].sessions[d]
  BY Zenon
<1>3. /\ base \in Seq(PlanItem) /\ st.items \in Seq(PlanItem)
      /\ Len(base) \in Nat /\ Len(st.items) \in Nat
      /\ Len(base) < n /\ n \in Nat /\ n \in 1..Len(st.items)
      /\ \A m \in 1..Len(base) : m \in 1..Len(st.items) /\ st.items[m] = base[m]
  BY <1>1, ExtendedItems
<1>4. u \in DOMAIN cs.resources /\ OfferFits(cs.resources[u]) /\ x.res = cs.resources[u].id /\ s \in DOMAIN candidates
      /\ d \in Nat
  <2>1. u \in DOMAIN cs.resources
    BY <1>1, <1>3, ChosenPositions
  <2>2. OfferFits(cs.resources[u])
    BY <1>1, <2>1, Zenon DEF CandidateFits
  <2>3. PICK offer : offer = cs.resources[u]
    OBVIOUS
  <2>4. x.res = offer.id /\ d \in Nat
    <3>1. OfferFits(offer) /\ d \in DOMAIN offer.sessions /\ x = offer.sessions[d]
      BY <1>2, <2>2, <2>3, Zenon
    <3>2. x.res = offer.id
      BY <3>1 DEF OfferFits
    <3>3. Len(offer.sessions) \in Nat /\ DOMAIN offer.sessions = 1..Len(offer.sessions)
      BY <3>1 DEF OfferFits
    <3>4. d \in Nat
      BY <3>1, <3>3
    <3> QED
      BY <3>2, <3>4
  <2>5. s \in DOMAIN candidates
    BY <1>1 DEF Chains
  <2> QED
    BY <2>1, <2>2, <2>3, <2>4, <2>5
<1>5. SUFFICES \E k \in StudyItems(st.items, s) : k < n /\ st.items[k].res = x.res /\ st.items[k].index = x.index
  <2>1. ASSUME NEW k \in StudyItems(st.items, s), k < n PROVE st.items[k].day <= st.items[n].day
    BY <1>1, <2>1, StudyDays
  <2> QED
    BY <1>2, <2>1, Zenon DEF StudiedBy
<1>6. CASE Scheduled(base, x)
  <2>1. PICK k \in 1..Len(base) : base[k].res = x.res /\ base[k].index = x.index
    BY <1>3, <1>6, ItemsTyped DEF Scheduled
  <2>2. k \in StudyItems(base, s)
    BY <1>1, <1>4, <2>1, ScheduledIsOwn DEF Extended
  <2>3. k \in 1..Len(st.items) /\ st.items[k] = base[k] /\ k < n
    BY <1>3, <2>1
  <2>4. k \in StudyItems(st.items, s)
    BY <1>3, <2>2, <2>3, ItemsTyped DEF StudyItems
  <2> QED
    BY <2>1, <2>3, <2>4
<1>7. CASE ~ Scheduled(base, x)
  <2>1. <<u, d>> \in SessionsLeft(base, s, cs)
    BY <1>2, <1>7, LeftPairs
  <2>2. PICK q, j : q = ChainQueue(base, s, cs) /\ j = nth[n]
    OBVIOUS
  <2>3a. QueuedAt(at, q, base, s, cs)
    BY <1>1, <2>2
  <2>3b. /\ \A a, b \in 1..Len(q) : a < b =>
               \/ StudyTurn(base, s, cs, at[a][1]) < StudyTurn(base, s, cs, at[b][1])
               \/ at[a][1] = at[b][1] /\ at[a][2] < at[b][2]
         /\ \A a \in 1..Len(q) : q[a] = cs.resources[at[a][1]].sessions[at[a][2]]
         /\ Len(q) \in Nat
    BY <2>3a, Zenon DEF QueuedAt
  <2>3. PICK i \in 1..Len(q) : at[i] = <<u, d>>
    BY <2>1, <2>3a, Zenon DEF QueuedAt
  <2>4. j \in 1..Len(q) /\ j \in 1..st.taken[s] /\ j \in Nat /\ i \in Nat /\ at[j] = <<r, c>>
        /\ r \in Chosen(base, s, cs) /\ c \in Nat
    <3>1. AtSession(st.items[n], j, at, r, c, base, cs) /\ st.items[n].skill = s /\ j \in 1..st.taken[s]
      BY <1>1, <2>2
    <3>2. j \in 1..Len(q) /\ at[j] = <<r, c>>
      BY <2>2, <3>1, Zenon DEF AtSession
    <3>3. r \in Chosen(base, s, cs) /\ c \in Nat
      BY <3>1, Zenon DEF AtSession, From
    <3>4. j \in Nat /\ i \in Nat
      <4>1. Len(q) \in Nat
        BY <2>3b, Zenon
      <4> QED
        BY <2>3, <3>2, <4>1
    <3> QED
      BY <3>1, <3>2, <3>3, <3>4
  <2>5. i < j
    <3>1. SUFFICES ASSUME ~ (i < j) PROVE FALSE
      OBVIOUS
    <3>2. StudyTurn(base, s, cs, u) \in Nat /\ StudyTurn(base, s, cs, r) \in Nat
      BY <1>1, <1>3, <2>4, TurnsDiffer
    <3>3. CASE i = j
      <4>1. u = r /\ c = d
        BY <2>3, <2>4, <3>3
      <4>2. ~ (StudyTurn(base, s, cs, u) < StudyTurn(base, s, cs, r))
        <5>1. StudyTurn(base, s, cs, u) = StudyTurn(base, s, cs, r)
          BY <4>1, Zenon
        <5> QED
          BY <3>2, <5>1, NoneLess, Zenon
      <4>3. ~ (d < c)
        <5>1. c \in Nat /\ d = c
          BY <2>4, <4>1
        <5> QED
          BY <5>1
      <4> QED
        BY <4>2, <4>3
    <3>4. CASE j < i
      <4>1. \/ StudyTurn(base, s, cs, at[j][1]) < StudyTurn(base, s, cs, at[i][1])
            \/ at[j][1] = at[i][1] /\ at[j][2] < at[i][2]
        BY <2>3b, <2>3, <2>4, <3>4, Zenon
      <4>2. StudyTurn(base, s, cs, r) < StudyTurn(base, s, cs, u) \/ (r = u /\ c < d)
        BY <2>3, <2>4, <4>1
      <4>3. CASE StudyTurn(base, s, cs, r) < StudyTurn(base, s, cs, u)
        <5>1. ~ (StudyTurn(base, s, cs, u) < StudyTurn(base, s, cs, r))
          BY <3>2, <4>3, NoneLess, Zenon
        <5>2. u # r
          BY <4>3, <5>1, Zenon
        <5> QED
          BY <5>1, <5>2, Zenon
      <4>4. CASE r = u /\ c < d
        <5>1. ~ (StudyTurn(base, s, cs, u) < StudyTurn(base, s, cs, r))
          BY <3>2, <4>4, NoneLess, Zenon
        <5>2. ~ (d < c)
          BY <1>4, <2>4, <4>4, NoneLess, Zenon
        <5> QED
          BY <5>1, <5>2, Zenon
      <4> QED
        BY <4>2, <4>3, <4>4, Zenon
    <3> QED
      BY <2>4, <3>1, <3>3, <3>4
  <2>6. i \in 1..st.taken[s]
    BY <1>1, <2>3, <2>4, <2>5
  <2>7. PICK k \in Added(base, st.items) : st.items[k].skill = s /\ nth[k] = i
    BY <1>1, <2>6 DEF Extended, ToppedUp, ChainsContinue
  <2>8. k \in 1..Len(st.items) /\ k \in Nat /\ Continues(st.items[k], s, cs, st.queue[s][i])
    <3>1. /\ k \in 1..Len(st.items) /\ k \in Nat
          /\ NthOfChain(st.items[k], nth[k], st, base, candidates)
      BY <2>7, ExtendedItems
    <3> QED
      BY <1>1, <2>7, <3>1 DEF NthOfChain
  <2>9. st.queue[s][i] = x
    <3>1. q[i] = cs.resources[at[i][1]].sessions[at[i][2]]
      BY <2>3, <2>3b, Zenon
    <3>2. at[i][1] = u /\ at[i][2] = d
      BY <2>3
    <3> QED
      BY <1>1, <1>2, <2>2, <3>1, <3>2, Zenon
  <2>10. k < n
    <3>1. SUFFICES ASSUME ~ (k < n) PROVE FALSE
      OBVIOUS
    <3>2. k # n
      BY <2>2, <2>4, <2>5, <2>7
    <3>3. n < k
      BY <1>3, <2>8, <3>1, <3>2
    <3>4. nth[n] < nth[k]
      BY <1>1, <2>7, <3>3 DEF Extended, ToppedUp, ChainsContinue
    <3> QED
      BY <2>2, <2>4, <2>5, <2>7, <3>4
  <2>11. k \in StudyItems(st.items, s)
    <3>1. st.items[k].res = x.res /\ x.res # NoResource /\ st.items[k].type = "resource" /\ st.items[k].skill = s
      BY <1>4, <2>8, <2>9, ResourceAssumption, Zenon DEF Continues, OfferFits
    <3> QED
      BY <1>3, <2>8, <3>1, ItemsTyped DEF StudyItems
  <2> QED
    BY <2>8, <2>9, <2>10, <2>11 DEF Continues
<1> QED
  BY <1>6, <1>7

(* ----------------- G2: the order of study of the fallback ---------------- *)

OfferedBy(x, r, k, d, cs) ==
  /\ k \in DOMAIN cs.resources /\ cs.resources[k].id = r
  /\ d \in DOMAIN cs.resources[k].sessions /\ d \in Nat
  /\ x = cs.resources[k].sessions[d]
  /\ x.res = r /\ x.index \in Nat
  /\ \A c \in DOMAIN cs.resources[k].sessions : /\ cs.resources[k].sessions[c].index \in Nat
                                                /\ c \in Nat
                                                /\ x.index < cs.resources[k].sessions[c].index => d < c
LEMMA OfferedAt ==
  ASSUME NEW cs, CandidateFits(cs), NEW r, NEW x \in OfferedSession(cs, r)
  PROVE  \E k, d : OfferedBy(x, r, k, d, cs)
<1>1. PICK k \in DOMAIN cs.resources : cs.resources[k].id = r /\ x \in ToSet(cs.resources[k].sessions)
  BY DEF OfferedSession
<1>2. PICK q : q = cs.resources[k].sessions
  OBVIOUS
<1>3. PICK d \in DOMAIN q : x = q[d]
  BY <1>1, <1>2 DEF ToSet
<1>4. OfferFits(cs.resources[k])
  BY <1>1 DEF CandidateFits
<1>5. /\ Len(q) \in Nat /\ DOMAIN q = 1..Len(q)
      /\ \A n \in DOMAIN q : q[n].res = r /\ q[n].index \in Nat
      /\ \A m, n \in DOMAIN q : m < n => q[m].index < q[n].index
  BY <1>1, <1>2, <1>4 DEF OfferFits
<1>6. \A n \in DOMAIN q : n \in Nat
  BY <1>5
<1>7. ASSUME NEW c \in DOMAIN q, x.index < q[c].index PROVE d < c
  <2>1. c \in Nat /\ d \in Nat /\ x.index \in Nat /\ q[c].index \in Nat
    BY <1>3, <1>5, <1>6
  <2>2. CASE c < d
    <3>1. q[c].index < x.index
      BY <1>3, <1>5, <2>2
    <3> QED
      BY <1>7, <2>1, <3>1
  <2>3. CASE c = d
    BY <1>3, <1>7, <2>1, <2>3
  <2> QED
    BY <2>1, <2>2, <2>3
<1>8. OfferedBy(x, r, k, d, cs)
  BY <1>1, <1>2, <1>3, <1>5, <1>6, <1>7 DEF OfferedBy
<1> QED
  BY <1>8

(* A lesson of the walk is the first session there is of its resource and  *)
(* the only one of its objective.                                          *)
LEMMA WalkInOrder ==
  ASSUME NEW candidates, NEW level, CandsFit(candidates, level), NEW budget, NEW newSkillCap,
         NEW base, NEW st, NEW nth, Extended(st, nth, base, candidates, budget, newSkillCap),
         NEW n \in 1..Len(base), st.items[n].type = "resource",
         NEW cs, cs = candidates[st.items[n].skill]
  PROVE  StudiesInOrder(st.items, n, cs)
<1>1. PICK items, s : items = st.items /\ s = items[n].skill
  OBVIOUS
<1>2. /\ base \in Seq(PlanItem) /\ items \in Seq(PlanItem) /\ Len(base) \in Nat
      /\ \A m \in 1..Len(base) : m \in 1..Len(items) /\ items[m] = base[m]
      /\ WalkItem(items[n], candidates)
  BY <1>1, ExtendedItems
<1>3. s \in DOMAIN candidates /\ FirstLesson(items[n], cs)
  BY <1>1, <1>2 DEF WalkItem
<1>4. CandidateFits(cs)
  BY <1>1, <1>3 DEF CandsFit
<1>5. PICK u \in DOMAIN cs.resources :
        items[n].res = cs.resources[u].id /\ items[n].index = cs.resources[u].sessions[1].index
  BY <1>3, Zenon DEF FirstLesson
<1>6. OfferFits(cs.resources[u])
  BY <1>4, <1>5, Zenon DEF CandidateFits
<1>7. 1 \in DOMAIN cs.resources[u].sessions
  <2>1. PICK offer : offer = cs.resources[u] /\ OfferFits(offer)
    BY <1>6
  <2>2. Len(offer.sessions) \in Nat \ {0} /\ DOMAIN offer.sessions = 1..Len(offer.sessions)
    BY <2>1, Zenon DEF OfferFits
  <2>3. 1 \in DOMAIN offer.sessions
    BY <2>2, OneIsFirst, Zenon
  <2> QED
    BY <2>1, <2>3, Zenon
<1>8. ASSUME NEW x \in OfferedSession(cs, items[n].res) PROVE ~ (x.index < items[n].index)
  <2>1. PICK k, d : OfferedBy(x, items[n].res, k, d, cs)
    BY <1>4, OfferedAt
  <2>2. k = u
    BY <1>4, <1>5, <2>1, Zenon DEF OfferedBy, CandidateFits
  <2>3. SUFFICES ASSUME x.index < items[n].index PROVE FALSE
    OBVIOUS
  <2>4. d < 1
    BY <1>5, <1>7, <2>1, <2>2, <2>3, Zenon DEF OfferedBy
  <2>5. d \in 1..Len(cs.resources[u].sessions)
    BY <1>6, <2>1, <2>2, Zenon DEF OfferedBy, OfferFits
  <2> QED
    BY <2>4, <2>5
<1>9. ASSUME NEW m \in StudyItems(items, s), m < n PROVE FALSE
  <2>1. m \in 1..Len(items) /\ m \in 1..Len(base)
    BY <1>2, <1>9, StudyPositions
  <2>2. base[m] = items[m] /\ base[n] = items[n]
    BY <1>2, <2>1
  <2>3. m \in Lessons(base) /\ n \in Lessons(base) /\ base[m].skill = base[n].skill
    BY <1>1, <1>2, <2>1, <2>2, ItemsTyped DEF StudyItems, Lessons
  <2>4. m # n
    BY <1>2, <1>9
  <2> QED
    BY <2>3, <2>4 DEF Extended, Walked
<1> QED
  BY <1>1, <1>8, <1>9 DEF StudiesInOrder

(* An added session comes after those of its resource and those of the     *)
(* resources its objective began before.                                   *)
LEMMA TopUpInOrder ==
  ASSUME NEW candidates, NEW level, CandsFit(candidates, level), NEW budget, NEW newSkillCap,
         NEW base, NEW st, NEW nth, Extended(st, nth, base, candidates, budget, newSkillCap),
         NEW n \in Added(base, st.items),
         NEW cs, cs = candidates[st.items[n].skill]
  PROVE  StudiesInOrder(st.items, n, cs)
<1>1. PICK items, s : items = st.items /\ s = items[n].skill
  OBVIOUS
<1>2. /\ base \in Seq(PlanItem) /\ items \in Seq(PlanItem) /\ Len(base) \in Nat /\ Len(items) \in Nat
      /\ n \in 1..Len(items) /\ n \in Nat /\ Len(base) < n
      /\ \A m \in 1..Len(items) : m \in 1..Len(base) \/ m \in Added(base, items)
      /\ \A m \in 1..Len(base) : m \in 1..Len(items) /\ items[m] = base[m] /\ WalkItem(items[m], candidates)
      /\ \A m \in Added(base, items) : m \in Nat
      /\ NthOfChain(items[n], nth[n], st, base, candidates)
  BY <1>1, ExtendedItems
<1>3. s \in Chains(base, candidates) /\ s \in DOMAIN candidates
  BY <1>1, <1>2 DEF NthOfChain, Chains
<1>4. CandidateFits(cs)
  BY <1>1, <1>3 DEF CandsFit
<1>5. PICK at : QueuedAt(at, ChainQueue(base, s, cs), base, s, cs)
  BY <1>2, <1>4, QueueOrder
<1>6. PICK r, c : r = at[nth[n]][1] /\ c = at[nth[n]][2]
  OBVIOUS
<1>7. AtSession(items[n], nth[n], at, r, c, base, cs)
  BY <1>1, <1>5, <1>6, AddedAtSession
<1>8. /\ r \in DOMAIN cs.resources /\ r \in Chosen(base, s, cs) /\ c \in DOMAIN cs.resources[r].sessions /\ c \in Nat
      /\ items[n].res = cs.resources[r].id /\ items[n].index = cs.resources[r].sessions[c].index
  BY <1>1, <1>7, Zenon DEF AtSession, From, Continues
<1>9. ASSUME NEW u \in Chosen(base, s, cs), NEW d \in DOMAIN cs.resources[u].sessions,
             StudyTurn(base, s, cs, u) < StudyTurn(base, s, cs, r) \/ (u = r /\ d < c)
      PROVE  StudiedBy(items, s, cs.resources[u].sessions[d], n)
  <2>1. HasTurn(n, s, cs, at, r, c, st, nth, base, candidates)
    BY <1>1, <1>5, <1>6 DEF HasTurn
  <2>2. StudiedBy(st.items, s, cs.resources[u].sessions[d], n)
    BY <1>9, <2>1, EarlierStudied, Zenon
  <2> QED
    BY <1>1, <2>2, Zenon
<1>10. ASSUME NEW x \in OfferedSession(cs, items[n].res), x.index < items[n].index
       PROVE  \E m \in StudyItems(items, s) : /\ items[m].res = items[n].res /\ items[m].index = x.index
                                              /\ m < n /\ items[m].day <= items[n].day
  <2>1. PICK k, d : OfferedBy(x, items[n].res, k, d, cs)
    BY <1>4, OfferedAt
  <2>2. k = r
    BY <1>4, <1>8, <2>1, Zenon DEF OfferedBy, CandidateFits
  <2>3. d < c
    BY <1>8, <1>10, <2>1, <2>2, Zenon DEF OfferedBy
  <2>4. StudiedBy(items, s, x, n)
    BY <1>8, <1>9, <2>1, <2>2, <2>3, Zenon DEF OfferedBy
  <2>5. x.res = items[n].res
    BY <2>1, Zenon DEF OfferedBy
  <2> QED
    BY <2>4, <2>5 DEF StudiedBy
<1>11. ASSUME NEW m \in StudyItems(items, s), m < n, items[m].res # items[n].res
       PROVE  /\ items[m].day <= items[n].day
              /\ \A x \in OfferedSession(cs, items[m].res) :
                   \E k \in StudyItems(items, s) : /\ k < n /\ items[k].res = items[m].res
                                                   /\ items[k].index = x.index
  <2>1. items[m].day <= items[n].day
    BY <1>1, <1>11, StudyDays
  <2>2. m \in 1..Len(items) /\ items[m].skill = s /\ items[m].type = "resource"
    BY <1>2, <1>11, StudyPositions DEF StudyItems
  <2>3. PICK u \in Chosen(base, s, cs) :
          u \in DOMAIN cs.resources /\ cs.resources[u].id = items[m].res
          /\ StudyTurn(base, s, cs, u) < StudyTurn(base, s, cs, r)
    <3>1. CASE m \in 1..Len(base)
      <4>1. base[m] = items[m] /\ m \in StudyItems(base, s)
        BY <1>2, <1>11, <3>1, ItemsTyped DEF StudyItems
      <4>2. FirstLesson(items[m], cs)
        <5>1. WalkItem(items[m], candidates) /\ items[m].res # NoResource
          BY <1>2, <1>11, <3>1 DEF StudyItems
        <5> QED
          BY <1>1, <2>2, <5>1 DEF WalkItem
      <4>3. PICK u \in DOMAIN cs.resources : items[m].res = cs.resources[u].id
        BY <4>2, Zenon DEF FirstLesson
      <4>4. u \in Started(base, s, cs)
        BY <4>1, <4>3 DEF Started, StudyOf
      <4>5. r \notin Started(base, s, cs)
        <5>1. SUFFICES ASSUME r \in Started(base, s, cs) PROVE FALSE
          OBVIOUS
        <5>2. PICK k \in StudyItems(base, s) : base[k].res = cs.resources[r].id
          BY <5>1 DEF Started, StudyOf
        <5>3. k = m
          BY <4>1, BaseStudies DEF Extended
        <5> QED
          BY <1>8, <1>11, <4>1, <5>2, <5>3
      <4>6. r \in Startable(base, s, cs)
        BY <1>8, <4>5 DEF Chosen
      <4>7. StudyTurn(base, s, cs, u) < StudyTurn(base, s, cs, r)
        BY <1>2, <1>4, <4>4, <4>6, TurnsDiffer
      <4> QED
        BY <4>3, <4>4, <4>7, Zenon DEF Chosen
    <3>2. CASE m \in Added(base, items)
      <4>1. PICK u, d : u = at[nth[m]][1] /\ d = at[nth[m]][2]
        OBVIOUS
      <4>2. AtSession(items[m], nth[m], at, u, d, base, cs)
        BY <1>1, <1>5, <2>2, <3>2, <4>1, AddedAtSession
      <4>3. /\ u \in DOMAIN cs.resources /\ u \in Chosen(base, s, cs) /\ items[m].res = cs.resources[u].id
        BY <2>2, <4>2, Zenon DEF AtSession, From, Continues
      <4>4. nth[m] < nth[n]
        BY <1>1, <1>11, <2>2, <3>2 DEF Extended, ToppedUp, ChainsContinue
      <4>5. nth[m] \in 1..Len(ChainQueue(base, s, cs)) /\ nth[n] \in 1..Len(ChainQueue(base, s, cs))
        BY <1>1, <1>7, <2>2, <4>2, Zenon DEF AtSession
      <4>6. \/ StudyTurn(base, s, cs, u) < StudyTurn(base, s, cs, r)
            \/ u = r /\ d < c
        <5>1. \A a, b \in 1..Len(ChainQueue(base, s, cs)) : a < b =>
                \/ StudyTurn(base, s, cs, at[a][1]) < StudyTurn(base, s, cs, at[b][1])
                \/ at[a][1] = at[b][1] /\ at[a][2] < at[b][2]
          BY <1>5, QueueAscends, Zenon
        <5>2. \/ StudyTurn(base, s, cs, at[nth[m]][1]) < StudyTurn(base, s, cs, at[nth[n]][1])
              \/ at[nth[m]][1] = at[nth[n]][1] /\ at[nth[m]][2] < at[nth[n]][2]
          BY <4>4, <4>5, <5>1, Zenon
        <5>3. u = at[nth[m]][1] /\ d = at[nth[m]][2] /\ r = at[nth[n]][1] /\ c = at[nth[n]][2]
          BY <1>6, <4>1, Zenon
        <5> QED
          BY <5>2, <5>3, SMT
      <4>7. u # r
        BY <1>8, <1>11, <4>3
      <4> QED
        BY <4>3, <4>6, <4>7, Zenon
    <3> QED
      BY <1>2, <2>2, <3>1, <3>2
  <2>4. ASSUME NEW x \in OfferedSession(cs, items[m].res)
        PROVE  \E k \in StudyItems(items, s) : /\ k < n /\ items[k].res = items[m].res
                                               /\ items[k].index = x.index
    <3>1. PICK k, d : OfferedBy(x, items[m].res, k, d, cs)
      BY <1>4, OfferedAt
    <3>2. k = u
      BY <1>4, <2>3, <3>1, Zenon DEF OfferedBy, CandidateFits
    <3>3. StudiedBy(items, s, x, n)
      BY <1>9, <2>3, <3>1, <3>2, Zenon DEF OfferedBy
    <3>4. x.res = items[m].res
      BY <3>1, Zenon DEF OfferedBy
    <3> QED
      BY <3>3, <3>4 DEF StudiedBy
  <2> QED
    BY <2>1, <2>4
<1> QED
  BY <1>1, <1>10, <1>11 DEF StudiesInOrder

(* What moving the practice leaves alone.                                  *)
PracticeMoved(new, items) ==
  /\ Len(new) = Len(items) /\ DOMAIN new = 1..Len(items)
  /\ \A n \in 1..Len(items) :
       /\ new[n].type = items[n].type /\ new[n].skill = items[n].skill /\ new[n].res = items[n].res
       /\ new[n].index = items[n].index /\ new[n].bank = items[n].bank /\ new[n].est = items[n].est
       /\ new[n].difficulty = items[n].difficulty
       /\ items[n].type # "practice" => new[n] = items[n]
       /\ items[n].type = "practice" /\ StudyItems(items, items[n].skill) # {} =>
            /\ new[n].dep = LastStudy(items, items[n].skill)
            /\ new[n].day = items[LastStudy(items, items[n].skill)].day
  /\ \A s : StudyItems(new, s) = StudyItems(items, s)
  /\ \A s : \A n \in StudyItems(items, s) : n \in 1..Len(items) /\ new[n] = items[n]

LEMMA PracticeMoves ==
  ASSUME NEW items \in Seq(PlanItem), NEW new, new = PracticeAfterStudy(items)
  PROVE  PracticeMoved(new, items)
<1>1. PICK N \in Nat : N = Len(items) /\ DOMAIN items = 1..N /\ \A n \in 1..N : items[n] \in PlanItem
  BY ItemsTyped
<1>2. PICK f : f = [n \in 1..N |-> IF items[n].type = "practice" /\ StudyItems(items, items[n].skill) # {}
                     THEN [items[n] EXCEPT !.day = items[LastStudy(items, items[n].skill)].day,
                                           !.dep = LastStudy(items, items[n].skill)]
                     ELSE items[n]]
  BY Zenon
<1>3. new = [n \in 1..N |-> f[n]]
  BY <1>1, <1>2, Zenon DEF PracticeAfterStudy
<1>4. Len(new) = N /\ DOMAIN new = 1..N
  BY <1>3, LengthOf
<1>5. ASSUME NEW n \in 1..N
      PROVE  /\ new[n].type = items[n].type /\ new[n].skill = items[n].skill /\ new[n].res = items[n].res
             /\ new[n].index = items[n].index /\ new[n].bank = items[n].bank /\ new[n].est = items[n].est
             /\ new[n].difficulty = items[n].difficulty
             /\ items[n].type # "practice" => new[n] = items[n]
             /\ items[n].type = "practice" /\ StudyItems(items, items[n].skill) # {} =>
                  /\ new[n].dep = LastStudy(items, items[n].skill)
                  /\ new[n].day = items[LastStudy(items, items[n].skill)].day
  <2>1. PICK i, last : i = items[n] /\ last = LastStudy(items, items[n].skill)
    OBVIOUS
  <2>2. i \in PlanItem
    BY <1>1, <2>1
  <2>3. CASE i.type = "practice" /\ StudyItems(items, i.skill) # {}
    <3>1. new[n] = [i EXCEPT !.day = items[last].day, !.dep = last]
      BY <1>2, <1>3, <2>1, <2>3, Zenon
    <3> QED
      BY <2>1, <2>2, <2>3, <3>1 DEF PlanItem
  <2>4. CASE ~ (i.type = "practice" /\ StudyItems(items, i.skill) # {})
    <3>1. new[n] = i
      BY <1>2, <1>3, <2>1, <2>4, Zenon
    <3> QED
      BY <2>1, <2>4, <3>1
  <2> QED
    BY <2>3, <2>4
<1>6. ASSUME NEW s PROVE StudyItems(new, s) = StudyItems(items, s)
  BY <1>1, <1>4, <1>5 DEF StudyItems
<1>7. ASSUME NEW s, NEW n \in StudyItems(items, s) PROVE n \in 1..N /\ new[n] = items[n]
  BY <1>1, <1>5 DEF StudyItems
<1> QED
  BY <1>1, <1>4, <1>5, <1>6, <1>7 DEF PracticeMoved

(* Every practice of the whole has study to follow.                        *)
LEMMA PracticeHasStudy ==
  ASSUME NEW candidates, NEW level, CandsFit(candidates, level), NEW budget, NEW newSkillCap,
         NEW base, NEW st, NEW nth, Extended(st, nth, base, candidates, budget, newSkillCap),
         NEW n \in 1..Len(st.items), st.items[n].type = "practice"
  PROVE  StudyItems(st.items, st.items[n].skill) # {}
<1>1. n \notin Added(base, st.items)
  BY ExtendedItems DEF NthOfChain, Continues
<1>2. /\ n \in 1..Len(base) /\ st.items[n] = base[n]
      /\ \A m \in 1..Len(base) : m \in 1..Len(st.items) /\ st.items[m] = base[m]
      /\ base \in Seq(PlanItem) /\ st.items \in Seq(PlanItem)
  BY <1>1, ExtendedItems
<1>3. base[n].skill \in TaughtSkills(base)
  BY <1>2 DEF Extended, Walked
<1>4. PICK m \in Lessons(base) : base[m].skill = base[n].skill
  BY <1>3 DEF TaughtSkills
<1>5. m \in 1..Len(base) /\ m \in StudyItems(base, base[n].skill)
  BY <1>4, BaseStudies DEF Extended
<1>6. m \in StudyItems(st.items, st.items[n].skill)
  BY <1>2, <1>5, ItemsTyped DEF StudyItems
<1> QED
  BY <1>6

(* The order of study of the plan as a whole.                              *)
InOrder(items, candidates) ==
  \A n \in DOMAIN items :
    /\ items[n].type = "resource" => StudiesInOrder(items, n, candidates[items[n].skill])
    /\ items[n].type = "practice" => PractisesAfterStudy(items, n)

LEMMA FallbackInOrder ==
  ASSUME NEW candidates, NEW level, CandsFit(candidates, level), NEW budget, NEW newSkillCap,
         NEW base, NEW st, NEW nth, Extended(st, nth, base, candidates, budget, newSkillCap),
         NEW new, new = PracticeAfterStudy(st.items)
  PROVE  InOrder(new, candidates)
<1>1. PICK items : items = st.items /\ items \in Seq(PlanItem)
  BY ExtendedItems
<1>2. PracticeMoved(new, items)
  BY <1>1, PracticeMoves
<1>3. DOMAIN new = 1..Len(items)
  BY <1>2 DEF PracticeMoved
<1>4. ASSUME NEW n \in 1..Len(items), new[n].type = "resource"
      PROVE  StudiesInOrder(new, n, candidates[new[n].skill])
  <2>1. new[n] = items[n] /\ items[n].type = "resource"
    BY <1>2, <1>4 DEF PracticeMoved
  <2>2. PICK cs, s : cs = candidates[items[n].skill] /\ s = items[n].skill
    OBVIOUS
  <2>3. StudiesInOrder(items, n, cs)
    <3>1. CASE n \in 1..Len(base)
      BY <1>1, <2>1, <2>2, <3>1, WalkInOrder
    <3>2. CASE n \in Added(base, st.items)
      BY <1>1, <2>2, <3>2, TopUpInOrder
    <3> QED
      BY <1>1, <3>1, <3>2, ExtendedItems
  <2>4. StudyItems(new, s) = StudyItems(items, s) /\ \A m \in StudyItems(items, s) : new[m] = items[m]
    BY <1>2 DEF PracticeMoved
  <2> QED
    BY <2>1, <2>2, <2>3, <2>4 DEF StudiesInOrder
<1>5. ASSUME NEW n \in 1..Len(items), new[n].type = "practice"
      PROVE  PractisesAfterStudy(new, n)
  <2>1. PICK s : s = items[n].skill /\ s = new[n].skill /\ items[n].type = "practice"
    BY <1>2, <1>5 DEF PracticeMoved
  <2>2. StudyItems(items, s) # {}
    BY <1>1, <2>1, PracticeHasStudy
  <2>3. PICK last : /\ last = LastStudy(items, s) /\ last \in StudyItems(items, s)
                    /\ \A m \in StudyItems(items, s) : items[m].day <= items[last].day
    BY <1>1, <2>2, LastStudyIsLast
  <2>4. new[n].dep = last /\ new[n].day = items[last].day
    BY <1>2, <2>1, <2>2, <2>3 DEF PracticeMoved
  <2>5. StudyItems(new, s) = StudyItems(items, s) /\ \A m \in StudyItems(items, s) : new[m] = items[m]
    BY <1>2 DEF PracticeMoved
  <2> QED
    BY <2>1, <2>3, <2>4, <2>5 DEF PractisesAfterStudy
<1> QED
  BY <1>3, <1>4, <1>5 DEF InOrder

(* ------------------- G2: the bounds of the fallback plan ----------------- *)

(* What an item of the plan may use, and how hard it may be.               *)
Teachable(i, candidates, level) ==
  /\ i.skill \in DOMAIN candidates
  /\ i.res = NoResource \/ i.res \in OfferedResource(candidates[i.skill])
  /\ i.bank <= candidates[i.skill].bank
  /\ i.difficulty <= level[i.skill] + 1

LEMMA ExtendedUsable ==
  ASSUME NEW candidates, NEW level, CandsFit(candidates, level), NEW budget, NEW newSkillCap,
         NEW base, NEW st, NEW nth, Extended(st, nth, base, candidates, budget, newSkillCap),
         NEW n \in 1..Len(st.items)
  PROVE  Teachable(st.items[n], candidates, level)
<1>1. PICK i : i = st.items[n]
  OBVIOUS
<1>2. CASE n \in 1..Len(base)
  <2>1. WalkItem(i, candidates)
    BY <1>1, <1>2, ExtendedItems
  <2>2. PICK cs : cs = candidates[i.skill] /\ CandidateFits(cs) /\ cs.current = level[i.skill]
    BY <2>1 DEF WalkItem, CandsFit
  <2>3. i.res = NoResource \/ i.res \in OfferedResource(cs)
    BY <2>1, <2>2 DEF WalkItem, FirstLesson, OfferedResource
  <2> QED
    BY <1>1, <2>1, <2>2, <2>3 DEF WalkItem, Teachable
<1>3. CASE n \in Added(base, st.items)
  <2>1. PICK s, cs : s = i.skill /\ cs = candidates[s]
    OBVIOUS
  <2>2. NthOfChain(i, nth[n], st, base, candidates) /\ base \in Seq(PlanItem)
    BY <1>1, <1>3, ExtendedItems
  <2>3. s \in DOMAIN candidates
    BY <2>1, <2>2 DEF NthOfChain, Chains
  <2>4. CandidateFits(cs) /\ cs.current = level[s]
    BY <2>1, <2>3 DEF CandsFit
  <2>5. PICK at : QueuedAt(at, ChainQueue(base, s, cs), base, s, cs)
    BY <2>2, <2>4, QueueOrder
  <2>6. AtSession(i, nth[n], at, at[nth[n]][1], at[nth[n]][2], base, cs)
    BY <1>1, <1>3, <2>1, <2>5, AddedAtSession
  <2>7. PICK r \in DOMAIN cs.resources : i.res = cs.resources[r].id
    BY <2>6, Zenon DEF AtSession, From, Continues
  <2>8. i.res \in OfferedResource(cs)
    BY <2>7 DEF OfferedResource
  <2>9. i.bank = 0 /\ i.difficulty = DifficultyFor(cs)
    BY <2>6, Zenon DEF AtSession, Continues
  <2>10. i.bank <= cs.bank /\ i.difficulty <= cs.current + 1
    <3>1. 0 <= cs.bank
      BY <2>4 DEF CandidateFits
    <3> QED
      BY <2>4, <2>9, <3>1, ReachOfDifficulty
  <2> QED
    BY <1>1, <2>1, <2>3, <2>4, <2>8, <2>10 DEF Teachable
<1> QED
  BY <1>2, <1>3, ExtendedItems

(* Only what the walk taught gets lessons.                                 *)
LEMMA ExtendedTeaches ==
  ASSUME NEW candidates, NEW level, CandsFit(candidates, level), NEW budget, NEW newSkillCap,
         NEW base, NEW st, NEW nth, Extended(st, nth, base, candidates, budget, newSkillCap),
         NEW n \in 1..Len(st.items), st.items[n].type \in LessonType
  PROVE  st.items[n].skill \in TaughtSkills(base)
<1>1. PICK i : i = st.items[n]
  OBVIOUS
<1>2. CASE n \in 1..Len(base)
  <2>1. i = base[n] /\ WalkItem(i, candidates) /\ base \in Seq(PlanItem)
    BY <1>1, <1>2, ExtendedItems
  <2>2. i.type \in {"resource", "practice"}
    BY <1>1, <2>1 DEF WalkItem, FirstLesson, LessonType
  <2>3. CASE i.type = "resource"
    BY <1>1, <1>2, <2>1, <2>3, ItemsTyped DEF TaughtSkills, Lessons
  <2>4. CASE i.type = "practice"
    BY <1>1, <1>2, <2>1, <2>4 DEF Extended, Walked
  <2> QED
    BY <2>2, <2>3, <2>4
<1>3. CASE n \in Added(base, st.items)
  <2>1. StudyItems(base, i.skill) # {}
    BY <1>1, <1>3, ExtendedItems DEF NthOfChain, Chains
  <2>2. PICK m \in StudyItems(base, i.skill) : base[m].skill = i.skill
    BY <2>1 DEF StudyItems
  <2>3. m \in Lessons(base)
    BY <2>2 DEF StudyItems, Lessons
  <2> QED
    BY <1>1, <2>2, <2>3 DEF TaughtSkills
<1> QED
  BY <1>2, <1>3, ExtendedItems

(* No objective studies a session twice.                                   *)
LEMMA ExtendedApart ==
  ASSUME NEW candidates, NEW level, CandsFit(candidates, level), NEW budget, NEW newSkillCap,
         NEW base, NEW st, NEW nth, Extended(st, nth, base, candidates, budget, newSkillCap),
         NEW m \in 1..Len(st.items), NEW n \in 1..Len(st.items), m < n,
         st.items[m].res # NoResource,
         st.items[m].skill = st.items[n].skill, st.items[m].res = st.items[n].res,
         st.items[m].index = st.items[n].index
  PROVE  FALSE
<1>1. PICK items, s, cs : items = st.items /\ s = items[n].skill /\ cs = candidates[s]
  OBVIOUS
<1>2. /\ base \in Seq(PlanItem) /\ Len(base) \in Nat /\ Len(items) \in Nat
      /\ \A k \in 1..Len(base) : items[k] = base[k]
      /\ \A k \in 1..Len(items) : k \in 1..Len(base) \/ k \in Added(base, items)
      /\ \A k \in Added(base, items) : NthOfChain(items[k], nth[k], st, base, candidates)
  <2>1. base \in Seq(PlanItem) /\ Len(base) \in Nat /\ Len(st.items) \in Nat
    BY ExtendedItems
  <2>2. \A k \in 1..Len(base) : st.items[k] = base[k]
    BY ExtendedItems
  <2>3. \A k \in 1..Len(st.items) : k \in 1..Len(base) \/ k \in Added(base, st.items)
    BY ExtendedItems
  <2>4. \A k \in Added(base, st.items) : NthOfChain(st.items[k], nth[k], st, base, candidates)
    BY ExtendedItems
  <2> QED
    BY <1>1, <2>1, <2>2, <2>3, <2>4, Zenon
<1>3. CASE n \in 1..Len(base)
  <2>1. m \in 1..Len(base)
    BY <1>1, <1>2, <1>3
  <2>2. items[m] = base[m] /\ items[n] = base[n]
    BY <1>2, <1>3, <2>1
  <2>3. m \in Lessons(base) /\ n \in Lessons(base)
    BY <1>1, <1>3, <2>1, <2>2, BaseStudies DEF Extended
  <2>4. m # n
    BY <1>2, <1>3
  <2> QED
    BY <1>1, <2>2, <2>3, <2>4 DEF Extended, Walked
<1>4. CASE n \in Added(base, items)
  <2>1. NthOfChain(items[n], nth[n], st, base, candidates)
    BY <1>2, <1>4
  <2>2. s \in Chains(base, candidates) /\ nth[n] \in 1..st.taken[s]
        /\ Continues(items[n], s, cs, st.queue[s][nth[n]])
    BY <1>1, <2>1 DEF NthOfChain
  <2>3. st.queue[s] = ChainQueue(base, s, cs) /\ CandidateFits(cs)
        /\ st.taken[s] <= Len(st.queue[s]) /\ st.taken[s] \in Nat
    BY <1>1, <2>2 DEF Extended, ToppedUp, TopUpStates, Queues, ChainsContinue, Chains, CandsFit
  <2>4. PICK q : q = st.queue[s] /\ QueueFits(q, base)
    BY <1>2, <2>3, QueueHasNoRepeats
  <2>5. nth[n] \in 1..Len(q)
    BY <2>2, <2>3, <2>4 DEF QueueFits
  <2>6. items[n].res = q[nth[n]].res /\ items[n].index = q[nth[n]].index
    BY <2>2, <2>4 DEF Continues
  <2>7. CASE m \in 1..Len(base)
    <3>1. items[m] = base[m] /\ m \in DOMAIN base
      BY <1>2, <2>7, ItemsTyped
    <3>2. Scheduled(base, q[nth[n]])
      BY <1>1, <2>6, <3>1 DEF Scheduled
    <3> QED
      BY <2>4, <2>5, <3>2 DEF QueueFits
  <2>8. CASE m \in Added(base, items)
    <3>1. NthOfChain(items[m], nth[m], st, base, candidates)
      BY <1>2, <2>8
    <3>2. nth[m] \in 1..st.taken[s] /\ Continues(items[m], s, cs, q[nth[m]])
      BY <1>1, <2>4, <3>1 DEF NthOfChain
    <3>3. nth[m] \in 1..Len(q)
      BY <2>3, <2>4, <3>2 DEF QueueFits
    <3>4. q[nth[m]].res = q[nth[n]].res /\ q[nth[m]].index = q[nth[n]].index
      BY <1>1, <2>6, <3>2 DEF Continues
    <3>5. nth[m] = nth[n]
      BY <2>4, <2>5, <3>3, <3>4 DEF QueueFits
    <3>6. nth[m] < nth[n]
      BY <1>1, <1>4, <2>8 DEF Extended, ToppedUp, ChainsContinue
    <3>7. nth[n] \in Int
      BY <2>2, <2>3
    <3> QED
      BY <3>5, <3>6, <3>7
  <2> QED
    BY <1>1, <1>2, <2>7, <2>8
<1> QED
  BY <1>1, <1>2, <1>3, <1>4

LEMMA ExtendedFits ==
  ASSUME NEW candidates, NEW level, CandsFit(candidates, level), NEW budget \in Nat, NEW newSkillCap,
         NEW base, NEW st, NEW nth, Extended(st, nth, base, candidates, budget, newSkillCap)
  PROVE  Minutes(st.items) <= budget
<1>1. base \in Seq(PlanItem) /\ st.items \in Seq(PlanItem)
  BY ExtendedItems
<1>2. PICK M \in Nat, N \in Nat : M = Len(base) /\ N = Len(st.items)
  BY <1>1, ItemsTyped
<1>3. M <= N /\ (\A k \in 1..M : st.items[k] = base[k])
      /\ (M < N => ~ OverTarget(Minutes(st.items), budget))
  BY <1>2 DEF Extended, ToppedUp, OldStands
<1>4. CASE M < N
  <2>1. Minutes(st.items) \in Int
    BY <1>1, ItemsTyped, MinutesAreInt
  <2>2. 5 * Minutes(st.items) <= 4 * budget
    BY <1>3, <1>4, <2>1 DEF OverTarget
  <2> QED
    BY <2>1, <2>2
<1>5. CASE M = N
  <2>1. ~ (Len(base) < Len(st.items))
    BY <1>2, <1>5
  <2>2. Len(base) <= Len(st.items) /\ \A k \in 1..Len(base) : st.items[k] = base[k]
    BY <1>2, <1>3
  <2>3. st.items = base
    BY <1>1, <2>1, <2>2, PrefixOf
  <2> QED
    BY <2>3 DEF Extended, Walked
<1> QED
  BY <1>2, <1>3, <1>4, <1>5

(* The bounds of the plan as a whole.                                      *)
InBounds(items, candidates, level, status, budget, newSkillCap) ==
  /\ WithinBudget(items, budget)
  /\ RefersToCandidates(items, candidates)
  /\ WithinReach(items, level)
  /\ FewNewSkills(items, status, newSkillCap)
  /\ NoDuplicates(items)

LEMMA FallbackInBounds ==
  ASSUME NEW candidates, NEW level, CandsFit(candidates, level), NEW status,
         NEW budget \in Nat, NEW newSkillCap \in Nat,
         NEW base, NEW st, NEW nth, Extended(st, nth, base, candidates, budget, newSkillCap),
         NEW new, new = PracticeAfterStudy(st.items)
  PROVE  InBounds(new, candidates, level, status, budget, newSkillCap)
<1>1. PICK items : items = st.items /\ items \in Seq(PlanItem)
  BY ExtendedItems
<1>2. PICK N \in Nat : N = Len(items) /\ Lengths(items)
  BY <1>1, ItemsTyped
<1>3. /\ Len(new) = N /\ DOMAIN new = 1..N
      /\ \A n \in 1..N :
           /\ new[n].type = items[n].type /\ new[n].skill = items[n].skill
           /\ new[n].res = items[n].res /\ new[n].index = items[n].index
           /\ new[n].bank = items[n].bank /\ new[n].est = items[n].est
           /\ new[n].difficulty = items[n].difficulty
  BY <1>1, <1>2, PracticeMoves DEF PracticeMoved
<1>4. WithinBudget(new, budget)
  <2>1. Minutes(new) = Minutes(items)
    BY <1>2, <1>3, SameMinutes
  <2> QED
    BY <1>1, <2>1, ExtendedFits DEF WithinBudget
<1>5. \A n \in 1..N : Teachable(items[n], candidates, level)
  BY <1>1, <1>2, ExtendedUsable
<1>6. RefersToCandidates(new, candidates)
  BY <1>3, <1>5 DEF RefersToCandidates, Teachable
<1>7. WithinReach(new, level)
  BY <1>3, <1>5 DEF WithinReach, Teachable
<1>8. FewNewSkills(new, status, newSkillCap)
  <2>1. PICK taught : taught = {s \in Skill : /\ status[s] # "MET"
                                   /\ \E n \in DOMAIN new : /\ new[n].skill = s
                                                            /\ new[n].type \in LessonType}
    OBVIOUS
  <2>2. taught \subseteq TaughtSkills(base)
    <3>1. \A n \in 1..N : items[n].type \in LessonType => items[n].skill \in TaughtSkills(base)
      BY <1>1, <1>2, ExtendedTeaches
    <3> QED
      BY <1>3, <2>1, <3>1
  <2>3. IsFiniteSet(TaughtSkills(base)) /\ Cardinality(TaughtSkills(base)) <= newSkillCap
    BY DEF Extended, Walked
  <2>4. /\ Cardinality(taught) <= Cardinality(TaughtSkills(base))
        /\ Cardinality(taught) \in Nat /\ Cardinality(TaughtSkills(base)) \in Nat
    BY <2>2, <2>3, FS_Subset, FS_CardinalityType
  <2>5. Cardinality(taught) <= newSkillCap
    BY <2>3, <2>4
  <2> QED
    BY <2>1, <2>5 DEF FewNewSkills
<1>9. NoDuplicates(new)
  <2>1. SUFFICES ASSUME NEW m \in 1..N, NEW n \in 1..N, m # n, items[m].res # NoResource,
                        items[m].skill = items[n].skill, items[m].res = items[n].res,
                        items[m].index = items[n].index
                 PROVE  FALSE
    <3>1. \A m, n \in 1..N : m # n /\ items[m].res # NoResource =>
            \/ items[m].skill # items[n].skill
            \/ items[m].res # items[n].res
            \/ items[m].index # items[n].index
      BY <2>1
    <3>2. \A m, n \in 1..N : m # n /\ new[m].res # NoResource =>
            \/ new[m].skill # new[n].skill
            \/ new[m].res # new[n].res
            \/ new[m].index # new[n].index
      BY <1>3, <3>1
    <3> QED
      BY <1>3, <3>2 DEF NoDuplicates
  <2>2. m < n \/ n < m
    BY <1>2, <2>1
  <2> QED
    BY <1>1, <1>2, <2>1, <2>2, ExtendedApart
<1> QED
  BY <1>4, <1>6, <1>7, <1>8, <1>9 DEF InBounds

(* ------------------------ G2: the fallback plan is sound ----------------- *)

Sound(items, candidates, level, status, budget, newSkillCap) ==
  /\ InBounds(items, candidates, level, status, budget, newSkillCap)
  /\ InOrder(items, candidates)

LEMMA BuiltIsSound ==
  ASSUME NEW candidates, NEW level, CandsFit(candidates, level), NEW status,
         NEW budget \in Nat, NEW newSkillCap \in Nat
  PROVE  Sound(BuildFallbackPlan(candidates, budget, newSkillCap),
               candidates, level, status, budget, newSkillCap)
<1>1. PICK base : base = Breadth(Frontier(candidates), candidates, budget, newSkillCap)
  OBVIOUS
<1>2. Walked(base, DOMAIN candidates, candidates, budget, newSkillCap)
  BY <1>1, BreadthWalked
<1>3. base \in Seq(PlanItem)
  BY <1>2 DEF Walked
<1>4. PICK st, nth : ToppedUp(st, nth, base, candidates, budget)
                     /\ ExtendPlan(base, candidates, budget) = st.items
  BY <1>3, ExtendPlanToppedUp
<1>5. Extended(st, nth, base, candidates, budget, newSkillCap)
  BY <1>2, <1>4 DEF Extended
<1>6. PICK new : new = PracticeAfterStudy(st.items)
  OBVIOUS
<1>7. BuildFallbackPlan(candidates, budget, newSkillCap) = new
  <2>1. PICK whole : whole = {ExtendPlan(items, candidates, budget) : items \in {base}}
    OBVIOUS
  <2>2. whole = {st.items}
    BY <1>4, <2>1
  <2>3. {PracticeAfterStudy(items) : items \in whole} = {new}
    BY <1>6, <2>2
  <2>4. BuildFallbackPlan(candidates, budget, newSkillCap)
          = CHOOSE plan \in {PracticeAfterStudy(items) : items \in whole} : TRUE
    BY <1>1, <2>1 DEF BuildFallbackPlan
  <2> QED
    BY <2>3, <2>4
<1>8. InBounds(new, candidates, level, status, budget, newSkillCap)
  BY <1>5, <1>6, FallbackInBounds
<1>9. InOrder(new, candidates)
  BY <1>5, <1>6, FallbackInOrder
<1> QED
  BY <1>7, <1>8, <1>9 DEF Sound

(* A step that does not make the fallback plan leaves no degraded plan     *)
(* behind that was not there before.                                       *)
LEMMA DraftSteps ==
  ASSUME [PlanningNext]_planningVars, ~FallbackPlan
  PROVE  \/ node' # "end"
         \/ ~final'.degraded
         \/ /\ node = "end"
            /\ UNCHANGED <<request, gaps, cands, final>>
<1>1. CASE AcceptDraft
  BY <1>1 DEF AcceptDraft
<1>2. CASE UNCHANGED planningVars
  BY <1>2 DEF planningVars
<1>3. CASE PlanningNext /\ ~AcceptDraft
  BY <1>3 DEF PlanningNext, BuildObjectives, RetrieveCandidates, PlanDraft, Question, ReplayHit,
       ReplayMissBeforeLive, ReplayMissAfterLive, NoAnswer, LiveAnswer, LiveRetry,
       LiveFails, AnswerRejected, AnswerParsed, AnswerRaises, RejectDraft
<1> QED
  BY <1>1, <1>2, <1>3

(* The fallback plan, which nothing validates, stays within the budget, the*)
(* candidates, the difficulty band and the cap on new skills, plans no     *)
(* session twice for a skill, and studies in order: whatever was retrieved,*)
(* each objective takes the next session of its resource, ends one resource*)
(* before the next, and practises after its last lesson                    *)
(* (build_fallback_plan, extend_plan).                                     *)
THEOREM FallbackSound == PlanningSpec => []FallbackIsSound
<1> DEFINE Ended == node = "end" /\ final.degraded =>
             Sound(final.items, cands, gaps.level, gaps.status, request.budget, request.newSkillCap)
<1>1. PlanningInit => Ended
  BY DEF PlanningInit
<1>2. Ended /\ PlanInv /\ [PlanningNext]_planningVars => Ended'
  <2> SUFFICES ASSUME Ended, PlanInv, [PlanningNext]_planningVars, node' = "end", final'.degraded
               PROVE  Sound(final.items, cands, gaps.level, gaps.status,
                            request.budget, request.newSkillCap)'
    OBVIOUS
  <2>1. CASE FallbackPlan
    <3>1. CandsFit(cands, gaps.level) /\ request.budget \in Nat /\ request.newSkillCap \in Nat
      BY <2>1 DEF FallbackPlan, PlanInv, PlanTypes
    <3>2. Sound(BuildFallbackPlan(cands, request.budget, request.newSkillCap),
                cands, gaps.level, gaps.status, request.budget, request.newSkillCap)
      BY <3>1, BuiltIsSound
    <3>3. /\ final'.items = BuildFallbackPlan(cands, request.budget, request.newSkillCap)
          /\ UNCHANGED <<request, gaps, cands>>
      BY <2>1 DEF FallbackPlan
    <3> QED
      BY <3>2, <3>3
  <2>2. CASE ~FallbackPlan
    <3>1. node = "end" /\ UNCHANGED <<request, gaps, cands, final>>
      BY <2>2, DraftSteps
    <3> QED
      BY <3>1
  <2> QED
    BY <2>1, <2>2
<1>3. Ended => FallbackIsSound
  BY DEF FallbackIsSound, FallbackStaysInBounds, FallbackStudiesInOrder, Sound, InBounds, InOrder
<1> QED
  BY <1>1, <1>2, <1>3, PlanInvHolds, PTL DEF PlanningSpec

LEMMA CandidatesAreTeachable ==
  ASSUME ReachInv, NEW items, RefersToCandidates(items, cands), node = "end"
  PROVE  TeachesReachable(items)
<1> SUFFICES ASSUME NEW n \in DOMAIN items
      PROVE /\ \A p \in HardParents(items[n].skill) :
                 RawStatus(request.learner, p) \in {"MET", "UNVERIFIED"}
            /\ items[n].res # NoResource =>
                 RawStatus(request.learner, items[n].skill) \in {"WEAK", "MISSING"}
  BY DEF TeachesReachable
<1> DEFINE s == items[n].skill
<1>1. s \in DOMAIN cands
  BY DEF RefersToCandidates
<1>2. s \in RootGaps(request.learner)
      /\ (RawStatus(request.learner, s) = "UNVERIFIED" => cands[s].resources = <<>>)
  BY <1>1 DEF ReachInv, ReachableCandidates
<1>3. ASSUME items[n].res # NoResource
      PROVE  cands[s].resources # <<>>
  <2>1. items[n].res \in OfferedResource(cands[s])
    BY <1>3 DEF RefersToCandidates
  <2>2. cands[s].resources = <<>> => OfferedResource(cands[s]) = {}
    BY DEF OfferedResource
  <2> QED
    BY <2>1, <2>2
<1> QED
  BY <1>2, <1>3, RootGapIsReachable, RawStatusRange

(* Whoever made the plan, model or fallback, a skill with a hard           *)
(* prerequisite that is WEAK or MISSING gets no item, and a skill that is  *)
(* only claimed is verified, not taught (analyze_gaps,                     *)
(* build_candidate_sets).                                                  *)
THEOREM OnlyReachable == PlanningSpec => []OnlyReachableSkillsTaught
<1>1. ASSUME ReachInv, CommittedDraftIsValid, FallbackIsSound PROVE OnlyReachableSkillsTaught
  <2> SUFFICES ASSUME node = "end" PROVE TeachesReachable(final.items)
    BY DEF OnlyReachableSkillsTaught
  <2>1. RefersToCandidates(final.items, cands)
    <3>1. CASE final.degraded
      BY <1>1, <3>1 DEF FallbackIsSound, FallbackStaysInBounds
    <3>2. CASE ~final.degraded
      BY <1>1, <3>2 DEF CommittedDraftIsValid, Valid, ValidatePlan
    <3> QED
      BY <3>1, <3>2
  <2> QED
    BY <1>1, <2>1, CandidatesAreTeachable
<1> QED
  BY <1>1, ReachInvHolds, CommittedDraftHolds, FallbackSound, PTL

(* --------------------------- G4: its invariant -------------------------- *)

ToolNames == {"get_learner_state", "get_gaps", "get_current_plan", "get_revisions", "get_evidence",
              "explain_skill_path", "search_resources", "get_progress", "get_decision"}
ToolCalls == [tool : ToolNames, arg : {Nil} \cup UNION {{SkillOf(r), r.decision} : r \in Requests}]

(* What is true of a result once the commits up to last are made.          *)
ResultTrue(result, last) ==
  /\ result.tool \in ToolNames
  /\ result.cites \subseteq KnownIds(last)
  /\ result.cites \subseteq result.shown \cup BehindReport(result)
  /\ (/\ result.tool = "search_resources" /\ result.data
      /\ result.says.about \in GraphSkill) => Useful(result.says.about, ToSet(result.says.found))
  /\ (result.tool = "get_progress" /\ result.data) => AddsUp(result.says, last)

GapTrue(last) ==
  \E v \in started..last : gap = GapResult(History[started].learner, History[v].evidence)

ResultsTrue ==
  \A last \in {version} : \A result \in ToSet(results) : ResultTrue(result, last)
ReplyTrue ==
  /\ reply.kind = "answer" => reply.cites # {}
  /\ \A last \in {version} : reply.cites \subseteq KnownIds(last)
  /\ reply.cites \subseteq ShownIds

CountersFit ==
  /\ stage \in {"idle", "refuse", "call_tools"} => composeAttempts = 0
  /\ stage = "compose_answer" => composeAttempts < TUTOR_MAX_COMPOSE_ATTEMPTS
  /\ stage = "agent" => unparsed <= TUTOR_AGENT_MAX_RETRIES

TurnTrue ==
  /\ tools \in Seq(ToolCalls) /\ results \in Seq(ToSet(results))
  /\ stage = "idle" => results = <<>>
  /\ stage # "idle" => started \in 1..version
  /\ stage = "call_tools" => tools # <<>> /\ \A last \in {version} : GapTrue(last)
  /\ ResultsTrue
  /\ stage = "done" => ReplyTrue

TutorInv == TutorTypeOK /\ CountersFit /\ TurnTrue

(* ------------------------ G4: what the tools return --------------------- *)

(* A tool reads at version and ends when the commits up to later are made. *)
Reading(later) ==
  /\ version \in DOMAIN History /\ later \in version..Len(History)
  /\ started \in 1..version /\ GapTrue(version)

LEMMA ReadingVersions ==
  ASSUME NEW later, Reading(later)
  PROVE  /\ started \in DOMAIN History /\ version \in started..later
         /\ later \in DOMAIN History /\ later \in started..later
         /\ started..later \subseteq DOMAIN History
         /\ version <= later /\ version \in Nat /\ later \in Nat
<1>1. Len(History) \in Nat /\ DOMAIN History = 1..Len(History)
  BY HistoryAssumption
<1>2. version \in 1..Len(History) /\ later \in version..Len(History) /\ started \in 1..version
  BY <1>1 DEF Reading
<1> QED
  BY <1>1, <1>2

LEMMA OwnRows ==
  ASSUME NEW rec
  PROVE  /\ rec.plan \in OwnIds(rec) /\ DOMAIN rec.items \subseteq OwnIds(rec)
         /\ PlanIds(rec) \subseteq OwnIds(rec) /\ DecisionIds(rec) \subseteq OwnIds(rec)
         /\ \A s \in Skill : rec.evidence[s] \subseteq OwnIds(rec)
         /\ \A x \in rec.signals \cup rec.misconceptions : x.id \in OwnIds(rec)
<1>1. \A s \in Skill : rec.evidence[s] \subseteq EvidenceIds(rec)
  BY DEF EvidenceIds
<1>2. \A x \in rec.signals \cup rec.misconceptions : x.id \in NoticedIds(rec)
  BY DEF NoticedIds
<1> QED
  BY <1>1, <1>2 DEF OwnIds

LEMMA Known ==
  ASSUME NEW last
  PROVE  /\ GraphIds \subseteq KnownIds(last)
         /\ \A v \in started..last : OwnIds(History[v]) \subseteq KnownIds(last)
BY DEF KnownIds

LEMMA GapFacts ==
  ASSUME NEW later, Reading(later)
  PROVE  /\ \E v \in started..later : gap.evidence = History[v].evidence
         /\ \A s \in Skill : /\ gap.status[s] = FinalStatus(History[started].learner, s)
                             /\ gap.level[s] = History[started].learner[s].level
                             /\ gap.level[s] \in 0..3
                             /\ gap.status[s] \in Status
                             /\ gap.blocked_by[s] \subseteq Skill
                             /\ IsFiniteSet(gap.evidence[s])
                             /\ gap.evidence[s] \subseteq KnownIds(later)
<1>1. PICK v \in started..version : gap = GapResult(History[started].learner, History[v].evidence)
  BY DEF Reading, GapTrue
<1>2. v \in started..later /\ v \in DOMAIN History /\ started \in DOMAIN History
  BY <1>1, ReadingVersions
<1>3. PICK learner : learner = History[started].learner
  OBVIOUS
<1>4. learner \in Learner
  BY <1>2, <1>3, HistoryAssumption
<1>5. gap.evidence = History[v].evidence
  BY <1>1 DEF GapResult
<1>6. \A s \in Skill : gap.status[s] = FinalStatus(learner, s) /\ gap.level[s] = learner[s].level
  BY <1>1, <1>3 DEF GapResult, AnalyzeGaps
<1>7. ASSUME NEW s \in Skill PROVE gap.level[s] \in 0..3
  BY <1>4, <1>6 DEF Learner, LearnerRecord
<1>8. ASSUME NEW s \in Skill PROVE gap.status[s] \in Status
  BY <1>6, RawStatusRange DEF FinalStatus, Status
<1>9. ASSUME NEW s \in Skill PROVE gap.blocked_by[s] \subseteq Skill
  BY <1>1 DEF GapResult, HardParents
<1>10. ASSUME NEW s \in Skill
       PROVE  IsFiniteSet(gap.evidence[s]) /\ gap.evidence[s] \subseteq KnownIds(later)
  <2>1. gap.evidence[s] \subseteq OwnIds(History[v])
    BY <1>5, OwnRows
  <2>2. IsFiniteSet(History[v].evidence[s])
    BY <1>2, HistoryAssumption
  <2> QED
    BY <1>2, <1>5, <2>1, <2>2, Known
<1> QED
  BY <1>2, <1>3, <1>5, <1>6, <1>7, <1>8, <1>9, <1>10

LEMMA SomeOfExists ==
  ASSUME NEW S, IsFiniteSet(S), NEW n \in Nat
  PROVE  SomeOf(S, n) # {}
<1>1. PICK k : k = Min({n, Cardinality(S)})
  OBVIOUS
<1>2. Cardinality(S) \in Nat /\ ExistsBijection(1..Cardinality(S), S)
  BY FS_CardinalityType
<1>3. k \in Nat /\ k <= Cardinality(S)
  <2>1. PICK c : c = Cardinality(S)
    OBVIOUS
  <2>2. c \in Nat /\ k = Min({n, c})
    BY <1>1, <1>2, <2>1
  <2>3. k \in {n, c} /\ k <= n /\ k <= c
    BY <2>2 DEF Min
  <2> QED
    BY <2>1, <2>2, <2>3
<1>4. PICK f : f \in Bijection(1..Cardinality(S), S)
  BY <1>2 DEF ExistsBijection
<1>5. /\ f \in [1..Cardinality(S) -> S]
      /\ \A i, j \in 1..Cardinality(S) : f[i] = f[j] => i = j
  BY <1>4 DEF Bijection, Injection, IsInjective
<1>6. PICK T : T = {f[i] : i \in 1..k}
  OBVIOUS
<1>7. PICK g : g = [i \in 1..k |-> f[i]]
  OBVIOUS
<1>8. \A i \in 1..k : i \in 1..Cardinality(S)
  BY <1>2, <1>3
<1>9. g \in Bijection(1..k, T)
  BY <1>5, <1>6, <1>7, <1>8 DEF Bijection, Injection, IsInjective, Surjection
<1>10. Cardinality(T) = k
  <2>1. ExistsBijection(1..k, T)
    BY <1>9 DEF ExistsBijection
  <2>2. IsFiniteSet(1..k) /\ Cardinality(1..k) = k
    BY <1>3, FS_Interval
  <2> QED
    BY <2>1, <2>2, FS_Bijection
<1>11. T \in SUBSET S
  BY <1>5, <1>6, <1>8
<1> QED
  BY <1>1, <1>10, <1>11 DEF SomeOf

LEMMA FewAreSome ==
  ASSUME NEW S, IsFiniteSet(S)
  PROVE  Few(S) \subseteq S
<1>1. SomeOf(S, MAX_EVIDENCE_IDS_PER_ROW) # {}
  BY SomeOfExists, LimitsAssumption
<1>2. Few(S) \in SomeOf(S, MAX_EVIDENCE_IDS_PER_ROW)
  BY <1>1 DEF Few
<1> QED
  BY <1>2 DEF SomeOf

(* All that the other seven tools return may be cited, and no more.        *)
LEMMA PlainResult ==
  ASSUME NEW tool \in ToolNames, tool \notin {"search_resources", "get_progress"},
         NEW last, NEW ids, ids \subseteq KnownIds(last)
  PROVE  ResultTrue(Result(tool, ids, ids, NoWords), last)
<1>1. PICK result : result = Result(tool, ids, ids, NoWords)
  OBVIOUS
<1>2. result.tool = tool /\ result.cites = ids /\ result.shown = ids
  BY <1>1 DEF Result
<1> QED
  BY <1>1, <1>2 DEF ResultTrue

LEMMA NothingTrue ==
  ASSUME NEW tool \in ToolNames, NEW last
  PROVE  ResultTrue(Nothing(tool), last)
BY DEF ResultTrue, Nothing

LEMMA LearnerStateTrue ==
  ASSUME NEW then, NEW last, NEW result \in GetLearnerState(then)
  PROVE  ResultTrue(result, last)
<1>1. PICK S \in SUBSET Skill : result =
        Result("get_learner_state", {Role} \cup S, {Role} \cup S, NoWords)
  BY DEF GetLearnerState, SomeOf
<1>2. {Role} \cup S \subseteq KnownIds(last)
  BY Known DEF GraphIds, GraphSkill
<1> QED
  BY <1>1, <1>2, PlainResult DEF ToolNames

LEMMA GapsTrue ==
  ASSUME NEW later, Reading(later), NEW result \in GetGaps
  PROVE  ResultTrue(result, later)
<1>1. PICK S \in MostUrgent, T \in SomeOf(MetSkills, MAX_STRENGTHS_SHOWN) :
        result = Result("get_gaps", GapIds(S, T), GapIds(S, T), NoWords)
  BY DEF GetGaps
<1>2. S \subseteq Skill /\ T \subseteq Skill
  <2>1. MetSkills \subseteq Skill
    BY DEF MetSkills, WithStatus
  <2> QED
    BY <2>1 DEF MostUrgent, SomeOf
<1>3. Skill \subseteq KnownIds(later)
  BY Known DEF GraphIds, GraphSkill
<1>4. ASSUME NEW s \in Skill PROVE Few(gap.evidence[s]) \subseteq KnownIds(later)
  BY GapFacts, FewAreSome
<1>5. ASSUME NEW s \in Skill PROVE Few(gap.blocked_by[s]) \subseteq KnownIds(later)
  <2>1. gap.blocked_by[s] \in SUBSET Skill
    BY GapFacts
  <2>2. IsFiniteSet(gap.blocked_by[s])
    BY <2>1, GraphAssumption, FS_Subset
  <2> QED
    BY <1>3, <2>1, <2>2, FewAreSome
<1>6. EvidenceOf(S \cup T) \subseteq KnownIds(later)
  BY <1>2, <1>4 DEF EvidenceOf
<1>7. BlockersOf(S) \subseteq KnownIds(later)
  BY <1>2, <1>5 DEF BlockersOf
<1>8. GapIds(S, T) \subseteq KnownIds(later)
  BY <1>2, <1>3, <1>6, <1>7 DEF GapIds
<1> QED
  BY <1>1, <1>8, PlainResult DEF ToolNames

(* The records a plan refers to are there now and stay.                    *)
LEMMA PlanColumns ==
  ASSUME NEW later, Reading(later), NEW now, now = History[version], now.plan # Nil,
         NEW then, then = History[later]
  PROVE  /\ now.revision \in DOMAIN now.items /\ now.revision \in DOMAIN then.items
         /\ {now.plan, now.revision} \subseteq KnownIds(later)
<1>1. /\ version \in DOMAIN History /\ later \in DOMAIN History /\ version <= later
      /\ version \in started..later
  BY ReadingVersions DEF Reading
<1>2. now.revision \in DOMAIN now.items
  BY <1>1, HistoryAssumption
<1>3. DOMAIN now.items \subseteq DOMAIN then.items
  BY <1>1, HistoryAssumption
<1>4. {now.plan, now.revision} \subseteq OwnIds(History[version])
  BY <1>2, OwnRows
<1> QED
  BY <1>1, <1>2, <1>3, <1>4, Known

LEMMA ItemsKnown ==
  ASSUME NEW later, Reading(later), NEW r \in DOMAIN History[later].items,
         NEW i \in History[later].items[r]
  PROVE  /\ ItemIds(i) \subseteq KnownIds(later)
         /\ i.id # Nil /\ i.skill \in GraphSkill
<1>1. later \in DOMAIN History /\ later \in started..later
  BY ReadingVersions
<1>2. ItemIds(i) \subseteq OwnIds(History[later])
  <2>1. ItemIds(i) \subseteq PlanIds(History[later])
    BY DEF PlanIds
  <2> QED
    BY <2>1, OwnRows
<1>3. i.id # Nil /\ i.skill \in GraphSkill
  BY <1>1, HistoryAssumption
<1> QED
  BY <1>1, <1>2, <1>3, Known

LEMMA CurrentPlanTrue ==
  ASSUME NEW later, Reading(later),
         NEW result \in GetCurrentPlan(History[version], History[later])
  PROVE  ResultTrue(result, later)
<1>1. PICK now, then : now = History[version] /\ then = History[later]
  OBVIOUS
<1>2. CASE now.plan = Nil
  <2>1. result = Result("get_current_plan", {}, {}, NoWords)
    BY <1>1, <1>2 DEF GetCurrentPlan
  <2> QED
    BY <2>1, PlainResult DEF ToolNames
<1>3. CASE now.plan # Nil
  <2>1. PICK ids :
          /\ ids = {now.plan, now.revision} \cup UNION {ItemIds(i) : i \in then.items[now.revision]}
          /\ result = Result("get_current_plan", ids, ids, NoWords)
    BY <1>1, <1>3 DEF GetCurrentPlan
  <2>2. /\ {now.plan, now.revision} \subseteq KnownIds(later)
        /\ now.revision \in DOMAIN then.items
    BY <1>1, <1>3, PlanColumns
  <2>3. \A i \in then.items[now.revision] : ItemIds(i) \subseteq KnownIds(later)
    BY <1>1, <2>2, ItemsKnown
  <2>4. ids \subseteq KnownIds(later)
    BY <2>1, <2>2, <2>3
  <2> QED
    BY <2>1, <2>4, PlainResult DEF ToolNames
<1> QED
  BY <1>2, <1>3

LEMMA RevisionsTrue ==
  ASSUME NEW later, Reading(later),
         NEW result \in GetRevisions(History[version], History[later])
  PROVE  ResultTrue(result, later)
<1>1. PICK now, then : now = History[version] /\ then = History[later]
  OBVIOUS
<1>2. CASE now.plan = Nil
  <2>1. result = Result("get_revisions", {}, {}, NoWords)
    BY <1>1, <1>2 DEF GetRevisions
  <2> QED
    BY <2>1, PlainResult DEF ToolNames
<1>3. CASE now.plan # Nil
  <2>1. PICK ids : /\ ids = {now.plan} \cup DOMAIN then.items
                   /\ result = Result("get_revisions", ids, ids, NoWords)
    BY <1>1, <1>3 DEF GetRevisions
  <2>2. DOMAIN then.items \subseteq KnownIds(later)
    BY <1>1, ReadingVersions, Known, OwnRows
  <2>3. ids \subseteq KnownIds(later)
    BY <1>1, <1>3, <2>1, <2>2, PlanColumns
  <2> QED
    BY <2>1, <2>3, PlainResult DEF ToolNames
<1> QED
  BY <1>2, <1>3

LEMMA EvidenceTrue ==
  ASSUME NEW later, Reading(later), NEW skill, NEW result \in GetEvidence(History[later], skill)
  PROVE  ResultTrue(result, later)
<1>1. CASE skill \notin GraphSkill
  BY <1>1, PlainResult DEF GetEvidence, ToolNames
<1>2. CASE skill \in GraphSkill
  <2>1. PICK ids :
          /\ ids = {skill} \cup (IF skill \in Skill THEN History[later].evidence[skill] ELSE {})
          /\ result = Result("get_evidence", ids, ids, NoWords)
    BY <1>2 DEF GetEvidence
  <2>2. skill \in KnownIds(later)
    BY <1>2, Known DEF GraphIds
  <2>3. skill \in Skill => History[later].evidence[skill] \subseteq KnownIds(later)
    BY ReadingVersions, Known, OwnRows
  <2>4. ids \subseteq KnownIds(later)
    BY <2>1, <2>2, <2>3
  <2> QED
    BY <2>1, <2>4, PlainResult DEF ToolNames
<1> QED
  BY <1>1, <1>2

LEMMA SkillPathTrue ==
  ASSUME NEW last, NEW skill, NEW result \in ExplainSkillPath(skill)
  PROVE  ResultTrue(result, last)
<1>1. PICK ids : /\ result = Result("explain_skill_path", ids, ids, NoWords)
                 /\ \/ ids = {}
                    \/ ids = {skill} /\ skill \in GraphSkill
                    \/ skill \in Skill /\ \E p \in PathsFrom[skill] : ids = ToSet(p) \cup {p}
  BY DEF ExplainSkillPath
<1>2. ids \subseteq GraphIds
  <2>1. ASSUME skill \in Skill, NEW p \in PathsFrom[skill] PROVE ToSet(p) \cup {p} \subseteq GraphIds
    <3>1. p \in BoundedSeq(Skill, Cardinality(Skill))
      BY <2>1 DEF PathsFrom
    <3>2. PICK n : p \in [1..n -> Skill]
      BY <3>1 DEF BoundedSeq, SeqOf
    <3>3. ToSet(p) \subseteq Skill
      BY <3>2 DEF ToSet
    <3> QED
      BY <2>1, <3>3 DEF GraphIds, GraphSkill
  <2>2. skill \in GraphSkill => skill \in GraphIds
    BY DEF GraphIds
  <2> QED
    BY <1>1, <2>1, <2>2
<1> QED
  BY <1>1, <1>2, Known, PlainResult DEF ToolNames

LEMMA DecisionTrue ==
  ASSUME NEW later, Reading(later), NEW id, NEW result \in GetDecision(History[later], id)
  PROVE  ResultTrue(result, later)
<1>1. PICK ids :
        /\ ids = UNION {{d.id} \cup d.evidence \cup d.path \cup d.output :
                   d \in {x \in History[later].decisions : x.id = id}}
        /\ result = Result("get_decision", ids, ids, NoWords)
  BY DEF GetDecision
<1>2. ids \subseteq OwnIds(History[later])
  <2>1. ids \subseteq DecisionIds(History[later])
    BY <1>1 DEF DecisionIds
  <2> QED
    BY <2>1, OwnRows
<1>3. ids \subseteq KnownIds(later)
  BY <1>2, ReadingVersions, Known
<1> QED
  BY <1>1, <1>3, PlainResult DEF ToolNames

LEMMA SearchTrue ==
  ASSUME NEW later, Reading(later), NEW skill, NEW result \in SearchResources(skill)
  PROVE  ResultTrue(result, later)
<1>1. CASE skill \notin GraphSkill
  <2>1. result = Result("search_resources", {}, {}, [about |-> skill, found |-> <<>>])
    BY <1>1 DEF SearchResources
  <2>2. /\ result.tool = "search_resources" /\ result.cites = {} /\ result.says.about = skill
    BY <2>1 DEF Result
  <2> QED
    BY <1>1, <2>2 DEF ResultTrue, ToolNames
<1>2. CASE skill \in GraphSkill
  <2>1. PICK level : level = IF skill \in Skill THEN gap.level[skill] ELSE 0
    OBVIOUS
  <2>2. /\ level \in 0..3
        /\ level = IF skill \in Skill THEN History[started].learner[skill].level ELSE 0
    BY <2>1, GapFacts
  <2>3. MetSkills = {s \in Skill : FinalStatus(History[started].learner, s) = "MET"}
    BY GapFacts DEF MetSkills, WithStatus
  <2>4. PICK rec \in Recommended :
          /\ rec.skill = skill /\ rec.level = level /\ rec.met = MetSkills
          /\ result = Result("search_resources", {skill} \cup ToSet(rec.found),
                             {skill} \cup ToSet(rec.found), [about |-> skill, found |-> rec.found])
    BY <1>2, <2>1 DEF SearchResources
  <2>5. rec.found = Recommend(Row, Offers[skill], Query(level, MetSkills))
    BY <2>4 DEF Recommended
  <2>6. PICK found : found = ToSet(rec.found)
    OBVIOUS
  <2>7. PICK usable : usable = {r \in ToSet(Offers[skill]) : Usable(Row[r], level, MetSkills)}
    OBVIOUS
  <2>8. WellChosen(found, usable)
    BY <1>2, <2>2, <2>5, <2>6, <2>7, Recommending
  <2>9. Useful(skill, found)
    BY <2>2, <2>3, <2>7, <2>8 DEF Useful
  <2>10. {skill} \cup found \subseteq KnownIds(later)
    <3>1. found \subseteq DOMAIN Row
      BY <1>2, <2>7, <2>8, OffersEnumerate DEF WellChosen
    <3>2. {skill} \cup found \subseteq GraphIds
      BY <1>2, <3>1 DEF GraphIds
    <3> QED
      BY <3>2, Known
  <2>11. /\ result.tool = "search_resources" /\ result.cites = {skill} \cup found
         /\ result.shown = {skill} \cup found
         /\ result.says.about = skill /\ result.says.found = rec.found
    BY <2>4, <2>6 DEF Result
  <2> QED
    BY <2>6, <2>9, <2>10, <2>11 DEF ResultTrue, ToolNames
<1> QED
  BY <1>1, <1>2

LEMMA BucketsAddUp ==
  ASSUME NEW later, Reading(later),
         NEW parts, parts = <<MetSkills, WithStatus({"WEAK"}), RemainingGaps>>
  PROVE  /\ UNION Range(parts) = Skill
         /\ \A m, n \in DOMAIN parts : m # n => parts[m] \cap parts[n] = {}
<1>1. /\ parts[1] = {s \in Skill : gap.status[s] = "MET"}
      /\ parts[2] = {s \in Skill : gap.status[s] = "WEAK"}
      /\ parts[3] = {s \in Skill : gap.status[s] \in {"MISSING", "BLOCKED", "UNVERIFIED"}}
  BY DEF MetSkills, WithStatus, RemainingGaps
<1>2. DOMAIN parts = {1, 2, 3}
  OBVIOUS
<1>3. \A s \in Skill : gap.status[s] \in {"MET", "WEAK", "UNVERIFIED", "MISSING", "BLOCKED"}
  BY GapFacts DEF Status
<1>4. UNION Range(parts) = parts[1] \cup parts[2] \cup parts[3]
  <2>1. Range(parts) = {parts[1], parts[2], parts[3]}
    BY <1>2 DEF Range
  <2> QED
    BY <2>1
<1>5. UNION Range(parts) = Skill
  BY <1>1, <1>3, <1>4
<1>6. /\ parts[1] \cap parts[2] = {} /\ parts[1] \cap parts[3] = {}
      /\ parts[2] \cap parts[3] = {}
  BY <1>1
<1>7. \A m, n \in DOMAIN parts : m # n => parts[m] \cap parts[n] = {}
  BY <1>2, <1>6
<1> QED
  BY <1>5, <1>7

LEMMA ReportTrue ==
  ASSUME NEW later, Reading(later), NEW report \in ProgressReports(History[version], History[later])
  PROVE  AddsUp(report, later)
<1>1. PICK now, then : now = History[version] /\ then = History[later]
  OBVIOUS
<1>2. PICK items : items = IF now.plan = Nil THEN {} ELSE then.items[now.revision]
  OBVIOUS
<1>3. /\ report.acquired = MetSkills /\ report.in_progress = WithStatus({"WEAK"})
      /\ report.remaining = RemainingGaps
      /\ report.done = {i \in items : i.status = "done"}
      /\ report.next \subseteq {i \in items : i.status = "planned"}
  <2>1. PICK S \in NextSteps(items) : 
                           \E signals, misconceptions : report = ReportOn(items, signals, misconceptions, S)
    BY <1>1, <1>2 DEF ProgressReports
  <2>2. S \subseteq {i \in items : i.status = "planned"}
    BY DEF NextSteps, SomeOf
  <2> QED
    BY <2>1, <2>2 DEF ReportOn
<1>4. /\ report.done \cup report.next \subseteq items
      /\ report.done \cap report.next = {}
  BY <1>3
<1>5. \/ report.done \cup report.next = {}
      \/ \E v \in started..later : \E r \in DOMAIN History[v].items :
           report.done \cup report.next \subseteq History[v].items[r]
  <2>1. CASE now.plan = Nil
    BY <1>2, <1>4, <2>1
  <2>2. CASE now.plan # Nil
    <3>1. now.revision \in DOMAIN then.items
      BY <1>1, <2>2, PlanColumns
    <3>2. later \in started..later
      BY ReadingVersions
    <3> QED
      BY <1>1, <1>2, <1>4, <2>2, <3>1, <3>2
  <2> QED
    BY <2>1, <2>2
<1>6. PICK parts : parts = <<MetSkills, WithStatus({"WEAK"}), RemainingGaps>>
  OBVIOUS
<1>7. /\ UNION Range(parts) = Skill
      /\ \A m, n \in DOMAIN parts : m # n => parts[m] \cap parts[n] = {}
  BY <1>6, BucketsAddUp
<1>8. parts = <<report.acquired, report.in_progress, report.remaining>>
  BY <1>3, <1>6
<1> QED
  BY <1>4, <1>5, <1>7, <1>8 DEF AddsUp

LEMMA ProgressTrue ==
  ASSUME NEW later, Reading(later),
         NEW result \in GetProgress(History[version], History[later])
  PROVE  ResultTrue(result, later)
<1>1. PICK now, then : now = History[version] /\ then = History[later]
  OBVIOUS
<1>2. PICK report \in ProgressReports(now, then) :
        result = Result("get_progress", ReportIds(report), ReportIds(report) \cup HeldIds(report),
                        report)
  BY <1>1 DEF GetProgress
<1>3. AddsUp(report, later)
  BY <1>1, <1>2, ReportTrue
<1>4. /\ version \in DOMAIN History /\ version \in started..later
      /\ later \in DOMAIN History /\ later \in started..later
  BY ReadingVersions DEF Reading
<1>5. PICK items, S : /\ items = IF now.plan = Nil THEN {} ELSE then.items[now.revision]
                      /\ S \subseteq items
                      /\ report = ReportOn(items, {x \in now.signals : x.open},
                                             now.misconceptions, S)
  <2>1. \A items : \A S \in NextSteps(items) : S \subseteq items
    BY DEF NextSteps, SomeOf
  <2> QED
    BY <1>2, <2>1 DEF ProgressReports
<1>6. \A i \in items : i.id \in KnownIds(later) /\ i.skill \in KnownIds(later)
  <2>1. SUFFICES ASSUME NEW i \in items
                 PROVE  i.id \in KnownIds(later) /\ i.skill \in KnownIds(later)
    OBVIOUS
  <2>2. now.plan # Nil /\ i \in then.items[now.revision]
    BY <1>5
  <2>3. now.revision \in DOMAIN then.items
    BY <1>1, <2>2, PlanColumns
  <2>4. ItemIds(i) \subseteq KnownIds(later) /\ i.id # Nil /\ i.skill \in GraphSkill
    BY <1>1, <2>2, <2>3, ItemsKnown
  <2>5. i.id \in ItemIds(i)
    BY <2>4 DEF ItemIds
  <2> QED
    BY <2>4, <2>5, Known DEF GraphIds
<1>7. \A x \in now.signals \cup now.misconceptions :
        x.id \in KnownIds(later) /\ x.skill \in KnownIds(later)
  <2>1. \A x \in now.signals \cup now.misconceptions : x.skill \in GraphSkill
    BY <1>1, <1>4, HistoryAssumption
  <2>2. OwnIds(now) \subseteq KnownIds(later)
    BY <1>1, <1>4, Known
  <2> QED
    BY <2>1, <2>2, OwnRows, Known DEF GraphIds
<1>8. report.signals \cup report.misconceptions \cup report.done \cup report.next \subseteq
        now.signals \cup now.misconceptions \cup items
  BY <1>5 DEF ReportOn
<1>9. /\ report.acquired \subseteq Skill /\ report.in_progress \subseteq Skill
      /\ report.remaining \subseteq Skill
  BY <1>5 DEF ReportOn, MetSkills, RemainingGaps, WithStatus
<1>10. ReportIds(report) \subseteq KnownIds(later)
  <2>1. Skill \subseteq KnownIds(later)
    BY Known DEF GraphIds, GraphSkill
  <2>2. PICK rows : rows = report.misconceptions \cup report.done \cup report.next
    OBVIOUS
  <2>3. \A x \in rows : {x.id, x.skill} \subseteq KnownIds(later)
    BY <1>6, <1>7, <1>8, <2>2
  <2>4. RowIds(rows) \subseteq KnownIds(later)
    BY <2>3 DEF RowIds
  <2>5. {x.skill : x \in report.signals} \subseteq KnownIds(later)
    BY <1>6, <1>7, <1>8
  <2> QED
    BY <1>9, <2>1, <2>2, <2>4, <2>5 DEF ReportIds
<1>11. HeldIds(report) \subseteq KnownIds(later)
  <2>1. UNION {gap.evidence[s] : s \in report.acquired \cup report.in_progress}
          \subseteq KnownIds(later)
    BY <1>9, GapFacts
  <2>2. {x.id : x \in report.signals} \subseteq KnownIds(later)
    BY <1>6, <1>7, <1>8
  <2> QED
    BY <2>1, <2>2 DEF HeldIds
<1>12. /\ result.tool = "get_progress" /\ result.data /\ result.shown = ReportIds(report)
       /\ result.cites = ReportIds(report) \cup HeldIds(report) /\ result.says = report
  BY <1>2 DEF Result
<1>13. HeldIds(report) \subseteq BehindReport(result)
  BY <1>9, <1>12 DEF HeldIds, BehindReport
<1> QED
  BY <1>3, <1>10, <1>11, <1>12, <1>13 DEF ResultTrue, ToolNames

LEMMA ToolTrue ==
  ASSUME NEW later, Reading(later), NEW call, call.tool \in ToolNames,
         NEW result \in ToolResults(call, History[version], History[later])
  PROVE  ResultTrue(result, later)
<1>1. CASE call.tool = "get_learner_state"
  BY <1>1, LearnerStateTrue DEF ToolResults
<1>2. CASE call.tool = "get_gaps"
  BY <1>2, GapsTrue DEF ToolResults
<1>3. CASE call.tool = "get_current_plan"
  BY <1>3, CurrentPlanTrue DEF ToolResults
<1>4. CASE call.tool = "get_revisions"
  BY <1>4, RevisionsTrue DEF ToolResults
<1>5. CASE call.tool = "get_evidence"
  BY <1>5, EvidenceTrue DEF ToolResults
<1>6. CASE call.tool = "explain_skill_path"
  BY <1>6, SkillPathTrue DEF ToolResults
<1>7. CASE call.tool = "search_resources"
  BY <1>7, SearchTrue DEF ToolResults
<1>8. CASE call.tool = "get_progress"
  BY <1>8, ProgressTrue DEF ToolResults
<1>9. CASE call.tool = "get_decision"
  BY <1>9, DecisionTrue DEF ToolResults
<1> QED
  BY <1>1, <1>2, <1>3, <1>4, <1>5, <1>6, <1>7, <1>8, <1>9 DEF ToolNames

(* ---------------------------- G4: every step ---------------------------- *)

LEMMA PlannedTools ==
  ASSUME NEW r \in Requests
  PROVE  PlanTools(r) \in Seq(ToolCalls) /\ Len(PlanTools(r)) <= TUTOR_MAX_TOOL_STEPS
<1>1. PICK intent, skill : intent = IntentOf(r) /\ skill = SkillOf(r)
  OBVIOUS
<1>2. PICK planned : planned =
        CASE intent = "current_skills" ->
               <<Call("get_learner_state")>> \o About("get_evidence", skill)
          [] intent = "gaps" -> <<Call("get_gaps")>> \o About("explain_skill_path", skill)
          [] intent = "plan" -> <<Call("get_current_plan")>>
          [] intent = "why_recommended" ->
               About("get_decision", r.decision) \o <<Call("get_current_plan")>>
          [] intent = "why_changed" ->
               <<Call("get_revisions")>> \o About("get_decision", r.decision)
          [] intent = "concept_explanation" ->
               About("explain_skill_path", skill) \o About("search_resources", skill)
          [] intent = "progress" -> <<Call("get_progress")>>
          [] OTHER -> <<>>
  OBVIOUS
<1>3. PICK m : m = Min({Len(planned), TUTOR_MAX_TOOL_STEPS})
  OBVIOUS
<1>4. PlanTools(r) = SubSeq(planned, 1, m)
  BY <1>1, <1>2, <1>3 DEF PlanTools
<1>5. \A tool \in ToolNames : <<Call(tool)>> \in Seq(ToolCalls)
  BY DEF Call, ToolCalls
<1>6. ASSUME NEW tool \in ToolNames, NEW arg, arg \in {skill, r.decision}
      PROVE  About(tool, arg) \in Seq(ToolCalls)
  <2>1. [tool |-> tool, arg |-> arg] \in ToolCalls
    BY <1>1, <1>6 DEF ToolCalls
  <2>2. <<[tool |-> tool, arg |-> arg]>> \in Seq(ToolCalls) /\ <<>> \in Seq(ToolCalls)
    BY <2>1
  <2> QED
    BY <2>2 DEF About
<1>7. planned \in Seq(ToolCalls)
  <2>1. <<>> \in Seq(ToolCalls)
    OBVIOUS
  <2>2. PICK Calls : Calls = Seq(ToolCalls)
    OBVIOUS
  <2>3. \A s, t \in Calls : s \o t \in Calls
    BY <2>2, ConcatProperties
  <2>4. /\ \A tool \in ToolNames : <<Call(tool)>> \in Calls
        /\ \A tool \in ToolNames : About(tool, skill) \in Calls /\ About(tool, r.decision) \in Calls
    BY <1>5, <1>6, <2>2
  <2> QED
    BY <1>2, <2>1, <2>2, <2>3, <2>4 DEF ToolNames
<1>8. Len(planned) \in Nat
  BY <1>7, LenProperties
<1>9. m \in 0..Len(planned) /\ m <= 4
  <2>1. PICK n : n = Len(planned)
    OBVIOUS
  <2>2. n \in Nat /\ m = Min({n, 4})
    BY <1>3, <1>8, <2>1 DEF TUTOR_MAX_TOOL_STEPS
  <2>3. m \in {n, 4} /\ m <= n /\ m <= 4
    BY <2>2 DEF Min
  <2> QED
    BY <2>1, <2>2, <2>3
<1>10. SubSeq(planned, 1, m) \in Seq(ToolCalls) /\ Len(SubSeq(planned, 1, m)) = m
  BY <1>7, <1>8, <1>9, SubSeqProperties
<1> QED
  BY <1>4, <1>9, <1>10 DEF TUTOR_MAX_TOOL_STEPS

(* What is true of a result stays true: the analysis and the start of the  *)
(* turn do not change, and commits only add.                               *)
LEMMA ResultLasts ==
  ASSUME NEW result, NEW last \in Nat, NEW more \in Nat, last <= more, started \in Nat,
         ResultTrue(result, last), started' = started, gap' = gap
  PROVE  ResultTrue(result, more)'
<1>1. \A v \in started..last : v \in started..more
  OBVIOUS
<1>2. KnownIds(last) \subseteq KnownIds(more)'
  BY <1>1 DEF KnownIds
<1>3. BehindReport(result)' = BehindReport(result)
  BY DEF BehindReport
<1>4. Useful(result.says.about, ToSet(result.says.found)) =>
        Useful(result.says.about, ToSet(result.says.found))'
  BY DEF Useful
<1>5. AddsUp(result.says, last) => AddsUp(result.says, more)'
  BY <1>1 DEF AddsUp
<1> QED
  BY <1>2, <1>3, <1>4, <1>5 DEF ResultTrue

LEMMA VersionsCount ==
  /\ \A v \in DOMAIN History : v \in Nat /\ v <= Len(History)
  /\ Len(History) \in Nat /\ DOMAIN History = 1..Len(History)
BY HistoryAssumption

(* Later commits take nothing from what the turn knows.                    *)
LEMMA TurnGoesOn ==
  ASSUME TutorInv, version' \in DOMAIN History, version <= version', stage # "idle",
         started' = started, gap' = gap, results' = results
  PROVE  /\ started' \in 1..version'
         /\ results' \in Seq(ToSet(results'))
         /\ ResultsTrue'
         /\ ShownIds' = ShownIds
         /\ \A last \in {version} : \A more \in {version'} : KnownIds(last) \subseteq KnownIds(more)'
<1>1. /\ version \in Nat /\ version' \in Nat
      /\ started \in 1..version /\ started \in Nat
      /\ results \in Seq(ToSet(results)) /\ ResultsTrue
  BY VersionsCount DEF TutorInv, TutorTypeOK, TurnTrue
<1>2. started' \in 1..version'
  BY <1>1
<1>3. results' \in Seq(ToSet(results'))
  BY <1>1
<1>4. ASSUME NEW more, more = version', NEW result \in ToSet(results) PROVE ResultTrue(result, more)'
  <2>1. PICK last : last = version
    OBVIOUS
  <2>2. ResultTrue(result, last)
    BY <1>1, <2>1 DEF ResultsTrue
  <2> QED
    BY <1>1, <1>4, <2>1, <2>2, ResultLasts
<1>5. ResultsTrue'
  BY <1>4 DEF ResultsTrue, ToSet
<1>6. ShownIds' = ShownIds
  BY DEF ShownIds, BehindReport
<1>7. ASSUME NEW last, last = version, NEW more, more = version'
      PROVE  KnownIds(last) \subseteq KnownIds(more)'
  BY <1>1, <1>7 DEF KnownIds
<1> QED
  BY <1>2, <1>3, <1>5, <1>6, <1>7

LEMMA ReplyLasts ==
  ASSUME TutorInv, version' \in DOMAIN History, version <= version', stage = "done",
         started' = started, gap' = gap, results' = results, reply' = reply
  PROVE  ReplyTrue'
<1>1. ReplyTrue /\ ShownIds' = ShownIds
      /\ \A last \in {version} : \A more \in {version'} : KnownIds(last) \subseteq KnownIds(more)'
  BY TurnGoesOn DEF TutorInv, TurnTrue
<1>2. PICK last : last = version
  OBVIOUS
<1>3. ASSUME NEW more \in {version'} PROVE reply.cites \subseteq KnownIds(more)'
  BY <1>1, <1>2 DEF ReplyTrue
<1> QED
  BY <1>1, <1>3 DEF ReplyTrue

LEMMA GapLasts ==
  ASSUME TutorInv, version' \in DOMAIN History, version <= version', stage = "call_tools",
         started' = started, gap' = gap
  PROVE  \A more \in {version'} : GapTrue(more)'
<1>1. version \in Nat /\ version' \in Nat /\ started \in 1..version
  BY VersionsCount DEF TutorInv, TutorTypeOK, TurnTrue
<1>2. PICK last : last = version
  OBVIOUS
<1>3. GapTrue(last)
  BY <1>2 DEF TutorInv, TurnTrue
<1>4. \A v \in started..last : v \in started..version'
  BY <1>1, <1>2
<1> QED
  BY <1>3, <1>4 DEF GapTrue

LEMMA TutorBegins == TutorInit => TutorInv
<1> SUFFICES ASSUME TutorInit PROVE TutorInv
  OBVIOUS
<1>1. TutorTypeOK
  BY EmptySeq DEF TutorInit, TutorTypeOK, TUTOR_MAX_TOOL_STEPS, TUTOR_MAX_COMPOSE_ATTEMPTS,
     TUTOR_AGENT_MAX_RETRIES
<1>2. CountersFit
  BY DEF TutorInit, CountersFit
<1>3. ResultsTrue
  BY DEF TutorInit, ResultsTrue, ToSet
<1>4. TurnTrue
  BY <1>3, EmptySeq DEF TutorInit, TurnTrue
<1> QED
  BY <1>1, <1>2, <1>4 DEF TutorInv

LEMMA CommitStep ==
  ASSUME TutorInv, Commit \/ UNCHANGED tutorVars
  PROVE  TutorInv'
<1>1. /\ version' \in DOMAIN History /\ version <= version'
      /\ UNCHANGED <<asked, started, gap, tools, results, stage, composeAttempts, unparsed,
                      drafted, reply>>
  BY VersionsCount DEF Commit, tutorVars, turn, TutorInv, TutorTypeOK
<1>2. TutorTypeOK' /\ CountersFit'
  BY <1>1 DEF TutorInv, TutorTypeOK, CountersFit
<1>3. CASE stage = "idle"
  <2>1. ResultsTrue'
    BY <1>1, <1>3 DEF TutorInv, TurnTrue, ResultsTrue, ToSet
  <2>2. TurnTrue'
    BY <1>1, <1>3, <2>1 DEF TutorInv, TurnTrue
  <2> QED
    BY <1>2, <2>2 DEF TutorInv
<1>4. CASE stage # "idle"
  <2>1. /\ started' \in 1..version' /\ results' \in Seq(ToSet(results')) /\ ResultsTrue'
    BY <1>1, <1>4, TurnGoesOn
  <2>2. stage = "done" => ReplyTrue'
    BY <1>1, ReplyLasts
  <2>3. stage = "call_tools" => tools # <<>> /\ \A more \in {version'} : GapTrue(more)'
    BY <1>1, GapLasts DEF TutorInv, TurnTrue
  <2>4. TurnTrue'
    BY <1>1, <1>4, <2>1, <2>2, <2>3 DEF TutorInv, TurnTrue
  <2> QED
    BY <1>2, <2>4 DEF TutorInv
<1> QED
  BY <1>3, <1>4

(* Once the tools are done a step changes the turn's stage, counters and   *)
(* draft only.                                                             *)
LEMMA QuietTurn ==
  ASSUME TutorInv, UNCHANGED <<version, started, gap, tools, results>>,
         stage # "idle", stage' \notin {"idle", "call_tools"}, stage' = "done" => ReplyTrue'
  PROVE  TurnTrue'
<1>1. version' \in DOMAIN History /\ version <= version'
  BY VersionsCount DEF TutorInv, TutorTypeOK
<1>2. started' \in 1..version' /\ results' \in Seq(ToSet(results')) /\ ResultsTrue'
  BY <1>1, TurnGoesOn
<1> QED
  BY <1>2 DEF TutorInv, TurnTrue

LEMMA ValidIdsTrue ==
  ASSUME TutorInv
  PROVE  /\ ValidIds \subseteq ShownIds
         /\ \A last \in {version} : ValidIds \subseteq KnownIds(last)
<1>1. PICK last : last = version
  OBVIOUS
<1>2. \A i \in DOMAIN results : ResultTrue(results[i], last)
  BY <1>1 DEF TutorInv, TurnTrue, ResultsTrue, ToSet
<1>3. \A i \in DOMAIN results :
        /\ results[i].cites \subseteq KnownIds(last)
        /\ results[i].cites \subseteq results[i].shown \cup BehindReport(results[i])
  BY <1>2 DEF ResultTrue
<1> QED
  BY <1>1, <1>3 DEF ValidIds, ShownIds

LEMMA Answering ==
  ASSUME TutorInv, UNCHANGED <<version, started, gap, results>>, stage # "idle",
         NEW kind, NEW cites \in SUBSET ValidIds, kind = "answer" => cites # {},
         reply' = [kind |-> kind, cites |-> cites]
  PROVE  ReplyTrue'
<1>1. version' \in DOMAIN History /\ version <= version'
  BY VersionsCount DEF TutorInv, TutorTypeOK
<1>2. /\ ShownIds' = ShownIds
      /\ \A last \in {version} : \A more \in {version'} : KnownIds(last) \subseteq KnownIds(more)'
  BY <1>1, TurnGoesOn
<1>3. PICK last : last = version
  OBVIOUS
<1>4. cites \subseteq ShownIds /\ cites \subseteq KnownIds(last)
  BY <1>3, ValidIdsTrue
<1>5. \A more \in {version'} : cites \subseteq KnownIds(more)'
  BY <1>2, <1>3, <1>4
<1> QED
  BY <1>2, <1>4, <1>5 DEF ReplyTrue

LEMMA BeginStep ==
  ASSUME TutorInv, NEW r \in Requests, Begin(r)
  PROVE  TutorInv'
<1>1. /\ stage = "idle" /\ asked' = r /\ started' = version
      /\ UNCHANGED <<results, composeAttempts, unparsed, drafted>>
      /\ results = <<>> /\ composeAttempts = 0 /\ version \in DOMAIN History
      /\ tools \in Seq(ToolCalls) /\ Len(tools) + Len(results) <= TUTOR_MAX_TOOL_STEPS
  BY DEF Begin, TutorInv, TutorTypeOK, TurnTrue, CountersFit
<1>2. results' \in Seq(ToSet(results')) /\ ResultsTrue'
  BY <1>1, EmptySeq DEF ResultsTrue, ToSet
<1>3. CASE Now.profile # "ok"
  <2>1. /\ stage' = "done" /\ UNCHANGED <<version, gap, tools>>
        /\ reply' = [NoReply EXCEPT !.kind = Now.profile]
    BY <1>3 DEF Begin
  <2>2. reply'.cites = {} /\ reply'.kind = History[version].profile
    BY <2>1 DEF NoReply, Now
  <2>3. reply'.kind # "answer"
    BY <1>1, <2>2, HistoryAssumption
  <2>4. ReplyTrue'
    BY <2>2, <2>3 DEF ReplyTrue
  <2>5. started' \in 1..version'
    BY <1>1, <2>1, VersionsCount
  <2>6. TurnTrue'
    BY <1>1, <1>2, <2>1, <2>4, <2>5 DEF TurnTrue
  <2>7. TutorTypeOK' /\ CountersFit'
    BY <1>1, <2>1 DEF TutorInv, TutorTypeOK, CountersFit
  <2> QED
    BY <2>6, <2>7 DEF TutorInv
<1>4. CASE Now.profile = "ok"
  <2>1. PICK later \in version..Len(History) :
          version' = later /\ gap' = GapResult(Now.learner, History[later].evidence)
    BY <1>4 DEF Begin
  <2>2. /\ tools' = IF r.kind = "chat" THEN PlanTools(r) ELSE <<Call("get_progress")>>
        /\ stage' = IF tools' = <<>> THEN "refuse" ELSE "call_tools"
        /\ UNCHANGED reply
    BY <1>4 DEF Begin
  <2>3. tools' \in Seq(ToolCalls) /\ Len(tools') <= TUTOR_MAX_TOOL_STEPS
    <3>1. <<Call("get_progress")>> \in Seq(ToolCalls) /\ Len(<<Call("get_progress")>>) = 1
      BY DEF Call, ToolCalls, ToolNames
    <3> QED
      BY <2>2, <3>1, PlannedTools DEF TUTOR_MAX_TOOL_STEPS
  <2>4. version \in Nat /\ version' \in DOMAIN History /\ version <= version'
        /\ started' \in 1..version' /\ version' \in started'..version'
    BY <1>1, <2>1, VersionsCount
  <2>5. ASSUME NEW more \in {version'} PROVE GapTrue(more)'
    BY <1>1, <2>1, <2>4 DEF GapTrue, Now
  <2>6. Len(tools') + Len(results') <= TUTOR_MAX_TOOL_STEPS
    BY <1>1, <2>3, LenProperties, EmptySeq DEF TUTOR_MAX_TOOL_STEPS
  <2>7. TutorTypeOK' /\ CountersFit'
    BY <1>1, <2>2, <2>4, <2>6 DEF TutorInv, TutorTypeOK, CountersFit
  <2>8. TurnTrue'
    BY <1>2, <2>2, <2>3, <2>4, <2>5 DEF TurnTrue
  <2> QED
    BY <2>7, <2>8 DEF TutorInv
<1> QED
  BY <1>3, <1>4

(* A tool's result is true when the turn goes on, as are those before it.  *)
LEMMA ReturnStep ==
  ASSUME TutorInv, stage = "call_tools", NEW result, ToolReturned(result),
         version' \in DOMAIN History, version <= version',
         \A more \in {version'} : ResultTrue(result, more)
  PROVE  TutorInv'
<1>1. /\ results' = Append(results, result) /\ tools' = Tail(tools)
      /\ stage' = IF tools' = <<>> THEN "compose_answer" ELSE "call_tools"
      /\ UNCHANGED <<asked, started, gap, composeAttempts, unparsed, drafted, reply>>
  BY DEF ToolReturned
<1>2. /\ version \in Nat /\ version' \in Nat
      /\ started \in 1..version /\ started \in Nat /\ composeAttempts = 0
      /\ results \in Seq(ToSet(results)) /\ ResultsTrue
      /\ tools \in Seq(ToolCalls) /\ tools # <<>>
      /\ Len(tools) + Len(results) <= TUTOR_MAX_TOOL_STEPS
  BY VersionsCount DEF TutorInv, TutorTypeOK, TurnTrue, CountersFit
<1>3. tools' \in Seq(ToolCalls) /\ Len(tools') = Len(tools) - 1 /\ Len(tools) \in Nat
  BY <1>1, <1>2, HeadTailProperties, LenProperties
<1>4. PICK S : S = ToSet(results) \cup {result}
  OBVIOUS
<1>5. /\ results' \in Seq(S) /\ Len(results') = Len(results) + 1 /\ Len(results) \in Nat
      /\ \A i \in 1..Len(results) : results'[i] = results[i]
      /\ results'[Len(results) + 1] = result
  <2>1. results \in Seq(S)
    BY <1>2, <1>4
  <2> QED
    BY <1>1, <1>4, <2>1, AppendProperties, LenProperties
<1>6. ToSet(results') = S
  <2>1. /\ DOMAIN results = 1..Len(results) /\ DOMAIN results' = 1..(Len(results) + 1)
    BY <1>2, <1>5, LenProperties
  <2> QED
    BY <1>4, <1>5, <2>1 DEF ToSet
<1>7. ASSUME NEW more, more = version', NEW x \in S PROVE ResultTrue(x, more)'
  <2>1. PICK last : last = version
    OBVIOUS
  <2>2. CASE x \in ToSet(results)
    <3>1. ResultTrue(x, last)
      BY <1>2, <2>1, <2>2 DEF ResultsTrue
    <3> QED
      BY <1>1, <1>2, <1>7, <2>1, <3>1, ResultLasts
  <2>3. CASE x = result
    <3>1. ResultTrue(x, more)
      BY <1>7, <2>3
    <3> QED
      BY <1>1, <1>2, <1>7, <3>1, ResultLasts
  <2> QED
    BY <1>4, <2>2, <2>3
<1>8. ResultsTrue'
  <2>1. ToSet(results)' = S
    BY <1>6 DEF ToSet
  <2> QED
    BY <1>7, <2>1 DEF ResultsTrue
<1>9. \A more \in {version'} : GapTrue(more)'
  BY <1>1, GapLasts
<1>10. TutorTypeOK' /\ CountersFit'
  <2>1. Len(tools') + Len(results') <= TUTOR_MAX_TOOL_STEPS
    BY <1>2, <1>3, <1>5
  <2> QED
    BY <1>1, <1>2, <2>1 DEF TutorInv, TutorTypeOK, CountersFit, TUTOR_MAX_COMPOSE_ATTEMPTS
<1>11. TurnTrue'
  <2>1. started' \in 1..version'
    BY <1>1, <1>2
  <2>2. results' \in Seq(ToSet(results'))
    BY <1>5, <1>6
  <2> QED
    BY <1>1, <1>3, <1>8, <1>9, <2>1, <2>2 DEF TurnTrue
<1> QED
  BY <1>10, <1>11 DEF TutorInv

LEMMA CallToolStep ==
  ASSUME TutorInv, CallTool
  PROVE  TutorInv'
<1>1. PICK later \in version..Len(History) :
        /\ version' = later
        /\ \E result \in ToolResults(Head(tools), Now, History[later]) : ToolReturned(result)
  BY DEF CallTool
<1>2. PICK result \in ToolResults(Head(tools), Now, History[later]) : ToolReturned(result)
  BY <1>1
<1>3. stage = "call_tools" /\ version \in DOMAIN History /\ version \in Nat
  BY VersionsCount DEF CallTool, TutorInv, TutorTypeOK
<1>4. version' \in DOMAIN History /\ version <= version'
  BY <1>1, <1>3, VersionsCount
<1>5. Reading(later)
  BY <1>3 DEF Reading, TutorInv, TurnTrue
<1>6. Head(tools).tool \in ToolNames
  <2>1. Head(tools) \in ToolCalls
    BY <1>3, HeadTailProperties DEF TutorInv, TurnTrue
  <2> QED
    BY <2>1 DEF ToolCalls
<1>7. ResultTrue(result, later)
  <2>1. PICK call : call = Head(tools)
    OBVIOUS
  <2>2. result \in ToolResults(call, History[version], History[later])
    BY <1>2, <2>1 DEF Now
  <2> QED
    BY <1>5, <1>6, <2>1, <2>2, ToolTrue
<1> QED
  BY <1>1, <1>2, <1>3, <1>4, <1>7, ReturnStep

LEMMA ToolFailsStep ==
  ASSUME TutorInv, ToolFails
  PROVE  TutorInv'
<1>1. stage = "call_tools" /\ version' = version /\ version \in DOMAIN History /\ version \in Nat
  BY VersionsCount DEF ToolFails, TutorInv, TutorTypeOK
<1>2. CASE asked.kind = "chat"
  <2>1. PICK result : result = Nothing(Head(tools).tool)
    OBVIOUS
  <2>2. ToolReturned(result)
    BY <1>2, <2>1 DEF ToolFails
  <2>3. Head(tools).tool \in ToolNames
    <3>1. Head(tools) \in ToolCalls
      BY <1>1, HeadTailProperties DEF TutorInv, TurnTrue
    <3> QED
      BY <3>1 DEF ToolCalls
  <2>4. \A more \in {version'} : ResultTrue(result, more)
    BY <2>1, <2>3, NothingTrue
  <2> QED
    BY <1>1, <2>2, <2>4, ReturnStep
<1>3. CASE asked.kind # "chat"
  <2>1. /\ stage' = "done" /\ reply' = [kind |-> "error", cites |-> {}]
        /\ UNCHANGED <<asked, started, gap, tools, results, composeAttempts, unparsed, drafted>>
    BY <1>3 DEF ToolFails, Answered
  <2>2. ReplyTrue'
    BY <1>1, <2>1, Answering
  <2>3. TurnTrue'
    BY <1>1, <2>1, <2>2, QuietTurn
  <2>4. TutorTypeOK' /\ CountersFit'
    BY <1>1, <2>1 DEF TutorInv, TutorTypeOK, CountersFit
  <2> QED
    BY <2>3, <2>4 DEF TutorInv
<1> QED
  BY <1>2, <1>3

LEMMA ComposeStep ==
  ASSUME TutorInv, RefuseTurn \/ ComposeAnswer \/ Regenerate
  PROVE  TutorInv'
<1>1. UNCHANGED <<version, asked, started, gap, tools, results>>
  BY DEF RefuseTurn, ComposeAnswer, Regenerate
<1>2. CASE RefuseTurn
  <2>1. stage = "refuse" /\ stage' = "done" /\ reply' = [kind |-> "refusal", cites |-> {}]
    BY <1>2 DEF RefuseTurn, Answered
  <2>2. TurnTrue'
    BY <1>1, <2>1, Answering, QuietTurn
  <2>3. TutorTypeOK' /\ CountersFit'
    BY <1>1, <1>2, <2>1 DEF RefuseTurn, TutorInv, TutorTypeOK, CountersFit
  <2> QED
    BY <2>2, <2>3 DEF TutorInv
<1>3. CASE ComposeAnswer
  <2>1. TurnTrue'
    BY <1>1, <1>3, QuietTurn DEF ComposeAnswer
  <2>2. TutorTypeOK' /\ CountersFit'
    BY <1>1, <1>3 DEF ComposeAnswer, AttemptsAfter, TutorInv, TutorTypeOK, CountersFit,
       TUTOR_MAX_COMPOSE_ATTEMPTS, TUTOR_AGENT_MAX_RETRIES
  <2> QED
    BY <2>1, <2>2 DEF TutorInv
<1>4. CASE Regenerate
  <2>1. TurnTrue'
    BY <1>1, <1>4, QuietTurn DEF Regenerate
  <2>2. TutorTypeOK' /\ CountersFit'
    BY <1>1, <1>4 DEF Regenerate, MayRegenerate, TutorInv, TutorTypeOK, CountersFit
  <2> QED
    BY <2>1, <2>2 DEF TutorInv
<1> QED
  BY <1>2, <1>3, <1>4

LEMMA AgentStep ==
  ASSUME TutorInv, AgentDegraded \/ AgentUnparsable \/ AgentAnswers
  PROVE  TutorInv'
<1>1. /\ UNCHANGED <<version, asked, started, gap, tools, results, composeAttempts, reply>>
      /\ stage = "agent" /\ stage' \in {"agent", "verify_citations"}
  BY DEF AgentDegraded, AgentUnparsable, AgentAnswers
<1>2. \/ unparsed' = unparsed /\ stage' = "verify_citations"
      \/ /\ unparsed' = unparsed + 1
         /\ stage' = "agent" => unparsed < TUTOR_AGENT_MAX_RETRIES
  BY DEF AgentDegraded, AgentUnparsable, AgentAnswers
<1>3. TurnTrue'
  BY <1>1, QuietTurn
<1>4. TutorTypeOK' /\ CountersFit'
  BY <1>1, <1>2 DEF TutorInv, TutorTypeOK, CountersFit, TUTOR_AGENT_MAX_RETRIES
<1> QED
  BY <1>3, <1>4 DEF TutorInv

LEMMA AnswerStep ==
  ASSUME TutorInv, FinalizeVerified \/ ConservativeAnswer
  PROVE  TutorInv'
<1>1. /\ UNCHANGED <<version, asked, started, gap, tools, results, composeAttempts, unparsed>>
      /\ stage = "verify_citations" /\ stage' = "done"
  BY DEF FinalizeVerified, ConservativeAnswer, Answered
<1>2. PICK kind \in {"answer", "conservative"}, cites \in SUBSET ValidIds :
        /\ kind = "answer" => cites # {}
        /\ reply' = [kind |-> kind, cites |-> cites]
  <2>1. CASE FinalizeVerified
    <3>1. /\ drafted \in SUBSET ValidIds /\ drafted # {}
          /\ reply' = [kind |-> "answer", cites |-> drafted]
      BY <2>1 DEF FinalizeVerified, Passed, VerifyCitations, Answered
    <3> QED
      BY <3>1
  <2>2. CASE ConservativeAnswer
    <3>1. PICK cites : /\ cites = UNION {results[i].cites : i \in {j \in DOMAIN results : results[j].data}}
                       /\ reply' = [kind |-> "conservative", cites |-> cites]
      BY <2>2 DEF ConservativeAnswer, Answered
    <3>2. cites \in SUBSET ValidIds
      BY <3>1 DEF ValidIds
    <3> QED
      BY <3>1, <3>2
  <2> QED
    BY <2>1, <2>2
<1>3. ReplyTrue'
  BY <1>1, <1>2, Answering
<1>4. TurnTrue'
  BY <1>1, <1>3, QuietTurn
<1>5. TutorTypeOK' /\ CountersFit'
  BY <1>1 DEF TutorInv, TutorTypeOK, CountersFit
<1> QED
  BY <1>4, <1>5 DEF TutorInv

LEMMA TutorInvHolds == TutorSpec => []TutorInv
<1>1. TutorInit => TutorInv
  BY TutorBegins
<1>2. TutorInv /\ [TutorNext]_tutorVars => TutorInv'
  <2> SUFFICES ASSUME TutorInv, [TutorNext]_tutorVars PROVE TutorInv'
    OBVIOUS
  <2>1. CASE Commit \/ UNCHANGED tutorVars
    BY <2>1, CommitStep
  <2>2. ASSUME NEW r \in Requests, Begin(r) PROVE TutorInv'
    BY <2>2, BeginStep
  <2>3. CASE RefuseTurn \/ ComposeAnswer \/ Regenerate
    BY <2>3, ComposeStep
  <2>4. CASE CallTool
    BY <2>4, CallToolStep
  <2>5. CASE ToolFails
    BY <2>5, ToolFailsStep
  <2>6. CASE AgentDegraded \/ AgentUnparsable \/ AgentAnswers
    BY <2>6, AgentStep
  <2>7. CASE FinalizeVerified \/ ConservativeAnswer
    BY <2>7, AnswerStep
  <2> QED
    BY <2>1, <2>2, <2>3, <2>4, <2>5, <2>6, <2>7 DEF TutorNext, Turn
<1> QED
  BY <1>1, <1>2, PTL DEF TutorSpec

LEMMA ResultsAreTrue ==
  ASSUME TutorInv
  PROVE  \A i \in DOMAIN results : \A last \in {version} : ResultTrue(results[i], last)
BY DEF TutorInv, TurnTrue, ResultsTrue, ToSet

(* AnswerGrounded of every turn, for every learner's history of records,   *)
(* every graph, every request and whatever a model cites.                  *)
THEOREM AnswersAlwaysGrounded == TutorSpec => []AnswerGrounded
<1>1. TutorInv => AnswerGrounded
  BY DEF TutorInv, TurnTrue, ReplyTrue, AnswerGrounded
<1> QED
  BY <1>1, TutorInvHolds, PTL

(* OffersUsable of every search, for every catalog and learner: by what    *)
(* the retriever's filter, sort and diversity pass do to any list of rows. *)
THEOREM OffersAlwaysUsable == TutorSpec => []OffersUsable
<1>1. TutorInv => OffersUsable
  BY ResultsAreTrue DEF ResultTrue, OffersUsable
<1> QED
  BY <1>1, TutorInvHolds, PTL

(* ReportAddsUp of every progress report, whatever is committed while it   *)
(* is put together.                                                        *)
THEOREM ReportsAlwaysAddUp == TutorSpec => []ReportAddsUp
<1>1. TutorInv => ReportAddsUp
  BY ResultsAreTrue DEF ResultTrue, ReportAddsUp
<1> QED
  BY <1>1, TutorInvHolds, PTL
===============================================================================
