------------------------------- MODULE Onboarding -------------------------------
(***************************************************************************)
(* The onboarding graph (G1): how a document a learner uploads becomes the *)
(* pending claims the learner is asked to confirm (LearnerState goes on    *)
(* from there).  One upload is one request and one transaction: parse,     *)
(* extract with a model or, when it is not to be had, with a scan for the  *)
(* phrases of the catalog, verify each quotation, find its skill, commit.  *)
(* The uploaded file is written to disk first, outside the transaction.    *)
(*                                                                         *)
(* A text is a sequence of words, up to their case, and a quotation one    *)
(* word at a position; what a position outside the text stands for is      *)
(* offsets that are outside it or at something else.  Words that           *)
(* SequenceMatcher finds 0.9 similar are Alike; a word may also be Inside  *)
(* another one.  Offsets behind a place by n are n characters beyond it.   *)
(*                                                                         *)
(* OffsetTrusted, FlaggedAmongAll, LastSkillOf and ResolutionsUnchecked    *)
(* are mutants of the definitions they precede: no action uses them.       *)
(***************************************************************************)
EXTENDS Integers, Sequences, SequencesExt, FiniteSets

CONSTANTS
  Uploads,       \* requests to upload a document; also the ids of documents
  Skills,        \* skills of the catalog
  Phrases,       \* their labels and aliases as <<skill, word>>, in the order of the SELECTs
  Texts,         \* what the pages of documents say
  Instructions,  \* words that look like an instruction to the model
  Verbs,         \* words that tell of a project
  Contacts,      \* e-mail addresses, phone numbers
  Redacted,      \* what scrub_pii puts in their place
  Similar,       \* the other pairs of words that are Alike
  Inside,        \* pairs of a word and a longer one that holds it
  Longer,        \* words with a character that takes two in lower case
  Quotations(_), \* the claims a model may make of a text
  Likenesses,    \* how near labels are to skills, by whatever made the vectors
  TOP_K,         \* TOP_K_CANDIDATES
  REACH,         \* INJECTION_WINDOW_CHARS and CONTEXT_WINDOW_CHARS, in words
  MAX_QUOTES,    \* bound on the claims in one answer of the model
  None

EMBEDDING_CONFIDENT_THRESHOLD == 92
EMBEDDING_MIN_CANDIDATE_THRESHOLD == 55
max_retries == 2

ASSUME BoundsAssumption ==
  TOP_K \in Nat \ {0} /\ {REACH, MAX_QUOTES} \subseteq Nat /\ None \notin Skills
\* What stands in for contact details does not look like them.
ASSUME RedactedAssumption == Redacted \notin Contacts
\* The scan and the normalizer read them in one order, though neither SELECT
\* has an ORDER BY (api/v1/onboarding.py:33 and :90).
ASSUME PhrasesAssumption ==
  \A n \in DOMAIN Phrases : n \in Nat /\ Phrases[n][1] \in Skills
ASSUME TextsAssumption ==
  <<>> \in Texts /\ \A text \in Texts : Len(text) \in Nat /\ DOMAIN text = 1..Len(text)

VARIABLES
  files,      \* uploads whose file is on disk
  documents,  \* committed documents rows, with the text their hash stands for
  claims,     \* committed pending_claims rows
  pc,
  run,        \* the state a request passes from node to node
  answer      \* the summary the client was sent

database == <<documents, claims>>
vars == <<files, database, pc, run, answer>>

Kinds == {"pdf", "docx", "text", "image", "github"}
Statuses == {"pending", "parsed", "parsed_vlm", "empty", "needs_text_paste",
             "degraded", "degraded: and why at length"}
Methods == {"exact_alias", "embedding", "llm_disambiguation", "unmapped"}

NoSummary == [extracted |-> 0, unverified |-> 0, injection |-> 0, pending |-> 0,
              degraded |-> FALSE]
NoRun == [kind |-> "text", page |-> <<>>, layer |-> FALSE, source |-> <<>>,
          status |-> "pending", attempt |-> 0, drafts |-> <<>>, kept |-> <<>>,
          found |-> <<>>, summary |-> NoSummary]

Open == {u \in Uploads : pc[u] \notin {"idle", "answered", "failed"}}

-----------------------------------------------------------------------------
(* Evidence verification *)

Alike(w, v) == w = v \/ <<w, v>> \in Similar \/ <<v, w>> \in Similar

\* str.find looks for characters, inside words too.
Holds(word, span) == word = span \/ <<span, word>> \in Inside
Matches(word, span) == Alike(word, span) \/ Holds(word, span)
SaidAtClaim(claim, text) == claim.at \in DOMAIN text /\ Matches(text[claim.at], claim.span)

\* verify_span: where the quotation really is, or 0.  The claimed offsets are
\* tried first, then the first place the text says just this.
OffsetTrusted(claim, text) == IF claim.at \in DOMAIN text THEN claim.at ELSE 0
VerifySpan(claim, text) ==
  LET places == {i \in DOMAIN text : Holds(text[i], claim.span)} IN
  CASE SaidAtClaim(claim, text) -> claim.at
    [] OTHER -> IF places = {} THEN 0 ELSE CHOOSE i \in places : \A j \in places : i <= j

\* The place is looked for in source_text.lower(), and its offsets there are
\* taken for offsets of the text.
Lengthened(text, i) == Cardinality({j \in DOMAIN text : j < i /\ text[j] \in Longer})
BehindBy(claim, text) ==
  IF SaidAtClaim(claim, text) THEN 0 ELSE Lengthened(text, VerifySpan(claim, text))

Window(text, i) == {text[j] : j \in {k \in DOMAIN text : k <= i + REACH /\ i <= k + REACH}}

\* check_injection: around the offsets the claim came with.
CheckInjection(claim, text) ==
  (IF claim.at \in DOMAIN text THEN Window(text, claim.at) ELSE {claim.span})
    \cap Instructions # {}

\* assign_tier
AssignTier(context, kind) ==
  CASE kind = "github" \/ context = "certificate" -> 2
    [] kind # "github" /\ context = "project" -> 1
    [] OTHER -> 0

SpanVerified(claim, text) == VerifySpan(claim, text) # 0

\* A claim counted in dropped_injection.
FlaggedAmongAll(claim, text) == CheckInjection(claim, text)
Flagged(claim, text) == SpanVerified(claim, text) /\ CheckInjection(claim, text)
Kept(claim, text) == SpanVerified(claim, text) /\ ~CheckInjection(claim, text)

\* What EvidenceVerifier.verify makes of a claim.
Verified(claim, text, kind) ==
  [label |-> claim.label, span |-> claim.span,
   at |-> VerifySpan(claim, text), behind |-> BehindBy(claim, text),
   tier |-> AssignTier(claim.context, kind)]

-----------------------------------------------------------------------------
(* Extraction without a model, and normalization *)

Words == {Phrases[n][2] : n \in DOMAIN Phrases}
FirstSkillOf(word) ==
  LET naming == {n \in DOMAIN Phrases : Phrases[n][2] = word}
  IN Phrases[CHOOSE n \in naming : \A m \in naming : n <= m][1]

\* DeterministicClaimExtractor.extract: the first place of every skill, in an
\* order nothing here depends on.
Scan(text) ==
  LET says(i, s) == text[i] \in Words /\ FirstSkillOf(text[i]) = s
      first == {i \in DOMAIN text : \E s \in Skills :
                  says(i, s) /\ \A j \in 1..(i - 1) : ~says(j, s)}
      claim(i) == [label |-> text[i], span |-> text[i], at |-> i,
                   context |-> IF Window(text, i) \cap Verbs # {} THEN "project" ELSE "skills_list"]
      places == SetToSeq(first)
  IN [n \in DOMAIN places |-> claim(places[n])]

\* SkillNormalizer._exact_index, an index of its own.
LastSkillOf(label) ==
  LET naming == {n \in DOMAIN Phrases : Phrases[n][2] = label} IN
  IF naming = {} THEN None ELSE Phrases[CHOOSE n \in naming : \A m \in naming : n >= m][1]
ExactSkill(label) == IF label \in Words THEN FirstSkillOf(label) ELSE None

\* _top_candidates
Nearer(like, label, s, t) == like[label][s] > like[label][t]
TopCandidates(like, label) ==
  {s \in Skills : Cardinality({t \in Skills : Nearer(like, label, t, s)}) < TOP_K}

Resolution(skill, method) == [skill |-> skill, method |-> method]
Unmapped == Resolution(None, "unmapped")

\* normalize: what may come out for a label.  Between the two thresholds the
\* model picks one of the candidates, or its answer is no good.
ResolutionsUnchecked(label) ==
  IF ExactSkill(label) # None THEN {Resolution(ExactSkill(label), "exact_alias")}
  ELSE {Unmapped} \cup {Resolution(s, "llm_disambiguation") : s \in Skills}
Resolutions(label) ==
  IF ExactSkill(label) # None THEN {Resolution(ExactSkill(label), "exact_alias")}
  ELSE UNION {
    LET best == {s \in Skills : \A t \in Skills : ~Nearer(like, label, t, s)} IN
    CASE \A s \in best : like[label][s] < EMBEDDING_MIN_CANDIDATE_THRESHOLD -> {Unmapped}
      [] \E s \in best : like[label][s] >= EMBEDDING_CONFIDENT_THRESHOLD ->
           {Resolution(s, "embedding") : s \in best}
      [] OTHER -> {Unmapped} \cup
           {Resolution(s, "llm_disambiguation") : s \in TopCandidates(like, label)}
    : like \in Likenesses}

-----------------------------------------------------------------------------
Init ==
  /\ files = {}
  /\ documents = {}
  /\ claims = {}
  /\ pc = [u \in Uploads |-> "idle"]
  /\ run = [u \in Uploads |-> NoRun]
  /\ answer = [u \in Uploads |-> NoSummary]

GoTo(u, place) == pc' = [pc EXCEPT ![u] = place]
Fails(u) == GoTo(u, "failed") /\ run' = [run EXCEPT ![u] = NoRun]

\* validate_upload refuses the file.
Refuse(u) ==
  /\ pc[u] = "idle"
  /\ Fails(u)
  /\ UNCHANGED <<files, database, answer>>

\* validate_upload, DocumentStorage.save, create_document.  A page may be seen
\* without its text being there to extract.
UploadFile(u) ==
  \E kind \in Kinds \ {"github"}, page \in Texts, layer \in BOOLEAN :
    /\ pc[u] = "idle"
    /\ kind \in {"docx", "text"} => layer
    /\ kind = "image" => ~layer
    /\ run' = [run EXCEPT ![u] = [NoRun EXCEPT !.kind = kind, !.page = page, !.layer = layer]]
    /\ files' = files \cup {u}
    /\ GoTo(u, "parsing")
    /\ UNCHANGED <<database, answer>>

\* GitHubClient.repo_summary, which answers with a reason when the repository
\* was not to be had: a few words, or the exception.  Then create_document.
UploadGitHub(u) ==
  \E page \in Texts, status \in {"pending", "degraded", "degraded: and why at length"} :
    /\ pc[u] = "idle"
    /\ status = "pending" <=> page # <<>>
    /\ run' = [run EXCEPT ![u] = [NoRun EXCEPT !.kind = "github", !.page = page,
                                               !.layer = TRUE, !.status = status]]
    /\ GoTo(u, "parsing")
    /\ UNCHANGED <<files, database, answer>>

\* scrub_pii
Scrub(text) == [i \in DOMAIN text |-> IF text[i] \in Contacts THEN Redacted ELSE text[i]]

\* There is a vector of every skill, and of any label a model may make up.
ASSUME LikenessesAssumption ==
  \A like \in Likenesses, text \in Texts :
    \A claim \in Quotations(Scrub(text)) : like[claim.label] \in [Skills -> Int]

Parsed(u, text, status) ==
  /\ run' = [run EXCEPT ![u].source = Scrub(text),
                        ![u].status = IF @ = "pending" THEN status ELSE @]
  /\ GoTo(u, "extracting")
  /\ UNCHANGED <<files, database, answer>>

\* parse_documents_node, of a text that is there.
ParseText(u) ==
  /\ pc[u] = "parsing"
  /\ run[u].layer
  /\ run[u].page # <<>>
  /\ Parsed(u, run[u].page, "parsed")

\* The same, of a text that is not and of which no image could be read.
ParseNothing(u) ==
  /\ pc[u] = "parsing"
  /\ ~run[u].layer \/ run[u].page = <<>>
  /\ Parsed(u, <<>>, IF run[u].kind = "github" THEN "empty" ELSE "needs_text_paste")

\* _vlm_fallback: a vision model reads the page, as it is or otherwise.
Transcribe(u) ==
  /\ pc[u] = "parsing"
  /\ run[u].kind \in {"pdf", "image"}
  /\ ~run[u].layer \/ run[u].page = <<>>
  /\ \E text \in Texts \ {<<>>} : Parsed(u, text, "parsed_vlm")

\* CorruptDocumentError or DocumentTooLargeError out of the parser.
ParseFails(u) ==
  /\ pc[u] = "parsing"
  /\ run[u].kind \in {"pdf", "docx"}
  /\ Fails(u)
  /\ UNCHANGED <<files, database, answer>>

VerifyNext(u, drafts) == GoTo(u, IF drafts = <<>> THEN "normalizing" ELSE "verifying")

Extracted(u, drafts, degraded) ==
  /\ run' = [run EXCEPT ![u].drafts = drafts,
                        ![u].summary = [NoSummary EXCEPT !.extracted = Len(drafts),
                                                         !.degraded = degraded]]
  /\ VerifyNext(u, drafts)
  /\ UNCHANGED <<files, database, answer>>

\* ProfilerAgent._extract_via_llm: the answer is a list of claims on this document.
ModelExtracts(u) ==
  /\ pc[u] = "extracting"
  /\ \E drafts \in BoundedSeq(Quotations(run[u].source), MAX_QUOTES) : Extracted(u, drafts, FALSE)

\* The answer is no such list (ExtractionParseError): once more, with the error.
ModelErrs(u) ==
  /\ pc[u] = "extracting"
  /\ run[u].attempt < max_retries
  /\ run' = [run EXCEPT ![u].attempt = @ + 1]
  /\ UNCHANGED <<files, database, pc, answer>>

\* The gateway has no answer, or the last attempt went wrong.
ScanInstead(u) ==
  /\ pc[u] = "extracting"
  /\ Extracted(u, Scan(run[u].source), TRUE)

\* verify_evidence_node, one claim.
Verify(u) ==
  LET text == run[u].source
      claim == Head(run[u].drafts)
      rest == Tail(run[u].drafts)
      counts == run[u].summary
  IN
  /\ pc[u] = "verifying"
  /\ run' = [run EXCEPT
       ![u].drafts = rest,
       ![u].kept = IF Kept(claim, text)
                   THEN Append(run[u].kept, Verified(claim, text, run[u].kind))
                   ELSE run[u].kept,
       ![u].summary = [counts EXCEPT
          !.unverified = counts.unverified + (IF SpanVerified(claim, text) THEN 0 ELSE 1),
          !.injection = counts.injection + (IF Flagged(claim, text) THEN 1 ELSE 0)]]
  /\ VerifyNext(u, rest)
  /\ UNCHANGED <<files, database, answer>>

\* normalize_skills_node, one claim.
Normalize(u) ==
  LET n == Len(run[u].found) + 1 IN
  /\ pc[u] = "normalizing"
  /\ n <= Len(run[u].kept)
  /\ \E resolution \in Resolutions(run[u].kept[n].label) :
       run' = [run EXCEPT ![u].found = Append(@, resolution)]
  /\ UNCHANGED <<files, database, pc, answer>>

\* What the rest of the request writes: a row for every claim, the status.
RowsOf(u) ==
  {[doc |-> u, n |-> n, claim |-> run[u].kept[n], to |-> run[u].found[n]] : n \in DOMAIN run[u].found}

\* parse_status is a column of 32 characters.
StatusFits(status) == status # "degraded: and why at length"

\* create_pending_claims, the summary, the commit.
Save(u) ==
  /\ pc[u] = "normalizing"
  /\ Len(run[u].found) = Len(run[u].kept)
  /\ StatusFits(run[u].status)
  /\ documents' = documents \cup
       {[id |-> u, kind |-> run[u].kind, status |-> run[u].status, text |-> run[u].source]}
  /\ claims' = claims \cup RowsOf(u)
  /\ answer' = [answer EXCEPT ![u] = [run[u].summary EXCEPT !.pending = Len(run[u].found)]]
  /\ run' = [run EXCEPT ![u] = NoRun]
  /\ GoTo(u, "answered")
  /\ UNCHANGED files

SaveFails(u) ==
  /\ pc[u] = "normalizing"
  /\ Len(run[u].found) = Len(run[u].kept)
  /\ ~StatusFits(run[u].status)
  /\ Fails(u)
  /\ UNCHANGED <<files, database, answer>>

\* The server stops, the client goes, the database does not answer: the session
\* is closed and nothing of it is committed.
Abort(u) ==
  /\ u \in Open
  /\ Fails(u)
  /\ UNCHANGED <<files, database, answer>>

Step(u) ==
  \/ ParseText(u) \/ ParseNothing(u) \/ Transcribe(u) \/ ParseFails(u)
  \/ ModelErrs(u) \/ ScanInstead(u) \/ ModelExtracts(u)
  \/ Verify(u) \/ Normalize(u) \/ Save(u) \/ SaveFails(u)

Next ==
  \E u \in Uploads :
    Refuse(u) \/ UploadFile(u) \/ UploadGitHub(u) \/ Step(u) \/ Abort(u)

Spec == Init /\ [][Next]_vars

-----------------------------------------------------------------------------
RowsFor(u) == {c \in claims : c.doc = u}

TypeOK ==
  /\ files \subseteq Uploads
  /\ \A d \in documents : d.id \in Uploads /\ d.kind \in Kinds /\ d.status \in Statuses
  /\ \A c \in claims : c.claim.tier \in 0..2 /\ c.to.method \in Methods
  /\ pc \in [Uploads -> {"idle", "parsing", "extracting", "verifying", "normalizing",
                        "answered", "failed"}]
  /\ DOMAIN run = Uploads /\ DOMAIN answer = Uploads

\* "No span means no evidence": whatever a model said of whatever document, the
\* learner is only asked about what the scrubbed text of a document on record
\* says, or all but says, at a place that holds no contact details; the offsets
\* of the row are those of that place, or behind it by no more than lower case
\* adds to the text before; and what GitHub shows counts as evidence of its own.
ClaimsQuoteTheText ==
  /\ TypeOK
  /\ \A c \in claims : \E d \in documents :
       /\ d.id = c.doc
       /\ c.claim.at \in DOMAIN d.text
       /\ Matches(d.text[c.claim.at], c.claim.span)
       /\ d.text[c.claim.at] \notin Contacts
       /\ c.claim.behind \in {0, Lengthened(d.text, c.claim.at)}
       /\ d.kind = "github" => c.claim.tier = 2

\* An unmapped label stays free text and is "never force-fit onto a graph node":
\* a claim names a skill only if the catalog knows the label by that name or the
\* skill is among those nearest to it by some vectors, and the first skill the
\* catalog gives a name keeps it.
NeverForceFit ==
  \A c \in claims :
    /\ c.to.skill = None <=> c.to.method = "unmapped"
    /\ c.claim.label \in Words =>
         /\ c.to.skill = FirstSkillOf(c.claim.label)
         /\ c.to.method = "exact_alias"
    /\ c.to.method \in {"embedding", "llm_disambiguation"} =>
         \E like \in Likenesses :
           /\ c.to.skill \in TopCandidates(like, c.claim.label)
           /\ \E s \in Skills : like[c.claim.label][s] >= EMBEDDING_MIN_CANDIDATE_THRESHOLD

\* Without a model an upload asks about exactly the skills the text names, each
\* once, but for those it first names beside an instruction: a later place is
\* not looked at (extract keeps the first, verify_evidence drops it).
ScanFindsWhatIsNamed ==
  \A d \in documents : answer[d.id].degraded =>
    LET names(i, s) == d.text[i] \in Words /\ FirstSkillOf(d.text[i]) = s
        askable(s) == \E i \in DOMAIN d.text :
          /\ names(i, s) /\ \A j \in 1..(i - 1) : ~names(j, s)
          /\ Window(d.text, i) \cap Instructions = {}
    IN
    /\ {c.to.skill : c \in RowsFor(d.id)} = {s \in Skills : askable(s)}
    /\ \A c, e \in RowsFor(d.id) : c.to.skill = e.to.skill => c = e

\* The summary accounts for every claim that was extracted, and is true of the
\* rows: an upload that was answered has its document, all its rows and, for a
\* file, the file; one that was not has left no row of either kind.
SummaryAddsUp ==
  \A u \in Uploads :
    IF pc[u] = "answered"
    THEN /\ answer[u].extracted = answer[u].unverified + answer[u].injection + answer[u].pending
         /\ answer[u].pending = Cardinality(RowsFor(u))
         /\ \E d \in documents :
              /\ d.id = u
              /\ d.kind # "github" => u \in files
              /\ d.status \in {"needs_text_paste", "empty"} => RowsFor(u) = {}
    ELSE RowsFor(u) = {} /\ \A d \in documents : d.id # u
=============================================================================
