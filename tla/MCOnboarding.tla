----------------------------- MODULE MCOnboarding -----------------------------
(***************************************************************************)
(* Onboarding for TLC: a catalog of three skills, two of which share an    *)
(* alias, and a model that quotes a text well and badly.  The second of    *)
(* two uploads is plain text and finds no model, to keep states few.        *)
(***************************************************************************)
EXTENDS Onboarding

CONSTANTS u1, u2,                           \* uploads
          a, b, c,                          \* skills
          pa, pb, both,                     \* words of the catalog
          mpa,                              \* pa, misspelt
          close, plausible, odd,            \* labels the catalog does not have
          built, obey, mail, redacted

MCPhrases == <<<<a, pa>>, <<a, both>>, <<b, pb>>, <<b, both>>>>
MCSimilar == {<<pa, mpa>>}
MCInside == {<<pb, both>>}
MCTexts ==
  {<<>>, <<pa, built, mail>>, <<both, pa>>, <<obey, pb, odd, pa, both>>}

\* Quotations at the right place and at another one, a misspelt one, and one of
\* what the model cannot have seen.
Quote(label, span, at, context) == [label |-> label, span |-> span, at |-> at, context |-> context]
MCQuotations(text) ==
  {Quote(pb, pb, 2, "certificate"), Quote(plausible, pb, 4, "project"),
   Quote(close, mpa, 1, "project"), Quote(odd, pa, 0, "skills_list"),
   Quote(both, mail, 3, "skills_list")}

Near(x, y, z) == a :> x @@ b :> y @@ c :> z
MCLikenesses ==
  {pa :> Near(99, 50, 10) @@ pb :> Near(50, 99, 10) @@ both :> Near(90, 90, 10)
     @@ close :> Near(95, 60, 10) @@ plausible :> Near(40, 60, 70) @@ odd :> Near(30, 10, 20),
   pa :> Near(0, 0, 0) @@ pb :> Near(0, 0, 0) @@ both :> Near(0, 0, 0)
     @@ close :> Near(20, 0, 57) @@ plausible :> Near(0, 0, 0) @@ odd :> Near(0, 30, 0)}

MCNext ==
  \/ Refuse(u1) \/ UploadFile(u1) \/ UploadGitHub(u1) \/ Step(u1) \/ Abort(u1)
  \/ UploadFile(u2) /\ run'[u2].kind = "text"
  \/ ParseText(u2) \/ ParseNothing(u2) \/ ScanInstead(u2) \/ Verify(u2) \/ Normalize(u2) \/ Save(u2)
  \/ Abort(u2)
MCSpec == Init /\ [][MCNext]_vars
===============================================================================
