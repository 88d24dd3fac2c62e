------------------------------- MODULE MCTutor -------------------------------
(***************************************************************************)
(* A role of three skills: s needs p, q stands alone; x is a skill of      *)
(* another role.  Five commits of one learner: no profile yet, the skills  *)
(* as claimed, a plan after a first assessment, its revision after a       *)
(* struggle, and a new graph that does not know the role.  The decision d2 *)
(* is another learner's.                                                   *)
(***************************************************************************)
EXTENDS Tutor, TLC

CONSTANTS p, s, q, x, unheard, role, e1, e2, e3, w1, v1, v2, i1, i2, i3, o1,
          d1, d2, g1, m1, best, same, far, gone, invented

MCSkill == {p, s, q}
MCHardPrereq == {<<p, s>>}
MCRoleLevel == (p :> 0) @@ (s :> 1) @@ (q :> 2)
MCEdgeLevel == (<<p, s>> :> 1)
MCWeight == (p :> 0) @@ (s :> 2) @@ (q :> 3)
MCUrgency == (0 :> 100) @@ (1 :> 169) @@ (2 :> 210) @@ (3 :> 239)
MCAlphabet == (p :> 1) @@ (s :> 3) @@ (q :> 2)

row == [link |-> "ok", from |-> 0, to |-> 2, prereqs |-> {}, minutes |-> 30,
        language |-> "en", provider |-> "one", modality |-> "read",
        curation |-> "curated", age |-> 10, close |-> 80, words |-> 3]
MCRow == (best :> row)
      @@ (same :> [row EXCEPT !.minutes = 45, !.curation = "community", !.age = 200])
      @@ (far  :> [row EXCEPT !.prereqs = {p}, !.modality = "watch", !.from = 2, !.close = 10,
                       !.curation = "unvetted", !.age = -1])
      @@ (gone :> [row EXCEPT !.link = "redirected", !.modality = "do"])
MCOffers == (p :> <<best, same>>) @@ (s :> <<gone, same, best, far>>)
         @@ (q :> <<>>) @@ (x :> <<gone, far>>)

none == [tier |-> "none", level |-> 0]
claimed == [tier |-> "claimed", level |-> 0]
shown(l) == [tier |-> "shown", level |-> l]
Skills(a, b, c) == (p :> a) @@ (s :> b) @@ (q :> c)

NoRecord == [profile |-> "no_profile", learner |-> Skills(none, none, none),
             evidence |-> Skills({}, {}, {}), plan |-> Nil, revision |-> Nil,
             items |-> <<>>, signals |-> {}, misconceptions |-> {}, decisions |-> {}]
Claimed == [NoRecord EXCEPT !.profile = "ok", !.learner = Skills(claimed, none, none),
                            !.evidence = Skills({e1}, {}, {})]
lesson == [id |-> i1, skill |-> p, objective |-> o1, resource |-> best, decision |-> Nil,
           evidence |-> {e1}, status |-> "planned", day |-> 2]
check == [lesson EXCEPT !.id = i2, !.skill = s, !.resource = Nil, !.decision = d1, !.day = 3]
again == [lesson EXCEPT !.id = i3, !.status = "done"]
Planned == [Claimed EXCEPT !.learner = Skills(shown(0), shown(0), none),
                           !.evidence = Skills({e1, e2}, {e3}, {}),
                           !.plan = w1, !.revision = v1, !.items = (v1 :> {lesson})]
Struggled == [Planned EXCEPT
  !.learner = Skills(shown(1), shown(1), claimed),
  !.revision = v2, !.items = (v1 :> {lesson}) @@ (v2 :> {again, check}),
  !.signals = {[id |-> g1, skill |-> s, open |-> TRUE]},
  !.misconceptions = {[id |-> m1, skill |-> s]},
  !.decisions = {[id |-> d1, evidence |-> {e3}, path |-> {p, s}, output |-> {v2}]}]
MCHistory == <<NoRecord, Claimed, Planned, Struggled,
               [Struggled EXCEPT !.profile = "unknown_role"]>>

Chat(words, mention, hint, decision) ==
  [kind |-> "chat", words |-> words, mention |-> mention, hint |-> hint, decision |-> decision]
MCRequests ==
  {Chat({}, Nil, Nil, Nil), Chat({}, Nil, Nil, d1), Chat({}, s, Nil, Nil),
   Chat({}, p, x, Nil), Chat({}, Nil, unheard, Nil),
   Chat({"current_skills"}, Nil, Nil, Nil), Chat({"current_skills", "plan"}, p, unheard, Nil),
   Chat({"current_skills"}, p, Nil, Nil),
   Chat({"gaps"}, s, Nil, Nil), Chat({"gaps", "progress"}, Nil, Nil, Nil),
   Chat({"plan"}, s, Nil, Nil), Chat({"plan", "why_changed"}, Nil, Nil, d1),
   Chat({"why_recommended"}, Nil, Nil, d1), Chat({"why_recommended"}, Nil, Nil, d2),
   [kind |-> "progress", words |-> {}, mention |-> Nil, hint |-> Nil, decision |-> Nil]}

\* No citation, one, and one beside an invented id.
MCDrafts(valid) ==
  {{}, {invented}} \cup {{i} : i \in valid} \cup {{i, invented} : i \in valid}
==============================================================================
