--------------------------- MODULE MCPlanningGraph ---------------------------
(***************************************************************************)
(* A role of three skills: s needs p, q stands alone.  The resource        *)
(* "shared" targets both s and q and is two sessions at a cap of 45.       *)
(***************************************************************************)
EXTENDS PlanningGraph

CONSTANTS p, s, q, own, other, shared

MCSkill == {p, s, q}
MCHardPrereq == {<<p, s>>}
MCRoleLevel == (p :> 0) @@ (s :> 1) @@ (q :> 2)
MCEdgeLevel == (<<p, s>> :> 1)
MCWeight == (p :> 0) @@ (s :> 2) @@ (q :> 3)
MCUrgency == (0 :> 100) @@ (1 :> 169) @@ (2 :> 210) @@ (3 :> 239)
MCAlphabet == (p :> 1) @@ (s :> 3) @@ (q :> 2)

MCResource == {own, other, shared}
MCDuration == (own :> 30) @@ (other :> 40) @@ (shared :> 70)
MCTargets == (p :> {<<other>>})
          @@ (s :> {<<own, shared>>, <<shared, own>>})
          @@ (q :> {<<other, shared>>})
MCBank == (p :> [probe |-> 2, practice |-> 1])
       @@ (s :> [probe |-> 3, practice |-> 2])
       @@ (q :> [probe |-> 1, practice |-> 0])
MCDoneSets == {{}, {<<shared, 1>>}}

none == [tier |-> "none", level |-> 0]
claimed == [tier |-> "claimed", level |-> 0]
shown(l) == [tier |-> "shown", level |-> l]

MCLearners ==
  {(p :> a) @@ (s :> none) @@ (q :> c) :
     a \in {none, claimed, shown(1)}, c \in {claimed, shown(1)}}
  \cup {(p :> shown(1)) @@ (s :> l) @@ (q :> l) : l \in {shown(0), shown(2)}}

MCGateways == {[provider |-> TRUE, replayMode |-> FALSE],
               [provider |-> FALSE, replayMode |-> TRUE]}

(* What the model may propose: any offered session early, late or too      *)
(* difficult, a probe, and practice that is too long for a short week.     *)
MCDraftItem(cs) ==
  UNION {{[type |-> "resource", skill |-> o, res |-> x.res, index |-> x.index,
           bank |-> 0, est |-> x.est, difficulty |-> c[1], day |-> c[2], dep |-> 0] :
             x \in UNION {ToSet(cs[o].resources[n].sessions) : n \in DOMAIN cs[o].resources},
             c \in {<<1, 1>>, <<1, 3>>, <<3, 1>>}} : o \in DOMAIN cs}
  \cup {[type |-> c[1], skill |-> o, res |-> NoResource, index |-> 0, bank |-> cs[o].bank,
         est |-> c[2], difficulty |-> 1, day |-> c[3], dep |-> 0] :
           o \in DOMAIN cs, c \in {<<"probe", 9, 1>>, <<"practice", 100, 2>>}}
==============================================================================
