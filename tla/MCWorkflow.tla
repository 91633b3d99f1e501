------------------------------ MODULE MCWorkflow ------------------------------
(***************************************************************************)
(* One episode.  A workflow starts from an empty project, from one whose   *)
(* character task completed without output, from one whose episodes are    *)
(* planned, with a scene menu that lacks a location, from one whose scenes *)
(* were planned again after the script was written, or from one that has   *)
(* its script.  The user may plan identities or submit a video, and clear  *)
(* them.                                                                   *)
(***************************************************************************)
EXTENDS ProductionWorkflow

Past(stage, e, at) == [node |-> <<stage, e>>, by |-> "past", st |-> "completed", at |-> at]

MCNodes == ({"ingest", "characters", "episodes"} \X {0})
             \cup ({"identities", "scenes", "script", "sketch", "video"} \X {1})

AllMade == {<<"characters", 0>>, <<"identities", 1>>, <<"scenes", 1>>, <<"script", 1>>}

NoCharacters == [kind |-> "script", past |-> <<Past("characters", 0, 1)>>,
                 planned |-> {1}, out |-> AllMade \ {<<"characters", 0>>},
                 menus |-> {1}, exact |-> {1}]
Planned == [kind |-> "script", past |-> <<>>, planned |-> {1}, out |-> {<<"characters", 0>>},
            menus |-> {1}, exact |-> {}]
Fresh == [kind |-> "script", past |-> <<>>, planned |-> {}, out |-> {},
          menus |-> {}, exact |-> {}]
OldScript == [kind |-> "script",
              past |-> <<Past("script", 1, 1), Past("scenes", 1, 2)>>,
              planned |-> {1}, out |-> AllMade, menus |-> {1}, exact |-> {1}]
Written == [OldScript EXCEPT !.past = <<>>, !.kind = "production"]

MCStarts == {NoCharacters, Fresh, Planned, OldScript, Written,
             [OldScript EXCEPT !.kind = "production"]}
MCShared == {<<"identities", 1>>, <<"video", 1>>}

(* To keep it small: a user's video meets productions only, and a user's   *)
(* identities meet workflows that have something to make for the script.   *)
UserMeets ==
  \A i \in DOMAIN run : run[i].by = "user" =>
    CASE run[i].node[1] = "video" -> prod.kind = "production"
      [] run[i].node[1] = "identities" -> prod.kind = "script" \/ run[1].by = "past"

MCJobs == <<{<<"sketch", 1>>, <<"video", 1>>}>>
=============================================================================
