------------------------------ MODULE MCLaneRace ------------------------------
(***************************************************************************)
(* Five jobs of two projects on one lane.  With one loop every operation   *)
(* runs to its end before the next; with two, "main" and the loop of a     *)
(* workflow share the lane.                                                *)
(***************************************************************************)
EXTENDS LaneRace

MCProjectOf == [a |-> "p1", b |-> "p1", c |-> "p2", d |-> "p1", e |-> "p2"]
OneLoop == [j \in {"a", "b", "c", "d", "e"} |-> "main"]
TwoLoops == [a |-> "main", b |-> "main", c |-> "flow", d |-> "flow", e |-> "main"]

AloneOrShared == {[loopOf |-> OneLoop, conc |-> 2], [loopOf |-> TwoLoops, conc |-> 1]}
Shared == {[loopOf |-> TwoLoops, conc |-> 1]}
=============================================================================
