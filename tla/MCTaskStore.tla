----------------------------- MODULE MCTaskStore -----------------------------
(***************************************************************************)
(* Small instances of the task store: two task keys of one project and     *)
(* lane, one requester, and a limit of one active task.                    *)
(***************************************************************************)
EXTENDS TaskStore

MCProjectOf == [k \in {"sketch", "render"} |-> "p1"]
MCLaneOf == [k \in {"sketch", "render"} |-> "default"]
MCLimits == {[project |-> 1, user |-> 1]}
=============================================================================
