----------------------------- MODULE LanePromise -----------------------------
(***************************************************************************)
(* What the lanes of the task backend promise for the jobs handed to them, *)
(* with none of their mechanism.  A job is new until a lane takes it, then *)
(* waits, runs and is over, each at most once; it may be refused or taken  *)
(* back before it runs, and never comes back.  A job starts only while its *)
(* lane runs fewer jobs than its limit.                                    *)
(***************************************************************************)
EXTENDS Naturals, FiniteSets

CONSTANTS Jobs, Lanes

VARIABLES state,  \* state[j]: how far job j is
          lane,   \* lane[j]: the lane job j is for
          limit   \* limit[l]: how many jobs lane l may run

vars == <<state, lane, limit>>

Running(l) == {j \in Jobs : state[j] = "running" /\ lane[j] = l}

Init ==
  /\ state = [j \in Jobs |-> "new"]
  /\ lane \in [Jobs -> Lanes]
  /\ limit \in [Lanes -> Nat \ {0}]

Becomes(j, s) == state' = [state EXCEPT ![j] = s] /\ UNCHANGED <<lane, limit>>

(* A job gets the lane it is for before it is handed over.                 *)
Name(j) ==
  /\ state[j] = "new"
  /\ \E l \in Lanes : lane' = [lane EXCEPT ![j] = l]
  /\ UNCHANGED <<state, limit>>

Accept(j) == state[j] = "new" /\ Becomes(j, "waiting")

Refuse(j) == state[j] = "new" /\ Becomes(j, "over")

TakeBack(j) == state[j] = "waiting" /\ Becomes(j, "over")

Run(j) ==
  /\ state[j] \in {"new", "waiting"}
  /\ Cardinality(Running(lane[j])) < limit[lane[j]]
  /\ Becomes(j, "running")

End(j) == state[j] = "running" /\ Becomes(j, "over")

(* The limits may be changed whatever runs: lowering one stops nothing.    *)
SetLimits == limit' \in [Lanes -> Nat \ {0}] /\ UNCHANGED <<state, lane>>

(* The process dies, and its jobs with it.                                 *)
Die ==
  /\ state' \in [Jobs -> {"new", "over"}]
  /\ \A j \in Jobs : state'[j] = "new" => state[j] = "new"
  /\ limit' \in [Lanes -> Nat \ {0}]
  /\ UNCHANGED lane

Next ==
  \/ \E j \in Jobs : Name(j) \/ Accept(j) \/ Refuse(j) \/ TakeBack(j) \/ Run(j) \/ End(j)
  \/ SetLimits
  \/ Die

Spec == Init /\ [][Next]_vars
=============================================================================
