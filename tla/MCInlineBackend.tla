--------------------------- MODULE MCInlineBackend ---------------------------
(***************************************************************************)
(* Small instances of the inline backend.  "sketch", "render" and "score"  *)
(* are tasks of the default lane; "flow" is a workflow, with a lane of its *)
(* own.  A limit pair [project, user] is the same number twice: the local  *)
(* edition has one requester.                                              *)
(***************************************************************************)
EXTENDS InlineBackend

OneProjectOf == [sketch |-> "p1", render |-> "p1"]
OneLaneOf == [sketch |-> "default", render |-> "default"]

AllProjectOf == [flow |-> "p1", sketch |-> "p1", render |-> "p1", score |-> "p2"]
AllLaneOf == [flow |-> "workflow", sketch |-> "default", render |-> "default",
              score |-> "default"]

FlowProjectOf == [flow |-> "p1", sketch |-> "p1", render |-> "p1"]
FlowLaneOf == [flow |-> "workflow", sketch |-> "default", render |-> "default"]

Limit(n) == [project |-> n, user |-> n]
Pol(conc, queueLimit) == [conc |-> conc, queue |-> queueLimit, lim |-> Limit(2)]

MCLimits == {Limit(2)}
Narrow == Pol(1, 1)
Deep == Pol(1, 2)
Wide == Pol(2, 0)
Tight == Pol(1, 0)

NarrowOnly == {Narrow}
AllPolicies == {Deep, Wide, Tight}

NarrowStart == [l \in {"default"} |-> Narrow]
FlowStart == [l \in {"workflow", "default"} |-> Narrow]
DeepStart == [l \in {"workflow", "default"} |-> Deep]

----------------------------------------------------------------------------
(* Run backend: three families of behaviours in one run, each with the     *)
(* actors its question needs.  A behaviour may begin in several families   *)
(* and stays in at least one.                                              *)
Submitted(keys) ==
  /\ nextId - 1 <= Len(keys)
  /\ \A i \in 1..(nextId - 1) : keyOf[i] = keys[i]
PolicyIn(S) == policy["default"] \in S /\ policy["workflow"] = Deep
OneCaller == \A c, d \in Callers : c = d \/ Idle \in {call[c], call[d]}
NoCanceller == \A x \in Cancellers : cxl[x] = Idle
FaultsUpTo(n) == Cardinality(faults) <= n
OneProcess == boot = 1

(* No report of 100% before the end, and no row kept until it expires.     *)
PlainRows == \A k \in Keys : ~rows[k].done /\ ~rows[k].expired

(* Two projects share a lane while its policy is switched.                 *)
Switching ==
  /\ Submitted(<<"sketch", "render", "score">>)
  /\ PolicyIn({Deep, Wide})
  /\ OneProcess /\ FaultsUpTo(0) /\ NoCanceller
  /\ PlainRows

(* Writes fail while a task is cancelled and lost to a restart: two of     *)
(* them around one task and its successor, one beside another task, or one *)
(* while the lane loses its queue and refuses the second task.             *)
Faulty ==
  /\ \/ PolicyIn({Deep}) /\ Submitted(<<"sketch", "sketch">>)
     \/ /\ PolicyIn({Deep}) /\ Submitted(<<"sketch", "render">>)
        /\ FaultsUpTo(1) /\ PlainRows
     \/ /\ PolicyIn({Deep, Tight}) /\ Submitted(<<"sketch", "render">>)
        /\ OneProcess /\ FaultsUpTo(1) /\ PlainRows /\ NoCanceller
  /\ OneCaller /\ swept["p2"] = "pending"

(* A workflow submits children from an event loop of its own.              *)
Flowing ==
  /\ \/ Submitted(<<"flow", "sketch", "render">>)
     \/ Submitted(<<"sketch", "flow", "render">>)
  /\ PolicyIn({Deep})
  /\ OneProcess /\ FaultsUpTo(0) /\ NoCanceller /\ PlainRows
  /\ OneCaller /\ swept["p2"] = "pending"

Family == Switching \/ Faulty \/ Flowing

SameCallers == Permutations(Callers)
=============================================================================
