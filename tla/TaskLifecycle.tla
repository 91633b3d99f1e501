---------------------------- MODULE TaskLifecycle ----------------------------
(***************************************************************************)
(* What the project task store promises its clients, with none of its      *)
(* mechanism.  A business task is named by a key (task type, project,      *)
(* episode, beat, scope).  A key is a slot for at most one accepted run of *)
(* that task; a run is named by an id that is never issued twice.  A run   *)
(* is live until it gets exactly one outcome, and the outcome stays as it  *)
(* is until the slot is forgotten or given to the next run.                *)
(***************************************************************************)
EXTENDS Naturals

CONSTANTS Keys,     \* the business task keys
          TaskIds   \* the names of runs

VARIABLES slot,     \* slot[k]: the run the key holds and how far it is
          used      \* every id issued so far

Outcomes == {"completed", "failed", "cancelled"}

(* A delivered run has reported progress 1.0 and "done" but has not        *)
(* recorded its outcome yet.                                               *)
Live == {"active", "delivered"}

Phases == Live \cup Outcomes

Empty == [id |-> 0, phase |-> "empty"]

Init == /\ slot = [k \in Keys |-> Empty]
        /\ used = {}

(* The key holds nothing, or only a run whose outcome is known.            *)
Accept(k) ==
  /\ slot[k].phase \notin Live
  /\ \E id \in TaskIds \ used : slot'[k] = [id |-> id, phase |-> "active"]

(* The same run goes on, reports that it delivered, or gets its outcome.   *)
Advance(k) ==
  /\ slot[k].phase \in Live
  /\ \E p \in Phases : slot'[k] = [slot[k] EXCEPT !.phase = p]

(* An outcome may be forgotten; a live run may not, unless it has already  *)
(* reported that it delivered (the user clears completed tasks).           *)
Forget(k) ==
  /\ slot[k].phase \in Outcomes \cup {"delivered"}
  /\ slot'[k] = Empty

Stay(k) == slot'[k] = slot[k]

(* One store transaction may move several keys (the restart sweep) but it  *)
(* accepts at most one run.                                                *)
Next ==
  /\ slot' = [k \in Keys |-> slot'[k]]
  /\ \A k \in Keys : Accept(k) \/ Advance(k) \/ Forget(k) \/ Stay(k)
  /\ \A j, k \in Keys : slot'[j].id = slot'[k].id /\ slot'[j].id # 0 => j = k
  /\ used' = used \cup ({slot'[k].id : k \in Keys} \ {0})

Spec == Init /\ [][Next]_<<slot, used>>
=============================================================================
