--------------------------- MODULE WorkflowChildren ---------------------------
(***************************************************************************)
(* The project tasks a workflow submits and waits for, as a workflow sees  *)
(* them: one row per node's task key, which other clients of the project   *)
(* submit, cancel and clear as well.  The table is the one of TaskStore;   *)
(* here a row is the number of the run it holds, and every run keeps who   *)
(* submitted it and how it ended, so that properties can speak of it after *)
(* the row is gone.                                                        *)
(*                                                                         *)
(* Abstracted: submitting, queued and running are "active" ("made" once    *)
(* the run has written its output); cancelled is "failed", as both waits   *)
(* treat it; a row that reports 100% reads as completed and is completed.  *)
(***************************************************************************)
EXTENDS Naturals, Sequences, FiniteSets

CONSTANTS Nodes,     \* the task keys of the workflow's nodes
          Shared,    \* the nodes a user may submit and clear meanwhile
          MaxRuns,   \* bound on the runs of a behaviour
          MaxUserRuns \* bound on those a user submits

ASSUME ChildrenAssumption == Shared \subseteq Nodes /\ {MaxRuns, MaxUserRuns} \subseteq Nat

VARIABLES rows,   \* rows[n]: the run whose row has n's key, or 0
          run     \* the runs in the order they were accepted

Submitters == {"workflow", "user", "past"}
Statuses == {"active", "made", "completed", "failed"}

Run == [node : Nodes, by : Submitters, st : Statuses, at : Nat]

IsActive(i) == i # 0 /\ run[i].st \in {"active", "made"}
Completed(i) == i # 0 /\ run[i].st = "completed"

CompletedRuns == {i \in DOMAIN run : Completed(i)}

(* The store accepts a run under a free key; under a taken one the caller  *)
(* gets the run that is there.                                             *)
Submit(n, by) ==
  IF IsActive(rows[n])
  THEN UNCHANGED <<rows, run>>
  ELSE /\ Len(run) < MaxRuns
       /\ run' = Append(run, [node |-> n, by |-> by, st |-> "active", at |-> 0])
       /\ rows' = [rows EXCEPT ![n] = Len(run) + 1]

End(i, st) == run' = [run EXCEPT ![i].st = st] /\ UNCHANGED rows

(* completed_at: the runs complete one after the other.                    *)
ChildCompletes(i) ==
  /\ run[i].st = "made"
  /\ run' = [run EXCEPT ![i].st = "completed", ![i].at = Cardinality(CompletedRuns) + 1]
  /\ UNCHANGED rows

(* The run fails, or somebody cancels it.                                  *)
ChildFails(i) == IsActive(i) /\ End(i, "failed")

UserSubmits(n) ==
  /\ n \in Shared /\ ~IsActive(rows[n])
  /\ Cardinality({i \in DOMAIN run : run[i].by = "user"}) < MaxUserRuns
  /\ Submit(n, "user")

(* The user clears finished tasks, or the row's time to live runs out.     *)
Clear(n) ==
  /\ n \in Shared /\ rows[n] # 0 /\ ~IsActive(rows[n])
  /\ rows' = [rows EXCEPT ![n] = 0]
  /\ UNCHANGED run
=============================================================================
