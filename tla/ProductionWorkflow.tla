-------------------------- MODULE ProductionWorkflow --------------------------
(***************************************************************************)
(* The production workflow (runners/production_workflow.py): the script    *)
(* workflow first, then batches of jobs, each submitted and waited for     *)
(* together.  Whatever ends it early, it lists the project's tasks once    *)
(* and cancels the active ones it owns.  The same module is the script     *)
(* workflow on its own, which cancels nothing.                             *)
(*                                                                         *)
(* Abstracted: a stage is the set of jobs it may submit (one _run_jobs     *)
(* batch, or one task and its wait); a job is skipped when its output      *)
(* exists; descendants of children.                                        *)
(***************************************************************************)
EXTENDS ScriptWorkflow

CONSTANT Jobs   \* Jobs[s]: the nodes of stage s, none of the script's

ASSUME ProductionAssumption ==
  /\ Jobs \in Seq(SUBSET {n \in Nodes : n[1] \notin Stages})
  /\ \A s \in Starts : s.kind \in {"script", "production"}

VARIABLE prod   \* the production workflow around the script workflow

vars == <<rows, run, planned, out, menus, exact, wf, prod>>

Settled == {"done", "failed"}

ProductionInit ==
  \E s \in Starts :
    /\ InitFrom(s)
    /\ prod = [kind |-> s.kind, pc |-> "script", stage |-> 0, todo |-> {},
               known |-> 0, hit |-> {}, late |-> {}, missed |-> {},
               watching |-> TRUE, unlisted |-> FALSE]

WorkflowOver == IF prod.kind = "script" THEN wf.pc \in Over ELSE prod.pc \in Settled

(* The next stage's jobs, if all jobs of this one are done.                *)
NextStage ==
  /\ prod.kind = "production"
  /\ \/ prod.pc = "script" /\ wf.pc = "done"
     \/ prod.pc = "jobs" /\ \A n \in Nodes : wf.phase[n] \in {"idle", "ok"}
                         /\ wf.phase[n] = "ok" => n \in out
  /\ prod' = IF prod.stage = Len(Jobs) THEN [prod EXCEPT !.pc = "done"]
             ELSE [prod EXCEPT !.pc = "jobs", !.stage = @ + 1]
  /\ wf' = IF prod.stage = Len(Jobs) THEN wf
           ELSE [wf EXCEPT !.ticket = NoTickets,
                   !.phase = [n \in Nodes |-> IF n \in Jobs[prod.stage + 1] \ out
                                              THEN "starting" ELSE "idle"]]
  /\ UNCHANGED <<Tasks, Outputs>>

(* A start that is under way goes on when a sibling has failed, until the  *)
(* loop closes; when it is cancelled, its row may still be written by the  *)
(* thread it waits for.                                                    *)
StartJob(n) ==
  /\ prod.pc \in {"jobs", "failing", "sweep"} /\ wf.phase[n] = "starting"
  /\ Submit(n, "workflow")
  /\ Move(n, "waiting", rows'[n])
  /\ prod' = [prod EXCEPT !.late = IF prod.pc = "sweep" THEN @ \cup (DOMAIN run' \ DOMAIN run)
                                   ELSE @]
  /\ UNCHANGED Outputs

Fail == prod' = [prod EXCEPT !.pc = "failing"]

(* Both gathers give up at their first error, which may come before or     *)
(* after the row is there.                                                 *)
StartJobFails(n) ==
  /\ prod.pc = "jobs" /\ wf.phase[n] = "starting"
  /\ UNCHANGED Tasks \/ Submit(n, "workflow")
  /\ Move(n, "error", 0)
  /\ Fail
  /\ UNCHANGED Outputs

PollJob(n) ==
  /\ prod.pc = "jobs" /\ AllStarted /\ wf.phase[n] = "waiting"
  /\ Outcome(n) # "waiting"
  /\ Move(n, Outcome(n), wf.ticket[n])
  /\ IF Outcome(n) = "error" THEN Fail ELSE UNCHANGED prod
  /\ UNCHANGED <<Tasks, Outputs>>

(* A wait times out or a poll of it raises, a job has completed and its    *)
(* file is not there, or the script workflow did not succeed.              *)
Breaks ==
  /\ prod.kind = "production"
  /\ \/ prod.pc = "jobs" /\ \E n \in Nodes : AllStarted /\ wf.phase[n] = "waiting"
     \/ prod.pc = "jobs" /\ \E n \in Nodes : wf.phase[n] = "ok" /\ n \notin out
     \/ prod.pc = "script" /\ wf.pc \in {"blocked", "failed"}
  /\ Fail
  /\ UNCHANGED <<Tasks, Outputs, wf>>

(* The cancel watch (the user's cancel or the deadline) cancels the task   *)
(* once, and what it waits for.                                            *)
CancelProduction ==
  /\ prod.kind = "production" /\ prod.pc \in {"script", "jobs"} /\ prod.watching
  /\ prod' = [prod EXCEPT !.pc = "failing", !.watching = FALSE]
  /\ wf' = [wf EXCEPT !.pc = IF wf.pc = "done" THEN "done" ELSE "cancelled"]
  /\ UNCHANGED <<Tasks, Outputs>>

----------------------------------------------------------------------------
(* _cancel_owned_child_tasks.                                              *)

(* Mutants: only the tasks being waited for; all active tasks.             *)
OwnedAwaited == {n \in Nodes : wf.phase[n] = "waiting" /\ IsActive(rows[n])}
OwnedAnybodys == {n \in Nodes : IsActive(rows[n])}

Owned == {n \in Nodes : IsActive(rows[n]) /\ run[rows[n]].by = "workflow"}

ListOwned ==
  /\ prod.pc = "failing"
  /\ prod' = [prod EXCEPT !.pc = "sweep", !.todo = Owned, !.known = Len(run)]
  /\ UNCHANGED <<Tasks, Outputs, wf>>

(* The list raises, and takes the failure's place.                         *)
ListFails ==
  /\ prod.pc = "failing"
  /\ prod' = [prod EXCEPT !.pc = "failed", !.unlisted = TRUE]
  /\ UNCHANGED <<Tasks, Outputs, wf>>

(* cancel is by key: it cancels the run it finds there.                    *)
CancelOwned(n) ==
  /\ prod.pc = "sweep" /\ n \in prod.todo
  /\ IF IsActive(rows[n])
     THEN /\ End(rows[n], "failed")
          /\ prod' = [prod EXCEPT !.todo = @ \ {n}, !.hit = @ \cup {rows[n]}]
     ELSE prod' = [prod EXCEPT !.todo = @ \ {n}] /\ UNCHANGED Tasks
  /\ UNCHANGED <<Outputs, wf>>

(* An exception is logged and the next one is tried.                       *)
CancelOwnedFails(n) ==
  /\ prod.pc = "sweep" /\ n \in prod.todo
  /\ prod' = [prod EXCEPT !.todo = @ \ {n}, !.missed = @ \cup {n}]
  /\ UNCHANGED <<Tasks, Outputs, wf>>

(* The exception leaves asyncio.run, which ends the starts left over.      *)
Raise ==
  /\ prod.pc = "sweep" /\ prod.todo = {}
  /\ prod' = [prod EXCEPT !.pc = "failed"]
  /\ UNCHANGED <<Tasks, Outputs, wf>>

(* The watch, if it was not what began the sweep, ends the wait for the    *)
(* shielded sweep; asyncio.run then cancels the sweep itself.              *)
CutSweep ==
  /\ prod.pc = "sweep" /\ prod.watching
  /\ prod' = [prod EXCEPT !.pc = "failed", !.watching = FALSE]
  /\ UNCHANGED <<Tasks, Outputs, wf>>

Production ==
  \/ NextStage \/ Breaks \/ ListOwned \/ ListFails \/ Raise
  \/ \E n \in Nodes : \/ StartJob(n) \/ StartJobFails(n) \/ PollJob(n)
                      \/ CancelOwned(n) \/ CancelOwnedFails(n)

ScriptRuns == prod.pc = "script" /\ UNCHANGED prod

Next ==
  \/ Executor /\ ScriptRuns
  \/ CancelWorkflow /\ prod.kind = "script" /\ ScriptRuns
  \/ CancelProduction \/ CutSweep
  \/ Production
  \/ Children /\ UNCHANGED prod /\ ~WorkflowOver
  \/ Users /\ UNCHANGED prod /\ ~WorkflowOver

Spec == ProductionInit /\ [][Next]_vars

(* The workflow's loop runs, and a child's runner ends.                    *)
FairSpec ==
  /\ Spec
  /\ WF_vars(Executor /\ ScriptRuns)
  /\ WF_vars(Production)
  /\ WF_vars(Children /\ UNCHANGED prod /\ ~WorkflowOver)

----------------------------------------------------------------------------
ProductionTypeOK ==
  /\ TypeOK
  /\ prod.pc \in {"script", "jobs", "failing", "sweep"} \cup Settled
  /\ {prod.todo, prod.missed} \subseteq SUBSET Nodes
  /\ {prod.hit, prod.late} \subseteq SUBSET DOMAIN run

(* The workflow's own runs that are at work.                               *)
OwnRunning == {i \in DOMAIN run : run[i].by = "workflow" /\ IsActive(i)}

(* A production workflow that failed or was cancelled leaves a task of its *)
(* own working only if the sweep could not list the tasks, was cut before  *)
(* it came to it, or met an error at it, or if its start was still under   *)
(* way when the tasks were listed: nothing else escapes, whoever submits,  *)
(* clears and ends the children meanwhile.                                 *)
FailureSweepsOwn ==
  prod.pc = "failed" /\ ~prod.unlisted =>
    \A i \in OwnRunning : i \in prod.late \/ run[i].node \in prod.todo \cup prod.missed

(* "not shared tasks" (_cancel_owned_child_tasks): a run that somebody     *)
(* else had submitted when the tasks were listed is not cancelled.         *)
SharedSpared ==
  \A i \in prod.hit : run[i].by # "workflow" => i > prod.known

(* A workflow ends, whatever happens to its children.                      *)
WorkflowEnds == <>WorkflowOver
=============================================================================
