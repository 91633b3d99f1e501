---------------------------- MODULE ScriptWorkflow ----------------------------
(***************************************************************************)
(* The script workflow (application/script_workflow.py) and its runtime    *)
(* (runners/script_workflow.py).  The executor lists the project's tasks,  *)
(* reads the outputs they left, builds a graph from both, starts a batch   *)
(* of nodes, waits for all of them, and begins again.  What a node needs   *)
(* and whether it is done is decided by outputs, not by what a task says.  *)
(*                                                                         *)
(* Abstracted: an output is there or not (a script may also miss the       *)
(* wanted number of beats); outputs are only added; time is the order in   *)
(* which runs end; the parent's progress text.                             *)
(***************************************************************************)
EXTENDS WorkflowChildren

CONSTANTS Episodes,       \* the episodes the story may have
          Target,         \* options.target
          Through,        \* options.mode is "through", not "single"
          Selected,       \* options.episodes
          HasFile,        \* options.filename is given
          Rebuild,        \* options.rebuild
          WantsBeats,     \* options.target_beats is given
          MaxParallel,    \* options.max_parallel
          MaxIterations,  \* 256 in the code
          Starts          \* the projects a workflow may start from

Early == <<"ingest", "characters", "episodes">>
Planning == {"identities", "scenes"}
StageRank == [ingest |-> 1, characters |-> 2, episodes |-> 3,
              identities |-> 4, scenes |-> 5, script |-> 6]
Stages == DOMAIN StageRank

(* What a project's past may be: finished runs, one row per key, which     *)
(* completed one after the other.                                          *)
IsPast(past) ==
  /\ past \in Seq(Run) /\ Len(past) <= MaxRuns
  /\ \A i \in DOMAIN past :
       /\ past[i].by = "past" /\ past[i].st = "completed" /\ past[i].at \in 1..Len(past)
       /\ \A j \in DOMAIN past :
            past[i].node = past[j].node \/ past[i].at = past[j].at => i = j

ASSUME ScriptAssumption ==
  /\ Episodes \subseteq Nat \ {0} /\ Selected \subseteq Nat \ {0}
  /\ (({"ingest", "characters", "episodes"} \X {0})
        \cup ((Planning \cup {"script"}) \X (Episodes \cup Selected))) \subseteq Nodes
  /\ Target \in Stages
  /\ {Through, HasFile, Rebuild, WantsBeats} \subseteq BOOLEAN
  /\ MaxParallel \in 1..6 /\ MaxIterations \in Nat \ {0}
  /\ \A s \in Starts : /\ IsPast(s.past)
                       /\ s.planned \subseteq Episodes /\ s.out \subseteq Nodes
                       /\ {s.menus, s.exact} \subseteq SUBSET {n[2] : n \in Nodes}
                       /\ \A n \in s.out : n[1] = "scenes" => n[2] \in s.menus

VARIABLES planned,  \* the episodes that exist
          out,      \* the other nodes whose output exists
          menus,    \* the episodes with a scene menu, complete or not
          exact,    \* the episodes whose script has the wanted number of beats
          wf        \* the executor

Phases == {"idle", "joining", "starting", "waiting", "ok", "error"}
Over == {"done", "blocked", "failed", "cancelled"}

NoTask == [st |-> "none", at |-> 0]

AllIdle == [n \in Nodes |-> "idle"]
NoTickets == [n \in Nodes |-> 0]
NothingSeen == [n \in Nodes |-> NoTask]

InitFrom(s) ==
  /\ run = s.past
  /\ rows = [n \in Nodes |-> IF \E i \in DOMAIN s.past : s.past[i].node = n
                             THEN CHOOSE i \in DOMAIN s.past : s.past[i].node = n
                             ELSE 0]
  /\ planned = s.planned /\ out = s.out /\ menus = s.menus /\ exact = s.exact
  /\ wf = [pc |-> "list", seen |-> NothingSeen, phase |-> AllIdle, ticket |-> NoTickets,
           episodes |-> {}, force |-> Rebuild, rounds |-> 0, gaveUp |-> {}]

----------------------------------------------------------------------------
(* The snapshot: the tasks as listed, the outputs as read a moment later.  *)

(* Mutant: a complete set of beats counts, however old.                    *)
StaleNever(e) == FALSE

(* A script older than a plan it was made from has to be made again; a     *)
(* script whose own task is not listed as completed is taken to be older.  *)
Stale(e) ==
  LET script == wf.seen[<<"script", e>>]
  IN  \E p \in Planning :
        LET plan == wf.seen[<<p, e>>]
        IN  plan.st = "completed" /\ (script.st # "completed" \/ plan.at > script.at)

BeatsComplete(e) ==
  <<"script", e>> \in out /\ e \in planned /\ (WantsBeats => e \in exact)

(* A finished task whose script does not count is not shown to the plan.   *)
TaskStatus(n) ==
  IF \/ n[1] = "ingest" /\ wf.force
     \/ /\ n[1] = "script" /\ wf.seen[n].st = "completed" /\ n \in out
        /\ Stale(n[2]) \/ ~BeatsComplete(n[2])
  THEN "none"
  ELSE wf.seen[n].st

HasOutput(n) ==
  CASE n[1] = "ingest" ->
         ~wf.force /\ (\/ wf.seen[n].st = "completed"
                       \/ <<"characters", 0>> \in out
                       \/ planned # {})
    [] n[1] = "episodes" -> planned # {}
    [] n[1] = "script" -> BeatsComplete(n[2]) /\ ~Stale(n[2])
    [] OTHER -> n \in out /\ n[2] \in planned \cup {0}

----------------------------------------------------------------------------
(* build_script_workflow_plan.                                             *)

SelectedEpisodes == IF Selected # {} THEN Selected ELSE planned

Required(stage) ==
  /\ StageRank[stage] <= StageRank[Target]
  /\ ~(stage = "identities" /\ Target = "scenes")

PlanNodes == {n \in Nodes : n[1] \in Stages /\ Required(n[1]) /\ n[2] \in SelectedEpisodes \cup {0}}

(* Mutant: the episodes are planned before the characters are known.       *)
DependenciesOnIngest(n) ==
  CASE n[1] = "ingest" -> {}
    [] n[1] = "script" -> {<<"identities", n[2]>>, <<"scenes", n[2]>>}
    [] n[1] \in Planning -> {<<"episodes", 0>>}
    [] OTHER -> {<<"ingest", 0>>}

Dependencies(n) ==
  CASE n[1] = "ingest" -> {}
    [] n[1] = "script" -> {<<"identities", n[2]>>, <<"scenes", n[2]>>}
    [] n[1] \in Planning -> {<<"episodes", 0>>}
    [] OTHER -> {<<Early[StageRank[n[1]] - 1], 0>>}

Executes(n) == Through \/ n[1] = Target

Met(n) == \A d \in Dependencies(n) : d \in PlanNodes /\ HasOutput(d)

Unplanned(n) == n[2] # 0 /\ n[2] \notin planned

NodeStatus(n) ==
  CASE HasOutput(n) -> "completed"
    [] ~HasOutput(n) /\ TaskStatus(n) \in {"active", "made"} -> "running"
    [] ~HasOutput(n) /\ TaskStatus(n) = "completed" ->
         IF Executes(n) /\ Met(n) THEN "ready" ELSE "blocked"
    [] OTHER ->
         IF n[1] = "ingest" /\ Executes(n) /\ ~HasFile THEN "blocked"
         ELSE IF Unplanned(n)
         THEN IF Through /\ planned = {} THEN "waiting" ELSE "blocked"
         ELSE IF Met(n) THEN IF Executes(n) THEN "ready" ELSE "waiting"
         ELSE IF ~Through /\ Executes(n) THEN "blocked" ELSE "waiting"

ToRun == {n \in PlanNodes : Executes(n)}

(* No episode was asked for and none is planned: more nodes will come.     *)
TargetComplete ==
  /\ \E n \in PlanNodes : n[1] = Target
  /\ \A n \in ToRun : HasOutput(n)

Candidates == {n \in ToRun : NodeStatus(n) \in {"running", "ready"}}

(* Running nodes come before ready ones, then the order of the graph.      *)
Before(m, n) ==
  LET key(x) == <<IF NodeStatus(x) = "running" THEN 0 ELSE 1, x[2], StageRank[x[1]]>>
      a == key(m)
      b == key(n)
  IN  \/ a[1] < b[1]
      \/ a[1] = b[1] /\ a[2] < b[2]
      \/ a[1] = b[1] /\ a[2] = b[2] /\ a[3] < b[3]

Batch == {n \in Candidates : Cardinality({m \in Candidates : Before(m, n)}) < MaxParallel}

----------------------------------------------------------------------------
(* ScriptWorkflowExecutor.execute.                                         *)

Tasks == <<rows, run>>
Outputs == <<planned, out, menus, exact>>

ListTasks ==
  /\ wf.pc = "list" /\ wf.rounds < MaxIterations
  /\ wf' = [wf EXCEPT !.pc = "read",
              !.seen = [n \in Nodes |-> IF rows[n] = 0 THEN NoTask
                                        ELSE [st |-> run[rows[n]].st, at |-> run[rows[n]].at]]]
  /\ UNCHANGED <<Tasks, Outputs>>

(* A snapshot or a report of progress raises.                              *)
ReadFails ==
  /\ wf.pc \in {"list", "read"}
  /\ wf' = [wf EXCEPT !.pc = "failed"]
  /\ UNCHANGED <<Tasks, Outputs>>

TooManyRounds ==
  /\ wf.pc = "list" /\ wf.rounds = MaxIterations
  /\ wf' = [wf EXCEPT !.pc = "blocked"]
  /\ UNCHANGED <<Tasks, Outputs>>

Plan ==
  /\ wf.pc = "read"
  /\ wf' =
       IF TargetComplete
       THEN [wf EXCEPT !.pc = "done", !.seen = NothingSeen, !.episodes = SelectedEpisodes]
       ELSE IF Candidates = {} THEN [wf EXCEPT !.pc = "blocked"]
       ELSE [wf EXCEPT !.pc = "run", !.seen = NothingSeen,
               !.phase = [n \in Nodes |->
                            IF n \notin Batch THEN "idle"
                            ELSE IF NodeStatus(n) = "running" THEN "joining"
                            ELSE "starting"]]
  /\ UNCHANGED <<Tasks, Outputs>>

Move(n, to, ticket) ==
  wf' = [wf EXCEPT !.phase[n] = to, !.ticket[n] = ticket]

(* start: a node that looked running is joined if its task still is.       *)
Join(n) ==
  /\ wf.phase[n] = "joining" /\ wf.pc = "run"
  /\ IF IsActive(rows[n]) THEN Move(n, "waiting", rows[n]) ELSE Move(n, "starting", 0)
  /\ UNCHANGED <<Tasks, Outputs>>

(* StartScriptGeneration asks for identities and for a scene menu, which   *)
(* need not have all the locations the snapshot wants of it.               *)
PlansExist(n) == n[1] = "script" => <<"identities", n[2]>> \in out /\ n[2] \in menus

Start(n) ==
  /\ wf.phase[n] = "starting" /\ wf.pc = "run" /\ PlansExist(n)
  /\ Submit(n, "workflow")
  /\ Move(n, "waiting", rows'[n])
  /\ UNCHANGED Outputs

(* Another precondition, a limit of the lane, a busy database.             *)
StartFails(n) ==
  /\ wf.phase[n] \in {"joining", "starting"} /\ wf.pc = "run"
  /\ Move(n, "error", 0)
  /\ UNCHANGED <<Tasks, Outputs>>

(* The workflow loses sight of n's run, which may go on.                   *)
GiveUp(n) == wf' = [wf EXCEPT !.phase[n] = "error", !.gaveUp = @ \cup {n}]

(* An error after the row is there: the workflow has no ticket for it.     *)
StartLost(n) ==
  /\ wf.phase[n] = "starting" /\ wf.pc = "run" /\ PlansExist(n)
  /\ Submit(n, "workflow")
  /\ GiveUp(n)
  /\ UNCHANGED Outputs

AllStarted == \A n \in Nodes : wf.phase[n] \notin {"joining", "starting"}

(* Mutants: whatever run holds the key is the one waited for; a failed     *)
(* run's status is passed on.                                              *)
OutcomeByKey(n) ==
  CASE Completed(rows[n]) -> "ok"
    [] rows[n] = 0 -> "error"
    [] rows[n] # 0 /\ run[rows[n]].st = "failed" -> "error"
    [] OTHER -> "waiting"

OutcomeAsStatus(n) ==
  IF rows[n] # wf.ticket[n] THEN "error"
  ELSE IF IsActive(rows[n]) THEN "waiting" ELSE run[rows[n]].st

(* What a poll of wait says: the row is gone (for longer than the grace),  *)
(* holds another run, or holds the ticket's run.                           *)
Outcome(n) ==
  IF rows[n] # wf.ticket[n] THEN "error"
  ELSE CASE Completed(rows[n]) -> "ok"
         [] run[rows[n]].st = "failed" -> "error"
         [] OTHER -> "waiting"

Poll(n) ==
  /\ wf.pc = "run" /\ AllStarted /\ wf.phase[n] = "waiting"
  /\ Outcome(n) # "waiting"
  /\ Move(n, Outcome(n), wf.ticket[n])
  /\ UNCHANGED <<Tasks, Outputs>>

(* The wait times out, or a poll of it raises.                             *)
WaitBreaks(n) ==
  /\ wf.pc = "run" /\ AllStarted /\ wf.phase[n] = "waiting"
  /\ GiveUp(n)
  /\ UNCHANGED <<Tasks, Outputs>>

(* Mutants: the first error ends the batch; a failed start is waited for.  *)
BatchOverAtFirstError ==
  \/ \A n \in Nodes : wf.phase[n] \in {"idle", "ok", "error"}
  \/ \E n \in Nodes : wf.phase[n] = "error"

BatchOverWhenOk == \A n \in Nodes : wf.phase[n] \in {"idle", "ok"}

BatchOver == \A n \in Nodes : wf.phase[n] \in {"idle", "ok", "error"}

EndBatch ==
  /\ wf.pc = "run" /\ BatchOver
  /\ wf' = IF \E n \in Nodes : wf.phase[n] = "error"
           THEN [wf EXCEPT !.pc = "failed"]
           ELSE [wf EXCEPT !.pc = "list", !.rounds = @ + 1,
                   !.phase = AllIdle, !.ticket = NoTickets,
                   !.force = @ /\ wf.phase[<<"ingest", 0>>] = "idle"]
  /\ UNCHANGED <<Tasks, Outputs>>

(* The cancel watch cancels the coroutine at an await: the children stay.  *)
CancelWorkflow ==
  /\ wf.pc \notin Over
  /\ wf' = [wf EXCEPT !.pc = "cancelled"]
  /\ UNCHANGED <<Tasks, Outputs>>

----------------------------------------------------------------------------
(* A child writes its output before its row says completed.  Planners and  *)
(* jobs may end well and leave nothing that counts as output; a scene      *)
(* planner leaves a menu.                                                  *)
ChildMakes(i) ==
  LET n == run[i].node
  IN  /\ run[i].st = "active"
      /\ run' = [run EXCEPT ![i].st = "made"]
      /\ \E new \in SUBSET Episodes :
           /\ new # {} <=> n[1] = "episodes"
           /\ planned' = planned \cup new
      /\ menus' = IF n[1] = "scenes" THEN menus \cup {n[2]} ELSE menus
      /\ CASE n[1] \in {"ingest", "episodes"} -> UNCHANGED <<out, exact>>
           [] n[1] = "script" -> /\ out' = out \cup {n}
                                 /\ exact' \in {exact \cup {n[2]}, exact \ {n[2]}}
           [] OTHER -> /\ out' \in {out \cup {n}} \cup (IF n[1] = "characters" THEN {} ELSE {out})
                       /\ UNCHANGED exact
      /\ UNCHANGED <<rows, wf>>

(* Executor: the steps of the script workflow's coroutine.                 *)
Executor ==
  \/ ListTasks \/ ReadFails \/ TooManyRounds \/ Plan \/ EndBatch
  \/ \E n \in Nodes : \/ Join(n) \/ Start(n) \/ StartFails(n) \/ StartLost(n)
                      \/ Poll(n) \/ WaitBreaks(n)

Children ==
  \/ \E i \in DOMAIN run : ChildMakes(i)
  \/ \E i \in DOMAIN run : (ChildCompletes(i) \/ ChildFails(i)) /\ UNCHANGED <<Outputs, wf>>

Users == \E n \in Nodes : (UserSubmits(n) \/ Clear(n)) /\ UNCHANGED <<Outputs, wf>>

----------------------------------------------------------------------------
TypeOK ==
  /\ rows \in [Nodes -> 0..MaxRuns]
  /\ \A i \in DOMAIN run : run[i] \in Run
  /\ planned \subseteq Episodes /\ out \subseteq Nodes
  /\ {menus, exact} \subseteq SUBSET {n[2] : n \in Nodes}
  /\ wf.pc \in {"list", "read", "run"} \cup Over
  /\ wf.phase \in [Nodes -> Phases] /\ wf.ticket \in [Nodes -> 0..MaxRuns]
  /\ wf.gaveUp \subseteq Nodes

(* A child that was cleared, or replaced under its key by another run, is  *)
(* never taken for a child that completed: what counts as done is the very *)
(* run the workflow started or joined (both runners' wait).                *)
OwnRunCounts ==
  \A n \in Nodes : wf.phase[n] = "ok" => Completed(wf.ticket[n])

(* A script workflow that ends by itself has waited for all it started,    *)
(* also when others of the batch failed: a run of its own is left working  *)
(* only at a node whose start or wait it gave up.                          *)
NothingLeftRunning ==
  wf.pc \in {"done", "blocked", "failed"} =>
    \A i \in DOMAIN run : run[i].by = "workflow" /\ run[i].node \in PlanNodes \ wf.gaveUp
                          => ~IsActive(i)

(* Success means that every selected episode has its script, a "through"   *)
(* workflow's its plans as well, and that no script is older than a plan   *)
(* listed for it, other than one a user made meanwhile (test: newer scene  *)
(* plan invalidates script).                                               *)
SuccessIsCurrent ==
  wf.pc = "done" /\ Target = "script" =>
    \A e \in wf.episodes, p \in Planning :
      LET plan == rows[<<p, e>>]
      IN  /\ <<"script", e>> \in out /\ (Through => <<p, e>> \in out)
          /\ Completed(plan) /\ run[plan].by # "user" =>
               \E i \in DOMAIN run : /\ run[i].node = <<"script", e>>
                                     /\ Completed(i) /\ run[i].at > run[plan].at

(* A node is submitted only when the outputs it is made from exist, for a  *)
(* script the whole plan of its scenes, more than its handler asks for     *)
(* itself.  This is the plan's doing, whatever batches, failures and       *)
(* unfinished plans came before; a node that looked to be running for a    *)
(* user, and is over when it is joined, is submitted without a look at it. *)
InputsExist(n) ==
  CASE n[1] = "script" -> \A p \in Planning : <<p, n[2]>> \in out
    [] n[1] \in Planning -> planned # {}
    [] n[1] = "episodes" -> <<"characters", 0>> \in out
    [] OTHER -> TRUE

DependenciesFirst ==
  [][\A n \in PlanNodes :
       /\ rows'[n] > Len(run) /\ run'[rows'[n]].by = "workflow"
       /\ n \notin Shared
       => InputsExist(n)]_<<rows, run, planned, out, menus, exact, wf>>

=============================================================================
