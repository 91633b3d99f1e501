---------------------------- MODULE WorkflowProofs ----------------------------
(***************************************************************************)
(* What the script workflow and the production workflow keep for any       *)
(* number of episodes, nodes, jobs, rounds and runs, and any starting      *)
(* project: an inductive invariant of ProductionWorkflow, its proof, and   *)
(* the properties that follow from it.                                     *)
(*                                                                         *)
(* The proofs go by what a step does to the table of runs (TableMoves): it *)
(* only lets runs age, adds new ones at the end and adds outputs.  Each    *)
(* part of the invariant is kept by every such step that moves the         *)
(* executors in a way its lemma allows.                                    *)
(***************************************************************************)
EXTENDS ProductionWorkflow, TLAPS, FiniteSetTheorems

(* The listed tasks, and the records of the two executors.                 *)
SeenTasks == [st : {"none"} \cup Statuses, at : Nat]

WfRecs == [pc : {"list", "read", "run"} \cup Over, seen : [Nodes -> SeenTasks],
           phase : [Nodes -> Phases], ticket : [Nodes -> 0..MaxRuns],
           episodes : SUBSET (Episodes \cup Selected), force : BOOLEAN, rounds : Nat,
           gaveUp : SUBSET Nodes]

ProdRecs == [kind : {"script", "production"},
             pc : {"script", "jobs", "failing", "sweep"} \cup Settled,
             stage : 0..Len(Jobs), todo : SUBSET Nodes, known : Nat, hit : SUBSET Nat,
             late : SUBSET Nat, missed : SUBSET Nodes, watching : BOOLEAN,
             unlisted : BOOLEAN]

(* The variables have their types, and a row holds a run of its node.      *)
RowsTyped ==
  /\ run \in Seq(Run) /\ Len(run) <= MaxRuns
  /\ rows \in [Nodes -> 0..Len(run)]
  /\ \A n \in Nodes : rows[n] # 0 => run[rows[n]].node = n

OutputsTyped ==
  /\ planned \subseteq Episodes /\ out \subseteq Nodes
  /\ menus \subseteq {n[2] : n \in Nodes} /\ exact \subseteq {n[2] : n \in Nodes}

Typed ==
  /\ RowsTyped /\ OutputsTyped
  /\ wf \in WfRecs /\ wf.ticket \in [Nodes -> 0..Len(run)]
  /\ prod \in ProdRecs /\ prod.known <= Len(run)
  /\ prod.hit \subseteq DOMAIN run /\ prod.late \subseteq DOMAIN run

Working(i) == run[i].st \in {"active", "made"}

(* Who may have what: a run that works has its key's row, the past is over *)
(* and a user has runs of shared nodes only.                               *)
RunsOwned ==
  \A i \in DOMAIN run :
    /\ Working(i) => rows[run[i].node] = i
    /\ run[i].by = "past" => ~Working(i)
    /\ run[i].by = "user" => run[i].node \in Shared

(* Runs complete one after the other.                                      *)
TimesGrow ==
  \A i \in CompletedRuns :
    /\ run[i].at \in 1..Cardinality(CompletedRuns)
    /\ \A j \in CompletedRuns : run[i].at = run[j].at => i = j

(* Where the two executors are, and what the phases of the nodes are then. *)
PhasesFit ==
  /\ wf.pc \in {"list", "read", "run"} => prod.pc = "script"
  /\ wf.pc \in {"list", "read"} => wf.phase = AllIdle
  /\ prod.pc # "script" => prod.kind = "production"
  /\ prod.pc = "jobs" => wf.pc = "done"
  /\ wf.pc \notin {"run", "cancelled"} /\ prod.pc = "script" =>
       \A n \in Nodes : wf.phase[n] \notin {"joining", "starting"}
  /\ \A n \in Nodes : /\ prod.pc # "script" /\ wf.phase[n] = "starting" =>
                           n[1] \notin Stages \/ wf.pc = "cancelled"
                      /\ wf.pc = "run" /\ wf.phase[n] # "idle" => n[1] \in Stages
  /\ wf.gaveUp # {} => wf.pc \notin {"list", "read", "done", "blocked"}
  /\ wf.pc = "run" => \A n \in wf.gaveUp : wf.phase[n] = "error"

(* A run of the workflow's own for a node of the script.                   *)
OwnScriptRun(i) == Working(i) /\ run[i].by = "workflow" /\ run[i].node[1] \in Stages

(* The workflow waits for each of its runs, or gave up the run's node.     *)
OwnAwaited ==
  \A i \in DOMAIN run :
    OwnScriptRun(i) =>
      \/ wf.pc = "cancelled"
      \/ wf.pc \in {"run", "failed"} /\ run[i].node \in wf.gaveUp
      \/ /\ wf.pc = "run"
         /\ wf.ticket[run[i].node] = i /\ wf.phase[run[i].node] = "waiting"

(* What was listed stays true of the rows a workflow made, until the plan. *)
ListingHolds ==
  wf.pc = "read" =>
    \A n \in Nodes :
      n[1] \in Stages =>
        /\ wf.seen[n].st \in {"active", "made"} => n \in Shared
        /\ Completed(rows[n]) /\ run[rows[n]].by # "user" =>
             wf.seen[n] = [st |-> "completed", at |-> run[rows[n]].at]
        /\ wf.seen[n].st = "completed" =>
             \E i \in CompletedRuns : run[i].node = n /\ run[i].at = wf.seen[n].at

(* A node that is to be joined was a user's, and one that is to be started *)
(* has its inputs, also when its start is cancelled.                       *)
StartsReady ==
  wf.pc \in {"run", "cancelled"} =>
    \A n \in Nodes :
      /\ wf.phase[n] = "joining" => n \in Shared
      /\ wf.phase[n] = "starting" /\ n \notin Shared => InputsExist(n)

(* The sweep has yet to visit every run of the workflow that was listed,   *)
(* unless it met an error there, and spares the others that were there     *)
(* when it listed them.                                                    *)
SweepFits ==
  /\ prod.pc \notin {"sweep", "failed"} => prod.todo = {} /\ prod.hit = {}
  /\ prod.pc \in {"sweep", "failed"} /\ ~prod.unlisted =>
       \A i \in DOMAIN run : Working(i) /\ run[i].by = "workflow" =>
         i \in prod.late \/ run[i].node \in prod.todo \cup prod.missed
  /\ \A n \in prod.todo : rows[n] \in 1..prod.known => run[rows[n]].by = "workflow"

WorkflowInv ==
  /\ Typed
  /\ RunsOwned
  /\ TimesGrow
  /\ PhasesFit
  /\ OwnAwaited
  /\ ListingHolds
  /\ StartsReady
  /\ SweepFits
  /\ OwnRunCounts
  /\ SuccessIsCurrent
  /\ SharedSpared

----------------------------------------------------------------------------

(* What the types say of the rows and the runs, as facts for the proofs.   *)
LEMMA Table ==
  ASSUME RowsTyped
  PROVE  /\ run \in Seq(Run) /\ Len(run) \in Nat /\ DOMAIN run = 1..Len(run)
         /\ \A i \in DOMAIN run : run[i] \in Run
         /\ \A i \in DOMAIN run : i \in Nat /\ i # 0 /\ i <= Len(run)
         /\ \A n \in Nodes : rows[n] \in Nat /\ (rows[n] # 0 => rows[n] \in DOMAIN run)
BY DEF RowsTyped

(* The completed runs are finitely many.                                   *)
LEMMA CompletedFinite ==
  ASSUME RowsTyped
  PROVE  /\ IsFiniteSet(CompletedRuns) /\ Cardinality(CompletedRuns) \in Nat
         /\ \A i : i \in CompletedRuns <=> i \in DOMAIN run /\ run[i].st = "completed"
<1>1. IsFiniteSet(1..Len(run))
  BY Table, FS_Interval
<1>2. CompletedRuns \subseteq 1..Len(run)
  BY Table DEF CompletedRuns
<1>3. IsFiniteSet(CompletedRuns) /\ Cardinality(CompletedRuns) \in Nat
  BY <1>1, <1>2, FS_Subset, FS_CardinalityType
<1>4. \A i : i \in CompletedRuns <=> i \in DOMAIN run /\ run[i].st = "completed"
  BY Table DEF CompletedRuns, Completed
<1> QED
  BY <1>3, <1>4

Same == UNCHANGED <<rows, run>>

(* Nothing happens to the table.                                           *)
LEMMA TableSame ==
  ASSUME RowsTyped, Same
  PROVE  /\ RowsTyped' /\ (RunsOwned => RunsOwned') /\ (TimesGrow => TimesGrow')
         /\ CompletedRuns' = CompletedRuns
<1>1. RowsTyped'
  BY DEF RowsTyped, Same
<1>2. RunsOwned => RunsOwned'
  BY DEF RunsOwned, Same, Working
<1>3. CompletedRuns' = CompletedRuns
  BY DEF CompletedRuns, Completed, Same
<1>4. TimesGrow => TimesGrow'
  BY <1>3 DEF TimesGrow, Same
<1> QED
  BY <1>1, <1>2, <1>3, <1>4

(* What every step does to the runs: they age.                             *)
Ages ==
  /\ DOMAIN run \subseteq DOMAIN run'
  /\ \A i \in DOMAIN run : /\ run'[i].node = run[i].node /\ run'[i].by = run[i].by
                           /\ run[i].st = "completed" => run'[i] = run[i]
                           /\ Working(i)' => Working(i)

(* The run that a submission of n makes, if it makes one.                  *)
Submitted(n, by) ==
  /\ \A m \in Nodes : m # n => rows'[m] = rows[m]
  /\ rows'[n] \in DOMAIN run' /\ Working(rows[n])' /\ run'[rows'[n]].node = n
  /\ \/ rows'[n] = rows[n] /\ run' = run
     \/ /\ rows'[n] = Len(run) + 1 /\ DOMAIN run' = DOMAIN run \cup {Len(run) + 1}
        /\ Len(run) + 1 \notin DOMAIN run
        /\ \A i \in DOMAIN run : run'[i] = run[i]
        /\ run'[Len(run) + 1].by = by /\ run'[Len(run) + 1].st = "active"
        /\ run'[Len(run) + 1].node = n

(* What a submission does to the table: the run under the key, or a new    *)
(* one.                                                                    *)
LEMMA SubmitFacts ==
  ASSUME RowsTyped, RunsOwned, TimesGrow, NEW n \in Nodes, NEW by \in {"workflow", "user"},
         by = "user" => n \in Shared, Submit(n, by)
  PROVE  /\ RowsTyped' /\ RunsOwned' /\ TimesGrow' /\ Ages /\ Submitted(n, by)
         /\ CompletedRuns' = CompletedRuns /\ Len(run) <= Len(run')
<1>1. CASE IsActive(rows[n])
  <2>1. Same /\ rows[n] # 0 /\ Working(rows[n])
    BY <1>1 DEF Submit, Same, IsActive, Working
  <2>2. rows[n] \in DOMAIN run /\ run[rows[n]].node = n
    BY <2>1, Table DEF RowsTyped
  <2>3. Ages /\ Submitted(n, by)
    BY <2>1, <2>2 DEF Ages, Submitted, Same, Working
  <2>4. Len(run) <= Len(run')
    BY <2>1, Table DEF Same
  <2> QED
    BY <2>1, <2>3, <2>4, TableSame
<1>2. CASE ~IsActive(rows[n])
  <2> DEFINE new == [node |-> n, by |-> by, st |-> "active", at |-> 0]
  <2>1. /\ Len(run) < MaxRuns /\ run' = Append(run, new)
        /\ rows' = [rows EXCEPT ![n] = Len(run) + 1]
    BY <1>2 DEF Submit
  <2>2. new \in Run /\ new.node = n /\ new.by = by /\ new.st = "active"
    BY DEF Run, Submitters, Statuses
  <2> HIDE DEF new
  <2>3. /\ run' \in Seq(Run) /\ Len(run') = Len(run) + 1
        /\ DOMAIN run' = 1..(Len(run) + 1)
        /\ \A i \in DOMAIN run : run'[i] = run[i]
        /\ run'[Len(run) + 1] = new
    BY <2>1, <2>2, Table
  <2>4. DOMAIN run' = DOMAIN run \cup {Len(run) + 1} /\ Len(run) + 1 \notin DOMAIN run
    BY <2>3, Table
  <2>5. rows'[n] = Len(run) + 1 /\ \A m \in Nodes : m # n => rows'[m] = rows[m]
    BY <2>1 DEF RowsTyped
  <2>6. rows' \in [Nodes -> 0..Len(run')]
    <3>1. rows \in [Nodes -> 0..Len(run)]
      BY DEF RowsTyped
    <3>2. \A m \in Nodes : rows'[m] \in 0..Len(run')
      BY <2>3, <2>5, <3>1, Table
    <3>3. rows' \in [Nodes -> 0..(Len(run) + 1)]
      BY <2>1, <3>1, Table
    <3> QED
      BY <2>3, <3>3
  <2>7. Len(run') <= MaxRuns
    BY <2>1, <2>3, Table, ChildrenAssumption DEF ChildrenAssumption
  <2>8. \A m \in Nodes : rows'[m] # 0 => run'[rows'[m]].node = m
    <3>1. \A m \in Nodes : rows[m] # 0 => rows[m] \in DOMAIN run /\ run[rows[m]].node = m
      BY Table DEF RowsTyped
    <3> QED
      BY <2>2, <2>3, <2>5, <3>1
  <2>9. RowsTyped'
    BY <2>3, <2>6, <2>7, <2>8 DEF RowsTyped
  <2>10. Submitted(n, by)
    BY <2>2, <2>3, <2>4, <2>5 DEF Submitted, Working
  <2>11. Ages
    BY <2>3, <2>4 DEF Ages, Working
  <2>12. RunsOwned'
    <3> SUFFICES ASSUME NEW i \in DOMAIN run'
                 PROVE  /\ Working(i)' => rows'[run'[i].node] = i
                        /\ run'[i].by = "past" => ~Working(i)'
                        /\ run'[i].by = "user" => run'[i].node \in Shared
      BY DEF RunsOwned
    <3>1. CASE i = Len(run) + 1
      BY <2>2, <2>3, <2>5, <3>1
    <3>2. CASE i \in DOMAIN run
      <4>1. run'[i] = run[i] /\ run[i].node \in Nodes
        BY <2>3, <3>2, Table DEF Run
      <4>2. Working(i) => run[i].node # n
        BY <1>2, <3>2, Table DEF RunsOwned, IsActive, Working
      <4> QED
        BY <2>5, <3>2, <4>1, <4>2 DEF RunsOwned, Working
    <3> QED
      BY <2>4, <3>1, <3>2
  <2>13. CompletedRuns' = CompletedRuns
    BY <2>2, <2>3, <2>4, Table DEF CompletedRuns, Completed
  <2>14. TimesGrow'
    <3>1. \A i \in CompletedRuns : run'[i] = run[i]
      BY <2>3, CompletedFinite
    <3> QED
      BY <2>13, <3>1 DEF TimesGrow
  <2> QED
    BY <2>3, <2>9, <2>10, <2>11, <2>12, <2>13, <2>14, Table
<1> QED
  BY <1>1, <1>2

(* A run that works goes on, or fails, and nothing else happens to it.     *)
LEMMA MovesFacts ==
  ASSUME RowsTyped, RunsOwned, TimesGrow, NEW i \in DOMAIN run, Working(i),
         NEW st \in {"made", "failed"}, run' = [run EXCEPT ![i].st = st], rows' = rows
  PROVE  /\ RowsTyped' /\ RunsOwned' /\ TimesGrow' /\ Ages
         /\ CompletedRuns' = CompletedRuns /\ DOMAIN run' = DOMAIN run /\ Len(run') = Len(run)
         /\ st = "failed" => ~Working(i)'
<1>1. /\ run[i] \in Run /\ st \in Statuses
  BY Table DEF Statuses
<1>2. [run[i] EXCEPT !.st = st] \in Run
  BY <1>1 DEF Run
<1>3. run'[i] = [run[i] EXCEPT !.st = st] /\ \A j \in DOMAIN run : j # i => run'[j] = run[j]
  BY Table
<1>4. run' \in Seq(Run) /\ Len(run') = Len(run) /\ DOMAIN run' = DOMAIN run
  BY <1>2, Table
<1>5. /\ run'[i].node = run[i].node /\ run'[i].by = run[i].by /\ run'[i].st = st
      /\ \A j \in DOMAIN run : run'[j].node = run[j].node /\ run'[j].by = run[j].by
  BY <1>1, <1>3 DEF Run
<1>6. RowsTyped'
  BY <1>4, <1>5, Table DEF RowsTyped
<1>7. \A j \in DOMAIN run : Working(j)' => Working(j)
  BY <1>3 DEF Working
<1>8. run[i].st # "completed" /\ st # "completed"
  BY DEF Working
<1>9. Ages
  BY <1>3, <1>4, <1>5, <1>7, <1>8 DEF Ages
<1>10. RunsOwned'
  BY <1>4, <1>5, <1>7 DEF RunsOwned
<1>11. CompletedRuns' = CompletedRuns
  BY <1>3, <1>4, <1>5, <1>8, Table DEF CompletedRuns, Completed
<1>12. TimesGrow'
  <2>1. \A j \in CompletedRuns : run'[j] = run[j]
    BY <1>3, <1>8, CompletedFinite
  <2> QED
    BY <1>11, <2>1 DEF TimesGrow
<1>13. st = "failed" => ~Working(i)'
  BY <1>5 DEF Working
<1> QED
  BY <1>4, <1>6, <1>9, <1>10, <1>11, <1>12, <1>13

(* A run completes, later than every run that has.                         *)
LEMMA CompletesFacts ==
  ASSUME RowsTyped, RunsOwned, TimesGrow, NEW i \in DOMAIN run, ChildCompletes(i)
  PROVE  /\ RowsTyped' /\ RunsOwned' /\ TimesGrow' /\ Ages /\ rows' = rows /\ Working(i)
         /\ CompletedRuns' = CompletedRuns \cup {i} /\ DOMAIN run' = DOMAIN run
         /\ Len(run') = Len(run) /\ \A j \in DOMAIN run : j # i => run'[j] = run[j]
<1> DEFINE c == Cardinality(CompletedRuns)
<1>1. /\ run[i].st = "made" /\ rows' = rows
      /\ run' = [run EXCEPT ![i] = [run[i] EXCEPT !.st = "completed", !.at = c + 1]]
  BY DEF ChildCompletes
<1>2. c \in Nat /\ run[i] \in Run /\ "completed" \in Statuses
  BY Table, CompletedFinite DEF Statuses
<1>3. i \notin CompletedRuns
  BY <1>1, CompletedFinite
<1>4. Cardinality(CompletedRuns \cup {i}) = c + 1
  BY <1>3, CompletedFinite, FS_AddElement
<1> HIDE DEF c
<1>5. [run[i] EXCEPT !.st = "completed", !.at = c + 1] \in Run
  <2>1. c + 1 \in Nat
    BY <1>2
  <2>2. PICK d \in Nat : d = c + 1
    BY <2>1
  <2>3. [run[i] EXCEPT !.st = "completed", !.at = d] \in Run
    BY <1>2 DEF Run
  <2> QED
    BY <2>2, <2>3, Zenon
<1>6. /\ run'[i] = [run[i] EXCEPT !.st = "completed", !.at = c + 1]
      /\ \A j \in DOMAIN run : j # i => run'[j] = run[j]
  BY <1>1, Table
<1>7. run' \in Seq(Run) /\ Len(run') = Len(run) /\ DOMAIN run' = DOMAIN run
  BY <1>1, <1>5, Table
<1>8. /\ run'[i].node = run[i].node /\ run'[i].by = run[i].by /\ run'[i].st = "completed"
      /\ run'[i].at = c + 1
      /\ \A j \in DOMAIN run : run'[j].node = run[j].node /\ run'[j].by = run[j].by
  BY <1>2, <1>6 DEF Run
<1>9. RowsTyped'
  BY <1>1, <1>7, <1>8, Table DEF RowsTyped
<1>10. Working(i) /\ \A j \in DOMAIN run : Working(j)' => Working(j)
  BY <1>1, <1>6 DEF Working
<1>11. Ages
  BY <1>1, <1>6, <1>7, <1>8, <1>10 DEF Ages
<1>12. RunsOwned'
  BY <1>1, <1>7, <1>8, <1>10 DEF RunsOwned
<1>13. CompletedRuns' = CompletedRuns \cup {i}
  BY <1>6, <1>7, <1>8, Table DEF CompletedRuns, Completed
<1>14. TimesGrow'
  <2>1. \A j \in CompletedRuns : run'[j] = run[j] /\ run[j].at \in 1..c
    BY <1>3, <1>6, CompletedFinite DEF TimesGrow, c
  <2>2. Cardinality(CompletedRuns)' = c + 1
    BY <1>4, <1>13
  <2>3. \A j, k \in CompletedRuns : run[j].at = run[k].at => j = k
    BY DEF TimesGrow
  <2>4. \A j \in CompletedRuns : run'[j].at \in 1..(c + 1) /\ run'[j].at # c + 1
    BY <1>2, <2>1
  <2>5. run'[i].at \in 1..(c + 1)
    BY <1>2, <1>8
  <2> QED
    BY <1>8, <1>13, <2>1, <2>2, <2>3, <2>4, <2>5 DEF TimesGrow
<1> QED
  BY <1>1, <1>6, <1>7, <1>9, <1>10, <1>11, <1>12, <1>13, <1>14

(* A finished row goes, and its run stays as it was.                       *)
LEMMA ClearFacts ==
  ASSUME RowsTyped, RunsOwned, TimesGrow, NEW n \in Nodes, Clear(n)
  PROVE  /\ RowsTyped' /\ RunsOwned' /\ TimesGrow' /\ Ages /\ run' = run
         /\ CompletedRuns' = CompletedRuns
         /\ rows'[n] = 0 /\ \A m \in Nodes : m # n => rows'[m] = rows[m]
<1>1. rows' = [rows EXCEPT ![n] = 0] /\ run' = run /\ rows[n] # 0 /\ ~IsActive(rows[n])
  BY DEF Clear
<1>2. rows'[n] = 0 /\ \A m \in Nodes : m # n => rows'[m] = rows[m]
  BY <1>1 DEF RowsTyped
<1>3. RowsTyped'
  BY <1>1, <1>2, Table DEF RowsTyped
<1>4. \A i \in DOMAIN run : Working(i) => run[i].node # n /\ run[i].node \in Nodes
  BY <1>1, Table DEF RunsOwned, Working, IsActive, Run
<1>5. RunsOwned'
  BY <1>1, <1>2, <1>4 DEF RunsOwned, Working
<1>6. CompletedRuns' = CompletedRuns
  BY <1>1 DEF CompletedRuns, Completed
<1>7. TimesGrow'
  BY <1>1, <1>6 DEF TimesGrow
<1>8. Ages
  BY <1>1 DEF Ages, Working
<1> QED
  BY <1>1, <1>2, <1>3, <1>5, <1>6, <1>7, <1>8

----------------------------------------------------------------------------

(* What any step does to the table and the outputs.                        *)
Fresh == DOMAIN run' \ DOMAIN run

TableMoves ==
  /\ Ages /\ RowsTyped' /\ RunsOwned' /\ TimesGrow' /\ Len(run) <= Len(run')
  /\ \A i \in DOMAIN run : run'[i].st = "completed" => run[i].st = "completed" \/ Working(i)
  /\ \A i \in Fresh : i > Len(run) /\ run'[i].st = "active"
  /\ \A n \in Nodes : rows'[n] \in {rows[n], 0} \cup Fresh
  /\ planned \subseteq planned' /\ out \subseteq out' /\ OutputsTyped'

(* The parts of the invariant, one by one.                                 *)
LEMMA Parts ==
  ASSUME WorkflowInv
  PROVE  /\ RowsTyped /\ OutputsTyped /\ RunsOwned /\ TimesGrow
         /\ wf \in WfRecs /\ prod \in ProdRecs /\ wf.ticket \in [Nodes -> 0..Len(run)]
         /\ prod.hit \subseteq DOMAIN run /\ prod.late \subseteq DOMAIN run
         /\ prod.known <= Len(run)
         /\ PhasesFit /\ OwnAwaited /\ ListingHolds /\ StartsReady /\ SweepFits
         /\ OwnRunCounts /\ SuccessIsCurrent /\ SharedSpared
BY DEF WorkflowInv, Typed

(* Nothing happens to the table and the outputs.                           *)
LEMMA StillMoves ==
  ASSUME WorkflowInv, UNCHANGED <<Tasks, Outputs>>
  PROVE  TableMoves /\ Fresh = {} /\ Same /\ UNCHANGED <<planned, out, menus, exact>>
<1>1. Same /\ UNCHANGED <<planned, out, menus, exact>>
  BY DEF Tasks, Outputs, Same
<1>2. RowsTyped' /\ RunsOwned' /\ TimesGrow'
  BY <1>1, Parts, TableSame
<1>3. OutputsTyped'
  BY <1>1, Parts DEF OutputsTyped
<1>4. Ages /\ Fresh = {}
  BY <1>1 DEF Ages, Same, Fresh, Working
<1>5. Len(run) <= Len(run')
  BY <1>1, Parts, Table DEF Same
<1> QED
  BY <1>1, <1>2, <1>3, <1>4, <1>5 DEF TableMoves, Same

(* A run is submitted, or found under its key.                             *)
LEMMA SubmitMoves ==
  ASSUME WorkflowInv, NEW n \in Nodes, NEW by \in {"workflow", "user"},
         by = "user" => n \in Shared, Submit(n, by), UNCHANGED Outputs
  PROVE  /\ TableMoves /\ Submitted(n, by)
         /\ \A i \in Fresh : run'[i].by = by /\ run'[i].node = n
<1>1. /\ RowsTyped' /\ RunsOwned' /\ TimesGrow' /\ Ages /\ Submitted(n, by)
      /\ Len(run) <= Len(run')
  BY Parts, SubmitFacts
<1>2. UNCHANGED <<planned, out, menus, exact>>
  BY DEF Outputs
<1>3. OutputsTyped'
  BY <1>2, Parts DEF OutputsTyped
<1>4. \A i \in DOMAIN run : run'[i] = run[i]
  BY <1>1 DEF Submitted
<1>5. \A i \in Fresh : /\ i = Len(run) + 1 /\ run'[i].by = by /\ run'[i].st = "active"
                       /\ run'[i].node = n
  BY <1>1 DEF Submitted, Fresh
<1>6. \A i \in Fresh : i > Len(run)
  BY <1>5, Parts, Table
<1>7. \A m \in Nodes : rows'[m] \in {rows[m], 0} \cup Fresh
  BY <1>1 DEF Submitted, Fresh
<1> QED
  BY <1>1, <1>2, <1>3, <1>4, <1>5, <1>6, <1>7 DEF TableMoves

(* A run writes its output, or fails.                                      *)
LEMMA RunMoves ==
  ASSUME WorkflowInv, NEW i \in DOMAIN run, Working(i), NEW st \in {"made", "failed"},
         run' = [run EXCEPT ![i].st = st], rows' = rows,
         planned \subseteq planned', out \subseteq out', OutputsTyped'
  PROVE  TableMoves /\ Fresh = {} /\ (st = "failed" => ~Working(i)')
<1>1. /\ RowsTyped' /\ RunsOwned' /\ TimesGrow' /\ Ages
      /\ DOMAIN run' = DOMAIN run /\ Len(run') = Len(run) /\ (st = "failed" => ~Working(i)')
  BY Parts, MovesFacts
<1>2. \A j \in DOMAIN run : run'[j].st = "completed" => run[j].st = "completed" \/ Working(j)
  <2>1. \A j \in DOMAIN run : j # i => run'[j] = run[j]
    BY Parts, Table
  <2> QED
    BY <2>1
<1>3. Len(run) <= Len(run')
  BY <1>1, Parts, Table
<1> QED
  BY <1>1, <1>2, <1>3 DEF TableMoves, Fresh

(* A run completes.                                                        *)
LEMMA CompleteMoves ==
  ASSUME WorkflowInv, NEW i \in DOMAIN run, ChildCompletes(i), UNCHANGED Outputs
  PROVE  TableMoves /\ Fresh = {}
<1>1. /\ RowsTyped' /\ RunsOwned' /\ TimesGrow' /\ Ages /\ rows' = rows /\ Working(i)
      /\ DOMAIN run' = DOMAIN run /\ Len(run') = Len(run)
      /\ \A j \in DOMAIN run : j # i => run'[j] = run[j]
  BY Parts, CompletesFacts
<1>2. Len(run) <= Len(run')
  BY <1>1, Parts, Table
<1>3. UNCHANGED <<planned, out, menus, exact>>
  BY DEF Outputs
<1>4. OutputsTyped'
  BY <1>3, Parts DEF OutputsTyped
<1> QED
  BY <1>1, <1>2, <1>3, <1>4 DEF TableMoves, Fresh

(* A finished task is cleared.                                             *)
LEMMA ClearMoves ==
  ASSUME WorkflowInv, NEW n \in Nodes, Clear(n), UNCHANGED Outputs
  PROVE  TableMoves /\ Fresh = {}
<1>1. /\ RowsTyped' /\ RunsOwned' /\ TimesGrow' /\ Ages /\ run' = run
      /\ rows'[n] = 0 /\ \A m \in Nodes : m # n => rows'[m] = rows[m]
  BY Parts, ClearFacts
<1>2. Len(run) <= Len(run')
  BY <1>1, Parts, Table
<1>3. UNCHANGED <<planned, out, menus, exact>>
  BY DEF Outputs
<1>4. OutputsTyped'
  BY <1>3, Parts DEF OutputsTyped
<1> QED
  BY <1>1, <1>2, <1>3, <1>4 DEF TableMoves, Fresh

----------------------------------------------------------------------------

(* What is completed or works after a step.                                *)
LEMMA Aged ==
  ASSUME WorkflowInv, TableMoves
  PROVE  /\ \A i \in DOMAIN run' : i \in DOMAIN run \/ i \in Fresh
         /\ \A i \in CompletedRuns : i \in CompletedRuns' /\ run'[i] = run[i]
         /\ \A i \in CompletedRuns' : i \in CompletedRuns \/ (i \in DOMAIN run /\ Working(i))
         /\ DOMAIN run = 1..Len(run) /\ DOMAIN run' = 1..Len(run') /\ Len(run) \in Nat /\ Len(run') \in Nat
<1>1. RowsTyped /\ RowsTyped'
  BY Parts DEF TableMoves
<1>2. /\ DOMAIN run = 1..Len(run) /\ DOMAIN run' = 1..Len(run')
      /\ Len(run) \in Nat /\ Len(run') \in Nat
  BY <1>1 DEF RowsTyped
<1>3. \A i \in DOMAIN run' : i \in DOMAIN run \/ i \in Fresh
  BY DEF Fresh
<1>4. \A i \in CompletedRuns : i \in CompletedRuns' /\ run'[i] = run[i]
  BY <1>2 DEF TableMoves, Ages, CompletedRuns, Completed
<1>5. \A i \in CompletedRuns' : i \in CompletedRuns \/ (i \in DOMAIN run /\ Working(i))
  BY <1>2, <1>3 DEF TableMoves, CompletedRuns, Completed
<1> QED
  BY <1>2, <1>3, <1>4, <1>5

(* The types, when those of the executors hold.                            *)
LEMMA TypedKept ==
  ASSUME WorkflowInv, TableMoves, wf' \in WfRecs, prod' \in ProdRecs,
         \A n \in Nodes : wf'.ticket[n] \in 0..Len(run) \/ wf'.ticket[n] \in 0..Len(run'),
         prod'.hit \subseteq DOMAIN run, prod'.late \subseteq DOMAIN run',
         prod'.known <= Len(run)
  PROVE  Typed'
<1>1. Len(run) <= Len(run') /\ RowsTyped' /\ OutputsTyped' /\ Ages
  BY DEF TableMoves
<1>2. wf'.ticket \in [Nodes -> 0..MaxRuns]
  BY DEF WfRecs
<1>3. wf'.ticket \in [Nodes -> 0..Len(run')]
  BY <1>1, <1>2, Aged
<1>4. prod'.hit \subseteq DOMAIN run' /\ prod'.known <= Len(run')
  <2>1. prod'.known \in Nat
    BY DEF ProdRecs
  <2> QED
    BY <1>1, <2>1, Aged DEF Ages
<1> QED
  BY <1>1, <1>3, <1>4 DEF Typed

(* What counted counts.                                                    *)
LEMMA CountsKept ==
  ASSUME WorkflowInv, TableMoves,
         \A n \in Nodes : wf'.phase[n] = "ok" =>
           \/ wf.phase[n] = "ok" /\ wf'.ticket[n] = wf.ticket[n]
           \/ wf'.ticket[n] \in CompletedRuns
  PROVE  OwnRunCounts'
<1>1. ASSUME NEW n \in Nodes, wf'.phase[n] = "ok" PROVE wf'.ticket[n] \in CompletedRuns
  <2>1. wf.phase[n] = "ok" => Completed(wf.ticket[n]) /\ wf.ticket[n] \in 0..Len(run)
    BY Parts DEF OwnRunCounts
  <2>2. wf.phase[n] = "ok" => wf.ticket[n] \in CompletedRuns
    BY <2>1, Aged DEF CompletedRuns, Completed
  <2> QED
    BY <1>1, <2>2
<1>2. \A n \in Nodes : wf'.phase[n] = "ok" => wf'.ticket[n] \in CompletedRuns'
  BY <1>1, Aged
<1> QED
  BY <1>2, Aged DEF OwnRunCounts, CompletedRuns, Completed

(* No run of the workflow's own completes that should not.                 *)
LEMMA StillOwned ==
  ASSUME WorkflowInv, NEW i \in DOMAIN run, Working(i), run[i].node[1] \in Stages,
         wf.pc \in {"list", "read", "done", "blocked"}
  PROVE  run[i].by = "user"
<1>1. ~OwnScriptRun(i)
  BY Parts DEF OwnAwaited
<1>2. run[i].by \in Submitters
  BY Parts, Table DEF Run
<1> QED
  BY <1>1, <1>2, Parts DEF OwnScriptRun, RunsOwned, Submitters

(* A success stays one.                                                    *)
LEMMA SuccessKept ==
  ASSUME WorkflowInv, TableMoves,
         wf'.pc = "done" => wf.pc = "done" /\ wf'.episodes = wf.episodes
  PROVE  SuccessIsCurrent'
<1> SUFFICES ASSUME wf'.pc = "done", Target = "script", NEW e \in wf'.episodes, NEW p \in Planning
             PROVE  /\ <<"script", e>> \in out' /\ (Through => <<p, e>> \in out')
                    /\ Completed(rows[<<p, e>>])' /\ run'[rows'[<<p, e>>]].by # "user" =>
                         \E i \in DOMAIN run' :
                           /\ run'[i].node = <<"script", e>> /\ Completed(i)'
                           /\ run'[i].at > run'[rows'[<<p, e>>]].at
  BY DEF SuccessIsCurrent
<1> DEFINE n == <<p, e>>
<1>1. wf.pc = "done" /\ e \in wf.episodes
  OBVIOUS
<1>2. n \in Nodes /\ n[1] \in Stages
  <2>1. e \in Episodes \cup Selected
    BY <1>1, Parts DEF WfRecs
  <2> QED
    BY <2>1, ScriptAssumption DEF ScriptAssumption, Planning, Stages, StageRank
<1>3. /\ <<"script", e>> \in out /\ (Through => n \in out)
      /\ Completed(rows[n]) /\ run[rows[n]].by # "user" =>
           \E i \in DOMAIN run : /\ run[i].node = <<"script", e>>
                                 /\ Completed(i) /\ run[i].at > run[rows[n]].at
  BY <1>1, Parts DEF SuccessIsCurrent
<1> HIDE DEF n
<1>4. <<"script", e>> \in out' /\ (Through => n \in out')
  BY <1>3 DEF TableMoves
<1>5. ASSUME Completed(rows[n])', run'[rows'[n]].by # "user"
      PROVE  \E i \in DOMAIN run' : /\ run'[i].node = <<"script", e>> /\ Completed(i)'
                                    /\ run'[i].at > run'[rows'[n]].at
  <2>1. rows'[n] # 0 /\ rows'[n] \in DOMAIN run' /\ rows'[n] \in CompletedRuns'
        /\ run'[rows'[n]].node = n
    BY <1>2, <1>5 DEF TableMoves, RowsTyped, Completed, CompletedRuns
  <2>2. rows'[n] = rows[n] /\ rows'[n] \in DOMAIN run
    BY <1>2, <1>5, <2>1, Aged DEF TableMoves, Completed, CompletedRuns
  <2>3. PICK j \in DOMAIN run : j = rows[n]
    BY <2>2
  <2>4. run[j].node = n /\ run[j].by = run'[j].by
    BY <2>1, <2>2, <2>3 DEF TableMoves, Ages
  <2>5. ~Working(j)
    BY <1>1, <1>2, <1>5, <2>2, <2>3, <2>4, StillOwned
  <2>6. j \in CompletedRuns /\ run'[j] = run[j]
    BY <2>1, <2>2, <2>3, <2>5, Aged
  <2>7. Completed(rows[n]) /\ run[rows[n]].by # "user"
    BY <1>5, <2>2, <2>3, <2>6 DEF CompletedRuns, Completed
  <2>8. PICK i \in DOMAIN run : /\ run[i].node = <<"script", e>>
                                /\ Completed(i) /\ run[i].at > run[rows[n]].at
    BY <1>3, <2>7
  <2>9. i \in CompletedRuns /\ i \in CompletedRuns' /\ run'[i] = run[i]
    BY <2>8, Aged DEF CompletedRuns
  <2> QED
    BY <2>2, <2>3, <2>6, <2>8, <2>9 DEF CompletedRuns
<1> QED
  BY <1>4, <1>5 DEF n

----------------------------------------------------------------------------

(* A run of the workflow's own, for a node of the script, is waited for.   *)
Awaited(i, n) ==
  \/ wf.pc = "cancelled"
  \/ wf.pc \in {"run", "failed"} /\ n \in wf.gaveUp
  \/ wf.pc = "run" /\ wf.ticket[n] = i /\ wf.phase[n] = "waiting"

(* Runs that are awaited go on being awaited, and new ones are.            *)
LEMMA AwaitKept ==
  ASSUME WorkflowInv, TableMoves,
         \A i \in DOMAIN run, n \in Nodes :
           run[i].node = n /\ OwnScriptRun(i) /\ Awaited(i, n) /\ Working(i)' => Awaited(i, n)',
         \A i \in Fresh, n \in Nodes :
           run'[i].node = n /\ run'[i].by = "workflow" /\ n[1] \in Stages => Awaited(i, n)'
  PROVE  OwnAwaited'
<1> SUFFICES ASSUME NEW i \in DOMAIN run', OwnScriptRun(i)', NEW n, n = run'[i].node
             PROVE  Awaited(i, n)'
  BY DEF OwnAwaited, Awaited
<1>1. CASE i \in DOMAIN run
  <2>1. run[i].node = n /\ OwnScriptRun(i) /\ Working(i)'
    BY <1>1 DEF TableMoves, Ages, OwnScriptRun
  <2>2. Awaited(i, n) /\ n \in Nodes
    BY <1>1, <2>1, Parts, Table DEF OwnAwaited, Awaited, Run
  <2> QED
    BY <1>1, <2>1, <2>2
<1>2. CASE i \in Fresh
  <2>1. run'[i] \in Run
    BY <1>2 DEF TableMoves, RowsTyped, Fresh
  <2>2. n \in Nodes
    BY <2>1 DEF Run
  <2> QED
    BY <1>2, <2>2 DEF OwnScriptRun
<1> QED
  BY <1>1, <1>2, Aged

(* What was listed holds on while others move.                             *)
LEMMA ListingKept ==
  ASSUME WorkflowInv, TableMoves,
         wf'.pc = "read" => /\ wf.pc = "read" /\ wf'.seen = wf.seen
                            /\ \A i \in Fresh : run'[i].by = "user"
  PROVE  ListingHolds'
<1> SUFFICES ASSUME wf'.pc = "read", NEW n \in Nodes, n[1] \in Stages
             PROVE  /\ wf'.seen[n].st \in {"active", "made"} => n \in Shared
                    /\ Completed(rows[n])' /\ run'[rows'[n]].by # "user" =>
                         wf'.seen[n] = [st |-> "completed", at |-> run'[rows'[n]].at]
                    /\ wf'.seen[n].st = "completed" =>
                         \E i \in CompletedRuns' : run'[i].node = n /\ run'[i].at = wf'.seen[n].at
  BY DEF ListingHolds
<1>1. wf.pc = "read" /\ wf'.seen = wf.seen /\ \A i \in Fresh : run'[i].by = "user"
  OBVIOUS
<1>2. /\ wf.seen[n].st \in {"active", "made"} => n \in Shared
      /\ Completed(rows[n]) /\ run[rows[n]].by # "user" =>
           wf.seen[n] = [st |-> "completed", at |-> run[rows[n]].at]
      /\ wf.seen[n].st = "completed" =>
           \E i \in CompletedRuns : run[i].node = n /\ run[i].at = wf.seen[n].at
  BY <1>1, Parts DEF ListingHolds
<1>3. ASSUME Completed(rows[n])', run'[rows'[n]].by # "user"
      PROVE  wf'.seen[n] = [st |-> "completed", at |-> run'[rows'[n]].at]
  <2>1. rows'[n] # 0 /\ rows'[n] \in DOMAIN run' /\ rows'[n] \in CompletedRuns'
        /\ run'[rows'[n]].node = n
    BY <1>3 DEF TableMoves, RowsTyped, Completed, CompletedRuns
  <2>2. rows'[n] = rows[n] /\ rows'[n] \in DOMAIN run
    BY <1>1, <1>3, <2>1, Aged DEF TableMoves
  <2>3. PICK j \in DOMAIN run : j = rows[n]
    BY <2>2
  <2>4. run[j].node = n /\ run[j].by = run'[j].by
    BY <2>1, <2>2, <2>3 DEF TableMoves, Ages
  <2>5. ~Working(j)
    BY <1>1, <1>3, <2>2, <2>3, <2>4, StillOwned
  <2>6. j \in CompletedRuns /\ run'[j] = run[j]
    BY <2>1, <2>2, <2>3, <2>5, Aged
  <2>7. Completed(rows[n]) /\ run[rows[n]].by # "user"
    BY <1>3, <2>2, <2>3, <2>6 DEF CompletedRuns, Completed
  <2> QED
    BY <1>1, <1>2, <2>2, <2>3, <2>6, <2>7
<1>4. wf'.seen[n].st = "completed" =>
        \E i \in CompletedRuns' : run'[i].node = n /\ run'[i].at = wf'.seen[n].at
  BY <1>1, <1>2, Aged
<1> QED
  BY <1>1, <1>2, <1>3, <1>4

(* Outputs are only added, so inputs that exist go on existing.            *)
LEMMA InputsGrow ==
  ASSUME WorkflowInv, TableMoves, NEW n \in Nodes, InputsExist(n)
  PROVE  InputsExist(n)'
BY DEF TableMoves, InputsExist

(* What was ready to be started is.                                        *)
LEMMA StartsKept ==
  ASSUME WorkflowInv, TableMoves,
         \A n \in Nodes :
           wf'.pc \in {"run", "cancelled"} /\ wf'.phase[n] \in {"joining", "starting"} =>
             wf.pc \in {"run", "cancelled"} /\ wf'.phase[n] = wf.phase[n]
  PROVE  StartsReady'
BY Parts, InputsGrow DEF StartsReady

(* The sweep goes on, while others submit.                                 *)
LEMMA SweepKept ==
  ASSUME WorkflowInv, TableMoves, UNCHANGED prod,
         prod.pc \in {"sweep", "failed"} => \A i \in Fresh : run'[i].by = "user"
  PROVE  SweepFits' /\ SharedSpared'
<1>1. SweepFits'
  <2>1. ASSUME prod.pc \in {"sweep", "failed"}, ~prod.unlisted,
               NEW i \in DOMAIN run', Working(i)', run'[i].by = "workflow"
        PROVE  i \in prod.late \/ run'[i].node \in prod.todo \cup prod.missed
    <3>1. i \in DOMAIN run
      BY <2>1, Aged
    <3>2. run[i].node = run'[i].node /\ run[i].by = "workflow" /\ Working(i)
      BY <2>1, <3>1 DEF TableMoves, Ages
    <3> QED
      BY <2>1, <3>1, <3>2, Parts DEF SweepFits
  <2>2. ASSUME NEW n \in prod.todo, rows'[n] \in 1..prod.known PROVE run'[rows'[n]].by = "workflow"
    <3>1. n \in Nodes /\ prod.known \in Nat /\ prod.known <= Len(run)
      BY Parts DEF ProdRecs
    <3>2. rows'[n] = rows[n] /\ rows[n] \in DOMAIN run
      BY <2>2, <3>1, Aged DEF TableMoves
    <3>3. run[rows[n]].by = "workflow"
      BY <2>2, <3>2, Parts DEF SweepFits
    <3> QED
      BY <3>2, <3>3 DEF TableMoves, Ages
  <2>3. prod.pc \notin {"sweep", "failed"} => prod.todo = {} /\ prod.hit = {}
    BY Parts DEF SweepFits
  <2> QED
    BY <2>1, <2>2, <2>3 DEF SweepFits
<1>2. SharedSpared'
  BY Parts DEF SharedSpared, TableMoves, Ages
<1> QED
  BY <1>1, <1>2

(* The invariant's parts, put together.                                    *)
LEMMA Together ==
  ASSUME TableMoves, Typed', PhasesFit', OwnAwaited', ListingHolds', StartsReady', SweepFits',
         OwnRunCounts', SuccessIsCurrent', SharedSpared'
  PROVE  WorkflowInv'
BY DEF TableMoves, WorkflowInv

(* Children and users keep the invariant.                                  *)
LEMMA OthersKeep ==
  ASSUME WorkflowInv, TableMoves, \A i \in Fresh : run'[i].by = "user", UNCHANGED <<wf, prod>>
  PROVE  WorkflowInv'
<1>1. Typed'
  BY Parts, TypedKept DEF TableMoves, Ages
<1>2. PhasesFit'
  BY Parts DEF PhasesFit, AllIdle
<1>3. OwnAwaited'
  BY AwaitKept DEF Awaited
<1>4. ListingHolds'
  BY ListingKept
<1>5. StartsReady'
  BY StartsKept
<1>6. SweepFits' /\ SharedSpared'
  BY SweepKept
<1>7. OwnRunCounts'
  BY CountsKept
<1>8. SuccessIsCurrent'
  BY SuccessKept
<1> QED
  BY <1>1, <1>2, <1>3, <1>4, <1>5, <1>6, <1>7, <1>8, Together

(* The steps of the children.                                              *)
LEMMA ChildrenKeep ==
  ASSUME WorkflowInv, Children, UNCHANGED prod
  PROVE  WorkflowInv'
<1>1. ASSUME NEW i \in DOMAIN run, ChildMakes(i) PROVE WorkflowInv'
  <2>1. /\ run[i].st = "active" /\ run' = [run EXCEPT ![i].st = "made"]
        /\ rows' = rows /\ wf' = wf
    BY <1>1 DEF ChildMakes
  <2>2. run[i].node \in Nodes
    BY Parts, Table DEF Run
  <2>3. planned \subseteq planned' /\ planned' \subseteq Episodes
    BY <1>1, Parts DEF ChildMakes, OutputsTyped
  <2>4. /\ out \subseteq out' /\ out' \subseteq Nodes
        /\ menus' \subseteq {n[2] : n \in Nodes} /\ exact' \subseteq {n[2] : n \in Nodes}
    <3>1. menus' \subseteq {n[2] : n \in Nodes}
      <4>1. menus' = menus \/ menus' = menus \cup {run[i].node[2]}
        BY <1>1 DEF ChildMakes
      <4> QED
        BY <2>2, <4>1, Parts DEF OutputsTyped
    <3>2. CASE run[i].node[1] \in {"ingest", "episodes"}
      BY <1>1, <3>1, <3>2, Parts DEF ChildMakes, OutputsTyped
    <3>3. CASE run[i].node[1] = "script"
      <4>1. out' = out \cup {run[i].node}
            /\ exact' \in {exact \cup {run[i].node[2]}, exact \ {run[i].node[2]}}
        BY <1>1, <3>3 DEF ChildMakes
      <4>2. run[i].node[2] \in {n[2] : n \in Nodes}
        BY <2>2
      <4> QED
        BY <2>2, <3>1, <4>1, <4>2, Parts DEF OutputsTyped
    <3>4. CASE run[i].node[1] \notin {"ingest", "episodes", "script"}
      <4>1. out' \in {out \cup {run[i].node}} \cup {out} /\ exact' = exact
        BY <1>1, <3>4 DEF ChildMakes
      <4> QED
        BY <2>2, <3>1, <4>1, Parts DEF OutputsTyped
    <3> QED
      BY <3>2, <3>3, <3>4
  <2>5. Working(i) /\ OutputsTyped'
    BY <2>1, <2>3, <2>4 DEF Working, OutputsTyped
  <2>6. TableMoves /\ Fresh = {}
    BY <2>1, <2>3, <2>4, <2>5, RunMoves
  <2> QED
    BY <2>1, <2>6, OthersKeep
<1>2. ASSUME NEW i \in DOMAIN run, ChildCompletes(i), UNCHANGED <<Outputs, wf>> PROVE WorkflowInv'
  BY <1>2, CompleteMoves, OthersKeep
<1>3. ASSUME NEW i \in DOMAIN run, ChildFails(i), UNCHANGED <<Outputs, wf>> PROVE WorkflowInv'
  <2>1. Working(i) /\ run' = [run EXCEPT ![i].st = "failed"] /\ rows' = rows
    BY <1>3 DEF ChildFails, End, IsActive, Working
  <2>2. planned \subseteq planned' /\ out \subseteq out' /\ OutputsTyped'
    BY <1>3, Parts DEF Outputs, OutputsTyped
  <2>3. TableMoves /\ Fresh = {}
    BY <2>1, <2>2, RunMoves
  <2> QED
    BY <1>3, <2>3, OthersKeep
<1> QED
  BY <1>1, <1>2, <1>3 DEF Children

(* The steps of the users.                                                 *)
LEMMA UsersKeep ==
  ASSUME WorkflowInv, Users, UNCHANGED prod
  PROVE  WorkflowInv'
<1>1. ASSUME NEW n \in Nodes, UserSubmits(n), UNCHANGED <<Outputs, wf>> PROVE WorkflowInv'
  <2>1. n \in Shared /\ Submit(n, "user")
    BY <1>1 DEF UserSubmits
  <2>2. TableMoves /\ \A i \in Fresh : run'[i].by = "user"
    BY <1>1, <2>1, SubmitMoves
  <2> QED
    BY <1>1, <2>2, OthersKeep
<1>2. ASSUME NEW n \in Nodes, Clear(n), UNCHANGED <<Outputs, wf>> PROVE WorkflowInv'
  BY <1>2, ClearMoves, OthersKeep
<1> QED
  BY <1>1, <1>2 DEF Users

----------------------------------------------------------------------------

(* The executor steps while the production workflow waits for it.          *)
LEMMA ExecutorSteps ==
  ASSUME WorkflowInv, TableMoves, UNCHANGED prod, prod.pc = "script",
         wf' \in WfRecs, wf'.ticket \in [Nodes -> 0..Len(run')],
         PhasesFit', OwnAwaited', ListingHolds', StartsReady', OwnRunCounts', SuccessIsCurrent'
  PROVE  WorkflowInv'
<1>1. SweepFits' /\ SharedSpared'
  BY SweepKept
<1>2. Typed'
  BY Parts, TypedKept DEF TableMoves, Ages
<1> QED
  BY <1>1, <1>2, Together

(* The phase and the ticket of one node change.                            *)
LEMMA MoveFacts ==
  ASSUME wf \in WfRecs, NEW n \in Nodes, NEW to \in Phases, NEW t, Move(n, to, t),
         t \in 0..MaxRuns
  PROVE  /\ wf' \in WfRecs /\ wf'.phase[n] = to /\ wf'.ticket[n] = t
         /\ \A m \in Nodes : m # n => wf'.phase[m] = wf.phase[m] /\ wf'.ticket[m] = wf.ticket[m]
         /\ wf'.pc = wf.pc /\ wf'.seen = wf.seen /\ wf'.episodes = wf.episodes
         /\ wf'.gaveUp = wf.gaveUp
<1> DEFINE p == [wf.phase EXCEPT ![n] = to]
           k == [wf.ticket EXCEPT ![n] = t]
<1>1. wf' = [wf EXCEPT !.phase = p, !.ticket = k]
  BY DEF Move, WfRecs
<1>2. wf.phase \in [Nodes -> Phases] /\ wf.ticket \in [Nodes -> 0..MaxRuns]
  BY DEF WfRecs
<1>3. p \in [Nodes -> Phases] /\ k \in [Nodes -> 0..MaxRuns]
  BY <1>2
<1>4. p[n] = to /\ k[n] = t /\ \A m \in Nodes : m # n => p[m] = wf.phase[m] /\ k[m] = wf.ticket[m]
  BY <1>2
<1> HIDE DEF p, k
<1>5. wf'.phase = p /\ wf'.ticket = k /\ wf'.pc = wf.pc /\ wf'.seen = wf.seen
      /\ wf'.episodes = wf.episodes /\ wf'.gaveUp = wf.gaveUp
  BY <1>1 DEF WfRecs
<1>6. wf' \in WfRecs
  BY <1>1, <1>3 DEF WfRecs
<1> QED
  BY <1>4, <1>5, <1>6

(* The tasks are listed: what is listed as working is a user's, because    *)
(* the workflow has no run of its own between two batches.                 *)
LEMMA ListTasksKeeps ==
  ASSUME WorkflowInv, ListTasks, UNCHANGED prod, prod.pc = "script"
  PROVE  WorkflowInv'
<1> DEFINE seen == [n \in Nodes |-> IF rows[n] = 0 THEN NoTask
                                    ELSE [st |-> run[rows[n]].st, at |-> run[rows[n]].at]]
<1>1. wf.pc = "list" /\ wf' = [wf EXCEPT !.pc = "read", !.seen = seen]
      /\ TableMoves /\ Fresh = {} /\ Same
  BY StillMoves DEF ListTasks
<1>2. seen \in [Nodes -> SeenTasks]
  <2>1. ASSUME NEW n \in Nodes, rows[n] # 0
        PROVE  [st |-> run[rows[n]].st, at |-> run[rows[n]].at] \in SeenTasks
    <3>1. run[rows[n]] \in Run
      BY <2>1, Parts, Table
    <3> QED
      BY <3>1 DEF Run, SeenTasks
  <2>2. NoTask \in SeenTasks
    BY DEF NoTask, SeenTasks
  <2> QED
    BY <2>1, <2>2
<1>3. \A n \in Nodes : seen[n] = IF rows[n] = 0 THEN NoTask
                                 ELSE [st |-> run[rows[n]].st, at |-> run[rows[n]].at]
  OBVIOUS
<1> HIDE DEF seen
<1>4. /\ wf'.pc = "read" /\ wf'.seen = seen /\ wf'.phase = wf.phase /\ wf'.ticket = wf.ticket
      /\ wf'.gaveUp = wf.gaveUp /\ wf' \in WfRecs
  BY <1>1, <1>2, Parts DEF WfRecs
<1>5. PhasesFit'
  BY <1>1, <1>4, Parts DEF PhasesFit, AllIdle
<1>6. OwnAwaited'
  BY <1>1, AwaitKept DEF Awaited
<1>7. ListingHolds'
  <2> SUFFICES ASSUME NEW n \in Nodes, n[1] \in Stages
               PROVE  /\ seen[n].st \in {"active", "made"} => n \in Shared
                      /\ Completed(rows[n]) =>
                           seen[n] = [st |-> "completed", at |-> run[rows[n]].at]
                      /\ seen[n].st = "completed" =>
                           \E i \in CompletedRuns : run[i].node = n /\ run[i].at = seen[n].at
    BY <1>1, <1>4 DEF ListingHolds, Same, Completed, CompletedRuns
  <2>1. CASE rows[n] = 0
    <3>1. seen[n] = NoTask
      BY <1>3, <2>1
    <3>2. seen[n].st = "none"
      BY <3>1 DEF NoTask
    <3>3. ~Completed(rows[n])
      BY <2>1 DEF Completed
    <3> QED
      BY <3>2, <3>3
  <2>2. CASE rows[n] # 0
    <3>1. PICK i \in DOMAIN run : i = rows[n]
      BY <2>2, Parts, Table
    <3>2. i # 0 /\ run[i].node = n /\ seen[n].st = run[i].st /\ seen[n].at = run[i].at
          /\ seen[n] = [st |-> run[i].st, at |-> run[i].at]
      <4>1. i # 0 /\ run[i].node = n
        BY <2>2, <3>1, Parts DEF RowsTyped
      <4>2. seen[n] = [st |-> run[i].st, at |-> run[i].at]
        BY <1>3, <2>2, <3>1
      <4> QED
        BY <4>1, <4>2
    <3>3. Working(i) => n \in Shared
      <4>1. Working(i) => run[i].by = "user"
        BY <1>1, <3>1, <3>2, StillOwned
      <4> QED
        BY <3>1, <3>2, <4>1, Parts DEF RunsOwned
    <3>4. Completed(i) => seen[n] = [st |-> "completed", at |-> run[i].at]
      BY <3>2 DEF Completed
    <3>5. run[i].st = "completed" => i \in CompletedRuns
      BY <3>1, <3>2 DEF CompletedRuns, Completed
    <3> QED
      BY <3>1, <3>2, <3>3, <3>4, <3>5 DEF Working
  <2> QED
    BY <2>1, <2>2
<1>8. StartsReady'
  BY <1>4 DEF StartsReady
<1>9. OwnRunCounts'
  BY <1>1, <1>4, CountsKept
<1>10. SuccessIsCurrent'
  BY <1>4 DEF SuccessIsCurrent
<1>11. wf'.ticket \in [Nodes -> 0..Len(run')]
  BY <1>1, <1>4, Parts DEF Same
<1> QED
  BY <1>1, <1>4, <1>5, <1>6, <1>7, <1>8, <1>9, <1>10, <1>11, ExecutorSteps

(* The executor ends before it has started a batch.                        *)
LEMMA EarlyEndKeeps ==
  ASSUME WorkflowInv, TooManyRounds \/ ReadFails, UNCHANGED prod, prod.pc = "script"
  PROVE  WorkflowInv'
<1>1. PICK pc \in {"blocked", "failed"} :
        wf.pc \in {"list", "read"} /\ wf' = [wf EXCEPT !.pc = pc]
  BY DEF TooManyRounds, ReadFails
<1>2. TableMoves /\ Fresh = {} /\ Same
  BY StillMoves DEF TooManyRounds, ReadFails
<1>3. /\ wf'.pc = pc /\ wf'.phase = wf.phase /\ wf'.ticket = wf.ticket
      /\ wf'.gaveUp = wf.gaveUp /\ wf' \in WfRecs
  BY <1>1, Parts DEF WfRecs, Over
<1>4. PhasesFit'
  BY <1>1, <1>3, Parts DEF PhasesFit, AllIdle
<1>5. OwnAwaited'
  BY <1>1, <1>2, <1>3, AwaitKept DEF Awaited, OwnScriptRun
<1>6. ListingHolds' /\ StartsReady' /\ SuccessIsCurrent'
  BY <1>1, <1>3 DEF ListingHolds, StartsReady, SuccessIsCurrent
<1>7. OwnRunCounts'
  BY <1>2, <1>3, CountsKept
<1>8. wf'.ticket \in [Nodes -> 0..Len(run')]
  BY <1>2, <1>3, Parts DEF Same
<1> QED
  BY <1>2, <1>3, <1>4, <1>5, <1>6, <1>7, <1>8, ExecutorSteps

(* A batch ends: no run of the workflow's works any more, but at nodes it  *)
(* gave up.                                                                *)
LEMMA EndBatchKeeps ==
  ASSUME WorkflowInv, EndBatch, UNCHANGED prod, prod.pc = "script"
  PROVE  WorkflowInv'
<1>1. wf.pc = "run" /\ BatchOver /\ TableMoves /\ Fresh = {} /\ Same
  BY StillMoves DEF EndBatch
<1>2. \A i \in DOMAIN run, n \in Nodes :
        Awaited(i, n) => n \in wf.gaveUp
  BY <1>1 DEF Awaited, BatchOver
<1>3. CASE \E n \in Nodes : wf.phase[n] = "error"
  <2>1. wf' = [wf EXCEPT !.pc = "failed"]
    BY <1>3 DEF EndBatch
  <2>2. /\ wf'.pc = "failed" /\ wf'.phase = wf.phase /\ wf'.ticket = wf.ticket
        /\ wf'.gaveUp = wf.gaveUp /\ wf' \in WfRecs
    BY <2>1, Parts DEF WfRecs, Over
  <2>3. PhasesFit'
    BY <1>1, <2>2, Parts DEF PhasesFit, BatchOver
  <2>4. OwnAwaited'
    BY <1>1, <1>2, <2>2, AwaitKept DEF Awaited
  <2>5. ListingHolds' /\ StartsReady' /\ SuccessIsCurrent'
    BY <2>2 DEF ListingHolds, StartsReady, SuccessIsCurrent
  <2>6. OwnRunCounts'
    BY <1>1, <2>2, CountsKept
  <2>7. wf'.ticket \in [Nodes -> 0..Len(run')]
    BY <1>1, <2>2, Parts DEF Same
  <2> QED
    BY <1>1, <2>2, <2>3, <2>4, <2>5, <2>6, <2>7, ExecutorSteps
<1>4. CASE ~\E n \in Nodes : wf.phase[n] = "error"
  <2> DEFINE force == wf.force /\ wf.phase[<<"ingest", 0>>] = "idle"
             rounds == wf.rounds + 1
  <2>1. wf' = [wf EXCEPT !.pc = "list", !.rounds = rounds, !.phase = AllIdle,
                 !.ticket = NoTickets, !.force = force]
    BY <1>4 DEF EndBatch
  <2>2. force \in BOOLEAN /\ rounds \in Nat
    BY Parts DEF WfRecs
  <2>3. /\ AllIdle \in [Nodes -> Phases] /\ NoTickets \in [Nodes -> 0..MaxRuns]
        /\ NoTickets \in [Nodes -> 0..Len(run')]
    <3>1. Len(run') \in Nat
      BY <1>1, Parts, Table DEF Same
    <3> QED
      BY <3>1, ChildrenAssumption DEF ChildrenAssumption, AllIdle, NoTickets, Phases
  <2> HIDE DEF force, rounds
  <2>4. /\ wf'.pc = "list" /\ wf'.phase = AllIdle /\ wf'.ticket = NoTickets
        /\ wf'.gaveUp = wf.gaveUp /\ wf' \in WfRecs
    BY <2>1, <2>2, <2>3, Parts DEF WfRecs
  <2>5. wf.gaveUp = {}
    BY <1>1, <1>4, Parts DEF PhasesFit, WfRecs
  <2>6. PhasesFit'
    BY <1>1, <2>4, <2>5 DEF PhasesFit, AllIdle
  <2>7. OwnAwaited'
    BY <1>1, <1>2, <2>5, AwaitKept
  <2>8. ListingHolds' /\ StartsReady' /\ SuccessIsCurrent'
    BY <2>4 DEF ListingHolds, StartsReady, SuccessIsCurrent
  <2>9. OwnRunCounts'
    BY <2>4 DEF OwnRunCounts, AllIdle
  <2> QED
    BY <1>1, <2>3, <2>4, <2>6, <2>7, <2>8, <2>9, ExecutorSteps
<1> QED
  BY <1>3, <1>4

(* A step of one node's phase, which starts to wait or has stopped to.     *)
LEMMA MovesKeep ==
  ASSUME WorkflowInv, TableMoves, UNCHANGED prod, prod.pc = "script", wf.pc = "run",
         NEW n \in Nodes, NEW to \in Phases, NEW t, Move(n, to, t), t \in 0..Len(run'),
         wf.phase[n] \notin {"idle", "error"}, to # "idle",
         to # "joining", to = "starting" => n \in Shared, to = "ok" => t \in CompletedRuns,
         \A i \in DOMAIN run :
           i = wf.ticket[n] /\ run[i].node = n /\ wf.phase[n] = "waiting" => ~Working(i),
         \A i \in Fresh : run'[i].node = n /\ t = i /\ to = "waiting"
  PROVE  WorkflowInv'
<1>1. /\ RowsTyped' /\ Len(run') <= MaxRuns /\ Len(run') \in Nat
  BY DEF TableMoves, RowsTyped
<1>2. t \in 0..MaxRuns
  BY <1>1, ChildrenAssumption DEF ChildrenAssumption
<1>3. /\ wf' \in WfRecs /\ wf'.phase[n] = to /\ wf'.ticket[n] = t
      /\ \A m \in Nodes : m # n => wf'.phase[m] = wf.phase[m] /\ wf'.ticket[m] = wf.ticket[m]
      /\ wf'.pc = wf.pc /\ wf'.episodes = wf.episodes /\ wf'.gaveUp = wf.gaveUp
  BY <1>2, Parts, MoveFacts
<1>4. wf'.ticket \in [Nodes -> 0..Len(run')]
  <2>1. wf'.ticket \in [Nodes -> 0..MaxRuns]
    BY <1>3 DEF WfRecs
  <2>2. \A m \in Nodes : wf.ticket[m] \in 0..Len(run) /\ Len(run) <= Len(run')
    BY Parts DEF TableMoves
  <2>3. \A m \in Nodes : wf'.ticket[m] \in 0..Len(run')
    BY <1>1, <1>3, <2>2, Aged
  <2> QED
    BY <2>1, <2>3
<1>5. PhasesFit'
  BY <1>3, Parts DEF PhasesFit, WfRecs
<1>6. OwnAwaited'
  <2>1. ASSUME NEW i \in DOMAIN run, NEW m \in Nodes, run[i].node = m, OwnScriptRun(i),
               Awaited(i, m)
        PROVE  Awaited(i, m)'
    <3>1. n \notin wf.gaveUp
      BY Parts DEF PhasesFit
    <3>2. m # n
      BY <2>1, <3>1 DEF Awaited, OwnScriptRun
    <3> QED
      BY <1>3, <2>1, <3>2 DEF Awaited
  <2>2. \A i \in Fresh, m \in Nodes : run'[i].node = m => Awaited(i, m)'
    BY <1>3 DEF Awaited
  <2> QED
    BY <2>1, <2>2, AwaitKept
<1>7. ListingHolds'
  BY <1>3 DEF ListingHolds
<1>8. StartsReady'
  <2>1. \A m \in Nodes : /\ wf.phase[m] = "joining" => m \in Shared
                         /\ wf.phase[m] = "starting" /\ m \notin Shared => InputsExist(m)
    BY Parts DEF StartsReady
  <2>2. \A m \in Nodes : /\ wf'.phase[m] = "joining" => m \in Shared
                         /\ wf'.phase[m] = "starting" /\ m \notin Shared => InputsExist(m)'
    BY <1>3, <2>1, InputsGrow
  <2> QED
    BY <2>2 DEF StartsReady
<1>9. OwnRunCounts'
  BY <1>3, CountsKept
<1>10. SuccessIsCurrent'
  BY <1>3 DEF SuccessIsCurrent
<1> QED
  BY <1>3, <1>4, <1>5, <1>6, <1>7, <1>8, <1>9, <1>10, ExecutorSteps

----------------------------------------------------------------------------

(* start of a node that looked running: the run is joined, or the node is  *)
(* to be started.                                                          *)
LEMMA JoinKeeps ==
  ASSUME WorkflowInv, NEW n \in Nodes, Join(n), UNCHANGED prod, prod.pc = "script"
  PROVE  WorkflowInv'
<1>1. wf.phase[n] = "joining" /\ wf.pc = "run" /\ TableMoves /\ Fresh = {} /\ Same
  BY StillMoves DEF Join
<1>2. n \in Shared
  BY <1>1, Parts DEF StartsReady
<1>3. Len(run') = Len(run) /\ Len(run) \in Nat /\ rows[n] \in 0..Len(run)
  BY <1>1, Parts DEF Same, RowsTyped
<1>4. CASE IsActive(rows[n])
  <2>1. Move(n, "waiting", rows[n])
    BY <1>4 DEF Join
  <2> QED
    BY <1>1, <1>3, <2>1, MovesKeep DEF Phases
<1>5. CASE ~IsActive(rows[n])
  <2>1. Move(n, "starting", 0)
    BY <1>5 DEF Join
  <2> QED
    BY <1>1, <1>2, <1>3, <2>1, MovesKeep DEF Phases
<1> QED
  BY <1>4, <1>5

(* start of a node: the run submitted, or found, is the one waited for.    *)
LEMMA StartKeeps ==
  ASSUME WorkflowInv, NEW n \in Nodes, Start(n), UNCHANGED prod, prod.pc = "script"
  PROVE  WorkflowInv'
<1>1. wf.phase[n] = "starting" /\ wf.pc = "run" /\ TableMoves /\ Submitted(n, "workflow")
      /\ \A i \in Fresh : run'[i].node = n
  BY SubmitMoves DEF Start
<1>2. rows'[n] \in 0..Len(run') /\ \A i \in Fresh : i = rows'[n]
  BY <1>1 DEF TableMoves, RowsTyped, Submitted, Fresh
<1>3. PICK t \in 0..Len(run') : t = rows'[n]
  BY <1>2
<1>4. Move(n, "waiting", t)
  BY <1>3 DEF Start
<1> QED
  BY <1>1, <1>2, <1>3, <1>4, MovesKeep DEF Phases

(* start that fails: no run is waited for.                                 *)
LEMMA StartFailsKeeps ==
  ASSUME WorkflowInv, NEW n \in Nodes, StartFails(n), UNCHANGED prod, prod.pc = "script"
  PROVE  WorkflowInv'
<1>1. /\ wf.phase[n] \in {"joining", "starting"} /\ wf.pc = "run" /\ Move(n, "error", 0)
      /\ TableMoves /\ Fresh = {} /\ Same
  BY StillMoves DEF StartFails
<1>2. 0 \in 0..Len(run')
  BY <1>1, Parts, Table DEF Same
<1> QED
  BY <1>1, <1>2, MovesKeep DEF Phases

(* What a poll that is over says, and of which run.                        *)
LEMMA PollFacts ==
  ASSUME WorkflowInv, NEW n \in Nodes, Outcome(n) # "waiting"
  PROVE  /\ Outcome(n) \in {"ok", "error"}
         /\ Outcome(n) = "ok" => wf.ticket[n] \in CompletedRuns
         /\ \A i \in DOMAIN run : i = wf.ticket[n] /\ run[i].node = n => ~Working(i)
<1>1. Outcome(n) \in {"ok", "error"}
  BY DEF Outcome
<1>2. Outcome(n) = "ok" => rows[n] = wf.ticket[n] /\ Completed(rows[n])
  BY DEF Outcome
<1>3. Completed(rows[n]) => rows[n] \in CompletedRuns
  BY Parts, Table DEF Completed, CompletedRuns
<1>4. \A i \in DOMAIN run : i = wf.ticket[n] /\ run[i].node = n => ~Working(i)
  <2> SUFFICES ASSUME NEW i \in DOMAIN run, i = wf.ticket[n], run[i].node = n, Working(i)
               PROVE  FALSE
    OBVIOUS
  <2>1. rows[n] = i
    BY Parts DEF RunsOwned
  <2>2. Outcome(n) = "waiting"
    BY <2>1 DEF Outcome, Completed, Working
  <2> QED
    BY <2>2
<1> QED
  BY <1>1, <1>2, <1>3, <1>4

(* A poll that ends a wait.                                                *)
LEMMA PollKeeps ==
  ASSUME WorkflowInv, NEW n \in Nodes, Poll(n), UNCHANGED prod, prod.pc = "script"
  PROVE  WorkflowInv'
<1>1. /\ wf.phase[n] = "waiting" /\ wf.pc = "run" /\ TableMoves /\ Fresh = {} /\ Same
      /\ Move(n, Outcome(n), wf.ticket[n]) /\ Outcome(n) # "waiting"
  BY StillMoves DEF Poll
<1>2. PICK to \in Phases, t \in 0..Len(run') :
        /\ to = Outcome(n) /\ t = wf.ticket[n]
  BY <1>1, Parts, PollFacts DEF Phases, Same
<1>3. \A i \in DOMAIN run : i = wf.ticket[n] /\ run[i].node = n => ~Working(i)
  BY <1>1, PollFacts
<1> QED
  BY <1>1, <1>2, <1>3, PollFacts, MovesKeep

(* The workflow loses sight of a node's run, which may go on working.      *)
LEMMA GiveUpKeeps ==
  ASSUME WorkflowInv, TableMoves, UNCHANGED prod, prod.pc = "script", wf.pc = "run",
         NEW n \in Nodes, wf.phase[n] \in {"starting", "waiting"}, GiveUp(n),
         \A i \in Fresh : run'[i].node = n
  PROVE  WorkflowInv'
<1> DEFINE p == [wf.phase EXCEPT ![n] = "error"]
           g == wf.gaveUp \cup {n}
<1>1. wf' = [wf EXCEPT !.phase = p, !.gaveUp = g]
  BY Parts DEF GiveUp, WfRecs
<1>2. /\ p \in [Nodes -> Phases] /\ p[n] = "error"
      /\ \A m \in Nodes : m # n => p[m] = wf.phase[m]
      /\ g \in SUBSET Nodes /\ \A m : m \in g <=> m \in wf.gaveUp \/ m = n
  BY Parts DEF WfRecs, Phases
<1> HIDE DEF p, g
<1>3. /\ wf' \in WfRecs /\ wf'.phase = p /\ wf'.ticket = wf.ticket /\ wf'.pc = "run"
      /\ wf'.gaveUp = g
  BY <1>1, <1>2, Parts DEF WfRecs
<1>4. wf'.ticket \in [Nodes -> 0..Len(run')]
  <2>1. \A m \in Nodes : wf.ticket[m] \in 0..Len(run) /\ Len(run) <= Len(run')
    BY Parts DEF TableMoves
  <2>2. wf.ticket \in [Nodes -> 0..Len(run)]
    BY Parts
  <2> QED
    BY <1>3, <2>1, <2>2, Aged
<1>5. PhasesFit'
  BY <1>2, <1>3, Parts DEF PhasesFit, WfRecs
<1>6. OwnAwaited'
  <2>1. \A i \in DOMAIN run, m \in Nodes : Awaited(i, m) => Awaited(i, m)'
    BY <1>2, <1>3 DEF Awaited
  <2>2. \A i \in Fresh, m \in Nodes : run'[i].node = m => Awaited(i, m)'
    BY <1>2, <1>3 DEF Awaited
  <2> QED
    BY <2>1, <2>2, AwaitKept
<1>7. ListingHolds' /\ SuccessIsCurrent'
  BY <1>3 DEF ListingHolds, SuccessIsCurrent
<1>8. StartsReady'
  BY <1>2, <1>3, StartsKept
<1>9. OwnRunCounts'
  BY <1>2, <1>3, CountsKept
<1> QED
  BY <1>3, <1>4, <1>5, <1>6, <1>7, <1>8, <1>9, ExecutorSteps

(* A start fails after the row is there.                                   *)
LEMMA StartLostKeeps ==
  ASSUME WorkflowInv, NEW n \in Nodes, StartLost(n), UNCHANGED prod, prod.pc = "script"
  PROVE  WorkflowInv'
<1>1. /\ wf.phase[n] = "starting" /\ wf.pc = "run" /\ GiveUp(n)
      /\ TableMoves /\ \A i \in Fresh : run'[i].node = n
  BY SubmitMoves DEF StartLost
<1> QED
  BY <1>1, GiveUpKeeps

(* A wait times out, or a poll of it raises.                               *)
LEMMA WaitBreaksKeeps ==
  ASSUME WorkflowInv, NEW n \in Nodes, WaitBreaks(n), UNCHANGED prod, prod.pc = "script"
  PROVE  WorkflowInv'
<1>1. wf.phase[n] = "waiting" /\ wf.pc = "run" /\ GiveUp(n) /\ TableMoves /\ Fresh = {}
  BY StillMoves DEF WaitBreaks
<1> QED
  BY <1>1, GiveUpKeeps

(* The script workflow is cancelled.                                       *)
LEMMA CancelKeeps ==
  ASSUME WorkflowInv, CancelWorkflow, UNCHANGED prod, prod.pc = "script"
  PROVE  WorkflowInv'
<1>1. /\ wf' = [wf EXCEPT !.pc = "cancelled"] /\ TableMoves /\ Fresh = {} /\ Same
      /\ wf.pc \notin Over
  BY StillMoves DEF CancelWorkflow
<1>2. /\ wf'.pc = "cancelled" /\ wf'.phase = wf.phase /\ wf'.ticket = wf.ticket
      /\ wf'.gaveUp = wf.gaveUp /\ wf' \in WfRecs
  BY <1>1, Parts DEF WfRecs, Over
<1>3. PhasesFit'
  BY <1>1, <1>2, Parts DEF PhasesFit
<1>4. OwnAwaited'
  <2>1. \A i \in DOMAIN run, m \in Nodes : Awaited(i, m) => Awaited(i, m)'
    BY <1>2 DEF Awaited
  <2> QED
    BY <1>1, <2>1, AwaitKept
<1>5. ListingHolds' /\ SuccessIsCurrent'
  BY <1>2 DEF ListingHolds, SuccessIsCurrent
<1>6. StartsReady'
  <2>1. wf.pc \in {"list", "read", "run"}
    BY <1>1, Parts DEF WfRecs
  <2>2. wf.pc \in {"list", "read"} => \A n \in Nodes : wf.phase[n] = "idle"
    BY Parts DEF PhasesFit, AllIdle
  <2> QED
    BY <1>1, <1>2, <2>1, <2>2, StartsKept
<1>7. OwnRunCounts'
  BY <1>1, <1>2, CountsKept
<1>8. wf'.ticket \in [Nodes -> 0..Len(run')]
  BY <1>1, <1>2, Parts DEF Same
<1> QED
  BY <1>1, <1>2, <1>3, <1>4, <1>5, <1>6, <1>7, <1>8, ExecutorSteps

----------------------------------------------------------------------------

(* The kinds of node, and the episodes' nodes.                             *)
LEMMA Kinds ==
  /\ "script" \in Stages /\ Planning = {"identities", "scenes"}
  /\ \A p \in Planning : p \in Stages
  /\ \A e \in Episodes \cup Selected, p \in Planning :
       <<p, e>> \in Nodes /\ <<"script", e>> \in Nodes /\ e # 0
BY ScriptAssumption DEF ScriptAssumption, Stages, StageRank, Planning

(* What a script that counts as output shows.                              *)
LEMMA ScriptOutput ==
  ASSUME NEW e, HasOutput(<<"script", e>>)
  PROVE  <<"script", e>> \in out /\ e \in planned /\ ~Stale(e)
<1> DEFINE n == <<"script", e>>
<1>1. n[1] = "script" /\ n[2] = e
  OBVIOUS
<1>2. BeatsComplete(e) /\ ~Stale(e)
  BY <1>1 DEF HasOutput
<1> QED
  BY <1>2 DEF BeatsComplete

(* What a plan that counts as output shows.                                *)
LEMMA PlanningOutput ==
  ASSUME NEW p \in Planning, NEW e, HasOutput(<<p, e>>)
  PROVE  <<p, e>> \in out
<1> DEFINE n == <<p, e>>
<1>1. n[1] \in {"identities", "scenes"} /\ n[2] = e
  BY DEF Planning
<1> QED
  BY <1>1 DEF HasOutput

(* A target that is complete has what SuccessIsCurrent asks for.           *)
LEMMA PlanSucceeds ==
  ASSUME WorkflowInv, wf.pc = "read", TargetComplete, Target = "script",
         NEW e \in SelectedEpisodes, NEW p \in Planning
  PROVE  /\ <<"script", e>> \in out /\ (Through => <<p, e>> \in out)
         /\ Completed(rows[<<p, e>>]) /\ run[rows[<<p, e>>]].by # "user" =>
              \E i \in DOMAIN run : /\ run[i].node = <<"script", e>> /\ Completed(i)
                                    /\ run[i].at > run[rows[<<p, e>>]].at
<1>1. e \in Episodes \cup Selected
  BY Parts DEF SelectedEpisodes, OutputsTyped
<1>2. <<"script", e>> \in Nodes /\ <<p, e>> \in Nodes
  BY <1>1, Kinds
<1>3. \A s \in Stages : Required(s)
  BY DEF Required, Stages, StageRank
<1>4. \A s \in Stages : <<s, e>> \in Nodes => <<s, e>> \in PlanNodes
  <2> SUFFICES ASSUME NEW s \in Stages, <<s, e>> \in Nodes PROVE <<s, e>> \in PlanNodes
    OBVIOUS
  <2> DEFINE n == <<s, e>>
  <2>1. n[1] = s /\ n[2] = e
    OBVIOUS
  <2> QED
    BY <1>3, <2>1 DEF PlanNodes
<1>5. <<"script", e>> \in PlanNodes /\ <<p, e>> \in PlanNodes
  BY <1>2, <1>4, Kinds
<1>6. HasOutput(<<"script", e>>)
  BY <1>5 DEF TargetComplete, ToRun, Executes
<1>7. <<"script", e>> \in out /\ ~Stale(e)
  BY <1>6, ScriptOutput
<1>8. Through => <<p, e>> \in out
  BY <1>5, PlanningOutput DEF TargetComplete, ToRun, Executes
<1>9. ASSUME Completed(rows[<<p, e>>]), run[rows[<<p, e>>]].by # "user"
      PROVE  \E i \in DOMAIN run : /\ run[i].node = <<"script", e>> /\ Completed(i)
                                   /\ run[i].at > run[rows[<<p, e>>]].at
  <2> DEFINE n == <<p, e>>
             s == <<"script", e>>
  <2>1. n \in Nodes /\ s \in Nodes /\ n[1] \in Stages /\ s[1] \in Stages
    BY <1>2, Kinds
  <2>2. wf.seen[n].st # "completed" \/
          (wf.seen[s].st = "completed" /\ ~(wf.seen[n].at > wf.seen[s].at))
    BY <1>7 DEF Stale
  <2> HIDE DEF n, s
  <2>3. wf.seen[n] = [st |-> "completed", at |-> run[rows[n]].at]
    BY <1>9, <2>1, Parts DEF ListingHolds, n
  <2>4. wf.seen[n].st = "completed" /\ wf.seen[n].at = run[rows[n]].at
    BY <2>3
  <2>5. wf.seen[s].st = "completed" /\ ~(wf.seen[n].at > wf.seen[s].at)
    BY <2>2, <2>4
  <2>6. PICK i \in CompletedRuns : run[i].node = s /\ run[i].at = wf.seen[s].at
    BY <2>1, <2>5, Parts DEF ListingHolds
  <2>7. rows[n] \in CompletedRuns /\ run[rows[n]].node = n
    BY <1>9, <2>1, Parts, Table DEF CompletedRuns, Completed, RowsTyped, n
  <2>8. n # s
    BY Kinds DEF n, s
  <2>9. run[i].at # run[rows[n]].at
    BY <2>6, <2>7, <2>8, Parts DEF TimesGrow
  <2>10. run[i].at \in Nat /\ run[rows[n]].at \in Nat
    BY <2>6, <2>7, Parts, Table, CompletedFinite DEF Run
  <2>11. run[i].at > run[rows[n]].at
    BY <2>4, <2>5, <2>6, <2>9, <2>10
  <2> QED
    BY <2>6, <2>11 DEF CompletedRuns, n, s
<1> QED
  BY <1>7, <1>8, <1>9

(* A node that is ready has its inputs.                                    *)
LEMMA ReadyFacts ==
  ASSUME NEW n \in Nodes, NodeStatus(n) = "ready"
  PROVE  InputsExist(n)
<1>1. Met(n)
  BY DEF NodeStatus
<1>2. CASE n[1] = "script"
  <2>1. \A p \in Planning : HasOutput(<<p, n[2]>>)
    BY <1>1, <1>2 DEF Met, Dependencies, Planning
  <2>2. \A p \in Planning : <<p, n[2]>> \in out
    BY <2>1, PlanningOutput
  <2>3. n[1] \notin Planning
    BY <1>2 DEF Planning
  <2> QED
    BY <1>2, <2>2, <2>3 DEF InputsExist
<1>3. CASE n[1] \in Planning
  <2>1. HasOutput(<<"episodes", 0>>)
    BY <1>1, <1>3 DEF Met, Dependencies, Planning
  <2>2. planned # {}
    BY <2>1 DEF HasOutput
  <2> QED
    BY <1>3, <2>2 DEF InputsExist, Planning
<1>4. CASE n[1] = "episodes"
  <2>1. HasOutput(<<"characters", 0>>)
    BY <1>1, <1>4 DEF Met, Dependencies, Planning, Early, StageRank
  <2>2. <<"characters", 0>> \in out
    BY <2>1 DEF HasOutput
  <2> QED
    BY <1>4, <2>2 DEF InputsExist, Planning
<1>5. CASE n[1] \notin Planning \cup {"script", "episodes"}
  BY <1>5 DEF InputsExist
<1> QED
  BY <1>2, <1>3, <1>4, <1>5

(* A node that looks to be running is a user's.                            *)
LEMMA RunningFacts ==
  ASSUME WorkflowInv, wf.pc = "read", NEW n \in Nodes, n[1] \in Stages, NodeStatus(n) = "running"
  PROVE  n \in Shared
<1>1. TaskStatus(n) \in {"active", "made"}
  BY DEF NodeStatus
<1>2. wf.seen[n].st \in {"active", "made"}
  BY <1>1 DEF TaskStatus
<1> QED
  BY <1>2, Parts DEF ListingHolds

(* build_script_workflow_plan and what execute makes of it.                *)
LEMMA PlanKeeps ==
  ASSUME WorkflowInv, Plan, UNCHANGED prod, prod.pc = "script"
  PROVE  WorkflowInv'
<1>1. wf.pc = "read" /\ TableMoves /\ Fresh = {} /\ Same /\ UNCHANGED <<planned, out, menus, exact>>
  BY StillMoves DEF Plan
<1>2. wf.gaveUp = {} /\ wf.phase = AllIdle
  BY <1>1, Parts DEF PhasesFit
<1>3. OwnAwaited'
  BY <1>1, AwaitKept DEF Awaited
<1>4. NothingSeen \in [Nodes -> SeenTasks]
  BY DEF NothingSeen, NoTask, SeenTasks
<1>5. CASE TargetComplete
  <2> DEFINE eps == SelectedEpisodes
  <2>1. wf' = [wf EXCEPT !.pc = "done", !.seen = NothingSeen, !.episodes = eps]
    BY <1>5 DEF Plan
  <2>2. eps \in SUBSET (Episodes \cup Selected)
    BY Parts DEF SelectedEpisodes, OutputsTyped
  <2>3. \A e \in eps, p \in Planning : Target = "script" =>
          /\ <<"script", e>> \in out /\ (Through => <<p, e>> \in out)
          /\ Completed(rows[<<p, e>>]) /\ run[rows[<<p, e>>]].by # "user" =>
               \E i \in DOMAIN run : /\ run[i].node = <<"script", e>> /\ Completed(i)
                                     /\ run[i].at > run[rows[<<p, e>>]].at
    BY <1>1, <1>5, PlanSucceeds
  <2> HIDE DEF eps
  <2>4. /\ wf'.pc = "done" /\ wf'.phase = wf.phase /\ wf'.ticket = wf.ticket
        /\ wf'.gaveUp = wf.gaveUp /\ wf'.episodes = eps /\ wf' \in WfRecs
    BY <1>4, <2>1, <2>2, Parts DEF WfRecs, Over
  <2>5. PhasesFit'
    BY <1>2, <2>4, Parts DEF PhasesFit, AllIdle
  <2>6. ListingHolds' /\ StartsReady'
    BY <2>4 DEF ListingHolds, StartsReady
  <2>7. SuccessIsCurrent'
    BY <1>1, <2>3, <2>4 DEF SuccessIsCurrent, Same, Completed
  <2>8. OwnRunCounts'
    BY <1>1, <2>4, CountsKept
  <2>9. wf'.ticket \in [Nodes -> 0..Len(run')]
    BY <1>1, <2>4, Parts DEF Same
  <2> QED
    BY <1>1, <1>3, <2>4, <2>5, <2>6, <2>7, <2>8, <2>9, ExecutorSteps
<1>6. CASE ~TargetComplete /\ Candidates = {}
  <2>1. wf' = [wf EXCEPT !.pc = "blocked"]
    BY <1>6 DEF Plan
  <2>2. /\ wf'.pc = "blocked" /\ wf'.phase = wf.phase /\ wf'.ticket = wf.ticket
        /\ wf'.gaveUp = wf.gaveUp /\ wf' \in WfRecs
    BY <2>1, Parts DEF WfRecs, Over
  <2>3. PhasesFit'
    BY <1>2, <2>2, Parts DEF PhasesFit, AllIdle
  <2>4. ListingHolds' /\ StartsReady' /\ SuccessIsCurrent'
    BY <2>2 DEF ListingHolds, StartsReady, SuccessIsCurrent
  <2>5. OwnRunCounts'
    BY <1>1, <2>2, CountsKept
  <2>6. wf'.ticket \in [Nodes -> 0..Len(run')]
    BY <1>1, <2>2, Parts DEF Same
  <2> QED
    BY <1>1, <1>3, <2>2, <2>3, <2>4, <2>5, <2>6, ExecutorSteps
<1>7. CASE ~TargetComplete /\ Candidates # {}
  <2> DEFINE phase == [n \in Nodes |-> IF n \notin Batch THEN "idle"
                                       ELSE IF NodeStatus(n) = "running" THEN "joining"
                                       ELSE "starting"]
  <2>1. wf' = [wf EXCEPT !.pc = "run", !.seen = NothingSeen, !.phase = phase]
    BY <1>7 DEF Plan
  <2>2. phase \in [Nodes -> Phases]
    BY DEF Phases
  <2>3. \A n \in Nodes : phase[n] # "idle" =>
          /\ n[1] \in Stages /\ NodeStatus(n) \in {"running", "ready"}
          /\ phase[n] = "joining" => NodeStatus(n) = "running"
          /\ phase[n] = "starting" => NodeStatus(n) # "running"
    BY DEF Batch, Candidates, ToRun, PlanNodes
  <2>4. \A n \in Nodes : phase[n] \in {"idle", "joining", "starting"}
    OBVIOUS
  <2> HIDE DEF phase
  <2>5. /\ wf'.pc = "run" /\ wf'.phase = phase /\ wf'.ticket = wf.ticket
        /\ wf'.gaveUp = wf.gaveUp /\ wf' \in WfRecs
    BY <1>4, <2>1, <2>2, Parts DEF WfRecs
  <2>6. PhasesFit'
    BY <1>2, <2>3, <2>5, Parts DEF PhasesFit
  <2>7. StartsReady'
    <3>1. \A n \in Nodes : /\ phase[n] = "joining" => n \in Shared
                           /\ phase[n] = "starting" => InputsExist(n)
      BY <1>1, <2>3, ReadyFacts, RunningFacts
    <3>2. \A n \in Nodes : phase[n] = "starting" => InputsExist(n)'
      BY <1>1, <3>1, InputsGrow
    <3> QED
      BY <2>5, <3>1, <3>2 DEF StartsReady
  <2>8. ListingHolds' /\ SuccessIsCurrent'
    BY <2>5 DEF ListingHolds, SuccessIsCurrent
  <2>9. OwnRunCounts'
    BY <2>4, <2>5 DEF OwnRunCounts
  <2>10. wf'.ticket \in [Nodes -> 0..Len(run')]
    BY <1>1, <2>5, Parts DEF Same
  <2> QED
    BY <1>1, <1>3, <2>5, <2>6, <2>7, <2>8, <2>9, <2>10, ExecutorSteps
<1> QED
  BY <1>5, <1>6, <1>7

(* The executor of the script workflow keeps the invariant.                *)
LEMMA ExecutorKeeps ==
  ASSUME WorkflowInv, Executor, ScriptRuns
  PROVE  WorkflowInv'
BY ListTasksKeeps, EarlyEndKeeps, PlanKeeps, EndBatchKeeps, JoinKeeps, StartKeeps,
   StartFailsKeeps, StartLostKeeps, PollKeeps, WaitBreaksKeeps DEF Executor, ScriptRuns

----------------------------------------------------------------------------

(* The steps of the production workflow, which leave the pc of the script  *)
(* workflow, or cancel it.                                                 *)
LEMMA ProductionSteps ==
  ASSUME WorkflowInv, TableMoves,
         wf' \in WfRecs, wf'.ticket \in [Nodes -> 0..Len(run')],
         prod' \in ProdRecs, prod'.hit \subseteq DOMAIN run, prod'.known <= Len(run),
         prod'.late \subseteq DOMAIN run',
         wf'.pc = "cancelled" \/ \A i \in Fresh : run'[i].node[1] \notin Stages,
         \A n \in Nodes : wf'.pc = "cancelled" /\ wf'.phase[n] \in {"joining", "starting"} =>
                            wf.pc \in {"run", "cancelled"} /\ wf'.phase[n] = wf.phase[n],
         wf'.pc = wf.pc \/ wf'.pc = "cancelled", wf'.pc \notin {"list", "read", "run"},
         wf'.episodes = wf.episodes, wf'.gaveUp = wf.gaveUp,
         wf.pc = "run" => wf'.pc = "cancelled",
         PhasesFit', SweepFits', OwnRunCounts', SharedSpared'
  PROVE  WorkflowInv'
<1>1. OwnAwaited'
  <2>1. \A i \in DOMAIN run, n \in Nodes : Awaited(i, n) => Awaited(i, n)'
    BY DEF Awaited
  <2>2. \A i \in Fresh, n \in Nodes :
          run'[i].node = n /\ run'[i].by = "workflow" /\ n[1] \in Stages => Awaited(i, n)'
    BY DEF Awaited
  <2> QED
    BY <2>1, <2>2, AwaitKept
<1>2. ListingHolds' /\ StartsReady'
  BY StartsKept DEF ListingHolds
<1>3. SuccessIsCurrent'
  BY SuccessKept
<1>4. Typed'
  BY TypedKept
<1> QED
  BY <1>1, <1>2, <1>3, <1>4, Together

(* The next stage: its jobs are none of the script's nodes.                *)
LEMMA NextStageKeeps ==
  ASSUME WorkflowInv, NextStage
  PROVE  WorkflowInv'
<1>1. /\ prod.kind = "production" /\ prod.pc \in {"script", "jobs"}
      /\ wf.pc = "done"
      /\ TableMoves /\ Fresh = {} /\ Same
  BY StillMoves, Parts DEF NextStage, PhasesFit
<1>2. wf.pc \notin {"list", "read", "run"}
  BY <1>1, Parts DEF PhasesFit
<1>3. prod.todo = {} /\ prod.hit = {}
  BY <1>1, Parts DEF SweepFits
<1>4. Len(Jobs) \in Nat
  BY ProductionAssumption DEF ProductionAssumption
<1>5. CASE prod.stage = Len(Jobs)
  <2>1. wf' = wf /\ prod' = [prod EXCEPT !.pc = "done"]
    BY <1>5 DEF NextStage
  <2>2. /\ prod' \in ProdRecs /\ prod'.pc = "done" /\ prod'.todo = {} /\ prod'.hit = {}
        /\ prod'.late = prod.late /\ prod'.known = prod.known /\ prod'.kind = prod.kind
    BY <1>3, <2>1, Parts DEF ProdRecs, Settled
  <2>3. PhasesFit'
    <3>1. prod.pc = "script" => \A n \in Nodes : wf.phase[n] # "starting"
      BY <1>1, Parts DEF PhasesFit
    <3> QED
      BY <1>1, <1>2, <2>1, <2>2, <3>1, Parts DEF PhasesFit
  <2>4. SweepFits' /\ SharedSpared'
    BY <2>2 DEF SweepFits, SharedSpared
  <2>5. OwnRunCounts'
    BY <1>1, <2>1, CountsKept
  <2>6. wf'.ticket \in [Nodes -> 0..Len(run')]
    BY <1>1, <2>1, Parts DEF Same
  <2> QED
    BY <1>1, <1>2, <2>1, <2>2, <2>3, <2>4, <2>5, <2>6, Parts, ProductionSteps DEF Same
<1>6. CASE prod.stage # Len(Jobs)
  <2> DEFINE stage == prod.stage + 1
             phase == [n \in Nodes |-> IF n \in Jobs[stage] \ out THEN "starting" ELSE "idle"]
  <2>1. /\ prod' = [prod EXCEPT !.pc = "jobs", !.stage = stage]
        /\ wf' = [wf EXCEPT !.ticket = NoTickets, !.phase = phase]
    BY <1>6 DEF NextStage
  <2>2. stage \in 1..Len(Jobs)
    BY <1>4, <1>6, Parts DEF ProdRecs
  <2>3. Jobs[stage] \subseteq {n \in Nodes : n[1] \notin Stages}
    BY <2>2, ProductionAssumption DEF ProductionAssumption
  <2>4. /\ phase \in [Nodes -> Phases]
        /\ \A n \in Nodes : phase[n] \in {"idle", "starting"}
                            /\ (phase[n] = "starting" => n[1] \notin Stages)
    BY <2>3 DEF Phases
  <2>5. NoTickets \in [Nodes -> 0..MaxRuns] /\ NoTickets \in [Nodes -> 0..Len(run')]
    <3>1. Len(run') \in Nat
      BY <1>1, Parts, Table DEF Same
    <3> QED
      BY <3>1, ChildrenAssumption DEF ChildrenAssumption, NoTickets
  <2> HIDE DEF stage, phase
  <2>6. /\ prod' \in ProdRecs /\ prod'.pc = "jobs" /\ prod'.todo = {} /\ prod'.hit = {}
        /\ prod'.late = prod.late /\ prod'.known = prod.known /\ prod'.kind = prod.kind
    <3>1. stage \in 0..Len(Jobs)
      BY <1>4, <2>2
    <3>2. prod \in ProdRecs
      BY Parts
    <3>3. prod' \in ProdRecs
      BY <2>1, <3>1, <3>2 DEF ProdRecs
    <3>4. /\ prod'.pc = "jobs" /\ prod'.todo = prod.todo /\ prod'.hit = prod.hit
          /\ prod'.late = prod.late /\ prod'.known = prod.known /\ prod'.kind = prod.kind
      BY <2>1, <3>2 DEF ProdRecs
    <3> QED
      BY <1>3, <3>3, <3>4
  <2>7. /\ wf' \in WfRecs /\ wf'.pc = wf.pc /\ wf'.phase = phase /\ wf'.ticket = NoTickets
        /\ wf'.episodes = wf.episodes /\ wf'.gaveUp = wf.gaveUp
    BY <2>1, <2>4, <2>5, Parts DEF WfRecs
  <2>8. PhasesFit'
    BY <1>1, <1>2, <2>4, <2>6, <2>7, Parts DEF PhasesFit
  <2>9. SweepFits' /\ SharedSpared'
    BY <2>6 DEF SweepFits, SharedSpared
  <2>10. OwnRunCounts'
    BY <2>4, <2>7 DEF OwnRunCounts
  <2> QED
    BY <1>1, <1>2, <2>5, <2>6, <2>7, <2>8, <2>9, <2>10, Parts, ProductionSteps DEF Same
<1> QED
  BY <1>5, <1>6

(* Something fails, or the watch cancels, and the sweep is next.           *)
LEMMA FailFacts ==
  ASSUME WorkflowInv, prod.pc \in {"script", "jobs"}, prod.kind = "production",
         Fail \/ prod' = [prod EXCEPT !.pc = "failing", !.watching = FALSE]
  PROVE  /\ prod' \in ProdRecs /\ prod'.pc = "failing" /\ prod'.todo = {} /\ prod'.hit = {}
         /\ prod'.late = prod.late /\ prod'.known = prod.known /\ prod'.kind = prod.kind
         /\ SweepFits' /\ SharedSpared'
<1>1. prod.todo = {} /\ prod.hit = {}
  BY Parts DEF SweepFits
<1>2. /\ prod' \in ProdRecs /\ prod'.pc = "failing" /\ prod'.todo = {} /\ prod'.hit = {}
      /\ prod'.late = prod.late /\ prod'.known = prod.known /\ prod'.kind = prod.kind
  BY <1>1, Parts DEF Fail, ProdRecs
<1>3. SweepFits' /\ SharedSpared'
  BY <1>2 DEF SweepFits, SharedSpared
<1> QED
  BY <1>2, <1>3

(* A job or the script workflow did not succeed.                           *)
LEMMA BreaksKeeps ==
  ASSUME WorkflowInv, Breaks
  PROVE  WorkflowInv'
<1>1. /\ prod.kind = "production" /\ prod.pc \in {"script", "jobs"}
      /\ prod.pc = "script" => wf.pc \in {"blocked", "failed"}
      /\ Fail /\ wf' = wf /\ TableMoves /\ Fresh = {} /\ Same
  BY StillMoves DEF Breaks
<1>2. wf.pc \notin {"list", "read", "run"}
  BY <1>1, Parts DEF PhasesFit
<1>3. PhasesFit'
  <2>1. prod.pc = "script" => \A n \in Nodes : wf.phase[n] # "starting"
    BY <1>1, Parts DEF PhasesFit
  <2> QED
    BY <1>1, <1>2, <2>1, FailFacts, Parts DEF PhasesFit
<1>4. OwnRunCounts'
  BY <1>1, CountsKept
<1>5. wf'.ticket \in [Nodes -> 0..Len(run')]
  BY <1>1, Parts DEF Same
<1> QED
  BY <1>1, <1>2, <1>3, <1>4, <1>5, FailFacts, Parts, ProductionSteps DEF Same

(* The production workflow is cancelled, and the script workflow with it.  *)
LEMMA CancelProductionKeeps ==
  ASSUME WorkflowInv, CancelProduction
  PROVE  WorkflowInv'
<1> DEFINE pc == IF wf.pc = "done" THEN "done" ELSE "cancelled"
<1>1. /\ prod.kind = "production" /\ prod.pc \in {"script", "jobs"}
      /\ prod' = [prod EXCEPT !.pc = "failing", !.watching = FALSE]
      /\ wf' = [wf EXCEPT !.pc = pc]
      /\ TableMoves /\ Fresh = {} /\ Same
  BY StillMoves DEF CancelProduction
<1>2. pc \in Over /\ (pc = wf.pc \/ pc = "cancelled") /\ pc \notin {"list", "read", "run"}
      /\ (wf.pc = "run" => pc = "cancelled") /\ (pc = "done" <=> wf.pc = "done") /\ pc # "blocked"
  BY DEF Over
<1> HIDE DEF pc
<1>3. /\ wf' \in WfRecs /\ wf'.pc = pc /\ wf'.phase = wf.phase /\ wf'.ticket = wf.ticket
      /\ wf'.episodes = wf.episodes /\ wf'.gaveUp = wf.gaveUp
  BY <1>1, <1>2, Parts DEF WfRecs
<1>4. /\ prod' \in ProdRecs /\ prod'.pc = "failing" /\ prod'.hit = {} /\ prod'.kind = "production"
      /\ prod'.late = prod.late /\ prod'.known = prod.known /\ SweepFits' /\ SharedSpared'
  BY <1>1, FailFacts
<1>5. \A n \in Nodes : wf.phase[n] \in {"joining", "starting"} /\ pc = "cancelled" =>
                         wf.pc \in {"run", "cancelled"}
  <2>1. prod.pc = "jobs" => pc # "cancelled"
    BY <1>2, Parts DEF PhasesFit
  <2> QED
    BY <1>1, <2>1, Parts DEF PhasesFit
<1>6. PhasesFit'
  <2>1. prod.pc = "jobs" => wf.pc = "done"
    BY Parts DEF PhasesFit
  <2>2. \A n \in Nodes : wf.phase[n] = "starting" /\ pc # "cancelled" => n[1] \notin Stages
    BY <1>1, <1>2, Parts DEF PhasesFit
  <2>3. wf.gaveUp # {} => pc # "done"
    BY <1>2, Parts DEF PhasesFit
  <2> QED
    BY <1>2, <1>3, <1>4, <2>2, <2>3 DEF PhasesFit
<1>7. OwnRunCounts'
  BY <1>1, <1>3, CountsKept
<1>8. wf'.ticket \in [Nodes -> 0..Len(run')] /\ prod'.late \subseteq DOMAIN run'
  BY <1>1, <1>3, <1>4, Parts DEF Same
<1> QED
  BY <1>1, <1>2, <1>3, <1>4, <1>5, <1>6, <1>7, <1>8, Parts, ProductionSteps

(* Where the production workflow is when it is past the script.            *)
LEMMA PastScript ==
  ASSUME WorkflowInv, prod.pc # "script"
  PROVE  wf.pc \notin {"list", "read", "run"} /\ prod.kind = "production"
BY Parts DEF PhasesFit

(* A job fails to start, or ends.                                          *)
LEMMA JobMovesKeep ==
  ASSUME WorkflowInv, prod.pc = "jobs", TableMoves, \A i \in Fresh : run'[i].node[1] \notin Stages,
         NEW n \in Nodes, NEW to \in {"ok", "error"}, NEW t \in 0..Len(run), Move(n, to, t),
         to = "ok" => t \in CompletedRuns, Fail \/ UNCHANGED prod
  PROVE  WorkflowInv'
<1>1. /\ Len(run) \in Nat /\ Len(run') \in Nat /\ Len(run) <= Len(run')
      /\ DOMAIN run \subseteq DOMAIN run'
  BY Aged DEF TableMoves, Ages
<1>2. t \in 0..MaxRuns /\ to \in Phases
  BY Parts, Table, ChildrenAssumption DEF ChildrenAssumption, RowsTyped, Phases
<1>3. /\ wf' \in WfRecs /\ wf'.phase[n] = to /\ wf'.ticket[n] = t
      /\ \A m \in Nodes : m # n => wf'.phase[m] = wf.phase[m] /\ wf'.ticket[m] = wf.ticket[m]
      /\ wf'.pc = wf.pc /\ wf'.episodes = wf.episodes /\ wf'.gaveUp = wf.gaveUp
  BY <1>2, Parts, MoveFacts
<1>4. /\ prod' \in ProdRecs /\ prod'.pc \in {"jobs", "failing"} /\ prod'.known = prod.known
      /\ prod'.kind = prod.kind /\ prod'.hit = {} /\ prod'.todo = {} /\ prod'.late = prod.late
  <2>1. prod.todo = {} /\ prod.hit = {}
    BY Parts DEF SweepFits
  <2> QED
    BY <2>1, Parts, FailFacts, PastScript
<1>5. SweepFits' /\ SharedSpared'
  BY <1>4 DEF SweepFits, SharedSpared
<1>6. PhasesFit'
  BY <1>3, <1>4, PastScript, Parts DEF PhasesFit
<1>7. OwnRunCounts'
  BY <1>1, <1>3, CountsKept
<1>8. wf'.ticket \in [Nodes -> 0..Len(run')]
  <2>1. wf'.ticket \in [Nodes -> 0..MaxRuns]
    BY <1>3 DEF WfRecs
  <2>2. \A m \in Nodes : wf.ticket[m] \in 0..Len(run)
    BY Parts
  <2>3. \A m \in Nodes : wf'.ticket[m] \in 0..Len(run')
    BY <1>1, <1>3, <2>2
  <2> QED
    BY <2>1, <2>3
<1>9. wf.pc = "done"
  BY Parts DEF PhasesFit
<1> QED
  BY <1>1, <1>3, <1>4, <1>5, <1>6, <1>7, <1>8, <1>9, PastScript, Parts, ProductionSteps

(* The start of a job fails.                                               *)
LEMMA StartJobFailsKeeps ==
  ASSUME WorkflowInv, NEW n \in Nodes, StartJobFails(n)
  PROVE  WorkflowInv'
<1>1. 0 \in 0..Len(run)
  BY Parts, Table
<1>2. n[1] \notin Stages
  BY Parts DEF StartJobFails, PhasesFit
<1>3. CASE UNCHANGED Tasks
  BY <1>1, <1>3, StillMoves, JobMovesKeep DEF StartJobFails
<1>4. CASE Submit(n, "workflow")
  <2>1. TableMoves /\ \A i \in Fresh : run'[i].node = n
    BY <1>4, SubmitMoves DEF StartJobFails
  <2> QED
    BY <1>1, <1>2, <2>1, JobMovesKeep DEF StartJobFails
<1> QED
  BY <1>3, <1>4 DEF StartJobFails

(* The wait for a job ends.                                                *)
LEMMA PollJobKeeps ==
  ASSUME WorkflowInv, NEW n \in Nodes, PollJob(n)
  PROVE  WorkflowInv'
<1>1. prod.pc = "jobs" /\ Outcome(n) # "waiting" /\ Move(n, Outcome(n), wf.ticket[n])
      /\ (Fail \/ UNCHANGED prod) /\ UNCHANGED <<Tasks, Outputs>>
  BY DEF PollJob
<1>2. PICK to \in {"ok", "error"}, t \in 0..Len(run) : to = Outcome(n) /\ t = wf.ticket[n]
  BY <1>1, Parts, PollFacts
<1> QED
  BY <1>1, <1>2, PollFacts, StillMoves, JobMovesKeep

----------------------------------------------------------------------------

(* A job is submitted, maybe after the tasks were listed.                  *)
LEMMA StartJobKeeps ==
  ASSUME WorkflowInv, NEW n \in Nodes, StartJob(n)
  PROVE  WorkflowInv'
<1> DEFINE late == IF prod.pc = "sweep" THEN prod.late \cup Fresh ELSE prod.late
<1>1. /\ prod.pc \in {"jobs", "failing", "sweep"} /\ wf.phase[n] = "starting"
      /\ TableMoves /\ Submitted(n, "workflow")
      /\ \A i \in Fresh : run'[i].node = n
      /\ prod' = [prod EXCEPT !.late = late]
  BY SubmitMoves DEF StartJob, Fresh
<1>2. (n[1] \notin Stages \/ wf.pc = "cancelled") /\ wf.pc \notin {"list", "read", "run"}
  BY <1>1, PastScript, Parts DEF PhasesFit
<1>3. rows'[n] \in 0..Len(run') /\ Len(run') <= MaxRuns /\ Len(run') \in Nat /\ Len(run) <= Len(run')
      /\ MaxRuns \in Nat
  BY <1>1, ChildrenAssumption DEF TableMoves, RowsTyped, Submitted, ChildrenAssumption
<1>4. PICK t \in 0..Len(run') : t = rows'[n]
  BY <1>3
<1>5. Move(n, "waiting", t) /\ t \in 0..MaxRuns /\ "waiting" \in Phases
  BY <1>3, <1>4 DEF StartJob, Phases
<1>6. /\ wf' \in WfRecs /\ wf'.phase[n] = "waiting" /\ wf'.ticket[n] = t
      /\ \A m \in Nodes : m # n => wf'.phase[m] = wf.phase[m] /\ wf'.ticket[m] = wf.ticket[m]
      /\ wf'.pc = wf.pc /\ wf'.episodes = wf.episodes /\ wf'.gaveUp = wf.gaveUp
  BY <1>5, Parts, MoveFacts
<1>7. /\ late \in SUBSET Nat /\ late \subseteq DOMAIN run' /\ prod.late \subseteq late
      /\ prod.pc = "sweep" => Fresh \subseteq late
  <2>1. Fresh \subseteq DOMAIN run' /\ prod.late \subseteq DOMAIN run'
    BY <1>1, Parts DEF Fresh, TableMoves, Ages
  <2>2. DOMAIN run' \subseteq Nat
    BY <1>1, Aged
  <2> QED
    BY <2>1, <2>2
<1> HIDE DEF late
<1>8. /\ prod' \in ProdRecs /\ prod'.pc = prod.pc /\ prod'.known = prod.known
      /\ prod'.kind = prod.kind /\ prod'.hit = prod.hit /\ prod'.todo = prod.todo
      /\ prod'.late = late /\ prod'.missed = prod.missed /\ prod'.unlisted = prod.unlisted
  BY <1>1, <1>7, Parts DEF ProdRecs
<1>9. PhasesFit'
  BY <1>1, <1>2, <1>6, <1>8, PastScript, Parts DEF PhasesFit
<1>10. OwnRunCounts'
  BY <1>1, <1>6, CountsKept
<1>11. SweepFits'
  <2>1. ASSUME prod.pc = "sweep", ~prod.unlisted,
               NEW i \in DOMAIN run', Working(i)', run'[i].by = "workflow"
        PROVE  i \in late \/ run'[i].node \in prod.todo \cup prod.missed
    <3>1. CASE i \in Fresh
      BY <1>7, <2>1, <3>1
    <3>2. CASE i \in DOMAIN run
      <4>1. run[i].node = run'[i].node /\ run[i].by = "workflow" /\ Working(i)
        BY <1>1, <2>1, <3>2 DEF TableMoves, Ages
      <4> QED
        BY <1>7, <2>1, <3>2, <4>1, Parts DEF SweepFits
    <3> QED
      BY <1>1, <3>1, <3>2, Aged
  <2>2. ASSUME NEW m \in prod.todo, rows'[m] \in 1..prod.known PROVE run'[rows'[m]].by = "workflow"
    <3>1. m \in Nodes /\ prod.known \in Nat /\ prod.known <= Len(run)
      BY Parts DEF ProdRecs
    <3>2. rows'[m] = rows[m] /\ rows[m] \in DOMAIN run
      BY <1>1, <2>2, <3>1, Aged DEF TableMoves
    <3>3. run[rows[m]].by = "workflow"
      BY <2>2, <3>2, Parts DEF SweepFits
    <3> QED
      BY <1>1, <3>2, <3>3 DEF TableMoves, Ages
  <2>3. prod.pc \notin {"sweep", "failed"} => prod.todo = {} /\ prod.hit = {}
    BY Parts DEF SweepFits
  <2> QED
    BY <1>1, <1>8, <2>1, <2>2, <2>3 DEF SweepFits
<1>12. SharedSpared'
  BY <1>1, <1>8, Parts DEF SharedSpared, TableMoves, Ages
<1>13. wf'.ticket \in [Nodes -> 0..Len(run')]
  <2>1. wf'.ticket \in [Nodes -> 0..MaxRuns]
    BY <1>6 DEF WfRecs
  <2>2. \A m \in Nodes : wf.ticket[m] \in 0..Len(run)
    BY Parts
  <2>3. \A m \in Nodes : wf'.ticket[m] \in 0..Len(run')
    BY <1>1, <1>3, <1>6, <2>2, Aged
  <2> QED
    BY <2>1, <2>3
<1> QED
  BY <1>1, <1>2, <1>6, <1>7, <1>8, <1>9, <1>10, <1>11, <1>12, <1>13, Parts, ProductionSteps

(* The tasks are listed: the active ones of the workflow's are to be       *)
(* cancelled.                                                              *)
LEMMA ListOwnedKeeps ==
  ASSUME WorkflowInv, ListOwned
  PROVE  WorkflowInv'
<1> DEFINE known == Len(run)
           todo == Owned
<1>1. /\ prod.pc = "failing" /\ wf' = wf /\ TableMoves /\ Fresh = {} /\ Same
      /\ prod' = [prod EXCEPT !.pc = "sweep", !.todo = todo, !.known = known]
  BY StillMoves DEF ListOwned
<1>2. prod.hit = {}
  BY <1>1, Parts DEF SweepFits
<1>3. known \in Nat /\ todo \in SUBSET Nodes
  BY Parts, Table DEF Owned
<1>4. \A i \in DOMAIN run : Working(i) /\ run[i].by = "workflow" => run[i].node \in todo
  <2> SUFFICES ASSUME NEW i \in DOMAIN run, Working(i), run[i].by = "workflow"
               PROVE  run[i].node \in todo
    OBVIOUS
  <2>1. run[i].node \in Nodes /\ i # 0
    BY Parts, Table DEF Run
  <2>2. rows[run[i].node] = i
    BY Parts DEF RunsOwned
  <2> QED
    BY <2>1, <2>2 DEF Owned, IsActive, Working
<1>5. \A n \in todo : run[rows[n]].by = "workflow"
  BY DEF Owned
<1> HIDE DEF known, todo
<1>6. /\ prod' \in ProdRecs /\ prod'.pc = "sweep" /\ prod'.known = known
      /\ prod'.kind = prod.kind /\ prod'.hit = {} /\ prod'.todo = todo /\ prod'.late = prod.late
  BY <1>1, <1>2, <1>3, Parts DEF ProdRecs
<1>7. SweepFits'
  BY <1>1, <1>4, <1>5, <1>6 DEF SweepFits, Same, Working
<1>8. SharedSpared'
  BY <1>6 DEF SharedSpared
<1>9. PhasesFit'
  BY <1>1, <1>6, PastScript, Parts DEF PhasesFit
<1>10. OwnRunCounts'
  BY <1>1, CountsKept
<1>11. wf'.ticket \in [Nodes -> 0..Len(run')] /\ prod'.known <= Len(run)
       /\ prod'.late \subseteq DOMAIN run'
  BY <1>1, <1>3, <1>6, Parts DEF Same, known
<1> QED
  BY <1>1, <1>6, <1>7, <1>8, <1>9, <1>10, <1>11, PastScript, Parts, ProductionSteps

(* The sweep changes nothing of the script workflow.                       *)
LEMMA SweepSteps ==
  ASSUME WorkflowInv, prod.pc \in {"failing", "sweep"}, TableMoves, Fresh = {}, wf' = wf,
         prod' \in ProdRecs, prod'.pc \in {"sweep", "failed"}, prod'.kind = prod.kind,
         prod'.hit \subseteq DOMAIN run, prod'.late = prod.late, prod'.known = prod.known,
         SweepFits', SharedSpared'
  PROVE  WorkflowInv'
<1>1. PhasesFit'
  BY PastScript, Parts DEF PhasesFit
<1>2. OwnRunCounts'
  BY CountsKept
<1>3. wf'.ticket \in [Nodes -> 0..Len(run')]
  <2>1. wf.ticket \in [Nodes -> 0..Len(run)]
    BY Parts
  <2>2. \A m \in Nodes : wf.ticket[m] \in 0..Len(run')
    BY <2>1, Aged DEF TableMoves
  <2> QED
    BY <2>1, <2>2
<1>4. prod.late \subseteq DOMAIN run'
  BY Parts DEF TableMoves, Ages
<1> QED
  BY <1>1, <1>2, <1>3, <1>4, PastScript, Parts, ProductionSteps

(* The tasks cannot be listed.                                             *)
LEMMA ListFailsKeeps ==
  ASSUME WorkflowInv, ListFails
  PROVE  WorkflowInv'
<1>1. /\ prod.pc = "failing" /\ wf' = wf /\ TableMoves /\ Fresh = {} /\ Same
      /\ prod' = [prod EXCEPT !.pc = "failed", !.unlisted = TRUE]
  BY StillMoves DEF ListFails
<1>2. prod \in ProdRecs /\ prod.todo = {} /\ prod.hit = {}
  BY <1>1, Parts DEF SweepFits
<1>3. /\ prod' \in ProdRecs /\ prod'.pc = "failed" /\ prod'.known = prod.known
      /\ prod'.kind = prod.kind /\ prod'.hit = {} /\ prod'.todo = {}
      /\ prod'.late = prod.late /\ prod'.unlisted
  BY <1>1, <1>2 DEF ProdRecs, Settled
<1>4. SweepFits' /\ SharedSpared'
  BY <1>3 DEF SweepFits, SharedSpared
<1> QED
  BY <1>1, <1>3, <1>4, SweepSteps

(* A listed task is cancelled: the run its key holds by now, if it is      *)
(* active.                                                                 *)
LEMMA CancelOwnedKeeps ==
  ASSUME WorkflowInv, NEW n \in Nodes, CancelOwned(n)
  PROVE  WorkflowInv'
<1>1. prod.pc = "sweep" /\ n \in prod.todo /\ wf' = wf /\ UNCHANGED Outputs
  BY DEF CancelOwned
<1>2. /\ prod \in ProdRecs /\ prod.hit \subseteq DOMAIN run /\ prod.known <= Len(run)
      /\ prod.known \in Nat
  BY Parts DEF ProdRecs
<1> DEFINE todo == prod.todo \ {n}
<1>3. todo \in SUBSET Nodes
  BY <1>2 DEF ProdRecs
<1>4. CASE IsActive(rows[n])
  <2>1. PICK i \in DOMAIN run : i = rows[n] /\ Working(i) /\ run[i].node = n
    BY <1>4, Parts, Table DEF IsActive, Working, RowsTyped
  <2> DEFINE hit == prod.hit \cup {i}
  <2>2. run' = [run EXCEPT ![i].st = "failed"] /\ rows' = rows
        /\ prod' = [prod EXCEPT !.todo = todo, !.hit = hit]
    BY <1>4, <2>1 DEF CancelOwned, End
  <2>3. planned' = planned /\ out' = out /\ OutputsTyped'
    BY <1>1, Parts DEF Outputs, OutputsTyped
  <2>4. TableMoves /\ Fresh = {} /\ ~Working(i)'
    BY <2>1, <2>2, <2>3, RunMoves
  <2>5. hit \in SUBSET Nat /\ hit \subseteq DOMAIN run
    BY <1>2, <2>1, Parts, Table
  <2>6. run[i].by # "workflow" => i > prod.known
    <3>1. i \in 1..prod.known => run[i].by = "workflow"
      BY <1>1, <2>1, Parts DEF SweepFits
    <3>2. i \in Nat /\ i # 0
      BY <2>1, Parts, Table
    <3> QED
      BY <1>2, <3>1, <3>2
  <2>7. \A j \in DOMAIN run : run'[j].by = run[j].by /\ run'[j].node = run[j].node
                              /\ (Working(j)' => Working(j))
    BY <2>4 DEF TableMoves, Ages
  <2>8. DOMAIN run' = DOMAIN run
    BY <2>2
  <2>9. \A j \in DOMAIN run : Working(j) /\ run[j].node = n => j = i
    BY <2>1, Parts DEF RunsOwned
  <2>10. hit = prod.hit \cup {i} /\ todo = prod.todo \ {n}
    OBVIOUS
  <2> HIDE DEF todo, hit
  <2>11. /\ prod' \in ProdRecs /\ prod'.pc = "sweep" /\ prod'.known = prod.known
         /\ prod'.kind = prod.kind /\ prod'.hit = hit /\ prod'.todo = todo
         /\ prod'.late = prod.late /\ prod'.missed = prod.missed
        /\ prod'.unlisted = prod.unlisted
    BY <1>1, <1>2, <1>3, <2>2, <2>5 DEF ProdRecs
  <2>12. SweepFits'
    <3>1. ASSUME ~prod.unlisted, NEW j \in DOMAIN run', Working(j)', run'[j].by = "workflow"
          PROVE  j \in prod.late \/ run'[j].node \in todo \cup prod.missed
      <4>1. j \in DOMAIN run /\ Working(j) /\ run[j].by = "workflow" /\ run'[j].node = run[j].node
        BY <2>7, <2>8, <3>1
      <4>2. j \in prod.late \/ run[j].node \in prod.todo \cup prod.missed
        BY <1>1, <3>1, <4>1, Parts DEF SweepFits
      <4>3. run[j].node # n
        BY <2>4, <2>9, <3>1, <4>1
      <4> QED
        BY <2>10, <4>1, <4>2, <4>3
    <3>2. ASSUME NEW m \in todo, rows'[m] \in 1..prod.known PROVE run'[rows'[m]].by = "workflow"
      <4>1. m \in prod.todo /\ rows'[m] = rows[m] /\ rows[m] \in DOMAIN run
        BY <1>2, <2>2, <2>10, <3>2, Parts, Table
      <4>2. run[rows[m]].by = "workflow"
        BY <3>2, <4>1, Parts DEF SweepFits
      <4> QED
        BY <2>7, <4>1, <4>2
    <3> QED
      BY <2>11, <3>1, <3>2 DEF SweepFits
  <2>13. SharedSpared'
    BY <1>2, <2>6, <2>7, <2>10, <2>11, Parts DEF SharedSpared
  <2> QED
    BY <1>1, <2>4, <2>5, <2>11, <2>12, <2>13, SweepSteps
<1>5. CASE ~IsActive(rows[n])
  <2>1. prod' = [prod EXCEPT !.todo = todo] /\ UNCHANGED <<Tasks, Outputs>>
    BY <1>1, <1>5 DEF CancelOwned
  <2>2. TableMoves /\ Fresh = {} /\ Same
    BY <2>1, StillMoves
  <2>3. todo = prod.todo \ {n}
    OBVIOUS
  <2> HIDE DEF todo
  <2>4. /\ prod' \in ProdRecs /\ prod'.pc = "sweep" /\ prod'.known = prod.known
        /\ prod'.kind = prod.kind /\ prod'.hit = prod.hit /\ prod'.todo = todo
        /\ prod'.late = prod.late /\ prod'.missed = prod.missed
        /\ prod'.unlisted = prod.unlisted
    BY <1>1, <1>2, <1>3, <2>1 DEF ProdRecs
  <2>5. \A i \in DOMAIN run : Working(i) => run[i].node # n
    BY <1>5, Parts, Table DEF RunsOwned, Working, IsActive
  <2>6. SweepFits'
    BY <1>1, <2>2, <2>3, <2>4, <2>5, Parts DEF SweepFits, Same, Working
  <2>7. SharedSpared'
    BY <2>2, <2>4, Parts DEF SharedSpared, Same
  <2> QED
    BY <1>1, <1>2, <2>2, <2>4, <2>6, <2>7, SweepSteps
<1> QED
  BY <1>4, <1>5

(* The cancellation of a listed task meets an error.                       *)
LEMMA CancelOwnedFailsKeeps ==
  ASSUME WorkflowInv, NEW n \in Nodes, CancelOwnedFails(n)
  PROVE  WorkflowInv'
<1> DEFINE todo == prod.todo \ {n}
           missed == prod.missed \cup {n}
<1>1. /\ prod.pc = "sweep" /\ wf' = wf /\ TableMoves /\ Fresh = {} /\ Same
      /\ prod' = [prod EXCEPT !.todo = todo, !.missed = missed]
  BY StillMoves DEF CancelOwnedFails
<1>2. prod \in ProdRecs /\ prod.hit \subseteq DOMAIN run /\ todo \in SUBSET Nodes
      /\ todo \subseteq prod.todo /\ missed \in SUBSET Nodes
      /\ prod.todo \cup prod.missed \subseteq todo \cup missed
  BY Parts DEF ProdRecs
<1> HIDE DEF todo, missed
<1>3. /\ prod' \in ProdRecs /\ prod'.pc = "sweep" /\ prod'.known = prod.known
      /\ prod'.kind = prod.kind /\ prod'.hit = prod.hit /\ prod'.todo = todo /\ prod'.missed = missed
      /\ prod'.late = prod.late /\ prod'.unlisted = prod.unlisted
  BY <1>1, <1>2 DEF ProdRecs
<1>4. SweepFits'
  BY <1>1, <1>2, <1>3, Parts DEF SweepFits, Same, Working
<1>5. SharedSpared'
  BY <1>1, <1>3, Parts DEF SharedSpared, Same
<1> QED
  BY <1>1, <1>2, <1>3, <1>4, <1>5, SweepSteps

(* All listed tasks have been visited.                                     *)
LEMMA RaiseKeeps ==
  ASSUME WorkflowInv, Raise
  PROVE  WorkflowInv'
<1>1. /\ prod.pc = "sweep" /\ prod.todo = {} /\ wf' = wf /\ TableMoves /\ Fresh = {} /\ Same
      /\ prod' = [prod EXCEPT !.pc = "failed"]
  BY StillMoves DEF Raise
<1>2. prod \in ProdRecs /\ prod.hit \subseteq DOMAIN run
  BY Parts
<1>3. /\ prod' \in ProdRecs /\ prod'.pc = "failed" /\ prod'.known = prod.known
      /\ prod'.kind = prod.kind /\ prod'.hit = prod.hit /\ prod'.todo = {}
      /\ prod'.late = prod.late /\ prod'.missed = prod.missed /\ prod'.unlisted = prod.unlisted
  BY <1>1, <1>2 DEF ProdRecs, Settled
<1>4. SweepFits'
  BY <1>1, <1>3, Parts DEF SweepFits, Same, Working
<1>5. SharedSpared'
  BY <1>1, <1>3, Parts DEF SharedSpared, Same
<1> QED
  BY <1>1, <1>2, <1>3, <1>4, <1>5, SweepSteps

(* The sweep is cut: what is listed and not yet visited stays.             *)
LEMMA CutSweepKeeps ==
  ASSUME WorkflowInv, CutSweep
  PROVE  WorkflowInv'
<1>1. /\ prod.pc = "sweep" /\ wf' = wf /\ TableMoves /\ Fresh = {} /\ Same
      /\ prod' = [prod EXCEPT !.pc = "failed", !.watching = FALSE]
  BY StillMoves DEF CutSweep
<1>2. prod \in ProdRecs /\ prod.hit \subseteq DOMAIN run
  BY Parts
<1>3. /\ prod' \in ProdRecs /\ prod'.pc = "failed" /\ prod'.known = prod.known
      /\ prod'.kind = prod.kind /\ prod'.hit = prod.hit /\ prod'.todo = prod.todo
      /\ prod'.late = prod.late /\ prod'.missed = prod.missed /\ prod'.unlisted = prod.unlisted
  BY <1>1, <1>2 DEF ProdRecs, Settled
<1>4. SweepFits'
  BY <1>1, <1>3, Parts DEF SweepFits, Same, Working
<1>5. SharedSpared'
  BY <1>1, <1>3, Parts DEF SharedSpared, Same
<1> QED
  BY <1>1, <1>2, <1>3, <1>4, <1>5, SweepSteps

----------------------------------------------------------------------------

(* The past of a project that a workflow finds.                            *)
LEMMA StartTable ==
  ASSUME NEW s \in Starts, InitFrom(s)
  PROVE  /\ RowsTyped /\ RunsOwned /\ TimesGrow /\ OutputsTyped
         /\ \A i \in DOMAIN run : ~Working(i)
<1>1. /\ IsPast(s.past) /\ run = s.past /\ planned = s.planned /\ out = s.out /\ exact = s.exact
      /\ OutputsTyped
  BY ScriptAssumption DEF ScriptAssumption, InitFrom, OutputsTyped
<1>2. /\ run \in Seq(Run) /\ Len(run) <= MaxRuns /\ DOMAIN run = 1..Len(run) /\ Len(run) \in Nat
      /\ \A i \in DOMAIN run :
           /\ run[i].by = "past" /\ run[i].st = "completed" /\ run[i].at \in 1..Len(run)
           /\ \A j \in DOMAIN run : run[i].node = run[j].node \/ run[i].at = run[j].at => i = j
  BY <1>1 DEF IsPast
<1>3. rows = [n \in Nodes |-> IF \E i \in DOMAIN run : run[i].node = n
                              THEN CHOOSE i \in DOMAIN run : run[i].node = n
                              ELSE 0]
  BY <1>1 DEF InitFrom
<1>4. \A n \in Nodes : /\ rows[n] = 0 \/ rows[n] \in DOMAIN run
                       /\ rows[n] # 0 => run[rows[n]].node = n
  <2> SUFFICES ASSUME NEW n \in Nodes
               PROVE  rows[n] = 0 \/ (rows[n] \in DOMAIN run /\ run[rows[n]].node = n)
    OBVIOUS
  <2>1. CASE \E i \in DOMAIN run : run[i].node = n
    <3>1. rows[n] = CHOOSE i \in DOMAIN run : run[i].node = n
      BY <1>3, <2>1
    <3> QED
      BY <2>1, <3>1
  <2>2. CASE ~\E i \in DOMAIN run : run[i].node = n
    BY <1>3, <2>2
  <2> QED
    BY <2>1, <2>2
<1>5. rows \in [Nodes -> 0..Len(run)]
  <2>1. \A n \in Nodes : rows[n] \in 0..Len(run)
    BY <1>2, <1>4
  <2> QED
    BY <1>3, <2>1
<1>6. RowsTyped
  BY <1>2, <1>4, <1>5 DEF RowsTyped
<1>7. \A i \in DOMAIN run : ~Working(i)
  BY <1>2 DEF Working
<1>8. RunsOwned
  BY <1>2, <1>7 DEF RunsOwned
<1>9. CompletedRuns = 1..Len(run)
  BY <1>2 DEF CompletedRuns, Completed
<1>10. Cardinality(CompletedRuns) = Len(run)
  BY <1>2, <1>9, FS_Interval
<1>11. TimesGrow
  BY <1>2, <1>9, <1>10 DEF TimesGrow
<1> QED
  BY <1>1, <1>6, <1>7, <1>8, <1>11

(* The invariant holds at first,                                           *)
LEMMA StartHolds ==
  ASSUME ProductionInit
  PROVE  WorkflowInv
<1>1. PICK s \in Starts :
        /\ InitFrom(s)
        /\ prod = [kind |-> s.kind, pc |-> "script", stage |-> 0, todo |-> {},
                   known |-> 0, hit |-> {}, late |-> {}, missed |-> {},
                   watching |-> TRUE, unlisted |-> FALSE]
  BY DEF ProductionInit
<1>2. /\ RowsTyped /\ RunsOwned /\ TimesGrow /\ OutputsTyped
      /\ \A i \in DOMAIN run : ~Working(i)
  BY <1>1, StartTable
<1>3. /\ s.kind \in {"script", "production"} /\ Len(Jobs) \in Nat /\ Rebuild \in BOOLEAN
      /\ MaxRuns \in Nat /\ Len(run) \in Nat
  BY <1>1, <1>2, Table, ChildrenAssumption, ScriptAssumption, ProductionAssumption
     DEF ChildrenAssumption, ScriptAssumption, ProductionAssumption
<1>4. wf = [pc |-> "list", seen |-> NothingSeen, phase |-> AllIdle, ticket |-> NoTickets,
            episodes |-> {}, force |-> Rebuild, rounds |-> 0, gaveUp |-> {}]
  BY <1>1 DEF InitFrom
<1>5. /\ NothingSeen \in [Nodes -> SeenTasks] /\ AllIdle \in [Nodes -> Phases]
      /\ NoTickets \in [Nodes -> 0..MaxRuns] /\ NoTickets \in [Nodes -> 0..Len(run)]
      /\ \A n \in Nodes : AllIdle[n] = "idle"
  BY <1>3 DEF NothingSeen, NoTask, SeenTasks, AllIdle, NoTickets, Phases
<1>6. wf \in WfRecs
  BY <1>3, <1>4, <1>5 DEF WfRecs
<1>7. prod \in ProdRecs
  BY <1>1, <1>3 DEF ProdRecs
<1>8. /\ wf.pc = "list" /\ wf.phase = AllIdle /\ wf.ticket = NoTickets /\ wf.gaveUp = {}
      /\ prod.pc = "script" /\ prod.todo = {} /\ prod.hit = {} /\ prod.late = {} /\ prod.known = 0
  BY <1>1, <1>4
<1>9. Typed
  BY <1>2, <1>3, <1>5, <1>6, <1>7, <1>8 DEF Typed
<1>10. PhasesFit
  BY <1>5, <1>8 DEF PhasesFit
<1>11. OwnAwaited /\ ListingHolds /\ StartsReady /\ SweepFits
  BY <1>2, <1>8 DEF OwnAwaited, OwnScriptRun, ListingHolds, StartsReady, SweepFits
<1>12. OwnRunCounts /\ SuccessIsCurrent /\ SharedSpared
  BY <1>5, <1>8 DEF OwnRunCounts, SuccessIsCurrent, SharedSpared
<1> QED
  BY <1>2, <1>9, <1>10, <1>11, <1>12 DEF WorkflowInv

(* The steps of the production workflow.                                   *)
LEMMA ProductionKeeps ==
  ASSUME WorkflowInv, Production
  PROVE  WorkflowInv'
BY NextStageKeeps, BreaksKeeps, ListOwnedKeeps, ListFailsKeeps, RaiseKeeps, StartJobKeeps,
   StartJobFailsKeeps, PollJobKeeps, CancelOwnedKeeps, CancelOwnedFailsKeeps DEF Production

(* and every step keeps it.                                                *)
LEMMA NextKeeps ==
  ASSUME WorkflowInv, [Next]_vars
  PROVE  WorkflowInv'
<1>1. CASE Executor /\ ScriptRuns
  BY <1>1, ExecutorKeeps
<1>2. CASE CancelWorkflow /\ prod.kind = "script" /\ ScriptRuns
  BY <1>2, CancelKeeps DEF ScriptRuns
<1>3. CASE CancelProduction \/ CutSweep
  BY <1>3, CancelProductionKeeps, CutSweepKeeps
<1>4. CASE Production
  BY <1>4, ProductionKeeps
<1>5. CASE Children /\ UNCHANGED prod /\ ~WorkflowOver
  BY <1>5, ChildrenKeep
<1>6. CASE Users /\ UNCHANGED prod /\ ~WorkflowOver
  BY <1>6, UsersKeep
<1>7. CASE UNCHANGED vars
  <2>1. UNCHANGED <<Tasks, Outputs>> /\ UNCHANGED <<wf, prod>>
    BY <1>7 DEF vars, Tasks, Outputs
  <2> QED
    BY <2>1, StillMoves, OthersKeep
<1> QED
  BY <1>1, <1>2, <1>3, <1>4, <1>5, <1>6, <1>7 DEF Next

(* The inductive invariant: what the executors may rely on between two of  *)
(* their awaits, while children end and users submit, cancel and clear     *)
(* (ScriptWorkflowExecutor.execute, the production workflow's runner and   *)
(* _cancel_owned_child_tasks).                                             *)
THEOREM WorkflowInvariant == Spec => []WorkflowInv
<1>1. ProductionInit => WorkflowInv
  BY StartHolds
<1>2. WorkflowInv /\ [Next]_vars => WorkflowInv'
  BY NextKeeps
<1> QED
  BY <1>1, <1>2, PTL DEF Spec

(* Every variable has its type.                                            *)
THEOREM WorkflowTypes == Spec => []ProductionTypeOK
<1>1. WorkflowInv => ProductionTypeOK
  <2> SUFFICES ASSUME WorkflowInv PROVE ProductionTypeOK
    OBVIOUS
  <2>1. rows \in [Nodes -> 0..MaxRuns]
    BY Parts, Table, ChildrenAssumption DEF RowsTyped, ChildrenAssumption
  <2>2. TypeOK
    BY <2>1, Parts, Table DEF TypeOK, OutputsTyped, WfRecs
  <2> QED
    BY <2>2, Parts DEF ProductionTypeOK, ProdRecs
<1> QED
  BY <1>1, WorkflowInvariant, PTL

(* A node counts as done only when the very run the workflow started or    *)
(* joined completed: not a later run under its key, nor a row that was     *)
(* cleared (wait of both runtimes).                                        *)
THEOREM OwnRunsCount == Spec => []OwnRunCounts
<1>1. WorkflowInv => OwnRunCounts
  BY DEF WorkflowInv
<1> QED
  BY <1>1, WorkflowInvariant, PTL

(* A script workflow that ends by itself leaves no run of its own working, *)
(* but at nodes whose start or wait it gave up                             *)
(* (ScriptWorkflowExecutor.execute).                                       *)
THEOREM NoRunLeft == Spec => []NothingLeftRunning
<1>1. WorkflowInv => NothingLeftRunning
  <2> SUFFICES ASSUME WorkflowInv, wf.pc \in {"done", "blocked", "failed"},
                      NEW i \in DOMAIN run, run[i].by = "workflow",
                      run[i].node \in PlanNodes \ wf.gaveUp,
                      IsActive(i)
               PROVE  FALSE
    BY DEF NothingLeftRunning
  <2>1. OwnScriptRun(i)
    BY DEF OwnScriptRun, Working, IsActive, PlanNodes
  <2> QED
    BY <2>1, Parts DEF OwnAwaited
<1> QED
  BY <1>1, WorkflowInvariant, PTL

(* When the script workflow succeeds every selected episode has its        *)
(* script, that of a "through" workflow its plans as well, and no          *)
(* completed plan of anybody but a user is newer than the script           *)
(* (build_script_workflow_plan, the snapshot's stale check).               *)
THEOREM SuccessCurrent == Spec => []SuccessIsCurrent
<1>1. WorkflowInv => SuccessIsCurrent
  BY DEF WorkflowInv
<1> QED
  BY <1>1, WorkflowInvariant, PTL

(* A production workflow that failed or was cancelled, and could list the  *)
(* tasks, has a run of its own working only when it was started after the  *)
(* listing, or when the sweep met an error at its node or was cut before   *)
(* it came to it (_cancel_owned_child_tasks, await_with_cancel_watch).     *)
THEOREM FailureSweeps == Spec => []FailureSweepsOwn
<1>1. WorkflowInv => FailureSweepsOwn
  BY Parts DEF FailureSweepsOwn, OwnRunning, SweepFits, IsActive, Working
<1> QED
  BY <1>1, WorkflowInvariant, PTL

(* A run that somebody else had submitted when the tasks were listed is    *)
(* not cancelled (_cancel_owned_child_tasks).                              *)
THEOREM SharedAreSpared == Spec => []SharedSpared
<1>1. WorkflowInv => SharedSpared
  BY DEF WorkflowInv
<1> QED
  BY <1>1, WorkflowInvariant, PTL

(* A step that leaves the rows to the runs they had submits nothing.       *)
LEMMA OldRows ==
  ASSUME WorkflowInv, NEW n \in Nodes, rows'[n] \in {rows[n], 0}
  PROVE  ~(rows'[n] > Len(run))
<1>1. rows[n] \in 0..Len(run) /\ Len(run) \in Nat
  BY Parts, Table DEF RowsTyped
<1> QED
  BY <1>1

(* A run that the workflow submits has the inputs it is made from.         *)
LEMMA SubmitsReady ==
  ASSUME WorkflowInv, Next, NEW n \in PlanNodes,
         rows'[n] > Len(run), run'[rows'[n]].by = "workflow",
         n \notin Shared
  PROVE  InputsExist(n)
<1>1. n \in Nodes /\ n[1] \in Stages
  BY DEF PlanNodes
<1>2. ASSUME NEW m \in Nodes, wf.phase[m] = "starting", Submit(m, "workflow"), UNCHANGED Outputs,
             wf.pc \in {"run", "cancelled"} \/ prod.pc # "script"
      PROVE  InputsExist(n)
  <2>1. Submitted(m, "workflow")
    BY <1>2, SubmitMoves
  <2>2. m = n
    BY <1>1, <2>1, OldRows DEF Submitted
  <2>3. wf.pc \in {"run", "cancelled"}
    BY <1>1, <1>2, <2>2, Parts DEF PhasesFit
  <2> QED
    BY <1>1, <1>2, <2>2, <2>3, Parts DEF StartsReady
<1>3. CASE \E m \in Nodes : Start(m) \/ StartLost(m) \/ StartJob(m)
  BY <1>2, <1>3 DEF Start, StartLost, StartJob
<1>4. ASSUME Users, UNCHANGED prod PROVE FALSE
  <2>1. ASSUME NEW m \in Nodes, UserSubmits(m), UNCHANGED <<Outputs, wf>> PROVE FALSE
    <3>1. m \in Shared /\ Submit(m, "user")
      BY <2>1 DEF UserSubmits
    <3>2. TableMoves /\ \A i \in Fresh : run'[i].by = "user"
      BY <2>1, <3>1, SubmitMoves
    <3>3. rows'[n] \in Fresh
      BY <1>1, <3>2, OldRows DEF TableMoves
    <3> QED
      BY <3>2, <3>3
  <2>2. ASSUME NEW m \in Nodes, Clear(m) PROVE FALSE
    BY <1>1, <2>2, Parts, ClearFacts, OldRows
  <2> QED
    BY <1>4, <2>1, <2>2 DEF Users
<1>5. CASE rows' = rows
  BY <1>1, <1>5, OldRows
<1>6. CASE Executor
  BY <1>3, <1>5, <1>6 DEF Executor, ListTasks, ReadFails, TooManyRounds, Plan, EndBatch, Join,
                          StartFails, Poll, WaitBreaks, Tasks
<1>7. CASE CancelWorkflow \/ CancelProduction \/ CutSweep
  BY <1>5, <1>7 DEF CancelWorkflow, CancelProduction, CutSweep, Tasks
<1>8. ASSUME NEW m \in Nodes, StartJobFails(m) PROVE InputsExist(n)
  BY <1>2, <1>5, <1>8 DEF StartJobFails, Tasks
<1>9. CASE Production
  BY <1>3, <1>5, <1>8, <1>9 DEF Production, NextStage, Breaks, ListOwned, ListFails, Raise, PollJob,
                                 CancelOwned, CancelOwnedFails, End, Tasks
<1>10. CASE Children
  BY <1>5, <1>10 DEF Children, ChildMakes, ChildCompletes, ChildFails, End
<1> QED
  BY <1>4, <1>6, <1>7, <1>9, <1>10 DEF Next

(* A node of the script that no user starts is submitted only when the     *)
(* outputs it is made from exist, for a script all its scenes' plans: the  *)
(* graph sees to it (build_script_workflow_plan, _node_status), not the    *)
(* looser check of StartScriptGeneration.                                  *)
THEOREM SubmitsInOrder == Spec => DependenciesFirst
<1>1. WorkflowInv /\ [Next]_vars =>
        [\A n \in PlanNodes :
           /\ rows'[n] > Len(run) /\ run'[rows'[n]].by = "workflow"
           /\ n \notin Shared
           => InputsExist(n)]_<<rows, run, planned, out, menus, exact, wf>>
  BY SubmitsReady DEF vars
<1> QED
  BY <1>1, WorkflowInvariant, PTL DEF Spec, DependenciesFirst
=============================================================================
