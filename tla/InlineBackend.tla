---------------------------- MODULE InlineBackend ----------------------------
(***************************************************************************)
(* The inline task backend (infrastructure/inline_backend.py) on top of    *)
(* the task store: HTTP handlers reserve a row and hand a job to a lane,   *)
(* the lane starts jobs up to its concurrency and queues the rest, a       *)
(* worker thread per started job runs application/                         *)
(* project_task_execution.py, and cancellation, settlement, policy changes *)
(* and restarts run beside them.                                           *)
(*                                                                         *)
(* Who runs where.  The main event loop (0) serves HTTP.  A workflow task  *)
(* runs asyncio.run in its worker thread, so while it runs it has an event *)
(* loop of its own, named by its task id, on which it submits child tasks. *)
(* Code between two awaits of one loop is one step.  The lanes are shared  *)
(* by all loops; the model lets only one loop be inside lane code at a     *)
(* time (the source takes no lock; see README).                            *)
(***************************************************************************)
EXTENDS TaskStore, SequencesExt

CONSTANTS Callers,        \* coroutines of enqueue_project_task
          Cancellers,     \* coroutines of cancel_project_task
          WorkflowKeys,   \* keys whose runner owns an event loop
          Policies,       \* lane policies [conc, queue, lim]
          StartPolicy,    \* StartPolicy[l]: the policy a process starts with
          ManagedLanes,   \* lanes a policy push may change
          NoProject,      \* last_started_project_id before the first start
          FaultPoints,    \* the writes that may meet a busy database
          MaxFaults       \* bound on the kinds of fault in a behaviour

ASSUME BackendAssumption ==
  /\ Keys # {}
  /\ WorkflowKeys \subseteq Keys
  /\ Policies \subseteq [conc : Nat \ {0}, queue : Nat, lim : Limits]
  /\ StartPolicy \in [Lanes -> Policies]
  /\ ManagedLanes \subseteq Lanes
  /\ NoProject \notin Projects
  /\ MaxFaults \in Nat

VARIABLES keyOf,      \* keyOf[id]: the key in the job's envelope
          policy,     \* policy[l]: concurrency, queue limit and limits
          queue,      \* queue[l]: jobs accepted and not started
          active,     \* active[l]: the lane's own count of occupied slots
          lastProject,\* lastProject[l]: last_started_project_id
          drain,      \* the _drain_lane calls in progress, and on which loop
          call,       \* call[c]: an enqueue coroutine
          job,        \* job[id]: where the job's worker thread is
          wrap,       \* wrap[id]: the asyncio task that wraps the thread
          host,       \* host[id]: the loop the wrapper lives on
          loop,       \* loop[id]: the event loop of workflow task id
          outcome,    \* outcome[id]: how a workflow's coroutine ended
          flags,      \* cancellation store: ids with a cancel request
          settle,     \* ids whose escaped failure is being recorded
          cxl,        \* cxl[x]: a cancel coroutine
          faults      \* the writes that met a fault

laneVars == <<policy, queue, active, lastProject, drain>>
backendVars == <<keyOf, laneVars, call, job, wrap, host, loop, outcome, flags,
                 settle, cxl, faults>>
vars == <<storeVars, backendVars>>

Main == 0
Idle == [pc |-> "idle", loop |-> Main, id |-> 0]
NoDrain == [loop |-> Main, lanes |-> {}]

Lane(id) == LaneOf[keyOf[id]]
Project(id) == ProjectOf[keyOf[id]]

LanesFree == drain.lanes = {}

(* The job's thread has ended, or it never had one.                        *)
ThreadOver(id) == job[id] \in {"returned", "escaped", "skipped"}

LoopUp(lp) == lp \in {Main} \cup {i \in TaskIds : loop[i] # "closed"}

(* A write at point p meets a busy database and raises.                    *)
Fault(p) == /\ p \in FaultPoints
            /\ Cardinality(faults) < MaxFaults
            /\ faults' = faults \cup {p}
            /\ UNCHANGED storeVars

BackendInit ==
  /\ Init
  /\ keyOf = [i \in TaskIds |-> CHOOSE k \in Keys : TRUE]
  /\ policy = StartPolicy
  /\ queue = [l \in Lanes |-> <<>>]
  /\ active = [l \in Lanes |-> 0]
  /\ lastProject = [l \in Lanes |-> NoProject]
  /\ drain = NoDrain
  /\ call = [c \in Callers |-> Idle]
  /\ job = [i \in TaskIds |-> "none"]
  /\ wrap = [i \in TaskIds |-> "none"]
  /\ host = [i \in TaskIds |-> Main]
  /\ loop = [i \in TaskIds |-> "closed"]
  /\ outcome = [i \in TaskIds |-> "none"]
  /\ flags = {}
  /\ settle = {}
  /\ cxl = [x \in Cancellers |-> Idle]
  /\ faults = {}

----------------------------------------------------------------------------
(* Lanes.                                                                  *)

(* _start_lane_job: take a slot and create the wrapper on loop lp.         *)
Start(id, lp) ==
  /\ active' = [active EXCEPT ![Lane(id)] = @ + 1]
  /\ lastProject' = [lastProject EXCEPT ![Lane(id)] = Project(id)]
  /\ job' = [job EXCEPT ![id] = "starting"]
  /\ wrap' = [wrap EXCEPT ![id] = "waiting"]
  /\ host' = [host EXCEPT ![id] = lp]

(* _pop_next_lane_job: the first job of another project than the last one  *)
(* started, else the head.                                                 *)
PopIndex(l) ==
  LET other == {i \in DOMAIN queue[l] : Project(queue[l][i]) # lastProject[l]}
  IN  IF other = {} THEN 1 ELSE Min(other)

(* Mutant: the head leaves the queue, whichever job was picked.            *)
DequeueHead(l, i) == Tail(queue[l])

Dequeue(l, i) == RemoveAt(queue[l], i)

(* One turn of _drain_lane's loop, on the loop whose callback called it.   *)
DrainStep(l) ==
  /\ l \in drain.lanes
  /\ IF active[l] < policy[l].conc /\ queue[l] # <<>>
     THEN /\ Start(queue[l][PopIndex(l)], drain.loop)
          /\ queue' = [queue EXCEPT ![l] = Dequeue(l, PopIndex(l))]
          /\ UNCHANGED drain
     ELSE /\ drain' = [drain EXCEPT !.lanes = @ \ {l}]
          /\ UNCHANGED <<queue, active, lastProject, job, wrap, host>>
  /\ UNCHANGED <<storeVars, keyOf, policy, call, loop, outcome, flags, settle, cxl, faults>>

(* configure_execution_policy: new limits for the managed lanes, then each *)
(* is drained.  Lowering a limit stops nothing that was accepted.          *)
Configure(pol) ==
  /\ LanesFree
  /\ policy' = [l \in Lanes |-> IF l \in ManagedLanes THEN pol ELSE policy[l]]
  /\ policy' # policy
  /\ drain' = [loop |-> Main, lanes |-> ManagedLanes]
  /\ UNCHANGED <<storeVars, keyOf, queue, active, lastProject, call, job, wrap, host,
                 loop, outcome, flags, settle, cxl, faults>>

----------------------------------------------------------------------------
(* enqueue_project_task, on the main loop or on a running workflow's loop. *)

EnqueueReserve(c, lp, k, u) ==
  /\ call[c].pc = "idle"
  /\ lp # Main => loop[lp] = "open" /\ k \notin WorkflowKeys
  /\ Reserve(k, u, policy[LaneOf[k]].lim)
  /\ keyOf' = [keyOf EXCEPT ![nextId] = k]
  /\ call' = [call EXCEPT ![c] = [pc |-> "reserved", loop |-> lp, id |-> nextId]]
  /\ UNCHANGED <<laneVars, job, wrap, host, loop, outcome, flags, settle, cxl, faults>>

(* The row is marked queued; a failure here leaves it as it is.            *)
EnqueueMark(c) ==
  LET id == call[c].id
  IN  /\ call[c].pc = "reserved"
      /\ \/ /\ Progress(keyOf[id], id, "queued", FALSE)
            /\ call' = [call EXCEPT ![c].pc = "marked"]
            /\ UNCHANGED faults
         \/ /\ Fault("mark")
            /\ call' = [call EXCEPT ![c] = Idle]
      /\ UNCHANGED <<keyOf, laneVars, job, wrap, host, loop, outcome, flags, settle, cxl>>

(* _submit_lane_job.  The job is not checked for cancellation here.        *)
EnqueueSubmit(c) ==
  LET id == call[c].id
      l  == Lane(id)
  IN  /\ call[c].pc = "marked"
      /\ LanesFree
      /\ \/ /\ active[l] < policy[l].conc
            /\ Start(id, call[c].loop)
            /\ call' = [call EXCEPT ![c] = Idle]
            /\ UNCHANGED queue
         \/ /\ active[l] >= policy[l].conc
            /\ Len(queue[l]) < policy[l].queue
            /\ queue' = [queue EXCEPT ![l] = Append(@, id)]
            /\ job' = [job EXCEPT ![id] = "queued"]
            /\ call' = [call EXCEPT ![c] = Idle]
            /\ UNCHANGED <<active, lastProject, wrap, host>>
         \/ /\ active[l] >= policy[l].conc
            /\ Len(queue[l]) >= policy[l].queue
            /\ call' = [call EXCEPT ![c].pc = "full"]
            /\ UNCHANGED <<queue, active, lastProject, job, wrap, host>>
      /\ UNCHANGED <<storeVars, keyOf, policy, drain, loop, outcome, flags, settle, cxl, faults>>

(* The lane is full: fail the row, then raise GlobalLaneQueueLimitExceeded. *)
EnqueueFull(c) ==
  LET id == call[c].id
  IN  /\ call[c].pc = "full"
      /\ \/ Fail(keyOf[id], id) /\ UNCHANGED faults
         \/ Fault("full")
      /\ call' = [call EXCEPT ![c] = Idle]
      /\ UNCHANGED <<keyOf, laneVars, job, wrap, host, loop, outcome, flags, settle, cxl>>

(* A workflow's coroutine ended while a submission of its own was between  *)
(* two awaits: the submission is cancelled with it.                        *)
EnqueueAborted(c) ==
  /\ call[c].pc \in {"reserved", "marked"}
  /\ call[c].loop # Main
  /\ loop[call[c].loop] = "closing"
  /\ call' = [call EXCEPT ![c] = Idle]
  /\ UNCHANGED <<storeVars, keyOf, laneVars, job, wrap, host, loop, outcome, flags,
                 settle, cxl, faults>>

----------------------------------------------------------------------------
(* The wrapper's first step hands the job to the lane's thread pool; a     *)
(* wrapper cancelled before it never does.                                 *)
FirstStep(id) ==
  /\ job[id] = "starting"
  /\ LoopUp(host[id])
  /\ job' = [job EXCEPT ![id] = IF wrap[id] = "waiting" THEN "check" ELSE "skipped"]
  /\ UNCHANGED <<storeVars, keyOf, laneVars, call, wrap, host, loop, outcome, flags,
                 settle, cxl, faults>>

(* execute_project_task_sync, in the worker thread.                        *)
CheckCancel(id) ==
  /\ job[id] = "check"
  /\ job' = [job EXCEPT ![id] = IF id \in flags THEN "cancel" ELSE "begin"]
  /\ UNCHANGED <<storeVars, keyOf, laneVars, call, wrap, host, loop, outcome, flags,
                 settle, cxl, faults>>

(* The first progress write, then the runner.  The write is ignored on a   *)
(* row that is no longer this run's, but the runner starts all the same.   *)
Begin(id) ==
  /\ job[id] = "begin"
  /\ \/ /\ Progress(keyOf[id], id, "running", FALSE)
        /\ job' = [job EXCEPT ![id] = "run"]
        /\ loop' = IF keyOf[id] \in WorkflowKeys
                   THEN [loop EXCEPT ![id] = "open"] ELSE loop
        /\ UNCHANGED faults
     \/ /\ Fault("begin")
        /\ job' = [job EXCEPT ![id] = "escaped"]
        /\ UNCHANGED loop
  /\ UNCHANGED <<keyOf, laneVars, call, wrap, host, outcome, flags, settle, cxl>>

(* The runner reports progress; some report 100% and "done" before they    *)
(* return.                                                                 *)
Report(id) ==
  /\ job[id] = "run"
  /\ \E done \in BOOLEAN : Progress(keyOf[id], id, "running", done)
  /\ UNCHANGED backendVars

(* How a runner may end: it returns; it raises an error that is handled    *)
(* (fail) or re-raised (raise); something that is not an Exception, or the *)
(* loader, escapes; a cancel checkpoint raises TaskCancelled.              *)
Ends(id) == {"complete", "fail", "raise", "escaped"}
              \cup (IF id \in flags THEN {"cancel"} ELSE {})

EndRun(id) ==
  /\ job[id] = "run"
  /\ keyOf[id] \notin WorkflowKeys
  /\ \E e \in Ends(id) : job' = [job EXCEPT ![id] = e]
  /\ UNCHANGED <<storeVars, keyOf, laneVars, call, wrap, host, loop, outcome, flags,
                 settle, cxl, faults>>

(* asyncio.run is leaving a workflow's loop: it cancels every task of the  *)
(* loop, so each wrapper hosted there gets a CancelledError.               *)
EndWorkflow(id) ==
  /\ job[id] = "run"
  /\ keyOf[id] \in WorkflowKeys
  /\ \E e \in Ends(id) : outcome' = [outcome EXCEPT ![id] = e]
  /\ job' = [job EXCEPT ![id] = "closing"]
  /\ loop' = [loop EXCEPT ![id] = "closing"]
  /\ wrap' = [i \in TaskIds |->
                IF host[i] = id /\ wrap[i] = "waiting" THEN "cancelled" ELSE wrap[i]]
  /\ UNCHANGED <<storeVars, keyOf, laneVars, call, host, flags, settle, cxl, faults>>

(* The loop closes once every task it cancelled is done (each one waits    *)
(* for its thread) and no submission of its own is left.  A wrapper that a *)
(* done callback created meanwhile dies with the loop.                     *)
CloseLoop(id) ==
  /\ job[id] = "closing"
  /\ LanesFree
  /\ \A i \in TaskIds : host[i] = id => wrap[i] # "cancelled" /\ job[i] # "starting"
  /\ \A c \in Callers : call[c].loop = id => call[c].pc \in {"idle", "full"}
  /\ loop' = [loop EXCEPT ![id] = "closed"]
  /\ wrap' = [i \in TaskIds |->
                IF host[i] = id /\ wrap[i] = "waiting" THEN "lost" ELSE wrap[i]]
  /\ job' = [job EXCEPT ![id] = outcome[id]]
  /\ UNCHANGED <<storeVars, keyOf, laneVars, call, host, outcome, flags, settle, cxl, faults>>

(* The worker's last write.  After it the run contexts are torn down, and  *)
(* that may raise too.                                                     *)
Finish(id) ==
  /\ \/ /\ job[id] = "complete"
        /\ \/ /\ Complete(keyOf[id], id)
              /\ job' \in {[job EXCEPT ![id] = e] : e \in {"returned", "escaped"}}
              /\ UNCHANGED faults
           \/ Fault("complete") /\ job' = [job EXCEPT ![id] = "escaped"]
     \/ /\ job[id] \in {"fail", "raise"}
        /\ \/ /\ Fail(keyOf[id], id)
              /\ job' = [job EXCEPT ![id] = IF @ = "fail" THEN "returned" ELSE "escaped"]
              /\ UNCHANGED faults
           \/ Fault("fail") /\ job' = [job EXCEPT ![id] = "escaped"]
     \/ /\ job[id] = "cancel"
        /\ \/ /\ Cancel(keyOf[id], id)
              /\ job' = [job EXCEPT ![id] = "returned"]
              /\ UNCHANGED faults
           \/ Fault("cancelled") /\ job' = [job EXCEPT ![id] = "escaped"]
  /\ UNCHANGED <<keyOf, laneVars, call, wrap, host, loop, outcome, flags, settle, cxl>>

----------------------------------------------------------------------------
(* _on_background_task_done, on the wrapper's loop: release the slot,      *)
(* schedule a settlement if the wrapper was cancelled or the thread        *)
(* raised, and drain the lane.  The shield keeps a cancelled wrapper       *)
(* waiting for its thread.                                                 *)

(* Mutants: the wrapper does not wait for its thread when it is cancelled; *)
(* an exception skips the release; only a cancelled wrapper is settled.    *)
WrapperEndsUnshielded(id) ==
  job[id] \in {"returned", "escaped", "skipped"} \/ wrap[id] = "cancelled"

NeedsSettlementCancelledOnly(id) == wrap[id] = "cancelled"

WrapperEndsOnReturnOnly(id) == job[id] = "returned"

WrapperEnds(id) == ThreadOver(id)

NeedsSettlement(id) == wrap[id] = "cancelled" \/ job[id] = "escaped"

(* Mutant: the callback returns without draining the lane.                 *)
DrainAfterNone(id) == NoDrain

DrainAfter(id) == [loop |-> host[id], lanes |-> {Lane(id)}]

DoneCallback(id) ==
  /\ wrap[id] \in {"waiting", "cancelled"}
  /\ WrapperEnds(id)
  /\ LoopUp(host[id])
  /\ LanesFree
  /\ active' = [active EXCEPT ![Lane(id)] = IF @ > 0 THEN @ - 1 ELSE 0]
  /\ wrap' = [wrap EXCEPT ![id] = "done"]
  /\ settle' = IF NeedsSettlement(id) THEN settle \cup {id} ELSE settle
  /\ drain' = DrainAfter(id)
  /\ UNCHANGED <<storeVars, keyOf, policy, queue, lastProject, call, job, host, loop,
                 outcome, flags, cxl, faults>>

(* _settle_escaped_task: fail the row if it is still this run's and still  *)
(* active; an error here is only logged.  (Its own read of the row decides *)
(* nothing that the guarded write does not decide again.)                  *)
Settle(id) ==
  /\ id \in settle
  /\ \/ Fail(keyOf[id], id) /\ UNCHANGED faults
     \/ Fault("settle")
  /\ settle' = settle \ {id}
  /\ UNCHANGED <<keyOf, laneVars, call, job, wrap, host, loop, outcome, flags, cxl>>

----------------------------------------------------------------------------
(* cancel_project_task: read the row, raise the flag and take the job out  *)
(* of its queue; then, after the call that cancels model invocations       *)
(* returns (whatever it answers), write the row.                           *)
CancelRequest(x, k) ==
  LET id == rows[k].id
  IN  /\ cxl[x].pc \in {"idle", "acked"}
      /\ LanesFree
      /\ Connected(k)
      /\ rows[k] # NoRow
      /\ ~rows[k].expired
      /\ cxl' = [cxl EXCEPT ![x] = [pc |-> "flagged", loop |-> Main, id |-> id]]
      /\ flags' = flags \cup {id}
      /\ queue' = [l \in Lanes |-> RemoveFirst(queue[l], id)]
      /\ job' = [job EXCEPT ![id] = IF @ = "queued" THEN "removed" ELSE @]
      /\ UNCHANGED <<storeVars, keyOf, policy, active, lastProject, drain, call, wrap,
                     host, loop, outcome, settle, faults>>

CancelWrite(x) ==
  LET id == cxl[x].id
  IN  /\ cxl[x].pc = "flagged"
      /\ \/ /\ Cancel(keyOf[id], id)
            /\ cxl' = [cxl EXCEPT ![x].pc = "acked"]
            /\ UNCHANGED faults
         \/ Fault("cancel") /\ cxl' = [cxl EXCEPT ![x] = Idle]
      /\ UNCHANGED <<keyOf, laneVars, call, job, wrap, host, loop, outcome, flags, settle>>

----------------------------------------------------------------------------
(* The process ends: rows survive, everything in memory is gone.           *)
BackendRestart ==
  /\ Restart
  /\ policy' = StartPolicy
  /\ queue' = [l \in Lanes |-> <<>>]
  /\ active' = [l \in Lanes |-> 0]
  /\ lastProject' = [l \in Lanes |-> NoProject]
  /\ drain' = NoDrain
  /\ call' = [c \in Callers |-> Idle]
  /\ job' = [i \in TaskIds |-> "none"]
  /\ wrap' = [i \in TaskIds |-> "none"]
  /\ host' = [i \in TaskIds |-> Main]
  /\ loop' = [i \in TaskIds |-> "closed"]
  /\ outcome' = [i \in TaskIds |-> "none"]
  /\ flags' = {}
  /\ settle' = {}
  /\ cxl' = [x \in Cancellers |-> Idle]
  /\ UNCHANGED <<keyOf, faults>>

StoreOnly ==
  /\ \/ \E p \in Projects : Sweep(p) \/ (SweepFails(p) /\ "sweep" \in FaultPoints)
     \/ \E k \in Keys : Expire(k)
     \/ \E r \in Readers : \/ DeleteSeen(r)
                           \/ \E k \in Keys : SeeExpired(r, k) \/ SeeCompleted(r, k)
  /\ UNCHANGED backendVars

EnqueueStep(c) == EnqueueMark(c) \/ EnqueueSubmit(c) \/ EnqueueFull(c) \/ EnqueueAborted(c)

WorkerStep(id) ==
  \/ FirstStep(id) \/ CheckCancel(id) \/ Begin(id) \/ EndRun(id) \/ EndWorkflow(id)
  \/ CloseLoop(id) \/ Finish(id) \/ DoneCallback(id) \/ Settle(id)

BackendNext ==
  \/ \E c \in Callers, lp \in {Main} \cup TaskIds, k \in Keys, u \in Users :
       EnqueueReserve(c, lp, k, u)
  \/ \E c \in Callers : EnqueueStep(c)
  \/ \E id \in TaskIds : WorkerStep(id) \/ Report(id)
  \/ \E l \in Lanes : DrainStep(l)
  \/ \E pol \in Policies : Configure(pol)
  \/ \E x \in Cancellers : CancelWrite(x) \/ \E k \in Keys : CancelRequest(x, k)
  \/ StoreOnly
  \/ BackendRestart

BackendSpec == BackendInit /\ [][BackendNext]_vars

(* Threads run, loops turn, a coroutine whose await is over is resumed and *)
(* a runner ends (its deadline raises TaskTimedOut at the latest).         *)
Fairness ==
  /\ \A c \in Callers : WF_vars(EnqueueStep(c))
  /\ \A id \in TaskIds : WF_vars(WorkerStep(id)) /\ WF_vars(Settle(id))
  /\ \A l \in Lanes : WF_vars(DrainStep(l))
  /\ \A x \in Cancellers : WF_vars(CancelWrite(x))
  /\ \A p \in Projects : WF_vars(Sweep(p) /\ UNCHANGED backendVars)

FairSpec == BackendSpec /\ Fairness

----------------------------------------------------------------------------
(* Type correctness of the backend and of the store under it.              *)
Steps == {"none", "queued", "removed", "starting", "check", "begin", "run",
          "closing", "complete", "fail", "raise", "cancel",
          "returned", "escaped", "skipped"}

BackendTypeOK ==
  /\ TypeOK
  /\ keyOf \in [TaskIds -> Keys]
  /\ policy \in [Lanes -> Policies]
  /\ queue \in [Lanes -> Seq(TaskIds)]
  /\ active \in [Lanes -> Nat]
  /\ lastProject \in [Lanes -> Projects \cup {NoProject}]
  /\ drain \in [loop : {Main} \cup TaskIds, lanes : SUBSET Lanes]
  /\ call \in [Callers -> [pc : {"idle", "reserved", "marked", "full"},
                           loop : {Main} \cup TaskIds, id : {0} \cup TaskIds]]
  /\ job \in [TaskIds -> Steps]
  /\ wrap \in [TaskIds -> {"none", "waiting", "cancelled", "lost", "done"}]
  /\ host \in [TaskIds -> {Main} \cup TaskIds]
  /\ loop \in [TaskIds -> {"open", "closing", "closed"}]
  /\ outcome \in [TaskIds -> {"none", "complete", "fail", "raise", "cancel", "escaped"}]
  /\ flags \subseteq TaskIds
  /\ settle \subseteq TaskIds
  /\ cxl \in [Cancellers -> [pc : {"idle", "flagged", "acked"},
                             loop : {Main}, id : {0} \cup TaskIds]]
  /\ faults \subseteq FaultPoints

(* Threads of lane l that have been started and are not over, and the      *)
(* wrappers that hold a slot of it.                                        *)
AtWork == {"starting", "check", "begin", "run", "closing", "complete", "fail", "raise", "cancel"}
Slotted == {"waiting", "cancelled", "lost"}

Working(l) == {i \in TaskIds : Lane(i) = l /\ job[i] \in AtWork}
Holding(l) == {i \in TaskIds : Lane(i) = l /\ wrap[i] \in Slotted}

(* A worker thread holds its lane's slot until it has returned, whatever   *)
(* happens to its asyncio wrapper ("keep the lane occupied until that      *)
(* thread has actually returned", _run_inline), and the lane's counter is  *)
(* exactly the number of slots held: cancelled wrappers, closing loops and *)
(* policy changes never let more threads run than the lane counts.         *)
SlotsMatchThreads ==
  \A l \in Lanes : /\ active[l] = Cardinality(Holding(l))
                   /\ Working(l) \subseteq Holding(l)

(* Accepted work never waits beside a free slot: whenever no lane code is  *)
(* running, a lane with a queue is full, after any completion, cancellation*)
(* or policy change ("lowering a limit never cancels or loses accepted     *)
(* work", and raising one starts it).                                      *)
WorkConserving ==
  \A l \in Lanes \ drain.lanes : queue[l] # <<>> => active[l] >= policy[l].conc

(* The queues hold exactly the jobs that are queued, each once, so that a  *)
(* cancel finds its job and no job is started twice.                       *)
QueuesMatchJobs ==
  /\ \A l \in Lanes : \A m, n \in DOMAIN queue[l] : queue[l][m] = queue[l][n] => m = n
  /\ \A i \in TaskIds :
       job[i] = "queued" <=> \E l \in Lanes : \E n \in DOMAIN queue[l] : queue[l][n] = i
  /\ \A l \in Lanes : \A n \in DOMAIN queue[l] : Lane(queue[l][n]) = l

(* While a runner is at work and nobody has asked to cancel it, its key's  *)
(* row is its own and active, so no second run of the same business task   *)
(* can be admitted beside it.  (Where nobody clears rows; see README.)     *)
RunnerOwnsRow ==
  \A i \in TaskIds :
    job[i] \in {"queued", "starting", "check", "begin", "run", "closing"} /\ i \notin flags
      => rows[keyOf[i]].id = i /\ IsActive(keyOf[i])

(* Somebody still has to write the outcome of run id.                      *)
Owned(id) ==
  \/ \E c \in Callers : call[c].pc # "idle" /\ call[c].id = id
  \/ job[id] = "queued"
  \/ wrap[id] \in {"waiting", "cancelled"}
  \/ id \in settle
  \/ \E x \in Cancellers : cxl[x].pc = "flagged" /\ cxl[x].id = id

(* No row is left active by this process without an owner that will finish *)
(* it: such a row "rejects every later task sharing its key until the      *)
(* sidecar restarts" (_settle_escaped_task).  The worker's own writes may   *)
(* all fail; a fault in another write (Unsettled) does leave such a row,   *)
(* and so does a workflow that ends while it is submitting a child.        *)
Unsettled == {"mark", "full", "settle", "cancel"}

NoOrphan ==
  faults \cap Unsettled = {} /\ (\A i \in TaskIds : outcome[i] = "none")
    => \A k \in Keys : IsActive(k) /\ rows[k].boot = boot => Owned(rows[k].id)

(* Once a cancel request has been answered, the run it named stays ended,  *)
(* whatever its thread, its settlement or a restart write later.           *)
CancelSticks ==
  \A x \in Cancellers :
    cxl[x].pc = "acked" =>
      \A k \in Keys : rows[k].id = cxl[x].id => rows[k].status \in TerminalStatuses

(* Every accepted run gets its outcome.                                    *)
EveryRunSettles ==
  \A k \in Keys, i \in TaskIds :
    (rows[k].id = i /\ IsActive(k)) ~> ~(rows[k].id = i /\ IsActive(k))

(* A lane gives its slots back: the slot of a started job is free again    *)
(* once its thread is over (test_l014_inline_task_backend_concurrency).    *)
SlotsReturn ==
  \A i \in TaskIds :
    (i \in Holding(Lane(i)) /\ ThreadOver(i)) ~> i \notin Holding(Lane(i))

(* The lanes as the promise of LanePromise.  A run is new until its        *)
(* submission has handed it over, and runs as long as its thread works or  *)
(* its slot is taken.                                                      *)
StateOf(id) ==
  IF job[id] \in AtWork \/ wrap[id] \in Slotted THEN "running"
  ELSE IF job[id] = "queued" THEN "waiting"
  ELSE IF id >= nextId \/ \E c \in Callers : call[c].pc # "idle" /\ call[c].id = id THEN "new"
  ELSE "over"

Promise == INSTANCE LanePromise WITH
  Jobs <- TaskIds,
  state <- [id \in TaskIds |-> StateOf(id)],
  lane <- [id \in TaskIds |-> Lane(id)],
  limit <- [l \in Lanes |-> policy[l].conc]

(* Whatever is submitted, cancelled, reconfigured or restarted, a run is   *)
(* started at most once and only while fewer runs of its lane are at work  *)
(* than its concurrency allows, never after it was refused, cancelled in   *)
(* the queue or over.                                                      *)
ImplementsPromise == Promise!Spec

=============================================================================
