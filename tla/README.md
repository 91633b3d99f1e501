# AI Anime: TLA+ models, checks and proofs

This directory models the parts of AI Anime (a desktop application: an Electron shell, a local
Python sidecar and a React frontend) whose correctness rests on the order in which concurrent things
happen. Python paths below are relative to `src/ai_anime/modules/`, `TE/` stands for
`task_execution/`, and desktop paths are relative to `desktop/src/`.

## 1. Inventory of the system

| Part | State it keeps | Operations | How it meets the others | What makes it correct |
|---|---|---|---|---|
| Project task store (`TE/infrastructure/task_state.py`) | one SQLite row per task key (type, project, episode, beat, scope), one file per project | reserve, progress, complete, fail, cancel write, expiring reads, clear, restart sweep | every HTTP handler and every worker thread calls it | one live run per key, one outcome per run, limits, no row blocked by a dead process |
| Inline task backend (`TE/infrastructure/inline_backend.py`) | lanes (count, queue, policy), asyncio wrappers, cancellation flags | enqueue, start, drain, done callback, settle, policy change, cancel | HTTP handlers on the main loop, workflow runners on their own loops, worker threads | lane limits, no accepted job lost or run twice, cancel is final, every run ends |
| Worker execution (`TE/application/project_task_execution.py`) | nothing of its own | cancel check, first write, runner, outcome write | runs in a lane's thread, writes the store | the row tells what happened, whatever fails |
| Task commands (`TE/application/project_tasks.py`, `TE/infrastructure/project_tasks.py`) | none | list, get, clear completed, cancel | HTTP on one side, store and backend on the other | deletes only what the caller saw |
| Admission policy (`TE/infrastructure/admission_policy.py`) | the managed policy | effective limits | pushed by the desktop, read at submission | a change loses nothing |
| Cancellation watch, subprocess registry (`TE/application/task_cancellation.py`, `TE/infrastructure/project_subprocesses.py`) | process handles per task | poll flag, deadline, kill tree | worker threads | a runner ends at its deadline or soon after a cancel |
| Script workflow (`narrative_planning/application/script_workflow.py`, `TE/infrastructure/runners/script_workflow.py`) | a graph of nodes rebuilt in every round, tickets of the children it waits for | list, plan, join or start a batch, wait, give up | parent task in a lane; children submitted to the backend from its own event loop; users submit, cancel and clear the same keys | no node started before its inputs exist, no child mistaken for another run, it ends |
| Production workflow (`TE/infrastructure/runners/production_workflow.py`) | stages of jobs around a script workflow | run a stage, fail, list and cancel its own children | as above | a failure leaves nothing of its own working and spares what others started |
| Model invocation proxy and journal (`commercial-model-proxy.ts`, `commercial-model-invocation-store.ts`) | journal of image writes by idempotency key, task tombstones, in-flight map | claim, start, complete, cancel, recover | the sidecar calls it over loopback HTTP; it calls the cloud or the user's own provider | a billed write is sent at most once; a cancel that was answered is true |
| Account session and transport (`commercial-api-transport.ts`, `commercial-api-client.ts`, `commercial-session-store.ts`) | session and remembered login in memory and on disk, the device's licence, the refresh in flight, the session generation | load, refresh, log in again with the remembered password, login, logout, restore, requests that meet a 401 | all cloud calls; the encrypted files | one exchange of a token, no account mixed with another, nothing comes back after a sign-out, disk and memory agree |
| Offline lease (`commercial-lease.ts`) | a signed lease, clock marks | validate, renew | start-up gate | no use past its end, no clock rollback |
| Task center (`frontend/src/modules/task_execution`) | task list, event stream | connect, reconnect, poll | sidecar's event stream | a finished task is eventually shown finished |
| Canvas documents (`creative_canvas/infrastructure/canvas_store.py`; `frontend/src/modules/creative_canvas`: save, draft, hydration, conflict and unload controllers) | the sidecar's document with its revision and idempotency entries; in the window the document on screen, a save session, two debounces; in browser storage a draft and a conflict snapshot | edit, save, retry, load, resolve or copy a conflict, leave, close | HTTP between the window and the sidecar; other windows and the sidecar itself write the document | no write drops an edit it has not seen, work is not lost by a crash, every edit gets saved |
| Runners of all kinds (`production`, `asset_world`, `creative_canvas`, `knowledge_graph`, `verification`, `ai_assistant`) | files and content | generate, parse, export | tasks of the backend | content, not ordering |
| Shell (`main.ts`, `backend.ts`, `commercial-updater.ts`, `runtime-dependencies.ts`) | child process, downloaded files | spawn, poll, stop, download, verify | starts the sidecar | operating-system behaviour |

**What is hard.** All HTTP handlers share one event loop, so code between two awaits is atomic; but
every store call runs in a thread, a runner is a thread that Python cannot stop, a workflow's runner
is a thread *with an event loop of its own* on which it calls the same backend object, an asyncio
wrapper may be cancelled while its thread works on, any database write may meet a busy database, and
the process may die anywhere. The desktop shell and the window are single-threaded, but everything they
do waits for a disk or for the other process, and what was read before the wait may be stale after it.
`PROJECT.json` lists the hazards at their lines.

## 2. Modules

```
TaskLifecycle            what the store promises            (abstract)
   ^ implements (run store, theorem StoreImplementsLifecycle)
TaskStore                one action per store transaction
   ^ extends; uses it as specified (theorem BackendImplementsStore)
InlineBackend            handlers, lanes, threads, loops, callbacks
LanePromise              what the lanes promise              (abstract)
   ^ implemented by InlineBackend (theorem BackendImplementsPromise) and, for one loop,
   ^ by LaneRace (theorem LaneImplementsPromise)
LaneRace                 the lane's code at the grain of thread switches

WorkflowChildren         a project's task table as a workflow sees it
   ^ extends
ScriptWorkflow           rounds of planning, starting and waiting
   ^ extends
ProductionWorkflow       stages of jobs around a script workflow, and the sweep

ModelInvocation          image writes: proxy, journal, task cancellation
AccountSession           session, refresh, sign-in and sign-out of the desktop
CanvasEditing            one canvas: window, browser storage, network, sidecar
```

`TaskStoreProofs`, `InlineBackendProofs` and `JobProofs` (both about `InlineBackend`), `LaneRaceProofs`,
`WorkflowProofs` (about `ProductionWorkflow`), `InvocationProofs`, `SessionProofs` and `CanvasProofs` hold
the theorems; a module `MC...` gives a model its instance. Definitions named like a mistake (`PickedHead`,
`JoinsNever`, ...) are not used by the models: each is the form a plausible bug would give to the
definition that follows it, and shows that a property notices.

**TaskLifecycle.** A key is a slot for one live run; a run has a fresh name and gets one outcome,
which stays until it is forgotten or the slot is given to the next run.

**TaskStore** (`task_state.py`). `rows` is the table. Each action is one transaction
(`BEGIN IMMEDIATE`): `Reserve`, `Progress`, `Complete`, `Fail`, `Cancel`, `Sweep` and `SweepFails`
(the first connection of a process), and the two reads that delete later on another connection
(`SeeExpired`/`SeeCompleted`, then `DeleteSeen`). `Expire` and `Restart` are the environment. The
module lets any client issue any call with any run id, which is more than the code's callers do.
Abstracted: the row's content; `updated_at`, which is only compared with the process's start, is the
number `boot` of the process that wrote the row; `expires_at` is whether it has passed; the progress
and the text that make an active row *read as* completed are one Boolean, `done`.

**InlineBackend** (`inline_backend.py`, `project_task_execution.py`, `runners/script_workflow.py`).

| Code | Model |
|---|---|
| `enqueue_project_task`, split at its awaits | `EnqueueReserve`, `EnqueueMark`, `EnqueueSubmit`, `EnqueueFull`; `EnqueueAborted` when its loop is leaving |
| `_start_lane_job`, `_pop_next_lane_job`, `_drain_lane` | `Start`, `PopIndex`, `DrainStep` (one turn of the loop; `drain` says which lanes a caller still drains, and no other lane code runs meanwhile) |
| `_run_inline`: hand over to the thread, then shielded waits | `FirstStep`; `WrapperEnds` |
| `execute_project_task_sync` in the thread | `CheckCancel`, `Begin`, `Report`, `EndRun`, `Finish` |
| `asyncio.run` around a workflow | `loop`, `EndWorkflow` (cancels the loop's tasks), `CloseLoop` |
| `_on_background_task_done` | `DoneCallback` |
| `_settle_escaped_task` | `Settle` |
| `cancel_project_task`, split at its await | `CancelRequest`, `CancelWrite` |
| `configure_execution_policy` | `Configure` |
| a write that meets `sqlite3.OperationalError` | `Fault(p)` at each write |
| process death | `BackendRestart` |

`job[id]` is the thread, `wrap[id]` its asyncio wrapper and `host[id]` the loop the wrapper lives on:
they part ways when a wrapper is cancelled, and that is where the mistakes would be. A wrapper that a
callback creates on a loop that is closing becomes `lost`: the loop stops before it ends and its done
callback never runs.

**LanePromise.** A job is new until a lane takes it, then waits, runs and is over, each at most once; it
may be refused or taken back before it runs, never comes back, and starts only while its lane runs fewer
jobs than its limit. Limits change freely, and the process dies with its jobs.

**LaneRace** takes one lane apart at the places where CPython may switch threads (function entry and
return of calls). `InlineBackend` treats a lane operation as one step; `LaneRace` with one loop
confirms that this is right (both keep `LanePromise`), and with two shows what it rests on.

**WorkflowChildren, ScriptWorkflow, ProductionWorkflow.** `rows` holds, for each node's task key, the
number of the run under it, and `run` every run ever accepted with its submitter and outcome. A
workflow sees nothing else of the store, and other clients use the same table (`UserSubmits`,
`Clear`, `ChildFails` for a cancel).

| Code | Model |
|---|---|
| `ScriptWorkflowExecutor.run`: one round | `ListTasks`, `Plan` (reads the outputs, builds the graph from the tasks listed *before*, picks the batch), `ReadFails` (a snapshot or a report raises), `TooManyRounds`, `EndBatch` |
| `_node_status`, `_dependencies`, `_task_status` and the output checks | `NodeStatus`, `Dependencies`, `TaskStatus`, `HasOutput`, `Stale`, `Candidates`, `Batch` |
| start a node, or join a run under its key | `Start`, `StartFails`, `StartLost` (an error after the row is there), `Join` |
| `StartScriptGeneration`'s own check: identities, and a scene menu | `PlansExist` |
| the runtime's wait for a child | `Poll` with `Outcome`, `WaitBreaks` (it times out or a poll raises) |
| cancellation of the parent and its deadline, at any await | `CancelWorkflow`, `CancelProduction`, during the sweep `CutSweep` |
| `_run_jobs`, a stage and its wait | `NextStage`, `StartJob`, `StartJobFails`, `PollJob`, `Breaks` |
| `_cancel_owned_child_tasks` and the re-raise | `ListOwned`, `ListFails`, `CancelOwned`, `CancelOwnedFails`, `Raise` |

An output is there or not, except that a script may have too few beats (`exact`) and an episode a scene
menu that is not yet a scene plan (`menus`: all that `narrative_tasks.py:96` asks for, while the snapshot
counts the node by `scene_plan_readiness.py`). Time is the order in which runs complete. `prod.kind` tells a
script workflow on its own from one inside a production. What a workflow gave up is kept for the
properties: `wf.gaveUp`, the nodes whose start or wait was lost; `prod.late`, the runs that appeared behind
the listing; `prod.missed`, the children whose cancellation met an error; `prod.todo`, those a cut sweep had
not come to; `prod.unlisted`, a listing that raised. `prod.watching` says whether the cancel watch, which
cancels the task once, can still fire.

**ModelInvocation** (`commercial-model-proxy.ts`, `commercial-model-invocation-store.ts`), in the
desktop shell. A request with an idempotency key goes through `Claim` (the journal's claim
and everything up to the next await: refuse, join a running execution, ask about the task, answer from
the record, or execute), `Asked`/`CancelOwn` (requests of a task), `StartRequest`, `Send`, `Reply` and
`Complete`; `StartFails` and `CompleteFails` are journal writes that fail, `Abandon` a session that
changed. A task's cancellation is `CancelTask`, `ListRecords`, `CancelRecord` for each, `AnswerCancel`.
`rec` and `tomb` are the encrypted files and survive `Crash`; `flight` is the in-memory map. `sent` only
grows, so that invariants can count what a provider received.

**AccountSession** (`commercial-api-transport.ts`, `commercial-api-client.ts`). Every operation `p` is a
coroutine, `op[p]`: where it is (`at`), whether it runs or waits for a read, a write, the network or
another's refresh (`st`), and what it keeps across its awaits (session, generation, remembered
login). Node settles promises before it takes the next event, so nothing from outside happens while one
runs (`Quiet`). `Refresh`, `Joins`, `Settle`, `ReloginAnswer` are `refreshSession` and `reauthenticate`
with their in-flight promise; `Replace`, `EndSession`, `Clear`, `SetLogin` are `replaceSession`,
`clearSession` and `persist`; `writes` is the queue of disk writes, `disk` the files, `stale` the files
whose last write failed. `AccountStep` has login and logout, `AskStep` and `AskAnswer` the requests: the
one named "profile" stands for every authenticated endpoint, "model" also needs a licence. Ghosts: `out`,
the tokens that were signed out on disk too, and `cut`, the operations under way when a session ended.

**CanvasEditing.** A document is the set of edits made to it.

| Code | Model |
|---|---|
| an edit, the draft's debounce, the save's debounce | `Edit`, `DraftTimer` (`persistNow`), `SaveTimer`, `RunSave` |
| `saveCanvas` with the HTTP client's retries | `req`, `net`, `SendAgain`, `GiveUp`, `SaveTimedOut`, `RequestLost`, `AnswerLost` |
| the answer in the window | `SaveAccepted`, `SaveRefused`, `SaveFailed` |
| `save_canvas` in the sidecar: entry known, revision fits, write, entry | `SaveCanvas` (`Known`, `RevisionFits`, `Write`, `Tell`); `SaveCanvasCut` dies between document and entry |
| any other writer | `OtherWrites` |
| hydration and what becomes of a draft | `Open`, `LoadCanvas`, `LoadFails`, `Hydrate` (`GoesOn`, `Clashes`) |
| conflict | `Retry`, `SaveCopy`, `CopySaved`, `CopyFails` |
| unmount, `beforeunload`, a killed window | `Leave`, `Close`, `Crash` |

## 3. Runs

| Run | Instance | Shows |
|---|---|---|
| `store` | 2 keys, 3 runs, 2 processes, 1 reader, limit 1 | nothing a dead process left stays active after the sweep (`NoZombieAfterSweep`); `LimitsHeld`; the store implements `TaskLifecycle` |
| `backend` | 4 keys on 2 lanes, 2 submitters, 1 canceller, 3 policies, 2 processes, 2 of 8 fault points, a workflow with its own loop | `RunnerOwnsRow`, `NoOrphan`, `CancelSticks`, `WorkConserving`, `QueuesMatchJobs`, `SlotsMatchThreads`; the lanes implement `LanePromise` (`ImplementsPromise`) |
| `backend_live` | 2 tasks on a lane of 1 + queue of 1, a restart, a cancel, one failing worker write, fair | `EveryRunSettles`, `SlotsReturn` |
| `slot_leak` (violation) | a workflow and two children, fair | `SlotsReturn` fails: a slot lost with a closing loop |
| `lane` | 5 jobs of 2 projects; one loop with concurrency 2, or two loops with concurrency 1 | `AcceptedOnce`: with one loop nothing accepted is lost or started twice, and with two a refused job never runs either; with one loop every step is one of `LanePromise` (`ImplementsPromise`), so no job starts on a full lane (`LimitHeldAlone` follows) |
| `lane_race` (violation) | 5 jobs, 2 loops, concurrency 1 | `ConcurrencyEnforced` fails |
| `workflow` | 1 episode, 8 nodes, 2 of them also the user's, 4 runs, 3 rounds, 6 starting projects, a user's run only where it matters (`UserMeets`), fair | `OwnRunCounts`, `NothingLeftRunning`, `SuccessIsCurrent`, `FailureSweepsOwn`, `SharedSpared`, `DependenciesFirst`, `WorkflowEnds` |
| `invocations` | 5 requests (3 of them of a task, one a retry that comes while the first is under way or after it) on 2 keys, a cloud and a BYOK route, 1 crash, 1 failing write; `AsksAlone`, `RetryApart` | `AtMostOnce`, `OneRoute`, `CancelTruth`, `SameAnswer` |
| `double_dispatch` (violation) | 2 requests of a task with one key | `AtMostOnce` fails |
| `session` | a model request; a restore, profile request or password change; a login or logout; 2 accounts, 3 tokens, 1 restart or failed write, fair | `OneExchange`, `DeviceOfAccount`, `DiskFollows`, `SignedOutForGood`, `AccountHolds`, `NothingAfterSignOut`, `OperationsEnd` |
| `canvas` | 2 edits here, 1 elsewhere, 2 sends of a save, 2 openings, 1 loss or crash of the sidecar, fair | `NoLostUpdate`, `WorkKept`, `EditsSettle` |
| `canvas_copy` (violation) | as `canvas` | `CopyKeepsCanvas` fails: a copy of a conflict leaves edits out |

The runs `backend`, `workflow`, `invocations`, `session` and `canvas` also check a type invariant each; the
store's is a conjunct of the backend's.

**Bounds and why they are enough.** *Store.* Two keys let one run block, overtake or be confused with
another; three runs give a key a successor whose row a late write could hit, beside another key. Two
processes are one crash with rows left over; a third would sweep as the second did. *Backend.* A lane of
one slot with a queue is full, overfull and drained with two or three jobs; two projects are needed for
the fairness rule of `_pop_next_lane_job` to choose something other than the head. Two faults let a
worker's write and the settlement after it fail together. The constraint `Family` (of `MCInlineBackend`) keeps three families of behaviours in one instance, each
with the actors its question needs: `Switching` (two projects share a lane whose policy changes),
`Faulty` (a canceller, a restart, and two faults around one task and its successor, one beside another
task, or one while the lane loses its queue) and `Flowing` (a workflow submits children on its loop);
what it leaves out is the product of the three, for instance a fault while a policy changes. All
properties of the run speak of states or single steps, so a constraint hides nothing that was explored, and the
submitters are interchangeable (`SYMMETRY`). *Workflow.* One episode has a node of every stage;
the six projects are an empty one, one whose character task completed without output, a planned one, one
whose scenes are newer than its script, a written one, and the fourth again inside a production; the planned
one has a scene menu that lacks a location. `UserMeets` leaves out a user's video beside a script workflow,
which never looks at it, and a user's identities beside a production that has nothing to make for its script.
Three rounds suffice to complete a stage, find its successor and meet the limit. The liveness property of
this run is checked within the constraint. *Model proxy.* Two requests with the
same body and one with another meet on one key, with cloud and BYOK routes in an order that differs
between them; one crash separates a first execution from its retry, and two attempts (three in the code)
let a cloud write be repeated. On the other key a request of a task meets its retry at every step but those
`AsksAlone` names (section 4); the retry meets one request of the first key only (`RetryApart`), with which
it shares nothing but the crash and the failing write. *Session.* Three operations are two that share a refresh and one that
changes the session under them; three tokens are the first, its successor and a login's. *Canvas.* Two edits
are one in the save under way and one made meanwhile; two openings are an editor and the one that finds
its draft; one edit from elsewhere makes a conflict. `MaxTasks`, `MaxBoots`, `MaxFaults`, `MaxRuns`,
`MaxUserRuns`, `MaxIterations` (256 in the code), `MaxTokens`, `MaxTroubles`, `MaxTries`, `MaxOpenings`,
`MaxCrashes` and `MaxFails` are all the bounds there are. Runs end where the bounds end, and a
system whose work is done, whose operations are over or whose canvas is closed does nothing, so deadlock
is not checked except for the store; that things which must go on do go on is what the liveness
properties say.

**Fairness.** *Backend* (`FairSpec`). A coroutine whose await is over is resumed (the loops run), threads
get scheduled, a drain continues, and a runner ends: `project_task_runtime.py` gives every task type a
deadline and `await_with_cancel_watch` raises `TaskTimedOut` at it (a runner that does not use the
watch ends when its own calls do, which have time-outs of their own). The first connection to a
database sweeps it. Nothing is assumed about users: no reservation, cancel, clear, policy change or
restart has to happen, and a report of progress is not fair either. *Workflow.* The workflow's loop runs,
and a child's runner ends, as above. *Session* (`WF_vars(Progress)`). Every call to the gateway has a
timeout, reads and writes of files end, and what can run runs; nobody has to start an operation.
*Canvas.* Timers fire, the sidecar serves a request that reached it, a load and a save end in an answer or
a failure (the HTTP client has a timeout); nobody has to edit, open, leave or recover.

## 4. What is proved

For every value of the constants that satisfies the named assumptions of the modules
(their types, that a constant which stands for nothing is no value, and that the starting states are
states the program leaves behind), with every policy, fault pattern and bound. The properties of the runs follow from inductive invariants, which TLC checked on small instances before they were proved.

* `TaskStoreProofs`. `StoreInvariant`: `IInv` = types, `IdsAreOwn` (a run's name is under one key and
  was issued), `OnlyFinishedExpire` (needed because every write drops an expired row, so a live run
  would be lost if it could expire), `NoZombieAfterSweep` with `BootsArePast`, and `ClearsSawCompleted`
  (what a clear deletes had read as completed; needed since the row may have moved on in between).
  `NoZombies` is its safety consequence. `StoreImplementsLifecycle`: every transaction moves each slot
  as `TaskLifecycle` allows; the lemma `RowsMove` says how a row can change, `SlotMoves` maps it.
  `StoreTypes` (`TypeOK`, a conjunct of `BackendTypeOK`) follows from `IInv`. `LimitsKept` (`LimitsHeld`) adds to `IInv` that the active
  rows are finitely many (`LimitsInv`): every step but a reservation is `Quieter` (no row becomes active
  or changes hands, so each counted set shrinks, `QuieterStep`), and a reservation adds one row to a set
  it found below the limit it was given (`ReserveLimits`).
* `InlineBackendProofs`. `BackendImplementsStore`: each backend step is a store step or leaves the
  store alone, so the store's invariant carries over. `AcceptedWorkRuns` (`WorkConserving`) follows the
  lanes: every step that frees a slot or raises a limit leaves the lane in `drain`, and a lane leaves
  `drain` only when full or empty. `CancellationSticks` (`CancelSticks`) needs `RowsUnderTheirKeys` (a
  run's row is under the key the run was submitted for, so the cancel's write finds it) and the store's
  `IdsAreOwn`.
* `JobProofs`. `JobInv` follows a run through its wrapper, thread, slot, queue place and row. `Wiring` and
  `JobTypes` say which of these fit together (a queued run has no wrapper yet, a thread at work has one);
  `SlotsCounted` that a lane's counter is the cardinality of the wrappers that hold a slot, including those
  lost with a closing loop; `QueuesMatchJobs` is inductive beside it. `BackendTypes`,
  `QueuesHoldQueuedJobs` and `SlotsHeldByThreads` follow. `RowsHaveOwners` (`NoOrphan`) needs that a
  submission, a queue place, a thread, a settlement or a cancel hands the row over to the next one in the
  same step. `RunnersOwnTheirRows` (`RunnerOwnsRow`) assumes `DeliveredAtTheEnd`: no active row reads as
  delivered. The proof shows that nothing else can take the row of a run at work: not a clear, an expiry, a
  sweep, a restart or another run's late write.
  `BackendImplementsPromise` (`ImplementsPromise`) maps a run to "running" while its thread works or its
  wrapper holds a slot: by `SlotsCounted` no fewer slots are counted than runs are running in the lane, so
  a start below the policy's limit is one below the promise's. That a run is submitted once needs that
  no two callers carry the same run.
* `LaneRaceProofs`. `LaneInv` for any number of loops: a job that is queued, about to be started or started
  has been accepted for good (`JobsSettle`), and a wrapper belongs to one start (`UpFits`). For a loop that
  submits all jobs: `active` is the number of wrappers except between the computation of `active - 1` and
  its store, and is below the limit wherever a start follows (`LimitKept`); an accepted job is in exactly
  one of queue, hands and running, and the index of the iteration still points at the job it yielded
  (`JobsKept`). `LimitHolds` and `AcceptedJobsOnce` follow by counting. `LaneImplementsPromise`
  (`ImplementsPromise`): for one loop each step is a step of `LanePromise` or changes nothing of it. The
  jobs running are at most the wrappers, hence a start is below the limit; a job started, refused or
  waiting never looks new again (every wrapper is that of a start that was counted, which `UpFits` says).
  With `BackendImplementsPromise` the two grains keep one promise.
* `WorkflowProofs`. `WorkflowInv` is proved step by step from `TableMoves`: any step of anybody only lets
  runs age, adds runs at the end, clears rows of finished runs and adds outputs. Its parts: a run's
  submitter and node (`RunsOwned`), completion times grow (`TimesGrow`), what a node's phase says of its
  ticket (`PhasesFit`), every run of the workflow's is awaited or over (`OwnAwaited`), what the list of
  tasks still tells after they moved on (`ListingHolds`), a node to be started has its inputs
  (`StartsReady`), what a sweep has yet to visit (`SweepFits`, over the failures of listing, cancelling and
  the sweep itself). `OwnRunsCount`, `NoRunLeft`,
  `SuccessCurrent`, `FailureSweeps`, `SharedAreSpared` and the action property `SubmitsInOrder`
  (`DependenciesFirst`) follow, for any number of episodes, jobs, rounds and runs.
  `ScriptAssumption` asks of the starting projects' past what a list of finished tasks is: one completed
  run per key, completed one after the other; which outputs exist is free.
* `SessionProofs`. `SessionInv` says what an operation holds at each place of the code at which it may
  wait: the session it began with and its generation. `Current`: one of the current generation holds a
  session of the account in memory, and whoever exchanges its token is the flight; there is one flight
  (`FlightCurrent`) and one sign-in at a time (`OneSignIn`). `WritersWait`, `SessionFollows`,
  `LoginFollows`, `Pending`: the last write queued for a file says what memory says, and who queued it
  waits for it. `SessionsLeave`: behind a write that signs a token out comes none that holds it. From it
  follow `OneExchangeAtATime`, `DeviceFollowsAccount`, `DiskFollowsMemory`, `SignedOutStaysOut`, and the two
  action properties `AccountIsHeld` and `NothingSentAfterSignOut`: an operation under way when a session
  ended is of an older generation, or is the logout itself.
* `CanvasProofs`. `Invariance` is the editor's inductive invariant; `CanvasTypes`, `EditsSurviveWrites`
  (`NoLostUpdate`) and `WorkIsKept` (`WorkKept`) follow. Its centre is `Coverage`: whoever holds the
  file's revision (a request on its way, the draft, a load, the screen) has every edit the file has.
  Every write raises the revision (`Overtaken`), so after a write the claim has to be looked at again for
  the writer only. `SameId` (sends of one `client_save_id` carry one document, which is in the file once
  an entry has the id) makes an answer from the entries as good as a write; `AnswerTrue` hands that on to
  the page, which takes over the revision it was told. For `WorkKept`, `DraftKnown` and `ScreenKnown`
  relate draft, snapshot, screen and file, so that clearing a draft or replacing a snapshot gives nothing
  up. Each action has a lemma of its own, `<Action>Keeps`.
* `InvocationProofs`. Three layers. `ClaimsStand`: the journal only grows (`Grows`: a record keeps its
  fingerprint and route, its task once it has one, its cancellation, and never becomes PENDING again), so
  what a request saw when it claimed its key still holds when it acts (`Base`); `InvocationTypes` and
  `RouteForEver` (`OneRoute`) follow. `CancelIsTrue` (`CancelTruth`) rests on `CancelInv`: a request past
  its claim is in the journal under its task, and once a handler has listed the task's records, a
  request about to start meets its cancellation and one that has started is listed as started. It assumes
  `OneTask`: requests with one key that name a task name the same one, since `image_grid.py:1302` makes a
  fresh key for every image. `SentOnce` (`AtMostOnce`) and `OneResult` (`SameAnswer`) rest on `OnceInv`:
  the in-flight map names the one request that executes a key, it met a PENDING record, and a result that
  was told is in the record, which nobody executes any more. A retry may overlap the execution it
  repeats, as it does when `image_grid.py`'s client has given up after 1200 s and the proxy still executes (up
  to 30 minutes, a disconnect does not abort it): it finds the in-flight map set and joins. What they
  assume throughout the behaviour is `AsksAlone`: while a request is between its look at the map and its
  decision, which is as long as `taskCancellation` takes to read a file, no other one of its key and body
  asks or executes. The loop at `image_grid.py:1302` waits at least two seconds between its attempts, but
  nothing in the proxy enforces it; without it both fail, as `double_dispatch` shows.

The proof attempts changed the models where they could not be reasoned about or said less than the code.
`DependenciesFirst` failed for a node that looked to be running for a user and is over when it is joined:
it is submitted without another look at the plan (TLC then found the behaviour from an empty project, a
start that had been missing), so it speaks of nodes no user starts. That a script waits for the whole scene
plan is the graph's doing: its own submission asks for identities and any scene menu (`PlansExist`), and the
proof does not use it. Two definitions with overlapping `CASE`
arms (`Outcome`, `FlightGoesOn`) meant what TLC's order of evaluation made of them; they are `IF` chains in
the code's order now. `SuccessIsCurrent` claims plans only of a "through" workflow.

**Only model-checked**: liveness and the fairness it rests on (`EveryRunSettles`, `SlotsReturn`,
`WorkflowEnds`, `OperationsEnd`, `EditsSettle`), which the provers do not reach. Every invariant and action
property of a passing run is a theorem; those that carry a hypothesis (`AsksAlone`, `OneTask`,
`DeliveredAtTheEnd`) are checked by TLC on instances that satisfy it.

## 5. What the models found

* **A slot can be lost** (`slot_leak`). When a workflow ends while a child it started is still running,
  the child's done callback runs on the closing loop, drains the lane there and starts the next queued
  job on that loop. Its thread runs to the end and the row is right, but the wrapper dies with the loop
  and `lane.active` stays one too high until the sidecar restarts. A lane of concurrency 1 then starts
  nothing any more.
* **A lane's limit can be exceeded** (`lane_race`). Lanes have no lock and are used by the main loop and
  by the loops of workflows. `AcceptedOnce` promises that a job starts once only to a lane used by one
  loop (`Alone`); with two it does not hold (a job deleted by index after the deque moved; an exception
  out of a done callback).
* **An image write can be sent twice** (`double_dispatch`). With a task id header, the in-flight map is
  read before an await and set after it, and the second request decides by the record of a claim made
  before the first one started. A retry that comes once the first one executes joins it and is safe, and so
  is a request without a task id; the promise holds as long as no two requests of a task with one key and
  body are in that window together (`invocations`, theorem `SentOnce`).
* **A copy of a conflicted canvas can leave edits out** (`canvas_copy`). The copy is made of the conflict
  snapshot, which is the document the refused save carried; what was edited while that save was under way
  or after the conflict is in neither the copy nor, once the draft is cleared, anywhere else.
* Not contradictions, but worth knowing; each is visible in a model:
  * a fault in the write that marks a row queued, in the queue-full write, in the settlement or in the
    cancel's write leaves an active row that refuses its key until a restart (`Unsettled`); a submission
    cancelled with its workflow's loop does too, and `NoOrphan` does not speak of behaviours in which a
    workflow has ended; clearing a task that reports "done" before it returns frees its key while its
    thread works on, and so does cancelling;
  * a script workflow that finds a completed task without output submits it again in its next round, up
    to 256 times (`script_workflow.py:317`), where the comment at 313-316 speaks of the next workflow
    run; the 15 % tolerance of `adaptive_script_writing.py:70-80`, which `script_progress.py:23` does not
    grant, is one way there;
  * `_cancel_owned_child_tasks` cancels by key: a run that a user submits under a listed key between the
    list and the cancellation is cancelled too (`SharedSpared` speaks of runs that were there before),
    and a start still in flight at the list is missed;
  * the cancel watch still runs while a failed production workflow cancels its children: a cancel or the
    deadline then ends the wait for the shielded sweep (`production_workflow.py:1898`), `asyncio.run` cancels
    the sweep itself, and the children it had not come to work on under a failed parent (`CutSweep`). If the
    listing raises (`ListFails`), all of them do. `FailureSweepsOwn` (theorem `FailureSweeps`) says that nothing
    escapes in another way: what is left was not reached by a cut sweep, met an error, started too late to be
    listed, or the listing raised;
  * tokens that a refresh or an automatic login brings back after a logout are dropped but never revoked;
    an automatic login with the old password that ends after `changePassword` writes the old password
    back; after a clear that failed on disk the session may be there again after a restart;
  * "retry" of a canvas is described as repeating a failed load (`useCanvasSync.ts:72`), is also offered
    after a failed save, and throws the draft away; a snapshot the user has not answered is overwritten
    by a later conflict (`WorkKept` names both); a crash between document and entry makes the repeated
    save conflict with itself, which loses nothing.

## 6. What is not modelled, and the plan

*Tasks*: the legacy user/project-name API of the task store; creation of rows by a write without an
expected run id; listing and projection of rows; where policy numbers come from; the process killer and
polling intervals; expiry of a cancellation flag after a day. *Workflows*: progress texts; which jobs a
production stage has (a constant); descendants of children. *Session*: a mismatching gateway address,
files that cannot be read, transient retries of model requests, the IPC wrapper; passwords are not data.
*Canvas*: the answer `ok_with_warning` that
`canvasSave.ts:250` handles, which no code of the sidecar sends; failing writes of the browser storage;
the guard against emptying a canvas, restoring a version, deleting and recreating (revisions restart at 1, so a window that slept through it could take the new document for the old), projections
merged into an open canvas, two windows sharing one draft, a full browser storage, age and number limits of
the idempotency entries, backups. The desktop's process control, updater, lease, billing, and the runners'
content (prompts, parsing, media) are I/O or data; section 1 and `PROJECT.json` name each with the reason.

Plan, in order of importance:

1. Abstract promises of the session (one account at a time, generations) and of the image journal (a key
   is sent at most once, then has one answer), with refinement theorems over the invariants of section 4.
2. `TaskStream`: the frontend's event stream with reconnection and polling; a finished task is
   eventually shown finished.
3. Projections merged into an open canvas, deletion and recreation of a canvas, and a second window on
   the same browser storage.
4. The offline lease: signed document, clock marks, renewal.
