------------------------------ MODULE TaskStore ------------------------------
(***************************************************************************)
(* The project task store (infrastructure/task_state.py): one SQLite row   *)
(* per task key, written by every thread of the API process and by every   *)
(* client of the HTTP API.  Each action is one transaction.  The module    *)
(* lets any client issue any call the class offers, in any order; the      *)
(* inline backend (InlineBackend.tla) issues a disciplined subset.         *)
(*                                                                         *)
(* Abstracted: the content of a row that no decision reads (logs, result,  *)
(* metadata, error text), and time.  updated_at is compared only with the  *)
(* start of the process, so a row keeps the number of the process (boot)   *)
(* that wrote it last; expires_at is compared only with now, so a row      *)
(* keeps whether its time to live has run out.                             *)
(***************************************************************************)
EXTENDS Naturals, FiniteSets

CONSTANTS Keys,         \* business task keys
          Projects,     \* one database file per project
          Users,        \* requesters
          Lanes,        \* queue kinds
          NoUser,       \* the requester of an absent row
          ProjectOf,    \* the project in a key
          LaneOf,       \* the lane of the key's task type
          Limits,       \* the active limits [project, user] admission may set
          Readers,      \* requests that read rows now and delete them later
          MaxTasks,     \* bound on the ids the model issues
          MaxBoots      \* bound on the processes the model starts

ASSUME StoreAssumption ==
  /\ ProjectOf \in [Keys -> Projects]
  /\ LaneOf \in [Keys -> Lanes]
  /\ NoUser \notin Users
  /\ Limits \subseteq [project : Nat, user : Nat]
  /\ MaxTasks \in Nat
  /\ MaxBoots \in Nat \ {0}

VARIABLES rows,     \* rows[k]: the row of key k, or NoRow
          nextId,   \* the next fresh task id (uuid4)
          boot,     \* the number of the running process
          swept,    \* swept[p]: has this process swept project p's database
          snap      \* snap[r]: what reader r saw and is about to delete

storeVars == <<rows, nextId, boot, swept, snap>>

TaskIds == 1..MaxTasks

ActiveStatuses == {"submitting", "queued", "running"}
TerminalStatuses == {"completed", "failed", "cancelled"}

(* done: progress >= 1 and current_task is one of the "completed" texts.   *)
Row == [id : TaskIds, status : ActiveStatuses \cup TerminalStatuses,
        user : Users, done : BOOLEAN, expired : BOOLEAN, boot : 1..MaxBoots]

NoRow == [id |-> 0, status |-> "none", user |-> NoUser,
          done |-> FALSE, expired |-> FALSE, boot |-> 0]

NoSnap == [op |-> "none", key |-> "none", row |-> NoRow]

IsActive(k) == rows[k].status \in ActiveStatuses

(* effective_task_status: an active row that reports 100% and "done" reads *)
(* as completed.                                                           *)
ReadsCompleted(r) ==
  r.status = "completed" \/ (r.status \in ActiveStatuses /\ r.done)

Init ==
  /\ rows = [k \in Keys |-> NoRow]
  /\ nextId = 1
  /\ boot = 1
  /\ swept = [p \in Projects |-> "pending"]
  /\ snap = [r \in Readers |-> NoSnap]

----------------------------------------------------------------------------
(* Opening a connection: the first one of a process to a database sweeps   *)
(* it, in a transaction of its own that commits before the caller's.       *)

(* Mutant of SweptRow: only "running" is swept.                            *)
SweptRowRunningOnly(r) ==
  IF r.status = "running" /\ r.boot < boot
  THEN [r EXCEPT !.status = "failed", !.boot = boot]
  ELSE r

(* Rows of an earlier process that are still active cannot be executing:   *)
(* they fail, with a time to live.                                         *)
SweptRow(r) ==
  IF r.status \in ActiveStatuses /\ r.boot < boot
  THEN [r EXCEPT !.status = "failed", !.boot = boot]
  ELSE r

Sweep(p) ==
  /\ swept[p] # "done"
  /\ rows' = [k \in Keys |->
                IF ProjectOf[k] = p THEN SweptRow(rows[k]) ELSE rows[k]]
  /\ swept' = [swept EXCEPT ![p] = "done"]
  /\ UNCHANGED <<nextId, boot, snap>>

(* sqlite3.OperationalError: logged, not memoized, and the caller goes on; *)
(* the next connection tries again.                                        *)
SweepFails(p) ==
  /\ swept[p] = "pending"
  /\ swept' = [swept EXCEPT ![p] = "failed"]
  /\ UNCHANGED <<rows, nextId, boot, snap>>

Connected(k) == swept[ProjectOf[k]] # "pending"

----------------------------------------------------------------------------
(* reserve_task_for_project, under BEGIN IMMEDIATE.                        *)

(* Mutant: a reservation that is not running yet is not counted.           *)
ActiveInLaneRunningOnly(k) ==
  {j \in Keys : ProjectOf[j] = ProjectOf[k] /\ LaneOf[j] = LaneOf[k]
                /\ rows[j].status = "running"}

ActiveInLane(k) ==
  {j \in Keys : ProjectOf[j] = ProjectOf[k] /\ LaneOf[j] = LaneOf[k] /\ IsActive(j)}

ActiveOfUser(k, u) == {j \in ActiveInLane(k) : rows[j].user = u}

WithinLimits(k, u, lim) ==
  /\ Cardinality(ActiveInLane(k)) < lim.project
  /\ Cardinality(ActiveOfUser(k, u)) < lim.user

(* Mutant: only a running row keeps its key.                               *)
KeyFreeUnlessRunning(k) == rows[k].status # "running"

KeyFree(k) == ~IsActive(k)

(* An expired row is deleted and a finished one is overwritten; an active  *)
(* row, or a limit, refuses (nothing is written).                          *)
Reserve(k, u, lim) ==
  /\ Connected(k)
  /\ nextId \in TaskIds
  /\ KeyFree(k)
  /\ WithinLimits(k, u, lim)
  /\ rows' = [rows EXCEPT ![k] =
                [id |-> nextId, status |-> "submitting", user |-> u,
                 done |-> FALSE, expired |-> FALSE, boot |-> boot]]
  /\ nextId' = nextId + 1
  /\ UNCHANGED <<boot, swept, snap>>

----------------------------------------------------------------------------
(* update_progress_for_project, complete_task_for_project and              *)
(* fail_task_for_project: load under BEGIN IMMEDIATE, drop an expired row, *)
(* ignore another run's row and a finished one, else write.                *)

(* Mutant: a finished row is written like any other.                       *)
AfterWriteAnyStatus(r, id, status, done) ==
  IF r.expired THEN NoRow
  ELSE IF r.id = id
       THEN [r EXCEPT !.status = status, !.done = done, !.boot = boot]
       ELSE r

AfterWrite(r, id, status, done) ==
  IF r.expired THEN NoRow
  ELSE IF r.id = id /\ r.status \in ActiveStatuses
       THEN [r EXCEPT !.status = status, !.done = done, !.boot = boot]
       ELSE r

Write(k, id, status, done) ==
  /\ Connected(k)
  /\ rows' = [rows EXCEPT ![k] = AfterWrite(rows[k], id, status, done)]
  /\ UNCHANGED <<nextId, boot, swept, snap>>

Progress(k, id, status, done) ==
  status \in {"queued", "running"} /\ Write(k, id, status, done)

Complete(k, id) == Write(k, id, "completed", FALSE)

Fail(k, id) == Write(k, id, "failed", FALSE)

(* Mutant: the other spelling, which no reader knows.                      *)
CancelMisspelt(k, id) == Write(k, id, "canceled", FALSE)

Cancel(k, id) == Write(k, id, "cancelled", FALSE)

----------------------------------------------------------------------------
(* Reads that delete: the row is read on one connection and deleted on     *)
(* another, so anything may happen to the key in between.                  *)

(* get_task_by_key_for_project and list_tasks_for_project meet an expired  *)
(* row.                                                                    *)
SeeExpired(r, k) ==
  /\ Connected(k)
  /\ snap[r] = NoSnap
  /\ rows[k].expired
  /\ snap' = [snap EXCEPT ![r] = [op |-> "purge", key |-> k, row |-> rows[k]]]
  /\ UNCHANGED <<rows, nextId, boot, swept>>

(* clear_completed lists the project and picks what reads as completed.    *)
SeeCompleted(r, k) ==
  /\ Connected(k)
  /\ snap[r] = NoSnap
  /\ ~rows[k].expired
  /\ ReadsCompleted(rows[k])
  /\ snap' = [snap EXCEPT ![r] = [op |-> "clear", key |-> k, row |-> rows[k]]]
  /\ UNCHANGED <<rows, nextId, boot, swept>>

(* Mutant: the delete names only the key.                                  *)
StillAsSeenByKey(s) == rows[s.key] # NoRow

(* Both deletes name the run they saw: a purge by its id and expires_at, a *)
(* clear by its id, status, progress and current task.                     *)
StillAsSeen(s) ==
  LET now == rows[s.key]
  IN  /\ now.id = s.row.id
      /\ CASE s.op = "purge" -> now.expired
           [] s.op = "clear" -> now.status = s.row.status /\ now.done = s.row.done

DeleteSeen(r) ==
  /\ snap[r] # NoSnap
  /\ rows' = IF StillAsSeen(snap[r])
             THEN [rows EXCEPT ![snap[r].key] = NoRow]
             ELSE rows
  /\ snap' = [snap EXCEPT ![r] = NoSnap]
  /\ UNCHANGED <<nextId, boot, swept>>

----------------------------------------------------------------------------
(* The environment: a finished row's time to live runs out; the process    *)
(* ends (or crashes) and another one starts.                               *)

Expire(k) ==
  /\ rows[k].status \in TerminalStatuses
  /\ ~rows[k].expired
  /\ rows' = [rows EXCEPT ![k].expired = TRUE]
  /\ UNCHANGED <<nextId, boot, swept, snap>>

Restart ==
  /\ boot < MaxBoots
  /\ boot' = boot + 1
  /\ swept' = [p \in Projects |-> "pending"]
  /\ snap' = [r \in Readers |-> NoSnap]
  /\ UNCHANGED <<rows, nextId>>

ReserveAny(k) == \E u \in Users, lim \in Limits : Reserve(k, u, lim)

WriteAny(k) ==
  \E id \in TaskIds :
    \/ \E status \in {"queued", "running"}, done \in BOOLEAN :
         Progress(k, id, status, done)
    \/ Complete(k, id)
    \/ Fail(k, id)
    \/ Cancel(k, id)

Next ==
  \/ \E p \in Projects : Sweep(p) \/ SweepFails(p)
  \/ \E k \in Keys : ReserveAny(k) \/ WriteAny(k) \/ Expire(k)
  \/ \E r \in Readers, k \in Keys : SeeExpired(r, k) \/ SeeCompleted(r, k)
  \/ \E r \in Readers : DeleteSeen(r)
  \/ Restart

Spec == Init /\ [][Next]_storeVars

----------------------------------------------------------------------------
(* Type correctness of the five variables.                                 *)
TypeOK ==
  /\ rows \in [Keys -> Row \cup {NoRow}]
  /\ nextId \in 1..(MaxTasks + 1)
  /\ boot \in 1..MaxBoots
  /\ swept \in [Projects -> {"pending", "failed", "done"}]
  /\ snap \in [Readers -> [op : {"purge", "clear"}, key : Keys, row : Row] \cup {NoSnap}]

(* Two keys never hold the same run, and no row holds a run that has not   *)
(* been issued (uuid4 names in reserve_task_for_project).                  *)
IdsAreOwn ==
  /\ \A k \in Keys : rows[k].id < nextId
  /\ \A j, k \in Keys : rows[j].id = rows[k].id /\ rows[j].id # 0 => j = k

(* Only a finished row has a time to live: an active row never expires.    *)
OnlyFinishedExpire ==
  \A k \in Keys : rows[k].expired => rows[k].status \in TerminalStatuses

(* Once a process has swept a database, every active row in it was written *)
(* by this process: nothing a dead process left can block its key or count *)
(* against a limit (_sweep_interrupted_inline_tasks_once).                 *)
NoZombieAfterSweep ==
  \A k \in Keys : IsActive(k) /\ swept[ProjectOf[k]] = "done" => rows[k].boot = boot

(* A project never holds more active rows in a lane than the largest limit *)
(* admission ever allowed, nor one requester, whatever order reservations, *)
(* restarts, sweeps and deletions come in.                                 *)
LimitsHeld ==
  \A k \in Keys :
    IsActive(k) =>
      /\ \E lim \in Limits : Cardinality(ActiveInLane(k)) <= lim.project
      /\ \A u \in Users : \E lim \in Limits : Cardinality(ActiveOfUser(k, u)) <= lim.user

(* The store implements TaskLifecycle: a run gets one outcome, which no    *)
(* late write, sweep, purge or restart changes; a live run is never lost   *)
(* (but for the clearing of one that reported it delivered); a key holds   *)
(* one live run.                                                           *)
PhaseOf(r) ==
  CASE r.status = "none" -> "empty"
    [] r.status \in ActiveStatuses -> IF r.done THEN "delivered" ELSE "active"
    [] r.status \in TerminalStatuses -> r.status

Lifecycle == INSTANCE TaskLifecycle WITH
  slot <- [k \in Keys |-> [id |-> rows[k].id, phase |-> PhaseOf(rows[k])]],
  used <- 1..(nextId - 1)

ImplementsLifecycle == Lifecycle!Spec
=============================================================================
