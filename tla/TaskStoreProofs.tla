--------------------------- MODULE TaskStoreProofs ---------------------------
(***************************************************************************)
(* Proofs about the task store, for every set of keys, projects, users and *)
(* readers, every limit and every bound.                                   *)
(***************************************************************************)
EXTENDS TaskStore, FiniteSetTheorems, TLAPS

(* No row was written by a process that has not started yet.               *)
BootsArePast == \A k \in Keys : rows[k].boot <= boot

(* What clear_completed is about to delete did read as completed.          *)
ClearsSawCompleted ==
  \A r \in Readers : snap[r].op = "clear" => ReadsCompleted(snap[r].row)

(* The inductive invariant.                                                *)
IInv ==
  /\ TypeOK
  /\ IdsAreOwn
  /\ OnlyFinishedExpire
  /\ NoZombieAfterSweep
  /\ BootsArePast
  /\ ClearsSawCompleted

----------------------------------------------------------------------------
(* Initially no key holds a row and no reader has seen one.                *)
LEMMA InitEstablishes == Init => IInv
<1> SUFFICES ASSUME Init PROVE IInv
  OBVIOUS
<1> USE StoreAssumption DEF Init, NoRow, NoSnap
<1>1. TypeOK
  BY DEF TypeOK
<1>2. IdsAreOwn
  BY DEF IdsAreOwn
<1>3. OnlyFinishedExpire /\ NoZombieAfterSweep /\ BootsArePast /\ ClearsSawCompleted
  BY DEF OnlyFinishedExpire, NoZombieAfterSweep, BootsArePast, ClearsSawCompleted,
         IsActive, ActiveStatuses
<1> QED
  BY <1>1, <1>2, <1>3 DEF IInv

(* A guarded write leaves the row of another run, or of a finished run, as *)
(* it is; it never revives a row and never renames one.                    *)
LEMMA WriteKeepsRow ==
  ASSUME TypeOK,
         NEW k \in Keys, NEW id \in TaskIds, NEW done \in BOOLEAN,
         NEW status \in ActiveStatuses \cup TerminalStatuses
  PROVE  LET r == AfterWrite(rows[k], id, status, done)
         IN  /\ r \in Row \cup {NoRow}
             /\ r = NoRow \/ r.id = rows[k].id
             /\ r.expired => r = rows[k]
             /\ r.status \in ActiveStatuses =>
                  rows[k].status \in ActiveStatuses /\ (r = rows[k] \/ r.boot = boot)
             /\ r = NoRow \/ r = rows[k] \/ r.boot = boot
<1>1. rows[k] \in Row \cup {NoRow} /\ boot \in 1..MaxBoots
  BY DEF TypeOK
<1>2. CASE rows[k].expired
  BY <1>1, <1>2 DEF AfterWrite, NoRow, ActiveStatuses
<1>3. CASE ~rows[k].expired /\ rows[k].id = id /\ rows[k].status \in ActiveStatuses
  <2>1. rows[k] \in Row
    BY <1>1, <1>3 DEF NoRow, ActiveStatuses
  <2> QED
    BY <1>1, <1>3, <2>1 DEF AfterWrite, Row, ActiveStatuses, TerminalStatuses
<1>4. CASE ~rows[k].expired /\ ~(rows[k].id = id /\ rows[k].status \in ActiveStatuses)
  BY <1>1, <1>4 DEF AfterWrite
<1> QED
  BY <1>2, <1>3, <1>4

LEMMA WriteStep ==
  ASSUME IInv,
         NEW k \in Keys, NEW id \in TaskIds, NEW done \in BOOLEAN,
         NEW status \in ActiveStatuses \cup TerminalStatuses,
         Write(k, id, status, done)
  PROVE  IInv'
<1> DEFINE r == AfterWrite(rows[k], id, status, done)
<1> USE StoreAssumption
<1>1. /\ rows' = [rows EXCEPT ![k] = r]
      /\ UNCHANGED <<nextId, boot, swept, snap>>
  BY DEF Write
<1>2. /\ r \in Row \cup {NoRow}
      /\ r = NoRow \/ r.id = rows[k].id
      /\ r.expired => r = rows[k]
      /\ r.status \in ActiveStatuses =>
           rows[k].status \in ActiveStatuses /\ (r = rows[k] \/ r.boot = boot)
      /\ r = NoRow \/ r = rows[k] \/ r.boot = boot
  BY WriteKeepsRow DEF IInv
<1> HIDE DEF r
<1>3. rows \in [Keys -> Row \cup {NoRow}] /\ boot \in 1..MaxBoots /\ nextId \in 1..(MaxTasks + 1)
  BY DEF IInv, TypeOK
<1>4. TypeOK'
  BY <1>1, <1>2 DEF IInv, TypeOK
<1>5. IdsAreOwn'
  <2>1. r.id \in {0, rows[k].id}
    BY <1>2 DEF NoRow
  <2>2. \A j \in Keys : rows'[j].id \in {0, rows[j].id}
    BY <1>1, <1>3, <2>1
  <2> QED
    BY <1>1, <1>3, <2>2 DEF IInv, IdsAreOwn
<1>6. OnlyFinishedExpire'
  BY <1>1, <1>2, <1>3 DEF IInv, OnlyFinishedExpire
<1>7. NoZombieAfterSweep'
  BY <1>1, <1>2, <1>3 DEF IInv, NoZombieAfterSweep, IsActive
<1>8. BootsArePast'
  BY <1>1, <1>2, <1>3 DEF IInv, BootsArePast, NoRow
<1>9. ClearsSawCompleted'
  BY <1>1 DEF IInv, ClearsSawCompleted
<1> QED
  BY <1>4, <1>5, <1>6, <1>7, <1>8, <1>9 DEF IInv

LEMMA ReserveStep ==
  ASSUME IInv, NEW k \in Keys, NEW u \in Users, NEW lim \in Limits, Reserve(k, u, lim)
  PROVE  IInv'
<1> DEFINE r == [id |-> nextId, status |-> "submitting", user |-> u,
                 done |-> FALSE, expired |-> FALSE, boot |-> boot]
<1> USE StoreAssumption
<1>1. /\ rows' = [rows EXCEPT ![k] = r]
      /\ nextId' = nextId + 1
      /\ UNCHANGED <<boot, swept, snap>>
      /\ nextId \in TaskIds
  BY DEF Reserve
<1>2. r \in Row /\ r.id = nextId /\ r.status = "submitting" /\ ~r.expired /\ r.boot = boot
  BY <1>1 DEF IInv, TypeOK, Row, ActiveStatuses
<1> HIDE DEF r
<1>3. rows \in [Keys -> Row \cup {NoRow}] /\ boot \in 1..MaxBoots /\ nextId \in 1..(MaxTasks + 1)
  BY DEF IInv, TypeOK
<1>4. TypeOK'
  BY <1>1, <1>2, <1>3 DEF IInv, TypeOK, TaskIds
<1>5. IdsAreOwn'
  <2>1. \A j \in Keys : j # k => rows'[j] = rows[j]
    BY <1>1, <1>3
  <2>2. rows'[k] = r
    BY <1>1, <1>3
  <2>3. \A j \in Keys : rows[j].id < nextId /\ rows[j].id \in Nat
    BY <1>3 DEF IInv, IdsAreOwn, NoRow, Row, TaskIds
  <2> QED
    BY <1>1, <1>2, <1>3, <2>1, <2>2, <2>3 DEF IInv, IdsAreOwn
<1>6. OnlyFinishedExpire' /\ NoZombieAfterSweep' /\ BootsArePast'
  BY <1>1, <1>2, <1>3 DEF IInv, OnlyFinishedExpire, NoZombieAfterSweep, BootsArePast, IsActive
<1>7. ClearsSawCompleted'
  BY <1>1 DEF IInv, ClearsSawCompleted
<1> QED
  BY <1>4, <1>5, <1>6, <1>7 DEF IInv

LEMMA SweepStep ==
  ASSUME IInv, NEW p \in Projects, Sweep(p) \/ SweepFails(p)
  PROVE  IInv'
<1> USE StoreAssumption
<1>1. rows \in [Keys -> Row \cup {NoRow}] /\ boot \in 1..MaxBoots
  BY DEF IInv, TypeOK
<1>2. \A k \in Keys : /\ SweptRow(rows[k]) \in Row \cup {NoRow}
                      /\ SweptRow(rows[k]).id = rows[k].id
                      /\ rows[k] = NoRow => SweptRow(rows[k]) = NoRow
                      /\ SweptRow(rows[k]).expired = rows[k].expired
                      /\ SweptRow(rows[k]) = rows[k] \/ SweptRow(rows[k]).status = "failed"
                      /\ SweptRow(rows[k]).boot \in {rows[k].boot, boot}
                      /\ SweptRow(rows[k]).status \in ActiveStatuses => ~(rows[k].boot < boot)
                      /\ SweptRow(rows[k]) = rows[k] \/ SweptRow(rows[k]).id # 0
  <2> TAKE k \in Keys
  <2>1. CASE rows[k].status \in ActiveStatuses /\ rows[k].boot < boot
    <3>1. rows[k] \in Row
      BY <1>1, <2>1 DEF NoRow, ActiveStatuses
    <3>2. SweptRow(rows[k]) = [rows[k] EXCEPT !.status = "failed", !.boot = boot]
      BY <2>1 DEF SweptRow
    <3> DEFINE r == SweptRow(rows[k])
    <3>3. r \in Row /\ r.id = rows[k].id /\ r.expired = rows[k].expired
      BY <1>1, <3>1, <3>2 DEF Row, ActiveStatuses, TerminalStatuses
    <3>4. r.status = "failed" /\ r.boot = boot
      BY <3>1, <3>2 DEF Row
    <3>5. rows[k].id # 0
      BY <3>1 DEF Row, TaskIds
    <3>6. rows[k] # NoRow
      BY <3>5 DEF NoRow
    <3> HIDE DEF r
    <3> QED
      BY <3>3, <3>4, <3>5, <3>6 DEF r, ActiveStatuses
  <2>2. CASE ~(rows[k].status \in ActiveStatuses /\ rows[k].boot < boot)
    BY <1>1, <2>2 DEF SweptRow
  <2> QED
    BY <2>1, <2>2
<1>3. CASE Sweep(p)
  <2>1. /\ rows' = [k \in Keys |-> IF ProjectOf[k] = p THEN SweptRow(rows[k]) ELSE rows[k]]
        /\ swept' = [swept EXCEPT ![p] = "done"]
        /\ UNCHANGED <<nextId, boot, snap>>
    BY <1>3 DEF Sweep
  <2>2. TypeOK'
    BY <1>1, <1>2, <2>1 DEF IInv, TypeOK
  <2>3. IdsAreOwn'
    BY <1>1, <1>2, <2>1 DEF IInv, IdsAreOwn, NoRow
  <2>4. OnlyFinishedExpire'
    BY <1>1, <1>2, <2>1 DEF IInv, OnlyFinishedExpire, TerminalStatuses
  <2>5. BootsArePast'
    BY <1>1, <1>2, <2>1 DEF IInv, BootsArePast
  <2>6. NoZombieAfterSweep'
    <3> SUFFICES ASSUME NEW k \in Keys, rows'[k].status \in ActiveStatuses,
                        swept'[ProjectOf[k]] = "done"
                 PROVE  rows'[k].boot = boot'
      BY DEF NoZombieAfterSweep, IsActive
    <3>1. CASE ProjectOf[k] = p
      <4>1. rows'[k] = rows[k] /\ ~(rows[k].boot < boot)
        BY <1>2, <2>1, <3>1 DEF ActiveStatuses
      <4>2. rows[k].boot \in Nat /\ rows[k].boot <= boot
        BY <1>1 DEF IInv, BootsArePast, Row, NoRow
      <4> QED
        BY <1>1, <2>1, <4>1, <4>2
    <3>2. CASE ProjectOf[k] # p
      BY <2>1, <3>2 DEF IInv, TypeOK, NoZombieAfterSweep, IsActive
    <3> QED
      BY <3>1, <3>2
  <2>7. ClearsSawCompleted'
    BY <2>1 DEF IInv, ClearsSawCompleted
  <2> QED
    BY <2>2, <2>3, <2>4, <2>5, <2>6, <2>7 DEF IInv
<1>4. CASE SweepFails(p)
  <2>1. /\ swept' = [swept EXCEPT ![p] = "failed"]
        /\ UNCHANGED <<rows, nextId, boot, snap>>
    BY <1>4 DEF SweepFails
  <2>2. TypeOK'
    BY <2>1 DEF IInv, TypeOK
  <2>3. NoZombieAfterSweep'
    BY <2>1 DEF IInv, TypeOK, NoZombieAfterSweep, IsActive
  <2> QED
    BY <2>1, <2>2, <2>3
    DEF IInv, IdsAreOwn, OnlyFinishedExpire, BootsArePast, ClearsSawCompleted
<1> QED
  BY <1>3, <1>4

LEMMA ReaderStep ==
  ASSUME IInv, NEW r \in Readers,
         \/ DeleteSeen(r)
         \/ \E k \in Keys : SeeExpired(r, k) \/ SeeCompleted(r, k)
  PROVE  IInv'
<1> USE StoreAssumption
<1>1. rows \in [Keys -> Row \cup {NoRow}] /\ boot \in 1..MaxBoots
  BY DEF IInv, TypeOK
<1>2. CASE DeleteSeen(r)
  <2>1. /\ \A k \in Keys : rows'[k] = rows[k] \/ rows'[k] = NoRow
        /\ rows' \in [Keys -> Row \cup {NoRow}]
    BY <1>1, <1>2 DEF DeleteSeen
  <2>2. snap' = [snap EXCEPT ![r] = NoSnap] /\ UNCHANGED <<nextId, boot, swept>>
    BY <1>2 DEF DeleteSeen
  <2>3. TypeOK'
    BY <2>1, <2>2 DEF IInv, TypeOK
  <2>4. IdsAreOwn'
    BY <2>1, <2>2 DEF IInv, TypeOK, IdsAreOwn, NoRow
  <2>5. OnlyFinishedExpire' /\ NoZombieAfterSweep' /\ BootsArePast'
    BY <1>1, <2>1, <2>2 DEF IInv, OnlyFinishedExpire, NoZombieAfterSweep, BootsArePast,
                            IsActive, NoRow, ActiveStatuses
  <2>6. ClearsSawCompleted'
    BY <2>2 DEF IInv, TypeOK, ClearsSawCompleted, NoSnap
  <2> QED
    BY <2>3, <2>4, <2>5, <2>6 DEF IInv
<1>3. ASSUME NEW k \in Keys, SeeExpired(r, k) \/ SeeCompleted(r, k)
      PROVE  IInv'
  <2>1. UNCHANGED <<rows, nextId, boot, swept>>
    BY <1>3 DEF SeeExpired, SeeCompleted
  <2>2. rows[k] \in Row
    BY <1>1, <1>3 DEF SeeExpired, SeeCompleted, ReadsCompleted, NoRow, ActiveStatuses
  <2>3. /\ snap' \in [Readers -> [op : {"purge", "clear"}, key : Keys, row : Row] \cup {NoSnap}]
        /\ ClearsSawCompleted'
    <3>1. CASE SeeExpired(r, k)
      BY <2>2, <3>1 DEF SeeExpired, IInv, TypeOK, ClearsSawCompleted
    <3>2. CASE SeeCompleted(r, k)
      BY <2>2, <3>2 DEF SeeCompleted, IInv, TypeOK, ClearsSawCompleted
    <3> QED
      BY <1>3, <3>1, <3>2
  <2> QED
    BY <2>1, <2>3
    DEF IInv, TypeOK, IdsAreOwn, OnlyFinishedExpire, NoZombieAfterSweep, BootsArePast, IsActive
<1> QED
  BY <1>2, <1>3

LEMMA ExpireStep ==
  ASSUME IInv, NEW k \in Keys, Expire(k)
  PROVE  IInv'
<1> USE StoreAssumption
<1>1. rows \in [Keys -> Row \cup {NoRow}]
  BY DEF IInv, TypeOK
<1>2. /\ rows' = [rows EXCEPT ![k].expired = TRUE]
      /\ rows[k].status \in TerminalStatuses
      /\ UNCHANGED <<nextId, boot, swept, snap>>
  BY DEF Expire
<1>3. rows[k] \in Row
  BY <1>1, <1>2 DEF NoRow, TerminalStatuses
<1>4. TypeOK'
  BY <1>1, <1>2, <1>3 DEF IInv, TypeOK, Row
<1>5. IdsAreOwn'
  BY <1>1, <1>2, <1>3 DEF IInv, IdsAreOwn, Row, NoRow, TaskIds
<1>6. OnlyFinishedExpire' /\ NoZombieAfterSweep' /\ BootsArePast'
  BY <1>1, <1>2, <1>3
  DEF IInv, OnlyFinishedExpire, NoZombieAfterSweep, BootsArePast, IsActive, Row
<1>7. ClearsSawCompleted'
  BY <1>2 DEF IInv, ClearsSawCompleted
<1> QED
  BY <1>4, <1>5, <1>6, <1>7 DEF IInv

LEMMA RestartStep ==
  ASSUME IInv, Restart
  PROVE  IInv'
<1> USE StoreAssumption
<1>1. /\ boot < MaxBoots /\ boot' = boot + 1
      /\ swept' = [p \in Projects |-> "pending"]
      /\ snap' = [r \in Readers |-> NoSnap]
      /\ UNCHANGED <<rows, nextId>>
  BY DEF Restart
<1>2. rows \in [Keys -> Row \cup {NoRow}] /\ boot \in 1..MaxBoots
  BY DEF IInv, TypeOK
<1>3. TypeOK'
  BY <1>1 DEF IInv, TypeOK
<1>4. BootsArePast'
  BY <1>1, <1>2 DEF IInv, BootsArePast, Row, NoRow
<1>5. NoZombieAfterSweep' /\ ClearsSawCompleted'
  BY <1>1 DEF NoZombieAfterSweep, ClearsSawCompleted, NoSnap
<1>6. IdsAreOwn' /\ OnlyFinishedExpire'
  BY <1>1 DEF IInv, IdsAreOwn, OnlyFinishedExpire
<1> QED
  BY <1>3, <1>4, <1>5, <1>6 DEF IInv

(* Every step of the store preserves the invariant.                        *)
LEMMA StepPreserves == IInv /\ [Next]_storeVars => IInv'
<1> SUFFICES ASSUME IInv, [Next]_storeVars PROVE IInv'
  OBVIOUS
<1>1. CASE \E p \in Projects : Sweep(p) \/ SweepFails(p)
  BY <1>1, SweepStep
<1>2. ASSUME NEW k \in Keys, ReserveAny(k) PROVE IInv'
  BY <1>2, ReserveStep DEF ReserveAny
<1>3. ASSUME NEW k \in Keys, WriteAny(k) PROVE IInv'
  <2>1. PICK id \in TaskIds, status \in ActiveStatuses \cup TerminalStatuses, done \in BOOLEAN :
          Write(k, id, status, done)
    BY <1>3 DEF WriteAny, Progress, Complete, Fail, Cancel, ActiveStatuses, TerminalStatuses
  <2> QED
    BY <2>1, WriteStep
<1>4. ASSUME NEW k \in Keys, Expire(k) PROVE IInv'
  BY <1>4, ExpireStep
<1>5. CASE \E r \in Readers : \/ DeleteSeen(r)
                              \/ \E k \in Keys : SeeExpired(r, k) \/ SeeCompleted(r, k)
  BY <1>5, ReaderStep
<1>6. CASE Restart
  BY <1>6, RestartStep
<1>7. CASE UNCHANGED storeVars
  BY <1>7 DEF storeVars, IInv, TypeOK, IdsAreOwn, OnlyFinishedExpire, NoZombieAfterSweep,
              BootsArePast, ClearsSawCompleted, IsActive
<1> QED
  BY <1>1, <1>2, <1>3, <1>4, <1>5, <1>6, <1>7 DEF Next

(* Whatever calls the clients make, in whatever order, the five parts of   *)
(* the invariant hold in every reachable state.                            *)
THEOREM StoreInvariant == Spec => []IInv
<1>1. Init => IInv
  BY InitEstablishes
<1>2. IInv /\ [Next]_storeVars => IInv'
  BY StepPreserves
<1> QED
  BY <1>1, <1>2, PTL DEF Spec

(* Once the running process has swept a database no active row in it was   *)
(* left by an earlier process: the reservation guard and the limits of     *)
(* reserve_task_for_project never meet a dead process's task.              *)
THEOREM NoZombies == Spec => []NoZombieAfterSweep
<1>1. IInv => NoZombieAfterSweep
  BY DEF IInv
<1> QED
  BY <1>1, StoreInvariant, PTL

(* Type correctness of the store, for every call in every order.           *)
THEOREM StoreTypes == Spec => []TypeOK
<1>1. IInv => TypeOK
  BY DEF IInv
<1> QED
  BY <1>1, StoreInvariant, PTL

----------------------------------------------------------------------------
(* The store implements TaskLifecycle: each key's row moves as the abstract*)
(* slot does.                                                              *)

(* How one row may change in a step of the store.                          *)
RowMoves(k) ==
  \/ rows'[k] = rows[k]
  \/ /\ ~IsActive(k)
     /\ nextId \in TaskIds
     /\ rows'[k].id = nextId /\ rows'[k].status = "submitting" /\ ~rows'[k].done
  \/ /\ IsActive(k)
     /\ rows'[k].id = rows[k].id
     /\ rows'[k].status \in ActiveStatuses \cup TerminalStatuses
  \/ rows[k].status \in TerminalStatuses /\ rows'[k].id = rows[k].id
                                         /\ rows'[k].status = rows[k].status
  \/ /\ rows[k].status \in TerminalStatuses \/ (IsActive(k) /\ rows[k].done)
     /\ rows'[k] = NoRow

(* Every step of the store moves every row in one of these ways.           *)
LEMMA RowsMove ==
  ASSUME IInv, Next
  PROVE  \A k \in Keys : RowMoves(k)
<1> USE StoreAssumption
<1>0. rows \in [Keys -> Row \cup {NoRow}] /\ boot \in 1..MaxBoots
  BY DEF IInv, TypeOK
<1> SUFFICES ASSUME NEW k \in Keys PROVE RowMoves(k)
  OBVIOUS
<1>1. ASSUME NEW p \in Projects, Sweep(p) \/ SweepFails(p) PROVE RowMoves(k)
  <2>1. rows'[k] = rows[k] \/ rows'[k] = SweptRow(rows[k])
    BY <1>1 DEF Sweep, SweepFails
  <2>2. CASE rows[k].status \in ActiveStatuses /\ rows[k].boot < boot
    <3>1. rows[k] \in Row
      BY <1>0, <2>2 DEF NoRow, ActiveStatuses
    <3>2. SweptRow(rows[k]).id = rows[k].id /\ SweptRow(rows[k]).status = "failed"
      BY <2>2, <3>1 DEF SweptRow, Row
    <3> QED
      BY <2>1, <2>2, <3>2 DEF RowMoves, IsActive, TerminalStatuses
  <2>3. CASE ~(rows[k].status \in ActiveStatuses /\ rows[k].boot < boot)
    BY <2>1, <2>3 DEF RowMoves, SweptRow
  <2> QED
    BY <2>2, <2>3
<1>2. ASSUME NEW j \in Keys, ReserveAny(j) PROVE RowMoves(k)
  BY <1>0, <1>2 DEF ReserveAny, Reserve, KeyFree, RowMoves
<1>3. ASSUME NEW j \in Keys, WriteAny(j) PROVE RowMoves(k)
  <2>1. PICK id \in TaskIds, status \in ActiveStatuses \cup TerminalStatuses, done \in BOOLEAN :
          Write(j, id, status, done)
    BY <1>3 DEF WriteAny, Progress, Complete, Fail, Cancel, ActiveStatuses, TerminalStatuses
  <2>2. rows'[k] = rows[k] \/ rows'[k] = AfterWrite(rows[k], id, status, done)
    BY <1>0, <2>1 DEF Write
  <2>3. CASE rows[k].expired
    BY <2>2, <2>3 DEF AfterWrite, RowMoves, IInv, OnlyFinishedExpire
  <2>4. CASE ~rows[k].expired /\ rows[k].id = id /\ rows[k].status \in ActiveStatuses
    <3>1. rows[k] \in Row
      BY <1>0, <2>4 DEF NoRow, ActiveStatuses
    <3> QED
      BY <2>2, <2>4, <3>1 DEF AfterWrite, RowMoves, IsActive, Row
  <2>5. CASE ~rows[k].expired /\ ~(rows[k].id = id /\ rows[k].status \in ActiveStatuses)
    BY <2>2, <2>5 DEF AfterWrite, RowMoves
  <2> QED
    BY <2>3, <2>4, <2>5
<1>4. ASSUME NEW j \in Keys, Expire(j) PROVE RowMoves(k)
  <2>1. CASE j = k
    <3>1. rows[k] \in Row
      BY <1>0, <1>4, <2>1 DEF Expire, NoRow, TerminalStatuses
    <3> QED
      BY <1>0, <1>4, <2>1, <3>1 DEF Expire, RowMoves, Row
  <2>2. CASE j # k
    BY <1>0, <1>4, <2>2 DEF Expire, RowMoves
  <2> QED
    BY <2>1, <2>2
<1>5. ASSUME NEW r \in Readers, DeleteSeen(r) PROVE RowMoves(k)
  <2>1. CASE rows'[k] = rows[k]
    BY <2>1 DEF RowMoves
  <2>2. CASE rows'[k] # rows[k]
    <3>1. snap[r].key = k /\ StillAsSeen(snap[r]) /\ rows'[k] = NoRow /\ snap[r] # NoSnap
      BY <1>0, <1>5, <2>2 DEF DeleteSeen
    <3>2. snap[r].op \in {"purge", "clear"} /\ snap[r].row \in Row
      BY <3>1 DEF IInv, TypeOK
    <3>3. CASE snap[r].op = "purge"
      BY <3>1, <3>3 DEF StillAsSeen, RowMoves, IInv, OnlyFinishedExpire
    <3>4. CASE snap[r].op = "clear"
      <4>1. rows[k].status = snap[r].row.status /\ rows[k].done = snap[r].row.done
        BY <3>1, <3>4 DEF StillAsSeen
      <4>2. ReadsCompleted(snap[r].row)
        BY <3>4 DEF IInv, ClearsSawCompleted
      <4> QED
        BY <3>1, <4>1, <4>2 DEF ReadsCompleted, RowMoves, IsActive, TerminalStatuses
    <3> QED
      BY <3>2, <3>3, <3>4
  <2> QED
    BY <2>1, <2>2
<1>6. ASSUME NEW r \in Readers, NEW j \in Keys, SeeExpired(r, j) \/ SeeCompleted(r, j)
      PROVE  RowMoves(k)
  BY <1>6 DEF SeeExpired, SeeCompleted, RowMoves
<1>7. CASE Restart
  BY <1>7 DEF Restart, RowMoves
<1> QED
  BY <1>1, <1>2, <1>3, <1>4, <1>5, <1>6, <1>7 DEF Next

(* Ids are issued one at a time, each to the row of one key.               *)
LEMMA IdsIssued ==
  ASSUME IInv, Next
  PROVE  nextId' = nextId \/ (nextId' = nextId + 1 /\ \E k \in Keys : rows'[k].id = nextId)
<1>1. ASSUME NEW k \in Keys, ReserveAny(k)
      PROVE  nextId' = nextId + 1 /\ rows'[k].id = nextId
  BY <1>1 DEF ReserveAny, Reserve, IInv, TypeOK
<1>2. CASE \E k \in Keys : ReserveAny(k)
  BY <1>1, <1>2
<1>3. CASE ~\E k \in Keys : ReserveAny(k)
  BY <1>3 DEF Next, Sweep, SweepFails, WriteAny, Progress, Complete, Fail, Cancel, Write,
              Expire, SeeExpired, SeeCompleted, DeleteSeen, Restart
<1> QED
  BY <1>2, <1>3

(* One move of a row is one move of the abstract slot.                     *)
LEMMA SlotMoves ==
  ASSUME IInv, IInv', NEW k \in Keys, RowMoves(k)
  PROVE  \/ Lifecycle!Accept(k) \/ Lifecycle!Advance(k)
         \/ Lifecycle!Forget(k) \/ Lifecycle!Stay(k)
<1> DEFINE Bar(r) == [id |-> r.id, phase |-> PhaseOf(r)]
<1>0. /\ rows[k] \in Row \cup {NoRow} /\ rows'[k] \in Row \cup {NoRow}
      /\ nextId \in 1..(MaxTasks + 1)
  BY DEF IInv, TypeOK
<1>1. ASSUME NEW r \in Row \cup {NoRow}
      PROVE  /\ PhaseOf(r) \in Lifecycle!Live <=> r.status \in ActiveStatuses
             /\ r.status \in TerminalStatuses => PhaseOf(r) = r.status
             /\ r.status \in ActiveStatuses /\ r.done => PhaseOf(r) = "delivered"
             /\ r.status \in ActiveStatuses /\ ~r.done => PhaseOf(r) = "active"
             /\ r.status = "none" => PhaseOf(r) = "empty"
             /\ r.status \in ActiveStatuses \cup TerminalStatuses => PhaseOf(r) \in Lifecycle!Phases
  <2>1. r.status \in ActiveStatuses \cup TerminalStatuses \cup {"none"} /\ r.done \in BOOLEAN
    <3>1. CASE r \in Row
      BY <3>1 DEF Row
    <3>2. CASE r = NoRow
      BY <3>2 DEF NoRow
    <3> QED
      BY <1>1, <3>1, <3>2
  <2> QED
    BY <2>1 DEF PhaseOf, Lifecycle!Live, Lifecycle!Phases, Lifecycle!Outcomes,
                ActiveStatuses, TerminalStatuses
<1>2. CASE rows'[k] = rows[k]
  BY <1>2 DEF Lifecycle!Stay
<1>3. CASE /\ ~IsActive(k) /\ nextId \in TaskIds
           /\ rows'[k].id = nextId /\ rows'[k].status = "submitting" /\ ~rows'[k].done
  <2>1. PhaseOf(rows[k]) \notin Lifecycle!Live /\ PhaseOf(rows'[k]) = "active"
    BY <1>0, <1>1, <1>3 DEF IsActive, ActiveStatuses
  <2>2. nextId \in TaskIds \ (1..(nextId - 1))
    BY <1>0, <1>3
  <2> QED
    BY <1>3, <2>1, <2>2 DEF Lifecycle!Accept, PhaseOf
<1>4. CASE /\ IsActive(k) /\ rows'[k].id = rows[k].id
           /\ rows'[k].status \in ActiveStatuses \cup TerminalStatuses
  <2>1. PhaseOf(rows[k]) \in Lifecycle!Live /\ PhaseOf(rows'[k]) \in Lifecycle!Phases
    BY <1>0, <1>1, <1>4 DEF IsActive
  <2>2. [id |-> rows'[k].id, phase |-> PhaseOf(rows'[k])] =
          [[id |-> rows[k].id, phase |-> PhaseOf(rows[k])] EXCEPT !.phase = PhaseOf(rows'[k])]
    BY <1>4
  <2> QED
    BY <2>1, <2>2 DEF Lifecycle!Advance, PhaseOf
<1>5. CASE rows[k].status \in TerminalStatuses /\ rows'[k].id = rows[k].id
                                               /\ rows'[k].status = rows[k].status
  <2>1. PhaseOf(rows'[k]) = PhaseOf(rows[k])
    BY <1>0, <1>1, <1>5
  <2> QED
    BY <1>5, <2>1 DEF Lifecycle!Stay, PhaseOf
<1>6. CASE /\ rows[k].status \in TerminalStatuses \/ (IsActive(k) /\ rows[k].done)
           /\ rows'[k] = NoRow
  <2>1. PhaseOf(rows[k]) \in Lifecycle!Outcomes \cup {"delivered"}
    BY <1>0, <1>1, <1>6 DEF IsActive, Lifecycle!Outcomes, TerminalStatuses
  <2>2. rows'[k].id = 0 /\ PhaseOf(rows'[k]) = "empty"
    BY <1>0, <1>1, <1>6 DEF NoRow
  <2> QED
    BY <2>1, <2>2 DEF Lifecycle!Forget, Lifecycle!Empty, PhaseOf
<1> QED
  BY <1>2, <1>3, <1>4, <1>5, <1>6 DEF RowMoves

LEMMA LifecycleStep ==
  ASSUME IInv, IInv', [Next]_storeVars
  PROVE  [Lifecycle!Next]_<<[k \in Keys |-> [id |-> rows[k].id, phase |-> PhaseOf(rows[k])]],
                            1..(nextId - 1)>>
<1>1. CASE UNCHANGED storeVars
  BY <1>1 DEF storeVars, PhaseOf
<1>2. CASE Next
  <2>1. \A k \in Keys : \/ Lifecycle!Accept(k) \/ Lifecycle!Advance(k)
                        \/ Lifecycle!Forget(k) \/ Lifecycle!Stay(k)
    BY <1>2, RowsMove, SlotMoves
  <2>2. \A j, k \in Keys : rows'[j].id = rows'[k].id /\ rows'[j].id # 0 => j = k
    BY DEF IInv, IdsAreOwn
  <2>3. (1..(nextId - 1))' = (1..(nextId - 1)) \cup ({rows'[k].id : k \in Keys} \ {0})
    <3>1. nextId' = nextId \/ (nextId' = nextId + 1 /\ \E k \in Keys : rows'[k].id = nextId)
      BY <1>2, IdsIssued
    <3>2. \A k \in Keys : rows'[k].id < nextId' /\ rows'[k].id \in Nat
      BY DEF IInv, TypeOK, IdsAreOwn, Row, NoRow, TaskIds
    <3>3. nextId \in Nat \ {0} /\ nextId' \in Nat \ {0}
      BY StoreAssumption DEF IInv, TypeOK
    <3> QED
      BY <3>1, <3>2, <3>3
  <2> QED
    BY <2>1, <2>2, <2>3 DEF Lifecycle!Next
<1> QED
  BY <1>1, <1>2

(* The store implements its abstract promise, for any number of keys,      *)
(* clients and restarts: one live run per key, one outcome per run, no     *)
(* outcome rewritten, no live run lost (but a delivered one the user       *)
(* clears), no id used twice.                                              *)
THEOREM StoreImplementsLifecycle == Spec => ImplementsLifecycle
<1>1. Init => Lifecycle!Init
  <2> SUFFICES ASSUME Init PROVE Lifecycle!Init
    OBVIOUS
  <2>1. \A k \in Keys : rows[k].id = 0 /\ PhaseOf(rows[k]) = "empty"
    BY DEF Init, NoRow, PhaseOf, ActiveStatuses, TerminalStatuses
  <2>2. 1..(nextId - 1) = {}
    BY DEF Init
  <2> QED
    BY <2>1, <2>2 DEF Lifecycle!Init, Lifecycle!Empty, PhaseOf
<1>2. IInv /\ IInv' /\ [Next]_storeVars =>
        [Lifecycle!Next]_<<[k \in Keys |-> [id |-> rows[k].id, phase |-> PhaseOf(rows[k])]],
                           1..(nextId - 1)>>
  BY LifecycleStep
<1> QED
  BY <1>1, <1>2, StoreInvariant, PTL DEF Spec, ImplementsLifecycle, Lifecycle!Spec

----------------------------------------------------------------------------
(* The limits of admission.                                                *)

(* The active rows are finitely many, each in its lane's limits.           *)
LimitsInv ==
  /\ IInv
  /\ IsFiniteSet({k \in Keys : IsActive(k)})
  /\ LimitsHeld

(* No row becomes active or changes hands.                                 *)
Quieter ==
  \A k \in Keys : IsActive(k)' => IsActive(k) /\ rows'[k].user = rows[k].user

LEMMA LaneFinite ==
  ASSUME LimitsInv, NEW k
  PROVE  /\ IsFiniteSet(ActiveInLane(k)) /\ Cardinality(ActiveInLane(k)) \in Nat
         /\ \A u : /\ IsFiniteSet(ActiveOfUser(k, u))
                   /\ Cardinality(ActiveOfUser(k, u)) \in Nat
<1>1. ActiveInLane(k) \subseteq {j \in Keys : IsActive(j)}
  BY DEF ActiveInLane
<1>2. IsFiniteSet(ActiveInLane(k))
  BY <1>1, FS_Subset DEF LimitsInv
<1>3. \A u : ActiveOfUser(k, u) \subseteq ActiveInLane(k)
  BY DEF ActiveOfUser
<1>4. \A u : IsFiniteSet(ActiveOfUser(k, u))
  BY <1>2, <1>3, FS_Subset
<1> QED
  BY <1>2, <1>4, FS_CardinalityType

(* A subset keeps a limit.                                                 *)
LEMMA SmallerSet ==
  ASSUME NEW S, NEW T, IsFiniteSet(S), T \subseteq S, NEW n \in Nat, Cardinality(S) <= n
  PROVE  Cardinality(T) <= n
<1>1. Cardinality(T) <= Cardinality(S) /\ IsFiniteSet(T)
  BY FS_Subset
<1>2. Cardinality(T) \in Nat /\ Cardinality(S) \in Nat
  BY <1>1, FS_CardinalityType
<1> QED
  BY <1>1, <1>2

LEMMA QuieterStep ==
  ASSUME LimitsInv, Quieter
  PROVE  IsFiniteSet({k \in Keys : IsActive(k)})' /\ LimitsHeld'
<1> USE StoreAssumption
<1>1. IsFiniteSet({k \in Keys : IsActive(k)})'
  <2>1. {k \in Keys : IsActive(k)'} \subseteq {k \in Keys : IsActive(k)}
    BY DEF Quieter
  <2> QED
    BY <2>1, FS_Subset DEF LimitsInv
<1>2. ASSUME NEW k \in Keys, IsActive(k)'
      PROVE  /\ \E lim \in Limits : Cardinality(ActiveInLane(k)') <= lim.project
             /\ \A u \in Users : \E lim \in Limits :
                  Cardinality(ActiveOfUser(k, u)') <= lim.user
  <2>1. IsActive(k) /\ ActiveInLane(k)' \subseteq ActiveInLane(k)
    BY <1>2 DEF Quieter, ActiveInLane
  <2>2. \A u : ActiveOfUser(k, u)' \subseteq ActiveOfUser(k, u)
    BY <2>1 DEF Quieter, ActiveInLane, ActiveOfUser
  <2>3. PICK lim \in Limits : Cardinality(ActiveInLane(k)) <= lim.project
    BY <2>1 DEF LimitsInv, LimitsHeld
  <2>4. Cardinality(ActiveInLane(k)') <= lim.project
    BY <2>1, <2>3, LaneFinite, SmallerSet
  <2>5. ASSUME NEW u \in Users
        PROVE  \E l \in Limits : Cardinality(ActiveOfUser(k, u)') <= l.user
    <3>1. PICK l \in Limits : Cardinality(ActiveOfUser(k, u)) <= l.user
      BY <2>1 DEF LimitsInv, LimitsHeld
    <3> QED
      BY <2>2, <3>1, LaneFinite, SmallerSet
  <2> QED
    BY <2>4, <2>5
<1> QED
  BY <1>1, <1>2 DEF LimitsHeld

(* A reservation is counted against the limits it was admitted under.      *)
LEMMA ReserveLimits ==
  ASSUME LimitsInv, NEW k \in Keys, NEW u \in Users, NEW lim \in Limits, Reserve(k, u, lim)
  PROVE  IsFiniteSet({j \in Keys : IsActive(j)})' /\ LimitsHeld'
<1> USE StoreAssumption
<1>1. /\ ~IsActive(k) /\ IsActive(k)' /\ rows'[k].user = u
      /\ \A j \in Keys \ {k} : rows'[j] = rows[j]
      /\ lim.project \in Nat /\ lim.user \in Nat
      /\ Cardinality(ActiveInLane(k)) < lim.project
      /\ Cardinality(ActiveOfUser(k, u)) < lim.user
  BY DEF Reserve, KeyFree, WithinLimits, IsActive, ActiveStatuses, LimitsInv, IInv, TypeOK
<1>2. IsFiniteSet({j \in Keys : IsActive(j)})'
  <2>1. {j \in Keys : IsActive(j)'} \subseteq {j \in Keys : IsActive(j)} \cup {k}
    BY <1>1 DEF IsActive
  <2>2. IsFiniteSet({j \in Keys : IsActive(j)} \cup {k})
    BY FS_AddElement DEF LimitsInv
  <2> QED
    BY <2>1, <2>2, FS_Subset
<1>3. ASSUME NEW S, IsFiniteSet(S), NEW n \in Nat, Cardinality(S) < n
      PROVE  IsFiniteSet(S \cup {k}) /\ Cardinality(S \cup {k}) <= n
  <2>1. /\ IsFiniteSet(S \cup {k})
        /\ Cardinality(S \cup {k}) = Cardinality(S) \/ Cardinality(S \cup {k}) = Cardinality(S) + 1
    BY <1>3, FS_AddElement, Zenon
  <2>2. Cardinality(S) \in Nat
    BY <1>3, FS_CardinalityType
  <2> QED
    BY <1>3, <2>1, <2>2
<1>4. ASSUME NEW j \in Keys, IsActive(j)'
      PROVE  /\ \E l \in Limits : Cardinality(ActiveInLane(j)') <= l.project
             /\ \A v \in Users : \E l \in Limits : Cardinality(ActiveOfUser(j, v)') <= l.user
  <2>1. CASE ProjectOf[j] = ProjectOf[k] /\ LaneOf[j] = LaneOf[k]
    <3>1. ActiveInLane(j)' \subseteq ActiveInLane(k) \cup {k}
      BY <1>1, <2>1 DEF ActiveInLane, IsActive
    <3>2. Cardinality(ActiveInLane(j)') <= lim.project
      BY <1>1, <1>3, <3>1, LaneFinite, SmallerSet
    <3>3. ASSUME NEW v \in Users
          PROVE  \E l \in Limits : Cardinality(ActiveOfUser(j, v)') <= l.user
      <4>1. CASE v = u
        <5>1. ActiveOfUser(j, v)' \subseteq ActiveOfUser(k, u) \cup {k}
          BY <1>1, <2>1, <4>1 DEF ActiveOfUser, ActiveInLane, IsActive
        <5> QED
          BY <1>1, <1>3, <5>1, LaneFinite, SmallerSet
      <4>2. CASE v # u
        <5>1. ActiveOfUser(j, v)' \subseteq ActiveOfUser(k, v)
          BY <1>1, <2>1, <4>2 DEF ActiveOfUser, ActiveInLane, IsActive
        <5>2. CASE ActiveOfUser(k, v) = {}
          <6>1. ActiveOfUser(j, v)' = {} /\ Cardinality({}) = 0
            BY <5>1, <5>2, FS_EmptySet
          <6> QED
            BY <1>1, <6>1
        <5>3. CASE ActiveOfUser(k, v) # {}
          <6>1. PICK i \in ActiveOfUser(k, v) : TRUE
            BY <5>3
          <6>2. i \in Keys /\ IsActive(i) /\ ActiveOfUser(i, v) = ActiveOfUser(k, v)
            BY <6>1 DEF ActiveOfUser, ActiveInLane
          <6>3. PICK l \in Limits : Cardinality(ActiveOfUser(k, v)) <= l.user
            BY <6>2 DEF LimitsInv, LimitsHeld
          <6> QED
            BY <5>1, <6>3, LaneFinite, SmallerSet
        <5> QED
          BY <5>2, <5>3
      <4> QED
        BY <4>1, <4>2
    <3> QED
      BY <3>2, <3>3
  <2>2. CASE ~(ProjectOf[j] = ProjectOf[k] /\ LaneOf[j] = LaneOf[k])
    <3>1. j # k /\ IsActive(j) /\ ActiveInLane(j)' = ActiveInLane(j)
      BY <1>1, <1>4, <2>2 DEF ActiveInLane, IsActive
    <3>2. \A v : ActiveOfUser(j, v)' = ActiveOfUser(j, v)
      BY <1>1, <2>2, <3>1 DEF ActiveOfUser, ActiveInLane
    <3> QED
      BY <3>1, <3>2 DEF LimitsInv, LimitsHeld
  <2> QED
    BY <2>1, <2>2
<1> QED
  BY <1>2, <1>4 DEF LimitsHeld

(* Every step but a reservation makes the store quieter.                   *)
LEMMA MostAreQuieter ==
  ASSUME IInv, [Next]_storeVars, ~\E k \in Keys : ReserveAny(k)
  PROVE  Quieter
<1> USE StoreAssumption
<1>0. rows \in [Keys -> Row \cup {NoRow}]
  BY DEF IInv, TypeOK
<1> SUFFICES ASSUME NEW k \in Keys, IsActive(k)'
             PROVE  IsActive(k) /\ rows'[k].user = rows[k].user
  BY DEF Quieter
<1>1. CASE rows'[k] = rows[k]
  BY <1>1 DEF IsActive
<1>2. CASE \E p \in Projects : Sweep(p)
  <2>1. rows'[k] = rows[k] \/ /\ rows[k].status \in ActiveStatuses
                              /\ rows'[k] = [rows[k] EXCEPT !.status = "failed", !.boot = boot]
    BY <1>2 DEF Sweep, SweptRow
  <2>2. rows[k].status \in ActiveStatuses => rows[k] \in Row
    BY <1>0 DEF NoRow, ActiveStatuses
  <2> QED
    BY <1>1, <2>1, <2>2 DEF IsActive, ActiveStatuses, Row
<1>3. CASE \E j \in Keys : WriteAny(j)
  <2>1. PICK j \in Keys, id \in TaskIds, status \in ActiveStatuses \cup TerminalStatuses,
             done \in BOOLEAN : Write(j, id, status, done)
    BY <1>3 DEF WriteAny, Progress, Complete, Fail, Cancel, ActiveStatuses, TerminalStatuses
  <2>2. \/ rows'[k] \in {rows[k], NoRow}
        \/ /\ rows[k].status \in ActiveStatuses
           /\ rows'[k] = [rows[k] EXCEPT !.status = status, !.done = done, !.boot = boot]
    BY <1>0, <2>1 DEF Write, AfterWrite
  <2>3. rows[k].status \in ActiveStatuses => rows[k] \in Row
    BY <1>0 DEF NoRow, ActiveStatuses
  <2>4. CASE rows'[k] = NoRow
    BY <2>4 DEF IsActive, ActiveStatuses, NoRow
  <2>5. CASE /\ rows[k].status \in ActiveStatuses
             /\ rows'[k] = [rows[k] EXCEPT !.status = status, !.done = done, !.boot = boot]
    BY <2>3, <2>5 DEF IsActive, Row
  <2> QED
    BY <1>1, <2>2, <2>4, <2>5
<1>4. CASE \E j \in Keys : Expire(j)
  <2>1. PICK j \in Keys : Expire(j)
    BY <1>4
  <2>2. rows[j] \in Row
    BY <1>0, <2>1 DEF Expire, NoRow, TerminalStatuses
  <2> QED
    BY <1>0, <1>1, <2>1, <2>2 DEF Expire, IsActive, Row, ActiveStatuses, TerminalStatuses
<1>5. CASE \E r \in Readers : DeleteSeen(r)
  <2>1. rows'[k] \in {rows[k], NoRow}
    BY <1>0, <1>5 DEF DeleteSeen
  <2> QED
    BY <1>1, <2>1 DEF IsActive, ActiveStatuses, NoRow
<1>6. (\/ \E p \in Projects : SweepFails(p)
       \/ \E r \in Readers, j \in Keys : SeeExpired(r, j) \/ SeeCompleted(r, j)
       \/ Restart \/ UNCHANGED storeVars) => rows'[k] = rows[k]
  BY DEF SweepFails, SeeExpired, SeeCompleted, Restart, storeVars
<1> QED
  BY <1>1, <1>2, <1>3, <1>4, <1>5, <1>6 DEF Next

(* No order of reservations, restarts, sweeps and deletions puts more      *)
(* active rows of a lane into a project, or of a requester, than the       *)
(* largest limit admission ever allowed.                                   *)
THEOREM LimitsKept == Spec => []LimitsHeld
<1>1. Init => LimitsInv
  <2> SUFFICES ASSUME Init PROVE LimitsInv
    OBVIOUS
  <2>1. IInv
    BY InitEstablishes
  <2>2. \A k \in Keys : ~IsActive(k)
    BY DEF Init, IsActive, NoRow, ActiveStatuses
  <2>3. {k \in Keys : IsActive(k)} = {}
    BY <2>2
  <2> QED
    BY <2>1, <2>2, <2>3, FS_EmptySet DEF LimitsInv, LimitsHeld
<1>2. LimitsInv /\ [Next]_storeVars => LimitsInv'
  <2> SUFFICES ASSUME LimitsInv, [Next]_storeVars PROVE LimitsInv'
    OBVIOUS
  <2>1. IInv'
    BY StepPreserves DEF LimitsInv
  <2>2. CASE \E k \in Keys : ReserveAny(k)
    BY <2>1, <2>2, ReserveLimits DEF ReserveAny, LimitsInv
  <2>3. CASE ~\E k \in Keys : ReserveAny(k)
    BY <2>1, <2>3, MostAreQuieter, QuieterStep DEF LimitsInv
  <2> QED
    BY <2>2, <2>3
<1>3. LimitsInv => LimitsHeld
  BY DEF LimitsInv
<1> QED
  BY <1>1, <1>2, <1>3, PTL DEF Spec
=============================================================================
