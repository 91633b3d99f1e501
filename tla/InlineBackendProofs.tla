------------------------- MODULE InlineBackendProofs -------------------------
(***************************************************************************)
(* Proofs about the inline backend, for every set of keys, lanes, callers, *)
(* cancellers and policies, every fault pattern and every bound.           *)
(***************************************************************************)
EXTENDS InlineBackend, TaskStoreProofs

Calls == [pc : {"reserved", "marked", "full"}, loop : {Main} \cup TaskIds, id : TaskIds]

Cancels == [pc : {"flagged", "acked"}, loop : {Main}, id : TaskIds]

(* The part of the backend's state the proofs lean on is well formed.      *)
LaneWiring ==
  /\ policy \in [Lanes -> Policies]
  /\ active \in [Lanes -> Nat]
  /\ queue = [l \in Lanes |-> queue[l]]
  /\ drain = [loop |-> drain.loop, lanes |-> drain.lanes]

Wiring ==
  /\ LaneWiring
  /\ keyOf \in [TaskIds -> Keys]
  /\ call \in [Callers -> Calls \cup {Idle}]
  /\ cxl \in [Cancellers -> Cancels \cup {Idle}]

(* A row sits under the key its run was submitted for, and a cancelled run *)
(* has been issued.                                                        *)
RowsUnderTheirKeys ==
  /\ \A k \in Keys : rows[k].id # 0 => keyOf[rows[k].id] = k
  /\ \A x \in Cancellers : cxl[x].id < nextId

(* The inductive invariant.                                                *)
BackendInv ==
  /\ IInv
  /\ Wiring
  /\ RowsUnderTheirKeys
  /\ WorkConserving
  /\ CancelSticks

----------------------------------------------------------------------------
(* Every step of the backend is a step of the store, or leaves it alone.   *)
LEMMA StoreStep ==
  ASSUME IInv, Wiring, BackendNext
  PROVE  [Next]_storeVars
<1> USE StoreAssumption, BackendAssumption DEF Wiring, LaneWiring
<1>1. ASSUME NEW k \in Keys, NEW id \in TaskIds,
             \/ \E s \in {"queued", "running"}, d \in BOOLEAN : Progress(k, id, s, d)
             \/ Complete(k, id) \/ Fail(k, id) \/ Cancel(k, id)
      PROVE  Next
  BY <1>1 DEF Next, WriteAny
<1>2. ASSUME NEW p, Fault(p) PROVE UNCHANGED storeVars
  BY <1>2 DEF Fault
<1>3. ASSUME NEW c \in Callers, NEW lp, NEW k \in Keys, NEW u \in Users,
             EnqueueReserve(c, lp, k, u)
      PROVE  Next
  <2>1. policy[LaneOf[k]].lim \in Limits
    OBVIOUS
  <2> QED
    BY <1>3, <2>1 DEF EnqueueReserve, Next, ReserveAny
<1>4. ASSUME NEW c \in Callers, EnqueueStep(c) PROVE [Next]_storeVars
  <2>1. CASE EnqueueMark(c)
    <3>1. call[c].id \in TaskIds
      BY <2>1 DEF EnqueueMark, Calls, Idle
    <3> QED
      BY <2>1, <3>1, <1>1, <1>2 DEF EnqueueMark
  <2>2. CASE EnqueueFull(c)
    <3>1. call[c].id \in TaskIds
      BY <2>2 DEF EnqueueFull, Calls, Idle
    <3> QED
      BY <2>2, <3>1, <1>1, <1>2 DEF EnqueueFull
  <2>3. CASE EnqueueSubmit(c) \/ EnqueueAborted(c)
    BY <2>3 DEF EnqueueSubmit, EnqueueAborted
  <2> QED
    BY <1>4, <2>1, <2>2, <2>3 DEF EnqueueStep
<1>5. ASSUME NEW id \in TaskIds, WorkerStep(id) \/ Report(id) PROVE [Next]_storeVars
  <2>1. CASE Begin(id)
    BY <2>1, <1>1, <1>2 DEF Begin
  <2>2. CASE Finish(id)
    BY <2>2, <1>1, <1>2 DEF Finish
  <2>3. CASE Settle(id)
    BY <2>3, <1>1, <1>2 DEF Settle
  <2>4. CASE Report(id)
    BY <2>4, <1>1 DEF Report
  <2>5. CASE FirstStep(id) \/ CheckCancel(id) \/ EndRun(id) \/ EndWorkflow(id)
              \/ CloseLoop(id) \/ DoneCallback(id)
    BY <2>5 DEF FirstStep, CheckCancel, EndRun, EndWorkflow, CloseLoop, DoneCallback
  <2> QED
    BY <1>5, <2>1, <2>2, <2>3, <2>4, <2>5 DEF WorkerStep
<1>6. ASSUME NEW l, DrainStep(l) PROVE UNCHANGED storeVars
  BY <1>6 DEF DrainStep
<1>7. ASSUME NEW pol, Configure(pol) PROVE UNCHANGED storeVars
  BY <1>7 DEF Configure
<1>8. ASSUME NEW x \in Cancellers, CancelWrite(x) PROVE [Next]_storeVars
  <2>1. cxl[x].id \in TaskIds
    BY <1>8 DEF CancelWrite, Cancels, Idle
  <2> QED
    BY <1>8, <2>1, <1>1, <1>2 DEF CancelWrite
<1>9. ASSUME NEW x, NEW k, CancelRequest(x, k) PROVE UNCHANGED storeVars
  BY <1>9 DEF CancelRequest
<1>10. CASE StoreOnly
  BY <1>10 DEF StoreOnly, Next
<1>11. CASE BackendRestart
  BY <1>11 DEF BackendRestart, Next
<1> QED
  BY <1>3, <1>4, <1>5, <1>6, <1>7, <1>8, <1>9, <1>10, <1>11 DEF BackendNext

----------------------------------------------------------------------------
(* The lanes.                                                              *)

(* The steps that touch a lane.                                            *)
LEMMA LaneCases ==
  ASSUME BackendNext
  PROVE  \/ UNCHANGED laneVars
         \/ \E l \in Lanes : DrainStep(l)
         \/ \E pol \in Policies : Configure(pol)
         \/ \E c \in Callers : EnqueueSubmit(c)
         \/ \E id \in TaskIds : DoneCallback(id)
         \/ \E x \in Cancellers, k \in Keys : CancelRequest(x, k)
         \/ BackendRestart
<1>1. ASSUME NEW c \in Callers, NEW lp, NEW k \in Keys, NEW u \in Users,
             EnqueueReserve(c, lp, k, u)
      PROVE  UNCHANGED laneVars
  BY <1>1 DEF EnqueueReserve
<1>2. ASSUME NEW c \in Callers, EnqueueMark(c) \/ EnqueueFull(c) \/ EnqueueAborted(c)
      PROVE  UNCHANGED laneVars
  BY <1>2 DEF EnqueueMark, EnqueueFull, EnqueueAborted
<1>3. ASSUME NEW id \in TaskIds,
             \/ FirstStep(id) \/ CheckCancel(id) \/ Begin(id) \/ EndRun(id)
             \/ EndWorkflow(id) \/ CloseLoop(id) \/ Finish(id) \/ Settle(id) \/ Report(id)
      PROVE  UNCHANGED laneVars
  BY <1>3 DEF FirstStep, CheckCancel, Begin, EndRun, EndWorkflow, CloseLoop, Finish,
              Settle, Report, backendVars
<1>4. ASSUME NEW x \in Cancellers, CancelWrite(x) PROVE UNCHANGED laneVars
  BY <1>4 DEF CancelWrite
<1>5. CASE StoreOnly
  BY <1>5 DEF StoreOnly, backendVars
<1> QED
  BY <1>1, <1>2, <1>3, <1>4, <1>5 DEF BackendNext, EnqueueStep, WorkerStep

(* Starting a job never lowers a lane's count.                             *)
LEMMA StartCounts ==
  ASSUME LaneWiring, NEW id, NEW lp, Start(id, lp)
  PROVE  /\ active' \in [Lanes -> Nat]
         /\ \A l \in Lanes : active'[l] >= active[l]
<1>1. active \in [Lanes -> Nat]
  BY DEF LaneWiring
<1>2. active' = [l \in Lanes |-> IF l = Lane(id) THEN active[l] + 1 ELSE active[l]]
  BY <1>1 DEF Start
<1> QED
  BY <1>1, <1>2

LEMMA LanesWired ==
  ASSUME LaneWiring, BackendNext
  PROVE  LaneWiring'
<1> USE BackendAssumption
<1>1. CASE UNCHANGED laneVars
  BY <1>1 DEF laneVars, LaneWiring
<1>2. ASSUME NEW l \in Lanes, DrainStep(l) PROVE LaneWiring'
  <2>1. CASE UNCHANGED <<queue, active>>
    BY <1>2, <2>1 DEF DrainStep, LaneWiring
  <2>2. ASSUME NEW id, NEW lp, Start(id, lp) PROVE active' \in [Lanes -> Nat]
    BY <2>2, StartCounts
  <2>3. policy' = policy /\ drain' = [loop |-> drain'.loop, lanes |-> drain'.lanes]
    BY <1>2 DEF DrainStep, LaneWiring
  <2>4. queue' = [m \in Lanes |-> queue'[m]]
    BY <1>2 DEF DrainStep, LaneWiring
  <2> QED
    BY <1>2, <2>1, <2>2, <2>3, <2>4 DEF DrainStep, LaneWiring
<1>3. ASSUME NEW pol \in Policies, Configure(pol) PROVE LaneWiring'
  BY <1>3 DEF Configure, LaneWiring
<1>4. ASSUME NEW c \in Callers, EnqueueSubmit(c) PROVE LaneWiring'
  <2>1. active' \in [Lanes -> Nat]
    <3>1. ASSUME NEW id, NEW lp, Start(id, lp) PROVE active' \in [Lanes -> Nat]
      BY <3>1, StartCounts
    <3>2. (\E id, lp : Start(id, lp)) \/ active' = active
      BY <1>4 DEF EnqueueSubmit
    <3> QED
      BY <3>1, <3>2 DEF LaneWiring
  <2>2. queue' = [m \in Lanes |-> queue'[m]]
    BY <1>4 DEF EnqueueSubmit, LaneWiring
  <2> QED
    BY <1>4, <2>1, <2>2 DEF EnqueueSubmit, LaneWiring
<1>5. ASSUME NEW id \in TaskIds, DoneCallback(id) PROVE LaneWiring'
  <2>1. active' = [l \in Lanes |-> IF l = Lane(id)
                                     THEN IF active[l] > 0 THEN active[l] - 1 ELSE 0
                                     ELSE active[l]]
    BY <1>5 DEF DoneCallback, LaneWiring
  <2>2. active' \in [Lanes -> Nat]
    BY <2>1 DEF LaneWiring
  <2> QED
    BY <1>5, <2>2 DEF DoneCallback, DrainAfter, LaneWiring
<1>6. ASSUME NEW x \in Cancellers, NEW k \in Keys, CancelRequest(x, k)
      PROVE LaneWiring'
  BY <1>6 DEF CancelRequest, LaneWiring
<1>7. CASE BackendRestart
  BY <1>7 DEF BackendRestart, NoDrain, LaneWiring
<1> QED
  BY <1>1, <1>2, <1>3, <1>4, <1>5, <1>6, <1>7, LaneCases

(* No lane code is running and a lane has a queue: its slots are taken.    *)
LEMMA ConservingStep ==
  ASSUME LaneWiring, WorkConserving, BackendNext
  PROVE  WorkConserving'
<1> USE BackendAssumption
<1>0. /\ active \in [Lanes -> Nat]
      /\ \A l \in Lanes : policy[l].conc \in Nat
  BY DEF LaneWiring
<1>1. CASE UNCHANGED laneVars
  BY <1>1 DEF laneVars, WorkConserving
<1>2. ASSUME NEW l \in Lanes, DrainStep(l) PROVE WorkConserving'
  <2>1. CASE active[l] < policy[l].conc /\ queue[l] # <<>>
    <3>1. /\ \A m \in Lanes : active'[m] >= active[m]
          /\ active' \in [Lanes -> Nat]
          /\ drain' = drain /\ l \in drain.lanes
          /\ policy' = policy
          /\ \A m \in Lanes \ {l} : queue'[m] = queue[m]
      BY <1>2, <2>1, StartCounts DEF DrainStep, LaneWiring
    <3> QED
      BY <1>0, <3>1 DEF WorkConserving
  <2>2. CASE ~(active[l] < policy[l].conc /\ queue[l] # <<>>)
    <3>1. /\ drain'.lanes = drain.lanes \ {l}
          /\ UNCHANGED <<policy, queue, active>>
      BY <1>2, <2>2 DEF DrainStep, LaneWiring
    <3> QED
      BY <1>0, <2>2, <3>1 DEF WorkConserving
  <2> QED
    BY <2>1, <2>2
<1>3. ASSUME NEW pol \in Policies, Configure(pol) PROVE WorkConserving'
  <2>1. /\ drain.lanes = {} /\ drain'.lanes = ManagedLanes
        /\ \A m \in Lanes \ ManagedLanes : policy'[m] = policy[m]
        /\ UNCHANGED <<queue, active>>
    BY <1>3 DEF Configure, LanesFree
  <2> QED
    BY <2>1 DEF WorkConserving
<1>4. ASSUME NEW c \in Callers, EnqueueSubmit(c) PROVE WorkConserving'
  <2> DEFINE l == Lane(call[c].id)
  <2>1. drain' = drain /\ policy' = policy
    BY <1>4 DEF EnqueueSubmit
  <2>2. CASE active[l] < policy[l].conc /\ Start(call[c].id, call[c].loop) /\ queue' = queue
    <3>1. /\ \A m \in Lanes : active'[m] >= active[m]
          /\ active' \in [Lanes -> Nat]
      BY <2>2, StartCounts
    <3> QED
      BY <1>0, <2>1, <2>2, <3>1 DEF WorkConserving
  <2>3. CASE /\ active[l] >= policy[l].conc
             /\ queue' = [queue EXCEPT ![l] = Append(@, call[c].id)]
             /\ active' = active
    BY <2>1, <2>3 DEF WorkConserving, LaneWiring
  <2>4. CASE UNCHANGED <<queue, active>>
    BY <2>1, <2>4 DEF WorkConserving
  <2> QED
    BY <1>4, <2>2, <2>3, <2>4 DEF EnqueueSubmit
<1>5. ASSUME NEW id \in TaskIds, DoneCallback(id) PROVE WorkConserving'
  <2>1. /\ drain.lanes = {} /\ drain'.lanes = {Lane(id)}
        /\ UNCHANGED <<policy, queue>>
        /\ \A m \in Lanes \ {Lane(id)} : active'[m] = active[m]
    BY <1>0, <1>5 DEF DoneCallback, DrainAfter, LanesFree
  <2> QED
    BY <2>1 DEF WorkConserving
<1>6. ASSUME NEW x \in Cancellers, NEW k \in Keys, CancelRequest(x, k)
      PROVE WorkConserving'
  <2>1. \A l \in Lanes : queue[l] = <<>> => queue'[l] = <<>>
    <3>1. \A id : RemoveFirst(<<>>, id) = <<>>
      BY DEF RemoveFirst
    <3> QED
      BY <1>6, <3>1 DEF CancelRequest
  <2>2. UNCHANGED <<policy, active, drain>>
    BY <1>6 DEF CancelRequest
  <2> QED
    BY <2>1, <2>2 DEF WorkConserving
<1>7. CASE BackendRestart
  BY <1>7 DEF BackendRestart, WorkConserving
<1> QED
  BY <1>1, <1>2, <1>3, <1>4, <1>5, <1>6, <1>7, LaneCases

----------------------------------------------------------------------------
(* Submissions and cancellations.                                          *)

(* Only a reservation issues an id or names its key.                       *)
LEMMA IssueCases ==
  ASSUME IInv, Wiring, BackendNext
  PROVE  \/ \E c \in Callers, lp \in {Main} \cup TaskIds, k \in Keys, u \in Users :
              EnqueueReserve(c, lp, k, u)
         \/ UNCHANGED <<nextId, keyOf>>
<1> DEFINE Quiet == UNCHANGED <<nextId, keyOf>>
<1>1. ASSUME NEW k, NEW id, NEW s, NEW d, Write(k, id, s, d) PROVE nextId' = nextId
  BY <1>1 DEF Write
<1>2. ASSUME NEW p, Fault(p) PROVE nextId' = nextId
  BY <1>2 DEF Fault, storeVars
<1>3. ASSUME NEW c \in Callers, EnqueueStep(c) PROVE Quiet
  BY <1>3, <1>1, <1>2 DEF EnqueueStep, EnqueueMark, EnqueueSubmit, EnqueueFull,
                          EnqueueAborted, Progress, Fail, storeVars
<1>4. ASSUME NEW id \in TaskIds, WorkerStep(id) \/ Report(id) PROVE Quiet
  <2>1. CASE Begin(id) \/ Finish(id) \/ Settle(id) \/ Report(id)
    BY <2>1, <1>1, <1>2 DEF Begin, Finish, Settle, Report, Progress, Complete, Fail, Cancel,
                            backendVars
  <2>2. CASE FirstStep(id) \/ CheckCancel(id) \/ EndRun(id) \/ EndWorkflow(id)
              \/ CloseLoop(id) \/ DoneCallback(id)
    BY <2>2 DEF FirstStep, CheckCancel, EndRun, EndWorkflow, CloseLoop, DoneCallback, storeVars
  <2> QED
    BY <1>4, <2>1, <2>2 DEF WorkerStep
<1>5. ASSUME NEW l, DrainStep(l) PROVE Quiet
  BY <1>5 DEF DrainStep, storeVars
<1>6. ASSUME NEW pol, Configure(pol) PROVE Quiet
  BY <1>6 DEF Configure, storeVars
<1>7. ASSUME NEW x, CancelWrite(x) PROVE Quiet
  BY <1>7, <1>1, <1>2 DEF CancelWrite, Cancel
<1>8. ASSUME NEW x, NEW k, CancelRequest(x, k) PROVE Quiet
  BY <1>8 DEF CancelRequest, storeVars
<1>9. CASE StoreOnly
  BY <1>9 DEF StoreOnly, backendVars, Sweep, SweepFails, Expire, DeleteSeen,
              SeeExpired, SeeCompleted
<1>10. CASE BackendRestart
  BY <1>10 DEF BackendRestart, Restart
<1> QED
  BY <1>3, <1>4, <1>5, <1>6, <1>7, <1>8, <1>9, <1>10 DEF BackendNext

(* The submissions stay well formed.                                       *)
LEMMA CallsWired ==
  ASSUME Wiring, BackendNext
  PROVE  /\ keyOf' \in [TaskIds -> Keys]
         /\ call' \in [Callers -> Calls \cup {Idle}]
<1> DEFINE Goal == /\ keyOf' \in [TaskIds -> Keys]
                   /\ call' \in [Callers -> Calls \cup {Idle}]
<1> USE DEF Wiring
<1>1. ASSUME NEW c \in Callers, NEW lp \in {Main} \cup TaskIds, NEW k \in Keys, NEW u \in Users,
             EnqueueReserve(c, lp, k, u)
      PROVE  Goal
  BY <1>1 DEF EnqueueReserve, Reserve, Calls
<1>2. ASSUME NEW c \in Callers, EnqueueStep(c) PROVE Goal
  <2>1. keyOf' = keyOf
    BY <1>2 DEF EnqueueStep, EnqueueMark, EnqueueSubmit, EnqueueFull, EnqueueAborted
  <2>2. call[c].pc # "idle" => call[c] \in Calls
    BY DEF Idle
  <2>3. \A pc \in {"marked", "full"} : call[c].pc # "idle" => [call[c] EXCEPT !.pc = pc] \in Calls
    BY <2>2 DEF Calls
  <2>4. \/ call' = [call EXCEPT ![c] = Idle]
        \/ /\ call[c].pc # "idle"
           /\ \E pc \in {"marked", "full"} : call' = [call EXCEPT ![c] = [@ EXCEPT !.pc = pc]]
    BY <1>2 DEF EnqueueStep, EnqueueMark, EnqueueSubmit, EnqueueFull, EnqueueAborted
  <2> QED
    BY <2>1, <2>3, <2>4
<1>3. ASSUME NEW id \in TaskIds, WorkerStep(id) \/ Report(id) PROVE UNCHANGED <<keyOf, call>>
  BY <1>3 DEF WorkerStep, FirstStep, CheckCancel, Begin, EndRun, EndWorkflow, CloseLoop,
              Finish, DoneCallback, Settle, Report, backendVars
<1>4. ASSUME NEW l, DrainStep(l) PROVE UNCHANGED <<keyOf, call>>
  BY <1>4 DEF DrainStep
<1>5. ASSUME NEW pol, Configure(pol) PROVE UNCHANGED <<keyOf, call>>
  BY <1>5 DEF Configure
<1>6. ASSUME NEW x, NEW k, CancelWrite(x) \/ CancelRequest(x, k) PROVE UNCHANGED <<keyOf, call>>
  BY <1>6 DEF CancelWrite, CancelRequest
<1>7. CASE StoreOnly
  BY <1>7 DEF StoreOnly, backendVars
<1>8. CASE BackendRestart
  BY <1>8 DEF BackendRestart
<1> QED
  BY <1>1, <1>2, <1>3, <1>4, <1>5, <1>6, <1>7, <1>8 DEF BackendNext

(* How one cancellation moves: it stays, it is forgotten, it names the run *)
(* of a row, or it has written the row it named.                           *)
CancelMoves(x) ==
  \/ cxl'[x] = cxl[x]
  \/ cxl'[x] = Idle
  \/ \E k \in Keys : rows[k] # NoRow /\ cxl'[x] = [pc |-> "flagged", loop |-> Main, id |-> rows[k].id]
  \/ /\ cxl[x].pc = "flagged"
     /\ cxl'[x] = [pc |-> "acked", loop |-> Main, id |-> cxl[x].id]
     /\ Cancel(keyOf[cxl[x].id], cxl[x].id)

LEMMA CancelCases ==
  ASSUME Wiring, BackendNext, NEW x \in Cancellers
  PROVE  CancelMoves(x)
<1> USE DEF Wiring
<1>1. ASSUME NEW y \in Cancellers, CancelWrite(y) PROVE CancelMoves(x)
  <2>1. CASE x = y
    <3>1. CASE cxl' = [cxl EXCEPT ![x] = Idle]
      BY <3>1 DEF CancelMoves
    <3>2. CASE /\ cxl[x].pc = "flagged"
               /\ Cancel(keyOf[cxl[x].id], cxl[x].id)
               /\ cxl'[x] = [cxl[x] EXCEPT !.pc = "acked"]
      <4>1. cxl[x] \in Cancels
        BY <3>2 DEF Idle
      <4>2. cxl'[x] = [pc |-> "acked", loop |-> Main, id |-> cxl[x].id]
        BY <3>2, <4>1 DEF Cancels
      <4> QED
        BY <3>2, <4>2 DEF CancelMoves
    <3> QED
      BY <1>1, <2>1, <3>1, <3>2 DEF CancelWrite
  <2>2. CASE x # y
    BY <1>1, <2>2 DEF CancelWrite, CancelMoves
  <2> QED
    BY <2>1, <2>2
<1>2. ASSUME NEW y \in Cancellers, NEW k \in Keys, CancelRequest(y, k) PROVE CancelMoves(x)
  BY <1>2 DEF CancelRequest, CancelMoves
<1>3. CASE BackendRestart
  BY <1>3 DEF BackendRestart, CancelMoves
<1>4. ASSUME NEW c, NEW lp, NEW k, NEW u, EnqueueReserve(c, lp, k, u) PROVE cxl' = cxl
  BY <1>4 DEF EnqueueReserve
<1>5. ASSUME NEW c, EnqueueStep(c) PROVE cxl' = cxl
  BY <1>5 DEF EnqueueStep, EnqueueMark, EnqueueSubmit, EnqueueFull, EnqueueAborted
<1>6. ASSUME NEW id, WorkerStep(id) \/ Report(id) PROVE cxl' = cxl
  BY <1>6 DEF WorkerStep, FirstStep, CheckCancel, Begin, EndRun, EndWorkflow, CloseLoop,
              Finish, DoneCallback, Settle, Report, backendVars
<1>7. ASSUME NEW l, DrainStep(l) PROVE cxl' = cxl
  BY <1>7 DEF DrainStep
<1>8. ASSUME NEW pol, Configure(pol) PROVE cxl' = cxl
  BY <1>8 DEF Configure
<1>9. ASSUME StoreOnly PROVE cxl' = cxl
  BY <1>9 DEF StoreOnly, backendVars
<1> QED
  <2>1. cxl' = cxl => CancelMoves(x)
    BY DEF CancelMoves
  <2> QED
    BY <1>1, <1>2, <1>3, <1>4, <1>5, <1>6, <1>7, <1>8, <1>9, <2>1 DEF BackendNext

LEMMA CancelsWired ==
  ASSUME IInv, Wiring, BackendNext
  PROVE  cxl' \in [Cancellers -> Cancels \cup {Idle}]
<1>1. \A x \in Cancellers : cxl'[x] \in Cancels \cup {Idle}
  <2> TAKE x \in Cancellers
  <2>1. CancelMoves(x)
    BY CancelCases
  <2>2. cxl[x] \in Cancels \cup {Idle}
    BY DEF Wiring
  <2>3. ASSUME NEW k \in Keys, rows[k] # NoRow PROVE rows[k].id \in TaskIds
    BY <2>3 DEF IInv, TypeOK, Row
  <2>4. cxl[x].pc = "flagged" => [pc |-> "acked", loop |-> Main, id |-> cxl[x].id] \in Cancels
    BY <2>2 DEF Cancels, Idle
  <2> QED
    <3>1. \A i \in TaskIds : [pc |-> "flagged", loop |-> Main, id |-> i] \in Cancels
      BY DEF Cancels
    <3> QED
      BY <2>1, <2>2, <2>3, <2>4, <3>1 DEF CancelMoves
<1>2. cxl' = [x \in Cancellers |-> cxl'[x]]
  <2> USE DEF Wiring
  <2>1. ASSUME NEW c, NEW lp, NEW k, NEW u, EnqueueReserve(c, lp, k, u) PROVE cxl' = cxl
    BY <2>1 DEF EnqueueReserve
  <2>2. ASSUME NEW c, EnqueueStep(c) PROVE cxl' = cxl
    BY <2>2 DEF EnqueueStep, EnqueueMark, EnqueueSubmit, EnqueueFull, EnqueueAborted
  <2>3. ASSUME NEW id, WorkerStep(id) \/ Report(id) PROVE cxl' = cxl
    BY <2>3 DEF WorkerStep, FirstStep, CheckCancel, Begin, EndRun, EndWorkflow, CloseLoop,
                Finish, DoneCallback, Settle, Report, backendVars
  <2> QED
    BY <2>1, <2>2, <2>3 DEF BackendNext, DrainStep, Configure, CancelWrite, CancelRequest,
                            StoreOnly, BackendRestart, backendVars
<1> QED
  BY <1>1, <1>2

(* Rows stay under the keys of their runs.                                 *)
LEMMA KeysStep ==
  ASSUME IInv, IInv', Wiring, RowsUnderTheirKeys, BackendNext
  PROVE  RowsUnderTheirKeys'
<1> USE StoreAssumption
<1>0. /\ nextId \in Nat /\ nextId' \in Nat /\ nextId >= 1 /\ nextId' >= 1
      /\ rows \in [Keys -> Row \cup {NoRow}]
      /\ \A k \in Keys : rows[k].id < nextId /\ rows'[k].id < nextId' /\ rows[k].id \in Nat
  BY DEF IInv, TypeOK, IdsAreOwn, Row, NoRow, TaskIds
<1>1. ASSUME NEW c \in Callers, NEW lp, NEW k \in Keys, NEW u \in Users,
             EnqueueReserve(c, lp, k, u)
      PROVE  RowsUnderTheirKeys'
  <2>1. /\ nextId \in TaskIds /\ nextId' = nextId + 1
        /\ rows'[k].id = nextId
        /\ \A j \in Keys \ {k} : rows'[j] = rows[j]
        /\ keyOf' = [keyOf EXCEPT ![nextId] = k]
        /\ cxl' = cxl
    BY <1>0, <1>1 DEF EnqueueReserve, Reserve
  <2>2. /\ keyOf'[nextId] = k
        /\ \A i \in TaskIds : i # nextId => keyOf'[i] = keyOf[i]
    BY <2>1 DEF Wiring
  <2>3. \A j \in Keys : rows'[j].id # 0 => keyOf'[rows'[j].id] = j
    <3> TAKE j \in Keys
    <3>1. CASE j = k
      BY <2>1, <2>2, <3>1
    <3>2. CASE j # k /\ rows[j].id # 0
      <4>1. rows[j].id \in TaskIds /\ rows[j].id # nextId
        BY <1>0, <3>2 DEF NoRow, Row
      <4> QED
        BY <2>1, <2>2, <3>2, <4>1 DEF RowsUnderTheirKeys
    <3> QED
      BY <2>1, <3>1, <3>2
  <2>4. \A x \in Cancellers : cxl'[x].id < nextId'
    <3>1. \A x \in Cancellers : cxl[x].id \in Nat
      BY DEF Wiring, Cancels, Idle, TaskIds
    <3> QED
      BY <1>0, <2>1, <3>1 DEF RowsUnderTheirKeys
  <2> QED
    BY <2>3, <2>4 DEF RowsUnderTheirKeys
<1>2. CASE UNCHANGED <<nextId, keyOf>>
  <2>1. [Next]_storeVars
    BY StoreStep
  <2>2. \A k \in Keys : rows'[k].id = rows[k].id \/ rows'[k].id = 0
    <3>1. CASE UNCHANGED storeVars
      BY <3>1 DEF storeVars
    <3>2. CASE Next
      BY <1>0, <1>2, <3>2, RowsMove DEF RowMoves, NoRow
    <3> QED
      BY <2>1, <3>1, <3>2
  <2>3. \A k \in Keys : rows'[k].id # 0 => keyOf'[rows'[k].id] = k
    BY <1>2, <2>2 DEF RowsUnderTheirKeys
  <2>4. ASSUME NEW x \in Cancellers PROVE cxl'[x].id < nextId'
    <3>1. CancelMoves(x)
      BY CancelCases
    <3>2. cxl[x] \in Cancels \cup {Idle} /\ cxl[x].id < nextId
      BY DEF Wiring, RowsUnderTheirKeys
    <3>4. \/ cxl'[x].id = cxl[x].id
          \/ cxl'[x].id = 0
          \/ \E k \in Keys : cxl'[x].id = rows[k].id
      <4>1. CASE cxl'[x] = cxl[x]
        BY <4>1
      <4>2. CASE cxl'[x] = Idle
        BY <4>2 DEF Idle
      <4>3. ASSUME NEW k \in Keys, cxl'[x] = [pc |-> "flagged", loop |-> Main, id |-> rows[k].id]
            PROVE  cxl'[x].id = rows[k].id
        BY <4>3
      <4>4. CASE cxl'[x] = [pc |-> "acked", loop |-> Main, id |-> cxl[x].id]
        BY <4>4
      <4> QED
        BY <3>1, <4>1, <4>2, <4>3, <4>4 DEF CancelMoves
    <3> QED
      BY <1>0, <1>2, <3>2, <3>4
  <2> QED
    BY <2>3, <2>4 DEF RowsUnderTheirKeys
<1> QED
  BY <1>1, <1>2, IssueCases

----------------------------------------------------------------------------
(* The run named by an answered cancel request stays ended.                *)
LEMMA CancelStep ==
  ASSUME IInv, IInv', Wiring, RowsUnderTheirKeys, CancelSticks, BackendNext
  PROVE  CancelSticks'
<1> USE StoreAssumption
<1>0. /\ rows \in [Keys -> Row \cup {NoRow}]
      /\ nextId \in Nat
  BY DEF IInv, TypeOK, TaskIds
<1> SUFFICES ASSUME NEW x \in Cancellers, cxl'[x].pc = "acked",
                    NEW k \in Keys, rows'[k].id = cxl'[x].id
             PROVE  rows'[k].status \in TerminalStatuses
  BY DEF CancelSticks
<1>1. /\ CancelMoves(x)
      /\ cxl[x] \in Cancels \cup {Idle} /\ cxl[x].id < nextId
  BY CancelCases DEF Wiring, RowsUnderTheirKeys
<1>2. CASE cxl'[x] = cxl[x]
  <2>1. cxl[x].id \in TaskIds /\ (rows[k].id = cxl[x].id => rows[k].status \in TerminalStatuses)
    BY <1>1, <1>2 DEF Cancels, Idle, CancelSticks
  <2>2. CASE UNCHANGED storeVars
    BY <1>2, <2>1, <2>2 DEF storeVars
  <2>3. CASE Next
    <3>1. RowMoves(k)
      BY <2>3, RowsMove
    <3> QED
      BY <1>0, <1>1, <1>2, <2>1, <3>1
      DEF RowMoves, IsActive, NoRow, TaskIds, ActiveStatuses, TerminalStatuses
  <2> QED
    BY <2>2, <2>3, StoreStep
<1>3. CASE /\ cxl'[x] = [pc |-> "acked", loop |-> Main, id |-> cxl[x].id]
           /\ cxl[x].pc = "flagged"
           /\ Cancel(keyOf[cxl[x].id], cxl[x].id)
  <2> DEFINE i == cxl[x].id
  <2>1. i \in TaskIds /\ i # 0
    BY <1>1, <1>3 DEF Cancels, Idle, TaskIds
  <2>2. rows' = [rows EXCEPT ![keyOf[i]] = AfterWrite(rows[keyOf[i]], i, "cancelled", FALSE)]
    BY <1>3 DEF Cancel, Write
  <2>3. rows'[k].id = i
    BY <1>3
  <2>4. CASE keyOf[i] # k
    <3>1. rows[k].id = i
      BY <1>0, <2>2, <2>3, <2>4
    <3> QED
      BY <2>1, <2>4, <3>1 DEF RowsUnderTheirKeys
  <2>5. CASE keyOf[i] = k
    <3>1. rows'[k] = AfterWrite(rows[k], i, "cancelled", FALSE)
      BY <1>0, <2>2, <2>5
    <3>2. CASE rows[k].expired
      BY <2>1, <2>3, <3>1, <3>2 DEF AfterWrite, NoRow
    <3>3. CASE ~rows[k].expired /\ rows[k].id = i /\ rows[k].status \in ActiveStatuses
      <4>1. rows[k] \in Row
        BY <1>0, <2>1, <3>3 DEF NoRow
      <4> QED
        BY <3>1, <3>3, <4>1 DEF AfterWrite, Row, TerminalStatuses
    <3>4. CASE ~rows[k].expired /\ ~(rows[k].id = i /\ rows[k].status \in ActiveStatuses)
      <4>1. rows'[k] = rows[k]
        BY <3>1, <3>4 DEF AfterWrite
      <4>2. rows[k] \in Row /\ rows[k].status \notin ActiveStatuses
        BY <1>0, <2>1, <2>3, <3>4, <4>1 DEF NoRow
      <4> QED
        BY <4>1, <4>2 DEF Row
    <3> QED
      BY <3>2, <3>3, <3>4
  <2> QED
    BY <2>4, <2>5
<1>4. cxl'[x] # Idle
  BY DEF Idle
<1>5. \A k2 \in Keys : cxl'[x] # [pc |-> "flagged", loop |-> Main, id |-> rows[k2].id]
  OBVIOUS
<1>6. \/ cxl'[x] = cxl[x]
      \/ /\ cxl'[x] = [pc |-> "acked", loop |-> Main, id |-> cxl[x].id]
         /\ cxl[x].pc = "flagged"
         /\ Cancel(keyOf[cxl[x].id], cxl[x].id)
  BY <1>1, <1>4, <1>5 DEF CancelMoves
<1> QED
  BY <1>2, <1>3, <1>6

----------------------------------------------------------------------------
LEMMA BackendInitEstablishes == BackendInit => BackendInv
<1> SUFFICES ASSUME BackendInit PROVE BackendInv
  OBVIOUS
<1> USE StoreAssumption, BackendAssumption DEF BackendInit
<1>1. IInv
  BY InitEstablishes
<1>2. Wiring
  <2>1. keyOf \in [TaskIds -> Keys]
    <3>1. (CHOOSE k \in Keys : TRUE) \in Keys
      OBVIOUS
    <3> QED
      BY <3>1
  <2>2. LaneWiring
    BY <2>1 DEF LaneWiring, NoDrain
  <2>3. call \in [Callers -> Calls \cup {Idle}] /\ cxl \in [Cancellers -> Cancels \cup {Idle}]
    OBVIOUS
  <2> QED
    BY <2>1, <2>2, <2>3 DEF Wiring
<1>3. RowsUnderTheirKeys
  BY DEF Init, RowsUnderTheirKeys, NoRow, Idle
<1>4. WorkConserving /\ CancelSticks
  BY DEF WorkConserving, CancelSticks, Idle
<1> QED
  BY <1>1, <1>2, <1>3, <1>4 DEF BackendInv

LEMMA BackendStepPreserves == BackendInv /\ [BackendNext]_vars => BackendInv'
<1> SUFFICES ASSUME BackendInv, [BackendNext]_vars PROVE BackendInv'
  OBVIOUS
<1>1. CASE UNCHANGED vars
  BY <1>1 DEF BackendInv, vars, storeVars, backendVars, laneVars, IInv, TypeOK, IdsAreOwn,
              OnlyFinishedExpire, NoZombieAfterSweep, BootsArePast, ClearsSawCompleted,
              IsActive, Wiring, LaneWiring, RowsUnderTheirKeys, WorkConserving, CancelSticks
<1>2. CASE BackendNext
  <2>1. IInv /\ Wiring /\ RowsUnderTheirKeys /\ WorkConserving /\ CancelSticks
    BY DEF BackendInv
  <2>2. IInv'
    BY <1>2, <2>1, StoreStep, StepPreserves
  <2>3. Wiring'
    <3>1. LaneWiring'
      BY <1>2, <2>1, LanesWired DEF Wiring
    <3> QED
      BY <1>2, <2>1, <3>1, CallsWired, CancelsWired DEF Wiring
  <2>4. RowsUnderTheirKeys'
    BY <1>2, <2>1, <2>2, KeysStep
  <2>5. WorkConserving'
    BY <1>2, <2>1, ConservingStep DEF Wiring
  <2>6. CancelSticks'
    BY <1>2, <2>1, <2>2, CancelStep
  <2> QED
    BY <2>2, <2>3, <2>4, <2>5, <2>6 DEF BackendInv
<1> QED
  BY <1>1, <1>2

(* The invariant of the backend.                                           *)
THEOREM BackendInvariant == BackendSpec => []BackendInv
<1>1. BackendInit => BackendInv
  BY BackendInitEstablishes
<1>2. BackendInv /\ [BackendNext]_vars => BackendInv'
  BY BackendStepPreserves
<1> QED
  BY <1>1, <1>2, PTL DEF BackendSpec

(* An accepted job never waits beside a free slot, whatever the policies,  *)
(* the number of loops, the faults and the restarts                        *)
(* (InlineTaskBackend._drain_lane).                                        *)
THEOREM AcceptedWorkRuns == BackendSpec => []WorkConserving
<1>1. BackendInv => WorkConserving
  BY DEF BackendInv
<1> QED
  BY <1>1, BackendInvariant, PTL

(* A run whose cancellation was answered is never active or completed      *)
(* again (InlineTaskBackend.cancel_project_task).                          *)
THEOREM CancellationSticks == BackendSpec => []CancelSticks
<1>1. BackendInv => CancelSticks
  BY DEF BackendInv
<1> QED
  BY <1>1, BackendInvariant, PTL

(* The backend uses the store as the store's specification allows, so that *)
(* every property of the store holds of the two together.                  *)
THEOREM BackendImplementsStore == BackendSpec => Spec
<1>1. BackendInit => Init
  BY DEF BackendInit
<1>2. BackendInv /\ [BackendNext]_vars => [Next]_storeVars
  BY StoreStep DEF BackendInv, vars
<1> QED
  BY <1>1, <1>2, BackendInvariant, PTL DEF BackendSpec, Spec
=============================================================================
