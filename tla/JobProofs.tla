------------------------------ MODULE JobProofs ------------------------------
(***************************************************************************)
(* Proofs about the jobs of the inline backend: its lanes, worker threads, *)
(* wrappers and event loops, and the rows they answer for.  For every set  *)
(* of keys, lanes, callers, cancellers and policies, every fault pattern   *)
(* and every bound.                                                        *)
(***************************************************************************)
EXTENDS InlineBackendProofs, SequenceTheorems

(* A set of positive numbers up to n has a least element.                  *)
LEMMA MinOfPositions ==
  ASSUME NEW n \in Nat, NEW T \in SUBSET (1..n), T # {}
  PROVE  Min(T) \in T /\ \A m \in T : Min(T) <= m
<1> DEFINE U == {1..m : m \in T}
<1>1. U \subseteq FiniteSubsetsOf(1..n) /\ U # {}
  <2>1. ASSUME NEW m \in T PROVE 1..m \in FiniteSubsetsOf(1..n)
    <3>1. IsFiniteSet(1..m) /\ 1..m \subseteq 1..n
      BY FS_Interval
    <3> QED
      BY <3>1, Zenon DEF FiniteSubsetsOf
  <2> QED
    BY <2>1
<1>2. PICK I \in U : \A J \in U : <<J, I>> \notin StrictSubsetOrdering(1..n)
  <2>1. IsWellFoundedOn(StrictSubsetOrdering(1..n), FiniteSubsetsOf(1..n))
    BY FS_StrictSubsetOrderingWellFounded
  <2> QED
    BY <1>1, <2>1, WFMin
<1>3. PICK x \in T : I = 1..x
  OBVIOUS
<1>4. ASSUME NEW m \in T PROVE x <= m
  <2> SUFFICES ASSUME m < x PROVE FALSE
    OBVIOUS
  <2>1. 1..m \subseteq 1..x /\ x \in 1..x /\ x \notin 1..m /\ 1..x \subseteq 1..n /\ 1..m \in U
    OBVIOUS
  <2>2. <<1..m, 1..x>> \in StrictSubsetOrdering(1..n)
    BY <2>1, Zenon DEF StrictSubsetOrdering
  <2> QED
    BY <1>2, <1>3, <2>1, <2>2
<1> QED
  BY <1>4 DEF Min

(* What is left when the i-th element of s is removed.                     *)
LEMMA RemoveAtProperties ==
  ASSUME NEW S, NEW s \in Seq(S), NEW i \in 1..Len(s)
  PROVE  /\ RemoveAt(s, i) \in Seq(S)
         /\ Len(RemoveAt(s, i)) = Len(s) - 1
         /\ \A j \in 1..(Len(s) - 1) : RemoveAt(s, i)[j] = s[IF j < i THEN j ELSE j + 1]
<1> DEFINE a == SubSeq(s, 1, i - 1)
           b == SubSeq(s, i + 1, Len(s))
<1>1. s \in [1..Len(s) -> S] /\ Len(s) \in Nat
  OBVIOUS
<1>2. /\ a \in Seq(S) /\ Len(a) = i - 1
      /\ \A j \in 1..(i - 1) : a[j] = s[j]
  <2>1. \A j \in 1..(i - 1) : s[j] \in S
    BY <1>1
  <2>2. /\ a \in Seq(S) /\ Len(a) = IF 1 <= i - 1 THEN i - 1 - 1 + 1 ELSE 0
        /\ \A j \in 1..(i - 1 - 1 + 1) : a[j] = s[1 + j - 1]
    BY <2>1, SubSeqProperties
  <2> QED
    BY <2>2
<1>3. /\ b \in Seq(S) /\ Len(b) = Len(s) - i
      /\ \A j \in 1..(Len(s) - i) : b[j] = s[i + j]
  <2>1. \A j \in (i + 1)..Len(s) : s[j] \in S
    BY <1>1
  <2>2. /\ b \in Seq(S) /\ Len(b) = IF i + 1 <= Len(s) THEN Len(s) - (i + 1) + 1 ELSE 0
        /\ \A j \in 1..(Len(s) - (i + 1) + 1) : b[j] = s[(i + 1) + j - 1]
    BY <1>1, <2>1, SubSeqProperties
  <2> HIDE DEF b
  <2>3. b \in Seq(S) /\ Len(b) = Len(s) - i
    <3>1. ASSUME NEW n \in Nat, NEW l, i \in 1..n,
                 l = IF i + 1 <= n THEN n - (i + 1) + 1 ELSE 0
          PROVE  l = n - i
      BY <3>1
    <3> QED
      BY <1>1, <2>2, <3>1
  <2>4. ASSUME NEW j \in 1..(Len(s) - i) PROVE b[j] = s[i + j]
    <3>1. j \in 1..(Len(s) - (i + 1) + 1) /\ (i + 1) + j - 1 = i + j
      BY <1>1
    <3>2. b[j] = s[(i + 1) + j - 1]
      BY <2>2, <3>1, Zenon
    <3> QED
      BY <3>1, <3>2
  <2> QED
    BY <2>3, <2>4
<1> HIDE DEF a, b
<1>4. /\ a \o b \in Seq(S) /\ Len(a \o b) = Len(s) - 1
      /\ \A j \in 1..(Len(s) - 1) : (a \o b)[j] = IF j <= i - 1 THEN a[j] ELSE b[j - (i - 1)]
  <2>1. /\ a \o b \in Seq(S) /\ Len(a \o b) = Len(a) + Len(b)
        /\ \A j \in 1..(Len(a) + Len(b)) :
             (a \o b)[j] = IF j <= Len(a) THEN a[j] ELSE b[j - Len(a)]
    BY <1>2, <1>3, ConcatProperties
  <2>2. Len(a) = i - 1 /\ Len(a) + Len(b) = Len(s) - 1
    BY <1>1, <1>2, <1>3
  <2> QED
    BY <2>1, <2>2
<1>5. \A j \in 1..(Len(s) - 1) : (a \o b)[j] = s[IF j < i THEN j ELSE j + 1]
  BY <1>1, <1>2, <1>3, <1>4
<1> QED
  BY <1>4, <1>5 DEF RemoveAt, a, b

(* Removing the first e: the first position that holds it is removed.      *)
LEMMA RemoveFirstProperties ==
  ASSUME NEW S, NEW s \in Seq(S), NEW e
  PROVE  \/ /\ \A i \in 1..Len(s) : s[i] # e
            /\ RemoveFirst(s, e) = s
         \/ \E i \in 1..Len(s) : s[i] = e /\ RemoveFirst(s, e) = RemoveAt(s, i)
<1> DEFINE T == {i \in 1..Len(s) : s[i] = e}
<1>1. CASE T = {}
  BY <1>1 DEF RemoveFirst
<1>2. CASE T # {}
  <2>1. Min(T) \in T
    BY <1>2, MinOfPositions
  <2>2. RemoveFirst(s, e) = RemoveAt(s, Min(T))
    BY <1>2 DEF RemoveFirst, SelectInSeq
  <2> QED
    BY <2>1, <2>2
<1> QED
  BY <1>1, <1>2

(* Removing the first e leaves a sequence of the same set.                 *)
LEMMA RemoveFirstLeaves ==
  ASSUME NEW S, NEW s \in Seq(S), NEW e
  PROVE  RemoveFirst(s, e) \in Seq(S)
<1>1. CASE RemoveFirst(s, e) = s
  BY <1>1
<1>2. ASSUME NEW i \in 1..Len(s), RemoveFirst(s, e) = RemoveAt(s, i)
      PROVE  RemoveFirst(s, e) \in Seq(S)
  BY <1>2, RemoveAtProperties
<1> QED
  BY <1>1, <1>2, RemoveFirstProperties

----------------------------------------------------------------------------
(* Nothing has been done for run i yet.                                    *)
NotStarted(i) == job[i] = "none" /\ wrap[i] = "none"

(* The state of the jobs is well formed.                                   *)
JobTypes ==
  /\ queue \in [Lanes -> Seq(TaskIds)]
  /\ lastProject \in [Lanes -> Projects \cup {NoProject}]
  /\ drain \in [loop : {Main} \cup TaskIds, lanes : SUBSET Lanes]
  /\ job \in [TaskIds -> Steps]
  /\ wrap \in [TaskIds -> {"none", "waiting", "cancelled", "lost", "done"}]
  /\ host \in [TaskIds -> {Main} \cup TaskIds]
  /\ loop \in [TaskIds -> {"open", "closing", "closed"}]
  /\ outcome \in [TaskIds -> {"none", "complete", "fail", "raise", "cancel", "escaped"}]
  /\ flags \subseteq TaskIds
  /\ settle \subseteq TaskIds
  /\ faults \subseteq FaultPoints

(* A submission in progress is about a run that was issued and not         *)
(* started, and no two submissions are about the same run.                 *)
CallsAreFresh ==
  /\ \A i \in TaskIds : i >= nextId => NotStarted(i)
  /\ \A c \in Callers : call[c].pc # "idle" => call[c].id < nextId /\ NotStarted(call[c].id)
  /\ \A c, d \in Callers :
       call[c].pc # "idle" /\ call[d].pc # "idle" /\ call[c].id = call[d].id => c = d

(* A job has a wrapper once it left its queue to run, and the wrapper is   *)
(* done only after the thread; a job is skipped by a cancelled wrapper.    *)
ThreadsWrapped ==
  \A i \in TaskIds :
    /\ wrap[i] = "none" <=> job[i] \in {"none", "queued", "removed"}
    /\ wrap[i] = "done" => ThreadOver(i)
    /\ job[i] = "skipped" => wrap[i] # "waiting"

(* A loop that is closing has the outcome of its coroutine, and a wrapper  *)
(* is lost only with a loop.                                               *)
OutcomesKept ==
  \A i \in TaskIds :
    /\ job[i] = "closing" => outcome[i] # "none"
    /\ loop[i] = "closing" => outcome[i] # "none"
    /\ wrap[i] = "lost" => \E j \in TaskIds : outcome[j] # "none"

(* A thread that returned wrote the outcome of its run.                    *)
ReturnedEnded ==
  \A i \in TaskIds, k \in Keys :
    job[i] = "returned" /\ rows[k].id = i => ~IsActive(k)

(* The row of run i is active and this process wrote it.                   *)
Live(i) == /\ rows[keyOf[i]].id = i
           /\ IsActive(keyOf[i])
           /\ rows[keyOf[i]].boot = boot

(* Run i waits for its thread or is in it, before its last write.          *)
Busy(i) == job[i] \in {"queued", "starting", "check", "begin", "run", "closing"}

(* A run that nobody asked to cancel has the row of its key, from its      *)
(* reservation to its last write.                                          *)
RunsOwnRows ==
  /\ \A i \in TaskIds : Busy(i) /\ i \notin flags => Live(i)
  /\ \A c \in Callers : call[c].pc \in {"reserved", "marked"} /\ call[c].id \notin flags
                          => Live(call[c].id)

(* A cancel coroutine raised the flag of the run it is about.              *)
FlagsRaised == \A x \in Cancellers : cxl[x].pc # "idle" => cxl[x].id \in flags

(* A failure is settled only after the wrapper is done.                    *)
SettlesAreOver == \A i \in settle : wrap[i] = "done"

----------------------------------------------------------------------------
(* The steps that move no job.                                             *)
SilentStep ==
  \/ \E c \in Callers : EnqueueMark(c) \/ EnqueueFull(c) \/ EnqueueAborted(c)
  \/ \E id \in TaskIds : Settle(id) \/ Report(id)
  \/ \E pol \in Policies : Configure(pol)
  \/ \E x \in Cancellers : CancelWrite(x)
  \/ StoreOnly

(* A silent step leaves lanes, threads and loops alone, and a submission   *)
(* stays, is marked or ends.                                               *)
LEMMA Silent ==
  ASSUME Wiring, SilentStep
  PROVE  /\ UNCHANGED <<nextId, keyOf, queue, active, lastProject, job, wrap, host, loop,
                        outcome, flags>>
         /\ \A c \in Callers : \/ call'[c] = call[c]
                               \/ call'[c] = Idle
                               \/ /\ call[c].pc # "idle" /\ call'[c].id = call[c].id
                                  /\ call'[c].pc = "marked" /\ call[c].pc = "reserved"
<1> DEFINE Same == UNCHANGED <<nextId, keyOf, queue, active, lastProject, job, wrap, host, loop,
                               outcome, flags>>
<1>1. ASSUME NEW k, NEW id, NEW s, NEW d, Write(k, id, s, d) PROVE nextId' = nextId
  BY <1>1 DEF Write
<1>2. ASSUME NEW p, Fault(p) PROVE nextId' = nextId
  BY <1>2 DEF Fault, storeVars
<1>3. ASSUME NEW c \in Callers, EnqueueMark(c)
      PROVE  Same /\ (\/ call' = [call EXCEPT ![c].pc = "marked"]
                      \/ call' = [call EXCEPT ![c] = Idle])
  BY <1>1, <1>2, <1>3 DEF EnqueueMark, Progress, laneVars
<1>4. ASSUME NEW c \in Callers, EnqueueFull(c) PROVE Same /\ call' = [call EXCEPT ![c] = Idle]
  BY <1>1, <1>2, <1>4 DEF EnqueueFull, Fail, laneVars
<1>5. ASSUME NEW c \in Callers, EnqueueAborted(c) PROVE Same /\ call' = [call EXCEPT ![c] = Idle]
  BY <1>5 DEF EnqueueAborted, laneVars, storeVars
<1>6. ASSUME NEW id \in TaskIds, Settle(id) \/ Report(id) PROVE Same /\ call' = call
  BY <1>1, <1>2, <1>6 DEF Settle, Report, Fail, Progress, backendVars, laneVars
<1>7. ASSUME NEW pol, Configure(pol) PROVE Same /\ call' = call
  BY <1>7 DEF Configure, storeVars
<1>8. ASSUME NEW x \in Cancellers, CancelWrite(x) PROVE Same /\ call' = call
  BY <1>1, <1>2, <1>8 DEF CancelWrite, Cancel, laneVars
<1>9. ASSUME StoreOnly PROVE Same /\ call' = call
  <2>1. nextId' = nextId
    BY <1>9 DEF StoreOnly, Sweep, SweepFails, Expire, DeleteSeen, SeeExpired, SeeCompleted
  <2> QED
    BY <1>9, <2>1 DEF StoreOnly, backendVars, laneVars
<1>10. ASSUME NEW c \in Callers, EnqueueMark(c), call' = [call EXCEPT ![c].pc = "marked"]
       PROVE  \A b \in Callers : \/ call'[b] = call[b]
                                 \/ /\ call[b].pc # "idle" /\ call'[b].id = call[b].id
                                    /\ call'[b].pc = "marked" /\ call[b].pc = "reserved"
  <2>1. call[c].pc = "reserved" /\ call[c] \in Calls
    BY <1>10 DEF EnqueueMark, Wiring, Idle
  <2>2. call'[c] = [call[c] EXCEPT !.pc = "marked"] /\ \A b \in Callers \ {c} : call'[b] = call[b]
    BY <1>10 DEF Wiring
  <2>3. call'[c].id = call[c].id /\ call'[c].pc = "marked"
    BY <2>1, <2>2 DEF Calls
  <2> QED
    BY <2>1, <2>2, <2>3
<1>11. ASSUME NEW c \in Callers, call' = [call EXCEPT ![c] = Idle]
       PROVE  \A b \in Callers : call'[b] = call[b] \/ call'[b] = Idle
  BY <1>11 DEF Wiring
<1> DEFINE Drops(c) == call' = [call EXCEPT ![c] = Idle]
           Marks(c) == EnqueueMark(c) /\ call' = [call EXCEPT ![c].pc = "marked"]
           Still == call' = call
<1>12. Same /\ (Still \/ \E c \in Callers : Drops(c) \/ Marks(c))
  <2>1. ASSUME NEW c \in Callers, EnqueueMark(c) PROVE Same /\ (Drops(c) \/ Marks(c))
    BY <1>3, <2>1
  <2>2. ASSUME NEW c \in Callers, EnqueueFull(c) \/ EnqueueAborted(c) PROVE Same /\ Drops(c)
    BY <1>4, <1>5, <2>2
  <2>3. ASSUME NEW id \in TaskIds, Settle(id) \/ Report(id) PROVE Same /\ Still
    BY <1>6, <2>3
  <2>4. ASSUME NEW pol \in Policies, Configure(pol) PROVE Same /\ Still
    BY <1>7, <2>4
  <2>5. ASSUME NEW x \in Cancellers, CancelWrite(x) PROVE Same /\ Still
    BY <1>8, <2>5
  <2>6. ASSUME StoreOnly PROVE Same /\ Still
    BY <1>9, <2>6
  <2> HIDE DEF Same, Drops, Marks, Still
  <2> QED
    BY <2>1, <2>2, <2>3, <2>4, <2>5, <2>6 DEF SilentStep
<1>13. ASSUME NEW c \in Callers, Drops(c) \/ Marks(c)
       PROVE  \A b \in Callers : \/ call'[b] = call[b]
                                 \/ call'[b] = Idle
                                 \/ /\ call[b].pc # "idle" /\ call'[b].id = call[b].id
                                    /\ call'[b].pc = "marked" /\ call[b].pc = "reserved"
  BY <1>10, <1>11, <1>13
<1> QED
  <2>1. Still => \A b \in Callers : call'[b] = call[b]
    OBVIOUS
  <2> HIDE DEF Drops, Marks, Still
  <2> QED
    BY <1>12, <1>13, <2>1

(* The steps of a worker thread, its wrapper and its loop.                 *)
ThreadStep(id) ==
  \/ FirstStep(id) \/ CheckCancel(id) \/ Begin(id) \/ EndRun(id) \/ EndWorkflow(id)
  \/ CloseLoop(id) \/ Finish(id)

Unstarted == {"none", "queued", "removed"}
Ended == {"returned", "escaped", "skipped"}

(* What a step of a thread, its wrapper or its loop may change.            *)
LEMMA ThreadMoves ==
  ASSUME JobTypes, OutcomesKept, NEW id \in TaskIds, ThreadStep(id)
  PROVE  /\ UNCHANGED <<nextId, keyOf, laneVars, call, host, flags, settle, cxl>>
         /\ job[id] \notin Unstarted \cup Ended
         /\ job' = [job EXCEPT ![id] = job'[id]]
         /\ job'[id] \in Steps \ Unstarted
         /\ job'[id] = "skipped" => job[id] = "starting" /\ wrap[id] # "waiting"
         /\ wrap' \in [TaskIds -> {"none", "waiting", "cancelled", "lost", "done"}]
         /\ \A i \in TaskIds : \/ wrap'[i] = wrap[i]
                               \/ wrap[i] = "waiting" /\ wrap'[i] \in {"cancelled", "lost"}
<1> USE DEF JobTypes, Steps, Unstarted, Ended, laneVars
<1> DEFINE Rest == UNCHANGED <<nextId, keyOf, laneVars, call, host, flags, settle, cxl>>
<1>1. ASSUME NEW k, NEW s, NEW d, Write(k, id, s, d) PROVE nextId' = nextId
  BY <1>1 DEF Write
<1>2. ASSUME NEW p, Fault(p) PROVE nextId' = nextId
  BY <1>2 DEF Fault, storeVars
<1>3. Rest
  BY <1>1, <1>2 DEF ThreadStep, FirstStep, CheckCancel, Begin, EndRun, EndWorkflow, CloseLoop,
                    Finish, Progress, Complete, Fail, Cancel, storeVars
<1>4. CASE FirstStep(id) \/ CheckCancel(id) \/ Begin(id) \/ EndRun(id) \/ Finish(id)
  <2>1. wrap' = wrap
    BY <1>4 DEF FirstStep, CheckCancel, Begin, EndRun, Finish
  <2> DEFINE Moves(e) == job' = [job EXCEPT ![id] = e]
  <2>2. ASSUME NEW e, Moves(e) PROVE job'[id] = e /\ job' = [job EXCEPT ![id] = job'[id]]
    BY <2>2
  <2>3. CASE FirstStep(id)
    <3> DEFINE e == IF wrap[id] = "waiting" THEN "check" ELSE "skipped"
    <3>1. job[id] = "starting" /\ Moves(e)
      BY <2>3 DEF FirstStep
    <3>2. e \in {"check", "skipped"} /\ (e = "skipped" => wrap[id] # "waiting")
      OBVIOUS
    <3> HIDE DEF e
    <3>3. job'[id] = e /\ job' = [job EXCEPT ![id] = job'[id]]
      BY <2>2, <3>1
    <3> QED
      BY <1>3, <2>1, <3>1, <3>2, <3>3
  <2>4. CASE CheckCancel(id)
    <3>1. job[id] = "check" /\ (Moves("cancel") \/ Moves("begin"))
      BY <2>4 DEF CheckCancel
    <3> QED
      BY <1>3, <2>1, <2>2, <3>1
  <2>5. CASE Begin(id)
    <3>1. job[id] = "begin" /\ (Moves("run") \/ Moves("escaped"))
      BY <2>5 DEF Begin
    <3> QED
      BY <1>3, <2>1, <2>2, <3>1
  <2>6. CASE EndRun(id)
    <3>1. job[id] = "run" /\ \E e \in Ends(id) : Moves(e)
      BY <2>6 DEF EndRun
    <3>2. Ends(id) \subseteq {"complete", "fail", "raise", "escaped", "cancel"}
      BY DEF Ends
    <3> HIDE DEF Moves
    <3> QED
      BY <1>3, <2>1, <2>2, <3>1, <3>2
  <2>7. CASE Finish(id)
    <3>1. /\ job[id] \in {"complete", "fail", "raise", "cancel"}
          /\ \E e \in {"returned", "escaped"} : Moves(e)
      BY <2>7 DEF Finish
    <3> HIDE DEF Moves
    <3> QED
      BY <1>3, <2>1, <2>2, <3>1
  <2> QED
    BY <1>4, <2>3, <2>4, <2>5, <2>6, <2>7
<1>5. CASE EndWorkflow(id)
  <2>1. /\ job[id] = "run" /\ job' = [job EXCEPT ![id] = "closing"]
        /\ wrap' = [i \in TaskIds |->
                      IF host[i] = id /\ wrap[i] = "waiting" THEN "cancelled" ELSE wrap[i]]
    BY <1>5 DEF EndWorkflow
  <2> QED
    BY <1>3, <2>1
<1>6. CASE CloseLoop(id)
  <2>1. /\ job[id] = "closing" /\ job' = [job EXCEPT ![id] = outcome[id]]
        /\ wrap' = [i \in TaskIds |->
                      IF host[i] = id /\ wrap[i] = "waiting" THEN "lost" ELSE wrap[i]]
    BY <1>6 DEF CloseLoop
  <2>2. outcome[id] \in Steps \ (Unstarted \cup {"skipped"})
    BY <2>1 DEF OutcomesKept
  <2> QED
    BY <1>3, <2>1, <2>2
<1> QED
  BY <1>4, <1>5, <1>6 DEF ThreadStep

(* Every step of the backend, sorted by what it moves.                     *)
LEMMA JobCases ==
  ASSUME BackendNext
  PROVE  \/ SilentStep
         \/ \E c \in Callers, lp \in {Main} \cup TaskIds, k \in Keys, u \in Users :
              EnqueueReserve(c, lp, k, u)
         \/ \E c \in Callers : EnqueueSubmit(c)
         \/ \E id \in TaskIds : ThreadStep(id) \/ DoneCallback(id)
         \/ \E l \in Lanes : DrainStep(l)
         \/ \E x \in Cancellers, k \in Keys : CancelRequest(x, k)
         \/ BackendRestart
  BY DEF BackendNext, EnqueueStep, WorkerStep, SilentStep, ThreadStep

(* A write that meets a fault is remembered, and none is forgotten.        *)
LEMMA FaultsStep ==
  ASSUME BackendNext
  PROVE  faults \subseteq faults' /\ faults' \ faults \subseteq FaultPoints
<1> DEFINE Goal == faults \subseteq faults' /\ faults' \ faults \subseteq FaultPoints
<1>1. ASSUME NEW p, Fault(p) PROVE Goal
  BY <1>1 DEF Fault
<1>2. faults' = faults => Goal
  OBVIOUS
<1> HIDE DEF Goal
<1>3. ASSUME NEW c, NEW lp, NEW k, NEW u, EnqueueReserve(c, lp, k, u) PROVE faults' = faults
  BY <1>3 DEF EnqueueReserve
<1>4. ASSUME NEW c, EnqueueStep(c) PROVE Goal
  BY <1>4, <1>1, <1>2 DEF EnqueueStep, EnqueueMark, EnqueueSubmit, EnqueueFull, EnqueueAborted
<1>5. ASSUME NEW id, WorkerStep(id) \/ Report(id) PROVE Goal
  BY <1>5, <1>1, <1>2 DEF WorkerStep, FirstStep, CheckCancel, Begin, EndRun, EndWorkflow,
                          CloseLoop, Finish, DoneCallback, Settle, Report, backendVars
<1>6. ASSUME NEW x, NEW k, CancelWrite(x) \/ CancelRequest(x, k) PROVE Goal
  BY <1>6, <1>1, <1>2 DEF CancelWrite, CancelRequest
<1> QED
  <2>1. (\E l : DrainStep(l)) \/ (\E pol : Configure(pol)) \/ StoreOnly \/ BackendRestart
          => faults' = faults
    BY DEF DrainStep, Configure, StoreOnly, BackendRestart, backendVars
  <2>2. Goal
    BY <2>1, <1>2, <1>3, <1>4, <1>5, <1>6 DEF BackendNext
  <2> QED
    BY <2>2 DEF Goal

(* What leaves a queue, and what stays.                                    *)
LEMMA QueueLoses ==
  ASSUME NEW S, NEW s \in Seq(S), NEW n \in 1..Len(s),
         \A i, j \in DOMAIN s : s[i] = s[j] => i = j
  PROVE  LET t == RemoveAt(s, n)
         IN  /\ t \in Seq(S)
             /\ \A i, j \in DOMAIN t : t[i] = t[j] => i = j
             /\ \A x : (\E j \in DOMAIN t : t[j] = x)
                         <=> (x # s[n] /\ \E j \in DOMAIN s : s[j] = x)
<1> DEFINE t == RemoveAt(s, n)
           At(j) == IF j < n THEN j ELSE j + 1
<1>1. Len(s) \in Nat /\ DOMAIN s = 1..Len(s)
  BY LenProperties
<1>2. t \in Seq(S) /\ Len(t) = Len(s) - 1 /\ \A j \in 1..(Len(s) - 1) : t[j] = s[At(j)]
  BY RemoveAtProperties
<1> HIDE DEF t
<1>3. DOMAIN t = 1..(Len(s) - 1)
  BY <1>2, LenProperties
<1>4. \A j \in 1..(Len(s) - 1) : At(j) \in 1..Len(s) /\ At(j) # n
  BY <1>1
<1>5. \A i, j \in 1..(Len(s) - 1) : At(i) = At(j) => i = j
  BY <1>1
<1>6. \A m \in 1..Len(s) : m # n => \E j \in 1..(Len(s) - 1) : At(j) = m
  <2> TAKE m \in 1..Len(s)
  <2> HAVE m # n
  <2>1. CASE m < n
    <3>1. m \in 1..(Len(s) - 1) /\ At(m) = m
      BY <1>1, <2>1
    <3> QED
      BY <3>1
  <2>2. CASE m > n
    <3>1. m - 1 \in 1..(Len(s) - 1) /\ At(m - 1) = m
      BY <1>1, <2>2
    <3> QED
      BY <3>1
  <2> QED
    BY <1>1, <2>1, <2>2
<1> HIDE DEF At
<1>7. \A i, j \in DOMAIN t : t[i] = t[j] => i = j
  BY <1>1, <1>2, <1>3, <1>4, <1>5
<1>8. ASSUME NEW x
      PROVE  (\E j \in DOMAIN t : t[j] = x) <=> (x # s[n] /\ \E j \in DOMAIN s : s[j] = x)
  <2>1. ASSUME NEW j \in DOMAIN t, t[j] = x PROVE x # s[n] /\ \E m \in DOMAIN s : s[m] = x
    BY <1>1, <1>2, <1>3, <1>4, <2>1
  <2>2. ASSUME NEW m \in DOMAIN s, s[m] = x, x # s[n] PROVE \E j \in DOMAIN t : t[j] = x
    BY <1>1, <1>2, <1>3, <1>6, <2>2
  <2> QED
    BY <2>1, <2>2
<1> QED
  BY <1>2, <1>7, <1>8 DEF t

(* A drain that starts a job takes one that is queued in its lane.         *)
LEMMA DrainMoves ==
  ASSUME JobTypes, QueuesMatchJobs, NEW l \in Lanes, DrainStep(l)
  PROVE  /\ UNCHANGED <<nextId, keyOf, call, loop, outcome, flags, settle>>
         /\ \/ /\ UNCHANGED <<queue, active, lastProject, job, wrap, host>>
               /\ drain' = [drain EXCEPT !.lanes = @ \ {l}]
            \/ \E n \in 1..Len(queue[l]) :
                 /\ queue[l][n] \in TaskIds
                 /\ job[queue[l][n]] = "queued"
                 /\ Lane(queue[l][n]) = l
                 /\ Start(queue[l][n], drain.loop)
                 /\ queue' = [queue EXCEPT ![l] = RemoveAt(queue[l], n)]
                 /\ drain' = drain
<1>1. UNCHANGED <<nextId, keyOf, call, loop, outcome, flags, settle>>
  BY DEF DrainStep, storeVars
<1>2. CASE active[l] < policy[l].conc /\ queue[l] # <<>>
  <2>1. /\ Start(queue[l][PopIndex(l)], drain.loop)
        /\ queue' = [queue EXCEPT ![l] = RemoveAt(queue[l], PopIndex(l))]
        /\ drain' = drain
    BY <1>2 DEF DrainStep, Dequeue
  <2>2. queue[l] \in Seq(TaskIds) /\ Len(queue[l]) \in Nat \ {0}
        /\ DOMAIN queue[l] = 1..Len(queue[l])
    BY <1>2, EmptySeq, LenProperties DEF JobTypes
  <2>3. PopIndex(l) \in 1..Len(queue[l])
    <3> DEFINE other == {i \in DOMAIN queue[l] : Project(queue[l][i]) # lastProject[l]}
    <3>1. other # {} => Min(other) \in other
      BY <2>2, MinOfPositions
    <3> QED
      BY <2>2, <3>1 DEF PopIndex
  <2>4. queue[l][PopIndex(l)] \in TaskIds
    BY <2>2, <2>3, ElementOfSeq
  <2>5. job[queue[l][PopIndex(l)]] = "queued" /\ Lane(queue[l][PopIndex(l)]) = l
    BY <2>2, <2>3, <2>4 DEF QueuesMatchJobs
  <2> QED
    BY <1>1, <2>1, <2>3, <2>4, <2>5
<1>3. CASE ~(active[l] < policy[l].conc /\ queue[l] # <<>>)
  BY <1>1, <1>3 DEF DrainStep
<1> QED
  BY <1>2, <1>3

(* A submission starts its job, queues it or finds the lane full.          *)
LEMMA SubmitMoves ==
  ASSUME Wiring, CallsAreFresh, NEW c \in Callers, EnqueueSubmit(c)
  PROVE  LET id == call[c].id
         IN  /\ id \in TaskIds /\ NotStarted(id) /\ id < nextId /\ Lane(id) \in Lanes
             /\ call[c].pc = "marked" /\ call[c].loop \in {Main} \cup TaskIds
             /\ UNCHANGED <<nextId, keyOf, drain, loop, outcome, flags, settle>>
             /\ \/ /\ Start(id, call[c].loop)
                   /\ call' = [call EXCEPT ![c] = Idle]
                   /\ queue' = queue
                \/ /\ queue' = [queue EXCEPT ![Lane(id)] = Append(@, id)]
                   /\ job' = [job EXCEPT ![id] = "queued"]
                   /\ call' = [call EXCEPT ![c] = Idle]
                   /\ UNCHANGED <<active, lastProject, wrap, host>>
                \/ /\ call' = [call EXCEPT ![c].pc = "full"]
                   /\ UNCHANGED <<queue, active, lastProject, job, wrap, host>>
<1> USE StoreAssumption, BackendAssumption
<1>1. call[c].pc = "marked" /\ call[c] \in Calls
  BY DEF EnqueueSubmit, Wiring, Idle
<1>2. call[c].id \in TaskIds /\ NotStarted(call[c].id) /\ call[c].id < nextId
  BY <1>1 DEF Calls, CallsAreFresh
<1>3. call[c].loop \in {Main} \cup TaskIds /\ Lane(call[c].id) \in Lanes
  BY <1>1, <1>2 DEF Calls, Wiring, Lane
<1>4. UNCHANGED <<nextId, keyOf, drain, loop, outcome, flags, settle>>
  BY DEF EnqueueSubmit, storeVars
<1> QED
  BY <1>1, <1>2, <1>3, <1>4 DEF EnqueueSubmit

(* A job that is started is not over and its wrapper waits for it.         *)
LEMMA StartMoves ==
  ASSUME JobTypes, Wiring, NEW id \in TaskIds, NEW lp \in {Main} \cup TaskIds, Start(id, lp)
  PROVE  /\ lastProject' \in [Lanes -> Projects \cup {NoProject}]
         /\ job' \in [TaskIds -> Steps] /\ job'[id] = "starting"
         /\ wrap' \in [TaskIds -> {"none", "waiting", "cancelled", "lost", "done"}]
         /\ wrap'[id] = "waiting"
         /\ host' \in [TaskIds -> {Main} \cup TaskIds]
         /\ \A i \in TaskIds \ {id} : job'[i] = job[i] /\ wrap'[i] = wrap[i]
         /\ active' = [active EXCEPT ![Lane(id)] = @ + 1]
<1>1. Project(id) \in Projects
  BY StoreAssumption DEF Project, Wiring
<1> QED
  BY <1>1 DEF Start, JobTypes, Steps

(* The state of the jobs stays well formed.                                *)
LEMMA TypesStep ==
  ASSUME IInv, Wiring, JobTypes, CallsAreFresh, OutcomesKept, QueuesMatchJobs, BackendNext
  PROVE  JobTypes'
<1> USE StoreAssumption, BackendAssumption
<1>0. faults' \subseteq FaultPoints
  BY FaultsStep DEF JobTypes
<1>1. CASE SilentStep
  <2>1. UNCHANGED <<queue, lastProject, job, wrap, host, loop, outcome, flags>>
    BY <1>1, Silent
  <2>2. settle' \subseteq settle
    BY <1>1 DEF SilentStep, EnqueueMark, EnqueueFull, EnqueueAborted, Settle, Report, Configure,
                CancelWrite, StoreOnly, backendVars
  <2>3. drain' = drain \/ drain' = [loop |-> Main, lanes |-> ManagedLanes]
    BY <1>1 DEF SilentStep, EnqueueMark, EnqueueFull, EnqueueAborted, Settle, Report, Configure,
                CancelWrite, StoreOnly, backendVars, laneVars
  <2> QED
    BY <1>0, <2>1, <2>2, <2>3 DEF JobTypes
<1>2. ASSUME NEW c, NEW lp, NEW k, NEW u, EnqueueReserve(c, lp, k, u) PROVE JobTypes'
  BY <1>2 DEF EnqueueReserve, laneVars, JobTypes
<1>3. ASSUME NEW c \in Callers, EnqueueSubmit(c) PROVE JobTypes'
  <2> DEFINE id == call[c].id
  <2>1. /\ id \in TaskIds /\ Lane(id) \in Lanes /\ call[c].loop \in {Main} \cup TaskIds
        /\ UNCHANGED <<drain, loop, outcome, flags, settle>>
        /\ \/ Start(id, call[c].loop) /\ queue' = queue
           \/ /\ queue' = [queue EXCEPT ![Lane(id)] = Append(@, id)]
              /\ job' = [job EXCEPT ![id] = "queued"]
              /\ UNCHANGED <<lastProject, wrap, host>>
           \/ UNCHANGED <<queue, lastProject, job, wrap, host>>
    BY <1>3, SubmitMoves
  <2> HIDE DEF id
  <2>2. CASE Start(id, call[c].loop) /\ queue' = queue
    BY <1>0, <2>1, <2>2, StartMoves DEF JobTypes
  <2>3. CASE /\ queue' = [queue EXCEPT ![Lane(id)] = Append(@, id)]
             /\ job' = [job EXCEPT ![id] = "queued"]
             /\ UNCHANGED <<lastProject, wrap, host>>
    <3>1. queue' \in [Lanes -> Seq(TaskIds)]
      <4>1. Append(queue[Lane(id)], id) \in Seq(TaskIds)
        BY <2>1, AppendProperties DEF JobTypes
      <4> QED
        BY <2>3, <4>1 DEF JobTypes
    <3> QED
      BY <1>0, <2>1, <2>3, <3>1 DEF JobTypes, Steps
  <2>4. CASE UNCHANGED <<queue, lastProject, job, wrap, host>>
    BY <1>0, <2>1, <2>4 DEF JobTypes
  <2> QED
    BY <2>1, <2>2, <2>3, <2>4
<1>4. ASSUME NEW id \in TaskIds, ThreadStep(id) PROVE JobTypes'
  <2>1. /\ UNCHANGED <<laneVars, host, flags, settle>>
        /\ job' = [job EXCEPT ![id] = job'[id]] /\ job'[id] \in Steps
        /\ wrap' \in [TaskIds -> {"none", "waiting", "cancelled", "lost", "done"}]
    BY <1>4, ThreadMoves
  <2>2. job' \in [TaskIds -> Steps]
    BY <2>1 DEF JobTypes
  <2>3. \/ loop' = loop
        \/ \E e \in {"open", "closing", "closed"} : loop' = [loop EXCEPT ![id] = e]
    BY <1>4 DEF ThreadStep, FirstStep, CheckCancel, Begin, EndRun, EndWorkflow, CloseLoop, Finish
  <2>4. loop' \in [TaskIds -> {"open", "closing", "closed"}]
    BY <2>3 DEF JobTypes
  <2>5. \/ outcome' = outcome
        \/ \E e \in Ends(id) : outcome' = [outcome EXCEPT ![id] = e]
    BY <1>4 DEF ThreadStep, FirstStep, CheckCancel, Begin, EndRun, EndWorkflow, CloseLoop, Finish
  <2>6. outcome' \in [TaskIds -> {"none", "complete", "fail", "raise", "cancel", "escaped"}]
    BY <2>5 DEF JobTypes, Ends
  <2> QED
    BY <1>0, <2>1, <2>2, <2>4, <2>6 DEF JobTypes, laneVars
<1>5. ASSUME NEW id \in TaskIds, DoneCallback(id) PROVE JobTypes'
  <2>1. Lane(id) \in Lanes
    BY DEF Wiring, Lane
  <2> QED
    <3>1. /\ drain' = [loop |-> host[id], lanes |-> {Lane(id)}] /\ wrap' = [wrap EXCEPT ![id] = "done"]
          /\ settle' \subseteq settle \cup {id}
          /\ UNCHANGED <<queue, lastProject, job, host, loop, outcome, flags, faults>>
      BY <1>5 DEF DoneCallback, DrainAfter
    <3>2. /\ host[id] \in {Main} \cup TaskIds
          /\ wrap' \in [TaskIds -> {"none", "waiting", "cancelled", "lost", "done"}]
      BY <3>1 DEF JobTypes
    <3>3. drain' \in [loop : {Main} \cup TaskIds, lanes : SUBSET Lanes]
      BY <2>1, <3>1, <3>2
    <3>4. settle' \subseteq TaskIds
      BY <3>1 DEF JobTypes
    <3> QED
      BY <3>1, <3>2, <3>3, <3>4 DEF JobTypes
<1>6. ASSUME NEW l \in Lanes, DrainStep(l) PROVE JobTypes'
  <2>1. CASE /\ UNCHANGED <<queue, active, lastProject, job, wrap, host>>
             /\ drain' = [drain EXCEPT !.lanes = @ \ {l}]
    <3>1. UNCHANGED <<loop, outcome, flags, settle>>
      BY <1>6, DrainMoves
    <3>2. drain' \in [loop : {Main} \cup TaskIds, lanes : SUBSET Lanes]
      BY <2>1 DEF JobTypes
    <3> QED
      BY <1>0, <2>1, <3>1, <3>2 DEF JobTypes
  <2>2. ASSUME NEW n \in 1..Len(queue[l]),
               queue[l][n] \in TaskIds,
               Start(queue[l][n], drain.loop),
               queue' = [queue EXCEPT ![l] = RemoveAt(queue[l], n)],
               drain' = drain
        PROVE  JobTypes'
    <3>1. queue' \in [Lanes -> Seq(TaskIds)]
      <4>1. RemoveAt(queue[l], n) \in Seq(TaskIds)
        BY RemoveAtProperties DEF JobTypes
      <4> QED
        BY <2>2, <4>1 DEF JobTypes
    <3>2. drain.loop \in {Main} \cup TaskIds
      BY DEF JobTypes
    <3>3. UNCHANGED <<loop, outcome, flags, settle>>
      BY <1>6, DrainMoves
    <3> QED
      BY <1>0, <2>2, <3>1, <3>2, <3>3, StartMoves DEF JobTypes
  <2> QED
    BY <1>6, <2>1, <2>2, DrainMoves
<1>7. ASSUME NEW x \in Cancellers, NEW k \in Keys, CancelRequest(x, k) PROVE JobTypes'
  <2> DEFINE id == rows[k].id
  <2>1. id \in TaskIds
    BY <1>7 DEF CancelRequest, IInv, TypeOK, Row
  <2>2. queue' \in [Lanes -> Seq(TaskIds)]
    <3>1. \A l \in Lanes : RemoveFirst(queue[l], id) \in Seq(TaskIds)
      <4> TAKE l \in Lanes
      <4>1. queue[l] \in Seq(TaskIds)
        BY DEF JobTypes
      <4> QED
        BY <4>1, RemoveFirstLeaves
    <3> QED
      BY <1>7, <3>1 DEF CancelRequest
  <2>3. job' \in [TaskIds -> Steps]
    BY <1>7 DEF CancelRequest, JobTypes, Steps
  <2> QED
    BY <1>0, <1>7, <2>1, <2>2, <2>3 DEF CancelRequest, JobTypes
<1>8. CASE BackendRestart
  <2>1. <<>> \in Seq(TaskIds)
    BY EmptySeq
  <2> QED
    BY <1>0, <1>8, <2>1 DEF BackendRestart, NoDrain, JobTypes, Steps
<1> QED
  BY <1>1, <1>2, <1>3, <1>4, <1>5, <1>6, <1>7, <1>8, JobCases

(* What a submission in progress is about has not been started.            *)
LEMMA FreshStep ==
  ASSUME IInv, Wiring, JobTypes, CallsAreFresh, OutcomesKept, QueuesMatchJobs, BackendNext
  PROVE  CallsAreFresh'
<1> USE StoreAssumption, BackendAssumption
<1>0. nextId \in Nat /\ \A c \in Callers : call[c].id \in Nat
  BY DEF IInv, TypeOK, Wiring, Calls, Idle, TaskIds
<1>1. ASSUME UNCHANGED <<nextId, call>>, \A i \in TaskIds : NotStarted(i) => NotStarted(i)'
      PROVE  CallsAreFresh'
  <2>1. \A c \in Callers : call[c].pc # "idle" => call[c].id \in TaskIds
    BY DEF Wiring, Calls, Idle
  <2> QED
    BY <1>1, <2>1 DEF CallsAreFresh
<1>2. CASE SilentStep
  <2>1. UNCHANGED <<nextId, job, wrap>>
    BY <1>2, Silent
  <2>2. \A i : NotStarted(i)' <=> NotStarted(i)
    BY <2>1 DEF NotStarted
  <2>3. \A c \in Callers : call'[c].pc # "idle" => call[c].pc # "idle" /\ call'[c].id = call[c].id
    BY <1>2, Silent DEF Idle
  <2> QED
    BY <2>1, <2>2, <2>3 DEF CallsAreFresh
<1>3. ASSUME NEW c \in Callers, NEW lp \in {Main} \cup TaskIds, NEW k \in Keys, NEW u \in Users,
             EnqueueReserve(c, lp, k, u)
      PROVE  CallsAreFresh'
  <2>1. /\ nextId' = nextId + 1 /\ nextId \in TaskIds
        /\ call' = [call EXCEPT ![c] = [pc |-> "reserved", loop |-> lp, id |-> nextId]]
        /\ UNCHANGED <<job, wrap>>
    BY <1>3 DEF EnqueueReserve, Reserve
  <2>2. call'[c].id = nextId /\ \A b \in Callers \ {c} : call'[b] = call[b]
    BY <2>1 DEF Wiring
  <2>3. \A i : NotStarted(i)' <=> NotStarted(i)
    BY <2>1 DEF NotStarted
  <2>4. \A i \in TaskIds : i >= nextId' => i >= nextId
    BY <1>0, <2>1 DEF TaskIds
  <2>5. \A b \in Callers : call'[b].pc # "idle" => call'[b].id < nextId' /\ NotStarted(call'[b].id)
    <3> TAKE b \in Callers
    <3> HAVE call'[b].pc # "idle"
    <3>1. CASE b = c
      <4>1. NotStarted(nextId) /\ nextId < nextId'
        BY <1>0, <2>1 DEF CallsAreFresh
      <4> QED
        BY <2>2, <2>3, <3>1, <4>1
    <3>2. CASE b # c
      <4>1. call'[b] = call[b] /\ call[b].id < nextId /\ NotStarted(call[b].id)
        BY <2>2, <3>2 DEF CallsAreFresh
      <4>2. call[b].id < nextId'
        BY <1>0, <2>1, <4>1
      <4> QED
        BY <2>3, <4>1, <4>2
    <3> QED
      BY <3>1, <3>2
  <2>6. \A b, d \in Callers :
          call'[b].pc # "idle" /\ call'[d].pc # "idle" /\ call'[b].id = call'[d].id => b = d
    <3>1. \A b \in Callers \ {c} : call'[b].pc # "idle" => call'[b].id # nextId
      BY <1>0, <2>2 DEF CallsAreFresh
    <3> QED
      BY <2>2, <3>1 DEF CallsAreFresh
  <2>7. \A b \in Callers : NotStarted(call[b].id)' <=> NotStarted(call'[b].id)
    BY <2>1 DEF NotStarted
  <2> QED
    BY <2>3, <2>4, <2>5, <2>6, <2>7 DEF CallsAreFresh
<1>4. ASSUME NEW c \in Callers, EnqueueSubmit(c) PROVE CallsAreFresh'
  <2> DEFINE id == call[c].id
  <2>1. /\ id \in TaskIds /\ id < nextId /\ call[c].pc # "idle"
        /\ nextId' = nextId
        /\ \/ call' = [call EXCEPT ![c] = Idle]
           \/ call' = [call EXCEPT ![c].pc = "full"] /\ UNCHANGED <<job, wrap>>
    BY <1>4, SubmitMoves
  <2>2. \A i \in TaskIds \ {id} : NotStarted(i) => NotStarted(i)'
    <3>1. \A i \in TaskIds \ {id} : job'[i] = job[i] /\ wrap'[i] = wrap[i]
      BY <1>4, SubmitMoves DEF Start, JobTypes
    <3> QED
      BY <3>1 DEF NotStarted
  <2>3. \A b \in Callers \ {c} : call'[b] = call[b]
    BY <2>1 DEF Wiring
  <2>4. \A i \in TaskIds : i >= nextId' => NotStarted(i)'
    <3>1. \A i \in TaskIds : i >= nextId => i # id
      BY <1>0, <2>1
    <3> QED
      BY <2>1, <2>2, <3>1 DEF CallsAreFresh
  <2>5. \A b \in Callers : call'[b].pc # "idle" =>
          call[b].pc # "idle" /\ call'[b].id = call[b].id /\ NotStarted(call[b].id)'
    <3> TAKE b \in Callers
    <3> HAVE call'[b].pc # "idle"
    <3>1. CASE b # c
      <4>1. call'[b] = call[b] /\ call[b].id # id /\ call[b].id \in TaskIds
        BY <2>1, <2>3, <3>1 DEF CallsAreFresh, Wiring, Calls, Idle
      <4> QED
        BY <2>2, <4>1 DEF CallsAreFresh
    <3>2. CASE b = c
      <4>1. call' # [call EXCEPT ![c] = Idle]
        BY <3>2 DEF Idle, Wiring
      <4>2. call' = [call EXCEPT ![c].pc = "full"] /\ UNCHANGED <<job, wrap>>
        BY <2>1, <4>1
      <4>3. call[c] \in Calls
        BY <2>1 DEF Wiring, Idle
      <4>4. call'[c].id = id
        BY <4>2, <4>3 DEF Wiring, Calls
      <4>5. NotStarted(id)'
        BY <2>1, <4>2 DEF CallsAreFresh, NotStarted
      <4> QED
        BY <2>1, <3>2, <4>4, <4>5
    <3> QED
      BY <3>1, <3>2
  <2> QED
    BY <2>1, <2>4, <2>5 DEF CallsAreFresh
<1>5. ASSUME NEW id \in TaskIds, ThreadStep(id) PROVE CallsAreFresh'
  <2>1. /\ UNCHANGED <<nextId, call>>
        /\ job[id] # "none" /\ job' = [job EXCEPT ![id] = job'[id]]
        /\ \A i \in TaskIds : wrap'[i] = wrap[i] \/ wrap[i] = "waiting"
    BY <1>5, ThreadMoves DEF Unstarted
  <2>2. \A i \in TaskIds : NotStarted(i) => NotStarted(i)'
    BY <2>1 DEF NotStarted, JobTypes
  <2> QED
    BY <1>1, <2>1, <2>2
<1>6. ASSUME NEW id \in TaskIds, DoneCallback(id) PROVE CallsAreFresh'
  <2>1. /\ UNCHANGED <<nextId, call, job>>
        /\ wrap[id] # "none" /\ wrap' = [wrap EXCEPT ![id] = "done"]
    BY <1>6 DEF DoneCallback, storeVars
  <2>2. \A i \in TaskIds : NotStarted(i) => NotStarted(i)'
    BY <2>1 DEF NotStarted, JobTypes
  <2> QED
    BY <1>1, <2>1, <2>2
<1>7. ASSUME NEW l \in Lanes, DrainStep(l) PROVE CallsAreFresh'
  <2>1. \/ UNCHANGED <<job, wrap>>
        \/ \E i \in TaskIds : job[i] = "queued" /\ Start(i, drain.loop)
    BY <1>7, DrainMoves
  <2>2. \A i \in TaskIds : NotStarted(i) => NotStarted(i)'
    BY <2>1 DEF NotStarted, JobTypes, Start
  <2> QED
    BY <1>1, <1>7, <2>2, DrainMoves
<1>8. ASSUME NEW x \in Cancellers, NEW k \in Keys, CancelRequest(x, k) PROVE CallsAreFresh'
  <2>1. \A i \in TaskIds : NotStarted(i) => NotStarted(i)'
    BY <1>8 DEF NotStarted, JobTypes, CancelRequest
  <2>2. UNCHANGED <<nextId, call>>
    BY <1>8 DEF CancelRequest, storeVars
  <2> QED
    BY <1>1, <2>1, <2>2
<1>9. CASE BackendRestart
  BY <1>9 DEF BackendRestart, CallsAreFresh, NotStarted, Idle
<1> QED
  BY <1>2, <1>3, <1>4, <1>5, <1>6, <1>7, <1>8, <1>9, JobCases

(* A wrapper exists exactly for a job that left its queue to run.          *)
LEMMA WrappedStep ==
  ASSUME IInv, Wiring, JobTypes, CallsAreFresh, OutcomesKept, QueuesMatchJobs, ThreadsWrapped,
         BackendNext
  PROVE  ThreadsWrapped'
<1> USE StoreAssumption, BackendAssumption
<1> DEFINE Good(i) == /\ wrap[i] = "none" <=> job[i] \in {"none", "queued", "removed"}
                      /\ wrap[i] = "done" => ThreadOver(i)
                      /\ job[i] = "skipped" => wrap[i] # "waiting"
<1>0. \A i \in TaskIds : Good(i)
  BY DEF ThreadsWrapped
<1>1. ASSUME NEW i \in TaskIds, job'[i] = job[i], wrap'[i] = wrap[i] PROVE Good(i)'
  BY <1>0, <1>1 DEF ThreadOver
<1>2. CASE UNCHANGED <<job, wrap>>
  BY <1>1, <1>2 DEF ThreadsWrapped
<1>3. ASSUME NEW id \in TaskIds, NEW lp \in {Main} \cup TaskIds, Start(id, lp)
      PROVE  ThreadsWrapped'
  <2>1. /\ \A i \in TaskIds \ {id} : job'[i] = job[i] /\ wrap'[i] = wrap[i]
        /\ job'[id] = "starting" /\ wrap'[id] = "waiting"
    BY <1>3, StartMoves
  <2>2. \A i \in TaskIds : Good(i)'
    BY <1>1, <2>1
  <2> QED
    BY <2>2 DEF ThreadsWrapped
<1>4. ASSUME NEW id \in TaskIds, NEW e \in {"queued", "removed"},
             job[id] \in {"none", "queued", "removed"},
             job' = [job EXCEPT ![id] = e], wrap' = wrap
      PROVE  ThreadsWrapped'
  <2>1. job'[id] = e /\ \A i \in TaskIds \ {id} : job'[i] = job[i]
    BY <1>4 DEF JobTypes
  <2>2. Good(id)'
    BY <1>0, <1>4, <2>1
  <2>3. \A i \in TaskIds : Good(i)'
    BY <1>1, <1>4, <2>1, <2>2
  <2> QED
    BY <2>3 DEF ThreadsWrapped
<1>5. ASSUME NEW c \in Callers, EnqueueSubmit(c) PROVE ThreadsWrapped'
  <2>1. /\ call[c].id \in TaskIds /\ NotStarted(call[c].id)
        /\ call[c].loop \in {Main} \cup TaskIds
        /\ \/ Start(call[c].id, call[c].loop)
           \/ job' = [job EXCEPT ![call[c].id] = "queued"] /\ wrap' = wrap
           \/ UNCHANGED <<job, wrap>>
    BY <1>5, SubmitMoves
  <2> QED
    BY <1>2, <1>3, <1>4, <2>1 DEF NotStarted
<1>6. ASSUME NEW id \in TaskIds, ThreadStep(id) PROVE ThreadsWrapped'
  <2>1. /\ job[id] \notin Unstarted \cup Ended
        /\ job' = [job EXCEPT ![id] = job'[id]]
        /\ job'[id] \in Steps \ Unstarted
        /\ job'[id] = "skipped" => wrap[id] # "waiting"
        /\ \A i \in TaskIds : \/ wrap'[i] = wrap[i]
                              \/ wrap[i] = "waiting" /\ wrap'[i] \in {"cancelled", "lost"}
    BY <1>6, ThreadMoves
  <2>2. \A i \in TaskIds \ {id} : job'[i] = job[i]
    BY <2>1 DEF JobTypes
  <2>3. ASSUME NEW i \in TaskIds PROVE Good(i)'
    <3>1. CASE i # id
      BY <1>0, <2>1, <2>2, <3>1 DEF ThreadOver
    <3>2. CASE i = id
      <4>1. wrap[id] # "none" /\ wrap[id] # "done"
        BY <1>0, <2>1 DEF Unstarted, Ended, ThreadOver
      <4> QED
        BY <2>1, <3>2, <4>1 DEF Unstarted
    <3> QED
      BY <3>1, <3>2
  <2> QED
    BY <2>3 DEF ThreadsWrapped
<1>7. ASSUME NEW id \in TaskIds, DoneCallback(id) PROVE ThreadsWrapped'
  <2>1. /\ job' = job /\ wrap' = [wrap EXCEPT ![id] = "done"] /\ ThreadOver(id)
        /\ wrap[id] # "none"
    BY <1>7 DEF DoneCallback, WrapperEnds
  <2>2. \A i \in TaskIds : Good(i)'
    BY <1>0, <2>1 DEF ThreadOver, JobTypes
  <2> QED
    BY <2>2 DEF ThreadsWrapped
<1>8. ASSUME NEW l \in Lanes, DrainStep(l) PROVE ThreadsWrapped'
  <2>1. \/ UNCHANGED <<job, wrap>>
        \/ \E i \in TaskIds : Start(i, drain.loop)
    BY <1>8, DrainMoves
  <2>2. drain.loop \in {Main} \cup TaskIds
    BY DEF JobTypes
  <2> QED
    BY <1>2, <1>3, <2>1, <2>2
<1>9. ASSUME NEW x \in Cancellers, NEW k \in Keys, CancelRequest(x, k) PROVE ThreadsWrapped'
  <2> DEFINE id == rows[k].id
  <2>1. /\ id \in TaskIds /\ wrap' = wrap
        /\ job' = [job EXCEPT ![id] = IF @ = "queued" THEN "removed" ELSE @]
    BY <1>9 DEF CancelRequest, IInv, TypeOK, Row
  <2> HIDE DEF id
  <2>2. CASE job[id] = "queued"
    <3>1. job' = [job EXCEPT ![id] = "removed"]
      BY <2>1, <2>2
    <3> QED
      BY <1>4, <2>1, <2>2, <3>1
  <2>3. CASE job[id] # "queued"
    <3>1. job' = job
      BY <2>1, <2>3 DEF JobTypes
    <3> QED
      BY <1>2, <2>1, <3>1
  <2> QED
    BY <2>2, <2>3
<1>10. CASE BackendRestart
  BY <1>10 DEF BackendRestart, ThreadsWrapped, ThreadOver
<1>11. SilentStep \/ (\E c, lp, k, u : EnqueueReserve(c, lp, k, u)) => UNCHANGED <<job, wrap>>
  BY Silent DEF EnqueueReserve
<1> QED
  BY <1>2, <1>5, <1>6, <1>7, <1>8, <1>9, <1>10, <1>11, JobCases

(* A loop that is closing has its coroutine's outcome, and a wrapper is    *)
(* lost only with a loop.                                                  *)
LEMMA OutcomesStep ==
  ASSUME IInv, Wiring, JobTypes, CallsAreFresh, OutcomesKept, QueuesMatchJobs, ThreadsWrapped,
         BackendNext
  PROVE  OutcomesKept'
<1> USE StoreAssumption, BackendAssumption
<1>1. ASSUME UNCHANGED <<outcome, loop>>,
             \A i \in TaskIds : /\ job'[i] = "closing" => job[i] = "closing"
                                /\ wrap'[i] = "lost" => wrap[i] = "lost"
      PROVE  OutcomesKept'
  BY <1>1 DEF OutcomesKept
<1>2. ASSUME NEW id \in TaskIds, NEW lp \in {Main} \cup TaskIds, Start(id, lp),
             UNCHANGED <<outcome, loop>>
      PROVE  OutcomesKept'
  <2>1. /\ \A i \in TaskIds \ {id} : job'[i] = job[i] /\ wrap'[i] = wrap[i]
        /\ job'[id] = "starting" /\ wrap'[id] = "waiting"
    BY <1>2, StartMoves
  <2> QED
    BY <1>1, <1>2, <2>1
<1>3. CASE SilentStep \/ \E c, lp, k, u : EnqueueReserve(c, lp, k, u)
  <2>1. UNCHANGED <<job, wrap, outcome, loop>>
    BY <1>3, Silent DEF EnqueueReserve
  <2> QED
    BY <1>1, <2>1
<1>4. ASSUME NEW c \in Callers, EnqueueSubmit(c) PROVE OutcomesKept'
  <2>1. /\ call[c].id \in TaskIds /\ call[c].loop \in {Main} \cup TaskIds
        /\ UNCHANGED <<outcome, loop>>
        /\ \/ Start(call[c].id, call[c].loop)
           \/ job' = [job EXCEPT ![call[c].id] = "queued"] /\ wrap' = wrap
           \/ UNCHANGED <<job, wrap>>
    BY <1>4, SubmitMoves
  <2>2. CASE job' = [job EXCEPT ![call[c].id] = "queued"] /\ wrap' = wrap
    <3>1. \A i \in TaskIds : job'[i] = "closing" => job[i] = "closing"
      BY <2>1, <2>2 DEF JobTypes
    <3> QED
      BY <1>1, <2>1, <2>2, <3>1
  <2> QED
    BY <1>1, <1>2, <2>1, <2>2
<1>5. ASSUME NEW id \in TaskIds, ThreadStep(id) PROVE OutcomesKept'
  <2>1. /\ job' = [job EXCEPT ![id] = job'[id]]
        /\ \A i \in TaskIds : \/ wrap'[i] = wrap[i]
                              \/ wrap[i] = "waiting" /\ wrap'[i] \in {"cancelled", "lost"}
    BY <1>5, ThreadMoves
  <2>2. \A i \in TaskIds \ {id} : job'[i] = job[i]
    BY <2>1 DEF JobTypes
  <2>3. CASE FirstStep(id) \/ CheckCancel(id) \/ EndRun(id) \/ Finish(id)
    <3>1. UNCHANGED <<outcome, loop, wrap>>
      BY <2>3 DEF FirstStep, CheckCancel, EndRun, Finish
    <3>2. job'[id] # "closing"
      <4> DEFINE Moves(e) == job' = [job EXCEPT ![id] = e]
      <4>1. \E e \in {"check", "skipped", "cancel", "begin", "complete", "fail", "raise",
                      "escaped", "returned"} : Moves(e)
        <5>1. CASE FirstStep(id)
          <6>1. Moves("check") \/ Moves("skipped")
            BY <5>1 DEF FirstStep
          <6> QED
            BY <6>1
        <5>2. CASE CheckCancel(id)
          <6>1. Moves("cancel") \/ Moves("begin")
            BY <5>2 DEF CheckCancel
          <6> QED
            BY <6>1
        <5>3. CASE EndRun(id)
          <6>1. \E e \in Ends(id) : Moves(e)
            BY <5>3 DEF EndRun
          <6>2. Ends(id) \subseteq {"complete", "fail", "raise", "escaped", "cancel"}
            BY DEF Ends
          <6> HIDE DEF Moves
          <6> QED
            BY <6>1, <6>2
        <5>4. CASE Finish(id)
          <6>1. \E e \in {"returned", "escaped"} : Moves(e)
            BY <5>4 DEF Finish
          <6> HIDE DEF Moves
          <6> QED
            BY <6>1
        <5> QED
          BY <2>3, <5>1, <5>2, <5>3, <5>4
      <4>2. \A e : Moves(e) => job'[id] = e
        BY DEF JobTypes
      <4> HIDE DEF Moves
      <4> QED
        BY <4>1, <4>2
    <3> QED
      BY <1>1, <2>2, <3>1, <3>2
  <2>4. CASE Begin(id)
    <3>1. /\ UNCHANGED <<outcome, wrap>>
          /\ loop' = loop \/ loop' = [loop EXCEPT ![id] = "open"]
          /\ job' = [job EXCEPT ![id] = "run"] \/ job' = [job EXCEPT ![id] = "escaped"]
      BY <2>4 DEF Begin
    <3>2. \A i \in TaskIds : /\ job'[i] = "closing" => job[i] = "closing"
                             /\ loop'[i] = "closing" => loop[i] = "closing"
      BY <3>1 DEF JobTypes
    <3> QED
      BY <3>1, <3>2 DEF OutcomesKept
  <2>5. CASE EndWorkflow(id)
    <3>1. /\ \E e \in Ends(id) : outcome' = [outcome EXCEPT ![id] = e]
          /\ job' = [job EXCEPT ![id] = "closing"]
          /\ loop' = [loop EXCEPT ![id] = "closing"]
          /\ wrap' = [i \in TaskIds |->
                        IF host[i] = id /\ wrap[i] = "waiting" THEN "cancelled" ELSE wrap[i]]
      BY <2>5 DEF EndWorkflow
    <3>2. /\ outcome'[id] # "none"
          /\ \A i \in TaskIds \ {id} : /\ outcome'[i] = outcome[i] /\ loop'[i] = loop[i]
                                       /\ job'[i] = job[i]
      BY <3>1 DEF JobTypes, Ends
    <3>3. \A i \in TaskIds : wrap'[i] = "lost" => wrap[i] = "lost"
      BY <3>1
    <3> QED
      BY <3>2, <3>3 DEF OutcomesKept
  <2>6. CASE CloseLoop(id)
    <3>1. /\ outcome' = outcome /\ job[id] = "closing"
          /\ loop' = [loop EXCEPT ![id] = "closed"]
          /\ job' = [job EXCEPT ![id] = outcome[id]]
      BY <2>6 DEF CloseLoop
    <3>2. outcome[id] # "none" /\ outcome[id] # "closing"
      BY <3>1 DEF OutcomesKept, JobTypes
    <3>3. \A i \in TaskIds : /\ job'[i] = "closing" => job[i] = "closing"
                             /\ loop'[i] = "closing" => loop[i] = "closing"
      BY <3>1, <3>2 DEF JobTypes
    <3> QED
      BY <3>1, <3>2, <3>3 DEF OutcomesKept
  <2> QED
    BY <1>5, <2>3, <2>4, <2>5, <2>6 DEF ThreadStep
<1>6. ASSUME NEW id \in TaskIds, DoneCallback(id) PROVE OutcomesKept'
  <2>1. UNCHANGED <<outcome, loop, job>> /\ wrap' = [wrap EXCEPT ![id] = "done"]
    BY <1>6 DEF DoneCallback
  <2> QED
    BY <1>1, <2>1 DEF JobTypes
<1>7. ASSUME NEW l \in Lanes, DrainStep(l) PROVE OutcomesKept'
  <2>1. /\ UNCHANGED <<outcome, loop>>
        /\ UNCHANGED <<job, wrap>> \/ \E i \in TaskIds : Start(i, drain.loop)
    BY <1>7, DrainMoves
  <2>2. drain.loop \in {Main} \cup TaskIds
    BY DEF JobTypes
  <2> QED
    BY <1>1, <1>2, <2>1, <2>2
<1>8. ASSUME NEW x \in Cancellers, NEW k \in Keys, CancelRequest(x, k) PROVE OutcomesKept'
  <2>1. \A i \in TaskIds : job'[i] = "closing" => job[i] = "closing"
    BY <1>8 DEF CancelRequest, JobTypes
  <2>2. UNCHANGED <<outcome, loop, wrap>>
    BY <1>8 DEF CancelRequest
  <2> QED
    BY <1>1, <2>1, <2>2
<1>9. CASE BackendRestart
  BY <1>9 DEF BackendRestart, OutcomesKept
<1> QED
  BY <1>3, <1>4, <1>5, <1>6, <1>7, <1>8, <1>9, JobCases

(* Lane l's queue holds job x.                                             *)
InQueue(l, x) == \E n \in DOMAIN queue[l] : queue[l][n] = x

(* The queues and the jobs' states move together.                          *)
LEMMA QueuesStep ==
  ASSUME IInv, Wiring, JobTypes, CallsAreFresh, OutcomesKept, QueuesMatchJobs, ThreadsWrapped,
         BackendNext
  PROVE  QueuesMatchJobs'
<1> USE StoreAssumption, BackendAssumption
<1>0. /\ queue \in [Lanes -> Seq(TaskIds)]
      /\ \A l \in Lanes : Len(queue[l]) \in Nat /\ DOMAIN queue[l] = 1..Len(queue[l])
      /\ \A i \in TaskIds : job[i] = "queued" <=> \E l \in Lanes : InQueue(l, i)
      /\ \A l \in Lanes : \A n \in DOMAIN queue[l] : queue[l][n] \in TaskIds
      /\ \A i \in TaskIds : Lane(i) \in Lanes
      /\ \A l \in Lanes : \A x : InQueue(l, x) => x \in TaskIds /\ job[x] = "queued" /\ Lane(x) = l
  <2>1. queue \in [Lanes -> Seq(TaskIds)]
    BY DEF JobTypes
  <2>2. \A l \in Lanes : /\ Len(queue[l]) \in Nat /\ DOMAIN queue[l] = 1..Len(queue[l])
                         /\ \A n \in DOMAIN queue[l] : queue[l][n] \in TaskIds
    BY <2>1, LenProperties, ElementOfSeq
  <2> QED
    <3>1. \A l \in Lanes : \A x : InQueue(l, x) => x \in TaskIds /\ Lane(x) = l
      BY <2>2 DEF QueuesMatchJobs, InQueue
    <3>2. \A i \in TaskIds : job[i] = "queued" <=> \E l \in Lanes : InQueue(l, i)
      BY DEF QueuesMatchJobs, InQueue
    <3>3. \A i \in TaskIds : Lane(i) \in Lanes
      BY DEF Lane, Wiring
    <3> QED
      BY <2>1, <2>2, <3>1, <3>2, <3>3
<1>1. ASSUME queue' = queue,
             \A i \in TaskIds : /\ job'[i] = "queued" <=> job[i] = "queued"
                                /\ job[i] = "queued" => keyOf'[i] = keyOf[i]
      PROVE  QueuesMatchJobs'
  <2>1. \A l \in Lanes : \A n \in DOMAIN queue[l] : Lane(queue[l][n])' = l
    <3> TAKE l \in Lanes
    <3> TAKE n \in DOMAIN queue[l]
    <3>1. queue[l][n] \in TaskIds /\ job[queue[l][n]] = "queued" /\ Lane(queue[l][n]) = l
      BY <1>0 DEF InQueue
    <3> QED
      BY <1>1, <3>1 DEF Lane
  <2> QED
    BY <1>1, <2>1 DEF QueuesMatchJobs, Lane
<1>2. ASSUME NEW l \in Lanes, NEW n \in 1..Len(queue[l]),
             queue' = [queue EXCEPT ![l] = RemoveAt(queue[l], n)], keyOf' = keyOf,
             job'[queue[l][n]] # "queued",
             \A i \in TaskIds \ {queue[l][n]} : job'[i] = "queued" <=> job[i] = "queued"
      PROVE  QueuesMatchJobs'
  <2> DEFINE x == queue[l][n]
             t == RemoveAt(queue[l], n)
  <2>1. InQueue(l, x) /\ x \in TaskIds /\ job[x] = "queued" /\ Lane(x) = l
    <3>1. InQueue(l, x)
      BY <1>0 DEF InQueue
    <3> QED
      BY <1>0, <3>1
  <2>2. /\ \A i, j \in DOMAIN t : t[i] = t[j] => i = j
        /\ \A y : (\E j \in DOMAIN t : t[j] = y) <=> (y # x /\ InQueue(l, y))
    <3>1. queue[l] \in Seq(TaskIds) /\ \A i, j \in DOMAIN queue[l] : queue[l][i] = queue[l][j] => i = j
      BY <1>0 DEF QueuesMatchJobs
    <3> QED
      BY <3>1, QueueLoses DEF InQueue
  <2>3. queue'[l] = t /\ \A m \in Lanes \ {l} : queue'[m] = queue[m]
    BY <1>0, <1>2
  <2> HIDE DEF t, x
  <2>4. \A m \in Lanes : \A y : InQueue(m, y)' <=> (InQueue(m, y) /\ (m = l => y # x))
    <3> TAKE m \in Lanes
    <3> TAKE y
    <3>1. CASE m = l
      <4>1. InQueue(m, y)' <=> \E j \in DOMAIN t : t[j] = y
        BY <2>3, <3>1 DEF InQueue
      <4>2. (\E j \in DOMAIN t : t[j] = y) <=> (y # x /\ InQueue(l, y))
        BY <2>2
      <4> QED
        BY <3>1, <4>1, <4>2
    <3>2. CASE m # l
      BY <2>3, <3>2 DEF InQueue
    <3> QED
      BY <3>1, <3>2
  <2>5. \A m \in Lanes : \A y : InQueue(m, y) => Lane(y) = m /\ y \in TaskIds
    BY <1>0
  <2>6. \A i \in TaskIds : job'[i] = "queued" <=> \E m \in Lanes : InQueue(m, i)'
    <3> TAKE i \in TaskIds
    <3>1. CASE i = x
      <4>1. job'[i] # "queued"
        BY <1>2, <3>1 DEF x
      <4> QED
        BY <2>1, <2>4, <2>5, <3>1, <4>1
    <3>2. CASE i # x
      <4>1. job'[i] = "queued" <=> job[i] = "queued"
        BY <1>2, <3>2 DEF x
      <4> QED
        BY <1>0, <2>4, <3>2, <4>1
    <3> QED
      BY <3>1, <3>2
  <2>7. \A m \in Lanes : \A i \in DOMAIN queue'[m] : Lane(queue'[m][i]) = m
    <3> TAKE m \in Lanes
    <3>1. \A y : (\E i \in DOMAIN queue'[m] : queue'[m][i] = y) => Lane(y) = m
      BY <2>4, <2>5 DEF InQueue
    <3> QED
      BY <3>1
  <2>8. \A m \in Lanes : \A i, j \in DOMAIN queue'[m] : queue'[m][i] = queue'[m][j] => i = j
    <3> TAKE m \in Lanes
    <3>1. CASE m = l
      BY <2>2, <2>3, <3>1
    <3>2. CASE m # l
      BY <2>3, <3>2 DEF QueuesMatchJobs
    <3> QED
      BY <3>1, <3>2
  <2> QED
    BY <1>2, <2>6, <2>7, <2>8 DEF QueuesMatchJobs, InQueue, Lane
<1>3. ASSUME NEW x \in TaskIds, job[x] = "none", keyOf' = keyOf,
             queue' = [queue EXCEPT ![Lane(x)] = Append(@, x)],
             job' = [job EXCEPT ![x] = "queued"]
      PROVE  QueuesMatchJobs'
  <2> DEFINE l == Lane(x)
             s == queue[l]
             t == Append(s, x)
  <2>1. l \in Lanes /\ s \in Seq(TaskIds) /\ Len(s) \in Nat /\ DOMAIN s = 1..Len(s)
    BY <1>0
  <2>2. /\ DOMAIN t = 1..(Len(s) + 1) /\ t[Len(s) + 1] = x
        /\ \A j \in 1..Len(s) : t[j] = s[j]
    BY <2>1, AppendProperties, LenProperties
  <2>3. queue'[l] = t /\ \A m \in Lanes \ {l} : queue'[m] = queue[m]
    BY <1>0, <1>3
  <2>4. \A m \in Lanes : ~InQueue(m, x)
    BY <1>0, <1>3
  <2>5. \A y : (\E j \in DOMAIN t : t[j] = y) <=> (y = x \/ InQueue(l, y))
    <3>1. 1..(Len(s) + 1) = (1..Len(s)) \cup {Len(s) + 1}
      <4>1. ASSUME NEW n \in Nat PROVE 1..(n + 1) = (1..n) \cup {n + 1}
        <5>1. \A m : m \in 1..(n + 1) <=> (m \in 1..n \/ m = n + 1)
          BY SMTT(20)
        <5> QED
          BY <5>1, Zenon
      <4> HIDE DEF s
      <4> QED
        BY <2>1, <4>1
    <3>2. \A y : InQueue(l, y) <=> \E j \in 1..Len(s) : s[j] = y
      BY <2>1 DEF InQueue
    <3> HIDE DEF t, s, l
    <3> QED
      BY <2>2, <3>1, <3>2
  <2>6. \A i, j \in DOMAIN t : t[i] = t[j] => i = j
    <3> TAKE i, j \in DOMAIN t
    <3>1. \A m \in 1..Len(s) : s[m] # x
      BY <2>1, <2>4 DEF InQueue
    <3>2. \A m, n \in 1..Len(s) : s[m] = s[n] => m = n
      BY <2>1 DEF QueuesMatchJobs
    <3> HIDE DEF t, s
    <3>3. \A m \in 1..(Len(s) + 1) : m \in 1..Len(s) \/ m = Len(s) + 1
      <4>1. ASSUME NEW n \in Nat PROVE \A m \in 1..(n + 1) : m \in 1..n \/ m = n + 1
        OBVIOUS
      <4> QED
        BY <2>1, <4>1
    <3> QED
      BY <2>2, <3>1, <3>2, <3>3
  <2> HIDE DEF t, s
  <2>7. \A m \in Lanes : \A y : InQueue(m, y)' <=> (InQueue(m, y) \/ (m = l /\ y = x))
    <3> TAKE m \in Lanes
    <3> TAKE y
    <3>1. CASE m = l
      BY <2>3, <2>5, <3>1 DEF InQueue
    <3>2. CASE m # l
      BY <2>3, <3>2 DEF InQueue
    <3> QED
      BY <3>1, <3>2
  <2>8. \A m \in Lanes : \A y : InQueue(m, y) => Lane(y) = m
    BY <1>0
  <2>9. \A m \in Lanes : \A i, j \in DOMAIN queue'[m] : queue'[m][i] = queue'[m][j] => i = j
    <3> TAKE m \in Lanes
    <3>1. CASE m = l
      BY <2>3, <2>6, <3>1
    <3>2. CASE m # l
      BY <2>3, <3>2 DEF QueuesMatchJobs
    <3> QED
      BY <3>1, <3>2
  <2> HIDE DEF l
  <2>10. \A i \in TaskIds : job'[i] = "queued" <=> (job[i] = "queued" \/ i = x)
    BY <1>3 DEF JobTypes
  <2>11. \A i \in TaskIds : job'[i] = "queued" <=> \E m \in Lanes : InQueue(m, i)'
    BY <1>0, <2>1, <2>7, <2>10
  <2>12. \A m \in Lanes : \A i \in DOMAIN queue'[m] : Lane(queue'[m][i]) = m
    <3> TAKE m \in Lanes
    <3>1. \A y : (\E i \in DOMAIN queue'[m] : queue'[m][i] = y) => Lane(y) = m
      BY <2>7, <2>8 DEF InQueue, l
    <3> QED
      BY <3>1
  <2> QED
    BY <1>3, <2>9, <2>11, <2>12 DEF QueuesMatchJobs, InQueue, Lane
<1>4. CASE SilentStep
  BY <1>1, <1>4, Silent
<1>5. ASSUME NEW c \in Callers, NEW lp, NEW k \in Keys, NEW u,
             EnqueueReserve(c, lp, k, u)
      PROVE  QueuesMatchJobs'
  <2>1. /\ nextId \in TaskIds /\ keyOf' = [keyOf EXCEPT ![nextId] = k] /\ UNCHANGED <<queue, job>>
    BY <1>5 DEF EnqueueReserve, Reserve, laneVars
  <2>2. job[nextId] = "none"
    BY <2>1 DEF CallsAreFresh, NotStarted, TaskIds
  <2> QED
    BY <1>1, <2>1, <2>2 DEF Wiring
<1>6. ASSUME NEW c \in Callers, EnqueueSubmit(c) PROVE QueuesMatchJobs'
  <2> DEFINE id == call[c].id
  <2>1. /\ id \in TaskIds /\ job[id] = "none" /\ keyOf' = keyOf
        /\ \/ Start(id, call[c].loop) /\ queue' = queue
           \/ /\ queue' = [queue EXCEPT ![Lane(id)] = Append(@, id)]
              /\ job' = [job EXCEPT ![id] = "queued"]
           \/ UNCHANGED <<queue, job>>
    BY <1>6, SubmitMoves DEF NotStarted
  <2> HIDE DEF id
  <2>2. CASE Start(id, call[c].loop) /\ queue' = queue
    <3>1. job' = [job EXCEPT ![id] = "starting"]
      BY <2>2 DEF Start
    <3> QED
      BY <1>1, <2>1, <2>2, <3>1 DEF JobTypes
  <2> QED
    BY <1>1, <1>3, <2>1, <2>2
<1>7. ASSUME NEW id \in TaskIds, ThreadStep(id) PROVE QueuesMatchJobs'
  <2>1. /\ UNCHANGED <<queue, keyOf>>
        /\ job[id] # "queued" /\ job' = [job EXCEPT ![id] = job'[id]] /\ job'[id] # "queued"
    BY <1>7, ThreadMoves DEF Unstarted, laneVars
  <2> QED
    BY <1>1, <2>1 DEF JobTypes
<1>8. ASSUME NEW id \in TaskIds, DoneCallback(id) PROVE QueuesMatchJobs'
  BY <1>1, <1>8 DEF DoneCallback
<1>9. ASSUME NEW l \in Lanes, DrainStep(l) PROVE QueuesMatchJobs'
  <2>1. CASE UNCHANGED <<queue, job>>
    BY <1>1, <1>9, <2>1, DrainMoves
  <2>2. ASSUME NEW n \in 1..Len(queue[l]),
               queue[l][n] \in TaskIds,
               Start(queue[l][n], drain.loop),
               queue' = [queue EXCEPT ![l] = RemoveAt(queue[l], n)]
        PROVE  QueuesMatchJobs'
    <3>1. job' = [job EXCEPT ![queue[l][n]] = "starting"]
      BY <2>2 DEF Start
    <3>2. job'[queue[l][n]] # "queued" /\ \A i \in TaskIds \ {queue[l][n]} : job'[i] = job[i]
      BY <2>2, <3>1 DEF JobTypes
    <3>3. keyOf' = keyOf
      BY <1>9, DrainMoves
    <3> QED
      BY <1>2, <2>2, <3>2, <3>3
  <2> QED
    BY <1>9, <2>1, <2>2, DrainMoves
<1>10. ASSUME NEW x \in Cancellers, NEW k \in Keys, CancelRequest(x, k) PROVE QueuesMatchJobs'
  <2> DEFINE id == rows[k].id
  <2>1. /\ id \in TaskIds /\ keyOf' = keyOf
        /\ queue' = [l \in Lanes |-> RemoveFirst(queue[l], id)]
        /\ job' = [job EXCEPT ![id] = IF @ = "queued" THEN "removed" ELSE @]
    BY <1>10 DEF CancelRequest, IInv, TypeOK, Row
  <2> HIDE DEF id
  <2>2. \A l \in Lanes : ~InQueue(l, id) => RemoveFirst(queue[l], id) = queue[l]
    BY <1>0, RemoveFirstProperties DEF InQueue
  <2>3. CASE job[id] = "queued"
    <3> DEFINE l == Lane(id)
    <3>1. l \in Lanes /\ InQueue(l, id) /\ \A m \in Lanes \ {l} : ~InQueue(m, id)
      BY <1>0, <2>1, <2>3
    <3>2. PICK n \in 1..Len(queue[l]) :
            queue[l][n] = id /\ RemoveFirst(queue[l], id) = RemoveAt(queue[l], n)
      <4>1. queue[l] \in Seq(TaskIds) /\ \E n \in 1..Len(queue[l]) : queue[l][n] = id
        BY <1>0, <3>1 DEF InQueue
      <4> HIDE DEF l
      <4> QED
        BY <4>1, RemoveFirstProperties
    <3>3. queue' = [queue EXCEPT ![l] = RemoveAt(queue[l], n)]
      <4>1. \A m \in Lanes : queue'[m] = IF m = l THEN RemoveAt(queue[l], n) ELSE queue[m]
        BY <2>1, <2>2, <3>1, <3>2
      <4> HIDE DEF l
      <4> QED
        BY <1>0, <2>1, <4>1
    <3>4. job'[id] = "removed" /\ \A i \in TaskIds \ {id} : job'[i] = job[i]
      BY <2>1, <2>3 DEF JobTypes
    <3>5. /\ job'[queue[l][n]] # "queued"
          /\ \A i \in TaskIds \ {queue[l][n]} : job'[i] = "queued" <=> job[i] = "queued"
      BY <3>2, <3>4
    <3> HIDE DEF l
    <3> QED
      BY <1>2, <2>1, <3>1, <3>3, <3>5
  <2>4. CASE job[id] # "queued"
    <3>1. job' = job /\ queue' = queue
      BY <1>0, <2>1, <2>2, <2>4 DEF JobTypes
    <3> QED
      BY <1>1, <2>1, <3>1
  <2> QED
    BY <2>3, <2>4
<1>11. CASE BackendRestart
  BY <1>11 DEF BackendRestart, QueuesMatchJobs
<1> QED
  BY <1>4, <1>5, <1>6, <1>7, <1>8, <1>9, <1>10, <1>11, JobCases

(* The lane's counter is the number of wrappers that hold a slot.          *)
SlotsCounted == \A l \in Lanes : active[l] = Cardinality(Holding(l))

(* Finitely many wrappers hold a slot.                                     *)
LEMMA HoldingFinite == \A l : IsFiniteSet(Holding(l))
<1>1. MaxTasks \in Nat /\ IsFiniteSet(1..MaxTasks)
  BY StoreAssumption, FS_Interval
<1>2. \A l : Holding(l) \subseteq 1..MaxTasks
  BY DEF Holding, TaskIds, Slotted
<1> QED
  BY <1>1, <1>2, FS_Subset

(* A started job takes one slot of its lane.                               *)
LEMMA SlotTaken ==
  ASSUME Wiring, JobTypes, SlotsCounted, NEW id \in TaskIds, NEW lp \in {Main} \cup TaskIds,
         Start(id, lp), wrap[id] = "none", keyOf' = keyOf
  PROVE  SlotsCounted'
<1>1. /\ \A i \in TaskIds \ {id} : wrap'[i] = wrap[i]
      /\ wrap'[id] = "waiting"
      /\ active' = [active EXCEPT ![Lane(id)] = @ + 1]
  BY StartMoves
<1>2. \A i : Lane(i)' = Lane(i)
  BY DEF Lane
<1>3. active \in [Lanes -> Nat] /\ Lane(id) \in Lanes
  BY StoreAssumption DEF Wiring, LaneWiring, Lane
<1> SUFFICES ASSUME NEW l \in Lanes PROVE active'[l] = Cardinality(Holding(l)')
  BY DEF SlotsCounted
<1>4. CASE l = Lane(id)
  <2>1. Holding(l)' = Holding(l) \cup {id} /\ id \notin Holding(l)
    BY <1>1, <1>2, <1>4 DEF Holding, Slotted
  <2>2. Cardinality(Holding(l) \cup {id}) = Cardinality(Holding(l)) + 1
    BY <2>1, HoldingFinite, FS_AddElement
  <2> QED
    BY <1>1, <1>3, <1>4, <2>1, <2>2 DEF SlotsCounted
<1>5. CASE l # Lane(id)
  <2>1. Holding(l)' = Holding(l)
    BY <1>1, <1>2, <1>5 DEF Holding, Slotted
  <2> QED
    BY <1>1, <1>3, <1>5, <2>1 DEF SlotsCounted
<1> QED
  BY <1>4, <1>5

(* The counters of the lanes follow the wrappers.                          *)
LEMMA CountStep ==
  ASSUME IInv, Wiring, JobTypes, CallsAreFresh, OutcomesKept, QueuesMatchJobs, ThreadsWrapped,
         SlotsCounted, BackendNext
  PROVE  SlotsCounted'
<1> USE StoreAssumption, BackendAssumption
<1>1. ASSUME active' = active,
             \A i \in TaskIds : LET Holds == {"waiting", "cancelled", "lost"}
                                IN  /\ wrap'[i] \in Holds <=> wrap[i] \in Holds
                                    /\ wrap[i] \in Holds => keyOf'[i] = keyOf[i]
      PROVE  SlotsCounted'
  <2>1. \A l : Holding(l)' = Holding(l)
    BY <1>1 DEF Holding, Lane, Slotted
  <2> QED
    BY <1>1, <2>1 DEF SlotsCounted
<1>2. CASE SilentStep
  BY <1>1, <1>2, Silent
<1>3. ASSUME NEW c \in Callers, NEW lp, NEW k \in Keys, NEW u,
             EnqueueReserve(c, lp, k, u)
      PROVE  SlotsCounted'
  <2>1. /\ nextId \in TaskIds /\ keyOf' = [keyOf EXCEPT ![nextId] = k] /\ UNCHANGED <<active, wrap>>
    BY <1>3 DEF EnqueueReserve, Reserve, laneVars
  <2>2. wrap[nextId] = "none"
    BY <2>1 DEF CallsAreFresh, NotStarted, TaskIds
  <2> QED
    BY <1>1, <2>1, <2>2 DEF Wiring
<1>4. ASSUME NEW c \in Callers, EnqueueSubmit(c) PROVE SlotsCounted'
  <2>1. /\ call[c].id \in TaskIds /\ wrap[call[c].id] = "none" /\ keyOf' = keyOf
        /\ call[c].loop \in {Main} \cup TaskIds
        /\ Start(call[c].id, call[c].loop) \/ UNCHANGED <<active, wrap>>
    BY <1>4, SubmitMoves DEF NotStarted
  <2> QED
    BY <1>1, <2>1, SlotTaken
<1>5. ASSUME NEW id \in TaskIds, ThreadStep(id) PROVE SlotsCounted'
  <2>1. /\ UNCHANGED <<active, keyOf>>
        /\ \A i \in TaskIds : \/ wrap'[i] = wrap[i]
                              \/ wrap[i] = "waiting" /\ wrap'[i] \in {"cancelled", "lost"}
    BY <1>5, ThreadMoves DEF laneVars
  <2> QED
    BY <1>1, <2>1
<1>6. ASSUME NEW id \in TaskIds, DoneCallback(id) PROVE SlotsCounted'
  <2>1. /\ keyOf' = keyOf /\ wrap[id] \in {"waiting", "cancelled"}
        /\ wrap' = [wrap EXCEPT ![id] = "done"]
        /\ active' = [active EXCEPT ![Lane(id)] = IF @ > 0 THEN @ - 1 ELSE 0]
    BY <1>6 DEF DoneCallback
  <2>2. active \in [Lanes -> Nat] /\ Lane(id) \in Lanes /\ \A i : Lane(i)' = Lane(i)
    BY <2>1 DEF Wiring, LaneWiring, Lane
  <2>3. wrap'[id] = "done" /\ \A i \in TaskIds \ {id} : wrap'[i] = wrap[i]
    BY <2>1 DEF JobTypes
  <2>4. ASSUME NEW l \in Lanes PROVE active'[l] = Cardinality(Holding(l)')
    <3>1. CASE l = Lane(id)
      <4>1. Holding(l)' = Holding(l) \ {id} /\ id \in Holding(l)
        BY <2>1, <2>2, <2>3, <3>1 DEF Holding, Slotted
      <4>2. /\ Cardinality(Holding(l) \ {id}) = Cardinality(Holding(l)) - 1
            /\ Cardinality(Holding(l) \ {id}) \in Nat
        BY <4>1, HoldingFinite, FS_RemoveElement, FS_CardinalityType
      <4>3. active[l] = Cardinality(Holding(l)) /\ active[l] \in Nat
        BY <2>2 DEF SlotsCounted
      <4> QED
        BY <2>1, <2>2, <3>1, <4>1, <4>2, <4>3
    <3>2. CASE l # Lane(id)
      <4>1. Holding(l)' = Holding(l)
        BY <2>2, <2>3, <3>2 DEF Holding, Slotted
      <4> QED
        BY <2>1, <2>2, <3>2, <4>1 DEF SlotsCounted
    <3> QED
      BY <3>1, <3>2
  <2> QED
    BY <2>4 DEF SlotsCounted
<1>7. ASSUME NEW l \in Lanes, DrainStep(l) PROVE SlotsCounted'
  <2>1. CASE UNCHANGED <<active, wrap>>
    BY <1>1, <1>7, <2>1, DrainMoves
  <2>2. ASSUME NEW i \in TaskIds, job[i] = "queued", Start(i, drain.loop) PROVE SlotsCounted'
    <3>1. wrap[i] = "none" /\ drain.loop \in {Main} \cup TaskIds /\ keyOf' = keyOf
      BY <1>7, <2>2, DrainMoves DEF ThreadsWrapped, JobTypes
    <3> QED
      BY <2>2, <3>1, SlotTaken
  <2> QED
    BY <1>7, <2>1, <2>2, DrainMoves
<1>8. ASSUME NEW x \in Cancellers, NEW k \in Keys, CancelRequest(x, k) PROVE SlotsCounted'
  BY <1>1, <1>8 DEF CancelRequest
<1>9. CASE BackendRestart
  <2>1. \A l \in Lanes : Holding(l)' = {}
    BY <1>9 DEF BackendRestart, Holding, Slotted
  <2> QED
    BY <1>9, <2>1, FS_EmptySet DEF BackendRestart, SlotsCounted
<1> QED
  BY <1>2, <1>3, <1>4, <1>5, <1>6, <1>7, <1>8, <1>9, JobCases

(* What is being settled has no thread and no wrapper any more.            *)
LEMMA SettlesStep ==
  ASSUME IInv, Wiring, JobTypes, CallsAreFresh, OutcomesKept, QueuesMatchJobs, ThreadsWrapped,
         SettlesAreOver, BackendNext
  PROVE  SettlesAreOver'
<1> USE StoreAssumption, BackendAssumption
<1>1. ASSUME settle' \subseteq settle,
             \A i \in TaskIds : wrap[i] = "done" => wrap'[i] = "done"
      PROVE  SettlesAreOver'
  BY <1>1 DEF SettlesAreOver, JobTypes
<1>2. ASSUME NEW id \in TaskIds, NEW lp \in {Main} \cup TaskIds, Start(id, lp),
             wrap[id] = "none", settle' = settle
      PROVE  SettlesAreOver'
  <2>1. \A i \in TaskIds \ {id} : wrap'[i] = wrap[i]
    BY <1>2, StartMoves
  <2> QED
    BY <1>1, <1>2, <2>1
<1>3. CASE SilentStep \/ \E c, lp, k, u : EnqueueReserve(c, lp, k, u)
  <2>1. wrap' = wrap
    BY <1>3, Silent DEF EnqueueReserve
  <2>2. settle' \subseteq settle
    BY <1>3 DEF SilentStep, EnqueueMark, EnqueueFull, EnqueueAborted, Settle, Report, Configure,
                CancelWrite, StoreOnly, backendVars, EnqueueReserve
  <2> QED
    BY <1>1, <2>1, <2>2
<1>4. ASSUME NEW c \in Callers, EnqueueSubmit(c) PROVE SettlesAreOver'
  <2>1. /\ call[c].id \in TaskIds /\ wrap[call[c].id] = "none" /\ settle' = settle
        /\ call[c].loop \in {Main} \cup TaskIds
        /\ Start(call[c].id, call[c].loop) \/ wrap' = wrap
    BY <1>4, SubmitMoves DEF NotStarted
  <2> QED
    BY <1>1, <1>2, <2>1
<1>5. ASSUME NEW id \in TaskIds, ThreadStep(id) PROVE SettlesAreOver'
  BY <1>1, <1>5, ThreadMoves
<1>6. ASSUME NEW id \in TaskIds, DoneCallback(id) PROVE SettlesAreOver'
  <2>1. wrap' = [wrap EXCEPT ![id] = "done"] /\ settle' \subseteq settle \cup {id}
    BY <1>6 DEF DoneCallback
  <2> QED
    BY <2>1 DEF SettlesAreOver, JobTypes
<1>7. ASSUME NEW l \in Lanes, DrainStep(l) PROVE SettlesAreOver'
  <2>1. CASE wrap' = wrap
    BY <1>1, <1>7, <2>1, DrainMoves
  <2>2. ASSUME NEW i \in TaskIds, job[i] = "queued", Start(i, drain.loop) PROVE SettlesAreOver'
    <3>1. wrap[i] = "none" /\ drain.loop \in {Main} \cup TaskIds /\ settle' = settle
      BY <1>7, <2>2, DrainMoves DEF ThreadsWrapped, JobTypes
    <3> QED
      BY <1>2, <2>2, <3>1
  <2> QED
    BY <1>7, <2>1, <2>2, DrainMoves
<1>8. ASSUME NEW x \in Cancellers, NEW k \in Keys, CancelRequest(x, k) PROVE SettlesAreOver'
  BY <1>1, <1>8 DEF CancelRequest
<1>9. CASE BackendRestart
  BY <1>9 DEF BackendRestart, SettlesAreOver
<1> QED
  BY <1>3, <1>4, <1>5, <1>6, <1>7, <1>8, <1>9, JobCases

(* A flag is only raised, until the process ends.                          *)
LEMMA FlagsOnlyRise ==
  ASSUME JobTypes, QueuesMatchJobs, OutcomesKept, Wiring, CallsAreFresh, BackendNext
  PROVE  BackendRestart \/ flags \subseteq flags'
<1>1. SilentStep \/ (\E c, lp, k, u : EnqueueReserve(c, lp, k, u)) => flags' = flags
  BY Silent DEF EnqueueReserve
<1>2. (\E c \in Callers : EnqueueSubmit(c)) => flags' = flags
  BY SubmitMoves
<1>3. (\E id \in TaskIds : ThreadStep(id)) => flags' = flags
  BY ThreadMoves
<1>4. (\E id \in TaskIds : DoneCallback(id)) => flags' = flags
  BY DEF DoneCallback
<1>5. (\E l \in Lanes : DrainStep(l)) => flags' = flags
  BY DrainMoves
<1>6. ASSUME NEW x, NEW k, CancelRequest(x, k) PROVE flags \subseteq flags'
  BY <1>6 DEF CancelRequest
<1> QED
  BY <1>1, <1>2, <1>3, <1>4, <1>5, <1>6, JobCases

(* The cancel coroutines keep the flags of their runs raised.              *)
LEMMA FlagsStep ==
  ASSUME Wiring, JobTypes, QueuesMatchJobs, OutcomesKept, CallsAreFresh, FlagsRaised, BackendNext
  PROVE  FlagsRaised'
<1>1. CASE BackendRestart
  BY <1>1 DEF BackendRestart, FlagsRaised, Idle
<1>2. CASE flags \subseteq flags'
  <2> SUFFICES ASSUME NEW x \in Cancellers, cxl'[x].pc # "idle" PROVE cxl'[x].id \in flags'
    BY DEF FlagsRaised
  <2>1. CancelMoves(x)
    BY CancelCases
  <2>2. CASE cxl'[x] = cxl[x]
    BY <1>2, <2>2 DEF FlagsRaised
  <2>3. CASE cxl[x].pc = "flagged" /\ cxl'[x] = [pc |-> "acked", loop |-> Main, id |-> cxl[x].id]
    BY <1>2, <2>3 DEF FlagsRaised
  <2>4. CASE cxl'[x] # cxl[x] /\ cxl'[x].pc = "flagged"
    <3>1. \E y \in Cancellers, k \in Keys : CancelRequest(y, k)
      <4>1. ASSUME NEW y \in Cancellers, CancelWrite(y) PROVE cxl'[x] = cxl[x] \/ cxl'[x].pc # "flagged"
        <5>1. cxl' = [cxl EXCEPT ![y].pc = "acked"] \/ cxl' = [cxl EXCEPT ![y] = Idle]
          BY <4>1 DEF CancelWrite
        <5>2. x = y => cxl'[x].pc = "acked" \/ cxl'[x] = Idle
          <6>1. cxl[y].pc = "flagged"
            BY <4>1 DEF CancelWrite
          <6>2. cxl[y] \in Cancels
            BY <6>1 DEF Wiring, Idle
          <6> QED
            BY <5>1, <6>2 DEF Wiring, Cancels
        <5> QED
          BY <5>1, <5>2 DEF Wiring, Idle
      <4>2. ASSUME \/ \E c \in Callers : \E lp, k, u : EnqueueReserve(c, lp, k, u)
                   \/ \E c \in Callers : EnqueueStep(c)
                   \/ \E id \in TaskIds : WorkerStep(id) \/ Report(id)
                   \/ \E l \in Lanes : DrainStep(l)
                   \/ \E pol \in Policies : Configure(pol)
                   \/ StoreOnly
            PROVE  cxl' = cxl
        BY <4>2 DEF EnqueueReserve, EnqueueStep, EnqueueMark, EnqueueSubmit, EnqueueFull,
                    EnqueueAborted, WorkerStep, FirstStep, CheckCancel, Begin, EndRun, EndWorkflow,
                    CloseLoop, Finish, DoneCallback, Settle, Report, DrainStep, Configure,
                    StoreOnly, backendVars
      <4>3. BackendRestart => cxl'[x] = Idle
        BY DEF BackendRestart
      <4> QED
        BY <2>4, <4>1, <4>2, <4>3 DEF BackendNext, Idle
    <3>2. PICK y \in Cancellers, k \in Keys : CancelRequest(y, k)
      BY <3>1
    <3>3. /\ cxl' = [cxl EXCEPT ![y] = [pc |-> "flagged", loop |-> Main, id |-> rows[k].id]]
          /\ flags' = flags \cup {rows[k].id}
      BY <3>2 DEF CancelRequest
    <3> QED
      BY <2>4, <3>3 DEF Wiring
  <2>5. cxl'[x] # Idle
    BY DEF Idle
  <2>6. ASSUME NEW k, cxl'[x] = [pc |-> "flagged", loop |-> Main, id |-> rows[k].id]
        PROVE  cxl'[x].pc = "flagged"
    BY <2>6
  <2> QED
    BY <2>1, <2>2, <2>3, <2>4, <2>5, <2>6 DEF CancelMoves
<1> QED
  BY <1>1, <1>2, FlagsOnlyRise

(* A write of a run's own outcome ends its row.                            *)
LEMMA EndingWrite ==
  ASSUME IInv, RowsUnderTheirKeys, NEW i \in TaskIds, NEW st \in TerminalStatuses, NEW d,
         Write(keyOf[i], i, st, d), NEW k \in Keys
  PROVE  /\ rows'[k] = rows[k] \/ ~IsActive(k)'
         /\ rows[k].id = i => ~IsActive(k)'
         /\ rows[k].id # i /\ IsActive(k) => rows'[k] = rows[k]
<1>1. /\ rows \in [Keys -> Row \cup {NoRow}]
      /\ rows' = [rows EXCEPT ![keyOf[i]] = AfterWrite(rows[keyOf[i]], i, st, d)]
      /\ rows[k].expired => ~IsActive(k)
  BY DEF IInv, TypeOK, Write, OnlyFinishedExpire, IsActive, ActiveStatuses, TerminalStatuses
<1>2. CASE k # keyOf[i]
  <2>1. rows'[k] = rows[k]
    BY <1>1, <1>2
  <2>2. rows[k].id # i
    BY <1>2 DEF RowsUnderTheirKeys, TaskIds
  <2> QED
    BY <2>1, <2>2
<1>3. CASE k = keyOf[i]
  <2>1. rows'[k] = AfterWrite(rows[k], i, st, d)
    BY <1>1, <1>3
  <2>2. CASE rows[k].expired
    BY <1>1, <2>1, <2>2 DEF AfterWrite, IsActive, NoRow, ActiveStatuses
  <2>3. CASE ~rows[k].expired /\ rows[k].id = i /\ rows[k].status \in ActiveStatuses
    <3>1. rows[k] \in Row
      BY <1>1, <2>3 DEF NoRow, ActiveStatuses
    <3>2. rows'[k].status = st
      BY <2>1, <2>3, <3>1 DEF AfterWrite, Row
    <3> QED
      BY <2>3, <3>2 DEF IsActive, ActiveStatuses, TerminalStatuses
  <2>4. CASE ~rows[k].expired /\ ~(rows[k].id = i /\ rows[k].status \in ActiveStatuses)
    <3>1. rows'[k] = rows[k]
      BY <2>1, <2>4 DEF AfterWrite
    <3> QED
      BY <2>4, <3>1 DEF IsActive
  <2> QED
    BY <2>2, <2>3, <2>4
<1> QED
  BY <1>2, <1>3

(* A progress write touches its own run's active row, or nothing that is   *)
(* active.                                                                 *)
LEMMA ProgressWrite ==
  ASSUME IInv, RowsUnderTheirKeys, NEW i \in TaskIds, NEW st \in {"queued", "running"},
         NEW d \in BOOLEAN, Write(keyOf[i], i, st, d), NEW k \in Keys
  PROVE  /\ \/ rows'[k] = rows[k]
            \/ ~IsActive(k)'
            \/ rows[k].id = i /\ IsActive(k)
         /\ rows[k].id = i /\ IsActive(k)
              => rows'[k].id = i /\ IsActive(k)' /\ rows'[k].boot = boot
         /\ rows[k].id # i /\ IsActive(k) => rows'[k] = rows[k]
<1>1. /\ rows \in [Keys -> Row \cup {NoRow}]
      /\ rows' = [rows EXCEPT ![keyOf[i]] = AfterWrite(rows[keyOf[i]], i, st, d)]
      /\ rows[k].expired => ~IsActive(k)
  BY DEF IInv, TypeOK, Write, OnlyFinishedExpire, IsActive, ActiveStatuses, TerminalStatuses
<1>2. CASE k # keyOf[i]
  <2>1. rows'[k] = rows[k]
    BY <1>1, <1>2
  <2>2. rows[k].id # i
    BY <1>2 DEF RowsUnderTheirKeys, TaskIds
  <2> QED
    BY <2>1, <2>2
<1>3. CASE k = keyOf[i]
  <2>1. rows'[k] = AfterWrite(rows[k], i, st, d)
    BY <1>1, <1>3
  <2>2. CASE rows[k].expired
    BY <1>1, <2>1, <2>2 DEF AfterWrite, IsActive, NoRow, ActiveStatuses
  <2>3. CASE ~rows[k].expired /\ rows[k].id = i /\ rows[k].status \in ActiveStatuses
    <3>1. rows[k] \in Row
      BY <1>1, <2>3 DEF NoRow, ActiveStatuses
    <3>2. rows'[k].status = st /\ rows'[k].id = i /\ rows'[k].boot = boot
      BY <2>1, <2>3, <3>1 DEF AfterWrite, Row
    <3> QED
      BY <2>3, <3>2 DEF IsActive, ActiveStatuses
  <2>4. CASE ~rows[k].expired /\ ~(rows[k].id = i /\ rows[k].status \in ActiveStatuses)
    <3>1. rows'[k] = rows[k]
      BY <2>1, <2>4 DEF AfterWrite
    <3> QED
      BY <2>4, <3>1 DEF IsActive
  <2> QED
    BY <2>2, <2>3, <2>4
<1> QED
  BY <1>2, <1>3

(* Run i is being finished by this step.                                   *)
Ending(i) ==
  /\ \E st \in TerminalStatuses, d \in BOOLEAN : Write(keyOf[i], i, st, d)
  /\ \/ \E c \in Callers : EnqueueFull(c) /\ call[c].id = i
     \/ Finish(i)
     \/ i \in settle
     \/ \E x \in Cancellers : cxl[x].pc = "flagged" /\ cxl[x].id = i

(* Run i's own progress is being written by this step.                     *)
Progressing(i) ==
  /\ \E st \in {"queued", "running"}, d \in BOOLEAN : Write(keyOf[i], i, st, d)
  /\ \/ \E c \in Callers : EnqueueMark(c) /\ call[c].id = i /\ call'[c].id = i /\ call'[c].pc = "marked"
     \/ job[i] \in {"begin", "run"} /\ job'[i] = "run" /\ wrap' = wrap

(* Every way a step of the backend writes rows.                            *)
LEMMA WriteCases ==
  ASSUME IInv, Wiring, JobTypes, BackendNext
  PROVE  \/ rows' = rows
         \/ \E c \in Callers, lp \in {Main} \cup TaskIds, k \in Keys, u \in Users :
              EnqueueReserve(c, lp, k, u)
         \/ \E i \in TaskIds : Ending(i)
         \/ \E i \in TaskIds : Progressing(i)
         \/ StoreOnly
<1> USE DEF ActiveStatuses, TerminalStatuses
<1>1. ASSUME NEW p, Fault(p) PROVE rows' = rows
  BY <1>1 DEF Fault, storeVars
<1>2. ASSUME NEW c \in Callers, EnqueueMark(c)
      PROVE  rows' = rows \/ \E i \in TaskIds : Progressing(i)
  <2>1. CASE Fault("mark")
    BY <1>1, <2>1
  <2>2. CASE /\ Progress(keyOf[call[c].id], call[c].id, "queued", FALSE)
             /\ call' = [call EXCEPT ![c].pc = "marked"]
    <3>1. call[c] \in Calls
      BY <1>2 DEF EnqueueMark, Wiring, Idle
    <3>2. call'[c].pc = "marked" /\ call'[c].id = call[c].id /\ call[c].id \in TaskIds
      BY <2>2, <3>1 DEF Wiring, Calls
    <3>3. Write(keyOf[call[c].id], call[c].id, "queued", FALSE)
      BY <2>2 DEF Progress
    <3>4. Progressing(call[c].id)
      BY <1>2, <3>2, <3>3 DEF Progressing
    <3> QED
      BY <3>2, <3>4
  <2> QED
    BY <1>2, <2>1, <2>2 DEF EnqueueMark
<1>3. ASSUME NEW c \in Callers, EnqueueFull(c)
      PROVE  rows' = rows \/ \E i \in TaskIds : Ending(i)
  <2>1. CASE Fault("full")
    BY <1>1, <2>1
  <2>2. CASE Fail(keyOf[call[c].id], call[c].id)
    <3>1. call[c].id \in TaskIds
      BY <1>3 DEF EnqueueFull, Wiring, Calls, Idle
    <3> QED
      BY <1>3, <2>2, <3>1 DEF Ending, Fail
  <2> QED
    BY <1>3, <2>1, <2>2 DEF EnqueueFull
<1>4. ASSUME NEW id \in TaskIds, ThreadStep(id)
      PROVE  rows' = rows \/ Ending(id) \/ Progressing(id)
  <2>1. CASE FirstStep(id) \/ CheckCancel(id) \/ EndRun(id) \/ EndWorkflow(id) \/ CloseLoop(id)
    BY <2>1 DEF FirstStep, CheckCancel, EndRun, EndWorkflow, CloseLoop, storeVars
  <2>2. CASE Begin(id)
    <3>1. CASE Fault("begin")
      BY <1>1, <3>1
    <3>2. CASE /\ Progress(keyOf[id], id, "running", FALSE)
               /\ job' = [job EXCEPT ![id] = "run"]
      <4>1. job[id] = "begin" /\ job'[id] = "run" /\ wrap' = wrap
        BY <2>2, <3>2 DEF Begin, JobTypes
      <4> QED
        BY <3>2, <4>1 DEF Progress, Progressing
    <3> QED
      BY <2>2, <3>1, <3>2 DEF Begin
  <2>3. CASE Finish(id)
    <3>1. CASE Fault("complete") \/ Fault("fail") \/ Fault("cancelled")
      BY <1>1, <3>1
    <3>2. CASE Complete(keyOf[id], id) \/ Fail(keyOf[id], id) \/ Cancel(keyOf[id], id)
      BY <2>3, <3>2 DEF Complete, Fail, Cancel, Ending
    <3> QED
      BY <2>3, <3>1, <3>2 DEF Finish
  <2> QED
    BY <1>4, <2>1, <2>2, <2>3 DEF ThreadStep
<1>5. ASSUME NEW id \in TaskIds, Settle(id) PROVE rows' = rows \/ Ending(id)
  BY <1>1, <1>5 DEF Settle, Fail, Ending
<1>6. ASSUME NEW id \in TaskIds, Report(id) PROVE Progressing(id)
  BY <1>6 DEF Report, Progress, Progressing, backendVars
<1>7. ASSUME NEW x \in Cancellers, CancelWrite(x)
      PROVE  rows' = rows \/ \E i \in TaskIds : Ending(i)
  <2>1. CASE Fault("cancel")
    BY <1>1, <2>1
  <2>2. CASE Cancel(keyOf[cxl[x].id], cxl[x].id)
    <3>1. cxl[x].id \in TaskIds /\ cxl[x].pc = "flagged"
      BY <1>7 DEF CancelWrite, Wiring, Cancels, Idle
    <3> QED
      BY <2>2, <3>1 DEF Ending, Cancel
  <2> QED
    BY <1>7, <2>1, <2>2 DEF CancelWrite
<1>8. (\E c : EnqueueAborted(c) \/ EnqueueSubmit(c)) \/ (\E id : DoneCallback(id))
        \/ (\E l : DrainStep(l)) \/ (\E pol : Configure(pol)) \/ (\E x, k : CancelRequest(x, k))
        \/ BackendRestart
        => rows' = rows
  BY DEF EnqueueAborted, EnqueueSubmit, DoneCallback, DrainStep, Configure, CancelRequest,
         BackendRestart, Restart, storeVars
<1> QED
  BY <1>2, <1>3, <1>4, <1>5, <1>6, <1>7, <1>8, JobCases DEF SilentStep

(* How a row that is active after a step came to be so.                    *)
LEMMA ActiveRows ==
  ASSUME IInv, Wiring, JobTypes, RowsUnderTheirKeys, BackendNext, NEW k \in Keys, IsActive(k)'
  PROVE  \/ rows'[k] = rows[k] /\ \A i \in TaskIds : Ending(i) => rows[k].id # i
         \/ \E c \in Callers, lp \in {Main} \cup TaskIds, u \in Users : EnqueueReserve(c, lp, k, u)
         \/ /\ rows[k].id \in TaskIds /\ IsActive(k) /\ Progressing(rows[k].id)
            /\ rows'[k].id = rows[k].id /\ rows'[k].boot = boot
<1>0. rows \in [Keys -> Row \cup {NoRow}]
  BY DEF IInv, TypeOK
<1>1. ASSUME NEW i \in TaskIds, Ending(i)
      PROVE  rows'[k] = rows[k] /\ rows[k].id # i
  BY <1>1, EndingWrite DEF Ending
<1>2. CASE rows' = rows
  BY <1>1, <1>2
<1>3. ASSUME NEW c \in Callers, NEW lp \in {Main} \cup TaskIds, NEW j \in Keys, NEW u \in Users,
             EnqueueReserve(c, lp, j, u), j # k
      PROVE  rows'[k] = rows[k]
  BY <1>0, <1>3 DEF EnqueueReserve, Reserve
<1>4. ASSUME NEW i \in TaskIds, Progressing(i)
      PROVE  \/ rows'[k] = rows[k]
             \/ /\ rows[k].id \in TaskIds /\ IsActive(k) /\ Progressing(rows[k].id)
                /\ rows'[k].id = rows[k].id /\ rows'[k].boot = boot
  <2>1. PICK st \in {"queued", "running"}, d \in BOOLEAN : Write(keyOf[i], i, st, d)
    BY <1>4 DEF Progressing
  <2> QED
    BY <1>4, <2>1, ProgressWrite
<1>5. CASE StoreOnly
  <2>1. ASSUME NEW p, Sweep(p) \/ SweepFails(p) PROVE rows'[k] = rows[k]
    <3>1. rows'[k] = rows[k] \/ (rows'[k] = SweptRow(rows[k]) /\ IsActive(k) /\ rows[k].boot < boot)
      BY <2>1 DEF Sweep, SweepFails, SweptRow, IsActive
    <3>2. CASE rows'[k] = SweptRow(rows[k]) /\ IsActive(k) /\ rows[k].boot < boot
      <4>1. rows[k] \in Row
        BY <1>0, <3>2 DEF IsActive, NoRow, ActiveStatuses
      <4>2. rows'[k].status = "failed"
        BY <3>2, <4>1 DEF SweptRow, IsActive, Row
      <4> QED
        BY <4>2 DEF IsActive, ActiveStatuses
    <3> QED
      BY <3>1, <3>2
  <2>2. ASSUME NEW j \in Keys, Expire(j) PROVE rows'[k] = rows[k]
    <3>1. CASE j = k
      <4>1. rows[k] \in Row
        BY <1>0, <2>2, <3>1 DEF Expire, NoRow, TerminalStatuses
      <4>2. rows'[k].status = rows[k].status
        BY <1>0, <2>2, <3>1, <4>1 DEF Expire, Row
      <4> QED
        BY <2>2, <3>1, <4>2 DEF Expire, IsActive, ActiveStatuses, TerminalStatuses
    <3>2. CASE j # k
      BY <1>0, <2>2, <3>2 DEF Expire
    <3> QED
      BY <3>1, <3>2
  <2>3. ASSUME NEW r, DeleteSeen(r) PROVE rows'[k] = rows[k]
    <3>1. rows'[k] = rows[k] \/ rows'[k] = NoRow
      BY <1>0, <2>3 DEF DeleteSeen
    <3> QED
      BY <3>1 DEF IsActive, NoRow, ActiveStatuses
  <2>4. ASSUME NEW r, NEW j, SeeExpired(r, j) \/ SeeCompleted(r, j) PROVE rows'[k] = rows[k]
    BY <2>4 DEF SeeExpired, SeeCompleted
  <2> QED
    BY <1>1, <1>5, <2>1, <2>2, <2>3, <2>4 DEF StoreOnly
<1> QED
  BY <1>1, <1>2, <1>3, <1>4, <1>5, WriteCases

(* Only a restart changes the process.                                     *)
LEMMA BootKept ==
  ASSUME IInv, Wiring, BackendNext
  PROVE  BackendRestart \/ boot' = boot
<1>1. ASSUME NEW k, NEW id, NEW s, NEW d, Write(k, id, s, d) PROVE boot' = boot
  BY <1>1 DEF Write
<1>2. ASSUME NEW p, Fault(p) PROVE boot' = boot
  BY <1>2 DEF Fault, storeVars
<1>3. ASSUME NEW c, EnqueueStep(c) PROVE boot' = boot
  BY <1>1, <1>2, <1>3 DEF EnqueueStep, EnqueueMark, EnqueueSubmit, EnqueueFull, EnqueueAborted,
                          Progress, Fail, storeVars
<1>4. ASSUME NEW id, WorkerStep(id) \/ Report(id) PROVE boot' = boot
  BY <1>1, <1>2, <1>4 DEF WorkerStep, FirstStep, CheckCancel, Begin, EndRun, EndWorkflow,
                          CloseLoop, Finish, DoneCallback, Settle, Report, Progress, Fail,
                          Complete, Cancel, storeVars
<1>5. ASSUME NEW x, NEW k, CancelWrite(x) \/ CancelRequest(x, k) PROVE boot' = boot
  BY <1>1, <1>2, <1>5 DEF CancelWrite, CancelRequest, Cancel, storeVars
<1>6. StoreOnly \/ (\E l : DrainStep(l)) \/ (\E pol : Configure(pol))
        \/ (\E c, lp, k, u : EnqueueReserve(c, lp, k, u)) => boot' = boot
  BY DEF StoreOnly, Sweep, SweepFails, Expire, DeleteSeen, SeeExpired, SeeCompleted,
         DrainStep, Configure, EnqueueReserve, Reserve, storeVars
<1> QED
  BY <1>3, <1>4, <1>5, <1>6 DEF BackendNext

(* A thread comes to its normal end with its last write only.              *)
LEMMA ReturnsByWriting ==
  ASSUME IInv, Wiring, JobTypes, CallsAreFresh, OutcomesKept, QueuesMatchJobs, BackendNext,
         NEW i \in TaskIds, job'[i] = "returned", job[i] # "returned"
  PROVE  Ending(i)
<1> USE DEF TerminalStatuses
<1>1. CASE Finish(i)
  <2>1. job'[i] = "returned" => Complete(keyOf[i], i) \/ Fail(keyOf[i], i) \/ Cancel(keyOf[i], i)
    BY <1>1 DEF Finish, JobTypes
  <2> QED
    BY <1>1, <2>1 DEF Ending, Complete, Fail, Cancel
<1>2. ASSUME NEW id \in TaskIds, ThreadStep(id) PROVE Finish(i)
  <2>1. /\ job' = [job EXCEPT ![id] = job'[id]]
    BY <1>2, ThreadMoves
  <2>2. id = i
    BY <2>1 DEF JobTypes
  <2>3. ~(FirstStep(i) \/ CheckCancel(i) \/ Begin(i))
    BY DEF FirstStep, CheckCancel, Begin, JobTypes
  <2>4. ~EndRun(i)
    <3> DEFINE Moves(e) == job' = [job EXCEPT ![i] = e]
    <3>1. \A e : Moves(e) => e = "returned"
      BY DEF JobTypes
    <3>2. "returned" \notin Ends(i)
      BY DEF Ends
    <3>3. EndRun(i) => \E e \in Ends(i) : Moves(e)
      BY DEF EndRun
    <3> HIDE DEF Moves
    <3> QED
      BY <3>1, <3>2, <3>3
  <2>5. ~EndWorkflow(i)
    BY DEF EndWorkflow, JobTypes
  <2>6. ~CloseLoop(i)
    BY DEF CloseLoop, JobTypes
  <2> QED
    BY <1>2, <2>2, <2>3, <2>4, <2>5, <2>6 DEF ThreadStep
<1>3. SilentStep \/ (\E c, lp, k, u : EnqueueReserve(c, lp, k, u)) => job' = job
  BY Silent DEF EnqueueReserve
<1>4. ASSUME NEW id \in TaskIds, NEW lp, Start(id, lp) PROVE FALSE
  BY <1>4 DEF Start, JobTypes
<1>5. ~\E c \in Callers : EnqueueSubmit(c)
  <2> SUFFICES ASSUME NEW c \in Callers, EnqueueSubmit(c) PROVE FALSE
    OBVIOUS
  <2>1. /\ call[c].id \in TaskIds
        /\ \/ Start(call[c].id, call[c].loop)
           \/ job' = [job EXCEPT ![call[c].id] = "queued"]
           \/ job' = job
    BY SubmitMoves
  <2> QED
    BY <1>4, <2>1 DEF JobTypes
<1>6. ~\E id \in TaskIds : DoneCallback(id)
  BY DEF DoneCallback
<1>7. ~\E l \in Lanes : DrainStep(l)
  BY <1>4, DrainMoves
<1>8. ~\E x \in Cancellers, k \in Keys : CancelRequest(x, k)
  BY DEF CancelRequest, JobTypes
<1>9. ~BackendRestart
  BY DEF BackendRestart
<1> QED
  BY <1>1, <1>2, <1>3, <1>5, <1>6, <1>7, <1>8, <1>9, JobCases

(* A thread that returned has written its run's outcome.                   *)
LEMMA ReturnedStep ==
  ASSUME IInv, IInv', Wiring, JobTypes, CallsAreFresh, OutcomesKept, QueuesMatchJobs,
         RowsUnderTheirKeys, ReturnedEnded, BackendNext
  PROVE  ReturnedEnded'
<1> SUFFICES ASSUME NEW i \in TaskIds, NEW k \in Keys,
                    job'[i] = "returned", rows'[k].id = i, IsActive(k)'
             PROVE  FALSE
  BY DEF ReturnedEnded
<1>1. job[i] = "returned" \/ Ending(i)
  BY ReturnsByWriting
<1>2. rows'[k] # rows[k] \/ Ending(i)
  BY <1>1 DEF ReturnedEnded, IsActive
<1>3. ~(rows'[k] = rows[k] /\ \A j \in TaskIds : Ending(j) => rows[k].id # j)
  BY <1>2
<1>4. ASSUME NEW c \in Callers, NEW lp, NEW u, EnqueueReserve(c, lp, k, u) PROVE FALSE
  <2>1. rows'[k].id = nextId /\ job' = job
    BY <1>4 DEF EnqueueReserve, Reserve, IInv, TypeOK
  <2>2. job[i] = "none"
    BY <2>1 DEF CallsAreFresh, NotStarted, TaskIds
  <2> QED
    BY <2>1, <2>2
<1>5. ASSUME Progressing(i) PROVE job'[i] # "returned"
  <2>1. ASSUME NEW c \in Callers, EnqueueMark(c), call[c].id = i PROVE job'[i] = "none"
    BY <2>1 DEF EnqueueMark, CallsAreFresh, NotStarted
  <2> QED
    BY <1>5, <2>1 DEF Progressing
<1> QED
  BY <1>3, <1>4, <1>5, ActiveRows

----------------------------------------------------------------------------
(* No write that may leave an active row behind has failed, and no workflow*)
(* has ended.                                                              *)
Settled == faults \cap Unsettled = {} /\ \A i \in TaskIds : outcome[i] = "none"

(* A step that ends with nothing gone wrong started so.                    *)
LEMMA SettledBefore ==
  ASSUME IInv, Wiring, JobTypes, CallsAreFresh, OutcomesKept, QueuesMatchJobs, ThreadsWrapped,
         BackendNext, ~BackendRestart, Settled'
  PROVE  /\ Settled
         /\ \A p \in Unsettled : ~Fault(p)
         /\ \A i \in TaskIds : job[i] # "closing" /\ loop[i] # "closing" /\ wrap[i] # "lost"
         /\ \A i \in TaskIds : wrap'[i] # "lost"
<1>1. faults \subseteq faults'
  BY FaultsStep
<1>2. \A p \in Unsettled : ~Fault(p)
  BY DEF Settled, Fault
<1>3. \A i \in TaskIds : outcome[i] = "none"
  <2>1. SilentStep \/ (\E c, lp, k, u : EnqueueReserve(c, lp, k, u)) => outcome' = outcome
    BY Silent DEF EnqueueReserve
  <2>2. (\E c \in Callers : EnqueueSubmit(c)) \/ (\E id : DoneCallback(id)) \/ (\E l \in Lanes : DrainStep(l))
          \/ (\E x, k : CancelRequest(x, k)) => outcome' = outcome
    BY SubmitMoves, DrainMoves DEF DoneCallback, CancelRequest
  <2>3. ASSUME NEW id \in TaskIds, ThreadStep(id)
        PROVE  outcome' = outcome \/ EndWorkflow(id)
    BY <2>3 DEF ThreadStep, FirstStep, CheckCancel, Begin, EndRun, CloseLoop, Finish
  <2>4. ASSUME NEW id \in TaskIds, EndWorkflow(id) PROVE FALSE
    <3>1. PICK e \in Ends(id) : outcome' = [outcome EXCEPT ![id] = e]
      BY <2>4 DEF EndWorkflow
    <3>2. outcome'[id] = e /\ e # "none"
      BY <3>1 DEF Ends, JobTypes
    <3> QED
      BY <3>2 DEF Settled
  <2>5. outcome' = outcome
    BY <2>1, <2>2, <2>3, <2>4, JobCases
  <2> QED
    BY <2>5 DEF Settled
<1>4. OutcomesKept'
  BY OutcomesStep
<1> QED
  BY <1>1, <1>2, <1>3, <1>4 DEF Settled, OutcomesKept

(* Where nothing has gone wrong, an owner stays or hands the run on, unless*)
(* it ends it.                                                             *)
LEMMA OwnersStay ==
  ASSUME IInv, Wiring, JobTypes, CallsAreFresh, OutcomesKept, QueuesMatchJobs, ThreadsWrapped,
         RowsUnderTheirKeys, ReturnedEnded, BackendNext, ~BackendRestart, Settled',
         NEW k \in Keys, NEW i \in TaskIds, rows[k].id = i, IsActive(k), Owned(i), ~Ending(i)
  PROVE  Owned(i)'
<1> USE DEF TerminalStatuses
<1>0. /\ Settled /\ \A p \in Unsettled : ~Fault(p)
      /\ \A j \in TaskIds : job[j] # "closing" /\ loop[j] # "closing" /\ wrap[j] # "lost"
      /\ \A j \in TaskIds : wrap'[j] # "lost"
  BY SettledBefore
<1>2. CASE \E c \in Callers : call[c].pc # "idle" /\ call[c].id = i
  <2>1. PICK c \in Callers : call[c].pc # "idle" /\ call[c].id = i
    BY <1>2
  <2>2. CASE call'[c] = call[c]
    BY <2>1, <2>2 DEF Owned
  <2>3. ASSUME NEW b \in Callers, EnqueueMark(b) PROVE call'[c].pc # "idle" /\ call'[c].id = i
    <3>1. call' = [call EXCEPT ![b].pc = "marked"] /\ call[b] \in Calls
      <4>1. call[b] \in Calls
        BY <2>3 DEF EnqueueMark, Wiring, Idle
      <4>2. ~Fault("mark")
        BY <1>0 DEF Unsettled
      <4> QED
        BY <2>3, <4>1, <4>2 DEF EnqueueMark
    <3>2. call'[b].pc = "marked" /\ call'[b].id = call[b].id
      BY <3>1 DEF Wiring, Calls
    <3> QED
      BY <2>1, <3>1, <3>2 DEF Wiring
  <2>4. ASSUME NEW b \in Callers, EnqueueFull(b) PROVE call'[c] = call[c]
    <3>1. call' = [call EXCEPT ![b] = Idle] /\ Fail(keyOf[call[b].id], call[b].id)
      BY <1>0, <2>4 DEF EnqueueFull, Unsettled
    <3>2. b # c
      BY <2>1, <2>4, <3>1 DEF Ending, Fail
    <3> QED
      BY <3>1, <3>2 DEF Wiring
  <2>5. ASSUME NEW b \in Callers, EnqueueAborted(b) PROVE FALSE
    <3>1. call[b].loop \in TaskIds
      BY <2>5 DEF EnqueueAborted, Wiring, Calls, Idle
    <3> QED
      BY <1>0, <2>5, <3>1 DEF EnqueueAborted
  <2>6. ASSUME NEW b \in Callers, EnqueueSubmit(b)
        PROVE  \/ call'[c] = call[c]
               \/ call'[c].pc # "idle" /\ call'[c].id = i
               \/ job'[i] = "queued" \/ wrap'[i] = "waiting"
    <3>1. b # c => call'[c] = call[c]
      BY <2>6, SubmitMoves DEF Wiring
    <3>2. CASE b = c
      <4>1. CASE Start(call[b].id, call[b].loop)
        BY <2>1, <3>2, <4>1 DEF Start, JobTypes
      <4>2. CASE job' = [job EXCEPT ![call[b].id] = "queued"]
        BY <2>1, <3>2, <4>2 DEF JobTypes
      <4>3. CASE call' = [call EXCEPT ![b].pc = "full"]
        <5>1. call[b] \in Calls
          BY <2>1, <3>2 DEF Wiring, Idle
        <5>2. call'[b].pc = "full" /\ call'[b].id = call[b].id
          BY <4>3, <5>1 DEF Wiring, Calls
        <5> QED
          BY <2>1, <3>2, <5>2
      <4> QED
        BY <2>6, <4>1, <4>2, <4>3, SubmitMoves
    <3> QED
      BY <3>1, <3>2
  <2>7. ASSUME NEW b \in Callers, NEW lp, NEW j \in Keys, NEW u, EnqueueReserve(b, lp, j, u)
        PROVE  call'[c] = call[c]
    <3>1. b # c /\ call' = [call EXCEPT ![b] = [pc |-> "reserved", loop |-> lp, id |-> nextId]]
      BY <2>1, <2>7 DEF EnqueueReserve
    <3> QED
      BY <3>1 DEF Wiring
  <2>8. (\E id \in TaskIds : Settle(id) \/ Report(id)) \/ (\E pol \in Policies : Configure(pol))
          \/ (\E x \in Cancellers : CancelWrite(x)) \/ StoreOnly
          \/ (\E id \in TaskIds : ThreadStep(id) \/ DoneCallback(id))
          \/ (\E l \in Lanes : DrainStep(l)) \/ (\E x \in Cancellers, j \in Keys : CancelRequest(x, j))
          => call' = call
    BY ThreadMoves, DrainMoves
    DEF Settle, Report, Configure, CancelWrite, StoreOnly, DoneCallback, CancelRequest, backendVars
  <2>9. \/ call'[c] = call[c]
        \/ call'[c].pc # "idle" /\ call'[c].id = i
        \/ job'[i] = "queued" \/ wrap'[i] = "waiting"
    BY <2>3, <2>4, <2>5, <2>6, <2>7, <2>8, JobCases DEF SilentStep
  <2> QED
    BY <2>1, <2>9 DEF Owned
<1>3. CASE job[i] = "queued"
  <2>1. \/ job'[i] = "queued"
        \/ wrap'[i] = "waiting"
        \/ \E x \in Cancellers : cxl'[x].pc = "flagged" /\ cxl'[x].id = i
    <3>1. SilentStep \/ (\E c, lp, j, u : EnqueueReserve(c, lp, j, u))
            \/ (\E id \in TaskIds : DoneCallback(id)) => job' = job
      BY Silent DEF EnqueueReserve, DoneCallback
    <3>2. ASSUME NEW c \in Callers, EnqueueSubmit(c) PROVE job'[i] = "queued"
      <4>1. call[c].id # i /\ call[c].id \in TaskIds
        BY <1>3, <3>2, SubmitMoves DEF NotStarted
      <4> QED
        BY <1>3, <3>2, <4>1, SubmitMoves DEF Start, JobTypes
    <3>3. ASSUME NEW id \in TaskIds, ThreadStep(id) PROVE job'[i] = "queued"
      BY <1>3, <3>3, ThreadMoves DEF Unstarted, JobTypes
    <3>4. ASSUME NEW l \in Lanes, DrainStep(l) PROVE job'[i] = "queued" \/ wrap'[i] = "waiting"
      <4>1. ASSUME NEW j \in TaskIds, Start(j, drain.loop)
            PROVE  job'[i] = "queued" \/ wrap'[i] = "waiting"
        BY <1>3, <4>1 DEF Start, JobTypes
      <4> QED
        BY <1>3, <3>4, <4>1, DrainMoves
    <3>5. ASSUME NEW x \in Cancellers, NEW j \in Keys, CancelRequest(x, j)
          PROVE  job'[i] = "queued" \/ (cxl'[x].pc = "flagged" /\ cxl'[x].id = i)
      <4>1. /\ cxl' = [cxl EXCEPT ![x] = [pc |-> "flagged", loop |-> Main, id |-> rows[j].id]]
            /\ job' = [job EXCEPT ![rows[j].id] = IF @ = "queued" THEN "removed" ELSE @]
        BY <3>5 DEF CancelRequest
      <4>2. cxl'[x].pc = "flagged" /\ cxl'[x].id = rows[j].id
        BY <4>1 DEF Wiring
      <4>3. rows[j].id # i => job'[i] = job[i]
        BY <4>1 DEF JobTypes
      <4> QED
        BY <1>3, <4>2, <4>3
    <3> QED
      BY <1>3, <3>1, <3>2, <3>3, <3>4, <3>5, JobCases
  <2> QED
    BY <2>1 DEF Owned
<1>4. CASE wrap[i] \in {"waiting", "cancelled"}
  <2>1. wrap'[i] \in {"waiting", "cancelled"} \/ i \in settle'
    <3>1. SilentStep \/ (\E c, lp, j, u : EnqueueReserve(c, lp, j, u))
            \/ (\E x \in Cancellers, j \in Keys : CancelRequest(x, j)) => wrap' = wrap
      BY Silent DEF EnqueueReserve, CancelRequest
    <3>2. ASSUME NEW c \in Callers, EnqueueSubmit(c) PROVE wrap'[i] = wrap[i]
      <4>1. call[c].id # i /\ call[c].id \in TaskIds
        BY <1>4, <3>2, SubmitMoves DEF NotStarted
      <4> QED
        BY <3>2, <4>1, SubmitMoves DEF Start, JobTypes
    <3>3. ASSUME NEW id \in TaskIds, ThreadStep(id) PROVE wrap'[i] \in {"waiting", "cancelled"}
      BY <1>0, <1>4, <3>3, ThreadMoves
    <3>4. ASSUME NEW l \in Lanes, DrainStep(l) PROVE wrap'[i] \in {"waiting", "cancelled"}
      <4>1. ASSUME NEW j \in TaskIds, Start(j, drain.loop)
            PROVE  wrap'[i] \in {"waiting", "cancelled"}
        BY <1>4, <4>1 DEF Start, JobTypes
      <4> QED
        BY <1>4, <3>4, <4>1, DrainMoves
    <3>5. ASSUME NEW id \in TaskIds, DoneCallback(id)
          PROVE  wrap'[i] \in {"waiting", "cancelled"} \/ i \in settle'
      <4>1. CASE id # i
        BY <1>4, <3>5, <4>1 DEF DoneCallback, JobTypes
      <4>2. CASE id = i
        <5>1. job[i] # "returned"
          BY DEF ReturnedEnded
        <5>2. NeedsSettlement(i)
          BY <3>5, <4>2, <5>1 DEF DoneCallback, WrapperEnds, ThreadOver, NeedsSettlement,
                                  ThreadsWrapped
        <5> QED
          BY <3>5, <4>2, <5>2 DEF DoneCallback
      <4> QED
        BY <4>1, <4>2
    <3> QED
      BY <1>4, <3>1, <3>2, <3>3, <3>4, <3>5, JobCases
  <2> QED
    BY <2>1 DEF Owned
<1>5. CASE i \in settle
  <2>1. ASSUME NEW id \in TaskIds, Settle(id) PROVE i \in settle'
    <3>1. Fail(keyOf[id], id)
      BY <1>0, <2>1 DEF Settle, Unsettled
    <3>2. id # i
      BY <1>5, <3>1 DEF Ending, Fail
    <3> QED
      BY <1>5, <2>1, <3>2 DEF Settle
  <2>2. (\E id \in TaskIds : ThreadStep(id)) \/ (\E c \in Callers : EnqueueSubmit(c))
          \/ (\E l \in Lanes : DrainStep(l)) => settle' = settle
    BY ThreadMoves, SubmitMoves, DrainMoves
  <2>3. (\E c : EnqueueMark(c) \/ EnqueueFull(c) \/ EnqueueAborted(c)) \/ (\E id : Report(id))
          \/ (\E pol : Configure(pol)) \/ (\E x : CancelWrite(x)) \/ StoreOnly
          \/ (\E c, lp, j, u : EnqueueReserve(c, lp, j, u)) \/ (\E x, j : CancelRequest(x, j))
          => settle' = settle
    BY DEF EnqueueMark, EnqueueFull, EnqueueAborted, Report, Configure, CancelWrite, StoreOnly,
           EnqueueReserve, CancelRequest, backendVars
  <2>4. (\E id : DoneCallback(id)) => settle \subseteq settle'
    BY DEF DoneCallback
  <2>5. i \in settle'
    BY <1>5, <2>1, <2>2, <2>3, <2>4, JobCases DEF SilentStep
  <2> QED
    BY <2>5 DEF Owned
<1>6. CASE \E x \in Cancellers : cxl[x].pc = "flagged" /\ cxl[x].id = i
  <2>1. PICK x \in Cancellers : cxl[x].pc = "flagged" /\ cxl[x].id = i
    BY <1>6
  <2>2. ASSUME NEW y \in Cancellers, CancelWrite(y) PROVE cxl'[x] = cxl[x]
    <3>1. Cancel(keyOf[cxl[y].id], cxl[y].id) /\ cxl' = [cxl EXCEPT ![y].pc = "acked"]
      BY <1>0, <2>2 DEF CancelWrite, Unsettled
    <3>2. x # y
      BY <2>1, <3>1 DEF Ending, Cancel
    <3> QED
      BY <3>1, <3>2 DEF Wiring
  <2>3. ASSUME NEW y \in Cancellers, NEW j \in Keys, CancelRequest(y, j) PROVE cxl'[x] = cxl[x]
    BY <2>1, <2>3 DEF CancelRequest, Wiring
  <2>4. (\E c, lp, j, u : EnqueueReserve(c, lp, j, u)) \/ (\E c : EnqueueStep(c))
          \/ (\E id : WorkerStep(id) \/ Report(id)) \/ (\E l : DrainStep(l))
          \/ (\E pol : Configure(pol)) \/ StoreOnly => cxl' = cxl
    BY DEF EnqueueReserve, EnqueueStep, EnqueueMark, EnqueueSubmit, EnqueueFull, EnqueueAborted,
           WorkerStep, FirstStep, CheckCancel, Begin, EndRun, EndWorkflow, CloseLoop, Finish,
           DoneCallback, Settle, Report, DrainStep, Configure, StoreOnly, backendVars
  <2>5. cxl'[x] = cxl[x]
    BY <2>2, <2>3, <2>4 DEF BackendNext
  <2> QED
    BY <2>1, <2>5 DEF Owned
<1> QED
  BY <1>2, <1>3, <1>4, <1>5, <1>6 DEF Owned

(* Every active row of this process keeps an owner.                        *)
LEMMA OrphansStep ==
  ASSUME IInv, IInv', Wiring, JobTypes, CallsAreFresh, OutcomesKept, QueuesMatchJobs,
         ThreadsWrapped, RowsUnderTheirKeys, ReturnedEnded, NoOrphan, BackendNext
  PROVE  NoOrphan'
<1> SUFFICES ASSUME Settled', NEW k \in Keys, IsActive(k)', rows'[k].boot = boot'
             PROVE  \A i : i = rows'[k].id => Owned(i)'
  BY DEF NoOrphan, Settled, Unsettled
<1> SUFFICES ASSUME NEW i, i = rows'[k].id PROVE Owned(i)'
  OBVIOUS
<1>0. /\ rows \in [Keys -> Row \cup {NoRow}] /\ boot \in 1..MaxBoots
      /\ \A j \in Keys : rows[j].boot <= boot
  BY DEF IInv, TypeOK, BootsArePast
<1>1. ~BackendRestart
  <2> SUFFICES ASSUME BackendRestart PROVE FALSE
    OBVIOUS
  <2>1. boot' = boot + 1 /\ rows' = rows
    BY DEF BackendRestart, Restart
  <2>2. rows[k].boot = boot + 1 /\ rows[k].boot <= boot
    BY <1>0, <2>1
  <2> QED
    BY <1>0, <2>2
<1>2. boot' = boot /\ Settled /\ \A j \in TaskIds : wrap[j] # "lost"
  BY <1>1, BootKept, SettledBefore
<1>3. CASE rows'[k] = rows[k] /\ \A j \in TaskIds : Ending(j) => rows[k].id # j
  <2>1. rows[k].id = i /\ IsActive(k) /\ rows[k].boot = boot
    BY <1>2, <1>3 DEF IsActive
  <2>2. i \in TaskIds
    BY <1>0, <2>1 DEF IsActive, NoRow, Row, ActiveStatuses
  <2>3. Owned(i)
    BY <1>2, <2>1 DEF NoOrphan, Settled
  <2> QED
    BY <1>1, <1>3, <2>1, <2>2, <2>3, OwnersStay
<1>4. ASSUME NEW c \in Callers, NEW lp \in {Main} \cup TaskIds, NEW u \in Users,
             EnqueueReserve(c, lp, k, u)
      PROVE  Owned(i)'
  <2>1. rows'[k].id = nextId
        /\ call' = [call EXCEPT ![c] = [pc |-> "reserved", loop |-> lp, id |-> nextId]]
    BY <1>0, <1>4 DEF EnqueueReserve, Reserve
  <2>2. call'[c].pc # "idle" /\ call'[c].id = i
    BY <2>1 DEF Wiring
  <2> QED
    BY <2>2 DEF Owned
<1>5. CASE Progressing(rows[k].id) /\ rows[k].id \in TaskIds /\ rows'[k].id = rows[k].id
  <2>1. i \in TaskIds /\ Progressing(i)
    BY <1>5
  <2>2. CASE \E c \in Callers : call'[c].id = i /\ call'[c].pc = "marked"
    BY <2>2 DEF Owned
  <2>3. CASE job[i] \in {"begin", "run"} /\ wrap' = wrap
    <3>1. wrap'[i] \in {"waiting", "cancelled"}
      BY <1>2, <2>1, <2>3 DEF ThreadsWrapped, JobTypes, ThreadOver
    <3> QED
      BY <3>1 DEF Owned
  <2> QED
    BY <2>1, <2>2, <2>3 DEF Progressing
<1> QED
  BY <1>3, <1>4, <1>5, ActiveRows

(* No runner reports its delivery ("100%, done") before it has returned.   *)
DeliveredAtTheEnd == \A k \in Keys : IsActive(k) => ~rows[k].done

(* A live run's row is written by the run itself, or ended by it.          *)
LEMMA LiveStays ==
  ASSUME IInv, Wiring, JobTypes, RowsUnderTheirKeys, DeliveredAtTheEnd, BackendNext, ~BackendRestart,
         NEW i \in TaskIds, Live(i), ~Ending(i)
  PROVE  Live(i)'
<1> PICK k \in Keys : k = keyOf[i]
  BY DEF Wiring
<1>0. /\ rows \in [Keys -> Row \cup {NoRow}] /\ boot \in Nat /\ nextId \in Nat
      /\ k = keyOf[i] /\ rows[k].id = i /\ IsActive(k) /\ rows[k].boot = boot
      /\ \A j \in Keys : rows[j].id < nextId
  BY StoreAssumption DEF IInv, TypeOK, IdsAreOwn, Live, Wiring, TaskIds
<1>1. boot' = boot
  BY BootKept
<1>2. keyOf'[i] = k
  <2>1. CASE keyOf' = keyOf
    BY <1>0, <2>1
  <2>2. ASSUME NEW c, NEW lp, NEW j \in Keys, NEW u, EnqueueReserve(c, lp, j, u) PROVE keyOf'[i] = k
    <3>1. keyOf' = [keyOf EXCEPT ![nextId] = j] /\ i # nextId
      BY <1>0, <2>2 DEF EnqueueReserve, TaskIds
    <3> QED
      BY <1>0, <3>1 DEF Wiring
  <2> QED
    BY <2>1, <2>2, IssueCases
<1>3. rows'[k].id = i /\ IsActive(k)' /\ rows'[k].boot = boot
  <2>1. ASSUME rows'[k] = rows[k] PROVE rows'[k].id = i /\ IsActive(k)' /\ rows'[k].boot = boot
    BY <1>0, <2>1 DEF IsActive
  <2>2. ASSUME NEW c, NEW lp, NEW j \in Keys, NEW u, EnqueueReserve(c, lp, j, u)
        PROVE  rows'[k] = rows[k]
    <3>1. j # k
      BY <1>0, <2>2 DEF EnqueueReserve, Reserve, KeyFree
    <3> QED
      BY <1>0, <2>2, <3>1 DEF EnqueueReserve, Reserve
  <2>3. ASSUME NEW j \in TaskIds, Ending(j) PROVE rows'[k] = rows[k]
    <3>1. j # i
      BY <2>3
    <3> QED
      BY <1>0, <2>3, <3>1, EndingWrite DEF Ending
  <2>4. ASSUME NEW j \in TaskIds, Progressing(j)
        PROVE  rows'[k].id = i /\ IsActive(k)' /\ rows'[k].boot = boot
    <3>1. PICK st \in {"queued", "running"}, d \in BOOLEAN : Write(keyOf[j], j, st, d)
      BY <2>4 DEF Progressing
    <3>2. CASE j = i
      BY <1>0, <3>1, <3>2, ProgressWrite
    <3>3. CASE j # i
      BY <1>0, <2>1, <3>1, <3>3, ProgressWrite
    <3> QED
      BY <3>2, <3>3
  <2>5. CASE StoreOnly
    <3>1. ASSUME NEW p, Sweep(p) \/ SweepFails(p) PROVE rows'[k] = rows[k]
      <4>1. SweptRow(rows[k]) = rows[k]
        BY <1>0 DEF SweptRow
      <4> QED
        BY <3>1, <4>1 DEF Sweep, SweepFails
    <3>2. ASSUME NEW j \in Keys, Expire(j) PROVE rows'[k] = rows[k]
      <4>1. j # k
        BY <1>0, <3>2 DEF Expire, IsActive, ActiveStatuses, TerminalStatuses
      <4> QED
        BY <1>0, <3>2, <4>1 DEF Expire
    <3>3. ASSUME NEW r \in Readers, DeleteSeen(r) PROVE rows'[k] = rows[k]
      <4>1. snap[r] \in [op : {"purge", "clear"}, key : Keys, row : Row]
        BY <3>3 DEF DeleteSeen, IInv, TypeOK
      <4>2. CASE StillAsSeen(snap[r])
        <5>1. ASSUME snap[r].op = "purge" PROVE snap[r].key # k
          <6>1. rows[snap[r].key].expired
            BY <4>2, <5>1 DEF StillAsSeen
          <6> QED
            BY <1>0, <6>1 DEF IInv, OnlyFinishedExpire, IsActive, ActiveStatuses, TerminalStatuses
        <5>2. ASSUME snap[r].op = "clear" PROVE snap[r].key # k
          <6>1. /\ rows[snap[r].key].status = snap[r].row.status
                /\ rows[snap[r].key].done = snap[r].row.done
            BY <4>2, <5>2 DEF StillAsSeen
          <6>2. ReadsCompleted(rows[snap[r].key])
            BY <5>2, <6>1 DEF IInv, ClearsSawCompleted, ReadsCompleted
          <6>3. ~ReadsCompleted(rows[k])
            BY <1>0 DEF ReadsCompleted, DeliveredAtTheEnd, IsActive, ActiveStatuses
          <6> QED
            BY <6>2, <6>3
        <5>3. snap[r].key # k
          BY <4>1, <5>1, <5>2
        <5> QED
          BY <1>0, <3>3, <5>3 DEF DeleteSeen
      <4>3. CASE ~StillAsSeen(snap[r])
        BY <3>3, <4>3 DEF DeleteSeen
      <4> QED
        BY <4>2, <4>3
    <3>4. ASSUME NEW r, NEW j, SeeExpired(r, j) \/ SeeCompleted(r, j) PROVE rows'[k] = rows[k]
      BY <3>4 DEF SeeExpired, SeeCompleted
    <3> QED
      BY <2>1, <2>5, <3>1, <3>2, <3>3, <3>4 DEF StoreOnly
  <2> QED
    BY <2>1, <2>2, <2>3, <2>4, <2>5, WriteCases
<1> QED
  BY <1>1, <1>2, <1>3 DEF Live, IsActive

(* A job becomes busy by being submitted.                                  *)
LEMMA BusyFrom ==
  ASSUME IInv, Wiring, JobTypes, CallsAreFresh, OutcomesKept, QueuesMatchJobs, BackendNext,
         NEW i \in TaskIds, Busy(i)'
  PROVE  /\ ~BackendRestart
         /\ ~Finish(i)
         /\ \/ Busy(i)
            \/ \E c \in Callers : /\ EnqueueSubmit(c) /\ call[c].id = i /\ call[c].pc = "marked"
<1>1. ~BackendRestart
  BY DEF BackendRestart, Busy
<1>2. ~Finish(i)
  BY DEF Finish, Busy, JobTypes
<1>3. CASE job' = job
  BY <1>1, <1>2, <1>3 DEF Busy
<1>4. SilentStep \/ (\E c, lp, j, u : EnqueueReserve(c, lp, j, u))
        \/ (\E id \in TaskIds : DoneCallback(id)) => job' = job
  BY Silent DEF EnqueueReserve, DoneCallback
<1>5. ASSUME NEW c \in Callers, EnqueueSubmit(c)
      PROVE  Busy(i) \/ (call[c].id = i /\ call[c].pc = "marked")
  <2>1. call[c].id # i => job'[i] = job[i]
    BY <1>5, SubmitMoves DEF Start, JobTypes
  <2> QED
    BY <1>5, <2>1, SubmitMoves DEF Busy
<1>6. ASSUME NEW id \in TaskIds, ThreadStep(id) PROVE Busy(i)
  <2>1. job' = [job EXCEPT ![id] = job'[id]]
    BY <1>6, ThreadMoves
  <2>2. CASE id # i
    BY <2>1, <2>2 DEF Busy, JobTypes
  <2>3. CASE id = i
    BY <1>2, <1>6, <2>3 DEF ThreadStep, FirstStep, CheckCancel, Begin, EndRun, EndWorkflow, Busy,
                            CloseLoop
  <2> QED
    BY <2>2, <2>3
<1>7. ASSUME NEW l \in Lanes, DrainStep(l) PROVE Busy(i)
  <2>1. ASSUME NEW j \in TaskIds, job[j] = "queued", Start(j, drain.loop) PROVE Busy(i)
    <3>1. j # i => job'[i] = job[i]
      BY <2>1 DEF Start, JobTypes
    <3> QED
      BY <2>1, <3>1 DEF Busy
  <2> QED
    BY <1>7, <2>1, DrainMoves DEF Busy
<1>8. ASSUME NEW x \in Cancellers, NEW j \in Keys, CancelRequest(x, j) PROVE Busy(i)
  BY <1>8 DEF CancelRequest, Busy, JobTypes
<1> QED
  BY <1>1, <1>2, <1>3, <1>4, <1>5, <1>6, <1>7, <1>8, JobCases

(* A run at work, or about to be submitted, has the row of its key.        *)
LEMMA OwnRowsStep ==
  ASSUME IInv, IInv', Wiring, Wiring', JobTypes, CallsAreFresh, OutcomesKept, QueuesMatchJobs,
         ThreadsWrapped, RowsUnderTheirKeys, FlagsRaised, SettlesAreOver, RunsOwnRows,
         DeliveredAtTheEnd, BackendNext
  PROVE  RunsOwnRows'
<1>0. BackendRestart \/ flags \subseteq flags'
  BY FlagsOnlyRise
<1>1. ASSUME NEW i \in TaskIds, i \notin flags, Busy(i), Busy(i)', ~BackendRestart PROVE ~Ending(i)
  <2>1. ~Finish(i)
    BY <1>1, BusyFrom
  <2>2. ~\E c \in Callers : EnqueueFull(c) /\ call[c].id = i
    BY <1>1 DEF EnqueueFull, CallsAreFresh, NotStarted, Busy
  <2>3. i \notin settle
    BY <1>1 DEF SettlesAreOver, ThreadsWrapped, ThreadOver, Busy
  <2>4. ~\E x \in Cancellers : cxl[x].pc = "flagged" /\ cxl[x].id = i
    BY <1>1 DEF FlagsRaised
  <2> QED
    BY <2>1, <2>2, <2>3, <2>4 DEF Ending
<1>2. ASSUME NEW c \in Callers, call[c].pc \in {"reserved", "marked"}, call[c].id \notin flags
      PROVE  ~Ending(call[c].id)
  <2> DEFINE i == call[c].id
  <2>1. NotStarted(i) /\ i \in TaskIds
    BY <1>2 DEF CallsAreFresh, Wiring, Calls, Idle
  <2>2. ~Finish(i)
    BY <2>1 DEF Finish, NotStarted
  <2>3. ~\E b \in Callers : EnqueueFull(b) /\ call[b].id = i
    BY <1>2 DEF EnqueueFull, CallsAreFresh
  <2>4. i \notin settle
    BY <2>1 DEF SettlesAreOver, NotStarted
  <2>5. ~\E x \in Cancellers : cxl[x].pc = "flagged" /\ cxl[x].id = i
    BY <1>2 DEF FlagsRaised
  <2> QED
    BY <2>2, <2>3, <2>4, <2>5 DEF Ending
<1>3. ASSUME NEW i \in TaskIds, Busy(i)', i \notin flags' PROVE Live(i)'
  <2>1. ~BackendRestart /\ i \notin flags
    BY <1>0, <1>3, BusyFrom
  <2>2. CASE Busy(i)
    <3>1. Live(i) /\ ~Ending(i)
      BY <1>1, <1>3, <2>1, <2>2 DEF RunsOwnRows
    <3> QED
      BY <2>1, <3>1, LiveStays
  <2>3. ASSUME NEW c \in Callers, call[c].id = i, call[c].pc = "marked" PROVE Live(i)'
    <3>1. Live(i) /\ ~Ending(i)
      BY <1>2, <2>1, <2>3 DEF RunsOwnRows
    <3> QED
      BY <2>1, <3>1, LiveStays
  <2> QED
    BY <1>3, <2>2, <2>3, BusyFrom
<1>4. ASSUME NEW c \in Callers, call'[c].pc \in {"reserved", "marked"}, NEW i, i = call'[c].id,
             i \notin flags'
      PROVE  Live(i)'
  <2>0. ~BackendRestart /\ i \notin flags
    BY <1>0, <1>4 DEF BackendRestart, Idle
  <2>1. ASSUME call[c].pc \in {"reserved", "marked"}, call[c].id = i PROVE Live(i)'
    <3>1. i \in TaskIds /\ Live(i) /\ ~Ending(i)
      BY <1>2, <2>0, <2>1 DEF RunsOwnRows, Wiring, Calls, Idle
    <3> QED
      BY <2>0, <3>1, LiveStays
  <2>2. ASSUME NEW b \in Callers, NEW lp, NEW k \in Keys, NEW u, EnqueueReserve(b, lp, k, u)
        PROVE  Live(i)'
    <3>1. /\ nextId \in TaskIds
          /\ call' = [call EXCEPT ![b] = [pc |-> "reserved", loop |-> lp, id |-> nextId]]
          /\ keyOf' = [keyOf EXCEPT ![nextId] = k]
          /\ rows' = [rows EXCEPT ![k] =
                       [id |-> nextId, status |-> "submitting", user |-> u,
                        done |-> FALSE, expired |-> FALSE, boot |-> boot]]
          /\ boot' = boot
      BY <2>2 DEF EnqueueReserve, Reserve
    <3>2. CASE b = c
      <4>1. i = nextId
        BY <1>4, <3>1, <3>2 DEF Wiring
      <4>2. keyOf'[i] = k /\ rows'[k].id = i /\ rows'[k].status = "submitting" /\ rows'[k].boot = boot
        BY <3>1, <4>1 DEF Wiring, IInv, TypeOK
      <4> QED
        BY <3>1, <4>2 DEF Live, IsActive, ActiveStatuses
    <3>3. CASE b # c
      <4>1. call'[c] = call[c]
        BY <3>1, <3>3 DEF Wiring
      <4> QED
        BY <1>4, <2>1, <4>1
    <3> QED
      BY <3>2, <3>3
  <2>3. CASE SilentStep
    <3>1. \/ call'[c] = call[c]
          \/ call'[c] = Idle
          \/ call'[c].id = call[c].id /\ call[c].pc = "reserved"
      BY <2>3, Silent
    <3> QED
      BY <1>4, <2>1, <3>1 DEF Idle
  <2>4. ASSUME NEW b \in Callers, EnqueueSubmit(b) PROVE call'[c] = call[c]
    <3>1. call[b] \in Calls
      BY <2>4 DEF EnqueueSubmit, Wiring, Idle
    <3>2. call' = [call EXCEPT ![b] = Idle] \/ call' = [call EXCEPT ![b].pc = "full"]
      BY <2>4, SubmitMoves
    <3>3. call'[b].pc \in {"idle", "full"}
      BY <3>1, <3>2 DEF Wiring, Calls, Idle
    <3> QED
      BY <1>4, <3>2, <3>3 DEF Wiring
  <2>5. (\E id \in TaskIds : ThreadStep(id) \/ DoneCallback(id)) \/ (\E l \in Lanes : DrainStep(l))
          \/ (\E x \in Cancellers, j \in Keys : CancelRequest(x, j)) => call' = call
    BY ThreadMoves, DrainMoves DEF DoneCallback, CancelRequest
  <2> QED
    BY <1>4, <2>0, <2>1, <2>2, <2>3, <2>4, <2>5, JobCases
<1>5. \A c \in Callers : call'[c].pc \in {"reserved", "marked"} =>
        \A i : i = call'[c].id /\ i \notin flags' => Live(i)'
  BY <1>4
<1>6. \A c \in Callers : \A i : i = call'[c].id => (Live(call[c].id)' <=> Live(i)')
  BY DEF Live, IsActive
<1> QED
  BY <1>3, <1>5, <1>6 DEF RunsOwnRows

----------------------------------------------------------------------------
(* The inductive invariant of the jobs, over the one of the backend.       *)
JobInv ==
  /\ BackendInv
  /\ JobTypes
  /\ CallsAreFresh
  /\ ThreadsWrapped
  /\ OutcomesKept
  /\ QueuesMatchJobs
  /\ SlotsCounted
  /\ ReturnedEnded
  /\ SettlesAreOver
  /\ FlagsRaised
  /\ NoOrphan

(* Initially there are no jobs.                                            *)
LEMMA JobInitEstablishes == BackendInit => JobInv /\ RunsOwnRows
<1> SUFFICES ASSUME BackendInit PROVE JobInv /\ RunsOwnRows
  OBVIOUS
<1> USE StoreAssumption, BackendAssumption DEF BackendInit
<1>1. BackendInv
  BY BackendInitEstablishes
<1>2. JobTypes
  <2>1. <<>> \in Seq(TaskIds)
    BY EmptySeq
  <2> QED
    BY <2>1 DEF JobTypes, NoDrain, Steps
<1>3. CallsAreFresh /\ ThreadsWrapped /\ OutcomesKept /\ SettlesAreOver /\ FlagsRaised
  BY DEF CallsAreFresh, NotStarted, ThreadsWrapped, ThreadOver, OutcomesKept, SettlesAreOver,
         FlagsRaised, Idle
<1>4. QueuesMatchJobs
  BY DEF QueuesMatchJobs
<1>5. SlotsCounted
  <2>1. \A l \in Lanes : Holding(l) = {}
    BY DEF Holding, Slotted
  <2> QED
    BY <2>1, FS_EmptySet DEF SlotsCounted
<1>6. ReturnedEnded /\ RunsOwnRows
  BY DEF ReturnedEnded, RunsOwnRows, Busy, Idle
<1>7. NoOrphan
  BY DEF NoOrphan, Init, IsActive, NoRow, ActiveStatuses
<1> QED
  BY <1>1, <1>2, <1>3, <1>4, <1>5, <1>6, <1>7 DEF JobInv

(* Every step of the backend keeps the invariant, and keeps the rows of    *)
(* the runs at work where deliveries are reported at the end.              *)
LEMMA JobStepPreserves ==
  JobInv /\ [BackendNext]_vars => JobInv' /\ (RunsOwnRows /\ DeliveredAtTheEnd => RunsOwnRows')
<1> SUFFICES ASSUME JobInv, [BackendNext]_vars
             PROVE  JobInv' /\ (RunsOwnRows /\ DeliveredAtTheEnd => RunsOwnRows')
  OBVIOUS
<1> USE DEF JobInv
<1>0. BackendInv' /\ IInv /\ IInv' /\ Wiring /\ Wiring' /\ RowsUnderTheirKeys
  BY BackendStepPreserves DEF BackendInv
<1>1. CASE UNCHANGED vars
  <2> USE <1>1 DEF vars, storeVars, backendVars, laneVars
  <2>1. JobTypes' /\ CallsAreFresh' /\ ThreadsWrapped' /\ OutcomesKept'
    BY DEF JobTypes, CallsAreFresh, NotStarted, ThreadsWrapped, ThreadOver, OutcomesKept
  <2>2. QueuesMatchJobs' /\ SlotsCounted'
    BY DEF QueuesMatchJobs, Lane, SlotsCounted, Holding, Slotted
  <2>3. ReturnedEnded' /\ SettlesAreOver' /\ FlagsRaised'
    BY DEF ReturnedEnded, SettlesAreOver, FlagsRaised, IsActive
  <2>4. NoOrphan'
    BY DEF NoOrphan, IsActive, Owned
  <2>5. RunsOwnRows => RunsOwnRows'
    BY DEF RunsOwnRows, Busy, Live, IsActive
  <2> QED
    BY <1>0, <2>1, <2>2, <2>3, <2>4, <2>5
<1>2. CASE BackendNext
  <2>1. JobTypes' /\ CallsAreFresh' /\ ThreadsWrapped' /\ OutcomesKept'
    BY <1>0, <1>2, TypesStep, FreshStep, WrappedStep, OutcomesStep
  <2>2. QueuesMatchJobs' /\ SlotsCounted'
    BY <1>0, <1>2, QueuesStep, CountStep
  <2>3. ReturnedEnded' /\ SettlesAreOver' /\ FlagsRaised'
    BY <1>0, <1>2, ReturnedStep, SettlesStep, FlagsStep
  <2>4. NoOrphan'
    BY <1>0, <1>2, OrphansStep
  <2>5. RunsOwnRows /\ DeliveredAtTheEnd => RunsOwnRows'
    BY <1>0, <1>2, OwnRowsStep
  <2> QED
    BY <1>0, <2>1, <2>2, <2>3, <2>4, <2>5
<1> QED
  BY <1>1, <1>2

(* The invariant of the jobs.                                              *)
THEOREM JobInvariant == BackendSpec => []JobInv
<1>1. BackendInit => JobInv
  BY JobInitEstablishes
<1>2. JobInv /\ [BackendNext]_vars => JobInv'
  BY JobStepPreserves
<1> QED
  BY <1>1, <1>2, PTL DEF BackendSpec

(* Type correctness of the backend (InlineTaskBackend and what runs on it).*)
THEOREM BackendTypes == BackendSpec => []BackendTypeOK
<1>1. JobInv => BackendTypeOK
  <2> SUFFICES ASSUME JobInv PROVE BackendTypeOK
    OBVIOUS
  <2>1. TypeOK /\ Wiring /\ LaneWiring /\ JobTypes
    BY DEF JobInv, BackendInv, IInv, Wiring
  <2>2. /\ call \in [Callers -> [pc : {"idle", "reserved", "marked", "full"},
                                loop : {Main} \cup TaskIds, id : {0} \cup TaskIds]]
        /\ cxl \in [Cancellers -> [pc : {"idle", "flagged", "acked"},
                                   loop : {Main}, id : {0} \cup TaskIds]]
    BY <2>1 DEF Wiring, Calls, Cancels, Idle
  <2> QED
    BY <2>1, <2>2 DEF BackendTypeOK, Wiring, LaneWiring, JobTypes
<1> QED
  BY <1>1, JobInvariant, PTL

(* The queues of the lanes hold exactly the queued jobs, each once.        *)
THEOREM QueuesHoldQueuedJobs == BackendSpec => []QueuesMatchJobs
<1>1. JobInv => QueuesMatchJobs
  BY DEF JobInv
<1> QED
  BY <1>1, JobInvariant, PTL

(* A lane's counter is the number of slots held, and every thread at work  *)
(* holds one.                                                              *)
THEOREM SlotsHeldByThreads == BackendSpec => []SlotsMatchThreads
<1>1. JobInv => SlotsMatchThreads
  <2> SUFFICES ASSUME JobInv, NEW l \in Lanes
               PROVE  active[l] = Cardinality(Holding(l)) /\ Working(l) \subseteq Holding(l)
    BY DEF SlotsMatchThreads
  <2>1. active[l] = Cardinality(Holding(l))
    BY DEF JobInv, SlotsCounted
  <2>2. ASSUME NEW i \in Working(l) PROVE i \in Holding(l)
    BY DEF JobInv, Working, Holding, ThreadsWrapped, ThreadOver, JobTypes, AtWork, Slotted
  <2> QED
    BY <2>1, <2>2
<1> QED
  BY <1>1, JobInvariant, PTL

(* No row of this process is left active without an owner.                 *)
THEOREM RowsHaveOwners == BackendSpec => []NoOrphan
<1>1. JobInv => NoOrphan
  BY DEF JobInv
<1> QED
  BY <1>1, JobInvariant, PTL

(* Where runners report their delivery no earlier than they return, a run  *)
(* at work that nobody asked to cancel has the row of its key, whatever is *)
(* cleared, swept, purged or restarted beside it.                          *)
THEOREM RunnersOwnTheirRows == BackendSpec /\ []DeliveredAtTheEnd => []RunnerOwnsRow
<1>1. BackendInit => RunsOwnRows
  BY JobInitEstablishes
<1>2. JobInv /\ DeliveredAtTheEnd /\ RunsOwnRows /\ [BackendNext]_vars => RunsOwnRows'
  BY JobStepPreserves
<1>3. RunsOwnRows => RunnerOwnsRow
  BY DEF RunsOwnRows, RunnerOwnsRow, Busy, Live
<1> QED
  BY <1>1, <1>2, <1>3, JobInvariant, PTL DEF BackendSpec

----------------------------------------------------------------------------
(* What the lanes promise.                                                 *)

(* Run i is being submitted.                                               *)
InCall(i) == \E c \in Callers : call[c].pc # "idle" /\ call[c].id = i

(* How far a run is: in the invariant, a thread at work holds a slot.      *)
Stage(i) ==
  IF wrap[i] \in Slotted THEN "running"
  ELSE IF job[i] = "queued" THEN "waiting"
  ELSE IF i >= nextId \/ InCall(i) THEN "new"
  ELSE "over"

LEMMA StageIsState ==
  ASSUME ThreadsWrapped, JobTypes
  PROVE  \A i \in TaskIds : StateOf(i) = Stage(i)
<1>1. \A i \in TaskIds : job[i] \in AtWork => wrap[i] \in Slotted
  BY DEF AtWork, ThreadsWrapped, ThreadOver, JobTypes, Slotted
<1> QED
  BY <1>1 DEF StateOf, Stage, InCall

LEMMA NextStageIsState ==
  ASSUME ThreadsWrapped', JobTypes'
  PROVE  \A i \in TaskIds : StateOf(i)' = Stage(i)'
<1>1. \A i \in TaskIds : job'[i] \in AtWork => wrap'[i] \in Slotted
  BY DEF AtWork, ThreadsWrapped, ThreadOver, JobTypes, Slotted
<1> QED
  BY <1>1 DEF StateOf, Stage, InCall

(* A run nothing happens to stays how far it is.                           *)
LEMMA StageStays ==
  ASSUME NEW i, nextId' = nextId, wrap'[i] \in Slotted <=> wrap[i] \in Slotted,
         job'[i] = "queued" <=> job[i] = "queued", InCall(i)' <=> InCall(i)
  PROVE  Stage(i)' = Stage(i)
BY DEF Stage, InCall, Slotted

(* No run moves, or one does.                                              *)
LEMMA NoRunMoves ==
  ASSUME JobInv, JobInv', keyOf' = keyOf, policy' = policy,
         \A i \in TaskIds : Stage(i)' = Stage(i)
  PROVE  UNCHANGED Promise!vars
<1>1. \A i \in TaskIds : StateOf(i)' = StateOf(i)
  BY StageIsState, NextStageIsState DEF JobInv
<1> QED
  BY <1>1 DEF Promise!vars, Lane

LEMMA OneRunMoves ==
  ASSUME JobInv, JobInv', keyOf' = keyOf, policy' = policy, NEW id \in TaskIds, NEW s,
         Stage(id)' = s, \A i \in TaskIds \ {id} : Stage(i)' = Stage(i)
  PROVE  Promise!Becomes(id, s)
<1>1. StateOf(id)' = s /\ \A i \in TaskIds \ {id} : StateOf(i)' = StateOf(i)
  BY StageIsState, NextStageIsState DEF JobInv
<1>2. [i \in TaskIds |-> StateOf(i)]' = [[i \in TaskIds |-> StateOf(i)] EXCEPT ![id] = s]
  <2> HIDE DEF StateOf
  <2> QED
    BY <1>1
<1>3. [i \in TaskIds |-> Lane(i)]' = [i \in TaskIds |-> Lane(i)]
  BY DEF Lane
<1> QED
  BY <1>2, <1>3 DEF Promise!Becomes

(* A run that is being submitted, or was never issued, is new.             *)
LEMMA CalledIsNew ==
  ASSUME JobInv, NEW c \in Callers, call[c].pc # "idle"
  PROVE  /\ call[c].id \in TaskIds /\ Stage(call[c].id) = "new" /\ NotStarted(call[c].id)
         /\ call[c].id < nextId
         /\ \A b \in Callers : b # c => call[b].pc = "idle" \/ call[b].id # call[c].id
<1>1. call[c].id \in TaskIds
  BY DEF JobInv, BackendInv, Wiring, Calls, Idle
<1>2. /\ NotStarted(call[c].id) /\ call[c].id < nextId
      /\ \A b \in Callers : b # c => call[b].pc = "idle" \/ call[b].id # call[c].id
  BY DEF JobInv, CallsAreFresh
<1> QED
  BY <1>1, <1>2 DEF Stage, NotStarted, Slotted, InCall

(* A run that waits or runs was issued, and its submission is over.        *)
LEMMA HandedOver ==
  ASSUME JobInv, NEW i \in TaskIds, ~NotStarted(i)
  PROVE  ~(i >= nextId) /\ ~InCall(i)
BY DEF JobInv, CallsAreFresh, InCall

(* The runs of a lane are the holders of its slots.                        *)
LEMMA RunningHold ==
  ASSUME JobInv, NEW l \in Lanes, active[l] < policy[l].conc
  PROVE  Cardinality(Promise!Running(l)) < policy[l].conc
<1>1. Promise!Running(l) = Holding(l)
  BY StageIsState DEF Promise!Running, Holding, Stage, Slotted, JobInv
<1> QED
  BY <1>1 DEF JobInv, SlotsCounted

(* A submission that fails is a refusal.                                   *)
LEMMA DroppedIsRefused ==
  ASSUME JobInv, JobInv', NEW c \in Callers, call[c].pc # "idle", call' = [call EXCEPT ![c] = Idle],
         UNCHANGED <<nextId, keyOf, policy, job, wrap>>
  PROVE  \E i \in TaskIds : Promise!Refuse(i)
<1> DEFINE id == call[c].id
<1>1. /\ id \in TaskIds /\ Stage(id) = "new" /\ NotStarted(id) /\ id < nextId
      /\ \A b \in Callers : b # c => call[b].pc = "idle" \/ call[b].id # id
  BY CalledIsNew
<1>2. call'[c] = Idle /\ \A b \in Callers \ {c} : call'[b] = call[b]
  BY DEF JobInv, BackendInv, Wiring
<1> HIDE DEF id
<1>3. id \in Nat /\ nextId \in Nat
  BY <1>1, StoreAssumption DEF TaskIds, JobInv, BackendInv, IInv, TypeOK
<1>4. \A i : InCall(i)' <=> InCall(i) /\ i # id
  BY <1>1, <1>2 DEF InCall, Idle, id
<1>5. \A i \in TaskIds \ {id} : Stage(i)' = Stage(i)
  BY <1>4, StageStays
<1>6. PICK j \in TaskIds : j = id
  BY <1>1
<1>7. Stage(j)' = "over"
  BY <1>1, <1>3, <1>4, <1>6 DEF Stage, InCall, NotStarted, Slotted
<1>8. Promise!Becomes(j, "over")
  BY <1>5, <1>6, <1>7, OneRunMoves
<1> QED
  BY <1>1, <1>6, <1>8, StageIsState DEF Promise!Refuse, JobInv

(* A reservation names the lane of a new run.                              *)
LEMMA ReserveNames ==
  ASSUME JobInv, JobInv', NEW c \in Callers, NEW lp, NEW k \in Keys, NEW u, EnqueueReserve(c, lp, k, u)
  PROVE  \E i \in TaskIds : Promise!Name(i)
<1>1. /\ nextId \in TaskIds /\ nextId' = nextId + 1 /\ call[c].pc = "idle"
      /\ keyOf' = [keyOf EXCEPT ![nextId] = k]
      /\ call' = [call EXCEPT ![c] = [pc |-> "reserved", loop |-> lp, id |-> nextId]]
      /\ UNCHANGED <<policy, job, wrap>>
  BY DEF EnqueueReserve, Reserve, laneVars
<1>2. PICK id \in TaskIds : id = nextId
  BY <1>1
<1>3. id \in Nat /\ \A i \in TaskIds : i \in Nat
  BY StoreAssumption DEF TaskIds
<1>4. /\ call'[c].pc = "reserved" /\ call'[c].id = id
      /\ \A b \in Callers \ {c} : call'[b] = call[b]
  BY <1>1, <1>2 DEF JobInv, BackendInv, Wiring
<1>5. NotStarted(id)
  BY <1>2, <1>3 DEF JobInv, CallsAreFresh
<1>6. \A i : InCall(i)' <=> InCall(i) \/ i = id
  BY <1>1, <1>4 DEF InCall
<1>7. Stage(id) = "new" /\ Stage(id)' = "new"
  <2>1. Stage(id) = "new"
    BY <1>2, <1>3, <1>5 DEF Stage, NotStarted, Slotted
  <2>2. InCall(id)'
    BY <1>6
  <2> QED
    BY <1>1, <1>5, <2>1, <2>2 DEF Stage, NotStarted, InCall, Slotted
<1>8. ASSUME NEW i \in TaskIds, i # id PROVE Stage(i)' = Stage(i)
  <2>1. i >= nextId' <=> i >= nextId
    BY <1>1, <1>2, <1>3, <1>8
  <2>2. InCall(i)' <=> InCall(i)
    BY <1>6, <1>8
  <2> QED
    BY <1>1, <2>1, <2>2 DEF Stage, InCall, Slotted
<1>9. [i \in TaskIds |-> StateOf(i)]' = [i \in TaskIds |-> StateOf(i)]
  BY <1>7, <1>8, StageIsState, NextStageIsState DEF JobInv
<1>10. [i \in TaskIds |-> Lane(i)]' = [[i \in TaskIds |-> Lane(i)] EXCEPT ![id] = LaneOf[k]]
  BY <1>1, <1>2 DEF Lane, JobInv, BackendInv, Wiring
<1>11. LaneOf[k] \in Lanes
  BY StoreAssumption
<1> QED
  BY <1>1, <1>7, <1>9, <1>10, <1>11, StageIsState DEF Promise!Name, JobInv

(* A job is started in a free slot of its lane.                            *)
LEMMA StartIsRun ==
  ASSUME JobInv, JobInv', NEW id \in TaskIds, NEW lp \in {Main} \cup TaskIds, Start(id, lp),
         Stage(id) \in {"new", "waiting"}, active[Lane(id)] < policy[Lane(id)].conc,
         UNCHANGED <<nextId, keyOf, policy>>,
         \A i \in TaskIds \ {id} : InCall(i)' <=> InCall(i)
  PROVE  Promise!Run(id)
<1>1. /\ wrap'[id] = "waiting"
      /\ \A i \in TaskIds \ {id} : job'[i] = job[i] /\ wrap'[i] = wrap[i]
  BY StartMoves DEF JobInv, BackendInv
<1>2. Stage(id)' = "running"
  BY <1>1 DEF Stage, Slotted
<1>3. \A i \in TaskIds \ {id} : Stage(i)' = Stage(i)
  BY <1>1, StageStays
<1>4. Promise!Becomes(id, "running")
  BY <1>2, <1>3, OneRunMoves
<1>5. Lane(id) \in Lanes
  BY StoreAssumption DEF Lane, JobInv, BackendInv, Wiring
<1>6. Cardinality(Promise!Running(Lane(id))) < policy[Lane(id)].conc
  BY <1>5, RunningHold
<1> QED
  BY <1>4, <1>5, <1>6, StageIsState DEF Promise!Run, Promise!Cardinality, Cardinality, JobInv

(* A submission starts its job, queues it or finds the lane full.          *)
LEMMA SubmitPromise ==
  ASSUME JobInv, JobInv', NEW c \in Callers, EnqueueSubmit(c)
  PROVE  Promise!Next \/ UNCHANGED Promise!vars
<1>1. PICK id \in TaskIds : id = call[c].id
  BY CalledIsNew DEF EnqueueSubmit
<1>2. /\ Stage(id) = "new" /\ NotStarted(id) /\ id < nextId
      /\ \A b \in Callers : b # c => call[b].pc = "idle" \/ call[b].id # id
      /\ call[c].pc = "marked" /\ call[c].loop \in {Main} \cup TaskIds
      /\ UNCHANGED <<nextId, keyOf>> /\ policy' = policy
  BY <1>1, CalledIsNew, SubmitMoves DEF EnqueueSubmit, JobInv, BackendInv
<1>3. ASSUME call' = [call EXCEPT ![c] = Idle]
      PROVE  \A i : InCall(i)' <=> InCall(i) /\ i # id
  <2>1. call'[c] = Idle /\ \A b \in Callers \ {c} : call'[b] = call[b]
    BY <1>3 DEF JobInv, BackendInv, Wiring
  <2> QED
    BY <1>1, <1>2, <2>1 DEF InCall, Idle
<1>4. CASE /\ active[Lane(id)] < policy[Lane(id)].conc /\ Start(id, call[c].loop)
           /\ call' = [call EXCEPT ![c] = Idle]
  BY <1>2, <1>3, <1>4, StartIsRun DEF Promise!Next
<1>5. CASE /\ job' = [job EXCEPT ![id] = "queued"] /\ wrap' = wrap
           /\ call' = [call EXCEPT ![c] = Idle]
  <2>1. job'[id] = "queued" /\ \A i \in TaskIds \ {id} : job'[i] = job[i]
    BY <1>5 DEF JobInv, JobTypes
  <2>2. Stage(id)' = "waiting"
    BY <1>2, <1>5, <2>1 DEF Stage, NotStarted, Slotted
  <2>3. \A i \in TaskIds \ {id} : Stage(i)' = Stage(i)
    BY <1>2, <1>3, <1>5, <2>1, StageStays
  <2>4. Promise!Becomes(id, "waiting")
    BY <1>2, <2>2, <2>3, OneRunMoves
  <2> QED
    BY <1>2, <2>4, StageIsState DEF Promise!Accept, Promise!Next, JobInv
<1>6. CASE call' = [call EXCEPT ![c].pc = "full"] /\ UNCHANGED <<job, wrap>>
  <2>1. call[c] \in Calls
    BY <1>2 DEF JobInv, BackendInv, Wiring, Idle
  <2>2. /\ call'[c].pc = "full" /\ call'[c].id = id
        /\ \A b \in Callers \ {c} : call'[b] = call[b]
    BY <1>1, <1>6, <2>1 DEF JobInv, BackendInv, Wiring, Calls
  <2>3. \A i : InCall(i)' <=> InCall(i)
    BY <1>1, <1>2, <2>2 DEF InCall
  <2> QED
    BY <1>2, <1>6, <2>3, StageStays, NoRunMoves
<1> QED
  BY <1>1, <1>4, <1>5, <1>6 DEF EnqueueSubmit

(* A drain starts a job that waits, in a free slot.                        *)
LEMMA DrainPromise ==
  ASSUME JobInv, JobInv', NEW l \in Lanes, DrainStep(l)
  PROVE  Promise!Next \/ UNCHANGED Promise!vars
<1>1. UNCHANGED <<nextId, keyOf, call>> /\ policy' = policy
  BY DrainMoves DEF DrainStep, JobInv
<1>2. \A i : InCall(i)' <=> InCall(i)
  BY <1>1 DEF InCall
<1>3. CASE UNCHANGED <<job, wrap>>
  BY <1>1, <1>2, <1>3, StageStays, NoRunMoves
<1>4. ASSUME NEW id \in TaskIds, job[id] = "queued", Lane(id) = l, Start(id, drain.loop),
             active[l] < policy[l].conc
      PROVE  Promise!Run(id)
  <2>1. wrap[id] = "none"
    BY <1>4 DEF JobInv, ThreadsWrapped
  <2>2. Stage(id) = "waiting"
    BY <1>4, <2>1 DEF Stage, Slotted
  <2>3. drain.loop \in {Main} \cup TaskIds
    BY DEF JobInv, JobTypes
  <2> QED
    BY <1>1, <1>2, <1>4, <2>2, <2>3, StartIsRun
<1>5. CASE active[l] < policy[l].conc /\ queue[l] # <<>>
  <2>1. \/ UNCHANGED <<job, wrap>>
        \/ \E id \in TaskIds : job[id] = "queued" /\ Lane(id) = l /\ Start(id, drain.loop)
    BY DrainMoves DEF JobInv
  <2> QED
    BY <1>3, <1>4, <1>5, <2>1 DEF Promise!Next
<1> QED
  BY <1>3, <1>5 DEF DrainStep

(* A thread's steps are the run's own, and its wrapper's end is its end.   *)
LEMMA ThreadSilent ==
  ASSUME JobInv, JobInv', NEW id \in TaskIds, ThreadStep(id)
  PROVE  UNCHANGED Promise!vars
<1>1. /\ UNCHANGED <<nextId, keyOf, policy, call>>
      /\ job[id] # "queued" /\ job'[id] # "queued" /\ job' = [job EXCEPT ![id] = job'[id]]
      /\ \A i \in TaskIds : \/ wrap'[i] = wrap[i]
                            \/ wrap[i] = "waiting" /\ wrap'[i] \in {"cancelled", "lost"}
  BY ThreadMoves DEF JobInv, laneVars, Unstarted
<1>2. \A i \in TaskIds : i # id => job'[i] = job[i]
  BY <1>1 DEF JobInv, JobTypes
<1>3. \A i : InCall(i)' <=> InCall(i)
  BY <1>1 DEF InCall
<1>4. \A i \in TaskIds : wrap'[i] \in Slotted <=> wrap[i] \in Slotted
  BY <1>1 DEF Slotted
<1>5. \A i \in TaskIds : job'[i] = "queued" <=> job[i] = "queued"
  BY <1>1, <1>2
<1> QED
  BY <1>1, <1>3, <1>4, <1>5, StageStays, NoRunMoves

LEMMA DoneIsEnd ==
  ASSUME JobInv, JobInv', NEW id \in TaskIds, DoneCallback(id)
  PROVE  Promise!End(id)
<1>1. /\ wrap[id] \in {"waiting", "cancelled"} /\ ThreadOver(id)
      /\ wrap' = [wrap EXCEPT ![id] = "done"]
      /\ UNCHANGED <<nextId, keyOf, policy, call, job>>
  BY DEF DoneCallback, WrapperEnds, storeVars
<1>2. wrap'[id] = "done" /\ \A i \in TaskIds \ {id} : wrap'[i] = wrap[i]
  BY <1>1 DEF JobInv, JobTypes
<1>3. \A i : InCall(i)' <=> InCall(i)
  BY <1>1 DEF InCall
<1>4. ~(id >= nextId) /\ ~InCall(id)
  BY <1>1, HandedOver DEF NotStarted
<1>5. Stage(id) = "running"
  BY <1>1 DEF Stage, Slotted
<1>6. Stage(id)' = "over"
  <2>1. job'[id] # "queued"
    BY <1>1 DEF ThreadOver
  <2>2. ~InCall(id)'
    BY <1>3, <1>4
  <2> QED
    BY <1>1, <1>2, <1>4, <2>1, <2>2 DEF Stage, InCall, Slotted
<1>7. \A i \in TaskIds \ {id} : Stage(i)' = Stage(i)
  BY <1>1, <1>2, <1>3, StageStays
<1> QED
  BY <1>1, <1>5, <1>6, <1>7, OneRunMoves, StageIsState DEF Promise!End, JobInv

(* A cancel takes back a job that waits.                                   *)
LEMMA CancelTakesBack ==
  ASSUME JobInv, JobInv', NEW x \in Cancellers, NEW k \in Keys, CancelRequest(x, k)
  PROVE  Promise!Next \/ UNCHANGED Promise!vars
<1> DEFINE n == rows[k].id
<1>1. /\ job' = [job EXCEPT ![n] = IF @ = "queued" THEN "removed" ELSE @]
      /\ UNCHANGED <<nextId, keyOf, policy, call, wrap>>
  BY DEF CancelRequest, storeVars
<1> HIDE DEF n
<1>2. \A i : InCall(i)' <=> InCall(i)
  BY <1>1 DEF InCall
<1>3. \A i \in TaskIds : i # n => job'[i] = job[i]
  BY <1>1 DEF JobInv, JobTypes
<1>4. CASE n \in TaskIds /\ job[n] = "queued"
  <2>1. PICK id \in TaskIds : id = n
    BY <1>4
  <2>2. job[id] = "queued" /\ job'[id] = "removed" /\ wrap[id] = "none"
    BY <1>1, <1>4, <2>1 DEF JobInv, JobTypes, ThreadsWrapped
  <2>3. ~(id >= nextId) /\ ~InCall(id)
    BY <2>2, HandedOver DEF NotStarted
  <2>4. Stage(id) = "waiting"
    BY <2>2 DEF Stage, Slotted
  <2>5. Stage(id)' = "over"
    <3>1. ~InCall(id)'
      BY <1>2, <2>3
    <3> QED
      BY <1>1, <2>2, <2>3, <3>1 DEF Stage, InCall, Slotted
  <2>6. \A i \in TaskIds \ {id} : Stage(i)' = Stage(i)
    BY <1>1, <1>2, <1>3, <2>1, StageStays
  <2>7. Promise!Becomes(id, "over")
    BY <1>1, <2>5, <2>6, OneRunMoves
  <2> QED
    BY <2>4, <2>7, StageIsState DEF Promise!TakeBack, Promise!Next, JobInv
<1>5. CASE ~(n \in TaskIds /\ job[n] = "queued")
  <2>1. \A i \in TaskIds : job'[i] = job[i]
    BY <1>1, <1>3, <1>5 DEF JobInv, JobTypes
  <2> QED
    BY <1>1, <1>2, <2>1, StageStays, NoRunMoves
<1> QED
  BY <1>4, <1>5

(* A policy push sets the limits, and a restart ends every run.            *)
LEMMA ConfigureSets ==
  ASSUME JobInv, JobInv', NEW pol \in Policies, Configure(pol)
  PROVE  Promise!SetLimits
<1>1. /\ policy' = [l \in Lanes |-> IF l \in ManagedLanes THEN pol ELSE policy[l]]
      /\ UNCHANGED <<nextId, keyOf, call, job, wrap>>
  BY DEF Configure, storeVars
<1>2. \A l \in Lanes : policy'[l] \in Policies
  BY <1>1 DEF JobInv, BackendInv, Wiring, LaneWiring
<1>3. [l \in Lanes |-> policy[l].conc]' \in [Lanes -> Nat \ {0}]
  BY <1>2, BackendAssumption
<1>4. \A i \in TaskIds : Stage(i)' = Stage(i) /\ Lane(i)' = Lane(i)
  BY <1>1 DEF Stage, Lane, InCall, Slotted
<1>5. \A i \in TaskIds : StateOf(i)' = StateOf(i)
  BY <1>4, StageIsState, NextStageIsState DEF JobInv
<1> QED
  BY <1>3, <1>4, <1>5 DEF Promise!SetLimits

LEMMA RestartKills ==
  ASSUME JobInv, JobInv', BackendRestart
  PROVE  Promise!Die
<1>1. /\ policy' = StartPolicy /\ UNCHANGED <<nextId, keyOf>>
      /\ job' = [i \in TaskIds |-> "none"] /\ wrap' = [i \in TaskIds |-> "none"]
      /\ call' = [c \in Callers |-> Idle]
  BY DEF BackendRestart, Restart
<1>2. \A i : ~InCall(i)'
  BY <1>1 DEF InCall, Idle
<1>3. \A i \in TaskIds : Stage(i)' = IF i >= nextId THEN "new" ELSE "over"
  BY <1>1, <1>2 DEF Stage, InCall, Slotted
<1>4. \A i \in TaskIds : i >= nextId => Stage(i) = "new"
  BY DEF JobInv, CallsAreFresh, NotStarted, Stage, Slotted
<1>5. [l \in Lanes |-> policy[l].conc]' \in [Lanes -> Nat \ {0}]
  BY <1>1, BackendAssumption
<1>6. \A i \in TaskIds : Lane(i)' = Lane(i)
  BY <1>1 DEF Lane
<1> DEFINE s == [i \in TaskIds |-> StateOf(i)]
<1>7. s' \in [TaskIds -> {"new", "over"}] /\ \A i \in TaskIds : s'[i] = "new" => s[i] = "new"
  BY <1>3, <1>4, StageIsState, NextStageIsState DEF JobInv
<1> QED
  BY <1>5, <1>6, <1>7 DEF Promise!Die

(* The promise sees nothing of the writes to the store.                    *)
LEMMA StoreSilent ==
  ASSUME JobInv, JobInv',
         \/ StoreOnly
         \/ \E id \in TaskIds : Settle(id) \/ Report(id)
         \/ \E x \in Cancellers : CancelWrite(x)
  PROVE  UNCHANGED Promise!vars
<1>1. ASSUME NEW k, NEW id, NEW s, NEW d, Write(k, id, s, d) PROVE nextId' = nextId
  BY <1>1 DEF Write
<1>2. ASSUME NEW p, Fault(p) PROVE nextId' = nextId
  BY <1>2 DEF Fault, storeVars
<1>3. CASE StoreOnly
  <2>1. nextId' = nextId
    BY <1>3 DEF StoreOnly, Sweep, SweepFails, Expire, DeleteSeen, SeeExpired, SeeCompleted
  <2> QED
    BY <1>3, <2>1, StageStays, NoRunMoves DEF StoreOnly, backendVars, laneVars, InCall
<1>4. ASSUME NEW id \in TaskIds, Settle(id) \/ Report(id) PROVE UNCHANGED Promise!vars
  <2>1. UNCHANGED <<nextId, keyOf, policy, call, job, wrap>>
    BY <1>1, <1>2, <1>4 DEF Settle, Report, Fail, Progress, backendVars, laneVars
  <2> QED
    BY <2>1, StageStays, NoRunMoves DEF InCall
<1>5. ASSUME NEW x \in Cancellers, CancelWrite(x) PROVE UNCHANGED Promise!vars
  <2>1. UNCHANGED <<nextId, keyOf, policy, call, job, wrap>>
    BY <1>1, <1>2, <1>5 DEF CancelWrite, Cancel, laneVars
  <2> QED
    BY <2>1, StageStays, NoRunMoves DEF InCall
<1> QED
  BY <1>3, <1>4, <1>5

(* A submission is marked, or refused by the store, the lane or the end of *)
(* its workflow.                                                           *)
LEMMA MarkPromise ==
  ASSUME JobInv, JobInv', NEW c \in Callers, EnqueueMark(c) \/ EnqueueFull(c) \/ EnqueueAborted(c)
  PROVE  Promise!Next \/ UNCHANGED Promise!vars
<1>1. ASSUME NEW k, NEW id, NEW s, NEW d, Write(k, id, s, d) PROVE nextId' = nextId
  BY <1>1 DEF Write
<1>2. ASSUME NEW p, Fault(p) PROVE nextId' = nextId
  BY <1>2 DEF Fault, storeVars
<1>3. call[c].pc # "idle" /\ UNCHANGED <<nextId, keyOf, policy, job, wrap>>
  BY <1>1, <1>2 DEF EnqueueMark, EnqueueFull, EnqueueAborted, Fail, Progress, laneVars, storeVars
<1>4. CASE call' = [call EXCEPT ![c] = Idle]
  BY <1>3, <1>4, DroppedIsRefused DEF Promise!Next
<1>5. CASE call' = [call EXCEPT ![c].pc = "marked"]
  <2>1. call[c] \in Calls
    BY <1>3 DEF JobInv, BackendInv, Wiring, Idle
  <2>2. /\ call'[c].pc = "marked" /\ call'[c].id = call[c].id
        /\ \A b \in Callers \ {c} : call'[b] = call[b]
    BY <1>5, <2>1 DEF JobInv, BackendInv, Wiring, Calls
  <2>3. \A i : InCall(i)' <=> InCall(i)
    BY <1>3, <2>2 DEF InCall
  <2> QED
    BY <1>3, <2>3, StageStays, NoRunMoves
<1> QED
  BY <1>4, <1>5 DEF EnqueueMark, EnqueueFull, EnqueueAborted

LEMMA BackendPromiseStep ==
  ASSUME JobInv, JobInv', [BackendNext]_vars
  PROVE  Promise!Next \/ UNCHANGED Promise!vars
<1>1. CASE UNCHANGED vars
  BY <1>1, StageStays, NoRunMoves DEF vars, storeVars, backendVars, laneVars, InCall
<1>2. CASE BackendNext
  <2>1. ASSUME SilentStep PROVE Promise!Next \/ UNCHANGED Promise!vars
    <3>1. ASSUME NEW pol \in Policies, Configure(pol) PROVE Promise!Next
      BY <3>1, ConfigureSets DEF Promise!Next
    <3> QED
      BY <2>1, <3>1, MarkPromise, StoreSilent DEF SilentStep
  <2>2. ASSUME NEW c \in Callers, NEW lp, NEW k \in Keys, NEW u, EnqueueReserve(c, lp, k, u)
        PROVE  Promise!Next
    BY <2>2, ReserveNames DEF Promise!Next
  <2>3. ASSUME NEW id \in TaskIds, ThreadStep(id) \/ DoneCallback(id)
        PROVE  Promise!Next \/ UNCHANGED Promise!vars
    BY <2>3, ThreadSilent, DoneIsEnd DEF Promise!Next
  <2>4. CASE BackendRestart
    BY <2>4, RestartKills DEF Promise!Next
  <2> QED
    BY <1>2, <2>1, <2>2, <2>3, <2>4, SubmitPromise, DrainPromise, CancelTakesBack, JobCases
<1> QED
  BY <1>1, <1>2

(* The backend implements the promise of its lanes: whatever is submitted, *)
(* cancelled, reconfigured, settled or restarted, and whichever writes     *)
(* fail, a run waits, runs and is over at most once, is refused or taken   *)
(* back only before it runs, and starts only while fewer runs of its lane  *)
(* run than the policy of the moment allows (inline_backend.py).           *)
THEOREM BackendImplementsPromise == BackendSpec => ImplementsPromise
<1>1. BackendInit => Promise!Init
  <2> SUFFICES ASSUME BackendInit PROVE Promise!Init
    OBVIOUS
  <2>1. \A i \in TaskIds : StateOf(i) = "new"
    <3>1. \A i \in TaskIds : Stage(i) = "new"
      BY StoreAssumption DEF BackendInit, Init, Stage, Slotted, TaskIds
    <3> QED
      BY <3>1, StageIsState, JobInitEstablishes DEF JobInv
  <2>2. \A i \in TaskIds : Lane(i) \in Lanes
    BY JobInitEstablishes, StoreAssumption DEF JobInv, BackendInv, Wiring, Lane
  <2>3. [l \in Lanes |-> policy[l].conc] \in [Lanes -> Nat \ {0}]
    BY BackendAssumption DEF BackendInit
  <2> QED
    BY <2>1, <2>2, <2>3 DEF Promise!Init
<1>2. JobInv /\ JobInv' /\ [BackendNext]_vars => [Promise!Next]_Promise!vars
  BY BackendPromiseStep
<1> QED
  BY <1>1, <1>2, JobInvariant, PTL DEF BackendSpec, ImplementsPromise, Promise!Spec
=============================================================================
