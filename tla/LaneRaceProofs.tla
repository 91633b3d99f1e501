---------------------------- MODULE LaneRaceProofs ----------------------------
(***************************************************************************)
(* What one lane keeps between threads, for any number of loops and jobs,  *)
(* any limit and any concurrency: an inductive invariant of LaneRace, its  *)
(* proof, and the two properties that follow from it.                      *)
(*                                                                         *)
(* One part of the invariant holds whoever submits (JobsSettle: what is    *)
(* queued, about to be started or started was accepted); the others hold   *)
(* for a loop that submits all jobs, and say where its jobs are at every   *)
(* place of the code at which it may be interrupted.                       *)
(***************************************************************************)
EXTENDS LaneRace, TLAPS, SequenceTheorems, FiniteSetTheorems

(* Where a loop is in the lane's code, and what a job's fate may be.       *)
Places == {"idle", "start", "room", "append", "store", "drain", "pop", "popOnly", "next",
           "compare", "startNext"}
Fates == {"new", "accepted", "rejected"}

Typed ==
  /\ setup \in [loopOf : [Jobs -> Loops], conc : Nat \ {0}]
  /\ active \in Nat /\ queued \in Seq(Jobs)
  /\ pc \in [Loops -> Places] /\ job \in [Loops -> Jobs \cup {None}]
  /\ spare \in [Loops -> Nat] /\ seen \in [Loops -> Seq(Jobs)] /\ at \in [Loops -> Nat]
  /\ fate \in [Jobs -> Fates] /\ starts \in [Jobs -> Nat]
  /\ up \subseteq Jobs \X Nat \X Loops /\ IsFiniteSet(up)

(* A wrapper is one of the starts of its job.                              *)
UpFits == \A w \in up : 1 <= w[2] /\ w[2] <= starts[w[1]]

(* A job is taken when its submission will not refuse it any more.         *)
Taken(j) == fate[j] = "accepted" /\ \A t \in Loops : pc[t] = "room" => job[t] # j

(* Whoever looks for room does so for a job of his own, and a job that is  *)
(* queued, about to be started or started is taken.                        *)
JobsSettle ==
  /\ \A t \in Loops :
       /\ pc[t] = "room" => job[t] \in Jobs /\ LoopOf[job[t]] = t /\ fate[job[t]] = "accepted"
       /\ pc[t] \in {"start", "append", "compare", "startNext"} => job[t] \in Jobs /\ Taken(job[t])
       /\ pc[t] \in {"next", "compare"} => at[t] >= 1
  /\ \A i \in DOMAIN queued : Taken(queued[i])
  /\ \A j \in Jobs : starts[j] > 0 => Taken(j)

(* All jobs are submitted by loop m.                                       *)
AloneOn(m) == \A j \in Jobs : LoopOf[j] = m

(* Then nobody else ever runs, active is the number of wrappers but for    *)
(* the moment before it is stored, and is below the limit when a job is    *)
(* started.                                                                *)
LimitKept(m) ==
  /\ \A t \in Loops : t # m => pc[t] = "idle"
  /\ \A w \in up : w[3] = m
  /\ pc[m] = "store" => active = Cardinality(up) + 1 /\ spare[m] = Cardinality(up)
  /\ pc[m] # "store" => active = Cardinality(up)
  /\ active <= Conc
  /\ pc[m] \in {"start", "pop", "popOnly", "next", "compare", "startNext"} => active < Conc

Held(j, m) == job[m] = j /\ pc[m] \in {"start", "room", "append", "startNext"}
InQueue(j) == \E i \in DOMAIN queued : queued[i] = j

(* A job that was accepted is in one place; any other is in none.          *)
JobsKept(m) ==
  /\ pc[m] = "compare" => at[m] <= Len(queued) /\ job[m] = queued[at[m]]
  /\ \A i, k \in DOMAIN queued : queued[i] = queued[k] => i = k
  /\ \A j \in Jobs :
       /\ fate[j] = "accepted" => \/ starts[j] = 1 /\ ~InQueue(j) /\ ~Held(j, m)
                                  \/ starts[j] = 0 /\ InQueue(j) /\ ~Held(j, m)
                                  \/ starts[j] = 0 /\ ~InQueue(j) /\ Held(j, m)
       /\ fate[j] # "accepted" => starts[j] = 0 /\ ~InQueue(j) /\ ~Held(j, m)

LaneInv ==
  /\ Typed
  /\ UpFits
  /\ JobsSettle
  /\ \A m \in Loops : AloneOn(m) => LimitKept(m) /\ JobsKept(m)

(* What is left when the i-th element of s is removed.                     *)
LEMMA RemoveAtProperties ==
  ASSUME NEW S, NEW s \in Seq(S), NEW i \in 1..Len(s)
  PROVE  /\ RemoveAt(s, i) \in Seq(S)
         /\ Len(RemoveAt(s, i)) = Len(s) - 1
         /\ \A j \in 1..(Len(s) - 1) : RemoveAt(s, i)[j] = s[IF j < i THEN j ELSE j + 1]
<1> DEFINE a == SubSeq(s, 1, i - 1)
           b == SubSeq(s, i + 1, Len(s))
<1>1. s \in [1..Len(s) -> S] /\ Len(s) \in Nat
  OBVIOUS
<1>2. /\ a \in Seq(S) /\ Len(a) = i - 1
      /\ \A j \in 1..(i - 1) : a[j] = s[j]
  <2>1. \A j \in 1..(i - 1) : s[j] \in S
    BY <1>1
  <2>2. /\ a \in Seq(S) /\ Len(a) = IF 1 <= i - 1 THEN i - 1 - 1 + 1 ELSE 0
        /\ \A j \in 1..(i - 1 - 1 + 1) : a[j] = s[1 + j - 1]
    BY <2>1, SubSeqProperties
  <2> QED
    BY <2>2
<1>3. /\ b \in Seq(S) /\ Len(b) = Len(s) - i
      /\ \A j \in 1..(Len(s) - i) : b[j] = s[i + j]
  <2>1. \A j \in (i + 1)..Len(s) : s[j] \in S
    BY <1>1
  <2>2. /\ b \in Seq(S) /\ Len(b) = IF i + 1 <= Len(s) THEN Len(s) - (i + 1) + 1 ELSE 0
        /\ \A j \in 1..(Len(s) - (i + 1) + 1) : b[j] = s[(i + 1) + j - 1]
    BY <1>1, <2>1, SubSeqProperties
  <2> HIDE DEF b
  <2>3. b \in Seq(S) /\ Len(b) = Len(s) - i
    <3>1. ASSUME NEW n \in Nat, NEW l, i \in 1..n,
                 l = IF i + 1 <= n THEN n - (i + 1) + 1 ELSE 0
          PROVE  l = n - i
      BY <3>1
    <3> QED
      BY <1>1, <2>2, <3>1
  <2>4. ASSUME NEW j \in 1..(Len(s) - i) PROVE b[j] = s[i + j]
    <3>1. j \in 1..(Len(s) - (i + 1) + 1) /\ (i + 1) + j - 1 = i + j
      BY <1>1
    <3>2. b[j] = s[(i + 1) + j - 1]
      BY <2>2, <3>1, Zenon
    <3> QED
      BY <3>1, <3>2
  <2> QED
    BY <2>3, <2>4
<1> HIDE DEF a, b
<1>4. /\ a \o b \in Seq(S) /\ Len(a \o b) = Len(s) - 1
      /\ \A j \in 1..(Len(s) - 1) : (a \o b)[j] = IF j <= i - 1 THEN a[j] ELSE b[j - (i - 1)]
  <2>1. /\ a \o b \in Seq(S) /\ Len(a \o b) = Len(a) + Len(b)
        /\ \A j \in 1..(Len(a) + Len(b)) :
             (a \o b)[j] = IF j <= Len(a) THEN a[j] ELSE b[j - Len(a)]
    BY <1>2, <1>3, ConcatProperties
  <2>2. Len(a) = i - 1 /\ Len(a) + Len(b) = Len(s) - 1
    BY <1>1, <1>2, <1>3
  <2> QED
    BY <2>1, <2>2
<1>5. \A j \in 1..(Len(s) - 1) : (a \o b)[j] = s[IF j < i THEN j ELSE j + 1]
  BY <1>1, <1>2, <1>3, <1>4
<1> QED
  BY <1>4, <1>5 DEF RemoveAt, a, b

(* What Append does to the places and the elements of a sequence.          *)
LEMMA AppendFacts ==
  ASSUME NEW S, NEW s \in Seq(S), NEW e \in S
  PROVE  /\ Append(s, e) \in Seq(S)
         /\ DOMAIN s = 1..Len(s) /\ Len(s) \in Nat /\ Len(s) + 1 \notin DOMAIN s
         /\ DOMAIN Append(s, e) = DOMAIN s \cup {Len(s) + 1}
         /\ \A n \in DOMAIN s : Append(s, e)[n] = s[n]
         /\ Append(s, e)[Len(s) + 1] = e
OBVIOUS

(* A sequence without its k-th element.                                    *)
Without(s, k, t) ==
  /\ Len(s) \in Nat /\ Len(t) \in Nat /\ Len(t) = Len(s) - 1
  /\ DOMAIN s = 1..Len(s) /\ DOMAIN t = 1..Len(t) /\ k \in DOMAIN s
  /\ \A i \in DOMAIN t : t[i] = s[IF i < k THEN i ELSE i + 1]

(* What the first job leaves behind,                                       *)
LEMMA TailIsWithout ==
  ASSUME NEW S, NEW s \in Seq(S), s # <<>>
  PROVE  Tail(s) \in Seq(S) /\ Without(s, 1, Tail(s)) /\ Head(s) = s[1]
<1>1. Len(s) \in Nat /\ Len(s) >= 1 /\ DOMAIN s = 1..Len(s)
  OBVIOUS
<1>2. /\ Tail(s) \in Seq(S) /\ Len(Tail(s)) = Len(s) - 1 /\ DOMAIN Tail(s) = 1..Len(Tail(s))
      /\ \A i \in 1..Len(Tail(s)) : Tail(s)[i] = s[i + 1]
  BY <1>1, HeadTailProperties
<1>3. \A i \in DOMAIN Tail(s) : ~(i < 1)
  BY <1>1, <1>2
<1> QED
  BY <1>1, <1>2, <1>3 DEF Without

(* and the one at the iterator's index.                                    *)
LEMMA RemovalIsWithout ==
  ASSUME NEW S, NEW s \in Seq(S), NEW k \in 1..Len(s)
  PROVE  RemoveAt(s, k) \in Seq(S) /\ Without(s, k, RemoveAt(s, k))
<1>1. /\ RemoveAt(s, k) \in Seq(S) /\ Len(RemoveAt(s, k)) = Len(s) - 1
      /\ \A j \in 1..(Len(s) - 1) : RemoveAt(s, k)[j] = s[IF j < k THEN j ELSE j + 1]
  BY RemoveAtProperties
<1> QED
  BY <1>1 DEF Without

(* What is left in a queue that holds nothing twice.                       *)
LEMMA WithoutProperties ==
  ASSUME NEW s, NEW k, NEW t, Without(s, k, t)
  PROVE  /\ \A i \in DOMAIN t : \E n \in DOMAIN s : n # k /\ t[i] = s[n]
         /\ \A n \in DOMAIN s : n # k => \E i \in DOMAIN t : t[i] = s[n]
         /\ (\A n, l \in DOMAIN s : s[n] = s[l] => n = l) =>
              \A i, j \in DOMAIN t : t[i] = t[j] => i = j
<1>1. ASSUME NEW i \in DOMAIN t PROVE \E n \in DOMAIN s : n # k /\ t[i] = s[n]
  <2>1. CASE i < k
    BY <1>1, <2>1 DEF Without
  <2>2. CASE ~(i < k)
    <3>1. i + 1 \in DOMAIN s /\ i + 1 # k /\ t[i] = s[i + 1]
      BY <1>1, <2>2 DEF Without
    <3> QED
      BY <3>1
  <2> QED
    BY <2>1, <2>2
<1>2. ASSUME NEW n \in DOMAIN s, n # k PROVE \E i \in DOMAIN t : t[i] = s[n]
  <2>1. CASE n < k
    <3>1. n \in DOMAIN t /\ t[n] = s[n]
      BY <1>2, <2>1 DEF Without
    <3> QED
      BY <3>1
  <2>2. CASE ~(n < k)
    <3>1. n - 1 \in DOMAIN t /\ ~(n - 1 < k) /\ n - 1 + 1 = n
      BY <1>2, <2>2 DEF Without
    <3>2. t[n - 1] = s[n]
      BY <3>1 DEF Without
    <3> QED
      BY <3>1, <3>2
  <2> QED
    BY <2>1, <2>2
<1>3. ASSUME \A n, l \in DOMAIN s : s[n] = s[l] => n = l, NEW i \in DOMAIN t, NEW j \in DOMAIN t,
             t[i] = t[j]
      PROVE  i = j
  <2> DEFINE n(x) == IF x < k THEN x ELSE x + 1
  <2>1. n(i) \in DOMAIN s /\ n(j) \in DOMAIN s /\ t[i] = s[n(i)] /\ t[j] = s[n(j)]
    BY DEF Without
  <2>2. n(i) = n(j)
    BY <1>3, <2>1
  <2> QED
    BY <2>2 DEF Without
<1> QED
  BY <1>1, <1>2, <1>3

(* The parts of the invariant, one by one.                                 *)
LEMMA Parts ==
  ASSUME LaneInv
  PROVE  /\ Typed /\ UpFits /\ JobsSettle /\ Conc \in Nat \ {0}
         /\ \A j \in Jobs : LoopOf[j] \in Loops
         /\ queued \in Seq(Jobs) /\ DOMAIN queued = 1..Len(queued) /\ Len(queued) \in Nat
         /\ \A i \in DOMAIN queued : queued[i] \in Jobs
         /\ active \in Nat /\ Cardinality(up) \in Nat /\ IsFiniteSet(up)
         /\ \A m \in Loops : AloneOn(m) => LimitKept(m) /\ JobsKept(m)
<1>1. Typed /\ UpFits /\ JobsSettle /\ \A m \in Loops : AloneOn(m) => LimitKept(m) /\ JobsKept(m)
  BY DEF LaneInv
<1>2. /\ Conc \in Nat \ {0} /\ \A j \in Jobs : LoopOf[j] \in Loops
      /\ queued \in Seq(Jobs) /\ active \in Nat /\ IsFiniteSet(up)
  BY <1>1 DEF Typed, Conc, LoopOf
<1>3. Cardinality(up) \in Nat
  BY <1>2, FS_CardinalityType
<1> QED
  BY <1>1, <1>2, <1>3

(* A loop goes from one place of the code to another.                      *)
LEMMA GotoFacts ==
  ASSUME pc \in [Loops -> Places], NEW t \in Loops, NEW from, NEW to \in Places, Goto(t, from, to)
  PROVE  /\ pc[t] = from /\ pc'[t] = to /\ pc' \in [Loops -> Places]
         /\ \A u \in Loops : u # t => pc'[u] = pc[u]
BY DEF Goto

(* The setup stays, and so does who submits what.                          *)
LEMMA SameSetup ==
  ASSUME setup' = setup
  PROVE  Conc' = Conc /\ LoopOf' = LoopOf /\ \A m \in Loops : AloneOn(m)' <=> AloneOn(m)
BY DEF Conc, LoopOf, AloneOn

(* A job that is taken stays so when nobody looks for room anew.           *)
LEMMA SettleKept ==
  ASSUME LaneInv, setup' = setup, fate' = fate,
         \A t \in Loops : pc'[t] = "room" => pc[t] = "room" /\ job'[t] = job[t],
         \A t \in Loops : pc'[t] \in {"start", "append", "compare", "startNext"} =>
           job'[t] \in Jobs /\ Taken(job'[t]),
         \A t \in Loops : pc'[t] \in {"next", "compare"} => at'[t] >= 1,
         \A i \in DOMAIN queued' : Taken(queued'[i]),
         \A j \in Jobs : starts'[j] > 0 => Taken(j)
  PROVE  JobsSettle'
<1>1. ASSUME NEW j, Taken(j) PROVE Taken(j)'
  BY <1>1 DEF Taken
<1>2. ASSUME NEW t \in Loops, pc'[t] = "room"
      PROVE  job'[t] \in Jobs /\ LoopOf'[job'[t]] = t /\ fate'[job'[t]] = "accepted"
  BY <1>2, Parts, SameSetup DEF JobsSettle
<1>3. ASSUME NEW t \in Loops, pc'[t] \in {"start", "append", "compare", "startNext"}
      PROVE  job'[t] \in Jobs /\ Taken(job[t])'
  <2>1. \A j : j = job'[t] => Taken(j)'
    BY <1>1, <1>3
  <2> QED
    BY <1>3, <2>1 DEF Taken
<1>4. \A i \in DOMAIN queued' : Taken(queued[i])'
  <2> SUFFICES ASSUME NEW i \in DOMAIN queued', NEW j, j = queued'[i] PROVE Taken(j)'
    BY DEF Taken
  <2> QED
    BY <1>1
<1>5. \A j \in Jobs : starts'[j] > 0 => Taken(j)'
  BY <1>1
<1> QED
  BY <1>2, <1>3, <1>4, <1>5 DEF JobsSettle

(* The loop that runs alone, unless nobody's job is in the lane.           *)
LEMMA WhoRuns ==
  ASSUME LaneInv, NEW m \in Loops, AloneOn(m), NEW t \in Loops, pc[t] # "idle"
  PROVE  t = m
BY Parts DEF LimitKept

(* Nothing starts or ends.                                                 *)
LEMMA LimitStays ==
  ASSUME LaneInv, NEW m \in Loops, AloneOn(m), setup' = setup, active' = active, up' = up,
         \A u \in Loops : u # m => pc'[u] = pc[u],
         pc[m] # "store", pc'[m] # "store",
         pc'[m] \in {"start", "pop", "popOnly", "next", "compare", "startNext"} => active < Conc
  PROVE  LimitKept(m)'
BY Parts, SameSetup DEF LimitKept

(* No job is submitted, queued, taken from the queue or started.           *)
LEMMA JobsStay ==
  ASSUME LaneInv, NEW m \in Loops, AloneOn(m), fate' = fate, queued' = queued, starts' = starts,
         \A j \in Jobs : Held(j, m)' <=> Held(j, m),
         pc'[m] = "compare" => at'[m] <= Len(queued) /\ job'[m] = queued[at'[m]]
  PROVE  JobsKept(m)'
<1>1. JobsKept(m)
  BY Parts
<1>2. \A j : InQueue(j)' <=> InQueue(j)
  BY DEF InQueue
<1> QED
  BY <1>1, <1>2 DEF JobsKept

(* The k-th job of the queue is taken out to be started.                   *)
LEMMA JobsTaken ==
  ASSUME LaneInv, NEW m \in Loops, AloneOn(m), fate' = fate, starts' = starts,
         NEW k \in DOMAIN queued, Without(queued, k, queued'),
         pc[m] \in {"popOnly", "next", "compare"},
         pc'[m] = "startNext", job'[m] = queued[k]
  PROVE  JobsKept(m)'
<1>1. JobsKept(m) /\ queued[k] \in Jobs
  BY Parts
<1>2. \A j \in Jobs : ~Held(j, m) /\ (Held(j, m)' <=> j = queued[k])
  BY DEF Held
<1>3. \A i, n \in DOMAIN queued : queued[i] = queued[n] => i = n
  BY <1>1 DEF JobsKept
<1>4. /\ \A i \in DOMAIN queued' : \E n \in DOMAIN queued : n # k /\ queued'[i] = queued[n]
      /\ \A n \in DOMAIN queued : n # k => \E i \in DOMAIN queued' : queued'[i] = queued[n]
      /\ \A i, n \in DOMAIN queued' : queued'[i] = queued'[n] => i = n
  BY <1>3, WithoutProperties
<1>5. \A j \in Jobs : j # queued[k] => (InQueue(j)' <=> InQueue(j))
  BY <1>4 DEF InQueue
<1>6. InQueue(queued[k]) /\ \A i \in DOMAIN queued' : queued'[i] # queued[k]
  BY <1>3, <1>4 DEF InQueue
<1>7. \A j \in Jobs : j = queued[k] => InQueue(j) /\ ~InQueue(j)'
  BY <1>6 DEF InQueue
<1> QED
  BY <1>1, <1>2, <1>4, <1>5, <1>7 DEF JobsKept

(* The invariant's parts, put together.                                    *)
LEMMA Together ==
  ASSUME setup' = setup, Typed', UpFits', JobsSettle',
         \A m \in Loops : AloneOn(m) => LimitKept(m)' /\ JobsKept(m)'
  PROVE  LaneInv'
BY SameSetup DEF LaneInv

(* A job is submitted: it gets a slot, or looks for room.                  *)
LEMMA SubmitTestKeeps ==
  ASSUME LaneInv, NEW t \in Loops, NEW j \in Jobs, SubmitTest(t, j), setup' = setup
  PROVE  LaneInv'
<1> DEFINE to == IF HasSlot THEN "start" ELSE "room"
<1>1. /\ LoopOf[j] = t /\ fate[j] = "new" /\ Goto(t, "idle", to)
      /\ job' = [job EXCEPT ![t] = j] /\ fate' = [fate EXCEPT ![j] = "accepted"]
      /\ UNCHANGED <<active, queued, last, spare, seen, at, up, starts>>
  BY DEF SubmitTest
<1>2. to \in {"start", "room"} /\ to \in Places /\ (to = "start" => active < Conc)
  BY DEF Places, HasSlot
<1> HIDE DEF to
<1>3. /\ pc[t] = "idle" /\ pc'[t] = to /\ pc' \in [Loops -> Places]
      /\ \A u \in Loops : u # t => pc'[u] = pc[u]
  BY <1>1, <1>2, Parts, GotoFacts DEF Typed
<1>4. /\ job' \in [Loops -> Jobs \cup {None}] /\ job'[t] = j
      /\ \A u \in Loops : u # t => job'[u] = job[u]
  BY <1>1, Parts DEF Typed
<1>5. /\ fate' \in [Jobs -> Fates] /\ fate'[j] = "accepted"
      /\ \A i \in Jobs : i # j => fate'[i] = fate[i]
  BY <1>1, Parts DEF Typed, Fates
<1>6. Typed'
  BY <1>1, <1>3, <1>4, <1>5, Parts DEF Typed
<1>7. UpFits'
  BY <1>1, Parts DEF UpFits
<1>8. ASSUME NEW i \in Jobs, Taken(i) PROVE i # j /\ Taken(i)'
  BY <1>1, <1>3, <1>4, <1>5, <1>8 DEF Taken
<1>9. JobsSettle'
  <2>1. \A u \in Loops : pc'[u] = "room" =>
          job'[u] \in Jobs /\ LoopOf'[job'[u]] = u /\ fate'[job'[u]] = "accepted"
    BY <1>1, <1>3, <1>4, <1>5, Parts, SameSetup DEF JobsSettle
  <2>2. ASSUME NEW u \in Loops, pc'[u] \in {"start", "append", "compare", "startNext"}
        PROVE  job'[u] \in Jobs /\ Taken(job[u])'
    <3>1. CASE u = t
      <4>1. \A v \in Loops : v # t /\ pc[v] = "room" => job[v] # j
        BY <1>1, Parts DEF JobsSettle
      <4> QED
        BY <1>2, <1>3, <1>4, <1>5, <2>2, <3>1, <4>1 DEF Taken
    <3>2. CASE u # t
      <4>1. job[u] \in Jobs /\ Taken(job[u]) /\ job'[u] = job[u]
        BY <1>3, <1>4, <2>2, <3>2, Parts DEF JobsSettle
      <4>2. PICK i \in Jobs : i = job[u]
        BY <4>1
      <4>3. Taken(i)'
        BY <1>8, <4>1, <4>2
      <4> QED
        BY <4>1, <4>2, <4>3 DEF Taken
    <3> QED
      BY <3>1, <3>2
  <2>3. \A u \in Loops : pc'[u] \in {"next", "compare"} => at'[u] >= 1
    BY <1>1, <1>2, <1>3, Parts DEF JobsSettle
  <2>4. \A i \in DOMAIN queued' : Taken(queued[i])'
    <3> SUFFICES ASSUME NEW n \in DOMAIN queued PROVE Taken(queued[n])'
      BY <1>1
    <3>1. PICK i \in Jobs : i = queued[n] /\ Taken(i)
      BY Parts DEF JobsSettle
    <3>2. Taken(i)'
      BY <1>8, <3>1
    <3> QED
      BY <1>1, <3>1, <3>2 DEF Taken
  <2>5. \A i \in Jobs : starts'[i] > 0 => Taken(i)'
    BY <1>1, <1>8, Parts DEF JobsSettle
  <2> QED
    BY <2>1, <2>2, <2>3, <2>4, <2>5 DEF JobsSettle
<1>10. ASSUME NEW m \in Loops, AloneOn(m) PROVE LimitKept(m)' /\ JobsKept(m)'
  <2>1. t = m
    BY <1>1, <1>10 DEF AloneOn
  <2>2. LimitKept(m)'
    BY <1>1, <1>2, <1>3, <1>10, <2>1, LimitStays
  <2>3. JobsKept(m)
    BY <1>10, Parts
  <2>4. \A i : InQueue(i)' <=> InQueue(i)
    BY <1>1 DEF InQueue
  <2>5. \A i \in Jobs : ~Held(i, m) /\ (Held(i, m)' <=> i = j)
    BY <1>2, <1>3, <1>4, <2>1 DEF Held
  <2>6. starts[j] = 0 /\ ~InQueue(j)
    BY <1>1, <2>3 DEF JobsKept
  <2>7. JobsKept(m)'
    BY <1>1, <1>2, <1>3, <1>5, <2>1, <2>3, <2>4, <2>5, <2>6 DEF JobsKept
  <2> QED
    BY <2>2, <2>7
<1> QED
  BY <1>6, <1>7, <1>9, <1>10, Together

(* There is no room, or there is.                                          *)
LEMMA SubmitRoomKeeps ==
  ASSUME LaneInv, NEW t \in Loops, SubmitRoom(t), setup' = setup
  PROVE  LaneInv'
<1>1. UNCHANGED <<active, queued, last, job, spare, seen, at, up, starts>> /\ pc[t] = "room"
  BY DEF SubmitRoom, Goto
<1>2. PICK j \in Jobs : /\ j = job[t] /\ LoopOf[j] = t /\ fate[j] = "accepted"
  BY <1>1, Parts DEF JobsSettle
<1>3. UpFits'
  BY <1>1, Parts DEF UpFits
<1>4. ~Taken(j) /\ \A u \in Loops : u # t /\ pc[u] = "room" => job[u] # j
  BY <1>1, <1>2, Parts DEF Taken, JobsSettle
<1>5. CASE Len(queued) >= QueueLimit
  <2>1. Goto(t, "room", "idle") /\ fate' = [fate EXCEPT ![j] = "rejected"]
    BY <1>2, <1>5 DEF SubmitRoom
  <2>2. /\ pc'[t] = "idle" /\ pc' \in [Loops -> Places]
        /\ \A u \in Loops : u # t => pc'[u] = pc[u]
    BY <2>1, Parts, GotoFacts DEF Typed, Places
  <2>3. /\ fate' \in [Jobs -> Fates] /\ fate'[j] = "rejected"
        /\ \A i \in Jobs : i # j => fate'[i] = fate[i]
    BY <2>1, Parts DEF Typed, Fates
  <2>4. Typed'
    BY <1>1, <2>2, <2>3, Parts DEF Typed
  <2>5. ASSUME NEW i \in Jobs, Taken(i) PROVE i # j /\ Taken(i)'
    BY <1>1, <1>4, <2>2, <2>3, <2>5 DEF Taken
  <2>6. JobsSettle'
    <3>1. \A u \in Loops : pc'[u] = "room" =>
            job'[u] \in Jobs /\ LoopOf'[job'[u]] = u /\ fate'[job'[u]] = "accepted"
      BY <1>1, <1>4, <2>2, <2>3, Parts, SameSetup DEF JobsSettle
    <3>2. \A u \in Loops : pc'[u] \in {"start", "append", "compare", "startNext"} =>
            job'[u] \in Jobs /\ Taken(job[u])'
      <4> SUFFICES ASSUME NEW u \in Loops, pc'[u] \in {"start", "append", "compare", "startNext"}
                   PROVE  job'[u] \in Jobs /\ Taken(job[u])'
        OBVIOUS
      <4>1. PICK i \in Jobs : i = job[u] /\ Taken(i)
        BY <2>2, Parts DEF JobsSettle
      <4>2. Taken(i)'
        BY <2>5, <4>1
      <4> QED
        BY <1>1, <4>1, <4>2 DEF Taken
    <3>3. \A u \in Loops : pc'[u] \in {"next", "compare"} => at'[u] >= 1
      BY <1>1, <2>2, Parts DEF JobsSettle
    <3>4. \A i \in DOMAIN queued' : Taken(queued[i])'
      <4> SUFFICES ASSUME NEW n \in DOMAIN queued PROVE Taken(queued[n])'
        BY <1>1
      <4>1. PICK i \in Jobs : i = queued[n] /\ Taken(i)
        BY Parts DEF JobsSettle
      <4>2. Taken(i)'
        BY <2>5, <4>1
      <4> QED
        BY <1>1, <4>1, <4>2 DEF Taken
    <3>5. \A i \in Jobs : starts'[i] > 0 => Taken(i)'
      BY <1>1, <2>5, Parts DEF JobsSettle
    <3> QED
      BY <3>1, <3>2, <3>3, <3>4, <3>5 DEF JobsSettle
  <2>7. ASSUME NEW m \in Loops, AloneOn(m) PROVE LimitKept(m)' /\ JobsKept(m)'
    <3>1. t = m
      BY <1>1, <2>7, WhoRuns
    <3>2. LimitKept(m)'
      BY <1>1, <2>2, <2>7, <3>1, LimitStays
    <3>3. JobsKept(m)
      BY <2>7, Parts
    <3>4. \A i : InQueue(i)' <=> InQueue(i)
      BY <1>1 DEF InQueue
    <3>5. \A i \in Jobs : ~Held(i, m)' /\ (Held(i, m) <=> i = j)
      BY <1>1, <1>2, <2>2, <3>1 DEF Held
    <3>6. JobsKept(m)'
      BY <1>1, <1>2, <2>2, <2>3, <3>1, <3>3, <3>4, <3>5 DEF JobsKept
    <3> QED
      BY <3>2, <3>6
  <2> QED
    BY <1>3, <2>4, <2>6, <2>7, Together
<1>6. CASE ~(Len(queued) >= QueueLimit)
  <2>1. Goto(t, "room", "append") /\ fate' = fate
    BY <1>6 DEF SubmitRoom
  <2>2. /\ pc'[t] = "append" /\ pc' \in [Loops -> Places]
        /\ \A u \in Loops : u # t => pc'[u] = pc[u]
    BY <2>1, Parts, GotoFacts DEF Typed, Places
  <2>3. Typed'
    BY <1>1, <2>1, <2>2, Parts DEF Typed
  <2>4. ASSUME NEW i, Taken(i) PROVE Taken(i)'
    BY <1>1, <2>1, <2>2, <2>4 DEF Taken
  <2>5. Taken(j)'
    BY <1>1, <1>2, <1>4, <2>1, <2>2 DEF Taken
  <2>6. JobsSettle'
    <3>1. \A u \in Loops : pc'[u] = "room" =>
            job'[u] \in Jobs /\ LoopOf'[job'[u]] = u /\ fate'[job'[u]] = "accepted"
      BY <1>1, <2>1, <2>2, Parts, SameSetup DEF JobsSettle
    <3>2. ASSUME NEW u \in Loops, pc'[u] \in {"start", "append", "compare", "startNext"}
          PROVE  job'[u] \in Jobs /\ Taken(job[u])'
      <4>1. CASE u = t
        BY <1>1, <1>2, <2>5, <4>1 DEF Taken
      <4>2. CASE u # t
        <5>1. PICK i \in Jobs : i = job[u] /\ Taken(i)
          BY <2>2, <3>2, <4>2, Parts DEF JobsSettle
        <5>2. Taken(i)'
          BY <2>4, <5>1
        <5> QED
          BY <1>1, <5>1, <5>2 DEF Taken
      <4> QED
        BY <4>1, <4>2
    <3>3. \A u \in Loops : pc'[u] \in {"next", "compare"} => at'[u] >= 1
      BY <1>1, <2>2, Parts DEF JobsSettle
    <3>4. \A i \in DOMAIN queued' : Taken(queued[i])'
      <4> SUFFICES ASSUME NEW n \in DOMAIN queued PROVE Taken(queued[n])'
        BY <1>1
      <4>1. PICK i \in Jobs : i = queued[n] /\ Taken(i)
        BY Parts DEF JobsSettle
      <4>2. Taken(i)'
        BY <2>4, <4>1
      <4> QED
        BY <1>1, <4>1, <4>2 DEF Taken
    <3>5. \A i \in Jobs : starts'[i] > 0 => Taken(i)'
      BY <1>1, <2>4, Parts DEF JobsSettle
    <3> QED
      BY <3>1, <3>2, <3>3, <3>4, <3>5 DEF JobsSettle
  <2>7. ASSUME NEW m \in Loops, AloneOn(m) PROVE LimitKept(m)' /\ JobsKept(m)'
    <3>1. t = m
      BY <1>1, <2>7, WhoRuns
    <3>2. LimitKept(m)'
      BY <1>1, <2>2, <2>7, <3>1, LimitStays
    <3>3. \A i \in Jobs : Held(i, m)' <=> Held(i, m)
      BY <1>1, <2>2, <3>1 DEF Held
    <3>4. JobsKept(m)'
      BY <1>1, <2>1, <2>2, <2>7, <3>1, <3>3, JobsStay
    <3> QED
      BY <3>2, <3>4
  <2> QED
    BY <1>3, <2>3, <2>6, <2>7, Together
<1> QED
  BY <1>5, <1>6

(* The job is queued.                                                      *)
LEMMA SubmitAppendKeeps ==
  ASSUME LaneInv, NEW t \in Loops, SubmitAppend(t), setup' = setup
  PROVE  LaneInv'
<1>1. /\ Goto(t, "append", "idle") /\ queued' = Append(queued, job[t])
      /\ UNCHANGED <<active, last, job, spare, seen, at, fate, up, starts>>
  BY DEF SubmitAppend
<1>2. /\ pc[t] = "append" /\ pc'[t] = "idle" /\ pc' \in [Loops -> Places]
      /\ \A u \in Loops : u # t => pc'[u] = pc[u]
  BY <1>1, Parts, GotoFacts DEF Typed, Places
<1>3. PICK j \in Jobs : j = job[t] /\ Taken(j)
  BY <1>2, Parts DEF JobsSettle
<1>4. /\ queued' \in Seq(Jobs) /\ DOMAIN queued' = DOMAIN queued \cup {Len(queued) + 1}
      /\ Len(queued) + 1 \notin DOMAIN queued
      /\ \A n \in DOMAIN queued : queued'[n] = queued[n]
      /\ queued'[Len(queued) + 1] = j
  BY <1>1, <1>3, Parts, AppendFacts
<1>5. Typed' /\ UpFits'
  BY <1>1, <1>2, <1>4, Parts DEF Typed, UpFits
<1>6. JobsSettle'
  <2>1. \A n \in DOMAIN queued' : Taken(queued'[n])
    BY <1>3, <1>4, Parts DEF JobsSettle
  <2> QED
    BY <1>1, <1>2, <2>1, Parts, SettleKept DEF JobsSettle
<1>7. ASSUME NEW m \in Loops, AloneOn(m) PROVE LimitKept(m)' /\ JobsKept(m)'
  <2>1. t = m
    BY <1>2, <1>7, WhoRuns
  <2>2. LimitKept(m)'
    BY <1>1, <1>2, <1>7, <2>1, LimitStays
  <2>3. JobsKept(m)
    BY <1>7, Parts
  <2>4. \A i \in Jobs : ~Held(i, m)' /\ (Held(i, m) <=> i = j)
    BY <1>1, <1>2, <1>3, <2>1 DEF Held
  <2>5. fate[j] = "accepted" /\ starts[j] = 0 /\ ~InQueue(j)
    BY <1>3, <2>3, <2>4 DEF JobsKept, Taken
  <2>6. \A i \in Jobs : InQueue(i)' <=> InQueue(i) \/ i = j
    BY <1>4 DEF InQueue
  <2>7. \A n \in DOMAIN queued : queued[n] # j
    BY <2>5 DEF InQueue
  <2>8. \A n, l \in DOMAIN queued' : queued'[n] = queued'[l] => n = l
    BY <1>4, <2>3, <2>7 DEF JobsKept
  <2>9. JobsKept(m)'
    BY <1>1, <1>2, <2>1, <2>3, <2>4, <2>5, <2>6, <2>8 DEF JobsKept
  <2> QED
    BY <2>2, <2>9
<1> QED
  BY <1>5, <1>6, <1>7, Together

(* A job is started.                                                       *)
LEMMA StartKeeps ==
  ASSUME LaneInv, NEW t \in Loops, NEW from \in {"start", "startNext"}, NEW to \in {"idle", "drain"},
         StartFrom(t, from, to), setup' = setup
  PROVE  LaneInv'
<1> DEFINE n == starts[job[t]] + 1
           w == <<job[t], n, t>>
<1>1. /\ Goto(t, from, to) /\ active' = active + 1
      /\ starts' = [starts EXCEPT ![job[t]] = n] /\ up' = up \cup {w}
      /\ UNCHANGED <<queued, job, spare, seen, at, fate>>
  BY DEF StartFrom
<1>2. /\ pc[t] = from /\ pc'[t] = to /\ pc' \in [Loops -> Places]
      /\ \A u \in Loops : u # t => pc'[u] = pc[u]
  BY <1>1, Parts, GotoFacts DEF Typed, Places
<1>3. PICK j \in Jobs : j = job[t] /\ Taken(j)
  BY <1>2, Parts DEF JobsSettle
<1>4. n \in Nat /\ n = starts[j] + 1 /\ starts[j] \in Nat
  BY <1>3, Parts DEF Typed
<1>5. /\ starts' \in [Jobs -> Nat] /\ starts'[j] = n
      /\ \A i \in Jobs : i # j => starts'[i] = starts[i]
  BY <1>1, <1>3, <1>4, Parts DEF Typed
<1>6. w \notin up
  BY <1>3, <1>4, Parts DEF UpFits
<1>7. /\ up' \subseteq Jobs \X Nat \X Loops /\ IsFiniteSet(up')
      /\ Cardinality(up') = Cardinality(up) + 1
  <2>1. w \in Jobs \X Nat \X Loops
    BY <1>3, <1>4
  <2> HIDE DEF w, n
  <2>2. up \subseteq Jobs \X Nat \X Loops
    BY Parts DEF Typed
  <2> QED
    BY <1>1, <1>6, <2>1, <2>2, Parts, FS_AddElement
<1>8. Typed'
  <2>1. active' \in Nat
    BY <1>1, Parts
  <2> QED
    BY <1>1, <1>2, <1>5, <1>7, <2>1, Parts DEF Typed
<1>9. UpFits'
  <2> SUFFICES ASSUME NEW x \in up' PROVE 1 <= x[2] /\ x[2] <= starts'[x[1]]
    BY DEF UpFits
  <2>1. CASE x = w
    BY <1>3, <1>4, <1>5, <2>1
  <2>2. CASE x \in up
    <3>1. x[1] \in Jobs /\ x[2] \in Nat /\ 1 <= x[2] /\ x[2] <= starts[x[1]] /\ starts[x[1]] \in Nat
      BY <2>2, Parts DEF UpFits, Typed
    <3>2. starts[x[1]] <= starts'[x[1]]
      BY <1>4, <1>5, <3>1
    <3> HIDE DEF w, n
    <3>3. starts'[x[1]] \in Nat
      BY <1>5, <3>1
    <3> QED
      BY <3>1, <3>2, <3>3
  <2> QED
    BY <1>1, <2>1, <2>2
<1> HIDE DEF w, n
<1>10. JobsSettle'
  <2>1. \A i \in Jobs : starts'[i] > 0 => Taken(i)
    BY <1>3, <1>5, Parts DEF JobsSettle
  <2> QED
    BY <1>1, <1>2, <2>1, Parts, SettleKept DEF JobsSettle
<1>11. ASSUME NEW m \in Loops, AloneOn(m) PROVE LimitKept(m)' /\ JobsKept(m)'
  <2>1. t = m
    BY <1>2, <1>11, WhoRuns
  <2>2. LimitKept(m) /\ JobsKept(m) /\ active < Conc /\ Conc' = Conc /\ Conc \in Nat
    BY <1>2, <1>11, <2>1, Parts, SameSetup DEF LimitKept
  <2>3. active = Cardinality(up)
    BY <1>2, <2>1, <2>2 DEF LimitKept
  <2>4. \A x \in up' : x[3] = m
    BY <1>1, <2>1, <2>2 DEF LimitKept, w
  <2>5. active' = Cardinality(up') /\ active' <= Conc
    BY <1>1, <1>7, <2>2, <2>3, Parts
  <2>6. LimitKept(m)'
    BY <1>2, <2>1, <2>2, <2>4, <2>5 DEF LimitKept
  <2>7. \A i \in Jobs : ~Held(i, m)' /\ (Held(i, m) <=> i = j)
    BY <1>1, <1>2, <1>3, <2>1 DEF Held
  <2>8. fate[j] = "accepted" /\ starts[j] = 0 /\ ~InQueue(j)
    BY <1>3, <2>2, <2>7 DEF JobsKept, Taken
  <2>9. \A i : InQueue(i)' <=> InQueue(i)
    BY <1>1 DEF InQueue
  <2>10. starts'[j] = 1
    BY <1>4, <1>5, <2>8
  <2>11. JobsKept(m)'
    BY <1>1, <1>2, <1>5, <2>1, <2>2, <2>7, <2>8, <2>9, <2>10 DEF JobsKept
  <2> QED
    BY <2>6, <2>11
<1> QED
  BY <1>8, <1>9, <1>10, <1>11, Together

(* A wrapper is done, and active is about to be stored.                    *)
LEMMA DoneKeeps ==
  ASSUME LaneInv, NEW t \in Loops, Done(t), setup' = setup
  PROVE  LaneInv'
<1> DEFINE left == IF active > 0 THEN active - 1 ELSE 0
<1>1. /\ Goto(t, "idle", "store") /\ spare' = [spare EXCEPT ![t] = left]
      /\ UNCHANGED <<active, queued, last, job, seen, at, fate, starts>>
  BY DEF Done
<1>2. PICK w \in up : w[3] = t /\ up' = up \ {w}
  BY DEF Done
<1>3. /\ pc[t] = "idle" /\ pc'[t] = "store" /\ pc' \in [Loops -> Places]
      /\ \A u \in Loops : u # t => pc'[u] = pc[u]
  BY <1>1, Parts, GotoFacts DEF Typed, Places
<1>4. left \in Nat /\ (active > 0 => left = active - 1)
  BY Parts
<1> HIDE DEF left
<1>5. spare' \in [Loops -> Nat] /\ spare'[t] = left
  BY <1>1, <1>4, Parts DEF Typed
<1>6. IsFiniteSet(up') /\ Cardinality(up') = Cardinality(up) - 1 /\ Cardinality(up') \in Nat
  BY <1>2, Parts, FS_RemoveElement, FS_CardinalityType
<1>7. Typed' /\ UpFits'
  BY <1>1, <1>2, <1>3, <1>5, <1>6, Parts DEF Typed, UpFits
<1>8. JobsSettle'
  BY <1>1, <1>3, Parts, SettleKept DEF JobsSettle
<1>9. ASSUME NEW m \in Loops, AloneOn(m) PROVE LimitKept(m)' /\ JobsKept(m)'
  <2>1. LimitKept(m) /\ JobsKept(m) /\ Conc' = Conc
    BY <1>9, Parts, SameSetup
  <2>2. t = m
    BY <1>2, <2>1 DEF LimitKept
  <2>3. active = Cardinality(up)
    BY <1>3, <2>1, <2>2 DEF LimitKept
  <2>4. active > 0 /\ active = Cardinality(up') + 1 /\ left = Cardinality(up')
    BY <1>4, <1>6, <2>3, Parts
  <2>5. LimitKept(m)'
    BY <1>1, <1>2, <1>3, <1>5, <2>1, <2>2, <2>4 DEF LimitKept
  <2>6. \A i \in Jobs : ~Held(i, m)' /\ ~Held(i, m)
    BY <1>1, <1>3, <2>2 DEF Held
  <2>7. JobsKept(m)'
    BY <1>1, <1>3, <1>9, <2>2, <2>6, JobsStay
  <2> QED
    BY <2>5, <2>7
<1> QED
  BY <1>7, <1>8, <1>9, Together

(* active is stored.                                                       *)
LEMMA StoreKeeps ==
  ASSUME LaneInv, NEW t \in Loops, Store(t), setup' = setup
  PROVE  LaneInv'
<1>1. /\ Goto(t, "store", "drain") /\ active' = spare[t]
      /\ UNCHANGED <<queued, last, job, spare, seen, at, fate, up, starts>>
  BY DEF Store
<1>2. /\ pc[t] = "store" /\ pc'[t] = "drain" /\ pc' \in [Loops -> Places]
      /\ \A u \in Loops : u # t => pc'[u] = pc[u]
  BY <1>1, Parts, GotoFacts DEF Typed, Places
<1>3. Typed' /\ UpFits'
  BY <1>1, <1>2, Parts DEF Typed, UpFits
<1>4. JobsSettle'
  BY <1>1, <1>2, Parts, SettleKept DEF JobsSettle
<1>5. ASSUME NEW m \in Loops, AloneOn(m) PROVE LimitKept(m)' /\ JobsKept(m)'
  <2>1. t = m
    BY <1>2, <1>5, WhoRuns
  <2>2. LimitKept(m) /\ Conc' = Conc /\ Conc \in Nat
    BY <1>5, Parts, SameSetup
  <2>3. active' = Cardinality(up) /\ active' <= Conc
    BY <1>1, <1>2, <2>1, <2>2, Parts DEF LimitKept
  <2>4. LimitKept(m)'
    BY <1>1, <1>2, <2>1, <2>2, <2>3 DEF LimitKept
  <2>5. \A i \in Jobs : ~Held(i, m)' /\ ~Held(i, m)
    BY <1>1, <1>2, <2>1 DEF Held
  <2>6. JobsKept(m)'
    BY <1>1, <1>2, <1>5, <2>1, <2>5, JobsStay
  <2> QED
    BY <2>4, <2>6
<1> QED
  BY <1>3, <1>4, <1>5, Together

(* The drain goes on as long as there is a slot.                           *)
LEMMA DrainKeeps ==
  ASSUME LaneInv, NEW t \in Loops, Drain(t), setup' = setup
  PROVE  LaneInv'
<1> DEFINE to == IF HasSlot THEN "pop" ELSE "idle"
<1>1. /\ Goto(t, "drain", to)
      /\ UNCHANGED <<active, queued, last, job, spare, seen, at, fate, up, starts>>
  BY DEF Drain
<1>2. to \in {"pop", "idle"} /\ to \in Places /\ (to = "pop" => active < Conc)
  BY DEF Places, HasSlot
<1> HIDE DEF to
<1>3. /\ pc[t] = "drain" /\ pc'[t] = to /\ pc' \in [Loops -> Places]
      /\ \A u \in Loops : u # t => pc'[u] = pc[u]
  BY <1>1, <1>2, Parts, GotoFacts DEF Typed
<1>4. Typed' /\ UpFits'
  BY <1>1, <1>3, Parts DEF Typed, UpFits
<1>5. JobsSettle'
  BY <1>1, <1>2, <1>3, Parts, SettleKept DEF JobsSettle
<1>6. ASSUME NEW m \in Loops, AloneOn(m) PROVE LimitKept(m)' /\ JobsKept(m)'
  <2>1. t = m
    BY <1>3, <1>6, WhoRuns
  <2>2. LimitKept(m)'
    BY <1>1, <1>2, <1>3, <1>6, <2>1, LimitStays
  <2>3. \A i \in Jobs : ~Held(i, m)' /\ ~Held(i, m)
    BY <1>1, <1>2, <1>3, <2>1 DEF Held
  <2>4. JobsKept(m)'
    BY <1>1, <1>2, <1>3, <1>6, <2>1, <2>3, JobsStay
  <2> QED
    BY <2>2, <2>4
<1> QED
  BY <1>4, <1>5, <1>6, Together

(* The queue is empty, or has one job, or is to be gone through.           *)
LEMMA PopKeeps ==
  ASSUME LaneInv, NEW t \in Loops, Pop(t), setup' = setup
  PROVE  LaneInv'
<1> DEFINE to == CASE queued = <<>> -> "idle"
                   [] Len(queued) = 1 -> "popOnly"
                   [] OTHER -> "next"
<1>1. /\ Goto(t, "pop", to) /\ seen' = [seen EXCEPT ![t] = queued] /\ at' = [at EXCEPT ![t] = 1]
      /\ UNCHANGED <<active, queued, last, job, spare, fate, up, starts>>
  BY DEF Pop
<1>2. to \in {"idle", "popOnly", "next"} /\ to \in Places
  <2>1. to = IF queued = <<>> THEN "idle" ELSE IF Len(queued) = 1 THEN "popOnly" ELSE "next"
    BY Parts
  <2> QED
    BY <2>1 DEF Places
<1> HIDE DEF to
<1>3. /\ pc[t] = "pop" /\ pc'[t] = to /\ pc' \in [Loops -> Places]
      /\ \A u \in Loops : u # t => pc'[u] = pc[u]
  BY <1>1, <1>2, Parts, GotoFacts DEF Typed
<1>4. /\ seen' \in [Loops -> Seq(Jobs)] /\ at' \in [Loops -> Nat] /\ at'[t] = 1
      /\ \A u \in Loops : u # t => at'[u] = at[u]
  BY <1>1, Parts DEF Typed
<1>5. Typed' /\ UpFits'
  BY <1>1, <1>3, <1>4, Parts DEF Typed, UpFits
<1>6. JobsSettle'
  <2>1. ASSUME NEW u \in Loops, pc'[u] \in {"next", "compare"} PROVE at'[u] >= 1
    <3>1. CASE u = t
      BY <1>4, <3>1
    <3>2. CASE u # t
      BY <1>3, <1>4, <2>1, <3>2, Parts DEF JobsSettle
    <3> QED
      BY <3>1, <3>2
  <2> QED
    BY <1>1, <1>2, <1>3, <2>1, Parts, SettleKept DEF JobsSettle
<1>7. ASSUME NEW m \in Loops, AloneOn(m) PROVE LimitKept(m)' /\ JobsKept(m)'
  <2>1. t = m
    BY <1>3, <1>7, WhoRuns
  <2>2. active < Conc
    BY <1>3, <1>7, <2>1, Parts DEF LimitKept
  <2>3. LimitKept(m)'
    BY <1>1, <1>2, <1>3, <1>7, <2>1, <2>2, LimitStays
  <2>4. \A i \in Jobs : ~Held(i, m)' /\ ~Held(i, m)
    BY <1>1, <1>2, <1>3, <2>1 DEF Held
  <2>5. JobsKept(m)'
    BY <1>1, <1>2, <1>3, <1>7, <2>1, <2>4, JobsStay
  <2> QED
    BY <2>3, <2>5
<1> QED
  BY <1>5, <1>6, <1>7, Together

(* The first job of the queue is taken out, if the queue still has one.    *)
LEMMA PopLeftKeeps ==
  ASSUME LaneInv, NEW t \in Loops, NEW from \in {"popOnly", "next"}, PopLeft(t, from), setup' = setup
  PROVE  LaneInv'
<1>1. /\ UNCHANGED <<active, last, spare, seen, at, fate, up, starts>> /\ pc[t] = from
  BY DEF PopLeft, Goto
<1>2. UpFits'
  BY <1>1, Parts DEF UpFits
<1>3. CASE queued = <<>>
  <2>1. Goto(t, from, "idle") /\ UNCHANGED <<queued, job>>
    BY <1>3 DEF PopLeft
  <2>2. /\ pc'[t] = "idle" /\ pc' \in [Loops -> Places]
        /\ \A u \in Loops : u # t => pc'[u] = pc[u]
    BY <2>1, Parts, GotoFacts DEF Typed, Places
  <2>3. Typed'
    BY <1>1, <2>1, <2>2, Parts DEF Typed
  <2>4. JobsSettle'
    BY <1>1, <2>1, <2>2, Parts, SettleKept DEF JobsSettle
  <2>5. ASSUME NEW m \in Loops, AloneOn(m) PROVE LimitKept(m)' /\ JobsKept(m)'
    <3>1. t = m
      BY <1>1, <2>5, WhoRuns
    <3>2. LimitKept(m)'
      BY <1>1, <2>2, <2>5, <3>1, LimitStays
    <3>3. \A i \in Jobs : ~Held(i, m)' /\ ~Held(i, m)
      BY <1>1, <2>1, <2>2, <3>1 DEF Held
    <3>4. JobsKept(m)'
      BY <1>1, <2>1, <2>2, <2>5, <3>1, <3>3, JobsStay
    <3> QED
      BY <3>2, <3>4
  <2> QED
    BY <1>2, <2>3, <2>4, <2>5, Together
<1>4. CASE queued # <<>>
  <2>1. Goto(t, from, "startNext") /\ job' = [job EXCEPT ![t] = Head(queued)] /\ queued' = Tail(queued)
    BY <1>4 DEF PopLeft
  <2>2. /\ pc'[t] = "startNext" /\ pc' \in [Loops -> Places]
        /\ \A u \in Loops : u # t => pc'[u] = pc[u]
    BY <2>1, Parts, GotoFacts DEF Typed, Places
  <2>3. queued' \in Seq(Jobs) /\ Without(queued, 1, queued') /\ Head(queued) = queued[1]
    BY <1>4, <2>1, Parts, TailIsWithout
  <2>4. 1 \in DOMAIN queued
    BY <2>3 DEF Without
  <2>5. PICK j \in Jobs : j = queued[1] /\ Taken(j)
    BY <2>4, Parts DEF JobsSettle
  <2>6. /\ job' \in [Loops -> Jobs \cup {None}] /\ job'[t] = j
        /\ \A u \in Loops : u # t => job'[u] = job[u]
    BY <2>1, <2>3, <2>5, Parts DEF Typed
  <2>7. Typed'
    BY <1>1, <2>2, <2>3, <2>6, Parts DEF Typed
  <2>8. JobsSettle'
    <3>1. \A i \in DOMAIN queued' : \E n \in DOMAIN queued : queued'[i] = queued[n]
      BY <2>3, WithoutProperties
    <3>2. \A i \in DOMAIN queued' : Taken(queued'[i])
      BY <3>1, Parts DEF JobsSettle
    <3> QED
      BY <1>1, <2>2, <2>5, <2>6, <3>2, Parts, SettleKept DEF JobsSettle
  <2>9. ASSUME NEW m \in Loops, AloneOn(m) PROVE LimitKept(m)' /\ JobsKept(m)'
    <3>1. t = m
      BY <1>1, <2>9, WhoRuns
    <3>2. active < Conc
      BY <1>1, <2>9, <3>1, Parts DEF LimitKept
    <3>3. LimitKept(m)'
      BY <1>1, <2>2, <2>9, <3>1, <3>2, LimitStays
    <3>4. JobsKept(m)'
      BY <1>1, <2>2, <2>3, <2>4, <2>5, <2>6, <2>9, <3>1, JobsTaken
    <3> QED
      BY <3>3, <3>4
  <2> QED
    BY <1>2, <2>7, <2>8, <2>9, Together
<1> QED
  BY <1>3, <1>4

(* The iterator yields a job.                                              *)
LEMMA ScanNextKeeps ==
  ASSUME LaneInv, NEW t \in Loops, ScanNext(t), setup' = setup
  PROVE  LaneInv'
<1>1. /\ Goto(t, "next", "compare") /\ job' = [job EXCEPT ![t] = queued[at[t]]]
      /\ queued = seen[t] /\ at[t] <= Len(queued)
      /\ UNCHANGED <<active, queued, last, spare, seen, at, fate, up, starts>>
  BY DEF ScanNext
<1>2. /\ pc[t] = "next" /\ pc'[t] = "compare" /\ pc' \in [Loops -> Places]
      /\ \A u \in Loops : u # t => pc'[u] = pc[u]
  BY <1>1, Parts, GotoFacts DEF Typed, Places
<1>3. at[t] \in DOMAIN queued
  BY <1>1, <1>2, Parts DEF JobsSettle, Typed
<1>4. PICK j \in Jobs : j = queued[at[t]] /\ Taken(j)
  BY <1>3, Parts DEF JobsSettle
<1>5. /\ job' \in [Loops -> Jobs \cup {None}] /\ job'[t] = j
      /\ \A u \in Loops : u # t => job'[u] = job[u]
  BY <1>1, <1>4, Parts DEF Typed
<1>6. Typed' /\ UpFits'
  BY <1>1, <1>2, <1>5, Parts DEF Typed, UpFits
<1>7. JobsSettle'
  BY <1>1, <1>2, <1>4, <1>5, Parts, SettleKept DEF JobsSettle
<1>8. ASSUME NEW m \in Loops, AloneOn(m) PROVE LimitKept(m)' /\ JobsKept(m)'
  <2>1. t = m
    BY <1>2, <1>8, WhoRuns
  <2>2. active < Conc
    BY <1>2, <1>8, <2>1, Parts DEF LimitKept
  <2>3. LimitKept(m)'
    BY <1>1, <1>2, <1>8, <2>1, <2>2, LimitStays
  <2>4. \A i \in Jobs : ~Held(i, m)' /\ ~Held(i, m)
    BY <1>2, <2>1 DEF Held
  <2>5. JobsKept(m)'
    BY <1>1, <1>2, <1>4, <1>5, <1>8, <2>1, <2>4, JobsStay
  <2> QED
    BY <2>3, <2>5
<1> QED
  BY <1>6, <1>7, <1>8, Together

(* The iterator finds that the queue has changed.                          *)
LEMMA ScanRaisesKeeps ==
  ASSUME LaneInv, NEW t \in Loops, ScanRaises(t), setup' = setup
  PROVE  LaneInv'
<1>1. /\ Goto(t, "next", "idle")
      /\ UNCHANGED <<active, queued, last, job, spare, seen, at, fate, up, starts>>
  BY DEF ScanRaises
<1>2. /\ pc[t] = "next" /\ pc'[t] = "idle" /\ pc' \in [Loops -> Places]
      /\ \A u \in Loops : u # t => pc'[u] = pc[u]
  BY <1>1, Parts, GotoFacts DEF Typed, Places
<1>3. Typed' /\ UpFits'
  BY <1>1, <1>2, Parts DEF Typed, UpFits
<1>4. JobsSettle'
  BY <1>1, <1>2, Parts, SettleKept DEF JobsSettle
<1>5. ASSUME NEW m \in Loops, AloneOn(m) PROVE LimitKept(m)' /\ JobsKept(m)'
  <2>1. t = m
    BY <1>2, <1>5, WhoRuns
  <2>2. LimitKept(m)'
    BY <1>1, <1>2, <1>5, <2>1, LimitStays
  <2>3. \A i \in Jobs : ~Held(i, m)' /\ ~Held(i, m)
    BY <1>2, <2>1 DEF Held
  <2>4. JobsKept(m)'
    BY <1>1, <1>2, <1>5, <2>1, <2>3, JobsStay
  <2> QED
    BY <2>2, <2>4
<1> QED
  BY <1>3, <1>4, <1>5, Together

(* A job of the last project is passed over; another one is taken out.     *)
LEMMA CompareKeeps ==
  ASSUME LaneInv, NEW t \in Loops, Compare(t), setup' = setup
  PROVE  LaneInv'
<1>1. UNCHANGED <<active, last, job, spare, seen, fate, up, starts>> /\ pc[t] = "compare"
  BY DEF Compare
<1>2. UpFits'
  BY <1>1, Parts DEF UpFits
<1>3. at[t] \in Nat /\ at[t] >= 1 /\ job[t] \in Jobs /\ Taken(job[t])
  BY <1>1, Parts DEF Typed, JobsSettle
<1>4. CASE Goto(t, "compare", "next") /\ at' = [at EXCEPT ![t] = @ + 1] /\ UNCHANGED queued
  <2>1. PICK n \in Nat : n = at[t] + 1 /\ n >= 1
    BY <1>3
  <2>2. /\ at' \in [Loops -> Nat] /\ at'[t] = n
        /\ \A u \in Loops : u # t => at'[u] = at[u]
    BY <1>4, <2>1, Parts DEF Typed
  <2>3. /\ pc'[t] = "next" /\ pc' \in [Loops -> Places]
        /\ \A u \in Loops : u # t => pc'[u] = pc[u]
    BY <1>4, Parts, GotoFacts DEF Typed, Places
  <2>4. Typed'
    BY <1>1, <1>4, <2>2, <2>3, Parts DEF Typed
  <2>5. JobsSettle'
    <3>1. \A u \in Loops : pc'[u] \in {"next", "compare"} => at'[u] >= 1
      BY <2>1, <2>2, <2>3, Parts DEF JobsSettle
    <3> QED
      BY <1>1, <1>4, <2>3, <3>1, Parts, SettleKept DEF JobsSettle
  <2>6. ASSUME NEW m \in Loops, AloneOn(m) PROVE LimitKept(m)' /\ JobsKept(m)'
    <3>1. t = m
      BY <1>1, <2>6, WhoRuns
    <3>2. active < Conc
      BY <1>1, <2>6, <3>1, Parts DEF LimitKept
    <3>3. LimitKept(m)'
      BY <1>1, <2>3, <2>6, <3>1, <3>2, LimitStays
    <3>4. \A i \in Jobs : ~Held(i, m)' /\ ~Held(i, m)
      BY <1>1, <2>3, <3>1 DEF Held
    <3>5. JobsKept(m)'
      BY <1>1, <1>4, <2>3, <2>6, <3>1, <3>4, JobsStay
    <3> QED
      BY <3>3, <3>5
  <2> QED
    BY <1>2, <2>4, <2>5, <2>6, Together
<1>5. CASE Goto(t, "compare", "idle") /\ UNCHANGED <<at, queued>>
  <2>1. /\ pc'[t] = "idle" /\ pc' \in [Loops -> Places]
        /\ \A u \in Loops : u # t => pc'[u] = pc[u]
    BY <1>5, Parts, GotoFacts DEF Typed, Places
  <2>2. Typed'
    BY <1>1, <1>5, <2>1, Parts DEF Typed
  <2>3. JobsSettle'
    BY <1>1, <1>5, <2>1, Parts, SettleKept DEF JobsSettle
  <2>4. ASSUME NEW m \in Loops, AloneOn(m) PROVE LimitKept(m)' /\ JobsKept(m)'
    <3>1. t = m
      BY <1>1, <2>4, WhoRuns
    <3>2. LimitKept(m)'
      BY <1>1, <2>1, <2>4, <3>1, LimitStays
    <3>3. \A i \in Jobs : ~Held(i, m)' /\ ~Held(i, m)
      BY <1>1, <2>1, <3>1 DEF Held
    <3>4. JobsKept(m)'
      BY <1>1, <1>5, <2>1, <2>4, <3>1, <3>3, JobsStay
    <3> QED
      BY <3>2, <3>4
  <2> QED
    BY <1>2, <2>2, <2>3, <2>4, Together
<1>6. CASE /\ at[t] <= Len(queued) /\ Goto(t, "compare", "startNext")
           /\ queued' = Picked(t) /\ UNCHANGED at
  <2>1. /\ pc'[t] = "startNext" /\ pc' \in [Loops -> Places]
        /\ \A u \in Loops : u # t => pc'[u] = pc[u]
    BY <1>6, Parts, GotoFacts DEF Typed, Places
  <2>2. at[t] \in DOMAIN queued
    BY <1>3, <1>6, Parts
  <2>3. queued' \in Seq(Jobs) /\ Without(queued, at[t], queued')
    BY <1>6, <2>2, Parts, RemovalIsWithout DEF Picked
  <2>4. Typed'
    BY <1>1, <1>6, <2>1, <2>3, Parts DEF Typed
  <2>5. JobsSettle'
    <3>1. \A i \in DOMAIN queued' : \E n \in DOMAIN queued : queued'[i] = queued[n]
      BY <2>3, WithoutProperties
    <3>2. \A i \in DOMAIN queued' : Taken(queued'[i])
      BY <3>1, Parts DEF JobsSettle
    <3> QED
      BY <1>1, <1>3, <1>6, <2>1, <3>2, Parts, SettleKept DEF JobsSettle
  <2>6. ASSUME NEW m \in Loops, AloneOn(m) PROVE LimitKept(m)' /\ JobsKept(m)'
    <3>1. t = m
      BY <1>1, <2>6, WhoRuns
    <3>2. active < Conc /\ job[m] = queued[at[m]]
      BY <1>1, <2>6, <3>1, Parts DEF LimitKept, JobsKept
    <3>3. LimitKept(m)'
      BY <1>1, <2>1, <2>6, <3>1, <3>2, LimitStays
    <3>4. JobsKept(m)'
      BY <1>1, <2>1, <2>2, <2>3, <2>6, <3>1, <3>2, JobsTaken
    <3> QED
      BY <3>3, <3>4
  <2> QED
    BY <1>2, <2>4, <2>5, <2>6, Together
<1>7. ~(at[t] > Len(queued)) => at[t] <= Len(queued)
  BY <1>3, Parts
<1> QED
  BY <1>4, <1>5, <1>6, <1>7 DEF Compare

(* The invariant holds at first,                                           *)
LEMMA InitHolds == Init => LaneInv
<1> SUFFICES ASSUME Init PROVE LaneInv
  OBVIOUS
<1>1. /\ active = 0 /\ queued = <<>> /\ up = {}
      /\ pc = [t \in Loops |-> "idle"] /\ job = [t \in Loops |-> None]
      /\ spare = [t \in Loops |-> 0] /\ seen = [t \in Loops |-> <<>>] /\ at = [t \in Loops |-> 0]
      /\ fate = [j \in Jobs |-> "new"] /\ starts = [j \in Jobs |-> 0]
  BY DEF Init
<1>2. setup \in [loopOf : [Jobs -> Loops], conc : Nat \ {0}] /\ Conc \in Nat \ {0}
  BY LaneAssumption DEF Init, Conc
<1>3. IsFiniteSet(up) /\ Cardinality(up) = 0
  BY <1>1, FS_EmptySet
<1>4. queued \in Seq(Jobs) /\ DOMAIN queued = {}
  BY <1>1
<1>5. Typed
  BY <1>1, <1>2, <1>3, <1>4 DEF Typed, Places, Fates
<1>6. UpFits /\ JobsSettle
  BY <1>1, <1>4 DEF UpFits, JobsSettle
<1>7. ASSUME NEW m \in Loops PROVE LimitKept(m) /\ JobsKept(m)
  <2>1. LimitKept(m)
    BY <1>1, <1>2, <1>3 DEF LimitKept
  <2>2. \A j : ~InQueue(j) /\ ~Held(j, m)
    BY <1>1, <1>4 DEF InQueue, Held
  <2>3. JobsKept(m)
    BY <1>1, <1>4, <2>2 DEF JobsKept
  <2> QED
    BY <2>1, <2>3
<1> QED
  BY <1>5, <1>6, <1>7 DEF LaneInv

(* every step of a loop keeps it,                                          *)
LEMMA StepKeeps ==
  ASSUME LaneInv, NEW t \in Loops, Step(t), setup' = setup
  PROVE  LaneInv'
<1>1. ASSUME NEW j \in Jobs, SubmitTest(t, j) PROVE LaneInv'
  BY <1>1, SubmitTestKeeps
<1>2. CASE SubmitRoom(t)
  BY <1>2, SubmitRoomKeeps
<1>3. CASE SubmitAppend(t)
  BY <1>3, SubmitAppendKeeps
<1>4. CASE Start(t)
  <2>1. CASE StartFrom(t, "start", "idle")
    BY <2>1, StartKeeps
  <2>2. CASE StartFrom(t, "startNext", "drain")
    BY <2>2, StartKeeps
  <2> QED
    BY <1>4, <2>1, <2>2 DEF Start
<1>5. CASE Done(t)
  BY <1>5, DoneKeeps
<1>6. CASE Store(t)
  BY <1>6, StoreKeeps
<1>7. CASE Drain(t)
  BY <1>7, DrainKeeps
<1>8. CASE Pop(t)
  BY <1>8, PopKeeps
<1>9. CASE PopOnly(t)
  BY <1>9, PopLeftKeeps DEF PopOnly
<1>10. CASE ScanNext(t)
  BY <1>10, ScanNextKeeps
<1>11. CASE ScanRaises(t)
  BY <1>11, ScanRaisesKeeps
<1>12. CASE ScanEnds(t)
  BY <1>12, PopLeftKeeps DEF ScanEnds
<1>13. CASE Compare(t)
  BY <1>13, CompareKeeps
<1> QED
  BY <1>1, <1>2, <1>3, <1>4, <1>5, <1>6, <1>7, <1>8, <1>9, <1>10, <1>11, <1>12, <1>13 DEF Step

(* and so does a step that changes nothing.                                *)
LEMMA StutterKeeps ==
  ASSUME LaneInv, UNCHANGED vars
  PROVE  LaneInv'
<1>1. UNCHANGED <<setup, active, queued, last, pc, job, spare, seen, at, fate, starts, up>>
  BY DEF vars
<1>2. Typed' /\ UpFits'
  BY <1>1, Parts DEF Typed, UpFits
<1>3. JobsSettle'
  BY <1>1, Parts, SettleKept DEF JobsSettle
<1>4. \A m \in Loops : AloneOn(m) => LimitKept(m)' /\ JobsKept(m)'
  BY <1>1, Parts, SameSetup DEF LimitKept, JobsKept, InQueue, Held
<1> QED
  BY <1>1, <1>2, <1>3, <1>4, Together

(* The inductive invariant: what the lane and the loops that call into it  *)
(* agree on wherever CPython switches threads (_submit_lane_job,           *)
(* _start_lane_job, _on_background_task_done, _drain_lane,                 *)
(* _pop_next_lane_job).                                                    *)
THEOREM LaneInvariant == Spec => []LaneInv
<1>1. Init => LaneInv
  BY InitHolds
<1>2. LaneInv /\ [Next]_vars => LaneInv'
  BY StepKeeps, StutterKeeps DEF Next
<1> QED
  BY <1>1, <1>2, PTL DEF Spec

(* active is the number of wrappers, or one more before it is stored.      *)
LEMMA LimitFromInv ==
  ASSUME LaneInv
  PROVE  LimitHeldAlone
<1> SUFFICES ASSUME NEW m \in Loops, AloneOn(m) PROVE Cardinality(up) <= Conc
  BY DEF LimitHeldAlone, Alone, AloneOn, ConcurrencyEnforced
<1>1. LimitKept(m) /\ Conc \in Nat /\ Cardinality(up) \in Nat
  BY Parts
<1>2. CASE pc[m] = "store"
  BY <1>1, <1>2 DEF LimitKept
<1>3. CASE pc[m] # "store"
  BY <1>1, <1>3 DEF LimitKept
<1> QED
  BY <1>2, <1>3

(* When one event loop submits all jobs, the lane never runs more wrappers *)
(* than its concurrency, wherever CPython switches threads (the check of   *)
(* lane.active in _submit_lane_job and _drain_lane).                       *)
THEOREM LimitHolds == Spec => []LimitHeldAlone
BY LaneInvariant, LimitFromInv, PTL

(* The loop that runs alone holds a job, or nobody does.                   *)
LEMMA HandlingAlone ==
  ASSUME LaneInv, NEW m \in Loops, AloneOn(m), NEW j \in Jobs
  PROVE  Cardinality(Handling(j)) = IF Held(j, m) THEN 1 ELSE 0
<1>1. \A t \in Loops : t # m => pc[t] = "idle"
  BY Parts DEF LimitKept
<1>2. CASE Held(j, m)
  <2>1. Handling(j) = {m}
    BY <1>1, <1>2 DEF Handling, Held
  <2> QED
    BY <1>2, <2>1, FS_Singleton
<1>3. CASE ~Held(j, m)
  <2>1. Handling(j) = {}
    BY <1>1, <1>3 DEF Handling, Held
  <2> QED
    BY <1>3, <2>1, FS_EmptySet
<1> QED
  BY <1>2, <1>3

(* A job is queued once or not at all.                                     *)
LEMMA PlacesInQueue ==
  ASSUME LaneInv, NEW m \in Loops, AloneOn(m), NEW j \in Jobs
  PROVE  Cardinality({i \in DOMAIN queued : queued[i] = j}) = IF InQueue(j) THEN 1 ELSE 0
<1> DEFINE places == {i \in DOMAIN queued : queued[i] = j}
<1>1. CASE InQueue(j)
  <2>1. PICK i \in DOMAIN queued : queued[i] = j
    BY <1>1 DEF InQueue
  <2>2. places = {i}
    BY <2>1, Parts DEF JobsKept
  <2> QED
    BY <1>1, <2>2, FS_Singleton
<1>2. CASE ~InQueue(j)
  <2>1. places = {}
    BY <1>2 DEF InQueue
  <2> QED
    BY <1>2, <2>1, FS_EmptySet
<1> QED
  BY <1>1, <1>2

(* What the invariant says of a job, counted.                              *)
LEMMA AcceptedFromInv ==
  ASSUME LaneInv
  PROVE  AcceptedOnce
<1>1. ASSUME NEW m \in Loops, AloneOn(m), NEW j \in Jobs, fate[j] = "accepted"
      PROVE  starts[j] + Cardinality({i \in DOMAIN queued : queued[i] = j})
               + Cardinality(Handling(j)) = 1
  <2> DEFINE inQueue == Cardinality({i \in DOMAIN queued : queued[i] = j})
             held == Cardinality(Handling(j))
  <2>1. inQueue = (IF InQueue(j) THEN 1 ELSE 0) /\ held = (IF Held(j, m) THEN 1 ELSE 0)
    BY <1>1, HandlingAlone, PlacesInQueue
  <2>2. \/ starts[j] = 1 /\ ~InQueue(j) /\ ~Held(j, m)
        \/ starts[j] = 0 /\ InQueue(j) /\ ~Held(j, m)
        \/ starts[j] = 0 /\ ~InQueue(j) /\ Held(j, m)
    BY <1>1, Parts DEF JobsKept
  <2> HIDE DEF inQueue, held
  <2>3. starts[j] + inQueue + held = 1
    BY <2>1, <2>2
  <2> QED
    BY <2>3 DEF inQueue, held
<1>2. ASSUME NEW j \in Jobs, fate[j] = "rejected" PROVE starts[j] = 0
  <2>1. ~Taken(j) /\ starts[j] \in Nat
    BY <1>2, Parts DEF Taken, Typed
  <2> QED
    BY <2>1, Parts DEF JobsSettle
<1> QED
  BY <1>1, <1>2 DEF AcceptedOnce, Alone, AloneOn

(* When one event loop submits all jobs, a job that was accepted is        *)
(* started once, and is in the queue once or in the loop's hands until     *)
(* then; with any number of loops a job that was refused is never started  *)
(* (_submit_lane_job, _pop_next_lane_job).                                 *)
THEOREM AcceptedJobsOnce == Spec => []AcceptedOnce
BY LaneInvariant, AcceptedFromInv, PTL

----------------------------------------------------------------------------
(* What the lane promises.                                                 *)

(* A job some wrapper runs was started.                                    *)
Runs(j) == \E w \in up : w[1] = j

LEMMA RunsStarted ==
  ASSUME LaneInv, NEW j \in Jobs, Runs(j)
  PROVE  starts[j] > 0 /\ fate[j] = "accepted"
<1>1. PICK w \in up : w[1] = j /\ w[2] \in Nat /\ 1 <= w[2] /\ w[2] <= starts[j] /\ starts[j] \in Nat
  BY Parts DEF Runs, UpFits, Typed
<1>2. starts[j] > 0
  BY <1>1
<1> QED
  BY <1>2, Parts DEF JobsSettle, Taken

(* Where a job of the loop that submits alone is.                          *)
LEMMA StateAlone ==
  ASSUME LaneInv, NEW m \in Loops, AloneOn(m), NEW j \in Jobs
  PROVE  /\ Runs(j) => StateOf(j) = "running"
         /\ ~Runs(j) /\ (starts[j] > 0 \/ fate[j] = "rejected") => StateOf(j) = "over"
         /\ starts[j] = 0 /\ fate[j] # "rejected" =>
              StateOf(j) = IF InQueue(j) \/ (pc[m] = "startNext" /\ job[m] = j)
                           THEN "waiting" ELSE "new"
<1>1. \A t \in Loops : t # m => pc[t] = "idle"
  BY Parts DEF LimitKept
<1>2. Waits(j) <=> InQueue(j) \/ (pc[m] = "startNext" /\ job[m] = j)
  BY <1>1 DEF Waits, InQueue
<1>3. Runs(j) => starts[j] > 0
  BY RunsStarted
<1>4. starts[j] \in Nat
  BY Parts DEF Typed
<1> QED
  BY <1>2, <1>3, <1>4 DEF StateOf, Runs

(* The jobs that run are no more than the wrappers.                        *)
LEMMA RunningBound ==
  ASSUME LaneInv
  PROVE  /\ IsFiniteSet(Promise!Running("lane"))
         /\ Cardinality(Promise!Running("lane")) <= Cardinality(up)
<1> DEFINE R == Promise!Running("lane")
           f == [w \in up |-> w[1]]
<1>1. \A j \in Jobs : j \in R <=> Runs(j)
  BY DEF Promise!Running, StateOf, Runs
<1>2. R \subseteq Jobs /\ \A w \in up : w[1] \in Jobs
  BY Parts DEF Promise!Running, Typed
<1>3. f \in Surjection(up, R)
  BY <1>1, <1>2 DEF Runs, Surjection
<1> QED
  BY <1>3, Parts, FS_Surjection

(* One job moves, or none does.                                            *)
LEMMA OneMoves ==
  ASSUME setup' = setup, NEW j \in Jobs, NEW s, StateOf(j)' = s,
         \A i \in Jobs : i # j => StateOf(i)' = StateOf(i)
  PROVE  Promise!Becomes(j, s)
<1>1. Conc' = Conc
  BY SameSetup
<1> HIDE DEF StateOf, Conc
<1>2. [i \in Jobs |-> StateOf(i)]' = [[i \in Jobs |-> StateOf(i)] EXCEPT ![j] = s]
  OBVIOUS
<1> QED
  BY <1>1, <1>2 DEF Promise!Becomes

LEMMA NoneMoves ==
  ASSUME setup' = setup, \A i \in Jobs : StateOf(i)' = StateOf(i)
  PROVE  UNCHANGED Promise!vars
<1>1. Conc' = Conc
  BY SameSetup
<1> QED
  BY <1>1 DEF Promise!vars

(* Job j waits in the queue or in the hands of loop m, which took it out.  *)
Waiting(j, m) == InQueue(j) \/ (pc[m] = "startNext" /\ job[m] = j)

(* Nothing starts, ends, is refused, queued or taken back.                 *)
LEMMA Steady ==
  ASSUME LaneInv, NEW m \in Loops, AloneOn(m), setup' = setup, up' = up, starts' = starts,
         \A u \in Loops : u # m => pc'[u] = pc[u],
         NEW j \in Jobs, fate'[j] = "rejected" <=> fate[j] = "rejected",
         Waiting(j, m)' <=> Waiting(j, m)
  PROVE  StateOf(j)' = StateOf(j)
<1>1. \A u \in Loops : u # m => pc[u] = "idle"
  BY Parts DEF LimitKept
<1>2. Waits(j) <=> Waiting(j, m)
  BY <1>1 DEF Waits, Waiting, InQueue
<1>3. Waits(j)' <=> Waiting(j, m)'
  BY <1>1 DEF Waits, Waiting, InQueue
<1> QED
  BY <1>2, <1>3 DEF StateOf

(* The k-th job leaves the queue into the hands of the loop.               *)
LEMMA StillWaiting ==
  ASSUME NEW m, NEW k \in DOMAIN queued, Without(queued, k, queued'), pc[m] # "startNext",
         pc'[m] = "startNext", job'[m] = queued[k], NEW j
  PROVE  Waiting(j, m)' <=> Waiting(j, m)
<1>1. /\ \A i \in DOMAIN queued' : \E n \in DOMAIN queued : queued'[i] = queued[n]
      /\ \A n \in DOMAIN queued : n # k => \E i \in DOMAIN queued' : queued'[i] = queued[n]
  BY WithoutProperties
<1> QED
  BY <1>1 DEF Waiting, InQueue

(* A submission that tests the limit, or finds room, is not yet accepted;  *)
(* refusing it is one step of the promise.                                 *)
LEMMA SubmitTestSilent ==
  ASSUME LaneInv, NEW m \in Loops, AloneOn(m), setup' = setup, NEW j \in Jobs, SubmitTest(m, j)
  PROVE  UNCHANGED Promise!vars
<1>1. /\ Goto(m, "idle", IF HasSlot THEN "start" ELSE "room")
      /\ fate[j] = "new" /\ fate' = [fate EXCEPT ![j] = "accepted"]
      /\ UNCHANGED <<queued, up, starts>>
  BY DEF SubmitTest
<1>2. /\ pc[m] = "idle" /\ pc'[m] \in {"start", "room"}
      /\ \A u \in Loops : u # m => pc'[u] = pc[u]
  BY <1>1, Parts, GotoFacts DEF Typed, Places
<1>3. \A i \in Jobs : fate'[i] = "rejected" <=> fate[i] = "rejected"
  BY <1>1, Parts DEF Typed
<1>4. \A i : Waiting(i, m)' <=> Waiting(i, m)
  BY <1>1, <1>2 DEF Waiting, InQueue
<1> QED
  BY <1>1, <1>2, <1>3, <1>4, Steady, NoneMoves

LEMMA SubmitRoomRefuses ==
  ASSUME LaneInv, NEW m \in Loops, AloneOn(m), setup' = setup, SubmitRoom(m)
  PROVE  (\E j \in Jobs : Promise!Refuse(j)) \/ UNCHANGED Promise!vars
<1>1. UNCHANGED <<queued, job, up, starts>> /\ pc[m] = "room"
  BY DEF SubmitRoom, Goto
<1>2. PICK j \in Jobs : j = job[m] /\ fate[j] = "accepted"
  BY <1>1, Parts DEF JobsSettle
<1>3. Held(j, m) /\ starts[j] = 0 /\ ~InQueue(j) /\ ~Runs(j)
  <2>1. Held(j, m)
    BY <1>1, <1>2 DEF Held
  <2>2. starts[j] = 0 /\ ~InQueue(j)
    BY <1>2, <2>1, Parts DEF JobsKept
  <2> QED
    BY <2>1, <2>2, RunsStarted
<1>4. CASE Goto(m, "room", "idle") /\ fate' = [fate EXCEPT ![job[m]] = "rejected"]
  <2>1. pc'[m] = "idle" /\ \A u \in Loops : u # m => pc'[u] = pc[u]
    BY <1>4, Parts, GotoFacts DEF Typed, Places
  <2>2. fate'[j] = "rejected" /\ \A i \in Jobs : i # j => fate'[i] = fate[i]
    BY <1>2, <1>4, Parts DEF Typed
  <2>3. \A i : Waiting(i, m)' <=> Waiting(i, m)
    BY <1>1, <2>1 DEF Waiting, InQueue
  <2>4. \A i \in Jobs : i # j => StateOf(i)' = StateOf(i)
    BY <1>1, <2>1, <2>2, <2>3, Steady
  <2>5. StateOf(j) = "new"
    BY <1>1, <1>2, <1>3, StateAlone
  <2>6. StateOf(j)' = "over"
    BY <1>1, <1>3, <2>2 DEF StateOf, Runs
  <2>7. Promise!Becomes(j, "over")
    BY <2>4, <2>6, OneMoves
  <2> QED
    BY <2>5, <2>7 DEF Promise!Refuse
<1>5. CASE Goto(m, "room", "append") /\ fate' = fate
  <2>1. pc'[m] = "append" /\ \A u \in Loops : u # m => pc'[u] = pc[u]
    BY <1>5, Parts, GotoFacts DEF Typed, Places
  <2>2. \A i : Waiting(i, m)' <=> Waiting(i, m)
    BY <1>1, <2>1 DEF Waiting, InQueue
  <2> QED
    BY <1>1, <1>5, <2>1, <2>2, Steady, NoneMoves
<1> QED
  BY <1>4, <1>5 DEF SubmitRoom

(* Queueing the job accepts it.                                            *)
LEMMA SubmitAppendAccepts ==
  ASSUME LaneInv, NEW m \in Loops, AloneOn(m), setup' = setup, SubmitAppend(m)
  PROVE  \E j \in Jobs : Promise!Accept(j)
<1>1. /\ Goto(m, "append", "idle") /\ queued' = Append(queued, job[m])
      /\ UNCHANGED <<job, fate, up, starts>>
  BY DEF SubmitAppend
<1>2. /\ pc[m] = "append" /\ pc'[m] = "idle"
      /\ \A u \in Loops : u # m => pc'[u] = pc[u]
  BY <1>1, Parts, GotoFacts DEF Typed, Places
<1>3. PICK j \in Jobs : j = job[m] /\ Taken(j)
  BY <1>2, Parts DEF JobsSettle
<1>4. /\ DOMAIN queued' = DOMAIN queued \cup {Len(queued) + 1}
      /\ \A n \in DOMAIN queued : queued'[n] = queued[n]
      /\ queued'[Len(queued) + 1] = j
  BY <1>1, <1>3, Parts, AppendFacts
<1>5. fate[j] = "accepted" /\ starts[j] = 0 /\ ~InQueue(j) /\ ~Runs(j)
  <2>1. Held(j, m)
    BY <1>2, <1>3 DEF Held
  <2>2. fate[j] = "accepted" /\ starts[j] = 0 /\ ~InQueue(j)
    BY <1>3, <2>1, Parts DEF JobsKept, Taken
  <2> QED
    BY <2>2, RunsStarted
<1>6. \A i : InQueue(i)' <=> InQueue(i) \/ i = j
  BY <1>4 DEF InQueue
<1>7. \A i \in Jobs : i # j => StateOf(i)' = StateOf(i)
  BY <1>1, <1>2, <1>6, Steady DEF Waiting
<1>8. StateOf(j) = "new"
  BY <1>2, <1>5, StateAlone
<1>9. StateOf(j)' = "waiting"
  <2>1. Waits(j)'
    BY <1>6 DEF Waits, InQueue
  <2> QED
    BY <1>1, <1>5, <2>1 DEF StateOf, Runs
<1> QED
  BY <1>7, <1>8, <1>9, OneMoves DEF Promise!Accept

(* A job starts only while fewer run than the limit.                       *)
LEMMA StartRuns ==
  ASSUME LaneInv, NEW m \in Loops, AloneOn(m), setup' = setup, Start(m)
  PROVE  \E j \in Jobs : Promise!Run(j)
<1>1. PICK from \in {"start", "startNext"}, to \in {"idle", "drain"} : StartFrom(m, from, to)
  BY DEF Start
<1>2. /\ Goto(m, from, to) /\ starts' = [starts EXCEPT ![job[m]] = @ + 1]
      /\ up' = up \cup {<<job[m], starts[job[m]] + 1, m>>}
      /\ UNCHANGED <<queued, job, fate>>
  BY <1>1 DEF StartFrom
<1>3. /\ pc[m] = from /\ pc'[m] = to
      /\ \A u \in Loops : u # m => pc'[u] = pc[u]
  BY <1>2, Parts, GotoFacts DEF Typed, Places
<1>4. PICK j \in Jobs : j = job[m] /\ Taken(j)
  BY <1>3, Parts DEF JobsSettle
<1>5. fate[j] = "accepted" /\ starts[j] = 0
  <2>1. Held(j, m)
    BY <1>3, <1>4 DEF Held
  <2> QED
    BY <1>4, <2>1, Parts DEF JobsKept, Taken
<1>6. StateOf(j) \in {"new", "waiting"}
  BY <1>5, RunsStarted, StateAlone
<1>7. StateOf(j)' = "running"
  <2> DEFINE w == <<job[m], starts[job[m]] + 1, m>>
  <2>1. w \in up' /\ w[1] = j
    BY <1>2, <1>4
  <2> HIDE DEF w
  <2> QED
    BY <2>1 DEF StateOf
<1>8. ASSUME NEW i \in Jobs, i # j PROVE StateOf(i)' = StateOf(i)
  <2>1. (\E w \in up' : w[1] = i) <=> (\E w \in up : w[1] = i)
    BY <1>2, <1>4, <1>8
  <2>2. starts'[i] = starts[i] /\ fate' = fate
    BY <1>2, <1>4, <1>8, Parts DEF Typed
  <2>3. \A u \in Loops : u # m => pc[u] = "idle"
    BY Parts DEF LimitKept
  <2>4. Waits(i)' <=> Waits(i)
    BY <1>2, <1>3, <1>4, <1>8, <2>3 DEF Waits
  <2> QED
    BY <2>1, <2>2, <2>4 DEF StateOf
<1>9. Cardinality(Promise!Running("lane")) < Conc
  <2>1. Cardinality(up) < Conc /\ Conc \in Nat /\ Cardinality(up) \in Nat
    BY <1>3, Parts DEF LimitKept
  <2>2. Cardinality(Promise!Running("lane")) <= Cardinality(up)
    BY RunningBound
  <2>3. Cardinality(Promise!Running("lane")) \in Nat
    BY RunningBound, FS_CardinalityType
  <2> QED
    BY <2>1, <2>2, <2>3
<1>10. Promise!Becomes(j, "running")
  BY <1>7, <1>8, OneMoves
<1> QED
  BY <1>6, <1>9, <1>10 DEF Promise!Run, Promise!Cardinality, Cardinality

(* A job ends with its wrapper: it has no other.                           *)
LEMMA DoneEnds ==
  ASSUME LaneInv, NEW m \in Loops, AloneOn(m), setup' = setup, Done(m)
  PROVE  \E j \in Jobs : Promise!End(j)
<1>1. Goto(m, "idle", "store") /\ UNCHANGED <<queued, job, fate, starts>>
  BY DEF Done
<1>2. PICK w \in up : up' = up \ {w}
  BY DEF Done
<1>3. /\ pc[m] = "idle" /\ pc'[m] = "store"
      /\ \A u \in Loops : u # m => pc'[u] = pc[u]
  BY <1>1, Parts, GotoFacts DEF Typed, Places
<1>4. PICK j \in Jobs : j = w[1]
  BY Parts DEF Typed
<1>5. \A x \in up : x[1] = j => x = w
  <2>1. fate[j] = "accepted" /\ starts[j] > 0
    BY <1>4, RunsStarted DEF Runs
  <2>2. starts[j] = 1
    BY <2>1, Parts DEF JobsKept
  <2>3. ASSUME NEW x \in up, x[1] = j PROVE x = <<j, 1, m>>
    <3>1. up \subseteq Jobs \X Nat \X Loops
      BY Parts DEF Typed
    <3>2. PICK i \in Jobs, n \in Nat, u \in Loops : x = <<i, n, u>>
      BY <3>1
    <3>3. 1 <= n /\ n <= starts[i]
      BY <3>2, Parts DEF UpFits
    <3>4. i = j /\ n = 1
      BY <2>2, <2>3, <3>2, <3>3
    <3>5. u = m
      BY <3>2, Parts DEF LimitKept
    <3> QED
      BY <3>2, <3>4, <3>5
  <2> QED
    BY <1>4, <2>3
<1>6. StateOf(j) = "running" /\ starts[j] > 0
  BY <1>4, RunsStarted, StateAlone DEF Runs
<1>7. StateOf(j)' = "over"
  BY <1>1, <1>2, <1>5, <1>6 DEF StateOf
<1>8. ASSUME NEW i \in Jobs, i # j PROVE StateOf(i)' = StateOf(i)
  <2>1. (\E x \in up' : x[1] = i) <=> (\E x \in up : x[1] = i)
    BY <1>2, <1>4, <1>8
  <2>2. \A u \in Loops : u # m => pc[u] = "idle"
    BY Parts DEF LimitKept
  <2>3. Waits(i)' <=> Waits(i)
    BY <1>1, <1>3, <2>2 DEF Waits
  <2> QED
    BY <1>1, <2>1, <2>3 DEF StateOf
<1> QED
  BY <1>6, <1>7, <1>8, OneMoves DEF Promise!End

(* No other step of the lane's code is one the promise sees.               *)
LEMMA RestSilent ==
  ASSUME LaneInv, NEW m \in Loops, AloneOn(m), setup' = setup,
         \/ Store(m) \/ Drain(m) \/ Pop(m) \/ PopOnly(m) \/ ScanNext(m) \/ ScanRaises(m)
         \/ ScanEnds(m) \/ Compare(m)
  PROVE  UNCHANGED Promise!vars
<1> SUFFICES /\ UNCHANGED <<fate, up, starts>> /\ \A u \in Loops : u # m => pc'[u] = pc[u]
             /\ \A j \in Jobs : Waiting(j, m)' <=> Waiting(j, m)
  BY Steady, NoneMoves
<1>1. UNCHANGED <<fate, up, starts>>
  BY DEF Store, Drain, Pop, PopOnly, PopLeft, ScanNext, ScanRaises, ScanEnds, Compare
<1>2. ASSUME NEW from, NEW to, Goto(m, from, to)
      PROVE  pc[m] = from /\ pc'[m] = to /\ \A u \in Loops : u # m => pc'[u] = pc[u]
  BY <1>2, Parts DEF Goto, Typed
<1>3. ASSUME NEW from, from # "startNext", NEW to, to # "startNext", Goto(m, from, to),
             queued' = queued
      PROVE  /\ \A u \in Loops : u # m => pc'[u] = pc[u]
             /\ \A j \in Jobs : Waiting(j, m)' <=> Waiting(j, m)
  BY <1>2, <1>3 DEF Waiting, InQueue
<1>4. CASE Store(m)
  BY <1>1, <1>3, <1>4 DEF Store
<1>5. CASE Drain(m)
  BY <1>1, <1>3, <1>5 DEF Drain
<1>6. CASE Pop(m)
  <2> DEFINE to == CASE queued = <<>> -> "idle"
                     [] Len(queued) = 1 -> "popOnly"
                     [] OTHER -> "next"
  <2>1. to # "startNext"
    <3>1. queued = <<>> => ~(Len(queued) = 1)
      BY Parts
    <3> QED
      BY <3>1
  <2>2. Goto(m, "pop", to) /\ queued' = queued
    BY <1>6 DEF Pop
  <2> HIDE DEF to
  <2> QED
    BY <1>1, <1>3, <2>1, <2>2
<1>7. ASSUME NEW from \in {"popOnly", "next"}, PopLeft(m, from)
      PROVE  /\ \A u \in Loops : u # m => pc'[u] = pc[u]
             /\ \A j \in Jobs : Waiting(j, m)' <=> Waiting(j, m)
  <2>1. CASE queued = <<>>
    BY <1>3, <1>7, <2>1 DEF PopLeft
  <2>2. CASE queued # <<>>
    <3>1. /\ Goto(m, from, "startNext") /\ queued' = Tail(queued)
          /\ job' = [job EXCEPT ![m] = Head(queued)]
      BY <1>7, <2>2 DEF PopLeft
    <3>2. Without(queued, 1, queued') /\ Head(queued) = queued[1]
      BY <2>2, <3>1, Parts, TailIsWithout
    <3>3. 1 \in DOMAIN queued
      BY <3>2 DEF Without
    <3>4. job'[m] = queued[1]
      BY <3>1, <3>2, Parts DEF Typed
    <3> QED
      BY <1>2, <3>1, <3>2, <3>3, <3>4, StillWaiting
  <2> QED
    BY <2>1, <2>2
<1>8. CASE PopOnly(m) \/ ScanEnds(m)
  BY <1>1, <1>7, <1>8 DEF PopOnly, ScanEnds
<1>9. CASE ScanNext(m)
  BY <1>1, <1>3, <1>9 DEF ScanNext
<1>10. CASE ScanRaises(m)
  BY <1>1, <1>3, <1>10 DEF ScanRaises
<1>11. CASE Compare(m)
  <2>1. CASE ProjectOf[job[m]] = last \/ at[m] > Len(queued)
    BY <1>1, <1>3, <1>11, <2>1 DEF Compare
  <2>2. CASE ~(ProjectOf[job[m]] = last) /\ ~(at[m] > Len(queued))
    <3>1. Goto(m, "compare", "startNext") /\ queued' = RemoveAt(queued, at[m]) /\ job' = job
      BY <1>11, <2>2 DEF Compare, Picked
    <3>2. pc[m] = "compare"
      BY <1>2, <3>1
    <3>3. at[m] \in 1..Len(queued) /\ job[m] = queued[at[m]]
      <4>1. at[m] <= Len(queued) /\ job[m] = queued[at[m]]
        BY <3>2, Parts DEF JobsKept
      <4> QED
        BY <3>2, <4>1, Parts DEF JobsSettle, Typed
    <3>4. Without(queued, at[m], queued') /\ at[m] \in DOMAIN queued
      BY <3>1, <3>3, Parts, RemovalIsWithout
    <3> QED
      BY <1>1, <1>2, <3>1, <3>2, <3>3, <3>4, StillWaiting
  <2> QED
    BY <2>1, <2>2
<1> QED
  BY <1>4, <1>5, <1>6, <1>8, <1>9, <1>10, <1>11

(* At first every job is new, and then every step of the loop that submits *)
(* alone is one of the promise or none.                                    *)
LEMMA PromiseAtFirst == Init => Promise!Init
<1> SUFFICES ASSUME Init PROVE Promise!Init
  OBVIOUS
<1>1. /\ up = {} /\ queued = <<>> /\ pc = [t \in Loops |-> "idle"]
      /\ fate = [j \in Jobs |-> "new"] /\ starts = [j \in Jobs |-> 0]
  BY DEF Init
<1>2. DOMAIN queued = {}
  BY <1>1
<1>3. \A j \in Jobs : StateOf(j) = "new"
  BY <1>1, <1>2 DEF StateOf, Waits
<1>4. Conc \in Nat \ {0}
  BY LaneAssumption DEF Init, Conc
<1> QED
  BY <1>3, <1>4 DEF Promise!Init

LEMMA PromiseStep ==
  ASSUME LaneInv, NEW m \in Loops, AloneOn(m), [Next]_vars
  PROVE  Promise!Next \/ UNCHANGED Promise!vars
<1>1. CASE UNCHANGED vars
  <2>1. setup' = setup /\ \A j \in Jobs : StateOf(j)' = StateOf(j)
    BY <1>1 DEF vars, StateOf, Waits
  <2> QED
    BY <2>1, NoneMoves
<1>2. ASSUME NEW t \in Loops, Step(t), setup' = setup
      PROVE  Promise!Next \/ UNCHANGED Promise!vars
  <2>1. t = m \/ \E j \in Jobs : SubmitTest(t, j)
    <3>1. CASE pc[t] = "idle"
      <4>1. (\E j \in Jobs : SubmitTest(t, j)) \/ Done(t)
        BY <1>2, <3>1 DEF Step, SubmitRoom, SubmitAppend, Start, StartFrom, Store, Drain, Pop,
                          PopOnly, PopLeft, ScanNext, ScanRaises, ScanEnds, Compare, Goto
      <4>2. CASE Done(t)
        BY <4>2, Parts DEF Done, LimitKept
      <4> QED
        BY <4>1, <4>2
    <3>2. CASE pc[t] # "idle"
      BY <3>2, WhoRuns
    <3> QED
      BY <3>1, <3>2
  <2>2. t = m
    BY <2>1 DEF SubmitTest, AloneOn
  <2>3. CASE \E j \in Jobs : SubmitTest(t, j)
    BY <1>2, <2>2, <2>3, SubmitTestSilent
  <2>4. CASE SubmitRoom(t)
    BY <1>2, <2>2, <2>4, SubmitRoomRefuses DEF Promise!Next
  <2>5. CASE SubmitAppend(t)
    BY <1>2, <2>2, <2>5, SubmitAppendAccepts DEF Promise!Next
  <2>6. CASE Start(t)
    BY <1>2, <2>2, <2>6, StartRuns DEF Promise!Next
  <2>7. CASE Done(t)
    BY <1>2, <2>2, <2>7, DoneEnds DEF Promise!Next
  <2>8. CASE \/ Store(t) \/ Drain(t) \/ Pop(t) \/ PopOnly(t) \/ ScanNext(t) \/ ScanRaises(t)
             \/ ScanEnds(t) \/ Compare(t)
    BY <1>2, <2>2, <2>8, RestSilent
  <2> QED
    BY <1>2, <2>3, <2>4, <2>5, <2>6, <2>7, <2>8 DEF Step
<1> QED
  BY <1>1, <1>2 DEF Next

(* When one event loop submits all jobs, the lane's code implements the    *)
(* promise, wherever CPython switches threads: a job waits, runs and is    *)
(* over at most once, is refused only before it waits, and starts only     *)
(* while fewer run than the limit (_submit_lane_job, _start_lane_job,      *)
(* _on_background_task_done, _drain_lane, _pop_next_lane_job).             *)
THEOREM LaneImplementsPromise == Spec => ImplementsPromise
<1>1. Init => Promise!Init
  BY PromiseAtFirst
<1>2. LaneInv /\ [Next]_vars => [Alone => Promise!Next]_Promise!vars
  BY PromiseStep DEF Alone, AloneOn
<1> QED
  BY <1>1, <1>2, LaneInvariant, PTL DEF Spec, ImplementsPromise
===============================================================================
