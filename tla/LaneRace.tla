------------------------------- MODULE LaneRace -------------------------------
(***************************************************************************)
(* One lane of the inline backend, at the grain at which CPython may       *)
(* switch threads.  InlineBackend.tla takes a whole lane operation as one  *)
(* step, which is right while one event loop runs them; this module asks   *)
(* what that rests on.  The lanes have no lock, and a workflow's runner    *)
(* calls the same backend from an event loop in its own thread.            *)
(*                                                                         *)
(* A thread may lose the interpreter when a Python function is entered and *)
(* when a call returns (len, max, the project_id property), so a step ends *)
(* there.  A plain attribute update such as active += 1 is one step.  The  *)
(* cancel path (_remove_queued_task) is left out.                          *)
(***************************************************************************)
EXTENDS Naturals, Sequences, SequencesExt, FiniteSets

CONSTANTS Loops,      \* the event loops that call into the lane
          Jobs,       \* the jobs submitted
          ProjectOf,  \* ProjectOf[j]: the project of job j
          None,       \* no job, no project
          Setups,     \* the lanes to check: who submits each job, the limit
          QueueLimit  \* lane.queue_limit

ASSUME LaneAssumption ==
  /\ Setups \subseteq [loopOf : [Jobs -> Loops], conc : Nat \ {0}]
  /\ None \notin Jobs
  /\ QueueLimit \in Nat

VARIABLES setup,    \* the one of Setups this behaviour is about
          active,   \* lane.active
          queued,   \* lane.queued
          last,     \* lane.last_started_project_id
          pc,       \* pc[t]: where loop t is in the lane's code
          job,      \* job[t]: the job loop t holds in a local variable
          spare,    \* spare[t]: a value computed and not stored yet
          seen,     \* seen[t]: the deque loop t's iterator started on
          at,       \* at[t]: the index that iterator is at
          fate,     \* fate[j]: new, accepted or rejected
          starts,   \* starts[j]: how many times job j was started
          up        \* wrappers not done yet, as <<job, n-th start, loop>>

vars == <<setup, active, queued, last, pc, job, spare, seen, at, fate, starts, up>>

LoopOf == setup.loopOf      \* LoopOf[j]: the loop that submits job j
Conc == setup.conc          \* lane.concurrency

Init ==
  /\ setup \in Setups
  /\ active = 0
  /\ queued = <<>>
  /\ last = None
  /\ pc = [t \in Loops |-> "idle"]
  /\ job = [t \in Loops |-> None]
  /\ spare = [t \in Loops |-> 0]
  /\ seen = [t \in Loops |-> <<>>]
  /\ at = [t \in Loops |-> 0]
  /\ fate = [j \in Jobs |-> "new"]
  /\ up = {}
  /\ starts = [j \in Jobs |-> 0]

Goto(t, from, to) == pc[t] = from /\ pc' = [pc EXCEPT ![t] = to]

----------------------------------------------------------------------------
(* _submit_lane_job.                                                       *)

(* Mutant: the limit is compared with <=.                                  *)
HasSlotInclusive == active <= Conc

HasSlot == active < Conc

SubmitTest(t, j) ==
  /\ LoopOf[j] = t
  /\ fate[j] = "new"
  /\ Goto(t, "idle", IF HasSlot THEN "start" ELSE "room")
  /\ job' = [job EXCEPT ![t] = j]
  /\ fate' = [fate EXCEPT ![j] = "accepted"]
  /\ UNCHANGED <<active, queued, last, spare, seen, at, up, starts>>

SubmitRoom(t) ==
  /\ IF Len(queued) >= QueueLimit
     THEN Goto(t, "room", "idle") /\ fate' = [fate EXCEPT ![job[t]] = "rejected"]
     ELSE Goto(t, "room", "append") /\ UNCHANGED fate
  /\ UNCHANGED <<active, queued, last, job, spare, seen, at, up, starts>>

SubmitAppend(t) ==
  /\ Goto(t, "append", "idle")
  /\ queued' = Append(queued, job[t])
  /\ UNCHANGED <<active, last, job, spare, seen, at, fate, up, starts>>

(* _start_lane_job, called by a submission or by a drain.                  *)
StartFrom(t, from, to) ==
  /\ Goto(t, from, to)
  /\ active' = active + 1
  /\ last' = ProjectOf[job[t]]
  /\ starts' = [starts EXCEPT ![job[t]] = @ + 1]
  /\ up' = up \cup {<<job[t], starts[job[t]] + 1, t>>}
  /\ UNCHANGED <<queued, job, spare, seen, at, fate>>

Start(t) == StartFrom(t, "start", "idle") \/ StartFrom(t, "startNext", "drain")

----------------------------------------------------------------------------
(* _on_background_task_done: active = max(active - 1, 0), then _drain_lane *)

Done(t) ==
  /\ Goto(t, "idle", "store")
  /\ \E w \in up : w[3] = t /\ up' = up \ {w}
  /\ spare' = [spare EXCEPT ![t] = IF active > 0 THEN active - 1 ELSE 0]
  /\ UNCHANGED <<active, queued, last, job, seen, at, fate, starts>>

Store(t) ==
  /\ Goto(t, "store", "drain")
  /\ active' = spare[t]
  /\ UNCHANGED <<queued, last, job, spare, seen, at, fate, up, starts>>

(* while lane.active < lane.concurrency: job = self._pop_next_lane_job()   *)
Drain(t) ==
  /\ Goto(t, "drain", IF HasSlot THEN "pop" ELSE "idle")
  /\ UNCHANGED <<active, queued, last, job, spare, seen, at, fate, up, starts>>

(* _pop_next_lane_job up to the first switch: an empty deque ends the      *)
(* drain, a single job is about to be popped, else the iteration starts.   *)
Pop(t) ==
  /\ Goto(t, "pop", CASE queued = <<>> -> "idle"
                      [] Len(queued) = 1 -> "popOnly"
                      [] OTHER -> "next")
  /\ seen' = [seen EXCEPT ![t] = queued]
  /\ at' = [at EXCEPT ![t] = 1]
  /\ UNCHANGED <<active, queued, last, job, spare, fate, up, starts>>

(* popleft on a deque another loop has emptied raises out of the callback. *)
PopLeft(t, from) ==
  /\ IF queued = <<>>
     THEN Goto(t, from, "idle") /\ UNCHANGED <<queued, job>>
     ELSE /\ Goto(t, from, "startNext")
          /\ job' = [job EXCEPT ![t] = Head(queued)]
          /\ queued' = Tail(queued)
  /\ UNCHANGED <<active, last, spare, seen, at, fate, up, starts>>

PopOnly(t) == PopLeft(t, "popOnly")

(* The iterator yields the next job, whose project_id is then called; it   *)
(* raises if the deque has changed since the iteration started.            *)
ScanNext(t) ==
  /\ queued = seen[t]
  /\ at[t] <= Len(seen[t])
  /\ Goto(t, "next", "compare")
  /\ job' = [job EXCEPT ![t] = queued[at[t]]]
  /\ UNCHANGED <<active, queued, last, spare, seen, at, fate, up, starts>>

ScanRaises(t) ==
  /\ queued # seen[t]
  /\ Goto(t, "next", "idle")
  /\ UNCHANGED <<active, queued, last, job, spare, seen, at, fate, up, starts>>

ScanEnds(t) ==
  /\ queued = seen[t]
  /\ at[t] > Len(seen[t])
  /\ PopLeft(t, "next")

(* Mutant: the head is removed, whichever job was picked.                  *)
PickedHead(t) == Tail(queued)

(* del lane.queued[index] removes what is at that index now.               *)
Picked(t) == RemoveAt(queued, at[t])

Compare(t) ==
  /\ pc[t] = "compare"
  /\ IF ProjectOf[job[t]] = last
     THEN /\ Goto(t, "compare", "next")
          /\ at' = [at EXCEPT ![t] = @ + 1]
          /\ UNCHANGED queued
     ELSE IF at[t] > Len(queued)
     THEN Goto(t, "compare", "idle") /\ UNCHANGED <<at, queued>>
     ELSE /\ Goto(t, "compare", "startNext")
          /\ queued' = Picked(t)
          /\ UNCHANGED at
  /\ UNCHANGED <<active, last, job, spare, seen, fate, up, starts>>

Step(t) ==
  \/ \E j \in Jobs : SubmitTest(t, j)
  \/ SubmitRoom(t) \/ SubmitAppend(t) \/ Start(t) \/ Done(t) \/ Store(t) \/ Drain(t)
  \/ Pop(t) \/ PopOnly(t) \/ ScanNext(t) \/ ScanRaises(t) \/ ScanEnds(t) \/ Compare(t)

Next == (\E t \in Loops : Step(t)) /\ UNCHANGED setup

Spec == Init /\ [][Next]_vars

----------------------------------------------------------------------------
(* The lane never runs more wrappers than its concurrency: "the scheduler  *)
(* enforces current policy" (InlineTaskBackend.__init__; the thread pool   *)
(* is larger, so nothing else does).                                       *)
ConcurrencyEnforced == Cardinality(up) <= Conc

(* All jobs come from one event loop.                                      *)
Alone == \E t \in Loops : \A j \in Jobs : LoopOf[j] = t

(* One event loop never exceeds the concurrency, wherever CPython switches *)
(* threads.                                                                *)
LimitHeldAlone == Alone => ConcurrencyEnforced

(* With one event loop an accepted job is started once, and until then it  *)
(* is in the queue once or in the hands of the loop that is starting it:   *)
(* none is lost, none runs twice.  With any number of loops a job that was *)
(* refused is never started.                                               *)
Handling(j) == {t \in Loops : /\ job[t] = j
                              /\ pc[t] \in {"start", "room", "append", "startNext"}}

AcceptedOnce ==
  /\ Alone => \A j \in Jobs :
                fate[j] = "accepted" =>
                  starts[j] + Cardinality({i \in DOMAIN queued : queued[i] = j})
                    + Cardinality(Handling(j)) = 1
  /\ \A j \in Jobs : fate[j] = "rejected" => starts[j] = 0

----------------------------------------------------------------------------
(* The lane as the promise of LanePromise: a job is new until it is queued *)
(* or started at once, then waits in the queue or in the hands of the loop *)
(* that took it out, and runs as long as its wrapper.                      *)
Waits(j) == \/ \E i \in DOMAIN queued : queued[i] = j
            \/ \E t \in Loops : pc[t] = "startNext" /\ job[t] = j

StateOf(j) ==
  IF \E w \in up : w[1] = j THEN "running"
  ELSE IF starts[j] > 0 \/ fate[j] = "rejected" THEN "over"
  ELSE IF Waits(j) THEN "waiting"
  ELSE "new"

Promise == INSTANCE LanePromise WITH
  Lanes <- {"lane"},
  state <- [j \in Jobs |-> StateOf(j)],
  lane <- [j \in Jobs |-> "lane"],
  limit <- [l \in {"lane"} |-> Conc]

(* With one event loop every step of the lane's code, wherever CPython     *)
(* switches threads, is a step the promise allows or none: operations take *)
(* effect at once, as InlineBackend has them.                              *)
ImplementsPromise == Promise!Init /\ [][Alone => Promise!Next]_Promise!vars

=============================================================================
