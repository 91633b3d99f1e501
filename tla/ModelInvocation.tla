--------------------------- MODULE ModelInvocation ---------------------------
(***************************************************************************)
(* Image writes through the desktop's model proxy (commercial-model-       *)
(* proxy.ts) and the journal behind it (commercial-model-invocation-       *)
(* store.ts).  The sidecar sends a request with an idempotency key and     *)
(* perhaps a local task id; the proxy claims the key in the journal, marks *)
(* it started, calls the cloud or the user's own provider (BYOK), records  *)
(* the outcome and answers.  A task's cancellation is journalled before    *)
(* its requests are looked for.  The proxy is one Node.js process: code    *)
(* between two awaits is one step, a journal operation is one step under   *)
(* the key's lock, and the journal survives a crash.                       *)
(*                                                                         *)
(* Abstracted: one subject and one operation (IMAGE); the response is the  *)
(* kind of answer it is; the 24 hours it is kept are over at any time.     *)
(***************************************************************************)
EXTENDS Naturals, FiniteSets, Sequences

CONSTANTS Requests,   \* HTTP requests of the sidecar
          Keys,       \* idempotency keys
          Tasks,      \* local task ids
          Bodies,     \* request fingerprints
          Routes,     \* model routes
          NoTask, NoRoute, NoBody, NoOne,
          KeyOf,      \* KeyOf[r]: the key of request r
          TaskOf,     \* TaskOf[r]: its task id header, or NoTask
          BodyOf,     \* BodyOf[r]: its fingerprint
          RoutesOf,   \* RoutesOf[r]: the routes configured when it arrives
          ByokRoutes, \* routes to the user's own provider
          Attempts,   \* MAX_ROUTE_ATTEMPTS, for the cloud
          MaxCrashes, \* bound on the crashes of a behaviour
          MaxFails    \* bound on the journal writes that fail

ASSUME InvocationAssumption ==
  /\ KeyOf \in [Requests -> Keys]
  /\ TaskOf \in [Requests -> Tasks \cup {NoTask}] /\ NoTask \notin Tasks
  /\ BodyOf \in [Requests -> Bodies] /\ NoBody \notin Bodies
  /\ ByokRoutes \subseteq Routes /\ NoRoute \notin Routes
  /\ RoutesOf \in [Requests -> Seq(Routes)]
  /\ \A r \in Requests : RoutesOf[r] # <<>>
  /\ NoOne \notin Requests
  /\ Attempts \in Nat \ {0} /\ {MaxCrashes, MaxFails} \subseteq Nat

VARIABLES rec,     \* rec[k]: the journal's record of key k, or NoRecord
          tomb,    \* tasks whose cancellation is journalled
          flight,  \* imageInvocations: the request executing key k
          pc,      \* pc[r]: where request r is
          view,    \* view[r]: the record as r's claim returned it
          lead,    \* lead[r]: the request whose execution r waits for
          got,     \* got[r]: the outcome r is about to record
          told,    \* told[r]: what the sidecar was answered
          sent,    \* the requests that reached a route
          cxl,     \* cxl[t]: the handler that cancels task t
          crashes, \* crashes so far
          fails    \* failed journal writes so far

vars == <<rec, tomb, flight, pc, view, lead, got, told, sent, cxl, crashes, fails>>

States == {"PENDING", "IN_FLIGHT", "SUCCEEDED", "FAILED", "OUTCOME_UNKNOWN"}
Results == {"ok", "rejected", "unknown"}

Record == [state : States, body : Bodies, task : Tasks \cup {NoTask}, route : Routes,
           cancel : BOOLEAN, answer : Results \cup {"none"}]

NoRecord == [state |-> "ABSENT", body |-> NoBody, task |-> NoTask, route |-> NoRoute,
             cancel |-> FALSE, answer |-> "none"]

NoCancel == [pc |-> "idle", todo |-> {}, seen |-> [k \in Keys |-> "ABSENT"]]

Init ==
  /\ rec = [k \in Keys |-> NoRecord]
  /\ tomb = {}
  /\ flight = [k \in Keys |-> NoOne]
  /\ pc = [r \in Requests |-> "new"]
  /\ view = [r \in Requests |-> NoRecord]
  /\ lead = [r \in Requests |-> NoOne]
  /\ got = [r \in Requests |-> "none"]
  /\ told = [r \in Requests |-> "none"]
  /\ sent = {}
  /\ cxl = [t \in Tasks |-> NoCancel]
  /\ crashes = 0
  /\ fails = 0

Goto(r, to) == pc' = [pc EXCEPT ![r] = to]

(* The execution of r is over: it leaves the map, and r and everyone who   *)
(* waits for it get the answer.                                            *)
Served(r) == {r} \cup {q \in Requests : pc[q] = "joined" /\ lead[q] = r}

Finish(r, answer) ==
  /\ pc' = [q \in Requests |-> IF q \in Served(r) THEN "over" ELSE pc[q]]
  /\ told' = [q \in Requests |-> IF q \in Served(r) THEN answer ELSE told[q]]
  /\ flight' = [k \in Keys |-> IF flight[k] = r THEN NoOne ELSE flight[k]]

JournalFails == fails < MaxFails /\ fails' = fails + 1 /\ UNCHANGED rec

----------------------------------------------------------------------------
(* requestIdempotentImageWrite.                                            *)

(* claim: a new record, or the existing one with the task filled in.       *)
Claimed(r) ==
  LET old == rec[KeyOf[r]]
  IN  IF old = NoRecord
      THEN [state |-> "PENDING", body |-> BodyOf[r], task |-> TaskOf[r],
            route |-> RoutesOf[r][1], cancel |-> FALSE, answer |-> "none"]
      ELSE [old EXCEPT !.task = IF @ = NoTask THEN TaskOf[r] ELSE @]

Offers(r, route) == \E n \in DOMAIN RoutesOf[r] : RoutesOf[r][n] = route

(* Mutant: a record that a crash left in flight may be executed again.     *)
ReplayableUnlessDone(v) == v.state \in {"PENDING", "IN_FLIGHT"}

Replayable(v) == v.state = "PENDING"

(* Mutant: an expired success is reported like an unknown outcome.         *)
UnavailableAlways(v) == "unknown"

(* unavailableByokReplayResponse                                           *)
Unavailable(v) ==
  IF v.state \in {"IN_FLIGHT", "OUTCOME_UNKNOWN"} THEN "unknown" ELSE "expired"

(* What r does with the claim's record v: answer from it, or execute.      *)
Decide(r, v) ==
  CASE v.cancel -> Finish(r, "cancelled")
    [] ~v.cancel /\ v.route \in ByokRoutes /\ v.answer # "none" -> Finish(r, v.answer)
    [] ~v.cancel /\ v.route \in ByokRoutes /\ v.answer = "none" /\ ~Replayable(v) ->
         Finish(r, Unavailable(v))
    [] OTHER -> /\ Goto(r, "run")
                /\ flight' = [flight EXCEPT ![KeyOf[r]] = r]
                /\ UNCHANGED told

(* The same key was used for another request.  (Mutant: nobody looks.)     *)
ConflictsNever(r) == FALSE

Conflicts(r) == rec[KeyOf[r]] # NoRecord /\ rec[KeyOf[r]].body # BodyOf[r]

(* The claim, and the code after it up to the next await: another          *)
(* fingerprint or a lost route refuses, a running execution is joined, and *)
(* a request of a task goes on to ask whether the task was cancelled.      *)
Claim(r) ==
  LET k == KeyOf[r]
      v == Claimed(r)
  IN  /\ pc[r] = "new"
      /\ ~Conflicts(r)
      /\ rec' = [rec EXCEPT ![k] = v]
      /\ view' = [view EXCEPT ![r] = v]
      /\ \/ ~Offers(r, v.route) /\ Finish(r, "unavailable") /\ UNCHANGED lead
         \/ /\ Offers(r, v.route) /\ flight[k] # NoOne
            /\ Goto(r, "joined")
            /\ lead' = [lead EXCEPT ![r] = flight[k]]
            /\ UNCHANGED <<told, flight>>
         \/ /\ Offers(r, v.route) /\ flight[k] = NoOne /\ TaskOf[r] # NoTask
            /\ Goto(r, "asking")
            /\ UNCHANGED <<lead, told, flight>>
         \/ /\ Offers(r, v.route) /\ flight[k] = NoOne /\ TaskOf[r] = NoTask
            /\ Decide(r, v)
            /\ UNCHANGED lead
      /\ UNCHANGED <<tomb, got, sent, cxl, crashes, fails>>

ClaimRefused(r) ==
  /\ pc[r] = "new"
  /\ \/ Conflicts(r) /\ Finish(r, "conflict") /\ UNCHANGED <<rec, fails>>
     \/ JournalFails /\ Finish(r, "error")
  /\ UNCHANGED <<tomb, view, lead, got, sent, cxl, crashes>>

(* taskCancellation has answered.  The in-flight map is not looked at      *)
(* again, and the claim's record is the one read before.                   *)
Asked(r) ==
  /\ pc[r] = "asking"
  /\ IF TaskOf[r] \in tomb
     THEN Goto(r, "cancelling") /\ UNCHANGED <<told, flight>>
     ELSE Decide(r, view[r])
  /\ UNCHANGED <<rec, tomb, view, lead, got, sent, cxl, crashes, fails>>

(* requestCancellation on its own key, then cancelledImageResult (whose    *)
(* call to the cloud changes nothing here).                                *)
CancelOwn(r) ==
  /\ pc[r] = "cancelling"
  /\ rec' = [rec EXCEPT ![KeyOf[r]].cancel = TRUE]
  /\ Finish(r, "cancelled")
  /\ UNCHANGED <<tomb, view, lead, got, sent, cxl, crashes, fails>>

----------------------------------------------------------------------------
(* executeIdempotentImageWrite and requestWithFallback, on the one route   *)
(* the claim is pinned to.                                                 *)

Pinned(r) == view[r].route

(* Mutant: the claim's copy of the record is asked.                        *)
CancelSeenInClaim(r) == view[r].cancel

CancelSeen(r) == rec[KeyOf[r]].cancel

(* markStarted; a cancelled record throws before anything is sent.         *)
MarkStarted(r) ==
  [rec EXCEPT ![KeyOf[r]].route = Pinned(r),
              ![KeyOf[r]].state = IF @ = "PENDING" /\ ~CancelSeen(r) THEN "IN_FLIGHT" ELSE @]

StartRequest(r) ==
  /\ pc[r] = "run"
  /\ rec' = MarkStarted(r)
  /\ IF CancelSeen(r) THEN Finish(r, "cancelled")
     ELSE Goto(r, "started") /\ UNCHANGED <<told, flight>>
  /\ UNCHANGED <<tomb, view, lead, got, sent, cxl, crashes, fails>>

(* A failed markStarted: BYOK records an unknown outcome, though nothing   *)
(* was sent; the cloud's attempt is repeated.                              *)
StartFails(r) ==
  /\ pc[r] = "run"
  /\ JournalFails
  /\ IF Pinned(r) \in ByokRoutes
     THEN Goto(r, "reply") /\ got' = [got EXCEPT ![r] = "unknown"]
     ELSE UNCHANGED <<pc, got>>
  /\ UNCHANGED <<tomb, flight, view, lead, told, sent, cxl, crashes>>

Tries(r) == {s \in sent : s.by = r}

Send(r) ==
  /\ pc[r] = "started"
  /\ Goto(r, "sent")
  /\ sent' = sent \cup {[key |-> KeyOf[r], by |-> r, nth |-> Cardinality(Tries(r)) + 1,
                         route |-> Pinned(r), body |-> BodyOf[r]]}
  /\ UNCHANGED <<rec, tomb, flight, view, lead, got, told, cxl, crashes, fails>>

(* What came back: a success, a rejection (4xx), a 5xx, or nothing at all. *)
(* The cloud is asked again while attempts are left; a lost BYOK answer is *)
(* an unknown outcome, and a lost cloud answer is an error.                *)
Reply(r) ==
  LET again == Pinned(r) \notin ByokRoutes /\ Cardinality(Tries(r)) < Attempts
  IN  /\ pc[r] = "sent"
      /\ \/ /\ \E result \in {"ok", "rejected"} : got' = [got EXCEPT ![r] = result]
            /\ Goto(r, "reply")
            /\ UNCHANGED <<told, flight>>
         \/ again /\ Goto(r, "run") /\ UNCHANGED <<got, told, flight>>
         \/ /\ ~again
            /\ got' = [got EXCEPT ![r] = "unknown"]
            /\ Goto(r, "reply")
            /\ UNCHANGED <<told, flight>>
         \/ /\ ~again /\ Pinned(r) \notin ByokRoutes
            /\ Finish(r, "error")
            /\ UNCHANGED got
      /\ UNCHANGED <<rec, tomb, view, lead, sent, cxl, crashes, fails>>

(* The session has changed since the request arrived (or, for the cloud,   *)
(* the budget was refused): it ends at the next check, and the record      *)
(* stays as it is.                                                         *)
Abandon(r) ==
  /\ pc[r] \in {"run", "started", "sent"}
  /\ Finish(r, "error")
  /\ UNCHANGED <<rec, tomb, view, lead, got, sent, cxl, crashes, fails>>

(* Mutant: a state the journal's parser refuses to read back.              *)
StateOfMisnamed(result) ==
  CASE result = "ok" -> "SUCCEEDED" [] result = "rejected" -> "FAILED"
    [] result = "unknown" -> "UNKNOWN"

StateOf(result) ==
  CASE result = "ok" -> "SUCCEEDED" [] result = "rejected" -> "FAILED"
    [] result = "unknown" -> "OUTCOME_UNKNOWN"

(* complete; only a BYOK answer of at most 32 MiB is kept.                 *)
Complete(r) ==
  /\ pc[r] = "reply"
  /\ \E answer \in {"none"} \cup (IF Pinned(r) \in ByokRoutes THEN {got[r]} ELSE {}) :
       rec' = [rec EXCEPT ![KeyOf[r]].state = StateOf(got[r]), ![KeyOf[r]].answer = answer]
  /\ Finish(r, got[r])
  /\ UNCHANGED <<tomb, view, lead, got, sent, cxl, crashes, fails>>

(* The journal refuses: a BYOK outcome is recorded as unknown instead, or  *)
(* the request fails and the record stays in flight.                       *)
CompleteFails(r) ==
  /\ pc[r] = "reply"
  /\ JournalFails
  /\ \/ /\ Pinned(r) \in ByokRoutes
        /\ got' = [got EXCEPT ![r] = "unknown"]
        /\ UNCHANGED <<pc, told, flight>>
     \/ Finish(r, "error") /\ UNCHANGED got
  /\ UNCHANGED <<tomb, view, lead, sent, cxl, crashes>>

----------------------------------------------------------------------------
(* handleTaskCancellation: the tombstone, the records of the task, a       *)
(* cancellation of each, the answer.                                       *)

CancelTask(t) ==
  /\ cxl[t].pc = "idle"
  /\ tomb' = tomb \cup {t}
  /\ cxl' = [cxl EXCEPT ![t].pc = "list"]
  /\ UNCHANGED <<rec, flight, pc, view, lead, got, told, sent, crashes, fails>>

RecordsForTask(t) == {k \in Keys : rec[k].task = t}

ListRecords(t) ==
  /\ cxl[t].pc = "list"
  /\ cxl' = [cxl EXCEPT ![t].pc = "each", ![t].todo = RecordsForTask(t)]
  /\ UNCHANGED <<rec, tomb, flight, pc, view, lead, got, told, sent, crashes, fails>>

CancelRecord(t, k) ==
  /\ k \in cxl[t].todo
  /\ rec' = [rec EXCEPT ![k].cancel = TRUE]
  /\ cxl' = [cxl EXCEPT ![t].todo = @ \ {k}, ![t].seen[k] = rec[k].state]
  /\ UNCHANGED <<tomb, flight, pc, view, lead, got, told, sent, crashes, fails>>

AnswerCancel(t) ==
  /\ cxl[t].pc = "each"
  /\ cxl[t].todo = {}
  /\ cxl' = [cxl EXCEPT ![t].pc = "answered"]
  /\ UNCHANGED <<rec, tomb, flight, pc, view, lead, got, told, sent, crashes, fails>>

----------------------------------------------------------------------------
(* A kept answer's 24 hours are over (readMetadataUnlocked, or the         *)
(* maintenance timer).                                                     *)
ExpireResponse(k) ==
  /\ rec[k].answer # "none"
  /\ rec' = [rec EXCEPT ![k].answer = "none"]
  /\ UNCHANGED <<tomb, flight, pc, view, lead, got, told, sent, cxl, crashes, fails>>

(* The desktop process dies: the journal stays, requests and handlers go.  *)
Crash ==
  /\ crashes < MaxCrashes
  /\ crashes' = crashes + 1
  /\ flight' = [k \in Keys |-> NoOne]
  /\ pc' = [r \in Requests |-> IF pc[r] = "new" THEN "new" ELSE "over"]
  /\ told' = [r \in Requests |-> IF pc[r] \in {"new", "over"} THEN told[r] ELSE "lost"]
  /\ cxl' = [t \in Tasks |-> IF cxl[t].pc = "answered" THEN cxl[t] ELSE NoCancel]
  /\ UNCHANGED <<rec, tomb, view, lead, got, sent, fails>>

Execute(r) ==
  \/ StartRequest(r) \/ StartFails(r) \/ Send(r) \/ Reply(r) \/ Abandon(r)
  \/ Complete(r) \/ CompleteFails(r)

Next ==
  \/ \E r \in Requests : Claim(r) \/ ClaimRefused(r) \/ Asked(r) \/ CancelOwn(r) \/ Execute(r)
  \/ \E t \in Tasks : \/ CancelTask(t) \/ ListRecords(t) \/ AnswerCancel(t)
                      \/ \E k \in Keys : CancelRecord(t, k)
  \/ \E k \in Keys : ExpireResponse(k)
  \/ Crash

Spec == Init /\ [][Next]_vars

----------------------------------------------------------------------------
(* Type correctness of the journal and of the proxy.                       *)
InvocationTypeOK ==
  /\ rec \in [Keys -> Record \cup {NoRecord}]
  /\ tomb \subseteq Tasks
  /\ flight \in [Keys -> Requests \cup {NoOne}]
  /\ pc \in [Requests -> {"new", "asking", "cancelling", "joined", "run", "started",
                          "sent", "reply", "over"}]
  /\ view \in [Requests -> Record \cup {NoRecord}]
  /\ lead \in [Requests -> Requests \cup {NoOne}]
  /\ got \in [Requests -> Results \cup {"none"}]
  /\ told \in [Requests -> Results \cup {"none", "conflict", "unavailable", "cancelled",
                                         "expired", "error", "lost"}]
  /\ sent \subseteq [key : Keys, by : Requests, nth : 1..Attempts, route : Routes, body : Bodies]
  /\ cxl \in [Tasks -> [pc : {"idle", "list", "each", "answered"}, todo : SUBSET Keys,
                        seen : [Keys -> States \cup {"ABSENT"}]]]

(* A retry with its key may come at any time, also while the first request *)
(* still executes: it then joins that execution.  What it may not do is    *)
(* come, or begin to execute, while another one is between its look at the *)
(* in-flight map and its decision, which is as long as taskCancellation    *)
(* reads a file; image_grid.py retries no sooner than two seconds after it *)
(* gave the request up.  Without this AtMostOnce fails.                    *)
Executing == {"run", "started", "sent", "reply"}

AsksAlone ==
  \A q, r \in Requests :
    /\ q # r /\ KeyOf[q] = KeyOf[r] /\ BodyOf[q] = BodyOf[r]
    /\ pc[r] = "asking"
    => pc[q] \notin {"asking"} \cup Executing

(* "BYOK ambiguous writes never execute twice with the same key": the      *)
(* user's provider gets at most one request per key, whatever is retried,  *)
(* lost, abandoned or crashes in between (requestIdempotentImageWrite).    *)
AtMostOnce ==
  \A s1, s2 \in sent : s1.key = s2.key /\ s1.route \in ByokRoutes => s1 = s2

(* A key is executed on one route with one body for ever, whatever routes  *)
(* are configured when it is retried ("do not switch providers").          *)
OneRoute ==
  \A s1, s2 \in sent : s1.key = s2.key => s1.route = s2.route /\ s1.body = s2.body

(* Once a task's cancellation is answered, a key it did not list, or       *)
(* listed as PENDING, is never sent: every request of the task that the    *)
(* list missed meets the tombstone, every other meets the record.          *)
CancelTruth ==
  \A t \in Tasks : cxl[t].pc = "answered" =>
    \A s \in sent : TaskOf[s.by] = t => cxl[t].seen[s.key] \notin {"ABSENT", "PENDING"}

(* All who ask about a key executed by the user's provider and get to know *)
(* its outcome get to know the same one, at any time and after a crash.    *)
SameAnswer ==
  \A q, r \in Requests :
    /\ KeyOf[q] = KeyOf[r]
    /\ rec[KeyOf[q]].route \in ByokRoutes
    /\ {told[q], told[r]} \subseteq Results
    => told[q] = told[r]
=============================================================================
