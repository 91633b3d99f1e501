--------------------------- MODULE InvocationProofs ---------------------------
(***************************************************************************)
(* Image writes of the model proxy, for any number of requests, keys,      *)
(* tasks, routes and crashes: one route and one body per key, truthful     *)
(* cancellations, and one call of the user's provider per key.             *)
(*                                                                         *)
(* The argument has three layers.  A journal record only grows (Grows): it *)
(* keeps its body and route, its task once it has one, its cancellation,   *)
(* and never becomes PENDING again.  So what a request saw in the record   *)
(* it claimed still holds when the request acts on it (Base).  On that     *)
(* rest CancelInv, for the requests of a task whose cancellation has       *)
(* listed the journal, and OnceInv, for the request the in-flight map      *)
(* names.                                                                  *)
(***************************************************************************)
EXTENDS ModelInvocation, FiniteSetTheorems, TLAPS

Known == {"asking", "cancelling", "joined"} \cup Executing
Answers == Results \cup {"none", "conflict", "unavailable", "cancelled", "expired",
                         "error", "lost"}
Places == {"new", "over"} \cup Known

(* What a request relies on between its claim and its answer.              *)
RequestOK(q) ==
  /\ pc[q] \in Known => /\ rec[KeyOf[q]] # NoRecord
                        /\ rec[KeyOf[q]].body = BodyOf[q]
  /\ pc[q] \in {"asking"} \cup Executing => view[q].route = rec[KeyOf[q]].route
  /\ pc[q] \in {"started", "sent"} => rec[KeyOf[q]].state # "PENDING"
  /\ pc[q] = "reply" => got[q] \in Results
  /\ pc[q] \in {"new", "asking"} => Tries(q) = {}
  /\ pc[q] \in {"run", "started"} => Cardinality(Tries(q)) < Attempts

(* What was sent is what the journal's record says.                        *)
SentOK(s) ==
  /\ s.key = KeyOf[s.by] /\ s.body = BodyOf[s.by]
  /\ rec[s.key] # NoRecord
  /\ rec[s.key].body = s.body /\ rec[s.key].route = s.route
  /\ rec[s.key].state # "PENDING"

(* A handler cancels records that exist.                                   *)
TodoOK == \A t \in Tasks : \A k \in cxl[t].todo : rec[k] # NoRecord

Base ==
  /\ InvocationTypeOK
  /\ TodoOK
  /\ IsFiniteSet(sent)
  /\ \A s \in sent : SentOK(s)
  /\ \A q \in Requests : RequestOK(q)

(* How a step may change the journal.                                      *)
Grows ==
  \A k \in Keys : rec[k] # NoRecord =>
    /\ rec'[k] # NoRecord
    /\ rec'[k].body = rec[k].body /\ rec'[k].route = rec[k].route
    /\ rec[k].task # NoTask => rec'[k].task = rec[k].task
    /\ rec[k].cancel => rec'[k].cancel
    /\ rec[k].state # "PENDING" => rec'[k].state # "PENDING"

-----------------------------------------------------------------------------
(* What the types say, and what the steps of a request have in common.     *)

LEMMA Typed ==
  ASSUME InvocationTypeOK
  PROVE  /\ \A k \in Keys : /\ rec[k] \in Record \cup {NoRecord}
                            /\ rec[k] # NoRecord =>
                                 /\ rec[k].state \in States /\ rec[k].body \in Bodies
                                 /\ rec[k].task \in Tasks \cup {NoTask}
                                 /\ rec[k].route \in Routes /\ rec[k].cancel \in BOOLEAN
                                 /\ rec[k].answer \in Results \cup {"none"}
         /\ \A q \in Requests : /\ KeyOf[q] \in Keys /\ BodyOf[q] \in Bodies
                                /\ TaskOf[q] \in Tasks \cup {NoTask}
                                /\ pc[q] \in Places /\ told[q] \in Answers
                                /\ got[q] \in Results \cup {"none"}
         /\ NoRecord \notin Record
<1>1. NoRecord \notin Record
  BY DEF NoRecord, Record, States
<1> QED
  BY <1>1, InvocationAssumption
     DEF InvocationTypeOK, Record, Places, Known, Executing, Answers

LEMMA TriesFinite ==
  ASSUME IsFiniteSet(sent), NEW q \in Requests
  PROVE  IsFiniteSet(Tries(q)) /\ Cardinality(Tries(q)) \in Nat
<1>1. Tries(q) \subseteq sent
  BY DEF Tries
<1> QED
  BY <1>1, FS_Subset, FS_CardinalityType

(* A request that does not move, or ends, keeps what it relied on.         *)
LEMMA OthersKeep ==
  ASSUME Base, Grows, NEW q \in Requests, RequestOK(q),
         pc'[q] \in {pc[q], "over"}, view'[q] = view[q], got'[q] = got[q],
         Tries(q)' = Tries(q)
  PROVE  RequestOK(q)'
<1>1. KeyOf[q] \in Keys
  BY Typed DEF Base
<1> QED
  BY <1>1 DEF RequestOK, Grows, Known, Executing

LEMMA SentKeep ==
  ASSUME Base, Grows, NEW s \in sent
  PROVE  SentOK(s)'
<1>1. s.key \in Keys /\ SentOK(s)
  BY DEF Base, InvocationTypeOK
<1> QED
  BY <1>1 DEF SentOK, Grows

LEMMA TodoKept ==
  ASSUME Base, Grows, UNCHANGED cxl
  PROVE  TodoOK'
<1> SUFFICES ASSUME NEW t \in Tasks, NEW k \in cxl[t].todo
             PROVE  rec'[k] # NoRecord
  BY DEF TodoOK
<1>1. k \in Keys /\ rec[k] # NoRecord
  BY DEF Base, TodoOK, InvocationTypeOK
<1> QED
  BY <1>1 DEF Grows

(* A step that sends nothing.                                              *)
LEMMA QuietStep ==
  ASSUME Base, Grows, InvocationTypeOK', TodoOK', UNCHANGED sent,
         \A q \in Requests : \/ /\ pc'[q] \in {pc[q], "over"}
                                /\ view'[q] = view[q] /\ got'[q] = got[q]
                             \/ RequestOK(q)'
  PROVE  Base'
<1>1. \A s \in sent' : SentOK(s)'
  BY SentKeep
<1>2. \A q \in Requests : RequestOK(q)'
  <2> SUFFICES ASSUME NEW q \in Requests PROVE RequestOK(q)'
    OBVIOUS
  <2>1. Tries(q)' = Tries(q)
    BY DEF Tries
  <2> QED
    BY <2>1, OthersKeep DEF Base
<1> QED
  BY <1>1, <1>2 DEF Base

LEMMA Finished ==
  ASSUME InvocationTypeOK, NEW r \in Requests, NEW a \in Answers, Finish(r, a)
  PROVE  /\ pc' \in [Requests -> Places] /\ told' \in [Requests -> Answers]
         /\ flight' \in [Keys -> Requests \cup {NoOne}]
         /\ pc'[r] = "over" /\ \A q \in Requests : pc'[q] \in {pc[q], "over"}
         /\ \A q \in Requests \ Served(r) : told'[q] = told[q] /\ pc'[q] = pc[q]
         /\ \A q \in Served(r) : told'[q] = a /\ pc'[q] = "over"
         /\ r \in Served(r) /\ Served(r) \subseteq Requests
         /\ \A k \in Keys : flight'[k] = IF flight[k] = r THEN NoOne ELSE flight[k]
<1>1. r \in Served(r) /\ Served(r) \subseteq Requests
  BY DEF Served
<1> QED
  BY <1>1, Typed DEF Finish, InvocationTypeOK, Places, Known, Executing, Answers

LEMMA Went ==
  ASSUME InvocationTypeOK, NEW r \in Requests, NEW to \in Places, Goto(r, to)
  PROVE  /\ pc' \in [Requests -> Places] /\ pc'[r] = to
         /\ \A q \in Requests : q # r => pc'[q] = pc[q]
BY DEF Goto, InvocationTypeOK, Places, Known, Executing

(* What a claim's record v makes of request r.                             *)
LEMMA Decided ==
  ASSUME InvocationTypeOK, NEW r \in Requests, NEW v \in Record, Decide(r, v)
  PROVE  \/ \E a \in Answers : Finish(r, a)
         \/ /\ Goto(r, "run") /\ flight' = [flight EXCEPT ![KeyOf[r]] = r]
            /\ UNCHANGED told
            /\ ~v.cancel
            /\ v.route \in ByokRoutes => v.answer = "none" /\ v.state = "PENDING"
<1>1. v.answer \in Results \cup {"none"} /\ Unavailable(v) \in Answers
      /\ v.cancel \in BOOLEAN
  BY DEF Record, Unavailable, Answers, Results
<1> QED
  BY <1>1 DEF Decide, Answers, Replayable

(* The journal's claim.                                                    *)
LEMMA ClaimedRecord ==
  ASSUME InvocationTypeOK, NEW r \in Requests, ~Conflicts(r)
  PROVE  /\ Claimed(r) \in Record /\ Claimed(r) # NoRecord
         /\ Claimed(r).body = BodyOf[r]
         /\ rec[KeyOf[r]] # NoRecord =>
              /\ Claimed(r).route = rec[KeyOf[r]].route
              /\ Claimed(r).state = rec[KeyOf[r]].state
              /\ Claimed(r).answer = rec[KeyOf[r]].answer
              /\ Claimed(r).cancel = rec[KeyOf[r]].cancel
         /\ Claimed(r).task = IF rec[KeyOf[r]].task = NoTask
                              THEN TaskOf[r] ELSE rec[KeyOf[r]].task
         /\ rec[KeyOf[r]] = NoRecord => /\ Claimed(r).state = "PENDING"
                                        /\ Claimed(r).answer = "none"
                                        /\ ~Claimed(r).cancel
<1>1. RoutesOf[r][1] \in Routes
  BY InvocationAssumption
<1>2. CASE rec[KeyOf[r]] = NoRecord
  BY <1>1, <1>2, Typed DEF Claimed, Record, NoRecord, States
<1>3. CASE rec[KeyOf[r]] # NoRecord
  <2>1. rec[KeyOf[r]] \in Record
    BY <1>3, Typed
  <2> QED
    BY <1>3, <2>1, Typed DEF Claimed, Record, Conflicts
<1> QED
  BY <1>2, <1>3

-----------------------------------------------------------------------------
(* Every action keeps the base and lets the journal grow.                  *)

(* A record that is only written in a way that grows.                      *)
RecordGrows(k, new) ==
  /\ new \in Record
  /\ rec[k] # NoRecord =>
       /\ new.body = rec[k].body /\ new.route = rec[k].route
       /\ rec[k].task # NoTask => new.task = rec[k].task
       /\ rec[k].cancel => new.cancel
       /\ rec[k].state # "PENDING" => new.state # "PENDING"

LEMMA OneRecord ==
  ASSUME InvocationTypeOK, NEW k \in Keys, NEW new, RecordGrows(k, new),
         rec' = [rec EXCEPT ![k] = new]
  PROVE  /\ rec' \in [Keys -> Record \cup {NoRecord}]
         /\ rec'[k] = new /\ rec'[k] # NoRecord /\ Grows
         /\ \A j \in Keys : j # k => rec'[j] = rec[j]
<1>1. rec' \in [Keys -> Record \cup {NoRecord}] /\ rec'[k] = new
      /\ \A j \in Keys : j # k => rec'[j] = rec[j]
  BY DEF RecordGrows, InvocationTypeOK
<1>2. new # NoRecord
  BY Typed DEF RecordGrows
<1> QED
  BY <1>1, <1>2 DEF RecordGrows, Grows

LEMMA NoGrowth ==
  ASSUME UNCHANGED rec
  PROVE  Grows
BY DEF Grows

LEMMA ClaimKeeps ==
  ASSUME Base, NEW r \in Requests, Claim(r)
  PROVE  Base' /\ Grows
<1> DEFINE k == KeyOf[r]
           v == Claimed(r)
<1> USE DEF Base
<1>1. k \in Keys /\ r \in Requests /\ pc[r] = "new"
  BY Typed DEF Claim
<1>2. v \in Record /\ v.body = BodyOf[r] /\ RecordGrows(k, v)
  <2>1. ~Conflicts(r)
    BY DEF Claim
  <2>2. /\ v \in Record /\ v.body = BodyOf[r]
        /\ rec[k] # NoRecord =>
              /\ v.route = rec[k].route /\ v.state = rec[k].state
              /\ v.cancel = rec[k].cancel
        /\ v.task = IF rec[k].task = NoTask THEN TaskOf[r] ELSE rec[k].task
    BY <2>1, ClaimedRecord
  <2>3. rec[k] # NoRecord => rec[k].body = BodyOf[r]
    BY <2>1 DEF Conflicts
  <2> QED
    BY <2>2, <2>3 DEF RecordGrows
<1>3. rec' = [rec EXCEPT ![k] = v] /\ view' = [view EXCEPT ![r] = v]
      /\ UNCHANGED <<tomb, got, sent, cxl>>
  BY DEF Claim
<1>4. /\ rec' \in [Keys -> Record \cup {NoRecord}]
      /\ rec'[k] = v /\ rec'[k] # NoRecord /\ Grows
  BY <1>1, <1>2, <1>3, OneRecord
<1>5. view' \in [Requests -> Record \cup {NoRecord}] /\ view'[r] = v
      /\ \A q \in Requests : q # r => view'[q] = view[q]
  BY <1>2, <1>3 DEF InvocationTypeOK
<1>6. Tries(r) = {} /\ Tries(r)' = {}
  BY <1>1, <1>3 DEF RequestOK, Tries
<1>7. Cardinality(Tries(r)') < Attempts
  BY <1>6, FS_EmptySet, InvocationAssumption
<1>8. /\ pc' \in [Requests -> Places] /\ told' \in [Requests -> Answers]
      /\ flight' \in [Keys -> Requests \cup {NoOne}]
      /\ lead' \in [Requests -> Requests \cup {NoOne}]
      /\ \A q \in Requests \ {r} : pc'[q] \in {pc[q], "over"}
      /\ pc'[r] \in {"over", "joined", "asking", "run"}
  <2>1. CASE \E a \in Answers : Finish(r, a) /\ UNCHANGED lead
    BY <2>1, Finished DEF InvocationTypeOK
  <2>2. CASE flight[k] # NoOne /\ Goto(r, "joined") /\ UNCHANGED <<told, flight>>
             /\ lead' = [lead EXCEPT ![r] = flight[k]]
    BY <1>1, <2>2, Went DEF InvocationTypeOK, Places, Known, Executing, Answers
  <2>3. CASE Goto(r, "asking") /\ UNCHANGED <<lead, told, flight>>
    BY <2>3, Went DEF InvocationTypeOK, Places, Known, Executing, Answers
  <2>4. CASE Decide(r, v) /\ UNCHANGED lead
    <3>1. CASE \E a \in Answers : Finish(r, a)
      BY <2>1, <2>4, <3>1
    <3>2. CASE /\ Goto(r, "run") /\ UNCHANGED told
               /\ flight' = [flight EXCEPT ![k] = r]
      BY <1>1, <2>4, <3>2, Went DEF InvocationTypeOK, Places, Known, Executing, Answers
    <3> QED
      BY <1>2, <2>4, <3>1, <3>2, Decided
  <2> QED
    BY <2>1, <2>2, <2>3, <2>4 DEF Claim, Answers
<1>9. InvocationTypeOK'
  BY <1>3, <1>4, <1>5, <1>8
     DEF InvocationTypeOK, Places, Known, Executing, Answers
<1>10. RequestOK(r)'
  BY <1>2, <1>4, <1>5, <1>6, <1>7, <1>8 DEF RequestOK, Known, Executing
<1> QED
  BY <1>3, <1>4, <1>5, <1>8, <1>9, <1>10, TodoKept, QuietStep DEF InvocationTypeOK

(* A request ends and writes nothing into the journal.                     *)
LEMMA EndKeeps ==
  ASSUME Base, NEW r \in Requests, NEW a \in Answers, Finish(r, a),
         UNCHANGED <<rec, tomb, view, lead, got, sent, cxl>>
  PROVE  Base' /\ Grows
<1> USE DEF Base
<1>1. InvocationTypeOK'
  BY Finished DEF InvocationTypeOK, Places, Known, Executing, Answers
<1> QED
  BY <1>1, Finished, NoGrowth, TodoKept, QuietStep

(* A request goes on and nothing else changes.                             *)
LEMMA MoveKeeps ==
  ASSUME Base, NEW r \in Requests, NEW to \in Places, Goto(r, to),
         UNCHANGED <<rec, tomb, flight, view, lead, told, sent, cxl>>,
         got' \in [Requests -> Results \cup {"none"}],
         \A q \in Requests : q # r => got'[q] = got[q],
         RequestOK(r)'
  PROVE  Base' /\ Grows
<1> USE DEF Base
<1>1. InvocationTypeOK'
  BY Went DEF InvocationTypeOK, Places, Known, Executing
<1>2. \A q \in Requests : q # r => pc'[q] = pc[q]
  BY Went
<1> QED
  BY <1>1, <1>2, NoGrowth, TodoKept, QuietStep

LEMMA ClaimRefusedKeeps ==
  ASSUME Base, NEW r \in Requests, ClaimRefused(r)
  PROVE  Base' /\ Grows
BY EndKeeps DEF ClaimRefused, JournalFails, Answers

LEMMA AskedKeeps ==
  ASSUME Base, NEW r \in Requests, Asked(r)
  PROVE  Base' /\ Grows
<1> USE DEF Base
<1>1. /\ pc[r] = "asking" /\ RequestOK(r) /\ UNCHANGED <<rec, tomb, view, lead, got, sent, cxl>>
      /\ KeyOf[r] \in Keys
  BY Typed DEF Asked
<1>2. Tries(r)' = {} /\ Cardinality(Tries(r)') < Attempts
  <2>1. Tries(r) = {} /\ Tries(r)' = Tries(r)
    BY <1>1 DEF RequestOK, Tries
  <2> QED
    BY <2>1, FS_EmptySet, InvocationAssumption
<1>3. rec[KeyOf[r]] # NoRecord /\ view[r].route = rec[KeyOf[r]].route
  BY <1>1 DEF RequestOK, Known
<1>4. CASE Goto(r, "cancelling") /\ UNCHANGED <<told, flight>>
  <2>1. pc'[r] = "cancelling"
    BY <1>4, Went DEF Places, Known
  <2>2. RequestOK(r)'
    BY <1>1, <2>1 DEF RequestOK, Known, Executing
  <2> QED
    BY <1>1, <1>4, <2>2, MoveKeeps DEF InvocationTypeOK, Places, Known
<1>5. CASE \E a \in Answers : Finish(r, a)
  BY <1>1, <1>5, EndKeeps
<1>6. CASE /\ Goto(r, "run") /\ flight' = [flight EXCEPT ![KeyOf[r]] = r]
           /\ UNCHANGED told
  <2>1. pc' \in [Requests -> Places] /\ pc'[r] = "run"
        /\ \A q \in Requests : q # r => pc'[q] = pc[q]
    BY <1>6, Went DEF Places, Known, Executing
  <2>2. flight' \in [Keys -> Requests \cup {NoOne}]
    BY <1>1, <1>6 DEF InvocationTypeOK
  <2>3. InvocationTypeOK'
    BY <1>1, <1>6, <2>1, <2>2 DEF InvocationTypeOK, Places, Known, Executing
  <2>4. RequestOK(r)'
    BY <1>1, <1>2, <1>3, <2>1 DEF RequestOK, Known, Executing
  <2> QED
    BY <1>1, <2>1, <2>3, <2>4, NoGrowth, TodoKept, QuietStep
<1>7. CASE Decide(r, view[r])
  <2>1. view[r] \in Record
    <3>1. view[r] \in Record \cup {NoRecord}
      BY DEF InvocationTypeOK
    <3>2. view[r].route \in Routes
      BY <1>1, <1>3, Typed
    <3>3. view[r] # NoRecord
      BY <3>2, InvocationAssumption DEF NoRecord
    <3> QED
      BY <3>1, <3>3
  <2> QED
    BY <1>5, <1>6, <1>7, <2>1, Decided
<1> QED
  BY <1>4, <1>7 DEF Asked

(* A record that is there is cancelled, or its answer or state changes.    *)
LEMMA CancelledGrows ==
  ASSUME InvocationTypeOK, NEW k \in Keys, rec[k] # NoRecord
  PROVE  RecordGrows(k, [rec[k] EXCEPT !.cancel = TRUE])
BY Typed DEF RecordGrows, Record

LEMMA CancelOwnKeeps ==
  ASSUME Base, NEW r \in Requests, CancelOwn(r)
  PROVE  Base' /\ Grows
<1> USE DEF Base
<1>1. /\ pc[r] = "cancelling" /\ UNCHANGED <<tomb, view, lead, got, sent, cxl>>
      /\ rec' = [rec EXCEPT ![KeyOf[r]].cancel = TRUE]
      /\ Finish(r, "cancelled") /\ "cancelled" \in Answers
  BY DEF CancelOwn, Answers
<1>2. KeyOf[r] \in Keys /\ rec[KeyOf[r]] # NoRecord
  BY <1>1, Typed DEF RequestOK, Known
<1>3. rec' \in [Keys -> Record \cup {NoRecord}] /\ Grows
  BY <1>1, <1>2, CancelledGrows, OneRecord
<1>4. InvocationTypeOK'
  BY <1>1, <1>3, Finished DEF InvocationTypeOK, Places, Known, Executing, Answers
<1> QED
  BY <1>1, <1>3, <1>4, Finished, TodoKept, QuietStep

LEMMA StartRequestKeeps ==
  ASSUME Base, NEW r \in Requests, StartRequest(r)
  PROVE  Base' /\ Grows
<1> DEFINE k == KeyOf[r]
           new == [rec[k] EXCEPT
                     !.route = Pinned(r),
                     !.state = IF @ = "PENDING" /\ ~CancelSeen(r) THEN "IN_FLIGHT" ELSE @]
<1> USE DEF Base
<1>1. /\ pc[r] = "run" /\ UNCHANGED <<tomb, view, lead, got, sent, cxl>>
      /\ rec' = [rec EXCEPT ![k] = new]
  BY DEF StartRequest, MarkStarted
<1>2. /\ k \in Keys /\ rec[k] # NoRecord /\ rec[k] \in Record
      /\ Pinned(r) = rec[k].route /\ rec[k].body = BodyOf[r]
  BY <1>1, Typed DEF RequestOK, Known, Executing, Pinned
<1>3. RecordGrows(k, new) /\ (~CancelSeen(r) => new.state # "PENDING")
  BY <1>2 DEF RecordGrows, Record, States
<1>4. /\ rec' \in [Keys -> Record \cup {NoRecord}] /\ Grows
      /\ rec'[k] # NoRecord /\ rec'[k] = new
  BY <1>1, <1>2, <1>3, OneRecord
<1>5. CASE CancelSeen(r)
  <2>1. Finish(r, "cancelled") /\ "cancelled" \in Answers
    BY <1>5 DEF StartRequest, Answers
  <2>2. InvocationTypeOK'
    BY <1>1, <1>4, <2>1, Finished DEF InvocationTypeOK, Places, Known, Executing, Answers
  <2> QED
    BY <1>1, <1>4, <2>1, <2>2, Finished, TodoKept, QuietStep
<1>6. CASE ~CancelSeen(r)
  <2>1. Goto(r, "started") /\ UNCHANGED <<told, flight>> /\ "started" \in Places
    BY <1>6 DEF StartRequest, Places, Known, Executing
  <2>2. pc' \in [Requests -> Places] /\ pc'[r] = "started"
        /\ \A q \in Requests : q # r => pc'[q] = pc[q]
    BY <2>1, Went
  <2>3. InvocationTypeOK'
    BY <1>1, <1>4, <2>1, <2>2 DEF InvocationTypeOK, Places, Known, Executing
  <2>4. Cardinality(Tries(r)') < Attempts
    <3>1. Tries(r)' = Tries(r)
      BY <1>1 DEF Tries
    <3> QED
      BY <1>1, <3>1 DEF RequestOK
  <2>5. view'[r].route = rec'[k].route /\ rec'[k].body = BodyOf[r]
        /\ rec'[k].state # "PENDING"
    BY <1>1, <1>2, <1>3, <1>4, <1>6 DEF RecordGrows, Pinned
  <2>6. RequestOK(r)'
    BY <1>4, <2>2, <2>4, <2>5 DEF RequestOK, Known, Executing
  <2> QED
    BY <1>1, <1>4, <2>2, <2>3, <2>6, TodoKept, QuietStep
<1> QED
  BY <1>5, <1>6

LEMMA StartFailsKeeps ==
  ASSUME Base, NEW r \in Requests, StartFails(r)
  PROVE  Base' /\ Grows
<1> USE DEF Base
<1>1. /\ pc[r] = "run"
      /\ UNCHANGED <<rec, tomb, flight, view, lead, told, sent, cxl>>
  BY DEF StartFails, JournalFails
<1>2. CASE Goto(r, "reply") /\ got' = [got EXCEPT ![r] = "unknown"]
  <2>1. pc'[r] = "reply" /\ "reply" \in Places
    BY <1>2, Went DEF Places, Known, Executing
  <2>2. got' \in [Requests -> Results \cup {"none"}] /\ got'[r] = "unknown"
        /\ \A q \in Requests : q # r => got'[q] = got[q]
    BY <1>2 DEF InvocationTypeOK, Results
  <2>3. RequestOK(r)'
    BY <1>1, <2>1, <2>2 DEF RequestOK, Known, Executing, Results
  <2> QED
    BY <1>1, <1>2, <2>1, <2>2, <2>3, MoveKeeps
<1>3. CASE UNCHANGED <<pc, got>>
  <2>1. InvocationTypeOK'
    BY <1>1, <1>3 DEF InvocationTypeOK
  <2> QED
    BY <1>1, <1>3, <2>1, NoGrowth, TodoKept, QuietStep
<1> QED
  BY <1>2, <1>3 DEF StartFails

LEMMA SendKeeps ==
  ASSUME Base, NEW r \in Requests, Send(r)
  PROVE  Base' /\ Grows
<1> DEFINE s == [key |-> KeyOf[r], by |-> r, nth |-> Cardinality(Tries(r)) + 1,
                 route |-> Pinned(r), body |-> BodyOf[r]]
<1> USE DEF Base
<1>1. /\ pc[r] = "started" /\ Goto(r, "sent") /\ sent' = sent \cup {s}
      /\ UNCHANGED <<rec, tomb, flight, view, lead, got, told, cxl>>
  BY DEF Send
<1>2. /\ KeyOf[r] \in Keys /\ BodyOf[r] \in Bodies
      /\ rec[KeyOf[r]] # NoRecord /\ rec[KeyOf[r]].body = BodyOf[r]
      /\ rec[KeyOf[r]].route = Pinned(r) /\ Pinned(r) \in Routes
      /\ rec[KeyOf[r]].state # "PENDING"
  BY <1>1, Typed DEF RequestOK, Known, Executing, Pinned
<1>3. Cardinality(Tries(r)) + 1 \in 1..Attempts
  <2>1. Cardinality(Tries(r)) \in Nat /\ Cardinality(Tries(r)) < Attempts
    BY <1>1, TriesFinite DEF RequestOK
  <2> QED
    BY <2>1, InvocationAssumption
<1>4. pc' \in [Requests -> Places] /\ pc'[r] = "sent"
      /\ \A q \in Requests : q # r => pc'[q] = pc[q]
  BY <1>1, Went DEF Places, Known, Executing
<1>5. InvocationTypeOK'
  BY <1>1, <1>2, <1>3, <1>4 DEF InvocationTypeOK, Places, Known, Executing
<1>6. IsFiniteSet(sent')
  BY <1>1, FS_AddElement
<1>7. \A x \in sent' : SentOK(x)'
  BY <1>1, <1>2 DEF SentOK
<1>8. ASSUME NEW q \in Requests PROVE RequestOK(q)'
  <2>1. CASE q = r
    BY <1>1, <1>2, <1>4, <2>1 DEF RequestOK, Known, Executing, Pinned
  <2>2. CASE q # r
    <3>1. Tries(q)' = Tries(q)
      BY <1>1, <2>2 DEF Tries
    <3> QED
      BY <1>1, <1>4, <2>2, <3>1, NoGrowth, OthersKeep
  <2> QED
    BY <2>1, <2>2
<1> QED
  BY <1>1, <1>5, <1>6, <1>7, <1>8, NoGrowth, TodoKept

LEMMA ReplyKeeps ==
  ASSUME Base, NEW r \in Requests, Reply(r)
  PROVE  Base' /\ Grows
<1> USE DEF Base
<1>1. /\ pc[r] = "sent" /\ RequestOK(r)
      /\ UNCHANGED <<rec, tomb, view, lead, sent, cxl>>
  BY DEF Reply
<1>2. CASE /\ \E result \in Results : got' = [got EXCEPT ![r] = result]
           /\ Goto(r, "reply") /\ UNCHANGED <<told, flight>>
  <2>1. pc'[r] = "reply" /\ "reply" \in Places
    BY <1>2, Went DEF Places, Known, Executing
  <2>2. got' \in [Requests -> Results \cup {"none"}] /\ got'[r] \in Results
        /\ \A q \in Requests : q # r => got'[q] = got[q]
    BY <1>2 DEF InvocationTypeOK
  <2>3. RequestOK(r)'
    BY <1>1, <2>1, <2>2 DEF RequestOK, Known, Executing
  <2> QED
    BY <1>1, <1>2, <2>1, <2>2, <2>3, MoveKeeps
<1>3. CASE /\ Cardinality(Tries(r)) < Attempts
           /\ Goto(r, "run") /\ UNCHANGED <<got, told, flight>>
  <2>1. pc'[r] = "run" /\ "run" \in Places
    BY <1>3, Went DEF Places, Known, Executing
  <2>2. Tries(r)' = Tries(r)
    BY <1>1 DEF Tries
  <2>3. RequestOK(r)'
    BY <1>1, <1>3, <2>1, <2>2 DEF RequestOK, Known, Executing
  <2> QED
    BY <1>1, <1>3, <2>1, <2>3, MoveKeeps DEF InvocationTypeOK
<1>4. CASE Finish(r, "error") /\ UNCHANGED got
  BY <1>1, <1>4, EndKeeps DEF Answers
<1> QED
  BY <1>2, <1>3, <1>4 DEF Reply, Results

LEMMA AbandonKeeps ==
  ASSUME Base, NEW r \in Requests, Abandon(r)
  PROVE  Base' /\ Grows
BY EndKeeps DEF Abandon, Answers

LEMMA CompleteKeeps ==
  ASSUME Base, NEW r \in Requests, Complete(r)
  PROVE  Base' /\ Grows
<1> DEFINE k == KeyOf[r]
<1> USE DEF Base
<1>1. /\ pc[r] = "reply" /\ UNCHANGED <<tomb, view, lead, got, sent, cxl>>
      /\ Finish(r, got[r])
  BY DEF Complete
<1>2. PICK answer \in {"none"} \cup {got[r]} :
        rec' = [rec EXCEPT ![k].state = StateOf(got[r]), ![k].answer = answer]
  BY DEF Complete
<1>3. /\ k \in Keys /\ rec[k] # NoRecord /\ rec[k] \in Record
      /\ got[r] \in Results /\ got[r] \in Answers
  BY <1>1, Typed DEF RequestOK, Known, Executing, Answers
<1>4. StateOf(got[r]) \in States /\ StateOf(got[r]) # "PENDING"
  BY <1>3 DEF StateOf, States, Results
<1>5. RecordGrows(k, [rec[k] EXCEPT !.state = StateOf(got[r]), !.answer = answer])
  BY <1>3, <1>4 DEF RecordGrows, Record
<1>6. rec' \in [Keys -> Record \cup {NoRecord}] /\ Grows
  BY <1>2, <1>3, <1>5, OneRecord
<1>7. InvocationTypeOK'
  BY <1>1, <1>3, <1>6, Finished DEF InvocationTypeOK, Places, Known, Executing, Answers
<1> QED
  BY <1>1, <1>3, <1>6, <1>7, Finished, TodoKept, QuietStep

LEMMA CompleteFailsKeeps ==
  ASSUME Base, NEW r \in Requests, CompleteFails(r)
  PROVE  Base' /\ Grows
<1> USE DEF Base
<1>1. /\ pc[r] = "reply" /\ RequestOK(r)
      /\ UNCHANGED <<rec, tomb, view, lead, sent, cxl>>
  BY DEF CompleteFails, JournalFails
<1>2. CASE got' = [got EXCEPT ![r] = "unknown"] /\ UNCHANGED <<pc, told, flight>>
  <2>1. got' \in [Requests -> Results \cup {"none"}] /\ got'[r] \in Results
        /\ \A q \in Requests : q # r => got'[q] = got[q]
    BY <1>2 DEF InvocationTypeOK, Results
  <2>2. InvocationTypeOK'
    BY <1>1, <1>2, <2>1 DEF InvocationTypeOK
  <2>3. RequestOK(r)'
    BY <1>1, <1>2, <2>1 DEF RequestOK, Known, Executing
  <2> QED
    BY <1>1, <1>2, <2>1, <2>2, <2>3, NoGrowth, TodoKept, QuietStep
<1>3. CASE Finish(r, "error") /\ UNCHANGED got
  BY <1>1, <1>3, EndKeeps DEF Answers
<1> QED
  BY <1>2, <1>3 DEF CompleteFails

(* A handler of a cancellation, and time, move no request.                 *)
LEMMA HandlerKeeps ==
  ASSUME Base, Grows, TodoOK',
         rec' \in [Keys -> Record \cup {NoRecord}], tomb' \subseteq Tasks,
         cxl' \in [Tasks -> [pc : {"idle", "list", "each", "answered"},
                             todo : SUBSET Keys,
                             seen : [Keys -> States \cup {"ABSENT"}]]],
         UNCHANGED <<flight, pc, view, lead, got, told, sent>>
  PROVE  Base'
<1>1. InvocationTypeOK'
  BY DEF Base, InvocationTypeOK
<1> QED
  BY <1>1, QuietStep

LEMMA CancelTaskKeeps ==
  ASSUME Base, NEW t \in Tasks, CancelTask(t)
  PROVE  Base' /\ Grows
<1>1. TodoOK'
  BY DEF Base, TodoOK, CancelTask, InvocationTypeOK
<1>2. cxl' \in [Tasks -> [pc : {"idle", "list", "each", "answered"}, todo : SUBSET Keys,
                          seen : [Keys -> States \cup {"ABSENT"}]]]
  BY DEF Base, CancelTask, InvocationTypeOK
<1> QED
  BY <1>1, <1>2, NoGrowth, HandlerKeeps DEF CancelTask, Base, InvocationTypeOK

LEMMA ListRecordsKeeps ==
  ASSUME Base, NEW t \in Tasks, ListRecords(t)
  PROVE  Base' /\ Grows
<1>1. \A k \in RecordsForTask(t) : k \in Keys /\ rec[k] # NoRecord
  BY InvocationAssumption DEF RecordsForTask, NoRecord
<1>2. TodoOK'
  BY <1>1 DEF Base, TodoOK, ListRecords, InvocationTypeOK
<1>3. cxl' \in [Tasks -> [pc : {"idle", "list", "each", "answered"}, todo : SUBSET Keys,
                          seen : [Keys -> States \cup {"ABSENT"}]]]
  BY <1>1 DEF Base, ListRecords, InvocationTypeOK
<1> QED
  BY <1>2, <1>3, NoGrowth, HandlerKeeps DEF ListRecords, Base, InvocationTypeOK

LEMMA CancelRecordKeeps ==
  ASSUME Base, NEW t \in Tasks, NEW k \in Keys, CancelRecord(t, k)
  PROVE  Base' /\ Grows
<1>1. rec[k] # NoRecord /\ rec[k].state \in States
  BY Typed DEF Base, TodoOK, CancelRecord
<1>2. rec' \in [Keys -> Record \cup {NoRecord}] /\ Grows
  BY <1>1, CancelledGrows, OneRecord DEF Base, CancelRecord
<1>3. cxl' \in [Tasks -> [pc : {"idle", "list", "each", "answered"}, todo : SUBSET Keys,
                          seen : [Keys -> States \cup {"ABSENT"}]]]
  <2> DEFINE less == [cxl EXCEPT ![t].todo = @ \ {k}]
             Type == [Tasks -> [pc : {"idle", "list", "each", "answered"},
                                todo : SUBSET Keys,
                                seen : [Keys -> States \cup {"ABSENT"}]]]
  <2>1. less \in Type
    BY DEF Base, InvocationTypeOK
  <2>2. cxl' = [less EXCEPT ![t].seen[k] = rec[k].state]
    BY DEF CancelRecord
  <2> HIDE DEF less
  <2> QED
    BY <1>1, <2>1, <2>2
<1>4. TodoOK'
  <2> SUFFICES ASSUME NEW u \in Tasks, NEW j \in cxl'[u].todo PROVE rec'[j] # NoRecord
    BY DEF TodoOK
  <2>1. j \in cxl[u].todo
    BY DEF Base, CancelRecord, InvocationTypeOK
  <2>2. j \in Keys /\ rec[j] # NoRecord
    BY <2>1 DEF Base, TodoOK, InvocationTypeOK
  <2> QED
    BY <1>2, <2>2 DEF Grows
<1> QED
  BY <1>2, <1>3, <1>4, HandlerKeeps DEF CancelRecord, Base, InvocationTypeOK

LEMMA AnswerCancelKeeps ==
  ASSUME Base, NEW t \in Tasks, AnswerCancel(t)
  PROVE  Base' /\ Grows
<1>1. TodoOK'
  BY DEF Base, TodoOK, AnswerCancel, InvocationTypeOK
<1>2. cxl' \in [Tasks -> [pc : {"idle", "list", "each", "answered"}, todo : SUBSET Keys,
                          seen : [Keys -> States \cup {"ABSENT"}]]]
  BY DEF Base, AnswerCancel, InvocationTypeOK
<1> QED
  BY <1>1, <1>2, NoGrowth, HandlerKeeps DEF AnswerCancel, Base, InvocationTypeOK

LEMMA ExpireResponseKeeps ==
  ASSUME Base, NEW k \in Keys, ExpireResponse(k)
  PROVE  Base' /\ Grows
<1>1. rec[k] # NoRecord /\ rec[k] \in Record
  BY Typed DEF Base, ExpireResponse, NoRecord
<1>2. RecordGrows(k, [rec[k] EXCEPT !.answer = "none"])
  BY <1>1 DEF RecordGrows, Record
<1>3. rec' \in [Keys -> Record \cup {NoRecord}] /\ Grows
  BY <1>2, OneRecord DEF Base, ExpireResponse
<1> QED
  BY <1>3, TodoKept, HandlerKeeps DEF ExpireResponse, Base, InvocationTypeOK

LEMMA CrashKeeps ==
  ASSUME Base, Crash
  PROVE  Base' /\ Grows
<1>1. /\ UNCHANGED <<rec, tomb, view, lead, got, sent>>
      /\ \A q \in Requests : pc'[q] \in {pc[q], "over"}
  BY DEF Crash
<1>2. TodoOK'
  BY <1>1 DEF Base, TodoOK, Crash, NoCancel
<1>3. cxl' \in [Tasks -> [pc : {"idle", "list", "each", "answered"}, todo : SUBSET Keys,
                          seen : [Keys -> States \cup {"ABSENT"}]]]
  BY DEF Base, Crash, InvocationTypeOK, NoCancel
<1>4. InvocationTypeOK'
  BY <1>1, <1>3 DEF Base, InvocationTypeOK, Crash
<1> QED
  BY <1>1, <1>2, <1>4, NoGrowth, QuietStep

LEMMA StepKeeps ==
  ASSUME Base, [Next]_vars
  PROVE  Base' /\ Grows
<1>1. CASE UNCHANGED vars
  <2>1. Grows /\ InvocationTypeOK' /\ TodoOK'
    BY <1>1, NoGrowth DEF vars, Base, InvocationTypeOK, TodoOK
  <2> QED
    BY <1>1, <2>1, QuietStep DEF vars
<1>2. ASSUME NEW r \in Requests, Execute(r)
      PROVE  Base' /\ Grows
  BY <1>2, StartRequestKeeps, StartFailsKeeps, SendKeeps, ReplyKeeps, AbandonKeeps,
     CompleteKeeps, CompleteFailsKeeps DEF Execute
<1> QED
  BY <1>1, <1>2, ClaimKeeps, ClaimRefusedKeeps, AskedKeeps, CancelOwnKeeps,
     CancelTaskKeeps, ListRecordsKeeps, AnswerCancelKeeps, CancelRecordKeeps,
     ExpireResponseKeeps, CrashKeeps DEF Next

LEMMA InitBase ==
  ASSUME Init
  PROVE  Base
<1>1. InvocationTypeOK
  BY DEF Init, InvocationTypeOK, NoCancel
<1>2. IsFiniteSet(sent) /\ \A s \in sent : SentOK(s)
  BY FS_EmptySet DEF Init
<1>3. TodoOK
  BY DEF Init, TodoOK, NoCancel
<1>4. \A q \in Requests : RequestOK(q)
  BY DEF Init, RequestOK, Known, Executing, Tries
<1> QED
  BY <1>1, <1>2, <1>3, <1>4 DEF Base

(* The base of everything: what a request saw when it claimed its key is   *)
(* still so when it acts on it, whatever others did in between.            *)
THEOREM ClaimsStand == Spec => []Base
<1>1. Init => Base
  BY InitBase
<1>2. Base /\ [Next]_vars => Base'
  BY StepKeeps
<1> QED
  BY <1>1, <1>2, PTL DEF Spec

(* Type correctness; the bound on the attempts is part of it.              *)
THEOREM InvocationTypes == Spec => []InvocationTypeOK
<1>1. Base => InvocationTypeOK
  BY DEF Base
<1> QED
  BY <1>1, ClaimsStand, PTL

(* A key is sent on one route and with one body for ever.                  *)
THEOREM RouteForEver == Spec => []OneRoute
<1>1. Base => OneRoute
  BY DEF Base, SentOK, OneRoute
<1> QED
  BY <1>1, ClaimsStand, PTL

-----------------------------------------------------------------------------
(* Cancellation.                                                           *)

(* Requests with one key that name a task name the same one: the sidecar   *)
(* makes a fresh key for every image of every task (image_grid.py).        *)
OneTask ==
  \A q, r \in Requests :
    KeyOf[q] = KeyOf[r] /\ NoTask \notin {TaskOf[q], TaskOf[r]} => TaskOf[q] = TaskOf[r]

(* The task of a record is the task of a request that claimed it.          *)
TaskClaimed ==
  \A k \in Keys : rec[k].task # NoTask =>
    \E q \in Requests : KeyOf[q] = k /\ TaskOf[q] = rec[k].task

HandlerOK(t) ==
  /\ cxl[t].pc # "idle" => t \in tomb
  /\ cxl[t].todo # {} => cxl[t].pc = "each"
  /\ \A k \in Keys : cxl[t].seen[k] # "ABSENT" => rec[k] # NoRecord /\ rec[k].cancel

(* Request r may have been sent, or may be sent by its next steps.         *)
Acted(r) == pc[r] \in {"started", "sent"} \/ Tries(r) # {}

(* A request of task t past its claim is in the journal under t; once the  *)
(* handler has listed t's records, a request about to start meets its      *)
(* cancellation, and one that has started is seen as started.              *)
CancelOK(r) ==
  LET t == TaskOf[r]
      k == KeyOf[r]
  IN  t # NoTask =>
        /\ pc[r] \in Known \/ Tries(r) # {} => rec[k].task = t
        /\ cxl[t].pc \in {"each", "answered"} =>
             /\ pc[r] = "run" => k \in cxl[t].todo \/ rec[k].cancel
             /\ Acted(r) => k \in cxl[t].todo \/ cxl[t].seen[k] \notin {"ABSENT", "PENDING"}

CancelInv ==
  /\ Base
  /\ TaskClaimed
  /\ \A t \in Tasks : HandlerOK(t)
  /\ \A r \in Requests : CancelOK(r)

(* A record that is there has the task it had, or had none.                *)
LEMMA TaskKept ==
  ASSUME Base, Grows, NEW k \in Keys, rec[k].task # NoTask
  PROVE  rec'[k].task = rec[k].task /\ rec[k] # NoRecord
BY DEF Grows, NoRecord

(* A request that does not move, or ends, while no handler moves.          *)
LEMMA CancelOthers ==
  ASSUME CancelInv, Grows, NEW q \in Requests, pc'[q] \in {pc[q], "over"},
         Tries(q)' = Tries(q), UNCHANGED cxl
  PROVE  CancelOK(q)'
<1> SUFFICES ASSUME TaskOf[q] # NoTask PROVE CancelOK(q)'
  BY DEF CancelOK
<1>1. KeyOf[q] \in Keys /\ CancelOK(q) /\ Base
  BY Typed DEF CancelInv, Base
<1>2. rec[KeyOf[q]].task # NoTask => /\ rec'[KeyOf[q]].task = rec[KeyOf[q]].task
                                     /\ rec[KeyOf[q]] # NoRecord
  BY <1>1, TaskKept
<1>3. rec[KeyOf[q]] # NoRecord /\ rec[KeyOf[q]].cancel => rec'[KeyOf[q]].cancel
  BY <1>1 DEF Grows
<1>4. pc[q] = "run" => rec[KeyOf[q]] # NoRecord
  BY <1>1 DEF Base, RequestOK, Known, Executing
<1>5. pc'[q] \in Known => pc[q] \in Known
  BY DEF Known, Executing
<1> QED
  BY <1>1, <1>2, <1>3, <1>4, <1>5 DEF CancelOK, Acted

LEMMA HandlersStay ==
  ASSUME CancelInv, Grows, UNCHANGED cxl, tomb \subseteq tomb', NEW t \in Tasks
  PROVE  HandlerOK(t)'
<1>1. HandlerOK(t)
  BY DEF CancelInv
<1> QED
  BY <1>1 DEF HandlerOK, Grows

LEMMA ClaimsStay ==
  ASSUME CancelInv, \A k \in Keys : rec'[k].task = rec[k].task
  PROVE  TaskClaimed'
BY DEF CancelInv, TaskClaimed

(* A step of request r; others of its key may end with it.                 *)
LEMMA CancelStep ==
  ASSUME CancelInv, Base', Grows, UNCHANGED <<cxl, tomb>>, TaskClaimed',
         NEW r \in Requests, CancelOK(r)',
         \A q \in Requests \ {r} : pc'[q] \in {pc[q], "over"} /\ Tries(q)' = Tries(q)
  PROVE  CancelInv'
<1>1. \A q \in Requests : CancelOK(q)'
  BY CancelOthers
<1>2. \A t \in Tasks : HandlerOK(t)'
  BY HandlersStay
<1> QED
  BY <1>1, <1>2 DEF CancelInv

(* A step that ends requests and starts none.                              *)
LEMMA CancelEnd ==
  ASSUME CancelInv, Base', Grows, UNCHANGED <<cxl, tomb, sent>>,
         \A k \in Keys : rec'[k].task = rec[k].task,
         \A q \in Requests : pc'[q] \in {pc[q], "over"}
  PROVE  CancelInv'
<1>1. \A q \in Requests : Tries(q)' = Tries(q)
  BY DEF Tries
<1>2. \A q \in Requests : CancelOK(q)'
  BY <1>1, CancelOthers
<1>3. \A t \in Tasks : HandlerOK(t)'
  BY HandlersStay
<1> QED
  BY <1>2, <1>3, ClaimsStay DEF CancelInv

(* Requests that claim, start or go on, one lemma for each action that     *)
(* does not merely end requests.                                           *)
LEMMA ClaimCancels ==
  ASSUME OneTask, CancelInv, Base', Grows, NEW r \in Requests, Claim(r)
  PROVE  CancelInv'
<1> DEFINE k == KeyOf[r]
           t == TaskOf[r]
           v == Claimed(r)
<1>1. /\ Base /\ TaskClaimed /\ k \in Keys /\ t \in Tasks \cup {NoTask}
      /\ pc[r] = "new" /\ rec' = [rec EXCEPT ![k] = v]
      /\ UNCHANGED <<tomb, got, sent, cxl>> /\ RequestOK(r) /\ InvocationTypeOK
  BY Typed DEF CancelInv, Claim, Base
<1>2. /\ rec'[k] = v /\ \A j \in Keys : j # k => rec'[j] = rec[j]
      /\ v.task = IF rec[k].task = NoTask THEN t ELSE rec[k].task
  BY <1>1, ClaimedRecord DEF Claim, InvocationTypeOK
<1>3. TaskClaimed'
  <2> SUFFICES ASSUME NEW j \in Keys, rec'[j].task # NoTask
               PROVE  \E q \in Requests : KeyOf[q] = j /\ TaskOf[q] = rec'[j].task
    BY DEF TaskClaimed
  <2>1. CASE rec'[j].task = rec[j].task
    BY <1>1, <2>1 DEF TaskClaimed
  <2>2. CASE j = k /\ rec'[j].task = t
    BY <2>2
  <2> QED
    BY <1>2, <2>1, <2>2
<1>4. t # NoTask => rec'[k].task = t
  <2>1. CASE rec[k].task # NoTask
    <3>1. PICK q \in Requests : KeyOf[q] = k /\ TaskOf[q] = rec[k].task
      BY <1>1, <2>1 DEF TaskClaimed
    <3> QED
      BY <1>2, <2>1, <3>1 DEF OneTask
  <2> QED
    BY <1>2, <2>1
<1>5. Tries(r)' = {} /\ \A q \in Requests : Tries(q)' = Tries(q)
  BY <1>1 DEF RequestOK, Tries
<1>6. /\ \A q \in Requests \ {r} : pc'[q] \in {pc[q], "over"}
      /\ pc'[r] \in {"over", "joined", "asking"} \/ t = NoTask
  <2>1. CASE \E a \in Answers : Finish(r, a)
    BY <1>1, <2>1, Finished
  <2>2. CASE \E to \in {"joined", "asking"} : Goto(r, to)
    BY <1>1, <2>2, Went DEF Places, Known
  <2>3. CASE Decide(r, v) /\ t = NoTask
    <3>1. v \in Record
      BY <1>1, ClaimedRecord DEF Claim
    <3> QED
      BY <1>1, <2>1, <2>3, <3>1, Decided, Went DEF Places, Known, Executing
  <2> QED
    BY <2>1, <2>2, <2>3 DEF Claim, Answers
<1>7. CancelOK(r)'
  BY <1>4, <1>5, <1>6 DEF CancelOK, Acted
<1> QED
  BY <1>1, <1>3, <1>5, <1>6, <1>7, CancelStep

LEMMA AskedCancels ==
  ASSUME CancelInv, Base', Grows, NEW r \in Requests, Asked(r)
  PROVE  CancelInv'
<1>1. /\ Base /\ InvocationTypeOK /\ pc[r] = "asking" /\ RequestOK(r) /\ CancelOK(r)
      /\ TaskOf[r] \in Tasks \cup {NoTask}
      /\ UNCHANGED <<rec, tomb, cxl, sent>>
  BY Typed DEF CancelInv, Asked, Base
<1>2. Tries(r)' = {} /\ \A q \in Requests : Tries(q)' = Tries(q)
  BY <1>1 DEF RequestOK, Tries
<1>3. CASE \E a \in Answers : Finish(r, a)
  BY <1>1, <1>3, Finished, CancelEnd
<1>4. CASE \E to \in {"cancelling", "run"} :
             Goto(r, to) /\ (to = "run" => TaskOf[r] \notin tomb)
  <2>1. PICK to \in {"cancelling", "run"} :
               Goto(r, to) /\ (to = "run" => TaskOf[r] \notin tomb)
    BY <1>4
  <2>2. pc'[r] = to /\ \A q \in Requests : q # r => pc'[q] = pc[q]
    BY <1>1, <2>1, Went DEF Places, Known, Executing
  <2>3. to = "run" /\ TaskOf[r] # NoTask => cxl[TaskOf[r]].pc = "idle"
    BY <1>1, <2>1 DEF CancelInv, HandlerOK
  <2>4. CancelOK(r)'
    BY <1>1, <1>2, <2>2, <2>3 DEF CancelOK, Acted, Known
  <2> QED
    BY <1>1, <1>2, <2>2, <2>4, CancelStep, ClaimsStay
<1>5. TaskOf[r] \notin tomb => \/ \E a \in Answers : Finish(r, a)
                               \/ Goto(r, "run")
  <2>1. view[r] \in Record
    BY <1>1, Typed, InvocationAssumption
       DEF InvocationTypeOK, RequestOK, Known, NoRecord
  <2> QED
    BY <1>1, <2>1, Decided DEF Asked
<1> QED
  BY <1>3, <1>4, <1>5 DEF Asked

LEMMA StartCancels ==
  ASSUME CancelInv, Base', Grows, NEW r \in Requests, StartRequest(r)
  PROVE  CancelInv'
<1>1. /\ Base /\ InvocationTypeOK /\ pc[r] = "run" /\ CancelOK(r) /\ KeyOf[r] \in Keys
      /\ UNCHANGED <<tomb, cxl, sent>>
      /\ \A k \in Keys : rec'[k].task = rec[k].task
  <2>1. Base /\ InvocationTypeOK /\ rec[KeyOf[r]] \in Record /\ KeyOf[r] \in Keys
    BY Typed DEF CancelInv, StartRequest, Base, RequestOK, Known, Executing
  <2>2. \A k \in Keys : rec'[k].task = rec[k].task
    BY <2>1 DEF StartRequest, MarkStarted, InvocationTypeOK, Record
  <2> QED
    BY <2>1, <2>2 DEF CancelInv, StartRequest
<1>2. \A q \in Requests : Tries(q)' = Tries(q)
  BY <1>1 DEF Tries
<1>3. CASE CancelSeen(r)
  BY <1>1, <1>3, Finished, CancelEnd DEF StartRequest, Answers
<1>4. CASE ~CancelSeen(r)
  <2>1. pc'[r] = "started" /\ \A q \in Requests : q # r => pc'[q] = pc[q]
    BY <1>1, <1>4, Went DEF StartRequest, Places, Known, Executing
  <2>2. CancelOK(r)'
    BY <1>1, <1>2, <1>4, <2>1 DEF CancelOK, Acted, CancelSeen, Known, Executing
  <2> QED
    BY <1>1, <1>2, <2>1, <2>2, CancelStep, ClaimsStay
<1> QED
  BY <1>3, <1>4

LEMMA StartFailsCancels ==
  ASSUME CancelInv, Base', Grows, NEW r \in Requests, StartFails(r)
  PROVE  CancelInv'
<1>1. /\ Base /\ InvocationTypeOK /\ pc[r] = "run" /\ CancelOK(r)
      /\ UNCHANGED <<rec, tomb, cxl, sent>>
  BY DEF CancelInv, StartFails, JournalFails, Base
<1>2. \A q \in Requests : Tries(q)' = Tries(q)
  BY <1>1 DEF Tries
<1>3. CASE UNCHANGED pc
  BY <1>1, <1>3, CancelEnd
<1>4. CASE Goto(r, "reply")
  <2>1. pc'[r] = "reply" /\ \A q \in Requests : q # r => pc'[q] = pc[q]
    BY <1>1, <1>4, Went DEF Places, Known, Executing
  <2>2. CancelOK(r)'
    BY <1>1, <1>2, <2>1 DEF CancelOK, Acted, Known, Executing
  <2> QED
    BY <1>1, <1>2, <2>1, <2>2, CancelStep, ClaimsStay
<1> QED
  BY <1>3, <1>4 DEF StartFails

LEMMA SendCancels ==
  ASSUME CancelInv, Base', Grows, NEW r \in Requests, Send(r)
  PROVE  CancelInv'
<1>1. /\ Base /\ InvocationTypeOK /\ pc[r] = "started" /\ CancelOK(r)
      /\ UNCHANGED <<rec, tomb, cxl>>
  BY DEF CancelInv, Send, Base
<1>2. \A q \in Requests \ {r} : Tries(q)' = Tries(q)
  BY DEF Send, Tries
<1>3. pc'[r] = "sent" /\ \A q \in Requests : q # r => pc'[q] = pc[q]
  BY <1>1, Went DEF Send, Places, Known, Executing
<1>4. CancelOK(r)'
  BY <1>1, <1>3 DEF CancelOK, Acted, Known, Executing
<1> QED
  BY <1>1, <1>2, <1>3, <1>4, CancelStep, ClaimsStay

LEMMA ReplyCancels ==
  ASSUME CancelInv, Base', Grows, NEW r \in Requests, Reply(r)
  PROVE  CancelInv'
<1>1. /\ Base /\ InvocationTypeOK /\ pc[r] = "sent" /\ CancelOK(r)
      /\ KeyOf[r] \in Keys /\ TaskOf[r] \in Tasks \cup {NoTask}
      /\ UNCHANGED <<rec, tomb, cxl, sent>>
  BY Typed DEF CancelInv, Reply, Base
<1>2. \A q \in Requests : Tries(q)' = Tries(q)
  BY <1>1 DEF Tries
<1>3. CASE \E to \in {"reply", "run"} : Goto(r, to)
  <2>1. pc'[r] \in {"reply", "run"} /\ \A q \in Requests : q # r => pc'[q] = pc[q]
    BY <1>1, <1>3, Went DEF Places, Known, Executing
  <2>2. \A t \in Tasks : HandlerOK(t)
    BY DEF CancelInv
  <2>3. CancelOK(r)'
    BY <1>1, <1>2, <2>1, <2>2 DEF CancelOK, Acted, HandlerOK, Known, Executing
  <2> QED
    BY <1>1, <1>2, <2>1, <2>3, CancelStep, ClaimsStay
<1>4. CASE Finish(r, "error")
  BY <1>1, <1>4, Finished, CancelEnd DEF Answers
<1> QED
  BY <1>3, <1>4 DEF Reply

(* Requests that end.                                                      *)
LEMMA EndCancels ==
  ASSUME CancelInv, Base', Grows, NEW r \in Requests,
         ClaimRefused(r) \/ CancelOwn(r) \/ Abandon(r) \/ Complete(r) \/ CompleteFails(r)
  PROVE  CancelInv'
<1> USE DEF Answers
<1>1. Base /\ InvocationTypeOK
  BY DEF CancelInv, Base
<1>2. CASE ClaimRefused(r) \/ Abandon(r)
  BY <1>1, <1>2, Finished, CancelEnd DEF ClaimRefused, Abandon, JournalFails
<1>3. CASE CompleteFails(r)
  <2>1. CASE UNCHANGED pc
    BY <1>3, <2>1, CancelEnd DEF CompleteFails, JournalFails
  <2>2. CASE Finish(r, "error")
    BY <1>1, <1>3, <2>2, Finished, CancelEnd DEF CompleteFails, JournalFails
  <2> QED
    BY <1>3, <2>1, <2>2 DEF CompleteFails
<1>4. CASE CancelOwn(r) \/ Complete(r)
  <2>1. rec[KeyOf[r]] \in Record /\ KeyOf[r] \in Keys /\ (Complete(r) => got[r] \in Results)
    BY <1>1, <1>4, Typed DEF Base, RequestOK, Known, Executing, CancelOwn, Complete
  <2>2. \A k \in Keys : rec'[k].task = rec[k].task
    <3>1. CASE CancelOwn(r)
      BY <1>1, <2>1, <3>1 DEF CancelOwn, InvocationTypeOK, Record
    <3>2. CASE Complete(r)
      <4>1. PICK answer \in {"none"} \cup {got[r]} :
              rec' = [rec EXCEPT ![KeyOf[r]].state = StateOf(got[r]),
                                 ![KeyOf[r]].answer = answer]
        BY <3>2 DEF Complete
      <4>2. rec' = [rec EXCEPT ![KeyOf[r]] =
                      [rec[KeyOf[r]] EXCEPT !.state = StateOf(got[r]), !.answer = answer]]
        BY <4>1
      <4> QED
        BY <1>1, <2>1, <4>2 DEF InvocationTypeOK, Record
    <3> QED
      BY <1>4, <3>1, <3>2
  <2>3. \A q \in Requests : pc'[q] \in {pc[q], "over"}
    BY <1>1, <1>4, <2>1, Finished DEF CancelOwn, Complete
  <2> QED
    BY <1>4, <2>2, <2>3, CancelEnd DEF CancelOwn, Complete
<1> QED
  BY <1>2, <1>3, <1>4

(* The handlers of cancellations.                                          *)
LEMMA CancelTaskCancels ==
  ASSUME CancelInv, Base', NEW t \in Tasks, CancelTask(t)
  PROVE  CancelInv'
<1>1. /\ Base /\ cxl[t].pc = "idle" /\ tomb \subseteq tomb' /\ t \in tomb'
      /\ UNCHANGED <<rec, pc, sent>>
      /\ \A u \in Tasks : /\ cxl'[u].todo = cxl[u].todo /\ cxl'[u].seen = cxl[u].seen
                          /\ u # t => cxl'[u].pc = cxl[u].pc
      /\ cxl'[t].pc = "list"
  BY DEF CancelInv, Base, CancelTask, InvocationTypeOK
<1>2. \A q \in Requests : Tries(q)' = Tries(q)
  BY <1>1 DEF Tries
<1>3. \A u \in Tasks : HandlerOK(u)'
  BY <1>1 DEF CancelInv, HandlerOK
<1>4. ASSUME NEW q \in Requests PROVE CancelOK(q)'
  <2>1. CancelOK(q) /\ TaskOf[q] \in Tasks \cup {NoTask}
    BY <1>1, Typed DEF CancelInv, Base
  <2> QED
    BY <1>1, <1>2, <2>1 DEF CancelOK, Acted
<1> QED
  BY <1>1, <1>3, <1>4, ClaimsStay DEF CancelInv

LEMMA ListRecordsCancels ==
  ASSUME CancelInv, Base', NEW t \in Tasks, ListRecords(t)
  PROVE  CancelInv'
<1>1. /\ Base /\ cxl[t].pc = "list" /\ UNCHANGED <<rec, tomb, pc, sent>>
      /\ \A u \in Tasks : /\ cxl'[u].seen = cxl[u].seen
                          /\ u # t => cxl'[u] = cxl[u]
      /\ cxl'[t].pc = "each" /\ cxl'[t].todo = RecordsForTask(t)
  BY DEF CancelInv, Base, ListRecords, InvocationTypeOK
<1>2. \A q \in Requests : Tries(q)' = Tries(q)
  BY <1>1 DEF Tries
<1>3. \A u \in Tasks : HandlerOK(u)'
  BY <1>1 DEF CancelInv, HandlerOK
<1>4. ASSUME NEW q \in Requests PROVE CancelOK(q)'
  <2>1. CancelOK(q) /\ TaskOf[q] \in Tasks \cup {NoTask} /\ KeyOf[q] \in Keys
    BY <1>1, Typed DEF CancelInv, Base
  <2>2. CASE TaskOf[q] = t
    <3>1. rec[KeyOf[q]].task = t => KeyOf[q] \in cxl'[t].todo
      BY <1>1, <2>1 DEF RecordsForTask
    <3> QED
      BY <1>1, <1>2, <2>1, <2>2, <3>1 DEF CancelOK, Acted, Known, Executing
  <2>3. CASE TaskOf[q] # t
    BY <1>1, <1>2, <2>1, <2>3 DEF CancelOK, Acted
  <2> QED
    BY <2>2, <2>3
<1> QED
  BY <1>1, <1>3, <1>4, ClaimsStay DEF CancelInv

LEMMA CancelRecordCancels ==
  ASSUME CancelInv, Base', Grows, NEW t \in Tasks, NEW k \in Keys, CancelRecord(t, k)
  PROVE  CancelInv'
<1>1. /\ Base /\ InvocationTypeOK /\ k \in cxl[t].todo /\ cxl[t].pc = "each"
      /\ UNCHANGED <<tomb, pc, sent>>
      /\ rec[k] # NoRecord /\ rec[k] \in Record
  BY Typed DEF CancelInv, HandlerOK, Base, TodoOK, CancelRecord
<1>2. /\ \A j \in Keys : /\ rec'[j].task = rec[j].task
                         /\ j # k => rec'[j] = rec[j]
      /\ rec'[k].cancel /\ rec'[k] # NoRecord
  BY <1>1 DEF CancelRecord, InvocationTypeOK, Record, Grows
<1>3. /\ \A u \in Tasks : u # t => cxl'[u] = cxl[u]
      /\ cxl'[t].pc = "each" /\ cxl'[t].todo = cxl[t].todo \ {k}
      /\ \A j \in Keys : cxl'[t].seen[j] = IF j = k THEN rec[k].state ELSE cxl[t].seen[j]
  BY <1>1 DEF CancelRecord, InvocationTypeOK
<1>4. \A q \in Requests : Tries(q)' = Tries(q)
  BY <1>1 DEF Tries
<1>5. ASSUME NEW u \in Tasks PROVE HandlerOK(u)'
  <2>1. HandlerOK(u)
    BY DEF CancelInv
  <2> QED
    BY <1>1, <1>2, <1>3, <2>1 DEF HandlerOK, Grows
<1>6. ASSUME NEW q \in Requests PROVE CancelOK(q)'
  <2>1. CancelOK(q) /\ TaskOf[q] \in Tasks \cup {NoTask} /\ KeyOf[q] \in Keys
    BY <1>1, Typed DEF CancelInv
  <2>2. CASE TaskOf[q] # t \/ KeyOf[q] # k
    BY <1>1, <1>2, <1>3, <1>4, <2>1, <2>2 DEF CancelOK, Acted
  <2>3. CASE TaskOf[q] = t /\ KeyOf[q] = k
    <3>1. Acted(q) => rec[k].state # "PENDING"
      <4>1. pc[q] \in {"started", "sent"} => rec[k].state # "PENDING"
        BY <1>1, <2>3 DEF Base, RequestOK
      <4>2. \A s \in Tries(q) : rec[k].state # "PENDING"
        BY <1>1, <2>3 DEF Base, SentOK, Tries
      <4> QED
        BY <4>1, <4>2 DEF Acted
    <3>2. rec[k].state # "ABSENT"
      BY <1>1 DEF Record, States
    <3>3. Acted(q)' <=> Acted(q)
      BY <1>1, <1>4 DEF Acted
    <3> QED
      BY <1>1, <1>2, <1>3, <1>4, <2>1, <2>3, <3>1, <3>2, <3>3 DEF CancelOK
  <2> QED
    BY <2>2, <2>3
<1> QED
  BY <1>1, <1>2, <1>5, <1>6, ClaimsStay DEF CancelInv

LEMMA AnswerCancels ==
  ASSUME CancelInv, Base', NEW t \in Tasks, AnswerCancel(t)
  PROVE  CancelInv'
<1>1. /\ Base /\ UNCHANGED <<rec, tomb, pc, sent>> /\ cxl[t].pc = "each"
      /\ \A u \in Tasks : /\ cxl'[u].seen = cxl[u].seen /\ cxl'[u].todo = cxl[u].todo
                          /\ u # t => cxl'[u] = cxl[u]
      /\ cxl'[t].pc = "answered" /\ cxl[t].todo = {}
  BY DEF CancelInv, Base, AnswerCancel, InvocationTypeOK
<1>2. \A q \in Requests : Tries(q)' = Tries(q)
  BY <1>1 DEF Tries
<1>3. \A u \in Tasks : HandlerOK(u)'
  BY <1>1 DEF CancelInv, HandlerOK
<1>4. ASSUME NEW q \in Requests PROVE CancelOK(q)'
  <2>1. CancelOK(q) /\ TaskOf[q] \in Tasks \cup {NoTask}
    BY <1>1, Typed DEF CancelInv, Base
  <2> QED
    BY <1>1, <1>2, <2>1 DEF CancelOK, Acted
<1> QED
  BY <1>1, <1>3, <1>4, ClaimsStay DEF CancelInv

LEMMA ExpireCancels ==
  ASSUME CancelInv, Base', Grows, NEW k \in Keys, ExpireResponse(k)
  PROVE  CancelInv'
<1>1. Base /\ InvocationTypeOK /\ rec[k] \in Record
  BY Typed DEF CancelInv, Base, ExpireResponse, NoRecord
<1>2. \A j \in Keys : rec'[j].task = rec[j].task
  BY <1>1 DEF ExpireResponse, InvocationTypeOK, Record
<1> QED
  BY <1>2, CancelEnd DEF ExpireResponse

LEMMA CrashCancels ==
  ASSUME CancelInv, Base', Grows, Crash
  PROVE  CancelInv'
<1>1. /\ Base /\ UNCHANGED <<rec, tomb, sent>>
      /\ \A q \in Requests : pc'[q] \in {"new", "over"} /\ (pc'[q] = "new" => pc[q] = "new")
      /\ \A t \in Tasks : cxl'[t] \in {cxl[t], NoCancel} /\ cxl'[t].pc \in {"idle", "answered"}
  BY DEF CancelInv, Base, Crash, NoCancel
<1>2. \A q \in Requests : Tries(q)' = Tries(q)
  BY <1>1 DEF Tries
<1>3. ASSUME NEW t \in Tasks PROVE HandlerOK(t)'
  <2>1. HandlerOK(t)
    BY DEF CancelInv
  <2>2. CASE cxl'[t] = cxl[t]
    BY <1>1, <2>1, <2>2 DEF HandlerOK
  <2>3. CASE cxl'[t] = NoCancel
    BY <2>3 DEF HandlerOK, NoCancel
  <2> QED
    BY <1>1, <2>2, <2>3
<1>4. ASSUME NEW q \in Requests PROVE CancelOK(q)'
  <2>1. CancelOK(q) /\ TaskOf[q] \in Tasks \cup {NoTask}
    BY <1>1, Typed DEF CancelInv, Base
  <2>2. TaskOf[q] # NoTask /\ cxl'[TaskOf[q]].pc = "answered"
          => cxl'[TaskOf[q]] = cxl[TaskOf[q]]
    BY <1>1, <2>1 DEF NoCancel
  <2> QED
    BY <1>1, <1>2, <2>1, <2>2 DEF CancelOK, Acted, Known, Executing
<1> QED
  BY <1>1, <1>3, <1>4, ClaimsStay DEF CancelInv

LEMMA InitCancels ==
  ASSUME Init
  PROVE  CancelInv
<1>1. Base
  BY InitBase
<1>2. TaskClaimed /\ \A t \in Tasks : HandlerOK(t)
  BY DEF Init, TaskClaimed, HandlerOK, NoRecord, NoCancel
<1>3. \A r \in Requests : CancelOK(r)
  <2> SUFFICES ASSUME NEW r \in Requests PROVE CancelOK(r)
    OBVIOUS
  <2>1. TaskOf[r] \in Tasks \cup {NoTask} /\ Tries(r) = {} /\ pc[r] = "new"
    BY InvocationAssumption DEF Init, Tries
  <2> QED
    BY <2>1 DEF Init, CancelOK, NoCancel, Known, Executing
<1> QED
  BY <1>1, <1>2, <1>3 DEF CancelInv

LEMMA StepCancels ==
  ASSUME OneTask, CancelInv, [Next]_vars
  PROVE  CancelInv'
<1>1. Base' /\ Grows
  BY StepKeeps DEF CancelInv
<1>2. CASE UNCHANGED vars
  BY <1>1, <1>2, CancelEnd DEF vars
<1>3. ASSUME NEW r \in Requests, Execute(r)
      PROVE  CancelInv'
  BY <1>1, <1>3, StartCancels, StartFailsCancels, SendCancels, ReplyCancels, EndCancels
     DEF Execute
<1>4. ASSUME NEW r \in Requests, Claim(r) \/ ClaimRefused(r) \/ Asked(r) \/ CancelOwn(r)
      PROVE  CancelInv'
  BY <1>1, <1>4, ClaimCancels, AskedCancels, EndCancels
<1> QED
  BY <1>1, <1>2, <1>3, <1>4, CancelTaskCancels, ListRecordsCancels, AnswerCancels,
     CancelRecordCancels, ExpireCancels, CrashCancels DEF Next

(* An answered cancellation is true, however the handler, the requests of  *)
(* the task, their retries and crashes interleave: a key it did not list,  *)
(* or listed as not started, is never sent for the task.                   *)
THEOREM CancelIsTrue ==
  ASSUME OneTask
  PROVE  Spec => []CancelTruth
<1>1. CancelInv => CancelTruth
  <2> SUFFICES ASSUME CancelInv, NEW t \in Tasks, cxl[t].pc = "answered",
                      NEW s \in sent, TaskOf[s.by] = t
               PROVE  cxl[t].seen[s.key] \notin {"ABSENT", "PENDING"}
    BY DEF CancelTruth
  <2>1. s.by \in Requests /\ s.key = KeyOf[s.by] /\ s \in Tries(s.by)
    BY DEF CancelInv, Base, InvocationTypeOK, SentOK, Tries
  <2>2. cxl[t].todo = {} /\ t # NoTask
    BY InvocationAssumption DEF CancelInv, HandlerOK
  <2> QED
    BY <2>1, <2>2 DEF CancelInv, CancelOK, Acted
<1>2. Init => CancelInv
  BY InitCancels
<1>3. CancelInv /\ [Next]_vars => CancelInv'
  BY StepCancels
<1> QED
  BY <1>1, <1>2, <1>3, PTL DEF Spec

-----------------------------------------------------------------------------
(* One call of the user's provider for each key.                           *)

(* The result a request was told, and the state of the record.             *)
Fits(result, state) ==
  \/ state = StateOf(result)
  \/ result = "unknown" /\ state = "IN_FLIGHT"

KeyOK(k) ==
  /\ flight[k] # NoOne => KeyOf[flight[k]] = k /\ pc[flight[k]] \in Executing
  /\ rec[k].answer # "none" => rec[k].state = StateOf(rec[k].answer)

(* The in-flight map names the one request that executes a key; it met a   *)
(* PENDING record, so nothing was sent before; once a result is told, the  *)
(* record says so and nobody executes the key.                             *)
OnceOK(r) ==
  LET k == KeyOf[r]
  IN  /\ pc[r] \in Executing => flight[k] = r
      /\ pc[r] \in {"asking", "cancelling"} => TaskOf[r] # NoTask
      /\ pc[r] = "asking" =>
           /\ view[r].state = rec[k].state
           /\ view[r].answer # "none" => view[r].state = StateOf(view[r].answer)
      /\ pc[r] = "joined" => /\ lead[r] \in Requests /\ pc[lead[r]] \in Executing
                             /\ KeyOf[lead[r]] = k
      /\ pc[r] \in {"run", "started"} /\ view[r].route \in ByokRoutes =>
           \A s \in sent : s.key # k
      /\ told[r] \in Results =>
           /\ rec[k] # NoRecord
           /\ rec[k].route \in ByokRoutes => flight[k] = NoOne /\ Fits(told[r], rec[k].state)

OnceInv ==
  /\ Base
  /\ \A k \in Keys : KeyOK(k)
  /\ \A r \in Requests : OnceOK(r)
  /\ AtMostOnce

(* What a step on key k leaves alone.                                      *)
OnlyKey(k) ==
  /\ \A j \in Keys \ {k} : rec'[j] = rec[j] /\ flight'[j] = flight[j]
  /\ \A q \in Requests : KeyOf[q] # k =>
       pc'[q] = pc[q] /\ told'[q] = told[q] /\ view'[q] = view[q] /\ lead'[q] = lead[q]
  /\ \A s \in sent' \ sent : s.key = k

LEMMA OtherRequests ==
  ASSUME OnceInv, NEW k \in Keys, OnlyKey(k), NEW q \in Requests, KeyOf[q] # k
  PROVE  OnceOK(q)'
<1>1. OnceOK(q) /\ KeyOf[q] \in Keys
  BY Typed DEF OnceInv, Base
<1>2. /\ rec'[KeyOf[q]] = rec[KeyOf[q]] /\ flight'[KeyOf[q]] = flight[KeyOf[q]]
      /\ pc'[q] = pc[q] /\ told'[q] = told[q] /\ view'[q] = view[q] /\ lead'[q] = lead[q]
      /\ \A s \in sent' \ sent : s.key # KeyOf[q]
  BY <1>1 DEF OnlyKey
<1>3. pc[q] = "joined" => pc'[lead[q]] = pc[lead[q]]
  BY <1>1 DEF OnceOK, OnlyKey
<1> QED
  BY <1>1, <1>2, <1>3 DEF OnceOK

LEMMA OtherKeys ==
  ASSUME OnceInv, NEW k \in Keys, OnlyKey(k), NEW j \in Keys, j # k
  PROVE  KeyOK(j)'
<1>1. KeyOK(j) /\ flight[j] \in Requests \cup {NoOne}
  BY DEF OnceInv, Base, InvocationTypeOK
<1>2. flight[j] # NoOne => pc'[flight[j]] = pc[flight[j]]
  BY <1>1 DEF KeyOK, OnlyKey
<1> QED
  BY <1>1, <1>2 DEF KeyOK, OnlyKey

(* While a request asks about its task, nobody executes its key.           *)
LEMMA Alone ==
  ASSUME AsksAlone, OnceInv, NEW r \in Requests, pc[r] = "asking"
  PROVE  /\ flight[KeyOf[r]] = NoOne
         /\ \A q \in Requests \ {r} : KeyOf[q] = KeyOf[r] => pc[q] \notin {"asking"} \cup Executing
<1>1. /\ \A q \in Requests : OnceOK(q) /\ RequestOK(q)
      /\ KeyOf[r] \in Keys /\ KeyOK(KeyOf[r])
      /\ flight[KeyOf[r]] \in Requests \cup {NoOne}
  BY Typed DEF OnceInv, Base, InvocationTypeOK
<1>2. \A q \in Requests \ {r} : KeyOf[q] = KeyOf[r] => pc[q] \notin {"asking"} \cup Executing
  <2> SUFFICES ASSUME NEW q \in Requests \ {r}, KeyOf[q] = KeyOf[r],
                      pc[q] \in {"asking"} \cup Executing
               PROVE  FALSE
    OBVIOUS
  <2>1. BodyOf[q] = BodyOf[r]
    BY <1>1 DEF RequestOK, Known
  <2> QED
    BY <2>1 DEF AsksAlone
<1> QED
  BY <1>1, <1>2 DEF KeyOK, Executing

(* The end of r is an affair of its key.                                   *)
LEMMA FinishHere ==
  ASSUME OnceInv, NEW r \in Requests, NEW a \in Answers, Finish(r, a),
         \A j \in Keys \ {KeyOf[r]} : rec'[j] = rec[j],
         \A q \in Requests \ {r} : view'[q] = view[q], UNCHANGED <<lead, sent>>
  PROVE  /\ OnlyKey(KeyOf[r])
         /\ \A q \in Served(r) : KeyOf[q] = KeyOf[r]
<1>1. InvocationTypeOK /\ KeyOf[r] \in Keys
  BY Typed DEF OnceInv, Base
<1>2. \A q \in Served(r) : KeyOf[q] = KeyOf[r]
  BY DEF Served, OnceInv, OnceOK
<1>3. \A j \in Keys : flight[j] = r => j = KeyOf[r]
  BY InvocationAssumption DEF OnceInv, KeyOK
<1> QED
  BY <1>1, <1>2, <1>3, Finished DEF OnlyKey

LEMMA EndOnce ==
  ASSUME AsksAlone, OnceInv, Base', Grows,
         NEW r \in Requests, NEW a \in Answers, Finish(r, a),
         \A j \in Keys \ {KeyOf[r]} : rec'[j] = rec[j],
         \A q \in Requests \ {r} : view'[q] = view[q], UNCHANGED <<lead, sent>>,
         rec[KeyOf[r]] # NoRecord => \/ rec'[KeyOf[r]].state = rec[KeyOf[r]].state
                                     \/ pc[r] \in Executing,
         rec'[KeyOf[r]].answer # "none" =>
           rec'[KeyOf[r]].state = StateOf(rec'[KeyOf[r]].answer),
         a \in Results => /\ rec'[KeyOf[r]] # NoRecord
                          /\ rec'[KeyOf[r]].route \in ByokRoutes =>
                               /\ flight[KeyOf[r]] \in {r, NoOne}
                               /\ Fits(a, rec'[KeyOf[r]].state)
  PROVE  OnceInv'
<1> DEFINE k == KeyOf[r]
<1>1. /\ Base /\ InvocationTypeOK /\ k \in Keys /\ OnlyKey(k) /\ KeyOK(k)
      /\ \A q \in Served(r) : KeyOf[q] = k
      /\ \A q \in Requests : OnceOK(q) /\ RequestOK(q)
  BY FinishHere, Typed DEF OnceInv, Base
<1>2. /\ \A q \in Requests \ Served(r) : told'[q] = told[q] /\ pc'[q] = pc[q]
      /\ \A q \in Served(r) : told'[q] = a /\ pc'[q] = "over"
      /\ r \in Served(r) /\ flight'[k] = IF flight[k] = r THEN NoOne ELSE flight[k]
  BY <1>1, Finished
<1>3. \A q \in Requests : pc[q] \in Executing /\ q # r => q \notin Served(r)
  BY DEF Served, Executing
<1>4. KeyOK(k)'
  <2>1. flight[k] \in Requests \cup {NoOne}
    BY <1>1 DEF InvocationTypeOK
  <2>2. flight'[k] # NoOne => KeyOf[flight'[k]] = k /\ pc'[flight'[k]] \in Executing
    BY <1>1, <1>2, <1>3, <2>1 DEF KeyOK
  <2> QED
    BY <2>2 DEF KeyOK
<1>5. ASSUME NEW q \in Served(r) PROVE OnceOK(q)'
  <2>1. KeyOf[q] = k /\ pc'[q] = "over" /\ told'[q] = a
    BY <1>1, <1>2, <1>5
  <2>2. flight[k] \in {r, NoOne} => flight'[k] = NoOne
    BY <1>2
  <2> QED
    BY <2>1, <2>2 DEF OnceOK, Executing
<1>6. ASSUME NEW q \in Requests \ Served(r), KeyOf[q] = k PROVE OnceOK(q)'
  <2>1. /\ q # r /\ pc'[q] = pc[q] /\ told'[q] = told[q] /\ view'[q] = view[q]
        /\ OnceOK(q) /\ RequestOK(q)
    BY <1>1, <1>2, <1>6
  <2>2. pc'[q] \in Executing => flight'[k] = q
    BY <1>2, <1>6, <2>1 DEF OnceOK
  <2>3. pc[q] = "asking" => pc[r] \notin Executing /\ rec[k] # NoRecord
    BY <1>6, <2>1, Alone DEF RequestOK, Known
  <2>4. pc[q] = "joined" => pc'[lead[q]] = pc[lead[q]]
    BY <1>2, <1>3, <1>6, <2>1 DEF OnceOK, Served
  <2>5. told[q] \in Results =>
          /\ rec'[k] # NoRecord
          /\ rec'[k].route \in ByokRoutes => flight'[k] = NoOne /\ Fits(told[q], rec'[k].state)
    <3> SUFFICES ASSUME told[q] \in Results
                 PROVE  /\ rec'[k] # NoRecord
                        /\ rec'[k].route \in ByokRoutes =>
                             flight'[k] = NoOne /\ Fits(told[q], rec'[k].state)
      OBVIOUS
    <3>1. /\ rec[k] # NoRecord /\ rec'[k] # NoRecord /\ rec'[k].route = rec[k].route
          /\ rec[k].route \in ByokRoutes => flight[k] = NoOne /\ Fits(told[q], rec[k].state)
      BY <1>1, <1>6, <2>1 DEF OnceOK, Grows
    <3>2. rec[k].route \in ByokRoutes => pc[r] \notin Executing
      BY <1>1, <3>1, InvocationAssumption DEF OnceOK
    <3> QED
      BY <1>2, <3>1, <3>2
  <2> QED
    BY <1>6, <2>1, <2>2, <2>3, <2>4, <2>5 DEF OnceOK
<1>7. AtMostOnce'
  BY DEF OnceInv, AtMostOnce
<1> QED
  BY <1>1, <1>4, <1>5, <1>6, <1>7, OtherRequests, OtherKeys DEF OnceInv

(* An executing request goes on, with what the journal and the provider    *)
(* make of it.                                                             *)
LEMMA MoveOnce ==
  ASSUME AsksAlone, OnceInv, Base', Grows, AtMostOnce',
         NEW r \in Requests, pc[r] \in Executing, pc'[r] \in Executing,
         \A q \in Requests \ {r} : pc'[q] = pc[q],
         UNCHANGED <<flight, view, lead, told>>,
         \A j \in Keys \ {KeyOf[r]} : rec'[j] = rec[j],
         rec'[KeyOf[r]].answer # "none" =>
           rec'[KeyOf[r]].state = StateOf(rec'[KeyOf[r]].answer),
         \A s \in sent' \ sent : s.key = KeyOf[r],
         pc'[r] \in {"run", "started"} /\ view[r].route \in ByokRoutes =>
           \A s \in sent' : s.key # KeyOf[r]
  PROVE  OnceInv'
<1> DEFINE k == KeyOf[r]
<1>1. /\ Base /\ k \in Keys /\ flight[k] = r /\ KeyOK(k)
      /\ \A q \in Requests : OnceOK(q) /\ RequestOK(q)
  BY Typed DEF OnceInv, Base, OnceOK
<1>2. OnlyKey(k)
  BY DEF OnlyKey
<1>3. KeyOK(k)'
  BY <1>1 DEF KeyOK
<1>4. ASSUME NEW q \in Requests, KeyOf[q] = k PROVE OnceOK(q)'
  <2>1. OnceOK(q) /\ r # NoOne
    BY <1>1, InvocationAssumption
  <2>2. told[q] \in Results => rec[k] # NoRecord /\ rec[k].route \notin ByokRoutes
    BY <1>1, <1>4, <2>1 DEF OnceOK
  <2>3. told'[q] \in Results => rec'[k] # NoRecord /\ rec'[k].route \notin ByokRoutes
    BY <1>1, <2>2 DEF Grows
  <2>4. CASE q = r
    BY <1>1, <2>1, <2>3, <2>4 DEF OnceOK, Executing
  <2>5. CASE q # r
    <3>1. pc'[q] = pc[q] /\ pc[q] \notin Executing /\ pc[q] \notin {"asking"}
      BY <1>1, <1>4, <2>1, <2>5, Alone DEF OnceOK
    <3>2. pc[q] = "joined" => pc'[lead[q]] \in Executing
      BY <2>1 DEF OnceOK
    <3> QED
      BY <1>1, <1>4, <2>1, <2>3, <3>1, <3>2 DEF OnceOK, Executing
  <2> QED
    BY <2>4, <2>5
<1> QED
  BY <1>1, <1>2, <1>3, <1>4, OtherRequests, OtherKeys DEF OnceInv

(* A request starts to execute its key: the record is PENDING for the      *)
(* user's provider, so nothing was sent and nobody was told a result.      *)
LEMMA RunOnce ==
  ASSUME OnceInv, Base', Grows,
         NEW r \in Requests, pc'[r] = "run", flight[KeyOf[r]] = NoOne,
         flight' = [flight EXCEPT ![KeyOf[r]] = r],
         \A q \in Requests \ {r} : pc'[q] = pc[q] /\ view'[q] = view[q],
         UNCHANGED <<lead, told, sent>>,
         \A j \in Keys \ {KeyOf[r]} : rec'[j] = rec[j],
         rec[KeyOf[r]] # NoRecord =>
           rec'[KeyOf[r]].state = rec[KeyOf[r]].state,
         rec'[KeyOf[r]].answer # "none" =>
           rec'[KeyOf[r]].state = StateOf(rec'[KeyOf[r]].answer),
         rec'[KeyOf[r]].route \in ByokRoutes => rec'[KeyOf[r]].state = "PENDING"
  PROVE  OnceInv'
<1> DEFINE k == KeyOf[r]
<1>1. /\ Base /\ k \in Keys /\ InvocationTypeOK /\ \A q \in Requests : OnceOK(q) /\ RequestOK(q)
      /\ RequestOK(r)' /\ \A s \in sent : SentOK(s)'
  BY Typed DEF OnceInv, Base
<1>2. flight'[k] = r /\ \A j \in Keys \ {k} : flight'[j] = flight[j]
  BY <1>1 DEF InvocationTypeOK
<1>3. OnlyKey(k)
  BY <1>2 DEF OnlyKey
<1>4. KeyOK(k)'
  BY <1>2 DEF KeyOK, Executing
<1>5. rec'[k].route \in ByokRoutes => \A s \in sent : s.key # k
  BY <1>1 DEF SentOK
<1>6. rec'[k].route = view'[r].route
  BY <1>1 DEF RequestOK, Executing
<1>7. ASSUME NEW q \in Requests, KeyOf[q] = k, told[q] \in Results
      PROVE  rec'[k] # NoRecord /\ rec'[k].route \notin ByokRoutes
  <2>1. rec[k] # NoRecord /\ (rec[k].route \in ByokRoutes => Fits(told[q], rec[k].state))
    BY <1>1, <1>7 DEF OnceOK
  <2>2. ~Fits(told[q], "PENDING")
    BY <1>7 DEF Fits, StateOf, Results
  <2> QED
    BY <1>1, <2>1, <2>2 DEF Grows
<1>8. ASSUME NEW q \in Requests, KeyOf[q] = k PROVE OnceOK(q)'
  <2>1. OnceOK(q) /\ RequestOK(q) /\ flight[k] = NoOne
    BY <1>1
  <2>2. CASE q = r
    BY <1>2, <1>5, <1>6, <1>7, <2>2 DEF OnceOK, Executing
  <2>3. CASE q # r
    <3>1. pc'[q] = pc[q] /\ pc[q] \notin Executing
      BY <1>8, <2>1, <2>3, InvocationAssumption DEF OnceOK
    <3>2. pc[q] # "joined"
      BY <1>1, <1>8, <2>1, InvocationAssumption DEF OnceOK
    <3>3. pc[q] = "asking" => rec[k] # NoRecord
      BY <1>8, <2>1 DEF RequestOK, Known
    <3> QED
      BY <1>7, <1>8, <2>1, <2>3, <3>1, <3>2, <3>3 DEF OnceOK, Executing
  <2> QED
    BY <2>2, <2>3
<1>9. AtMostOnce'
  BY DEF OnceInv, AtMostOnce
<1> QED
  BY <1>1, <1>3, <1>4, <1>8, <1>9, OtherRequests, OtherKeys DEF OnceInv

(* A request begins to wait: for the execution of its key, for the answer  *)
(* about its task, or for its own cancellation.                            *)
LEMMA WaitOnce ==
  ASSUME OnceInv, Base', Grows,
         NEW r \in Requests, pc[r] \in {"new", "asking"},
         pc'[r] \in {"joined", "asking", "cancelling"},
         \A q \in Requests \ {r} : /\ pc'[q] = pc[q] /\ view'[q] = view[q]
                                   /\ lead'[q] = lead[q],
         UNCHANGED <<flight, told, sent>>,
         \A j \in Keys \ {KeyOf[r]} : rec'[j] = rec[j],
         rec[KeyOf[r]] # NoRecord =>
           rec'[KeyOf[r]].state = rec[KeyOf[r]].state,
         rec'[KeyOf[r]].answer # "none" =>
           rec'[KeyOf[r]].state = StateOf(rec'[KeyOf[r]].answer),
         pc'[r] \in {"asking", "cancelling"} => TaskOf[r] # NoTask,
         pc'[r] = "asking" => view'[r] = rec'[KeyOf[r]],
         pc'[r] = "joined" => flight[KeyOf[r]] # NoOne /\ lead'[r] = flight[KeyOf[r]]
  PROVE  OnceInv'
<1> DEFINE k == KeyOf[r]
<1>1. /\ Base /\ InvocationTypeOK /\ k \in Keys /\ KeyOK(k)
      /\ \A q \in Requests : OnceOK(q) /\ RequestOK(q)
      /\ flight[k] \in Requests \cup {NoOne}
  BY Typed DEF OnceInv, Base, InvocationTypeOK
<1>2. OnlyKey(k)
  BY DEF OnlyKey
<1>3. flight[k] # NoOne => flight[k] # r /\ pc'[flight[k]] = pc[flight[k]]
  BY <1>1 DEF KeyOK, Executing
<1>4. KeyOK(k)'
  BY <1>1, <1>3 DEF KeyOK
<1>5. ASSUME NEW q \in Requests, KeyOf[q] = k, told[q] \in Results
      PROVE  /\ rec'[k] # NoRecord
             /\ rec'[k].route \in ByokRoutes => flight[k] = NoOne /\ Fits(told[q], rec'[k].state)
  BY <1>1, <1>5 DEF OnceOK, Grows
<1>6. ASSUME NEW q \in Requests, KeyOf[q] = k PROVE OnceOK(q)'
  <2>1. OnceOK(q) /\ RequestOK(q)
    BY <1>1
  <2>2. CASE q = r
    BY <1>1, <1>3, <1>5, <2>1, <2>2 DEF OnceOK, KeyOK, Executing
  <2>3. CASE q # r
    <3>1. /\ pc'[q] = pc[q] /\ view'[q] = view[q] /\ lead'[q] = lead[q] /\ told'[q] = told[q]
      BY <2>3
    <3>2. pc[q] = "joined" => pc'[lead[q]] = pc[lead[q]]
      BY <1>1, <2>1 DEF OnceOK, Executing
    <3>3. pc[q] = "asking" => rec[k] # NoRecord
      BY <1>6, <2>1 DEF RequestOK, Known
    <3> QED
      BY <1>5, <1>6, <2>1, <3>1, <3>2, <3>3 DEF OnceOK
  <2> QED
    BY <2>2, <2>3
<1>7. AtMostOnce'
  BY DEF OnceInv, AtMostOnce
<1> QED
  BY <1>1, <1>2, <1>4, <1>6, <1>7, OtherRequests, OtherKeys DEF OnceInv

(* A step that moves no request and no state.                              *)
LEMMA QuietOnce ==
  ASSUME OnceInv, Base', Grows, UNCHANGED <<flight, pc, view, lead, told, sent>>,
         \A k \in Keys : /\ rec'[k].state = rec[k].state
                         /\ rec'[k].answer \in {rec[k].answer, "none"}
  PROVE  OnceInv'
<1>1. ASSUME NEW k \in Keys PROVE KeyOK(k)'
  BY <1>1 DEF OnceInv, KeyOK
<1>2. ASSUME NEW q \in Requests PROVE OnceOK(q)'
  <2>1. OnceOK(q) /\ KeyOf[q] \in Keys
    BY Typed DEF OnceInv, Base
  <2> QED
    BY <2>1 DEF OnceOK, Grows
<1>3. AtMostOnce'
  BY DEF OnceInv, AtMostOnce
<1> QED
  BY <1>1, <1>2, <1>3 DEF OnceInv

(* What a claim's record makes of a request, once more: a result it is     *)
(* told at once is the record's.                                           *)
LEMMA DecidedOnce ==
  ASSUME InvocationTypeOK, NEW r \in Requests, NEW v \in Record, Decide(r, v),
         v.answer # "none" => v.state = StateOf(v.answer)
  PROVE  \/ \E a \in Answers : /\ Finish(r, a)
                               /\ a \in Results => Fits(a, v.state)
         \/ /\ Goto(r, "run") /\ flight' = [flight EXCEPT ![KeyOf[r]] = r]
            /\ UNCHANGED told
            /\ v.route \in ByokRoutes => v.state = "PENDING"
<1>1. v.answer \in Results \cup {"none"} /\ Unavailable(v) \in {"unknown", "expired"}
      /\ v.cancel \in BOOLEAN
  BY DEF Record, Unavailable
<1>2. Unavailable(v) = "unknown" => Fits("unknown", v.state)
  BY DEF Unavailable, Fits, StateOf
<1>3. "unknown" \in Results /\ "expired" \notin Results /\ "cancelled" \notin Results
  BY DEF Results
<1> QED
  BY <1>1, <1>2, <1>3 DEF Decide, Answers, Replayable, Fits

LEMMA ClaimOnce ==
  ASSUME AsksAlone, OnceInv, Base', Grows, NEW r \in Requests, Claim(r)
  PROVE  OnceInv'
<1> DEFINE k == KeyOf[r]
           v == Claimed(r)
<1>1. /\ Base /\ InvocationTypeOK /\ k \in Keys /\ KeyOK(k) /\ pc[r] = "new"
      /\ UNCHANGED sent /\ v \in Record /\ v # NoRecord
  BY ClaimedRecord, Typed DEF OnceInv, Base, Claim
<1>2. /\ rec'[k] = v /\ \A j \in Keys \ {k} : rec'[j] = rec[j]
      /\ view'[r] = v /\ \A q \in Requests \ {r} : view'[q] = view[q]
  BY <1>1 DEF Claim, InvocationTypeOK
<1>3. /\ rec[k] # NoRecord => v.state = rec[k].state
      /\ v.answer # "none" => v.state = StateOf(v.answer)
  BY <1>1, ClaimedRecord DEF Claim, KeyOK
<1>4. ASSUME NEW a \in Answers, Finish(r, a), UNCHANGED lead,
             a \in Results => flight[k] = NoOne /\ Fits(a, v.state)
      PROVE  OnceInv'
  BY <1>1, <1>2, <1>3, <1>4, EndOnce
<1>5. CASE Finish(r, "unavailable") /\ UNCHANGED lead
  BY <1>4, <1>5 DEF Answers, Results
<1>6. CASE /\ flight[k] # NoOne /\ Goto(r, "joined")
           /\ lead' = [lead EXCEPT ![r] = flight[k]] /\ UNCHANGED <<told, flight>>
  <2>1. pc'[r] = "joined" /\ \A q \in Requests \ {r} : pc'[q] = pc[q]
    BY <1>1, <1>6, Went DEF Places, Known
  <2>2. lead'[r] = flight[k] /\ \A q \in Requests \ {r} : lead'[q] = lead[q]
    BY <1>1, <1>6 DEF InvocationTypeOK
  <2> QED
    BY <1>1, <1>2, <1>3, <1>6, <2>1, <2>2, WaitOnce
<1>7. CASE TaskOf[r] # NoTask /\ Goto(r, "asking") /\ UNCHANGED <<lead, told, flight>>
  <2>1. pc'[r] = "asking" /\ \A q \in Requests \ {r} : pc'[q] = pc[q]
    BY <1>1, <1>7, Went DEF Places, Known
  <2> QED
    BY <1>1, <1>2, <1>3, <1>7, <2>1, WaitOnce
<1>8. CASE flight[k] = NoOne /\ Decide(r, v) /\ UNCHANGED lead
  <2>1. CASE \E a \in Answers : Finish(r, a) /\ (a \in Results => Fits(a, v.state))
    BY <1>4, <1>8, <2>1
  <2>2. CASE /\ Goto(r, "run") /\ flight' = [flight EXCEPT ![k] = r] /\ UNCHANGED told
             /\ v.route \in ByokRoutes => v.state = "PENDING"
    <3>1. pc'[r] = "run" /\ \A q \in Requests \ {r} : pc'[q] = pc[q]
      BY <1>1, <2>2, Went DEF Places, Known, Executing
    <3> QED
      BY <1>1, <1>2, <1>3, <1>8, <2>2, <3>1, RunOnce
  <2> QED
    BY <1>1, <1>3, <1>8, <2>1, <2>2, DecidedOnce
<1> QED
  BY <1>5, <1>6, <1>7, <1>8 DEF Claim

LEMMA AskedOnce ==
  ASSUME AsksAlone, OnceInv, Base', Grows, NEW r \in Requests, Asked(r)
  PROVE  OnceInv'
<1> DEFINE k == KeyOf[r]
           v == view[r]
<1>1. /\ Base /\ InvocationTypeOK /\ k \in Keys /\ KeyOK(k) /\ pc[r] = "asking"
      /\ OnceOK(r) /\ RequestOK(r) /\ flight[k] = NoOne
      /\ UNCHANGED <<rec, view, lead, sent>>
  BY Alone, Typed DEF OnceInv, Base, Asked
<1>2. /\ rec[k] # NoRecord /\ v.route = rec[k].route /\ v.state = rec[k].state
      /\ v.answer # "none" => v.state = StateOf(v.answer)
      /\ rec[k].answer # "none" => rec[k].state = StateOf(rec[k].answer)
  BY <1>1 DEF OnceOK, KeyOK, RequestOK, Known
<1>3. CASE Goto(r, "cancelling") /\ UNCHANGED <<told, flight>>
  <2>1. pc'[r] = "cancelling" /\ \A q \in Requests \ {r} : pc'[q] = pc[q]
    BY <1>1, <1>3, Went DEF Places, Known
  <2>2. TaskOf[r] # NoTask
    BY <1>1 DEF OnceOK
  <2> QED
    BY <1>1, <1>2, <1>3, <2>1, <2>2, WaitOnce
<1>4. CASE Decide(r, v)
  <2>1. v \in Record
    BY <1>1, <1>2, Typed, InvocationAssumption DEF InvocationTypeOK, NoRecord
  <2>2. CASE \E a \in Answers : Finish(r, a) /\ (a \in Results => Fits(a, v.state))
    BY <1>1, <1>2, <2>2, EndOnce
  <2>3. CASE /\ Goto(r, "run") /\ flight' = [flight EXCEPT ![k] = r] /\ UNCHANGED told
             /\ v.route \in ByokRoutes => v.state = "PENDING"
    <3>1. pc'[r] = "run" /\ \A q \in Requests \ {r} : pc'[q] = pc[q]
      BY <1>1, <2>3, Went DEF Places, Known, Executing
    <3> QED
      BY <1>1, <1>2, <2>3, <3>1, RunOnce
  <2> QED
    BY <1>1, <1>2, <1>4, <2>1, <2>2, <2>3, DecidedOnce
<1> QED
  BY <1>3, <1>4 DEF Asked

LEMMA StartOnce ==
  ASSUME AsksAlone, OnceInv, Base', Grows, NEW r \in Requests, StartRequest(r)
  PROVE  OnceInv'
<1> DEFINE k == KeyOf[r]
<1>1. /\ Base /\ InvocationTypeOK /\ k \in Keys /\ KeyOK(k) /\ pc[r] = "run"
      /\ OnceOK(r) /\ rec[k] \in Record /\ UNCHANGED <<view, lead, sent>>
  BY Typed DEF OnceInv, Base, StartRequest, RequestOK, Known, Executing
<1>2. /\ \A j \in Keys \ {k} : rec'[j] = rec[j]
      /\ rec'[k].answer = rec[k].answer
      /\ rec'[k].state = IF rec[k].state = "PENDING" /\ ~CancelSeen(r)
                         THEN "IN_FLIGHT" ELSE rec[k].state
  BY <1>1 DEF StartRequest, MarkStarted, InvocationTypeOK, Record
<1>3. rec'[k].answer # "none" => rec'[k].state = StateOf(rec'[k].answer)
  <2>1. rec[k].answer # "none" => StateOf(rec[k].answer) # "PENDING"
    BY <1>1 DEF Record, StateOf, Results
  <2> QED
    BY <1>1, <1>2, <2>1 DEF KeyOK
<1>4. CASE Finish(r, "cancelled")
  BY <1>1, <1>2, <1>3, <1>4, EndOnce DEF Answers, Results, Executing
<1>5. CASE Goto(r, "started") /\ UNCHANGED <<told, flight>>
  <2>1. pc'[r] = "started" /\ \A q \in Requests \ {r} : pc'[q] = pc[q]
    BY <1>1, <1>5, Went DEF Places, Known, Executing
  <2>2. AtMostOnce'
    BY <1>1 DEF OnceInv, AtMostOnce
  <2>3. view[r].route \in ByokRoutes => \A s \in sent : s.key # k
    BY <1>1 DEF OnceOK
  <2> QED
    BY <1>1, <1>2, <1>3, <1>5, <2>1, <2>2, <2>3, MoveOnce DEF Executing
<1> QED
  BY <1>4, <1>5 DEF StartRequest

LEMMA SendOnce ==
  ASSUME AsksAlone, OnceInv, Base', Grows, NEW r \in Requests, Send(r)
  PROVE  OnceInv'
<1> DEFINE k == KeyOf[r]
           s == [key |-> k, by |-> r, nth |-> Cardinality(Tries(r)) + 1,
                 route |-> Pinned(r), body |-> BodyOf[r]]
<1>1. /\ Base /\ InvocationTypeOK /\ k \in Keys /\ KeyOK(k) /\ pc[r] = "started"
      /\ OnceOK(r) /\ RequestOK(r) /\ sent' = sent \cup {s}
      /\ UNCHANGED <<rec, flight, view, lead, told>>
  BY Typed DEF OnceInv, Base, Send
<1>2. pc'[r] = "sent" /\ \A q \in Requests \ {r} : pc'[q] = pc[q]
  BY <1>1, Went DEF Send, Places, Known, Executing
<1>3. AtMostOnce'
  <2> SUFFICES ASSUME NEW x \in sent', NEW y \in sent', x.key = y.key, x.route \in ByokRoutes
               PROVE  x = y
    BY DEF AtMostOnce
  <2>1. CASE x \in sent /\ y \in sent
    BY <2>1 DEF OnceInv, AtMostOnce
  <2>2. \A z \in sent : z.key = k => z.route = view[r].route
    BY <1>1 DEF Base, SentOK, RequestOK, Executing
  <2>3. view[r].route \in ByokRoutes => \A z \in sent : z.key # k
    BY <1>1 DEF OnceOK
  <2>4. \A z \in sent : z.key = k => view[r].route \notin ByokRoutes
    BY <2>3
  <2> QED
    BY <1>1, <2>1, <2>2, <2>4 DEF Pinned
<1> QED
  BY <1>1, <1>2, <1>3, MoveOnce DEF KeyOK, Executing

(* An executing request whose record does not change.                      *)
LEMMA GoOnce ==
  ASSUME AsksAlone, OnceInv, Base', Grows, NEW r \in Requests, pc[r] \in Executing,
         UNCHANGED <<rec, view, lead, sent>>,
         \/ Finish(r, "error")
         \/ /\ UNCHANGED <<flight, told>>
            /\ \A q \in Requests \ {r} : pc'[q] = pc[q]
            /\ \/ pc'[r] = pc[r]
               \/ pc'[r] = "reply"
               \/ pc'[r] = "run" /\ view[r].route \notin ByokRoutes
  PROVE  OnceInv'
<1>1. /\ KeyOf[r] \in Keys /\ OnceOK(r) /\ AtMostOnce'
      /\ rec[KeyOf[r]].answer # "none" =>
           rec[KeyOf[r]].state = StateOf(rec[KeyOf[r]].answer)
  BY Typed DEF OnceInv, Base, KeyOK, AtMostOnce
<1>2. CASE Finish(r, "error")
  BY <1>1, <1>2, EndOnce DEF Answers, Results
<1>3. CASE /\ UNCHANGED <<flight, told>>
           /\ \A q \in Requests \ {r} : pc'[q] = pc[q]
           /\ \/ pc'[r] = pc[r]
              \/ pc'[r] = "reply"
              \/ pc'[r] = "run" /\ view[r].route \notin ByokRoutes
  BY <1>1, <1>3, MoveOnce DEF OnceOK, Executing
<1> QED
  BY <1>2, <1>3

LEMMA ExecuteOnce ==
  ASSUME AsksAlone, OnceInv, Base', Grows, NEW r \in Requests,
         StartFails(r) \/ Reply(r) \/ Abandon(r) \/ CompleteFails(r)
  PROVE  OnceInv'
<1>1. /\ InvocationTypeOK /\ pc[r] \in Executing
      /\ UNCHANGED <<rec, view, lead, sent>>
  BY DEF OnceInv, Base, StartFails, Reply, Abandon, CompleteFails, JournalFails, Executing
<1>2. \/ Finish(r, "error")
      \/ /\ UNCHANGED <<flight, told>>
         /\ \/ Goto(r, "reply")
            \/ UNCHANGED pc
            \/ Goto(r, "run") /\ view[r].route \notin ByokRoutes
  BY DEF StartFails, Reply, Abandon, CompleteFails, Pinned
<1>3. \A to \in {"reply", "run"} :
        Goto(r, to) => pc'[r] = to /\ \A q \in Requests \ {r} : pc'[q] = pc[q]
  BY <1>1, Went DEF Places, Known, Executing
<1> QED
  BY <1>1, <1>2, <1>3, GoOnce

LEMMA CompleteOnce ==
  ASSUME AsksAlone, OnceInv, Base', Grows, NEW r \in Requests, Complete(r)
  PROVE  OnceInv'
<1> DEFINE k == KeyOf[r]
<1>1. /\ Base /\ InvocationTypeOK /\ k \in Keys /\ pc[r] = "reply" /\ OnceOK(r)
      /\ rec[k] \in Record /\ got[r] \in Results /\ Finish(r, got[r])
      /\ UNCHANGED <<view, lead, sent>>
  BY Typed DEF OnceInv, Base, Complete, RequestOK, Known, Executing
<1>2. PICK answer \in {"none"} \cup {got[r]} :
        rec' = [rec EXCEPT ![k].state = StateOf(got[r]), ![k].answer = answer]
  BY DEF Complete
<1>3. rec' = [rec EXCEPT ![k] = [rec[k] EXCEPT !.state = StateOf(got[r]), !.answer = answer]]
  BY <1>2
<1>4. /\ \A j \in Keys \ {k} : rec'[j] = rec[j]
      /\ rec'[k].answer = answer /\ rec'[k].state = StateOf(got[r])
  BY <1>1, <1>3 DEF InvocationTypeOK, Record
<1>5. flight[k] = r /\ Fits(got[r], StateOf(got[r])) /\ got[r] \in Answers
      /\ rec'[k] # NoRecord
  BY <1>1, Typed DEF OnceOK, Fits, Answers, Executing, Grows
<1> QED
  BY <1>1, <1>4, <1>5, EndOnce DEF Executing

LEMMA CancelOwnOnce ==
  ASSUME AsksAlone, OnceInv, Base', Grows, NEW r \in Requests, CancelOwn(r)
  PROVE  OnceInv'
<1> DEFINE k == KeyOf[r]
<1>1. /\ Base /\ InvocationTypeOK /\ k \in Keys /\ KeyOK(k) /\ rec[k] \in Record
      /\ Finish(r, "cancelled") /\ UNCHANGED <<view, lead, sent>>
  BY Typed DEF OnceInv, Base, CancelOwn, RequestOK, Known
<1>2. /\ \A j \in Keys \ {k} : rec'[j] = rec[j]
      /\ rec'[k].answer = rec[k].answer /\ rec'[k].state = rec[k].state
  BY <1>1 DEF CancelOwn, InvocationTypeOK, Record
<1> QED
  BY <1>1, <1>2, EndOnce DEF KeyOK, Answers, Results

LEMMA RefusedOnce ==
  ASSUME AsksAlone, OnceInv, Base', Grows, NEW r \in Requests, ClaimRefused(r)
  PROVE  OnceInv'
<1>1. /\ KeyOf[r] \in Keys /\ KeyOK(KeyOf[r]) /\ UNCHANGED <<rec, view, lead, sent>>
      /\ Finish(r, "conflict") \/ Finish(r, "error")
  BY Typed DEF OnceInv, Base, ClaimRefused, JournalFails
<1> QED
  BY <1>1, EndOnce DEF KeyOK, Answers, Results

LEMMA CrashOnce ==
  ASSUME OnceInv, Base', Crash
  PROVE  OnceInv'
<1>1. /\ UNCHANGED <<rec, view, lead, sent>> /\ \A k \in Keys : flight'[k] = NoOne
      /\ \A q \in Requests : pc'[q] \in {"new", "over"}
                             /\ (told'[q] = told[q] \/ told'[q] = "lost")
  BY DEF Crash
<1>2. ASSUME NEW k \in Keys PROVE KeyOK(k)'
  BY <1>1 DEF OnceInv, KeyOK
<1>3. ASSUME NEW q \in Requests PROVE OnceOK(q)'
  <2>1. OnceOK(q) /\ KeyOf[q] \in Keys
    BY Typed DEF OnceInv, Base
  <2> QED
    BY <1>1, <2>1 DEF OnceOK, Executing, Results
<1>4. AtMostOnce'
  BY <1>1 DEF OnceInv, AtMostOnce
<1> QED
  BY <1>2, <1>3, <1>4 DEF OnceInv

LEMMA HandlersOnce ==
  ASSUME OnceInv, Base', Grows,
         \/ UNCHANGED vars
         \/ \E k \in Keys : ExpireResponse(k)
         \/ \E t \in Tasks : CancelTask(t) \/ ListRecords(t) \/ AnswerCancel(t)
         \/ \E t \in Tasks, k \in Keys : CancelRecord(t, k)
  PROVE  OnceInv'
<1>1. Base /\ InvocationTypeOK
  BY DEF OnceInv, Base
<1>2. CASE \/ UNCHANGED vars
           \/ \E t \in Tasks : CancelTask(t) \/ ListRecords(t) \/ AnswerCancel(t)
  BY <1>2, QuietOnce DEF vars, CancelTask, ListRecords, AnswerCancel
<1>3. CASE \E k \in Keys : ExpireResponse(k)
  <2>1. PICK k \in Keys : ExpireResponse(k)
    BY <1>3
  <2>2. rec[k] \in Record
    BY <1>1, <2>1, Typed DEF ExpireResponse, NoRecord
  <2> QED
    BY <1>1, <2>1, <2>2, QuietOnce DEF ExpireResponse, InvocationTypeOK, Record
<1>4. CASE \E t \in Tasks, k \in Keys : CancelRecord(t, k)
  <2>1. PICK t \in Tasks, k \in Keys : CancelRecord(t, k)
    BY <1>4
  <2>2. rec[k] \in Record
    BY <1>1, <2>1, Typed DEF Base, TodoOK, CancelRecord
  <2> QED
    BY <1>1, <2>1, <2>2, QuietOnce DEF CancelRecord, InvocationTypeOK, Record
<1> QED
  BY <1>2, <1>3, <1>4

LEMMA StepOnce ==
  ASSUME AsksAlone, OnceInv, [Next]_vars
  PROVE  OnceInv'
<1>1. Base' /\ Grows
  BY StepKeeps DEF OnceInv
<1>2. ASSUME NEW r \in Requests, Execute(r)
      PROVE  OnceInv'
  BY <1>1, <1>2, StartOnce, SendOnce, CompleteOnce, ExecuteOnce DEF Execute
<1>3. ASSUME NEW r \in Requests, Claim(r) \/ ClaimRefused(r) \/ Asked(r) \/ CancelOwn(r)
      PROVE  OnceInv'
  BY <1>1, <1>3, ClaimOnce, RefusedOnce, AskedOnce, CancelOwnOnce
<1> QED
  BY <1>1, <1>2, <1>3, HandlersOnce, CrashOnce DEF Next

LEMMA InitOnce ==
  ASSUME Init
  PROVE  OnceInv
<1>1. Base
  BY InitBase
<1>2. \A k \in Keys : KeyOK(k)
  BY DEF Init, KeyOK, NoRecord
<1>3. \A r \in Requests : OnceOK(r)
  BY DEF Init, OnceOK, Executing, Results
<1>4. AtMostOnce
  BY DEF Init, AtMostOnce
<1> QED
  BY <1>1, <1>2, <1>3, <1>4 DEF OnceInv

(* What both theorems below rest on.                                       *)
LEMMA OnceHolds == Spec /\ []AsksAlone => []OnceInv
<1>1. Init => OnceInv
  BY InitOnce
<1>2. AsksAlone /\ OnceInv /\ [Next]_vars => OnceInv'
  BY StepOnce
<1> QED
  BY <1>1, <1>2, PTL DEF Spec

(* The user's provider gets at most one request for each key, whatever is  *)
(* retried, lost, abandoned, cancelled or crashes in between, also when a  *)
(* retry overlaps the execution it repeats, as long as no request comes or *)
(* begins to execute while another one of its key and body is between its  *)
(* look at the in-flight map and its decision (AsksAlone).                 *)
THEOREM SentOnce == Spec /\ []AsksAlone => []AtMostOnce
<1>1. OnceInv => AtMostOnce
  BY DEF OnceInv
<1> QED
  BY <1>1, OnceHolds, PTL

(* Whoever is told the result of a key executed by the user's provider is  *)
(* told the same one: the record says which, and it is final.              *)
THEOREM OneResult == Spec /\ []AsksAlone => []SameAnswer
<1>1. OnceInv => SameAnswer
  <2> SUFFICES ASSUME OnceInv, NEW q \in Requests, NEW r \in Requests,
                      KeyOf[q] = KeyOf[r], rec[KeyOf[q]].route \in ByokRoutes,
                      told[q] \in Results, told[r] \in Results
               PROVE  told[q] = told[r]
    BY DEF SameAnswer
  <2>1. Fits(told[q], rec[KeyOf[q]].state) /\ Fits(told[r], rec[KeyOf[q]].state)
    BY DEF OnceInv, OnceOK
  <2> QED
    BY <2>1 DEF Fits, StateOf, Results
<1> QED
  BY <1>1, OnceHolds, PTL
=============================================================================
