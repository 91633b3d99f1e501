---------------------------- MODULE SessionProofs ----------------------------
(***************************************************************************)
(* What the account session keeps for any number of operations, accounts,  *)
(* tokens, restarts and failed writes: an inductive invariant of           *)
(* AccountSession, its proof, and the properties that follow from it.      *)
(*                                                                         *)
(* The invariant says what an operation holds where it is (Stage), what it *)
(* may rely on while its generation is the current one (Current), and how  *)
(* memory, the chain of writes and the two files agree (SessionFollows,    *)
(* LoginFollows, SessionsLeave).                                           *)
(***************************************************************************)
EXTENDS AccountSession, TLAPS, SequenceTheorems, FiniteSetTheorems

(* Where an operation is while it exchanges a token, and where it is while *)
(* it works with a session.                                                *)
ExchangeAts == {"refresh", "denied", "relogin", "disown"}
FlightAts == ExchangeAts \cup {"restored", "stored", "refused", "lost"}
SessionAts == FlightAts \cup {"refreshed", "fresh", "ask", "main", "licence", "again", "passworded"}
LoginAts == {"cleared", "login", "signed", "remembered"}
LogoutAts == {"loaded", "left", "kept", "revoke", "end"}
NetAts == {"refresh", "relogin", "disown", "login", "main", "licence", "revoke"}
Ats == SessionAts \cup LoginAts \cup LogoutAts \cup {"start", "noted"}

Credentials == [acc : Accounts, rem : BOOLEAN]

OpRecs == [kind : OpKinds \cup {None},
           st : {"new", "run", "read", "disk", "net", "join", "done"},
           at : Ats, gen : Nat, ses : Sessions \cup {None},
           held : Accounts \cup Sessions \cup Credentials \cup {None, Unread},
           ask : {"main", "licence"}, retried : BOOLEAN,
           res : {"ok", "failed", "changed", "io", "auth"}]

(* The writes of the two files.                                            *)
Writes == [by : Ops, file : {"session"}, val : Sessions \cup {None}, drops : SUBSET (1..MaxTokens)]
            \cup [by : Ops, file : {"login"}, val : Accounts \cup {None}, drops : {{}}]

(* The types of the variables; op is in OpsFit.                            *)
Globals ==
  /\ gen \in Nat
  /\ cache \in Sessions \cup {None, Unread}
  /\ login \in Accounts \cup {None, Unread}
  /\ device \in Accounts \cup {None}
  /\ flight \in [gen : Nat, by : Ops] \cup {None}
  /\ writes \in Seq(Writes)
  /\ disk \in [session : Sessions \cup {None}, login : Accounts \cup {None}]
  /\ stale \subseteq {"session", "login"}
  /\ tokens \in 0..MaxTokens
  /\ cut \subseteq Ops
  /\ out \subseteq 1..tokens

(* An operation under way, the sender of a flight, and a sign-in.          *)
Alive(r) == r.st \notin {"new", "done"}
InFlight(r) == r.at \in FlightAts /\ r.st # "join"
Opens(r) == Alive(r) /\ r.at \in {"cleared", "login"}

(* What an operation holds where it is.                                    *)
Stage(r) ==
  /\ r.at \in SessionAts => r.ses \in Sessions
  /\ r.kind = "model" /\ r.held # None => r.held \in Sessions
  /\ r.ask = "licence" => r.kind = "model" /\ r.held # None
  /\ r.at \in LoginAts => r.kind = "login" /\ r.held \in Credentials
  /\ r.kind = "logout" => r.at \in LogoutAts
  /\ r.kind = "login" => r.ses = None
  /\ r.st = "join" => r.at = "refresh"
  /\ r.st = "net" => r.at \in NetAts
  /\ r.at = "lost" => r.st = "run" /\ r.res \in {"changed", "io", "auth"}
  /\ r.st = "new" => r.gen = 0
  /\ r.st = "read" => r.at = "loaded" /\ r.kind # "login" /\ r.ses = None

(* An operation of the current session works with a session of the account *)
(* that is signed in, and whoever exchanges its token is the flight.       *)
Current(r, p) ==
  /\ r.ses # None /\ r.kind # "logout" => SignedIn /\ cache.acc = r.ses.acc
  /\ r.kind = "model" /\ r.held # None => SignedIn /\ cache.acc = r.held.acc
  /\ r.at \in ExchangeAts /\ r.st # "join" => cache.tok = r.ses.tok
  /\ r.at \in {"cleared", "login"} => cache = None
  /\ InFlight(r) => flight = [gen |-> gen, by |-> p]
  /\ p \in cut => r.kind = "logout"

(* The record of an operation p that fits where it is.                     *)
Fit(r, p) ==
  /\ r \in OpRecs
  /\ Stage(r)
  /\ r.gen <= gen
  /\ Alive(r) /\ r.gen = gen => Current(r, p)
  /\ p \in cut => r.st # "new"

(* Every operation fits.                                                   *)
OpsFit == op \in [Ops -> OpRecs] /\ \A p \in Ops : Fit(op[p], p)

(* The flight is one of the current generation (clearSession forgets it).  *)
FlightCurrent == flight # None => flight.gen = gen

(* At most one sign-in of the current session is under way.                *)
OneSignIn == \A p, q \in Ops : Opens(op[p]) /\ Opens(op[q]) /\ Owns(p) /\ Owns(q) => p = q

(* An operation waits for the write it asked for.                          *)
WritersWait ==
  /\ \A n \in DOMAIN writes : op[writes[n].by].st = "disk"
  /\ \A m, n \in DOMAIN writes : writes[m].by = writes[n].by => m = n

Pending(ws, f) == \E n \in DOMAIN ws : ws[n].file = f

(* The last write of file f in ws writes v.                                *)
LastSays(ws, f, v) ==
  \A n \in DOMAIN ws :
    ws[n].file = f /\ (\A m \in DOMAIN ws : m > n => ws[m].file # f) => ws[n].val = v

(* The last write of the session file says what memory says; when none is  *)
(* pending and the last one succeeded, so does the file.                   *)
SessionFollows ==
  /\ cache = Unread => ~Pending(writes, "session")
  /\ cache # Unread => LastSays(writes, "session", Kept(cache))
  /\ \/ Pending(writes, "session") \/ "session" \in stale
     \/ cache = Unread \/ disk.session = Kept(cache)

(* The same of the remembered login.                                       *)
LoginFollows ==
  /\ login = Unread => ~Pending(writes, "login")
  /\ LastSays(writes, "login", login)
  /\ Pending(writes, "login") \/ "login" \in stale \/ login = Unread \/ disk.login = login

(* A token that was issued and not signed out.                             *)
Issued(s) == s.tok <= tokens /\ s.tok \notin out

(* A session that is being signed out is in no later write.                *)
Leaves(ws) ==
  \A n \in DOMAIN ws :
    /\ ws[n].drops \subseteq 1..tokens
    /\ ws[n].file = "session" /\ ws[n].val # None =>
         Issued(ws[n].val) /\ ws[n].drops = {} /\ ws[n].val.rem
    /\ SignedIn => cache.tok \notin ws[n].drops
    /\ \A m \in DOMAIN ws : m > n /\ ws[m].file = "session" /\ ws[m].val # None
                                  => ws[m].val.tok \notin ws[n].drops

(* What is in memory, in the file or about to be written is signed in.     *)
SessionsLeave ==
  /\ SignedIn => Issued(cache)
  /\ disk.session # None => Issued(disk.session) /\ disk.session.rem
  /\ Leaves(writes)

SessionInv ==
  /\ Globals
  /\ OpsFit
  /\ FlightCurrent
  /\ OneSignIn
  /\ WritersWait
  /\ SessionFollows
  /\ LoginFollows
  /\ SessionsLeave
  /\ DeviceOfAccount

----------------------------------------------------------------------------

(* What Append does to the places and the elements of a sequence.          *)
LEMMA AppendFacts ==
  ASSUME NEW S, NEW s \in Seq(S), NEW e \in S
  PROVE  /\ Append(s, e) \in Seq(S)
         /\ DOMAIN s = 1..Len(s) /\ Len(s) \in Nat
         /\ DOMAIN Append(s, e) = 1..(Len(s) + 1)
         /\ \A n \in DOMAIN s : n \in DOMAIN Append(s, e) /\ Append(s, e)[n] = s[n]
         /\ Append(s, e)[Len(s) + 1] = e
         /\ \A n \in DOMAIN Append(s, e) : n \in DOMAIN s \/ n = Len(s) + 1
OBVIOUS

(* What taking away the first element does to a sequence.                  *)
LEMMA RemoveHead ==
  ASSUME NEW S, NEW s \in Seq(S), s # <<>>
  PROVE  /\ RemoveAt(s, 1) \in Seq(S)
         /\ DOMAIN s = 1..Len(s) /\ Len(s) \in Nat \ {0}
         /\ DOMAIN RemoveAt(s, 1) = 1..(Len(s) - 1)
         /\ \A n \in 1..(Len(s) - 1) : n + 1 \in DOMAIN s /\ RemoveAt(s, 1)[n] = s[n + 1]
         /\ \A n \in DOMAIN s : n = 1 \/ (n - 1) \in 1..(Len(s) - 1)
<1> DEFINE b == SubSeq(s, 2, Len(s))
<1>1. s \in [1..Len(s) -> S] /\ Len(s) \in Nat \ {0} /\ DOMAIN s = 1..Len(s)
  OBVIOUS
<1>2. /\ b \in Seq(S) /\ Len(b) = Len(s) - 1
      /\ \A j \in 1..(Len(s) - 1) : b[j] = s[j + 1]
  <2>1. \A j \in 2..Len(s) : s[j] \in S
    BY <1>1
  <2>2. /\ b \in Seq(S) /\ Len(b) = IF 2 <= Len(s) THEN Len(s) - 2 + 1 ELSE 0
        /\ \A j \in 1..(Len(s) - 2 + 1) : b[j] = s[2 + j - 1]
    BY <1>1, <2>1, SubSeqProperties
  <2> HIDE DEF b
  <2>3. ASSUME NEW j \in 1..(Len(s) - 1) PROVE b[j] = s[j + 1]
    <3>1. j \in 1..(Len(s) - 2 + 1) /\ 2 + j - 1 = j + 1
      BY <1>1
    <3>2. b[j] = s[2 + j - 1]
      BY <2>2, <3>1, Zenon
    <3> QED
      BY <3>1, <3>2
  <2>4. Len(b) = Len(s) - 1
    <3>1. ASSUME NEW n \in Nat \ {0}, NEW l, l = IF 2 <= n THEN n - 2 + 1 ELSE 0
          PROVE  l = n - 1
      BY <3>1
    <3> QED
      BY <1>1, <2>2, <3>1
  <2> QED
    BY <2>2, <2>3, <2>4
<1>3. SubSeq(s, 1, 0) = <<>>
  BY <1>1, SubSeqEmpty
<1>4. RemoveAt(s, 1) = <<>> \o b
  BY <1>3 DEF RemoveAt
<1> HIDE DEF b
<1>5. RemoveAt(s, 1) = b
  BY <1>2, <1>4
<1>6. DOMAIN b = 1..Len(b)
  BY <1>2
<1> QED
  BY <1>1, <1>2, <1>5, <1>6

(* What a new write says: what it writes to its own file, and nothing of   *)
(* the other.                                                              *)
LEMMA AppendSays ==
  ASSUME NEW S, NEW ws \in Seq(S), NEW w \in S
  PROVE  LET t == Append(ws, w) IN
         /\ Pending(t, w.file)
         /\ LastSays(t, w.file, w.val)
         /\ \A f, v : f # w.file => /\ Pending(t, f) <=> Pending(ws, f)
                                    /\ LastSays(ws, f, v) => LastSays(t, f, v)
<1> DEFINE t == Append(ws, w)
<1>1. /\ DOMAIN ws = 1..Len(ws) /\ Len(ws) \in Nat /\ DOMAIN t = 1..(Len(ws) + 1)
      /\ \A n \in DOMAIN ws : n \in DOMAIN t /\ t[n] = ws[n]
      /\ t[Len(ws) + 1] = w
      /\ \A n \in DOMAIN t : n \in DOMAIN ws \/ n = Len(ws) + 1
  BY AppendFacts
<1> HIDE DEF t
<1>2. Pending(t, w.file)
  BY <1>1 DEF Pending
<1>3. LastSays(t, w.file, w.val)
  BY <1>1 DEF LastSays
<1>4. ASSUME NEW f, NEW v, f # w.file PROVE Pending(t, f) <=> Pending(ws, f)
  BY <1>1, <1>4, Zenon DEF Pending
<1>5. ASSUME NEW f, NEW v, f # w.file, LastSays(ws, f, v) PROVE LastSays(t, f, v)
  BY <1>1, <1>5 DEF LastSays
<1> QED
  BY <1>2, <1>3, <1>4, <1>5, Zenon DEF t

(* What is left when the first write is done.                              *)
LEMMA HeadSays ==
  ASSUME NEW S, NEW ws \in Seq(S), ws # <<>>
  PROVE  LET t == RemoveAt(ws, 1) IN
         /\ \A f, v : LastSays(ws, f, v) =>
              LastSays(t, f, v) /\ (~Pending(t, f) /\ ws[1].file = f => ws[1].val = v)
         /\ \A f : Pending(t, f) => Pending(ws, f)
         /\ \A f : Pending(ws, f) /\ ws[1].file # f => Pending(t, f)
<1> DEFINE t == RemoveAt(ws, 1)
<1>1. /\ DOMAIN ws = 1..Len(ws) /\ Len(ws) \in Nat \ {0} /\ DOMAIN t = 1..(Len(ws) - 1)
      /\ \A n \in 1..(Len(ws) - 1) : n + 1 \in DOMAIN ws /\ t[n] = ws[n + 1]
      /\ \A n \in DOMAIN ws : n = 1 \/ (n - 1) \in 1..(Len(ws) - 1)
  BY RemoveHead
<1> HIDE DEF t
<1>2. ASSUME NEW f, NEW v, LastSays(ws, f, v) PROVE LastSays(t, f, v)
  <2> SUFFICES ASSUME NEW n \in DOMAIN t, t[n].file = f,
                      \A m \in DOMAIN t : m > n => t[m].file # f
               PROVE  t[n].val = v
    BY DEF LastSays
  <2>1. n + 1 \in DOMAIN ws /\ ws[n + 1] = t[n]
    BY <1>1
  <2>2. ASSUME NEW m \in DOMAIN ws, m > n + 1 PROVE ws[m].file # f
    <3>1. m - 1 \in DOMAIN t /\ m - 1 > n /\ (m - 1) + 1 = m
      BY <1>1, <2>2
    <3>2. t[m - 1] = ws[(m - 1) + 1] /\ t[m - 1].file # f
      BY <1>1, <3>1
    <3> QED
      BY <3>1, <3>2
  <2> QED
    BY <1>2, <2>1, <2>2 DEF LastSays
<1>3. ASSUME NEW f, NEW v, LastSays(ws, f, v), ~Pending(t, f), ws[1].file = f
      PROVE  ws[1].val = v
  <2>1. ASSUME NEW m \in DOMAIN ws, m > 1 PROVE ws[m].file # f
    <3>1. m - 1 \in DOMAIN t /\ (m - 1) + 1 = m
      BY <1>1, <2>1
    <3>2. t[m - 1] = ws[(m - 1) + 1]
      BY <1>1, <3>1
    <3> QED
      BY <1>3, <3>1, <3>2 DEF Pending
  <2>2. 1 \in DOMAIN ws
    BY <1>1
  <2> QED
    BY <1>3, <2>1, <2>2 DEF LastSays
<1>4. ASSUME NEW f, Pending(t, f) PROVE Pending(ws, f)
  BY <1>1, <1>4 DEF Pending
<1>5. ASSUME NEW f, Pending(ws, f), ws[1].file # f PROVE Pending(t, f)
  <2>1. PICK n \in DOMAIN ws : ws[n].file = f
    BY <1>5 DEF Pending
  <2>2. n - 1 \in DOMAIN t /\ (n - 1) + 1 = n
    BY <1>1, <1>5, <2>1
  <2>3. t[n - 1] = ws[(n - 1) + 1]
    BY <1>1, <2>2
  <2> QED
    BY <2>1, <2>2, <2>3 DEF Pending
<1> QED
  BY <1>2, <1>3, <1>4, <1>5, Zenon DEF t

----------------------------------------------------------------------------

(* One operation moves; its record becomes the one op'[p] names.           *)
Moves(p) == op' = [op EXCEPT ![p] = op'[p]]

(* What the step of p may do to the session under the other operations.    *)
NoEnd(p) ==
  /\ UNCHANGED <<gen, cut>>
  /\ \/ UNCHANGED <<cache, flight>>
     \/ cache' = cache /\ flight = None /\ flight' = [gen |-> gen, by |-> p]
     \/ flight' = flight /\ cache = Unread
     \/ /\ flight' = flight /\ SignedIn /\ cache' \in Sessions /\ cache'.acc = cache.acc
        /\ flight = [gen |-> gen, by |-> p]
     \/ flight' = flight /\ cache = None /\ cache' \in Sessions /\ Opens(op[p]) /\ Owns(p)

Ends == gen' = gen + 1 /\ cut' = cut \cup {q \in Ops : Active(q)}

(* The constants that stand for nothing are none of the values.            *)
LEMMA Distinct ==
  /\ None # Unread /\ None \notin Accounts /\ Unread \notin Accounts
  /\ None \notin Sessions /\ Unread \notin Sessions
  /\ None \notin [gen : Nat, by : Ops]
  /\ None \notin OpKinds
  /\ MaxTokens \in Nat \ {0} /\ MaxTroubles \in Nat
BY SessionAssumption DEF SessionAssumption

(* The move of p leaves every other operation fit: either p ended no       *)
(* session and changed what the others rely on in no way that they notice  *)
(* (NoEnd), or the generation grew and no other operation is of the new    *)
(* one (Ends).                                                             *)
LEMMA OthersFit ==
  ASSUME SessionInv, NEW p \in Ops, NEW q \in Ops, q # p, Moves(p), NoEnd(p) \/ Ends
  PROVE  Fit(op[q], q)'
<1>1. op'[q] = op[q] /\ op[q] \in OpRecs
  BY DEF Moves, SessionInv, OpsFit
<1>2. Fit(op[q], q) /\ gen \in Nat /\ op[q].gen \in Nat
  BY <1>1 DEF SessionInv, OpsFit, Globals, OpRecs
<1>3. CASE Ends
  <2>1. Stage(op[q])'
    BY <1>1, <1>2 DEF Fit, Stage
  <2>2. op[q].gen <= gen' /\ op[q].gen # gen'
    BY <1>2, <1>3 DEF Ends, Fit
  <2>3. q \in cut' => op[q].st # "new"
    BY <1>2, <1>3 DEF Ends, Fit, Active
  <2> QED
    BY <1>1, <2>1, <2>2, <2>3 DEF Fit
<1>4. CASE NoEnd(p)
  <2>1. gen' = gen /\ cut' = cut
    BY <1>4 DEF NoEnd
  <2>2. Stage(op[q])'
    BY <1>1, <1>2 DEF Fit, Stage
  <2>3. ASSUME Alive(op[q]), op[q].gen = gen PROVE Current(op[q], q)'
    <3>1. Current(op[q], q) /\ Stage(op[q])
      BY <1>2, <2>3 DEF Fit
    <3>2. CASE UNCHANGED <<cache, flight>>
      BY <1>1, <2>1, <3>1, <3>2 DEF Current, SignedIn, InFlight
    <3>3. CASE cache' = cache /\ flight = None /\ flight' = [gen |-> gen, by |-> p]
      <4>1. flight # [gen |-> gen, by |-> q]
        BY <1>2, <3>3, Distinct
      <4>2. ~InFlight(op[q])
        BY <3>1, <4>1 DEF Current
      <4> QED
        BY <1>1, <2>1, <3>1, <3>3, <4>2 DEF Current, SignedIn, InFlight
    <3>4. CASE flight' = flight /\ cache = Unread
      <4>1. ~SignedIn /\ cache # None
        BY <3>4, Distinct DEF SignedIn
      <4>2. /\ op[q].ses # None => op[q].kind = "logout"
            /\ ~(op[q].kind = "model" /\ op[q].held # None)
            /\ op[q].at \notin {"cleared", "login"}
        BY <3>1, <4>1 DEF Current
      <4>3. ~(op[q].at \in ExchangeAts /\ op[q].st # "join")
        BY <3>1, <4>2, Distinct DEF Stage, ExchangeAts, FlightAts, SessionAts, LogoutAts
      <4> QED
        BY <1>1, <2>1, <3>1, <3>4, <4>2, <4>3 DEF Current, InFlight
    <3>5. CASE /\ flight' = flight /\ SignedIn /\ cache' \in Sessions /\ cache'.acc = cache.acc
               /\ flight = [gen |-> gen, by |-> p]
      <4>1. flight # [gen |-> gen, by |-> q]
        BY <3>5
      <4>2. ~InFlight(op[q]) /\ ~(op[q].at \in ExchangeAts /\ op[q].st # "join")
        BY <3>1, <4>1 DEF Current, InFlight, FlightAts
      <4>3. op[q].at \notin {"cleared", "login"}
        BY <3>1, <3>5, Distinct DEF Current, SignedIn
      <4> QED
        BY <1>1, <2>1, <3>1, <3>5, <4>2, <4>3 DEF Current, SignedIn, InFlight
    <3>6. CASE flight' = flight /\ cache = None /\ cache' \in Sessions /\ Opens(op[p]) /\ Owns(p)
      <4>1. ~SignedIn
        BY <3>6, Distinct DEF SignedIn
      <4>2. /\ op[q].ses # None => op[q].kind = "logout"
            /\ ~(op[q].kind = "model" /\ op[q].held # None)
        BY <3>1, <4>1 DEF Current
      <4>3. op[q].at \notin {"cleared", "login"}
        BY <2>3, <3>6 DEF SessionInv, OneSignIn, Opens, Owns
      <4>4. ~(op[q].at \in ExchangeAts /\ op[q].st # "join")
        BY <3>1, <4>2, Distinct DEF Stage, ExchangeAts, FlightAts, SessionAts, LogoutAts
      <4> QED
        BY <1>1, <2>1, <3>1, <3>6, <4>2, <4>3, <4>4 DEF Current, InFlight
    <3> QED
      BY <1>4, <3>2, <3>3, <3>4, <3>5, <3>6 DEF NoEnd
  <2> QED
    BY <1>1, <1>2, <2>1, <2>2, <2>3 DEF Fit
<1> QED
  BY <1>3, <1>4

(* An operation that signs in has done so since it ended the last session. *)
LEMMA OneSignInHolds ==
  ASSUME SessionInv, NEW p \in Ops, Moves(p),
         \/ gen' = gen /\ (Opens(op'[p]) => Opens(op[p]) /\ op'[p].gen = op[p].gen)
         \/ gen' = gen + 1
  PROVE  OneSignIn'
<1>1. /\ \A q \in Ops : op[q].gen \in Nat /\ op[q].gen <= gen
      /\ gen \in Nat /\ \A q \in Ops : q # p => op'[q] = op[q]
  BY DEF SessionInv, OpsFit, Fit, OpRecs, Globals, Moves
<1>2. CASE gen' = gen /\ (Opens(op'[p]) => Opens(op[p]) /\ op'[p].gen = op[p].gen)
  BY <1>1, <1>2 DEF SessionInv, OneSignIn, Owns, Opens, Alive
<1>3. CASE gen' = gen + 1
  BY <1>1, <1>3 DEF OneSignIn, Owns
<1> QED
  BY <1>2, <1>3

(* So all operations fit when the one that moved does.                     *)
LEMMA AllFit ==
  ASSUME SessionInv, NEW p \in Ops, Moves(p), NoEnd(p) \/ Ends, Fit(op[p], p)'
  PROVE  OpsFit'
<1>1. \A q \in Ops : Fit(op[q], q)'
  BY OthersFit
<1>2. op'[p] \in OpRecs
  BY DEF Fit
<1>3. op' \in [Ops -> OpRecs]
  BY <1>2 DEF Moves, SessionInv, OpsFit
<1> QED
  BY <1>1, <1>3 DEF OpsFit

----------------------------------------------------------------------------

(* The writers go on waiting when somebody who wrote nothing moves,        *)
LEMMA WaitKept ==
  ASSUME SessionInv, NEW p \in Ops, Moves(p), op[p].st # "disk", writes' = writes
  PROVE  WritersWait'
<1>1. /\ \A n \in DOMAIN writes : op[writes[n].by].st = "disk"
      /\ \A m, n \in DOMAIN writes : writes[m].by = writes[n].by => m = n
  BY DEF SessionInv, WritersWait
<1>2. \A q \in Ops : q # p => op'[q] = op[q]
  BY DEF SessionInv, OpsFit, Moves
<1>3. \A n \in DOMAIN writes : writes[n].by \in Ops
  BY DEF SessionInv, Globals, Writes
<1> QED
  BY <1>1, <1>2, <1>3 DEF WritersWait

(* and when the one that moves begins to wait for a write of its own.      *)
LEMMA WaitAppend ==
  ASSUME SessionInv, NEW p \in Ops, Moves(p), op[p].st # "disk", op'[p].st = "disk",
         NEW w \in Writes, w.by = p, writes' = Append(writes, w)
  PROVE  WritersWait'
<1>1. /\ \A n \in DOMAIN writes : op[writes[n].by].st = "disk"
      /\ \A m, n \in DOMAIN writes : writes[m].by = writes[n].by => m = n
  BY DEF SessionInv, WritersWait
<1>2. \A q \in Ops : q # p => op'[q] = op[q]
  BY DEF SessionInv, OpsFit, Moves
<1>3. \A n \in DOMAIN writes : writes[n].by \in Ops /\ writes[n].by # p
  BY <1>1 DEF SessionInv, Globals, Writes
<1>4. writes \in Seq(Writes)
  BY DEF SessionInv, Globals
<1>5. /\ \A n \in DOMAIN writes : writes'[n] = writes[n]
      /\ writes'[Len(writes) + 1] = w
      /\ \A n \in DOMAIN writes' : n \in DOMAIN writes \/ n = Len(writes) + 1
  BY <1>4, AppendFacts
<1>6. \A n \in DOMAIN writes' : op'[writes'[n].by].st = "disk"
  BY <1>1, <1>2, <1>3, <1>5
<1>7. \A m, n \in DOMAIN writes' : writes'[m].by = writes'[n].by => m = n
  BY <1>1, <1>3, <1>5
<1> QED
  BY <1>6, <1>7 DEF WritersWait

(* A write of the session in memory, appended (replaceSession,             *)
(* clearSession): the file will say what memory says.                      *)
LEMMA SessionWritten ==
  ASSUME SessionInv, NEW w \in Writes, w.file = "session", cache' # Unread,
         w.val = Kept(cache)', writes' = Append(writes, w), UNCHANGED <<login, disk, stale>>
  PROVE  SessionFollows' /\ LoginFollows'
<1>1. writes \in Seq(Writes)
  BY DEF SessionInv, Globals
<1>2. /\ Pending(writes', w.file) /\ LastSays(writes', w.file, w.val)
      /\ \A f, v : f # w.file => /\ Pending(writes', f) <=> Pending(writes, f)
                                 /\ LastSays(writes, f, v) => LastSays(writes', f, v)
  BY <1>1, AppendSays
<1>3. SessionFollows'
  BY <1>2 DEF SessionFollows
<1>4. /\ Pending(writes', "login") <=> Pending(writes, "login")
      /\ LastSays(writes, "login", login) => LastSays(writes', "login", login)
  BY <1>2
<1>5. LoginFollows'
  BY <1>4 DEF LoginFollows, SessionInv
<1> QED
  BY <1>3, <1>5

(* The file is read only into a cache that nothing was loaded into, and    *)
(* while that is so nothing is written to the file.                        *)
LEMMA CacheLoaded ==
  ASSUME SessionInv, cache = Unread, cache' = disk.session
  PROVE  /\ ~Pending(writes, "session")
         /\ cache' \in Sessions \cup {None} /\ cache' # Unread
         /\ Kept(cache)' = disk.session
         /\ cache' \in Sessions => Issued(cache')
<1>1. cache' \in Sessions \cup {None} /\ cache' # Unread
  BY Distinct DEF SessionInv, Globals
<1>2. Kept(cache)' = disk.session
  BY <1>1, Distinct DEF Kept, SessionInv, SessionsLeave, Sessions
<1>3. cache' \in Sessions => Issued(cache')
  BY <1>1, Distinct DEF SessionInv, SessionsLeave, Issued
<1> QED
  BY <1>1, <1>2, <1>3 DEF SessionInv, SessionFollows

(* When no write of a file is pending the last one says anything.          *)
LEMMA NothingLast ==
  ASSUME NEW ws, NEW f, NEW v, ~Pending(ws, f)
  PROVE  LastSays(ws, f, v)
BY DEF Pending, LastSays

(* The session file goes on following when nothing is written, and when    *)
(* the cache is filled from the file itself (loadSession).                 *)
LEMMA SessionKept ==
  ASSUME SessionInv, writes' = writes, UNCHANGED <<disk, stale>>,
         cache' = cache \/ (cache = Unread /\ cache' = disk.session)
  PROVE  SessionFollows'
<1>1. CASE cache' = cache
  BY <1>1 DEF SessionInv, SessionFollows, Kept
<1>2. CASE cache = Unread /\ cache' = disk.session
  BY <1>2, CacheLoaded, NothingLast DEF SessionFollows
<1> QED
  BY <1>1, <1>2

(* A write of the remembered login, appended (saveRememberedLogin,         *)
(* clearRememberedLogin): the file will say what memory says.              *)
LEMMA LoginWritten ==
  ASSUME SessionInv, NEW w \in Writes, w.file = "login", login' # Unread, w.val = login',
         writes' = Append(writes, w), UNCHANGED <<disk, stale>>,
         cache' = cache \/ (cache = Unread /\ cache' = disk.session)
  PROVE  SessionFollows' /\ LoginFollows'
<1>1. writes \in Seq(Writes)
  BY DEF SessionInv, Globals
<1>2. /\ Pending(writes', w.file) /\ LastSays(writes', w.file, w.val)
      /\ \A f, v : f # w.file => /\ Pending(writes', f) <=> Pending(writes, f)
                                 /\ LastSays(writes, f, v) => LastSays(writes', f, v)
  BY <1>1, AppendSays
<1>3. LoginFollows'
  BY <1>2 DEF LoginFollows
<1>4. /\ Pending(writes', "session") <=> Pending(writes, "session")
      /\ \A v : LastSays(writes, "session", v) => LastSays(writes', "session", v)
  BY <1>2
<1>5. CASE cache' = cache
  BY <1>3, <1>4, <1>5 DEF SessionInv, SessionFollows, Kept
<1>6. CASE cache = Unread /\ cache' = disk.session
  BY <1>3, <1>4, <1>6, CacheLoaded, NothingLast DEF SessionFollows
<1> QED
  BY <1>3, <1>5, <1>6

(* The login file goes on following when nothing is written, and when the  *)
(* login is read from the file itself.                                     *)
LEMMA LoginKept ==
  ASSUME SessionInv, writes' = writes, UNCHANGED <<disk, stale>>,
         login' = login \/ (login = Unread /\ login' = disk.login)
  PROVE  LoginFollows'
<1>1. CASE login' = login
  BY <1>1 DEF SessionInv, LoginFollows
<1>2. CASE login = Unread /\ login' = disk.login
  <2>1. disk.login # Unread
    BY Distinct DEF SessionInv, Globals
  <2>2. ~Pending(writes, "login")
    BY <1>2 DEF SessionInv, LoginFollows
  <2> QED
    BY <1>2, <2>1, <2>2, NothingLast DEF LoginFollows
<1> QED
  BY <1>1, <1>2

(* No write on its way signs out a token that is not issued yet, nor the   *)
(* one in memory.                                                          *)
Unsigned(s, ws) == \A n \in DOMAIN ws : s.tok \notin ws[n].drops

(* A write appended keeps the signed-out tokens away from later writes, if *)
(* it holds no token of an earlier sign-out and signs out no session that  *)
(* is in memory then.                                                      *)
LEMMA LeavesAppend ==
  ASSUME SessionInv, NEW w \in Writes, writes' = Append(writes, w),
         tokens' \in Nat, tokens' >= tokens, out' = out,
         w.drops \subseteq 1..tokens',
         w.file = "session" /\ w.val # None =>
           w.val.tok <= tokens' /\ w.val.tok \notin out /\ w.drops = {} /\ w.val.rem
             /\ Unsigned(w.val, writes),
         cache' \in Sessions => cache'.tok \notin w.drops /\ Unsigned(cache', writes)
  PROVE  Leaves(writes)'
<1>1. writes \in Seq(Writes) /\ tokens \in Nat
  BY Distinct DEF SessionInv, Globals
<1>2. /\ DOMAIN writes = 1..Len(writes) /\ Len(writes) \in Nat
      /\ \A n \in DOMAIN writes : writes'[n] = writes[n]
      /\ writes'[Len(writes) + 1] = w
      /\ \A n \in DOMAIN writes' : n \in DOMAIN writes \/ n = Len(writes) + 1
  BY <1>1, AppendFacts
<1>3. Leaves(writes)
  BY DEF SessionInv, SessionsLeave
<1>4. ASSUME NEW n \in DOMAIN writes'
      PROVE  writes'[n].drops \subseteq 1..tokens'
  BY <1>1, <1>2, <1>3, <1>4 DEF Leaves
<1>5. ASSUME NEW n \in DOMAIN writes', writes'[n].file = "session", writes'[n].val # None
      PROVE  Issued(writes[n].val)' /\ writes'[n].drops = {} /\ writes'[n].val.rem
  <2>1. CASE n = Len(writes) + 1
    BY <1>2, <1>5, <2>1 DEF Issued
  <2>2. CASE n \in DOMAIN writes
    <3>1. Issued(writes[n].val) /\ writes[n].drops = {} /\ writes[n].val.rem
      BY <1>2, <1>3, <1>5, <2>2 DEF Leaves
    <3>2. writes[n] \in Writes
      BY <1>1, <2>2
    <3>3. writes[n].file = "session" /\ writes[n].val # None
      BY <1>2, <1>5, <2>2
    <3>4. writes[n].val.tok \in Nat
      BY <3>2, <3>3, Distinct DEF Writes, Sessions
    <3> QED
      BY <1>1, <1>2, <2>2, <3>1, <3>4 DEF Issued
  <2> QED
    BY <1>2, <2>1, <2>2
<1>6. ASSUME SignedIn', NEW n \in DOMAIN writes' PROVE cache'.tok \notin writes'[n].drops
  BY <1>2, <1>6 DEF SignedIn, Unsigned
<1>7. ASSUME NEW n \in DOMAIN writes', NEW m \in DOMAIN writes', m > n,
             writes'[m].file = "session", writes'[m].val # None
      PROVE  writes'[m].val.tok \notin writes'[n].drops
  <2>1. n \in DOMAIN writes
    BY <1>2, <1>7
  <2>2. CASE m = Len(writes) + 1
    BY <1>2, <1>7, <2>1, <2>2 DEF Unsigned
  <2>3. CASE m \in DOMAIN writes
    BY <1>2, <1>3, <1>7, <2>1, <2>3 DEF Leaves
  <2> QED
    BY <1>2, <2>2, <2>3
<1> QED
  BY <1>4, <1>5, <1>6, <1>7 DEF Leaves

(* A token issued now is on no write that signs a token out.               *)
LEMMA NewTokenUnsigned ==
  ASSUME SessionInv, NEW s, s.tok = tokens + 1
  PROVE  Unsigned(s, writes) /\ s.tok \notin out
<1>1. tokens \in Nat
  BY Distinct DEF SessionInv, Globals
<1>2. tokens + 1 \notin 1..tokens
  BY <1>1
<1>3. \A n \in DOMAIN writes : writes[n].drops \subseteq 1..tokens
  BY DEF SessionInv, SessionsLeave, Leaves
<1>4. out \subseteq 1..tokens
  BY DEF SessionInv, Globals
<1> QED
  BY <1>2, <1>3, <1>4 DEF Unsigned

----------------------------------------------------------------------------

StartsFlight(p) == flight = None /\ flight' = [gen |-> gen, by |-> p]
LoadsCache == cache = Unread /\ cache' = disk.session
LoadsLogin == login = Unread /\ login' = disk.login
IssuesToken == tokens < MaxTokens /\ tokens' = tokens + 1
OpensOnlyIfOpen(p) == Opens(op'[p]) => Opens(op[p]) /\ op'[p].gen = op[p].gen

(* A step of p that writes nothing.                                        *)
LEMMA QuietStep ==
  ASSUME SessionInv, NEW p \in Ops, Moves(p), op[p].st # "disk", Fit(op[p], p)',
         OpensOnlyIfOpen(p),
         UNCHANGED <<gen, cut, writes, disk, stale, out>>,
         (UNCHANGED <<cache, flight>>) \/ (UNCHANGED flight /\ LoadsCache)
           \/ (UNCHANGED cache /\ StartsFlight(p)),
         UNCHANGED login \/ LoadsLogin,
         UNCHANGED device \/ device' = None \/ (UNCHANGED cache /\ SignedIn /\ device' = cache.acc),
         UNCHANGED tokens \/ IssuesToken
  PROVE  SessionInv'
<1>1. Globals /\ FlightCurrent /\ DeviceOfAccount /\ SessionsLeave
  BY DEF SessionInv
<1>2. NoEnd(p)
  BY DEF NoEnd, LoadsCache, StartsFlight
<1>3. OpsFit'
  BY <1>2, AllFit
<1>4. OneSignIn'
  BY OneSignInHolds DEF OpensOnlyIfOpen
<1>5. WritersWait'
  BY WaitKept
<1>6. SessionFollows' /\ LoginFollows'
  BY SessionKept, LoginKept DEF LoadsCache, LoadsLogin
<1>7. tokens' \in 0..MaxTokens /\ tokens \in Nat /\ tokens' \in Nat /\ tokens' >= tokens
  BY <1>1, Distinct DEF IssuesToken, Globals
<1>8. cache' \in Sessions \cup {None, Unread}
  BY <1>1, CacheLoaded DEF LoadsCache, Globals
<1>9. Globals'
  <2>1. login' \in Accounts \cup {None, Unread}
    BY <1>1 DEF Globals, LoadsLogin
  <2>2. device' \in Accounts \cup {None}
    BY <1>1 DEF Globals, SignedIn, Sessions
  <2>3. flight' \in [gen : Nat, by : Ops] \cup {None}
    BY <1>1 DEF Globals, StartsFlight
  <2>4. out' \subseteq 1..tokens'
    BY <1>1, <1>7 DEF Globals
  <2> QED
    BY <1>1, <1>7, <1>8, <2>1, <2>2, <2>3, <2>4 DEF Globals
<1>10. FlightCurrent'
  BY <1>1 DEF FlightCurrent, StartsFlight
<1>11. SessionsLeave'
  <2>1. disk.session # None => disk.session.tok \in Nat
    BY <1>1, Distinct DEF Globals, Sessions
  <2>2. disk'.session # None => Issued(disk.session)' /\ disk'.session.rem
    BY <1>1, <1>7, <2>1 DEF SessionsLeave, Issued
  <2>3. CASE UNCHANGED cache
    <3>1. cache \in Sessions => cache.tok \in Nat
      BY DEF Sessions
    <3>2. SignedIn' => Issued(cache)'
      BY <1>1, <1>7, <2>3, <3>1 DEF SessionsLeave, Issued, SignedIn
    <3>3. ASSUME NEW n \in DOMAIN writes, writes[n].file = "session", writes[n].val # None
          PROVE  Issued(writes[n].val)'
      <4>1. writes[n].val.tok \in Nat
        <5>1. writes[n] \in Writes
          BY <1>1 DEF Globals
        <5> QED
          BY <3>3, <5>1, Distinct DEF Writes, Sessions
      <4>2. Issued(writes[n].val)
        BY <1>1, <3>3 DEF SessionsLeave, Leaves
      <4> QED
        BY <1>7, <4>1, <4>2 DEF Issued
    <3>4. \A n \in DOMAIN writes : writes[n].drops \subseteq 1..tokens'
      BY <1>1, <1>7 DEF SessionsLeave, Leaves
    <3>5. Leaves(writes)'
      BY <1>1, <2>3, <3>3, <3>4 DEF SessionsLeave, Leaves, SignedIn
    <3> QED
      BY <2>2, <3>2, <3>5 DEF SessionsLeave
  <2>4. CASE LoadsCache
    <3>1. /\ ~Pending(writes, "session")
          /\ cache' \in Sessions => Issued(cache')
      BY <2>4, CacheLoaded DEF LoadsCache
    <3>2. SignedIn' => Issued(cache)'
      <4>1. cache' \in Sessions => cache'.tok \in Nat
        BY DEF Sessions
      <4> QED
        BY <1>7, <3>1, <4>1 DEF Issued, SignedIn
    <3>3. ASSUME NEW n \in DOMAIN writes PROVE writes[n].file # "session" /\ writes[n].drops = {}
      <4>1. writes[n] \in Writes
        BY <1>1 DEF Globals
      <4> QED
        BY <3>1, <4>1 DEF Pending, Writes
    <3>4. Leaves(writes)'
      BY <3>3 DEF Leaves
    <3> QED
      BY <2>2, <3>2, <3>4 DEF SessionsLeave
  <2> QED
    BY <2>3, <2>4
<1>12. DeviceOfAccount'
  <2>1. cache = Unread => device = None
    BY <1>1, Distinct DEF DeviceOfAccount, SignedIn
  <2> QED
    BY <1>1, <2>1, Distinct DEF DeviceOfAccount, SignedIn, LoadsCache
<1> QED
  BY <1>3, <1>4, <1>5, <1>6, <1>9, <1>10, <1>11, <1>12 DEF SessionInv

(* A session ends.                                                         *)
LEMMA EndStep ==
  ASSUME SessionInv, NEW p \in Ops, EndSession(p, op'[p]), op[p].st # "disk",
         op'[p].st = "disk", Fit(op[p], p)',
         UNCHANGED <<login, tokens, disk, stale, out>>
  PROVE  SessionInv'
<1> DEFINE w == Write(p, "session", None, IF SignedIn THEN {cache.tok} ELSE {})
<1>1. /\ Globals /\ SessionsLeave
      /\ gen' = gen + 1 /\ cache' = None /\ device' = None /\ flight' = None
      /\ writes' = Append(writes, w) /\ cut' = cut \cup {q \in Ops : Active(q)}
      /\ Moves(p)
  BY DEF SessionInv, EndSession, DeviceAfterEnd, Becomes, Moves
<1>2. SignedIn => cache.tok \in 1..tokens
  <2>1. SignedIn => cache.tok \in 1..MaxTokens /\ cache.tok <= tokens
    BY <1>1 DEF SessionsLeave, Issued, SignedIn, Sessions
  <2> QED
    BY <1>1, <2>1, Distinct DEF Globals
<1>3. 1..tokens \subseteq 1..MaxTokens
  BY <1>1, Distinct DEF Globals
<1>4. /\ w \in Writes /\ w.file = "session" /\ w.by = p /\ w.val = None
      /\ w.drops \subseteq 1..tokens
  BY <1>2, <1>3 DEF Write, Writes
<1> HIDE DEF w
<1>5. OpsFit'
  BY <1>1, AllFit DEF Ends
<1>6. OneSignIn'
  BY <1>1, OneSignInHolds
<1>7. WritersWait'
  BY <1>1, <1>4, WaitAppend
<1>8. SessionFollows' /\ LoginFollows'
  <2>1. Kept(cache)' = None /\ cache' # Unread
    BY <1>1, Distinct DEF Kept
  <2> QED
    BY <1>1, <1>4, <2>1, SessionWritten
<1>9. Globals'
  <2>1. writes' \in Seq(Writes)
    BY <1>1, <1>4, AppendFacts DEF Globals
  <2> QED
    BY <1>1, <2>1 DEF Globals
<1>10. Leaves(writes)'
  <2>1. cache' \notin Sessions
    BY <1>1, Distinct
  <2>2. tokens' \in Nat /\ tokens' >= tokens
    BY <1>1, Distinct DEF Globals
  <2> QED
    BY <1>1, <1>4, <2>1, <2>2, LeavesAppend
<1>11. SessionsLeave'
  <2>1. ~SignedIn'
    BY <1>1, Distinct DEF SignedIn
  <2> QED
    BY <1>1, <1>10, <2>1 DEF SessionsLeave, Issued
<1>12. FlightCurrent' /\ DeviceOfAccount'
  BY <1>1 DEF FlightCurrent, DeviceOfAccount
<1> QED
  BY <1>5, <1>6, <1>7, <1>8, <1>9, <1>11, <1>12 DEF SessionInv

(* A session is stored: the one in memory once more, its successor, or     *)
(* that of a sign-in.                                                      *)
LEMMA StoreStep ==
  ASSUME SessionInv, NEW p \in Ops, Moves(p), op[p].st # "disk", op'[p].st = "disk",
         Fit(op[p], p)', OpensOnlyIfOpen(p),
         cache' \in Sessions,
         writes' = Append(writes, Write(p, "session", Kept(cache)', {})),
         \/ cache' = cache /\ tokens' = tokens
         \/ /\ cache'.tok = tokens + 1 /\ IssuesToken
            /\ \/ SignedIn /\ cache'.acc = cache.acc /\ flight = [gen |-> gen, by |-> p]
               \/ cache = None /\ Opens(op[p]) /\ Owns(p),
         UNCHANGED <<gen, login, device, flight, cut, disk, stale, out>>
  PROVE  SessionInv'
<1> DEFINE w == Write(p, "session", Kept(cache)', {})
<1>1. /\ Globals /\ SessionsLeave /\ FlightCurrent /\ DeviceOfAccount
      /\ writes' = Append(writes, w)
  BY DEF SessionInv
<1>2. /\ cache' # None /\ cache' # Unread
      /\ Kept(cache)' \in Sessions \cup {None}
      /\ Kept(cache)' # None => Kept(cache)' = cache' /\ cache'.rem
  BY Distinct DEF Kept
<1>3. w \in Writes /\ w.file = "session" /\ w.by = p /\ w.val = Kept(cache)' /\ w.drops = {}
  BY <1>2 DEF Write, Writes
<1> HIDE DEF w
<1>4. tokens' \in 0..MaxTokens /\ tokens \in Nat /\ tokens' \in Nat /\ tokens' >= tokens
  BY <1>1, Distinct DEF IssuesToken, Globals
<1>5. NoEnd(p)
  BY DEF NoEnd
<1>6. OpsFit' /\ OneSignIn'
  BY <1>5, AllFit, OneSignInHolds DEF OpensOnlyIfOpen
<1>7. WritersWait'
  BY <1>1, <1>3, WaitAppend
<1>8. SessionFollows' /\ LoginFollows'
  BY <1>1, <1>2, <1>3, SessionWritten
<1>9. Globals'
  <2>1. writes' \in Seq(Writes)
    BY <1>1, <1>3, AppendFacts DEF Globals
  <2>2. out' \subseteq 1..tokens'
    BY <1>1, <1>4 DEF Globals
  <2> QED
    BY <1>1, <1>4, <2>1, <2>2 DEF Globals
<1>10. cache'.tok <= tokens' /\ cache'.tok \notin out /\ Unsigned(cache', writes)
  <2>1. CASE cache' = cache /\ tokens' = tokens
    BY <1>1, <2>1 DEF SessionsLeave, Issued, SignedIn, Leaves, Unsigned
  <2>2. CASE cache'.tok = tokens + 1 /\ IssuesToken
    BY <1>4, <2>2, NewTokenUnsigned DEF IssuesToken
  <2> QED
    BY <2>1, <2>2
<1>11. Leaves(writes)'
  <2>1. w.file = "session" /\ w.val # None =>
           w.val.tok <= tokens' /\ w.val.tok \notin out /\ w.drops = {} /\ w.val.rem
             /\ Unsigned(w.val, writes)
    BY <1>2, <1>3, <1>10
  <2>2. cache' \in Sessions => cache'.tok \notin w.drops /\ Unsigned(cache', writes)
    BY <1>3, <1>10
  <2>3. w.drops \subseteq 1..tokens'
    BY <1>3
  <2> QED
    BY <1>1, <1>3, <1>4, <2>1, <2>2, <2>3, LeavesAppend
<1>12. SessionsLeave'
  <2>1. disk.session # None => disk.session.tok \in Nat
    BY <1>1, Distinct DEF Globals, Sessions
  <2>2. disk'.session # None => Issued(disk.session)' /\ disk'.session.rem
    BY <1>1, <1>4, <2>1 DEF SessionsLeave, Issued
  <2> QED
    BY <1>10, <1>11, <2>2 DEF SessionsLeave, Issued
<1>13. FlightCurrent'
  BY <1>1 DEF FlightCurrent
<1>14. DeviceOfAccount'
  BY <1>1, Distinct DEF DeviceOfAccount, SignedIn
<1> QED
  BY <1>6, <1>7, <1>8, <1>9, <1>12, <1>13, <1>14 DEF SessionInv

(* A remembered login is noted.                                            *)
LEMMA RememberStep ==
  ASSUME SessionInv, NEW p \in Ops, NEW a \in Accounts \cup {None}, SetLogin(p, a, op'[p]),
         op[p].st # "disk", op'[p].st = "disk", Fit(op[p], p)', OpensOnlyIfOpen(p),
         UNCHANGED cache \/ LoadsCache,
         UNCHANGED <<gen, device, flight, tokens, cut, disk, stale, out>>
  PROVE  SessionInv'
<1> DEFINE w == Write(p, "login", a, {})
<1>1. /\ Globals /\ SessionsLeave /\ FlightCurrent /\ DeviceOfAccount
      /\ writes' = Append(writes, w) /\ login' = a
      /\ Moves(p)
  BY DEF SessionInv, SetLogin, Becomes, Moves
<1>2. w \in Writes /\ w.file = "login" /\ w.by = p /\ w.val = login' /\ w.drops = {}
  BY <1>1 DEF Write, Writes
<1> HIDE DEF w
<1>3. NoEnd(p)
  BY DEF NoEnd, LoadsCache
<1>4. OpsFit' /\ OneSignIn'
  BY <1>1, <1>3, AllFit, OneSignInHolds DEF OpensOnlyIfOpen
<1>5. WritersWait'
  BY <1>1, <1>2, WaitAppend
<1>6. SessionFollows' /\ LoginFollows'
  <2>1. login' # Unread
    BY <1>1, Distinct
  <2> QED
    BY <1>1, <1>2, <2>1, LoginWritten DEF LoadsCache
<1>7. cache' \in Sessions \cup {None, Unread}
  BY <1>1, CacheLoaded DEF LoadsCache, Globals
<1>8. Globals'
  <2>1. writes' \in Seq(Writes)
    BY <1>1, <1>2, AppendFacts DEF Globals
  <2> QED
    BY <1>1, <1>7, <2>1 DEF Globals
<1>9. tokens' \in Nat /\ tokens' >= tokens
  BY <1>1, Distinct DEF Globals
<1>10. cache' \in Sessions => Issued(cache') /\ Unsigned(cache', writes)
  <2>1. CASE UNCHANGED cache
    BY <1>1, <2>1 DEF SessionsLeave, SignedIn, Issued, Leaves, Unsigned
  <2>2. CASE LoadsCache
    <3>1. /\ ~Pending(writes, "session")
          /\ cache' \in Sessions => Issued(cache')
      BY <2>2, CacheLoaded DEF LoadsCache
    <3>2. ASSUME NEW n \in DOMAIN writes PROVE writes[n].drops = {}
      <4>1. writes[n] \in Writes
        BY <1>1 DEF Globals
      <4> QED
        BY <3>1, <4>1 DEF Pending, Writes
    <3> QED
      BY <3>1, <3>2 DEF Unsigned
  <2> QED
    BY <2>1, <2>2
<1>11. Leaves(writes)'
  <2>1. w.drops \subseteq 1..tokens'
    BY <1>2
  <2>2. ~(w.file = "session")
    BY <1>2
  <2>3. cache' \in Sessions => cache'.tok \notin w.drops /\ Unsigned(cache', writes)
    BY <1>2, <1>10
  <2> QED
    BY <1>1, <1>2, <1>9, <2>1, <2>2, <2>3, LeavesAppend
<1>12. SessionsLeave'
  <2>1. SignedIn' => Issued(cache)'
    BY <1>10 DEF Issued, SignedIn
  <2> QED
    BY <1>1, <1>11, <2>1 DEF SessionsLeave, Issued
<1>13. FlightCurrent'
  BY <1>1 DEF FlightCurrent
<1>14. DeviceOfAccount'
  <2>1. cache = Unread => device = None
    BY <1>1, Distinct DEF DeviceOfAccount, SignedIn
  <2> QED
    BY <1>1, <2>1, Distinct DEF DeviceOfAccount, SignedIn, LoadsCache
<1> QED
  BY <1>4, <1>5, <1>6, <1>8, <1>12, <1>13, <1>14 DEF SessionInv

----------------------------------------------------------------------------

(* What the invariant says of one operation, for the proofs of the steps.  *)
LEMMA Known ==
  ASSUME SessionInv, NEW p \in Ops
  PROVE  /\ op[p] \in OpRecs /\ Stage(op[p])
         /\ gen \in Nat /\ op[p].gen \in Nat /\ op[p].gen <= gen
         /\ Alive(op[p]) /\ Owns(p) => Current(op[p], p)
         /\ p \in cut => op[p].st # "new"
         /\ Globals
BY DEF SessionInv, OpsFit, Fit, OpRecs, Owns, Globals

(* The record an operation gets, field by field.                           *)
LEMMA BecomesRecord ==
  ASSUME SessionInv, NEW p \in Ops, NEW r, Becomes(p, r)
  PROVE  Moves(p) /\ op'[p] = r
BY DEF SessionInv, OpsFit, Becomes, Moves

Goes(p, st, at, ses, res) ==
  /\ op'[p].kind = op[p].kind /\ op'[p].gen = op[p].gen
  /\ op'[p].held = op[p].held /\ op'[p].ask = op[p].ask
  /\ op'[p].retried = op[p].retried
  /\ op'[p].st = st /\ op'[p].at = at /\ op'[p].ses = ses /\ op'[p].res = res

Results == {"ok", "failed", "changed", "io", "auth"}
Sts == {"new", "run", "read", "disk", "net", "join", "done"}

(* The records of the moves of the model, field by field: a new place,     *)
LEMMA ToRecord ==
  ASSUME SessionInv, NEW p \in Ops, NEW st \in Sts, NEW at \in Ats, Becomes(p, To(p, st, at))
  PROVE  Moves(p) /\ op'[p] \in OpRecs /\ Goes(p, st, at, op[p].ses, op[p].res)
<1>1. op[p] \in OpRecs
  BY Known
<1>2. Moves(p) /\ op'[p] = [op[p] EXCEPT !.st = st, !.at = at]
  BY BecomesRecord DEF To
<1> QED
  BY <1>1, <1>2 DEF Goes, OpRecs, Sts

(* a new place and a result,                                               *)
LEMMA ToRecordRes ==
  ASSUME SessionInv, NEW p \in Ops, NEW st \in Sts, NEW at \in Ats, NEW res \in Results,
         Becomes(p, [To(p, st, at) EXCEPT !.res = res])
  PROVE  Moves(p) /\ op'[p] \in OpRecs /\ Goes(p, st, at, op[p].ses, res)
<1>1. op[p] \in OpRecs
  BY Known
<1>2. Moves(p) /\ op'[p] = [[op[p] EXCEPT !.st = st, !.at = at] EXCEPT !.res = res]
  BY BecomesRecord DEF To
<1>3. op'[p] \in OpRecs
  BY <1>1, <1>2 DEF OpRecs, Sts, Results
<1>4. Goes(p, st, at, op[p].ses, res)
  BY <1>1, <1>2 DEF Goes, OpRecs
<1> QED
  BY <1>2, <1>3, <1>4

(* a new place, a result and a session.                                    *)
LEMMA ToRecordSes ==
  ASSUME SessionInv, NEW p \in Ops, NEW st \in Sts, NEW at \in Ats, NEW res \in Results,
         NEW ses \in Sessions \cup {None},
         Becomes(p, [To(p, st, at) EXCEPT !.ses = ses, !.res = res])
  PROVE  Moves(p) /\ op'[p] \in OpRecs /\ Goes(p, st, at, ses, res)
<1>1. op[p] \in OpRecs
  BY Known
<1>2. Moves(p) /\ op'[p] = [[op[p] EXCEPT !.st = st, !.at = at] EXCEPT !.ses = ses, !.res = res]
  BY BecomesRecord DEF To
<1>3. op'[p] \in OpRecs
  BY <1>1, <1>2 DEF OpRecs, Sts, Results
<1>4. Goes(p, st, at, ses, res)
  BY <1>1, <1>2 DEF Goes, OpRecs
<1> QED
  BY <1>2, <1>3, <1>4

(* Where a step that keeps the session in hand may lead.                   *)
MayGo(p, st, at) ==
  /\ st = "join" => at = "refresh"
  /\ st = "net" => at \in NetAts
  /\ at = "lost" => st = "run"
  /\ at \in SessionAts => op[p].ses \in Sessions
  /\ at \in LoginAts => op[p].at \in LoginAts
  /\ op[p].kind = "logout" => at \in LogoutAts
  /\ at \in {"cleared", "login"} => op[p].at \in {"cleared", "login"}
  /\ st # "done" /\ Owns(p) /\ at \in ExchangeAts /\ st # "join" => cache.tok = op[p].ses.tok
  /\ st # "done" /\ Owns(p) /\ at \in FlightAts /\ st # "join" =>
       flight' = [gen |-> gen, by |-> p]

(* An operation that goes on with the session it has is fit in its new     *)
(* place, if the place is one that its kind and its session allow (MayGo). *)
LEMMA GoesFit ==
  ASSUME SessionInv, NEW p \in Ops, NEW st \in Sts \ {"new", "read"}, NEW at \in Ats, NEW res,
         op[p].st \notin {"new", "done"}, op'[p] \in OpRecs,
         Goes(p, st, at, op[p].ses, res), UNCHANGED <<gen, cut, cache>>,
         UNCHANGED flight \/ StartsFlight(p), MayGo(p, st, at),
         at = "lost" => res \in {"changed", "io", "auth"}
  PROVE  Fit(op[p], p)' /\ OpensOnlyIfOpen(p)
<1>1. /\ op[p] \in OpRecs /\ Stage(op[p])
      /\ gen \in Nat /\ op[p].gen \in Nat /\ op[p].gen <= gen
      /\ Alive(op[p]) /\ Owns(p) => Current(op[p], p)
      /\ Alive(op[p])
  BY Known DEF Alive
<1>2. Stage(op[p])'
  BY <1>1 DEF Stage, Goes, MayGo
<1>3. ASSUME Alive(op[p])', op'[p].gen = gen PROVE Current(op[p], p)'
  <2>1. Owns(p) /\ st # "done"
    BY <1>3 DEF Goes, Owns, Alive
  <2>2. Current(op[p], p)
    BY <1>1, <2>1
  <2> QED
    BY <2>1, <2>2 DEF Current, Goes, SignedIn, InFlight, MayGo
<1>4. OpensOnlyIfOpen(p)
  BY <1>1 DEF OpensOnlyIfOpen, Opens, Goes, MayGo
<1> QED
  BY <1>1, <1>2, <1>3, <1>4 DEF Fit, Goes

(* A step of p that changes where p is, and at most starts its flight,     *)
(* reads the login or is given a token.                                    *)
LEMMA GoesOn ==
  ASSUME SessionInv, NEW p \in Ops, NEW st \in Sts \ {"new", "read"}, NEW at \in Ats, NEW res,
         op[p].st \notin {"new", "done", "disk"}, Moves(p), op'[p] \in OpRecs,
         Goes(p, st, at, op[p].ses, res), MayGo(p, st, at),
         at = "lost" => res \in {"changed", "io", "auth"},
         UNCHANGED <<gen, cut, cache, device, writes, disk, stale, out>>,
         UNCHANGED flight \/ StartsFlight(p),
         UNCHANGED login \/ LoadsLogin,
         UNCHANGED tokens \/ IssuesToken
  PROVE  SessionInv'
<1>1. Fit(op[p], p)' /\ OpensOnlyIfOpen(p)
  BY GoesFit
<1> QED
  BY <1>1, QuietStep

(* An operation ends.                                                      *)
LEMMA FinishStep ==
  ASSUME SessionInv, NEW p \in Ops, op[p].st \notin {"new", "done", "disk"}, Finish(p),
         UNCHANGED <<gen, cut, cache, device, flight, writes, disk, stale, out>>,
         UNCHANGED login \/ LoadsLogin,
         UNCHANGED tokens \/ IssuesToken
  PROVE  SessionInv'
<1>1. "done" \in Sts \ {"new", "read"} /\ "end" \in Ats
  BY DEF Sts, Ats, LogoutAts
<1>2. MayGo(p, "done", "end")
  BY DEF MayGo, SessionAts, LoginAts, LogoutAts, ExchangeAts, FlightAts
<1>3. Moves(p) /\ op'[p] \in OpRecs /\ Goes(p, "done", "end", op[p].ses, op[p].res)
  BY <1>1, ToRecord DEF Finish
<1> QED
  BY <1>1, <1>2, <1>3, GoesOn

(* clearSession.                                                           *)
LEMMA ClearStep ==
  ASSUME SessionInv, NEW p \in Ops, op[p].st \notin {"new", "done", "disk"},
         NEW next \in {"refused", "revoke", "end"}, Clear(p, next),
         next = "refused" => op[p].ses \in Sessions /\ op[p].kind # "logout",
         UNCHANGED <<login, disk, stale, out, tokens>>
  PROVE  SessionInv'
<1>1. next \in Ats /\ "disk" \in Sts /\ "run" \in Sts \ {"new", "read"}
  BY DEF Ats, LogoutAts, SessionAts, FlightAts, Sts
<1>2. CASE Owns(p)
  <2>1. EndSession(p, To(p, "disk", next))
    BY <1>2 DEF Clear, Owns
  <2>2. Becomes(p, To(p, "disk", next)) /\ gen' = gen + 1 /\ cut' = cut \cup {q \in Ops : Active(q)}
    BY <2>1 DEF EndSession
  <2>3. Moves(p) /\ op'[p] \in OpRecs /\ Goes(p, "disk", next, op[p].ses, op[p].res)
    BY <1>1, <2>2, ToRecord
  <2>4. op'[p] = To(p, "disk", next)
    BY <2>2, BecomesRecord
  <2>5. EndSession(p, op'[p])
    BY <2>1, <2>4, Zenon
  <2>6. Fit(op[p], p)'
    <3>1. Stage(op[p]) /\ gen \in Nat /\ op[p].gen \in Nat /\ op[p].gen <= gen
      BY Known
    <3>2. Stage(op[p])'
      BY <2>3, <3>1 DEF Stage, Goes, SessionAts, FlightAts, ExchangeAts, LoginAts, LogoutAts
    <3>3. op'[p].gen # gen' /\ op'[p].gen <= gen'
      BY <2>2, <2>3, <3>1 DEF Goes
    <3> QED
      BY <2>3, <3>2, <3>3 DEF Fit, Goes
  <2> QED
    BY <2>3, <2>5, <2>6, EndStep DEF Goes
<1>3. CASE ~Owns(p)
  <2>1. Run(p, next) /\ UNCHANGED <<gen, cache, device, flight, writes, cut>>
    BY <1>3 DEF Clear, Owns
  <2>2. Moves(p) /\ op'[p] \in OpRecs /\ Goes(p, "run", next, op[p].ses, op[p].res)
    BY <1>1, <2>1, ToRecord DEF Run
  <2>3. MayGo(p, "run", next)
    BY <1>3 DEF MayGo, SessionAts, FlightAts, LoginAts, LogoutAts, ExchangeAts
  <2> QED
    BY <1>1, <2>1, <2>2, <2>3, GoesOn
<1> QED
  BY <1>2, <1>3

(* A login is noted by an operation that keeps what it has in hand.        *)
LEMMA NotedStep ==
  ASSUME SessionInv, NEW p \in Ops, op[p].st \notin {"new", "done", "disk"},
         NEW at \in Ats, MayGo(p, "disk", at), at # "lost", NEW a \in Accounts \cup {None},
         SetLogin(p, a, To(p, "disk", at)),
         UNCHANGED <<gen, cut, cache, device, flight, tokens, disk, stale, out>>
  PROVE  SessionInv'
<1>1. "disk" \in Sts \ {"new", "read"}
  BY DEF Sts
<1>2. Becomes(p, To(p, "disk", at))
  BY DEF SetLogin
<1>3. Moves(p) /\ op'[p] \in OpRecs /\ Goes(p, "disk", at, op[p].ses, op[p].res)
  BY <1>1, <1>2, ToRecord
<1>4. op'[p] = To(p, "disk", at)
  BY <1>2, BecomesRecord
<1>5. SetLogin(p, a, op'[p])
  BY <1>4, Zenon
<1>6. Fit(op[p], p)' /\ OpensOnlyIfOpen(p)
  BY <1>1, <1>3, GoesFit
<1> QED
  BY <1>3, <1>5, <1>6, RememberStep DEF Goes

----------------------------------------------------------------------------

(* Which places are which, as facts about strings.                         *)
LEMMA Places ==
  /\ {"run", "net", "join", "done", "disk"} \subseteq Sts \ {"new", "read"}
  /\ SessionAts \cup LoginAts \cup LogoutAts \cup {"noted"} \subseteq Ats
  /\ ExchangeAts \subseteq FlightAts /\ FlightAts \subseteq SessionAts
  /\ \A a \in SessionAts : a \notin LoginAts /\ a \notin LogoutAts /\ a # "noted"
  /\ \A a \in LoginAts : a \notin LogoutAts /\ a # "noted"
  /\ {"cleared", "login"} \subseteq LoginAts
BY DEF Sts, SessionAts, LoginAts, LogoutAts, Ats, ExchangeAts, FlightAts

(* The start of an operation.                                              *)
LEMMA StartStep ==
  ASSUME SessionInv, NEW p \in Ops, Start(p)
  PROVE  SessionInv'
<1>1. op[p].st = "new" /\ UNCHANGED <<tokens, disk, stale, out>>
  BY DEF Start
<1>2. CASE Login(p)
  <2>1. PICK l \in Logins :
          EndSession(p, [New EXCEPT !.kind = "login", !.st = "disk", !.at = "cleared",
                                    !.gen = gen + 1, !.held = [acc |-> l[1], rem |-> l[2]]])
    BY <1>2 DEF Login
  <2>2. [acc |-> l[1], rem |-> l[2]] \in Credentials
    BY SessionAssumption DEF SessionAssumption, Credentials
  <2>3. PICK h \in Credentials : h = [acc |-> l[1], rem |-> l[2]]
    BY <2>2
  <2> DEFINE r == [New EXCEPT !.kind = "login", !.st = "disk", !.at = "cleared",
                              !.gen = gen + 1, !.held = h]
  <2>4. EndSession(p, r)
    BY <2>1, <2>3, Zenon
  <2>5. /\ r \in OpRecs /\ r.kind = "login" /\ r.st = "disk" /\ r.at = "cleared"
        /\ r.gen = gen + 1 /\ r.held \in Credentials /\ r.ses = None /\ r.ask = "main"
    <3>1. gen + 1 \in Nat /\ "cleared" \in Ats
      BY Known, Places
    <3>2. /\ r.kind = "login" /\ r.st = "disk" /\ r.at = "cleared"
          /\ r.gen = gen + 1 /\ r.held = h /\ r.ses = None /\ r.ask = "main"
      BY DEF New
    <3>3. r \in OpRecs
      BY <3>1 DEF New, OpRecs, OpKinds
    <3> HIDE DEF r
    <3> QED
      BY <3>2, <3>3
  <2>6. Becomes(p, r) /\ gen' = gen + 1 /\ cache' = None /\ cut' = cut \cup {q \in Ops : Active(q)}
    BY <2>4 DEF EndSession
  <2> HIDE DEF r
  <2>7. Moves(p) /\ op'[p] = r
    BY <2>6, BecomesRecord
  <2>8. EndSession(p, op'[p])
    BY <2>7, <2>4, Zenon
  <2>9. p \notin cut'
    BY <1>1, <2>6, Known DEF Active
  <2>10. Stage(op[p])'
    BY <2>5, <2>7, Places DEF Stage
  <2>11. Current(op[p], p)'
    BY <2>5, <2>6, <2>7, <2>9, Places DEF Current, InFlight, LoginAts
  <2>12. Fit(op[p], p)'
    BY <2>5, <2>6, <2>7, <2>9, <2>10, <2>11, Known DEF Fit
  <2> QED
    BY <1>1, <1>2, <2>5, <2>7, <2>8, <2>12, EndStep DEF Login
<1>3. ASSUME NEW k \in Kinds[p], Begin(p, k) PROVE SessionInv'
  <2> DEFINE s == IF cache = Unread THEN None ELSE cache
             r == [New EXCEPT !.kind = k, !.gen = gen, !.at = "loaded",
                              !.st = IF cache = Unread THEN "read" ELSE "run",
                              !.ses = s]
  <2>1. k \in OpKinds /\ k # "login"
    BY <1>3, SessionAssumption DEF SessionAssumption, Begin
  <2>2. s \in Sessions \cup {None}
    BY Known DEF Globals
  <2>3. Becomes(p, r) /\ UNCHANGED <<gen, cache, login, device, flight, writes, cut>>
    BY <1>3 DEF Begin
  <2>4. (s # None => SignedIn /\ s = cache) /\ (cache = Unread => s = None)
    BY <2>2 DEF SignedIn
  <2> HIDE DEF s
  <2>5. /\ r \in OpRecs /\ r.kind = k /\ r.st \in {"read", "run"} /\ r.at = "loaded"
        /\ r.gen = gen /\ r.held = None /\ r.ses = s /\ r.ask = "main"
        /\ r.st = "read" => r.ses = None
    <3>1. /\ r.kind = k /\ r.st \in {"read", "run"} /\ r.at = "loaded"
          /\ r.gen = gen /\ r.held = None /\ r.ses = s /\ r.ask = "main"
          /\ r.st = "read" => r.ses = None
      BY <2>4 DEF New
    <3>2. "loaded" \in Ats /\ gen \in Nat
      BY Known, Places DEF LogoutAts
    <3>3. r \in OpRecs
      BY <2>1, <2>2, <3>2 DEF New, OpRecs
    <3> QED
      BY <3>1, <3>3
  <2> HIDE DEF r
  <2>6. Moves(p) /\ op'[p] = r
    BY <2>3, BecomesRecord
  <2>7. p \notin cut
    BY <1>1, Known
  <2>8. Stage(op[p])'
    BY <2>1, <2>5, <2>6, Places DEF Stage, LogoutAts
  <2>9. Current(op[p], p)'
    BY <2>3, <2>4, <2>5, <2>6, <2>7, Places DEF Current, InFlight, LogoutAts, SignedIn
  <2>10. Fit(op[p], p)'
    BY <2>3, <2>5, <2>6, <2>7, <2>8, <2>9, Known DEF Fit
  <2>11. OpensOnlyIfOpen(p)
    BY <2>5, <2>6 DEF OpensOnlyIfOpen, Opens
  <2> QED
    BY <1>1, <2>3, <2>6, <2>10, <2>11, QuietStep
<1> QED
  BY <1>2, <1>3 DEF Start

(* loadSession.                                                            *)
LEMMA ReadStep ==
  ASSUME SessionInv, NEW p \in Ops, ReadDone(p)
  PROVE  SessionInv'
<1>1. /\ op[p].st = "read"
      /\ UNCHANGED <<gen, device, flight, tokens, disk, stale, cut, out>>
  BY DEF ReadDone
<1>2. /\ op[p] \in OpRecs /\ Stage(op[p])
      /\ gen \in Nat /\ op[p].gen \in Nat /\ op[p].gen <= gen
      /\ Alive(op[p]) /\ (Owns(p) => Current(op[p], p)) /\ Globals
  BY <1>1, Known DEF Alive
<1>3. CASE LoadWins(p)
  <2>1. LoadsCache /\ Owns(p)
    BY <1>3 DEF LoadWins, Owns, LoadsCache, ReadDone
  <2>2. /\ ~Pending(writes, "session")
        /\ cache' \in Sessions \cup {None} /\ cache' # Unread
    BY <2>1, CacheLoaded DEF LoadsCache
  <2>3. /\ op[p].ses # None => op[p].kind = "logout"
        /\ ~(op[p].kind = "model" /\ op[p].held # None)
        /\ op[p].at \notin {"cleared", "login"}
        /\ p \in cut => op[p].kind = "logout"
    <3>1. ~SignedIn /\ cache # None
      BY <2>1, Distinct DEF LoadsCache, SignedIn
    <3> QED
      BY <1>2, <2>1, <3>1 DEF Current
  <2>4. /\ op[p].at = "loaded" /\ op[p].kind # "login"
    BY <1>1, <1>2 DEF Stage
  <2>5. ASSUME NEW s \in Sessions \cup {None}, s # None => s = cache', NEW st \in {"run", "disk"},
               op'[p] \in OpRecs, Goes(p, st, "loaded", s, op[p].res)
        PROVE  Fit(op[p], p)' /\ OpensOnlyIfOpen(p)
    <3>1. Stage(op[p])'
      BY <1>2, <2>4, <2>5, Places DEF Stage, Goes, LogoutAts
    <3>2. Current(op[p], p)'
      BY <1>1, <2>2, <2>3, <2>5, Places DEF Current, Goes, SignedIn, InFlight, LogoutAts
    <3>3. OpensOnlyIfOpen(p)
      BY <2>5 DEF OpensOnlyIfOpen, Opens, Goes
    <3> QED
      BY <1>1, <1>2, <2>5, <3>1, <3>2, <3>3 DEF Fit, Goes
  <2>6. CASE disk.session # None
    <3> DEFINE s == disk.session
               r == [To(p, "disk", "loaded") EXCEPT !.ses = s]
    <3>1. SetLogin(p, s.acc, r) /\ cache' = s
      BY <1>3, <2>6 DEF ReadDone
    <3>2. s \in Sessions /\ s.acc \in Accounts \cup {None}
      BY <1>2, <2>6 DEF Globals, Sessions
    <3>3. r = [To(p, "disk", "loaded") EXCEPT !.ses = s, !.res = op[p].res]
      BY <1>2 DEF To, OpRecs
    <3>4. Becomes(p, r)
      BY <3>1 DEF SetLogin
    <3>5. "disk" \in Sts /\ "loaded" \in Ats /\ op[p].res \in Results
      BY <1>2, Places DEF LogoutAts, OpRecs, Results
    <3>6. PICK ss \in Sessions : ss = s
      BY <3>2
    <3>7. Becomes(p, [To(p, "disk", "loaded") EXCEPT !.ses = ss, !.res = op[p].res])
      BY <3>3, <3>4, <3>6, Zenon
    <3>8. Moves(p) /\ op'[p] \in OpRecs /\ Goes(p, "disk", "loaded", ss, op[p].res)
      BY <3>5, <3>7, ToRecordSes
    <3>9. Fit(op[p], p)' /\ OpensOnlyIfOpen(p)
      BY <2>5, <3>1, <3>6, <3>8
    <3>10. op'[p] = r
      BY <3>4, BecomesRecord
    <3> HIDE DEF r
    <3>11. SetLogin(p, s.acc, op'[p])
      BY <3>1, <3>10, Zenon
    <3>12. PICK a \in Accounts \cup {None} : a = s.acc
      BY <3>2
    <3>13. SetLogin(p, a, op'[p])
      BY <3>11, <3>12, Zenon
    <3>14. op'[p].st = "disk" /\ op[p].st # "disk"
      BY <1>1, <3>8 DEF Goes
    <3> QED
      BY <1>1, <2>1, <3>9, <3>13, <3>14, RememberStep
  <2>7. CASE disk.session = None
    <3>1. Run(p, "loaded") /\ UNCHANGED <<login, writes>> /\ cache' = None
      BY <1>3, <2>7 DEF ReadDone
    <3>2. Moves(p) /\ op'[p] \in OpRecs /\ Goes(p, "run", "loaded", op[p].ses, op[p].res)
      <4>1. "run" \in Sts /\ "loaded" \in Ats
        BY Places DEF LogoutAts
      <4> QED
        BY <3>1, <4>1, ToRecord DEF Run
    <3>3. op[p].ses = None
      BY <1>1, <1>2 DEF Stage
    <3>4. Fit(op[p], p)' /\ OpensOnlyIfOpen(p)
      BY <2>5, <3>2, <3>3
    <3> QED
      BY <1>1, <2>1, <3>1, <3>2, <3>4, QuietStep
  <2> QED
    BY <2>6, <2>7
<1>4. CASE ~LoadWins(p)
  <2> DEFINE s == IF cache = Unread THEN None ELSE cache
  <2>1. /\ Becomes(p, [To(p, "run", "loaded") EXCEPT !.ses = s])
        /\ UNCHANGED <<cache, login, writes>>
    BY <1>4 DEF ReadDone
  <2>2. s \in Sessions \cup {None} /\ (s # None => SignedIn /\ s = cache)
    BY <1>2 DEF Globals, SignedIn
  <2>3. PICK ss \in Sessions \cup {None} : ss = s
    BY <2>2
  <2> HIDE DEF s
  <2>4. Becomes(p, [To(p, "run", "loaded") EXCEPT !.ses = ss, !.res = op[p].res])
    BY <1>2, <2>1, <2>3 DEF To, OpRecs
  <2>5. Moves(p) /\ op'[p] \in OpRecs /\ Goes(p, "run", "loaded", ss, op[p].res)
    <3>1. "run" \in Sts /\ "loaded" \in Ats /\ op[p].res \in Results
      BY <1>2, Places DEF LogoutAts, OpRecs, Results
    <3> QED
      BY <2>4, <3>1, ToRecordSes
  <2>6. /\ op[p].at = "loaded" /\ op[p].kind # "login"
    BY <1>1, <1>2 DEF Stage
  <2>7. Stage(op[p])'
    BY <1>2, <2>5, <2>6, Places DEF Stage, Goes, LogoutAts
  <2>8. ASSUME Owns(p) PROVE Current(op[p], p)'
    BY <1>1, <1>2, <2>1, <2>2, <2>3, <2>5, <2>6, <2>8, Places
       DEF Current, Goes, SignedIn, InFlight, LogoutAts
  <2>9. OpensOnlyIfOpen(p)
    BY <2>5 DEF OpensOnlyIfOpen, Opens, Goes
  <2>10. Fit(op[p], p)'
    BY <1>1, <1>2, <2>5, <2>7, <2>8 DEF Fit, Goes, Owns
  <2> QED
    BY <1>1, <2>1, <2>5, <2>9, <2>10, QuietStep
<1> QED
  BY <1>3, <1>4

----------------------------------------------------------------------------

(* An operation that exchanges a token holds a session of its own user,    *)
(* and while its generation is the current one it is the flight.           *)
LEMMA Flying ==
  ASSUME SessionInv, NEW p \in Ops, op[p].at \in FlightAts, Alive(op[p])
  PROVE  /\ op[p].ses \in Sessions /\ op[p].kind \notin {"login", "logout"}
         /\ Owns(p) => SignedIn /\ cache.acc = op[p].ses.acc
         /\ Owns(p) /\ op[p].st # "join" => flight = [gen |-> gen, by |-> p]
         /\ Owns(p) /\ op[p].st # "join" /\ op[p].at \in ExchangeAts => cache.tok = op[p].ses.tok
<1>1. /\ op[p] \in OpRecs /\ Stage(op[p]) /\ (Owns(p) => Current(op[p], p))
  BY Known
<1>2. op[p].ses \in Sessions /\ op[p].kind \notin {"login", "logout"}
  BY <1>1, Places, Distinct DEF Stage
<1> QED
  BY <1>1, <1>2, Distinct DEF Current, InFlight

(* An operation takes over the session in memory.                          *)
LEMMA TakesOver ==
  ASSUME SessionInv, NEW p \in Ops, op[p].st \notin {"new", "done", "disk"}, Owns(p), SignedIn,
         op[p].kind \notin {"logout", "login"},
         Becomes(p, [To(p, "run", "refreshed") EXCEPT !.ses = cache, !.res = "ok"]),
         UNCHANGED <<gen, cut, cache, login, device, flight, writes, tokens, disk, stale, out>>
  PROVE  SessionInv'
<1>1. PICK s \in Sessions : s = cache
  BY DEF SignedIn
<1>2. Becomes(p, [To(p, "run", "refreshed") EXCEPT !.ses = s, !.res = "ok"])
  BY <1>1, Zenon
<1>3. "run" \in Sts /\ "refreshed" \in Ats /\ "ok" \in Results
  BY Places DEF SessionAts, Results
<1>4. Moves(p) /\ op'[p] \in OpRecs /\ Goes(p, "run", "refreshed", s, "ok")
  BY <1>2, <1>3, ToRecordSes
<1>5. /\ op[p] \in OpRecs /\ Stage(op[p]) /\ Current(op[p], p)
      /\ gen \in Nat /\ op[p].gen <= gen
  BY Known DEF Alive
<1>6. Stage(op[p])'
  BY <1>4, <1>5, Places DEF Stage, Goes, SessionAts
<1>7. Current(op[p], p)'
  BY <1>1, <1>4, <1>5, Places DEF Current, Goes, SignedIn, InFlight, FlightAts, ExchangeAts
<1>8. Fit(op[p], p)'
  BY <1>4, <1>5, <1>6, <1>7 DEF Fit, Goes
<1>9. OpensOnlyIfOpen(p)
  BY <1>4 DEF OpensOnlyIfOpen, Opens, Goes
<1> QED
  BY <1>4, <1>8, <1>9, QuietStep

(* refreshSession, called.                                                 *)
LEMMA RefreshStep ==
  ASSUME SessionInv, NEW p \in Ops, op[p].st = "run", op[p].ses \in Sessions,
         op[p].kind \notin {"logout", "login"}, Refresh(p)
  PROVE  SessionInv'
<1>1. UNCHANGED <<gen, cache, login, device, writes, tokens, disk, stale, cut, out>>
  BY DEF Refresh
<1>2. CASE ~Owns(p) \/ ~SignedIn
  <2>1. Finish(p) /\ UNCHANGED flight
    BY <1>2 DEF Refresh
  <2> QED
    BY <1>1, <2>1, FinishStep
<1>3. CASE Owns(p) /\ SignedIn /\ cache.tok # op[p].ses.tok
  <2>1. /\ Becomes(p, [To(p, "run", "refreshed") EXCEPT !.ses = cache, !.res = "ok"])
        /\ UNCHANGED flight
    BY <1>3 DEF Refresh
  <2> QED
    BY <1>1, <1>3, <2>1, TakesOver
<1>4. CASE Owns(p) /\ SignedIn /\ cache.tok = op[p].ses.tok /\ Joins(p)
  <2>1. Becomes(p, To(p, "join", "refresh")) /\ UNCHANGED flight
    BY <1>4 DEF Refresh
  <2>2. "join" \in Sts \ {"new", "read"} /\ "refresh" \in Ats
    BY Places DEF ExchangeAts
  <2>3. Moves(p) /\ op'[p] \in OpRecs /\ Goes(p, "join", "refresh", op[p].ses, op[p].res)
    BY <2>1, <2>2, ToRecord, Places
  <2>4. MayGo(p, "join", "refresh")
    BY Places DEF MayGo, ExchangeAts
  <2> QED
    BY <1>1, <2>1, <2>2, <2>3, <2>4, GoesOn
<1>5. CASE Owns(p) /\ SignedIn /\ cache.tok = op[p].ses.tok /\ ~Joins(p)
  <2>1. Becomes(p, To(p, "net", "refresh")) /\ flight' = [gen |-> gen, by |-> p]
    BY <1>5 DEF Refresh, Await
  <2>2. StartsFlight(p)
    BY <1>5, <2>1 DEF StartsFlight, Joins, Owns, SessionInv, FlightCurrent
  <2>3. "net" \in Sts \ {"new", "read"} /\ "refresh" \in Ats
    BY Places DEF ExchangeAts
  <2>4. Moves(p) /\ op'[p] \in OpRecs /\ Goes(p, "net", "refresh", op[p].ses, op[p].res)
    BY <2>1, <2>3, ToRecord, Places
  <2>5. MayGo(p, "net", "refresh")
    BY <1>5, <2>1, Places DEF MayGo, NetAts, ExchangeAts
  <2> QED
    BY <1>1, <2>2, <2>3, <2>4, <2>5, GoesOn
<1> QED
  BY <1>2, <1>3, <1>4, <1>5

(* The successor of the session in memory is stored.                       *)
LEMMA SuccessorStep ==
  ASSUME SessionInv, NEW p \in Ops, op[p].st = "net", op[p].at \in ExchangeAts, Owns(p),
         NEW next \in {"stored", "restored"}, NEW s \in Sessions,
         s.tok = tokens + 1, s.acc = op[p].ses.acc, IssuesToken,
         cache' = s, writes' = Append(writes, Write(p, "session", Kept(s), {})),
         Becomes(p, To(p, "disk", next)),
         UNCHANGED <<gen, login, device, flight, cut, disk, stale, out>>
  PROVE  SessionInv'
<1>1. /\ op[p].ses \in Sessions /\ op[p].kind \notin {"login", "logout"}
      /\ SignedIn /\ cache.acc = op[p].ses.acc /\ flight = [gen |-> gen, by |-> p]
  BY Flying, Places DEF Alive
<1>2. "disk" \in Sts /\ next \in Ats
  BY Places DEF FlightAts
<1>3. Moves(p) /\ op'[p] \in OpRecs /\ Goes(p, "disk", next, op[p].ses, op[p].res)
  BY <1>2, ToRecord
<1>4. /\ op[p] \in OpRecs /\ Stage(op[p]) /\ Current(op[p], p)
      /\ gen \in Nat /\ op[p].gen <= gen
  BY Known DEF Alive
<1>5. Stage(op[p])'
  BY <1>1, <1>3, <1>4, Places DEF Stage, Goes, FlightAts
<1>6. Current(op[p], p)'
  BY <1>1, <1>3, <1>4, Places DEF Current, Goes, SignedIn, InFlight, FlightAts, ExchangeAts
<1>7. Fit(op[p], p)'
  BY <1>3, <1>4, <1>5, <1>6 DEF Fit, Goes
<1>8. OpensOnlyIfOpen(p)
  BY <1>3, Places DEF OpensOnlyIfOpen, Opens, Goes, FlightAts
<1>9. Kept(s) = Kept(cache)'
  BY DEF Kept
<1>10. op[p].st # "disk" /\ op'[p].st = "disk"
  BY <1>3 DEF Goes
<1>11. writes' = Append(writes, Write(p, "session", Kept(cache)', {}))
  BY <1>9
<1> QED
  BY <1>1, <1>3, <1>7, <1>8, <1>10, <1>11, StoreStep

(* The session of a sign-in is stored.                                     *)
LEMMA SignedStep ==
  ASSUME SessionInv, NEW p \in Ops, op[p].st = "net", op[p].at = "login", Owns(p),
         NEW s \in Sessions, s.tok = tokens + 1, IssuesToken,
         cache' = s, writes' = Append(writes, Write(p, "session", Kept(s), {})),
         Becomes(p, To(p, "disk", "signed")),
         UNCHANGED <<gen, login, device, flight, cut, disk, stale, out>>
  PROVE  SessionInv'
<1>1. /\ op[p] \in OpRecs /\ Stage(op[p]) /\ Current(op[p], p)
      /\ gen \in Nat /\ op[p].gen <= gen
  BY Known DEF Alive
<1>2. op[p].kind = "login" /\ op[p].ses = None /\ cache = None
  BY <1>1, Places DEF Stage, Current
<1>3. "disk" \in Sts /\ "signed" \in Ats
  BY Places DEF LoginAts
<1>4. Moves(p) /\ op'[p] \in OpRecs /\ Goes(p, "disk", "signed", op[p].ses, op[p].res)
  BY <1>3, ToRecord
<1>5. Stage(op[p])'
  BY <1>1, <1>2, <1>4, Places DEF Stage, Goes, LoginAts
<1>6. Current(op[p], p)'
  BY <1>1, <1>2, <1>4, Places DEF Current, Goes, SignedIn, InFlight, LoginAts
<1>7. Fit(op[p], p)'
  BY <1>1, <1>4, <1>5, <1>6 DEF Fit, Goes
<1>8. OpensOnlyIfOpen(p) /\ Opens(op[p])
  BY <1>4 DEF OpensOnlyIfOpen, Opens, Goes, Alive
<1>9. writes' = Append(writes, Write(p, "session", Kept(cache)', {}))
  BY DEF Kept
<1>10. op[p].st # "disk" /\ op'[p].st = "disk"
  BY <1>4 DEF Goes
<1> QED
  BY <1>2, <1>4, <1>7, <1>8, <1>9, <1>10, StoreStep

(* The session in memory is stored once more: the answer about the profile.*)
LEMMA AgainStep ==
  ASSUME SessionInv, NEW p \in Ops, op[p].st = "net", op[p].kind = "profile",
         SignedIn, cache' = cache, tokens' = tokens,
         writes' = Append(writes, Write(p, "session", Kept(cache), {})),
         Becomes(p, To(p, "disk", "end")),
         UNCHANGED <<gen, login, device, flight, cut, disk, stale, out>>
  PROVE  SessionInv'
<1>1. "disk" \in Sts \ {"new", "read"} /\ "end" \in Ats
  BY Places DEF LogoutAts
<1>2. Moves(p) /\ op'[p] \in OpRecs /\ Goes(p, "disk", "end", op[p].ses, op[p].res)
  BY <1>1, ToRecord
<1>3. MayGo(p, "disk", "end")
  BY Places DEF MayGo, LogoutAts
<1>4. Fit(op[p], p)' /\ OpensOnlyIfOpen(p)
  BY <1>1, <1>2, <1>3, GoesFit
<1>5. writes' = Append(writes, Write(p, "session", Kept(cache)', {}))
  BY DEF Kept
<1>6. op[p].st # "disk" /\ op'[p].st = "disk" /\ cache' \in Sessions
  BY <1>2 DEF Goes, SignedIn
<1> QED
  BY <1>2, <1>4, <1>5, <1>6, StoreStep

----------------------------------------------------------------------------

(* The session of a token issued now is a session.                         *)
LEMMA SessionsMade ==
  ASSUME SessionInv, IssuesToken, NEW a \in Accounts, NEW rem \in BOOLEAN
  PROVE  Session(a, rem) \in Sessions /\ Session(a, rem).tok = tokens + 1 /\ Session(a, rem).acc = a
BY Distinct DEF SessionInv, Globals, IssuesToken, Session, Sessions

Elsewhere == UNCHANGED <<disk, stale, out>>

(* An exchange that was lost: its sender is told what became of it.        *)
LEMMA LostStep ==
  ASSUME SessionInv, NEW p \in Ops, op[p].st = "net", op[p].at \in FlightAts,
         NEW res \in {"changed", "io", "auth"}, Becomes(p, [To(p, "run", "lost") EXCEPT !.res = res]),
         UNCHANGED <<gen, cut, cache, device, flight, writes, disk, stale, out, login>>,
         UNCHANGED tokens \/ IssuesToken
  PROVE  SessionInv'
<1>1. "run" \in Sts \ {"new", "read"} /\ "lost" \in Ats
  BY Places DEF FlightAts
<1>2. Moves(p) /\ op'[p] \in OpRecs /\ Goes(p, "run", "lost", op[p].ses, res)
  BY <1>1, ToRecordRes DEF Results
<1>3. MayGo(p, "run", "lost")
  BY Flying, Places DEF MayGo, Alive, ExchangeAts, FlightAts
<1> QED
  BY <1>1, <1>2, <1>3, GoesOn

(* The gateway's answer to a refresh.                                      *)
LEMMA RefreshAnswerStep ==
  ASSUME SessionInv, NEW p \in Ops, op[p].st = "net", op[p].at = "refresh", RefreshAnswer(p),
         Elsewhere
  PROVE  SessionInv'
<1>1. op[p].at \in ExchangeAts /\ op[p].at \in FlightAts /\ Alive(op[p])
  BY Places DEF ExchangeAts, Alive
<1>2. op[p].ses \in Sessions
  BY <1>1, Flying
<1>3. CASE RefreshGranted(p)
  <2>1. IssuesToken /\ UNCHANGED <<gen, login, device, flight, cut>>
    BY <1>3 DEF RefreshGranted, IssuesToken
  <2>2. CASE Owns(p)
    <3> DEFINE s == Session(op[p].ses.acc, op[p].ses.rem)
    <3>1. /\ cache' = s /\ writes' = Append(writes, Write(p, "session", Kept(s), {}))
          /\ Becomes(p, To(p, "disk", "stored"))
      BY <1>3, <2>2 DEF RefreshGranted, Replace
    <3>2. op[p].ses.acc \in Accounts /\ op[p].ses.rem \in BOOLEAN
      BY <1>2 DEF Sessions
    <3>3. s \in Sessions /\ s.tok = tokens + 1 /\ s.acc = op[p].ses.acc
      BY <2>1, <3>2, SessionsMade
    <3>4. PICK t \in Sessions : t = s
      BY <3>3
    <3> HIDE DEF s
    <3>5. /\ cache' = t /\ writes' = Append(writes, Write(p, "session", Kept(t), {}))
          /\ t.tok = tokens + 1 /\ t.acc = op[p].ses.acc
      BY <3>1, <3>3, <3>4
    <3> QED
      BY <1>1, <2>1, <2>2, <3>1, <3>5, SuccessorStep DEF Elsewhere
  <2>3. CASE ~Owns(p)
    <3>1. Becomes(p, [To(p, "run", "lost") EXCEPT !.res = "changed"]) /\ UNCHANGED <<cache, writes>>
      BY <1>3, <2>3 DEF RefreshGranted, Replace
    <3> QED
      BY <1>1, <1>2, <2>1, <3>1, LostStep DEF Elsewhere
  <2> QED
    BY <2>2, <2>3
<1>4. CASE RefreshDenied(p)
  <2>1. UNCHANGED <<gen, cache, device, flight, writes, tokens, cut>>
    BY <1>4 DEF RefreshDenied
  <2>2. CASE ~Owns(p)
    <3>1. Becomes(p, [To(p, "run", "lost") EXCEPT !.res = "changed"]) /\ UNCHANGED login
      BY <1>4, <2>2 DEF RefreshDenied
    <3> QED
      BY <1>1, <1>2, <2>1, <3>1, LostStep DEF Elsewhere
  <2>3. CASE Owns(p)
    <3>1. Becomes(p, To(p, "run", "denied")) /\ (UNCHANGED login \/ LoadsLogin)
      BY <1>4, <2>3 DEF RefreshDenied, Run, LoadsLogin
    <3>2. "run" \in Sts \ {"new", "read"} /\ "denied" \in Ats
      BY Places DEF ExchangeAts
    <3>3. Moves(p) /\ op'[p] \in OpRecs /\ Goes(p, "run", "denied", op[p].ses, op[p].res)
      BY <3>1, <3>2, ToRecord
    <3>4. MayGo(p, "run", "denied")
      BY <1>1, <2>1, Flying, Places DEF MayGo, ExchangeAts
    <3> QED
      BY <2>1, <3>1, <3>2, <3>3, <3>4, GoesOn DEF Elsewhere
  <2> QED
    BY <2>2, <2>3
<1>5. CASE Unreachable(p)
  BY <1>1, <1>2, <1>5, LostStep DEF Unreachable, Whose, Elsewhere
<1>6. CASE Rejected(p)
  BY <1>1, <1>2, <1>6, LostStep DEF Rejected, Elsewhere
<1> QED
  BY <1>3, <1>4, <1>5, <1>6 DEF RefreshAnswer

(* The remembered login was refused, or was that of another user: the      *)
(* session ends (reauthenticate).                                          *)
LEMMA ReloginDeniedStep ==
  ASSUME SessionInv, NEW p \in Ops, op[p].st \in {"net", "run"}, op[p].at \in ExchangeAts,
         Clear(p, "refused"), UNCHANGED <<login, tokens, disk, stale, out>>
  PROVE  SessionInv'
<1>1. op[p].ses \in Sessions /\ op[p].kind # "logout"
  BY Flying, Places DEF Alive
<1> QED
  BY <1>1, ClearStep

(* The gateway's answer to the remembered login.                           *)
LEMMA ReloginAnswerStep ==
  ASSUME SessionInv, NEW p \in Ops, op[p].st = "net", op[p].at = "relogin", ReloginAnswer(p),
         Elsewhere
  PROVE  SessionInv'
<1>1. op[p].at \in ExchangeAts /\ op[p].at \in FlightAts /\ Alive(op[p])
  BY Places DEF ExchangeAts, Alive
<1>2. op[p].ses \in Sessions
  BY <1>1, Flying
<1>3. CASE ReloginGranted(p)
  <2>1. IssuesToken /\ UNCHANGED <<gen, login, device, flight, cut>>
    BY <1>3 DEF ReloginGranted, IssuesToken
  <2>2. PICK a \in Accounts :
          IF SameUser(p, a)
          THEN Replace(p, Session(a, TRUE), To(p, "disk", "restored"),
                       [To(p, "run", "lost") EXCEPT !.res = "changed"])
          ELSE Await(p, "disown") /\ UNCHANGED <<cache, writes>>
    BY <1>3 DEF ReloginGranted
  <2>3. CASE SameUser(p, a) /\ Owns(p)
    <3> DEFINE s == Session(a, TRUE)
    <3>1. /\ cache' = s /\ writes' = Append(writes, Write(p, "session", Kept(s), {}))
          /\ Becomes(p, To(p, "disk", "restored"))
      BY <2>2, <2>3 DEF Replace
    <3>2. s \in Sessions /\ s.tok = tokens + 1 /\ s.acc = op[p].ses.acc
      BY <2>1, <2>3, SessionsMade DEF SameUser
    <3>3. PICK t \in Sessions : t = s
      BY <3>2
    <3> HIDE DEF s
    <3>4. /\ cache' = t /\ writes' = Append(writes, Write(p, "session", Kept(t), {}))
          /\ t.tok = tokens + 1 /\ t.acc = op[p].ses.acc
      BY <3>1, <3>2, <3>3
    <3> QED
      BY <1>1, <2>1, <2>3, <3>1, <3>4, SuccessorStep DEF Elsewhere
  <2>4. CASE SameUser(p, a) /\ ~Owns(p)
    <3>1. Becomes(p, [To(p, "run", "lost") EXCEPT !.res = "changed"]) /\ UNCHANGED <<cache, writes>>
      BY <2>2, <2>4 DEF Replace
    <3> QED
      BY <1>1, <1>2, <2>1, <3>1, LostStep DEF Elsewhere
  <2>5. CASE ~SameUser(p, a)
    <3>1. Becomes(p, To(p, "net", "disown")) /\ UNCHANGED <<cache, writes>>
      BY <2>2, <2>5 DEF Await
    <3>2. "net" \in Sts \ {"new", "read"} /\ "disown" \in Ats
      BY Places DEF ExchangeAts
    <3>3. Moves(p) /\ op'[p] \in OpRecs /\ Goes(p, "net", "disown", op[p].ses, op[p].res)
      BY <3>1, <3>2, ToRecord
    <3>4. MayGo(p, "net", "disown")
      BY <1>1, <2>1, Flying, Places DEF MayGo, NetAts, ExchangeAts
    <3> QED
      BY <2>1, <3>1, <3>2, <3>3, <3>4, GoesOn DEF Elsewhere
  <2> QED
    BY <2>3, <2>4, <2>5
<1>4. CASE ReloginDenied(p)
  BY <1>1, <1>4, ReloginDeniedStep DEF ReloginDenied, Elsewhere
<1>5. CASE Unreachable(p)
  BY <1>1, <1>2, <1>5, LostStep DEF Unreachable, Whose, Elsewhere
<1> QED
  BY <1>3, <1>4, <1>5 DEF ReloginAnswer

(* The gateway signs the user in, in time or too late.                     *)
LEMMA LoginGrantedStep ==
  ASSUME SessionInv, NEW p \in Ops, op[p].st = "net", op[p].at = "login", LoginGranted(p),
         Elsewhere
  PROVE  SessionInv'
<1>1. IssuesToken /\ UNCHANGED <<gen, login, device, flight, cut>>
  BY DEF LoginGranted, IssuesToken
<1>2. op[p].held \in Credentials
  BY Known, Places DEF Stage
<1>3. CASE Owns(p)
  <2> DEFINE s == Session(op[p].held.acc, op[p].held.rem)
  <2>1. /\ cache' = s /\ writes' = Append(writes, Write(p, "session", Kept(s), {}))
        /\ Becomes(p, To(p, "disk", "signed"))
    BY <1>3 DEF LoginGranted, Replace
  <2>2. op[p].held.acc \in Accounts /\ op[p].held.rem \in BOOLEAN
    BY <1>2 DEF Credentials
  <2>3. s \in Sessions /\ s.tok = tokens + 1
    BY <1>1, <2>2, SessionsMade
  <2>4. PICK t \in Sessions : t = s
    BY <2>3
  <2> HIDE DEF s
  <2>5. /\ cache' = t /\ writes' = Append(writes, Write(p, "session", Kept(t), {}))
        /\ t.tok = tokens + 1
    BY <2>1, <2>3, <2>4
  <2> QED
    BY <1>1, <1>3, <2>1, <2>5, SignedStep DEF Elsewhere
<1>4. CASE ~Owns(p)
  <2>1. Becomes(p, To(p, "net", "revoke")) /\ UNCHANGED <<cache, writes>>
    BY <1>4 DEF LoginGranted, Replace
  <2>2. "net" \in Sts \ {"new", "read"} /\ "revoke" \in Ats
    BY Places DEF LogoutAts
  <2>3. Moves(p) /\ op'[p] \in OpRecs /\ Goes(p, "net", "revoke", op[p].ses, op[p].res)
    BY <2>1, <2>2, ToRecord
  <2>4. MayGo(p, "net", "revoke")
    BY Places DEF MayGo, NetAts, LogoutAts
  <2> QED
    BY <1>1, <2>1, <2>2, <2>3, <2>4, GoesOn DEF Elsewhere
<1> QED
  BY <1>3, <1>4

(* The promise of a flight settles for its sender and for those who joined.*)
LEMMA SettleStep ==
  ASSUME SessionInv, NEW p \in Ops, op[p].st = "run", op[p].at \in FlightAts,
         NEW res \in Results, res = "ok" => Owns(p), Settle(p, res),
         UNCHANGED <<gen, cut, cache, login, device, writes, tokens, disk, stale, out>>
  PROVE  SessionInv'
<1>1. /\ Globals /\ FlightCurrent /\ OneSignIn /\ WritersWait /\ OpsFit
      /\ SessionFollows /\ LoginFollows /\ SessionsLeave /\ DeviceOfAccount
  BY DEF SessionInv
<1>2. ASSUME NEW q \in Waiters(p)
      PROVE  /\ q \in Ops /\ Alive(op[q]) /\ op[q].at \in FlightAts /\ op[q].gen = op[p].gen
             /\ op[q].st \in {"run", "join"}
  BY <1>2, Known, Places DEF Waiters, Alive, Stage, ExchangeAts
<1>3. ASSUME NEW q \in Waiters(p)
      PROVE  /\ Fit(op[q], q)'
             /\ ~Opens(op[q])' /\ op'[q].st = "run" /\ op[q].st # "disk"
             /\ op'[q] \in OpRecs
  <2>1. /\ q \in Ops /\ Alive(op[q]) /\ op[q].at \in FlightAts /\ op[q].gen = op[p].gen
        /\ op[q].st \in {"run", "join"}
    BY <1>2
  <2>2. /\ op[q].ses \in Sessions /\ op[q].kind \notin {"login", "logout"}
        /\ Owns(q) => SignedIn /\ cache.acc = op[q].ses.acc
    BY <2>1, Flying
  <2>3. /\ op[q] \in OpRecs /\ Stage(op[q])
        /\ gen \in Nat /\ op[q].gen <= gen
        /\ Owns(q) => Current(op[q], q)
    BY <2>1, Known
  <2>4. res = "ok" => Owns(q) /\ SignedIn
    BY <2>1, <2>2 DEF Owns
  <2>5. PICK t \in Sessions : t = IF res = "ok" THEN cache ELSE op[q].ses
    BY <2>2, <2>4 DEF SignedIn
  <2>6. op'[q] = [To(q, "run", "refreshed") EXCEPT !.res = res, !.ses = t]
    BY <1>3, <2>1, <2>3, <2>5 DEF Settle, To, OpRecs
  <2>7. "run" \in Sts /\ "refreshed" \in Ats
    BY Places DEF SessionAts
  <2>8. op'[q] \in OpRecs /\ Goes(q, "run", "refreshed", t, res)
    <3>1. op'[q] \in OpRecs
      BY <2>3, <2>6, <2>7 DEF To, OpRecs, Results
    <3>2. Goes(q, "run", "refreshed", t, res)
      BY <2>3, <2>6 DEF To, Goes, OpRecs
    <3> QED
      BY <3>1, <3>2
  <2>9. Stage(op[q])'
    BY <2>2, <2>3, <2>8, Places DEF Stage, Goes, SessionAts
  <2>10. ASSUME Owns(q) PROVE Current(op[q], q)'
    BY <2>2, <2>3, <2>5, <2>8, <2>10, Places DEF Current, Goes, SignedIn, InFlight, FlightAts, ExchangeAts
  <2>11. Fit(op[q], q)'
    BY <2>1, <2>3, <2>8, <2>9, <2>10 DEF Fit, Goes, Owns
  <2> QED
    BY <2>1, <2>8, <2>11 DEF Opens, Goes
<1>4. ASSUME NEW q \in Ops, q \notin Waiters(p)
      PROVE  op'[q] = op[q] /\ Fit(op[q], q)'
  <2>1. op'[q] = op[q] /\ q # p
    BY <1>4 DEF Settle, Waiters
  <2>2. Fit(op[q], q) /\ gen' = gen /\ cut' = cut /\ cache' = cache
    BY <1>1 DEF OpsFit
  <2>3. Stage(op[q])'
    BY <2>1, <2>2 DEF Fit, Stage
  <2>4. ASSUME Alive(op[q]), op[q].gen = gen PROVE Current(op[q], q)'
    <3>1. Current(op[q], q)
      BY <2>2, <2>4 DEF Fit
    <3>2. InFlight(op[q]) => flight' = [gen |-> gen, by |-> q]
      <4>1. SUFFICES ASSUME InFlight(op[q]) PROVE flight' = [gen |-> gen, by |-> q]
        OBVIOUS
      <4>2. flight = [gen |-> gen, by |-> q]
        BY <3>1, <4>1 DEF Current
      <4>3. flight.by # p
        BY <2>1, <4>2
      <4> QED
        BY <4>2, <4>3 DEF Settle
    <3> QED
      BY <2>1, <2>2, <3>1, <3>2 DEF Current, SignedIn, InFlight
  <2> QED
    BY <2>1, <2>2, <2>3, <2>4 DEF Fit
<1>5. OpsFit'
  <2>1. \A q \in Ops : Fit(op[q], q)'
    BY <1>3, <1>4
  <2>2. op' \in [Ops -> OpRecs]
    <3>1. \A q \in Ops : op'[q] \in OpRecs
      BY <2>1 DEF Fit
    <3>2. op' = [q \in Ops |-> op'[q]]
      BY DEF Settle
    <3> QED
      BY <3>1, <3>2
  <2> QED
    BY <2>1, <2>2 DEF OpsFit
<1>6. OneSignIn'
  BY <1>1, <1>3, <1>4 DEF OneSignIn, Owns, Opens, Alive
<1>7. WritersWait'
  <2>1. \A n \in DOMAIN writes : writes[n].by \in Ops
    BY <1>1 DEF Globals, Writes
  <2> QED
    BY <1>1, <1>3, <1>4, <2>1 DEF WritersWait
<1>8. Globals' /\ FlightCurrent'
  BY <1>1 DEF Globals, FlightCurrent, Settle
<1>9. SessionFollows' /\ LoginFollows'
  BY SessionKept, LoginKept
<1>10. SessionsLeave' /\ DeviceOfAccount'
  BY <1>1 DEF SessionsLeave, DeviceOfAccount, SignedIn, Leaves, Issued
<1> QED
  BY <1>5, <1>6, <1>7, <1>8, <1>9, <1>10 DEF SessionInv

----------------------------------------------------------------------------

(* How the sender of a flight goes on.                                     *)
LEMMA FlightStepKeeps ==
  ASSUME SessionInv, NEW p \in Ops, FlightStep(p)
  PROVE  SessionInv'
<1>1. /\ op[p].st = "run" /\ op[p].at \in {"denied", "restored", "stored", "refused", "lost"}
      /\ FlightGoesOn(p) /\ UNCHANGED <<tokens, disk, stale, out>>
  BY DEF FlightStep, Running
<1>2. /\ op[p].at \in FlightAts /\ Alive(op[p]) /\ op[p] \in OpRecs
      /\ op[p].ses \in Sessions /\ op[p].kind \notin {"login", "logout"}
  BY <1>1, Known, Flying DEF Alive, FlightAts, ExchangeAts
<1>3. CASE op[p].at = "denied"
  <2>1. Denied(p) /\ UNCHANGED login
    BY <1>1, <1>3 DEF FlightGoesOn
  <2>2. CASE op[p].ses.rem \/ login = op[p].ses.acc
    <3>1. Becomes(p, To(p, "net", "relogin")) /\ UNCHANGED <<gen, cache, device, flight, writes, cut>>
      BY <2>1, <2>2 DEF Denied, Await
    <3>2. "net" \in Sts \ {"new", "read"} /\ "relogin" \in Ats /\ op[p].at \in ExchangeAts
      BY <1>3, Places DEF ExchangeAts
    <3>3. Moves(p) /\ op'[p] \in OpRecs /\ Goes(p, "net", "relogin", op[p].ses, op[p].res)
      BY <3>1, <3>2, ToRecord
    <3>4. MayGo(p, "net", "relogin")
      BY <1>1, <1>2, <3>1, <3>2, Flying, Places DEF MayGo, NetAts, ExchangeAts
    <3> QED
      BY <1>1, <2>1, <3>1, <3>2, <3>3, <3>4, GoesOn
  <2>3. CASE ~(op[p].ses.rem \/ login = op[p].ses.acc)
    <3>1. Clear(p, "refused")
      BY <2>1, <2>3 DEF Denied
    <3>2. op[p].at \in ExchangeAts
      BY <1>3 DEF ExchangeAts
    <3> QED
      BY <1>1, <2>1, <3>1, <3>2, ReloginDeniedStep
  <2> QED
    BY <2>2, <2>3
<1>4. CASE op[p].at = "restored" /\ op[p].res = "ok" /\ Owns(p)
  <2>1. /\ SetLogin(p, op[p].ses.acc, To(p, "disk", "stored"))
        /\ UNCHANGED <<gen, cache, device, flight, cut>>
    BY <1>1, <1>4 DEF FlightGoesOn
  <2>2. op[p].ses.acc \in Accounts \cup {None}
    BY <1>2 DEF Sessions
  <2>3. PICK a \in Accounts \cup {None} : a = op[p].ses.acc
    BY <2>2
  <2>4. SetLogin(p, a, To(p, "disk", "stored"))
    BY <2>1, <2>3, Zenon
  <2>5. "stored" \in Ats
    BY Places DEF FlightAts
  <2>6. MayGo(p, "disk", "stored")
    BY <1>1, <1>2, <2>1, Flying, Places DEF MayGo, FlightAts, ExchangeAts
  <2> QED
    BY <1>1, <2>1, <2>4, <2>5, <2>6, NotedStep
<1>5. CASE ~(op[p].at = "denied") /\ ~(op[p].at = "restored" /\ op[p].res = "ok" /\ Owns(p))
  <2> DEFINE e == IF op[p].at = "lost" THEN op[p].res
                  ELSE IF op[p].res = "failed" THEN Whose(p)
                  ELSE IF op[p].at = "refused" THEN "auth"
                  ELSE IF Owns(p) THEN "ok" ELSE "changed"
  <2>1. Settle(p, e) /\ UNCHANGED <<gen, cache, login, device, writes, cut>>
    BY <1>1, <1>5, Zenon DEF FlightGoesOn
  <2>2. e \in Results /\ (e = "ok" => Owns(p))
    <3>1. op[p].at = "lost" => op[p].res \in {"changed", "io", "auth"}
      BY <1>2, Known DEF Stage
    <3> QED
      BY <3>1 DEF Results, Whose
  <2>3. PICK res \in Results : res = e
    BY <2>2
  <2> HIDE DEF e
  <2>4. Settle(p, res) /\ (res = "ok" => Owns(p))
    BY <2>1, <2>2, <2>3, Zenon
  <2> QED
    BY <1>1, <1>2, <2>1, <2>4, SettleStep
<1> QED
  BY <1>3, <1>4, <1>5

----------------------------------------------------------------------------

Here == UNCHANGED <<gen, cut, cache, device, flight, writes, disk, stale, out, login, tokens>>

(* A step to another place of the same operation, where nothing else       *)
(* changes and no token is exchanged.                                      *)
LEMMA PlaceStep ==
  ASSUME SessionInv, NEW p \in Ops, op[p].st \notin {"new", "done", "disk"},
         NEW st \in {"run", "net"}, NEW at \in Ats \ FlightAts, Becomes(p, To(p, st, at)),
         MayGo(p, st, at), Here
  PROVE  SessionInv'
<1>1. st \in Sts /\ st \in Sts \ {"new", "read"} /\ at # "lost"
  BY Places DEF FlightAts
<1>2. Moves(p) /\ op'[p] \in OpRecs /\ Goes(p, st, at, op[p].ses, op[p].res)
  BY <1>1, ToRecord
<1> QED
  BY <1>1, <1>2, GoesOn DEF Here

(* The steps of login and logout.                                          *)
LEMMA AccountStepKeeps ==
  ASSUME SessionInv, NEW p \in Ops, AccountStep(p)
  PROVE  SessionInv'
<1>1. op[p].st = "run" /\ UNCHANGED <<disk, stale, out>>
  BY DEF AccountStep, Running
<1>2. op[p] \in OpRecs /\ Stage(op[p]) /\ Globals
  BY Known
<1>3. {"login", "revoke"} \subseteq Ats \ FlightAts
  BY Places DEF LoginAts, LogoutAts, FlightAts, ExchangeAts
<1>4. MayGo(p, "net", "revoke")
  BY Places DEF MayGo, NetAts, LogoutAts
<1>5. ASSUME Finish(p), UNCHANGED <<gen, cut, cache, device, flight, writes, login, tokens>>
      PROVE  SessionInv'
  BY <1>1, <1>5, FinishStep
<1>6. ASSUME Await(p, "revoke"), UNCHANGED <<gen, cut, cache, device, flight, writes, login, tokens>>
      PROVE  SessionInv'
  BY <1>1, <1>3, <1>4, <1>6, PlaceStep DEF Await, Here
<1>7. ASSUME Clear(p, "revoke"), UNCHANGED <<login, tokens>> PROVE SessionInv'
  BY <1>1, <1>7, ClearStep
<1>8. CASE op[p].at = "cleared" /\ LoginCleared(p)
  <2>1. UNCHANGED <<gen, cut, cache, device, flight, writes, login, tokens>>
    BY <1>8 DEF LoginCleared, noSession
  <2>2. CASE op[p].res = "ok" /\ Owns(p)
    <3>1. Becomes(p, To(p, "net", "login"))
      BY <1>8, <2>2 DEF LoginCleared, Await
    <3>2. MayGo(p, "net", "login")
      BY <1>2, <1>8, Places DEF MayGo, NetAts, Stage
    <3> QED
      BY <1>1, <1>3, <2>1, <3>1, <3>2, PlaceStep DEF Here
  <2>3. CASE ~(op[p].res = "ok" /\ Owns(p))
    BY <1>5, <1>8, <2>1, <2>3 DEF LoginCleared
  <2> QED
    BY <2>2, <2>3
<1>9. CASE op[p].at = "signed" /\ LoginSigned(p)
  <2>1. CASE op[p].res = "ok" /\ Owns(p)
    <3>1. /\ SetLogin(p, IF op[p].held.rem THEN op[p].held.acc ELSE None, To(p, "disk", "remembered"))
          /\ UNCHANGED <<gen, cache, device, flight, tokens, cut>>
      BY <1>9, <2>1 DEF LoginSigned
    <3>2. op[p].kind = "login" /\ op[p].held \in Credentials
      BY <1>2, <1>9 DEF Stage, LoginAts
    <3>3. PICK a \in Accounts \cup {None} : a = IF op[p].held.rem THEN op[p].held.acc ELSE None
      BY <3>2 DEF Credentials
    <3>4. SetLogin(p, a, To(p, "disk", "remembered"))
      BY <3>1, <3>3, Zenon
    <3>5. "remembered" \in Ats /\ MayGo(p, "disk", "remembered")
      BY <1>9, <3>2, Places DEF MayGo, LoginAts
    <3> QED
      BY <1>1, <3>1, <3>4, <3>5, NotedStep
  <2>2. CASE ~(op[p].res = "ok" /\ Owns(p))
    BY <1>7, <1>9, <2>2 DEF LoginSigned, LoginUndone
  <2> QED
    BY <2>1, <2>2
<1>10. CASE op[p].at = "remembered" /\ LoginRemembered(p)
  BY <1>5, <1>7, <1>10 DEF LoginRemembered, LoginUndone, noSession
<1>11. CASE op[p].at = "loaded" /\ op[p].kind = "logout" /\ Logout(p)
  <2>1. CASE ~(op[p].res = "ok" /\ Owns(p))
    BY <1>5, <1>11, <2>1 DEF Logout
  <2>2. CASE op[p].res = "ok" /\ Owns(p)
    <3> DEFINE r == [To(p, "disk", "left") EXCEPT !.gen = gen + 1]
    <3>1. EndSession(p, r) /\ UNCHANGED <<login, tokens>>
      BY <1>11, <2>2 DEF Logout
    <3>2. Becomes(p, r) /\ gen' = gen + 1 /\ cache' = None /\ cut' = cut \cup {q \in Ops : Active(q)}
      BY <3>1 DEF EndSession
    <3>3. "left" \in Ats /\ gen + 1 \in Nat
      BY <1>2, Places DEF LogoutAts, Globals
    <3>4. /\ r \in OpRecs /\ r.kind = "logout" /\ r.st = "disk" /\ r.at = "left"
          /\ r.gen = gen + 1 /\ r.ses = op[p].ses /\ r.held = op[p].held /\ r.ask = op[p].ask
      <4>1. r = [op[p] EXCEPT !.st = "disk", !.at = "left", !.gen = gen + 1]
        BY DEF To
      <4> HIDE DEF r
      <4>2. r \in OpRecs
        BY <1>2, <3>3, <4>1 DEF OpRecs
      <4> QED
        BY <1>2, <1>11, <4>1, <4>2 DEF OpRecs
    <3> HIDE DEF r
    <3>5. Moves(p) /\ op'[p] = r
      BY <3>2, BecomesRecord
    <3>6. "left" \notin SessionAts /\ "left" \notin LoginAts /\ "left" \in LogoutAts
      BY Places DEF LogoutAts
    <3>7. Stage(op[p])'
      BY <1>2, <1>11, <3>4, <3>5, <3>6 DEF Stage
    <3>8. Current(op[p], p)'
      BY <3>2, <3>4, <3>5, Places DEF Current, InFlight, LogoutAts
    <3>9. Fit(op[p], p)'
      BY <3>2, <3>3, <3>4, <3>5, <3>7, <3>8 DEF Fit
    <3>10. EndSession(p, op'[p])
      BY <3>1, <3>5, Zenon
    <3> QED
      BY <1>1, <3>1, <3>4, <3>5, <3>9, <3>10, EndStep
  <2> QED
    BY <2>1, <2>2
<1>12. CASE op[p].at = "left" /\ LogoutLeft(p)
  <2>1. CASE op[p].res = "ok" /\ op[p].ses # None /\ op[p].ses.rem /\ Owns(p)
    <3>1. /\ SetLogin(p, op[p].ses.acc, To(p, "disk", "kept"))
          /\ UNCHANGED <<gen, cache, device, flight, tokens, cut>>
      BY <1>12, <2>1 DEF LogoutLeft
    <3>2. PICK a \in Accounts \cup {None} : a = op[p].ses.acc
      BY <1>2, <2>1 DEF OpRecs, Sessions
    <3>3. SetLogin(p, a, To(p, "disk", "kept"))
      BY <3>1, <3>2, Zenon
    <3>4. "kept" \in Ats /\ MayGo(p, "disk", "kept")
      BY Places DEF MayGo, LogoutAts
    <3> QED
      BY <1>1, <3>1, <3>3, <3>4, NotedStep
  <2>2. CASE ~(op[p].res = "ok" /\ op[p].ses # None /\ op[p].ses.rem /\ Owns(p))
    <3>1. Finish(p) \/ Await(p, "revoke")
      BY <1>12, <2>2 DEF LogoutLeft
    <3>2. UNCHANGED <<gen, cut, cache, device, flight, writes, login, tokens>>
      BY <1>12, <2>2 DEF LogoutLeft, noSession
    <3> QED
      BY <1>5, <1>6, <3>1, <3>2
  <2> QED
    BY <2>1, <2>2
<1>13. CASE op[p].at = "kept" /\ LogoutKept(p)
  BY <1>5, <1>6, <1>13 DEF LogoutKept, noSession
<1>14. CASE op[p].at = "revoke" /\ Revoke(p)
  BY <1>6, <1>14 DEF Revoke, noSession
<1> QED
  BY <1>8, <1>9, <1>10, <1>11, <1>12, <1>13, <1>14 DEF AccountStep

(* A record that changes elsewhere than in its place and its session.      *)
LEMMA AskRecord ==
  ASSUME SessionInv, NEW p \in Ops, op[p].st = "run",
         NEW at \in Ats \ (FlightAts \cup LoginAts), NEW held, NEW ask,
         Moves(p), op'[p] \in OpRecs,
         /\ op'[p].kind = op[p].kind /\ op'[p].st = "run" /\ op'[p].at = at
         /\ op'[p].gen = op[p].gen /\ op'[p].ses = op[p].ses /\ op'[p].held = held
         /\ op'[p].ask = ask,
         at \in SessionAts => op[p].ses \in Sessions,
         op[p].kind \notin {"logout", "login"},
         op[p].kind = "model" => held = op[p].held \/ (held = op[p].ses /\ held \in Sessions),
         ask = "licence" => op[p].kind = "model" /\ held # None,
         UNCHANGED login \/ LoadsLogin,
         UNCHANGED <<gen, cut, cache, device, flight, writes, disk, stale, out, tokens>>
  PROVE  SessionInv'
<1>1. /\ op[p] \in OpRecs /\ Stage(op[p]) /\ (Owns(p) => Current(op[p], p))
      /\ gen \in Nat /\ op[p].gen <= gen
  BY Known DEF Alive
<1>2. Stage(op[p])'
  BY <1>1, Places DEF Stage, FlightAts
<1>3. ASSUME Owns(p) PROVE Current(op[p], p)'
  BY <1>1, <1>3, Places, Distinct DEF Current, SignedIn, InFlight
<1>4. Fit(op[p], p)'
  BY <1>1, <1>2, <1>3 DEF Fit, Owns
<1>5. OpensOnlyIfOpen(p)
  BY Places DEF OpensOnlyIfOpen, Opens
<1> QED
  BY <1>4, <1>5, QuietStep

----------------------------------------------------------------------------


(* A request is sent, or its operation ends because the session did.       *)
LEMMA SendStep ==
  ASSUME SessionInv, NEW p \in Ops, op[p].st = "run", op[p].ses \in Sessions,
         op[p].kind \notin {"logout", "login"}, Send(p)
  PROVE  SessionInv'
<1>1. Here
  BY DEF Send, noSession, noDisk, Here
<1>2. CASE Owns(p)
  <2>1. Becomes(p, To(p, "net", op[p].ask))
    BY <1>2 DEF Send, Await
  <2>2. PICK a \in {"main", "licence"} : a = op[p].ask
    BY Known DEF OpRecs
  <2>3. Becomes(p, To(p, "net", a))
    BY <2>1, <2>2
  <2>4. a \in Ats \ FlightAts
    BY Places DEF SessionAts, FlightAts, ExchangeAts
  <2>5. MayGo(p, "net", a)
    BY Places DEF MayGo, NetAts, LoginAts, FlightAts, ExchangeAts
  <2> QED
    BY <1>1, <2>3, <2>4, <2>5, PlaceStep
<1>3. CASE ~Owns(p)
  BY <1>1, <1>3, FinishStep DEF Send, Here
<1> QED
  BY <1>2, <1>3

(* A request whose session needs no refresh.                               *)
LEMMA FreshPlace ==
  ASSUME SessionInv, NEW p \in Ops, op[p].st = "run", op[p].ses \in Sessions,
         op[p].kind \notin {"logout", "login"}, Run(p, "fresh"), Here
  PROVE  SessionInv'
<1>1. "fresh" \in Ats \ FlightAts
  BY Places DEF SessionAts, FlightAts, ExchangeAts
<1>2. MayGo(p, "run", "fresh")
  BY Places DEF MayGo, LoginAts, FlightAts, ExchangeAts
<1> QED
  BY <1>1, <1>2, PlaceStep DEF Run

(* The steps of the operations that ask.                                   *)
LEMMA AskStepKeeps ==
  ASSUME SessionInv, NEW p \in Ops, AskStep(p)
  PROVE  SessionInv'
<1>1. op[p].st = "run"
  BY DEF AskStep, Running
<1>2. op[p] \in OpRecs /\ Stage(op[p]) /\ Globals
  BY Known
<1>3. op[p].at \in SessionAts => op[p].ses \in Sessions /\ op[p].kind \notin {"logout", "login"}
  BY <1>2, Places, Distinct DEF Stage
<1>4. ASSUME Finish(p), Here PROVE SessionInv'
  BY <1>1, <1>4, FinishStep DEF Here
<1>5. ASSUME Clear(p, "end"), UNCHANGED <<login, tokens, disk, stale, out>> PROVE SessionInv'
  BY <1>1, <1>5, ClearStep
<1>6. CASE Note(p)
  <2> DEFINE l == IF login = Unread THEN disk.login ELSE login
             r == [op[p] EXCEPT !.at = "noted", !.held = l]
  <2>1. /\ op[p].kind = "password" /\ login' = l
        /\ Becomes(p, r)
        /\ UNCHANGED <<gen, cut, cache, device, flight, writes, disk, stale, out, tokens>>
    BY <1>6 DEF Note, noDisk
  <2>2. UNCHANGED login \/ LoadsLogin
    BY <2>1 DEF LoadsLogin
  <2>3. PICK h \in Accounts \cup {None} : h = l
    BY <1>2 DEF Globals
  <2>4. "noted" \in Ats \ (FlightAts \cup LoginAts) /\ "noted" \notin SessionAts
    BY Places
  <2> HIDE DEF l
  <2>5. Moves(p) /\ op'[p] = [op[p] EXCEPT !.at = "noted", !.held = h]
    BY <2>1, <2>3, BecomesRecord
  <2>6. op'[p] \in OpRecs
    BY <1>2, <2>4, <2>5 DEF OpRecs
  <2>7. /\ op'[p].kind = op[p].kind /\ op'[p].st = "run" /\ op'[p].at = "noted"
        /\ op'[p].gen = op[p].gen /\ op'[p].ses = op[p].ses /\ op'[p].held = h
        /\ op'[p].ask = op[p].ask
    BY <1>1, <1>2, <2>5 DEF OpRecs
  <2>8. op[p].ask # "licence"
    BY <1>2, <2>1 DEF Stage
  <2> QED
    BY <1>1, <2>1, <2>2, <2>4, <2>5, <2>6, <2>7, <2>8, AskRecord
<1>7. CASE Loaded(p)
  <2>1. op[p].at = "noted" \/ op[p].at = "loaded"
    BY <1>7 DEF Loaded
  <2>2. CASE ~Owns(p) \/ op[p].ses = None \/ op[p].res # "ok"
    BY <1>4, <1>7, <2>2 DEF Loaded, noSession, noDisk, Here
  <2>3. CASE ~(~Owns(p) \/ op[p].ses = None \/ op[p].res # "ok")
    <3>1. op[p].ses \in Sessions
      BY <1>2, <2>3 DEF OpRecs
    <3>2. op[p].kind \notin {"logout", "login"}
      BY <1>2, <1>7, <3>1, Distinct DEF Loaded, Stage
    <3>3. \/ Refresh(p)
          \/ Finish(p) /\ Here
          \/ Run(p, "fresh") /\ Here
      BY <1>7, <2>3 DEF Loaded, noSession, noDisk, Here
    <3> QED
      BY <1>1, <1>4, <3>1, <3>2, <3>3, RefreshStep, FreshPlace
  <2> QED
    BY <2>2, <2>3
<1>8. CASE Fresh(p)
  <2> DEFINE a == IF op[p].kind = "model" /\ device = None THEN "licence" ELSE "main"
             h == IF op[p].kind = "model" THEN op[p].ses ELSE op[p].held
             r == [op[p] EXCEPT !.at = "ask", !.ask = a, !.held = h]
  <2>1. op[p].at = "fresh" /\ Becomes(p, r) /\ Here
    BY <1>2, <1>8 DEF Fresh, noSession, noDisk, Here, OpRecs
  <2>2. op[p].ses \in Sessions /\ op[p].kind \notin {"logout", "login"}
    BY <1>3, <2>1 DEF SessionAts
  <2>3. "ask" \in Ats \ (FlightAts \cup LoginAts)
    BY Places DEF SessionAts, FlightAts, ExchangeAts
  <2>4. h \in Accounts \cup Sessions \cup Credentials \cup {None, Unread}
    BY <1>2, <2>2 DEF OpRecs
  <2>5. a \in {"main", "licence"} /\ (a = "licence" => op[p].kind = "model" /\ h # None)
    BY <2>2, Distinct
  <2>6. op[p].kind = "model" => h = op[p].ses /\ h \in Sessions
    BY <2>2
  <2>7. PICK hh \in Accounts \cup Sessions \cup Credentials \cup {None, Unread}, aa \in {"main", "licence"} :
          hh = h /\ aa = a
    BY <2>4, <2>5
  <2> HIDE DEF h, a
  <2>8. Moves(p) /\ op'[p] = [op[p] EXCEPT !.at = "ask", !.ask = aa, !.held = hh]
    BY <2>1, <2>7, BecomesRecord
  <2>9. op'[p] \in OpRecs
    BY <1>2, <2>3, <2>8 DEF OpRecs
  <2>10. /\ op'[p].kind = op[p].kind /\ op'[p].st = "run" /\ op'[p].at = "ask"
         /\ op'[p].gen = op[p].gen /\ op'[p].ses = op[p].ses /\ op'[p].held = hh
         /\ op'[p].ask = aa
    BY <1>1, <1>2, <2>8 DEF OpRecs
  <2>11. /\ op[p].st = "run" /\ hh = h /\ aa = a
         /\ UNCHANGED <<gen, cut, cache, login, device, flight, writes, disk, stale, out, tokens>>
    BY <1>1, <2>1, <2>7 DEF Here
  <2>12. /\ op[p].kind = "model" => hh = op[p].held \/ (hh = op[p].ses /\ hh \in Sessions)
         /\ aa = "licence" => op[p].kind = "model" /\ hh # None
    BY <2>5, <2>6, <2>11
  <2> QED
    BY <2>2, <2>3, <2>8, <2>9, <2>10, <2>11, <2>12, AskRecord
<1>9. CASE Ask(p)
  BY <1>1, <1>3, <1>9, SendStep DEF Ask, SessionAts
<1>10. CASE Again(p)
  BY <1>1, <1>3, <1>10, RefreshStep DEF Again, SessionAts
<1>11. CASE Refreshed(p)
  <2>1. op[p].ses \in Sessions /\ op[p].kind \notin {"logout", "login"}
    BY <1>3, <1>11 DEF Refreshed, SessionAts
  <2>2. CASE op[p].kind = "restore" /\ op[p].res = "auth"
    BY <1>5, <1>11, <2>2 DEF Refreshed, Asks
  <2>3. CASE op[p].kind = "restore" /\ op[p].res # "auth"
    BY <1>4, <1>11, <2>3 DEF Refreshed, Asks, noSession, noDisk, Here
  <2>4. CASE op[p].kind \in Asks /\ op[p].res # "ok"
    <3>1. Finish(p) /\ UNCHANGED <<noSession, noDisk, restarts>>
      BY <1>11, <2>4 DEF Refreshed, Asks
    <3> QED
      BY <1>4, <3>1 DEF noSession, noDisk, Here
  <2>5. CASE op[p].kind \in Asks /\ op[p].res = "ok"
    <3>1. IF op[p].retried THEN Send(p)
          ELSE Run(p, "fresh") /\ UNCHANGED <<noSession, noDisk, restarts>>
      BY <1>11, <2>5 DEF Refreshed, Asks
    <3> QED
      BY <1>1, <2>1, <3>1, SendStep, FreshPlace DEF noSession, noDisk, Here
  <2> QED
    BY <1>11, <2>2, <2>3, <2>4, <2>5 DEF Refreshed
<1>12. CASE Remembered(p)
  <2>1. CASE op[p].res = "ok" /\ Owns(p)
    BY <1>5, <1>12, <2>1 DEF Remembered
  <2>2. CASE ~(op[p].res = "ok" /\ Owns(p))
    BY <1>4, <1>12, <2>2 DEF Remembered, Here
  <2> QED
    BY <2>1, <2>2
<1>13. CASE Ended(p)
  BY <1>4, <1>13 DEF Ended, noSession, noDisk, Here
<1> QED
  BY <1>6, <1>7, <1>8, <1>9, <1>10, <1>11, <1>12, <1>13 DEF AskStep

(* The answer to what an operation asked.                                  *)
LEMMA AskAnswerStep ==
  ASSUME SessionInv, NEW p \in Ops, op[p].st = "net", op[p].at \in {"main", "licence"}, AskAnswer(p),
         UNCHANGED <<disk, stale, out>>
  PROVE  SessionInv'
<1>1. /\ op[p] \in OpRecs /\ Stage(op[p]) /\ Globals /\ (Owns(p) => Current(op[p], p))
      /\ gen \in Nat /\ op[p].gen <= gen /\ tokens' = tokens
      /\ (p \in cut => op[p].st # "new")
  BY Known DEF Alive, AskAnswer
<1>2. op[p].ses \in Sessions /\ op[p].kind \notin {"logout", "login"}
  BY <1>1, Places, Distinct DEF Stage, SessionAts
<1>3. ASSUME Finish(p), UNCHANGED <<gen, cache, login, device, flight, writes, cut>>
      PROVE  SessionInv'
  BY <1>1, <1>3, FinishStep
<1>4. ASSUME Clear(p, "end"), UNCHANGED login PROVE SessionInv'
  BY <1>1, <1>4, ClearStep
<1>5. CASE ~Owns(p)
  BY <1>3, <1>5 DEF AskAnswer
<1>6. CASE Owns(p) /\ op[p].ask = "licence" /\ Licensed(p)
  <2>1. op[p].kind = "model" /\ op[p].held \in Sessions
    BY <1>1, <1>6 DEF Stage
  <2>2. SignedIn /\ cache.acc = op[p].ses.acc /\ cache.acc = op[p].held.acc
    BY <1>1, <1>2, <1>6, <2>1, Distinct DEF Current
  <2>3. /\ device' = None \/ device' = cache.acc
        /\ UNCHANGED <<gen, cache, login, flight, writes, cut>>
    BY <1>6, <2>2 DEF Licensed
  <2>4. CASE device' = None
    <3>1. Finish(p)
      BY <1>6, <2>4 DEF Licensed
    <3>2. "done" \in Sts /\ "end" \in Ats
      BY Places DEF LogoutAts
    <3>3. Moves(p) /\ op'[p] \in OpRecs /\ Goes(p, "done", "end", op[p].ses, op[p].res)
      BY <3>1, <3>2, ToRecord DEF Finish
    <3>4. MayGo(p, "done", "end")
      BY Places DEF MayGo, LogoutAts
    <3>5. Fit(op[p], p)' /\ OpensOnlyIfOpen(p)
      BY <1>1, <2>3, <3>2, <3>3, <3>4, GoesFit, Places
    <3> QED
      BY <1>1, <2>3, <2>4, <3>3, <3>5, QuietStep
  <2>5. CASE device' # None
    <3> DEFINE r == [To(p, "run", "ask") EXCEPT !.ask = "main", !.ses = op[p].held, !.retried = FALSE]
    <3>1. Becomes(p, r)
      BY <1>6, <2>5 DEF Licensed
    <3>2. "ask" \in Ats
      BY Places DEF SessionAts
    <3>3. PICK h \in Sessions : h = op[p].held
      BY <2>1
    <3>4. Moves(p) /\ op'[p] = [op[p] EXCEPT !.st = "run", !.at = "ask", !.ask = "main", !.ses = h,
                                              !.retried = FALSE]
      BY <3>1, <3>3, BecomesRecord DEF To
    <3>5. op'[p] \in OpRecs
      BY <1>1, <3>2, <3>4 DEF OpRecs
    <3>6. /\ op'[p].kind = op[p].kind /\ op'[p].st = "run" /\ op'[p].at = "ask"
          /\ op'[p].gen = op[p].gen /\ op'[p].ses = h /\ op'[p].held = h
          /\ op'[p].ask = "main"
      BY <1>1, <3>3, <3>4 DEF OpRecs
    <3>7. Stage(op[p])'
      BY <1>1, <2>1, <3>6, Places DEF Stage, SessionAts
    <3>8. Current(op[p], p)'
      BY <1>1, <1>6, <2>1, <2>2, <2>3, <3>3, <3>6 DEF Current, SignedIn, InFlight, FlightAts, ExchangeAts
    <3>9. Fit(op[p], p)' /\ OpensOnlyIfOpen(p)
      BY <1>1, <2>3, <3>5, <3>6, <3>7, <3>8 DEF Fit, OpensOnlyIfOpen, Opens
    <3> QED
      BY <1>1, <2>2, <2>3, <3>4, <3>9, QuietStep
  <2> QED
    BY <2>4, <2>5
<1>7. CASE Owns(p) /\ Done(p)
  <2>1. CASE op[p].kind = "password" /\ op[p].held = op[p].ses.acc
    <3>1. /\ SetLogin(p, op[p].ses.acc, To(p, "disk", "passworded"))
          /\ UNCHANGED <<gen, cache, device, flight, cut>>
      BY <1>7, <2>1 DEF Done
    <3>2. PICK a \in Accounts \cup {None} : a = op[p].ses.acc
      BY <1>2 DEF Sessions
    <3>3. SetLogin(p, a, To(p, "disk", "passworded"))
      BY <3>1, <3>2, Zenon
    <3>4. "passworded" \in Ats /\ MayGo(p, "disk", "passworded")
      BY <1>2, Places DEF MayGo, SessionAts, LoginAts, FlightAts, ExchangeAts
    <3> QED
      BY <1>1, <3>1, <3>3, <3>4, NotedStep
  <2>2. CASE op[p].kind = "password" /\ op[p].held # op[p].ses.acc
    BY <1>4, <1>7, <2>2 DEF Done
  <2>3. CASE op[p].kind = "profile"
    <3>1. Replace(p, cache, To(p, "disk", "end"), To(p, "done", "end"))
            /\ UNCHANGED <<gen, login, device, flight, cut>>
      BY <1>7, <2>3 DEF Done
    <3>2. SignedIn
      BY <1>1, <1>2, <1>7, Distinct DEF Current
    <3>3. /\ cache' = cache /\ writes' = Append(writes, Write(p, "session", Kept(cache), {}))
          /\ Becomes(p, To(p, "disk", "end"))
      BY <1>7, <3>1 DEF Replace
    <3> QED
      BY <1>1, <2>3, <3>1, <3>2, <3>3, AgainStep
  <2>4. CASE op[p].kind \notin {"password", "profile"}
    BY <1>3, <1>7, <2>4 DEF Done
  <2> QED
    BY <2>1, <2>2, <2>3, <2>4
<1>8. CASE Owns(p) /\ Unauthorised(p) /\ UNCHANGED login
  <2>1. CASE ~op[p].retried
    <3>1. /\ Becomes(p, [To(p, "run", "again") EXCEPT !.retried = TRUE])
          /\ UNCHANGED <<gen, cache, device, flight, writes, cut>>
      BY <1>8, <2>1 DEF Unauthorised
    <3>2. "again" \in Ats
      BY Places DEF SessionAts
    <3>3. Moves(p) /\ op'[p] = [op[p] EXCEPT !.st = "run", !.at = "again", !.retried = TRUE]
      BY <3>1, BecomesRecord DEF To
    <3>4. op'[p] \in OpRecs
      BY <1>1, <3>2, <3>3 DEF OpRecs
    <3>5. /\ op'[p].kind = op[p].kind /\ op'[p].st = "run" /\ op'[p].at = "again"
          /\ op'[p].gen = op[p].gen /\ op'[p].ses = op[p].ses /\ op'[p].held = op[p].held
          /\ op'[p].ask = op[p].ask
      BY <1>1, <3>3 DEF OpRecs
    <3>6. Stage(op[p])'
      BY <1>1, <1>2, <3>5, Places DEF Stage, SessionAts
    <3>7. Current(op[p], p)'
      BY <1>1, <1>8, <3>1, <3>5 DEF Current, SignedIn, InFlight, FlightAts, ExchangeAts
    <3>8. Fit(op[p], p)' /\ OpensOnlyIfOpen(p)
      BY <1>1, <3>1, <3>4, <3>5, <3>6, <3>7 DEF Fit, OpensOnlyIfOpen, Opens
    <3> QED
      BY <1>1, <1>8, <3>1, <3>3, <3>8, QuietStep
  <2>2. CASE op[p].retried /\ SignedIn /\ cache.tok = op[p].ses.tok
    BY <1>4, <1>8, <2>2 DEF Unauthorised
  <2>3. CASE op[p].retried /\ ~(SignedIn /\ cache.tok = op[p].ses.tok)
    BY <1>3, <1>8, <2>3 DEF Unauthorised
  <2> QED
    BY <2>1, <2>2, <2>3
<1>9. CASE Finish(p) /\ UNCHANGED <<gen, cache, login, device, flight, writes, cut>>
  BY <1>3, <1>9
<1> QED
  BY <1>5, <1>6, <1>7, <1>8, <1>9 DEF AskAnswer

(* Every answer of the gateway.                                            *)
LEMMA AnswerStep ==
  ASSUME SessionInv, NEW p \in Ops, Answer(p)
  PROVE  SessionInv'
<1>1. op[p].st = "net" /\ UNCHANGED <<disk, stale, out>>
  BY DEF Answer
<1>2. CASE op[p].at = "refresh"
  BY <1>1, <1>2, RefreshAnswerStep DEF Answer, Elsewhere
<1>3. CASE op[p].at = "relogin"
  BY <1>1, <1>3, ReloginAnswerStep DEF Answer, Elsewhere
<1>4. CASE op[p].at = "disown"
  BY <1>1, <1>4, ReloginDeniedStep DEF Answer, DisownAnswer, ReloginDenied, ExchangeAts
<1>5. CASE op[p].at = "login"
  <2>1. LoginGranted(p) \/ (Finish(p) /\ UNCHANGED <<noSession, writes>>)
    BY <1>5 DEF Answer
  <2> QED
    BY <1>1, <1>5, <2>1, LoginGrantedStep, FinishStep DEF noSession, Elsewhere
<1>6. CASE op[p].at \in {"main", "licence"}
  BY <1>1, <1>6, AskAnswerStep DEF Answer
<1>7. CASE op[p].at = "revoke"
  <2>1. Finish(p) /\ UNCHANGED <<noSession, writes>>
    BY <1>7 DEF Answer
  <2> QED
    BY <1>1, <2>1, FinishStep DEF noSession
<1>8. op[p].at \in {"refresh", "relogin", "disown", "login", "main", "licence", "revoke"}
  BY <1>1, Known DEF Stage, NetAts
<1> QED
  BY <1>2, <1>3, <1>4, <1>5, <1>6, <1>7, <1>8

----------------------------------------------------------------------------

(* A write that is done, well or badly.                                    *)
LEMMA WriteStep ==
  ASSUME SessionInv, WriteDone
  PROVE  SessionInv'
<1>1. UNCHANGED <<gen, cache, login, device, flight, tokens, cut>>
  BY DEF WriteDone
<1>2. PICK i \in Turn, good \in BOOLEAN :
        LET w == writes[i] IN
        /\ disk' = IF good THEN [disk EXCEPT ![w.file] = w.val] ELSE disk
        /\ stale' = IF good THEN stale \ {w.file} ELSE stale \cup {w.file}
        /\ out' = IF good THEN out \cup w.drops ELSE out
        /\ writes' = RemoveAt(writes, i)
        /\ Becomes(w.by, [To(w.by, "run", op[w.by].at) EXCEPT
                            !.res = IF good THEN "ok" ELSE "failed"])
  BY DEF WriteDone
<1>3. /\ Globals /\ OpsFit /\ FlightCurrent /\ OneSignIn /\ WritersWait
      /\ SessionFollows /\ LoginFollows /\ SessionsLeave /\ DeviceOfAccount
  BY DEF SessionInv
<1>4. i = 1 /\ 1 \in DOMAIN writes /\ writes \in Seq(Writes) /\ writes # <<>>
  BY <1>3 DEF Turn, Globals
<1>5. PICK w \in Writes : w = writes[1]
  BY <1>4
<1>6. PICK p \in Ops : p = w.by
  BY DEF Writes
<1>7. PICK res \in {"ok", "failed"} : res = IF good THEN "ok" ELSE "failed"
  OBVIOUS
<1>8. /\ disk' = IF good THEN [disk EXCEPT ![w.file] = w.val] ELSE disk
      /\ stale' = IF good THEN stale \ {w.file} ELSE stale \cup {w.file}
      /\ out' = IF good THEN out \cup w.drops ELSE out
      /\ writes' = RemoveAt(writes, 1)
  BY <1>2, <1>4, <1>5
<1>9. Becomes(p, [To(p, "run", op[p].at) EXCEPT !.res = res])
  BY <1>2, <1>4, <1>5, <1>6, <1>7
<1>10. /\ op[p] \in OpRecs /\ Stage(op[p]) /\ Fit(op[p], p)
       /\ (Owns(p) => Current(op[p], p)) /\ op[p].st = "disk"
  BY <1>3, <1>4, <1>5, <1>6, Known DEF WritersWait, Alive, OpsFit
<1>11. PICK at \in Ats : at = op[p].at
  BY <1>10 DEF OpRecs
<1>12. Moves(p) /\ op'[p] \in OpRecs /\ Goes(p, "run", at, op[p].ses, res)
  <2>1. Becomes(p, [To(p, "run", at) EXCEPT !.res = res])
    BY <1>9, <1>11, Zenon
  <2>2. "run" \in Sts /\ res \in Results
    BY Places DEF Results
  <2> QED
    BY <2>1, <2>2, ToRecordRes
<1>13. Fit(op[p], p)' /\ OpensOnlyIfOpen(p)
  <2>1. "run" \in Sts \ {"new", "read"} /\ op[p].at # "lost"
    BY <1>10, Places DEF Stage
  <2>2. Stage(op[p])'
    BY <1>10, <1>11, <1>12, <2>1 DEF Stage, Goes
  <2>3. ASSUME Owns(p) PROVE Current(op[p], p)'
    BY <1>1, <1>10, <1>11, <1>12, <2>3 DEF Current, Goes, SignedIn, InFlight
  <2> QED
    BY <1>1, <1>10, <1>11, <1>12, <2>2, <2>3 DEF Fit, Goes, OpensOnlyIfOpen, Opens, Alive, Owns
<1>14. OpsFit' /\ OneSignIn'
  <2>1. NoEnd(p)
    BY <1>1 DEF NoEnd
  <2> QED
    BY <1>1, <1>12, <1>13, <2>1, AllFit, OneSignInHolds DEF OpensOnlyIfOpen
<1>15. /\ writes' \in Seq(Writes)
       /\ DOMAIN writes = 1..Len(writes) /\ Len(writes) \in Nat \ {0}
       /\ DOMAIN writes' = 1..(Len(writes) - 1)
       /\ \A n \in DOMAIN writes' : n + 1 \in DOMAIN writes /\ writes'[n] = writes[n + 1]
  BY <1>4, <1>8, RemoveHead
<1>16. WritersWait'
  <2>1. \A q \in Ops : q # p => op'[q] = op[q]
    BY <1>3, <1>12 DEF Moves, OpsFit
  <2>2. ASSUME NEW n \in DOMAIN writes' PROVE writes'[n].by \in Ops /\ writes'[n].by # p /\ n \in Nat
    <3>1. n + 1 \in DOMAIN writes /\ n + 1 # 1 /\ writes'[n] = writes[n + 1] /\ n \in Nat
      BY <1>15
    <3>2. writes[n + 1].by \in Ops
      BY <1>4, <3>1 DEF Writes
    <3> QED
      BY <1>3, <1>4, <1>5, <1>6, <3>1, <3>2 DEF WritersWait
  <2>3. \A n \in DOMAIN writes' : op'[writes'[n].by].st = "disk"
    BY <1>3, <1>15, <2>1, <2>2 DEF WritersWait
  <2>4. ASSUME NEW m \in DOMAIN writes', NEW n \in DOMAIN writes', writes'[m].by = writes'[n].by
        PROVE  m = n
    <3>1. m + 1 = n + 1
      BY <1>3, <1>15, <2>4 DEF WritersWait
    <3> QED
      BY <2>2, <3>1
  <2> QED
    BY <2>3, <2>4 DEF WritersWait
<1>17. /\ \A f, v : LastSays(writes, f, v) =>
             LastSays(writes', f, v) /\ (~Pending(writes', f) /\ w.file = f => w.val = v)
       /\ \A f : Pending(writes', f) => Pending(writes, f)
       /\ \A f : Pending(writes, f) /\ w.file # f => Pending(writes', f)
  BY <1>4, <1>5, <1>8, HeadSays
<1>18. Pending(writes, w.file)
  BY <1>4, <1>5 DEF Pending
<1>19. /\ disk' \in [session : Sessions \cup {None}, login : Accounts \cup {None}]
       /\ good /\ w.file = "session" => disk'.session = w.val /\ disk'.login = disk.login
       /\ good /\ w.file = "login" => disk'.login = w.val /\ disk'.session = disk.session
       /\ ~good => disk' = disk
       /\ w.file \in {"session", "login"}
  BY <1>3, <1>8 DEF Globals, Writes
<1>20. SessionFollows'
  <2>1. CASE cache = Unread
    BY <1>1, <1>3, <1>17, <2>1 DEF SessionFollows
  <2>2. CASE cache # Unread
    <3>1. LastSays(writes, "session", Kept(cache)) /\ Kept(cache)' = Kept(cache)
      BY <1>1, <1>3, <2>2 DEF SessionFollows, Kept
    <3>2. CASE w.file = "session"
      BY <1>1, <1>8, <1>17, <1>19, <2>2, <3>1, <3>2 DEF SessionFollows
    <3>3. CASE w.file # "session"
      BY <1>1, <1>3, <1>8, <1>17, <1>19, <2>2, <3>1, <3>3 DEF SessionFollows
    <3> QED
      BY <3>2, <3>3
  <2> QED
    BY <2>1, <2>2
<1>21. LoginFollows'
  <2>1. LastSays(writes, "login", login)
    BY <1>3 DEF LoginFollows
  <2>2. CASE w.file = "login"
    BY <1>1, <1>3, <1>8, <1>17, <1>19, <2>1, <2>2 DEF LoginFollows
  <2>3. CASE w.file # "login"
    BY <1>1, <1>3, <1>8, <1>17, <1>19, <2>1, <2>3 DEF LoginFollows
  <2> QED
    BY <2>2, <2>3
<1>22. out' \subseteq 1..tokens /\ \A t \in out' : t \in out \/ t \in w.drops
  <2>1. w.drops \subseteq 1..tokens
    BY <1>3, <1>4, <1>5 DEF SessionsLeave, Leaves
  <2> QED
    BY <1>3, <1>8, <2>1 DEF Globals
<1>23. Globals'
  <2>1. stale' \subseteq {"session", "login"}
    BY <1>3, <1>8, <1>19 DEF Globals
  <2> QED
    BY <1>1, <1>3, <1>15, <1>19, <1>22, <2>1 DEF Globals
<1>24. SessionsLeave'
  <2>1. Leaves(writes) /\ 1 \in DOMAIN writes
    BY <1>3, <1>4 DEF SessionsLeave
  <2>2. SignedIn' => Issued(cache)'
    BY <1>1, <1>3, <1>5, <1>22, <2>1 DEF SessionsLeave, Issued, SignedIn, Leaves
  <2>3. disk'.session # None => Issued(disk.session)' /\ disk'.session.rem
    <3> SUFFICES ASSUME disk'.session # None PROVE Issued(disk.session)' /\ disk'.session.rem
      OBVIOUS
    <3>1. CASE good /\ w.file = "session"
      <4>1. w.val # None /\ disk'.session = w.val
        BY <1>19, <3>1
      <4>2. Issued(w.val) /\ w.drops = {} /\ w.val.rem
        BY <1>5, <2>1, <3>1, <4>1 DEF Leaves
      <4> QED
        BY <1>1, <1>22, <4>1, <4>2 DEF Issued
    <3>2. CASE ~good
      BY <1>1, <1>3, <1>8, <1>19, <3>2 DEF SessionsLeave, Issued
    <3>3. CASE good /\ w.file = "login"
      <4>1. w.drops = {} /\ disk'.session = disk.session
        BY <1>19, <3>3 DEF Writes
      <4> QED
        BY <1>1, <1>3, <1>22, <4>1 DEF SessionsLeave, Issued
    <3> QED
      BY <1>19, <3>1, <3>2, <3>3
  <2>4. Leaves(writes)'
    <3>1. ASSUME NEW n \in DOMAIN writes'
          PROVE  /\ n + 1 \in DOMAIN writes /\ writes'[n] = writes[n + 1] /\ n + 1 > 1 /\ n \in Nat
      BY <1>15
    <3>2. ASSUME NEW n \in DOMAIN writes' PROVE writes'[n].drops \subseteq 1..tokens'
      BY <1>1, <2>1, <3>1 DEF Leaves
    <3>3. ASSUME NEW n \in DOMAIN writes', writes'[n].file = "session", writes'[n].val # None
          PROVE  Issued(writes[n].val)' /\ writes'[n].drops = {} /\ writes'[n].val.rem
      <4>1. /\ Issued(writes[n + 1].val) /\ writes[n + 1].drops = {} /\ writes[n + 1].val.rem
            /\ writes[n + 1].val.tok \notin writes[1].drops
        BY <2>1, <3>1, <3>3 DEF Leaves
      <4> QED
        BY <1>1, <1>5, <1>22, <3>1, <4>1 DEF Issued
    <3>4. ASSUME SignedIn', NEW n \in DOMAIN writes' PROVE cache'.tok \notin writes'[n].drops
      BY <1>1, <2>1, <3>1, <3>4 DEF Leaves, SignedIn
    <3>5. ASSUME NEW n \in DOMAIN writes', NEW m \in DOMAIN writes', m > n,
                 writes'[m].file = "session", writes'[m].val # None
          PROVE  writes'[m].val.tok \notin writes'[n].drops
      <4>1. m + 1 > n + 1
        BY <3>1, <3>5
      <4> QED
        BY <2>1, <3>1, <3>5, <4>1 DEF Leaves
    <3> QED
      BY <3>2, <3>3, <3>4, <3>5 DEF Leaves
  <2> QED
    BY <2>2, <2>3, <2>4 DEF SessionsLeave
<1>25. FlightCurrent' /\ DeviceOfAccount'
  BY <1>1, <1>3 DEF FlightCurrent, DeviceOfAccount, SignedIn
<1> QED
  BY <1>14, <1>16, <1>20, <1>21, <1>23, <1>24, <1>25 DEF SessionInv

(* A restart, maybe in the middle of a write.                              *)
LEMMA RestartStep ==
  ASSUME SessionInv, Restart
  PROVE  SessionInv'
<1>1. /\ gen' = 0 /\ cache' = Unread /\ login' = Unread /\ device' = None /\ flight' = None
      /\ writes' = <<>> /\ stale' = {} /\ UNCHANGED <<tokens, cut, out>>
      /\ op' = [p \in Ops |-> IF op[p].st = "new" THEN op[p] ELSE [New EXCEPT !.st = "done"]]
  BY DEF Restart
<1>2. /\ Globals /\ OpsFit /\ SessionsLeave
  BY DEF SessionInv
<1>3. ASSUME NEW p \in Ops PROVE Fit(op[p], p)' /\ ~Alive(op[p])'
  <2>1. op[p] \in OpRecs /\ Stage(op[p])
    BY Known
  <2>2. CASE op[p].st = "new"
    <3>1. op'[p] = op[p]
      BY <1>1, <2>2
    <3>2. p \notin cut
      BY <2>2, Known
    <3>3. op[p].gen = 0
      BY <2>1, <2>2 DEF Stage
    <3> QED
      BY <1>1, <2>1, <2>2, <3>1, <3>2, <3>3 DEF Fit, Stage, Alive
  <2>3. CASE op[p].st # "new"
    <3>1. op'[p] = [New EXCEPT !.st = "done"]
      BY <1>1, <2>3
    <3>2. "start" \in Ats
      BY DEF Ats
    <3>3. op'[p] \in OpRecs
      <4>1. New \in OpRecs
        BY <3>2 DEF New, OpRecs
      <4> QED
        BY <3>1, <4>1 DEF OpRecs
    <3>4. /\ op'[p].kind = None /\ op'[p].at = "start" /\ op'[p].gen = 0 /\ op'[p].ses = None
          /\ op'[p].held = None /\ op'[p].ask = "main" /\ op'[p].st = "done"
      BY <3>1 DEF New
    <3>5. Stage(op[p])'
      BY <3>4, Distinct DEF Stage, SessionAts, FlightAts, ExchangeAts, LoginAts, OpKinds
    <3> QED
      BY <1>1, <3>3, <3>4, <3>5 DEF Fit, Alive
  <2> QED
    BY <2>2, <2>3
<1>4. OpsFit'
  <2>1. \A p \in Ops : op'[p] \in OpRecs
    BY <1>3 DEF Fit
  <2>2. op' = [p \in Ops |-> op'[p]]
    BY <1>1
  <2>3. op' \in [Ops -> OpRecs]
    BY <2>1, <2>2
  <2> QED
    BY <1>3, <2>3 DEF OpsFit
<1>5. OneSignIn'
  BY <1>3 DEF OneSignIn, Opens
<1>6. WritersWait' /\ FlightCurrent' /\ DeviceOfAccount'
  BY <1>1 DEF WritersWait, FlightCurrent, DeviceOfAccount
<1>7. /\ disk' \in [session : Sessions \cup {None}, login : Accounts \cup {None}]
      /\ disk'.session # None => Issued(disk'.session) /\ disk'.session.rem
  <2>1. CASE UNCHANGED disk
    BY <1>2, <2>1 DEF Globals, SessionsLeave, Issued
  <2>2. CASE writes # <<>> /\ disk' = [disk EXCEPT ![writes[1].file] = writes[1].val]
    <3>1. 1 \in DOMAIN writes /\ writes[1] \in Writes
      BY <1>2, <2>2 DEF Globals
    <3>2. PICK w \in Writes : w = writes[1]
      BY <3>1
    <3>3. disk' = [disk EXCEPT ![w.file] = w.val]
      BY <2>2, <3>2
    <3>4. w.file = "session" /\ w.val # None => Issued(w.val) /\ w.val.rem
      BY <1>2, <3>1, <3>2 DEF SessionsLeave, Leaves
    <3>5. CASE w.file = "session"
      BY <1>2, <3>3, <3>4, <3>5 DEF Globals, Writes
    <3>6. CASE w.file = "login"
      BY <1>2, <3>3, <3>6 DEF Globals, Writes, SessionsLeave
    <3> QED
      BY <3>5, <3>6 DEF Writes
  <2> QED
    BY <2>1, <2>2 DEF Restart
<1>8. Globals'
  BY <1>1, <1>2, <1>7 DEF Globals
<1>9. SessionFollows' /\ LoginFollows'
  BY <1>1 DEF SessionFollows, LoginFollows, Pending, LastSays
<1>10. SessionsLeave'
  BY <1>1, <1>7, Distinct DEF SessionsLeave, SignedIn, Leaves, Issued
<1> QED
  BY <1>4, <1>5, <1>6, <1>8, <1>9, <1>10 DEF SessionInv

(* The invariant holds at first,                                           *)
LEMMA SessionStart ==
  ASSUME Init
  PROVE  SessionInv
<1>1. PICK a \in Starts :
        /\ disk = [session |-> IF a = None THEN None ELSE [tok |-> 1, acc |-> a, rem |-> TRUE],
                   login |-> a]
        /\ tokens = IF a = None THEN 0 ELSE 1
  BY DEF Init
<1>2. /\ gen = 0 /\ cache = Unread /\ login = Unread /\ device = None /\ flight = None
      /\ writes = <<>> /\ stale = {} /\ op = [p \in Ops |-> New] /\ cut = {} /\ out = {}
  BY DEF Init
<1>3. a \in Accounts \cup {None}
  BY SessionAssumption DEF SessionAssumption
<1>4. /\ disk \in [session : Sessions \cup {None}, login : Accounts \cup {None}]
      /\ tokens \in 0..MaxTokens
      /\ disk.session # None => disk.session.tok <= tokens /\ disk.session.rem
  BY <1>1, <1>3, Distinct DEF Sessions
<1>5. Globals
  BY <1>2, <1>4 DEF Globals
<1>6. New \in OpRecs /\ "start" \in Ats
  BY DEF New, OpRecs, Ats
<1>7. ASSUME NEW p \in Ops PROVE Fit(op[p], p) /\ ~Alive(op[p])
  <2>1. op[p] = New
    BY <1>2
  <2>2. Stage(New)
    BY Distinct DEF Stage, New, SessionAts, FlightAts, ExchangeAts, LoginAts, OpKinds
  <2> QED
    BY <1>2, <1>6, <2>1, <2>2 DEF Fit, Alive, New
<1>8. OpsFit /\ OneSignIn
  BY <1>2, <1>6, <1>7 DEF OpsFit, OneSignIn, Opens
<1>9. WritersWait /\ FlightCurrent /\ DeviceOfAccount
  BY <1>2 DEF WritersWait, FlightCurrent, DeviceOfAccount
<1>10. SessionFollows /\ LoginFollows
  BY <1>2 DEF SessionFollows, LoginFollows, Pending, LastSays
<1>11. SessionsLeave
  BY <1>2, <1>4, Distinct DEF SessionsLeave, SignedIn, Leaves, Issued
<1> QED
  BY <1>5, <1>8, <1>9, <1>10, <1>11 DEF SessionInv

(* and every step keeps it.                                                *)
LEMMA SessionStep ==
  ASSUME SessionInv, [Next]_vars
  PROVE  SessionInv'
<1>1. CASE WriteDone
  BY <1>1, WriteStep
<1>2. ASSUME NEW p \in Ops, ReadDone(p) PROVE SessionInv'
  BY <1>2, ReadStep
<1>3. ASSUME NEW p \in Ops, Answer(p) PROVE SessionInv'
  BY <1>3, AnswerStep
<1>4. ASSUME NEW p \in Ops, Step(p) PROVE SessionInv'
  BY <1>4, FlightStepKeeps, AccountStepKeeps, AskStepKeeps DEF Step
<1>5. CASE Restart
  BY <1>5, RestartStep
<1>6. ASSUME NEW p \in Ops, Start(p) PROVE SessionInv'
  BY <1>6, StartStep
<1>7. CASE UNCHANGED vars
  BY <1>7 DEF vars, SessionInv, Globals, OpsFit, Fit, Stage, Current, SignedIn, InFlight, Alive,
              FlightCurrent, OneSignIn, Opens, Owns, WritersWait, SessionFollows, LoginFollows,
              SessionsLeave, Leaves, Issued, DeviceOfAccount, Pending, LastSays, Kept
<1> QED
  BY <1>1, <1>2, <1>3, <1>4, <1>5, <1>6, <1>7 DEF Next, Progress

(* The inductive invariant: every operation holds what its place needs;    *)
(* one of the current generation holds a session of the account in memory, *)
(* and whoever exchanges its token is the flight; and memory, the chain of *)
(* writes and the files agree (commercial-api-transport.ts as a whole).    *)
THEOREM SessionInvariant == Spec => []SessionInv
<1>1. Init => SessionInv
  BY SessionStart
<1>2. SessionInv /\ [Next]_vars => SessionInv'
  BY SessionStep
<1> QED
  BY <1>1, <1>2, PTL DEF Spec

----------------------------------------------------------------------------

(* Every variable has its type: the cache holds a session, none or nothing *)
(* loaded yet, and no more tokens are issued than the bound.               *)
THEOREM SessionTypes == Spec => []SessionTypeOK
<1>1. SessionInv => SessionTypeOK
  <2> SUFFICES ASSUME SessionInv PROVE SessionTypeOK
    OBVIOUS
  <2>1. Globals
    BY DEF SessionInv
  <2>2. out \subseteq 1..MaxTokens
    BY <2>1, Distinct DEF Globals
  <2>3. \A p \in Ops : op[p].st \in {"new", "run", "read", "disk", "net", "join", "done"}
    BY Known DEF OpRecs
  <2> QED
    BY <2>1, <2>2, <2>3 DEF Globals, SessionTypeOK
<1> QED
  BY <1>1, SessionInvariant, PTL

(* One token is exchanged by one operation at a time, and it is the token  *)
(* in memory (refreshInFlight): who exchanges under the current generation *)
(* is the flight, and there is one flight.                                 *)
THEOREM OneExchangeAtATime == Spec => []OneExchange
<1>1. SessionInv => OneExchange
  <2> SUFFICES ASSUME SessionInv PROVE OneExchange
    OBVIOUS
  <2>1. ASSUME NEW p \in Exchanging
        PROVE  /\ p \in Ops /\ flight = [gen |-> gen, by |-> p]
               /\ SignedIn /\ cache.tok = op[p].ses.tok
    <3>1. /\ p \in Ops /\ op[p].st = "net" /\ op[p].at \in ExchangeAts /\ Owns(p)
      BY <2>1 DEF Exchanging, ExchangeAts
    <3> QED
      BY <3>1, Flying, Places DEF Alive
  <2>2. Cardinality(Exchanging) <= 1
    <3>1. CASE Exchanging = {}
      BY <3>1, FS_EmptySet
    <3>2. ASSUME NEW p \in Exchanging PROVE Cardinality(Exchanging) <= 1
      <4>1. \A q \in Exchanging : q = p
        BY <2>1, <3>2
      <4>2. Exchanging = {p}
        BY <3>2, <4>1
      <4> QED
        BY <4>2, FS_Singleton
    <3> QED
      BY <3>1, <3>2
  <2> QED
    BY <2>1, <2>2 DEF OneExchange
<1> QED
  BY <1>1, SessionInvariant, PTL

(* The device of a model request is one of the account signed in: a        *)
(* session that ends takes its device along (clearSession), and none is    *)
(* replaced by that of another account.                                    *)
THEOREM DeviceFollowsAccount == Spec => []DeviceOfAccount
<1>1. SessionInv => DeviceOfAccount
  BY DEF SessionInv
<1> QED
  BY <1>1, SessionInvariant, PTL

(* When no write is pending and the last one of a file succeeded, the file *)
(* says what memory says (persist): the last write of a chain says it, and *)
(* the chain ends with it.                                                 *)
THEOREM DiskFollowsMemory == Spec => []DiskFollows
<1>1. SessionInv => DiskFollows
  <2> SUFFICES ASSUME SessionInv, writes = <<>>
               PROVE  /\ "session" \in stale \/ cache = Unread \/ disk.session = Kept(cache)
                      /\ "login" \in stale \/ login = Unread \/ disk.login = login
    BY DEF DiskFollows
  <2>1. ~Pending(writes, "session") /\ ~Pending(writes, "login")
    BY DEF Pending
  <2> QED
    BY <2>1 DEF SessionInv, SessionFollows, LoginFollows
<1> QED
  BY <1>1, SessionInvariant, PTL

(* A session that was signed out on disk too is in no file and not in      *)
(* memory, restarts included: a write that signs a token out is followed   *)
(* by none that holds it.                                                  *)
THEOREM SignedOutStaysOut == Spec => []SignedOutForGood
<1>1. SessionInv => SignedOutForGood
  BY DEF SessionInv, Globals, SessionsLeave, Issued, SignedIn, SignedOutForGood
<1> QED
  BY <1>1, SessionInvariant, PTL

(* What a step may do to the session in memory.                            *)
CacheMoves ==
  \/ cache' = cache
  \/ cache' = None
  \/ cache = Unread
  \/ SignedIn /\ cache'.acc = cache.acc /\ cache'.tok > cache.tok
  \/ cache = None /\ \E p \in Ops : op[p].at = "login" /\ op'[p].at = "signed"

(* A session that ends leaves nothing in memory,                           *)
LEMMA EndEmpties == ASSUME NEW p, NEW r, EndSession(p, r) PROVE CacheMoves
BY DEF EndSession, CacheMoves

(* and clearSession ends it or does nothing.                               *)
LEMMA ClearEmpties == ASSUME NEW p, NEW next, Clear(p, next) PROVE CacheMoves
<1>1. CASE op[p].gen = gen
  BY <1>1, EndEmpties DEF Clear
<1>2. CASE op[p].gen # gen
  BY <1>2 DEF Clear, CacheMoves
<1> QED
  BY <1>1, <1>2

(* A successor is a newer token of the same account.                       *)
LEMMA SuccessorMoves ==
  ASSUME SessionInv, NEW p \in Ops, op[p].st = "net", op[p].at \in ExchangeAts, Owns(p),
         NEW rem \in BOOLEAN, IssuesToken, cache' = Session(op[p].ses.acc, rem)
  PROVE  CacheMoves
<1>1. op[p].ses \in Sessions /\ SignedIn /\ cache.acc = op[p].ses.acc
  BY Flying, Places DEF Alive
<1>2. op[p].ses.acc \in Accounts
  BY <1>1 DEF Sessions
<1>3. cache'.tok = tokens + 1 /\ cache'.acc = cache.acc
  BY <1>1, <1>2, SessionsMade
<1>4. cache.tok <= tokens /\ cache.tok \in Nat /\ tokens \in Nat
  BY <1>1, Distinct DEF SessionInv, SessionsLeave, Issued, SignedIn, Sessions, Globals
<1> QED
  BY <1>1, <1>3, <1>4 DEF CacheMoves

(* An answer changes the session in memory as AccountHolds allows,         *)
LEMMA AnswerMovesCache ==
  ASSUME SessionInv, NEW p \in Ops, Answer(p)
  PROVE  CacheMoves
<1>1. op[p].st = "net" /\ op[p].at \in NetAts
  BY Known DEF Answer, Stage
<1>2. CASE op[p].at = "refresh"
  <2>1. op[p].at \in ExchangeAts /\ RefreshAnswer(p)
    BY <1>2 DEF Answer, ExchangeAts
  <2>2. CASE RefreshGranted(p)
    <3>1. IssuesToken /\ Replace(p, Session(op[p].ses.acc, op[p].ses.rem), To(p, "disk", "stored"),
                                 [To(p, "run", "lost") EXCEPT !.res = "changed"])
      BY <2>2 DEF RefreshGranted, IssuesToken
    <3>2. CASE Owns(p)
      <4>1. cache' = Session(op[p].ses.acc, op[p].ses.rem)
        BY <3>1, <3>2 DEF Replace
      <4>2. op[p].ses \in Sessions
        BY <1>1, <2>1, Flying, Places DEF Alive
      <4>3. PICK rem \in BOOLEAN : rem = op[p].ses.rem
        BY <4>2 DEF Sessions
      <4>4. cache' = Session(op[p].ses.acc, rem)
        BY <4>1, <4>3, Zenon
      <4> QED
        BY <1>1, <2>1, <3>1, <3>2, <4>4, SuccessorMoves
    <3>3. CASE ~Owns(p)
      BY <3>1, <3>3 DEF Replace, CacheMoves
    <3> QED
      BY <3>2, <3>3
  <2>3. CASE RefreshDenied(p) \/ Rejected(p) \/ Unreachable(p)
    BY <2>3 DEF RefreshDenied, Rejected, Unreachable, CacheMoves
  <2> QED
    BY <2>1, <2>2, <2>3 DEF RefreshAnswer
<1>3. CASE op[p].at = "relogin"
  <2>1. op[p].at \in ExchangeAts /\ ReloginAnswer(p)
    BY <1>3 DEF Answer, ExchangeAts
  <2>2. CASE ReloginGranted(p)
    <3>1. PICK a \in Accounts :
            IF SameUser(p, a)
            THEN Replace(p, Session(a, TRUE), To(p, "disk", "restored"),
                         [To(p, "run", "lost") EXCEPT !.res = "changed"])
            ELSE Await(p, "disown") /\ UNCHANGED <<cache, writes>>
      BY <2>2 DEF ReloginGranted
    <3>2. IssuesToken
      BY <2>2 DEF ReloginGranted, IssuesToken
    <3>3. CASE SameUser(p, a) /\ Owns(p)
      <4>1. cache' = Session(op[p].ses.acc, TRUE)
        BY <3>1, <3>3 DEF Replace, SameUser
      <4> QED
        BY <1>1, <2>1, <3>2, <3>3, <4>1, SuccessorMoves
    <3>4. CASE ~(SameUser(p, a) /\ Owns(p))
      BY <3>1, <3>4 DEF Replace, CacheMoves
    <3> QED
      BY <3>3, <3>4
  <2>3. CASE ReloginDenied(p) \/ Unreachable(p)
    BY <2>3, ClearEmpties DEF ReloginDenied, Unreachable, CacheMoves
  <2> QED
    BY <2>1, <2>2, <2>3 DEF ReloginAnswer
<1>4. CASE op[p].at = "disown"
  BY <1>4, ClearEmpties DEF Answer, DisownAnswer, ReloginDenied
<1>5. CASE op[p].at = "login"
  <2>1. LoginGranted(p) \/ UNCHANGED cache
    BY <1>5 DEF Answer, noSession
  <2>2. CASE LoginGranted(p) /\ Owns(p)
    <3>1. Becomes(p, To(p, "disk", "signed"))
      BY <2>2 DEF LoginGranted, Replace
    <3>2. "disk" \in Sts /\ "signed" \in Ats
      BY Places DEF LoginAts
    <3>3. op'[p].at = "signed"
      BY <3>1, <3>2, ToRecord DEF Goes
    <3>4. cache = None
      BY <1>1, <1>5, <2>2, Known DEF Current, Alive
    <3> QED
      BY <1>5, <3>3, <3>4 DEF CacheMoves
  <2>3. CASE LoginGranted(p) /\ ~Owns(p)
    BY <2>3 DEF LoginGranted, Replace, CacheMoves
  <2> QED
    BY <2>1, <2>2, <2>3 DEF CacheMoves
<1>6. CASE op[p].at \in {"main", "licence"}
  <2>1. AskAnswer(p)
    BY <1>6 DEF Answer
  <2>2. CASE Done(p)
    <3>1. CASE op[p].kind = "password" /\ op[p].held = op[p].ses.acc
      BY <2>2, <3>1 DEF Done, CacheMoves
    <3>2. CASE op[p].kind = "password" /\ op[p].held # op[p].ses.acc
      BY <2>2, <3>2, ClearEmpties DEF Done
    <3>3. CASE op[p].kind = "profile"
      <4>1. Replace(p, cache, To(p, "disk", "end"), To(p, "done", "end"))
        BY <2>2, <3>3 DEF Done
      <4> QED
        BY <4>1 DEF Replace, CacheMoves
    <3>4. CASE op[p].kind \notin {"password", "profile"}
      BY <2>2, <3>4 DEF Done, CacheMoves
    <3> QED
      BY <3>1, <3>2, <3>3, <3>4
  <2>3. CASE Unauthorised(p)
    <3>1. CASE op[p].retried /\ SignedIn /\ cache.tok = op[p].ses.tok
      <4>1. op[p].retried \in BOOLEAN
        BY Known DEF OpRecs
      <4>2. Clear(p, "end")
        BY <2>3, <3>1, <4>1 DEF Unauthorised
      <4> QED
        BY <4>2, ClearEmpties
    <3>2. CASE ~(op[p].retried /\ SignedIn /\ cache.tok = op[p].ses.tok)
      BY <2>3, <3>2, Known DEF Unauthorised, CacheMoves, OpRecs
    <3> QED
      BY <3>1, <3>2
  <2>4. CASE ~Done(p) /\ ~Unauthorised(p)
    BY <2>1, <2>4 DEF AskAnswer, Licensed, CacheMoves
  <2> QED
    BY <2>2, <2>3, <2>4
<1>7. CASE op[p].at = "revoke"
  BY <1>7 DEF Answer, noSession, CacheMoves
<1> QED
  BY <1>1, <1>2, <1>3, <1>4, <1>5, <1>6, <1>7 DEF NetAts

(* and so does every step of an operation.                                 *)
LEMMA StepMovesCache ==
  ASSUME SessionInv, NEW p \in Ops, Step(p)
  PROVE  CacheMoves
<1>1. CASE FlightStep(p)
  <2>1. FlightGoesOn(p)
    BY <1>1 DEF FlightStep
  <2>2. CASE op[p].at = "denied"
    BY <2>1, <2>2, ClearEmpties DEF FlightGoesOn, Denied, CacheMoves
  <2>3. CASE op[p].at # "denied"
    <3>1. UNCHANGED cache
      BY <2>1, <2>3, Zenon DEF FlightGoesOn
    <3> QED
      BY <3>1 DEF CacheMoves
  <2> QED
    BY <2>2, <2>3
<1>2. CASE AccountStep(p)
  <2>1. \/ LoginCleared(p) \/ LoginSigned(p) \/ LoginRemembered(p) \/ Logout(p)
        \/ LogoutLeft(p) \/ LogoutKept(p) \/ Revoke(p)
    BY <1>2 DEF AccountStep
  <2>2. CASE LoginSigned(p) \/ LoginRemembered(p)
    BY <2>2, ClearEmpties DEF LoginSigned, LoginRemembered, LoginUndone, noSession, CacheMoves
  <2>3. CASE Logout(p)
    BY <2>3, EndEmpties DEF Logout, CacheMoves
  <2>4. CASE LoginCleared(p) \/ LogoutKept(p) \/ Revoke(p)
    BY <2>4 DEF LoginCleared, LogoutKept, Revoke, noSession, CacheMoves
  <2>5. CASE LogoutLeft(p)
    <3>1. UNCHANGED cache
      BY <2>5 DEF LogoutLeft, noSession
    <3> QED
      BY <3>1 DEF CacheMoves
  <2> QED
    BY <2>1, <2>2, <2>3, <2>4, <2>5
<1>3. CASE AskStep(p)
  <2>1. CASE Refreshed(p)
    BY <2>1, ClearEmpties DEF Refreshed, Send, noSession, CacheMoves, Asks
  <2>2. CASE Remembered(p)
    BY <2>2, ClearEmpties DEF Remembered, CacheMoves
  <2>3. CASE Note(p) \/ Loaded(p) \/ Fresh(p) \/ Ask(p) \/ Again(p) \/ Ended(p)
    BY <2>3 DEF Note, Loaded, Fresh, Ask, Again, Ended, Send, Refresh, noSession, CacheMoves
  <2> QED
    BY <1>3, <2>1, <2>2, <2>3 DEF AskStep
<1> QED
  BY <1>1, <1>2, <1>3 DEF Step

(* Only a restart counts as one.                                           *)
LEMMA RestartsKept ==
  ASSUME Next, ~Restart
  PROVE  restarts' = restarts
<1>1. ASSUME NEW p \in Ops, AskStep(p) PROVE restarts' = restarts
  <2>1. Note(p) \/ Loaded(p) \/ Fresh(p) \/ Ask(p) \/ Again(p) \/ Refreshed(p) \/ Remembered(p) \/ Ended(p)
    BY <1>1 DEF AskStep
  <2>2. CASE Refreshed(p)
    BY <2>2 DEF Refreshed, Send, Asks
  <2>3. CASE Note(p) \/ Loaded(p) \/ Fresh(p) \/ Ask(p) \/ Again(p) \/ Remembered(p) \/ Ended(p)
    BY <2>3 DEF Note, Loaded, Fresh, Ask, Again, Ended, Remembered, Send, Refresh
  <2> QED
    BY <2>1, <2>2, <2>3
<1> QED
  BY <1>1 DEF Next, Progress, WriteDone, ReadDone, Answer, Step, FlightStep, AccountStep, Start

(* The restarts are counted by a number.                                   *)
LEMMA RestartsCounted == Spec => [](restarts \in Nat)
<1>1. Init => restarts \in Nat
  BY DEF Init
<1>2. restarts \in Nat /\ [Next]_vars => (restarts \in Nat)'
  BY RestartsKept DEF Restart, vars
<1> QED
  BY <1>1, <1>2, PTL DEF Spec

(* A session in memory is replaced only by a newer token of the same       *)
(* account, or ended; after that only a sign-in brings one back            *)
(* (replaceSession, reauthenticate, loadSession).                          *)
THEOREM AccountIsHeld == Spec => AccountHolds
<1>1. ASSUME SessionInv, restarts \in Nat, [Next]_vars, restarts' = restarts, cache' # cache
      PROVE  \/ cache' = None
             \/ cache = Unread
             \/ SignedIn /\ cache'.acc = cache.acc /\ cache'.tok > cache.tok
             \/ cache = None /\ \E p \in Ops : op[p].at = "login" /\ op'[p].at = "signed"
  <2>1. Next
    BY <1>1 DEF vars
  <2>2. ASSUME WriteDone PROVE CacheMoves
    BY <2>2 DEF WriteDone, CacheMoves
  <2>3. ASSUME NEW p \in Ops, ReadDone(p) PROVE CacheMoves
    BY <2>3 DEF ReadDone, LoadWins, CacheMoves
  <2>4. ASSUME NEW p \in Ops, Answer(p) PROVE CacheMoves
    BY <1>1, <2>4, AnswerMovesCache
  <2>5. ASSUME NEW p \in Ops, Step(p) PROVE CacheMoves
    BY <1>1, <2>5, StepMovesCache
  <2>6. ASSUME Restart PROVE FALSE
    BY <1>1, <2>6 DEF Restart
  <2>7. ASSUME NEW p \in Ops, Start(p) PROVE CacheMoves
    BY <2>7, EndEmpties DEF Start, Login, Begin, CacheMoves
  <2>8. CacheMoves
    BY <2>1, <2>2, <2>3, <2>4, <2>5, <2>6, <2>7 DEF Next, Progress
  <2> QED
    BY <1>1, <2>8 DEF CacheMoves
<1>2. SessionInv /\ restarts \in Nat /\ [Next]_vars =>
        [restarts' = restarts /\ cache' # cache =>
           \/ cache' = None
           \/ cache = Unread
           \/ SignedIn /\ cache'.acc = cache.acc /\ cache'.tok > cache.tok
           \/ cache = None /\ \E p \in Ops : op[p].at = "login" /\ op'[p].at = "signed"]_vars
  BY <1>1
<1> QED
  BY <1>2, SessionInvariant, RestartsCounted, PTL DEF Spec, AccountHolds

----------------------------------------------------------------------------

Asking(r) == r.st = "net" /\ r.at \in {"main", "licence"}

(* Who begins to ask moves itself, and to where it asks.                   *)
LEMMA Asker ==
  ASSUME SessionInv, NEW p \in Ops, NEW q \in Ops, NEW r, Becomes(p, r), Sends(q)
  PROVE  q = p /\ Asking(r)
<1>1. op' = [op EXCEPT ![p] = r] /\ op \in [Ops -> OpRecs]
  BY DEF Becomes, SessionInv, OpsFit
<1>2. op[q].st # "net" /\ op'[q].st = "net" /\ op'[q].at \in {"main", "licence"}
  BY DEF Sends
<1>3. q = p
  BY <1>1, <1>2
<1>4. op'[p] = r
  BY <1>1
<1> QED
  BY <1>2, <1>3, <1>4 DEF Asking

(* The place of a record that moves.                                       *)
LEMMA ToAsks ==
  ASSUME SessionInv, NEW p \in Ops, NEW st, NEW at
  PROVE  To(p, st, at).st = st /\ To(p, st, at).at = at
BY Known DEF To, OpRecs

(* A step to st and at asks for nothing, if those are not where one asks.  *)
LEMMA NoAsk ==
  ASSUME SessionInv, NEW p \in Ops, NEW q \in Ops, NEW st, NEW at, Sends(q),
         Becomes(p, To(p, st, at))
  PROVE  st = "net" /\ at \in {"main", "licence"}
BY Asker, ToAsks DEF Asking

(* The same with fields of the record changed that do not matter here.     *)
LEMMA NoAskRes ==
  ASSUME SessionInv, NEW p \in Ops, NEW q \in Ops, NEW st, NEW at, NEW res, Sends(q),
         Becomes(p, [To(p, st, at) EXCEPT !.res = res])
  PROVE  st = "net" /\ at \in {"main", "licence"}
<1>1. Asking([To(p, st, at) EXCEPT !.res = res])
  BY Asker
<1>2. /\ [To(p, st, at) EXCEPT !.res = res].st = st
      /\ [To(p, st, at) EXCEPT !.res = res].at = at
  BY Known DEF To, OpRecs
<1> QED
  BY <1>1, <1>2 DEF Asking

(* What does not ask: an operation that ends,                              *)
LEMMA FinishSilent ==
  ASSUME SessionInv, NEW p \in Ops, NEW q \in Ops, Finish(p)
  PROVE  ~Sends(q)
BY NoAsk DEF Finish

(* clearSession,                                                           *)
LEMMA ClearSilent ==
  ASSUME SessionInv, NEW p \in Ops, NEW q \in Ops, NEW next, Clear(p, next)
  PROVE  ~Sends(q)
<1>1. Becomes(p, To(p, "disk", next)) \/ Becomes(p, To(p, "run", next))
  BY DEF Clear, EndSession, Run
<1> QED
  BY <1>1, NoAsk

(* refreshSession (it exchanges a token, which is not what is asked),      *)
LEMMA RefreshSilent ==
  ASSUME SessionInv, NEW p \in Ops, NEW q \in Ops, Refresh(p)
  PROVE  ~Sends(q)
<1>1. \/ Finish(p)
      \/ Becomes(p, [To(p, "run", "refreshed") EXCEPT !.ses = cache, !.res = "ok"])
      \/ Becomes(p, To(p, "join", "refresh"))
      \/ Becomes(p, To(p, "net", "refresh"))
  BY DEF Refresh, Await
<1>2. ASSUME Becomes(p, [To(p, "run", "refreshed") EXCEPT !.ses = cache, !.res = "ok"]), Sends(q)
      PROVE  FALSE
  <2> DEFINE r == [To(p, "run", "refreshed") EXCEPT !.ses = cache, !.res = "ok"]
  <2>1. r.st = "run"
    BY Known DEF To, OpRecs
  <2> HIDE DEF r
  <2>2. Asking(r)
    BY <1>2, Asker DEF r
  <2> QED
    BY <2>1, <2>2 DEF Asking
<1> QED
  BY <1>1, <1>2, NoAsk, FinishSilent

(* A request is sent by who sends it, under the current generation only    *)
(* (execute).                                                              *)
LEMMA SendOwned ==
  ASSUME SessionInv, NEW p \in Ops, NEW q \in Ops, Send(p), Sends(q)
  PROVE  q = p /\ Owns(p)
<1>1. Owns(p)
  BY FinishSilent DEF Send
<1>2. Becomes(p, To(p, "net", op[p].ask))
  BY <1>1 DEF Send, Await
<1> QED
  BY <1>1, <1>2, Asker

(* Of the steps of operations that ask, those that send do so from a place *)
(* where the operation holds a session.                                    *)
LEMMA AskingOwned ==
  ASSUME SessionInv, NEW p \in Ops, NEW q \in Ops, AskStep(p), Sends(q)
  PROVE  q = p /\ Owns(p) /\ op[p].at \in SessionAts /\ op[p].st = "run"
<1>1. op[p].st = "run"
  BY DEF AskStep, Running
<1>2. op[p] \in OpRecs
  BY Known
<1>3. ~Note(p)
  <2> SUFFICES ASSUME Note(p) PROVE FALSE
    OBVIOUS
  <2> DEFINE r == [op[p] EXCEPT !.at = "noted", !.held = login']
  <2>1. op' = [op EXCEPT ![p] = r]
    BY DEF Note, Becomes
  <2>2. r.st = "run"
    BY <1>1, <1>2 DEF OpRecs
  <2> HIDE DEF r
  <2>3. Becomes(p, r)
    BY <2>1 DEF Becomes
  <2> QED
    BY <2>2, <2>3, Asker DEF Asking
<1>4. ~Fresh(p)
  <2> SUFFICES ASSUME Fresh(p) PROVE FALSE
    OBVIOUS
  <2> DEFINE r == [op[p] EXCEPT
                     !.at = "ask",
                     !.ask = IF op[p].kind = "model" /\ device = None THEN "licence" ELSE "main",
                     !.held = IF op[p].kind = "model" THEN op[p].ses ELSE @]
  <2>1. Becomes(p, r)
    BY DEF Fresh
  <2>2. r.st = "run"
    BY <1>1, <1>2 DEF OpRecs
  <2> HIDE DEF r
  <2> QED
    BY <2>1, <2>2, Asker DEF Asking
<1>5. ~Run(p, "fresh")
  BY NoAsk DEF Run
<1>6. ~Finish(p) /\ ~Refresh(p) /\ \A next : ~Clear(p, next)
  BY FinishSilent, RefreshSilent, ClearSilent
<1>7. ~Loaded(p)
  BY <1>5, <1>6 DEF Loaded
<1>8. ~Again(p) /\ ~Remembered(p) /\ ~Ended(p)
  BY <1>6 DEF Again, Remembered, Ended
<1>9. CASE Ask(p)
  BY <1>1, <1>9, SendOwned DEF Ask, SessionAts
<1>10. CASE Refreshed(p)
  <2>1. Send(p) /\ op[p].at = "refreshed"
    <3>1. \/ op[p].kind = "restore" \/ op[p].kind \in Asks
      BY <1>10, <1>6, <1>5 DEF Refreshed, Asks
    <3> QED
      BY <1>10, <1>6, <1>5, <3>1 DEF Refreshed, Asks
  <2> QED
    BY <1>1, <2>1, SendOwned DEF SessionAts
<1> QED
  BY <1>3, <1>4, <1>7, <1>8, <1>9, <1>10 DEF AskStep

(* The steps of login and logout ask for nothing,                          *)
LEMMA AccountSilent ==
  ASSUME SessionInv, NEW p \in Ops, NEW q \in Ops, AccountStep(p), Sends(q)
  PROVE  FALSE
<1>1. \/ LoginCleared(p) \/ LoginSigned(p) \/ LoginRemembered(p) \/ Logout(p)
      \/ LogoutLeft(p) \/ LogoutKept(p) \/ Revoke(p)
  BY DEF AccountStep
<1>2. ~Finish(p) /\ \A next : ~Clear(p, next)
  BY FinishSilent, ClearSilent
<1>3. ~Await(p, "login") /\ ~Await(p, "revoke")
  BY NoAsk DEF Await
<1>4. \A a, at : ~SetLogin(p, a, To(p, "disk", at))
  BY NoAsk DEF SetLogin
<1>5. ~Logout(p)
  <2> SUFFICES ASSUME Logout(p) PROVE FALSE
    OBVIOUS
  <2> DEFINE r == [To(p, "disk", "left") EXCEPT !.gen = gen + 1]
  <2>1. Becomes(p, r)
    BY <1>2 DEF Logout, EndSession
  <2>2. r.st = "disk"
    BY Known DEF To, OpRecs
  <2> HIDE DEF r
  <2> QED
    BY <2>1, <2>2, Asker DEF Asking
<1>6. ~LogoutLeft(p)
  BY <1>2, <1>3, <1>4 DEF LogoutLeft
<1> QED
  BY <1>1, <1>2, <1>3, <1>4, <1>5, <1>6
     DEF LoginCleared, LoginSigned, LoginRemembered, LoginUndone, LogoutKept, Revoke

(* nor does the sender of a flight,                                        *)
LEMMA FlightSilent ==
  ASSUME SessionInv, NEW p \in Ops, NEW q \in Ops, FlightStep(p), Sends(q)
  PROVE  FALSE
<1>1. FlightGoesOn(p)
  BY DEF FlightStep
<1>2. \A next : ~Clear(p, next)
  BY ClearSilent
<1>3. ~Await(p, "relogin")
  BY NoAsk DEF Await
<1>4. \A a, at : ~SetLogin(p, a, To(p, "disk", at))
  BY NoAsk DEF SetLogin
<1>5. ASSUME NEW res, Settle(p, res) PROVE FALSE
  <2>1. CASE q \in Waiters(p)
    <3>1. op'[q] = [To(q, "run", "refreshed") EXCEPT
                      !.res = res, !.ses = IF res = "ok" THEN cache ELSE @]
      BY <1>5, <2>1 DEF Settle
    <3>2. op'[q].st = "run"
      BY <3>1, Known DEF To, OpRecs
    <3> QED
      BY <3>2 DEF Sends
  <2>2. CASE q \notin Waiters(p)
    BY <1>5, <2>2 DEF Settle, Sends
  <2> QED
    BY <2>1, <2>2
<1>6. \A res : ~Settle(p, res)
  BY <1>5
<1> QED
  BY <1>1, <1>2, <1>3, <1>4, <1>6, Zenon DEF FlightGoesOn, Denied

(* nor an answer by itself.                                                *)
LEMMA AnswerSilent ==
  ASSUME SessionInv, NEW p \in Ops, NEW q \in Ops, Answer(p), Sends(q)
  PROVE  FALSE
<1>1. op[p].st = "net" /\ op[p].at \in NetAts
  BY Known DEF Answer, Stage
<1>2. ~Finish(p) /\ \A next : ~Clear(p, next)
  BY FinishSilent, ClearSilent
<1>3. ASSUME NEW res PROVE ~Becomes(p, [To(p, "run", "lost") EXCEPT !.res = res])
  <2> SUFFICES ASSUME Becomes(p, [To(p, "run", "lost") EXCEPT !.res = res]) PROVE FALSE
    OBVIOUS
  <2>1. "run" = "net"
    BY NoAskRes, Zenon
  <2> QED
    BY <2>1
<1>4. \A a, at : ~SetLogin(p, a, To(p, "disk", at))
  BY NoAsk DEF SetLogin
<1>5. \A at : ~Becomes(p, To(p, "disk", at)) /\ ~Becomes(p, To(p, "run", at))
  BY NoAsk
<1>6. ~Becomes(p, To(p, "net", "revoke")) /\ ~Becomes(p, To(p, "net", "disown"))
  BY NoAsk
<1>7. ~RefreshAnswer(p)
  BY <1>3, <1>5 DEF RefreshAnswer, RefreshGranted, RefreshDenied, Rejected, Unreachable,
                       Replace, Run
<1>8. ~ReloginDenied(p)
  BY <1>2 DEF ReloginDenied
<1>9. ~ReloginAnswer(p)
  BY <1>3, <1>5, <1>6, <1>8 DEF ReloginAnswer, ReloginGranted, Unreachable, Replace, Await
<1>10. ~LoginGranted(p)
  BY <1>5, <1>6 DEF LoginGranted, Replace
<1>11. ~Licensed(p)
  <2> SUFFICES ASSUME Licensed(p) PROVE FALSE
    OBVIOUS
  <2> DEFINE r == [To(p, "run", "ask") EXCEPT !.ask = "main", !.ses = op[p].held, !.retried = FALSE]
  <2>1. Becomes(p, r)
    BY <1>2 DEF Licensed
  <2>2. r.st = "run"
    BY Known DEF To, OpRecs
  <2> HIDE DEF r
  <2> QED
    BY <2>1, <2>2, Asker DEF Asking
<1>12. ~Unauthorised(p)
  <2> SUFFICES ASSUME Unauthorised(p) PROVE FALSE
    OBVIOUS
  <2> DEFINE r == [To(p, "run", "again") EXCEPT !.retried = TRUE]
  <2>1. Becomes(p, r)
    BY <1>2, Known DEF Unauthorised, OpRecs
  <2>2. r.st = "run"
    BY Known DEF To, OpRecs
  <2> HIDE DEF r
  <2> QED
    BY <2>1, <2>2, Asker DEF Asking
<1>13. ~Done(p)
  <2> SUFFICES ASSUME Done(p) PROVE FALSE
    OBVIOUS
  <2>1. CASE op[p].kind = "password" /\ op[p].held = op[p].ses.acc
    BY <1>4, <2>1 DEF Done
  <2>2. CASE op[p].kind = "password" /\ op[p].held # op[p].ses.acc
    BY <1>2, <2>2 DEF Done
  <2>3. CASE op[p].kind = "profile"
    BY <1>2, <1>5, <2>3 DEF Done, Replace, Finish
  <2>4. CASE op[p].kind \notin {"password", "profile"}
    BY <1>2, <2>4 DEF Done
  <2> QED
    BY <2>1, <2>2, <2>3, <2>4
<1>14. ~AskAnswer(p)
  BY <1>2, <1>11, <1>12, <1>13 DEF AskAnswer
<1> QED
  BY <1>1, <1>2, <1>7, <1>8, <1>9, <1>10, <1>14 DEF Answer, NetAts, DisownAnswer

(* An operation that was under way when a session ended sends no main or   *)
(* licence request for it or under the next one (execute,                  *)
(* checkResponseSession): it is of an older generation, or is the logout   *)
(* itself, which only revokes its token.                                   *)
THEOREM NothingSentAfterSignOut == Spec => NothingAfterSignOut
<1>1. ASSUME SessionInv, [Next]_vars, NEW q \in cut, Sends(q) PROVE FALSE
  <2>1. q \in Ops
    BY <1>1 DEF SessionInv, Globals
  <2>2. Next
    BY <1>1 DEF vars, Sends
  <2>3. CASE WriteDone
    <3>1. PICK i \in Turn, good \in BOOLEAN :
            Becomes(writes[i].by, [To(writes[i].by, "run", op[writes[i].by].at) EXCEPT
                                     !.res = IF good THEN "ok" ELSE "failed"])
      BY <2>3 DEF WriteDone
    <3>2. writes[i] \in Writes
      BY <1>1 DEF SessionInv, Globals, Turn
    <3>3. writes[i].by \in Ops
      BY <3>2 DEF Writes
    <3>4. PICK p \in Ops : p = writes[i].by
      BY <3>3
    <3> DEFINE r == [To(p, "run", op[p].at) EXCEPT !.res = IF good THEN "ok" ELSE "failed"]
    <3>5. Becomes(p, r)
      BY <3>1, <3>4, Zenon
    <3>6. r.st = "run"
      BY <1>1, Known DEF To, OpRecs
    <3> HIDE DEF r
    <3>7. Asking(r)
      BY <1>1, <2>1, <3>5, Asker, Zenon
    <3> QED
      BY <3>6, <3>7 DEF Asking
  <2>4. ASSUME NEW p \in Ops, ReadDone(p) PROVE FALSE
    <3> DEFINE R(st, s) == [To(p, st, "loaded") EXCEPT !.ses = s]
    <3>1. ASSUME NEW st, NEW s, Becomes(p, R(st, s)) PROVE FALSE
      <4>1. R(st, s).at = "loaded"
        BY <1>1, Known DEF To, OpRecs
      <4> HIDE DEF R
      <4>2. Asking(R(st, s))
        BY <1>1, <2>1, <2>4, <3>1, Asker, Zenon
      <4> QED
        BY <4>1, <4>2 DEF Asking
    <3> HIDE DEF R
    <3>2. ~Becomes(p, To(p, "run", "loaded"))
      BY <1>1, <2>1, <2>4, NoAsk
    <3>3. \/ Becomes(p, R("disk", disk.session))
          \/ Becomes(p, To(p, "run", "loaded"))
          \/ Becomes(p, R("run", IF cache = Unread THEN None ELSE cache))
      BY <2>4, Zenon DEF ReadDone, R, SetLogin, Run
    <3> QED
      BY <3>1, <3>2, <3>3, Zenon
  <2>5. ASSUME NEW p \in Ops, Answer(p) PROVE FALSE
    BY <1>1, <2>1, <2>5, AnswerSilent
  <2>6. ASSUME NEW p \in Ops, Step(p) PROVE FALSE
    <3>1. AskStep(p)
      BY <1>1, <2>1, <2>6, FlightSilent, AccountSilent DEF Step
    <3>2. q = p /\ Owns(p) /\ op[p].at \in SessionAts /\ op[p].st = "run"
      BY <1>1, <2>1, <3>1, AskingOwned
    <3>3. Current(op[p], p) /\ Stage(op[p])
      BY <1>1, <3>2, Known DEF Alive
    <3> QED
      BY <1>1, <3>2, <3>3, Places DEF Current, Stage
  <2>7. CASE Restart
    <3>1. op'[q] = op[q] \/ op'[q] = [New EXCEPT !.st = "done"]
      BY <2>1, <2>7 DEF Restart
    <3> QED
      BY <1>1, <3>1 DEF Sends, New
  <2>8. ASSUME NEW p \in Ops, Start(p) PROVE FALSE
    <3>1. PICK r : Becomes(p, r) /\ r.st \in {"disk", "read", "run"}
      <4>1. CASE Login(p)
        <5> DEFINE S(l) == [New EXCEPT !.kind = "login", !.st = "disk", !.at = "cleared",
                                       !.gen = gen + 1, !.held = [acc |-> l[1], rem |-> l[2]]]
        <5>1. PICK l \in Logins : Becomes(p, S(l))
          BY <4>1 DEF Login, EndSession
        <5>2. S(l).st = "disk"
          BY DEF New
        <5> HIDE DEF S
        <5> QED
          BY <5>1, <5>2
      <4>2. ASSUME NEW k, Begin(p, k) PROVE \E r : Becomes(p, r) /\ r.st \in {"disk", "read", "run"}
        <5> DEFINE B == [New EXCEPT !.kind = k, !.gen = gen, !.at = "loaded",
                                    !.st = IF cache = Unread THEN "read" ELSE "run",
                                    !.ses = IF cache = Unread THEN None ELSE cache]
        <5>1. Becomes(p, B)
          BY <4>2 DEF Begin
        <5>2. B.st \in {"read", "run"}
          BY DEF New
        <5> HIDE DEF B
        <5> QED
          BY <5>1, <5>2
      <4> QED
        BY <2>8, <4>1, <4>2, Zenon DEF Start
    <3>2. Asking(r)
      BY <1>1, <2>1, <2>8, <3>1, Asker, Zenon
    <3> QED
      BY <3>1, <3>2 DEF Asking
  <2> QED
    BY <2>2, <2>3, <2>4, <2>5, <2>6, <2>7, <2>8 DEF Next, Progress
<1>2. SessionInv /\ [Next]_vars => [\A p \in cut : ~Sends(p)]_vars
  BY <1>1
<1> QED
  BY <1>2, SessionInvariant, PTL DEF Spec, NothingAfterSignOut
=============================================================================
