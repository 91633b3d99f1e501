---------------------------- MODULE AccountSession ----------------------------
(***************************************************************************)
(* The account session of the desktop process (commercial-api-transport.ts *)
(* and the session operations of commercial-api-client.ts): one session in *)
(* memory, a copy of it and a remembered login on disk, and operations     *)
(* that overlap at every await.                                            *)
(*                                                                         *)
(* Node runs one callback at a time and every promise it settles before    *)
(* the next, so an operation either waits (for the disk, the network or    *)
(* another operation's refresh) or runs, and nothing outside happens while *)
(* one runs.  The gateway answers as it likes; an answer that never comes  *)
(* is a timeout.  Passwords and profiles are not data here, and the disk   *)
(* holds the sessions of one gateway.                                      *)
(***************************************************************************)
EXTENDS Naturals, Sequences, SequencesExt, FiniteSets, Functions

CONSTANTS Ops,           \* the operations a renderer or a task starts
          Kinds,         \* Kinds[p]: what operation p may be
          Accounts,      \* the accounts of the gateway
          Logins,        \* the <<account, remember>> pairs users sign in with
          None,          \* no session, no login, no device, no flight
          Unread,        \* a cache nothing was loaded into yet
          Starts,        \* the accounts that may be signed in on disk, or None
          MaxTokens,     \* bound on the access tokens issued
          MaxTroubles    \* bound on restarts and failed writes together

(* A session: its token, its account, and whether the user asked to be     *)
(* remembered (rememberMe and rememberedLogin are set together).           *)
Sessions == [tok : 1..MaxTokens, acc : Accounts, rem : BOOLEAN]

OpKinds == {"login", "logout", "restore", "profile", "model", "password"}

ASSUME SessionAssumption ==
  /\ Kinds \in [Ops -> SUBSET OpKinds]
  /\ Logins \subseteq Accounts \X BOOLEAN
  /\ Starts \subseteq Accounts \cup {None}
  /\ MaxTokens \in Nat \ {0} /\ MaxTroubles \in Nat
  /\ None # Unread
  /\ {None, Unread} \cap (Accounts \cup Sessions) = {} /\ None \notin OpKinds
  /\ None \notin [gen : Nat, by : Ops]

VARIABLES gen,       \* sessionGeneration
          cache,     \* sessionCache
          login,     \* rememberedLoginCache: whose, None or Unread
          device,    \* activeDeviceId: whose device, or None
          flight,    \* refreshInFlight: [gen, by] or None
          writes,    \* the chain of persistenceInFlight
          disk,      \* disk.session, disk.login: the two files
          stale,     \* the files whose last write failed
          op,        \* op[p]: where operation p is
          tokens,    \* access tokens issued so far
          restarts, diskFaults,
          cut,       \* history: operations under way when a session ended
          out        \* history: tokens of sessions signed out on disk too

vars == <<gen, cache, login, device, flight, writes, disk, stale, op, tokens,
          restarts, diskFaults, cut, out>>

(* The session of a token issued now.                                      *)
Session(acc, rem) == [tok |-> tokens + 1, acc |-> acc, rem |-> rem]

New == [kind |-> None, st |-> "new", at |-> "start", gen |-> 0, ses |-> None,
        held |-> None, ask |-> "main", retried |-> FALSE, res |-> "ok"]

Init ==
  /\ gen = 0
  /\ cache = Unread
  /\ login = Unread
  /\ device = None
  /\ flight = None
  /\ writes = <<>>
  /\ \E a \in Starts :
       /\ disk = [session |-> IF a = None THEN None ELSE [tok |-> 1, acc |-> a, rem |-> TRUE],
                  login |-> a]
       /\ tokens = IF a = None THEN 0 ELSE 1
  /\ stale = {}
  /\ op = [p \in Ops |-> New]
  /\ restarts = 0
  /\ diskFaults = 0
  /\ cut = {}
  /\ out = {}

Running(p) == op[p].st = "run"
Quiet == \A p \in Ops : ~Running(p)
Active(p) == op[p].st \notin {"new", "done"}
SignedIn == cache \in Sessions

To(p, st, at) == [op[p] EXCEPT !.st = st, !.at = at]
Becomes(p, r) == op' = [op EXCEPT ![p] = r]
Run(p, at) == Becomes(p, To(p, "run", at))
Await(p, at) == Becomes(p, To(p, "net", at))
Finish(p) == Becomes(p, To(p, "done", "end"))

noSession == <<gen, cache, login, device, flight, tokens, cut>>
noDisk == <<writes, disk, stale, diskFaults, out>>
noHistory == <<restarts, cut, out>>

----------------------------------------------------------------------------
(* persist: writes run one after the other, in the order they were asked   *)
(* for.  drops are the tokens the write signs out.                         *)
Write(p, file, val, drops) == [by |-> p, file |-> file, val |-> val, drops |-> drops]

(* saveRememberedLogin, clearRememberedLogin, once the generation holds.   *)
SetLogin(p, a, r) ==
  /\ login' = a
  /\ writes' = Append(writes, Write(p, "login", a, {}))
  /\ Becomes(p, r)

Kept(s) == IF s = None \/ ~s.rem THEN None ELSE s

(* Mutant: an operation may act on a session it was not started under.     *)
OwnsAlways(p) == TRUE

(* assertSessionGeneration.                                                *)
Owns(p) == op[p].gen = gen

(* replaceSession: memory now, disk when its turn comes.                   *)
Replace(p, s, r, otherwise) ==
  IF Owns(p)
  THEN /\ cache' = s
       /\ writes' = Append(writes, Write(p, "session", Kept(s), {}))
       /\ Becomes(p, r)
  ELSE Becomes(p, otherwise) /\ UNCHANGED <<cache, writes>>

(* Mutant: the device outlives the session.                                *)
DeviceKept == device

(* Mutant: the device is unset, which is not the same as none.             *)
DeviceUnset == Unread

DeviceAfterEnd == None

(* clearSession, when the generation is the caller's.                      *)
EndSession(p, r) ==
  /\ gen' = gen + 1
  /\ cache' = None
  /\ device' = DeviceAfterEnd
  /\ flight' = None
  /\ writes' = Append(writes, Write(p, "session", None, IF SignedIn THEN {cache.tok} ELSE {}))
  /\ cut' = cut \cup {q \in Ops : Active(q)}
  /\ Becomes(p, r)

(* clearSession(generation): a no-op for a caller of an older generation.  *)
Clear(p, next) ==
  IF op[p].gen = gen
  THEN EndSession(p, To(p, "disk", next))
  ELSE Run(p, next) /\ UNCHANGED <<gen, cache, device, flight, writes, cut>>

----------------------------------------------------------------------------
(* The start of an operation, up to its first await.                       *)

(* login, and loginRemembered when the account is the remembered one.      *)
Login(p) ==
  /\ "login" \in Kinds[p]
  /\ \E l \in Logins :
       EndSession(p, [New EXCEPT !.kind = "login", !.st = "disk", !.at = "cleared",
                                 !.gen = gen + 1, !.held = [acc |-> l[1], rem |-> l[2]]])
  /\ UNCHANGED login

(* Every other one begins with loadSession.                                *)
Begin(p, k) ==
  /\ k \in Kinds[p] \ {"login"}
  /\ Becomes(p, [New EXCEPT !.kind = k, !.gen = gen, !.at = "loaded",
                            !.st = IF cache = Unread THEN "read" ELSE "run",
                            !.ses = IF cache = Unread THEN None ELSE cache])
  /\ UNCHANGED <<gen, cache, login, device, flight, writes, cut>>

Start(p) ==
  /\ Quiet
  /\ op[p].st = "new"
  /\ Login(p) \/ \E k \in Kinds[p] : Begin(p, k)
  /\ UNCHANGED <<tokens, disk, stale, diskFaults, restarts, out>>

(* Mutant: a load that lost the race fills the cache all the same.         *)
LoadWinsSameLogin(p) == op[p].gen = gen

(* The cache is filled by the first load, unless it was set meanwhile.     *)
LoadWins(p) == op[p].gen = gen /\ cache = Unread

(* loadSession, once the file has been read.                               *)
ReadDone(p) ==
  /\ Quiet
  /\ op[p].st = "read"
  /\ IF LoadWins(p)
     THEN /\ cache' = disk.session
          /\ IF disk.session # None
             THEN SetLogin(p, disk.session.acc,
                           [To(p, "disk", "loaded") EXCEPT !.ses = disk.session])
             ELSE Run(p, "loaded") /\ UNCHANGED <<login, writes>>
     ELSE /\ Becomes(p, [To(p, "run", "loaded") EXCEPT !.ses = IF cache = Unread THEN None ELSE cache])
          /\ UNCHANGED <<cache, login, writes>>
  /\ UNCHANGED <<gen, device, flight, tokens, disk, stale, diskFaults, restarts, cut, out>>

----------------------------------------------------------------------------
(* refreshSession and reauthenticate.                                      *)

(* Mutant: a second refresh of the same token is sent.                     *)
JoinsNever(p) == FALSE

(* Mutant: the refresh of an older session is joined.                      *)
Joins(p) == flight # None /\ flight.gen = op[p].gen

(* Called with the session in hand: take the one that replaced it, join    *)
(* the refresh under way, or send one.                                     *)
Refresh(p) ==
  /\ IF ~Owns(p) \/ ~SignedIn
     THEN Finish(p) /\ UNCHANGED flight
     ELSE IF cache.tok # op[p].ses.tok
     THEN /\ Becomes(p, [To(p, "run", "refreshed") EXCEPT !.ses = cache, !.res = "ok"])
          /\ UNCHANGED flight
     ELSE IF Joins(p)
     THEN Becomes(p, To(p, "join", "refresh")) /\ UNCHANGED flight
     ELSE /\ flight' = [gen |-> gen, by |-> p]
          /\ Await(p, "refresh")
  /\ UNCHANGED <<gen, cache, login, device, writes, tokens, disk, stale, diskFaults,
                 restarts, cut, out>>

(* Mutant: a refresh that was disowned settles nobody else.                *)
WaitersOfOwnFlight(p) ==
  {q \in Ops : q = p \/ (/\ op[q].st = "join" /\ op[q].gen = op[p].gen
                         /\ flight # None /\ flight.by = p)}

Waiters(p) == {q \in Ops : q = p \/ (op[q].st = "join" /\ op[q].gen = op[p].gen)}

(* The promise of the flight settles: for its sender, who forgets the      *)
(* flight if it is still the current one, and for those who joined it.     *)
Settle(p, res) ==
  /\ op' = [q \in Ops |->
              IF q \in Waiters(p)
              THEN [To(q, "run", "refreshed") EXCEPT
                      !.res = res, !.ses = IF res = "ok" THEN cache ELSE @]
              ELSE op[q]]
  /\ flight' = IF flight # None /\ flight.by = p THEN None ELSE flight

(* A new token for the same account; it is stored, or the generation has   *)
(* changed and it is dropped.                                              *)
RefreshGranted(p) ==
  /\ tokens < MaxTokens
  /\ tokens' = tokens + 1
  /\ Replace(p, Session(op[p].ses.acc, op[p].ses.rem), To(p, "disk", "stored"),
             [To(p, "run", "lost") EXCEPT !.res = "changed"])
  /\ UNCHANGED <<gen, login, device, flight, cut>>

(* Neither the token nor the network helps: another try needs the login.   *)
RefreshDenied(p) ==
  /\ IF ~Owns(p)
     THEN Becomes(p, [To(p, "run", "lost") EXCEPT !.res = "changed"]) /\ UNCHANGED login
     ELSE IF login = Unread
     THEN login' = disk.login /\ Run(p, "denied")
     ELSE Run(p, "denied") /\ UNCHANGED login
  /\ UNCHANGED <<gen, cache, device, flight, writes, tokens, cut>>

Whose(p) == IF Owns(p) THEN "io" ELSE "changed"

Unreachable(p) ==
  /\ Becomes(p, [To(p, "run", "lost") EXCEPT !.res = Whose(p)])
  /\ UNCHANGED <<gen, cache, login, device, flight, writes, tokens, cut>>

(* The gateway rejects the exchange itself (400, 422): no login is tried,  *)
(* and a restore takes it for the end of the session.                      *)
Rejected(p) ==
  /\ Becomes(p, [To(p, "run", "lost") EXCEPT !.res = IF Owns(p) THEN "auth" ELSE "changed"])
  /\ UNCHANGED <<gen, cache, login, device, flight, writes, tokens, cut>>

RefreshAnswer(p) ==
  RefreshGranted(p) \/ RefreshDenied(p) \/ Rejected(p) \/ Unreachable(p)

Denied(p) ==
  IF op[p].ses.rem \/ login = op[p].ses.acc
  THEN Await(p, "relogin") /\ UNCHANGED <<gen, cache, device, flight, writes, cut>>
  ELSE Clear(p, "refused")

(* Mutant: whoever the gateway signs in is taken.                          *)
SameUserAlways(p, a) == TRUE

SameUser(p, a) == a = op[p].ses.acc

(* reauthenticate: the login may by now belong to another user.            *)
ReloginGranted(p) ==
  /\ tokens < MaxTokens
  /\ tokens' = tokens + 1
  /\ \E a \in Accounts :
       IF SameUser(p, a)
       THEN Replace(p, Session(a, TRUE), To(p, "disk", "restored"),
                    [To(p, "run", "lost") EXCEPT !.res = "changed"])
       ELSE Await(p, "disown") /\ UNCHANGED <<cache, writes>>
  /\ UNCHANGED <<gen, login, device, flight, cut>>

ReloginDenied(p) ==
  Clear(p, "refused") /\ UNCHANGED <<login, tokens>>

ReloginAnswer(p) == ReloginGranted(p) \/ ReloginDenied(p) \/ Unreachable(p)

(* The token of the wrong user is revoked, whether or not that works.      *)
DisownAnswer(p) == ReloginDenied(p)

(* How the flight's sender goes on when a write of its own is done.        *)
FlightGoesOn(p) ==
  CASE op[p].at = "denied" -> Denied(p) /\ UNCHANGED login
    [] op[p].at = "restored" /\ op[p].res = "ok" /\ Owns(p) ->
         SetLogin(p, op[p].ses.acc, To(p, "disk", "stored")) /\ UNCHANGED <<gen, cache, device, flight, cut>>
    [] OTHER ->
         /\ Settle(p, IF op[p].at = "lost" THEN op[p].res
                      ELSE IF op[p].res = "failed" THEN Whose(p)
                      ELSE IF op[p].at = "refused" THEN "auth"
                      ELSE IF Owns(p) THEN "ok" ELSE "changed")
         /\ UNCHANGED <<gen, cache, login, device, writes, cut>>

FlightStep(p) ==
  /\ Running(p)
  /\ op[p].at \in {"denied", "restored", "stored", "refused", "lost"}
  /\ FlightGoesOn(p)
  /\ UNCHANGED <<tokens, disk, stale, diskFaults, restarts, out>>

----------------------------------------------------------------------------
(* login and logout.                                                       *)

(* The file holds no session: the credentials may be sent.                 *)
LoginCleared(p) ==
  /\ IF op[p].res = "ok" /\ Owns(p) THEN Await(p, "login") ELSE Finish(p)
  /\ UNCHANGED <<noSession, writes>>

(* The gateway signs the user in, for a session or, too late, for nobody.  *)
LoginGranted(p) ==
  /\ tokens < MaxTokens
  /\ tokens' = tokens + 1
  /\ Replace(p, Session(op[p].held.acc, op[p].held.rem), To(p, "disk", "signed"), To(p, "net", "revoke"))
  /\ UNCHANGED <<gen, login, device, flight, cut>>

(* A failure from here on signs out again and revokes the token.           *)
LoginUndone(p) ==
  Clear(p, "revoke") /\ UNCHANGED <<login, tokens>>

LoginSigned(p) ==
  IF op[p].res = "ok" /\ Owns(p)
  THEN /\ SetLogin(p, IF op[p].held.rem THEN op[p].held.acc ELSE None, To(p, "disk", "remembered"))
       /\ UNCHANGED <<gen, cache, device, flight, tokens, cut>>
  ELSE LoginUndone(p)

LoginRemembered(p) ==
  IF op[p].res = "ok" /\ Owns(p)
  THEN Finish(p) /\ UNCHANGED <<noSession, writes>>
  ELSE LoginUndone(p)

(* logout: memory and file first; the remembered login outlives it.  A     *)
(* load that could not note its login fails the whole logout.              *)
Logout(p) ==
  /\ IF op[p].res = "ok" /\ Owns(p)
     THEN EndSession(p, [To(p, "disk", "left") EXCEPT !.gen = gen + 1])
     ELSE Finish(p) /\ UNCHANGED <<gen, cache, device, flight, writes, cut>>
  /\ UNCHANGED <<login, tokens>>

LogoutLeft(p) ==
  CASE op[p].res # "ok" -> Finish(p) /\ UNCHANGED <<noSession, writes>>
    [] op[p].res = "ok" /\ op[p].ses # None /\ op[p].ses.rem /\ Owns(p) ->
         /\ SetLogin(p, op[p].ses.acc, To(p, "disk", "kept"))
         /\ UNCHANGED <<gen, cache, device, flight, tokens, cut>>
    [] OTHER ->
         /\ IF op[p].ses = None THEN Finish(p) ELSE Await(p, "revoke")
         /\ UNCHANGED <<noSession, writes>>

(* The write has to succeed, and nobody may have signed in meanwhile.      *)
LogoutKept(p) ==
  /\ IF op[p].res = "ok" /\ Owns(p) THEN Await(p, "revoke") ELSE Finish(p)
  /\ UNCHANGED <<noSession, writes>>

Revoke(p) == Await(p, "revoke") /\ UNCHANGED <<noSession, writes>>

AccountStep(p) ==
  /\ Running(p)
  /\ CASE op[p].at = "cleared" -> LoginCleared(p)
       [] op[p].at = "signed" -> LoginSigned(p)
       [] op[p].at = "remembered" -> LoginRemembered(p)
       [] op[p].at = "loaded" /\ op[p].kind = "logout" -> Logout(p)
       [] op[p].at = "left" -> LogoutLeft(p)
       [] op[p].at = "kept" -> LogoutKept(p)
       [] op[p].at = "revoke" -> Revoke(p)
       [] OTHER -> FALSE
  /\ UNCHANGED <<disk, stale, diskFaults, restarts, out>>

----------------------------------------------------------------------------
(* restoreSession, authenticatedResponse, modelRequest, currentProfile and *)
(* changePassword.                                                         *)
Asks == {"profile", "model", "password"}

(* changePassword notes whose login is remembered before it asks.          *)
Note(p) ==
  /\ op[p].at = "loaded" /\ op[p].kind = "password"
  /\ login' = IF login = Unread THEN disk.login ELSE login
  /\ Becomes(p, [op[p] EXCEPT !.at = "noted", !.held = login'])
  /\ UNCHANGED <<gen, cache, device, flight, tokens, cut, noDisk, restarts>>

(* The session is loaded.  One that is about to expire is refreshed.       *)
Loaded(p) ==
  /\ op[p].at = IF op[p].kind = "password" THEN "noted" ELSE "loaded"
  /\ op[p].kind # "logout"
  /\ IF ~Owns(p) \/ op[p].ses = None \/ op[p].res # "ok"
     THEN Finish(p) /\ UNCHANGED <<noSession, noDisk, restarts>>
     ELSE \/ Refresh(p)
          \/ /\ IF op[p].kind = "restore" THEN Finish(p) ELSE Run(p, "fresh")
             /\ UNCHANGED <<noSession, noDisk, restarts>>

Send(p) ==
  /\ IF Owns(p) THEN Await(p, op[p].ask) ELSE Finish(p)
  /\ UNCHANGED <<noSession, noDisk, restarts>>

(* A model request asks for the licence of its device when it has none.    *)
Fresh(p) ==
  /\ op[p].at = "fresh"
  /\ Becomes(p, [op[p] EXCEPT
       !.at = "ask",
       !.ask = IF op[p].kind = "model" /\ device = None THEN "licence" ELSE "main",
       !.held = IF op[p].kind = "model" THEN op[p].ses ELSE @])
  /\ UNCHANGED <<noSession, noDisk, restarts>>

Ask(p) == op[p].at = "ask" /\ Send(p)

(* The first 401 refreshes the session and asks again.                     *)
Again(p) == op[p].at = "again" /\ Refresh(p)

(* The refresh ended; a restore that was refused signs out.                *)
Refreshed(p) ==
  /\ op[p].at = "refreshed"
  /\ CASE op[p].kind = "restore" /\ op[p].res = "auth" ->
             Clear(p, "end") /\ UNCHANGED <<login, tokens, disk, stale, diskFaults, restarts, out>>
       [] op[p].kind = "restore" /\ op[p].res # "auth" ->
             Finish(p) /\ UNCHANGED <<noSession, noDisk, restarts>>
       [] op[p].kind \in Asks /\ op[p].res # "ok" ->
             Finish(p) /\ UNCHANGED <<noSession, noDisk, restarts>>
       [] op[p].kind \in Asks /\ op[p].res = "ok" ->
             IF op[p].retried THEN Send(p)
             ELSE Run(p, "fresh") /\ UNCHANGED <<noSession, noDisk, restarts>>
       [] OTHER -> FALSE

(* The password changed: so does the one remembered for this user, and the *)
(* session ends.                                                           *)
Remembered(p) ==
  /\ op[p].at = "passworded"
  /\ IF op[p].res = "ok" /\ Owns(p) THEN Clear(p, "end")
     ELSE Finish(p) /\ UNCHANGED <<gen, cache, device, flight, writes, cut>>
  /\ UNCHANGED <<login, tokens, disk, stale, diskFaults, restarts, out>>

Ended(p) ==
  /\ op[p].at = "end"
  /\ Finish(p)
  /\ UNCHANGED <<noSession, noDisk, restarts>>

AskStep(p) ==
  /\ Running(p)
  /\ Note(p) \/ Loaded(p) \/ Fresh(p) \/ Ask(p) \/ Again(p) \/ Refreshed(p) \/ Remembered(p) \/ Ended(p)

(* The gateway did what was asked.                                         *)
Done(p) ==
  CASE op[p].kind = "password" /\ op[p].held = op[p].ses.acc ->
         SetLogin(p, op[p].ses.acc, To(p, "disk", "passworded")) /\ UNCHANGED <<gen, cache, device, flight, cut>>
    [] op[p].kind = "password" /\ op[p].held # op[p].ses.acc ->
         Clear(p, "end") /\ UNCHANGED login
    [] op[p].kind = "profile" ->
         Replace(p, cache, To(p, "disk", "end"), To(p, "done", "end")) /\ UNCHANGED <<gen, login, device, flight, cut>>
    [] OTHER ->
         Finish(p) /\ UNCHANGED <<gen, cache, login, device, flight, writes, cut>>

Licensed(p) ==
  /\ device' \in {op[p].ses.acc, None}
  /\ IF device' = None THEN Finish(p)
     ELSE Becomes(p, [To(p, "run", "ask") EXCEPT !.ask = "main", !.ses = op[p].held,
                                                !.retried = FALSE])
  /\ UNCHANGED <<gen, cache, login, flight, writes, cut>>

(* A second 401 signs out, unless the session was replaced meanwhile.      *)
Unauthorised(p) ==
  CASE ~op[p].retried ->
         Becomes(p, [To(p, "run", "again") EXCEPT !.retried = TRUE])
           /\ UNCHANGED <<gen, cache, device, flight, writes, cut>>
    [] op[p].retried /\ SignedIn /\ cache.tok = op[p].ses.tok -> Clear(p, "end")
    [] OTHER -> Finish(p) /\ UNCHANGED <<gen, cache, device, flight, writes, cut>>

(* An answer to another login's request is thrown away.                    *)
AskAnswer(p) ==
  /\ UNCHANGED tokens
  /\ IF ~Owns(p)
     THEN Finish(p) /\ UNCHANGED <<gen, cache, login, device, flight, writes, cut>>
     ELSE \/ IF op[p].ask = "licence" THEN Licensed(p) ELSE Done(p)
          \/ Unauthorised(p) /\ UNCHANGED login
          \/ Finish(p) /\ UNCHANGED <<gen, cache, login, device, flight, writes, cut>>

----------------------------------------------------------------------------
(* What the outside does: answers, writes, and the end of the process.     *)

Answer(p) ==
  /\ Quiet
  /\ op[p].st = "net"
  /\ CASE op[p].at = "refresh" -> RefreshAnswer(p)
       [] op[p].at = "relogin" -> ReloginAnswer(p)
       [] op[p].at = "disown" -> DisownAnswer(p)
       [] op[p].at = "login" ->
            LoginGranted(p) \/ (Finish(p) /\ UNCHANGED <<noSession, writes>>)
       [] op[p].at \in {"main", "licence"} -> AskAnswer(p)
       [] op[p].at = "revoke" -> Finish(p) /\ UNCHANGED <<noSession, writes>>
  /\ UNCHANGED <<disk, stale, diskFaults, restarts, out>>

(* Mutant: each write starts at once.                                      *)
AnyWrite == DOMAIN writes

Turn == DOMAIN writes \cap {1}

(* A write succeeds or fails; the operation that waits for it goes on.     *)
WriteDone ==
  /\ Quiet
  /\ \E i \in Turn, good \in BOOLEAN :
       LET w == writes[i] IN
       /\ good \/ diskFaults + restarts < MaxTroubles
       /\ diskFaults' = IF good THEN diskFaults ELSE diskFaults + 1
       /\ disk' = IF good THEN [disk EXCEPT ![w.file] = w.val] ELSE disk
       /\ stale' = IF good THEN stale \ {w.file} ELSE stale \cup {w.file}
       /\ out' = IF good THEN out \cup w.drops ELSE out
       /\ writes' = RemoveAt(writes, i)
       /\ Becomes(w.by, [To(w.by, "run", op[w.by].at) EXCEPT
                           !.res = IF good THEN "ok" ELSE "failed"])
  /\ UNCHANGED <<gen, cache, login, device, flight, tokens, restarts, cut>>

(* The process ends, maybe in the middle of a write, and starts again.     *)
Restart ==
  /\ diskFaults + restarts < MaxTroubles
  /\ restarts' = restarts + 1
  /\ \/ UNCHANGED disk
     \/ writes # <<>> /\ disk' = [disk EXCEPT ![writes[1].file] = writes[1].val]
  /\ gen' = 0
  /\ cache' = Unread
  /\ login' = Unread
  /\ device' = None
  /\ flight' = None
  /\ writes' = <<>>
  /\ stale' = {}
  /\ op' = [p \in Ops |-> IF op[p].st = "new" THEN op[p] ELSE [New EXCEPT !.st = "done"]]
  /\ UNCHANGED <<tokens, diskFaults, cut, out>>

Step(p) == FlightStep(p) \/ AccountStep(p) \/ AskStep(p)
Progress == WriteDone \/ \E p \in Ops : ReadDone(p) \/ Answer(p) \/ Step(p)
Next == Progress \/ Restart \/ \E p \in Ops : Start(p)

Spec == Init /\ [][Next]_vars

(* Every call to the gateway has a timeout, every read and write ends and  *)
(* what can run runs; nobody has to start an operation.                    *)
FairSpec == Spec /\ WF_vars(Progress)

----------------------------------------------------------------------------
SessionTypeOK ==
  /\ gen \in Nat
  /\ cache \in Sessions \cup {None, Unread}
  /\ login \in Accounts \cup {None, Unread}
  /\ device \in Accounts \cup {None}
  /\ flight \in [gen : Nat, by : Ops] \cup {None}
  /\ disk \in [session : Sessions \cup {None}, login : Accounts \cup {None}]
  /\ tokens \in 0..MaxTokens
  /\ cut \subseteq Ops
  /\ out \subseteq 1..MaxTokens
  /\ \A p \in Ops : op[p].st \in {"new", "run", "read", "disk", "net", "join", "done"}

(* Nothing changes the session of an account but the account's own refresh *)
(* and a login: a session in memory is replaced by a newer token of the    *)
(* same account, or ended; after it ended only a login brings one back     *)
(* (replaceSession, reauthenticate, loadSession).                          *)
AccountHolds ==
  [][restarts' = restarts /\ cache' # cache =>
       \/ cache' = None
       \/ cache = Unread
       \/ SignedIn /\ cache'.acc = cache.acc /\ cache'.tok > cache.tok
       \/ cache = None /\ \E p \in Ops : op[p].at = "login" /\ op'[p].at = "signed"]_vars

(* Once a session has ended, an operation that was under way then sends no *)
(* further request on an account's behalf, main or licence, whoever is     *)
(* signed in by now, the same user included (execute,                      *)
(* checkResponseSession).  What it may still send is the revocation of a   *)
(* token of its own.                                                       *)
Sends(p) == op[p].st # "net" /\ op'[p].st = "net" /\ op'[p].at \in {"main", "licence"}

NothingAfterSignOut == [][\A p \in cut : ~Sends(p)]_vars

(* One token is exchanged by one operation at a time, and no other token   *)
(* takes its place meanwhile: the gateway never sees a token again that it *)
(* has already exchanged for the session in use (refreshInFlight).         *)
Exchanging == {p \in Ops : op[p].st = "net" /\ op[p].at \in {"refresh", "relogin"} /\ Owns(p)}

OneExchange ==
  /\ Cardinality(Exchanging) <= 1
  /\ \A p \in Exchanging : SignedIn /\ cache.tok = op[p].ses.tok

(* The device a model request names is one of the account signed in        *)
(* (loadCurrentLicense, clearSession).                                     *)
DeviceOfAccount == device # None => SignedIn /\ cache.acc = device

(* When no write is pending and the last one of a file succeeded, the file *)
(* says what memory says (persist): a restart finds the session and the    *)
(* remembered login the user left.                                         *)
DiskFollows ==
  writes = <<>> =>
    /\ "session" \in stale \/ cache = Unread \/ disk.session = Kept(cache)
    /\ "login" \in stale \/ login = Unread \/ disk.login = login

(* A session that was signed out, on disk too, never comes back, not even  *)
(* after a restart (logout against a refresh that is being written).       *)
SignedOutForGood ==
  \A s \in {cache, disk.session} \ {None, Unread} : s.tok \notin out

(* Every operation ends: no refresh that was joined is forgotten.          *)
OperationsEnd == <>[](\A p \in Ops : ~Active(p))
=============================================================================
