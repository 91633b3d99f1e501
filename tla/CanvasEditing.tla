---------------------------- MODULE CanvasEditing ----------------------------
(***************************************************************************)
(* One canvas of a project: an editor (the renderer's save, draft,         *)
(* hydration, conflict and unload controllers of creative_canvas) and the  *)
(* document the sidecar keeps (canvas_store.py), which others write too.   *)
(*                                                                         *)
(* A document is the set of edits made to it; nodes, edges and metadata    *)
(* are not told apart, so nothing here empties or restores a canvas.  A    *)
(* request may be lost, served after the editor gave it up, or sent again  *)
(* with its client_save_id; the window may be left, closed or killed and   *)
(* opened again, and browser storage survives it.  Variables that hold a   *)
(* thing or nothing are sets of at most one member.                        *)
(***************************************************************************)
EXTENDS Naturals

CONSTANTS Mine,          \* edits of this editor
          Others,        \* edits of other windows, users and the sidecar's own writes
          MaxTries,      \* sends of one save: the HTTP client's retries and the lock retry
          MaxFaults,     \* bound on losses, failed loads and crashes of the sidecar
          MaxOpenings    \* bound on how often the canvas is opened

ASSUME CanvasAssumption ==
  /\ Mine \cap Others = {}
  /\ {MaxTries, MaxOpenings} \subseteq Nat \ {0} /\ MaxFaults \in Nat

VARIABLES file,      \* the sidecar's document: rev, doc
          entries,   \* its idempotency entries: <<client_save_id, revision>>
          copied,    \* edits that went into conflict copies
          draft,     \* localStorage: the recovery draft, [rev, doc]
          snap,      \* localStorage: the conflict snapshot, a document
          status,    \* the canvas's status, or "closed"
          hydrated,  \* hydratedRef
          doc,       \* the document on screen
          rev,       \* revisionRef, 0 for null
          saved,     \* lastPersistedSignature: the document the editor knows saved
          draftDue,  \* the draft debounce runs
          timer,     \* the save debounce: idle, due, or fired (and never nulled)
          wanted,    \* the save session's pendingVersion is set
          req,       \* the save under way: [id, try, rev, doc]
          answer,    \* its answer: [ok, rev]
          net,       \* requests on their way to the sidecar
          load,      \* what the load under way has read, [rev, doc]
          copying,   \* the snapshot a copy is being made of
          ids, faults, openings

browser == <<draft, snap>>
page == <<status, hydrated, doc, rev, saved, draftDue, load>>
session == <<timer, wanted, req, answer>>
counts == <<ids, faults, openings>>
vars == <<file, entries, copied, browser, page, session, net, copying, counts>>

Unsavable == {"conflict", "error"}

Init ==
  /\ file = [rev |-> 1, doc |-> {}] /\ entries = {} /\ copied = {}
  /\ draft = {} /\ snap = {}
  /\ status = "closed" /\ hydrated = FALSE /\ doc = {} /\ rev = 0 /\ saved = {}
  /\ draftDue = FALSE /\ load = {}
  /\ timer = "idle" /\ wanted = FALSE /\ req = {} /\ answer = {}
  /\ net = {} /\ copying = {}
  /\ ids = 0 /\ faults = 0 /\ openings = 0

Fault == faults < MaxFaults /\ faults' = faults + 1 /\ UNCHANGED <<ids, openings>>

(* Where an edit can be found again without the page.                      *)
Stored == file.doc \cup copied \cup (UNION {d.doc : d \in draft}) \cup (UNION snap)

-----------------------------------------------------------------------------
(* Editing: every change of the document restarts the draft debounce, and  *)
(* the save debounce unless the canvas waits for the user.                 *)

Edit(e) ==
  /\ hydrated /\ e \notin doc \cup Stored \cup UNION {m.doc : m \in net}
  /\ doc' = doc \cup {e} /\ draftDue' = TRUE
  /\ timer' = IF status \in Unsavable THEN timer ELSE "due"
  /\ UNCHANGED <<file, entries, copied, browser, status, hydrated, rev, saved, load,
                 wanted, req, answer, net, copying, counts>>

WrittenDraft == IF hydrated THEN {[rev |-> rev, doc |-> doc]} ELSE draft

DraftTimer ==
  /\ draftDue /\ draftDue' = FALSE
  /\ draft' = WrittenDraft
  /\ UNCHANGED <<file, entries, copied, snap, status, hydrated, doc, rev, saved, load,
                 session, net, copying, counts>>

(* Mutant: a save asked for while one is under way is taken for that one.  *)
SaveTimerJoins ==
  /\ timer = "due" /\ timer' = "fired" /\ wanted' = (wanted \/ req = {})
  /\ UNCHANGED <<file, entries, copied, browser, page, req, answer, net, copying, counts>>

SaveTimer ==
  /\ timer = "due" /\ timer' = "fired" /\ wanted' = TRUE
  /\ UNCHANGED <<file, entries, copied, browser, page, req, answer, net, copying, counts>>

-----------------------------------------------------------------------------
(* The save session: one request at a time, of what is on screen when it   *)
(* starts; a change meanwhile asks for one more.                           *)

RunSave ==
  /\ wanted /\ req = {} /\ wanted' = FALSE
  /\ IF status \in Unsavable \/ ~hydrated
     THEN UNCHANGED <<status, req, net, ids>>
     ELSE LET m == [id |-> ids + 1, try |-> 1, rev |-> rev, doc |-> doc] IN
          /\ ids' = ids + 1 /\ req' = {m} /\ net' = net \cup {m}
          /\ status' = "saving"
  /\ UNCHANGED <<file, entries, copied, browser, hydrated, doc, rev, saved, draftDue,
                 load, timer, answer, copying, faults, openings>>

(* Mutant: whether the screen changed during the save is not compared.     *)
DraftTaken(m) == ~wanted

(* The draft goes only if it says no more than what was saved.             *)
DraftCovered(m) == ~wanted /\ doc = m.doc

SaveAccepted ==
  \E m \in req, a \in answer :
    /\ a.ok
    /\ rev' = a.rev /\ saved' = m.doc /\ status' = "ready"
    /\ IF DraftCovered(m) THEN draft' = {} /\ draftDue' = FALSE
                          ELSE UNCHANGED <<draft, draftDue>>
    /\ req' = {} /\ answer' = {}
    /\ UNCHANGED <<file, entries, copied, snap, hydrated, doc, load, timer, wanted, net,
                   copying, counts>>

SaveRefused ==
  \E m \in req, a \in answer :
    /\ ~a.ok
    /\ snap' = {m.doc} /\ status' = "conflict"
    /\ wanted' = FALSE /\ req' = {} /\ answer' = {}
    /\ UNCHANGED <<file, entries, copied, draft, hydrated, doc, rev, saved, draftDue, load,
                   timer, net, copying, counts>>

(* After a failure the same body goes out again with the same id, until    *)
(* the tries are used up; other failures end the save at once.             *)
SendAgain(m) ==
  /\ m.try < MaxTries
  /\ LET again == [m EXCEPT !.try = @ + 1] IN req' = {again} /\ net' = net \cup {again}
  /\ UNCHANGED <<status, wanted>>

GiveUp ==
  /\ req' = {} /\ wanted' = FALSE /\ status' = "error"
  /\ UNCHANGED net

(* Nothing will come: the request or its answer is gone.                   *)
SaveFailed ==
  \E m \in req \ net :
    /\ answer = {}
    /\ SendAgain(m) \/ (m.try >= MaxTries /\ GiveUp)
    /\ UNCHANGED <<file, entries, copied, browser, hydrated, doc, rev, saved, draftDue,
                   load, timer, answer, copying, counts>>

(* The connection breaks, or the editor's patience ends, before the        *)
(* request was served; it may be served all the same.                      *)
SaveTimedOut ==
  \E m \in req \cap net :
    /\ Fault
    /\ SendAgain(m) \/ GiveUp
    /\ UNCHANGED <<file, entries, copied, browser, hydrated, doc, rev, saved, draftDue,
                   load, timer, answer, copying>>

RequestLost ==
  /\ Fault
  /\ \E m \in net : net' = net \ {m}
  /\ UNCHANGED <<file, entries, copied, browser, page, session, copying>>

AnswerLost ==
  /\ Fault
  /\ answer # {} /\ answer' = {}
  /\ UNCHANGED <<file, entries, copied, browser, page, timer, wanted, req, net, copying>>

-----------------------------------------------------------------------------
(* The sidecar, under the canvas's lock.                                   *)

Known(m) == {p \in entries : p[1] = m.id}
RevisionFits(m) == m.rev = file.rev

Write(d) == file' = [rev |-> file.rev + 1, doc |-> d]

(* Only the save under way hears the answer.                               *)
Tell(m, a) == answer' = IF m \in req THEN {a} ELSE answer

SaveCanvas(m) ==
  /\ net' = net \ {m}
  /\ \/ \E p \in Known(m) :
          /\ Tell(m, [ok |-> TRUE, rev |-> p[2]])
          /\ UNCHANGED <<file, entries>>
     \/ /\ Known(m) = {} /\ ~RevisionFits(m)
        /\ Tell(m, [ok |-> FALSE, rev |-> file.rev])
        /\ UNCHANGED <<file, entries>>
     \/ /\ Known(m) = {} /\ RevisionFits(m)
        /\ Write(m.doc)
        /\ entries' = entries \cup {<<m.id, file.rev + 1>>}
        /\ Tell(m, [ok |-> TRUE, rev |-> file.rev + 1])
  /\ UNCHANGED <<copied, browser, page, timer, wanted, req, copying, counts>>

(* The process ends after the document was replaced and before the         *)
(* idempotency entry was.                                                  *)
SaveCanvasCut(m) ==
  /\ Known(m) = {} /\ RevisionFits(m)
  /\ Fault
  /\ net' = net \ {m} /\ Write(m.doc)
  /\ UNCHANGED <<entries, copied, browser, page, session, copying>>

OtherWrites(e) ==
  /\ e \notin file.doc
  /\ Write(file.doc \cup {e})
  /\ UNCHANGED <<entries, copied, browser, page, session, net, copying, counts>>

-----------------------------------------------------------------------------
(* Opening, and opening again after an error or a conflict.                *)

(* Mutant: the save session is not disposed.                               *)
ResetTimer == timer' = "idle" /\ wanted' = FALSE /\ UNCHANGED <<req, answer>>

ResetIdentity == timer' = "idle" /\ wanted' = FALSE /\ req' = {} /\ answer' = {}

Hydration ==
  /\ status' = "loading" /\ hydrated' = FALSE /\ rev' = 0 /\ saved' = {} /\ load' = {}
  /\ ResetIdentity

Open ==
  /\ status = "closed" /\ openings < MaxOpenings
  /\ Hydration /\ openings' = openings + 1
  /\ UNCHANGED <<file, entries, copied, browser, doc, draftDue, net, copying, ids, faults>>

(* The button of both overlays: what is stored is thrown away.             *)
Retry ==
  /\ status \in Unsavable
  /\ draft' = {} /\ snap' = {}
  /\ Hydration
  /\ UNCHANGED <<file, entries, copied, doc, draftDue, net, copying, counts>>

LoadCanvas ==
  /\ status = "loading" /\ load = {}
  /\ load' = {file}
  /\ UNCHANGED <<file, entries, copied, browser, status, hydrated, doc, rev, saved,
                 draftDue, session, net, copying, counts>>

LoadFails ==
  /\ status = "loading" /\ Fault
  /\ status' = "error" /\ load' = {}
  /\ UNCHANGED <<file, entries, copied, browser, hydrated, doc, rev, saved, draftDue,
                 session, net, copying>>

(* Mutant: any draft that says something else goes on.                     *)
AnyDraftGoesOn(d, remote) == d.doc # remote.doc

(* decideHydrateDraft: the draft goes on, is a conflict, or says nothing   *)
(* the document does not.                                                  *)
GoesOn(d, remote) == d.doc # remote.doc /\ d.rev = remote.rev
Clashes(d, remote) == d.doc # remote.doc /\ ~GoesOn(d, remote)

Hydrate ==
  \E remote \in load :
    /\ hydrated' = TRUE /\ rev' = remote.rev /\ saved' = remote.doc /\ load' = {}
    /\ \/ \E d \in draft :
            /\ GoesOn(d, remote)
            /\ doc' = d.doc /\ status' = "ready" /\ draftDue' = TRUE /\ timer' = "due"
            /\ UNCHANGED <<draft, snap>>
       \/ \E d \in draft :
            /\ Clashes(d, remote)
            /\ doc' = remote.doc /\ status' = "conflict" /\ snap' = {d.doc}
            /\ UNCHANGED <<draft, draftDue, timer>>
       \/ /\ \A d \in draft : d.doc = remote.doc
          /\ doc' = remote.doc /\ status' = "ready" /\ draft' = {}
          /\ UNCHANGED <<snap, draftDue, timer>>
    /\ UNCHANGED <<file, entries, copied, wanted, req, answer, net, copying, counts>>

-----------------------------------------------------------------------------
(* Saving a copy of the conflict, and leaving.                             *)

Gone == /\ status' = "closed" /\ hydrated' = FALSE /\ doc' = {} /\ rev' = 0
        /\ saved' = {} /\ draftDue' = FALSE /\ load' = {}
        /\ ResetIdentity

SaveCopy ==
  /\ status = "conflict" /\ copying = {} /\ snap # {}
  /\ copying' = snap
  /\ UNCHANGED <<file, entries, copied, browser, page, session, net, counts>>

(* The copy stands: the recovery data goes, revisionRef takes the copy's   *)
(* revision, and the page moves to the copy, which flushes a draft write   *)
(* still due.                                                              *)
CopySaved ==
  \E d \in copying :
    /\ copied' = copied \cup d /\ copying' = {}
    /\ snap' = {}
    /\ draft' = IF draftDue /\ hydrated THEN {[rev |-> 1, doc |-> doc]} ELSE {}
    /\ Gone
    /\ UNCHANGED <<file, entries, net, counts>>

CopyFails ==
  /\ copying # {} /\ copying' = {} /\ Fault
  /\ UNCHANGED <<file, entries, copied, browser, page, session, net>>

(* Another canvas or page: the draft write due is made at once.            *)
Leave ==
  /\ status # "closed"
  /\ draft' = IF draftDue THEN WrittenDraft ELSE draft
  /\ Gone
  /\ UNCHANGED <<file, entries, copied, snap, net, copying, counts>>

(* The window closes: unsettled content goes into the draft, and, if the   *)
(* save debounce ever ran, into a last request nobody waits for.  It keeps *)
(* the id of a save under way with the same content.                       *)
Unsettled == (draftDue \/ timer # "idle" \/ req # {}) /\ doc # saved

LastId == IF \E m \in req : m.doc = doc THEN (CHOOSE m \in req : m.doc = doc).id ELSE ids + 1

Close ==
  /\ status # "closed"
  /\ draft' = IF Unsettled THEN WrittenDraft ELSE draft
  /\ IF Unsettled /\ timer # "idle" /\ hydrated
     THEN /\ net' = net \cup {[id |-> LastId, try |-> 0, rev |-> rev, doc |-> doc]}
          /\ ids' = IF LastId > ids THEN LastId ELSE ids
     ELSE UNCHANGED <<net, ids>>
  /\ Gone /\ copying' = {}
  /\ UNCHANGED <<file, entries, copied, snap, faults, openings>>

Crash ==
  /\ status # "closed"
  /\ Gone /\ copying' = {}
  /\ UNCHANGED <<file, entries, copied, browser, net, counts>>

SavesStep == SaveTimer \/ RunSave \/ SaveAccepted \/ SaveRefused \/ SaveFailed
Serve == \E m \in net : SaveCanvas(m)
OpenStep == LoadCanvas \/ Hydrate
UserStep == (\E e \in Mine : Edit(e)) \/ Open \/ Retry \/ SaveCopy \/ Leave \/ Close
Trouble == SaveTimedOut \/ RequestLost \/ AnswerLost \/ LoadFails \/ CopyFails \/ Crash
           \/ \E m \in net : SaveCanvasCut(m)

Next == SavesStep \/ Serve \/ OpenStep \/ DraftTimer \/ CopySaved \/ UserStep
        \/ Trouble \/ \E e \in Others : OtherWrites(e)

(* Timers fire, the sidecar serves, and a request ends in an answer or a   *)
(* failure; nobody has to edit, open, leave or recover.                    *)
Spec == Init /\ [][Next]_vars
FairSpec == Spec /\ WF_vars(SavesStep) /\ WF_vars(Serve) /\ WF_vars(OpenStep)
                 /\ WF_vars(DraftTimer)

-----------------------------------------------------------------------------
AtMostOne(S) == \A x, y \in S : x = y

Doc == SUBSET (Mine \cup Others)
Version == [rev : 1..file.rev, doc : Doc]
Message == [id : 1..ids, try : 0..MaxTries, rev : 1..file.rev, doc : Doc]

SidecarTypes ==
  /\ ids \in Nat /\ faults \in Nat /\ openings \in Nat
  /\ file \in [rev : Nat \ {0}, doc : Doc] /\ copied \in Doc
  /\ entries \subseteq (1..ids) \X (2..file.rev)
  /\ \A p, q \in entries : p[1] = q[1] => p = q

StorageTypes ==
  /\ draft \subseteq Version /\ AtMostOne(draft)
  /\ snap \subseteq Doc /\ AtMostOne(snap)
  /\ copying \subseteq Doc /\ AtMostOne(copying)

PageTypes ==
  /\ status \in {"closed", "loading", "ready", "saving", "conflict", "error"}
  /\ hydrated \in BOOLEAN /\ draftDue \in BOOLEAN
  /\ doc \in Doc /\ saved \in Doc /\ rev \in 0..file.rev
  /\ load \subseteq Version /\ AtMostOne(load)

SessionTypes ==
  /\ timer \in {"idle", "due", "fired"} /\ wanted \in BOOLEAN
  /\ req \subseteq Message /\ AtMostOne(req) /\ net \subseteq Message
  /\ answer \subseteq [ok : BOOLEAN, rev : 1..file.rev] /\ AtMostOne(answer)

Together ==
  /\ req # {} <=> status = "saving"
  /\ answer # {} => req # {}
  /\ hydrated <=> rev # 0
  /\ ~hydrated => timer = "idle" /\ ~wanted /\ req = {}
  /\ status \in {"closed", "loading"} => ~hydrated
  /\ load # {} => status = "loading"

(* The state, and what goes together in it: one save, exactly while the    *)
(* page is saving, an answer only for a save, one revision of the file per *)
(* client_save_id, and a page that is not hydrated has no revision, no     *)
(* timer and nothing to save.                                              *)
CanvasTypeOK == SidecarTypes /\ StorageTypes /\ PageTypes /\ SessionTypes /\ Together

(* No write of the sidecar drops an edit it has: whoever writes has seen   *)
(* what is replaced.  A save on an older revision, a repeated or late one, *)
(* a draft of an earlier visit and the request of a closing window are     *)
(* refused or answered from the entries.                                   *)
NoLostUpdate == [][file.doc \subseteq file'.doc]_vars

(* Work is kept: what is on screen is stored as soon as no draft write is  *)
(* due, and what is stored stays stored, unless the user throws it away    *)
(* (Retry), makes a copy, or a new conflict takes the place of one the     *)
(* user left unanswered.                                                   *)
ScreenStored == hydrated /\ ~draftDue => doc \subseteq Stored
NewConflict == SaveRefused \/ Hydrate
WorkKept ==
  [][/\ ScreenStored'
     /\ \/ Stored \subseteq Stored'
        \/ Retry
        \/ CopySaved
        \/ NewConflict /\ snap # {} /\ snap' # snap]_vars

(* "Save current local edits to a new canvas id after a revision conflict" *)
(* (saveCopy, useCanvasSync.ts:74): what is stored or on screen when the   *)
(* copy stands is stored afterwards.                                       *)
CopyKeepsCanvas == [][CopySaved => Stored \cup doc \subseteq Stored']_vars

(* An edit on screen gets into the sidecar's document, unless the canvas   *)
(* comes to wait for the user or is closed: no save is forgotten because   *)
(* one was under way when it was asked for.                                *)
EditsSettle ==
  \A e \in Mine : hydrated /\ e \in doc
                    ~> e \in file.doc \/ status \in Unsavable \cup {"closed", "loading"}

=============================================================================
