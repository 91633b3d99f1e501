----------------------------- MODULE CanvasProofs -----------------------------
(***************************************************************************)
(* No write of the sidecar drops an edit, and work is kept, for any sets   *)
(* of edits and any bounds.                                                *)
(*                                                                         *)
(* The argument: whoever holds a revision holds a document, and if the     *)
(* revision is the file's, the document has all the file has (Coverage).   *)
(* Every write raises the revision, so only the writer's own claim has to  *)
(* be looked at again.  Sends of one client_save_id carry one document     *)
(* (SameId), which is in the file once an entry has the id.                *)
(***************************************************************************)
EXTENDS CanvasEditing, TLAPS

Sent == net \cup req

AsCurrent(x) == x.rev = file.rev => file.doc \subseteq x.doc

Coverage ==
  /\ \A m \in Sent : AsCurrent(m)
  /\ \A d \in draft : AsCurrent(d)
  /\ \A l \in load : AsCurrent(l) /\ l.doc \subseteq file.doc
  /\ hydrated => AsCurrent([rev |-> rev, doc |-> doc])

SameId ==
  /\ \A m, n \in Sent : m.id = n.id => m.doc = n.doc
  /\ \A p \in entries, m \in Sent :
       p[1] = m.id => /\ m.doc \subseteq file.doc
                      /\ p[2] = file.rev => file.doc \subseteq m.doc

AnswerTrue ==
  /\ answer # {} => req \cap net = {}
  /\ \A a \in answer, m \in req :
       /\ a.ok => /\ m.doc \subseteq file.doc
                  /\ a.rev = file.rev => file.doc \subseteq m.doc
       /\ ~a.ok => file.rev > 1

(* A save is of what is still on screen, and a conflict is with a later    *)
(* revision than the first, which is the one a copy has.                   *)
SaveOnScreen == \A m \in req : m.doc \subseteq doc
ConflictLater == snap # {} \/ copying # {} => file.rev > 1

(* The draft says nothing that is not on screen, in the file or, in a      *)
(* conflict, in the snapshot; the screen nothing that is not in the file   *)
(* or the draft, unless the draft is due.                                  *)
InDraft == UNION {d.doc : d \in draft}
DraftKnown ==
  hydrated => InDraft \subseteq doc \cup file.doc
                                  \cup (IF status = "conflict" THEN UNION snap ELSE {})
ScreenKnown == hydrated /\ ~draftDue => doc \subseteq file.doc \cup InDraft

Inv == /\ CanvasTypeOK
       /\ Coverage
       /\ SameId
       /\ AnswerTrue
       /\ SaveOnScreen
       /\ ConflictLater
       /\ DraftKnown
       /\ ScreenKnown

-----------------------------------------------------------------------------
(* What the types say of the members of the state's sets.                  *)

LEMMA Bare ==
  /\ {} \in Doc /\ AtMostOne({}) /\ \A x : AtMostOne({x})
  /\ \A S : AtMostOne(S) => \A x \in S : S = {x}
BY DEF Doc, AtMostOne

LEMMA Typed ==
  ASSUME CanvasTypeOK
  PROVE  /\ file.rev \in Nat \ {0} /\ file.doc \in Doc /\ file \in Version
         /\ \A m \in Sent : /\ m \in Message
                            /\ m.id \in 1..ids /\ m.try \in 0..MaxTries
                            /\ m.rev \in 1..file.rev /\ m.doc \in Doc
         /\ \A d \in draft \cup load : d.rev \in 1..file.rev /\ d.doc \in Doc
         /\ \A a \in answer : a.ok \in BOOLEAN /\ a.rev \in 1..file.rev
         /\ \A p \in entries : p[1] \in 1..ids /\ p[2] \in 2..file.rev
         /\ hydrated => rev \in 1..file.rev
         /\ WrittenDraft \subseteq Version /\ AtMostOne(WrittenDraft)
<1> USE DEF CanvasTypeOK
<1>1. file.rev \in Nat \ {0} /\ file.doc \in Doc /\ file \in Version
  BY DEF SidecarTypes, Version
<1>2. ASSUME NEW m \in Sent
      PROVE  /\ m \in Message
             /\ m.id \in 1..ids /\ m.try \in 0..MaxTries
             /\ m.rev \in 1..file.rev /\ m.doc \in Doc
  BY DEF SessionTypes, Sent, Message
<1>3. ASSUME NEW d \in draft \cup load
      PROVE  d.rev \in 1..file.rev /\ d.doc \in Doc
  BY DEF StorageTypes, PageTypes, Version
<1>4. \A a \in answer : a.ok \in BOOLEAN /\ a.rev \in 1..file.rev
  BY DEF SessionTypes
<1>5. \A p \in entries : p[1] \in 1..ids /\ p[2] \in 2..file.rev
  BY DEF SidecarTypes
<1>6. hydrated => rev \in 1..file.rev
  BY <1>1 DEF PageTypes, Together
<1>7. WrittenDraft \subseteq Version
  BY <1>6 DEF WrittenDraft, Version, StorageTypes, PageTypes
<1>8. AtMostOne(WrittenDraft)
  BY Bare DEF WrittenDraft, StorageTypes
<1> QED
  BY <1>1, <1>2, <1>3, <1>4, <1>5, <1>6, <1>7, <1>8

(* What was a version or a message stays one while revisions and ids grow. *)
LEMMA Grows ==
  ASSUME file.rev \in Nat, file'.rev \in Nat, file.rev <= file'.rev,
         ids \in Nat, ids' \in Nat, ids <= ids'
  PROVE  /\ Version \subseteq Version' /\ Message \subseteq Message'
         /\ (1..ids) \X (2..file.rev) \subseteq (1..ids') \X (2..file'.rev)
         /\ [ok : BOOLEAN, rev : 1..file.rev] \subseteq [ok : BOOLEAN, rev : 1..file'.rev]
         /\ 0..file.rev \subseteq 0..file'.rev
BY DEF Version, Message

(* A write of a document that has all the one before has.                  *)
Newer == /\ file' \in [rev : Nat \ {0}, doc : Doc]
         /\ file'.rev = file.rev + 1 /\ file.doc \subseteq file'.doc
         /\ UNCHANGED ids

(* After a write nobody else's revision is the file's.                     *)
LEMMA Overtaken ==
  ASSUME CanvasTypeOK, Newer
  PROVE  /\ Version \subseteq Version' /\ Message \subseteq Message'
         /\ (1..ids) \X (2..file.rev) \subseteq (1..ids) \X (2..file'.rev)
         /\ [ok : BOOLEAN, rev : 1..file.rev] \subseteq [ok : BOOLEAN, rev : 1..file'.rev]
         /\ 0..file.rev \subseteq 0..file'.rev
         /\ \A x \in Sent \cup draft \cup load \cup answer : x.rev # file'.rev
         /\ \A p \in entries : p[2] # file'.rev
         /\ hydrated => rev # file'.rev
         /\ file'.rev \in Nat /\ file'.rev > 1 /\ file.rev + 1 \in 2..file'.rev
<1>1. file.rev \in Nat \ {0} /\ file'.rev = file.rev + 1 /\ ids \in Nat /\ ids' = ids
  BY Typed DEF Newer, CanvasTypeOK, SidecarTypes
<1>2. \A n \in 1..file.rev : n # file'.rev
  BY <1>1
<1>3. \A n \in 2..file.rev : n # file'.rev
  BY <1>1
<1> QED
  BY <1>1, <1>2, <1>3, Typed, Grows

-----------------------------------------------------------------------------
(* Every action keeps the invariant.                                       *)


(* The timers touch neither a document nor a claim on one.                 *)
LEMMA SaveTimerKeeps ==
  ASSUME Inv, SaveTimer
  PROVE  Inv'
<1> USE CanvasAssumption, Bare DEF Inv, CanvasTypeOK, SaveTimer, browser, page, counts
<1>1. /\ SidecarTypes' /\ StorageTypes' /\ PageTypes' /\ Coverage' /\ SameId'
      /\ AnswerTrue' /\ SaveOnScreen' /\ ConflictLater' /\ DraftKnown'
      /\ ScreenKnown'
  BY DEF SidecarTypes, StorageTypes, PageTypes, Coverage, AsCurrent, Sent, SameId,
         AnswerTrue, SaveOnScreen, ConflictLater, DraftKnown, InDraft, ScreenKnown,
         Version
<1>2. SessionTypes'
  BY DEF SessionTypes, Message
<1>3. Together'
  BY DEF Together
<1> QED
  BY <1>1, <1>2, <1>3

LEMMA DraftTimerKeeps ==
  ASSUME Inv, DraftTimer
  PROVE  Inv'
<1> USE CanvasAssumption, Bare DEF Inv, CanvasTypeOK, DraftTimer, WrittenDraft,
       session, counts
<1>1. /\ SidecarTypes' /\ SessionTypes' /\ Together' /\ SameId' /\ AnswerTrue'
      /\ SaveOnScreen' /\ ConflictLater'
  BY DEF SidecarTypes, SessionTypes, Together, SameId, Sent, AnswerTrue,
         SaveOnScreen, ConflictLater, Message
<1>2. StorageTypes'
  BY Typed DEF StorageTypes, WrittenDraft, Version
<1>3. PageTypes'
  BY DEF PageTypes, Version
<1>4. Coverage'
  BY DEF Coverage, AsCurrent, Sent
<1>5. DraftKnown'
  BY DEF DraftKnown, InDraft
<1>6. ScreenKnown'
  BY DEF ScreenKnown, InDraft
<1> QED
  BY <1>1, <1>2, <1>3, <1>4, <1>5, <1>6

LEMMA EditKeeps ==
  ASSUME Inv, NEW e \in Mine, Edit(e)
  PROVE  Inv'
<1> USE CanvasAssumption, Bare DEF Inv, CanvasTypeOK, Edit, Unsavable, browser, counts
<1>1. SidecarTypes' /\ StorageTypes' /\ SameId' /\ AnswerTrue' /\ ConflictLater'
  BY DEF SidecarTypes, StorageTypes, SameId, Sent, AnswerTrue, ConflictLater, Version
<1>2. PageTypes'
  BY DEF PageTypes, Doc, Version
<1>3. SessionTypes'
  BY DEF SessionTypes, Message
<1>4. Together'
  BY DEF Together
<1>5. Coverage'
  BY DEF Coverage, AsCurrent, Sent
<1>6. SaveOnScreen'
  BY DEF SaveOnScreen
<1>7. DraftKnown'
  BY DEF DraftKnown, InDraft
<1>8. ScreenKnown'
  BY DEF ScreenKnown, InDraft
<1> QED
  BY <1>1, <1>2, <1>3, <1>4, <1>5, <1>6, <1>7, <1>8

(* A page that is gone claims nothing; storage stays as it was.            *)
LEMMA CrashKeeps ==
  ASSUME Inv, Crash
  PROVE  Inv'
<1> USE CanvasAssumption, Bare DEF Inv, CanvasTypeOK, Crash, Gone, ResetIdentity,
       browser, counts
<1>1. SidecarTypes'
  BY DEF SidecarTypes
<1>2. StorageTypes'
  BY DEF StorageTypes, Version
<1>3. PageTypes'
  <2>1. doc' \in Doc /\ saved' \in Doc /\ rev' \in 0..file'.rev
    BY Typed DEF PageTypes
  <2>2. load' = {}
    OBVIOUS
  <2> QED
    BY <2>1, <2>2 DEF PageTypes
<1>4. SessionTypes'
  BY DEF SessionTypes, Message
<1>5. Together'
  BY DEF Together
<1>6. Coverage'
  BY DEF Coverage, AsCurrent, Sent
<1>7. SameId'
  BY DEF SameId, Sent
<1>8. AnswerTrue'
  BY DEF AnswerTrue
<1>9. SaveOnScreen'
  BY DEF SaveOnScreen
<1>10. ConflictLater'
  BY DEF ConflictLater
<1>11. DraftKnown'
  BY DEF DraftKnown, InDraft
<1>12. ScreenKnown'
  BY DEF ScreenKnown, InDraft
<1> QED
  BY <1>1, <1>2, <1>3, <1>4, <1>5, <1>6, <1>7, <1>8, <1>9, <1>10, <1>11, <1>12

LEMMA LeaveKeeps ==
  ASSUME Inv, Leave
  PROVE  Inv'
<1> USE CanvasAssumption, Bare DEF Inv, CanvasTypeOK, Leave, Gone, ResetIdentity, counts
<1>1. SidecarTypes' /\ ConflictLater'
  BY DEF SidecarTypes, ConflictLater
<1>2. StorageTypes'
  BY Typed DEF StorageTypes, Version
<1>3. PageTypes'
  <2>1. doc' \in Doc /\ saved' \in Doc /\ rev' \in 0..file'.rev
    BY Typed DEF PageTypes
  <2>2. load' = {}
    OBVIOUS
  <2> QED
    BY <2>1, <2>2 DEF PageTypes
<1>4. SessionTypes'
  BY DEF SessionTypes, Message
<1>5. Together'
  BY DEF Together
<1>6. Coverage'
  BY DEF Coverage, Sent, AsCurrent, WrittenDraft
<1>7. SameId'
  BY DEF SameId, Sent
<1>8. AnswerTrue'
  BY DEF AnswerTrue
<1>9. SaveOnScreen'
  BY DEF SaveOnScreen
<1>10. DraftKnown'
  BY DEF DraftKnown, InDraft
<1>11. ScreenKnown'
  BY DEF ScreenKnown, InDraft
<1> QED
  BY <1>1, <1>2, <1>3, <1>4, <1>5, <1>6, <1>7, <1>8, <1>9, <1>10, <1>11

(* Opening, and throwing the stored work away, leave no claim on screen.   *)
LEMMA OpenKeeps ==
  ASSUME Inv, Open
  PROVE  Inv'
<1> USE CanvasAssumption, Bare DEF Inv, CanvasTypeOK, Open, Hydration, ResetIdentity,
       browser
<1>1. StorageTypes' /\ ConflictLater'
  BY DEF StorageTypes, ConflictLater, Version
<1>2. SidecarTypes'
  BY DEF SidecarTypes
<1>3. PageTypes'
  <2>1. doc' \in Doc /\ saved' \in Doc /\ rev' \in 0..file'.rev
    BY Typed DEF PageTypes
  <2>2. load' = {}
    OBVIOUS
  <2> QED
    BY <2>1, <2>2 DEF PageTypes
<1>4. SessionTypes'
  BY DEF SessionTypes, Message
<1>5. Together'
  BY DEF Together
<1>6. Coverage'
  BY DEF Coverage, AsCurrent, Sent
<1>7. SameId'
  BY DEF SameId, Sent
<1>8. AnswerTrue'
  BY DEF AnswerTrue
<1>9. SaveOnScreen'
  BY DEF SaveOnScreen
<1>10. DraftKnown'
  BY DEF DraftKnown, InDraft
<1>11. ScreenKnown'
  BY DEF ScreenKnown
<1> QED
  BY <1>1, <1>2, <1>3, <1>4, <1>5, <1>6, <1>7, <1>8, <1>9, <1>10, <1>11

LEMMA RetryKeeps ==
  ASSUME Inv, Retry
  PROVE  Inv'
<1> USE CanvasAssumption, Bare DEF Inv, CanvasTypeOK, Retry, Unsavable, Hydration,
       ResetIdentity, counts
<1>1. SidecarTypes'
  BY DEF SidecarTypes
<1>2. StorageTypes'
  BY DEF StorageTypes, Version
<1>3. PageTypes'
  <2>1. doc' \in Doc /\ saved' \in Doc /\ rev' \in 0..file'.rev
    BY Typed DEF PageTypes
  <2>2. load' = {}
    OBVIOUS
  <2> QED
    BY <2>1, <2>2 DEF PageTypes
<1>4. SessionTypes'
  BY DEF SessionTypes, Message
<1>5. Together'
  BY DEF Together
<1>6. Coverage'
  BY DEF Coverage, AsCurrent, Sent
<1>7. SameId'
  BY DEF SameId, Sent
<1>8. AnswerTrue'
  BY DEF AnswerTrue
<1>9. SaveOnScreen'
  BY DEF SaveOnScreen
<1>10. ConflictLater'
  BY DEF ConflictLater
<1>11. DraftKnown'
  BY DEF DraftKnown, InDraft
<1>12. ScreenKnown'
  BY DEF ScreenKnown, InDraft
<1> QED
  BY <1>1, <1>2, <1>3, <1>4, <1>5, <1>6, <1>7, <1>8, <1>9, <1>10, <1>11, <1>12

(* What is read is the file, until the next write.                         *)
LEMMA LoadCanvasKeeps ==
  ASSUME Inv, LoadCanvas
  PROVE  Inv'
<1> USE CanvasAssumption, Bare DEF Inv, CanvasTypeOK, LoadCanvas, browser, session,
       counts
<1>1. /\ SidecarTypes' /\ StorageTypes' /\ SessionTypes' /\ SameId'
      /\ AnswerTrue' /\ SaveOnScreen' /\ ConflictLater' /\ DraftKnown'
      /\ ScreenKnown'
  BY DEF SidecarTypes, StorageTypes, SessionTypes, SameId, Sent, AnswerTrue,
         SaveOnScreen, ConflictLater, DraftKnown, InDraft, ScreenKnown, Version,
         Message
<1>2. PageTypes'
  BY Typed DEF PageTypes, Version
<1>3. Together'
  BY DEF Together
<1>4. Coverage'
  BY DEF Coverage, AsCurrent, Sent
<1> QED
  BY <1>1, <1>2, <1>3, <1>4

LEMMA LoadFailsKeeps ==
  ASSUME Inv, LoadFails
  PROVE  Inv'
<1> USE CanvasAssumption, Bare DEF Inv, CanvasTypeOK, LoadFails, Fault, browser, session
<1>1. /\ StorageTypes' /\ SessionTypes' /\ SameId' /\ AnswerTrue'
      /\ SaveOnScreen' /\ ConflictLater' /\ ScreenKnown'
  BY DEF StorageTypes, SessionTypes, SameId, Sent, AnswerTrue, SaveOnScreen,
         ConflictLater, ScreenKnown, InDraft, Version, Message
<1>2. SidecarTypes'
  BY DEF SidecarTypes
<1>3. PageTypes'
  BY DEF PageTypes, Version
<1>4. Together'
  BY DEF Together
<1>5. Coverage'
  BY DEF Coverage, AsCurrent, Sent
<1>6. DraftKnown'
  BY DEF DraftKnown, InDraft
<1> QED
  BY <1>1, <1>2, <1>3, <1>4, <1>5, <1>6

LEMMA SaveCopyKeeps ==
  ASSUME Inv, SaveCopy
  PROVE  Inv'
<1> USE CanvasAssumption, Bare DEF Inv, CanvasTypeOK, SaveCopy, browser, page,
       session, counts
<1>1. /\ SidecarTypes' /\ PageTypes' /\ SessionTypes' /\ Together' /\ Coverage'
      /\ SameId' /\ AnswerTrue' /\ SaveOnScreen' /\ DraftKnown' /\ ScreenKnown'
  BY DEF SidecarTypes, PageTypes, SessionTypes, Together, Coverage, AsCurrent, Sent,
         SameId, AnswerTrue, SaveOnScreen, DraftKnown, InDraft, ScreenKnown, Version,
         Message
<1>2. StorageTypes'
  BY DEF StorageTypes, Version
<1>3. ConflictLater'
  BY DEF ConflictLater
<1> QED
  BY <1>1, <1>2, <1>3

LEMMA CopyFailsKeeps ==
  ASSUME Inv, CopyFails
  PROVE  Inv'
<1> USE CanvasAssumption, Bare DEF Inv, CanvasTypeOK, CopyFails, Fault, browser,
       page, session
<1>1. /\ PageTypes' /\ SessionTypes' /\ Together' /\ Coverage' /\ SameId'
      /\ AnswerTrue' /\ SaveOnScreen' /\ DraftKnown' /\ ScreenKnown'
  BY DEF PageTypes, SessionTypes, Together, Coverage, AsCurrent, Sent, SameId,
         AnswerTrue, SaveOnScreen, DraftKnown, InDraft, ScreenKnown, Version,
         Message
<1>2. SidecarTypes'
  BY DEF SidecarTypes
<1>3. StorageTypes'
  BY DEF StorageTypes, Version
<1>4. ConflictLater'
  BY DEF ConflictLater
<1> QED
  BY <1>1, <1>2, <1>3, <1>4

(* Losing messages loses claims only.                                      *)
LEMMA RequestLostKeeps ==
  ASSUME Inv, RequestLost
  PROVE  Inv'
<1> USE CanvasAssumption, Bare DEF Inv, CanvasTypeOK, RequestLost, Fault, browser,
       page, session
<1>1. /\ StorageTypes' /\ PageTypes' /\ Together' /\ SaveOnScreen'
      /\ ConflictLater' /\ DraftKnown' /\ ScreenKnown'
  BY DEF StorageTypes, PageTypes, Together, SaveOnScreen, ConflictLater, DraftKnown,
         InDraft, ScreenKnown, Version
<1>2. SidecarTypes'
  BY DEF SidecarTypes
<1>3. SessionTypes'
  BY DEF SessionTypes, Message
<1>4. Coverage'
  BY DEF Coverage, AsCurrent, Sent
<1>5. SameId'
  BY DEF SameId, Sent
<1>6. AnswerTrue'
  BY DEF AnswerTrue
<1> QED
  BY <1>1, <1>2, <1>3, <1>4, <1>5, <1>6

LEMMA AnswerLostKeeps ==
  ASSUME Inv, AnswerLost
  PROVE  Inv'
<1> USE CanvasAssumption, Bare DEF Inv, CanvasTypeOK, AnswerLost, Fault, browser, page
<1>1. /\ StorageTypes' /\ PageTypes' /\ Coverage' /\ SameId' /\ SaveOnScreen'
      /\ ConflictLater' /\ DraftKnown' /\ ScreenKnown'
  BY DEF StorageTypes, PageTypes, Coverage, AsCurrent, Sent, SameId, SaveOnScreen,
         ConflictLater, DraftKnown, InDraft, ScreenKnown, Version
<1>2. SidecarTypes'
  BY DEF SidecarTypes
<1>3. SessionTypes'
  BY DEF SessionTypes, Message
<1>4. Together'
  BY DEF Together
<1>5. AnswerTrue'
  BY DEF AnswerTrue
<1> QED
  BY <1>1, <1>2, <1>3, <1>4, <1>5

(* A refusal is for a revision that was not the file's.                    *)
LEMMA SaveRefusedKeeps ==
  ASSUME Inv, SaveRefused
  PROVE  Inv'
<1> USE CanvasAssumption, Bare DEF Inv, CanvasTypeOK, counts
<1> PICK m \in req, a \in answer :
         /\ ~a.ok /\ snap' = {m.doc} /\ status' = "conflict"
         /\ wanted' = FALSE /\ req' = {} /\ answer' = {}
         /\ UNCHANGED <<file, entries, copied, draft, hydrated, doc, rev, saved, draftDue,
                        load, timer, net, copying, ids, faults, openings>>
  BY DEF SaveRefused
<1>m. m.doc \in Doc
  BY Typed DEF Sent
<1>1. SidecarTypes' /\ ScreenKnown'
  BY DEF SidecarTypes, ScreenKnown, InDraft
<1>2. StorageTypes'
  BY <1>m DEF StorageTypes, Version
<1>3. PageTypes'
  BY DEF PageTypes, Version
<1>4. SessionTypes'
  BY DEF SessionTypes, Message
<1>5. Together'
  BY DEF Together
<1>6. Coverage'
  BY DEF Coverage, AsCurrent, Sent
<1>7. SameId'
  BY DEF SameId, Sent
<1>8. AnswerTrue'
  BY DEF AnswerTrue
<1>9. SaveOnScreen'
  BY DEF SaveOnScreen
<1>10. ConflictLater'
  BY DEF ConflictLater, AnswerTrue
<1>11. DraftKnown'
  BY DEF DraftKnown, InDraft, Together
<1> QED
  BY <1>1, <1>2, <1>3, <1>4, <1>5, <1>6, <1>7, <1>8, <1>9, <1>10, <1>11

(* The revision an answer brings belongs to the document that was sent.    *)
LEMMA SaveAcceptedKeeps ==
  ASSUME Inv, SaveAccepted
  PROVE  Inv'
<1> USE CanvasAssumption, Bare DEF Inv, CanvasTypeOK, counts
<1> PICK m \in req, a \in answer :
         /\ a.ok /\ rev' = a.rev /\ saved' = m.doc /\ status' = "ready"
         /\ IF DraftCovered(m) THEN draft' = {} /\ draftDue' = FALSE
                               ELSE UNCHANGED <<draft, draftDue>>
         /\ req' = {} /\ answer' = {}
         /\ UNCHANGED <<file, entries, copied, snap, hydrated, doc, load, timer, wanted, net,
                        copying, ids, faults, openings>>
  BY DEF SaveAccepted
<1>m. /\ m.doc \in Doc /\ a.rev \in 1..file.rev /\ m.doc \subseteq doc /\ m.doc \subseteq file.doc
      /\ a.rev = file.rev => file.doc \subseteq m.doc
  BY Typed DEF Sent, AnswerTrue, SaveOnScreen
<1>d. \/ UNCHANGED <<draft, draftDue>>
      \/ draft' = {} /\ draftDue' = FALSE /\ doc = m.doc
  BY DEF DraftCovered
<1>1. SidecarTypes' /\ ConflictLater'
  BY DEF SidecarTypes, ConflictLater
<1>2. StorageTypes'
  BY <1>d DEF StorageTypes, Version
<1>3. PageTypes'
  <2>1. saved' \in Doc /\ rev' \in 0..file'.rev
    BY <1>m, Typed
  <2>2. draftDue' \in BOOLEAN
    BY <1>d DEF PageTypes
  <2> QED
    BY <2>1, <2>2 DEF PageTypes, Version
<1>4. SessionTypes'
  BY DEF SessionTypes, Message
<1>5. Together'
  BY <1>m, Typed DEF Together
<1>6. Coverage'
  BY <1>m, <1>d DEF Coverage, Sent, AsCurrent
<1>7. SameId'
  BY DEF SameId, Sent
<1>8. AnswerTrue'
  BY DEF AnswerTrue
<1>9. SaveOnScreen'
  BY DEF SaveOnScreen
<1>10. DraftKnown'
  BY <1>m, <1>d DEF DraftKnown, InDraft, Together
<1>11. ScreenKnown'
  BY <1>m, <1>d DEF ScreenKnown, InDraft
<1> QED
  BY <1>1, <1>2, <1>3, <1>4, <1>5, <1>6, <1>7, <1>8, <1>9, <1>10, <1>11

(* A save claims what the screen claims, under an id of its own.           *)
LEMMA RunSaveKeeps ==
  ASSUME Inv, RunSave
  PROVE  Inv'
<1> USE CanvasAssumption, Bare DEF Inv, CanvasTypeOK, RunSave, counts, browser
<1> DEFINE m == [id |-> ids + 1, try |-> 1, rev |-> rev, doc |-> doc]
<1>n. \/ UNCHANGED <<status, req, net, ids>>
      \/ /\ hydrated /\ status # "conflict" /\ req = {} /\ answer = {}
         /\ ids' = ids + 1 /\ req' = {m} /\ net' = net \cup {m} /\ status' = "saving"
  BY DEF Together, Unsavable
<1>g. /\ Version' = Version /\ Message \subseteq Message'
      /\ (1..ids) \X (2..file.rev) \subseteq (1..ids') \X (2..file.rev)
  BY <1>n, Grows DEF SidecarTypes, Version
<1>m. /\ hydrated => m \in [id : 1..(ids + 1), try : 0..MaxTries, rev : 1..file.rev, doc : Doc]
      /\ ids + 1 \notin 1..ids
  BY Typed DEF SidecarTypes, PageTypes
<1>1. StorageTypes' /\ ConflictLater' /\ ScreenKnown'
  BY DEF StorageTypes, ConflictLater, ScreenKnown, InDraft, Version
<1>2. SidecarTypes'
  BY <1>n, <1>g DEF SidecarTypes
<1>3. PageTypes'
  BY <1>n DEF PageTypes, Version
<1>4. SessionTypes'
  <2>1. CASE UNCHANGED <<status, req, net, ids>>
    BY <2>1 DEF SessionTypes, Message
  <2>2. CASE ~UNCHANGED <<status, req, net, ids>>
    <3>1. /\ m \in Message' /\ UNCHANGED <<timer, answer, file>> /\ wanted' = FALSE
          /\ req' = {m} /\ net' = net \cup {m}
      BY <2>2, <1>n, <1>m DEF Message
    <3> HIDE DEF m
    <3> QED
      BY <2>2, <3>1, <1>n, <1>g DEF SessionTypes
  <2> QED
    BY <2>1, <2>2
<1>5. Together'
  BY <1>n DEF Together, Unsavable
<1>6. Coverage'
  BY <1>n DEF Coverage, Sent, AsCurrent
<1>7. SameId'
  BY <1>n, <1>m, Typed DEF SameId, Sent
<1>8. AnswerTrue'
  BY <1>n DEF AnswerTrue
<1>9. SaveOnScreen'
  BY <1>n DEF SaveOnScreen
<1>10. DraftKnown'
  BY <1>n DEF DraftKnown, InDraft
<1> QED
  BY <1>1, <1>2, <1>3, <1>4, <1>5, <1>6, <1>7, <1>8, <1>9, <1>10

(* Whoever writes next overtakes every claim.                              *)
LEMMA OtherWritesKeeps ==
  ASSUME Inv, NEW e \in Others, OtherWrites(e)
  PROVE  Inv'
<1> USE CanvasAssumption, Bare DEF Inv, CanvasTypeOK, OtherWrites, Write, browser,
       page, session, counts
<1>g. Newer
  BY Typed DEF Newer, Doc
<1>1. Together' /\ SaveOnScreen'
  BY DEF Together, SaveOnScreen
<1>2. SidecarTypes'
  BY <1>g, Overtaken DEF SidecarTypes, Newer
<1>3. StorageTypes'
  BY <1>g, Overtaken DEF StorageTypes
<1>4. PageTypes'
  BY <1>g, Overtaken DEF PageTypes
<1>5. SessionTypes'
  BY <1>g, Overtaken DEF SessionTypes
<1>6. Coverage'
  BY <1>g, Overtaken DEF Coverage, AsCurrent, Sent, Newer
<1>7. SameId'
  BY <1>g, Overtaken DEF SameId, Sent, Newer
<1>8. AnswerTrue'
  BY <1>g, Overtaken DEF AnswerTrue, Newer
<1>9. ConflictLater'
  BY <1>g, Overtaken DEF ConflictLater
<1>10. DraftKnown'
  BY <1>g DEF DraftKnown, InDraft, Newer
<1>11. ScreenKnown'
  BY <1>g DEF ScreenKnown, InDraft, Newer
<1> QED
  BY <1>1, <1>2, <1>3, <1>4, <1>5, <1>6, <1>7, <1>8, <1>9, <1>10, <1>11

LEMMA SaveCanvasCutKeeps ==
  ASSUME Inv, NEW m \in net, SaveCanvasCut(m)
  PROVE  Inv'
<1> USE CanvasAssumption, Bare DEF Inv, CanvasTypeOK, SaveCanvasCut, Known,
       RevisionFits, Write, Fault, browser, page, session
<1>g. Newer /\ file'.doc = m.doc
  BY Typed DEF Newer, Coverage, Sent, AsCurrent
<1>1. Together' /\ SaveOnScreen'
  BY DEF Together, SaveOnScreen
<1>2. SidecarTypes'
  BY <1>g, Overtaken DEF SidecarTypes, Newer
<1>3. StorageTypes'
  BY <1>g, Overtaken DEF StorageTypes
<1>4. PageTypes'
  BY <1>g, Overtaken DEF PageTypes
<1>5. SessionTypes'
  BY <1>g, Overtaken DEF SessionTypes
<1>6. Coverage'
  BY <1>g, Overtaken DEF Coverage, AsCurrent, Sent, Newer
<1>7. SameId'
  BY <1>g, Overtaken DEF SameId, Sent, Newer
<1>8. AnswerTrue'
  BY <1>g, Overtaken DEF AnswerTrue, Newer
<1>9. ConflictLater'
  BY <1>g, Overtaken DEF ConflictLater
<1>10. DraftKnown'
  BY <1>g DEF DraftKnown, InDraft, Newer
<1>11. ScreenKnown'
  BY <1>g DEF ScreenKnown, InDraft, Newer
<1> QED
  BY <1>1, <1>2, <1>3, <1>4, <1>5, <1>6, <1>7, <1>8, <1>9, <1>10, <1>11

(* A loaded document brings its own claim; a draft keeps the one it has.   *)
LEMMA HydrateKeeps ==
  ASSUME Inv, Hydrate
  PROVE  Inv'
<1> USE CanvasAssumption, Bare DEF Inv, CanvasTypeOK, counts
<1> PICK r \in load :
         /\ hydrated' = TRUE /\ rev' = r.rev /\ saved' = r.doc /\ load' = {}
         /\ \/ \E d \in draft :
                 /\ GoesOn(d, r)
                 /\ doc' = d.doc /\ status' = "ready" /\ draftDue' = TRUE /\ timer' = "due"
                 /\ UNCHANGED <<draft, snap>>
            \/ \E d \in draft :
                 /\ Clashes(d, r)
                 /\ doc' = r.doc /\ status' = "conflict" /\ snap' = {d.doc}
                 /\ UNCHANGED <<draft, draftDue, timer>>
            \/ /\ \A d \in draft : d.doc = r.doc
               /\ doc' = r.doc /\ status' = "ready" /\ draft' = {}
               /\ UNCHANGED <<snap, draftDue, timer>>
         /\ UNCHANGED <<file, entries, copied, wanted, req, answer, net, copying,
                        ids, faults, openings>>
  BY DEF Hydrate
<1>r. /\ r.rev \in 1..file.rev /\ r.doc \in Doc /\ r.doc \subseteq file.doc
      /\ r.rev = file.rev => file.doc \subseteq r.doc
      /\ status = "loading" /\ ~hydrated /\ req = {} /\ ~wanted /\ answer = {}
  BY Typed DEF Coverage, AsCurrent, Together
<1>d. \A d \in draft : d.rev \in 1..file.rev /\ d.doc \in Doc /\ draft = {d}
  BY Typed DEF StorageTypes
<1>s. \/ \E d \in draft :
           /\ doc' = d.doc /\ d.rev = r.rev /\ status' = "ready" /\ draftDue' = TRUE
           /\ timer' = "due" /\ draft' = {d} /\ UNCHANGED snap
      \/ \E d \in draft :
           /\ d.rev # r.rev
           /\ doc' = r.doc /\ status' = "conflict" /\ draft' = {d} /\ snap' = {d.doc}
           /\ UNCHANGED <<draftDue, timer>>
      \/ /\ \A d \in draft : d.doc = r.doc
         /\ doc' = r.doc /\ status' = "ready" /\ draft' = {}
         /\ UNCHANGED <<snap, draftDue, timer>>
  BY <1>d DEF GoesOn, Clashes
<1>1. SidecarTypes' /\ SameId' /\ AnswerTrue'
  BY DEF SidecarTypes, SameId, Sent, AnswerTrue
<1>2. StorageTypes'
  <2>1. draft' \subseteq Version /\ AtMostOne(draft')
    BY <1>s, <1>d DEF StorageTypes
  <2>2. snap' = snap \/ \E d \in draft : snap' = {d.doc}
    BY <1>s
  <2>3. snap' \subseteq Doc
    BY <1>d, <2>2 DEF StorageTypes
  <2>4. AtMostOne(snap')
    BY <2>2 DEF StorageTypes, AtMostOne
  <2> QED
    BY <2>1, <2>3, <2>4 DEF StorageTypes, Version
<1>3. PageTypes'
  <2>1. doc' \in Doc /\ saved' \in Doc /\ rev' \in 0..file'.rev
    BY <1>r, <1>d, <1>s, Typed
  <2> QED
    BY <1>s, <2>1 DEF PageTypes
<1>4. SessionTypes'
  BY <1>s DEF SessionTypes, Message
<1>5. Together'
  BY <1>r, <1>s DEF Together
<1>6. Coverage'
  BY <1>r, <1>d, <1>s DEF Coverage, Sent, AsCurrent
<1>7. SaveOnScreen'
  BY <1>r DEF SaveOnScreen
<1>8. ConflictLater'
  BY <1>r, <1>d, <1>s, Typed DEF ConflictLater
<1>9. DraftKnown'
  BY <1>s DEF DraftKnown, InDraft
<1>10. ScreenKnown'
  BY <1>r, <1>s DEF ScreenKnown, InDraft
<1> QED
  BY <1>1, <1>2, <1>3, <1>4, <1>5, <1>6, <1>7, <1>8, <1>9, <1>10

(* The draft a copy may leave behind has the first revision, long past.    *)
LEMMA CopySavedKeeps ==
  ASSUME Inv, CopySaved
  PROVE  Inv'
<1> USE CanvasAssumption, Bare DEF Inv, CanvasTypeOK, counts
<1> PICK d \in copying :
         /\ copied' = copied \cup d /\ copying' = {} /\ snap' = {}
         /\ draft' = IF draftDue /\ hydrated THEN {[rev |-> 1, doc |-> doc]} ELSE {}
         /\ Gone
         /\ UNCHANGED <<file, entries, net, ids, faults, openings>>
  BY DEF CopySaved
<1>g. /\ status' = "closed" /\ hydrated' = FALSE /\ doc' = {} /\ rev' = 0
      /\ saved' = {} /\ draftDue' = FALSE /\ load' = {}
      /\ timer' = "idle" /\ wanted' = FALSE /\ req' = {} /\ answer' = {}
  BY DEF Gone, ResetIdentity
<1>r. d \in Doc /\ 1 \in 1..file.rev /\ 1 # file.rev /\ doc \in Doc
  BY Typed DEF StorageTypes, ConflictLater, PageTypes
<1>d. draft' = {} \/ draft' = {[rev |-> 1, doc |-> doc]}
  OBVIOUS
<1>1. SidecarTypes'
  BY <1>r DEF SidecarTypes, Doc
<1>2. StorageTypes'
  <2>1. [rev |-> 1, doc |-> doc] \in Version'
    BY <1>r DEF Version
  <2>2. draft' \subseteq Version' /\ AtMostOne(draft')
    BY <1>d, <2>1
  <2> QED
    BY <2>2 DEF StorageTypes
<1>3. PageTypes'
  <2>1. doc' \in Doc /\ saved' \in Doc /\ rev' \in 0..file'.rev
    BY <1>g, Typed
  <2> QED
    BY <1>g, <2>1 DEF PageTypes
<1>4. SessionTypes'
  BY <1>g DEF SessionTypes, Message
<1>5. Together'
  BY <1>g DEF Together
<1>6. Coverage'
  BY <1>g, <1>r, <1>d DEF Coverage, Sent, AsCurrent
<1>7. SameId'
  BY <1>g DEF SameId, Sent
<1>8. AnswerTrue'
  BY <1>g DEF AnswerTrue
<1>9. SaveOnScreen'
  BY <1>g DEF SaveOnScreen
<1>10. ConflictLater'
  BY DEF ConflictLater
<1>11. DraftKnown'
  BY <1>g DEF DraftKnown
<1>12. ScreenKnown'
  BY <1>g DEF ScreenKnown
<1> QED
  BY <1>1, <1>2, <1>3, <1>4, <1>5, <1>6, <1>7, <1>8, <1>9, <1>10, <1>11, <1>12

(* A repeated send has the id, the revision and the document of the first. *)
LEMMA SaveFailedKeeps ==
  ASSUME Inv, SaveFailed
  PROVE  Inv'
<1> USE CanvasAssumption, Bare DEF Inv, CanvasTypeOK, browser, counts
<1> PICK m \in req \ net :
         /\ SendAgain(m) \/ GiveUp
         /\ UNCHANGED <<file, entries, copied, browser, hydrated, doc, rev, saved, draftDue,
                        load, timer, answer, copying, ids, openings>>
         /\ answer = {} /\ UNCHANGED faults
  BY DEF SaveFailed
<1> DEFINE again == [m EXCEPT !.try = @ + 1]
<1>a. answer = {} /\ answer' = {}
  BY DEF AnswerTrue
<1>s. /\ req = {m} /\ status = "saving" /\ hydrated
      /\ \/ /\ req' = {again} /\ net' = net \cup {again} /\ again \in Message
            /\ again.id = m.id /\ again.rev = m.rev /\ again.doc = m.doc
            /\ UNCHANGED <<status, wanted>>
         \/ req' = {} /\ net' = net /\ wanted' = FALSE /\ status' = "error"
  <2>1. req = {m} /\ status = "saving" /\ hydrated
    BY DEF SessionTypes, Together
  <2>2. ASSUME SendAgain(m)
        PROVE  /\ again \in Message /\ req' = {again} /\ net' = net \cup {again}
               /\ again.id = m.id /\ again.rev = m.rev /\ again.doc = m.doc
    BY <2>2, Typed DEF SendAgain, Message, Sent
  <2> QED
    BY <2>1, <2>2 DEF SendAgain, GiveUp
<1>v. Version' = Version /\ Message' = Message
  BY DEF Version, Message
<1> HIDE DEF again
<1>1. SidecarTypes' /\ ConflictLater' /\ ScreenKnown'
  BY DEF SidecarTypes, ConflictLater, ScreenKnown, InDraft
<1>2. StorageTypes'
  BY <1>v DEF StorageTypes
<1>3. PageTypes'
  BY <1>s, <1>v DEF PageTypes
<1>4. SessionTypes'
  <2>1. req' \subseteq Message /\ net' \subseteq Message
    BY <1>s DEF SessionTypes
  <2>3. AtMostOne(req')
    BY <1>s DEF AtMostOne
  <2>2. wanted' \in BOOLEAN /\ timer' = timer /\ file' = file
    BY <1>s DEF SessionTypes
  <2> QED
    BY <1>a, <1>v, <2>1, <2>2, <2>3 DEF SessionTypes
<1>5. Together'
  BY <1>a, <1>s DEF Together
<1>6. Coverage'
  BY <1>s DEF Coverage, Sent, AsCurrent
<1>7. SameId'
  BY <1>s DEF SameId, Sent
<1>8. AnswerTrue'
  BY <1>a DEF AnswerTrue
<1>9. SaveOnScreen'
  BY <1>s DEF SaveOnScreen
<1>10. DraftKnown'
  BY <1>s DEF DraftKnown, InDraft
<1> QED
  BY <1>1, <1>2, <1>3, <1>4, <1>5, <1>6, <1>7, <1>8, <1>9, <1>10

LEMMA SaveTimedOutKeeps ==
  ASSUME Inv, SaveTimedOut
  PROVE  Inv'
<1> USE CanvasAssumption, Bare DEF Inv, CanvasTypeOK, browser, counts, Fault
<1> PICK m \in req \cap net :
         /\ SendAgain(m) \/ GiveUp
         /\ UNCHANGED <<file, entries, copied, browser, hydrated, doc, rev, saved, draftDue,
                        load, timer, answer, copying, ids, openings>>
         /\ faults' = faults + 1
  BY DEF SaveTimedOut
<1> DEFINE again == [m EXCEPT !.try = @ + 1]
<1>a. answer = {} /\ answer' = {}
  BY DEF AnswerTrue
<1>s. /\ req = {m} /\ status = "saving" /\ hydrated
      /\ \/ /\ req' = {again} /\ net' = net \cup {again} /\ again \in Message
            /\ again.id = m.id /\ again.rev = m.rev /\ again.doc = m.doc
            /\ UNCHANGED <<status, wanted>>
         \/ req' = {} /\ net' = net /\ wanted' = FALSE /\ status' = "error"
  <2>1. req = {m} /\ status = "saving" /\ hydrated
    BY DEF SessionTypes, Together
  <2>2. ASSUME SendAgain(m)
        PROVE  /\ again \in Message /\ req' = {again} /\ net' = net \cup {again}
               /\ again.id = m.id /\ again.rev = m.rev /\ again.doc = m.doc
    BY <2>2, Typed DEF SendAgain, Message, Sent
  <2> QED
    BY <2>1, <2>2 DEF SendAgain, GiveUp
<1>v. Version' = Version /\ Message' = Message
  BY DEF Version, Message
<1> HIDE DEF again
<1>1. ConflictLater' /\ ScreenKnown'
  BY DEF ConflictLater, ScreenKnown, InDraft
<1>2. SidecarTypes'
  BY DEF SidecarTypes
<1>3. StorageTypes'
  BY <1>v DEF StorageTypes
<1>4. PageTypes'
  BY <1>s, <1>v DEF PageTypes
<1>5. SessionTypes'
  <2>1. req' \subseteq Message /\ net' \subseteq Message
    BY <1>s DEF SessionTypes
  <2>3. AtMostOne(req')
    BY <1>s DEF AtMostOne
  <2>2. wanted' \in BOOLEAN /\ timer' = timer /\ file' = file
    BY <1>s DEF SessionTypes
  <2> QED
    BY <1>a, <1>v, <2>1, <2>2, <2>3 DEF SessionTypes
<1>6. Together'
  BY <1>a, <1>s DEF Together
<1>7. Coverage'
  BY <1>s DEF Coverage, Sent, AsCurrent
<1>8. SameId'
  BY <1>s DEF SameId, Sent
<1>9. AnswerTrue'
  BY <1>a DEF AnswerTrue
<1>10. SaveOnScreen'
  BY <1>s DEF SaveOnScreen
<1>11. DraftKnown'
  BY <1>s DEF DraftKnown, InDraft
<1> QED
  BY <1>1, <1>2, <1>3, <1>4, <1>5, <1>6, <1>7, <1>8, <1>9, <1>10, <1>11

(* A save is applied if its revision is the file's, which Coverage makes   *)
(* safe, and answered from its entry if it was applied before.             *)
LEMMA SaveCanvasKeeps ==
  ASSUME Inv, NEW m \in net, SaveCanvas(m)
  PROVE  Inv'
<1> USE CanvasAssumption, Bare DEF Inv, CanvasTypeOK, SaveCanvas, browser, page, counts
<1>m. /\ m.id \in 1..ids /\ m.rev \in 1..file.rev /\ m.doc \in Doc /\ file.rev \in Nat
      /\ m.rev = file.rev => file.doc \subseteq m.doc
  BY Typed DEF Sent, Coverage, AsCurrent
<1>w. \/ UNCHANGED <<file, entries>>
      \/ /\ Newer /\ file'.doc = m.doc /\ \A p \in entries : p[1] # m.id
         /\ entries' = entries \cup {<<m.id, file.rev + 1>>}
  <2>1. Known(m) = {} => \A p \in entries : p[1] # m.id
    BY DEF Known
  <2>2. RevisionFits(m) /\ Write(m.doc) => Newer /\ file'.doc = m.doc
    BY <1>m DEF RevisionFits, Write, Newer
  <2> QED
    BY <2>1, <2>2
<1>g. /\ Version \subseteq Version' /\ Message \subseteq Message'
      /\ [ok : BOOLEAN, rev : 1..file.rev] \subseteq [ok : BOOLEAN, rev : 1..file'.rev]
      /\ 0..file.rev \subseteq 0..file'.rev /\ file.doc \subseteq file'.doc
      /\ file.rev > 1 => file'.rev > 1
      /\ \A x \in Sent \cup draft \cup load : AsCurrent(x) => AsCurrent(x)'
  <2>1. CASE UNCHANGED <<file, entries>>
    BY <2>1 DEF Version, Message, AsCurrent
  <2>2. CASE Newer
    BY <2>2, Overtaken DEF AsCurrent, Newer
  <2> QED
    BY <1>w, <2>1, <2>2
<1> DEFINE Told(a) ==
             /\ Tell(m, a) /\ a \in [ok : BOOLEAN, rev : 1..file'.rev]
             /\ a.ok => /\ m.doc \subseteq file'.doc
                        /\ a.rev = file'.rev => file'.doc \subseteq m.doc
             /\ ~a.ok => file'.rev > 1
<1>a. \E a : Told(a)
  <2>1. ASSUME NEW p \in Known(m), Tell(m, [ok |-> TRUE, rev |-> p[2]]),
               UNCHANGED <<file, entries>>
        PROVE  Told([ok |-> TRUE, rev |-> p[2]])
    <3>1. p \in entries /\ p[1] = m.id /\ m \in Sent
      BY DEF Known, Sent
    <3>2. p[2] \in 1..file.rev
      BY <1>m, <3>1, Typed
    <3> QED
      BY <2>1, <3>1, <3>2 DEF SameId
  <2>2. ASSUME ~RevisionFits(m), Tell(m, [ok |-> FALSE, rev |-> file.rev]),
               UNCHANGED <<file, entries>>
        PROVE  Told([ok |-> FALSE, rev |-> file.rev])
    BY <2>2, <1>m DEF RevisionFits
  <2>3. ASSUME Write(m.doc), Tell(m, [ok |-> TRUE, rev |-> file.rev + 1])
        PROVE  Told([ok |-> TRUE, rev |-> file.rev + 1])
    BY <2>3, <1>m DEF Write
  <2> HIDE DEF Told
  <2> QED
    BY <2>1, <2>2, <2>3
<1> PICK a : Told(a)
  BY <1>a
<1>t. /\ a \in [ok : BOOLEAN, rev : 1..file'.rev]
      /\ (m \in req /\ answer' = {a}) \/ (m \notin req /\ answer' = answer)
  BY DEF Tell
<1>1. SaveOnScreen'
  BY DEF SaveOnScreen
<1>2. SidecarTypes'
  <2>1. CASE UNCHANGED <<file, entries>>
    BY <2>1 DEF SidecarTypes
  <2>2. CASE ~UNCHANGED <<file, entries>>
    BY <2>2, <1>m, <1>w, Overtaken DEF SidecarTypes, Newer
  <2> QED
    BY <2>1, <2>2
<1>3. StorageTypes'
  BY <1>g DEF StorageTypes
<1>4. PageTypes'
  BY <1>g DEF PageTypes
<1>5. SessionTypes'
  <2>1. net' \subseteq Message' /\ req' \subseteq Message' /\ AtMostOne(req')
    BY <1>g DEF SessionTypes
  <2>2. answer' \subseteq [ok : BOOLEAN, rev : 1..file'.rev] /\ AtMostOne(answer')
    BY <1>t, <1>g DEF SessionTypes, AtMostOne
  <2> QED
    BY <2>1, <2>2 DEF SessionTypes
<1>6. Together'
  BY <1>a DEF Together, Tell
<1>7. Coverage'
  <2>1. \A x \in Sent' \cup draft \cup load : AsCurrent(x)'
    BY <1>g DEF Coverage, Sent
  <2>2. hydrated => (rev = file'.rev => file'.doc \subseteq doc)
    BY <1>w, Overtaken DEF Coverage, AsCurrent
  <2> QED
    BY <1>g, <2>1, <2>2 DEF Coverage, AsCurrent, Sent
<1>8. SameId'
  <2>1. \A k, n \in Sent' : k.id = n.id => k.doc = n.doc
    BY DEF SameId, Sent
  <2>2. ASSUME NEW p \in entries', NEW n \in Sent', p[1] = n.id
        PROVE  n.doc \subseteq file'.doc /\ (p[2] = file'.rev => file'.doc \subseteq n.doc)
    <3>1. n \in Sent /\ m \in Sent
      BY DEF Sent
    <3>2. CASE UNCHANGED <<file, entries>>
      BY <2>2, <3>1, <3>2 DEF SameId
    <3>3. CASE p \in entries /\ Newer
      BY <2>2, <3>1, <3>3, Overtaken DEF SameId, Newer
    <3>4. CASE p = <<m.id, file.rev + 1>> /\ file'.doc = m.doc
      BY <2>2, <3>1, <3>4 DEF SameId
    <3> QED
      BY <1>w, <3>2, <3>3, <3>4
  <2> QED
    BY <2>1, <2>2 DEF SameId
<1>9. AnswerTrue'
  <2>1. CASE m \in req
    <3>1. \A n \in req : n = m
      BY <2>1 DEF SessionTypes, AtMostOne
    <3> QED
      BY <1>t, <2>1, <3>1 DEF AnswerTrue
  <2>2. CASE m \notin req /\ UNCHANGED file
    BY <2>2 DEF AnswerTrue, Tell
  <2>3. CASE m \notin req /\ Newer
    BY <2>3, Overtaken DEF AnswerTrue, Tell, Newer
  <2> QED
    BY <1>w, <2>1, <2>2, <2>3
<1>10. ConflictLater'
  BY <1>g DEF ConflictLater
<1>11. DraftKnown'
  BY <1>g DEF DraftKnown, InDraft
<1>12. ScreenKnown'
  BY <1>g DEF ScreenKnown, InDraft
<1> QED
  BY <1>1, <1>2, <1>3, <1>4, <1>5, <1>6, <1>7, <1>8, <1>9, <1>10, <1>11, <1>12

(* The last request has the id of a save under way only with the same      *)
(* document.                                                               *)
LEMMA CloseKeeps ==
  ASSUME Inv, Close
  PROVE  Inv'
<1> USE CanvasAssumption, Bare DEF Inv, CanvasTypeOK
<1> DEFINE l == [id |-> LastId, try |-> 0, rev |-> rev, doc |-> doc]
<1>g. /\ status' = "closed" /\ hydrated' = FALSE /\ doc' = {} /\ rev' = 0
      /\ saved' = {} /\ draftDue' = FALSE /\ load' = {} /\ copying' = {}
      /\ timer' = "idle" /\ wanted' = FALSE /\ req' = {} /\ answer' = {}
      /\ UNCHANGED <<file, entries, copied, snap, faults, openings>>
  BY DEF Close, Gone, ResetIdentity
<1>d. draft' = draft \/ draft' = WrittenDraft
  BY DEF Close
<1>i. ids \in Nat /\ file.rev \in Nat /\ MaxTries \in Nat
  BY Typed DEF SidecarTypes
<1>l. \/ (\E m \in req : m.doc = doc /\ m.id = LastId) /\ LastId \in 1..ids
      \/ LastId = ids + 1
  <2>1. CASE \E m \in req : m.doc = doc
    <3> DEFINE c == CHOOSE m \in req : m.doc = doc
    <3>1. c \in req /\ c.doc = doc
      BY <2>1
    <3>2. c.id \in 1..ids
      BY <3>1, Typed DEF Sent
    <3> QED
      BY <2>1, <3>1, <3>2 DEF LastId
  <2> QED
    BY <2>1 DEF LastId
<1>n. \/ UNCHANGED <<net, ids>>
      \/ /\ hydrated /\ net' = net \cup {l} /\ ids' \in Nat /\ ids <= ids' /\ LastId \in 1..ids'
  BY <1>i, <1>l DEF Close
<1>v. /\ Version' = Version /\ Message \subseteq Message'
      /\ (1..ids) \X (2..file.rev) \subseteq (1..ids') \X (2..file'.rev)
  BY <1>g, <1>i, <1>n, Grows DEF Version
<1>m. net' \subseteq Message'
  <2>1. CASE UNCHANGED <<net, ids>>
    BY <1>v, <2>1 DEF SessionTypes
  <2>2. CASE hydrated /\ net' = net \cup {l} /\ LastId \in 1..ids'
    <3>1. l \in Message'
      BY <1>g, <1>i, <2>2, Typed DEF Message, PageTypes
    <3> HIDE DEF l
    <3> QED
      BY <1>v, <2>2, <3>1 DEF SessionTypes
  <2> QED
    BY <1>n, <2>1, <2>2
<1>1. SidecarTypes'
  BY <1>g, <1>i, <1>n, <1>v DEF SidecarTypes
<1>2. StorageTypes'
  BY <1>g, <1>d, <1>v, Typed DEF StorageTypes
<1>3. PageTypes'
  <2>1. doc' \in Doc /\ saved' \in Doc /\ rev' \in 0..file'.rev
    BY <1>g, Typed
  <2> QED
    BY <1>g, <2>1 DEF PageTypes
<1>4. SessionTypes'
  BY <1>g, <1>m DEF SessionTypes
<1>5. Together'
  BY <1>g DEF Together
<1>6. Coverage'
  BY <1>g, <1>d, <1>n DEF Coverage, Sent, AsCurrent, WrittenDraft
<1>7. SameId'
  <2>1. CASE UNCHANGED <<net, ids>>
    BY <1>g, <2>1 DEF SameId, Sent
  <2>2. CASE LastId = ids + 1 /\ net' = net \cup {l}
    BY <1>g, <1>i, <2>2, Typed DEF SameId, Sent
  <2>3. CASE (\E m \in req : m.doc = doc /\ m.id = LastId) /\ net' = net \cup {l}
    BY <1>g, <2>3 DEF SameId, Sent
  <2> QED
    BY <1>l, <1>n, <2>1, <2>2, <2>3
<1>8. AnswerTrue'
  BY <1>g DEF AnswerTrue
<1>9. SaveOnScreen'
  BY <1>g DEF SaveOnScreen
<1>10. ConflictLater'
  BY <1>g DEF ConflictLater
<1>11. DraftKnown'
  BY <1>g DEF DraftKnown
<1>12. ScreenKnown'
  BY <1>g DEF ScreenKnown
<1> QED
  BY <1>1, <1>2, <1>3, <1>4, <1>5, <1>6, <1>7, <1>8, <1>9, <1>10, <1>11, <1>12

-----------------------------------------------------------------------------
(* The theorems.                                                           *)

(* Nobody claims anything at first.                                        *)
LEMMA InitHolds == Init => Inv
<1> SUFFICES ASSUME Init PROVE Inv
  OBVIOUS
<1>1. file = [rev |-> 1, doc |-> {}] /\ file.rev = 1 /\ file.doc = {}
  BY DEF Init
<1>2. SidecarTypes /\ StorageTypes
  BY <1>1, Bare DEF Init, SidecarTypes, StorageTypes
<1>6. PageTypes
  <2>1. rev \in 0..file.rev /\ doc \in Doc /\ saved \in Doc
    BY <1>1, Bare DEF Init
  <2> QED
    BY <2>1, Bare DEF Init, PageTypes
<1>3. SessionTypes /\ Together
  BY Bare DEF Init, SessionTypes, Together
<1>4. Coverage /\ SameId /\ AnswerTrue /\ SaveOnScreen
  BY DEF Init, Coverage, Sent, SameId, AnswerTrue, SaveOnScreen
<1>5. ConflictLater /\ DraftKnown /\ ScreenKnown
  BY DEF Init, ConflictLater, DraftKnown, ScreenKnown
<1> QED
  BY <1>2, <1>3, <1>4, <1>5, <1>6 DEF Inv, CanvasTypeOK

(* Every step keeps the invariant.                                         *)
LEMMA StepKeeps == Inv /\ [Next]_vars => Inv'
<1> SUFFICES ASSUME Inv, [Next]_vars PROVE Inv'
  OBVIOUS
<1>1. CASE SavesStep
  BY <1>1, SaveTimerKeeps, RunSaveKeeps, SaveAcceptedKeeps, SaveRefusedKeeps, SaveFailedKeeps
     DEF SavesStep
<1>2. CASE Serve \/ DraftTimer \/ CopySaved \/ \E e \in Others : OtherWrites(e)
  BY <1>2, SaveCanvasKeeps, DraftTimerKeeps, CopySavedKeeps, OtherWritesKeeps DEF Serve
<1>3. CASE OpenStep
  BY <1>3, LoadCanvasKeeps, HydrateKeeps DEF OpenStep
<1>4. CASE UserStep
  BY <1>4, EditKeeps, OpenKeeps, RetryKeeps, SaveCopyKeeps, LeaveKeeps, CloseKeeps DEF UserStep
<1>5. CASE Trouble
  BY <1>5, SaveTimedOutKeeps, RequestLostKeeps, AnswerLostKeeps, LoadFailsKeeps,
     CopyFailsKeeps, CrashKeeps, SaveCanvasCutKeeps DEF Trouble
<1>6. CASE UNCHANGED vars
  <2> USE <1>6 DEF Inv, CanvasTypeOK, vars, browser, page, session, counts
  <2>1. SidecarTypes' /\ StorageTypes' /\ PageTypes'
    BY DEF SidecarTypes, StorageTypes, PageTypes, Version
  <2>2. SessionTypes' /\ Together'
    BY DEF SessionTypes, Together, Message
  <2>3. Coverage' /\ SameId' /\ AnswerTrue' /\ SaveOnScreen'
    BY DEF Coverage, AsCurrent, Sent, SameId, AnswerTrue, SaveOnScreen
  <2>4. ConflictLater' /\ DraftKnown' /\ ScreenKnown'
    BY DEF ConflictLater, DraftKnown, ScreenKnown, InDraft
  <2> QED
    BY <2>1, <2>2, <2>3, <2>4
<1> QED
  BY <1>1, <1>2, <1>3, <1>4, <1>5, <1>6 DEF Next

(* The invariant holds in every reachable state.                           *)
THEOREM Invariance == Spec => []Inv
<1>1. Init => Inv
  BY InitHolds
<1>2. Inv /\ [Next]_vars => Inv'
  BY StepKeeps
<1> QED
  BY <1>1, <1>2, PTL DEF Spec

(* The types of the canvas and what goes together in its state.            *)
THEOREM CanvasTypes == Spec => []CanvasTypeOK
<1>1. Inv => CanvasTypeOK
  BY DEF Inv
<1> QED
  BY <1>1, Invariance, PTL

(* The three writers of the file: a save, one cut short, and somebody      *)
(* else.                                                                   *)
LEMMA WriteKeepsEdits == Inv /\ [Next]_vars => file.doc \subseteq file'.doc
<1> SUFFICES ASSUME Inv, [Next]_vars PROVE file.doc \subseteq file'.doc
  OBVIOUS
<1>1. ASSUME NEW m \in net, RevisionFits(m), Write(m.doc)
      PROVE  file.doc \subseteq file'.doc
  BY <1>1 DEF Inv, Coverage, Sent, AsCurrent, RevisionFits, Write
<1>2. CASE \E m \in net : SaveCanvas(m)
  BY <1>1, <1>2 DEF SaveCanvas
<1>3. CASE \E m \in net : SaveCanvasCut(m)
  BY <1>1, <1>3 DEF SaveCanvasCut
<1>4. CASE \E e \in Others : OtherWrites(e)
  BY <1>4 DEF OtherWrites, Write
<1>5. CASE file' = file
  BY <1>5
<1> QED
  BY <1>2, <1>3, <1>4, <1>5
  DEF Next, SavesStep, Serve, OpenStep, UserStep, Trouble, vars, SaveTimer, RunSave,
      SaveAccepted, SaveRefused, SaveFailed, DraftTimer, CopySaved, LoadCanvas, Hydrate,
      Edit, Open, Retry, SaveCopy, Leave, Close, SaveTimedOut, RequestLost, AnswerLost,
      LoadFails, CopyFails, Crash

(* No write of the sidecar drops an edit, whatever is lost, late, repeated *)
(* or cut short, for any edits and bounds.                                 *)
THEOREM EditsSurviveWrites == Spec => NoLostUpdate
<1>1. Inv /\ [Next]_vars => [file.doc \subseteq file'.doc]_vars
  BY WriteKeepsEdits
<1> QED
  BY <1>1, Invariance, PTL DEF Spec, NoLostUpdate

(* Only what these five can change may be lost from what is stored.        *)
LEMMA OthersKeepStored ==
  ASSUME Inv, file.doc \subseteq file'.doc, UNCHANGED <<copied, draft, snap>>
  PROVE  Stored \subseteq Stored'
BY DEF Stored

(* A draft written now has all the one before had, or what it had is       *)
(* stored elsewhere.                                                       *)
LEMMA DraftTakesOver ==
  ASSUME Inv, draft' = WrittenDraft, UNCHANGED <<file, copied, snap>>
  PROVE  Stored \subseteq Stored'
<1> DEFINE Rest == file.doc \cup copied \cup (UNION snap)
<1>1. Stored = Rest \cup InDraft
  BY DEF Stored, InDraft
<1>2. Stored' = Rest \cup InDraft'
  BY DEF Stored, InDraft
<1>3. CASE hydrated
  <2>1. InDraft \subseteq doc \cup Rest
    BY <1>3 DEF Inv, DraftKnown
  <2>2. \E d \in draft' : d.doc = doc
    BY <1>3 DEF WrittenDraft
  <2>3. doc \subseteq InDraft'
    BY <2>2 DEF InDraft
  <2> HIDE DEF Rest
  <2> QED
    BY <1>1, <1>2, <2>1, <2>3
<1>4. CASE ~hydrated
  BY <1>1, <1>2, <1>4 DEF WrittenDraft, InDraft
<1> QED
  BY <1>3, <1>4

(* The draft that goes after a save is in the file.                        *)
LEMMA AcceptedKeepsStored == ASSUME Inv, SaveAccepted PROVE Stored \subseteq Stored'
<1> PICK m \in req, a \in answer :
         /\ a.ok
         /\ IF DraftCovered(m) THEN draft' = {} /\ draftDue' = FALSE
                               ELSE UNCHANGED <<draft, draftDue>>
         /\ UNCHANGED <<file, copied, snap>>
  BY DEF SaveAccepted
<1>1. CASE DraftCovered(m)
  <2>1. doc \subseteq file.doc
    BY <1>1 DEF DraftCovered, Inv, AnswerTrue
  <2>2. InDraft \subseteq file.doc
    BY <2>1 DEF Inv, CanvasTypeOK, Together, DraftKnown
  <2> QED
    BY <2>2 DEF Stored, InDraft
<1>2. CASE ~DraftCovered(m)
  BY <1>2 DEF Stored
<1> QED
  BY <1>1, <1>2

(* A first conflict only adds a snapshot.                                  *)
LEMMA RefusedKeepsStored ==
  ASSUME Inv, SaveRefused, snap = {} \/ snap' = snap
  PROVE  Stored \subseteq Stored'
<1>1. UNCHANGED <<file, copied, draft>>
  BY DEF SaveRefused
<1> QED
  BY <1>1 DEF Stored

(* A draft is dropped when it says nothing new.                            *)
LEMMA HydrateKeepsStored ==
  ASSUME Inv, Hydrate, snap = {} \/ snap' = snap
  PROVE  Stored \subseteq Stored'
<1>1. UNCHANGED <<file, copied>> /\ (draft' = draft \/ InDraft \subseteq file.doc)
  BY DEF Hydrate, Inv, Coverage, InDraft
<1> QED
  BY <1>1 DEF Stored, InDraft

(* The stored work is kept by every step but those WorkKept names.         *)
LEMMA StepKeepsStored ==
  ASSUME Inv, [Next]_vars
  PROVE  \/ Stored \subseteq Stored'
         \/ Retry
         \/ CopySaved
         \/ (NewConflict /\ snap # {} /\ snap' # snap)
<1>1. file.doc \subseteq file'.doc
  BY WriteKeepsEdits
<1>2. CASE SaveAccepted
  BY <1>2, AcceptedKeepsStored
<1>3. CASE SaveRefused
  BY <1>3, RefusedKeepsStored DEF NewConflict
<1>4. CASE Hydrate
  BY <1>4, HydrateKeepsStored DEF NewConflict
<1>5. CASE DraftTimer
  BY <1>5, DraftTakesOver DEF DraftTimer
<1>6. CASE Leave \/ Close
  <2>1. draft' \in {draft, WrittenDraft} /\ UNCHANGED <<file, copied, snap>>
    BY <1>6 DEF Leave, Close
  <2> QED
    BY <1>1, <2>1, DraftTakesOver, OthersKeepStored
<1>7. CASE Retry \/ CopySaved
  BY <1>7
<1>8. CASE UNCHANGED <<copied, draft, snap>>
  BY <1>1, <1>8, OthersKeepStored
<1> QED
  BY <1>2, <1>3, <1>4, <1>5, <1>6, <1>7, <1>8
  DEF Next, SavesStep, Serve, OpenStep, UserStep, Trouble, vars, browser, SaveTimer, RunSave,
      SaveFailed, SaveCanvas, SaveCanvasCut, OtherWrites, LoadCanvas, Edit, Open, SaveCopy,
      SaveTimedOut, RequestLost, AnswerLost, LoadFails, CopyFails, Crash

(* What is on screen is stored once no draft write is due, and what is     *)
(* stored stays stored but for the user's choice or a second conflict.     *)
THEOREM WorkIsKept == Spec => WorkKept
<1>1. Inv => ScreenStored
  BY DEF Inv, ScreenKnown, ScreenStored, Stored, InDraft
<1>2. Inv /\ Inv' /\ [Next]_vars =>
        [/\ ScreenStored'
         /\ \/ Stored \subseteq Stored'
            \/ Retry
            \/ CopySaved
            \/ NewConflict /\ snap # {} /\ snap' # snap]_vars
  <2> SUFFICES ASSUME Inv, Inv', [Next]_vars
               PROVE  /\ ScreenStored'
                      /\ \/ Stored \subseteq Stored'
                         \/ Retry
                         \/ CopySaved
                         \/ NewConflict /\ snap # {} /\ snap' # snap
    OBVIOUS
  <2>1. ScreenStored'
    BY <1>1, PTL
  <2> QED
    BY <2>1, StepKeepsStored
<1> QED
  BY <1>2, Invariance, PTL DEF Spec, WorkKept
=============================================================================
