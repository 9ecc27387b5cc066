----------------------------- MODULE NoteEditing -----------------------------
(***************************************************************************)
(* One note being edited: the window's editor and its record of the note   *)
(* (src/src/renderer/App.tsx, editor/noto/NotoEditor.ts), the store in the *)
(* main process that accepts revisions of it, the two ordered message      *)
(* channels between them, and other programs writing the file.             *)
(*                                                                         *)
(* The store is seen here as the window sees it: a request is taken, a     *)
(* transaction runs, an answer is sent.  FileTruthStore has its steps.     *)
(* Text is a value; provenance, source mode, line endings and plugins are  *)
(* left out, and so are saving a copy and a file removed from disk.  One   *)
(* note is open and in front.  A render follows every message at once.     *)
(***************************************************************************)
EXTENDS Naturals, Sequences

CONSTANTS
    Texts,          \* what the note can say
    InitialText,
    None,           \* nothing
    MaxEdits,       \* changes the reader makes
    MaxSaves,       \* captures taken
    MaxForeign,     \* writes by other programs
    MaxFaults,      \* saves and recoveries that fail
    MaxReloads,     \* reloads the reader asks for
    MaxRecoveries   \* recoveries the reader asks for

ASSUME ConstantsAssumption ==
    /\ InitialText \in Texts
    /\ None \notin Texts \cup Nat
    /\ {MaxEdits, MaxSaves, MaxForeign, MaxFaults, MaxReloads, MaxRecoveries} \subseteq Nat

VARIABLES
    disk,       \* the version on disk
    nextId,     \* identity of the next version written
    accepted,   \* the store's accepted fingerprint
    doc,        \* the text of its accepted revision
    rev,        \* its editorRevision
    record,     \* its recovery record, or None
    txn,        \* the request its transaction runs for, or None
    told,       \* identity the last external-change event was about
    toMain,     \* requests on their way to main
    toPage,     \* answers and events on their way to the window
    ed,         \* the editor
    page,       \* what the window records about the note
    spent,      \* budgets used
    discarded   \* unsaved edits were replaced and nobody had been asked

storeVars == <<accepted, doc, rev, record>>
fileVars  == <<disk, nextId>>
vars == <<fileVars, storeVars, txn, told, toMain, toPage, ed, page, spent, discarded>>

Version == [id : Nat, text : Texts]
Token   == [rev : Nat, doc : Texts, fp : Nat]
Record  == [text : Texts, over : Nat]

States == {"Opened", "Unsaved changes", "Saving", "Saved", "External conflict", "Save failed",
           "Recovery needed", "Recovery failed", "Cleanup failed", "Stale editor revision",
           "Changed on disk"}

\* captures that have not been resolved, and those an edit has overtaken: the
\* code numbers edits, and compares the number now with the one captured.
Editor == [text : Texts, base : Texts, baseline : Texts, dirty : BOOLEAN,
           captures : SUBSET Nat, overtaken : SUBSET Nat, latest : Nat \cup {None}]

Page == [token : Token, dirty : BOOLEAN, state : States, clean : {"Opened", "Saved"},
         barrier : BOOLEAN, busy : BOOLEAN]

Budget == [edits : Nat, saves : Nat, foreign : Nat, faults : Nat, reloads : Nat, recoveries : Nat]

Request == [kind : {"save"}, token : Token, base : Texts, text : Texts, capture : Nat]
           \cup [kind : {"reload"}, confirmed : BOOLEAN]
           \cup [kind : {"recover"}]

Refusals == {"external-conflict", "write-failed", "recovery-needed", "recovery-failed",
             "stale-editor-revision"}
Accepts  == {"saved", "cleanup-failed"}

Message == [kind : {"outcome"}, capture : Nat \cup {None}, status : Refusals, barrier : BOOLEAN]
           \cup [kind : {"outcome"}, capture : Nat \cup {None}, status : Accepts, token : Token,
                 barrier : BOOLEAN]
           \cup [kind : {"reloaded"}, token : Token, confirmed : BOOLEAN]
           \cup [kind : {"unchanged"}, confirmed : BOOLEAN]
           \cup [kind : {"refused", "changed"}]
           \cup [kind : {"rebased"}, token : Token]

\* Every variable holds what the code may put there; every message is one the
\* other side knows.
TypeOK ==
    /\ disk \in Version /\ nextId \in Nat
    /\ accepted \in Version /\ doc \in Texts /\ rev \in Nat
    /\ record \in Record \cup {None}
    /\ txn \in Request \cup {None}
    /\ told \in Nat
    /\ toMain \in Seq(Request) /\ toPage \in Seq(Message)
    /\ ed \in Editor /\ page \in Page
    /\ spent \in Budget
    /\ discarded \in BOOLEAN

CurrentToken == [rev |-> rev, doc |-> doc, fp |-> accepted.id]

Init ==
    /\ disk = [id |-> 0, text |-> InitialText] /\ nextId = 1
    /\ accepted = disk /\ doc = InitialText /\ rev = 0 /\ record = None
    /\ txn = None /\ told = 0
    /\ toMain = <<>> /\ toPage = <<>>
    /\ ed = [text |-> InitialText, base |-> InitialText, baseline |-> InitialText,
             dirty |-> FALSE, captures |-> {}, overtaken |-> {}, latest |-> None]
    /\ page = [token |-> CurrentToken, dirty |-> FALSE, state |-> "Opened",
               clean |-> "Opened", barrier |-> FALSE, busy |-> FALSE]
    /\ spent = [edits |-> 0, saves |-> 0, foreign |-> 0, faults |-> 0, reloads |-> 0,
                recoveries |-> 0]
    /\ discarded = FALSE

-----------------------------------------------------------------------------
(***************************************************************************)
(* The editor.                                                             *)
(***************************************************************************)
\* The document changes: a clean one becomes dirty, a dirty one is compared
\* with the baseline, and every capture in flight is overtaken.
Changed(e, text) ==
    IF text = e.text THEN e
    ELSE [e EXCEPT !.text = text,
                   !.overtaken = e.captures,
                   !.dirty = IF e.dirty THEN text # e.baseline ELSE TRUE]

\* The editor's report that it became dirty or clean (onDocumentDirtyChange):
\* nothing happens when the record says so already.
Reported(p, dirty) ==
    IF p.dirty = dirty THEN p
    ELSE [p EXCEPT !.dirty = dirty,
                   !.state = IF p.barrier THEN @ ELSE IF dirty THEN "Unsaved changes" ELSE p.clean]

\* Mutant: any capture vouches for what is on screen.
Unmoved(e, capture) == FALSE

\* A save can call the buffer clean only if nothing moved since its capture;
\* without a capture of its own a commit uses the latest one, or none.
MovedSince(e, capture) ==
    LET key == IF capture # None THEN capture ELSE e.latest IN
    \/ capture # None /\ capture \notin e.captures
    \/ key \in e.captures /\ key \in e.overtaken

\* Mutant: a commit that found newer edits keeps the old base.
BaseKept(e, text, capture) ==
    [e EXCEPT !.base = IF MovedSince(e, capture) THEN @ ELSE text,
              !.captures = @ \ {capture},
              !.overtaken = @ \ {capture},
              !.dirty = MovedSince(e, capture)]

\* commit(): the accepted document becomes the base of the next save; the
\* buffer is clean, and the baseline of what dirty means, unless it moved.
Committed(e, text, capture) ==
    LET moved == MovedSince(e, capture)
        left  == IF capture = None THEN {} ELSE e.captures \ {capture}
    IN  [e EXCEPT !.base = text,
                  !.captures = left,
                  !.overtaken = @ \cap left,
                  !.latest = IF capture = None \/ e.latest = capture THEN None ELSE @,
                  !.baseline = IF moved THEN @ ELSE e.text,
                  !.dirty = moved]

\* abandonSave(): a refused save's capture is forgotten.
Abandoned(e, capture) ==
    [e EXCEPT !.captures = @ \ {capture},
              !.overtaken = @ \ {capture},
              !.latest = IF @ = capture THEN None ELSE @]

\* The reader types, pastes or undoes.
Edit(text) ==
    /\ spent.edits < MaxEdits
    /\ text # ed.text
    /\ spent' = [spent EXCEPT !.edits = @ + 1]
    /\ ed' = Changed(ed, text)
    /\ page' = IF ed'.dirty = ed.dirty THEN page ELSE Reported(page, ed'.dirty)
    /\ UNCHANGED <<fileVars, storeVars, txn, told, toMain, toPage, discarded>>

-----------------------------------------------------------------------------
(***************************************************************************)
(* What the window asks of main.  A save or a recovery in flight keeps a   *)
(* second one out; a reload does not.                                      *)
(***************************************************************************)
Ask(request) == toMain' = Append(toMain, request)

Save ==
    /\ spent.saves < MaxSaves
    /\ ~page.busy
    /\ page.dirty \/ ed.dirty
    /\ spent' = [spent EXCEPT !.saves = @ + 1]
    /\ LET capture == spent.saves + 1 IN
       /\ ed' = [ed EXCEPT !.captures = @ \cup {capture}, !.latest = capture]
       /\ Ask([kind |-> "save", token |-> page.token, base |-> ed.base, text |-> ed.text,
               capture |-> capture])
    /\ page' = [page EXCEPT !.busy = TRUE, !.state = "Saving"]
    /\ UNCHANGED <<fileVars, storeVars, txn, told, toPage, discarded>>

\* What the Save button and the autosave timer refuse.
SaveBlocked == page.barrier \/ page.state \in {"External conflict", "Stale editor revision"}

AutoSave == page.dirty /\ ~SaveBlocked /\ Save

\* Unsaved edits are given up only after a confirmation.
AskReload ==
    /\ spent.reloads < MaxReloads
    /\ spent' = [spent EXCEPT !.reloads = @ + 1]
    /\ Ask([kind |-> "reload", confirmed |-> page.dirty])
    /\ UNCHANGED <<fileVars, storeVars, txn, told, toPage, ed, page, discarded>>

AskRecovery ==
    /\ spent.recoveries < MaxRecoveries
    /\ page.barrier
    /\ ~page.busy
    /\ spent' = [spent EXCEPT !.recoveries = @ + 1]
    /\ page' = [page EXCEPT !.busy = TRUE]
    /\ Ask([kind |-> "recover"])
    /\ UNCHANGED <<fileVars, storeVars, txn, told, toPage, ed, discarded>>

-----------------------------------------------------------------------------
(***************************************************************************)
(* The store.                                                              *)
(***************************************************************************)
Send(message) == toPage' = Append(toPage, message)

Outcome(request, status) ==
    [kind |-> "outcome", status |-> status,
     capture |-> IF request.kind = "save" THEN request.capture ELSE None,
     barrier |-> record' # None]

AcceptedOutcome(request, status) ==
    [kind |-> "outcome", status |-> status,
     capture |-> IF request.kind = "save" THEN request.capture ELSE None,
     token |-> CurrentToken',
     barrier |-> status = "cleanup-failed"]

\* A save names the revision and the identity it started from.
UpToDate(request) == request.token = CurrentToken /\ request.base = doc

\* A request is answered at once or starts the transaction.
Take ==
    /\ toMain # <<>>
    /\ toMain' = Tail(toMain)
    /\ UNCHANGED storeVars
    /\ LET request == Head(toMain) IN
       \/ /\ request.kind = "save"
          /\ \/ /\ txn = None /\ record = None /\ UpToDate(request)
                /\ txn' = request
                /\ UNCHANGED toPage
             \/ /\ txn # None
                /\ Send(Outcome(request, "write-failed"))
                /\ UNCHANGED txn
             \/ /\ txn = None /\ record # None
                /\ Send(Outcome(request, "recovery-needed"))
                /\ UNCHANGED txn
             \/ /\ txn = None /\ record = None /\ ~UpToDate(request)
                /\ Send(Outcome(request, "stale-editor-revision"))
                /\ UNCHANGED txn
       \/ /\ request.kind = "reload"
          /\ \/ /\ txn = None /\ record = None
                /\ txn' = request
                /\ UNCHANGED toPage
             \/ /\ txn # None \/ record # None
                /\ Send([kind |-> "refused"])
                /\ UNCHANGED txn
       \/ /\ request.kind = "recover"
          /\ \/ /\ txn = None /\ record # None
                /\ txn' = request
                /\ UNCHANGED toPage
             \/ /\ txn # None \/ record = None
                /\ Send(Outcome(request, "recovery-failed"))
                /\ UNCHANGED txn
    /\ UNCHANGED <<fileVars, told, ed, page, spent, discarded>>

\* The candidate becomes the file and the accepted revision.
Accept(text) ==
    /\ disk' = [id |-> nextId, text |-> text]
    /\ nextId' = nextId + 1
    /\ accepted' = disk'
    /\ doc' = text
    /\ rev' = rev + 1

Fail == spent.faults < MaxFaults /\ spent' = [spent EXCEPT !.faults = @ + 1]

\* A save ends: accepted, accepted but not cleaned up, in conflict, or failed
\* with or without durable evidence of its candidate.
EndSave ==
    /\ txn # None /\ txn.kind = "save"
    /\ txn' = None
    /\ \/ /\ disk.id = accepted.id
          /\ Accept(txn.text)
          /\ UNCHANGED <<record, spent>>
          /\ Send(AcceptedOutcome(txn, "saved"))
       \/ /\ disk.id = accepted.id
          /\ Accept(txn.text)
          /\ Fail
          /\ record' = [text |-> txn.text, over |-> accepted.id]
          /\ Send(AcceptedOutcome(txn, "cleanup-failed"))
       \/ /\ disk.id # accepted.id
          /\ UNCHANGED <<fileVars, storeVars, spent>>
          /\ Send(Outcome(txn, "external-conflict"))
       \/ /\ Fail
          /\ UNCHANGED <<fileVars, storeVars>>
          /\ Send(Outcome(txn, "write-failed"))
       \/ /\ Fail
          /\ record' = [text |-> txn.text, over |-> accepted.id]
          /\ UNCHANGED <<fileVars, accepted, doc, rev>>
          /\ Send(Outcome(txn, "recovery-needed"))
    /\ UNCHANGED <<told, toMain, ed, page, discarded>>

\* A recovery replays its candidate over the version it accepted, recognises
\* it on disk, or refuses.
EndRecovery ==
    /\ txn # None /\ txn.kind = "recover"
    /\ txn' = None
    /\ \/ /\ disk.id = record.over
          /\ Accept(record.text)
          /\ record' = None
          /\ UNCHANGED spent
          /\ Send(AcceptedOutcome(txn, "saved"))
       \/ /\ disk.id # record.over /\ disk.text = record.text
          /\ accepted' = disk /\ doc' = record.text /\ rev' = rev + 1
          /\ record' = None
          /\ UNCHANGED <<fileVars, spent>>
          /\ Send(AcceptedOutcome(txn, "saved"))
       \/ /\ disk.id # record.over /\ disk.text # record.text
          /\ UNCHANGED <<fileVars, storeVars, spent>>
          /\ Send(Outcome(txn, "external-conflict"))
       \/ /\ Fail
          /\ UNCHANGED <<fileVars, storeVars>>
          /\ Send(Outcome(txn, "recovery-failed"))
    /\ UNCHANGED <<told, toMain, ed, page, discarded>>

\* A reload of the same bytes moves the accepted identity and says only
\* "unchanged".
EndReload ==
    /\ txn # None /\ txn.kind = "reload"
    /\ txn' = None
    /\ accepted' = disk
    /\ \/ /\ disk.text = accepted.text
          /\ UNCHANGED <<doc, rev>>
          /\ Send([kind |-> "unchanged", confirmed |-> txn.confirmed])
       \/ /\ disk.text # accepted.text
          /\ doc' = disk.text /\ rev' = 0
          /\ Send([kind |-> "reloaded", token |-> CurrentToken', confirmed |-> txn.confirmed])
    /\ UNCHANGED <<fileVars, record, told, toMain, ed, page, spent, discarded>>

\* The external-change check: the same bytes are a rebase, others a change.
Check ==
    /\ disk.id # accepted.id
    /\ disk.id # told
    /\ told' = disk.id
    /\ UNCHANGED <<doc, rev, record>>
    /\ \/ /\ disk.text = accepted.text
          /\ accepted' = disk
          /\ Send([kind |-> "rebased", token |-> CurrentToken'])
       \/ /\ disk.text # accepted.text
          /\ UNCHANGED accepted
          /\ Send([kind |-> "changed"])
    /\ UNCHANGED <<fileVars, txn, toMain, ed, page, spent, discarded>>

ForeignWrite(text) ==
    /\ spent.foreign < MaxForeign
    /\ spent' = [spent EXCEPT !.foreign = @ + 1]
    /\ disk' = [id |-> nextId, text |-> text]
    /\ nextId' = nextId + 1
    /\ UNCHANGED <<storeVars, txn, told, toMain, toPage, ed, page, discarded>>

-----------------------------------------------------------------------------
(***************************************************************************)
(* What the window does with an answer or an event.                        *)
(***************************************************************************)
\* Mutant: the status is shown as main names it.
Unworded(status) == status

\* What the status line says of an outcome (saveStateOf).
Shown(status) ==
    CASE status = "saved"                 -> "Saved"
      [] status = "external-conflict"     -> "External conflict"
      [] status = "stale-editor-revision" -> "Stale editor revision"
      [] status = "recovery-needed"       -> "Recovery needed"
      [] status = "recovery-failed"       -> "Recovery failed"
      [] status = "cleanup-failed"        -> "Cleanup failed"
      [] OTHER                            -> "Save failed"

\* Mutant: the busy flag survives a refused save.
Busied(p, outcome) == [p EXCEPT !.barrier = outcome.barrier, !.state = Shown(outcome.status)]

\* present(): the outcome's state and barrier, and the save is over.
Presented(p, outcome) ==
    [p EXCEPT !.barrier = outcome.barrier,
              !.state = Shown(outcome.status),
              !.busy = FALSE]

\* A commit's report reaches the record after the token has: dirty again when
\* the buffer moved, clean when it had been dirty.
AfterCommit(p, e, next) == IF next.dirty \/ e.dirty THEN Reported(p, next.dirty) ELSE p

TakeOutcome(outcome) ==
    LET shown == Presented(page, outcome) IN
    IF outcome.status \in Accepts
    THEN LET p == [shown EXCEPT !.token = outcome.token, !.clean = "Saved"] IN
         /\ ed' = Committed(ed, outcome.token.doc, outcome.capture)
         /\ page' = AfterCommit(p, ed, ed')
    ELSE /\ ed' = IF outcome.capture = None THEN ed ELSE Abandoned(ed, outcome.capture)
         /\ page' = shown

\* A reload replaces the document in the editor and commits it.
Replaced(text) ==
    LET replaced == Changed(ed, text) IN
    /\ ed' = Committed(replaced, text, None)
    /\ discarded' = (discarded \/ (ed.dirty /\ ed.text # text /\ ~Head(toPage).confirmed))

TakeReloaded(message) ==
    /\ Replaced(message.token.doc)
    /\ page' = [page EXCEPT !.token = message.token, !.dirty = FALSE, !.state = "Opened"]

\* "unchanged": a reload the reader confirmed is a discard, so the accepted
\* text is put back; the token stays the one held.
TakeUnchanged ==
    /\ \/ /\ ed.dirty
          /\ Replaced(ed.base)
       \/ /\ ~ed.dirty
          /\ UNCHANGED <<ed, discarded>>
    /\ page' = [page EXCEPT !.dirty = FALSE, !.state = page.clean]

TakeRebased(message) ==
    page' = [page EXCEPT !.token = message.token,
                         !.state = IF @ = "External conflict" THEN page.clean ELSE @]

\* A clean note takes the change silently, by asking for a reload.
TakeChanged ==
    \/ /\ ~page.dirty
       /\ Ask([kind |-> "reload", confirmed |-> FALSE])
       /\ UNCHANGED page
    \/ /\ page.dirty
       /\ page' = [page EXCEPT !.state = "Changed on disk"]
       /\ UNCHANGED toMain

Receive ==
    /\ toPage # <<>>
    /\ toPage' = Tail(toPage)
    /\ LET message == Head(toPage) IN
       \/ /\ message.kind = "outcome"
          /\ TakeOutcome(message)
          /\ UNCHANGED <<toMain, discarded>>
       \/ /\ message.kind = "reloaded"
          /\ TakeReloaded(message)
          /\ UNCHANGED toMain
       \/ /\ message.kind = "unchanged"
          /\ TakeUnchanged
          /\ UNCHANGED toMain
       \/ /\ message.kind = "refused"
          /\ UNCHANGED <<toMain, ed, page, discarded>>
       \/ /\ message.kind = "rebased"
          /\ TakeRebased(message)
          /\ UNCHANGED <<toMain, ed, discarded>>
       \/ /\ message.kind = "changed"
          /\ TakeChanged
          /\ UNCHANGED <<ed, discarded>>
    /\ UNCHANGED <<fileVars, storeVars, txn, told, spent>>

-----------------------------------------------------------------------------
Next ==
    \/ \E text \in Texts : Edit(text)
    \/ Save \/ AskReload \/ AskRecovery
    \/ Take \/ EndSave \/ EndRecovery \/ EndReload \/ Check
    \/ \E text \in Texts : ForeignWrite(text)
    \/ Receive

Spec == Init /\ [][Next]_vars

\* Both processes run their queues and their transactions; the autosave timer
\* fires.
Fairness ==
    /\ WF_vars(Take) /\ WF_vars(EndSave) /\ WF_vars(EndRecovery) /\ WF_vars(EndReload)
    /\ WF_vars(Receive)
    /\ WF_vars(AutoSave)

FairSpec == Spec /\ Fairness

-----------------------------------------------------------------------------
\* The token the window would save with names the revision its editor was
\* rebased on: whatever order answers and events of saves, reloads, rebases
\* and recoveries come in, the two are never from different revisions.
TokenNamesBase == page.token.doc = ed.base

OutcomeTaken == toPage # <<>> /\ Head(toPage).kind = "outcome" /\ toPage' = Tail(toPage)

\* An answered save calls the buffer clean only if the buffer holds exactly
\* what was saved: edits made while it was in flight stay unsaved.
SaveIsHonest ==
    [][OutcomeTaken /\ Head(toPage).capture # None /\ ed.dirty /\ ~ed'.dirty
       => ed'.text = ed'.base]_vars

\* Edits the window knows to be unsaved are saved by the autosave timer, or the
\* window has stopped to ask: no refusal, failure, recovery or reload on the way
\* leaves them waiting for good.
EditsSettle ==
    page.dirty ~> (~page.dirty \/ SaveBlocked \/ spent.saves = MaxSaves)

-----------------------------------------------------------------------------
(***************************************************************************)
(* What the repository says, and the code does not do in every             *)
(* interleaving.                                                           *)
(***************************************************************************)
\* NotoEditor.ts:744: undoing back to the saved state clears the dirty mark;
\* so a clean buffer holds the accepted text.
CleanIsSaved == ~ed.dirty => ed.text = ed.base

\* App.tsx:2030: every note with unsaved changes is reported, so that closing it
\* asks; so a dirty buffer that is not its accepted text is on record.
UnsavedIsReported == ed.dirty /\ ed.text # ed.base => page.dirty

\* NotoEditor.ts:1511: only a buffer that did not move can be called clean;
\* so too after a recovery.
RecoveryIsHonest ==
    [][OutcomeTaken /\ Head(toPage).capture = None /\ ed.dirty /\ ~ed'.dirty
       => ed'.text = ed'.base]_vars

\* App.tsx:994: a note with unsaved changes is never replaced without being
\* asked.
NeverReplacedUnasked == ~discarded

\* file-truth-store.ts:924: a reload of the same bytes moves the identity so
\* that the next save has a precondition that still names a file; so a save is
\* called stale only when the accepted text is another one.
StaleMeansBehind ==
    [][OutcomeTaken /\ Head(toPage).status = "stale-editor-revision" => ed.base # doc]_vars

\* NotoEditor.ts:1572: the status line cannot call a buffer saved whose edits
\* the save did not carry.
StatusIsTrue == page.state = "Saved" => ~ed.dirty
=============================================================================
