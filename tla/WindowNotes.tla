---------------------------- MODULE WindowNotes ----------------------------
(***************************************************************************)
(* A window with several notes (src/src/renderer/App.tsx, NotoCanvas.tsx)  *)
(* and main, which owns them (session.ts, register-file-truth-handlers.ts, *)
(* main.ts).  Every note keeps its own editor; menu, timers and answers    *)
(* find theirs through React state, which they see as of the last render,  *)
(* through refs, which follow at once, and through editorRef, which an     *)
(* effect sets after the render.                                           *)
(*                                                                         *)
(* A note is a document id: a file closed and opened again is another one. *)
(* Its store accepts a save or calls it stale; how a save fails is left to *)
(* FileTruthStore, reloads to NoteEditing, moves to WorkspaceSession.      *)
(***************************************************************************)
EXTENDS Naturals, SequencesExt, FiniteSetsExt

CONSTANTS
    Notes,
    NoNote,
    First,       \* the note the window was started with
    Evidence,    \* the notes that open with a recovery record
    KeepLoaded,  \* KEEP_LOADED
    MaxEdits,    \* bounds: edits, and times the reader opens or closes a note
    MaxFronts

ASSUME WindowNotesConstants ==
    /\ NoNote \notin Notes /\ First \in Notes /\ Evidence \subseteq Notes
    /\ {KeepLoaded, MaxEdits, MaxFronts} \subseteq Nat

VARIABLES
    open,      \* main: session.documents, in the order they were opened
    recent,    \* main: the same notes by activatedAt
    front,     \* main: session.activePath
    seen,      \* main: notes ever opened
    store,     \* main: each note's accepted revision, how many edits it holds,
               \* and its standing recovery
    unsaved,   \* main: unsavedPaths, as the number of edits told of each note
    toMain,    \* calls on their way to main
    toWindow,  \* events on their way to the window
    call,      \* the save or recovery in flight
    state,     \* window: React state, ahead of the render
    shown,     \* window: the state last rendered, which closures see
         activeRef, \* window: activeIdRef
    editorRef, \* window: the note whose editor commands go to
    editors,   \* window: the editors mounted
    timer,     \* window: the autosave timer runs
    watched,   \* window: what the autosave effect last ran for
    told,      \* window: unsavedKeyRef
    releasing, \* window: releasingRef
    edits, fronts,
    crossed,   \* history: an answer met another note's record or editor or none,
               \* or a recovery an editor typed into, whose edits it calls saved
    asked,     \* history: unsaved, of each note when main closed it
    lost       \* history: edits main knew of were dropped

mainVars == <<open, recent, front, seen, store>>
windowVars == <<state, shown,  activeRef, editorRef, editors, timer, watched, told, releasing>>
history == <<edits, fronts, crossed, asked, lost>>
vars == <<mainVars, unsaved, toMain, toWindow, call, windowVars, history>>

NoCall == [kind |-> "none"]
Loaded(docs) == DOMAIN docs
Nothing == [n \in Notes |-> 0]
Unsaved(n) == unsaved[n] > 0
Rev(docs, n) == IF n \in Loaded(docs) THEN docs[n].rev ELSE 0

\* What the closures of the last render see of the note in front.
HasFront(s) == s.active \in Loaded(s.docs)
FrontDirty(s) == HasFront(s) /\ s.docs[s.active].dirty
FrontBlocked(s) == HasFront(s) /\ s.docs[s.active].blocked

Patch(s, n, doc) == IF n \in Loaded(s.docs) THEN [s EXCEPT !.docs[n] = doc] ELSE s
With(docs, n, doc) == [m \in Loaded(docs) \cup {n} |-> IF m = n THEN doc ELSE docs[m]]
Without(docs, gone) == [n \in Loaded(docs) \ gone |-> docs[n]]

\* The notes in their order, without one of them.
PlaceOf(notes, n) == CHOOSE i \in DOMAIN notes : notes[i] = n
LeftOf(notes, n) == IF n \in Range(notes) THEN RemoveAt(notes, PlaceOf(notes, n)) ELSE notes

Record(n) == [id |-> n, rev |-> 0, token |-> <<n, 0>>, dirty |-> FALSE, blocked |-> FALSE]
Editor(n, rev) == [of |-> n, base |-> rev, made |-> 0, dirty |-> FALSE]

\* The window has drawn the note it was started with.
Init ==
    /\ front = First
    /\ open = <<front>> /\ recent = open /\ seen = {front}
    /\ store = [n \in Notes |-> [rev |-> 0, made |-> 0, recovery |-> n \in Evidence]]
    /\ unsaved = Nothing /\ toMain = <<>> /\ toWindow = <<>> /\ call = NoCall
    /\ state = [docs |-> [n \in {front} |-> Record(n)], active |-> front, pending |-> FALSE,
                barrier |-> front \in Evidence, shell |-> FALSE]
    /\ shown = state
    /\ activeRef = front /\ editorRef = front /\ editors = [n \in {front} |-> Editor(n, 0)]
    /\ timer = FALSE /\ watched = <<FALSE, FALSE, state.barrier, FALSE>> /\ told = {} /\ releasing = {}
    /\ edits = 0 /\ fronts = 0 /\ crossed = FALSE /\ asked = Nothing /\ lost = FALSE

(***************************************************************************)
(* Main.                                                                   *)
(***************************************************************************)
\* What main publishes goes in one turn: the open reply of the note brought
\* forward, or that none is, then the tabs.
News(brings, notes, by, n) == [brings |-> brings, notes |-> notes, recent |-> by, front |-> n]

\* openMarkdownPath, activate: a note not open yet is read, another comes to
\* the front; either way its open reply is published.
CanBring(n) == n \in Range(open) \/ n \notin seen
Bring(n) ==
    /\ CanBring(n)
    /\ open' = IF n \in Range(open) THEN open ELSE Append(open, n)
    /\ recent' = Append(LeftOf(recent, n), n)
    /\ front' = n
    /\ seen' = seen \cup {n}
    /\ toWindow' = Append(toWindow, News(TRUE, Range(open'), recent', n))
    /\ UNCHANGED store

\* session.close: the note to the left, or else to the right, comes forward.
Close(n) ==
    LET left == LeftOf(open, n)
        at == PlaceOf(open, n)
        next == IF left = <<>> THEN NoNote ELSE IF at > 1 THEN open[at - 1] ELSE open[2]
    IN IF n \notin Range(open) THEN UNCHANGED <<mainVars, toWindow, asked>>
       ELSE /\ open' = left
            /\ recent' = LeftOf(recent, n)
            /\ front' = IF front = n THEN next ELSE front
            /\ toWindow' = Append(toWindow, News(front = n, Range(left), recent', front'))
            /\ asked' = [asked EXCEPT ![n] = unsaved[n]]
            /\ UNCHANGED <<seen, store>>

\* A note opened from the menu, Finder or the command line.
MainOpens ==
    /\ fronts < MaxFronts
    /\ fronts' = fronts + 1
    /\ \E n \in Notes \ {front} : Bring(n)
    /\ UNCHANGED <<unsaved, toMain, call, windowVars, edits, crossed, asked, lost>>

\* The menu's Close Tab asks about a note on the unsaved list, and the
\* reader who is asked keeps it here.
CloseTab ==
    /\ fronts < MaxFronts
    /\ fronts' = fronts + 1
    /\ front # NoNote /\ ~Unsaved(front)
    /\ Close(front)
    /\ UNCHANGED <<unsaved, toMain, call, windowVars, edits, crossed, lost>>

\* saveLocked's check of a candidate against the accepted revision.
Current(base, token, n) == token = <<n, store[n].rev>> /\ base = store[n].rev

\* A save goes to the store of the document it was captured from, a recovery
\* to the one in front.
Start ==
    LET n == IF call.kind = "save" THEN call.of ELSE front
    IN call' = [call EXCEPT !.phase = "running", !.at = IF n \in Range(open) THEN n ELSE NoNote]

HandleCall ==
    /\ toMain # <<>>
    /\ toMain' = Tail(toMain)
    /\ LET sent == Head(toMain)
       IN \/ /\ sent.is = "open" /\ CanBring(sent.note)
             /\ Bring(sent.note)
             /\ UNCHANGED <<unsaved, call, asked>>
          \/ /\ sent.is = "open" /\ ~CanBring(sent.note)
             /\ UNCHANGED <<mainVars, toWindow, unsaved, call, asked>>
          \/ /\ sent.is = "release"
             /\ Close(sent.note)
             /\ UNCHANGED <<unsaved, call>>
          \/ /\ sent.is = "unsaved"
             /\ unsaved' = sent.notes
             /\ UNCHANGED <<mainVars, toWindow, call, asked>>
          \/ /\ sent.is = "call"
             /\ Start
             /\ UNCHANGED <<mainVars, toWindow, unsaved, asked>>
    /\ UNCHANGED <<windowVars, edits, fronts, crossed, lost>>

EndCall ==
    /\ call.kind # "none" /\ call.phase = "running"
    /\ LET n == call.at
           Answer(status) == call' = [call EXCEPT !.phase = "answered", !.status = status]
           Accepted(rec) ==
               /\ store' = [store EXCEPT ![n] = rec]
               /\ call' = [call EXCEPT !.phase = "answered", !.status = "saved", !.rev = rec.rev]
       IN IF n = NoNote THEN Answer("error") /\ UNCHANGED store
          ELSE IF call.kind = "recover"
          THEN IF store[n].recovery THEN Accepted([store[n] EXCEPT !.rev = @ + 1, !.recovery = FALSE])
               ELSE Answer("evidence") /\ UNCHANGED store
          ELSE IF store[n].recovery THEN Answer("evidence") /\ UNCHANGED store
          ELSE IF ~Current(call.base, call.token, n) THEN Answer("stale") /\ UNCHANGED store
          ELSE Accepted([store[n] EXCEPT !.rev = @ + 1, !.made = call.made])
    /\ UNCHANGED <<open, recent, front, seen, unsaved, toMain, toWindow, windowVars, history>>

(***************************************************************************)
(* React: a render shows the state and runs its effects.  A call is        *)
(* rendered before it is answered.                                         *)
(***************************************************************************)
\* Each record is drawn in a slot keyed by the id of the document it holds.
Slots(docs) == {docs[n].id : n \in Loaded(docs)}

\* scheduleAutoSave, of the last render
Schedulable(s) == FrontDirty(s) /\ ~s.pending /\ ~s.barrier /\ ~FrontBlocked(s)
Watches(s) == <<FrontDirty(s), s.pending, s.barrier, FrontBlocked(s)>>
DirtyNotes(s) == {n \in Loaded(s.docs) : s.docs[n].dirty}

\* reportUnsaved; the numbers of edits are history
Report(notes) == [n \in Notes |-> IF n \in notes \cap DOMAIN editors THEN editors[n].made ELSE 0]

Render ==
    /\ shown # state
    /\ shown' = state
    /\ activeRef' = state.active
    /\ LET gone == DOMAIN editors \ Slots(state.docs)
       IN /\ editors' = Without(editors, gone)
          /\ editorRef' = IF state.active \in DOMAIN editors' THEN state.active ELSE NoNote
          /\ lost' = (lost \/ \E n \in gone :
                       (IF n \in Range(open) THEN unsaved[n] ELSE asked[n]) > store[n].made)
    /\ timer' = IF Watches(state) = watched THEN timer ELSE Schedulable(state)
    /\ watched' = Watches(state)
    /\ told' = DirtyNotes(state)
    /\ toMain' = IF told' = told THEN toMain ELSE Append(toMain, [is |-> "unsaved", notes |-> Report(told')])
    /\ UNCHANGED <<mainVars, unsaved, toWindow, call, state, releasing, edits, fronts, crossed, asked>>

\* NotoCanvas has read the document and its editor is there (onReady).
Ready(n) ==
    /\ n \in Slots(shown.docs) \ DOMAIN editors
    /\ editors' = With(editors, n, Editor(n, Rev(shown.docs, n)))
    /\ editorRef' = IF n = activeRef THEN n ELSE editorRef
    /\ UNCHANGED <<mainVars, unsaved, toMain, toWindow, call, state, shown,  activeRef, timer, watched,
                   told, releasing, history>>

(***************************************************************************)
(* Edits and saves.                                                        *)
(***************************************************************************)
\* Mutant: what an editor reports is put on the note in front.
ReportedInFront(s, n, dirty) ==
    IF activeRef \in Loaded(s.docs) /\ s.docs[activeRef].dirty # dirty
    THEN Patch(s, activeRef, [s.docs[activeRef] EXCEPT !.dirty = dirty, !.blocked = @ /\ s.barrier])
    ELSE s

\* onDocumentDirtyChange
Reported(s, n, dirty) ==
    IF n \in Loaded(s.docs) /\ s.docs[n].dirty # dirty
    THEN Patch(s, n, [s.docs[n] EXCEPT !.dirty = dirty, !.blocked = @ /\ s.barrier])
    ELSE s

Type ==
    LET n == shown.active
    IN /\ edits < MaxEdits
       /\ n \in DOMAIN editors
       /\ edits' = edits + 1
       /\ editors' = [editors EXCEPT ![n].made = @ + 1, ![n].dirty = TRUE]
       /\ state' = IF editors[n].dirty THEN state ELSE Reported(state, n, TRUE)
       /\ timer' = (timer \/ (n = activeRef /\ Schedulable(shown)))
       /\ UNCHANGED <<mainVars, unsaved, toMain, toWindow, call, shown,  activeRef, editorRef, watched,
                      told, releasing, fronts, crossed, asked, lost>>

\* save: its guards, and the candidate it captures
Saves ==
    /\ editorRef # NoNote /\ HasFront(shown) /\ ~shown.pending
    /\ FrontDirty(shown) \/ editors[editorRef].dirty
    /\ call = NoCall
Captured ==
    LET e == editors[editorRef]
    IN [kind |-> "save", phase |-> "sent", at |-> NoNote, status |-> "none", rev |-> 0,
        target |-> activeRef, editor |-> editorRef, of |-> e.of, base |-> e.base, made |-> e.made,
        token |-> shown.docs[shown.active].token]

\* Saving, or not; what is sent to main after it follows it.
SaveThen(sent) ==
    IF Saves
    THEN /\ call' = Captured
         /\ state' = [Patch(state, activeRef, [state.docs[activeRef] EXCEPT !.blocked = FALSE])
                      EXCEPT !.pending = TRUE, !.shell = @ \/ activeRef = NoNote]
         /\ toMain' = Append(toMain, [is |-> "call"]) \o sent
    ELSE UNCHANGED <<call, state>> /\ toMain' = toMain \o sent

Save ==
    /\ Saves
    /\ SaveThen(<<>>)
    /\ UNCHANGED <<mainVars, unsaved, toWindow, shown,  activeRef, editorRef, editors, timer, watched,
                   told, releasing, history>>

AutoSave ==
    /\ timer
    /\ timer' = FALSE
    /\ SaveThen(<<>>)
    /\ UNCHANGED <<mainVars, unsaved, toWindow, shown,  activeRef, editorRef, editors, watched, told,
                   releasing, history>>

\* openPath: an automatic save still waiting goes first.
OpenRow ==
    /\ fronts < MaxFronts
    /\ fronts' = fronts + 1
    /\ \E n \in Notes \ {shown.active} :
        LET asks == <<[is |-> "open", note |-> n]>>
        IN IF timer THEN SaveThen(asks) ELSE UNCHANGED <<call, state>> /\ toMain' = toMain \o asks
    /\ timer' = FALSE
    /\ UNCHANGED <<mainVars, unsaved, toWindow, shown,  activeRef, editorRef, editors, watched, told,
                   releasing, edits, crossed, asked, lost>>

\* recover: neither the note nor the editor is captured.  Its button is there
\* for a note, or for what an answer that met no note left of it in the shell.
Recover ==
    /\ shown.barrier /\ ~shown.pending /\ call = NoCall
    /\ HasFront(shown) \/ shown.shell
    /\ call' = [kind |-> "recover", phase |-> "sent", at |-> NoNote, status |-> "none", rev |-> 0]
    /\ state' = [state EXCEPT !.pending = TRUE]
    /\ toMain' = Append(toMain, [is |-> "call"])
    /\ UNCHANGED <<mainVars, unsaved, toWindow, shown,  activeRef, editorRef, editors, timer, watched,
                   told, releasing, history>>

\* Mutant: a note behind leaves the window waiting.
UnblockedInFront(s, inFront, barrier) == IF inFront THEN [s EXCEPT !.pending = FALSE, !.barrier = barrier] ELSE s

Unblocked(s, inFront, barrier) == [s EXCEPT !.pending = FALSE, !.barrier = IF inFront THEN barrier ELSE @]

\* Mutant: an editor typed into since keeps the revision it was made from.
CommittedUnmoved(e, of, rev, moved) == IF moved THEN e ELSE [e EXCEPT !.of = of, !.base = rev, !.dirty = FALSE]

\* NotoEditor.commit
Committed(e, of, rev, moved) == [e EXCEPT !.of = of, !.base = rev, !.dirty = moved]

\* present, with the target of a save and without one
TakeAnswer ==
    LET saving == call.kind = "save"
        n == IF saving THEN call.target ELSE activeRef
        e == IF saving THEN call.editor ELSE editorRef
        accepted == call.status = "saved"
        inFront == n = activeRef
        failed == call.status = "error"
        waiting == IF failed THEN [state EXCEPT !.pending = FALSE]
                   ELSE Unblocked(state, inFront, call.status = "evidence")
        shell == state.shell \/ (n = NoNote /\ ~(saving /\ failed))
        filed == Patch(waiting, n,
                       IF accepted
                       THEN [waiting.docs[n] EXCEPT !.id = call.at, !.rev = call.rev,
                                                    !.token = <<call.at, call.rev>>, !.blocked = FALSE]
                       ELSE [waiting.docs[n] EXCEPT !.blocked = call.status = "stale"])
        moved == saving /\ e \in DOMAIN editors /\ editors[e].made # call.made
        commits == accepted /\ n # NoNote /\ e \in DOMAIN editors
    IN /\ call.kind # "none" /\ call.phase = "answered" /\ shown.pending
       /\ call' = NoCall
       /\ state' = [IF commits THEN Reported(filed, e, moved) ELSE filed EXCEPT !.shell = shell]
       /\ editors' = IF commits
                     THEN [editors EXCEPT ![e] = Committed(@, call.at, call.rev, moved)]
                     ELSE editors
       /\ crossed' = (crossed \/ (accepted /\ (n # NoNote \/ call.at \in Range(open))
                                  /\ (n # call.at \/ e # n \/ ~commits \/ (~saving /\ editors[e].dirty))))
       /\ UNCHANGED <<mainVars, unsaved, toMain, toWindow, shown,  activeRef, editorRef, timer, watched,
                      told, releasing, edits, fronts, asked, lost>>

(***************************************************************************)
(* Main's news.                                                            *)
(***************************************************************************)
\* adopt: the open reply is the one of the day the note was opened.
Adopted(s, n) ==
    [docs |-> IF n \in Loaded(s.docs) THEN s.docs ELSE With(s.docs, n, Record(n)),
     active |-> n, pending |-> s.pending, barrier |-> n \in Evidence, shell |-> s.shell]

Brought(s, news) ==
    IF ~news.brings THEN s
    ELSE IF news.front = NoNote THEN [s EXCEPT !.active = NoNote, !.shell = FALSE]
    ELSE Adopted(s, news.front)

\* Mutant: the oldest are let go, unsaved or not.
OldestBehind(tabs, letting) == Range(tabs.recent) \ (letting \cup {tabs.front})

\* The notes that may be let go.
Idle(tabs, letting) == Range(tabs.recent) \ (letting \cup {tabs.front} \cup DirtyNotes(shown))

\* Which of them are: so many, the least recently in front first.
LetGo(tabs, idle, many) ==
    {gone \in [1..many -> idle] :
        \A i \in 1..many, n \in idle :
            PlaceOf(tabs.recent, n) < PlaceOf(tabs.recent, gone[i]) <=> \E j \in 1..(i - 1) : gone[j] = n}

\* Receiving tabs: main's list, and past KeepLoaded the idle notes let go.
TakeTabs(s, tabs) ==
    LET still == releasing \cap tabs.notes
        excess == Cardinality(tabs.notes) - Cardinality(still)
        idle == Idle(tabs, still)
        many == IF excess <= KeepLoaded THEN 0
                ELSE IF excess - KeepLoaded < Cardinality(idle) THEN excess - KeepLoaded ELSE Cardinality(idle)
    IN /\ state' = [s EXCEPT !.docs = Without(@, Loaded(@) \ tabs.notes), !.active = tabs.front]
       /\ activeRef' = tabs.front
       /\ \E gone \in LetGo(tabs, idle, many) :
              /\ releasing' = still \cup Range(gone)
              /\ toMain' = toMain \o [i \in 1..many |-> [is |-> "release", note |-> gone[i]]]

Receive ==
    /\ toWindow # <<>>
    /\ toWindow' = Tail(toWindow)
    /\ TakeTabs(Brought(state, Head(toWindow)), Head(toWindow))
    /\ UNCHANGED <<mainVars, unsaved, call, shown, editorRef, editors, timer, watched, told, history>>

\* Calls arrive, a save ends, React renders, editors mount, timers fire.
Runs ==
    \/ HandleCall \/ EndCall \/ TakeAnswer
    \/ Render \/ AutoSave \/ (\E n \in Notes : Ready(n))

Next == Runs \/ Receive \/ MainOpens \/ CloseTab \/ Type \/ Save \/ OpenRow \/ Recover

\* Main's news arrives, and of the rest that runs by itself something does;
\* nobody has to open, close, type or recover.
Fairness == WF_vars(Receive) /\ WF_vars(Runs)

Spec == Init /\ [][Next]_vars /\ Fairness

(***************************************************************************)
(* Properties.                                                             *)
(***************************************************************************)
\* The edits main knows of are not dropped unasked: not when the working set
\* is trimmed, not when tabs close, not by an answer.  A note one answer was
\* wrongly put on is outside it (see AnswersGoHome).
KnownIsKept == lost => crossed

\* When the window is at rest, main's list names the notes with unsaved
\* edits, no more and no fewer: it is what closing and quitting ask about.
AtRest == shown = state /\ call = NoCall
          /\ \A i \in DOMAIN toMain : toMain[i].is # "unsaved"
MainKnowsUnsaved ==
    AtRest /\ ~crossed => {n \in Notes : Unsaved(n)} = {n \in DOMAIN editors : editors[n].dirty}

\* With the window at rest and nothing crossed, the next save of a note will
\* be accepted: the token and the editor's base are the store's revision.
NextSaveFits ==
    AtRest /\ ~crossed =>
        \A n \in DOMAIN editors \cap Range(open) \cap Loaded(shown.docs) :
            Current(editors[n].base, shown.docs[n].token, n)

\* A note in front with unsaved edits is saved in the end, unless it leaves
\* the front or something holds automatic saving.
FrontIsSaved ==
    \A n \in Notes :
        (n \in DOMAIN editors /\ editors[n].dirty)
        ~> (n \in DOMAIN editors => ~editors[n].dirty) \/ shown.active # n \/ shown.barrier \/ FrontBlocked(shown) \/ crossed

\* An answer lands on its own note (App.tsx:1251 "The document this save
\* belongs to, not whichever note is in front now").
AnswersGoHome ==
    \A n \in Loaded(state.docs) : state.docs[n].id = n /\ state.docs[n].token[1] = n

\* A note left behind with unsaved edits is saved in the end, unless
\* something holds automatic saving (App.tsx:1522 "An automatic save waiting
\* on the note being left goes now").
LeftIsSaved ==
    \A n \in Notes :
        (n \in DOMAIN editors /\ editors[n].dirty)
        ~> (n \in DOMAIN editors => ~editors[n].dirty) \/ shown.barrier \/ FrontBlocked(shown) \/ crossed
=============================================================================
