------------------------------ MODULE Quitting ------------------------------
(***************************************************************************)
(* Closing the window and quitting (src/src/main/main.ts), and the         *)
(* settings file the last step of a quit waits for (settings-store.ts).    *)
(*                                                                         *)
(* The first quit is prevented: it closes the documents' stores and starts *)
(* the steps of the shutdown, each with a deadline, during which the       *)
(* window is still there; the steps end by quitting again.                 *)
(***************************************************************************)
EXTENDS Naturals, Sequences

CONSTANTS MaxEdits, MaxQuits, MaxChanges  \* bounds: what the reader does

VARIABLES
    app,       \* "runs", "exited"
    window,    \* is there one
    dirty,     \* the window holds unsaved edits
    unsaved,   \* unsavedPaths is not empty
    stores,    \* the session's documents are open
    asking,    \* askingAboutUnsaved
    discard,   \* discardConfirmed
    step,      \* the step of the shutdown: 0 before it, Done when all are over
    wanted,    \* the settings, as the number of changes made to them
    chain,     \* the settings still to be written, in writeChain
    disk,      \* the settings on disk
    drained,   \* the settings drain() waits for
    edits, quits,
    lost,      \* history: edits the reader chose to review were replaced
    cut        \* history: a step ran late, a write failed, or a second quit ended the shutdown

settingsVars == <<wanted, chain, disk>>
quitVars == <<app, window, stores, asking, step, drained, cut>>
vars == <<quitVars, dirty, unsaved, discard, settingsVars, edits, quits, lost>>

Settings == 4            \* plugins, experimental-runtime, service, settings
Done == Settings + 1

Init ==
    /\ app = "runs" /\ window = TRUE /\ dirty = FALSE /\ unsaved = FALSE /\ stores = TRUE
    /\ asking = FALSE /\ discard = FALSE /\ step = 0
    /\ wanted = 0 /\ chain = <<>> /\ disk = 0 /\ drained = 0
    /\ edits = 0 /\ quits = 0 /\ lost = FALSE /\ cut = FALSE

\* Every variable holds a value the code can give it.
TypeOK ==
    /\ app \in {"runs", "exited"}
    /\ window \in BOOLEAN /\ dirty \in BOOLEAN /\ unsaved \in BOOLEAN /\ stores \in BOOLEAN
    /\ asking \in BOOLEAN /\ discard \in BOOLEAN /\ lost \in BOOLEAN /\ cut \in BOOLEAN
    /\ step \in 0..Done
    /\ wanted \in Nat /\ disk \in Nat /\ drained \in Nat /\ edits \in Nat /\ quits \in Nat
    /\ chain \in Seq(Nat)

Held(discarded) == unsaved /\ ~discarded

(***************************************************************************)
(* app.quit(): every before-quit listener runs, also when one prevents it, *)
(* so each looks at the same hold.                                         *)
(***************************************************************************)
Passes ==
    /\ stores' = FALSE
    /\ cut' = (cut \/ step \in 1..Settings)
    /\ IF step = 0 THEN step' = 1 /\ UNCHANGED app
       ELSE app' = "exited" /\ UNCHANGED step

\* Mutant: the stores are closed whatever the first listener found.
StoresGoFirst(discarded, asked) ==
    IF Held(discarded) THEN asking' = TRUE /\ stores' = FALSE /\ UNCHANGED <<app, step, cut>>
    ELSE asking' = asked /\ Passes

BeforeQuit(discarded, asked) ==
    IF Held(discarded) THEN asking' = TRUE /\ UNCHANGED <<app, step, stores, cut>>
    ELSE asking' = asked /\ Passes

\* The reader quits, perhaps once more while the steps of the first run.
Quit ==
    /\ app = "runs" /\ quits < MaxQuits
    /\ quits' = quits + 1
    /\ BeforeQuit(discard, asking)
    /\ UNCHANGED <<window, dirty, unsaved, discard, settingsVars, drained, edits, lost>>

\* The window is closed, with the edits main has not heard of; without a
\* window the app quits.
CloseWindow ==
    /\ app = "runs" /\ window /\ ~asking
    /\ BeforeQuit(discard, FALSE)
    /\ window' = Held(discard)
    /\ dirty' = (dirty /\ window')
    /\ UNCHANGED <<unsaved, discard, settingsVars, drained, edits, quits, lost>>

\* Discard and Quit
Discard ==
    /\ app = "runs" /\ asking
    /\ discard' = TRUE
    /\ BeforeQuit(TRUE, FALSE)
    /\ UNCHANGED <<window, dirty, unsaved, settingsVars, drained, edits, quits, lost>>

\* Review Changes: the first unsaved note comes to the front.  A session that
\* has let go of its documents reads it afresh, and the window shows that.
Review ==
    /\ app = "runs" /\ asking
    /\ asking' = FALSE
    /\ IF unsaved /\ ~stores
       THEN /\ stores' = TRUE
            /\ dirty' = FALSE
            /\ lost' = (lost \/ dirty)
       ELSE UNCHANGED <<stores, dirty, lost>>
    /\ UNCHANGED <<app, window, step, drained, cut, unsaved, discard, settingsVars, edits, quits>>

(***************************************************************************)
(* The steps of the shutdown.                                              *)
(***************************************************************************)
\* The next step starts, the last of them by asking for the settings chain as
\* it is now; after it the app quits again.
StepOver ==
    /\ step' = step + 1
    /\ drained' = IF step' = Settings THEN wanted ELSE drained
    /\ IF step < Settings THEN UNCHANGED <<app, stores, asking>>
       ELSE IF Held(discard) THEN asking' = TRUE /\ UNCHANGED <<app, stores>>
       ELSE stores' = FALSE /\ app' = "exited" /\ UNCHANGED asking

Drained == \A i \in DOMAIN chain : chain[i] > drained

\* Mutant: the settings are not waited for.
AnyStepSettles(n) == TRUE

\* Plugins and services may settle or never do; the settings do once written.
Settles(n) == n = Settings => Drained

StepSettles ==
    /\ app = "runs" /\ step \in 1..Settings
    /\ Settles(step)
    /\ StepOver
    /\ UNCHANGED <<cut, window, dirty, unsaved, discard, settingsVars, edits, quits, lost>>

\* Mutant: a step is waited for.
NoDeadline == FALSE
Deadline == app = "runs" /\ step \in 1..Settings

StepIsLate ==
    /\ Deadline
    /\ StepOver
    /\ cut' = TRUE
    /\ UNCHANGED <<window, dirty, unsaved, discard, settingsVars, edits, quits, lost>>

(***************************************************************************)
(* The window, as far as a quit has to do with it.                         *)
(***************************************************************************)
Type ==
    /\ app = "runs" /\ window /\ ~asking /\ edits < MaxEdits
    /\ edits' = edits + 1
    /\ dirty' = TRUE
    /\ UNCHANGED <<quitVars, unsaved, discard, settingsVars, quits, lost>>

\* A save of a document the session has let go of is refused.
Save ==
    /\ app = "runs" /\ window /\ dirty /\ stores
    /\ dirty' = FALSE
    /\ UNCHANGED <<quitVars, unsaved, discard, settingsVars, edits, quits, lost>>

\* unsavedChanged
Report ==
    /\ app = "runs" /\ window /\ unsaved # dirty
    /\ unsaved' = dirty
    /\ UNCHANGED <<quitVars, dirty, discard, settingsVars, edits, quits, lost>>

(***************************************************************************)
(* SettingsStore.                                                          *)
(***************************************************************************)
\* update: the settings change at once, their snapshot waits its turn.
Update ==
    /\ app = "runs" /\ window /\ wanted < MaxChanges
    /\ wanted' = wanted + 1
    /\ chain' = Append(chain, wanted')
    /\ UNCHANGED <<quitVars, dirty, unsaved, discard, disk, edits, quits, lost>>

\* Mutant: snapshots are written side by side.
AnySnapshot == DOMAIN chain
NextSnapshot == IF chain = <<>> THEN {} ELSE {1}

\* persistSnapshot: a temporary file renamed over the old one, or a failure,
\* which leaves the old one and lets the next go on.
Persist(fails) ==
    /\ app = "runs"
    /\ \E i \in NextSnapshot :
        /\ disk' = IF fails THEN disk ELSE chain[i]
        /\ chain' = [k \in 1..Len(chain) - 1 |-> IF k < i THEN chain[k] ELSE chain[k + 1]]
    /\ cut' = (cut \/ fails)
    /\ UNCHANGED <<app, window, stores, asking, step, drained, dirty, unsaved, discard, wanted, edits, quits, lost>>

Next ==
    \/ Quit \/ CloseWindow \/ Discard \/ Review
    \/ StepSettles \/ StepIsLate
    \/ Type \/ Save \/ Report \/ Update \/ (\E fails \in BOOLEAN : Persist(fails))

\* A step ends by its deadline and a question is answered; a plugin need not
\* settle, nor a write end.
Fairness ==
    /\ WF_vars(StepIsLate) /\ WF_vars(Discard \/ Review)

Spec == Init /\ [][Next]_vars /\ Fairness

(***************************************************************************)
(* Properties.                                                             *)
(***************************************************************************)
\* A shutdown once started ends: whatever a plugin or a service does, the app
\* exits or asks the reader about unsaved notes.
QuitEnds == step \in 1..Settings ~> app = "exited" \/ asking

\* Review Changes finds the edits it is about, as long as no shutdown has run.
ReviewKeepsEdits == lost => step > 0

\* An app that exits after all its steps has the settings on disk as they were
\* when it began to wait for them, and never older ones.
SettingsLand == app = "exited" /\ step = Done /\ ~cut => disk >= drained /\ (chain = <<>> => disk = wanted)

\* Edits are there to be saved after the question (main.ts:238 "Back to the
\* first of them, so the reader can save or drop it").
StillSavable == ~lost

\* A setting changed before the reader quits is on disk when the app has
\* exited, unless its write failed or was late (settings-store.ts:55).
QuitWaits == [][app' = "exited" /\ app # "exited" => step' = Done]_vars
=============================================================================
