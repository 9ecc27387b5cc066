------------------------------ MODULE GitView ------------------------------
(***************************************************************************)
(* What Noto shows of git: the tree's marks (git-marks.ts) and the gutter  *)
(* of the note in front (session.ts updateGutter).  Both ask the system's  *)
(* git, debounced, and drop an answer that comes for another folder or an  *)
(* older revision.                                                         *)
(*                                                                         *)
(* A note's text is 0 or 1.  In disk it is both the file and the accepted  *)
(* document of the note's store.                                           *)
(***************************************************************************)
EXTENDS Naturals, FiniteSets

CONSTANTS
    Folders, First, None,   \* the folders, and the one open at start
    Notes,                  \* the notes, each open
    Home,                   \* the folder of each
    MaxWrites, MaxMoves, MaxFaults  \* bounds: saves and commits, folders and notes shown, failures

VARIABLES
    head, disk,   \* each note as last committed, and as saved
    away,         \* another program changed the repository; the window has not come back
    told,         \* git's bookkeeping changed where it is watched
    root, generation, located,
    opens,        \* open(): the generations that are still asking where the folder is
    timer,        \* refresh()'s timer
    status,       \* the update() running: its generation, and the repository as it began
    again,
    latest, tree, \* the marks in main, and the last the window was told
    front,
    gutterTimer,
    runs,         \* updateGutter() waiting for git; the newest has the latest gutterRun
    lastGutter, drawn,  \* the last event sent, and each note's gutter in the window
    writes, moves, faults,
    dark,         \* history: the last status, or its folder's location, failed
    overtaken,    \* history: a folder's first update found another's running
    muted         \* history: notes whose gutter or tree whose marks changed with no news of it

repo == <<head, disk, away, told, writes>>
marks == <<root, generation, located, opens, timer, status, again, latest, tree, dark, overtaken>>
gutter == <<front, gutterTimer, runs, lastGutter, drawn>>
vars == <<repo, marks, gutter, moves, faults, muted>>

NoMarks(f) == [root |-> f, files |-> {}]
Marks(f) == {n \in Notes : Home[n] = f /\ head[n] # disk[n]}
Diff(was, now) == IF was = now THEN {} ELSE {<<was, now>>}

Init ==
    /\ head = [n \in Notes |-> 0] /\ disk = head /\ away = FALSE /\ told = FALSE
    /\ root = First /\ generation = 1 /\ located = FALSE /\ opens = {1}
    /\ timer = FALSE /\ status = None /\ again = FALSE
    /\ latest = NoMarks(First) /\ tree = latest
    /\ front \in Notes /\ gutterTimer = TRUE /\ runs = {}
    /\ lastGutter = None /\ drawn = [n \in Notes |-> {}]
    /\ writes = 0 /\ moves = 0 /\ faults = 0
    /\ dark = FALSE /\ overtaken = FALSE /\ muted = {}

(***************************************************************************)
(* GitMarks                                                                *)
(***************************************************************************)
\* close, as open and a slow status do it
Closed == located' = FALSE /\ timer' = FALSE

Started(g) == [gen |-> g, root |-> root, seen |-> Marks(root)]

\* update: one at a time; a call during it asks for one more.
\* Mutant: a call during it is dropped.
UpdateOnce(g) ==
    /\ status' = IF status = None THEN Started(g) ELSE status
    /\ UNCHANGED <<again, overtaken>>

Update(g) ==
    IF status = None THEN status' = Started(g) /\ again' = FALSE /\ UNCHANGED overtaken
    ELSE again' = TRUE /\ overtaken' = (overtaken \/ status.gen # g) /\ UNCHANGED status

\* open
OpenFolder(f) ==
    /\ moves < MaxMoves /\ f # root
    /\ moves' = moves + 1
    /\ root' = f /\ generation' = generation + 1
    /\ latest' = NoMarks(f)
    /\ Closed /\ again' = FALSE /\ told' = FALSE
    /\ opens' = opens \cup {generation'}
    /\ dark' = FALSE /\ overtaken' = FALSE
    /\ UNCHANGED <<head, disk, away, writes, status, tree, gutter, faults, muted>>

\* locate has answered: nothing for a folder outside any repository
Located(g, found) ==
    /\ g \in opens
    /\ opens' = opens \ {g}
    /\ found \/ faults < MaxFaults
    /\ faults' = IF found THEN faults ELSE faults + 1
    /\ IF g = generation /\ found
       THEN located' = TRUE /\ Update(g) /\ UNCHANGED dark
       ELSE dark' = (dark \/ g = generation) /\ UNCHANGED <<located, status, again, overtaken>>
    /\ UNCHANGED <<repo, root, generation, timer, latest, tree, gutter, moves, muted>>

\* refresh, and onRefresh
Refresh ==
    /\ gutterTimer' = TRUE
    /\ timer' = (timer \/ located)

TimerFires ==
    /\ timer
    /\ timer' = FALSE
    /\ Update(generation)
    /\ UNCHANGED <<repo, root, generation, located, opens, latest, tree, dark, gutter, moves, faults, muted>>

\* emit: the marks found before are not news
Emit(files) ==
    /\ latest' = [root |-> root, files |-> files]
    /\ tree' = IF latest' = latest THEN tree ELSE latest'
    /\ muted' = (muted \ {root}) \cup {f \in {root} : tree'.root = root /\ tree' # latest'}

\* Mutant: an answer is taken whatever folder it was asked for.
AnyIsCurrent == TRUE
IsCurrent == status.gen = generation

\* the end of statusOnce, and of update's loop; git has read the repository as
\* it began or as it ended
StatusEnds(outcome) ==
    /\ status # None
    /\ outcome = "ok" \/ faults < MaxFaults
    /\ faults' = IF outcome = "ok" THEN faults ELSE faults + 1
    /\ IF IsCurrent
       THEN /\ \E seen \in {status.seen, Marks(status.root)} : Emit(IF outcome = "ok" THEN seen ELSE {})
            /\ dark' = (outcome # "ok")
            /\ again' = FALSE
            /\ status' = IF again /\ outcome # "slow" THEN Started(status.gen) ELSE None
            /\ IF outcome = "slow" THEN Closed ELSE UNCHANGED <<located, timer>>
       ELSE status' = None /\ UNCHANGED <<latest, tree, muted, dark, again, located, timer>>
    /\ UNCHANGED <<repo, root, generation, opens, overtaken, gutter, moves>>

(***************************************************************************)
(* The gutter of the note in front                                         *)
(***************************************************************************)
Bring(n) ==
    /\ moves < MaxMoves /\ n # front
    /\ moves' = moves + 1
    /\ front' = n /\ gutterTimer' = TRUE
    /\ UNCHANGED <<repo, marks, runs, lastGutter, drawn, faults, muted>>

\* updateGutter, up to the question
GutterFires ==
    /\ gutterTimer
    /\ gutterTimer' = FALSE
    /\ runs' = {[r EXCEPT !.newest = FALSE] : r \in runs} \cup
               {[newest |-> TRUE, note |-> n, accepted |-> disk[n], head |-> head[n]] : n \in {front}}
    /\ UNCHANGED <<repo, marks, front, lastGutter, drawn, moves, faults, muted>>

\* Mutant: an answer is taken whatever was asked since.
AnyAnswer(r) == TRUE

\* A save, a switch of note or a newer run while git was answering.
Answers(r) == r.newest /\ disk[r.note] = r.accepted

Silent(diff) == diff = {} /\ (lastGutter = None \/ lastGutter.diff = {})

GutterAnswers ==
    /\ \E r \in runs : \E was \in {r.head, head[r.note]} :
        LET diff == Diff(was, r.accepted) IN
        /\ runs' = runs \ {r}
        /\ IF Answers(r)
           THEN /\ lastGutter' = [note |-> r.note, diff |-> diff]
                /\ IF Silent(diff)
                   THEN muted' = muted \cup {n \in {r.note} : drawn[n] # {}} /\ UNCHANGED drawn
                   ELSE drawn' = [drawn EXCEPT ![r.note] = diff] /\ muted' = muted \ {r.note}
           ELSE UNCHANGED <<lastGutter, drawn, muted>>
    /\ UNCHANGED <<repo, marks, front, gutterTimer, moves, faults>>

(***************************************************************************)
(* The repository, and the window                                          *)
(***************************************************************************)
\* A save of a note, and of one left behind that was saving.
Save(n) ==
    /\ writes < MaxWrites
    /\ writes' = writes + 1
    /\ disk' = [disk EXCEPT ![n] = 1 - @]
    /\ Refresh
    /\ UNCHANGED <<head, away, told, root, generation, located, opens, status, again, latest, tree, dark, overtaken,
                   front, runs, lastGutter, drawn, moves, faults, muted>>

Commit(n) ==
    /\ writes < MaxWrites /\ head[n] # disk[n]
    /\ writes' = writes + 1
    /\ head' = [head EXCEPT ![n] = disk[n]]
    /\ away' = TRUE
    /\ told' = (told \/ (located /\ Home[n] = root))
    /\ UNCHANGED <<disk, marks, gutter, moves, faults, muted>>

\* watchBookkeeping
Watch ==
    /\ told
    /\ told' = FALSE
    /\ Refresh
    /\ UNCHANGED <<head, disk, away, writes, root, generation, located, opens, status, again, latest, tree, dark, overtaken,
                   front, runs, lastGutter, drawn, moves, faults, muted>>

Focus ==
    /\ away
    /\ away' = FALSE
    /\ Refresh
    /\ UNCHANGED <<head, disk, told, writes, root, generation, located, opens, status, again, latest, tree, dark, overtaken,
                   front, runs, lastGutter, drawn, moves, faults, muted>>

\* The window is loaded again: republish, and the marks it asks for itself.
Reload ==
    /\ moves < MaxMoves
    /\ moves' = moves + 1
    /\ tree' = latest
    /\ drawn' = [n \in Notes |-> IF lastGutter # None /\ lastGutter.note = n THEN lastGutter.diff ELSE {}]
    /\ gutterTimer' = TRUE
    /\ muted' = {}
    /\ UNCHANGED <<repo, root, generation, located, opens, timer, status, again, latest, dark, overtaken,
                   front, runs, lastGutter, faults>>

Reader ==
    \/ \E f \in Folders : OpenFolder(f)
    \/ \E n \in Notes : Bring(n) \/ Save(n) \/ Commit(n)
    \/ Reload

Runs ==
    \/ \E g \in opens, found \in BOOLEAN : Located(g, found)
    \/ TimerFires  \/ \E outcome \in {"ok", "failed", "slow"} : StatusEnds(outcome)
    \/ GutterFires \/ GutterAnswers
    \/ Watch \/ Focus

Next == Reader \/ Runs

\* Timers fire, git ends or is ended, and the reader comes back to the window.
Fairness == WF_vars(Runs)
Spec == Init /\ [][Next]_vars /\ Fairness

(***************************************************************************)
(* Properties.                                                             *)
(***************************************************************************)
\* The marks are those of the folder that is open, whenever the answer comes.
MarksAreTheFolders == latest.root = root /\ \A n \in latest.files : Home[n] = root

\* Once the repository rests, the tree shows the notes that differ from the
\* last commit, unless git failed, the folder was opened during the update of
\* the one before, or the change was not thought news.
MarksSettle ==
    <>[](dark \/ overtaken \/ root \in muted
         \/ (latest.files = Marks(root) /\ (tree.root = root => tree.files = Marks(root))))

\* Once the repository rests, the gutter of the note in front is its
\* difference from the last commit, unless the change was not thought news.
GutterSettles ==
    <>[](front \in muted \/ drawn[front] = Diff(head[front], disk[front]))

\* Both settle.
GitSettles == MarksSettle /\ GutterSettles

\* A folder just opened has its marks once git answers (git-marks.ts:235
\* "Resolves once the first status is in").
FolderHasMarks == <>[](dark \/ latest.files = Marks(root))

\* What is not sent is not drawn (session.ts:1609 "Nothing to draw and nothing
\* drawn: not news").
NothingDrawn == muted \cap Notes = {}

\* Marks not sent again are those the tree shows (git-marks.ts:356 "A status
\* that found what the last one found is not news").
TreeIsTold == muted \cap Folders = {}
=============================================================================
