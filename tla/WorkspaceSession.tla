-------------------------- MODULE WorkspaceSession --------------------------
(***************************************************************************)
(* The notes a window has open (src/src/main/workspace/session.ts): the    *)
(* map from paths to stores, opens that have not finished, the note in     *)
(* front, the closed list, and the row actions that move files under them  *)
(* (rename, move, trash), with saves running in the stores meanwhile.      *)
(*                                                                         *)
(* Every await of an operation is a boundary between two steps.  A file is *)
(* an identity; a store is what the session can see of one (FileTruthStore *)
(* has its transactions).  One folder of notes: nested folders, the code   *)
(* viewer, recent files, titles and dialogs are left out.                  *)
(***************************************************************************)
EXTENDS Naturals, Sequences, SequencesExt

CONSTANTS
    Paths,          \* paths in the open folder
    Notes,          \* those with a file to begin with
    None,           \* nothing
    MAX_TABS,       \* documents that may be open at once
    MAX_CLOSED,     \* closed paths remembered
    MaxOpens,       \* stores made
    MaxMoves,       \* row actions
    MaxSaves,       \* saves started
    MaxFaults,      \* saves that leave recovery evidence
    MaxForeign      \* files other programs make or remove

ASSUME ConstantsAssumption ==
    /\ Notes \subseteq Paths
    /\ None \notin Paths \cup Nat
    /\ {MAX_TABS, MAX_CLOSED} \subseteq Nat \ {0}
    /\ {MaxOpens, MaxMoves, MaxSaves, MaxFaults, MaxForeign} \subseteq Nat

VARIABLES
    files,      \* the file each path names
    evidence,   \* paths with durable recovery evidence beside them
    stores,     \* the stores made, in order
    documents,  \* the Map of open documents, in insertion order
    opening,    \* opens that have not finished, by path
    activePath, \* the document in front
    closed,     \* paths closed, most recent last
    reopening,  \* the candidate Reopen Closed File is looking for
    moves,      \* row actions
    window,     \* the document the window was last told is in front
    spent       \* budgets used

vars == <<files, evidence, stores, documents, opening, activePath, closed, reopening,
          moves, window, spent>>

File  == Paths \cup Nat
Store == [path : Paths, file : File \cup {None},
          stage : {"reading", "read", "listed", "loaded", "failed"},
          closed : BOOLEAN,     \* close() was called
          reopened : BOOLEAN,   \* Reopen Closed File waits for it
          saving : BOOLEAN,     \* a transaction is active
          blocked : BOOLEAN,    \* it holds a recovery record
          gone : BOOLEAN]       \* its watcher saw the file missing
Tab   == [path : Paths, store : 1..MaxOpens]
Move  == [from : Paths, to : Paths \cup {None},      \* None: the trash
          stage : {"checked", "started", "moved", "done"}]

TypeOK ==
    /\ files \in [Paths -> File \cup {None}]
    /\ evidence \subseteq Paths
    /\ stores \in Seq(Store) /\ Len(stores) <= MaxOpens
    /\ documents \in Seq(Tab)
    /\ opening \in [Paths -> (1..MaxOpens) \cup {None}]
    /\ activePath \in Paths \cup {None}
    /\ closed \in Seq(Paths) /\ Len(closed) <= MAX_CLOSED + 1
    /\ reopening \in Paths \cup {None}
    /\ moves \in Seq(Move) /\ Len(moves) <= MaxMoves
    /\ window \in (1..MaxOpens) \cup {None}
    /\ spent \in [saves : Nat, faults : Nat, foreign : Nat, files : Nat]

Init ==
    /\ files = [p \in Paths |-> IF p \in Notes THEN p ELSE None]
    /\ evidence = {}
    /\ stores = <<>> /\ documents = <<>> /\ moves = <<>>
    /\ opening = [p \in Paths |-> None]
    /\ activePath = None /\ window = None
    /\ closed = <<>> /\ reopening = None
    /\ spent = [saves |-> 0, faults |-> 0, foreign |-> 0, files |-> 0]

-----------------------------------------------------------------------------
(***************************************************************************)
(* The map and what the window is told.                                    *)
(***************************************************************************)
PathsOf(tabs) == {tabs[i].path : i \in DOMAIN tabs}
IndexOf(tabs, p) == CHOOSE i \in DOMAIN tabs : tabs[i].path = p
StoreAt(tabs, p) == tabs[IndexOf(tabs, p)].store

\* Map.set: an existing key keeps its place.
SetDocument(tabs, p, s) ==
    IF p \in PathsOf(tabs)
    THEN [tabs EXCEPT ![IndexOf(tabs, p)].store = s]
    ELSE Append(tabs, [path |-> p, store |-> s])

\* Mutant: the tabs event is left out.
Unpublished == UNCHANGED window

\* The window follows the tabs event, which says which tab is in front.
InFront(tabs, p) == IF p \in PathsOf(tabs) THEN StoreAt(tabs, p) ELSE None
PublishTabs == window' = InFront(documents', activePath')

-----------------------------------------------------------------------------
(***************************************************************************)
(* Opening.                                                                *)
(***************************************************************************)
\* Mutant: the list is never cut.
AllRemembered(list, p) == Append(SelectSeq(list, LAMBDA q : q # p), p)

\* Each closed path once, the most recent last, the oldest dropped.
Remembered(list, p) ==
    LET others == SelectSeq(list, LAMBDA q : q # p)
        all    == Append(others, p)
    IN  IF Len(all) > MAX_CLOSED THEN SubSeq(all, Len(all) - MAX_CLOSED + 1, Len(all)) ELSE all

Activate(p) ==
    /\ activePath' = p
    /\ PublishTabs
    /\ UNCHANGED <<stores, documents, opening>>

\* The part of openMarkdownPath before its first await: an open note comes to
\* the front, one being opened is waited for, otherwise a store is made.
OpenMarkdownPath(p, reopened) ==
    \/ /\ p \in PathsOf(documents)
       /\ UNCHANGED documents
       /\ Activate(p)
       /\ UNCHANGED closed
    \/ /\ p \notin PathsOf(documents)
       /\ opening[p] # None
       /\ stores' = [stores EXCEPT ![opening[p]].reopened = @ \/ reopened]
       /\ UNCHANGED <<documents, opening, activePath, window, closed>>
    \/ /\ p \notin PathsOf(documents)
       /\ opening[p] = None
       /\ Len(documents) >= MAX_TABS
       /\ closed' = IF reopened THEN Append(closed, p) ELSE closed
       /\ UNCHANGED <<stores, documents, opening, activePath, window>>
    \/ /\ p \notin PathsOf(documents)
       /\ opening[p] = None
       /\ Len(documents) < MAX_TABS
       /\ Len(stores) < MaxOpens
       /\ stores' = Append(stores,
            [path |-> p, file |-> None, stage |-> "reading", closed |-> FALSE,
             reopened |-> reopened, saving |-> FALSE, blocked |-> FALSE, gone |-> FALSE])
       /\ opening' = [opening EXCEPT ![p] = Len(stores) + 1]
       /\ UNCHANGED <<documents, activePath, window, closed>>

OpenPath(p) ==
    /\ OpenMarkdownPath(p, FALSE)
    /\ UNCHANGED <<files, evidence, reopening, moves, spent>>

\* Mutant: a failed open stays in the map of opens.
StillOpening(s) ==
    /\ s \in DOMAIN stores
    /\ stores[s].stage = "reading"
    /\ files[stores[s].path] = None
    /\ stores' = [stores EXCEPT ![s].stage = "failed", ![s].closed = TRUE]
    /\ UNCHANGED <<files, evidence, documents, opening, activePath, closed, reopening,
                   moves, window, spent>>

\* store.open reads the file and any record beside it, or throws.
OpenReads(s) ==
    /\ s \in DOMAIN stores
    /\ stores[s].stage = "reading"
    /\ LET p == stores[s].path IN
       \/ /\ files[p] # None
          /\ stores' = [stores EXCEPT ![s].stage = "read", ![s].file = files[p],
                                      ![s].blocked = p \in evidence]
          /\ UNCHANGED <<opening, closed>>
       \/ /\ files[p] = None
          /\ stores' = [stores EXCEPT ![s].stage = "failed", ![s].closed = TRUE]
          /\ opening' = [opening EXCEPT ![p] = None]
          /\ closed' = IF stores[s].reopened THEN Append(closed, p) ELSE closed
    /\ UNCHANGED <<files, evidence, documents, activePath, reopening, moves, window, spent>>

\* The document is listed and in front; the folder and the recent list are
\* awaited before the window hears of it.
OpenListed(s) ==
    /\ s \in DOMAIN stores
    /\ stores[s].stage = "read"
    /\ stores' = [stores EXCEPT ![s].stage = "listed"]
    /\ documents' = SetDocument(documents, stores[s].path, s)
    /\ activePath' = stores[s].path
    /\ UNCHANGED <<files, evidence, opening, closed, reopening, moves, window, spent>>

\* Mutant: only the opened note is sent, not which tab is in front.
OnlyOpened(s) ==
    /\ s \in DOMAIN stores
    /\ stores[s].stage = "listed"
    /\ stores' = [stores EXCEPT ![s].stage = "loaded"]
    /\ opening' = [p \in Paths |-> IF opening[p] = s THEN None ELSE opening[p]]
    /\ window' = s
    /\ UNCHANGED <<files, evidence, documents, activePath, closed, reopening, moves, spent>>

OpenPublished(s) ==
    /\ s \in DOMAIN stores
    /\ stores[s].stage = "listed"
    /\ stores' = [stores EXCEPT ![s].stage = "loaded"]
    /\ opening' = [p \in Paths |-> IF opening[p] = s THEN None ELSE opening[p]]
    /\ UNCHANGED <<documents, activePath>>
    /\ PublishTabs
    /\ UNCHANGED <<files, evidence, closed, reopening, moves, spent>>

\* Any open document may be brought to the front.
Show(p) ==
    /\ p \in PathsOf(documents) /\ p # activePath
    /\ UNCHANGED documents
    /\ Activate(p)
    /\ UNCHANGED <<files, evidence, closed, reopening, moves, spent>>

-----------------------------------------------------------------------------
(***************************************************************************)
(* Closing, and Reopen Closed File.                                        *)
(***************************************************************************)
\* Mutant: the closing tab's own place is read.
SamePlace(tabs, p) == tabs[IndexOf(tabs, p)].path

\* The tab to the left comes to the front, or the one to the right.
Neighbour(tabs, p) ==
    LET i == IndexOf(tabs, p) IN
    IF i > 1 THEN tabs[i - 1].path ELSE IF Len(tabs) > 1 THEN tabs[2].path ELSE None

\* Mutant: the store in front is the one released.
CloseFront(p, remember) ==
    /\ stores' = [stores EXCEPT ![StoreAt(documents, activePath)].closed = TRUE]
    /\ documents' = RemoveAt(documents, IndexOf(documents, p))
    /\ closed' = IF remember THEN Remembered(closed, p) ELSE closed
    /\ activePath' = IF activePath = p THEN Neighbour(documents, p) ELSE activePath
    /\ PublishTabs

Close(p, remember) ==
    /\ stores' = [stores EXCEPT ![StoreAt(documents, p)].closed = TRUE]
    /\ documents' = RemoveAt(documents, IndexOf(documents, p))
    /\ closed' = IF remember THEN Remembered(closed, p) ELSE closed
    /\ activePath' = IF activePath = p THEN Neighbour(documents, p) ELSE activePath
    /\ PublishTabs

\* The reader closes a tab, or the window releases one behind the front.
CloseTab(p, remember) ==
    /\ p \in PathsOf(documents)
    /\ remember \/ p # activePath
    /\ Close(p, remember)
    /\ UNCHANGED <<files, evidence, opening, reopening, moves, spent>>

ReopenClosed ==
    /\ reopening = None
    /\ closed # <<>>
    /\ reopening' = Last(closed)
    /\ closed' = Front(closed)
    /\ UNCHANGED <<files, evidence, stores, documents, opening, activePath, moves,
                   window, spent>>

\* A candidate that is gone from disk is passed over for the one before it.
ReopenFound ==
    /\ reopening \in Paths
    /\ \/ /\ files[reopening] # None
          /\ reopening' = None
          /\ OpenMarkdownPath(reopening, TRUE)
       \/ /\ files[reopening] = None
          /\ reopening' = IF closed = <<>> THEN None ELSE Last(closed)
          /\ closed' = IF closed = <<>> THEN closed ELSE Front(closed)
          /\ UNCHANGED <<stores, documents, opening, activePath, window>>
    /\ UNCHANGED <<files, evidence, moves, spent>>

-----------------------------------------------------------------------------
(***************************************************************************)
(* Saves, as the session sees them: a store that is busy, and then a file  *)
(* that changed, a conflict, or recovery evidence.                         *)
(***************************************************************************)
Busy(s) == stores[s].saving \/ stores[s].blocked

NewFile == spent.files + 1

SaveStart(s) ==
    /\ spent.saves < MaxSaves
    /\ \E i \in DOMAIN documents : documents[i].store = s
    /\ stores[s].stage = "loaded"
    /\ ~Busy(s)
    /\ stores' = [stores EXCEPT ![s].saving = TRUE]
    /\ spent' = [spent EXCEPT !.saves = @ + 1]
    /\ UNCHANGED <<files, evidence, documents, opening, activePath, closed, reopening,
                   moves, window>>

\* The path must still name the accepted file, or be known to name none.
SaveEnd(s) ==
    /\ s \in DOMAIN stores
    /\ stores[s].saving
    /\ LET p == stores[s].path
           expected == files[p] = stores[s].file \/ (files[p] = None /\ stores[s].gone)
       IN
       \/ /\ expected
          /\ files' = [files EXCEPT ![p] = NewFile]
          /\ stores' = [stores EXCEPT ![s].saving = FALSE, ![s].file = NewFile, ![s].gone = FALSE]
          /\ spent' = [spent EXCEPT !.files = @ + 1]
          /\ UNCHANGED evidence
       \/ /\ ~expected
          /\ stores' = [stores EXCEPT ![s].saving = FALSE]
          /\ UNCHANGED <<files, evidence, spent>>
       \/ /\ spent.faults < MaxFaults
          /\ stores' = [stores EXCEPT ![s].saving = FALSE, ![s].blocked = TRUE]
          /\ evidence' = evidence \cup {p}
          /\ spent' = [spent EXCEPT !.faults = @ + 1]
          /\ UNCHANGED files
    /\ UNCHANGED <<documents, opening, activePath, closed, reopening, moves, window>>

\* The watcher of a live store sees its file go or come back.
Noticed(s) ==
    /\ s \in DOMAIN stores
    /\ stores[s].stage \in {"read", "listed", "loaded"}
    /\ ~stores[s].closed /\ ~stores[s].saving
    /\ stores[s].gone # (files[stores[s].path] = None)
    /\ stores' = [stores EXCEPT ![s].gone = ~@]
    /\ UNCHANGED <<files, evidence, documents, opening, activePath, closed, reopening,
                   moves, window, spent>>

-----------------------------------------------------------------------------
(***************************************************************************)
(* Row actions.                                                            *)
(***************************************************************************)
BusyUnder(p) == \E i \in DOMAIN documents : documents[i].path = p /\ Busy(documents[i].store)

Resume(i, stage) == moves' = [moves EXCEPT ![i].stage = stage]

At(i, stage) == i \in DOMAIN moves /\ moves[i].stage = stage

\* Rename and move: the source is real, and nothing stands at the destination.
MoveAsked(from, to) ==
    /\ Len(moves) < MaxMoves
    /\ from # to
    /\ files[from] # None
    /\ files[to] = None
    /\ moves' = Append(moves, [from |-> from, to |-> to, stage |-> "checked"])
    /\ UNCHANGED <<files, evidence, stores, documents, opening, activePath, closed,
                   reopening, window, spent>>

MoveStarts(i) ==
    /\ At(i, "checked")
    /\ Resume(i, IF BusyUnder(moves[i].from) THEN "done" ELSE "started")
    /\ UNCHANGED <<files, evidence, stores, documents, opening, activePath, closed,
                   reopening, window, spent>>

TrashAsked(p) ==
    /\ Len(moves) < MaxMoves
    /\ files[p] # None
    /\ ~BusyUnder(p)
    /\ moves' = Append(moves, [from |-> p, to |-> None, stage |-> "started"])
    /\ UNCHANGED <<files, evidence, stores, documents, opening, activePath, closed,
                   reopening, window, spent>>

\* rename() replaces whatever the destination names; trashItem() takes the file
\* away; either fails when there is none.
FileMoves(i) ==
    /\ At(i, "started")
    /\ LET m == moves[i] IN
       \/ /\ files[m.from] # None
          /\ files' = [p \in Paths |-> IF p = m.from THEN None
                                       ELSE IF p = m.to THEN files[m.from] ELSE files[p]]
          /\ Resume(i, "moved")
       \/ /\ files[m.from] = None
          /\ Resume(i, "done")
          /\ UNCHANGED files
    /\ UNCHANGED <<evidence, stores, documents, opening, activePath, closed, reopening,
                   window, spent>>

\* Mutant: the old key is kept.
KeyKept(tabs, from, to) == SetDocument(tabs, to, StoreAt(tabs, from))

\* The map rebuilt in order with the moved path renamed.  A key keeps its first
\* place and its last value, and only the new path can come up twice.
Rebuilt(tabs, from, to) ==
    LET i     == IndexOf(tabs, from)
        j     == IndexOf(tabs, to)
        first == IF i < j THEN i ELSE j
        last  == IF i < j THEN j ELSE i
    IN  IF to \notin PathsOf(tabs)
        THEN [tabs EXCEPT ![i].path = to]
        ELSE RemoveAt([tabs EXCEPT ![first] = [path |-> to, store |-> tabs[last].store]], last)

\* Mutant: the front is left at the old path.
Unfollowed(p, from, to) == p

\* The document in front stays in front under its new path.
Followed(p, from, to) == IF p = from THEN to ELSE p

FollowMove(i) ==
    /\ At(i, "moved") /\ moves[i].to # None
    /\ Resume(i, "done")
    /\ LET from == moves[i].from
           to   == moves[i].to
       IN
       \/ /\ from \in PathsOf(documents)
          /\ LET s == StoreAt(documents, from) IN
             stores' = IF Busy(s) THEN stores ELSE [stores EXCEPT ![s].path = to]
          /\ documents' = Rebuilt(documents, from, to)
          /\ activePath' = Followed(activePath, from, to)
          /\ PublishTabs
       \/ /\ from \notin PathsOf(documents)
          /\ UNCHANGED <<stores, documents, activePath, window>>
    /\ UNCHANGED <<files, evidence, opening, closed, reopening, spent>>

\* Anything open at the trashed path has no file any more, so its tab goes.
FollowTrash(i) ==
    /\ At(i, "moved") /\ moves[i].to = None
    /\ Resume(i, "done")
    /\ \/ /\ moves[i].from \in PathsOf(documents)
          /\ Close(moves[i].from, TRUE)
       \/ /\ moves[i].from \notin PathsOf(documents)
          /\ UNCHANGED <<stores, documents, closed, activePath, window>>
    /\ UNCHANGED <<files, evidence, opening, reopening, spent>>

-----------------------------------------------------------------------------
\* Another program makes or removes a file.
ForeignMakes(p) ==
    /\ spent.foreign < MaxForeign
    /\ files[p] = None
    /\ files' = [files EXCEPT ![p] = NewFile]
    /\ spent' = [spent EXCEPT !.foreign = @ + 1, !.files = @ + 1]
    /\ UNCHANGED <<evidence, stores, documents, opening, activePath, closed, reopening,
                   moves, window>>

ForeignRemoves(p) ==
    /\ spent.foreign < MaxForeign
    /\ files[p] # None
    /\ files' = [files EXCEPT ![p] = None]
    /\ spent' = [spent EXCEPT !.foreign = @ + 1]
    /\ UNCHANGED <<evidence, stores, documents, opening, activePath, closed, reopening,
                   moves, window>>

Next ==
    \/ \E p \in Paths :
         \/ OpenPath(p) \/ Show(p)
         \/ \E remember \in BOOLEAN : CloseTab(p, remember)
         \/ TrashAsked(p) \/ ForeignMakes(p) \/ ForeignRemoves(p)
         \/ \E to \in Paths : MoveAsked(p, to)
    \/ ReopenClosed \/ ReopenFound
    \/ \E s \in 1..MaxOpens :
         OpenReads(s) \/ OpenListed(s) \/ OpenPublished(s)
         \/ SaveStart(s) \/ SaveEnd(s) \/ Noticed(s)
    \/ \E i \in 1..MaxMoves :
         MoveStarts(i) \/ FileMoves(i) \/ FollowMove(i) \/ FollowTrash(i)

Spec == Init /\ [][Next]_vars

\* Promises settle: an open that has started runs to its end.
Fairness == \A s \in 1..MaxOpens :
    WF_vars(OpenReads(s)) /\ WF_vars(OpenListed(s)) /\ WF_vars(OpenPublished(s))

FairSpec == Spec /\ Fairness

-----------------------------------------------------------------------------
\* The document in front is an open one, and there is one whenever anything is
\* open: through closes, opens that end late and moves of the files beneath.
FrontIsOpen ==
    /\ activePath = None <=> documents = <<>>
    /\ activePath # None => activePath \in PathsOf(documents)

\* Saves are routed to a document by identity, recovery to the document in
\* front: the window and the session agree on which that is, except between
\* the listing of a note just opened and its publication.
FrontAgrees ==
    (\A s \in DOMAIN stores : stores[s].stage # "listed")
      => window = InFront(documents, activePath)

\* An open document has a live store of its own: no store that was closed, that
\* is still reading, or that serves another tab.
OwnLiveStore ==
    /\ \A i \in DOMAIN documents :
         LET s == stores[documents[i].store] IN ~s.closed /\ s.stage \in {"listed", "loaded"}
    /\ \A i, j \in DOMAIN documents : documents[i].store = documents[j].store => i = j

\* Every open ends: a note that could not be opened can be opened again.
OpensEnd == \A p \in Paths : opening[p] # None ~> opening[p] = None

-----------------------------------------------------------------------------
(***************************************************************************)
(* What the repository says, and the code does not do in every             *)
(* interleaving.                                                           *)
(***************************************************************************)
\* session.ts:97: how many documents may be open at once.
TabsBounded == Len(documents) <= MAX_TABS

\* session.ts:917: every open document that lived under a path that just moved
\* is re-pointed, so a tab's store writes the path the tab names.
StoreIsAtTab == \A i \in DOMAIN documents : stores[documents[i].store].path = documents[i].path

\* session.ts:280: no store is replaced in the map without being closed.
NoOrphan ==
    \A s \in DOMAIN stores :
      stores[s].stage = "loaded" /\ ~stores[s].closed
        => \E i \in DOMAIN documents : documents[i].store = s

\* session.ts:453: the closed list holds each path once.
ClosedOnce == \A i, j \in DOMAIN closed : closed[i] = closed[j] => i = j

FileMoved(i) == At(i, "started") /\ moves'[i].stage = "moved"

\* entry-actions-packaged.spec.ts:101: a rename refuses a name already taken
\* rather than writing over it.
NeverWritesOver ==
    [][\A i \in DOMAIN moves :
         FileMoved(i) /\ moves[i].to # None => files[moves[i].to] = None]_vars

\* file-truth-store.ts:172: a file with recovery evidence keyed to its path must
\* not be moved.
EvidenceStays ==
    [][\A i \in DOMAIN moves : FileMoved(i) => moves[i].from \notin evidence]_vars
=============================================================================
