---------------------------- MODULE FolderCaches ----------------------------
(***************************************************************************)
(* What the workspace session remembers of the open folder: the file index *)
(* that Quick Open and wiki links answer from, the tag index, the rows the *)
(* tree was sent, and the watcher that is to make it forget them           *)
(* (src/main/workspace/session.ts, vault-watcher.ts).                      *)
(*                                                                         *)
(* Every answer is computed by a call that awaits the disk while folders   *)
(* are switched, Noto itself and other programs make, move and remove      *)
(* notes, and earlier batches of events are looked at.  A folder is flat   *)
(* and each read of it is one moment.                                      *)
(***************************************************************************)
EXTENDS Naturals, FiniteSets

CONSTANTS
    Folders,      \* folders the reader may open
    Names,        \* names a note may have
    Texts,        \* what a note may say, as far as its tags go
    InitialNotes, \* the notes every folder begins with,
    InitialText,  \* and what a note says at first
    None,
    Calls,        \* slots for calls in flight
    MAX_TOUCHED,  \* touched names past which the watcher says "anything"
    MaxSwitches,  \* bound: folders adopted and watches that fail or report no name
    MaxOwn,       \* bound: row actions of Noto's own that change the folder
    MaxForeign,   \* bound: changes by other programs
    MaxAsked      \* bound: refreshes, listings, walks and scans asked for

ASSUME ConstantsAssumption ==
    /\ None \notin Texts /\ None \notin Folders
    /\ InitialNotes \subseteq Names /\ InitialText \in Texts
    /\ \A n \in {MAX_TOUCHED, MaxSwitches, MaxOwn, MaxForeign, MaxAsked} : n \in Nat

Contents == [Names -> Texts \cup {None}]

VARIABLES
    disk,             \* each folder's notes
    folderRoot, indexCache, tagIndexCache, listed,
    watching, events, \* the watch and the names the system has yet to report
    touched, lostTrack,
    calls,            \* what each slot is doing
    own,              \* row actions done on disk and not yet announced
    foreign,          \* notes other programs have changed
    switches, owned, foreigns, asked

session  == <<folderRoot, indexCache, tagIndexCache, listed>>
watcher  == <<watching, events, touched, lostTrack>>
bounds   == <<switches, owned, foreigns, asked>>
vars     == <<disk, session, watcher, calls, own, foreign, bounds>>

Present(folder) == {n \in Names : disk[folder][n] # None}

IndexSteps  == {"index-reading", "index-read"}
TagSteps    == {"tags-reading", "tags-read"}
ListSteps   == {"list-reading", "list-read"}
FollowSteps == {"follow-reading", "follow-read"}

\* A call: the folder it started from, whether the index generation has risen
\* since (a walk only ever compares generations for equality, so a flag stands
\* for the number), whether an index is for the tags, the names it read or knew,
\* the touched names it follows and those it found, the texts it read, and
\* whether a switch or a settled batch has overtaken it.
Call == [at : {"idle"} \cup IndexSteps \cup TagSteps \cup ListSteps \cup FollowSteps,
         root : Folders \cup {None}, outdated : BOOLEAN, forTags : BOOLEAN,
         names : SUBSET Names, batch : SUBSET Names, found : SUBSET Names,
         texts : Contents, overtaken : BOOLEAN]

Idle == [at |-> "idle", root |-> None, outdated |-> FALSE, forTags |-> FALSE,
         names |-> {}, batch |-> {}, found |-> {},
         texts |-> [n \in Names |-> None], overtaken |-> FALSE]

Indexes    == [root : Folders, entries : SUBSET Names, overtaken : BOOLEAN]
TagIndexes == [root : Folders, of : Folders, index : Contents, overtaken : BOOLEAN]

TypeOK ==
    /\ disk \in [Folders -> Contents]
    /\ folderRoot \in Folders \cup {None}
    /\ indexCache \in Indexes \cup {None}
    /\ tagIndexCache \in TagIndexes \cup {None}
    /\ listed \subseteq Names
    /\ watching \in BOOLEAN /\ events \subseteq Names
    /\ touched \subseteq Names /\ lostTrack \in BOOLEAN
    /\ calls \in [Calls -> Call]
    /\ own \in 0 .. MaxOwn
    /\ foreign \subseteq Folders \X Names
    /\ switches \in 0 .. MaxSwitches /\ owned \in 0 .. MaxOwn /\ foreigns \in 0 .. MaxForeign
    /\ asked \in 0 .. MaxAsked

Init ==
    /\ disk = [f \in Folders |->
                [n \in Names |-> IF n \in InitialNotes THEN InitialText ELSE None]]
    /\ folderRoot = None /\ indexCache = None
    /\ tagIndexCache = None /\ listed = {}
    /\ watching = FALSE /\ events = {} /\ touched = {} /\ lostTrack = FALSE
    /\ calls = [c \in Calls |-> Idle]
    /\ own = 0 /\ foreign = {}
    /\ switches = 0 /\ owned = 0 /\ foreigns = 0 /\ asked = 0

-----------------------------------------------------------------------------
(***************************************************************************)
(* The folder.                                                             *)
(***************************************************************************)
\* Calls at one of the given steps have been overtaken.
Overtaken(steps) ==
    [c \in Calls |-> [calls[c] EXCEPT !.overtaken = @ \/ calls[c].at \in steps]]

\* The generation rises: walks under way are outdated, and scans overtaken.
Outdated ==
    [c \in Calls |-> [Overtaken(TagSteps)[c] EXCEPT !.outdated = @ \/ calls[c].at \in IndexSteps]]

InvalidateFolderCaches ==
    /\ indexCache' = None
    /\ tagIndexCache' = None
    /\ calls' = Outdated

\* Another folder, or the same again.  Calls in flight are not told.
AdoptFolder(root) ==
    /\ switches < MaxSwitches
    /\ switches' = switches + 1
    /\ folderRoot' = root
    /\ indexCache' = None /\ tagIndexCache' = None /\ listed' = {}
    /\ watching' = TRUE /\ events' = {} /\ touched' = {} /\ lostTrack' = FALSE
    /\ calls' = Overtaken(IndexSteps \cup TagSteps)
    /\ UNCHANGED <<disk, own, foreign, owned, foreigns, asked>>

\* Refresh Folder: everything from scratch.
RefreshFolder ==
    /\ folderRoot # None
    /\ asked < MaxAsked
    /\ asked' = asked + 1
    /\ InvalidateFolderCaches
    /\ listed' = {}
    /\ UNCHANGED <<disk, folderRoot, watcher, own, foreign, switches, owned, foreigns>>

-----------------------------------------------------------------------------
(***************************************************************************)
(* The disk, as Noto and other programs change it.                         *)
(***************************************************************************)
\* The folder holds something else, and the system has names to report.
Changes(folder, contents) ==
    /\ contents # disk[folder]
    /\ disk' = [disk EXCEPT ![folder] = contents]
    /\ events' = IF watching /\ folder = folderRoot
                 THEN events \cup {n \in Names : contents[n] # disk[folder][n]}
                 ELSE events

\* What a new note, a duplicate, a trashed row, a rename or a move leaves.
RowAction(contents) ==
    LET free == {n \in Names : contents[n] = None}
        taken == Names \ free
    IN  { [contents EXCEPT ![n] = InitialText] : n \in free }
        \cup { [contents EXCEPT ![n] = contents[m]] : n \in free, m \in taken }
        \cup { [contents EXCEPT ![n] = None] : n \in taken }
        \cup { [contents EXCEPT ![n] = contents[m], ![m] = None] : n \in free, m \in taken }

\* Noto's own row action reaches the disk, in the folder that is open (of one
\* that a switch overtakes nothing is remembered) ...
NotoChanges ==
    /\ folderRoot # None
    /\ owned < MaxOwn
    /\ owned' = owned + 1 /\ own' = own + 1
    /\ \E contents \in RowAction(disk[folderRoot]) : Changes(folderRoot, contents)
    /\ UNCHANGED <<session, watching, touched, lostTrack, calls, foreign,
                   switches, foreigns, asked>>

\* Mutant: a change is announced that was never made.
DoneUnasked ==
    /\ own' = own - 1
    /\ InvalidateFolderCaches
    /\ UNCHANGED <<disk, folderRoot, listed, watcher, foreign, bounds>>

\* ... and is announced: every cache is forgotten, what was listed is not.
Done ==
    /\ own > 0
    /\ own' = own - 1
    /\ InvalidateFolderCaches
    /\ UNCHANGED <<disk, folderRoot, listed, watcher, foreign, bounds>>

\* Another program makes, writes or removes a note, or Noto saves one.
ForeignChange(folder, n, text) ==
    /\ foreigns < MaxForeign
    /\ foreigns' = foreigns + 1
    /\ Changes(folder, [disk[folder] EXCEPT ![n] = text])
    /\ foreign' = foreign \cup {<<folder, n>>}
    /\ UNCHANGED <<session, watching, touched, lostTrack, calls, own,
                   switches, owned, asked>>

-----------------------------------------------------------------------------
(***************************************************************************)
(* VaultWatcher: events are hints, read together once the folder is quiet. *)
(***************************************************************************)
Note(n) ==
    /\ n \in events
    /\ events' = events \ {n}
    /\ touched' = touched \cup {n}
    /\ lostTrack' = (lostTrack \/ Cardinality(touched') > MAX_TOUCHED)
    /\ UNCHANGED <<disk, session, watching, calls, own, foreign, bounds>>

\* The system reports a change without a name.
NoteNameless(n) ==
    /\ n \in events /\ switches < MaxSwitches
    /\ switches' = switches + 1
    /\ events' = events \ {n} /\ lostTrack' = TRUE
    /\ UNCHANGED <<disk, session, watching, touched, calls, own, foreign,
                   owned, foreigns, asked>>

\* The watch itself breaks: it is closed, with what it had not settled.
WatchFails ==
    /\ watching /\ switches < MaxSwitches
    /\ switches' = switches + 1
    /\ watching' = FALSE /\ events' = {} /\ touched' = {} /\ lostTrack' = FALSE
    /\ UNCHANGED <<disk, session, calls, own, foreign, owned, foreigns, asked>>

HasIndex == indexCache # None /\ indexCache.root = folderRoot

Indexed == IF HasIndex THEN indexCache.entries ELSE {}

\* The quiet moment.  Having lost track, everything shown is dropped at once;
\* otherwise the touched names are looked at, knowing what was indexed now.
Settle(c) ==
    /\ touched # {} \/ lostTrack
    /\ touched' = {} /\ lostTrack' = FALSE
    /\ IF lostTrack
       THEN /\ InvalidateFolderCaches
            /\ listed' = {}
            /\ UNCHANGED folderRoot
       ELSE /\ calls[c].at = "idle"
            /\ calls' = [Overtaken(IndexSteps \cup TagSteps) EXCEPT
                           ![c] = [Idle EXCEPT !.at = "follow-reading", !.root = folderRoot,
                                               !.names = Indexed, !.batch = touched]]
            /\ UNCHANGED session
    /\ UNCHANGED <<disk, watching, events, own, foreign, bounds>>

\* inspectTouched: what each touched name is now.
FollowReads(c) ==
    /\ calls[c].at = "follow-reading"
    /\ calls' = [calls EXCEPT ![c].at = "follow-read",
                               ![c].found = calls[c].batch \cap Present(calls[c].root)]
    /\ UNCHANGED <<disk, session, watcher, own, foreign, bounds>>

\* Mutant: only what the tree shows is known.
ListedOnly(c) == listed

\* classifyTouched: something appeared or went, or a known note was written.
\* What was indexed is remembered from the settle, what was listed is not.
Known(c) == listed \cup calls[c].names

Structural(c) == \E n \in calls[c].batch : n \in calls[c].found <=> n \notin Known(c)

\* Mutant: a note that is still there changes nothing.
Unwritten(c) == FALSE

\* A text change leaves the names alone, and the tags in doubt.
Rewritten(c) == calls[c].found # {}

FollowEnds(c) ==
    /\ calls[c].at = "follow-read"
    /\ IF calls[c].root = folderRoot
       THEN \/ /\ Structural(c)
               /\ indexCache' = None /\ tagIndexCache' = None /\ listed' = {}
               /\ calls' = [Outdated EXCEPT ![c] = Idle]
            \/ /\ ~Structural(c)
               /\ tagIndexCache' = IF Rewritten(c) THEN None ELSE tagIndexCache
               /\ calls' = [Overtaken(TagSteps) EXCEPT ![c] = Idle]
               /\ UNCHANGED <<indexCache, listed>>
       ELSE /\ calls' = [calls EXCEPT ![c] = Idle]
            /\ UNCHANGED <<indexCache, tagIndexCache, listed>>
    /\ UNCHANGED <<disk, folderRoot, watcher, own, foreign, bounds>>

-----------------------------------------------------------------------------
(***************************************************************************)
(* fileIndex, ensureTagIndex and listFolder.                               *)
(***************************************************************************)
Ask(c) ==
    /\ folderRoot # None
    /\ calls[c].at = "idle"
    /\ asked < MaxAsked
    /\ asked' = asked + 1
    /\ UNCHANGED <<disk, session, watcher, own, foreign, switches, owned, foreigns>>

Walk(forTags) ==
    [Idle EXCEPT !.at = "index-reading", !.root = folderRoot, !.forTags = forTags]

\* Quick Open or a wiki link, with no index at hand.
FileIndex(c) ==
    /\ Ask(c)
    /\ ~HasIndex
    /\ calls' = [calls EXCEPT ![c] = Walk(FALSE)]

\* Browse Tags, with no tag index at hand: the notes are those of the index.
EnsureTagIndex(c) ==
    /\ Ask(c)
    /\ ~(tagIndexCache # None /\ tagIndexCache.root = folderRoot)
    /\ calls' = [calls EXCEPT ![c] =
         IF HasIndex
         THEN [Idle EXCEPT !.at = "tags-reading", !.root = folderRoot,
                           !.names = indexCache.entries, !.overtaken = indexCache.overtaken]
         ELSE Walk(TRUE)]

IndexReads(c) ==
    /\ calls[c].at = "index-reading"
    /\ calls' = [calls EXCEPT ![c].at = "index-read", ![c].names = Present(calls[c].root)]
    /\ UNCHANGED <<disk, session, watcher, own, foreign, bounds>>

\* Mutant: a walk of the folder that is open is current.
SameRoot(c) == calls[c].root = folderRoot

\* A walk that began before an invalidation does not write its answer back.
Current(c) == ~calls[c].outdated /\ calls[c].root = folderRoot

IndexEnds(c) ==
    /\ calls[c].at = "index-read"
    /\ indexCache' = IF Current(c)
                     THEN [root |-> folderRoot, entries |-> calls[c].names,
                           overtaken |-> calls[c].overtaken]
                     ELSE indexCache
    /\ calls' = [calls EXCEPT ![c] =
         IF calls[c].forTags
         THEN [Idle EXCEPT !.at = "tags-reading", !.root = calls[c].root, !.names = calls[c].names,
                           !.overtaken = calls[c].overtaken \/ ~Current(c)]
         ELSE Idle]
    /\ UNCHANGED <<disk, folderRoot, tagIndexCache, listed,
                   watcher, own, foreign, bounds>>

TagsRead(c) ==
    /\ calls[c].at = "tags-reading"
    /\ calls' = [calls EXCEPT ![c].at = "tags-read",
         ![c].texts = [n \in Names |-> IF n \in calls[c].names
                                       THEN disk[calls[c].root][n] ELSE None]]
    /\ UNCHANGED <<disk, session, watcher, own, foreign, bounds>>

\* Kept for the folder that is open by now.
TagsEnd(c) ==
    /\ calls[c].at = "tags-read"
    /\ tagIndexCache' = [root |-> folderRoot, of |-> calls[c].root,
                         index |-> calls[c].texts, overtaken |-> calls[c].overtaken]
    /\ calls' = [calls EXCEPT ![c] = Idle]
    /\ UNCHANGED <<disk, folderRoot, indexCache, listed,
                   watcher, own, foreign, bounds>>

\* The tree unfolds the folder.
ListFolder(c) ==
    /\ Ask(c)
    /\ calls' = [calls EXCEPT ![c] = [Idle EXCEPT !.at = "list-reading", !.root = folderRoot]]

ListReads(c) ==
    /\ calls[c].at = "list-reading"
    /\ calls' = [calls EXCEPT ![c].at = "list-read", ![c].names = Present(calls[c].root)]
    /\ UNCHANGED <<disk, session, watcher, own, foreign, bounds>>

ListEnds(c) ==
    /\ calls[c].at = "list-read"
    /\ listed' = IF calls[c].root = folderRoot THEN listed \cup calls[c].names ELSE listed
    /\ calls' = [calls EXCEPT ![c] = Idle]
    /\ UNCHANGED <<disk, folderRoot, indexCache, tagIndexCache,
                   watcher, own, foreign, bounds>>

-----------------------------------------------------------------------------
Next ==
    \/ \E root \in Folders : AdoptFolder(root)
    \/ NotoChanges
    \/ RefreshFolder
    \/ Done
    \/ \E f \in Folders, n \in Names, t \in Texts \cup {None} : ForeignChange(f, n, t)
    \/ \E n \in Names : Note(n) \/ NoteNameless(n)
    \/ WatchFails
    \/ \E c \in Calls :
         \/ Settle(c) \/ FollowReads(c) \/ FollowEnds(c)
         \/ FileIndex(c) \/ IndexReads(c) \/ IndexEnds(c)
         \/ EnsureTagIndex(c) \/ TagsRead(c) \/ TagsEnd(c)
         \/ ListFolder(c) \/ ListReads(c) \/ ListEnds(c)

Spec == Init /\ [][Next]_vars

-----------------------------------------------------------------------------
(***************************************************************************)
(* Properties.                                                             *)
(***************************************************************************)
\* Something is on its way that will look at the name.
Pending(n) ==
    \/ n \in events \cup touched
    \/ lostTrack
    \/ \E c \in Calls : /\ calls[c].at \in FollowSteps
                        /\ calls[c].root = folderRoot
                        /\ n \in calls[c].batch

\* Once a row action is announced, an index at hand was walked after it:
\* but for what other programs did, it holds exactly the folder's notes,
\* however many walks, listings and switches were under way meanwhile.
OwnChangesAreIndexed ==
    own = 0 /\ indexCache # None =>
        \A n \in Names : \/ n \in indexCache.entries <=> n \in Present(indexCache.root)
                         \/ <<indexCache.root, n>> \in foreign

\* An index whose walk no settled batch and no switch overtook follows other
\* programs: an entry that is gone, or a note that is missing from it and that
\* the tree has not been sent, is about to be looked at.
IndexFollowsDisk ==
    watching /\ indexCache # None /\ ~indexCache.overtaken =>
        \A n \in Names :
            /\ n \in indexCache.entries \ Present(folderRoot) => Pending(n)
            /\ n \in Present(folderRoot) \ indexCache.entries => Pending(n) \/ n \in listed

\* A tag index that nothing overtook follows what is written: a note whose tags
\* it has wrong is about to be looked at.
TagsFollowWrites ==
    watching /\ tagIndexCache # None /\ ~tagIndexCache.overtaken =>
        \A n \in Names :
            tagIndexCache.index[n] \notin {None, disk[folderRoot][n]} /\ n \in Present(folderRoot)
                => Pending(n) \/ own > 0

-----------------------------------------------------------------------------
(***************************************************************************)
(* Claims the code does not keep.                                          *)
(***************************************************************************)
\* "A new folder invalidates the old index rather than serving it stale"
\* (session.ts:548): the tags are those of the folder that is open.
TagsAreOfFolder == tagIndexCache # None => tagIndexCache.of = folderRoot
=============================================================================
