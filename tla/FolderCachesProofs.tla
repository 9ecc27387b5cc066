------------------------- MODULE FolderCachesProofs -------------------------
(***************************************************************************)
(* What FolderCaches promises of the index and of the tags, for any        *)
(* folders, names and texts, any number of calls at once and any bounds.   *)
(*                                                                         *)
(* A property says what is at hand; a step later it may be what a call     *)
(* had in hand.  So each strengthening says the same of the walks that     *)
(* have read and not yet answered, and names what will find a wrong entry: *)
(* an unsettled event, or a call that looks at it and still sees what is   *)
(* there.  A call that has read an older state of a name is no such call.  *)
(***************************************************************************)
EXTENDS FolderCaches, TLAPS

\* Whether an index, or what a walk has read of a folder, holds a name as the
\* folder does, but for what other programs did.
Agrees(entries, folder) ==
    \A n \in Names : (n \in entries <=> n \in Present(folder)) \/ <<folder, n>> \in foreign

\* The index is of the folder that is open.  While no row action is waiting to
\* be announced it is right, and so is what a walk has read that no
\* announcement outdated.
IOwn ==
    /\ own <= owned
    /\ indexCache # None => indexCache.root = folderRoot
    /\ folderRoot = None => ~watching /\ ~lostTrack /\ events = {} /\ touched = {}
    /\ \A c \in Calls : calls[c].at # "idle" => {calls[c].root, folderRoot} \subseteq Folders
    /\ own = 0 =>
        /\ indexCache # None => Agrees(indexCache.entries, indexCache.root)
        /\ \A c \in Calls : calls[c].at = "index-read" /\ ~calls[c].outdated =>
               Agrees(calls[c].names, calls[c].root)

\* A name the watcher has been told of and not yet settled.
Unsettled(n) == n \in events \cup touched \/ lostTrack

\* A call that will find out about a name: it knew of it what the index holds,
\* and what it has read of it is still so.
Looks(c, n) ==
    /\ calls[c].at \in FollowSteps /\ calls[c].root = folderRoot /\ n \in calls[c].batch
    /\ calls[c].at = "follow-read" => (n \in calls[c].found <=> n \in Present(folderRoot))
    /\ n \in calls[c].names <=> n \in indexCache.entries

\* An index that has a name wrong will hear of it, and a walk that nothing
\* overtook has wrong only what is still unsettled.
IFollows ==
    watching =>
        /\ indexCache # None /\ ~indexCache.overtaken =>
            \A n \in Names :
                (n \in indexCache.entries <=> n \in Present(folderRoot))
                \/ Unsettled(n) \/ (\E c \in Calls : Looks(c, n))
                \/ (n \in Present(folderRoot) /\ n \in listed)
        /\ \A c \in Calls :
            calls[c].at = "index-read" /\ ~calls[c].outdated /\ ~calls[c].overtaken =>
                /\ calls[c].root = folderRoot
                /\ \A n \in Names : (n \in calls[c].names <=> n \in Present(folderRoot)) \/ Unsettled(n)
        /\ \A c \in Calls :
            calls[c].at = "index-reading" /\ ~calls[c].overtaken => calls[c].root = folderRoot

\* A call that will forget the tags of a name, which it found or finds.
Rereads(c, n) ==
    /\ calls[c].at \in FollowSteps /\ calls[c].root = folderRoot /\ n \in calls[c].batch
    /\ calls[c].at = "follow-read" => n \in calls[c].found

\* A name whose tags are not the ones it has now.
Differs(index, n) == index[n] \notin {None, disk[folderRoot][n]} /\ n \in Present(folderRoot)

\* The same of the tags.
ITags ==
    watching =>
        /\ tagIndexCache # None /\ ~tagIndexCache.overtaken =>
            \A n \in Names : Differs(tagIndexCache.index, n) =>
                Unsettled(n) \/ \E c \in Calls : Rereads(c, n)
        /\ \A c \in Calls :
            calls[c].at \in TagSteps /\ ~calls[c].overtaken =>
                /\ calls[c].root = folderRoot
                /\ calls[c].at = "tags-read" =>
                     \A n \in Names : Differs(calls[c].texts, n) => Unsettled(n)
-----------------------------------------------------------------------------
\* Overtaking calls changes nothing else about them.
LEMMA OvertakenCalls ==
  ASSUME calls \in [Calls -> Call], NEW steps
  PROVE  /\ Overtaken(steps) \in [Calls -> Call]
         /\ \A c \in Calls :
              LET call == Overtaken(steps)[c]
              IN  /\ call.at = calls[c].at /\ call.root = calls[c].root
                  /\ call.outdated = calls[c].outdated /\ call.forTags = calls[c].forTags
                  /\ call.names = calls[c].names /\ call.batch = calls[c].batch
                  /\ call.found = calls[c].found /\ call.texts = calls[c].texts
                  /\ call.overtaken = (calls[c].overtaken \/ calls[c].at \in steps)
BY ZenonT(30) DEF Overtaken, Call

\* Nor does outdating them.
LEMMA OutdatedCalls ==
  ASSUME calls \in [Calls -> Call]
  PROVE  /\ Outdated \in [Calls -> Call]
         /\ \A c \in Calls :
              LET call == Outdated[c]
              IN  /\ call.at = calls[c].at /\ call.root = calls[c].root
                  /\ call.outdated = (calls[c].outdated \/ calls[c].at \in IndexSteps)
                  /\ call.forTags = calls[c].forTags
                  /\ call.names = calls[c].names /\ call.batch = calls[c].batch
                  /\ call.found = calls[c].found /\ call.texts = calls[c].texts
                  /\ call.overtaken = (calls[c].overtaken \/ calls[c].at \in TagSteps)
<1>1. Overtaken(TagSteps) \in [Calls -> Call]
  BY OvertakenCalls
<1>2. \A c \in Calls : Outdated[c] = [Overtaken(TagSteps)[c] EXCEPT !.outdated = @ \/ calls[c].at \in IndexSteps]
  BY DEF Outdated
<1> QED
  BY <1>1, <1>2, OvertakenCalls, SMTT(30) DEF Outdated, Call

\* A row action leaves a folder's notes.
LEMMA RowActionContents ==
  ASSUME NEW old \in Contents, NEW contents \in RowAction(old)
  PROVE  contents \in Contents
BY ConstantsAssumption DEF RowAction, Contents

\* A call that moves on is a call, and the others stay.
LEMMA CallMoves ==
  ASSUME calls \in [Calls -> Call], NEW c \in Calls, NEW call \in Call, calls' = [calls EXCEPT ![c] = call]
  PROVE  calls' \in [Calls -> Call] /\ \A d \in Calls : calls'[d] = IF d = c THEN call ELSE calls[d]
OBVIOUS

\* A free slot is typed.
LEMMA IdleIsCall == Idle \in Call
BY ConstantsAssumption DEF Idle, Call, Contents

\* A change leaves a folder's notes, and names to report.
LEMMA Contained ==
  ASSUME disk \in [Folders -> Contents], NEW folder \in Folders, NEW contents \in Contents, Changes(folder, contents),
         events \subseteq Names
  PROVE  disk' \in [Folders -> Contents] /\ events' \subseteq Names
BY DEF Changes

-----------------------------------------------------------------------------
\* The session begins with no folder, and with its types.
LEMMA TypeInit == Init => TypeOK
<1>1. [n \in Names |-> IF n \in InitialNotes THEN InitialText ELSE None] \in Contents
  BY ConstantsAssumption DEF Contents
<1>2. MaxSwitches \in Nat /\ MaxOwn \in Nat /\ MaxForeign \in Nat /\ MaxAsked \in Nat
  BY ConstantsAssumption
<1>3. {switches, owned, foreigns, asked, own} \subseteq {0} => switches \in 0 .. MaxSwitches /\ owned \in 0 .. MaxOwn
     /\ foreigns \in 0 .. MaxForeign /\ asked \in 0 .. MaxAsked /\ own \in 0 .. MaxOwn
  BY <1>2
<1> QED
  BY <1>1, <1>3, IdleIsCall, ConstantsAssumption DEF Init, TypeOK

\* Every step keeps them: a call that reads or ends has a folder.
LEMMA TypeStep == TypeOK /\ IOwn /\ [Next]_vars => TypeOK'
<1> SUFFICES ASSUME TypeOK, IOwn, [Next]_vars PROVE TypeOK'
  OBVIOUS
<1> USE DEF session, watcher, bounds, TypeOK
<1>b. MaxSwitches \in Nat /\ MaxOwn \in Nat /\ MaxForeign \in Nat /\ MaxAsked \in Nat
  BY ConstantsAssumption
<1>1. ASSUME NEW root \in Folders, AdoptFolder(root) PROVE TypeOK'
  <2>1. calls' \in [Calls -> Call]
    BY <1>1, OvertakenCalls DEF AdoptFolder
  <2>9. switches' \in 0 .. MaxSwitches
    BY <1>b, <1>1 DEF AdoptFolder
  <2> QED
    BY <1>1, <2>9, <2>1 DEF AdoptFolder
<1>2. CASE NotoChanges
  <2>1. PICK contents \in RowAction(disk[folderRoot]) : Changes(folderRoot, contents)
    BY <1>2 DEF NotoChanges
  <2>2. contents \in Contents /\ folderRoot \in Folders
    BY <1>2, RowActionContents DEF NotoChanges
  <2>3. disk' \in [Folders -> Contents] /\ events' \subseteq Names
    BY <2>1, <2>2, Contained
  <2>4. own' \in 0 .. MaxOwn /\ owned' \in 0 .. MaxOwn
    BY <1>b, <1>2 DEF NotoChanges, IOwn
  <2> QED
    BY <1>2, <2>3, <2>4 DEF NotoChanges
<1>3. CASE RefreshFolder
  <2>1. calls' \in [Calls -> Call]
    BY <1>3, OutdatedCalls DEF RefreshFolder, InvalidateFolderCaches
  <2>9. asked' \in 0 .. MaxAsked
    BY <1>b, <1>3 DEF RefreshFolder
  <2> QED
    BY <1>3, <2>9, <2>1 DEF RefreshFolder, InvalidateFolderCaches
<1>4. CASE Done
  <2>1. calls' \in [Calls -> Call]
    BY <1>4, OutdatedCalls DEF Done, InvalidateFolderCaches
  <2>2. own' \in 0 .. MaxOwn
    BY <1>b, <1>4 DEF Done
  <2> QED
    BY <1>4, <2>1, <2>2 DEF Done, InvalidateFolderCaches
<1>5. ASSUME NEW f \in Folders, NEW n \in Names, NEW t \in Texts \cup {None}, ForeignChange(f, n, t) PROVE TypeOK'
  <2>1. [disk[f] EXCEPT ![n] = t] \in Contents
    BY DEF Contents
  <2>2. disk' \in [Folders -> Contents] /\ events' \subseteq Names
    BY <1>5, <2>1, Contained DEF ForeignChange
  <2>3. foreigns' \in 0 .. MaxForeign /\ foreign' \subseteq Folders \X Names
    BY <1>b, <1>5 DEF ForeignChange
  <2> QED
    BY <1>5, <2>2, <2>3 DEF ForeignChange
<1>6. ASSUME NEW n \in Names, Note(n) PROVE TypeOK'
  BY <1>6, <1>b DEF Note
<1>7. ASSUME NEW n \in Names, NoteNameless(n) PROVE TypeOK'
  <2>9. switches' \in 0 .. MaxSwitches
    BY <1>b, <1>7 DEF NoteNameless
  <2> QED
    BY <1>7, <2>9 DEF NoteNameless
<1>8. CASE WatchFails
  <2>9. switches' \in 0 .. MaxSwitches
    BY <1>b, <1>8 DEF WatchFails
  <2> QED
    BY <1>8, <2>9 DEF WatchFails
<1>9. ASSUME NEW c \in Calls, Settle(c) PROVE TypeOK'
  <2>1. CASE lostTrack
    <3>1. calls' \in [Calls -> Call]
      BY <1>9, <2>1, OutdatedCalls DEF Settle, InvalidateFolderCaches
    <3> QED
      BY <1>9, <2>1, <3>1 DEF Settle, InvalidateFolderCaches
  <2>2. CASE ~lostTrack
    <3>1. Indexed \subseteq Names
      BY DEF Indexed, HasIndex, Indexes
    <3>2. [Idle EXCEPT !.at = "follow-reading", !.root = folderRoot, !.names = Indexed, !.batch = touched] \in Call
      BY <3>1, IdleIsCall DEF Call, FollowSteps
    <3>3. calls' \in [Calls -> Call]
      BY <1>9, <2>2, <3>2, OvertakenCalls DEF Settle
    <3> QED
      BY <1>9, <2>2, <3>3 DEF Settle
  <2> QED
    BY <2>1, <2>2
<1>10. ASSUME NEW c \in Calls, FollowReads(c) PROVE TypeOK'
  <2>1. [calls[c] EXCEPT !.at = "follow-read", !.found = calls[c].batch \cap Present(calls[c].root)] \in Call
    BY ZenonT(30) DEF Call, FollowSteps
  <2>2. calls' \in [Calls -> Call]
    BY <1>10, <2>1, CallMoves DEF FollowReads
  <2> QED
    BY <1>b, <1>10, <2>2 DEF FollowReads
<1>11. ASSUME NEW c \in Calls, FollowEnds(c) PROVE TypeOK'
  <2>1. Outdated \in [Calls -> Call] /\ Overtaken(TagSteps) \in [Calls -> Call] /\ Idle \in Call
    BY OutdatedCalls, OvertakenCalls, IdleIsCall
  <2>2. calls' \in [Calls -> Call]
    BY <1>11, <2>1 DEF FollowEnds
  <2> QED
    BY <1>11, <2>2 DEF FollowEnds
<1>12. ASSUME NEW c \in Calls, FileIndex(c) PROVE TypeOK'
  <2>1. Walk(FALSE) \in Call
    BY <1>12, IdleIsCall DEF FileIndex, Ask, Walk, Call, IndexSteps
  <2>2. calls' \in [Calls -> Call]
    BY <1>12, <2>1, CallMoves DEF FileIndex
  <2>9. asked' \in 0 .. MaxAsked
    BY <1>b, <1>12 DEF FileIndex, Ask
  <2> QED
    BY <1>12, <2>9, <2>2 DEF FileIndex, Ask
<1>13. ASSUME NEW c \in Calls, IndexReads(c) PROVE TypeOK'
  <2>1. [calls[c] EXCEPT !.at = "index-read", !.names = Present(calls[c].root)] \in Call
    BY ZenonT(30) DEF Call, IndexSteps, Present
  <2>2. calls' \in [Calls -> Call]
    BY <1>13, <2>1, CallMoves DEF IndexReads
  <2> QED
    BY <1>b, <1>13, <2>2 DEF IndexReads
<1>14. ASSUME NEW c \in Calls, IndexEnds(c) PROVE TypeOK'
  <2>1. [Idle EXCEPT !.at = "tags-reading", !.root = calls[c].root, !.names = calls[c].names,
                     !.overtaken = calls[c].overtaken \/ ~Current(c)] \in Call
    BY IdleIsCall DEF Call, TagSteps
  <2>2. calls' \in [Calls -> Call]
    BY <1>14, <2>1, IdleIsCall, CallMoves DEF IndexEnds
  <2>3. indexCache' \in Indexes \cup {None}
    <3>1. Current(c) => [root |-> folderRoot, entries |-> calls[c].names, overtaken |-> calls[c].overtaken] \in Indexes
      BY <1>14 DEF IndexEnds, Current, IOwn, Indexes, Call
    <3> QED
      BY <1>14, <3>1 DEF IndexEnds
  <2> QED
    BY <1>14, <2>2, <2>3 DEF IndexEnds
<1>15. ASSUME NEW c \in Calls, EnsureTagIndex(c) PROVE TypeOK'
  <2>1. Walk(TRUE) \in Call
    BY IdleIsCall DEF Walk, Call, IndexSteps
  <2>2. HasIndex => [Idle EXCEPT !.at = "tags-reading", !.root = folderRoot, !.names = indexCache.entries,
                                 !.overtaken = indexCache.overtaken] \in Call
    BY IdleIsCall DEF HasIndex, Indexes, Call, TagSteps
  <2>3. calls' \in [Calls -> Call]
    BY <1>15, <2>1, <2>2, CallMoves DEF EnsureTagIndex
  <2>9. asked' \in 0 .. MaxAsked
    BY <1>b, <1>15 DEF EnsureTagIndex, Ask
  <2> QED
    BY <1>15, <2>9, <2>3 DEF EnsureTagIndex, Ask
<1>16. ASSUME NEW c \in Calls, TagsRead(c) PROVE TypeOK'
  <2> DEFINE texts == [n \in Names |-> IF n \in calls[c].names THEN disk[calls[c].root][n] ELSE None]
  <2>1. calls[c].root \in Folders
    BY <1>16 DEF TagsRead, IOwn
  <2>2. texts \in Contents
    BY <2>1, ConstantsAssumption DEF Contents
  <2>3. [calls[c] EXCEPT !.at = "tags-read", !.texts = texts] \in Call
    BY <2>2, ZenonT(30) DEF Call, TagSteps
  <2>4. calls' \in [Calls -> Call]
    BY <1>16, <2>3, CallMoves DEF TagsRead
  <2> QED
    BY <1>16, <2>4 DEF TagsRead
<1>17. ASSUME NEW c \in Calls, TagsEnd(c) PROVE TypeOK'
  <2>1. calls' \in [Calls -> Call]
    BY <1>17, IdleIsCall, CallMoves DEF TagsEnd
  <2>2. folderRoot \in Folders
    BY <1>17 DEF TagsEnd, IOwn
  <2>3. tagIndexCache' \in TagIndexes
    BY <1>17, <2>2 DEF TagsEnd, IOwn, TagIndexes, Call
  <2> QED
    BY <1>17, <2>1, <2>3 DEF TagsEnd
<1>18. ASSUME NEW c \in Calls, ListFolder(c) PROVE TypeOK'
  <2>1. [Idle EXCEPT !.at = "list-reading", !.root = folderRoot] \in Call
    BY <1>18, IdleIsCall DEF Call, ListSteps
  <2>2. calls' \in [Calls -> Call]
    BY <1>18, <2>1, CallMoves DEF ListFolder
  <2>9. asked' \in 0 .. MaxAsked
    BY <1>b, <1>18 DEF ListFolder, Ask
  <2> QED
    BY <1>18, <2>9, <2>2 DEF ListFolder, Ask
<1>19. ASSUME NEW c \in Calls, ListReads(c) PROVE TypeOK'
  <2>1. [calls[c] EXCEPT !.at = "list-read", !.names = Present(calls[c].root)] \in Call
    BY ZenonT(30) DEF Call, ListSteps, Present
  <2>2. calls' \in [Calls -> Call]
    BY <1>19, <2>1, CallMoves DEF ListReads
  <2> QED
    BY <1>b, <1>19, <2>2 DEF ListReads
<1>20. ASSUME NEW c \in Calls, ListEnds(c) PROVE TypeOK'
  <2>1. calls' \in [Calls -> Call]
    BY <1>20, IdleIsCall, CallMoves DEF ListEnds
  <2>2. listed' \subseteq Names
    BY <1>20 DEF ListEnds, Call
  <2> QED
    BY <1>20, <2>1, <2>2 DEF ListEnds
<1>21. CASE UNCHANGED vars
  BY <1>21 DEF vars
<1> QED
  BY <1>1, <1>2, <1>3, <1>4, <1>5, <1>6, <1>7, <1>8, <1>9, <1>10, <1>11, <1>12, <1>13,
     <1>14, <1>15, <1>16, <1>17, <1>18, <1>19, <1>20, <1>21
     DEF Next

-----------------------------------------------------------------------------
\* A row action makes every walk under way outdated once it is announced, and the
\* index is none until then.
LEMMA OwnStep == TypeOK /\ IOwn /\ [Next]_vars => IOwn'
<1> SUFFICES ASSUME TypeOK, IOwn, [Next]_vars PROVE IOwn'
  OBVIOUS
<1> USE DEF session, watcher, bounds, IndexSteps, TagSteps, ListSteps, FollowSteps,
            TypeOK, IOwn, Agrees, Call, Present, Indexes
<1>1. ASSUME NEW root \in Folders, AdoptFolder(root) PROVE IOwn'
  BY <1>1, OvertakenCalls, ConstantsAssumption DEF AdoptFolder
<1>2. CASE NotoChanges
  BY <1>2 DEF NotoChanges, Changes
<1>3. CASE RefreshFolder
  BY <1>3, OutdatedCalls DEF RefreshFolder, InvalidateFolderCaches
<1>4. CASE Done
  BY <1>4, OutdatedCalls DEF Done, InvalidateFolderCaches
<1>5. ASSUME NEW f \in Folders, NEW n \in Names, NEW t \in Texts \cup {None}, ForeignChange(f, n, t) PROVE IOwn'
  BY <1>5 DEF ForeignChange, Changes
<1>6. ASSUME NEW n \in Names, Note(n) PROVE IOwn'
  BY <1>6 DEF Note
<1>7. ASSUME NEW n \in Names, NoteNameless(n) PROVE IOwn'
  BY <1>7 DEF NoteNameless
<1>8. CASE WatchFails
  BY <1>8 DEF WatchFails
<1>9. ASSUME NEW c \in Calls, Settle(c) PROVE IOwn'
  <2>1. CASE lostTrack
    BY <1>9, <2>1, OutdatedCalls DEF Settle, InvalidateFolderCaches
  <2>2. CASE ~lostTrack
    <3> DEFINE look == [Idle EXCEPT !.at = "follow-reading", !.root = folderRoot,
                                    !.names = Indexed, !.batch = touched]
    <3>1. calls' = [Overtaken(IndexSteps \cup TagSteps) EXCEPT ![c] = look]
      BY <1>9, <2>2 DEF Settle
    <3>2. calls'[c].at = "follow-reading" /\ calls'[c].root = folderRoot /\ calls'[c].names = Indexed /\ calls'[c].batch = touched
      BY <3>1, OvertakenCalls DEF Idle
    <3>3. \A d \in Calls \ {c} :
            /\ calls'[d].at = calls[d].at /\ calls'[d].root = calls[d].root /\ calls'[d].names = calls[d].names
            /\ calls'[d].outdated = calls[d].outdated
            /\ calls'[d].overtaken = (calls[d].overtaken \/ calls[d].at \in IndexSteps \cup TagSteps)
      BY <3>1, OvertakenCalls
    <3>4. folderRoot \in Folders
      BY <1>9, <2>2 DEF Settle
    <3>6. UNCHANGED <<disk, folderRoot, indexCache, tagIndexCache, listed, watching, events, own, foreign, owned>>
      BY <1>9, <2>2 DEF Settle
    <3>5. lostTrack' = FALSE /\ touched' = {} /\ ~lostTrack
      BY <1>9, <2>2 DEF Settle
    <3> HIDE DEF look
    <3> QED
      BY <3>2, <3>3, <3>4, <3>5, <3>6
  <2> QED
    BY <2>1, <2>2
<1>10. ASSUME NEW c \in Calls, FollowReads(c) PROVE IOwn'
  BY <1>10 DEF FollowReads
<1>11. ASSUME NEW c \in Calls, FollowEnds(c) PROVE IOwn'
  <2>1. CASE calls[c].root = folderRoot /\ Structural(c)
    <3>1. calls'[c].at = "idle"
      BY <1>11, <2>1, OutdatedCalls DEF FollowEnds, Idle
    <3>2. \A d \in Calls \ {c} :
            /\ calls'[d].at = calls[d].at /\ calls'[d].root = calls[d].root /\ calls'[d].names = calls[d].names
            /\ calls'[d].outdated = (calls[d].outdated \/ calls[d].at \in IndexSteps)
            /\ calls'[d].overtaken = (calls[d].overtaken \/ calls[d].at \in TagSteps)
      BY <1>11, <2>1, OutdatedCalls DEF FollowEnds
    <3> QED
      BY <1>11, <2>1, <3>1, <3>2 DEF FollowEnds
  <2>2. CASE calls[c].root = folderRoot /\ ~Structural(c)
    <3>1. calls'[c].at = "idle"
      BY <1>11, <2>2, OvertakenCalls DEF FollowEnds, Idle
    <3>2. \A d \in Calls \ {c} :
            /\ calls'[d].at = calls[d].at /\ calls'[d].root = calls[d].root /\ calls'[d].names = calls[d].names
            /\ calls'[d].outdated = calls[d].outdated
            /\ calls'[d].overtaken = (calls[d].overtaken \/ calls[d].at \in TagSteps)
      BY <1>11, <2>2, OvertakenCalls DEF FollowEnds
    <3> QED
      BY <1>11, <2>2, <3>1, <3>2 DEF FollowEnds
  <2>3. CASE calls[c].root # folderRoot
    <3>1. calls'[c].at = "idle" /\ \A d \in Calls \ {c} : calls'[d] = calls[d]
      BY <1>11, <2>3 DEF FollowEnds, Idle
    <3> QED
      BY <1>11, <2>3, <3>1 DEF FollowEnds
  <2> QED
    BY <1>11, <2>1, <2>2, <2>3 DEF FollowEnds
<1>12. ASSUME NEW c \in Calls, FileIndex(c) PROVE IOwn'
  BY <1>12 DEF FileIndex, Ask, Walk, Idle
<1>13. ASSUME NEW c \in Calls, IndexReads(c) PROVE IOwn'
  BY <1>13 DEF IndexReads
<1>14. ASSUME NEW c \in Calls, IndexEnds(c) PROVE IOwn'
  BY <1>14 DEF IndexEnds, Current, Idle
<1>15. ASSUME NEW c \in Calls, EnsureTagIndex(c) PROVE IOwn'
  BY <1>15 DEF EnsureTagIndex, Ask, Walk, HasIndex, Idle
<1>16. ASSUME NEW c \in Calls, TagsRead(c) PROVE IOwn'
  BY <1>16 DEF TagsRead
<1>17. ASSUME NEW c \in Calls, TagsEnd(c) PROVE IOwn'
  BY <1>17 DEF TagsEnd, Idle
<1>18. ASSUME NEW c \in Calls, ListFolder(c) PROVE IOwn'
  BY <1>18 DEF ListFolder, Ask, Idle
<1>19. ASSUME NEW c \in Calls, ListReads(c) PROVE IOwn'
  BY <1>19 DEF ListReads
<1>20. ASSUME NEW c \in Calls, ListEnds(c) PROVE IOwn'
  BY <1>20 DEF ListEnds, Idle
<1>21. CASE UNCHANGED vars
  BY <1>21 DEF vars
<1> QED
  BY <1>1, <1>2, <1>3, <1>4, <1>5, <1>6, <1>7, <1>8, <1>9, <1>10, <1>11, <1>12, <1>13,
     <1>14, <1>15, <1>16, <1>17, <1>18, <1>19, <1>20, <1>21
     DEF Next

-----------------------------------------------------------------------------
\* What changes raises an event; what settles overtakes the walks and sends a call
\* to look; what that call finds in order, it found as it is.
LEMMA FollowsStep == TypeOK /\ IOwn /\ IFollows /\ [Next]_vars => IFollows'
<1> SUFFICES ASSUME TypeOK, IOwn, IFollows, [Next]_vars PROVE IFollows'
  OBVIOUS
<1> USE DEF session, watcher, bounds, IndexSteps, TagSteps, ListSteps, FollowSteps,
            TypeOK, IOwn, IFollows, Looks, Unsettled, Call, Present, Indexes
<1>1. ASSUME NEW root \in Folders, AdoptFolder(root) PROVE IFollows'
  BY <1>1, OvertakenCalls, ConstantsAssumption, SMTT(30) DEF AdoptFolder
<1>2. CASE NotoChanges
  BY <1>2 DEF NotoChanges, Changes
<1>3. CASE RefreshFolder
  BY <1>3, OutdatedCalls DEF RefreshFolder, InvalidateFolderCaches
<1>4. CASE Done
  BY <1>4, OutdatedCalls DEF Done, InvalidateFolderCaches
<1>5. ASSUME NEW f \in Folders, NEW n \in Names, NEW t \in Texts \cup {None}, ForeignChange(f, n, t) PROVE IFollows'
  BY <1>5 DEF ForeignChange, Changes
<1>6. ASSUME NEW n \in Names, Note(n) PROVE IFollows'
  BY <1>6 DEF Note
<1>7. ASSUME NEW n \in Names, NoteNameless(n) PROVE IFollows'
  BY <1>7 DEF NoteNameless
<1>8. CASE WatchFails
  BY <1>8 DEF WatchFails
<1>9. ASSUME NEW c \in Calls, Settle(c) PROVE IFollows'
  <2>1. CASE lostTrack
    BY <1>9, <2>1, OutdatedCalls DEF Settle, InvalidateFolderCaches
  <2>2. CASE ~lostTrack
    <3> DEFINE look == [Idle EXCEPT !.at = "follow-reading", !.root = folderRoot,
                                    !.names = Indexed, !.batch = touched]
    <3>1. calls' = [Overtaken(IndexSteps \cup TagSteps) EXCEPT ![c] = look]
      BY <1>9, <2>2 DEF Settle
    <3>2. calls'[c].at = "follow-reading" /\ calls'[c].root = folderRoot /\ calls'[c].names = Indexed /\ calls'[c].batch = touched
      BY <3>1, OvertakenCalls DEF Idle
    <3>3. \A d \in Calls \ {c} :
            /\ calls'[d].at = calls[d].at /\ calls'[d].root = calls[d].root /\ calls'[d].names = calls[d].names /\ calls'[d].batch = calls[d].batch /\ calls'[d].found = calls[d].found
            /\ calls'[d].outdated = calls[d].outdated
            /\ calls'[d].overtaken = (calls[d].overtaken \/ calls[d].at \in IndexSteps \cup TagSteps)
      BY <3>1, OvertakenCalls
    <3>4. folderRoot \in Folders
      BY <1>9, <2>2 DEF Settle
    <3>6. UNCHANGED <<disk, folderRoot, indexCache, tagIndexCache, listed, watching, events, own, foreign, owned>>
      BY <1>9, <2>2 DEF Settle
    <3>5. lostTrack' = FALSE /\ touched' = {} /\ ~lostTrack
      BY <1>9, <2>2 DEF Settle
    <3> HIDE DEF look
    <3>7. \A n \in Names : Unsettled(n) => Unsettled(n)' \/ n \in touched
      BY <3>5, <3>6
    <3>8. indexCache # None => \A n \in touched : Looks(c, n)'
      BY <3>2, <3>6 DEF Indexed, HasIndex
    <3>9. \A d \in Calls, n \in Names : Looks(d, n) => Looks(d, n)'
      BY <1>9, <2>2, <3>3, <3>6 DEF Settle
    <3> QED
      BY <3>2, <3>3, <3>4, <3>5, <3>6, <3>7, <3>8, <3>9, ZenonT(30)
  <2> QED
    BY <2>1, <2>2
<1>10. ASSUME NEW c \in Calls, FollowReads(c) PROVE IFollows'
  <2>1. \A d \in Calls \ {c} : calls'[d] = calls[d]
    BY <1>10 DEF FollowReads
  <2>2. /\ calls'[c].at = "follow-read" /\ calls'[c].found = calls[c].batch \cap Present(calls[c].root)
        /\ calls'[c].root = calls[c].root /\ calls'[c].names = calls[c].names /\ calls'[c].batch = calls[c].batch
    BY <1>10 DEF FollowReads
  <2> QED
    BY <1>10, <2>1, <2>2, SMTT(30) DEF FollowReads
<1>11. ASSUME NEW c \in Calls, FollowEnds(c) PROVE IFollows'
  <2>1. CASE calls[c].root = folderRoot /\ Structural(c)
    <3>1. calls'[c].at = "idle"
      BY <1>11, <2>1, OutdatedCalls DEF FollowEnds, Idle
    <3>2. \A d \in Calls \ {c} :
            /\ calls'[d].at = calls[d].at /\ calls'[d].root = calls[d].root /\ calls'[d].names = calls[d].names /\ calls'[d].batch = calls[d].batch /\ calls'[d].found = calls[d].found
            /\ calls'[d].outdated = (calls[d].outdated \/ calls[d].at \in IndexSteps)
            /\ calls'[d].overtaken = (calls[d].overtaken \/ calls[d].at \in TagSteps)
      BY <1>11, <2>1, OutdatedCalls DEF FollowEnds
    <3> QED
      BY <1>11, <2>1, <3>1, <3>2 DEF FollowEnds
  <2>2. CASE calls[c].root = folderRoot /\ ~Structural(c)
    <3>1. calls'[c].at = "idle"
      BY <1>11, <2>2, OvertakenCalls DEF FollowEnds, Idle
    <3>2. \A d \in Calls \ {c} :
            /\ calls'[d].at = calls[d].at /\ calls'[d].root = calls[d].root /\ calls'[d].names = calls[d].names /\ calls'[d].batch = calls[d].batch /\ calls'[d].found = calls[d].found
            /\ calls'[d].outdated = calls[d].outdated
            /\ calls'[d].overtaken = (calls[d].overtaken \/ calls[d].at \in TagSteps)
      BY <1>11, <2>2, OvertakenCalls DEF FollowEnds
    <3> QED
      BY <1>11, <2>2, <3>1, <3>2, SMTT(30) DEF FollowEnds, Structural, Known
  <2>3. CASE calls[c].root # folderRoot
    <3>1. calls'[c].at = "idle" /\ \A d \in Calls \ {c} : calls'[d] = calls[d]
      BY <1>11, <2>3 DEF FollowEnds, Idle
    <3> QED
      BY <1>11, <2>3, <3>1 DEF FollowEnds
  <2> QED
    BY <1>11, <2>1, <2>2, <2>3 DEF FollowEnds
<1>12. ASSUME NEW c \in Calls, FileIndex(c) PROVE IFollows'
  BY <1>12 DEF FileIndex, Ask, Walk, Idle
<1>13. ASSUME NEW c \in Calls, IndexReads(c) PROVE IFollows'
  <2>1. \A d \in Calls \ {c} : calls'[d] = calls[d]
    BY <1>13 DEF IndexReads
  <2>2. /\ calls'[c].at = "index-read" /\ calls'[c].names = Present(calls[c].root)
        /\ calls'[c].root = calls[c].root /\ calls'[c].outdated = calls[c].outdated /\ calls'[c].overtaken = calls[c].overtaken
    BY <1>13 DEF IndexReads
  <2> QED
    BY <1>13, <2>1, <2>2, SMTT(30) DEF IndexReads
<1>14. ASSUME NEW c \in Calls, IndexEnds(c) PROVE IFollows'
  BY <1>14 DEF IndexEnds, Current, Idle
<1>15. ASSUME NEW c \in Calls, EnsureTagIndex(c) PROVE IFollows'
  <2>1. \A d \in Calls \ {c} : calls'[d] = calls[d]
    BY <1>15 DEF EnsureTagIndex
  <2>2. calls[c].at = "idle" /\ (calls'[c].at = "tags-reading" \/ (calls'[c].at = "index-reading" /\ calls'[c].root = folderRoot))
    BY <1>15 DEF EnsureTagIndex, Ask, Walk, Idle
  <2> QED
    BY <1>15, <2>1, <2>2 DEF EnsureTagIndex, Ask
<1>16. ASSUME NEW c \in Calls, TagsRead(c) PROVE IFollows'
  BY <1>16 DEF TagsRead
<1>17. ASSUME NEW c \in Calls, TagsEnd(c) PROVE IFollows'
  BY <1>17 DEF TagsEnd, Idle
<1>18. ASSUME NEW c \in Calls, ListFolder(c) PROVE IFollows'
  BY <1>18 DEF ListFolder, Ask, Idle
<1>19. ASSUME NEW c \in Calls, ListReads(c) PROVE IFollows'
  <2>1. \A d \in Calls \ {c} : calls'[d] = calls[d]
    BY <1>19 DEF ListReads
  <2>2. /\ calls'[c].at = "list-read" /\ TRUE
        /\ calls'[c].root = calls[c].root
    BY <1>19 DEF ListReads
  <2> QED
    BY <1>19, <2>1, <2>2 DEF ListReads
<1>20. ASSUME NEW c \in Calls, ListEnds(c) PROVE IFollows'
  BY <1>20 DEF ListEnds, Idle
<1>21. CASE UNCHANGED vars
  BY <1>21 DEF vars
<1> QED
  BY <1>1, <1>2, <1>3, <1>4, <1>5, <1>6, <1>7, <1>8, <1>9, <1>10, <1>11, <1>12, <1>13,
     <1>14, <1>15, <1>16, <1>17, <1>18, <1>19, <1>20, <1>21
     DEF Next

-----------------------------------------------------------------------------
\* The same of the tags: a note found in a batch is one whose tags are forgotten.
LEMMA TagsStep == TypeOK /\ IOwn /\ ITags /\ [Next]_vars => ITags'
<1> SUFFICES ASSUME TypeOK, IOwn, ITags, [Next]_vars PROVE ITags'
  OBVIOUS
<1> USE DEF session, watcher, bounds, IndexSteps, TagSteps, ListSteps, FollowSteps,
            TypeOK, IOwn, ITags, Rereads, Differs, Unsettled, Call, Present, TagIndexes,
            Indexes
<1>1. ASSUME NEW root \in Folders, AdoptFolder(root) PROVE ITags'
  BY <1>1, OvertakenCalls, ConstantsAssumption DEF AdoptFolder
<1>2. CASE NotoChanges
  BY <1>2 DEF NotoChanges, Changes
<1>3. CASE RefreshFolder
  BY <1>3, OutdatedCalls DEF RefreshFolder, InvalidateFolderCaches
<1>4. CASE Done
  BY <1>4, OutdatedCalls DEF Done, InvalidateFolderCaches
<1>5. ASSUME NEW f \in Folders, NEW n \in Names, NEW t \in Texts \cup {None}, ForeignChange(f, n, t) PROVE ITags'
  BY <1>5 DEF ForeignChange, Changes
<1>6. ASSUME NEW n \in Names, Note(n) PROVE ITags'
  BY <1>6 DEF Note
<1>7. ASSUME NEW n \in Names, NoteNameless(n) PROVE ITags'
  BY <1>7 DEF NoteNameless
<1>8. CASE WatchFails
  BY <1>8 DEF WatchFails
<1>9. ASSUME NEW c \in Calls, Settle(c) PROVE ITags'
  <2>1. CASE lostTrack
    BY <1>9, <2>1, OutdatedCalls DEF Settle, InvalidateFolderCaches
  <2>2. CASE ~lostTrack
    <3> DEFINE look == [Idle EXCEPT !.at = "follow-reading", !.root = folderRoot,
                                    !.names = Indexed, !.batch = touched]
    <3>1. calls' = [Overtaken(IndexSteps \cup TagSteps) EXCEPT ![c] = look]
      BY <1>9, <2>2 DEF Settle
    <3>2. calls'[c].at = "follow-reading" /\ calls'[c].root = folderRoot /\ calls'[c].names = Indexed /\ calls'[c].batch = touched
      BY <3>1, OvertakenCalls DEF Idle
    <3>3. \A d \in Calls \ {c} :
            /\ calls'[d].at = calls[d].at /\ calls'[d].root = calls[d].root /\ calls'[d].texts = calls[d].texts /\ calls'[d].batch = calls[d].batch /\ calls'[d].found = calls[d].found
            /\ calls'[d].outdated = calls[d].outdated
            /\ calls'[d].overtaken = (calls[d].overtaken \/ calls[d].at \in IndexSteps \cup TagSteps)
      BY <3>1, OvertakenCalls
    <3>4. folderRoot \in Folders
      BY <1>9, <2>2 DEF Settle
    <3>6. UNCHANGED <<disk, folderRoot, indexCache, tagIndexCache, listed, watching, events, own, foreign, owned>>
      BY <1>9, <2>2 DEF Settle
    <3>5. lostTrack' = FALSE /\ touched' = {} /\ ~lostTrack
      BY <1>9, <2>2 DEF Settle
    <3> HIDE DEF look
    <3>7. \A n \in Names : Unsettled(n) => Unsettled(n)' \/ n \in touched
      BY <3>5, <3>6
    <3>8. \A n \in touched : Rereads(c, n)'
      BY <3>2, <3>6 DEF Indexed, HasIndex
    <3>9. \A d \in Calls, n \in Names : Rereads(d, n) => Rereads(d, n)'
      BY <1>9, <2>2, <3>3, <3>6 DEF Settle
    <3> QED
      BY <3>2, <3>3, <3>4, <3>5, <3>6, <3>7, <3>8, <3>9
  <2> QED
    BY <2>1, <2>2
<1>10. ASSUME NEW c \in Calls, FollowReads(c) PROVE ITags'
  BY <1>10 DEF FollowReads
<1>11. ASSUME NEW c \in Calls, FollowEnds(c) PROVE ITags'
  <2>1. CASE calls[c].root = folderRoot /\ Structural(c)
    <3>1. calls'[c].at = "idle"
      BY <1>11, <2>1, OutdatedCalls DEF FollowEnds, Idle
    <3>2. \A d \in Calls \ {c} :
            /\ calls'[d].at = calls[d].at /\ calls'[d].root = calls[d].root /\ calls'[d].texts = calls[d].texts /\ calls'[d].batch = calls[d].batch /\ calls'[d].found = calls[d].found
            /\ calls'[d].outdated = (calls[d].outdated \/ calls[d].at \in IndexSteps)
            /\ calls'[d].overtaken = (calls[d].overtaken \/ calls[d].at \in TagSteps)
      BY <1>11, <2>1, OutdatedCalls DEF FollowEnds
    <3> QED
      BY <1>11, <2>1, <3>1, <3>2 DEF FollowEnds
  <2>2. CASE calls[c].root = folderRoot /\ ~Structural(c)
    <3>1. calls'[c].at = "idle"
      BY <1>11, <2>2, OvertakenCalls DEF FollowEnds, Idle
    <3>2. \A d \in Calls \ {c} :
            /\ calls'[d].at = calls[d].at /\ calls'[d].root = calls[d].root /\ calls'[d].texts = calls[d].texts /\ calls'[d].batch = calls[d].batch /\ calls'[d].found = calls[d].found
            /\ calls'[d].outdated = calls[d].outdated
            /\ calls'[d].overtaken = (calls[d].overtaken \/ calls[d].at \in TagSteps)
      BY <1>11, <2>2, OvertakenCalls DEF FollowEnds
    <3> QED
      BY <1>11, <2>2, <3>1, <3>2 DEF FollowEnds, Rewritten
  <2>3. CASE calls[c].root # folderRoot
    <3>1. calls'[c].at = "idle" /\ \A d \in Calls \ {c} : calls'[d] = calls[d]
      BY <1>11, <2>3 DEF FollowEnds, Idle
    <3> QED
      BY <1>11, <2>3, <3>1 DEF FollowEnds
  <2> QED
    BY <1>11, <2>1, <2>2, <2>3 DEF FollowEnds
<1>12. ASSUME NEW c \in Calls, FileIndex(c) PROVE ITags'
  BY <1>12 DEF FileIndex, Ask, Walk, Idle
<1>13. ASSUME NEW c \in Calls, IndexReads(c) PROVE ITags'
  BY <1>13 DEF IndexReads
<1>14. ASSUME NEW c \in Calls, IndexEnds(c) PROVE ITags'
  BY <1>14 DEF IndexEnds, Current, Idle
<1>15. ASSUME NEW c \in Calls, EnsureTagIndex(c) PROVE ITags'
  BY <1>15 DEF EnsureTagIndex, Ask, Walk, HasIndex, Idle
<1>16. ASSUME NEW c \in Calls, TagsRead(c) PROVE ITags'
  <2>1. \A d \in Calls \ {c} : calls'[d] = calls[d]
    BY <1>16 DEF TagsRead
  <2>2. /\ calls'[c].at = "tags-read" /\ calls'[c].texts = [n \in Names |-> IF n \in calls[c].names THEN disk[calls[c].root][n] ELSE None]
        /\ calls'[c].root = calls[c].root /\ calls'[c].overtaken = calls[c].overtaken
    BY <1>16 DEF TagsRead
  <2>3. \A n \in Names : calls'[c].texts[n] \in {None, disk[calls[c].root][n]}
    BY <2>2
  <2>4. ASSUME watching, ~calls'[c].overtaken, NEW n \in Names PROVE ~Differs(calls[c].texts, n)'
    <3>1. calls[c].at = "tags-reading" /\ ~calls[c].overtaken /\ disk' = disk /\ folderRoot' = folderRoot
      BY <1>16, <2>2, <2>4 DEF TagsRead
    <3>2. calls[c].root = folderRoot
      BY <2>4, <3>1
    <3> QED
      BY <2>3, <3>1, <3>2
  <2> QED
    BY <1>16, <2>1, <2>2, <2>4, ZenonT(30) DEF TagsRead
<1>17. ASSUME NEW c \in Calls, TagsEnd(c) PROVE ITags'
  BY <1>17 DEF TagsEnd, Idle
<1>18. ASSUME NEW c \in Calls, ListFolder(c) PROVE ITags'
  BY <1>18 DEF ListFolder, Ask, Idle
<1>19. ASSUME NEW c \in Calls, ListReads(c) PROVE ITags'
  <2>1. \A d \in Calls \ {c} : calls'[d] = calls[d]
    BY <1>19 DEF ListReads
  <2>2. /\ calls'[c].at = "list-read" /\ TRUE
        /\ calls'[c].root = calls[c].root
    BY <1>19 DEF ListReads
  <2> QED
    BY <1>19, <2>1, <2>2 DEF ListReads
<1>20. ASSUME NEW c \in Calls, ListEnds(c) PROVE ITags'
  BY <1>20 DEF ListEnds, Idle
<1>21. CASE UNCHANGED vars
  BY <1>21 DEF vars
<1> QED
  BY <1>1, <1>2, <1>3, <1>4, <1>5, <1>6, <1>7, <1>8, <1>9, <1>10, <1>11, <1>12, <1>13,
     <1>14, <1>15, <1>16, <1>17, <1>18, <1>19, <1>20, <1>21
     DEF Next

-----------------------------------------------------------------------------
\* No folder is open, and nothing is asked for.
LEMMA CachesInit == Init => IOwn /\ IFollows /\ ITags
BY ConstantsAssumption DEF Init, IOwn, IFollows, ITags, Idle

ICaches == TypeOK /\ IOwn /\ IFollows /\ ITags

\* Together they are inductive.
LEMMA CachesInvariant == Spec => []ICaches
<1>1. Init => ICaches
  BY TypeInit, CachesInit DEF ICaches
<1>2. ICaches /\ [Next]_vars => ICaches'
  BY TypeStep, OwnStep, FollowsStep, TagsStep DEF ICaches
<1> QED
  BY <1>1, <1>2, PTL DEF Spec

\* Every cache, call and event of the session stays what it is declared to be,
\* with folders switched under calls in flight.
THEOREM TypesHold == Spec => []TypeOK
<1>1. ICaches => TypeOK
  BY DEF ICaches
<1> QED
  BY <1>1, CachesInvariant, PTL

\* Once Noto's row actions are announced (invalidateFolderCaches), the index at
\* hand holds the folder's notes, but for what other programs did: no walk
\* that began before an announcement writes its answer back.
THEOREM OwnChangesStayIndexed == Spec => []OwnChangesAreIndexed
<1>1. ICaches => OwnChangesAreIndexed
  BY DEF ICaches, IOwn, Agrees, OwnChangesAreIndexed
<1> QED
  BY <1>1, CachesInvariant, PTL

\* While the folder is watched, an entry that is gone and a note that is missing
\* are about to be looked at (settle, classifyTouched), unless a batch or a
\* switch overtook the walk.
THEOREM IndexKeepsFollowing == Spec => []IndexFollowsDisk
<1>1. ICaches => IndexFollowsDisk
  <2>1. indexCache # None /\ IOwn => indexCache.root = folderRoot
    BY DEF IOwn
  <2>2. \A n \in Names : Unsettled(n) \/ (\E c \in Calls : Looks(c, n)) => Pending(n)
    BY DEF Unsettled, Looks, Pending
  <2> QED
    BY <2>1, <2>2 DEF ICaches, IFollows, IndexFollowsDisk
<1> QED
  BY <1>1, CachesInvariant, PTL

\* So are the tags of a note that was written (settle, inspectTouched), for
\* every tag index that nothing overtook.
THEOREM TagsKeepFollowing == Spec => []TagsFollowWrites
<1>1. ICaches => TagsFollowWrites
  <2>1. \A n \in Names : Unsettled(n) \/ (\E c \in Calls : Rereads(c, n)) => Pending(n)
    BY DEF Unsettled, Rereads, Pending
  <2> QED
    BY <2>1 DEF ICaches, ITags, Differs, TagsFollowWrites
<1> QED
  BY <1>1, CachesInvariant, PTL

=============================================================================
