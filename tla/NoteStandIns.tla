---------------------------- MODULE NoteStandIns ----------------------------
(***************************************************************************)
(* A note opened deferred (Enrichment), under names that can stand beside  *)
(* those of the other modules about one note.                              *)
(***************************************************************************)
EXTENDS Naturals

CONSTANTS
    Length,      \* blocks of the note
    Initial, Plain, OnScreen,
    Batch,       \* blocks enriched at a time
    MaxChanges   \* bound

\* A ProseMirror document has a block at least.
ASSUME StandInConstants == Length \in Nat \ {0}

VARIABLES
    note, cleanNote, deferred, sources, sel, past, isDirty, composing, frame, idle,
    changes, saved, slipped, returned, escaped

StandIns == INSTANCE Enrichment WITH
    N <- Length, Budget <- Batch, MaxEdits <- MaxChanges,
    doc <- note, base <- cleanNote, dirty <- isDirty, edits <- changes

standInVars == <<note, cleanNote, deferred, sources, sel, past, isDirty, composing, frame, idle,
                 changes, saved, slipped, returned, escaped>>

\* Enrichment: DirtyMeansEdited and StandInsEnd.
DirtyMeansEdited == StandIns!DirtyMeansEdited
StandInsEnd == StandIns!StandInsEnd
=============================================================================
