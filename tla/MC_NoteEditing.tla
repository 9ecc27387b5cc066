--------------------------- MODULE MC_NoteEditing ---------------------------
EXTENDS NoteEditing
=============================================================================
