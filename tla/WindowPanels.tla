---------------------------- MODULE WindowPanels ----------------------------
(***************************************************************************)
(* A window's notes (WindowNotes), and beside them the panels that ask of  *)
(* its folder (Searching).  The two share the notes and no state.          *)
(***************************************************************************)
EXTENDS WindowNotes

CONSTANTS Empty, Words, Holding, Pool, MaxFiles, MaxAsks

VARIABLES rail, palette, links, tags, calls, asks

Panels == INSTANCE Searching

\* Searching: AnswersBelong.
AnswersBelong == Panels!AnswersBelong
=============================================================================
