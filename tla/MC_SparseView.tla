---------------------------- MODULE MC_SparseView ----------------------------
(***************************************************************************)
(* How a long note is drawn (SparseView), under names that can stand       *)
(* beside those of another module about the note, and small notes for it:  *)
(* a long one, and one just too short to be drawn sparsely; an edit takes  *)
(* blocks away, or puts in one of another size, or two.                    *)
(***************************************************************************)
EXTENDS Naturals, Sequences

CONSTANTS AlwaysReal, MinBlocks, Radius, SpanMax, Buffer, ScreenSize, Openings, Pasted, Passes,
          Widths, MaxBlocks, MaxPastes

ASSUME SparseViewConstants ==
    /\ {MinBlocks, Radius, SpanMax, Buffer, ScreenSize, Passes, MaxBlocks, MaxPastes} \subseteq Nat
    /\ ScreenSize > 0 /\ MinBlocks > 0
    /\ AlwaysReal \subseteq Nat
    /\ Openings \cup Pasted \subseteq Seq(Nat \ {0})

VARIABLES sizes, caret, stub, children, top, frames, passes, measured, viewLost, pastes

View == INSTANCE SparseView WITH
    MaxEdits <- MaxPastes, doc <- sizes, page <- children, budget <- passes, lost <- viewLost, edits <- pastes

PageSpec == View!Spec

\* SparseView: PageIsDocument and ScrollingShows.
PageIsDocument == View!PageIsDocument
ScrollingShows == View!ScrollingShows

LongNotes == {<<1, 1, 1, 1, 1, 1>>, <<1, 1, 1, 1>>}
Puts == {<<>>, <<2>>, <<1, 3>>}
=============================================================================
