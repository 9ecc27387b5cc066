----------------------------- MODULE GitBlocks -----------------------------
(***************************************************************************)
(* The git gutter in the editor (git-gutter.ts), reverting a block to the  *)
(* last commit (git-revert.ts), and what a save makes of the blocks then   *)
(* (origin-plugin.ts, capture.ts).                                         *)
(*                                                                         *)
(* A block's bytes are <<structure, style>>; the serializer writes every   *)
(* structure in style 1.  A block without text has structure 0.  The       *)
(* accepted block at a place is known by <<place, bytes>>.                 *)
(***************************************************************************)
EXTENDS BlockDiff, SequencesExt

CONSTANTS
    Texts,                  \* the blocks' bytes
    Joins,                  \* pairs of blocks that do not read back side by side
    MaxBlocks, MaxEdits,    \* bounds
    Cells                   \* the values of maxCells to look at

NoBlock == <<>>
Empty == <<0, 1>>

VARIABLES
    head,      \* the note as committed
    accepted,  \* the note as saved
    doc,       \* the editor's blocks: structure, style typed or parsed, pin
    origins,   \* the origin plugin's: the accepted block of each, or NoBlock
    gutter,    \* what the gutter shows, keyed by accepted block
    past,      \* the undo history: how to take each edit back
    cells,
    edits,
    level,     \* history: the length of past when the gutter came, or -1 once there was
               \* typing, a save, or an undo of what was before
    since      \* history: the length of past when the note was saved, or -1 once it went below
               \* or there was typing

vars == <<head, accepted, doc, origins, gutter, past, cells, edits, level, since>>

Node(bytes) == [struct |-> bytes[1], pin |-> NoBlock]
Pinned(bytes, origin, committed) ==
    [struct |-> bytes[1], pin |-> <<[bytes |-> bytes, origin |-> origin, committed |-> committed]>>]

\* The gutter of a note as accepted: main names the blocks, the plugin keys by
\* them, and END stands for what follows the last.
END == NoBlock
GutterOf(was, now) ==
    LET d == diffBlocks(was, now, cells)
        Key(j) == IF j > Len(now) THEN END ELSE <<j, now[j]>>
    IN [blocks |-> {[key |-> Key(e.at), change |-> e.change, head |-> e.head] : e \in d.changed},
        deleted |-> {[key |-> Key(e.before), heads |-> e.heads] : e \in d.deleted}]

NoteTexts == UNION {[1..n -> Texts] : n \in 0..MaxBlocks}

Opened(text) ==
    /\ doc' = [i \in DOMAIN text |-> Node(text[i])]
    /\ origins' = [i \in DOMAIN text |-> <<i, text[i]>>]

Init ==
    /\ cells \in Cells
    /\ head \in NoteTexts /\ accepted \in NoteTexts
    /\ doc = [i \in DOMAIN accepted |-> Node(accepted[i])]
    /\ origins = [i \in DOMAIN accepted |-> <<i, accepted[i]>>]
    /\ gutter = GutterOf(head, accepted)
    /\ past = <<>> /\ edits = 0 /\ level = 0 /\ since = 0

(***************************************************************************)
(* capture.ts                                                              *)
(***************************************************************************)
\* The order the serializer requires.
FitsBetween(origin, before, after) == origin[1] > before /\ origin[1] < after

\* effectiveOrigins: a pinned node's origin, where the editor has none, it is
\* an accepted block's, not claimed, and keeps the order
RECURSIVE Filled(_, _, _, _)
Filled(d, os, i, before) ==
    IF i > Len(d) THEN os
    ELSE LET pinned == IF d[i].pin = NoBlock THEN NoBlock ELSE d[i].pin[1].origin
             claimed == {os[k] : k \in DOMAIN os}
             later == {os[k][1] : k \in {m \in (i + 1)..Len(os) : os[m] # NoBlock}}
             after == IF later = {} THEN Len(accepted) + 1
                      ELSE LET first == CHOOSE k \in (i + 1)..Len(os) : os[k] # NoBlock /\ \A m \in (i + 1)..(k - 1) : os[m] = NoBlock
                           IN os[first][1]
         IN IF os[i] # NoBlock THEN Filled(d, os, i + 1, os[i][1])
            ELSE IF /\ pinned # NoBlock /\ pinned \notin claimed
                    /\ pinned[1] <= Len(accepted) /\ accepted[pinned[1]] = pinned[2]
                    /\ FitsBetween(pinned, before, after)
            THEN Filled(d, [os EXCEPT ![i] = pinned], i + 1, pinned[1])
            ELSE Filled(d, os, i + 1, before)

SaveOrigins == Filled(doc, origins, 1, 0)

\* markdownFor: an accepted block's own bytes, the pinned ones, or the serializer's
Reused(node, origin) ==
    /\ origin # NoBlock /\ origin[1] <= Len(accepted) /\ accepted[origin[1]] = origin[2]
    /\ IF node.pin # NoBlock THEN node.pin[1].bytes = origin[2] ELSE node.struct = origin[2][1]

Bytes(node, origin) ==
    IF Reused(node, origin) THEN origin[2]
    ELSE IF node.pin # NoBlock THEN node.pin[1].bytes ELSE <<node.struct, 1>>

Written == LET os == SaveOrigins IN [i \in DOMAIN doc |-> Bytes(doc[i], os[i])]
Text == SelectSeq(Written, LAMBDA bytes : bytes # Empty)

(***************************************************************************)
(* The gutter's marks.                                                     *)
(***************************************************************************)
\* originAt: a node set from the committed bytes stands for nothing
OriginAt(i) ==
    IF doc[i].pin # NoBlock /\ doc[i].pin[1].committed THEN NoBlock
    ELSE IF origins[i] # NoBlock THEN origins[i]
    ELSE IF doc[i].pin # NoBlock THEN doc[i].pin[1].origin ELSE NoBlock

\* Mutant: a run put back is still shown as deleted.
NeverRestored(i, heads) == FALSE

\* restoredBefore
Restored(i, heads) ==
    /\ i > Len(heads)
    /\ \A k \in DOMAIN heads :
        LET pin == doc[i - Len(heads) + k - 1].pin IN
        pin # NoBlock /\ pin[1].committed /\ pin[1].bytes = heads[k]

KeyAt(i) == IF i > Len(doc) THEN END ELSE OriginAt(i)

\* gitGutterMarks: the entry of a block, and the run still deleted before it.
Entries(i) == {e \in gutter.blocks : KeyAt(i) # NoBlock /\ e.key = KeyAt(i)}
Deleted(i) == {e \in gutter.deleted : e.key = KeyAt(i) /\ (i <= Len(doc) => e.key # NoBlock) /\ ~Restored(i, e.heads)}

(***************************************************************************)
(* Edits.                                                                  *)
(***************************************************************************)
\* mapStep: a block replaced by one keeps its origin; blocks put in have none.
Spliced(s, at, count, nodes) == SubSeq(s, 1, at - 1) \o nodes \o SubSeq(s, at + count, Len(s))
Mapped(at, count, n) ==
    Spliced(origins, at, count, IF count = 1 /\ n = 1 THEN <<origins[at]>> ELSE [k \in 1..n |-> NoBlock])

Splice(at, count, nodes) ==
    /\ doc' = Spliced(doc, at, count, nodes)
    /\ origins' = Mapped(at, count, Len(nodes))

\* old is what an undo puts back: the very nodes, or new ones after typing
Edit(at, count, nodes, old) ==
    /\ edits < MaxEdits
    /\ edits' = edits + 1
    /\ Splice(at, count, nodes)
    /\ past' = Append(past, [at |-> at, count |-> Len(nodes), old |-> old])
    /\ UNCHANGED <<head, accepted, gutter, cells>>

\* Text typed in a block makes a new node of it, without the pin.
Type(i, struct) ==
    /\ struct # doc[i].struct
    /\ Edit(i, 1, <<Node(<<struct, 1>>)>>, <<[doc[i] EXCEPT !.pin = NoBlock]>>)
    /\ level' = -1
    /\ since' = -1

ReadsBack(blocks) == \A k \in 1..(Len(blocks) - 1) : <<blocks[k], blocks[k + 1]>> \notin Joins

Around(i) == IF i \in DOMAIN doc THEN <<Written[i]>> ELSE <<>>

\* Mutant: the node replaced is let go of.
KeptNothing(i) == doc[i]

\* keep: the node an undo will put back holds its bytes and place
Kept(i) == Pinned(Written[i], SaveOrigins[i], FALSE)

\* planRevert and gitRevertTransaction of a block: the committed one in its
\* place, or nothing, or an empty paragraph where it was the only one.
RevertBlock(i) ==
    \E e \in Entries(i) :
        /\ \/ /\ e.change = "modified"
              /\ ReadsBack(Around(i - 1) \o e.head \o Around(i + 1))
              /\ Edit(i, 1, <<Pinned(e.head[1], SaveOrigins[i], TRUE)>>, <<Kept(i)>>)
           \/ /\ e.change = "added"
              /\ Edit(i, 1, IF Len(doc) = 1 THEN <<Node(Empty)>> ELSE <<>>, <<Kept(i)>>)
        /\ UNCHANGED <<level, since>>

\* and of a deleted run: its blocks put back.
RevertDeleted(i) ==
    \E e \in Deleted(i) :
        /\ ReadsBack(Around(i - 1) \o e.heads \o Around(i))
        /\ Edit(i, 0, [k \in DOMAIN e.heads |-> Pinned(e.heads[k], NoBlock, TRUE)], <<>>)
        /\ UNCHANGED <<level, since>>

Undo ==
    LET last == past[Len(past)] IN
    /\ past # <<>>
    /\ Splice(last.at, last.count, last.old)
    /\ past' = SubSeq(past, 1, Len(past) - 1)
    /\ since' = IF Len(past') < since THEN -1 ELSE since
    /\ level' = IF Len(past') < level THEN -1 ELSE level
    /\ UNCHANGED <<head, accepted, gutter, cells, edits>>

\* A save: the blocks with something to write become the accepted ones, and
\* alignSavedBlocks gives each its origin.
Save ==
    /\ edits < MaxEdits /\ Text # accepted
    /\ edits' = edits + 1
    /\ accepted' = Text
    /\ origins' = [i \in DOMAIN doc |->
                     LET nth == Cardinality({k \in 1..i : Written[k] # Empty})
                     IN IF Written[i] = Empty THEN NoBlock ELSE <<nth, Text[nth]>>]
    /\ level' = -1
    /\ since' = Len(past)
    /\ UNCHANGED <<head, doc, gutter, past, cells>>

\* The note is committed, or another version of it is checked out, or git just
\* answers after a save.
GutterComes ==
    /\ level = -1 /\ edits < MaxEdits
    /\ edits' = edits + 1
    /\ head' \in {head, accepted}
    /\ gutter' = GutterOf(head', accepted)
    /\ level' = IF Len(past) = since THEN Len(past) ELSE -1
    /\ UNCHANGED <<accepted, doc, origins, past, cells, since>>

Next ==
    \/ \E i \in DOMAIN doc : RevertBlock(i) \/ \E struct \in {t[1] : t \in Texts} : Type(i, struct)
    \/ \E i \in 1..(Len(doc) + 1) : RevertDeleted(i)
    \/ Undo \/ Save \/ GutterComes

Spec == Init /\ [][Next]_vars

(***************************************************************************)
(* Properties.                                                             *)
(***************************************************************************)
\* What the note becomes if all that the gutter still shows is reverted.
RECURSIVE Reverting(_)
Reverting(i) ==
    LET run == IF Deleted(i) = {} THEN <<>> ELSE (CHOOSE e \in Deleted(i) : TRUE).heads IN
    IF i > Len(doc) THEN run
    ELSE run \o (IF Entries(i) = {} THEN <<Written[i]>> ELSE (CHOOSE e \in Entries(i) : TRUE).head) \o Reverting(i + 1)

RevertedText == SelectSeq(Reverting(1), LAMBDA bytes : bytes # Empty)

\* A deleted run whose neighbour below has itself been reverted, or that
\* happens to be what a block above it was reverted to.
BelowReverted == \E i \in DOMAIN doc : doc[i].pin # NoBlock /\ doc[i].pin[1].committed
                    /\ \E e \in gutter.deleted : e.key # END /\ origins[i] = e.key
LooksRestored == \E i \in 1..(Len(doc) + 1) : \E e \in gutter.deleted :
                    /\ e.key = KeyAt(i) /\ Restored(i, e.heads)
                    /\ \E k \in (i - Len(e.heads))..(i - 1) : doc[k].pin[1].origin # NoBlock

\* Whatever has been reverted and undone, in whatever order, the gutter's
\* marks still lead from the note to the last commit, byte for byte, but for
\* the deleted runs those two cases hide.
MarksLeadToHead == level >= 0 /\ ~BelowReverted /\ ~LooksRestored => RevertedText = head

\* Reverts undone back to a save, the next one writes every block as its
\* own accepted bytes, in place.
UndoneIsUntouched ==
    Len(past) = since =>
        Text = accepted /\ \A i \in DOMAIN doc : Written[i] # Empty => Reused(doc[i], SaveOrigins[i])

\* The rows of the unsaved changes read as the note saved on one side, and as
\* it is on the other, in order.
RowsReadBoth ==
    LET rows == Rows(accepted, Text, cells) IN
    /\ FlattenSeq([k \in DOMAIN rows |-> rows[k].saved]) = accepted
    /\ FlattenSeq([k \in DOMAIN rows |-> rows[k].current]) = Text
    /\ \A k \in DOMAIN rows : rows[k].kind = "same" => rows[k].saved = rows[k].current

\* A change keeps its mark until it is reverted itself (git-gutter.ts:8 "so the
\* line stays beside the block it is about however much has been typed elsewhere").
MarksStay == level >= 0 => RevertedText = head
=============================================================================
