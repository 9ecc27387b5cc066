----------------------------- MODULE ExactSave -----------------------------
(***************************************************************************)
(* A note's way from the page to its file and back: the editor's blocks    *)
(* and where each one came from (NotoEditor.ts, origin-plugin.ts), what a  *)
(* save captures of them (capture.ts), the bytes main makes of it          *)
(* (BlockSerializer), the patch that answers (RevisionPatch,               *)
(* file-truth-save.ts) and the commit that makes the saved revision the    *)
(* editor's own.  The reader can edit while a save is under way.           *)
(*                                                                         *)
(* A ProseMirror node is its content, written as the editor would write    *)
(* it; "accepted" stands for being the very object the editor remembers    *)
(* at that index.  Selections, history beyond one step, source mode,       *)
(* enrichment and reloads are left out, and one save is under way at a     *)
(* time (NoteEditing has overlapping saves; FileTruthStore the disk).      *)
(***************************************************************************)
EXTENDS RevisionPatch

CONSTANTS
    Files,      \* the texts a note may have when it is opened
    Typed,      \* what the reader may make of a paragraph; <<>> empties it
    Committed,  \* what the last git commit may have for a block
    MaxEdits,   \* bounds: edits, saves and blocks
    MaxSaves,
    MaxBlocks,
    Unpinned

ASSUME ExactSaveConstants ==
    /\ {MaxEdits, MaxSaves, MaxBlocks} \subseteq Nat
    /\ \A text \in Files : text # <<>> /\ Text(Split(text)) = text

VARIABLES
    document,   \* main's accepted revision
    held,       \* the editor's document: that revision as the window has it
    nodes,      \* the top-level blocks on screen
    pristine,   \* what each accepted block looked like, by origin
    stable,     \* topLevelStable, and an accepted node at every index
    undoable,   \* what one undo would put back
    flight,     \* the save under way
    overtaken,  \* history: a save landed after an edit it did not carry
    edits, saves

vars == <<document, held, nodes, pristine, stable, undoable, flight, overtaken, edits, saves>>

editor == <<held, pristine, stable>>

(***************************************************************************)
(* Nodes.                                                                  *)
(***************************************************************************)
\* The node the parser makes of a block, written out again by the editor.
Content(markdown) ==
    [k \in DOMAIN markdown |->
        CASE markdown[k] = "a_" -> "a"
          [] markdown[k] = OpenFence -> ClosedFence
          [] OTHER -> markdown[k]]

\* "own": the bytes the file had for a block the reader has not touched.
Node(content, origin, own) ==
    [content |-> content, origin |-> origin, own |-> own, pin |-> Unpinned, accepted |-> FALSE]

Unwritable(node) == node.content = <<>>
Writable(node) == ~Unwritable(node)

\* buildDoc
Opened(doc) ==
    [k \in DOMAIN doc.blocks |->
        [Node(Content(doc.blocks[k]), OriginOf(doc, k), doc.blocks[k]) EXCEPT !.accepted = TRUE]]
PristineOf(doc) ==
    [o \in {OriginOf(doc, k) : k \in DOMAIN doc.blocks} |-> [content |-> Content(o.markdown), markdown |-> o.markdown]]

Idle == [stage |-> "idle"]
NoUndo == [kind |-> "none"]

Init ==
    /\ document \in {Split(text) : text \in Files}
    /\ held = Wire(document)
    /\ nodes = Opened(document)
    /\ pristine = PristineOf(document)
    /\ stable = TRUE
    /\ undoable = NoUndo
    /\ flight = Idle
    /\ overtaken = FALSE
    /\ edits = 0
    /\ saves = 0

(***************************************************************************)
(* What a save takes from the page.                                        *)
(***************************************************************************)
\* Mutant: a pinned origin is taken without asking whether it is still issued.
PinnedOrigins ==
    [k \in DOMAIN nodes |->
        IF nodes[k].origin = NoOrigin /\ nodes[k].pin # Unpinned THEN nodes[k].pin.origin ELSE nodes[k].origin]

\* effectiveOrigins: a pinned block's origin where the editor has none, when
\* it is issued, unclaimed and in order.
SaveOrigins ==
    LET Later(k) == {nodes[j].origin.ordinal : j \in {j \in DOMAIN nodes : j > k /\ nodes[j].origin # NoOrigin}}
        Claim(origins, k) ==
            LET own == nodes[k].origin
                pinned == IF nodes[k].pin = Unpinned THEN NoOrigin ELSE nodes[k].pin.origin
                taken == {nodes[j].origin : j \in DOMAIN nodes} \cup {origins[j] : j \in DOMAIN origins}
                before == {origins[j].ordinal : j \in DOMAIN origins}
                free == /\ pinned # NoOrigin
                        /\ pinned \notin taken
                        /\ pinned.ordinal \in DOMAIN held.origins
                        /\ held.origins[pinned.ordinal] = pinned
                        /\ \A o \in before : o < pinned.ordinal
                        /\ \A o \in Later(k) : pinned.ordinal < o
            IN Append(origins, IF own = NoOrigin /\ free THEN pinned ELSE own)
    IN FoldLeft(Claim, <<>>, [k \in DOMAIN nodes |-> k])

\* markdownFor: an untouched block is its accepted source.
Reused(node, origin) ==
    /\ origin # NoOrigin
    /\ origin \in DOMAIN pristine
    /\ IF node.pin = Unpinned THEN node.content = pristine[origin].content
       ELSE node.pin.markdown = pristine[origin].markdown
MarkdownNow(node, origin) ==
    IF Reused(node, origin) THEN pristine[origin].markdown
    ELSE IF node.pin # Unpinned THEN node.pin.markdown
    ELSE node.content

NoList == ""
ListMarker(markdown) == IF markdown[1] \in Lists THEN markdown[1] ELSE NoList
OtherMarker(marker) == IF marker = "-l" THEN "*l" ELSE "-l"
WithMarker(content, marker) == <<marker>> \o Tail(content)

\* Mutant: two lists left adjacent are written with the bullets they have.
UnitAsIs(node, origin, reused, previous) ==
    [unit |-> [origin |-> origin, text |-> IF reused THEN Kept ELSE MarkdownNow(node, origin)], marker |-> NoList]

\* One block as a unit, and the bullet it was written with: a list that would
\* continue the list before it is written with the other bullet.
UnitFor(node, origin, reused, previous) ==
    LET marker == ListMarker(MarkdownNow(node, origin))
        other == OtherMarker(previous)
    IN IF marker # NoList /\ marker = previous
       THEN [unit |-> [origin |-> origin, text |-> WithMarker(node.content, other)], marker |-> other]
       ELSE [unit |-> [origin |-> origin, text |-> IF reused THEN Kept ELSE MarkdownNow(node, origin)],
             marker |-> marker]

\* captureUnits; Untouched decides which blocks send no text.
Walk(Untouched(_, _)) ==
    LET origins == SaveOrigins
        Add(acc, k) ==
            LET next == UnitFor(nodes[k], origins[k], Untouched(nodes[k], origins[k]), acc.marker)
            IN IF Unwritable(nodes[k]) THEN acc
               ELSE [units |-> Append(acc.units, next.unit), marker |-> next.marker]
    IN FoldLeft(Add, [units |-> <<>>, marker |-> NoList], [k \in DOMAIN nodes |-> k]).units

FullUnits == Walk(Reused)

\* captureStableWire: the accepted object at its index needs no comparison.
AcceptedOrEqual(node, origin) ==
    origin # NoOrigin /\ ((node.accepted /\ node.pin = Unpinned) \/ Reused(node, origin))

StableUnits == Walk(AcceptedOrEqual)

\* buildSaveWire
SaveUnits == IF stable THEN StableUnits ELSE FullUnits

(***************************************************************************)
(* The reader.                                                             *)
(***************************************************************************)
IsParagraph(node) == Range(node.content) \subseteq Paragraphs

Edit(next, keepsTopLevel, undo) ==
    /\ edits < MaxEdits
    /\ nodes' = next
    /\ stable' = (stable /\ keepsTopLevel)
    /\ undoable' = undo
    /\ edits' = edits + 1
    /\ flight' = IF flight = Idle THEN Idle ELSE [flight EXCEPT !.moved = TRUE]
    /\ UNCHANGED <<document, held, pristine, overtaken, saves>>

\* Mutant: a changed block stays the accepted object.
Retouched(node, content) == [node EXCEPT !.content = content, !.own = <<>>, !.pin = Unpinned]

\* An edit inside a block makes a new object with the same origin.
Rewritten(node, content) == [node EXCEPT !.content = content, !.own = <<>>, !.pin = Unpinned, !.accepted = FALSE]

Type(k, content) ==
    /\ IsParagraph(nodes[k]) /\ nodes[k].content # content
    /\ Edit([nodes EXCEPT ![k] = Rewritten(@, content)], TRUE, NoUndo)

Insert(k, content) ==
    /\ Len(nodes) < MaxBlocks
    /\ Edit(InsertAt(nodes, k, Node(content, NoOrigin, <<>>)), FALSE, NoUndo)

\* Undo puts the same object back, without its origin.
Undeleted(k, node) ==
    [kind |-> "back", at |-> k, node |-> [node EXCEPT !.origin = NoOrigin, !.own = <<>>, !.accepted = FALSE]]

Delete(k) ==
    /\ Len(nodes) > 1
    /\ Edit(RemoveAt(nodes, k), FALSE, Undeleted(k, nodes[k]))

\* git-revert.ts: the block is replaced by the committed one, pinned to the
\* committed bytes, and the replaced one is pinned to the bytes it had.  A
\* replacement of one block by one keeps the origin at its index.
Pinned(node, origin) == [node EXCEPT !.pin = [markdown |-> MarkdownNow(node, origin), origin |-> origin]]

RevertFits(k, markdown) ==
    LET origins == SaveOrigins
        Around(j) == IF j \in DOMAIN nodes /\ Writable(nodes[j]) THEN <<MarkdownNow(nodes[j], origins[j])>> ELSE <<>>
        window == Around(k - 1) \o <<markdown>> \o Around(k + 1)
        joined == FlattenSeq([n \in DOMAIN window |-> window[n] \o IF n < Len(window) THEN <<Blank>> ELSE <<>>])
    IN Split(joined).blocks = window

Revert(k, markdown) ==
    LET origin == SaveOrigins[k]
        fresh == [Node(Content(markdown), nodes[k].origin, <<>>) EXCEPT !.pin = [markdown |-> markdown, origin |-> origin]]
        old == [Pinned(nodes[k], origin) EXCEPT !.accepted = FALSE]
    IN /\ Writable(nodes[k])
       /\ MarkdownNow(nodes[k], origin) # markdown
       /\ RevertFits(k, markdown)
       /\ Edit([nodes EXCEPT ![k] = fresh], FALSE, [kind |-> "swap", at |-> k, node |-> old])

\* Reverting a block the commit does not have removes it.
RevertAdded(k) ==
    /\ Len(nodes) > 1 /\ Writable(nodes[k])
    /\ Edit(RemoveAt(nodes, k), FALSE, Undeleted(k, Pinned(nodes[k], SaveOrigins[k])))

Undo ==
    \/ /\ undoable.kind = "back" /\ Len(nodes) < MaxBlocks /\ undoable.at <= Len(nodes) + 1
       /\ Edit(InsertAt(nodes, undoable.at, undoable.node), FALSE, NoUndo)
    \/ /\ undoable.kind = "swap"
       /\ Edit([nodes EXCEPT ![undoable.at] = [undoable.node EXCEPT !.origin = nodes[undoable.at].origin]], FALSE, NoUndo)

(***************************************************************************)
(* The save.                                                               *)
(***************************************************************************)
\* captureSaveTicket: what is sent, and (for the properties) what was shown.
Capture ==
    /\ flight = Idle /\ saves < MaxSaves
    /\ saves' = saves + 1
    /\ flight' = [stage |-> "sent", entries |-> Compact(SaveUnits, held), base |-> held, moved |-> FALSE,
                  shown |-> SelectSeq(nodes, Writable), reply |-> <<>>]
    /\ UNCHANGED <<document, editor, nodes, undoable, overtaken, edits>>

\* Main: a save of another revision is refused as stale.
Serve ==
    /\ flight.stage = "sent"
    /\ LET outcome == Serialize(document, Expand(flight.entries, document))
           taken == flight.base = Wire(document) /\ Expandable(flight.entries, document) /\ outcome.ok
       IN IF taken
          THEN /\ flight' = [flight EXCEPT !.stage = "saved", !.reply = <<Patch(document, outcome.document)>>]
               /\ document' = outcome.document
          ELSE /\ flight' = [flight EXCEPT !.stage = "refused"]
               /\ UNCHANGED document
    /\ UNCHANGED <<editor, nodes, undoable, overtaken, edits, saves>>

\* abandonSave: a refusal, or an answer that never came.
Abandon ==
    /\ flight.stage \in {"refused", "saved"}
    /\ flight' = Idle
    /\ UNCHANGED <<document, editor, nodes, undoable, overtaken, edits, saves>>

\* Mutant: emptied paragraphs are not allowed for.
AlignmentByCount(count) ==
    IF Len(nodes) = count THEN [k \in DOMAIN nodes |-> k] ELSE [k \in DOMAIN nodes |-> 0]

\* alignSavedBlocks: the blocks on screen one to one with the saved ones, or
\* the ones with something to write; else none.
Alignment(count) ==
    LET rank == [k \in DOMAIN nodes |-> Len(SelectSeq(SubSeq(nodes, 1, k), Writable))]
    IN IF Len(nodes) = count THEN [k \in DOMAIN nodes |-> k]
       ELSE IF Len(SelectSeq(nodes, Writable)) = count
            THEN [k \in DOMAIN nodes |-> IF Writable(nodes[k]) THEN rank[k] ELSE 0]
       ELSE [k \in DOMAIN nodes |-> 0]

\* materializeSaveReply: the patch if it fits, else the whole revision.
Answered == IF Fits(flight.base, flight.reply[1]) THEN Patched(flight.base, flight.reply[1]) ELSE Wire(document)

\* commit: the saved revision becomes the editor's document and each block is
\* given its origin there.  Only a buffer that did not move is the revision.
Commit ==
    LET saved == Answered
        aligned == Alignment(Len(saved.origins))
        OriginAt(k) == IF aligned[k] = 0 THEN NoOrigin ELSE saved.origins[aligned[k]]
    IN /\ flight.stage = "saved"
       /\ held' = saved
       /\ nodes' = [k \in DOMAIN nodes |-> [nodes[k] EXCEPT !.origin = OriginAt(k), !.accepted = ~flight.moved]]
       /\ stable' = ~flight.moved
       /\ pristine' = IF flight.moved THEN pristine
                      ELSE [o \in {OriginAt(k) : k \in DOMAIN nodes} \ {NoOrigin} |->
                             [content |-> nodes[CHOOSE k \in DOMAIN nodes : OriginAt(k) = o].content,
                              markdown |-> o.markdown]]
       /\ overtaken' = (overtaken \/ flight.moved)
       /\ flight' = Idle
       /\ UNCHANGED <<document, undoable, edits, saves>>

Next ==
    \/ \E k \in DOMAIN nodes :
        \/ \E content \in Typed : Type(k, content)
        \/ Delete(k) \/ RevertAdded(k)
        \/ \E markdown \in Committed : Revert(k, markdown)
    \/ \E k \in 1..(Len(nodes) + 1), content \in Typed : Insert(k, content)
    \/ Undo
    \/ Capture \/ Serve \/ Abandon \/ Commit

Spec == Init /\ [][Next]_vars

(***************************************************************************)
(* Properties.                                                             *)
(***************************************************************************)
\* Main's revision is what a parse of the file would give: each door's proof,
\* of a few blocks, is as good as reading the whole file again
\* (serialize.ts nextRevisionFromEngine, incremental.ts).
RevisionReads == document = Split(Text(document))

\* A list's bullet may change to keep two lists apart.
Unmarked(content) == [k \in DOMAIN content |-> IF content[k] \in Lists THEN "-l" ELSE content[k]]

\* The saved file reads back as exactly the blocks that were on screen when
\* the save was captured, whatever was typed since.
SavedIsShown ==
    flight.stage = "saved" =>
        /\ Len(document.blocks) = Len(flight.shown)
        /\ \A k \in DOMAIN flight.shown :
            Unmarked(Content(document.blocks[k])) = Unmarked(flight.shown[k].content)

\* Every block the reader did not touch is written back byte for byte
\* (README, "Byte-exact saving").
UntouchedIsExact ==
    flight.stage = "saved" /\ Len(document.blocks) = Len(flight.shown) =>
        \A k \in DOMAIN flight.shown :
            flight.shown[k].own # <<>> => Unmarked(document.blocks[k]) = Unmarked(flight.shown[k].own)

\* The same as long as no save was overtaken by an edit.
UntouchedIsExactUntilOvertaken == ~overtaken => UntouchedIsExact

\* The short capture, which trusts object identity, sends what the full walk
\* would (capture.ts captureStableWire).
StableIsFull == stable => StableUnits = FullUnits

\* What the editor sends is never refused for its identities: each origin is
\* one its document issued, used once, in order, and main's own expansion of
\* the runs is what was captured.
OriginsAreHonest ==
    /\ flight = Idle /\ held = Wire(document) => OriginsValid(document, FullUnits)
    /\ flight = Idle /\ held = Wire(document) =>
        Expandable(Compact(FullUnits, held), document) /\ Expand(Compact(FullUnits, held), document) = FullUnits

\* The window rebuilds the saved revision from the patch alone, without
\* asking for it whole.
PatchRebuilds ==
    flight.stage = "saved" =>
        /\ Fits(flight.base, flight.reply[1])
        /\ Patched(flight.base, flight.reply[1]) = Wire(document)

\* A save is refused only as stale, or because what was on screen would
\* really not read back: never for its identities, however the page moved
\* since the last save, and no door refuses what a full parse would accept.
RefusalIsReal ==
    flight.stage = "refused" =>
        \/ flight.base # Wire(document)
        \/ /\ Expandable(flight.entries, document)
           /\ LET units == Expand(flight.entries, document)
                  next == Assembled(document, units)
              IN OriginsValid(document, units) /\ Split(Text(next)).blocks # next.blocks
=============================================================================
