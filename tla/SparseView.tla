----------------------------- MODULE SparseView -----------------------------
(***************************************************************************)
(* How a long note is drawn (src/src/renderer/editor/noto/                 *)
(* viewport-stub.ts, sparse-doc-view.ts).  From MinBlocks blocks on, only  *)
(* the blocks around the scroller and around the selection have a view of  *)
(* their own; each run of others is one spacer as tall as they are.  The   *)
(* plugin state says which blocks are real, and the document's view is     *)
(* rebuilt when a transaction moves a window or changes the document.      *)
(*                                                                         *)
(* A transaction and the redraw it causes are one step; what scrolling     *)
(* and measuring ask for waits for an animation frame.  Pixels are left    *)
(* out: the scroller shows ScreenSize blocks and a measurement finds that  *)
(* real blocks are taller than thought, or not.  Decorations, and the      *)
(* stock rendering used when ProseMirror's internals are not as expected,  *)
(* are left out.                                                           *)
(***************************************************************************)
EXTENDS Integers, SequencesExt, FiniteSetsExt

CONSTANTS
    AlwaysReal,  \* the block sizes that stand for the kinds never replaced (HTML, images)
    MinBlocks,   \* STUB_MIN_TOP_LEVEL_BLOCKS
    Radius,      \* STUB_SELECTION_RADIUS
    SpanMax,     \* STUB_SELECTION_SPAN_MAX
    Buffer,      \* STUB_SCREEN_BUFFER, in blocks
    ScreenSize,  \* blocks on screen
    Openings,    \* the documents a note may open with
    Pasted,      \* the blocks an edit may put in
    Passes,      \* how often a note is measured again (6 after opening, 2 after scrolling)
    Widths,      \* bounds: the widths of selections, blocks, and edits
    MaxBlocks,
    MaxEdits

VARIABLES
    doc,     \* the size of each top-level block
    caret,   \* the blocks the selection starts and ends in
    stub,    \* ViewportStubState
    page,    \* docView.children: real blocks and spacers
    top,     \* the first block on screen
    frames,  \* the animation frames asked for: "scroll", "resync", "measure"
    budget,  \* resyncBudget
    measured, \* lastMeasuredGeneration: this membership's update has asked for its measurement
    lost,    \* history: a block's view was replaced and never destroyed
    edits

vars == <<doc, caret, stub, page, top, frames, budget, measured, lost, edits>>
drawn == <<doc, caret, stub, page, measured, lost>>

(***************************************************************************)
(* Ranges.                                                                 *)
(***************************************************************************)
AtMost(i, j) == IF i < j THEN i ELSE j
AtLeast(i, j) == IF i > j THEN i ELSE j
Minus(i, j) == IF i > j THEN i - j ELSE 0

\* clampRange, on blocks 1..last
Clamp(from, to, last) ==
    LET start == AtLeast(1, AtMost(from, last))
    IN [from |-> start, to |-> AtLeast(start, AtMost(to, last))]
Around(i, j, radius, last) == Clamp(Minus(i, radius), j + radius, last)
Within(range, i) == i >= range.from /\ i <= range.to

\* What comes before each index of a sequence of sizes, and after the last.
Before(sizes) ==
    LET at[i \in 1 .. Len(sizes) + 1] == IF i = 1 THEN 0 ELSE at[i - 1] + sizes[i - 1]
    IN at
StartOf(d, i) == Before(d)[i]

(***************************************************************************)
(* The plugin state.                                                       *)
(***************************************************************************)
Unset == [from |-> 1, to |-> 1]
Disabled == [enabled |-> FALSE, viewport |-> Unset, selection |-> Unset, selectionEnd |-> Unset]

\* selectionRealWindows: a wide selection keeps only its two ends.
SelectionWindows(sel, last) ==
    LET span == Around(sel.from, sel.to, Radius, last)
    IN IF AtMost(sel.to, last) - AtMost(sel.from, last) <= SpanMax THEN <<span, span>>
       ELSE <<Around(sel.from, sel.from, Radius, last), Around(sel.to, sel.to, Radius, last)>>

\* buildState.  Its generation tells one membership from the next, which the
\* windows do by themselves.
Built(d, sel, viewport) ==
    LET last == Len(d)
        windows == SelectionWindows(sel, last)
    IN [enabled |-> TRUE, viewport |-> Clamp(viewport.from, viewport.to, last),
        selection |-> windows[1], selectionEnd |-> windows[2]]

\* The plugin's apply; without a measured viewport the last one stays.
Applied(d, sel, previous, viewport) ==
    IF Len(d) < MinBlocks THEN (IF previous.enabled THEN Disabled ELSE previous)
    ELSE Built(d, sel, viewport)

\* isIndexReal, isIndexStubbed
IsReal(s, i) == ~s.enabled \/ Within(s.viewport, i) \/ Within(s.selection, i) \/ Within(s.selectionEnd, i)
IsStubbed(s, d, i) == d[i] \notin AlwaysReal /\ ~IsReal(s, i)

(***************************************************************************)
(* The page.  A spacer knows the positions of the document it was made of. *)
(***************************************************************************)
Real(size) == [is |-> "block", size |-> size]
Spacer(d, from, to) ==
    [is |-> "spacer", from |-> from, to |-> to, start |-> StartOf(d, from),
     size |-> StartOf(d, to + 1) - StartOf(d, from)]
IsSpacer(child) == child.is = "spacer"
Covers(child) == IF IsSpacer(child) THEN child.to + 1 - child.from ELSE 1

\* The block a child of the page stands for, or the first one.
FirstOf(children, n) == 1 + Before([m \in DOMAIN children |-> Covers(children[m])])[n]
BlockViews(children) == {n \in DOMAIN children : ~IsSpacer(children[n])}

\* Mutant: a spacer is kept when it covers the same blocks.
ReusedByRange(old, new) == old.from = new.from /\ old.to = new.to

ReusedSpacer(old, new) == old.from = new.from /\ old.to = new.to /\ old.size = new.size

\* Where a view or a spacer begins.
Heads(d, s, i) == i = 1 \/ ~IsStubbed(s, d, i) \/ ~IsStubbed(s, d, i - 1)
Firsts(d, s) ==
    LET upTo[i \in 0..Len(d)] ==
            IF i = 0 THEN <<>> ELSE IF Heads(d, s, i) THEN Append(upTo[i - 1], i) ELSE upTo[i - 1]
    IN upTo[Len(d)]

\* rebuildSparseChildren
Rebuilt(children, d, s) ==
    LET order == Firsts(d, s)
        EndOf(n) == IF n < Len(order) THEN order[n + 1] - 1 ELSE Len(d)
        Child(n) ==
            LET new == Spacer(d, order[n], EndOf(n))
                old == {child \in Range(children) : IsSpacer(child) /\ ReusedSpacer(child, new)}
            IN IF ~IsStubbed(s, d, order[n]) THEN Real(d[order[n]])
               ELSE IF old # {} THEN CHOOSE child \in old : TRUE
               ELSE new
    IN [n \in DOMAIN order |-> Child(n)]

\* Stock rendering: a view for every block.
AllReal(d) == [i \in DOMAIN d |-> Real(d[i])]

\* A view whose block became of another kind is replaced; the rebuild marks
\* the old one as still used, and so does not destroy it.
SameKind(a, b) == (a \in AlwaysReal) = (b \in AlwaysReal)
Replaces(children, d, s) ==
    \E n \in BlockViews(children) :
        LET i == FirstOf(children, n)
        IN i \in DOMAIN d /\ ~IsStubbed(s, d, i) /\ ~SameKind(children[n].size, d[i])

\* A transaction and its redraw: the document's view is updated when the
\* document or the membership changed.
Redraw(d, sel, s, docChanged) ==
    /\ doc' = d
    /\ caret' = sel
    /\ stub' = s
    /\ measured' = s.enabled
    /\ IF ~s.enabled
       THEN page' = AllReal(d) /\ UNCHANGED lost
       ELSE IF docChanged \/ s # stub
       THEN /\ page' = Rebuilt(page, d, s)
            /\ lost' = (lost \/ Replaces(page, d, s))
       ELSE UNCHANGED <<page, lost>>

\* The plugin view's update: after a new membership the real blocks are
\* measured, as long as there is budget.
Measuring(s) == IF s.enabled /\ (s # stub \/ ~measured) /\ budget > 0 THEN {"measure"} ELSE {}

(***************************************************************************)
(* Opening.                                                                *)
(***************************************************************************)
Screen(first, last) == Clamp(first, first + ScreenSize - 1, last)
Ideal(first, last) == Clamp(Minus(first, Buffer), first + ScreenSize - 1 + Buffer, last)

Start == [from |-> 1, to |-> 1]
OpenedState(d) ==
    IF Len(d) < MinBlocks THEN Disabled
    ELSE Built(d, Start, Ideal(1, Len(d)))

Init ==
    /\ doc \in Openings
    /\ caret = Start
    /\ stub = OpenedState(doc)
    /\ page = IF stub.enabled THEN Rebuilt(<<>>, doc, stub) ELSE AllReal(doc)
    /\ top = 1
    /\ frames = {}
    /\ measured = FALSE
    /\ budget = IF stub.enabled THEN Passes ELSE 0
    /\ lost = FALSE
    /\ edits = 0

(***************************************************************************)
(* The scroller.                                                           *)
(***************************************************************************)
Scroll ==
    /\ top' \in 1..(AtLeast(Len(doc), ScreenSize) + 1 - ScreenSize)
    /\ top' # top
    /\ frames' = frames \cup {"scroll"}
    /\ UNCHANGED <<drawn, budget, edits>>

\* Mutant: the trailing edge never follows.
SlidOpen(current, ideal, last) == Clamp(AtMost(current.from, ideal.from), AtLeast(current.to, ideal.to), last)

\* Mutant: the window stays where it was and the leading edge is cut.
SlidShort(current, ideal, last) ==
    LET most == (3 * (ideal.to - ideal.from) + 1) \div 2
    IN IF ideal.from <= current.to /\ ideal.to >= current.to /\ ideal.from >= current.from
       THEN Clamp(current.from, AtMost(ideal.to, current.from + most), last)
       ELSE Clamp(ideal.from, ideal.to, last)

\* slideViewportWindow: the leading edge grows to the ideal, the trailing
\* edge follows once the window is half as large again.
Slid(current, ideal, last) ==
    LET span == ideal.to - ideal.from
        most == AtLeast(span, (3 * span + 1) \div 2)
        overlaps == ideal.from <= current.to /\ ideal.to >= current.from
    IN IF overlaps /\ ideal.to >= current.to /\ ideal.from >= current.from
       THEN Clamp(AtLeast(current.from, Minus(ideal.to, most)), ideal.to, last)
       ELSE IF overlaps /\ ideal.from <= current.from /\ ideal.to <= current.to
       THEN Clamp(ideal.from, AtMost(current.to, ideal.from + most), last)
       ELSE Clamp(ideal.from, ideal.to, last)

\* viewportNeedsRemount
NeedsRemount(current, visible) == visible.from < current.from \/ visible.to > current.to

\* onScroll's frame and scheduleViewportFromScroll's.
FollowScroller(frame, refill) ==
    LET last == Len(doc)
        moves == stub.enabled /\ NeedsRemount(stub.viewport, Screen(top, last))
        next == Slid(stub.viewport, Ideal(top, last), last)
        s == Applied(doc, caret, stub, next)
    IN /\ frame \in frames
       /\ IF moves
          THEN /\ Redraw(doc, caret, s, FALSE)
               /\ budget' = IF refill THEN Passes ELSE budget
               /\ frames' = (frames \ {frame}) \cup
                     (IF budget' > 0 THEN {"measure"} ELSE {})
          ELSE /\ frames' = frames \ {frame}
               /\ UNCHANGED <<drawn, budget>>
       /\ UNCHANGED <<top, edits>>

ScrollFrame == FollowScroller("scroll", TRUE)
ResyncFrame == FollowScroller("resync", FALSE)

\* scheduleDeferredMeasure: real blocks found taller than thought push what
\* is on screen down by a block, and the viewport is looked at again.
MeasureFrame ==
    /\ "measure" \in frames
    /\ \E grew \in IF stub.enabled THEN BOOLEAN ELSE {FALSE} :
        LET again == grew /\ budget > 0
        IN /\ frames' = (frames \ {"measure"}) \cup (IF again THEN {"resync"} ELSE {})
           /\ budget' = IF again THEN budget - 1 ELSE budget
           /\ top' = IF grew THEN AtLeast(top, 2) - 1 ELSE top
    /\ UNCHANGED <<drawn, edits>>

(***************************************************************************)
(* The reader, and whatever else edits the document.                       *)
(***************************************************************************)
Select ==
    \E from, to \in DOMAIN doc :
        LET sel == [from |-> from, to |-> to]
            s == Applied(doc, sel, stub, stub.viewport)
        IN /\ from <= to /\ to - from \in Widths
           /\ sel # caret
           /\ Redraw(doc, sel, s, FALSE)
           /\ frames' = frames \cup Measuring(s)
           /\ UNCHANGED <<top, budget, edits>>

\* Blocks k..k+removed-1 become the given ones; an index behind them moves, and
\* one inside them ends on what replaced it.
Spliced(d, k, removed, w) == SubSeq(d, 1, k - 1) \o w \o SubSeq(d, k + removed, Len(d))
Mapped(i, k, removed, added, last) ==
    IF i < k THEN i ELSE IF i >= k + removed THEN i + added - removed ELSE AtLeast(1, AtMost(k, last))

\* The document d with the selection sel behind an edit, and the plugin's state
\* for them: a scroller that would hang over the end scrolls.
EditedTo(d, sel, s) ==
    /\ Redraw(d, sel, s, TRUE)
    /\ top' = AtMost(top, AtLeast(Len(d), ScreenSize) + 1 - ScreenSize)
    /\ frames' = frames \cup Measuring(s) \cup (IF top' # top THEN {"scroll"} ELSE {})

Replaced(k, removed, w) ==
    LET d == Spliced(doc, k, removed, w)
        Follows(i) == Mapped(i, k, removed, Len(w), Len(d))
        sel == [from |-> Follows(caret.from), to |-> Follows(caret.to)]
    IN /\ Len(d) \in 1..MaxBlocks
       /\ d # doc
       /\ EditedTo(d, sel, Applied(d, sel, stub, stub.viewport))

Edit ==
    /\ edits < MaxEdits
    /\ edits' = edits + 1
    /\ \E k \in DOMAIN doc, removed \in 0..2, w \in Pasted :
        k + removed <= Len(doc) + 1 /\ Replaced(k, removed, w)
    /\ UNCHANGED budget

Next == Scroll \/ ScrollFrame \/ ResyncFrame \/ MeasureFrame \/ Select \/ Edit

\* The browser runs the frames it was asked for.  A frame's handler is the
\* only step that takes its frame off.
Runs(frame) == frame \in frames /\ frames' \in SUBSET {"scroll", "resync", "measure"} /\ frame \notin frames'
Fairness == \A frame \in {"scroll", "resync", "measure"} : WF_frames(Runs(frame))

Spec == Init /\ [][Next]_vars /\ Fairness

(***************************************************************************)
(* Properties.                                                             *)
(***************************************************************************)
\* The page adds up to the document: each view shows the block it stands
\* for, each spacer takes the positions of the ones it covers, so a position
\* means the same in both (rebuildSparseChildren).
PageIsDocument ==
    /\ FirstOf(page, Len(page) + 1) = Len(doc) + 1
    /\ \A n \in DOMAIN page :
        LET i == FirstOf(page, n)
        IN page[n].size = StartOf(doc, i + Covers(page[n])) - StartOf(doc, i)

Drawn == {FirstOf(page, n) : n \in BlockViews(page)}

\* The caret is never in a spacer: both ends of the selection and their
\* neighbours are drawn, wherever the reader has scrolled to.
CaretIsReal ==
    \A i \in DOMAIN doc :
        \/ Within(Around(caret.from, caret.from, Radius, Len(doc)), i)
        \/ Within(Around(caret.to, caret.to, Radius, Len(doc)), i)
        => i \in Drawn

\* However long the note, however far the reader scrolls and however much is
\* selected, only so many blocks are drawn.
FewAreDrawn ==
    LET most == (3 * (ScreenSize - 1 + 2 * Buffer) + 1) \div 2 + 1
    IN stub.enabled =>
        Cardinality({i \in Drawn : doc[i] \notin AlwaysReal}) <= most + AtLeast(2 * (2 * Radius + 1), SpanMax + 1 + 2 * Radius)

OnScreen == Screen(top, Len(doc)).from .. Screen(top, Len(doc)).to

\* Scrolling ends with what is on screen drawn.
ScrollingShows == "scroll" \in frames ~> OnScreen \subseteq Drawn

\* With no frame asked for, what is on screen is drawn (viewport-stub.ts:
\* "a window around the viewport stay real content").
ScreenIsDrawn == frames = {} => OnScreen \subseteq Drawn

\* A click on a spacer lands in one of the blocks it covers
\* (createRangeSpacer, localPosFromDOM).
ClickLandsInside ==
    \A n \in DOMAIN page : IsSpacer(page[n]) =>
        page[n].start \in StartOf(doc, page[n].from) .. (StartOf(doc, page[n].to + 1) - 1)

\* A view that is not on the page any more has been destroyed
\* (rebuildSparseChildren: "Destroy leftovers (replaced reals ...").
ReplacedAreDestroyed == ~lost
=============================================================================
