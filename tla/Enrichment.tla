----------------------------- MODULE Enrichment -----------------------------
(***************************************************************************)
(* The stand-ins of a long note (deferred-viewport-enrich.ts,              *)
(* NotoEditor.ts, roobli-md-adapter.ts).  A note opened deferred shows the *)
(* blocks the engine alone cannot read as their raw markdown; they are     *)
(* swapped for the real ones on screen, in idle time, under the caret and  *)
(* before find and replace.  An edit to a stand-in is saved escaped.       *)
(*                                                                         *)
(* A block is known by its place in the opened note.  Node identity is     *)
(* same: no edit has made a new node of it.                                *)
(***************************************************************************)
EXTENDS Naturals, Sequences, FiniteSets

CONSTANTS
    N,         \* blocks, 1..N
    Initial,   \* blocks 1..Initial are enriched before the first paint
    Plain,     \* blocks the engine reads by itself (engineOwned)
    Budget,    \* OPEN_VIEWPORT_ENRICH_BUDGET
    OnScreen,  \* blocks on screen, padding included
    MaxEdits   \* bound

Blocks == 1..N

VARIABLES
    doc,       \* the blocks: here, text, real (not a stand-in), same
    base,      \* baselineDoc
    deferred,  \* flags: the blocks still to be enriched
    sources,   \* enrichSources, enrichIndex: the stand-ins not yet tried
    sel,       \* the selection's first and last block
    past,      \* the undo history: the blocks and selection before each edit
    dirty, composing,
    frame,     \* the animation frame asked for: "none", "first", "scroll"
    idle,      \* an idle callback is asked for
    edits,
    saved,     \* history: the texts of the last save
    slipped,   \* history: the baseline was taken from a note just edited
    returned,  \* history: stand-ins an undo brought back after their turn
    escaped    \* history: how and where stand-ins were edited

vars == <<doc, base, deferred, sources, sel, past, dirty, composing, frame, idle, edits, saved, slipped, returned, escaped>>
edited == <<past, edits, escaped, saved>>

Texts(d) == [i \in Blocks |-> IF d[i].here THEN <<d[i].text>> ELSE <<>>]

Init ==
    /\ doc = [i \in Blocks |-> [here |-> TRUE, text |-> 0, same |-> TRUE,
                                real |-> i <= Initial \/ i \in Plain]]
    /\ base = doc
    /\ deferred = {i \in Blocks : ~doc[i].real}
    /\ sources = (Initial + 1)..N
    /\ sel = <<1, 1>> /\ past = <<>> /\ dirty = FALSE /\ composing = FALSE
    /\ frame = "first" /\ idle = FALSE
    /\ edits = 0 /\ saved = Texts(doc) /\ slipped = FALSE /\ returned = {} /\ escaped = {}

(***************************************************************************)
(* Swapping stand-ins.                                                     *)
(***************************************************************************)
\* nextDeferredEnrichWindow: the first run of deferred blocks in a range,
\* Budget at most
Window(range) ==
    LET open == deferred \cap range
        from == CHOOSE i \in open : \A j \in open : i <= j
    IN IF open = {} THEN {}
       ELSE {i \in open : i < from + Budget /\ from..i \subseteq open}

\* The stand-ins of a window still in the note: the very nodes it was opened
\* with, wherever they now sit.
Intact(d, window) == {i \in window \cap sources : d[i].here /\ d[i].same}

Real(d, which) == [i \in Blocks |-> IF i \in which THEN [d[i] EXCEPT !.real = TRUE] ELSE d[i]]

\* Mutant: a baseline with edits on top of it is left as it is.
OnlyCleanBase(d, which) == IF dirty THEN base ELSE Real(d, which)

\* The baseline follows, so that undoing back to it still reads as clean.
Rebased(d, which) == IF dirty THEN Real(base, {i \in which : base[i].here /\ base[i].same}) ELSE Real(d, which)

\* Mutant: a window that could not be swapped in is not tried again.
TriedOnce(d, window) ==
    LET which == IF composing THEN {} ELSE Intact(d, window)
    IN /\ doc' = Real(d, which)
       /\ base' = Rebased(d, which)
       /\ sources' = sources \ window
       /\ deferred' = deferred \ window

\* applyDialectEnrichedSpans; mid-composition the window stays deferred
Enrich(d, window) ==
    LET now == IF composing THEN {} ELSE window
        which == Intact(d, now)
    IN /\ doc' = Real(d, which)
       /\ base' = Rebased(d, which)
       /\ sources' = sources \ now
       /\ deferred' = deferred \ now

Screens == {i..(i + OnScreen - 1) : i \in 1..(N - OnScreen + 1)}

Frame ==
    /\ frame # "none"
    /\ frame' = "none"
    /\ \E screen \in Screens : Enrich(doc, Window(screen))
    /\ idle' = (idle \/ (frame = "first" /\ deferred' # {}))
    /\ UNCHANGED <<sel, dirty, composing, edited, slipped, returned>>

IdleDrain ==
    /\ idle
    /\ Enrich(doc, Window(Blocks))
    /\ idle' = (deferred' # {})
    /\ UNCHANGED <<sel, dirty, composing, frame, edited, slipped, returned>>

Scroll ==
    /\ frame = "none"
    /\ frame' = "scroll"
    /\ UNCHANGED <<doc, base, deferred, sources, sel, dirty, composing, idle, edited, slipped, returned>>

(***************************************************************************)
(* The selection, and edits.                                               *)
(***************************************************************************)
\* enrichAtSelection: the ends of the selection, found by identity
AtSelection(d, s) == {i \in {s[1], s[2]} \cap sources \cap deferred : d[i].here /\ d[i].same}

Equal(d, b) == \A i \in Blocks : d[i].here = b[i].here
                                 /\ (d[i].here => d[i].real = b[i].real /\ d[i].text = b[i].text)

\* A transaction: the blocks and selection it makes, then what its selection
\* enriches, with the baseline of a note still clean, and then whether the
\* note is dirty.
Apply(d, s) ==
    LET now == IF composing THEN {} ELSE AtSelection(d, s)
        changed == d # doc
    IN /\ doc' = Real(d, now)
       /\ base' = IF now = {} THEN base ELSE Rebased(d, now)
       /\ sources' = sources \ now
       /\ deferred' = deferred \ now
       /\ sel' = s
       /\ dirty' = IF ~changed THEN dirty ELSE ~dirty \/ ~Equal(doc', base')
       /\ slipped' = (slipped \/ (changed /\ now # {} /\ ~dirty))

Select ==
    /\ ~composing
    /\ \E f, t \in {i \in Blocks : doc[i].here} :
        /\ f <= t /\ <<f, t>> # sel
        /\ Apply(doc, <<f, t>>)
    /\ UNCHANGED <<composing, frame, idle, edited, returned>>

TypedIn(d, which) ==
    [i \in Blocks |-> IF i \in which THEN [d[i] EXCEPT !.text = edits + 1, !.same = FALSE] ELSE d[i]]

Edits(how, which, d, s) ==
    /\ edits < MaxEdits
    /\ edits' = edits + 1
    /\ past' = Append(past, [texts |-> Texts(doc), sel |-> sel])
    /\ escaped' = escaped \cup {<<how, i>> : i \in {j \in which : ~doc[j].real}}
    /\ Apply(d, s)
    /\ UNCHANGED saved

\* Typing, composition included, in the one block of the caret.
Type ==
    /\ sel[1] = sel[2]
    /\ Edits("caret", {sel[1]}, TypedIn(doc, {sel[1]}), sel)
    /\ UNCHANGED <<composing, frame, idle, returned>>

\* A mark over a selection of several blocks.
Mark ==
    LET over == {i \in sel[1]..sel[2] : doc[i].here}
    IN /\ ~composing /\ sel[1] < sel[2]
       /\ Edits("marks", over, TypedIn(doc, over), sel)
       /\ UNCHANGED <<composing, frame, idle, returned>>

\* Deleting one: what is left of the last block joins the first.
Delete ==
    LET gone == {i \in sel[1] + 1 .. sel[2] : doc[i].here}
        left == [i \in Blocks |-> IF i \in gone THEN [doc[i] EXCEPT !.here = FALSE] ELSE doc[i]]
    IN /\ ~composing /\ sel[1] < sel[2]
       /\ Edits("caret", {sel[1]}, TypedIn(left, {sel[1]}), <<sel[1], sel[1]>>)
       /\ UNCHANGED <<composing, frame, idle, returned>>

\* A block deleted whole: the caret lands in the next one, or the one before.
DeleteBlock ==
    LET i == sel[1]
        others == {j \in Blocks \ {i} : doc[j].here}
        after == {j \in others : j > i}
        next == IF after # {} THEN {j \in after : \A k \in after : j <= k}
                ELSE {j \in others : \A k \in others : j >= k}
    IN /\ ~composing /\ sel[2] = i
       /\ \E j \in next : Edits("caret", {}, [doc EXCEPT ![i].here = FALSE], <<j, j>>)
       /\ UNCHANGED <<composing, frame, idle, returned>>

\* Undo puts back the nodes a deletion took, and makes new ones of old texts.
Undo ==
    LET was == past[Len(past)]
        back == [i \in Blocks |->
                    IF was.texts[i] = <<>> THEN [doc[i] EXCEPT !.here = FALSE]
                    ELSE [doc[i] EXCEPT !.here = TRUE, !.text = was.texts[i][1], !.same = @ /\ <<doc[i].text>> = was.texts[i]]]
    IN /\ past # <<>> /\ ~composing
       /\ past' = SubSeq(past, 1, Len(past) - 1)
       /\ Apply(back, was.sel)
       /\ returned' = returned \cup {i \in Blocks \ sources : back[i].here /\ ~doc[i].here /\ ~back[i].real}
       /\ UNCHANGED <<composing, frame, idle, edits, saved, escaped>>

\* Mutant: one window's worth.
OneWindow(range) == Window(range)

\* enrichNow
Everything(range) == deferred \cap range

\* Find, which enriches all of the note; Replace enriches it again and edits
\* one block, or all of them.
ReplaceAll ==
    LET now == Everything(Blocks)
        ready == Real(doc, Intact(doc, now))
        here == {i \in Blocks : doc[i].here}
    IN /\ ~composing /\ edits < MaxEdits
       /\ \E which \in {here} \cup {{i} : i \in here} :
            /\ doc' = TypedIn(ready, which)
            /\ escaped' = escaped \cup {<<"replace", i>> : i \in {j \in which : ~ready[j].real}}
       /\ base' = Rebased(doc, Intact(doc, now))
       /\ dirty' = (~dirty \/ ~Equal(doc', base'))
       /\ past' = Append(past, [texts |-> Texts(doc), sel |-> sel])
       /\ edits' = edits + 1
       /\ sources' = sources \ now
       /\ deferred' = deferred \ now
       /\ UNCHANGED <<sel, composing, frame, idle, saved, slipped, returned>>

Compose ==
    /\ ~composing /\ sel[1] = sel[2] /\ edits < MaxEdits
    /\ composing' = TRUE
    /\ edits' = edits + 1
    /\ UNCHANGED <<doc, base, deferred, sources, sel, past, dirty, frame, idle, saved, slipped, returned, escaped>>

EndComposition ==
    /\ composing
    /\ composing' = FALSE
    /\ UNCHANGED <<doc, base, deferred, sources, sel, dirty, frame, idle, edited, slipped, returned>>

\* commit of a save nothing was typed during
Commit ==
    /\ dirty /\ ~composing
    /\ base' = doc
    /\ dirty' = FALSE
    /\ saved' = Texts(doc)
    /\ slipped' = FALSE
    /\ UNCHANGED <<doc, deferred, sources, sel, composing, frame, idle, past, edits, escaped, returned>>

Next ==
    \/ Frame \/ IdleDrain \/ Scroll
    \/ Select \/ Type \/ Mark \/ Delete \/ DeleteBlock \/ Undo \/ ReplaceAll
    \/ Compose \/ EndComposition \/ Commit

\* Frames and idle callbacks come, and a composition ends.
Fairness == WF_vars(Frame) /\ WF_vars(IdleDrain) /\ WF_vars(EndComposition)

Spec == Init /\ [][Next]_vars /\ Fairness

(***************************************************************************)
(* Properties.                                                             *)
(***************************************************************************)
\* Neither typing nor replacing ever lands in a stand-in, but for one that an
\* undo brought back after its turn had passed or a mark was put over.
TypingIsReal == \A e \in escaped : e[1] # "marks" => e[2] \in returned \/ <<"marks", e[2]>> \in escaped

\* Enrichment is not an edit: a note is called dirty just when its texts are
\* not those of the last save, whatever was enriched since, unless the
\* baseline slipped.
DirtyMeansEdited == ~slipped => (dirty <=> Texts(doc) # saved)

\* Every stand-in that is left as it is becomes real in the end.
StandInsEnd ==
    <>[](\A i \in Blocks : doc[i].here => doc[i].real \/ ~doc[i].same \/ i \in returned)

\* The baseline is the note as saved (NotoEditor.ts:1719 "The document on
\* screen is the baseline"): a note with edits is never called clean.
CleanMeansSaved == ~dirty => Texts(doc) = saved

\* No edit ever lands in a stand-in (deferred-viewport-enrich.ts:20).
NoEditInStandIn == escaped = {}
=============================================================================
