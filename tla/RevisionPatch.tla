--------------------------- MODULE RevisionPatch ---------------------------
(***************************************************************************)
(* A save sent as what changed, both ways                                  *)
(* (src/src/shared/markdown/v3/revision-patch.ts): untouched units as runs *)
(* of ordinals into the revision both sides hold, and the saved revision   *)
(* as splices of its text and runs of the blocks that only moved.          *)
(* Kinds follow from a block's text here, and the envelope is left out.    *)
(***************************************************************************)
EXTENDS BlockSerializer

\* Where block k of a revision starts and ends in its text.
SpanOf(doc, k) ==
    LET before == Len(Slice(doc, 1, k - 1))
    IN [start |-> before, end |-> before + Len(doc.blocks[k])]

\* toWire: the revision as the window has it.
Wire(doc) ==
    [text |-> Text(doc),
     origins |-> [k \in DOMAIN doc.blocks |-> OriginOf(doc, k)],
     spans |-> [k \in DOMAIN doc.blocks |-> SpanOf(doc, k)]]

(***************************************************************************)
(* The request: each entry is a run or a unit.                             *)
(***************************************************************************)
IsRun(entry) == "keep" \in DOMAIN entry

\* compactTransaction
Compact(units, wire) ==
    LET Add(entries, unit) ==
            LET ordinal == unit.origin.ordinal
                known == unit.text = Kept /\ ordinal \in DOMAIN wire.origins /\ wire.origins[ordinal] = unit.origin
                grows == entries # <<>> /\ IsRun(Last(entries)) /\ Last(entries).keep + Last(entries).count = ordinal
            IN IF ~known THEN Append(entries, unit)
               ELSE IF grows THEN [entries EXCEPT ![Len(entries)].count = @ + 1]
               ELSE Append(entries, [keep |-> ordinal, count |-> 1])
    IN FoldLeft(Add, <<>>, units)

\* expandTransaction, on main's own copy; a run past its end is refused.
Expandable(entries, doc) ==
    \A k \in DOMAIN entries : IsRun(entries[k]) => entries[k].keep + entries[k].count - 1 <= Len(doc.blocks)
Expand(entries, doc) ==
    FlattenSeq([k \in DOMAIN entries |->
        IF IsRun(entries[k])
        THEN [n \in 1..entries[k].count |-> [origin |-> OriginOf(doc, entries[k].keep + n - 1), text |-> Kept]]
        ELSE <<entries[k]>>])

(***************************************************************************)
(* The reply.                                                              *)
(***************************************************************************)
SameBlock(base, next, i, j) ==
    i \in DOMAIN base.blocks /\ j \in DOMAIN next.blocks /\ base.blocks[i] = next.blocks[j]

\* pairBlocks: for each block of next, the base block it is, or 0.
Pairs(base, next) ==
    LET Pair(acc, j) ==
            LET i == acc.at
                later == {k \in DOMAIN base.blocks : k >= i /\ SameBlock(base, next, k, j)}
                With(at, paired) == [at |-> at, paired |-> Append(acc.paired, paired)]
            IN IF SameBlock(base, next, i, j) THEN With(i + 1, i)
               ELSE IF SameBlock(base, next, i + 1, j + 1) THEN With(i + 1, 0)
               ELSE IF SameBlock(base, next, i, j + 1) THEN With(i, 0)
               ELSE IF SameBlock(base, next, i + 1, j) THEN With(i + 2, i + 1)
               ELSE IF later # {} THEN With(Min(later) + 1, Min(later))
               ELSE With(i, 0)
    IN FoldLeft(Pair, [at |-> 1, paired |-> <<>>], [j \in DOMAIN next.blocks |-> j]).paired

\* commonEnds
CommonHead(left, right) ==
    Max({n \in 0..Len(left) : n <= Len(right) /\ SubSeq(left, 1, n) = SubSeq(right, 1, n)})
CommonTail(left, right) == CommonHead(Reverse(left), Reverse(right))

\* Mutant: a splice that ends where its unchanged tail does.
SpliceLong(at, before, after) ==
    LET head == CommonHead(before, after)
        right == SubSeq(after, head + 1, Len(after))
        tail == CommonTail(SubSeq(before, head + 1, Len(before)), right)
    IN [start |-> at + head, end |-> at + Len(before), text |-> SubSeq(right, 1, Len(right) - tail)]

\* The part of before..after that differs, at its place in the base.
Splice(at, before, after) ==
    LET head == CommonHead(before, after)
        left == SubSeq(before, head + 1, Len(before))
        right == SubSeq(after, head + 1, Len(after))
        tail == CommonTail(left, right)
    IN [start |-> at + head, end |-> at + Len(before) - tail, text |-> SubSeq(right, 1, Len(right) - tail)]

\* revisionPatch: a splice for every stretch between kept blocks that
\* differs, and the blocks of next in order, kept ones in runs.
Patch(base, next) ==
    LET paired == Pairs(base, next)
        keptAt == SetToSortSeq({j \in DOMAIN paired : paired[j] > 0}, <)
        count == Len(keptAt)
        Stretch(n) ==
            LET b0 == IF n = 0 THEN 0 ELSE SpanOf(base, paired[keptAt[n]]).end
                n0 == IF n = 0 THEN 0 ELSE SpanOf(next, keptAt[n]).end
                b1 == IF n = count THEN Len(Text(base)) ELSE SpanOf(base, paired[keptAt[n + 1]]).start
                n1 == IF n = count THEN Len(Text(next)) ELSE SpanOf(next, keptAt[n + 1]).start
            IN [at |-> b0, before |-> SubSeq(Text(base), b0 + 1, b1), after |-> SubSeq(Text(next), n0 + 1, n1)]
        stretches == SelectSeq([n \in 1..(count + 1) |-> Stretch(n - 1)], LAMBDA s : s.before # s.after)
        Runs(j) == j > 1 /\ paired[j] > 0 /\ paired[j - 1] > 0 /\ paired[j] = paired[j - 1] + 1
        heads == SelectSeq([j \in DOMAIN paired |-> j], LAMBDA j : ~Runs(j))
        RunLen(j) == Max({n \in 1..(Len(paired) + 1 - j) : \A k \in (j + 1)..(j + n - 1) : Runs(k)})
        Entry(j) ==
            IF paired[j] = 0 THEN [origin |-> OriginOf(next, j), span |-> SpanOf(next, j)]
            ELSE [keep |-> paired[j], count |-> RunLen(j), first |-> OriginOf(base, paired[j])]
    IN [splices |-> [n \in DOMAIN stretches |-> Splice(stretches[n].at, stretches[n].before, stretches[n].after)],
        blocks |-> [n \in DOMAIN heads |-> Entry(heads[n])]]

\* A base block's span moved by the splices before it.
Shifted(splices, span) ==
    LET Shift(acc, s) == IF s.end <= span.start THEN acc + Len(s.text) + s.start - s.end ELSE acc
        start == FoldLeft(Shift, span.start, splices)
    IN [start |-> start, end |-> start + span.end - span.start]

\* The blocks a patch names, one by one, with the base block each one keeps.
PatchedBlocks(wire, patch) ==
    FlattenSeq([n \in DOMAIN patch.blocks |->
        LET entry == patch.blocks[n]
        IN IF ~IsRun(entry) THEN <<[kept |-> 0, origin |-> entry.origin, span |-> entry.span]>>
           ELSE [k \in 1..entry.count |->
                    LET ordinal == entry.keep + k - 1
                    IN [kept |-> ordinal, origin |-> wire.origins[ordinal],
                        span |-> Shifted(patch.splices, wire.spans[ordinal])]]])

\* The revision a patch makes of its base.
Patched(wire, patch) ==
    LET blocks == PatchedBlocks(wire, patch)
        splices == patch.splices
        count == Len(splices)
        Until(n) == IF n > count THEN Len(wire.text) ELSE splices[n].start
        Piece(n) == SubSeq(wire.text, (IF n = 1 THEN 0 ELSE splices[n - 1].end) + 1, Until(n))
    IN [text |-> FlattenSeq([n \in 1..(count + 1) |->
                    Piece(n) \o IF n <= count THEN splices[n].text ELSE <<>>]),
        origins |-> [k \in DOMAIN blocks |-> [blocks[k].origin EXCEPT !.ordinal = k]],
        spans |-> [k \in DOMAIN blocks |-> blocks[k].span]]

\* applyRevisionPatch: what does not fit the base is refused.
Fits(wire, patch) ==
    /\ \A n \in DOMAIN patch.splices :
        LET s == patch.splices[n]
        IN /\ s.start >= (IF n = 1 THEN 0 ELSE patch.splices[n - 1].end)
           /\ s.end >= s.start
           /\ s.end <= Len(wire.text)
    /\ \A n \in DOMAIN patch.blocks :
        LET entry == patch.blocks[n]
        IN IsRun(entry) =>
            /\ entry.count >= 1
            /\ entry.keep + entry.count - 1 <= Len(wire.origins)
            /\ wire.origins[entry.keep] = entry.first
    /\ LET blocks == PatchedBlocks(wire, patch)
       IN \A k \in DOMAIN blocks :
            /\ blocks[k].kept = 0 => blocks[k].origin.ordinal = k
            /\ blocks[k].kept > 0 =>
                \A n \in DOMAIN patch.splices :
                    \/ patch.splices[n].end <= wire.spans[blocks[k].kept].start
                    \/ patch.splices[n].start >= wire.spans[blocks[k].kept].end
            /\ blocks[k].span.start >= (IF k = 1 THEN 0 ELSE blocks[k - 1].span.end)
            /\ blocks[k].span.end >= blocks[k].span.start
            /\ blocks[k].span.end <= Len(Patched(wire, patch).text)
=============================================================================
