----------------------------- MODULE BlockDiff -----------------------------
(***************************************************************************)
(* Which blocks of a note differ from those of another version of it       *)
(* (block-diff.ts), and the rows of the view of unsaved changes            *)
(* (unsaved-diff.ts).                                                      *)
(*                                                                         *)
(* A block is any value; Similar gives the similarity of two, 0 below the  *)
(* threshold.  Indexes count from 1.                                       *)
(***************************************************************************)
EXTENDS Integers, Sequences, FiniteSets

CONSTANTS
    Similar(_, _),
    MaxDepth,           \* MAX_ANCHOR_DEPTH
    MaxRun              \* MAX_SIMILARITY_RUN

Larger(a, b) == IF a >= b THEN a ELSE b
Smaller(a, b) == IF a <= b THEN a ELSE b

Shifted(pairs, i, j) == [k \in DOMAIN pairs |-> <<pairs[k][1] + i, pairs[k][2] + j>>]

(***************************************************************************)
(* The alignment of equal blocks.                                          *)
(***************************************************************************)
\* tableAlign: lengths[i][j] is the longest common run of what follows i and j.
RECURSIVE Common(_, _, _, _), Walk(_, _, _, _)
Common(h, c, i, j) ==
    IF i > Len(h) \/ j > Len(c) THEN 0
    ELSE IF h[i] = c[j] THEN Common(h, c, i + 1, j + 1) + 1
    ELSE Larger(Common(h, c, i + 1, j), Common(h, c, i, j + 1))

Walk(h, c, i, j) ==
    IF i > Len(h) \/ j > Len(c) THEN <<>>
    ELSE IF h[i] = c[j] THEN <<<<i, j>>>> \o Walk(h, c, i + 1, j + 1)
    ELSE IF Common(h, c, i + 1, j) >= Common(h, c, i, j + 1) THEN Walk(h, c, i + 1, j)
    ELSE Walk(h, c, i, j + 1)

Once(s, block) == Cardinality({k \in DOMAIN s : s[k] = block}) = 1

\* uniqueAnchors: of the blocks that occur once on each side, a longest run in
\* the same order, as patience sorting finds it.
Anchors(h, c) ==
    LET candidates == SelectSeq([k \in DOMAIN h |-> <<k, IF h[k] \in {c[m] : m \in DOMAIN c} THEN CHOOSE m \in DOMAIN c : c[m] = h[k] ELSE 0>>],
                                LAMBDA p : Once(h, h[p[1]]) /\ Once(c, h[p[1]]))
        pile[k \in DOMAIN candidates] ==   \* the longest run that ends in k
            LET below == {pile[m] : m \in {n \in 1..(k - 1) : candidates[n][2] < candidates[k][2]}}
            IN 1 + (IF below = {} THEN 0 ELSE CHOOSE p \in below : \A q \in below : q <= p)
        \* the top of a pile when k was laid
        Top(p, k) == LET laid == {m \in 1..k : pile[m] = p} IN CHOOSE m \in laid : \A n \in laid : n <= m
        piles == {pile[k] : k \in DOMAIN candidates}
        last == CHOOSE p \in piles : \A q \in piles : q <= p
        at[p \in piles] == IF p = last THEN Top(p, Len(candidates)) ELSE Top(p, at[p + 1])
    IN IF candidates = <<>> THEN <<>> ELSE [p \in 1..last |-> candidates[at[p]]]

\* How many blocks two versions end with alike, after their common start.
EndAlike(h, c, start) ==
    LET fits == {n \in 0..(Smaller(Len(h), Len(c)) - start) : \A k \in 0..(n - 1) : h[Len(h) - k] = c[Len(c) - k]}
    IN CHOOSE n \in fits : \A m \in fits : m <= n

StartAlike(h, c) ==
    LET fits == {n \in 0..Smaller(Len(h), Len(c)) : \A k \in 1..n : h[k] = c[k]}
    IN CHOOSE n \in fits : \A m \in fits : m <= n

\* alignRange: common start and end, then a table where it fits, or anchors
RECURSIVE Align(_, _, _, _), Between(_, _, _, _, _, _, _)
Align(h, c, cells, depth) ==
    LET start == StartAlike(h, c)
        end == EndAlike(h, c, start)
        mh == SubSeq(h, start + 1, Len(h) - end)
        mc == SubSeq(c, start + 1, Len(c) - end)
        middle == IF Len(mh) * Len(mc) <= cells THEN Walk(mh, mc, 1, 1)
                  ELSE IF depth < MaxDepth /\ Anchors(mh, mc) # <<>>
                  THEN Between(mh, mc, Anchors(mh, mc), 0, 0, cells, depth + 1)
                  ELSE <<>>
    IN [k \in 1..start |-> <<k, k>>] \o Shifted(middle, start, start)
       \o [k \in 1..end |-> <<Len(h) - end + k, Len(c) - end + k>>]

\* What lies before each anchor, the anchor, and what follows the last.
Between(h, c, anchors, i, j, cells, depth) ==
    IF anchors = <<>> THEN Shifted(Align(SubSeq(h, i + 1, Len(h)), SubSeq(c, j + 1, Len(c)), cells, depth), i, j)
    ELSE LET anchor == anchors[1] IN
         Shifted(Align(SubSeq(h, i + 1, anchor[1] - 1), SubSeq(c, j + 1, anchor[2] - 1), cells, depth), i, j)
         \o <<anchor>> \o Between(h, c, Tail(anchors), anchor[1], anchor[2], cells, depth)

(***************************************************************************)
(* The difference.                                                         *)
(***************************************************************************)
\* similarPairs: the pairing in order with the most similarity
RECURSIVE Best(_, _, _, _), Pairing(_, _, _, _)
Best(h, c, i, j) ==
    IF i > Len(h) \/ j > Len(c) THEN 0
    ELSE LET pair == Similar(h[i], c[j]) IN
         Larger(IF pair > 0 THEN Best(h, c, i + 1, j + 1) + pair ELSE 0,
                Larger(Best(h, c, i + 1, j), Best(h, c, i, j + 1)))

Pairing(h, c, i, j) ==
    IF i > Len(h) \/ j > Len(c) THEN <<>>
    ELSE LET pair == Similar(h[i], c[j]) IN
         IF pair > 0 /\ Best(h, c, i, j) = Best(h, c, i + 1, j + 1) + pair
         THEN <<<<i, j>>>> \o Pairing(h, c, i + 1, j + 1)
         ELSE IF Best(h, c, i + 1, j) >= Best(h, c, i, j + 1) THEN Pairing(h, c, i + 1, j)
         ELSE Pairing(h, c, i, j + 1)

\* A changed block, by its place, with the committed one it is an edit of; and
\* a run of deleted ones, by the place of the block it stood before.
Modified(j, was) == [at |-> j, change |-> "modified", head |-> <<was>>]
Added(j) == [at |-> j, change |-> "added", head |-> <<>>]
NoDiff == [changed |-> {}, deleted |-> {}]
With(d, e) == [changed |-> d.changed \cup e.changed, deleted |-> d.deleted \cup e.deleted]

\* Mutant: what was deleted stood before the run.
PositionalFirst(h, hf, ht, cf, ct) ==
    LET paired == Smaller(ht - hf, ct - cf) IN
    [changed |-> {Modified(cf + k, h[hf + k]) : k \in 1..paired} \cup {Added(j) : j \in (cf + paired + 1)..ct},
     deleted |-> IF ht - hf > paired THEN {[before |-> cf + 1, heads |-> SubSeq(h, hf + paired + 1, ht)]} ELSE {}]

\* positional: blocks hf + 1 .. ht of one, cf + 1 .. ct of the other
Positional(h, hf, ht, cf, ct) ==
    LET paired == Smaller(ht - hf, ct - cf) IN
    [changed |-> {Modified(cf + k, h[hf + k]) : k \in 1..paired} \cup {Added(j) : j \in (cf + paired + 1)..ct},
     deleted |-> IF ht - hf > paired THEN {[before |-> ct + 1, heads |-> SubSeq(h, hf + paired + 1, ht)]} ELSE {}]

RECURSIVE ByPairs(_, _, _, _, _, _)
ByPairs(h, pairs, hf, ht, cf, ct) ==
    IF pairs = <<>> THEN Positional(h, hf, ht, cf, ct)
    ELSE LET p == pairs[1] IN
         With(With(Positional(h, hf, p[1] - 1, cf, p[2] - 1),
                   [changed |-> {Modified(p[2], h[p[1]])}, deleted |-> {}]),
              ByPairs(h, Tail(pairs), p[1], ht, p[2], ct))

\* settle: an unmatched stretch on each side
Settle(h, c, hf, ht, cf, ct) ==
    LET rows == ht - hf
        columns == ct - cf
    IN IF rows > 0 /\ columns > 0 /\ rows + columns > 2 /\ rows <= MaxRun /\ columns <= MaxRun
       THEN ByPairs(h, Shifted(Pairing(SubSeq(h, hf + 1, ht), SubSeq(c, cf + 1, ct), 1, 1), hf, cf), hf, ht, cf, ct)
       ELSE Positional(h, hf, ht, cf, ct)

RECURSIVE Settled(_, _, _, _, _)
Settled(h, c, pairs, i, j) ==
    IF pairs = <<>> THEN Settle(h, c, i, Len(h), j, Len(c))
    ELSE LET p == pairs[1] IN
         With(Settle(h, c, i, p[1] - 1, j, p[2] - 1), Settled(h, c, Tail(pairs), p[1], p[2]))

diffBlocks(h, c, cells) == Settled(h, c, Align(h, c, cells, 0), 0, 0)

(***************************************************************************)
(* unsavedDiff: the rows, in reading order.                                *)
(***************************************************************************)
Row(kind, saved, current) == [kind |-> kind, saved |-> saved, current |-> current]

RowsAt(d, c, j) ==
    LET runs == {e \in d.deleted : e.before = j}
        heads == IF runs = {} THEN <<>> ELSE (CHOOSE e \in runs : TRUE).heads
        removed == [k \in DOMAIN heads |-> Row("removed", <<heads[k]>>, <<>>)]
        entries == {e \in d.changed : e.at = j}
    IN IF j > Len(c) THEN removed
       ELSE removed \o <<IF entries = {} THEN Row("same", <<c[j]>>, <<c[j]>>)
                         ELSE LET e == CHOOSE e \in entries : TRUE IN Row(e.change, e.head, <<c[j]>>)>>

RECURSIVE RowsFrom(_, _, _)
RowsFrom(d, c, j) == IF j > Len(c) THEN RowsAt(d, c, j) ELSE RowsAt(d, c, j) \o RowsFrom(d, c, j + 1)

Rows(saved, current, cells) == RowsFrom(diffBlocks(saved, current, cells), current, 1)
=============================================================================
