-------------------------- MODULE BlockSerializer --------------------------
(***************************************************************************)
(* How a save becomes bytes (src/src/shared/markdown/v3/serialize.ts,      *)
(* incremental.ts, document.ts, blocks.ts).  The file is split into        *)
(* blocks and the gaps between them; a save is a list of units, each one   *)
(* an untouched block of the accepted revision (by its origin), a changed  *)
(* one or a new one.  Four doors lead to the next revision: nothing        *)
(* changed, one block changed, one region changed, and the engine.  Each   *)
(* proves in its own way that the bytes read back as the units.            *)
(*                                                                         *)
(* A text is a sequence of lines that open or continue a block, with gaps  *)
(* between them.  Line endings, byte order mark, leading blank lines and   *)
(* the reader's own change of ending are left out; a block's id is its     *)
(* ordinal and its text (the hash), its kind follows from the text.        *)
(***************************************************************************)
EXTENDS Naturals, SequencesExt, FiniteSetsExt

(***************************************************************************)
(* The text.  Paragraphs: "a" and "b", and "a_", which is "a" written      *)
(* another way (underscores for stars).  Lists of either bullet.  A fence *)
(* that is never closed, the same closed, and an indented code block.      *)
(***************************************************************************)
Paragraphs == {"a", "a_", "b"}
Lists == {"-l", "*l"}
OpenFence == "f"
ClosedFence == "fc"
Indented == "i"
Lines == Paragraphs \cup Lists \cup {OpenFence, ClosedFence, Indented}
Newline == "n"      \* two blocks on consecutive lines
Blank == "nn"       \* with blank lines between them
Gaps == {Newline, Blank}

\* A line the parser reads as more of the block that the line before is in.
Continues(before, gap, line) ==
    \/ before \in Lists /\ line = before
    \/ before \in Lists \cup {Indented} /\ line = Indented
    \/ gap = Newline /\ before \in Paragraphs \cup Lists /\ line \in Paragraphs \cup {Indented}

\* splitBlocks: an unclosed fence takes everything after it.
Split(text) ==
    LET contents == {k \in DOMAIN text : k % 2 = 1}
        Opens(k) == /\ \A j \in contents : j < k => text[j] # OpenFence
                    /\ k > 1 => ~Continues(text[k - 2], text[k - 1], text[k])
        starts == SetToSortSeq({k \in contents : Opens(k)}, <)
        count == Len(starts)
        EndOf(n) == IF n < count THEN starts[n + 1] - 2 ELSE Max(contents)
    IN [blocks |-> [n \in 1..count |-> SubSeq(text, starts[n], EndOf(n))],
        gaps |-> [n \in 1..(count - 1) |-> text[starts[n + 1] - 1]],
        trailing |-> IF Len(text) % 2 = 0 /\ text # <<>> THEN <<Last(text)>> ELSE <<>>]

\* The bytes of blocks from..to of a revision, with what is between them.
Slice(doc, from, to) ==
    FlattenSeq([n \in 1..(to + 1 - from) |->
        LET k == from + n - 1
        IN doc.blocks[k] \o IF k < Len(doc.blocks) THEN <<doc.gaps[k]>> ELSE doc.trailing])

Text(doc) == Slice(doc, 1, Len(doc.blocks))

ReadsAsOne(markdown) == Split(markdown).blocks = <<markdown>>

(***************************************************************************)
(* Units.                                                                  *)
(***************************************************************************)
NoOrigin == [ordinal |-> 0, markdown |-> <<>>]
Kept == <<"kept">>      \* a unit that sends no text

OriginOf(doc, k) == [ordinal |-> k, markdown |-> doc.blocks[k]]
Issued(doc, origin) == origin.ordinal \in DOMAIN doc.blocks /\ origin = OriginOf(doc, origin.ordinal)

\* validateOrigins: empty, forged, duplicate and reordered units are refused.
OriginsValid(doc, units) ==
    /\ \A k \in DOMAIN units :
        /\ units[k].text # <<>>
        /\ units[k].origin = NoOrigin => units[k].text # Kept
        /\ units[k].origin # NoOrigin => Issued(doc, units[k].origin)
    /\ \A j, k \in DOMAIN units :
        j < k /\ NoOrigin \notin {units[j].origin, units[k].origin} =>
            units[j].origin.ordinal < units[k].origin.ordinal

IsPristine(doc, unit) ==
    unit.origin # NoOrigin /\ unit.text \in {Kept, doc.blocks[unit.origin.ordinal]}

UnitMarkdown(doc, unit) == IF unit.text = Kept THEN doc.blocks[unit.origin.ordinal] ELSE unit.text

\* gapBetween: one newline is kept only between two untouched neighbours.
GapBetween(doc, before, unit) ==
    IF /\ NoOrigin \notin {before.origin, unit.origin}
       /\ unit.origin.ordinal = before.origin.ordinal + 1
       /\ \/ doc.gaps[before.origin.ordinal] = Blank
          \/ IsPristine(doc, before) /\ IsPristine(doc, unit)
    THEN doc.gaps[before.origin.ordinal]
    ELSE Blank

\* What every door writes; the file keeps its final newline.
Assembled(doc, units) ==
    [blocks |-> [k \in DOMAIN units |-> UnitMarkdown(doc, units[k])],
     gaps |-> [k \in 1..(Len(units) - 1) |-> GapBetween(doc, units[k], units[k + 1])],
     trailing |-> IF units = <<>> THEN <<>> ELSE doc.trailing]

(***************************************************************************)
(* The local proof.                                                        *)
(***************************************************************************)
\* Mutant: a changed unit is read on its own, without its neighbours.
LoneWindows(suspects, count) == {[from |-> k, to |-> k] : k \in suspects}

\* verificationWindows: one neighbour on each side, touching windows merged.
Windows(suspects, count) ==
    LET covered == {k \in 1..count : \E s \in suspects : k \in (s - 1)..(s + 1)}
    IN {[from |-> f, to |-> t] : <<f, t>> \in
            {<<f, t>> \in covered \X covered :
                f <= t /\ (f..t) \subseteq covered /\ {f - 1, t + 1} \cap covered = {}}}

\* checkWindow
WindowReads(doc, window) == Split(Slice(doc, window.from, window.to)).blocks = SubSeq(doc.blocks, window.from, window.to)

ReadsAround(doc, suspects) == \A window \in Windows(suspects, Len(doc.blocks)) : WindowReads(doc, window)

(***************************************************************************)
(* The doors.                                                              *)
(***************************************************************************)
Changed(doc, units) == {k \in DOMAIN units : ~IsPristine(doc, units[k])}

InPlace(doc, units) ==
    Len(units) = Len(doc.blocks) /\ \A k \in DOMAIN units : units[k].origin.ordinal = k

\* isByteIdentitySave
IsIdentity(doc, units) == InPlace(doc, units) /\ Changed(doc, units) = {}

\* singleBlockEditIndex: a gap that would have to change is not this door's.
IsSingleEdit(doc, units) ==
    /\ InPlace(doc, units)
    /\ Cardinality(Changed(doc, units)) = 1
    /\ \A k \in Changed(doc, units), g \in DOMAIN doc.gaps : g \in {k - 1, k} => doc.gaps[g] = Blank

\* pristinePrefixLen and pristineSuffixLen
PristineRun(doc, units, from, to) ==
    \A k \in from..to :
        /\ IsPristine(doc, units[k])
        /\ k > from => units[k].origin.ordinal = units[k - 1].origin.ordinal + 1
PrefixLen(doc, units) ==
    Max({n \in 0..Len(units) : n > 0 => units[1].origin.ordinal = 1 /\ PristineRun(doc, units, 1, n)})
SuffixLen(doc, units) ==
    LET count == Len(units)
    IN Max({n \in 0..count : n > 0 =>
            /\ units[count].origin.ordinal = Len(doc.blocks)
            /\ PristineRun(doc, units, count + 1 - n, count)})

\* What the region door looks at: the changed units, and the seam of a
\* deletion when nothing is changed.
RegionSuspects(doc, units) ==
    LET prefix == PrefixLen(doc, units)
        suffix == SuffixLen(doc, units)
    IN IF Changed(doc, units) = {} /\ prefix + suffix = Len(units) /\ prefix > 0 /\ suffix > 0
       THEN {prefix, prefix + 1}
       ELSE Changed(doc, units)

\* serializeContiguousRegion takes a save with an untouched start or end.
IsRegion(doc, units) ==
    LET flanks == PrefixLen(doc, units) + SuffixLen(doc, units)
    IN flanks \in 1..Len(units) /\ ~(flanks = Len(units) /\ Len(units) = Len(doc.blocks))

\* nextRevisionFromEngine also looks at every place a block is gone from.
EngineSuspects(doc, units) ==
    {k \in DOMAIN units :
        \/ ~IsPristine(doc, units[k])
        \/ (IF k = 1 THEN units[k].origin.ordinal # 1
            ELSE \/ units[k - 1].origin = NoOrigin
                 \/ units[k].origin.ordinal # units[k - 1].origin.ordinal + 1)
        \/ k = Len(units) /\ units[k].origin.ordinal # Len(doc.blocks)}

Saved(doc) == [ok |-> TRUE, document |-> doc]
Failed(doc) == [ok |-> FALSE, document |-> doc]

\* The engine's assembly, its local proof, and the full reparse behind it.
EngineDoor(doc, units) ==
    LET next == Assembled(doc, units)
        reparsed == Split(Text(next))
    IN IF Text(next) = Text(doc) THEN Saved(doc)
       ELSE IF ReadsAround(next, EngineSuspects(doc, units)) THEN Saved(next)
       ELSE IF Changed(doc, units) # {} /\ reparsed.blocks # next.blocks THEN Failed(doc)
       ELSE Saved(reparsed)

\* serializeBlocksViaRoobli
Serialize(doc, units) ==
    LET next == Assembled(doc, units)
    IN IF ~OriginsValid(doc, units) THEN Failed(doc)
       ELSE IF IsIdentity(doc, units) THEN Saved(doc)
       ELSE IF \E k \in Changed(doc, units) : ~ReadsAsOne(next.blocks[k]) THEN Failed(doc)
       ELSE IF IsSingleEdit(doc, units)
            THEN IF ReadsAround(next, Changed(doc, units)) THEN Saved(next) ELSE Failed(doc)
       ELSE IF IsRegion(doc, units) /\ ReadsAround(next, RegionSuspects(doc, units)) THEN Saved(next)
       ELSE EngineDoor(doc, units)
=============================================================================
