------------------------------ MODULE Finding ------------------------------
(***************************************************************************)
(* Find and replace: the editor's search (search.ts, search-plugin.ts,     *)
(* NotoEditor.ts), the find bar (FindBar.tsx), the menu's Find Next and a  *)
(* note opened at what was found in it (App.tsx).                          *)
(*                                                                         *)
(* A document is a sequence of cells: letters, leaves (an image, a line    *)
(* break) and block boundaries; position p stands before cell p.  A query  *)
(* is a word: the switches and regular expressions are left out.           *)
(***************************************************************************)
EXTENDS Integers, SequencesExt, FiniteSetsExt

CONSTANTS
    Texts,      \* the document of each note
    Leaf, Block,
    Words, Empty,
    Fillers,    \* what is typed, and what a match is replaced by
    None,
    MaxSteps    \* bound: what the reader does

Names == DOMAIN Texts

VARIABLES
    docs, sels,  \* each note's document and selection
    searches,    \* each note's search: its query, matches and active match
    mounted,     \* the notes with an editor
    front,       \* the note in front, or none
    find,        \* App's find: open, query
    bar,         \* FindBar: its field and results, what its effects last ran for
    pending,     \* pendingMatchRef
    opening,     \* the note main has been asked to open
    steps,
    last,        \* history: the last search run
    shownFor     \* history: the query and note of the last result opened, and shown

vars == <<docs, sels, searches, mounted, front, find, bar, pending, opening, steps, last, shownFor>>

(***************************************************************************)
(* search.ts                                                               *)
(***************************************************************************)
Letter(cell) == cell \notin {Leaf, Block}

\* The text: letters, with one newline between blocks that hold any.
Kept(doc, p) ==
    \/ Letter(doc[p])
    \/ doc[p] = Block
       /\ \E q \in 1..(p - 1) : Letter(doc[q]) /\ \A r \in (q + 1)..(p - 1) : doc[r] = Leaf
Flatten(doc) ==
    LET Keeps(p) == Kept(doc, p)
        at == SelectSeq([p \in DOMAIN doc |-> p], Keeps)
    IN [o \in DOMAIN at |-> [is |-> doc[at[o]], at |-> at[o]]]

\* positionAt: an offset before a letter is that letter's position; one before
\* a boundary, or past the text, stands after the letter before it.
PositionAt(text, offset) ==
    IF offset \in DOMAIN text /\ text[offset].is # Block THEN text[offset].at
    ELSE IF offset - 1 \in DOMAIN text /\ text[offset - 1].is # Block THEN text[offset - 1].at + 1
    ELSE 1

Occurs(text, word, o) ==
    o + Len(word) - 1 <= Len(text) /\ \A i \in DOMAIN word : text[o + i - 1].is = word[i]

\* A global expression goes on behind each match.
RECURSIVE OffsetsFrom(_, _, _)
OffsetsFrom(text, word, o) ==
    IF o > Len(text) THEN <<>>
    ELSE IF Occurs(text, word, o) THEN <<o>> \o OffsetsFrom(text, word, o + Len(word))
    ELSE OffsetsFrom(text, word, o + 1)

FindMatches(doc, word) ==
    LET text == Flatten(doc)
        found == IF word = Empty THEN <<>> ELSE OffsetsFrom(text, word, 1)
    IN [i \in DOMAIN found |->
           [from |-> PositionAt(text, found[i]), to |-> PositionAt(text, found[i] + Len(word))]]

\* Mutant: a match that begins at the caret is passed over.
NextPast(matches, caret, direction) ==
    LET ahead == {i \in DOMAIN matches : IF direction > 0 THEN matches[i].from > caret ELSE matches[i].to <= caret}
    IN IF matches = <<>> THEN 0
       ELSE IF direction > 0 THEN (IF ahead = {} THEN 1 ELSE Min(ahead))
       ELSE (IF ahead = {} THEN Len(matches) ELSE Max(ahead))

\* The match to go to from the caret, around the ends of the document.
NextMatch(matches, caret, direction) ==
    LET ahead == {i \in DOMAIN matches : IF direction > 0 THEN matches[i].from >= caret ELSE matches[i].to <= caret}
    IN IF matches = <<>> THEN 0
       ELSE IF direction > 0 THEN (IF ahead = {} THEN 1 ELSE Min(ahead))
       ELSE (IF ahead = {} THEN Len(matches) ELSE Max(ahead))

(***************************************************************************)
(* search-plugin.ts: the search of one editor follows its document.        *)
(***************************************************************************)
NoSearch == [query |-> Empty, matches |-> <<>>, active |-> 0]

Recompute(doc, word, caret) ==
    LET matches == FindMatches(doc, word)
    IN [query |-> word, matches |-> matches, active |-> NextMatch(matches, caret, 1)]

\* Mutant: matches stay where they were when the document changes.
UnmovedSearch(search, doc, caret) == search

\* A transaction that changes the document without setting the search.
Followed(search, doc, caret) == IF search.query = Empty THEN search ELSE Recompute(doc, search.query, caret)

Splice(doc, from, to, text) == SubSeq(doc, 1, from - 1) \o text \o SubSeq(doc, to, Len(doc))

\* Mutant: from the first match to the last.
ReplacedForwards(doc, matches, text) ==
    FoldLeft(LAMBDA d, m : Splice(d, m.from, m.to, text), doc, matches)

\* From the last match to the first, so that none moves another.
Replaced(doc, matches, text) ==
    FoldRight(LAMBDA m, d : Splice(d, m.from, m.to, text), matches, doc)

\* A position follows the replacements; within one it goes to its end, at the
\* start of one it stays (ProseMirror).
Mapped(p, matches, size) ==
    LET Grown(m) == size - (m.to - m.from)
        behind == {i \in DOMAIN matches : matches[i].to <= p}
        within == {i \in DOMAIN matches : matches[i].from < p /\ p < matches[i].to}
        moved == p + MapThenSumSet(LAMBDA i : Grown(matches[i]), behind)
    IN IF within = {} THEN moved
       ELSE LET m == matches[CHOOSE i \in within : TRUE] IN moved - (p - m.from) + size

\* insertText leaves a selection that was not empty as a caret at its end.
Reselected(sel, matches, text) ==
    LET from == Mapped(sel.from, matches, Len(text))
        to == Mapped(sel.to, matches, Len(text))
    IN IF sel.from # sel.to THEN [from |-> to, to |-> to] ELSE [from |-> from, to |-> to]

(***************************************************************************)
(* The commands of the editor in front.                                    *)
(***************************************************************************)
HasEditor == front \in mounted
Results(search) == [matches |-> Len(search.matches), active |-> search.active]
NoResults == [matches |-> 0, active |-> 0]

\* NotoEditor.search
SearchFront(word) ==
    IF HasEditor
    THEN LET found == Recompute(docs[front], word, sels[front].from)
         IN searches' = [searches EXCEPT ![front] = found]
    ELSE UNCHANGED searches
Found == IF HasEditor THEN Results(searches'[front]) ELSE NoResults

\* NotoEditor.goToMatch: from the current match, and the one gone to is selected.
Went(search, sel, direction) ==
    IF search.matches = <<>> THEN search
    ELSE LET current == search.matches[search.active]
         IN [search EXCEPT !.active =
                NextMatch(search.matches, IF direction > 0 THEN current.to ELSE current.from, direction)]
Selects(search, sel) ==
    IF search.matches = <<>> THEN sel
    ELSE [from |-> search.matches[search.active].from, to |-> search.matches[search.active].to]

GoFront(direction) ==
    IF HasEditor
    THEN LET went == Went(searches[front], sels[front], direction)
         IN /\ searches' = [searches EXCEPT ![front] = went]
            /\ sels' = [sels EXCEPT ![front] = Selects(went, @)]
    ELSE UNCHANGED <<searches, sels>>

(***************************************************************************)
(* The find bar.                                                           *)
(***************************************************************************)
BarMounted == front # None
Ran == [open |-> find.open, field |-> bar.field, query |-> find.query]

\* React is done with what one event led to before the next is handled.
Rendered == BarMounted => bar.ran = Ran
Acts == Rendered /\ steps < MaxSteps /\ steps' = steps + 1

\* A render of the bar, and its effects: it searches when it opened or its
\* field changed, and takes over a query it was given when that changed.  What
\* they set is rendered next.
Commit ==
    /\ BarMounted /\ bar.ran # Ran
    /\ LET looks == find.open /\ <<Ran.open, Ran.field>> # <<bar.ran.open, bar.ran.field>>
           adopts == find.open /\ <<Ran.open, Ran.query>> # <<bar.ran.open, bar.ran.query>> /\ find.query # Empty
           runs == looks /\ bar.field # Empty
       IN /\ IF runs
             THEN /\ SearchFront(bar.field)
                  /\ find' = [find EXCEPT !.query = bar.field]
                  /\ last' = bar.field
             ELSE UNCHANGED <<searches, find, last>>
          /\ bar' = [field |-> IF adopts THEN find.query ELSE bar.field,
                     results |-> IF runs THEN Found ELSE IF looks THEN NoResults ELSE bar.results,
                     ran |-> Ran]
    /\ UNCHANGED <<docs, sels, mounted, front, pending, opening, steps, shownFor>>

FreshBar == [field |-> Empty, results |-> NoResults,
             ran |-> [open |-> FALSE, field |-> Empty, query |-> Empty]]

TypeQuery ==
    /\ BarMounted /\ find.open /\ Acts
    /\ \E w \in (Words \cup {Empty}) \ {bar.field} : bar' = [bar EXCEPT !.field = w]
    /\ UNCHANGED <<docs, sels, searches, mounted, front, find, pending, opening, last, shownFor>>

Go ==
    /\ BarMounted /\ find.open /\ Acts
    /\ \E direction \in {-1, 1} : GoFront(direction)
    /\ bar' = [bar EXCEPT !.results = Found]
    /\ UNCHANGED <<docs, mounted, front, find, pending, opening, last, shownFor>>

\* Replace and Replace All, and the search the bar runs after either.
Replace ==
    /\ BarMounted /\ find.open /\ bar.results.matches > 0 /\ Acts
    /\ IF HasEditor /\ searches[front].matches # <<>>
       THEN \E text \in Fillers \cup {<<>>}, one \in BOOLEAN :
               LET search == searches[front]
                   matches == IF one THEN <<search.matches[search.active]>> ELSE search.matches
               IN /\ docs' = [docs EXCEPT ![front] = Replaced(@, matches, text)]
                  /\ sels' = [sels EXCEPT ![front] = Reselected(@, matches, text)]
       ELSE UNCHANGED <<docs, sels>>
    /\ searches' = IF HasEditor
                   THEN [searches EXCEPT ![front] = Recompute(docs'[front], bar.field, sels'[front].from)]
                   ELSE searches
    /\ find' = [find EXCEPT !.query = bar.field]
    /\ last' = bar.field
    /\ bar' = [bar EXCEPT !.results = Found]
    /\ UNCHANGED <<mounted, front, pending, opening, shownFor>>

CloseBar ==
    /\ BarMounted /\ find.open /\ Acts
    /\ find' = [open |-> FALSE, query |-> Empty]
    /\ searches' = IF HasEditor THEN [searches EXCEPT ![front] = NoSearch] ELSE searches
    /\ UNCHANGED <<docs, sels, mounted, front, bar, pending, opening, last, shownFor>>

(***************************************************************************)
(* The menu, and the note.                                                 *)
(***************************************************************************)
MenuFind ==
    /\ Acts
    /\ find' = [open |-> TRUE, query |-> Empty]
    /\ UNCHANGED <<docs, sels, searches, mounted, front, bar, pending, opening, last, shownFor>>

\* Find Next and Find Previous: the last query is run, then stepped through.
FindNext ==
    /\ HasEditor /\ Acts
    /\ IF find.query = Empty
       THEN find' = [find EXCEPT !.open = TRUE] /\ UNCHANGED <<searches, sels, last>>
       ELSE /\ \E direction \in {-1, 1} :
                  LET found == Recompute(docs[front], find.query, sels[front].from)
                      went == Went(found, sels[front], direction)
                  IN /\ searches' = [searches EXCEPT ![front] = went]
                     /\ sels' = [sels EXCEPT ![front] = Selects(went, @)]
            /\ last' = find.query
            /\ UNCHANGED find
    /\ UNCHANGED <<docs, mounted, front, bar, pending, opening, shownFor>>

Edit ==
    /\ HasEditor /\ Acts
    /\ \E text \in Fillers, p \in 1..(Len(docs[front]) + 1) :
          LET doc == Splice(docs[front], p, p, text)
          IN /\ p > 1
             /\ docs' = [docs EXCEPT ![front] = doc]
             /\ sels' = [sels EXCEPT ![front] = [from |-> p + Len(text), to |-> p + Len(text)]]
             /\ searches' = [searches EXCEPT ![front] = Followed(@, doc, p + Len(text))]
    /\ UNCHANGED <<mounted, front, find, bar, pending, opening, last, shownFor>>

\* openMatch, and a note opened in any other way; the last one asked for wins.
Ask ==
    /\ Acts
    /\ \E n \in Names \ {front}, w \in Words \cup {Empty} :
          /\ opening' = n
          /\ pending' = IF w = Empty THEN pending ELSE w
          /\ shownFor' = IF w = Empty THEN shownFor ELSE [word |-> w, note |-> n, on |-> None]
    /\ UNCHANGED <<docs, sels, searches, mounted, front, find, bar, last>>

\* Main brings the note forward, or cannot open it.
Opened ==
    /\ Rendered /\ opening # None
    /\ opening' = None
    /\ front' = opening \/ UNCHANGED front
    /\ bar' = IF front = None THEN FreshBar ELSE bar
    /\ UNCHANGED <<docs, sels, searches, mounted, find, pending, steps, last, shownFor>>

\* A note's editor is there; in front, it takes the pending match.
Mount(n) ==
    /\ Rendered /\ n \notin mounted /\ n = front
    /\ mounted' = mounted \cup {n}
    /\ searches' = [searches EXCEPT ![n] = NoSearch]
    /\ sels' = [sels EXCEPT ![n] = [from |-> 1, to |-> 1]]
    /\ pending' = Empty
    /\ find' = IF pending = Empty THEN find ELSE [open |-> TRUE, query |-> pending]
    /\ shownFor' = IF pending = Empty THEN shownFor ELSE [shownFor EXCEPT !.on = n]
    /\ UNCHANGED <<docs, front, bar, opening, steps, last>>

\* A note is closed, or let go.
Unmount(n) ==
    /\ n \in mounted /\ Acts
    /\ mounted' = mounted \ {n}
    /\ front' = IF n = front THEN None ELSE front
    /\ UNCHANGED <<docs, sels, searches, find, bar, pending, opening, last, shownFor>>

Init ==
    /\ docs = Texts
    /\ sels = [n \in Names |-> [from |-> 1, to |-> 1]]
    /\ searches = [n \in Names |-> NoSearch]
    /\ \E n \in Names : front = n /\ mounted = {n}
    /\ find = [open |-> FALSE, query |-> Empty] /\ bar = FreshBar
    /\ pending = Empty /\ opening = None /\ steps = 0 /\ last = Empty
    /\ shownFor = [word |-> Empty, note |-> None, on |-> None]

Runs == Commit \/ Opened \/ \E n \in Names : Mount(n)
Next ==
    \/ Runs \/ TypeQuery \/ Go \/ Replace \/ CloseBar \/ MenuFind \/ FindNext \/ Edit \/ Ask
    \/ \E n \in Names : Unmount(n)

Spec == Init /\ [][Next]_vars /\ WF_vars(Runs)
-----------------------------------------------------------------------------
TypeOK ==
    /\ mounted \subseteq Names /\ front \in Names \cup {None} /\ opening \in Names \cup {None}
    /\ \A n \in Names : sels[n].from \in 1..(Len(docs[n]) + 1) /\ sels[n].to \in 1..(Len(docs[n]) + 1)
    /\ pending \in Words \cup {Empty} /\ find.query \in Words \cup {Empty} /\ steps \in 0..MaxSteps

Text(doc) == SelectSeq(doc, Letter)

(***************************************************************************)
(* The matches of a note are where its query stands now, each the letters  *)
(* of the query in one block, in order and apart; one of them is active    *)
(* (search-plugin.ts:84).                                                  *)
(***************************************************************************)
MatchesAreReal ==
    \A n \in mounted :
        LET s == searches[n]
            Covers(m) == Text(SubSeq(docs[n], m.from, m.to - 1)) = s.query
                         /\ \A p \in m.from..(m.to - 1) : docs[n][p] # Block
        IN s.query # Empty =>
            /\ \A i \in DOMAIN s.matches :
                  Covers(s.matches[i]) /\ (i > 1 => s.matches[i - 1].to <= s.matches[i].from)
            /\ s.matches = <<>> => ~\E o \in DOMAIN docs[n] : Occurs(Flatten(docs[n]), s.query, o)
            /\ s.matches # <<>> => s.active \in DOMAIN s.matches

(***************************************************************************)
(* Next and Previous go around the matches one at a time                   *)
(* (search.ts:147).                                                        *)
(***************************************************************************)
OneAtATime ==
    [][Go /\ HasEditor /\ searches[front].matches # <<>> =>
        LET was == searches[front].active
            is == searches'[front].active
            n == Len(searches[front].matches)
        IN is \in {(was % n) + 1, ((was + n - 2) % n) + 1}]_vars

(***************************************************************************)
(* Replace changes the letters of one occurrence of the field's word,      *)
(* Replace All those of each, and neither any other letter or block        *)
(* (search-plugin.ts:131).                                                 *)
(***************************************************************************)
NoLeaves(doc) == SelectSeq(doc, LAMBDA c : c # Leaf)
RECURSIVE Substituted(_, _, _)
Substituted(doc, word, text) ==
    IF doc = <<>> THEN <<>>
    ELSE IF IsPrefix(word, doc) THEN text \o Substituted(SubSeq(doc, Len(word) + 1, Len(doc)), word, text)
    ELSE <<Head(doc)>> \o Substituted(Tail(doc), word, text)

OnlyMatchesChange ==
    [][Replace /\ docs' # docs =>
        LET was == NoLeaves(docs[front])
            word == searches[front].query
        IN \E text \in Fillers \cup {<<>>} :
              NoLeaves(docs'[front]) \in
                  {Substituted(was, word, text)} \cup
                  {SubSeq(was, 1, o - 1) \o text \o SubSeq(was, o + Len(word), Len(was)) :
                      o \in {o \in DOMAIN was : IsPrefix(word, SubSeq(was, o, Len(was)))}}]_vars

(***************************************************************************)
(* Not kept by the code.                                                   *)
(***************************************************************************)
\* A leaf has no characters to match (search.ts:62).
LeavesSurvive == [][Replace => Cardinality({p \in DOMAIN docs[front] : docs[front][p] = Leaf})
                   = Cardinality({p \in DOMAIN docs'[front] : docs'[front][p] = Leaf})]_vars

\* A query the bar was opened with reaches the editor as a typed one does
\* (FindBar.tsx:55).
BarSettles == []<>Rendered

\* What was searched for is shown in the note it was found in (App.tsx:2850).
ShownWhereFound == shownFor.on \in {None, shownFor.note}

\* Find Next repeats the last search, also when the bar was closed
\* (App.tsx:2392).
LastIsRepeated == ~find.open /\ last # Empty => find.query = last

\* The bar's count is the note's in front (FindBar.tsx:42).
CountIsTheNotes ==
    find.open /\ Rendered /\ HasEditor => bar.results.matches = Len(searches[front].matches)
=============================================================================
