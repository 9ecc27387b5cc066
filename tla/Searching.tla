----------------------------- MODULE Searching -----------------------------
(***************************************************************************)
(* What the window asks of the folder and draws when the answer comes: the *)
(* sidebar's search (RailSearch.tsx), quick open's search inside notes     *)
(* (QuickOpen.tsx), a note's links (RailLinks.tsx) and the tag browser     *)
(* (App.tsx), with main's scan of the notes (content-search.ts).  Each     *)
(* panel asks anew before the last answer is in, and each has its own way  *)
(* of telling an answer it no longer waits for.                            *)
(*                                                                         *)
(* A word is a query with its switches and scope.  A panel's render and    *)
(* the effects it runs are one step.                                       *)
(***************************************************************************)
EXTENDS Naturals, SequencesExt, FiniteSetsExt

CONSTANTS
    Words, Empty,   \* what a field can hold, and an empty one
    Notes,
    Holding,        \* the notes each word occurs in
    Pool,           \* content-search.ts: CONCURRENCY
    MaxFiles,       \* content-search.ts: MAX_FILES
    MaxAsks         \* bound: questions asked

VARIABLES
    rail,     \* RailSearch: its field, its result, the last ticket, the timer
    palette,  \* QuickOpen on "In notes": its field, its answer, the current
              \* effect's question and timer
    links,    \* RailLinks: the note in front and the reply drawn for it
    tags,     \* App's tagBrowser
    calls,    \* the questions main has not answered yet
    asks      \* the number of questions asked

vars == <<rail, palette, links, tags, calls, asks>>

Nothing == [of |-> Empty, notes |-> {}, partial |-> FALSE, unread |-> {}]
Index == SetToSeq(Notes)

\* A scan of the index, by the words of one question.
Scan(panel, id, word) ==
    [panel |-> panel, id |-> id, of |-> word, next |-> 1, reading |-> {}, found |-> {},
     unread |-> {}, late |-> FALSE]
\* A question main answers in one go: a note's links, the tags, a tag's notes.
Plain(panel, id, of) == [panel |-> panel, id |-> id, of |-> of]

FreshRail == [open |-> TRUE, word |-> Empty, result |-> Nothing, searching |-> FALSE,
              latest |-> 0, timer |-> FALSE]

Init ==
    /\ rail = [FreshRail EXCEPT !.open = FALSE]
    /\ palette = [open |-> FALSE, content |-> FALSE, word |-> Empty, answer |-> Nothing,
                  searching |-> FALSE, current |-> 0, timer |-> FALSE, missed |-> FALSE]
    /\ links = [of |-> Empty, drawn |-> Empty, live |-> 0, loading |-> FALSE]
    /\ tags = [open |-> FALSE, view |-> Empty, loading |-> FALSE, drawn |-> Empty]
    /\ calls = {} /\ asks = 0

CanAsk == asks < MaxAsks
Asked == asks' = asks + 1

(***************************************************************************)
(* The sidebar's search.                                                   *)
(***************************************************************************)
\* Its field or a switch changes: the timer of the last question is cleared
\* and a ticket taken for the new one; an empty field takes none.
RailTypes ==
    /\ rail.open
    /\ \/ /\ rail' = [rail EXCEPT !.word = Empty, !.result = Nothing,
                                  !.searching = FALSE, !.timer = FALSE]
          /\ rail.word # Empty
          /\ UNCHANGED asks
       \/ /\ CanAsk /\ Asked
          /\ \E w \in Words \ {rail.word} :
                rail' = [rail EXCEPT !.word = w, !.searching = TRUE,
                                     !.latest = asks + 1, !.timer = TRUE]
    /\ UNCHANGED <<palette, links, tags, calls>>

\* SETTLE_MS later.
RailAsks ==
    /\ rail.timer
    /\ rail' = [rail EXCEPT !.timer = FALSE]
    /\ calls' = calls \cup {Scan("rail", rail.latest, rail.word)}
    /\ UNCHANGED <<palette, links, tags, asks>>

\* The rail goes to another view: the panel's state and tickets go with it.
RailOpens ==
    /\ rail' = IF rail.open THEN [FreshRail EXCEPT !.open = FALSE] ELSE FreshRail
    /\ rail.open \/ CanAsk
    /\ UNCHANGED <<palette, links, tags, calls, asks>>

\* Mutant: whichever answer comes is drawn.
Whichever(id) == rail.open

\* An answer to any ticket but the latest is thrown away.
Expected(id) == rail.open /\ rail.latest = id
RailAnswered(id, reply) ==
    /\ rail' = IF Expected(id) THEN [rail EXCEPT !.result = reply, !.searching = FALSE] ELSE rail
    /\ UNCHANGED <<palette, links, tags>>

(***************************************************************************)
(* Quick open.                                                             *)
(***************************************************************************)
\* The effect runs again whenever what it reads changed: the last question is
\* no longer current, and if notes are searched a timer runs for a new one.
Rerun(p) ==
    LET off == [p EXCEPT !.current = 0, !.timer = FALSE]
    IN IF ~p.open \/ ~p.content THEN palette' = off /\ UNCHANGED asks
       ELSE IF p.word = Empty
       THEN /\ palette' = [off EXCEPT !.answer = Nothing, !.searching = FALSE, !.missed = FALSE]
            /\ UNCHANGED asks
       ELSE /\ CanAsk /\ Asked
            /\ palette' = [off EXCEPT !.current = asks + 1, !.timer = TRUE, !.searching = TRUE]

\* Opened with an empty field; typed in; its tab changed; closed.  App hands
\* it a new callback with every render of its own, which is a change as well.
PaletteChanges ==
    /\ \/ /\ palette.open
          /\ \/ \E w \in (Words \cup {Empty}) \ {palette.word} : Rerun([palette EXCEPT !.word = w])
             \/ Rerun([palette EXCEPT !.content = ~@])
             \/ Rerun(palette) /\ asks' # asks
             \/ Rerun([palette EXCEPT !.open = FALSE])
       \/ /\ ~palette.open /\ CanAsk
          /\ \E content \in BOOLEAN :
                Rerun([palette EXCEPT !.open = TRUE, !.content = content, !.word = Empty])
    /\ UNCHANGED <<rail, links, tags, calls>>

PaletteAsks ==
    /\ palette.timer
    /\ palette' = [palette EXCEPT !.timer = FALSE]
    /\ calls' = calls \cup {Scan("palette", palette.current, palette.word)}
    /\ UNCHANGED <<rail, links, tags, asks>>

\* A question that failed leaves the answer there is.
Current(id) == palette.current = id
PaletteAnswered(id, reply, failed) ==
    /\ palette' = IF ~Current(id) THEN palette
                  ELSE [palette EXCEPT !.searching = FALSE, !.missed = failed,
                                       !.answer = IF failed THEN @ ELSE reply]
    /\ UNCHANGED <<rail, links, tags>>

(***************************************************************************)
(* Main scans the notes, Pool at a time, until it has MaxFiles or time is  *)
(* up; a note it cannot read is passed over.                               *)
(***************************************************************************)
Scanning(c) == c.panel \in {"rail", "palette"}
Becomes(c, d) == calls' = (calls \ {c}) \cup {d}

Take(c) ==
    /\ Scanning(c) /\ c.next <= Len(Index) /\ Cardinality(c.reading) < Pool
    /\ LET on == [c EXCEPT !.next = @ + 1]
       IN IF c.late \/ Cardinality(c.found) >= MaxFiles THEN Becomes(c, on)
          ELSE \/ Becomes(c, [on EXCEPT !.late = TRUE])
               \/ Becomes(c, [on EXCEPT !.reading = @ \cup {Index[c.next]}])
    /\ UNCHANGED <<rail, palette, links, tags, asks>>

ReadEnds(c) ==
    /\ Scanning(c)
    /\ \E n \in c.reading :
          LET on == [c EXCEPT !.reading = @ \ {n}]
          IN \/ Becomes(c, [on EXCEPT !.unread = @ \cup {n}])
             \/ Becomes(c, [on EXCEPT !.found = @ \cup ({n} \cap Holding[c.of])])
    /\ UNCHANGED <<rail, palette, links, tags, asks>>

\* The reply: the best MaxFiles of what was found, and whether that is all.
Reply(c) ==
    {[of |-> c.of, notes |-> kept, partial |-> c.late \/ Cardinality(c.found) > MaxFiles,
      unread |-> c.unread] :
     kept \in IF Cardinality(c.found) > MaxFiles THEN kSubset(MaxFiles, c.found) ELSE {c.found}}

Answered(c, reply, failed) ==
    IF c.panel = "rail" THEN RailAnswered(c.id, reply) ELSE PaletteAnswered(c.id, reply, failed)

ScanEnds(c) ==
    /\ Scanning(c) /\ c.next > Len(Index) /\ c.reading = {}
    /\ calls' = calls \ {c}
    /\ \E r \in Reply(c) : Answered(c, r, FALSE)
    /\ UNCHANGED asks

\* The bridge refuses the question, or main's index fails: to the sidebar,
\* that nothing was found.
ScanFails(c) ==
    /\ Scanning(c) /\ c.next = 1 /\ c.reading = {}
    /\ calls' = calls \ {c}
    /\ Answered(c, [Nothing EXCEPT !.of = c.of, !.partial = TRUE], TRUE)
    /\ UNCHANGED asks

(***************************************************************************)
(* A note's links, and the tags.                                           *)
(***************************************************************************)
\* Another note comes to the front, or none.
LinksFollow ==
    /\ CanAsk /\ Asked
    /\ \E n \in (Notes \cup {Empty}) \ {links.of} :
          IF n = Empty
          THEN /\ links' = [links EXCEPT !.of = Empty, !.drawn = Empty, !.live = 0]
               /\ UNCHANGED calls
          ELSE /\ links' = [links EXCEPT !.of = n, !.live = asks + 1, !.loading = TRUE]
               /\ calls' = calls \cup {Plain("links", asks + 1, n)}
    /\ UNCHANGED <<rail, palette, tags>>

Live(id) == links.live = id
LinksArrive(c) ==
    /\ c.panel = "links"
    /\ calls' = calls \ {c}
    /\ links' = IF Live(c.id) THEN [links EXCEPT !.drawn = c.of, !.loading = FALSE] ELSE links
    /\ UNCHANGED <<rail, palette, tags, asks>>

\* openTagBrowser: all tags, or the notes of one (a word stands for a tag).
BrowseTags ==
    /\ CanAsk /\ Asked
    /\ \E tag \in Words \cup {Empty} :
          /\ tags' = [tags EXCEPT !.open = TRUE, !.view = tag, !.loading = TRUE]
          /\ calls' = calls \cup {Plain("tags", asks + 1, tag)}
    /\ UNCHANGED <<rail, palette, links>>

\* A tag's notes are asked for once the index is in; whichever comes last
\* opens the browser on what it asked for.
TagsArrive(c) ==
    /\ \/ /\ c.panel = "tags"
          /\ \/ calls' = calls \ {c} /\ tags' = [tags EXCEPT !.loading = FALSE]
             \/ c.of # Empty /\ Becomes(c, [c EXCEPT !.panel = "tagged"]) /\ UNCHANGED tags
             \/ /\ c.of = Empty /\ calls' = calls \ {c}
                /\ tags' = [open |-> TRUE, view |-> c.of, loading |-> FALSE, drawn |-> c.of]
       \/ /\ c.panel = "tagged" /\ calls' = calls \ {c}
          /\ tags' = [open |-> TRUE, view |-> c.of, loading |-> FALSE, drawn |-> c.of]
    /\ UNCHANGED <<rail, palette, links, asks>>

TagsClose ==
    /\ tags.open
    /\ tags' = [tags EXCEPT !.open = FALSE]
    /\ UNCHANGED <<rail, palette, links, calls, asks>>

\* Timers, the disk and main's answers.
Goes ==
    \/ RailAsks \/ PaletteAsks
    \/ \E c \in calls :
          Take(c) \/ ReadEnds(c) \/ ScanEnds(c) \/ ScanFails(c) \/ LinksArrive(c) \/ TagsArrive(c)

Next ==
    \/ RailTypes \/ RailOpens \/ PaletteChanges \/ LinksFollow \/ BrowseTags \/ TagsClose
    \/ Goes

\* Timers fire, reads end and main answers: nothing else is assumed.
Spec == Init /\ [][Next]_vars /\ WF_vars(Goes)
-----------------------------------------------------------------------------
\* The panels, the questions and the answers are what they are said to be.
TypeOK ==
    /\ rail.word \in Words \cup {Empty} /\ palette.word \in Words \cup {Empty}
    /\ links.of \in Notes \cup {Empty} /\ tags.view \in Words \cup {Empty}
    /\ \A c \in calls : c.id \in 1..asks
    /\ asks \in 0..MaxAsks

(***************************************************************************)
(* A panel that says it is done draws the answer to what is in its field:  *)
(* the sidebar, quick open unless its last question failed, and the links  *)
(* of the note in front (RailSearch.tsx:59, QuickOpen.tsx:150,             *)
(* RailLinks.tsx:65).                                                      *)
(***************************************************************************)
AnswersBelong ==
    /\ rail.word # Empty /\ ~rail.searching => rail.result.of = rail.word
    /\ palette.open /\ palette.content /\ palette.word # Empty
          /\ ~palette.searching /\ ~palette.missed => palette.answer.of = palette.word
    /\ links.of # Empty /\ ~links.loading => links.drawn = links.of

(***************************************************************************)
(* Results fewer than the limit, of which neither panel says that they are *)
(* partial, hold every note that could be read and holds the word          *)
(* (content-search.ts:165).                                                *)
(***************************************************************************)
Whole(r) == r.of \notin {Empty} /\ ~r.partial /\ Cardinality(r.notes) < MaxFiles
               => r.notes = Holding[r.of] \ r.unread
UntruncatedIsWhole == Whole(rail.result) /\ Whole(palette.answer)

\* Once the reader lets them be, the panels stop searching.
PanelsSettle ==
    <>[](/\ ~rail.searching /\ ~tags.loading
         /\ links.of = Empty \/ ~links.loading
         /\ ~palette.open \/ ~palette.content \/ ~palette.searching)

(***************************************************************************)
(* Not kept by the code.                                                   *)
(***************************************************************************)
\* Results belong to what is in the field (RailSearch.tsx:65): the last ones
\* stay while the next are read, and Enter opens one of them.
FieldAndResultAgree == rail.result.of \in {Empty, rail.word}

\* Of an answer to an older question nothing is seen (QuickOpen.tsx:150).
OnlyTheLast == palette.open /\ palette.content /\ ~palette.searching
                  => palette.answer.of \in {Empty, palette.word}

\* Partial results say so (WorkspaceContentReplyV1.truncated): a scan that
\* stops at exactly MaxFiles does not.
PartialIsTold ==
    \A r \in {rail.result, palette.answer} :
        r.of # Empty /\ ~r.partial => r.notes = Holding[r.of] \ r.unread

\* A tag browser the reader closed stays closed.
ClosedStaysClosed == [][~tags.open /\ tags'.open => asks' # asks]_vars
=============================================================================
