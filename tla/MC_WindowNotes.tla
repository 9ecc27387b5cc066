--------------------------- MODULE MC_WindowNotes ---------------------------
(***************************************************************************)
(* Small instances of the window: its notes and what it asks of the folder *)
(* (WindowPanels), and find and replace (Finding).  The three share no     *)
(* state here: each is checked with the others at rest.                    *)
(***************************************************************************)
EXTENDS WindowPanels, TLC

CONSTANTS a, b, v, w

VARIABLES
    subject,
    docs, sels, searches, mounted, inFront, find, bar, pending, opening, steps, last, shownFor

\* One word is in both notes, the other in one.
Held == (v :> {a, b}) @@ (w :> {b})

\* A line break inside a note, and one at a match's end.
Written == (a :> <<"block", "x", "x", "leaf", "block", "y">>) @@ (b :> <<"block", "y", "x">>)
Finder == INSTANCE Finding WITH
    Texts <- Written, Leaf <- "leaf", Block <- "block", Words <- {<<"x">>, <<"x", "y">>},
    Fillers <- {<<"x", "y">>}, None <- NoNote, MaxSteps <- 3, front <- inFront

panelVars == <<rail, palette, links, tags, calls, asks>>
finderVars == <<docs, sels, searches, mounted, inFront, find, bar, pending, opening, steps, last, shownFor>>

AllInit ==
    /\ subject \in {"notes", "panels", "finder"}
    /\ Init /\ Panels!Init /\ Finder!Init
    /\ subject # "finder" => inFront = a

AllNext ==
    \/ subject = "notes" /\ Next /\ UNCHANGED <<subject, panelVars, finderVars>>
    \/ subject = "panels" /\ Panels!Next /\ UNCHANGED <<subject, vars, finderVars>>
    \/ subject = "finder" /\ Finder!Next /\ UNCHANGED <<subject, vars, panelVars>>

AllSpec == AllInit /\ [][AllNext]_<<subject, vars, panelVars, finderVars>> /\ Fairness

\* Replacing changes the letters of the occurrences and nothing else.
OnlyMatchesChange == Finder!OnlyMatchesChange
=============================================================================
