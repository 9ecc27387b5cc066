------------------------------- MODULE MC_Git -------------------------------
(***************************************************************************)
(* Small instances of what Noto shows of git: GitView, and the gutter of   *)
(* one note block by block (GitBlocks).  The two share no state, so each   *)
(* is checked with the other at rest.                                      *)
(***************************************************************************)
EXTENDS GitView, Sequences

CONSTANTS f, g, a, b
HomeOf == [n \in Notes |-> IF n = a THEN f ELSE g]

VARIABLES
    subject,
    committed, accepted, doc, origins, shown, past, cells, edits, level, since

\* Two blocks of one structure share all their words, those of structures 1 and
\* 2 some, and those of 3 none with others.  A block of style 2 does not read
\* back after the one of structure 3.
SimilarBytes(x, y) == IF x[1] = y[1] THEN 2 ELSE IF {x[1], y[1]} = {1, 2} THEN 1 ELSE 0

Blocks == INSTANCE GitBlocks WITH
    Similar <- SimilarBytes, MaxDepth <- 1, MaxRun <- 2,
    Texts <- {<<1, 1>>, <<1, 2>>, <<2, 1>>, <<3, 1>>}, Joins <- {<<<<3, 1>>, <<1, 2>>>>},
    MaxBlocks <- 2, MaxEdits <- 3, Cells <- {1, 9},
    head <- committed, gutter <- shown

blockVars == <<committed, accepted, doc, origins, shown, past, cells, edits, level, since>>

AllInit ==
    /\ subject \in {"view", "blocks"}
    /\ Init /\ Blocks!Init
    /\ subject = "view" => committed = <<>> /\ accepted = <<>> /\ cells = 9
    /\ subject = "blocks" => front = a

AllNext ==
    \/ subject = "view" /\ Next /\ UNCHANGED <<subject, blockVars>>
    \/ subject = "blocks" /\ Blocks!Next /\ UNCHANGED <<subject, vars>>

AllSpec == AllInit /\ [][AllNext]_<<subject, vars, blockVars>> /\ WF_vars(subject = "view" /\ Runs)

\* GitBlocks: MarksLeadToHead and UndoneIsUntouched.
MarksLeadToHead == Blocks!MarksLeadToHead
UndoneIsUntouched == Blocks!UndoneIsUntouched
=============================================================================
