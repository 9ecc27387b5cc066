---------------------------- MODULE MC_ExactSave ----------------------------
(***************************************************************************)
(* Small notes for saving exactly (ExactSave), and for the stand-ins a     *)
(* note is opened with (Enrichment), whose dirtiness decides what there is *)
(* to save.  They share no state, so each is checked with the other at     *)
(* rest.                                                                   *)
(***************************************************************************)
EXTENDS ExactSave, NoteStandIns

\* A list right under a paragraph written another way, two lists kept apart
\* by a paragraph, and an unclosed fence at the end.
SmallFiles == {
    <<"a_", "n", "-l", "n">>,
    <<"-l", "nn", "a_", "nn", "-l", "n">>,
    <<"b", "nn", "f">>}

\* An indented block behind a paragraph.
IndentedFiles == {<<"b", "nn", "-l", "nn", "a", "nn", "i", "n">>}

Words == {<<>>, <<"b">>}
Heads == {<<"a_">>}

VARIABLES subject

AllInit ==
    /\ subject \in {"save", "stand-ins"}
    /\ Init /\ StandIns!Init
    /\ subject # "save" => document = Split(CHOOSE text \in Files : TRUE)

AllNext ==
    \/ subject = "save" /\ Next /\ UNCHANGED <<subject, standInVars>>
    \/ subject = "stand-ins" /\ StandIns!Next /\ UNCHANGED <<subject, vars>>

AllSpec == AllInit /\ [][AllNext]_<<subject, vars, standInVars>> /\ StandIns!Fairness
=============================================================================
