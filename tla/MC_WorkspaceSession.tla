------------------------ MODULE MC_WorkspaceSession ------------------------
(***************************************************************************)
(* Small sessions: two opens while rows move, saves run and other programs *)
(* change the folder; and three opens of three notes with nothing else.     *)
(***************************************************************************)
EXTENDS WorkspaceSession

VARIABLE subject

Opens == INSTANCE WorkspaceSession WITH
    Notes <- Paths, MAX_TABS <- 3, MaxOpens <- 3,
    MaxMoves <- 0, MaxSaves <- 0, MaxFaults <- 0, MaxForeign <- 0

AllInit ==
    \/ subject = "moves" /\ Init
    \/ subject = "opens" /\ Opens!Init
OnlyMoves == subject = "moves" /\ UNCHANGED subject
OnlyOpens == subject = "opens" /\ UNCHANGED subject

AllNext == (OnlyMoves /\ Next) \/ (OnlyOpens /\ Opens!Next)

\* Promises settle: an open that has started runs to its end.
AllFairness ==
    /\ \A s \in 1..2 :
        /\ WF_<<vars, subject>>((OnlyMoves /\ OpenReads(s)) \/ (OnlyOpens /\ Opens!OpenReads(s)))
        /\ WF_<<vars, subject>>((OnlyMoves /\ OpenListed(s)) \/ (OnlyOpens /\ Opens!OpenListed(s)))
        /\ WF_<<vars, subject>>((OnlyMoves /\ OpenPublished(s)) \/ (OnlyOpens /\ Opens!OpenPublished(s)))
    /\ WF_<<vars, subject>>(OnlyOpens /\ Opens!OpenReads(3))
    /\ WF_<<vars, subject>>(OnlyOpens /\ Opens!OpenListed(3))
    /\ WF_<<vars, subject>>(OnlyOpens /\ Opens!OpenPublished(3))

AllSpec == AllInit /\ [][AllNext]_<<vars, subject>> /\ AllFairness
=============================================================================
