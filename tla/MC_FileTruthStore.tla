-------------------------- MODULE MC_FileTruthStore --------------------------
(***************************************************************************)
(* Small instances of the store, as an implementation of GuardedFile: one  *)
(* save or recovery with a crash, a fault, a foreign write and a neighbour *)
(* opened; and two saves, with a fault, on a volume without hard links.    *)
(***************************************************************************)
EXTENDS FileTruthGuarded

VARIABLE subject

Twice == INSTANCE FileTruthStore WITH
    CanHardLink <- FALSE, MaxAttempts <- 2, MaxForeign <- 0, MaxCrashes <- 0, MaxSweeps <- 0

AllInit == subject \in {"once", "twice"} /\ Init
OnlyOnce == subject = "once" /\ UNCHANGED subject
OnlyTwice == subject = "twice" /\ UNCHANGED subject

AllNext == (OnlyOnce /\ Next) \/ (OnlyTwice /\ Twice!Next)

AllFairness ==
    /\ WF_<<vars, subject>>((OnlyOnce /\ TxStep) \/ (OnlyTwice /\ Twice!TxStep))
    /\ WF_<<vars, subject>>((OnlyOnce /\ Open) \/ (OnlyTwice /\ Twice!Open))
    /\ WF_<<vars, subject>>((OnlyOnce /\ RecoverStart) \/ (OnlyTwice /\ Twice!RecoverStart))

AllSpec == AllInit /\ [][AllNext]_<<vars, subject>> /\ AllFairness
=============================================================================
