-------------------------- MODULE FileTruthGuarded --------------------------
(***************************************************************************)
(* The store of FileTruthStore as an implementation of GuardedFile.        *)
(***************************************************************************)
EXTENDS FileTruthStore

\* A save offers its candidate once its precondition held.
Offering == kind = "recover" \/ (kind = "save" /\ pc # "precondition")

Offered == IF Offering THEN rec.body ELSE None

Phase ==
    CASE ~Offering -> "none"
      [] Offering /\ (reply = "saved" \/ pc \in {"replacement-verified", "journal-complete"}) -> "confirmed"
      [] Offering /\ reply # "saved" /\ kind = "save" /\ pc \in CleanupSteps -> "refused"
      [] Offering /\ pc = "publish" -> "looked"
      [] Offering /\ pc \in {"replacement-complete", "sync", "readback"} -> "placed"
      [] OTHER -> "offered"

\* A save compares with the accepted revision, which a check may move.
Guard ==
    IF Phase \in {"offered", "looked"}
    THEN [over |-> Expected, creates |-> rec.recreate, misled |-> kind = "save" /\ misrebased]
    ELSE None

\* None is no candidate.
ASSUME CandidateAssumption == None \notin [body : Bodies, over : Version, creates : BOOLEAN]

\* The journal and the payload together are what is kept.
Kept ==
    IF journal # None /\ PayloadOf(journal) \in payloads
    THEN [body |-> journal.body, over |-> journal.accepted, creates |-> journal.recreate]
    ELSE None

Guarded == INSTANCE GuardedFile WITH
    file <- disk,
    durable <- platter,
    offer <- Offered,
    phase <- Phase,
    guard <- Guard,
    kept <- Kept,
    told <- outcome = "saved"

\* Every save and recovery, with every failure and crash on the way, is a
\* compare-and-replace of the file: file-truth-store.ts, saveLocked and
\* recoverLocked.
ImplementsGuardedFile == Guarded!Spec
=============================================================================
