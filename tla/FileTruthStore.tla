--------------------------- MODULE FileTruthStore ---------------------------
(***************************************************************************)
(* One open note: the main-process store that opens, saves, recovers and   *)
(* reloads it (src/src/main/file-truth/v1/file-truth-store.ts over         *)
(* node-platform.ts), the file it names, the recovery record beside it,    *)
(* other programs writing the same file, I/O errors, crashes and power     *)
(* loss.                                                                   *)
(*                                                                         *)
(* Every await of a save, a recovery, a reload or an external-change check *)
(* is a step of its own, so every other actor may run in between.          *)
(*                                                                         *)
(* Abstractions.  A file version is an identity (device, inode, size and   *)
(* mtime together: a fresh number for every write of the path) and a body; *)
(* POSIX modes are left out.  Writing, flushing, chmod and closing the     *)
(* temp change nothing another actor sees, so each is folded into the      *)
(* journal write that follows it.  writeDurableFile is atomic: it writes a *)
(* private temp, syncs it, renames it and syncs the directory.  Replay     *)
(* temps share one name: the code's are unique, so creating one never      *)
(* collides.  open() is one step: after capture it touches only the        *)
(* recovery record and temps; its own I/O errors are left out, and it is   *)
(* not re-run while a transaction of the same store is in flight.  A       *)
(* request that is refused changes nothing here (the code notes it in      *)
(* lastOutcome).  One external-change check runs at a time.  saveCopy and  *)
(* adoptPath are not here.                                                 *)
(***************************************************************************)
EXTENDS Naturals, FiniteSets

CONSTANTS
    Bodies,         \* what a note's bytes can be
    InitialBody,    \* the bytes on disk before anything happens
    None,           \* no file, no record, nothing open
    CanHardLink,    \* the volume has hard links (capabilities.canHardLink)
    MaxForeign,     \* writes by other programs
    MaxAttempts,    \* saves that get past their first checks
    MaxFaults,      \* I/O calls that throw
    MaxCrashes,     \* times the process dies
    MaxSweeps       \* other notes of the same folder opened meanwhile

ASSUME ConstantsAssumption ==
    /\ InitialBody \in Bodies
    /\ None \notin Bodies
    /\ CanHardLink \in BOOLEAN
    /\ {MaxForeign, MaxAttempts, MaxFaults, MaxCrashes, MaxSweeps} \subseteq Nat

(***************************************************************************)
(* What is on disk.                                                        *)
(***************************************************************************)
VARIABLES
    disk,       \* the version the path names, or None
    platter,    \* the version it would name after a power loss
    nextId,     \* identity the next written version gets
    journal,    \* the recovery journal of this path, or None
    payloads,   \* durable candidate payloads of this path
    temps       \* .noto-ft1-*.tmp files beside the note

(***************************************************************************)
(* What the store holds in memory.                                         *)
(***************************************************************************)
VARIABLES
    up,         \* the process runs and the note is open
    doc,        \* body of the accepted (or projected) revision
    accepted,   \* acceptedFingerprint, as the version it names
    missing,    \* acceptedMissing
    rev,        \* editorRevision
    recovery,   \* the in-memory recovery record
    blocked,    \* recoveryBlocked
    watching,   \* the document watcher is armed
    outcome     \* status the last save or recovery answered (lastOutcome, but a
                \* recovery's first conflict is answered and not kept there)

(***************************************************************************)
(* The running transaction; pc is "idle" when transactionActive is FALSE.  *)
(***************************************************************************)
VARIABLES
    kind,       \* "none", "save", "recover" or "reload"
    pc,         \* the step it takes next
    rec,        \* its recovery record
    base,       \* the bytes its candidate was edited from
    expect,     \* the identity a reload compares with
    seen,       \* the version it captured
    recreating, \* it publishes onto a missing path
    raced,      \* a write arrived after its last validation
    reply       \* what it answers once cleaned up

(***************************************************************************)
(* The running external-change check.                                      *)
(***************************************************************************)
VARIABLES chk, chkAccepted, chkSeen

(***************************************************************************)
(* The renderer's save token, the environment's budgets, and history: how  *)
(* a version nobody had accepted came to be destroyed.                     *)
(***************************************************************************)
VARIABLES held, foreign, faults, crashes, sweeps, attempts, clobbered, misrebased, misreported

diskVars  == <<disk, platter, nextId>>
recVars   == <<journal, payloads, temps>>
memVars   == <<doc, accepted, missing, rev, recovery, blocked, watching>>
envVars   == <<foreign, faults, crashes, sweeps, attempts>>
ghostVars == <<clobbered, misrebased, misreported>>
txData    == <<kind, rec, base, expect, seen, recreating, raced, reply>>
txVars    == <<pc, txData>>
checkVars == <<chk, chkAccepted, chkSeen>>
vars == <<diskVars, recVars, up, memVars, txVars, checkVars, outcome, held, envVars, ghostVars>>

Version == [id : Nat, body : Bodies, own : BOOLEAN]
Payload == [attempt : Nat, body : Bodies]
Token   == [rev : Nat, doc : Bodies, fp : Version]

(***************************************************************************)
(* The stages a journal can name, in the order a save persists them.       *)
(***************************************************************************)
Unpublished == {"candidate-durable", "temp-written", "temp-flushed",
                "metadata-applied", "precondition-confirmed"}
Published   == {"replacement-complete", "replacement-verified", "journal-complete"}
Stages      == Unpublished \cup Published

\* A save's temp carries its attempt's number, from 1; Replay is the name all
\* replay temps share.
Temp   == Nat
Replay == 0
Record == [attempt : Nat, body : Bodies, accepted : Version, temp : Temp,
           recreate : BOOLEAN, stage : Stages \cup {"before-temp-write"}]

\* None stands for the absence of a version and of a record.
ASSUME AbsenceAssumption == None \notin Version \cup Record

\* sameFingerprint: identity and content.
Same(left, right) ==
    left # None /\ right # None /\ left.id = right.id /\ left.body = right.body

CleanupSteps == {"remove-temp", "remove-payload", "remove-journal"}
ReloadSteps  == {"reload-read", "reload-apply"}
SaveSteps    == {"precondition", "payload", "temp", "validate", "publish", "link",
                 "sync", "readback"} \cup Stages \cup CleanupSteps
RecoverSteps == {"capture", "replay-temp", "validate", "publish", "link", "sync", "readback",
                 "remove-replay"} \cup Published \cup CleanupSteps
Steps        == {"idle"} \cup SaveSteps \cup RecoverSteps \cup ReloadSteps

Outcomes == {"none", "saved", "external-conflict", "write-failed", "recovery-needed",
             "recovery-failed", "cleanup-failed"}

DiskTypeOK ==
    /\ disk \in Version \cup {None}
    /\ platter \in Version \cup {None}
    /\ nextId \in Nat

EvidenceTypeOK ==
    /\ journal \in Record \cup {None}
    /\ payloads \subseteq Payload
    /\ temps \subseteq Temp

MemoryTypeOK ==
    /\ up \in BOOLEAN
    /\ doc \in Bodies \cup {None}
    /\ accepted \in Version \cup {None}
    /\ missing \in BOOLEAN
    /\ rev \in Nat
    /\ recovery \in Record \cup {None}
    /\ blocked \in BOOLEAN
    /\ watching \in BOOLEAN
    /\ outcome \in Outcomes
    /\ held \in Token \cup {None}

TxTypeOK ==
    /\ kind \in {"none", "save", "recover", "reload"}
    /\ pc \in Steps
    /\ rec \in Record \cup {None}
    /\ base \in Bodies \cup {None}
    /\ expect \in Version \cup {None}
    /\ seen \in Version \cup {None}
    /\ recreating \in BOOLEAN
    /\ raced \in BOOLEAN
    /\ reply \in Outcomes

CheckTypeOK ==
    /\ chk \in {"none", "reading", "read"}
    /\ chkAccepted \in Version \cup {None}
    /\ chkSeen \in Version \cup {None}

EnvTypeOK ==
    /\ foreign \in Nat
    /\ faults \in Nat
    /\ crashes \in Nat
    /\ sweeps \in Nat
    /\ attempts \in Nat
    /\ clobbered \subseteq {"window", "stale-check", "silent"}
    /\ misrebased \in BOOLEAN
    /\ misreported \in BOOLEAN

\* Every variable holds what the code may put there; in particular a token
\* handed to the renderer always names an accepted version.
TypeOK ==
    /\ DiskTypeOK
    /\ EvidenceTypeOK
    /\ MemoryTypeOK
    /\ TxTypeOK
    /\ CheckTypeOK
    /\ EnvTypeOK

(***************************************************************************)
(* A store with nothing open, on the file as it was found.                 *)
(***************************************************************************)
Closed ==
    /\ up' = FALSE
    /\ doc' = None /\ accepted' = None /\ missing' = FALSE /\ rev' = 0
    /\ recovery' = None /\ blocked' = FALSE /\ watching' = FALSE
    /\ kind' = "none" /\ pc' = "idle"
    /\ rec' = None /\ base' = None /\ expect' = None
    /\ seen' = None /\ raced' = FALSE /\ recreating' = FALSE /\ reply' = "none"
    /\ chk' = "none" /\ chkAccepted' = None /\ chkSeen' = None
    /\ outcome' = "none" /\ held' = None

Init ==
    /\ disk = [id |-> 0, body |-> InitialBody, own |-> FALSE]
    /\ platter = disk
    /\ nextId = 1
    /\ journal = None /\ payloads = {} /\ temps = {}
    /\ up = FALSE
    /\ doc = None /\ accepted = None /\ missing = FALSE /\ rev = 0
    /\ recovery = None /\ blocked = FALSE /\ watching = FALSE
    /\ kind = "none" /\ pc = "idle"
    /\ rec = None /\ base = None /\ expect = None
    /\ seen = None /\ raced = FALSE /\ recreating = FALSE /\ reply = "none"
    /\ chk = "none" /\ chkAccepted = None /\ chkSeen = None
    /\ outcome = "none" /\ held = None
    /\ foreign = 0 /\ faults = 0 /\ crashes = 0 /\ sweeps = 0 /\ attempts = 0
    /\ clobbered = {} /\ misrebased = FALSE /\ misreported = FALSE

PayloadOf(record) == [attempt |-> record.attempt, body |-> record.body]

(***************************************************************************)
(* Opening.                                                                *)
(***************************************************************************)
\* A file that cannot be captured cannot be opened, so there must be one.  A
\* journal projects its durable candidate; a record that cannot be trusted
\* blocks saving; otherwise every temp beside the note but the record's goes.
Open ==
    /\ ~up
    /\ disk # None
    /\ up' = TRUE
    /\ accepted' = disk /\ missing' = FALSE /\ rev' = 0 /\ watching' = TRUE
    /\ recovery' = journal
    /\ misrebased' = FALSE
    /\ \/ /\ journal = None /\ payloads = {}
          /\ doc' = disk.body /\ blocked' = FALSE /\ outcome' = "none"
          /\ temps' = {}
       \/ /\ journal = None /\ payloads # {}
          /\ doc' = disk.body /\ blocked' = TRUE /\ outcome' = "recovery-failed"
          /\ UNCHANGED temps
       \/ /\ journal # None /\ PayloadOf(journal) \in payloads
          /\ doc' = journal.body /\ blocked' = TRUE /\ outcome' = "none"
          /\ temps' = temps \cap {journal.temp}
       \/ /\ journal # None /\ PayloadOf(journal) \notin payloads
          /\ doc' = disk.body /\ blocked' = TRUE /\ outcome' = "recovery-failed"
          /\ UNCHANGED temps
    /\ UNCHANGED <<diskVars, journal, payloads, txVars, checkVars, held, envVars, clobbered, misreported>>

CurrentToken == [rev |-> rev, doc |-> doc, fp |-> accepted]

\* A reply or a rebase event reaches the renderer, at any later time: until
\* then it holds the token of an earlier one.
Deliver ==
    /\ up
    /\ held # CurrentToken
    /\ held' = CurrentToken
    /\ UNCHANGED <<diskVars, recVars, up, memVars, txVars, checkVars, outcome, envVars, ghostVars>>

(***************************************************************************)
(* Transactions.  One at a time per store (transactionActive); a save and  *)
(* a reload are refused while a recovery record stands.                    *)
(***************************************************************************)
Goto(step) == pc' = step /\ UNCHANGED txData

\* A transaction starts at a step, with nothing read yet.
Begin(of, step) ==
    /\ kind' = of /\ pc' = step
    /\ seen' = None /\ raced' = FALSE /\ recreating' = FALSE /\ reply' = "none"

End ==
    /\ kind' = "none" /\ pc' = "idle"
    /\ rec' = None /\ base' = None /\ expect' = None
    /\ seen' = None /\ raced' = FALSE /\ recreating' = FALSE /\ reply' = "none"

Finish(status) == End /\ outcome' = status

\* The candidate as a file: a new identity with the candidate's bytes.
CandidateVersion == [id |-> nextId, body |-> rec.body, own |-> TRUE]

\* Mutant: only a record in memory blocks.
NoRecord == recovery = None

MaySave == recovery = None /\ ~blocked

\* save(): the renderer's token must still name the accepted revision.
SaveStart(candidate) ==
    /\ up /\ pc = "idle"
    /\ attempts < MaxAttempts
    /\ MaySave
    /\ held # None
    /\ held.rev = rev /\ held.doc = doc /\ Same(held.fp, accepted)
    /\ attempts' = attempts + 1
    /\ Begin("save", "precondition")
    /\ base' = held.doc
    /\ rec' = [attempt |-> attempts + 1, body |-> candidate, accepted |-> accepted,
               temp |-> attempts + 1, recreate |-> FALSE, stage |-> "before-temp-write"]
    /\ UNCHANGED expect
    /\ UNCHANGED <<diskVars, recVars, up, memVars, checkVars, outcome, held,
                   foreign, faults, crashes, sweeps, ghostVars>>

\* The file must still be the accepted one, unless it was reported missing
\* and is: then this save may recreate it.
SavePrecondition ==
    /\ pc = "precondition"
    /\ LET recreates == missing /\ disk = None IN
       \/ /\ recreates \/ Same(accepted, disk)
          /\ blocked' = TRUE
          /\ pc' = "payload"
          /\ recreating' = recreates
          /\ rec' = [rec EXCEPT !.recreate = recreates]
          /\ UNCHANGED <<kind, base, expect, seen, raced, reply, outcome>>
       \/ /\ ~recreates /\ ~Same(accepted, disk)
          /\ Finish("external-conflict")
          /\ UNCHANGED blocked
    /\ UNCHANGED <<diskVars, recVars, up, doc, accepted, missing, rev, recovery, watching,
                   checkVars, held, envVars, ghostVars>>

WritePayload ==
    /\ pc = "payload"
    /\ payloads' = payloads \cup {PayloadOf(rec)}
    /\ Goto("candidate-durable")
    /\ UNCHANGED <<diskVars, journal, temps, up, memVars, checkVars, outcome, held, envVars, ghostVars>>

\* Where the transaction goes once a stage is in the journal.
After(stage) ==
    CASE stage = "candidate-durable"      -> "temp"
      [] stage = "temp-written"           -> "temp-flushed"
      [] stage = "temp-flushed"           -> "metadata-applied"
      [] stage = "metadata-applied"       -> "precondition-confirmed"
      [] stage = "precondition-confirmed" ->
           IF recreating /\ CanHardLink THEN "link" ELSE "validate"
      [] stage = "replacement-complete"   -> "sync"
      [] stage = "replacement-verified"   -> "journal-complete"
      [] stage = "journal-complete"       -> "remove-temp"

StagedRecord == [rec EXCEPT !.stage = pc]

\* persistJournal: the record is durable first, then held in memory.
PersistStage ==
    /\ pc \in Stages \ {"journal-complete"}
    /\ journal' = StagedRecord
    /\ recovery' = StagedRecord
    /\ blocked' = TRUE
    /\ pc' = After(pc)
    /\ rec' = StagedRecord
    /\ UNCHANGED <<kind, base, expect, seen, raced, recreating, reply>>
    /\ watching' = IF pc = "precondition-confirmed" /\ recreating THEN FALSE ELSE watching
    /\ UNCHANGED <<diskVars, payloads, temps, up, doc, accepted, missing, rev,
                   checkVars, outcome, held, envVars, ghostVars>>

CreateTemp ==
    /\ pc = "temp"
    /\ temps' = temps \cup {rec.temp}
    /\ Goto("temp-written")
    /\ UNCHANGED <<diskVars, journal, payloads, up, memVars, checkVars, outcome, held, envVars, ghostVars>>

(***************************************************************************)
(* Replacing the file.                                                     *)
(***************************************************************************)
Expected == IF kind = "save" THEN accepted ELSE rec.accepted

\* A conflicting save cleans its own evidence up; a conflicting recovery
\* removes its replay temp and keeps the record.
Conflict ==
    /\ pc' = IF kind = "save" THEN "remove-temp" ELSE "remove-replay"
    /\ reply' = "external-conflict"
    /\ UNCHANGED <<kind, rec, base, expect, seen, raced, recreating>>

\* Mutant: the precondition held when the save began.
AlwaysExpected == TRUE

StillExpected == IF recreating THEN disk = None ELSE Same(Expected, disk)

\* validateExpectedAndReplace up to its callback, or, without hard links, the
\* existence check of publishIfAbsent.  The rename is a later call.
Validate ==
    /\ pc = "validate"
    /\ \/ /\ StillExpected
          /\ Goto("publish")
          /\ watching' = FALSE
       \/ /\ ~StillExpected
          /\ Conflict
          /\ watching' = IF recreating THEN TRUE ELSE watching
    /\ UNCHANGED <<diskVars, recVars, up, doc, accepted, missing, rev, recovery, blocked,
                   checkVars, outcome, held, envVars, ghostVars>>

\* A version is destroyed unseen when its bytes are not the ones the
\* candidate was edited from.
Destroys ==
    IF disk = None \/ disk.body = base THEN {}
    ELSE IF raced THEN {"window"}
    ELSE IF misrebased THEN {"stale-check"}
    ELSE {"silent"}

Replace ==
    /\ disk' = CandidateVersion
    /\ nextId' = nextId + 1
    /\ temps' = temps \ {rec.temp}
    /\ clobbered' = clobbered \cup Destroys
    /\ Goto("replacement-complete")
    /\ UNCHANGED platter

\* rename(temp, original): whatever the path names now is gone.
Publish ==
    /\ pc = "publish"
    /\ rec.temp \in temps
    /\ Replace
    /\ UNCHANGED <<journal, payloads, up, memVars, checkVars, outcome, held, envVars,
                   misrebased, misreported>>

\* link(temp, original) fails on whatever came back to the path meanwhile.
Link ==
    /\ pc = "link"
    /\ \/ /\ disk = None
          /\ rec.temp \in temps
          /\ Replace
          /\ UNCHANGED watching
       \/ /\ disk # None
          /\ Conflict
          /\ watching' = TRUE
          /\ UNCHANGED <<diskVars, temps, clobbered>>
    /\ UNCHANGED <<journal, payloads, up, doc, accepted, missing, rev, recovery, blocked,
                   checkVars, outcome, held, envVars, misrebased, misreported>>

\* Mutant: the directory is not synced.
NotSynced == platter

Synced == disk

SyncDirectory ==
    /\ pc = "sync"
    /\ platter' = Synced
    /\ Goto("readback")
    /\ UNCHANGED <<disk, nextId, recVars, up, memVars, checkVars, outcome, held, envVars, ghostVars>>

ReadsBack == disk # None /\ disk.body = rec.body

\* verifyReadback; the version it captured becomes the accepted one.  A
\* recovery of a later stage persists only the stages still missing.
Readback ==
    /\ pc = "readback"
    /\ ReadsBack
    /\ pc' = IF rec.stage = "replacement-complete"
             THEN "replacement-verified" ELSE "journal-complete"
    /\ seen' = disk
    /\ UNCHANGED <<kind, rec, base, expect, raced, recreating, reply>>
    /\ UNCHANGED <<diskVars, recVars, up, memVars, checkVars, outcome, held, envVars, ghostVars>>

\* Mutant: the accepted identity stays that of the replaced file.
KeptIdentity == accepted

NewIdentity == seen

\* The last stage, and with it the accepted revision moves.  A save re-arms
\* the watcher; a recovery does not.  (A recovery that finds the last stage
\* persists nothing more: the record it would write is the one there.)
AcceptCandidate ==
    /\ pc = "journal-complete"
    /\ journal' = StagedRecord
    /\ recovery' = StagedRecord
    /\ blocked' = TRUE
    /\ doc' = rec.body
    /\ accepted' = NewIdentity
    /\ missing' = FALSE
    /\ rev' = rev + 1
    /\ watching' = IF kind = "save" THEN TRUE ELSE watching
    /\ misrebased' = FALSE
    /\ pc' = "remove-temp"
    /\ rec' = StagedRecord
    /\ reply' = "saved"
    /\ UNCHANGED <<kind, base, expect, seen, raced, recreating>>
    /\ UNCHANGED <<diskVars, payloads, temps, up, checkVars, outcome, held, envVars,
                   clobbered, misreported>>

(***************************************************************************)
(* cleanupThen: temp, then payload, then journal; only then is saving      *)
(* allowed again and the reply sent.                                       *)
(***************************************************************************)
RemoveTemp ==
    /\ pc = "remove-temp"
    /\ temps' = temps \ {rec.temp}
    /\ Goto("remove-payload")
    /\ UNCHANGED <<diskVars, journal, payloads, up, memVars, checkVars, outcome, held, envVars, ghostVars>>

RemovePayload ==
    /\ pc = "remove-payload"
    /\ payloads' = payloads \ {PayloadOf(rec)}
    /\ Goto("remove-journal")
    /\ UNCHANGED <<diskVars, journal, temps, up, memVars, checkVars, outcome, held, envVars, ghostVars>>

RemoveJournal ==
    /\ pc = "remove-journal"
    /\ journal' = None
    /\ recovery' = None
    /\ blocked' = FALSE
    /\ Finish(reply)
    /\ UNCHANGED <<diskVars, payloads, temps, up, doc, accepted, missing, rev, watching,
                   checkVars, held, envVars, ghostVars>>

(***************************************************************************)
(* Recovery.                                                               *)
(***************************************************************************)
RecoverStart ==
    /\ up /\ pc = "idle"
    /\ \/ /\ journal = None
          /\ Finish("recovery-failed")
          /\ UNCHANGED <<recovery, blocked>>
       \/ /\ journal # None
          /\ recovery' = journal
          /\ blocked' = TRUE
          /\ \/ /\ PayloadOf(journal) \notin payloads
                /\ Finish("recovery-failed")
             \/ /\ PayloadOf(journal) \in payloads
                /\ Begin("recover", CASE journal.stage \in Unpublished -> "capture"
                                      [] journal.stage = "replacement-complete" -> "sync"
                                      [] OTHER -> "readback")
                /\ rec' = journal
                /\ base' = journal.accepted.body
                /\ UNCHANGED <<expect, outcome>>
    /\ UNCHANGED <<diskVars, recVars, up, doc, accepted, missing, rev, watching, checkVars, held,
                   envVars, ghostVars>>

\* Mutant: the capture is never compared with the candidate.
NeverPublished == FALSE

\* The exact candidate, found after the last stage before the replacement.
AlreadyPublished == rec.stage = "precondition-confirmed" /\ ReadsBack

\* Replay only over the file the record accepted, or onto a path still
\* missing.
RecoverCapture ==
    /\ pc = "capture"
    /\ LET recreates == rec.recreate /\ disk = None
           replays   == recreates \/ Same(rec.accepted, disk)
       IN
       \/ /\ replays
          /\ temps' = temps \ {rec.temp}
          /\ pc' = "replay-temp"
          /\ recreating' = recreates
          /\ UNCHANGED <<kind, rec, base, expect, seen, raced, reply, outcome>>
       \/ /\ ~replays /\ AlreadyPublished
          /\ Goto("replacement-complete")
          /\ UNCHANGED <<temps, outcome>>
       \/ /\ ~replays /\ ~AlreadyPublished
          /\ Finish("external-conflict")
          /\ UNCHANGED temps
    /\ UNCHANGED <<diskVars, journal, payloads, up, memVars, checkVars, held, envVars, ghostVars>>

WriteReplayTemp ==
    /\ pc = "replay-temp"
    /\ temps' = temps \cup {Replay}
    /\ rec' = [rec EXCEPT !.temp = Replay]
    /\ pc' = IF recreating /\ CanHardLink THEN "link" ELSE "validate"
    /\ UNCHANGED <<kind, base, expect, seen, raced, recreating, reply>>
    /\ watching' = IF recreating THEN FALSE ELSE watching
    /\ UNCHANGED <<diskVars, journal, payloads, up, doc, accepted, missing, rev, recovery, blocked,
                   checkVars, outcome, held, envVars, ghostVars>>

RemoveReplay ==
    /\ pc = "remove-replay"
    /\ temps' = temps \ {Replay}
    /\ Finish("external-conflict")
    /\ UNCHANGED <<diskVars, journal, payloads, up, memVars, checkVars, held, envVars, ghostVars>>

(***************************************************************************)
(* A step of a transaction that throws.                                    *)
(***************************************************************************)
\* A call throws, before or after the durable write it makes has landed; or
\* the rename finds its temp gone; or the readback finds other bytes.
Throws ==
    \/ /\ faults < MaxFaults
       /\ ~(pc = "journal-complete" /\ rec.stage = pc)
       /\ faults' = faults + 1
       /\ \/ UNCHANGED <<journal, payloads>>
          \/ /\ pc = "payload"
             /\ payloads' = payloads \cup {PayloadOf(rec)}
             /\ UNCHANGED journal
          \/ /\ pc \in Stages
             /\ journal' = StagedRecord
             /\ UNCHANGED payloads
    \/ /\ \/ pc = "publish" /\ rec.temp \notin temps
          \/ pc = "link" /\ disk = None /\ rec.temp \notin temps
          \/ pc = "readback" /\ ~ReadsBack
       /\ UNCHANGED <<faults, journal, payloads>>

\* Mutant: only the journal counts as evidence.
JournalLeft == journal' # None \/ recovery # None

EvidenceLeft ==
    \/ journal' # None \/ recovery # None
    \/ PayloadOf(rec) \in payloads'
    \/ rec.temp \in temps

\* The catch of saveLocked: saving stays blocked while any evidence is left.
SaveThrows ==
    /\ kind = "save" /\ pc \notin CleanupSteps
    /\ Throws
    /\ blocked' = (blocked /\ EvidenceLeft)
    /\ Finish(IF pc \in Published \cup {"sync", "readback"}
              THEN "recovery-needed" ELSE "write-failed")
    /\ UNCHANGED <<diskVars, temps, up, doc, accepted, missing, rev, recovery, watching,
                   checkVars, held, foreign, crashes, sweeps, attempts, ghostVars>>

\* The catch of recoverLocked keeps the record and everything in memory.
RecoverThrows ==
    /\ kind = "recover" /\ pc \notin CleanupSteps \cup {"remove-replay"}
    /\ Throws
    /\ Finish("recovery-failed")
    /\ UNCHANGED <<diskVars, temps, up, memVars, checkVars, held,
                   foreign, crashes, sweeps, attempts, ghostVars>>

CleanupThrows ==
    /\ pc \in CleanupSteps \cup {"remove-replay"}
    /\ faults < MaxFaults
    /\ faults' = faults + 1
    /\ blocked' = TRUE
    /\ Finish("cleanup-failed")
    /\ UNCHANGED <<diskVars, recVars, up, doc, accepted, missing, rev, recovery, watching,
                   checkVars, held, foreign, crashes, sweeps, attempts, ghostVars>>

(***************************************************************************)
(* Reloading from disk.                                                    *)
(***************************************************************************)
ReloadStart ==
    /\ up /\ pc = "idle"
    /\ MaySave
    /\ Begin("reload", "reload-read")
    /\ expect' = accepted
    /\ UNCHANGED <<rec, base>>
    /\ UNCHANGED <<diskVars, recVars, up, memVars, checkVars, outcome, held, envVars, ghostVars>>

\* A capture that throws is answered like a missing file.
ReloadRead ==
    /\ pc = "reload-read"
    /\ \/ /\ disk # None
          /\ pc' = "reload-apply"
          /\ seen' = disk
          /\ UNCHANGED <<kind, rec, base, expect, raced, recreating, reply, faults>>
       \/ /\ disk = None
          /\ End
          /\ UNCHANGED faults
       \/ /\ faults < MaxFaults
          /\ faults' = faults + 1
          /\ End
    /\ UNCHANGED <<diskVars, recVars, up, memVars, checkVars, outcome, held,
                   foreign, crashes, sweeps, attempts, ghostVars>>

\* The same bytes move only the accepted identity; other bytes become the
\* accepted revision.
ReloadApply ==
    /\ pc = "reload-apply"
    /\ accepted' = seen
    /\ missing' = FALSE
    /\ End
    /\ \/ /\ seen.body = expect.body
          /\ misrebased' = (seen.body # doc)
          /\ UNCHANGED <<doc, rev, watching, outcome>>
       \/ /\ seen.body # expect.body
          /\ doc' = seen.body
          /\ rev' = 0
          /\ watching' = TRUE
          /\ outcome' = "none"
          /\ misrebased' = FALSE
    /\ UNCHANGED <<diskVars, recVars, up, recovery, blocked, checkVars, held, envVars,
                   clobbered, misreported>>

(***************************************************************************)
(* The external-change check, run by the watcher's settle timer (which     *)
(* suspending the watcher does not cancel).  It remembers the accepted     *)
(* identity before it reads the file.                                      *)
(***************************************************************************)
EndCheck == chk' = "none" /\ chkAccepted' = None /\ chkSeen' = None

CheckStart ==
    /\ up /\ chk = "none"
    /\ chk' = "reading"
    /\ chkAccepted' = accepted
    /\ UNCHANGED <<diskVars, recVars, up, memVars, txVars, chkSeen, outcome, held, envVars, ghostVars>>

\* A file that cannot be read now says nothing.
CheckRead ==
    /\ chk = "reading"
    /\ \/ chk' = "read" /\ chkSeen' = disk /\ UNCHANGED chkAccepted
       \/ disk # None /\ EndCheck
    /\ UNCHANGED <<diskVars, recVars, up, memVars, txVars, outcome, held, envVars, ghostVars>>

\* Mutant: the accepted identity goes with the file.
Forgotten == None

\* A missing file leaves the accepted identity alone: the buffer is the only
\* copy now, and a save has to be able to write it back.
LeftAlone == accepted

CheckVerdict ==
    /\ chk = "read"
    /\ EndCheck
    /\ \/ /\ chkSeen = None
          /\ missing' = TRUE
          /\ accepted' = LeftAlone
          /\ UNCHANGED <<misrebased, misreported>>
       \/ /\ Same(chkSeen, chkAccepted)
          /\ UNCHANGED <<accepted, missing, misrebased, misreported>>
       \/ /\ chkSeen # None /\ ~Same(chkSeen, chkAccepted)
          /\ chkSeen.body = chkAccepted.body
          /\ accepted' = chkSeen
          /\ missing' = FALSE
          /\ misrebased' = (misrebased \/ chkSeen.body # accepted.body)
          /\ UNCHANGED misreported
       \/ /\ chkSeen # None
          /\ chkSeen.body # chkAccepted.body
          /\ missing' = FALSE
          /\ misreported' = (misreported \/ chkSeen.own)
          /\ UNCHANGED <<accepted, misrebased>>
    /\ UNCHANGED <<diskVars, recVars, up, doc, rev, recovery, blocked, watching, txVars,
                   outcome, held, envVars, clobbered>>

(***************************************************************************)
(* Everybody else.                                                         *)
(***************************************************************************)
\* Another program writes or removes the file.  A write between the last
\* validation and the rename is in the window.
ForeignWrite(body) ==
    /\ foreign < MaxForeign
    /\ foreign' = foreign + 1
    /\ disk' = [id |-> nextId, body |-> body, own |-> FALSE]
    /\ platter' = disk'
    /\ nextId' = nextId + 1
    /\ raced' = (raced \/ pc = "publish")
    /\ UNCHANGED <<kind, pc, rec, base, expect, seen, recreating, reply,
                   recVars, up, memVars, checkVars, outcome, held,
                   faults, crashes, sweeps, attempts, ghostVars>>

ForeignRemove ==
    /\ foreign < MaxForeign
    /\ disk # None
    /\ foreign' = foreign + 1
    /\ disk' = None /\ platter' = None
    /\ UNCHANGED <<nextId, recVars, up, memVars, txVars, checkVars, outcome, held,
                   faults, crashes, sweeps, attempts, ghostVars>>

\* Another note of the same folder is opened: its store removes every owned
\* temp in the directory but the one its own record names.
OpenNeighbour ==
    /\ sweeps < MaxSweeps
    /\ temps # {}
    /\ sweeps' = sweeps + 1
    /\ temps' = {}
    /\ UNCHANGED <<diskVars, journal, payloads, up, memVars, txVars, checkVars, outcome, held,
                   foreign, faults, crashes, attempts, ghostVars>>

\* The process dies; if the power goes with it, a rename that was never
\* synced may be undone.
Crash ==
    /\ up
    /\ crashes < MaxCrashes
    /\ crashes' = crashes + 1
    /\ Closed
    /\ disk' \in {disk, platter}
    /\ UNCHANGED <<platter, nextId, recVars, foreign, faults, sweeps, attempts,
                   clobbered, misreported>>
    /\ misrebased' = FALSE

TxStep ==
    \/ SavePrecondition \/ WritePayload \/ PersistStage \/ CreateTemp
    \/ Validate \/ Publish \/ Link \/ SyncDirectory \/ Readback \/ AcceptCandidate
    \/ RemoveTemp \/ RemovePayload \/ RemoveJournal
    \/ RecoverCapture \/ WriteReplayTemp \/ RemoveReplay
    \/ ReloadRead \/ ReloadApply
    \/ SaveThrows \/ RecoverThrows \/ CleanupThrows

Next ==
    \/ Open \/ Deliver
    \/ \E candidate \in Bodies : SaveStart(candidate)
    \/ RecoverStart \/ ReloadStart
    \/ TxStep
    \/ CheckStart \/ CheckRead \/ CheckVerdict
    \/ \E body \in Bodies : ForeignWrite(body)
    \/ ForeignRemove \/ OpenNeighbour \/ Crash

Spec == Init /\ [][Next]_vars

\* Node runs every pending continuation; a reader faced with a recovery
\* record asks for recovery, and reopens a note after a crash.
Fairness == WF_vars(TxStep) /\ WF_vars(Open) /\ WF_vars(RecoverStart)

FairSpec == Spec /\ Fairness

-----------------------------------------------------------------------------
(***************************************************************************)
(* Safety.                                                                 *)
(***************************************************************************)
\* A save or a replayed recovery destroys a version whose bytes its candidate
\* was not edited from only if that version arrived between the last
\* validation and the rename, or a stale check had moved the accepted
\* identity onto it (validateExpectedAndReplace, the token check of save).
NoSilentClobber == "silent" \notin clobbered

\* Saving is blocked whenever any durable evidence of an unfinished save is
\* left, so no second save can replace its journal or payload: after failed
\* saves, failed cleanups and crashes alike (recoveryBlocked).
EvidenceBlocks ==
    up /\ pc = "idle" /\ (journal # None \/ payloads # {}) => blocked

\* There is never more than one candidate to recover, and a journal always
\* describes the payload of its own attempt or finds it gone.
OneRecord ==
    /\ \A one, other \in payloads : one = other
    /\ journal # None => payloads \subseteq {PayloadOf(journal)}

\* A saved reply outlives a power loss: what the path would then name is the
\* accepted version or a later one, never the version the save replaced.
SavedIsDurable ==
    up /\ outcome = "saved" /\ pc = "idle" /\ platter # None => platter.id >= accepted.id

\* While nothing is being recovered the accepted identity is that of the
\* revision the reader edits, or a stale check moved it.
AcceptedIsDocument ==
    up /\ pc = "idle" /\ ~blocked /\ ~misrebased => accepted.body = doc

(***************************************************************************)
(* Liveness.                                                               *)
(***************************************************************************)
\* The record can be finished from what the disk holds now.
Repairable ==
    /\ up /\ journal # None
    /\ PayloadOf(journal) \in payloads
    /\ \/ /\ journal.stage \in Unpublished
          /\ Same(journal.accepted, disk) \/ (journal.recreate /\ disk = None)
       \/ /\ journal.stage \in Published \cup {"precondition-confirmed"}
          /\ disk # None /\ disk.body = journal.body

\* A record that can be finished is, once the reader asks: recovery never
\* leaves saving blocked while the file stays as the record expects it.
RepairableRecovers == Repairable ~> (~blocked \/ ~Repairable)

(***************************************************************************)
(* What the repository says, and the code does not do in every             *)
(* interleaving.                                                           *)
(***************************************************************************)
\* README.md:205: a file that no longer matches what was accepted is never
\* overwritten.
NeverOverwritesForeign == "window" \notin clobbered

\* file-truth-store.ts, checkExternalChange: identical content under a new
\* identity is a rebase; the identity it moves to has the document's bytes.
RebaseKeepsDocument == up /\ pc = "idle" /\ ~blocked => accepted.body = doc

\* file-truth-v1-store.test.ts:545: the store stays quiet about its own save.
OwnSaveStaysQuiet == ~misreported

\* The step answers recovery-failed although no call threw.
RefusesRecovery ==
    outcome # "recovery-failed" /\ outcome' = "recovery-failed" /\ faults' = faults

\* file-truth-v1-store.test.ts:620: a crash after the replacement is
\* reconciled: with the candidate still on disk the note does not come back
\* as recovery-failed.
CrashAfterReplacementReconciles ==
    [][RefusesRecovery => ~(journal # None /\ disk # None /\ disk.body = journal.body)]_vars

\* file-truth-v1-store.test.ts:205: replacement-complete is persisted before
\* the directory sync and resumes cleanly in a fresh process: so too when the
\* sync never happened and the path names the accepted file again.
ResumesWithoutSync ==
    [][RefusesRecovery => ~(journal # None /\ PayloadOf(journal) \in payloads
                            /\ Same(journal.accepted, disk))]_vars

\* file-truth-v1-store.test.ts:233: recovery reconciles the exact candidate
\* on disk when journalling replacement-complete was interrupted.
ExactCandidateReconciles ==
    [][kind = "recover" /\ outcome' = "external-conflict" /\ outcome # outcome'
         => ~ReadsBack]_vars

\* file-truth-store.ts:566: a crash that interrupted recreating a deleted
\* file is replayed while the path is still missing.
RecreateIsReplayed ==
    (~up /\ journal # None /\ journal.recreate) ~> (disk # None)

\* document-watcher.ts, suspend: the watcher closed for our own replacement
\* is put back; so an open note with no transaction running is watched.
WatchedWhenIdle == up /\ pc = "idle" => watching

\* file-truth-v1-store.test.ts:388: opening a note removes stale temps but
\* not the temp a record refers to.
ReferencedTempKept ==
    kind = "save" /\ pc \in {"temp-flushed", "metadata-applied",
        "precondition-confirmed", "validate", "publish"} => rec.temp \in temps
=============================================================================
