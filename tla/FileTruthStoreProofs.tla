------------------------ MODULE FileTruthStoreProofs ------------------------
(***************************************************************************)
(* Theorems about the store of one open note, for every set of bodies and  *)
(* every bound on the environment: types, what a save replaces, evidence   *)
(* of an unfinished one, which keeps the next one out, and that every save *)
(* and recovery is a compare-and-replace of the file (FileTruthGuarded).   *)
(***************************************************************************)
EXTENDS FileTruthGuarded, TLAPS

(***************************************************************************)
(* The shape of a running transaction: what its steps may rely on.         *)
(***************************************************************************)
TxShape ==
    /\ kind = "none" => pc = "idle"
    /\ kind = "save" => pc \in SaveSteps
    /\ kind = "recover" => pc \in RecoverSteps
    /\ kind = "reload" => pc \in ReloadSteps
    /\ kind \in {"save", "recover"} => rec \in Record /\ base \in Bodies
    /\ kind = "reload" => expect \in Version
    /\ pc \in {"reload-apply", "replacement-verified", "journal-complete"} => seen \in Version
    /\ kind # "none" => up
    /\ up => accepted \in Version /\ doc \in Bodies
    /\ chk # "none" => up /\ chkAccepted \in Version

IType == TypeOK /\ TxShape

-----------------------------------------------------------------------------
(***************************************************************************)
(* What the records are built from.                                        *)
(***************************************************************************)
\* A captured version of the file has a natural identity and a body of the
\* model (NodeFileTruthPlatform.capture).
LEMMA VersionFields ==
  ASSUME NEW v \in Version
  PROVE  v.id \in Nat /\ v.body \in Bodies
  BY DEF Version

\* A recovery record carries the candidate's bytes, the version they replace
\* and the name of their temp.
LEMMA RecordFields ==
  ASSUME NEW r \in Record
  PROVE  r.body \in Bodies /\ r.accepted \in Version /\ r.temp \in Temp
  BY DEF Record

\* The record saveLocked builds before its first write is well formed.
LEMMA NewRecordType ==
  ASSUME NEW n \in Nat, NEW b \in Bodies, NEW v \in Version
  PROVE  [attempt |-> n + 1, body |-> b, accepted |-> v, temp |-> n + 1,
          recreate |-> FALSE, stage |-> "before-temp-write"] \in Record
  BY DEF Record, Temp

\* It stays so when the precondition finds the path missing and the save
\* turns into a recreation,
LEMMA RecreateType ==
  ASSUME NEW r \in Record, NEW b \in BOOLEAN
  PROVE  [r EXCEPT !.recreate = b] \in Record
  BY DEF Record

\* when a recovery replays it under a temp of its own,
LEMMA ReplayType ==
  ASSUME NEW r \in Record
  PROVE  [r EXCEPT !.temp = Replay] \in Record /\ Replay \in Temp
  BY DEF Record, Temp, Replay

\* and when persistJournal writes it with the stage just reached.
LEMMA StagedRecordType ==
  ASSUME rec \in Record, pc \in Stages
  PROVE  StagedRecord \in Record
  BY DEF StagedRecord, Record

\* The payload file a record names (recoveryPaths) is a payload of the model.
LEMMA PayloadType ==
  ASSUME NEW record \in Record
  PROVE  PayloadOf(record) \in Payload
  BY DEF PayloadOf, Record, Payload

\* The version a candidate becomes once it is written is a version.
LEMMA CandidateType ==
  ASSUME rec \in Record, nextId \in Nat
  PROVE  CandidateVersion \in Version
  BY DEF CandidateVersion, Record, Version

-----------------------------------------------------------------------------
(***************************************************************************)
(* Type correctness.                                                       *)
(***************************************************************************)
\* The note before it is first opened satisfies the types.
LEMMA TypeInit == Init => IType
<1> SUFFICES ASSUME Init PROVE IType
  OBVIOUS
<1> USE ConstantsAssumption DEF Init
<1>1. DiskTypeOK
  BY DEF DiskTypeOK, Version
<1>2. EvidenceTypeOK /\ MemoryTypeOK
  BY DEF EvidenceTypeOK, MemoryTypeOK, Outcomes
<1>3. TxTypeOK /\ CheckTypeOK
  BY DEF TxTypeOK, CheckTypeOK, Outcomes, Steps
<1>4. EnvTypeOK /\ TxShape
  BY DEF EnvTypeOK, TxShape
<1> QED
  BY <1>1, <1>2, <1>3, <1>4 DEF IType, TypeOK

\* Every step of the store, of its environment and of a crash keeps the types
\* and the shape of the running transaction; one step per action of Next.
LEMMA TypeStep == IType /\ [Next]_vars => IType'
<1> SUFFICES ASSUME IType, [Next]_vars PROVE IType'
  OBVIOUS
<1> USE ConstantsAssumption
    DEF Steps, Outcomes, Stages, Published, Unpublished, CleanupSteps, ReloadSteps,
        SaveSteps, RecoverSteps, diskVars, recVars, memVars, envVars, ghostVars,
        txVars, txData, checkVars
<1>1. CASE Open
  <2> USE <1>1 DEF Open, Record, Version
  <2>1. EvidenceTypeOK'
    BY DEF IType, TypeOK, EvidenceTypeOK
  <2>2. MemoryTypeOK'
    BY DEF IType, TypeOK, DiskTypeOK, EvidenceTypeOK, MemoryTypeOK
  <2>3. TxShape'
    BY DEF IType, TypeOK, DiskTypeOK, EvidenceTypeOK, TxShape
  <2>4. EnvTypeOK'
    BY DEF IType, TypeOK, EnvTypeOK
  <2> QED
    BY <2>1, <2>2, <2>3, <2>4
       DEF IType, TypeOK, DiskTypeOK, TxTypeOK, CheckTypeOK
<1>2. CASE Deliver
  <2> USE <1>2 DEF Deliver, CurrentToken, Token
  <2>1. MemoryTypeOK'
    BY DEF IType, TypeOK, MemoryTypeOK, TxShape
  <2> QED
    BY <2>1
       DEF IType, TypeOK, DiskTypeOK, EvidenceTypeOK, TxTypeOK, TxShape, CheckTypeOK, EnvTypeOK
<1>3. ASSUME NEW c \in Bodies, SaveStart(c) PROVE IType'
  <2> USE <1>3 DEF SaveStart, MaySave, Begin, Token
  <2>1. TxTypeOK'
    BY NewRecordType DEF IType, TypeOK, TxTypeOK, TxShape, EnvTypeOK
  <2>2. TxShape'
    BY NewRecordType DEF IType, TypeOK, TxShape, EnvTypeOK
  <2>3. EnvTypeOK'
    BY NewRecordType DEF IType, TypeOK, EnvTypeOK
  <2> QED
    BY <2>1, <2>2, <2>3
       DEF IType, TypeOK, DiskTypeOK, EvidenceTypeOK, MemoryTypeOK, CheckTypeOK
<1>4. CASE RecoverStart
  <2> USE <1>4 DEF RecoverStart, Finish, End, Begin, Record, Version
  <2>1. MemoryTypeOK'
    BY ZenonT(30) DEF IType, TypeOK, EvidenceTypeOK, MemoryTypeOK
  <2>2. TxTypeOK'
    BY DEF IType, TypeOK, EvidenceTypeOK, TxTypeOK
  <2>3. TxShape'
    BY DEF IType, TypeOK, EvidenceTypeOK, TxShape
  <2> QED
    BY <2>1, <2>2, <2>3
       DEF IType, TypeOK, DiskTypeOK, EvidenceTypeOK, CheckTypeOK, EnvTypeOK
<1>5. CASE ReloadStart
  <2> USE <1>5 DEF ReloadStart, MaySave, Begin
  <2>1. TxTypeOK'
    BY DEF IType, TypeOK, TxTypeOK, TxShape
  <2>2. TxShape'
    BY DEF IType, TypeOK, TxShape
  <2> QED
    BY <2>1, <2>2
       DEF IType, TypeOK, DiskTypeOK, EvidenceTypeOK, MemoryTypeOK, CheckTypeOK, EnvTypeOK
<1>6. CASE SavePrecondition
  <2> USE <1>6 DEF SavePrecondition, Finish, End
  <2>1. MemoryTypeOK'
    BY RecreateType, ZenonT(30) DEF IType, TypeOK, MemoryTypeOK
  <2>2. TxTypeOK'
    BY RecreateType DEF IType, TypeOK, TxTypeOK, TxShape
  <2>3. TxShape'
    BY RecreateType DEF IType, TypeOK, TxShape
  <2> QED
    BY <2>1, <2>2, <2>3
       DEF IType, TypeOK, DiskTypeOK, EvidenceTypeOK, CheckTypeOK, EnvTypeOK
<1>7. CASE WritePayload
  <2> USE <1>7 DEF WritePayload, Goto
  <2>1. EvidenceTypeOK'
    BY PayloadType DEF IType, TypeOK, EvidenceTypeOK, TxTypeOK, TxShape
  <2>2. TxTypeOK'
    BY DEF IType, TypeOK, TxTypeOK
  <2>3. TxShape'
    BY DEF IType, TypeOK, TxShape
  <2> QED
    BY <2>1, <2>2, <2>3
       DEF IType, TypeOK, DiskTypeOK, MemoryTypeOK, CheckTypeOK, EnvTypeOK
<1>8. CASE PersistStage
  <2> USE <1>8 DEF PersistStage, After
  <2>1. EvidenceTypeOK'
    BY StagedRecordType DEF IType, TypeOK, EvidenceTypeOK, TxTypeOK, TxShape
  <2>2. MemoryTypeOK'
    BY StagedRecordType, ZenonT(30) DEF IType, TypeOK, MemoryTypeOK, TxTypeOK, TxShape
  <2>3. TxTypeOK'
    BY StagedRecordType DEF IType, TypeOK, TxTypeOK, TxShape
  <2>4. TxShape'
    BY StagedRecordType DEF IType, TypeOK, TxShape
  <2> QED
    BY <2>1, <2>2, <2>3, <2>4
       DEF IType, TypeOK, DiskTypeOK, CheckTypeOK, EnvTypeOK
<1>9. CASE CreateTemp
  <2> USE <1>9 DEF CreateTemp, Goto, Record
  <2>1. EvidenceTypeOK'
    BY DEF IType, TypeOK, EvidenceTypeOK, TxTypeOK, TxShape
  <2>2. TxTypeOK'
    BY DEF IType, TypeOK, TxTypeOK
  <2>3. TxShape'
    BY DEF IType, TypeOK, TxShape
  <2> QED
    BY <2>1, <2>2, <2>3
       DEF IType, TypeOK, DiskTypeOK, MemoryTypeOK, CheckTypeOK, EnvTypeOK
<1>10. CASE Validate
  <2> USE <1>10 DEF Validate, Conflict, Goto
  <2>1. MemoryTypeOK'
    BY ZenonT(30) DEF IType, TypeOK, MemoryTypeOK
  <2>2. TxTypeOK'
    BY ZenonT(30) DEF IType, TypeOK, TxTypeOK
  <2>3. TxShape'
    BY DEF IType, TypeOK, TxShape
  <2> QED
    BY <2>1, <2>2, <2>3
       DEF IType, TypeOK, DiskTypeOK, EvidenceTypeOK, CheckTypeOK, EnvTypeOK
<1>11. CASE Publish
  <2> USE <1>11 DEF Publish, Replace, Destroys, Goto
  <2>1. DiskTypeOK'
    BY CandidateType DEF IType, TypeOK, DiskTypeOK, TxTypeOK, TxShape
  <2>2. EvidenceTypeOK'
    BY DEF IType, TypeOK, EvidenceTypeOK
  <2>3. TxTypeOK'
    BY DEF IType, TypeOK, TxTypeOK
  <2>4. TxShape'
    BY DEF IType, TypeOK, TxShape
  <2>5. EnvTypeOK'
    BY DEF IType, TypeOK, EnvTypeOK
  <2> QED
    BY <2>1, <2>2, <2>3, <2>4, <2>5
       DEF IType, TypeOK, MemoryTypeOK, CheckTypeOK
<1>12. CASE Link
  <2> USE <1>12 DEF Link, Replace, Destroys, Goto, Conflict
  <2>1. DiskTypeOK'
    BY CandidateType DEF IType, TypeOK, DiskTypeOK, TxTypeOK, TxShape
  <2>2. EvidenceTypeOK'
    BY DEF IType, TypeOK, EvidenceTypeOK
  <2>3. MemoryTypeOK'
    BY ZenonT(30) DEF IType, TypeOK, MemoryTypeOK
  <2>4. TxTypeOK'
    BY DEF IType, TypeOK, TxTypeOK
  <2>5. TxShape'
    BY DEF IType, TypeOK, TxShape
  <2>6. EnvTypeOK'
    BY DEF IType, TypeOK, EnvTypeOK
  <2> QED
    BY <2>1, <2>2, <2>3, <2>4, <2>5, <2>6
       DEF IType, TypeOK, CheckTypeOK
<1>13. CASE SyncDirectory
  <2> USE <1>13 DEF SyncDirectory, Synced, Goto
  <2>1. DiskTypeOK'
    BY DEF IType, TypeOK, DiskTypeOK
  <2>2. TxTypeOK'
    BY DEF IType, TypeOK, TxTypeOK
  <2>3. TxShape'
    BY DEF IType, TypeOK, TxShape
  <2> QED
    BY <2>1, <2>2, <2>3
       DEF IType, TypeOK, EvidenceTypeOK, MemoryTypeOK, CheckTypeOK, EnvTypeOK
<1>14. CASE Readback
  <2> USE <1>14 DEF Readback, ReadsBack
  <2>1. TxTypeOK'
    BY DEF IType, TypeOK, DiskTypeOK, TxTypeOK
  <2>2. TxShape'
    BY DEF IType, TypeOK, DiskTypeOK, TxShape
  <2> QED
    BY <2>1, <2>2
       DEF IType, TypeOK, DiskTypeOK, EvidenceTypeOK, MemoryTypeOK, CheckTypeOK, EnvTypeOK
<1>15. CASE AcceptCandidate
  <2> USE <1>15 DEF AcceptCandidate, NewIdentity
  <2>0. StagedRecord \in Record /\ seen \in Version /\ rec.body \in Bodies
    BY StagedRecordType, RecordFields DEF IType, TypeOK, TxTypeOK, TxShape
  <2>1. EvidenceTypeOK'
    BY StagedRecordType DEF IType, TypeOK, EvidenceTypeOK, TxTypeOK, TxShape
  <2>2. MemoryTypeOK'
    <3>1. missing' \in BOOLEAN /\ blocked' \in BOOLEAN
      BY <2>0 DEF IType, TypeOK
    <3>2. watching' \in BOOLEAN
      BY <2>0 DEF IType, TypeOK, MemoryTypeOK
    <3>3. rev' \in Nat
      BY <2>0 DEF IType, TypeOK, MemoryTypeOK
    <3>4. doc' \in Bodies /\ accepted' \in Version /\ recovery' \in Record
      BY <2>0 DEF IType, TypeOK
    <3>5. UNCHANGED <<up, outcome, held>>
      BY <2>0 DEF IType, TypeOK
    <3> QED
      BY <2>0, <3>1, <3>2, <3>3, <3>4, <3>5 DEF IType, TypeOK, MemoryTypeOK
  <2>3. TxTypeOK'
    BY StagedRecordType DEF IType, TypeOK, TxTypeOK, TxShape
  <2>4. TxShape'
    BY StagedRecordType, RecordFields DEF IType, TypeOK, TxTypeOK, TxShape
  <2>5. EnvTypeOK'
    BY DEF IType, TypeOK, EnvTypeOK
  <2> QED
    BY <2>1, <2>2, <2>3, <2>4, <2>5
       DEF IType, TypeOK, DiskTypeOK, CheckTypeOK
<1>16. CASE RemoveTemp
  <2> USE <1>16 DEF RemoveTemp, Goto
  <2>1. EvidenceTypeOK'
    BY DEF IType, TypeOK, EvidenceTypeOK
  <2>2. TxTypeOK'
    BY DEF IType, TypeOK, TxTypeOK
  <2>3. TxShape'
    BY DEF IType, TypeOK, TxShape
  <2> QED
    BY <2>1, <2>2, <2>3
       DEF IType, TypeOK, DiskTypeOK, MemoryTypeOK, CheckTypeOK, EnvTypeOK
<1>17. CASE RemovePayload
  <2> USE <1>17 DEF RemovePayload, Goto
  <2>1. EvidenceTypeOK'
    BY DEF IType, TypeOK, EvidenceTypeOK
  <2>2. TxTypeOK'
    BY DEF IType, TypeOK, TxTypeOK
  <2>3. TxShape'
    BY DEF IType, TypeOK, TxShape
  <2> QED
    BY <2>1, <2>2, <2>3
       DEF IType, TypeOK, DiskTypeOK, MemoryTypeOK, CheckTypeOK, EnvTypeOK
<1>18. CASE RemoveJournal
  <2> USE <1>18 DEF RemoveJournal, Finish, End
  <2>1. EvidenceTypeOK'
    BY DEF IType, TypeOK, EvidenceTypeOK
  <2>2. MemoryTypeOK'
    BY DEF IType, TypeOK, MemoryTypeOK, TxTypeOK
  <2>3. TxTypeOK'
    BY DEF IType, TypeOK, TxTypeOK
  <2>4. TxShape'
    BY DEF IType, TypeOK, TxShape
  <2> QED
    BY <2>1, <2>2, <2>3, <2>4
       DEF IType, TypeOK, DiskTypeOK, CheckTypeOK, EnvTypeOK
<1>19. CASE RecoverCapture
  <2> USE <1>19 DEF RecoverCapture, Goto, Finish, End
  <2>1. EvidenceTypeOK'
    BY DEF IType, TypeOK, EvidenceTypeOK
  <2>2. MemoryTypeOK'
    BY DEF IType, TypeOK, MemoryTypeOK
  <2>3. TxTypeOK'
    BY ZenonT(30) DEF IType, TypeOK, TxTypeOK, TxShape
  <2>4. TxShape'
    BY DEF IType, TypeOK, TxShape
  <2> QED
    BY <2>1, <2>2, <2>3, <2>4
       DEF IType, TypeOK, DiskTypeOK, CheckTypeOK, EnvTypeOK
<1>20. CASE WriteReplayTemp
  <2> USE <1>20 DEF WriteReplayTemp
  <2>1. EvidenceTypeOK'
    BY ReplayType DEF IType, TypeOK, EvidenceTypeOK, TxTypeOK, TxShape
  <2>2. MemoryTypeOK'
    BY ReplayType DEF IType, TypeOK, MemoryTypeOK
  <2>3. TxTypeOK'
    BY ReplayType DEF IType, TypeOK, TxTypeOK, TxShape
  <2>4. TxShape'
    BY ReplayType DEF IType, TypeOK, TxShape
  <2> QED
    BY <2>1, <2>2, <2>3, <2>4
       DEF IType, TypeOK, DiskTypeOK, CheckTypeOK, EnvTypeOK
<1>21. CASE RemoveReplay
  <2> USE <1>21 DEF RemoveReplay, Finish, End
  <2>1. EvidenceTypeOK'
    BY DEF IType, TypeOK, EvidenceTypeOK
  <2>2. MemoryTypeOK'
    BY DEF IType, TypeOK, MemoryTypeOK
  <2>3. TxTypeOK'
    BY DEF IType, TypeOK, TxTypeOK
  <2>4. TxShape'
    BY DEF IType, TypeOK, TxShape
  <2> QED
    BY <2>1, <2>2, <2>3, <2>4
       DEF IType, TypeOK, DiskTypeOK, CheckTypeOK, EnvTypeOK
<1>22. CASE ReloadRead
  <2> USE <1>22 DEF ReloadRead, End
  <2>1. TxTypeOK'
    BY ZenonT(30) DEF IType, TypeOK, DiskTypeOK, TxTypeOK
  <2>2. TxShape'
    BY DEF IType, TypeOK, DiskTypeOK, TxShape
  <2>3. EnvTypeOK'
    BY DEF IType, TypeOK, EnvTypeOK
  <2> QED
    BY <2>1, <2>2, <2>3
       DEF IType, TypeOK, DiskTypeOK, EvidenceTypeOK, MemoryTypeOK, CheckTypeOK
<1>23. CASE ReloadApply
  <2> USE <1>23 DEF ReloadApply, End
  <2>0. seen \in Version /\ seen.body \in Bodies
    BY VersionFields DEF IType, TxShape
  <2>1. MemoryTypeOK'
    <3>1. missing' \in BOOLEAN /\ blocked' \in BOOLEAN
      BY <2>0 DEF IType, TypeOK, MemoryTypeOK
    <3>2. watching' \in BOOLEAN
      BY <2>0 DEF IType, TypeOK, MemoryTypeOK
    <3> QED
      BY <2>0, <3>1, <3>2 DEF IType, TypeOK, MemoryTypeOK
  <2>2. TxTypeOK'
    BY DEF IType, TypeOK, TxTypeOK
  <2>3. TxShape'
    BY VersionFields DEF IType, TypeOK, TxShape
  <2>4. EnvTypeOK'
    BY DEF IType, TypeOK, EnvTypeOK
  <2> QED
    BY <2>1, <2>2, <2>3, <2>4
       DEF IType, TypeOK, DiskTypeOK, EvidenceTypeOK, CheckTypeOK
<1>24. CASE SaveThrows
  <2> USE <1>24 DEF SaveThrows, Throws, Finish, End
  <2>1. EvidenceTypeOK'
    BY StagedRecordType, PayloadType DEF IType, TypeOK, EvidenceTypeOK, TxShape
  <2>2. MemoryTypeOK'
    BY DEF IType, TypeOK, MemoryTypeOK
  <2>3. TxTypeOK'
    BY DEF IType, TypeOK, TxTypeOK
  <2>4. TxShape'
    BY DEF IType, TypeOK, TxShape
  <2>5. EnvTypeOK'
    BY DEF IType, TypeOK, EnvTypeOK
  <2> QED
    BY <2>1, <2>2, <2>3, <2>4, <2>5
       DEF IType, TypeOK, DiskTypeOK, CheckTypeOK
<1>25. CASE RecoverThrows
  <2> USE <1>25 DEF RecoverThrows, Throws, Finish, End
  <2>1. EvidenceTypeOK'
    BY StagedRecordType DEF IType, TypeOK, EvidenceTypeOK, TxShape
  <2>2. MemoryTypeOK'
    BY DEF IType, TypeOK, MemoryTypeOK
  <2>3. TxTypeOK'
    BY DEF IType, TypeOK, TxTypeOK
  <2>4. TxShape'
    BY DEF IType, TypeOK, TxShape
  <2>5. EnvTypeOK'
    BY DEF IType, TypeOK, EnvTypeOK
  <2> QED
    BY <2>1, <2>2, <2>3, <2>4, <2>5
       DEF IType, TypeOK, DiskTypeOK, CheckTypeOK
<1>26. CASE CleanupThrows
  <2> USE <1>26 DEF CleanupThrows, Finish, End
  <2>1. MemoryTypeOK'
    BY DEF IType, TypeOK, MemoryTypeOK
  <2>2. TxTypeOK'
    BY DEF IType, TypeOK, TxTypeOK
  <2>3. TxShape'
    BY DEF IType, TypeOK, TxShape
  <2>4. EnvTypeOK'
    BY DEF IType, TypeOK, EnvTypeOK
  <2> QED
    BY <2>1, <2>2, <2>3, <2>4
       DEF IType, TypeOK, DiskTypeOK, EvidenceTypeOK, CheckTypeOK
<1>27. CASE CheckStart
  <2> USE <1>27 DEF CheckStart
  <2>1. CheckTypeOK'
    BY DEF IType, TypeOK, TxShape, CheckTypeOK
  <2>2. TxShape'
    BY DEF IType, TypeOK, TxShape
  <2> QED
    BY <2>1, <2>2
       DEF IType, TypeOK, DiskTypeOK, EvidenceTypeOK, MemoryTypeOK, TxTypeOK, EnvTypeOK
<1>28. CASE CheckRead
  <2> USE <1>28 DEF CheckRead, EndCheck
  <2>1. CheckTypeOK'
    BY DEF IType, TypeOK, DiskTypeOK, CheckTypeOK
  <2>2. TxShape'
    BY DEF IType, TypeOK, TxShape
  <2> QED
    BY <2>1, <2>2
       DEF IType, TypeOK, DiskTypeOK, EvidenceTypeOK, MemoryTypeOK, TxTypeOK, EnvTypeOK
<1>29. CASE CheckVerdict
  <2> USE <1>29 DEF CheckVerdict, LeftAlone, EndCheck
  <2>1. MemoryTypeOK'
    BY ZenonT(30) DEF IType, TypeOK, MemoryTypeOK, CheckTypeOK
  <2>2. CheckTypeOK'
    BY DEF IType, TypeOK, CheckTypeOK
  <2>3. TxShape'
    BY DEF IType, TypeOK, TxShape, CheckTypeOK
  <2>4. EnvTypeOK'
    BY DEF IType, TypeOK, EnvTypeOK
  <2> QED
    BY <2>1, <2>2, <2>3, <2>4
       DEF IType, TypeOK, DiskTypeOK, EvidenceTypeOK, TxTypeOK
<1>30. ASSUME NEW c \in Bodies, ForeignWrite(c) PROVE IType'
  <2> USE <1>30 DEF ForeignWrite, Version
  <2>1. DiskTypeOK'
    BY DEF IType, TypeOK, DiskTypeOK
  <2>2. TxTypeOK'
    BY DEF IType, TypeOK, TxTypeOK
  <2>3. EnvTypeOK'
    BY DEF IType, TypeOK, EnvTypeOK
  <2> QED
    BY <2>1, <2>2, <2>3
       DEF IType, TypeOK, EvidenceTypeOK, MemoryTypeOK, TxShape, CheckTypeOK
<1>31. CASE ForeignRemove
  <2> USE <1>31 DEF ForeignRemove
  <2>1. DiskTypeOK'
    BY DEF IType, TypeOK, DiskTypeOK
  <2>2. EnvTypeOK'
    BY DEF IType, TypeOK, EnvTypeOK
  <2> QED
    BY <2>1, <2>2
       DEF IType, TypeOK, EvidenceTypeOK, MemoryTypeOK, TxTypeOK, TxShape, CheckTypeOK
<1>32. CASE OpenNeighbour
  <2> USE <1>32 DEF OpenNeighbour
  <2>1. EvidenceTypeOK'
    BY DEF IType, TypeOK, EvidenceTypeOK
  <2>2. EnvTypeOK'
    BY DEF IType, TypeOK, EnvTypeOK
  <2> QED
    BY <2>1, <2>2
       DEF IType, TypeOK, DiskTypeOK, MemoryTypeOK, TxTypeOK, TxShape, CheckTypeOK
<1>33. CASE Crash
  <2> USE <1>33 DEF Crash, Closed
  <2>1. DiskTypeOK'
    BY DEF IType, TypeOK, DiskTypeOK
  <2>2. MemoryTypeOK'
    BY DEF IType, TypeOK, MemoryTypeOK
  <2>3. TxTypeOK'
    BY DEF IType, TypeOK, TxTypeOK
  <2>4. TxShape'
    BY DEF IType, TypeOK, TxShape
  <2>5. CheckTypeOK'
    BY DEF IType, TypeOK, CheckTypeOK
  <2>6. EnvTypeOK'
    <3>1. misrebased' \in BOOLEAN /\ misreported' \in BOOLEAN
      BY DEF IType, TypeOK, EnvTypeOK
    <3> QED
      BY <3>1 DEF IType, TypeOK, EnvTypeOK
  <2> QED
    BY <2>1, <2>2, <2>3, <2>4, <2>5, <2>6
       DEF IType, TypeOK, EvidenceTypeOK
<1>34. CASE UNCHANGED vars
  BY <1>34 DEF vars, IType, TypeOK, DiskTypeOK, EvidenceTypeOK, MemoryTypeOK, TxTypeOK,
     TxShape, CheckTypeOK, EnvTypeOK
<1> QED
  BY <1>1, <1>2, <1>3, <1>4, <1>5, <1>6, <1>7, <1>8, <1>9, <1>10, <1>11, <1>12,
     <1>13, <1>14, <1>15, <1>16, <1>17, <1>18, <1>19, <1>20, <1>21, <1>22, <1>23, <1>24,
     <1>25, <1>26, <1>27, <1>28, <1>29, <1>30, <1>31, <1>32, <1>33, <1>34
     DEF Next, TxStep

\* In every state the store can reach, every variable has its type.
THEOREM TypeCorrect == Spec => []TypeOK
<1>1. Init => IType
  BY TypeInit
<1>2. IType /\ [Next]_vars => IType'
  BY TypeStep
<1>3. IType => TypeOK
  BY DEF IType
<1> QED
  BY <1>1, <1>2, <1>3, PTL DEF Spec

-----------------------------------------------------------------------------

(***************************************************************************)
(* Why a save never silently destroys what it did not start from.          *)
(***************************************************************************)
\* The accepted revision is known to be the accepted file's: nothing is being
\* recovered, or the recovery has accepted its candidate.
DocumentAccepted ==
    \/ kind \in {"save", "reload"}
    \/ kind = "none" /\ up /\ ~blocked
    \/ kind = "recover" /\ pc \in CleanupSteps

\* A standing record keeps saving out.
RecordBlocks == recovery # None => blocked

\* The revision the reader edits is the one the accepted file held.
AcceptedBytes == DocumentAccepted /\ ~misrebased => accepted.body = doc

\* A candidate's base is the document until it is accepted in its place; a
\* replayed candidate's is the version its record names.
CandidateBase ==
    /\ kind = "save" /\ pc \notin CleanupSteps => base = doc
    /\ kind = "recover" => blocked /\ base = rec.accepted.body

\* A read-back that passed found the candidate's bytes.
ReadBackBytes ==
    pc \in {"replacement-verified", "journal-complete"} => seen.body = rec.body

\* Between the validation and the rename the path still names the base.
PublishesOverBase ==
    pc = "publish" /\ ~misrebased /\ ~raced /\ disk # None => disk.body = base

\* Inductive together with the types: the base of a candidate is followed from
\* the token check to the rename.
IBase ==
    /\ RecordBlocks
    /\ AcceptedBytes
    /\ CandidateBase
    /\ ReadBackBytes
    /\ PublishesOverBase
    /\ NoSilentClobber

-----------------------------------------------------------------------------
(***************************************************************************)
(* Every step keeps it.                                                    *)
(***************************************************************************)
\* Every step keeps the base of the candidate in flight: the store's own steps
\* because each hands it on, a foreign write because it raises raced when it
\* falls between the validation and the rename.
LEMMA BaseStep == IType /\ IBase /\ [Next]_vars => IBase'
<1> SUFFICES ASSUME IType, IBase, [Next]_vars PROVE IBase'
  OBVIOUS
<1> USE ConstantsAssumption
    DEF Stages, Published, Unpublished, CleanupSteps, ReloadSteps,
        SaveSteps, RecoverSteps, diskVars, recVars, memVars, envVars, ghostVars,
        txVars, txData, checkVars
<1>1. CASE Open
  <2> USE <1>1 DEF Open
  <2>1. RecordBlocks'
    BY DEF RecordBlocks
  <2>2. AcceptedBytes'
    BY DEF IType, TxShape, AcceptedBytes, DocumentAccepted
  <2>3. CandidateBase'
    BY DEF IType, TxShape, CandidateBase
  <2>4. PublishesOverBase'
    BY DEF IType, TxShape, PublishesOverBase
  <2> QED
    BY <2>1, <2>2, <2>3, <2>4 DEF IBase, ReadBackBytes, NoSilentClobber
<1>2. CASE Deliver
  <2> USE <1>2 DEF Deliver, CurrentToken
  <2> QED
    BY DEF IBase, RecordBlocks, AcceptedBytes, CandidateBase, ReadBackBytes,
       PublishesOverBase, NoSilentClobber, DocumentAccepted
<1>3. ASSUME NEW c \in Bodies, SaveStart(c) PROVE IBase'
  <2> USE <1>3 DEF SaveStart, MaySave, Begin
  <2>1. RecordBlocks'
    BY DEF RecordBlocks
  <2>2. AcceptedBytes'
    BY DEF IType, TypeOK, TxTypeOK, IBase, AcceptedBytes, CandidateBase, DocumentAccepted
  <2>3. CandidateBase'
    BY DEF CandidateBase
  <2>4. ReadBackBytes'
    BY DEF ReadBackBytes
  <2>5. PublishesOverBase'
    BY DEF PublishesOverBase
  <2> QED
    BY <2>1, <2>2, <2>3, <2>4, <2>5 DEF IBase, NoSilentClobber
<1>4. CASE RecoverStart
  <2> USE <1>4 DEF RecoverStart, Finish, End, Begin
  <2>1. RecordBlocks'
    BY DEF IBase, RecordBlocks
  <2>2. AcceptedBytes'
    BY DEF IType, TypeOK, TxTypeOK, IBase, AcceptedBytes, CandidateBase, DocumentAccepted
  <2>3. CandidateBase'
    BY DEF CandidateBase
  <2>4. ReadBackBytes'
    BY DEF ReadBackBytes
  <2>5. PublishesOverBase'
    BY DEF PublishesOverBase
  <2> QED
    BY <2>1, <2>2, <2>3, <2>4, <2>5 DEF IBase, NoSilentClobber
<1>5. CASE ReloadStart
  <2> USE <1>5 DEF ReloadStart, MaySave, Begin
  <2>1. RecordBlocks'
    BY DEF RecordBlocks
  <2>2. AcceptedBytes'
    BY DEF IType, TypeOK, TxTypeOK, IBase, AcceptedBytes, CandidateBase, DocumentAccepted
  <2>3. CandidateBase'
    BY DEF CandidateBase
  <2>4. ReadBackBytes'
    BY DEF ReadBackBytes
  <2>5. PublishesOverBase'
    BY DEF PublishesOverBase
  <2> QED
    BY <2>1, <2>2, <2>3, <2>4, <2>5 DEF IBase, NoSilentClobber
<1>6. CASE SavePrecondition
  <2> USE <1>6 DEF SavePrecondition, Finish, End
  <2>1. RecordBlocks'
    BY DEF IBase, RecordBlocks
  <2>2. AcceptedBytes'
    BY DEF IType, TypeOK, TxTypeOK, IBase, AcceptedBytes, CandidateBase, DocumentAccepted
  <2>3. CandidateBase'
    BY DEF IType, TxShape, IBase, CandidateBase
  <2>4. ReadBackBytes'
    BY DEF ReadBackBytes
  <2>5. PublishesOverBase'
    BY DEF PublishesOverBase
  <2> QED
    BY <2>1, <2>2, <2>3, <2>4, <2>5 DEF IBase, NoSilentClobber
<1>7. CASE WritePayload
  <2> USE <1>7 DEF WritePayload, Goto
  <2>1. AcceptedBytes'
    BY DEF IBase, AcceptedBytes, DocumentAccepted
  <2>2. CandidateBase'
    BY DEF IBase, CandidateBase
  <2>3. ReadBackBytes'
    BY DEF ReadBackBytes
  <2>4. PublishesOverBase'
    BY DEF PublishesOverBase
  <2> QED
    BY <2>1, <2>2, <2>3, <2>4 DEF IBase, RecordBlocks, NoSilentClobber
<1>8. CASE PersistStage
  <2> USE <1>8 DEF PersistStage, After, StagedRecord
  <2>1. RecordBlocks'
    BY DEF RecordBlocks
  <2>2. AcceptedBytes'
    BY DEF IBase, AcceptedBytes, DocumentAccepted
  <2>3. CandidateBase'
    BY DEF IBase, CandidateBase
  <2>4. ReadBackBytes'
    BY DEF IBase, ReadBackBytes
  <2>5. PublishesOverBase'
    BY DEF PublishesOverBase
  <2> QED
    BY <2>1, <2>2, <2>3, <2>4, <2>5 DEF IBase, NoSilentClobber
<1>9. CASE CreateTemp
  <2> USE <1>9 DEF CreateTemp, Goto
  <2>1. AcceptedBytes'
    BY DEF IBase, AcceptedBytes, DocumentAccepted
  <2>2. CandidateBase'
    BY DEF IBase, CandidateBase
  <2>3. ReadBackBytes'
    BY DEF ReadBackBytes
  <2>4. PublishesOverBase'
    BY DEF PublishesOverBase
  <2> QED
    BY <2>1, <2>2, <2>3, <2>4 DEF IBase, RecordBlocks, NoSilentClobber
<1>10. CASE Validate
  <2> USE <1>10 DEF Validate, Conflict, Goto, StillExpected, Expected, Same
  <2>1. AcceptedBytes'
    BY DEF IBase, AcceptedBytes, DocumentAccepted
  <2>2. CandidateBase'
    BY DEF IBase, CandidateBase
  <2>3. ReadBackBytes'
    BY DEF ReadBackBytes
  <2>4. PublishesOverBase'
    BY DEF IType, TypeOK, TxTypeOK, TxShape, IBase, AcceptedBytes, CandidateBase,
       PublishesOverBase, DocumentAccepted
  <2> QED
    BY <2>1, <2>2, <2>3, <2>4 DEF IBase, RecordBlocks, NoSilentClobber
<1>11. CASE Publish
  <2> USE <1>11 DEF Publish, Replace, Destroys, Goto
  <2>1. AcceptedBytes'
    BY DEF IBase, AcceptedBytes, DocumentAccepted
  <2>2. CandidateBase'
    BY DEF IBase, CandidateBase
  <2>3. ReadBackBytes'
    BY DEF ReadBackBytes
  <2>4. PublishesOverBase'
    BY DEF PublishesOverBase
  <2>5. NoSilentClobber'
    BY DEF IBase, PublishesOverBase, NoSilentClobber
  <2> QED
    BY <2>1, <2>2, <2>3, <2>4, <2>5 DEF IBase, RecordBlocks
<1>12. CASE Link
  <2> USE <1>12 DEF Link, Replace, Destroys, Goto, Conflict
  <2>1. AcceptedBytes'
    BY DEF IBase, AcceptedBytes, DocumentAccepted
  <2>2. CandidateBase'
    BY DEF IBase, CandidateBase
  <2>3. ReadBackBytes'
    BY DEF ReadBackBytes
  <2>4. PublishesOverBase'
    BY DEF PublishesOverBase
  <2>5. NoSilentClobber'
    BY DEF IBase, NoSilentClobber
  <2> QED
    BY <2>1, <2>2, <2>3, <2>4, <2>5 DEF IBase, RecordBlocks
<1>13. CASE SyncDirectory
  <2> USE <1>13 DEF SyncDirectory, Goto
  <2>1. AcceptedBytes'
    BY DEF IBase, AcceptedBytes, DocumentAccepted
  <2>2. CandidateBase'
    BY DEF IBase, CandidateBase
  <2>3. ReadBackBytes'
    BY DEF ReadBackBytes
  <2>4. PublishesOverBase'
    BY DEF PublishesOverBase
  <2> QED
    BY <2>1, <2>2, <2>3, <2>4 DEF IBase, RecordBlocks, NoSilentClobber
<1>14. CASE Readback
  <2> USE <1>14 DEF Readback, ReadsBack
  <2>1. AcceptedBytes'
    BY DEF IBase, AcceptedBytes, DocumentAccepted
  <2>2. CandidateBase'
    BY DEF IBase, CandidateBase
  <2>3. ReadBackBytes'
    BY DEF ReadBackBytes
  <2>4. PublishesOverBase'
    BY DEF PublishesOverBase
  <2> QED
    BY <2>1, <2>2, <2>3, <2>4 DEF IBase, RecordBlocks, NoSilentClobber
<1>15. CASE AcceptCandidate
  <2> USE <1>15 DEF AcceptCandidate, NewIdentity, StagedRecord
  <2>1. RecordBlocks'
    BY DEF RecordBlocks
  <2>2. AcceptedBytes'
    BY DEF IBase, AcceptedBytes, ReadBackBytes
  <2>3. CandidateBase'
    BY DEF IBase, CandidateBase
  <2>4. ReadBackBytes'
    BY DEF ReadBackBytes
  <2>5. PublishesOverBase'
    BY DEF PublishesOverBase
  <2> QED
    BY <2>1, <2>2, <2>3, <2>4, <2>5 DEF IBase, NoSilentClobber
<1>16. CASE RemoveTemp
  <2> USE <1>16 DEF RemoveTemp, Goto
  <2>1. AcceptedBytes'
    BY DEF IBase, AcceptedBytes, DocumentAccepted
  <2>2. CandidateBase'
    BY DEF IBase, CandidateBase
  <2>3. ReadBackBytes'
    BY DEF ReadBackBytes
  <2>4. PublishesOverBase'
    BY DEF PublishesOverBase
  <2> QED
    BY <2>1, <2>2, <2>3, <2>4 DEF IBase, RecordBlocks, NoSilentClobber
<1>17. CASE RemovePayload
  <2> USE <1>17 DEF RemovePayload, Goto
  <2>1. AcceptedBytes'
    BY DEF IBase, AcceptedBytes, DocumentAccepted
  <2>2. CandidateBase'
    BY DEF IBase, CandidateBase
  <2>3. ReadBackBytes'
    BY DEF ReadBackBytes
  <2>4. PublishesOverBase'
    BY DEF PublishesOverBase
  <2> QED
    BY <2>1, <2>2, <2>3, <2>4 DEF IBase, RecordBlocks, NoSilentClobber
<1>18. CASE RemoveJournal
  <2> USE <1>18 DEF RemoveJournal, Finish, End
  <2>1. RecordBlocks'
    BY DEF RecordBlocks
  <2>2. AcceptedBytes'
    BY DEF IType, TypeOK, TxTypeOK, TxShape, IBase, AcceptedBytes, DocumentAccepted
  <2>3. CandidateBase'
    BY DEF CandidateBase
  <2>4. ReadBackBytes'
    BY DEF ReadBackBytes
  <2>5. PublishesOverBase'
    BY DEF PublishesOverBase
  <2> QED
    BY <2>1, <2>2, <2>3, <2>4, <2>5 DEF IBase, NoSilentClobber
<1>19. CASE RecoverCapture
  <2> USE <1>19 DEF RecoverCapture, Goto, Finish, End
  <2>1. RecordBlocks'
    BY DEF IBase, RecordBlocks
  <2>2. AcceptedBytes'
    BY DEF IType, TypeOK, TxTypeOK, IBase, AcceptedBytes, CandidateBase, DocumentAccepted
  <2>3. CandidateBase'
    BY DEF IBase, CandidateBase
  <2>4. ReadBackBytes'
    BY DEF ReadBackBytes
  <2>5. PublishesOverBase'
    BY DEF PublishesOverBase
  <2> QED
    BY <2>1, <2>2, <2>3, <2>4, <2>5 DEF IBase, NoSilentClobber
<1>20. CASE WriteReplayTemp
  <2> USE <1>20 DEF WriteReplayTemp
  <2>1. RecordBlocks'
    BY DEF IBase, RecordBlocks
  <2>2. AcceptedBytes'
    BY DEF IBase, AcceptedBytes, DocumentAccepted
  <2>3. CandidateBase'
    BY DEF IBase, CandidateBase
  <2>4. ReadBackBytes'
    BY DEF ReadBackBytes
  <2>5. PublishesOverBase'
    BY DEF PublishesOverBase
  <2> QED
    BY <2>1, <2>2, <2>3, <2>4, <2>5 DEF IBase, NoSilentClobber
<1>21. CASE RemoveReplay
  <2> USE <1>21 DEF RemoveReplay, Finish, End
  <2>1. RecordBlocks'
    BY DEF IBase, RecordBlocks
  <2>2. AcceptedBytes'
    BY DEF IType, TypeOK, TxTypeOK, IBase, AcceptedBytes, CandidateBase, DocumentAccepted
  <2>3. CandidateBase'
    BY DEF CandidateBase
  <2>4. ReadBackBytes'
    BY DEF ReadBackBytes
  <2>5. PublishesOverBase'
    BY DEF PublishesOverBase
  <2> QED
    BY <2>1, <2>2, <2>3, <2>4, <2>5 DEF IBase, NoSilentClobber
<1>22. CASE ReloadRead
  <2> USE <1>22 DEF ReloadRead, End
  <2>1. RecordBlocks'
    BY DEF IBase, RecordBlocks
  <2>2. AcceptedBytes'
    BY DEF IType, TypeOK, TxTypeOK, IBase, AcceptedBytes, CandidateBase, DocumentAccepted
  <2>3. CandidateBase'
    BY DEF IBase, CandidateBase
  <2>4. ReadBackBytes'
    BY DEF ReadBackBytes
  <2>5. PublishesOverBase'
    BY DEF PublishesOverBase
  <2> QED
    BY <2>1, <2>2, <2>3, <2>4, <2>5 DEF IBase, NoSilentClobber
<1>23. CASE ReloadApply
  <2> USE <1>23 DEF ReloadApply, End
  <2>1. RecordBlocks'
    BY DEF IBase, RecordBlocks
  <2>2. AcceptedBytes'
    BY DEF AcceptedBytes
  <2>3. CandidateBase'
    BY DEF CandidateBase
  <2>4. ReadBackBytes'
    BY DEF ReadBackBytes
  <2>5. PublishesOverBase'
    BY DEF PublishesOverBase
  <2> QED
    BY <2>1, <2>2, <2>3, <2>4, <2>5 DEF IBase, NoSilentClobber
<1>24. CASE SaveThrows
  <2> USE <1>24 DEF SaveThrows, EvidenceLeft, Finish, End
  <2>1. RecordBlocks'
    BY DEF IBase, RecordBlocks
  <2>2. AcceptedBytes'
    BY DEF IBase, AcceptedBytes, DocumentAccepted
  <2>3. CandidateBase'
    BY DEF CandidateBase
  <2>4. ReadBackBytes'
    BY DEF ReadBackBytes
  <2>5. PublishesOverBase'
    BY DEF PublishesOverBase
  <2> QED
    BY <2>1, <2>2, <2>3, <2>4, <2>5 DEF IBase, NoSilentClobber
<1>25. CASE RecoverThrows
  <2> USE <1>25 DEF RecoverThrows, Finish, End
  <2>1. RecordBlocks'
    BY DEF IBase, RecordBlocks
  <2>2. AcceptedBytes'
    BY DEF IBase, AcceptedBytes, CandidateBase, DocumentAccepted
  <2>3. CandidateBase'
    BY DEF CandidateBase
  <2>4. ReadBackBytes'
    BY DEF ReadBackBytes
  <2>5. PublishesOverBase'
    BY DEF PublishesOverBase
  <2> QED
    BY <2>1, <2>2, <2>3, <2>4, <2>5 DEF IBase, NoSilentClobber
<1>26. CASE CleanupThrows
  <2> USE <1>26 DEF CleanupThrows, Finish, End
  <2>1. RecordBlocks'
    BY DEF RecordBlocks
  <2>2. AcceptedBytes'
    BY DEF AcceptedBytes, DocumentAccepted
  <2>3. CandidateBase'
    BY DEF CandidateBase
  <2>4. ReadBackBytes'
    BY DEF ReadBackBytes
  <2>5. PublishesOverBase'
    BY DEF PublishesOverBase
  <2> QED
    BY <2>1, <2>2, <2>3, <2>4, <2>5 DEF IBase, NoSilentClobber
<1>27. CASE CheckStart
  <2> USE <1>27 DEF CheckStart
  <2> QED
    BY DEF IBase, RecordBlocks, AcceptedBytes, CandidateBase, ReadBackBytes,
       PublishesOverBase, NoSilentClobber, DocumentAccepted
<1>28. CASE CheckRead
  <2> USE <1>28 DEF CheckRead, EndCheck
  <2> QED
    BY DEF IBase, RecordBlocks, AcceptedBytes, CandidateBase, ReadBackBytes,
       PublishesOverBase, NoSilentClobber, DocumentAccepted
<1>29. CASE CheckVerdict
  <2> USE <1>29 DEF CheckVerdict, LeftAlone, EndCheck
  <2>1. AcceptedBytes'
    BY DEF IBase, AcceptedBytes, DocumentAccepted
  <2>2. PublishesOverBase'
    BY DEF IBase, PublishesOverBase
  <2> QED
    BY <2>1, <2>2 DEF IBase, RecordBlocks, CandidateBase, ReadBackBytes, NoSilentClobber
<1>30. ASSUME NEW c \in Bodies, ForeignWrite(c) PROVE IBase'
  <2> USE <1>30 DEF ForeignWrite
  <2>1. PublishesOverBase'
    BY DEF PublishesOverBase
  <2> QED
    BY <2>1 DEF IBase, RecordBlocks, AcceptedBytes, CandidateBase, ReadBackBytes,
       NoSilentClobber, DocumentAccepted
<1>31. CASE ForeignRemove
  <2> USE <1>31 DEF ForeignRemove
  <2>1. PublishesOverBase'
    BY DEF PublishesOverBase
  <2> QED
    BY <2>1 DEF IBase, RecordBlocks, AcceptedBytes, CandidateBase, ReadBackBytes,
       NoSilentClobber, DocumentAccepted
<1>32. CASE OpenNeighbour
  <2> USE <1>32 DEF OpenNeighbour
  <2> QED
    BY DEF IBase, RecordBlocks, AcceptedBytes, CandidateBase, ReadBackBytes,
       PublishesOverBase, NoSilentClobber, DocumentAccepted
<1>33. CASE Crash
  <2> USE <1>33 DEF Crash, Closed
  <2>1. RecordBlocks'
    BY DEF RecordBlocks
  <2>2. AcceptedBytes'
    BY DEF AcceptedBytes, DocumentAccepted
  <2>3. CandidateBase'
    BY DEF CandidateBase
  <2>4. ReadBackBytes'
    BY DEF ReadBackBytes
  <2>5. PublishesOverBase'
    BY DEF PublishesOverBase
  <2> QED
    BY <2>1, <2>2, <2>3, <2>4, <2>5 DEF IBase, NoSilentClobber
<1>34. CASE UNCHANGED vars
  BY <1>34 DEF vars, IType, TypeOK, MemoryTypeOK, TxTypeOK, EnvTypeOK, TxShape, IBase,
     RecordBlocks, AcceptedBytes, CandidateBase, ReadBackBytes, PublishesOverBase,
     NoSilentClobber, DocumentAccepted
<1> QED
  BY <1>1, <1>2, <1>3, <1>4, <1>5, <1>6, <1>7, <1>8, <1>9, <1>10, <1>11, <1>12,
     <1>13, <1>14, <1>15, <1>16, <1>17, <1>18, <1>19, <1>20, <1>21, <1>22, <1>23, <1>24,
     <1>25, <1>26, <1>27, <1>28, <1>29, <1>30, <1>31, <1>32, <1>33, <1>34
     DEF Next, TxStep

-----------------------------------------------------------------------------
\* Before the note is opened there is no candidate and nothing was lost.
LEMMA BaseInit == Init => IBase
  BY DEF Init, IBase, RecordBlocks, AcceptedBytes, CandidateBase, ReadBackBytes,
         PublishesOverBase, NoSilentClobber, DocumentAccepted

\* Types and the base of every candidate hold together throughout.
LEMMA BaseInvariant == Spec => [](IType /\ IBase)
<1>1. Init => IType /\ IBase
  BY TypeInit, BaseInit
<1>2. IType /\ IBase /\ [Next]_vars => (IType /\ IBase)'
  BY TypeStep, BaseStep
<1> QED
  BY <1>1, <1>2, PTL DEF Spec

\* No save and no replayed recovery destroys bytes its candidate was not edited
\* from, outside the window between validation and rename and after a stale
\* check: for every interleaving of saves, recoveries, reloads, crashes and
\* foreign writes (saveLocked, recoverLocked, validateExpectedAndReplace).
THEOREM NeverClobbersSilently == Spec => []NoSilentClobber
<1>1. IType /\ IBase => NoSilentClobber
  BY DEF IBase
<1> QED
  BY BaseInvariant, <1>1, PTL

\* While nothing is being recovered, the accepted identity is that of the
\* revision the reader edits, or a stale check moved it (checkExternalChange).
THEOREM AcceptedFileIsDocument == Spec => []AcceptedIsDocument
<1>1. IType /\ IBase => AcceptedIsDocument
  BY DEF IType, TypeOK, TxTypeOK, TxShape, IBase, AcceptedBytes, DocumentAccepted,
         AcceptedIsDocument, SaveSteps, RecoverSteps, ReloadSteps, Stages,
         Unpublished, Published, CleanupSteps
<1> QED
  BY BaseInvariant, <1>1, PTL

-----------------------------------------------------------------------------

(***************************************************************************)
(* Why saving is blocked whenever evidence is left.                        *)
(***************************************************************************)
NoEvidence == journal = None /\ payloads = {}

\* A save starts from a clean slate, and so does a reload; nothing is written
\* before the payload.
StartsClean ==
    kind = "reload" \/ (kind = "save" /\ pc \in {"precondition", "payload"}) => NoEvidence

\* From its precondition on a save, and a recovery throughout, keeps saving
\* blocked.
TransactionBlocks ==
    kind = "recover" \/ (kind = "save" /\ pc # "precondition") => blocked

\* What a running transaction finds beside the file is its own.
OwnEvidence ==
    kind \in {"save", "recover"} =>
        /\ payloads \subseteq {PayloadOf(rec)}
        /\ journal # None => PayloadOf(journal) = PayloadOf(rec)

\* Once its payload is gone no candidate is left.
PayloadGone == pc = "remove-journal" => payloads = {}

IEvidence ==
    /\ StartsClean
    /\ TransactionBlocks
    /\ OwnEvidence
    /\ PayloadGone
    /\ OneRecord
    /\ EvidenceBlocks

-----------------------------------------------------------------------------
\* The payload file of a record is named after its attempt and its bytes: not
\* after the stage, the temp or what it recreates (recoveryPaths).
LEMMA PayloadKept ==
  ASSUME NEW r \in Record, NEW s, NEW t, NEW b
  PROVE  /\ PayloadOf([r EXCEPT !.stage = s]) = PayloadOf(r)
         /\ PayloadOf([r EXCEPT !.temp = t]) = PayloadOf(r)
         /\ PayloadOf([r EXCEPT !.recreate = b]) = PayloadOf(r)
  BY DEF PayloadOf, Record

\* The record a stage is journalled with has the payload of the candidate.
LEMMA StagedPayload ==
  ASSUME rec \in Record
  PROVE  PayloadOf(StagedRecord) = PayloadOf(rec)
  BY DEF PayloadOf, Record, StagedRecord

-----------------------------------------------------------------------------
\* Every step keeps the evidence and the block together: the store's own steps
\* in the order payload, journal, cleanup; a crash because what it leaves
\* blocks the next start.
LEMMA EvidenceStep == IType /\ IEvidence /\ [Next]_vars => IEvidence'
<1> SUFFICES ASSUME IType, IEvidence, [Next]_vars PROVE IEvidence'
  OBVIOUS
<1> USE ConstantsAssumption
    DEF Stages, Published, Unpublished, CleanupSteps, ReloadSteps,
        SaveSteps, RecoverSteps, diskVars, recVars, memVars, envVars, ghostVars,
        txVars, txData, checkVars
<1>0. kind \in {"save", "recover"} => rec \in Record
  BY DEF IType, TxShape
<1>1. CASE Open
  <2> USE <1>1 DEF Open
  <2> QED
    BY DEF IEvidence, StartsClean, IType, TxShape, TransactionBlocks, OwnEvidence,
       PayloadGone, OneRecord, EvidenceBlocks
<1>2. CASE Deliver
  <2> USE <1>2 DEF Deliver
  <2> QED
    BY DEF IEvidence, StartsClean, TransactionBlocks, OwnEvidence, PayloadGone, OneRecord,
       EvidenceBlocks, NoEvidence
<1>3. ASSUME NEW c \in Bodies, SaveStart(c) PROVE IEvidence'
  <2> USE <1>3 DEF SaveStart, MaySave, Begin
  <2>1. OwnEvidence'
    BY DEF IEvidence, OwnEvidence, EvidenceBlocks
  <2> QED
    BY <2>1
       DEF IEvidence, EvidenceBlocks, StartsClean, NoEvidence, TransactionBlocks,
           PayloadGone, OneRecord
<1>4. CASE RecoverStart
  <2> USE <1>4 DEF RecoverStart, Finish, End, Begin
  <2> QED
    BY DEF IEvidence, StartsClean, TransactionBlocks, OneRecord, OwnEvidence, PayloadGone,
       EvidenceBlocks
<1>5. CASE ReloadStart
  <2> USE <1>5 DEF ReloadStart, MaySave, Begin
  <2> QED
    BY DEF IEvidence, EvidenceBlocks, StartsClean, NoEvidence, TransactionBlocks,
       OwnEvidence, PayloadGone, OneRecord
<1>6. CASE SavePrecondition
  <2> USE <1>6 DEF SavePrecondition, Finish, End
  <2>1. OwnEvidence'
    BY <1>0, PayloadKept DEF IType, TxShape, IEvidence, StartsClean, OwnEvidence, NoEvidence
  <2>2. EvidenceBlocks'
    BY <1>0, PayloadKept
       DEF IType, TypeOK, TxTypeOK, TxShape, IEvidence, StartsClean, EvidenceBlocks,
           NoEvidence
  <2> QED
    BY <2>1, <2>2
       DEF IEvidence, StartsClean, NoEvidence, TransactionBlocks, PayloadGone, OneRecord
<1>7. CASE WritePayload
  <2> USE <1>7 DEF WritePayload, Goto
  <2>1. OneRecord'
    BY DEF IType, TypeOK, TxTypeOK, TxShape, IEvidence, OwnEvidence, OneRecord
  <2> QED
    BY <2>1
       DEF IEvidence, IType, TxShape, StartsClean, TransactionBlocks, OwnEvidence,
           PayloadGone, EvidenceBlocks
<1>8. CASE PersistStage
  <2> USE <1>8 DEF PersistStage, After
  <2>1. OwnEvidence'
    BY <1>0, StagedPayload DEF IEvidence, OwnEvidence
  <2>2. OneRecord'
    BY <1>0, StagedPayload
       DEF IType, TypeOK, TxTypeOK, TxShape, IEvidence, OwnEvidence, OneRecord
  <2> QED
    BY <2>1, <2>2
       DEF IEvidence, IType, TxShape, StartsClean, TransactionBlocks, PayloadGone,
           EvidenceBlocks
<1>9. CASE CreateTemp
  <2> USE <1>9 DEF CreateTemp, Goto
  <2> QED
    BY DEF IEvidence, StartsClean, NoEvidence, TransactionBlocks, OwnEvidence, PayloadGone,
       OneRecord, EvidenceBlocks
<1>10. CASE Validate
  <2> USE <1>10 DEF Validate, Conflict, Goto
  <2> QED
    BY DEF IEvidence, StartsClean, NoEvidence, TransactionBlocks, OwnEvidence, PayloadGone,
       OneRecord, EvidenceBlocks
<1>11. CASE Publish
  <2> USE <1>11 DEF Publish, Replace, Goto
  <2> QED
    BY DEF IEvidence, StartsClean, NoEvidence, TransactionBlocks, OwnEvidence, PayloadGone,
       OneRecord, EvidenceBlocks
<1>12. CASE Link
  <2> USE <1>12 DEF Link, Replace, Goto, Conflict
  <2> QED
    BY DEF IEvidence, StartsClean, NoEvidence, TransactionBlocks, OwnEvidence, PayloadGone,
       OneRecord, EvidenceBlocks
<1>13. CASE SyncDirectory
  <2> USE <1>13 DEF SyncDirectory, Goto
  <2> QED
    BY DEF IEvidence, StartsClean, NoEvidence, TransactionBlocks, OwnEvidence, PayloadGone,
       OneRecord, EvidenceBlocks
<1>14. CASE Readback
  <2> USE <1>14 DEF Readback
  <2> QED
    BY DEF IEvidence, StartsClean, NoEvidence, TransactionBlocks, OwnEvidence, PayloadGone,
       OneRecord, EvidenceBlocks
<1>15. CASE AcceptCandidate
  <2> USE <1>15 DEF AcceptCandidate
  <2>1. OwnEvidence'
    BY <1>0, StagedPayload DEF IEvidence, OwnEvidence
  <2>2. OneRecord'
    BY <1>0, StagedPayload
       DEF IType, TypeOK, TxTypeOK, TxShape, IEvidence, OwnEvidence, OneRecord
  <2> QED
    BY <2>1, <2>2
       DEF IEvidence, IType, TxShape, StartsClean, TransactionBlocks, PayloadGone,
           EvidenceBlocks
<1>16. CASE RemoveTemp
  <2> USE <1>16 DEF RemoveTemp, Goto
  <2> QED
    BY DEF IEvidence, StartsClean, NoEvidence, TransactionBlocks, OwnEvidence, PayloadGone,
       OneRecord, EvidenceBlocks
<1>17. CASE RemovePayload
  <2> USE <1>17 DEF RemovePayload, Goto
  <2>1. PayloadGone'
    BY DEF IType, TypeOK, TxTypeOK, TxShape, IEvidence, OwnEvidence, PayloadGone
  <2> QED
    BY <2>1
       DEF IEvidence, StartsClean, NoEvidence, TransactionBlocks, OwnEvidence, OneRecord,
           EvidenceBlocks
<1>18. CASE RemoveJournal
  <2> USE <1>18 DEF RemoveJournal, Finish, End
  <2> QED
    BY DEF IEvidence, StartsClean, TransactionBlocks, OwnEvidence, PayloadGone, OneRecord,
       EvidenceBlocks
<1>19. CASE RecoverCapture
  <2> USE <1>19 DEF RecoverCapture, Goto, Finish, End
  <2>1. EvidenceBlocks'
    BY DEF IType, TypeOK, TxTypeOK, TxShape, IEvidence, TransactionBlocks, EvidenceBlocks
  <2> QED
    BY <2>1
       DEF IEvidence, StartsClean, NoEvidence, TransactionBlocks, OwnEvidence, PayloadGone,
           OneRecord
<1>20. CASE WriteReplayTemp
  <2> USE <1>20 DEF WriteReplayTemp
  <2>1. OwnEvidence'
    BY <1>0, PayloadKept DEF IEvidence, OwnEvidence
  <2> QED
    BY <2>1
       DEF IEvidence, StartsClean, NoEvidence, TransactionBlocks, PayloadGone, OneRecord,
           EvidenceBlocks
<1>21. CASE RemoveReplay
  <2> USE <1>21 DEF RemoveReplay, Finish, End
  <2>1. EvidenceBlocks'
    BY DEF IType, TypeOK, TxTypeOK, TxShape, IEvidence, TransactionBlocks, EvidenceBlocks
  <2> QED
    BY <2>1
       DEF IEvidence, StartsClean, TransactionBlocks, OwnEvidence, PayloadGone, OneRecord
<1>22. CASE ReloadRead
  <2> USE <1>22 DEF ReloadRead, End
  <2>1. EvidenceBlocks'
    BY DEF IType, TypeOK, TxTypeOK, TxShape, IEvidence, StartsClean, EvidenceBlocks,
       NoEvidence
  <2> QED
    BY <2>1
       DEF IEvidence, StartsClean, NoEvidence, TransactionBlocks, OwnEvidence, PayloadGone,
           OneRecord
<1>23. CASE ReloadApply
  <2> USE <1>23 DEF ReloadApply, End
  <2>1. EvidenceBlocks'
    BY DEF IType, TypeOK, TxTypeOK, TxShape, IEvidence, StartsClean, EvidenceBlocks,
       NoEvidence
  <2> QED
    BY <2>1
       DEF IEvidence, StartsClean, TransactionBlocks, OwnEvidence, PayloadGone, OneRecord
<1>24. CASE SaveThrows
  <2> USE <1>24 DEF SaveThrows, Throws, EvidenceLeft, Finish, End
  <2>1. OneRecord'
    BY <1>0, StagedPayload DEF IEvidence, OwnEvidence, OneRecord
  <2>2. EvidenceBlocks'
    BY <1>0, StagedPayload
       DEF IEvidence, StartsClean, TransactionBlocks, OwnEvidence, EvidenceBlocks,
           NoEvidence
  <2> QED
    BY <2>1, <2>2
       DEF IEvidence, StartsClean, NoEvidence, TransactionBlocks, OwnEvidence, PayloadGone
<1>25. CASE RecoverThrows
  <2> USE <1>25 DEF RecoverThrows, Throws, Finish, End
  <2>1. OneRecord'
    BY <1>0, StagedPayload DEF IEvidence, OwnEvidence, OneRecord
  <2> QED
    BY <2>1
       DEF IEvidence, StartsClean, TransactionBlocks, OwnEvidence, PayloadGone,
           EvidenceBlocks
<1>26. CASE CleanupThrows
  <2> USE <1>26 DEF CleanupThrows, Finish, End
  <2> QED
    BY DEF IEvidence, StartsClean, TransactionBlocks, OwnEvidence, PayloadGone, OneRecord,
       EvidenceBlocks
<1>27. CASE CheckStart
  <2> USE <1>27 DEF CheckStart
  <2> QED
    BY DEF IEvidence, StartsClean, TransactionBlocks, OwnEvidence, PayloadGone, OneRecord,
       EvidenceBlocks, NoEvidence
<1>28. CASE CheckRead
  <2> USE <1>28 DEF CheckRead, EndCheck
  <2> QED
    BY DEF IEvidence, StartsClean, TransactionBlocks, OwnEvidence, PayloadGone, OneRecord,
       EvidenceBlocks, NoEvidence
<1>29. CASE CheckVerdict
  <2> USE <1>29 DEF CheckVerdict, EndCheck
  <2> QED
    BY DEF IEvidence, StartsClean, TransactionBlocks, OwnEvidence, PayloadGone, OneRecord,
       EvidenceBlocks, NoEvidence
<1>30. ASSUME NEW c \in Bodies, ForeignWrite(c) PROVE IEvidence'
  <2> USE <1>30 DEF ForeignWrite
  <2> QED
    BY DEF IEvidence, StartsClean, TransactionBlocks, OwnEvidence, PayloadGone, OneRecord,
       EvidenceBlocks, NoEvidence
<1>31. CASE ForeignRemove
  <2> USE <1>31 DEF ForeignRemove
  <2> QED
    BY DEF IEvidence, StartsClean, TransactionBlocks, OwnEvidence, PayloadGone, OneRecord,
       EvidenceBlocks, NoEvidence
<1>32. CASE OpenNeighbour
  <2> USE <1>32 DEF OpenNeighbour
  <2> QED
    BY DEF IEvidence, StartsClean, TransactionBlocks, OwnEvidence, PayloadGone, OneRecord,
       EvidenceBlocks, NoEvidence
<1>33. CASE Crash
  <2> USE <1>33 DEF Crash, Closed
  <2> QED
    BY DEF IEvidence, StartsClean, TransactionBlocks, OwnEvidence, PayloadGone, OneRecord,
       EvidenceBlocks
<1>34. CASE UNCHANGED vars
  BY <1>34
     DEF vars, IEvidence, StartsClean, TransactionBlocks, OwnEvidence, PayloadGone,
         OneRecord, EvidenceBlocks, NoEvidence
<1> QED
  BY <1>1, <1>2, <1>3, <1>4, <1>5, <1>6, <1>7, <1>8, <1>9, <1>10, <1>11, <1>12, <1>13,
     <1>14, <1>15, <1>16, <1>17, <1>18, <1>19, <1>20, <1>21, <1>22, <1>23, <1>24, <1>25,
     <1>26, <1>27, <1>28, <1>29, <1>30, <1>31, <1>32, <1>33, <1>34
     DEF Next, TxStep

-----------------------------------------------------------------------------
\* Before the note is opened nothing lies beside it.
LEMMA EvidenceInit == Init => IEvidence
  BY DEF Init, IEvidence, StartsClean, TransactionBlocks, OwnEvidence, PayloadGone,
     OneRecord, EvidenceBlocks

\* Types and evidence hold together throughout.
LEMMA EvidenceInvariant == Spec => [](IType /\ IEvidence)
<1>1. Init => IType /\ IEvidence
  BY TypeInit, EvidenceInit
<1>2. IType /\ IEvidence /\ [Next]_vars => (IType /\ IEvidence)'
  BY TypeStep, EvidenceStep
<1> QED
  BY <1>1, <1>2, PTL DEF Spec

\* While any journal or payload of an unfinished save is left, saving stays
\* blocked: after every failed step, failed cleanup, crash and restart
\* (recoveryBlocked in saveLocked, recoverLocked and open).
THEOREM EvidenceBlocksSaving == Spec => []EvidenceBlocks
<1>1. IType /\ IEvidence => EvidenceBlocks
  BY DEF IEvidence
<1> QED
  BY EvidenceInvariant, <1>1, PTL

\* There is never more than one candidate to recover, and a journal describes
\* that one or finds it gone (recoveryPaths, persistJournal).
THEOREM OneCandidateToRecover == Spec => []OneRecord
<1>1. IType /\ IEvidence => OneRecord
  BY DEF IEvidence
<1> QED
  BY EvidenceInvariant, <1>1, PTL

-----------------------------------------------------------------------------
(***************************************************************************)
(* Why a save is a compare-and-replace.                                    *)
(***************************************************************************)
InFlight == kind \in {"save", "recover"}

\* Only a finished candidate is answered "saved", and a recovery cleans up
\* after nothing else.
Replies ==
    /\ InFlight /\ reply = "saved" => pc \in CleanupSteps
    /\ kind = "recover" /\ pc \in CleanupSteps => reply = "saved"

\* The candidate's bytes stay beside the file until the cleanup removes them.
PayloadStays ==
    InFlight /\ pc \notin {"precondition", "payload", "remove-journal"} =>
        PayloadOf(rec) \in payloads

\* From its first stage on the journal holds the record of the transaction.
Journalled ==
    /\ kind = "save" /\ pc = "candidate-durable" => journal = None
    /\ kind = "recover" \/ (kind = "save" /\ pc \notin {"precondition", "payload", "candidate-durable"}) =>
           /\ journal # None
           /\ journal.body = rec.body /\ journal.accepted = rec.accepted
           /\ journal.recreate = rec.recreate /\ journal.stage = rec.stage

\* A candidate is linked onto a missing path only when its record says so.
Recreates ==
    /\ kind = "save" /\ pc # "precondition" => recreating = rec.recreate
    /\ kind = "recover" /\ recreating => rec.recreate
    /\ pc = "link" => recreating

\* Until the replacement is journalled, the record names an earlier stage.
StageSoFar ==
    /\ pc \in {"capture", "replay-temp", "validate", "publish", "link", "replacement-complete"} =>
           rec.stage \in Unpublished
    /\ pc = "sync" => rec.stage = "replacement-complete"

\* A power loss can undo nothing but a replacement still to be synced, which
\* its journal tells of.
Unsynced ==
    disk # platter =>
        /\ journal # None /\ journal.stage \in Unpublished \cup {"replacement-complete"}
        /\ kind = "save" => pc \in {"replacement-complete", "sync"}
        /\ pc \notin CleanupSteps \cup {"readback", "replacement-verified", "journal-complete"}

IPlace ==
    /\ Replies
    /\ PayloadStays
    /\ Journalled
    /\ Recreates
    /\ StageSoFar
    /\ Unsynced

\* A stage changes nothing else of the record (persistJournal),
LEMMA StagedFields ==
  ASSUME rec \in Record, pc \in Stages
  PROVE  /\ StagedRecord \in Record /\ StagedRecord.stage = pc
         /\ StagedRecord.body = rec.body /\ StagedRecord.accepted = rec.accepted
         /\ StagedRecord.recreate = rec.recreate
  BY StagedRecordType DEF Record, StagedRecord

\* a save that turns into a recreation says so in it (saveLocked),
LEMMA RecreateFields ==
  ASSUME NEW r \in Record, NEW b \in BOOLEAN
  PROVE  [r EXCEPT !.recreate = b].recreate = b
  BY DEF Record

\* and a replay only gives its temp another name (recoverLocked).
LEMMA ReplayFields ==
  ASSUME NEW r \in Record
  PROVE  LET s == [r EXCEPT !.temp = Replay] IN
         /\ s.stage = r.stage /\ s.body = r.body
         /\ s.accepted = r.accepted /\ s.recreate = r.recreate
  BY DEF Record

-----------------------------------------------------------------------------
\* Every step keeps the record, its payload and its journal in step with the
\* file: the replacement is journalled, then synced, then read back.
LEMMA PlaceStep == IType /\ IEvidence /\ IPlace /\ [Next]_vars => IPlace'
<1> SUFFICES ASSUME IType, IEvidence, IPlace, [Next]_vars PROVE IPlace'
  OBVIOUS
<1> USE ConstantsAssumption
    DEF Stages, Published, Unpublished, CleanupSteps, ReloadSteps,
        SaveSteps, RecoverSteps, diskVars, recVars, memVars, envVars, ghostVars,
        txVars, txData, checkVars
<1>0. kind \in {"save", "recover"} => rec \in Record
  BY DEF IType, TxShape
<1>1. CASE Open
  <2> USE <1>1 DEF Open
  <2> QED
    BY DEF IPlace, Replies, InFlight, PayloadStays, Journalled, Recreates, StageSoFar,
       Unsynced
<1>2. CASE Deliver
  <2> USE <1>2 DEF Deliver
  <2> QED
    BY DEF IPlace, Replies, PayloadStays, Journalled, Recreates, StageSoFar, Unsynced,
       InFlight
<1>3. ASSUME NEW c \in Bodies, SaveStart(c) PROVE IPlace'
  <2> USE <1>3 DEF SaveStart, MaySave, Begin
  <2>1. Unsynced'
    BY DEF IEvidence, EvidenceBlocks, IPlace, Unsynced
  <2> QED
    BY <2>1 DEF IPlace, Replies, PayloadStays, Journalled, Recreates, StageSoFar
<1>4. CASE RecoverStart
  <2> USE <1>4 DEF RecoverStart, Finish, End, Begin
  <2> QED
    BY DEF IPlace, Replies, InFlight, PayloadStays, Journalled, Recreates, StageSoFar,
       Unsynced
<1>5. CASE ReloadStart
  <2> USE <1>5 DEF ReloadStart, MaySave, Begin
  <2> QED
    BY DEF IPlace, Replies, InFlight, PayloadStays, Journalled, Recreates, StageSoFar,
       Unsynced
<1>6. CASE SavePrecondition
  <2> USE <1>6 DEF SavePrecondition, Finish, End
  <2>1. Journalled'
    BY <1>0, PayloadKept, RecreateFields DEF IType, TxShape, Journalled
  <2>2. Recreates'
    BY <1>0, PayloadKept, RecreateFields DEF IPlace, Recreates
  <2> QED
    BY <2>1, <2>2 DEF IPlace, Replies, InFlight, PayloadStays, StageSoFar, Unsynced
<1>7. CASE WritePayload
  <2> USE <1>7 DEF WritePayload, Goto
  <2>1. Journalled'
    BY DEF IEvidence, StartsClean, NoEvidence, IPlace, Journalled
  <2> QED
    BY <2>1 DEF IPlace, Replies, InFlight, PayloadStays, Recreates, StageSoFar, Unsynced
<1>8. CASE PersistStage
  <2> USE <1>8 DEF PersistStage, After
  <2>1. Replies'
    BY DEF IPlace, Replies, InFlight
  <2>2. PayloadStays'
    BY <1>0, StagedPayload, StagedFields, AbsenceAssumption
       DEF IPlace, PayloadStays, InFlight
  <2>3. Journalled'
    BY <1>0, StagedPayload, StagedFields, AbsenceAssumption DEF IPlace, Journalled
  <2>4. Recreates'
    BY <1>0, StagedPayload, StagedFields, AbsenceAssumption DEF IPlace, Recreates
  <2>5. StageSoFar'
    BY <1>0, StagedPayload, StagedFields, AbsenceAssumption
       DEF IType, TypeOK, TxTypeOK, TxShape, StageSoFar
  <2>6. Unsynced'
    BY <1>0, StagedPayload, StagedFields, AbsenceAssumption
       DEF IType, TypeOK, TxTypeOK, TxShape, IPlace, Unsynced
  <2> QED
    BY <2>1, <2>2, <2>3, <2>4, <2>5, <2>6 DEF IPlace
<1>9. CASE CreateTemp
  <2> USE <1>9 DEF CreateTemp, Goto
  <2> QED
    BY DEF IPlace, Replies, InFlight, PayloadStays, Journalled, Recreates, StageSoFar,
       Unsynced
<1>10. CASE Validate
  <2> USE <1>10 DEF Validate, Conflict, Goto
  <2>1. Recreates'
    <3>1. recreating' = recreating /\ rec' = rec /\ kind' = kind
      BY DEF Goto
    <3>2. pc' # "link" /\ pc # "precondition"
      BY DEF Goto
    <3> QED
      BY <3>1, <3>2 DEF IPlace, Recreates
  <2> QED
    BY <2>1 DEF IPlace, Replies, InFlight, PayloadStays, Journalled, StageSoFar, Unsynced
<1>11. CASE Publish
  <2> USE <1>11 DEF Publish, Replace, Goto
  <2>1. Unsynced'
    BY DEF IType, TypeOK, TxTypeOK, TxShape, IPlace, Journalled, StageSoFar, Unsynced
  <2> QED
    BY <2>1 DEF IPlace, Replies, InFlight, PayloadStays, Journalled, Recreates, StageSoFar
<1>12. CASE Link
  <2> USE <1>12 DEF Link, Replace, Goto, Conflict
  <2>1. Unsynced'
    BY DEF IType, TypeOK, TxTypeOK, TxShape, IPlace, Journalled, StageSoFar, Unsynced
  <2> QED
    BY <2>1 DEF IPlace, Replies, InFlight, PayloadStays, Journalled, Recreates, StageSoFar
<1>13. CASE SyncDirectory
  <2> USE <1>13 DEF SyncDirectory, Goto, Synced
  <2> QED
    BY DEF IPlace, Replies, InFlight, PayloadStays, Journalled, Recreates, StageSoFar,
       Unsynced
<1>14. CASE Readback
  <2> USE <1>14 DEF Readback
  <2> QED
    BY DEF IPlace, Replies, InFlight, PayloadStays, Journalled, Recreates, StageSoFar,
       Unsynced
<1>15. CASE AcceptCandidate
  <2> USE <1>15 DEF AcceptCandidate
  <2>1. PayloadStays'
    BY <1>0, StagedPayload, StagedFields, AbsenceAssumption
       DEF IPlace, PayloadStays, InFlight
  <2>2. Journalled'
    BY <1>0, StagedPayload, StagedFields, AbsenceAssumption DEF IPlace, Journalled
  <2>3. Recreates'
    BY <1>0, StagedPayload, StagedFields, AbsenceAssumption DEF IPlace, Recreates
  <2> QED
    BY <2>1, <2>2, <2>3 DEF IPlace, Replies, InFlight, StageSoFar, Unsynced
<1>16. CASE RemoveTemp
  <2> USE <1>16 DEF RemoveTemp, Goto
  <2> QED
    BY DEF IPlace, Replies, InFlight, PayloadStays, Journalled, Recreates, StageSoFar,
       Unsynced
<1>17. CASE RemovePayload
  <2> USE <1>17 DEF RemovePayload, Goto
  <2> QED
    BY DEF IPlace, Replies, PayloadStays, Journalled, Recreates, StageSoFar, Unsynced
<1>18. CASE RemoveJournal
  <2> USE <1>18 DEF RemoveJournal, Finish, End
  <2> QED
    BY DEF IPlace, Replies, InFlight, PayloadStays, Journalled, Recreates, StageSoFar,
       Unsynced
<1>19. CASE RecoverCapture
  <2> USE <1>19 DEF RecoverCapture, Goto, Finish, End
  <2>1. Recreates'
    BY DEF IType, TypeOK, TxTypeOK, TxShape, IPlace, Recreates
  <2> QED
    BY <2>1 DEF IPlace, Replies, InFlight, PayloadStays, Journalled, StageSoFar, Unsynced
<1>20. CASE WriteReplayTemp
  <2> USE <1>20 DEF WriteReplayTemp
  <2>1. PayloadStays'
    BY <1>0, PayloadKept, ReplayFields DEF IPlace, PayloadStays, InFlight
  <2> QED
    BY <2>1 DEF IPlace, Replies, InFlight, Journalled, Recreates, StageSoFar, Unsynced
<1>21. CASE RemoveReplay
  <2> USE <1>21 DEF RemoveReplay, Finish, End
  <2> QED
    BY DEF IPlace, Replies, InFlight, PayloadStays, Journalled, Recreates, StageSoFar,
       Unsynced
<1>22. CASE ReloadRead
  <2> USE <1>22 DEF ReloadRead, End
  <2> QED
    BY DEF IPlace, Replies, InFlight, PayloadStays, Journalled, Recreates, StageSoFar,
       Unsynced
<1>23. CASE ReloadApply
  <2> USE <1>23 DEF ReloadApply, End
  <2> QED
    BY DEF IPlace, Replies, InFlight, PayloadStays, Journalled, Recreates, StageSoFar,
       Unsynced
<1>24. CASE SaveThrows
  <2> USE <1>24 DEF SaveThrows, Throws, EvidenceLeft, Finish, End
  <2>1. Unsynced'
    BY <1>0, StagedPayload, StagedFields, AbsenceAssumption DEF IPlace, Unsynced
  <2> QED
    BY <2>1 DEF IPlace, Replies, InFlight, PayloadStays, Journalled, Recreates, StageSoFar
<1>25. CASE RecoverThrows
  <2> USE <1>25 DEF RecoverThrows, Throws, Finish, End
  <2>1. Unsynced'
    BY <1>0, StagedPayload, StagedFields, AbsenceAssumption DEF IPlace, Unsynced
  <2> QED
    BY <2>1 DEF IPlace, Replies, InFlight, PayloadStays, Journalled, Recreates, StageSoFar
<1>26. CASE CleanupThrows
  <2> USE <1>26 DEF CleanupThrows, Finish, End
  <2> QED
    BY DEF IPlace, Replies, InFlight, PayloadStays, Journalled, Recreates, StageSoFar,
       Unsynced
<1>27. CASE CheckStart
  <2> USE <1>27 DEF CheckStart
  <2> QED
    BY DEF IPlace, Replies, PayloadStays, Journalled, Recreates, StageSoFar, Unsynced,
       InFlight
<1>28. CASE CheckRead
  <2> USE <1>28 DEF CheckRead, EndCheck
  <2> QED
    BY DEF IPlace, Replies, PayloadStays, Journalled, Recreates, StageSoFar, Unsynced,
       InFlight
<1>29. CASE CheckVerdict
  <2> USE <1>29 DEF CheckVerdict, EndCheck
  <2> QED
    BY DEF IPlace, Replies, PayloadStays, Journalled, Recreates, StageSoFar, Unsynced,
       InFlight
<1>30. ASSUME NEW c \in Bodies, ForeignWrite(c) PROVE IPlace'
  <2> USE <1>30 DEF ForeignWrite
  <2> QED
    BY DEF IPlace, Replies, InFlight, PayloadStays, Journalled, Recreates, StageSoFar,
       Unsynced
<1>31. CASE ForeignRemove
  <2> USE <1>31 DEF ForeignRemove
  <2> QED
    BY DEF IPlace, Replies, InFlight, PayloadStays, Journalled, Recreates, StageSoFar,
       Unsynced
<1>32. CASE OpenNeighbour
  <2> USE <1>32 DEF OpenNeighbour
  <2> QED
    BY DEF IPlace, Replies, PayloadStays, Journalled, Recreates, StageSoFar, Unsynced,
       InFlight
<1>33. CASE Crash
  <2> USE <1>33 DEF Crash, Closed
  <2> QED
    BY DEF IPlace, Replies, InFlight, PayloadStays, Journalled, Recreates, StageSoFar,
       Unsynced
<1>34. CASE UNCHANGED vars
  BY <1>34
     DEF vars, IPlace, Replies, PayloadStays, Journalled, Recreates, StageSoFar, Unsynced,
         InFlight
<1> QED
  BY <1>1, <1>2, <1>3, <1>4, <1>5, <1>6, <1>7, <1>8, <1>9, <1>10, <1>11, <1>12, <1>13,
     <1>14, <1>15, <1>16, <1>17, <1>18, <1>19, <1>20, <1>21, <1>22, <1>23, <1>24, <1>25,
     <1>26, <1>27, <1>28, <1>29, <1>30, <1>31, <1>32, <1>33, <1>34
     DEF Next, TxStep

-----------------------------------------------------------------------------
\* Before the note is opened the file is on disk for good.
LEMMA PlaceInit == Init => IPlace
  BY DEF Init, IPlace, Replies, PayloadStays, Journalled, Recreates, StageSoFar, Unsynced,
     InFlight

(***************************************************************************)
(* What the store's state says of a guarded file.                          *)
(***************************************************************************)
\* How far a candidate is, by the step its transaction takes next.
PhaseAt ==
    /\ Offering => up /\ rec \in Record /\ Offered = rec.body /\ rec.body \in Bodies
    /\ ~Offering => Phase = "none" /\ Offered = None
    /\ Offering /\ pc \in Unpublished \cup {"payload", "temp", "validate", "link", "capture",
                                           "replay-temp", "remove-replay"} => Phase = "offered"
    /\ pc = "publish" => Phase = "looked"
    /\ pc \in {"replacement-complete", "sync", "readback"} => Phase = "placed"
    /\ pc \in {"replacement-verified", "journal-complete"} => Phase = "confirmed"
    /\ pc \in CleanupSteps =>
           IF reply = "saved" THEN Phase = "confirmed" ELSE kind = "save" /\ Phase = "refused"
    /\ pc \in SaveSteps \cup RecoverSteps => Offering \/ pc = "precondition"

\* What it may replace, until it has.
GuardAt ==
    /\ Phase \in {"offered", "looked"} =>
           Guard = [over |-> Expected, creates |-> rec.recreate,
                    misled |-> kind = "save" /\ misrebased]
    /\ Phase \notin {"offered", "looked"} => Guard = None
    /\ Phase \in {"offered", "looked"} => Guard \in Guarded!Guards

\* What is kept: the candidate, between its first stage and the cleanup.
KeptAt ==
    /\ InFlight /\ pc \notin {"precondition", "payload", "candidate-durable", "remove-journal"} =>
           Kept # None /\ Kept.body = rec.body /\ Kept.creates = rec.recreate /\ Kept.over = rec.accepted
    /\ kind = "save" /\ pc \in {"precondition", "payload", "candidate-durable"} => Kept = None
    /\ pc = "remove-journal" => Kept = None

Mapped == PhaseAt /\ GuardAt /\ KeptAt

\* The mapped state follows the step the transaction takes next.
LEMMA MappedFollows == IType /\ IEvidence /\ IPlace => Mapped
<1> SUFFICES ASSUME IType, IEvidence, IPlace PROVE Mapped
  OBVIOUS
<1> USE DEF CleanupSteps, Stages, Published, Unpublished, ReloadSteps, SaveSteps, RecoverSteps
<1>1. PhaseAt
  <2>1. Offering => up /\ rec \in Record /\ Offered = rec.body /\ rec.body \in Bodies
    BY RecordFields DEF IType, TxShape, Offering, Offered
  <2>2. ~Offering => Phase = "none" /\ Offered = None
    BY DEF Phase, Offered
  <2>3. pc \in SaveSteps \cup RecoverSteps => Offering \/ pc = "precondition"
    BY DEF IType, TypeOK, TxTypeOK, TxShape, Offering
  <2>4. Offering /\ pc \notin CleanupSteps => reply # "saved"
    BY DEF IPlace, Replies, InFlight, Offering
  <2>5. Offering /\ pc \in CleanupSteps /\ reply # "saved" => kind = "save"
    BY DEF IPlace, Replies, Offering
  <2>6. Offering /\ pc \in Unpublished \cup {"payload", "temp", "validate", "link", "capture",
                                             "replay-temp", "remove-replay"} => Phase = "offered"
    BY <2>4 DEF Phase
  <2>7. pc = "publish" => Phase = "looked"
    BY <2>3, <2>4 DEF Phase
  <2>8. pc \in {"replacement-complete", "sync", "readback"} => Phase = "placed"
    BY <2>3, <2>4 DEF Phase
  <2>9. pc \in {"replacement-verified", "journal-complete"} => Phase = "confirmed"
    BY <2>3 DEF Phase
  <2>10. pc \in CleanupSteps =>
           IF reply = "saved" THEN Phase = "confirmed" ELSE kind = "save" /\ Phase = "refused"
    BY <2>3, <2>5 DEF Phase
  <2> QED
    BY <2>1, <2>2, <2>3, <2>6, <2>7, <2>8, <2>9, <2>10 DEF PhaseAt
<1>2. GuardAt
  <2>1. ASSUME Phase \in {"offered", "looked"}
        PROVE  [over |-> Expected, creates |-> rec.recreate,
                misled |-> kind = "save" /\ misrebased] \in Guarded!Guards
    <3>1. Offering
      BY <2>1, <1>1 DEF PhaseAt
    <3>2. Expected \in Version /\ rec.recreate \in BOOLEAN
      BY <3>1, <1>1 DEF PhaseAt, IType, TxShape, Expected, Record
    <3> QED
      BY <3>2 DEF Guarded!Guards, Guarded!Version, Version
  <2> QED
    BY <2>1 DEF GuardAt, Guard
<1>3. KeptAt
  <2>1. InFlight /\ pc \notin {"precondition", "payload", "candidate-durable", "remove-journal"} =>
          Kept # None /\ Kept.body = rec.body /\ Kept.creates = rec.recreate /\ Kept.over = rec.accepted
    <3> SUFFICES ASSUME InFlight, pc \notin {"precondition", "payload", "candidate-durable", "remove-journal"}
                 PROVE  Kept # None /\ Kept.body = rec.body /\ Kept.creates = rec.recreate /\ Kept.over = rec.accepted
      OBVIOUS
    <3>1. rec \in Record
      BY DEF InFlight, IType, TxShape
    <3>2. journal # None /\ PayloadOf(journal) \in payloads
      BY DEF InFlight, IEvidence, OwnEvidence, IPlace, Journalled, PayloadStays
    <3>3. Kept = [body |-> rec.body, over |-> rec.accepted, creates |-> rec.recreate]
      BY <3>2 DEF Kept, InFlight, IPlace, Journalled
    <3>4. Kept \in [body : Bodies, over : Version, creates : BOOLEAN]
      BY <3>1, <3>3 DEF Record
    <3> QED
      BY <3>3, <3>4, CandidateAssumption
  <2>2. kind = "save" /\ pc \in {"precondition", "payload", "candidate-durable"} => Kept = None
    BY DEF IEvidence, StartsClean, NoEvidence, IPlace, Journalled, Kept
  <2>3. pc = "remove-journal" => Kept = None
    BY DEF IEvidence, PayloadGone, Kept
  <2> QED
    BY <2>1, <2>2, <2>3 DEF KeptAt
<1> QED
  BY <1>1, <1>2, <1>3 DEF Mapped

(***************************************************************************)
(* Steps that only hand the candidate on, drop it, or leave it alone.      *)
(***************************************************************************)
\* The bytes and the guard of the candidate in flight stay what they are.
SameCandidate ==
    /\ Offering /\ Offering' /\ kind' = kind
    /\ rec'.body = rec.body /\ rec'.accepted = rec.accepted /\ rec'.recreate = rec.recreate

\* Neither the accepted revision nor what is known of it moves.
SameAccepted == accepted' = accepted /\ misrebased' = misrebased

\* The guard is the accepted revision, or the record's.
LEMMA GuardStays ==
  ASSUME Mapped, Mapped', SameCandidate, SameAccepted,
         Phase \in {"offered", "looked"}, Phase' \in {"offered", "looked"}
  PROVE  Guard' = Guard
<1>1. Expected' = Expected
  BY DEF Expected, SameCandidate, SameAccepted
<1> QED
  BY <1>1 DEF Mapped, GuardAt, SameCandidate, SameAccepted

\* A step on the way of a candidate that changes neither the file nor what is
\* kept is no step of the guarded file.
LEMMA CandidateHandedOn ==
  ASSUME Mapped, Mapped', SameCandidate, SameAccepted, Phase' = Phase, Kept' = Kept,
         disk' = disk, platter' = platter, outcome' = outcome
  PROVE  UNCHANGED Guarded!guarded
<1>1. Offered' = Offered
  BY DEF Mapped, PhaseAt, SameCandidate
<1>2. Guard' = Guard
  BY GuardStays DEF Mapped, GuardAt
<1> QED
  BY <1>1, <1>2 DEF Guarded!guarded

\* While nothing is offered, an answer is all a step can give.
LEMMA NothingOffered ==
  ASSUME Mapped, Mapped', ~Offering, ~Offering', Kept' = Kept,
         disk' = disk, platter' = platter, outcome' = outcome \/ outcome' # "saved"
  PROVE  Guarded!Next \/ UNCHANGED Guarded!guarded
<1>1. Phase = "none" /\ Phase' = "none" /\ Guard = None /\ Guard' = None /\ Offered = None /\ Offered' = None
  BY DEF Mapped, PhaseAt, GuardAt
<1>2. CASE outcome' = outcome
  BY <1>1, <1>2 DEF Guarded!guarded
<1>3. CASE outcome' # "saved"
  <2>1. Guarded!Answer
    BY <1>1, <1>3 DEF Guarded!Answer
  <2> QED
    BY <2>1 DEF Guarded!Next
<1> QED
  BY <1>2, <1>3

\* A candidate that is dropped leaves behind what was kept, or itself.
LEMMA CandidateDropped ==
  ASSUME Mapped, Mapped', ~Offering', disk' = disk, platter' = platter, outcome' # "saved",
         Kept' = Kept \/ (Phase = "offered" /\ Kept' # None /\ Kept'.body = Offered
                          /\ Kept'.creates = Guard.creates)
  PROVE  Guarded!Next
<1>1. Phase' = "none" /\ Guard' = None /\ Offered' = None
  BY DEF Mapped, PhaseAt, GuardAt
<1>2. Guarded!Abandon
  BY <1>1 DEF Guarded!Abandon
<1> QED
  BY <1>2 DEF Guarded!Next

-----------------------------------------------------------------------------
\* Before the note is opened the file is as it was found.
LEMMA RefinesInit == Init => Guarded!Init
  BY ConstantsAssumption
     DEF Init, Guarded!Init, Guarded!Version, Offering, Offered, Phase, Guard, Kept

\* Every step of the store is a step of the guarded file or none.
LEMMA RefinesStep ==
  ASSUME IType, IEvidence, IPlace, Mapped, Mapped', [Next]_vars
  PROVE  Guarded!Next \/ UNCHANGED Guarded!guarded
<1> USE ConstantsAssumption
    DEF Stages, Published, Unpublished, CleanupSteps, ReloadSteps,
        SaveSteps, RecoverSteps, diskVars, recVars, memVars, envVars, ghostVars,
        txVars, txData, checkVars
<1>k. journal' = journal /\ payloads' = payloads => Kept' = Kept
  BY DEF Kept, PayloadOf
<1>1. CASE Open
  <2> USE <1>1 DEF Open
  <2>1. ~Offering /\ ~Offering'
    BY DEF IType, TxShape, Offering
  <2> QED
    BY <2>1, <1>k, NothingOffered
<1>2. CASE Deliver
  <2> USE <1>2 DEF Deliver
  <2> QED
    BY DEF Guarded!guarded, Offered, Phase, Offering, Guard, Expected, Kept
<1>3. ASSUME NEW c \in Bodies, SaveStart(c) PROVE Guarded!Next \/ UNCHANGED Guarded!guarded
  <2> USE <1>3 DEF SaveStart, Begin
  <2>1. ~Offering /\ ~Offering'
    BY DEF IType, TxShape, Offering
  <2> QED
    BY <2>1, <1>k, NothingOffered
<1>4. CASE RecoverStart
  <2> USE <1>4 DEF RecoverStart
  <2>1. ~Offering /\ Kept' = Kept
    BY <1>k DEF IType, TypeOK, TxTypeOK, TxShape, Offering
  <2>2. CASE journal # None /\ PayloadOf(journal) \in payloads
    <3>1. Offering' /\ kind' = "recover" /\ rec' = journal /\ outcome' = outcome
      BY <2>2 DEF Begin, Finish, Offering
    <3>2. Kept = [body |-> journal.body, over |-> journal.accepted, creates |-> journal.recreate]
      BY <2>2 DEF Kept
    <3>3. journal \in Record
      BY <2>2 DEF IType, TypeOK, EvidenceTypeOK
    <3>4. Kept # None /\ Offered' = Kept.body
      BY <3>1, <3>2, <3>3, CandidateAssumption DEF Mapped, PhaseAt, Record
    <3>5. \/ Phase' = "offered" /\ Guard' = [over |-> Kept.over, creates |-> Kept.creates, misled |-> FALSE]
          \/ Phase' = "placed" /\ Guard' = None
      <4>1. CASE journal.stage \in Unpublished
        <5>1. pc' = "capture"
          BY <4>1, <2>2 DEF Begin
        <5> QED
          BY <5>1, <3>1, <3>2 DEF Mapped, PhaseAt, GuardAt, Expected
      <4>2. CASE journal.stage \notin Unpublished
        <5>1. pc' \in {"sync", "readback"}
          BY <4>2, <2>2 DEF Begin
        <5> QED
          BY <5>1 DEF Mapped, PhaseAt, GuardAt
      <4> QED
        BY <4>1, <4>2
    <3>6. Guarded!Resume
      BY <3>1, <3>4, <3>5, <2>1 DEF Guarded!Resume, Mapped, PhaseAt
    <3> QED
      BY <3>6 DEF Guarded!Next
  <2>3. CASE ~(journal # None /\ PayloadOf(journal) \in payloads)
    <3>1. ~Offering' /\ outcome' # "saved"
      BY <2>3 DEF Finish, End, Offering
    <3> QED
      BY <3>1, <2>1, NothingOffered
  <2> QED
    BY <2>2, <2>3
<1>5. CASE ReloadStart
  <2> USE <1>5 DEF ReloadStart, Begin
  <2>1. ~Offering /\ ~Offering'
    BY DEF IType, TxShape, Offering
  <2> QED
    BY <2>1, <1>k, NothingOffered
<1>6. CASE SavePrecondition
  <2> USE <1>6 DEF SavePrecondition
  <2>1. kind = "save" /\ ~Offering /\ Kept = None /\ Kept' = Kept
    BY <1>k DEF IType, TypeOK, TxTypeOK, TxShape, Offering, Mapped, KeptAt
  <2>2. CASE (missing /\ disk = None) \/ Same(accepted, disk)
    <3>1. kind' = "save" /\ pc' = "payload" /\ Offering' /\ outcome' = outcome
      BY <2>1, <2>2 DEF Offering, Finish
    <3>2. rec' = [rec EXCEPT !.recreate = (missing /\ disk = None)] /\ accepted' = accepted
      BY <2>2 DEF Finish
    <3>3. rec \in Record
      BY <2>1 DEF IType, TxShape
    <3>4. Phase = "none" /\ Offered = None /\ Phase' = "offered" /\ Offered' \in Bodies
      BY <2>1, <3>1 DEF Mapped, PhaseAt
    <3>5. Guard' \in Guarded!Guards /\ Guard'.over = accepted /\ Guard'.creates = (missing /\ disk = None)
      BY <3>1, <3>2, <3>3, <3>4 DEF Mapped, GuardAt, Expected, Record
    <3>6. disk \in Version \cup {None} /\ (disk # None \/ Guard'.creates)
      BY <2>2, <3>5 DEF Same, IType, TypeOK, DiskTypeOK
    <3>7. Guarded!Expected(Guard')
      BY <2>2, <3>5 DEF Guarded!Expected, Same
    <3>8. Guarded!Offer
      BY <2>1, <3>1, <3>4, <3>5, <3>7 DEF Guarded!Offer
    <3> QED
      BY <3>8 DEF Guarded!Next
  <2>3. CASE ~((missing /\ disk = None) \/ Same(accepted, disk))
    <3>1. ~Offering' /\ outcome' # "saved"
      BY <2>3 DEF Finish, End, Offering
    <3> QED
      BY <3>1, <2>1, NothingOffered
  <2> QED
    BY <2>2, <2>3
<1>7. CASE WritePayload
  <2> USE <1>7 DEF WritePayload, Goto
  <2>1. kind = "save" /\ kind' = "save" /\ Offering /\ Offering'
    BY DEF IType, TypeOK, TxTypeOK, TxShape, Offering
  <2>2. Phase = "offered" /\ Phase' = "offered" /\ Kept = None /\ Kept' = None
    BY <2>1 DEF Mapped, PhaseAt, KeptAt
  <2>3. SameCandidate /\ SameAccepted
    BY <2>1 DEF SameCandidate, SameAccepted
  <2> QED
    BY <2>2, <2>3, CandidateHandedOn
<1>8. CASE PersistStage
  <2> USE <1>8 DEF PersistStage
  <2>1. InFlight /\ Offering /\ Offering' /\ InFlight'
    BY DEF IType, TypeOK, TxTypeOK, TxShape, Offering, InFlight, After
  <2>2. SameCandidate /\ SameAccepted
    BY <2>1, StagedFields DEF SameCandidate, SameAccepted, Mapped, PhaseAt
  <2>3. pc' \notin {"precondition", "payload", "candidate-durable", "remove-journal"}
    BY DEF After
  <2>4. Kept' # None /\ Kept'.body = rec.body /\ Kept'.creates = rec.recreate /\ Kept'.over = rec.accepted
    BY <2>1, <2>2, <2>3 DEF Mapped, KeptAt, SameCandidate
  <2>5. CASE pc \in Unpublished
    <3>1. Phase = "offered" /\ Phase' = "offered"
      BY <2>1, <2>5 DEF Mapped, PhaseAt, After
    <3>2. Guard' = Guard /\ Guard.creates = rec.recreate
      BY <2>2, <3>1, GuardStays DEF Mapped, GuardAt
    <3>3. Offered = rec.body /\ Offered' = Offered
      BY <2>1, <2>2 DEF Mapped, PhaseAt, SameCandidate
    <3>4. Guarded!Keep
      BY <2>4, <3>1, <3>2, <3>3 DEF Guarded!Keep
    <3> QED
      BY <3>4 DEF Guarded!Next
  <2>6. CASE pc \in Published
    <3>1. Phase' = Phase
      BY <2>6 DEF Mapped, PhaseAt, After
    <3>2. pc \notin {"precondition", "payload", "candidate-durable", "remove-journal"}
      BY <2>6
    <3>3. journal # None /\ journal' # None /\ journal'.body = journal.body
          /\ journal'.accepted = journal.accepted /\ journal'.recreate = journal.recreate
          /\ PayloadOf(journal) \in payloads /\ PayloadOf(journal') \in payloads'
      BY <2>1, <2>6, <3>2, StagedFields, StagedPayload, AbsenceAssumption
         DEF IPlace, Journalled, PayloadStays, InFlight, Mapped, PhaseAt, IEvidence,
             OwnEvidence
    <3>4. Kept' = Kept
      BY <3>3 DEF Kept
    <3> QED
      BY <2>2, <3>1, <3>4, CandidateHandedOn
  <2> QED
    BY <2>5, <2>6
<1>9. CASE CreateTemp
  <2> USE <1>9 DEF CreateTemp, Goto
  <2>1. Offering /\ Offering'
    BY DEF Mapped, PhaseAt, Offering
  <2>2. Phase' = Phase
    BY <2>1 DEF Mapped, PhaseAt
  <2>3. SameCandidate /\ SameAccepted
    BY <2>1 DEF SameCandidate, SameAccepted
  <2> QED
    BY <1>k, <2>2, <2>3, CandidateHandedOn
<1>10. CASE Validate
  <2> USE <1>10 DEF Validate
  <2>1. Offering /\ Phase = "offered" /\ InFlight
    BY DEF Mapped, PhaseAt, Offering, InFlight
  <2>2. Guard = [over |-> Expected, creates |-> rec.recreate, misled |-> kind = "save" /\ misrebased]
    BY <2>1 DEF Mapped, GuardAt
  <2>3. recreating => rec.recreate
    BY <2>1 DEF IPlace, Recreates, InFlight
  <2>4. Offering' /\ SameCandidate /\ SameAccepted
    BY <2>1 DEF Goto, Conflict, Offering, SameCandidate, SameAccepted
  <2>5. Offered' = Offered /\ Offered = rec.body
    BY <2>1, <2>4 DEF Mapped, PhaseAt, SameCandidate
  <2>6. CASE StillExpected
    <3>1. Phase' = "looked"
      BY <2>6 DEF Goto, Mapped, PhaseAt
    <3>2. Guard' = Guard
      BY <2>1, <2>4, <3>1, GuardStays
    <3>3. Guarded!IsKept
      BY <2>1, <2>5 DEF Guarded!IsKept, Mapped, KeptAt
    <3>4. Guarded!Expected(Guard)
      BY <2>2, <2>3, <2>6 DEF Guarded!Expected, StillExpected, Same
    <3>5. Guarded!Look
      BY <1>k, <2>1, <2>5, <3>1, <3>2, <3>3, <3>4 DEF Guarded!Look
    <3> QED
      BY <3>5 DEF Guarded!Next
  <2>7. CASE ~StillExpected /\ kind = "save"
    <3>1. Phase' = "refused" /\ Guard' = None
      BY <2>7 DEF Conflict, Mapped, PhaseAt, GuardAt
    <3>2. recreating = rec.recreate
      BY <2>7 DEF IPlace, Recreates
    <3>3. Expected # None
      BY <2>7, AbsenceAssumption DEF Expected, IType, TxShape
    <3>4. ~Guarded!Expected(Guard) \/ (Guard.creates /\ disk # None)
      BY <2>2, <2>7, <3>2, <3>3 DEF Guarded!Expected, StillExpected, Same
    <3>5. Guarded!Refuse
      BY <1>k, <2>1, <2>5, <3>1, <3>4 DEF Guarded!Refuse
    <3> QED
      BY <3>5 DEF Guarded!Next
  <2>8. CASE ~StillExpected /\ kind # "save"
    <3>1. Phase' = "offered"
      BY <2>4, <2>8 DEF Conflict, Mapped, PhaseAt
    <3> QED
      BY <1>k, <2>1, <2>4, <3>1, CandidateHandedOn
  <2> QED
    BY <2>6, <2>7, <2>8
<1>11. ASSUME Replace, Phase = "looked" \/ (Phase = "offered" /\ rec.recreate /\ disk = None),
              Offering, pc \in {"publish", "link"},
              UNCHANGED <<journal, payloads, outcome>>
       PROVE  Guarded!Next
  <2>1. Offering' /\ Offered = rec.body /\ Offered' = Offered /\ Offered \in Bodies
    BY <1>11 DEF Replace, Goto, Offering, Mapped, PhaseAt
  <2>2. Phase' = "placed" /\ Guard' = None
    BY <1>11 DEF Replace, Goto, Mapped, PhaseAt, GuardAt
  <2>3. Guarded!IsKept
    BY <1>11, <2>1 DEF Guarded!IsKept, Mapped, KeptAt, Offering, InFlight
  <2>4. disk' \in Guarded!Version /\ disk'.body = Offered /\ platter' = platter
    BY <1>11, <2>1 DEF Replace, CandidateVersion, Guarded!Version, IType, TypeOK, DiskTypeOK
  <2>5. Phase = "offered" => Guard.creates
    BY <1>11 DEF Mapped, GuardAt
  <2>6. Guarded!Replace
    BY <1>k, <1>11, <2>1, <2>2, <2>3, <2>4, <2>5 DEF Guarded!Replace
  <2> QED
    BY <2>6 DEF Guarded!Next
<1>12. CASE Publish
  <2>1. Phase = "looked" /\ Offering
    BY <1>12 DEF Publish, Mapped, PhaseAt
  <2> QED
    BY <1>11, <1>12, <2>1 DEF Publish
<1>13. CASE Link
  <2>1. Phase = "offered" /\ Offering /\ InFlight
    BY <1>13 DEF Link, Mapped, PhaseAt, Offering, InFlight
  <2>2. rec.recreate
    BY <1>13, <2>1 DEF Link, IPlace, Recreates, InFlight
  <2>3. CASE disk = None
    BY <1>11, <1>13, <2>1, <2>2, <2>3 DEF Link
  <2>4. CASE disk # None
    <3> USE <1>13, <2>4 DEF Link
    <3>1. Offering' /\ SameCandidate /\ SameAccepted
      BY <2>1 DEF Conflict, Offering, SameCandidate, SameAccepted
    <3>2. CASE kind = "save"
      <4>1. Phase' = "refused" /\ Guard' = None /\ Guard.creates
        BY <2>1, <2>2, <3>2 DEF Conflict, Mapped, PhaseAt, GuardAt
      <4>2. Offered' = Offered
        BY <2>1, <3>1 DEF Mapped, PhaseAt, SameCandidate
      <4>3. Guarded!Refuse
        BY <1>k, <2>1, <4>1, <4>2 DEF Guarded!Refuse
      <4> QED
        BY <4>3 DEF Guarded!Next
    <3>3. CASE kind # "save"
      <4>1. Phase' = "offered"
        BY <3>1, <3>3 DEF Conflict, Mapped, PhaseAt
      <4> QED
        BY <1>k, <2>1, <3>1, <4>1, CandidateHandedOn
    <3> QED
      BY <3>2, <3>3
  <2> QED
    BY <2>3, <2>4
<1>14. CASE SyncDirectory
  <2> USE <1>14 DEF SyncDirectory, Synced, Goto
  <2>1. Phase = "placed" /\ Phase' = "placed" /\ Guard' = Guard
    BY DEF Mapped, PhaseAt, GuardAt
  <2>2. Offered' = Offered
    BY DEF Offered, Offering
  <2>3. Guarded!Sync
    BY <1>k, <2>1, <2>2 DEF Guarded!Sync
  <2> QED
    BY <2>3 DEF Guarded!Next
<1>15. CASE Readback
  <2> USE <1>15 DEF Readback
  <2>1. Offering /\ Offering' /\ Offered = rec.body
    BY DEF Mapped, PhaseAt, Offering
  <2>2. Phase = "placed" /\ Phase' = "confirmed" /\ Guard' = Guard /\ Offered' = Offered
    BY <2>1 DEF Mapped, PhaseAt, GuardAt
  <2>3. platter = disk
    BY DEF IPlace, Unsynced
  <2>4. Guarded!Confirm
    BY <1>k, <2>1, <2>2, <2>3 DEF Guarded!Confirm, ReadsBack
  <2> QED
    BY <2>4 DEF Guarded!Next
<1>16. CASE AcceptCandidate
  <2> USE <1>16 DEF AcceptCandidate
  <2>1. Offering /\ Offering' /\ InFlight
    BY DEF Mapped, PhaseAt, Offering, InFlight
  <2>2. Phase = "confirmed" /\ Phase' = "confirmed" /\ Guard' = Guard
    BY <2>1 DEF Mapped, PhaseAt, GuardAt
  <2>3. StagedRecord.body = rec.body /\ StagedRecord.accepted = rec.accepted
        /\ StagedRecord.recreate = rec.recreate /\ StagedRecord # None
    BY <2>1, StagedFields, AbsenceAssumption DEF Mapped, PhaseAt
  <2>4. Offered' = Offered
    BY <2>1, <2>3 DEF Mapped, PhaseAt
  <2>5. journal # None /\ journal.body = rec.body /\ journal.accepted = rec.accepted
        /\ journal.recreate = rec.recreate
        /\ PayloadOf(journal) \in payloads /\ PayloadOf(journal') \in payloads'
    BY <2>1, StagedPayload
       DEF IPlace, Journalled, PayloadStays, InFlight, Mapped, PhaseAt, IEvidence,
           OwnEvidence
  <2>6. Kept' = Kept
    BY <2>3, <2>5 DEF Kept
  <2> QED
    BY <2>2, <2>4, <2>6 DEF Guarded!guarded
<1>17. CASE RemoveTemp
  <2> USE <1>17 DEF RemoveTemp, Goto
  <2>1. Offering /\ Offering'
    BY DEF Mapped, PhaseAt, Offering
  <2>2. Phase' = Phase
    BY DEF Mapped, PhaseAt
  <2>3. SameCandidate /\ SameAccepted
    BY <2>1 DEF SameCandidate, SameAccepted
  <2> QED
    BY <1>k, <2>2, <2>3, CandidateHandedOn
<1>18. CASE RemovePayload
  <2> USE <1>18 DEF RemovePayload, Goto
  <2>1. Offering /\ Offering' /\ Offered' = Offered
    BY DEF Mapped, PhaseAt, Offering, Offered
  <2>2. Phase' = Phase /\ Phase \in {"confirmed", "refused"} /\ Guard' = Guard
    BY DEF Mapped, PhaseAt, GuardAt
  <2>3. Kept' = None
    BY DEF Mapped, KeptAt
  <2>4. Guarded!Forget
    BY <2>1, <2>2, <2>3 DEF Guarded!Forget
  <2> QED
    BY <2>4 DEF Guarded!Next
<1>19. CASE RemoveJournal
  <2> USE <1>19 DEF RemoveJournal, Finish, End
  <2>1. Offering /\ ~Offering' /\ Offered' = None
    BY DEF Mapped, PhaseAt, Offering
  <2>2. Kept = None /\ Kept' = None
    BY DEF Mapped, KeptAt, Kept
  <2>3. CASE reply = "saved"
    <3>1. Phase = "confirmed" /\ Guard = None /\ Phase' = "none" /\ Guard' = None
      BY <2>1, <2>3 DEF Mapped, PhaseAt, GuardAt
    <3>2. Guarded!Settle
      BY <2>1, <2>2, <2>3, <3>1 DEF Guarded!Settle
    <3> QED
      BY <3>2 DEF Guarded!Next
  <2>4. CASE reply # "saved"
    BY <2>1, <2>2, <2>4, CandidateDropped
  <2> QED
    BY <2>3, <2>4
<1>20. CASE RecoverCapture
  <2> USE <1>20 DEF RecoverCapture
  <2>1. Offering /\ Phase = "offered" /\ kind = "recover"
    BY DEF Mapped, PhaseAt, IType, TypeOK, TxTypeOK, TxShape
  <2>2. CASE pc' = "replay-temp"
    <3>1. rec' = rec /\ kind' = kind /\ outcome' = outcome
      BY <2>2 DEF Goto, Finish, End
    <3>2. SameCandidate /\ SameAccepted
      BY <2>1, <3>1 DEF SameCandidate, SameAccepted, Offering
    <3>3. Phase' = Phase
      BY <2>1, <2>2, <3>2 DEF Mapped, PhaseAt, SameCandidate
    <3> QED
      BY <1>k, <3>1, <3>2, <3>3, CandidateHandedOn
  <2>3. CASE pc' = "replacement-complete"
    <3>1. ReadsBack /\ rec' = rec /\ kind' = kind /\ outcome' = outcome
      BY <2>3 DEF Goto, Finish, End, AlreadyPublished
    <3>2. Phase' = "placed" /\ Guard' = None
      BY <2>3 DEF Mapped, PhaseAt, GuardAt
    <3>3. Offered = rec.body /\ Offered' = Offered
      BY <2>1, <3>1 DEF Mapped, PhaseAt, Offering
    <3>4. Guarded!Find
      BY <1>k, <2>1, <3>1, <3>2, <3>3 DEF Guarded!Find, ReadsBack
    <3> QED
      BY <3>4 DEF Guarded!Next
  <2>4. CASE pc' \notin {"replay-temp", "replacement-complete"}
    <3>1. ~Offering' /\ outcome' # "saved"
      BY <2>4 DEF Goto, Finish, End, Offering
    <3> QED
      BY <1>k, <3>1, CandidateDropped
  <2> QED
    BY <2>2, <2>3, <2>4
<1>21. CASE WriteReplayTemp
  <2> USE <1>21 DEF WriteReplayTemp
  <2>1. Offering /\ Offering'
    BY DEF Mapped, PhaseAt, Offering
  <2>2. Phase = "offered" /\ Phase' = "offered"
    BY <2>1 DEF Mapped, PhaseAt
  <2>3. SameCandidate /\ SameAccepted
    BY <2>1, ReplayFields DEF SameCandidate, SameAccepted, Mapped, PhaseAt
  <2> QED
    BY <1>k, <2>2, <2>3, CandidateHandedOn
<1>22. CASE RemoveReplay
  <2> USE <1>22 DEF RemoveReplay
  <2>1. ~Offering' /\ outcome' # "saved"
    BY DEF Finish, End, Offering
  <2> QED
    BY <1>k, <2>1, CandidateDropped
<1>23. CASE ReloadRead
  <2> USE <1>23 DEF ReloadRead
  <2>1. ~Offering /\ ~Offering'
    BY DEF IType, TypeOK, TxTypeOK, TxShape, Offering, End
  <2> QED
    BY <2>1, <1>k, NothingOffered
<1>24. CASE ReloadApply
  <2> USE <1>24 DEF ReloadApply
  <2>1. ~Offering /\ ~Offering'
    BY DEF IType, TypeOK, TxTypeOK, TxShape, Offering, End
  <2>2. outcome' = outcome \/ outcome' # "saved"
    OBVIOUS
  <2> QED
    BY <2>1, <2>2, <1>k, NothingOffered
<1>25. ASSUME Throws, Offering, ~Offering', outcome' # "saved", UNCHANGED diskVars
       PROVE  Guarded!Next
  <2>1. rec \in Record
    BY <1>25 DEF Mapped, PhaseAt
  <2>2. CASE journal' = journal /\ payloads' = payloads
    BY <1>k, <1>25, <2>2, CandidateDropped
  <2>3. CASE pc = "payload" /\ journal' = journal
    <3>1. kind = "save" /\ journal = None
      BY <1>25, <2>3 DEF IType, TxShape, Offering, IEvidence, StartsClean, NoEvidence
    <3>2. Kept' = Kept
      BY <2>3, <3>1 DEF Kept
    <3> QED
      BY <1>25, <3>2, CandidateDropped
  <2>4. CASE pc \in Stages /\ journal' = StagedRecord /\ payloads' = payloads
    <3>1. PayloadOf(StagedRecord) \in payloads /\ StagedRecord # None
      BY <1>25, <2>1, <2>4, StagedPayload, StagedFields, AbsenceAssumption
         DEF IPlace, PayloadStays, InFlight, Offering
    <3>2. Kept' = [body |-> rec.body, over |-> rec.accepted, creates |-> rec.recreate]
      BY <2>1, <2>4, <3>1, StagedFields DEF Kept
    <3>3. CASE pc \in Unpublished
      <4>1. Kept' # None
        BY <2>1, <3>2, CandidateAssumption DEF Record
      <4>2. Phase = "offered" /\ Offered = rec.body /\ Guard.creates = rec.recreate
        BY <1>25, <3>3 DEF Mapped, PhaseAt, GuardAt
      <4> QED
        BY <1>25, <3>2, <4>1, <4>2, CandidateDropped
    <3>4. CASE pc \in Published
      <4>1. journal # None /\ PayloadOf(journal) \in payloads /\ journal.body = rec.body
            /\ journal.accepted = rec.accepted /\ journal.recreate = rec.recreate
        BY <1>25, <3>4
           DEF IPlace, Journalled, PayloadStays, InFlight, Offering, IEvidence, OwnEvidence
      <4>2. Kept' = Kept
        BY <3>2, <4>1 DEF Kept
      <4> QED
        BY <1>25, <4>2, CandidateDropped
    <3> QED
      BY <2>4, <3>3, <3>4
  <2> QED
    BY <1>25, <2>2, <2>3, <2>4 DEF Throws
<1>26. CASE SaveThrows
  <2> USE <1>26 DEF SaveThrows
  <2>1. Throws /\ ~Offering' /\ outcome' # "saved" /\ UNCHANGED diskVars
    BY DEF Finish, End, Offering
  <2>2. CASE Offering
    BY <2>1, <2>2, <1>25
  <2>3. CASE ~Offering
    <3>1. pc = "precondition"
      BY <2>3 DEF Offering
    <3>2. Kept' = Kept
      BY <1>k, <3>1 DEF Throws
    <3> QED
      BY <2>1, <2>3, <3>2, NothingOffered
  <2> QED
    BY <2>2, <2>3
<1>27. CASE RecoverThrows
  <2> USE <1>27 DEF RecoverThrows
  <2>1. Throws /\ Offering /\ ~Offering' /\ outcome' # "saved" /\ UNCHANGED diskVars
    BY DEF Finish, End, Offering
  <2> QED
    BY <2>1, <1>25
<1>28. CASE CleanupThrows
  <2> USE <1>28 DEF CleanupThrows
  <2>1. ~Offering' /\ outcome' # "saved"
    BY DEF Finish, End, Offering
  <2> QED
    BY <1>k, <2>1, CandidateDropped
<1>29. CASE CheckStart
  <2> USE <1>29 DEF CheckStart
  <2> QED
    BY DEF Guarded!guarded, Offered, Phase, Offering, Guard, Expected, Kept
<1>30. CASE CheckRead
  <2> USE <1>30 DEF CheckRead
  <2> QED
    BY DEF Guarded!guarded, Offered, Phase, Offering, Guard, Expected, Kept
<1>31. CASE CheckVerdict
  <2> USE <1>31 DEF CheckVerdict
  <2>1. Offered' = Offered /\ Phase' = Phase /\ Kept' = Kept
    BY <1>k DEF Offered, Phase, Offering
  <2>2. CASE kind = "save" /\ Phase \in {"offered", "looked"}
    <3>1. Guard.over = accepted /\ Guard.creates = rec.recreate
      BY <2>2 DEF Mapped, GuardAt, Expected
    <3>2. Guard'.over = accepted' /\ Guard'.creates = rec.recreate /\ Guard' \in Guarded!Guards
      BY <2>1, <2>2 DEF Mapped, GuardAt, Expected
    <3>3. Guard.misled = (kind = "save" /\ misrebased) /\ Guard'.misled = (kind' = "save" /\ misrebased')
      BY <2>1, <2>2 DEF Mapped, GuardAt
    <3>4. (Guard.misled <=> misrebased) /\ (Guard'.misled <=> misrebased')
      BY <2>2, <3>3
    <3>5. misrebased => misrebased'
      OBVIOUS
    <3>6. accepted'.body = accepted.body \/ misrebased'
      BY DEF LeftAlone
    <3>7. Guarded!Rebase
      BY <2>1, <2>2, <3>1, <3>2, <3>4, <3>5, <3>6 DEF Guarded!Rebase
    <3> QED
      BY <3>7 DEF Guarded!Next
  <2>3. CASE ~(kind = "save" /\ Phase \in {"offered", "looked"})
    <3>1. Guard' = Guard
      BY <2>1, <2>3 DEF Mapped, GuardAt, Expected
    <3> QED
      BY <2>1, <3>1 DEF Guarded!guarded
  <2> QED
    BY <2>2, <2>3
<1>32. ASSUME NEW c \in Bodies, ForeignWrite(c) PROVE Guarded!Next
  <2> USE <1>32 DEF ForeignWrite
  <2>1. Offered' = Offered /\ Phase' = Phase /\ Guard' = Guard /\ Kept' = Kept
    BY <1>k DEF Offered, Phase, Offering, Guard, Expected
  <2>2. disk' \in Guarded!Version
    BY DEF Guarded!Version, IType, TypeOK, DiskTypeOK
  <2>3. Guarded!Foreign
    BY <2>1, <2>2 DEF Guarded!Foreign
  <2> QED
    BY <2>3 DEF Guarded!Next
<1>33. CASE ForeignRemove
  <2> USE <1>33 DEF ForeignRemove
  <2>1. Offered' = Offered /\ Phase' = Phase /\ Guard' = Guard /\ Kept' = Kept
    BY <1>k DEF Offered, Phase, Offering, Guard, Expected
  <2>2. Guarded!Foreign
    BY <2>1 DEF Guarded!Foreign
  <2> QED
    BY <2>2 DEF Guarded!Next
<1>34. CASE OpenNeighbour
  <2> USE <1>34 DEF OpenNeighbour
  <2> QED
    BY DEF Guarded!guarded, Offered, Phase, Offering, Guard, Expected, Kept
<1>35. CASE Crash
  <2> USE <1>35 DEF Crash, Closed
  <2>1. Offered' = None /\ Phase' = "none" /\ Guard' = None /\ Kept' = Kept
    BY <1>k DEF Mapped, PhaseAt, GuardAt, Offering
  <2>2. Guarded!Crash
    BY <2>1 DEF Guarded!Crash
  <2> QED
    BY <2>2 DEF Guarded!Next
<1>36. CASE UNCHANGED vars
  BY <1>36 DEF vars, Guarded!guarded, Offered, Phase, Offering, Guard, Expected, Kept
<1> QED
  BY <1>1, <1>2, <1>3, <1>4, <1>5, <1>6, <1>7, <1>8, <1>9, <1>10, <1>12, <1>13, <1>14,
     <1>15,
     <1>16, <1>17, <1>18, <1>19, <1>20, <1>21, <1>22, <1>23, <1>24, <1>26, <1>27, <1>28, <1>29,
     <1>30, <1>31, <1>32, <1>33, <1>34, <1>35, <1>36
     DEF Next, TxStep

-----------------------------------------------------------------------------
\* The candidate's record, payload and journal stay in step with the file.
LEMMA PlaceInvariant == Spec => [](IType /\ IEvidence /\ IPlace /\ Mapped)
<1>1. Init => IType /\ IEvidence /\ IPlace
  BY TypeInit, EvidenceInit, PlaceInit
<1>2. IType /\ IEvidence /\ IPlace /\ [Next]_vars => (IType /\ IEvidence /\ IPlace)'
  BY TypeStep, EvidenceStep, PlaceStep
<1> QED
  BY <1>1, <1>2, MappedFollows, PTL DEF Spec

\* Every save and recovery of the store, with every failure, crash and foreign
\* write on the way, is a compare-and-replace of the file: the store
\* implements GuardedFile (saveLocked, recoverLocked, open).
THEOREM StoreImplementsGuardedFile == Spec => ImplementsGuardedFile
<1>1. IType /\ IEvidence /\ IPlace /\ Mapped /\ Mapped' /\ [Next]_vars
        => [Guarded!Next]_(Guarded!guarded)
  BY RefinesStep
<1> QED
  BY <1>1, RefinesInit, PlaceInvariant, PTL DEF Spec, ImplementsGuardedFile, Guarded!Spec
=============================================================================
