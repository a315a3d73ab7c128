-------------------------- MODULE CollectionProofs --------------------------
(***************************************************************************)
(* Proofs about Collection, for any number of shards, streams, run         *)
(* configurations, capture legs, registrations and faults.                 *)
(*                                                                         *)
(* RecordedIsDurable is not inductive: a step that writes to the backend   *)
(* keeps it only because the shard written is not recorded, and recording  *)
(* a shard keeps it only because what was verified are the digests that    *)
(* are recorded.  IInv adds what the position of the session says about    *)
(* the ledger copy, the files and the digests.                             *)
(***************************************************************************)
EXTENDS Collection, TLAPS

(* From the start of a shard to its record.                                *)
Working == {"capture", "manifest", "check", "upload", "verify", "record"}

Transferring == {"upload", "verify", "record"}

(* The session is at a shard of the list.                                  *)
AtAShard == pc \in Working \union {"delete", "complete", "failed"} => pos \in Shards

(* The copy of the ledger holds what the file holds; one record more only  *)
(* after a save that failed.                                               *)
CopyAgrees ==
  pc # "down" => \A s \in Shards :
    \/ mem[s] = disk[s]
    \/ pc = "failed" /\ s = pos /\ disk[s] = None

(* The shard being worked on is not in the ledger; the one being deleted   *)
(* is.                                                                     *)
WorkUnrecorded == pc \in Working => mem[pos] = None

DeletedRecorded == pc \in {"delete", "complete"} => Recorded(pos)

(* What was hashed is what this session captured, whole.                   *)
CapturedHere ==
  /\ pc \in {"manifest", "check"} =>
       \A f \in Streams : local[pos][f] \in {ver, Damaged}
  /\ pc = "check" => local[pos][Manifest] = ver

HashedHere ==
  pc \in Transferring => \A f \in Files : local[pos][f] = ver /\ sums[f] = ver

Verified == pc = "record" => \A f \in Files : remote[pos][f] = sums[f]

(* A running session has the configuration of the ledger file.             *)
SessionConfig ==
  /\ pc # "down" => diskCfg \in {None, ver.cfg}
  /\ OneConfigPerLedger

Core ==
  /\ AtAShard
  /\ CopyAgrees
  /\ WorkUnrecorded
  /\ DeletedRecorded
  /\ CapturedHere
  /\ HashedHere
  /\ Verified
  /\ RecordedIsDurable
  /\ SessionConfig

IInv == TypeOK /\ Core

-----------------------------------------------------------------------------
(***************************************************************************)
(* The steps of Next, one disjunct each.  Both invariance proofs go        *)
(* through this list.                                                      *)
(***************************************************************************)
LEMMA NextCases ==
  ASSUME Next
  PROVE  \/ Start \/ StopOnBudget \/ FinishList \/ Skip \/ BeginShard
         \/ CaptureOK \/ BuildManifest \/ ReportComplete \/ ReportFailed
         \/ Expire \/ CaptureShort \/ CaptureFails \/ Killed \/ LoseScratch
         \/ UNCHANGED runnerVars /\
              ( \/ HashLocal(pos) \/ RefuseShort(pos) \/ CommitBatch(pos)
                \/ Verify(pos) \/ VerifyMismatch(pos)
                \/ MarkComplete(pos, ver.cfg)
                \/ CommitDamaged(pos) \/ CommitFails(pos) \/ DownloadFails(pos)
                \/ MarkCompleteFails(pos) \/ UnlinkFails
                \/ \E f \in Files : \/ PutFile(pos, f) \/ Unlink(pos, f)
                                    \/ PutDamaged(pos, f) \/ PutFails(pos, f) )
BY DEF Next, Run, Faulty, Upload, UploadGoesWrong, UploadShard, UploadFault

(* What a session starts or ends with, and what a step writes, is well     *)
(* typed.                                                                  *)
LEMMA ResetTypes ==
  /\ Empty \in Ledgers
  /\ NoSums \in [Files -> Content]
  /\ [s \in Shards |-> NoSums] \in [Shards -> [Files -> Content]]
  /\ 0 \in 0 .. NShards
BY FilesAssumption DEF Empty, Ledgers, NoSums, Content

LEMMA DigestType ==
  ASSUME sums \in [Files -> Content]
  PROVE  FileSha256 \in Digests
BY DEF FileSha256, Digests, Files

LEMMA NoFaultType ==
  ASSUME faults \in Nat, NoFault
  PROVE  faults' \in Nat
BY DEF NoFault

LEMMA FaultType ==
  ASSUME faults \in Nat, Fault
  PROVE  faults' \in Nat
BY DEF Fault

LEMMA WriteType ==
  ASSUME TypeOK, NEW short \in SUBSET Files, Write(short)
  PROVE  local' \in [Shards -> [Files -> Content]]
BY DEF TypeOK, UploadTypeOK, Write, Content

(* After a capture every stream is this session's, or short.               *)
LEMMA WriteStreams ==
  ASSUME TypeOK, pos \in Shards, NEW short \in SUBSET Streams, Write(short)
  PROVE  /\ \A f \in Streams : local'[pos][f] \in {ver, Damaged}
         /\ \A s \in Shards : s # pos => local'[s] = local[s]
<1>1. \A f \in Streams : f \in Files /\ f # Manifest
  BY FilesAssumption DEF Files
<1> QED
  BY <1>1 DEF TypeOK, UploadTypeOK, Write

(* A commit writes to the prefix of one shard only.                        *)
LEMMA CommitOthers ==
  ASSUME TypeOK, NEW damaged \in SUBSET Files, Commit(pos, damaged)
  PROVE  \A s \in Shards : s # pos => remote'[s] = remote[s]
BY DEF TypeOK, UploadTypeOK, Commit

LEMMA CommitType ==
  ASSUME TypeOK, NEW damaged \in SUBSET Files, pos \in Shards, Commit(pos, damaged)
  PROVE  remote' \in [Shards -> [Files -> Content]]
BY DEF TypeOK, UploadTypeOK, Commit, Content

LEMMA RowType ==
  ASSUME TypeOK, pos \in Shards, NEW v \in {0, 1}
  PROVE  log \union {<<pos, v>>} \in SUBSET (Shards \X {0, 1})
BY DEF TypeOK

(* The type invariant is inductive with the fact that a session at work is *)
(* at a shard of the list.                                                 *)
LEMMA TypeStep ==
  ASSUME TypeOK, AtAShard, [Next]_vars
  PROVE  TypeOK'
<1> USE DEF TypeOK, LedgerTypeOK, UploadTypeOK
<1>a. /\ {} \in SUBSET Files
      /\ Streams \in SUBSET Files
      /\ \A f \in Files : {f} \in SUBSET Files
      /\ Streams \subseteq Files
  BY DEF Files
<1>b. pc \in Working \union {"delete", "complete", "failed"} => pos \in Shards
  BY DEF AtAShard
<1>1. CASE Start
  <2>1. PICK v \in Versions : SessionStart(v)
    BY <1>1 DEF Start
  <2>2. LedgerTypeOK' /\ UploadTypeOK'
    BY <2>1 DEF SessionStart, LoadOrCreate, Goto, Stages
  <2>3. pos' \in 0 .. NShards /\ ver' \in Versions /\ budget' \in {"open", "spent"}
    BY <2>1, FilesAssumption DEF SessionStart
  <2>4. log' \in SUBSET (Shards \X {0, 1})
    BY <2>1 DEF SessionStart
  <2> QED
    BY <2>2, <2>3, <2>4
<1>2. CASE ReportComplete
  <2>1. pos \in Shards
    BY <1>2, <1>b DEF ReportComplete, Goto
  <2>2. pos' \in 0 .. NShards
    BY <1>2, <2>1, FilesAssumption DEF ReportComplete, Shards
  <2>3. log' \in SUBSET (Shards \X {0, 1})
    BY <1>2, <2>1, RowType DEF ReportComplete
  <2>4. LedgerTypeOK' /\ UploadTypeOK'
    BY <1>2, ResetTypes, NoFaultType DEF ReportComplete, Goto, Stages, ledgerVars
  <2>5. ver' \in Versions /\ budget' \in {"open", "spent"}
    BY <1>2 DEF ReportComplete
  <2> QED
    BY <2>2, <2>3, <2>4, <2>5
<1>3. CASE StopOnBudget
  BY <1>3, ResetTypes, NoFaultType
  DEF StopOnBudget, SessionEnd, DropCopy, Stages
<1>4. CASE FinishList
  BY <1>4, ResetTypes, NoFaultType
  DEF FinishList, SessionEnd, DropCopy, Stages
<1>5. CASE Skip
  BY <1>5, FilesAssumption
  DEF Skip, AtShard, uploadVars, ledgerVars, Shards
<1>6. CASE BeginShard
  BY <1>6, FilesAssumption
  DEF BeginShard, Goto, Stages, ledgerVars, runnerVars
<1>7. CASE CaptureOK
  BY <1>7, <1>a, WriteType, NoFaultType
  DEF CaptureOK, Goto, Stages, ledgerVars, runnerVars
<1>8. CASE BuildManifest
  BY <1>8, NoFaultType
  DEF BuildManifest, Goto, Stages, Content, Files, ledgerVars, runnerVars
<1>9. CASE ReportFailed
  BY <1>9, <1>b, ResetTypes, NoFaultType, RowType
  DEF ReportFailed, SessionEnd, DropCopy, Stages, Working
<1>10. CASE Expire
  BY <1>10, FilesAssumption
  DEF Expire, ledgerVars, uploadVars
<1>11. CASE CaptureShort
  BY <1>11, <1>a, WriteType, FaultType
  DEF CaptureShort, Goto, Stages, ledgerVars, runnerVars
<1>12. CASE CaptureFails
  BY <1>12, <1>a, WriteType, FaultType
  DEF CaptureFails, Goto, Stages, ledgerVars, runnerVars
<1>13. CASE Killed
  BY <1>13, ResetTypes, FaultType
  DEF Killed, SessionEnd, DropCopy, Stages
<1>14. CASE LoseScratch
  BY <1>14, ResetTypes, FaultType
  DEF LoseScratch, LoseLedger, runnerVars
<1>15. CASE UNCHANGED runnerVars /\ HashLocal(pos)
  BY <1>15, <1>b, NoFaultType
  DEF HashLocal, Goto, Working, Stages, runnerVars, ledgerVars
<1>16. CASE UNCHANGED runnerVars /\ RefuseShort(pos)
  BY <1>16, NoFaultType
  DEF RefuseShort, Goto, Stages, runnerVars, ledgerVars
<1>17. CASE UNCHANGED runnerVars /\ CommitBatch(pos)
  BY <1>17, <1>a, <1>b, CommitType, NoFaultType
  DEF CommitBatch, Goto, Working, Stages, runnerVars, ledgerVars
<1>18. CASE UNCHANGED runnerVars /\ Verify(pos)
  BY <1>18, NoFaultType
  DEF Verify, Goto, Stages, runnerVars, ledgerVars
<1>19. CASE UNCHANGED runnerVars /\ VerifyMismatch(pos)
  BY <1>19, NoFaultType
  DEF VerifyMismatch, Goto, Stages, runnerVars, ledgerVars
<1>20. CASE UNCHANGED runnerVars /\ MarkComplete(pos, ver.cfg)
  BY <1>20, DigestType, NoFaultType
  DEF MarkComplete, Insert, Save, Ledgers, Versions, Goto, Stages,
      runnerVars, ledgerVars
<1>21. CASE UNCHANGED runnerVars /\ CommitDamaged(pos)
  BY <1>21, <1>a, <1>b, CommitType, FaultType
  DEF CommitDamaged, Goto, Working, Stages, runnerVars, ledgerVars
<1>22. CASE UNCHANGED runnerVars /\ CommitFails(pos)
  BY <1>22, <1>a, <1>b, CommitType, FaultType
  DEF CommitFails, Goto, Working, Stages, runnerVars, ledgerVars
<1>23. CASE UNCHANGED runnerVars /\ DownloadFails(pos)
  BY <1>23, FaultType
  DEF DownloadFails, Goto, Stages, runnerVars, ledgerVars
<1>24. CASE UNCHANGED runnerVars /\ MarkCompleteFails(pos)
  BY <1>24, DigestType, FaultType
  DEF MarkCompleteFails, Insert, SaveFails, Ledgers, Goto, Stages,
      runnerVars, ledgerVars
<1>25. CASE UNCHANGED runnerVars /\ UnlinkFails
  BY <1>25, FaultType
  DEF UnlinkFails, Goto, Stages, runnerVars, ledgerVars
<1>26. ASSUME NEW f \in Files, UNCHANGED runnerVars, PutFile(pos, f)
       PROVE  TypeOK'
  BY <1>26, NoFaultType
  DEF PutFile, Put, UploadName, NextName, Content, Stages, runnerVars,
      ledgerVars
<1>27. ASSUME NEW f \in Files, UNCHANGED runnerVars, Unlink(pos, f)
       PROVE  TypeOK'
  BY <1>27, NoFaultType
  DEF Unlink, NextName, Content, Stages, runnerVars, ledgerVars
<1>28. ASSUME NEW f \in Files, UNCHANGED runnerVars, PutDamaged(pos, f)
       PROVE  TypeOK'
  BY <1>28, FaultType
  DEF PutDamaged, Put, UploadName, NextName, Content, Stages, runnerVars,
      ledgerVars
<1>29. ASSUME NEW f \in Files, UNCHANGED runnerVars, PutFails(pos, f)
       PROVE  TypeOK'
  BY <1>29, <1>b, FaultType
  DEF Working, PutFails, UploadName, NextName, Content, Goto, Stages, runnerVars,
      ledgerVars
<1>30. CASE UNCHANGED vars
  BY <1>30 DEF vars
<1> QED
  BY <1>1, <1>2, <1>3, <1>4, <1>5, <1>6, <1>7, <1>8, <1>9, <1>10, <1>11,
     <1>12, <1>13, <1>14, <1>15, <1>16, <1>17, <1>18, <1>19, <1>20, <1>21,
     <1>22, <1>23, <1>24, <1>25, <1>26, <1>27, <1>28, <1>29, <1>30,
     NextCases

(* Every step keeps the rest of the inductive invariant.                   *)
LEMMA CoreStep ==
  ASSUME IInv, [Next]_vars
  PROVE  Core'
<1> USE DEF IInv, Core, TypeOK, LedgerTypeOK, UploadTypeOK, Ledgers
<1> USE DEF AtAShard, CopyAgrees, WorkUnrecorded, DeletedRecorded, CapturedHere, HashedHere,
            Verified, RecordedIsDurable, SessionConfig, OneConfigPerLedger, Working,
            Transferring, Recorded, Durable
<1>a. /\ {} \in SUBSET Streams /\ {} \in SUBSET Files
      /\ \A f \in Streams : {f} \in SUBSET Streams
  OBVIOUS
<1>1. CASE Start
  BY <1>1
  DEF Start, SessionStart, LoadOrCreate, Goto
<1>2. CASE StopOnBudget
  BY <1>2
  DEF StopOnBudget, SessionEnd, DropCopy
<1>3. CASE FinishList
  BY <1>3
  DEF FinishList, SessionEnd, DropCopy
<1>4. CASE Skip
  BY <1>4
  DEF Skip, AtShard, uploadVars, ledgerVars
<1>5. CASE BeginShard
  BY <1>5, FilesAssumption
  DEF BeginShard, AtShard, Complete, Shards, Goto, ledgerVars, runnerVars
<1>6. CASE CaptureOK
  BY <1>6, <1>a, WriteStreams DEF CaptureOK, Goto, ledgerVars, runnerVars
<1>7. CASE BuildManifest
  BY <1>7
  DEF BuildManifest, Goto, ledgerVars, runnerVars, Files
<1>8. CASE ReportComplete
  BY <1>8
  DEF ReportComplete, Goto, ledgerVars
<1>9. CASE ReportFailed
  BY <1>9
  DEF ReportFailed, SessionEnd, DropCopy
<1>10. CASE Expire
  BY <1>10
  DEF Expire, ledgerVars, uploadVars
<1>11. CASE CaptureShort
  BY <1>11, <1>a, WriteStreams DEF CaptureShort, Goto, ledgerVars, runnerVars
<1>12. CASE CaptureFails
  BY <1>12
  DEF CaptureFails, Write, Goto, ledgerVars, runnerVars, Files
<1>13. CASE Killed
  BY <1>13
  DEF Killed, SessionEnd, DropCopy
<1>14. CASE LoseScratch
  BY <1>14, ResetTypes
  DEF LoseScratch, LoseLedger, Empty, runnerVars
<1>15. CASE UNCHANGED runnerVars /\ HashLocal(pos)
  BY <1>15
  DEF HashLocal, SizesMatch, Goto, Files, runnerVars, ledgerVars
<1>16. CASE UNCHANGED runnerVars /\ RefuseShort(pos)
  BY <1>16
  DEF RefuseShort, Goto, runnerVars, ledgerVars
<1>17. CASE UNCHANGED runnerVars /\ CommitBatch(pos)
  BY <1>17
  DEF CommitBatch, Commit, Goto, Files, runnerVars, ledgerVars
<1>18. CASE UNCHANGED runnerVars /\ Verify(pos)
  BY <1>18
  DEF Verify, RoundTripMatches, Goto, runnerVars, ledgerVars
<1>19. CASE UNCHANGED runnerVars /\ VerifyMismatch(pos)
  BY <1>19
  DEF VerifyMismatch, Goto, runnerVars, ledgerVars
<1>20. CASE UNCHANGED runnerVars /\ MarkComplete(pos, ver.cfg)
  BY <1>20, DigestType, FilesAssumption
  DEF MarkComplete, Insert, Save, FileSha256, Goto, Files, Digests,
      Versions, runnerVars, ledgerVars
<1>21. CASE UNCHANGED runnerVars /\ CommitDamaged(pos)
  BY <1>21
  DEF CommitDamaged, Commit, Goto, Files, runnerVars, ledgerVars
<1>22. CASE UNCHANGED runnerVars /\ CommitFails(pos)
  <2>1. \A s \in Shards : s # pos => remote'[s] = remote[s]
    BY <1>22, <1>a, CommitOthers DEF CommitFails
  <2>2. pos \in Shards /\ disk[pos] = None /\ disk' = disk
    BY <1>22 DEF CommitFails, Goto, ledgerVars
  <2>3. RecordedIsDurable'
    BY <2>1, <2>2
  <2>4. pc = "upload" /\ pc' = "failed" /\ mem' = mem /\ diskCfg' = diskCfg
        /\ pos' = pos /\ ver' = ver
    BY <1>22 DEF CommitFails, Goto, runnerVars, ledgerVars
  <2> QED
    BY <2>2, <2>3, <2>4
<1>23. CASE UNCHANGED runnerVars /\ DownloadFails(pos)
  BY <1>23
  DEF DownloadFails, Goto, runnerVars, ledgerVars
<1>24. CASE UNCHANGED runnerVars /\ MarkCompleteFails(pos)
  BY <1>24, DigestType, FilesAssumption
  DEF MarkCompleteFails, Insert, SaveFails, Goto, runnerVars, ledgerVars
<1>25. CASE UNCHANGED runnerVars /\ UnlinkFails
  BY <1>25
  DEF UnlinkFails, Goto, runnerVars, ledgerVars
<1>26. ASSUME NEW f \in Files, UNCHANGED runnerVars, PutFile(pos, f)
       PROVE  Core'
  BY <1>26
  DEF PutFile, Put, UploadName, NextName, Files, runnerVars, ledgerVars
<1>27. ASSUME NEW f \in Files, UNCHANGED runnerVars, Unlink(pos, f)
       PROVE  Core'
  BY <1>27
  DEF Unlink, NextName, runnerVars, ledgerVars
<1>28. ASSUME NEW f \in Files, UNCHANGED runnerVars, PutDamaged(pos, f)
       PROVE  Core'
  BY <1>28
  DEF PutDamaged, Put, UploadName, NextName, Files, runnerVars, ledgerVars
<1>29. ASSUME NEW f \in Files, UNCHANGED runnerVars, PutFails(pos, f)
       PROVE  Core'
  BY <1>29
  DEF PutFails, UploadName, NextName, Goto, Files, runnerVars, ledgerVars
<1>30. CASE UNCHANGED vars
  BY <1>30 DEF vars
<1> QED
  BY <1>1, <1>2, <1>3, <1>4, <1>5, <1>6, <1>7, <1>8, <1>9, <1>10, <1>11,
     <1>12, <1>13, <1>14, <1>15, <1>16, <1>17, <1>18, <1>19, <1>20, <1>21,
     <1>22, <1>23, <1>24, <1>25, <1>26, <1>27, <1>28, <1>29, <1>30,
     NextCases

-----------------------------------------------------------------------------
(* Collection keeps its types, and the inductive invariant.                *)
LEMMA InitIInv == Init => IInv
<1> SUFFICES ASSUME Init PROVE IInv
  OBVIOUS
<1>1. TypeOK
  BY ResetTypes DEF Init, LedgerInit, UploadInit, TypeOK, LedgerTypeOK,
                    UploadTypeOK, Stages
<1>2. Core
  BY DEF Init, LedgerInit, UploadInit, Empty, Core, AtAShard, CopyAgrees,
         WorkUnrecorded, DeletedRecorded, CapturedHere, HashedHere, Verified,
         RecordedIsDurable, SessionConfig, OneConfigPerLedger, Working,
         Transferring, Recorded
<1> QED
  BY <1>1, <1>2 DEF IInv

THEOREM Invariance == Spec => []IInv
<1>1. IInv /\ [Next]_vars => IInv'
  BY TypeStep, CoreStep DEF IInv, Core
<1> QED
  BY InitIInv, <1>1, PTL DEF Spec

(* Every variable keeps its type.                                          *)
THEOREM TypeCorrect == Spec => []TypeOK
<1>1. IInv => TypeOK
  BY DEF IInv
<1> QED
  BY Invariance, <1>1, PTL

(* A shard of the ledger file is on the backend, whole, with the digests   *)
(* recorded: whatever number of sessions was killed, whatever transfer     *)
(* failed or lied, however often scratch was lost.                         *)
THEOREM RecordedShardsAreDurable == Spec => []RecordedIsDurable
<1>1. IInv => RecordedIsDurable
  BY DEF IInv, Core
<1> QED
  BY Invariance, <1>1, PTL

(* No ledger file mixes shards of two run configurations.                  *)
THEOREM LedgersAreOfOneConfig == Spec => []OneConfigPerLedger
<1>1. IInv => OneConfigPerLedger
  BY DEF IInv, Core, SessionConfig
<1> QED
  BY Invariance, <1>1, PTL

-----------------------------------------------------------------------------
(* A file leaves scratch during a session only in _delete_local, which     *)
(* works on a recorded shard.                                              *)
LEMMA DropStep ==
  ASSUME IInv, [Next]_vars, NEW s \in Shards, NEW f \in Files,
         pc # "down", local[s][f] # Absent, local'[s][f] = Absent
  PROVE  Recorded(s) /\ Durable(s)
<1> USE DEF IInv, TypeOK, UploadTypeOK
<1>a. local' # local
  OBVIOUS
<1>b. ASSUME NEW short \in SUBSET Files, Write(short)
      PROVE  FALSE
  BY <1>b, ContentAssumption DEF Write
<1>1. CASE Start
  BY <1>1, <1>a DEF Start, SessionStart
<1>2. CASE StopOnBudget \/ FinishList \/ Skip \/ BeginShard \/ Expire
           \/ ReportComplete \/ ReportFailed \/ Killed
  BY <1>2, <1>a DEF StopOnBudget, FinishList, Skip, BeginShard, Expire,
                    ReportComplete, ReportFailed, Killed, uploadVars
<1>3. CASE CaptureOK \/ CaptureShort \/ CaptureFails
  BY <1>3, <1>a, <1>b DEF CaptureOK, CaptureShort, CaptureFails, Files
<1>4. CASE BuildManifest
  BY <1>4, ContentAssumption DEF BuildManifest
<1>5. CASE LoseScratch
  BY <1>5 DEF LoseScratch
<1>6. CASE HashLocal(pos) \/ RefuseShort(pos) \/ CommitBatch(pos)
           \/ Verify(pos) \/ VerifyMismatch(pos) \/ MarkComplete(pos, ver.cfg)
           \/ CommitDamaged(pos) \/ CommitFails(pos) \/ DownloadFails(pos)
           \/ MarkCompleteFails(pos) \/ UnlinkFails
  BY <1>6, <1>a DEF HashLocal, RefuseShort, CommitBatch, Verify, VerifyMismatch,
                    MarkComplete, CommitDamaged, CommitFails, DownloadFails,
                    MarkCompleteFails, UnlinkFails
<1>7. ASSUME NEW g \in Files,
             PutFile(pos, g) \/ PutDamaged(pos, g) \/ PutFails(pos, g)
      PROVE  FALSE
  BY <1>7, <1>a DEF PutFile, PutDamaged, PutFails, Put
<1>8. ASSUME NEW g \in Files, Unlink(pos, g)
      PROVE  Recorded(s) /\ Durable(s)
  <2>1. s = pos
    BY <1>8 DEF Unlink
  <2>2. Recorded(pos)
    BY <1>8 DEF Unlink, Core, DeletedRecorded
  <2> QED
    BY <2>1, <2>2 DEF Core, RecordedIsDurable
<1>9. CASE UNCHANGED vars
  BY <1>9, <1>a DEF vars
<1> QED
  BY <1>1, <1>2, <1>3, <1>4, <1>5, <1>6, <1>7, <1>8, <1>9, NextCases

(* The last good copy of a shard is never given up.                        *)
THEOREM OnlyCopyIsKept == Spec => NeverDropOnlyCopy
<1>1. IInv /\ [Next]_vars =>
        [\A s \in Shards, f \in Files :
           (pc # "down" /\ local[s][f] # Absent /\ local'[s][f] = Absent)
             => Recorded(s) /\ Durable(s)]_vars
  BY DropStep
<1> QED
  BY Invariance, <1>1, PTL DEF Spec, NeverDropOnlyCopy

(* A running session only ever adds to the ledger file.                    *)
THEOREM RecordsAreKept == Spec => RecordsKept
<1>1. ASSUME IInv, [Next]_vars, pc # "down", NEW s \in Shards, Recorded(s)
      PROVE  disk'[s] = disk[s]
  <2> USE DEF IInv, TypeOK, LedgerTypeOK, Ledgers
  <2>1. CASE UNCHANGED runnerVars /\ MarkComplete(pos, ver.cfg)
    BY <1>1, <2>1 DEF MarkComplete, Goto, Insert, Save, Core, CopyAgrees,
                      WorkUnrecorded, AtAShard, Working, Recorded
  <2>2. CASE LoseScratch
    BY <1>1, <2>2 DEF LoseScratch
  <2>3. CASE Start
    BY <2>3 DEF Start, SessionStart, LoadOrCreate
  <2>4. CASE UNCHANGED disk
    BY <2>4
  <2>5. (Next /\ ~Start /\ ~LoseScratch /\ ~MarkComplete(pos, ver.cfg)) => UNCHANGED disk
    BY NextCases
    DEF StopOnBudget, FinishList, Skip, BeginShard, CaptureOK, BuildManifest,
        ReportComplete, ReportFailed, Expire, CaptureShort, CaptureFails, Killed,
        SessionEnd, DropCopy, HashLocal, RefuseShort, CommitBatch, Verify,
        VerifyMismatch, CommitDamaged, CommitFails, DownloadFails,
        MarkCompleteFails, SaveFails, UnlinkFails, PutFile, PutDamaged, PutFails,
        Put, Unlink, ledgerVars
  <2>6. Next /\ MarkComplete(pos, ver.cfg) => UNCHANGED runnerVars
    BY NextCases DEF MarkComplete, Goto, Start, SessionStart, StopOnBudget, FinishList,
        Skip, AtShard, BeginShard, CaptureOK, BuildManifest, ReportComplete, ReportFailed,
        Expire, CaptureShort, CaptureFails, Killed, SessionEnd, LoseScratch
  <2> QED
    BY <1>1, <2>1, <2>2, <2>3, <2>4, <2>5, <2>6 DEF vars
<1>2. IInv /\ [Next]_vars =>
        [pc # "down" => \A s \in Shards : Recorded(s) => disk'[s] = disk[s]]_vars
  BY <1>1
<1> QED
  BY Invariance, <1>2, PTL DEF Spec, RecordsKept

(* A row of the log that says verified is about a recorded shard.          *)
THEOREM VerifiedRowsAreTruthful == Spec => VerifiedRowsAreTrue
<1>1. ASSUME IInv, [Next]_vars, NEW s \in Shards, <<s, 1>> \in log' \ log
      PROVE  Recorded(s) /\ Durable(s)
  <2>1. UNCHANGED log \/ ReportComplete \/ ReportFailed
    BY <1>1, NextCases
    DEF Start, SessionStart, StopOnBudget, FinishList, Skip, BeginShard, CaptureOK,
        BuildManifest, Expire, CaptureShort, CaptureFails, Killed, LoseScratch,
        runnerVars, vars
  <2>2. CASE ReportComplete
    BY <1>1, <2>2 DEF ReportComplete, Goto, IInv, Core, DeletedRecorded,
                      RecordedIsDurable
  <2>3. CASE ReportFailed
    BY <1>1, <2>3 DEF ReportFailed
  <2> QED
    BY <1>1, <2>1, <2>2, <2>3
<1>2. IInv /\ [Next]_vars =>
        [\A s \in Shards : <<s, 1>> \in log' \ log => Recorded(s) /\ Durable(s)]_vars
  BY <1>1
<1> QED
  BY Invariance, <1>2, PTL DEF Spec, VerifiedRowsAreTrue

-----------------------------------------------------------------------------
(* While a shard is being transferred, the streams no longer in todo are   *)
(* on the backend: what makes it safe to store the manifest when nothing   *)
(* else is left.                                                           *)
StoredSoFar == pc = "upload" => \A f \in Streams \ todo : remote[pos][f] # Absent

(* A file stored from scratch, whole or damaged, is there.                 *)
LEMMA PutStep ==
  ASSUME IInv, ManifestLast, StoredSoFar, UNCHANGED runnerVars,
         NEW f \in Files, NEW c \in Content, c # Absent, Put(pos, f, c)
  PROVE  ManifestLast' /\ StoredSoFar'
<1> USE DEF IInv, TypeOK, UploadTypeOK
<1>1. pos \in Shards /\ pos' = pos
  BY DEF Put, Core, AtAShard, Working, runnerVars
<1>2. /\ remote'[pos][f] = c
      /\ \A g \in Files : g # f => remote'[pos][g] = remote[pos][g]
      /\ \A s \in Shards : s # pos => remote'[s] = remote[s]
  BY <1>1 DEF Put
<1>3. \A g \in Streams \ todo' : remote'[pos][g] # Absent
  BY <1>2 DEF Put, StoredSoFar, Files
<1>4. ASSUME remote'[pos][Manifest] # Absent, NEW g \in Streams
      PROVE  remote'[pos][g] # Absent
  <2>1. CASE f = Manifest
    BY <1>3, <2>1, FilesAssumption DEF Put, UploadName, NextName
  <2>2. CASE f # Manifest
    BY <1>1, <1>2, <1>4, <2>2 DEF ManifestLast, Files
  <2> QED
    BY <2>1, <2>2
<1> QED
  BY <1>1, <1>2, <1>3, <1>4 DEF ManifestLast, StoredSoFar

LEMMA ManifestStep ==
  ASSUME IInv, ManifestLast, StoredSoFar, [Next]_vars
  PROVE  ManifestLast' /\ StoredSoFar'
<1> USE DEF IInv, TypeOK, UploadTypeOK, ManifestLast, StoredSoFar
<1>1. CASE Start \/ StopOnBudget \/ FinishList \/ Skip \/ BeginShard \/ CaptureOK
           \/ BuildManifest \/ ReportComplete \/ ReportFailed \/ Expire
           \/ CaptureShort \/ CaptureFails \/ Killed \/ LoseScratch
  BY <1>1 DEF Start, SessionStart, StopOnBudget, FinishList, Skip, AtShard, BeginShard,
              CaptureOK, BuildManifest, ReportComplete, ReportFailed, Expire,
              CaptureShort, CaptureFails, Killed, SessionEnd, LoseScratch, Goto,
              uploadVars, runnerVars
<1>2. CASE RefuseShort(pos) \/ Verify(pos) \/ VerifyMismatch(pos)
           \/ MarkComplete(pos, ver.cfg) \/ DownloadFails(pos)
           \/ MarkCompleteFails(pos) \/ UnlinkFails
  BY <1>2 DEF RefuseShort, Verify, VerifyMismatch, MarkComplete, DownloadFails,
              MarkCompleteFails, UnlinkFails, Goto
<1>3. CASE HashLocal(pos)
  BY <1>3 DEF HashLocal, Goto, Files
<1>4. CASE UNCHANGED runnerVars /\ (CommitBatch(pos) \/ CommitDamaged(pos) \/ CommitFails(pos))
  <2>1. pc = "upload" /\ pc' # "upload" /\ pos \in Shards
    BY <1>4 DEF CommitBatch, CommitDamaged, CommitFails, Goto, Core, AtAShard, Working
  <2>2. /\ {} \in SUBSET Files
        /\ \A f \in Files : {f} \in SUBSET Files
    OBVIOUS
  <2>3. ASSUME NEW damaged \in SUBSET Files, Commit(pos, damaged)
        PROVE  ManifestLast'
    <3>1. \A s \in Shards : s # pos => remote'[s] = remote[s]
      BY <2>3, CommitOthers
    <3>2. \A f \in Streams : remote'[pos][f] \in {Damaged, ver}
      BY <2>1, <2>3 DEF Commit, Core, HashedHere, Transferring, Files
    <3> QED
      BY <3>1, <3>2, ContentAssumption
  <2>4. ManifestLast'
    BY <1>4, <2>2, <2>3 DEF CommitBatch, CommitDamaged, CommitFails
  <2> QED
    BY <2>1, <2>4
<1>5. ASSUME NEW f \in Files, UNCHANGED runnerVars, PutFile(pos, f)
      PROVE  ManifestLast' /\ StoredSoFar'
  <2>1. local[pos][f] = ver /\ ver \in Content /\ ver # Absent
    BY <1>5, ContentAssumption DEF PutFile, Put, Core, HashedHere, Transferring, Content
  <2> QED
    BY <1>5, <2>1, PutStep DEF PutFile
<1>6. ASSUME NEW f \in Files, UNCHANGED runnerVars, PutDamaged(pos, f)
      PROVE  ManifestLast' /\ StoredSoFar'
  <2>1. Damaged \in Content /\ Damaged # Absent
    BY ContentAssumption DEF Content
  <2> QED
    BY <1>6, <2>1, PutStep DEF PutDamaged
<1>7. ASSUME NEW f \in Files, UNCHANGED runnerVars, PutFails(pos, f)
      PROVE  ManifestLast' /\ StoredSoFar'
  <2>1. pc = "upload" /\ pc' = "failed" /\ pos \in Shards
    BY <1>7 DEF PutFails, Goto, Core, AtAShard, Working
  <2>2. PICK c \in {remote[pos][f], Damaged} : remote' = [remote EXCEPT ![pos][f] = c]
    BY <1>7 DEF PutFails
  <2>3. \A g \in Files : remote[pos][g] # Absent => remote'[pos][g] # Absent
    BY <2>1, <2>2, ContentAssumption
  <2>4. f # Manifest => remote'[pos][Manifest] = remote[pos][Manifest]
    BY <2>1, <2>2
  <2>5. f = Manifest => \A g \in Streams : remote[pos][g] # Absent
    BY <1>7, <2>1, FilesAssumption DEF PutFails, UploadName, NextName
  <2>6. \A s \in Shards : s # pos => remote'[s] = remote[s]
    BY <2>1, <2>2
  <2> QED
    BY <2>1, <2>3, <2>4, <2>5, <2>6 DEF Files
<1>8. ASSUME NEW f \in Files, Unlink(pos, f)
      PROVE  ManifestLast' /\ StoredSoFar'
  BY <1>8 DEF Unlink
<1>9. CASE UNCHANGED vars
  BY <1>9 DEF vars
<1> QED
  BY <1>1, <1>2, <1>3, <1>4, <1>5, <1>6, <1>7, <1>8, <1>9, NextCases

(* Whatever a transfer leaves behind when it stops, a manifest on the      *)
(* backend has all its streams beside it.                                  *)
THEOREM ManifestIsLast == Spec => []ManifestLast
<1>1. Init => ManifestLast /\ StoredSoFar
  BY FilesAssumption DEF Init, UploadInit, NoSums, Files, ManifestLast, StoredSoFar
<1>2. /\ IInv /\ ManifestLast /\ StoredSoFar /\ [Next]_vars
      => (ManifestLast /\ StoredSoFar)'
  BY ManifestStep
<1> QED
  BY Invariance, <1>1, <1>2, PTL DEF Spec

-----------------------------------------------------------------------------
(* The backend and the ledger change one shard at a time.  These are the   *)
(* steps that change them at all.                                          *)
LEMMA StorageSteps ==
  ASSUME IInv, [Next]_vars
  PROVE  \/ UNCHANGED <<remote, disk>>
         \/ LoseScratch
         \/ MarkComplete(pos, ver.cfg) /\ UNCHANGED runnerVars
         \/ /\ pc = "upload" /\ UNCHANGED disk
            /\ \A s \in Shards : s # pos => remote'[s] = remote[s]
<1> USE DEF IInv, TypeOK, UploadTypeOK
<1>1. CASE Start \/ StopOnBudget \/ FinishList \/ Skip \/ BeginShard \/ CaptureOK
           \/ BuildManifest \/ ReportComplete \/ ReportFailed \/ Expire
           \/ CaptureShort \/ CaptureFails \/ Killed
  BY <1>1 DEF Start, SessionStart, LoadOrCreate, StopOnBudget, FinishList, Skip,
              BeginShard, CaptureOK, BuildManifest, ReportComplete, ReportFailed,
              Expire, CaptureShort, CaptureFails, Killed, SessionEnd, DropCopy,
              ledgerVars, uploadVars
<1>2. CASE HashLocal(pos) \/ RefuseShort(pos) \/ Verify(pos) \/ VerifyMismatch(pos)
           \/ DownloadFails(pos) \/ MarkCompleteFails(pos) \/ UnlinkFails
  BY <1>2 DEF HashLocal, RefuseShort, Verify, VerifyMismatch, DownloadFails,
              MarkCompleteFails, SaveFails, UnlinkFails, ledgerVars
<1>3. CASE CommitBatch(pos) \/ CommitDamaged(pos) \/ CommitFails(pos)
  <2>1. pc = "upload" /\ UNCHANGED disk
    BY <1>3 DEF CommitBatch, CommitDamaged, CommitFails, Goto, ledgerVars
  <2>2. \A f \in Files : {f} \in SUBSET Files
    OBVIOUS
  <2>3. \A s \in Shards : s # pos => remote'[s] = remote[s]
    BY <1>3, <2>2, CommitOthers DEF CommitBatch, CommitDamaged, CommitFails
  <2> QED
    BY <2>1, <2>3
<1>4. ASSUME NEW f \in Files, PutFile(pos, f) \/ PutDamaged(pos, f) \/ PutFails(pos, f)
      PROVE  /\ pc = "upload" /\ UNCHANGED disk
             /\ \A s \in Shards : s # pos => remote'[s] = remote[s]
  BY <1>4 DEF PutFile, PutDamaged, PutFails, Put, Goto, ledgerVars
<1>5. ASSUME NEW f \in Files, Unlink(pos, f)
      PROVE  UNCHANGED <<remote, disk>>
  BY <1>5 DEF Unlink, ledgerVars
<1>6. CASE UNCHANGED vars
  BY <1>6 DEF vars
<1> QED
  BY <1>1, <1>2, <1>3, <1>4, <1>5, <1>6, NextCases

(* Every step of the collection is a step of its promise, or none.         *)
LEMMA PromiseStep ==
  ASSUME IInv, [Next]_vars
  PROVE  [Promise!Next]_(Promise!vars)
<1> USE DEF IInv, TypeOK, LedgerTypeOK, UploadTypeOK
<1> DEFINE held == {s \in Shards : Whole(s)}
           done == {s \in Shards : Recorded(s)}
<1>1. CASE UNCHANGED <<remote, disk>>
  <2>1. held' = held /\ done' = done
    BY <1>1 DEF Whole, Recorded
  <2> QED
    BY <2>1 DEF Promise!vars
<1>2. CASE LoseScratch
  <2>1. held' = held /\ done' = {}
    BY <1>2 DEF LoseScratch, LoseLedger, Empty, Whole, Recorded
  <2> QED
    BY <2>1 DEF Promise!Next, Promise!Forget
<1>3. CASE MarkComplete(pos, ver.cfg) /\ UNCHANGED runnerVars
  <2>1. pos \in Shards /\ Whole(pos)
    BY <1>3 DEF MarkComplete, Goto, Core, AtAShard, Working, Transferring, HashedHere,
                Verified, Whole
  <2>2. held' = held
    BY <1>3 DEF MarkComplete, Whole
  <2>3. FileSha256 # None
    BY DigestType, FilesAssumption
  <2>4. \A s \in Shards : disk'[s] = IF s = pos THEN FileSha256 ELSE disk[s]
    BY <1>3, <2>1 DEF MarkComplete, Goto, Insert, Save, Core, CopyAgrees, Ledgers
  <2>5. done' = done \union {pos}
    BY <2>1, <2>3, <2>4 DEF Recorded
  <2> QED
    BY <2>1, <2>2, <2>5 DEF Promise!Next, Promise!Record
<1>4. CASE /\ pc = "upload" /\ UNCHANGED disk
           /\ \A s \in Shards : s # pos => remote'[s] = remote[s]
  <2>1. pos \in Shards /\ ~Recorded(pos)
    BY <1>4 DEF Core, AtAShard, Working, WorkUnrecorded, CopyAgrees, Recorded
  <2>2. done' = done
    BY <1>4 DEF Recorded
  <2>3. \A s \in Shards : s # pos => (s \in held <=> s \in held')
    BY <1>4 DEF Whole
  <2>4. held' = held \union {pos} \/ held' = held \ {pos}
    BY <2>1, <2>3
  <2> QED
    BY <2>1, <2>2, <2>4 DEF Promise!Next, Promise!Store, Promise!Overwrite
<1> QED
  BY <1>1, <1>2, <1>3, <1>4, StorageSteps

(* The collection keeps the promise of DurableShards.                      *)
THEOREM CollectionImplementsPromise == Spec => ImplementsPromise
<1>1. Init => Promise!Init
  BY FilesAssumption, ContentAssumption
  DEF Init, LedgerInit, UploadInit, Empty, NoSums, Promise!Init, Whole, Recorded, Files
<1>2. IInv /\ [Next]_vars => [Promise!Next]_(Promise!vars)
  BY PromiseStep
<1> QED
  BY Invariance, <1>1, <1>2, PTL DEF Spec, ImplementsPromise, Promise!Spec
-----------------------------------------------------------------------------
(* A shard of the ledger file is on the backend with its manifest, all     *)
(* files of one version.                                                   *)
RecordedIsWhole == \A s \in Shards : Recorded(s) => Whole(s)

LEMMA WholeStep ==
  ASSUME IInv, RecordedIsWhole, [Next]_vars
  PROVE  RecordedIsWhole'
<1> USE DEF IInv, TypeOK, LedgerTypeOK, UploadTypeOK, RecordedIsWhole, Recorded
<1>1. CASE UNCHANGED <<remote, disk>>
  BY <1>1 DEF Whole
<1>2. CASE LoseScratch
  BY <1>2 DEF LoseScratch, LoseLedger, Empty
<1>3. CASE MarkComplete(pos, ver.cfg) /\ UNCHANGED runnerVars
  <2>1. Whole(pos)
    BY <1>3 DEF MarkComplete, Goto, Core, AtAShard, Working, Transferring, HashedHere,
                Verified, Whole
  <2>2. \A s \in Shards : s # pos => disk'[s] = disk[s]
    BY <1>3 DEF MarkComplete, Goto, Insert, Save, Core, AtAShard, CopyAgrees, Working
  <2>3. \A s \in Shards : Whole(s)' <=> Whole(s)
    BY <1>3 DEF MarkComplete, Whole
  <2> QED
    BY <2>1, <2>2, <2>3
<1>4. CASE /\ pc = "upload" /\ UNCHANGED disk
           /\ \A s \in Shards : s # pos => remote'[s] = remote[s]
  <2>1. disk[pos] = None
    BY <1>4 DEF Core, AtAShard, Working, WorkUnrecorded, CopyAgrees
  <2>2. \A s \in Shards : s # pos => (Whole(s)' <=> Whole(s))
    BY <1>4 DEF Whole
  <2> QED
    BY <1>4, <2>1, <2>2
<1> QED
  BY <1>1, <1>2, <1>3, <1>4, StorageSteps

(* A whole shard has the manifest and the streams of one version, which    *)
(* the ledger recorded.                                                    *)
LEMMA RecordedShard ==
  ASSUME IInv, RecordedIsWhole, NEW s \in Shards, Recorded(s)
  PROVE  /\ remote[s][Manifest] \in Versions
         /\ \A f \in Streams : /\ remote[s][f] = remote[s][Manifest]
                              /\ disk[s][f] = remote[s][Manifest]
         /\ remote[s][Manifest].cfg = diskCfg
<1>1. PICK v \in Versions : \A f \in Files : remote[s][f] = v
  BY DEF RecordedIsWhole, Whole
<1>2. Manifest \in Files /\ Streams \subseteq Files
  BY DEF Files
<1>3. \A f \in Streams : remote[s][f] = disk[s][f] /\ disk[s][f].cfg = diskCfg
  BY DEF IInv, Core, RecordedIsDurable, Durable, SessionConfig, OneConfigPerLedger
<1>4. PICK f \in Streams : TRUE
  BY FilesAssumption
<1> QED
  BY <1>1, <1>2, <1>3, <1>4

(* When the last shard is recorded the trace is there in full, and the     *)
(* reader opens it exactly when its shards were collected under one        *)
(* registration of the model.                                              *)
THEOREM CompleteTracesOpen == Spec => []CompleteTraceOpens
<1>1. Init => RecordedIsWhole
  BY DEF Init, LedgerInit, Empty, RecordedIsWhole, Recorded
<1>2. IInv /\ RecordedIsWhole => CompleteTraceOpens
  <2> SUFFICES ASSUME IInv, RecordedIsWhole, \A s \in Shards : Recorded(s)
               PROVE  /\ ShardDirs(remote) = Shards
                      /\ \A s \in Shards : /\ ManifestReadable(remote, s)
                                            /\ FileSizesMatch(remote, s)
                                            /\ remote[s][Manifest].cfg = diskCfg
                      /\ Opens(remote) <=> OneRegistration
    BY DEF CompleteTraceOpens
  <2>1. \A s \in Shards :
          /\ remote[s][Manifest] \in Versions
          /\ \A f \in Streams : /\ remote[s][f] = remote[s][Manifest]
                               /\ disk[s][f] = remote[s][Manifest]
          /\ remote[s][Manifest].cfg = diskCfg
    BY RecordedShard
  <2>2. Manifest \in Files /\ Shards # {}
    BY FilesAssumption DEF Files, Shards
  <2>3. ShardDirs(remote) = Shards
    BY <2>1, <2>2, ContentAssumption DEF ShardDirs
  <2>4. \A s \in Shards : ManifestReadable(remote, s) /\ FileSizesMatch(remote, s)
    BY <2>1 DEF FileSizesMatch, ManifestReadable
  <2>5. Opens(remote) <=> ShardsCompatible(remote)
    BY <2>2, <2>3, <2>4 DEF Opens
  <2>6. ShardsCompatible(remote) <=>
          \A s, t \in Shards : remote[s][Manifest].meta = remote[t][Manifest].meta
    BY <2>1, <2>3 DEF ShardsCompatible, InvariantKeys
  <2>7. PICK f \in Streams : TRUE
    BY FilesAssumption
  <2>8. OneRegistration <=>
          \A s, t \in Shards : remote[s][Manifest].meta = remote[t][Manifest].meta
    BY <2>1, <2>7 DEF OneRegistration
  <2> QED
    BY <2>1, <2>3, <2>4, <2>5, <2>6, <2>8
<1> QED
  BY Invariance, WholeStep, <1>1, <1>2, PTL DEF Spec
=============================================================================
