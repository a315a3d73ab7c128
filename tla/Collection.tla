----------------------------- MODULE Collection -----------------------------
(***************************************************************************)
(* The collection of one trace over any number of sessions:                *)
(* run_collection and run_shard (src/runtime/runner.py) on top of the      *)
(* upload and the ledger.                                                  *)
(*                                                                         *)
(* A session loads the ledger, walks through the shards in order, skips    *)
(* the recorded ones, captures, uploads and records the others, and stops  *)
(* at the end of the list, between two shards when its time budget is      *)
(* spent, or at the first failure.  It may be killed at any point, and     *)
(* with the session the scratch disk, and the ledger on it, may go.        *)
(***************************************************************************)
EXTENDS ShardUpload, TraceReader

VARIABLES
  pos,       (* The shard the loop is at.                                  *)
  ver,       (* Run config, capture leg and registration of the session.   *)
  budget,    (* SessionBudget: "spent" once should_stop() is true.         *)
  log        (* collection_log.csv: its <<shard, upload_verified>> rows.    *)

runnerVars == <<pos, ver, budget, log>>

vars == <<mem, disk, diskCfg, local, remote, backend, pc, sums, todo, faults,
          pos, ver, budget, log>>

TypeOK ==
  /\ LedgerTypeOK
  /\ UploadTypeOK
  /\ pos \in 0 .. NShards
  /\ ver \in Versions
  /\ budget \in {"open", "spent"}
  /\ log \in SUBSET (Shards \X {0, 1})

Init ==
  /\ LedgerInit
  /\ UploadInit
  /\ pos = 0
  /\ ver \in Versions
  /\ budget = "open"
  /\ log = {}

-----------------------------------------------------------------------------
(* A session starts: its own budget, the ledger as the file has it, and    *)
(* whatever models.yaml and the node spec say by now.  The ledger asks     *)
(* only whether the run configuration is its own.                          *)
SessionStart(v) ==
  /\ Goto("down", "loop")
  /\ LoadOrCreate(v.cfg)
  /\ pos' = 0
  /\ ver' = v
  /\ budget' = "open"
  /\ UNCHANGED <<local, remote, backend, sums, todo, faults, log>>

(* What a session that ends leaves: the disk.                              *)
SessionEnd ==
  /\ pc' = "down"
  /\ DropCopy
  /\ pos' = 0
  /\ sums' = NoSums
  /\ todo' = {}
  /\ budget' = "open"
  /\ UNCHANGED <<remote, backend, ver>>

Killed ==
  /\ pc # "down"
  /\ SessionEnd
  /\ Fault
  /\ UNCHANGED <<local, log>>

(* Scratch does not outlive the session (I9): the shard files go, and the  *)
(* ledger, which state_path puts beside them.                              *)
LoseScratch ==
  /\ pc = "down"
  /\ diskCfg # None \/ local # [s \in Shards |-> NoSums]
  /\ LoseLedger
  /\ local' = [s \in Shards |-> NoSums]
  /\ Fault
  /\ UNCHANGED <<remote, backend, pc, sums, todo, runnerVars>>

-----------------------------------------------------------------------------
(* The loop of run_collection.                                             *)

\* MUTANT: a reserve as long as the session (SessionBudget refuses it).
NoUsableTime == pos > 0

(* The first shard of a session is run whatever the clock says.            *)
BudgetSpent == pos > 0 /\ budget = "spent"

StopOnBudget ==
  /\ pc = "loop"
  /\ pos < NShards
  /\ BudgetSpent
  /\ SessionEnd
  /\ NoFault
  /\ UNCHANGED <<local, log>>

FinishList ==
  /\ pc = "loop"
  /\ pos = NShards
  /\ SessionEnd
  /\ NoFault
  /\ UNCHANGED <<local, log>>

AtShard == pc = "loop" /\ pos < NShards /\ ~BudgetSpent

Skip ==
  /\ AtShard
  /\ Complete(pos)
  /\ pos' = pos + 1
  /\ UNCHANGED <<ledgerVars, uploadVars, ver, budget, log>>

\* MUTANT: a shard of the ledger is collected again.
BeginAnyShard ==
  /\ AtShard
  /\ Goto("loop", "capture")
  /\ UNCHANGED <<ledgerVars, local, remote, backend, sums, todo, faults, runnerVars>>

BeginShard ==
  /\ AtShard
  /\ ~Complete(pos)
  /\ Goto("loop", "capture")
  /\ UNCHANGED <<ledgerVars, local, remote, backend, sums, todo, faults, runnerVars>>

(* Time passes in a capture and a transfer; skipping a shard takes none.   *)
Expire ==
  /\ pc \in {"capture", "upload", "verify"}
  /\ budget = "open"
  /\ budget' = "spent"
  /\ UNCHANGED <<ledgerVars, uploadVars, pos, ver, log>>

-----------------------------------------------------------------------------
(* run_shard up to the upload.                                             *)

(* What the binary does to the stream files of the shard: it truncates     *)
(* them as it opens them, and short ones stay short.  The manifest of an   *)
(* earlier attempt is not touched.                                         *)
Write(short) ==
  local' = [local EXCEPT ![pos] =
              [f \in Files |-> CASE f \in short -> Damaged
                                 [] f = Manifest -> local[pos][f]
                                 [] OTHER -> ver]]

CaptureOK ==
  /\ Goto("capture", "manifest")
  /\ Write({})
  /\ NoFault
  /\ UNCHANGED <<ledgerVars, remote, backend, sums, todo, runnerVars>>

\* The binary exits 0 and a stream is short all the same.
CaptureShort ==
  /\ Goto("capture", "manifest")
  /\ \E f \in Streams : Write({f})
  /\ Fault
  /\ UNCHANGED <<ledgerVars, remote, backend, sums, todo, runnerVars>>

(* A non-zero exit, a timeout, no stats file, or stats that validate_stats *)
(* refuses: the files may be untouched, short or complete.                 *)
CaptureFails ==
  /\ Goto("capture", "failed")
  /\ Write({}) \/ Write(Streams) \/ UNCHANGED local
  /\ Fault
  /\ UNCHANGED <<ledgerVars, remote, backend, sums, todo, runnerVars>>

(* build_shard_manifest writes it atomically.                              *)
BuildManifest ==
  /\ Goto("manifest", "check")
  /\ local' = [local EXCEPT ![pos][Manifest] = ver]
  /\ NoFault
  /\ UNCHANGED <<ledgerVars, remote, backend, sums, todo, runnerVars>>

-----------------------------------------------------------------------------
(* run_shard has returned: the row is logged, and the loop goes on after a *)
(* complete shard and breaks after a failed one.                           *)
ReportComplete ==
  /\ Goto("complete", "loop")
  /\ log' = log \union {<<pos, 1>>}
  /\ pos' = pos + 1
  /\ sums' = NoSums
  /\ NoFault
  /\ UNCHANGED <<ledgerVars, local, remote, backend, todo, ver, budget>>

ReportFailed ==
  /\ pc = "failed"
  /\ log' = log \union {<<pos, 0>>}
  /\ SessionEnd
  /\ NoFault
  /\ UNCHANGED local

-----------------------------------------------------------------------------
Upload == UploadShard(pos, ver.cfg) /\ UNCHANGED runnerVars

UploadGoesWrong == UploadFault(pos) /\ UNCHANGED runnerVars

(* The steps the code takes by itself.                                     *)
Run ==
  \/ StopOnBudget
  \/ FinishList
  \/ Skip
  \/ BeginShard
  \/ CaptureOK
  \/ BuildManifest
  \/ Upload
  \/ ReportComplete
  \/ ReportFailed

Faulty ==
  \/ CaptureShort
  \/ CaptureFails
  \/ UploadGoesWrong
  \/ Killed
  \/ LoseScratch

Start == \E v \in Versions : SessionStart(v)

Next ==
  \/ Start
  \/ Run
  \/ Expire
  \/ Faulty

Spec == Init /\ [][Next]_vars

(***************************************************************************)
(* The loop is sequential code, which runs on unless it is killed, and     *)
(* whoever collects starts another session while shards are missing.       *)
(* Nothing is assumed of the budget or of the faults; that they are        *)
(* finitely many is MaxFaults.                                             *)
(***************************************************************************)
FairSpec == Spec /\ WF_vars(Run) /\ WF_vars(Start)

-----------------------------------------------------------------------------
(* Properties                                                              *)

Recorded(s) == disk[s] # None

(* The backend holds, whole, what the ledger says it does.                 *)
Durable(s) ==
  /\ \A f \in Streams : remote[s][f] = disk[s][f] /\ remote[s][f] \in Versions
  /\ remote[s][Manifest] \in Versions

(* A shard of the ledger file is readable from the backend, with the       *)
(* digests recorded, whatever was retried, killed or overwritten on the    *)
(* way (state.py: only after the round-trip verified).                     *)
RecordedIsDurable == \A s \in Shards : Recorded(s) => Durable(s)

(* One ledger file never holds shards of two run configurations, however   *)
(* the sessions that wrote it were configured (state.py load_or_create).   *)
OneConfigPerLedger ==
  \A s \in Shards : Recorded(s) =>
    \A f \in Streams : disk[s][f].cfg = diskCfg

(* While a session runs, a file leaves scratch only when the ledger file   *)
(* has the shard and the backend holds it (upload.py: only then may the    *)
(* bytes go).                                                              *)
NeverDropOnlyCopy ==
  [][\A s \in Shards, f \in Files :
       (pc # "down" /\ local[s][f] # Absent /\ local'[s][f] = Absent)
         => Recorded(s) /\ Durable(s)]_vars

(* Every save rewrites the whole ledger file, and no record is lost or     *)
(* changed by it; only the loss of scratch takes records away.             *)
RecordsKept ==
  [][pc # "down" => \A s \in Shards : Recorded(s) => disk'[s] = disk[s]]_vars

(* A reader who finds a manifest on the backend finds every stream beside  *)
(* it (upload.py, manifest-last order and the one-commit batch).           *)
ManifestLast ==
  \A s \in Shards : remote[s][Manifest] # Absent =>
    \A f \in Streams : remote[s][f] # Absent

(* A row that says verified is written only for a shard the ledger file    *)
(* already has and the backend holds (runner.py, T5.2).                    *)
VerifiedRowsAreTrue ==
  [][\A s \in Shards : <<s, 1>> \in log' \ log => Recorded(s) /\ Durable(s)]_vars

(* The sessions that collected the shards of the ledger read the same      *)
(* registration.                                                           *)
OneRegistration ==
  \A s, t \in Shards : (Recorded(s) /\ Recorded(t)) =>
    \A f \in Streams : disk[s][f].meta = disk[t][f].meta

(* Whatever earlier sessions left on the backend, a collection whose       *)
(* ledger is complete is there in full, readable and of the ledger's run   *)
(* configuration; the reader opens it exactly when models.yaml and the     *)
(* node spec were the same for all its shards, which the ledger does not   *)
(* ask (state.py load_or_create; reader.py: shards collected under         *)
(* different conditions are different experiments).                        *)
CompleteTraceOpens ==
  (\A s \in Shards : Recorded(s)) =>
    /\ ShardDirs(remote) = Shards
    /\ \A s \in Shards : /\ ManifestReadable(remote, s)
                          /\ FileSizesMatch(remote, s)
                          /\ remote[s][Manifest].cfg = diskCfg
    /\ Opens(remote) <=> OneRegistration

(* Once faults have stopped, every shard ends up recorded, whatever the    *)
(* budget of each session does (runner.py: resumable by construction).     *)
AllRecorded == <>[](\A s \in Shards : Recorded(s))

(* The collection implements DurableShards: forgetting sessions, files and *)
(* digests, every step records a shard the backend holds whole, writes a   *)
(* shard nobody has recorded, loses the ledger, or changes nothing.        *)
Whole(s) == \E v \in Versions : \A f \in Files : remote[s][f] = v

Promise == INSTANCE DurableShards WITH
             durable  <- {s \in Shards : Whole(s)},
             recorded <- {s \in Shards : Recorded(s)}

ImplementsPromise == Promise!Spec

(***************************************************************************)
(* What the documentation says and the code does not do.                   *)
(***************************************************************************)

(* runner.py: a variant trace can never be mistaken for a collection       *)
(* trace; one ledger holds one capture leg.                                *)
OneLegPerLedger ==
  \A s, t \in Shards : (Recorded(s) /\ Recorded(t)) =>
    \A f \in Streams : disk[s][f].leg = disk[t][f].leg

(* runner.py: a failed shard leaves nothing in the ledger.                 *)
FailedIsUnrecorded == pc = "failed" => ~Recorded(pos)

(* upload.py: scratch holds one shard at a time (I9, T4.4).                *)
OneShardOnScratch ==
  \A s, t \in Shards : s # t =>
    \/ \A f \in Streams : local[s][f] = Absent
    \/ \A f \in Streams : local[t][f] = Absent
=============================================================================
