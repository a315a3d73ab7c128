---------------------------- MODULE ShardUpload -----------------------------
(***************************************************************************)
(* upload_shard (src/runtime/upload.py) and the storage it works on: the   *)
(* scratch directory of a shard and its prefix on the backend.             *)
(*                                                                         *)
(*   size-check local -> hash local -> upload -> download back -> re-hash  *)
(*       -> mark complete -> delete                                        *)
(*                                                                         *)
(* pc is the position of the session in this order; every action below is  *)
(* one step a crash can separate from the next.  A batch backend           *)
(* (HFBackend) stores the shard in one commit, a per-file one              *)
(* (LocalDirBackend, or one with upload_file alone) a file at a time.      *)
(***************************************************************************)
EXTENDS ShardLedger

CONSTANTS
  Backends,    (* The kinds of backend in use: a subset of BackendKinds.   *)
  MaxFaults    (* Bounds the model: how many faults may happen in all.     *)

VARIABLES
  local,     (* Files of each shard on scratch.                            *)
  remote,    (* Files of each shard on the backend.                        *)
  backend,   (* The kind of the backend, fixed.                            *)
  pc,        (* What the session does next.                                *)
  sums,      (* result.files: the local digests, taken before the upload.  *)
  todo,      (* Files the upload, or the deletion, has still to handle.    *)
  faults     (* Number of faults so far.                                   *)

uploadVars == <<local, remote, backend, pc, sums, todo, faults>>

BackendKinds == {"batch", "per_file"}

ASSUME UploadAssumption ==
  /\ Backends \subseteq BackendKinds
  /\ Backends # {}
  /\ MaxFaults \in Nat

Stages == {"down", "loop", "capture", "manifest", "check", "upload", "verify",
           "record", "delete", "complete", "failed"}

NoSums == [f \in Files |-> Absent]

UploadTypeOK ==
  /\ local \in [Shards -> [Files -> Content]]
  /\ remote \in [Shards -> [Files -> Content]]
  /\ backend \in Backends
  /\ pc \in Stages
  /\ sums \in [Files -> Content]
  /\ todo \in SUBSET Files
  /\ faults \in Nat

UploadInit ==
  /\ local = [s \in Shards |-> NoSums]
  /\ remote = [s \in Shards |-> NoSums]
  /\ backend \in Backends
  /\ pc = "down"
  /\ sums = NoSums
  /\ todo = {}
  /\ faults = 0

Goto(from, to) == pc = from /\ pc' = to

Fault == faults < MaxFaults /\ faults' = faults + 1

NoFault == UNCHANGED faults

(***************************************************************************)
(* names is the streams in a fixed order and then the manifest.  Which     *)
(* stream comes first makes no difference; that the manifest is last does. *)
(***************************************************************************)
NextName(f) == f \in todo /\ (f = Manifest => todo = {Manifest})

\* MUTANT: the manifest in any position among the names.
AnyName(f) == f \in todo

UploadName(f) == NextName(f)

-----------------------------------------------------------------------------
(***************************************************************************)
(* _check_local_sizes, then the local hashes.  A short stream is refused   *)
(* here, before anything is transferred.                                   *)
(***************************************************************************)
SizesMatch(s) == \A f \in Streams : local[s][f] \notin {Absent, Damaged}

HashLocal(s) ==
  /\ Goto("check", "upload")
  /\ SizesMatch(s)
  /\ sums' = local[s]
  /\ todo' = Files
  /\ NoFault
  /\ UNCHANGED <<local, remote, backend, ledgerVars>>

RefuseShort(s) ==
  /\ Goto("check", "failed")
  /\ ~SizesMatch(s)
  /\ NoFault
  /\ UNCHANGED <<local, remote, backend, sums, todo, ledgerVars>>

-----------------------------------------------------------------------------
(* One file stored by upload_file: its name leaves todo, and after the     *)
(* last one the verification starts.                                       *)
Put(s, f, content) ==
  /\ pc = "upload"
  /\ backend = "per_file"
  /\ UploadName(f)
  /\ remote' = [remote EXCEPT ![s][f] = content]
  /\ todo' = todo \ {f}
  /\ pc' = IF todo = {f} THEN "verify" ELSE "upload"
  /\ UNCHANGED <<local, backend, sums, ledgerVars>>

PutFile(s, f) == Put(s, f, local[s][f]) /\ NoFault

\* The store reports success and holds fewer, or other, bytes.
PutDamaged(s, f) == Put(s, f, Damaged) /\ Fault

\* upload_file raises; the file may be half written.
PutFails(s, f) ==
  /\ Goto("upload", "failed")
  /\ backend = "per_file"
  /\ UploadName(f)
  /\ \E c \in {remote[s][f], Damaged} : remote' = [remote EXCEPT ![s][f] = c]
  /\ Fault
  /\ UNCHANGED <<local, backend, sums, todo, ledgerVars>>

(* One create_commit for the whole shard.  damaged is what the store got   *)
(* wrong without saying so.                                                *)
Commit(s, damaged) ==
  /\ backend = "batch"
  /\ remote' = [remote EXCEPT ![s] =
                  [f \in Files |-> IF f \in damaged THEN Damaged ELSE local[s][f]]]

CommitBatch(s) ==
  /\ Goto("upload", "verify")
  /\ Commit(s, {})
  /\ todo' = {}
  /\ NoFault
  /\ UNCHANGED <<local, backend, sums, ledgerVars>>

CommitDamaged(s) ==
  /\ Goto("upload", "verify")
  /\ \E f \in Files : Commit(s, {f})
  /\ todo' = {}
  /\ Fault
  /\ UNCHANGED <<local, backend, sums, ledgerVars>>

\* create_commit raises: it was refused, or its answer came too late.
CommitFails(s) ==
  /\ Goto("upload", "failed")
  /\ backend = "batch"
  /\ Commit(s, {}) \/ UNCHANGED remote
  /\ Fault
  /\ UNCHANGED <<local, backend, sums, todo, ledgerVars>>

-----------------------------------------------------------------------------
\* MUTANT: presence on the backend taken for integrity.
RemotePresent(s) == \A f \in Files : remote[s][f] # Absent

\* MUTANT: the manifest, which is in no checksum, is not downloaded back.
StreamsRoundTrip(s) == \A f \in Streams : remote[s][f] = sums[f]

(***************************************************************************)
(* _round_trip over all names: every file is downloaded and its size and   *)
(* SHA256 compared with the ones taken before the upload.                  *)
(***************************************************************************)
RoundTripMatches(s) == \A f \in Files : remote[s][f] = sums[f]

Verify(s) ==
  /\ Goto("verify", "record")
  /\ RoundTripMatches(s)
  /\ NoFault
  /\ UNCHANGED <<local, remote, backend, sums, todo, ledgerVars>>

VerifyMismatch(s) ==
  /\ Goto("verify", "failed")
  /\ ~RoundTripMatches(s)
  /\ NoFault
  /\ UNCHANGED <<local, remote, backend, sums, todo, ledgerVars>>

\* The download raises, or alters the bytes.
DownloadFails(s) ==
  /\ Goto("verify", "failed")
  /\ Fault
  /\ UNCHANGED <<local, remote, backend, sums, todo, ledgerVars>>

-----------------------------------------------------------------------------
\* MUTANT: the manifest, with its time of collection, among the checksums.
AllSha256 == sums

(* The mapping the ledger keeps: streams only.                             *)
FileSha256 == [f \in Streams |-> sums[f]]

(***************************************************************************)
(* mark_complete.  The refusal of other digests (Accepts) is a StateError, *)
(* which no caller catches; run_shard never comes here for a shard of its  *)
(* ledger.                                                                 *)
(***************************************************************************)
MarkComplete(s, cfg) ==
  /\ Goto("record", "delete")
  /\ Accepts(s, FileSha256)
  /\ Insert(s, FileSha256)
  /\ Save(cfg)
  /\ todo' = Files
  /\ NoFault
  /\ UNCHANGED <<local, remote, backend, sums>>

\* MUTANT: a failed save is logged and the deletion goes ahead.
SaveErrorIgnored(s) ==
  /\ Goto("record", "delete")
  /\ Accepts(s, FileSha256)
  /\ Insert(s, FileSha256)
  /\ SaveFails
  /\ todo' = Files
  /\ Fault
  /\ UNCHANGED <<local, remote, backend, sums>>

\* save raises (a full scratch): the record stays in the copy.
MarkCompleteFails(s) ==
  /\ Goto("record", "failed")
  /\ Accepts(s, FileSha256)
  /\ Insert(s, FileSha256)
  /\ SaveFails
  /\ Fault
  /\ UNCHANGED <<local, remote, backend, sums, todo>>

(***************************************************************************)
(* _delete_local, one unlink at a time.  The rmdir at its end never        *)
(* succeeds in a collection, capture_stats.json is still there, and its    *)
(* OSError is swallowed.                                                   *)
(***************************************************************************)
Unlink(s, f) ==
  /\ pc = "delete"
  /\ NextName(f)
  /\ local' = [local EXCEPT ![s][f] = Absent]
  /\ todo' = todo \ {f}
  /\ pc' = IF todo = {f} THEN "complete" ELSE "delete"
  /\ NoFault
  /\ UNCHANGED <<remote, backend, sums, ledgerVars>>

UnlinkFails ==
  /\ Goto("delete", "failed")
  /\ Fault
  /\ UNCHANGED <<local, remote, backend, sums, todo, ledgerVars>>

-----------------------------------------------------------------------------
UploadShard(s, cfg) ==
  \/ HashLocal(s)
  \/ RefuseShort(s)
  \/ \E f \in Files : PutFile(s, f) \/ Unlink(s, f)
  \/ CommitBatch(s)
  \/ Verify(s)
  \/ VerifyMismatch(s)
  \/ MarkComplete(s, cfg)

UploadFault(s) ==
  \/ \E f \in Files : PutDamaged(s, f) \/ PutFails(s, f)
  \/ CommitDamaged(s)
  \/ CommitFails(s)
  \/ DownloadFails(s)
  \/ MarkCompleteFails(s)
  \/ UnlinkFails
=============================================================================
