----------------------------- MODULE ShardFiles -----------------------------
(***************************************************************************)
(* The vocabulary of one trace: its shards, the files of a shard and what  *)
(* a file can hold.                                                        *)
(*                                                                         *)
(* The bytes of a file matter to the collection code in one way only: two  *)
(* copies either have the same SHA256 or they do not.  A file's content is *)
(* therefore the version that produced it - the run configuration, the     *)
(* capture leg (CaptureVariant) and the registration (model_meta and the   *)
(* node spec) of the session, since a recollection under the same three is *)
(* bit-identical (T3.6) - or Damaged (truncated, or altered in flight), or *)
(* Absent.                                                                 *)
(***************************************************************************)
EXTENDS Naturals

CONSTANTS
  NShards,    (* plan_shards numbers the shards 0 .. NShards-1.            *)
  Streams,    (* The stream files of a shard: logits, topk, ...            *)
  Manifest,   (* manifest.json, uploaded last.                             *)
  Configs,    (* Values of run_config_sha256.                              *)
  Legs,       (* Values of capture_variant.                                *)
  Metas,      (* What models.yaml and the node spec say of the model.      *)
  Absent,     (* No such file.                                             *)
  Damaged,    (* A file that is short, or whose bytes were altered.        *)
  None        (* "No record", "no ledger file".                            *)

Shards == 0 .. NShards - 1

Files == Streams \union {Manifest}

Versions == [cfg : Configs, leg : Legs, meta : Metas]

Content == Versions \union {Absent, Damaged}

(***************************************************************************)
(* ShardUploadResult.file_sha256: one digest per stream.  The manifest is  *)
(* left out because it carries the time of collection.                     *)
(***************************************************************************)
Digests == [Streams -> Content]

ASSUME FilesAssumption ==
  /\ NShards \in Nat \ {0}
  /\ Streams # {}
  /\ Manifest \notin Streams
  /\ None \notin Configs
  /\ None \notin Digests

ASSUME ContentAssumption ==
  /\ Absent \notin Versions
  /\ Damaged \notin Versions
  /\ Absent # Damaged
=============================================================================
