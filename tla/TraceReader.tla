---------------------------- MODULE TraceReader -----------------------------
(***************************************************************************)
(* TraceReader.__init__ (src/traces/reader.py): which sets of shard        *)
(* directories a reader takes as one trace.  files is what the directories *)
(* hold, shard by shard: a backend, or a copy of one.                      *)
(***************************************************************************)
EXTENDS ShardFiles

(* A backend has no empty directories: a shard has one with its first file. *)
ShardDirs(files) == {s \in Shards : \E f \in Files : files[s][f] # Absent}

(* read_manifest refuses a missing manifest, one that does not parse and   *)
(* one without a required key.                                             *)
ManifestReadable(files, s) == files[s][Manifest] \in Versions

(* SHARD_INVARIANT_KEYS, thirteen of them.  run_config_sha256 and          *)
(* llama_cpp_commit are of the run configuration; gguf_sha256, quant,      *)
(* router_dtype and checkpoint_status are copied from models.yaml, and     *)
(* logit_tensor_used, n_moe_layers, n_experts, top_k and hidden_dim from   *)
(* the node spec: meta.  model and corpus are those of the directory.      *)
(* capture_variant is not among the keys.                                  *)
InvariantKeys(manifest) == <<manifest.cfg, manifest.meta>>

ShardsCompatible(files) ==
  \A s, t \in ShardDirs(files) :
    InvariantKeys(files[s][Manifest]) = InvariantKeys(files[t][Manifest])

(* check_file_sizes.  Streams of the run the manifest is about have the    *)
(* sizes it gives.  Streams of another run may have them too; Opens is     *)
(* what certainly opens, and leaves such a trace out.                      *)
FileSizesMatch(files, s) ==
  \A f \in Streams : files[s][f] = files[s][Manifest]

(* Shard ids cannot repeat here: a directory is named after its shard.     *)
Opens(files) ==
  /\ ShardDirs(files) # {}
  /\ \A s \in ShardDirs(files) : ManifestReadable(files, s)
  /\ ShardsCompatible(files)
  /\ \A s \in ShardDirs(files) : FileSizesMatch(files, s)
=============================================================================
