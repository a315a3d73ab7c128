------------------------------ MODULE Weights ------------------------------
(***************************************************************************)
(* The weights of one model: converted (scripts/kaggle_convert.py),        *)
(* published (scripts/kaggle_publish.py), fetched and checked by a setup   *)
(* (scripts/kaggle_setup.py) and named by the manifests of a collection    *)
(* (scripts/kaggle_collect.py, runtime/runner.py), over the machine that   *)
(* SourceTree describes.                                                   *)
(*                                                                         *)
(* A GGUF is what made it: the commit of the converter, the commit of the  *)
(* quantizer, and whether it is whole.  Equal records are equal SHA256.    *)
(* `Foreign' is a file of another publisher.                               *)
(***************************************************************************)
EXTENDS SourceTree, Sequences

CONSTANTS Foreign,
          MaxVersions,  \* bound: versions on the hub
          MaxStops      \* bound: kills and failures of jobs

ASSUME WeightsAssumption ==
    /\ Foreign # None /\ None \notin {"publish", "collect"}
    /\ MaxVersions \in Nat /\ MaxStops \in Nat

Ours == [converter : Commits, quantizer : Commits \cup {None}, whole : BOOLEAN]

ASSUME ForeignAssumption == Foreign \notin Ours /\ None \notin Ours

Contents == Ours \cup {Foreign}

Cut(c) == c \in Ours /\ ~c.whole

Finished(c) ==
    [converter |-> c.converter, quantizer |-> c.quantizer, whole |-> TRUE]

\* Whole conversions of one checkpoint have one size; a cut file is shorter.
SameSize(c, d) == c = d \/ (c \in Ours /\ d \in Ours /\ c.whole /\ d.whole)

\* A gguf: block of models.yaml.  `repo' is a file on Hugging Face, `kaggle' a
\* handle on the hub, `local' neither; sha is None as long as it is null.
Blocks == [from : {"repo", "kaggle", "local"}, sha : Contents \cup {None}]

Places == {"attached", "models", "gguf", "hub"}

VARIABLES
  requantizes, \* ConversionPlan.requantizes: FALSE for an MXFP4 source
  attached,    \* the file under /kaggle/input
  models,      \* scratch/models/<key>/<file>
  f16,         \* scratch/gguf: the output of the converter
  quantized,   \* scratch/gguf: the output of llama-quantize
  block,       \* configs/models.yaml: gguf of this model, or None
  converted,   \* results/convert_<key>.json: its sha256, or None
  published,   \* results/publish_<key>.json: its sha256, or None
  hub,         \* the versions under the handle
  prepared,    \* the --gguf of the last setup: place, version, and whether it
               \* was hashed against what models.yaml still says
  manifest,    \* of the collection that runs: the claim, the bytes, and whether
               \* it was given what a setup prepared; or None
  blind,       \* history: has a publication ever gone without --rehash
  stops        \* kills and failures so far

weightVars == <<requantizes, attached, models, f16, quantized, block, converted,
                published, hub, prepared, manifest, blind, stops>>

disk == <<attached, models, f16, quantized>>
records == <<block, converted, published, hub>>
rest == <<prepared, manifest, blind, stops>>

NothingPrepared ==
    [place |-> "none", version |-> 0, hashed |-> FALSE]

WeightsTypeOK ==
    /\ requantizes \in BOOLEAN
    /\ attached \in Contents \cup {None} /\ models \in {Foreign, None}
    /\ f16 \in Ours \cup {None} /\ quantized \in Ours \cup {None}
    /\ converted \in Ours \cup {None} /\ published \in Ours \cup {None}
    /\ block \in Blocks \cup {None}
    /\ hub \in Seq(Ours) /\ Len(hub) <= MaxVersions
    /\ prepared \in [place : Places \cup {"none"}, version : 0..MaxVersions,
                     hashed : BOOLEAN]
    /\ manifest \in [claim : Contents, bytes : Contents, as_prepared : BOOLEAN]
                    \cup {None}
    /\ blind \in BOOLEAN
    /\ stops \in 0..MaxStops

WeightsInit ==
    /\ requantizes \in BOOLEAN
    /\ attached = None /\ models = None /\ f16 = None /\ quantized = None
    /\ block \in {None, [from |-> "repo", sha |-> None],
                  [from |-> "repo", sha |-> Foreign]}
    /\ converted = None /\ published = None /\ hub = << >>
    /\ prepared = NothingPrepared
    /\ manifest = None
    /\ blind = FALSE
    /\ stops = 0

\* The file a conversion ends with: an MXFP4 source is not quantized again.
Artifact == IF requantizes THEN quantized ELSE f16

\* A file under the name the block gives: the foreign file has another one.
Named(c) == c # None /\ (c = Foreign <=> block.from = "repo")

Stay == UNCHANGED <<pin, git, tree, built, jobs, edits, moved, requantizes>>

\* What a setup hashed is not what models.yaml says any more.
Outdated(p) == [place |-> p.place, version |-> p.version, hashed |-> FALSE]

\* set_model_fields: a different value is kept, unless the caller insists.
Register(b, force) ==
    /\ block' = IF block = None \/ force THEN b ELSE block
    /\ prepared' = IF block' = block THEN prepared ELSE Outdated(prepared)

KeepBlock == UNCHANGED <<block, prepared>>

-----------------------------------------------------------------------------
(* kaggle_convert.convert_one, after the source tree and the build *)

Converting(place) == job = "convert" /\ at = place

NoQuantizer ==
    /\ Converting("weights") /\ built["cpu"]["llama-quantize"] = None
    /\ EndJob
    /\ UNCHANGED <<disk, records, rest>> /\ Stay

ReadyToConvert == Converting("weights") /\ built["cpu"]["llama-quantize"] # None

\* The converter writes for an hour or two; a kill leaves a cut file, ...
StartConverter ==
    /\ ReadyToConvert /\ f16 = None
    /\ f16' = [converter |-> tree.commit, quantizer |-> None, whole |-> FALSE]
    /\ GoTo("converting")
    /\ UNCHANGED <<attached, models, quantized, job, todo>>
    /\ UNCHANGED <<records, rest>> /\ Stay

ConverterDone ==
    /\ Converting("converting")
    /\ f16' = Finished(f16)
    /\ GoTo("quantize")
    /\ UNCHANGED <<attached, models, quantized, job, todo>>
    /\ UNCHANGED <<records, rest>> /\ Stay

\* ... and the next run takes a file that is there for a file that is done.
AlreadyConverted ==
    /\ ReadyToConvert /\ f16 # None
    /\ GoTo("quantize")
    /\ UNCHANGED <<job, todo, disk, records, rest>> /\ Stay

\* llama-quantize refuses an input whose tensors run past the end of the file.
StartQuantizer ==
    /\ Converting("quantize") /\ requantizes /\ quantized = None
    /\ IF Cut(f16)
         THEN EndJob /\ UNCHANGED quantized
         ELSE /\ quantized' = [converter |-> f16.converter, whole |-> FALSE,
                    quantizer |-> built["cpu"]["llama-quantize"].commit]
              /\ GoTo("quantizing") /\ UNCHANGED <<job, todo>>
    /\ UNCHANGED <<attached, models, f16>>
    /\ UNCHANGED <<records, rest>> /\ Stay

QuantizerDone ==
    /\ Converting("quantizing")
    /\ quantized' = Finished(quantized)
    /\ GoTo("audit")
    /\ UNCHANGED <<attached, models, f16, job, todo>>
    /\ UNCHANGED <<records, rest>> /\ Stay

AlreadyQuantized ==
    /\ Converting("quantize") /\ (requantizes => quantized # None)
    /\ GoTo("audit")
    /\ UNCHANGED <<job, todo, disk, records, rest>> /\ Stay

\* MUTANT: the audit is left to the setup.
NoAudit(c) == TRUE

\* The router audit reads the header.  llama-quantize writes the header last,
\* the converter first: only a cut output of llama-quantize fails the audit.
AuditPasses(c) == ~(Cut(c) /\ requantizes)

Audit ==
    /\ Converting("audit")
    /\ IF AuditPasses(Artifact)
         THEN /\ f16' \in IF requantizes THEN {f16, None} ELSE {f16}  \* --prune
              /\ GoTo("record") /\ UNCHANGED <<job, todo>>
         ELSE EndJob /\ UNCHANGED f16
    /\ UNCHANGED <<attached, models, quantized>>
    /\ UNCHANGED <<records, rest>> /\ Stay

WriteRecord ==
    /\ Converting("record")
    /\ converted' = Artifact
    /\ GoTo("register")
    /\ UNCHANGED <<job, todo, disk, block, published, hub, rest>>
    /\ Stay

\* --write, with --force or without; or neither.
RegisterConverted ==
    /\ Converting("register")
    /\ \/ KeepBlock
       \/ \E force \in BOOLEAN :
             Register([from |-> "local", sha |-> converted], force)
    /\ EndJob
    /\ UNCHANGED <<disk, converted, published, hub, manifest, blind, stops>>
    /\ Stay

ConvertStep ==
    \/ NoQuantizer \/ StartConverter \/ ConverterDone \/ AlreadyConverted
    \/ StartQuantizer \/ QuantizerDone \/ AlreadyQuantized
    \/ Audit \/ WriteRecord \/ RegisterConverted
-----------------------------------------------------------------------------
(* kaggle_publish.publish_one *)

Publishing(place) == job = "publish" /\ at = place

\* MUTANT: --rehash finds another hash and goes on.
MatchesSize(rehash) == SameSize(Artifact, converted)

\* check_local: the size always, the hash only with --rehash.
MatchesRecord(rehash) ==
    /\ SameSize(Artifact, converted)
    /\ rehash => Artifact = converted

\* MUTANT: the local record of an earlier publication is not looked at.
NeverPublished == FALSE

already_published == published = converted

\* load_artifacts finds the record and the file it names, and check_local passes.
StartPublish(rehash) ==
    /\ job = None /\ converted # None /\ Artifact # None
    /\ MatchesRecord(rehash)
    /\ job' = "publish" /\ GoTo(IF already_published THEN "register" ELSE "upload")
    /\ blind' = (blind \/ ~rehash)
    /\ UNCHANGED <<todo, disk, records, prepared, manifest, stops>> /\ Stay

Upload ==
    /\ Publishing("upload") /\ Len(hub) < MaxVersions
    /\ hub' = Append(hub, Artifact)
    /\ GoTo("record")
    /\ UNCHANGED <<job, todo, disk, block, converted, published, rest>>
    /\ Stay

\* write_publish_record: the hash of the conversion record, hashed again or not.
WritePublishRecord ==
    /\ Publishing("record")
    /\ published' = converted
    /\ GoTo("register")
    /\ UNCHANGED <<job, todo, disk, block, converted, hub, rest>>
    /\ Stay

\* --write, with --force-register or without; or neither.
RegisterPublished ==
    /\ Publishing("register")
    /\ \/ KeepBlock
       \/ \E force \in BOOLEAN :
             Register([from |-> "kaggle", sha |-> converted], force)
    /\ EndJob
    /\ UNCHANGED <<disk, converted, published, hub, manifest, blind, stops>>
    /\ Stay

PublishStep ==
    \/ \E rehash \in BOOLEAN : StartPublish(rehash)
    \/ Upload \/ WritePublishRecord \/ RegisterPublished
-----------------------------------------------------------------------------
(* kaggle_setup.acquire_gguf and run_router_audit, after the build *)

SettingUp == job \in Builders \ {"convert"} /\ at = "weights"

\* Where the bytes of a path are.
BytesAt(place, version) ==
    IF place = "hub"
      THEN hub[version]
      ELSE [attached |-> attached, models |-> models, gguf |-> Artifact][place]

\* The first place that has a file of the name, in the order of acquire_gguf.
Acquired ==
    IF Named(attached) THEN "attached"
    ELSE IF Named(models) THEN "models"
    ELSE IF Named(Artifact) THEN "gguf"
    ELSE IF block.from = "kaggle" /\ hub # << >> THEN "hub"
    ELSE "none"

\* hf download: the file appears when it is complete.
Download ==
    /\ SettingUp /\ block # None /\ block.from = "repo" /\ Acquired = "none"
    /\ models' = Foreign
    /\ UNCHANGED <<attached, f16, quantized, job, at, todo>>
    /\ UNCHANGED <<records, rest>> /\ Stay

\* MUTANT: the size is taken for the hash.
VerifiedBySize(c, hashed) ==
    /\ block.sha # None => SameSize(c, block.sha)
    /\ job # "setup_skip_gates" => AuditPasses(c)

\* The size and, without --skip-hash, the SHA256 of models.yaml, when it has
\* one, and without --skip-gates the audit.
Verified(c, hashed) ==
    /\ block.sha # None => SameSize(c, block.sha) /\ (hashed => c = block.sha)
    /\ job # "setup_skip_gates" => AuditPasses(c)

Prepare(hashed) ==
    /\ SettingUp /\ block # None /\ Acquired # "none"
    /\ Verified(BytesAt(Acquired, Len(hub)), hashed)
    /\ prepared' = [place |-> Acquired, hashed |-> hashed /\ block.sha # None,
                    version |-> IF Acquired = "hub" THEN Len(hub) ELSE 0]
    /\ EndJob
    /\ UNCHANGED <<disk, records, manifest, blind, stops>> /\ Stay

SetupRefuses(hashed) ==
    /\ SettingUp
    /\ \/ block = None
       \/ block # None /\ Acquired = "none" /\ block.from # "repo"
       \/ /\ block # None /\ Acquired # "none"
          /\ ~Verified(BytesAt(Acquired, Len(hub)), hashed)
    /\ EndJob
    /\ UNCHANGED <<disk, records, rest>> /\ Stay

SetupStep ==
    Download \/ \E hashed \in BOOLEAN : Prepare(hashed) \/ SetupRefuses(hashed)
-----------------------------------------------------------------------------
(* kaggle_collect and the manifests of runner.build_shard_manifest *)

\* find_gguf: neither scratch/gguf nor the cache of the hub is searched.
Found == IF Named(attached) THEN attached ELSE models

GivenOrFound(given) ==
    IF given THEN BytesAt(prepared.place, prepared.version) ELSE Found

\* A collection with the --gguf a setup printed, or without.  A cut file does
\* not load; a manifest without a hash is refused; nothing is hashed.
Collect(given) ==
    /\ job = None /\ block # None /\ block.sha # None
    /\ built["cuda"]["moe_trace"] # None
    /\ IF given THEN prepared.place # "none" ELSE Named(Found)
    /\ ~Cut(GivenOrFound(given))
    /\ job' = "collect" /\ GoTo("capture")
    /\ manifest' = [claim |-> block.sha, bytes |-> GivenOrFound(given),
                    as_prepared |-> given /\ prepared.hashed]
    /\ UNCHANGED <<todo, disk, records, prepared, blind, stops>> /\ Stay

CollectDone ==
    /\ job = "collect"
    /\ manifest' = None
    /\ EndJob
    /\ UNCHANGED <<disk, records, prepared, blind, stops>> /\ Stay
-----------------------------------------------------------------------------
(* The environment *)

Versions == {hub[i] : i \in DOMAIN hub}

\* Another machine: scratch is empty, and there may be a dataset attached, made
\* from what was converted or published, or a foreign one.
NewSession ==
    /\ job = None
    /\ EmptyScratch
    /\ attached' \in {None, Foreign, Artifact} \cup Versions
    /\ models' = None /\ f16' = None /\ quantized' = None
    /\ prepared' = NothingPrepared
    /\ UNCHANGED <<requantizes, records, manifest, blind, stops>>

\* A kill, a failure of the network, a full disk.  (What stops a collection is
\* in Collection.)
Stop ==
    /\ job \notin {None, "collect"} /\ stops < MaxStops
    /\ stops' = stops + 1
    /\ EndJob
    /\ UNCHANGED <<disk, records, prepared, manifest, blind>> /\ Stay
=============================================================================
