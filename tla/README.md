# Verification of the trace collection

This directory holds TLA+ specifications of the system in this repository: a
corpus is built, each shard of it is run through a mixture-of-experts model by
a capture binary, the routing traces are uploaded, checked and recorded, and
analyses read the traces back.  The specifications are checked with TLC on
small instances, and their safety properties are proved with TLAPS for every
value of the constants.

1. [The system](#1-the-system)
2. [The modules](#2-the-modules)
3. [The runs](#3-the-runs)
4. [The proofs](#4-the-proofs)
5. [Disagreements found](#5-disagreements-found)
6. [What is not modelled](#6-what-is-not-modelled)
7. [Plan](#7-plan)

Paths are relative to the repository (`src/runtime/...` and so on are its
source tree `src/`).

## 1. The system

The order below is the order of the data.

| part | state it keeps | operations | what makes it correct |
|---|---|---|---|
| corpus fetch (`corpus/fetch.py`, `spec.py`) | documents so far, deduplication set, per-source budgets and reports | read a source, clean, truncate, drop, emit; reallocate a shortfall | parallel rows stay aligned over languages, budgets are conserved |
| corpus build (`corpus/build.py`) | the documents, their split, order and shard | validate, `assign_splits`, `interleave_documents`, `assign_shards`, `write_corpus`, `load_corpus` | every stratum in every split, every prefix representative, whole documents in shards under the target |
| shard planning (`runtime/runner.py` `plan_shards`) | shards seen, offsets, running token count | take or refuse a document, write a file per shard | the plans tile the corpus |
| setup (`runtime/setup_kaggle.py`) | the session's machine: source tree, patches, binary, models | clone, patch, build, download, verify; each skipped when done | what runs is what the pins say |
| preflight and driver (`runtime/preflight.py`, `scripts/kaggle_collect.py`) | none | check disk and credentials, start the collection | no session starts that cannot end well, none refused that could |
| session loop (`runtime/runner.py` `run_collection`, `run_shard`, `session.py`) | position in the plan, time budget, collection log | skip, capture, manifest, upload, log, stop | sessions add up to a complete collection |
| capture binary (`capture/moe_trace.cpp`, `trace_writer.hpp`, `node_spec.hpp`) | staging buffers, a cursor per stream and layer, five files, counters | decode a document in ubatches, file the rows of a tensor, flush a document, close, write the stats | row i of every stream is about token i |
| stats validation (`runner.py` `validate_stats`) | none | bracket node and row counts | no bad shard accepted, no good one refused |
| upload (`runtime/upload.py`) | local files, remote files, digests taken before the transfer | size check, hash, store, download and compare, record, delete | bytes leave scratch only when durable and recorded |
| ledger (`runtime/state.py`) | a file and a session's copy of it | load, mark complete, save by rename | a record is durable and never lost |
| reader (`traces/reader.py`, `format.py`) | shards in order, offsets | concatenate streams, pair hidden rows with tokens | rows of one experiment, each with its own token |
| validation (`traces/validate.py`) | none | audit a shard from its files | no false alarm, nothing false passes; but for the hidden indices, numerical |
| conversion and publication (`scripts/kaggle_convert.py`, `kaggle_publish*.py`) | weights, local records, the model's block in `models.yaml`, versions on the hub | convert, quantize, audit, upload, record, register | no cut file goes out, the records describe the hub |
| probes, metrics, tables (`probes/`, `metrics/`, `analysis/`) | none | numerical work on finished traces | numerical |

**How they interact.**  `run_collection` is sequential code and drives
everything in a session: it calls `plan_shards` once, `load_or_create` once and
`run_shard` per shard; `run_shard` starts the capture binary as a child process
and learns of it through its exit code, its stats file and its stream files;
`upload_shard` talks to a storage backend, one commit for a shard (Hugging
Face) or a file at a time (a local directory), and to the ledger.  Inside the
capture binary, the eval callback is called by the graph scheduler once per
tensor, ubatch after ubatch.  Sessions of one collection share the backend and,
if the scratch disk survives, the ledger file.  Setups, conversions,
publications and collections are jobs that somebody starts one after the
other, on one machine or several; they share the scratch disk (checkout, two
build directories, weights), the records under `results/`, `models.yaml`, and
the hub.  `fetch_corpus` and `build` are programs of their own that hand over
files.

**What is hard.**

* A session may be killed between any two steps, run out of its time budget, or
  lose the scratch disk with the ledger on it; the next one, perhaps with
  another configuration, finds what was left.
* The backend may fail half-way, report a failure after it stored everything,
  or report success and hold other bytes.
* The ledger is two copies, memory and file, and saving may fail between them.
* The callback sees a tensor at a time: one that is missing, doubled, pruned or
  mistyped leaves every later row of its stream at the wrong place, in buffers
  that still hold plausible rows of the document before.
* The validation of a shard has to infer the number of ubatches from sums.
* The corpus has three orders: of fetch, of writing and of shard ids.
* The languages of a parallel control are independent streams, any of which may
  end or have a record refused in the middle of a row.
* Almost every step of a setup and a conversion is skipped when its output is
  there, and what is there may be of other pins, unpatched, or cut short.

PROJECT.json lists these as hazards, each at its line, with the properties that
would catch it.

## 2. The modules

```
 ShardFiles <- ShardLedger <- ShardUpload <- Collection <- CollectionProofs
               TraceReader <----------------/|   (PROPERTY) DurableShards
                                             MCCollection
 ShardStats, Sorting <- Capture <- MCCapture, CaptureProofs <- CaptureGateProofs
 Sorting <- ShardPlan <- MCShardPlan, ShardPlanProofs
 SplitAllocation <- CorpusBuild (INSTANCE ShardPlan) <- MCCorpusBuild
                                CorpusBuildProofs (INSTANCE ShardPlanProofs)
 Sorting <- CorpusFetch <- MCCorpusFetch, CorpusFetchProofs
 SourceTree <- Weights <- Provenance <- MCProvenance, ProvenanceProofs
```

(`A <- B`: B extends A.)  *Sorting* is `sorted()` of a set of numbers.  The
proofs of the capture and corpus families extend *SetLemmas*, which says what
the sums over sets and the sorted sequences of the models are.

**Collection family.**  *ShardFiles* says what a file may hold.  A content is
the version it belongs to (configuration, capture leg and registration of the
model), `Damaged` or `Absent`; equal content stands for equal SHA256, which
repeated captures give because a capture is deterministic for a configuration
(T3.6 of the plan the code cites).  *ShardLedger* is `ShardState`: `mem` is the session's copy,
`disk`/`diskCfg` the file.  *ShardUpload* is `upload_shard` with its two kinds
of backend: `pc` goes `check`, `upload`, `verify`, `record`, `delete`,
`complete` or `failed`, and each action is one step a crash can separate from
the next; the damage and the exceptions of each step are actions of their own.
*Collection* adds the loop over shards, the capture and the manifest of a shard
as the upload sees them, the time budget, the log, and kills, restarts with any
configuration and registration, and the loss of scratch.  *DurableShards* is what it promises in
two variables: which shards the backend holds whole, and which are recorded; a
shard is recorded only when held, and what is recorded is never overwritten.
`Collection!Promise` is the refinement mapping.  *TraceReader* is the
constructor of `TraceReader` as operators on what shard directories hold:
which directories it finds, which manifests it takes, which shards it merges
and which sizes it accepts.  Collection asks it about the backend.

| Collection | code |
|---|---|
| `SessionStart` | `main` up to the loop: `load_or_create` and a new budget |
| `Skip`, `BeginShard`, `StopOnBudget`, `FinishList` | head of the loop of `run_collection`; `run_shard` on a recorded shard |
| `CaptureOK`, `CaptureShort`, `CaptureFails`, `BuildManifest` | `run_shard` up to the upload |
| `HashLocal` ... `Unlink` | `upload_shard`, in its order |
| `ReportComplete`, `ReportFailed` | the log row, and the loop going on or breaking |
| `Killed`, `LoseScratch`, `Expire` | the environment |

**Capture family.**  *ShardStats* is the arithmetic of `validate_stats` as
operators.  *Capture* is one run of the binary over one shard and the verdict on
it.  A row is the pair of document and position it was computed from, so that a
row in the wrong place shows.  `graph` says what the build does with each node
of the specification (whole, absent, twice, pruned to its last row, mistyped;
at most one node is defective, as one operator fusion or one stale name makes
it), `mode` is the decode mode, `text` the length of each document.
`CaptureNode`/`RefuseNode` are `moe_cb`, `UBatchDone` the decode loop,
`EndDocument`/`CheckFails` the lock-step check and `end_document`, `Close` and
`WriteStats` the end of `main`, `Judge` the verdict of `run_shard`.  The five
files of a document are written one after the other and may be cut short after
any of them.

**Corpus family.**  *SplitAllocation* is `_allocate`, with ratios in percent
instead of floats.  *CorpusBuild* is `build()`: the loops of
`interleave_documents` and `assign_shards` one document a step, the hash orders
(which are fixed by a seed) as any permutation within a stratum.  The fractions
`emitted/total` are compared by cross-multiplication.  When the file is written
the actions of *ShardPlan* take over, on the same state.  *ShardPlan* alone
starts from any file, because `plan_shards` reads what it is given, and that is
where its refusals can happen.

*CorpusFetch* is `fetch_corpus`: both loops over the sources, a record a step.
A text is a class of near duplicates, `Unfit` a record that a filter refuses;
the streams are arbitrary, any record may be next and any stream may end.
`InRow` ... `ControlFilled` are its parallel controls, `Reallocate` the sharing of
what the controls left, `AtVolume` ... `LanguageFilled` the volume sources with
their cumulative budgets per language, `Finish` the reports and `result.ok`.

**Provenance family.**  Which source a binary was compiled from, and which file
a trace came from, decided by steps that look at presence and at records.
*SourceTree* is the llama.cpp checkout in its three git commands, the patches
one at a time, and the two build directories; a built target carries the
source it was compiled from.  *Weights* is the weights of a model: a GGUF is
the commits of the converter and the quantizer and whether it is whole, so
equal records are equal SHA256.  *Provenance* runs the jobs one after the
other.

| Provenance | code |
|---|---|
| `StartBuilder`, `GitInit` ... `Checkout` | `step_llama` of `setup_kaggle.py`, in a setup or a conversion |
| `ApplyPatch`, `PatchRefused` | `_apply_patches` |
| `SkipBuild`, `Configure`, `Compile` | `step_build` |
| `StartConverter` ... `RegisterConverted` | `convert_one` of `kaggle_convert.py`, with its audit and its record |
| `StartPublish` ... `RegisterPublished` | `publish_one` of `kaggle_publish.py`, with and without `--rehash` |
| `Download`, `Prepare`, `SetupRefuses` | `acquire_gguf`, with its checks, and the audit of `kaggle_setup.py` |
| `Collect`, `CollectDone` | `find_gguf` of `kaggle_collect.py` and the claim of the manifests |
| `EditPin`, `NewSession`, `Stop` | the environment: pins, machines, kills |

`moved` and `blind` are history variables: whether the pins have changed since
the scratch disk was empty, and whether a publication has gone without
`--rehash`.

Definitions that begin with the comment `MUTANT` are the wrong variants of the
definition that follows; nothing uses them.  They document which slip each
property is there to catch, and PROJECT.json pairs them.

## 3. The runs

| run | states | asks |
|---|---|---|
| `collection_safety` | 1 867 000 | durability, ledger, order of upload, refinement, reading back, and that every shard gets recorded |
| `capture_safety` | 1 372 000 | alignment of the streams, the verdict, and the audit of the hidden indices |
| `shardplan_safety` | 231 000 | which corpus files are planned, and how |
| `corpus_safety` | 42 000 | splits, interleaving, shards, and that the plan takes them |
| `fetch_safety` | 963 000 | rows, duplicates, counts and budgets of a fetch |
| `provenance_safety` | 4 320 000 | what binaries and weights really are, against what is recorded of them |
| `collection_legs`, `collection_failed`, `collection_scratch`, `capture_decode`, `corpus_index`, `provenance_manifest` | violations | see section 5 |

**collection_safety**: two shards, two streams and a manifest, two
configurations, two registrations of the model, both backends, three faults.
Two shards are enough for one to
be recorded while the other is at work; two streams for a transfer to stop
between streams as well as before the manifest; two configurations for a ledger
to be met by another session; three faults for a damaged transfer, a kill and a
lost ledger in one behaviour.  *RecordedIsDurable* and *ImplementsPromise* are
the point of the upload order: recording before verifying, taking presence for
integrity, hashing after the transfer, or skipping by anything but the ledger
break them.  *NeverDropOnlyCopy* is the same seen from the deletion and
*VerifiedRowsAreTrue* from the log.  *RecordsKept* says that the rewriting of
the whole ledger from a session's copy never drops a record.  *ManifestLast*
says that where a manifest is on the backend every stream is there too, at any
moment, mid-transfer included; it says nothing of their bytes, which a damaged
transfer may have spoilt.  *CompleteTraceOpens* joins the upload to the reader:
when the ledger has every shard, the reader finds them all, each with its
manifest and with files of the sizes it states, all of the ledger's
configuration, although earlier sessions under another one, whose ledger was
lost, have written to the same prefixes, and although the manifest is in none
of the recorded checksums.  What the ledger does not compare the reader does:
of the 13 keys of `SHARD_INVARIANT_KEYS`, nine come from `models.yaml` and the
node specification, which may change between two sessions of one ledger
(`meta`).  The property therefore says exactly which complete ledgers the
reader opens: those whose sessions ran under one registration.

The run is under `FairSpec`.  Fairness is weak, on the whole loop (`Run`:
sequential code that runs on unless killed) and on starting sessions (`Start`:
whoever collects starts another while shards are missing, with the
configuration the ledger accepts).  The budget is not fair: it may be spent
during the very first capture of every session, and *AllRecorded* still holds
because the first shard of a session runs before the clock is looked at.
Faults are finitely many (`MaxFaults`); with faults for ever no shard need ever
be recorded.

**capture_safety**: three documents of up to four tokens under a context of three
(so truncation happens), ubatches of two (so a document may need two, the last
partial), stride two, two layers, every decode mode, each defect of each node,
both memory layouts of the topk tensor, and one I/O fault.  *StreamsAligned*
says that no row reaches a file under another token than its own,
*AcceptedIsWhole* that an accepted shard holds each token of each document once
in files as long as the stats say, *HiddenFollowsFlags* that the k-th flagged
token and the k-th hidden row, written by different code and paired by the
reader, are of the same token, and *CleanBaselineAccepted* that the brackets
are not too tight.  *StrideCheckIsExact* holds the writer against the audit of
`validate.py`, which recomputes every hidden index from `tokens.bin`: on an
accepted shard it passes exactly when no index has wrapped in the 32 bits it is
stored in and the documents come in the order of their ids.  So that both can
fail, alone and together, the ids are 1, 0 and 3 and an index has three bits
(`IndexSpace` = 8): the first document may or may not have a hidden row before
the second one's, and a row of the third wraps to an index that ascends.
Shards without hidden rows are left out of it: there the audit only compares
the stride with the number of tokens, and reports an error for a shard whose
short documents all fall between the multiples of the stride.

**shardplan_safety**: every file of up to four documents, over three shard ids,
unsharded and repeated documents included.  Four documents are enough to reopen
a shard after another one and to repeat an id within and across shards.

**corpus_safety**: five documents in strata of three and two (three is the
smallest stratum the minimum-one repair serves), lengths 1, 3 and an oversized
4, shards of 4 tokens, every hash order.  *PrefixesAreRepresentative* is the
guarantee behind rule 3 of `build.py`: at every moment any two strata have
delivered the same fraction of their tokens up to one document; comparing
tokens instead of fractions breaks it.  *AllocationsAreFair* checks the
allocation for strata of up to `MaxStratum` = 40 documents, four times the
period of the 80/10/10 ratios.  *ShardsAreGreedy* and *BuiltCorpusIsPlanned*
join `assign_shards` to `plan_shards`.

**fetch_safety**: a domain with a parallel control in two languages, a volume
source in two languages with weight three and one in one language, and a second
domain of one source; three texts of one token and three of two
(interchangeable, hence the symmetry), streams of up to three records.  Two
languages are enough for a row to be cut between them; two volume sources of
unequal weight for the rounding of a shortfall to matter; six texts for a
duplicate within a row, between sources and between domains.  *RowsAligned*,
*IndexIsCorpus* and *RepeatsOnlyInRow* are about one decision, made in three
places: what a half-read row may leave behind.  *RecordsAccounted* is rule 5 of
`fetch.py`.  *BudgetsHold*, *FilledUnlessReported* and *LanguagesAreEven* are
about the arithmetic: the reallocation conserves what is missing, the cumulative
budgets of the languages hand on what one of them leaves, and no source passes
its budget by more than a document.

**provenance_safety**: two commits, one patch, one change of the pins, three
setups or conversions, two versions on the hub and one kill, with any number of
publications, collections and new machines.  One change of the pins and two
commits tell what is stale from what is not; three builds are a setup, a
conversion that leaves the tree unpatched, and a setup that finds it; two
versions are the first upload and its repetition; one kill may come after any
step.  With two versions *ResentOnlyAfterKill* comes to "no copy without a
kill"; that each further copy needs a kill of its own is its theorem.  No commit is special (`Init` picks the pin among all of them), hence the
symmetry.  *PatchesNeverMissing* and *BuiltFromThePin* say
what is compiled and what is found: until the pins change, the binaries of a
collection are the pinned source, although a conversion shares the checkout
without the patches.  After they change, a setup skips the build of a binary it
finds, of whatever source; neither property speaks of that.  *QuantizedIsWhole* says that taking an existing file for
a finished one is caught later, for the files that `llama-quantize` writes.
*PublishedIsOnHub* and *ResentOnlyAfterKill* are the two sides of the record of
a publication.  *PreparedManifestIsTrue* says when the claim of a manifest can
be relied on.

`CHECK_DEADLOCK FALSE` is set for Capture, ShardPlan, CorpusBuild and
CorpusFetch, which are runs that end, and for Provenance, which stops when the
jobs it is bounded by are used up.

Bounds: `MaxFaults` (faults in a behaviour), `MaxText` (tokens of a document),
`MaxRows` and `MaxShard` (rows and shard ids of a corpus file), `MaxStratum`,
`MaxRecords` (records of a stream), `IndexSpace` where it is less than 2^32, `MaxEdits`, `MaxJobs`, `MaxVersions` and
`MaxStops` (changes of the pins, setups and conversions, versions, kills).  No
other counter of the models grows without end.

## 4. The proofs

*CollectionProofs* proves, for any number of shards, streams, configurations,
legs and faults:

| theorem | property |
|---|---|
| `TypeCorrect` | `TypeOK` |
| `RecordedShardsAreDurable` | `RecordedIsDurable` |
| `LedgersAreOfOneConfig` | `OneConfigPerLedger` |
| `OnlyCopyIsKept` | `NeverDropOnlyCopy` |
| `RecordsAreKept` | `RecordsKept` |
| `ManifestIsLast` | `ManifestLast` |
| `CompleteTracesOpen` | `CompleteTraceOpens` |
| `VerifiedRowsAreTruthful` | `VerifiedRowsAreTrue` |
| `CollectionImplementsPromise` | `ImplementsPromise` |

Assumed are `FilesAssumption` and `ContentAssumption` (ShardFiles: there is a
shard and a stream, the manifest is not a stream, the markers `None`, `Absent`,
`Damaged` are none of the values they are told apart from) and
`UploadAssumption`; TLC evaluates them in every run.

`RecordedIsDurable` is not inductive.  A step that writes to the backend keeps
it only because the shard written is not recorded, which the session knows from
its copy of the ledger, and recording keeps it only because the digests
recorded are those that were verified.  The inductive invariant `IInv` (theorem
`Invariance`) therefore adds, by the position of the session: it is at a shard
of the list; its copy agrees with the file, but for the one record whose save
failed; the shard at work is unrecorded and the one being deleted is recorded;
what was captured, hashed and verified are the same bytes; and the
configuration of the session is the ledger's.  `TypeStep` and `CoreStep` have
one step per action of `Next` (`NextCases`).  The action properties and the
refinement follow from `IInv` by looking only at the steps that can change the
state they speak of (`StorageSteps` for the refinement).  `ManifestIsLast`
needs one fact more, `StoredSoFar`: the streams no longer in `todo` are there.

`CompleteTracesOpen` likewise needs that a recorded shard is of one version
with its manifest (`RecordedIsWhole`), which the steps of `StorageSteps` keep.
The version recorded is of the ledger's configuration but of any registration
(`RecordedShard`), so the manifests differ in nothing else and the reader's
comparison comes down to `OneRegistration`.

*ShardPlanProofs*, for any corpus file, of any length:

| theorem | property |
|---|---|
| `PlanTyped` | `TypeOK` |
| `PlannedExactlyUsable` | `PlannedIffUsable` |
| `PlansTile` | `PlansTileCorpus` |

The invariant `PlanInv` (theorem `PlanInvariant`) says what the loop knows of
the documents it has read: they are usable, the documents of each shard seen
are those from one place to another (`RunOf`), the shard being filled is the
last one opened, and a refusal has its reason in the file.  Taking a document
of the open shard makes its run longer by one, and taking one of a new shard
opens a run of one; a document of a shard that was closed would split a run,
which is the case the code refuses.

*CaptureProofs* and *CaptureGateProofs*, for any number of layers, documents
and I/O faults, any texts and ids, any context, ubatch size and stride, and a
defect of any node of the graph:

| theorem | property |
|---|---|
| `Typed` | `TypeOK` |
| `RowsBelongToTheirTokens` | `StreamsAligned` |
| `AcceptedShardIsWhole` | `AcceptedIsWhole` |
| `HiddenRowsFollowFlags` | `HiddenFollowsFlags` |
| `HiddenStrideAudit` | `StrideCheckIsExact` |
| `CleanBaselinesPass` | `CleanBaselineAccepted` |

Assumed are `StatsAssumption` and `CaptureAssumption` (types; the context, the
ubatch size and the numbers of layers and documents are not zero) and
`NothingAssumption` (the marker of a missing report is not a report).
That no row reaches a file under another token is not inductive: an
`end_document` is right only because the buffers are.  In the invariant
`CaptureInv` (theorem `CaptureInvariant`), *CursorsTell* says where the cursor
of a node is, by what the graph does with the node: at the tokens decoded if
the node is whole, at zero if it is absent or mistyped, at twice as many if it
comes twice, and not past them if it is pruned.  A cursor that has kept up has
right rows behind it (`RowsRight`).  The lock-step check lets a document pass only
when all cursors are at its size, which leaves the nodes whose rows are right;
a pruned tensor that kept up was one row long.  *FilesWhole* and *HiddenPaired*
then follow the appending of a document: the flagged tokens of the longer file
are those of before and the chosen positions of the new document, in the same
order in which its hidden rows are compacted.

`HiddenStrideAudit` needs the order of the token rows besides
(`TokensInOrder`), and no hypothesis about the ids.  In an accepted shard the
flagged tokens are the subsamples of the documents, so the audit comes down to
two questions (`AuditIsOfIndices`): whether every index is the one stored, which
is whether it fits, and whether the indices ascend.  Two subsamples that
interleave nowhere are in the order of their ids (`OrderOfIds`): blocks of
different ids are apart (`BlocksApart`), and two of the same id share their first
captured position, and with it an index.

For the gate, `GateInv` brackets what a run counts.  There is a number of
ubatches, all full but the last of each document (`UBatchesAre`), which the node
count is a multiple of, and the subsample takes one token in `Stride` up to a
part of a block at both ends of each document (`TotalsTell`).  The brackets of
`_check_nodes_captured` and `_check_n_captured` are what follows from the
totals alone, so the clean run is inside.

*CorpusFetchProofs*, for any sources, languages, texts, weights, shares,
targets and streams of any length:

| theorem | property |
|---|---|
| `Typed` | `TypeOK` |
| `AlignmentIsGuaranteed` | `RowsAligned` |
| `FilterHoldsTheCorpus` | `IndexIsCorpus` |
| `TextsAreUnique` | `RepeatsOnlyInRow` |
| `EveryRecordIsCounted` | `RecordsAccounted` |
| `NoSourceOverspends` | `BudgetsHold` |
| `NoTokenIsLost` | `FilledUnlessReported` |
| `LanguagesGetEqualParts` | `LanguagesAreEven` |

Assumed are `FetchAssumption` (types; source names are distinct, which the
specification checks; some text is the largest, since `max_doc_tokens` bounds
them) and `SpecAssumption` (what the validation of a specification refuses).
That a row with as many documents as there are languages has one of each does
not follow from its length: the code counts.  The invariant `IInv` (theorem
`Invariance`) adds `InStep`, the streams of a control before the current
language have yielded exactly one record more than the others, and
`RowInOrder`, the languages of the row read so far ascend and are all of the
row now being read; n ascending languages out of n are all of them, and every
document of the row has its row number.  The rest of `IInv` is the bookkeeping
of the filter and of the counts, step by step.

The token properties need a second invariant, `BudgetInv` (`BudgetInvariance`).
*BudgetsAddUp*: the target of a domain is what its volume sources are asked for
plus what its controls have had or may still get.  It is set up by the rounding
of `SharedOut` (`BaseAddsUp`: the last source gets what the others leave) and
kept by the reallocation, which deals out the shortfalls of the controls the
same way; a domain that ends below its target therefore has a volume source
that ended below its budget, and that one is reported.
*InParts*: a language of a volume source is left with at least its part of the
cumulative budget, if no stream of the source ended, and with less than a
document more, so no two languages differ by more than a document and what
rounding takes.  Rounding may leave a budget below zero; `Cap` and
`NothingWanted` are about those.

*CorpusBuildProofs*, for any number of documents and strata, any lengths, any
ratios and targets, and any hash orders:

| theorem | property |
|---|---|
| `BuildTyped` | `TypeOK` |
| `SplitsCover` | `SplitsCoverStrata` |
| `AllocationsFair` | `AllocationsAreFair` |
| `PrefixesRepresent` | `PrefixesAreRepresentative` |
| `ShardsGreedy` | `ShardsAreGreedy` |
| `BuiltPlanned` | `BuiltCorpusIsPlanned` |

Assumed are `RatioAssumption` (percentages that make 100), `BuildAssumption`
(types; `shard_tokens` is not below `max_doc_tokens`, which the specification
checks; its conjunct about the context no proof uses).

The allocation is arithmetic, with no induction: the floors leave at most two
documents, which go to the largest remainders (`LargestRemainderIs`), and the
repair of each split takes from the largest one (`RepairIs`, `RepairedIs`,
`AllocateIs`).

The invariant `BuildInv` (theorem `BuildInvariance`) has a part for each loop.
*Counted* and *Written*: the documents in the corpus are the first `cursor` of
each stratum, each once, and `emitted` is the sum of their lengths.
`PrefixesAreRepresentative` is inductive with these: when a document of k is
emitted, k was not ahead of any live stratum, so it gets ahead by the document
at most, and a stratum that is not live has delivered everything (`EmitPrefixes`).
*Sharded*, *Filled* and *Contiguous*: the shard ids written never go down or
skip, no shard is over its target, `used` is the load of the shard being
filled, and if that one is empty the one before it was closed full.  *Filed*:
past `write_corpus` the file is the corpus, and either nothing was read of it or
`PlanInv` holds.  The proof takes `PlanInv` and its steps from an instance of
ShardPlanProofs, and adds that the file is usable (`FileIsUsable`: ids are
distinct because each document is written once, and no shard is reopened
because shard ids do not go down), so `plan_shards` cannot refuse it.  The
tokens of a plan are those of a run of the file, and the run is the places of
one shard id (`GroupTokens`).

*ProvenanceProofs*, for any commits, patches, changes of pins, jobs, kills and
versions:

| theorem | property |
|---|---|
| `TypeCorrect` | `TypeOK` |
| `BinariesAreOfThePin` | `BuiltFromThePin` |
| `NoPatchIsMissing` | `PatchesNeverMissing` |
| `NoCutFileIsPublished` | `QuantizedIsWhole` |
| `RecordsAreOnHub` | `PublishedIsOnHub` |
| `KillsPayForCopies` | `ResentOnlyAfterKill` |
| `PreparedClaimsAreTrue` | `PreparedManifestIsTrue` |

Assumed are `SourceAssumption`, `WeightsAssumption` and `ForeignAssumption`
(types, and markers that are none of the values they are told apart from).
`IInv` says what is known at each place of a job: the patches not in `todo` are
in the tree, whatever tree was found; the file of a conversion past its
quantization exists and past its audit is not cut; a publication past its check
has the file its record names.  Two parts are less obvious.  `KillsPay`: a kill
between an upload and its record leaves a version that the next publication
sends again, so it must be paid for before the copy exists; the invariant
counts such an unsettled version as a copy already.  `PreparedStays`: the file
that a setup hashed may not be overwritten while `models.yaml` still has its
hash, which holds because a file that exists is never written again, and needs
that nobody was in the middle of writing it when it was hashed.

*SetLemmas* has the lemmas these share: induction over numbers and finite
subsets, restated of sets (the library states it of a predicate, which the
provers cannot instantiate), from which the folds of the community modules that
add up numbers are shown to be sums (`FoldExists`, `FoldIsSum`,
`SumFunctionOnSetIsSum`), with what sums do under union, reindexing and
comparison; the sorted sequence of a set (`Ascends`, `AscendingUnique`,
`AscendingUnion`), which the models write with `Ascending` because `SelectSeq`
and `SortSeq` cannot be expanded in a proof; and division with remainder.

Only model-checked: `AllRecorded`, since liveness under fairness is out of the
prover's reach.  Every other property of a passing run is a theorem.  The runs
of section 5 that end in a counterexample have nothing to prove.

## 5. Disagreements found

Each is a run TLC ends with a counterexample to what a document or a comment
says; PROJECT.json quotes the lines.

* `collection_legs`: a session with capture-variant flags resumes the ledger of
  a baseline collection, and its shards are recorded beside the others.
* `collection_failed`: a shard reported as failed may be recorded, when
  deleting its local files fails.
* `collection_scratch`: after a kill during the deletion, the files of the
  recorded shard stay on scratch beside those of the next one.
* `capture_decode`: the bracket on the node count assumes prefill batching and
  refuses clean captures of the decode modes.
* `corpus_index`: hidden rows are indexed by document id, ids follow the fetch,
  and the corpus is written in interleaved order, so the index does not ascend
  and the reader refuses the hidden states of a built corpus.
* `provenance_manifest`: manifests carry the SHA256 of `models.yaml`, not that
  of the file captured; a conversion registered after a setup, or a copy that
  is found by its name, makes them name other bytes.

## 6. What is not modelled

* Of the session loop: `--shards` (a session over some of the shards), the dry
  run, and the write probe of scratch before the first shard.
* Of the capture binary: parsing of arguments and JSONL, buffer-type overrides,
  the two calibration modes that write no trace, half-precision rounding.
* Of the planning: equality of the constants that the stats repeat, and the
  byte format of the per-shard files.  A row has at least one token, which
  `build()` ensures.
* Of the corpus build: text, the reports and the sidecar.  A document of the
  trace in `corpus_index` has as many tokens as its reference count; other
  counts change which tokens are captured, not their order.
* Of the fetch: normalisation, truncation, the script check and the sketch that
  decides what is a near duplicate; the readers; the validation of the
  specification; the command line, which writes the corpus when `result.ok`.  A
  domain without a volume source, whose shortfall is reported and cannot be
  made up, is left out by `SpecAssumption`.
* Of the reader: the lazy maps, the reading in chunks and the splits.  The keys
  it compares are two values, what the ledger compares too and what it does
  not; which of the nine keys a new registration changes is not told apart.
  Size checks cannot tell the streams of another configuration from the
  manifest's, as a prefix that is being written again after a lost ledger may
  hold; `Opens` does not count such a trace as one that opens, the program may
  open it.
* Of the setup: environment, dependencies, the node scan, the patches of the
  quantizer, the environment of the converter.  A setup keeps patches of an
  earlier pin that the new one no longer names, and builds what is there with
  the rest (`PatchesNeverMissing` promises one direction); a kill between
  `git init` and `git remote add` leaves a checkout that no later setup repairs
  (`CheckoutRefused`); both are in the model.
* Of the search for files: `models/` under the repository, the CPU binary that
  `find_binary` falls back on, and which of several attached files is first.
* Of conversion and publication: a kill of `llama-quantize` between its last
  tensor and the header, which leaves a file of full size without a header (a
  cut file of the model is always short); the download of the source checkpoint, the F16
  extras, `--force` resends, re-uploads of third-party files, and the estimate
  of disk space.  A conversion record carries the commit of the moment it is
  written, even when the file was skipped as already converted.
* Preflight and the driver before the runner: a decision table over
  measurements; a refused session changes nothing.
* Node specification, the validation of traces but for the hidden indices, the
  throughput sweep: one pass over text or arrays, with no state another part
  relies on.
* Hash collisions: equal SHA256 is equal content.
* Numerical code (probes, metrics, analysis, the comparison of traces) and
  vendored llama.cpp, which appears only as the order in which it calls the
  callback.

## 7. Plan

Done, in this order: Collection family with its proofs, Capture family,
ShardPlan, CorpusBuild, CorpusFetch with its proofs, Provenance family with its
proofs, TraceReader; then the proofs of ShardPlan, of Capture, of the budgets of
CorpusFetch and of CorpusBuild.

What is left to model is small: `--shards` in Collection (a session over some
of the shards), and the driver as a decision table.  What is left to prove is a
refinement of the capture, whose abstract form is the append of a whole
document, and of the fetch, whose abstract form is the append of a whole row.
