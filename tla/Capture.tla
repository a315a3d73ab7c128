------------------------------ MODULE Capture -------------------------------
(***************************************************************************)
(* The capture of one shard: the main loop and the eval callback of        *)
(* moe_trace (src/capture/moe_trace.cpp), the trace writer                 *)
(* (trace_writer.hpp), and the verdict run_shard reaches on its stats.     *)
(*                                                                         *)
(* A document is decoded in ubatches.  In each, the graph offers the       *)
(* callback one tensor per stream and MoE layer, with a row per token; the *)
(* callback files the rows where the cursor of that stream and layer       *)
(* stands.  At the end of the document every cursor must stand at its last *)
(* token, and the rows are appended to the stream files.                   *)
(*                                                                         *)
(* A row is the token it was computed from: <<document, position>>.        *)
(***************************************************************************)
EXTENDS ShardStats, Sequences, Sorting

CONSTANTS
  DocIds,      (* doc_id of the documents, in the order of the shard file. *)
  IndexSpace,  (* Values of a stored hidden index: 2^32 in the code.       *)
  Prefix,      (* decode_prefix of the "tail" mode.                        *)
  Modes,       (* Decode modes in use: a subset of DecodeModes.            *)
  MaxText,     (* Bounds the model: tokens in a document.                  *)
  MaxFaults,   (* Bounds the model: faults of the run.                     *)
  Nothing      (* A buffer cell never written, or no stats file.           *)

DecodeModes == {"off", "full", "tail"}

ASSUME CaptureAssumption ==
  /\ DocIds \in [1 .. NDocs -> Nat]
  /\ IndexSpace \in Nat \ {0}
  /\ Prefix \in Nat \ {0}
  /\ Modes \subseteq DecodeModes
  /\ MaxText \in Nat
  /\ MaxFaults \in Nat

TopkLayouts == {"none", "strided_view", "contiguous", "mixed"}

(* Nothing is no report.                                                   *)
ASSUME NothingAssumption ==
  Nothing \notin [exit_code : Int, n_docs : Int, n_tokens : Int, n_captured : Int,
                  n_docs_truncated : Int, nodes_captured : Int, topk_layout : TopkLayouts]

Docs == 1 .. NDocs

Layers == 1 .. NLayers

Nodes == {"hidden", "logits", "topk"} \X Layers

Positions == 0 .. NCtx - 1

(***************************************************************************)
(* What the build's graph does with a node the spec names: emits it whole, *)
(* not at all (fused away, or a stale name), twice, pruned to the last row *)
(* of the ubatch, or with another type or width than the spec says.  A     *)
(* build has at most one such defect.                                      *)
(***************************************************************************)
Emissions == {"whole", "absent", "twice", "pruned", "mistyped"}

Graphs == {[x \in Nodes |-> IF x = y THEN e ELSE "whole"] :
             y \in Nodes, e \in Emissions}

VARIABLES
  text,        (* Tokens of each document under this model's tokenizer.    *)
  mode,        (* decode mode of the run.                                  *)
  graph,       (* What the build does with each node.                      *)
  pc,
  doc,         (* Index of the current document.                           *)
  size,        (* doc_tokens.                                              *)
  at,          (* Tokens of the document already decoded.                  *)
  pending,     (* How often each node is still to come in this ubatch.     *)
  cursor,      (* cursor_topk, cursor_logits, cursor_hidden, per layer.    *)
  buf,         (* buf_topk, buf_logits, buf_hidden: rows by position.      *)
  failed,      (* "yes" once the callback has refused a tensor.            *)
  nodes,       (* n_nodes_captured.                                        *)
  layouts,     (* Layouts in which topk has arrived.                       *)
  truncated,   (* n_docs_truncated.                                        *)
  files,       (* The stream files, each a sequence of rows.               *)
  total,       (* total_tokens and total_captured of the writer, docs done *)
  rc,          (* Exit code.                                               *)
  stats,       (* capture_stats.json.                                      *)
  faults       (* Number of faults so far.                                 *)

inputVars == <<text, mode, graph>>

docVars == <<doc, size, at, pending, cursor, buf, failed>>

outVars == <<files, total>>

vars == <<text, mode, graph, pc, doc, size, at, pending, cursor, buf, failed,
          nodes, layouts, truncated, files, total, rc, stats, faults>>

NoRows == [x \in Nodes |-> [i \in Positions |-> Nothing]]

Zero == [x \in Nodes |-> 0]

Init ==
  /\ text \in [Docs -> 0 .. MaxText]
  /\ mode \in Modes
  /\ graph \in Graphs
  /\ pc = "document"
  /\ doc = 1
  /\ size = 0
  /\ at = 0
  /\ pending = Zero
  /\ cursor = Zero
  /\ buf = NoRows
  /\ failed = "no"
  /\ nodes = 0
  /\ layouts = {}
  /\ truncated = 0
  /\ files = [tokens |-> <<>>, topk |-> <<>>, logits |-> <<>>,
              hidden |-> <<>>, hidden_index |-> <<>>]
  /\ total = [docs |-> 0, tokens |-> 0, captured |-> 0]
  /\ rc = 0
  /\ stats = Nothing
  /\ faults = 0

Fault == faults < MaxFaults /\ faults' = faults + 1

NoFault == UNCHANGED faults

\* The run ends here with this exit code, unless it has one already.
Stop(code) ==
  /\ rc' = IF rc = 0 THEN code ELSE rc
  /\ pc' = "close"

-----------------------------------------------------------------------------
(* The global index of a token: NCtx indices are reserved per document.    *)
(* Computed in 64 bits, which it does not exceed.                          *)
GlobalIndex(d, i) == DocIds[d] * NCtx + i

\* MUTANT: a running count of the shard's tokens, not a block per document.
RunningIndex(d, i) == (total.tokens + i) % IndexSpace

(* As hidden_index stores it: narrowed, nothing looks whether it fits.     *)
StoredIndex(d, i) == GlobalIndex(d, i) % IndexSpace

Captured(d, i) == Stride > 0 /\ GlobalIndex(d, i) % Stride = 0

(***************************************************************************)
(* Tokens of the next ubatch.  A document is decoded in one span, in       *)
(* single tokens, or in a prefix and single tokens; llama_decode cuts a    *)
(* span into ubatches.                                                     *)
(***************************************************************************)
SpanEnd(n, a) ==
  CASE mode = "off"  -> n
    [] mode = "full" -> a + 1
    [] mode = "tail" -> IF a < Least(Prefix, n) THEN Least(Prefix, n) ELSE a + 1

UBatchSize == Least(UBatch, SpanEnd(size, at) - at)

Offered ==
  [x \in Nodes |-> CASE graph[x] = "absent" -> 0
                     [] graph[x] = "twice"  -> 2
                     [] OTHER               -> 1]

(***************************************************************************)
(* A document begins: tokenized, cut at NCtx (which is counted), the KV    *)
(* cache cleared, the cursors back at 0 and the hidden buffer zeroed.  The *)
(* other two buffers keep the rows of the document before.                 *)
(***************************************************************************)
BeginDocument ==
  /\ pc = "document"
  /\ doc <= NDocs
  /\ text[doc] > 0
  /\ size' = Least(text[doc], NCtx)
  /\ truncated' = IF text[doc] > NCtx THEN truncated + 1 ELSE truncated
  /\ at' = 0
  /\ pending' = Offered
  /\ cursor' = Zero
  /\ buf' = [x \in Nodes |-> IF x[1] = "hidden" THEN NoRows[x] ELSE buf[x]]
  /\ pc' = "decode"
  /\ NoFault
  /\ UNCHANGED <<inputVars, doc, failed, nodes, layouts, outVars, rc, stats>>

EmptyDocument ==
  /\ pc = "document"
  /\ doc <= NDocs
  /\ text[doc] = 0
  /\ Stop(4)
  /\ NoFault
  /\ UNCHANGED <<inputVars, docVars, nodes, layouts, truncated, outVars, stats>>

LastDocument ==
  /\ pc = "document"
  /\ doc > NDocs
  /\ Stop(0)
  /\ NoFault
  /\ UNCHANGED <<inputVars, docVars, nodes, layouts, truncated, outVars, stats>>

-----------------------------------------------------------------------------
(* The callback (moe_cb).                                                  *)

Rows(x) == IF graph[x] = "pruned" THEN 1 ELSE UBatchSize

(* The token the r-th row of the tensor was computed from.                 *)
SourceRow(x, r) ==
  <<doc, IF graph[x] = "pruned" THEN at + UBatchSize - 1 ELSE at + r>>

(* The graph computes layer after layer.                                   *)
Rank(x) == 3 * x[2] + (CASE x[1] = "hidden" -> 0 [] x[1] = "logits" -> 1
                         [] x[1] = "topk" -> 2)

Comes(x) ==
  /\ pc = "decode"
  /\ pending[x] > 0
  /\ \A y \in Nodes : pending[y] > 0 => Rank(x) <= Rank(y)

\* MUTANT: rows beyond the document's end are taken.
RefusesType(x) == graph[x] = "mistyped"

Refuses(x) == graph[x] = "mistyped" \/ cursor[x] + Rows(x) > size

(* put_topk, put_logits, put_router_input: from the cursor on; hidden rows *)
(* outside the subsample are dropped.                                      *)
PutRows(x) ==
  buf' = [buf EXCEPT ![x] = [i \in Positions |->
            IF /\ i \in cursor[x] .. cursor[x] + Rows(x) - 1
               /\ x[1] = "hidden" => Captured(doc, i)
            THEN SourceRow(x, i - cursor[x])
            ELSE @[i]]]

CaptureNode(x) ==
  /\ Comes(x)
  /\ ~Refuses(x)
  /\ PutRows(x)
  /\ cursor' = [cursor EXCEPT ![x] = @ + Rows(x)]
  /\ pending' = [pending EXCEPT ![x] = @ - 1]
  /\ nodes' = nodes + 1
  /\ IF x[1] = "topk"
     THEN \E layout \in {"strided", "contiguous"} : layouts' = layouts \union {layout}
     ELSE UNCHANGED layouts
  /\ NoFault
  /\ UNCHANGED <<inputVars, pc, doc, size, at, failed, truncated, outVars, rc, stats>>

(* The first refusal ends the capture: the decode goes on, and the         *)
(* callback ignores what it is offered.                                    *)
RefuseNode(x) ==
  /\ Comes(x)
  /\ Refuses(x)
  /\ failed' = "yes"
  /\ pending' = Zero
  /\ NoFault
  /\ UNCHANGED <<inputVars, pc, doc, size, at, cursor, buf, nodes, layouts,
                 truncated, outVars, rc, stats>>

UBatchDone ==
  /\ pc = "decode"
  /\ pending = Zero
  /\ at' = at + UBatchSize
  /\ IF at' < size
     THEN /\ pending' = IF failed = "yes" THEN Zero ELSE Offered
          /\ UNCHANGED pc
     ELSE /\ pc' = "check"
          /\ UNCHANGED pending
  /\ NoFault
  /\ UNCHANGED <<inputVars, doc, size, cursor, buf, failed, nodes, layouts,
                 truncated, outVars, rc, stats>>

\* llama_decode returns an error.
DecodeFails ==
  /\ pc = "decode"
  /\ Stop(5)
  /\ Fault
  /\ UNCHANGED <<inputVars, docVars, nodes, layouts, truncated, outVars, stats>>

-----------------------------------------------------------------------------
(* The end of a document.                                                  *)

\* MUTANT: only the label stream is held against the token count.
TopkLockstep == \A x \in Nodes : x[1] = "topk" => cursor[x] = size

Lockstep == \A x \in Nodes : cursor[x] = size

CheckFails ==
  /\ pc = "check"
  /\ failed = "yes" \/ ~Lockstep
  /\ Stop(IF failed = "yes" THEN 6 ELSE 7)
  /\ NoFault
  /\ UNCHANGED <<inputVars, docVars, nodes, layouts, truncated, outVars, stats>>

DocPositions == [i \in 1 .. size |-> i - 1]

\* MUTANT: the subsample taken from the position in the document.
LocalPositions == Ascending({i \in 0 .. size - 1 : Stride > 0 /\ i % Stride = 0})

CapturedPositions == Ascending({i \in 0 .. size - 1 : Captured(doc, i)})

TokenRows ==
  [i \in 1 .. size |-> [row  |-> <<doc, i - 1>>,
                        flag |-> IF Captured(doc, i - 1) THEN 1 ELSE 0]]

StreamRows(stream, positions) ==
  [i \in DOMAIN positions |-> [l \in Layers |-> buf[<<stream, l>>][positions[i]]]]

(* The files one after the other, in the order end_document writes them.   *)
FileOrder == <<"tokens", "topk", "logits", "hidden", "hidden_index">>

DocRows ==
  [tokens       |-> TokenRows,
   topk         |-> StreamRows("topk", DocPositions),
   logits       |-> StreamRows("logits", DocPositions),
   hidden       |-> StreamRows("hidden", CapturedPositions),
   hidden_index |-> [k \in DOMAIN CapturedPositions |->
                       StoredIndex(doc, CapturedPositions[k])]]

(* The first k files have got their rows.                                  *)
AppendRows(k) ==
  files' = [f \in DOMAIN files |->
              IF \E j \in 1 .. k : FileOrder[j] = f
              THEN files[f] \o DocRows[f] ELSE files[f]]

EndDocument ==
  /\ pc = "check"
  /\ failed = "no"
  /\ Lockstep
  /\ AppendRows(5)
  /\ total' = [docs     |-> total.docs + 1,
               tokens   |-> total.tokens + size,
               captured |-> total.captured + Len(CapturedPositions)]
  /\ doc' = doc + 1
  /\ pc' = "document"
  /\ NoFault
  /\ UNCHANGED <<inputVars, size, at, pending, cursor, buf, failed, nodes,
                 layouts, truncated, rc, stats>>

\* A file takes fewer bytes than it was given: the disk is full.
ShortWrite ==
  /\ pc = "check"
  /\ failed = "no"
  /\ Lockstep
  /\ \E k \in 0 .. 4 : AppendRows(k)
  /\ Stop(8)
  /\ Fault
  /\ UNCHANGED <<inputVars, docVars, nodes, layouts, truncated, total, stats>>

-----------------------------------------------------------------------------
(* The end of the run.                                                     *)

(* The writer's own size arithmetic (close_and_verify).                    *)
SizesAgree ==
  /\ \A f \in {"tokens", "topk", "logits"} : Len(files[f]) = total.tokens
  /\ \A f \in {"hidden", "hidden_index"} : Len(files[f]) = total.captured

Close ==
  /\ pc = "close"
  /\ rc' = IF rc = 0 /\ ~SizesAgree THEN 9 ELSE rc
  /\ pc' = "report"
  /\ NoFault
  /\ UNCHANGED <<inputVars, docVars, nodes, layouts, truncated, outVars, stats>>

\* fflush or fclose fails: a file on disk may be shorter than was written.
CloseFails ==
  /\ pc = "close"
  /\ rc' = IF rc = 0 THEN 9 ELSE rc
  /\ pc' = "report"
  /\ \E f \in DOMAIN files :
       /\ files[f] # <<>>
       /\ files' = [files EXCEPT ![f] = SubSeq(@, 1, Len(@) - 1)]
  /\ Fault
  /\ UNCHANGED <<inputVars, docVars, nodes, layouts, truncated, total, stats>>

TopkLayout ==
  CASE layouts = {}             -> "none"
    [] layouts = {"strided"}    -> "strided_view"
    [] layouts = {"contiguous"} -> "contiguous"
    [] OTHER                    -> "mixed"

(* The exit code of the stats is the one before the layout is looked at.   *)
WriteStats ==
  /\ pc = "report"
  /\ stats' = [exit_code        |-> rc,
               n_docs           |-> total.docs,
               n_tokens         |-> total.tokens,
               n_captured       |-> total.captured,
               n_docs_truncated |-> truncated,
               nodes_captured   |-> nodes,
               topk_layout      |-> TopkLayout]
  /\ rc' = IF rc = 0 /\ TopkLayout = "mixed" THEN 10 ELSE rc
  /\ pc' = "verdict"
  /\ NoFault
  /\ UNCHANGED <<inputVars, docVars, nodes, layouts, truncated, outVars>>

\* The stats file cannot be opened, which the binary does not report.
StatsLost ==
  /\ pc = "report"
  /\ rc' = IF rc = 0 /\ TopkLayout = "mixed" THEN 10 ELSE rc
  /\ pc' = "verdict"
  /\ Fault
  /\ UNCHANGED <<inputVars, docVars, nodes, layouts, truncated, outVars, stats>>

(* run_shard: a stats file, exit code 0, the same in both, and stats that  *)
(* pass.  The rest of the shard's way is ShardUpload.                      *)
Acceptable ==
  /\ stats # Nothing
  /\ rc = 0
  /\ stats.exit_code = rc
  /\ ValidateStats(stats)

Judge ==
  /\ pc = "verdict"
  /\ pc' = IF Acceptable THEN "accepted" ELSE "refused"
  /\ NoFault
  /\ UNCHANGED <<inputVars, docVars, nodes, layouts, truncated, outVars, rc, stats>>

Next ==
  \/ BeginDocument
  \/ EmptyDocument
  \/ LastDocument
  \/ \E x \in Nodes : CaptureNode(x) \/ RefuseNode(x)
  \/ UBatchDone
  \/ DecodeFails
  \/ CheckFails
  \/ EndDocument
  \/ ShortWrite
  \/ Close
  \/ CloseFails
  \/ WriteStats
  \/ StatsLost
  \/ Judge

Spec == Init /\ [][Next]_vars

-----------------------------------------------------------------------------
(* Properties                                                              *)

Sources == Docs \X Positions

TypeOK ==
  /\ text \in [Docs -> 0 .. MaxText]
  /\ mode \in Modes
  /\ graph \in Graphs
  /\ pc \in {"document", "decode", "check", "close", "report", "verdict",
             "accepted", "refused"}
  /\ doc \in 1 .. NDocs + 1
  /\ size \in 0 .. NCtx
  /\ at \in 0 .. size
  /\ pending \in [Nodes -> 0 .. 2]
  /\ cursor \in [Nodes -> 0 .. NCtx]
  /\ \A x \in Nodes : cursor[x] <= size
  /\ buf \in [Nodes -> [Positions -> Sources \union {Nothing}]]
  /\ failed \in {"yes", "no"}
  /\ nodes \in Nat
  /\ layouts \subseteq {"strided", "contiguous"}
  /\ truncated \in 0 .. NDocs
  /\ rc \in 0 .. 10
  /\ faults \in 0 .. MaxFaults

(* Whatever the graph does, the rows that reach the files are the rows of  *)
(* their token, in every stream and layer; the rows of a document that is  *)
(* short somewhere reach none (moe_trace.cpp, lock-step before             *)
(* end_document).                                                          *)
StreamsAligned ==
  /\ \A i \in DOMAIN files.tokens, l \in Layers :
       /\ i \in DOMAIN files.topk => files.topk[i][l] = files.tokens[i].row
       /\ i \in DOMAIN files.logits => files.logits[i][l] = files.tokens[i].row
  /\ \A k \in DOMAIN files.hidden \intersect DOMAIN files.hidden_index, l \in Layers :
       LET row == files.hidden[k][l]
       IN  row \in Sources /\ files.hidden_index[k] = StoredIndex(row[1], row[2])

(* A shard run_shard goes on to upload holds every token of every document *)
(* once, and files of the lengths its stats say: no document dropped, cut  *)
(* or half flushed passes for a whole one (validate_stats).                *)
Corpus == UNION {{d} \X (0 .. text[d] - 1) : d \in Docs}

AcceptedIsWhole ==
  pc = "accepted" =>
    /\ {files.tokens[i].row : i \in DOMAIN files.tokens} = Corpus
    /\ \A i, j \in DOMAIN files.tokens :
         files.tokens[i].row = files.tokens[j].row => i = j
    /\ \A f \in {"tokens", "topk", "logits"} : Len(files[f]) = stats.n_tokens
    /\ \A f \in {"hidden", "hidden_index"} : Len(files[f]) = stats.n_captured

(* The reader pairs the k-th flagged token with the k-th hidden row: in an *)
(* accepted shard they are of the same token (reader.py _captured_rows).   *)
FlaggedTokens == Ascending({i \in DOMAIN files.tokens : files.tokens[i].flag = 1})

HiddenFollowsFlags ==
  pc = "accepted" =>
    /\ Len(files.hidden) = Len(FlaggedTokens)
    /\ \A k \in DOMAIN files.hidden, l \in Layers :
         files.hidden[k][l] = files.tokens[FlaggedTokens[k]].row

(***************************************************************************)
(* check_hidden_stride (validate.py) recomputes from tokens.bin alone what *)
(* hidden_index.bin should hold.                                           *)
(***************************************************************************)
Selects(i) == Captured(files.tokens[i].row[1], files.tokens[i].row[2])

Wanted(i) == GlobalIndex(files.tokens[i].row[1], files.tokens[i].row[2])

Selected == Ascending({i \in DOMAIN files.tokens : Selects(i)})

IndexAscends ==
  \A j, k \in DOMAIN files.hidden_index :
    j < k => files.hidden_index[j] < files.hidden_index[k]

StrideCheckPasses ==
  IF files.hidden_index = <<>>
  THEN Stride = 0 \/ Stride > Len(files.tokens)
  ELSE /\ IndexAscends
       /\ Len(Selected) = Len(files.hidden_index)
       /\ \A i \in DOMAIN files.tokens : Selects(i) <=> files.tokens[i].flag = 1
       /\ \A k \in DOMAIN Selected : files.hidden_index[k] = Wanted(Selected[k])

(* The subsample of a document, as the documentation defines it.           *)
Subsample(d) == {i \in 0 .. text[d] - 1 : Captured(d, i)}

IndicesFit ==
  \A d \in Docs : \A i \in Subsample(d) : GlobalIndex(d, i) < IndexSpace

InIdOrder ==
  \A d, e \in Docs :
    d < e /\ Subsample(d) # {} /\ Subsample(e) # {} => DocIds[d] < DocIds[e]

(* The audit of an accepted shard with hidden states passes exactly when   *)
(* every index fits 32 bits and the documents that have one come in the    *)
(* order of their ids: the writer's flags, its narrowed indices and its    *)
(* order of documents never disagree with tokens.bin in another way, and   *)
(* neither a wrapped index nor a document out of order gets through        *)
(* (validate.py check_hidden_stride; reader.py hidden_index).              *)
StrideCheckIsExact ==
  pc = "accepted" /\ files.hidden_index # <<>> =>
    (StrideCheckPasses <=> IndicesFit /\ InIdOrder)

(* Nothing went wrong that the documentation says a shard is refused for.  *)
Clean ==
  /\ faults = 0
  /\ \A x \in Nodes : graph[x] = "whole"
  /\ \A d \in Docs : text[d] \in 1 .. NCtx
  /\ ~(layouts = {"strided", "contiguous"})

(* The gate is not too tight: a collection whose capture went well is      *)
(* accepted, however its documents and ubatches divide (runner.py: every   *)
(* bracket is derived from what the callback counts).                      *)
CleanBaselineAccepted == pc = "refused" /\ mode = "off" => ~Clean

(***************************************************************************)
(* What the documentation says and the code does not do: the decode modes  *)
(* can be collected too (kaggle_collect.py: --decode-mode for T3.8).       *)
(***************************************************************************)
CleanVariantAccepted == pc = "refused" => ~Clean
=============================================================================
