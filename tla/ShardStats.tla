----------------------------- MODULE ShardStats -----------------------------
(***************************************************************************)
(* The checks run_shard makes of capture_stats.json before a shard may be  *)
(* uploaded (validate_stats and what it calls, src/runtime/runner.py),     *)
(* beyond the equality of the constants both sides were given.             *)
(***************************************************************************)
EXTENDS Integers

CONSTANTS
  NLayers,   (* MoE layers of the node spec.                               *)
  NDocs,     (* Documents of the shard's plan.                             *)
  NCtx,      (* ctx_size: a document is cut at this many tokens.           *)
  UBatch,    (* ubatch_size.                                               *)
  Stride     (* hidden_stride; 0 switches the hidden-state subsample off.  *)

ASSUME StatsAssumption ==
  /\ NLayers \in Nat \ {0}
  /\ NDocs \in Nat \ {0}
  /\ NCtx \in Nat \ {0}
  /\ UBatch \in Nat \ {0}
  /\ Stride \in Nat

Least(a, b) == IF a < b THEN a ELSE b

Greatest(a, b) == IF a < b THEN b ELSE a

CeilDiv(a, b) == -((-a) \div b)

(***************************************************************************)
(* _check_nodes_captured.  The callback captures three nodes per layer and *)
(* ubatch; how many ubatches the documents make is bracketed from their    *)
(* number and the sum of their tokens.                                     *)
(***************************************************************************)
NodesPerUBatch == 3 * NLayers

FewestUBatches(tokens) == Greatest(NDocs, CeilDiv(tokens, UBatch))

\* MUTANT: the last, partial ubatch of every document but one forgotten.
RoundedUBatches(tokens) == (tokens + UBatch - 1) \div UBatch

MostUBatches(tokens) == (tokens + NDocs * (UBatch - 1)) \div UBatch

NodesPlausible(nodes, tokens) ==
  /\ nodes > 0
  /\ nodes % NodesPerUBatch = 0
  /\ nodes \div NodesPerUBatch \in FewestUBatches(tokens) .. MostUBatches(tokens)

(***************************************************************************)
(* _check_n_captured.  Each document captures floor or ceiling of its      *)
(* tokens over the stride, depending on where its block of indices starts. *)
(***************************************************************************)
CapturedPlausible(captured, tokens) ==
  IF Stride = 0
  THEN captured = 0
  ELSE LET slack == NDocs * (Stride - 1)
       IN  captured \in Greatest(0, CeilDiv(tokens - slack, Stride)) ..
                        ((tokens + slack) \div Stride)

\* MUTANT: a truncated document is a warning in the session log, no more.
AcceptTruncated(stats) ==
  /\ stats.n_docs = NDocs
  /\ stats.topk_layout \in {"strided_view", "contiguous"}
  /\ stats.n_tokens >= NDocs
  /\ NodesPlausible(stats.nodes_captured, stats.n_tokens)
  /\ CapturedPlausible(stats.n_captured, stats.n_tokens)

ValidateStats(stats) ==
  /\ stats.n_docs = NDocs
  /\ stats.topk_layout \in {"strided_view", "contiguous"}
  /\ stats.n_docs_truncated = 0
  /\ stats.n_tokens >= NDocs
  /\ NodesPlausible(stats.nodes_captured, stats.n_tokens)
  /\ CapturedPlausible(stats.n_captured, stats.n_tokens)
=============================================================================
