----------------------------- MODULE MCShardPlan -----------------------------
(* Instances of ShardPlan for TLC.                                         *)
EXTENDS ShardPlan

CONSTANTS
  MaxRows,    (* Bounds the model: documents in the file.                  *)
  MaxShard    (* Bounds the model: the largest shard id.                   *)

(* The length of a document goes with its id.                              *)
SomeRows ==
  {[id |-> i, shard |-> s, tokens |-> 1 + (i % 3)] :
     i \in 1 .. MaxRows, s \in (0 .. MaxShard) \union {Unset}}

SomeFiles == UNION {[1 .. n -> SomeRows] : n \in 0 .. MaxRows}
=============================================================================
