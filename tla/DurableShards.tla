--------------------------- MODULE DurableShards ----------------------------
(***************************************************************************)
(* What the collection of a trace promises, shard by shard and without     *)
(* sessions, files or digests: a shard is recorded only while the backend  *)
(* holds it whole, what is recorded is not written over, and a record is   *)
(* never taken back unless the whole ledger is lost.                       *)
(***************************************************************************)
CONSTANT Shards

VARIABLES
  durable,    (* Shards the backend holds whole.                           *)
  recorded    (* Shards of the ledger.                                     *)

vars == <<durable, recorded>>

TypeOK ==
  /\ durable \in SUBSET Shards
  /\ recorded \in SUBSET durable

Init ==
  /\ durable = {}
  /\ recorded = {}

\* The backend comes to hold a shard.
Store(s) ==
  /\ s \notin recorded
  /\ durable' = durable \union {s}
  /\ UNCHANGED recorded

\* A new attempt at a shard nobody relies on writes over the old one.
Overwrite(s) ==
  /\ s \notin recorded
  /\ durable' = durable \ {s}
  /\ UNCHANGED recorded

Record(s) ==
  /\ s \in durable
  /\ recorded' = recorded \union {s}
  /\ UNCHANGED durable

\* The ledger is lost; what the backend holds is not.
Forget ==
  /\ recorded' = {}
  /\ UNCHANGED durable

Next ==
  \/ \E s \in Shards : Store(s) \/ Overwrite(s) \/ Record(s)
  \/ Forget

Spec == Init /\ [][Next]_vars
=============================================================================
