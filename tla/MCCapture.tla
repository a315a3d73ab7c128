------------------------------ MODULE MCCapture ------------------------------
(* Instances of Capture for TLC: the constants are given in the .cfg.      *)
EXTENDS Capture

(* The ids of the documents of a shard, in the order the corpus has been   *)
(* interleaved in, which is not that of the ids.                           *)
SomeIds == [d \in 1 .. NDocs |-> <<1, 0, 3>>[d]]
=============================================================================
