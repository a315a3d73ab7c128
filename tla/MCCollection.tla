---------------------------- MODULE MCCollection ----------------------------
(* Instances of Collection for TLC: the constants are given in the .cfg.   *)
EXTENDS Collection
=============================================================================
