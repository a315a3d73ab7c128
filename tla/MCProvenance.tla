---------------------------- MODULE MCProvenance ----------------------------
(* Instances of Provenance for TLC: the constants are given in the .cfg.   *)
EXTENDS Provenance, TLC

\* No commit is special.
CommitSymmetry == Permutations(Commits)
=============================================================================
