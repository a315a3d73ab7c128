---------------------------- MODULE MCCorpusBuild ----------------------------
(* Instances of CorpusBuild for TLC.                                       *)
EXTENDS CorpusBuild

EightyTenTen == [s \in Splits |-> IF s = "train" THEN 80 ELSE 10]

(* A stratum of three documents and one of the others, fetched in turn.    *)
SomeStrata == {[d \in Docs |-> IF d \in {0, 2, 4} THEN 1 ELSE 2]}
=============================================================================
