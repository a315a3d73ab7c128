---------------------------- MODULE MCCorpusFetch ----------------------------
(* Instances of CorpusFetch for TLC: a multilingual domain with a parallel *)
(* control in two languages, a volume source in two and one in one, and a  *)
(* second domain with a single source.                                     *)
EXTENDS CorpusFetch, TLC

CONSTANTS Short, Long    (* The texts of one token, and of two.            *)

FourSources == <<"culturax", "flores", "wiki", "fineweb">>

SomeDomain == [s \in Names |-> IF s = "fineweb" THEN "prose" ELSE "multi"]

SomeWeight == [s \in Names |-> IF s = "culturax" THEN 3 ELSE 1]

SomeLangs == [s \in Names |-> IF s \in {"culturax", "flores"} THEN 2 ELSE 1]

SomeShare == [d \in Domains |-> IF d = "prose" THEN 10 ELSE 90]

SomeTarget == [d \in Domains |-> IF d = "prose" THEN 1 ELSE 9]

AllTexts == Short \union Long

SomeTokens == [t \in AllTexts |-> IF t \in Short THEN 1 ELSE 2]

Alike == Permutations(Short) \union Permutations(Long)
=============================================================================
