-------------------------- MODULE SplitAllocation ---------------------------
(***************************************************************************)
(* How many documents of a stratum each split gets (_allocate in           *)
(* src/corpus/build.py): largest remainder, then a repair that takes one   *)
(* document from the largest split for a split that would get none.        *)
(***************************************************************************)
EXTENDS Integers, Sequences, FiniteSets

CONSTANT
  Ratio       (* split_ratios, in percent.                                 *)

Splits == {"train", "val", "test"}

SplitOrder == <<"train", "val", "test">>

ASSUME RatioAssumption ==
  /\ Ratio \in [Splits -> 0 .. 100]
  /\ Ratio["train"] + Ratio["val"] + Ratio["test"] = 100

Rank(s) == CHOOSE i \in DOMAIN SplitOrder : SplitOrder[i] = s

Floor(n, s) == (n * Ratio[s]) \div 100

Remainder(n, s) == (n * Ratio[s]) % 100

SumOf(alloc) == alloc["train"] + alloc["val"] + alloc["test"]

(* The splits whose remainder is larger, or as large and earlier.          *)
Ahead(n, s) ==
  {r \in Splits : \/ Remainder(n, r) > Remainder(n, s)
                  \/ Remainder(n, r) = Remainder(n, s) /\ Rank(r) < Rank(s)}

LargestRemainder(n) ==
  LET left == n - SumOf([s \in Splits |-> Floor(n, s)])
  IN  [s \in Splits |-> Floor(n, s) + (IF Cardinality(Ahead(n, s)) < left THEN 1 ELSE 0)]

Donor(alloc) ==
  CHOOSE s \in Splits : \A r \in Splits :
    alloc[r] < alloc[s] \/ (alloc[r] = alloc[s] /\ Rank(s) <= Rank(r))

Repair(alloc, s) ==
  IF alloc[s] > 0 \/ alloc[Donor(alloc)] <= 1
  THEN alloc
  ELSE [alloc EXCEPT ![Donor(alloc)] = @ - 1, ![s] = 1]

\* MUTANT: without the repair a small stratum has no test cell.
Unrepaired(n) == LargestRemainder(n)

Repaired(alloc) == Repair(Repair(Repair(alloc, "train"), "val"), "test")

Allocate(n) ==
  IF n < 3 THEN LargestRemainder(n) ELSE Repaired(LargestRemainder(n))
=============================================================================
