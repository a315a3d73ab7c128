------------------------- MODULE CorpusBuildProofs --------------------------
(***************************************************************************)
(* Proofs about CorpusBuild, for any number of documents and strata, any   *)
(* lengths and any split ratios.                                           *)
(***************************************************************************)
EXTENDS CorpusBuild, SetLemmas

-----------------------------------------------------------------------------
(* The allocation of a stratum (SplitAllocation).                          *)

LEMMA CardOfTwo ==
  ASSUME NEW a, NEW b, a # b, NEW S \in SUBSET {a, b}
  PROVE  Cardinality(S) = (IF a \in S THEN 1 ELSE 0) + (IF b \in S THEN 1 ELSE 0)
<1>1. /\ Cardinality({}) = 0 /\ Cardinality({a}) = 1 /\ Cardinality({b}) = 1
      /\ IsFiniteSet({a})
  BY FS_EmptySet, FS_Singleton
<1>2. Cardinality({a, b}) = 2
  <2>1. {a} \union {b} = {a, b} /\ b \notin {a}
    OBVIOUS
  <2>2. Cardinality({a} \union {b}) = Cardinality({a}) + 1
    BY <1>1, <2>1, FS_AddElement
  <2>3. QED
    BY <1>1, <2>1, <2>2
<1>3. S = {} \/ S = {a} \/ S = {b} \/ S = {a, b}
  OBVIOUS
<1>4. QED
  BY <1>1, <1>2, <1>3

LEMMA RankIs == Rank("train") = 1 /\ Rank("val") = 2 /\ Rank("test") = 3
<1>1. DOMAIN SplitOrder = 1 .. 3
  BY DEF SplitOrder
<1>2. SplitOrder[1] = "train" /\ SplitOrder[2] = "val" /\ SplitOrder[3] = "test"
  BY DEF SplitOrder
<1>3. \A i \in 1 .. 3 : i = 1 \/ i = 2 \/ i = 3
  OBVIOUS
<1>4. ASSUME NEW s, NEW k \in 1 .. 3, SplitOrder[k] = s, \A i \in 1 .. 3 : SplitOrder[i] = s => i = k
      PROVE  Rank(s) = k
  BY <1>1, <1>4 DEF Rank
<1>5. QED
  BY <1>2, <1>3, <1>4

(* A split's share rounded down, and the rest.                             *)
LEMMA FloorIs ==
  ASSUME NEW n \in Nat, NEW s \in Splits
  PROVE  /\ n * Ratio[s] \in Nat
         /\ Floor(n, s) \in Nat
         /\ Remainder(n, s) \in 0 .. 99
         /\ 100 * Floor(n, s) + Remainder(n, s) = n * Ratio[s]
<1>1. Ratio[s] \in 0 .. 100
  BY RatioAssumption DEF RatioAssumption
<1>2. n * Ratio[s] \in Nat
  BY <1>1
<1>3. QED
  <2> DEFINE m == n * Ratio[s]
  <2>1. m \in Int /\ m >= 0
    BY <1>2
  <2> HIDE DEF m
  <2>2. /\ m \div 100 \in Int /\ 100 * (m \div 100) <= m /\ m < 100 * (m \div 100) + 100
        /\ m % 100 = m - 100 * (m \div 100) /\ m % 100 \in 0 .. 99
    BY <2>1, Quotient
  <2>3. m \div 100 >= 0 /\ 100 * (m \div 100) + (m % 100) = m
    BY <2>1, <2>2
  <2>4. QED
    BY <1>2, <2>2, <2>3 DEF m, Floor, Remainder

LEMMA SplitsAre ==
  /\ "train" \in Splits /\ "val" \in Splits /\ "test" \in Splits
  /\ "train" # "val" /\ "train" # "test" /\ "val" # "test"
  /\ \A s \in Splits : s = "train" \/ s = "val" \/ s = "test"
BY DEF Splits

LEMMA AheadIs ==
  ASSUME NEW n \in Nat
  PROVE  LET t == Remainder(n, "train")
             v == Remainder(n, "val")
             x == Remainder(n, "test")
         IN  /\ Cardinality(Ahead(n, "train"))
                  = (IF v > t THEN 1 ELSE 0) + (IF x > t THEN 1 ELSE 0)
             /\ Cardinality(Ahead(n, "val"))
                  = (IF t >= v THEN 1 ELSE 0) + (IF x > v THEN 1 ELSE 0)
             /\ Cardinality(Ahead(n, "test"))
                  = (IF t >= x THEN 1 ELSE 0) + (IF v >= x THEN 1 ELSE 0)
<1> DEFINE t == Remainder(n, "train")
           v == Remainder(n, "val")
           x == Remainder(n, "test")
<1>1. t \in 0 .. 99 /\ v \in 0 .. 99 /\ x \in 0 .. 99
  BY FloorIs, SplitsAre
<1>2. /\ \A r \in Splits : r \in Ahead(n, "train") <=>
           r # "train" /\ Remainder(n, r) > t
      /\ "train" \in Ahead(n, "val") <=> t >= v
      /\ "test" \in Ahead(n, "val") <=> x > v
      /\ "val" \notin Ahead(n, "val")
      /\ "train" \in Ahead(n, "test") <=> t >= x
      /\ "val" \in Ahead(n, "test") <=> v >= x
      /\ "test" \notin Ahead(n, "test")
  <2>1. \A s, r \in Splits : r \in Ahead(n, s) <=>
          \/ Remainder(n, r) > Remainder(n, s)
          \/ Remainder(n, r) = Remainder(n, s) /\ Rank(r) < Rank(s)
    BY DEF Ahead
  <2> HIDE DEF t, v, x
  <2>2. Remainder(n, "train") = t /\ Remainder(n, "val") = v /\ Remainder(n, "test") = x
    BY DEF t, v, x
  <2>3. QED
    BY <1>1, <2>1, <2>2, RankIs, SplitsAre
<1>3. \A s \in Splits : Ahead(n, s) \in SUBSET Splits
  BY DEF Ahead
<1>4. /\ Ahead(n, "train") \in SUBSET {"val", "test"}
      /\ Ahead(n, "val") \in SUBSET {"train", "test"}
      /\ Ahead(n, "test") \in SUBSET {"train", "val"}
  BY <1>2, <1>3, SplitsAre
<1>5. Cardinality(Ahead(n, "train"))
        = (IF "val" \in Ahead(n, "train") THEN 1 ELSE 0)
          + (IF "test" \in Ahead(n, "train") THEN 1 ELSE 0)
  BY <1>4, SplitsAre, CardOfTwo
<1>6. Cardinality(Ahead(n, "val"))
        = (IF "train" \in Ahead(n, "val") THEN 1 ELSE 0)
          + (IF "test" \in Ahead(n, "val") THEN 1 ELSE 0)
  BY <1>4, SplitsAre, CardOfTwo
<1>7. Cardinality(Ahead(n, "test"))
        = (IF "train" \in Ahead(n, "test") THEN 1 ELSE 0)
          + (IF "val" \in Ahead(n, "test") THEN 1 ELSE 0)
  BY <1>4, SplitsAre, CardOfTwo
<1>8. ("val" \in Ahead(n, "train") <=> v > t) /\ ("test" \in Ahead(n, "train") <=> x > t)
  BY <1>2, SplitsAre
<1>9. QED
  BY <1>2, <1>5, <1>6, <1>7, <1>8

(* The largest remainder method: every document is placed, a split gets    *)
(* its share rounded down or, when it has a remainder, one more.           *)
LEMMA LargestRemainderIs ==
  ASSUME NEW n \in Nat
  PROVE  /\ LargestRemainder(n) \in [Splits -> Nat]
         /\ SumOf(LargestRemainder(n)) = n
         /\ \A s \in Splits :
              /\ (LargestRemainder(n)[s] - 1) * 100 < n * Ratio[s]
              /\ (LargestRemainder(n)[s] + 1) * 100 > n * Ratio[s]
<1> DEFINE left == n - SumOf([s \in Splits |-> Floor(n, s)])
           c(s) == Cardinality(Ahead(n, s))
           more(s) == IF c(s) < left THEN 1 ELSE 0
           L == LargestRemainder(n)
<1>1. /\ Ratio["train"] \in Nat /\ Ratio["val"] \in Nat /\ Ratio["test"] \in Nat
      /\ Ratio["train"] + Ratio["val"] + Ratio["test"] = 100
  BY RatioAssumption, SplitsAre DEF RatioAssumption
<1>2. n * Ratio["train"] + n * Ratio["val"] + n * Ratio["test"] = 100 * n
  <2>1. n * Ratio["train"] + n * Ratio["val"] + n * Ratio["test"]
          = n * (Ratio["train"] + Ratio["val"] + Ratio["test"])
    BY <1>1
  <2>2. QED
    BY <1>1, <2>1
<1>3. \A s \in Splits : /\ n * Ratio[s] \in Nat /\ Floor(n, s) \in Nat /\ Remainder(n, s) \in 0 .. 99
                        /\ 100 * Floor(n, s) + Remainder(n, s) = n * Ratio[s]
  BY FloorIs
<1>4. left = n - (Floor(n, "train") + Floor(n, "val") + Floor(n, "test"))
  BY SplitsAre DEF SumOf
<1>5. /\ left \in Int
      /\ 100 * left = Remainder(n, "train") + Remainder(n, "val") + Remainder(n, "test")
  <2>1. ASSUME NEW t, NEW v, NEW x, NEW r1, NEW r2, NEW r3, NEW f1, NEW f2, NEW f3,
               t = n * Ratio["train"], v = n * Ratio["val"], x = n * Ratio["test"],
               r1 = Remainder(n, "train"), r2 = Remainder(n, "val"), r3 = Remainder(n, "test"),
               f1 = Floor(n, "train"), f2 = Floor(n, "val"), f3 = Floor(n, "test")
        PROVE  left \in Int /\ 100 * left = r1 + r2 + r3
    <3>1. /\ t \in Nat /\ f1 \in Nat /\ r1 \in 0 .. 99 /\ 100 * f1 + r1 = t
          /\ v \in Nat /\ f2 \in Nat /\ r2 \in 0 .. 99 /\ 100 * f2 + r2 = v
          /\ x \in Nat /\ f3 \in Nat /\ r3 \in 0 .. 99 /\ 100 * f3 + r3 = x
      BY <1>3, <2>1, SplitsAre
    <3>2. t + v + x = 100 * n
      BY <1>2, <2>1
    <3>3. left = n - (f1 + f2 + f3)
      BY <1>4, <2>1
    <3> HIDE DEF left
    <3>4. QED
      BY <3>1, <3>2, <3>3
  <2>2. QED
    BY <2>1
<1>6. /\ left = more("train") + more("val") + more("test")
      /\ \A s \in Splits : c(s) < left => Remainder(n, s) > 0
  <2>1. /\ Remainder(n, "train") \in 0 .. 99 /\ Remainder(n, "val") \in 0 .. 99
        /\ Remainder(n, "test") \in 0 .. 99
    BY <1>3, SplitsAre
  <2> HIDE DEF left
  <2>2. ASSUME NEW t, NEW v, NEW x, NEW ct, NEW cv, NEW cx,
               t = Remainder(n, "train"), v = Remainder(n, "val"), x = Remainder(n, "test"),
               ct = c("train"), cv = c("val"), cx = c("test")
        PROVE  /\ left = (IF ct < left THEN 1 ELSE 0) + (IF cv < left THEN 1 ELSE 0)
                            + (IF cx < left THEN 1 ELSE 0)
               /\ ct < left => t > 0
               /\ cv < left => v > 0
               /\ cx < left => x > 0
    <3>1. /\ ct = (IF v > t THEN 1 ELSE 0) + (IF x > t THEN 1 ELSE 0)
          /\ cv = (IF t >= v THEN 1 ELSE 0) + (IF x > v THEN 1 ELSE 0)
          /\ cx = (IF t >= x THEN 1 ELSE 0) + (IF v >= x THEN 1 ELSE 0)
      BY <2>2, AheadIs, Zenon
    <3>2. t \in 0 .. 99 /\ v \in 0 .. 99 /\ x \in 0 .. 99 /\ left \in Int
      BY <1>5, <2>1, <2>2
    <3>3. 100 * left = t + v + x
      BY <1>5, <2>2
    <3>4. ASSUME NEW l, l = left
          PROVE  /\ l = (IF ct < l THEN 1 ELSE 0) + (IF cv < l THEN 1 ELSE 0)
                          + (IF cx < l THEN 1 ELSE 0)
                 /\ ct < l => t > 0
                 /\ cv < l => v > 0
                 /\ cx < l => x > 0
      <4>1. l \in Int /\ 100 * l = t + v + x
        BY <3>2, <3>3, <3>4
      <4>2. l = 0 \/ l = 1 \/ l = 2
        BY <3>2, <4>1
      <4>3. CASE v > t /\ x > t /\ x > v
        BY <3>1, <3>2, <4>1, <4>2, <4>3
      <4>4. CASE v > t /\ x > t /\ x <= v
        BY <3>1, <3>2, <4>1, <4>2, <4>4
      <4>5. CASE v > t /\ x <= t
        BY <3>1, <3>2, <4>1, <4>2, <4>5
      <4>6. CASE v <= t /\ x > t
        BY <3>1, <3>2, <4>1, <4>2, <4>6
      <4>7. CASE v <= t /\ x <= t /\ x > v
        BY <3>1, <3>2, <4>1, <4>2, <4>7
      <4>8. CASE v <= t /\ x <= t /\ x <= v
        BY <3>1, <3>2, <4>1, <4>2, <4>8
      <4>9. QED
        BY <3>2, <4>3, <4>4, <4>5, <4>6, <4>7, <4>8
    <3>5. QED
      BY <3>4
  <2>3. /\ left = more("train") + more("val") + more("test")
        /\ c("train") < left => Remainder(n, "train") > 0
        /\ c("val") < left => Remainder(n, "val") > 0
        /\ c("test") < left => Remainder(n, "test") > 0
    BY <2>2
  <2>4. QED
    BY <2>3, SplitsAre
<1>7. L = [s \in Splits |-> Floor(n, s) + more(s)]
  BY DEF LargestRemainder
<1>8. \A s \in Splits : more(s) \in {0, 1} /\ (more(s) = 1 => Remainder(n, s) > 0)
  <2> HIDE DEF left, c
  <2>1. QED
    BY <1>6
<1> HIDE DEF L, left, more, c
<1>9. \A s \in Splits : L[s] = Floor(n, s) + more(s) /\ L[s] \in Nat
  BY <1>3, <1>7, <1>8
<1>10. L \in [Splits -> Nat]
  BY <1>7, <1>9
<1>11. SumOf(L) = n
  BY <1>3, <1>4, <1>6, <1>8, <1>9, SplitsAre DEF SumOf
<1>12. ASSUME NEW s \in Splits
       PROVE  (L[s] - 1) * 100 < n * Ratio[s] /\ (L[s] + 1) * 100 > n * Ratio[s]
  <2> DEFINE m == n * Ratio[s]
  <2>1. m \in Nat /\ Floor(n, s) \in Nat /\ Remainder(n, s) \in 0 .. 99
        /\ 100 * Floor(n, s) + Remainder(n, s) = m
    BY <1>3
  <2>2. L[s] = Floor(n, s) + more(s) /\ more(s) \in {0, 1} /\ (more(s) = 1 => Remainder(n, s) > 0)
    BY <1>8, <1>9
  <2> HIDE DEF m
  <2>3. (L[s] - 1) * 100 < m /\ (L[s] + 1) * 100 > m
    BY <2>1, <2>2
  <2>4. QED
    BY <2>3 DEF m
<1>13. QED
  BY <1>10, <1>11, <1>12 DEF L

(* What one repair does: no document is lost, nothing falls to zero, a     *)
(* split gains only its first document and loses one only to a split that  *)
(* has none.                                                               *)
Repairs(a, b) ==
  /\ b \in [Splits -> Nat]
  /\ SumOf(b) = SumOf(a)
  /\ \A r \in Splits :
       /\ a[r] > 0 => b[r] > 0
       /\ b[r] > a[r] => b[r] = 1
       /\ b[r] < a[r] => \E q \in Splits : q # r /\ a[q] = 0

LEMMA DonorIs ==
  ASSUME NEW a \in [Splits -> Nat]
  PROVE  /\ Donor(a) \in Splits
         /\ \A r \in Splits : a[r] <= a[Donor(a)]
<1> DEFINE Best(s) == \A r \in Splits : a[r] < a[s] \/ (a[r] = a[s] /\ Rank(s) <= Rank(r))
<1>1. a["train"] \in Nat /\ a["val"] \in Nat /\ a["test"] \in Nat
  BY SplitsAre
<1>2. \E s \in Splits : Best(s)
  <2>1. CASE a["train"] >= a["val"] /\ a["train"] >= a["test"]
    <3>1. Best("train")
      BY <1>1, <2>1, RankIs, SplitsAre
    <3>2. QED
      BY <3>1, SplitsAre
  <2>2. CASE a["train"] < a["val"] /\ a["val"] >= a["test"]
    <3>1. Best("val")
      BY <1>1, <2>2, RankIs, SplitsAre
    <3>2. QED
      BY <3>1, SplitsAre
  <2>3. CASE a["train"] < a["test"] /\ a["val"] < a["test"]
    <3>1. Best("test")
      BY <1>1, <2>3, RankIs, SplitsAre
    <3>2. QED
      BY <3>1, SplitsAre
  <2>4. QED
    BY <1>1, <2>1, <2>2, <2>3
<1>3. Donor(a) \in Splits /\ Best(Donor(a))
  <2> HIDE DEF Best
  <2>1. Donor(a) = CHOOSE s \in Splits : Best(s)
    BY DEF Donor, Best
  <2>2. QED
    BY <1>2, <2>1
<1>4. QED
  BY <1>3

LEMMA RepairIs ==
  ASSUME NEW a \in [Splits -> Nat], NEW s \in Splits
  PROVE  /\ Repairs(a, Repair(a, s))
         /\ SumOf(a) >= 3 => Repair(a, s)[s] > 0
<1> DEFINE D == Donor(a)
<1>1. D \in Splits /\ \A r \in Splits : a[r] <= a[D]
  BY DonorIs
<1>2. a["train"] \in Nat /\ a["val"] \in Nat /\ a["test"] \in Nat /\ a[s] \in Nat /\ a[D] \in Nat
  BY <1>1, SplitsAre
<1> HIDE DEF D
<1>3. CASE a[s] > 0 \/ a[D] <= 1
  <2>1. Repair(a, s) = a
    BY <1>3 DEF Repair, D
  <2>2. SumOf(a) >= 3 => a[s] > 0
    <3>1. SUFFICES ASSUME SumOf(a) >= 3, a[D] <= 1
                   PROVE  a[s] > 0
      BY <1>3
    <3>2. a["train"] <= 1 /\ a["val"] <= 1 /\ a["test"] <= 1
      BY <1>1, <1>2, <3>1, SplitsAre
    <3>3. a["train"] = 1 /\ a["val"] = 1 /\ a["test"] = 1
      BY <1>2, <3>1, <3>2 DEF SumOf
    <3>4. QED
      BY <3>3, SplitsAre
  <2>3. Repairs(a, a)
    BY DEF Repairs
  <2>4. QED
    BY <2>1, <2>2, <2>3
<1>4. CASE a[s] = 0 /\ a[D] > 1
  <2> DEFINE b == [a EXCEPT ![D] = @ - 1, ![s] = 1]
  <2>1. Repair(a, s) = b
    BY <1>2, <1>4 DEF Repair, D
  <2>2. D # s
    BY <1>2, <1>4
  <2>3. /\ b[s] = 1 /\ b[D] = a[D] - 1
        /\ \A r \in Splits : r # s /\ r # D => b[r] = a[r]
    BY <1>1, <2>2
  <2>4. b \in [Splits -> Nat]
    BY <1>1, <1>2, <1>4
  <2> HIDE DEF b
  <2>5. SumOf(b) = SumOf(a)
    <3>1. b["train"] \in Nat /\ b["val"] \in Nat /\ b["test"] \in Nat
      BY <2>4, SplitsAre
    <3>2. (D = "train" \/ D = "val" \/ D = "test") /\ (s = "train" \/ s = "val" \/ s = "test")
      BY <1>1, SplitsAre
    <3>3. QED
      BY <1>2, <1>4, <2>2, <2>3, <3>1, <3>2, SplitsAre DEF SumOf
  <2>6. ASSUME NEW r \in Splits
        PROVE  /\ a[r] > 0 => b[r] > 0
               /\ b[r] > a[r] => b[r] = 1
               /\ b[r] < a[r] => \E q \in Splits : q # r /\ a[q] = 0
    <3>1. a[r] \in Nat /\ (r = s \/ r = D \/ b[r] = a[r])
      BY <2>3
    <3>2. QED
      BY <1>2, <1>4, <2>2, <2>3, <3>1
  <2>7. QED
    BY <2>1, <2>3, <2>4, <2>5, <2>6 DEF Repairs
<1>5. QED
  BY <1>2, <1>3, <1>4

(* The repairs of the three splits, one after another.                     *)
LEMMA RepairedIs ==
  ASSUME NEW a \in [Splits -> Nat]
  PROVE  /\ Repairs(a, Repaired(a))
         /\ SumOf(a) >= 3 => \A s \in Splits : Repaired(a)[s] > 0
<1> DEFINE b == Repair(a, "train")
           c == Repair(b, "val")
           d == Repair(c, "test")
<1>1. Repairs(a, b) /\ (SumOf(a) >= 3 => b["train"] > 0)
  BY RepairIs, SplitsAre
<1>2. b \in [Splits -> Nat]
  BY <1>1 DEF Repairs
<1> HIDE DEF b
<1>3. Repairs(b, c) /\ (SumOf(b) >= 3 => c["val"] > 0)
  BY <1>2, RepairIs, SplitsAre
<1>4. c \in [Splits -> Nat]
  BY <1>3 DEF Repairs
<1> HIDE DEF c
<1>5. Repairs(c, d) /\ (SumOf(c) >= 3 => d["test"] > 0)
  BY <1>4, RepairIs, SplitsAre
<1>6. Repaired(a) = d
  BY DEF Repaired, b, c, d
<1> HIDE DEF d
<1>7. /\ d \in [Splits -> Nat] /\ SumOf(b) = SumOf(a) /\ SumOf(c) = SumOf(a)
      /\ SumOf(d) = SumOf(a)
  BY <1>1, <1>3, <1>5 DEF Repairs
<1>8. ASSUME NEW r \in Splits
      PROVE  /\ a[r] > 0 => d[r] > 0
             /\ b[r] > 0 => d[r] > 0
             /\ c[r] > 0 => d[r] > 0
             /\ d[r] > a[r] => d[r] = 1
             /\ d[r] < a[r] => \E q \in Splits : q # r /\ a[q] = 0
  <2>1. a[r] \in Nat /\ b[r] \in Nat /\ c[r] \in Nat /\ d[r] \in Nat
    BY <1>2, <1>4, <1>7
  <2>2. /\ a[r] > 0 => b[r] > 0
        /\ b[r] > 0 => c[r] > 0
        /\ c[r] > 0 => d[r] > 0
        /\ b[r] > a[r] => b[r] = 1
        /\ c[r] > b[r] => c[r] = 1
        /\ d[r] > c[r] => d[r] = 1
    BY <1>1, <1>3, <1>5 DEF Repairs
  <2>3. \A q \in Splits : (c[q] = 0 => b[q] = 0) /\ (b[q] = 0 => a[q] = 0)
    <3>1. TAKE q \in Splits
    <3>2. (a[q] > 0 => b[q] > 0) /\ (b[q] > 0 => c[q] > 0)
      BY <1>1, <1>3 DEF Repairs
    <3>3. a[q] \in Nat /\ b[q] \in Nat /\ c[q] \in Nat
      BY <1>2, <1>4
    <3>4. QED
      BY <3>2, <3>3
  <2>4. /\ b[r] < a[r] => \E q \in Splits : q # r /\ a[q] = 0
        /\ c[r] < b[r] => \E q \in Splits : q # r /\ b[q] = 0
        /\ d[r] < c[r] => \E q \in Splits : q # r /\ c[q] = 0
    BY <1>1, <1>3, <1>5 DEF Repairs
  <2>5. d[r] < a[r] => \E q \in Splits : q # r /\ a[q] = 0
    BY <2>1, <2>3, <2>4
  <2>6. QED
    BY <2>1, <2>2, <2>5
<1>9. SumOf(a) >= 3 => \A s \in Splits : d[s] > 0
  BY <1>1, <1>3, <1>5, <1>7, <1>8, SplitsAre
<1>10. QED
  BY <1>6, <1>7, <1>8, <1>9 DEF Repairs

(* The allocation of n documents.                                          *)
LEMMA AllocateIs ==
  ASSUME NEW n \in Nat
  PROVE  /\ Allocate(n) \in [Splits -> Nat]
         /\ SumOf(Allocate(n)) = n
         /\ \A s \in Splits :
              /\ n >= 3 => Allocate(n)[s] >= 1
              /\ Allocate(n)[s] > 1 => (Allocate(n)[s] - 1) * 100 < n * Ratio[s]
              /\ \/ (Allocate(n)[s] + 1) * 100 > n * Ratio[s]
                 \/ \E r \in Splits : r # s /\ LargestRemainder(n)[r] = 0
<1> DEFINE L == LargestRemainder(n)
           A == Allocate(n)
<1>1. /\ L \in [Splits -> Nat] /\ SumOf(L) = n
      /\ \A s \in Splits : (L[s] - 1) * 100 < n * Ratio[s] /\ (L[s] + 1) * 100 > n * Ratio[s]
  BY LargestRemainderIs
<1>2. \A s \in Splits : n * Ratio[s] \in Nat
  BY FloorIs
<1> HIDE DEF L
<1>3. CASE n < 3
  <2>1. A = L
    BY <1>3 DEF Allocate, L
  <2> HIDE DEF A
  <2>2. \A s \in Splits : /\ ~(n >= 3)
                          /\ (A[s] - 1) * 100 < n * Ratio[s]
                          /\ (A[s] + 1) * 100 > n * Ratio[s]
    BY <1>1, <1>3, <2>1
  <2>3. QED
    BY <1>1, <2>1, <2>2 DEF A, L
<1>4. CASE n >= 3
  <2>1. A = Repaired(L)
    BY <1>4 DEF Allocate, L
  <2>2. Repairs(L, A) /\ \A s \in Splits : A[s] > 0
    BY <1>1, <1>4, <2>1, RepairedIs
  <2> HIDE DEF A
  <2>3. A \in [Splits -> Nat] /\ SumOf(A) = n
    BY <1>1, <2>2 DEF Repairs
  <2>4. ASSUME NEW s \in Splits
        PROVE  /\ A[s] >= 1
               /\ A[s] > 1 => (A[s] - 1) * 100 < n * Ratio[s]
               /\ \/ (A[s] + 1) * 100 > n * Ratio[s]
                  \/ \E r \in Splits : r # s /\ L[r] = 0
    <3> DEFINE m == n * Ratio[s]
    <3>1. m \in Nat /\ (L[s] - 1) * 100 < m /\ (L[s] + 1) * 100 > m
      BY <1>1, <1>2
    <3>2. A[s] \in Nat /\ L[s] \in Nat /\ A[s] > 0
      BY <1>1, <2>2, <2>3
    <3>3. /\ A[s] > L[s] => A[s] = 1
          /\ A[s] < L[s] => \E r \in Splits : r # s /\ L[r] = 0
      BY <2>2 DEF Repairs
    <3> HIDE DEF m
    <3>4. /\ A[s] >= 1
          /\ A[s] > 1 => (A[s] - 1) * 100 < m
          /\ A[s] >= L[s] => (A[s] + 1) * 100 > m
      BY <3>1, <3>2, <3>3
    <3>5. A[s] >= L[s] \/ A[s] < L[s]
      BY <3>2
    <3>6. QED
      BY <3>3, <3>4, <3>5 DEF m
  <2>5. QED
    BY <2>3, <2>4 DEF A, L
<1>5. QED
  BY <1>3, <1>4

-----------------------------------------------------------------------------
(* The inductive invariant.                                                *)

PP == INSTANCE ShardPlanProofs WITH Files <- {}

Unordered == {"check", "invalid", "split"}

Building == Unordered \union {"interleave", "shard", "write"}

Planning == {"plan", "planned"}

Staged == stage \in Building \union Planning

(* Documents past the validation fit a capture.                            *)
Fetched ==
  /\ stratum \in [Docs -> Keys]
  /\ length \in [Docs -> Nat]
  /\ stage \notin {"check", "invalid"} => \A d \in Docs : length[d] \in 1 .. MaxDocTokens

(* Each split has what was allocated to it, in every stratum.              *)
SplitsAllocated ==
  /\ stage \in {"check", "invalid"} => split = [d \in Docs |-> Unset]
  /\ stage \notin {"check", "invalid"} =>
       /\ split \in [Docs -> Splits]
       /\ \A k \in Keys, s \in Splits :
            Cardinality({d \in Members(k) : split[d] = s}) = Allocate(Cardinality(Members(k)))[s]

Queued ==
  /\ stage \in Unordered => queue = [k \in Keys |-> <<>>]
  /\ stage \notin Unordered =>
       /\ DOMAIN queue = Keys
       /\ \A k \in Keys : queue[k] \in SetToSeqs(Members(k))

(* The documents of stratum k in the corpus so far.                        *)
Sent(k) == {queue[k][j] : j \in 1 .. cursor[k]}

Counted ==
  /\ cursor \in [Keys -> Nat]
  /\ emitted \in [Keys -> Nat]
  /\ \A k \in Keys : cursor[k] <= Len(queue[k]) /\ emitted[k] = Summation(length, Sent(k))

(* The corpus so far: what each stratum sent, each document once.          *)
Written ==
  /\ out \in Seq(Docs)
  /\ \A i, j \in DOMAIN out : out[i] = out[j] => i = j
  /\ \A d \in Docs : d \in Sent(stratum[d]) <=> \E i \in DOMAIN out : out[i] = d
  /\ stage \notin Unordered \union {"interleave"} => Len(out) = NDocs

InShard(s) == {i \in DOMAIN shardOf : shardOf[i] = s}

Load(s) == Summation([i \in DOMAIN shardOf |-> length[out[i]]], InShard(s))

(* The shards so far: contiguous, none over its target, and each closed    *)
(* because it was full or the next document did not fit.                   *)
Sharded ==
  /\ shardOf \in Seq(Nat)
  /\ Len(shardOf) <= Len(out)
  /\ shard \in Nat
  /\ used \in 0 .. ShardTokens - 1
  /\ stage \in Unordered \union {"interleave"} => shardOf = <<>> /\ shard = 0 /\ used = 0
  /\ stage = "shard" => Len(shardOf) < NDocs
  /\ stage \in {"write"} \union Planning => Len(shardOf) = NDocs

Filled ==
  /\ Load(shard) = used
  /\ \A s \in Nat : Load(s) <= ShardTokens
  /\ shardOf # <<>> /\ shardOf[Len(shardOf)] # shard =>
       shardOf[Len(shardOf)] = shard - 1 /\ used = 0 /\ Load(shard - 1) >= ShardTokens

Contiguous ==
  /\ \A i \in DOMAIN shardOf : shardOf[i] <= shard
  /\ \A i, j \in DOMAIN shardOf : i < j => shardOf[i] <= shardOf[j]
  /\ \A i \in DOMAIN shardOf : i > 1 =>
       /\ shardOf[i] \in {shardOf[i - 1], shardOf[i - 1] + 1}
       /\ shardOf[i] > shardOf[i - 1] => Load(shardOf[i - 1]) + length[out[i]] > ShardTokens

Filed ==
  /\ stage \in Building => file = <<>> /\ Plan!NothingRead
  /\ stage \in Planning => file = CorpusRows
  /\ stage \in Planning => PP!PlanInv \/ (stage = "plan" /\ Plan!NothingRead)

BuildInv ==
  /\ Staged
  /\ Fetched
  /\ SplitsAllocated
  /\ Queued
  /\ Counted
  /\ PrefixesAreRepresentative
  /\ Written
  /\ Sharded
  /\ Filled
  /\ Contiguous
  /\ Filed

-----------------------------------------------------------------------------
(* The assumption of ShardPlanProofs.                                      *)
LEMMA PlanAssumed == PP!PlanAssumption
<1>1. Subsample \in Nat /\ Unset \notin Nat
  BY BuildAssumption DEF BuildAssumption
<1>2. QED
  BY <1>1 DEF PP!PlanAssumption

(* Orders of a stratum.                                                    *)

LEMMA OrderIs ==
  ASSUME NEW S, IsFiniteSet(S), NEW q \in SetToSeqs(S)
  PROVE  /\ Cardinality(S) \in Nat
         /\ q \in Seq(S) /\ Len(q) = Cardinality(S) /\ DOMAIN q = 1 .. Cardinality(S)
         /\ \A i \in 1 .. Cardinality(S) : q[i] \in S
         /\ \A i, j \in 1 .. Cardinality(S) : q[i] = q[j] => i = j
         /\ \A x \in S : \E i \in 1 .. Cardinality(S) : q[i] = x
<1> DEFINE n == Cardinality(S)
<1>1. n \in Nat
  BY FS_CardinalityType
<1>2. /\ q \in [1 .. n -> S]
      /\ \A i, j \in 1 .. n : i # j => q[i] # q[j]
  BY DEF SetToSeqs
<1>3. IsFiniteSet(1 .. n) /\ Cardinality(1 .. n) = n
  <2> HIDE DEF n
  <2>1. QED
    BY <1>1, FS_Interval
<1>4. q \in Injection(1 .. n, S)
  <2> HIDE DEF n
  <2>1. QED
    BY <1>2 DEF Injection, IsInjective
<1>5. q \in Surjection(1 .. n, S)
  <2>1. Cardinality(1 .. n) = Cardinality(S)
    BY <1>3
  <2> HIDE DEF n
  <2>2. QED
    BY <1>4, <2>1, FS_Injection
<1>6. \A x \in S : \E i \in 1 .. n : q[i] = x
  <2> HIDE DEF n
  <2>1. QED
    BY <1>5 DEF Surjection
<1>7. q \in Seq(S) /\ Len(q) = n /\ DOMAIN q = 1 .. n
  <2> HIDE DEF n
  <2>1. QED
    BY <1>1, <1>2
<1>8. QED
  BY <1>1, <1>2, <1>6, <1>7

(* As many documents as places.                                            *)
LEMMA PlacesCount ==
  ASSUME NEW S, IsFiniteSet(S), NEW q \in SetToSeqs(S),
         NEW I \in SUBSET (1 .. Cardinality(S)), NEW T,
         \A x : x \in T <=> \E i \in I : q[i] = x
  PROVE  Cardinality(T) = Cardinality(I)
<1> DEFINE f == [i \in I |-> q[i]]
<1>1. /\ Cardinality(S) \in Nat
      /\ \A i, j \in 1 .. Cardinality(S) : q[i] = q[j] => i = j
  BY OrderIs
<1>2. IsFiniteSet(I)
  <2>1. IsFiniteSet(1 .. Cardinality(S))
    BY <1>1, FS_Interval
  <2>2. QED
    BY <2>1, FS_Subset
<1>3. f \in [I -> T] /\ \A i \in I : f[i] = q[i]
  OBVIOUS
<1> HIDE DEF f
<1>4. f \in Injection(I, T)
  BY <1>1, <1>3 DEF Injection, IsInjective
<1>5. f \in Surjection(I, T)
  BY <1>3 DEF Surjection
<1>6. ExistsBijection(I, T)
  BY <1>4, <1>5 DEF ExistsBijection, Bijection
<1>7. QED
  BY <1>2, <1>6, FS_Bijection

LEMMA DocsAre ==
  /\ IsFiniteSet(Docs)
  /\ Cardinality(Docs) = NDocs
  /\ NDocs \in Nat \ {0}
  /\ Docs \in SUBSET Nat
<1>1. NDocs \in Nat \ {0}
  BY BuildAssumption DEF BuildAssumption
<1>2. QED
  BY <1>1, FS_Interval DEF Docs

LEMMA MembersAre ==
  ASSUME NEW k
  PROVE  /\ Members(k) \in SUBSET Docs
         /\ IsFiniteSet(Members(k))
         /\ Cardinality(Members(k)) \in Nat
<1>1. Members(k) \in SUBSET Docs
  BY DEF Members
<1>2. QED
  BY <1>1, DocsAre, FS_Subset, FS_CardinalityType

(* The stretches of a stratum assign_splits deals out.                     *)
LEMMA SplitsCount ==
  ASSUME NEW S, IsFiniteSet(S), NEW q \in SetToSeqs(S), NEW s \in Splits,
         NEW T, \A x : x \in T <=> \E i \in 1 .. Cardinality(S) :
                                     q[i] = x /\ SplitAt(Cardinality(S), i) = s
  PROVE  Cardinality(T) = Allocate(Cardinality(S))[s]
<1> DEFINE n == Cardinality(S)
           a == Allocate(n)["train"]
           b == Allocate(n)["val"]
           c == Allocate(n)["test"]
           I == {i \in 1 .. n : SplitAt(n, i) = s}
<1>1. n \in Nat
  BY OrderIs
<1>2. a \in Nat /\ b \in Nat /\ c \in Nat /\ a + b + c = n
  <2>1. Allocate(n) \in [Splits -> Nat] /\ SumOf(Allocate(n)) = n
    BY <1>1, AllocateIs
  <2>2. QED
    BY <2>1, SplitsAre DEF SumOf
<1>3. Cardinality(T) = Cardinality(I)
  BY PlacesCount
<1>4. ASSUME NEW i \in 1 .. n
      PROVE  /\ i <= a => SplitAt(n, i) = "train"
             /\ ~(i <= a) /\ i \in a + 1 .. a + b => SplitAt(n, i) = "val"
             /\ ~(i <= a) /\ ~(i \in a + 1 .. a + b) => SplitAt(n, i) = "test"
  <2>1. SplitAt(n, i) = CASE i <= a -> "train"
                          [] i \in a + 1 .. a + b -> "val"
                          [] OTHER -> "test"
    BY DEF SplitAt
  <2> HIDE DEF n, a, b, c
  <2>2. a + 1 \in Int /\ \A j \in a + 1 .. a + b : ~(j <= a)
    BY <1>2
  <2>3. QED
    BY <1>1, <1>2, <2>1, <2>2
<1> HIDE DEF n, a, b, c
<1>5. \A i \in 1 .. n :
        /\ SplitAt(n, i) = "train" <=> i \in 1 .. a
        /\ SplitAt(n, i) = "val" <=> i \in a + 1 .. a + b
        /\ SplitAt(n, i) = "test" <=> i \in a + b + 1 .. n
  BY <1>1, <1>2, <1>4
<1>6. 1 .. a \subseteq 1 .. n /\ a + 1 .. a + b \subseteq 1 .. n /\ a + b + 1 .. n \subseteq 1 .. n
  BY <1>1, <1>2
<1>7. CASE s = "train"
  <2>1. I = 1 .. a
    BY <1>5, <1>6, <1>7
  <2>2. Cardinality(1 .. a) = a
    BY <1>2, FS_Interval
  <2>3. QED
    BY <1>3, <1>7, <2>1, <2>2 DEF a, n
<1>8. CASE s = "val"
  <2>1. I = a + 1 .. a + b
    BY <1>5, <1>6, <1>8
  <2>2. Cardinality(a + 1 .. a + b) = b
    <3>1. a + 1 \in Int /\ a + b \in Int
      BY <1>2
    <3>2. Cardinality(a + 1 .. a + b) = IF a + 1 > a + b THEN 0 ELSE (a + b) - (a + 1) + 1
      BY <3>1, FS_Interval
    <3>3. QED
      BY <1>2, <3>2
  <2>3. QED
    BY <1>3, <1>8, <2>1, <2>2 DEF b, n
<1>9. CASE s = "test"
  <2>1. I = a + b + 1 .. n
    BY <1>5, <1>6, <1>9
  <2>2. Cardinality(a + b + 1 .. n) = c
    <3>1. a + b + 1 \in Int /\ n \in Int
      BY <1>1, <1>2
    <3>2. Cardinality(a + b + 1 .. n) = IF a + b + 1 > n THEN 0 ELSE n - (a + b + 1) + 1
      BY <3>1, FS_Interval
    <3>3. QED
      BY <1>2, <3>2
  <2>3. QED
    BY <1>3, <1>9, <2>1, <2>2 DEF c, n
<1>10. QED
  BY <1>7, <1>8, <1>9, SplitsAre

(* The step of assign_splits.                                              *)
LEMMA AssignSplitsAllocates ==
  ASSUME BuildInv, AssignSplits
  PROVE  SplitsAllocated'
<1>1. stage' = "split" /\ stratum' = stratum /\ length' = length
  BY DEF AssignSplits
<1>2. stratum \in [Docs -> Keys]
  BY DEF BuildInv, Fetched
<1>3. PICK q \in HashOrders :
        split' = [d \in Docs |->
                    LET members == q[stratum[d]]
                    IN  SplitAt(Len(members),
                                CHOOSE i \in DOMAIN members : members[i] = d)]
  BY DEF AssignSplits
<1>4. \A k \in Keys : q[k] \in SetToSeqs(Members(k))
  BY <1>3 DEF HashOrders
<1>5. ASSUME NEW d \in Docs
      PROVE  \E i \in 1 .. Cardinality(Members(stratum[d])) :
               /\ q[stratum[d]][i] = d
               /\ split'[d] = SplitAt(Cardinality(Members(stratum[d])), i)
  <2> DEFINE k == stratum[d]
             n == Cardinality(Members(k))
             i == CHOOSE i \in 1 .. n : q[k][i] = d
  <2>1. k \in Keys /\ d \in Members(k)
    BY <1>2 DEF Members
  <2>2. q[k] \in SetToSeqs(Members(k)) /\ IsFiniteSet(Members(k))
    BY <1>4, <2>1, MembersAre
  <2>3. Len(q[k]) = n /\ DOMAIN q[k] = 1 .. n /\ \E j \in 1 .. n : q[k][j] = d
    <3> HIDE DEF k
    <3>1. QED
      BY <2>1, <2>2, OrderIs
  <2>4. i \in 1 .. n /\ q[k][i] = d
    BY <2>3
  <2>5. split'[d] = SplitAt(n, i)
    BY <1>3, <2>3
  <2>6. QED
    BY <2>4, <2>5
<1>6. \A n, i : SplitAt(n, i) \in Splits
  BY DEF SplitAt, Splits
<1>7. split' \in [Docs -> Splits]
  <2>1. \A d \in Docs : split'[d] \in Splits
    BY <1>5, <1>6, MembersAre
  <2>2. split' = [d \in Docs |-> split'[d]]
    BY <1>3
  <2>3. QED
    BY <2>1, <2>2
<1>8. ASSUME NEW k \in Keys, NEW s \in Splits
      PROVE  Cardinality({d \in Members(k) : split'[d] = s})
               = Allocate(Cardinality(Members(k)))[s]
  <2> DEFINE n == Cardinality(Members(k))
             T == {d \in Members(k) : split'[d] = s}
  <2>1. /\ q[k] \in SetToSeqs(Members(k)) /\ IsFiniteSet(Members(k))
        /\ \A d \in Members(k) : d \in Docs /\ stratum[d] = k
    BY <1>4, MembersAre DEF Members
  <2>2. /\ \A i \in 1 .. n : q[k][i] \in Members(k)
        /\ \A i, j \in 1 .. n : q[k][i] = q[k][j] => i = j
    BY <2>1, OrderIs
  <2>3. ASSUME NEW x
        PROVE  x \in T <=> \E i \in 1 .. n : q[k][i] = x /\ SplitAt(n, i) = s
    <3>1. ASSUME x \in T
          PROVE  \E i \in 1 .. n : q[k][i] = x /\ SplitAt(n, i) = s
      BY <1>5, <2>1, <3>1
    <3>2. ASSUME NEW i \in 1 .. n, q[k][i] = x, SplitAt(n, i) = s
          PROVE  x \in T
      <4>1. x \in Members(k) /\ x \in Docs /\ stratum[x] = k
        BY <2>1, <2>2, <3>2
      <4>2. PICK j \in 1 .. n : q[k][j] = x /\ split'[x] = SplitAt(n, j)
        BY <1>5, <4>1
      <4>3. j = i
        BY <2>2, <3>2, <4>2
      <4>4. QED
        BY <3>2, <4>1, <4>2, <4>3
    <3>3. QED
      BY <3>1, <3>2
  <2>4. Cardinality(T) = Allocate(Cardinality(Members(k)))[s]
    <3> HIDE DEF T
    <3>1. QED
      BY <2>1, <2>3, SplitsCount
  <2>5. QED
    BY <2>4
<1>9. \A k : Members(k)' = Members(k)
  BY <1>1 DEF Members
<1>10. QED
  BY <1>1, <1>7, <1>8, <1>9 DEF SplitsAllocated

-----------------------------------------------------------------------------
(* Totals.                                                                 *)

LEMMA MaxOfFinite ==
  ASSUME NEW S \in SUBSET Nat, IsFiniteSet(S), S # {}
  PROVE  Max(S) \in S /\ \A x \in S : x <= Max(S)
<1> DEFINE Q == {s \in SUBSET S : s = {} \/ \E m \in s : \A x \in s : x <= m}
<1>1. {} \in Q /\ Q \in SUBSET SUBSET S
  OBVIOUS
<1>2. ASSUME NEW s \in Q, NEW y \in S \ s
      PROVE  s \union {y} \in Q
  <2>1. CASE s = {}
    <3>1. y \in s \union {y} /\ \A x \in s \union {y} : x <= y
      BY <2>1
    <3>2. QED
      BY <3>1
  <2>2. CASE s # {}
    <3>1. PICK m \in s : \A x \in s : x <= m
      BY <2>2
    <3>2. m \in Nat /\ y \in Nat
      OBVIOUS
    <3>3. CASE y <= m
      <4>1. m \in s \union {y} /\ \A x \in s \union {y} : x <= m
        BY <3>1, <3>3
      <4>2. QED
        BY <4>1
    <3>4. CASE m <= y
      <4>1. \A x \in s \union {y} : x <= y
        <5>1. \A x \in s : x \in Nat
          OBVIOUS
        <5>2. QED
          BY <3>1, <3>2, <3>4, <5>1
      <4>2. QED
        BY <4>1
    <3>5. QED
      BY <3>2, <3>3, <3>4
  <2>3. QED
    BY <2>1, <2>2
<1>3. Q = SUBSET S
  <2> HIDE DEF Q
  <2>1. QED
    BY <1>1, <1>2, FiniteSetInduction
<1>4. PICK m \in S : \A x \in S : x <= m
  <2>1. S \in Q
    BY <1>3
  <2>2. QED
    BY <2>1
<1>5. m \in Nat /\ \A y \in S : m >= y
  BY <1>4
<1>6. Max(S) = CHOOSE x \in S : \A y \in S : x >= y
  BY DEF Max
<1>7. Max(S) \in S /\ \A y \in S : Max(S) >= y
  BY <1>5, <1>6
<1>8. QED
  BY <1>7

LEMMA TotalIs ==
  ASSUME Fetched, NEW k
  PROVE  /\ \A d \in Members(k) : d \in Docs /\ length[d] \in Nat
         /\ Total(k) \in Nat
         /\ Members(k) # {} => Total(k) = Summation(length, Members(k))
<1>1. Members(k) \in SUBSET Docs /\ IsFiniteSet(Members(k))
  BY MembersAre
<1>2. \A d \in Members(k) : d \in Docs /\ length[d] \in Nat
  BY <1>1 DEF Fetched
<1>3. Summation(length, Members(k)) \in Nat
  BY <1>1, <1>2, SummationMonotone
<1>4. SumFunctionOnSet(length, Members(k)) = Summation(length, Members(k))
  <2>1. \A d \in Members(k) : length[d] \in Int
    BY <1>2
  <2>2. QED
    BY <1>1, <2>1, SumFunctionOnSetIsSum
<1>5. QED
  BY <1>2, <1>3, <1>4 DEF Total

LEMMA LongestIs ==
  ASSUME Fetched, NEW k, Members(k) # {}
  PROVE  Longest(k) \in Nat /\ \A d \in Members(k) : length[d] <= Longest(k)
<1> DEFINE L == {length[d] : d \in Members(k)}
<1>1. \A d \in Members(k) : length[d] \in Nat
  BY TotalIs
<1>2. L \in SUBSET Nat /\ L # {} /\ \A d \in Members(k) : length[d] \in L
  BY <1>1
<1>3. IsFiniteSet(L)
  <2>1. [d \in Members(k) |-> length[d]] \in Surjection(Members(k), L)
    BY DEF Surjection
  <2>2. IsFiniteSet(Members(k))
    BY MembersAre
  <2> HIDE DEF L
  <2>3. QED
    BY <2>1, <2>2, FS_Surjection
<1>4. Max(L) \in L /\ \A x \in L : x <= Max(L)
  <2> HIDE DEF L
  <2>1. QED
    BY <1>2, <1>3, MaxOfFinite
<1>5. Longest(k) = Max(L)
  BY DEF Longest
<1> HIDE DEF L
<1>6. QED
  BY <1>2, <1>4, <1>5

-----------------------------------------------------------------------------
(* What a step leaves alone.                                               *)

LEMMA CountedKept ==
  ASSUME Counted, UNCHANGED <<length, queue, cursor, emitted>>
  PROVE  Counted'
<1>1. \A k \in Keys : Sent(k)' = Sent(k)
  BY DEF Sent
<1>2. QED
  BY <1>1 DEF Counted

LEMMA PrefixesKept ==
  ASSUME PrefixesAreRepresentative, UNCHANGED <<stratum, length, emitted>>
  PROVE  PrefixesAreRepresentative'
<1>1. \A k : Members(k)' = Members(k)
  BY DEF Members
<1>2. \A k : Total(k)' = Total(k) /\ Longest(k)' = Longest(k)
  BY <1>1 DEF Total, Longest
<1>3. QED
  BY <1>1, <1>2 DEF PrefixesAreRepresentative

LEMMA WrittenKept ==
  ASSUME Written, UNCHANGED <<stratum, queue, cursor, out>>,
         stage' \notin Unordered \union {"interleave"} => Len(out) = NDocs
  PROVE  Written'
<1>1. \A k : Sent(k)' = Sent(k)
  BY DEF Sent
<1>2. QED
  BY <1>1 DEF Written

LEMMA LoadsKept ==
  ASSUME UNCHANGED <<length, out, shardOf>>
  PROVE  \A s : Load(s)' = Load(s)
BY DEF Load, InShard

LEMMA FilledKept ==
  ASSUME Filled, Contiguous, UNCHANGED <<length, out, shardOf, shard, used>>
  PROVE  Filled' /\ Contiguous'
<1>1. \A s : Load(s)' = Load(s)
  BY LoadsKept
<1>2. Filled'
  BY <1>1 DEF Filled
<1>3. Contiguous'
  BY <1>1 DEF Contiguous
<1>4. QED
  BY <1>2, <1>3

LEMMA SplitsKept ==
  ASSUME SplitsAllocated, UNCHANGED <<stratum, split>>,
         stage' \in {"check", "invalid"} <=> stage \in {"check", "invalid"}
  PROVE  SplitsAllocated'
<1>1. \A k : Members(k)' = Members(k)
  BY DEF Members
<1>2. QED
  BY <1>1 DEF SplitsAllocated

LEMMA QueuedKept ==
  ASSUME Queued, UNCHANGED <<stratum, queue>>, stage' \in Unordered <=> stage \in Unordered
  PROVE  Queued'
<1>1. \A k : Members(k)' = Members(k)
  BY DEF Members
<1>2. QED
  BY <1>1 DEF Queued

-----------------------------------------------------------------------------
(* The initial states.                                                     *)

LEMMA PrefixesOfNothing ==
  ASSUME Fetched, \A k \in Keys : emitted[k] = 0
  PROVE  PrefixesAreRepresentative
<1>1. SUFFICES ASSUME NEW k \in Keys, NEW l \in Keys, Members(k) # {}
               PROVE  emitted[k] * Total(l) <= emitted[l] * Total(k) + Longest(k) * Total(l)
  BY DEF PrefixesAreRepresentative
<1>2. Total(k) \in Nat /\ Total(l) \in Nat /\ Longest(k) \in Nat
  BY <1>1, TotalIs, LongestIs
<1>3. Longest(k) * Total(l) \in Nat /\ 0 * Total(l) = 0 /\ 0 * Total(k) = 0
  BY <1>2
<1>4. emitted[k] = 0 /\ emitted[l] = 0
  OBVIOUS
<1>5. QED
  BY <1>3, <1>4

LEMMA InitInv == Init => BuildInv
<1>1. SUFFICES ASSUME Init PROVE BuildInv
  OBVIOUS
<1>2. Staged /\ Queued /\ SplitsAllocated
  BY <1>1 DEF Init, Staged, Queued, SplitsAllocated, Building, Unordered
<1>3. Fetched
  <2>1. stratum \in [Docs -> Keys] /\ length \in [Docs -> Lengths] /\ Lengths \in SUBSET Nat
    BY <1>1, BuildAssumption DEF Init, BuildAssumption
  <2>2. length \in [Docs -> Nat]
    BY <2>1
  <2>3. QED
    BY <1>1, <2>1, <2>2 DEF Init, Fetched
<1>4. \A k \in Keys : Sent(k) = {} /\ cursor[k] = 0 /\ emitted[k] = 0
  BY <1>1 DEF Init, Sent
<1>5. Counted
  <2>1. \A k \in Keys : Len(queue[k]) = 0
    BY <1>1 DEF Init
  <2>2. cursor \in [Keys -> Nat] /\ emitted \in [Keys -> Nat]
    BY <1>1 DEF Init
  <2>3. \A k \in Keys : emitted[k] = Summation(length, Sent(k))
    BY <1>4, SummationEmpty
  <2>4. QED
    BY <1>4, <2>1, <2>2, <2>3 DEF Counted
<1>6. PrefixesAreRepresentative
  BY <1>3, <1>4, PrefixesOfNothing
<1>7. Written
  <2>1. out = <<>> /\ stage \in Unordered /\ stratum \in [Docs -> Keys]
    BY <1>1, <1>3 DEF Init, Unordered, Fetched
  <2>2. \A d \in Docs : d \notin Sent(stratum[d])
    BY <1>4, <2>1
  <2>3. QED
    BY <2>1, <2>2 DEF Written
<1>8. MaxDocTokens \in Nat \ {0} /\ ShardTokens \in Nat /\ ShardTokens >= MaxDocTokens
      /\ NDocs \in Nat \ {0}
  BY BuildAssumption DEF BuildAssumption
<1>9. Sharded
  BY <1>1, <1>8 DEF Init, Sharded, Planning
<1>10. \A s : Load(s) = 0
  <2>1. \A s : InShard(s) = {}
    BY <1>1 DEF Init, InShard
  <2>2. QED
    BY <2>1, SummationEmpty DEF Load
<1>11. Filled /\ Contiguous
  BY <1>1, <1>8, <1>10 DEF Init, Filled, Contiguous
<1>12. Filed
  BY <1>1 DEF Init, Filed, Planning
<1>13. QED
  BY <1>2, <1>3, <1>5, <1>6, <1>7, <1>9, <1>11, <1>12 DEF BuildInv

-----------------------------------------------------------------------------
(* The steps of build() before the interleaving.                           *)

LEMMA StutterStep ==
  ASSUME BuildInv, UNCHANGED vars
  PROVE  BuildInv'
<1>1. /\ UNCHANGED <<stage, stratum, length, split, queue, cursor, emitted, out, shardOf, shard, used>>
      /\ UNCHANGED <<file, read, groups, order, offsets, running, plans>>
  BY DEF vars
<1>2. Staged' /\ Fetched'
  BY <1>1 DEF BuildInv, Staged, Fetched
<1>3. SplitsAllocated' /\ Queued' /\ Counted' /\ PrefixesAreRepresentative' /\ Filled' /\ Contiguous'
  BY <1>1, SplitsKept, QueuedKept, CountedKept, PrefixesKept, FilledKept DEF BuildInv
<1>4. Written'
  <2>1. stage' \notin Unordered \union {"interleave"} => Len(out) = NDocs
    BY <1>1 DEF BuildInv, Written
  <2>2. QED
    BY <1>1, <2>1, WrittenKept DEF BuildInv
<1>5. Sharded'
  BY <1>1 DEF BuildInv, Sharded
<1>6. Filed'
  <2>1. CorpusRows' = CorpusRows /\ (Plan!NothingRead <=> Plan!NothingRead')
    BY <1>1 DEF CorpusRows, Plan!NothingRead
  <2>2. PP!PlanInv => PP!PlanInv'
    BY <1>1, PP!PlanInvStutter, PlanAssumed DEF PP!planVars
  <2>3. QED
    BY <1>1, <2>1, <2>2 DEF BuildInv, Filed
<1>7. QED
  BY <1>2, <1>3, <1>4, <1>5, <1>6 DEF BuildInv

LEMMA RefuseStep ==
  ASSUME BuildInv, RefuseDocuments
  PROVE  BuildInv'
<1>1. /\ stage = "check" /\ stage' = "invalid"
      /\ UNCHANGED <<stratum, length, split, queue, cursor, emitted, out, shardOf, shard, used>>
      /\ UNCHANGED <<file, read, groups, order, offsets, running, plans>>
  BY DEF RefuseDocuments, buildVars, planVars
<1>2. stage \in Unordered /\ stage' \in Unordered /\ stage \in Building /\ stage' \in Building
      /\ stage' \notin Planning /\ stage' # "shard" /\ stage' # "write"
  BY <1>1 DEF Unordered, Building, Planning
<1>3. Staged' /\ Fetched'
  BY <1>1, <1>2 DEF BuildInv, Staged, Fetched, Building, Unordered
<1>4. SplitsAllocated' /\ Queued' /\ Counted' /\ PrefixesAreRepresentative' /\ Filled' /\ Contiguous'
  BY <1>1, <1>2, SplitsKept, QueuedKept, CountedKept, PrefixesKept, FilledKept DEF BuildInv
<1>5. Written'
  BY <1>1, <1>2, WrittenKept DEF BuildInv
<1>6. Sharded'
  BY <1>1, <1>2 DEF BuildInv, Sharded
<1>7. Filed'
  BY <1>1, <1>2 DEF BuildInv, Filed, Plan!NothingRead, Planning, Building, Unordered
<1>8. QED
  BY <1>3, <1>4, <1>5, <1>6, <1>7 DEF BuildInv

LEMMA AssignSplitsStep ==
  ASSUME BuildInv, AssignSplits
  PROVE  BuildInv'
<1>1. /\ stage = "check" /\ stage' = "split"
      /\ UNCHANGED <<stratum, length, queue, cursor, emitted, out, shardOf, shard, used>>
      /\ UNCHANGED <<file, read, groups, order, offsets, running, plans>>
  BY DEF AssignSplits, planVars
<1>2. stage \in Unordered /\ stage' \in Unordered /\ stage \in Building /\ stage' \in Building
      /\ stage' \notin Planning /\ stage' # "shard" /\ stage' # "write"
  BY <1>1 DEF Unordered, Building, Planning
<1>3. Staged'
  BY <1>2 DEF Staged
<1>4. Fetched'
  <2>1. \A d \in Docs : length[d] \in Nat
    BY DEF BuildInv, Fetched
  <2>2. \A d \in Docs : ~Unusable(d)
    BY DEF AssignSplits
  <2>3. MaxDocTokens \in Nat
    BY BuildAssumption DEF BuildAssumption
  <2>4. \A d \in Docs : length[d] \in 1 .. MaxDocTokens
    BY <2>1, <2>2, <2>3 DEF Unusable
  <2>5. QED
    BY <1>1, <2>4 DEF BuildInv, Fetched
<1>5. SplitsAllocated'
  BY AssignSplitsAllocates
<1>6. Queued' /\ Counted' /\ PrefixesAreRepresentative' /\ Filled' /\ Contiguous'
  BY <1>1, <1>2, QueuedKept, CountedKept, PrefixesKept, FilledKept DEF BuildInv
<1>7. Written'
  BY <1>1, <1>2, WrittenKept DEF BuildInv
<1>8. Sharded'
  BY <1>1, <1>2 DEF BuildInv, Sharded
<1>9. Filed'
  BY <1>1, <1>2 DEF BuildInv, Filed, Plan!NothingRead, Planning, Building, Unordered
<1>10. QED
  BY <1>3, <1>4, <1>5, <1>6, <1>7, <1>8, <1>9 DEF BuildInv

LEMMA OrderStrataStep ==
  ASSUME BuildInv, OrderStrata
  PROVE  BuildInv'
<1>1. /\ stage = "split" /\ stage' = "interleave" /\ queue' \in HashOrders
      /\ UNCHANGED <<stratum, length, split, cursor, emitted, out, shardOf, shard, used>>
      /\ UNCHANGED <<file, read, groups, order, offsets, running, plans>>
  BY DEF OrderStrata, planVars
<1>2. stage \in Unordered /\ stage' \notin Unordered /\ stage \in Building /\ stage' \in Building
      /\ stage' \notin Planning
  BY <1>1 DEF Unordered, Building, Planning
<1>3. Staged' /\ Fetched' /\ SplitsAllocated'
  BY <1>1, <1>2, SplitsKept DEF BuildInv, Staged, Fetched
<1>4. \A k : Members(k)' = Members(k)
  BY <1>1 DEF Members
<1>5. DOMAIN queue' = Keys /\ \A k \in Keys : queue'[k] \in SetToSeqs(Members(k))
  BY <1>1 DEF HashOrders
<1>6. Queued'
  BY <1>2, <1>4, <1>5 DEF Queued
<1>7. ASSUME NEW k \in Keys
      PROVE  /\ cursor[k] = 0 /\ Sent(k) = {} /\ Sent(k)' = {}
             /\ Len(queue'[k]) \in Nat
  <2>1. queue[k] = <<>>
    BY <1>2 DEF BuildInv, Queued
  <2>2. cursor[k] \in Nat /\ cursor[k] <= Len(queue[k])
    BY DEF BuildInv, Counted
  <2>3. cursor[k] = 0
    BY <2>1, <2>2
  <2>4. Sent(k) = {} /\ Sent(k)' = {}
    BY <1>1, <2>3 DEF Sent
  <2>5. queue'[k] \in Seq(Members(k))
    <3>1. IsFiniteSet(Members(k)) /\ queue'[k] \in SetToSeqs(Members(k))
      BY <1>5, MembersAre
    <3>2. QED
      BY <3>1, OrderIs
  <2>6. QED
    BY <2>3, <2>4, <2>5
<1>8. Counted'
  <2>1. /\ cursor \in [Keys -> Nat] /\ emitted \in [Keys -> Nat]
        /\ \A k \in Keys : emitted[k] = Summation(length, Sent(k))
    BY DEF BuildInv, Counted
  <2>2. ASSUME NEW k \in Keys
        PROVE  cursor[k] <= Len(queue'[k]) /\ emitted[k] = Summation(length, Sent(k)')
    <3>1. emitted[k] = Summation(length, Sent(k)) /\ Sent(k)' = Sent(k)
      BY <1>7, <2>1
    <3>2. QED
      BY <1>7, <3>1
  <2>3. QED
    BY <1>1, <2>1, <2>2 DEF Counted
<1>9. PrefixesAreRepresentative' /\ Filled' /\ Contiguous'
  BY <1>1, PrefixesKept, FilledKept DEF BuildInv
<1>10. Written'
  <2>1. stratum \in [Docs -> Keys]
    BY DEF BuildInv, Fetched
  <2>2. \A d \in Docs : Sent(stratum[d])' = Sent(stratum[d])
    <3>1. \A d \in Docs : stratum[d] \in Keys
      BY <2>1
    <3>2. \A d \in Docs : Sent(stratum[d])' = {queue'[stratum[d]][j] : j \in 1 .. cursor[stratum[d]]}
      BY <1>1 DEF Sent
    <3>3. \A d \in Docs : cursor[stratum[d]] = 0
      BY <1>7, <3>1
    <3>4. \A d \in Docs : Sent(stratum[d]) = {}
      BY <1>7, <3>1
    <3>5. QED
      BY <3>2, <3>3, <3>4
  <2>3. QED
    BY <1>1, <2>2 DEF BuildInv, Written
<1>11. Sharded'
  BY <1>1, <1>2 DEF BuildInv, Sharded, Unordered, Planning
<1>12. Filed'
  BY <1>1, <1>2 DEF BuildInv, Filed, Plan!NothingRead, Planning, Building, Unordered
<1>13. QED
  BY <1>3, <1>6, <1>8, <1>9, <1>10, <1>11, <1>12 DEF BuildInv

-----------------------------------------------------------------------------
(* The step of interleave_documents.                                       *)

(* The documents a stratum has delivered, and those it has not.            *)
LEMMA SentIs ==
  ASSUME BuildInv, stage \notin Unordered, NEW k \in Keys
  PROVE  /\ Len(queue[k]) = Cardinality(Members(k)) /\ Len(queue[k]) \in Nat
         /\ cursor[k] \in 0 .. Len(queue[k])
         /\ Sent(k) \in SUBSET Members(k)
         /\ emitted[k] = Summation(length, Sent(k))
         /\ emitted[k] \in Nat /\ emitted[k] <= Summation(length, Members(k))
         /\ k \notin Live => Sent(k) = Members(k)
         /\ \A i \in 1 .. Len(queue[k]) : queue[k][i] \in Members(k)
         /\ \A i, j \in 1 .. Len(queue[k]) : queue[k][i] = queue[k][j] => i = j
<1>1. queue[k] \in SetToSeqs(Members(k)) /\ IsFiniteSet(Members(k)) /\ Fetched
  BY MembersAre DEF BuildInv, Queued
<1>2. /\ Cardinality(Members(k)) \in Nat /\ Len(queue[k]) = Cardinality(Members(k))
      /\ \A i \in 1 .. Cardinality(Members(k)) : queue[k][i] \in Members(k)
      /\ \A i, j \in 1 .. Cardinality(Members(k)) : queue[k][i] = queue[k][j] => i = j
      /\ \A x \in Members(k) : \E i \in 1 .. Cardinality(Members(k)) : queue[k][i] = x
  BY <1>1, OrderIs
<1>3. cursor[k] \in Nat /\ cursor[k] <= Len(queue[k]) /\ emitted[k] = Summation(length, Sent(k))
  BY DEF BuildInv, Counted
<1>4. \A j \in 1 .. cursor[k] : j \in 1 .. Len(queue[k])
  BY <1>2, <1>3
<1>5. Sent(k) \in SUBSET Members(k)
  BY <1>2, <1>4 DEF Sent
<1>6. k \notin Live => Sent(k) = Members(k)
  <2>1. SUFFICES ASSUME k \notin Live
                 PROVE  Members(k) \in SUBSET Sent(k)
    BY <1>5
  <2>2. cursor[k] = Len(queue[k])
    BY <1>2, <1>3, <2>1 DEF Live
  <2>3. QED
    BY <1>2, <2>2 DEF Sent
<1>7. /\ Summation(length, Sent(k)) \in Nat
      /\ Summation(length, Sent(k)) <= Summation(length, Members(k))
  <2>1. \A d \in Members(k) : length[d] \in Nat
    BY <1>1, TotalIs
  <2>2. QED
    BY <1>1, <1>5, <2>1, SummationMonotone
<1>8. QED
  BY <1>2, <1>3, <1>5, <1>6, <1>7

(* What a document more does to the fractions of two strata.               *)
LEMMA FractionUp ==
  ASSUME NEW e \in Nat, NEW f \in Nat, NEW t \in Nat, NEW u \in Nat, NEW n \in Nat,
         NEW longest \in Nat, n <= longest, e * u <= f * t
  PROVE  (e + n) * u <= f * t + longest * u
<1>1. e * u \in Nat /\ n * u \in Nat /\ longest * u \in Nat /\ f * t \in Nat
  OBVIOUS
<1>2. (e + n) * u = e * u + n * u
  OBVIOUS
<1>3. n * u <= longest * u
  <2>1. PICK m \in Nat : longest = n + m
    <3>1. longest - n \in Nat /\ longest = n + (longest - n)
      OBVIOUS
    <3>2. QED
      BY <3>1
  <2>2. longest * u = n * u + m * u /\ m * u \in Nat
    BY <2>1
  <2>3. QED
    BY <1>1, <2>2
<1>4. QED
  BY <1>1, <1>2, <1>3

LEMMA ProductUp ==
  ASSUME NEW a \in Nat, NEW b \in Nat, NEW c \in Nat, a <= b
  PROVE  a * c <= b * c
<1>1. PICK m \in Nat : b = a + m
  <2>1. b - a \in Nat /\ b = a + (b - a)
    OBVIOUS
  <2>2. QED
    BY <2>1
<1>2. b * c = a * c + m * c /\ m * c \in Nat /\ a * c \in Nat
  BY <1>1
<1>3. QED
  BY <1>2

(* Where a document goes: the end of the corpus, and out of its stratum.   *)
Emits(k, d) ==
  /\ k \in Live
  /\ d = queue[k][cursor[k] + 1]
  /\ \A l \in Live : Before(k, l)
  /\ cursor' = [cursor EXCEPT ![k] = @ + 1]
  /\ emitted' = [emitted EXCEPT ![k] = @ + length[d]]
  /\ out' = Append(out, d)

LEMMA EmitSent ==
  ASSUME BuildInv, stage = "interleave", NEW k, NEW d, Emits(k, d),
         UNCHANGED <<stratum, length, queue>>
  PROVE  /\ k \in Keys /\ d \in Members(k) /\ d \in Docs /\ stratum[d] = k
         /\ d \notin Sent(k) /\ length[d] \in Nat
         /\ Sent(k)' = Sent(k) \union {d}
         /\ \A l \in Keys : l # k => Sent(l)' = Sent(l)
         /\ cursor'[k] = cursor[k] + 1 /\ cursor'[k] \in 1 .. Len(queue[k])
         /\ emitted'[k] = Summation(length, Sent(k)')
         /\ emitted'[k] = emitted[k] + length[d]
         /\ \A l \in Keys : l # k => emitted'[l] = emitted[l] /\ cursor'[l] = cursor[l]
<1>1. k \in Keys /\ cursor[k] < Len(queue[k])
  BY DEF Emits, Live
<1>2. stage \notin Unordered
  BY DEF Unordered
<1>3. /\ Len(queue[k]) \in Nat /\ cursor[k] \in 0 .. Len(queue[k])
      /\ \A i \in 1 .. Len(queue[k]) : queue[k][i] \in Members(k)
      /\ \A i, j \in 1 .. Len(queue[k]) : queue[k][i] = queue[k][j] => i = j
      /\ emitted[k] = Summation(length, Sent(k)) /\ Sent(k) \in SUBSET Members(k)
  BY <1>1, <1>2, SentIs
<1>4. cursor[k] + 1 \in 1 .. Len(queue[k])
  BY <1>1, <1>3
<1>5. d \in Members(k) /\ d \in Docs /\ stratum[d] = k
  <2>1. d \in Members(k)
    BY <1>3, <1>4 DEF Emits
  <2>2. QED
    BY <2>1 DEF Members
<1>6. d \notin Sent(k)
  <2>1. SUFFICES ASSUME NEW j \in 1 .. cursor[k], queue[k][j] = d
                 PROVE  FALSE
    BY DEF Sent
  <2>2. j \in 1 .. Len(queue[k]) /\ queue[k][j] = queue[k][cursor[k] + 1] /\ j # cursor[k] + 1
    BY <1>3, <2>1 DEF Emits
  <2>3. QED
    BY <1>3, <1>4, <2>2
<1>7. /\ cursor \in [Keys -> Nat] /\ emitted \in [Keys -> Nat] /\ Fetched
  BY DEF BuildInv, Counted
<1>8. /\ cursor'[k] = cursor[k] + 1
      /\ emitted'[k] = emitted[k] + length[d]
      /\ \A l \in Keys : l # k => emitted'[l] = emitted[l] /\ cursor'[l] = cursor[l]
  BY <1>1, <1>7 DEF Emits
<1>9. \A l \in Keys : l # k => Sent(l)' = Sent(l)
  BY <1>8 DEF Sent
<1>10. Sent(k)' = Sent(k) \union {d}
  <2>1. Sent(k)' = {queue[k][j] : j \in 1 .. cursor[k] + 1}
    BY <1>8 DEF Sent
  <2>2. 1 .. cursor[k] + 1 = 1 .. cursor[k] \union {cursor[k] + 1}
    BY <1>3
  <2>3. QED
    BY <2>1, <2>2 DEF Sent, Emits
<1>11. \A x \in Members(k) : length[x] \in Nat
  BY <1>7, TotalIs
<1>12. Summation(length, Sent(k) \union {d}) = Summation(length, Sent(k)) + length[d]
  <2>1. IsFiniteSet(Sent(k))
    BY <1>3, MembersAre, FS_Subset
  <2>2. \A x \in Sent(k) \union {d} : length[x] \in Int
    BY <1>3, <1>5, <1>11
  <2>3. QED
    BY <1>6, <2>1, <2>2, SummationAdd
<1>13. QED
  BY <1>1, <1>3, <1>4, <1>5, <1>6, <1>8, <1>9, <1>10, <1>11, <1>12

LEMMA EmitPrefixes ==
  ASSUME BuildInv, stage = "interleave", NEW k, NEW d, Emits(k, d),
         UNCHANGED <<stratum, length, queue>>
  PROVE  PrefixesAreRepresentative'
<1>1. /\ k \in Keys /\ d \in Members(k) /\ length[d] \in Nat
      /\ Sent(k)' = Sent(k) \union {d}
      /\ emitted'[k] = Summation(length, Sent(k)')
      /\ emitted'[k] = emitted[k] + length[d]
      /\ \A l \in Keys : l # k => emitted'[l] = emitted[l]
  BY EmitSent
<1>2. Fetched /\ stage \notin Unordered
  BY DEF BuildInv, Unordered
<1>3. \A l : Members(l)' = Members(l)
  BY DEF Members
<1>4. \A l : Total(l)' = Total(l) /\ Longest(l)' = Longest(l)
  BY <1>3 DEF Total, Longest
<1>5. SUFFICES ASSUME NEW j \in Keys, NEW l \in Keys, Members(j) # {}, Members(l) # {}
               PROVE  emitted'[j] * Total(l) <= emitted'[l] * Total(j) + Longest(j) * Total(l)
  BY <1>3, <1>4 DEF PrefixesAreRepresentative
<1>6. \A m \in Keys : /\ emitted[m] \in Nat /\ Total(m) \in Nat
                      /\ Members(m) # {} => /\ Longest(m) \in Nat
                                            /\ Total(m) = Summation(length, Members(m))
  BY <1>2, SentIs, TotalIs, LongestIs
<1>7. emitted[j] * Total(l) <= emitted[l] * Total(j) + Longest(j) * Total(l)
  BY <1>5 DEF BuildInv, PrefixesAreRepresentative
<1>8. /\ emitted[j] \in Nat /\ emitted[l] \in Nat /\ Total(j) \in Nat /\ Total(l) \in Nat
      /\ Longest(j) \in Nat /\ Longest(j) * Total(l) \in Nat
  BY <1>5, <1>6
<1>9. CASE j # k /\ l # k
  BY <1>1, <1>5, <1>7, <1>9
<1>10. CASE j # k /\ l = k
  <2>1. emitted'[j] = emitted[j] /\ emitted'[l] \in Nat /\ emitted[l] <= emitted'[l]
    BY <1>1, <1>5, <1>8, <1>10
  <2>2. emitted[l] * Total(j) <= emitted'[l] * Total(j)
    BY <1>8, <2>1, ProductUp
  <2>3. emitted[l] * Total(j) \in Nat /\ emitted'[l] * Total(j) \in Nat /\ emitted[j] * Total(l) \in Nat
    BY <1>8, <2>1
  <2>4. QED
    BY <1>7, <1>8, <2>1, <2>2, <2>3
<1>11. CASE j = k /\ l = k
  <2>1. emitted'[k] \in Nat
    BY <1>1, <1>6
  <2>2. emitted'[k] * Total(k) \in Nat /\ Longest(k) * Total(k) \in Nat
    BY <1>8, <1>11, <2>1
  <2>3. QED
    BY <1>11, <2>2
<1>12. CASE j = k /\ l # k
  <2>1. length[d] <= Longest(k)
    BY <1>1, <1>2, LongestIs
  <2>2. emitted'[l] = emitted[l] /\ emitted'[k] = emitted[k] + length[d]
    BY <1>1, <1>5, <1>12
  <2>3. CASE l \in Live
    <3>1. Before(k, l)
      BY <2>3 DEF Emits
    <3>2. emitted[k] * Total(l) <= emitted[l] * Total(k)
      <4>1. emitted[k] * Total(l) \in Nat /\ emitted[l] * Total(k) \in Nat
        BY <1>8, <1>12
      <4>2. QED
        BY <3>1, <4>1 DEF Before
    <3>3. (emitted[k] + length[d]) * Total(l) <= emitted[l] * Total(k) + Longest(k) * Total(l)
      <4>1. /\ emitted[k] \in Nat /\ emitted[l] \in Nat /\ Total(k) \in Nat /\ Total(l) \in Nat
            /\ length[d] \in Nat /\ Longest(k) \in Nat
        BY <1>1, <1>8, <1>12
      <4>2. QED
        BY <2>1, <3>2, <4>1, FractionUp
    <3>4. QED
      BY <1>12, <2>2, <3>3
  <2>4. CASE l \notin Live
    <3>1. emitted[l] = Total(l)
      <4>1. Sent(l) = Members(l) /\ emitted[l] = Summation(length, Sent(l))
        BY <1>2, <2>4, SentIs
      <4>2. QED
        BY <1>5, <1>6, <4>1
    <3>2. emitted'[k] <= Total(k) /\ emitted'[k] \in Nat
      <4>1. Sent(k) \union {d} \in SUBSET Members(k)
        BY <1>1, <1>2, SentIs
      <4>2. IsFiniteSet(Members(k)) /\ \A x \in Members(k) : length[x] \in Nat
        BY <1>2, MembersAre, TotalIs
      <4>3. /\ Summation(length, Sent(k) \union {d}) \in Nat
            /\ Summation(length, Sent(k) \union {d}) <= Summation(length, Members(k))
        BY <4>1, <4>2, SummationMonotone
      <4>4. Total(k) = Summation(length, Members(k))
        BY <1>5, <1>6, <1>12
      <4>5. QED
        BY <1>1, <4>3, <4>4
    <3>3. emitted'[k] * Total(l) <= Total(k) * Total(l)
      BY <1>8, <1>12, <3>2, ProductUp
    <3>4. /\ Total(k) * Total(l) = Total(l) * Total(k) /\ Total(k) * Total(l) \in Nat
          /\ emitted'[k] * Total(l) \in Nat
      BY <1>8, <1>12, <3>2
    <3>5. emitted'[l] * Total(k) = Total(k) * Total(l)
      BY <2>2, <3>1, <3>4
    <3>6. emitted'[k] * Total(l) <= emitted'[l] * Total(k) + Longest(k) * Total(l)
      BY <1>8, <1>12, <3>3, <3>4, <3>5
    <3>7. QED
      BY <1>12, <3>6
  <2>5. QED
    BY <2>3, <2>4
<1>13. QED
  BY <1>9, <1>10, <1>11, <1>12

LEMMA EmitWritten ==
  ASSUME BuildInv, stage = "interleave", NEW k, NEW d, Emits(k, d),
         UNCHANGED <<stratum, length, queue>>,
         stage' \notin Unordered \union {"interleave"} => Len(out') = NDocs
  PROVE  Written'
<1>1. /\ k \in Keys /\ d \in Docs /\ stratum[d] = k /\ d \notin Sent(k)
      /\ Sent(k)' = Sent(k) \union {d}
      /\ \A l \in Keys : l # k => Sent(l)' = Sent(l)
  BY EmitSent
<1>2. /\ out \in Seq(Docs) /\ out' = Append(out, d)
      /\ \A i, j \in DOMAIN out : out[i] = out[j] => i = j
      /\ \A x \in Docs : x \in Sent(stratum[x]) <=> \E i \in DOMAIN out : out[i] = x
      /\ stratum \in [Docs -> Keys]
  BY DEF BuildInv, Written, Fetched, Emits
<1> DEFINE n == Len(out)
<1>3. /\ n \in Nat /\ DOMAIN out = 1 .. n /\ DOMAIN out' = 1 .. n + 1 /\ out' \in Seq(Docs)
      /\ out'[n + 1] = d /\ \A i \in 1 .. n : out'[i] = out[i] /\ i \in 1 .. n + 1
  BY <1>1, <1>2
<1> HIDE DEF n
<1>4. \A i \in 1 .. n : out[i] # d
  BY <1>1, <1>2, <1>3
<1>5. \A i \in 1 .. n + 1 : i \in 1 .. n \/ i = n + 1
  BY <1>3
<1>6. \A i, j \in DOMAIN out' : out'[i] = out'[j] => i = j
  BY <1>2, <1>3, <1>4, <1>5
<1>7. ASSUME NEW x \in Docs
      PROVE  x \in Sent(stratum[x])' <=> \E i \in DOMAIN out' : out'[i] = x
  <2>1. (\E i \in DOMAIN out' : out'[i] = x) <=> x = d \/ \E i \in DOMAIN out : out[i] = x
    <3>1. ASSUME NEW i \in DOMAIN out', out'[i] = x
          PROVE  x = d \/ \E j \in DOMAIN out : out[j] = x
      BY <1>3, <1>5, <3>1
    <3>2. x = d => \E i \in DOMAIN out' : out'[i] = x
      <4>1. n + 1 \in DOMAIN out'
        BY <1>3
      <4>2. QED
        BY <1>3, <4>1
    <3>3. ASSUME NEW j \in DOMAIN out, out[j] = x
          PROVE  \E i \in DOMAIN out' : out'[i] = x
      BY <1>3, <3>3
    <3>4. QED
      BY <3>1, <3>2, <3>3
  <2>2. Sent(stratum[x])' = IF stratum[x] = k THEN Sent(k) \union {d} ELSE Sent(stratum[x])
    <3>1. stratum[x] \in Keys /\ stratum'[x] = stratum[x]
      BY <1>2
    <3>2. Sent(stratum[x])' = {queue'[stratum[x]][j] : j \in 1 .. cursor'[stratum[x]]}
      BY <3>1 DEF Sent
    <3>3. \A l \in Keys : Sent(l)' = {queue'[l][j] : j \in 1 .. cursor'[l]}
      BY DEF Sent
    <3>4. QED
      BY <1>1, <3>1, <3>2, <3>3
  <2>3. x \in Sent(stratum[x]) <=> \E i \in DOMAIN out : out[i] = x
    BY <1>2
  <2>4. x = d => stratum[x] = k
    BY <1>1
  <2>5. QED
    BY <2>1, <2>2, <2>3, <2>4
<1>8. stratum' = stratum /\ Docs = Docs'
  OBVIOUS
<1>9. QED
  BY <1>3, <1>6, <1>7, <1>2 DEF Written

LEMMA EmitStep ==
  ASSUME BuildInv, EmitDocument
  PROVE  BuildInv'
<1>1. PICK k \in Live :
        LET d == queue[k][cursor[k] + 1]
        IN  /\ \A l \in Live : Before(k, l)
            /\ cursor' = [cursor EXCEPT ![k] = @ + 1]
            /\ emitted' = [emitted EXCEPT ![k] = @ + length[d]]
            /\ out' = Append(out, d)
  BY DEF EmitDocument
<1> DEFINE d == queue[k][cursor[k] + 1]
<1>2. Emits(k, d)
  BY <1>1 DEF Emits
<1> HIDE DEF d
<1>3. /\ stage = "interleave"
      /\ stage' = IF Len(out') = NDocs THEN "shard" ELSE "interleave"
      /\ UNCHANGED <<stratum, length, split, queue, shardOf, shard, used>>
      /\ UNCHANGED <<file, read, groups, order, offsets, running, plans>>
  BY DEF EmitDocument, planVars
<1>4. /\ stage \notin Unordered /\ stage' \notin Unordered /\ stage' \in {"interleave", "shard"}
      /\ stage \in Building /\ stage' \in Building /\ stage' \notin Planning
  BY <1>3 DEF Unordered, Building, Planning
<1>5. Staged' /\ Fetched' /\ SplitsAllocated' /\ Queued'
  BY <1>3, <1>4, SplitsKept, QueuedKept DEF BuildInv, Staged, Fetched
<1>6. /\ k \in Keys /\ d \in Docs /\ length[d] \in Nat
      /\ cursor'[k] = cursor[k] + 1 /\ cursor'[k] \in 1 .. Len(queue[k])
      /\ emitted'[k] = Summation(length, Sent(k)')
      /\ emitted'[k] = emitted[k] + length[d]
      /\ \A l \in Keys : l # k => /\ emitted'[l] = emitted[l] /\ cursor'[l] = cursor[l]
                                  /\ Sent(l)' = Sent(l)
  BY <1>2, <1>3, EmitSent
<1>7. Counted'
  <2>1. /\ cursor \in [Keys -> Nat] /\ emitted \in [Keys -> Nat]
        /\ \A l \in Keys : cursor[l] <= Len(queue[l]) /\ emitted[l] = Summation(length, Sent(l))
    BY DEF BuildInv, Counted
  <2>2. cursor' = [cursor EXCEPT ![k] = @ + 1] /\ emitted' = [emitted EXCEPT ![k] = @ + length[d]]
    BY <1>2 DEF Emits
  <2>3. cursor' \in [Keys -> Nat] /\ emitted' \in [Keys -> Nat]
    BY <1>6, <2>1, <2>2
  <2>4. ASSUME NEW l \in Keys
        PROVE  cursor'[l] <= Len(queue[l]) /\ emitted'[l] = Summation(length, Sent(l)')
    <3>1. CASE l = k
      <4>1. Len(queue[k]) \in Nat
        BY <1>4, <1>6, SentIs
      <4>2. cursor'[k] <= Len(queue[k])
        BY <1>6, <4>1
      <4>3. QED
        BY <1>6, <3>1, <4>2
    <3>2. CASE l # k
      <4>1. emitted'[l] = emitted[l] /\ cursor'[l] = cursor[l] /\ Sent(l)' = Sent(l)
        BY <1>6, <3>2
      <4>2. QED
        BY <2>1, <4>1
    <3>3. QED
      BY <3>1, <3>2
  <2>5. QED
    BY <1>3, <2>3, <2>4 DEF Counted
<1>8. PrefixesAreRepresentative'
  BY <1>2, <1>3, EmitPrefixes
<1>9. Written'
  <2>1. stage' \notin Unordered \union {"interleave"} => Len(out') = NDocs
    BY <1>3
  <2>2. QED
    BY <1>2, <1>3, <2>1, EmitWritten
<1>10. /\ shardOf = <<>> /\ shard = 0 /\ used = 0 /\ shardOf' = <<>>
  BY <1>3 DEF BuildInv, Sharded
<1>11. NDocs \in Nat \ {0} /\ ShardTokens \in Nat \ {0}
  <2>1. /\ NDocs \in Nat \ {0} /\ MaxDocTokens \in Nat \ {0} /\ ShardTokens \in Nat
        /\ ShardTokens >= MaxDocTokens
    BY BuildAssumption DEF BuildAssumption
  <2>2. QED
    BY <2>1
<1>12. Sharded'
  <2>1. Len(shardOf') = 0 /\ Len(out') \in Nat
    <3>1. out' \in Seq(Docs)
      BY <1>9 DEF Written
    <3>2. QED
      BY <1>10, <3>1
  <2>2. QED
    BY <1>3, <1>4, <1>10, <1>11, <2>1 DEF Sharded, Planning
<1>13. \A s : Load(s)' = 0
  <2>1. \A s : InShard(s)' = {}
    BY <1>10 DEF InShard
  <2>2. QED
    BY <2>1, SummationEmpty DEF Load
<1>14. Filled' /\ Contiguous'
  BY <1>3, <1>10, <1>11, <1>13 DEF Filled, Contiguous
<1>15. Filed'
  BY <1>3, <1>4 DEF BuildInv, Filed, Plan!NothingRead
<1>16. QED
  BY <1>5, <1>7, <1>8, <1>9, <1>12, <1>14, <1>15 DEF BuildInv

-----------------------------------------------------------------------------
(* The step of assign_shards.                                              *)

LEMMA LoadIs ==
  ASSUME Fetched, Written, Sharded, NEW s
  PROVE  Load(s) \in Nat /\ ShardLoad(s) = Load(s)
<1> DEFINE w == [i \in DOMAIN shardOf |-> length[out[i]]]
<1>1. IsFiniteSet(InShard(s))
  <2>1. IsFiniteSet(DOMAIN shardOf)
    <3>1. DOMAIN shardOf = 1 .. Len(shardOf) /\ Len(shardOf) \in Nat
      BY DEF Sharded
    <3>2. QED
      BY <3>1, FS_Interval
  <2>2. InShard(s) \in SUBSET (DOMAIN shardOf)
    BY DEF InShard
  <2>3. QED
    BY <2>1, <2>2, FS_Subset
<1>2. \A i \in DOMAIN shardOf : out[i] \in Docs
  BY DEF Sharded, Written
<1>3. \A i \in InShard(s) : w[i] \in Nat
  BY <1>2 DEF Fetched, InShard
<1>4. Load(s) = Summation(w, InShard(s)) /\ ShardLoad(s) = SumFunctionOnSet(w, InShard(s))
  BY DEF Load, ShardLoad, InShard
<1> HIDE DEF w
<1>5. Summation(w, InShard(s)) \in Nat
  BY <1>1, <1>3, SummationMonotone
<1>6. SumFunctionOnSet(w, InShard(s)) = Summation(w, InShard(s))
  <2>1. \A i \in InShard(s) : w[i] \in Int
    BY <1>3
  <2>2. QED
    BY <1>1, <2>1, SumFunctionOnSetIsSum
<1>7. QED
  BY <1>4, <1>5, <1>6

LEMMA AssignShardStep ==
  ASSUME BuildInv, AssignShard
  PROVE  BuildInv'
<1> DEFINE m == Len(shardOf) + 1
           n == length[out[m]]
           this == IF Overflows(n) THEN shard + 1 ELSE shard
           now == IF Overflows(n) THEN n ELSE used + n
           After(s) == Summation([i \in DOMAIN shardOf' |-> length'[out'[i]]],
                                 {i \in DOMAIN shardOf' : shardOf'[i] = s})
<1>0. /\ Filled' <=>
           /\ After(shard') = used'
           /\ \A s \in Nat : After(s) <= ShardTokens
           /\ shardOf' # <<>> /\ shardOf'[Len(shardOf')] # shard' =>
                shardOf'[Len(shardOf')] = shard' - 1 /\ used' = 0 /\ After(shard' - 1) >= ShardTokens
      /\ Contiguous' <=>
           /\ \A i \in DOMAIN shardOf' : shardOf'[i] <= shard'
           /\ \A i, j \in DOMAIN shardOf' : i < j => shardOf'[i] <= shardOf'[j]
           /\ \A i \in DOMAIN shardOf' : i > 1 =>
                /\ shardOf'[i] \in {shardOf'[i - 1], shardOf'[i - 1] + 1}
                /\ shardOf'[i] > shardOf'[i - 1] =>
                     After(shardOf'[i - 1]) + length'[out'[i]] > ShardTokens
  BY DEF Filled, Contiguous, Load, InShard
<1>1. /\ stage = "shard"
      /\ shardOf' = Append(shardOf, this)
      /\ Full(now) => shard' = this + 1 /\ used' = 0
      /\ ~Full(now) => shard' = this /\ used' = now
      /\ stage' = IF Len(shardOf') = NDocs THEN "write" ELSE "shard"
      /\ UNCHANGED <<stratum, length, split, queue, cursor, emitted, out>>
      /\ UNCHANGED <<file, read, groups, order, offsets, running, plans>>
  BY DEF AssignShard, planVars
<1>2. /\ stage \notin Unordered \union {"interleave"} /\ stage' \in {"shard", "write"}
      /\ stage \notin Unordered /\ stage' \notin Unordered
      /\ stage' \notin Unordered \union {"interleave"}
      /\ stage \in Building /\ stage' \in Building /\ stage' \notin Planning
      /\ stage \notin {"check", "invalid"} /\ stage' \notin {"check", "invalid"}
  BY <1>1 DEF Unordered, Building, Planning
<1>3. Staged' /\ Fetched' /\ SplitsAllocated' /\ Queued' /\ Counted' /\ PrefixesAreRepresentative'
  BY <1>1, <1>2, SplitsKept, QueuedKept, CountedKept, PrefixesKept DEF BuildInv, Staged, Fetched
<1>4. Len(out) = NDocs
  BY <1>2 DEF BuildInv, Written
<1>5. Written'
  BY <1>1, <1>4, WrittenKept DEF BuildInv
<1>6. /\ shardOf \in Seq(Nat) /\ Len(shardOf) \in Nat /\ Len(shardOf) < NDocs
      /\ shard \in Nat /\ used \in 0 .. ShardTokens - 1
      /\ DOMAIN shardOf = 1 .. Len(shardOf)
      /\ out \in Seq(Docs) /\ DOMAIN out = 1 .. NDocs
  BY <1>1, <1>4 DEF BuildInv, Sharded, Written
<1>7. /\ NDocs \in Nat /\ MaxDocTokens \in Nat \ {0} /\ ShardTokens \in Nat
      /\ MaxDocTokens <= ShardTokens
  BY BuildAssumption DEF BuildAssumption
<1>8. \A i \in 1 .. NDocs : out[i] \in Docs /\ length[out[i]] \in 1 .. MaxDocTokens
  <2>1. \A d \in Docs : length[d] \in 1 .. MaxDocTokens
    BY <1>2 DEF BuildInv, Fetched
  <2>2. \A i \in 1 .. NDocs : out[i] \in Docs
    BY <1>4, <1>6
  <2>3. QED
    BY <2>1, <2>2
<1>9. /\ m \in 1 .. NDocs /\ m \in Nat /\ m = Len(shardOf) + 1
      /\ \A i \in DOMAIN shardOf : i \in 1 .. m - 1 /\ i \in 1 .. NDocs
      /\ n \in 1 .. MaxDocTokens /\ n = length[out[m]] /\ n <= ShardTokens
  <2>1. m \in 1 .. NDocs /\ m \in Nat
    BY <1>6, <1>7
  <2>2. n \in 1 .. MaxDocTokens
    BY <1>8, <2>1
  <2>3. QED
    BY <1>6, <1>7, <2>1, <2>2
<1> HIDE DEF m, n
<1>10. /\ \A i \in DOMAIN shardOf : shardOf[i] \in Nat /\ shardOf[i] <= shard
       /\ \A i, j \in DOMAIN shardOf : i < j => shardOf[i] <= shardOf[j]
       /\ \A i \in DOMAIN shardOf : i > 1 =>
            /\ shardOf[i] \in {shardOf[i - 1], shardOf[i - 1] + 1}
            /\ shardOf[i] > shardOf[i - 1] => Load(shardOf[i - 1]) + length[out[i]] > ShardTokens
       /\ Load(shard) = used
       /\ \A s \in Nat : Load(s) <= ShardTokens
       /\ shardOf # <<>> /\ shardOf[Len(shardOf)] # shard =>
            shardOf[Len(shardOf)] = shard - 1 /\ used = 0 /\ Load(shard - 1) >= ShardTokens
  BY <1>6 DEF BuildInv, Contiguous, Filled
<1>11. /\ Overflows(n) <=> used > 0 /\ used + n > ShardTokens
       /\ Overflows(n) => this = shard + 1 /\ now = n
       /\ ~Overflows(n) => this = shard /\ now = used + n
       /\ this \in Nat /\ now \in 1 .. ShardTokens
  <2>1. Overflows(n) <=> used > 0 /\ used + n > ShardTokens
    BY DEF Overflows
  <2>2. CASE Overflows(n)
    BY <1>6, <1>7, <1>9, <2>1, <2>2
  <2>3. CASE ~Overflows(n)
    <3>1. this = shard /\ now = used + n
      BY <2>3
    <3>2. used = 0 \/ used + n <= ShardTokens
      BY <1>6, <1>7, <1>9, <2>1, <2>3
    <3>3. used + n \in 1 .. ShardTokens
      BY <1>6, <1>7, <1>9, <3>2
    <3>4. QED
      BY <1>6, <2>1, <2>3, <3>1, <3>3
  <2>4. QED
    BY <2>2, <2>3
<1> HIDE DEF this, now
<1>12. /\ shardOf' \in Seq(Nat) /\ Len(shardOf') = m /\ DOMAIN shardOf' = 1 .. m
       /\ shardOf'[m] = this /\ shardOf' # <<>>
       /\ \A i \in DOMAIN shardOf : shardOf'[i] = shardOf[i]
       /\ \A i \in 1 .. m : i \in DOMAIN shardOf \/ i = m
       /\ m \notin DOMAIN shardOf
  BY <1>1, <1>6, <1>9, <1>11
<1>13. \A s : s # this => After(s) = Load(s)
  <2>1. SUFFICES ASSUME NEW s, s # this PROVE After(s) = Load(s)
    OBVIOUS
  <2> DEFINE v == [i \in DOMAIN shardOf |-> length[out[i]]]
             w == [i \in DOMAIN shardOf' |-> length[out[i]]]
  <2>2. {i \in DOMAIN shardOf' : shardOf'[i] = s} = InShard(s) /\ InShard(s) \in SUBSET (DOMAIN shardOf)
    BY <1>12, <2>1 DEF InShard
  <2>3. IsFiniteSet(InShard(s))
    <3>1. IsFiniteSet(DOMAIN shardOf)
      BY <1>6, FS_Interval
    <3>2. QED
      BY <2>2, <3>1, FS_Subset
  <2>4. \A i \in InShard(s) : v[i] \in Int /\ w[i] = v[i]
    BY <1>8, <1>9, <1>12, <2>2
  <2>5. Load(s) = Summation(v, InShard(s)) /\ After(s) = Summation(w, InShard(s))
    BY <1>1, <2>2 DEF Load
  <2> HIDE DEF v, w
  <2>6. Summation(w, InShard(s)) = Summation(v, InShard(s))
    BY <2>3, <2>4, SummationSame
  <2>7. QED
    BY <2>5, <2>6
<1>14. After(this) = Load(this) + n
  <2> DEFINE v == [i \in DOMAIN shardOf |-> length[out[i]]]
             w == [i \in DOMAIN shardOf' |-> length[out[i]]]
             S == InShard(this)
  <2>2. {i \in DOMAIN shardOf' : shardOf'[i] = this} = S \union {m} /\ S \in SUBSET (DOMAIN shardOf) /\ m \notin S
    BY <1>12 DEF InShard
  <2>3. IsFiniteSet(S)
    <3>1. IsFiniteSet(DOMAIN shardOf)
      BY <1>6, FS_Interval
    <3>2. QED
      BY <2>2, <3>1, FS_Subset
  <2>4. \A i \in S : v[i] \in Int /\ w[i] = v[i]
    BY <1>8, <1>9, <1>12, <2>2
  <2>5. Load(this) = Summation(v, S) /\ After(this) = Summation(w, S \union {m})
    BY <1>1, <2>2 DEF Load
  <2>6. w[m] = n /\ n \in Int
    BY <1>9, <1>12
  <2> HIDE DEF v, w, S
  <2>7. Summation(w, S) = Summation(v, S)
    BY <2>3, <2>4, SummationSame
  <2>8. \A i \in S \union {m} : w[i] \in Int
    BY <2>4, <2>6
  <2>9. Summation(w, S \union {m}) = Summation(w, S) + w[m]
    BY <2>2, <2>3, <2>8, SummationAdd
  <2>10. QED
    BY <2>5, <2>6, <2>7, <2>9
<1> HIDE DEF After
<1>15. \A s : s > shard /\ s \in Nat => Load(s) = 0
  <2>1. SUFFICES ASSUME NEW s \in Nat, s > shard PROVE Load(s) = 0
    OBVIOUS
  <2>2. InShard(s) = {}
    BY <1>6, <1>10, <2>1 DEF InShard
  <2>3. QED
    BY <2>2, SummationEmpty DEF Load
<1>16. After(this) = now
  <2>1. CASE Overflows(n)
    <3>1. this = shard + 1 /\ now = n /\ this > shard /\ this \in Nat
      BY <1>6, <1>11, <2>1
    <3>2. Load(this) = 0
      BY <1>15, <3>1
    <3>3. QED
      BY <1>9, <1>14, <3>1, <3>2
  <2>2. CASE ~Overflows(n)
    BY <1>10, <1>11, <1>14, <2>2
  <2>3. QED
    BY <2>1, <2>2
<1>17. After(this + 1) = 0
  <2>1. this + 1 \in Nat /\ this + 1 > shard /\ this + 1 # this
    BY <1>6, <1>11
  <2>2. QED
    BY <1>13, <1>15, <2>1
<1>18. /\ Full(now) <=> now >= ShardTokens
       /\ Full(now) => shard' = this + 1 /\ used' = 0
       /\ ~Full(now) => shard' = this /\ used' = now
       /\ shard' \in Nat /\ used' \in 0 .. ShardTokens - 1 /\ this <= shard'
  BY <1>1, <1>7, <1>11 DEF Full
<1>19. Sharded'
  <2>1. Len(shardOf') <= Len(out') /\ Len(shardOf') <= NDocs
    BY <1>1, <1>4, <1>7, <1>9, <1>12
  <2>2. stage' = "shard" => Len(shardOf') < NDocs
    <3>1. Len(shardOf') \in Nat
      BY <1>9, <1>12
    <3>2. stage' = "shard" => Len(shardOf') # NDocs
      BY <1>1
    <3>3. QED
      BY <1>7, <2>1, <3>1, <3>2
  <2>3. stage' \in {"write"} \union Planning => Len(shardOf') = NDocs
    BY <1>1, <1>2
  <2>4. QED
    BY <1>2, <1>12, <1>18, <2>1, <2>2, <2>3 DEF Sharded
<1>20. Filled'
  <2>1. After(shard') = used'
    <3>1. CASE Full(now)
      BY <1>17, <1>18, <3>1
    <3>2. CASE ~Full(now)
      BY <1>16, <1>18, <3>2
    <3>3. QED
      BY <3>1, <3>2
  <2>2. \A s \in Nat : After(s) <= ShardTokens
    <3>1. TAKE s \in Nat
    <3>2. CASE s = this
      BY <1>7, <1>11, <1>16, <3>2
    <3>3. CASE s # this
      BY <1>10, <1>13, <3>3
    <3>4. QED
      BY <3>2, <3>3
  <2>3. shardOf'[m] # shard' =>
          shardOf'[m] = shard' - 1 /\ used' = 0 /\ After(shard' - 1) >= ShardTokens
    <3>1. SUFFICES ASSUME this # shard'
                   PROVE  this = shard' - 1 /\ used' = 0 /\ After(this) >= ShardTokens
      BY <1>12
    <3>2. Full(now)
      BY <1>18, <3>1
    <3>3. QED
      BY <1>11, <1>16, <1>18, <3>2
  <2>4. QED
    BY <1>0, <1>12, <2>1, <2>2, <2>3
<1>21. Contiguous'
  <2>1. \A i \in 1 .. m : shardOf'[i] \in Nat /\ shardOf'[i] <= shard'
    <3>1. TAKE i \in 1 .. m
    <3>2. CASE i = m
      BY <1>11, <1>12, <1>18, <3>2
    <3>3. CASE i \in DOMAIN shardOf
      <4>1. shardOf'[i] = shardOf[i] /\ shardOf[i] <= shard /\ shardOf[i] \in Nat
        BY <1>10, <1>12, <3>3
      <4>2. shard <= this
        BY <1>6, <1>11
      <4>3. QED
        BY <1>6, <1>11, <1>18, <4>1, <4>2
    <3>4. QED
      BY <1>12, <3>2, <3>3
  <2>2. \A i \in DOMAIN shardOf : shardOf[i] <= this
    <3>1. shard <= this /\ shard \in Nat /\ this \in Nat
      BY <1>6, <1>11
    <3>2. QED
      BY <1>10, <3>1
  <2>3. \A i, j \in 1 .. m : i < j => shardOf'[i] <= shardOf'[j]
    <3>1. SUFFICES ASSUME NEW i \in 1 .. m, NEW j \in 1 .. m, i < j
                   PROVE  shardOf'[i] <= shardOf'[j]
      OBVIOUS
    <3>2. i \in DOMAIN shardOf /\ shardOf'[i] = shardOf[i]
      BY <1>9, <1>12, <3>1
    <3>3. CASE j = m
      BY <1>12, <2>2, <3>2, <3>3
    <3>4. CASE j \in DOMAIN shardOf
      BY <1>10, <1>12, <3>1, <3>2, <3>4
    <3>5. QED
      BY <1>12, <3>3, <3>4
  <2>4. ASSUME NEW i \in 1 .. m, i > 1
        PROVE  /\ shardOf'[i] \in {shardOf'[i - 1], shardOf'[i - 1] + 1}
               /\ shardOf'[i] > shardOf'[i - 1] =>
                    After(shardOf'[i - 1]) + length[out[i]] > ShardTokens
    <3>1. i - 1 \in DOMAIN shardOf /\ shardOf'[i - 1] = shardOf[i - 1] /\ shardOf[i - 1] \in Nat
      <4>1. i - 1 \in 1 .. Len(shardOf)
        BY <1>6, <1>9, <2>4
      <4>2. QED
        BY <1>6, <1>10, <1>12, <4>1
    <3> DEFINE s == shardOf[i - 1]
    <3>2. CASE i \in DOMAIN shardOf
      <4>1. shardOf'[i] = shardOf[i] /\ shardOf[i] \in Nat /\ shardOf[i] <= shard
        BY <1>10, <1>12, <3>2
      <4>2. /\ shardOf[i] \in {s, s + 1}
            /\ shardOf[i] > s => Load(s) + length[out[i]] > ShardTokens
        BY <1>10, <2>4, <3>2
      <4>3. shardOf[i] > s => s # this
        BY <1>6, <1>11, <3>1, <4>1
      <4>4. shardOf[i] > s => After(s) = Load(s)
        BY <1>13, <4>3
      <4>5. QED
        BY <3>1, <4>1, <4>2, <4>4
    <3>3. CASE i = m
      <4>1. s = shardOf[Len(shardOf)] /\ shardOf # <<>> /\ n = length[out[i]]
        BY <1>6, <1>9, <3>1, <3>3
      <4>2. shardOf'[i] = this
        BY <1>12, <3>3
      <4>3. CASE s = shard
        <5>1. this \in {s, s + 1}
          BY <1>11, <4>3
        <5>2. ASSUME this > s
              PROVE  After(s) + n > ShardTokens
          <6>1. Overflows(n) /\ s # this
            BY <1>6, <1>11, <4>3, <5>2
          <6>2. After(s) = Load(s) /\ Load(s) = used /\ used + n > ShardTokens
            BY <1>10, <1>11, <1>13, <4>3, <6>1
          <6>3. QED
            BY <6>2
        <5>3. QED
          BY <3>1, <4>1, <4>2, <5>1, <5>2
      <4>4. CASE s # shard
        <5>1. s = shard - 1 /\ used = 0 /\ Load(s) >= ShardTokens
          BY <1>10, <4>1, <4>4
        <5>2. this = shard /\ this = s + 1 /\ s # this
          BY <1>6, <1>11, <3>1, <5>1
        <5>3. After(s) = Load(s) /\ Load(s) <= ShardTokens
          BY <1>10, <1>13, <3>1, <5>2
        <5>5. Load(s) + n > ShardTokens
          <6>1. Load(s) \in Nat
            BY LoadIs DEF BuildInv
          <6>2. QED
            BY <1>7, <1>9, <5>1, <6>1
        <5>6. QED
          BY <3>1, <4>1, <4>2, <5>2, <5>3, <5>5
      <4>5. QED
        BY <4>3, <4>4
    <3>4. QED
      BY <1>12, <3>2, <3>3
  <2>5. QED
    BY <1>0, <1>1, <1>12, <2>1, <2>3, <2>4
<1>22. Filed'
  BY <1>1, <1>2 DEF BuildInv, Filed, Plan!NothingRead
<1>23. QED
  BY <1>3, <1>5, <1>19, <1>20, <1>21, <1>22 DEF BuildInv

-----------------------------------------------------------------------------
(* write_corpus, and plan_shards on what it wrote.                         *)

(* The file holds every document once, under its own id, and no document   *)
(* of another shard between two of the same.                               *)
LEMMA FileIs ==
  ASSUME BuildInv, stage \notin Unordered \union {"interleave", "shard"}
  PROVE  /\ CorpusRows \in Seq(PP!Row)
         /\ DOMAIN CorpusRows = 1 .. NDocs /\ Len(CorpusRows) = NDocs
         /\ DOMAIN shardOf = 1 .. NDocs
         /\ \A i \in 1 .. NDocs :
              /\ CorpusRows[i].id = out[i]
              /\ CorpusRows[i].shard = shardOf[i] /\ shardOf[i] \in Nat
              /\ CorpusRows[i].tokens = length[out[i]]
<1>1. /\ out \in Seq(Docs) /\ Len(out) = NDocs /\ NDocs \in Nat /\ Docs \in SUBSET Nat
      /\ shardOf \in Seq(Nat) /\ Len(shardOf) = NDocs
  <2>1. stage \in {"write"} \union Planning
    BY DEF BuildInv, Staged, Building, Unordered
  <2>2. QED
    BY <2>1, DocsAre DEF BuildInv, Written, Sharded
<1>2. DOMAIN out = 1 .. NDocs /\ DOMAIN shardOf = 1 .. NDocs
  BY <1>1
<1>3. \A d \in Docs : length[d] \in 1 .. MaxDocTokens
  BY DEF BuildInv, Fetched, Unordered
<1>4. MaxDocTokens \in Nat
  BY BuildAssumption DEF BuildAssumption
<1>5. ASSUME NEW i \in 1 .. NDocs
      PROVE  /\ out[i] \in Nat /\ shardOf[i] \in Nat
             /\ length[out[i]] \in Nat \ {0}
  <2>1. out[i] \in Docs /\ shardOf[i] \in Nat
    BY <1>1, <1>2
  <2>2. out[i] \in Nat
    BY <1>1, <2>1
  <2>3. length[out[i]] \in 1 .. MaxDocTokens
    BY <1>3, <2>1
  <2>4. QED
    BY <1>4, <2>1, <2>2, <2>3
<1>6. CorpusRows = [i \in 1 .. NDocs |->
                      [id |-> out[i], shard |-> shardOf[i], tokens |-> length[out[i]]]]
  BY <1>2 DEF CorpusRows
<1>7. \A i \in 1 .. NDocs : CorpusRows[i] \in PP!Row
  BY <1>5, <1>6 DEF PP!Row
<1>8. CorpusRows \in [1 .. NDocs -> PP!Row]
  BY <1>6, <1>7
<1>9. CorpusRows \in Seq(PP!Row) /\ Len(CorpusRows) = NDocs
  BY <1>1, <1>8
<1>10. QED
  BY <1>2, <1>5, <1>6, <1>9

LEMMA FileIsUsable ==
  ASSUME BuildInv, stage \in Planning
  PROVE  PP!Usable
<1>1. stage \notin Unordered \union {"interleave", "shard"}
  BY DEF Planning, Unordered
<1>2. /\ file = CorpusRows /\ file \in Seq(PP!Row) /\ DOMAIN file = 1 .. NDocs
      /\ Len(file) = NDocs
      /\ \A i \in 1 .. NDocs :
           file[i].id = out[i] /\ file[i].shard = shardOf[i] /\ shardOf[i] \in Nat
  BY <1>1, FileIs DEF BuildInv, Filed
<1>3. NDocs \in Nat \ {0} /\ Unset \notin Nat
  BY BuildAssumption DEF BuildAssumption
<1>4. file # <<>>
  BY <1>2, <1>3
<1>5. \A i \in DOMAIN file : file[i].shard # Unset
  BY <1>2, <1>3
<1>6. \A i, j \in DOMAIN file : file[i].id = file[j].id => i = j
  <2>1. \A i, j \in DOMAIN out : out[i] = out[j] => i = j
    BY DEF BuildInv, Written
  <2>2. DOMAIN out = 1 .. NDocs
    BY <1>1 DEF BuildInv, Written, Unordered
  <2>3. QED
    BY <1>2, <2>1, <2>2
<1>7. ASSUME NEW i \in DOMAIN file, NEW j \in DOMAIN file,
             i < j, file[i].shard = file[j].shard, NEW k \in i .. j
      PROVE  file[k].shard = file[i].shard
  <2>1. /\ i \in 1 .. NDocs /\ j \in 1 .. NDocs /\ k \in 1 .. NDocs
        /\ i <= k /\ k <= j
    BY <1>2, <1>3, <1>7
  <2>2. DOMAIN shardOf = 1 .. NDocs
    BY <1>1, FileIs
  <2>3. \A x, y \in 1 .. NDocs : x < y => shardOf[x] <= shardOf[y]
    BY <2>2 DEF BuildInv, Contiguous
  <2>4. shardOf[i] <= shardOf[k] /\ shardOf[k] <= shardOf[j]
    <3>1. i = k \/ i < k
      BY <2>1
    <3>2. k = j \/ k < j
      BY <2>1
    <3>3. QED
      BY <1>2, <2>1, <2>3, <3>1, <3>2
  <2>5. shardOf[i] = shardOf[j]
    BY <1>2, <1>7, <2>1
  <2>6. shardOf[k] = shardOf[i]
    BY <1>2, <2>1, <2>4, <2>5
  <2>7. QED
    BY <1>2, <2>1, <2>6
<1>8. QED
  BY <1>4, <1>5, <1>6, <1>7 DEF PP!Usable

LEMMA WriteStep ==
  ASSUME BuildInv, WriteCorpus
  PROVE  BuildInv'
<1>1. /\ stage = "write" /\ stage' = "plan" /\ file' = CorpusRows
      /\ UNCHANGED buildVars
      /\ UNCHANGED <<read, groups, order, offsets, running, plans>>
  BY DEF WriteCorpus
<1>2. /\ UNCHANGED <<stratum, length, split, queue, cursor, emitted, out, shardOf, shard, used>>
      /\ stage \notin Unordered \union {"interleave"} /\ stage' \notin Unordered \union {"interleave"}
      /\ stage \notin Unordered /\ stage' \notin Unordered
      /\ stage \in Building /\ stage' \in Planning /\ stage' \notin Building
      /\ stage \notin {"check", "invalid"} /\ stage' \notin {"check", "invalid"}
  BY <1>1 DEF buildVars, Unordered, Building, Planning
<1>3. Staged' /\ Fetched' /\ SplitsAllocated' /\ Queued' /\ Counted' /\ PrefixesAreRepresentative'
  BY <1>2, SplitsKept, QueuedKept, CountedKept, PrefixesKept DEF BuildInv, Staged, Fetched
<1>4. Written'
  BY <1>2, WrittenKept DEF BuildInv, Written
<1>5. Sharded' /\ Filled' /\ Contiguous'
  BY <1>1, <1>2 DEF BuildInv, Sharded, Filled, Contiguous, Load, InShard, Unordered, Planning
<1>6. Filed'
  <2>1. CorpusRows' = CorpusRows
    BY <1>2 DEF CorpusRows
  <2>2. Plan!NothingRead
    BY <1>2 DEF BuildInv, Filed
  <2>3. Plan!NothingRead'
    BY <1>1, <2>2 DEF Plan!NothingRead
  <2>4. QED
    BY <1>1, <1>2, <2>1, <2>3 DEF Filed
<1>7. QED
  BY <1>3, <1>4, <1>5, <1>6 DEF BuildInv

(* The two instances of ShardPlan, the module's and its proofs', are one.  *)
LEMMA PlanNext == Plan!Next => PP!Next
<1>1. \A rows : Plan!Tokens(rows) = PP!Tokens(rows)
  BY DEF Plan!Tokens, PP!Tokens, Plan!FoldLeft, PP!FoldLeft, Plan!MapThenFoldSet,
         PP!MapThenFoldSet, Plan!Max, PP!Max
<1>2. \A n : Plan!StrideFor(n) = PP!StrideFor(n)
  BY DEF Plan!StrideFor, PP!StrideFor
<1>3. \A s : Plan!PlanOf(s) = PP!PlanOf(s)
  BY <1>1, <1>2 DEF Plan!PlanOf, PP!PlanOf
<1>4. Plan!Document = PP!Document
  BY DEF Plan!Document, PP!Document
<1>5. /\ \A s : Plan!Opened(s) <=> PP!Opened(s)
      /\ \A row : Plan!IsDuplicate(row) <=> PP!IsDuplicate(row)
      /\ \A row : Plan!Reopens(row) <=> PP!Reopens(row)
      /\ \A row : Plan!OffsetOf(row) = PP!OffsetOf(row)
      /\ \A f, x, v : Plan!Extend(f, x, v) = PP!Extend(f, x, v)
  <2>1. \A s : Plan!Opened(s) <=> PP!Opened(s)
    BY DEF Plan!Opened, PP!Opened
  <2>2. \A row : Plan!IsDuplicate(row) <=> PP!IsDuplicate(row)
    BY DEF Plan!IsDuplicate, PP!IsDuplicate
  <2>3. \A row : Plan!Reopens(row) <=> PP!Reopens(row)
    BY DEF Plan!Reopens, PP!Reopens, Plan!Opened, PP!Opened, Plan!Last, PP!Last
  <2>4. \A row : Plan!OffsetOf(row) = PP!OffsetOf(row)
    BY DEF Plan!OffsetOf, PP!OffsetOf
  <2>5. \A f, x, v : Plan!Extend(f, x, v) = PP!Extend(f, x, v)
    BY DEF Plan!Extend, PP!Extend
  <2>6. QED
    BY <2>1, <2>2, <2>3, <2>4, <2>5
<1>6. \A reason : Plan!Refuse(reason) <=> PP!Refuse(reason)
  BY DEF Plan!Refuse, PP!Refuse
<1>7. /\ Plan!RefuseEmpty => PP!RefuseEmpty
      /\ Plan!RefuseUnsharded => PP!RefuseUnsharded
      /\ Plan!RefuseDuplicate => PP!RefuseDuplicate
      /\ Plan!RefuseReopened => PP!RefuseReopened
  BY <1>4, <1>5, <1>6
     DEF Plan!RefuseEmpty, PP!RefuseEmpty, Plan!RefuseUnsharded, PP!RefuseUnsharded,
         Plan!RefuseDuplicate, PP!RefuseDuplicate, Plan!RefuseReopened, PP!RefuseReopened
<1>8. Plan!TakeDocument => PP!TakeDocument
  BY <1>4, <1>5 DEF Plan!TakeDocument, PP!TakeDocument
<1>9. Plan!FinishPlan => PP!FinishPlan
  <2>1. /\ Plan!Cardinality(DOMAIN groups) = PP!Cardinality(DOMAIN groups)
        /\ Plan!Ascending(DOMAIN groups) = PP!Ascending(DOMAIN groups)
    BY DEF Plan!Ascending, PP!Ascending, Plan!Cardinality, PP!Cardinality, Plan!Below, PP!Below
  <2>2. QED
    BY <1>3, <2>1 DEF Plan!FinishPlan, PP!FinishPlan
<1>10. QED
  BY <1>7, <1>8, <1>9 DEF Plan!Next, PP!Next

LEMMA PlanStep ==
  ASSUME BuildInv, PlanShards
  PROVE  BuildInv'
<1>1. Plan!Next /\ UNCHANGED buildVars
  BY DEF PlanShards
<1>2. /\ stage = "plan" /\ file' = file
      /\ stage' \in {"plan", "planned"} \union PP!Refusals
  BY <1>1 DEF Plan!Next, Plan!RefuseEmpty, Plan!RefuseUnsharded, Plan!RefuseDuplicate,
       Plan!RefuseReopened, Plan!Refuse, Plan!TakeDocument, Plan!FinishPlan, PP!Refusals
<1>3. /\ stage \in Planning /\ stage \notin Building
      /\ stage \notin Unordered \union {"interleave", "shard"}
      /\ stage \notin PP!Refusals
  BY <1>2 DEF Planning, Building, Unordered, PP!Refusals
<1>4. PP!Usable
  BY <1>3, FileIsUsable
<1>5. file = CorpusRows /\ file \in Seq(PP!Row)
  BY <1>3, FileIs DEF BuildInv, Filed
<1>6. PP!PlanInv
  <2>1. CASE Plan!NothingRead
    <3>1. PP!NothingRead
      BY <2>1 DEF Plan!NothingRead, PP!NothingRead
    <3>2. QED
      BY <1>2, <1>3, <1>5, <3>1, PlanAssumed, PP!PlanInvInit
  <2>2. CASE PP!PlanInv
    BY <2>2
  <2>3. QED
    BY <1>3, <2>1, <2>2 DEF BuildInv, Filed
<1>7. PP!Next
  BY <1>1, PlanNext
<1>8. PP!PlanInv'
  BY <1>6, <1>7, PlanAssumed, PP!PlanInvNext
<1>9. PP!Usable'
  BY <1>2, <1>4 DEF PP!Usable
<1>10. stage' \in Planning
  BY <1>2, <1>8, <1>9 DEF PP!PlanInv, PP!RefusalsHaveReasons, Planning
<1>11. /\ UNCHANGED <<stratum, length, split, queue, cursor, emitted, out, shardOf, shard, used>>
       /\ stage \notin Unordered \union {"interleave"} /\ stage' \notin Unordered \union {"interleave"}
       /\ stage \notin Unordered /\ stage' \notin Unordered
       /\ stage' \notin Building
       /\ stage \notin {"check", "invalid"} /\ stage' \notin {"check", "invalid"}
       /\ stage \notin {"shard", "write"} /\ stage' \notin {"shard", "write"}
  BY <1>1, <1>3, <1>10 DEF buildVars, Unordered, Building, Planning
<1>12. Staged' /\ Fetched' /\ SplitsAllocated' /\ Queued' /\ Counted' /\ PrefixesAreRepresentative'
  BY <1>10, <1>11, SplitsKept, QueuedKept, CountedKept, PrefixesKept DEF BuildInv, Staged, Fetched
<1>13. Written'
  BY <1>11, WrittenKept DEF BuildInv, Written
<1>14. Sharded' /\ Filled' /\ Contiguous'
  BY <1>3, <1>10, <1>11
     DEF BuildInv, Sharded, Filled, Contiguous, Load, InShard, Unordered, Planning
<1>15. Filed'
  <2>1. CorpusRows' = CorpusRows
    BY <1>11 DEF CorpusRows
  <2>2. QED
    BY <1>2, <1>5, <1>8, <1>11, <2>1 DEF Filed
<1>16. QED
  BY <1>12, <1>13, <1>14, <1>15 DEF BuildInv

-----------------------------------------------------------------------------
(* The theorems.                                                           *)

LEMMA NextInv ==
  ASSUME BuildInv, [Next]_vars
  PROVE  BuildInv'
<1>1. CASE Next
  BY <1>1, RefuseStep, AssignSplitsStep, OrderStrataStep, EmitStep, AssignShardStep,
     WriteStep, PlanStep DEF Next
<1>2. CASE UNCHANGED vars
  BY <1>2, StutterStep
<1>3. QED
  BY <1>1, <1>2

(* What build() and write_corpus know at each step, up to the plans.       *)
THEOREM BuildInvariance == Spec => []BuildInv
<1>1. Init => BuildInv
  BY InitInv
<1>2. BuildInv /\ [Next]_vars => BuildInv'
  BY NextInv
<1>3. QED
  BY <1>1, <1>2, PTL DEF Spec

(* No stratum sends more documents or tokens than it has, no more is       *)
(* written than was fetched, and the shard being filled is not full.       *)
THEOREM BuildTyped == Spec => []TypeOK
<1>1. BuildInv => TypeOK
  <2>1. SUFFICES ASSUME BuildInv PROVE TypeOK
    OBVIOUS
  <2>2. stage \in {"check", "invalid", "split", "interleave", "shard", "write",
                   "plan", "planned"} \union Plan!Refusals
    BY <2>1 DEF BuildInv, Staged, Building, Unordered, Planning
  <2>3. split \in [Docs -> Splits \union {Unset}]
    BY <2>1 DEF BuildInv, SplitsAllocated
  <2>4. ASSUME NEW k \in Keys
        PROVE  cursor[k] \in 0 .. Len(queue[k]) /\ emitted[k] \in 0 .. Total(k)
    <3>1. /\ cursor[k] \in Nat /\ emitted[k] \in Nat /\ cursor[k] <= Len(queue[k])
          /\ emitted[k] = Summation(length, Sent(k))
      BY <2>1 DEF BuildInv, Counted
    <3>2. /\ Total(k) \in Nat
          /\ Members(k) # {} => Total(k) = Summation(length, Members(k))
      BY <2>1, TotalIs DEF BuildInv
    <3>3. CASE stage \in Unordered
      <4>1. Len(queue[k]) = 0
        BY <2>1, <3>3 DEF BuildInv, Queued
      <4>2. cursor[k] = 0
        BY <3>1, <4>1
      <4>3. emitted[k] = 0
        <5>1. Sent(k) = {}
          BY <4>2 DEF Sent
        <5>2. QED
          BY <3>1, <5>1, SummationEmpty
      <4>4. QED
        BY <3>2, <4>1, <4>2, <4>3
    <3>4. CASE stage \notin Unordered
      <4>1. /\ Len(queue[k]) \in Nat /\ cursor[k] \in 0 .. Len(queue[k])
            /\ Sent(k) \in SUBSET Members(k)
            /\ emitted[k] <= Summation(length, Members(k))
        BY <2>1, <3>4, SentIs
      <4>2. Members(k) = {} => emitted[k] = 0
        <5>1. Members(k) = {} => Sent(k) = {}
          BY <4>1
        <5>2. QED
          BY <3>1, <5>1, SummationEmpty
      <4>3. emitted[k] <= Total(k)
        BY <3>2, <4>1, <4>2
      <4>4. QED
        BY <3>1, <3>2, <4>1, <4>3
    <3>5. QED
      BY <3>3, <3>4
  <2>5. Len(out) <= NDocs
    <3>1. /\ out \in Seq(Docs) /\ Len(out) \in Nat /\ DOMAIN out = 1 .. Len(out)
          /\ \A i, j \in DOMAIN out : out[i] = out[j] => i = j
      BY <2>1 DEF BuildInv, Written
    <3>2. IsFiniteSet(Docs) /\ Cardinality(Docs) = NDocs
      BY DocsAre
    <3>3. out \in Injection(1 .. Len(out), Docs)
      <4>1. out \in [1 .. Len(out) -> Docs]
        BY <3>1
      <4>2. QED
        BY <3>1, <4>1 DEF Injection, IsInjective
    <3>4. Cardinality(1 .. Len(out)) <= Cardinality(Docs)
      BY <3>2, <3>3, FS_Injection
    <3>5. Cardinality(1 .. Len(out)) = Len(out)
      BY <3>1, FS_Interval
    <3>6. QED
      BY <3>2, <3>4, <3>5
  <2>6. Len(shardOf) <= Len(out) /\ used \in 0 .. ShardTokens - 1
    BY <2>1 DEF BuildInv, Sharded
  <2>7. QED
    BY <2>2, <2>3, <2>4, <2>5, <2>6 DEF TypeOK
<1>2. QED
  BY <1>1, BuildInvariance, PTL

(* Every stratum of three documents or more has one in each split, and no  *)
(* split has more than a document above its share, whatever the hashes.    *)
THEOREM SplitsCover == Spec => []SplitsCoverStrata
<1>1. BuildInv => SplitsCoverStrata
  <2>1. SUFFICES ASSUME BuildInv, stage \notin {"check", "invalid"},
                        NEW k \in Keys, NEW s \in Splits
                 PROVE  LET n  == Cardinality(Members(k))
                            in == Cardinality({d \in Members(k) : split[d] = s})
                        IN  /\ n >= 3 => in >= 1
                            /\ in > 1 => (in - 1) * 100 < n * Ratio[s]
    BY DEF SplitsCoverStrata
  <2>2. Cardinality(Members(k)) \in Nat
    BY MembersAre
  <2>3. Cardinality({d \in Members(k) : split[d] = s}) = Allocate(Cardinality(Members(k)))[s]
    BY <2>1 DEF BuildInv, SplitsAllocated
  <2>4. QED
    BY <2>2, <2>3, AllocateIs
<1>2. QED
  BY <1>1, BuildInvariance, PTL

(* However far the corpus is written, the strata have delivered the same   *)
(* fraction of their tokens up to one document.                            *)
THEOREM PrefixesRepresent == Spec => []PrefixesAreRepresentative
<1>1. BuildInv => PrefixesAreRepresentative
  BY DEF BuildInv
<1>2. QED
  BY <1>1, BuildInvariance, PTL

(* No shard is over its target, the shards come one after the other, and   *)
(* none is closed while the next document would have fitted.               *)
THEOREM ShardsGreedy == Spec => []ShardsAreGreedy
<1>1. BuildInv => ShardsAreGreedy
  <2>1. SUFFICES ASSUME BuildInv, NEW i \in DOMAIN shardOf
                 PROVE  /\ ShardLoad(shardOf[i]) <= ShardTokens
                        /\ i > 1 => shardOf[i] \in {shardOf[i - 1], shardOf[i - 1] + 1}
                        /\ i > 1 /\ shardOf[i] > shardOf[i - 1] =>
                             ShardLoad(shardOf[i - 1]) + length[out[i]] > ShardTokens
    BY DEF ShardsAreGreedy
  <2>2. \A s : ShardLoad(s) = Load(s)
    BY <2>1, LoadIs DEF BuildInv
  <2>3. shardOf[i] \in Nat
    BY <2>1 DEF BuildInv, Sharded
  <2>4. Load(shardOf[i]) <= ShardTokens
    BY <2>1, <2>3 DEF BuildInv, Filled
  <2>5. i > 1 =>
          /\ shardOf[i] \in {shardOf[i - 1], shardOf[i - 1] + 1}
          /\ shardOf[i] > shardOf[i - 1] => Load(shardOf[i - 1]) + length[out[i]] > ShardTokens
    BY <2>1 DEF BuildInv, Contiguous
  <2>6. QED
    BY <2>2, <2>4, <2>5
<1>2. QED
  BY <1>1, BuildInvariance, PTL

(* A shard's documents are a run of the file, and its tokens their sum.    *)
LEMMA GroupTokens ==
  ASSUME BuildInv, PP!PlanInv, stage = "planned", NEW s \in DOMAIN groups
  PROVE  /\ \E i \in DOMAIN shardOf : shardOf[i] = s
         /\ PP!Tokens(groups[s]) = ShardLoad(s)
<1>1. /\ stage \in Planning /\ stage \notin Unordered \union {"interleave", "shard"}
  BY DEF Planning, Unordered
<1>2. /\ file = CorpusRows /\ file \in Seq(PP!Row) /\ Len(file) = NDocs
      /\ DOMAIN shardOf = 1 .. NDocs
      /\ \A i \in 1 .. NDocs :
           file[i].shard = shardOf[i] /\ file[i].tokens = length[out[i]]
  BY <1>1, FileIs DEF BuildInv, Filed
<1>3. NDocs \in Nat /\ read = NDocs
  BY <1>2, DocsAre DEF PP!PlanInv, PP!PlansAreGroups
<1>4. PICK a, b \in 1 .. read : PP!RunOf(s, a, b)
  BY DEF PP!PlanInv, PP!GroupsAreRuns
<1>5. /\ a \in 1 .. NDocs /\ b \in 1 .. NDocs /\ a <= b
      /\ \A i \in 1 .. NDocs : shardOf[i] = s <=> i \in a .. b
      /\ groups[s] = SubSeq(file, a, b)
  BY <1>2, <1>3, <1>4 DEF PP!RunOf
<1> DEFINE w == [i \in DOMAIN shardOf |-> length[out[i]]]
           n == b - a + 1
           v == PP!Counts(groups[s])
           g == [i \in 1 .. n |-> a + i - 1]
<1>6. InShard(s) = a .. b
  <2>1. \A i \in a .. b : i \in 1 .. NDocs
    BY <1>3, <1>5
  <2>2. QED
    BY <1>2, <1>5, <2>1 DEF InShard
<1>7. /\ groups[s] \in Seq(PP!Row) /\ Len(groups[s]) = n
      /\ \A i \in 1 .. n : groups[s][i] = file[a + i - 1]
  BY <1>2, <1>3, <1>5, SubSeqProperties
<1>8. \A i \in 1 .. n : a + i - 1 \in 1 .. NDocs /\ a + i - 1 \in a .. b
  BY <1>3, <1>5
<1>9. \A i \in 1 .. n : v[i] = length[out[a + i - 1]]
  <2>1. TAKE i \in 1 .. n
  <2>2. i \in DOMAIN groups[s]
    BY <1>5, <1>7
  <2>3. v[i] = groups[s][i].tokens
    BY <2>2 DEF PP!Counts
  <2>4. QED
    BY <1>2, <1>7, <1>8, <2>3
<1>10. Fetched /\ \A x \in a .. b : w[x] \in Int /\ w[x] = length[out[x]]
  <2>1. out \in Seq(Docs) /\ Len(out) = NDocs
    BY <1>1 DEF BuildInv, Written, Unordered
  <2>2. \A x \in a .. b : x \in 1 .. NDocs
    BY <1>3, <1>5
  <2>3. \A x \in a .. b : out[x] \in Docs /\ x \in DOMAIN shardOf
    BY <1>2, <2>1, <2>2
  <2>4. QED
    BY <2>3 DEF BuildInv, Fetched
<1>11. /\ g \in [1 .. n -> a .. b]
       /\ \A x \in a .. b : \E y \in 1 .. n : g[y] = x
       /\ \A y, z \in 1 .. n : g[y] = g[z] => y = z
       /\ \A y \in 1 .. n : v[y] = w[g[y]]
  <2>1. \A x \in a .. b : x - a + 1 \in 1 .. n /\ g[x - a + 1] = x
    BY <1>5
  <2>2. \A y, z \in 1 .. n : g[y] = g[z] => y = z
    BY <1>5
  <2>3. \A y \in 1 .. n : v[y] = w[g[y]]
    <3>1. \A y \in 1 .. n : g[y] = a + y - 1
      OBVIOUS
    <3> HIDE DEF g, v, w
    <3>2. QED
      BY <1>8, <1>9, <1>10, <3>1
  <2>4. QED
    BY <1>8, <2>1, <2>2, <2>3
<1>12. IsFiniteSet(a .. b)
  BY <1>5, FS_Interval
<1>13. Load(s) = Summation(w, a .. b)
  BY <1>6 DEF Load
<1>14. PP!Tokens(groups[s]) = Summation(v, 1 .. n)
  <2>1. PP!Tokens(groups[s]) = PP!Summation(v, 1 .. Len(groups[s]))
    BY <1>7, PlanAssumed, PP!TokensIsSummation
  <2>2. PP!Summation(v, 1 .. n) = Summation(v, 1 .. n)
    BY DEF PP!Summation, Summation, PP!IsSum, IsSum
  <2>3. QED
    BY <1>7, <2>1, <2>2
<1>15. ShardLoad(s) = Load(s)
  BY LoadIs DEF BuildInv
<1>16. shardOf[a] = s /\ a \in DOMAIN shardOf
  BY <1>2, <1>5
<1>17. Summation(v, 1 .. n) = Summation(w, a .. b)
  <2>1. \A x \in a .. b : w[x] \in Int
    BY <1>10
  <2>2. ASSUME NEW S, S = a .. b, NEW R, R = 1 .. n, NEW h, h = g, NEW u, u = v, NEW t, t = w
        PROVE  Summation(u, R) = Summation(t, S)
    <3>1. /\ IsFiniteSet(S) /\ \A x \in S : t[x] \in Int
          /\ h \in [R -> S]
          /\ \A x \in S : \E y \in R : h[y] = x
          /\ \A y, z \in R : h[y] = h[z] => y = z
          /\ \A y \in R : u[y] = t[h[y]]
      <4> HIDE DEF g, v, w, n
      <4>1. QED
        BY <1>11, <1>12, <2>1, <2>2
    <3>2. QED
      BY <3>1, SummationReindex
  <2> HIDE DEF g, v, w, n
  <2>3. QED
    BY <2>2
<1>18. QED
  BY <1>13, <1>14, <1>15, <1>16, <1>17

(* plan_shards never refuses what build() wrote, and plans the shards      *)
(* build() sized.                                                          *)
THEOREM BuiltPlanned == Spec => []BuiltCorpusIsPlanned
<1>1. BuildInv => BuiltCorpusIsPlanned
  <2>1. SUFFICES ASSUME BuildInv PROVE BuiltCorpusIsPlanned
    OBVIOUS
  <2>2. stage \notin Plan!Refusals
    BY <2>1 DEF BuildInv, Staged, Building, Unordered, Planning, Plan!Refusals
  <2>3. ASSUME stage = "planned"
        PROVE  /\ {plans[k].shard : k \in DOMAIN plans} = ToSet(shardOf)
               /\ \A k \in DOMAIN plans : plans[k].tokens = ShardLoad(plans[k].shard)
    <3>1. stage \in Planning /\ stage \notin Unordered \union {"interleave", "shard"}
      BY <2>3 DEF Planning, Unordered
    <3>2. PP!PlanInv
      BY <2>1, <2>3, <3>1 DEF BuildInv, Filed
    <3>3. /\ \A k \in DOMAIN plans : \E s \in DOMAIN groups : plans[k] = PP!PlanOf(s)
          /\ \A s \in DOMAIN groups : \E k \in DOMAIN plans : plans[k].shard = s
          /\ read = Len(file)
      BY <2>3, <3>2 DEF PP!PlanInv, PP!PlansAreGroups
    <3>4. \A s : PP!PlanOf(s).shard = s /\ PP!PlanOf(s).tokens = PP!Tokens(groups[s])
      BY DEF PP!PlanOf
    <3>5. \A s \in DOMAIN groups :
            /\ \E i \in DOMAIN shardOf : shardOf[i] = s
            /\ PP!Tokens(groups[s]) = ShardLoad(s)
      BY <2>1, <2>3, <3>2, GroupTokens
    <3>6. \A i \in DOMAIN shardOf : shardOf[i] \in DOMAIN groups
      <4>1. /\ file = CorpusRows /\ Len(file) = NDocs /\ DOMAIN shardOf = 1 .. NDocs
            /\ \A i \in 1 .. NDocs : file[i].shard = shardOf[i]
        BY <2>1, <3>1, FileIs DEF BuildInv, Filed
      <4>2. \A i \in 1 .. read : file[i].shard \in DOMAIN groups
        BY <3>2 DEF PP!PlanInv, PP!GroupsAreRuns
      <4>3. QED
        BY <3>3, <4>1, <4>2
    <3>7. \A k \in DOMAIN plans :
            plans[k].shard \in DOMAIN groups /\ plans[k].tokens = ShardLoad(plans[k].shard)
      BY <3>3, <3>4, <3>5
    <3>8. QED
      BY <3>3, <3>5, <3>6, <3>7 DEF ToSet
  <2>4. QED
    BY <2>2, <2>3 DEF BuiltCorpusIsPlanned
<1>2. QED
  BY <1>1, BuildInvariance, PTL

(* The allocation is fair whatever the number of documents.                *)
THEOREM AllocationsFair == Spec => []AllocationsAreFair
<1>1. AllocationsAreFair
  <2>1. \A n \in 0 .. MaxStratum : n \in Nat
    OBVIOUS
  <2>2. QED
    BY <2>1, AllocateIs, Zenon DEF AllocationsAreFair
<1>2. QED
  BY <1>1, PTL
=============================================================================
