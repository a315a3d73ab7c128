----------------------------- MODULE SetLemmas ------------------------------
(***************************************************************************)
(* Induction, sums, sorting and division, for the proofs about the         *)
(* components.                                                             *)
(*                                                                         *)
(* The library's induction theorems are about a predicate P(_).  Here they *)
(* are restated of sets (the set of the numbers, or of the subsets, that   *)
(* satisfy the predicate), which is all the provers need, and with them    *)
(* the folds of the community modules that add are shown to be sums.       *)
(***************************************************************************)
EXTENDS Sorting, SequencesExt, FiniteSetTheorems, SequenceTheorems, TLAPS

(* Every set of natural numbers that is not empty has a least element.     *)
LEMMA LeastNatural ==
  ASSUME NEW T \in SUBSET Nat, T # {}
  PROVE  \E m \in T : \A n \in T : m <= n
<1>1. IsWellFoundedOn(OpToRel(<, Nat), Nat)
  BY NatLessThanWellFounded
<1>2. PICK m \in T : \A n \in T : ~ (<<n, m>> \in OpToRel(<, Nat))
  BY <1>1, WFMin, Zenon
<1>3. \A n \in T : ~ (n < m)
  BY <1>2 DEF OpToRel
<1>4. QED
  BY <1>3

(* Induction over the natural numbers, of the set that satisfies it.       *)
LEMMA NaturalInduction ==
  ASSUME NEW T \in SUBSET Nat, 0 \in T, \A n \in T : n + 1 \in T
  PROVE  T = Nat
<1>1. SUFFICES ASSUME T # Nat PROVE FALSE
  OBVIOUS
<1>2. PICK m \in Nat \ T : \A n \in Nat \ T : m <= n
  BY <1>1, LeastNatural
<1>3. m - 1 \in Nat /\ m - 1 \in T
  BY <1>2
<1>4. QED
  BY <1>3

LEMMA MaxOfBounded ==
  ASSUME NEW n \in Nat, NEW s \in SUBSET (1 .. n), s # {}
  PROVE  Max(s) \in s /\ \A x \in s : x <= Max(s)
<1> DEFINE T == {k \in Nat : n - k \in s}
<1>1. T # {}
  <2>1. PICK x \in s : TRUE
    OBVIOUS
  <2>2. n - x \in Nat /\ n - (n - x) = x
    OBVIOUS
  <2>3. QED
    BY <2>2
<1>2. PICK k \in T : \A j \in T : k <= j
  <2> HIDE DEF T
  <2>1. T \in SUBSET Nat
    BY DEF T
  <2>2. QED
    BY <1>1, <2>1, LeastNatural
<1>3. ASSUME NEW x \in s
      PROVE  n - k >= x
  <2>1. n - x \in Nat /\ n - (n - x) = x
    OBVIOUS
  <2>2. n - x \in T
    BY <2>1
  <2>3. QED
    BY <1>2, <2>2
<1>4. \E m \in s : \A x \in s : m >= x
  BY <1>2, <1>3
<1>5. Max(s) \in s /\ \A x \in s : Max(s) >= x
  BY <1>4 DEF Max
<1>6. QED
  BY <1>5

(* Induction over the subsets of a finite set.                             *)
LEMMA FiniteSetInduction ==
  ASSUME NEW S, IsFiniteSet(S), NEW Q \in SUBSET SUBSET S, {} \in Q,
         \A s \in Q : \A x \in S \ s : s \union {x} \in Q
  PROVE  Q = SUBSET S
<1> DEFINE T == {n \in Nat : \A s \in SUBSET S : Cardinality(s) = n => s \in Q}
<1>1. \A s \in SUBSET S : IsFiniteSet(s) /\ Cardinality(s) \in Nat
  BY FS_Subset, FS_CardinalityType
<1>2. 0 \in T
  BY <1>1, FS_EmptySet
<1>3. ASSUME NEW n \in T
      PROVE  n + 1 \in T
  <2>1. SUFFICES ASSUME NEW s \in SUBSET S, Cardinality(s) = n + 1
                 PROVE  s \in Q
    OBVIOUS
  <2>2. PICK x \in s : TRUE
    BY <1>1, <2>1, FS_EmptySet
  <2>3. Cardinality(s \ {x}) = n
    BY <1>1, <2>1, FS_RemoveElement
  <2>4. s \ {x} \in Q
    BY <2>3
  <2>5. (s \ {x}) \union {x} = s
    OBVIOUS
  <2>6. QED
    BY <2>4, <2>5
<1>4. T = Nat
  <2> HIDE DEF T
  <2>1. T \in SUBSET Nat
    BY DEF T
  <2>2. QED
    BY <1>2, <1>3, <2>1, NaturalInduction
<1>5. \A s \in SUBSET S : s \in Q
  BY <1>1, <1>4
<1>6. QED
  BY <1>5

(* The same where every subset follows from those of one element less.     *)
LEMMA RemovalInduction ==
  ASSUME NEW S, IsFiniteSet(S), NEW Q \in SUBSET SUBSET S,
         \A s \in SUBSET S : (\A x \in s : s \ {x} \in Q) => s \in Q
  PROVE  Q = SUBSET S
<1> DEFINE T == {n \in Nat : \A s \in SUBSET S : Cardinality(s) = n => s \in Q}
<1>1. \A s \in SUBSET S : IsFiniteSet(s) /\ Cardinality(s) \in Nat
  BY FS_Subset, FS_CardinalityType
<1>2. 0 \in T
  <2>1. {} \in Q
    OBVIOUS
  <2>2. QED
    BY <1>1, <2>1, FS_EmptySet
<1>3. ASSUME NEW n \in T
      PROVE  n + 1 \in T
  <2>1. SUFFICES ASSUME NEW s \in SUBSET S, Cardinality(s) = n + 1
                 PROVE  s \in Q
    OBVIOUS
  <2>2. ASSUME NEW x \in s
        PROVE  s \ {x} \in Q
    <3>1. Cardinality(s \ {x}) = n
      <4>1. n \in Nat /\ IsFiniteSet(s)
        BY <1>1
      <4>2. QED
        BY <2>1, <4>1, FS_RemoveElement
    <3>2. QED
      BY <3>1
  <2>3. QED
    BY <2>2
<1>4. T = Nat
  <2> HIDE DEF T
  <2>1. T \in SUBSET Nat
    BY DEF T
  <2>2. QED
    BY <1>2, <1>3, <2>1, NaturalInduction
<1>5. \A s \in SUBSET S : s \in Q
  BY <1>1, <1>4
<1>6. QED
  BY <1>5

-----------------------------------------------------------------------------
(* f[s] is the sum of the w[x] over x \in s, for the subsets s of S.       *)
IsSum(f, w, S) ==
  /\ f \in [SUBSET S -> Int]
  /\ f[{}] = 0
  /\ \A s \in SUBSET S : \A x \in s : f[s] = f[s \ {x}] + w[x]

(* Sums are unique: the order of the summands is of no account.            *)
LEMMA SumUnique ==
  ASSUME NEW S, IsFiniteSet(S), NEW f, NEW w, IsSum(f, w, S), NEW g, NEW v, IsSum(g, v, S),
         \A x \in S : v[x] = w[x]
  PROVE  f = g
<1> DEFINE Q == {s \in SUBSET S : f[s] = g[s]}
<1>1. {} \in Q
  BY DEF IsSum
<1>2. ASSUME NEW s \in Q, NEW x \in S \ s
      PROVE  s \union {x} \in Q
  <2>1. (s \union {x}) \ {x} = s /\ s \union {x} \in SUBSET S /\ x \in s \union {x}
    OBVIOUS
  <2>2. f[s \union {x}] = f[s] + w[x] /\ g[s \union {x}] = g[s] + v[x]
    BY <2>1, SMTT(20) DEF IsSum
  <2>3. QED
    BY <2>1, <2>2
<1>3. Q = SUBSET S
  <2> HIDE DEF Q
  <2>1. Q \in SUBSET SUBSET S
    BY DEF Q
  <2>2. QED
    BY <1>1, <1>2, <2>1, FiniteSetInduction
<1>4. \A s \in SUBSET S : f[s] = g[s]
  BY <1>3
<1>5. QED
  BY <1>4 DEF IsSum

(* A fold adds one element at a time, c[s] first when s is left, and the   *)
(* community modules write it either way round: such a function exists,    *)
Folds(f, w, c, S) ==
  /\ f[{}] = 0
  /\ \A s \in SUBSET S : s # {} => \/ f[s] = f[s \ {c[s]}] + w[c[s]]
                                   \/ f[s] = w[c[s]] + f[s \ {c[s]}]

Chooses(c, S) == \A s \in SUBSET S : s # {} => c[s] \in s

LEMMA FoldExists ==
  ASSUME NEW S, IsFiniteSet(S), NEW w \in [S -> Int], NEW c, Chooses(c, S)
  PROVE  \E f \in [SUBSET S -> Int] : Folds(f, w, c, S)
<1> DEFINE Step(f, s) == IF s = {} THEN 0 ELSE f[s \ {c[s]}] + w[c[s]]
           T == {n \in Nat : \E f \in [SUBSET S -> Int] : \A s \in SUBSET S :
                   Cardinality(s) <= n => f[s] = Step(f, s)}
<1>1. \A s \in SUBSET S : IsFiniteSet(s) /\ Cardinality(s) \in Nat
  BY FS_Subset, FS_CardinalityType
<1>2. 0 \in T
  <2> DEFINE f == [s \in SUBSET S |-> 0]
  <2>1. f \in [SUBSET S -> Int]
    OBVIOUS
  <2>2. \A s \in SUBSET S : Cardinality(s) <= 0 => s = {}
    BY <1>1, FS_EmptySet
  <2>3. \A s \in SUBSET S : Cardinality(s) <= 0 => f[s] = Step(f, s)
    BY <2>2
  <2>4. QED
    BY <2>1, <2>3
<1>3. ASSUME NEW n \in T
      PROVE  n + 1 \in T
  <2>1. PICK f \in [SUBSET S -> Int] : \A s \in SUBSET S :
               Cardinality(s) <= n => f[s] = Step(f, s)
    OBVIOUS
  <2> DEFINE g == [s \in SUBSET S |-> Step(f, s)]
  <2>2. g \in [SUBSET S -> Int]
    BY DEF Chooses
  <2>3. ASSUME NEW s \in SUBSET S, Cardinality(s) <= n + 1
        PROVE  g[s] = Step(g, s)
    <3>1. CASE s = {}
      BY <3>1
    <3>2. CASE s # {}
      <4>1. c[s] \in s /\ s \ {c[s]} \in SUBSET S
        BY <3>2 DEF Chooses
      <4>2. Cardinality(s \ {c[s]}) <= n
        BY <1>1, <2>3, <4>1, FS_RemoveElement
      <4>3. g[s \ {c[s]}] = f[s \ {c[s]}]
        BY <2>1, <4>1, <4>2
      <4>4. QED
        BY <3>2, <4>1, <4>3
    <3>3. QED
      BY <3>1, <3>2
  <2>4. n + 1 \in Nat
    OBVIOUS
  <2> HIDE DEF g
  <2>5. QED
    BY <2>2, <2>3, <2>4
<1>4. T = Nat
  <2> HIDE DEF T
  <2>1. T \in SUBSET Nat
    BY DEF T
  <2>2. QED
    BY <1>2, <1>3, <2>1, NaturalInduction
<1>5. PICK f \in [SUBSET S -> Int] : \A s \in SUBSET S :
             Cardinality(s) <= Cardinality(S) => f[s] = Step(f, s)
  <2>1. Cardinality(S) \in T
    BY <1>1, <1>4
  <2>2. QED
    BY <2>1
<1>6. \A s \in SUBSET S : Cardinality(s) <= Cardinality(S)
  BY FS_Subset
<1>7. \A s \in SUBSET S : f[s] = Step(f, s)
  BY <1>5, <1>6
<1>8. QED
  BY <1>7 DEF Folds

(* and it is a sum whichever element it takes first.                       *)
LEMMA FoldIsSum ==
  ASSUME NEW S, IsFiniteSet(S), NEW w \in [S -> Int], NEW c, Chooses(c, S),
         NEW f, f = [s \in SUBSET S |-> f[s]], Folds(f, w, c, S)
  PROVE  IsSum(f, w, S)
<1>1. f \in [SUBSET S -> Int]
  <2> DEFINE Q == {s \in SUBSET S : f[s] \in Int}
  <2>1. ASSUME NEW s \in SUBSET S, \A x \in s : s \ {x} \in Q
        PROVE  s \in Q
    <3>1. CASE s = {}
      BY <3>1 DEF Folds
    <3>2. CASE s # {}
      <4>1. c[s] \in s /\ f[s] \in {f[s \ {c[s]}] + w[c[s]], w[c[s]] + f[s \ {c[s]}]}
        BY <3>2 DEF Folds, Chooses
      <4>2. f[s \ {c[s]}] \in Int /\ w[c[s]] \in Int
        BY <2>1, <4>1
      <4>3. QED
        BY <4>1, <4>2
    <3>3. QED
      BY <3>1, <3>2
  <2>2. Q = SUBSET S
    <3> HIDE DEF Q
    <3>1. Q \in SUBSET SUBSET S
      BY DEF Q
    <3>2. QED
      BY <2>1, <3>1, RemovalInduction
  <2>3. \A s \in SUBSET S : f[s] \in Int
    BY <2>2
  <2>4. QED
    BY <2>3
<1>2. \A s \in SUBSET S : \A x \in s : f[s] = f[s \ {x}] + w[x]
  <2> DEFINE Q == {s \in SUBSET S : \A x \in s : f[s] = f[s \ {x}] + w[x]}
  <2>1. ASSUME NEW s \in SUBSET S, \A x \in s : s \ {x} \in Q
        PROVE  s \in Q
    <3>1. SUFFICES ASSUME NEW x \in s
                   PROVE  f[s] = f[s \ {x}] + w[x]
      OBVIOUS
    <3>2. PICK y \in s : f[s] = f[s \ {y}] + w[y]
      <4>1. c[s] \in s
        BY DEF Chooses
      <4>2. f[s \ {c[s]}] \in Int /\ w[c[s]] \in Int
        BY <1>1, <4>1
      <4>3. \/ f[s] = f[s \ {c[s]}] + w[c[s]]
            \/ f[s] = w[c[s]] + f[s \ {c[s]}]
        BY <4>1, Zenon DEF Folds
      <4>4. f[s] = f[s \ {c[s]}] + w[c[s]]
        BY <4>2, <4>3
      <4>5. QED
        BY <4>1, <4>4
    <3>3. CASE x # y
      <4> DEFINE rest == (s \ {y}) \ {x}
      <4>1. f[s \ {y}] = f[rest] + w[x]
        BY <2>1, <3>3
      <4>2. (s \ {x}) \ {y} = rest /\ rest \in SUBSET S
        OBVIOUS
      <4>3. f[s \ {x}] = f[rest] + w[y]
        BY <2>1, <3>3, <4>2
      <4>4. f[rest] \in Int /\ w[x] \in Int /\ w[y] \in Int
        BY <1>1, <4>2
      <4> HIDE DEF rest
      <4>5. QED
        BY <3>2, <4>1, <4>3, <4>4
    <3>4. QED
      BY <3>2, <3>3
  <2>2. Q = SUBSET S
    <3> HIDE DEF Q
    <3>1. Q \in SUBSET SUBSET S
      BY DEF Q
    <3>2. QED
      BY <2>1, <3>1, RemovalInduction
  <2>3. QED
    BY <2>2
<1>3. QED
  BY <1>1, <1>2 DEF IsSum, Folds

-----------------------------------------------------------------------------
(* The sum of the w[x] over x \in S.                                       *)
Summation(w, S) == (CHOOSE f : IsSum(f, w, S))[S]

LEMMA SummationIs ==
  ASSUME NEW S, IsFiniteSet(S), NEW w, NEW f, NEW v, IsSum(f, v, S),
         \A x \in S : v[x] = w[x]
  PROVE  Summation(w, S) = f[S]
<1>1. IsSum(f, w, S)
  BY DEF IsSum
<1>2. IsSum(CHOOSE g : IsSum(g, w, S), w, S)
  BY <1>1
<1>3. QED
  BY <1>1, <1>2, SumUnique DEF Summation

(* How the folds of the community modules choose the next element.         *)
Some(s) == CHOOSE x \in s : TRUE

LEMMA SummationExists ==
  ASSUME NEW S, IsFiniteSet(S), NEW w, \A x \in S : w[x] \in Int
  PROVE  \E f : IsSum(f, w, S) /\ Summation(w, S) = f[S]
<1> DEFINE v == [x \in S |-> w[x]]
           c == [s \in SUBSET S |-> Some(s)]
<1>1. Chooses(c, S)
  BY DEF Some, Chooses
<1>2. v \in [S -> Int]
  OBVIOUS
<1>3. PICK f \in [SUBSET S -> Int] : Folds(f, v, c, S)
  <2> HIDE DEF c, v
  <2>1. QED
    BY <1>1, <1>2, FoldExists
<1>4. IsSum(f, v, S)
  <2>1. f = [s \in SUBSET S |-> f[s]]
    OBVIOUS
  <2> HIDE DEF c, v
  <2>2. QED
    BY <1>1, <1>2, <1>3, <2>1, FoldIsSum
<1>5. IsSum(f, w, S)
  BY <1>4 DEF IsSum
<1>6. QED
  BY <1>5, SummationIs

(* The sum over the empty set, and over a set with the element x: these    *)
(* two facts are all that is needed of sums.                               *)
LEMMA SummationEmpty ==
  ASSUME NEW w
  PROVE  Summation(w, {}) = 0
<1>1. PICK f : IsSum(f, w, {}) /\ Summation(w, {}) = f[{}]
  BY FS_EmptySet, SummationExists
<1>2. QED
  BY <1>1 DEF IsSum

LEMMA SummationStep ==
  ASSUME NEW S, IsFiniteSet(S), NEW w, \A y \in S : w[y] \in Int, NEW x \in S
  PROVE  /\ Summation(w, S) = Summation(w, S \ {x}) + w[x]
         /\ Summation(w, S) \in Int
         /\ Summation(w, S \ {x}) \in Int
<1>1. PICK f : IsSum(f, w, S) /\ Summation(w, S) = f[S]
  BY SummationExists
<1> DEFINE R == S \ {x}
<1>2. IsFiniteSet(R) /\ R \in SUBSET S
  BY FS_Subset
<1> DEFINE g == [s \in SUBSET R |-> f[s]]
<1>3. IsSum(g, w, R)
  <2>1. g \in [SUBSET R -> Int]
    BY <1>1, <1>2 DEF IsSum
  <2>2. g[{}] = 0
    BY <1>1 DEF IsSum
  <2>3. ASSUME NEW s \in SUBSET R, NEW y \in s
        PROVE  g[s] = g[s \ {y}] + w[y]
    BY <1>1, <1>2 DEF IsSum
  <2>4. QED
    BY <2>1, <2>2, <2>3 DEF IsSum
<1>4. Summation(w, R) = f[R]
  <2>1. g[R] = f[R]
    BY <1>2
  <2> HIDE DEF g, R
  <2>2. QED
    BY <1>2, <1>3, <2>1, SummationIs
<1>5. f[S] = f[R] + w[x] /\ f[S] \in Int /\ f[R] \in Int
  BY <1>1, <1>2 DEF IsSum
<1>6. QED
  BY <1>1, <1>4, <1>5

LEMMA SummationAdd ==
  ASSUME NEW S, IsFiniteSet(S), NEW x, x \notin S, NEW w, \A y \in S \union {x} : w[y] \in Int
  PROVE  Summation(w, S \union {x}) = Summation(w, S) + w[x]
<1>1. IsFiniteSet(S \union {x}) /\ x \in S \union {x} /\ (S \union {x}) \ {x} = S
  BY FS_AddElement
<1>2. QED
  BY <1>1, SummationStep

LEMMA SummationType ==
  ASSUME NEW S, IsFiniteSet(S), NEW w, \A x \in S : w[x] \in Int
  PROVE  Summation(w, S) \in Int
<1>1. PICK f : IsSum(f, w, S) /\ Summation(w, S) = f[S]
  BY SummationExists
<1>2. QED
  BY <1>1 DEF IsSum

LEMMA SummationSame ==
  ASSUME NEW S, IsFiniteSet(S), NEW w, NEW v, \A x \in S : w[x] \in Int /\ v[x] = w[x]
  PROVE  Summation(v, S) = Summation(w, S)
<1>1. PICK f : IsSum(f, w, S) /\ Summation(w, S) = f[S]
  BY SummationExists
<1>2. QED
  BY <1>1, SummationIs

LEMMA SummationPrefix ==
  ASSUME NEW n \in Nat, NEW w, \A i \in 1 .. n + 1 : w[i] \in Int
  PROVE  /\ IsFiniteSet(1 .. n)
         /\ Summation(w, 1 .. n + 1) = Summation(w, 1 .. n) + w[n + 1]
<1>1. IsFiniteSet(1 .. n) /\ IsFiniteSet(1 .. n + 1)
  BY FS_Interval
<1>2. (1 .. n + 1) \ {n + 1} = 1 .. n /\ n + 1 \in 1 .. n + 1
  OBVIOUS
<1>3. QED
  BY <1>1, <1>2, SummationStep

(* The elements may be counted one by one, under other names.              *)
LEMMA SummationReindex ==
  ASSUME NEW S, IsFiniteSet(S), NEW w, \A x \in S : w[x] \in Int,
         NEW R, NEW g \in [R -> S], \A x \in S : \E y \in R : g[y] = x,
         \A y, z \in R : g[y] = g[z] => y = z,
         NEW v, \A y \in R : v[y] = w[g[y]]
  PROVE  Summation(v, R) = Summation(w, S)
<1> DEFINE Pre(s) == {y \in R : g[y] \in s}
           Q == {s \in SUBSET S : IsFiniteSet(Pre(s)) /\ Summation(v, Pre(s)) = Summation(w, s)}
<1>1. ASSUME NEW s \in SUBSET S, \A x \in s : s \ {x} \in Q
      PROVE  s \in Q
  <2>1. CASE s = {}
    <3>1. Pre(s) = {}
      BY <2>1
    <3>2. QED
      BY <2>1, <3>1, SummationEmpty, FS_EmptySet
  <2>2. CASE s # {}
    <3>1. PICK x \in s : TRUE
      BY <2>2
    <3>2. PICK y \in R : g[y] = x
      BY <3>1
    <3> DEFINE P == Pre(s \ {x})
               U == Pre(s)
    <3>3. IsFiniteSet(P) /\ Summation(v, P) = Summation(w, s \ {x})
      BY <1>1, <3>1
    <3>4. U = P \union {y} /\ y \in U /\ P = U \ {y}
      BY <3>1, <3>2
    <3>5. \A z \in U : v[z] \in Int
      OBVIOUS
    <3>6. v[y] = w[x]
      BY <3>2
    <3> HIDE DEF P, U
    <3>7. IsFiniteSet(U)
      BY <3>3, <3>4, FS_AddElement
    <3>10. Summation(v, U) = Summation(v, U \ {y}) + v[y]
      BY <3>4, <3>5, <3>7, SummationStep
    <3>8. Summation(w, s) = Summation(w, s \ {x}) + w[x]
      <4>1. IsFiniteSet(s) /\ \A z \in s : w[z] \in Int
        BY FS_Subset
      <4>2. QED
        BY <3>1, <4>1, SummationStep
    <3>9. QED
      BY <3>3, <3>4, <3>6, <3>7, <3>8, <3>10 DEF U
  <2>3. QED
    BY <2>1, <2>2
<1>2. Q = SUBSET S
  <2> HIDE DEF Q
  <2>1. Q \in SUBSET SUBSET S
    BY DEF Q
  <2>2. QED
    BY <1>1, <2>1, RemovalInduction
<1>3. Pre(S) = R
  OBVIOUS
<1>4. QED
  BY <1>2, <1>3

(* Sums of natural numbers grow with the set.                              *)
LEMMA SummationMonotone ==
  ASSUME NEW S, IsFiniteSet(S), NEW w, \A x \in S : w[x] \in Nat, NEW R \in SUBSET S
  PROVE  /\ Summation(w, R) \in Nat
         /\ Summation(w, R) <= Summation(w, S)
<1> DEFINE Q == {s \in SUBSET S : R \subseteq s => Summation(w, R) <= Summation(w, s)}
           N == {s \in SUBSET S : Summation(w, s) \in Nat}
<1>1. \A s \in SUBSET S : IsFiniteSet(s)
  BY FS_Subset
<1>2. ASSUME NEW s \in SUBSET S, NEW x \in s
      PROVE  /\ Summation(w, s) = Summation(w, s \ {x}) + w[x]
             /\ Summation(w, s) \in Int
             /\ Summation(w, s \ {x}) \in Int
  <2>1. \A y \in s : w[y] \in Int
    OBVIOUS
  <2>2. QED
    BY <1>1, <2>1, SummationStep
<1>3. N = SUBSET S
  <2>1. ASSUME NEW s \in SUBSET S, \A x \in s : s \ {x} \in N
        PROVE  s \in N
    <3>1. CASE s = {}
      BY <3>1, SummationEmpty
    <3>2. CASE s # {}
      <4>1. PICK x \in s : TRUE
        BY <3>2
      <4>2. Summation(w, s \ {x}) \in Nat /\ w[x] \in Nat
        BY <2>1, <4>1
      <4>3. QED
        BY <1>2, <4>1, <4>2
    <3>3. QED
      BY <3>1, <3>2
  <2> HIDE DEF N
  <2>2. N \in SUBSET SUBSET S
    BY DEF N
  <2>3. QED
    BY <2>1, <2>2, RemovalInduction
<1>4. \A s \in SUBSET S : Summation(w, s) \in Nat
  BY <1>3
<1>5. Q = SUBSET S
  <2>1. ASSUME NEW s \in SUBSET S, \A x \in s : s \ {x} \in Q
        PROVE  s \in Q
    <3>1. SUFFICES ASSUME R \subseteq s
                   PROVE  Summation(w, R) <= Summation(w, s)
      OBVIOUS
    <3>2. CASE s = R
      BY <1>4, <3>2
    <3>3. CASE s # R
      <4>1. PICK x \in s : x \notin R
        BY <3>1, <3>3
      <4>2. Summation(w, R) <= Summation(w, s \ {x}) /\ w[x] \in Nat
        BY <2>1, <3>1, <4>1
      <4>3. Summation(w, R) \in Nat
        BY <1>4
      <4>4. QED
        BY <1>2, <4>1, <4>2, <4>3
    <3>4. QED
      BY <3>2, <3>3
  <2> HIDE DEF Q
  <2>2. Q \in SUBSET SUBSET S
    BY DEF Q
  <2>3. QED
    BY <2>1, <2>2, RemovalInduction
<1>6. S \in Q
  BY <1>5
<1>7. QED
  BY <1>4, <1>6

LEMMA SumFunctionOnSetIsSum ==
  ASSUME NEW S, IsFiniteSet(S), NEW w, \A x \in S : w[x] \in Int
  PROVE  SumFunctionOnSet(w, S) = Summation(w, S)
<1> DEFINE c == [s \in SUBSET S |-> Some(s)]
           v == [x \in S |-> w[x]]
           h == CHOOSE h : h = [s \in SUBSET S |->
                                  IF s = {} THEN 0 ELSE w[Some(s)] + h[s \ {Some(s)}]]
<1>1. SumFunctionOnSet(w, S) = h[S]
  BY DEF SumFunctionOnSet, FoldFunctionOnSet, MapThenFoldSet, Some
<1>2. Chooses(c, S)
  BY DEF Some, Chooses
<1>3. v \in [S -> Int] /\ \A s \in SUBSET S : s # {} => Some(s) \in s /\ v[Some(s)] = w[Some(s)]
  BY DEF Some
<1>4. PICK g \in [SUBSET S -> Int] : Folds(g, v, c, S)
  <2> HIDE DEF c, v
  <2>1. QED
    BY <1>2, <1>3, FoldExists
<1>5. g = [s \in SUBSET S |-> IF s = {} THEN 0 ELSE w[Some(s)] + g[s \ {Some(s)}]]
  <2>1. ASSUME NEW s \in SUBSET S, s # {}
        PROVE  g[s] = w[Some(s)] + g[s \ {Some(s)}]
    <3>1. Some(s) \in s /\ c[s] = Some(s) /\ v[Some(s)] = w[Some(s)]
      BY <1>3, <2>1
    <3>2. w[Some(s)] \in Int /\ g[s \ {Some(s)}] \in Int
      BY <3>1
    <3> HIDE DEF c, v
    <3>3. \/ g[s] = g[s \ {Some(s)}] + v[Some(s)]
          \/ g[s] = v[Some(s)] + g[s \ {Some(s)}]
      BY <1>4, <2>1, <3>1, Zenon DEF Folds
    <3>4. QED
      BY <3>1, <3>2, <3>3
  <2>2. g[{}] = 0
    BY <1>4 DEF Folds
  <2>3. QED
    BY <2>1, <2>2
<1>6. h = [s \in SUBSET S |-> IF s = {} THEN 0 ELSE w[Some(s)] + h[s \ {Some(s)}]]
  BY <1>5, Zenon
<1>7. IsSum(h, v, S)
  <2>1. \A s \in SUBSET S : s # {} => h[s] = w[Some(s)] + h[s \ {Some(s)}]
    BY <1>6
  <2>2. h[{}] = 0
    BY <1>6
  <2>3. h = [s \in SUBSET S |-> h[s]]
    BY <1>6
  <2> HIDE DEF h, v
  <2>4. Folds(h, v, c, S)
    BY <2>1, <2>2, <1>2, <1>3 DEF Folds
  <2>5. QED
    BY <1>2, <1>3, <2>3, <2>4, FoldIsSum
<1>8. QED
  BY <1>1, <1>7, SummationIs

(* Sums over two parts, sums of two, and sums compared.                    *)
LEMMA SummationUnion ==
  ASSUME NEW S, IsFiniteSet(S), NEW w, \A x \in S : w[x] \in Int,
         NEW R \in SUBSET S
  PROVE  /\ Summation(w, S) = Summation(w, R) + Summation(w, S \ R)
         /\ Summation(w, R) \in Int /\ Summation(w, S \ R) \in Int
<1> DEFINE Q == {s \in SUBSET (S \ R) : Summation(w, R \union s) = Summation(w, R) + Summation(w, s)}
<1>1. \A s \in SUBSET S : IsFiniteSet(s) /\ Summation(w, s) \in Int
  <2> SUFFICES ASSUME NEW s \in SUBSET S PROVE IsFiniteSet(s) /\ Summation(w, s) \in Int
    OBVIOUS
  <2>1. IsFiniteSet(s) /\ \A x \in s : w[x] \in Int
    BY FS_Subset
  <2> QED
    BY <2>1, SummationType
<1>2. IsFiniteSet(S \ R) /\ Q \in SUBSET SUBSET (S \ R)
  BY <1>1
<1>3. {} \in Q
  <2>1. R \union {} = R
    OBVIOUS
  <2> QED
    BY <1>1, <2>1, SummationEmpty
<1>4. ASSUME NEW s \in Q, NEW x \in (S \ R) \ s
      PROVE  s \union {x} \in Q
  <2>1. Summation(w, s \union {x}) = Summation(w, s) + w[x]
    <3>1. IsFiniteSet(s) /\ \A y \in s \union {x} : w[y] \in Int
      BY <1>1
    <3> QED
      BY <3>1, SummationAdd
  <2>2. Summation(w, (R \union s) \union {x}) = Summation(w, R \union s) + w[x]
    <3>1. IsFiniteSet(R \union s) /\ x \notin R \union s
          /\ \A y \in (R \union s) \union {x} : w[y] \in Int
      BY <1>1
    <3> QED
      BY <3>1, SummationAdd
  <2>3. (R \union s) \union {x} = R \union (s \union {x}) /\ s \union {x} \in SUBSET (S \ R)
    OBVIOUS
  <2>4. Summation(w, R \union (s \union {x})) = Summation(w, R \union s) + w[x]
    BY <2>2, <2>3
  <2>5. Summation(w, R \union s) = Summation(w, R) + Summation(w, s)
    OBVIOUS
  <2>6. /\ Summation(w, R) \in Int /\ Summation(w, s) \in Int /\ w[x] \in Int
    BY <1>1
  <2>7. Summation(w, R \union (s \union {x})) = Summation(w, R) + Summation(w, s \union {x})
    BY <2>1, <2>4, <2>5, <2>6
  <2> QED
    BY <2>3, <2>7
<1> HIDE DEF Q
<1>5. Q = SUBSET (S \ R)
  BY <1>2, <1>3, <1>4, FiniteSetInduction
<1>6. S \ R \in Q /\ R \union (S \ R) = S
  BY <1>5
<1> QED
  BY <1>1, <1>6 DEF Q

LEMMA SummationPlus ==
  ASSUME NEW S, IsFiniteSet(S), NEW u, NEW v, NEW w,
         \A x \in S : u[x] \in Int /\ v[x] \in Int /\ w[x] = u[x] + v[x]
  PROVE  Summation(w, S) = Summation(u, S) + Summation(v, S)
<1>1. PICK f : IsSum(f, u, S) /\ Summation(u, S) = f[S]
  BY SummationExists
<1>2. PICK g : IsSum(g, v, S) /\ Summation(v, S) = g[S]
  BY SummationExists
<1> DEFINE h == [s \in SUBSET S |-> f[s] + g[s]]
<1>3. IsSum(h, w, S)
  <2>1. h \in [SUBSET S -> Int] /\ h[{}] = 0
    BY <1>1, <1>2 DEF IsSum
  <2>2. ASSUME NEW s \in SUBSET S, NEW x \in s
        PROVE  h[s] = h[s \ {x}] + w[x]
    <3>1. /\ f[s] = f[s \ {x}] + u[x] /\ g[s] = g[s \ {x}] + v[x]
          /\ f[s \ {x}] \in Int /\ g[s \ {x}] \in Int
      BY <1>1, <1>2 DEF IsSum
    <3> QED
      BY <3>1
  <2> QED
    BY <2>1, <2>2 DEF IsSum
<1>4. Summation(w, S) = h[S]
  <2> HIDE DEF h
  <2> QED
    BY <1>3, SummationIs
<1> QED
  BY <1>1, <1>2, <1>4

LEMMA SummationAtMost ==
  ASSUME NEW S, IsFiniteSet(S), NEW u, NEW v,
         \A x \in S : u[x] \in Int /\ v[x] \in Int /\ u[x] <= v[x]
  PROVE  Summation(u, S) <= Summation(v, S)
<1> DEFINE gap == [x \in S |-> v[x] - u[x]]
<1>1. \A x \in S : gap[x] \in Nat /\ v[x] = u[x] + gap[x]
  OBVIOUS
<1> HIDE DEF gap
<1>2. Summation(v, S) = Summation(u, S) + Summation(gap, S)
  BY <1>1, SummationPlus
<1>3. Summation(gap, S) \in Nat
  BY <1>1, SummationMonotone
<1>4. Summation(u, S) \in Int
  BY SummationType
<1> QED
  BY <1>2, <1>3, <1>4

LEMMA SummationConstant ==
  ASSUME NEW S, IsFiniteSet(S), NEW b \in Int, NEW w, \A x \in S : w[x] = b
  PROVE  Summation(w, S) = Cardinality(S) * b
<1> DEFINE Q == {s \in SUBSET S : Summation(w, s) = Cardinality(s) * b}
<1>1. Q \in SUBSET SUBSET S /\ \A s \in SUBSET S : IsFiniteSet(s)
  BY FS_Subset
<1>2. {} \in Q
  BY SummationEmpty, FS_EmptySet
<1>3. ASSUME NEW s \in Q, NEW x \in S \ s
      PROVE  s \union {x} \in Q
  <2>1. IsFiniteSet(s) /\ x \notin s /\ w[x] = b /\ \A y \in s \union {x} : w[y] \in Int
    BY <1>1
  <2> HIDE DEF Q
  <2>2. Summation(w, s \union {x}) = Summation(w, s) + b
    <3>1. Summation(w, s \union {x}) = Summation(w, s) + w[x]
      BY <2>1, SummationAdd
    <3> QED
      BY <2>1, <3>1
  <2>3. Cardinality(s \union {x}) = Cardinality(s) + 1 /\ Cardinality(s) \in Nat
    BY <2>1, FS_AddElement, FS_CardinalityType
  <2>4. \A n \in Nat : (n + 1) * b = n * b + b
    OBVIOUS
  <2> QED
    BY <2>2, <2>3, <2>4 DEF Q
<1>4. Q = SUBSET S
  <2> HIDE DEF Q
  <2> QED
    BY <1>1, <1>2, <1>3, FiniteSetInduction
<1> QED
  BY <1>4

-----------------------------------------------------------------------------
(* sorted(): the elements of a finite set by the number of smaller ones.   *)
LEMMA RanksAscend ==
  ASSUME NEW S \in SUBSET Int, IsFiniteSet(S), NEW s \in S, NEW t \in S, s < t
  PROVE  /\ Cardinality(Below(S, s)) \in Nat
         /\ Cardinality(Below(S, s)) < Cardinality(Below(S, t))
<1>1. /\ IsFiniteSet(Below(S, t)) /\ IsFiniteSet(Below(S, s))
      /\ Below(S, s) \in SUBSET Below(S, t)
  <2>1. Below(S, t) \in SUBSET S /\ Below(S, s) \in SUBSET S
    BY DEF Below
  <2>2. Below(S, s) \in SUBSET Below(S, t)
    <3>1. ASSUME NEW r \in S, r < s
          PROVE  r < t
      <4>1. r \in Int /\ s \in Int /\ t \in Int
        OBVIOUS
      <4>2. QED
        BY <3>1, <4>1
    <3>2. QED
      BY <3>1 DEF Below
  <2>3. QED
    BY <2>1, <2>2, FS_Subset
<1>2. Below(S, s) # Below(S, t)
  BY DEF Below
<1>3. /\ Cardinality(Below(S, s)) \in Nat /\ Cardinality(Below(S, t)) \in Nat
      /\ Cardinality(Below(S, s)) <= Cardinality(Below(S, t))
      /\ Cardinality(Below(S, s)) # Cardinality(Below(S, t))
  BY <1>1, <1>2, FS_Subset, FS_CardinalityType
<1>4. QED
  BY <1>3

LEMMA RanksDiffer ==
  ASSUME NEW S \in SUBSET Int, IsFiniteSet(S), NEW s \in S, NEW t \in S,
         Cardinality(Below(S, s)) = Cardinality(Below(S, t))
  PROVE  s = t
<1>1. s \in Int /\ t \in Int
  OBVIOUS
<1>2. CASE s < t
  <2>1. Cardinality(Below(S, s)) \in Nat
        /\ Cardinality(Below(S, s)) < Cardinality(Below(S, t))
    BY <1>2, RanksAscend
  <2>2. QED
    BY <2>1
<1>3. CASE t < s
  <2>1. Cardinality(Below(S, t)) \in Nat
        /\ Cardinality(Below(S, t)) < Cardinality(Below(S, s))
    BY <1>3, RanksAscend
  <2>2. QED
    BY <2>1
<1>4. QED
  BY <1>1, <1>2, <1>3

LEMMA RankType ==
  ASSUME NEW S \in SUBSET Int, IsFiniteSet(S), NEW s \in S
  PROVE  Cardinality(Below(S, s)) \in 0 .. Cardinality(S) - 1
<1>1. Below(S, s) \in SUBSET (S \ {s})
  <2>1. Below(S, s) \in SUBSET S
    BY DEF Below
  <2>2. s \notin Below(S, s)
    BY DEF Below
  <2>3. QED
    BY <2>1, <2>2
<1>2. IsFiniteSet(S \ {s}) /\ Cardinality(S \ {s}) = Cardinality(S) - 1
  BY FS_RemoveElement
<1>3. IsFiniteSet(Below(S, s)) /\ Cardinality(Below(S, s)) <= Cardinality(S) - 1
  BY <1>1, <1>2, FS_Subset
<1>4. Cardinality(Below(S, s)) \in Nat /\ Cardinality(S) \in Nat
  BY <1>3, FS_CardinalityType
<1>5. QED
  BY <1>3, <1>4

LEMMA RanksAreAll ==
  ASSUME NEW S \in SUBSET Int, IsFiniteSet(S), NEW k \in 1 .. Cardinality(S)
  PROVE  \E s \in S : Cardinality(Below(S, s)) = k - 1
<1> DEFINE n == Cardinality(S)
           T == 0 .. n - 1
           rank == [s \in S |-> Cardinality(Below(S, s))]
<1>1. n \in Nat
  BY FS_CardinalityType
<1>2. rank \in [S -> T]
  BY RankType
<1>3. ASSUME NEW s \in S, NEW t \in S, rank[s] = rank[t]
      PROVE  s = t
  BY <1>3, RanksDiffer
<1>4. rank \in Injection(S, T)
  <2> HIDE DEF rank, T
  <2>1. IsInjective(rank)
    BY <1>2, <1>3 DEF IsInjective
  <2>2. QED
    BY <1>2, <1>3, <2>1 DEF Injection
<1>5. IsFiniteSet(T) /\ Cardinality(T) = n
  <2>1. n - 1 \in Int /\ n - 1 - 0 + 1 = n /\ (0 > n - 1 => n = 0)
    BY <1>1
  <2> HIDE DEF n
  <2>2. QED
    BY <2>1, FS_Interval
<1>6. rank \in Surjection(S, T)
  <2> HIDE DEF rank, T
  <2>1. QED
    BY <1>4, <1>5, FS_Injection DEF n
<1>7. k - 1 \in T
  BY <1>1
<1>8. \E s \in S : rank[s] = k - 1
  <2> HIDE DEF rank, T
  <2>1. QED
    BY <1>6, <1>7 DEF Surjection
<1>9. QED
  BY <1>8

(* Ascending lists the elements in order, each once.                       *)
LEMMA Ascends ==
  ASSUME NEW S \in SUBSET Int, IsFiniteSet(S)
  PROVE  /\ Cardinality(S) \in Nat
         /\ Ascending(S) \in [1 .. Cardinality(S) -> S]
         /\ Ascending(S) \in Seq(S) /\ Len(Ascending(S)) = Cardinality(S)
         /\ \A k \in 1 .. Cardinality(S) : Cardinality(Below(S, Ascending(S)[k])) = k - 1
         /\ \A j, k \in 1 .. Cardinality(S) : j < k => Ascending(S)[j] < Ascending(S)[k]
         /\ \A x \in S : \E k \in 1 .. Cardinality(S) : Ascending(S)[k] = x
<1> DEFINE n == Cardinality(S)
           a == Ascending(S)
<1>1. n \in Nat
  BY FS_CardinalityType
<1>2. ASSUME NEW k \in 1 .. n
      PROVE  a[k] \in S /\ Cardinality(Below(S, a[k])) = k - 1
  <2>1. \E x \in S : Cardinality(Below(S, x)) = k - 1
    BY RanksAreAll
  <2>2. a[k] = CHOOSE x \in S : Cardinality(Below(S, x)) = k - 1
    BY DEF Ascending
  <2>3. QED
    BY <2>1, <2>2
<1>3. a \in [1 .. n -> S]
  BY <1>2 DEF Ascending
<1>4. a \in Seq(S) /\ Len(a) = n
  <2> HIDE DEF a, n
  <2>1. QED
    BY <1>1, <1>3
<1>5. ASSUME NEW j \in 1 .. n, NEW k \in 1 .. n, j < k
      PROVE  a[j] < a[k]
  <2>1. a[j] \in S /\ a[k] \in S /\ a[j] \in Int /\ a[k] \in Int
    BY <1>2
  <2>2. ~ (a[k] < a[j])
    <3>1. SUFFICES ASSUME a[k] < a[j]
                   PROVE  FALSE
      OBVIOUS
    <3>2. Cardinality(Below(S, a[k])) < Cardinality(Below(S, a[j]))
      BY <2>1, <3>1, RanksAscend
    <3>3. QED
      BY <1>1, <1>2, <1>5, <3>2
  <2>3. a[j] # a[k]
    BY <1>1, <1>2, <1>5
  <2>4. QED
    BY <2>1, <2>2, <2>3
<1>6. ASSUME NEW x \in S
      PROVE  \E k \in 1 .. n : a[k] = x
  <2> DEFINE k == Cardinality(Below(S, x)) + 1
  <2>1. k \in 1 .. n
    BY <1>1, RankType
  <2>2. Cardinality(Below(S, a[k])) = Cardinality(Below(S, x)) /\ a[k] \in S
    BY <1>2, <2>1, RankType
  <2>5. \A s, t \in S : Cardinality(Below(S, s)) = Cardinality(Below(S, t)) => s = t
    BY RanksDiffer
  <2> HIDE DEF k, a
  <2>3. a[k] = x
    BY <2>2, <2>5
  <2>4. QED
    BY <2>1, <2>3
<1>7. QED
  BY <1>1, <1>2, <1>3, <1>4, <1>5, <1>6

(* It is the only list that does.                                          *)
LEMMA AscendingUnique ==
  ASSUME NEW S \in SUBSET Int, NEW n \in Nat, NEW q \in [1 .. n -> S],
         \A j, k \in 1 .. n : j < k => q[j] < q[k],
         \A x \in S : \E k \in 1 .. n : q[k] = x
  PROVE  /\ IsFiniteSet(S) /\ Cardinality(S) = n
         /\ q = Ascending(S)
<1>1. \A j, k \in 1 .. n : q[j] = q[k] => j = k
  <2>1. \A k \in 1 .. n : q[k] \in Int
    OBVIOUS
  <2>2. \A j, k \in 1 .. n : j # k => j < k \/ k < j
    OBVIOUS
  <2>3. QED
    BY <2>1, <2>2
<1>2. ASSUME NEW m \in 0 .. n, NEW R \in SUBSET S, \A x \in S : x \in R <=> \E k \in 1 .. m : q[k] = x
      PROVE  IsFiniteSet(R) /\ Cardinality(R) = m
  <2> DEFINE g == [k \in 1 .. m |-> q[k]]
  <2>1. 1 .. m \in SUBSET (1 .. n)
    OBVIOUS
  <2>2. g \in [1 .. m -> R] /\ \A k \in 1 .. m : g[k] = q[k]
    BY <1>2, <2>1
  <2>3. \A x \in R : \E k \in 1 .. m : g[k] = x
    BY <1>2, <2>2
  <2>4. \A j, k \in 1 .. m : g[j] = g[k] => j = k
    BY <1>1, <2>1, <2>2
  <2>5. IsFiniteSet(1 .. m) /\ Cardinality(1 .. m) = m
    <3>1. m \in Nat /\ (1 > m => m = 0) /\ m - 1 + 1 = m
      OBVIOUS
    <3>2. QED
      BY <3>1, FS_Interval
  <2> HIDE DEF g
  <2>6. g \in Bijection(1 .. m, R)
    <3>1. IsInjective(g)
      BY <2>2, <2>4 DEF IsInjective
    <3>2. QED
      BY <2>2, <2>3, <3>1 DEF Bijection, Injection, Surjection
  <2>7. IsFiniteSet(R) /\ Cardinality(R) = Cardinality(1 .. m)
    <3>1. ExistsBijection(1 .. m, R)
      BY <2>6 DEF ExistsBijection
    <3>2. QED
      BY <2>5, <3>1, FS_Bijection
  <2>8. QED
    BY <2>5, <2>7
<1>3. IsFiniteSet(S) /\ Cardinality(S) = n
  BY <1>2
<1>4. ASSUME NEW k \in 1 .. n
      PROVE  Cardinality(Below(S, q[k])) = k - 1
  <2>1. k - 1 \in 0 .. n /\ Below(S, q[k]) \in SUBSET S
    BY DEF Below
  <2>2. ASSUME NEW x \in S
        PROVE  x \in Below(S, q[k]) <=> \E j \in 1 .. k - 1 : q[j] = x
    <3>1. PICK j \in 1 .. n : q[j] = x
      OBVIOUS
    <3>2. q[j] \in Int /\ q[k] \in Int
      OBVIOUS
    <3>3. x < q[k] <=> j < k
      BY <3>1, <3>2
    <3>4. j < k <=> j \in 1 .. k - 1
      OBVIOUS
    <3>5. \A i \in 1 .. k - 1 : q[i] = x => i = j
      BY <1>1, <3>1
    <3>6. QED
      BY <3>1, <3>3, <3>4, <3>5 DEF Below
  <2>3. QED
    BY <1>2, <2>1, <2>2
<1> DEFINE a == Ascending(S)
<1>5. /\ a \in [1 .. n -> S]
      /\ \A k \in 1 .. n : Cardinality(Below(S, a[k])) = k - 1
  BY <1>3, Ascends
<1> HIDE DEF a
<1>6. ASSUME NEW k \in 1 .. n
      PROVE  q[k] = a[k]
  <2>1. q[k] \in S /\ a[k] \in S /\ Cardinality(Below(S, q[k])) = Cardinality(Below(S, a[k]))
    BY <1>4, <1>5
  <2>2. \A s, t \in S : Cardinality(Below(S, s)) = Cardinality(Below(S, t)) => s = t
    BY <1>3, RanksDiffer
  <2>3. QED
    BY <2>1, <2>2
<1>7. q = a
  BY <1>5, <1>6
<1>8. QED
  BY <1>3, <1>7 DEF a

(* Of two sets the first of which lies below the second, one after the     *)
(* other.                                                                  *)
LEMMA AscendingUnion ==
  ASSUME NEW S \in SUBSET Int, IsFiniteSet(S), NEW R \in SUBSET Int, IsFiniteSet(R),
         \A x \in S, y \in R : x < y
  PROVE  /\ IsFiniteSet(S \union R)
         /\ Cardinality(S \union R) = Cardinality(S) + Cardinality(R)
         /\ Ascending(S \union R) = Ascending(S) \o Ascending(R)
<1> DEFINE a == Ascending(S)
           b == Ascending(R)
           m == Cardinality(S)
           n == Cardinality(R)
           q == a \o b
<1> HIDE DEF a, b, m, n
<1>1. /\ m \in Nat /\ a \in [1 .. m -> S] /\ a \in Seq(S) /\ a \in Seq(Int) /\ Len(a) = m
      /\ \A j, k \in 1 .. m : j < k => a[j] < a[k]
      /\ \A x \in S : \E k \in 1 .. m : a[k] = x
  <2>1. /\ m \in Nat /\ a \in [1 .. m -> S] /\ a \in Seq(S) /\ Len(a) = m
        /\ \A j, k \in 1 .. m : j < k => a[j] < a[k]
        /\ \A x \in S : \E k \in 1 .. m : a[k] = x
    BY Ascends DEF a, m
  <2>2. a \in [1 .. m -> Int]
    BY <2>1
  <2>3. a \in Seq(Int)
    BY <2>1, <2>2
  <2>4. QED
    BY <2>1, <2>3
<1>2. /\ n \in Nat /\ b \in [1 .. n -> R] /\ b \in Seq(R) /\ b \in Seq(Int) /\ Len(b) = n
      /\ \A j, k \in 1 .. n : j < k => b[j] < b[k]
      /\ \A x \in R : \E k \in 1 .. n : b[k] = x
  <2>1. /\ n \in Nat /\ b \in [1 .. n -> R] /\ b \in Seq(R) /\ Len(b) = n
        /\ \A j, k \in 1 .. n : j < k => b[j] < b[k]
        /\ \A x \in R : \E k \in 1 .. n : b[k] = x
    BY Ascends DEF b, n
  <2>2. b \in [1 .. n -> Int]
    BY <2>1
  <2>3. b \in Seq(Int)
    BY <2>1, <2>2
  <2>4. QED
    BY <2>1, <2>3
<1>3. /\ q \in Seq(Int) /\ Len(q) = m + n
      /\ \A i \in 1 .. m + n : q[i] = IF i <= m THEN a[i] ELSE b[i - m]
  <2>1. /\ q \in Seq(Int) /\ Len(q) = Len(a) + Len(b)
        /\ \A i \in 1 .. Len(a) + Len(b) : q[i] = IF i <= Len(a) THEN a[i] ELSE b[i - Len(a)]
    <3>1. a \in Seq(Int) /\ b \in Seq(Int)
      BY <1>1, <1>2
    <3>2. QED
      BY <3>1, ConcatProperties
  <2>2. QED
    BY <1>1, <1>2, <2>1
<1> HIDE DEF q
<1>4. \A i \in 1 .. m : q[i] = a[i] /\ i \in 1 .. m + n
  BY <1>1, <1>2, <1>3
<1>5. \A i \in 1 .. n : q[m + i] = b[i] /\ m + i \in 1 .. m + n
  BY <1>1, <1>2, <1>3
<1>6. \A i \in 1 .. m + n : i \in 1 .. m \/ \E k \in 1 .. n : i = m + k
  <2>1. ASSUME NEW i \in 1 .. m + n, i \notin 1 .. m
        PROVE  i - m \in 1 .. n /\ i = m + (i - m)
    BY <1>1, <1>2, <2>1
  <2>2. QED
    BY <2>1
<1>7. q \in [1 .. m + n -> S \union R]
  <2>1. DOMAIN q = 1 .. m + n /\ q = [i \in 1 .. m + n |-> q[i]]
    BY <1>3
  <2>2. ASSUME NEW i \in 1 .. m + n
        PROVE  q[i] \in S \union R
    <3>1. CASE i \in 1 .. m
      BY <1>1, <1>4, <3>1
    <3>2. CASE i \notin 1 .. m
      <4>1. PICK k \in 1 .. n : i = m + k
        BY <1>6, <3>2
      <4>2. QED
        BY <1>2, <1>5, <4>1
    <3>3. QED
      BY <3>1, <3>2
  <2>3. QED
    BY <2>1, <2>2
<1>8. ASSUME NEW j \in 1 .. m + n, NEW k \in 1 .. m + n, j < k
      PROVE  q[j] < q[k]
  <2>1. CASE k \in 1 .. m
    <3>1. j \in 1 .. m
      BY <1>1, <1>8, <2>1
    <3>2. QED
      BY <1>1, <1>4, <1>8, <2>1, <3>1
  <2>2. CASE j \in 1 .. m /\ k \notin 1 .. m
    <3>1. PICK l \in 1 .. n : k = m + l
      BY <1>6, <2>2
    <3>2. q[j] \in S /\ q[k] \in R
      BY <1>1, <1>2, <1>4, <1>5, <2>2, <3>1
    <3>3. QED
      BY <3>2
  <2>3. CASE j \notin 1 .. m /\ k \notin 1 .. m
    <3>1. PICK i \in 1 .. n, l \in 1 .. n : j = m + i /\ k = m + l
      BY <1>6, <2>3
    <3>2. i < l
      BY <1>1, <1>8, <3>1
    <3>3. QED
      BY <1>2, <1>5, <3>1, <3>2
  <2>4. QED
    BY <1>1, <1>8, <2>1, <2>2, <2>3
<1>9. ASSUME NEW x \in S \union R
      PROVE  \E k \in 1 .. m + n : q[k] = x
  <2>1. CASE x \in S
    BY <1>1, <1>4, <2>1
  <2>2. CASE x \in R
    <3>1. PICK i \in 1 .. n : b[i] = x
      BY <1>2, <2>2
    <3>2. q[m + i] = x /\ m + i \in 1 .. m + n
      BY <1>5, <3>1
    <3>3. QED
      BY <3>2
  <2>3. QED
    BY <2>1, <2>2
<1>10. m + n \in Nat /\ S \union R \in SUBSET Int
  BY <1>1, <1>2
<1>11. /\ IsFiniteSet(S \union R) /\ Cardinality(S \union R) = m + n
       /\ q = Ascending(S \union R)
  BY <1>7, <1>8, <1>9, <1>10, AscendingUnique
<1>12. QED
  BY <1>11 DEF q, a, b, m, n

(* All of them moved by the same amount.                                   *)
LEMMA AscendingShift ==
  ASSUME NEW S \in SUBSET Int, IsFiniteSet(S), NEW b \in Int,
         NEW R \in SUBSET Int, \A x \in S : b + x \in R, \A y \in R : y - b \in S
  PROVE  /\ IsFiniteSet(R) /\ Cardinality(R) = Cardinality(S)
         /\ \A k \in 1 .. Cardinality(S) : Ascending(R)[k] = b + Ascending(S)[k]
<1> DEFINE a == Ascending(S)
           n == Cardinality(S)
           q == [k \in 1 .. n |-> b + a[k]]
<1>1. /\ n \in Nat /\ a \in [1 .. n -> S]
      /\ \A j, k \in 1 .. n : j < k => a[j] < a[k]
      /\ \A x \in S : \E k \in 1 .. n : a[k] = x
  BY Ascends
<1> HIDE DEF a, n
<1>2. q \in [1 .. n -> R]
  BY <1>1
<1>3. ASSUME NEW j \in 1 .. n, NEW k \in 1 .. n, j < k
      PROVE  q[j] < q[k]
  <2>1. a[j] \in Int /\ a[k] \in Int /\ a[j] < a[k]
    BY <1>1, <1>3
  <2>2. q[j] = b + a[j] /\ q[k] = b + a[k]
    OBVIOUS
  <2>3. QED
    BY <2>1, <2>2
<1>4. ASSUME NEW y \in R
      PROVE  \E k \in 1 .. n : q[k] = y
  <2>1. PICK k \in 1 .. n : a[k] = y - b
    BY <1>1
  <2>2. q[k] = y
    BY <2>1
  <2>3. QED
    BY <2>2
<1>5. \A k \in 1 .. n : q[k] = b + a[k]
  OBVIOUS
<1> HIDE DEF q
<1>6. IsFiniteSet(R) /\ Cardinality(R) = n /\ q = Ascending(R)
  BY <1>1, <1>2, <1>3, <1>4, AscendingUnique
<1>7. QED
  BY <1>5, <1>6 DEF a, n

-----------------------------------------------------------------------------
(* Division.                                                               *)

LEMMA Quotient ==
  ASSUME NEW a \in Int, NEW b \in Nat, b > 0
  PROVE  /\ a \div b \in Int /\ b * (a \div b) <= a /\ a < b * (a \div b) + b
         /\ a % b = a - b * (a \div b) /\ a % b \in 0 .. b - 1
OBVIOUS

(* A quotient is not below any other the number has room for.              *)
LEMMA QuotientAbove ==
  ASSUME NEW a \in Int, NEW b \in Nat, b > 0, NEW q \in Int, q * b <= a
  PROVE  q <= a \div b
<1>1. SUFFICES ASSUME ~ (q <= a \div b) PROVE FALSE
  OBVIOUS
<1> DEFINE d == a \div b
<1>2. d \in Int /\ a < b * d + b
  BY Quotient
<1> HIDE DEF d
<1>3. d + 1 <= q
  BY <1>1, <1>2 DEF d
<1>4. \A x, y \in Int : x <= y => x * b <= y * b
  OBVIOUS
<1>5. (d + 1) * b <= q * b
  BY <1>2, <1>3, <1>4
<1>6. (d + 1) * b = b * d + b
  BY <1>2
<1>7. q * b \in Int /\ b * d \in Int
  BY <1>2
<1>8. QED
  BY <1>2, <1>5, <1>6, <1>7

LEMMA RemainderIs ==
  ASSUME NEW b \in Nat, b > 0, NEW q \in Int, NEW r \in 0 .. b - 1
  PROVE  (b * q + r) % b = r /\ (b * q + r) \div b = q
OBVIOUS

(* How far a is from the next multiple of b.                               *)
Lack(a, b) == IF a % b = 0 THEN 0 ELSE b - (a % b)

LEMMA LackStep ==
  ASSUME NEW a \in Nat, NEW b \in Nat, b > 0
  PROVE  /\ Lack(a, b) \in 0 .. b - 1
         /\ a % b = 0 => Lack(a, b) = 0 /\ Lack(a + 1, b) = b - 1
         /\ a % b # 0 => Lack(a + 1, b) = Lack(a, b) - 1
<1> DEFINE q == a \div b
           r == a % b
<1>1. q \in Int /\ r \in 0 .. b - 1 /\ a = b * q + r
  BY Quotient
<1> HIDE DEF q, r
<1>2. CASE r + 1 < b
  <2>1. (a + 1) % b = r + 1
    <3>1. a + 1 = b * q + (r + 1) /\ r + 1 \in 0 .. b - 1
      BY <1>1, <1>2
    <3>2. QED
      BY <1>1, <3>1, RemainderIs
  <2>2. QED
    BY <1>1, <1>2, <2>1 DEF Lack, r
<1>3. CASE r + 1 = b
  <2>1. (a + 1) % b = 0
    <3>1. a + 1 = b * (q + 1) + 0 /\ 0 \in 0 .. b - 1 /\ q + 1 \in Int
      BY <1>1, <1>3
    <3>2. QED
      BY <1>1, <3>1, RemainderIs
  <2>2. QED
    BY <1>1, <1>3, <2>1 DEF Lack, r
<1>4. QED
  BY <1>1, <1>2, <1>3

(* Of n numbers in a row, as many are multiples of b as n divided by b     *)
(* makes, up to the parts of a block at both ends.                         *)
LEMMA MultiplesInARow ==
  ASSUME NEW a \in Nat, NEW b \in Nat, b > 0, NEW n \in Nat
  PROVE  LET m == Cardinality({i \in 0 .. n - 1 : (a + i) % b = 0})
         IN  m \in Nat /\ n - (b - 1) <= b * m /\ b * m <= n + (b - 1)
<1> DEFINE R(k) == {i \in 0 .. k - 1 : (a + i) % b = 0}
           Holds(k) == /\ IsFiniteSet(R(k))
                       /\ b * Cardinality(R(k)) = k + Lack(a + k, b) - Lack(a, b)
           T == {k \in Nat : Holds(k)}
<1>1. Holds(0)
  <2>1. R(0) = {}
    OBVIOUS
  <2>2. Lack(a, b) \in Int /\ a + 0 = a
    BY LackStep
  <2> HIDE DEF R
  <2>3. QED
    BY <2>1, <2>2, FS_EmptySet
<1>2. ASSUME NEW k \in Nat, Holds(k)
      PROVE  Holds(k + 1)
  <2> DEFINE c == Cardinality(R(k))
  <2>1. IsFiniteSet(R(k)) /\ c \in Nat /\ b * c = k + Lack(a + k, b) - Lack(a, b)
    BY <1>2, FS_CardinalityType
  <2>2. /\ Lack(a + k, b) \in Int /\ Lack(a, b) \in Int /\ a + k \in Nat
        /\ (a + k) % b = 0 => Lack(a + k, b) = 0 /\ Lack((a + k) + 1, b) = b - 1
        /\ (a + k) % b # 0 => Lack((a + k) + 1, b) = Lack(a + k, b) - 1
    <3>1. a + k \in Nat
      OBVIOUS
    <3>2. \A x \in Nat : /\ Lack(x, b) \in 0 .. b - 1
                         /\ x % b = 0 => Lack(x, b) = 0 /\ Lack(x + 1, b) = b - 1
                         /\ x % b # 0 => Lack(x + 1, b) = Lack(x, b) - 1
      BY LackStep
    <3> DEFINE y == a + k
    <3>3. y \in Nat
      OBVIOUS
    <3> HIDE DEF y
    <3>4. /\ Lack(y, b) \in Int /\ Lack(a, b) \in Int
          /\ y % b = 0 => Lack(y, b) = 0 /\ Lack(y + 1, b) = b - 1
          /\ y % b # 0 => Lack(y + 1, b) = Lack(y, b) - 1
      BY <3>2, <3>3
    <3>5. QED
      BY <3>1, <3>4 DEF y
  <2>3. (a + k) + 1 = a + (k + 1)
    OBVIOUS
  <2>4. CASE (a + k) % b = 0
    <3>1. R(k + 1) = R(k) \union {k} /\ k \notin R(k)
      <4>1. \A i : i \in 0 .. (k + 1) - 1 <=> i \in 0 .. k - 1 \/ i = k
        OBVIOUS
      <4>2. k \notin 0 .. k - 1
        OBVIOUS
      <4>3. QED
        BY <2>4, <4>1, <4>2
    <3> HIDE DEF R
    <3>2. IsFiniteSet(R(k + 1)) /\ Cardinality(R(k + 1)) = c + 1
      BY <2>1, <3>1, FS_AddElement
    <3> HIDE DEF c
    <3>3. b * (c + 1) = b * c + b
      BY <2>1
    <3>4. QED
      BY <2>1, <2>2, <2>3, <2>4, <3>2, <3>3
  <2>5. CASE (a + k) % b # 0
    <3>1. R(k + 1) = R(k)
      BY <2>5
    <3> HIDE DEF R
    <3>2. QED
      BY <2>1, <2>2, <2>3, <2>5, <3>1
  <2>6. QED
    BY <2>4, <2>5
<1>3. T = Nat
  <2> HIDE DEF Holds
  <2>1. T \in SUBSET Nat /\ 0 \in T /\ \A k \in T : k + 1 \in T
    BY <1>1, <1>2
  <2> HIDE DEF T
  <2>2. QED
    BY <2>1, NaturalInduction
<1>4. Holds(n)
  <2> HIDE DEF Holds
  <2>1. QED
    BY <1>3
<1>5. /\ Cardinality(R(n)) \in Nat
      /\ Lack(a, b) \in 0 .. b - 1 /\ Lack(a + n, b) \in 0 .. b - 1
  BY <1>4, LackStep, FS_CardinalityType
<1> DEFINE m == Cardinality(R(n))
<1>6. m \in Nat /\ b * m = n + Lack(a + n, b) - Lack(a, b)
  BY <1>4, <1>5
<1> HIDE DEF m
<1>7. n - (b - 1) <= b * m /\ b * m <= n + (b - 1)
  BY <1>5, <1>6
<1>8. QED
  BY <1>6, <1>7 DEF m
=============================================================================
