-------------------------- MODULE ShardPlanProofs ---------------------------
(***************************************************************************)
(* Proofs about ShardPlan, for any set of corpus files.                    *)
(***************************************************************************)
EXTENDS ShardPlan, SetLemmas

-----------------------------------------------------------------------------
(* Tokens, the fold, is a sum over the rows.                               *)

Counts(rows) == [i \in DOMAIN rows |-> rows[i].tokens]

LEMMA RowsOf ==
  ASSUME NEW rows \in Seq(Row), NEW i \in 1 .. Len(rows)
  PROVE  /\ i \in DOMAIN rows
         /\ rows[i] \in Row
         /\ rows[i].id \in Nat
         /\ rows[i].shard \in Nat \union {Unset}
         /\ rows[i].tokens \in Nat
         /\ Counts(rows)[i] = rows[i].tokens
<1>1. i \in DOMAIN rows /\ rows[i] \in Row
  OBVIOUS
<1>2. QED
  BY <1>1 DEF Row, Counts

LEMMA TokensIsSummation ==
  ASSUME NEW rows \in Seq(Row)
  PROVE  Tokens(rows) = Summation(Counts(rows), 1 .. Len(rows))
<1> DEFINE S == DOMAIN rows
           w == Counts(rows)
           c == [s \in SUBSET S |-> Max(s)]
           h == CHOOSE h : h = [s \in SUBSET S |->
                                  IF s = {} THEN 0 ELSE h[s \ {Max(s)}] + rows[Max(s)].tokens]
<1>1. Tokens(rows) = h[S]
  BY DEF Tokens, FoldLeft, MapThenFoldSet
<1>2. S = 1 .. Len(rows) /\ IsFiniteSet(S) /\ w \in [S -> Int]
  <2>1. S = 1 .. Len(rows) /\ Len(rows) \in Nat
    OBVIOUS
  <2>2. IsFiniteSet(1 .. Len(rows))
    BY <2>1, FS_Interval
  <2>3. \A i \in S : rows[i].tokens \in Int
    BY <2>1, RowsOf
  <2>4. QED
    BY <2>1, <2>2, <2>3 DEF Counts
<1>3. \A s \in SUBSET S : s # {} => Max(s) \in s
  <2>1. Len(rows) \in Nat
    OBVIOUS
  <2>2. QED
    BY <1>2, <2>1, MaxOfBounded
<1>4. Chooses(c, S)
  BY <1>3 DEF Chooses
<1>5. PICK g \in [SUBSET S -> Int] : Folds(g, w, c, S)
  <2> HIDE DEF c, S, w
  <2>1. QED
    BY <1>2, <1>4, FoldExists
<1>6. g = [s \in SUBSET S |-> IF s = {} THEN 0 ELSE g[s \ {Max(s)}] + rows[Max(s)].tokens]
  <2>1. ASSUME NEW s \in SUBSET S, s # {}
        PROVE  g[s] = g[s \ {Max(s)}] + rows[Max(s)].tokens
    <3>1. Max(s) \in s /\ c[s] = Max(s) /\ w[Max(s)] = rows[Max(s)].tokens
      BY <1>3, <2>1 DEF Counts
    <3>2. w[Max(s)] \in Int /\ g[s \ {Max(s)}] \in Int
      BY <1>2, <3>1
    <3>3. \/ g[s] = g[s \ {Max(s)}] + w[Max(s)]
          \/ g[s] = w[Max(s)] + g[s \ {Max(s)}]
      BY <1>5, <2>1, <3>1, Zenon DEF Folds
    <3>4. QED
      BY <3>1, <3>2, <3>3
  <2>2. g[{}] = 0
    BY <1>5 DEF Folds
  <2>3. QED
    BY <2>1, <2>2
<1>7. h = [s \in SUBSET S |-> IF s = {} THEN 0 ELSE h[s \ {Max(s)}] + rows[Max(s)].tokens]
  BY <1>6, Zenon
<1>8. IsSum(h, w, S)
  <2>1. ASSUME NEW s \in SUBSET S, s # {}
        PROVE  h[s] = h[s \ {c[s]}] + w[c[s]]
    <3>1. Max(s) \in s /\ c[s] = Max(s) /\ w[Max(s)] = rows[Max(s)].tokens
      BY <1>3, <2>1 DEF Counts
    <3>2. h[s] = h[s \ {Max(s)}] + rows[Max(s)].tokens
      BY <1>7, <2>1
    <3>3. QED
      BY <3>1, <3>2
  <2>2. h[{}] = 0
    BY <1>7
  <2>3. h = [s \in SUBSET S |-> h[s]]
    BY <1>7
  <2> HIDE DEF h, c, w, S
  <2>4. Folds(h, w, c, S)
    BY <2>1, <2>2 DEF Folds
  <2>5. QED
    BY <1>2, <1>4, <2>3, <2>4, FoldIsSum
<1>9. Summation(w, S) = h[S]
  <2> HIDE DEF h, w, S
  <2>1. QED
    BY <1>2, <1>8, SummationIs
<1>10. QED
  BY <1>1, <1>2, <1>9

LEMMA TokensType ==
  ASSUME NEW rows \in Seq(Row)
  PROVE  Tokens(rows) \in Nat
<1> DEFINE S == 1 .. Len(rows)
<1>1. IsFiniteSet(S)
  BY FS_Interval
<1>2. \A i \in S : Counts(rows)[i] \in Nat
  BY RowsOf
<1>3. Summation(Counts(rows), S) \in Nat
  <2> HIDE DEF S
  <2>1. QED
    BY <1>1, <1>2, SummationMonotone
<1>4. QED
  BY <1>3, TokensIsSummation

(* A document more counts its tokens more.                                 *)
LEMMA TokensAppend ==
  ASSUME NEW rows \in Seq(Row), NEW row \in Row
  PROVE  Tokens(Append(rows, row)) = Tokens(rows) + row.tokens
<1> DEFINE n == Len(rows)
           more == Append(rows, row)
<1>1. n \in Nat
  OBVIOUS
<1>2. more \in Seq(Row) /\ Len(more) = n + 1
  OBVIOUS
<1>3. \A i \in 1 .. n + 1 : Counts(more)[i] \in Int /\ Counts(more)[i] = more[i].tokens
  <2> HIDE DEF n, more
  <2>1. \A i \in 1 .. Len(more) : more[i].tokens \in Nat /\ Counts(more)[i] = more[i].tokens
    BY <1>2, RowsOf
  <2>2. QED
    BY <1>1, <1>2, <2>1
<1>4. \A i \in 1 .. n : Counts(rows)[i] \in Int /\ Counts(more)[i] = Counts(rows)[i]
  <2>1. \A i \in 1 .. n : more[i] = rows[i] /\ i \in 1 .. n + 1
    OBVIOUS
  <2>2. QED
    BY <1>3, <2>1, RowsOf
<1>5. Counts(more)[n + 1] = row.tokens
  <2>1. more[n + 1] = row
    OBVIOUS
  <2>2. QED
    BY <1>1, <1>3, <2>1
<1>6. Tokens(more) = Summation(Counts(more), 1 .. n + 1)
  BY <1>2, TokensIsSummation
<1>7. Tokens(rows) = Summation(Counts(rows), 1 .. n)
  BY TokensIsSummation
<1> HIDE DEF n, more
<1>8. /\ IsFiniteSet(1 .. n)
      /\ Summation(Counts(more), 1 .. n + 1) = Summation(Counts(more), 1 .. n) + row.tokens
  BY <1>1, <1>3, <1>5, SummationPrefix
<1>9. Summation(Counts(more), 1 .. n) = Summation(Counts(rows), 1 .. n)
  BY <1>4, <1>8, SummationSame
<1>10. Tokens(more) = Tokens(rows) + row.tokens
  BY <1>6, <1>7, <1>8, <1>9
<1>11. QED
  BY <1>10 DEF more

(* One document more of a run of documents.                                *)
LEMMA SubSeqExtend ==
  ASSUME NEW T, NEW s \in Seq(T), NEW a \in Nat \ {0}, NEW b \in Nat, a <= b + 1, b < Len(s)
  PROVE  /\ SubSeq(s, a, b) \in Seq(T)
         /\ SubSeq(s, a, b + 1) = Append(SubSeq(s, a, b), s[b + 1])
<1>1. SubSeq(s, a, b) \in Seq(T) /\ Len(SubSeq(s, a, b)) = b - a + 1
  BY SubSeqProperties
<1>2. SubSeq(s, a, b + 1) \in Seq(T) /\ Len(SubSeq(s, a, b + 1)) = b - a + 2
  BY SubSeqProperties
<1>3. QED
  BY <1>1, <1>2, SubSeqProperties

LEMMA TokensSubSeq ==
  ASSUME NEW rows \in Seq(Row), NEW n \in 0 .. Len(rows) - 1
  PROVE  Tokens(SubSeq(rows, 1, n + 1)) = Tokens(SubSeq(rows, 1, n)) + rows[n + 1].tokens
<1>1. /\ SubSeq(rows, 1, n) \in Seq(Row)
      /\ SubSeq(rows, 1, n + 1) = Append(SubSeq(rows, 1, n), rows[n + 1])
  BY SubSeqExtend
<1>2. rows[n + 1] \in Row
  OBVIOUS
<1>3. QED
  BY <1>1, <1>2, TokensAppend

-----------------------------------------------------------------------------
(* The inductive invariant.                                                *)

(* The documents read so far of shard s are those from a to b, and the     *)
(* shard was opened when the tokens before a had been counted.             *)
RunOf(s, a, b) ==
  /\ a \in 1 .. read /\ b \in 1 .. read /\ a <= b
  /\ \A i \in 1 .. read : file[i].shard = s <=> i \in a .. b
  /\ groups[s] = SubSeq(file, a, b)
  /\ offsets[s] = Tokens(SubSeq(file, 1, a - 1))

(* The groups are the documents read, cut into runs.                       *)
GroupsAreRuns ==
  /\ \A i \in 1 .. read : file[i].shard \in DOMAIN groups
  /\ \A s \in DOMAIN groups : s \in Nat /\ \E a, b \in 1 .. read : RunOf(s, a, b)
  /\ IsFiniteSet(DOMAIN groups)
  /\ DOMAIN offsets = DOMAIN groups

(* What the loop of plan_shards knows of the documents it has passed.      *)
ReadIsUsable ==
  /\ \A i \in 1 .. read : file[i].shard # Unset
  /\ \A i, j \in 1 .. read : file[i].id = file[j].id => i = j

(* The shard being filled is the last one opened.                          *)
LastIsOpen ==
  /\ order \in Seq(Nat)
  /\ ToSet(order) = DOMAIN groups
  /\ Len(order) = Cardinality(DOMAIN groups)
  /\ read > 0 => order # <<>> /\ Last(order) = file[read].shard

Reading ==
  /\ stage \in {"plan", "planned"} \union Refusals
  /\ file \in Seq(Row)
  /\ read \in 0 .. Len(file)
  /\ running = Tokens(SubSeq(file, 1, read))

(* A refusal has its reason in the file.                                   *)
RefusalsHaveReasons == stage \in Refusals => ~Usable

(* The plans are those of the shards, in the order of their ids.           *)
PlansAreGroups ==
  stage = "planned" =>
    /\ file # <<>> /\ read = Len(file)
    /\ DOMAIN plans = 1 .. Cardinality(DOMAIN groups)
    /\ \A k \in DOMAIN plans : \E s \in DOMAIN groups : plans[k] = PlanOf(s)
    /\ \A s \in DOMAIN groups : \E k \in DOMAIN plans : plans[k].shard = s
    /\ \A j, k \in DOMAIN plans : j < k => plans[j].shard < plans[k].shard

PlanInv ==
  /\ Reading
  /\ GroupsAreRuns
  /\ ReadIsUsable
  /\ LastIsOpen
  /\ RefusalsHaveReasons
  /\ PlansAreGroups

-----------------------------------------------------------------------------
LEMMA TokensEmpty == Tokens(<<>>) = 0
<1>1. <<>> \in Seq(Row) /\ 1 .. Len(<<>>) = {}
  OBVIOUS
<1>2. QED
  BY <1>1, TokensIsSummation, SummationEmpty

LEMMA PlanInvInit ==
  ASSUME file \in Seq(Row), NothingRead, stage \notin Refusals, stage \in {"plan"}
  PROVE  PlanInv
<1>1. SubSeq(file, 1, 0) = <<>>
  BY SubSeqEmpty
<1>2. Reading
  <2>1. read = 0 /\ running = 0 /\ read \in 0 .. Len(file)
    BY DEF NothingRead
  <2>2. running = Tokens(SubSeq(file, 1, read))
    BY <1>1, <2>1, TokensEmpty
  <2>3. QED
    BY <2>1, <2>2 DEF Reading
<1>3. DOMAIN groups = {} /\ DOMAIN offsets = {} /\ IsFiniteSet({}) /\ Cardinality({}) = 0
  BY FS_EmptySet DEF NothingRead
<1>4. GroupsAreRuns /\ ReadIsUsable
  BY <1>3 DEF GroupsAreRuns, ReadIsUsable, NothingRead
<1>5. LastIsOpen
  BY <1>3 DEF LastIsOpen, NothingRead, ToSet
<1>6. RefusalsHaveReasons /\ PlansAreGroups
  BY DEF RefusalsHaveReasons, PlansAreGroups
<1>7. QED
  BY <1>2, <1>4, <1>5, <1>6 DEF PlanInv

LEMMA PlanInvStutter ==
  ASSUME PlanInv, UNCHANGED planVars
  PROVE  PlanInv'
<1> USE DEF planVars
<1>1. Reading'
  BY DEF PlanInv, Reading
<1>2. GroupsAreRuns'
  BY DEF PlanInv, GroupsAreRuns, RunOf
<1>3. ReadIsUsable' /\ LastIsOpen'
  BY DEF PlanInv, ReadIsUsable, LastIsOpen
<1>4. RefusalsHaveReasons'
  BY DEF PlanInv, RefusalsHaveReasons, Usable
<1>5. PlansAreGroups'
  <2>1. \A s : PlanOf(s)' = PlanOf(s)
    BY DEF PlanOf
  <2>2. QED
    BY <2>1 DEF PlanInv, PlansAreGroups
<1>6. QED
  BY <1>1, <1>2, <1>3, <1>4, <1>5 DEF PlanInv

(* The documents read are unusable together with the next one, and so is   *)
(* the file.                                                               *)
LEMMA RefuseStep ==
  ASSUME PlanInv, ~Usable, NEW reason \in Refusals, Refuse(reason)
  PROVE  PlanInv'
<1> USE DEF Refuse
<1>1. Reading'
  BY DEF PlanInv, Reading
<1>2. GroupsAreRuns' /\ ReadIsUsable' /\ LastIsOpen'
  <2>1. GroupsAreRuns'
    BY DEF PlanInv, GroupsAreRuns, RunOf
  <2>2. ReadIsUsable' /\ LastIsOpen'
    BY DEF PlanInv, ReadIsUsable, LastIsOpen
  <2>3. QED
    BY <2>1, <2>2
<1>3. ~Usable'
  BY DEF Usable
<1>4. RefusalsHaveReasons' /\ PlansAreGroups'
  BY <1>3 DEF RefusalsHaveReasons, PlansAreGroups, Refusals
<1>5. QED
  BY <1>1, <1>2, <1>4 DEF PlanInv

LEMMA NextDocument ==
  ASSUME PlanInv, read < Len(file)
  PROVE  /\ read \in Nat /\ read + 1 \in 1 .. Len(file) /\ read + 1 \in DOMAIN file
         /\ Document = file[read + 1] /\ Document \in Row
         /\ Document.shard \in Nat \union {Unset}
         /\ Document.tokens \in Nat
<1>1. file \in Seq(Row) /\ read \in 0 .. Len(file)
  BY DEF PlanInv, Reading
<1>2. read + 1 \in 1 .. Len(file) /\ read \in Nat
  BY <1>1
<1>3. QED
  BY <1>1, <1>2, RowsOf DEF Document

LEMMA RefuseSteps ==
  ASSUME PlanInv, RefuseEmpty \/ RefuseUnsharded \/ RefuseDuplicate \/ RefuseReopened
  PROVE  PlanInv'
<1>1. CASE RefuseEmpty
  BY <1>1, RefuseStep DEF RefuseEmpty, Usable, Refusals
<1>2. CASE RefuseUnsharded
  <2>1. ~Usable
    BY <1>2, NextDocument DEF RefuseUnsharded, Usable
  <2>2. QED
    BY <1>2, <2>1, RefuseStep DEF RefuseUnsharded, Refusals
<1>3. CASE RefuseDuplicate
  <2>1. PICK i \in 1 .. read : file[i].id = Document.id
    BY <1>3 DEF RefuseDuplicate, IsDuplicate
  <2>2. i \in DOMAIN file /\ i # read + 1
    BY <1>3, NextDocument DEF RefuseDuplicate, PlanInv, Reading
  <2>3. ~Usable
    BY <1>3, <2>1, <2>2, NextDocument DEF RefuseDuplicate, Usable
  <2>4. QED
    BY <1>3, <2>3, RefuseStep DEF RefuseDuplicate, Refusals
<1>4. CASE RefuseReopened
  <2> DEFINE s == Document.shard
  <2>1. s \in DOMAIN groups /\ Last(order) # s
    BY <1>4 DEF RefuseReopened, Reopens, Opened
  <2>2. PICK a, b \in 1 .. read : RunOf(s, a, b)
    BY <2>1 DEF PlanInv, GroupsAreRuns
  <2>3. file[a].shard = s /\ a < read + 1 /\ a \in DOMAIN file /\ read \in a .. read + 1
    BY <1>4, <2>2, NextDocument DEF RunOf, RefuseReopened, PlanInv, Reading
  <2>4. file[read].shard # s
    <3>1. read > 0
      BY <2>3, NextDocument
    <3>2. QED
      BY <2>1, <3>1 DEF PlanInv, LastIsOpen
  <2>5. ~Usable
    BY <1>4, <2>3, <2>4, NextDocument DEF RefuseReopened, Usable
  <2>6. QED
    BY <1>4, <2>5, RefuseStep DEF RefuseReopened, Refusals
<1>5. QED
  BY <1>1, <1>2, <1>3, <1>4

(* What every document that is taken leaves true.                          *)
LEMMA TakeReading ==
  ASSUME PlanInv, TakeDocument
  PROVE  /\ Reading' /\ ReadIsUsable' /\ RefusalsHaveReasons' /\ PlansAreGroups'
         /\ read' = read + 1 /\ file' = file
<1>1. read < Len(file) /\ read' = read + 1 /\ file' = file /\ stage' = "plan"
  BY DEF TakeDocument
<1>2. Reading'
  <2>1. running' = Tokens(SubSeq(file, 1, read)) + Document.tokens
    BY DEF TakeDocument, PlanInv, Reading
  <2>2. file \in Seq(Row) /\ read \in 0 .. Len(file) - 1
    BY <1>1, NextDocument DEF PlanInv, Reading
  <2>3. running' = Tokens(SubSeq(file, 1, read + 1))
    BY <2>1, <2>2, TokensSubSeq DEF Document
  <2>4. (Tokens(SubSeq(file, 1, read)))' = Tokens(SubSeq(file, 1, read + 1))
    BY <1>1
  <2>5. QED
    BY <1>1, <2>2, <2>3, <2>4 DEF Reading
<1>3. ReadIsUsable'
  <2>1. \A i \in 1 .. read + 1 : i \in 1 .. read \/ i = read + 1
    BY <1>1, NextDocument
  <2>2. Document.shard # Unset /\ \A i \in 1 .. read : file[i].id # Document.id
    BY DEF TakeDocument, IsDuplicate
  <2>3. QED
    BY <1>1, <2>1, <2>2 DEF ReadIsUsable, PlanInv, Document
<1>4. QED
  BY <1>1, <1>2, <1>3 DEF RefusalsHaveReasons, PlansAreGroups, Refusals

(* A document of the shard being filled makes its run longer.              *)
LEMMA GrowShard ==
  ASSUME PlanInv, TakeDocument, Opened(Document.shard)
  PROVE  PlanInv'
<1>0. PICK x, n : x = Document.shard /\ n = read + 1
  OBVIOUS
<1> USE <1>0
<1>1. /\ read < Len(file) /\ read' = n /\ file' = file
      /\ order' = order /\ offsets' = offsets
      /\ groups' = [groups EXCEPT ![x] = Append(@, Document)]
      /\ x \in DOMAIN groups /\ Last(order) = x /\ x # Unset
  BY DEF TakeDocument, Opened, Reopens
<1>2. n \in 1 .. Len(file) /\ Document = file[n] /\ file[n].shard = x /\ read \in Nat
  BY <1>1, NextDocument
<1>3. PICK a, b \in 1 .. read : RunOf(x, a, b)
  BY <1>1 DEF PlanInv, GroupsAreRuns
<1>4. file[read].shard = x /\ read \in 1 .. read
  BY <1>1, <1>2, <1>3 DEF PlanInv, LastIsOpen
<1>5. b = read
  BY <1>3, <1>4, <1>2 DEF RunOf
<1>6. \A i \in 1 .. n : i \in 1 .. read \/ i = n
  BY <1>2
<1>7. RunOf(x, a, n)'
  <2>1. a \in 1 .. n /\ n \in 1 .. n /\ a <= n
    BY <1>2, <1>3
  <2>2. ASSUME NEW i \in 1 .. n
        PROVE  file[i].shard = x <=> i \in a .. n
    BY <1>2, <1>3, <1>5, <1>6 DEF RunOf
  <2>3. groups'[x] = SubSeq(file, a, n)
    <3>1. groups'[x] = Append(SubSeq(file, a, read), Document)
      BY <1>1, <1>3, <1>5 DEF RunOf
    <3>2. file \in Seq(Row) /\ a \in Nat \ {0} /\ a <= read + 1
      BY <1>2, <1>3 DEF PlanInv, Reading
    <3>3. QED
      BY <1>1, <1>2, <3>1, <3>2, SubSeqExtend
  <2>4. offsets[x] = Tokens(SubSeq(file, 1, a - 1))
    BY <1>3 DEF RunOf
  <2>5. QED
    BY <1>1, <2>1, <2>2, <2>3, <2>4 DEF RunOf
<1>8. ASSUME NEW s \in DOMAIN groups, s # x
      PROVE  \E c, d \in 1 .. n : RunOf(s, c, d)'
  <2>1. PICK c, d \in 1 .. read : RunOf(s, c, d)
    BY DEF PlanInv, GroupsAreRuns
  <2>2. c \in 1 .. n /\ d \in 1 .. n /\ n \notin c .. d
    BY <1>2
  <2>3. groups'[s] = groups[s]
    BY <1>1, <1>8
  <2>4. RunOf(s, c, d)'
    BY <1>1, <1>2, <1>6, <1>8, <2>1, <2>2, <2>3 DEF RunOf
  <2>5. QED
    BY <2>2, <2>4
<1>9. GroupsAreRuns'
  <2>1. DOMAIN groups' = DOMAIN groups
    BY <1>1
  <2>2. \A i \in 1 .. n : file[i].shard \in DOMAIN groups
    BY <1>1, <1>2, <1>6 DEF PlanInv, GroupsAreRuns
  <2>3. \A s \in DOMAIN groups : s \in Nat /\ \E c, d \in 1 .. n : RunOf(s, c, d)'
    <3>1. a \in 1 .. n /\ n \in 1 .. n
      BY <1>2
    <3>2. QED
      BY <1>7, <1>8, <3>1 DEF PlanInv, GroupsAreRuns
  <2>4. QED
    BY <1>1, <2>1, <2>2, <2>3 DEF PlanInv, GroupsAreRuns
<1>10. LastIsOpen'
  BY <1>1, <1>2, <1>4 DEF PlanInv, LastIsOpen
<1>11. QED
  BY <1>9, <1>10, TakeReading DEF PlanInv

(* A document of a shard not seen before opens a run of its own.           *)
LEMMA OpenShard ==
  ASSUME PlanInv, TakeDocument, ~Opened(Document.shard)
  PROVE  PlanInv'
<1>0. PICK x, n : x = Document.shard /\ n = read + 1
  OBVIOUS
<1> USE <1>0
<1>1. /\ read < Len(file) /\ read' = n /\ file' = file
      /\ order' = Append(order, x)
      /\ groups' = Extend(groups, x, <<Document>>)
      /\ offsets' = Extend(offsets, x, running)
      /\ x \notin DOMAIN groups /\ x # Unset
  BY DEF TakeDocument, Opened, OffsetOf
<1>2. /\ n \in 1 .. Len(file) /\ Document = file[n] /\ file[n].shard = x /\ read \in Nat
      /\ x \in Nat /\ file \in Seq(Row)
  BY <1>1, NextDocument DEF PlanInv, Reading
<1>3. /\ DOMAIN groups' = DOMAIN groups \union {x}
      /\ DOMAIN offsets' = DOMAIN groups \union {x}
      /\ groups'[x] = <<Document>> /\ offsets'[x] = running
      /\ \A s \in DOMAIN groups : groups'[s] = groups[s] /\ offsets'[s] = offsets[s]
  BY <1>1 DEF Extend, PlanInv, GroupsAreRuns
<1>4. \A i \in 1 .. n : i \in 1 .. read \/ i = n
  BY <1>2
<1>5. RunOf(x, n, n)'
  <2>1. n \in 1 .. n /\ n - 1 = read /\ n <= n
    BY <1>2
  <2>2. ASSUME NEW i \in 1 .. n
        PROVE  file[i].shard = x <=> i \in n .. n
    <3>1. CASE i = n
      BY <1>2, <3>1
    <3>2. CASE i \in 1 .. read
      <4>1. file[i].shard \in DOMAIN groups
        BY <3>2 DEF PlanInv, GroupsAreRuns
      <4>2. i \notin n .. n
        BY <1>2, <3>2
      <4>3. QED
        BY <1>1, <4>1, <4>2
    <3>3. QED
      BY <1>4, <3>1, <3>2
  <2>3. <<Document>> = SubSeq(file, n, n)
    <3>1. PICK q : q = SubSeq(file, n, n)
      OBVIOUS
    <3>2. q \in Seq(Row) /\ Len(q) = 1 /\ q[1] = Document
      <4>1. /\ SubSeq(file, n, n) \in Seq(Row) /\ Len(SubSeq(file, n, n)) = n - n + 1
            /\ \A i \in 1 .. n - n + 1 : SubSeq(file, n, n)[i] = file[n + i - 1]
        BY <1>2, SubSeqProperties
      <4>2. n - n + 1 = 1 /\ n + 1 - 1 = n
        BY <1>2
      <4>3. QED
        BY <1>2, <3>1, <4>1, <4>2
    <3>3. q = <<Document>>
      BY <3>2
    <3>4. QED
      BY <3>1, <3>3
  <2>4. running = Tokens(SubSeq(file, 1, n - 1))
    BY <2>1 DEF PlanInv, Reading
  <2>5. groups'[x] = SubSeq(file', n, n) /\ offsets'[x] = Tokens(SubSeq(file', 1, n - 1))
    BY <1>1, <1>3, <2>3, <2>4
  <2>6. QED
    BY <1>1, <2>1, <2>2, <2>5 DEF RunOf
<1>6. ASSUME NEW s \in DOMAIN groups
      PROVE  \E c, d \in 1 .. n : RunOf(s, c, d)'
  <2>1. PICK c, d \in 1 .. read : RunOf(s, c, d)
    BY DEF PlanInv, GroupsAreRuns
  <2>2. c \in 1 .. n /\ d \in 1 .. n /\ n \notin c .. d /\ s # x
    BY <1>1, <1>2
  <2>3. RunOf(s, c, d)'
    BY <1>1, <1>2, <1>3, <1>4, <2>1, <2>2 DEF RunOf
  <2>4. QED
    BY <2>2, <2>3
<1>7. GroupsAreRuns'
  <2>1. \A i \in 1 .. n : file[i].shard \in DOMAIN groups'
    BY <1>2, <1>3, <1>4 DEF PlanInv, GroupsAreRuns
  <2>2. \A s \in DOMAIN groups' : s \in Nat /\ \E c, d \in 1 .. n : RunOf(s, c, d)'
    <3>1. n \in 1 .. n
      BY <1>2
    <3>2. QED
      BY <1>2, <1>3, <1>5, <1>6, <3>1 DEF PlanInv, GroupsAreRuns
  <2>3. IsFiniteSet(DOMAIN groups')
    BY <1>3, FS_AddElement DEF PlanInv, GroupsAreRuns
  <2>4. QED
    BY <1>1, <1>3, <2>1, <2>2, <2>3 DEF GroupsAreRuns
<1>8. LastIsOpen'
  <2>1. order \in Seq(Nat) /\ ToSet(order) = DOMAIN groups
        /\ Len(order) = Cardinality(DOMAIN groups)
    BY DEF PlanInv, LastIsOpen
  <2>2. order' \in Seq(Nat) /\ Len(order') = Len(order) + 1 /\ order' # <<>> /\ Last(order') = x
    BY <1>1, <1>2, <2>1 DEF Last
  <2>3. ToSet(order') = ToSet(order) \union {x}
    <3>1. /\ \A i \in 1 .. Len(order) : order'[i] = order[i]
          /\ order'[Len(order) + 1] = x
          /\ DOMAIN order = 1 .. Len(order) /\ DOMAIN order' = 1 .. Len(order) + 1
      BY <1>1, <1>2, <2>1
    <3>2. QED
      BY <2>1, <3>1 DEF ToSet
  <2>4. Cardinality(DOMAIN groups') = Cardinality(DOMAIN groups) + 1
    <3>1. IsFiniteSet(DOMAIN groups)
      BY DEF PlanInv, GroupsAreRuns
    <3>2. Cardinality(DOMAIN groups \union {x}) = Cardinality(DOMAIN groups) + 1
      BY <1>1, <3>1, FS_AddElement
    <3>3. QED
      BY <1>3, <3>2
  <2>5. QED
    BY <1>1, <1>2, <1>3, <2>1, <2>2, <2>3, <2>4 DEF LastIsOpen
<1>9. QED
  BY <1>7, <1>8, TakeReading DEF PlanInv

LEMMA FinishStep ==
  ASSUME PlanInv, FinishPlan
  PROVE  PlanInv'
<1> DEFINE S == DOMAIN groups
           n == Cardinality(S)
           ids == Ascending(S)
<1>1. S \in SUBSET Int /\ IsFiniteSet(S)
  BY DEF PlanInv, GroupsAreRuns
<1>2. /\ n \in Nat /\ ids \in [1 .. n -> S]
      /\ \A j, k \in 1 .. n : j < k => ids[j] < ids[k]
      /\ \A s \in S : \E k \in 1 .. n : ids[k] = s
  <2> HIDE DEF S
  <2>1. QED
    BY <1>1, Ascends
<1>3. UNCHANGED <<file, read, groups, order, offsets, running>>
  BY DEF FinishPlan
<1>4. /\ stage' = "planned" /\ file # <<>> /\ read = Len(file)
      /\ plans' = [k \in 1 .. n |-> PlanOf(ids[k])]
  BY DEF FinishPlan
<1>5. Reading' /\ ReadIsUsable' /\ LastIsOpen' /\ RefusalsHaveReasons'
  BY <1>3, <1>4 DEF PlanInv, Reading, ReadIsUsable, LastIsOpen, RefusalsHaveReasons, Refusals
<1>6. GroupsAreRuns'
  BY <1>3 DEF PlanInv, GroupsAreRuns, RunOf
<1>7. PlansAreGroups'
  <2>1. \A s : PlanOf(s)' = PlanOf(s) /\ PlanOf(s).shard = s
    BY <1>3 DEF PlanOf
  <2>2. DOMAIN plans' = 1 .. n /\ DOMAIN groups' = S /\ n = Cardinality(DOMAIN groups')
    BY <1>3, <1>4
  <2> HIDE DEF n, S, ids
  <2>3. \A k \in 1 .. n : plans'[k] = PlanOf(ids[k]) /\ ids[k] \in S
    BY <1>2, <1>4
  <2>4. \A k \in 1 .. n : plans'[k].shard = ids[k]
    BY <2>1, <2>3
  <2>5. \A k \in 1 .. n : \E s \in S : plans'[k] = PlanOf(s)'
    BY <2>1, <2>3
  <2>6. \A s \in S : \E k \in 1 .. n : plans'[k].shard = s
    BY <1>2, <2>4
  <2>7. \A j, k \in 1 .. n : j < k => plans'[j].shard < plans'[k].shard
    BY <1>2, <2>4
  <2>8. QED
    BY <1>3, <1>4, <2>2, <2>5, <2>6, <2>7 DEF PlansAreGroups
<1>8. QED
  BY <1>5, <1>6, <1>7 DEF PlanInv

-----------------------------------------------------------------------------
(* The theorems.                                                           *)

LEMMA PlanInvNext ==
  ASSUME PlanInv, [Next]_planVars
  PROVE  PlanInv'
<1>1. CASE TakeDocument
  BY <1>1, GrowShard, OpenShard
<1>2. CASE FinishPlan
  BY <1>2, FinishStep
<1>3. CASE UNCHANGED planVars
  BY <1>3, PlanInvStutter
<1>4. QED
  BY <1>1, <1>2, <1>3, RefuseSteps DEF Next

(* The invariant of plan_shards' loop holds at every document of every     *)
(* file.                                                                   *)
THEOREM PlanInvariant == Spec => []PlanInv
<1>1. Init => PlanInv
  <2>1. SUFFICES ASSUME Init PROVE PlanInv
    OBVIOUS
  <2>2. file \in Seq(Row)
    BY <2>1, PlanAssumption DEF Init, PlanAssumption
  <2>3. QED
    BY <2>1, <2>2, PlanInvInit DEF Init, Refusals
<1>2. PlanInv /\ [Next]_planVars => PlanInv'
  BY PlanInvNext
<1>3. QED
  BY <1>1, <1>2, PTL DEF Spec

(* Documents and offsets of every shard opened.                            *)
LEMMA GroupsType ==
  ASSUME PlanInv, NEW s \in DOMAIN groups
  PROVE  groups[s] \in Seq(Row) /\ offsets[s] \in Nat
<1>1. PICK a, b \in 1 .. read : RunOf(s, a, b)
  BY DEF PlanInv, GroupsAreRuns
<1>2. file \in Seq(Row) /\ read \in 0 .. Len(file)
  BY DEF PlanInv, Reading
<1>3. SubSeq(file, a, b) \in Seq(Row) /\ SubSeq(file, 1, a - 1) \in Seq(Row)
  BY <1>1, <1>2, SubSeqProperties
<1>4. QED
  BY <1>1, <1>3, TokensType DEF RunOf

(* What plan_shards keeps is well typed.                                   *)
THEOREM PlanTyped == Spec => []TypeOK
<1>1. PlanInv => TypeOK
  BY GroupsType DEF PlanInv, TypeOK, Reading, GroupsAreRuns, LastIsOpen
<1>2. QED
  BY <1>1, PlanInvariant, PTL

(* The documents of a shard are those between the first and the last.      *)
LEMMA RunRows ==
  ASSUME PlanInv, NEW s \in DOMAIN groups, NEW a, NEW b, RunOf(s, a, b)
  PROVE  /\ \A i \in a .. b : file[i] \in ToSet(groups[s])
         /\ \A row \in ToSet(groups[s]) : row.shard = s
<1>1. file \in Seq(Row) /\ read \in 0 .. Len(file)
  BY DEF PlanInv, Reading
<1>2. a \in 1 .. read /\ b \in 1 .. read /\ a <= b /\ groups[s] = SubSeq(file, a, b)
  BY DEF RunOf
<1>3. /\ groups[s] \in Seq(Row) /\ Len(groups[s]) = b - a + 1
      /\ \A i \in 1 .. b - a + 1 : groups[s][i] = file[a + i - 1]
  BY <1>1, <1>2, SubSeqProperties
<1>4. DOMAIN groups[s] = 1 .. b - a + 1
  BY <1>3
<1>5. ASSUME NEW i \in a .. b
      PROVE  file[i] \in ToSet(groups[s])
  <2>1. i - a + 1 \in 1 .. b - a + 1 /\ a + (i - a + 1) - 1 = i
    BY <1>2
  <2>2. groups[s][i - a + 1] = file[i]
    BY <1>3, <2>1
  <2>3. QED
    BY <1>4, <2>1, <2>2 DEF ToSet
<1>6. ASSUME NEW i \in 1 .. b - a + 1
      PROVE  groups[s][i].shard = s
  <2>1. a + i - 1 \in a .. b /\ a + i - 1 \in 1 .. read
    BY <1>1, <1>2
  <2>2. QED
    BY <1>3, <2>1 DEF RunOf
<1>7. QED
  BY <1>4, <1>5, <1>6 DEF ToSet

(* A corpus file is planned exactly when no document lacks a shard, is a   *)
(* duplicate or reopens a shard (plan_shards' refusals).                   *)
THEOREM PlannedExactlyUsable == Spec => []PlannedIffUsable
<1>1. PlanInv => PlannedIffUsable
  <2>1. SUFFICES ASSUME PlanInv, stage = "planned"
                 PROVE  Usable
    BY DEF PlanInv, Reading, RefusalsHaveReasons, PlannedIffUsable, Refusals
  <2>2. file # <<>> /\ read = Len(file) /\ file \in Seq(Row) /\ DOMAIN file = 1 .. read
    BY <2>1 DEF PlanInv, PlansAreGroups, Reading
  <2>3. ASSUME NEW i \in DOMAIN file, NEW j \in DOMAIN file, i < j,
               file[i].shard = file[j].shard, NEW k \in i .. j
        PROVE  file[k].shard = file[i].shard
    <3>1. PICK a, b \in 1 .. read : RunOf(file[i].shard, a, b)
      BY <2>1, <2>2 DEF PlanInv, GroupsAreRuns
    <3>2. i \in a .. b /\ j \in a .. b
      BY <2>2, <2>3, <3>1 DEF RunOf
    <3>3. k \in a .. b /\ k \in 1 .. read
      BY <2>2, <3>1, <3>2
    <3>4. QED
      BY <3>1, <3>3 DEF RunOf
  <2>4. QED
    BY <2>1, <2>2, <2>3 DEF Usable, PlanInv, ReadIsUsable
<1>2. QED
  BY <1>1, PlanInvariant, PTL

LEMMA TilesFromInv == PlanInv => PlansTileCorpus
<1>1. SUFFICES ASSUME PlanInv, stage = "planned"
               PROVE  PlansTileCorpus
  BY DEF PlansTileCorpus
<1>2. /\ read = Len(file) /\ file \in Seq(Row) /\ DOMAIN file = 1 .. read
      /\ \A k \in DOMAIN plans : \E s \in DOMAIN groups : plans[k] = PlanOf(s)
      /\ \A s \in DOMAIN groups : \E k \in DOMAIN plans : plans[k].shard = s
      /\ \A j, k \in DOMAIN plans : j < k => plans[j].shard < plans[k].shard
      /\ \A s \in DOMAIN groups : s \in Nat
  BY <1>1 DEF PlanInv, PlansAreGroups, Reading, GroupsAreRuns
<1>3. ASSUME NEW s \in DOMAIN groups
      PROVE  /\ PlanOf(s).shard = s /\ PlanOf(s).docs = groups[s]
             /\ PlanOf(s).offset = offsets[s] /\ PlanOf(s).tokens = Tokens(groups[s])
  BY DEF PlanOf
<1>4. \A s \in DOMAIN groups : \E a, b \in 1 .. read : RunOf(s, a, b)
  BY <1>1 DEF PlanInv, GroupsAreRuns
<1>5. ASSUME NEW k \in DOMAIN plans
      PROVE  \E a, b \in DOMAIN file :
               /\ plans[k].docs = SubSeq(file, a, b)
               /\ plans[k].offset = Tokens(SubSeq(file, 1, a - 1))
               /\ plans[k].tokens = Tokens(SubSeq(file, a, b))
  <2>1. PICK s \in DOMAIN groups : plans[k] = PlanOf(s)
    BY <1>2
  <2>2. PICK a, b \in 1 .. read : RunOf(s, a, b)
    BY <1>4
  <2>3. /\ groups[s] = SubSeq(file, a, b)
        /\ offsets[s] = Tokens(SubSeq(file, 1, a - 1))
    BY <2>2 DEF RunOf
  <2>4. /\ plans[k].docs = SubSeq(file, a, b)
        /\ plans[k].offset = Tokens(SubSeq(file, 1, a - 1))
        /\ plans[k].tokens = Tokens(SubSeq(file, a, b))
    BY <1>3, <2>1, <2>3
  <2>5. a \in DOMAIN file /\ b \in DOMAIN file
    BY <1>2
  <2>6. QED
    BY <2>4, <2>5
<1>6. ASSUME NEW i \in DOMAIN file
      PROVE  \E k \in DOMAIN plans : file[i] \in ToSet(plans[k].docs)
  <2>1. file[i].shard \in DOMAIN groups /\ i \in 1 .. read
    BY <1>1, <1>2 DEF PlanInv, GroupsAreRuns
  <2>2. PICK a, b \in 1 .. read : RunOf(file[i].shard, a, b)
    BY <1>4, <2>1
  <2>3. file[i] \in ToSet(groups[file[i].shard])
    <3>1. i \in a .. b
      BY <2>1, <2>2 DEF RunOf
    <3>2. QED
      BY <1>1, <2>1, <2>2, <3>1, RunRows
  <2>4. PICK k \in DOMAIN plans : plans[k].shard = file[i].shard
    BY <1>2, <2>1
  <2>5. plans[k].docs = groups[file[i].shard]
    BY <1>2, <1>3, <2>4
  <2>6. QED
    BY <2>3, <2>5
<1>7. ASSUME NEW j \in DOMAIN plans, NEW k \in DOMAIN plans, j < k
      PROVE  ToSet(plans[j].docs) \intersect ToSet(plans[k].docs) = {}
  <2>1. PICK s \in DOMAIN groups : plans[j] = PlanOf(s)
    BY <1>2
  <2>2. PICK t \in DOMAIN groups : plans[k] = PlanOf(t)
    BY <1>2
  <2>3. s # t
    BY <1>2, <1>3, <1>7, <2>1, <2>2
  <2>4. \A row \in ToSet(groups[s]) : row.shard = s
    BY <1>1, <1>4, RunRows
  <2>5. \A row \in ToSet(groups[t]) : row.shard = t
    BY <1>1, <1>4, RunRows
  <2>6. QED
    BY <1>3, <2>1, <2>2, <2>3, <2>4, <2>5
<1>8. QED
  BY <1>5, <1>6, <1>7 DEF PlansTileCorpus

(* The plans cut the corpus into runs without a gap or an overlap, each    *)
(* with the token offset at which it begins (ref_token_offset).            *)
THEOREM PlansTile == Spec => []PlansTileCorpus
BY TilesFromInv, PlanInvariant, PTL
=============================================================================
