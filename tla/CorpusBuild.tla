---------------------------- MODULE CorpusBuild -----------------------------
(***************************************************************************)
(* build() and write_corpus (src/corpus/build.py), and plan_shards         *)
(* (ShardPlan) on the file they write.                                     *)
(*                                                                         *)
(* The documents come with ids in the order they were fetched.  They are   *)
(* split, interleaved so that every prefix of the corpus has about the     *)
(* composition of the whole, and cut greedily into shards.  The hashes     *)
(* that order the documents of a stratum are any permutation of them.      *)
(***************************************************************************)
EXTENDS SplitAllocation, SequencesExt

CONSTANTS
  NDocs,         (* Documents fetched: ids 0 .. NDocs - 1.                 *)
  NStrata,       (* (domain, lang) pairs, in the order of their keys.      *)
  Strata,        (* The assignments of documents to strata looked at.      *)
  Lengths,       (* The n_tokens_ref looked at.                            *)
  MaxDocTokens,  (* max_doc_tokens.                                        *)
  ShardTokens,   (* shard_tokens.                                          *)
  NCtx,          (* ctx_size of the captures.                              *)
  MaxStratum,    (* Bounds a check: the largest stratum allocated.         *)
  Subsample,     (* subsample_n.                                           *)
  Unset          (* A shard or a split not assigned yet.                   *)

Docs == 0 .. NDocs - 1

Keys == 1 .. NStrata

ASSUME BuildAssumption ==
  /\ NDocs \in Nat \ {0}
  /\ Strata \subseteq [Docs -> Keys]
  /\ Lengths \subseteq Nat
  /\ MaxDocTokens \in Nat \ {0}
  /\ ShardTokens \in Nat /\ ShardTokens >= MaxDocTokens
  /\ NCtx \in Nat /\ NCtx >= MaxDocTokens
  /\ MaxStratum \in Nat
  /\ Subsample \in Nat
  /\ Unset \notin Nat /\ Unset \notin Splits

VARIABLES
  stage,         (* How far build() is, and then how far plan_shards is.   *)
  stratum,       (* The stratum of each document.                          *)
  length,        (* n_tokens_ref of each document.                         *)
  split,         (* The split of each document.                            *)
  queue,         (* Per stratum, the documents in hash order.              *)
  cursor,        (* Per stratum, documents emitted.                        *)
  emitted,       (* Per stratum, tokens emitted.                           *)
  out,           (* The documents in write order.                          *)
  shardOf,       (* The shard ids assigned so far, along out.              *)
  shard, used,   (* The shard being filled, and its tokens.                *)
  file, read, groups, order, offsets, running, plans

buildVars == <<stratum, length, split, queue, cursor, emitted, out, shardOf,
               shard, used>>

vars == <<stage, stratum, length, split, queue, cursor, emitted, out, shardOf,
          shard, used, file, read, groups, order, offsets, running, plans>>

Plan == INSTANCE ShardPlan WITH Files <- {}

planVars == <<file, read, groups, order, offsets, running, plans>>

Members(k) == {d \in Docs : stratum[d] = k}

Init ==
  /\ stage = "check"
  /\ stratum \in Strata
  /\ length \in [Docs -> Lengths]
  /\ split = [d \in Docs |-> Unset]
  /\ queue = [k \in Keys |-> <<>>]
  /\ cursor = [k \in Keys |-> 0]
  /\ emitted = [k \in Keys |-> 0]
  /\ out = <<>>
  /\ shardOf = <<>>
  /\ shard = 0
  /\ used = 0
  /\ file = <<>>
  /\ Plan!NothingRead

-----------------------------------------------------------------------------
(* The documents of each stratum in the order of some hash (_strata).      *)
HashOrders ==
  {q \in [Keys -> UNION {SetToSeqs(Members(k)) : k \in Keys}] :
     \A k \in Keys : q[k] \in SetToSeqs(Members(k))}

Unusable(d) == length[d] = 0 \/ length[d] > MaxDocTokens

RefuseDocuments ==
  /\ stage = "check"
  /\ \E d \in Docs : Unusable(d)
  /\ stage' = "invalid"
  /\ UNCHANGED <<buildVars, planVars>>

\* MUTANT: the cut after val counted from the start of the stratum.
SplitFromStart(n, i) ==
  LET alloc == Allocate(n)
  IN  CASE i <= alloc["train"] -> "train"
        [] i > alloc["train"] /\ i <= alloc["val"] -> "val"
        [] OTHER -> "test"

(* assign_splits: the first documents of a stratum are its train split,    *)
(* the next its val split, the rest its test split.                        *)
SplitAt(n, i) ==
  LET alloc == Allocate(n)
  IN  CASE i <= alloc["train"]                -> "train"
        [] i \in alloc["train"] + 1 .. alloc["train"] + alloc["val"] -> "val"
        [] OTHER                              -> "test"

AssignSplits ==
  /\ stage = "check"
  /\ \A d \in Docs : ~Unusable(d)
  /\ \E q \in HashOrders :
       split' = [d \in Docs |->
                   LET members == q[stratum[d]]
                   IN  SplitAt(Len(members),
                               CHOOSE i \in DOMAIN members : members[i] = d)]
  /\ stage' = "split"
  /\ UNCHANGED <<stratum, length, queue, cursor, emitted, out, shardOf, shard,
                 used, planVars>>

OrderStrata ==
  /\ stage = "split"
  /\ queue' \in HashOrders
  /\ stage' = "interleave"
  /\ UNCHANGED <<stratum, length, split, cursor, emitted, out, shardOf, shard,
                 used, planVars>>

-----------------------------------------------------------------------------
(* interleave_documents.                                                   *)

Total(k) == IF Members(k) = {} THEN 1 ELSE SumFunctionOnSet(length, Members(k))

Live == {k \in Keys : cursor[k] < Len(queue[k])}

\* MUTANT: the fewest tokens so far, not the smallest fraction.
FewestTokens(k, l) == emitted[k] < emitted[l] \/ (emitted[k] = emitted[l] /\ k <= l)

(* Stratum k has delivered a smaller fraction of its tokens than l, or as  *)
(* much and its key comes first.                                           *)
Before(k, l) ==
  \/ emitted[k] * Total(l) < emitted[l] * Total(k)
  \/ emitted[k] * Total(l) = emitted[l] * Total(k) /\ k <= l

EmitDocument ==
  /\ stage = "interleave"
  /\ \E k \in Live :
       LET d == queue[k][cursor[k] + 1]
       IN  /\ \A l \in Live : Before(k, l)
           /\ cursor' = [cursor EXCEPT ![k] = @ + 1]
           /\ emitted' = [emitted EXCEPT ![k] = @ + length[d]]
           /\ out' = Append(out, d)
  /\ stage' = IF Len(out') = NDocs THEN "shard" ELSE "interleave"
  /\ UNCHANGED <<stratum, length, split, queue, shardOf, shard, used, planVars>>

-----------------------------------------------------------------------------
(* assign_shards: greedy fill, never splitting a document.                 *)

\* MUTANT: a shard is closed once it is past the target.
OverAlready(n) == used > ShardTokens

Overflows(n) == used > 0 /\ used + n > ShardTokens

\* MUTANT: a shard that is exactly full stays open.
Overfull(n) == n > ShardTokens

Full(n) == n >= ShardTokens

AssignShard ==
  /\ stage = "shard"
  /\ LET n    == length[out[Len(shardOf) + 1]]
         this == IF Overflows(n) THEN shard + 1 ELSE shard
         now  == IF Overflows(n) THEN n ELSE used + n
     IN  /\ shardOf' = Append(shardOf, this)
         /\ IF Full(now)
            THEN shard' = this + 1 /\ used' = 0
            ELSE shard' = this /\ used' = now
  /\ stage' = IF Len(shardOf') = NDocs THEN "write" ELSE "shard"
  /\ UNCHANGED <<stratum, length, split, queue, cursor, emitted, out, planVars>>

\* MUTANT: the rows written in the order of their ids.
RowsById ==
  [i \in DOMAIN out |-> LET at == CHOOSE j \in DOMAIN out : out[j] = i - 1
                        IN  [id |-> i - 1, shard |-> shardOf[at], tokens |-> length[i - 1]]]

(* write_corpus, and load_corpus at the start of a collection.  Documents  *)
(* keep the ids they were fetched under.                                   *)
CorpusRows ==
  [i \in DOMAIN out |-> [id |-> out[i], shard |-> shardOf[i], tokens |-> length[out[i]]]]

WriteCorpus ==
  /\ stage = "write"
  /\ file' = CorpusRows
  /\ stage' = "plan"
  /\ UNCHANGED <<buildVars, read, groups, order, offsets, running, plans>>

PlanShards == Plan!Next /\ UNCHANGED buildVars

Next ==
  \/ RefuseDocuments
  \/ AssignSplits
  \/ OrderStrata
  \/ EmitDocument
  \/ AssignShard
  \/ WriteCorpus
  \/ PlanShards

Spec == Init /\ [][Next]_vars

-----------------------------------------------------------------------------
(* The trace the shards make when every document has as many tokens as     *)
(* its reference count (moe_trace.cpp, capture; reader.py,                 *)
(* _hidden_token_ids).                                                     *)

DocIndex(row, stride) ==
  LET all == [i \in 1 .. row.tokens |-> row.id * NCtx + i - 1]
  IN  SelectSeq(all, LAMBDA x : stride > 0 /\ x % stride = 0)

ShardIndex(plan) ==
  FoldLeft(LAMBDA acc, row : acc \o DocIndex(row, plan.stride), <<>>, plan.docs)

HiddenTokenIds == FoldLeft(LAMBDA acc, plan : acc \o ShardIndex(plan), <<>>, plans)

-----------------------------------------------------------------------------
(* Properties                                                              *)

TypeOK ==
  /\ stage \in {"check", "invalid", "split", "interleave", "shard", "write",
                "plan", "planned"} \union Plan!Refusals
  /\ split \in [Docs -> Splits \union {Unset}]
  /\ \A k \in Keys : cursor[k] \in 0 .. Len(queue[k])
  /\ \A k \in Keys : emitted[k] \in 0 .. Total(k)
  /\ Len(out) <= NDocs
  /\ Len(shardOf) <= Len(out)
  /\ used \in 0 .. ShardTokens - 1

(* Every stratum with at least three documents has documents in each split *)
(* and no split has more than a document above its share, whatever the     *)
(* hash order (_allocate: minimum-one repair; T4.3).                       *)
SplitsCoverStrata ==
  stage \notin {"check", "invalid"} =>
    \A k \in Keys, s \in Splits :
      LET n  == Cardinality(Members(k))
          in == Cardinality({d \in Members(k) : split[d] = s})
      IN  /\ n >= 3 => in >= 1
          /\ in > 1 => (in - 1) * 100 < n * Ratio[s]

(* The same of the allocation itself, for the strata a corpus really has:  *)
(* all documents placed, a cell in every split when there are documents    *)
(* enough, and no split above its share by a document, or below it by more *)
(* than the documents the repair took (_allocate).  Looked at once, before *)
(* anything is assigned.                                                   *)
AllocationsAreFair ==
  stage = "check" => \A n \in 0 .. MaxStratum :
    LET alloc == Allocate(n)
    IN  /\ SumOf(alloc) = n
        /\ \A s \in Splits :
             /\ n >= 3 => alloc[s] >= 1
             /\ alloc[s] > 1 => (alloc[s] - 1) * 100 < n * Ratio[s]
             /\ (alloc[s] + 1) * 100 > n * Ratio[s]
                  \/ \E r \in Splits : r # s /\ LargestRemainder(n)[r] = 0

(* At every moment the strata have delivered the same fraction of their    *)
(* tokens up to one document: a collection stopped after any shard has     *)
(* about the composition of the corpus (build.py, rule 3).                 *)
Longest(k) == Max({length[d] : d \in Members(k)})

PrefixesAreRepresentative ==
  \A k, l \in Keys :
    Members(k) # {} /\ Members(l) # {} =>
      emitted[k] * Total(l) <= emitted[l] * Total(k) + Longest(k) * Total(l)

(* Shards hold whole documents up to the target, and none is closed while  *)
(* the next document would have fitted (T4.2).                             *)
ShardLoad(s) ==
  SumFunctionOnSet([i \in DOMAIN shardOf |-> length[out[i]]],
                   {i \in DOMAIN shardOf : shardOf[i] = s})

ShardsAreGreedy ==
  \A i \in DOMAIN shardOf :
    /\ ShardLoad(shardOf[i]) <= ShardTokens
    /\ i > 1 => shardOf[i] \in {shardOf[i - 1], shardOf[i - 1] + 1}
    /\ i > 1 /\ shardOf[i] > shardOf[i - 1] =>
         ShardLoad(shardOf[i - 1]) + length[out[i]] > ShardTokens

(* What build() writes, plan_shards takes, and the shards it plans are     *)
(* those build() sized (runner.py: assign_shards fills greedily, so they   *)
(* are contiguous).                                                        *)
BuiltCorpusIsPlanned ==
  /\ stage \notin Plan!Refusals
  /\ stage = "planned" =>
       /\ {plans[k].shard : k \in DOMAIN plans} = ToSet(shardOf)
       /\ \A k \in DOMAIN plans : plans[k].tokens = ShardLoad(plans[k].shard)

(***************************************************************************)
(* What the documentation says and the code does not do: the index of the  *)
(* captured tokens ascends strictly in corpus order, which is what the     *)
(* reader needs to concatenate the shards (moe_trace.cpp).                 *)
(***************************************************************************)
IndexAscendsInCorpusOrder ==
  stage = "planned" =>
    \A j, k \in DOMAIN HiddenTokenIds :
      j < k => HiddenTokenIds[j] < HiddenTokenIds[k]
=============================================================================
