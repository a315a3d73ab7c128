----------------------------- MODULE ShardPlan ------------------------------
(***************************************************************************)
(* plan_shards (src/runtime/runner.py): the corpus file, read document by  *)
(* document and cut into the shards that are captured, uploaded and        *)
(* recorded one at a time.                                                 *)
(***************************************************************************)
EXTENDS Sorting, SequencesExt

CONSTANTS
  Files,      (* The corpus files planned: sequences of rows.              *)
  Subsample,  (* subsample_n: tokens wanted with a hidden state, 0 if none.*)
  Unset       (* The shard_id of a document that was never sharded.        *)

Row == [id : Nat, shard : Nat \union {Unset}, tokens : Nat \ {0}]

ASSUME PlanAssumption ==
  /\ Files \subseteq Seq(Row)
  /\ Subsample \in Nat
  /\ Unset \notin Nat

VARIABLES
  stage,      (* "plan" until the plans are there or the file is refused.  *)
  file,       (* load_corpus: the documents in corpus order.               *)
  read,       (* Documents taken so far.                                   *)
  groups,     (* The documents of each shard seen.                         *)
  order,      (* The shards seen, in corpus order.                         *)
  offsets,    (* Reference tokens before the first document of each shard. *)
  running,    (* Reference tokens so far.                                  *)
  plans       (* The result, by shard.                                     *)

planVars == <<stage, file, read, groups, order, offsets, running, plans>>

NothingRead ==
  /\ read = 0
  /\ groups = <<>>
  /\ order = <<>>
  /\ offsets = <<>>
  /\ running = 0
  /\ plans = <<>>

Init ==
  /\ stage = "plan"
  /\ file \in Files
  /\ NothingRead

-----------------------------------------------------------------------------
Tokens(rows) == FoldLeft(LAMBDA sum, row : sum + row.tokens, 0, rows)

Document == file[read + 1]

\* MUTANT: only the shard being filled counts as opened.
OpenedLast(shard) == order # <<>> /\ Last(order) = shard

Opened(shard) == shard \in DOMAIN groups

IsDuplicate(row) == \E i \in 1 .. read : file[i].id = row.id

\* MUTANT: a shard may be opened again later in the file.
ReopensNever(row) == FALSE

Reopens(row) == Opened(row.shard) /\ Last(order) # row.shard

\* MUTANT: the shard's first document counted before the offset is taken.
OffsetAfter(row) == running + row.tokens

OffsetOf(row) == running

Refuse(reason) ==
  /\ stage' = reason
  /\ UNCHANGED <<file, read, groups, order, offsets, running, plans>>

RefuseEmpty == stage = "plan" /\ file = <<>> /\ Refuse("empty")

RefuseUnsharded ==
  /\ stage = "plan"
  /\ read < Len(file)
  /\ Document.shard = Unset
  /\ Refuse("unsharded")

RefuseDuplicate ==
  /\ stage = "plan"
  /\ read < Len(file)
  /\ Document.shard # Unset
  /\ IsDuplicate(Document)
  /\ Refuse("duplicate")

RefuseReopened ==
  /\ stage = "plan"
  /\ read < Len(file)
  /\ Document.shard # Unset
  /\ ~IsDuplicate(Document)
  /\ Reopens(Document)
  /\ Refuse("reopened")

Extend(f, x, v) == [y \in DOMAIN f \union {x} |-> IF y = x THEN v ELSE f[y]]

(* A document joins the shard being filled, or opens the next one.         *)
TakeDocument ==
  /\ stage = "plan"
  /\ read < Len(file)
  /\ Document.shard # Unset
  /\ ~IsDuplicate(Document)
  /\ ~Reopens(Document)
  /\ IF Opened(Document.shard)
     THEN /\ groups' = [groups EXCEPT ![Document.shard] = Append(@, Document)]
          /\ UNCHANGED <<order, offsets>>
     ELSE /\ groups' = Extend(groups, Document.shard, <<Document>>)
          /\ offsets' = Extend(offsets, Document.shard, OffsetOf(Document))
          /\ order' = Append(order, Document.shard)
  /\ read' = read + 1
  /\ running' = running + Document.tokens
  /\ UNCHANGED <<stage, file, plans>>

(* hidden_stride_for.                                                      *)
StrideFor(total) ==
  IF Subsample = 0
  THEN 0
  ELSE IF total < Subsample THEN 1 ELSE total \div Subsample

PlanOf(s) ==
  [shard  |-> s,
   docs   |-> groups[s],
   offset |-> offsets[s],
   tokens |-> Tokens(groups[s]),
   stride |-> StrideFor(running)]

(* The plans, in the order of their shard ids whatever the corpus order.   *)
FinishPlan ==
  /\ stage = "plan"
  /\ file # <<>>
  /\ read = Len(file)
  /\ plans' = [k \in 1 .. Cardinality(DOMAIN groups) |-> PlanOf(Ascending(DOMAIN groups)[k])]
  /\ stage' = "planned"
  /\ UNCHANGED <<file, read, groups, order, offsets, running>>

Next ==
  \/ RefuseEmpty
  \/ RefuseUnsharded
  \/ RefuseDuplicate
  \/ RefuseReopened
  \/ TakeDocument
  \/ FinishPlan

Spec == Init /\ [][Next]_planVars

-----------------------------------------------------------------------------
(* Properties                                                              *)

Refusals == {"empty", "unsharded", "duplicate", "reopened"}

TypeOK ==
  /\ stage \in {"plan", "planned"} \union Refusals
  /\ file \in Seq(Row)
  /\ read \in 0 .. Len(file)
  /\ ToSet(order) = DOMAIN groups
  /\ Len(order) = Cardinality(DOMAIN groups)
  /\ DOMAIN offsets = DOMAIN groups
  /\ \A s \in DOMAIN groups : groups[s] \in Seq(Row) /\ offsets[s] \in Nat
  /\ running = Tokens(SubSeq(file, 1, read))

(* A file is planned exactly when it is usable: every document sharded,    *)
(* under an id of its own, and no document of another shard between two of *)
(* the same (plan_shards, its three refusals).                             *)
Usable ==
  /\ file # <<>>
  /\ \A i \in DOMAIN file : file[i].shard # Unset
  /\ \A i, j \in DOMAIN file : file[i].id = file[j].id => i = j
  /\ \A i, j \in DOMAIN file :
       i < j /\ file[i].shard = file[j].shard =>
         \A k \in i .. j : file[k].shard = file[i].shard

PlannedIffUsable == stage # "plan" => (stage = "planned" <=> Usable)

(* The plans tile the corpus: each is a run of consecutive documents, its  *)
(* offset the tokens before it, and together they hold every document once *)
(* (ShardPlan: ref_token_offset).                                          *)
PlansTileCorpus ==
  stage = "planned" =>
    /\ \A k \in DOMAIN plans : \E a, b \in DOMAIN file :
         /\ plans[k].docs = SubSeq(file, a, b)
         /\ plans[k].offset = Tokens(SubSeq(file, 1, a - 1))
         /\ plans[k].tokens = Tokens(SubSeq(file, a, b))
    /\ \A i \in DOMAIN file :
         \E k \in DOMAIN plans : file[i] \in ToSet(plans[k].docs)
    /\ \A j, k \in DOMAIN plans :
         j < k => ToSet(plans[j].docs) \intersect ToSet(plans[k].docs) = {}
=============================================================================
