-------------------------- MODULE CaptureGateProofs --------------------------
(***************************************************************************)
(* Proof that the gate of run_shard is not too tight: the capture of a     *)
(* baseline shard in which nothing went wrong is accepted, for any number  *)
(* of layers and documents, any lengths, stride and ubatch size.           *)
(***************************************************************************)
EXTENDS CaptureProofs

-----------------------------------------------------------------------------
(* What the counters of the run amount to.                                 *)

(* The totals of the writer: the documents' tokens, of which the subsample *)
(* takes one in Stride, up to a part of a block at both ends of each.      *)
TotalsTell ==
  /\ total.docs = doc - 1
  /\ total.docs <= total.tokens
  /\ Stride = 0 => total.captured = 0
  /\ Stride > 0 =>
       /\ total.tokens <= Stride * total.captured + total.docs * (Stride - 1)
       /\ Stride * total.captured <= total.tokens + total.docs * (Stride - 1)

LayoutSeen ==
  doc > 1 \/ (Decoding /\ cursor[<<"topk", 1>>] > 0) => layouts # {}

CleanSoFar ==
  /\ faults = 0
  /\ mode = "off"
  /\ \A x \in Nodes : graph[x] = "whole"
  /\ \A d \in Docs : text[d] \in 1 .. NCtx

(* Nodes the current ubatch has been captured of.                          *)
Taken == IF pc = "decode" THEN Cardinality({x \in Nodes : pending[x] = 0}) ELSE 0

DecodedTokens == total.tokens + (IF Decoding THEN at ELSE 0)

(* u ubatches have been decoded.  All are full, except the last one of a   *)
(* document.                                                               *)
UBatchesAre(u) ==
  /\ nodes = NodesPerUBatch * u + Taken
  /\ total.docs + (IF Decoding /\ at > 0 THEN 1 ELSE 0) <= u
  /\ DecodedTokens <= u * UBatch
  /\ u * UBatch <= DecodedTokens
                   + (total.docs + (IF pc = "check" THEN 1 ELSE 0)) * (UBatch - 1)

Report == [exit_code        |-> 0,
           n_docs           |-> total.docs,
           n_tokens         |-> total.tokens,
           n_captured       |-> total.captured,
           n_docs_truncated |-> truncated,
           nodes_captured   |-> nodes,
           topk_layout      |-> TopkLayout]

Reported == pc \in {"verdict", "accepted", "refused"}

CleanTells ==
  CleanSoFar =>
    /\ failed = "no" /\ truncated = 0
    /\ \E u \in Nat : UBatchesAre(u)
    /\ ~Reported => rc = 0
    /\ Reported => stats = Report /\ rc = IF TopkLayout = "mixed" THEN 10 ELSE 0

GateInv ==
  /\ TotalsTell
  /\ LayoutSeen
  /\ CleanTells
  /\ pc = "refused" => ~Acceptable

-----------------------------------------------------------------------------
(* The totals.                                                             *)

(* The positions the subsample takes of a document.                        *)
LEMMA ChosenCount ==
  ASSUME CaptureInv, Full
  PROVE  /\ Stride = 0 => Cardinality(Chosen) = 0
         /\ Stride > 0 => /\ size - (Stride - 1) <= Stride * Cardinality(Chosen)
                          /\ Stride * Cardinality(Chosen) <= size + (Stride - 1)
<1> DEFINE a == DocIds[doc] * NCtx
<1>1. a \in Nat /\ size \in Nat /\ Stride \in Nat
  BY FullRows, IndexType, Constants
<1>2. Chosen = {i \in 0 .. size - 1 : Stride > 0 /\ (a + i) % Stride = 0}
  BY DEF Chosen, Captured, GlobalIndex
<1> HIDE DEF a
<1>3. CASE Stride = 0
  <2>1. Chosen = {}
    BY <1>2, <1>3
  <2>2. QED
    BY <1>3, <2>1, FS_EmptySet
<1>4. CASE Stride > 0
  <2>1. Chosen = {i \in 0 .. size - 1 : (a + i) % Stride = 0}
    BY <1>2, <1>4
  <2>2. LET m == Cardinality({i \in 0 .. size - 1 : (a + i) % Stride = 0})
        IN  m \in Nat /\ size - (Stride - 1) <= Stride * m /\ Stride * m <= size + (Stride - 1)
    BY <1>1, <1>4, MultiplesInARow
  <2>3. QED
    BY <1>4, <2>1, <2>2
<1>5. QED
  BY <1>1, <1>3, <1>4

LEMMA TotalsStep ==
  ASSUME CaptureInv, TotalsTell, [Next]_vars
  PROVE  TotalsTell'
<1>1. CASE Silent \/ ShortWrite \/ CloseFails
  <2>1. UNCHANGED <<total, doc>>
    BY <1>1, SilentSteps DEF ShortWrite, CloseFails, docVars
  <2>2. QED
    BY <2>1 DEF TotalsTell
<1>2. CASE EndDocument
  <2> DEFINE D == total.docs
             T == total.tokens
             C == total.captured
             m == Cardinality(Chosen)
             S == Stride
  <2>1. /\ Full /\ doc' = doc + 1 /\ total'.docs = D + 1 /\ total'.tokens = T + size
        /\ total'.captured = C + m
    BY <1>2, EndSizes DEF EndDocument
  <2>2. /\ D \in Nat /\ T \in Nat /\ C \in Nat /\ S \in Nat /\ m \in Nat
        /\ size \in Nat /\ size > 0 /\ doc \in Nat
    BY <2>1, FullRows, ChosenPositions, Constants DEF OutputTypes
  <2>3. /\ S = 0 => m = 0
        /\ S > 0 => size - (S - 1) <= S * m /\ S * m <= size + (S - 1)
    BY <2>1, ChosenCount
  <2>4. /\ D = doc - 1 /\ D <= T /\ (S = 0 => C = 0)
        /\ S > 0 => T <= S * C + D * (S - 1) /\ S * C <= T + D * (S - 1)
    BY DEF TotalsTell
  <2> HIDE DEF D, T, C, m, S
  <2>5. S > 0 => /\ T + size <= S * (C + m) + (D + 1) * (S - 1)
                 /\ S * (C + m) <= T + size + (D + 1) * (S - 1)
    <3> DEFINE p == S * C
               q == S * m
               r == D * (S - 1)
    <3>1. /\ S * (C + m) = p + q /\ (D + 1) * (S - 1) = r + (S - 1)
          /\ p \in Int /\ q \in Int /\ r \in Int
      BY <2>2
    <3>2. S > 0 => /\ T <= p + r /\ p <= T + r
                   /\ size - (S - 1) <= q /\ q <= size + (S - 1)
      BY <2>3, <2>4
    <3> HIDE DEF p, q, r
    <3>3. QED
      BY <2>2, <3>1, <3>2
  <2>6. D + 1 = (doc + 1) - 1 /\ D + 1 <= T + size /\ (S = 0 => C + m = 0)
    BY <2>2, <2>3, <2>4
  <2>7. QED
    BY <2>1, <2>5, <2>6 DEF TotalsTell, S
<1>3. QED
  BY <1>1, <1>2 DEF Next, Silent

LEMMA LayoutStep ==
  ASSUME CaptureInv, LayoutSeen, [Next]_vars
  PROVE  LayoutSeen'
<1> USE DEF LayoutSeen
<1>1. <<"topk", 1>> \in Nodes /\ TypeOK
  BY Constants DEF Nodes, Layers, CaptureInv
<1>2. CASE BeginDocument
  <2>1. UNCHANGED <<doc, layouts>> /\ cursor' = Zero
    BY <1>2 DEF BeginDocument
  <2>2. ~ (cursor'[<<"topk", 1>>] > 0)
    BY <1>1, <2>1 DEF Zero
  <2>3. QED
    BY <2>1, <2>2
<1>3. ASSUME NEW x \in Nodes, CaptureNode(x)
      PROVE  LayoutSeen'
  <2>1. /\ UNCHANGED <<pc, doc>> /\ layouts \subseteq layouts' /\ (x[1] = "topk" => layouts' # {})
        /\ cursor' = [cursor EXCEPT ![x] = cursor[x] + Rows(x)]
    BY <1>3 DEF CaptureNode
  <2>2. CASE x = <<"topk", 1>>
    BY <2>1, <2>2
  <2>3. CASE x # <<"topk", 1>>
    <3>1. cursor'[<<"topk", 1>>] = cursor[<<"topk", 1>>]
      BY <1>1, <2>1, <2>3 DEF TypeOK
    <3>2. QED
      BY <2>1, <3>1 DEF Decoding
  <2>4. QED
    BY <2>2, <2>3
<1>4. CASE EndDocument
  <2>1. Full /\ pc = "check" /\ cursor[<<"topk", 1>>] = size /\ layouts' = layouts
    BY <1>1, <1>4 DEF EndDocument, Full, Lockstep
  <2>2. size > 0
    BY <2>1, FullRows
  <2>3. layouts # {}
    BY <2>1, <2>2 DEF Decoding
  <2>4. QED
    BY <2>1, <2>3
<1>5. CASE UBatchDone \/ (\E x \in Nodes : RefuseNode(x))
  <2>1. UNCHANGED <<doc, cursor, layouts>> /\ pc = "decode"
    BY <1>5 DEF UBatchDone, RefuseNode, Comes
  <2>2. QED
    BY <2>1 DEF Decoding
<1>6. CASE \/ EmptyDocument \/ LastDocument \/ DecodeFails \/ CheckFails \/ ShortWrite
           \/ Close \/ CloseFails \/ WriteStats \/ StatsLost \/ Judge
  <2>1. UNCHANGED <<doc, layouts>> /\ ~ Decoding'
    BY <1>6 DEF EmptyDocument, LastDocument, DecodeFails, CheckFails, ShortWrite, Close,
       CloseFails, WriteStats, StatsLost, Judge, Stop, docVars, Decoding
  <2>2. QED
    BY <2>1
<1>7. CASE UNCHANGED vars
  BY <1>7 DEF vars, Decoding
<1>8. QED
  BY <1>2, <1>3, <1>4, <1>5, <1>6, <1>7 DEF Next

-----------------------------------------------------------------------------
(* The nodes a ubatch is captured of.                                      *)

LEMMA NodesCount ==
  /\ IsFiniteSet(Nodes) /\ Cardinality(Nodes) = NodesPerUBatch
  /\ NodesPerUBatch \in Nat /\ NodesPerUBatch > 0
<1> DEFINE K == {"hidden", "logits", "topk"}
<1>1. IsFiniteSet(K) /\ Cardinality(K) = 3
  <2>1. IsFiniteSet({"hidden"}) /\ Cardinality({"hidden"}) = 1
    BY FS_Singleton
  <2>2. IsFiniteSet({"hidden"} \union {"logits"}) /\ Cardinality({"hidden"} \union {"logits"}) = 2
    BY <2>1, FS_AddElement
  <2>3. /\ IsFiniteSet(({"hidden"} \union {"logits"}) \union {"topk"})
        /\ Cardinality(({"hidden"} \union {"logits"}) \union {"topk"}) = 3
    BY <2>2, FS_AddElement
  <2>4. K = ({"hidden"} \union {"logits"}) \union {"topk"}
    OBVIOUS
  <2>5. QED
    BY <2>3, <2>4
<1>2. IsFiniteSet(Layers) /\ Cardinality(Layers) = NLayers
  <2>1. NLayers \in Int /\ 1 \in Int /\ ~ (1 > NLayers) /\ NLayers - 1 + 1 = NLayers
    BY Constants
  <2>2. QED
    BY <2>1, FS_Interval DEF Layers
<1>3. IsFiniteSet(K \X Layers) /\ Cardinality(K \X Layers) = Cardinality(K) * Cardinality(Layers)
  BY <1>1, <1>2, FS_Product
<1>4. Nodes = K \X Layers
  BY DEF Nodes
<1> HIDE DEF K
<1>5. IsFiniteSet(Nodes) /\ Cardinality(Nodes) = 3 * NLayers
  BY <1>1, <1>2, <1>3, <1>4
<1>6. QED
  BY <1>5, Constants DEF NodesPerUBatch

Done == {x \in Nodes : pending[x] = 0}

LEMMA DoneCount ==
  /\ IsFiniteSet(Done) /\ Cardinality(Done) \in Nat
  /\ pending = Zero => Cardinality(Done) = NodesPerUBatch
<1>1. IsFiniteSet(Done) /\ Cardinality(Done) \in Nat
  BY NodesCount, FS_Subset, FS_CardinalityType DEF Done
<1>2. ASSUME pending = Zero
      PROVE  Cardinality(Done) = NodesPerUBatch
  <2>1. Done = Nodes
    BY <1>2 DEF Done, Zero
  <2>2. QED
    BY <2>1, NodesCount
<1>3. QED
  BY <1>1, <1>2

-----------------------------------------------------------------------------
(* Each step of a run in which nothing has gone wrong.                     *)

LEMMA GateInit == Init => GateInv
<1>1. SUFFICES ASSUME Init PROVE GateInv
  OBVIOUS
<1>2. TotalsTell
  BY <1>1, Constants DEF Init, TotalsTell
<1>3. LayoutSeen
  BY <1>1 DEF Init, LayoutSeen, Decoding
<1>4. CleanTells
  <2>1. UBatchesAre(0)
    BY <1>1, NodesCount, Constants DEF Init, UBatchesAre, Taken, DecodedTokens, Decoding
  <2>2. QED
    BY <1>1, <2>1 DEF Init, CleanTells, Reported
<1>5. QED
  BY <1>1, <1>2, <1>3, <1>4 DEF GateInv, Init

(* What is so as long as nothing has gone wrong.                           *)
LEMMA CleanState ==
  ASSUME CaptureInv, GateInv, CleanSoFar
  PROVE  /\ TypeOK /\ Position /\ OutputTypes
         /\ failed = "no" /\ truncated = 0
         /\ ~Reported => rc = 0
         /\ \E u \in Nat : UBatchesAre(u)
         /\ Decoding => \A x \in Nodes : cursor[x] = Reached(x) /\ pending[x] <= 1
         /\ total.docs \in Nat /\ total.tokens \in Nat /\ nodes \in Nat
BY DEF CaptureInv, GateInv, CleanTells, CleanSoFar, CursorsTell, CursorOf, OutputTypes, TypeOK

LEMMA CleanUnchanged ==
  ASSUME UNCHANGED inputVars
  PROVE  CleanSoFar' /\ faults' = faults => CleanSoFar
BY DEF CleanSoFar, inputVars

(* Nothing is refused.                                                     *)
LEMMA CleanAllowed ==
  ASSUME CaptureInv, GateInv, CleanSoFar
  PROVE  /\ ~ EmptyDocument /\ ~ CheckFails
         /\ \A x \in Nodes : ~ RefuseNode(x)
<1>1. /\ TypeOK /\ Position /\ failed = "no"
      /\ Decoding => \A x \in Nodes : cursor[x] = Reached(x) /\ pending[x] <= 1
  BY CleanState
<1>2. ~ EmptyDocument
  <2>1. SUFFICES ASSUME EmptyDocument PROVE FALSE
    OBVIOUS
  <2>2. doc \in Docs /\ text[doc] = 0
    BY <1>1, <2>1, Constants DEF EmptyDocument, TypeOK, Docs
  <2>3. QED
    BY <2>2 DEF CleanSoFar
<1>3. ~ CheckFails
  <2>1. SUFFICES ASSUME CheckFails PROVE FALSE
    OBVIOUS
  <2>2. pc = "check" /\ ~ Lockstep
    BY <1>1, <2>1 DEF CheckFails
  <2>3. at = size
    BY <1>1, <2>2 DEF Position
  <2>4. \A x \in Nodes : cursor[x] = size
    BY <1>1, <2>2, <2>3 DEF Decoding, Reached
  <2>5. QED
    BY <2>2, <2>4 DEF Lockstep
<1>4. ASSUME NEW x \in Nodes, RefuseNode(x)
      PROVE  FALSE
  <2>1. pc = "decode" /\ pending[x] > 0 /\ Refuses(x)
    BY <1>4 DEF RefuseNode, Comes
  <2>2. cursor[x] = at
    BY <1>1, <2>1 DEF Decoding, Reached
  <2>3. Rows(x) = UBatchSize /\ graph[x] # "mistyped"
    BY DEF CleanSoFar, Rows
  <2>4. at + UBatchSize <= size
    BY <1>1, <2>1, UBatchFits
  <2>5. at \in Nat /\ UBatchSize \in Nat /\ size \in Nat
    BY <1>1, <2>1, UBatchFits
  <2>6. QED
    BY <2>1, <2>2, <2>3, <2>4, <2>5 DEF Refuses
<1>5. QED
  BY <1>2, <1>3, <1>4

LEMMA CleanBegin ==
  ASSUME CaptureInv, GateInv, BeginDocument
  PROVE  CleanTells'
<1>1. SUFFICES ASSUME CleanSoFar'
               PROVE  /\ failed' = "no" /\ truncated' = 0
                      /\ \E u \in Nat : UBatchesAre(u)'
                      /\ ~Reported' /\ rc' = 0
  BY DEF CleanTells
<1>2. CleanSoFar
  BY <1>1, CleanUnchanged DEF BeginDocument, NoFault
<1>3. /\ failed = "no" /\ truncated = 0 /\ total.docs \in Nat /\ total.tokens \in Nat
      /\ TypeOK /\ Position
  BY <1>2, CleanState
<1>4. /\ UNCHANGED <<inputVars, doc, failed, nodes, total, rc>>
      /\ pc = "document" /\ pc' = "decode" /\ at' = 0 /\ pending' = Offered /\ doc \in Docs
      /\ truncated' = IF text[doc] > NCtx THEN truncated + 1 ELSE truncated
  BY <1>3, Constants DEF BeginDocument, outVars, TypeOK, Docs
<1>5. truncated' = 0
  BY <1>2, <1>3, <1>4, Constants DEF CleanSoFar
<1>6. Taken' = 0 /\ Taken = 0
  <2>1. \A x \in Nodes : pending'[x] = 1
    BY <1>2, <1>4 DEF Offered, CleanSoFar
  <2>2. {x \in Nodes : pending'[x] = 0} = {}
    BY <2>1
  <2>3. QED
    BY <1>4, <2>2, FS_EmptySet DEF Taken
<1>7. PICK u \in Nat : UBatchesAre(u)
  BY <1>2, CleanState
<1>8. UBatchesAre(u)'
  BY <1>3, <1>4, <1>6, <1>7, Constants DEF UBatchesAre, DecodedTokens, Decoding
<1>9. rc = 0
  BY <1>3, <1>4 DEF Position, Working
<1>10. QED
  BY <1>3, <1>4, <1>5, <1>8, <1>9 DEF Reported

LEMMA CleanCapture ==
  ASSUME CaptureInv, GateInv, NEW x \in Nodes, CaptureNode(x)
  PROVE  CleanTells'
<1>1. SUFFICES ASSUME CleanSoFar'
               PROVE  /\ failed' = "no" /\ truncated' = 0
                      /\ \E u \in Nat : UBatchesAre(u)'
                      /\ ~Reported' /\ rc' = 0
  BY DEF CleanTells
<1>2. CleanSoFar
  BY <1>1, CleanUnchanged DEF CaptureNode, NoFault
<1>3. /\ pc = "decode" /\ UNCHANGED <<pc, at, failed, truncated, total, rc>> /\ nodes' = nodes + 1
      /\ pending[x] > 0 /\ pending' = [pending EXCEPT ![x] = pending[x] - 1]
  BY DEF CaptureNode, Comes, outVars
<1>4. /\ TypeOK /\ Position /\ failed = "no" /\ truncated = 0 /\ rc = 0 /\ pending[x] <= 1
      /\ nodes \in Nat
  BY <1>2, <1>3, CleanState DEF Decoding, Reported
<1>5. pending \in [Nodes -> 0 .. 2] /\ pending[x] = 1
  BY <1>3, <1>4 DEF TypeOK
<1>6. pending'[x] = 0 /\ \A y \in Nodes : y # x => pending'[y] = pending[y]
  BY <1>3, <1>5
<1>7. Done' = Done \union {x} /\ x \notin Done
  BY <1>5, <1>6 DEF Done
<1>8. Cardinality(Done') = Cardinality(Done) + 1 /\ Cardinality(Done) \in Nat
  BY <1>7, DoneCount, FS_AddElement
<1>9. Taken' = Taken + 1 /\ Taken \in Nat
  BY <1>3, <1>8 DEF Taken, Done
<1>10. PICK u \in Nat : UBatchesAre(u)
  BY <1>2, CleanState
<1>11. nodes = NodesPerUBatch * u + Taken /\ NodesPerUBatch * u \in Nat
  <2>1. \A m, n \in Nat : m * n \in Nat
    OBVIOUS
  <2>2. QED
    BY <1>10, <2>1, NodesCount DEF UBatchesAre
<1>12. nodes' = NodesPerUBatch * u + Taken'
  BY <1>3, <1>9, <1>11
<1>13. UBatchesAre(u)'
  BY <1>3, <1>10, <1>12 DEF UBatchesAre, DecodedTokens, Decoding, NodesPerUBatch
<1>14. QED
  BY <1>3, <1>4, <1>13 DEF Reported

LEMMA CleanUBatch ==
  ASSUME CaptureInv, GateInv, UBatchDone
  PROVE  CleanTells'
<1>1. SUFFICES ASSUME CleanSoFar'
               PROVE  /\ failed' = "no" /\ truncated' = 0
                      /\ \E u \in Nat : UBatchesAre(u)'
                      /\ ~Reported' /\ rc' = 0
  BY DEF CleanTells
<1>2. CleanSoFar
  BY <1>1, CleanUnchanged DEF UBatchDone, NoFault
<1>3. /\ pc = "decode" /\ UNCHANGED <<inputVars, size, failed, truncated, nodes, total, rc>>
      /\ pending = Zero /\ at' = at + UBatchSize
      /\ at' < size => pc' = "decode" /\ pending' = IF failed = "yes" THEN Zero ELSE Offered
      /\ ~ (at' < size) => pc' = "check"
  BY DEF UBatchDone, outVars
<1>4. /\ TypeOK /\ Position /\ failed = "no" /\ truncated = 0 /\ rc = 0
      /\ total.docs \in Nat /\ total.tokens \in Nat /\ nodes \in Nat
  BY <1>2, <1>3, CleanState DEF Reported
<1> DEFINE B == UBatch
           s == UBatchSize
           D == total.docs
           T == total.tokens
<1>5. /\ s \in Nat /\ s >= 1 /\ s <= B /\ B \in Nat /\ B > 0
      /\ at \in Nat /\ size \in Nat /\ at + s <= size
      /\ at + s < size => s = B
  <2>1. /\ at \in Nat /\ size \in Nat /\ at + s <= size /\ s \in Nat /\ s >= 1
    BY <1>3, <1>4, UBatchFits
  <2>2. s = Least(UBatch, size - at)
    BY <1>2 DEF UBatchSize, SpanEnd, CleanSoFar
  <2>3. QED
    BY <2>1, <2>2, Constants DEF Least
<1>6. Taken = NodesPerUBatch /\ Taken' = 0
  <2>1. Cardinality(Done) = NodesPerUBatch
    BY <1>3, DoneCount
  <2>2. Taken = NodesPerUBatch
    BY <1>3, <2>1 DEF Taken, Done
  <2>3. CASE pc' = "decode"
    <3>1. \A x \in Nodes : pending'[x] = 1
      BY <1>2, <1>3, <1>4, <2>3 DEF Offered, CleanSoFar
    <3>2. {x \in Nodes : pending'[x] = 0} = {}
      BY <3>1
    <3>3. QED
      BY <2>2, <2>3, <3>2, FS_EmptySet DEF Taken
  <2>4. CASE pc' # "decode"
    BY <2>2, <2>4 DEF Taken
  <2>5. QED
    BY <2>3, <2>4
<1>7. PICK u \in Nat : UBatchesAre(u)
  BY <1>2, CleanState
<1>8. /\ nodes = NodesPerUBatch * u + NodesPerUBatch
      /\ D <= u /\ T + at <= u * B /\ u * B <= T + at + D * (B - 1)
  <2>1. /\ nodes = NodesPerUBatch * u + Taken
        /\ D + (IF at > 0 THEN 1 ELSE 0) <= u
        /\ T + at <= u * B /\ u * B <= T + at + (D + 0) * (B - 1)
    BY <1>3, <1>7 DEF UBatchesAre, DecodedTokens, Decoding
  <2>2. D + 0 = D /\ D <= u
    BY <1>4, <1>5, <2>1
  <2>3. QED
    BY <1>6, <2>1, <2>2
<1>9. nodes' = NodesPerUBatch * (u + 1) + Taken'
  <2>1. NodesPerUBatch * (u + 1) = NodesPerUBatch * u + NodesPerUBatch
    BY NodesCount
  <2>2. NodesPerUBatch * u + NodesPerUBatch \in Nat
    BY <1>4, <1>8
  <2>3. QED
    BY <1>3, <1>6, <1>8, <2>1, <2>2
<1> HIDE DEF B, s, D, T
<1> DEFINE p == u * B
           q == D * (B - 1)
<1>10. /\ D \in Nat /\ T \in Nat
       /\ (u + 1) * B = p + B /\ (D + 1) * (B - 1) = q + (B - 1) /\ (D + 0) * (B - 1) = q
       /\ p \in Int /\ q \in Int
  BY <1>4, <1>5 DEF D, T
<1>11. D <= u /\ T + at <= p /\ p <= T + at + q
  BY <1>8
<1> HIDE DEF p, q
<1>12. /\ D + 1 <= u + 1 /\ T + (at + s) <= p + B
       /\ at + s < size => p + B <= T + (at + s) + q
       /\ p + B <= T + (at + s) + (q + (B - 1))
  BY <1>5, <1>10, <1>11
<1>13. UBatchesAre(u + 1)'
  <2>1. /\ Decoding' /\ DecodedTokens' = T + (at + s) /\ at' > 0
        /\ pc' = "decode" => at + s < size
    BY <1>3, <1>5 DEF Decoding, DecodedTokens, T, s
  <2>2. /\ D + 1 <= u + 1 /\ T + (at + s) <= (u + 1) * B
        /\ pc' = "decode" => (u + 1) * B <= T + (at + s) + (D + 0) * (B - 1)
        /\ pc' = "check" => (u + 1) * B <= T + (at + s) + (D + 1) * (B - 1)
    BY <1>10, <1>12, <2>1
  <2>3. pc' \in {"decode", "check"} /\ total' = total
    BY <1>3
  <2>4. QED
    BY <1>9, <2>1, <2>2, <2>3 DEF UBatchesAre, D, B, T, s, NodesPerUBatch
<1>14. u + 1 \in Nat /\ pc' \in {"decode", "check"}
  BY <1>3
<1>15. QED
  BY <1>3, <1>4, <1>13, <1>14 DEF Reported

LEMMA CleanEnd ==
  ASSUME CaptureInv, GateInv, EndDocument
  PROVE  CleanTells'
<1>1. SUFFICES ASSUME CleanSoFar'
               PROVE  /\ failed' = "no" /\ truncated' = 0
                      /\ \E u \in Nat : UBatchesAre(u)'
                      /\ ~Reported' /\ rc' = 0
  BY DEF CleanTells
<1>2. CleanSoFar
  BY <1>1, CleanUnchanged DEF EndDocument, NoFault
<1>3. /\ pc = "check" /\ UNCHANGED <<failed, truncated, nodes, rc>> /\ pc' = "document"
      /\ total'.docs = total.docs + 1 /\ total'.tokens = total.tokens + size
  BY DEF EndDocument
<1>4. /\ TypeOK /\ Position /\ failed = "no" /\ truncated = 0 /\ rc = 0
      /\ total.docs \in Nat /\ total.tokens \in Nat /\ nodes \in Nat
  BY <1>2, <1>3, CleanState DEF Reported
<1>5. at = size /\ size \in Nat /\ size > 0
  BY <1>3, <1>4, Constants DEF Position, Decoding, TypeOK
<1>6. PICK u \in Nat : UBatchesAre(u)
  BY <1>2, CleanState
<1>7. /\ nodes = NodesPerUBatch * u + 0 /\ total.docs + 1 <= u
      /\ total.tokens + size <= u * UBatch
      /\ u * UBatch <= total.tokens + size + (total.docs + 1) * (UBatch - 1)
  BY <1>3, <1>5, <1>6 DEF UBatchesAre, Taken, DecodedTokens, Decoding
<1>8. /\ Taken' = 0 /\ DecodedTokens' = total.tokens + size /\ ~ Decoding' /\ pc' # "check"
  BY <1>3, <1>4, <1>5 DEF Taken, DecodedTokens, Decoding
<1>9. UBatchesAre(u)'
  <2>1. total.docs + 1 + 0 = total.docs + 1
    BY <1>4
  <2>2. QED
    BY <1>3, <1>7, <1>8, <2>1 DEF UBatchesAre, NodesPerUBatch
<1>10. QED
  BY <1>3, <1>4, <1>9 DEF Reported

(* The run is over, and reported.                                          *)
LEMMA CleanStop ==
  ASSUME CaptureInv, GateInv, LastDocument \/ Close \/ WriteStats \/ Judge
  PROVE  CleanTells'
<1>1. SUFFICES ASSUME CleanSoFar'
               PROVE  /\ failed' = "no" /\ truncated' = 0
                      /\ \E u \in Nat : UBatchesAre(u)'
                      /\ ~Reported' => rc' = 0
                      /\ Reported' => /\ stats' = Report'
                                      /\ rc' = IF TopkLayout' = "mixed" THEN 10 ELSE 0
  BY DEF CleanTells
<1>2. CleanSoFar
  BY <1>1, CleanUnchanged DEF LastDocument, Close, WriteStats, Judge, NoFault
<1>3. /\ UNCHANGED <<failed, truncated, nodes, total, layouts>>
      /\ pc \in {"document", "close", "report", "verdict"}
      /\ pc' \in {"close", "report", "verdict", "accepted", "refused"}
  BY DEF LastDocument, Close, WriteStats, Judge, Stop, docVars, outVars
<1>4. /\ failed = "no" /\ truncated = 0 /\ (~Reported => rc = 0) /\ CaptureInv
  BY <1>2, CleanState
<1>5. PICK u \in Nat : UBatchesAre(u)
  BY <1>2, CleanState
<1>6. UBatchesAre(u)'
  <2>1. Taken = 0 /\ Taken' = 0 /\ ~ Decoding /\ ~ Decoding' /\ pc # "check" /\ pc' # "check"
    BY <1>3 DEF Taken, Decoding
  <2>2. QED
    BY <1>3, <1>5, <2>1 DEF UBatchesAre, DecodedTokens, NodesPerUBatch
<1>7. /\ ~Reported' => rc' = 0
      /\ Reported' => /\ stats' = Report'
                      /\ rc' = IF TopkLayout' = "mixed" THEN 10 ELSE 0
  <2>1. CASE LastDocument
    BY <1>4, <2>1 DEF LastDocument, Stop, Reported
  <2>2. CASE Close
    <3>1. rc = 0 /\ pc' = "report"
      BY <1>4, <2>2 DEF Close, Reported
    <3>2. SizesAgree
      BY <3>1 DEF CaptureInv, FilesWhole
    <3>3. QED
      BY <2>2, <3>1, <3>2 DEF Close, Reported
  <2>3. CASE WriteStats
    <3>1. rc = 0
      BY <1>4, <2>3 DEF WriteStats, Reported
    <3>2. TopkLayout' = TopkLayout
      BY <1>3 DEF TopkLayout
    <3>3. QED
      BY <1>3, <2>3, <3>1, <3>2 DEF WriteStats, Reported, Report
  <2>4. CASE Judge
    <3>1. Reported /\ UNCHANGED <<stats, rc, layouts, nodes, total, truncated>>
      BY <1>3, <2>4 DEF Judge, Reported
    <3>2. TopkLayout' = TopkLayout /\ Report' = Report
      BY <3>1 DEF TopkLayout, Report
    <3>3. stats = Report /\ rc = IF TopkLayout = "mixed" THEN 10 ELSE 0
      BY <1>2, <3>1 DEF GateInv, CleanTells
    <3>4. Reported'
      BY <2>4 DEF Judge, Reported
    <3>5. QED
      BY <3>1, <3>2, <3>3, <3>4
  <2>5. QED
    BY <2>1, <2>2, <2>3, <2>4
<1>8. QED
  BY <1>3, <1>4, <1>6, <1>7

LEMMA CleanStep ==
  ASSUME CaptureInv, GateInv, [Next]_vars
  PROVE  CleanTells'
<1>1. CASE DecodeFails \/ ShortWrite \/ CloseFails \/ StatsLost
  <2>1. faults' = faults + 1 /\ faults \in Nat
    BY <1>1 DEF DecodeFails, ShortWrite, CloseFails, StatsLost, Fault, CaptureInv, TypeOK
  <2>2. ~ CleanSoFar'
    BY <2>1 DEF CleanSoFar
  <2>3. QED
    BY <2>2 DEF CleanTells
<1>2. CASE EmptyDocument \/ CheckFails \/ \E x \in Nodes : RefuseNode(x)
  <2>1. ~ CleanSoFar
    BY <1>2, CleanAllowed
  <2>2. ~ CleanSoFar'
    BY <1>2, <2>1, CleanUnchanged DEF EmptyDocument, CheckFails, RefuseNode, NoFault
  <2>3. QED
    BY <2>2 DEF CleanTells
<1>3. CASE UNCHANGED vars
  <2>1. CleanTells
    BY DEF GateInv
  <2>2. QED
    BY <1>3, <2>1 DEF vars, CleanTells, CleanSoFar, UBatchesAre, Taken, DecodedTokens, Decoding,
       Reported, Report, TopkLayout
<1>4. QED
  BY <1>1, <1>2, <1>3, CleanBegin, CleanCapture, CleanUBatch, CleanEnd, CleanStop DEF Next

LEMMA RefusalStep ==
  ASSUME pc = "refused" => ~Acceptable, [Next]_vars
  PROVE  (pc = "refused" => ~Acceptable)'
<1>1. CASE Judge
  <2>1. Acceptable' <=> Acceptable
    BY <1>1 DEF Judge, Acceptable
  <2>2. QED
    BY <1>1, <2>1 DEF Judge
<1>2. CASE UNCHANGED vars
  <2>1. (Acceptable' <=> Acceptable) /\ pc' = pc
    BY <1>2 DEF vars, Acceptable
  <2>2. QED
    BY <2>1
<1>3. ASSUME NEW x \in Nodes, CaptureNode(x) \/ RefuseNode(x)
      PROVE  pc' # "refused"
  BY <1>3 DEF CaptureNode, RefuseNode, Comes
<1>4. CASE \/ BeginDocument \/ EmptyDocument \/ LastDocument \/ UBatchDone \/ DecodeFails
           \/ CheckFails \/ EndDocument \/ ShortWrite \/ Close \/ CloseFails \/ WriteStats
           \/ StatsLost
  BY <1>4 DEF BeginDocument, EmptyDocument, LastDocument, UBatchDone, DecodeFails, CheckFails,
     EndDocument, ShortWrite, Close, CloseFails, WriteStats, StatsLost, Stop
<1>5. QED
  BY <1>1, <1>2, <1>3, <1>4 DEF Next

-----------------------------------------------------------------------------
(* The verdict.                                                            *)

LEMMA CleanPlausible ==
  ASSUME CaptureInv, GateInv, CleanSoFar, Reported, rc = 0
  PROVE  /\ total.docs = NDocs /\ total.tokens >= NDocs
         /\ NodesPlausible(nodes, total.tokens)
         /\ CapturedPlausible(total.captured, total.tokens)
<1> DEFINE T == total.tokens
           C == total.captured
           B == UBatch
           S == Stride
           P == NodesPerUBatch
<1>1. /\ T \in Nat /\ C \in Nat /\ total.docs = NDocs /\ total.docs <= T
      /\ S = 0 => C = 0
      /\ S > 0 => T <= S * C + NDocs * (S - 1) /\ S * C <= T + NDocs * (S - 1)
  <2>1. doc = NDocs + 1
    BY DEF CaptureInv, Position, Working, Reported
  <2>2. total.docs = NDocs /\ TotalsTell
    BY <2>1, Constants DEF GateInv, TotalsTell
  <2>3. QED
    BY <2>2, CleanState DEF TotalsTell, OutputTypes
<1>2. PICK u \in Nat : UBatchesAre(u)
  BY CleanState
<1>3. /\ nodes = P * u /\ NDocs <= u
      /\ T <= u * B /\ u * B <= T + NDocs * (B - 1)
  <2>1. Taken = 0 /\ DecodedTokens = T + 0 /\ ~ Decoding /\ pc # "check"
    BY DEF Taken, DecodedTokens, Decoding, Reported
  <2>2. /\ nodes = P * u + 0 /\ NDocs + 0 <= u
        /\ T + 0 <= u * B /\ u * B <= T + 0 + (NDocs + 0) * (B - 1)
    BY <1>1, <1>2, <2>1 DEF UBatchesAre
  <2>3. P * u \in Nat /\ P * u + 0 = P * u /\ NDocs + 0 = NDocs /\ T + 0 = T
    <3>1. \A m, n \in Nat : m * n \in Nat
      OBVIOUS
    <3>2. P * u \in Nat
      BY <3>1, NodesCount
    <3>3. QED
      BY <1>1, <3>2, Constants
  <2>4. QED
    BY <2>2, <2>3
<1>4. /\ B \in Nat /\ B > 0 /\ S \in Nat /\ NDocs \in Nat /\ NDocs > 0 /\ P \in Nat /\ P > 0
  BY Constants, NodesCount
<1> HIDE DEF T, C, B, S, P
<1>5. nodes > 0 /\ nodes % P = 0 /\ nodes \div P = u
  <2>1. nodes = P * u + 0 /\ 0 \in 0 .. P - 1
    <3>1. \A m, n \in Nat : m * n \in Nat
      OBVIOUS
    <3>2. P * u \in Nat
      BY <1>4, <3>1
    <3>3. QED
      BY <1>3, <1>4, <3>2
  <2>2. nodes % P = 0 /\ nodes \div P = u
    BY <1>4, <2>1, RemainderIs
  <2>3. nodes > 0
    <3>1. \A m, n \in Nat : m > 0 /\ n > 0 => m * n > 0
      OBVIOUS
    <3>2. u > 0
      BY <1>3, <1>4
    <3>3. QED
      BY <1>3, <1>4, <3>1, <3>2
  <2>4. QED
    BY <2>2, <2>3
<1>6. CeilDiv(T, B) <= u /\ CeilDiv(T, B) \in Int
  <2>1. -T \in Int /\ -u \in Int /\ (-u) * B <= -T
    BY <1>1, <1>3, <1>4
  <2>2. -u <= (-T) \div B /\ (-T) \div B \in Int
    BY <1>4, <2>1, QuotientAbove, Quotient
  <2>3. QED
    BY <2>2 DEF CeilDiv
<1>7. u <= (T + NDocs * (B - 1)) \div B
  <2>1. T + NDocs * (B - 1) \in Int
    BY <1>1, <1>4
  <2>2. QED
    BY <1>3, <1>4, <2>1, QuotientAbove
<1>8. NodesPlausible(nodes, T)
  <2>1. u \in FewestUBatches(T) .. MostUBatches(T)
    <3>1. MostUBatches(T) \in Int /\ u <= MostUBatches(T)
      <4>1. T + NDocs * (B - 1) \in Int
        BY <1>1, <1>4
      <4>2. (T + NDocs * (B - 1)) \div B \in Int
        BY <1>4, <4>1, Quotient
      <4>3. QED
        BY <1>7, <4>2 DEF MostUBatches, B
    <3>2. FewestUBatches(T) \in Int /\ FewestUBatches(T) <= u
      BY <1>3, <1>4, <1>6 DEF FewestUBatches, Greatest, B
    <3>3. QED
      BY <3>1, <3>2
  <2>2. QED
    BY <1>5, <2>1 DEF NodesPlausible, P
<1>9. CapturedPlausible(C, T)
  <2>1. CASE S = 0
    BY <1>1, <2>1 DEF CapturedPlausible, S
  <2>2. CASE S # 0
    <3> DEFINE slack == NDocs * (S - 1)
    <3>1. /\ slack \in Int /\ S > 0 /\ T <= S * C + slack /\ S * C <= T + slack
      BY <1>1, <1>4, <2>2
    <3> HIDE DEF slack
    <3>2. CeilDiv(T - slack, S) <= C /\ CeilDiv(T - slack, S) \in Int
      <4>1. -(T - slack) \in Int /\ -C \in Int /\ (-C) * S <= -(T - slack)
        BY <1>1, <1>4, <3>1
      <4>2. -C <= (-(T - slack)) \div S /\ (-(T - slack)) \div S \in Int
        BY <1>4, <3>1, <4>1, QuotientAbove, Quotient
      <4>3. QED
        BY <1>1, <4>2 DEF CeilDiv
    <3>3. C <= (T + slack) \div S /\ (T + slack) \div S \in Int
      <4>1. T + slack \in Int /\ C * S <= T + slack
        BY <1>1, <1>4, <3>1
      <4>2. QED
        BY <1>1, <1>4, <3>1, <4>1, QuotientAbove, Quotient
    <3>4. C \in Greatest(0, CeilDiv(T - slack, S)) .. ((T + slack) \div S)
      BY <1>1, <3>2, <3>3 DEF Greatest
    <3>5. QED
      BY <2>2, <3>4 DEF CapturedPlausible, S, slack
  <2>3. QED
    BY <2>1, <2>2
<1>10. QED
  BY <1>1, <1>8, <1>9 DEF T, C

LEMMA CleanAccepted ==
  ASSUME CaptureInv, GateInv
  PROVE  CleanBaselineAccepted
<1>1. SUFFICES ASSUME pc = "refused", mode = "off", Clean
               PROVE  FALSE
  BY DEF CleanBaselineAccepted
<1>2. CleanSoFar /\ Reported /\ ~Acceptable /\ ~ (layouts = {"strided", "contiguous"})
  BY <1>1 DEF Clean, CleanSoFar, Reported, GateInv
<1>3. /\ stats = Report /\ truncated = 0
      /\ rc = IF TopkLayout = "mixed" THEN 10 ELSE 0
  BY <1>2 DEF GateInv, CleanTells
<1>4. TypeOK /\ OutputTypes /\ nodes \in Nat
  BY <1>2, CleanState
<1>5. TopkLayout \in {"strided_view", "contiguous"} /\ rc = 0
  <2>1. doc > 1
    <3>1. TopkLayout # "mixed"
      BY <1>2, <1>4 DEF TopkLayout, TypeOK
    <3>2. rc = 0
      BY <1>3, <3>1
    <3>3. doc = NDocs + 1
      BY <1>1, <3>2 DEF CaptureInv, Position, Working
    <3>4. QED
      BY <3>3, Constants
  <2>2. layouts # {} /\ layouts \subseteq {"strided", "contiguous"}
    BY <1>4, <2>1 DEF GateInv, LayoutSeen, TypeOK
  <2>3. layouts = {"strided"} \/ layouts = {"contiguous"}
    BY <1>2, <2>2
  <2>4. TopkLayout \in {"strided_view", "contiguous"}
    BY <2>3 DEF TopkLayout
  <2>5. QED
    BY <1>3, <2>4
<1>6. /\ total.docs = NDocs /\ total.tokens >= NDocs
      /\ NodesPlausible(nodes, total.tokens)
      /\ CapturedPlausible(total.captured, total.tokens)
  BY <1>2, <1>5, CleanPlausible
<1>7. /\ stats.exit_code = 0 /\ stats.n_docs = total.docs /\ stats.n_tokens = total.tokens
      /\ stats.n_captured = total.captured /\ stats.n_docs_truncated = 0
      /\ stats.nodes_captured = nodes /\ stats.topk_layout = TopkLayout
  BY <1>3 DEF Report
<1>8. ValidateStats(stats)
  BY <1>5, <1>6, <1>7 DEF ValidateStats
<1>9. stats # Nothing
  <2>1. /\ total.docs \in Int /\ total.tokens \in Int /\ total.captured \in Int
        /\ truncated \in Int /\ nodes \in Int /\ TopkLayout \in TopkLayouts
    <3>1. TopkLayout \in TopkLayouts
      BY <1>5 DEF TopkLayouts
    <3>2. total \in [docs : Nat, tokens : Nat, captured : Nat]
      BY <1>4 DEF OutputTypes
    <3>3. QED
      BY <1>3, <1>4, <3>1, <3>2
  <2>2. Report \in [exit_code : Int, n_docs : Int, n_tokens : Int, n_captured : Int,
                    n_docs_truncated : Int, nodes_captured : Int, topk_layout : TopkLayouts]
    BY <2>1 DEF Report
  <2>3. QED
    BY <1>3, <2>2, NothingAssumption DEF NothingAssumption
<1>10. Acceptable
  BY <1>5, <1>7, <1>8, <1>9 DEF Acceptable
<1>11. QED
  BY <1>2, <1>10

(* The gate of run_shard is not too tight: whatever the documents' lengths,*)
(* the layers, the stride and the ubatch size, the stats of a baseline run *)
(* in which nothing went wrong lie within every bracket (_check_nodes_     *)
(* captured and _check_n_captured, runner.py).                             *)
THEOREM CleanBaselinesPass == Spec => []CleanBaselineAccepted
<1>1. Init => CaptureInv /\ GateInv
  BY InitInv, GateInit
<1>2. CaptureInv /\ GateInv /\ [Next]_vars => (CaptureInv /\ GateInv)'
  BY CaptureInvNext, TotalsStep, LayoutStep, CleanStep, RefusalStep DEF GateInv
<1>3. CaptureInv /\ GateInv => CleanBaselineAccepted
  BY CleanAccepted
<1>4. QED
  BY <1>1, <1>2, <1>3, PTL DEF Spec
=============================================================================
