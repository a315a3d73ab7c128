---------------------------- MODULE CaptureProofs ----------------------------
(***************************************************************************)
(* Proofs about Capture, for any number of layers, documents and faults,   *)
(* any ids, texts, strides and ubatch sizes.                               *)
(***************************************************************************)
EXTENDS Capture, SetLemmas

-----------------------------------------------------------------------------
(* The inductive invariant.                                                *)

Working == pc \in {"document", "decode", "check"}

Decoding == pc \in {"decode", "check"}

DocSize(d) == Least(text[d], NCtx)

Row == [Layers -> Sources \union {Nothing}]

Streams == {"tokens", "topk", "logits", "hidden", "hidden_index"}

TokenRow == [row : Sources, flag : {0, 1}]

OutputTypes ==
  /\ files = [f \in Streams |-> files[f]]
  /\ files.tokens \in Seq(TokenRow)
  /\ \A f \in {"topk", "logits", "hidden"} : files[f] \in Seq(Row)
  /\ files.hidden_index \in Seq(Nat)
  /\ total \in [docs : Nat, tokens : Nat, captured : Nat]

(* Where the main loop stands.                                             *)
Position ==
  /\ Working => rc = 0
  /\ rc = 0 /\ ~Working => doc = NDocs + 1
  /\ Decoding => doc <= NDocs /\ size = DocSize(doc) /\ size > 0
  /\ pc = "decode" => at < size
  /\ pc = "check" => at = size

(* Documents begun.                                                        *)
Begun == IF Decoding THEN doc ELSE doc - 1

CutsCounted ==
  rc = 0 => /\ truncated \in 0 .. Begun
            /\ truncated = 0 => \A d \in 1 .. Begun : text[d] <= NCtx

(* Tokens of the document the tensors of node x have been offered for.     *)
Reached(x) == IF pc = "decode" /\ pending[x] = 0 THEN at + UBatchSize ELSE at

(* Until the callback refuses one, the cursor of a node is where its       *)
(* tensors have brought it, and only the cursor that has kept up with the  *)
(* tokens has right rows behind it.                                        *)
CursorOf(x) ==
  /\ graph[x] = "whole" => cursor[x] = Reached(x) /\ pending[x] <= 1
  /\ graph[x] = "pruned" => cursor[x] <= Reached(x) /\ pending[x] <= 1
  /\ graph[x] = "absent" => cursor[x] = 0 /\ pending[x] = 0
  /\ graph[x] = "mistyped" => cursor[x] = 0
  /\ graph[x] = "twice" =>
       cursor[x] = IF pc = "decode" /\ pending[x] < 2
                   THEN 2 * at + (IF pending[x] = 1 THEN UBatchSize ELSE 2 * UBatchSize)
                   ELSE 2 * at

RowsRight(x) ==
  cursor[x] = Reached(x) =>
    \A i \in 0 .. cursor[x] - 1 :
      (x[1] = "hidden" => Captured(doc, i)) => buf[x][i] = <<doc, i>>

CursorsTell ==
  Decoding /\ failed = "no" =>
    \A x \in Nodes : CursorOf(x) /\ (graph[x] \in {"whole", "pruned"} => RowsRight(x))

(* The files so far: every token of the documents done, once.              *)
FilesWhole ==
  rc = 0 =>
    /\ SizesAgree
    /\ \A d \in 1 .. doc - 1 : \A p \in 0 .. DocSize(d) - 1 :
         \E i \in DOMAIN files.tokens : files.tokens[i].row = <<d, p>>
    /\ \A i \in DOMAIN files.tokens :
         \E d \in 1 .. doc - 1 : \E p \in 0 .. DocSize(d) - 1 : files.tokens[i].row = <<d, p>>
    /\ \A i, j \in DOMAIN files.tokens :
         files.tokens[i].row = files.tokens[j].row => i = j

HiddenPaired ==
  rc = 0 =>
    /\ Len(files.hidden) = Len(FlaggedTokens)
    /\ \A k \in DOMAIN files.hidden, l \in Layers :
         files.hidden[k][l] = files.tokens[FlaggedTokens[k]].row

StatsTell ==
  /\ stats # Nothing => /\ pc \in {"verdict", "accepted", "refused"}
                        /\ stats.n_tokens = total.tokens
                        /\ stats.n_captured = total.captured
                        /\ stats.n_docs_truncated = truncated
  /\ pc = "accepted" => Acceptable

CaptureInv ==
  /\ TypeOK
  /\ OutputTypes
  /\ Position
  /\ CutsCounted
  /\ CursorsTell
  /\ StreamsAligned
  /\ FilesWhole
  /\ HiddenPaired
  /\ StatsTell

(* The order of the token rows.                                            *)
Before(r, s) == r[1] < s[1] \/ (r[1] = s[1] /\ r[2] < s[2])

TokensInOrder ==
  rc = 0 =>
    /\ \A i \in DOMAIN files.tokens : Selects(i) <=> files.tokens[i].flag = 1
    /\ \A i, j \in DOMAIN files.tokens :
         i < j => Before(files.tokens[i].row, files.tokens[j].row)

-----------------------------------------------------------------------------
(* Types.                                                                  *)

LEMMA Constants ==
  /\ NLayers \in Nat /\ NLayers > 0 /\ NDocs \in Nat /\ NDocs > 0
  /\ NCtx \in Nat /\ NCtx > 0 /\ UBatch \in Nat /\ UBatch > 0 /\ Stride \in Nat
  /\ DocIds \in [Docs -> Nat] /\ IndexSpace \in Nat \ {0} /\ Prefix \in Nat /\ Prefix > 0
  /\ Modes \subseteq DecodeModes /\ MaxText \in Nat /\ MaxFaults \in Nat
BY StatsAssumption, CaptureAssumption DEF StatsAssumption, CaptureAssumption, Docs

(* A ubatch has at least one token, and ends with the document at latest.  *)
LEMMA UBatchFits ==
  ASSUME TypeOK, Position, pc = "decode"
  PROVE  /\ UBatchSize \in Nat /\ UBatchSize >= 1
         /\ at \in Nat /\ size \in Nat /\ at + UBatchSize <= size /\ size <= NCtx
         /\ doc \in Docs
<1>1. /\ at \in Nat /\ size \in Nat /\ at < size /\ size <= NCtx
      /\ mode \in {"off", "full", "tail"} /\ doc \in Docs
  BY Constants DEF TypeOK, Position, DecodeModes, Docs, Decoding
<1>2. SpanEnd(size, at) \in at + 1 .. size
  BY <1>1, Constants DEF SpanEnd, Least
<1>3. QED
  BY <1>1, <1>2, Constants DEF UBatchSize, Least

LEMMA GraphType ==
  ASSUME TypeOK, NEW x \in Nodes
  PROVE  graph[x] \in Emissions
BY DEF TypeOK, Graphs, Emissions

LEMMA RowsFit ==
  ASSUME TypeOK, Position, pc = "decode", NEW x \in Nodes
  PROVE  /\ Rows(x) \in Nat /\ Rows(x) >= 1 /\ Rows(x) <= UBatchSize
         /\ \A r \in 0 .. Rows(x) - 1 : SourceRow(x, r) \in Sources
<1>1. Rows(x) \in Nat /\ Rows(x) >= 1 /\ Rows(x) <= UBatchSize
  BY UBatchFits DEF Rows
<1>2. ASSUME NEW r \in 0 .. Rows(x) - 1
      PROVE  SourceRow(x, r) \in Sources
  <2>1. /\ at + UBatchSize - 1 \in Positions
        /\ at + r \in Positions
        /\ doc \in Docs
    BY <1>1, UBatchFits, Constants DEF Positions
  <2>2. QED
    BY <2>1 DEF SourceRow, Sources
<1>3. QED
  BY <1>1, <1>2

LEMMA InitInv == Init => CaptureInv
<1>1. SUFFICES ASSUME Init PROVE CaptureInv
  OBVIOUS
<1>2. TypeOK
  BY <1>1, Constants DEF Init, TypeOK, Zero, NoRows
<1>3. OutputTypes
  BY <1>1 DEF Init, OutputTypes, Streams
<1>4. Position /\ CutsCounted /\ CursorsTell
  BY <1>1 DEF Init, Position, CutsCounted, CursorsTell, Working, Decoding, Begun
<1>5. /\ DOMAIN files.tokens = {} /\ DOMAIN files.topk = {} /\ DOMAIN files.logits = {}
      /\ DOMAIN files.hidden = {} /\ DOMAIN files.hidden_index = {}
      /\ \A f \in Streams : Len(files[f]) = 0
  BY <1>1 DEF Init, Streams
<1>6. StreamsAligned
  BY <1>5 DEF StreamsAligned
<1>7. FilesWhole
  BY <1>1, <1>5 DEF Init, FilesWhole, SizesAgree, Streams
<1>8. HiddenPaired
  <2>1. {i \in DOMAIN files.tokens : files.tokens[i].flag = 1} = {}
    BY <1>5
  <2>2. Len(FlaggedTokens) = 0
    BY <2>1, FS_EmptySet, Ascends DEF FlaggedTokens
  <2>3. QED
    BY <1>5, <2>2 DEF HiddenPaired, Streams
<1>9. StatsTell
  BY <1>1 DEF Init, StatsTell
<1>10. QED
  BY <1>2, <1>3, <1>4, <1>6, <1>7, <1>8, <1>9 DEF CaptureInv

(* Type correctness of each step.                                          *)
LEMMA BeginTypes ==
  ASSUME CaptureInv, BeginDocument
  PROVE  TypeOK'
<1>1. /\ doc \in Docs /\ text[doc] \in Nat /\ text[doc] > 0 /\ rc = 0
      /\ truncated \in 0 .. doc - 1
  BY Constants DEF CaptureInv, TypeOK, BeginDocument, Docs, Position, Working,
     CutsCounted, Begun, Decoding
<1>2. size' \in 0 .. NCtx /\ truncated' \in 0 .. NDocs
  BY <1>1, Constants DEF BeginDocument, Least, Docs
<1>3. pending' \in [Nodes -> 0 .. 2] /\ cursor' \in [Nodes -> 0 .. NCtx]
      /\ \A x \in Nodes : cursor'[x] = 0
  BY Constants DEF BeginDocument, Offered, Zero
<1>4. buf' \in [Nodes -> [Positions -> Sources \union {Nothing}]]
  BY DEF CaptureInv, TypeOK, BeginDocument, NoRows
<1>5. /\ UNCHANGED <<text, mode, graph, doc, failed, nodes, layouts, rc, faults>>
      /\ pc' = "decode" /\ at' = 0
  BY DEF BeginDocument, NoFault, inputVars
<1>6. Sources' = Sources
  BY DEF Sources
<1>7. QED
  BY <1>2, <1>3, <1>4, <1>5, <1>6 DEF CaptureInv, TypeOK

LEMMA CaptureTypes ==
  ASSUME CaptureInv, NEW x \in Nodes, CaptureNode(x)
  PROVE  TypeOK'
<1>1. /\ pc = "decode" /\ pending[x] > 0 /\ cursor[x] + Rows(x) <= size
      /\ TypeOK /\ Position
  BY UBatchFits, RowsFit DEF CaptureInv, CaptureNode, Comes, Refuses, TypeOK
<1>2. Rows(x) \in Nat /\ \A r \in 0 .. Rows(x) - 1 : SourceRow(x, r) \in Sources
  BY <1>1, RowsFit
<1>3. /\ cursor' = [cursor EXCEPT ![x] = cursor[x] + Rows(x)]
      /\ pending' = [pending EXCEPT ![x] = pending[x] - 1]
      /\ nodes' = nodes + 1
      /\ UNCHANGED <<text, mode, graph, pc, doc, size, at, failed, truncated, rc, faults>>
      /\ layouts' \subseteq {"strided", "contiguous"}
  BY <1>1 DEF CaptureNode, NoFault, inputVars, TypeOK
<1>4. cursor' \in [Nodes -> 0 .. NCtx] /\ \A y \in Nodes : cursor'[y] <= size
  BY <1>1, <1>2, <1>3, Constants DEF TypeOK
<1>5. pending' \in [Nodes -> 0 .. 2]
  BY <1>1, <1>3 DEF TypeOK
<1>6. buf' \in [Nodes -> [Positions -> Sources \union {Nothing}]]
  <2> DEFINE new == [i \in Positions |->
                       IF /\ i \in cursor[x] .. cursor[x] + Rows(x) - 1
                          /\ x[1] = "hidden" => Captured(doc, i)
                       THEN SourceRow(x, i - cursor[x]) ELSE buf[x][i]]
  <2>1. buf' = [buf EXCEPT ![x] = new]
    BY DEF CaptureNode, PutRows
  <2>2. buf[x] \in [Positions -> Sources \union {Nothing}] /\ cursor[x] \in Nat
    BY <1>1 DEF TypeOK
  <2>3. ASSUME NEW i \in Positions
        PROVE  new[i] \in Sources \union {Nothing}
    <3>1. CASE i \in cursor[x] .. cursor[x] + Rows(x) - 1
      <4>1. i - cursor[x] \in 0 .. Rows(x) - 1
        BY <1>2, <2>2, <3>1
      <4>2. QED
        BY <1>2, <2>2, <4>1
    <3>2. CASE i \notin cursor[x] .. cursor[x] + Rows(x) - 1
      BY <2>2, <3>2
    <3>3. QED
      BY <3>1, <3>2
  <2>4. new \in [Positions -> Sources \union {Nothing}]
    BY <2>3
  <2> HIDE DEF new
  <2>5. QED
    BY <1>1, <2>1, <2>4 DEF TypeOK
<1>7. Sources' = Sources
  BY DEF Sources
<1>8. QED
  BY <1>1, <1>3, <1>4, <1>5, <1>6, <1>7 DEF TypeOK

LEMMA UBatchTypes ==
  ASSUME CaptureInv, UBatchDone
  PROVE  TypeOK'
<1>1. pc = "decode" /\ TypeOK /\ Position
  BY DEF CaptureInv, UBatchDone
<1>2. at' \in 0 .. size
  BY <1>1, UBatchFits DEF UBatchDone
<1>3. pending' \in [Nodes -> 0 .. 2]
  BY <1>1 DEF UBatchDone, TypeOK, Zero, Offered
<1>4. /\ UNCHANGED <<text, mode, graph, doc, size, cursor, buf, failed, nodes, layouts,
                     truncated, rc, faults>>
      /\ pc' \in {"decode", "check"}
  BY <1>1 DEF UBatchDone, NoFault, inputVars
<1>5. Sources' = Sources
  BY DEF Sources
<1>6. QED
  BY <1>1, <1>2, <1>3, <1>4, <1>5 DEF TypeOK

LEMMA StopTypes ==
  ASSUME CaptureInv,
         \/ EmptyDocument \/ LastDocument \/ DecodeFails \/ CheckFails \/ Close \/ CloseFails
         \/ WriteStats \/ StatsLost \/ Judge \/ ShortWrite
  PROVE  TypeOK'
<1>1. /\ UNCHANGED <<text, mode, graph, doc, size, at, pending, cursor, buf, failed,
                     nodes, layouts, truncated>>
      /\ faults' \in {faults, faults + 1} /\ (faults' = faults \/ faults < MaxFaults)
      /\ rc' \in 0 .. 10
      /\ pc' \in {"close", "report", "verdict", "accepted", "refused"}
  BY DEF CaptureInv, TypeOK, EmptyDocument, LastDocument, DecodeFails, CheckFails, Close,
     CloseFails, WriteStats, StatsLost, Judge, ShortWrite, Stop, Fault, NoFault, inputVars,
     docVars
<1>2. Sources' = Sources
  BY DEF Sources
<1>3. QED
  BY <1>1, <1>2, Constants DEF CaptureInv, TypeOK

LEMMA TypeStep ==
  ASSUME CaptureInv, [Next]_vars
  PROVE  TypeOK'
<1>1. ASSUME NEW x \in Nodes, RefuseNode(x)
      PROVE  TypeOK'
  <2>1. Sources' = Sources
    BY DEF Sources
  <2>2. QED
    BY <1>1, <2>1 DEF CaptureInv, TypeOK, RefuseNode, Zero, NoFault, inputVars
<1>2. CASE EndDocument
  <2>1. Sources' = Sources /\ doc \in Docs
    BY <1>2, Constants DEF Sources, CaptureInv, TypeOK, Position, Decoding, EndDocument, Docs
  <2>2. doc' \in 1 .. NDocs + 1
    BY <1>2, <2>1, Constants DEF EndDocument, Docs
  <2>3. QED
    BY <1>2, <2>1, <2>2 DEF CaptureInv, TypeOK, EndDocument, NoFault, inputVars
<1>3. CASE UNCHANGED vars
  <2>1. Sources' = Sources
    BY DEF Sources
  <2>2. QED
    BY <1>3, <2>1 DEF CaptureInv, TypeOK, vars
<1>4. QED
  BY <1>1, <1>2, <1>3, BeginTypes, CaptureTypes, UBatchTypes, StopTypes DEF Next

-----------------------------------------------------------------------------
(* Where the loop stands, the documents cut, and the stats.                *)

LEMMA PositionStep ==
  ASSUME CaptureInv, [Next]_vars
  PROVE  Position' /\ CutsCounted'
<1> USE DEF Position, CutsCounted, Working, Decoding, Begun
<1>1. /\ TypeOK /\ Position /\ CutsCounted
      /\ doc \in Nat /\ doc <= NDocs + 1 /\ rc \in Nat
  BY Constants DEF CaptureInv, TypeOK
<1>2. CASE BeginDocument
  <2>1. /\ pc' = "decode" /\ doc' = doc /\ text' = text /\ at' = 0 /\ rc' = rc
        /\ doc \in Docs /\ text[doc] > 0 /\ text[doc] \in Nat
        /\ size' = Least(text[doc], NCtx)
        /\ truncated' = IF text[doc] > NCtx THEN truncated + 1 ELSE truncated
    BY <1>1, <1>2, Constants DEF BeginDocument, inputVars, TypeOK, Docs
  <2>2. size' > 0 /\ size' = DocSize(doc)'
    BY <2>1, Constants DEF DocSize, Least
  <2>3. Position'
    BY <1>1, <1>2, <2>1, <2>2 DEF BeginDocument
  <2>4. truncated \in 0 .. doc - 1 /\ (truncated = 0 => \A d \in 1 .. doc - 1 : text[d] <= NCtx)
    BY <1>1, <1>2 DEF BeginDocument
  <2>5. CutsCounted'
    BY <1>1, <2>1, <2>4, Constants
  <2>6. QED
    BY <2>3, <2>5
<1>3. ASSUME NEW x \in Nodes, CaptureNode(x) \/ RefuseNode(x)
      PROVE  Position' /\ CutsCounted'
  <2>1. UNCHANGED <<text, pc, doc, size, at, truncated, rc>>
    BY <1>3 DEF CaptureNode, RefuseNode, inputVars
  <2>2. QED
    BY <1>1, <2>1 DEF DocSize
<1>4. CASE UBatchDone
  <2>1. /\ UNCHANGED <<text, doc, size, truncated, rc>> /\ pc = "decode"
        /\ pc' = IF at + UBatchSize < size THEN "decode" ELSE "check"
        /\ at' = at + UBatchSize
    BY <1>4 DEF UBatchDone, inputVars
  <2>2. UBatchSize \in Nat /\ at \in Nat /\ size \in Nat /\ at + UBatchSize <= size
    BY <1>1, <2>1, UBatchFits
  <2>3. QED
    BY <1>1, <2>1, <2>2 DEF DocSize
<1>5. CASE EndDocument
  <2>1. /\ UNCHANGED <<text, truncated, rc>> /\ pc = "check" /\ pc' = "document"
        /\ doc' = doc + 1
    BY <1>5 DEF EndDocument, inputVars
  <2>2. QED
    BY <1>1, <2>1
<1>6. CASE EmptyDocument \/ DecodeFails \/ CheckFails \/ ShortWrite
  <2>1. rc' # 0 /\ pc' = "close"
    BY <1>1, <1>6 DEF EmptyDocument, DecodeFails, CheckFails, ShortWrite, Stop
  <2>2. QED
    BY <2>1
<1>7. CASE LastDocument \/ Close \/ CloseFails \/ WriteStats \/ StatsLost \/ Judge
  <2>1. /\ UNCHANGED <<text, doc, truncated>> /\ ~ Decoding /\ ~ Working'
        /\ rc' = 0 => rc = 0 /\ (pc = "document" => doc > NDocs)
    BY <1>1, <1>7 DEF LastDocument, Close, CloseFails, WriteStats, StatsLost, Judge, Stop,
       inputVars, docVars
  <2>2. QED
    BY <1>1, <2>1, Constants
<1>8. CASE UNCHANGED vars
  BY <1>1, <1>8 DEF vars, DocSize
<1>9. QED
  BY <1>2, <1>3, <1>4, <1>5, <1>6, <1>7, <1>8 DEF Next

LEMMA StatsStep ==
  ASSUME CaptureInv, [Next]_vars
  PROVE  StatsTell'
<1> USE DEF StatsTell
<1>1. StatsTell
  BY DEF CaptureInv
<1>2. CASE WriteStats
  BY <1>1, <1>2 DEF WriteStats, outVars
<1>3. CASE Judge
  <2>1. /\ pc' = IF Acceptable THEN "accepted" ELSE "refused"
        /\ UNCHANGED <<stats, rc, total, truncated>> /\ pc = "verdict"
    BY <1>3 DEF Judge, outVars
  <2>2. Acceptable' <=> Acceptable
    BY <2>1 DEF Acceptable
  <2>3. QED
    BY <1>1, <2>1, <2>2
<1>4. CASE UNCHANGED vars
  <2>1. Acceptable' <=> Acceptable
    BY <1>4 DEF vars, Acceptable
  <2>2. QED
    BY <1>1, <1>4, <2>1 DEF vars
<1>5. ASSUME NEW x \in Nodes, CaptureNode(x) \/ RefuseNode(x)
      PROVE  StatsTell'
  <2>1. pc = "decode" /\ UNCHANGED <<pc, stats>>
    BY <1>5 DEF CaptureNode, RefuseNode, Comes
  <2>2. QED
    BY <1>1, <2>1
<1>6. CASE BeginDocument \/ EmptyDocument \/ LastDocument \/ UBatchDone \/ DecodeFails
           \/ CheckFails \/ EndDocument \/ ShortWrite \/ Close \/ CloseFails \/ StatsLost
  <2>1. /\ UNCHANGED stats
        /\ pc \notin {"verdict", "accepted", "refused"} /\ pc' # "accepted"
    BY <1>6 DEF BeginDocument, EmptyDocument, LastDocument, UBatchDone, DecodeFails,
       CheckFails, EndDocument, ShortWrite, Close, CloseFails, StatsLost, Stop
  <2>2. QED
    BY <1>1, <2>1
<1>7. QED
  BY <1>2, <1>3, <1>4, <1>5, <1>6 DEF Next

-----------------------------------------------------------------------------
(* The cursors and the rows behind them.                                   *)

CursorTells(x) == CursorOf(x) /\ (graph[x] \in {"whole", "pruned"} => RowsRight(x))

LEMMA BeginCursors ==
  ASSUME CaptureInv, BeginDocument
  PROVE  CursorsTell'
<1>1. SUFFICES ASSUME NEW x \in Nodes
               PROVE  CursorTells(x)'
  BY DEF CursorsTell, CursorTells
<1>2. /\ pc' = "decode" /\ at' = 0 /\ graph' = graph
      /\ pending'[x] = (CASE graph[x] = "absent" -> 0 [] graph[x] = "twice" -> 2 [] OTHER -> 1)
      /\ cursor'[x] = 0
  BY DEF BeginDocument, Offered, Zero, inputVars
<1>3. graph[x] \in Emissions
  BY GraphType DEF CaptureInv
<1>4. CursorOf(x)'
  BY <1>2, <1>3 DEF CursorOf, Reached, Emissions
<1>5. RowsRight(x)'
  BY <1>2 DEF RowsRight
<1>6. QED
  BY <1>4, <1>5 DEF CursorTells

LEMMA CaptureCursors ==
  ASSUME CaptureInv, NEW x \in Nodes, CaptureNode(x)
  PROVE  CursorsTell'
<1>1. SUFFICES ASSUME failed = "no", NEW y \in Nodes
               PROVE  CursorTells(y)'
  <2>1. failed' = failed
    BY DEF CaptureNode
  <2>2. QED
    BY <2>1 DEF CursorsTell, CursorTells
<1>2. /\ pc = "decode" /\ pending[x] > 0 /\ ~ Refuses(x) /\ TypeOK /\ Position
      /\ UNCHANGED <<mode, graph, pc, doc, size, at>>
      /\ cursor' = [cursor EXCEPT ![x] = cursor[x] + Rows(x)]
      /\ pending' = [pending EXCEPT ![x] = pending[x] - 1]
  BY DEF CaptureInv, CaptureNode, Comes, inputVars
<1>3. /\ UBatchSize \in Nat /\ UBatchSize >= 1 /\ at \in Nat /\ size \in Nat
      /\ at + UBatchSize <= size /\ size <= NCtx
      /\ UBatchSize' = UBatchSize
  BY <1>2, UBatchFits DEF UBatchSize, SpanEnd
<1>4. CursorTells(y) /\ cursor[y] \in Nat /\ pending[y] \in 0 .. 2 /\ graph[y] \in Emissions
  BY <1>1, <1>2, GraphType DEF CaptureInv, CursorsTell, CursorTells, TypeOK, Decoding
<1>5. CASE y # x
  <2>1. cursor'[y] = cursor[y] /\ pending'[y] = pending[y] /\ buf'[y] = buf[y]
    BY <1>2, <1>5 DEF CaptureInv, TypeOK, CaptureNode, PutRows
  <2>2. QED
    BY <1>2, <1>3, <1>4, <2>1 DEF CursorTells, CursorOf, RowsRight, Reached, Captured, GlobalIndex
<1>6. CASE y = x
  <2>1. /\ cursor'[x] = cursor[x] + Rows(x) /\ pending'[x] = pending[x] - 1
        /\ Rows(x) = IF graph[x] = "pruned" THEN 1 ELSE UBatchSize
        /\ Rows(x) \in Nat
        /\ graph[x] # "mistyped" /\ cursor[x] + Rows(x) <= size
    BY <1>2, <1>3, <1>4, <1>6, RowsFit DEF TypeOK, Rows, Refuses
  <2>2. CursorOf(x)'
    BY <1>2, <1>3, <1>4, <1>6, <2>1 DEF CursorTells, CursorOf, Reached, Emissions
  <2>3. ASSUME graph[x] \in {"whole", "pruned"}, cursor'[x] = Reached(x)',
               NEW i \in 0 .. cursor'[x] - 1, (x[1] = "hidden" => Captured(doc, i))
        PROVE  buf'[x][i] = <<doc, i>>
    <3>1. /\ cursor[x] = at /\ Reached(x) = at /\ Rows(x) = UBatchSize
          /\ graph[x] = "pruned" => UBatchSize = 1
      BY <1>2, <1>3, <1>4, <1>6, <2>1, <2>3 DEF CursorTells, CursorOf, Reached
    <3>2. i \in Positions
      BY <1>3, <1>4, <1>6, <2>1, <2>3, Constants DEF Positions
    <3>3. buf'[x][i] = IF i \in at .. at + UBatchSize - 1 THEN SourceRow(x, i - at) ELSE buf[x][i]
      BY <1>2, <2>3, <3>1, <3>2 DEF CaptureNode, PutRows, TypeOK
    <3>4. CASE i < at
      <4>1. buf[x][i] = <<doc, i>>
        BY <1>3, <1>4, <1>6, <2>3, <3>1, <3>4 DEF CursorTells, RowsRight
      <4>2. QED
        BY <1>3, <3>3, <3>4, <4>1
    <3>5. CASE ~ (i < at)
      <4>1. i \in at .. at + UBatchSize - 1
        BY <1>3, <2>1, <2>3, <3>1, <3>5
      <4>2. SourceRow(x, i - at) = <<doc, i>>
        BY <1>3, <3>1, <4>1 DEF SourceRow
      <4>3. QED
        BY <3>3, <4>1, <4>2
    <3>6. QED
      BY <3>4, <3>5
  <2>4. RowsRight(x)' \/ graph[x] \notin {"whole", "pruned"}
    BY <1>2, <2>3 DEF RowsRight, Captured, GlobalIndex
  <2>5. QED
    BY <1>2, <1>6, <2>2, <2>4 DEF CursorTells
<1>7. QED
  BY <1>5, <1>6

LEMMA UBatchCursors ==
  ASSUME CaptureInv, UBatchDone
  PROVE  CursorsTell'
<1>1. SUFFICES ASSUME failed = "no", NEW y \in Nodes
               PROVE  CursorTells(y)'
  <2>1. failed' = failed
    BY DEF UBatchDone
  <2>2. QED
    BY <2>1 DEF CursorsTell, CursorTells
<1>2. /\ pc = "decode" /\ pending = Zero /\ TypeOK /\ Position
      /\ UNCHANGED <<mode, graph, doc, size, cursor, buf>>
      /\ at' = at + UBatchSize
      /\ \/ pc' = "decode" /\ pending' = Offered
         \/ pc' = "check" /\ pending' = pending
  BY <1>1 DEF CaptureInv, UBatchDone, inputVars
<1>3. UBatchSize \in Nat /\ at \in Nat
  BY <1>2, UBatchFits
<1>4. CursorTells(y) /\ cursor[y] \in Nat /\ pending[y] = 0 /\ graph[y] \in Emissions
  BY <1>1, <1>2, GraphType DEF CaptureInv, CursorsTell, CursorTells, TypeOK, Decoding, Zero
<1>5. pc' = "decode" =>
        pending'[y] = (CASE graph[y] = "absent" -> 0 [] graph[y] = "twice" -> 2 [] OTHER -> 1)
  BY <1>2 DEF Offered
<1>6. Reached(y) = at' /\ (graph[y] \in {"whole", "pruned"} => Reached(y)' = at')
  BY <1>2, <1>3, <1>4, <1>5 DEF Reached
<1>7. CursorOf(y)'
  BY <1>2, <1>3, <1>4, <1>5, <1>6 DEF CursorTells, CursorOf, Emissions
<1>8. graph[y] \in {"whole", "pruned"} => RowsRight(y)'
  BY <1>2, <1>4, <1>6 DEF CursorTells, RowsRight, Captured, GlobalIndex
<1>9. QED
  BY <1>2, <1>7, <1>8 DEF CursorTells

LEMMA CursorsStep ==
  ASSUME CaptureInv, [Next]_vars
  PROVE  CursorsTell'
<1>1. CASE UNCHANGED vars
  <2>1. SUFFICES ASSUME failed = "no", Decoding, NEW y \in Nodes
                 PROVE  CursorTells(y)'
    <3>1. UNCHANGED <<failed, pc>>
      BY <1>1 DEF vars
    <3>2. QED
      BY <3>1 DEF CursorsTell, CursorTells, Decoding
  <2>2. UNCHANGED <<mode, graph, pc, doc, size, at, pending, cursor, buf, failed>>
    BY <1>1 DEF vars
  <2>3. UBatchSize' = UBatchSize /\ CursorTells(y)
    BY <2>1, <2>2 DEF UBatchSize, SpanEnd, CaptureInv, CursorsTell, CursorTells
  <2>4. QED
    BY <2>2, <2>3 DEF CursorTells, CursorOf, RowsRight, Reached, Captured, GlobalIndex
<1>2. ASSUME NEW x \in Nodes, RefuseNode(x)
      PROVE  CursorsTell'
  BY <1>2 DEF RefuseNode, CursorsTell
<1>3. CASE EmptyDocument \/ LastDocument \/ DecodeFails \/ CheckFails \/ EndDocument
           \/ ShortWrite \/ Close \/ CloseFails \/ WriteStats \/ StatsLost \/ Judge
  <2>1. ~ Decoding'
    BY <1>3 DEF EmptyDocument, LastDocument, DecodeFails, CheckFails, EndDocument,
       ShortWrite, Close, CloseFails, WriteStats, StatsLost, Judge, Stop, Decoding
  <2>2. QED
    BY <2>1 DEF CursorsTell
<1>4. QED
  BY <1>1, <1>2, <1>3, BeginCursors, CaptureCursors, UBatchCursors DEF Next

-----------------------------------------------------------------------------
(* The rows of a document that has been captured in lock-step.             *)

Full == pc = "check" /\ failed = "no" /\ Lockstep

Chosen == {i \in 0 .. size - 1 : Captured(doc, i)}

LEMMA FullRows ==
  ASSUME CaptureInv, Full
  PROVE  /\ TypeOK /\ OutputTypes /\ rc = 0 /\ doc \in Docs /\ doc \in Nat
         /\ size = DocSize(doc) /\ size \in Nat /\ size > 0 /\ size <= NCtx
         /\ \A x \in Nodes : \A i \in 0 .. size - 1 :
              (x[1] = "hidden" => Captured(doc, i)) => buf[x][i] = <<doc, i>>
<1>1. /\ TypeOK /\ OutputTypes /\ rc = 0 /\ doc \in Docs /\ doc \in Nat
      /\ size = DocSize(doc) /\ size \in Nat /\ size > 0 /\ size <= NCtx /\ at = size
  BY Constants DEF Full, CaptureInv, Position, TypeOK, Decoding, Working, Docs
<1>2. ASSUME NEW x \in Nodes
      PROVE  \A i \in 0 .. size - 1 :
               (x[1] = "hidden" => Captured(doc, i)) => buf[x][i] = <<doc, i>>
  <2>1. /\ CursorTells(x) /\ cursor[x] = size /\ graph[x] \in Emissions
        /\ Reached(x) = size /\ pc = "check"
    BY <1>1, GraphType DEF Full, Lockstep, CaptureInv, CursorsTell, CursorTells, Decoding, Reached
  <2>2. graph[x] \in {"whole", "pruned"}
    BY <1>1, <2>1 DEF CursorTells, CursorOf, Emissions
  <2>3. QED
    BY <2>1, <2>2 DEF CursorTells, RowsRight
<1>3. QED
  BY <1>1, <1>2

LEMMA IndexType ==
  ASSUME NEW d \in Docs, NEW i \in Nat
  PROVE  /\ DocIds[d] * NCtx \in Nat
         /\ GlobalIndex(d, i) \in Nat /\ StoredIndex(d, i) \in Nat
         /\ GlobalIndex(d, i) = StoredIndex(d, i) <=> GlobalIndex(d, i) < IndexSpace
<1>1. \A m, n \in Nat : m * n \in Nat
  OBVIOUS
<1>2. DocIds[d] * NCtx \in Nat
  BY <1>1, Constants
<1>3. GlobalIndex(d, i) \in Nat
  BY <1>2 DEF GlobalIndex
<1>4. \A a \in Nat, n \in Nat \ {0} : a % n \in Nat /\ a % n < n /\ (a < n => a % n = a)
  OBVIOUS
<1>5. QED
  BY <1>2, <1>3, <1>4, Constants DEF StoredIndex

LEMMA ChosenPositions ==
  ASSUME CaptureInv, Full
  PROVE  /\ Chosen \in SUBSET Int /\ IsFiniteSet(Chosen)
         /\ Cardinality(Chosen) \in Nat
         /\ CapturedPositions \in [1 .. Cardinality(Chosen) -> Chosen]
         /\ CapturedPositions \in Seq(Chosen) /\ Len(CapturedPositions) = Cardinality(Chosen)
         /\ \A j, k \in 1 .. Cardinality(Chosen) :
              j < k => CapturedPositions[j] < CapturedPositions[k]
         /\ \A i \in Chosen : \E k \in 1 .. Cardinality(Chosen) : CapturedPositions[k] = i
<1>1. CapturedPositions = Ascending(Chosen)
  BY DEF CapturedPositions, Chosen
<1>2. size \in Nat
  BY FullRows
<1>3. Chosen \in SUBSET (0 .. size - 1) /\ Chosen \in SUBSET Int
  BY <1>2 DEF Chosen
<1>4. IsFiniteSet(Chosen)
  <2>1. IsFiniteSet(0 .. size - 1)
    BY <1>2, FS_Interval
  <2>2. QED
    BY <1>3, <2>1, FS_Subset
<1>5. QED
  BY <1>1, <1>3, <1>4, Ascends

LEMMA DocRowsAre ==
  ASSUME CaptureInv, Full
  PROVE  /\ DocRows.tokens \in Seq(TokenRow) /\ Len(DocRows.tokens) = size
         /\ \A i \in 1 .. size : /\ DocRows.tokens[i].row = <<doc, i - 1>>
                                 /\ DocRows.tokens[i].flag = IF Captured(doc, i - 1) THEN 1 ELSE 0
         /\ \A f \in {"topk", "logits"} :
              /\ DocRows[f] \in Seq(Row) /\ Len(DocRows[f]) = size
              /\ \A i \in 1 .. size, l \in Layers : DocRows[f][i][l] = <<doc, i - 1>>
         /\ DocRows.hidden \in Seq(Row) /\ Len(DocRows.hidden) = Cardinality(Chosen)
         /\ \A k \in 1 .. Cardinality(Chosen), l \in Layers :
              DocRows.hidden[k][l] = <<doc, CapturedPositions[k]>>
         /\ DocRows.hidden_index \in Seq(Nat)
         /\ Len(DocRows.hidden_index) = Cardinality(Chosen)
         /\ \A k \in 1 .. Cardinality(Chosen) :
              DocRows.hidden_index[k] = StoredIndex(doc, CapturedPositions[k])
<1> DEFINE n == Cardinality(Chosen)
           c == CapturedPositions
<1>1. /\ doc \in Docs /\ size \in Nat /\ size > 0 /\ size <= NCtx
      /\ \A x \in Nodes : \A i \in 0 .. size - 1 :
           (x[1] = "hidden" => Captured(doc, i)) => buf[x][i] = <<doc, i>>
  BY FullRows
<1>2. \A i \in 0 .. size - 1 : i \in Positions /\ <<doc, i>> \in Sources
  BY <1>1, Constants DEF Positions, Sources
<1>3. \A s \in {"topk", "logits", "hidden"}, l \in Layers : <<s, l>> \in Nodes /\ <<s, l>>[1] = s
  BY DEF Nodes
<1>4. n \in Nat /\ c \in [1 .. n -> Chosen] /\ c \in Seq(Chosen) /\ DOMAIN c = 1 .. n
  BY ChosenPositions
<1>5. \A k \in 1 .. n : c[k] \in 0 .. size - 1 /\ Captured(doc, c[k])
  BY <1>4 DEF Chosen
<1> HIDE DEF n, c
<1>6. /\ TokenRows \in Seq(TokenRow) /\ Len(TokenRows) = size
      /\ \A i \in 1 .. size : /\ TokenRows[i].row = <<doc, i - 1>>
                              /\ TokenRows[i].flag = IF Captured(doc, i - 1) THEN 1 ELSE 0
  <2>1. \A i \in 1 .. size : /\ TokenRows[i].row = <<doc, i - 1>>
                             /\ TokenRows[i].flag = IF Captured(doc, i - 1) THEN 1 ELSE 0
                             /\ TokenRows[i] \in TokenRow
    <3>1. \A i \in 1 .. size : i - 1 \in 0 .. size - 1
      BY <1>1
    <3>2. QED
      BY <1>2, <3>1 DEF TokenRows, TokenRow
  <2>2. TokenRows \in [1 .. size -> TokenRow]
    BY <2>1 DEF TokenRows
  <2>3. QED
    BY <1>1, <2>1, <2>2
<1>7. ASSUME NEW s \in {"topk", "logits", "hidden"}, NEW m \in Nat, NEW ps \in [1 .. m -> 0 .. size - 1],
             s = "hidden" => \A k \in 1 .. m : Captured(doc, ps[k])
      PROVE  /\ StreamRows(s, ps) \in Seq(Row) /\ Len(StreamRows(s, ps)) = m
             /\ \A k \in 1 .. m, l \in Layers : StreamRows(s, ps)[k][l] = <<doc, ps[k]>>
  <2>1. \A k \in 1 .. m, l \in Layers : buf[<<s, l>>][ps[k]] = <<doc, ps[k]>>
    BY <1>1, <1>3, <1>7
  <2>2. \A k \in 1 .. m : /\ StreamRows(s, ps)[k] = [l \in Layers |-> <<doc, ps[k]>>]
                          /\ StreamRows(s, ps)[k] \in Row
    BY <1>2, <2>1 DEF StreamRows, Row
  <2>3. StreamRows(s, ps) \in [1 .. m -> Row]
    BY <2>2 DEF StreamRows
  <2>4. QED
    BY <2>2, <2>3
<1>8. DocPositions \in [1 .. size -> 0 .. size - 1] /\ \A i \in 1 .. size : DocPositions[i] = i - 1
  BY <1>1 DEF DocPositions
<1>9. ASSUME NEW s \in {"topk", "logits"}
      PROVE  /\ StreamRows(s, DocPositions) \in Seq(Row)
             /\ Len(StreamRows(s, DocPositions)) = size
             /\ \A i \in 1 .. size, l \in Layers :
                  StreamRows(s, DocPositions)[i][l] = <<doc, i - 1>>
  BY <1>1, <1>7, <1>8
<1>10. /\ StreamRows("hidden", c) \in Seq(Row) /\ Len(StreamRows("hidden", c)) = n
       /\ \A k \in 1 .. n, l \in Layers : StreamRows("hidden", c)[k][l] = <<doc, c[k]>>
  <2>1. c \in [1 .. n -> 0 .. size - 1]
    BY <1>4, <1>5
  <2>2. QED
    BY <1>4, <1>5, <1>7, <2>1
<1> DEFINE h == [k \in DOMAIN c |-> StoredIndex(doc, c[k])]
<1>11. h \in Seq(Nat) /\ Len(h) = n /\ \A k \in 1 .. n : h[k] = StoredIndex(doc, c[k])
  <2>1. \A k \in 1 .. n : StoredIndex(doc, c[k]) \in Nat
    BY <1>1, <1>5, IndexType
  <2>2. h \in [1 .. n -> Nat]
    BY <1>4, <2>1
  <2>3. QED
    BY <1>4, <2>2
<1>12. /\ DocRows.tokens = TokenRows
       /\ DocRows.topk = StreamRows("topk", DocPositions)
       /\ DocRows.logits = StreamRows("logits", DocPositions)
       /\ DocRows.hidden = StreamRows("hidden", c)
       /\ DocRows.hidden_index = h
  BY DEF DocRows, c
<1> HIDE DEF h
<1>13. QED
  BY <1>6, <1>9, <1>10, <1>11, <1>12 DEF n, c

-----------------------------------------------------------------------------
(* What appending them to the files makes of these.                        *)

Lengths == [f \in Streams |-> IF f \in {"hidden", "hidden_index"} THEN total.captured
                              ELSE total.tokens]

LEMMA DocRowsLength ==
  ASSUME CaptureInv, Full, NEW f \in Streams
  PROVE  /\ Lengths[f] \in Nat /\ Len(files[f]) = Lengths[f]
         /\ \E T : /\ files[f] \in Seq(T) /\ DocRows[f] \in Seq(T)
                   /\ T \in {TokenRow, Row, Nat}
<1>1. /\ OutputTypes /\ SizesAgree
  BY FullRows DEF CaptureInv, FilesWhole
<1>2. Lengths[f] \in Nat /\ Len(files[f]) = Lengths[f]
  BY <1>1 DEF OutputTypes, SizesAgree, Lengths, Streams
<1>3. CASE f = "tokens"
  BY <1>1, <1>2, <1>3, DocRowsAre DEF OutputTypes
<1>4. CASE f \in {"topk", "logits", "hidden"}
  BY <1>1, <1>2, <1>4, DocRowsAre DEF OutputTypes
<1>5. CASE f = "hidden_index"
  BY <1>1, <1>2, <1>5, DocRowsAre DEF OutputTypes
<1>6. QED
  BY <1>3, <1>4, <1>5 DEF Streams

(* A file keeps its rows, and either ends there or gets the document's.    *)
LEMMA Appended ==
  ASSUME CaptureInv, Full, NEW k \in 0 .. 5, AppendRows(k), NEW f \in Streams
  PROVE  /\ files'[f] \in {files[f], files[f] \o DocRows[f]}
         /\ k = 5 => files'[f] = files[f] \o DocRows[f]
         /\ Len(files'[f]) = Lengths[f] \/ Len(files'[f]) = Lengths[f] + Len(DocRows[f])
         /\ k = 5 => Len(files'[f]) = Lengths[f] + Len(DocRows[f])
         /\ \A i \in DOMAIN files'[f] :
              \/ i \in 1 .. Lengths[f] /\ i \in DOMAIN files[f] /\ files'[f][i] = files[f][i]
              \/ /\ i - Lengths[f] \in 1 .. Len(DocRows[f])
                 /\ files'[f][i] = DocRows[f][i - Lengths[f]]
<1> DEFINE a == files[f]
           b == DocRows[f]
           n == Lengths[f]
<1>1. DOMAIN files = Streams
  BY FullRows DEF OutputTypes
<1>2. files'[f] \in {a, a \o b} /\ (k = 5 => files'[f] = a \o b)
  <2>1. k = 5 => \E j \in 1 .. k : FileOrder[j] = f
    BY DEF FileOrder, Streams
  <2>2. QED
    BY <1>1, <2>1 DEF AppendRows
<1>3. PICK T : a \in Seq(T) /\ b \in Seq(T)
  BY DocRowsLength
<1>4. Len(a) = n /\ n \in Nat
  BY DocRowsLength
<1> HIDE DEF a, b, n
<1>5. /\ a \o b \in Seq(T) /\ Len(a \o b) = n + Len(b)
      /\ \A i \in 1 .. n + Len(b) : (a \o b)[i] = IF i <= n THEN a[i] ELSE b[i - n]
  BY <1>3, <1>4, ConcatProperties
<1>6. Len(b) \in Nat /\ DOMAIN a = 1 .. n /\ DOMAIN (a \o b) = 1 .. n + Len(b)
  BY <1>3, <1>4, <1>5
<1>7. ASSUME NEW i \in DOMAIN files'[f]
      PROVE  \/ i \in 1 .. n /\ i \in DOMAIN a /\ files'[f][i] = a[i]
             \/ i - n \in 1 .. Len(b) /\ files'[f][i] = b[i - n]
  <2>1. CASE files'[f] = a
    BY <1>6, <1>7, <2>1
  <2>2. CASE files'[f] = a \o b
    <3>1. i \in 1 .. n + Len(b) /\ files'[f][i] = IF i <= n THEN a[i] ELSE b[i - n]
      BY <1>5, <1>6, <1>7, <2>2
    <3>2. QED
      BY <1>4, <1>6, <3>1
  <2>3. QED
    BY <1>2, <2>1, <2>2
<1>8. Len(files'[f]) = n \/ Len(files'[f]) = n + Len(b)
  BY <1>2, <1>4, <1>5
<1>9. k = 5 => Len(files'[f]) = n + Len(b)
  BY <1>2, <1>5
<1>10. QED
  BY <1>2, <1>7, <1>8, <1>9 DEF a, b, n

LEMMA AppendedTypes ==
  ASSUME CaptureInv, Full, NEW k \in 0 .. 5, AppendRows(k)
  PROVE  /\ files' = [f \in Streams |-> files'[f]]
         /\ files'.tokens \in Seq(TokenRow)
         /\ \A f \in {"topk", "logits", "hidden"} : files'[f] \in Seq(Row)
         /\ files'.hidden_index \in Seq(Nat)
<1>1. files = [f \in Streams |-> files[f]]
  BY FullRows DEF OutputTypes
<1>2. files' = [f \in Streams |-> files'[f]]
  BY <1>1 DEF AppendRows
<1>3. \A T, s, t : s \in Seq(T) /\ t \in Seq(T) => s \o t \in Seq(T)
  OBVIOUS
<1>4. \A f \in Streams : files'[f] = files[f] \/ files'[f] = files[f] \o DocRows[f]
  BY Appended
<1>5. /\ files.tokens \in Seq(TokenRow) /\ DocRows.tokens \in Seq(TokenRow)
      /\ \A f \in {"topk", "logits", "hidden"} : files[f] \in Seq(Row) /\ DocRows[f] \in Seq(Row)
      /\ files.hidden_index \in Seq(Nat) /\ DocRows.hidden_index \in Seq(Nat)
  BY FullRows, DocRowsAre DEF OutputTypes
<1>6. files'.tokens \in Seq(TokenRow) /\ files'.hidden_index \in Seq(Nat)
  BY <1>3, <1>4, <1>5 DEF Streams
<1>7. ASSUME NEW f \in {"topk", "logits", "hidden"}
      PROVE  files'[f] \in Seq(Row)
  BY <1>3, <1>4, <1>5 DEF Streams
<1>8. QED
  BY <1>2, <1>6, <1>7

LEMMA AppendedAligned ==
  ASSUME CaptureInv, Full, NEW k \in 0 .. 5, AppendRows(k)
  PROVE  StreamsAligned'
<1>1. StreamsAligned /\ OutputTypes
  BY DEF CaptureInv
<1>2. /\ Lengths["topk"] = Lengths["tokens"] /\ Lengths["logits"] = Lengths["tokens"]
      /\ Lengths["hidden"] = Lengths["hidden_index"]
      /\ \A f \in Streams : Lengths[f] \in Nat
  BY DocRowsLength DEF Lengths, Streams
<1>3. ASSUME NEW f \in {"topk", "logits"}, NEW i \in DOMAIN files'.tokens, i \in DOMAIN files'[f],
             NEW l \in Layers
      PROVE  files'[f][i][l] = files'.tokens[i].row
  <2> DEFINE n == Lengths["tokens"]
  <2>1. \/ i \in 1 .. n /\ i \in DOMAIN files.tokens /\ files'.tokens[i] = files.tokens[i]
        \/ /\ i - n \in 1 .. Len(DocRows.tokens)
           /\ files'.tokens[i] = DocRows.tokens[i - n]
    BY Appended DEF Streams
  <2>2. \/ i \in 1 .. n /\ i \in DOMAIN files[f] /\ files'[f][i] = files[f][i]
        \/ i - n \in 1 .. Len(DocRows[f]) /\ files'[f][i] = DocRows[f][i - n]
    <3>1. f \in Streams /\ Lengths[f] = n
      BY <1>2 DEF Streams
    <3>2. QED
      BY <1>3, <3>1, Appended
  <2>3. ~ (i \in 1 .. n /\ i - n \in 1 .. Len(DocRows[f]))
        /\ ~ (i \in 1 .. n /\ i - n \in 1 .. Len(DocRows.tokens))
    BY <1>2, DocRowsAre DEF Streams
  <2>4. CASE i \in 1 .. n
    BY <1>1, <2>1, <2>2, <2>3, <2>4 DEF StreamsAligned
  <2>5. CASE i \notin 1 .. n
    <3>1. i - n \in 1 .. size
      BY <2>1, <2>5, DocRowsAre
    <3>2. /\ files'.tokens[i] = DocRows.tokens[i - n]
          /\ files'[f][i] = DocRows[f][i - n]
      BY <2>1, <2>2, <2>5
    <3> DEFINE j == i - n
    <3>3. j \in 1 .. size /\ files'.tokens[i] = DocRows.tokens[j] /\ files'[f][i] = DocRows[f][j]
      BY <3>1, <3>2
    <3> HIDE DEF j
    <3>4. DocRows.tokens[j].row = <<doc, j - 1>> /\ DocRows[f][j][l] = <<doc, j - 1>>
      BY <3>3, DocRowsAre
    <3>5. QED
      BY <3>3, <3>4
  <2>6. QED
    BY <2>4, <2>5
<1>4. ASSUME NEW i \in DOMAIN files'.hidden, i \in DOMAIN files'.hidden_index, NEW l \in Layers
      PROVE  LET row == files'.hidden[i][l]
             IN  row \in Sources /\ files'.hidden_index[i] = StoredIndex(row[1], row[2])
  <2> DEFINE n == Lengths["hidden"]
  <2>1. \/ i \in 1 .. n /\ i \in DOMAIN files.hidden /\ files'.hidden[i] = files.hidden[i]
        \/ i - n \in 1 .. Len(DocRows.hidden) /\ files'.hidden[i] = DocRows.hidden[i - n]
    BY Appended DEF Streams
  <2>2. \/ /\ i \in 1 .. n /\ i \in DOMAIN files.hidden_index
           /\ files'.hidden_index[i] = files.hidden_index[i]
        \/ /\ i - n \in 1 .. Len(DocRows.hidden_index)
           /\ files'.hidden_index[i] = DocRows.hidden_index[i - n]
    <3>1. "hidden_index" \in Streams /\ Lengths["hidden_index"] = n
      BY <1>2 DEF Streams
    <3>2. QED
      BY <1>4, <3>1, Appended
  <2>3. /\ ~ (i \in 1 .. n /\ i - n \in 1 .. Len(DocRows.hidden))
        /\ ~ (i \in 1 .. n /\ i - n \in 1 .. Len(DocRows.hidden_index))
    BY <1>2, DocRowsAre DEF Streams
  <2>4. CASE i \in 1 .. n
    BY <1>1, <2>1, <2>2, <2>3, <2>4 DEF StreamsAligned
  <2>5. CASE i \notin 1 .. n
    <3> DEFINE p == CapturedPositions[i - n]
    <3>1. /\ i - n \in 1 .. Cardinality(Chosen)
          /\ files'.hidden[i][l] = <<doc, p>> /\ files'.hidden_index[i] = StoredIndex(doc, p)
      BY <2>1, <2>2, <2>5, DocRowsAre
    <3>2. p \in 0 .. size - 1 /\ doc \in Docs /\ size <= NCtx /\ size \in Nat
      BY <3>1, ChosenPositions, FullRows DEF Chosen
    <3>3. <<doc, p>> \in Sources
      BY <3>2, Constants DEF Sources, Positions
    <3> HIDE DEF p
    <3>4. QED
      BY <3>1, <3>3
  <2>6. QED
    BY <2>4, <2>5
<1>5. QED
  BY <1>3, <1>4 DEF StreamsAligned, Sources, GlobalIndex, StoredIndex

(* A flush that fails takes the last row of one file.                      *)
LEMMA CutTypes ==
  ASSUME CaptureInv, CloseFails
  PROVE  /\ files' = [f \in Streams |-> files'[f]]
         /\ files'.tokens \in Seq(TokenRow)
         /\ \A f \in {"topk", "logits", "hidden"} : files'[f] \in Seq(Row)
         /\ files'.hidden_index \in Seq(Nat)
         /\ \A f \in Streams : \A i \in DOMAIN files'[f] :
              i \in DOMAIN files[f] /\ files'[f][i] = files[f][i]
<1>1. OutputTypes
  BY DEF CaptureInv
<1>2. PICK g \in Streams : /\ files[g] # <<>>
                           /\ files' = [files EXCEPT ![g] = SubSeq(files[g], 1, Len(files[g]) - 1)]
  BY <1>1 DEF CloseFails, OutputTypes
<1> DEFINE cut == SubSeq(files[g], 1, Len(files[g]) - 1)
<1>3. /\ files' = [f \in Streams |-> files'[f]]
      /\ \A f \in Streams : files'[f] = IF f = g THEN cut ELSE files[f]
  BY <1>1, <1>2 DEF OutputTypes
<1>4. ASSUME NEW T, files[g] \in Seq(T)
      PROVE  /\ cut \in Seq(T)
             /\ \A i \in DOMAIN cut : i \in DOMAIN files[g] /\ cut[i] = files[g][i]
  <2> DEFINE s == files[g]
  <2>1. s \in Seq(T) /\ Len(s) \in Nat /\ DOMAIN s = 1 .. Len(s) /\ \A i \in 1 .. Len(s) : s[i] \in T
    BY <1>4
  <2> HIDE DEF s
  <2>2. \A i \in 1 .. Len(s) - 1 : s[i] \in T
    BY <2>1
  <2>3. /\ SubSeq(s, 1, Len(s) - 1) \in Seq(T)
        /\ Len(SubSeq(s, 1, Len(s) - 1)) = IF 1 <= Len(s) - 1 THEN Len(s) - 1 ELSE 0
        /\ \A i \in 1 .. Len(s) - 1 : SubSeq(s, 1, Len(s) - 1)[i] = s[i]
    BY <2>1, <2>2, SubSeqProperties
  <2>4. DOMAIN SubSeq(s, 1, Len(s) - 1) = 1 .. Len(s) - 1
    BY <2>1, <2>3
  <2>5. /\ SubSeq(s, 1, Len(s) - 1) \in Seq(T)
        /\ \A i \in DOMAIN SubSeq(s, 1, Len(s) - 1) :
             i \in DOMAIN s /\ SubSeq(s, 1, Len(s) - 1)[i] = s[i]
    BY <2>1, <2>3, <2>4
  <2>6. QED
    BY <2>5 DEF s
<1>5. /\ files.tokens \in Seq(TokenRow)
      /\ \A f \in {"topk", "logits", "hidden"} : files[f] \in Seq(Row)
      /\ files.hidden_index \in Seq(Nat)
  BY <1>1 DEF OutputTypes
<1> HIDE DEF cut
<1>6. \A f \in Streams : \A i \in DOMAIN files'[f] :
        i \in DOMAIN files[f] /\ files'[f][i] = files[f][i]
  <2>1. \E T : files[g] \in Seq(T)
    BY <1>5 DEF Streams
  <2>2. \A i \in DOMAIN cut : i \in DOMAIN files[g] /\ cut[i] = files[g][i]
    BY <1>4, <2>1
  <2>3. QED
    BY <1>3, <2>2
<1>7. files'.tokens \in Seq(TokenRow) /\ files'.hidden_index \in Seq(Nat)
  BY <1>3, <1>4, <1>5 DEF Streams
<1>8. ASSUME NEW f \in {"topk", "logits", "hidden"}
      PROVE  files'[f] \in Seq(Row)
  BY <1>3, <1>4, <1>5 DEF Streams
<1>9. QED
  BY <1>3, <1>6, <1>7, <1>8

(* The steps that write nothing.                                           *)
Silent ==
  \/ BeginDocument \/ EmptyDocument \/ LastDocument \/ UBatchDone \/ DecodeFails \/ CheckFails
  \/ Close \/ WriteStats \/ StatsLost \/ Judge \/ UNCHANGED vars
  \/ \E x \in Nodes : CaptureNode(x) \/ RefuseNode(x)

LEMMA SilentSteps == 
  ASSUME Silent
  PROVE  UNCHANGED <<files, total, doc, text>>
BY DEF Silent, BeginDocument, EmptyDocument, LastDocument, UBatchDone, DecodeFails, CheckFails,
   Close, WriteStats, StatsLost, Judge, vars, CaptureNode, RefuseNode, outVars, docVars, inputVars

LEMMA OutputStep ==
  ASSUME CaptureInv, [Next]_vars
  PROVE  OutputTypes' /\ StreamsAligned'
<1>1. OutputTypes /\ StreamsAligned
  BY DEF CaptureInv
<1>2. CASE Silent
  <2>1. UNCHANGED <<files, total>>
    BY <1>2, SilentSteps
  <2>2. OutputTypes'
    BY <1>1, <2>1 DEF OutputTypes, Row, TokenRow, Sources
  <2>3. StreamsAligned'
    BY <1>1, <2>1 DEF StreamsAligned, Sources, GlobalIndex, StoredIndex
  <2>4. QED
    BY <2>2, <2>3
<1>3. CASE EndDocument
  <2>1. Full /\ AppendRows(5) /\ 5 \in 0 .. 5
    BY <1>3 DEF EndDocument, Full
  <2>2. total' \in [docs : Nat, tokens : Nat, captured : Nat]
    <3>1. size \in Nat /\ Len(CapturedPositions) \in Nat
      BY <2>1, FullRows, ChosenPositions
    <3>2. total.docs + 1 \in Nat /\ total.tokens + size \in Nat
          /\ total.captured + Len(CapturedPositions) \in Nat
      BY <1>1, <3>1 DEF OutputTypes
    <3> HIDE DEF CapturedPositions
    <3>3. QED
      BY <1>3, <3>2 DEF EndDocument
  <2>3. OutputTypes'
    BY <2>1, <2>2, AppendedTypes DEF OutputTypes, Row, TokenRow, Sources
  <2>4. QED
    BY <2>1, <2>3, AppendedAligned
<1>4. CASE ShortWrite
  <2>1. PICK k \in 0 .. 4 : AppendRows(k)
    BY <1>4 DEF ShortWrite
  <2>2. Full /\ k \in 0 .. 5 /\ total' = total
    BY <1>4 DEF ShortWrite, Full
  <2>3. OutputTypes'
    BY <1>1, <2>1, <2>2, AppendedTypes DEF OutputTypes, Row, TokenRow, Sources
  <2>4. QED
    BY <2>1, <2>2, <2>3, AppendedAligned
<1>5. CASE CloseFails
  <2>1. total' = total
    BY <1>5 DEF CloseFails
  <2>2. OutputTypes'
    BY <1>1, <1>5, <2>1, CutTypes DEF OutputTypes, Row, TokenRow, Sources
  <2>3. \A f \in Streams : \A i \in DOMAIN files'[f] :
          i \in DOMAIN files[f] /\ files'[f][i] = files[f][i]
    BY <1>5, CutTypes
  <2>4. StreamsAligned'
    BY <1>1, <2>3 DEF StreamsAligned, Sources, GlobalIndex, StoredIndex, Streams
  <2>5. QED
    BY <2>2, <2>4
<1>6. QED
  BY <1>2, <1>3, <1>4, <1>5 DEF Next, Silent

-----------------------------------------------------------------------------
(* The whole files.                                                        *)

LEMMA EndSizes ==
  ASSUME CaptureInv, EndDocument
  PROVE  /\ Full /\ AppendRows(5) /\ doc' = doc + 1 /\ text' = text /\ rc = 0 /\ rc' = 0
         /\ total'.tokens = total.tokens + size
         /\ total'.captured = total.captured + Cardinality(Chosen)
         /\ \A f \in Streams : files'[f] = files[f] \o DocRows[f]
         /\ SizesAgree /\ SizesAgree'
<1>1. /\ Full /\ AppendRows(5) /\ doc' = doc + 1 /\ text' = text /\ rc' = rc /\ 5 \in 0 .. 5
      /\ total'.tokens = total.tokens + size
      /\ total'.captured = total.captured + Len(CapturedPositions)
  BY DEF EndDocument, Full, inputVars
<1>2. rc = 0 /\ SizesAgree
  BY <1>1, FullRows DEF CaptureInv, FilesWhole
<1>3. ASSUME NEW f \in Streams
      PROVE  /\ files'[f] = files[f] \o DocRows[f]
             /\ Len(files'[f]) = Len(files[f]) + Len(DocRows[f])
  BY <1>1, Appended, DocRowsLength
<1>4. \A f \in {"tokens", "topk", "logits"} : Len(files'[f]) = total'.tokens
  <2>1. ASSUME NEW f \in {"tokens", "topk", "logits"}
        PROVE  Len(files'[f]) = total'.tokens
    <3>1. f \in Streams /\ Len(files[f]) = total.tokens
      BY <1>2 DEF SizesAgree, Streams
    <3>2. Len(DocRows[f]) = size
      BY <1>1, DocRowsAre
    <3>3. QED
      BY <1>1, <1>3, <3>1, <3>2
  <2>2. QED
    BY <2>1
<1>5. \A f \in {"hidden", "hidden_index"} : Len(files'[f]) = total'.captured
  <2>1. ASSUME NEW f \in {"hidden", "hidden_index"}
        PROVE  Len(files'[f]) = total'.captured
    <3>1. f \in Streams /\ Len(files[f]) = total.captured
      BY <1>2 DEF SizesAgree, Streams
    <3>2. Len(DocRows[f]) = Len(CapturedPositions)
      BY <1>1, DocRowsAre, ChosenPositions
    <3>3. QED
      BY <1>1, <1>3, <3>1, <3>2
  <2>2. QED
    BY <2>1
<1>6. SizesAgree'
  BY <1>4, <1>5 DEF SizesAgree
<1>7. Len(CapturedPositions) = Cardinality(Chosen)
  BY <1>1, ChosenPositions
<1>8. QED
  BY <1>1, <1>2, <1>3, <1>6, <1>7

(* The token rows are those of before, and the document's.                 *)
LEMMA EndTokens ==
  ASSUME CaptureInv, EndDocument
  PROVE  \E n \in Nat, old \in Seq(TokenRow), new \in Seq(TokenRow) :
           /\ n = total.tokens /\ old = files.tokens /\ new = files'.tokens
           /\ DOMAIN old = 1 .. n /\ DOMAIN new = 1 .. n + size
           /\ \A i \in 1 .. n : new[i] = old[i]
           /\ \A i \in n + 1 .. n + size :
                /\ new[i].row = <<doc, i - n - 1>>
                /\ new[i].flag = IF Captured(doc, i - n - 1) THEN 1 ELSE 0
<1> DEFINE a == files.tokens
           b == DocRows.tokens
           n == Len(a)
           c == a \o b
<1>1. Full /\ files'.tokens = c /\ n = total.tokens
  BY EndSizes DEF Streams, SizesAgree
<1>2. /\ a \in Seq(TokenRow) /\ b \in Seq(TokenRow) /\ Len(b) = size
      /\ \A i \in 1 .. size : /\ b[i].row = <<doc, i - 1>>
                              /\ b[i].flag = IF Captured(doc, i - 1) THEN 1 ELSE 0
  BY <1>1, FullRows, DocRowsAre DEF OutputTypes
<1> HIDE DEF a, b
<1>3. /\ n \in Nat /\ DOMAIN a = 1 .. n /\ c \in Seq(TokenRow) /\ Len(c) = n + size
      /\ \A i \in 1 .. n + size : c[i] = IF i <= n THEN a[i] ELSE b[i - n]
  <2>1. a \in Seq(TokenRow) /\ b \in Seq(TokenRow)
    BY <1>2
  <2>2. /\ c \in Seq(TokenRow) /\ Len(c) = Len(a) + Len(b)
        /\ \A i \in 1 .. Len(a) + Len(b) : c[i] = IF i <= Len(a) THEN a[i] ELSE b[i - Len(a)]
    BY <2>1, ConcatProperties
  <2>3. Len(b) = size
    BY <1>2
  <2>4. QED
    BY <2>1, <2>2, <2>3
<1> HIDE DEF c, n
<1>4. DOMAIN c = 1 .. n + size /\ size \in Nat
  BY <1>1, <1>3, FullRows
<1>5. \A i \in 1 .. n : c[i] = a[i]
  BY <1>3, <1>4
<1>6. ASSUME NEW i \in n + 1 .. n + size
      PROVE  /\ c[i].row = <<doc, i - n - 1>>
             /\ c[i].flag = IF Captured(doc, i - n - 1) THEN 1 ELSE 0
  <2>1. i \in 1 .. n + size /\ ~ (i <= n) /\ i - n \in 1 .. size
    BY <1>3, <1>4
  <2>2. c[i] = b[i - n]
    BY <1>3, <2>1
  <2>3. QED
    BY <1>2, <2>1, <2>2
<1>7. \E old \in Seq(TokenRow), new \in Seq(TokenRow) :
           /\ n = total.tokens /\ old = files.tokens /\ new = files'.tokens
           /\ DOMAIN old = 1 .. n /\ DOMAIN new = 1 .. n + size
           /\ \A i \in 1 .. n : new[i] = old[i]
           /\ \A i \in n + 1 .. n + size :
                /\ new[i].row = <<doc, i - n - 1>>
                /\ new[i].flag = IF Captured(doc, i - n - 1) THEN 1 ELSE 0
  <2>1. a = files.tokens
    BY DEF a
  <2>2. QED
    BY <1>1, <1>2, <1>3, <1>4, <1>5, <1>6, <2>1, Zenon
<1>8. QED
  BY <1>3, <1>7, Zenon

LEMMA EndFiles ==
  ASSUME CaptureInv, EndDocument
  PROVE  FilesWhole'
<1>1. /\ Full /\ doc' = doc + 1 /\ text' = text /\ rc = 0 /\ SizesAgree'
  BY EndSizes
<1>2. doc \in Nat /\ doc > 0 /\ size = DocSize(doc) /\ size \in Nat /\ size > 0 /\ FilesWhole
  BY <1>1, FullRows, Constants DEF Docs, CaptureInv
<1>3. \A d : DocSize(d)' = DocSize(d)
  BY <1>1 DEF DocSize
<1>4. PICK n \in Nat, old \in Seq(TokenRow), new \in Seq(TokenRow) :
           /\ n = total.tokens /\ old = files.tokens /\ new = files'.tokens
           /\ DOMAIN old = 1 .. n /\ DOMAIN new = 1 .. n + size
           /\ \A i \in 1 .. n : new[i] = old[i]
           /\ \A i \in n + 1 .. n + size :
                /\ new[i].row = <<doc, i - n - 1>>
                /\ new[i].flag = IF Captured(doc, i - n - 1) THEN 1 ELSE 0
  BY EndTokens
<1>5. /\ \A d \in 1 .. doc - 1 : \A p \in 0 .. DocSize(d) - 1 :
           \E i \in 1 .. n : old[i].row = <<d, p>>
      /\ \A i \in 1 .. n :
           \E d \in 1 .. doc - 1 : \E p \in 0 .. DocSize(d) - 1 : old[i].row = <<d, p>>
      /\ \A i, j \in 1 .. n : old[i].row = old[j].row => i = j
  <2>1. DOMAIN old = 1 .. n /\ old = files.tokens
    BY <1>4
  <2>2. /\ \A d \in 1 .. doc - 1 : \A p \in 0 .. DocSize(d) - 1 :
             \E i \in DOMAIN files.tokens : files.tokens[i].row = <<d, p>>
        /\ \A i \in DOMAIN files.tokens :
             \E d \in 1 .. doc - 1 : \E p \in 0 .. DocSize(d) - 1 : files.tokens[i].row = <<d, p>>
        /\ \A i, j \in DOMAIN files.tokens :
             files.tokens[i].row = files.tokens[j].row => i = j
    BY <1>1, <1>2 DEF FilesWhole
  <2>3. DOMAIN files.tokens = 1 .. n
    BY <2>1
  <2>4. ASSUME NEW d \in 1 .. doc - 1, NEW p \in 0 .. DocSize(d) - 1
        PROVE  \E i \in 1 .. n : old[i].row = <<d, p>>
    BY <2>1, <2>2, <2>3, Zenon
  <2>5. ASSUME NEW i \in 1 .. n
        PROVE  \E d \in 1 .. doc - 1 : \E p \in 0 .. DocSize(d) - 1 : old[i].row = <<d, p>>
    <3>1. i \in DOMAIN files.tokens /\ files.tokens[i] = old[i]
      BY <2>1, <2>3
    <3>2. PICK d \in 1 .. doc - 1 :
            \E p \in 0 .. DocSize(d) - 1 : files.tokens[i].row = <<d, p>>
      BY <2>2, <3>1
    <3>3. PICK p \in 0 .. DocSize(d) - 1 : files.tokens[i].row = <<d, p>>
      BY <3>2
    <3>4. old[i].row = <<d, p>>
      BY <3>1, <3>3
    <3>5. QED
      BY <3>4
  <2>6. ASSUME NEW i \in 1 .. n, NEW j \in 1 .. n, old[i].row = old[j].row
        PROVE  i = j
    BY <2>1, <2>2, <2>3, <2>6, Zenon
  <2>7. QED
    BY <2>4, <2>5, <2>6
<1>6. \A i \in 1 .. n + size : i \in 1 .. n \/ i \in n + 1 .. n + size
  BY <1>2
<1>7. ASSUME NEW d \in 1 .. doc, NEW p \in 0 .. DocSize(d) - 1
      PROVE  \E i \in 1 .. n + size : new[i].row = <<d, p>>
  <2>1. CASE d = doc
    <3> DEFINE i == n + p + 1
    <3>1. i \in n + 1 .. n + size /\ i \in 1 .. n + size /\ i - n - 1 = p
      BY <1>2, <2>1
    <3> HIDE DEF i
    <3>2. new[i].row = <<d, p>>
      BY <1>4, <2>1, <3>1
    <3>3. QED
      BY <3>1, <3>2
  <2>2. CASE d # doc
    <3>1. d \in 1 .. doc - 1
      BY <1>2, <2>2
    <3>2. PICK i \in 1 .. n : old[i].row = <<d, p>>
      BY <1>5, <3>1
    <3>3. new[i] = old[i]
      BY <1>4
    <3>4. new[i].row = <<d, p>>
      BY <3>2, <3>3
    <3>5. i \in 1 .. n + size
      BY <1>2
    <3>6. QED
      BY <3>4, <3>5
  <2>3. QED
    BY <2>1, <2>2
<1>8. ASSUME NEW i \in n + 1 .. n + size
      PROVE  new[i].row = <<doc, i - n - 1>> /\ i - n - 1 \in 0 .. DocSize(doc) - 1
  <2>1. new[i].row = <<doc, i - n - 1>>
    BY <1>4
  <2>2. i - n - 1 \in 0 .. size - 1
    BY <1>2
  <2>3. QED
    BY <1>2, <2>1, <2>2
<1>9. ASSUME NEW i \in 1 .. n
      PROVE  \E d \in 1 .. doc - 1 : \E p \in 0 .. DocSize(d) - 1 : new[i].row = <<d, p>>
  <2>1. new[i] = old[i]
    BY <1>4
  <2>2. QED
    BY <1>5, <2>1
<1>10. ASSUME NEW i \in 1 .. n + size
       PROVE  \E d \in 1 .. doc : \E p \in 0 .. DocSize(d) - 1 : new[i].row = <<d, p>>
  <2>1. doc \in 1 .. doc /\ \A d \in 1 .. doc - 1 : d \in 1 .. doc
    BY <1>2
  <2>2. QED
    BY <1>6, <1>8, <1>9, <2>1
<1>11. ASSUME NEW i \in 1 .. n + size, NEW j \in 1 .. n + size, new[i].row = new[j].row
       PROVE  i = j
  <2>1. CASE i \in 1 .. n /\ j \in 1 .. n
    <3>1. old[i].row = old[j].row
      BY <1>4, <1>11, <2>1
    <3>2. QED
      BY <1>5, <2>1, <3>1
  <2>2. CASE i \in n + 1 .. n + size /\ j \in n + 1 .. n + size
    <3>1. <<doc, i - n - 1>> = <<doc, j - n - 1>>
      BY <1>8, <1>11, <2>2
    <3>2. i - n - 1 = j - n - 1 /\ i \in Int /\ j \in Int
      BY <1>2, <3>1
    <3>3. QED
      BY <3>2
  <2>3. ASSUME NEW a \in 1 .. n, NEW b \in n + 1 .. n + size
        PROVE  new[a].row # new[b].row
    <3>1. PICK d \in 1 .. doc - 1 : \E p \in 0 .. DocSize(d) - 1 : new[a].row = <<d, p>>
      BY <1>9
    <3>2. new[b].row = <<doc, b - n - 1>> /\ d # doc
      BY <1>2, <1>8
    <3>3. QED
      BY <3>1, <3>2
  <2>4. QED
    BY <1>6, <1>11, <2>1, <2>2, <2>3
<1>12. doc' - 1 = doc /\ rc' = rc
  BY <1>1, <1>2, EndSizes
<1>13. QED
  <2>1. DOMAIN files'.tokens = 1 .. n + size /\ files'.tokens = new
    BY <1>4
  <2>2. /\ \A d \in 1 .. doc' - 1 : \A p \in 0 .. DocSize(d)' - 1 :
             \E i \in DOMAIN files'.tokens : files'.tokens[i].row = <<d, p>>
        /\ \A i \in DOMAIN files'.tokens :
             \E d \in 1 .. doc' - 1 : \E p \in 0 .. DocSize(d)' - 1 : files'.tokens[i].row = <<d, p>>
        /\ \A i, j \in DOMAIN files'.tokens :
             files'.tokens[i].row = files'.tokens[j].row => i = j
    BY <1>3, <1>7, <1>10, <1>11, <1>12, <2>1
  <2>3. QED
    BY <1>1, <2>2, Zenon DEF FilesWhole

LEMMA FilesStep ==
  ASSUME CaptureInv, [Next]_vars
  PROVE  FilesWhole'
<1>1. FilesWhole /\ OutputTypes
  BY DEF CaptureInv
<1>2. CASE Silent
  <2>1. UNCHANGED <<files, total, doc, text>>
    BY <1>2, SilentSteps
  <2>2. rc' = 0 => rc = 0
    BY <1>2 DEF Silent, BeginDocument, EmptyDocument, LastDocument, UBatchDone, DecodeFails,
       CheckFails, Close, WriteStats, StatsLost, Judge, Stop, vars, CaptureNode, RefuseNode
  <2>3. \A d : DocSize(d)' = DocSize(d)
    BY <2>1 DEF DocSize
  <2>4. SizesAgree' <=> SizesAgree
    BY <2>1 DEF SizesAgree
  <2>5. QED
    BY <1>1, <2>1, <2>2, <2>3, <2>4 DEF FilesWhole
<1>3. CASE ShortWrite \/ CloseFails
  <2>1. rc' # 0
    BY <1>3 DEF ShortWrite, CloseFails, Stop
  <2>2. QED
    BY <2>1 DEF FilesWhole
<1>4. QED
  BY <1>2, <1>3, EndFiles DEF Next, Silent

-----------------------------------------------------------------------------
(* The hidden rows and the tokens flagged.                                 *)

(* The flagged tokens are those of before, and the chosen positions of the *)
(* document behind the tokens of before.                                   *)
Flagged(s) == {i \in DOMAIN s : s[i].flag = 1}

Behind(n) == {n + 1 + p : p \in Chosen}

LEMMA EndFlags ==
  ASSUME CaptureInv, EndDocument
  PROVE  \E n \in Nat, old \in Seq(TokenRow), new \in Seq(TokenRow) :
           /\ old = files.tokens /\ new = files'.tokens
           /\ DOMAIN old = 1 .. n
           /\ \A i \in 1 .. n : new[i] = old[i]
           /\ \A p \in Chosen : new[n + 1 + p].row = <<doc, p>>
           /\ Flagged(old) \in SUBSET Int /\ IsFiniteSet(Flagged(old))
           /\ Behind(n) \in SUBSET Int
           /\ Flagged(new) = Flagged(old) \union Behind(n)
           /\ \A x \in Flagged(old), y \in Behind(n) : x < y
<1>1. PICK n \in Nat, old \in Seq(TokenRow), new \in Seq(TokenRow) :
           /\ n = total.tokens /\ old = files.tokens /\ new = files'.tokens
           /\ DOMAIN old = 1 .. n /\ DOMAIN new = 1 .. n + size
           /\ \A i \in 1 .. n : new[i] = old[i]
           /\ \A i \in n + 1 .. n + size :
                /\ new[i].row = <<doc, i - n - 1>>
                /\ new[i].flag = IF Captured(doc, i - n - 1) THEN 1 ELSE 0
  BY EndTokens
<1>2. size \in Nat
  BY EndSizes, FullRows
<1>3. Chosen \in SUBSET Int /\ \A p \in Chosen : p \in 0 .. size - 1 /\ Captured(doc, p)
  BY <1>2 DEF Chosen
<1> DEFINE F == {i \in DOMAIN old : old[i].flag = 1}
           R == {n + 1 + p : p \in Chosen}
<1>4. F \in SUBSET (1 .. n) /\ F \in SUBSET Int
  BY <1>1
<1>5. R \in SUBSET Int
  BY <1>3
<1>6. IsFiniteSet(F)
  <2>1. IsFiniteSet(1 .. n)
    BY FS_Interval
  <2>2. QED
    BY <1>4, <2>1, FS_Subset
<1>7. ASSUME NEW p \in Chosen
      PROVE  /\ n + 1 + p \in n + 1 .. n + size /\ n + 1 + p \in 1 .. n + size
             /\ n + 1 + p > n
             /\ new[n + 1 + p].row = <<doc, p>> /\ new[n + 1 + p].flag = 1
  <2> DEFINE i == n + 1 + p
  <2>1. p \in Int /\ p \in 0 .. size - 1
    BY <1>3
  <2>2. i \in n + 1 .. n + size /\ i \in 1 .. n + size /\ i > n /\ i - n - 1 = p
    BY <1>2, <2>1
  <2> HIDE DEF i
  <2>3. new[i].row = <<doc, i - n - 1>> /\ new[i].flag = IF Captured(doc, i - n - 1) THEN 1 ELSE 0
    BY <1>1, <2>2
  <2>4. new[i].row = <<doc, p>> /\ new[i].flag = 1
    BY <1>3, <2>2, <2>3
  <2>5. QED
    BY <2>2, <2>4 DEF i
<1>8. ASSUME NEW i \in 1 .. n + size
      PROVE  new[i].flag = 1 <=> i \in F \union R
  <2>1. CASE i \in 1 .. n
    <3>1. i \notin R
      BY <1>7, <2>1
    <3>2. new[i] = old[i] /\ i \in DOMAIN old
      BY <1>1, <2>1
    <3>3. QED
      BY <3>1, <3>2
  <2>2. CASE i \notin 1 .. n
    <3>1. i \in n + 1 .. n + size /\ i - n - 1 \in 0 .. size - 1 /\ i = n + 1 + (i - n - 1)
      BY <1>2, <2>2
    <3>2. new[i].flag = IF Captured(doc, i - n - 1) THEN 1 ELSE 0
      BY <1>1, <3>1
    <3>3. Captured(doc, i - n - 1) <=> i - n - 1 \in Chosen
      BY <3>1 DEF Chosen
    <3>4. i \notin F
      BY <1>4, <2>2
    <3>5. i \in R <=> i - n - 1 \in Chosen
      <4>1. ASSUME NEW p \in Chosen, i = n + 1 + p
            PROVE  p = i - n - 1
        BY <1>3, <4>1
      <4>2. QED
        BY <3>1, <4>1
    <3>6. QED
      BY <3>2, <3>3, <3>4, <3>5
  <2>3. QED
    BY <2>1, <2>2
<1>9. {i \in DOMAIN new : new[i].flag = 1} = F \union R
  <2>1. R \in SUBSET (1 .. n + size) /\ F \in SUBSET (1 .. n + size)
    BY <1>2, <1>4, <1>7
  <2>2. DOMAIN new = 1 .. n + size
    BY <1>1
  <2> HIDE DEF F, R
  <2>3. QED
    BY <1>8, <2>1, <2>2
<1>10. \A x \in F, y \in R : x < y
  <2>1. \A x \in F : x \in 1 .. n
    BY <1>4
  <2>2. \A y \in R : y \in Int /\ y > n
    BY <1>5, <1>7
  <2> HIDE DEF F, R
  <2>3. QED
    BY <2>1, <2>2
<1>11. \A p \in Chosen : new[n + 1 + p].row = <<doc, p>>
  BY <1>7
<1>12. F = Flagged(old) /\ R = Behind(n) /\ Flagged(new) = {i \in DOMAIN new : new[i].flag = 1}
  BY DEF Flagged, Behind
<1> HIDE DEF F, R
<1>13. /\ n \in Nat /\ old \in Seq(TokenRow) /\ new \in Seq(TokenRow)
       /\ old = files.tokens /\ new = files'.tokens
       /\ DOMAIN old = 1 .. n
       /\ \A i \in 1 .. n : new[i] = old[i]
       /\ \A p \in Chosen : new[n + 1 + p].row = <<doc, p>>
       /\ Flagged(old) \in SUBSET Int /\ IsFiniteSet(Flagged(old))
       /\ Behind(n) \in SUBSET Int
       /\ Flagged(new) = Flagged(old) \union Behind(n)
       /\ \A x \in Flagged(old), y \in Behind(n) : x < y
  BY <1>1, <1>4, <1>5, <1>6, <1>9, <1>10, <1>11, <1>12
<1>14. QED
  BY <1>13, Zenon

LEMMA EndHidden ==
  ASSUME CaptureInv, EndDocument
  PROVE  HiddenPaired'
<1>0. PICK n \in Nat, old \in Seq(TokenRow), new \in Seq(TokenRow) :
           /\ old = files.tokens /\ new = files'.tokens
           /\ DOMAIN old = 1 .. n
           /\ \A i \in 1 .. n : new[i] = old[i]
           /\ \A p \in Chosen : new[n + 1 + p].row = <<doc, p>>
           /\ Flagged(old) \in SUBSET Int /\ IsFiniteSet(Flagged(old))
           /\ Behind(n) \in SUBSET Int
           /\ Flagged(new) = Flagged(old) \union Behind(n)
           /\ \A x \in Flagged(old), y \in Behind(n) : x < y
  BY EndFlags
<1> DEFINE F == Flagged(old)
           R == Behind(n)
<1>1. /\ old = files.tokens /\ new = files'.tokens
      /\ DOMAIN old = 1 .. n
      /\ \A i \in 1 .. n : new[i] = old[i]
      /\ \A p \in Chosen : new[n + 1 + p].row = <<doc, p>>
      /\ F \in SUBSET Int /\ R \in SUBSET Int
      /\ F = {i \in DOMAIN old : old[i].flag = 1} /\ IsFiniteSet(F)
      /\ R = {n + 1 + p : p \in Chosen}
      /\ {i \in DOMAIN new : new[i].flag = 1} = F \union R
      /\ \A x \in F, y \in R : x < y
  <2>1. F = {i \in DOMAIN old : old[i].flag = 1} /\ R = {n + 1 + p : p \in Chosen}
        /\ Flagged(new) = {i \in DOMAIN new : new[i].flag = 1}
    BY DEF Flagged, Behind
  <2>2. QED
    BY <1>0, <2>1
<1> HIDE DEF F, R
<1> DEFINE h == Cardinality(F)
           m == Cardinality(Chosen)
           a == Ascending(F)
           c == CapturedPositions
           g == Ascending(F \union R)
           s == files.hidden
           t == DocRows.hidden
           u == files'.hidden
<1>2. /\ Full /\ rc = 0 /\ HiddenPaired /\ OutputTypes /\ u = s \o t
  BY EndSizes DEF CaptureInv, Streams
<1>3. /\ h \in Nat /\ a \in [1 .. h -> F] /\ a \in Seq(F) /\ Len(a) = h
      /\ FlaggedTokens = a
  BY <1>1, Ascends DEF FlaggedTokens
<1>4. /\ Chosen \in SUBSET Int /\ IsFiniteSet(Chosen) /\ m \in Nat
      /\ c \in [1 .. m -> Chosen] /\ c = Ascending(Chosen)
      /\ t \in Seq(Row) /\ Len(t) = m
      /\ \A k \in 1 .. m, l \in Layers : t[k][l] = <<doc, c[k]>>
  BY <1>2, ChosenPositions, DocRowsAre DEF CapturedPositions, Chosen
<1>5. /\ s \in Seq(Row) /\ Len(s) = h
      /\ \A k \in 1 .. h, l \in Layers : s[k][l] = old[a[k]].row
  <2>1. s \in Seq(Row) /\ Len(s) = Len(FlaggedTokens)
        /\ \A k \in DOMAIN files.hidden, l \in Layers :
             files.hidden[k][l] = files.tokens[FlaggedTokens[k]].row
    BY <1>2 DEF HiddenPaired, OutputTypes
  <2>2. DOMAIN s = 1 .. h
    BY <1>3, <2>1
  <2>3. QED
    BY <1>1, <1>3, <2>1, <2>2
<1>6. /\ IsFiniteSet(R) /\ Cardinality(R) = m
      /\ \A k \in 1 .. m : Ascending(R)[k] = n + 1 + c[k]
  <2>1. /\ n + 1 \in Int /\ \A x \in Chosen : (n + 1) + x \in R
        /\ \A y \in R : y - (n + 1) \in Chosen
    <3>1. \A x \in Chosen : (n + 1) + x \in R
      BY <1>1
    <3>2. ASSUME NEW y \in R
          PROVE  y - (n + 1) \in Chosen
      <4>1. PICK p \in Chosen : y = n + 1 + p
        BY <1>1
      <4>2. p \in Int
        BY <1>4
      <4>3. y - (n + 1) = p
        BY <4>1, <4>2
      <4>4. QED
        BY <4>3
    <3>3. QED
      BY <3>1, <3>2
  <2>2. \A S \in SUBSET Int, b \in Int, T \in SUBSET Int :
          IsFiniteSet(S) /\ (\A x \in S : b + x \in T) /\ (\A y \in T : y - b \in S) =>
          /\ IsFiniteSet(T) /\ Cardinality(T) = Cardinality(S)
          /\ \A k \in 1 .. Cardinality(S) : Ascending(T)[k] = b + Ascending(S)[k]
    BY AscendingShift
  <2>3. /\ IsFiniteSet(R) /\ Cardinality(R) = Cardinality(Chosen)
        /\ \A k \in 1 .. Cardinality(Chosen) : Ascending(R)[k] = (n + 1) + Ascending(Chosen)[k]
    BY <1>1, <1>4, <2>1, <2>2
  <2>4. QED
    BY <1>4, <2>3
<1>7. g = a \o Ascending(R) /\ Ascending(R) \in Seq(R) /\ Len(Ascending(R)) = m
      /\ FlaggedTokens' = g
  <2>1. g = a \o Ascending(R)
    BY <1>1, <1>6, AscendingUnion
  <2>2. Ascending(R) \in Seq(R) /\ Len(Ascending(R)) = m
    BY <1>1, <1>6, Ascends
  <2>3. FlaggedTokens' = g
    BY <1>1 DEF FlaggedTokens
  <2>4. QED
    BY <2>1, <2>2, <2>3
<1> HIDE DEF h, m, a, c, g, s, t, u
<1>8. /\ g \in Seq(F \union R) /\ Len(g) = h + m
      /\ \A k \in 1 .. h + m : g[k] = IF k <= h THEN a[k] ELSE Ascending(R)[k - h]
  <2> DEFINE r == Ascending(R)
  <2>1. r \in Seq(R) /\ Len(r) = m /\ g = a \o r
    BY <1>7
  <2> HIDE DEF r
  <2>2. a \in Seq(F \union R) /\ r \in Seq(F \union R)
    BY <1>3, <2>1
  <2>3. /\ g \in Seq(F \union R) /\ Len(g) = Len(a) + Len(r)
        /\ \A k \in 1 .. Len(a) + Len(r) : g[k] = IF k <= Len(a) THEN a[k] ELSE r[k - Len(a)]
    BY <2>1, <2>2, ConcatProperties
  <2>4. QED
    BY <1>3, <2>1, <2>3 DEF r
<1>9. /\ u \in Seq(Row) /\ Len(u) = h + m
      /\ \A k \in 1 .. h + m : u[k] = IF k <= h THEN s[k] ELSE t[k - h]
  <2>1. s \in Seq(Row) /\ t \in Seq(Row)
    BY <1>4, <1>5
  <2>2. /\ s \o t \in Seq(Row) /\ Len(s \o t) = Len(s) + Len(t)
        /\ \A k \in 1 .. Len(s) + Len(t) :
             (s \o t)[k] = IF k <= Len(s) THEN s[k] ELSE t[k - Len(s)]
    BY <2>1, ConcatProperties
  <2>3. u = s \o t /\ Len(s) = h /\ Len(t) = m
    BY <1>2, <1>4, <1>5
  <2>4. QED
    BY <2>2, <2>3
<1>10. ASSUME NEW k \in 1 .. h + m, NEW l \in Layers
       PROVE  u[k][l] = new[g[k]].row
  <2>1. CASE k \in 1 .. h
    <3>1. u[k] = s[k] /\ g[k] = a[k]
      BY <1>3, <1>8, <1>9, <2>1
    <3>2. a[k] \in F
      BY <1>3, <2>1
    <3>3. a[k] \in 1 .. n
      BY <1>1, <3>2
    <3>4. new[a[k]] = old[a[k]] /\ s[k][l] = old[a[k]].row
      BY <1>1, <1>5, <2>1, <3>3
    <3>5. QED
      BY <3>1, <3>4
  <2>2. CASE k \notin 1 .. h
    <3> DEFINE j == k - h
    <3>1. j \in 1 .. m /\ ~ (k <= h)
      BY <1>3, <1>4, <2>2
    <3>2. u[k] = t[j] /\ g[k] = Ascending(R)[j]
      BY <1>8, <1>9, <3>1
    <3> HIDE DEF j
    <3>3. g[k] = n + 1 + c[j] /\ c[j] \in Chosen /\ t[j][l] = <<doc, c[j]>>
      BY <1>4, <1>6, <3>1, <3>2
    <3>4. new[n + 1 + c[j]].row = <<doc, c[j]>>
      BY <1>1, <3>3
    <3>5. QED
      BY <3>2, <3>3, <3>4
  <2>3. QED
    BY <2>1, <2>2
<1>11. DOMAIN u = 1 .. h + m
  BY <1>3, <1>4, <1>9
<1>12. Len(u) = Len(g) /\ \A k \in DOMAIN u, l \in Layers : u[k][l] = new[g[k]].row
  BY <1>8, <1>9, <1>10, <1>11
<1>13. u = files'.hidden /\ g = FlaggedTokens' /\ new = files'.tokens
  BY <1>1, <1>7 DEF u
<1>14. QED
  BY <1>12, <1>13, Zenon DEF HiddenPaired

LEMMA HiddenStep ==
  ASSUME CaptureInv, [Next]_vars
  PROVE  HiddenPaired'
<1>1. HiddenPaired
  BY DEF CaptureInv
<1>2. CASE Silent
  <2>1. files' = files
    BY <1>2, SilentSteps
  <2>2. rc' = 0 => rc = 0
    BY <1>2 DEF Silent, BeginDocument, EmptyDocument, LastDocument, UBatchDone, DecodeFails,
       CheckFails, Close, WriteStats, StatsLost, Judge, Stop, vars, CaptureNode, RefuseNode
  <2>3. FlaggedTokens' = FlaggedTokens
    BY <2>1 DEF FlaggedTokens
  <2>4. QED
    BY <1>1, <2>1, <2>2, <2>3 DEF HiddenPaired
<1>3. CASE ShortWrite \/ CloseFails
  <2>1. rc' # 0
    BY <1>3 DEF ShortWrite, CloseFails, Stop
  <2>2. QED
    BY <2>1 DEF HiddenPaired
<1>4. QED
  BY <1>2, <1>3, EndHidden DEF Next, Silent

-----------------------------------------------------------------------------
(* The invariant, and the properties it implies.                           *)

LEMMA CaptureInvNext == CaptureInv /\ [Next]_vars => CaptureInv'
BY TypeStep, PositionStep, StatsStep, CursorsStep, OutputStep, FilesStep, HiddenStep
   DEF CaptureInv

(* The invariant of the capture: where the loop stands, what the cursors   *)
(* and the buffers of the document at hand hold, what the files hold of    *)
(* the documents done, and what the stats say (moe_trace.cpp, main and     *)
(* moe_cb; trace_writer.hpp, end_document).                                *)
THEOREM CaptureInvariant == Spec => []CaptureInv
<1>1. Init => CaptureInv
  BY InitInv
<1>2. CaptureInv /\ [Next]_vars => CaptureInv'
  BY CaptureInvNext
<1>3. QED
  BY <1>1, <1>2, PTL DEF Spec

(* The types of the capture's state hold throughout.                       *)
THEOREM Typed == Spec => []TypeOK
<1>1. CaptureInv => TypeOK
  BY DEF CaptureInv
<1>2. QED
  BY <1>1, CaptureInvariant, PTL

(* Whatever the graph emits, drops, repeats or prunes, a row that reaches  *)
(* a file is the row of its token in every stream and layer.               *)
THEOREM RowsBelongToTheirTokens == Spec => []StreamsAligned
<1>1. CaptureInv => StreamsAligned
  BY DEF CaptureInv
<1>2. QED
  BY <1>1, CaptureInvariant, PTL

(* What an accepted shard's stats have been compared with.                 *)
LEMMA Accepted ==
  ASSUME CaptureInv, pc = "accepted"
  PROVE  /\ rc = 0 /\ doc = NDocs + 1 /\ FilesWhole /\ HiddenPaired
         /\ stats.n_tokens = total.tokens /\ stats.n_captured = total.captured
         /\ \A d \in Docs : DocSize(d) = text[d]
<1>1. Acceptable /\ StatsTell /\ Position /\ CutsCounted /\ TypeOK /\ FilesWhole /\ HiddenPaired
  BY DEF CaptureInv, StatsTell
<1>2. rc = 0 /\ stats # Nothing /\ stats.n_docs_truncated = 0
  BY <1>1 DEF Acceptable, ValidateStats
<1>3. /\ stats.n_tokens = total.tokens /\ stats.n_captured = total.captured
      /\ truncated = 0
  BY <1>1, <1>2 DEF StatsTell
<1>4. doc = NDocs + 1 /\ Begun = NDocs
  BY <1>1, <1>2, Constants DEF Position, Working, Decoding, Begun
<1>5. \A d \in Docs : text[d] <= NCtx /\ text[d] \in Nat
  BY <1>1, <1>2, <1>3, <1>4, Constants DEF CutsCounted, Docs, TypeOK
<1>6. \A d \in Docs : DocSize(d) = text[d]
  BY <1>5, Constants DEF DocSize, Least
<1>7. QED
  BY <1>1, <1>2, <1>3, <1>4, <1>6

LEMMA AcceptedRows ==
  ASSUME CaptureInv
  PROVE  AcceptedIsWhole
<1>1. SUFFICES ASSUME pc = "accepted"
               PROVE  /\ {files.tokens[i].row : i \in DOMAIN files.tokens} = Corpus
                      /\ \A i, j \in DOMAIN files.tokens :
                           files.tokens[i].row = files.tokens[j].row => i = j
                      /\ \A f \in {"tokens", "topk", "logits"} : Len(files[f]) = stats.n_tokens
                      /\ \A f \in {"hidden", "hidden_index"} : Len(files[f]) = stats.n_captured
  BY DEF AcceptedIsWhole
<1>2. /\ rc = 0 /\ doc - 1 = NDocs /\ FilesWhole
      /\ stats.n_tokens = total.tokens /\ stats.n_captured = total.captured
      /\ \A d \in Docs : DocSize(d) = text[d]
  BY <1>1, Accepted, Constants
<1>3. SizesAgree /\ \A i, j \in DOMAIN files.tokens :
                      files.tokens[i].row = files.tokens[j].row => i = j
  BY <1>2 DEF FilesWhole
<1>4. ASSUME NEW d \in Docs, NEW p \in 0 .. text[d] - 1
      PROVE  \E i \in DOMAIN files.tokens : files.tokens[i].row = <<d, p>>
  <2>1. d \in 1 .. doc - 1 /\ p \in 0 .. DocSize(d) - 1
    BY <1>2 DEF Docs
  <2>2. QED
    BY <1>2, <2>1 DEF FilesWhole
<1>5. ASSUME NEW i \in DOMAIN files.tokens
      PROVE  \E d \in Docs : \E p \in 0 .. text[d] - 1 : files.tokens[i].row = <<d, p>>
  <2>1. PICK d \in 1 .. doc - 1 : \E p \in 0 .. DocSize(d) - 1 : files.tokens[i].row = <<d, p>>
    BY <1>2 DEF FilesWhole
  <2>2. d \in Docs /\ DocSize(d) = text[d]
    BY <1>2 DEF Docs
  <2>3. QED
    BY <2>1, <2>2
<1>6. ASSUME NEW r
      PROVE  r \in Corpus <=> \E d \in Docs : \E p \in 0 .. text[d] - 1 : r = <<d, p>>
  BY DEF Corpus
<1>7. {files.tokens[i].row : i \in DOMAIN files.tokens} = Corpus
  <2>1. ASSUME NEW i \in DOMAIN files.tokens
        PROVE  files.tokens[i].row \in Corpus
    BY <1>5, <1>6
  <2>2. ASSUME NEW r \in Corpus
        PROVE  \E i \in DOMAIN files.tokens : r = files.tokens[i].row
    <3>1. PICK d \in Docs : \E p \in 0 .. text[d] - 1 : r = <<d, p>>
      BY <1>6
    <3>2. PICK p \in 0 .. text[d] - 1 : r = <<d, p>>
      BY <3>1
    <3>3. QED
      BY <1>4, <3>2
  <2>3. QED
    BY <2>1, <2>2
<1>8. QED
  BY <1>2, <1>3, <1>7 DEF SizesAgree

(* A shard run_shard goes on to upload holds every token of every document *)
(* once, and files of the lengths its stats say (validate_stats).          *)
THEOREM AcceptedShardIsWhole == Spec => []AcceptedIsWhole
BY AcceptedRows, CaptureInvariant, PTL

(* In an accepted shard the k-th flagged token and the k-th hidden row are *)
(* of the same token (trace_writer.hpp end_document; reader.py             *)
(* _captured_rows).                                                        *)
THEOREM HiddenRowsFollowFlags == Spec => []HiddenFollowsFlags
<1>1. CaptureInv => HiddenFollowsFlags
  BY Accepted DEF HiddenPaired, HiddenFollowsFlags
<1>2. QED
  BY <1>1, CaptureInvariant, PTL

-----------------------------------------------------------------------------
(* The hidden indices, for any ids of the documents.                       *)

LEMMA EndOrder ==
  ASSUME CaptureInv, TokensInOrder, EndDocument
  PROVE  TokensInOrder'
<1>1. /\ Full /\ rc = 0 /\ rc' = 0 /\ FilesWhole
      /\ doc \in Nat /\ doc > 0 /\ size \in Nat
  BY EndSizes, FullRows, Constants DEF Docs, CaptureInv
<1>2. PICK n \in Nat, old \in Seq(TokenRow), new \in Seq(TokenRow) :
           /\ n = total.tokens /\ old = files.tokens /\ new = files'.tokens
           /\ DOMAIN old = 1 .. n /\ DOMAIN new = 1 .. n + size
           /\ \A i \in 1 .. n : new[i] = old[i]
           /\ \A i \in n + 1 .. n + size :
                /\ new[i].row = <<doc, i - n - 1>>
                /\ new[i].flag = IF Captured(doc, i - n - 1) THEN 1 ELSE 0
  BY EndTokens
<1>3. ASSUME NEW i \in 1 .. n
      PROVE  /\ new[i] = old[i] /\ old[i].row[1] \in Nat /\ old[i].row[1] < doc
             /\ Captured(old[i].row[1], old[i].row[2]) <=> old[i].flag = 1
  <2>1. i \in DOMAIN files.tokens /\ files.tokens[i] = old[i] /\ new[i] = old[i]
    BY <1>2
  <2>2. PICK d \in 1 .. doc - 1 : \E p \in 0 .. DocSize(d) - 1 : files.tokens[i].row = <<d, p>>
    BY <1>1, <2>1 DEF FilesWhole
  <2>3. files.tokens[i].row[1] = d /\ d \in Nat /\ d < doc
    BY <1>1, <2>2
  <2>4. Captured(files.tokens[i].row[1], files.tokens[i].row[2]) <=> files.tokens[i].flag = 1
    BY <1>1, <2>1 DEF TokensInOrder, Selects
  <2>5. QED
    BY <2>1, <2>3, <2>4
<1>4. \A i, j \in 1 .. n : i < j => Before(old[i].row, old[j].row)
  BY <1>1, <1>2 DEF TokensInOrder
<1>5. ASSUME NEW i \in n + 1 .. n + size
      PROVE  /\ new[i].row = <<doc, i - n - 1>>
             /\ Captured(new[i].row[1], new[i].row[2]) <=> new[i].flag = 1
  BY <1>2
<1>6. \A i \in 1 .. n + size : i \in Int /\ (i \in 1 .. n \/ i \in n + 1 .. n + size)
  BY <1>1
<1>7. ASSUME NEW i \in 1 .. n + size
      PROVE  Captured(new[i].row[1], new[i].row[2]) <=> new[i].flag = 1
  BY <1>3, <1>5, <1>6
<1>8. ASSUME NEW i \in 1 .. n + size, NEW j \in 1 .. n + size, i < j
      PROVE  Before(new[i].row, new[j].row)
  <2>1. CASE j \in 1 .. n
    <3>1. i \in 1 .. n
      BY <1>1, <1>8, <2>1
    <3>2. QED
      BY <1>3, <1>4, <1>8, <2>1, <3>1
  <2>2. CASE i \in 1 .. n /\ j \in n + 1 .. n + size
    BY <1>3, <1>5, <2>2 DEF Before
  <2>3. CASE i \in n + 1 .. n + size /\ j \in n + 1 .. n + size
    <3>1. i - n - 1 < j - n - 1
      BY <1>6, <1>8
    <3>2. QED
      BY <1>5, <2>3, <3>1 DEF Before
  <2>4. QED
    BY <1>6, <2>1, <2>2, <2>3
<1>9. files'.tokens = new /\ DOMAIN files'.tokens = 1 .. n + size
  BY <1>2
<1>10. ASSUME NEW i \in DOMAIN files'.tokens
       PROVE  (files'.tokens[i].flag = 1) <=>
                Captured(files'.tokens[i].row[1], files'.tokens[i].row[2])
  BY <1>7, <1>9
<1>11. \A i, j \in DOMAIN files'.tokens :
         i < j => Before(files'.tokens[i].row, files'.tokens[j].row)
  BY <1>8, <1>9
<1>12. QED
  BY <1>10, <1>11 DEF TokensInOrder, Selects, Captured, GlobalIndex

LEMMA OrderStep ==
  ASSUME CaptureInv, TokensInOrder, [Next]_vars
  PROVE  TokensInOrder'
<1>1. CASE Silent
  <2>1. files' = files
    BY <1>1, SilentSteps
  <2>2. rc' = 0 => rc = 0
    BY <1>1 DEF Silent, BeginDocument, EmptyDocument, LastDocument, UBatchDone, DecodeFails,
       CheckFails, Close, WriteStats, StatsLost, Judge, Stop, vars, CaptureNode, RefuseNode
  <2>3. QED
    BY <2>1, <2>2 DEF TokensInOrder, Selects, Captured, GlobalIndex
<1>2. CASE ShortWrite \/ CloseFails
  <2>1. rc' # 0
    BY <1>2 DEF ShortWrite, CloseFails, Stop
  <2>2. QED
    BY <2>1 DEF TokensInOrder
<1>3. QED
  BY <1>1, <1>2, EndOrder DEF Next, Silent

(* The blocks of two ids do not meet.                                      *)
LEMMA BlocksApart ==
  ASSUME NEW d \in Docs, NEW e \in Docs, DocIds[d] < DocIds[e],
         NEW i \in Positions, NEW j \in Positions
  PROVE  GlobalIndex(d, i) < GlobalIndex(e, j)
<1> DEFINE a == DocIds[d]
           b == DocIds[e]
<1>1. a \in Nat /\ b \in Nat /\ a + 1 <= b /\ NCtx \in Nat /\ i \in Nat /\ j \in Nat /\ i < NCtx
  BY Constants DEF Positions
<1> HIDE DEF a, b
<1>2. \A m, n, k \in Nat : m + 1 <= n =>
        m * k \in Nat /\ n * k \in Nat /\ m * k + k <= n * k
  <2>1. ASSUME NEW m \in Nat, NEW n \in Nat, NEW k \in Nat, m + 1 <= n
        PROVE  m * k \in Nat /\ n * k \in Nat /\ m * k + k <= n * k
    <3>1. m * k \in Nat /\ n * k \in Nat /\ (m + 1) * k <= n * k
      BY <2>1
    <3>2. (m + 1) * k = m * k + k
      OBVIOUS
    <3>3. QED
      BY <3>1, <3>2
  <2>2. QED
    BY <2>1
<1>3. a * NCtx \in Nat /\ b * NCtx \in Nat /\ a * NCtx + NCtx <= b * NCtx
  BY <1>1, <1>2
<1>4. a * NCtx + i < b * NCtx + j
  BY <1>1, <1>3
<1>5. QED
  BY <1>4 DEF GlobalIndex, a, b

(* The k-th index of an accepted shard is the one stored for the k-th      *)
(* flagged token, and the flagged tokens are the subsamples.               *)
LEMMA AcceptedIndices ==
  ASSUME CaptureInv, TokensInOrder, pc = "accepted"
  PROVE  \E n \in Nat : \E F \in [1 .. n -> DOMAIN files.tokens] :
           /\ F = FlaggedTokens /\ F = Selected /\ DOMAIN files.hidden_index = 1 .. n
           /\ Len(files.hidden_index) = n /\ Len(F) = n
           /\ \A j, k \in 1 .. n : j < k => F[j] < F[k]
           /\ \A i \in DOMAIN files.tokens : Selects(i) => \E k \in 1 .. n : F[k] = i
           /\ \A k \in 1 .. n : Selects(F[k])
           /\ \A k \in 1 .. n :
                files.hidden_index[k] = StoredIndex(files.tokens[F[k]].row[1],
                                                    files.tokens[F[k]].row[2])
<1> DEFINE S == {i \in DOMAIN files.tokens : files.tokens[i].flag = 1}
           n == Cardinality(S)
           F == Ascending(S)
<1>1. /\ rc = 0 /\ FilesWhole /\ HiddenPaired /\ OutputTypes /\ StreamsAligned /\ SizesAgree
      /\ NLayers \in Nat /\ NLayers > 0
  BY Accepted, Constants DEF CaptureInv, FilesWhole
<1>2. S = {i \in DOMAIN files.tokens : Selects(i)}
  BY <1>1 DEF TokensInOrder
<1>3. S \in SUBSET Int /\ IsFiniteSet(S)
  <2>1. files.tokens \in Seq(TokenRow)
    BY <1>1 DEF OutputTypes
  <2>2. DOMAIN files.tokens = 1 .. Len(files.tokens) /\ Len(files.tokens) \in Nat
    BY <2>1
  <2>3. S \in SUBSET (1 .. Len(files.tokens)) /\ IsFiniteSet(1 .. Len(files.tokens))
    BY <2>2, FS_Interval
  <2>4. QED
    BY <2>3, FS_Subset
<1>4. F = FlaggedTokens /\ F = Selected
  BY <1>2 DEF FlaggedTokens, Selected
<1>5. /\ n \in Nat /\ F \in [1 .. n -> S] /\ F \in Seq(S) /\ Len(F) = n
      /\ \A j, k \in 1 .. n : j < k => F[j] < F[k]
      /\ \A i \in S : \E k \in 1 .. n : F[k] = i
  <2> HIDE DEF S
  <2>1. QED
    BY <1>3, Ascends
<1>6. \A i : i \in S <=> i \in DOMAIN files.tokens /\ Selects(i)
  BY <1>2
<1> HIDE DEF S, F, n
<1>7. Len(files.hidden) = n /\ Len(files.hidden_index) = n
  BY <1>1, <1>4, <1>5 DEF HiddenPaired, SizesAgree
<1>8. DOMAIN files.hidden = 1 .. n /\ DOMAIN files.hidden_index = 1 .. n
  BY <1>1, <1>7 DEF OutputTypes
<1>9. ASSUME NEW k \in 1 .. n
      PROVE  files.hidden_index[k] = StoredIndex(files.tokens[F[k]].row[1],
                                                 files.tokens[F[k]].row[2])
  <2>1. 1 \in Layers
    BY <1>1 DEF Layers
  <2>2. files.hidden[k][1] = files.tokens[F[k]].row
    BY <1>1, <1>4, <1>8, <2>1 DEF HiddenPaired
  <2>3. files.hidden_index[k] = StoredIndex(files.hidden[k][1][1], files.hidden[k][1][2])
    BY <1>1, <1>8, <2>1 DEF StreamsAligned
  <2>4. QED
    BY <2>2, <2>3
<1>10. F \in [1 .. n -> DOMAIN files.tokens] /\ \A k \in 1 .. n : Selects(F[k])
  BY <1>5, <1>6
<1>11. QED
  BY <1>4, <1>5, <1>6, <1>7, <1>8, <1>9, <1>10

(* The audit comes down to two things: no index has wrapped, and the       *)
(* indices ascend.                                                         *)
LEMMA AuditIsOfIndices ==
  ASSUME NEW n \in Nat, n > 0, NEW F \in [1 .. n -> DOMAIN files.tokens],
         F = Selected, Len(files.hidden_index) = n, Len(F) = n,
         \A i \in DOMAIN files.tokens : Selects(i) <=> files.tokens[i].flag = 1
  PROVE  StrideCheckPasses <=>
           IndexAscends /\ \A k \in 1 .. n : files.hidden_index[k] = Wanted(F[k])
<1>1. files.hidden_index # <<>>
  OBVIOUS
<1>2. DOMAIN Selected = 1 .. n
  OBVIOUS
<1>3. QED
  BY <1>1, <1>2 DEF StrideCheckPasses

(* Documents whose subsamples interleave nowhere come in the order of ids: *)
(* two of the same id share a position, and with it an index.              *)
LEMMA OrderOfIds ==
  ASSUME NEW d \in Docs, NEW e \in Docs, text[d] \in Nat, text[e] \in Nat,
         text[d] <= NCtx, text[e] <= NCtx,
         Subsample(d) # {}, Subsample(e) # {}
  PROVE  DocIds[d] < DocIds[e] <=>
           \A i \in Subsample(d), j \in Subsample(e) : GlobalIndex(d, i) < GlobalIndex(e, j)
<1>1. /\ \A i \in Subsample(d) : i \in Positions /\ i \in Nat /\ i < text[d] /\ Captured(d, i)
      /\ \A i \in Subsample(e) : i \in Positions /\ i \in Nat /\ i < text[e] /\ Captured(e, i)
  BY Constants DEF Subsample, Positions
<1>2. DocIds[d] \in Nat /\ DocIds[e] \in Nat
  BY Constants
<1>3. CASE DocIds[d] < DocIds[e]
  BY <1>1, <1>3, BlocksApart
<1>4. PICK i \in Subsample(d), j \in Subsample(e) : TRUE
  OBVIOUS
<1>5. /\ i \in Nat /\ j \in Nat /\ i \in Positions /\ j \in Positions
      /\ GlobalIndex(d, i) \in Nat /\ GlobalIndex(e, j) \in Nat
  BY <1>1, IndexType
<1>6. CASE DocIds[e] < DocIds[d]
  <2>1. GlobalIndex(e, j) < GlobalIndex(d, i)
    BY <1>5, <1>6, BlocksApart
  <2>2. QED
    BY <1>2, <1>4, <1>5, <1>6, <2>1
<1>7. CASE DocIds[d] = DocIds[e]
  <2>1. SUFFICES ASSUME \A x \in Subsample(d), y \in Subsample(e) :
                          GlobalIndex(d, x) < GlobalIndex(e, y)
                 PROVE  FALSE
    BY <1>2, <1>7
  <2> DEFINE b == DocIds[d] * NCtx
  <2>2. b \in Nat
    BY IndexType
  <2>3. \A x : GlobalIndex(d, x) = b + x /\ GlobalIndex(e, x) = b + x
    BY <1>7 DEF GlobalIndex
  <2> HIDE DEF b
  <2>4. b + i < b + j
    BY <1>4, <2>1, <2>3
  <2>5. i < j
    BY <1>5, <2>2, <2>4
  <2>6. i \in 0 .. text[e] - 1
    BY <1>1, <1>4, <1>5, <2>5
  <2>7. Captured(e, i)
    BY <1>1, <1>4, <2>3 DEF Captured
  <2>8. i \in Subsample(e)
    BY <2>6, <2>7 DEF Subsample
  <2>9. b + i < b + i
    BY <1>4, <2>1, <2>3, <2>8
  <2>10. QED
    BY <1>5, <2>2, <2>9
<1>8. QED
  BY <1>2, <1>3, <1>6, <1>7

LEMMA AcceptedAudit ==
  ASSUME CaptureInv, TokensInOrder
  PROVE  StrideCheckIsExact
<1>1. SUFFICES ASSUME pc = "accepted", files.hidden_index # <<>>
               PROVE  StrideCheckPasses <=> IndicesFit /\ InIdOrder
  BY DEF StrideCheckIsExact
<1> DEFINE T == files.tokens
<1>2. PICK n \in Nat : \E F \in [1 .. n -> DOMAIN T] :
           /\ F = FlaggedTokens /\ F = Selected /\ DOMAIN files.hidden_index = 1 .. n
           /\ Len(files.hidden_index) = n /\ Len(F) = n
           /\ \A j, k \in 1 .. n : j < k => F[j] < F[k]
           /\ \A i \in DOMAIN T : Selects(i) => \E k \in 1 .. n : F[k] = i
           /\ \A k \in 1 .. n : Selects(F[k])
           /\ \A k \in 1 .. n :
                files.hidden_index[k] = StoredIndex(T[F[k]].row[1], T[F[k]].row[2])
  BY <1>1, AcceptedIndices
<1>3. PICK F \in [1 .. n -> DOMAIN T] :
           /\ F = FlaggedTokens /\ F = Selected /\ DOMAIN files.hidden_index = 1 .. n
           /\ Len(files.hidden_index) = n /\ Len(F) = n
           /\ \A j, k \in 1 .. n : j < k => F[j] < F[k]
           /\ \A i \in DOMAIN T : Selects(i) => \E k \in 1 .. n : F[k] = i
           /\ \A k \in 1 .. n : Selects(F[k])
           /\ \A k \in 1 .. n :
                files.hidden_index[k] = StoredIndex(T[F[k]].row[1], T[F[k]].row[2])
  BY <1>2
<1>4. /\ rc = 0 /\ AcceptedIsWhole /\ OutputTypes
      /\ \A i \in DOMAIN T : Selects(i) <=> T[i].flag = 1
      /\ \A i, j \in DOMAIN T : i < j => Before(T[i].row, T[j].row)
  BY <1>1, Accepted, AcceptedRows DEF CaptureInv, TokensInOrder
<1>5. \A d \in Docs : text[d] \in Nat /\ text[d] <= NCtx
  <2>1. \A d \in Docs : text[d] \in Nat /\ Least(text[d], NCtx) = text[d]
    BY <1>1, Accepted, Constants DEF CaptureInv, TypeOK, DocSize
  <2>2. QED
    BY <2>1, Constants DEF Least
<1>6. n > 0
  <2>1. files.hidden_index \in Seq(Nat)
    BY <1>4 DEF OutputTypes
  <2>2. Len(files.hidden_index) # 0
    BY <1>1, <2>1
  <2>3. QED
    BY <1>3, <2>2
<1>7. DOMAIN T \in SUBSET Int
  <2>1. T \in Seq(TokenRow)
    BY <1>4 DEF OutputTypes
  <2>2. QED
    BY <2>1
<1>8. StrideCheckPasses <=>
        IndexAscends /\ \A k \in 1 .. n : files.hidden_index[k] = Wanted(F[k])
  <2>1. F = Selected /\ Len(files.hidden_index) = n /\ Len(F) = n
    BY <1>3
  <2>2. \A i \in DOMAIN files.tokens : Selects(i) <=> files.tokens[i].flag = 1
    BY <1>4
  <2> HIDE DEF T
  <2>3. F \in [1 .. n -> DOMAIN files.tokens]
    BY DEF T
  <2>4. QED
    BY <1>6, <2>1, <2>2, <2>3, AuditIsOfIndices
\* The flagged tokens are the subsamples of the documents.
<1>9. ASSUME NEW k \in 1 .. n
      PROVE  \E d \in Docs : \E i \in Subsample(d) :
               T[F[k]].row = <<d, i>> /\ Wanted(F[k]) = GlobalIndex(d, i)
  <2>1. F[k] \in DOMAIN T /\ Selects(F[k])
    BY <1>3
  <2>2. T[F[k]].row \in Corpus
    BY <1>1, <1>4, <2>1 DEF AcceptedIsWhole
  <2>3. PICK d \in Docs : T[F[k]].row \in {d} \X (0 .. text[d] - 1)
    BY <2>2 DEF Corpus
  <2>4. PICK i \in 0 .. text[d] - 1 : T[F[k]].row = <<d, i>>
    BY <2>3
  <2>5. Captured(d, i) /\ Wanted(F[k]) = GlobalIndex(d, i)
    BY <2>1, <2>4 DEF Selects, Wanted
  <2>6. i \in Subsample(d)
    BY <2>5 DEF Subsample
  <2>7. QED
    BY <2>4, <2>5, <2>6
<1>10. ASSUME NEW d \in Docs, NEW i \in Subsample(d)
       PROVE  \E k \in 1 .. n : T[F[k]].row = <<d, i>> /\ Wanted(F[k]) = GlobalIndex(d, i)
  <2>1. i \in 0 .. text[d] - 1 /\ Captured(d, i)
    BY DEF Subsample
  <2>2. <<d, i>> \in Corpus
    BY <2>1 DEF Corpus
  <2>3. <<d, i>> \in {T[a].row : a \in DOMAIN T}
    BY <1>1, <1>4, <2>2 DEF AcceptedIsWhole
  <2>4. PICK a \in DOMAIN T : <<d, i>> = T[a].row
    BY <2>3
  <2>5. Selects(a)
    BY <2>1, <2>4 DEF Selects
  <2>6. PICK k \in 1 .. n : F[k] = a
    BY <1>3, <2>5
  <2>7. QED
    BY <2>4, <2>6 DEF Wanted
<1>11. ASSUME NEW d \in Docs, NEW i \in Subsample(d)
       PROVE  /\ i \in Nat /\ GlobalIndex(d, i) \in Nat
              /\ GlobalIndex(d, i) = StoredIndex(d, i) <=> GlobalIndex(d, i) < IndexSpace
  <2>1. i \in Nat
    BY <1>5 DEF Subsample
  <2>2. QED
    BY <2>1, IndexType
<1>12. (\A k \in 1 .. n : files.hidden_index[k] = Wanted(F[k])) <=> IndicesFit
  <2>1. ASSUME NEW k \in 1 .. n, NEW d \in Docs, NEW i \in Subsample(d),
               T[F[k]].row = <<d, i>>, Wanted(F[k]) = GlobalIndex(d, i)
        PROVE  files.hidden_index[k] = Wanted(F[k]) <=> GlobalIndex(d, i) < IndexSpace
    <3>1. files.hidden_index[k] = StoredIndex(d, i)
      BY <1>3, <2>1
    <3>2. QED
      BY <1>11, <2>1, <3>1
  <2>2. ASSUME IndicesFit, NEW k \in 1 .. n
        PROVE  files.hidden_index[k] = Wanted(F[k])
    BY <1>9, <2>1, <2>2 DEF IndicesFit
  <2>3. ASSUME \A k \in 1 .. n : files.hidden_index[k] = Wanted(F[k]),
               NEW d \in Docs, NEW i \in Subsample(d)
        PROVE  GlobalIndex(d, i) < IndexSpace
    BY <1>10, <2>1, <2>3
  <2>4. QED
    BY <2>2, <2>3 DEF IndicesFit
\* Indices that have not wrapped ascend as the ids do.
<1>13. ASSUME \A k \in 1 .. n : files.hidden_index[k] = Wanted(F[k])
       PROVE  IndexAscends <=> InIdOrder
  <2>1. IndexAscends <=> \A j, k \in 1 .. n : j < k => Wanted(F[j]) < Wanted(F[k])
    <3>1. DOMAIN files.hidden_index = 1 .. n
      BY <1>3
    <3>2. IndexAscends <=>
            \A j, k \in 1 .. n : j < k => files.hidden_index[j] < files.hidden_index[k]
      BY <3>1 DEF IndexAscends
    <3> DEFINE h == files.hidden_index
               w == [k \in 1 .. n |-> Wanted(F[k])]
    <3>3. \A k \in 1 .. n : h[k] = w[k]
      BY <1>13
    <3> HIDE DEF h, w
    <3>4. (\A j, k \in 1 .. n : j < k => h[j] < h[k]) <=>
          (\A j, k \in 1 .. n : j < k => w[j] < w[k])
      BY <3>3
    <3>5. QED
      BY <3>2, <3>4 DEF h, w
  <2>2. ASSUME InIdOrder, NEW j \in 1 .. n, NEW k \in 1 .. n, j < k
        PROVE  Wanted(F[j]) < Wanted(F[k])
    <3>1. PICK d \in Docs : \E x \in Subsample(d) :
            T[F[j]].row = <<d, x>> /\ Wanted(F[j]) = GlobalIndex(d, x)
      BY <1>9
    <3>2. PICK x \in Subsample(d) :
            T[F[j]].row = <<d, x>> /\ Wanted(F[j]) = GlobalIndex(d, x)
      BY <3>1
    <3>3. PICK e \in Docs : \E y \in Subsample(e) :
            T[F[k]].row = <<e, y>> /\ Wanted(F[k]) = GlobalIndex(e, y)
      BY <1>9
    <3>4. PICK y \in Subsample(e) :
            T[F[k]].row = <<e, y>> /\ Wanted(F[k]) = GlobalIndex(e, y)
      BY <3>3
    <3>5. F[j] < F[k] /\ F[j] \in DOMAIN T /\ F[k] \in DOMAIN T
      BY <1>3, <2>2
    <3>6. Before(T[F[j]].row, T[F[k]].row)
      BY <1>4, <3>5
    <3>7. d < e \/ (d = e /\ x < y)
      BY <3>2, <3>4, <3>6 DEF Before
    <3>8. CASE d < e
      <4>1. DocIds[d] < DocIds[e]
        BY <2>2, <3>8 DEF InIdOrder
      <4>2. QED
        BY <1>5, <3>2, <3>4, <4>1, OrderOfIds
    <3>9. CASE d = e /\ x < y
      <4>1. x \in Nat /\ y \in Nat /\ DocIds[d] * NCtx \in Nat
        BY <1>11, <3>9, IndexType
      <4>2. DocIds[d] * NCtx + x < DocIds[d] * NCtx + y
        BY <3>9, <4>1
      <4>3. QED
        BY <3>2, <3>4, <3>9, <4>2 DEF GlobalIndex
    <3>10. QED
      BY <3>7, <3>8, <3>9
  <2>3. ASSUME \A j, k \in 1 .. n : j < k => Wanted(F[j]) < Wanted(F[k]),
               NEW d \in Docs, NEW e \in Docs, d < e, Subsample(d) # {}, Subsample(e) # {}
        PROVE  DocIds[d] < DocIds[e]
    <3>1. ASSUME NEW x \in Subsample(d), NEW y \in Subsample(e)
          PROVE  GlobalIndex(d, x) < GlobalIndex(e, y)
      <4>1. PICK j \in 1 .. n : T[F[j]].row = <<d, x>> /\ Wanted(F[j]) = GlobalIndex(d, x)
        BY <1>10
      <4>2. PICK k \in 1 .. n : T[F[k]].row = <<e, y>> /\ Wanted(F[k]) = GlobalIndex(e, y)
        BY <1>10
      <4>3. d \in Int /\ e \in Int
        BY Constants DEF Docs
      <4>4. ~ Before(T[F[k]].row, T[F[j]].row)
        BY <2>3, <4>1, <4>2, <4>3 DEF Before
      <4>5. F[j] \in DOMAIN T /\ F[k] \in DOMAIN T
        BY <1>3
      <4>6. ~ (F[k] < F[j])
        BY <1>4, <4>4, <4>5
      <4>7. F[j] # F[k]
        BY <2>3, <4>1, <4>2, <4>3
      <4>8. j < k
        <5>1. ~ (k < j) /\ j # k
          BY <1>3, <4>6, <4>7
        <5>2. QED
          BY <5>1
      <4>9. QED
        BY <2>3, <4>1, <4>2, <4>8
    <3>2. QED
      BY <1>5, <2>3, <3>1, OrderOfIds
  <2>4. QED
    BY <2>1, <2>2, <2>3 DEF InIdOrder
<1>14. QED
  BY <1>8, <1>12, <1>13

(* For any ids, strides and width of a stored index, the audit of an       *)
(* accepted shard with hidden states passes exactly when every index fits  *)
(* its width and the documents that have one come in the order of their    *)
(* ids (trace_writer.hpp end_document, moe_trace.cpp: a block of indices   *)
(* per document; validate.py check_hidden_stride).                         *)
THEOREM HiddenStrideAudit == Spec => []StrideCheckIsExact
<1>1. Init => CaptureInv /\ TokensInOrder
  <2>1. Init => TokensInOrder
    BY DEF Init, TokensInOrder
  <2>2. QED
    BY <2>1, InitInv
<1>2. CaptureInv /\ TokensInOrder /\ [Next]_vars => (CaptureInv /\ TokensInOrder)'
  BY OrderStep, CaptureInvNext
<1>3. CaptureInv /\ TokensInOrder => StrideCheckIsExact
  BY AcceptedAudit
<1>4. QED
  BY <1>1, <1>2, <1>3, PTL DEF Spec

=============================================================================
