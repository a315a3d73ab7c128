------------------------- MODULE CorpusFetchProofs -------------------------
(***************************************************************************)
(* Proofs about CorpusFetch, for any specification, languages, texts and   *)
(* streams of any length.                                                  *)
(*                                                                         *)
(* RowsAligned is not inductive: that a row committed has every language   *)
(* follows from its length only because its documents ascend in language,  *)
(* and that they are of one row, because the streams of a control are read *)
(* in step.  InStep and RowInOrder say so of a row being read.             *)
(*                                                                         *)
(* The properties of the tokens need BudgetInv: the budgets of a domain    *)
(* still add up to its target after the reallocation (BudgetsAddUp), and a *)
(* language is left with the tokens up to its part of the budget delivered *)
(* (InParts).                                                              *)
(***************************************************************************)
EXTENDS CorpusFetch, SetLemmas

Types ==
  /\ at \in 1 .. Len(Sources) + 1
  /\ lang \in Nat \ {0}
  /\ taken \in [Langs -> Nat]
  /\ row \in Seq(Doc)
  /\ docs \in SUBSET Doc
  /\ index \in SUBSET Texts
  /\ emitted \in [Names -> Nat]
  /\ read \in [Names -> Nat]
  /\ dropped \in [Names -> Nat]

(* One past the languages only where a row of a control has been read.     *)
LangInRange ==
  IF at <= Len(Sources)
  THEN lang <= IF AtControl THEN NLangs[Current] + 1 ELSE NLangs[Current]
  ELSE lang = 1

(* The streams of a control are read in step: those before lang have       *)
(* yielded one record more than the others, until the row is left.         *)
InStep ==
  AtControl =>
    \A l \in 1 .. NLangs[Current] :
      taken[l] = IF l < lang \/ lang = 1 THEN taken[1] ELSE taken[1] - 1

(* A row being read is one of the current control, its languages ascend,   *)
(* and lang is past them.                                                  *)
RowInOrder ==
  /\ row # <<>> => AtControl
  /\ \A i \in 1 .. Len(row) :
       /\ row[i].source = Current
       /\ row[i].row = taken[1]
       /\ i <= row[i].lang
       /\ row[i].lang < lang - (Len(row) - i)
  /\ Len(row) < lang

RowIsFresh == \A i \in 1 .. Len(row) : row[i].text \notin index

IInv ==
  /\ Types
  /\ LangInRange
  /\ InStep
  /\ RowInOrder
  /\ RowIsFresh
  /\ RowsAligned
  /\ IndexIsCorpus
  /\ RepeatsOnlyInRow
  /\ RecordsAccounted

-----------------------------------------------------------------------------
(* The source the loop is at is one of the specification, and each of its  *)
(* languages has a stream.                                                 *)
LEMMA CurrentType ==
  ASSUME Types, at <= Len(Sources)
  PROVE  /\ Current \in Names
         /\ NLangs[Current] \in Nat \ {0}
         /\ 1 .. NLangs[Current] \subseteq Langs
<1>1. Current \in Names
  BY FetchAssumption DEF Types, Current
<1> QED
  BY <1>1, FetchAssumption DEF Langs

LEMMA YieldType ==
  ASSUME Types, LangInRange, at <= Len(Sources), lang <= NLangs[Current], Yield
  PROVE  /\ lang \in Langs
         /\ taken' = [taken EXCEPT ![lang] = taken[lang] + 1]
         /\ taken' \in [Langs -> Nat]
         /\ read' = [read EXCEPT ![Current] = read[Current] + 1]
         /\ read' \in [Names -> Nat]
<1>1. Current \in Names /\ lang \in Langs
  <2>1. /\ Current \in Names
        /\ NLangs[Current] \in Nat \ {0}
        /\ 1 .. NLangs[Current] \subseteq Langs
    BY CurrentType
  <2>2. lang \in Nat \ {0}
    BY DEF Types
  <2>3. lang \in 1 .. NLangs[Current]
    BY <2>1, <2>2
  <2> QED
    BY <2>1, <2>3
<1>2. /\ taken' = [taken EXCEPT ![lang] = taken[lang] + 1]
      /\ read' = [read EXCEPT ![Current] = read[Current] + 1]
  BY DEF Yield, Plus
<1>3. taken \in [Langs -> Nat] /\ read \in [Names -> Nat]
  BY DEF Types
<1> QED
  BY <1>1, <1>2, <1>3

(* A source that is reached is read from the start.                        *)
LEMMA NextSourceType ==
  ASSUME Types, at <= Len(Sources), NextSource
  PROVE  /\ at' \in 1 .. Len(Sources) + 1
         /\ lang' = 1
         /\ taken' \in [Langs -> Nat]
         /\ \A l \in Langs : taken'[l] = 0
BY FetchAssumption DEF Types, NextSource

LEMMA NextSourceInStep ==
  ASSUME Types, at <= Len(Sources), NextSource, Types'
  PROVE  LangInRange' /\ InStep'
<1>1. LangInRange'
  <2> SUFFICES ASSUME at' <= Len(Sources)
               PROVE  lang' <= NLangs[Current'] /\ lang' <= NLangs[Current'] + 1
    BY NextSourceType DEF LangInRange
  <2>1. Current' \in Names
    BY FetchAssumption DEF Types, Current
  <2> QED
    BY <2>1, NextSourceType, FetchAssumption
<1>2. InStep'
  <2> SUFFICES ASSUME AtControl'
               PROVE  \A l \in 1 .. NLangs[Current'] : taken'[l] = taken'[1]
    BY NextSourceType DEF InStep
  <2>1. Current' \in Names
    BY FetchAssumption DEF Types, Current, AtControl
  <2>2. 1 .. NLangs[Current'] \subseteq Langs /\ NLangs[Current'] \in Nat \ {0}
    BY <2>1, FetchAssumption DEF Langs
  <2>3. 1 \in Langs
    BY <2>2
  <2> QED
    BY <2>2, <2>3, NextSourceType
<1> QED
  BY <1>1, <1>2

-----------------------------------------------------------------------------
(* Reading one record of a row: the current stream catches up.             *)
LEMMA YieldInStep ==
  ASSUME Types, LangInRange, InStep, InRow, lang <= NLangs[Current], Yield,
         lang' = lang + 1, UNCHANGED <<at, stage>>
  PROVE  /\ InStep'
         /\ LangInRange'
         /\ taken'[1] = taken[lang] + 1
         /\ lang # 1 => taken'[1] = taken[1]
<1>1. /\ at <= Len(Sources) /\ AtControl
      /\ lang \in Nat \ {0}
      /\ NLangs[Current] \in Nat \ {0}
      /\ 1 .. NLangs[Current] \subseteq Langs
      /\ taken \in [Langs -> Nat]
  BY CurrentType DEF InRow, AtControl, Types
<1>2. lang \in Langs /\ taken' = [taken EXCEPT ![lang] = taken[lang] + 1]
  BY <1>1, YieldType
<1>3. Current' = Current /\ (AtControl' <=> AtControl)
  BY DEF Current, AtControl
<1>4. taken'[1] = taken[lang] + 1 /\ (lang # 1 => taken'[1] = taken[1])
  <2>1. 1 \in Langs /\ 1 \in 1 .. NLangs[Current] /\ lang \in 1 .. NLangs[Current]
    BY <1>1
  <2>2. taken[lang] = IF lang = 1 THEN taken[1] ELSE taken[1] - 1
    BY <1>1, <2>1 DEF InStep
  <2>3. taken[1] \in Nat /\ taken'[1] = IF lang = 1 THEN taken[1] + 1 ELSE taken[1]
    BY <1>1, <1>2, <2>1
  <2> QED
    BY <2>2, <2>3
<1>5. InStep'
  <2> SUFFICES ASSUME NEW l \in 1 .. NLangs[Current]
               PROVE  taken'[l] = IF l < lang + 1 THEN taken'[1] ELSE taken'[1] - 1
    BY <1>1, <1>3 DEF InStep
  <2>1. l \in Langs /\ taken[l] \in Nat /\ taken[1] \in Nat /\ taken[lang] \in Nat
    BY <1>1, <1>2
  <2>2. taken'[l] = IF l = lang THEN taken[lang] + 1 ELSE taken[l]
    BY <1>1, <1>2, <2>1
  <2>3. taken[l] = IF l < lang \/ lang = 1 THEN taken[1] ELSE taken[1] - 1
    BY <1>1 DEF InStep
  <2>4. lang \in 1 .. NLangs[Current]
    BY <1>1
  <2>5. taken[lang] = IF lang = 1 THEN taken[1] ELSE taken[1] - 1
    BY <1>1, <2>4 DEF InStep
  <2> QED
    BY <1>1, <1>4, <2>1, <2>2, <2>3, <2>5
<1>6. LangInRange'
  BY <1>1, <1>3 DEF LangInRange
<1> QED
  BY <1>4, <1>5, <1>6

(* The record of a row that is read is a document.                         *)
LEMMA RowRecordType ==
  ASSUME Types, LangInRange, AtControl, lang <= NLangs[Current], NEW text \in Texts
  PROVE  RowRecord(text) \in Doc
<1>1. Current \in Names /\ lang \in Langs
  <2>1. /\ Current \in Names /\ NLangs[Current] \in Nat
        /\ 1 .. NLangs[Current] \subseteq Langs
    BY CurrentType DEF AtControl
  <2>2. lang \in 1 .. NLangs[Current]
    BY <2>1 DEF Types
  <2> QED
    BY <2>1, <2>2
<1>2. taken[lang] \in Nat
  BY <1>1 DEF Types
<1> QED
  BY <1>1, <1>2 DEF RowRecord, Doc

(* When a row has been read the streams of the control are level again.    *)
LEMMA RowLeft ==
  ASSUME Types, LangInRange, InStep, RowRead, lang' = 1, UNCHANGED <<at, taken, stage>>
  PROVE  InStep' /\ LangInRange'
<1>1. /\ AtControl /\ (AtControl' <=> AtControl) /\ Current' = Current
      /\ lang = NLangs[Current] + 1
      /\ NLangs[Current] \in Nat \ {0}
  BY CurrentType DEF RowRead, AtControl, LangInRange, Types, Current
<1>2. \A l \in 1 .. NLangs[Current] : taken[l] = taken[1]
  BY <1>1 DEF InStep
<1> QED
  BY <1>1, <1>2 DEF InStep, LangInRange

(* The loop leaves one language of a volume source.                        *)
LEMMA LeaveType ==
  ASSUME Types, LangInRange, AtVolume, LeaveLanguage, UNCHANGED stage, Types'
  PROVE  LangInRange' /\ InStep'
<1>1. at <= Len(Sources) /\ ~AtControl
  BY DEF AtVolume, AtControl
<1>2. CASE lang < NLangs[Current]
  <2>1. lang' = lang + 1 /\ Current' = Current /\ ~AtControl' /\ at' = at
    BY <1>1, <1>2 DEF LeaveLanguage, AtControl, AtVolume, Current
  <2>2. lang \in Nat /\ NLangs[Current] \in Nat
    BY <1>1, CurrentType DEF Types
  <2> QED
    BY <1>1, <1>2, <2>1, <2>2 DEF LangInRange, InStep
<1>3. CASE ~(lang < NLangs[Current])
  BY <1>1, <1>3, NextSourceInStep DEF LeaveLanguage
<1> QED
  BY <1>2, <1>3

LEMMA PlusType ==
  ASSUME Current \in Names, NEW counts \in [Names -> Nat], NEW n \in Nat
  PROVE  Plus(counts, n) \in [Names -> Nat]
BY DEF Plus

LEMMA RowLength ==
  ASSUME Types
  PROVE  Len(row) \in Nat /\ 1 + Len(row) \in Nat /\ DOMAIN row = 1 .. Len(row)
BY DEF Types

LEMMA TypesStep ==
  ASSUME Types, LangInRange, Next
  PROVE  Types'
<1> USE DEF Types
<1>1. ASSUME SkipSource PROVE Types'
  BY <1>1, NextSourceType DEF SkipSource, reportVars
<1>2. ASSUME RefuseRecord PROVE Types'
  <2>1. at <= Len(Sources)
    BY <1>2 DEF RefuseRecord, InRow, AtControl
  <2>2. taken' \in [Langs -> Nat] /\ read' \in [Names -> Nat] /\ lang' \in Nat \ {0}
    BY <1>2, <2>1, YieldType DEF RefuseRecord
  <2>3. dropped' \in [Names -> Nat]
    BY <1>2, RowLength, CurrentType, PlusType DEF RefuseRecord, InRow, AtControl
  <2> QED
    BY <1>2, <2>2, <2>3 DEF RefuseRecord
<1>3. ASSUME AcceptRecord PROVE Types'
  <2>1. at <= Len(Sources) /\ AtControl
    BY <1>3 DEF AcceptRecord, InRow, AtControl
  <2>2. taken' \in [Langs -> Nat] /\ read' \in [Names -> Nat] /\ lang' \in Nat \ {0}
    BY <1>3, <2>1, YieldType DEF AcceptRecord
  <2>3. row' \in Seq(Doc)
    BY <1>3, <2>1, RowRecordType DEF AcceptRecord
  <2> QED
    BY <1>3, <2>2, <2>3 DEF AcceptRecord
<1>4. ASSUME ControlEnds PROVE Types'
  <2>1. at <= Len(Sources)
    BY <1>4 DEF ControlEnds, InRow, AtControl
  <2>2. dropped' \in [Names -> Nat]
    BY <1>4, RowLength, CurrentType, PlusType DEF ControlEnds, InRow, AtControl
  <2> QED
    BY <1>4, <2>1, <2>2, NextSourceType DEF ControlEnds
<1>5. ASSUME CommitRow PROVE Types'
  <2>1. \A i \in DOMAIN row : row[i] \in Doc
    OBVIOUS
  <2>2. docs' \subseteq Doc /\ index' \subseteq Texts
    BY <1>5, <2>1 DEF CommitRow, ToSet, Doc
  <2>3. emitted' \in [Names -> Nat]
    BY <1>5, RowLength, CurrentType, PlusType DEF CommitRow, RowRead, AtControl
  <2> QED
    BY <1>5, <2>2, <2>3 DEF CommitRow
<1>6. ASSUME DropRow PROVE Types'
  <2>1. dropped' \in [Names -> Nat]
    BY <1>6, RowLength, CurrentType, PlusType DEF DropRow, RowRead, AtControl
  <2> QED
    BY <1>6, <2>1 DEF DropRow
<1>7. ASSUME ControlFilled PROVE Types'
  BY <1>7, NextSourceType DEF ControlFilled, AtControl, reportVars
<1>8. ASSUME Reallocate PROVE Types'
  BY <1>8, FetchAssumption DEF Reallocate
<1>9. ASSUME DropVolumeRecord PROVE Types'
  <2>1. at <= Len(Sources) /\ lang <= NLangs[Current]
    BY <1>9 DEF DropVolumeRecord, AtVolume, AtControl, LangInRange
  <2>2. taken' \in [Langs -> Nat] /\ read' \in [Names -> Nat]
    BY <1>9, <2>1, YieldType DEF DropVolumeRecord
  <2>3. dropped' \in [Names -> Nat]
    BY <1>9, RowLength, CurrentType, PlusType DEF DropVolumeRecord, AtVolume
  <2> QED
    BY <1>9, <2>2, <2>3 DEF DropVolumeRecord
<1>10. ASSUME EmitVolumeRecord PROVE Types'
  <2>1. at <= Len(Sources) /\ lang <= NLangs[Current]
    BY <1>10 DEF EmitVolumeRecord, AtVolume, AtControl, LangInRange
  <2>2. taken' \in [Langs -> Nat] /\ read' \in [Names -> Nat] /\ lang \in Langs
    BY <1>10, <2>1, YieldType DEF EmitVolumeRecord
  <2>3. emitted' \in [Names -> Nat]
    BY <1>10, RowLength, CurrentType, PlusType DEF EmitVolumeRecord, AtVolume
  <2>4. docs' \subseteq Doc /\ index' \subseteq Texts
    BY <1>10, <2>1, <2>2, CurrentType DEF EmitVolumeRecord, Doc
  <2> QED
    BY <1>10, <2>2, <2>3, <2>4 DEF EmitVolumeRecord
<1>11. ASSUME AtVolume, LeaveLanguage PROVE /\ at' \in 1 .. Len(Sources) + 1
                                            /\ lang' \in Nat \ {0}
                                            /\ taken' \in [Langs -> Nat]
  BY <1>11, NextSourceType DEF AtVolume, LeaveLanguage
<1>12. ASSUME VolumeStreamEnds PROVE Types'
  BY <1>11, <1>12 DEF VolumeStreamEnds
<1>13. ASSUME LanguageFilled PROVE Types'
  BY <1>11, <1>13 DEF LanguageFilled
<1>14. ASSUME Finish PROVE Types'
  BY <1>14 DEF Finish, streamVars, reportVars
<1> QED
  BY <1>1, <1>2, <1>3, <1>4, <1>5, <1>6, <1>7, <1>8, <1>9, <1>10, <1>12, <1>13, <1>14
     DEF Next

-----------------------------------------------------------------------------
(* The streams stay in step, and the row in order and fresh.               *)
LEMMA RowLengthInOrder ==
  ASSUME Types, RowInOrder, row # <<>>
  PROVE  AtControl /\ lang > 1 /\ Current = row[1].source
<1>1. Len(row) \in Nat \ {0} /\ lang \in Nat
  BY DEF Types
<1> QED
  BY <1>1 DEF RowInOrder

(* Nothing of the row is kept: what is left is trivially in order.         *)
LEMMA RowEmptied ==
  ASSUME row' = <<>>, lang' \in Nat \ {0}
  PROVE  RowInOrder' /\ RowIsFresh'
BY DEF RowInOrder, RowIsFresh

(* Outside a row there is none.                                            *)
LEMMA NoRow ==
  ASSUME Types, RowInOrder, ~AtControl \/ lang = 1
  PROVE  row = <<>>
BY RowLengthInOrder DEF Types

LEMMA StepInStep ==
  ASSUME Types, LangInRange, InStep, Next, Types'
  PROVE  LangInRange' /\ InStep'
<1>1. ASSUME SkipSource PROVE LangInRange' /\ InStep'
  BY <1>1, NextSourceInStep DEF SkipSource
<1>2. ASSUME RefuseRecord PROVE LangInRange' /\ InStep'
  BY <1>2, YieldInStep DEF RefuseRecord
<1>3. ASSUME AcceptRecord PROVE LangInRange' /\ InStep'
  BY <1>3, YieldInStep DEF AcceptRecord
<1>4. ASSUME ControlEnds PROVE LangInRange' /\ InStep'
  BY <1>4, NextSourceInStep DEF ControlEnds, InRow, AtControl
<1>5. ASSUME CommitRow PROVE LangInRange' /\ InStep'
  BY <1>5, RowLeft DEF CommitRow
<1>6. ASSUME DropRow PROVE LangInRange' /\ InStep'
  BY <1>6, RowLeft DEF DropRow
<1>7. ASSUME ControlFilled PROVE LangInRange' /\ InStep'
  BY <1>7, NextSourceInStep DEF ControlFilled, AtControl
<1>8. ASSUME Reallocate PROVE LangInRange' /\ InStep'
  <2>1. stage' = "volumes" /\ at' = 1 /\ lang' = lang /\ ~AtControl'
    BY <1>8 DEF Reallocate, AtControl
  <2>2. lang = 1
    BY <1>8 DEF Reallocate, LangInRange, Types
  <2>3. 1 <= Len(Sources) => Sources[1] \in Names /\ NLangs[Sources[1]] >= 1
    BY FetchAssumption
  <2> QED
    BY <2>1, <2>2, <2>3 DEF InStep, LangInRange, Current
<1>9. ASSUME DropVolumeRecord PROVE LangInRange' /\ InStep'
  BY <1>9 DEF DropVolumeRecord, AtVolume, AtControl, InStep, LangInRange, Current
<1>10. ASSUME EmitVolumeRecord PROVE LangInRange' /\ InStep'
  BY <1>10 DEF EmitVolumeRecord, AtVolume, AtControl, InStep, LangInRange, Current
<1>11. ASSUME VolumeStreamEnds PROVE LangInRange' /\ InStep'
  BY <1>11, LeaveType DEF VolumeStreamEnds
<1>12. ASSUME LanguageFilled PROVE LangInRange' /\ InStep'
  BY <1>12, LeaveType DEF LanguageFilled
<1>13. ASSUME Finish PROVE LangInRange' /\ InStep'
  BY <1>13 DEF Finish, streamVars, AtControl, InStep, LangInRange, Types
<1> QED
  BY <1>1, <1>2, <1>3, <1>4, <1>5, <1>6, <1>7, <1>8, <1>9, <1>10, <1>11, <1>12, <1>13
     DEF Next

(* One more record of the row, accepted: it comes after the others, and    *)
(* lang moves past it.                                                     *)
LEMMA RowGrows ==
  ASSUME Types, LangInRange, InStep, RowInOrder, RowIsFresh, AcceptRecord
  PROVE  RowInOrder' /\ RowIsFresh'
<1>1. /\ InRow /\ AtControl /\ lang <= NLangs[Current] /\ Yield
      /\ lang' = lang + 1 /\ lang \in Nat \ {0}
      /\ UNCHANGED <<at, stage, index>>
  BY DEF AcceptRecord, InRow, Types
<1>2. Current' = Current /\ AtControl'
  BY <1>1 DEF Current, AtControl
<1>3. PICK text \in Texts : Passes(text) /\ row' = Append(row, RowRecord(text))
  BY DEF AcceptRecord
<1>4. /\ taken'[1] = taken[lang] + 1
      /\ lang # 1 => taken'[1] = taken[1]
  BY <1>1, YieldInStep
<1> DEFINE n == Len(row)
<1>5. /\ n \in Nat
      /\ Len(row') = n + 1
      /\ \A i \in 1 .. n : row'[i] = row[i]
      /\ row'[n + 1] = RowRecord(text)
  BY <1>1, <1>3, RowRecordType DEF Types
<1>6. /\ RowRecord(text).source = Current
      /\ RowRecord(text).lang = lang
      /\ RowRecord(text).row = taken'[1]
      /\ RowRecord(text).text = text
  BY <1>4 DEF RowRecord
<1>7. \A i \in 1 .. n : row[i].lang \in Nat
  <2>1. \A i \in 1 .. n : row[i] \in Doc
    BY DEF Types
  <2>2. Langs \subseteq Nat
    BY FetchAssumption DEF Langs
  <2> QED
    BY <2>1, <2>2 DEF Doc
<1>8. \A i \in 1 .. n + 1 :
        /\ row'[i].source = Current'
        /\ row'[i].row = taken'[1]
        /\ i <= row'[i].lang
        /\ row'[i].lang < lang' - (n + 1 - i)
  <2> TAKE i \in 1 .. n + 1
  <2>1. CASE i = n + 1
    BY <1>1, <1>2, <1>5, <1>6, <2>1 DEF RowInOrder
  <2>2. CASE i \in 1 .. n
    <3>1. lang # 1
      BY <1>1, <1>5, <2>2 DEF RowInOrder
    <3>2. /\ row[i].source = Current /\ row[i].row = taken[1]
          /\ i <= row[i].lang /\ row[i].lang < lang - (n - i)
      BY <2>2 DEF RowInOrder
    <3> QED
      BY <1>1, <1>2, <1>4, <1>5, <1>7, <2>2, <3>1, <3>2
  <2> QED
    BY <1>5, <2>1, <2>2
<1>9. RowInOrder'
  <2>1. n < lang
    BY DEF RowInOrder
  <2> QED
    BY <1>1, <1>2, <1>5, <1>8, <2>1 DEF RowInOrder
<1>10. RowIsFresh'
  <2> SUFFICES ASSUME NEW i \in 1 .. n + 1
               PROVE  row'[i].text \notin index
    BY <1>1, <1>5 DEF RowIsFresh
  <2>1. CASE i = n + 1
    BY <1>3, <1>5, <1>6, <2>1 DEF Passes
  <2>2. CASE i \in 1 .. n
    BY <1>5, <2>2 DEF RowIsFresh
  <2> QED
    BY <1>5, <2>1, <2>2
<1> QED
  BY <1>9, <1>10

(* A record of the row is refused: the others keep their place.            *)
LEMMA RowKept ==
  ASSUME Types, LangInRange, InStep, RowInOrder, RowIsFresh, RefuseRecord
  PROVE  RowInOrder' /\ RowIsFresh'
<1>1. /\ InRow /\ AtControl /\ lang <= NLangs[Current] /\ Yield
      /\ lang' = lang + 1 /\ lang \in Nat \ {0}
      /\ UNCHANGED <<at, stage, index, row>>
  BY DEF RefuseRecord, InRow, Types
<1>2. Current' = Current /\ AtControl'
  BY <1>1 DEF Current, AtControl
<1>3. lang # 1 => taken'[1] = taken[1]
  BY <1>1, YieldInStep
<1>4. Len(row) \in Nat
  BY DEF Types
<1>5. \A i \in 1 .. Len(row) : row[i].lang \in Nat
  <2>1. \A i \in 1 .. Len(row) : row[i] \in Doc
    BY DEF Types
  <2>2. Langs \subseteq Nat
    BY FetchAssumption DEF Langs
  <2> QED
    BY <2>1, <2>2 DEF Doc
<1>6. RowIsFresh'
  BY <1>1 DEF RowIsFresh
<1>7. ASSUME NEW i \in 1 .. Len(row)
      PROVE  /\ row[i].source = Current /\ row[i].row = taken'[1]
             /\ i <= row[i].lang /\ row[i].lang < lang' - (Len(row) - i)
  <2>1. lang # 1
    BY <1>1, <1>4 DEF RowInOrder
  <2> QED
    BY <1>1, <1>3, <1>4, <1>5, <2>1 DEF RowInOrder
<1>8. Len(row) < lang'
  BY <1>1, <1>4 DEF RowInOrder
<1> QED
  BY <1>1, <1>2, <1>6, <1>7, <1>8 DEF RowInOrder

LEMMA StepRow ==
  ASSUME Types, LangInRange, InStep, RowInOrder, RowIsFresh, Next, Types'
  PROVE  RowInOrder' /\ RowIsFresh'
<1>1. ASSUME row = <<>>, row' = row PROVE RowInOrder' /\ RowIsFresh'
  BY <1>1, RowEmptied DEF Types
<1>2. ASSUME SkipSource PROVE RowInOrder' /\ RowIsFresh'
  BY <1>1, <1>2, NoRow DEF SkipSource, AtControl
<1>3. ASSUME ControlEnds \/ CommitRow \/ DropRow PROVE RowInOrder' /\ RowIsFresh'
  BY <1>3, RowEmptied DEF ControlEnds, CommitRow, DropRow, Types
<1>4. ASSUME ControlFilled PROVE RowInOrder' /\ RowIsFresh'
  BY <1>1, <1>4, NoRow DEF ControlFilled
<1>5. ASSUME Reallocate PROVE RowInOrder' /\ RowIsFresh'
  <2>1. ~AtControl /\ row' = row
    BY <1>5 DEF Reallocate, AtControl, Types
  <2> QED
    BY <1>1, <2>1, NoRow
<1>6. ASSUME AtVolume \/ stage = "volumes", UNCHANGED row
      PROVE  RowInOrder' /\ RowIsFresh'
  BY <1>1, <1>6, NoRow DEF AtVolume, AtControl
<1> QED
  BY <1>2, <1>3, <1>4, <1>5, <1>6, RowGrows, RowKept
     DEF Next, DropVolumeRecord, EmitVolumeRecord, VolumeStreamEnds, LanguageFilled, Finish

-----------------------------------------------------------------------------
(* The corpus.                                                             *)

(* A row with as many documents as languages has one in each.              *)
LEMMA WholeRow ==
  ASSUME Types, LangInRange, RowInOrder, CommitRow
  PROVE  /\ DOMAIN row = 1 .. NLangs[Current]
         /\ \A i \in DOMAIN row :
              /\ row[i].source = Current
              /\ row[i].row = taken[1]
              /\ row[i].lang = i
<1>1. /\ AtControl /\ Len(row) = NLangs[Current]
      /\ lang = NLangs[Current] + 1 /\ NLangs[Current] \in Nat \ {0}
  BY CurrentType DEF CommitRow, RowRead, AtControl, LangInRange, Types
<1>2. DOMAIN row = 1 .. NLangs[Current]
  BY <1>1 DEF Types
<1>3. \A i \in DOMAIN row : row[i].lang \in Nat
  <2>1. \A i \in DOMAIN row : row[i] \in Doc
    BY DEF Types
  <2>2. Langs \subseteq Nat
    BY FetchAssumption DEF Langs
  <2> QED
    BY <2>1, <2>2 DEF Doc
<1> QED
  BY <1>1, <1>2, <1>3 DEF RowInOrder

LEMMA CommitKeeps ==
  ASSUME IInv, CommitRow
  PROVE  RowsAligned' /\ IndexIsCorpus' /\ RepeatsOnlyInRow'
<1>1. /\ docs' = docs \union {row[i] : i \in DOMAIN row}
      /\ index' = index \union {row[i].text : i \in DOMAIN row}
  BY DEF CommitRow, ToSet
<1>2. /\ DOMAIN row = 1 .. NLangs[Current]
      /\ \A i \in DOMAIN row :
           /\ row[i].source = Current
           /\ row[i].row = taken[1]
           /\ row[i].lang = i
  BY WholeRow DEF IInv
<1>3. Current \in Controls
  BY DEF CommitRow, RowRead, AtControl
<1>4. DOMAIN row = 1 .. Len(row)
  BY DEF IInv, Types
<1>5. RowsAligned'
  <2> SUFFICES ASSUME NEW d \in docs', d.source \in Controls,
                      NEW l \in 1 .. NLangs[d.source]
               PROVE  \E e \in docs' : e.source = d.source /\ e.row = d.row /\ e.lang = l
    BY DEF RowsAligned
  <2>1. CASE d \in docs
    BY <1>1, <2>1 DEF IInv, RowsAligned
  <2>2. CASE d \notin docs
    <3>1. PICK i \in DOMAIN row : d = row[i]
      BY <1>1, <2>2
    <3>2. d.source = Current /\ d.row = taken[1] /\ l \in DOMAIN row
      BY <1>2, <3>1
    <3>3. row[l] \in docs' /\ row[l].source = Current /\ row[l].row = taken[1] /\ row[l].lang = l
      BY <1>1, <1>2, <3>2
    <3> QED
      BY <3>2, <3>3
  <2> QED
    BY <2>1, <2>2
<1>6. IndexIsCorpus'
  BY <1>1 DEF IInv, IndexIsCorpus
<1>7. RepeatsOnlyInRow'
  <2> SUFFICES ASSUME NEW d \in docs', NEW e \in docs', d.text = e.text
               PROVE  d = e \/ (d.source = e.source /\ d.row = e.row /\ d.source \in Controls)
    BY DEF RepeatsOnlyInRow
  <2>1. \A c \in docs : c.text \in index
    BY DEF IInv, IndexIsCorpus
  <2>2. \A i \in DOMAIN row : row[i].text \notin index
    BY <1>4 DEF IInv, RowIsFresh
  <2>3. CASE d \in docs /\ e \in docs
    BY <2>3 DEF IInv, RepeatsOnlyInRow
  <2>4. CASE d \notin docs /\ e \notin docs
    BY <1>1, <1>2, <1>3, <2>4
  <2>5. CASE ~(d \in docs <=> e \in docs)
    BY <1>1, <2>1, <2>2, <2>5
  <2> QED
    BY <2>3, <2>4, <2>5
<1> QED
  BY <1>5, <1>6, <1>7

LEMMA EmitKeeps ==
  ASSUME IInv, EmitVolumeRecord
  PROVE  RowsAligned' /\ IndexIsCorpus' /\ RepeatsOnlyInRow'
<1>1. PICK text \in Texts :
        /\ Passes(text)
        /\ docs' = docs \union {[source |-> Current, lang |-> lang, row |-> 0, text |-> text]}
        /\ index' = index \union {text}
  BY DEF EmitVolumeRecord
<1> DEFINE new == [source |-> Current, lang |-> lang, row |-> 0, text |-> text]
<1>2. new.source \notin Controls /\ new.text = text /\ text \notin index
  BY <1>1 DEF EmitVolumeRecord, AtVolume, Passes
<1>3. RowsAligned'
  BY <1>1, <1>2 DEF IInv, RowsAligned
<1>4. IndexIsCorpus'
  BY <1>1, <1>2 DEF IInv, IndexIsCorpus
<1>5. RepeatsOnlyInRow'
  <2>1. \A c \in docs : c.text # text
    BY <1>2 DEF IInv, IndexIsCorpus
  <2> QED
    BY <1>1, <1>2, <2>1 DEF IInv, RepeatsOnlyInRow
<1> QED
  BY <1>3, <1>4, <1>5

LEMMA CorpusStep ==
  ASSUME IInv, Next
  PROVE  RowsAligned' /\ IndexIsCorpus' /\ RepeatsOnlyInRow'
<1>1. ASSUME UNCHANGED <<docs, index>>
      PROVE  RowsAligned' /\ IndexIsCorpus' /\ RepeatsOnlyInRow'
  BY <1>1 DEF IInv, RowsAligned, IndexIsCorpus, RepeatsOnlyInRow
<1> QED
  BY <1>1, CommitKeeps, EmitKeeps
     DEF Next, SkipSource, RefuseRecord, AcceptRecord, ControlEnds, DropRow, ControlFilled,
         Reallocate, DropVolumeRecord, VolumeStreamEnds, LanguageFilled, Finish

-----------------------------------------------------------------------------
(* The counts.                                                             *)

(* What of the row being read belongs to a source.                         *)
Held(s) == IF row # <<>> /\ s = row[1].source THEN Len(row) ELSE 0

LEMMA HeldIsRow ==
  ASSUME Types, RowInOrder, NEW s \in Names
  PROVE  Held(s) = IF s = Current THEN Len(row) ELSE 0
<1>1. CASE row = <<>>
  BY <1>1 DEF Held
<1>2. CASE row # <<>>
  <2>1. row[1].source = Current
    BY <1>2, RowLengthInOrder
  <2> QED
    BY <1>2, <2>1 DEF Held
<1> QED
  BY <1>1, <1>2

(* Adding to a count of the current source adds to no other.               *)
LEMMA PlusAt ==
  ASSUME NEW counts \in [Names -> Nat], NEW n \in Nat, NEW s \in Names
  PROVE  Plus(counts, n)[s] = counts[s] + (IF s = Current THEN n ELSE 0)
BY DEF Plus

LEMMA CountStep ==
  ASSUME IInv, Next
  PROVE  RecordsAccounted'
<1> USE DEF IInv
<1>1. SUFFICES ASSUME NEW s \in Names
               PROVE  read'[s] = emitted'[s] + dropped'[s] + Held(s)'
  BY DEF RecordsAccounted, Held
<1>2. /\ read[s] \in Nat /\ emitted[s] \in Nat /\ dropped[s] \in Nat
      /\ Len(row) \in Nat
      /\ read[s] = emitted[s] + dropped[s] + (IF s = Current THEN Len(row) ELSE 0)
  <2>1. read[s] = emitted[s] + dropped[s] + Held(s)
    BY DEF RecordsAccounted, Held
  <2> QED
    BY <2>1, HeldIsRow DEF Types
<1>3. ASSUME UNCHANGED <<row, emitted, dropped, read>>
      PROVE  read'[s] = emitted'[s] + dropped'[s] + Held(s)'
  BY <1>3 DEF RecordsAccounted, Held
<1>4. ASSUME RefuseRecord PROVE read'[s] = emitted'[s] + dropped'[s] + Held(s)'
  <2>1. /\ read'[s] = read[s] + (IF s = Current THEN 1 ELSE 0)
        /\ dropped'[s] = dropped[s] + (IF s = Current THEN 1 ELSE 0)
        /\ emitted'[s] = emitted[s]
    BY <1>4, PlusAt DEF RefuseRecord, Yield, Types
  <2>2. Held(s)' = IF s = Current THEN Len(row) ELSE 0
    BY <1>4, HeldIsRow DEF RefuseRecord, Held
  <2> QED
    BY <1>2, <2>1, <2>2
<1>5. ASSUME AcceptRecord PROVE read'[s] = emitted'[s] + dropped'[s] + Held(s)'
  <2>1. /\ read'[s] = read[s] + (IF s = Current THEN 1 ELSE 0)
        /\ dropped'[s] = dropped[s]
        /\ emitted'[s] = emitted[s]
    BY <1>5, PlusAt DEF AcceptRecord, Yield, Types
  <2>2. PICK text \in Texts : row' = Append(row, RowRecord(text))
    BY <1>5 DEF AcceptRecord
  <2>3. RowRecord(text) \in Doc
    BY <1>5, RowRecordType DEF AcceptRecord, InRow
  <2>4. row' # <<>> /\ Len(row') = Len(row) + 1
    <3>1. Len(row') = Len(row) + 1 /\ row \in Seq(Doc)
      BY <2>2, <2>3 DEF Types
    <3> QED
      BY <1>2, <3>1
  <2>5. row'[1].source = Current
    <3>1. CASE row = <<>>
      BY <2>2, <2>3, <3>1 DEF RowRecord
    <3>2. CASE row # <<>>
      <4>1. row'[1] = row[1]
        BY <2>2, <2>3, <3>2, <1>2 DEF Types
      <4> QED
        BY <3>2, <4>1, RowLengthInOrder
    <3> QED
      BY <3>1, <3>2
  <2>6. Held(s)' = IF s = Current THEN Len(row) + 1 ELSE 0
    BY <2>4, <2>5 DEF Held
  <2> QED
    BY <1>2, <2>1, <2>6
<1>6. ASSUME ControlEnds PROVE read'[s] = emitted'[s] + dropped'[s] + Held(s)'
  <2>1. /\ read'[s] = read[s]
        /\ dropped'[s] = dropped[s] + (IF s = Current THEN Len(row) ELSE 0)
        /\ emitted'[s] = emitted[s]
    BY <1>2, <1>6, PlusAt DEF ControlEnds, Types
  <2>2. Held(s)' = 0
    BY <1>6 DEF ControlEnds, Held
  <2> QED
    BY <1>2, <2>1, <2>2
<1>7. ASSUME DropRow PROVE read'[s] = emitted'[s] + dropped'[s] + Held(s)'
  <2>1. /\ read'[s] = read[s]
        /\ dropped'[s] = dropped[s] + (IF s = Current THEN Len(row) ELSE 0)
        /\ emitted'[s] = emitted[s]
    BY <1>2, <1>7, PlusAt DEF DropRow, Types
  <2>2. Held(s)' = 0
    BY <1>7 DEF DropRow, Held
  <2> QED
    BY <1>2, <2>1, <2>2
<1>8. ASSUME CommitRow PROVE read'[s] = emitted'[s] + dropped'[s] + Held(s)'
  <2>1. /\ read'[s] = read[s]
        /\ dropped'[s] = dropped[s]
        /\ emitted'[s] = emitted[s] + (IF s = Current THEN Len(row) ELSE 0)
    BY <1>2, <1>8, PlusAt DEF CommitRow, Types
  <2>2. Held(s)' = 0
    BY <1>8 DEF CommitRow, Held
  <2> QED
    BY <1>2, <2>1, <2>2
<1>9. ASSUME DropVolumeRecord PROVE read'[s] = emitted'[s] + dropped'[s] + Held(s)'
  <2>1. row = <<>> /\ row' = <<>>
    BY <1>9, NoRow DEF DropVolumeRecord, AtVolume, AtControl
  <2>2. /\ read'[s] = read[s] + (IF s = Current THEN 1 ELSE 0)
        /\ dropped'[s] = dropped[s] + (IF s = Current THEN 1 ELSE 0)
        /\ emitted'[s] = emitted[s]
    BY <1>9, PlusAt DEF DropVolumeRecord, Yield, Types
  <2>3. Held(s)' = 0 /\ Len(row) = 0
    BY <2>1 DEF Held
  <2> QED
    BY <1>2, <2>2, <2>3
<1>10. ASSUME EmitVolumeRecord PROVE read'[s] = emitted'[s] + dropped'[s] + Held(s)'
  <2>1. row = <<>> /\ row' = <<>>
    BY <1>10, NoRow DEF EmitVolumeRecord, AtVolume, AtControl
  <2>2. /\ read'[s] = read[s] + (IF s = Current THEN 1 ELSE 0)
        /\ emitted'[s] = emitted[s] + (IF s = Current THEN 1 ELSE 0)
        /\ dropped'[s] = dropped[s]
    BY <1>10, PlusAt DEF EmitVolumeRecord, Yield, Types
  <2>3. Held(s)' = 0 /\ Len(row) = 0
    BY <2>1 DEF Held
  <2> QED
    BY <1>2, <2>2, <2>3
<1> QED
  BY <1>3, <1>4, <1>5, <1>6, <1>7, <1>8, <1>9, <1>10
     DEF Next, SkipSource, ControlFilled, Reallocate, VolumeStreamEnds, LanguageFilled,
         Finish, reportVars

-----------------------------------------------------------------------------
(* The constants.                                                          *)

(* No document has more tokens than the largest text (clean, truncation).  *)
LEMMA LargestIs ==
  /\ Largest \in Nat \ {0}
  /\ \A t \in Texts : Tokens[t] \in Nat \ {0} /\ Tokens[t] <= Largest
<1> DEFINE T == {Tokens[t] : t \in Texts}
<1>1. PICK t \in Texts : \A u \in Texts : Tokens[u] <= Tokens[t]
  BY FetchAssumption
<1>2. Tokens[t] \in T /\ \A n \in T : n <= Tokens[t]
  BY <1>1
<1>3. Largest = CHOOSE n \in T : \A u \in Texts : Tokens[u] <= n
  BY DEF Largest
<1>4. Largest \in T /\ \A u \in Texts : Tokens[u] <= Largest
  BY <1>1, <1>2, <1>3
<1> QED
  BY <1>4, FetchAssumption

LEMMA SourcesAre ==
  /\ Len(Sources) \in Nat
  /\ DOMAIN Sources = 1 .. Len(Sources)
  /\ \A i \in 1 .. Len(Sources) : Sources[i] \in Names
  /\ \A s \in Names : \E i \in 1 .. Len(Sources) : Sources[i] = s
  /\ \A i, j \in 1 .. Len(Sources) : Sources[i] = Sources[j] => i = j
  /\ IsFiniteSet(Names)
<1>1. /\ Len(Sources) \in Nat
      /\ DOMAIN Sources = 1 .. Len(Sources)
      /\ \A i \in 1 .. Len(Sources) : Sources[i] \in Names
  BY FetchAssumption
<1>2. \A s \in Names : \E i \in 1 .. Len(Sources) : Sources[i] = s
  BY <1>1 DEF Names, ToSet
<1>3. \A i, j \in 1 .. Len(Sources) : Sources[i] = Sources[j] => i = j
  BY <1>1, FetchAssumption DEF IsInjective
<1>4. IsFiniteSet(Names)
  <2>1. IsFiniteSet(1 .. Len(Sources))
    BY <1>1, FS_Interval
  <2>2. Sources \in Surjection(1 .. Len(Sources), Names)
    BY <1>1, <1>2, FetchAssumption DEF Surjection
  <2> QED
    BY <2>1, <2>2, FS_Surjection
<1> QED
  BY <1>1, <1>2, <1>3, <1>4

LEMMA RoundedType ==
  ASSUME NEW n \in Int, NEW d \in Nat, d > 0
  PROVE  Rounded(n, d) \in Int
<1>1. n \div d \in Int
  BY Quotient
<1> QED
  BY <1>1 DEF Rounded

LEMMA LastOfIn ==
  ASSUME NEW S \in SUBSET Names, S # {}
  PROVE  LastOf(S) \in S
<1> DEFINE T == {i \in DOMAIN Sources : Sources[i] \in S}
<1>1. T \in SUBSET (1 .. Len(Sources)) /\ T # {} /\ Len(Sources) \in Nat
  BY SourcesAre
<1>2. Max(T) \in T
  <2> HIDE DEF T
  <2> QED
    BY <1>1, MaxOfBounded
<1> QED
  BY <1>2 DEF LastOf

(* What is shared out over the sources of a domain is all of it, whatever  *)
(* the rounding does (source_token_targets: no rounding leak).             *)
LEMMA NothingLeaks ==
  ASSUME NEW total \in Int, NEW S \in SUBSET Names, S # {}
  PROVE  /\ \A s \in S : SharedOut(total, S)[s] \in Int
         /\ Summation(SharedOut(total, S), S) = total
<1> DEFINE W == SumFunctionOnSet(Weight, S)
           share == [s \in S |-> Rounded(total * Weight[s], W)]
           last == LastOf(S)
           out == SharedOut(total, S)
<1>1. IsFiniteSet(S) /\ last \in S
  BY SourcesAre, FS_Subset, LastOfIn
<1>2. W \in Nat /\ W > 0
  <2>1. \A s \in S : Weight[s] \in Nat /\ Weight[s] > 0
    BY SpecAssumption
  <2>2. W = Summation(Weight, S)
    <3>1. \A s \in S : Weight[s] \in Int
      BY <2>1
    <3> QED
      BY <1>1, <3>1, SumFunctionOnSetIsSum
  <2>3. Summation(Weight, S) = Summation(Weight, S \ {last}) + Weight[last]
    BY <1>1, <2>1, SummationStep
  <2>4. Summation(Weight, S \ {last}) \in Nat
    BY <1>1, <2>1, SummationMonotone
  <2> QED
    BY <1>1, <2>1, <2>2, <2>3, <2>4
<1> HIDE DEF W
<1>3. \A s \in S : share[s] \in Int
  <2> TAKE s \in S
  <2>1. total * Weight[s] \in Int
    BY SpecAssumption
  <2> QED
    BY <1>2, <2>1, RoundedType
<1>4. \A s \in S : out[s] = IF s = last THEN total - SumFunctionOnSet(share, S \ {s}) ELSE share[s]
  BY DEF SharedOut, W
<1> HIDE DEF share, last, out
<1>5. IsFiniteSet(S \ {last}) /\ \A s \in S \ {last} : share[s] \in Int
  BY <1>1, <1>3, FS_Subset
<1>6. SumFunctionOnSet(share, S \ {last}) = Summation(share, S \ {last})
  BY <1>5, SumFunctionOnSetIsSum
<1>7. Summation(share, S \ {last}) \in Int
  BY <1>5, SummationType
<1>8. \A s \in S : out[s] \in Int
  <2> TAKE s \in S
  <2>1. CASE s = last
    <3>1. out[s] = total - Summation(share, S \ {last})
      BY <1>4, <1>6, <2>1
    <3> QED
      BY <1>7, <3>1
  <2>2. CASE s # last
    BY <1>3, <1>4, <2>2
  <2> QED
    BY <2>1, <2>2
<1>9. Summation(out, S \ {last}) = Summation(share, S \ {last})
  BY <1>4, <1>5, SummationSame
<1>10. Summation(out, S) = Summation(out, S \ {last}) + out[last]
  BY <1>1, <1>8, SummationStep
<1>11. out[last] = total - Summation(share, S \ {last})
  BY <1>1, <1>4, <1>6
<1>12. Summation(out, S) = total
  BY <1>7, <1>9, <1>10, <1>11
<1> QED
  BY <1>8, <1>12 DEF out

LEMMA DomainsAre ==
  ASSUME NEW d \in Domains
  PROVE  /\ InDomain(d) \in SUBSET Names /\ IsFiniteSet(InDomain(d))
         /\ InDomain(d) # {} /\ VolumesOf(d) # {}
         /\ VolumesOf(d) \in SUBSET Names /\ IsFiniteSet(VolumesOf(d))
         /\ Target[d] \in Int
<1>1. InDomain(d) \in SUBSET Names /\ VolumesOf(d) \in SUBSET Names
  BY DEF InDomain, VolumesOf
<1>2. PICK s \in Names \ Controls : Domain[s] = d
  BY SpecAssumption
<1>3. s \in VolumesOf(d) /\ s \in InDomain(d)
  BY <1>2 DEF InDomain, VolumesOf
<1> QED
  BY <1>1, <1>3, SourcesAre, FS_Subset, SpecAssumption


-----------------------------------------------------------------------------
(* The types of the rest, and the tokens a row brings.                     *)

Counts ==
  /\ ended \in SUBSET (Names \X Langs)
  /\ IsFiniteSet(docs)
  /\ requested \in [Names -> Int]
  /\ delivered \in [Names -> Nat]
  /\ dry \in SUBSET Names
  /\ stage \in {"controls", "volumes", "ok", "short"}

RowTokens == [i \in DOMAIN row |-> Tokens[row[i].text]]

LEMMA RowTokensAre ==
  ASSUME Types
  PROVE  SumFunction(RowTokens) \in Nat /\ SumFunction(RowTokens) <= Len(row) * Largest
<1> DEFINE I == 1 .. Len(row)
           most == [i \in I |-> Largest]
<1>1. /\ Len(row) \in Nat /\ IsFiniteSet(I) /\ Cardinality(I) = Len(row)
      /\ \A i \in I : row[i] \in Doc
      /\ DOMAIN row = I
  <2>1. Len(row) \in Nat /\ (\A i \in I : row[i] \in Doc) /\ DOMAIN row = I
    BY DEF Types
  <2>2. IsFiniteSet(I) /\ Cardinality(I) = IF 1 > Len(row) THEN 0 ELSE Len(row) - 1 + 1
    BY <2>1, FS_Interval
  <2> QED
    BY <2>1, <2>2
<1>2. \A i \in I : RowTokens[i] \in Nat /\ RowTokens[i] <= most[i] /\ most[i] = Largest
  <2> TAKE i \in I
  <2>1. row[i].text \in Texts
    BY <1>1 DEF Doc
  <2> QED
    BY <1>1, <2>1, LargestIs DEF RowTokens
<1>3. DOMAIN RowTokens = I
  BY <1>1 DEF RowTokens
<1> HIDE DEF most
<1>4. SumFunction(RowTokens) = Summation(RowTokens, I)
  <2>1. \A i \in I : RowTokens[i] \in Int
    BY <1>2
  <2>2. SumFunction(RowTokens) = SumFunctionOnSet(RowTokens, I)
    BY <1>3 DEF SumFunction
  <2> QED
    BY <1>1, <2>1, <2>2, SumFunctionOnSetIsSum
<1>5. Summation(RowTokens, I) \in Nat
  BY <1>1, <1>2, SummationMonotone
<1>6. Summation(RowTokens, I) <= Summation(most, I)
  <2>1. \A i \in I : RowTokens[i] \in Int /\ most[i] \in Int /\ RowTokens[i] <= most[i]
    BY <1>2, LargestIs
  <2> QED
    BY <1>1, <2>1, SummationAtMost
<1>7. Summation(most, I) = Len(row) * Largest
  <2>1. Largest \in Int /\ \A i \in I : most[i] = Largest
    BY <1>2, LargestIs
  <2>2. Summation(most, I) = Cardinality(I) * Largest
    BY <1>1, <2>1, SummationConstant
  <2> QED
    BY <1>1, <2>2
<1> QED
  BY <1>4, <1>5, <1>6, <1>7

LEMMA RowFinite ==
  ASSUME Types
  PROVE  IsFiniteSet(ToSet(row))
<1>1. Len(row) \in Nat /\ DOMAIN row = 1 .. Len(row) /\ ToSet(row) = {row[i] : i \in DOMAIN row}
  BY DEF Types, ToSet
<1>2. IsFiniteSet(DOMAIN row)
  BY <1>1, FS_Interval
<1>3. row \in Surjection(DOMAIN row, ToSet(row))
  BY <1>1 DEF Types, Surjection
<1> QED
  BY <1>2, <1>3, FS_Surjection

LEMMA InitCounts == Init => Counts
<1> SUFFICES ASSUME Init PROVE Counts
  OBVIOUS
<1>1. BaseTokens \in [Names -> Int]
  <2> SUFFICES ASSUME NEW s \in Names
               PROVE  SharedOut(Target[Domain[s]], InDomain(Domain[s]))[s] \in Int
    BY DEF BaseTokens
  <2>1. Domain[s] \in Domains /\ s \in InDomain(Domain[s])
    BY DEF Domains, InDomain
  <2> QED
    BY <2>1, DomainsAre, NothingLeaks
<1> QED
  BY <1>1, FS_EmptySet DEF Init, Counts

(* What the controls of a domain leave.                                    *)
LEMMA ShortfallType ==
  ASSUME Counts, NEW d \in Domains
  PROVE  /\ \A s \in Names : Shortfall(s) \in Nat
         /\ IsFiniteSet(InDomain(d) \intersect Controls)
         /\ ControlShortfall(d) \in Int
         /\ ControlShortfall(d)
              = Summation([s \in Controls |-> Shortfall(s)], InDomain(d) \intersect Controls)
<1>1. \A s \in Names : Shortfall(s) \in Nat
  BY DEF Shortfall, Counts
<1> DEFINE w == [s \in Controls |-> Shortfall(s)]
           S == InDomain(d) \intersect Controls
<1>2. IsFiniteSet(S) /\ S \subseteq Names
  BY DomainsAre, FS_Subset
<1>3. \A s \in S : w[s] \in Int
  BY <1>1, <1>2
<1>4. ControlShortfall(d) = SumFunctionOnSet(w, S)
  BY DEF ControlShortfall
<1> HIDE DEF w, S
<1>5. ControlShortfall(d) = Summation(w, S) /\ ControlShortfall(d) \in Int
  BY <1>2, <1>3, <1>4, SumFunctionOnSetIsSum, SummationType
<1> QED
  BY <1>1, <1>2, <1>5 DEF w, S

LEMMA ReallocatedIs ==
  ASSUME Counts
  PROVE  /\ Reallocated \in [Names -> Int]
         /\ \A s \in Names \intersect Controls : Reallocated[s] = requested[s]
         /\ \A d \in Domains : \A s \in VolumesOf(d) :
              Reallocated[s] = requested[s] + SharedOut(ControlShortfall(d), VolumesOf(d))[s]
<1>1. \A s \in Names \intersect Controls : Reallocated[s] = requested[s]
  BY DEF Reallocated
<1>2. ASSUME NEW d \in Domains, NEW s \in VolumesOf(d)
      PROVE  Reallocated[s] = requested[s] + SharedOut(ControlShortfall(d), VolumesOf(d))[s]
  <2>1. s \in Names /\ s \notin Controls /\ Domain[s] = d
    BY DEF VolumesOf, InDomain
  <2> QED
    BY <2>1 DEF Reallocated
<1>3. ASSUME NEW s \in Names
      PROVE  Reallocated[s] \in Int
  <2>1. CASE s \in Controls
    BY <1>1, <2>1 DEF Counts
  <2>2. CASE s \notin Controls
    <3>1. Domain[s] \in Domains /\ s \in VolumesOf(Domain[s])
      BY <2>2 DEF Domains, VolumesOf, InDomain
    <3>2. SharedOut(ControlShortfall(Domain[s]), VolumesOf(Domain[s]))[s] \in Int
      BY <3>1, ShortfallType, DomainsAre, NothingLeaks
    <3> QED
      BY <1>2, <3>1, <3>2 DEF Counts
  <2> QED
    BY <2>1, <2>2
<1> QED
  BY <1>1, <1>2, <1>3 DEF Reallocated

(* No step reads anything but the row into the counts.                     *)
LEMMA CountsStep ==
  ASSUME Types, LangInRange, Counts, Next
  PROVE  Counts'
<1> USE DEF Counts
<1>1. CASE SkipSource
  BY <1>1 DEF SkipSource, NextSource, reportVars
<1>2. CASE RefuseRecord
  BY <1>2 DEF RefuseRecord
<1>3. CASE AcceptRecord
  BY <1>3 DEF AcceptRecord
<1>4. ASSUME at <= Len(Sources), lang <= NLangs[Current], StreamEnds
      PROVE  Current \in Names /\ ended' \in SUBSET (Names \X Langs)
  <2>1. Current \in Names /\ 1 .. NLangs[Current] \subseteq Langs /\ NLangs[Current] \in Nat
    BY <1>4, CurrentType
  <2>2. lang \in 1 .. NLangs[Current]
    BY <1>4, <2>1 DEF Types
  <2>3. ended' = ended \union {<<Current, lang>>} /\ lang \in Langs
    BY <1>4, <2>1, <2>2 DEF StreamEnds
  <2> QED
    BY <2>1, <2>3
<1>5. CASE ControlEnds
  BY <1>4, <1>5 DEF ControlEnds, InRow, AtControl
<1>6. CASE CommitRow
  <2>1. Current \in Names
    BY <1>6, CurrentType DEF CommitRow, RowRead, AtControl
  <2>2. delivered' \in [Names -> Nat]
    <3>1. delivered' = Plus(delivered, SumFunction(RowTokens))
      BY <1>6 DEF CommitRow, RowTokens
    <3>2. SumFunction(RowTokens) \in Nat
      BY RowTokensAre
    <3> QED
      BY <2>1, <3>1, <3>2, PlusType
  <2>3. IsFiniteSet(docs')
    <3>1. docs' = docs \union ToSet(row)
      BY <1>6 DEF CommitRow
    <3>2. IsFiniteSet(ToSet(row))
      BY RowFinite
    <3> QED
      BY <3>1, <3>2, FS_Union
  <2> QED
    BY <1>6, <2>2, <2>3 DEF CommitRow
<1>7. CASE DropRow
  BY <1>7 DEF DropRow
<1>8. CASE ControlFilled
  BY <1>8 DEF ControlFilled, reportVars
<1>9. CASE Reallocate
  BY <1>9, ReallocatedIs DEF Reallocate
<1>10. CASE DropVolumeRecord
  BY <1>10 DEF DropVolumeRecord
<1>11. CASE EmitVolumeRecord
  <2>1. PICK text \in Texts :
          /\ docs' = docs \union {[source |-> Current, lang |-> lang, row |-> 0, text |-> text]}
          /\ delivered' = Plus(delivered, Tokens[text])
    BY <1>11 DEF EmitVolumeRecord
  <2>2. Current \in Names /\ Tokens[text] \in Nat
    BY <1>11, CurrentType, LargestIs DEF EmitVolumeRecord, AtVolume
  <2>3. delivered' \in [Names -> Nat]
    BY <2>1, <2>2, PlusType
  <2>4. IsFiniteSet(docs')
    BY <2>1, FS_AddElement
  <2> QED
    BY <1>11, <2>3, <2>4 DEF EmitVolumeRecord
<1>12. ASSUME AtVolume, LeaveLanguage PROVE dry' \in SUBSET Names
  <2>1. Current \in Names
    BY <1>12, CurrentType DEF AtVolume
  <2> QED
    BY <1>12, <2>1 DEF LeaveLanguage
<1>13. CASE VolumeStreamEnds
  <2>1. at <= Len(Sources) /\ lang <= NLangs[Current]
    BY <1>13 DEF VolumeStreamEnds, AtVolume, AtControl, LangInRange
  <2> QED
    BY <1>4, <1>12, <1>13, <2>1 DEF VolumeStreamEnds
<1>14. CASE LanguageFilled
  BY <1>12, <1>14 DEF LanguageFilled
<1>15. CASE Finish
  BY <1>15 DEF Finish, streamVars, reportVars
<1> QED
  BY <1>1, <1>2, <1>3, <1>5, <1>6, <1>7, <1>8, <1>9, <1>10, <1>11, <1>13, <1>14, <1>15 DEF Next

-----------------------------------------------------------------------------
(* Budgets.                                                                *)

Piece(s) == IF s \in Controls THEN NLangs[s] * Largest ELSE Largest

(* A row is begun only below the budget.                                   *)
RowIsWanted == AtControl /\ lang > 1 => delivered[Current] < requested[Current]

VolumePlaces == {i \in 1 .. Len(Sources) : Sources[i] \notin Controls}

Waiting(i) == stage = "controls" \/ (stage = "volumes" /\ i > at)

NothingYet ==
  \A i \in VolumePlaces : Waiting(i) =>
    /\ delivered[Sources[i]] = 0
    /\ \A d \in docs : d.source # Sources[i]

(* A budget that rounding left below zero.                                 *)
NothingWanted ==
  stage # "controls" =>
    \A i \in VolumePlaces : requested[Sources[i]] <= 0 => delivered[Sources[i]] = 0

LEMMA PlacesAre ==
  ASSUME NEW i \in VolumePlaces
  PROVE  /\ i \in 1 .. Len(Sources) /\ Sources[i] \in Names /\ Sources[i] \notin Controls
         /\ NLangs[Sources[i]] \in Nat \ {0}
         /\ \A j \in 1 .. Len(Sources) : Sources[j] = Sources[i] => j = i
BY SourcesAre, FetchAssumption DEF VolumePlaces

LEMMA WantedIsBelow ==
  ASSUME NEW r \in Int, NEW n \in Nat, n > 0, NEW l \in 1 .. n, NEW c \in Nat,
         c < (r * l) \div n
  PROVE  r > 0 /\ c < r
<1> DEFINE p == r * l
           q == p \div n
           m == n * q
<1>1. p \in Int /\ q \in Int /\ m \in Int /\ m <= p /\ c < q
  BY Quotient
<1>2. q >= 1
  BY <1>1
<1>3. m >= n
  BY <1>1, <1>2
<1>4. p >= 1
  <2> HIDE DEF p, m
  <2> QED
    BY <1>1, <1>3
<1>5. r > 0
  BY <1>4
<1>6. p <= r * n
  BY <1>5
<1>7. n * q <= r * n
  BY <1>1, <1>6
<1>8. q <= r
  <2>1. SUFFICES ASSUME q > r PROVE FALSE
    BY <1>1
  <2>2. q >= r + 1
    BY <1>1, <2>1
  <2>3. n * q >= n * (r + 1)
    BY <1>1, <2>2
  <2>4. n * (r + 1) = r * n + n
    OBVIOUS
  <2> QED
    BY <1>1, <1>7, <2>3, <2>4
<1> QED
  BY <1>1, <1>5, <1>8

LEMMA VolumeEmits ==
  ASSUME Types, Counts, LangInRange, EmitVolumeRecord
  PROVE  \E text \in Texts :
           /\ text \notin index
           /\ docs' = docs \union {[source |-> Current, lang |-> lang, row |-> 0, text |-> text]}
           /\ delivered' = Plus(delivered, Tokens[text])
           /\ Tokens[text] \in Nat \ {0} /\ Tokens[text] <= Largest
           /\ at \in VolumePlaces /\ Current = Sources[at]
           /\ lang \in 1 .. NLangs[Current]
           /\ requested[Current] > 0
           /\ delivered[Current] < Cumulative(Current, lang)
           /\ delivered[Current] < requested[Current]
<1>1. PICK text \in Texts :
        /\ Passes(text)
        /\ docs' = docs \union {[source |-> Current, lang |-> lang, row |-> 0, text |-> text]}
        /\ delivered' = Plus(delivered, Tokens[text])
  BY DEF EmitVolumeRecord
<1>2. at \in VolumePlaces /\ Current = Sources[at]
  BY DEF EmitVolumeRecord, AtVolume, VolumePlaces, Types, Current
<1>3. NLangs[Current] \in Nat \ {0} /\ Current \in Names
  BY <1>2, PlacesAre
<1>4. lang \in 1 .. NLangs[Current]
  BY <1>3 DEF EmitVolumeRecord, AtVolume, AtControl, LangInRange, Types
<1>5. delivered[Current] < (requested[Current] * lang) \div NLangs[Current]
  BY DEF EmitVolumeRecord, Wants, Cumulative
<1>6. requested[Current] \in Int /\ delivered[Current] \in Nat
  BY <1>3 DEF Counts
<1>7. requested[Current] > 0 /\ delivered[Current] < requested[Current]
  <2>1. NLangs[Current] \in Nat /\ NLangs[Current] > 0
    BY <1>3
  <2> QED
    BY <1>4, <1>5, <1>6, <2>1, WantedIsBelow
<1> QED
  BY <1>1, <1>2, <1>4, <1>5, <1>7, LargestIs DEF Passes, Cumulative

(* The loops go forward over the sources.                                  *)
LEMMA VolumeMoves ==
  ASSUME Types, AtVolume, LeaveLanguage
  PROVE  /\ at \in VolumePlaces /\ Current = Sources[at]
         /\ \/ lang < NLangs[Current] /\ at' = at /\ lang' = lang + 1 /\ dry' = dry
            \/ /\ ~(lang < NLangs[Current]) /\ at' = at + 1 /\ lang' = 1
               /\ dry' = IF delivered[Current] < requested[Current]
                         THEN dry \union {Current} ELSE dry
BY DEF AtVolume, LeaveLanguage, NextSource, Types, VolumePlaces, Current

LEMMA RowIsWantedStep ==
  ASSUME Types, RowIsWanted, Next
  PROVE  RowIsWanted'
<1>1. CASE SkipSource \/ ControlEnds \/ CommitRow \/ DropRow \/ ControlFilled
  <2>1. lang' = 1
    BY <1>1 DEF SkipSource, ControlEnds, CommitRow, DropRow, ControlFilled, NextSource
  <2> QED
    BY <2>1 DEF RowIsWanted
<1>2. CASE RefuseRecord \/ AcceptRecord
  <2>1. /\ AtControl
        /\ lang > 1 \/ delivered[Current] < requested[Current]
        /\ Current' = Current /\ delivered' = delivered /\ requested' = requested
    BY <1>2 DEF RefuseRecord, AcceptRecord, InRow, Current
  <2> QED
    BY <2>1 DEF RowIsWanted
<1>3. CASE \/ Reallocate \/ DropVolumeRecord \/ EmitVolumeRecord \/ VolumeStreamEnds
           \/ LanguageFilled \/ Finish
  <2>1. stage' # "controls"
    BY <1>3 DEF Reallocate, DropVolumeRecord, EmitVolumeRecord, VolumeStreamEnds,
                LanguageFilled, Finish, AtVolume
  <2> QED
    BY <2>1 DEF RowIsWanted, AtControl
<1> QED
  BY <1>1, <1>2, <1>3 DEF Next

(* Steps that bring nothing to the corpus.                                 *)
Quiet == UNCHANGED <<docs, requested, delivered>>

LEMMA QuietSteps ==
  ASSUME Next
  PROVE  CommitRow \/ EmitVolumeRecord \/ Reallocate \/ Quiet
BY DEF Next, Quiet, SkipSource, RefuseRecord, AcceptRecord, ControlEnds, DropRow,
       ControlFilled, DropVolumeRecord, VolumeStreamEnds, LanguageFilled, Finish, reportVars

LEMMA Forward ==
  ASSUME Types, Next, NEW i \in 1 .. Len(Sources), Waiting(i)'
  PROVE  Waiting(i)
<1>1. CASE SkipSource \/ ControlEnds \/ ControlFilled
  BY <1>1 DEF SkipSource, ControlEnds, ControlFilled, NextSource, Waiting, Types
<1>2. CASE RefuseRecord \/ AcceptRecord \/ CommitRow \/ DropRow
  BY <1>2 DEF RefuseRecord, AcceptRecord, CommitRow, DropRow, Waiting
<1>3. CASE Reallocate \/ Finish
  BY <1>3 DEF Reallocate, Finish, Waiting
<1>4. CASE DropVolumeRecord \/ EmitVolumeRecord
  BY <1>4 DEF DropVolumeRecord, EmitVolumeRecord, Waiting
<1>5. CASE VolumeStreamEnds \/ LanguageFilled
  <2>1. (at' = at \/ at' = at + 1) /\ stage' = stage
    BY <1>5, VolumeMoves DEF VolumeStreamEnds, LanguageFilled
  <2> QED
    BY <2>1 DEF Waiting, Types
<1> QED
  BY <1>1, <1>2, <1>3, <1>4, <1>5 DEF Next

LEMMA RowCommitted ==
  ASSUME Types, Counts, RowInOrder, CommitRow
  PROVE  /\ Current \in Names \intersect Controls
         /\ docs' = docs \union ToSet(row)
         /\ \A d \in ToSet(row) : d.source = Current
         /\ delivered' = Plus(delivered, SumFunction(RowTokens))
         /\ SumFunction(RowTokens) \in Nat
         /\ SumFunction(RowTokens) <= NLangs[Current] * Largest
         /\ AtControl
<1>1. /\ docs' = docs \union ToSet(row) /\ delivered' = Plus(delivered, SumFunction(RowTokens))
      /\ AtControl /\ Len(row) = NLangs[Current]
  BY DEF CommitRow, RowTokens, RowRead
<1>2. Current \in Names /\ Current \in Controls
  BY <1>1, CurrentType DEF AtControl
<1>3. \A d \in ToSet(row) : d.source = Current
  BY RowLength DEF RowInOrder, ToSet
<1>4. SumFunction(RowTokens) \in Nat /\ SumFunction(RowTokens) <= Len(row) * Largest
  BY RowTokensAre
<1> QED
  BY <1>1, <1>2, <1>3, <1>4

LEMMA NothingYetStep ==
  ASSUME Types, Counts, LangInRange, RowInOrder, NothingYet, Next
  PROVE  NothingYet'
<1> SUFFICES ASSUME NEW i \in VolumePlaces, Waiting(i)'
             PROVE  delivered'[Sources[i]] = 0 /\ \A d \in docs' : d.source # Sources[i]
  BY DEF NothingYet
<1>1. /\ delivered[Sources[i]] = 0 /\ \A d \in docs : d.source # Sources[i]
      /\ Sources[i] \in Names /\ Sources[i] \notin Controls /\ delivered \in [Names -> Nat]
  BY Forward, PlacesAre DEF NothingYet, Counts
<1>2. CASE CommitRow
  <2>1. Sources[i] # Current
    BY <1>1, <1>2, RowCommitted
  <2> QED
    BY <1>1, <1>2, <2>1, RowCommitted, PlusAt
<1>3. CASE EmitVolumeRecord
  <2>1. PICK text \in Texts :
          /\ docs' = docs \union {[source |-> Current, lang |-> lang, row |-> 0, text |-> text]}
          /\ delivered' = Plus(delivered, Tokens[text])
          /\ Tokens[text] \in Nat
          /\ at \in VolumePlaces /\ Current = Sources[at]
    BY <1>3, VolumeEmits
  <2>2. i > at /\ at \in 1 .. Len(Sources)
    BY <1>3, <2>1, PlacesAre DEF EmitVolumeRecord, AtVolume, Waiting, Types
  <2>3. Sources[i] # Current
    BY <2>1, <2>2, PlacesAre
  <2> QED
    BY <1>1, <2>1, <2>3, PlusAt
<1>4. CASE Reallocate
  BY <1>1, <1>4 DEF Reallocate
<1>5. CASE Quiet
  BY <1>1, <1>5 DEF Quiet
<1> QED
  BY <1>2, <1>3, <1>4, <1>5, QuietSteps

LEMMA NothingWantedStep ==
  ASSUME Types, Counts, LangInRange, RowInOrder, NothingYet, NothingWanted, Next
  PROVE  NothingWanted'
<1> SUFFICES ASSUME stage' # "controls", NEW i \in VolumePlaces, requested'[Sources[i]] <= 0
             PROVE  delivered'[Sources[i]] = 0
  BY DEF NothingWanted
<1>1. Sources[i] \in Names /\ delivered \in [Names -> Nat] /\ requested \in [Names -> Int]
  BY PlacesAre DEF Counts
<1>2. CASE stage = "controls"
  <2>1. Reallocate
    BY <1>2 DEF Next, Reallocate, SkipSource, RefuseRecord, AcceptRecord, ControlEnds,
                CommitRow, DropRow, ControlFilled, DropVolumeRecord, EmitVolumeRecord,
                VolumeStreamEnds, LanguageFilled, Finish, AtVolume
  <2> QED
    BY <1>2, <2>1 DEF Reallocate, NothingYet, Waiting
<1>3. CASE stage # "controls"
  <2>1. CASE EmitVolumeRecord
    <3>1. PICK text \in Texts :
            /\ delivered' = Plus(delivered, Tokens[text])
            /\ Tokens[text] \in Nat
            /\ requested[Current] > 0
      BY <2>1, VolumeEmits
    <3>2. requested' = requested
      BY <2>1 DEF EmitVolumeRecord
    <3>3. Sources[i] # Current
      BY <1>1, <3>1, <3>2
    <3>4. delivered'[Sources[i]] = delivered[Sources[i]] + 0
      BY <1>1, <3>1, <3>3, PlusAt
    <3> QED
      BY <1>1, <1>3, <3>2, <3>4 DEF NothingWanted
  <2>2. CASE Quiet
    BY <1>3, <2>2 DEF Quiet, NothingWanted
  <2>3. ~CommitRow /\ ~Reallocate
    BY <1>3 DEF CommitRow, RowRead, AtControl, Reallocate
  <2> QED
    BY <2>1, <2>2, <2>3, QuietSteps
<1> QED
  BY <1>2, <1>3

LEMMA BudgetsHoldStep ==
  ASSUME Types, Counts, LangInRange, RowInOrder, RowIsWanted, NothingYet, BudgetsHold, Next
  PROVE  BudgetsHold'
<1> SUFFICES ASSUME NEW s \in Names, delivered'[s] > 0
             PROVE  delivered'[s] < requested'[s] + Piece(s)
  BY DEF BudgetsHold, Piece
<1>1. /\ delivered[s] \in Nat /\ requested[s] \in Int /\ Piece(s) \in Nat /\ Largest \in Nat
      /\ NLangs[s] \in Nat
      /\ delivered \in [Names -> Nat]
      /\ delivered[s] > 0 => delivered[s] < requested[s] + Piece(s)
  BY LargestIs, FetchAssumption DEF Counts, Piece, BudgetsHold
<1>2. CASE CommitRow
  <2>1. requested' = requested
    BY <1>2 DEF CommitRow
  <2>2. delivered'[s] = delivered[s] + (IF s = Current THEN SumFunction(RowTokens) ELSE 0)
    BY <1>1, <1>2, RowCommitted, PlusAt
  <2>3. CASE s = Current
    <3>1. lang > 1
      BY <1>2, CurrentType DEF CommitRow, RowRead, AtControl, Types
    <3>2. delivered[s] < requested[s]
      BY <1>2, <2>3, <3>1, RowCommitted DEF RowIsWanted
    <3>3. Piece(s) = NLangs[s] * Largest /\ SumFunction(RowTokens) <= NLangs[s] * Largest
          /\ SumFunction(RowTokens) \in Nat
      BY <1>2, <2>3, RowCommitted DEF Piece
    <3> QED
      BY <1>1, <2>1, <2>2, <2>3, <3>2, <3>3
  <2>4. CASE s # Current
    BY <1>1, <2>1, <2>2, <2>4
  <2> QED
    BY <2>3, <2>4
<1>3. CASE EmitVolumeRecord
  <2>1. requested' = requested
    BY <1>3 DEF EmitVolumeRecord
  <2>2. PICK text \in Texts :
          /\ delivered' = Plus(delivered, Tokens[text])
          /\ Tokens[text] \in Nat /\ Tokens[text] <= Largest
          /\ delivered[Current] < requested[Current]
    BY <1>3, VolumeEmits
  <2>3. delivered'[s] = delivered[s] + (IF s = Current THEN Tokens[text] ELSE 0)
    BY <1>1, <2>2, PlusAt
  <2>4. CASE s = Current
    <3>1. Piece(s) = Largest
      BY <1>3, <2>4 DEF EmitVolumeRecord, AtVolume, Piece
    <3> QED
      BY <1>1, <2>1, <2>2, <2>3, <2>4, <3>1
  <2>5. CASE s # Current
    BY <1>1, <2>1, <2>3, <2>5
  <2> QED
    BY <2>4, <2>5
<1>4. CASE Reallocate
  <2>1. delivered' = delivered /\ requested' = Reallocated
    BY <1>4 DEF Reallocate
  <2>2. CASE s \in Controls
    BY <1>1, <2>1, <2>2, ReallocatedIs
  <2>3. CASE s \notin Controls
    <3>1. PICK i \in 1 .. Len(Sources) : Sources[i] = s
      BY SourcesAre
    <3>2. delivered[s] = 0
      BY <1>4, <2>3, <3>1 DEF NothingYet, VolumePlaces, Reallocate, Waiting
    <3> QED
      BY <2>1, <3>2
  <2> QED
    BY <2>2, <2>3
<1>5. CASE Quiet
  BY <1>1, <1>5 DEF Quiet
<1> QED
  BY <1>2, <1>3, <1>4, <1>5, QuietSteps

-----------------------------------------------------------------------------
(* The tokens of a domain.                                                 *)

Done(i) == stage \in {"ok", "short"} \/ (stage = "volumes" /\ i < at)

ShortIsDry ==
  \A i \in VolumePlaces :
    Done(i) /\ Sources[i] \notin dry => delivered[Sources[i]] >= requested[Sources[i]]

LEMMA ShortIsDryStep ==
  ASSUME Types, Counts, LangInRange, ShortIsDry, Next
  PROVE  ShortIsDry'
<1> SUFFICES ASSUME NEW i \in VolumePlaces, Done(i)', Sources[i] \notin dry'
             PROVE  delivered'[Sources[i]] >= requested'[Sources[i]]
  BY DEF ShortIsDry
<1>1. /\ i \in 1 .. Len(Sources) /\ Sources[i] \in Names /\ Sources[i] \notin Controls
      /\ delivered \in [Names -> Nat] /\ requested \in [Names -> Int]
      /\ at \in 1 .. Len(Sources) + 1 /\ Len(Sources) \in Nat
  BY PlacesAre, SourcesAre DEF Counts, Types
<1>2. ~(CommitRow \/ RefuseRecord \/ AcceptRecord \/ ControlEnds \/ DropRow \/ ControlFilled)
  BY DEF CommitRow, RefuseRecord, AcceptRecord, ControlEnds, DropRow, ControlFilled, InRow,
         RowRead, AtControl, Done
<1>3. ~Reallocate
  BY <1>1 DEF Reallocate, Done
<1>4. CASE SkipSource
  <2>1. at' = at + 1 /\ stage' = stage /\ dry' = dry /\ stage = "volumes" /\ Current \in Controls
        /\ Quiet
    BY <1>4 DEF SkipSource, NextSource, reportVars, Done, Quiet
  <2>2. i # at
    BY <1>1, <2>1 DEF Current
  <2> QED
    BY <1>1, <2>1, <2>2 DEF ShortIsDry, Done, Quiet
<1>5. CASE DropVolumeRecord
  BY <1>5 DEF DropVolumeRecord, ShortIsDry, Done
<1>6. CASE EmitVolumeRecord
  <2>1. PICK text \in Texts :
          /\ delivered' = Plus(delivered, Tokens[text])
          /\ Tokens[text] \in Nat
          /\ at \in VolumePlaces /\ Current = Sources[at]
    BY <1>6, VolumeEmits
  <2>2. at' = at /\ stage' = stage /\ dry' = dry /\ stage = "volumes" /\ requested' = requested
    BY <1>6 DEF EmitVolumeRecord, AtVolume
  <2>3. i < at /\ Done(i)
    BY <1>1, <2>2 DEF Done
  <2>4. Sources[i] # Current
    BY <1>1, <2>1, <2>3, PlacesAre
  <2>5. delivered'[Sources[i]] = delivered[Sources[i]] + 0
    BY <1>1, <2>1, <2>4, PlusAt
  <2> QED
    BY <1>1, <2>2, <2>3, <2>5 DEF ShortIsDry
<1>7. CASE VolumeStreamEnds \/ LanguageFilled
  <2>1. AtVolume /\ LeaveLanguage /\ Quiet /\ stage = "volumes" /\ stage' = stage
    BY <1>7 DEF VolumeStreamEnds, LanguageFilled, Quiet, AtVolume
  <2>2. CASE i < at
    <3>1. Sources[i] \notin dry
      BY <2>1, VolumeMoves
    <3> QED
      BY <1>1, <2>1, <2>2, <3>1 DEF ShortIsDry, Done, Quiet
  <2>3. CASE i = at
    <3>1. at' = at + 1 /\ dry' = IF delivered[Current] < requested[Current]
                                 THEN dry \union {Current} ELSE dry
      BY <1>1, <2>1, <2>3, VolumeMoves DEF Done
    <3>2. Current = Sources[i]
      BY <2>3 DEF Current
    <3> QED
      BY <1>1, <2>1, <3>1, <3>2 DEF Quiet
  <2>4. ~(i > at)
    BY <1>1, <2>1, VolumeMoves DEF Done
  <2> QED
    BY <1>1, <2>2, <2>3, <2>4
<1>8. CASE Finish
  <2>1. Done(i) /\ dry' = dry /\ Quiet
    BY <1>1, <1>8 DEF Finish, Done, streamVars, reportVars, Quiet
  <2> QED
    BY <2>1 DEF ShortIsDry, Quiet
<1> QED
  BY <1>2, <1>3, <1>4, <1>5, <1>6, <1>7, <1>8 DEF Next

(* The part of a budget that a source has had, or that it may still get:   *)
(* what the reallocation leaves of it.                                     *)
Kept == [s \in Names |-> requested[s] - Shortfall(s)]

ControlsOf(d) == InDomain(d) \intersect Controls

BudgetsAddUp ==
  /\ stage = "controls" => requested = BaseTokens
  /\ stage # "controls" =>
       \A d \in Domains :
         Summation(requested, VolumesOf(d)) + Summation(Kept, ControlsOf(d)) = Target[d]

LEMMA BaseAddsUp ==
  ASSUME NEW d \in Domains
  PROVE  Summation(BaseTokens, InDomain(d)) = Target[d]
<1> DEFINE out == SharedOut(Target[d], InDomain(d))
<1>1. \A s \in InDomain(d) : BaseTokens[s] = out[s] /\ out[s] \in Int
  <2> TAKE s \in InDomain(d)
  <2>1. s \in Names /\ Domain[s] = d
    BY DEF InDomain
  <2> QED
    BY <2>1, DomainsAre, NothingLeaks DEF BaseTokens
<1>2. Summation(out, InDomain(d)) = Target[d]
  BY DomainsAre, NothingLeaks
<1> HIDE DEF out
<1>3. Summation(BaseTokens, InDomain(d)) = Summation(out, InDomain(d))
  BY <1>1, DomainsAre, SummationSame
<1> QED
  BY <1>2, <1>3

LEMMA DomainSplits ==
  ASSUME NEW d \in Domains, NEW w, \A s \in Names : w[s] \in Int
  PROVE  /\ Summation(w, InDomain(d)) = Summation(w, VolumesOf(d)) + Summation(w, ControlsOf(d))
         /\ Summation(w, VolumesOf(d)) \in Int /\ Summation(w, ControlsOf(d)) \in Int
<1>1. /\ ControlsOf(d) \in SUBSET InDomain(d) /\ VolumesOf(d) = InDomain(d) \ ControlsOf(d)
      /\ \A s \in InDomain(d) : w[s] \in Int
      /\ IsFiniteSet(InDomain(d))
  BY DomainsAre DEF ControlsOf, VolumesOf, InDomain
<1>2. /\ Summation(w, InDomain(d)) = Summation(w, ControlsOf(d)) + Summation(w, InDomain(d) \ ControlsOf(d))
      /\ Summation(w, ControlsOf(d)) \in Int /\ Summation(w, InDomain(d) \ ControlsOf(d)) \in Int
  BY <1>1, SummationUnion
<1> QED
  BY <1>1, <1>2

LEMMA KeptIs ==
  ASSUME Counts, NEW s \in Names
  PROVE  /\ Kept[s] \in Int /\ Kept[s] <= delivered[s] /\ Kept[s] <= requested[s]
         /\ requested[s] = Kept[s] + Shortfall(s) /\ Shortfall(s) \in Int
BY DEF Counts, Kept, Shortfall

LEMMA ReallocationAddsUp ==
  ASSUME Counts, BudgetsAddUp, Reallocate, NEW d \in Domains
  PROVE  Summation(requested', VolumesOf(d)) + Summation(Kept', ControlsOf(d)) = Target[d]
<1> DEFINE more == SharedOut(ControlShortfall(d), VolumesOf(d))
           missing == [s \in Controls |-> Shortfall(s)]
<1>1. requested' = Reallocated /\ delivered' = delivered /\ requested = BaseTokens
  BY DEF Reallocate, BudgetsAddUp
<1>2. /\ VolumesOf(d) \in SUBSET Names /\ IsFiniteSet(VolumesOf(d)) /\ VolumesOf(d) # {}
      /\ ControlsOf(d) \in SUBSET Names /\ IsFiniteSet(ControlsOf(d))
      /\ ControlsOf(d) \in SUBSET Controls
  BY DomainsAre, ShortfallType DEF ControlsOf
<1>3. \A s \in Names : requested[s] \in Int
  BY DEF Counts
<1>4. Summation(requested', VolumesOf(d)) = Summation(requested, VolumesOf(d)) + ControlShortfall(d)
  <2>1. ControlShortfall(d) \in Int
    BY ShortfallType
  <2>2. (\A s \in VolumesOf(d) : more[s] \in Int) /\ Summation(more, VolumesOf(d)) = ControlShortfall(d)
    BY <1>2, <2>1, NothingLeaks
  <2>3. \A s \in VolumesOf(d) : requested'[s] = requested[s] + more[s]
    BY <1>1, ReallocatedIs
  <2> HIDE DEF more
  <2>4. Summation(requested', VolumesOf(d)) = Summation(requested, VolumesOf(d)) + Summation(more, VolumesOf(d))
    <3>1. \A s \in VolumesOf(d) :
            requested[s] \in Int /\ more[s] \in Int /\ requested'[s] = requested[s] + more[s]
      BY <1>2, <1>3, <2>2, <2>3
    <3> QED
      BY <1>2, <3>1, SummationPlus
  <2> QED
    BY <2>2, <2>4
<1>5. Summation(requested, ControlsOf(d)) = Summation(Kept, ControlsOf(d)) + ControlShortfall(d)
  <2>1. \A s \in ControlsOf(d) :
          Kept[s] \in Int /\ missing[s] \in Int /\ requested[s] = Kept[s] + missing[s]
    BY <1>2, KeptIs
  <2>2. ControlShortfall(d) = Summation(missing, ControlsOf(d))
    BY ShortfallType DEF ControlsOf
  <2> HIDE DEF missing
  <2>3. Summation(requested, ControlsOf(d)) = Summation(Kept, ControlsOf(d)) + Summation(missing, ControlsOf(d))
    BY <1>2, <2>1, SummationPlus
  <2> QED
    BY <2>2, <2>3
<1>6. Summation(Kept', ControlsOf(d)) = Summation(Kept, ControlsOf(d))
  <2>1. \A s \in ControlsOf(d) : Kept[s] \in Int /\ Kept'[s] = Kept[s]
    BY <1>1, <1>2, KeptIs, ReallocatedIs DEF Kept, Shortfall
  <2> QED
    BY <1>2, <2>1, SummationSame
<1>7. Summation(requested, VolumesOf(d)) + Summation(requested, ControlsOf(d)) = Target[d]
  BY <1>1, <1>3, BaseAddsUp, DomainSplits
<1>8. /\ Summation(requested, VolumesOf(d)) \in Int /\ Summation(requested, ControlsOf(d)) \in Int
      /\ ControlShortfall(d) \in Int /\ Summation(Kept, ControlsOf(d)) \in Int
  <2>1. \A s \in Names : Kept[s] \in Int
    BY KeptIs
  <2> QED
    BY <1>3, <2>1, DomainSplits, ShortfallType
<1> QED
  BY <1>4, <1>5, <1>6, <1>7, <1>8

LEMMA BudgetsAddUpStep ==
  ASSUME Types, Counts, LangInRange, BudgetsAddUp, Next
  PROVE  BudgetsAddUp'
<1>1. CASE stage = "controls"
  <2>1. CASE Reallocate
    <3>1. stage' = "volumes"
      BY <2>1 DEF Reallocate
    <3> QED
      BY <2>1, <3>1, ReallocationAddsUp DEF BudgetsAddUp
  <2>2. CASE ~Reallocate
    <3>1. stage' = "controls" /\ requested' = requested
      BY <1>1, <2>2 DEF Next, SkipSource, RefuseRecord, AcceptRecord, ControlEnds, CommitRow,
                  DropRow, ControlFilled, DropVolumeRecord, EmitVolumeRecord,
                  VolumeStreamEnds, LanguageFilled, Finish, AtVolume, reportVars
    <3> QED
      BY <1>1, <3>1 DEF BudgetsAddUp
  <2> QED
    BY <2>1, <2>2
<1>2. CASE stage # "controls"
  <2>1. stage' # "controls" /\ requested' = requested
    BY <1>2 DEF Next, SkipSource, RefuseRecord, AcceptRecord, ControlEnds, CommitRow, DropRow,
                ControlFilled, DropVolumeRecord, EmitVolumeRecord, VolumeStreamEnds, Reallocate,
                LanguageFilled, Finish, AtVolume, InRow, RowRead, AtControl, reportVars
  <2>2. \A s \in Names \intersect Controls : delivered'[s] = delivered[s]
    <3>1. CASE EmitVolumeRecord
      <4>1. PICK text \in Texts :
              delivered' = Plus(delivered, Tokens[text]) /\ Tokens[text] \in Nat
        BY <3>1, VolumeEmits
      <4>2. Current \notin Controls /\ delivered \in [Names -> Nat]
        BY <3>1 DEF EmitVolumeRecord, AtVolume, Counts
      <4> QED
        BY <4>1, <4>2, PlusAt
    <3>2. ~CommitRow /\ ~Reallocate
      BY <1>2 DEF CommitRow, Reallocate, RowRead, AtControl
    <3> QED
      BY <3>1, <3>2, QuietSteps DEF Quiet
  <2>3. SUFFICES ASSUME NEW d \in Domains
                 PROVE  Summation(requested', VolumesOf(d)) + Summation(Kept', ControlsOf(d)) = Target[d]
    BY <2>1 DEF BudgetsAddUp
  <2>4. Summation(Kept', ControlsOf(d)) = Summation(Kept, ControlsOf(d))
    <3>1. IsFiniteSet(ControlsOf(d)) /\ ControlsOf(d) \in SUBSET (Names \intersect Controls)
      BY DomainsAre, ShortfallType DEF ControlsOf
    <3>2. \A s \in ControlsOf(d) : Kept[s] \in Int /\ Kept'[s] = Kept[s]
      BY <2>1, <2>2, <3>1, KeptIs DEF Kept, Shortfall
    <3> QED
      BY <3>1, <3>2, SummationSame
  <2> QED
    BY <1>2, <2>1, <2>4 DEF BudgetsAddUp
<1> QED
  BY <1>1, <1>2

LEMMA Filled ==
  ASSUME Types, Counts, ShortIsDry, BudgetsAddUp
  PROVE  FilledUnlessReported
<1> SUFFICES ASSUME stage \in {"ok", "short"}, dry \subseteq Controls, NEW d \in Domains
             PROVE  DomainTokens(d) >= Target[d]
  BY DEF FilledUnlessReported
<1>1. \A s \in Names : delivered[s] \in Int /\ requested[s] \in Int /\ Kept[s] \in Int
  BY KeptIs DEF Counts
<1>2. DomainTokens(d) = Summation(delivered, InDomain(d))
  <2>1. \A s \in InDomain(d) : delivered[s] \in Int
    BY <1>1, DomainsAre
  <2> QED
    BY <2>1, DomainsAre, SumFunctionOnSetIsSum DEF DomainTokens
<1>3. Summation(requested, VolumesOf(d)) <= Summation(delivered, VolumesOf(d))
  <2>1. \A s \in VolumesOf(d) : requested[s] <= delivered[s]
    <3> TAKE s \in VolumesOf(d)
    <3>1. s \in Names /\ s \notin Controls
      BY DEF VolumesOf, InDomain
    <3>2. PICK i \in VolumePlaces : Sources[i] = s
      BY <3>1, SourcesAre DEF VolumePlaces
    <3>3. delivered[s] >= requested[s]
      BY <3>1, <3>2 DEF ShortIsDry, Done
    <3> QED
      BY <1>1, <3>1, <3>3
  <2>2. \A s \in VolumesOf(d) : requested[s] \in Int /\ delivered[s] \in Int /\ requested[s] <= delivered[s]
    BY <1>1, <2>1, DomainsAre
  <2> QED
    BY <2>2, DomainsAre, SummationAtMost
<1>4. Summation(Kept, ControlsOf(d)) <= Summation(delivered, ControlsOf(d))
  <2>1. IsFiniteSet(ControlsOf(d)) /\ ControlsOf(d) \in SUBSET Names
    BY DomainsAre, ShortfallType DEF ControlsOf
  <2>2. \A s \in ControlsOf(d) : Kept[s] \in Int /\ delivered[s] \in Int /\ Kept[s] <= delivered[s]
    BY <1>1, <2>1, KeptIs
  <2> QED
    BY <2>1, <2>2, SummationAtMost
<1>5. Summation(requested, VolumesOf(d)) + Summation(Kept, ControlsOf(d)) = Target[d]
  BY DEF BudgetsAddUp
<1>6. /\ Summation(delivered, InDomain(d))
           = Summation(delivered, VolumesOf(d)) + Summation(delivered, ControlsOf(d))
      /\ Summation(delivered, VolumesOf(d)) \in Int /\ Summation(delivered, ControlsOf(d)) \in Int
  BY <1>1, DomainSplits
<1>7. Summation(requested, VolumesOf(d)) \in Int /\ Summation(Kept, ControlsOf(d)) \in Int
  BY <1>1, DomainSplits
<1> QED
  BY <1>2, <1>3, <1>4, <1>5, <1>6, <1>7

-----------------------------------------------------------------------------
(* The languages of a volume source.                                       *)

Size == [d \in Doc |-> Tokens[d.text]]

UpTo(s, l) == {d \in docs : d.source = s /\ d.lang <= l}

Got(s, l) == Summation(Size, UpTo(s, l))

(* The end of the part of a language, none of a budget below zero.         *)
Cap(s, l) == IF requested[s] > 0 THEN Cumulative(s, l) ELSE 0

Unended(s) == \A l \in 1 .. NLangs[s] : <<s, l>> \notin ended

Left(i, l) == Done(i) \/ (stage = "volumes" /\ i = at /\ l < lang)

Reached(i, l) == Left(i, l) \/ (stage = "volumes" /\ i = at /\ l = lang)

DeliveredIsGot == \A s \in Names \ Controls : delivered[s] = Got(s, NLangs[s])

NoneAhead == AtVolume => \A d \in docs : d.source = Current => d.lang <= lang

(* A language is left at the end of its part or up to a document past it.  *)
InParts ==
  \A i \in VolumePlaces : Unended(Sources[i]) =>
    \A l \in 1 .. NLangs[Sources[i]] :
      /\ Left(i, l) => Cap(Sources[i], l) <= Got(Sources[i], l)
      /\ Reached(i, l) => Got(Sources[i], l) < Cap(Sources[i], l) + Largest

LEMMA SizeIs ==
  ASSUME Types, Counts, NEW S \in SUBSET docs
  PROVE  IsFiniteSet(S) /\ (\A d \in S : Size[d] \in Nat) /\ Summation(Size, S) \in Nat
<1>1. IsFiniteSet(S)
  BY FS_Subset DEF Counts
<1>2. \A d \in S : Size[d] \in Nat
  <2> TAKE d \in S
  <2>1. d \in Doc
    BY DEF Types
  <2>2. d.text \in Texts
    BY <2>1 DEF Doc
  <2> QED
    BY <2>1, <2>2, LargestIs DEF Size
<1>3. Summation(Size, S) \in Nat
  BY <1>1, <1>2, SummationMonotone
<1> QED
  BY <1>1, <1>2, <1>3

LEMMA DocLang ==
  ASSUME Types, NEW d \in docs
  PROVE  d.lang \in Nat \ {0}
<1>1. d \in Doc
  BY DEF Types
<1>2. d.lang \in Langs
  BY <1>1 DEF Doc
<1>3. PICK s \in Names : d.lang \in 1 .. NLangs[s]
  BY <1>2 DEF Langs
<1> QED
  BY <1>3, FetchAssumption

LEMMA GotStep ==
  ASSUME Types, Counts, NEW s \in Names, NEW l \in Nat
  PROVE  /\ Got(s, l) \in Nat /\ Got(s, l + 1) \in Nat
         /\ LangTokens(s, l + 1) \in Nat
         /\ Got(s, l + 1) = Got(s, l) + LangTokens(s, l + 1)
         /\ Got(s, 0) = 0
<1> DEFINE mine == {d \in docs : d.source = s /\ d.lang = l + 1}
           f == [d \in mine |-> Tokens[d.text]]
<1>1. UpTo(s, l) \in SUBSET UpTo(s, l + 1) /\ UpTo(s, l + 1) \ UpTo(s, l) = mine
  BY DocLang DEF UpTo
<1>2. UpTo(s, l + 1) \in SUBSET docs /\ UpTo(s, l) \in SUBSET docs
  BY DEF UpTo
<1>3. UpTo(s, 0) = {}
  BY DocLang DEF UpTo
<1>4. mine \in SUBSET docs
  OBVIOUS
<1>5. LangTokens(s, l + 1) = Summation(Size, mine)
  <2>1. LangTokens(s, l + 1) = SumFunctionOnSet(f, mine)
    BY DEF LangTokens, SumFunction
  <2>2. \A d \in mine : f[d] = Size[d] /\ Size[d] \in Int /\ f[d] \in Int
    <3>1. \A d \in mine : f[d] = Size[d]
      BY DEF Size, Types
    <3> QED
      BY <1>4, <3>1, SizeIs
  <2>3. IsFiniteSet(mine)
    BY <1>4, SizeIs
  <2> HIDE DEF f, mine
  <2>4. SumFunctionOnSet(f, mine) = Summation(f, mine)
    BY <2>2, <2>3, SumFunctionOnSetIsSum
  <2>5. Summation(f, mine) = Summation(Size, mine)
    BY <2>2, <2>3, SummationSame
  <2> QED
    BY <2>1, <2>4, <2>5
<1> HIDE DEF mine
<1>6. Got(s, l + 1) = Got(s, l) + Summation(Size, mine)
  <2>1. IsFiniteSet(UpTo(s, l + 1)) /\ \A d \in UpTo(s, l + 1) : Size[d] \in Int
    BY <1>2, SizeIs
  <2>2. Summation(Size, UpTo(s, l + 1))
          = Summation(Size, UpTo(s, l)) + Summation(Size, UpTo(s, l + 1) \ UpTo(s, l))
    BY <1>1, <2>1, SummationUnion
  <2> QED
    BY <1>1, <2>2 DEF Got
<1>7. Got(s, l) \in Nat /\ Got(s, l + 1) \in Nat /\ Summation(Size, mine) \in Nat
  BY <1>2, <1>4, SizeIs DEF Got
<1>8. Got(s, 0) = 0
  BY <1>3, SummationEmpty DEF Got
<1> QED
  BY <1>5, <1>6, <1>7, <1>8

(* The parts of two languages differ by less than a token each.            *)
LEMMA PartsAre ==
  ASSUME NEW r \in Nat, NEW n \in Nat, n > 0, NEW l \in Nat
  PROVE  LET c == (r * l) \div n
             d == (r * (l + 1)) \div n
         IN  /\ c \in Nat /\ d \in Nat /\ c <= d
             /\ n * (d - c) < r + n /\ n * (d - c) > r - n
<1> DEFINE c == (r * l) \div n
           d == (r * (l + 1)) \div n
           p == r * l
<1>1. p \in Nat /\ r * (l + 1) = p + r
  OBVIOUS
<1>2. c \in Int /\ n * c <= p /\ p < n * c + n
  BY <1>1, Quotient
<1>3. d \in Int /\ n * d <= p + r /\ p + r < n * d + n
  <2>1. d = (p + r) \div n
    BY <1>1
  <2> HIDE DEF p, d
  <2>2. p + r \in Int
    BY <1>1
  <2> QED
    BY <2>1, <2>2, Quotient
<1> HIDE DEF p, c, d
<1>4. n * (d - c) = n * d - n * c
  BY <1>2, <1>3
<1>5. c >= 0
  <2>1. SUFFICES ASSUME c <= -1 PROVE FALSE
    BY <1>2
  <2>2. n * c <= n * (-1)
    BY <1>2, <2>1
  <2>3. n * (-1) = -n
    OBVIOUS
  <2> QED
    BY <1>1, <1>2, <2>2, <2>3
<1>6. c <= d
  <2>1. SUFFICES ASSUME d <= c - 1 PROVE FALSE
    BY <1>2, <1>3
  <2>2. n * d <= n * (c - 1)
    BY <1>2, <1>3, <2>1
  <2>3. n * (c - 1) = n * c - n
    BY <1>2
  <2>4. n * c \in Int /\ n * d \in Int
    BY <1>2, <1>3
  <2> QED
    BY <1>1, <1>2, <1>3, <2>2, <2>3, <2>4
<1>7. n * (d - c) < r + n /\ n * (d - c) > r - n
  <2>1. n * c \in Int /\ n * d \in Int
    BY <1>2, <1>3
  <2> QED
    BY <1>1, <1>2, <1>3, <1>4, <2>1
<1> QED
  BY <1>2, <1>3, <1>5, <1>6, <1>7 DEF c, d

LEMMA CapIs ==
  ASSUME Counts, NEW s \in Names, NEW l \in Nat
  PROVE  /\ Cap(s, l) \in Nat /\ Cap(s, l + 1) \in Nat /\ Cap(s, l) <= Cap(s, l + 1)
         /\ requested[s] > 0 =>
              /\ NLangs[s] * (Cap(s, l + 1) - Cap(s, l)) < requested[s] + NLangs[s]
              /\ NLangs[s] * (Cap(s, l + 1) - Cap(s, l)) > requested[s] - NLangs[s]
         /\ Cap(s, 0) = 0
<1>1. NLangs[s] \in Nat /\ NLangs[s] > 0 /\ requested[s] \in Int
  BY FetchAssumption DEF Counts
<1>2. CASE requested[s] > 0
  <2>1. requested[s] \in Nat
    BY <1>1, <1>2
  <2>2. requested[s] * 0 = 0 /\ 0 \div NLangs[s] = 0
    BY <1>1
  <2>3. Cap(s, 0) = 0
    BY <1>2, <2>2 DEF Cap, Cumulative
  <2> QED
    BY <1>1, <1>2, <2>1, <2>3, PartsAre DEF Cap, Cumulative
<1>3. CASE ~(requested[s] > 0)
  BY <1>3 DEF Cap
<1> QED
  BY <1>2, <1>3

(* A document counts where it belongs.                                     *)
LEMMA Emitted ==
  ASSUME Types, Counts, Types', Counts', LangInRange, IndexIsCorpus, EmitVolumeRecord,
         NEW s \in Names, NEW l \in Nat
  PROVE  /\ s = Current /\ lang <= l => Got(s, l)' = Got(s, l) + (delivered'[s] - delivered[s])
         /\ ~(s = Current /\ lang <= l) => Got(s, l)' = Got(s, l)
         /\ Got(s, l) \in Nat
<1>1. PICK text \in Texts :
        /\ text \notin index
        /\ docs' = docs \union {[source |-> Current, lang |-> lang, row |-> 0, text |-> text]}
        /\ delivered' = Plus(delivered, Tokens[text])
        /\ Tokens[text] \in Nat
  BY VolumeEmits
<1> DEFINE e == [source |-> Current, lang |-> lang, row |-> 0, text |-> text]
<1>2. e \notin docs
  <2>1. e.text = text
    OBVIOUS
  <2> QED
    BY <1>1, <2>1 DEF IndexIsCorpus
<1>3. e \in docs' /\ docs \in SUBSET docs' /\ e.source = Current /\ e.lang = lang /\ e.text = text
  BY <1>1
<1>4. Size[e] = Tokens[text]
  <2>1. e \in Doc
    BY <1>3 DEF Types
  <2> QED
    BY <1>3, <2>1 DEF Size
<1>5. delivered \in [Names -> Nat]
  BY DEF Counts
<1>6. Got(s, l) \in Nat
  BY SizeIs DEF Got, UpTo
<1> HIDE DEF e
<1>7. CASE s = Current /\ lang <= l
  <2>1. UpTo(s, l)' = UpTo(s, l) \union {e}
    BY <1>1, <1>3, <1>7 DEF UpTo, e
  <2>2. e \notin UpTo(s, l) /\ IsFiniteSet(UpTo(s, l))
    BY <1>2, SizeIs DEF UpTo
  <2>3. \A d \in UpTo(s, l) \union {e} : Size[d] \in Int
    <3>1. \A d \in UpTo(s, l) : Size[d] \in Nat
      BY SizeIs DEF UpTo
    <3> QED
      BY <1>1, <1>4, <3>1
  <2>4. Summation(Size, UpTo(s, l) \union {e}) = Summation(Size, UpTo(s, l)) + Size[e]
    BY <2>2, <2>3, SummationAdd
  <2>5. delivered'[s] - delivered[s] = Tokens[text]
    BY <1>1, <1>5, <1>7, PlusAt
  <2> QED
    BY <1>4, <1>6, <1>7, <2>1, <2>4, <2>5 DEF Got
<1>8. CASE ~(s = Current /\ lang <= l)
  <2>1. UpTo(s, l)' = UpTo(s, l)
    BY <1>1, <1>3, <1>8 DEF UpTo, e
  <2> QED
    BY <1>6, <1>8, <2>1 DEF Got
<1> QED
  BY <1>7, <1>8

LEMMA GotFrom ==
  ASSUME Types, Counts, NoneAhead, AtVolume, LangInRange, DeliveredIsGot
  PROVE  Got(Current, lang) = delivered[Current]
<1>1. Current \in Names /\ Current \notin Controls /\ NLangs[Current] \in Nat
  BY CurrentType DEF AtVolume
<1>2. lang \in Nat /\ lang <= NLangs[Current]
  BY DEF AtVolume, AtControl, LangInRange, Types
<1>3. UpTo(Current, lang) = UpTo(Current, NLangs[Current])
  BY <1>1, <1>2, DocLang DEF NoneAhead, UpTo
<1> QED
  BY <1>1, <1>3 DEF DeliveredIsGot, Got

LEMMA GotNothing ==
  ASSUME NEW i \in VolumePlaces, NothingYet, Waiting(i), NEW l
  PROVE  Got(Sources[i], l) = 0
<1>1. UpTo(Sources[i], l) = {}
  BY DEF NothingYet, UpTo
<1> QED
  BY <1>1, SummationEmpty DEF Got

LEMMA DeliveredIsGotStep ==
  ASSUME Types, Counts, Types', Counts', LangInRange, RowInOrder, IndexIsCorpus,
         DeliveredIsGot, Next
  PROVE  DeliveredIsGot'
<1> SUFFICES ASSUME NEW s \in Names \ Controls
             PROVE  delivered'[s] = Got(s, NLangs[s])'
  BY DEF DeliveredIsGot
<1>1. /\ delivered[s] = Got(s, NLangs[s]) /\ delivered \in [Names -> Nat] /\ NLangs[s] \in Nat
      /\ delivered'[s] \in Nat
  BY FetchAssumption DEF DeliveredIsGot, Counts
<1>2. CASE CommitRow
  <2>1. s # Current
    BY <1>2, RowCommitted
  <2>2. UpTo(s, NLangs[s])' = UpTo(s, NLangs[s])
    BY <1>2, <2>1, RowCommitted DEF UpTo
  <2> QED
    BY <1>1, <1>2, <2>1, <2>2, RowCommitted, PlusAt DEF Got
<1>3. CASE EmitVolumeRecord
  <2>1. CASE s = Current
    <3>1. lang <= NLangs[s]
      BY <1>3, <2>1, VolumeEmits
    <3> QED
      BY <1>1, <1>3, <2>1, <3>1, Emitted
  <2>2. CASE s # Current
    <3>1. delivered'[s] = delivered[s]
      <4>1. PICK text \in Texts :
              delivered' = Plus(delivered, Tokens[text]) /\ Tokens[text] \in Nat
        BY <1>3, VolumeEmits
      <4> QED
        BY <1>1, <2>2, <4>1, PlusAt
    <3> QED
      BY <1>1, <1>3, <2>2, <3>1, Emitted
  <2> QED
    BY <2>1, <2>2
<1>4. CASE docs' = docs /\ delivered' = delivered
  BY <1>1, <1>4 DEF Got, UpTo
<1>5. Reallocate \/ Quiet => docs' = docs /\ delivered' = delivered
  BY DEF Reallocate, Quiet
<1> QED
  BY <1>2, <1>3, <1>4, <1>5, QuietSteps

LEMMA NoneAheadStep ==
  ASSUME Types, Counts, Types', LangInRange, LangInRange', NothingYet, NothingYet', NoneAhead, Next
  PROVE  NoneAhead'
<1> SUFFICES ASSUME AtVolume', NEW d \in docs', d.source = Current'
             PROVE  d.lang <= lang'
  BY DEF NoneAhead
<1>1. CASE EmitVolumeRecord
  <2>1. PICK text \in Texts :
          docs' = docs \union {[source |-> Current, lang |-> lang, row |-> 0, text |-> text]}
    BY <1>1, VolumeEmits
  <2>2. at' = at /\ lang' = lang /\ AtVolume /\ Current' = Current
    BY <1>1 DEF EmitVolumeRecord, Current
  <2>3. CASE d \in docs
    BY <2>2, <2>3 DEF NoneAhead
  <2>4. CASE d \notin docs
    <3>1. d = [source |-> Current, lang |-> lang, row |-> 0, text |-> text]
      BY <2>1, <2>4
    <3>2. d.lang = lang /\ lang \in Nat
      BY <3>1 DEF Types
    <3> QED
      BY <2>2, <3>2
  <2> QED
    BY <2>3, <2>4
<1>2. CASE DropVolumeRecord
  BY <1>2 DEF DropVolumeRecord, NoneAhead, Current
<1>3. CASE VolumeStreamEnds \/ LanguageFilled
  <2>1. AtVolume /\ LeaveLanguage /\ docs' = docs /\ stage' = stage
    BY <1>3 DEF VolumeStreamEnds, LanguageFilled
  <2>2. CASE at' = at /\ lang' = lang + 1
    <3>1. d.lang <= lang /\ lang \in Nat /\ d.lang \in Nat
      BY <2>1, <2>2, DocLang DEF NoneAhead, Current, Types
    <3> QED
      BY <2>2, <3>1
  <2>3. CASE at' = at + 1
    <3>1. at' \in VolumePlaces /\ Current' = Sources[at'] /\ at' > at /\ stage = "volumes"
      BY <2>1, <2>3 DEF AtVolume, VolumePlaces, Current, Types
    <3>2. \A e \in docs : e.source # Sources[at']
      BY <3>1 DEF NothingYet, Waiting
    <3> QED
      BY <2>1, <3>1, <3>2
  <2> QED
    BY <2>1, <2>2, <2>3, VolumeMoves
<1>4. CASE SkipSource
  <2>1. at' = at + 1 /\ stage' = stage /\ docs' = docs
    BY <1>4 DEF SkipSource, NextSource
  <2>2. at' \in VolumePlaces /\ Current' = Sources[at'] /\ at' > at /\ stage = "volumes"
    BY <2>1 DEF AtVolume, VolumePlaces, Current, Types
  <2>3. \A e \in docs : e.source # Sources[at']
    BY <2>2 DEF NothingYet, Waiting
  <2> QED
    BY <2>1, <2>2, <2>3
<1>5. CASE Reallocate
  <2>1. at' \in VolumePlaces /\ Current' = Sources[at'] /\ docs' = docs /\ stage = "controls"
    BY <1>5 DEF AtVolume, VolumePlaces, Current, Types, Reallocate
  <2>2. \A e \in docs : e.source # Sources[at']
    BY <2>1 DEF NothingYet, Waiting
  <2> QED
    BY <2>1, <2>2
<1>6. ~(RefuseRecord \/ AcceptRecord \/ ControlEnds \/ CommitRow \/ DropRow \/ ControlFilled \/ Finish)
  BY DEF AtVolume, RefuseRecord, AcceptRecord, ControlEnds, CommitRow, DropRow, ControlFilled,
         Finish, InRow, RowRead, AtControl
<1> QED
  BY <1>1, <1>2, <1>3, <1>4, <1>5, <1>6 DEF Next

LEMMA InPartsMoves ==
  ASSUME Types, Counts, Types', LangInRange, LangInRange', NothingYet, NoneAhead, DeliveredIsGot,
         NothingWanted, InParts, SkipSource \/ VolumeStreamEnds \/ LanguageFilled,
         NEW i \in VolumePlaces, Unended(Sources[i])', NEW l \in 1 .. NLangs[Sources[i]]
  PROVE  /\ Left(i, l)' => Cap(Sources[i], l) <= Got(Sources[i], l)
         /\ Reached(i, l)' => Got(Sources[i], l) < Cap(Sources[i], l) + Largest
<1> DEFINE s == Sources[i]
<1>1. /\ i \in 1 .. Len(Sources) /\ s \in Names /\ s \notin Controls /\ NLangs[s] \in Nat \ {0}
      /\ at \in 1 .. Len(Sources) + 1 /\ Len(Sources) \in Nat /\ l \in Nat \ {0}
      /\ stage' = stage /\ Largest \in Nat \ {0} /\ at <= Len(Sources) /\ lang \in Nat \ {0}
  BY PlacesAre, SourcesAre, LargestIs
     DEF Types, SkipSource, VolumeStreamEnds, LanguageFilled, AtVolume
<1>2. Cap(s, l) \in Nat /\ Got(s, l) \in Nat
  BY <1>1, CapIs, SizeIs DEF Got, UpTo
<1>3. Unended(s)
  BY DEF Unended, SkipSource, VolumeStreamEnds, LanguageFilled, StreamEnds
<1>4. /\ Left(i, l) => Cap(s, l) <= Got(s, l)
      /\ Reached(i, l) => Got(s, l) < Cap(s, l) + Largest
  BY <1>3 DEF InParts
<1>5. SUFFICES ASSUME stage = "volumes"
               PROVE  /\ Left(i, l)' => Cap(s, l) <= Got(s, l)
                      /\ Reached(i, l)' => Got(s, l) < Cap(s, l) + Largest
  BY <1>1, <1>4 DEF Left, Reached, Done
<1>6. CASE i < at
  BY <1>4, <1>5, <1>6 DEF Left, Reached, Done
<1>7. CASE i > at
  <2>1. Got(s, l) = 0
    BY <1>5, <1>7, GotNothing DEF Waiting
  <2>2. ~Left(i, l)'
    <3>1. (at' = at) \/ (at' = at + 1 /\ lang' = 1)
      BY VolumeMoves DEF SkipSource, NextSource, VolumeStreamEnds, LanguageFilled
    <3> QED
      BY <1>1, <1>5, <1>7, <3>1 DEF Left, Done
  <2> QED
    BY <1>1, <1>2, <2>1, <2>2
<1>8. CASE i = at
  <2>1. s = Current /\ AtVolume /\ LeaveLanguage /\ (VolumeStreamEnds \/ LanguageFilled)
    BY <1>1, <1>5, <1>8 DEF Current, SkipSource, VolumeStreamEnds, LanguageFilled
  <2>2. lang \in 1 .. NLangs[s]
    BY <1>1, <2>1 DEF AtVolume, AtControl, LangInRange
  <2>3. CASE VolumeStreamEnds
    <3>1. <<s, lang>> \in ended'
      BY <2>1, <2>3 DEF VolumeStreamEnds, StreamEnds
    <3> QED
      BY <2>2, <3>1 DEF Unended
  <2>4. CASE LanguageFilled
    <3>1. Got(s, lang) = delivered[s] /\ delivered[s] \in Nat /\ requested[s] \in Int
      BY <1>1, <2>1, GotFrom DEF Counts
    <3>2. Cap(s, lang) <= Got(s, lang)
      <4>1. CASE requested[s] > 0
        <5>1. ~(delivered[s] < Cumulative(s, lang))
          BY <2>1, <2>4 DEF LanguageFilled, Wants
        <5>2. Cap(s, lang) = Cumulative(s, lang) /\ Cap(s, lang) \in Nat
          BY <1>1, <4>1, CapIs DEF Cap
        <5> QED
          BY <3>1, <5>1, <5>2
      <4>2. CASE ~(requested[s] > 0)
        BY <3>1, <4>2 DEF Cap
      <4> QED
        BY <4>1, <4>2
    <3>3. Got(s, lang) < Cap(s, lang) + Largest
      BY <1>3, <1>5, <1>8, <2>2 DEF InParts, Reached
    <3>4. Left(i, l)' => l <= lang
      BY <1>1, <1>5, <1>8, <2>1, VolumeMoves DEF Left, Done
    <3>5. l < lang => Left(i, l) /\ Reached(i, l)
      BY <1>5, <1>8 DEF Left, Reached
    <3>6. Reached(i, l)' => l <= lang \/ l = lang + 1
      BY <1>1, <1>5, <1>8, <2>1, VolumeMoves DEF Left, Reached, Done
    <3>7. CASE l = lang + 1
      <4>1. UpTo(s, l) = UpTo(s, lang)
        BY <1>1, <2>1, <3>7, DocLang DEF NoneAhead, UpTo
      <4>2. Got(s, l) = Got(s, lang)
        BY <4>1 DEF Got
      <4>3. Cap(s, lang) <= Cap(s, l) /\ Cap(s, lang) \in Nat
        BY <1>1, <3>7, CapIs
      <4> QED
        BY <1>1, <1>2, <3>3, <3>4, <3>7, <4>2, <4>3
    <3> QED
      BY <1>1, <1>4, <3>2, <3>3, <3>4, <3>5, <3>6, <3>7
  <2> QED
    BY <2>1, <2>3, <2>4
<1> QED
  BY <1>1, <1>6, <1>7, <1>8

LEMMA InPartsStep ==
  ASSUME Types, Counts, Types', Counts', LangInRange, LangInRange', NothingYet, NoneAhead,
         DeliveredIsGot, NothingWanted, IndexIsCorpus, InParts, Next
  PROVE  InParts'
<1> SUFFICES ASSUME NEW i \in VolumePlaces, Unended(Sources[i])', NEW l \in 1 .. NLangs[Sources[i]]
             PROVE  /\ Left(i, l)' => Cap(Sources[i], l)' <= Got(Sources[i], l)'
                    /\ Reached(i, l)' => Got(Sources[i], l)' < Cap(Sources[i], l)' + Largest
  BY DEF InParts
<1> DEFINE s == Sources[i]
<1>1. /\ i \in 1 .. Len(Sources) /\ s \in Names /\ s \notin Controls /\ NLangs[s] \in Nat \ {0}
      /\ at \in 1 .. Len(Sources) + 1 /\ Len(Sources) \in Nat /\ l \in Nat \ {0}
      /\ Largest \in Nat \ {0} /\ lang \in Nat \ {0}
  BY PlacesAre, SourcesAre, LargestIs DEF Types
<1>2. Cap(s, l) \in Nat /\ Got(s, l) \in Nat
  BY <1>1, CapIs, SizeIs DEF Got, UpTo
<1>3. ASSUME UNCHANGED <<docs, requested>>
      PROVE  Cap(s, l)' = Cap(s, l) /\ Got(s, l)' = Got(s, l)
  BY <1>3 DEF Cap, Cumulative, Got, UpTo
<1>4. ASSUME ended' = ended
      PROVE  /\ Left(i, l) => Cap(s, l) <= Got(s, l)
             /\ Reached(i, l) => Got(s, l) < Cap(s, l) + Largest
  BY <1>4 DEF InParts, Unended
<1>5. CASE RefuseRecord \/ AcceptRecord \/ ControlEnds \/ CommitRow \/ DropRow \/ ControlFilled
  <2>1. stage' = "controls"
    BY <1>5 DEF RefuseRecord, AcceptRecord, ControlEnds, CommitRow, DropRow, ControlFilled,
                InRow, RowRead, AtControl
  <2> QED
    BY <2>1 DEF Left, Reached, Done
<1>6. CASE SkipSource \/ VolumeStreamEnds \/ LanguageFilled
  <2>1. UNCHANGED <<docs, requested>>
    BY <1>6 DEF SkipSource, VolumeStreamEnds, LanguageFilled, reportVars
  <2> QED
    BY <1>3, <1>6, <2>1, InPartsMoves
<1>7. CASE DropVolumeRecord
  <2>1. UNCHANGED <<docs, requested, ended, at, lang, stage>>
    BY <1>7 DEF DropVolumeRecord
  <2> QED
    BY <1>3, <1>4, <2>1 DEF Left, Reached, Done
<1>8. CASE Finish
  <2>1. UNCHANGED <<docs, requested, ended>> /\ stage = "volumes" /\ i < at
    BY <1>1, <1>8 DEF Finish, streamVars, reportVars
  <2>2. Left(i, l) /\ Reached(i, l)
    BY <2>1 DEF Left, Reached, Done
  <2> QED
    BY <1>3, <1>4, <2>1, <2>2
<1>9. CASE Reallocate
  <2>1. /\ stage = "controls" /\ stage' = "volumes" /\ at' = 1 /\ lang' = lang /\ docs' = docs
        /\ at > Len(Sources)
    BY <1>9 DEF Reallocate
  <2>2. lang = 1
    BY <1>1, <2>1 DEF LangInRange
  <2>3. ~Left(i, l)'
    BY <1>1, <2>1, <2>2 DEF Left, Done
  <2>4. Got(s, l)' = 0
    <3>1. Got(s, l) = 0
      BY <2>1, GotNothing DEF Waiting
    <3> QED
      BY <2>1, <3>1 DEF Got, UpTo
  <2>5. Cap(s, l)' \in Nat
    <3>1. CASE requested'[s] > 0
      <4>1. requested'[s] \in Nat /\ NLangs[s] \in Nat /\ NLangs[s] > 0 /\ l \in Nat
        BY <1>1, <3>1 DEF Counts
      <4>2. (requested'[s] * l) \div NLangs[s] \in Nat
        BY <4>1, PartsAre
      <4> QED
        BY <3>1, <4>2 DEF Cap, Cumulative
    <3>2. CASE ~(requested'[s] > 0)
      BY <3>2 DEF Cap
    <3> QED
      BY <3>1, <3>2
  <2> QED
    BY <1>1, <2>3, <2>4, <2>5
<1>10. CASE EmitVolumeRecord
  <2>1. UNCHANGED <<requested, ended, at, lang, stage>> /\ stage = "volumes"
    BY <1>10 DEF EmitVolumeRecord, AtVolume
  <2>2. /\ Left(i, l)' <=> Left(i, l)
        /\ Reached(i, l)' <=> Reached(i, l)
        /\ Cap(s, l)' = Cap(s, l)
    BY <2>1 DEF Left, Reached, Done, Cap, Cumulative
  <2>3. PICK text \in Texts :
          /\ delivered' = Plus(delivered, Tokens[text])
          /\ Tokens[text] \in Nat /\ Tokens[text] <= Largest
          /\ at \in VolumePlaces /\ Current = Sources[at]
          /\ requested[Current] > 0
          /\ delivered[Current] < Cumulative(Current, lang)
    BY <1>10, VolumeEmits
  <2>4. CASE s = Current /\ lang <= l
    <3>1. i = at
      BY <2>3, <2>4, PlacesAre
    <3>2. ~Left(i, l)
      BY <1>1, <2>1, <2>4, <3>1 DEF Left, Done
    <3>3. CASE l = lang
      <4>1. Got(s, l) = delivered[s]
        BY <1>10, <2>4, <3>3, GotFrom DEF EmitVolumeRecord
      <4>2. delivered'[s] = delivered[s] + Tokens[text] /\ delivered[s] \in Nat
        BY <1>1, <2>3, <2>4, PlusAt DEF Counts
      <4>3. Got(s, l)' = Got(s, l) + (delivered'[s] - delivered[s])
        BY <1>1, <1>10, <2>4, Emitted
      <4>4. Cap(s, l) = Cumulative(s, l)
        BY <2>3, <2>4 DEF Cap
      <4> QED
        BY <1>1, <1>2, <2>2, <2>3, <2>4, <3>2, <3>3, <4>1, <4>2, <4>3, <4>4
    <3>4. CASE l # lang
      <4>1. ~Reached(i, l)
        BY <1>1, <2>1, <3>1, <3>2, <3>4 DEF Reached, Left, Done
      <4> QED
        BY <2>2, <3>2, <4>1
    <3> QED
      BY <3>3, <3>4
  <2>5. CASE ~(s = Current /\ lang <= l)
    <3>1. Got(s, l)' = Got(s, l)
      BY <1>1, <1>10, <2>5, Emitted
    <3> QED
      BY <1>4, <2>1, <2>2, <3>1
  <2> QED
    BY <2>4, <2>5
<1> QED
  BY <1>5, <1>6, <1>7, <1>8, <1>9, <1>10 DEF Next

LEMMA Even ==
  ASSUME Types, Counts, NothingWanted, DeliveredIsGot, InParts
  PROVE  LanguagesAreEven
<1> SUFFICES ASSUME stage \in {"ok", "short"}, NEW s \in Names \ Controls,
                    \A l \in 1 .. NLangs[s] : <<s, l>> \notin ended,
                    NEW k \in 1 .. NLangs[s]
             PROVE  LET off == NLangs[s] * LangTokens(s, k) - Max({requested[s], 0})
                    IN  off < NLangs[s] * Largest /\ -off < NLangs[s] * Largest
  BY DEF LanguagesAreEven
<1> DEFINE n == NLangs[s]
           r == requested[s]
           l == k - 1
<1>1. n \in Nat \ {0} /\ r \in Int /\ l \in Nat /\ l + 1 = k /\ Largest \in Nat \ {0}
  BY FetchAssumption, LargestIs DEF Counts
<1>2. PICK i \in VolumePlaces : Sources[i] = s
  BY SourcesAre DEF VolumePlaces
<1>3. \A j \in 1 .. n : Cap(s, j) <= Got(s, j) /\ Got(s, j) < Cap(s, j) + Largest
  BY <1>2 DEF InParts, Unended, Left, Reached, Done
<1>4. /\ Got(s, l) \in Nat /\ Got(s, k) \in Nat /\ LangTokens(s, k) \in Nat
      /\ Got(s, k) = Got(s, l) + LangTokens(s, k) /\ Got(s, 0) = 0
  BY <1>1, GotStep
<1>5. /\ Cap(s, l) \in Nat /\ Cap(s, k) \in Nat
      /\ r > 0 => /\ n * (Cap(s, k) - Cap(s, l)) < r + n
                  /\ n * (Cap(s, k) - Cap(s, l)) > r - n
      /\ Cap(s, 0) = 0
  BY <1>1, CapIs
<1>6. /\ Cap(s, k) <= Got(s, k) /\ Got(s, k) < Cap(s, k) + Largest
      /\ Cap(s, l) <= Got(s, l) /\ Got(s, l) < Cap(s, l) + Largest
  <2>1. l \in 1 .. n \/ l = 0
    BY <1>1
  <2> QED
    BY <1>1, <1>3, <1>4, <1>5, <2>1
<1>7. Max({r, 0}) = IF r > 0 THEN r ELSE 0
  BY <1>1 DEF Max
<1>8. CASE r > 0
  <2> DEFINE t == LangTokens(s, k)
             g == Cap(s, k) - Cap(s, l)
  <2>1. t \in Int /\ g \in Int /\ t <= g + (Largest - 1) /\ t >= g - (Largest - 1)
    BY <1>1, <1>4, <1>5, <1>6
  <2>2. n * g < r + n /\ n * g > r - n
    BY <1>5, <1>8
  <2> HIDE DEF t, g
  <2>3. n * t <= n * (g + (Largest - 1)) /\ n * t >= n * (g - (Largest - 1))
    BY <1>1, <2>1
  <2>4. n * (g + (Largest - 1)) = n * g + n * Largest - n
        /\ n * (g - (Largest - 1)) = n * g - n * Largest + n
    BY <1>1, <2>1
  <2>5. n * t \in Int /\ n * g \in Int /\ n * Largest \in Int
    BY <1>1, <2>1
  <2> QED
    BY <1>1, <1>7, <1>8, <2>2, <2>3, <2>4, <2>5 DEF t
<1>9. CASE ~(r > 0)
  <2>1. delivered[s] = 0
    BY <1>1, <1>2, <1>9 DEF NothingWanted
  <2>2. Got(s, n) = 0
    BY <2>1 DEF DeliveredIsGot
  <2>3. Got(s, k) = 0
    <3>1. UpTo(s, k) \in SUBSET UpTo(s, n) /\ UpTo(s, n) \in SUBSET docs
      BY <1>1, DocLang DEF UpTo
    <3>2. Got(s, k) <= Got(s, n)
      <4>1. IsFiniteSet(UpTo(s, n)) /\ \A d \in UpTo(s, n) : Size[d] \in Nat
        BY <3>1, SizeIs
      <4> QED
        BY <3>1, <4>1, SummationMonotone DEF Got
    <3> QED
      BY <1>4, <2>2, <3>2
  <2>4. LangTokens(s, k) = 0
    BY <1>4, <2>3
  <2>5. n * 0 = 0 /\ n * Largest > 0
    BY <1>1
  <2> QED
    BY <1>1, <1>7, <1>9, <2>4, <2>5
<1> QED
  BY <1>8, <1>9

(* What a report says of the tokens, on the way there.                     *)
BudgetInv ==
  /\ Counts
  /\ RowIsWanted
  /\ NothingYet
  /\ NothingWanted
  /\ BudgetsHold
  /\ ShortIsDry
  /\ BudgetsAddUp
  /\ DeliveredIsGot
  /\ NoneAhead
  /\ InParts

LEMMA InitBudgetInv == Init => BudgetInv
<1> SUFFICES ASSUME Init PROVE BudgetInv
  OBVIOUS
<1>1. Counts
  BY InitCounts
<1>2. docs = {} /\ stage = "controls" /\ \A s \in Names : delivered[s] = 0
  BY DEF Init
<1>3. RowIsWanted /\ NothingWanted /\ ShortIsDry /\ NoneAhead /\ BudgetsHold
  BY <1>2 DEF Init, RowIsWanted, NothingWanted, ShortIsDry, Done, NoneAhead, AtVolume, BudgetsHold
<1>4. NothingYet
  BY <1>2, PlacesAre DEF NothingYet
<1>5. BudgetsAddUp
  BY DEF Init, BudgetsAddUp
<1>6. DeliveredIsGot
  <2> SUFFICES ASSUME NEW s \in Names \ Controls
               PROVE  delivered[s] = Got(s, NLangs[s])
    BY DEF DeliveredIsGot
  <2>1. UpTo(s, NLangs[s]) = {}
    BY <1>2 DEF UpTo
  <2> QED
    BY <1>2, <2>1, SummationEmpty DEF Got
<1>7. InParts
  BY <1>2 DEF InParts, Left, Reached, Done
<1> QED
  BY <1>1, <1>3, <1>4, <1>5, <1>6, <1>7 DEF BudgetInv

LEMMA BudgetInvStep ==
  ASSUME IInv, IInv', BudgetInv, [Next]_vars
  PROVE  BudgetInv'
<1> USE DEF IInv, BudgetInv
<1>1. CASE Next
  <2>1. Counts'
    BY <1>1, CountsStep
  <2>2. RowIsWanted' /\ NothingYet' /\ NothingWanted'
    BY <1>1, RowIsWantedStep, NothingYetStep, NothingWantedStep
  <2>3. BudgetsHold' /\ ShortIsDry' /\ BudgetsAddUp'
    BY <1>1, BudgetsHoldStep, ShortIsDryStep, BudgetsAddUpStep
  <2>4. DeliveredIsGot' /\ NoneAhead' /\ InParts'
    BY <1>1, <2>1, <2>2, DeliveredIsGotStep, NoneAheadStep, InPartsStep
  <2> QED
    BY <2>1, <2>2, <2>3, <2>4
<1>2. CASE UNCHANGED vars
  <2> USE <1>2 DEF vars
  <2>1. Counts' /\ RowIsWanted' /\ NothingYet'
    BY DEF Counts, RowIsWanted, NothingYet, Waiting, AtControl, Current
  <2>2. NothingWanted' /\ BudgetsHold' /\ ShortIsDry'
    BY DEF NothingWanted, BudgetsHold, ShortIsDry, Done
  <2>3. BudgetsAddUp'
    BY DEF BudgetsAddUp, Kept, Shortfall
  <2>4. DeliveredIsGot' /\ NoneAhead'
    BY DEF DeliveredIsGot, Got, UpTo, NoneAhead, AtVolume, Current
  <2>5. InParts'
    BY DEF InParts, Got, UpTo, Cap, Cumulative, Unended, Left, Reached, Done
  <2> QED
    BY <2>1, <2>2, <2>3, <2>4, <2>5
<1> QED
  BY <1>1, <1>2

-----------------------------------------------------------------------------
(* The theorems.                                                           *)

LEMMA InitIInv == Init => IInv
<1> SUFFICES ASSUME Init PROVE IInv
  OBVIOUS
<1>1. Types
  BY FetchAssumption DEF Init, Types
<1>2. LangInRange
  <2>1. 1 <= Len(Sources) => Sources[1] \in Names /\ NLangs[Sources[1]] >= 1
    BY FetchAssumption
  <2> QED
    BY <2>1, FetchAssumption DEF Init, LangInRange, Current
<1>3. InStep
  <2> SUFFICES ASSUME AtControl, NEW l \in 1 .. NLangs[Current]
               PROVE  taken[l] = taken[1]
    BY DEF InStep, Init
  <2>1. 1 .. NLangs[Current] \subseteq Langs /\ NLangs[Current] \in Nat \ {0}
    BY <1>1, CurrentType DEF AtControl
  <2> QED
    BY <2>1 DEF Init
<1>4. RowInOrder /\ RowIsFresh
  BY DEF Init, RowInOrder, RowIsFresh
<1>5. RowsAligned /\ IndexIsCorpus /\ RepeatsOnlyInRow /\ RecordsAccounted
  BY DEF Init, RowsAligned, IndexIsCorpus, RepeatsOnlyInRow, RecordsAccounted
<1> QED
  BY <1>1, <1>2, <1>3, <1>4, <1>5 DEF IInv

(* IInv is an invariant: what a row being read looks like, and what it     *)
(* keeps true of the corpus and the counts (fetch_corpus, whole).          *)
THEOREM Invariance == Spec => []IInv
<1>1. IInv /\ [Next]_vars => IInv'
  <2> SUFFICES ASSUME IInv, [Next]_vars PROVE IInv'
    OBVIOUS
  <2>1. CASE Next
    <3>1. Types'
      BY <2>1, TypesStep DEF IInv
    <3>2. LangInRange' /\ InStep'
      BY <2>1, <3>1, StepInStep DEF IInv
    <3>3. RowInOrder' /\ RowIsFresh'
      BY <2>1, <3>1, StepRow DEF IInv
    <3> QED
      BY <2>1, <3>1, <3>2, <3>3, CorpusStep, CountStep DEF IInv
  <2>2. CASE UNCHANGED vars
    BY <2>2 DEF vars, IInv, Types, LangInRange, InStep, RowInOrder, RowIsFresh, RowsAligned,
                IndexIsCorpus, RepeatsOnlyInRow, RecordsAccounted, AtControl, Current
  <2> QED
    BY <2>1, <2>2
<1> QED
  BY <1>1, InitIInv, PTL DEF Spec

(* Every row of a parallel control in the corpus is there in all of its    *)
(* languages (fetch_corpus: alignment is guaranteed, by row).              *)
THEOREM AlignmentIsGuaranteed == Spec => []RowsAligned
<1>1. IInv => RowsAligned
  BY DEF IInv
<1> QED
  BY <1>1, Invariance, PTL

(* The filter never holds a text that was not emitted                      *)
(* (NearDuplicateFilter.check).                                            *)
THEOREM FilterHoldsTheCorpus == Spec => []IndexIsCorpus
<1>1. IInv => IndexIsCorpus
  BY DEF IInv
<1> QED
  BY <1>1, Invariance, PTL

(* A text comes twice only within one row of a parallel control            *)
(* (NearDuplicateFilter, shared by all sources).                           *)
THEOREM TextsAreUnique == Spec => []RepeatsOnlyInRow
<1>1. IInv => RepeatsOnlyInRow
  BY DEF IInv
<1> QED
  BY <1>1, Invariance, PTL

(* Read records are emitted, dropped or in the row being read              *)
(* (SourceReport, rule 5).                                                 *)
THEOREM EveryRecordIsCounted == Spec => []RecordsAccounted
<1>1. IInv => RecordsAccounted
  BY DEF IInv
<1> QED
  BY <1>1, Invariance, PTL

(* BudgetInv is an invariant: the budgets of a domain add up to its target *)
(* through the reallocation, and a language of a volume source is left at  *)
(* the end of its part (fetch_corpus, both loops and what is between).     *)
THEOREM BudgetInvariance == Spec => []BudgetInv
<1>1. IInv /\ IInv' /\ BudgetInv /\ [Next]_vars => BudgetInv'
  BY BudgetInvStep
<1> QED
  BY <1>1, InitBudgetInv, Invariance, PTL DEF Spec

(* Type correctness: the sources and languages the loops are at, the       *)
(* reports, and a row shorter than the languages read (fetch_corpus).      *)
THEOREM Typed == Spec => []TypeOK
<1>1. IInv /\ BudgetInv => TypeOK
  <2> SUFFICES ASSUME IInv, BudgetInv PROVE TypeOK
    OBVIOUS
  <2>1. Types /\ LangInRange /\ RowInOrder /\ Counts
    BY DEF IInv, BudgetInv
  <2>2. lang \in 1 .. IF at <= Len(Sources) THEN NLangs[Current] + 1 ELSE 1
    <3>1. CASE at <= Len(Sources)
      <4>1. NLangs[Current] \in Nat /\ lang \in Nat \ {0}
        BY <2>1, <3>1, CurrentType DEF Types
      <4>2. lang <= NLangs[Current] + 1
        BY <2>1, <3>1, <4>1 DEF LangInRange
      <4> QED
        BY <3>1, <4>1, <4>2
    <3>2. CASE ~(at <= Len(Sources))
      BY <2>1, <3>2 DEF LangInRange
    <3> QED
      BY <3>1, <3>2
  <2> QED
    BY <2>1, <2>2 DEF TypeOK, Types, Counts, RowInOrder
<1> QED
  BY <1>1, Invariance, BudgetInvariance, PTL

(* No source exceeds its budget by a document, no control by a row         *)
(* (fetch_corpus, the conditions of its three while loops).                *)
THEOREM NoSourceOverspends == Spec => []BudgetsHold
<1>1. BudgetInv => BudgetsHold
  BY DEF BudgetInv
<1> QED
  BY <1>1, BudgetInvariance, PTL

(* What the controls of a domain leave reaches its volume sources whole,   *)
(* so a domain is short only if one of them is reported dry (rule 4).      *)
THEOREM NoTokenIsLost == Spec => []FilledUnlessReported
<1>1. IInv /\ BudgetInv => FilledUnlessReported
  BY Filled DEF IInv, BudgetInv
<1> QED
  BY <1>1, Invariance, BudgetInvariance, PTL

(* The languages of a volume source get equal parts up to a document, when *)
(* none of its streams ended (cumulative, fetch_corpus).                   *)
THEOREM LanguagesGetEqualParts == Spec => []LanguagesAreEven
<1>1. IInv /\ BudgetInv => LanguagesAreEven
  BY Even DEF IInv, BudgetInv
<1> QED
  BY <1>1, Invariance, BudgetInvariance, PTL
=============================================================================
