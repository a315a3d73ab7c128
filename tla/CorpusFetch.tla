----------------------------- MODULE CorpusFetch -----------------------------
(***************************************************************************)
(* fetch_corpus (src/corpus/fetch.py): fills the token budgets of the      *)
(* sources of a specification, one record of one stream at a time.         *)
(*                                                                         *)
(* Parallel controls come first, row by row over their languages; what     *)
(* they cannot deliver goes to the volume sources of their domain, which   *)
(* are read next, language by language.  A record that a filter refuses,   *)
(* or that repeats a text of the corpus, is dropped and counted.           *)
(*                                                                         *)
(* A text stands for a class of near duplicates, as normalised and         *)
(* truncated; Unfit for every record that a filter before the              *)
(* deduplication refuses.  The streams are arbitrary: any record may be    *)
(* next, and any stream may end.                                           *)
(***************************************************************************)
EXTENDS Integers, SequencesExt

CONSTANTS
  Sources,       (* spec.sources, in the order of the specification.       *)
  Controls,      (* Those of role parallel_control.                        *)
  Domain,        (* The domain of each source.                             *)
  Weight,        (* The weight of each within its domain.                  *)
  NLangs,        (* How many languages each has; 1 if it names none.       *)
  Share,         (* spec.shares: percent of the corpus, by domain.         *)
  Target,        (* domain_token_targets.                                  *)
  Texts,         (* The texts that pass the filters.                       *)
  Tokens,        (* Reference tokens of each.                              *)
  Unfit,         (* A record that does not.                                *)
  MaxRecords     (* Bounds the model: the length of a stream.              *)

Names == ToSet(Sources)

Domains == {Domain[s] : s \in Names}

Langs == UNION {1 .. NLangs[s] : s \in Names}

ASSUME FetchAssumption ==
  /\ Sources \in Seq(Names) /\ IsInjective(Sources)
  /\ Controls \subseteq Names
  /\ NLangs \in [Names -> Nat \ {0}]
  /\ Tokens \in [Texts -> Nat \ {0}]
  /\ \E t \in Texts : \A u \in Texts : Tokens[u] <= Tokens[t]
  /\ Unfit \notin Texts
  /\ MaxRecords \in Nat

(* What the specification itself refuses is not in question here.          *)
ASSUME SpecAssumption ==
  /\ Weight \in [Names -> Nat \ {0}]
  /\ Share \in [Domains -> 1 .. 100] /\ SumFunction(Share) = 100
  /\ Target \in [Domains -> Nat]
  /\ \A d \in Domains : \E s \in Names \ Controls : Domain[s] = d

VARIABLES
  at,          (* The source the loop over spec.sources is at.             *)
  lang,        (* Its language that is read next.                          *)
  taken,       (* Records each of its streams has yielded.                 *)
  ended,       (* The streams, as <<source, language>>, found to be empty. *)
  row,         (* Documents of the row of a parallel control so far.       *)
  docs,        (* The documents emitted.                                   *)
  index,       (* NearDuplicateFilter: the texts it holds.                 *)
  requested,   (* Per source: requested_tokens,                            *)
  delivered,   (*   delivered_tokens,                                      *)
  emitted,     (*   delivered_docs,                                        *)
  read,        (*   n_records_read,                                        *)
  dropped,     (*   n_dropped,                                             *)
  dry,         (*   ran_dry.                                               *)
  stage        (* "controls", then "volumes", and then result.ok.          *)

reportVars == <<requested, delivered, emitted, read, dropped, dry>>

streamVars == <<at, lang, taken, ended>>

vars == <<at, lang, taken, ended, row, docs, index, requested, delivered, emitted,
          read, dropped, dry, stage>>

(* row: the row of a parallel control, 0 elsewhere.                        *)
Doc == [source : Names, lang : Langs, row : Nat, text : Texts]

-----------------------------------------------------------------------------
(* Budgets.                                                                *)

(* int(round(n / d)): halves go to the even neighbour.                     *)
Rounded(n, d) ==
  LET down == n \div d
      rest == n % d
  IN  IF 2 * rest < d \/ (2 * rest = d /\ down % 2 = 0) THEN down ELSE down + 1

LastOf(S) == Sources[Max({i \in DOMAIN Sources : Sources[i] \in S})]

(* A total over sources by weight: the last takes what the others leave.   *)
SharedOut(total, all) ==
  LET share == [s \in all |-> Rounded(total * Weight[s], SumFunctionOnSet(Weight, all))]
  IN  [s \in all |->
         IF s = LastOf(all)
         THEN total - SumFunctionOnSet(share, all \ {s})
         ELSE share[s]]

InDomain(d) == {s \in Names : Domain[s] = d}

VolumesOf(d) == InDomain(d) \ Controls

BaseTokens == [s \in Names |-> SharedOut(Target[Domain[s]], InDomain(Domain[s]))[s]]

Shortfall(s) == IF requested[s] > delivered[s] THEN requested[s] - delivered[s] ELSE 0

ControlShortfall(d) ==
  SumFunctionOnSet([s \in Controls |-> Shortfall(s)], InDomain(d) \intersect Controls)

Init ==
  /\ at = 1
  /\ lang = 1
  /\ taken = [l \in Langs |-> 0]
  /\ ended = {}
  /\ row = <<>>
  /\ docs = {}
  /\ index = {}
  /\ requested = BaseTokens
  /\ delivered = [s \in Names |-> 0]
  /\ emitted = [s \in Names |-> 0]
  /\ read = [s \in Names |-> 0]
  /\ dropped = [s \in Names |-> 0]
  /\ dry = {}
  /\ stage = "controls"

-----------------------------------------------------------------------------
Current == Sources[at]

Plus(counts, n) == [counts EXCEPT ![Current] = @ + n]

Records == Texts \union {Unfit}

(* clean(): what the pipeline lets through (NearDuplicateFilter.check).    *)
Passes(record) == record \in Texts /\ record \notin index

NextSource ==
  /\ at' = at + 1
  /\ lang' = 1
  /\ taken' = [l \in Langs |-> 0]

(* The next record of the current stream.                                  *)
Yield ==
  /\ taken[lang] < MaxRecords
  /\ taken' = [taken EXCEPT ![lang] = @ + 1]
  /\ read' = Plus(read, 1)

StreamEnds == ended' = ended \union {<<Current, lang>>}

-----------------------------------------------------------------------------
(* Parallel controls.  The budget is looked at between two rows.           *)
AtControl ==
  /\ stage = "controls"
  /\ at <= Len(Sources)
  /\ Current \in Controls

InRow ==
  /\ AtControl
  /\ lang > 1 \/ delivered[Current] < requested[Current]

RowRecord(text) ==
  [source |-> Current, lang |-> lang, row |-> taken[lang] + 1, text |-> text]

\* MUTANT: a language that is refused ends the row, the others stay behind.
RefuseRecordEndsRow ==
  /\ InRow
  /\ lang <= NLangs[Current]
  /\ Yield
  /\ dropped' = Plus(dropped, 1 + Len(row))
  /\ row' = <<>>
  /\ lang' = 1
  /\ UNCHANGED <<at, ended, docs, index, requested, delivered, emitted, dry, stage>>

(* The other languages of the row are read all the same.                   *)
RefuseRecord ==
  /\ InRow
  /\ lang <= NLangs[Current]
  /\ Yield
  /\ \E record \in Records : ~Passes(record)
  /\ dropped' = Plus(dropped, 1)
  /\ lang' = lang + 1
  /\ UNCHANGED <<at, ended, row, docs, index, requested, delivered, emitted,
                 dry, stage>>

\* MUTANT: the text enters the index before the row is whole.
AcceptAndIndex ==
  /\ InRow
  /\ lang <= NLangs[Current]
  /\ Yield
  /\ \E text \in Texts :
       /\ Passes(text)
       /\ row' = Append(row, RowRecord(text))
       /\ index' = index \union {text}
  /\ lang' = lang + 1
  /\ UNCHANGED <<at, ended, docs, requested, delivered, emitted, dropped,
                 dry, stage>>

AcceptRecord ==
  /\ InRow
  /\ lang <= NLangs[Current]
  /\ Yield
  /\ \E text \in Texts : Passes(text) /\ row' = Append(row, RowRecord(text))
  /\ lang' = lang + 1
  /\ UNCHANGED <<at, ended, docs, index, requested, delivered, emitted,
                 dropped, dry, stage>>

\* MUTANT: the start of a row that a stream leaves unfinished is not counted.
ControlEndsUncounted ==
  /\ InRow
  /\ lang <= NLangs[Current]
  /\ StreamEnds
  /\ dry' = dry \union {Current}
  /\ row' = <<>>
  /\ NextSource
  /\ UNCHANGED <<docs, index, requested, delivered, emitted, read, dropped, stage>>

\* MUTANT: the start of the row is left for the next source.
ControlEndsKeepsRow ==
  /\ InRow
  /\ lang <= NLangs[Current]
  /\ StreamEnds
  /\ dropped' = Plus(dropped, Len(row))
  /\ dry' = dry \union {Current}
  /\ NextSource
  /\ UNCHANGED <<row, docs, index, requested, delivered, emitted, read, stage>>

(* One stream has ended: what there is of the row goes, and the control    *)
(* is short of its budget.                                                 *)
ControlEnds ==
  /\ InRow
  /\ lang <= NLangs[Current]
  /\ StreamEnds
  /\ dropped' = Plus(dropped, Len(row))
  /\ dry' = dry \union {Current}
  /\ row' = <<>>
  /\ NextSource
  /\ UNCHANGED <<docs, index, requested, delivered, emitted, read, stage>>

RowRead == AtControl /\ lang > NLangs[Current]

\* MUTANT: the texts of a row never enter the index.
CommitRowUnindexed ==
  /\ RowRead
  /\ Len(row) = NLangs[Current]
  /\ docs' = docs \union ToSet(row)
  /\ delivered' = Plus(delivered, SumFunction([i \in DOMAIN row |-> Tokens[row[i].text]]))
  /\ emitted' = Plus(emitted, Len(row))
  /\ row' = <<>>
  /\ lang' = 1
  /\ UNCHANGED <<at, taken, ended, index, requested, read, dropped, dry, stage>>

CommitRow ==
  /\ RowRead
  /\ Len(row) = NLangs[Current]
  /\ docs' = docs \union ToSet(row)
  /\ index' = index \union {row[i].text : i \in DOMAIN row}
  /\ delivered' = Plus(delivered, SumFunction([i \in DOMAIN row |-> Tokens[row[i].text]]))
  /\ emitted' = Plus(emitted, Len(row))
  /\ row' = <<>>
  /\ lang' = 1
  /\ UNCHANGED <<at, taken, ended, requested, read, dropped, dry, stage>>

DropRow ==
  /\ RowRead
  /\ Len(row) # NLangs[Current]
  /\ dropped' = Plus(dropped, Len(row))
  /\ row' = <<>>
  /\ lang' = 1
  /\ UNCHANGED <<at, taken, ended, docs, index, requested, delivered, emitted,
                 read, dry, stage>>

ControlFilled ==
  /\ AtControl
  /\ lang = 1
  /\ delivered[Current] >= requested[Current]
  /\ NextSource
  /\ UNCHANGED <<ended, row, docs, index, reportVars, stage>>

-----------------------------------------------------------------------------
\* MUTANT: the remainder is noted and not handed on.
Unreallocated == requested

Reallocated ==
  [s \in Names |->
     IF s \in Controls
     THEN requested[s]
     ELSE requested[s] + SharedOut(ControlShortfall(Domain[s]), VolumesOf(Domain[s]))[s]]

Reallocate ==
  /\ stage = "controls"
  /\ at > Len(Sources)
  /\ requested' = Reallocated
  /\ at' = 1
  /\ stage' = "volumes"
  /\ UNCHANGED <<lang, taken, ended, row, docs, index, delivered, emitted, read,
                 dropped, dry>>

-----------------------------------------------------------------------------
(* Volume sources.                                                         *)

\* MUTANT: an equal part for every language, counted from zero each time.
OwnPart(s, l) == requested[s] \div NLangs[s]

(* Cumulative, so that a language that ends leaves its rest to the next.   *)
Cumulative(s, l) == (requested[s] * l) \div NLangs[s]

\* MUTANT: one document more after the budget is met.
WantsOneMore == delivered[Current] <= Cumulative(Current, lang)

Wants == delivered[Current] < Cumulative(Current, lang)

AtVolume ==
  /\ stage = "volumes"
  /\ at <= Len(Sources)
  /\ Current \notin Controls

DropVolumeRecord ==
  /\ AtVolume
  /\ Wants
  /\ Yield
  /\ \E record \in Records : ~Passes(record)
  /\ dropped' = Plus(dropped, 1)
  /\ UNCHANGED <<at, lang, ended, row, docs, index, requested, delivered,
                 emitted, dry, stage>>

EmitVolumeRecord ==
  /\ AtVolume
  /\ Wants
  /\ Yield
  /\ \E text \in Texts :
       /\ Passes(text)
       /\ docs' = docs \union {[source |-> Current, lang |-> lang, row |-> 0, text |-> text]}
       /\ index' = index \union {text}
       /\ delivered' = Plus(delivered, Tokens[text])
  /\ emitted' = Plus(emitted, 1)
  /\ UNCHANGED <<at, lang, ended, row, requested, dropped, dry, stage>>

(* The next language, or the report of the source and the next source.     *)
LeaveLanguage ==
  IF lang < NLangs[Current]
  THEN /\ lang' = lang + 1
       /\ UNCHANGED <<at, taken, dry>>
  ELSE /\ NextSource
       /\ dry' = IF delivered[Current] < requested[Current]
                 THEN dry \union {Current} ELSE dry

VolumeStreamEnds ==
  /\ AtVolume
  /\ Wants
  /\ StreamEnds
  /\ LeaveLanguage
  /\ UNCHANGED <<row, docs, index, requested, delivered, emitted, read, dropped, stage>>

LanguageFilled ==
  /\ AtVolume
  /\ ~Wants
  /\ LeaveLanguage
  /\ UNCHANGED <<ended, row, docs, index, requested, delivered, emitted, read,
                 dropped, stage>>

-----------------------------------------------------------------------------
DomainTokens(d) == SumFunctionOnSet(delivered, InDomain(d))

(* The realized share is more than two points off.                         *)
Drifted(d) ==
  LET total == SumFunction(delivered)
      off   == 100 * DomainTokens(d) - Share[d] * total
  IN  total = 0 \/ off > 2 * total \/ -off > 2 * total

Problem == dry \ Controls # {} \/ \E d \in Domains : Drifted(d)

(* result.ok, on which the writing of the corpus depends.                  *)
Finish ==
  /\ stage = "volumes"
  /\ at > Len(Sources)
  /\ stage' = IF Problem THEN "short" ELSE "ok"
  /\ UNCHANGED <<streamVars, row, docs, index, reportVars>>

(* Each of the two loops over spec.sources passes over the other role.     *)
SkipSource ==
  /\ at <= Len(Sources)
  /\ (stage = "controls" /\ Current \notin Controls)
       \/ (stage = "volumes" /\ Current \in Controls)
  /\ NextSource
  /\ UNCHANGED <<ended, row, docs, index, reportVars, stage>>

Next ==
  \/ SkipSource
  \/ RefuseRecord
  \/ AcceptRecord
  \/ ControlEnds
  \/ CommitRow
  \/ DropRow
  \/ ControlFilled
  \/ Reallocate
  \/ DropVolumeRecord
  \/ EmitVolumeRecord
  \/ VolumeStreamEnds
  \/ LanguageFilled
  \/ Finish

Spec == Init /\ [][Next]_vars

-----------------------------------------------------------------------------
(* Properties                                                              *)

TypeOK ==
  /\ at \in 1 .. Len(Sources) + 1
  /\ lang \in 1 .. IF at <= Len(Sources) THEN NLangs[Current] + 1 ELSE 1
  /\ taken \in [Langs -> Nat]
  /\ ended \in SUBSET (Names \X Langs)
  /\ row \in Seq(Doc) /\ Len(row) < lang
  /\ docs \in SUBSET Doc
  /\ index \in SUBSET Texts
  /\ requested \in [Names -> Int]
  /\ delivered \in [Names -> Nat]
  /\ emitted \in [Names -> Nat]
  /\ read \in [Names -> Nat]
  /\ dropped \in [Names -> Nat]
  /\ dry \in SUBSET Names
  /\ stage \in {"controls", "volumes", "ok", "short"}

(* The corpus has a row of a parallel control in all of its languages or   *)
(* in none, whichever records were refused, repeated or missing            *)
(* (fetch_corpus: alignment is guaranteed, by row).                        *)
RowsAligned ==
  \A d \in docs : d.source \in Controls =>
    \A l \in 1 .. NLangs[d.source] :
      \E e \in docs : e.source = d.source /\ e.row = d.row /\ e.lang = l

(* The filter holds the texts of the corpus and no other: nothing is       *)
(* dropped as the repetition of a text that was never emitted              *)
(* (NearDuplicateFilter.check).                                            *)
IndexIsCorpus == index = {d.text : d \in docs}

(* Two documents share a text only within one row of a parallel control,   *)
(* across sources and domains too (NearDuplicateFilter).                   *)
RepeatsOnlyInRow ==
  \A d, e \in docs : d.text = e.text =>
    d = e \/ (d.source = e.source /\ d.row = e.row /\ d.source \in Controls)

(* Every record read is a document of the corpus, counted as dropped, or   *)
(* in the row being read (rule 5: every dropped document is countable).    *)
RecordsAccounted ==
  \A s \in Names :
    read[s] = emitted[s] + dropped[s]
                + (IF row # <<>> /\ s = row[1].source THEN Len(row) ELSE 0)

Largest == CHOOSE n \in {Tokens[t] : t \in Texts} : \A t \in Texts : Tokens[t] <= n

(* A source never exceeds its budget by a document - by a row, if it is a  *)
(* parallel control - once the reallocation has fixed it.                  *)
BudgetsHold ==
  \A s \in Names :
    LET piece == IF s \in Controls THEN NLangs[s] * Largest ELSE Largest
    IN  delivered[s] > 0 => delivered[s] < requested[s] + piece

(* A domain gets its tokens unless a volume source of the corpus is        *)
(* reported dry: what the controls leave is not lost on the way (rule 4).  *)
FilledUnlessReported ==
  stage \in {"ok", "short"} /\ dry \subseteq Controls =>
    \A d \in Domains : DomainTokens(d) >= Target[d]

(* The languages of a volume source get equal parts up to a document,      *)
(* unless the stream of one of them ended (fetch_corpus: per-language      *)
(* budgets are equal).  A last source that rounding left a budget below    *)
(* zero is not read at all.                                                *)
LangTokens(s, l) ==
  LET mine == {d \in docs : d.source = s /\ d.lang = l}
  IN  SumFunction([d \in mine |-> Tokens[d.text]])

LanguagesAreEven ==
  stage \in {"ok", "short"} =>
    \A s \in Names \ Controls :
      (\A l \in 1 .. NLangs[s] : <<s, l>> \notin ended) =>
        \A l \in 1 .. NLangs[s] :
          LET off == NLangs[s] * LangTokens(s, l) - Max({requested[s], 0})
          IN  /\ off < NLangs[s] * Largest
              /\ -off < NLangs[s] * Largest
=============================================================================
