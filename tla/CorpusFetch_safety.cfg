SPECIFICATION Spec
CONSTANTS
  Sources <- FourSources
  Controls = {"flores"}
  Domain <- SomeDomain
  Weight <- SomeWeight
  NLangs <- SomeLangs
  Share <- SomeShare
  Target <- SomeTarget
  Texts <- AllTexts
  Tokens <- SomeTokens
  Unfit = Unfit
  MaxRecords = 3
  Short = {s1, s2, s3}
  Long = {t1, t2, t3}
SYMMETRY Alike
INVARIANTS TypeOK RowsAligned IndexIsCorpus RepeatsOnlyInRow RecordsAccounted BudgetsHold FilledUnlessReported LanguagesAreEven
CHECK_DEADLOCK FALSE
