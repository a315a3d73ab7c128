SPECIFICATION Spec
CONSTANTS
  Files <- SomeFiles
  Subsample = 3
  Unset = Unset
  MaxRows = 4
  MaxShard = 2
INVARIANTS TypeOK PlannedIffUsable PlansTileCorpus
CHECK_DEADLOCK FALSE
