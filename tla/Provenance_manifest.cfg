SPECIFICATION Spec
CONSTANTS
  Commits = {c1, c2}
  Patches = {p1}
  None = None
  Foreign = Foreign
  MaxEdits = 1
  MaxJobs = 3
  MaxVersions = 2
  MaxStops = 1
SYMMETRY CommitSymmetry
CHECK_DEADLOCK FALSE
INVARIANTS ManifestNamesTheBytes
