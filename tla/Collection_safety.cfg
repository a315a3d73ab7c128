SPECIFICATION FairSpec
CONSTANTS
  NShards = 2
  Streams = {logits, topk}
  Manifest = manifest
  Configs = {c1, c2}
  Legs = {l1}
  Metas = {m1, m2}
  Absent = Absent
  Damaged = Damaged
  None = None
  Backends = {"batch", "per_file"}
  MaxFaults = 3
INVARIANTS TypeOK RecordedIsDurable OneConfigPerLedger ManifestLast CompleteTraceOpens
PROPERTIES NeverDropOnlyCopy RecordsKept VerifiedRowsAreTrue ImplementsPromise AllRecorded
