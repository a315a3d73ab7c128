SPECIFICATION Spec
CONSTANTS
  NShards = 2
  Streams = {logits}
  Manifest = manifest
  Configs = {c1}
  Legs = {baseline, override}
  Metas = {m1}
  Absent = Absent
  Damaged = Damaged
  None = None
  Backends = {"batch"}
  MaxFaults = 0
INVARIANTS OneLegPerLedger
