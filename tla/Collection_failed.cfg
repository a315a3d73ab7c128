SPECIFICATION Spec
CONSTANTS
  NShards = 1
  Streams = {logits}
  Manifest = manifest
  Configs = {c1}
  Legs = {l1}
  Metas = {m1}
  Absent = Absent
  Damaged = Damaged
  None = None
  Backends = {"batch"}
  MaxFaults = 1
INVARIANTS FailedIsUnrecorded
