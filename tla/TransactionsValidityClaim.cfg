CONSTANTS
  v1 = v1
  v2 = v2
  bad = bad
  t1 = t1
  s1 = s1
  s2 = s2
  Missing = Missing
  NoSnapshot = NoSnapshot
  NoDraft = NoDraft
  Values = {v1, bad}
  BadValues = {bad}
  TagValues = {}
  Settings = {s1}
  NHooks = 1
  HookFaults = {"exception"}
  MaxId = 2
  MaxDepth = 1
  MaxRevision = 3
  SnapshotAt = {}
  Floors = {}
SPECIFICATION Spec
INVARIANTS CommitsAreValid
CHECK_DEADLOCK FALSE
