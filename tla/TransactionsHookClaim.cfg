CONSTANTS
  v1 = v1
  v2 = v2
  bad = bad
  t1 = t1
  s1 = s1
  s2 = s2
  Missing = Missing
  NoSnapshot = NoSnapshot
  NoDraft = NoDraft
  Values = {v1, bad}
  BadValues = {bad}
  TagValues = {t1}
  Settings = {s1}
  NHooks = 1
  HookFaults = {"exception", "base"}
  MaxId = 2
  MaxDepth = 1
  MaxRevision = 2
  SnapshotAt = {}
  Floors = {2, 3}
SPECIFICATION Spec
PROPERTIES HooksCannotRollBack
CHECK_DEADLOCK FALSE
