CONSTANTS
  v1 = v1
  v2 = v2
  bad = bad
  t1 = t1
  s1 = s1
  s2 = s2
  Missing = Missing
  NoSnapshot = NoSnapshot
  NoDraft = NoDraft
  Values = {v1, v2, bad}
  BadValues = {bad}
  TagValues = {t1}
  Settings = {s1, s2}
  NHooks = 2
  HookFaults = {"exception"}
  MaxId = 2
  MaxDepth = 2
  MaxRevision = 3
  SnapshotAt = {}
  Floors = {2, 3}
SPECIFICATION Spec
SYMMETRY Interchangeable
INVARIANTS TypeOK PublishedValid ReplicasFollow
PROPERTIES DocumentSpec FailedEditNeverCommits ChangeSetClassifies
CHECK_DEADLOCK FALSE
