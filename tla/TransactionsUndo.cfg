CONSTANTS
  v1 = v1
  v2 = v2
  bad = bad
  t1 = t1
  s1 = s1
  s2 = s2
  Missing = Missing
  NoSnapshot = NoSnapshot
  NoDraft = NoDraft
  Values = {v1}
  BadValues = {}
  TagValues = {t1}
  Settings = {s1}
  NHooks = 1
  HookFaults = {}
  MaxId = 2
  MaxDepth = 1
  MaxRevision = 3
  SnapshotAt = {1}
  Floors = {3}
SPECIFICATION Spec
INVARIANTS CommittedIdsNeverReused LineageAcyclic ReplicasFollow Consistent
PROPERTIES ChangeSetsChain
CHECK_DEADLOCK FALSE
