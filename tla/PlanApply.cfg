CONSTANTS
  v1 = v1
  bad = bad
  s1 = s1
  s2 = s2
  Missing = Missing
  NoSnapshot = NoSnapshot
  NoDraft = NoDraft
  NoPlan = NoPlan
  NoApplication = NoApplication
  Values = {v1}
  BadValues = {}
  TagValues = {}
  Settings = {s1, s2}
  NHooks = 1
  HookFaults = {"exception", "base"}
  MaxId = 2
  MaxDepth = 2
  MaxRevision = 2
  SnapshotAt = {}
  Floors = {}
  Batches <- SmallBatches
SPECIFICATION OneStart
INVARIANTS Consistent RevisionNamesContent
PROPERTIES EditingResumes PreviewIsPublished RefusalsLeaveNoTrace
CHECK_DEADLOCK FALSE
