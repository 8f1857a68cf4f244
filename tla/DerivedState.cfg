CONSTANTS
  va = va
  vb = vb
  ea = ea
  fa = fa
  p1 = p1
  p2 = p2
  Missing = Missing
  Vertices = {va, vb}
  Edges = {ea}
  Faces = {fa}
  Ends <- MCEnds
  Boundary <- MCBoundary
  QuadFaces = {}
  Positions = {p1, p2}
  MaxRevision = 3
SPECIFICATION Spec
SYMMETRY Interchangeable
INVARIANTS QueriesExact LengthsFresh TrimsFresh
PROPERTIES ChangedRegionReported
CHECK_DEADLOCK FALSE
