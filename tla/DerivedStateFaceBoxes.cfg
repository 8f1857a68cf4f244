CONSTANTS
  va = va
  vb = vb
  ea = ea
  fa = fa
  p1 = p1
  p2 = p2
  p3 = p3
  Missing = Missing
  Vertices = {va, vb}
  Edges = {ea}
  Faces = {fa}
  Ends <- MCEnds
  Boundary <- MCBoundary
  QuadFaces = {fa}
  Positions = {p1, p2, p3}
  MaxRevision = 1
SPECIFICATION Spec
SYMMETRY Interchangeable
PROPERTIES FaceBoxesReported
CHECK_DEADLOCK FALSE
