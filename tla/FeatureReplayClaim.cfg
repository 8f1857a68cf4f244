CONSTANTS
  p1 = p1
  p2 = p2
  m1 = m1
  Positions = {p1, p2}
  Moves = {m1}
  NoParameter = NoParameter
  MaxFeatures = 3
  MaxEdits = 5
  MaxId = 6
SPECIFICATION Spec
SYMMETRY Interchangeable
INVARIANT OutputsAreIntended
CHECK_DEADLOCK FALSE
