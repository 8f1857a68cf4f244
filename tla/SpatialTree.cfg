CONSTANTS
  NumKeys = 4
  Boxes <- SomeBoxes
  Regions <- SomeRegions
  Points <- SomePoints
  Detours <- SomeDetours
  FatMargin = 1
  RelativeMargin = 0
SPECIFICATION Spec
INVARIANTS TreeSound LeavesStayTight QueriesExact NearestExact
