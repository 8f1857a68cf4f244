--------------------------- MODULE MCSpatialTree ---------------------------
(* Two neighbours, a far point and a box over all: padding merges the      *)
(* neighbours, and shrinking from the large box must leave its padding.    *)
EXTENDS SpatialTree
Box(lo, hi) == [lo |-> lo, hi |-> hi]
SomeBoxes == {Box(0, 0), Box(2, 2), Box(9, 9), Box(0, 9)}
SomeRegions == {Box(-1, -1), Box(0, 1), Box(3, 8), Box(10, 10)}
SomePoints == {1, 6}
SomeDetours == {0, 1}
=============================================================================
