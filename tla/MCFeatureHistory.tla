-------------------------- MODULE MCFeatureHistory --------------------------
EXTENDS FeatureHistory, TLC
CONSTANTS p1, p2, m1
Interchangeable == Permutations(Positions)
=============================================================================
