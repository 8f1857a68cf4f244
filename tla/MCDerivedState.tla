--------------------------- MODULE MCDerivedState ---------------------------
(***************************************************************************)
(* Instance of DerivedState for TLC: one edge with its two end points and  *)
(* one face on it.  Moving either point disturbs the bounds of the edge    *)
(* and of the face without writing their records, which is all that        *)
(* matters here; more edges per loop disturb nothing else.                 *)
(***************************************************************************)
EXTENDS DerivedState, TLC

CONSTANTS va, vb, ea, fa

MCEnds == ea :> {va, vb}
MCBoundary == fa :> {ea}

(* The specification only compares positions with one another. *)
Interchangeable == Permutations(Positions)

=============================================================================
