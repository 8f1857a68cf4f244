--------------------------- MODULE MCTransactions ---------------------------
(* Instance of Transactions for TLC. *)
EXTENDS Transactions, TLC

(* The specification only compares accepted payloads with one another, and *)
(* settings with one another.                                              *)
Interchangeable == Permutations(Values \ BadValues) \cup Permutations(Settings)

=============================================================================
