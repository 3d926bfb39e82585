--------------------------- MODULE MCTransactions ---------------------------
(***************************************************************************)
(* Transactions for model checking.  Sessions and names are only compared  *)
(* for equality, so renaming them is a symmetry.                           *)
(***************************************************************************)
EXTENDS Transactions, TLC

Symmetry == Permutations(Session) \cup Permutations(Key)
=============================================================================
