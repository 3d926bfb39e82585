----------------------------- MODULE MCKeyspace -----------------------------
(***************************************************************************)
(* Keyspace and KeyspaceSnapshot for model checking.  Names and values are *)
(* only compared for equality, so renaming them is a symmetry; slot        *)
(* numbers and times are ordered and are not permuted.                     *)
(***************************************************************************)
EXTENDS KeyspaceSnapshot, TLC

Symmetry == Permutations(Key) \cup Permutations(Value)
=============================================================================
