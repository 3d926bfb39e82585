----------------------------- MODULE MCReplica -----------------------------
(* A chain of two replicas below the primary. *)
EXTENDS Replica, TLC

ChainUpstream == (2 :> 1) @@ (3 :> 2)
PairUpstream == (2 :> 1)
=============================================================================
