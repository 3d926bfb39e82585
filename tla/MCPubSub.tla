----------------------------- MODULE MCPubSub -----------------------------
(***************************************************************************)
(* PubSub for model checking.  The messages of s1 are short, so that its     *)
(* ring holds two of them and wraps; those of s2 never fit, so that it is    *)
(* thrown out by the first it should get.                                    *)
(***************************************************************************)
EXTENDS PubSub

CONSTANTS s1, s2, c1, p1, p2

Globs == (p1 :> {c1}) @@ (p2 :> {})
Framing == (s1 :> 0) @@ (s2 :> Capacity)
Outputs == (s1 :> 4) @@ (s2 :> 1)
=============================================================================
