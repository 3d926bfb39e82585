---------------------------- MODULE MCPolledLoop ----------------------------
(* PolledLoop for model checking: the bounds of each ring. *)
EXTENDS PolledLoop

ThreeCommands == <<3>>
ThreeClients == <<3>>
TwoThenOne == <<2, 1>>
OneThenTwo == <<1, 2>>
=============================================================================
