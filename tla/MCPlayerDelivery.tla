--------------------------- MODULE MCPlayerDelivery ---------------------------
(***************************************************************************)
(* An instance of PlayerDelivery for TLC: two players, one of whom may     *)
(* hold two sockets and be refused a third, a healthy turn of the one and  *)
(* a turn of the other whose result can never be composed.                 *)
(***************************************************************************)
EXTENDS PlayerDelivery

TurnOwner == [t \in Turns |-> IF t = "t2" THEN "bob" ELSE "ada"]
=============================================================================
