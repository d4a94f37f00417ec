----------------------------- MODULE MCTurnFlow -----------------------------
(* TLC instances of TurnFlow: the configurations choose what the clients   *)
(* do and the bounds.                                                      *)
EXTENDS TurnFlow
=============================================================================
