-------------------------- MODULE MCTurnCoordinator --------------------------
(* An instance of TurnCoordinator for TLC: two provider callbacks. *)
EXTENDS TurnCoordinator

CONSTANTS c1, c2
=============================================================================
