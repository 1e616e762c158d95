---------------------------- MODULE MCTurnOrder ----------------------------
(* Three turns and two requests of any kind; they and a stop may overlap. *)
EXTENDS TurnOrder, TLC
Perms == Permutations(Reqs)
=============================================================================
