---------------------------- MODULE MCSnapshots ----------------------------
(* Two parts, two requests at once, a few rows in the list. *)
EXTENDS Snapshots, TLC

Symmetric == Permutations(Parts) \cup Permutations(Workers)
=============================================================================
