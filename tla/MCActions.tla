----------------------------- MODULE MCActions -----------------------------
(* Two actions, two calls at once, one chat beside the card. *)
EXTENDS Actions, TLC

Symmetric == Permutations(Acts) \cup Permutations(Calls) \cup Permutations(Chats)
=============================================================================
