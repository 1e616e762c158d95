----------------------------- MODULE MCChatSync -----------------------------
(* Small instances of ChatSync. Bodies are interchangeable, so they are a  *)
(* symmetry set of the runs without liveness.                              *)
EXTENDS ChatSync, TLC

BodySymmetry == Permutations(Bodies)
=============================================================================
