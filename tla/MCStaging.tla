----------------------------- MODULE MCStaging -----------------------------
(* Small instances of Staging. Texts, turns, proposals, batches and requests *)
(* are interchangeable.                                                      *)
EXTENDS Staging, TLC

Symmetry == Permutations(Bodies) \cup Permutations(Turns) \cup Permutations(Props)
            \cup Permutations(Batches) \cup Permutations(Requests)
=============================================================================
