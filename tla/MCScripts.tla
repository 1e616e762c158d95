----------------------------- MODULE MCScripts -----------------------------
(* Two calls, of one chat or of two; liveness is checked, so no symmetry. *)
EXTENDS Scripts, TLC
=============================================================================
