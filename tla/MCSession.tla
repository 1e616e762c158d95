----------------------------- MODULE MCSession -----------------------------
(* Turns, one at a time or overlapping, and what they ask. *)
EXTENDS Session, TLC
=============================================================================
