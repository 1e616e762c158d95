---------------------------- MODULE MCStudioJob ----------------------------
(* Two batches for one slot; liveness is checked, so no symmetry. *)
EXTENDS StudioJob, TLC
=============================================================================
