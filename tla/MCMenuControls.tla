---------------------------- MODULE MCMenuControls ----------------------------
(* MenuControls for TLC. *)
EXTENDS MenuControls
=============================================================================
