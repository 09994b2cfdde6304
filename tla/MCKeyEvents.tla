---------------------------- MODULE MCKeyEvents ----------------------------
(***************************************************************************)
(* KeyEvents for TLC.                                                      *)
(* Named values here are model values of the configuration.                *)
(***************************************************************************)
EXTENDS KeyEvents
CONSTANTS k1, a1, a2
=============================================================================
