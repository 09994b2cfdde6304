---------------------------- MODULE MCKeyLeases ----------------------------
(***************************************************************************)
(* KeyLeases for TLC: a clock of four values stands for the 32-bit one.     *)
(* Named values here are model values of the configurations.               *)
(***************************************************************************)
EXTENDS KeyLeases
CONSTANTS k1, a1, a2
=============================================================================
