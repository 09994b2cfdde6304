--------------------------- MODULE MCBuildSession ---------------------------
(***************************************************************************)
(* BuildSession for TLC: two session ids, so that one is reused or replaced *)
(* while messages of the other are under way, and more parts than a session *)
(* may list.                                                                *)
(***************************************************************************)
EXTENDS BuildSession
CONSTANTS s1, s2, p1, p2
=============================================================================
