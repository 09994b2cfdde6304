---------------------------- MODULE MCHandshake ----------------------------
(***************************************************************************)
(* Handshake for TLC.  A server without game mode changes is enough for    *)
(* the question whether a second connection is served.                     *)
(***************************************************************************)
EXTENDS Handshake
CONSTANTS c1, c2, s1

SteadyServerSpec == Init /\ [][Next /\ ~Reset]_vars /\ Fairness
=============================================================================
