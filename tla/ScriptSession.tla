--------------------------- MODULE ScriptSession ---------------------------
(***************************************************************************)
(* What OpenMP-Plus promises a Pawn script about one player slot: between  *)
(* two resets of the slot (a connection, a disconnection or a game mode    *)
(* change) OnPlayerOMPPlusReady is called at most once, and no other       *)
(* public of the component is called before it.                            *)
(***************************************************************************)
CONSTANT Slots
VARIABLE heard  \* per slot, the last public called since the last reset

Init == heard = [s \in Slots |-> "none"]

Announce(s) ==
  /\ heard[s] = "none"
  /\ heard' = [heard EXCEPT ![s] = "ready"]

Notify(s) ==
  /\ heard[s] # "none"
  /\ heard' = [heard EXCEPT ![s] = "event"]

Forget(S) == heard' = [s \in Slots |-> IF s \in S THEN "none" ELSE heard[s]]

Next ==
  \/ \E s \in Slots : Announce(s) \/ Notify(s)
  \/ \E S \in SUBSET Slots : Forget(S)

Spec == Init /\ [][Next]_heard
=============================================================================
