----------------------------- MODULE ScriptMenu -----------------------------
(***************************************************************************)
(* What OpenMP-Plus promises a Pawn script about the target menu of one    *)
(* player: OnPlayerOMPPlusTargetSelect answers a menu that the script has  *)
(* begun, while it lives, with one of its selectable rows, and ends it; so *)
(* that a menu is answered at most once however often it is sent again.    *)
(***************************************************************************)
EXTENDS Naturals
CONSTANTS Targets, Options, NoMenu
VARIABLES menu,    \* what the script offers: target, selectable rows, in time or not
          answers  \* answers since the script last began a menu

Init == menu = NoMenu /\ answers = 0

Begin(t) ==
  /\ menu' = [target |-> t, options |-> {}, live |-> TRUE]
  /\ answers' = 0

\* A row more, or the time of the menu starts again.
Extend ==
  /\ menu # NoMenu
  /\ \E more \in SUBSET Options, live \in {menu.live, TRUE} :
       menu' = [target |-> menu.target, options |-> menu.options \cup more, live |-> live]
  /\ UNCHANGED answers

Expire ==
  /\ menu # NoMenu
  /\ menu' = [menu EXCEPT !.live = FALSE]
  /\ UNCHANGED answers

Withdraw == menu' = NoMenu /\ UNCHANGED answers

\* Another connection: what its scripts have not begun is not answered.
Renew == menu' = NoMenu /\ answers' = 0

Answer ==
  /\ menu # NoMenu /\ menu.live /\ menu.options # {}
  /\ menu' = NoMenu
  /\ answers' = answers + 1

Next == (\E t \in Targets : Begin(t)) \/ Extend \/ Expire \/ Withdraw \/ Renew \/ Answer

Spec == Init /\ [][Next]_<<menu, answers>>
=============================================================================
