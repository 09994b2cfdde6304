--------------------------- MODULE MCUiDocuments ---------------------------
(***************************************************************************)
(* UiDocuments for TLC: an inventory that a script also opens as a plain   *)
(* panel, and a workspace of one pane.  Slot 1 of either holds a stack or   *)
(* nothing, slot 2 is where to drop.                                       *)
(***************************************************************************)
EXTENDS UiDocuments
CONSTANTS d1, d2, p1

MCTemplatesOf == [d \in Docs |-> IF d = d1 THEN {"inventory", "panel"} ELSE {"workspace"}]

SetSlot(d, p, n) ==
  [type |-> "setSlot", doc |-> d, at |-> At(d, p, 1), used |-> TRUE, amount |-> n]

MCFillings ==
  {[type |-> "clear", doc |-> d1], [type |-> "workspaceClear", doc |-> d2],
   [type |-> "setPane", doc |-> d2, pane |-> p1, draggable |-> TRUE],
   [type |-> "setActions", doc |-> d2, at |-> At(d2, p1, 1), actions |-> <<"split">>],
   SetSlot(d1, NoPane, 2), SetSlot(d2, p1, 3)}
=============================================================================
