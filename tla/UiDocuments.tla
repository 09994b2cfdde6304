---------------------------- MODULE UiDocuments ----------------------------
(***************************************************************************)
(* The panels of one player (CRmlUiManager): a script opens documents and  *)
(* fills their slots, the client stacks them and reports what the player   *)
(* does with the mouse and ESC.  Handlers, window messages and rendering   *)
(* all run on the game's thread: one action each.                          *)
(*                                                                         *)
(* Abstractions.  The handshake is done (module Handshake), a connection   *)
(* is one FIFO per direction.  The mouse is over a slot, over the panel or *)
(* outside; what a slot shows and the texts of a document are left out.    *)
(***************************************************************************)
EXTENDS Naturals, SequencesExt

CONSTANTS Docs, Panes, NoDoc, NoPane,  \* NoDoc and NoPane: the empty strings
          Slots,
          TemplatesOf,                 \* the templates scripts open a document with
          Fillings,                    \* the messages scripts fill documents with
          MaxQueue                     \* bound: messages in flight per direction

Templates == {"panel", "inventory", "workspace"}
ActionLists == {<<>>, <<"use">>, <<"split">>, <<"use", "split">>}  \* <<>>: the default ones
Slot == [used : BOOLEAN, amount : Nat, actions : ActionLists]

\* Where a slot is: a document, a pane of it (NoPane: the slots of the document
\* itself) and the index.
Place == [doc : Docs, pane : Panes \cup {NoPane}, slot : Slots]

\* What setWorkspacePane, set...Slot, set...SlotActions and clear... send.
Filling ==
  [type : {"clear", "workspaceClear"}, doc : Docs]
  \cup [type : {"setPane"}, doc : Docs, pane : Panes, draggable : BOOLEAN]
  \cup [type : {"setSlot"}, doc : Docs, at : Place, used : BOOLEAN, amount : Nat]
  \cup [type : {"setActions"}, doc : Docs, at : Place, actions : ActionLists]

ASSUME UiAssumption ==
  /\ NoDoc \notin Docs /\ NoPane \notin Panes /\ MaxQueue \in Nat
  /\ TemplatesOf \in [Docs -> SUBSET Templates]
  /\ \A m \in Fillings : m \in Filling /\ ("at" \in DOMAIN m => m.at.doc = m.doc)

VARIABLES ready,     \* of OMPPlusPlayerState
          believed,  \* the documents scripts have open: opened, and not closed
                     \* by them or reported closed
          stack,     \* the ids of g_documents, the top last
          content,   \* template, slots and panes of every document
          drag,      \* g_drag
          menu,      \* g_contextMenu
          split,     \* g_split
          suppress,  \* g_suppressNextLeftUp
          press,     \* history: the left button is up, down, or down since it
                     \* took hold of what g_drag holds
          up, down,
          lost       \* history: an event of this connection was not processed

dragVars == <<drag, press>>
popupVars == <<menu, split, suppress>>
clientVars == <<stack, content, dragVars, popupVars>>
vars == <<ready, believed, clientVars, up, down, lost>>

Pane == [draggable : BOOLEAN, slots : [Slots -> Slot]]
EmptySlot == [used |-> FALSE, amount |-> 0, actions |-> <<>>]
EmptySlots == [s \in Slots |-> EmptySlot]

NoPanes == [p \in {} |-> EmptySlot]
IsContent(c) ==
  /\ c = [template |-> c.template, slots |-> c.slots, panes |-> c.panes]
  /\ c.template \in Templates /\ c.slots \in [Slots -> Slot]
  /\ DOMAIN c.panes \subseteq Panes /\ c.panes \in [DOMAIN c.panes -> Pane]

Opened(template) == [template |-> template, slots |-> EmptySlots, panes |-> NoPanes]
NoContent == Opened("panel")

At(d, p, s) == [doc |-> d, pane |-> p, slot |-> s]
Nowhere == [doc |-> NoDoc, pane |-> NoPane, slot |-> 0]

NoDrag == [at |-> Nowhere, active |-> FALSE]
NoMenu == [at |-> Nowhere, actions |-> <<>>]
NoSplit == [at |-> Nowhere, amount |-> 0, max |-> 0]

\* Clicks, drops into slots, actions and splits are all an "event".
UpMessage == [type : {"close", "worldDrop", "event"}, doc : Docs]
DownMessage == Filling \cup [type : {"open"}, doc : Docs, template : Templates]
               \cup [type : {"close", "closeAll"}, doc : Docs \cup {NoDoc}]

TypeOK ==
  /\ ready \in BOOLEAN /\ lost \in BOOLEAN /\ suppress \in BOOLEAN
  /\ believed \in SUBSET Docs
  /\ stack \in Seq(Docs) /\ IsInjective(stack)
  /\ content = [d \in Docs |-> content[d]]
  /\ \A d \in Docs : IsContent(content[d])
  /\ drag \in [at : Place \cup {Nowhere}, active : BOOLEAN]
  /\ menu \in [at : Place \cup {Nowhere}, actions : ActionLists]
  /\ split \in [at : Place \cup {Nowhere}, amount : Nat, max : Nat]
  /\ press \in {"up", "down", "drag"}
  /\ up \in Seq(UpMessage)
  /\ down \in Seq(DownMessage)

Init ==
  /\ ready = TRUE /\ believed = {}
  /\ stack = <<>> /\ content = [d \in Docs |-> NoContent]
  /\ drag = NoDrag /\ menu = NoMenu /\ split = NoSplit
  /\ suppress = FALSE /\ press = "up"
  /\ up = <<>> /\ down = <<>>
  /\ lost = FALSE

-----------------------------------------------------------------------------
(* Documents and slots. *)

IsOpen(d) == d \in Range(stack)
\* FindDocument and erase: an id is there once.
Index(d) == CHOOSE i \in DOMAIN stack : stack[i] = d
Without(d) == IF IsOpen(d) THEN RemoveAt(stack, Index(d)) ELSE stack
HasSlots(d) == content[d].template # "panel"

\* The slot at a place: unused where there is none.
SlotAt(x) ==
  IF x.pane = NoPane THEN content[x.doc].slots[x.slot]
  ELSE IF x.pane \in DOMAIN content[x.doc].panes
       THEN content[x.doc].panes[x.pane].slots[x.slot] ELSE EmptySlot

\* GetUiSlot finds an item.
HasItem(x) == SlotAt(x).used

\* The places the mouse can be over in a document.
PlacesOf(d) ==
  CASE content[d].template = "inventory" -> {At(d, NoPane, s) : s \in Slots}
    [] content[d].template = "workspace" ->
         {At(d, p, s) : p \in DOMAIN content[d].panes, s \in Slots}
    [] OTHER -> {}

\* GetInventoryActions.
Offered(slot) ==
  IF slot.actions # <<>> THEN slot.actions
  ELSE IF slot.amount > 1 THEN <<"use", "split">> ELSE <<"use">>

-----------------------------------------------------------------------------
(* The server component keeps nothing: what scripts call goes out, what the  *)
(* client reports is passed to them.                                         *)

Send(message) ==
  /\ ready
  /\ Len(down) < MaxQueue
  /\ down' = Append(down, message)

OpenUi(d, template) ==
  /\ Send([type |-> "open", doc |-> d, template |-> template])
  /\ believed' = believed \cup {d}
  /\ UNCHANGED <<ready, clientVars, up, lost>>

CloseUi(d) ==
  /\ Send([type |-> "close", doc |-> d])
  /\ believed' = believed \ {d}
  /\ UNCHANGED <<ready, clientVars, up, lost>>

CloseAllUi ==
  /\ Send([type |-> "closeAll", doc |-> NoDoc])
  /\ believed' = {}
  /\ UNCHANGED <<ready, clientVars, up, lost>>

\* clearInventory, setInventorySlot, setWorkspaceSlot, set...SlotActions,
\* clearWorkspace and setWorkspacePane.
Fill(m) ==
  /\ Send(m)
  /\ UNCHANGED <<ready, believed, clientVars, up, lost>>

Receive == up # <<>> /\ up' = Tail(up)

\* processUiEvent.
UiEvent ==
  /\ Receive /\ ready
  /\ believed' = IF Head(up).type = "close" THEN believed \ {Head(up).doc} ELSE believed
  /\ UNCHANGED <<ready, clientVars, down, lost>>

\* A message above the rate, or of a player whose session was reset.
Ignore ==
  /\ Receive
  /\ lost' = TRUE
  /\ UNCHANGED <<ready, believed, clientVars, down>>

\* reset(), when the game mode changes: the scripts are others.
Reset ==
  /\ ready' = FALSE
  /\ believed' = {}
  /\ UNCHANGED <<clientVars, up, down, lost>>

\* Another connection and its handshake, from a new client process.
PlayerJoins ==
  /\ ready' = TRUE /\ believed' = {}
  /\ stack' = <<>> /\ content' = [d \in Docs |-> NoContent]
  /\ drag' = NoDrag /\ menu' = NoMenu /\ split' = NoSplit
  /\ suppress' = FALSE /\ press' = "up"
  /\ up' = <<>> /\ down' = <<>>
  /\ lost' = FALSE

-----------------------------------------------------------------------------
(* The client: RPC handlers. *)

Take(type) == down # <<>> /\ Head(down).type = type /\ down' = Tail(down)
Unless(d, gesture, none) == IF gesture.at.doc = d THEN none ELSE gesture
Report(type, d) == Len(up) < MaxQueue /\ up' = Append(up, [type |-> type, doc |-> d])

\* Mutant of HandleOpen: the document is not taken out of the stack first.
HandleOpenTwice ==
  LET d == Head(down).doc IN
  /\ Take("open")
  /\ stack' = Append(stack, d)
  /\ content' = [content EXCEPT ![d] = Opened(Head(down).template)]
  /\ drag' = Unless(d, drag, NoDrag)
  /\ UNCHANGED <<ready, believed, press, popupVars, up, lost>>

\* Mutant of HandleOpen: a drag out of the former content goes on.
HandleOpenKeepsDrag ==
  LET d == Head(down).doc IN
  /\ Take("open")
  /\ stack' = Append(Without(d), d)
  /\ content' = [content EXCEPT ![d] = Opened(Head(down).template)]
  /\ UNCHANGED <<ready, believed, dragVars, popupVars, up, lost>>

\* A document that is open starts anew on top; its drag ends, its popups stay.
HandleOpen ==
  LET d == Head(down).doc IN
  /\ Take("open")
  /\ stack' = Append(Without(d), d)
  /\ content' = [content EXCEPT ![d] = Opened(Head(down).template)]
  /\ drag' = Unless(d, drag, NoDrag)
  /\ UNCHANGED <<ready, believed, press, popupVars, up, lost>>

\* Mutant of CloseDocument: the server is not told.
CloseDocumentSilent(d, notify) ==
  /\ UNCHANGED up
  /\ stack' = Without(d) /\ content' = [content EXCEPT ![d] = NoContent]
  /\ drag' = Unless(d, drag, NoDrag) /\ menu' = Unless(d, menu, NoMenu)
  /\ split' = Unless(d, split, NoSplit)

CloseDocument(d, notify) ==
  /\ IF notify THEN Report("close", d) ELSE UNCHANGED up
  /\ stack' = Without(d) /\ content' = [content EXCEPT ![d] = NoContent]
  /\ drag' = Unless(d, drag, NoDrag) /\ menu' = Unless(d, menu, NoMenu)
  /\ split' = Unless(d, split, NoSplit)

HandleClose ==
  LET d == Head(down).doc IN
  /\ Take("close")
  /\ IF IsOpen(d) THEN CloseDocument(d, FALSE)
     ELSE UNCHANGED <<stack, content, drag, menu, split, up>>
  /\ UNCHANGED <<ready, believed, suppress, press, lost>>

\* HandleCloseAll: Clear.
HandleCloseAll ==
  /\ Take("closeAll")
  /\ stack' = <<>> /\ content' = [d \in Docs |-> NoContent]
  /\ drag' = NoDrag /\ menu' = NoMenu /\ split' = NoSplit /\ suppress' = FALSE
  /\ UNCHANGED <<ready, believed, press, up, lost>>

\* A slot keeps its actions when it is set, if it was used.
Set(slot, m) ==
  IF m.type = "setActions" THEN [slot EXCEPT !.actions = m.actions]
  ELSE [used |-> m.used, amount |-> m.amount,
        actions |-> IF slot.used THEN slot.actions ELSE <<>>]

WithSlot(c, m) ==
  IF m.at.pane = NoPane THEN [c EXCEPT !.slots[m.at.slot] = Set(@, m)]
  ELSE IF m.at.pane \in DOMAIN c.panes
       THEN [c EXCEPT !.panes[m.at.pane].slots[m.at.slot] = Set(@, m)] ELSE c

\* The handlers that fill a document: nothing for one that is not open.
Filled(c, m) ==
  CASE m.type = "clear" -> [c EXCEPT !.slots = EmptySlots]
    [] m.type = "workspaceClear" -> [c EXCEPT !.panes = NoPanes]
    [] m.type = "setPane" ->
         [c EXCEPT !.panes = [p \in DOMAIN c.panes \cup {m.pane} |->
            IF p = m.pane THEN [draggable |-> m.draggable, slots |-> EmptySlots] ELSE c.panes[p]]]
    [] m.type \in {"setSlot", "setActions"} -> WithSlot(c, m)

HandleFill ==
  LET m == Head(down) IN
  /\ \E type \in {"clear", "setSlot", "setActions", "workspaceClear", "setPane"} : Take(type)
  /\ IF IsOpen(m.doc) THEN content' = [content EXCEPT ![m.doc] = Filled(@, m)]
     ELSE UNCHANGED content
  /\ drag' = IF IsOpen(m.doc) /\ m.type = "workspaceClear"
             THEN Unless(m.doc, drag, NoDrag) ELSE drag
  /\ UNCHANGED <<ready, believed, stack, press, popupVars, up, lost>>

-----------------------------------------------------------------------------
(* The client: Render clears a popup whose item is gone. *)

Stale(popup) == popup.at # Nowhere /\ HasSlots(popup.at.doc) /\ ~HasItem(popup.at)

\* A split dialog hides the menu of its document.
Render ==
  /\ Stale(menu) \/ Stale(split)
  /\ menu' = IF Stale(menu) /\ split.at.doc # menu.at.doc THEN NoMenu ELSE menu
  /\ split' = IF Stale(split) THEN NoSplit ELSE split
  /\ UNCHANGED <<ready, believed, stack, content, dragVars, suppress, up, down, lost>>

-----------------------------------------------------------------------------
(* The client: HandleWndProc. *)

Windowed == stack # <<>>   \* without documents no message is looked at
Top == IF Windowed THEN Last(stack) ELSE NoDoc
TopHasSlots == Windowed /\ HasSlots(Top)
SplitOnTop == TopHasSlots /\ split.at.doc = Top
MenuOnTop == TopHasSlots /\ menu.at.doc = Top
NoPopupOnTop == ~SplitOnTop /\ ~MenuOnTop

\* WM_MOUSEMOVE, and AddMouseDelta, which does not ask for popups.
MouseMoves ==
  /\ Windowed /\ drag # NoDrag
  /\ drag' = [drag EXCEPT !.active = TRUE]
  /\ UNCHANGED <<ready, believed, stack, content, press, popupVars, up, down, lost>>

\* BeginSlotSplit: the dialog, if the slot has a stack.
HasStack(x) == HasItem(x) /\ SlotAt(x).amount > 1
Dialog(x) == [at |-> x, amount |-> SlotAt(x).amount \div 2, max |-> SlotAt(x).amount - 1]

\* Mutant of ClampSplitAmount: the upper bound is forgotten.
ClampSplitAmountBelow(n) == IF n < 1 THEN 1 ELSE n

ClampSplitAmount(n) == IF n < 1 THEN 1 ELSE IF n > split.max THEN split.max ELSE n

\* What the buttons of the dialog set: minus, plus, half and max; and the slider.
SplitButtons ==
  {ClampSplitAmount(n) :
    n \in {split.amount - 1, split.amount + 1, (split.max + 1) \div 2, split.max} \cup 1..split.max}

\* HandleInventorySplitMouseDown: beside the dialog or on cancel, on the split
\* button, which reports only if the item is there, or on what sets the amount.
SplitMouseDown ==
  /\ SplitOnTop
  /\ \/ split' = NoSplit /\ suppress' = TRUE /\ UNCHANGED up
     \/ /\ split' = NoSplit /\ suppress' = TRUE
        /\ HasItem(split.at) /\ Report("event", Top)
     \/ /\ \E n \in SplitButtons : split' = [split EXCEPT !.amount = n]
        /\ UNCHANGED <<suppress, up>>
  /\ UNCHANGED <<drag, menu>>

\* Mutant of PickAction: the menu stays when the dialog opens.
PickActionKeepsMenu(action) ==
  IF action = "split"
  THEN /\ split' = IF HasStack(menu.at) THEN Dialog(menu.at) ELSE split
       /\ drag' = IF HasStack(menu.at) THEN NoDrag ELSE drag
       /\ UNCHANGED <<menu, up>>
  ELSE menu' = NoMenu /\ Report("event", Top) /\ UNCHANGED <<split, drag>>

PickAction(action) ==
  /\ menu' = NoMenu
  /\ IF action = "split"
     THEN /\ split' = IF HasStack(menu.at) THEN Dialog(menu.at) ELSE split
          /\ drag' = IF HasStack(menu.at) THEN NoDrag ELSE drag
          /\ UNCHANGED up
     ELSE Report("event", Top) /\ UNCHANGED <<split, drag>>

\* HandleInventoryContextMenuClick: outside or the item is gone, on the title, or
\* on a row as the slot offered it when the menu was opened.
ContextMenuClick ==
  /\ MenuOnTop /\ ~SplitOnTop
  /\ suppress' = TRUE
  /\ \/ menu' = NoMenu /\ UNCHANGED <<split, drag, up>>
     \/ UNCHANGED <<menu, split, drag, up>>
     \/ HasItem(menu.at) /\ \E action \in Range(menu.actions) : PickAction(action)

\* WM_LBUTTONDOWN on a popup of the top document or on nothing that can be dragged.
LeftDown ==
  /\ press = "up" /\ press' = "down"
  /\ \/ SplitMouseDown
     \/ ContextMenuClick
     \/ NoPopupOnTop /\ UNCHANGED <<drag, menu, split, suppress, up>>
  /\ UNCHANGED <<ready, believed, stack, content, down, lost>>

\* WM_LBUTTONDOWN on an item: BeginInventoryDrag and BeginWorkspaceDrag.
BeginDrag ==
  /\ press = "up" /\ press' = "drag"
  /\ Windowed /\ NoPopupOnTop
  /\ \E x \in PlacesOf(Top) :
       /\ HasItem(x)
       /\ x.pane # NoPane => content[Top].panes[x.pane].draggable
       /\ drag' = [at |-> x, active |-> FALSE]
  /\ UNCHANGED <<ready, believed, stack, content, popupVars, up, down, lost>>

Release == press # "up" /\ press' = "up"
ReleaseOnTop == Release /\ ~suppress /\ TopHasSlots /\ ~SplitOnTop

\* WM_LBUTTONUP that does nothing here: swallowed, on the dialog, on a panel, or
\* on no document at all, where the flag is not looked at.
ReleaseUnused ==
  /\ Release
  /\ suppress \/ SplitOnTop \/ ~TopHasSlots
  /\ suppress' = (suppress /\ ~Windowed)
  /\ UNCHANGED <<ready, believed, stack, content, drag, menu, split, up, down, lost>>

Dragged == drag.at.doc = Top /\ drag.active

\* FinishInventoryDrag and FinishWorkspaceDrag: over another slot, outside the
\* document, or back where it was.
FinishDrag ==
  /\ ReleaseOnTop /\ Dragged
  /\ drag' = NoDrag
  /\ \/ PlacesOf(Top) \ {drag.at} # {} /\ Report("event", Top)
     \/ Report("worldDrop", Top)
     \/ UNCHANGED up
  /\ UNCHANGED <<ready, believed, stack, content, popupVars, down, lost>>

\* HandleInventoryClick reports any slot, HandleWorkspaceClick the first action
\* of an item, or opens the dialog for it.
Click ==
  /\ ReleaseOnTop /\ ~Dragged
  /\ \/ /\ drag' = Unless(Top, drag, NoDrag)
        /\ UNCHANGED <<split, up>>
     \/ /\ ~MenuOnTop /\ content[Top].template = "inventory"
        /\ Report("event", Top)
        /\ drag' = Unless(Top, drag, NoDrag)
        /\ UNCHANGED split
     \/ /\ ~MenuOnTop /\ content[Top].template = "workspace"
        /\ \E x \in {y \in PlacesOf(Top) : HasItem(y)} :
             IF Head(Offered(SlotAt(x))) # "split"
             THEN /\ Report("event", Top)
                  /\ drag' = Unless(Top, drag, NoDrag)
                  /\ UNCHANGED split
             ELSE /\ split' = IF HasStack(x) THEN Dialog(x) ELSE split
                  /\ drag' = IF HasStack(x) THEN NoDrag ELSE Unless(Top, drag, NoDrag)
                  /\ UNCHANGED up
  /\ UNCHANGED <<ready, believed, stack, content, menu, suppress, down, lost>>

\* WM_RBUTTONUP with something to end, of whatever document.
RightUpEnds ==
  /\ Windowed
  /\ \/ /\ drag # NoDrag
        /\ drag' = NoDrag
        /\ UNCHANGED <<menu, split, suppress>>
     \/ /\ drag = NoDrag /\ split # NoSplit
        /\ split' = NoSplit /\ suppress' = TRUE
        /\ UNCHANGED <<drag, menu>>
     \/ /\ drag = NoDrag /\ split = NoSplit /\ menu # NoMenu
        /\ menu' = NoMenu
        /\ UNCHANGED <<drag, split, suppress>>
  /\ UNCHANGED <<ready, believed, stack, content, press, up, down, lost>>

\* WM_RBUTTONUP otherwise: the menu of an item, a secondary click on a slot
\* of an inventory without one.
RightUpOpens ==
  /\ Windowed /\ drag = NoDrag /\ split = NoSplit /\ menu = NoMenu
  /\ \E x \in PlacesOf(Top) :
       \/ /\ HasItem(x)
          /\ menu' = [at |-> x, actions |-> Offered(SlotAt(x))]
          /\ UNCHANGED up
       \/ /\ ~HasItem(x) /\ x.pane = NoPane
          /\ Report("event", Top)
          /\ UNCHANGED menu
  /\ UNCHANGED <<ready, believed, stack, content, dragVars, split, suppress, down, lost>>

\* WM_KEYDOWN of ESC: a popup, or the top document if it has UiFlagCloseOnEscape.
Escape ==
  /\ Windowed
  /\ \/ /\ split # NoSplit
        /\ split' = NoSplit
        /\ UNCHANGED <<stack, content, drag, menu, up>>
     \/ /\ split = NoSplit /\ menu # NoMenu
        /\ menu' = NoMenu
        /\ UNCHANGED <<stack, content, drag, split, up>>
     \/ split = NoSplit /\ menu = NoMenu /\ CloseDocument(Top, TRUE)
  /\ UNCHANGED <<ready, believed, press, suppress, down, lost>>

-----------------------------------------------------------------------------
Script ==
  \/ \E d \in Docs : \E template \in TemplatesOf[d] : OpenUi(d, template)
  \/ \E d \in Docs : CloseUi(d)
  \/ \E m \in Fillings : Fill(m)
  \/ CloseAllUi

ClientReceive == HandleOpen \/ HandleClose \/ HandleCloseAll \/ HandleFill

Player ==
  \/ MouseMoves \/ LeftDown \/ BeginDrag \/ ReleaseUnused \/ FinishDrag \/ Click
  \/ RightUpEnds \/ RightUpOpens \/ Escape

Next ==
  \/ Script \/ UiEvent \/ Ignore \/ Reset \/ PlayerJoins
  \/ ClientReceive \/ Render \/ Player

Spec == Init /\ [][Next]_vars
-----------------------------------------------------------------------------
(* Properties. *)

\* What the player holds or has open belongs to a document on the screen, and a
\* drag out of a pane to a pane that is there, whatever the server closes,
\* clears and opens again meanwhile.
GesturesAreOnScreen ==
  /\ \A g \in {drag, menu, split} : g.at # Nowhere => IsOpen(g.at.doc)
  /\ drag.at.pane # NoPane => drag.at.pane \in DOMAIN content[drag.at.doc].panes

\* A document never has both popups, nor a drag under a popup: a click would
\* go to one of them and the other would stay.
OneGesturePerDocument ==
  \A d \in Docs :
    /\ ~(drag.at.doc = d /\ menu.at.doc = d)
    /\ ~(drag.at.doc = d /\ split.at.doc = d)
    /\ ~(menu.at.doc = d /\ split.at.doc = d)

\* The amount a split reports is at least one and leaves at least one of the
\* stack that the dialog was opened for.
SplitAmountBounded == split # NoSplit => split.amount \in 1..split.max

\* When everything has arrived, and nothing was dropped, scripts have no document
\* open that the player closed, however closing and reopening crossed.
ScriptsSeeClosing == (up = <<>> /\ down = <<>> /\ ~lost) => believed \subseteq Range(stack)

\* What is behind it: for a document that scripts have open, the queue to the
\* client tells of its opening, after all closings of it; or of no closing, and
\* it is open, or the report of its closing is under way.
Opens(m, d) == m.type = "open" /\ m.doc = d
Closes(m, d) == m.type = "closeAll" \/ (m.type = "close" /\ m.doc = d)

WillOpen(d) ==
  \E i \in DOMAIN down :
    Opens(down[i], d) /\ \A j \in DOMAIN down : j > i => ~Closes(down[j], d)

StaysOpen(d) ==
  /\ \A i \in DOMAIN down : ~Closes(down[i], d)
  /\ IsOpen(d) \/ \E i \in DOMAIN up : up[i].type = "close" /\ up[i].doc = d

BelievedIsTold == ~lost => \A d \in believed : WillOpen(d) \/ StaysOpen(d)

\* The inductive invariant.
UiInv ==
  TypeOK /\ GesturesAreOnScreen /\ OneGesturePerDocument /\ SplitAmountBounded /\ BelievedIsTold

\* docs/RMLUI.md: a drop with to_slot == -1 means "The player dragged the item
\* outside the panel": the button was held from the item to the release.
WorldDropIsDragged ==
  [][up' = Append(up, [type |-> "worldDrop", doc |-> Top]) => press = "drag"]_vars
=============================================================================
