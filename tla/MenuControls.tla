----------------------------- MODULE MenuControls -----------------------------
(***************************************************************************)
(* The controls of the target menu (CTargetManager) and of build mode      *)
(* (CBuildManager).  The two share the cursor and the right mouse button   *)
(* without knowing of each other: both remember whether they own the one   *)
(* cursor flag of CGraphics, and both look for the edge of the same press. *)
(* Build mode also tells the scripts of every change to the part in hand.  *)
(*                                                                         *)
(* All of it runs on the game's thread: RPC handlers and window messages   *)
(* between frames, and in a frame CTargetManager::Process, then            *)
(* CBuildManager::Process.  The physical button changes at any time; what  *)
(* window messages and DirectInput tell of it arrives later.  The other    *)
(* keys are pressed or not in each frame, a context is there or not.       *)
(* Sessions, rows and the list of parts are in BuildSession and            *)
(* TargetSession; a part is its kind here.                                 *)
(***************************************************************************)
EXTENDS Naturals, Sequences

CONSTANTS LiftSteps,  \* BuildFoundationLiftSteps
          MaxLag      \* bound: reports of the button that have not arrived

ASSUME ControlsAssumption == LiftSteps \in Nat /\ MaxLag \in Nat

VARIABLES enabled,  \* CGraphics::m_bCursorEnabled
          target,   \* CTargetManager: HasValidContext(), m_menuOpen, m_cursorOwned, ...
          build,    \* CBuildManager: m_active, m_menuOpen, m_mouseButtons[1], ...
          hand,     \* ... m_selectedPartId, m_rotationStep, m_flipped
          sent,     \* history: the part of the session's last preview message
          phase,    \* who processes the frame next: handlers come before "target"
          focus,    \* InputAllowed()
          right,    \* the right button as GetAsyncKeyState tells it
          reports,  \* ... and as window messages and DirectInput will
          toggled,  \* history: the player has used SHIFT+F2
          overlap,  \* history: both menus were open since both were closed
          steps     \* history: what each manager did with the last press, up to 2

buildVars == <<build, hand, sent>>
inputVars == <<focus, right, reports, toggled>>
vars == <<enabled, target, build, hand, sent, phase, inputVars, overlap, steps>>

NoTarget == [context |-> FALSE, open |-> FALSE, owned |-> FALSE, guard |-> FALSE, last |-> FALSE]
NoBuild == [active |-> FALSE, open |-> FALSE, owned |-> FALSE, guard |-> FALSE,
            last |-> FALSE, button |-> FALSE]

\* The foundation has a height, walls and doors have two sides, the remove tool
\* no preview.
Kinds == {"foundation", "wall", "remove"}
Part == [kind : Kinds \cup {"none"}, rotation : 0..LiftSteps, flipped : BOOLEAN]
Hold(kind) == [kind |-> kind, rotation |-> 0, flipped |-> FALSE]
Nothing == Hold("none")

TypeOK ==
  /\ hand \in Part /\ sent \in Part
  /\ {enabled, focus, right, toggled, overlap} \subseteq BOOLEAN
  /\ target \in [context : BOOLEAN, open : BOOLEAN, owned : BOOLEAN, guard : BOOLEAN, last : BOOLEAN]
  /\ build \in [active : BOOLEAN, open : BOOLEAN, owned : BOOLEAN, guard : BOOLEAN,
                last : BOOLEAN, button : BOOLEAN]
  /\ build.open \/ build.owned \/ build.guard => build.active
  /\ phase \in {"target", "build"}
  /\ reports \in Seq(BOOLEAN) /\ Len(reports) <= MaxLag
  /\ steps \in [{"target", "build"} -> 0..2]

Init ==
  /\ enabled = FALSE /\ target = NoTarget /\ build = NoBuild
  /\ hand = Nothing /\ sent = Nothing
  /\ phase = "target"
  /\ focus = TRUE /\ right = FALSE /\ reports = <<>>
  /\ toggled = FALSE /\ overlap = FALSE
  /\ steps = [manager \in {"target", "build"} |-> 0]

Between == phase = "target"

\* History: the menus as the step leaves them.
Watched ==
  overlap' = \/ target'.open /\ build'.open
             \/ overlap /\ (target'.open \/ build'.open)

Used(manager) == steps' = [steps EXCEPT ![manager] = IF @ = 0 THEN 1 ELSE 2]

-----------------------------------------------------------------------------
(* CTargetManager. *)

\* CloseMenu(true); what is left of the context, and m_lastRightDown.
CloseMenu(context, last) ==
  /\ target' = [target EXCEPT !.context = context, !.open = FALSE, !.owned = FALSE, !.guard = FALSE,
                              !.last = last]
  /\ enabled' = (enabled /\ ~target.owned)

\* Mutant of OpenMenu: the menu takes the cursor that is there already.
OpenMenuTakes ==
  /\ target' = [target EXCEPT !.open = TRUE, !.owned = TRUE, !.guard = TRUE, !.last = right]
  /\ enabled' = TRUE

OpenMenu ==
  /\ target' = [target EXCEPT !.open = TRUE, !.owned = ~enabled, !.guard = TRUE, !.last = right]
  /\ enabled' = TRUE

\* HandleSetContext.
ContextArrives ==
  /\ Between
  /\ target' = [target EXCEPT !.context = TRUE]
  /\ UNCHANGED <<enabled, buildVars, phase, inputVars, overlap, steps>>

\* Its time is over: the next frame closes the menu.
ContextExpires ==
  /\ target' = [target EXCEPT !.context = FALSE]
  /\ UNCHANGED <<enabled, buildVars, phase, inputVars, overlap, steps>>

\* HandleClearContext, or the player picked a row.
ClearContext ==
  /\ Between /\ target.context
  /\ CloseMenu(FALSE, target.last)
  /\ UNCHANGED <<buildVars, phase, inputVars, steps>>
  /\ Watched

RightEdge == right /\ ~target.last

TargetProcess ==
  /\ phase = "target" /\ phase' = "build"
  /\ \/ /\ ~target.context \/ ~focus
        /\ CloseMenu(target.context, right) /\ UNCHANGED steps
     \/ /\ target.context /\ focus  \* ALT
        /\ IF ~target.open THEN OpenMenu
           ELSE IF ~target.guard THEN CloseMenu(FALSE, right)
           ELSE target' = [target EXCEPT !.last = right] /\ UNCHANGED enabled
        /\ UNCHANGED steps
     \/ /\ target.context /\ focus /\ target.open /\ ~target.guard
        /\ CloseMenu(FALSE, right)
        /\ \/ UNCHANGED steps  \* ESC
           \/ RightEdge /\ Used("target")
     \/ /\ target.context /\ focus
        /\ ~(target.open /\ ~target.guard /\ RightEdge)
        /\ target' = [target EXCEPT !.last = right]
        /\ UNCHANGED <<enabled, steps>>
  /\ UNCHANGED <<buildVars, inputVars>>
  /\ Watched

TargetGuardEnds ==
  /\ target.guard
  /\ target' = [target EXCEPT !.guard = FALSE]
  /\ UNCHANGED <<enabled, buildVars, phase, inputVars, overlap, steps>>

-----------------------------------------------------------------------------
(* CBuildManager. *)

\* ClearUnlocked(true).  No message takes the preview back.
ClearUnlocked ==
  /\ build' = NoBuild
  /\ hand' = Nothing /\ UNCHANGED sent
  /\ enabled' = (enabled /\ ~build.owned)

\* Mutant of HandleOpen: the own cursor is not given back before it is asked for.
HandleOpenKeepsOwned ==
  LET shown == enabled /\ ~target.owned IN
  /\ Between
  /\ target' = [target EXCEPT !.context = FALSE, !.open = FALSE, !.owned = FALSE, !.guard = FALSE]
  /\ build' = [active |-> TRUE, open |-> TRUE, owned |-> ~shown, guard |-> TRUE,
               last |-> right, button |-> FALSE]
  /\ hand' = Nothing /\ sent' = Nothing
  /\ enabled' = TRUE
  /\ UNCHANGED <<phase, inputVars, steps>>
  /\ Watched

\* HandleOpen: ClearUnlocked, CTargetManager::ClearContext, then the new session,
\* which has sent no preview yet.
HandleOpen ==
  LET shown == enabled /\ ~build.owned /\ ~target.owned IN
  /\ Between
  /\ target' = [target EXCEPT !.context = FALSE, !.open = FALSE, !.owned = FALSE, !.guard = FALSE]
  /\ build' = [active |-> TRUE, open |-> TRUE, owned |-> ~shown, guard |-> TRUE,
               last |-> right, button |-> FALSE]
  /\ hand' = Nothing /\ sent' = Nothing
  /\ enabled' = TRUE
  /\ UNCHANGED <<phase, inputVars, steps>>
  /\ Watched

HandleClose ==
  /\ Between
  /\ ClearUnlocked
  /\ UNCHANGED <<target, phase, inputVars, steps>>
  /\ Watched

\* The scripts drop the list, and the part in hand with it; its rotation and side
\* stay, and no message takes the preview back.
HandleClearParts ==
  /\ Between
  /\ hand' = [hand EXCEPT !.kind = "none"]
  /\ UNCHANGED <<sent, enabled, target, build, phase, inputVars, overlap, steps>>

\* A button of the menu, in RenderImGui.
SelectPart(kind) ==
  /\ Between /\ build.active /\ build.open
  /\ build' = [build EXCEPT !.open = FALSE, !.owned = FALSE, !.last = build.button \/ right]
  /\ hand' = Hold(kind)
  /\ sent' = IF kind # "remove" THEN Hold(kind) ELSE sent
  /\ enabled' = (enabled /\ ~build.owned)
  /\ UNCHANGED <<target, phase, inputVars, steps>>
  /\ Watched

Down == build.button \/ right

\* Mutant of ReturnToMenu: without the 350 ms.
ReturnToMenuUnguarded ==
  /\ build' = [build EXCEPT !.open = TRUE, !.owned = ~enabled, !.last = Down, !.button = FALSE]
  /\ hand' = Nothing /\ sent' = Nothing
  /\ enabled' = TRUE

\* Mutant of ReturnToMenu: the preview is taken back for a part in hand only.
ReturnToMenuOfPart ==
  /\ build' = [build EXCEPT !.open = TRUE, !.owned = ~enabled, !.guard = TRUE,
                            !.last = Down, !.button = FALSE]
  /\ hand' = Nothing /\ sent' = IF hand.kind = "none" THEN sent ELSE Nothing
  /\ enabled' = TRUE

\* SendClearPreview takes the preview back, whatever is in hand.
ReturnToMenu ==
  /\ build' = [build EXCEPT !.open = TRUE, !.owned = ~enabled, !.guard = TRUE,
                            !.last = Down, !.button = FALSE]
  /\ hand' = Nothing /\ sent' = Nothing
  /\ enabled' = TRUE

\* What Q, E and the middle button make of the part in hand.
Heights == IF hand.kind = "foundation"
           THEN (hand.rotation - 1)..(hand.rotation + 1) \cap 0..LiftSteps ELSE {hand.rotation}
Sides == IF hand.kind = "wall" THEN BOOLEAN ELSE {hand.flipped}
Turned(r, f) == [hand EXCEPT !.rotation = r, !.flipped = f]
Adjusted == {Turned(r, f) : r \in Heights, f \in Sides}

\* Mutant of Place: the preview waits for its interval.
PlaceUnseen ==
  /\ hand' \in Adjusted
  /\ sent' \in {sent} \cup (IF hand'.kind \in {"none", "remove"} THEN {} ELSE {hand'})

\* The rest of Process while a part is placed: a change is previewed at once,
\* what has not changed every interval, and clicks ask for the part as it is.
Place ==
  /\ hand' \in Adjusted
  /\ sent' \in (IF hand' = hand THEN {sent} ELSE {})
               \cup (IF hand'.kind \in {"none", "remove"} THEN {} ELSE {hand'})

BuildProcess ==
  /\ phase = "build" /\ phase' = "target"
  /\ \/ ~build.active /\ UNCHANGED <<buildVars, enabled, steps>>
     \/ build.active /\ ~build.guard /\ ClearUnlocked /\ UNCHANGED steps  \* ESC: SendCancel
     \/ /\ build.active /\ ~build.guard /\ Down /\ ~build.last
        /\ IF build.open THEN ClearUnlocked ELSE ReturnToMenu
        /\ Used("build")
     \/ /\ build.active
        /\ build.guard \/ ~Down \/ build.last
        /\ build' = [build EXCEPT !.last = Down]
        /\ IF build.open THEN UNCHANGED <<hand, sent>> ELSE Place
        /\ UNCHANGED <<enabled, steps>>
  /\ UNCHANGED <<target, inputVars>>
  /\ Watched

\* Bound: what tells of a press arrives, and a frame sees it, within the 350 ms.
BuildGuardEnds ==
  /\ build.guard /\ reports = <<>> /\ build.last = Down
  /\ build' = [build EXCEPT !.guard = FALSE]
  /\ UNCHANGED <<enabled, target, hand, sent, phase, inputVars, overlap, steps>>

-----------------------------------------------------------------------------
(* The player. *)

\* Reports of a button reach a window that has the focus.
MoveButton ==
  /\ right' = ~right
  /\ IF focus THEN Len(reports) < MaxLag /\ reports' = Append(reports, right') ELSE UNCHANGED reports
  /\ steps' = IF right' THEN [manager \in DOMAIN steps |-> 0] ELSE steps
  /\ UNCHANGED <<enabled, target, buildVars, phase, focus, toggled, overlap>>

\* SetMouseButton, from CMessageProxy and CDInput8DeviceProxy, whatever is open.
SetMouseButton ==
  /\ Between
  /\ reports # <<>> /\ reports' = Tail(reports)
  /\ build' = [build EXCEPT !.button = Head(reports)]
  /\ UNCHANGED <<enabled, target, hand, sent, phase, focus, right, toggled, overlap, steps>>

FocusChanges ==
  /\ focus' = ~focus
  /\ UNCHANGED <<enabled, target, buildVars, phase, right, reports, toggled, overlap, steps>>

\* SHIFT+F2 reaches the procedure unless the build menu is open.
ToggleCursor ==
  /\ Between /\ focus /\ ~build.open
  /\ enabled' = ~enabled
  /\ toggled' = TRUE
  /\ UNCHANGED <<target, buildVars, phase, focus, right, reports, overlap, steps>>

Player == MoveButton \/ SetMouseButton \/ FocusChanges \/ ToggleCursor

Next ==
  \/ ContextArrives \/ ContextExpires \/ ClearContext \/ TargetProcess \/ TargetGuardEnds
  \/ HandleOpen \/ HandleClose \/ HandleClearParts \/ BuildProcess \/ BuildGuardEnds
  \/ \E kind \in Kinds : SelectPart(kind)
  \/ Player

Spec == Init /\ [][Next]_vars
-----------------------------------------------------------------------------
(* Properties. *)

MenuOpen == target.open \/ build.open

\* The cursor follows the menus, as long as the player leaves it alone: it is
\* never left on when both are closed, in whatever order they were opened over
\* each other and closed, and it is there for a menu unless another was open
\* meanwhile, whose closing takes it away.
CursorFollowsMenus ==
  ~toggled =>
    /\ enabled => MenuOpen
    /\ MenuOpen /\ ~overlap => enabled

\* A press of the right button does one thing to a menu: what ends placing does
\* not end the session as well, although the press is seen twice, by
\* GetAsyncKeyState and by the reports that come after it.
OnePressOneStep == steps["target"] <= 1 /\ steps["build"] <= 1

\* Of a session, the scripts last had a preview of the part in hand as it is, so that
\* what a click asks for was previewed; in the menu, and for the remove tool, they
\* have none, also when the list was cleared with a part in hand, whose preview
\* stands only until the menu is back.  And neither height nor side of one part is
\* carried over to another.
PreviewIsCurrent ==
  /\ build.active /\ (build.open \/ hand.kind = "remove") => sent = Nothing
  /\ build.active /\ ~build.open /\ hand.kind \in {"foundation", "wall"} => sent = hand
  /\ hand.kind \in Kinds =>
       /\ hand.rotation # 0 => hand.kind = "foundation"
       /\ hand.flipped => hand.kind = "wall"

\* What is behind them.  While the player leaves the cursor alone, it is on for
\* the one menu that owns it; a menu that is open alone owns it.
CursorIsOwned ==
  /\ target.owned => target.open
  /\ build.owned => build.open
  /\ target.open /\ build.open => overlap
  /\ ~toggled => /\ enabled <=> target.owned \/ build.owned
                 /\ ~(target.owned /\ build.owned)
                 /\ target.open /\ ~overlap => target.owned
                 /\ build.open /\ ~overlap => build.owned

\* A manager that has used a press has seen the button down; build mode, where
\* it may be told of the press once more, is guarded until it is.
PressIsSeen ==
  /\ steps["target"] \in 0..1 /\ steps["build"] \in 0..1
  /\ steps["target"] = 1 /\ right => target.last
  /\ steps["build"] = 1 /\ build.active /\ ~build.guard =>
       /\ Down => build.last
       /\ \A i \in DOMAIN reports : ~reports[i]

ControlsInv == TypeOK /\ CursorIsOwned /\ PressIsSeen /\ PreviewIsCurrent
=============================================================================
