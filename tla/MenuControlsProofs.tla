--------------------------- MODULE MenuControlsProofs ---------------------------
(***************************************************************************)
(* Proofs about MenuControls, for any height of a foundation and any number *)
(* of reports under way.  ControlsInv is inductive; the properties of the   *)
(* run follow from it.                                                      *)
(***************************************************************************)
EXTENDS MenuControls, TLAPS

(* Records of flags, field by field. *)

TargetType == [context : BOOLEAN, open : BOOLEAN, owned : BOOLEAN, guard : BOOLEAN, last : BOOLEAN]
BuildType == [active : BOOLEAN, open : BOOLEAN, owned : BOOLEAN, guard : BOOLEAN,
              last : BOOLEAN, button : BOOLEAN]

\* What the types say of the single flags.
LEMMA Typed ==
  ASSUME TypeOK
  PROVE  /\ target \in TargetType /\ build \in BuildType /\ hand \in Part /\ sent \in Part
         /\ enabled \in BOOLEAN /\ focus \in BOOLEAN /\ right \in BOOLEAN
         /\ toggled \in BOOLEAN /\ overlap \in BOOLEAN
         /\ steps \in [{"target", "build"} -> 0..2]
         /\ reports \in Seq(BOOLEAN) /\ Len(reports) <= MaxLag /\ Len(reports) \in Nat
  BY DEF TypeOK, TargetType, BuildType

\* ... and the single flags of the types.
LEMMA TypedBack ==
  ASSUME target' \in TargetType, build' \in BuildType, hand' \in Part, sent' \in Part,
         enabled' \in BOOLEAN, focus' \in BOOLEAN, right' \in BOOLEAN,
         toggled' \in BOOLEAN, overlap' \in BOOLEAN,
         steps' \in [{"target", "build"} -> 0..2], phase' \in {"target", "build"},
         reports' \in Seq(BOOLEAN), Len(reports') <= MaxLag,
         build'.open \/ build'.owned \/ build'.guard => build'.active
  PROVE  TypeOK'
  BY DEF TypeOK, TargetType, BuildType

\* The managers at rest.
LEMMA AtRest ==
  /\ NoTarget \in TargetType /\ NoBuild \in BuildType /\ Nothing \in Part
  /\ ~NoTarget.open /\ ~NoTarget.owned
  /\ ~NoBuild.active /\ ~NoBuild.open /\ ~NoBuild.owned /\ ~NoBuild.guard
  /\ Nothing.kind = "none" /\ Nothing.rotation = 0 /\ ~Nothing.flipped
<1>1. NoTarget \in TargetType /\ ~NoTarget.open /\ ~NoTarget.owned
  BY DEF NoTarget, TargetType
<1>2. NoBuild \in BuildType /\ ~NoBuild.active /\ ~NoBuild.open /\ ~NoBuild.owned /\ ~NoBuild.guard
  BY DEF NoBuild, BuildType
<1>3. Nothing \in Part /\ Nothing.kind = "none" /\ Nothing.rotation = 0 /\ ~Nothing.flipped
  BY ControlsAssumption DEF Nothing, Hold, Part
<1> QED
  BY <1>1, <1>2, <1>3

\* Any part taken in hand lies flat, on its first side.
LEMMA HoldType ==
  ASSUME NEW kind \in Kinds
  PROVE  /\ Hold(kind) \in Part /\ Hold(kind).kind = kind
         /\ Hold(kind).rotation = 0 /\ ~Hold(kind).flipped
  BY ControlsAssumption DEF Hold, Part

\* What is watched and used keeps its type.
LEMMA WatchedType == ASSUME Watched PROVE overlap' \in BOOLEAN
  BY DEF Watched

\* Both managers start at rest.
LEMMA InvInit == Init => ControlsInv
<1> SUFFICES ASSUME Init PROVE ControlsInv
  OBVIOUS
<1>1. TypeOK
  <2>1. target \in TargetType /\ build \in BuildType /\ ~build.open /\ ~build.owned /\ ~build.guard
        /\ hand \in Part /\ sent \in Part
    BY AtRest DEF Init
  <2>2. reports \in Seq(BOOLEAN) /\ Len(reports) <= MaxLag
    BY ControlsAssumption DEF Init
  <2>3. steps \in [{"target", "build"} -> 0..2]
    BY DEF Init
  <2>4. {enabled, focus, right, toggled, overlap} \subseteq BOOLEAN /\ phase \in {"target", "build"}
    BY DEF Init
  <2> QED
    BY <2>1, <2>2, <2>3, <2>4 DEF TypeOK, TargetType, BuildType
<1>2. CursorIsOwned
  BY AtRest DEF Init, CursorIsOwned
<1>3. PressIsSeen
  BY AtRest DEF Init, PressIsSeen
<1>4. PreviewIsCurrent
  BY AtRest DEF Init, PreviewIsCurrent, Kinds
<1> QED
  BY <1>1, <1>2, <1>3, <1>4 DEF ControlsInv

-----------------------------------------------------------------------------
(* What the two managers do, flag by flag. *)

\* CTargetManager closes its menu.
LEMMA CloseMenuFlags ==
  ASSUME TypeOK, NEW context \in BOOLEAN, NEW last \in BOOLEAN, CloseMenu(context, last)
  PROVE  /\ target' \in TargetType /\ target'.context = context /\ ~target'.open
         /\ ~target'.owned /\ ~target'.guard /\ target'.last = last
         /\ enabled' \in BOOLEAN /\ (enabled' <=> enabled /\ ~target.owned)
  BY Typed DEF CloseMenu, TargetType

\* ... and opens it.
LEMMA OpenMenuFlags ==
  ASSUME TypeOK, OpenMenu
  PROVE  /\ target' \in TargetType /\ target'.open /\ (target'.owned <=> ~enabled)
         /\ target'.last = right /\ enabled'
         /\ enabled' \in BOOLEAN
  BY Typed DEF OpenMenu, TargetType

\* CBuildManager ends the session.
LEMMA ClearUnlockedFlags ==
  ASSUME TypeOK, ClearUnlocked
  PROVE  /\ build' \in BuildType /\ ~build'.active /\ ~build'.open /\ ~build'.owned /\ ~build'.guard
         /\ hand' = Nothing /\ sent' = sent
         /\ enabled' \in BOOLEAN /\ (enabled' <=> enabled /\ ~build.owned)
  BY Typed, AtRest DEF ClearUnlocked

\* ... and goes from placing to its menu.
LEMMA ReturnToMenuFlags ==
  ASSUME TypeOK, ReturnToMenu, build.active
  PROVE  /\ build' \in BuildType /\ build'.active /\ build'.open /\ (build'.owned <=> ~enabled)
         /\ build'.guard
         /\ hand' = Nothing /\ sent' = Nothing
         /\ enabled' \in BOOLEAN /\ enabled'
  BY Typed, AtRest DEF ReturnToMenu, BuildType, Down

\* A session opens over whatever was there.
LEMMA HandleOpenFlags ==
  ASSUME TypeOK, HandleOpen
  PROVE  /\ target' \in TargetType /\ ~target'.open /\ ~target'.owned /\ target'.last = target.last
         /\ build' \in BuildType /\ build'.active /\ build'.open /\ build'.guard
         /\ build'.owned <=> ~(enabled /\ ~build.owned /\ ~target.owned)
         /\ enabled' \in BOOLEAN /\ enabled'
  BY Typed DEF HandleOpen, TargetType, BuildType

-----------------------------------------------------------------------------
(* Steps of CTargetManager. *)

\* The menu stays as it is, is closed or is opened; the press that closes it is
\* seen.
LEMMA TargetMoves ==
  ASSUME ControlsInv, UNCHANGED <<build, hand, sent, focus, right, reports, toggled>>,
         phase' \in {"target", "build"}, target' \in TargetType, enabled' \in BOOLEAN,
         overlap' \in BOOLEAN,
         \/ /\ target'.open <=> target.open
            /\ target'.owned <=> target.owned
            /\ UNCHANGED enabled
            /\ Watched \/ UNCHANGED overlap
         \/ ~target'.open /\ ~target'.owned /\ (enabled' <=> enabled /\ ~target.owned) /\ Watched
         \/ ~target.open /\ target'.open /\ (target'.owned <=> ~enabled) /\ enabled' /\ Watched,
         \/ UNCHANGED steps /\ (target'.last = target.last \/ target'.last = right)
         \/ RightEdge /\ Used("target") /\ target'.last = right
  PROVE  ControlsInv'
<1>1. TypeOK /\ CursorIsOwned /\ PressIsSeen /\ PreviewIsCurrent
  BY DEF ControlsInv
<1>2. /\ steps' \in [{"target", "build"} -> 0..2] /\ steps'["build"] = steps["build"]
      /\ steps'["target"] \in 0..1
      /\ steps'["target"] = 1 /\ right => target'.last
  <2>1. CASE UNCHANGED steps /\ (target'.last = target.last \/ target'.last = right)
    BY <1>1, <2>1, Typed DEF PressIsSeen
  <2>2. CASE RightEdge /\ Used("target") /\ target'.last = right
    <3>1. steps["target"] = 0
      BY <1>1, <2>2, Typed DEF PressIsSeen, RightEdge
    <3> QED
      BY <1>1, <2>2, <3>1, Typed DEF Used
  <2> QED
    BY <2>1, <2>2
<1>3. TypeOK'
  BY <1>1, <1>2, Typed, TypedBack DEF TypeOK
<1>4. CursorIsOwned'
  BY <1>1 DEF CursorIsOwned, Watched
<1>5. PressIsSeen'
  BY <1>1, <1>2 DEF PressIsSeen, Down
<1>6. PreviewIsCurrent'
  BY <1>1 DEF PreviewIsCurrent
<1> QED
  BY <1>3, <1>4, <1>5, <1>6 DEF ControlsInv

\* A context comes and goes, and a guard ends.
LEMMA ContextStep ==
  ASSUME ControlsInv, ContextArrives \/ ContextExpires \/ TargetGuardEnds
  PROVE  ControlsInv'
<1>1. TypeOK /\ phase \in {"target", "build"}
  BY DEF ControlsInv, TypeOK
<1>2. /\ UNCHANGED <<enabled, build, hand, sent, phase, focus, right, reports, toggled, overlap, steps>>
      /\ target' \in TargetType /\ target'.open = target.open /\ target'.owned = target.owned
      /\ target'.last = target.last
  BY <1>1, Typed DEF ContextArrives, ContextExpires, TargetGuardEnds, buildVars, inputVars, TargetType
<1> QED
  BY <1>1, <1>2, Typed, TargetMoves

\* The context is cleared, or the player picks a row.
LEMMA ClearContextStep ==
  ASSUME ControlsInv, ClearContext
  PROVE  ControlsInv'
<1>1. TypeOK /\ phase \in {"target", "build"} /\ target.last \in BOOLEAN
  BY Typed DEF ControlsInv, TypeOK, TargetType
<1>2. /\ UNCHANGED <<build, hand, sent, phase, focus, right, reports, toggled, steps>>
      /\ CloseMenu(FALSE, target.last) /\ Watched
  BY DEF ClearContext, buildVars, inputVars
<1>3. /\ target' \in TargetType /\ ~target'.open /\ ~target'.owned /\ target'.last = target.last
      /\ enabled' \in BOOLEAN /\ (enabled' <=> enabled /\ ~target.owned)
  BY <1>1, <1>2, CloseMenuFlags
<1> QED
  BY <1>1, <1>2, <1>3, WatchedType, TargetMoves

\* A frame of the target menu: it is closed, opened by ALT, or left as it is.
LEMMA TargetProcessStep ==
  ASSUME ControlsInv, TargetProcess
  PROVE  ControlsInv'
<1>1. TypeOK /\ phase' \in {"target", "build"} /\ right \in BOOLEAN /\ target.context \in BOOLEAN
  BY Typed DEF ControlsInv, TargetType, TargetProcess
<1>2. UNCHANGED <<build, hand, sent, focus, right, reports, toggled>> /\ Watched /\ overlap' \in BOOLEAN
  BY WatchedType DEF TargetProcess, buildVars, inputVars
<1>3. ASSUME NEW c \in BOOLEAN, CloseMenu(c, right), UNCHANGED steps \/ (RightEdge /\ Used("target"))
      PROVE  ControlsInv'
  <2>1. /\ target' \in TargetType /\ ~target'.open /\ ~target'.owned /\ target'.last = right
        /\ enabled' \in BOOLEAN /\ (enabled' <=> enabled /\ ~target.owned)
    BY <1>1, <1>3, CloseMenuFlags
  <2> QED
    BY <1>1, <1>2, <1>3, <2>1, TargetMoves
<1>4. ASSUME ~target.open, OpenMenu, UNCHANGED steps
      PROVE  ControlsInv'
  <2>1. /\ target' \in TargetType /\ target'.open /\ (target'.owned <=> ~enabled)
        /\ target'.last = right /\ enabled' /\ enabled' \in BOOLEAN
    BY <1>1, <1>4, OpenMenuFlags
  <2> QED
    BY <1>1, <1>2, <1>4, <2>1, TargetMoves
<1>5. ASSUME target' = [target EXCEPT !.last = right], UNCHANGED <<enabled, steps>>
      PROVE  ControlsInv'
  <2>1. /\ target' \in TargetType /\ target'.open = target.open /\ target'.owned = target.owned
        /\ target'.last = right /\ enabled' \in BOOLEAN
    BY <1>1, <1>5, Typed DEF TargetType
  <2> QED
    BY <1>1, <1>2, <1>5, <2>1, TargetMoves
<1> QED
  BY <1>1, <1>3, <1>4, <1>5 DEF TargetProcess

-----------------------------------------------------------------------------
(* Steps of CBuildManager. *)

\* Every part lies in a position its kind allows.
LEMMA AdjustedParts ==
  ASSUME TypeOK, PreviewIsCurrent
  PROVE  \A part \in Adjusted :
           /\ part \in Part /\ part.kind = hand.kind
           /\ hand.kind \in {"none", "remove"} => part = hand
           /\ hand.kind \in Kinds => /\ part.rotation # 0 => part.kind = "foundation"
                                     /\ part.flipped => part.kind = "wall"
<1> SUFFICES ASSUME NEW part \in Adjusted
             PROVE  /\ part \in Part /\ part.kind = hand.kind
                    /\ hand.kind \in {"none", "remove"} => part = hand
                    /\ hand.kind \in Kinds => /\ part.rotation # 0 => part.kind = "foundation"
                                              /\ part.flipped => part.kind = "wall"
  OBVIOUS
<1>1. hand \in Part
  BY Typed
<1>2. PICK r \in Heights, f \in Sides : part = Turned(r, f)
  BY DEF Adjusted
<1>3. r \in 0..LiftSteps /\ f \in BOOLEAN
  BY <1>1, <1>2 DEF Part, Heights, Sides
<1>4. part \in Part /\ part.kind = hand.kind /\ part.rotation = r /\ part.flipped = f
  BY <1>1, <1>2, <1>3 DEF Part, Turned
<1>5. hand.kind \in {"none", "remove"} => part = hand
  BY <1>1, <1>2, <1>4 DEF Part, Heights, Sides
<1>6. hand.kind \in Kinds => /\ part.rotation # 0 => part.kind = "foundation"
                             /\ part.flipped => part.kind = "wall"
  BY <1>2, <1>4 DEF PreviewIsCurrent, Heights, Sides
<1> QED
  BY <1>4, <1>5, <1>6

\* While a part is placed its last preview is of it as it is.
LEMMA PlaceStep ==
  ASSUME TypeOK, PreviewIsCurrent, build.active, ~build.open, Place
  PROVE  /\ hand' \in Part /\ sent' \in Part
         /\ hand'.kind = hand.kind
         /\ hand'.kind \in {"none", "remove"} => sent' = sent
         /\ hand'.kind \in {"foundation", "wall"} => sent' = hand'
         /\ hand'.kind \in Kinds => /\ hand'.rotation # 0 => hand'.kind = "foundation"
                                    /\ hand'.flipped => hand'.kind = "wall"
<1>1. hand' \in Adjusted
  BY DEF Place
<1>2. /\ hand' \in Part /\ hand'.kind = hand.kind
      /\ hand.kind \in {"none", "remove"} => hand' = hand
      /\ hand.kind \in Kinds => /\ hand'.rotation # 0 => hand'.kind = "foundation"
                                /\ hand'.flipped => hand'.kind = "wall"
  BY <1>1, AdjustedParts
<1>3. /\ hand'.kind \in {"none", "remove"} => sent' = sent
      /\ hand'.kind \in {"foundation", "wall"} => sent' = hand'
  BY <1>2 DEF Place, PreviewIsCurrent
<1>4. hand'.kind \in {"none", "remove", "foundation", "wall"}
  BY <1>2 DEF Part, Kinds
<1>5. sent' \in Part
  BY <1>2, <1>3, <1>4, Typed
<1> QED
  BY <1>2, <1>3, <1>5

\* The menu stays as it is, is closed or is opened.
LEMMA BuildMoves ==
  ASSUME ControlsInv, UNCHANGED <<target, focus, right, toggled, reports>>,
         phase' \in {"target", "build"}, build' \in BuildType, enabled' \in BOOLEAN,
         overlap' \in BOOLEAN, hand' \in Part, sent' \in Part,
         steps' \in [{"target", "build"} -> 0..2],
         build'.open \/ build'.owned \/ build'.guard => build'.active,
         \/ /\ build'.open <=> build.open
            /\ build'.owned <=> build.owned
            /\ UNCHANGED enabled
            /\ Watched \/ UNCHANGED overlap
         \/ ~build'.open /\ ~build'.owned /\ (enabled' <=> enabled /\ ~build.owned) /\ Watched
         \/ ~build.open /\ build'.open /\ (build'.owned <=> ~enabled) /\ enabled' /\ Watched,
         PressIsSeen', PreviewIsCurrent'
  PROVE  ControlsInv'
<1>1. TypeOK /\ CursorIsOwned
  BY DEF ControlsInv
<1>2. TypeOK'
  BY <1>1, Typed, TypedBack
<1>3. CursorIsOwned'
  BY <1>1 DEF CursorIsOwned, Watched
<1> QED
  BY <1>2, <1>3 DEF ControlsInv

\* The session is over.
LEMMA BuildEnds ==
  ASSUME ControlsInv, UNCHANGED <<target, focus, right, toggled, reports>>,
         phase' \in {"target", "build"}, ClearUnlocked, Watched,
         steps' \in [{"target", "build"} -> 0..1],
         steps'["target"] = steps["target"]
  PROVE  ControlsInv'
<1>1. TypeOK /\ PressIsSeen
  BY DEF ControlsInv
<1>2. /\ build' \in BuildType /\ ~build'.active /\ ~build'.open /\ ~build'.owned /\ ~build'.guard
      /\ hand' = Nothing /\ sent' = sent
      /\ enabled' \in BOOLEAN /\ (enabled' <=> enabled /\ ~build.owned)
  BY <1>1, ClearUnlockedFlags
<1>3. PressIsSeen'
  BY <1>1, <1>2 DEF PressIsSeen
<1>4. PreviewIsCurrent'
  BY <1>2, AtRest DEF PreviewIsCurrent, Kinds
<1> QED
  BY <1>1, <1>2, <1>3, <1>4, AtRest, Typed, WatchedType, BuildMoves

\* The scripts end the session.
LEMMA HandleCloseStep ==
  ASSUME ControlsInv, HandleClose
  PROVE  ControlsInv'
<1>1. phase' \in {"target", "build"} /\ steps' \in [{"target", "build"} -> 0..1]
      /\ steps'["target"] = steps["target"]
  BY DEF HandleClose, ControlsInv, TypeOK, PressIsSeen
<1> QED
  BY <1>1, BuildEnds DEF HandleClose, inputVars

\* Whoever owned the cursor, it is the build menu's now, and its guard is up.
LEMMA HandleOpenStep ==
  ASSUME ControlsInv, HandleOpen
  PROVE  ControlsInv'
<1>1. TypeOK /\ CursorIsOwned /\ PressIsSeen /\ phase \in {"target", "build"}
  BY DEF ControlsInv, TypeOK
<1>2. /\ target' \in TargetType /\ ~target'.open /\ ~target'.owned /\ target'.last = target.last
      /\ build' \in BuildType /\ build'.active /\ build'.open /\ build'.guard
      /\ build'.owned <=> ~(enabled /\ ~build.owned /\ ~target.owned)
      /\ enabled' \in BOOLEAN /\ enabled'
  BY <1>1, HandleOpenFlags
<1>3. /\ UNCHANGED <<phase, focus, right, reports, toggled, steps>> /\ Watched
      /\ hand' = Nothing /\ sent' = Nothing
  BY DEF HandleOpen, inputVars
<1>4. TypeOK'
  BY <1>1, <1>2, <1>3, AtRest, Typed, TypedBack, WatchedType
<1>5. CursorIsOwned'
  BY <1>1, <1>2, <1>3 DEF CursorIsOwned, Watched
<1>6. PressIsSeen'
  BY <1>1, <1>2, <1>3 DEF PressIsSeen
<1>7. PreviewIsCurrent'
  BY <1>3, AtRest DEF PreviewIsCurrent, Kinds
<1> QED
  BY <1>4, <1>5, <1>6, <1>7 DEF ControlsInv

\* No part is in hand any more; what was previewed last stays.
LEMMA HandleClearPartsStep ==
  ASSUME ControlsInv, HandleClearParts
  PROVE  ControlsInv'
<1>1. TypeOK /\ PressIsSeen /\ phase \in {"target", "build"}
      /\ (build.open \/ build.owned \/ build.guard => build.active)
  BY DEF ControlsInv, TypeOK
<1>2. /\ UNCHANGED <<enabled, target, build, phase, focus, right, reports, toggled, overlap, steps>>
      /\ hand' \in Part /\ hand'.kind = "none" /\ sent' = sent
  BY <1>1, Typed DEF HandleClearParts, inputVars, Part
<1>3. PressIsSeen'
  BY <1>1, <1>2 DEF PressIsSeen, Down
<1>4. PreviewIsCurrent'
  BY <1>2 DEF ControlsInv, PreviewIsCurrent, Kinds
<1> QED
  BY <1>1, <1>2, <1>3, <1>4, Typed, BuildMoves

\* The menu gives way to placing; what is chosen is previewed.
LEMMA SelectPartStep ==
  ASSUME ControlsInv, NEW kind \in Kinds, SelectPart(kind)
  PROVE  ControlsInv'
<1>1. TypeOK /\ PressIsSeen /\ PreviewIsCurrent /\ phase \in {"target", "build"}
  BY DEF ControlsInv, TypeOK
<1>2. /\ UNCHANGED <<target, phase, focus, right, reports, toggled, steps>> /\ Watched
      /\ build.active /\ build.open /\ hand' = Hold(kind)
      /\ sent' = IF kind # "remove" THEN Hold(kind) ELSE sent
  BY DEF SelectPart, inputVars
<1>3. /\ build' \in BuildType /\ build'.active /\ ~build'.open /\ ~build'.owned
      /\ build'.guard = build.guard /\ build'.button = build.button
      /\ (build'.last <=> build.button \/ right)
      /\ enabled' \in BOOLEAN /\ (enabled' <=> enabled /\ ~build.owned)
  BY <1>1, <1>2, Typed DEF SelectPart, BuildType
<1>4. sent = Nothing
  BY <1>1, <1>2 DEF PreviewIsCurrent
<1>5. PressIsSeen'
  BY <1>1, <1>2, <1>3 DEF PressIsSeen, Down
<1>6. PreviewIsCurrent'
  BY <1>2, <1>3, <1>4, HoldType DEF PreviewIsCurrent, Kinds
<1>7. hand' \in Part /\ sent' \in Part
  BY <1>2, <1>4, AtRest, HoldType
<1> QED
  BY <1>1, <1>2, <1>3, <1>5, <1>6, <1>7, Typed, WatchedType, BuildMoves

\* A frame of build mode: nothing, the end, the menu, or another look at the
\* button and at the part in hand.
LEMMA BuildProcessStep ==
  ASSUME ControlsInv, BuildProcess
  PROVE  ControlsInv'
<1>1. /\ TypeOK /\ PressIsSeen /\ PreviewIsCurrent
      /\ build.open \/ build.owned \/ build.guard => build.active
  BY DEF ControlsInv, TypeOK
<1>2. /\ UNCHANGED <<target, focus, right, reports, toggled>> /\ Watched /\ overlap' \in BOOLEAN
      /\ phase' \in {"target", "build"}
  BY WatchedType DEF BuildProcess, inputVars
<1>3. CASE ~build.active /\ UNCHANGED <<buildVars, enabled, steps>>
  <2>1. PressIsSeen' /\ PreviewIsCurrent'
    BY <1>1, <1>2, <1>3 DEF PressIsSeen, PreviewIsCurrent, Down, buildVars
  <2> QED
    BY <1>1, <1>2, <1>3, <2>1, Typed, BuildMoves DEF buildVars
<1>4. CASE build.active /\ ~build.guard /\ ClearUnlocked /\ UNCHANGED steps
  <2>1. steps' \in [{"target", "build"} -> 0..1]
    BY <1>1, <1>4, Typed DEF PressIsSeen
  <2> QED
    BY <1>2, <1>4, <2>1, BuildEnds
<1>5. CASE /\ build.active /\ ~build.guard /\ Down /\ ~build.last
           /\ IF build.open THEN ClearUnlocked ELSE ReturnToMenu
           /\ Used("build")
  <2>1. steps["build"] = 0
    BY <1>1, <1>5 DEF PressIsSeen
  <2>2. steps' \in [{"target", "build"} -> 0..1] /\ steps'["target"] = steps["target"]
    BY <1>1, <1>5, <2>1, Typed DEF PressIsSeen, Used
  <2>3. CASE build.open
    BY <1>2, <1>5, <2>2, <2>3, BuildEnds
  <2>4. CASE ~build.open
    <3>1. /\ build' \in BuildType /\ build'.active /\ build'.open /\ (build'.owned <=> ~enabled)
          /\ build'.guard /\ hand' = Nothing /\ sent' = Nothing
          /\ enabled' \in BOOLEAN /\ enabled'
      BY <1>1, <1>5, <2>4, ReturnToMenuFlags
    <3>2. PressIsSeen'
      BY <1>1, <1>2, <2>2, <3>1 DEF PressIsSeen
    <3>3. PreviewIsCurrent'
      BY <3>1, AtRest DEF PreviewIsCurrent, Kinds
    <3>4. steps' \in [{"target", "build"} -> 0..2]
      BY <2>2
    <3> QED
      BY <1>2, <2>4, <3>1, <3>2, <3>3, <3>4, AtRest, BuildMoves
  <2> QED
    BY <2>3, <2>4
<1>6. CASE /\ build.active
           /\ build.guard \/ ~Down \/ build.last
           /\ build' = [build EXCEPT !.last = Down]
           /\ IF build.open THEN UNCHANGED <<hand, sent>> ELSE Place
           /\ UNCHANGED <<enabled, steps>>
  <2>1. /\ build' \in BuildType /\ build'.active /\ build'.open = build.open
        /\ build'.owned = build.owned /\ build'.guard = build.guard /\ build'.button = build.button
        /\ (build'.last <=> Down)
    BY <1>1, <1>6, Typed DEF BuildType, Down
  <2>2. PressIsSeen'
    BY <1>1, <1>2, <1>6, <2>1 DEF PressIsSeen, Down
  <2>3. hand' \in Part /\ sent' \in Part /\ PreviewIsCurrent'
    <3>1. CASE build.open
      BY <1>1, <1>6, <2>1, <3>1, Typed DEF PreviewIsCurrent
    <3>2. CASE ~build.open
      BY <1>1, <1>6, <2>1, <3>2, PlaceStep DEF PreviewIsCurrent, Kinds
    <3> QED
      BY <3>1, <3>2
  <2> QED
    BY <1>1, <1>2, <1>6, <2>1, <2>2, <2>3, Typed, BuildMoves
<1> QED
  BY <1>3, <1>4, <1>5, <1>6 DEF BuildProcess

\* The guard ends when the press has been told of and seen.
LEMMA BuildGuardEndsStep ==
  ASSUME ControlsInv, BuildGuardEnds
  PROVE  ControlsInv'
<1>1. /\ TypeOK /\ PressIsSeen /\ PreviewIsCurrent /\ phase \in {"target", "build"}
      /\ build.open \/ build.owned \/ build.guard => build.active
  BY DEF ControlsInv, TypeOK
<1>2. /\ UNCHANGED <<enabled, target, hand, sent, phase, focus, right, reports, toggled, overlap, steps>>
      /\ build.guard /\ reports = <<>> /\ build.last = Down
  BY DEF BuildGuardEnds, inputVars
<1>3. /\ build' \in BuildType /\ build'.active = build.active /\ build'.open = build.open
      /\ build'.owned = build.owned /\ ~build'.guard /\ build'.button = build.button
      /\ build'.last = build.last
  BY <1>1, Typed DEF BuildGuardEnds, BuildType
<1>4. PressIsSeen'
  <2>1. Down' => build'.last
    BY <1>2, <1>3 DEF Down
  <2>2. \A i \in DOMAIN reports' : ~reports'[i]
    BY <1>2
  <2> QED
    BY <1>1, <1>2, <2>1, <2>2 DEF PressIsSeen
<1>5. PreviewIsCurrent'
  BY <1>1, <1>2, <1>3 DEF PreviewIsCurrent
<1> QED
  BY <1>1, <1>2, <1>3, <1>4, <1>5, Typed, BuildMoves

-----------------------------------------------------------------------------
(* The player. *)

\* A step of the player that leaves menus and parts alone.
LEMMA PlayerMoves ==
  ASSUME ControlsInv, UNCHANGED <<target, hand, sent, phase, overlap>>,
         build' \in BuildType, build'.active <=> build.active, build'.open <=> build.open,
         build'.owned <=> build.owned, build'.guard <=> build.guard,
         UNCHANGED <<enabled, toggled>> \/ toggled',
         enabled' \in BOOLEAN, focus' \in BOOLEAN, right' \in BOOLEAN, toggled' \in BOOLEAN,
         reports' \in Seq(BOOLEAN), Len(reports') <= MaxLag,
         steps' \in [{"target", "build"} -> 0..2], PressIsSeen'
  PROVE  ControlsInv'
<1>1. /\ TypeOK /\ CursorIsOwned /\ PreviewIsCurrent /\ phase \in {"target", "build"}
      /\ build.open \/ build.owned \/ build.guard => build.active
  BY DEF ControlsInv, TypeOK
<1>2. TypeOK'
  BY <1>1, Typed, TypedBack
<1>3. CursorIsOwned'
  BY <1>1 DEF CursorIsOwned
<1>4. PreviewIsCurrent'
  BY <1>1 DEF PreviewIsCurrent
<1> QED
  BY <1>2, <1>3, <1>4 DEF ControlsInv

\* A press is a new one; a release makes no button look down.
LEMMA MoveButtonStep ==
  ASSUME ControlsInv, MoveButton
  PROVE  ControlsInv'
<1>1. TypeOK /\ PressIsSeen
  BY DEF ControlsInv
<1>2. /\ UNCHANGED <<enabled, target, build, hand, sent, phase, focus, toggled, overlap>>
      /\ right' = ~right
      /\ IF focus THEN Len(reports) < MaxLag /\ reports' = Append(reports, right') ELSE UNCHANGED reports
      /\ steps' = IF right' THEN [manager \in DOMAIN steps |-> 0] ELSE steps
  BY DEF MoveButton, buildVars
<1>3. right' \in BOOLEAN
  BY <1>2
<1>4. reports' \in Seq(BOOLEAN) /\ Len(reports') <= MaxLag
      /\ \A i \in DOMAIN reports' : (i \in DOMAIN reports /\ reports'[i] = reports[i]) \/ reports'[i] = right'
  <2>1. reports \in Seq(BOOLEAN) /\ Len(reports) \in Nat /\ MaxLag \in Nat /\ Len(reports) <= MaxLag
    BY <1>1, Typed, ControlsAssumption
  <2>2. CASE UNCHANGED reports
    BY <2>1, <2>2
  <2>3. CASE Len(reports) < MaxLag /\ reports' = Append(reports, right')
    <3>1. PICK r \in BOOLEAN : r = right'
      BY <1>3
    <3>2. /\ Append(reports, r) \in Seq(BOOLEAN) /\ Len(Append(reports, r)) = Len(reports) + 1
          /\ \A i \in DOMAIN Append(reports, r) :
               (i \in DOMAIN reports /\ Append(reports, r)[i] = reports[i]) \/ Append(reports, r)[i] = r
      BY <2>1
    <3> QED
      BY <2>1, <2>3, <3>1, <3>2
  <2> QED
    BY <1>2, <2>2, <2>3
<1>5. steps' \in [{"target", "build"} -> 0..2]
  BY <1>1, <1>2, Typed
<1>6. PressIsSeen'
  <2>1. CASE right'
    BY <1>1, <1>2, <2>1, Typed DEF PressIsSeen
  <2>2. CASE ~right'
    BY <1>1, <1>2, <1>4, <2>2 DEF PressIsSeen, Down
  <2> QED
    BY <2>1, <2>2
<1> QED
  BY <1>1, <1>2, <1>3, <1>4, <1>5, <1>6, Typed, PlayerMoves

\* What is told late of a press that was used is told before the guard ends.
LEMMA SetMouseButtonStep ==
  ASSUME ControlsInv, SetMouseButton
  PROVE  ControlsInv'
<1>1. TypeOK /\ PressIsSeen
  BY DEF ControlsInv
<1>2. /\ UNCHANGED <<enabled, target, hand, sent, phase, focus, right, toggled, overlap, steps>>
      /\ reports # <<>> /\ reports' = Tail(reports)
      /\ build' = [build EXCEPT !.button = Head(reports)]
  BY DEF SetMouseButton
<1>3. /\ reports' \in Seq(BOOLEAN) /\ Len(reports') <= MaxLag
      /\ \A i \in DOMAIN reports' : i + 1 \in DOMAIN reports /\ reports'[i] = reports[i + 1]
      /\ Head(reports) \in BOOLEAN /\ 1 \in DOMAIN reports /\ Head(reports) = reports[1]
  BY <1>1, <1>2, Typed, ControlsAssumption
<1>4. /\ build' \in BuildType /\ build'.active = build.active /\ build'.open = build.open
      /\ build'.owned = build.owned /\ build'.guard = build.guard /\ build'.last = build.last
      /\ build'.button = Head(reports)
  BY <1>1, <1>2, <1>3, Typed DEF BuildType
<1>5. PressIsSeen'
  BY <1>1, <1>2, <1>3, <1>4 DEF PressIsSeen, Down
<1> QED
  BY <1>1, <1>2, <1>3, <1>4, <1>5, Typed, PlayerMoves

\* The focus is nothing the menus hold; a player who moves the cursor has it.
LEMMA FocusStep ==
  ASSUME ControlsInv, FocusChanges \/ ToggleCursor
  PROVE  ControlsInv'
<1>1. TypeOK /\ PressIsSeen
  BY DEF ControlsInv
<1>2. /\ UNCHANGED <<target, build, hand, sent, phase, right, reports, overlap, steps>>
      /\ UNCHANGED <<enabled, toggled>> \/ toggled'
      /\ enabled' \in BOOLEAN /\ focus' \in BOOLEAN /\ toggled' \in BOOLEAN
  BY <1>1, Typed DEF FocusChanges, ToggleCursor, buildVars
<1>3. PressIsSeen'
  BY <1>1, <1>2 DEF PressIsSeen, Down
<1> QED
  BY <1>1, <1>2, <1>3, Typed, PlayerMoves

-----------------------------------------------------------------------------
(* The theorems. *)

\* A step that changes nothing.
LEMMA StutterStep ==
  ASSUME ControlsInv, UNCHANGED vars
  PROVE  ControlsInv'
<1>1. UNCHANGED <<enabled, target, build, hand, sent, phase, focus, right, reports, toggled, overlap, steps>>
  BY DEF vars, buildVars, inputVars
<1>2. TypeOK /\ PressIsSeen
  BY DEF ControlsInv
<1>3. PressIsSeen'
  BY <1>1, <1>2 DEF PressIsSeen, Down
<1> QED
  BY <1>1, <1>2, <1>3, Typed, PlayerMoves

\* Every step keeps the invariant.
LEMMA InvStep == ControlsInv /\ [Next]_vars => ControlsInv'
<1> SUFFICES ASSUME ControlsInv, [Next]_vars PROVE ControlsInv'
  OBVIOUS
<1>1. CASE ContextArrives \/ ContextExpires \/ ClearContext \/ TargetProcess \/ TargetGuardEnds
  BY <1>1, ContextStep, ClearContextStep, TargetProcessStep
<1>2. CASE \/ HandleOpen \/ HandleClose \/ HandleClearParts \/ BuildProcess \/ BuildGuardEnds
           \/ \E kind \in Kinds : SelectPart(kind)
  BY <1>2, HandleOpenStep, HandleCloseStep, HandleClearPartsStep, BuildProcessStep,
     BuildGuardEndsStep, SelectPartStep
<1>3. CASE Player
  BY <1>3, MoveButtonStep, SetMouseButtonStep, FocusStep DEF Player
<1>4. CASE UNCHANGED vars
  BY <1>4, StutterStep
<1> QED
  BY <1>1, <1>2, <1>3, <1>4 DEF Next

\* The flags stay flags; the cursor has one owner, a used press was seen, and the
\* last preview is of the part in hand.
THEOREM ControlsInvariant == Spec => []ControlsInv
  BY InvInit, InvStep, PTL DEF Spec

\* Only a session has a menu, a cursor or a guard, and a part keeps to its heights.
THEOREM TypeCorrect == Spec => []TypeOK
<1>1. ControlsInv => TypeOK
  BY DEF ControlsInv
<1> QED
  BY <1>1, ControlsInvariant, PTL

\* The cursor is on for a menu and off without one, in whatever order the two
\* menus are opened over each other and closed.
THEOREM CursorFollows == Spec => []CursorFollowsMenus
<1>1. ControlsInv => CursorFollowsMenus
  BY DEF ControlsInv, CursorIsOwned, CursorFollowsMenus, MenuOpen
<1> QED
  BY <1>1, ControlsInvariant, PTL

\* One press of the right button does one thing to each menu, however late and
\* however often it is told of.
THEOREM PressIsUsedOnce == Spec => []OnePressOneStep
<1>1. ControlsInv => OnePressOneStep
  BY DEF ControlsInv, PressIsSeen, OnePressOneStep
<1> QED
  BY <1>1, ControlsInvariant, PTL

\* The last preview of a session is of the part in hand as it is, and none stands in
\* the menu.
THEOREM PreviewIsKnown == Spec => []PreviewIsCurrent
<1>1. ControlsInv => PreviewIsCurrent
  BY DEF ControlsInv
<1> QED
  BY <1>1, ControlsInvariant, PTL
=============================================================================
