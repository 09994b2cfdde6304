\* Both menus, one button whose press and release may both be under way.
SPECIFICATION Spec
CONSTANTS
  LiftSteps = 1
  MaxLag = 2
INVARIANTS CursorFollowsMenus OnePressOneStep PreviewIsCurrent ControlsInv
