\* An inventory and a workspace; stacks of three.
SPECIFICATION Spec
CONSTANTS
  d1 = d1
  d2 = d2
  p1 = p1
  Docs = {d1, d2}
  Panes = {p1}
  NoDoc = NoDoc
  NoPane = NoPane
  Slots = {1, 2}
  TemplatesOf <- MCTemplatesOf
  Fillings <- MCFillings
  MaxQueue = 1
INVARIANTS UiInv GesturesAreOnScreen OneGesturePerDocument SplitAmountBounded ScriptsSeeClosing
