\* One target, a row to pick and one that informs, a legacy message of one row.
SPECIFICATION BoundedSpec
CONSTANTS
  t1 = t1
  o1 = o1
  o2 = o2
  Targets = {t1}
  Options = {o1, o2}
  NoTarget = NoTarget
  NoOption = NoOption
  RowInputs <- MCRowInputs
  DirectFlags = {TRUE, FALSE}
  MaxTargetRows = 2
  MaxTargetOptions = 1
  MaxQueue = 2
INVARIANTS TypeOK SelectedAtMostOnce PickableIsAcceptable ScriptsKnowMode TargetInv CopiesAgree
PROPERTIES MenuIsAnswered MenuFollowsContext
