SPECIFICATION Spec
CONSTANTS
  t = t
  u = u
  b = b
  edited = edited
  File = {t, u, b}
  Binary = {b}
  Content <- Contents
  Absent = Absent
  Conflicted = Conflicted
  None = None
  Setups <- MCSetups
  MaxChanges = 3
CHECK_DEADLOCK FALSE
INVARIANTS TypeOK OnePatchAtATime CommitsHoldPatches AppliesLatestDiff EditsStayApart AppliesToItsBase
