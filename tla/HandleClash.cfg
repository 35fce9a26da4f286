SPECIFICATION Spec
CONSTANTS
  c1 = c1
  c2 = c2
  c3 = c3
  c4 = c4
  c5 = c5
  c6 = c6
  l1 = l1
  l2 = l2
  None = None
  Context = {c1, c2, c3, c4, c5, c6}
  Launcher = {l1, l2}
  Name = {}
  FirstSize = 2
  MaxSize = 16
  FirstIndex = 1
SYMMETRY Symmetry
CHECK_DEADLOCK FALSE
INVARIANT AssertionHolds
