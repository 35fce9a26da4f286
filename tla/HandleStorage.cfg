SPECIFICATION Spec
CONSTANTS
  c1 = c1
  c2 = c2
  c3 = c3
  c4 = c4
  c5 = c5
  c6 = c6
  l1 = l1
  l2 = l2
  None = None
  Context = {c1, c2, c3, c4, c5}
  Launcher = {l1, l2}
  Name = {1, 2, 3}
  FirstSize = 2
  MaxSize = 8
  FirstIndex = 5
SYMMETRY Symmetry
CHECK_DEADLOCK FALSE
INVARIANTS
  RegisteredIsFound
  GrowingKeepsSlotsApart
  NamesFound
