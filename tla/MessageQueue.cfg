SPECIFICATION Spec
CONSTANTS
  m1 = m1
  m2 = m2
  Message = {m1, m2}
  None = None
  DefaultSize = 2
  Overload = 2
  MaxCap = 8
INVARIANTS
  WarnsOncePerDoubling
PROPERTIES
  IsFifo
