SPECIFICATION WheelSpec
CONSTANTS
  a = a
  b = b
  c = c
  Timer = {a, b, c}
  Near = 2
  Level = 2
  Delay <- AllDelays
  Start = 0
INVARIANTS
  WheelTypeOK
  OneSlotPerTick
  CurrentSlotEmpty
PROPERTIES
  FiresOnTime
