SPECIFICATION FairWheelSpec
CONSTANTS
  a = a
  b = b
  c = c
  Timer = {a, b}
  Near = 4
  Level = 2
  Delay <- AllDelays
  Start = 50
PROPERTIES
  FiresOnTime
  EveryTimerFires
