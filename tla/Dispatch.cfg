SPECIFICATION FairSpec
CONSTANTS
  w1 = w1
  w2 = w2
  o1 = o1
  s1 = s1
  s2 = s2
  s3 = s3
  NoService = NoService
  Worker = {w1, w2}
  Outside = {o1}
  Service = {s1, s2}
  Share <- ShareDef
  Boot <- BootOne
  Harbor = {s2}
  MaxSends = 2
INVARIANTS
  RefCountExact
  NoUseAfterFree
  OneDispatcher
  NoStrandedQueue
  AbortOnlyWhenAllGone
  TurnFitsQueue
PROPERTIES
  EveryQueueDrains
  RetiredIsReclaimed
