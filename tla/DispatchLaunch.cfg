SPECIFICATION Spec
CONSTANTS
  w1 = w1
  w2 = w2
  o1 = o1
  s1 = s1
  s2 = s2
  s3 = s3
  NoService = NoService
  Worker = {w1, w2}
  Outside = {o1}
  Service = {s1, s2, s3}
  Share <- ShareDef
  Boot <- BootTwo
  Harbor = {s3}
  MaxSends = 1
INVARIANTS
  TypeOK
  RefCountExact
  NoUseAfterFree
  OneDispatcher
  NoStrandedQueue
  FreedQueueUnreachable
  InitBeforeDispatch
  AbortOnlyWhenAllGone
