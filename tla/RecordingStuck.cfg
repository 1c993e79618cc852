\* One call, recorded by hand; once it has ended nothing happens any more.
CONSTANTS
  Calls = {c1}
  Slots = {s1}
  Flutter = Flutter
  Worker = Worker
  Clients = {}
  Asyncs = {k1, k2}
  MaxRec = 2
  MaxQueue = 1
  MaxRetry = 1
  AutoRecord = FALSE
  NoCall = NoCall
  NoSlot = NoSlot
  c1 = c1
  k1 = k1
  k2 = k2
SPECIFICATION Spec
CHECK_DEADLOCK FALSE
INVARIANT
  TrackedInFlutter
