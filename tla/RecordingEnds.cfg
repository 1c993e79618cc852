\* One call, recorded by hand, automatically and by a client of the pipe.
CONSTANTS
  Calls = {c1}
  Slots = {s1}
  Flutter = Flutter
  Worker = Worker
  Clients = {client}
  Asyncs = {k1}
  MaxRec = 2
  MaxQueue = 1
  MaxRetry = 1
  AutoRecord = TRUE
  NoCall = NoCall
  NoSlot = NoSlot
  c1 = c1
  client = client
  k1 = k1
SPECIFICATION Spec
SYMMETRY Interchangeable
INVARIANT
  TypeOK
  NoRecorderLeft
  SlotRecordsItsCall
  SavedIsClosed
  NoRecordingAfterEnd
