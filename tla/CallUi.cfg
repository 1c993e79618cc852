\* The Flutter thread alone; the worker thread may run at any point of it.
CONSTANTS
  Slots = {s1, s2}
  Threads = {flutter}
  Flutter = flutter
  MaxCallId = 2
  Ops = {"start", "answer", "hangup", "hold", "mute"}
  QuickReuse = FALSE
  StaleIds = TRUE
  NoSlot = NoSlot
  MaxEvents = 2
  MaxChain = 2
  MaxPresses = 2
SPECIFICATION UiSpec
SYMMETRY Interchangeable
INVARIANTS
  UiTypeOK
  UiFollowsEngine
  HistoryIsTrue
  FeedbackEnds
