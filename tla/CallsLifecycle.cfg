\* Two threads that start, answer, mute, merge and hang up; a slot a command
\* still holds does not come back, and clients forget the calls that have ended.
CONSTANTS
  Slots = {s1, s2}
  Threads = {t1, t2}
  MaxCallId = 2
  Ops = {"start", "answer", "hangup", "early", "lateOffer", "mute", "merge"}
  QuickReuse = FALSE
  StaleIds = FALSE
  NoSlot = NoSlot
  s1 = s1
  s2 = s2
  t1 = t1
  t2 = t2
SPECIFICATION Spec
SYMMETRY Interchangeable
INVARIANTS
  TypeOK
  RoutesToItsSlot
  OneLiveIncoming
  EndedStays
  ShownIsLive
  TableFollowsSession
PROPERTY
  OnlyTheWindowLoses
  OnlyMergeUnmutes
