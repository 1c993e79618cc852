\* One thread that mutes, holds and transfers; the remote party holds and
\* resumes.
CONSTANTS
  Slots = {s1, s2}
  Threads = {t1}
  MaxCallId = 2
  Ops = {"start", "answer", "hangup", "hold", "mute", "remoteHold", "attended"}
  QuickReuse = FALSE
  StaleIds = FALSE
  NoSlot = NoSlot
  s1 = s1
  s2 = s2
  t1 = t1
  t2 = t2
SPECIFICATION Spec
SYMMETRY Interchangeable
INVARIANT
  MuteSticks
PROPERTY
  StickyHold
  ImplementsRegistry
