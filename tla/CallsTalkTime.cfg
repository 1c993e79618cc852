\* The talk-time clock of an answered incoming call.
CONSTANTS
  Slots = {s1, s2}
  Threads = {t1}
  MaxCallId = 1
  Ops = {"answer"}
  QuickReuse = FALSE
  StaleIds = FALSE
  NoSlot = NoSlot
  s1 = s1
  s2 = s2
  t1 = t1
  t2 = t2
SPECIFICATION Spec
INVARIANT
  TalkTimeRuns
