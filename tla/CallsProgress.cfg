\* What a hangup and an answer must bring about, under fairness.
CONSTANTS
  Slots = {s1, s2}
  Threads = {t1, t2}
  MaxCallId = 2
  Ops = {"start", "answer", "hangup", "dnd"}
  QuickReuse = FALSE
  StaleIds = FALSE
  NoSlot = NoSlot
  s1 = s1
  s2 = s2
  t1 = t1
  t2 = t2
SPECIFICATION FairSpec
PROPERTIES
  HangupEnds
  AnswerTakesEffect
