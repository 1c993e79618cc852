\* Two command threads and the worker over two slots.
CONSTANTS
  Slots = {s1, s2}
  Threads = {t1, t2}
  Worker = Worker
  MaxCommands = 2
  MaxEvents = 3
  Nobody = Nobody
SPECIFICATION FairSpec
INVARIANTS
  OnlyKnownDeadlocks
  LocksBalanced
PROPERTY
  CommandsReturn
CHECK_DEADLOCK FALSE
