\* One thread; pjsua may refuse an account, after which nobody may move.
CONSTANTS
  Accounts = {a1}
  PjIds = {0, 1}
  Threads = {t1}
  AddFails = TRUE
  NoAccount = NoAccount
  NoPj = NoPj
  NoThread = NoThread
SPECIFICATION FairSpec
CHECK_DEADLOCK FALSE
PROPERTY
  FailureIsShown
