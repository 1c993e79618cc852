\* Two threads register, unregister and delete two accounts, one after the other
\* or (Bound) at once, while a client of the pipe changes settings; pjsua may
\* refuse an account, after which ACCOUNTS stays locked and everybody may stop.
CONSTANTS
  Accounts = {a1, a2}
  PjIds = {0, 1}
  Threads = {t1, t2}
  Setters = {client}
  AddFails = TRUE
  NoAccount = NoAccount
  NoPj = NoPj
  NoThread = NoThread
  Global = Global
SPECIFICATION SettingsSpec
CHECK_DEADLOCK FALSE
SYMMETRY Interchangeable
ACTION_CONSTRAINT Bound
INVARIANTS
  TypeOK
  RemovesOnlyItsOwn
  MapNamesOwner
  OnePjAccount
  RegisteredIsReal
  SettingsComeFromHolders
PROPERTY
  OnlyTheWindowMisses
