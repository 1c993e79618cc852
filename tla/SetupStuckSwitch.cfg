SPECIFICATION Spec
CONSTANTS
  Accounts = {a1, a2}
  Edits = {"toggle", "submit", "delete", "select"}
  MaxEdits = 2
  MaxTrials = 2
  MaxFlows = 2
  MaxSaves = 2
  MaxQueue = 1
  NoAccount = NoAccount
INVARIANTS
  SwitchComesBack
CHECK_DEADLOCK FALSE
