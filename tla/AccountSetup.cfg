SPECIFICATION FairSpec
CONSTANTS
  Accounts = {a1, a2}
  Edits = {"toggle", "submit", "delete", "select"}
  MaxEdits = 2
  MaxTrials = 2
  MaxFlows = 2
  MaxSaves = 2
  MaxQueue = 1
  NoAccount = NoAccount
INVARIANTS
  TypeOK
  OneSelected
  FileIsCurrent
  TrialIsPurged
  TrialIsEarned
  GhostsAreRaces
  ShownFollowsEngine
PROPERTIES
  TrialEnds
CHECK_DEADLOCK FALSE
