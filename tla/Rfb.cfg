SPECIFICATION FairSpec
CONSTANTS
  MaxSockets = 2
  Inputs = 2
  Messages = 1
  Faults = 1
  Budget <- MCBudget
INVARIANTS
  NoLeak
  HandshakeKept
PROPERTIES
  EndsByItself
  ComesToAnEnd
CHECK_DEADLOCK FALSE
