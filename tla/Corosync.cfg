SPECIFICATION Spec
CONSTANTS
  Nodes = {1, 2, 3}
  Workers = {w1}
  NoNode = NoNode
  Edits = 2
  Removes = 1
  Deletes = 1
  Errors = 1
  Failures = 1
  Outages = 1
  MaxFaults = 1
  Budget <- MCBudget
INVARIANTS
  RollingRestart
  RolloutsEnd
PROPERTIES
  GuardedRestart
CHECK_DEADLOCK FALSE
