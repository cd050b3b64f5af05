SPECIFICATION Spec
CONSTANTS
  Nodes = {1, 2}
  Workers = {w1}
  NoNode = NoNode
  Edits = 1
  Removes = 1
  Deletes = 0
  Errors = 0
  Failures = 0
  Outages = 0
  MaxFaults = 1
  Budget <- MCBudget
PROPERTIES
  NormalAfterRemoval
CHECK_DEADLOCK FALSE
