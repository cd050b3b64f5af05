SPECIFICATION MCSpec
CONSTANTS
  Nodes = {1, 2, 3}
  Workers = {w1, w2}
  NoNode = NoNode
  Edits = 2
  Removes = 0
  Deletes = 0
  Errors = 0
  Failures = 0
  Outages = 0
  MaxFaults = 0
  Budget <- MCBudget
PROPERTY MaintenanceEnsured
CHECK_DEADLOCK FALSE
