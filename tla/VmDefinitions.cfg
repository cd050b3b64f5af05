SPECIFICATION MCSpec
CONSTANTS
  n1 = n1
  n2 = n2
  v1 = v1
  v2 = v2
  w1 = w1
  w2 = w2
  s1 = s1
  c1 = c1
  c2 = c2
  NoNode = NoNode
  NoVm = NoVm
  Nodes = {n1, n2}
  Vms = {v1}
  Clusters = {c1, c2}
  HaClusters = {c1}
  Workers = {w1, w2}
  Scanners = {s1}
  ScanNodes = {n2}
  Edits = 1
  Removes = 1
  Disks = 0
  Outages = 1
  Moves = 1
  Writes = 0
  Asks = 1
  MaxChanges = 2
  InitialCluster <- OneCluster
  Budget <- MCBudget
INVARIANTS
  TypeOK
  SavedOrDirty
  NewestSaved
  RemovedEverywhere
PROPERTIES
  UuidIsStable
  SaveKeepsRunning
  
CHECK_DEADLOCK FALSE
