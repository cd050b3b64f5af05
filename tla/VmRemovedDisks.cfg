SPECIFICATION Spec
CONSTANTS
  n1 = n1
  n2 = n2
  v1 = v1
  v2 = v2
  w1 = w1
  w2 = w2
  s1 = s1
  c1 = c1
  c2 = c2
  NoNode = NoNode
  NoVm = NoVm
  Nodes = {n1, n2}
  Vms = {v1}
  Clusters = {c1}
  HaClusters = {c1}
  Workers = {w1}
  Scanners = {}
  ScanNodes = {}
  Edits = 0
  Removes = 1
  Disks = 1
  Outages = 0
  Moves = 0
  Writes = 0
  Asks = 0
  MaxChanges = 2
  InitialCluster <- OneCluster
  Budget <- MCBudget
PROPERTIES
  DisksOutliveGuest
CHECK_DEADLOCK FALSE
