SPECIFICATION MCSpec
CONSTANTS
  n1 = n1
  n2 = n2
  v1 = v1
  v2 = v2
  w1 = w1
  w2 = w2
  s1 = s1
  c1 = c1
  c2 = c2
  NoNode = NoNode
  NoVm = NoVm
  Nodes = {n1, n2}
  Vms = {v1}
  Clusters = {c1}
  HaClusters = {c1}
  Workers = {w1}
  Scanners = {}
  ScanNodes = {}
  Edits = 0
  Removes = 1
  Disks = 1
  Outages = 1
  Moves = 0
  Writes = 1
  Asks = 0
  MaxChanges = 2
  InitialCluster <- OneCluster
  Budget <- MCBudget
  DrbdDisks = {d1}
  Webs = {r1}
  Pair = {p1, p2}
  MaxPolls = 2
  NoDisk = NoDisk
  Swallows = 1
  Kills = 1
  Hosts = {1, 2}
  NodeEdits = 2
  NodeRemoves = 1
  NodeDeletes = 1
  NodeErrors = 0
  NodeFailures = 1
  NodeOutages = 1
  MaxFaults = 1
PROPERTIES
  JobsFinish
  DiskJobsEnd
  NodeJobsEnd
CHECK_DEADLOCK FALSE
