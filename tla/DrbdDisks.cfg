SPECIFICATION MCSpec
CONSTANTS
  Disks = {d1, d2}
  n1 = n1
  n2 = n2
  Nodes = {n1, n2}
  Places <- AllPlaces
  Webs = {r1, r2}
  Workers = {w1, w2}
  MaxPolls = 2
  NoDisk = NoDisk
  NoNode = NoNode
  Removes = 1
  Outages = 1
  Swallows = 0
  Kills = 1
  Budget <- MCBudget
SYMMETRY Symmetry
INVARIANTS
  HiddenHaveOwner
  CountersDistinct
PROPERTIES
  ConfigKept
  CountersPool
CHECK_DEADLOCK FALSE
