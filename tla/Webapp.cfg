SPECIFICATION MCSpec
CONSTANTS
  Entities = {e1, d1}
  Disks = {d1}
  Foreign = {d1}
  Writers = {w1, w2}
  Browsers = {b1}
  NoEntity = NoEntity
  Nothing = Nothing
  Flushes = 4
  DeletedRows = 1
  Reads = 2
  Budget <- MCBudget
  Names <- MCNames
  Ids = {1, 2}
  Values = {0, 1}
  ListRequests = 3
  Refusals = 1
  Machines = {1, 2}
  Storages = {1}
  Items <- MCItems
  StorageOf <- MCStorageOf
  DiskRequests = 3
  JobIds = {1, 2}
  JobWindows = 2
  Failures = 1
INVARIANTS
  NewsWaiting
  Removals
  ListAgrees
  BelongsToMachine
PROPERTIES
  CatchesUp
  ShowsTheEnd
CHECK_DEADLOCK FALSE
