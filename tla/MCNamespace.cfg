\* Two clients, every operation that changes names or opens a file, deadlines and a
\* crash of the server.
CONSTANTS
  c1 = c1
  c2 = c2
  Clients = {c1, c2}
  Paths <- TwoLevels
  Initial <- WithFiles
  HostDirs <- OneHost
  UsedKinds = {"mkdir", "mknod", "create", "put", "rmdir", "unlink", "rename", "utimens", "open"}
  Tries = 2
  Faults = {"deadline", "crash"}
  MaxCalls = 3
  MaxFaults = 2
  MaxEvents = 4
SPECIFICATION FairSpec
INVARIANTS TypeOK CacheAgrees OpenHasFile
PROPERTIES CallsReturn ImplementsAtomicTree
CHECK_DEADLOCK FALSE
