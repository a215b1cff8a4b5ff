\* The server crashes during a call.
CONSTANTS
  c1 = c1
  c2 = c2
  Clients = {c1}
  Paths <- TwoLevels
  Initial <- WithFiles
  HostDirs <- OneHost
  UsedKinds = {"mkdir", "mknod", "create", "put", "rmdir", "unlink", "rename", "renameFlags", "utimens", "getattr", "open"}
  Tries = 13
  Faults = {"crash"}
  MaxCalls = 2
  MaxFaults = 1
  MaxEvents = 3
SPECIFICATION Spec
INVARIANTS SuccessHappened
CHECK_DEADLOCK FALSE
