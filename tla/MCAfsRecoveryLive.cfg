\* Every crash is followed by a restart whose scan sends what was closed.
CONSTANTS
  c1 = c1
  c2 = c2
  t1 = t1
  t2 = t2
  Clients = {c1}
  Handles = {t1}
  ClientOf <- Single
  Files = {f}
  Present = {f}
  Nested = {}
  Large = {}
  Fds = {d1}
  NoFd = NoFd
  Suffixes = {s1, s2, s3}
  Collisions = FALSE
  NoSuffix = NoSuffix
  NoFile = NoFile
  Boot = 10
  Skew <- NoSkew
  Nanos = 1000
  NameIntact = {TRUE}
  MayCreate = FALSE
  MaxOpens = 3
  MaxWrites = 2
  MaxFailures = 0
  MaxCrashes = 1
SPECIFICATION FairSpec
INVARIANTS JournalKept
PROPERTIES MarkedReachesServer
CHECK_DEADLOCK FALSE
