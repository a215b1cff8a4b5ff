\* A file in a subdirectory is opened, written and closed.
CONSTANTS
  c1 = c1
  c2 = c2
  t1 = t1
  t2 = t2
  Clients = {c1}
  Handles = {t1}
  ClientOf <- Single
  Files = {f}
  Present = {f}
  Nested = {f}
  Large = {}
  Fds = {d1}
  NoFd = NoFd
  Suffixes = {s1, s2}
  Collisions = FALSE
  NoSuffix = NoSuffix
  NoFile = NoFile
  Boot = 10
  Skew <- NoSkew
  Nanos = 1000
  NameIntact = {TRUE}
  MayCreate = FALSE
  MaxOpens = 2
  MaxWrites = 1
  MaxFailures = 0
  MaxCrashes = 0
SPECIFICATION Spec
SYMMETRY SuffixSymmetry
INVARIANTS FlushOnClose
CHECK_DEADLOCK FALSE
