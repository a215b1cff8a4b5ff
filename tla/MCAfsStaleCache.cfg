\* A file changes between the two calls of fetchFile.
CONSTANTS
  c1 = c1
  c2 = c2
  t1 = t1
  t2 = t2
  Clients = {c1, c2}
  Handles = {t1, t2}
  ClientOf <- Separate
  Files = {f}
  Present = {f}
  Nested = {}
  Large = {}
  Fds = {d1}
  NoFd = NoFd
  Suffixes = {s1, s2, s3}
  Collisions = FALSE
  NoSuffix = NoSuffix
  NoFile = NoFile
  Boot = 10
  Skew <- NoSkew
  Nanos = 1000
  NameIntact = {TRUE}
  MayCreate = FALSE
  MaxOpens = 3
  MaxWrites = 1
  MaxFailures = 0
  MaxCrashes = 0
SPECIFICATION Spec
SYMMETRY SuffixSymmetry
INVARIANTS CloseToOpen
CHECK_DEADLOCK FALSE
