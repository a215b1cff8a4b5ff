\* Two clients, each with one handle at a time, create a file and share it.
CONSTANTS
  c1 = c1
  c2 = c2
  t1 = t1
  t2 = t2
  Clients = {c1, c2}
  Handles = {t1, t2}
  ClientOf <- Separate
  Files = {f}
  Present = {}
  Nested = {}
  Large = {}
  Fds = {d1}
  NoFd = NoFd
  Suffixes = {s1, s2, s3, s4}
  Collisions = FALSE
  NoSuffix = NoSuffix
  NoFile = NoFile
  Boot = 10
  Skew <- NoSkew
  Nanos = 1000
  NameIntact = {TRUE}
  MayCreate = TRUE
  MaxOpens = 4
  MaxWrites = 3
  MaxFailures = 0
  MaxCrashes = 0
SPECIFICATION Spec
SYMMETRY SuffixSymmetry
INVARIANTS TypeOK FlushOnClose
PROPERTIES ViewsMoveForward
CHECK_DEADLOCK FALSE
