\* Small and large files of a client with one handle at a time: calls to the server
\* fail, the client crashes twice.
CONSTANTS
  c1 = c1
  c2 = c2
  t1 = t1
  t2 = t2
  Clients = {c1}
  Handles = {t1}
  ClientOf <- Single
  Files = {f, g}
  Present = {f, g}
  Nested = {}
  Large = {g}
  Fds = {d1}
  NoFd = NoFd
  Suffixes = {s1, s2, s3}
  Collisions = FALSE
  NoSuffix = NoSuffix
  NoFile = NoFile
  Boot = 10
  Skew <- NoSkew
  Nanos = 1000
  NameIntact = {TRUE, FALSE}
  MayCreate = FALSE
  MaxOpens = 3
  MaxWrites = 2
  MaxFailures = 2
  MaxCrashes = 2
SPECIFICATION Spec
SYMMETRY SuffixSymmetry
INVARIANTS UnclosedStaysLocal 
CHECK_DEADLOCK FALSE
