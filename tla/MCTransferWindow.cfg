\* A file is replaced by one smaller than the ofstream's buffer while it is read.
CONSTANTS
  p1 = p1
  p2 = p2
  v0 = v0
  Puts = {p1, p2}
  Missing = {}
  Gets = {g1}
  Initial = v0
  Length <- Uneven
  Small = {p2}
  Suffixes = {s1}
  Collisions = FALSE
  NoSuffix = NoSuffix
  Hole = Hole
  NoChunk = NoChunk
  PutAttempts = 3
  GetAttempts = 12
  Faults = {}
  MaxFaults = 0
SPECIFICATION Spec
INVARIANTS GetsAreWhole
CHECK_DEADLOCK FALSE
