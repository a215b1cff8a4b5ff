\* Puts and gets of one file while the server crashes and its disk fails.
CONSTANTS
  p1 = p1
  p2 = p2
  v0 = v0
  Puts = {p1, p2}
  Missing = {}
  Gets = {g1}
  Initial = v0
  Length <- Lengths
  Small = {}
  Suffixes = {s1, s2}
  Collisions = FALSE
  NoSuffix = NoSuffix
  Hole = Hole
  NoChunk = NoChunk
  PutAttempts = 2
  GetAttempts = 2
  Faults = {"crash", "disk"}
  MaxFaults = 2
SPECIFICATION Spec
SYMMETRY SuffixSymmetry
PROPERTIES ImplementsStore
CHECK_DEADLOCK FALSE
