\* Streams break, callers die, writes fail: what is left of whole files, and that all calls end.
CONSTANTS
  p1 = p1
  p2 = p2
  v0 = v0
  Puts = {p1, p2}
  Missing = {}
  Gets = {g1}
  Initial = v0
  Length <- Uneven
  Small = {p2}
  Suffixes = {s1, s2}
  Collisions = FALSE
  NoSuffix = NoSuffix
  Hole = Hole
  NoChunk = NoChunk
  PutAttempts = 2
  GetAttempts = 2
  Faults = {"crash", "break", "client", "disk", "rename", "tail"}
  MaxFaults = 1
SPECIFICATION FairSpec
INVARIANTS TypeOK OneVersion TrueMeansStored NothingLeft
PROPERTIES CallsReturn
CHECK_DEADLOCK FALSE
