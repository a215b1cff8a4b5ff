\* Three producers on a ring of two: each side waits for the other, and the
\* ring wraps around.
CONSTANTS
  Producers = {p1, p2, p3}
  Paths = {f, g}
  NoPath = NoPath
  Capacity = 2
  MaxSubmits = 4
SPECIFICATION FairSpec
INVARIANTS TypeOK ConsumerNotForgotten ProducerNotForgotten
PROPERTIES ImplementsCloseQueue EverySubmitSent ShutdownOutsideWindow
CHECK_DEADLOCK FALSE
