CONSTANTS
  r1 = r1
  r2 = r2
  a1 = a1
  a2 = a2
  b1 = b1
  b2 = b2
  Request = {r1, r2}
  App = {a1, a2}
  Branch = {b1, b2}
  Counter = {c1}
  Nowhere = Nowhere
  Closed = Closed
SPECIFICATION FairSpec
INVARIANTS CyclesAreKnown CyclesAreLocal
PROPERTY EveryRequestEnds
CHECK_DEADLOCK FALSE
CONSTRAINT OneOfEach
