SPECIFICATION LifeSpec
CONSTANTS
  Server = {p1}
  Stopper = {q1}
  None = None
INVARIANT StopRemovesAll
