SPECIFICATION SerialSpec
CONSTANTS
  i1 = i1
  i2 = i2
  b1 = b1
  h1 = h1
  h2 = h2
  Container <- TwoInstances
  Instance <- TwoInstances
  Backend = {}
  Handler = {h1}
  Counts <- CountsAny
  MaxContainers = 5
  IdLists <- IdsTwo
  DockerMayFail = FALSE
  MaxOrphanCleanup = 10
INVARIANTS
  QuietAgreement
PROPERTY LifeCycle
