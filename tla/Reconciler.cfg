SPECIFICATION Spec
CONSTANTS
  i1 = i1
  i2 = i2
  b1 = b1
  h1 = h1
  h2 = h2
  Container <- TwoInstances
  Instance <- TwoInstances
  Backend = {}
  Handler = {h1, h2}
  Counts <- CountsTwo
  MaxContainers = 5
  IdLists <- IdsOrph
  DockerMayFail = FALSE
  MaxOrphanCleanup = 1
SYMMETRY HandlerSymmetry
INVARIANTS
  FullTypeOK
  ContainersAccounted
