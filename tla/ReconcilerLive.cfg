SPECIFICATION FairSpec
CONSTANTS
  i1 = i1
  i2 = i2
  b1 = b1
  h1 = h1
  h2 = h2
  Container <- OneInstance
  Instance <- OneInstance
  Backend = {}
  Handler = {h1, h2}
  Counts <- CountsOne
  MaxContainers = 5
  IdLists <- IdsOrph
  DockerMayFail = TRUE
  MaxOrphanCleanup = 1
PROPERTY Converges
