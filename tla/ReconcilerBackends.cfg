SPECIFICATION Spec
CONSTANTS
  i1 = i1
  i2 = i2
  b1 = b1
  h1 = h1
  h2 = h2
  Container <- WithBackend
  Instance <- OneInstance
  Backend = {b1}
  Handler = {h1}
  Counts <- CountsOne
  MaxContainers = 5
  IdLists <- NoIds
  DockerMayFail = FALSE
  MaxOrphanCleanup = 10
PROPERTY BackendsLeftAlone
