SPECIFICATION Spec
CONSTANTS
  f1 = f1
  f2 = f2
  h1 = h1
  h2 = h2
  Function <- TwoFunctions
  Resource <- TwoFunctions
  NoResource = NoResource
  Handler <- TwoHandlers
  Container <- OneTwo
  Port <- OneTwo
  Version <- Versions
  Entry <- OneTwoThree
  Ops <- AllOps
  MaxEvents = 4
  v1 = v1
  v2 = v2
  DockerMayFail = TRUE
SYMMETRY AllSymmetry
INVARIANTS
  TypeOK
  OnePortOwner
  ContainersAccounted
  PoolRunsRecordedCode
  CallsOwnFunction
CHECK_DEADLOCK FALSE
