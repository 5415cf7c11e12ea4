SPECIFICATION ManagersSpec
CONSTANTS
  r1 = r1
  r2 = r2
  NoResource = none
  Resource <- MCResource
  RangeStart = 2
  RangeEnd = 4
  MaxPerResource = 2
  Preferred <- MCPreferred
  MaxPort = 8
  p1 = p1
  p2 = p2
  p3 = p3
  c1 = c1
  c2 = c2
  c3 = c3
  Proc = {p1, p2, p3}
  Key = {"aws:ec2:instance:i-1", "aws:ec2:instance:i-2"}
  Chan = {c1, c2, c3}
  NoChan = "nochan"
  NoKey = "nokey"
  NoProc = "noproc"
INVARIANTS
  TypeOK
  CountsMatchPorts
  LimitRespected
  ExhaustedOnlyWhenFull
  NearestFreePort
  LockTypeOK
  MutualExclusion
  LockedIffHeld
  NoLostWakeup
PROPERTIES
  ImplementsPortPool
  LockReturns
  ImplementsAbstractLock
