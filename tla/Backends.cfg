SPECIFICATION Spec
CONSTANTS
  Handler = {h1, h2}
  Subject <- MCSubject
  Map = {1, 2, 3}
  Unknown = Unknown
  Container <- MCContainer
  DockerMayFail = TRUE
  Resource <- MCResource
  Port = {1, 2, 3, 4}
  Preferred <- MCPreferred
  NoResource = "free"
  Runner <- MCRunner
  ClusterName = {"k3s-a"}
  Location = {"l"}
  GceName = {"gce-a"}
  DbName = {"d"}
  SnapshotName = {"s"}
  Workloads <- MCWorkloads
  Registered <- MCRegistered
  Server = server1
SYMMETRY MCSymmetry
INVARIANTS
  AnswersHold
  PublishedPortsHeld
  ContainersAccounted
  EndpointsLive
CHECK_DEADLOCK FALSE
