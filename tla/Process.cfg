SPECIFICATION ProcessSpec
CONSTANTS
  t1 = t1
  t2 = t2
  s1 = s1
  s2 = s2
  Topic = {t1, t2}
  Sub = {s1, s2}
  NoTopic = none
  MaxMessages = 2
  DefaultPull = 2
  MaxPull = 2
  Batches = {1, 2}
  PullRequests <- MCPulls
  AckRequests <- MCAcks
  MaxId = 4
  Server = {p1, p2}
  Stopper = {q1, q2}
  None = None
SYMMETRY MCSymmetry
INVARIANTS
  TypeOK
  SubscriptionsHaveTopics
  DeliveredOnceInOrder
  NothingLost
  QueueBounded
  PidFileNamesServer
  NothingLeftBehind
