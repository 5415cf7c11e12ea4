SPECIFICATION Spec
CONSTANTS
  r1 = r1
  p1 = p1
  u1 = u1
  v1 = v1
  n1 = n1
  n2 = n2
  g1 = g1
  q1 = q1
  k1 = k1
  i1 = i1
  m1 = m1
  b1 = b1
  none = none
  Handler = {h1, h2}
  Subject <- MCSubject
  Map = {1, 2, 3}
  Unknown = none
  RoleName = {r1}
  PolicyName = {p1}
  UserName = {u1}
  VpcId = {v1}
  SubnetId = {n1, n2}
  GroupName = {g1}
  GroupId <- MCGroupIds
  Rule = {noRanges}
  Everything = everything
  NoRanges = noRanges
  DefaultRule = default
  Member = {m1}
  QueueName = {q1}
  QueueTag = {t1, t2}
  KeyName = {k1}
  KeyPairId <- MCPairIds
  TaggedInstance = {i1}
  Tag = {t1, t2}
  Bucket = {b1}
  Object = {o1, o2}
  Config = {versioning}
  Workloads <- MCWorkloads
SYMMETRY MCSymmetry
INVARIANTS
  TypeOK
  AnswersHold
  ReferencesHold
