SPECIFICATION Spec
CONSTANTS
  k = k
  b1 = b1
  b2 = b2
  Service <- Services
  V1Projects <- GoogleV1
  Key = {k}
  Body = {b1, b2}
  MaxRequests = 3
  TTL = 1
  MaxTime = 2
INVARIANTS
  TypeOK
  AnswersFromRecord
PROPERTIES
  RunsAgainOnlyAfterExpiry
  ExpiredGoes
