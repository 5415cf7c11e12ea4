---------------------------- MODULE LambdaProofs ----------------------------
(***************************************************************************)
(* For any functions, handlers, containers and ports, and whatever Docker  *)
(* does: no host port has two owners (IInv); and, on top of that, the pool *)
(* of warm containers forgets none, runs the code that is recorded, and    *)
(* leads an invocation to its own function (the second half).              *)
(***************************************************************************)
EXTENDS Lambda, TLAPS

(* What a request knows at each place of its handler.                       *)
NeedsCtr == (Starting \ {"create"}) \cup {"stop", "remove"}
AtWork   == {"wipe", "deploy", "take", "stop", "remove", "commit", "cleanup"}
KnownBy(h) == /\ ~At(h, "idle") => Fn(h) \in Function /\ req[h].op # "none"
              /\ ~At(h, "idle") /\ req[h].op \in {"create", "update"} => req[h].version \in Version
              /\ Owners(h) => req[h].port \in Port
              /\ req[h].pc \in NeedsCtr => req[h].ctr \in Container /\ made[req[h].ctr] \in Made
              /\ req[h].pc \in AtWork => req[h].op \in {"create", "update", "delete"}
              /\ req[h].pc \in {"wipe", "deploy"} => req[h].op # "delete"
Known == /\ \A h \in Handler : KnownBy(h)
         /\ \A f \in Function : pool[f] # None => made[pool[f]] \in Made

Requests == [Handler -> Request]
Others(h) == \A g \in Handler \ {h} : req'[g] = req[g]
Kept(h)   == /\ req' \in Requests /\ Others(h)
             /\ req'[h].fn = req[h].fn
             /\ req'[h].op = req[h].op
             /\ req'[h].version = req[h].version

LEMMA PcFacts ==
  /\ Pc = {"idle", "get", "limit", "ensure", "lock", "alloc", "call", "wipe", "deploy", "take", "stop",
           "remove", "commit", "cleanup", "create", "start", "health", "healthStop", "healthRemove",
           "register"}
  /\ Starting \subseteq Pc
BY DEF Pc, Starting

(* What the assignments to req do, field by field.                          *)
LEMMA GotoFacts ==
  ASSUME req \in Requests, NEW h \in Handler, NEW pc \in Pc, Goto(h, pc)
  PROVE  /\ Kept(h)
         /\ req'[h].pc = pc /\ req'[h].ctr = req[h].ctr
         /\ req'[h].port = req[h].port /\ req'[h].entry = req[h].entry
BY DEF Goto, Requests, Request, Kept, Others

LEMMA AnswerFacts ==
  ASSUME req \in Requests, NEW h \in Handler, Answer(h)
  PROVE  req' \in Requests /\ Others(h) /\ req'[h] = Idle
BY DEF Answer, Requests, Request, Idle, Others, Pc

LEMMA CallFacts ==
  ASSUME req \in Requests, NEW h \in Handler, CallEntry(h), made[pool[Fn(h)]].port \in Port
  PROVE  Kept(h) /\ req'[h].pc = "call"
<1> DEFINE r == [req[h] EXCEPT !.pc = "call", !.entry = None, !.port = made[pool[Fn(h)]].port]
<1>1. "call" \in Pc
  BY PcFacts
<1>2. r \in Request
  BY <1>1 DEF Requests, Request
<1>3. r.pc = "call" /\ r.fn = req[h].fn /\ r.op = req[h].op /\ r.version = req[h].version
  BY DEF Requests, Request
<1>4. req' = [req EXCEPT ![h] = r]
  BY DEF CallEntry, Requests
<1> HIDE DEF r
<1>5. QED BY <1>2, <1>3, <1>4 DEF Requests, Kept, Others

LEMMA WaitFacts ==
  ASSUME req \in Requests, NEW h \in Handler, NEW e \in Entry,
         req' = [req EXCEPT ![h].pc = "lock", ![h].entry = e]
  PROVE  Kept(h) /\ req'[h].pc = "lock" /\ req'[h].entry = e
<1>1. "lock" \in Pc
  BY PcFacts
<1>2. QED BY <1>1 DEF Requests, Request, Kept, Others

LEMMA PortFacts ==
  ASSUME req \in Requests, NEW h \in Handler, NEW p \in Port,
         req' = [req EXCEPT ![h].pc = "create", ![h].port = p]
  PROVE  Kept(h) /\ req'[h].pc = "create" /\ req'[h].port = p
<1>1. "create" \in Pc
  BY PcFacts
<1>2. QED BY <1>1 DEF Requests, Request, Kept, Others

LEMMA CtrFacts ==
  ASSUME req \in Requests, NEW h \in Handler, NEW pc \in Pc, NEW c \in Container \cup {None},
         req' = [req EXCEPT ![h].pc = pc, ![h].ctr = c]
  PROVE  Kept(h) /\ req'[h].pc = pc /\ req'[h].ctr = c /\ req'[h].port = req[h].port
BY DEF Requests, Request, Kept, Others

LEMMA RegisterFacts ==
  ASSUME req \in Requests, NEW h \in Handler,
         req' = [req EXCEPT ![h].pc = "call", ![h].entry = None, ![h].ctr = None]
  PROVE  Kept(h) /\ req'[h].pc = "call"
<1> DEFINE r == [req[h] EXCEPT !.pc = "call", !.entry = None, !.ctr = None]
<1>1. "call" \in Pc
  BY PcFacts
<1>2. r \in Request
  BY <1>1 DEF Requests, Request
<1>3. r.pc = "call" /\ r.fn = req[h].fn /\ r.op = req[h].op /\ r.version = req[h].version
  BY DEF Requests, Request
<1>4. req' = [req EXCEPT ![h] = r]
  BY DEF Requests
<1> HIDE DEF r
<1>5. QED BY <1>2, <1>3, <1>4 DEF Requests, Kept, Others

LEMMA BeginFacts ==
  ASSUME req \in Requests, NEW h \in Handler, NEW op \in Ops, NEW f \in Function,
         NEW v \in Version \cup {"none"}, Begin(h, op, f, v)
  PROVE  req' \in Requests /\ Others(h) /\ req'[h].pc = "get" /\ req'[h].fn = f
         /\ req'[h].op = op /\ req'[h].version = v
<1>1. "get" \in Pc
  BY PcFacts
<1>2. QED BY <1>1, LambdaAssumption DEF Begin, Idle, Requests, Request, Kept, Others

LEMMA KnownKept ==
  ASSUME Known, NEW h \in Handler, Others(h), KnownBy(h)',
         \A c \in Container : made[c] \in Made => made'[c] \in Made,
         \A f \in Function : pool'[f] # None => made'[pool'[f]] \in Made
  PROVE  Known'
BY DEF Known, KnownBy, Others, At, Fn, Owners

LEMMA AnswerKnown ==
  ASSUME req \in Requests, NEW h \in Handler, Answer(h)
  PROVE  req' \in Requests /\ Others(h) /\ KnownBy(h)'
<1>1. req' \in Requests /\ Others(h) /\ req'[h] = Idle
  BY AnswerFacts
<1>2. QED BY <1>1 DEF KnownBy, At, Fn, Owners, Idle, Starting, NeedsCtr, AtWork

LEMMA GotoKnown ==
  ASSUME req \in Requests, NEW h \in Handler, KnownBy(h), NEW pc \in Pc, Goto(h, pc), ~At(h, "idle"),
         UNCHANGED made, pc \in AtWork => req[h].op \in {"create", "update", "delete"},
         pc \in {"wipe", "deploy"} => req[h].op # "delete",
         pc \in Starting => Owners(h), pc \in NeedsCtr => req[h].pc \in NeedsCtr
  PROVE  req' \in Requests /\ Others(h) /\ KnownBy(h)'
BY GotoFacts DEF KnownBy, At, Fn, Owners, Kept

LEMMA CallKnown ==
  ASSUME req \in Requests, NEW h \in Handler, KnownBy(h), CallEntry(h), UNCHANGED made, ~At(h, "idle"),
         made[pool[Fn(h)]].port \in Port
  PROVE  req' \in Requests /\ Others(h) /\ KnownBy(h)'
BY CallFacts DEF KnownBy, At, Fn, Owners, Kept, Starting, NeedsCtr, AtWork

Rest == /\ DockerTypeOK
        /\ owner \in [Port -> Function \cup {NoResource}]
        /\ store \in [Function -> Recorded]
        /\ code \in [Function -> Deployed]
        /\ made \in [Container -> Made \cup {Unmade}]
        /\ pool \in [Function -> Container \cup {None}]
        /\ startup \in [Function -> Entry \cup {None}]
        /\ events \in 0 .. MaxEvents
        /\ phase \in {"up", "closing", "down"}
        /\ spoiled \in [Function -> SUBSET {"overlap", "loose"}]
PoolMade == \A f \in Function : pool[f] # None => made[pool[f]] \in Made

LEMMA TypeSplit == TypeOK <=> Rest /\ req \in Requests
BY DEF TypeOK, Rest, Requests

LEMMA StepInductive ==
  ASSUME TypeOK, Known, NEW h \in Handler, Step(h)
  PROVE  /\ Rest' /\ PoolMade' /\ req' \in Requests /\ Others(h) /\ KnownBy(h)'
         /\ \A c \in Container : made[c] \in Made => made'[c] \in Made
<1> USE LambdaAssumption
<1> DEFINE Local == /\ req' \in Requests /\ Others(h) /\ KnownBy(h)'
                    /\ \A c \in Container : made[c] \in Made => made'[c] \in Made
<1>0. Rest /\ PoolMade /\ req \in Requests /\ KnownBy(h) /\ req[h] \in Request
  BY TypeSplit DEF Known, PoolMade, Requests
<1>p. \A f \in Function : pool[f] # None => made[pool[f]].port \in Port
  BY <1>0 DEF PoolMade, Made
<1> DEFINE Same == UNCHANGED <<containers, made, pool>>
<1>1. ASSUME GetFunction(h) PROVE Rest' /\ PoolMade' /\ Local
  <2>0. req[h].op \in {"create", "delete", "update", "invoke"}
    BY <1>0, <1>1 DEF GetFunction, KnownBy, At, Request
  <2>c. ASSUME Answer(h) PROVE Local
    BY <1>0, <1>1, <2>c, AnswerKnown DEF GetFunction
  <2>d. ASSUME Goto(h, "deploy") /\ req[h].op = "create" PROVE Local
    BY <1>0, <1>1, <2>d, PcFacts, GotoKnown DEF GetFunction, At, Owners, Starting, NeedsCtr, AtWork, KnownBy, Fn
  <2>e. ASSUME Goto(h, "take") /\ req[h].op = "delete" PROVE Local
    BY <1>0, <1>1, <2>e, PcFacts, GotoKnown DEF GetFunction, At, Owners, Starting, NeedsCtr, AtWork, KnownBy, Fn
  <2>f. ASSUME Goto(h, "wipe") /\ req[h].op = "update" PROVE Local
    BY <1>0, <1>1, <2>f, PcFacts, GotoKnown DEF GetFunction, At, Owners, Starting, NeedsCtr, AtWork, KnownBy, Fn
  <2>g. ASSUME Goto(h, "limit") PROVE Local
    BY <1>0, <1>1, <2>g, PcFacts, GotoKnown DEF GetFunction, At, Owners, Starting, NeedsCtr, AtWork, KnownBy, Fn
  <2>1. Local
    BY <1>1, <2>0, <2>c, <2>d, <2>e, <2>f, <2>g DEF GetFunction
  <2>2. Rest' /\ PoolMade'
    BY <1>0, <1>1 DEF GetFunction, Rest, PoolMade, DockerTypeOK, ContainerState, Recorded, Deployed, None
  <2>3. QED BY <2>1, <2>2
<1>2. ASSUME CheckLimit(h) PROVE Rest' /\ PoolMade' /\ Local
  <2>1. Local
    BY <1>0, <1>p, <1>2, PcFacts, GotoKnown, AnswerKnown DEF CheckLimit, At, Owners, Starting, NeedsCtr, AtWork, KnownBy, Fn
  <2>2. Rest' /\ PoolMade'
    BY <1>0, <1>2 DEF CheckLimit, Rest, PoolMade, DockerTypeOK, ContainerState, Recorded, Deployed, None
  <2>3. QED BY <2>1, <2>2
<1>3. ASSUME EnsureContainer(h) PROVE Rest' /\ PoolMade' /\ Local
  <2>0. Fn(h) \in Function /\ ~At(h, "idle") /\ UNCHANGED made
    BY <1>0, <1>3 DEF EnsureContainer, KnownBy, At
  <2>a. ASSUME CallEntry(h) /\ pool[Fn(h)] # None PROVE Local
    BY <1>0, <1>p, <2>0, <2>a, CallKnown
  <2>b. ASSUME NEW e \in Entry, req' = [req EXCEPT ![h].pc = "lock", ![h].entry = e] PROVE Local
    BY <1>0, <2>0, <2>b, WaitFacts DEF Kept, At, Owners, Starting, NeedsCtr, AtWork, KnownBy, Fn
  <2>1. Local
    BY <1>0, <1>3, <2>0, <2>a, <2>b DEF EnsureContainer, Rest, None
  <2>2. Rest' /\ PoolMade'
    BY <1>0, <1>3 DEF EnsureContainer, Rest, PoolMade, DockerTypeOK, ContainerState, Recorded, Deployed, None, Fn, KnownBy, At
  <2>3. QED BY <2>1, <2>2
<1>4. ASSUME LockStartup(h) PROVE Rest' /\ PoolMade' /\ Local
  <2>1. Local
    BY <1>0, <1>p, <1>4, PcFacts, CallKnown, GotoKnown DEF LockStartup, At, Owners, Starting, NeedsCtr, AtWork, KnownBy, Fn, Rest, None
  <2>2. Rest' /\ PoolMade'
    BY <1>0, <1>4 DEF LockStartup, Rest, PoolMade, DockerTypeOK, ContainerState, Recorded, Deployed, None
  <2>3. QED BY <2>1, <2>2
<1>5. ASSUME AllocatePort(h) PROVE Rest' /\ PoolMade' /\ Local
  <2>1. Local
    BY <1>0, <1>p, <1>5, PcFacts, PortFacts, AnswerKnown DEF AllocatePort, At, Owners, Starting, NeedsCtr, AtWork, KnownBy, Fn, Kept, GiveUp
  <2>2. Rest' /\ PoolMade'
    BY <1>0, <1>5 DEF AllocatePort, Rest, PoolMade, DockerTypeOK, ContainerState, Recorded, Deployed, None, Grant, GiveUp, Fn, KnownBy, At
  <2>3. QED BY <2>1, <2>2
<1>6. ASSUME Create(h) PROVE Rest' /\ PoolMade' /\ Local
  <2>0. Fn(h) \in Function /\ ~At(h, "idle") /\ req[h].port \in Port
    BY <1>0, <1>6 DEF Create, KnownBy, At, Owners, Starting
  <2>a. ASSUME Answer(h) /\ UNCHANGED made PROVE Local
    BY <1>0, <2>a, AnswerKnown
  <2>b. ASSUME NEW c \in Container, req' = [req EXCEPT ![h].pc = "start", ![h].ctr = c],
               made' = [made EXCEPT ![c] = [fn |-> Fn(h), port |-> req[h].port, code |-> code[Fn(h)]]]
        PROVE  Local
    <3>1. [fn |-> Fn(h), port |-> req[h].port, code |-> code[Fn(h)]] \in Made
      BY <1>0, <2>0 DEF Rest, Made
    <3>2. made'[c] \in Made /\ \A d \in Container : made[d] \in Made => made'[d] \in Made
      BY <1>0, <2>b, <3>1 DEF Rest
    <3>3. Kept(h) /\ req'[h].pc = "start" /\ req'[h].ctr = c /\ req'[h].port = req[h].port
      BY <1>0, <2>b, CtrFacts, PcFacts
    <3>4. QED BY <1>0, <2>0, <3>2, <3>3 DEF Kept, At, Owners, Starting, NeedsCtr, AtWork, KnownBy, Fn
  <2>1. Local
    BY <1>6, <2>a, <2>b DEF Create, GiveUp
  <2>2. Rest' /\ PoolMade'
    BY <1>0, <1>6 DEF Create, Rest, PoolMade, DockerTypeOK, ContainerState, Recorded, Deployed, None, GiveUp, Release, CreateContainer, SetState, Fn, KnownBy, At, Made, Owners, Starting
  <2>3. QED BY <2>1, <2>2
<1>7. ASSUME Start(h) PROVE Rest' /\ PoolMade' /\ Local
  <2>1. Local
    BY <1>0, <1>p, <1>7, PcFacts, GotoKnown, AnswerKnown DEF Start, At, Owners, Starting, NeedsCtr, AtWork, KnownBy, Fn, GiveUp
  <2>2. Rest' /\ PoolMade'
    BY <1>0, <1>7 DEF Start, Rest, PoolMade, DockerTypeOK, ContainerState, Recorded, Deployed, None, GiveUp, Release, Mishap, StartContainer, SetState, Fails, Fn, KnownBy, At, NeedsCtr, Starting
  <2>3. QED BY <2>1, <2>2
<1>8. ASSUME WaitRIEHealthy(h) PROVE Rest' /\ PoolMade' /\ Local
  <2>1. Local
    BY <1>0, <1>p, <1>8, PcFacts, GotoKnown, AnswerKnown DEF WaitRIEHealthy, At, Owners, Starting, NeedsCtr, AtWork, KnownBy, Fn
  <2>2. Rest' /\ PoolMade'
    BY <1>0, <1>8 DEF WaitRIEHealthy, Rest, PoolMade, DockerTypeOK, ContainerState, Recorded, Deployed, None
  <2>3. QED BY <2>1, <2>2
<1>9. ASSUME UnhealthyStop(h) PROVE Rest' /\ PoolMade' /\ Local
  <2>1. Local
    BY <1>0, <1>p, <1>9, PcFacts, GotoKnown, AnswerKnown DEF UnhealthyStop, At, Owners, Starting, NeedsCtr, AtWork, KnownBy, Fn
  <2>2. Rest' /\ PoolMade'
    BY <1>0, <1>9 DEF UnhealthyStop, Rest, PoolMade, DockerTypeOK, ContainerState, Recorded, Deployed, None, StopContainer, SetState, Fails
  <2>3. QED BY <2>1, <2>2
<1>10. ASSUME UnhealthyRemove(h) PROVE Rest' /\ PoolMade' /\ Local
  <2>1. Local
    BY <1>0, <1>p, <1>10, PcFacts, GotoKnown, AnswerKnown DEF UnhealthyRemove, At, Owners, Starting, NeedsCtr, AtWork, KnownBy, Fn, GiveUp
  <2>a. Fn(h) \in Function
    BY <1>0, <1>10 DEF UnhealthyRemove, KnownBy, At
  <2>b. DockerTypeOK' /\ spoiled' \in [Function -> SUBSET {"overlap", "loose"}]
    BY <1>0, <1>10, <2>a DEF UnhealthyRemove, Rest, DockerTypeOK, ContainerState, RemoveOrLose,
       RemoveContainer, SetState, Fails, Mishap
  <2>2. Rest' /\ PoolMade'
    BY <1>0, <1>10, <2>a, <2>b DEF UnhealthyRemove, Rest, PoolMade, GiveUp, Release
  <2>3. QED BY <2>1, <2>2
<1>11. ASSUME RegisterContainer(h) PROVE Rest' /\ PoolMade' /\ Local
  <2>1. Local
    BY <1>0, <1>p, <1>11, PcFacts, RegisterFacts DEF RegisterContainer, At, Owners, Starting, NeedsCtr, AtWork, KnownBy, Fn, Kept
  <2>2. Rest' /\ PoolMade'
    BY <1>0, <1>11 DEF RegisterContainer, Rest, PoolMade, DockerTypeOK, ContainerState, Recorded, Deployed, None, Register, Fn, KnownBy, At, NeedsCtr, Starting
  <2>3. QED BY <2>1, <2>2
<1>12. ASSUME CallRIE(h) PROVE Rest' /\ PoolMade' /\ Local
  <2>1. Local
    BY <1>0, <1>p, <1>12, PcFacts, GotoKnown, AnswerKnown DEF CallRIE, At, Owners, Starting, NeedsCtr, AtWork, KnownBy, Fn
  <2>2. Rest' /\ PoolMade'
    BY <1>0, <1>12 DEF CallRIE, Rest, PoolMade, DockerTypeOK, ContainerState, Recorded, Deployed, None
  <2>3. QED BY <2>1, <2>2
<1>13. ASSUME Wipe(h) PROVE Rest' /\ PoolMade' /\ Local
  <2>1. Local
    BY <1>0, <1>p, <1>13, PcFacts, GotoKnown, AnswerKnown DEF Wipe, At, Owners, Starting, NeedsCtr, AtWork, KnownBy, Fn
  <2>2. Rest' /\ PoolMade'
    BY <1>0, <1>13 DEF Wipe, Rest, PoolMade, DockerTypeOK, ContainerState, Recorded, Deployed, None
  <2>3. QED BY <2>1, <2>2
<1>14. ASSUME DeployZipFile(h) PROVE Rest' /\ PoolMade' /\ Local
  <2>1. Local
    BY <1>0, <1>p, <1>14, PcFacts, GotoKnown, AnswerKnown DEF DeployZipFile, At, Owners, Starting, NeedsCtr, AtWork, KnownBy, Fn
  <2>2. Rest' /\ PoolMade'
    BY <1>0, <1>14 DEF DeployZipFile, Rest, PoolMade, DockerTypeOK, ContainerState, Recorded, Deployed, None, Fn, KnownBy, At, AtWork
  <2>3. QED BY <2>1, <2>2
<1>15. ASSUME TakeEntry(h) PROVE Rest' /\ PoolMade' /\ Local
  <2>0. Fn(h) \in Function /\ ~At(h, "idle") /\ UNCHANGED made
    BY <1>0, <1>15 DEF TakeEntry, KnownBy, At
  <2>a. ASSUME Goto(h, "commit") PROVE Local
    BY <1>0, <1>15, <2>0, <2>a, PcFacts, GotoKnown DEF TakeEntry, At, Owners, Starting, NeedsCtr, AtWork, KnownBy, Fn
  <2>b. ASSUME pool[Fn(h)] # None /\ req' = [req EXCEPT ![h].pc = "stop", ![h].ctr = pool[Fn(h)]] PROVE Local
    <3>1. pool[Fn(h)] \in Container /\ made[pool[Fn(h)]] \in Made
      BY <1>0, <2>0, <2>b DEF Rest, PoolMade
    <3>2. Kept(h) /\ req'[h].pc = "stop" /\ req'[h].ctr = pool[Fn(h)]
      BY <1>0, <2>b, <3>1, CtrFacts, PcFacts
    <3>3. QED BY <1>0, <1>15, <2>0, <3>1, <3>2 DEF TakeEntry, Kept, At, Owners, Starting, NeedsCtr, AtWork, KnownBy, Fn
  <2>1. Local
    BY <1>15, <2>a, <2>b DEF TakeEntry
  <2>2. Rest' /\ PoolMade'
    BY <1>0, <1>15 DEF TakeEntry, Rest, PoolMade, DockerTypeOK, ContainerState, Recorded, Deployed, None, Release, Register, Fn, KnownBy, At
  <2>3. QED BY <2>1, <2>2
<1>16. ASSUME StopTaken(h) PROVE Rest' /\ PoolMade' /\ Local
  <2>1. Local
    BY <1>0, <1>p, <1>16, PcFacts, GotoKnown, AnswerKnown DEF StopTaken, At, Owners, Starting, NeedsCtr, AtWork, KnownBy, Fn
  <2>2. Rest' /\ PoolMade'
    BY <1>0, <1>16 DEF StopTaken, Rest, PoolMade, DockerTypeOK, ContainerState, Recorded, Deployed, None, StopContainer, SetState, Fails
  <2>3. QED BY <2>1, <2>2
<1>17. ASSUME RemoveTaken(h) PROVE Rest' /\ PoolMade' /\ Local
  <2>1. Local
    BY <1>0, <1>p, <1>17, PcFacts, CtrFacts DEF RemoveTaken, At, Owners, Starting, NeedsCtr, AtWork, KnownBy, Fn, Kept
  <2>2. Rest' /\ PoolMade'
    BY <1>0, <1>17 DEF RemoveTaken, Rest, PoolMade, DockerTypeOK, ContainerState, Recorded, Deployed, None, RemoveOrLose, RemoveContainer, SetState, Fails, Mishap, Fn, KnownBy, At
  <2>3. QED BY <2>1, <2>2
<1>18. ASSUME CommitRecord(h) PROVE Rest' /\ PoolMade' /\ Local
  <2>1. Local
    BY <1>0, <1>p, <1>18, PcFacts, GotoKnown, AnswerKnown DEF CommitRecord, At, Owners, Starting, NeedsCtr, AtWork, KnownBy, Fn
  <2>2. Rest' /\ PoolMade'
    BY <1>0, <1>18 DEF CommitRecord, Rest, PoolMade, DockerTypeOK, ContainerState, Recorded, Deployed, None, Fn, KnownBy, At, AtWork
  <2>3. QED BY <2>1, <2>2
<1>19. ASSUME RemoveCode(h) PROVE Rest' /\ PoolMade' /\ Local
  <2>1. Local
    BY <1>0, <1>p, <1>19, PcFacts, GotoKnown, AnswerKnown DEF RemoveCode, At, Owners, Starting, NeedsCtr, AtWork, KnownBy, Fn
  <2>2. Rest' /\ PoolMade'
    BY <1>0, <1>19 DEF RemoveCode, Rest, PoolMade, DockerTypeOK, ContainerState, Recorded, Deployed, None
  <2>3. QED BY <2>1, <2>2
<1>20. ASSUME NEW op \in Ops, NEW f \in Function,
              NEW v \in IF op \in {"create", "update"} THEN Version ELSE {"none"}, Begin(h, op, f, v)
       PROVE  Rest' /\ PoolMade' /\ Local
  <2>0. v \in Version \cup {"none"}
    OBVIOUS
  <2>a. req'[h].op = op /\ req'[h].version = v
    BY <1>0, <1>20, <2>0, BeginFacts
  <2>f. op # "none" /\ UNCHANGED made
    BY <1>20 DEF Begin
  <2>b. req'[h].op = op /\ req'[h].version = v /\ op # "none" /\ UNCHANGED made
    BY <2>a, <2>f
  <2>c. op \in {"create", "update"} => v \in Version
    OBVIOUS
  <2>d. req' \in Requests /\ Others(h) /\ req'[h].pc = "get" /\ req'[h].fn = f
    BY <1>0, <1>20, <2>0, BeginFacts
  <2>e. KnownBy(h)'
    BY <2>b, <2>c, <2>d DEF KnownBy, At, Fn, Owners, Starting, NeedsCtr, AtWork
  <2>1. Local
    BY <2>b, <2>d, <2>e
  <2>2. Rest' /\ PoolMade'
    BY <1>0, <1>20 DEF Begin, Event, Mishap, Rest, PoolMade, DockerTypeOK, ContainerState, Recorded, Deployed, None
  <2>3. QED BY <2>1, <2>2
<1>99. QED
  BY <1>1, <1>2, <1>3, <1>4, <1>5, <1>6, <1>7, <1>8, <1>9, <1>10, <1>11, <1>12, <1>13, <1>14, <1>15, <1>16, <1>17, <1>18, <1>19, <1>20 DEF Step

LEMMA MishapTyped ==
  ASSUME NEW f, NEW why \in {"overlap", "loose"}, spoiled \in [Function -> SUBSET {"overlap", "loose"}],
         Mishap(f, why)
  PROVE  spoiled' \in [Function -> SUBSET {"overlap", "loose"}]
BY DEF Mishap

LEMMA RemovalTyped ==
  ASSUME Rest, NEW c \in Container, NEW f, RemoveOrLose(c, f)
  PROVE  DockerTypeOK' /\ spoiled' \in [Function -> SUBSET {"overlap", "loose"}]
<1>1. DockerTypeOK'
  BY DEF RemoveOrLose, Rest, DockerTypeOK, ContainerState, RemoveContainer, SetState, Fails
<1>2. spoiled' \in [Function -> SUBSET {"overlap", "loose"}]
  BY MishapTyped DEF RemoveOrLose, Rest
<1>3. QED BY <1>1, <1>2

LEMMA TypeInductive ==
  ASSUME TypeOK, Known, [Next]_vars
  PROVE  TypeOK' /\ Known'
<1> USE LambdaAssumption
<1>0. Rest /\ PoolMade /\ req \in Requests
  BY TypeSplit DEF Known, PoolMade
<1>1. ASSUME NEW h \in Handler, Step(h) PROVE TypeOK' /\ Known'
  <2>1. /\ Rest' /\ PoolMade' /\ req' \in Requests /\ Others(h) /\ KnownBy(h)'
        /\ \A c \in Container : made[c] \in Made => made'[c] \in Made
    BY <1>1, StepInductive
  <2>2. QED BY <2>1, TypeSplit, KnownKept DEF TypeOK, Rest, Requests, PoolMade
<1> DEFINE Same == UNCHANGED <<made, req>>
<1>2. ASSUME Rest', PoolMade', Same PROVE TypeOK' /\ Known'
  BY <1>0, <1>2 DEF TypeOK, Rest, Requests, Known, KnownBy, PoolMade, At, Fn, Owners
<1> USE DEF Rest, PoolMade, DockerTypeOK, ContainerState, None
<1>3. CASE StartShutdown BY <1>0, <1>2, <1>3 DEF StartShutdown, Event
<1>4. CASE EndShutdown BY <1>0, <1>2, <1>4 DEF EndShutdown, Deployed
<1>5. ASSUME NEW f \in Function, ShutdownEntry(f) PROVE TypeOK' /\ Known'
  <2>1. DockerTypeOK' /\ spoiled' \in [Function -> SUBSET {"overlap", "loose"}]
    BY <1>0, <1>5, RemovalTyped DEF ShutdownEntry
  <2>2. Rest' /\ PoolMade' /\ UNCHANGED <<made, req>>
    BY <1>0, <1>5, <2>1 DEF ShutdownEntry, Release, Register
  <2>3. QED BY <1>2, <2>2
<1>6. ASSUME NEW c \in Container, Crash(c) PROVE TypeOK' /\ Known'
  BY <1>0, <1>2, <1>6 DEF Crash, Event, Dies, SetState
<1>7. ASSUME NEW c \in Container, TakenAway(c) PROVE TypeOK' /\ Known'
  <2>1. spoiled' \in [Function -> SUBSET {"overlap", "loose"}]
    BY <1>0, <1>7, MishapTyped DEF TakenAway
  <2>2. Rest' /\ PoolMade' /\ UNCHANGED <<made, req>>
    BY <1>0, <1>7, <2>1 DEF TakenAway, Event, RemovedByHand, SetState
  <2>3. QED BY <1>2, <2>2
<1>8. CASE UNCHANGED vars BY <1>0, <1>2, <1>8 DEF vars
<1>9. QED BY <1>1, <1>3, <1>4, <1>5, <1>6, <1>7, <1>8 DEF Next

(***************************************************************************)
(* The ports.  What is known of a container stays as it was made, so the    *)
(* owners of ports change in five ways only.                                *)
(***************************************************************************)
Linked == /\ \A f \in Function : pool[f] # None => containers[pool[f]] # "none"
          /\ \A h \in Handler : req[h].pc \in Starting \ {"create"} =>
               containers[req[h].ctr] # "none" /\ made[req[h].ctr].port = req[h].port

IInv == TypeOK /\ Known /\ Linked /\ OnePortOwner

MadeForGood == \A c \in Container : containers[c] # "none" =>
                 containers'[c] # "none" /\ made'[c] = made[c]

SameOwner(h) == Owners(h)' => Owners(h) /\ UNCHANGED <<req[h].port, req[h].fn>>

Stays      == UNCHANGED <<owner, pool>> /\ \A h \in Handler : SameOwner(h)
Takes(h)   == /\ Grant(Fn(h), req'[h].port) /\ UNCHANGED pool /\ Others(h)
              /\ Fn(h) \in Function /\ req'[h].port \in Port /\ UNCHANGED req[h].fn
Returns(h) == /\ Owners(h) /\ ~Owners(h)' /\ Release(req[h].port)
              /\ UNCHANGED pool /\ Others(h)
Passes(h)  == /\ At(h, "register") /\ ~Owners(h)' /\ Others(h) /\ UNCHANGED owner
              /\ Register(Fn(h), req[h].ctr) /\ made[req[h].ctr].port = req[h].port
Leaves(f)  == /\ pool[f] # None /\ Release(made[pool[f]].port) /\ Register(f, None)
              /\ \A h \in Handler : SameOwner(h)

LEMMA PortsKept ==
  ASSUME IInv, TypeOK', MadeForGood,
         \/ Stays
         \/ \E h \in Handler : Takes(h) \/ Returns(h) \/ Passes(h)
         \/ \E f \in Function : Leaves(f)
  PROVE  OnePortOwner'
<1> USE LambdaAssumption
<1>0. /\ pool \in [Function -> Container \cup {None}] /\ owner \in [Port -> Function \cup {NoResource}]
      /\ \A f \in Function : pool[f] # None => /\ pool[f] \in Container /\ made[pool[f]].port \in Port
                                              /\ made'[pool[f]] = made[pool[f]]
      /\ \A h \in Handler : Owners(h) => req[h].port \in Port /\ Fn(h) \in Function
  BY DEF IInv, TypeOK, Known, KnownBy, Linked, Made, MadeForGood, Owners, At, Starting
<1>i. OnePortOwner
  BY DEF IInv
<1>1. CASE Stays
  BY <1>0, <1>i, <1>1 DEF Stays, SameOwner, OnePortOwner, Fn
<1>2. ASSUME NEW h \in Handler, Takes(h) PROVE OnePortOwner'
  <2> DEFINE p == req'[h].port
  <2>1. /\ p \in Port /\ owner[p] = NoResource /\ owner' = [owner EXCEPT ![p] = Fn(h)] /\ pool' = pool
        /\ Fn(h) \in Function /\ req'[h].fn = Fn(h)
        /\ \A g \in Handler \ {h} : req'[g] = req[g]
    BY <1>2 DEF Takes, Grant, Others, Fn
  <2>2. \A f \in Function : pool[f] # None => made[pool[f]].port # p
    BY <1>i, <2>1 DEF OnePortOwner
  <2>3. \A g \in Handler : Owners(g) => req[g].port # p
    BY <1>0, <1>i, <2>1 DEF OnePortOwner
  <2>4. QED BY <1>0, <1>i, <2>1, <2>2, <2>3 DEF OnePortOwner, Fn, Owners
<1>3. ASSUME NEW h \in Handler, Returns(h) PROVE OnePortOwner'
  <2>1. /\ \A g \in Handler : Owners(g)' =>
             g # h /\ Owners(g) /\ req'[g].port = req[g].port /\ req'[g].fn = req[g].fn
        /\ pool' = pool /\ owner' = [owner EXCEPT ![req[h].port] = NoResource] /\ Owners(h)
    BY <1>3 DEF Returns, Release, Others, Owners
  <2>2. \A f \in Function : pool[f] # None => made[pool[f]].port # req[h].port
    BY <1>i, <2>1 DEF OnePortOwner
  <2>3. \A g \in Handler : g # h /\ Owners(g) => req[g].port # req[h].port
    BY <1>i, <2>1 DEF OnePortOwner
  <2>4. QED BY <1>0, <1>i, <2>1, <2>2, <2>3 DEF OnePortOwner, Fn
<1>4. ASSUME NEW h \in Handler, Passes(h) PROVE OnePortOwner'
  <2>1. pool' = [pool EXCEPT ![Fn(h)] = req[h].ctr] /\ made[req[h].ctr].port = req[h].port
    BY <1>4 DEF Passes, Register
  <2>2. made'[req[h].ctr] = made[req[h].ctr] /\ Owners(h)
    BY <1>4 DEF Passes, IInv, Linked, MadeForGood, Known, KnownBy, NeedsCtr, Starting, At, Owners
  <2>3. /\ \A g \in Handler : Owners(g)' =>
             g # h /\ Owners(g) /\ req'[g].port = req[g].port /\ req'[g].fn = req[g].fn
        /\ UNCHANGED owner
    BY <1>4 DEF Passes, Others, Owners
  <2>4. QED BY <1>0, <1>i, <2>1, <2>2, <2>3 DEF OnePortOwner, Fn
<1>5. ASSUME NEW f \in Function, Leaves(f) PROVE OnePortOwner'
  BY <1>0, <1>i, <1>5 DEF Leaves, Release, Register, SameOwner, OnePortOwner, Fn
<1>6. QED BY <1>1, <1>2, <1>3, <1>4, <1>5

(* Where a step leaves h: it owns a port after the step only if it owned the
   same one before, for the same container.                                 *)
Follows(h) == /\ Owners(h)' => /\ Owners(h) /\ req'[h].port = req[h].port /\ req'[h].fn = req[h].fn
                               /\ req'[h].ctr = req[h].ctr /\ req[h].pc # "create"

LEMMA GotoFollows ==
  ASSUME req \in Requests, NEW h \in Handler, NEW pc \in Pc, Goto(h, pc),
         pc \in Starting => Owners(h) /\ req[h].pc # "create"
  PROVE  Others(h) /\ Follows(h)
BY GotoFacts DEF Follows, Kept, Owners

LEMMA AnswerFollows ==
  ASSUME req \in Requests, NEW h \in Handler, Answer(h)
  PROVE  Others(h) /\ Follows(h) /\ ~Owners(h)'
BY AnswerFacts DEF Follows, Owners, Starting, Idle

LEMMA LeavesStarting ==
  ASSUME NEW h \in Handler, Kept(h), req'[h].pc \notin Starting
  PROVE  Others(h) /\ Follows(h)
BY DEF Kept, Follows, Owners

(* What Docker does leaves no trace in what a container was made with.      *)
LEMMA DockerKeeps ==
  ASSUME Rest, NEW c \in Container, NEW f,
         \/ \E ok \in BOOLEAN : StopContainer(c, ok) \/ RemoveContainer(c, ok) \/ StartContainer(c, ok)
         \/ RemoveOrLose(c, f) \/ Dies(c) \/ RemovedByHand(c)
  PROVE  \A b \in Container : containers[b] # "none" => containers'[b] # "none"
BY DEF Rest, DockerTypeOK, StopContainer, RemoveContainer, StartContainer, RemoveOrLose, Dies, RemovedByHand,
   SetState, Fails, Exists

Fade == \A c \in Container : containers[c] # "none" => containers'[c] # "none"

LEMMA LinkedKept ==
  ASSUME IInv, MadeForGood, NEW h \in Handler, Others(h),
         req'[h].pc \in Starting \ {"create"} =>
           containers'[req'[h].ctr] # "none" /\ made'[req'[h].ctr].port = req'[h].port,
         \A f \in Function : pool'[f] # None =>
           \/ pool'[f] = pool[f]
           \/ pool'[f] \in Container /\ containers'[pool'[f]] # "none"
  PROVE  Linked'
<1>1. \A f \in Function : pool[f] # None => pool[f] \in Container /\ containers[pool[f]] # "none"
  BY DEF IInv, TypeOK, Linked
<1>2. \A g \in Handler : req[g].pc \in Starting \ {"create"} =>
        req[g].ctr \in Container /\ containers[req[g].ctr] # "none" /\ made[req[g].ctr].port = req[g].port
  BY DEF IInv, Known, KnownBy, Linked, NeedsCtr
<1>3. QED BY <1>1, <1>2 DEF Linked, MadeForGood, Others

LEMMA Quiet ==
  ASSUME IInv, TypeOK', NEW h \in Handler, Others(h), Follows(h), Fade, UNCHANGED <<owner, pool, made>>
  PROVE  Linked' /\ OnePortOwner'
<1>1. MadeForGood
  BY DEF MadeForGood, Fade
<1>2. \A g \in Handler : SameOwner(g)
  BY DEF SameOwner, Others, Follows, Owners
<1>3. OnePortOwner'
  BY <1>1, <1>2, PortsKept DEF Stays
<1>4. req'[h].pc \in Starting \ {"create"} =>
           containers'[req'[h].ctr] # "none" /\ made'[req'[h].ctr].port = req'[h].port
  BY <1>1 DEF Follows, IInv, Linked, Known, KnownBy, NeedsCtr, MadeForGood, Owners
<1>5. Linked'
  BY <1>1, <1>4, LinkedKept
<1>6. QED BY <1>3, <1>5

LEMMA StepPorts ==
  ASSUME IInv, TypeOK', NEW h \in Handler, Step(h)
  PROVE  Linked' /\ OnePortOwner'
<1>0. Rest /\ PoolMade /\ req \in Requests /\ KnownBy(h) /\ Linked
  BY TypeSplit DEF IInv, Known, PoolMade
<1> DEFINE Still == Others(h) /\ Follows(h) /\ Fade /\ UNCHANGED <<owner, pool, made>>
           Goal == Linked' /\ OnePortOwner'
<1>q. ASSUME Still PROVE Goal
  BY <1>q, Quiet
<1> HIDE DEF Goal
<1>1. ASSUME CheckLimit(h) PROVE Goal
  <2>1. Others(h) /\ Follows(h)
    BY <1>0, <1>1, PcFacts, GotoFollows, AnswerFollows DEF CheckLimit, Starting, Owners, At
  <2>2. Fade /\ UNCHANGED <<owner, pool, made>>
    BY <1>0, <1>1 DEF CheckLimit, Fade
  <2>3. QED BY <2>1, <2>2, <1>q
<1>2. ASSUME WaitRIEHealthy(h) PROVE Goal
  <2>1. Others(h) /\ Follows(h)
    BY <1>0, <1>2, PcFacts, GotoFollows, AnswerFollows DEF WaitRIEHealthy, Starting, Owners, At
  <2>2. Fade /\ UNCHANGED <<owner, pool, made>>
    BY <1>0, <1>2 DEF WaitRIEHealthy, Fade
  <2>3. QED BY <2>1, <2>2, <1>q
<1>3. ASSUME UnhealthyStop(h) PROVE Goal
  <2>1. Others(h) /\ Follows(h)
    BY <1>0, <1>3, PcFacts, GotoFollows, AnswerFollows DEF UnhealthyStop, Starting, Owners, At
  <2>2. Fade /\ UNCHANGED <<owner, pool, made>>
    BY <1>0, <1>3, DockerKeeps DEF UnhealthyStop, Fade, KnownBy, NeedsCtr, Starting, At
  <2>3. QED BY <2>1, <2>2, <1>q
<1>4. ASSUME CallRIE(h) PROVE Goal
  <2>1. Others(h) /\ Follows(h)
    BY <1>0, <1>4, PcFacts, GotoFollows, AnswerFollows DEF CallRIE, Starting, Owners, At
  <2>2. Fade /\ UNCHANGED <<owner, pool, made>>
    BY <1>0, <1>4 DEF CallRIE, Fade
  <2>3. QED BY <2>1, <2>2, <1>q
<1>5. ASSUME Wipe(h) PROVE Goal
  <2>1. Others(h) /\ Follows(h)
    BY <1>0, <1>5, PcFacts, GotoFollows, AnswerFollows DEF Wipe, Starting, Owners, At
  <2>2. Fade /\ UNCHANGED <<owner, pool, made>>
    BY <1>0, <1>5 DEF Wipe, Fade
  <2>3. QED BY <2>1, <2>2, <1>q
<1>6. ASSUME DeployZipFile(h) PROVE Goal
  <2>1. Others(h) /\ Follows(h)
    BY <1>0, <1>6, PcFacts, GotoFollows, AnswerFollows DEF DeployZipFile, Starting, Owners, At
  <2>2. Fade /\ UNCHANGED <<owner, pool, made>>
    BY <1>0, <1>6 DEF DeployZipFile, Fade
  <2>3. QED BY <2>1, <2>2, <1>q
<1>7. ASSUME StopTaken(h) PROVE Goal
  <2>1. Others(h) /\ Follows(h)
    BY <1>0, <1>7, PcFacts, GotoFollows, AnswerFollows DEF StopTaken, Starting, Owners, At
  <2>2. Fade /\ UNCHANGED <<owner, pool, made>>
    BY <1>0, <1>7, DockerKeeps DEF StopTaken, Fade, KnownBy, NeedsCtr, Starting, At
  <2>3. QED BY <2>1, <2>2, <1>q
<1>8. ASSUME CommitRecord(h) PROVE Goal
  <2>1. Others(h) /\ Follows(h)
    BY <1>0, <1>8, PcFacts, GotoFollows, AnswerFollows DEF CommitRecord, Starting, Owners, At
  <2>2. Fade /\ UNCHANGED <<owner, pool, made>>
    BY <1>0, <1>8 DEF CommitRecord, Fade
  <2>3. QED BY <2>1, <2>2, <1>q
<1>9. ASSUME RemoveCode(h) PROVE Goal
  <2>1. Others(h) /\ Follows(h)
    BY <1>0, <1>9, PcFacts, GotoFollows, AnswerFollows DEF RemoveCode, Starting, Owners, At
  <2>2. Fade /\ UNCHANGED <<owner, pool, made>>
    BY <1>0, <1>9 DEF RemoveCode, Fade
  <2>3. QED BY <2>1, <2>2, <1>q
<1>10. ASSUME GetFunction(h) PROVE Goal
  <2>0. req[h].op \in {"create", "delete", "update", "invoke"}
    BY <1>0, <1>10 DEF GetFunction, KnownBy, At, Requests, Request
  <2>1. \/ Answer(h)
        \/ \E pc \in {"deploy", "take", "wipe", "limit"} : Goto(h, pc)
    BY <1>10, <2>0 DEF GetFunction
  <2>2. Others(h) /\ Follows(h)
    BY <1>0, <2>1, PcFacts, GotoFollows, AnswerFollows DEF Starting
  <2>3. Fade /\ UNCHANGED <<owner, pool, made>>
    BY <1>10 DEF GetFunction, Fade
  <2>4. QED BY <2>2, <2>3, <1>q
<1>11. ASSUME EnsureContainer(h) PROVE Goal
  <2>1. ASSUME CallEntry(h), pool[Fn(h)] # None PROVE Others(h) /\ Follows(h)
    BY <1>0, <1>11, <2>1, CallFacts, LeavesStarting DEF EnsureContainer, PoolMade, Made, Starting, KnownBy, At
  <2>2. ASSUME NEW e \in Entry, req' = [req EXCEPT ![h].pc = "lock", ![h].entry = e] PROVE Others(h) /\ Follows(h)
    BY <1>0, <2>2, WaitFacts, LeavesStarting DEF Starting
  <2>3. Others(h) /\ Follows(h)
    BY <1>0, <1>11, <2>1, <2>2 DEF EnsureContainer, Rest, KnownBy, At, None
  <2>4. Fade /\ UNCHANGED <<owner, pool, made>>
    BY <1>11 DEF EnsureContainer, Fade
  <2>5. QED BY <2>3, <2>4, <1>q
<1>12. ASSUME LockStartup(h) PROVE Goal
  <2>1. ASSUME CallEntry(h), pool[Fn(h)] # None PROVE Others(h) /\ Follows(h)
    BY <1>0, <1>12, <2>1, CallFacts, LeavesStarting DEF LockStartup, PoolMade, Made, Starting, KnownBy, At
  <2>2. Others(h) /\ Follows(h)
    BY <1>0, <1>12, <2>1, PcFacts, GotoFollows DEF LockStartup, Starting
  <2>3. Fade /\ UNCHANGED <<owner, pool, made>>
    BY <1>12 DEF LockStartup, Fade
  <2>4. QED BY <2>2, <2>3, <1>q
<1>13. ASSUME RemoveTaken(h) PROVE Goal
  <2>1. Kept(h) /\ req'[h].pc = "commit"
    BY <1>0, <1>13, PcFacts, CtrFacts DEF RemoveTaken
  <2>2. Others(h) /\ Follows(h)
    BY <2>1, LeavesStarting DEF Starting
  <2>3. Fade /\ UNCHANGED <<owner, pool, made>>
    BY <1>0, <1>13, DockerKeeps DEF RemoveTaken, Fade, KnownBy, NeedsCtr, Starting, At
  <2>4. QED BY <2>2, <2>3, <1>q
<1>14. ASSUME NEW op \in Ops, NEW f \in Function,
              NEW v \in IF op \in {"create", "update"} THEN Version ELSE {"none"}, Begin(h, op, f, v)
       PROVE  Goal
  <2>1. v \in Version \cup {"none"}
    OBVIOUS
  <2>2. Others(h) /\ req'[h].pc = "get"
    BY <1>0, <1>14, <2>1, BeginFacts
  <2>3. Follows(h)
    BY <2>2 DEF Follows, Owners, Starting
  <2>4. Fade /\ UNCHANGED <<owner, pool, made>>
    BY <1>14 DEF Begin, Fade
  <2>5. QED BY <2>2, <2>3, <2>4, <1>q
<1>30. ASSUME AllocatePort(h) PROVE Goal
  <2>0. MadeForGood /\ UNCHANGED <<containers, made, pool>>
    BY <1>30 DEF AllocatePort, MadeForGood
  <2>1. ASSUME GiveUp(h), UNCHANGED owner PROVE Goal
    BY <1>0, <2>0, <2>1, <1>q, AnswerFollows DEF GiveUp, Fade
  <2>2. ASSUME NEW p \in Port, Grant(Fn(h), p), req' = [req EXCEPT ![h].pc = "create", ![h].port = p] PROVE Goal
    <3>1. Kept(h) /\ req'[h].pc = "create" /\ req'[h].port = p /\ Fn(h) \in Function
      BY <1>0, <1>30, <2>2, PortFacts DEF AllocatePort, KnownBy, At
    <3>2. Takes(h)
      BY <1>30, <2>0, <2>2, <3>1 DEF Takes, Kept
    <3>3. OnePortOwner'
      BY <2>0, <3>2, PortsKept
    <3>4. Linked'
      BY <2>0, <3>1, LinkedKept DEF Kept
    <3>5. QED BY <3>3, <3>4 DEF Goal
  <2>3. QED BY <1>30, <2>1, <2>2 DEF AllocatePort
<1>g. ASSUME GiveUp(h), Release(req[h].port), Owners(h), Fade, UNCHANGED <<pool, made>> PROVE Goal
  <2>0. MadeForGood
    BY <1>g DEF MadeForGood, Fade
  <2>1. Others(h) /\ ~Owners(h)'
    BY <1>0, <1>g, AnswerFollows DEF GiveUp
  <2>2. Returns(h)
    BY <1>g, <2>1 DEF Returns
  <2>3. OnePortOwner'
    BY <2>0, <2>2, PortsKept
  <2>4. Linked'
    BY <1>g, <2>0, <2>1, LinkedKept DEF Owners
  <2>5. QED BY <2>3, <2>4 DEF Goal
<1>31. ASSUME Create(h) PROVE Goal
  <2>0. Owners(h) /\ Fn(h) \in Function
    BY <1>0, <1>31 DEF Create, KnownBy, At, Owners, Starting
  <2>1. ASSUME GiveUp(h), Release(req[h].port), UNCHANGED <<containers, made, pool>> PROVE Goal
    BY <1>g, <2>0, <2>1 DEF Fade
  <2>2. ASSUME NEW c \in Container, CreateContainer(c),
               made' = [made EXCEPT ![c] = [fn |-> Fn(h), port |-> req[h].port, code |-> code[Fn(h)]]],
               req' = [req EXCEPT ![h].pc = "start", ![h].ctr = c], UNCHANGED <<owner, pool>>
        PROVE  Goal
    <3>1. containers[c] = "none" /\ containers' = [containers EXCEPT ![c] = "created"]
      BY <2>2 DEF CreateContainer, SetState
    <3>2. MadeForGood /\ containers'[c] # "none" /\ made'[c].port = req[h].port
      BY <1>0, <2>2, <3>1 DEF MadeForGood, Rest, DockerTypeOK
    <3>3. Kept(h) /\ req'[h].pc = "start" /\ req'[h].ctr = c /\ req'[h].port = req[h].port
      BY <1>0, <2>2, CtrFacts, PcFacts
    <3>4. \A g \in Handler : SameOwner(g)
      BY <2>0, <3>3 DEF SameOwner, Kept, Others, Owners
    <3>5. OnePortOwner'
      BY <2>2, <3>2, <3>4, PortsKept DEF Stays
    <3>6. Linked'
      BY <2>2, <3>2, <3>3, LinkedKept DEF Kept
    <3>7. QED BY <3>5, <3>6 DEF Goal
  <2>3. QED BY <1>31, <2>1, <2>2 DEF Create
<1>32. ASSUME Start(h) PROVE Goal
  <2>0. Owners(h) /\ req[h].ctr \in Container /\ UNCHANGED <<pool, made>>
    BY <1>0, <1>32 DEF Start, KnownBy, At, Owners, Starting, NeedsCtr
  <2>1. Fade
    BY <1>0, <1>32, <2>0, DockerKeeps DEF Start, Fade
  <2>2. ASSUME GiveUp(h), Release(req[h].port) PROVE Goal
    BY <1>g, <2>0, <2>1, <2>2
  <2>3. ASSUME Goto(h, "health"), UNCHANGED owner PROVE Goal
    <3>1. Others(h) /\ Follows(h)
      BY <1>0, <1>32, <2>0, <2>3, PcFacts, GotoFollows DEF Start, At
    <3>2. QED BY <1>q, <2>0, <2>1, <2>3, <3>1
  <2>4. QED BY <1>32, <2>2, <2>3 DEF Start
<1>33. ASSUME UnhealthyRemove(h) PROVE Goal
  <2>0. Owners(h) /\ req[h].ctr \in Container /\ UNCHANGED <<pool, made>>
    BY <1>0, <1>33 DEF UnhealthyRemove, KnownBy, At, Owners, Starting, NeedsCtr
  <2>1. Fade
    BY <1>0, <1>33, <2>0, DockerKeeps DEF UnhealthyRemove, Fade
  <2>2. QED BY <1>g, <1>33, <2>0, <2>1 DEF UnhealthyRemove
<1>34. ASSUME RegisterContainer(h) PROVE Goal
  <2>0. /\ req[h].ctr \in Container /\ containers[req[h].ctr] # "none"
        /\ made[req[h].ctr].port = req[h].port /\ Fn(h) \in Function
    BY <1>0, <1>34 DEF RegisterContainer, KnownBy, At, Starting, NeedsCtr, Linked
  <2>1. Kept(h) /\ req'[h].pc = "call"
    BY <1>0, <1>34, RegisterFacts DEF RegisterContainer
  <2>2. MadeForGood
    BY <1>34 DEF RegisterContainer, MadeForGood
  <2>3. Passes(h)
    BY <1>34, <2>0, <2>1 DEF Passes, RegisterContainer, Kept, Owners, Starting
  <2>4. OnePortOwner'
    BY <2>2, <2>3, PortsKept
  <2>5. \A f \in Function : pool'[f] = pool[f] \/ pool'[f] = req[h].ctr
    BY <1>0, <2>3 DEF Passes, Register, Rest
  <2>6. Linked'
    BY <1>34, <2>0, <2>1, <2>2, <2>5, LinkedKept DEF RegisterContainer, Kept, Starting
  <2>7. QED BY <2>4, <2>6 DEF Goal
<1>35. ASSUME TakeEntry(h) PROVE Goal
  <2>0. /\ Fn(h) \in Function /\ At(h, "take") /\ MadeForGood /\ UNCHANGED <<containers, made>>
        /\ pool[Fn(h)] \in Container \cup {None}
    BY <1>0, <1>35 DEF TakeEntry, KnownBy, At, MadeForGood, Rest
  <2>1. ASSUME Goto(h, "commit"), UNCHANGED <<owner, pool>> PROVE Goal
    <3>1. Others(h) /\ Follows(h)
      BY <1>0, <2>1, PcFacts, GotoFollows DEF Starting
    <3>2. QED BY <1>q, <2>0, <2>1, <3>1 DEF Fade
  <2>2. ASSUME pool[Fn(h)] # None, Release(made[pool[Fn(h)]].port), Register(Fn(h), None),
               req' = [req EXCEPT ![h].pc = "stop", ![h].ctr = pool[Fn(h)]]
        PROVE  Goal
    <3>1. Kept(h) /\ req'[h].pc = "stop"
      BY <1>0, <2>0, <2>2, CtrFacts, PcFacts
    <3>2. Others(h) /\ Follows(h)
      BY <3>1, LeavesStarting DEF Starting
    <3>3. Leaves(Fn(h))
      BY <2>2, <3>2 DEF Leaves, SameOwner, Others, Follows, Owners
    <3>4. OnePortOwner'
      BY <2>0, <3>3, PortsKept
    <3>5. \A f \in Function : pool'[f] = pool[f] \/ pool'[f] = None
      BY <1>0, <2>2 DEF Register, Rest
    <3>6. Linked'
      BY <2>0, <3>1, <3>2, <3>5, LinkedKept DEF Starting
    <3>7. QED BY <3>4, <3>6 DEF Goal
  <2>3. QED BY <1>35, <2>1, <2>2 DEF TakeEntry
<1>99. QED
  BY <1>1, <1>2, <1>3, <1>4, <1>5, <1>6, <1>7, <1>8, <1>9, <1>10, <1>11, <1>12, <1>13, <1>14, <1>30, <1>31, <1>32, <1>33, <1>34, <1>35 DEF Step, Goal

LEMMA PortsInductive ==
  ASSUME IInv, [Next]_vars
  PROVE  IInv'
<1>1. TypeOK' /\ Known'
  BY TypeInductive DEF IInv
<1>2. Rest /\ Linked /\ PoolMade
  BY TypeSplit DEF IInv, Known, PoolMade
<1> DEFINE Goal == Linked' /\ OnePortOwner'
<1>q. ASSUME Fade, UNCHANGED <<owner, pool, made, req>> PROVE Goal
  <2>1. MadeForGood /\ Stays
    BY <1>q DEF Fade, MadeForGood, Stays, SameOwner, Owners
  <2>2. Linked'
    BY <1>q, <2>1 DEF IInv, Linked, MadeForGood, TypeOK, Known, KnownBy, NeedsCtr
  <2>3. QED BY <1>1, <2>1, <2>2, PortsKept
<1>3. ASSUME NEW h \in Handler, Step(h) PROVE Goal
  BY <1>1, <1>3, StepPorts
<1> HIDE DEF Goal
<1>4. ASSUME StartShutdown PROVE Goal
  BY <1>4, <1>q DEF StartShutdown, Fade
<1>5. ASSUME EndShutdown PROVE Goal
  BY <1>5, <1>q DEF EndShutdown, Fade
<1>6. ASSUME NEW f \in Function, ShutdownEntry(f) PROVE Goal
  <2>0. pool[f] \in Container /\ pool[f] # None
    BY <1>2, <1>6 DEF ShutdownEntry, Rest
  <2>1. Fade
    BY <1>2, <1>6, <2>0, DockerKeeps DEF ShutdownEntry, Fade
  <2>2. MadeForGood /\ UNCHANGED <<made, req>>
    BY <1>6, <2>1 DEF ShutdownEntry, MadeForGood, Fade
  <2>3. Leaves(f)
    BY <1>6, <2>0, <2>2 DEF Leaves, ShutdownEntry, SameOwner, Owners
  <2>4. OnePortOwner'
    BY <1>1, <2>2, <2>3, PortsKept
  <2>5. \A g \in Function : pool'[g] = pool[g] \/ pool'[g] = None
    BY <1>2, <2>3 DEF Leaves, Register, Rest
  <2>6. Linked'
    BY <2>2, <2>5 DEF IInv, Linked, MadeForGood, TypeOK, Known, KnownBy, NeedsCtr
  <2>7. QED BY <2>4, <2>6 DEF Goal
<1>7. ASSUME NEW c \in Container, Crash(c) PROVE Goal
  BY <1>2, <1>7, <1>q, DockerKeeps DEF Crash, Fade
<1>8. ASSUME NEW c \in Container, TakenAway(c) PROVE Goal
  BY <1>2, <1>8, <1>q, DockerKeeps DEF TakenAway, Fade
<1>9. ASSUME UNCHANGED vars PROVE Goal
  BY <1>9, <1>q DEF vars, Fade
<1>10. QED BY <1>1, <1>3, <1>4, <1>5, <1>6, <1>7, <1>8, <1>9 DEF Next, IInv, Goal

LEMMA InitInv == Init => IInv
<1> SUFFICES ASSUME Init PROVE IInv
  OBVIOUS
<1> USE LambdaAssumption DEF Init, PoolInit
<1>1. Idle \in Request
  BY DEF Idle, Request, Pc
<1>2. TypeOK
  BY <1>1 DEF TypeOK, DockerTypeOK, ContainerState, Recorded, Deployed, None
<1>3. Known /\ Linked /\ OnePortOwner
  BY DEF Known, KnownBy, Linked, OnePortOwner, Owners, Idle, At, Starting, NeedsCtr, AtWork, None
<1>4. QED BY <1>2, <1>3 DEF IInv

(* Every variable of the service keeps its type.                            *)
THEOREM LambdaTypeCorrect == Spec => []TypeOK
<1>1. IInv => TypeOK
  BY DEF IInv
<1>2. QED BY <1>1, InitInv, PortsInductive, PTL DEF Spec

(* A host port is never the port of two functions, or of two starts.        *)
THEOREM PortsOwnedOnce == Spec => []OnePortOwner
<1>1. IInv => OnePortOwner
  BY DEF IInv
<1>2. QED BY <1>1, InitInv, PortsInductive, PTL DEF Spec
-----------------------------------------------------------------------------
(***************************************************************************)
(* The pool of warm containers.                                            *)
(*                                                                         *)
(* A container could be lost in two ways: the last reference to it goes,   *)
(* or a pool entry is overwritten.  The second is what startup mutexes are *)
(* for, but a failed start takes the mutex out of the table and lets two   *)
(* invocations start at once (see invoke.go:157).  What saves the pool     *)
(* entry is the fixed name of the containers (OneName): Docker has room    *)
(* for one of a function at a time, so the second start finds none.        *)
(***************************************************************************)

Begun == Starting \ {"create"}

\* The container that a request is starting or taking down.
Ref(h) == /\ req[h].pc \in NeedsCtr => made[req[h].ctr].fn = Fn(h)
          /\ req[h].pc \notin NeedsCtr => req[h].ctr = None
          /\ req[h].ctr # None => containers[req[h].ctr] # "none"
          /\ req[h].pc \in Begun => Exists(req[h].ctr) \/ "loose" \in spoiled[Fn(h)]

\* No container is referred to twice.
RefsApart == /\ \A g, h \in Handler : req[g].ctr = req[h].ctr => g = h \/ req[h].ctr = None
             /\ \A f \in Function, h \in Handler : pool[f] = req[h].ctr => pool[f] = None

PoolNamed == \A f \in Function : pool[f] # None => made[pool[f]].fn = f

OneName == /\ \A c, d \in Container : Exists(c) /\ Exists(d) /\ made[c].fn = made[d].fn => c = d
           /\ \A c \in Container : Exists(c) => made[c] \in Made

Accounts == /\ \A h \in Handler : Ref(h)
            /\ RefsApart
            /\ PoolNamed
            /\ OneName
            /\ ContainersAccounted

AInv == IInv /\ Accounts
-----------------------------------------------------------------------------
(* Steps by what they do to the references.                                 *)

\* What is never taken back.
Grow == /\ \A f \in Function : "loose" \in spoiled[f] => "loose" \in spoiled'[f]
        /\ \A c \in Container : containers[c] # "none" => containers'[c] # "none"

\* At any place a request refers to a container or to none.
LEMMA RefTyped ==
  ASSUME AInv, NEW h \in Handler
  PROVE  /\ req[h].ctr \in Container \cup {None}
         /\ req[h].pc \in NeedsCtr <=> req[h].ctr # None
         /\ req[h].pc \in NeedsCtr => Fn(h) \in Function
         /\ None \notin Container
<1>1. TypeOK /\ Known /\ Ref(h) /\ None \notin Container
  BY LambdaAssumption DEF AInv, IInv, Accounts
<1>2. req[h].ctr \in Container \cup {None}
  BY <1>1 DEF TypeOK, Request
<1>3. req[h].pc \in NeedsCtr => req[h].ctr \in Container /\ Fn(h) \in Function
  BY <1>1 DEF Known, KnownBy, NeedsCtr, Starting, At
<1>4. QED BY <1>1, <1>2, <1>3 DEF Ref

\* A request that does not move keeps its reference, if the container stays or its
\* function is told.
LEMMA OthersRef ==
  ASSUME AInv, NEW g \in Handler, req'[g] = req[g], Grow,
         req[g].ctr # None => made'[req[g].ctr] = made[req[g].ctr],
         req[g].pc \in Begun /\ Exists(req[g].ctr) =>
           Exists(req[g].ctr)' \/ "loose" \in spoiled'[Fn(g)]
  PROVE  Ref(g)'
<1>1. Ref(g)
  BY DEF AInv, Accounts
<1>2. /\ req[g].ctr \in Container \cup {None}
      /\ req[g].pc \in NeedsCtr <=> req[g].ctr # None
      /\ req[g].pc \in NeedsCtr => Fn(g) \in Function
  BY RefTyped
<1>3. req[g].pc \in Begun => req[g].pc \in NeedsCtr
  BY DEF Begun, NeedsCtr
<1>4. Fn(g)' = Fn(g)
  BY DEF Fn
<1>5. QED BY <1>1, <1>2, <1>3, <1>4 DEF Ref, Grow, Exists

\* A step of a request that keeps its reference, and all containers.
Steady(h) == /\ Others(h) /\ req'[h].ctr = req[h].ctr
             /\ req'[h].fn = req[h].fn \/ req[h].pc \notin NeedsCtr
             /\ req'[h].pc \in NeedsCtr <=> req[h].pc \in NeedsCtr
             /\ req'[h].pc \in Begun => req[h].pc \in Begun
             /\ UNCHANGED <<made, pool>>
             /\ \A c \in Container : Exists(c)' <=> Exists(c)
             /\ Grow

LEMMA SteadyKeeps ==
  ASSUME AInv, NEW h \in Handler, Steady(h)
  PROVE  Accounts'
<1>1. \A g \in Handler : /\ req'[g].ctr = req[g].ctr
                         /\ req[g].ctr \in Container \cup {None}
                         /\ req[g].pc \in NeedsCtr <=> req[g].ctr # None
                         /\ req[g].pc \in NeedsCtr => Fn(g) \in Function
  BY RefTyped DEF Steady, Others
<1>2. \A g \in Handler : req[g].pc \in Begun => req[g].pc \in NeedsCtr
  BY DEF Begun, NeedsCtr
<1>3. \A g \in Handler : Ref(g)'
  <2>1. ASSUME NEW g \in Handler \ {h} PROVE Ref(g)'
    BY <1>1, <1>2, <2>1, OthersRef DEF Steady, Others
  <2>2. Ref(h)'
    BY <1>1, <1>2 DEF AInv, Accounts, Ref, Steady, Grow, Fn
  <2>3. QED BY <2>1, <2>2
<1>4. RefsApart' /\ PoolNamed'
  BY <1>1 DEF AInv, Accounts, RefsApart, PoolNamed, Steady
<1>5. OneName'
  BY DEF AInv, Accounts, OneName, Steady
<1>6. ContainersAccounted'
  BY <1>1 DEF AInv, Accounts, OneName, ContainersAccounted, Steady, Grow, Made
<1>7. QED BY <1>3, <1>4, <1>5, <1>6 DEF Accounts

\* A request lets go of its container, which is gone or told of.
LetsGo(h) == /\ Others(h) /\ req'[h].ctr = None /\ req'[h].pc \notin NeedsCtr
             /\ req[h].pc \in NeedsCtr
             /\ UNCHANGED <<made, pool>>
             /\ \A c \in Container : Exists(c)' => Exists(c)
             /\ \A c \in Container : \/ Exists(c)' <=> (Exists(c) /\ c # req[h].ctr)
                                     \/ c = req[h].ctr /\ "loose" \in spoiled'[Fn(h)]
             /\ Grow

LEMMA LetsGoKeeps ==
  ASSUME AInv, NEW h \in Handler, LetsGo(h)
  PROVE  Accounts'
<1>1. \A g \in Handler : /\ req[g].ctr \in Container \cup {None}
                         /\ req[g].pc \in NeedsCtr <=> req[g].ctr # None
                         /\ req[g].pc \in NeedsCtr => Fn(g) \in Function
  BY RefTyped
<1>2. \A g \in Handler : req[g].pc \in Begun => req[g].pc \in NeedsCtr
  BY DEF Begun, NeedsCtr
<1>3. \A g \in Handler \ {h} : req'[g] = req[g] /\ req[g].ctr # req[h].ctr
  BY <1>1 DEF LetsGo, Others, AInv, Accounts, RefsApart
<1>4. \A g \in Handler : Ref(g)'
  <2>1. ASSUME NEW g \in Handler \ {h} PROVE Ref(g)'
    BY <1>1, <1>2, <1>3, <2>1, OthersRef DEF LetsGo
  <2>2. Ref(h)'
    BY <1>2 DEF Ref, LetsGo, Begun, NeedsCtr
  <2>3. QED BY <2>1, <2>2
<1>5. RefsApart' /\ PoolNamed'
  BY <1>1, <1>3 DEF AInv, Accounts, RefsApart, PoolNamed, LetsGo
<1>6. OneName'
  BY DEF AInv, Accounts, OneName, LetsGo
<1>7. ContainersAccounted'
  <2>1. SUFFICES ASSUME NEW c \in Container, Exists(c)', "loose" \notin spoiled'[made[c].fn]
                 PROVE  pool[made[c].fn] = c \/ \E g \in Handler : req'[g].ctr = c
    BY DEF ContainersAccounted, LetsGo
  <2>2. Exists(c) /\ made[c].fn \in Function
    BY <2>1 DEF LetsGo, AInv, Accounts, OneName, Made
  <2>3. c # req[h].ctr
    BY <1>1, <2>1 DEF LetsGo, AInv, Accounts, Ref
  <2>4. "loose" \notin spoiled[made[c].fn]
    BY <2>1, <2>2 DEF LetsGo, Grow
  <2>5. pool[made[c].fn] = c \/ \E g \in Handler : req[g].ctr = c
    BY <2>2, <2>4 DEF AInv, Accounts, ContainersAccounted
  <2>6. QED BY <1>3, <2>3, <2>5
<1>8. QED BY <1>4, <1>5, <1>6, <1>7 DEF Accounts

\* A container is created for h.
LEMMA CreateKeeps ==
  ASSUME AInv, NEW h \in Handler, NEW c \in Container, NameFree(Fn(h)), Fn(h) \in Function,
         containers[c] = "none", containers' = [containers EXCEPT ![c] = "created"],
         made' \in [Container -> Made \cup {Unmade}], made'[c] \in Made, made'[c].fn = Fn(h),
         \A d \in Container \ {c} : made'[d] = made[d],
         Others(h), req[h].pc = "create", req'[h].pc = "start", req'[h].ctr = c,
         req'[h].fn = req[h].fn, UNCHANGED <<pool, spoiled>>
  PROVE  Accounts'
<1>1. \A g \in Handler : /\ req[g].ctr \in Container \cup {None}
                         /\ req[g].pc \in NeedsCtr <=> req[g].ctr # None
                         /\ req[g].pc \in NeedsCtr => Fn(g) \in Function
                         /\ None \notin Container
  BY RefTyped
<1>2. \A g \in Handler : req[g].pc \in Begun => req[g].pc \in NeedsCtr
  BY DEF Begun, NeedsCtr
<1>3. /\ \A d \in Container \ {c} : containers'[d] = containers[d] /\ (Exists(d)' <=> Exists(d))
      /\ containers'[c] = "created" /\ Exists(c)' /\ ~Exists(c)
  BY DEF Exists, AInv, IInv, TypeOK, DockerTypeOK
<1>4. \A g \in Handler : req[g].ctr # c
  BY <1>1 DEF AInv, Accounts, Ref
<1>5. \A f \in Function : pool[f] \in Container \cup {None} /\ pool[f] # c
  BY <1>1 DEF AInv, IInv, Linked, TypeOK
<1>6. \A g \in Handler : Ref(g)'
  <2>1. Grow
    BY <1>3 DEF Grow
  <2>2. ASSUME NEW g \in Handler \ {h} PROVE Ref(g)'
    BY <1>1, <1>2, <1>3, <1>4, <2>1, <2>2, OthersRef DEF Others
  <2>3. "start" \in NeedsCtr /\ "start" \in Begun
    BY DEF NeedsCtr, Begun, Starting
  <2>4. Ref(h)'
    BY <1>1, <1>3, <2>3 DEF Ref, Fn
  <2>5. QED BY <2>2, <2>4
<1>7. RefsApart' /\ PoolNamed'
  BY <1>1, <1>4, <1>5 DEF AInv, Accounts, RefsApart, PoolNamed, Others
<1>8. OneName'
  BY <1>3 DEF AInv, Accounts, OneName, NameFree
<1>9. ContainersAccounted'
  <2>1. req[h].ctr = None
    BY DEF AInv, Accounts, Ref, NeedsCtr, Starting
  <2>2. ASSUME NEW d \in Container, d # c, Exists(d), "loose" \notin spoiled[made[d].fn]
        PROVE  pool[made[d].fn] = d \/ \E g \in Handler : req'[g].ctr = d
    <3>1. CASE pool[made[d].fn] = d
      BY <3>1
    <3>2. CASE \E g \in Handler : req[g].ctr = d
      BY <1>1, <2>1, <3>2 DEF Others
    <3>3. QED BY <2>2, <3>1, <3>2 DEF AInv, Accounts, ContainersAccounted
  <2>3. QED BY <1>3, <2>2 DEF ContainersAccounted
<1>10. QED BY <1>6, <1>7, <1>8, <1>9 DEF Accounts

\* The container of h enters the pool.  If there was another entry, its container
\* has gone, as there is one of a name.
LEMMA RegisterKeeps ==
  ASSUME AInv, NEW h \in Handler, RegisterContainer(h)
  PROVE  Accounts'
<1>1. \A g \in Handler : /\ req[g].ctr \in Container \cup {None}
                         /\ req[g].pc \in NeedsCtr <=> req[g].ctr # None
                         /\ req[g].pc \in NeedsCtr => Fn(g) \in Function
                         /\ None \notin Container
  BY RefTyped
<1>2. \A g \in Handler : req[g].pc \in Begun => req[g].pc \in NeedsCtr
  BY DEF Begun, NeedsCtr
<1>3. PICK c \in Container, f \in Function :
        /\ c = req[h].ctr /\ f = Fn(h) /\ made[c].fn = f
        /\ Exists(c) \/ "loose" \in spoiled[f]
        /\ pool' = [pool EXCEPT ![f] = c]
  <2>1. req[h].pc \in NeedsCtr /\ req[h].pc \in Begun
    BY DEF RegisterContainer, At, NeedsCtr, Begun, Starting
  <2>2. QED BY <1>1, <2>1 DEF RegisterContainer, Register, AInv, Accounts, Ref
<1>4. /\ Others(h) /\ req'[h].ctr = None /\ req'[h].pc = "call"
      /\ UNCHANGED <<containers, made, spoiled>>
  <2>1. req \in Requests
    BY TypeSplit DEF AInv, IInv
  <2>2. Others(h) /\ req'[h].pc = "call"
    BY <2>1, RegisterFacts DEF RegisterContainer, Kept
  <2>3. req'[h].ctr = None
    BY <2>1 DEF RegisterContainer, Requests, Request
  <2>4. QED BY <2>2, <2>3 DEF RegisterContainer
<1>5. \A g \in Handler \ {h} : req'[g] = req[g] /\ req[g].ctr # c
  BY <1>1, <1>3, <1>4 DEF Others, AInv, Accounts, RefsApart
<1>6. /\ pool'[f] = c /\ \A e \in Function \ {f} : pool'[e] = pool[e]
      /\ \A e \in Function : pool[e] \in Container \cup {None}
  BY <1>3 DEF AInv, IInv, TypeOK
<1>7. \A g \in Handler : Ref(g)'
  <2>1. Grow
    BY <1>4 DEF Grow
  <2>2. ASSUME NEW g \in Handler \ {h} PROVE Ref(g)'
    BY <1>4, <1>5, <2>1, <2>2, OthersRef DEF Exists
  <2>3. "call" \notin NeedsCtr /\ "call" \notin Begun
    BY DEF NeedsCtr, Begun, Starting
  <2>4. Ref(h)'
    BY <1>4, <2>3 DEF Ref
  <2>5. QED BY <2>2, <2>4
<1>8. RefsApart' /\ PoolNamed'
  BY <1>1, <1>3, <1>4, <1>5, <1>6 DEF AInv, Accounts, RefsApart, PoolNamed
<1>9. OneName'
  BY <1>4 DEF AInv, Accounts, OneName, Exists
<1>10. ContainersAccounted'
  <2>1. SUFFICES ASSUME NEW d \in Container, Exists(d), "loose" \notin spoiled[made[d].fn]
                 PROVE  pool'[made[d].fn] = d \/ \E g \in Handler : req'[g].ctr = d
    BY <1>4 DEF ContainersAccounted, Exists
  <2>2. CASE made[d].fn = f
    <3>1. Exists(c)
      BY <1>3, <2>1, <2>2
    <3>2. d = c
      BY <1>3, <2>1, <2>2, <3>1 DEF AInv, Accounts, OneName
    <3>3. QED BY <1>6, <2>2, <3>2
  <2>3. CASE made[d].fn # f
    <3>1. made[d].fn \in Function /\ d # c
      BY <1>3, <2>1, <2>3 DEF AInv, Accounts, OneName, Made
    <3>2. pool[made[d].fn] = d \/ \E g \in Handler : req[g].ctr = d
      BY <2>1 DEF AInv, Accounts, ContainersAccounted
    <3>3. QED BY <1>3, <1>5, <1>6, <2>3, <3>1, <3>2
  <2>4. QED BY <2>2, <2>3
<1>11. QED BY <1>7, <1>8, <1>9, <1>10 DEF Accounts

\* The pool entry goes over to the request that takes it down.
LEMMA TakeKeeps ==
  ASSUME AInv, NEW h \in Handler, TakeEntry(h), pool[Fn(h)] # None
  PROVE  Accounts'
<1>1. \A g \in Handler : /\ req[g].ctr \in Container \cup {None}
                         /\ req[g].pc \in NeedsCtr <=> req[g].ctr # None
                         /\ req[g].pc \in NeedsCtr => Fn(g) \in Function
                         /\ None \notin Container
  BY RefTyped
<1>2. \A g \in Handler : req[g].pc \in Begun => req[g].pc \in NeedsCtr
  BY DEF Begun, NeedsCtr
<1>3. PICK c \in Container, f \in Function :
        /\ c = pool[f] /\ f = Fn(h) /\ made[c].fn = f /\ containers[c] # "none"
        /\ pool' = [pool EXCEPT ![f] = None]
        /\ req' = [req EXCEPT ![h].pc = "stop", ![h].ctr = c]
  <2>1. Fn(h) \in Function
    BY DEF TakeEntry, At, AInv, IInv, Known, KnownBy
  <2>2. pool[Fn(h)] \in Container
    BY <2>1 DEF AInv, IInv, TypeOK
  <2>3. QED BY <2>1, <2>2 DEF TakeEntry, Register, AInv, IInv, Linked, Accounts, PoolNamed
<1>4. /\ Others(h) /\ req'[h].ctr = c /\ req'[h].pc = "stop" /\ req'[h].fn = req[h].fn
      /\ UNCHANGED <<containers, made, spoiled>> /\ req[h].ctr = None
  <2>1. req \in Requests /\ "stop" \in Pc
    BY TypeSplit, PcFacts DEF AInv, IInv
  <2>2. Kept(h) /\ req'[h].pc = "stop" /\ req'[h].ctr = c
    <3>1. c \in Container \cup {None}
      OBVIOUS
    <3>2. req' = [req EXCEPT ![h].pc = "stop", ![h].ctr = c]
      BY <1>3
    <3>3. QED BY <2>1, <3>1, <3>2, CtrFacts
  <2>3. req[h].ctr = None
    BY DEF TakeEntry, At, AInv, Accounts, Ref, NeedsCtr, Starting
  <2>4. QED BY <2>2, <2>3 DEF Kept, TakeEntry
<1>5. \A g \in Handler : req[g].ctr # c
  BY <1>1, <1>3 DEF AInv, Accounts, RefsApart
<1>6. /\ pool'[f] = None /\ \A e \in Function \ {f} : pool'[e] = pool[e] /\ pool[e] # c
      /\ \A e \in Function : pool[e] \in Container \cup {None}
  BY <1>1, <1>3 DEF AInv, IInv, TypeOK, Accounts, PoolNamed
<1>7. \A g \in Handler : Ref(g)'
  <2>1. Grow
    BY <1>4 DEF Grow
  <2>2. ASSUME NEW g \in Handler \ {h} PROVE Ref(g)'
    BY <1>4, <2>1, <2>2, OthersRef DEF Exists, Others
  <2>3. "stop" \in NeedsCtr /\ "stop" \notin Begun
    BY DEF NeedsCtr, Begun, Starting
  <2>4. Ref(h)'
    BY <1>3, <1>4, <2>3 DEF Ref, Fn
  <2>5. QED BY <2>2, <2>4
<1>8. RefsApart' /\ PoolNamed'
  <2>1. \A g \in Handler : req'[g].ctr = IF g = h THEN c ELSE req[g].ctr
    BY <1>4 DEF Others
  <2>2. PoolNamed'
    BY <1>1, <1>3, <1>4, <1>6 DEF AInv, Accounts, PoolNamed
  <2>3. ASSUME NEW g \in Handler, NEW k \in Handler, req'[g].ctr = req'[k].ctr
        PROVE  g = k \/ req'[k].ctr = None
    BY <1>5, <2>1, <2>3 DEF AInv, Accounts, RefsApart
  <2>4. ASSUME NEW e \in Function, NEW g \in Handler, pool'[e] = req'[g].ctr
        PROVE  pool'[e] = None
    BY <1>6, <2>1, <2>4 DEF AInv, Accounts, RefsApart
  <2>5. QED BY <2>2, <2>3, <2>4 DEF RefsApart
<1>9. OneName'
  BY <1>4 DEF AInv, Accounts, OneName, Exists
<1>10. ContainersAccounted'
  <2>1. SUFFICES ASSUME NEW d \in Container, Exists(d), "loose" \notin spoiled[made[d].fn]
                 PROVE  pool'[made[d].fn] = d \/ \E g \in Handler : req'[g].ctr = d
    BY <1>4 DEF ContainersAccounted, Exists
  <2>2. made[d].fn \in Function
    BY <2>1 DEF AInv, Accounts, OneName, Made
  <2>3. pool[made[d].fn] = d \/ \E g \in Handler : req[g].ctr = d
    BY <2>1 DEF AInv, Accounts, ContainersAccounted
  <2>4. CASE d = c
    BY <1>4, <2>4
  <2>5. CASE d # c /\ pool[made[d].fn] = d
    BY <1>3, <1>6, <2>2, <2>5
  <2>6. CASE \E g \in Handler : req[g].ctr = d
    BY <1>1, <1>4, <2>6 DEF Others
  <2>7. QED BY <2>3, <2>4, <2>5, <2>6
<1>11. QED BY <1>7, <1>8, <1>9, <1>10 DEF Accounts
-----------------------------------------------------------------------------
(* The actions.                                                             *)

Calm == /\ UNCHANGED <<made, pool>>
        /\ \A c \in Container : Exists(c)' <=> Exists(c)
        /\ Grow

LEMMA UnchangedCalm == ASSUME UNCHANGED <<containers, made, pool, spoiled>> PROVE Calm
BY DEF Calm, Exists, Grow

LEMMA GotoSteady ==
  ASSUME AInv, NEW h \in Handler, NEW pc \in Pc, Goto(h, pc), Calm,
         pc \in NeedsCtr <=> req[h].pc \in NeedsCtr, pc \in Begun => req[h].pc \in Begun
  PROVE  Accounts'
<1>1. req \in Requests
  BY TypeSplit DEF AInv, IInv
<1>2. Steady(h)
  BY <1>1, GotoFacts DEF Steady, Calm, Kept
<1>3. QED BY <1>2, SteadyKeeps

LEMMA AnswerSteady ==
  ASSUME AInv, NEW h \in Handler, Answer(h), Calm, req[h].pc \notin NeedsCtr
  PROVE  Accounts'
<1>1. Others(h) /\ req'[h] = Idle
  BY TypeSplit, AnswerFacts DEF AInv, IInv
<1>2. Idle.pc \notin NeedsCtr /\ Idle.pc \notin Begun /\ Idle.ctr = None
  BY DEF Idle, NeedsCtr, Begun, Starting
<1>3. req[h].ctr = None
  BY RefTyped
<1>4. Steady(h)
  BY <1>1, <1>2, <1>3 DEF Steady, Calm
<1>5. QED BY <1>4, SteadyKeeps

LEMMA CallSteady ==
  ASSUME AInv, NEW h \in Handler, CallEntry(h), Calm, req[h].pc \notin NeedsCtr,
         Fn(h) \in Function, pool[Fn(h)] # None
  PROVE  Accounts'
<1>1. req \in Requests /\ made[pool[Fn(h)]].port \in Port
  BY TypeSplit DEF AInv, IInv, Known, Made
<1>2. Kept(h) /\ req'[h].pc = "call"
  BY <1>1, CallFacts
<1>3. req'[h].ctr = req[h].ctr
  BY <1>1 DEF CallEntry, Requests, Request
<1>4. "call" \notin NeedsCtr /\ "call" \notin Begun
  BY DEF NeedsCtr, Begun, Starting
<1>5. Steady(h)
  BY <1>2, <1>3, <1>4 DEF Steady, Calm, Kept
<1>6. QED BY <1>5, SteadyKeeps

LEMMA AnswerLetsGo ==
  ASSUME AInv, NEW h \in Handler, Answer(h), req[h].pc \in NeedsCtr,
         UNCHANGED <<made, pool>>, Grow,
         \A c \in Container : Exists(c)' => Exists(c),
         \A c \in Container : \/ Exists(c)' <=> (Exists(c) /\ c # req[h].ctr)
                              \/ c = req[h].ctr /\ "loose" \in spoiled'[Fn(h)]
  PROVE  Accounts'
<1>1. Others(h) /\ req'[h] = Idle
  BY TypeSplit, AnswerFacts DEF AInv, IInv
<1>2. Idle.pc \notin NeedsCtr /\ Idle.ctr = None
  BY DEF Idle, NeedsCtr, Starting
<1>3. LetsGo(h)
  BY <1>1, <1>2 DEF LetsGo
<1>4. QED BY <1>3, LetsGoKeeps

\* A container that is removed, or told of.
LEMMA RemovalFacts ==
  ASSUME AInv, NEW c \in Container, NEW f \in Function, RemoveOrLose(c, f)
  PROVE  /\ \A d \in Container : Exists(d)' => Exists(d)
         /\ \A d \in Container : \/ Exists(d)' <=> (Exists(d) /\ d # c)
                                 \/ d = c /\ "loose" \in spoiled'[f]
         /\ Grow
<1>1. DockerTypeOK /\ spoiled \in [Function -> SUBSET {"overlap", "loose"}]
  BY DEF AInv, IInv, TypeOK
<1>2. PICK ok \in BOOLEAN : /\ RemoveContainer(c, ok)
                            /\ IF Exists(c) /\ ~ok THEN Mishap(f, "loose") ELSE UNCHANGED spoiled
  BY DEF RemoveOrLose
<1>3. CASE ok
  <2>1. containers' = [containers EXCEPT ![c] = "removed"] /\ UNCHANGED spoiled
    BY <1>2, <1>3 DEF RemoveContainer, SetState
  <2>2. QED BY <1>1, <2>1 DEF DockerTypeOK, Exists, Grow
<1>4. CASE ~ok
  <2>1. UNCHANGED containers
    BY <1>2, <1>4 DEF RemoveContainer, Fails
  <2>2. Exists(c) => "loose" \in spoiled'[f]
    BY <1>1, <1>2, <1>4 DEF Mishap
  <2>3. \A g \in Function : "loose" \in spoiled[g] => "loose" \in spoiled'[g]
    BY <1>1, <1>2 DEF Mishap
  <2>4. QED BY <2>1, <2>2, <2>3 DEF Exists, Grow
<1>5. QED BY <1>3, <1>4

LEMMA StopCalm ==
  ASSUME AInv, NEW c \in Container, NEW ok \in BOOLEAN, StopContainer(c, ok),
         UNCHANGED <<made, pool, spoiled>>
  PROVE  Calm
<1>1. DockerTypeOK
  BY DEF AInv, IInv, TypeOK
<1>2. QED BY <1>1 DEF StopContainer, SetState, Fails, DockerTypeOK, Exists, Calm, Grow

LEMMA StepAccounts ==
  ASSUME AInv, NEW h \in Handler, Step(h)
  PROVE  Accounts'
<1>0. /\ req \in Requests /\ req[h] \in Request /\ KnownBy(h) /\ Known
      /\ Rest /\ req[h].ctr \in Container \cup {None}
      /\ req[h].pc \in NeedsCtr => req[h].ctr \in Container /\ Fn(h) \in Function
  BY TypeSplit, RefTyped DEF AInv, IInv, Known, Requests
<1> DEFINE Places == {"get", "limit", "ensure", "lock", "alloc", "call", "wipe", "deploy", "take",
                      "commit", "cleanup"}
<1>p. \A pc \in Places : pc \in Pc /\ pc \notin NeedsCtr /\ pc \notin Begun
  BY PcFacts DEF NeedsCtr, Begun, Starting
<1>g. ASSUME NEW pc \in Places, Goto(h, pc), req[h].pc \in Places,
             UNCHANGED <<containers, made, pool, spoiled>>
      PROVE  Accounts'
  BY <1>p, <1>g, UnchangedCalm, GotoSteady
<1>a. ASSUME Answer(h), req[h].pc \in Places, UNCHANGED <<containers, made, pool, spoiled>>
      PROVE  Accounts'
  BY <1>p, <1>a, UnchangedCalm, AnswerSteady
<1>c. ASSUME CallEntry(h), req[h].pc \in Places, UNCHANGED <<containers, made, pool, spoiled>>,
             pool[Fn(h)] # None
      PROVE  Accounts'
  <2>1. Fn(h) \in Function
    BY <1>0, <1>c DEF KnownBy, At
  <2>2. QED BY <1>p, <1>c, <2>1, UnchangedCalm, CallSteady
<1> HIDE DEF Places
<1>1. CASE GetFunction(h)
  <2>1. req[h].op \in {"create", "delete", "update", "invoke"}
    BY <1>0, <1>1 DEF GetFunction, KnownBy, At, Request
  <2>2. Answer(h) \/ \E pc \in {"deploy", "take", "wipe", "limit"} : Goto(h, pc)
    BY <1>1, <2>1 DEF GetFunction
  <2>3. QED BY <1>1, <2>2, <1>g, <1>a DEF GetFunction, At, Places
<1>2. CASE CheckLimit(h)
  BY <1>2, <1>g, <1>a DEF CheckLimit, At, Places
<1>3. CASE EnsureContainer(h)
  <2>1. ASSUME NEW e \in Entry, req' = [req EXCEPT ![h].pc = "lock", ![h].entry = e]
        PROVE  Accounts'
    <3>1. Kept(h) /\ req'[h].pc = "lock"
      BY <1>0, <2>1, WaitFacts
    <3>2. req'[h].ctr = req[h].ctr
      BY <1>0, <2>1 DEF Requests, Request
    <3>3. Calm
      BY <1>3, UnchangedCalm DEF EnsureContainer
    <3>4. "ensure" \in Places /\ "lock" \in Places /\ req[h].pc = "ensure"
      BY <1>3 DEF Places, EnsureContainer, At
    <3>5. Steady(h)
      BY <1>p, <3>1, <3>2, <3>3, <3>4 DEF Steady, Kept, Calm
    <3>6. QED BY <3>5, SteadyKeeps
  <2>2. CASE CallEntry(h) /\ pool[Fn(h)] # None
    BY <1>3, <1>c, <2>2 DEF EnsureContainer, At, Places
  <2>3. Fn(h) \in Function
    BY <1>0, <1>3 DEF EnsureContainer, KnownBy, At
  <2>4. QED BY <1>0, <1>3, <2>1, <2>2, <2>3 DEF EnsureContainer, Rest
<1>4. CASE LockStartup(h)
  BY <1>4, <1>c, <1>g DEF LockStartup, At, Places
<1>5. CASE AllocatePort(h)
  <2>1. ASSUME NEW p \in Port, req' = [req EXCEPT ![h].pc = "create", ![h].port = p]
        PROVE  Accounts'
    <3>1. Kept(h) /\ req'[h].pc = "create"
      BY <1>0, <2>1, PortFacts
    <3>2. req'[h].ctr = req[h].ctr
      BY <1>0, <2>1 DEF Requests, Request
    <3>3. Calm
      BY <1>5, UnchangedCalm DEF AllocatePort
    <3>4. req[h].pc = "alloc" /\ {"alloc", "create"} \cap (NeedsCtr \cup Begun) = {}
      BY <1>5 DEF AllocatePort, At, NeedsCtr, Begun, Starting
    <3>5. Steady(h)
      BY <3>1, <3>2, <3>3, <3>4 DEF Steady, Kept, Calm
    <3>6. QED BY <3>5, SteadyKeeps
  <2>2. CASE GiveUp(h)
    BY <1>5, <1>a, <2>2 DEF AllocatePort, GiveUp, At, Places
  <2>3. QED BY <1>5, <2>1, <2>2 DEF AllocatePort
<1>6. CASE Create(h)
  <2>1. CASE GiveUp(h) /\ UNCHANGED <<containers, made>>
    <3>1. Calm /\ req[h].pc \notin NeedsCtr
      BY <1>6, <2>1, UnchangedCalm DEF Create, At, NeedsCtr, Starting
    <3>2. QED BY <2>1, <3>1, AnswerSteady DEF GiveUp
  <2>2. ASSUME NEW c \in Container, NameFree(Fn(h)), CreateContainer(c),
               made' = [made EXCEPT ![c] = [fn |-> Fn(h), port |-> req[h].port,
                                            code |-> code[Fn(h)]]],
               req' = [req EXCEPT ![h].pc = "start", ![h].ctr = c]
        PROVE  Accounts'
    <3>1. /\ Fn(h) \in Function /\ req[h].port \in Port /\ req[h].pc = "create"
          /\ UNCHANGED <<pool, spoiled>>
      BY <1>0, <1>6 DEF Create, KnownBy, At, Owners, Starting
    <3>2. containers[c] = "none" /\ containers' = [containers EXCEPT ![c] = "created"]
      BY <2>2 DEF CreateContainer, SetState
    <3>3. PICK m \in Made : m.fn = Fn(h) /\ made' = [made EXCEPT ![c] = m]
      <4>1. [fn |-> Fn(h), port |-> req[h].port, code |-> code[Fn(h)]] \in Made
        BY <1>0, <3>1 DEF Rest, Made
      <4>2. QED BY <2>2, <4>1
    <3>4. /\ made' \in [Container -> Made \cup {Unmade}] /\ made'[c] \in Made
          /\ made'[c].fn = Fn(h) /\ \A d \in Container \ {c} : made'[d] = made[d]
      BY <1>0, <3>3 DEF Rest
    <3>5. Kept(h) /\ req'[h].pc = "start" /\ req'[h].ctr = c
      BY <1>0, <2>2, CtrFacts, PcFacts
    <3>6. QED BY <2>2, <3>1, <3>2, <3>4, <3>5, CreateKeeps DEF Kept
  <2>3. QED BY <1>6, <2>1, <2>2 DEF Create
<1>7. CASE Start(h)
  <2>0. req[h].pc = "start" /\ "start" \in NeedsCtr /\ "start" \in Begun /\ UNCHANGED <<made, pool>>
    BY <1>7 DEF Start, At, NeedsCtr, Begun, Starting
  <2>1. CASE StartContainer(req[h].ctr, TRUE) /\ Goto(h, "health") /\ UNCHANGED spoiled
    <3>1. containers[req[h].ctr] = "created" /\ containers' = [containers EXCEPT ![req[h].ctr] = "running"]
      BY <2>1 DEF StartContainer, SetState
    <3>2. Calm
      BY <1>0, <2>0, <2>1, <3>1 DEF Rest, DockerTypeOK, Exists, Calm, Grow
    <3>3. "health" \in Pc /\ "health" \in NeedsCtr /\ "health" \in Begun
      BY PcFacts DEF NeedsCtr, Begun, Starting
    <3>4. QED BY <2>0, <2>1, <3>2, <3>3, GotoSteady
  <2>2. CASE UNCHANGED containers /\ GiveUp(h) /\ Mishap(Fn(h), "loose")
    <3>1. "loose" \in spoiled'[Fn(h)] /\ \A f \in Function : "loose" \in spoiled[f] => "loose" \in spoiled'[f]
      BY <1>0, <2>0, <2>2 DEF Mishap, Rest
    <3>2. QED BY <2>0, <2>2, <3>1, AnswerLetsGo DEF GiveUp, Exists, Grow
  <2>3. QED BY <1>7, <2>1, <2>2 DEF Start, StartContainer, Fails
<1>8. CASE WaitRIEHealthy(h)
  <2>1. PICK pc \in {"register", "healthStop"} : Goto(h, pc)
    BY <1>8 DEF WaitRIEHealthy
  <2>2. pc \in Pc /\ pc \in NeedsCtr /\ req[h].pc \in NeedsCtr /\ req[h].pc \in Begun
    BY <1>8, PcFacts DEF WaitRIEHealthy, At, NeedsCtr, Begun, Starting
  <2>3. QED BY <1>8, <2>1, <2>2, UnchangedCalm, GotoSteady DEF WaitRIEHealthy
<1>9. CASE UnhealthyStop(h)
  <2>1. "healthRemove" \in Pc /\ "healthRemove" \in NeedsCtr /\ req[h].pc \in NeedsCtr /\ req[h].pc \in Begun
    BY <1>9, PcFacts DEF UnhealthyStop, At, NeedsCtr, Begun, Starting
  <2>2. Calm
    BY <1>0, <1>9, <2>1, StopCalm DEF UnhealthyStop
  <2>3. QED BY <1>9, <2>1, <2>2, GotoSteady DEF UnhealthyStop
<1>10. CASE UnhealthyRemove(h)
  <2>1. req[h].pc \in NeedsCtr
    BY <1>10 DEF UnhealthyRemove, At, NeedsCtr, Starting
  <2>2. QED BY <1>0, <1>10, <2>1, RemovalFacts, AnswerLetsGo DEF UnhealthyRemove, GiveUp
<1>11. CASE RegisterContainer(h)
  BY <1>11, RegisterKeeps
<1>12. CASE CallRIE(h)
  BY <1>12, <1>a DEF CallRIE, At, Places
<1>13. CASE Wipe(h)
  BY <1>13, <1>g DEF Wipe, At, Places
<1>14. CASE DeployZipFile(h)
  <2>1. Answer(h) \/ \E pc \in {"commit", "take"} : Goto(h, pc)
    BY <1>14 DEF DeployZipFile
  <2>2. QED BY <1>14, <2>1, <1>g, <1>a DEF DeployZipFile, At, Places
<1>15. CASE TakeEntry(h)
  <2>1. CASE pool[Fn(h)] = None
    BY <1>15, <2>1, <1>g DEF TakeEntry, At, Places
  <2>2. QED BY <1>15, <2>1, TakeKeeps
<1>16. CASE StopTaken(h)
  <2>1. "remove" \in Pc /\ "remove" \in NeedsCtr /\ "remove" \notin Begun /\ req[h].pc \in NeedsCtr
    BY <1>16, PcFacts DEF StopTaken, At, NeedsCtr, Begun, Starting
  <2>2. Calm
    BY <1>0, <1>16, <2>1, StopCalm DEF StopTaken
  <2>3. QED BY <1>16, <2>1, <2>2, GotoSteady DEF StopTaken
<1>17. CASE RemoveTaken(h)
  <2>1. req[h].pc \in NeedsCtr /\ "commit" \notin NeedsCtr
    BY <1>17 DEF RemoveTaken, At, NeedsCtr, Starting
  <2>2. Kept(h) /\ req'[h].pc = "commit" /\ req'[h].ctr = None
    BY <1>0, <1>17, PcFacts, CtrFacts DEF RemoveTaken
  <2>3. LetsGo(h)
    BY <1>0, <1>17, <2>1, <2>2, RemovalFacts DEF RemoveTaken, LetsGo, Kept
  <2>4. QED BY <2>3, LetsGoKeeps
<1>18. CASE CommitRecord(h)
  BY <1>18, <1>g, <1>a DEF CommitRecord, At, Places
<1>19. CASE RemoveCode(h)
  BY <1>19, <1>a DEF RemoveCode, At, Places
<1>20. ASSUME NEW op \in Ops, NEW f \in Function,
              NEW v \in IF op \in {"create", "update"} THEN Version ELSE {"none"}, Begin(h, op, f, v)
       PROVE  Accounts'
  <2>1. v \in Version \cup {"none"}
    OBVIOUS
  <2>2. Others(h) /\ req'[h].pc = "get"
    BY <1>0, <1>20, <2>1, BeginFacts
  <2>3. req[h].pc = "idle" /\ {"idle", "get"} \cap (NeedsCtr \cup Begun) = {}
    BY <1>20 DEF Begin, At, NeedsCtr, Begun, Starting
  <2>4. req'[h].ctr = None /\ req[h].ctr = None
    BY <1>0, <1>20, <2>3, RefTyped DEF Begin, Requests, Request, Idle
  <2>5. \A e \in Function : "loose" \in spoiled[e] => "loose" \in spoiled'[e]
    BY <1>0, <1>20 DEF Begin, Mishap, Rest
  <2>6. Steady(h)
    BY <1>20, <2>2, <2>3, <2>4, <2>5 DEF Steady, Begin, Exists, Grow
  <2>7. QED BY <2>6, SteadyKeeps
<1>99. QED
  BY <1>1, <1>2, <1>3, <1>4, <1>5, <1>6, <1>7, <1>8, <1>9, <1>10, <1>11, <1>12, <1>13, <1>14,
     <1>15, <1>16, <1>17, <1>18, <1>19, <1>20 DEF Step

\* Nothing is referred to anew; a container that goes is told of.
LEMMA OutsideKeeps ==
  ASSUME AInv, UNCHANGED <<req, pool, made>>, Grow,
         \A c \in Container : Exists(c)' => Exists(c),
         \A c \in Container : Exists(c) => Exists(c)' \/ "loose" \in spoiled'[made[c].fn]
  PROVE  Accounts'
<1>1. \A h \in Handler : /\ req[h].ctr \in Container \cup {None}
                         /\ req[h].pc \in NeedsCtr <=> req[h].ctr # None
  BY RefTyped
<1>2. \A h \in Handler : req[h].pc \in Begun => req[h].pc \in NeedsCtr
  BY DEF Begun, NeedsCtr
<1>3. \A h \in Handler : Ref(h)'
  BY <1>1, <1>2, OthersRef DEF AInv, Accounts, Ref
<1>4. RefsApart' /\ PoolNamed' /\ OneName'
  BY DEF AInv, Accounts, RefsApart, PoolNamed, OneName
<1>5. ContainersAccounted'
  BY DEF AInv, Accounts, OneName, ContainersAccounted, Made, Grow
<1>6. QED BY <1>3, <1>4, <1>5 DEF Accounts

LEMMA ShutdownKeeps ==
  ASSUME AInv, NEW f \in Function, ShutdownEntry(f)
  PROVE  Accounts'
<1>1. \A h \in Handler : /\ req[h].ctr \in Container \cup {None}
                         /\ req[h].pc \in NeedsCtr <=> req[h].ctr # None
                         /\ None \notin Container
  BY RefTyped
<1>2. PICK c \in Container : c = pool[f] /\ made[c].fn = f
  BY DEF ShutdownEntry, AInv, IInv, TypeOK, Accounts, PoolNamed
<1>3. /\ RemoveOrLose(c, f) /\ pool' = [pool EXCEPT ![f] = None] /\ UNCHANGED <<made, req>>
  BY <1>2 DEF ShutdownEntry, Register
<1>4. /\ \A d \in Container : Exists(d)' => Exists(d)
      /\ \A d \in Container : \/ Exists(d)' <=> (Exists(d) /\ d # c)
                              \/ d = c /\ "loose" \in spoiled'[f]
      /\ Grow
  BY <1>3, RemovalFacts
<1>5. \A h \in Handler : req[h].ctr # c
  BY <1>1, <1>2 DEF AInv, Accounts, RefsApart
<1>6. pool'[f] = None /\ \A e \in Function \ {f} : pool'[e] = pool[e]
  BY <1>3 DEF AInv, IInv, TypeOK
<1>7. \A h \in Handler : Ref(h)'
  <2>1. \A h \in Handler : req[h].pc \in Begun => req[h].pc \in NeedsCtr
    BY DEF Begun, NeedsCtr
  <2>2. QED BY <1>1, <1>3, <1>4, <1>5, <2>1, OthersRef
<1>8. RefsApart' /\ PoolNamed' /\ OneName'
  BY <1>3, <1>4, <1>6 DEF AInv, Accounts, RefsApart, PoolNamed, OneName
<1>9. ContainersAccounted'
  <2>1. SUFFICES ASSUME NEW d \in Container, Exists(d)', "loose" \notin spoiled'[made[d].fn]
                 PROVE  pool'[made[d].fn] = d \/ \E h \in Handler : req[h].ctr = d
    BY <1>3 DEF ContainersAccounted
  <2>2. d # c /\ Exists(d) /\ made[d].fn \in Function
    BY <1>2, <1>4, <2>1 DEF AInv, Accounts, OneName, Made
  <2>3. "loose" \notin spoiled[made[d].fn]
    BY <1>4, <2>1, <2>2 DEF Grow
  <2>4. pool[made[d].fn] = d \/ \E h \in Handler : req[h].ctr = d
    BY <2>2, <2>3 DEF AInv, Accounts, ContainersAccounted
  <2>5. QED BY <1>2, <1>6, <2>2, <2>4
<1>10. QED BY <1>7, <1>8, <1>9 DEF Accounts

LEMMA AccountsInductive ==
  ASSUME AInv, [Next]_vars
  PROVE  AInv'
<1>1. IInv'
  BY PortsInductive DEF AInv
<1>2. DockerTypeOK /\ spoiled \in [Function -> SUBSET {"overlap", "loose"}]
  BY DEF AInv, IInv, TypeOK
<1>3. ASSUME NEW h \in Handler, Step(h) PROVE Accounts'
  BY <1>3, StepAccounts
<1>4. ASSUME StartShutdown \/ EndShutdown \/ UNCHANGED vars PROVE Accounts'
  <2>1. UNCHANGED <<req, pool, made, containers, spoiled>>
    BY <1>4 DEF StartShutdown, EndShutdown, vars
  <2>2. (\A c \in Container : Exists(c)' <=> Exists(c)) /\ Grow
    BY <2>1 DEF Exists, Grow
  <2>3. QED BY <2>1, <2>2, OutsideKeeps
<1>5. ASSUME NEW f \in Function, ShutdownEntry(f) PROVE Accounts'
  BY <1>5, ShutdownKeeps
<1>6. ASSUME NEW c \in Container, Crash(c) PROVE Accounts'
  <2>1. (\A d \in Container : Exists(d)' <=> Exists(d)) /\ Grow
    BY <1>2, <1>6 DEF Crash, Dies, SetState, DockerTypeOK, Exists, Grow
  <2>2. QED BY <1>6, <2>1, OutsideKeeps DEF Crash
<1>7. ASSUME NEW c \in Container, TakenAway(c) PROVE Accounts'
  <2>1. Exists(c) /\ containers' = [containers EXCEPT ![c] = "removed"]
    BY <1>7 DEF TakenAway, RemovedByHand, SetState
  <2>2. made[c].fn \in Function
    BY <2>1 DEF AInv, Accounts, OneName, Made
  <2>3. /\ "loose" \in spoiled'[made[c].fn]
        /\ \A f \in Function : "loose" \in spoiled[f] => "loose" \in spoiled'[f]
    BY <1>2, <1>7, <2>2 DEF TakenAway, Mishap
  <2>4. /\ \A d \in Container : Exists(d)' <=> (Exists(d) /\ d # c)
        /\ Grow
    BY <1>2, <2>1, <2>3 DEF DockerTypeOK, Exists, Grow
  <2>5. QED BY <1>7, <2>3, <2>4, OutsideKeeps DEF TakenAway
<1>8. Accounts'
  BY <1>3, <1>4, <1>5, <1>6, <1>7 DEF Next
<1>9. QED BY <1>1, <1>8 DEF AInv

LEMMA InitAccounts == Init => AInv
<1> SUFFICES ASSUME Init PROVE AInv
  OBVIOUS
<1>1. IInv
  BY InitInv
<1>2. /\ \A h \in Handler : req[h].ctr = None /\ req[h].pc \notin NeedsCtr
      /\ \A h \in Handler : req[h].pc \notin Begun
  BY DEF Init, Idle, NeedsCtr, Begun, Starting
<1>3. (\A c \in Container : ~Exists(c)) /\ \A f \in Function : pool[f] = None
  BY DEF Init, Exists
<1>4. QED BY <1>1, <1>2, <1>3
          DEF AInv, Accounts, Ref, RefsApart, PoolNamed, OneName, ContainersAccounted

(* A container of a function that exists is in the pool, or some request is still
   starting it or taking it down, unless Docker failed to start or to remove a
   container of the function or somebody else removed one: with any number of
   invocations, updates, deletions and shutdowns at once.                    *)
THEOREM NoContainerForgotten == Spec => []ContainersAccounted
<1>1. AInv => ContainersAccounted
  BY DEF AInv, Accounts
<1>2. QED BY <1>1, InitAccounts, AccountsInductive, PTL DEF Spec
-----------------------------------------------------------------------------
(***************************************************************************)
(* The code that a pool entry runs, and whom an invocation reaches, as     *)
(* long as requests that change a function do not overlap with others.     *)
(***************************************************************************)

\* Of two requests for a function, neither changes it.
Alone == \A g, h \in Handler :
           /\ g # h /\ Fn(g) = Fn(h) /\ Fn(g) \in Function
           /\ "overlap" \notin spoiled[Fn(g)]
           => req[g].op = "invoke" /\ req[h].op = "invoke"

Late == {"take", "stop", "remove", "commit", "cleanup"}
Fits(v, f) == v \in {store[f], "empty", "broken"}

\* What a request for f knows of record, code and pool when it is at pc.
CodeAt(h, f, pc) ==
  /\ pc \in {"limit", "ensure", "lock", "alloc"} \cup Starting => store[f] # "absent"
  /\ pc \in Begun => Fits(made[req[h].ctr].code, f)
  /\ pc \in Late \ {"take"} => pool[f] = None
  /\ req[h].op = "create" => pc \in {"get", "deploy", "commit"}
  /\ req[h].op = "create" /\ pc \in {"deploy", "commit"} => store[f] = "absent"
  /\ req[h].op \in {"create", "update"} /\ pc \in Late => code[f] \in {req[h].version, "empty"}

CodeOf(f) ==
  /\ (\A h \in Handler : Fn(h) = f => req[h].pc \notin Late) => Fits(code[f], f)
  /\ pool[f] # None => store[f] # "absent" /\ Fits(made[pool[f]].code, f)
  /\ \A h \in Handler : Fn(h) = f => CodeAt(h, f, req[h].pc)

CodeInv == \A f \in Function : "overlap" \notin spoiled[f] => CodeOf(f)

\* Nobody but f listens on p.
Own(f, p) == \A c \in Container : Publishes(c, p) => made[c].fn = f
Up(h) == req[h].pc \in Begun \ {"start"}
CallOK(h) ==
  At(h, "call") /\ phase = "up" /\ "overlap" \notin spoiled[Fn(h)] =>
    /\ req[h].port \in Port /\ Fn(h) \in Function
    /\ owner[req[h].port] = Fn(h) /\ Own(Fn(h), req[h].port)
    /\ \A g \in Handler : Owners(g) => req[g].port # req[h].port

PortInv == /\ \A f \in Function : pool[f] # None => Own(f, made[pool[f]].port)
           /\ \A h \in Handler : Up(h) => Own(Fn(h), req[h].port)
           /\ \A h \in Handler : CallOK(h)

SInv == AInv /\ Alone /\ CodeInv /\ PortInv
Good == Alone /\ CodeInv /\ PortInv

\* Made containers stay made and an overlap is not forgotten; and, in most steps,
\* nothing starts to run.
Lasting == /\ MadeForGood
           /\ \A f \in Function : "overlap" \in spoiled[f] => "overlap" \in spoiled'[f]
Milder == /\ Lasting
          /\ \A c \in Container : containers'[c] = "running" => containers[c] = "running"

LEMMA AloneKept ==
  ASSUME SInv, NEW h \in Handler, Others(h), Lasting,
         Fn(h)' \in Function => Fn(h)' = Fn(h) /\ req'[h].op = req[h].op
  PROVE  Alone'
BY DEF SInv, Alone, Others, Lasting, Fn

\* A request that changes a function is alone with it.
LEMMA AtWorkAlone ==
  ASSUME SInv, NEW h \in Handler, req[h].pc \in AtWork, "overlap" \notin spoiled[Fn(h)]
  PROVE  /\ Fn(h) \in Function
         /\ \A g \in Handler \ {h} : Fn(g) # Fn(h)
<1>1. Fn(h) \in Function /\ req[h].op # "invoke"
  BY DEF SInv, AInv, IInv, Known, KnownBy, AtWork, At
<1>2. QED BY <1>1 DEF SInv, Alone

\* Record and code of f stay, and its pool entry stays or goes.
LEMMA CodeKept ==
  ASSUME SInv, NEW h \in Handler, NEW f \in Function, Others(h), Lasting,
         store'[f] = store[f], code'[f] = code[f], pool'[f] \in {pool[f], None},
         Fn(h) = f /\ req[h].pc \in Late => Fn(h)' = f /\ req'[h].pc \in Late,
         Fn(h)' = f /\ "overlap" \notin spoiled[f] => CodeAt(h, f, req[h].pc)',
         "overlap" \notin spoiled'[f]
  PROVE  CodeOf(f)'
<1>1. "overlap" \notin spoiled[f] /\ CodeOf(f)
  BY DEF SInv, CodeInv, Lasting
<1>2. (\A g \in Handler : Fn(g)' = f => req'[g].pc \notin Late) => Fits(code[f], f)
  BY <1>1 DEF CodeOf, Others, Fn
<1>3. pool[f] # None => pool[f] \in Container /\ containers[pool[f]] # "none"
  BY DEF SInv, AInv, IInv, Linked, TypeOK
<1>4. pool'[f] # None => store'[f] # "absent" /\ Fits(made[pool[f]].code, f)'
  BY <1>1, <1>3 DEF CodeOf, Lasting, MadeForGood, Fits
<1>5. ASSUME NEW g \in Handler \ {h}, Fn(g)' = f PROVE CodeAt(g, f, req[g].pc)'
  <2>1. req'[g] = req[g] /\ Fn(g) = f /\ CodeAt(g, f, req[g].pc)
    BY <1>1, <1>5 DEF Others, Fn, CodeOf
  <2>2. req[g].pc \in Begun =>
          made'[req[g].ctr] = made[req[g].ctr]
    <3>1. req[g].pc \in Begun => req[g].pc \in NeedsCtr
      BY DEF Begun, NeedsCtr
    <3>2. req[g].pc \in NeedsCtr => req[g].ctr \in Container /\ containers[req[g].ctr] # "none"
      BY RefTyped DEF SInv, AInv, Accounts, Ref
    <3>3. QED BY <3>1, <3>2 DEF Lasting, MadeForGood
  <2>3. QED BY <2>1, <2>2 DEF CodeAt, Fits
<1>6. pool'[f] # None => Fits(made[pool[f]].code, f)'
  BY <1>4
<1>7. \A g \in Handler : Fn(g)' = f => CodeAt(g, f, req[g].pc)'
  BY <1>1, <1>5
<1>8. QED BY <1>2, <1>4, <1>7 DEF CodeOf, Fits

\* Nobody starts to listen; the ports of calls stay with their owners.
LEMMA PortKept ==
  ASSUME SInv, NEW h \in Handler, Others(h), Milder, phase' = "up" => phase = "up",
         \A f \in Function : pool'[f] \in {pool[f], None},
         \A g \in Handler \ {h} :
           At(g, "call") /\ phase' = "up" /\ "overlap" \notin spoiled'[Fn(g)] /\ CallOK(g) =>
             owner'[req[g].port] = owner[req[g].port]
             /\ (Owners(h)' => req'[h].port # req[g].port),
         Up(h)' => Up(h) /\ req'[h].port = req[h].port /\ Fn(h)' = Fn(h),
         CallOK(h)'
  PROVE  PortInv'
<1>1. \A c \in Container : Exists(c) => containers[c] # "none"
  BY DEF Exists
<1>2. \A f, p : Own(f, p) => Own(f, p)'
  BY DEF Own, Publishes, Milder, Lasting, MadeForGood
<1>3. \A f \in Function : pool[f] # None =>
        pool[f] \in Container /\ containers[pool[f]] # "none" /\ Own(f, made[pool[f]].port)
  BY DEF SInv, AInv, IInv, Linked, TypeOK, PortInv
<1>4. \A f \in Function : pool'[f] # None => Own(f, made[pool[f]].port)'
  <2>1. SUFFICES ASSUME NEW f \in Function, pool'[f] # None PROVE Own(f, made[pool[f]].port)'
    OBVIOUS
  <2>2. PICK p : p = made[pool[f]].port
    OBVIOUS
  <2>3. Own(f, p) /\ pool'[f] = pool[f] /\ made'[pool'[f]].port = p
    BY <1>3, <2>1, <2>2 DEF Milder, Lasting, MadeForGood
  <2>4. QED BY <1>2, <2>3
<1>5. \A g \in Handler : Up(g)' => Own(Fn(g), req[g].port)'
  <2>1. SUFFICES ASSUME NEW g \in Handler, Up(g)' PROVE Own(Fn(g), req[g].port)'
    OBVIOUS
  <2>2. Up(g) /\ req'[g].port = req[g].port /\ Fn(g)' = Fn(g)
    BY <2>1 DEF Others, Up, Fn
  <2>3. PICK f, p : f = Fn(g) /\ p = req[g].port /\ Own(f, p)
    BY <2>2 DEF SInv, PortInv
  <2>4. QED BY <1>2, <2>2, <2>3
<1>6. ASSUME NEW g \in Handler \ {h} PROVE CallOK(g)'
  <2>1. req'[g] = req[g] /\ Fn(g)' = Fn(g) /\ CallOK(g)
    BY DEF Others, Fn, SInv, PortInv
  <2>2. SUFFICES ASSUME At(g, "call"), phase' = "up", "overlap" \notin spoiled'[Fn(g)]
                 PROVE  CallOK(g)'
    BY <2>1 DEF CallOK, At
  <2>3. Fn(g) \in Function
    BY <2>2 DEF SInv, AInv, IInv, Known, KnownBy, At
  <2>4. "overlap" \notin spoiled[Fn(g)]
    BY <2>2, <2>3 DEF Milder, Lasting
  <2>5. PICK f, p : f = Fn(g) /\ p = req[g].port /\ Own(f, p)
    BY <2>1, <2>2, <2>4 DEF CallOK
  <2>6. Own(f, p)'
    BY <1>2, <2>5
  <2>7. \A k \in Handler : Owners(k)' => req'[k].port # p
    BY <2>1, <2>2, <2>4, <2>5 DEF CallOK, Others, Owners
  <2>8. owner'[p] = f /\ p \in Port /\ f \in Function
    BY <2>1, <2>2, <2>4, <2>5 DEF CallOK
  <2>9. req'[g].port = p /\ Fn(g)' = f
    BY <2>1, <2>5
  <2>10. QED BY <2>6, <2>7, <2>8, <2>9 DEF CallOK
<1>7. QED BY <1>4, <1>5, <1>6 DEF PortInv

\* A request moves on in the code and touches nothing but its own place.
LEMMA MoveSafe ==
  ASSUME SInv, NEW h \in Handler, Kept(h), Milder,
         UNCHANGED <<owner, store, code, made, pool, phase>>,
         req'[h].pc # "call",
         Owners(h)' => Owners(h) /\ req'[h].port = req[h].port,
         Up(h)' => Up(h), req'[h].pc \in Begun => req'[h].ctr = req[h].ctr,
         req[h].pc \in Late => req'[h].pc \in Late,
         \A f \in Function : f = Fn(h) /\ "overlap" \notin spoiled[f] /\ CodeOf(f) =>
           CodeAt(h, f, req'[h].pc)
  PROVE  Good'
<1>1. Others(h) /\ Fn(h)' = Fn(h) /\ req'[h].op = req[h].op /\ req'[h].version = req[h].version
  BY DEF Kept, Fn
<1>2. Alone'
  BY <1>1, AloneKept DEF Milder
<1>3. ASSUME NEW f \in Function, "overlap" \notin spoiled'[f] PROVE CodeOf(f)'
  <2>1. "overlap" \notin spoiled[f] /\ CodeOf(f)
    BY <1>3 DEF Milder, Lasting, SInv, CodeInv
  <2>2. Fn(h)' = f => CodeAt(h, f, req[h].pc)'
    BY <1>1, <2>1 DEF CodeAt, Fits
  <2>3. QED BY <1>1, <1>3, <2>1, <2>2, CodeKept DEF Milder
<1>4. PortInv'
  <2>1. Up(h)' => Up(h) /\ req'[h].port = req[h].port /\ Fn(h)' = Fn(h)
    BY <1>1 DEF Up, Owners, Begun
  <2>2. CallOK(h)'
    BY DEF CallOK, At
  <2>3. ASSUME NEW g \in Handler \ {h}, CallOK(g), At(g, "call"), phase' = "up",
               "overlap" \notin spoiled'[Fn(g)], Owners(h)'
        PROVE  req'[h].port # req[g].port
    <3>1. Fn(g) \in Function
      BY <2>3 DEF SInv, AInv, IInv, Known, KnownBy, At
    <3>2. QED BY <2>3, <3>1 DEF CallOK, Milder, Lasting
  <2>4. QED BY <1>1, <2>1, <2>2, <2>3, PortKept
<1>5. QED BY <1>2, <1>3, <1>4 DEF Good, CodeInv

\* A request is answered, and may give back the port it was to start a container on.
LEMMA AnswerSafe ==
  ASSUME SInv, NEW h \in Handler, Answer(h), Milder, req[h].pc \notin Late,
         UNCHANGED <<store, code, made, pool, phase>>,
         UNCHANGED owner \/ (Owners(h) /\ Release(req[h].port))
  PROVE  Good'
<1>1. Others(h) /\ req'[h] = Idle
  BY TypeSplit, AnswerFacts DEF SInv, AInv, IInv
<1>2. Fn(h)' \notin Function /\ req'[h].pc = "idle"
  BY <1>1, LambdaAssumption DEF Fn, Idle
<1>3. Alone'
  BY <1>1, <1>2, AloneKept DEF Milder
<1>4. ASSUME NEW f \in Function, "overlap" \notin spoiled'[f] PROVE CodeOf(f)'
  BY <1>1, <1>2, <1>4, CodeKept DEF Milder
<1>5. PortInv'
  <2>1. ~Up(h)' /\ CallOK(h)' /\ ~Owners(h)'
    BY <1>2 DEF Up, Begun, Starting, CallOK, At, Owners
  <2>2. ASSUME NEW g \in Handler \ {h}, CallOK(g), At(g, "call"), phase' = "up",
               "overlap" \notin spoiled'[Fn(g)]
        PROVE  owner'[req[g].port] = owner[req[g].port]
    <3>1. Fn(g) \in Function
      BY <2>2 DEF SInv, AInv, IInv, Known, KnownBy, At
    <3>2. req[g].port \in Port /\ (Owners(h) => req[h].port # req[g].port)
      BY <2>2, <3>1 DEF CallOK, Milder, Lasting
    <3>3. owner \in [Port -> Function \cup {NoResource}]
      BY DEF SInv, AInv, IInv, TypeOK
    <3>4. QED BY <3>2, <3>3 DEF Release
  <2>3. QED BY <1>1, <2>1, <2>2, PortKept
<1>6. QED BY <1>3, <1>4, <1>5 DEF Good, CodeInv

\* A request that changes a function changes its record or its code.
LEMMA WorkSafe ==
  ASSUME SInv, NEW h \in Handler, req[h].pc \in AtWork, Others(h), Milder,
         UNCHANGED <<owner, made, pool, phase>>,
         \A f \in Function \ {Fn(h)} : store'[f] = store[f] /\ code'[f] = code[f],
         Fn(h)' \in Function => Fn(h)' = Fn(h) /\ req'[h].op = req[h].op,
         req'[h].pc \notin Starting \cup {"call"},
         \A f \in Function : f = Fn(h) /\ "overlap" \notin spoiled[f] /\ CodeOf(f) =>
           /\ Fn(h)' = f => CodeAt(h, f, req[h].pc)'
           /\ Fits(code[f], f)' \/ (Fn(h)' = f /\ req'[h].pc \in Late)
           /\ pool[f] = None \/ (store'[f] = store[f] /\ store[f] # "absent")
  PROVE  Good'
<1>1. Alone'
  BY AloneKept DEF Milder
<1>2. ASSUME NEW f \in Function \ {Fn(h)}, "overlap" \notin spoiled'[f] PROVE CodeOf(f)'
  <2>1. Fn(h)' # f
    BY <1>2
  <2>2. QED BY <1>2, <2>1, CodeKept DEF Milder
<1>3. ASSUME NEW f \in Function, f = Fn(h), "overlap" \notin spoiled'[f] PROVE CodeOf(f)'
  <2>1. "overlap" \notin spoiled[f] /\ CodeOf(f)
    BY <1>3 DEF Milder, Lasting, SInv, CodeInv
  <2>2. \A g \in Handler \ {h} : Fn(g)' # f
    BY <1>3, <2>1, AtWorkAlone DEF Others, Fn
  <2>3. \A g \in Handler : Fn(g)' = f => CodeAt(g, f, req[g].pc)'
    BY <1>3, <2>1, <2>2
  <2>4. pool[f] # None => store'[f] # "absent" /\ Fits(made[pool[f]].code, f)'
    BY <1>3, <2>1 DEF CodeOf, Fits
  <2>5. (\A g \in Handler : Fn(g)' = f => req'[g].pc \notin Late) => Fits(code[f], f)'
    BY <1>3, <2>1
  <2>6. QED BY <2>3, <2>4, <2>5 DEF CodeOf, Fits
<1>4. PortInv'
  <2>1. ~Up(h)' /\ CallOK(h)' /\ ~Owners(h)'
    BY DEF Up, Begun, CallOK, At, Owners
  <2>2. QED BY <2>1, PortKept
<1>5. QED BY <1>1, <1>2, <1>3, <1>4 DEF Good, CodeInv

\* The request goes to the port of the pool entry.
LEMMA CallSafe ==
  ASSUME SInv, NEW h \in Handler, CallEntry(h), Fn(h) \in Function, pool[Fn(h)] # None,
         req[h].pc \in {"ensure", "lock"},
         UNCHANGED <<containers, owner, store, code, made, pool, phase, spoiled>>
  PROVE  Good'
<1>1. PICK f \in Function, p \in Port : f = Fn(h) /\ p = made[pool[f]].port
  BY DEF SInv, AInv, IInv, Known, Made
<1>2. Kept(h) /\ req'[h].pc = "call"
  BY <1>1, TypeSplit, CallFacts DEF SInv, AInv, IInv
<1>3. req'[h].port = p /\ Fn(h)' = f /\ req'[h].op = req[h].op /\ Others(h)
  <2>1. req \in Requests
    BY TypeSplit DEF SInv, AInv, IInv
  <2>2. QED BY <1>1, <1>2, <2>1 DEF CallEntry, Kept, Requests, Request, Fn
<1>4. Milder
  BY DEF Milder, Lasting, MadeForGood
<1>5. Alone'
  BY <1>1, <1>3, <1>4, AloneKept DEF Milder
<1>6. ASSUME NEW e \in Function, "overlap" \notin spoiled'[e] PROVE CodeOf(e)'
  <2>1. req[h].pc \notin Late /\ "call" \notin Starting \cup Begun \cup Late
    BY DEF Late, Starting, Begun
  <2>2. Fn(h)' = e /\ "overlap" \notin spoiled[e] => CodeAt(h, e, req[h].pc)'
    BY <1>1, <1>2, <1>3, <2>1 DEF SInv, CodeInv, CodeOf, CodeAt
  <2>3. QED BY <1>3, <1>4, <1>6, <2>1, <2>2, CodeKept DEF Milder
<1>7. PortInv'
  <2>1. ~Up(h)' /\ ~Owners(h)'
    BY <1>2 DEF Up, Begun, Owners, Starting
  <2>2. owner[p] = f /\ (\A g \in Handler : Owners(g) => req[g].port # p) /\ Own(f, p)
    BY <1>1 DEF SInv, AInv, IInv, OnePortOwner, PortInv
  <2>3. Own(f, p)' /\ \A g \in Handler : Owners(g)' => req'[g].port # p
    BY <1>3, <2>1, <2>2 DEF Own, Publishes, Others, Owners
  <2>4. CallOK(h)'
    BY <1>1, <1>3, <2>2, <2>3 DEF CallOK
  <2>5. QED BY <1>3, <1>4, <2>1, <2>4, PortKept
<1>8. QED BY <1>5, <1>6, <1>7 DEF Good, CodeInv

\* The container of h starts to run, when nobody listens on its port.
LEMMA StartSafe ==
  ASSUME SInv, NEW h \in Handler, At(h, "start"), Goto(h, "health"),
         ~\E c \in Container : Publishes(c, req[h].port),
         containers' = [containers EXCEPT ![req[h].ctr] = "running"],
         UNCHANGED <<owner, store, code, made, pool, phase, spoiled>>
  PROVE  Good'
<1>1. PICK c \in Container, f \in Function, p \in Port :
        /\ c = req[h].ctr /\ f = Fn(h) /\ p = req[h].port
        /\ containers[c] # "none" /\ made[c].fn = f /\ made[c].port = p
  <2>1. req[h].pc \in NeedsCtr /\ req[h].pc \in Starting \ {"create"}
    BY DEF At, NeedsCtr, Starting
  <2>2. QED BY <2>1, RefTyped DEF SInv, AInv, IInv, Linked, Accounts, Ref, Known, KnownBy, Owners
<1>2. /\ Kept(h) /\ req'[h].pc = "health" /\ req'[h].ctr = c /\ req'[h].port = p
      /\ Others(h) /\ Fn(h)' = f /\ req'[h].op = req[h].op
  BY <1>1, PcFacts, TypeSplit, GotoFacts DEF SInv, AInv, IInv, Kept, Fn
<1>3. /\ containers'[c] = "running"
      /\ \A d \in Container \ {c} : containers'[d] = containers[d]
  BY <1>1 DEF SInv, AInv, IInv, TypeOK, DockerTypeOK
<1>4. Lasting
  BY <1>1, <1>3 DEF Lasting, MadeForGood
<1>5. Alone'
  BY <1>1, <1>2, <1>4, AloneKept
<1>6. ASSUME NEW e \in Function, "overlap" \notin spoiled'[e] PROVE CodeOf(e)'
  <2>1. req[h].pc \notin Late /\ "health" \notin Late /\ "health" \in Starting \cap Begun
        /\ req[h].pc \in Starting \cap Begun
    BY DEF At, Late, Starting, Begun
  <2>2. Fn(h)' = e /\ "overlap" \notin spoiled[e] => CodeAt(h, e, req[h].pc)'
    <3>1. SUFFICES ASSUME e = f, "overlap" \notin spoiled[f] PROVE CodeAt(h, f, req[h].pc)'
      BY <1>2
    <3>2. CodeAt(h, f, "start")
      BY <1>1, <3>1 DEF SInv, CodeInv, CodeOf, At
    <3>3. store[f] # "absent" /\ Fits(made[c].code, f) /\ req[h].op # "create"
      BY <1>1, <2>1, <3>2 DEF CodeAt, At
    <3>4. QED BY <1>2, <2>1, <3>3 DEF CodeAt, Fits
  <2>3. QED BY <1>2, <1>4, <1>6, <2>1, <2>2, CodeKept
<1>7. PortInv'
  <2>1. \A e, q : Own(e, q) /\ q # p => Own(e, q)'
    BY <1>1, <1>3 DEF Own, Publishes
  <2>2. Own(f, p)'
    BY <1>1, <1>3 DEF Own, Publishes
  <2>3. ASSUME NEW e \in Function, pool[e] # None PROVE Own(e, made[pool[e]].port)'
    <3>1. PICK q : q = made[pool[e]].port
      OBVIOUS
    <3>2. Own(e, q) /\ q # p
      BY <1>1, <2>3, <3>1 DEF SInv, AInv, IInv, PortInv, OnePortOwner, Owners, At, Starting
    <3>3. Own(e, q)'
      BY <2>1, <3>2
    <3>4. QED BY <3>1, <3>3
  <2>4. ASSUME NEW g \in Handler, Up(g)' PROVE Own(Fn(g), req[g].port)'
    <3>1. CASE g = h
      BY <1>2, <2>2, <3>1
    <3>2. CASE g # h
      <4>1. req'[g] = req[g] /\ Fn(g)' = Fn(g) /\ Up(g) /\ Owners(g)
        BY <1>2, <2>4, <3>2 DEF Others, Up, Owners, Begun, Fn
      <4>2. PICK e, q : e = Fn(g) /\ q = req[g].port /\ Own(e, q)
        BY <4>1 DEF SInv, PortInv
      <4>3. q # p
        BY <1>1, <3>2, <4>1, <4>2 DEF SInv, AInv, IInv, OnePortOwner, Owners, At, Starting
      <4>4. Own(e, q)'
        BY <2>1, <4>2, <4>3
      <4>5. QED BY <4>1, <4>2, <4>4
    <3>3. QED BY <3>1, <3>2
  <2>5. ASSUME NEW g \in Handler, At(g, "call")', phase = "up", "overlap" \notin spoiled[Fn(g)']
        PROVE  CallOK(g)'
    <3>1. g # h /\ req'[g] = req[g] /\ Fn(g)' = Fn(g)
      BY <1>2, <2>5 DEF At, Others, Fn
    <3>2. PICK e \in Function, q \in Port :
            /\ e = Fn(g) /\ q = req[g].port /\ owner[q] = e /\ Own(e, q)
            /\ \A k \in Handler : Owners(k) => req[k].port # q
      BY <2>5, <3>1 DEF SInv, PortInv, CallOK, At
    <3>3. q # p
      BY <1>1, <3>2 DEF At, Owners, Starting
    <3>4. Own(e, q)'
      BY <2>1, <3>2, <3>3
    <3>5. \A k \in Handler : Owners(k)' => req'[k].port # q
      BY <1>2, <3>2, <3>3 DEF Others, Owners
    <3>6. req'[g].port = q /\ owner'[q] = e
      BY <3>1, <3>2
    <3>7. QED BY <3>1, <3>2, <3>4, <3>5, <3>6 DEF CallOK
  <2>6. \A g \in Handler : CallOK(g)'
    BY <2>5 DEF CallOK
  <2>7. QED BY <2>3, <2>4, <2>6 DEF PortInv
<1>8. QED BY <1>5, <1>6, <1>7 DEF Good, CodeInv

\* The container of h becomes the pool entry, whatever the entry was before.
LEMMA RegisterSafe ==
  ASSUME SInv, NEW h \in Handler, RegisterContainer(h)
  PROVE  Good'
<1>1. PICK c \in Container, f \in Function, p \in Port :
        /\ c = req[h].ctr /\ f = Fn(h) /\ p = req[h].port
        /\ containers[c] # "none" /\ made[c].fn = f /\ made[c].port = p
        /\ pool' = [pool EXCEPT ![f] = c]
  <2>1. req[h].pc \in NeedsCtr /\ req[h].pc \in Starting \ {"create"}
    BY DEF RegisterContainer, At, NeedsCtr, Starting
  <2>2. QED BY <2>1, RefTyped
            DEF RegisterContainer, Register, SInv, AInv, IInv, Linked, Accounts, Ref, Known, KnownBy, Owners
<1>2. req \in Requests /\ At(h, "register") /\ UNCHANGED <<containers, owner, store, code, made, phase, spoiled>>
  BY TypeSplit DEF SInv, AInv, IInv, RegisterContainer
<1>3. Kept(h) /\ req'[h].pc = "call" /\ req'[h].port = p
  <2>1. Kept(h) /\ req'[h].pc = "call"
    BY <1>2, RegisterFacts DEF RegisterContainer
  <2>2. QED BY <1>1, <1>2, <2>1 DEF RegisterContainer, Requests, Request
<1>4. Others(h) /\ Fn(h)' = f /\ req'[h].op = req[h].op
  BY <1>1, <1>3 DEF Kept, Fn
<1>5. Milder /\ Lasting
  BY <1>2 DEF Milder, Lasting, MadeForGood
<1>6. /\ pool'[f] = c /\ \A e \in Function \ {f} : pool'[e] = pool[e]
  BY <1>1 DEF SInv, AInv, IInv, TypeOK
<1>7. Alone'
  BY <1>1, <1>4, <1>5, AloneKept
<1>8. req[h].pc \in Starting \cap Begun /\ req[h].pc \in Begun \ {"start"} /\ req[h].pc \notin Late
      /\ "call" \notin Starting \cup Begun \cup Late
  BY <1>2 DEF At, Late, Starting, Begun
<1>9. ASSUME NEW e \in Function \ {f}, "overlap" \notin spoiled'[e] PROVE CodeOf(e)'
  BY <1>1, <1>2, <1>4, <1>5, <1>6, <1>8, <1>9, CodeKept
<1>10. ASSUME "overlap" \notin spoiled'[f] PROVE CodeOf(f)'
  <2>1. CodeOf(f) /\ "overlap" \notin spoiled[f] /\ CodeAt(h, f, req[h].pc)
    BY <1>1, <1>2, <1>10 DEF SInv, CodeInv, CodeOf
  <2>2. store[f] # "absent" /\ Fits(made[c].code, f) /\ req[h].op # "create"
    BY <1>1, <1>2, <1>8, <2>1 DEF CodeAt, At
  <2>3. ASSUME NEW g \in Handler \ {h}, Fn(g)' = f PROVE CodeAt(g, f, req[g].pc)'
    <3>1. req'[g] = req[g] /\ Fn(g) = f /\ CodeAt(g, f, req[g].pc)
      BY <1>4, <2>1, <2>3 DEF Others, Fn, CodeOf
    <3>2. req[g].op = "invoke"
      BY <1>1, <2>1, <2>3, <3>1 DEF SInv, Alone
    <3>3. req[g].pc \notin Late
      BY <3>2 DEF SInv, AInv, IInv, Known, KnownBy, AtWork, Late
    <3>4. QED BY <1>2, <3>1, <3>3 DEF CodeAt, Fits
  <2>4. CodeAt(h, f, req[h].pc)'
    BY <1>3, <1>4, <1>8, <2>2 DEF CodeAt
  <2>5. \A g \in Handler : Fn(g)' = f => CodeAt(g, f, req[g].pc)'
    BY <2>3, <2>4
  <2>6. \A g \in Handler : req'[g].pc \in Late => req[g].pc \in Late /\ Fn(g)' = Fn(g)
    BY <1>3, <1>4, <1>8 DEF Others, Fn
  <2>7. (\A g \in Handler : Fn(g)' = f => req'[g].pc \notin Late) => Fits(code[f], f)
    BY <1>1, <1>3, <1>4, <1>8, <2>1 DEF CodeOf, Others, Fn
  <2>8. QED BY <1>2, <1>6, <2>2, <2>5, <2>7 DEF CodeOf, Fits
<1>11. CodeInv'
  BY <1>9, <1>10 DEF CodeInv
<1>12. PortInv'
  <2>1. ASSUME NEW e, NEW q, Own(e, q) PROVE Own(e, q)'
    BY <1>2, <2>1 DEF Own, Publishes
  <2>2. Own(f, p) /\ owner[p] = f
    BY <1>1, <1>8 DEF SInv, PortInv, Up, AInv, IInv, OnePortOwner, Owners
  <2>3. Own(f, p)'
    BY <2>1, <2>2
  <2>4. ASSUME NEW e \in Function, pool'[e] # None PROVE Own(e, made[pool[e]].port)'
    <3>1. CASE e = f
      BY <1>1, <1>2, <1>6, <2>3, <3>1
    <3>2. CASE e # f
      <4>1. PICK q : q = made[pool[e]].port /\ Own(e, q)
        BY <1>6, <2>4, <3>2 DEF SInv, PortInv
      <4>2. Own(e, q)' /\ q = made'[pool'[e]].port
        BY <1>2, <1>6, <2>1, <3>2, <4>1
      <4>3. QED BY <4>2
    <3>3. QED BY <3>1, <3>2
  <2>5. ASSUME NEW g \in Handler, Up(g)' PROVE Own(Fn(g), req[g].port)'
    <3>1. g # h /\ req'[g] = req[g] /\ Fn(g)' = Fn(g) /\ Up(g)
      BY <1>3, <1>4, <1>8, <2>5 DEF Up, Others, Fn
    <3>2. PICK e, q : e = Fn(g) /\ q = req[g].port /\ Own(e, q)
      BY <3>1 DEF SInv, PortInv
    <3>3. Own(e, q)'
      BY <2>1, <3>2
    <3>4. QED BY <3>1, <3>2, <3>3
  <2>6. \A g \in Handler : Owners(g)' => g # h /\ Owners(g) /\ req'[g] = req[g]
    BY <1>3, <1>4, <1>8 DEF Owners, Others
  <2>7. CallOK(h)'
    <3>1. \A g \in Handler : Owners(g)' => req'[g].port # p
      BY <1>1, <1>8, <2>6 DEF SInv, AInv, IInv, OnePortOwner, Owners
    <3>2. owner'[p] = f /\ req'[h].port = p
      BY <1>2, <1>3, <2>2
    <3>3. QED BY <1>1, <1>4, <2>3, <3>1, <3>2 DEF CallOK
  <2>8. ASSUME NEW g \in Handler \ {h}, At(g, "call"), phase = "up", "overlap" \notin spoiled[Fn(g)]
        PROVE  CallOK(g)'
    <3>1. PICK e \in Function, q \in Port :
            /\ e = Fn(g) /\ q = req[g].port /\ owner[q] = e /\ Own(e, q)
            /\ \A k \in Handler : Owners(k) => req[k].port # q
      BY <2>8 DEF SInv, PortInv, CallOK
    <3>2. Own(e, q)' /\ owner'[q] = e
      BY <1>2, <2>1, <3>1
    <3>3. req'[g].port = q /\ Fn(g)' = e
      BY <1>4, <3>1 DEF Others, Fn
    <3>4. \A k \in Handler : Owners(k)' => req'[k].port # q
      BY <2>6, <3>1
    <3>5. QED BY <3>1, <3>2, <3>3, <3>4 DEF CallOK
  <2>9. \A g \in Handler \ {h} : CallOK(g)'
    <3>1. \A g \in Handler \ {h} : (At(g, "call")' <=> At(g, "call")) /\ Fn(g)' = Fn(g)
      BY <1>4 DEF Others, At, Fn
    <3>2. QED BY <1>2, <2>8, <3>1 DEF CallOK
  <2>10. QED BY <2>4, <2>5, <2>7, <2>9 DEF PortInv
<1>13. QED BY <1>7, <1>11, <1>12 DEF Good

\* A port that nobody holds is granted: no invocation is calling there.
LEMMA AllocateSafe ==
  ASSUME SInv, NEW h \in Handler, NEW p \in Port, At(h, "alloc"), Grant(Fn(h), p),
         req' = [req EXCEPT ![h].pc = "create", ![h].port = p],
         UNCHANGED <<containers, store, code, made, pool, phase, spoiled>>
  PROVE  Good'
<1>1. Kept(h) /\ req'[h].pc = "create" /\ req'[h].port = p
  BY TypeSplit, PortFacts DEF SInv, AInv, IInv
<1>2. Others(h) /\ Fn(h)' = Fn(h) /\ req'[h].op = req[h].op
  BY <1>1 DEF Kept, Fn
<1>3. Milder /\ Lasting
  BY DEF Milder, Lasting, MadeForGood
<1>4. Alone'
  BY <1>2, <1>3, AloneKept
<1>5. ASSUME NEW f \in Function, "overlap" \notin spoiled'[f] PROVE CodeOf(f)'
  <2>1. req[h].pc = "alloc" /\ {"alloc", "create"} \cap (Late \cup Begun) = {} /\ "create" \in Starting
    BY DEF At, Late, Begun, Starting
  <2>2. ASSUME Fn(h) = f PROVE CodeAt(h, f, req[h].pc)'
    <3>1. CodeAt(h, f, "alloc")
      BY <1>5, <2>1, <2>2 DEF SInv, CodeInv, CodeOf
    <3>2. store[f] # "absent" /\ req[h].op # "create"
      BY <3>1 DEF CodeAt
    <3>3. QED BY <1>1, <1>2, <2>1, <3>2 DEF CodeAt
  <2>3. QED BY <1>2, <1>3, <1>5, <2>1, <2>2, CodeKept
<1>6. PortInv'
  <2>1. ~Up(h)' /\ CallOK(h)'
    BY <1>1 DEF Up, Begun, CallOK, At
  <2>2. owner[p] = NoResource /\ owner' = [owner EXCEPT ![p] = Fn(h)]
        /\ owner \in [Port -> Function \cup {NoResource}] /\ NoResource \notin Function
    BY LambdaAssumption DEF Grant, SInv, AInv, IInv, TypeOK
  <2>3. ASSUME NEW g \in Handler \ {h}, At(g, "call"), phase = "up", "overlap" \notin spoiled[Fn(g)],
               CallOK(g)
        PROVE  owner'[req[g].port] = owner[req[g].port] /\ p # req[g].port
    BY <2>2, <2>3 DEF CallOK
  <2>4. QED BY <1>1, <1>2, <1>3, <2>1, <2>3, PortKept
<1>7. QED BY <1>4, <1>5, <1>6 DEF Good, CodeInv

\* A container is created with the code as it is, while nobody changes it.
LEMMA CreateSafe ==
  ASSUME SInv, NEW h \in Handler, NEW c \in Container, At(h, "create"), CreateContainer(c),
         made' = [made EXCEPT ![c] = [fn |-> Fn(h), port |-> req[h].port, code |-> code[Fn(h)]]],
         req' = [req EXCEPT ![h].pc = "start", ![h].ctr = c],
         UNCHANGED <<owner, store, code, pool, phase, spoiled>>
  PROVE  Good'
<1>1. Kept(h) /\ req'[h].pc = "start" /\ req'[h].ctr = c /\ req'[h].port = req[h].port
  BY TypeSplit, PcFacts, CtrFacts DEF SInv, AInv, IInv
<1>2. Others(h) /\ Fn(h)' = Fn(h) /\ req'[h].op = req[h].op
  BY <1>1 DEF Kept, Fn
<1>3. /\ containers[c] = "none" /\ containers'[c] = "created"
      /\ \A d \in Container \ {c} : containers'[d] = containers[d] /\ made'[d] = made[d]
      /\ made'[c].code = code[Fn(h)]
  BY DEF CreateContainer, SetState, SInv, AInv, IInv, TypeOK, DockerTypeOK
<1>4. Milder /\ Lasting
  BY <1>3 DEF Milder, Lasting, MadeForGood
<1>5. Alone'
  BY <1>2, <1>4, AloneKept
<1>6. ASSUME NEW f \in Function, "overlap" \notin spoiled'[f] PROVE CodeOf(f)'
  <2>1. req[h].pc = "create" /\ {"create", "start"} \cap Late = {}
        /\ "create" \in Starting /\ "start" \in Starting
    BY DEF At, Late, Starting
  <2>2. ASSUME Fn(h) = f PROVE CodeAt(h, f, req[h].pc)'
    <3>1. CodeOf(f) /\ CodeAt(h, f, "create")
      BY <1>6, <2>1, <2>2 DEF SInv, CodeInv, CodeOf
    <3>2. store[f] # "absent" /\ req[h].op # "create"
      BY <2>1, <3>1 DEF CodeAt
    <3>3. ASSUME NEW g \in Handler, Fn(g) = f PROVE req[g].pc \notin Late
      <4>1. CASE g = h
        BY <2>1, <4>1
      <4>2. CASE g # h
        <5>1. req[g].op = "invoke"
          BY <1>6, <2>2, <3>3, <4>2 DEF SInv, Alone
        <5>2. QED BY <5>1 DEF SInv, AInv, IInv, Known, KnownBy, AtWork, Late
      <4>3. QED BY <4>1, <4>2
    <3>4. Fits(code[f], f)
      BY <3>1, <3>3 DEF CodeOf
    <3>5. QED BY <1>1, <1>2, <1>3, <2>1, <2>2, <3>2, <3>4 DEF CodeAt, Fits
  <2>3. QED BY <1>2, <1>4, <1>6, <2>1, <2>2, CodeKept
<1>7. PortInv'
  <2>1. ~Up(h)' /\ CallOK(h)'
    BY <1>1 DEF Up, CallOK, At
  <2>2. ASSUME NEW g \in Handler \ {h}, At(g, "call"), phase = "up", "overlap" \notin spoiled[Fn(g)],
               CallOK(g)
        PROVE  req[h].port # req[g].port
    BY <2>2 DEF CallOK, Owners, At, Starting
  <2>3. QED BY <1>1, <1>2, <1>4, <2>1, <2>2, PortKept
<1>8. QED BY <1>5, <1>6, <1>7 DEF Good, CodeInv

\* The pool entry is taken away and its port released, while nobody calls there.
LEMMA TakeSafe ==
  ASSUME SInv, NEW h \in Handler, TakeEntry(h), pool[Fn(h)] # None
  PROVE  Good'
<1>1. PICK f \in Function, c \in Container :
        /\ f = Fn(h) /\ c = pool[f] /\ made[c].port \in Port /\ owner[made[c].port] = f
        /\ pool' = [pool EXCEPT ![f] = None] /\ Release(made[c].port)
        /\ req' = [req EXCEPT ![h].pc = "stop", ![h].ctr = c]
  <2>1. Fn(h) \in Function
    BY DEF TakeEntry, At, SInv, AInv, IInv, Known, KnownBy
  <2>2. pool[Fn(h)] \in Container /\ made[pool[Fn(h)]] \in Made
    BY <2>1 DEF SInv, AInv, IInv, TypeOK, Known
  <2>3. owner[made[pool[Fn(h)]].port] = Fn(h)
    BY <2>1 DEF SInv, AInv, IInv, OnePortOwner
  <2>4. QED BY <2>1, <2>2, <2>3 DEF TakeEntry, Register, Made
<1>2. At(h, "take") /\ UNCHANGED <<containers, store, code, made, phase, spoiled>>
  BY DEF TakeEntry
<1>3. Kept(h) /\ req'[h].pc = "stop"
  BY <1>1, TypeSplit, PcFacts, CtrFacts DEF SInv, AInv, IInv
<1>4. /\ Others(h) /\ Fn(h)' = Fn(h) /\ req'[h].op = req[h].op
      /\ req'[h].version = req[h].version
  BY <1>3 DEF Kept, Fn
<1>5. Milder /\ Lasting
  BY <1>2 DEF Milder, Lasting, MadeForGood
<1>6. /\ pool'[f] = None /\ \A e \in Function \ {f} : pool'[e] = pool[e]
      /\ \A e \in Function : pool'[e] \in {pool[e], None}
  BY <1>1 DEF SInv, AInv, IInv, TypeOK
<1>7. Alone'
  BY <1>4, <1>5, AloneKept
<1>8. ASSUME NEW e \in Function, "overlap" \notin spoiled'[e] PROVE CodeOf(e)'
  <2>1. req[h].pc = "take" /\ "take" \in Late /\ "stop" \in Late /\ "stop" \notin Begun \cup Starting
    BY <1>2 DEF At, Late, Starting, Begun
  <2>2. ASSUME Fn(h) = e PROVE CodeAt(h, e, req[h].pc)'
    <3>1. CodeAt(h, e, "take")
      BY <1>2, <1>8, <2>1, <2>2 DEF SInv, CodeInv, CodeOf
    <3>2. QED BY <1>1, <1>2, <1>3, <1>4, <1>6, <2>1, <2>2, <3>1 DEF CodeAt
  <2>3. QED BY <1>2, <1>4, <1>3, <1>5, <1>6, <1>8, <2>1, <2>2, CodeKept
<1>9. PortInv'
  <2>1. ~Up(h)' /\ CallOK(h)' /\ ~Owners(h)'
    BY <1>3 DEF Up, Begun, Starting, CallOK, At, Owners
  <2>2. ASSUME NEW g \in Handler \ {h}, At(g, "call"), phase = "up", "overlap" \notin spoiled[Fn(g)],
               CallOK(g)
        PROVE  owner'[req[g].port] = owner[req[g].port]
    <3>1. req[g].port \in Port /\ owner[req[g].port] = Fn(g)
      BY <2>2 DEF CallOK
    <3>2. Fn(g) # f
      BY <1>1, <1>2, <2>2, AtWorkAlone DEF At, AtWork
    <3>3. owner \in [Port -> Function \cup {NoResource}]
      BY DEF SInv, AInv, IInv, TypeOK
    <3>4. QED BY <1>1, <3>1, <3>2, <3>3 DEF Release
  <2>3. QED BY <1>2, <1>4, <1>5, <1>6, <2>1, <2>2, PortKept
<1>10. QED BY <1>7, <1>8, <1>9 DEF Good, CodeInv

\* A request for f comes in; from now on f is spoiled if this one or one under way
\* changes it.
LEMMA BeginSafe ==
  ASSUME SInv, NEW h \in Handler, NEW op \in Ops, NEW f \in Function,
         NEW v \in Version \cup {"none"}, Begin(h, op, f, v)
  PROVE  Good'
<1>1. /\ Others(h) /\ req'[h].pc = "get" /\ Fn(h)' = f /\ req'[h].op = op /\ req[h].pc = "idle"
      /\ UNCHANGED <<containers, owner, store, code, made, pool, phase>>
  <2>1. req \in Requests
    BY TypeSplit DEF SInv, AInv, IInv
  <2>2. Others(h) /\ req'[h].pc = "get" /\ req'[h].fn = f /\ req'[h].op = op
    BY <2>1, BeginFacts
  <2>3. QED BY <2>2 DEF Begin, At, Fn
<1>2. /\ \A e \in Function : "overlap" \in spoiled[e] => "overlap" \in spoiled'[e]
      /\ \A g \in Handler : Fn(g) = f /\ "overlap" \notin spoiled'[f] =>
           op = "invoke" /\ req[g].op = "invoke"
  BY DEF Begin, Mishap, Admin, SInv, AInv, IInv, TypeOK
<1>3. Milder /\ Lasting
  BY <1>1, <1>2 DEF Milder, Lasting, MadeForGood
<1>4. Alone'
  <2>1. SUFFICES ASSUME NEW g \in Handler, NEW k \in Handler, g # k, Fn(g)' = Fn(k)', Fn(g)' \in Function,
                        "overlap" \notin spoiled'[Fn(g)']
                 PROVE  req'[g].op = "invoke" /\ req'[k].op = "invoke"
    BY DEF Alone
  <2>2. CASE g = h
    BY <1>1, <1>2, <2>1, <2>2 DEF Others, Fn
  <2>3. CASE k = h
    BY <1>1, <1>2, <2>1, <2>3 DEF Others, Fn
  <2>4. CASE g # h /\ k # h
    BY <1>1, <1>2, <2>1, <2>4 DEF Others, Fn, SInv, Alone
  <2>5. QED BY <2>2, <2>3, <2>4
<1>5. ASSUME NEW e \in Function, "overlap" \notin spoiled'[e] PROVE CodeOf(e)'
  <2>1. "idle" \notin Late /\ "get" \notin Starting \cup Begun \cup Late
    BY DEF Late, Starting, Begun
  <2>2. CodeAt(h, e, req[h].pc)'
    BY <1>1, <2>1 DEF CodeAt
  <2>3. QED BY <1>1, <1>3, <1>5, <2>1, <2>2, CodeKept
<1>6. PortInv'
  <2>1. ~Up(h)' /\ CallOK(h)' /\ ~Owners(h)'
    BY <1>1 DEF Up, Begun, Starting, CallOK, At, Owners
  <2>2. QED BY <1>1, <1>3, <2>1, PortKept
<1>7. QED BY <1>4, <1>5, <1>6 DEF Good, CodeInv

LEMMA GotoSafe ==
  ASSUME SInv, NEW h \in Handler, NEW pc \in Pc, Goto(h, pc), Milder,
         UNCHANGED <<owner, store, code, made, pool, phase>>,
         pc # "call", pc \in Starting => Owners(h), pc \in Begun \ {"start"} => Up(h),
         req[h].pc \in Late => pc \in Late,
         \A f \in Function : f = Fn(h) /\ "overlap" \notin spoiled[f] /\ CodeOf(f) => CodeAt(h, f, pc)
  PROVE  Good'
<1>1. Kept(h) /\ req'[h].pc = pc /\ req'[h].ctr = req[h].ctr /\ req'[h].port = req[h].port
  BY TypeSplit, GotoFacts DEF SInv, AInv, IInv
<1>2. Owners(h)' => Owners(h)
  BY <1>1 DEF Owners
<1>3. Up(h)' => Up(h)
  BY <1>1 DEF Up
<1>4. QED BY <1>1, <1>2, <1>3, MoveSafe

LEMMA UnchangedMilder == ASSUME UNCHANGED <<containers, made, spoiled>> PROVE Milder
BY DEF Milder, Lasting, MadeForGood

\* A container that is stopped or removed does not start to run.
LEMMA StopMilder ==
  ASSUME SInv, NEW c \in Container, NEW ok \in BOOLEAN, StopContainer(c, ok), UNCHANGED <<made, spoiled>>
  PROVE  Milder
BY DEF StopContainer, SetState, Fails, SInv, AInv, IInv, TypeOK, DockerTypeOK, Milder, Lasting, MadeForGood

LEMMA MishapLasts ==
  ASSUME SInv, NEW f \in Function, NEW why, Mishap(f, why) \/ UNCHANGED spoiled
  PROVE  \A e \in Function : "overlap" \in spoiled[e] => "overlap" \in spoiled'[e]
BY DEF Mishap, SInv, AInv, IInv, TypeOK

LEMMA RemovalMilder ==
  ASSUME SInv, NEW c \in Container, NEW f \in Function, RemoveOrLose(c, f), UNCHANGED made
  PROVE  Milder
<1>1. \A e \in Function : "overlap" \in spoiled[e] => "overlap" \in spoiled'[e]
  BY MishapLasts DEF RemoveOrLose
<1>2. \/ UNCHANGED containers
      \/ containers' = [containers EXCEPT ![c] = "removed"]
  BY DEF RemoveOrLose, RemoveContainer, SetState, Fails
<1>3. DockerTypeOK
  BY DEF SInv, AInv, IInv, TypeOK
<1>4. QED BY <1>1, <1>2, <1>3 DEF DockerTypeOK, Milder, Lasting, MadeForGood

\* What happens at each place in the code, in the order of the handlers.
LEMMA InvokeSafe ==
  ASSUME SInv, NEW h \in Handler,
         \/ GetFunction(h) \/ CheckLimit(h) \/ EnsureContainer(h) \/ LockStartup(h)
         \/ AllocatePort(h) \/ CallRIE(h)
  PROVE  Good'
<1>0. /\ req \in Requests /\ req[h] \in Request /\ KnownBy(h)
      /\ pool \in [Function -> Container \cup {None}]
  BY TypeSplit DEF SInv, AInv, IInv, Known, TypeOK, Requests
<1>1. CASE GetFunction(h)
  <2>1. Milder /\ req[h].pc = "get" /\ UNCHANGED <<owner, store, code, made, pool, phase>>
    BY <1>1, UnchangedMilder DEF GetFunction, At
  <2>2. CASE Answer(h)
    BY <2>1, <2>2, AnswerSafe DEF Late
  <2>3. CASE store[Fn(h)] # "absent" /\ req[h].op = "delete" /\ Goto(h, "take")
    <3>1. \A f : CodeAt(h, f, "take")
      BY <2>3 DEF CodeAt, Starting, Begun
    <3>2. QED BY <2>1, <2>3, <3>1, PcFacts, GotoSafe DEF Late, Starting, Begun
  <2>4. CASE store[Fn(h)] # "absent" /\ req[h].op = "update" /\ Goto(h, "wipe")
    <3>1. \A f : CodeAt(h, f, "wipe")
      BY <2>4 DEF CodeAt, Starting, Begun, Late
    <3>2. QED BY <2>1, <2>4, <3>1, PcFacts, GotoSafe DEF Late, Starting, Begun
  <2>5. CASE store[Fn(h)] # "absent" /\ req[h].op = "invoke" /\ Goto(h, "limit")
    <3>1. CodeAt(h, Fn(h), "limit")
      BY <2>5 DEF CodeAt, Starting, Begun, Late
    <3>2. QED BY <2>1, <2>5, <3>1, PcFacts, GotoSafe DEF Late, Starting, Begun
  <2>6. CASE store[Fn(h)] = "absent" /\ req[h].op = "create" /\ Goto(h, "deploy")
    <3>1. CodeAt(h, Fn(h), "deploy")
      BY <2>6 DEF CodeAt, Starting, Begun, Late
    <3>2. QED BY <2>1, <2>6, <3>1, PcFacts, GotoSafe DEF Late, Starting, Begun
  <2>7. req[h].op \in {"create", "delete", "update", "invoke"}
    BY <1>0, <2>1 DEF KnownBy, At, Request
  <2>8. QED BY <1>1, <2>2, <2>3, <2>4, <2>5, <2>6, <2>7 DEF GetFunction
<1>2. CASE CheckLimit(h)
  <2>1. Milder /\ req[h].pc = "limit" /\ UNCHANGED <<owner, store, code, made, pool, phase>>
    BY <1>2, UnchangedMilder DEF CheckLimit, At
  <2>2. CASE Answer(h)
    BY <2>1, <2>2, AnswerSafe DEF Late
  <2>3. CASE Goto(h, "ensure")
    <3>1. \A f : CodeAt(h, f, "limit") => CodeAt(h, f, "ensure")
      BY DEF CodeAt, Starting, Begun, Late
    <3>2. \A f \in Function : f = Fn(h) /\ CodeOf(f) => CodeAt(h, f, "ensure")
      BY <2>1, <3>1 DEF CodeOf
    <3>3. QED BY <2>1, <2>3, <3>2, PcFacts, GotoSafe DEF Late, Starting, Begun
  <2>4. QED BY <1>2, <2>2, <2>3 DEF CheckLimit
<1>3. CASE EnsureContainer(h)
  <2>1. /\ Milder /\ req[h].pc = "ensure" /\ Fn(h) \in Function
        /\ UNCHANGED <<containers, owner, store, code, made, pool, phase, spoiled>>
    BY <1>0, <1>3, UnchangedMilder DEF EnsureContainer, At, KnownBy
  <2>2. CASE CallEntry(h) /\ pool[Fn(h)] # None
    BY <2>1, <2>2, CallSafe
  <2>3. ASSUME NEW e \in Entry, req' = [req EXCEPT ![h].pc = "lock", ![h].entry = e]
        PROVE  Good'
    <3>1. Kept(h) /\ req'[h].pc = "lock"
      BY <1>0, <2>3, WaitFacts
    <3>2. ~Owners(h)' /\ ~Up(h)' /\ req'[h].pc \notin Begun /\ req[h].pc \notin Late
      BY <2>1, <3>1 DEF Owners, Up, Begun, Starting, Late
    <3>3. \A f : CodeAt(h, f, "ensure") => CodeAt(h, f, "lock")
      BY DEF CodeAt, Starting, Begun, Late
    <3>4. \A f \in Function : f = Fn(h) /\ CodeOf(f) => CodeAt(h, f, req'[h].pc)
      BY <2>1, <3>1, <3>3 DEF CodeOf
    <3>5. QED BY <2>1, <3>1, <3>2, <3>4, MoveSafe
  <2>4. startup[Fn(h)] # None => startup[Fn(h)] \in Entry
    BY <2>1 DEF SInv, AInv, IInv, TypeOK
  <2>5. QED BY <1>3, <2>2, <2>3, <2>4 DEF EnsureContainer
<1>4. CASE LockStartup(h)
  <2>1. /\ Milder /\ req[h].pc = "lock" /\ Fn(h) \in Function
        /\ UNCHANGED <<containers, owner, store, code, made, pool, phase, spoiled>>
    BY <1>0, <1>4, UnchangedMilder DEF LockStartup, At, KnownBy
  <2>2. CASE CallEntry(h) /\ pool[Fn(h)] # None
    BY <2>1, <2>2, CallSafe
  <2>3. CASE Goto(h, "alloc")
    <3>1. \A f : CodeAt(h, f, "lock") => CodeAt(h, f, "alloc")
      BY DEF CodeAt, Starting, Begun, Late
    <3>2. \A f \in Function : f = Fn(h) /\ CodeOf(f) => CodeAt(h, f, "alloc")
      BY <2>1, <3>1 DEF CodeOf
    <3>3. QED BY <2>1, <2>3, <3>2, PcFacts, GotoSafe DEF Late, Starting, Begun
  <2>4. QED BY <1>4, <2>2, <2>3 DEF LockStartup
<1>5. CASE AllocatePort(h)
  <2>1. CASE GiveUp(h) /\ UNCHANGED owner
    BY <1>5, <2>1, UnchangedMilder, AnswerSafe DEF AllocatePort, GiveUp, At, Late
  <2>2. QED BY <1>5, <2>1, AllocateSafe DEF AllocatePort
<1>6. CASE CallRIE(h)
  BY <1>6, UnchangedMilder, AnswerSafe DEF CallRIE, At, Late
<1>7. QED BY <1>1, <1>2, <1>3, <1>4, <1>5, <1>6

LEMMA StartingSafe ==
  ASSUME SInv, NEW h \in Handler,
         \/ Create(h) \/ Start(h) \/ WaitRIEHealthy(h) \/ UnhealthyStop(h)
         \/ UnhealthyRemove(h) \/ RegisterContainer(h)
  PROVE  Good'
<1>0. /\ req \in Requests /\ KnownBy(h)
      /\ req[h].pc \in NeedsCtr => req[h].ctr \in Container /\ Fn(h) \in Function
  BY TypeSplit, RefTyped DEF SInv, AInv, IInv, Known
<1>p. \A f, pc : pc \in {"start", "health", "healthStop"} /\ CodeAt(h, f, pc) =>
        \A q \in {"health", "register", "healthStop", "healthRemove"} : CodeAt(h, f, q)
  BY DEF CodeAt, Starting, Begun, Late
<1>c. \A pc \in {"start", "health", "healthStop"}, q \in {"health", "register", "healthStop", "healthRemove"},
         f \in Function : f = Fn(h) /\ CodeOf(f) /\ req[h].pc = pc => CodeAt(h, f, q)
  BY <1>p DEF CodeOf
<1>1. CASE Create(h)
  <2>1. CASE GiveUp(h) /\ Release(req[h].port) /\ UNCHANGED <<containers, made>>
    <3>1. /\ Milder /\ Owners(h) /\ req[h].pc \notin Late
          /\ UNCHANGED <<store, code, made, pool, phase>>
      BY <1>1, <2>1, UnchangedMilder DEF Create, At, Owners, Starting, Late
    <3>2. QED BY <2>1, <3>1, AnswerSafe DEF GiveUp
  <2>2. QED BY <1>1, <2>1, CreateSafe DEF Create
<1>2. CASE Start(h)
  <2>0. /\ req[h].pc = "start" /\ Owners(h) /\ req[h].pc \notin Late /\ req[h].pc \in NeedsCtr
        /\ UNCHANGED <<store, code, made, pool, phase>>
    BY <1>2 DEF Start, At, Owners, Starting, Late, NeedsCtr
  <2>1. CASE /\ ~\E c \in Container : Publishes(c, req[h].port)
             /\ StartContainer(req[h].ctr, TRUE) /\ Goto(h, "health")
             /\ UNCHANGED <<owner, spoiled>>
    BY <2>0, <2>1, StartSafe DEF StartContainer, SetState, At
  <2>2. CASE UNCHANGED containers /\ GiveUp(h) /\ Release(req[h].port) /\ Mishap(Fn(h), "loose")
    <3>1. Milder
      BY <1>0, <2>0, <2>2, MishapLasts DEF Milder, Lasting, MadeForGood
    <3>2. QED BY <2>0, <2>2, <3>1, AnswerSafe DEF GiveUp
  <2>3. QED BY <1>2, <2>1, <2>2 DEF Start, StartContainer, Fails
<1>3. CASE WaitRIEHealthy(h)
  <2>1. PICK pc \in {"register", "healthStop"} : Goto(h, pc)
    BY <1>3 DEF WaitRIEHealthy
  <2>2. /\ req[h].pc = "health" /\ Milder /\ UNCHANGED <<owner, store, code, made, pool, phase>>
    BY <1>3, UnchangedMilder DEF WaitRIEHealthy, At
  <2>3. Owners(h) /\ Up(h) /\ req[h].pc \notin Late /\ pc \in Pc
    BY <2>2, PcFacts DEF Owners, Up, Begun, Starting, Late
  <2>4. \A f \in Function : f = Fn(h) /\ CodeOf(f) => CodeAt(h, f, pc)
    BY <1>c, <2>2
  <2>5. QED BY <2>1, <2>2, <2>3, <2>4, GotoSafe
<1>4. CASE UnhealthyStop(h)
  <2>1. /\ req[h].pc = "healthStop" /\ UNCHANGED <<owner, store, code, made, pool, phase, spoiled>>
        /\ Goto(h, "healthRemove")
    BY <1>4 DEF UnhealthyStop, At
  <2>2. Owners(h) /\ Up(h) /\ req[h].pc \notin Late /\ req[h].pc \in NeedsCtr
    BY <2>1 DEF Owners, Up, Begun, Starting, Late, NeedsCtr
  <2>3. Milder
    BY <1>0, <1>4, <2>1, <2>2, StopMilder DEF UnhealthyStop
  <2>4. \A f \in Function : f = Fn(h) /\ CodeOf(f) => CodeAt(h, f, "healthRemove")
    BY <1>c, <2>1
  <2>5. QED BY <2>1, <2>2, <2>3, <2>4, PcFacts, GotoSafe
<1>5. CASE UnhealthyRemove(h)
  <2>1. /\ Owners(h) /\ req[h].pc \notin Late /\ req[h].pc \in NeedsCtr
        /\ UNCHANGED <<store, code, made, pool, phase>>
    BY <1>5 DEF UnhealthyRemove, At, Owners, Starting, Late, NeedsCtr
  <2>2. Milder
    BY <1>0, <1>5, <2>1, RemovalMilder DEF UnhealthyRemove
  <2>3. QED BY <1>5, <2>1, <2>2, AnswerSafe DEF UnhealthyRemove, GiveUp
<1>6. CASE RegisterContainer(h)
  BY <1>6, RegisterSafe
<1>7. QED BY <1>1, <1>2, <1>3, <1>4, <1>5, <1>6

LEMMA ChangeSafe ==
  ASSUME SInv, NEW h \in Handler,
         \/ Wipe(h) \/ DeployZipFile(h) \/ TakeEntry(h) \/ StopTaken(h) \/ RemoveTaken(h)
         \/ CommitRecord(h) \/ RemoveCode(h)
  PROVE  Good'
<1>0. /\ req \in Requests /\ KnownBy(h)
      /\ code \in [Function -> Deployed] /\ store \in [Function -> Recorded]
      /\ req[h].pc \in NeedsCtr => req[h].ctr \in Container /\ Fn(h) \in Function
  BY TypeSplit, RefTyped DEF SInv, AInv, IInv, Known, TypeOK
<1>1. /\ req[h].pc \in AtWork /\ req[h].pc \notin Starting
      /\ req[h].op \in {"create", "update", "delete"} /\ Fn(h) \in Function
  <2>1. req[h].pc \in AtWork
    BY DEF Wipe, DeployZipFile, TakeEntry, StopTaken, RemoveTaken, CommitRecord, RemoveCode, At, AtWork
  <2>2. QED BY <1>0, <2>1 DEF KnownBy, At, AtWork, Starting
<1>f. PICK f \in Function : f = Fn(h)
  BY <1>1
<1>a. ASSUME Answer(h) PROVE Others(h) /\ req'[h] = Idle /\ Fn(h)' # f /\ Fn(h)' \notin Function
  BY <1>0, <1>a, <1>f, AnswerFacts, LambdaAssumption DEF Idle, Fn
<1>g. ASSUME NEW pc \in Pc, Goto(h, pc)
      PROVE  /\ Others(h) /\ req'[h].pc = pc /\ req'[h].op = req[h].op /\ Fn(h)' = f
             /\ req'[h].version = req[h].version
  BY <1>0, <1>g, <1>f, GotoFacts DEF Kept, Fn
<1>i. Idle.pc \notin Starting \cup {"call"}
  BY DEF Idle, Starting
<1>2. CASE Wipe(h)
  <2>1. /\ Milder /\ req[h].pc = "wipe" /\ Goto(h, "deploy") /\ code' = [code EXCEPT ![f] = "empty"]
        /\ UNCHANGED <<owner, made, pool, phase, store>>
    BY <1>2, <1>f, UnchangedMilder DEF Wipe, At
  <2>2. "deploy" \in Pc /\ "deploy" \notin Starting \cup {"call"} \cup Begun \cup Late
    BY PcFacts DEF Starting, Begun, Late
  <2>3. ASSUME CodeOf(f)
        PROVE  CodeAt(h, f, req[h].pc)' /\ Fits(code[f], f)' /\ (pool[f] = None \/ store[f] # "absent")
    <3>1. CodeAt(h, f, "wipe")
      BY <1>f, <2>1, <2>3 DEF CodeOf
    <3>2. req[h].op # "create"
      BY <3>1 DEF CodeAt
    <3>3. CodeAt(h, f, req[h].pc)'
      BY <1>g, <2>1, <2>2, <3>2 DEF CodeAt
    <3>4. QED BY <1>0, <2>1, <2>3, <3>3 DEF CodeOf, Fits
  <2>4. QED BY <1>0, <1>1, <1>f, <1>g, <2>1, <2>2, <2>3, WorkSafe
<1>3. CASE DeployZipFile(h) /\ code' = [code EXCEPT ![f] = "broken"] /\ Answer(h)
  <2>1. Milder /\ UNCHANGED <<owner, made, pool, phase, store>>
    BY <1>3, UnchangedMilder DEF DeployZipFile
  <2>2. ASSUME CodeOf(f) PROVE Fits(code[f], f)' /\ (pool[f] = None \/ store[f] # "absent")
    BY <1>0, <1>3, <2>2 DEF CodeOf, Fits
  <2>3. QED BY <1>0, <1>1, <1>3, <1>f, <1>a, <1>i, <2>1, <2>2, WorkSafe
<1>4. ASSUME DeployZipFile(h), code' = [code EXCEPT ![f] = req[h].version],
             Goto(h, IF req[h].op = "create" THEN "commit" ELSE "take")
      PROVE  Good'
  <2>1. Milder /\ req[h].pc = "deploy" /\ UNCHANGED <<owner, made, pool, phase, store>>
    BY <1>4, UnchangedMilder DEF DeployZipFile, At
  <2>2. PICK pc \in {"commit", "take"} : Goto(h, pc) /\ (pc = "commit" <=> req[h].op = "create")
    BY <1>4
  <2>3. pc \in Pc /\ pc \in Late /\ pc \notin Starting \cup {"call"} \cup Begun /\ pc # "limit" /\ pc # "ensure"
        /\ pc # "lock" /\ pc # "alloc"
    BY PcFacts DEF Starting, Begun, Late
  <2>4. ASSUME CodeOf(f)
        PROVE  CodeAt(h, f, req[h].pc)' /\ (pool[f] = None \/ store[f] # "absent")
    <3>1. CodeAt(h, f, "deploy")
      BY <1>f, <2>1, <2>4 DEF CodeOf
    <3>2. req[h].op = "create" => store[f] = "absent" /\ pool[f] = None
      BY <2>4, <3>1 DEF CodeAt, CodeOf
    <3>3. code'[f] = req[h].version
      BY <1>0, <1>4
    <3>4. CodeAt(h, f, req[h].pc)'
      BY <1>g, <2>1, <2>2, <2>3, <3>2, <3>3 DEF CodeAt
    <3>5. QED BY <2>4, <3>4 DEF CodeOf
  <2>5. \A e \in Function \ {f} : code'[e] = code[e]
    BY <1>0, <1>4
  <2>6. QED BY <1>1, <1>f, <1>g, <2>1, <2>2, <2>3, <2>4, <2>5, WorkSafe
<1>5. CASE TakeEntry(h)
  <2>1. CASE pool[f] = None
    <3>1. /\ Milder /\ req[h].pc = "take" /\ Goto(h, "commit")
          /\ UNCHANGED <<owner, store, code, made, pool, phase>>
      BY <1>5, <1>f, <2>1, UnchangedMilder DEF TakeEntry, At
    <3>2. CodeAt(h, f, "take") => CodeAt(h, f, "commit")
      BY <2>1 DEF CodeAt, Starting, Begun, Late
    <3>3. \A e \in Function : e = Fn(h) /\ CodeOf(e) => CodeAt(h, e, "commit")
      BY <1>f, <3>1, <3>2 DEF CodeOf
    <3>4. "commit" \in Pc /\ "commit" \in Late /\ "commit" \notin Starting \cup Begun
      BY PcFacts DEF Late, Starting, Begun
    <3>5. QED BY <3>1, <3>3, <3>4, GotoSafe
  <2>2. QED BY <1>5, <1>f, <2>1, TakeSafe
<1>6. CASE StopTaken(h)
  <2>1. /\ req[h].pc = "stop" /\ Goto(h, "remove")
        /\ UNCHANGED <<owner, store, code, made, pool, phase, spoiled>>
    BY <1>6 DEF StopTaken, At
  <2>2. Milder
    BY <1>0, <1>6, <2>1, StopMilder DEF StopTaken, NeedsCtr
  <2>3. CodeAt(h, f, "stop") => CodeAt(h, f, "remove")
    BY DEF CodeAt, Starting, Begun, Late
  <2>4. \A e \in Function : e = Fn(h) /\ CodeOf(e) => CodeAt(h, e, "remove")
    BY <1>f, <2>1, <2>3 DEF CodeOf
  <2>5. "remove" \in Pc /\ "remove" \in Late /\ "remove" \notin Starting \cup Begun
    BY PcFacts DEF Late, Starting, Begun
  <2>6. QED BY <2>1, <2>2, <2>4, <2>5, GotoSafe
<1>7. CASE RemoveTaken(h)
  <2>1. /\ req[h].pc = "remove" /\ UNCHANGED <<owner, store, code, made, pool, phase>>
    BY <1>7 DEF RemoveTaken, At
  <2>2. Milder
    BY <1>0, <1>7, <2>1, RemovalMilder DEF RemoveTaken, NeedsCtr
  <2>3. Kept(h) /\ req'[h].pc = "commit"
    BY <1>0, <1>7, PcFacts, CtrFacts DEF RemoveTaken
  <2>4. CodeAt(h, f, "remove") => CodeAt(h, f, "commit")
    BY DEF CodeAt, Starting, Begun, Late
  <2>5. \A e \in Function : e = Fn(h) /\ CodeOf(e) => CodeAt(h, e, req'[h].pc)
    BY <1>f, <2>1, <2>3, <2>4 DEF CodeOf
  <2>6. ~Owners(h)' /\ ~Up(h)' /\ req'[h].pc \notin Begun /\ req'[h].pc \in Late
    BY <2>3 DEF Owners, Up, Begun, Starting, Late
  <2>7. QED BY <2>1, <2>2, <2>3, <2>5, <2>6, MoveSafe
<1>8. CASE CommitRecord(h)
  <2>1. /\ Milder /\ req[h].pc = "commit" /\ UNCHANGED <<owner, made, pool, phase, code>>
    BY <1>8, UnchangedMilder DEF CommitRecord, At
  <2>2. ASSUME CodeOf(f)
        PROVE  pool[f] = None /\ (req[h].op # "delete" => code[f] \in {req[h].version, "empty"})
    <3>1. CodeAt(h, f, "commit")
      BY <1>f, <2>1, <2>2 DEF CodeOf
    <3>2. QED BY <1>1, <3>1 DEF CodeAt, Late
  <2>3. CASE req[h].op = "delete" /\ store' = [store EXCEPT ![f] = "absent"] /\ Goto(h, "cleanup")
    <3>1. "cleanup" \in Pc /\ "cleanup" \in Late /\ "cleanup" \notin Starting \cup {"call"} \cup Begun
      BY PcFacts DEF Starting, Begun, Late
    <3>2. ASSUME CodeOf(f) PROVE CodeAt(h, f, req[h].pc)'
      BY <1>g, <2>1, <2>2, <2>3, <3>1, <3>2 DEF CodeAt
    <3>3. QED BY <1>0, <1>1, <1>f, <1>g, <2>1, <2>2, <2>3, <3>1, <3>2, WorkSafe
  <2>4. CASE req[h].op # "delete" /\ store' = [store EXCEPT ![f] = req[h].version] /\ Answer(h)
    <3>1. ASSUME CodeOf(f) PROVE Fits(code[f], f)'
      BY <1>0, <2>1, <2>2, <2>4, <3>1 DEF Fits
    <3>2. QED BY <1>0, <1>1, <1>f, <1>a, <1>i, <2>1, <2>2, <2>4, <3>1, WorkSafe
  <2>5. QED BY <1>8, <1>f, <2>3, <2>4 DEF CommitRecord
<1>9. CASE RemoveCode(h)
  <2>1. /\ Milder /\ req[h].pc = "cleanup" /\ UNCHANGED <<owner, made, pool, phase, store>>
        /\ code' = [code EXCEPT ![f] = "empty"] /\ Answer(h)
    BY <1>9, <1>f, UnchangedMilder DEF RemoveCode, At
  <2>2. ASSUME CodeOf(f) PROVE Fits(code[f], f)' /\ (pool[f] = None \/ store[f] # "absent")
    BY <1>0, <2>1, <2>2 DEF CodeOf, Fits
  <2>3. QED BY <1>0, <1>1, <1>f, <1>a, <1>i, <2>1, <2>2, WorkSafe
<1>10. QED BY <1>2, <1>3, <1>4, <1>5, <1>6, <1>7, <1>8, <1>9, <1>f DEF DeployZipFile

LEMMA StepSafe == ASSUME SInv, NEW h \in Handler, Step(h) PROVE Good'
<1>1. ASSUME NEW op \in Ops, NEW f \in Function,
             NEW v \in IF op \in {"create", "update"} THEN Version ELSE {"none"}, Begin(h, op, f, v)
      PROVE  Good'
  <2>1. v \in Version \cup {"none"}
    OBVIOUS
  <2>2. QED BY <1>1, <2>1, BeginSafe
<1>2. QED BY <1>1, InvokeSafe, StartingSafe, ChangeSafe DEF Step

\* Nothing that happens outside the requests harms what is said of entries and calls.
LEMMA OutsideSafe ==
  ASSUME SInv, Milder, UNCHANGED <<req, store, made>>,
         \A f \in Function : pool'[f] \in {pool[f], None} /\ code'[f] \in {code[f], "empty"},
         phase' = "up" => phase = "up" /\ UNCHANGED owner
  PROVE  Good'
<1>1. Alone'
  BY DEF SInv, Alone, Milder, Lasting, Fn
<1>2. ASSUME NEW f \in Function, "overlap" \notin spoiled'[f] PROVE CodeOf(f)'
  <2>1. CodeOf(f)
    BY <1>2 DEF SInv, CodeInv, Milder, Lasting
  <2>2. \A h \in Handler : Fn(h) = f => CodeAt(h, f, req[h].pc)'
    BY <2>1 DEF CodeOf, CodeAt, Fits
  <2>3. QED BY <2>1, <2>2 DEF CodeOf, Fits, Fn
<1>3. PortInv'
  <2>1. \A f, p : Own(f, p) => Own(f, p)'
    BY DEF Own, Publishes, Milder
  <2>2. ASSUME NEW f \in Function, pool'[f] # None PROVE Own(f, made[pool[f]].port)'
    <3>1. PICK p : p = made[pool[f]].port /\ Own(f, p)
      BY <2>2 DEF SInv, PortInv
    <3>2. Own(f, p)' /\ p = made'[pool'[f]].port
      BY <2>1, <2>2, <3>1
    <3>3. QED BY <3>2
  <2>3. ASSUME NEW h \in Handler, Up(h) PROVE Own(Fn(h), req[h].port)'
    <3>1. PICK f, p : f = Fn(h) /\ p = req[h].port /\ Own(f, p)
      BY <2>3 DEF SInv, PortInv
    <3>2. Own(f, p)' /\ f = Fn(h)' /\ p = req'[h].port
      BY <2>1, <3>1 DEF Fn
    <3>3. QED BY <3>2
  <2>4. ASSUME NEW h \in Handler, At(h, "call"), phase' = "up", "overlap" \notin spoiled'[Fn(h)]
        PROVE  CallOK(h)'
    <3>1. Fn(h) \in Function
      BY <2>4 DEF SInv, AInv, IInv, Known, KnownBy, At
    <3>2. CallOK(h) /\ "overlap" \notin spoiled[Fn(h)] /\ phase = "up"
      BY <2>4, <3>1 DEF SInv, PortInv, Milder, Lasting
    <3>3. PICK f \in Function, p \in Port :
            /\ f = Fn(h) /\ p = req[h].port /\ owner[p] = f /\ Own(f, p)
            /\ \A g \in Handler : Owners(g) => req[g].port # p
      BY <2>4, <3>2 DEF CallOK
    <3>4. Own(f, p)' /\ owner'[p] = f /\ f = Fn(h)' /\ p = req'[h].port
      BY <2>1, <2>4, <3>3 DEF Fn
    <3>5. \A g \in Handler : Owners(g)' => req'[g].port # p
      BY <3>3 DEF Owners
    <3>6. QED BY <3>3, <3>4, <3>5 DEF CallOK
  <2>5. \A h \in Handler : CallOK(h)'
    <3>1. \A h \in Handler : (At(h, "call")' <=> At(h, "call")) /\ Fn(h)' = Fn(h)
      BY DEF At, Fn
    <3>2. QED BY <2>4, <3>1 DEF CallOK
  <2>6. QED BY <2>2, <2>3, <2>5 DEF PortInv, Up
<1>4. QED BY <1>1, <1>2, <1>3 DEF Good, CodeInv

LEMMA SafeInductive ==
  ASSUME SInv, [Next]_vars
  PROVE  SInv'
<1>0. AInv'
  BY AccountsInductive DEF SInv
<1>t. /\ pool \in [Function -> Container \cup {None}] /\ DockerTypeOK
      /\ spoiled \in [Function -> SUBSET {"overlap", "loose"}]
  BY DEF SInv, AInv, IInv, TypeOK
<1>1. ASSUME NEW h \in Handler, Step(h) PROVE Good'
  BY <1>1, StepSafe
<1>2. ASSUME StartShutdown \/ UNCHANGED vars PROVE Good'
  <2>1. UNCHANGED <<containers, owner, store, code, made, pool, req, spoiled>> /\ (phase' = "up" => phase = "up")
    BY <1>2 DEF StartShutdown, vars
  <2>2. QED BY <2>1, UnchangedMilder, OutsideSafe
<1>3. ASSUME EndShutdown PROVE Good'
  <2>1. /\ UNCHANGED <<containers, owner, store, made, pool, req, spoiled>> /\ phase' # "up"
        /\ \A f \in Function : code'[f] = "empty"
    BY <1>3 DEF EndShutdown
  <2>2. QED BY <2>1, UnchangedMilder, OutsideSafe
<1>4. ASSUME NEW f \in Function, ShutdownEntry(f) PROVE Good'
  <2>1. /\ pool[f] \in Container /\ RemoveOrLose(pool[f], f) /\ Register(f, None)
        /\ UNCHANGED <<store, code, made, req, phase>> /\ phase = "closing"
    BY <1>4, <1>t DEF ShutdownEntry
  <2>2. Milder
    BY <2>1, RemovalMilder
  <2>3. QED BY <1>t, <2>1, <2>2, OutsideSafe DEF Register
<1>5. ASSUME NEW c \in Container, Crash(c) PROVE Good'
  <2>1. Milder /\ UNCHANGED <<owner, store, code, made, pool, req, phase>>
    BY <1>5, <1>t DEF Crash, Dies, SetState, DockerTypeOK, Milder, Lasting, MadeForGood
  <2>2. QED BY <2>1, OutsideSafe
<1>6. ASSUME NEW c \in Container, TakenAway(c) PROVE Good'
  <2>1. UNCHANGED <<owner, store, code, made, pool, req, phase>> /\ Exists(c)
        /\ containers' = [containers EXCEPT ![c] = "removed"]
    BY <1>6 DEF TakenAway, RemovedByHand, SetState
  <2>2. \A e \in Function : "overlap" \in spoiled[e] => "overlap" \in spoiled'[e]
    BY <1>6, <1>t DEF TakenAway, Mishap
  <2>3. Milder
    BY <1>t, <2>1, <2>2 DEF DockerTypeOK, Milder, Lasting, MadeForGood
  <2>4. QED BY <2>1, <2>3, OutsideSafe
<1>7. Good'
  BY <1>1, <1>2, <1>3, <1>4, <1>5, <1>6 DEF Next
<1>8. QED BY <1>0, <1>7 DEF SInv, Good

LEMMA InitSafe == Init => SInv
<1> SUFFICES ASSUME Init PROVE SInv
  OBVIOUS
<1>1. AInv
  BY InitAccounts
<1>2. \A h \in Handler : req[h].pc = "idle" /\ Fn(h) \notin Function
  BY LambdaAssumption DEF Init, Idle, Fn
<1>3. Alone /\ PortInv
  BY <1>2 DEF Init, Alone, PortInv, Up, Begun, Starting, CallOK, At
<1>4. CodeInv
  BY <1>2 DEF Init, CodeInv, CodeOf, Fits
<1>5. QED BY <1>1, <1>3, <1>4 DEF SInv

(* The pool entry of a function belongs to a function that exists and runs the
   code that its record tells, or what a failed deployment or a removal has left
   of the directory, as long as requests that change it do not overlap with other
   requests for it: for any versions, in any order of creations, updates,
   deletions and invocations, whatever fails.                                *)
THEOREM EntriesRunRecordedCode == Spec => []PoolRunsRecordedCode
<1>1. SInv => PoolRunsRecordedCode
  BY DEF SInv, CodeInv, CodeOf, Fits, PoolRunsRecordedCode
<1>2. QED BY <1>1, InitSafe, SafeInductive, PTL DEF Spec

(* An invocation that has read its pool entry and calls it without the lock
   reaches a container of its own function, or none, under the same condition. *)
THEOREM NoForeignCalls == Spec => []CallsOwnFunction
<1>1. SInv => CallsOwnFunction
  BY DEF SInv, PortInv, CallOK, Own, CallsOwnFunction
<1>2. QED BY <1>1, InitSafe, SafeInductive, PTL DEF Spec
=============================================================================
