--------------------------- MODULE ReconcilerProofs ---------------------------
(***************************************************************************)
(* Types, and where every container is accounted for, with any number of   *)
(* requests beside the reconciler.                                         *)
(*                                                                         *)
(* A container is lost when the record that leads to it goes, or never     *)
(* comes.  Only the clean-up of RunInstances deletes records, so the       *)
(* argument is about what a handler knows of the ids it works on: they are *)
(* those of containers that have been started (Old), and at the deletion   *)
(* the container has been removed for good.                                *)
(*                                                                         *)
(* With requests one at a time more is true, and the second half shows it: *)
(* the only handler is behind (Behind) with at most one instance, and      *)
(* knows what is still to be written about it (OnTheWay), so that store,   *)
(* reported state and container of every other instance agree.             *)
(***************************************************************************)
EXTENDS Reconciler, TLAPS

Changing  == {"get", "pause", "unpause", "stop", "remove", "setSpec", "put"}
Acting    == Changing \ {"get"}
Undoing   == {"undoStop", "undoRemove", "undoDelete"}
Launching == {"run", "start", "insert", "finish"} \cup Undoing

\* The container has been started.
Old(c) == containers[c] \notin {"none", "created"}

\* What is known of a key that was found in the store: the container of an instance
\* has been started; the record of an orphan is there for ever.
Sound(k) == IF k[1] = "res" THEN Old(k[2]) ELSE Present(k)

HandlerInv(h) ==
  /\ req[h].pc \in Changing => req[h].op \in {"stop", "start", "terminate"}
  /\ req[h].pc \in Changing \cup Undoing => req[h].ids # <<>>
  /\ req[h].pc \in {"start", "insert"} => req[h].cur \in Instance
  /\ req[h].pc \in Launching =>
       \A n \in 1 .. Len(req[h].ids) : req[h].ids[n][1] = "res" /\ Old(req[h].ids[n][2])
  /\ req[h].pc = "insert" => Old(req[h].cur)
  /\ req[h].pc = "undoDelete" /\ ~DockerMayFail => containers[Id(h)[2]] = "removed"
  /\ req[h].pc \in Acting => Sound(Id(h))

RecordsSound == /\ \A k \in Key : Present(k) => Sound(k)
                /\ \A k \in rec.gone : Sound(k)
                /\ rec.pc = "remove" => rec.cur \in Container /\ Present(Orphan(rec.cur))

Accounted == ~DockerMayFail => ContainersAccounted

IInv == /\ FullTypeOK
        /\ \A h \in Handler : HandlerInv(h)
        /\ RecordsSound
        /\ Accounted
-----------------------------------------------------------------------------
\* What no step undoes.
Lasting == /\ \A c \in Container : Old(c) => Old(c)'
           /\ \A c \in Container : containers[c] = "removed" => containers'[c] = "removed"
           /\ \A c \in Container : Present(Orphan(c)) => Present(Orphan(c))'

\* One call of Docker.
Moves(c) == \E s \in ContainerState :
              /\ containers' = [containers EXCEPT ![c] = s]
              /\ \/ Exists(c) /\ s \notin {"none", "created"}
                 \/ containers[c] = "none" /\ s = "created"

LEMMA CallsMove ==
  ASSUME NEW c \in Container, NEW ok \in BOOLEAN,
         \/ StartContainer(c, ok) \/ StopContainer(c, ok) \/ RemoveContainer(c, ok)
         \/ PauseContainer(c, ok) \/ UnpauseContainer(c, ok)
         \/ CreateContainer(c) \/ Dies(c) \/ RemovedByHand(c)
  PROVE  UNCHANGED containers \/ Moves(c)
BY DEF StartContainer, StopContainer, RemoveContainer, PauseContainer, UnpauseContainer,
       CreateContainer, Dies, RemovedByHand, Moves, SetState, Fails, Exists, ContainerState

\* A container that is moved stays in the types, and what was started stays started.
LEMMA MovesLast ==
  ASSUME DockerTypeOK, NEW c \in Container, UNCHANGED containers \/ Moves(c)
  PROVE  /\ DockerTypeOK'
         /\ \A d \in Container : Old(d) => Old(d)'
         /\ \A d \in Container : containers[d] = "removed" => containers'[d] = "removed"
BY DEF DockerTypeOK, Moves, Old, Exists, ContainerState

\* A request that does not move keeps what it knows.
LEMMA OthersKeep ==
  ASSUME IInv, NEW g \in Handler, req'[g] = req[g], Lasting
  PROVE  HandlerInv(g)'
<1> USE DEF IInv, FullTypeOK, TypeOK, Request
<1>1. req[g].ids \in Seq(Key) /\ HandlerInv(g)
  OBVIOUS
<1>2. \A n \in 1 .. Len(req[g].ids) : req[g].ids[n] \in Key
  BY <1>1
<1>3. req[g].ids # <<>> => Id(g) \in Key
  BY <1>1 DEF Id
<1>4. Ec2Assumption
  BY Ec2Assumption
<1>5. \A k \in Key : Sound(k) => Sound(k)'
  BY DEF Lasting, Sound, Key, Orphan, Present
<1>6. Id(g)' = Id(g)
  BY DEF Id
<1> QED BY <1>1, <1>2, <1>3, <1>4, <1>5, <1>6
        DEF HandlerInv, Lasting, Key, Changing, Acting, Undoing

\* What is left to show of a step of one handler.
LEMMA HandlerAssembles ==
  ASSUME IInv, NEW h \in Handler, UNCHANGED rec,
         \A g \in Handler \ {h} : req'[g] = req[g],
         TypeOK', Lasting, HandlerInv(h)',
         \A k \in Key : Present(k)' => Sound(k)',
         Accounted'
  PROVE  IInv'
<1>1. \A g \in Handler : HandlerInv(g)'
  <2>1. ASSUME NEW g \in Handler \ {h} PROVE HandlerInv(g)'
    BY <2>1, OthersKeep
  <2>2. QED BY <2>1
<1>2. RecordsSound'
  <2>1. \A k \in rec.gone : k \in Key
    BY DEF IInv, FullTypeOK, RecState
  <2>2. \A k \in rec.gone : Sound(k)'
    BY <2>1 DEF IInv, RecordsSound, Lasting, Sound, Key, Orphan, Present
  <2>3. QED BY <2>2 DEF IInv, RecordsSound, Lasting, Key, Orphan
<1>3. FullTypeOK'
  BY DEF IInv, FullTypeOK
<1>4. QED BY <1>1, <1>2, <1>3 DEF IInv

\* A container stays accounted for while the records stay that lead to it.
LEMMA AccountKept ==
  ASSUME IInv,
         \A i \in Instance : \/ ~(Exists(i)' /\ containers'[i] # "created")
                             \/ Exists(i) /\ containers[i] # "created"
                             \/ Present(Res(i))' \/ Present(Orphan(i))'
                             \/ \E g \in Handler : At(g, "insert")' /\ req'[g].cur = i,
         \A i \in Instance : containers[i] # "removed" => (Present(Res(i)) => Present(Res(i))'),
         \A i \in Instance : Present(Orphan(i)) => Present(Orphan(i))',
         \A i \in Instance, g \in Handler :
           At(g, "insert") /\ req[g].cur = i =>
             (At(g, "insert")' /\ req'[g].cur = i) \/ Present(Res(i))'
  PROVE  Accounted'
BY DEF IInv, Accounted, ContainersAccounted, Exists
-----------------------------------------------------------------------------
(* What a handler keeps of its request.                                     *)

LEMMA IdleRequest == Idle \in Request
BY DEF Idle, Request, Pc

LEMMA RequestMade ==
  ASSUME NEW q \in Request, NEW p \in Pc, NEW ids \in Seq(Key), NEW m \in Nat \X Nat,
         NEW op \in {"none", "run", "stop", "start", "terminate"},
         NEW c \in Container \cup {"none"}
  PROVE  /\ [q EXCEPT !.pc = p] \in Request
         /\ [q EXCEPT !.pc = p, !.cur = c] \in Request
         /\ [q EXCEPT !.pc = p, !.ids = ids] \in Request
         /\ [q EXCEPT !.pc = p, !.ids = ids, !.cur = c] \in Request
         /\ [q EXCEPT !.pc = p, !.op = op, !.counts = m] \in Request
         /\ [q EXCEPT !.pc = p, !.op = op, !.ids = ids] \in Request
<1> DEFINE N == Nat \X Nat
           Op == {"none", "run", "stop", "start", "terminate"}
<1>1. m \in N /\ op \in Op
  OBVIOUS
<1>2. Request = [pc : Pc, op : Op, ids : Seq(Key), counts : N, cur : Container \cup {"none"}]
  BY DEF Request
<1> HIDE DEF N, Op
<1> QED BY <1>1, <1>2

LEMMA Fields ==
  ASSUME NEW q \in Request
  PROVE  /\ q.pc \in Pc /\ q.ids \in Seq(Key) /\ q.cur \in Container \cup {"none"}
         /\ q.op \in {"none", "run", "stop", "start", "terminate"}
BY DEF Request

\* The head of the ids, and what is behind it.
LEMMA IdFacts ==
  ASSUME IInv, NEW h \in Handler, req[h].ids # <<>>
  PROVE  /\ Id(h) \in Key /\ Id(h) = req[h].ids[1] /\ 1 \in 1 .. Len(req[h].ids)
         /\ Id(h)[2] \in Container /\ ContainerOf(Id(h)) = Id(h)[2]
         /\ Id(h)[1] = "res" => Id(h) = Res(Id(h)[2])
         /\ Id(h)[1] # "res" => Id(h) = Orphan(Id(h)[2])
         /\ Tail(req[h].ids) \in Seq(Key)
         /\ Len(Tail(req[h].ids)) = Len(req[h].ids) - 1
         /\ \A n \in 1 .. Len(Tail(req[h].ids)) : /\ Tail(req[h].ids)[n] = req[h].ids[n + 1]
                                                  /\ n + 1 \in 1 .. Len(req[h].ids)
<1>1. req[h].ids \in Seq(Key)
  BY Fields DEF IInv, FullTypeOK, TypeOK
<1>2. /\ Id(h) \in Key /\ Id(h) = req[h].ids[1] /\ 1 \in 1 .. Len(req[h].ids)
      /\ Tail(req[h].ids) \in Seq(Key)
      /\ Len(Tail(req[h].ids)) = Len(req[h].ids) - 1
  BY <1>1 DEF Id
<1>3. \A n \in 1 .. Len(Tail(req[h].ids)) : /\ Tail(req[h].ids)[n] = req[h].ids[n + 1]
                                            /\ n + 1 \in 1 .. Len(req[h].ids)
  BY <1>1
<1>4. /\ Id(h)[2] \in Container /\ ContainerOf(Id(h)) = Id(h)[2]
      /\ Id(h)[1] = "res" => Id(h) = Res(Id(h)[2])
      /\ Id(h)[1] # "res" => Id(h) = Orphan(Id(h)[2])
  BY <1>2 DEF Key, ContainerOf, Res, Orphan
<1>5. QED BY <1>2, <1>3, <1>4

LEMMA UndoingFacts ==
  ASSUME IInv, NEW h \in Handler, req[h].pc \in Undoing
  PROVE  req[h].ids # <<>> /\ Id(h)[1] = "res" /\ Old(Id(h)[2])
<1>1. req[h].ids # <<>>
  BY DEF IInv, HandlerInv
<1>2. QED BY <1>1, IdFacts DEF IInv, HandlerInv, Launching
-----------------------------------------------------------------------------
(* Steps of a handler, by what they change.                                 *)

\* The handler only moves on, or writes into the map of an instance.
LEMMA Quiet ==
  ASSUME IInv, NEW h \in Handler, UNCHANGED <<containers, store, rec>>,
         stateName' \in [Instance -> {"none", "running", "stopped", "terminated"}],
         NEW r \in Request, req' = [req EXCEPT ![h] = r],
         ~At(h, "insert"),
         HandlerInv(h)'
  PROVE  IInv'
<1>1. TypeOK'
  BY DEF IInv, FullTypeOK, TypeOK, DockerTypeOK
<1>2. Lasting
  BY DEF Lasting, Old, Present
<1>3. \A k \in Key : Present(k)' => Sound(k)'
  BY DEF IInv, RecordsSound, Present, Sound, Old
<1>4. \A g \in Handler \ {h} : req'[g] = req[g]
  BY DEF IInv, FullTypeOK, TypeOK
<1>5. Accounted'
  BY <1>4, AccountKept DEF Exists, Present, At
<1>6. QED BY <1>1, <1>2, <1>3, <1>4, <1>5, HandlerAssembles

\* The handler calls Docker, on a container that has been started, that has the record
\* of an orphan, or that is not there; or it starts the one it has created.
LEMMA DockerCall ==
  ASSUME IInv, NEW h \in Handler, NEW c \in Container, UNCHANGED containers \/ Moves(c),
         UNCHANGED <<store, stateName, rec>>,
         NEW r \in Request, req' = [req EXCEPT ![h] = r],
         ~At(h, "insert"),
         \/ Old(c) \/ Present(Orphan(c)) \/ containers[c] = "none"
         \/ UNCHANGED containers
         \/ r.pc = "insert" /\ r.cur = c,
         HandlerInv(h)'
  PROVE  IInv'
<1>1. /\ DockerTypeOK'
      /\ \A d \in Container : Old(d) => Old(d)'
      /\ \A d \in Container : containers[d] = "removed" => containers'[d] = "removed"
  BY MovesLast DEF IInv, FullTypeOK, TypeOK
<1>2. TypeOK'
  BY <1>1 DEF IInv, FullTypeOK, TypeOK
<1>3. Lasting
  BY <1>1 DEF Lasting, Present
<1>4. \A k \in Key : Present(k)' => Sound(k)'
  BY <1>1 DEF IInv, RecordsSound, Present, Sound, Key
<1>5. (\A g \in Handler \ {h} : req'[g] = req[g]) /\ req'[h] = r
  BY DEF IInv, FullTypeOK, TypeOK
<1>6. ASSUME NEW i \in Instance, Exists(i)', containers'[i] # "created"
      PROVE  \/ Exists(i) /\ containers[i] # "created"
             \/ Present(Orphan(i))'
             \/ \E g \in Handler : At(g, "insert")' /\ req'[g].cur = i
  <2>1. i \in Container
    BY Ec2Assumption
  <2>2. CASE i = c
    <3>1. CASE UNCHANGED containers
      BY <1>6, <3>1 DEF Exists
    <3>2. CASE Moves(c)
      BY <1>5, <1>6, <2>1, <2>2, <3>2
         DEF Moves, Exists, Old, Present, At, IInv, FullTypeOK, TypeOK, DockerTypeOK
    <3>3. QED BY <3>1, <3>2
  <2>3. CASE i # c
    BY <1>6, <2>1, <2>3 DEF Moves, Exists, IInv, FullTypeOK, TypeOK, DockerTypeOK
  <2>4. QED BY <2>2, <2>3
<1>7. Accounted'
  BY <1>5, <1>6, AccountKept DEF Present, At
<1>8. QED BY <1>2, <1>3, <1>4, <1>5, <1>7, HandlerAssembles

LEMMA ReturnKeeps ==
  ASSUME IInv, NEW h \in Handler, Return(h), ~At(h, "insert"),
         UNCHANGED <<containers, store, stateName, rec>>
  PROVE  IInv'
<1>1. req' = [req EXCEPT ![h] = Idle] /\ req'[h] = Idle
  BY DEF Return, IInv, FullTypeOK, TypeOK
<1>2. HandlerInv(h)'
  BY <1>1 DEF HandlerInv, Idle, Changing, Undoing, Launching, Acting
<1>3. stateName' \in [Instance -> {"none", "running", "stopped", "terminated"}]
  BY DEF IInv, FullTypeOK, TypeOK
<1>4. QED BY <1>1, <1>2, <1>3, IdleRequest, Quiet

\* The request goes on with the same ids.
LEMMA GotoFacts ==
  ASSUME IInv, NEW h \in Handler, NEW p \in Pc, Goto(h, p)
  PROVE  \E r \in Request : /\ req' = [req EXCEPT ![h] = r] /\ req'[h] = r
                            /\ r.pc = p /\ r.ids = req[h].ids /\ r.op = req[h].op
                            /\ r.cur = req[h].cur /\ Id(h)' = Id(h)
<1> DEFINE r == [req[h] EXCEPT !.pc = p]
<1>1. req[h] \in Request /\ req \in [Handler -> Request]
  BY DEF IInv, FullTypeOK, TypeOK
<1>2. r \in Request
  BY <1>1 DEF Request
<1>3. req' = [req EXCEPT ![h] = r] /\ req'[h] = r
  BY <1>1 DEF Goto
<1>4. r.pc = p /\ r.ids = req[h].ids /\ r.op = req[h].op /\ r.cur = req[h].cur
  BY <1>1 DEF Request
<1>5. Id(h)' = Id(h)
  BY <1>3, <1>4 DEF Id
<1> HIDE DEF r
<1>6. QED BY <1>2, <1>3, <1>4, <1>5
-----------------------------------------------------------------------------
(* RunInstances.                                                            *)

LEMMA RunInstancesKeeps ==
  ASSUME IInv, NEW h \in Handler, NEW m \in Counts, RunInstances(h, m), UNCHANGED rec
  PROVE  IInv'
<1> DEFINE r == [Idle EXCEPT !.pc = "run", !.op = "run", !.counts = m]
<1>1. r \in Request
  <2>1. m \in Nat \X Nat /\ "run" \in Pc
    BY Ec2Assumption DEF Pc
  <2>2. Idle.ids \in Seq(Key)
    BY IdleRequest, Fields
  <2>3. /\ "run" \in {"none", "run", "stop", "start", "terminate"}
        /\ "none" \in Container \cup {"none"}
    OBVIOUS
  <2>4. QED BY <2>1, <2>2, <2>3, RequestMade, IdleRequest
<1>2. req' = [req EXCEPT ![h] = r] /\ req'[h] = r
  BY DEF RunInstances, IInv, FullTypeOK, TypeOK
<1>3. HandlerInv(h)'
  <2>1. r.pc = "run" /\ r.ids = <<>>
    BY DEF Idle
  <2> HIDE DEF r
  <2>2. QED BY <1>2, <2>1 DEF HandlerInv, Changing, Undoing, Launching, Acting
<1>4. UNCHANGED <<containers, store, rec>> /\ ~At(h, "insert") /\ stateName' = stateName
  BY DEF RunInstances, At
<1>5. stateName' \in [Instance -> {"none", "running", "stopped", "terminated"}]
  BY <1>4 DEF IInv, FullTypeOK, TypeOK
<1> HIDE DEF r
<1>6. QED BY <1>1, <1>2, <1>3, <1>4, <1>5, Quiet

LEMMA CreateKeeps ==
  ASSUME IInv, NEW h \in Handler, Create(h), UNCHANGED rec
  PROVE  IInv'
<1>1. UNCHANGED <<store, stateName, rec>> /\ At(h, "run") /\ ~At(h, "insert")
  BY DEF Create, At
<1>2. HandlerInv(h) /\ req[h] \in Request /\ req \in [Handler -> Request]
  BY DEF IInv, FullTypeOK, TypeOK
<1>3. CASE \E i \in Instance : /\ CreateContainer(i)
                               /\ req' = [req EXCEPT ![h].pc = "start", ![h].cur = i]
  <2>1. PICK i \in Instance : /\ CreateContainer(i)
                              /\ req' = [req EXCEPT ![h].pc = "start", ![h].cur = i]
    BY <1>3
  <2>2. i \in Container
    BY Ec2Assumption
  <2> DEFINE r == [req[h] EXCEPT !.pc = "start", !.cur = i]
  <2>3. r \in Request /\ r.pc = "start" /\ r.cur = i /\ r.ids = req[h].ids
    BY <1>2, <2>2 DEF Request, Pc
  <2>4. req' = [req EXCEPT ![h] = r] /\ req'[h] = r
    BY <1>2, <2>1
  <2>5. UNCHANGED containers \/ Moves(i)
    BY <2>1, <2>2, CallsMove
  <2>6. containers[i] = "none"
    BY <2>1 DEF CreateContainer
  <2>7. HandlerInv(h)'
    <3>1. \A d \in Container : Old(d) => Old(d)'
      BY <2>2, <2>5, MovesLast DEF IInv, FullTypeOK, TypeOK
    <3>2. \A n \in 1 .. Len(req[h].ids) : req[h].ids[n][1] = "res" /\ Old(req[h].ids[n][2])
      BY <1>1, <1>2 DEF HandlerInv, At, Launching
    <3>3. \A n \in 1 .. Len(req[h].ids) : req[h].ids[n][2] \in Container
      BY <1>2, Fields DEF Key
    <3> HIDE DEF r
    <3>4. QED BY <2>3, <2>4, <3>1, <3>2, <3>3 DEF HandlerInv, Changing, Undoing, Launching, Acting
  <2> HIDE DEF r
  <2>8. QED BY <1>1, <2>2, <2>3, <2>4, <2>5, <2>6, <2>7, DockerCall
<1>4. CASE Goto(h, "finish") /\ UNCHANGED containers
  <2>1. PICK r \in Request : /\ req' = [req EXCEPT ![h] = r] /\ req'[h] = r
                             /\ r.pc = "finish" /\ r.ids = req[h].ids
    BY <1>4, GotoFacts DEF Pc
  <2>2. HandlerInv(h)'
    BY <1>1, <1>2, <1>4, <2>1 DEF HandlerInv, At, Old, Changing, Undoing, Launching, Acting
  <2>3. stateName' \in [Instance -> {"none", "running", "stopped", "terminated"}]
    BY <1>1 DEF IInv, FullTypeOK, TypeOK
  <2>4. QED BY <1>1, <1>4, <2>1, <2>2, <2>3, Quiet
<1>5. QED BY <1>3, <1>4 DEF Create

LEMMA StartKeeps ==
  ASSUME IInv, NEW h \in Handler, Start(h), UNCHANGED rec
  PROVE  IInv'
<1>1. UNCHANGED <<store, stateName, rec>> /\ At(h, "start") /\ ~At(h, "insert")
  BY DEF Start, At
<1>2. HandlerInv(h) /\ req[h] \in Request /\ req \in [Handler -> Request]
  BY DEF IInv, FullTypeOK, TypeOK
<1>3. PICK c \in Instance : c = req[h].cur /\ c \in Container
  BY <1>1, <1>2, Ec2Assumption DEF HandlerInv, At
<1>4. PICK ok \in BOOLEAN :
        /\ StartContainer(c, ok)
        /\ IF ok THEN Goto(h, "insert")
                 ELSE req' = [req EXCEPT ![h].pc = "finish", ![h].cur = "none"]
  BY <1>3 DEF Start
<1>5. UNCHANGED containers \/ Moves(c)
  BY <1>3, <1>4, CallsMove
<1>6. \A d \in Container : Old(d) => Old(d)'
  BY <1>3, <1>5, MovesLast DEF IInv, FullTypeOK, TypeOK
<1>7. \A n \in 1 .. Len(req[h].ids) : /\ req[h].ids[n][1] = "res" /\ Old(req[h].ids[n][2])
                                      /\ req[h].ids[n][2] \in Container
  <2>1. \A n \in 1 .. Len(req[h].ids) : req[h].ids[n][2] \in Container
    BY <1>2, Fields DEF Key
  <2>2. QED BY <1>1, <1>2, <2>1 DEF HandlerInv, At, Launching
<1>8. CASE ok
  <2>1. PICK r \in Request : /\ req' = [req EXCEPT ![h] = r] /\ req'[h] = r
                             /\ r.pc = "insert" /\ r.ids = req[h].ids /\ r.cur = c
    BY <1>3, <1>4, <1>8, GotoFacts DEF Pc
  <2>2. Old(c)'
    <3>1. containers' = [containers EXCEPT ![c] = "running"]
      BY <1>4, <1>8 DEF StartContainer, SetState
    <3>2. QED BY <1>3, <3>1 DEF Old, IInv, FullTypeOK, TypeOK, DockerTypeOK
  <2>3. HandlerInv(h)'
    BY <1>3, <1>6, <1>7, <2>1, <2>2 DEF HandlerInv, Changing, Undoing, Launching, Acting
  <2>4. QED BY <1>1, <1>3, <1>5, <2>1, <2>3, DockerCall
<1>9. CASE ~ok
  <2> DEFINE r == [req[h] EXCEPT !.pc = "finish", !.cur = "none"]
  <2>1. r \in Request /\ r.pc = "finish" /\ r.ids = req[h].ids
    BY <1>2 DEF Request, Pc
  <2>2. req' = [req EXCEPT ![h] = r] /\ req'[h] = r
    BY <1>2, <1>4, <1>9
  <2>3. UNCHANGED containers
    BY <1>4, <1>9 DEF StartContainer, Fails
  <2> HIDE DEF r
  <2>4. HandlerInv(h)'
    BY <1>6, <1>7, <2>1, <2>2 DEF HandlerInv, Changing, Undoing, Launching, Acting
  <2>5. QED BY <1>1, <1>3, <2>1, <2>2, <2>3, <2>4, DockerCall
<1>10. QED BY <1>8, <1>9

LEMMA InsertKeeps ==
  ASSUME IInv, NEW h \in Handler, Insert(h), UNCHANGED rec
  PROVE  IInv'
<1>1. HandlerInv(h) /\ req[h] \in Request /\ req \in [Handler -> Request] /\ At(h, "insert")
  BY DEF Insert, IInv, FullTypeOK, TypeOK
<1>2. PICK c \in Instance : c = req[h].cur /\ c \in Container /\ Old(c)
  BY <1>1, Ec2Assumption DEF HandlerInv, At
<1>3. PICK ids, p :
        /\ ids = Append(req[h].ids, Res(c))
        /\ p = IF Len(ids) < req[h].counts[2] THEN "run" ELSE "finish"
  OBVIOUS
<1> DEFINE r == [req[h] EXCEPT !.pc = p, !.ids = ids, !.cur = "none"]
<1>4. /\ At(h, "insert") /\ Put(Res(c), "running")
      /\ stateName' = [stateName EXCEPT ![c] = "running"]
      /\ req' = [req EXCEPT ![h].pc = p, ![h].ids = ids, ![h].cur = "none"]
      /\ UNCHANGED <<containers, rec>>
  BY <1>2, <1>3 DEF Insert
<1>5. Res(c) \in Key /\ Res(c)[1] = "res" /\ Res(c)[2] = c
  BY <1>2 DEF Res, Key
<1>6. ids \in Seq(Key) /\ p \in {"run", "finish"}
  BY <1>1, <1>3, <1>5, Fields
<1>7. r \in Request /\ r.pc = p /\ r.ids = ids
  BY <1>1, <1>6 DEF Request, Pc
<1>8. req' = [req EXCEPT ![h] = r] /\ req'[h] = r /\ \A g \in Handler \ {h} : req'[g] = req[g]
  BY <1>1, <1>4
<1>9. TypeOK'
  <2>1. store' \in [Key -> Status \cup {"absent"}]
    BY <1>4 DEF Put, Status, IInv, FullTypeOK, TypeOK
  <2>2. stateName' \in [Instance -> {"none", "running", "stopped", "terminated"}]
    BY <1>4 DEF IInv, FullTypeOK, TypeOK
  <2>3. req' \in [Handler -> Request]
    BY <1>1, <1>7, <1>8
  <2>4. QED BY <1>4, <2>1, <2>2, <2>3 DEF TypeOK, DockerTypeOK, IInv, FullTypeOK
<1>10. \A k \in Key : Present(k)' <=> (Present(k) \/ k = Res(c))
  BY <1>4, <1>5 DEF Put, Present, IInv, FullTypeOK, TypeOK
<1>11. Lasting
  BY <1>4, <1>10 DEF Lasting, Old, Key, Orphan
<1>12. \A k \in Key : Present(k)' => Sound(k)'
  BY <1>2, <1>4, <1>5, <1>10 DEF IInv, RecordsSound, Sound, Old
<1>13. HandlerInv(h)'
  <2>1. \A n \in 1 .. Len(ids) : ids[n][1] = "res" /\ Old(ids[n][2])
    <3>1. \A n \in 1 .. Len(req[h].ids) : req[h].ids[n][1] = "res" /\ Old(req[h].ids[n][2])
      BY <1>1 DEF HandlerInv, At, Launching
    <3>2. /\ Len(ids) = Len(req[h].ids) + 1 /\ ids[Len(req[h].ids) + 1] = Res(c)
          /\ \A n \in 1 .. Len(req[h].ids) : ids[n] = req[h].ids[n]
          /\ Len(req[h].ids) \in Nat
      BY <1>1, <1>3, <1>5, Fields
    <3>3. \A n \in 1 .. Len(ids) : n \in 1 .. Len(req[h].ids) \/ n = Len(req[h].ids) + 1
      BY <3>2
    <3>4. QED BY <1>2, <1>5, <3>1, <3>2, <3>3
  <2> HIDE DEF r
  <2>2. QED BY <1>4, <1>6, <1>7, <1>8, <2>1
            DEF HandlerInv, Old, Changing, Undoing, Launching, Acting
<1>14. Accounted'
  <2>1. Present(Res(c))'
    BY <1>5, <1>10
  <2>2. \A i \in Instance : Res(i) \in Key /\ Orphan(i) \in Key
    BY Ec2Assumption DEF Res, Orphan, Key
  <2>3. \A i \in Instance : /\ Present(Res(i)) => Present(Res(i))'
                            /\ Present(Orphan(i)) => Present(Orphan(i))'
    BY <1>10, <2>2
  <2> HIDE DEF r
  <2>4. QED BY <1>2, <1>4, <1>8, <2>1, <2>3, AccountKept DEF Exists, At
<1> HIDE DEF r
<1>15. QED BY <1>4, <1>8, <1>9, <1>11, <1>12, <1>13, <1>14, HandlerAssembles

LEMMA FinishRunKeeps ==
  ASSUME IInv, NEW h \in Handler, FinishRun(h), UNCHANGED rec
  PROVE  IInv'
<1>1. UNCHANGED <<containers, store, stateName, rec>> /\ At(h, "finish") /\ ~At(h, "insert")
  BY DEF FinishRun, At
<1>2. CASE Return(h)
  BY <1>1, <1>2, ReturnKeeps
<1>3. CASE req[h].ids # <<>> /\ Goto(h, "undoStop")
  <2>1. PICK r \in Request : /\ req' = [req EXCEPT ![h] = r] /\ req'[h] = r
                             /\ r.pc = "undoStop" /\ r.ids = req[h].ids
    BY <1>3, GotoFacts DEF Pc
  <2>2. HandlerInv(h)'
    BY <1>1, <1>3, <2>1 DEF IInv, HandlerInv, At, Old, Changing, Undoing, Launching, Acting
  <2>3. stateName' \in [Instance -> {"none", "running", "stopped", "terminated"}]
    BY <1>1 DEF IInv, FullTypeOK, TypeOK
  <2>4. QED BY <1>1, <2>1, <2>2, <2>3, Quiet
<1>4. QED BY <1>2, <1>3 DEF FinishRun
-----------------------------------------------------------------------------
(* The clean-up of RunInstances.                                            *)

\* The container of the first id, through UndoStop and UndoRemove.
LEMMA UndoCall ==
  ASSUME IInv, NEW h \in Handler, req[h].pc \in Undoing,
         NEW ok \in BOOLEAN,
         StopContainer(Id(h)[2], ok) \/ RemoveContainer(Id(h)[2], ok),
         UNCHANGED <<store, stateName, rec>>,
         NEW p \in {"undoRemove", "undoDelete"}, Goto(h, p),
         p = "undoDelete" /\ ~DockerMayFail => containers'[Id(h)[2]] = "removed"
  PROVE  IInv'
<1>1. req[h].ids # <<>> /\ Id(h)[1] = "res" /\ Old(Id(h)[2]) /\ Id(h)[2] \in Container
  BY UndoingFacts, IdFacts
<1>2. UNCHANGED containers \/ Moves(Id(h)[2])
  BY <1>1, CallsMove
<1>3. \A d \in Container : Old(d) => Old(d)'
  BY <1>1, <1>2, MovesLast DEF IInv, FullTypeOK, TypeOK
<1>4. PICK r \in Request : /\ req' = [req EXCEPT ![h] = r] /\ req'[h] = r
                           /\ r.pc = p /\ r.ids = req[h].ids /\ Id(h)' = Id(h)
  BY GotoFacts DEF Pc
<1>5. \A n \in 1 .. Len(req[h].ids) : /\ req[h].ids[n][1] = "res" /\ Old(req[h].ids[n][2])
                                      /\ req[h].ids[n][2] \in Container
  <2>1. req[h].ids \in Seq(Key)
    BY Fields DEF IInv, FullTypeOK, TypeOK
  <2>2. \A n \in 1 .. Len(req[h].ids) : req[h].ids[n][2] \in Container
    BY <2>1 DEF Key
  <2>3. QED BY <2>2 DEF IInv, HandlerInv, Launching
<1>6. HandlerInv(h)'
  BY <1>1, <1>3, <1>4, <1>5 DEF HandlerInv, Changing, Undoing, Launching, Acting
<1>7. ~At(h, "insert")
  BY DEF At, Undoing
<1>8. PICK c : c = Id(h)[2]
  OBVIOUS
<1>9. QED BY <1>1, <1>2, <1>4, <1>6, <1>7, <1>8, DockerCall

LEMMA UndoStopKeeps ==
  ASSUME IInv, NEW h \in Handler, UndoStop(h), UNCHANGED rec
  PROVE  IInv'
<1>1. req[h].pc \in Undoing /\ Goto(h, "undoRemove") /\ UNCHANGED <<store, stateName, rec>>
  BY DEF UndoStop, At, Undoing
<1>2. PICK ok \in BOOLEAN : StopContainer(Id(h)[2], ok)
  BY DEF UndoStop, ContainerOf
<1>3. QED BY <1>1, <1>2, UndoCall

\* A container that was started can only be refused to a removal because it is gone.
LEMMA UndoRemoveKeeps ==
  ASSUME IInv, NEW h \in Handler, UndoRemove(h), UNCHANGED rec
  PROVE  IInv'
<1>1. req[h].pc \in Undoing /\ Goto(h, "undoDelete") /\ UNCHANGED <<store, stateName, rec>>
  BY DEF UndoRemove, At, Undoing
<1>2. PICK ok \in BOOLEAN : RemoveContainer(Id(h)[2], ok)
  BY DEF UndoRemove, ContainerOf
<1>3. Old(Id(h)[2]) /\ Id(h)[2] \in Container
  BY <1>1, UndoingFacts, IdFacts
<1>4. ~DockerMayFail => containers'[Id(h)[2]] = "removed"
  <2>1. CASE ok
    <3>1. containers' = [containers EXCEPT ![Id(h)[2]] = "removed"]
      BY <1>2, <2>1 DEF RemoveContainer, SetState
    <3>2. QED BY <1>3, <3>1 DEF IInv, FullTypeOK, TypeOK, DockerTypeOK
  <2>2. CASE ~ok /\ ~DockerMayFail
    <3>1. ~Exists(Id(h)[2]) /\ containers' = containers
      BY <1>2, <2>2 DEF RemoveContainer, Fails
    <3>2. containers[Id(h)[2]] \in ContainerState
      BY <1>3 DEF IInv, FullTypeOK, TypeOK, DockerTypeOK
    <3>3. QED BY <1>3, <3>1, <3>2 DEF Old, Exists, ContainerState
  <2>3. QED BY <2>1, <2>2
<1>5. QED BY <1>1, <1>2, <1>4, UndoCall

\* The next turn of a loop over the ids, or the answer when none is left.
LEMMA NextTurnFacts ==
  ASSUME IInv, NEW h \in Handler, NEW p \in Pc, req[h].ids # <<>>,
         req' = [req EXCEPT ![h] = NextTurn(req[h], p)]
  PROVE  \E r \in Request :
           /\ req' = [req EXCEPT ![h] = r] /\ req'[h] = r
           /\ \/ r = Idle
              \/ /\ r.pc = p /\ r.op = req[h].op /\ r.ids # <<>>
                 /\ r.ids = Tail(req[h].ids)
<1>1. req[h] \in Request /\ req \in [Handler -> Request]
  BY DEF IInv, FullTypeOK, TypeOK
<1>2. /\ Tail(req[h].ids) \in Seq(Key) /\ Len(req[h].ids) \in Nat
      /\ Len(Tail(req[h].ids)) = Len(req[h].ids) - 1
  BY <1>1, IdFacts, Fields
<1>3. PICK r : r = NextTurn(req[h], p)
  OBVIOUS
<1>4. CASE Len(req[h].ids) = 1
  BY <1>1, <1>3, <1>4, IdleRequest DEF NextTurn
<1>5. CASE Len(req[h].ids) # 1
  <2>1. r = [req[h] EXCEPT !.pc = p, !.ids = Tail(req[h].ids)]
    BY <1>3, <1>5 DEF NextTurn
  <2>2. r \in Request /\ r.pc = p /\ r.op = req[h].op /\ r.ids = Tail(req[h].ids)
    BY <1>1, <1>2, <2>1 DEF Request
  <2>3. r.ids # <<>>
    <3>1. Len(r.ids) # 0 /\ Len(<<>>) = 0
      BY <1>2, <1>5, <2>2
    <3>2. QED BY <3>1
  <2>4. req' = [req EXCEPT ![h] = r]
    BY <1>3
  <2>5. QED BY <1>1, <2>2, <2>3, <2>4
<1>6. QED BY <1>4, <1>5

LEMMA UndoDeleteKeeps ==
  ASSUME IInv, NEW h \in Handler, UndoDelete(h), UNCHANGED rec
  PROVE  IInv'
<1>1. /\ At(h, "undoDelete") /\ Delete(Id(h)) /\ UNCHANGED <<containers, stateName, rec>>
      /\ req' = [req EXCEPT ![h] = NextTurn(req[h], "undoStop")]
  BY DEF UndoDelete
<1>2. req[h].pc \in Undoing /\ req \in [Handler -> Request]
  BY <1>1 DEF At, Undoing, IInv, FullTypeOK, TypeOK
<1>3. PICK k : /\ k = Id(h) /\ req[h].ids # <<>> /\ k[1] = "res" /\ k \in Key
               /\ k[2] \in Container /\ k = Res(k[2])
               /\ ~DockerMayFail => containers[k[2]] = "removed"
  <2>1. req[h].ids # <<>> /\ Id(h)[1] = "res"
    BY <1>2, UndoingFacts
  <2>2. Id(h) \in Key /\ Id(h)[2] \in Container /\ Id(h) = Res(Id(h)[2])
    BY <2>1, IdFacts
  <2>3. ~DockerMayFail => containers[Id(h)[2]] = "removed"
    BY <1>1 DEF IInv, HandlerInv, At
  <2>4. QED BY <2>1, <2>2, <2>3
<1>4. PICK r \in Request : /\ req' = [req EXCEPT ![h] = r] /\ req'[h] = r
                           /\ \/ r.pc = "idle"
                              \/ /\ r.pc = "undoStop" /\ r.ids # <<>>
                                 /\ r.ids = Tail(req[h].ids)
  <2>1. "undoStop" \in Pc
    BY DEF Pc
  <2>2. Idle.pc = "idle"
    BY DEF Idle
  <2>3. \E r \in Request :
           /\ req' = [req EXCEPT ![h] = r] /\ req'[h] = r
           /\ \/ r = Idle
              \/ /\ r.pc = "undoStop" /\ r.op = req[h].op /\ r.ids # <<>>
                 /\ r.ids = Tail(req[h].ids)
    BY <1>1, <1>3, <2>1, NextTurnFacts
  <2>4. QED BY <2>2, <2>3
<1>5. \A g \in Handler \ {h} : req'[g] = req[g]
  BY <1>2, <1>4
<1>6. TypeOK'
  <2>1. store' \in [Key -> Status \cup {"absent"}]
    BY <1>1 DEF Delete, IInv, FullTypeOK, TypeOK
  <2>2. req' \in [Handler -> Request]
    BY <1>2, <1>4
  <2>3. QED BY <1>1, <2>1, <2>2 DEF TypeOK, DockerTypeOK, IInv, FullTypeOK
<1>7. \A l \in Key : Present(l)' <=> (Present(l) /\ l # k)
  BY <1>1, <1>3 DEF Delete, Present, IInv, FullTypeOK, TypeOK
<1>8. Lasting
  BY <1>1, <1>3, <1>7 DEF Lasting, Old, Key, Orphan
<1>9. \A l \in Key : Present(l)' => Sound(l)'
  BY <1>1, <1>7 DEF IInv, RecordsSound, Sound, Old
<1>10. HandlerInv(h)'
  <2>1. \A n \in 1 .. Len(req[h].ids) : req[h].ids[n][1] = "res" /\ Old(req[h].ids[n][2])
    BY <1>2 DEF IInv, HandlerInv, Launching
  <2>2. CASE r.pc = "idle"
    BY <1>4, <2>2 DEF HandlerInv, Changing, Undoing, Launching, Acting
  <2>3. CASE r.pc = "undoStop" /\ r.ids # <<>> /\ r.ids = Tail(req[h].ids)
    <3>1. \A n \in 1 .. Len(r.ids) : r.ids[n][1] = "res" /\ Old(r.ids[n][2])
      BY <1>3, <2>1, <2>3, IdFacts
    <3>2. QED BY <1>1, <1>4, <2>3, <3>1
              DEF HandlerInv, Old, Changing, Undoing, Launching, Acting
  <2>4. QED BY <1>4, <2>2, <2>3
<1>11. Accounted'
  <2>1. CASE DockerMayFail
    BY <2>1 DEF Accounted
  <2>2. CASE ~DockerMayFail
    <3>1. containers[k[2]] = "removed"
      BY <1>3, <2>2
    <3>2. \A i \in Instance : /\ Res(i) \in Key /\ Orphan(i) \in Key
                              /\ Orphan(i) # k /\ (Res(i) = k => i = k[2])
      BY <1>3, Ec2Assumption DEF Res, Orphan, Key
    <3>3. \A i \in Instance : /\ containers[i] # "removed" => (Present(Res(i)) => Present(Res(i))')
                              /\ Present(Orphan(i)) => Present(Orphan(i))'
      BY <1>7, <3>1, <3>2
    <3>4. \A g \in Handler : At(g, "insert") => g # h
      BY <1>1 DEF At
    <3>5. QED BY <1>1, <1>5, <3>3, <3>4, AccountKept DEF Exists, At
  <2>3. QED BY <2>1, <2>2
<1>12. QED BY <1>1, <1>4, <1>5, <1>6, <1>8, <1>9, <1>10, <1>11, HandlerAssembles
-----------------------------------------------------------------------------
(* StopInstances, StartInstances, TerminateInstances.                       *)

LEMMA ChangeInstancesKeeps ==
  ASSUME IInv, NEW h \in Handler, NEW op \in {"stop", "start", "terminate"},
         NEW ids \in IdLists, ChangeInstances(h, op, ids), UNCHANGED rec
  PROVE  IInv'
<1>1. PICK r : r = [Idle EXCEPT !.pc = "get", !.op = op, !.ids = ids]
  OBVIOUS
<1>2. ids \in Seq(Key) /\ ids # <<>>
  BY Ec2Assumption
<1>3. r \in Request /\ r.pc = "get" /\ r.op = op /\ r.ids = ids
  BY <1>1, <1>2 DEF Idle, Request, Pc
<1>4. UNCHANGED <<containers, store, stateName, rec>> /\ At(h, "idle") /\ ~At(h, "insert")
  BY DEF ChangeInstances, At
<1>5. req' = [req EXCEPT ![h] = r] /\ req'[h] = r
  BY <1>1 DEF ChangeInstances, IInv, FullTypeOK, TypeOK
<1>6. HandlerInv(h)'
  BY <1>2, <1>3, <1>5 DEF HandlerInv, Changing, Undoing, Launching, Acting
<1>7. stateName' \in [Instance -> {"none", "running", "stopped", "terminated"}]
  BY <1>4 DEF IInv, FullTypeOK, TypeOK
<1>8. QED BY <1>3, <1>4, <1>5, <1>6, <1>7, Quiet

\* On to the next step for the same id, which was found in the store.
LEMMA GoesOn ==
  ASSUME IInv, NEW h \in Handler, req[h].pc \in Changing, Sound(Id(h)),
         NEW p \in Acting, Goto(h, p), UNCHANGED <<containers, store, rec>>,
         stateName' \in [Instance -> {"none", "running", "stopped", "terminated"}]
  PROVE  IInv'
<1>1. p \in Pc /\ ~At(h, "insert")
  BY DEF Acting, Changing, Pc, At
<1>2. PICK r \in Request : /\ req' = [req EXCEPT ![h] = r] /\ req'[h] = r
                           /\ r.pc = p /\ r.ids = req[h].ids /\ r.op = req[h].op
                           /\ Id(h)' = Id(h)
  BY <1>1, GotoFacts
<1>3. Sound(Id(h))'
  BY <1>2 DEF Sound, Old, Present
<1>4. HandlerInv(h)'
  BY <1>2, <1>3 DEF IInv, HandlerInv, Changing, Undoing, Launching, Acting
<1>5. QED BY <1>1, <1>2, <1>4, Quiet

LEMMA CallGoesOn ==
  ASSUME IInv, NEW h \in Handler, req[h].pc \in Acting,
         NEW ok \in BOOLEAN,
         \/ StopContainer(Id(h)[2], ok) \/ RemoveContainer(Id(h)[2], ok)
         \/ PauseContainer(Id(h)[2], ok) \/ UnpauseContainer(Id(h)[2], ok),
         NEW p \in Acting, Goto(h, p), UNCHANGED <<store, stateName, rec>>
  PROVE  IInv'
<1>1. p \in Pc /\ ~At(h, "insert") /\ req[h].pc \in Changing
  BY DEF Acting, Changing, Pc, At
<1>2. PICK r \in Request : /\ req' = [req EXCEPT ![h] = r] /\ req'[h] = r
                           /\ r.pc = p /\ r.ids = req[h].ids /\ r.op = req[h].op
                           /\ Id(h)' = Id(h)
  BY <1>1, GotoFacts
<1>3. HandlerInv(h) /\ req[h].ids # <<>> /\ Sound(Id(h))
  BY <1>1 DEF IInv, HandlerInv
<1>4. PICK k : /\ k = Id(h) /\ k \in Key /\ k[2] \in Container
               /\ k[1] # "res" => k = Orphan(k[2])
  BY <1>3, IdFacts
<1>5. UNCHANGED containers \/ Moves(k[2])
  BY <1>4, CallsMove
<1>6. \A d \in Container : Old(d) => Old(d)'
  BY <1>4, <1>5, MovesLast DEF IInv, FullTypeOK, TypeOK
<1>7. Sound(k) => Sound(k)'
  BY <1>4, <1>6 DEF Sound, Present
<1>8. HandlerInv(h)'
  BY <1>2, <1>3, <1>4, <1>7 DEF HandlerInv, Changing, Undoing, Launching, Acting
<1>9. Old(k[2]) \/ Present(Orphan(k[2]))
  BY <1>3, <1>4 DEF Sound
<1>10. PICK c \in Container : c = k[2]
  BY <1>4
<1>11. QED BY <1>1, <1>2, <1>5, <1>8, <1>9, <1>10, DockerCall

LEMMA GetInstanceKeeps ==
  ASSUME IInv, NEW h \in Handler, GetInstance(h), UNCHANGED rec
  PROVE  IInv'
<1>1. /\ At(h, "get") /\ ~At(h, "insert") /\ req[h].pc \in Changing
      /\ UNCHANGED <<containers, store, stateName, rec>>
  BY DEF GetInstance, At, Changing
<1>2. stateName' \in [Instance -> {"none", "running", "stopped", "terminated"}]
  BY <1>1 DEF IInv, FullTypeOK, TypeOK
<1>3. HandlerInv(h) /\ req[h].ids # <<>> /\ req[h].op \in {"stop", "start", "terminate"}
  BY <1>1 DEF IInv, HandlerInv
<1>4. CASE Return(h)
  BY <1>1, <1>4, ReturnKeeps
<1>5. CASE NextId(h)
  <2>1. "get" \in Pc /\ Idle.pc = "idle"
    BY DEF Pc, Idle
  <2>2. \E r \in Request :
           /\ req' = [req EXCEPT ![h] = r] /\ req'[h] = r
           /\ \/ r = Idle
              \/ /\ r.pc = "get" /\ r.op = req[h].op /\ r.ids # <<>>
                 /\ r.ids = Tail(req[h].ids)
    BY <1>3, <1>5, <2>1, NextTurnFacts DEF NextId
  <2>3. PICK r \in Request : /\ req' = [req EXCEPT ![h] = r] /\ req'[h] = r
                             /\ r.pc = "idle" \/ /\ r.pc = "get" /\ r.op = req[h].op
                                                 /\ r.ids # <<>>
    BY <2>1, <2>2
  <2>4. HandlerInv(h)'
    BY <1>3, <2>3 DEF HandlerInv, Changing, Undoing, Launching, Acting
  <2>5. QED BY <1>1, <1>2, <2>3, <2>4, Quiet
<1>6. CASE \E v \in {"pause", "unpause", "stop"} : Goto(h, v) /\ Present(Id(h))
  <2>1. PICK v \in Acting : Goto(h, v) /\ Present(Id(h))
    BY <1>6 DEF Acting, Changing
  <2>2. Sound(Id(h))
    BY <1>3, <2>1, IdFacts DEF IInv, RecordsSound
  <2>3. QED BY <1>1, <1>2, <2>1, <2>2, GoesOn
<1>7. Verdict(req[h].op, Id(h)) \notin {"error", "done"} =>
        Verdict(req[h].op, Id(h)) \in {"pause", "unpause", "stop"} /\ Present(Id(h))
  BY <1>3 DEF Verdict
<1>8. QED BY <1>4, <1>5, <1>6, <1>7 DEF GetInstance

LEMMA PauseKeeps ==
  ASSUME IInv, NEW h \in Handler, Pause(h) \/ Unpause(h), UNCHANGED rec
  PROVE  IInv'
<1>1. /\ req[h].pc \in Acting /\ ~At(h, "insert") /\ UNCHANGED <<store, stateName, rec>>
      /\ "setSpec" \in Acting
  BY DEF Pause, Unpause, At, Acting, Changing
<1>2. PICK ok \in BOOLEAN : /\ \/ PauseContainer(Id(h)[2], ok)
                               \/ UnpauseContainer(Id(h)[2], ok)
                            /\ IF ok THEN Goto(h, "setSpec") ELSE Return(h)
  BY DEF Pause, Unpause, ContainerOf
<1>3. CASE ok
  BY <1>1, <1>2, <1>3, CallGoesOn
<1>4. CASE ~ok
  BY <1>1, <1>2, <1>4, ReturnKeeps DEF PauseContainer, UnpauseContainer, Fails
<1>5. QED BY <1>3, <1>4

LEMMA TerminateKeeps ==
  ASSUME IInv, NEW h \in Handler, TerminateStop(h) \/ TerminateRemove(h), UNCHANGED rec
  PROVE  IInv'
<1>1. req[h].pc \in Acting /\ UNCHANGED <<store, stateName, rec>>
  BY DEF TerminateStop, TerminateRemove, At, Acting, Changing
<1>2. PICK p \in Acting : Goto(h, p)
  BY DEF TerminateStop, TerminateRemove, Acting, Changing
<1>3. PICK ok \in BOOLEAN : StopContainer(Id(h)[2], ok) \/ RemoveContainer(Id(h)[2], ok)
  BY DEF TerminateStop, TerminateRemove, ContainerOf
<1>4. QED BY <1>1, <1>2, <1>3, CallGoesOn

LEMMA SetSpecKeeps ==
  ASSUME IInv, NEW h \in Handler, SetSpec(h), UNCHANGED rec
  PROVE  IInv'
<1>1. /\ req[h].pc = "setSpec" /\ req[h].pc \in Acting /\ req[h].pc \in Changing
      /\ ~At(h, "insert") /\ UNCHANGED <<containers, store, rec>> /\ "put" \in Acting
  BY DEF SetSpec, At, Acting, Changing
<1>2. Sound(Id(h)) /\ req[h].op \in {"stop", "start", "terminate"}
  BY <1>1 DEF IInv, HandlerInv
<1>3. CASE Return(h) /\ UNCHANGED stateName
  BY <1>1, <1>3, ReturnKeeps
<1>4. CASE /\ Goto(h, "put")
           /\ stateName' = [stateName EXCEPT ![ContainerOf(Id(h))] = Target(req[h].op)]
  <2>1. Target(req[h].op) \in {"running", "stopped", "terminated"}
    BY <1>2 DEF Target
  <2>2. stateName' \in [Instance -> {"none", "running", "stopped", "terminated"}]
    BY <1>4, <2>1 DEF IInv, FullTypeOK, TypeOK
  <2>3. QED BY <1>1, <1>2, <1>4, <2>2, GoesOn
<1>5. QED BY <1>3, <1>4 DEF SetSpec

\* What a Put of a sound record leaves true.
LEMMA PutFacts ==
  ASSUME IInv, NEW k \in Key, NEW s \in Status, Put(k, s), UNCHANGED containers,
         Sound(k) \/ k[1] # "res"
  PROVE  /\ store' \in [Key -> Status \cup {"absent"}] /\ Present(k)'
         /\ \A l \in Key : Present(l) => Present(l)'
         /\ \A l \in Key : Sound(l) => Sound(l)'
         /\ \A l \in Key : Present(l)' => Sound(l)'
         /\ Lasting
<1>1. store \in [Key -> Status \cup {"absent"}] /\ "absent" \notin Status
  BY DEF IInv, FullTypeOK, TypeOK, Status
<1>2. store' \in [Key -> Status \cup {"absent"}]
  BY <1>1 DEF Put
<1>3. \A l \in Key : Present(l)' <=> (Present(l) \/ l = k)
  BY <1>1 DEF Put, Present
<1>4. \A l \in Key : Sound(l) => Sound(l)'
  BY <1>3 DEF Sound, Old
<1>5. \A l \in Key : Present(l)' => Sound(l)'
  BY <1>3, <1>4 DEF IInv, RecordsSound, Sound
<1>6. Lasting
  BY <1>3 DEF Lasting, Old, Orphan, Key
<1>7. QED BY <1>2, <1>3, <1>4, <1>5, <1>6

\* Records are only added or overwritten: what was accounted for still is.
LEMMA PutAccounted ==
  ASSUME IInv, UNCHANGED containers, \A l \in Key : Present(l) => Present(l)',
         \A i \in Instance, g \in Handler :
           At(g, "insert") /\ req[g].cur = i =>
             (At(g, "insert")' /\ req'[g].cur = i) \/ Present(Res(i))'
  PROVE  Accounted'
<1>1. \A i \in Instance : Res(i) \in Key /\ Orphan(i) \in Key
  BY Ec2Assumption DEF Res, Orphan, Key
<1>2. QED BY <1>1, AccountKept DEF Exists

LEMMA PutInstanceKeeps ==
  ASSUME IInv, NEW h \in Handler, PutInstance(h), UNCHANGED rec
  PROVE  IInv'
<1>1. /\ req[h].pc = "put" /\ req[h].pc \in Acting /\ req[h].pc \in Changing
      /\ UNCHANGED <<containers, stateName, rec>>
      /\ Put(Id(h), Target(req[h].op)) /\ NextId(h)
  BY DEF PutInstance, At, Acting, Changing
<1>2. req[h].ids # <<>> /\ Sound(Id(h)) /\ req[h].op \in {"stop", "start", "terminate"}
  BY <1>1 DEF IInv, HandlerInv
<1>3. Id(h) \in Key /\ Target(req[h].op) \in Status
  BY <1>2, IdFacts DEF Target, Status
<1>4. /\ store' \in [Key -> Status \cup {"absent"}]
      /\ \A l \in Key : Present(l) => Present(l)'
      /\ \A l \in Key : Present(l)' => Sound(l)'
      /\ Lasting
  BY <1>1, <1>2, <1>3, PutFacts
<1>5. \E r \in Request :
         /\ req' = [req EXCEPT ![h] = r] /\ req'[h] = r
         /\ \/ r = Idle
            \/ /\ r.pc = "get" /\ r.op = req[h].op /\ r.ids # <<>>
               /\ r.ids = Tail(req[h].ids)
  <2>1. "get" \in Pc /\ req' = [req EXCEPT ![h] = NextTurn(req[h], "get")]
    BY <1>1 DEF NextId, Pc
  <2>2. QED BY <1>2, <2>1, NextTurnFacts
<1>6. PICK r \in Request : /\ req' = [req EXCEPT ![h] = r] /\ req'[h] = r
                           /\ r.pc = "idle" \/ /\ r.pc = "get" /\ r.op = req[h].op
                                               /\ r.ids # <<>>
  <2>1. Idle.pc = "idle"
    BY DEF Idle
  <2>2. QED BY <1>5, <2>1
<1>7. req' \in [Handler -> Request] /\ \A g \in Handler \ {h} : req'[g] = req[g]
  BY <1>6 DEF IInv, FullTypeOK, TypeOK
<1>8. HandlerInv(h)'
  BY <1>2, <1>6 DEF HandlerInv, Changing, Undoing, Launching, Acting
<1>9. TypeOK'
  BY <1>1, <1>4, <1>7 DEF TypeOK, DockerTypeOK, IInv, FullTypeOK
<1>10. Accounted'
  <2>1. \A g \in Handler : At(g, "insert") => g # h
    BY <1>1 DEF At
  <2>2. QED BY <1>1, <1>4, <1>7, <2>1, PutAccounted DEF At
<1>11. QED BY <1>1, <1>4, <1>7, <1>8, <1>9, <1>10, HandlerAssembles

LEMMA HandlerKeeps ==
  ASSUME IInv, NEW h \in Handler, HandlerStep(h), UNCHANGED rec
  PROVE  IInv'
BY RunInstancesKeeps, CreateKeeps, StartKeeps, InsertKeeps, FinishRunKeeps, UndoStopKeeps,
   UndoRemoveKeeps, UndoDeleteKeeps, ChangeInstancesKeeps, GetInstanceKeeps, PauseKeeps,
   TerminateKeeps, SetSpecKeeps, PutInstanceKeeps
   DEF HandlerStep
-----------------------------------------------------------------------------
(* The reconciler, and what happens outside.                                *)

LEMMA ReconcilerAssembles ==
  ASSUME IInv, UNCHANGED req, TypeOK', rec' \in RecState, Lasting,
         \A k \in Key : Present(k)' => Sound(k)',
         \A k \in rec'.gone : Sound(k)',
         rec'.pc = "remove" => rec'.cur \in Container /\ Present(Orphan(rec.cur))',
         Accounted'
  PROVE  IInv'
<1>1. \A g \in Handler : HandlerInv(g)'
  BY OthersKeep
<1>2. RecordsSound'
  BY DEF RecordsSound
<1>3. QED BY <1>1, <1>2 DEF IInv, FullTypeOK

\* The reconciler only looks, or moves on.
LEMMA RecQuiet ==
  ASSUME IInv, UNCHANGED ec2Vars, rec' \in RecState, rec'.pc # "remove",
         \A k \in rec'.gone : k \in Key /\ (Present(k) \/ k \in rec.gone)
  PROVE  IInv'
<1>1. UNCHANGED <<containers, store, stateName, req>>
  BY DEF ec2Vars
<1>2. TypeOK' /\ Lasting
  BY <1>1 DEF IInv, FullTypeOK, TypeOK, DockerTypeOK, Lasting, Old, Present
<1>3. /\ \A k \in Key : Present(k)' => Sound(k)'
      /\ \A k \in rec'.gone : Sound(k)'
  BY <1>1 DEF IInv, RecordsSound, Present, Sound, Old
<1>4. Accounted'
  BY <1>1 DEF IInv, Accounted, ContainersAccounted, Exists, Present, At
<1>5. QED BY <1>1, <1>2, <1>3, <1>4, ReconcilerAssembles

LEMMA ListDockerKeeps ==
  ASSUME IInv, ListDocker
  PROVE  IInv'
<1>1. rec' \in RecState /\ rec'.pc = "list" /\ rec'.gone = {} /\ UNCHANGED ec2Vars
  BY DEF ListDocker, RecState, Waiting, ListManagedContainers
<1>2. QED BY <1>1, RecQuiet

LEMMA ListStoreKeeps ==
  ASSUME IInv, ListStore
  PROVE  IInv'
<1>1. rec \in RecState /\ UNCHANGED ec2Vars
  BY DEF IInv, FullTypeOK, ListStore
<1>2. PICK G, U : /\ G \subseteq {k \in Key : Present(k)} /\ U \subseteq Container
                  /\ rec' = [rec EXCEPT !.pc = "mark", !.gone = G, !.unknown = U]
  BY <1>1 DEF ListStore, RecState
<1>3. G \subseteq Key /\ rec'.gone = G /\ rec'.pc = "mark" /\ rec' \in RecState
  BY <1>1, <1>2 DEF RecState
<1>4. QED BY <1>1, <1>2, <1>3, RecQuiet

LEMMA MarkTerminatedKeeps ==
  ASSUME IInv, MarkTerminated
  PROVE  IInv'
<1>1. PICK k \in rec.gone : Put(k, "terminated") /\ rec' = [rec EXCEPT !.gone = @ \ {k}]
  BY DEF MarkTerminated
<1>2. UNCHANGED <<containers, stateName, req>> /\ rec \in RecState /\ rec.pc = "mark"
  BY DEF MarkTerminated, IInv, FullTypeOK
<1>3. k \in Key /\ Sound(k) /\ "terminated" \in Status
  BY <1>1, <1>2 DEF IInv, RecordsSound, RecState, Status
<1>4. rec' \in RecState /\ rec'.pc = "mark" /\ rec'.gone \subseteq rec.gone
  BY <1>1, <1>2 DEF RecState
<1>5. /\ store' \in [Key -> Status \cup {"absent"}]
      /\ \A l \in Key : Present(l) => Present(l)'
      /\ \A l \in Key : Sound(l) => Sound(l)'
      /\ \A l \in Key : Present(l)' => Sound(l)'
      /\ Lasting
  BY <1>1, <1>2, <1>3, PutFacts
<1>6. TypeOK'
  BY <1>2, <1>5 DEF IInv, FullTypeOK, TypeOK, DockerTypeOK
<1>7. \A l \in rec'.gone : Sound(l)'
  BY <1>2, <1>4, <1>5 DEF IInv, RecordsSound, RecState
<1>8. Accounted'
  BY <1>2, <1>5, PutAccounted DEF At
<1>9. QED BY <1>2, <1>4, <1>5, <1>6, <1>7, <1>8, ReconcilerAssembles

LEMMA AllMarkedKeeps ==
  ASSUME IInv, AllMarked
  PROVE  IInv'
<1>1. rec \in RecState /\ rec' = [rec EXCEPT !.pc = "adopt"] /\ UNCHANGED ec2Vars
  BY DEF AllMarked, IInv, FullTypeOK
<1>2. rec' \in RecState /\ rec'.pc = "adopt" /\ rec'.gone = rec.gone /\ rec.gone \subseteq Key
  BY <1>1 DEF RecState
<1>3. QED BY <1>1, <1>2, RecQuiet

LEMMA AdoptOrphanKeeps ==
  ASSUME IInv, AdoptOrphan
  PROVE  IInv'
<1>1. PICK c \in rec.unknown : /\ Put(Orphan(c), "orphan")
                               /\ rec' = [rec EXCEPT !.pc = "remove", !.cur = c]
  BY DEF AdoptOrphan
<1>2. UNCHANGED <<containers, stateName, req>> /\ rec \in RecState
  BY DEF AdoptOrphan, IInv, FullTypeOK
<1>3. c \in Container /\ Orphan(c) \in Key /\ Orphan(c)[1] # "res" /\ "orphan" \in Status
  BY <1>1, <1>2 DEF RecState, Orphan, Key, Status
<1>4. rec' \in RecState /\ rec'.pc = "remove" /\ rec'.cur = c /\ rec'.gone = rec.gone
  BY <1>1, <1>2, <1>3 DEF RecState
<1>5. /\ store' \in [Key -> Status \cup {"absent"}] /\ Present(Orphan(c))'
      /\ \A l \in Key : Present(l) => Present(l)'
      /\ \A l \in Key : Sound(l) => Sound(l)'
      /\ \A l \in Key : Present(l)' => Sound(l)'
      /\ Lasting
  BY <1>1, <1>2, <1>3, PutFacts
<1>6. TypeOK'
  BY <1>2, <1>5 DEF IInv, FullTypeOK, TypeOK, DockerTypeOK
<1>7. \A l \in rec'.gone : Sound(l)'
  BY <1>2, <1>4, <1>5 DEF IInv, RecordsSound, RecState
<1>8. Accounted'
  BY <1>2, <1>5, PutAccounted DEF At
<1>9. QED BY <1>2, <1>3, <1>4, <1>5, <1>6, <1>7, <1>8, ReconcilerAssembles

\* A container is moved by somebody else than the requests.
LEMMA MovedOutside ==
  ASSUME IInv, NEW c \in Container, UNCHANGED containers \/ Moves(c),
         containers' # containers /\ Exists(c)' => Exists(c) /\ containers[c] # "created",
         UNCHANGED <<store, stateName, req>>, rec' \in RecState,
         rec'.gone = rec.gone, rec'.pc = "remove" => rec' = rec
  PROVE  IInv'
<1>1. /\ DockerTypeOK'
      /\ \A d \in Container : Old(d) => Old(d)'
      /\ \A d \in Container : containers[d] = "removed" => containers'[d] = "removed"
  BY MovesLast DEF IInv, FullTypeOK, TypeOK
<1>2. TypeOK' /\ Lasting
  BY <1>1 DEF IInv, FullTypeOK, TypeOK, Lasting, Present
<1>3. \A k \in Key : Sound(k) => Sound(k)'
  BY <1>1 DEF Sound, Present, Key
<1>4. /\ \A k \in Key : Present(k)' => Sound(k)'
      /\ \A k \in rec'.gone : Sound(k)'
      /\ rec'.pc = "remove" => rec'.cur \in Container /\ Present(Orphan(rec.cur))'
  BY <1>3 DEF IInv, FullTypeOK, RecordsSound, Present, RecState
<1>5. \A i \in Instance :
        Exists(i)' => Exists(i) /\ (containers[i] = "created" => containers'[i] = "created")
  BY Ec2Assumption DEF Moves, Exists, IInv, FullTypeOK, TypeOK, DockerTypeOK
<1>6. Accounted'
  BY <1>5, AccountKept DEF Present, At
<1>7. QED BY <1>2, <1>4, <1>6, ReconcilerAssembles

LEMMA RemoveOrphanKeeps ==
  ASSUME IInv, RemoveOrphan
  PROVE  IInv'
<1>1. /\ rec.pc = "remove" /\ UNCHANGED <<store, stateName, req>> /\ rec \in RecState
      /\ rec' = [rec EXCEPT !.pc = "adopt", !.unknown = @ \ {rec.cur}, !.cur = "none",
                            !.cleaned = @ + 1]
  BY DEF RemoveOrphan, IInv, FullTypeOK
<1>2. PICK c \in Container : c = rec.cur
  BY <1>1 DEF IInv, RecordsSound
<1>3. PICK ok \in BOOLEAN : RemoveContainer(c, ok)
  BY <1>2 DEF RemoveOrphan
<1>4. UNCHANGED containers \/ Moves(c)
  BY <1>3, CallsMove
<1>5. containers' # containers => ~Exists(c)'
  BY <1>3 DEF RemoveContainer, SetState, Fails, Exists, IInv, FullTypeOK, TypeOK, DockerTypeOK
<1>6. rec' \in RecState /\ rec'.gone = rec.gone /\ rec'.pc # "remove"
  <2>1. PICK U \in SUBSET Container, n \in Nat :
          rec' = [rec EXCEPT !.pc = "adopt", !.unknown = U, !.cur = "none", !.cleaned = n]
    <3>1. rec.unknown \ {rec.cur} \in SUBSET Container /\ rec.cleaned + 1 \in Nat
      BY <1>1 DEF RecState
    <3>2. QED BY <1>1, <3>1
  <2>2. QED BY <1>1, <2>1 DEF RecState
<1>7. QED BY <1>1, <1>4, <1>5, <1>6, MovedOutside

LEMMA ReconcileDoneKeeps ==
  ASSUME IInv, ReconcileDone
  PROVE  IInv'
<1>1. rec' \in RecState /\ rec'.pc = "tick" /\ rec'.gone = {} /\ UNCHANGED ec2Vars
  BY DEF ReconcileDone, RecState, Waiting
<1>2. QED BY <1>1, RecQuiet

LEMMA OutsideKeeps ==
  ASSUME IInv, Outside
  PROVE  IInv'
<1>1. PICK c \in Container : Dies(c) \/ RemovedByHand(c)
  BY DEF Outside
<1>2. UNCHANGED <<store, stateName, req, rec>> /\ rec \in RecState
  BY DEF Outside, IInv, FullTypeOK
<1>3. UNCHANGED containers \/ Moves(c)
  BY <1>1, CallsMove
<1>4. Exists(c)' => Exists(c) /\ containers[c] # "created"
  BY <1>1 DEF Dies, RemovedByHand, SetState, Exists, IInv, FullTypeOK, TypeOK, DockerTypeOK
<1>5. QED BY <1>2, <1>3, <1>4, MovedOutside
-----------------------------------------------------------------------------
LEMMA InitIInv == Init => IInv
<1> SUFFICES ASSUME Init PROVE IInv
  OBVIOUS
<1>1. TypeOK
  BY IdleRequest DEF Init, Ec2Init, TypeOK, DockerTypeOK, ContainerState
<1>2. rec \in RecState /\ rec.gone = {} /\ rec.pc = "tick"
  BY DEF Init, Waiting, RecState
<1>3. \A h \in Handler : HandlerInv(h)
  BY DEF Init, Ec2Init, Idle, HandlerInv, Changing, Undoing, Launching, Acting
<1>4. RecordsSound
  BY <1>2 DEF Init, Ec2Init, RecordsSound, Present
<1>5. Accounted
  BY Ec2Assumption, ReconcilerAssumption
     DEF Init, Accounted, ContainersAccounted, Exists
<1>6. QED BY <1>1, <1>2, <1>3, <1>4, <1>5 DEF IInv, FullTypeOK

LEMMA StepIInv == IInv /\ [Next]_vars => IInv'
<1> SUFFICES ASSUME IInv, [Next]_vars PROVE IInv'
  OBVIOUS
<1>1. CASE Handlers
  BY <1>1, HandlerKeeps DEF Handlers
<1>2. CASE ReconcilerStep
  BY <1>2, ListDockerKeeps, ListStoreKeeps, MarkTerminatedKeeps, AllMarkedKeeps,
     AdoptOrphanKeeps, RemoveOrphanKeeps, ReconcileDoneKeeps DEF ReconcilerStep
<1>3. CASE Outside
  BY <1>3, OutsideKeeps
<1>4. CASE UNCHANGED vars
  BY <1>4 DEF vars, IInv, FullTypeOK, TypeOK, DockerTypeOK, HandlerInv, Id, Old, Sound, Present,
              RecordsSound, Accounted, ContainersAccounted, Exists, At
<1>5. QED BY <1>1, <1>2, <1>3, <1>4 DEF Next

LEMMA Inductive == Spec => []IInv
<1>1. Init => IInv
  BY InitIInv
<1>2. IInv /\ [Next]_vars => IInv'
  BY StepIInv
<1>3. QED BY <1>1, <1>2, PTL DEF Spec

(* Requests, records and the reconciler's listings keep their types.        *)
THEOREM ReconcilerTypeCorrect == Spec => []FullTypeOK
<1>1. IInv => FullTypeOK
  BY DEF IInv
<1>2. QED BY <1>1, Inductive, PTL

(* Every container started for an instance has a record that leads to it, or
   its request is about to insert it, or its start failed: any number of
   requests, of instances and of passes of the reconciler, provided that Docker
   does not refuse to remove a container that is there.                     *)
THEOREM NoContainerLost == ASSUME ~DockerMayFail PROVE Spec => []ContainersAccounted
<1>1. IInv => ContainersAccounted
  BY DEF IInv, Accounted
<1>2. QED BY <1>1, Inductive, PTL
-----------------------------------------------------------------------------
(* Requests one at a time.                                                  *)

\* From what status an operation starts, and what it makes of the container.
From(op)   == CASE op = "stop" -> {"running"} [] op = "start" -> {"stopped"}
                [] op = "terminate" -> {"running", "stopped"}
Result(op) == CASE op = "stop" -> "paused" [] op = "start" -> "running"
                [] op = "terminate" -> "removed"

\* The instance whose record is behind its container for the moment.
Behind(h, i) == \/ At(h, "insert") /\ req[h].cur = i
                \/ /\ req[h].pc \in {"undoRemove", "undoDelete", "remove", "setSpec", "put"}
                   /\ Id(h)[2] = i

\* What the only handler knows on its way.
OnTheWay(h) ==
  /\ req[h].pc \in {"start", "insert"} => store[Res(req[h].cur)] = "absent"
  /\ req[h].pc = "insert" => containers[req[h].cur] = "running"
  /\ req[h].pc \in Launching =>
       \A n \in 1 .. Len(req[h].ids) : /\ req[h].ids[n][2] \in Instance
                                       /\ store[req[h].ids[n]] \in {"running", "absent"}
  /\ req[h].pc = "undoRemove" =>
       \/ store[Id(h)] = "running" /\ containers[Id(h)[2]] = "exited"
       \/ store[Id(h)] = "absent" /\ containers[Id(h)[2]] = "removed"
  /\ req[h].pc = "undoDelete" => containers[Id(h)[2]] = "removed"
  /\ req[h].pc = "pause" => req[h].op = "stop"
  /\ req[h].pc = "unpause" => req[h].op = "start"
  /\ req[h].pc \in {"stop", "remove"} => req[h].op = "terminate"
  /\ req[h].pc \in Acting => store[Id(h)] \in From(req[h].op)
  /\ req[h].pc = "remove" => containers[Id(h)[2]] = "exited"
  /\ req[h].pc \in {"setSpec", "put"} => containers[Id(h)[2]] = Result(req[h].op)
  /\ req[h].pc = "put" => stateName[Id(h)[2]] = Target(req[h].op)

\* Without the reconciler there are no records of orphans.
InstanceRecords == \A k \in Key : Present(k) => k[1] = "res" /\ k[2] \in Instance

SerialInv == /\ InstanceRecords
             /\ \A i \in Instance : Agrees(i) \/ \E h \in Handler : Behind(h, i)
             /\ \A h \in Handler : OnTheWay(h)

\* h is the only handler, and Docker does what it is told if it can.
Alone(h) == /\ IInv /\ SerialInv /\ h \in Handler /\ ~DockerMayFail
            /\ \A g \in Handler : g = h

LifeStep == \A i \in Instance : \/ store'[Res(i)] = store[Res(i)]
                                \/ <<store[Res(i)], store'[Res(i)]>> \in Move

Agreement(i) ==
  \/ store[Res(i)] = "absent" /\ containers[i] \in {"none", "created", "removed"}
  \/ store[Res(i)] = "running" /\ containers[i] = "running" /\ stateName[i] = "running"
  \/ store[Res(i)] = "stopped" /\ containers[i] = "paused" /\ stateName[i] = "stopped"
  \/ store[Res(i)] = "terminated" /\ containers[i] = "removed" /\ stateName[i] = "terminated"

LEMMA AgreesByCases == \A i : (Agrees(i) <=> Agreement(i)) /\ (Agrees(i)' <=> Agreement(i)')
BY DEF Agrees, Agreement, Reported

LEMMA SerialAssembles ==
  ASSUME NEW h, Alone(h), InstanceRecords', \A i \in Instance : Agreement(i)' \/ Behind(h, i)',
         OnTheWay(h)'
  PROVE  SerialInv'
BY AgreesByCases DEF Alone, SerialInv

\* Between two calls the handler is behind with at most one.
LEMMA AloneFacts ==
  ASSUME NEW h, Alone(h)
  PROVE  /\ \A i \in Instance : Agreement(i) \/ Behind(h, i)
         /\ OnTheWay(h) /\ HandlerInv(h) /\ InstanceRecords
         /\ req \in [Handler -> Request] /\ req[h] \in Request /\ containers \in [Container -> ContainerState]
         /\ store \in [Key -> Status \cup {"absent"}]
         /\ stateName \in [Instance -> {"none", "running", "stopped", "terminated"}]
         /\ \A i \in Instance : i \in Container /\ Res(i) \in Key
BY AgreesByCases, Ec2Assumption DEF Alone, SerialInv, IInv, FullTypeOK, TypeOK, DockerTypeOK, Res, Key

\* The handler only moves on.
LEMMA SerialQuiet ==
  ASSUME NEW h, Alone(h), UNCHANGED <<containers, store, stateName>>,
         \A i \in Instance : ~Behind(h, i), OnTheWay(h)'
  PROVE  SerialInv' /\ LifeStep
<1>1. InstanceRecords'
  BY AloneFacts DEF InstanceRecords, Present
<1>2. \A i \in Instance : Agreement(i)'
  BY AloneFacts DEF Agreement
<1> QED BY <1>1, <1>2, SerialAssembles DEF LifeStep

LEMMA ReturnSerial ==
  ASSUME NEW h, Alone(h), Return(h)
  PROVE  req'[h] = Idle /\ OnTheWay(h)' /\ \A i : ~Behind(h, i)'
<1>1. req'[h] = Idle
  BY AloneFacts DEF Return, Alone
<1> QED BY <1>1 DEF Idle, OnTheWay, Behind, Launching, Undoing, Acting, Changing, At

\* A new request.
Begins(h, r) == /\ At(h, "idle") /\ r.pc \in {"run", "get"} /\ (r.pc = "run" => r.ids = <<>>)
                /\ req' = [req EXCEPT ![h] = r] /\ UNCHANGED <<containers, store, stateName>>

LEMMA BeginSerial ==
  ASSUME NEW h, Alone(h), NEW r, Begins(h, r)
  PROVE  SerialInv' /\ LifeStep
<1> USE DEF Begins
<1>1. req'[h] = r
  BY AloneFacts DEF Alone
<1>2. \A i \in Instance : ~Behind(h, i)
  BY DEF Behind, At
<1>3. Len(<<>>) = 0
  OBVIOUS
<1>4. OnTheWay(h)'
  BY <1>1, <1>3 DEF OnTheWay, Launching, Undoing, Acting, Changing
<1> QED BY <1>2, <1>4, SerialQuiet

LEMMA RunInstancesSerial ==
  ASSUME NEW h, Alone(h), NEW m, RunInstances(h, m)
  PROVE  SerialInv' /\ LifeStep
<1>1. PICK r : r = [Idle EXCEPT !.pc = "run", !.op = "run", !.counts = m]
  OBVIOUS
<1>2. r.pc = "run" /\ r.ids = <<>>
  BY <1>1 DEF Idle
<1>3. req' = [req EXCEPT ![h] = r] /\ At(h, "idle") /\ UNCHANGED <<containers, store, stateName>>
  BY <1>1 DEF RunInstances
<1>4. Begins(h, r)
  BY <1>2, <1>3 DEF Begins
<1> QED BY <1>4, BeginSerial

LEMMA ChangeInstancesSerial ==
  ASSUME NEW h, Alone(h), NEW op, NEW ids, ChangeInstances(h, op, ids)
  PROVE  SerialInv' /\ LifeStep
<1>1. PICK r : r = [Idle EXCEPT !.pc = "get", !.op = op, !.ids = ids]
  OBVIOUS
<1>2. r.pc = "get"
  BY <1>1 DEF Idle
<1>3. req' = [req EXCEPT ![h] = r] /\ At(h, "idle") /\ UNCHANGED <<containers, store, stateName>>
  BY <1>1 DEF ChangeInstances
<1>4. Begins(h, r)
  BY <1>2, <1>3 DEF Begins
<1> QED BY <1>4, BeginSerial

\* The containers after a call of Docker, which does what it can.
LEMMA CallSerial ==
  ASSUME NEW h, Alone(h), NEW c \in Container, NEW ok \in BOOLEAN
  PROVE  /\ StartContainer(c, ok) => IF ok THEN containers[c] = "created" /\ containers' = [containers EXCEPT ![c] = "running"]
                                           ELSE containers[c] # "created" /\ UNCHANGED containers
         /\ StopContainer(c, ok) => IF ok THEN Exists(c) /\ containers' = [containers EXCEPT ![c] = "exited"]
                                          ELSE ~Exists(c) /\ UNCHANGED containers
         /\ RemoveContainer(c, ok) => IF ok THEN Exists(c) /\ containers' = [containers EXCEPT ![c] = "removed"]
                                            ELSE ~Exists(c) /\ UNCHANGED containers
         /\ PauseContainer(c, ok) => IF ok THEN containers[c] = "running" /\ containers' = [containers EXCEPT ![c] = "paused"]
                                           ELSE containers[c] # "running" /\ UNCHANGED containers
         /\ UnpauseContainer(c, ok) => IF ok THEN containers[c] = "paused" /\ containers' = [containers EXCEPT ![c] = "running"]
                                             ELSE containers[c] # "paused" /\ UNCHANGED containers
BY DEF Alone, StartContainer, StopContainer, RemoveContainer, PauseContainer, UnpauseContainer, Fails, SetState

\* A call, or nothing, happens to one container, with which the handler may be behind.
LEMMA SerialCall ==
  ASSUME NEW h, Alone(h), UNCHANGED <<store, stateName>>, NEW c \in Container,
         UNCHANGED containers \/ \E s : containers' = [containers EXCEPT ![c] = s],
         \A i \in Instance : Behind(h, i) => i = c,
         c \in Instance => Agreement(c)' \/ Behind(h, c)', OnTheWay(h)'
  PROVE  SerialInv' /\ LifeStep
<1>1. InstanceRecords'
  BY AloneFacts DEF InstanceRecords, Present
<1>2. \A d \in Container : d # c => containers'[d] = containers[d]
  BY AloneFacts
<1>3. \A i \in Instance : i # c => Agreement(i)'
  BY <1>2, AloneFacts DEF Agreement
<1> QED BY <1>1, <1>3, SerialAssembles DEF LifeStep

LEMMA GoesSerial ==
  ASSUME NEW h, Alone(h), NEW p \in Pc, Goto(h, p)
  PROVE  /\ req'[h].pc = p /\ req'[h].ids = req[h].ids /\ req'[h].op = req[h].op
         /\ req'[h].cur = req[h].cur /\ Id(h)' = Id(h)
BY GotoFacts DEF Alone

LEMMA CreateSerial ==
  ASSUME NEW h, Alone(h), Create(h)
  PROVE  SerialInv' /\ LifeStep
<1>0. /\ \A i \in Instance : ~Behind(h, i) /\ Agreement(i)
      /\ req[h].pc = "run"
      /\ \A n \in 1 .. Len(req[h].ids) : /\ req[h].ids[n][2] \in Instance
                                         /\ store[req[h].ids[n]] \in {"running", "absent"}
  BY AloneFacts DEF Create, At, Behind, OnTheWay, Launching
<1>1. CASE Goto(h, "finish") /\ UNCHANGED containers
  <2>1. req'[h].pc = "finish" /\ req'[h].ids = req[h].ids
    BY <1>1, GoesSerial DEF Pc
  <2>2. OnTheWay(h)'
    BY <1>0, <1>1, <2>1 DEF OnTheWay, Launching, Undoing, Acting, Changing, Create
  <2> QED BY <1>0, <1>1, <2>2, SerialQuiet DEF Create
<1>2. ASSUME NEW i \in Instance, CreateContainer(i), req' = [req EXCEPT ![h].pc = "start", ![h].cur = i]
      PROVE  SerialInv' /\ LifeStep
  <2>1. req'[h].pc = "start" /\ req'[h].cur = i /\ req'[h].ids = req[h].ids
    BY <1>2, AloneFacts DEF Request, Alone
  <2>2. containers[i] = "none" /\ containers' = [containers EXCEPT ![i] = "created"] /\ UNCHANGED <<store, stateName>>
    BY <1>2 DEF CreateContainer, SetState, Create
  <2>3. store[Res(i)] = "absent" /\ i \in Container
    BY <1>0, <2>2, AloneFacts DEF Agreement
  <2>4. containers'[i] = "created"
    BY <2>2, <2>3, AloneFacts
  <2>5. Agreement(i)'
    BY <2>2, <2>3, <2>4 DEF Agreement
  <2>6. OnTheWay(h)'
    BY <1>0, <2>1, <2>2, <2>3 DEF OnTheWay, Launching, Undoing, Acting, Changing
  <2> QED BY <1>0, <2>2, <2>3, <2>5, <2>6, SerialCall
<1> QED BY <1>1, <1>2 DEF Create

LEMMA StartSerial ==
  ASSUME NEW h, Alone(h), Start(h)
  PROVE  SerialInv' /\ LifeStep
<1>0. /\ \A i \in Instance : ~Behind(h, i) /\ Agreement(i)
      /\ req[h].pc = "start" /\ store[Res(req[h].cur)] = "absent"
      /\ \A n \in 1 .. Len(req[h].ids) : /\ req[h].ids[n][2] \in Instance
                                         /\ store[req[h].ids[n]] \in {"running", "absent"}
  BY AloneFacts DEF Start, At, Behind, OnTheWay, Launching
<1>1. PICK c \in Instance : c = req[h].cur
  BY <1>0, AloneFacts DEF HandlerInv
<1>2. PICK ok \in BOOLEAN :
        /\ StartContainer(c, ok)
        /\ IF ok THEN Goto(h, "insert") ELSE req' = [req EXCEPT ![h].pc = "finish", ![h].cur = "none"]
  BY <1>1 DEF Start
<1>3. c \in Container /\ UNCHANGED <<store, stateName>>
  BY AloneFacts DEF Start
<1>4. CASE ok
  <2>1. containers' = [containers EXCEPT ![c] = "running"] /\ containers'[c] = "running"
    BY <1>2, <1>3, <1>4, CallSerial, AloneFacts
  <2>2. req'[h].pc = "insert" /\ req'[h].ids = req[h].ids /\ req'[h].cur = c
    BY <1>1, <1>2, <1>4, GoesSerial DEF Pc
  <2>3. OnTheWay(h)'
    BY <1>0, <1>1, <1>3, <2>1, <2>2 DEF OnTheWay, Launching, Undoing, Acting, Changing
  <2>4. Behind(h, c)'
    BY <2>2 DEF Behind, At
  <2> QED BY <1>0, <1>3, <2>1, <2>3, <2>4, SerialCall
<1>5. CASE ~ok
  <2>1. containers' = containers
    BY <1>2, <1>3, <1>5, CallSerial
  <2>2. req'[h].pc = "finish" /\ req'[h].ids = req[h].ids
    BY <1>2, <1>5, AloneFacts DEF Request, Alone
  <2>3. OnTheWay(h)'
    BY <1>0, <1>3, <2>1, <2>2 DEF OnTheWay, Launching, Undoing, Acting, Changing
  <2> QED BY <1>0, <1>3, <2>1, <2>3, SerialQuiet
<1> QED BY <1>4, <1>5

\* A step that changes nothing but what concerns one instance.
LEMMA SerialChange ==
  ASSUME NEW h, Alone(h), NEW c \in Instance,
         \A d \in Container : d # c => containers'[d] = containers[d],
         \A i \in Instance : i # c => stateName'[i] = stateName[i],
         \A k \in Key : k # Res(c) => store'[k] = store[k],
         \A i \in Instance : Behind(h, i) => i = c,
         Agreement(c)' \/ Behind(h, c)', OnTheWay(h)',
         store'[Res(c)] = store[Res(c)] \/ <<store[Res(c)], store'[Res(c)]>> \in Move
  PROVE  SerialInv' /\ LifeStep
<1>1. \A i \in Instance : i # c => Res(i) # Res(c) /\ Res(i) \in Key /\ i \in Container
  BY AloneFacts DEF Res
<1>2. InstanceRecords'
  BY AloneFacts DEF InstanceRecords, Present, Res
<1>3. \A i \in Instance : i # c => Agreement(i)' /\ store'[Res(i)] = store[Res(i)]
  BY <1>1, AloneFacts DEF Agreement
<1> QED BY <1>2, <1>3, SerialAssembles DEF LifeStep

LEMMA InsertSerial ==
  ASSUME NEW h, Alone(h), Insert(h)
  PROVE  SerialInv' /\ LifeStep
<1>0. /\ req[h].pc = "insert" /\ store[Res(req[h].cur)] = "absent"
      /\ containers[req[h].cur] = "running"
      /\ req[h].ids \in Seq(Key)
      /\ \A n \in 1 .. Len(req[h].ids) : /\ req[h].ids[n][2] \in Instance
                                         /\ store[req[h].ids[n]] \in {"running", "absent"}
  BY AloneFacts, Fields DEF Insert, At, OnTheWay, Launching
<1>1. PICK c \in Instance : c = req[h].cur
  BY <1>0, AloneFacts DEF HandlerInv
<1>2. PICK ids : ids = Append(req[h].ids, Res(c))
  OBVIOUS
<1>3. PICK p \in {"run", "finish"} :
        /\ store' = [store EXCEPT ![Res(c)] = "running"]
        /\ stateName' = [stateName EXCEPT ![c] = "running"]
        /\ req' = [req EXCEPT ![h].pc = p, ![h].ids = ids, ![h].cur = "none"]
        /\ UNCHANGED containers
  BY <1>1, <1>2 DEF Insert, Put
<1>4. req'[h].pc = p /\ req'[h].ids = ids
  BY <1>3, AloneFacts DEF Request, Alone
<1>5. store'[Res(c)] = "running" /\ stateName'[c] = "running" /\ \A k \in Key : k # Res(c) => store'[k] = store[k]
  BY <1>3, AloneFacts
<1>6. \A n \in 1 .. Len(ids) : ids[n][2] \in Instance /\ store'[ids[n]] \in {"running", "absent"}
  <2>1. /\ Len(ids) = Len(req[h].ids) + 1 /\ ids[Len(req[h].ids) + 1] = Res(c)
        /\ \A n \in 1 .. Len(req[h].ids) : ids[n] = req[h].ids[n] /\ ids[n] \in Key
        /\ Len(req[h].ids) \in Nat
    BY <1>0, <1>2, AloneFacts
  <2>2. \A n \in 1 .. Len(ids) : n \in 1 .. Len(req[h].ids) \/ n = Len(req[h].ids) + 1
    BY <2>1
  <2>3. Res(c)[2] = c
    BY DEF Res
  <2>4. ASSUME NEW n \in 1 .. Len(req[h].ids), ids[n] # Res(c)
        PROVE  ids[n][2] \in Instance /\ store'[ids[n]] \in {"running", "absent"}
    BY <1>0, <1>5, <2>1, <2>4
  <2>5. ids[Len(req[h].ids) + 1][2] \in Instance /\ store'[ids[Len(req[h].ids) + 1]] = "running"
    BY <1>5, <2>1, <2>3
  <2>6. ASSUME NEW n \in 1 .. Len(req[h].ids), ids[n] = Res(c)
        PROVE  ids[n][2] \in Instance /\ store'[ids[n]] \in {"running", "absent"}
    BY <1>5, <2>3, <2>6
  <2> QED BY <2>2, <2>4, <2>5, <2>6
<1>7. OnTheWay(h)'
  BY <1>3, <1>4, <1>6 DEF OnTheWay, Launching, Undoing, Acting, Changing
<1>8. Agreement(c)'
  BY <1>0, <1>1, <1>3, <1>5 DEF Agreement
<1>9. \A i \in Instance : Behind(h, i) => i = c
  BY <1>0, <1>1 DEF Behind, At
<1>10. /\ \A d \in Container : d # c => containers'[d] = containers[d]
       /\ \A i \in Instance : i # c => stateName'[i] = stateName[i]
       /\ <<store[Res(c)], store'[Res(c)]>> \in Move
  BY <1>0, <1>1, <1>3, <1>5, AloneFacts DEF Move
<1> QED BY <1>5, <1>7, <1>8, <1>9, <1>10, SerialChange

\* A request that has only ids left to look at, or none, is behind with nothing.
LEMMA QuietReturn ==
  ASSUME NEW h, Alone(h), Return(h), \A i \in Instance : ~Behind(h, i),
         UNCHANGED <<containers, store, stateName>>
  PROVE  SerialInv' /\ LifeStep
BY ReturnSerial, SerialQuiet

LEMMA FinishRunSerial ==
  ASSUME NEW h, Alone(h), FinishRun(h)
  PROVE  SerialInv' /\ LifeStep
<1>0. /\ \A i \in Instance : ~Behind(h, i)
      /\ req[h].pc = "finish" /\ UNCHANGED <<containers, store, stateName>>
      /\ \A n \in 1 .. Len(req[h].ids) : /\ req[h].ids[n][2] \in Instance
                                         /\ store[req[h].ids[n]] \in {"running", "absent"}
  BY AloneFacts DEF FinishRun, At, Behind, OnTheWay, Launching
<1>1. CASE Return(h)
  BY <1>0, <1>1, QuietReturn
<1>2. CASE Goto(h, "undoStop")
  <2>1. req'[h].pc = "undoStop" /\ req'[h].ids = req[h].ids
    BY <1>2, GoesSerial DEF Pc
  <2>2. OnTheWay(h)'
    BY <1>0, <2>1 DEF OnTheWay, Launching, Undoing, Acting, Changing
  <2> QED BY <1>0, <2>2, SerialQuiet
<1> QED BY <1>1, <1>2 DEF FinishRun

\* The id that the clean-up is at.
LEMMA UndoFacts ==
  ASSUME NEW h, Alone(h), req[h].pc \in Undoing
  PROVE  \E c \in Instance :
           /\ Id(h) = Res(c) /\ Id(h)[2] = c /\ Res(c) \in Key /\ Old(c) /\ c \in Container
           /\ store[Res(c)] \in {"running", "absent"}
           /\ req[h].ids # <<>> /\ Id(h) = req[h].ids[1] /\ 1 \in 1 .. Len(req[h].ids)
           /\ \A n \in 1 .. Len(req[h].ids) : /\ req[h].ids[n][2] \in Instance
                                              /\ store[req[h].ids[n]] \in {"running", "absent"}
<1>1. /\ req[h].ids # <<>> /\ Id(h)[1] = "res" /\ Old(Id(h)[2])
  BY UndoingFacts DEF Alone
<1>2. /\ Id(h) \in Key /\ Id(h) = req[h].ids[1] /\ 1 \in 1 .. Len(req[h].ids)
      /\ Id(h)[2] \in Container /\ Id(h) = Res(Id(h)[2])
  BY <1>1, IdFacts DEF Alone
<1>3. \A n \in 1 .. Len(req[h].ids) : /\ req[h].ids[n][2] \in Instance
                                      /\ store[req[h].ids[n]] \in {"running", "absent"}
  BY AloneFacts DEF OnTheWay, Launching
<1>4. PICK c \in Instance : c = Id(h)[2]
  BY <1>2, <1>3
<1> QED BY <1>1, <1>2, <1>3, <1>4

LEMMA UndoStopSerial ==
  ASSUME NEW h, Alone(h), UndoStop(h)
  PROVE  SerialInv' /\ LifeStep
<1>0. /\ \A i \in Instance : ~Behind(h, i) /\ Agreement(i)
      /\ req[h].pc = "undoStop" /\ req[h].pc \in Undoing /\ UNCHANGED <<store, stateName>>
  BY AloneFacts DEF UndoStop, At, Behind, Undoing
<1>1. PICK c \in Instance :
        /\ Id(h) = Res(c) /\ Id(h)[2] = c /\ Res(c) \in Key /\ Old(c) /\ c \in Container
        /\ store[Res(c)] \in {"running", "absent"}
        /\ \A n \in 1 .. Len(req[h].ids) : /\ req[h].ids[n][2] \in Instance
                                           /\ store[req[h].ids[n]] \in {"running", "absent"}
  BY <1>0, UndoFacts
<1>2. PICK ok \in BOOLEAN : StopContainer(c, ok)
  BY <1>1 DEF UndoStop, ContainerOf
<1>3. /\ req'[h].pc = "undoRemove" /\ req'[h].ids = req[h].ids /\ Id(h)' = Id(h)
  BY GoesSerial DEF UndoStop, Pc
<1>4. IF ok THEN Exists(c) /\ containers' = [containers EXCEPT ![c] = "exited"]
            ELSE ~Exists(c) /\ UNCHANGED containers
  BY <1>1, <1>2, CallSerial
<1>5. \/ store[Res(c)] = "running" /\ containers[c] = "running"
      \/ store[Res(c)] = "absent" /\ containers[c] = "removed"
  BY <1>0, <1>1 DEF Agreement, Old
<1>6. \/ store[Res(c)] = "running" /\ containers'[c] = "exited"
      \/ store[Res(c)] = "absent" /\ containers'[c] = "removed"
  BY <1>1, <1>4, <1>5, AloneFacts DEF Exists
<1>7. OnTheWay(h)'
  BY <1>0, <1>1, <1>3, <1>6 DEF OnTheWay, Launching, Undoing, Acting, Changing
<1>8. Behind(h, c)'
  BY <1>1, <1>3 DEF Behind
<1>9. UNCHANGED containers \/ \E s : containers' = [containers EXCEPT ![c] = s]
  BY <1>4
<1> QED BY <1>0, <1>1, <1>7, <1>8, <1>9, SerialCall

LEMMA UndoRemoveSerial ==
  ASSUME NEW h, Alone(h), UndoRemove(h)
  PROVE  SerialInv' /\ LifeStep
<1>0. req[h].pc = "undoRemove" /\ req[h].pc \in Undoing /\ UNCHANGED <<store, stateName>>
  BY DEF UndoRemove, At, Undoing
<1>1. PICK c \in Instance :
        /\ Id(h) = Res(c) /\ Id(h)[2] = c /\ Res(c) \in Key /\ Old(c) /\ c \in Container
        /\ store[Res(c)] \in {"running", "absent"}
        /\ \A n \in 1 .. Len(req[h].ids) : /\ req[h].ids[n][2] \in Instance
                                           /\ store[req[h].ids[n]] \in {"running", "absent"}
  BY <1>0, UndoFacts
<1>2. PICK ok \in BOOLEAN : RemoveContainer(c, ok)
  BY <1>1 DEF UndoRemove, ContainerOf
<1>3. /\ req'[h].pc = "undoDelete" /\ req'[h].ids = req[h].ids /\ Id(h)' = Id(h)
  BY GoesSerial DEF UndoRemove, Pc
<1>4. IF ok THEN Exists(c) /\ containers' = [containers EXCEPT ![c] = "removed"]
            ELSE ~Exists(c) /\ UNCHANGED containers
  BY <1>1, <1>2, CallSerial
<1>5. containers[c] \in {"exited", "removed"}
  BY <1>0, <1>1, AloneFacts DEF OnTheWay
<1>6. containers'[c] = "removed"
  BY <1>1, <1>4, <1>5, AloneFacts DEF Exists
<1>7. OnTheWay(h)'
  BY <1>0, <1>1, <1>3, <1>6 DEF OnTheWay, Launching, Undoing, Acting, Changing
<1>8. Behind(h, c)' /\ \A i \in Instance : Behind(h, i) => i = c
  BY <1>0, <1>1, <1>3 DEF Behind, At
<1>9. UNCHANGED containers \/ \E s : containers' = [containers EXCEPT ![c] = s]
  BY <1>4
<1> QED BY <1>0, <1>1, <1>7, <1>8, <1>9, SerialCall

\* After a turn of a loop over the ids.
LEMMA TurnSerial ==
  ASSUME NEW h, Alone(h), NEW p \in {"get", "undoStop"}, req[h].ids # <<>>,
         req' = [req EXCEPT ![h] = NextTurn(req[h], p)]
  PROVE  \/ req'[h].pc = "idle"
         \/ req'[h].pc = p /\ req'[h].ids = Tail(req[h].ids)
<1>1. p \in Pc
  BY DEF Pc
<1>2. IInv /\ h \in Handler
  BY DEF Alone
<1>3. \E r \in Request :
         /\ req' = [req EXCEPT ![h] = r] /\ req'[h] = r
         /\ \/ r = Idle
            \/ /\ r.pc = p /\ r.op = req[h].op /\ r.ids # <<>>
               /\ r.ids = Tail(req[h].ids)
  BY <1>1, <1>2, NextTurnFacts
<1>4. Idle.pc = "idle"
  BY DEF Idle
<1> QED BY <1>3, <1>4

LEMMA UndoDeleteSerial ==
  ASSUME NEW h, Alone(h), UndoDelete(h)
  PROVE  SerialInv' /\ LifeStep
<1>0. req[h].pc = "undoDelete" /\ req[h].pc \in Undoing /\ UNCHANGED <<containers, stateName>>
  BY DEF UndoDelete, At, Undoing
<1>1. PICK c \in Instance :
        /\ Id(h) = Res(c) /\ Id(h)[2] = c /\ Res(c) \in Key /\ c \in Container
        /\ store[Res(c)] \in {"running", "absent"} /\ req[h].ids # <<>>
        /\ \A n \in 1 .. Len(req[h].ids) : /\ req[h].ids[n][2] \in Instance
                                           /\ store[req[h].ids[n]] \in {"running", "absent"}
  BY <1>0, UndoFacts
<1>2. store' = [store EXCEPT ![Res(c)] = "absent"]
  BY <1>1 DEF UndoDelete, Delete
<1>3. store'[Res(c)] = "absent" /\ \A k \in Key : k # Res(c) => store'[k] = store[k]
  BY <1>1, <1>2, AloneFacts
<1>4. containers[c] = "removed"
  BY <1>0, <1>1, AloneFacts DEF OnTheWay
<1>5. Agreement(c)'
  BY <1>0, <1>3, <1>4 DEF Agreement
<1>6. req'[h].pc = "idle" \/ (req'[h].pc = "undoStop" /\ req'[h].ids = Tail(req[h].ids))
  <2>1. req' = [req EXCEPT ![h] = NextTurn(req[h], "undoStop")] /\ req[h].ids # <<>>
    BY <1>1 DEF UndoDelete
  <2> QED BY <2>1, TurnSerial
<1>7. \A n \in 1 .. Len(Tail(req[h].ids)) : /\ Tail(req[h].ids)[n][2] \in Instance
                                            /\ store'[Tail(req[h].ids)[n]] \in {"running", "absent"}
  <2>1. req[h].ids \in Seq(Key)
    BY AloneFacts, Fields
  <2>2. \A n \in 1 .. Len(Tail(req[h].ids)) : /\ Tail(req[h].ids)[n] = req[h].ids[n + 1]
                                              /\ n + 1 \in 1 .. Len(req[h].ids)
    BY <1>1, IdFacts DEF Alone
  <2>3. \A n \in 1 .. Len(req[h].ids) : /\ req[h].ids[n][2] \in Instance
                                        /\ store'[req[h].ids[n]] \in {"running", "absent"}
    BY <1>1, <1>3, <2>1
  <2> QED BY <2>2, <2>3
<1>8. OnTheWay(h)'
  BY <1>6, <1>7 DEF OnTheWay, Launching, Undoing, Acting, Changing
<1>9. \A i \in Instance : Behind(h, i) => i = c
  BY <1>0, <1>1 DEF Behind, At
<1>10. store'[Res(c)] = store[Res(c)] \/ <<store[Res(c)], store'[Res(c)]>> \in Move
  BY <1>1, <1>3 DEF Move
<1> QED BY <1>0, <1>3, <1>5, <1>8, <1>9, <1>10, SerialChange

\* The record that StopInstances, StartInstances or TerminateInstances is at.
LEMMA ChangeFacts ==
  ASSUME NEW h, Alone(h), req[h].pc \in Changing, Present(Id(h))
  PROVE  \E c \in Instance :
           /\ Id(h) = Res(c) /\ Id(h)[2] = c /\ Id(h)[1] = "res" /\ Res(c) \in Key /\ c \in Container
           /\ req[h].ids # <<>> /\ req[h].op \in {"stop", "start", "terminate"}
<1>1. req[h].ids # <<>> /\ req[h].op \in {"stop", "start", "terminate"}
  BY AloneFacts DEF HandlerInv
<1>2. Id(h) \in Key /\ (Id(h)[1] = "res" => Id(h) = Res(Id(h)[2])) /\ Id(h)[2] \in Container
  BY <1>1, IdFacts DEF Alone
<1>3. Id(h)[1] = "res" /\ Id(h)[2] \in Instance
  BY <1>2, AloneFacts DEF InstanceRecords
<1> QED BY <1>1, <1>2, <1>3

LEMMA ActFacts ==
  ASSUME NEW h, Alone(h), req[h].pc \in Acting
  PROVE  \E c \in Instance :
           /\ Id(h) = Res(c) /\ Id(h)[2] = c /\ Id(h)[1] = "res" /\ Res(c) \in Key /\ c \in Container
           /\ req[h].ids # <<>> /\ req[h].op \in {"stop", "start", "terminate"}
           /\ store[Res(c)] \in From(req[h].op)
<1>1. req[h].pc \in Changing /\ store[Id(h)] \in From(req[h].op)
  BY AloneFacts DEF OnTheWay, Acting
<1>2. req[h].op \in {"stop", "start", "terminate"}
  BY <1>1, AloneFacts DEF HandlerInv
<1>3. Present(Id(h))
  BY <1>1, <1>2 DEF From, Present
<1> QED BY <1>1, <1>3, ChangeFacts

LEMMA NextIdSerial ==
  ASSUME NEW h, Alone(h), NextId(h), req[h].ids # <<>>
  PROVE  OnTheWay(h)'
<1>1. req'[h].pc = "idle" \/ req'[h].pc = "get"
  BY TurnSerial DEF NextId
<1> QED BY <1>1 DEF OnTheWay, Launching, Undoing, Acting, Changing

LEMMA GetInstanceSerial ==
  ASSUME NEW h, Alone(h), GetInstance(h)
  PROVE  SerialInv' /\ LifeStep
<1>0. /\ \A i \in Instance : ~Behind(h, i) /\ Agreement(i)
      /\ req[h].pc = "get" /\ req[h].pc \in Changing /\ UNCHANGED <<containers, store, stateName>>
  BY AloneFacts DEF GetInstance, At, Behind, Changing
<1>1. req[h].ids # <<>> /\ req[h].op \in {"stop", "start", "terminate"}
  BY <1>0, AloneFacts DEF HandlerInv
<1>2. CASE Return(h)
  BY <1>0, <1>2, QuietReturn
<1>3. CASE NextId(h)
  BY <1>0, <1>1, <1>3, NextIdSerial, SerialQuiet
<1>4. CASE /\ Goto(h, Verdict(req[h].op, Id(h)))
           /\ Verdict(req[h].op, Id(h)) \notin {"error", "done"}
  <2>1. Present(Id(h))
    BY <1>4 DEF Verdict
  <2>2. PICK c \in Instance : /\ Id(h) = Res(c) /\ Id(h)[2] = c
                              /\ Res(c) \in Key /\ c \in Container
    BY <1>0, <2>1, ChangeFacts
  <2>3. store[Res(c)] \in {"running", "stopped", "terminated"}
        /\ (stateName[c] = "terminated" <=> store[Res(c)] = "terminated")
    BY <1>0, <2>1, <2>2 DEF Agreement, Present
  <2>4. PICK v \in {"pause", "unpause", "stop"} :
          /\ v = Verdict(req[h].op, Id(h)) /\ store[Id(h)] \in From(req[h].op)
          /\ v = "pause" => req[h].op = "stop"
          /\ v = "unpause" => req[h].op = "start"
          /\ v = "stop" => req[h].op = "terminate"
    <3>1. CASE req[h].op = "stop"
      BY <1>4, <2>1, <2>2, <2>3, <3>1 DEF Verdict, From
    <3>2. CASE req[h].op = "start"
      BY <1>4, <2>1, <2>2, <2>3, <3>2 DEF Verdict, From
    <3>3. CASE req[h].op = "terminate"
      <4>1. PrevStateName(Id(h)) = stateName[c]
        BY <2>2 DEF PrevStateName, ContainerOf
      <4> QED BY <1>4, <2>1, <2>2, <2>3, <3>3, <4>1 DEF Verdict, From
    <3> QED BY <1>1, <3>1, <3>2, <3>3
  <2>5. req'[h].pc = v /\ req'[h].op = req[h].op /\ Id(h)' = Id(h)
    BY <1>4, <2>4, GoesSerial DEF Pc
  <2>6. OnTheWay(h)'
    BY <1>0, <2>4, <2>5 DEF OnTheWay, Launching, Undoing
  <2> QED BY <1>0, <2>6, SerialQuiet
<1> QED BY <1>2, <1>3, <1>4 DEF GetInstance

LEMMA PauseSerial ==
  ASSUME NEW h, Alone(h), Pause(h)
  PROVE  SerialInv' /\ LifeStep
<1>0. /\ \A i \in Instance : ~Behind(h, i) /\ Agreement(i)
      /\ req[h].pc = "pause" /\ req[h].pc \in Acting /\ UNCHANGED <<store, stateName>>
      /\ req[h].op = "stop"
  BY AloneFacts DEF Pause, At, Behind, Changing, Acting, OnTheWay
<1>1. PICK c \in Instance : /\ Id(h) = Res(c) /\ Id(h)[2] = c /\ c \in Container
                            /\ store[Res(c)] \in From(req[h].op)
  BY <1>0, ActFacts
<1>2. store[Res(c)] = "running" /\ containers[c] = "running"
  BY <1>0, <1>1 DEF From, Agreement
<1>3. PICK ok \in BOOLEAN : /\ PauseContainer(c, ok)
                            /\ IF ok THEN Goto(h, "setSpec") ELSE Return(h)
  BY <1>1 DEF Pause, ContainerOf
<1>4. ok /\ containers' = [containers EXCEPT ![c] = "paused"]
  BY <1>1, <1>2, <1>3, CallSerial
<1>5. req'[h].pc = "setSpec" /\ req'[h].op = "stop" /\ Id(h)' = Id(h)
  BY <1>0, <1>3, <1>4, GoesSerial DEF Pc
<1>6. containers'[c] = "paused"
  BY <1>1, <1>4, AloneFacts
<1>7. OnTheWay(h)'
  BY <1>0, <1>1, <1>2, <1>5, <1>6 DEF OnTheWay, Launching, Undoing, From, Result
<1>8. Behind(h, c)'
  BY <1>1, <1>5 DEF Behind
<1>9. UNCHANGED containers \/ \E s : containers' = [containers EXCEPT ![c] = s]
  BY <1>4
<1> QED BY <1>0, <1>1, <1>7, <1>8, <1>9, SerialCall

LEMMA UnpauseSerial ==
  ASSUME NEW h, Alone(h), Unpause(h)
  PROVE  SerialInv' /\ LifeStep
<1>0. /\ \A i \in Instance : ~Behind(h, i) /\ Agreement(i)
      /\ req[h].pc = "unpause" /\ req[h].pc \in Acting /\ UNCHANGED <<store, stateName>>
      /\ req[h].op = "start"
  BY AloneFacts DEF Unpause, At, Behind, Changing, Acting, OnTheWay
<1>1. PICK c \in Instance : /\ Id(h) = Res(c) /\ Id(h)[2] = c /\ c \in Container
                            /\ store[Res(c)] \in From(req[h].op)
  BY <1>0, ActFacts
<1>2. store[Res(c)] = "stopped" /\ containers[c] = "paused"
  BY <1>0, <1>1 DEF From, Agreement
<1>3. PICK ok \in BOOLEAN : /\ UnpauseContainer(c, ok)
                            /\ IF ok THEN Goto(h, "setSpec") ELSE Return(h)
  BY <1>1 DEF Unpause, ContainerOf
<1>4. ok /\ containers' = [containers EXCEPT ![c] = "running"]
  BY <1>1, <1>2, <1>3, CallSerial
<1>5. req'[h].pc = "setSpec" /\ req'[h].op = "start" /\ Id(h)' = Id(h)
  BY <1>0, <1>3, <1>4, GoesSerial DEF Pc
<1>6. containers'[c] = "running"
  BY <1>1, <1>4, AloneFacts
<1>7. OnTheWay(h)'
  BY <1>0, <1>1, <1>2, <1>5, <1>6 DEF OnTheWay, Launching, Undoing, From, Result
<1>8. Behind(h, c)'
  BY <1>1, <1>5 DEF Behind
<1>9. UNCHANGED containers \/ \E s : containers' = [containers EXCEPT ![c] = s]
  BY <1>4
<1> QED BY <1>0, <1>1, <1>7, <1>8, <1>9, SerialCall

LEMMA TerminateStopSerial ==
  ASSUME NEW h, Alone(h), TerminateStop(h)
  PROVE  SerialInv' /\ LifeStep
<1>0. /\ \A i \in Instance : ~Behind(h, i) /\ Agreement(i)
      /\ req[h].pc = "stop" /\ req[h].pc \in Acting /\ UNCHANGED <<store, stateName>>
      /\ req[h].op = "terminate"
  BY AloneFacts DEF TerminateStop, At, Behind, Changing, Acting, OnTheWay
<1>1. PICK c \in Instance : /\ Id(h) = Res(c) /\ Id(h)[2] = c /\ c \in Container
                            /\ store[Res(c)] \in From(req[h].op)
  BY <1>0, ActFacts
<1>2. containers[c] \in {"running", "paused"} /\ store[Res(c)] \in {"running", "stopped"}
  BY <1>0, <1>1 DEF From, Agreement
<1>3. PICK ok \in BOOLEAN : StopContainer(c, ok)
  BY <1>1 DEF TerminateStop, ContainerOf
<1>4. containers' = [containers EXCEPT ![c] = "exited"]
  BY <1>1, <1>2, <1>3, CallSerial DEF Exists
<1>5. req'[h].pc = "remove" /\ req'[h].op = "terminate" /\ Id(h)' = Id(h)
  BY <1>0, GoesSerial DEF TerminateStop, Pc
<1>6. containers'[c] = "exited"
  BY <1>1, <1>4, AloneFacts
<1>7. OnTheWay(h)'
  BY <1>0, <1>1, <1>2, <1>5, <1>6 DEF OnTheWay, Launching, Undoing, From
<1>8. Behind(h, c)'
  BY <1>1, <1>5 DEF Behind
<1>9. UNCHANGED containers \/ \E s : containers' = [containers EXCEPT ![c] = s]
  BY <1>4
<1> QED BY <1>0, <1>1, <1>7, <1>8, <1>9, SerialCall

LEMMA TerminateRemoveSerial ==
  ASSUME NEW h, Alone(h), TerminateRemove(h)
  PROVE  SerialInv' /\ LifeStep
<1>0. /\ req[h].pc = "remove" /\ req[h].pc \in Acting /\ UNCHANGED <<store, stateName>>
      /\ req[h].op = "terminate" /\ containers[Id(h)[2]] = "exited"
  BY AloneFacts DEF TerminateRemove, At, Changing, Acting, OnTheWay
<1>1. PICK c \in Instance : /\ Id(h) = Res(c) /\ Id(h)[2] = c /\ c \in Container
                            /\ store[Res(c)] \in From(req[h].op)
  BY <1>0, ActFacts
<1>2. PICK ok \in BOOLEAN : RemoveContainer(c, ok)
  BY <1>1 DEF TerminateRemove, ContainerOf
<1>3. containers' = [containers EXCEPT ![c] = "removed"]
  BY <1>0, <1>1, <1>2, CallSerial DEF Exists
<1>4. req'[h].pc = "setSpec" /\ req'[h].op = "terminate" /\ Id(h)' = Id(h)
  BY <1>0, GoesSerial DEF TerminateRemove, Pc
<1>5. containers'[c] = "removed"
  BY <1>1, <1>3, AloneFacts
<1>6. OnTheWay(h)'
  BY <1>0, <1>1, <1>4, <1>5 DEF OnTheWay, Launching, Undoing, From, Result
<1>7. Behind(h, c)' /\ \A i \in Instance : Behind(h, i) => i = c
  BY <1>0, <1>1, <1>4 DEF Behind, At
<1>8. UNCHANGED containers \/ \E s : containers' = [containers EXCEPT ![c] = s]
  BY <1>3
<1> QED BY <1>0, <1>1, <1>6, <1>7, <1>8, SerialCall

LEMMA SetSpecSerial ==
  ASSUME NEW h, Alone(h), SetSpec(h)
  PROVE  SerialInv' /\ LifeStep
<1>0. /\ req[h].pc = "setSpec" /\ req[h].pc \in Acting /\ UNCHANGED <<containers, store>>
      /\ containers[Id(h)[2]] = Result(req[h].op)
  BY AloneFacts DEF SetSpec, At, Changing, Acting, OnTheWay
<1>1. PICK c \in Instance : /\ Id(h) = Res(c) /\ Id(h)[2] = c /\ c \in Container
                            /\ store[Res(c)] \in From(req[h].op)
  BY <1>0, ActFacts
<1>2. /\ stateName' = [stateName EXCEPT ![c] = Target(req[h].op)]
      /\ Goto(h, "put")
  BY <1>1 DEF SetSpec, ContainerOf, Orphan, Res
<1>3. req'[h].pc = "put" /\ req'[h].op = req[h].op /\ Id(h)' = Id(h)
  BY <1>2, GoesSerial DEF Pc
<1>4. stateName'[c] = Target(req[h].op) /\ \A i \in Instance : i # c => stateName'[i] = stateName[i]
  BY <1>2, AloneFacts
<1>5. Target(req'[h].op) = Target(req[h].op) /\ Result(req'[h].op) = Result(req[h].op)
      /\ From(req'[h].op) = From(req[h].op)
  BY <1>3
<1>6. OnTheWay(h)'
  BY <1>0, <1>1, <1>3, <1>4, <1>5 DEF OnTheWay, Launching, Undoing
<1>7. Behind(h, c)' /\ \A i \in Instance : Behind(h, i) => i = c
  BY <1>0, <1>1, <1>3 DEF Behind, At
<1> QED BY <1>0, <1>4, <1>6, <1>7, SerialChange

LEMMA PutInstanceSerial ==
  ASSUME NEW h, Alone(h), PutInstance(h)
  PROVE  SerialInv' /\ LifeStep
<1>0. /\ req[h].pc = "put" /\ req[h].pc \in Acting /\ UNCHANGED <<containers, stateName>>
      /\ containers[Id(h)[2]] = Result(req[h].op) /\ stateName[Id(h)[2]] = Target(req[h].op)
  BY AloneFacts DEF PutInstance, At, Changing, Acting, OnTheWay
<1>1. PICK c \in Instance :
        /\ Id(h) = Res(c) /\ Id(h)[2] = c /\ c \in Container /\ Res(c) \in Key
        /\ store[Res(c)] \in From(req[h].op)
        /\ req[h].ids # <<>> /\ req[h].op \in {"stop", "start", "terminate"}
  BY <1>0, ActFacts
<1>2. store' = [store EXCEPT ![Res(c)] = Target(req[h].op)]
  BY <1>1 DEF PutInstance, Put
<1>3. /\ store'[Res(c)] = Target(req[h].op)
      /\ \A k \in Key : k # Res(c) => store'[k] = store[k]
  BY <1>1, <1>2, AloneFacts
<1>4. Agreement(c)'
  BY <1>0, <1>1, <1>3 DEF Agreement, Target, Result
<1>5. OnTheWay(h)'
  BY <1>1, NextIdSerial DEF PutInstance
<1>6. \A i \in Instance : Behind(h, i) => i = c
  BY <1>0, <1>1 DEF Behind, At
<1>7. <<store[Res(c)], store'[Res(c)]>> \in Move
  BY <1>1, <1>3 DEF Move, Target, From
<1> QED BY <1>0, <1>3, <1>4, <1>5, <1>6, <1>7, SerialChange

LEMMA HandlerSerial ==
  ASSUME NEW h, Alone(h), HandlerStep(h)
  PROVE  SerialInv' /\ LifeStep
BY RunInstancesSerial, CreateSerial, StartSerial, InsertSerial, FinishRunSerial, UndoStopSerial,
   UndoRemoveSerial, UndoDeleteSerial, ChangeInstancesSerial, GetInstanceSerial, PauseSerial,
   UnpauseSerial, TerminateStopSerial, TerminateRemoveSerial, SetSpecSerial, PutInstanceSerial
   DEF HandlerStep

LEMMA InitSerial == Init => SerialInv
<1> SUFFICES ASSUME Init PROVE SerialInv
  OBVIOUS
<1>1. InstanceRecords
  BY DEF Init, Ec2Init, InstanceRecords, Present
<1>2. \A i \in Instance : Agreement(i)
  BY Ec2Assumption, ReconcilerAssumption DEF Init, Ec2Init, Agreement, Res, Key
<1>3. \A h \in Handler : OnTheWay(h)
  BY DEF Init, Ec2Init, Idle, OnTheWay, Launching, Undoing, Acting, Changing
<1> QED BY <1>1, <1>2, <1>3, AgreesByCases DEF SerialInv

LEMMA StepSerial ==
  ASSUME ~DockerMayFail, \A g, h \in Handler : g = h, IInv, SerialInv, [Handlers]_vars
  PROVE  IInv' /\ SerialInv' /\ (LifeStep \/ UNCHANGED vars)
<1>1. IInv'
  BY StepIInv DEF Next
<1>2. CASE Handlers
  <2>1. PICK h \in Handler : HandlerStep(h)
    BY <1>2 DEF Handlers
  <2>2. Alone(h)
    BY DEF Alone
  <2> QED BY <1>1, <2>1, <2>2, HandlerSerial
<1>3. CASE UNCHANGED vars
  <2>1. UNCHANGED <<containers, store, stateName, req>>
    BY <1>3 DEF vars
  <2>2. InstanceRecords' /\ \A i : Agrees(i)' = Agrees(i)
    BY <2>1 DEF SerialInv, InstanceRecords, Present, Agrees, Reported
  <2>3. \A h, i : Behind(h, i)' = Behind(h, i)
    BY <2>1 DEF Behind, At, Id
  <2>4. \A h \in Handler : OnTheWay(h)'
    BY <2>1 DEF SerialInv, OnTheWay, Id
  <2> QED BY <1>1, <1>3, <2>2, <2>3, <2>4 DEF SerialInv
<1> QED BY <1>2, <1>3

(* Requests one after the other, however many and about however many instances:
   between two of them the store, the reported state and the container of every
   instance agree.                                                          *)
THEOREM SerialAgreement ==
  ASSUME ~DockerMayFail, \A g, h \in Handler : g = h
  PROVE  SerialSpec => []QuietAgreement
<1>1. Init => IInv /\ SerialInv
  BY InitIInv, InitSerial
<1>2. IInv /\ SerialInv /\ [Handlers]_vars => (IInv /\ SerialInv)'
  BY StepSerial
<1>3. IInv /\ SerialInv => QuietAgreement
  BY DEF SerialInv, QuietAgreement, HandlersIdle, Behind, At
<1> QED BY <1>1, <1>2, <1>3, PTL DEF SerialSpec

(* ... and the status of an instance only ever moves along the life cycle.   *)
THEOREM SerialLifeCycle ==
  ASSUME ~DockerMayFail, \A g, h \in Handler : g = h
  PROVE  SerialSpec => LifeCycle
<1>1. Init => IInv /\ SerialInv
  BY InitIInv, InitSerial
<1>2. IInv /\ SerialInv /\ [Handlers]_vars => (IInv /\ SerialInv)'
  BY StepSerial
<1>3. IInv /\ SerialInv /\ [Handlers]_vars =>
        [\A i \in Instance : \/ store'[Res(i)] = store[Res(i)]
                             \/ <<store[Res(i)], store'[Res(i)]>> \in Move]_vars
  BY StepSerial DEF LifeStep
<1> QED BY <1>1, <1>2, <1>3, PTL DEF SerialSpec, LifeCycle
=============================================================================
