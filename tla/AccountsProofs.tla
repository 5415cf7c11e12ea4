--------------------------- MODULE AccountsProofs ---------------------------
(***************************************************************************)
(* Nothing that runs is forgotten.  ContainersAccounted speaks of the      *)
(* names that nobody works on; to be inductive it must say what those who  *)
(* do have in hand.                                                        *)
(*                                                                         *)
(* A name is calm as long as no call for it has failed and nobody has met  *)
(* on it with something else to do.  AccountsInv says what is so of a calm *)
(* name, step by step: who makes a container has it running when it is     *)
(* ready, who takes one down has it down when done, and in between         *)
(* whatever runs is kept by its service, or is in somebody's hand.  The    *)
(* rest of it ties a job to the request, and the records and backends to   *)
(* the containers of their name: while the services serve what is known    *)
(* runs, and while they are shut down what is not on a list any more goes  *)
(* down.                                                                   *)
(***************************************************************************)
EXTENDS BackendsProofs

Calm  == Resource \ trouble
Past  == {"start", "wait", "ready"}
Downs == {"stop", "remove", "stopIt", "removeIt"}

Works(r, n) == job[r].kind # "none" /\ job[r].name = n
Kinds == {"none", "make", "unmake", "start", "halt"}

JobShape(r) ==
  /\ job[r].kind \in Kinds /\ (job[r].kind = "none" => job[r] = NoJob)
  /\ job[r].kind = "make" => job[r].phase \in {"allocate", "create", "failed"} \cup Past
  /\ job[r].kind = "unmake" => job[r].phase \in {"idle", "closed"} \cup Downs
  /\ job[r].kind \in {"start", "halt"} => job[r].phase \in {"switch", "switched"}
  /\ job[r].kind \in {"unmake", "start", "halt"} \/ job[r].phase \in Past =>
       job[r].container \in Container /\ NameOf(job[r].container) = job[r].name

OneOfAName  == \A c, d \in Container : Exists(c) /\ Exists(d) /\ NameOf(c) = NameOf(d) => c = d
EmptiedGone == \A c \in Container : c \in emptied => containers[c] = "removed"
Jobs        == (\A r \in Runner : JobShape(r)) /\ OneOfAName /\ EmptiedGone

\* The services of this run, and what the shutdown of one of them would find.
Services == {Registered[workload][i] : i \in 1 .. Len(Registered[workload])}
Kept(c)  == \E s \in Services : c \in ListToShut(s)
Doomed(c) == \E r \in Runner : job[r].phase \in Downs /\ job[r].container = c
InHand(c) == \E r \in Runner : job[r].phase \in {"wait", "ready"} /\ job[r].container = c

Agree(n)  == \A q, r \in Runner : Works(q, n) /\ Works(r, n) => job[q].kind = job[r].kind
OneUp(n)  == \A q, r \in {p \in Runner : Works(p, n) /\ job[p].phase \in Past} : q = r
IsUp(n)   == \A r \in Runner : Works(r, n) /\ job[r].phase \in Past =>
               containers[job[r].container] = IF InPhase(r, "start") THEN "created" ELSE "running"
IsDown(n) == \A r \in Runner : Works(r, n) /\ InPhase(r, "closed") => ~Live(job[r].container)
Accounted(n) == \A c \in Container : Live(c) /\ NameOf(c) = n => Kept(c) \/ Doomed(c) \/ InHand(c)
Sound(n)  == Agree(n) /\ OneUp(n) /\ IsUp(n) /\ IsDown(n) /\ Accounted(n)

\* The objects of a name, and the server's own job.
BackendNamed(b) == NameOf(backends[b]) = IF b[1] = "eks" THEN b[2] ELSE IF b[1] = "gke" THEN b[2][2] ELSE b[2]
BackendsNamed ==
  /\ \A b \in DOMAIN backends :
       /\ BackendNamed(b)
       /\ b[1] \in {"eks", "gke"} => workload = "clusters" /\ \E k \in ClusterKeys : b = BackendOf(k)
  /\ server.left \subseteq Container /\ workload \in Workloads
ServerJobs ==
  /\ server.pc = "init" => /\ job[Server].kind \in {"none", "make"}
                           /\ \A i \in 1 .. Len(server.services) : server.services[i] \in Services
  /\ server.pc = "serving" => job[Server] = NoJob
  /\ server.pc \in {"closing", "exited"} =>
       /\ job[Server] = NoJob \/ (job[Server].kind = "unmake" /\ job[Server].container \in server.left)
       /\ server.services \in Seq(STRING)
  /\ server.pc = "exited" => server.services = <<>>

(* The records of clusters and instances.                                   *)
Named(k) == IF k[1] = "gke" THEN k[2][2] ELSE k[2]
Full(r)  == r = [status |-> r.status, map |-> r.map]
Keys == IF workload = "clusters" THEN ClusterKeys ELSE GceKeys
NamesMatch ==
  /\ \A k \in DOMAIN store : k \in Keys /\ Full(store[k]) /\ \A c \in maps[store[k].map] : NameOf(c) = Named(k)
  /\ \A h \in Handler : /\ Full(req[h].copy)
                        /\ req[h].copy.map # NilMap => \A c \in maps[req[h].copy.map] : NameOf(c) = Named(Key(h))
Shapes == /\ ReqShape /\ maps = [m \in Map |-> maps[m]] /\ (\A k \in DOMAIN store : Rec(store[k]))
          /\ MapsApart /\ NamesMatch

\* What a handler does goes with its request.
ClusterJob(h) ==
  \/ At(h, "idle") /\ job[h] = NoJob
  \/ /\ Key(h) \in ClusterKeys /\ job[h].name = ContainerName(Key(h))
     /\ \/ job[h].kind = "make" /\ (At(h, "createCluster") \/ (At(h, "register") /\ InPhase(h, "ready")))
        \/ job[h].kind = "unmake" /\ At(h, "deleteCluster") /\ InPhase(h, "idle")
        \/ job[h].kind = "unmake" /\ At(h, "dropCluster") /\ ~InPhase(h, "idle")
InstanceJob(h) ==
  \/ At(h, "idle") /\ job[h] = NoJob
  \/ /\ Key(h) \in GceKeys /\ job[h].name = Key(h)[2]
     /\ job[h].kind \in {"start", "halt"} => req[h].copy.map # NilMap
     /\ \/ job[h].kind = "make" /\ At(h, "insertInstance")
        \/ job[h].kind = "unmake" /\ At(h, "deleteInstance") /\ ~InPhase(h, "idle")
        \/ job[h].kind = "start" /\ At(h, "startInstance")
        \/ job[h].kind = "halt" /\ At(h, "stopInstance")
DatabaseJob(h) == /\ job[h].kind \in {"none", "make"}
                  /\ workload # "rds" => job[h] = NoJob
                  /\ workload = "rds" /\ At(h, "initBackend") => job[h].name = req[h].field
NoKeys == {"eks", "gke", "gce"}
DatabaseJobs == /\ \A k \in DOMAIN store : k[1] \notin NoKeys /\ Rec(store[k])
                /\ ReqShape
                /\ \A h \in Handler : Key(h)[1] \notin NoKeys /\ DatabaseJob(h)
Linked == /\ workload \in {"clusters", "gce"} => Shapes
          /\ workload = "clusters" => \A h \in Handler : ClusterJob(h)
          /\ workload = "gce" => \A h \in Handler : InstanceJob(h)
          /\ workload \notin {"clusters", "gce"} => DatabaseJobs

(* An instance stays recorded while it is worked on.                        *)
InstanceSound(h) ==
  job[h].kind \in {"unmake", "start", "halt"} =>
    LET k == Key(h)  c == job[h].container IN
    /\ k \in DOMAIN store => maps[store[k].map] = {c}
    /\ job[h].kind # "unmake" => k \in DOMAIN store /\ store[k].map = req[h].copy.map
    /\ InPhase(h, "switched") => containers[c] = IF job[h].kind = "halt" THEN "paused" ELSE "running"
Instances == workload = "gce" => \A h \in Handler : job[h].name \in Calm => InstanceSound(h)

(* While the services serve: one cluster has the name, and what is known runs. *)
Claims(n) == {k \in DOMAIN store : Named(k) = n}
               \cup {k \in ClusterKeys : BackendOf(k) \in DOMAIN backends /\ Named(k) = n}
               \cup {Key(h) : h \in {g \in Handler : Works(g, n) /\ (job[g].kind = "unmake" \/ job[g].phase \in Past)}}
OneCluster(n) == \A k, l \in Claims(n) : k = l
ObjectsRun(n) == \A b \in DOMAIN backends : b[1] \in {"eks", "gke"} /\ NameOf(backends[b]) = n =>
                   /\ Live(backends[b])
                   /\ \A h \in Handler : Works(h, n) /\ job[h].kind = "unmake" => InPhase(h, "idle")
RecordsMatch(n) ==
  \A k \in DOMAIN store : \A c \in maps[store[k].map] : NameOf(c) = n =>
    \/ containers[c] = IF store[k].status = "stopped" THEN "paused" ELSE "running"
    \/ \E h \in Handler : Works(h, n) /\ (job[h].kind = "unmake" \/ InPhase(h, "switched"))
Matching(n) == /\ workload = "clusters" => OneCluster(n) /\ ObjectsRun(n)
               /\ workload \in {"clusters", "gce"} => RecordsMatch(n)

(* While they are shut down: what is not on the list any more goes down.    *)
Scheduled(c) == \E i \in 1 .. Len(server.services) :
               /\ c \in ListToShut(server.services[i])
               /\ i = 1 => server.left = {} \/ c \in server.left
Shutting == server.pc \in {"closing", "exited"} =>
              /\ \A h \in Handler : job[h].kind = "make" => job[h].name \in server.late
              /\ \A c \in Container : Live(c) /\ NameOf(c) \in Calm \ server.late => Doomed(c) \/ Scheduled(c)

AccountsInv == /\ Jobs /\ (\A n \in Calm : Sound(n))
               /\ BackendsNamed /\ ServerJobs /\ Linked /\ Instances
               /\ (Up => \A n \in Calm : Matching(n))
               /\ Shutting
-----------------------------------------------------------------------------
\* What a job is, by the kind it has.
LEMMA Shapely ==
  ASSUME NEW r \in Runner, JobShape(r)
  PROVE  /\ job[r].phase \in Past \cup {"allocate", "create"} => job[r].kind = "make"
         /\ job[r].phase \in Downs \cup {"idle", "closed"} => job[r].kind = "unmake"
         /\ job[r].phase \in {"switch", "switched"} => job[r].kind \in {"start", "halt"}
         /\ job[r].phase \in Past \cup Downs \cup {"closed", "switch", "switched", "idle"} =>
              job[r].container \in Container /\ NameOf(job[r].container) = job[r].name /\ job[r].name \in Resource
         /\ job[r].kind # "none" <=> job[r] # NoJob
  BY Constants DEF JobShape, Kinds, Past, Downs, NoJob

LEMMA AccountsInit == Init => AccountsInv
<1> SUFFICES ASSUME Init PROVE AccountsInv
  OBVIOUS
<1> USE Constants
<1>1. \A r \in Runner : job[r] = NoJob /\ job[r].kind = "none" /\ job[r].phase = "none"
  BY DEF Init, EngineInit, NoJob
<1>2. \A c \in Container : ~Exists(c) /\ ~Live(c)
  BY DEF Init, EngineInit, Exists, Live
<1>3. /\ server.pc = "init" /\ server.services = Registered[workload] /\ server.left = {}
      /\ store = <<>> /\ backends = <<>> /\ emptied = {}
  BY DEF Init, EngineInit, RecInit
<1>4. Jobs
  BY <1>1, <1>2, <1>3 DEF Jobs, JobShape, Kinds, NoJob, Past, Downs, OneOfAName, EmptiedGone
<1>5. \A n \in Calm : Sound(n)
  BY <1>1, <1>2 DEF Sound, Works, Agree, OneUp, IsUp, IsDown, Accounted
<1>6. BackendsNamed /\ ServerJobs
  BY <1>1, <1>3 DEF BackendsNamed, ServerJobs, Services, Init
<1>7. \A h \in Handler : req[h] = Idle /\ req[h].op = "idle" /\ req[h].key = NoKey /\ req[h].copy = Blank
  BY IdleShape DEF Init, RecInit
<1>8. ReqShape /\ maps = [m \in Map |-> maps[m]]
  BY IdleShape DEF ReqShape, Init, RecInit, Rec
<1>9. Shapes
  <2>1. MapsApart
    BY <1>3, <1>7, IdleShape DEF MapsApart
  <2>2. NamesMatch
    BY <1>3, <1>7 DEF NamesMatch, Full, Blank
  <2> QED BY <1>3, <1>8, <2>1, <2>2 DEF Shapes
<1>10. Linked
  BY <1>1, <1>3, <1>7, <1>8, <1>9 DEF Linked, ClusterJob, InstanceJob, DatabaseJobs, DatabaseJob, NoKeys, At, Key, NoKey
<1>11. Instances
  BY <1>1 DEF Instances, InstanceSound
<1>12. \A n \in Calm : Matching(n)
  <2> TAKE n \in Calm
  <2>1. Claims(n) = {}
    BY <1>1, <1>3 DEF Claims, Works
  <2> QED BY <1>3, <2>1 DEF Matching, OneCluster, ObjectsRun, RecordsMatch
<1>13. Shutting
  BY <1>3 DEF Shutting
<1> QED BY <1>4, <1>5, <1>6, <1>10, <1>11, <1>12, <1>13 DEF AccountsInv
-----------------------------------------------------------------------------
(* The steps of a goroutine that brings a container up or takes one down.   *)

\* r's job goes on; the others' jobs, the names' fame and what is kept stay.
Proceeds(r, p, c) ==
  /\ OnlyJob(r, job'[r])
  /\ job'[r].kind = job[r].kind /\ job'[r].name = job[r].name
  /\ job'[r].phase = p /\ job'[r].container = c
  /\ trouble \subseteq trouble'
  /\ Services' = Services /\ \A s : ListToShut(s)' = ListToShut(s)

AllSound == PortsInv /\ Jobs /\ \A n \in Calm : Sound(n)

\* A step of r on its own name, which is calm, is all there is to look at.
LEMMA OneNameMoves ==
  ASSUME AllSound, NEW r \in Runner, job[r].kind # "none", NEW p, NEW c, Proceeds(r, p, c), NEW m, m = job[r].name,
         \A d \in Container : NameOf(d) # m => containers'[d] = containers[d],
         m \in Calm' => OneUp(m)' /\ IsUp(m)' /\ IsDown(m)' /\ Accounted(m)'
  PROVE  \A n \in Calm' : Sound(n)'
<1> SUFFICES ASSUME NEW n \in Calm' PROVE Sound(n)'
  OBVIOUS
<1>0. n \in Calm /\ Sound(n)
  BY DEF Calm, Proceeds, AllSound
<1>1. /\ \A q \in Runner \ {r} : job'[q] = job[q]
      /\ \A q \in Runner : Works(q, n)' <=> Works(q, n)
      /\ \A q \in Runner : job'[q].kind = job[q].kind /\ job'[q].name = job[q].name
  BY DEF Proceeds, OnlyJob, Works
<1>2. Agree(n)'
  BY <1>0, <1>1 DEF Sound, Agree
<1>3. CASE n = m
  BY <1>2, <1>3 DEF Sound
<1>4. CASE n # m
  <2>1. ~Works(r, n) /\ \A q \in Runner : Works(q, n)' => job'[q] = job[q] /\ q # r /\ Works(q, n)
    BY <1>1, <1>4 DEF Works
  <2>2. \A q \in Runner : JobShape(q)
    BY DEF AllSound, Jobs
  <2>3. \A q \in Runner : Works(q, n) /\ job[q].phase \in Past \cup {"closed"} =>
           job[q].container \in Container /\ containers'[job[q].container] = containers[job[q].container]
    BY <1>4, <2>2, Shapely DEF Works
  <2>4. OneUp(n)'
    BY <1>0, <2>1 DEF Sound, OneUp
  <2>5. IsUp(n)'
    BY <1>0, <2>1, <2>3 DEF Sound, IsUp, InPhase
  <2>6. IsDown(n)'
    BY <1>0, <2>1, <2>3 DEF Sound, IsDown, InPhase, Live
  <2>7. Accounted(n)'
    <3> SUFFICES ASSUME NEW d \in Container, Live(d)', NameOf(d) = n
                 PROVE  Kept(d)' \/ Doomed(d)' \/ InHand(d)'
      BY DEF Accounted
    <3>1. Live(d)
      BY <1>4 DEF Live
    <3>2. Kept(d) \/ Doomed(d) \/ InHand(d)
      BY <1>0, <3>1 DEF Sound, Accounted
    <3>3. Kept(d) => Kept(d)'
      BY DEF Kept, Proceeds
    <3>4. \A q \in Runner : job[q].phase \in Downs \cup {"wait", "ready"} /\ job[q].container = d => job'[q] = job[q]
      <4>1. job[r].phase \in Downs \cup {"wait", "ready"} => job[r].container # d
        BY <1>4, <2>2, Shapely DEF Past
      <4> QED BY <1>1, <4>1
    <3>5. Doomed(d) => Doomed(d)'
      BY <3>4 DEF Doomed
    <3>6. InHand(d) => InHand(d)'
      BY <3>4 DEF InHand
    <3> QED BY <3>2, <3>3, <3>5, <3>6
  <2> QED BY <1>2, <2>4, <2>5, <2>6, <2>7 DEF Sound
<1> QED BY <1>3, <1>4

\* Everybody who works on r's name does the same.
LEMMA Together ==
  ASSUME AllSound, NEW r \in Runner, job[r].kind # "none", job[r].name \in Calm
  PROVE  /\ \A q \in Runner : Works(q, job[r].name) => job[q].kind = job[r].kind
         /\ Sound(job[r].name)
  BY DEF AllSound, Sound, Agree, Works

\* One that makes a container goes on.
LEMMA MakerMoves ==
  ASSUME AllSound, NEW r \in Runner, job[r].kind = "make", NEW p, NEW c, Proceeds(r, p, c), NEW n, n = job[r].name,
         p \in {"create", "failed"} \cup Past,
         \A d \in Container : NameOf(d) # n => containers'[d] = containers[d],
         n \in Calm' =>
           /\ p \in Past => /\ c \in Container /\ NameOf(c) = n
                            /\ containers'[c] = IF p = "start" THEN "created" ELSE "running"
                            /\ job[r].phase \in Past \/
                                 \A q \in Runner : Works(q, n) => job[q].phase \notin Past
           /\ job[r].phase \in {"wait", "ready"} => p \in {"wait", "ready"} /\ c = job[r].container
           /\ \A d \in Container : NameOf(d) = n /\ (p \notin Past \/ d # c) => containers'[d] = containers[d]
  PROVE  \A q \in Calm' : Sound(q)'
<1> SUFFICES ASSUME n \in Calm'
             PROVE  OneUp(n)' /\ IsUp(n)' /\ IsDown(n)' /\ Accounted(n)'
  BY OneNameMoves
<1>0. n \in Calm /\ Sound(n) /\ \A q \in Runner : Works(q, n) => job[q].kind = "make"
  <2>1. n \in Calm
    BY DEF Calm, Proceeds
  <2> QED BY <2>1, Together
<1>1. /\ \A q \in Runner \ {r} : job'[q] = job[q]
      /\ \A q \in Runner : Works(q, n)' <=> Works(q, n)
      /\ job'[r].phase = p /\ job'[r].container = c /\ Works(r, n) /\ job'[r].kind = "make"
  BY DEF Proceeds, OnlyJob, Works
<1>2. \A q \in Runner : JobShape(q)
  BY DEF AllSound, Jobs
<1>3. OneUp(n)'
  <2> SUFFICES ASSUME NEW q \in Runner, Works(q, n), job'[q].phase \in Past, q # r, p \in Past
               PROVE  FALSE
    BY <1>0, <1>1 DEF Sound, OneUp
  <2>1. job[q].phase \in Past /\ job[r].phase \in Past
    BY <1>1
  <2> QED BY <1>0, <1>1, <2>1 DEF Sound, OneUp
<1>4. IsUp(n)'
  <2> SUFFICES ASSUME NEW q \in Runner, Works(q, n), job'[q].phase \in Past
               PROVE  containers'[job'[q].container] = IF job'[q].phase = "start" THEN "created" ELSE "running"
    BY <1>1 DEF IsUp, InPhase
  <2>1. CASE q = r
    BY <1>1, <2>1
  <2>2. CASE q # r
    <3>1. p \notin Past
      BY <1>1, <1>3, <2>2 DEF OneUp
    <3>2. job[q].container \in Container /\ NameOf(job[q].container) = n
      BY <1>1, <1>2, <2>2, Shapely DEF Works
    <3> QED BY <1>0, <1>1, <2>2, <3>1, <3>2 DEF Sound, IsUp, InPhase
  <2> QED BY <2>1, <2>2
<1>5. IsDown(n)'
  <2>1. \A q \in Runner \ {r} : Works(q, n) => job'[q].phase # "closed"
    BY <1>0, <1>1, <1>2, Shapely
  <2>2. p # "closed"
    BY DEF Past
  <2> QED BY <1>1, <2>1, <2>2 DEF IsDown, InPhase
<1>6. Accounted(n)'
  <2> SUFFICES ASSUME NEW d \in Container, Live(d)', NameOf(d) = n
               PROVE  Kept(d)' \/ InHand(d)'
    BY DEF Accounted
  <2>1. CASE p \in Past /\ d = c
    <3>1. p \in {"wait", "ready"}
      BY <2>1 DEF Past, Live
    <3> QED BY <1>1, <2>1, <3>1 DEF InHand
  <2>2. CASE ~(p \in Past /\ d = c)
    <3>1. Live(d)
      BY <2>2 DEF Live
    <3>2. ~Doomed(d)
      BY <1>0, <1>2, Shapely DEF Doomed, Works
    <3>3. Kept(d) \/ InHand(d)
      BY <1>0, <3>1, <3>2 DEF Sound, Accounted
    <3>4. Kept(d) => Kept(d)'
      BY DEF Kept, Proceeds
    <3>5. InHand(d) => InHand(d)'
      BY <1>1 DEF InHand
    <3> QED BY <3>3, <3>4, <3>5
  <2> QED BY <2>1, <2>2
<1> QED BY <1>3, <1>4, <1>5, <1>6

\* One that takes a container down goes on.
LEMMA DownMoves ==
  ASSUME AllSound, NEW r \in Runner, job[r].kind = "unmake", NEW p, NEW c, Proceeds(r, p, c), NEW n, n = job[r].name,
         c = job[r].container, p \in Downs \cup {"closed"}, job[r].phase \in Downs,
         \A d \in Container : (NameOf(d) # n => containers'[d] = containers[d]) /\ (Live(d)' => Live(d)),
         n \in Calm' /\ p = "closed" => ~Live(c)'
  PROVE  \A q \in Calm' : Sound(q)'
<1> SUFFICES ASSUME n \in Calm'
             PROVE  OneUp(n)' /\ IsUp(n)' /\ IsDown(n)' /\ Accounted(n)'
  BY OneNameMoves
<1>0. n \in Calm /\ Sound(n) /\ \A q \in Runner : Works(q, n) => job[q].kind = "unmake"
  <2>1. n \in Calm
    BY DEF Calm, Proceeds
  <2> QED BY <2>1, Together
<1>1. /\ \A q \in Runner \ {r} : job'[q] = job[q]
      /\ \A q \in Runner : Works(q, n)' <=> Works(q, n)
      /\ job'[r].phase = p /\ job'[r].container = c /\ Works(r, n) /\ job'[r].kind = "unmake"
  BY DEF Proceeds, OnlyJob, Works
<1>2. \A q \in Runner : JobShape(q)
  BY DEF AllSound, Jobs
<1>3. \A q \in Runner : Works(q, n) => job'[q].phase \notin Past
  <2>1. p \notin Past
    BY DEF Past, Downs
  <2> QED BY <1>0, <1>1, <1>2, <2>1, Shapely
<1>4. OneUp(n)' /\ IsUp(n)'
  BY <1>1, <1>3 DEF OneUp, IsUp
<1>5. IsDown(n)'
  <2> SUFFICES ASSUME NEW q \in Runner, Works(q, n), job'[q].phase = "closed"
               PROVE  containers'[job'[q].container] \notin {"running", "paused"}
    BY <1>1 DEF IsDown, InPhase, Live
  <2>1. CASE q = r
    BY <1>1, <2>1 DEF Live
  <2>2. CASE q # r
    <3>1. job[q].container \in Container /\ ~Live(job[q].container) /\ job'[q] = job[q]
      BY <1>0, <1>1, <1>2, <2>2, Shapely DEF Sound, IsDown, InPhase
    <3> QED BY <3>1 DEF Live
  <2> QED BY <2>1, <2>2
<1>6. Accounted(n)'
  <2> SUFFICES ASSUME NEW d \in Container, Live(d)', NameOf(d) = n
               PROVE  Kept(d)' \/ Doomed(d)'
    BY DEF Accounted
  <2>1. Live(d)
    OBVIOUS
  <2>2. ~InHand(d)
    BY <1>0, <1>2, Shapely DEF InHand, Works, Past
  <2>3. Kept(d) \/ Doomed(d)
    BY <1>0, <2>1, <2>2 DEF Sound, Accounted
  <2>4. Kept(d) => Kept(d)'
    BY DEF Kept, Proceeds
  <2>5. Doomed(d) => Doomed(d)'
    <3>1. d = c => p \in Downs
      BY DEF Live
    <3> QED BY <1>1, <3>1 DEF Doomed
  <2> QED BY <2>3, <2>4, <2>5
<1> QED BY <1>4, <1>5, <1>6
-----------------------------------------------------------------------------
(* The steps of EngineStep.                                                 *)
Undisturbed == UNCHANGED <<store, maps, workload, backends, server>>
StaySound   == Jobs' /\ \A n \in Calm' : Sound(n)'

LEMMA SameServices ==
  ASSUME UNCHANGED <<store, maps, workload, backends>>
  PROVE  Services' = Services /\ \A s : ListToShut(s)' = ListToShut(s)
  BY DEF Services, ListToShut, GceContainer, Content

LEMMA ItProceeds ==
  ASSUME NEW r \in Runner, NEW p, NEW port, NEW c, JobIs(r, p, port, c), trouble \subseteq trouble', Undisturbed
  PROVE  Proceeds(r, p, c)
<1>1. OnlyJob(r, job'[r])
  BY DEF JobIs, Moves, OnlyJob
<1> QED BY <1>1, SameServices DEF JobIs, Proceeds, Undisturbed

LEMMA SetIs ==
  ASSUME EngineInv, NEW c \in Container, NEW s, SetState(c, s)
  PROVE  containers'[c] = s /\ \A d \in Container \ {c} : containers'[d] = containers[d]
  BY DEF SetState, EngineInv, EngineTypeOK

LEMMA JobsGoOn ==
  ASSUME Jobs, NEW r \in Runner, OnlyJob(r, job'[r]), JobShape(r)',
         \A d \in Container : /\ Exists(d)' => Exists(d)
                              /\ containers[d] = "removed" \/ d \in emptied' \ emptied => containers'[d] = "removed"
  PROVE  Jobs'
<1>1. \A q \in Runner : JobShape(q)'
  BY DEF Jobs, JobShape, OnlyJob, NoJob
<1>2. OneOfAName' /\ EmptiedGone'
  BY DEF Jobs, OneOfAName, EmptiedGone
<1> QED BY <1>1, <1>2 DEF Jobs

LEMMA ShapeGoesOn ==
  ASSUME AllSound, NEW r \in Runner, NEW p, NEW port, NEW c, JobIs(r, p, port, c), trouble \subseteq trouble', Undisturbed,
         \/ job[r].kind = "make" /\ p \in {"create", "failed"} \cup Past
         \/ job[r].kind = "unmake" /\ p \in {"closed"} \cup Downs,
         \/ c = job[r].container /\ (job[r].phase \in Past \cup Downs \/ p \in {"create", "failed"})
         \/ c \in Container /\ NameOf(c) = job[r].name
  PROVE  JobShape(r)' /\ OnlyJob(r, job'[r]) /\ Proceeds(r, p, c)
<1>1. JobShape(r)
  BY DEF AllSound, Jobs
<1>2. p \in Past \/ job[r].kind = "unmake" => c \in Container /\ NameOf(c) = job[r].name
  <2>1. job[r].phase \in Past \cup Downs \/ job[r].kind = "unmake" =>
          job[r].container \in Container /\ NameOf(job[r].container) = job[r].name
    BY <1>1, Shapely DEF JobShape
  <2> QED BY <2>1 DEF Past, Downs
<1>3. job'[r].kind = job[r].kind /\ job'[r].name = job[r].name /\ job'[r].phase = p /\ job'[r].container = c
  BY DEF JobIs
<1>4. p \notin {"idle", "closed"} \cup Downs \/ job[r].kind = "unmake"
  BY DEF Past, Downs
<1>5. JobShape(r)'
  BY <1>2, <1>3, <1>4 DEF JobShape, Kinds
<1> QED BY <1>5, ItProceeds DEF Proceeds

LEMMA AllocateSound ==
  ASSUME AllSound, NEW r \in Runner, Allocate(r), Undisturbed
  PROVE  StaySound
<1> USE DEF Undisturbed, AllSound, PortsInv
<1>1. /\ UNCHANGED <<containers, emptied>> /\ trouble \subseteq trouble' /\ JobShape(r)
      /\ job[r].phase = "allocate"
  BY DEF Allocate, Trouble, Jobs, InPhase
<1>2. job[r].kind = "make"
  BY <1>1, Shapely
<1>3. PICK p \in {"create", "failed"} : \E port : JobIs(r, p, port, job[r].container)
  BY JobBecomes, ToMoves DEF Allocate
<1>4. JobShape(r)' /\ OnlyJob(r, job'[r]) /\ Proceeds(r, p, job[r].container)
  BY <1>1, <1>2, <1>3, ShapeGoesOn
<1>5. Jobs'
  BY <1>1, <1>4, JobsGoOn DEF Jobs, EmptiedGone, Exists
<1>6. p \notin Past
  BY DEF Past
<1>7. \A n \in Calm' : Sound(n)'
  BY <1>1, <1>2, <1>4, <1>6, MakerMoves
<1> QED BY <1>5, <1>7 DEF StaySound

LEMMA CreateSound ==
  ASSUME AllSound, NEW r \in Runner, Create(r), Undisturbed
  PROVE  StaySound
<1> USE DEF Undisturbed, AllSound, PortsInv
<1>1. trouble \subseteq trouble' /\ JobShape(r) /\ job[r].phase = "create" /\ emptied' = emptied
  BY DEF Create, Trouble, Jobs, InPhase
<1>2. job[r].kind = "make" /\ job[r].phase \notin Past
  BY <1>1, Shapely DEF Past
<1>3. PICK n : n = job[r].name
  OBVIOUS
<1>4. ASSUME NEW c \in NextSpare(n), ~NameTaken(n), CreateContainer(c),
             job' = [job EXCEPT ![r].phase = "start", ![r].container = c]
      PROVE  StaySound
  <2>1. c \in Container /\ NameOf(c) = n /\ containers[c] = "none"
    BY <1>4 DEF NextSpare, Spare
  <2>2. containers'[c] = "created" /\ \A d \in Container \ {c} : containers'[d] = containers[d]
    BY <1>4, <2>1, SetIs DEF CreateContainer
  <2>3. JobIs(r, "start", job[r].port, c)
    <3>1. OnlyJob(r, [kind |-> job[r].kind, name |-> job[r].name, phase |-> "start", port |-> job[r].port, container |-> c])
      BY <1>4, JobHasContainer
    <3> QED BY <3>1 DEF JobIs, Moves, OnlyJob
  <2>4. JobShape(r)' /\ OnlyJob(r, job'[r]) /\ Proceeds(r, "start", c)
    BY <1>1, <1>2, <1>3, <2>1, <2>3, ShapeGoesOn DEF Past
  <2>5. Jobs'
    <3>1. \A q \in Runner : JobShape(q)'
      BY <2>4 DEF Jobs, JobShape, OnlyJob, NoJob
    <3>2. \A d \in Container : Exists(d)' => d = c \/ (Exists(d) /\ NameOf(d) # n)
      BY <1>4, <2>2 DEF Exists, NameTaken
    <3>3. OneOfAName'
      BY <2>1, <3>2 DEF Jobs, OneOfAName
    <3>4. EmptiedGone'
      BY <1>1, <2>1, <2>2 DEF Jobs, EmptiedGone
    <3> QED BY <3>1, <3>3, <3>4 DEF Jobs
  <2>6. n \in Calm' => \A q \in Runner : Works(q, n) => job[q].phase \notin Past
    <3> SUFFICES ASSUME n \in Calm', NEW q \in Runner, Works(q, n), job[q].phase \in Past PROVE FALSE
      OBVIOUS
    <3>1. n \in Calm /\ Sound(n)
      BY <1>1 DEF Calm
    <3>2. job[q].container \in Container /\ NameOf(job[q].container) = n
      BY Shapely DEF Jobs, Works
    <3>3. Exists(job[q].container)
      BY <3>1 DEF Sound, IsUp, Exists
    <3> QED BY <1>4, <3>2, <3>3 DEF NameTaken
  <2>7. \A q \in Calm' : Sound(q)'
    BY <1>2, <1>3, <2>1, <2>2, <2>4, <2>6, MakerMoves DEF Past
  <2> QED BY <2>5, <2>7 DEF StaySound
<1>5. CASE UNCHANGED containers /\ To(r, "failed")
  <2>1. JobIs(r, "failed", job[r].port, job[r].container)
    BY <1>5, ToMoves
  <2>2. JobShape(r)' /\ OnlyJob(r, job'[r]) /\ Proceeds(r, "failed", job[r].container)
    BY <1>1, <1>2, <2>1, ShapeGoesOn
  <2>3. Jobs'
    BY <1>1, <1>5, <2>2, JobsGoOn DEF Jobs, EmptiedGone, Exists
  <2>4. \A q \in Calm' : Sound(q)'
    BY <1>1, <1>2, <1>5, <2>2, MakerMoves DEF Past
  <2> QED BY <2>3, <2>4 DEF StaySound
<1> QED BY <1>3, <1>4, <1>5 DEF Create, Fails

LEMMA StartSound ==
  ASSUME AllSound, NEW r \in Runner, Start(r), Undisturbed
  PROVE  StaySound
<1> USE DEF Undisturbed, AllSound, PortsInv
<1>1. trouble \subseteq trouble' /\ JobShape(r) /\ job[r].phase = "start" /\ emptied' = emptied
  BY DEF Start, Trouble, Jobs, InPhase
<1>2. job[r].kind = "make" /\ job[r].phase \in Past
  BY <1>1, Shapely DEF Past
<1>3. PICK c, n : c = job[r].container /\ n = job[r].name /\ c \in Container /\ NameOf(c) = n
  BY <1>1, <1>2, Shapely
<1>4. ASSUME NEW p \in {"ready", "wait"}, To(r, p), StartContainer(c, TRUE)
      PROVE  StaySound
  <2>1. containers[c] = "created" /\ containers'[c] = "running" /\ \A d \in Container \ {c} : containers'[d] = containers[d]
    BY <1>3, <1>4, SetIs DEF StartContainer
  <2>2. JobIs(r, p, job[r].port, c)
    BY <1>3, <1>4, ToMoves
  <2>3. JobShape(r)' /\ OnlyJob(r, job'[r]) /\ Proceeds(r, p, c) /\ p \in Past
    BY <1>1, <1>2, <1>3, <2>2, ShapeGoesOn DEF Past
  <2>4. Jobs'
    BY <1>1, <2>1, <2>3, JobsGoOn DEF Jobs, EmptiedGone, Exists
  <2>5. \A q \in Calm' : Sound(q)'
    BY <1>1, <1>2, <1>3, <1>4, <2>1, <2>3, MakerMoves
  <2> QED BY <2>4, <2>5 DEF StaySound
<1>5. CASE StartContainer(c, FALSE) /\ To(r, "failed") /\ Trouble(r)
  <2>1. UNCHANGED containers
    BY <1>5 DEF StartContainer, Fails
  <2>2. JobIs(r, "failed", job[r].port, c)
    BY <1>3, <1>5, ToMoves
  <2>3. JobShape(r)' /\ OnlyJob(r, job'[r]) /\ Proceeds(r, "failed", c)
    BY <1>1, <1>2, <1>3, <2>2, ShapeGoesOn
  <2>4. Jobs'
    BY <1>1, <2>1, <2>3, JobsGoOn DEF Jobs, EmptiedGone, Exists
  <2>5. n \notin Calm'
    BY <1>3, <1>5 DEF Trouble, Calm
  <2>6. \A q \in Calm' : Sound(q)'
    BY <1>2, <1>3, <2>1, <2>3, <2>5, MakerMoves
  <2> QED BY <2>4, <2>6 DEF StaySound
<1> QED BY <1>3, <1>4, <1>5 DEF Start

LEMMA WaitSound ==
  ASSUME AllSound, NEW r \in Runner, Wait(r), Undisturbed
  PROVE  StaySound
<1> USE DEF Undisturbed, AllSound, PortsInv
<1>1. /\ UNCHANGED <<containers, emptied>> /\ trouble \subseteq trouble' /\ JobShape(r)
      /\ job[r].phase = "wait"
  BY DEF Wait, Trouble, Jobs, InPhase
<1>2. job[r].kind = "make" /\ job[r].phase \in Past
  BY <1>1, Shapely DEF Past
<1>3. PICK c, n : c = job[r].container /\ n = job[r].name /\ c \in Container /\ NameOf(c) = n
  BY <1>1, <1>2, Shapely
<1>4. PICK p \in {"ready", "failed"} : To(r, p) /\ (p = "failed" => Trouble(r))
  BY DEF Wait
<1>5. JobIs(r, p, job[r].port, c)
  BY <1>3, <1>4, ToMoves
<1>6. JobShape(r)' /\ OnlyJob(r, job'[r]) /\ Proceeds(r, p, c)
  BY <1>1, <1>2, <1>3, <1>5, ShapeGoesOn DEF Past
<1>7. Jobs'
  BY <1>1, <1>6, JobsGoOn DEF Jobs, EmptiedGone, Exists
<1>8. p = "failed" => n \notin Calm'
  BY <1>3, <1>4 DEF Trouble, Calm
<1>9. n \in Calm' => containers[c] = "running"
  <2>1. n \in Calm' => Sound(n)
    BY <1>1 DEF Calm
  <2>2. Works(r, n)
    BY <1>2, <1>3 DEF Works
  <2> QED BY <1>1, <1>2, <1>3, <2>1, <2>2 DEF Sound, IsUp, InPhase
<1>10. \A q \in Calm' : Sound(q)'
  BY <1>1, <1>2, <1>3, <1>6, <1>8, <1>9, MakerMoves DEF Past
<1> QED BY <1>7, <1>10 DEF StaySound

\* Down: whatever a step does to the container, it runs no more than before.
LEMMA OneDown ==
  ASSUME AllSound, NEW r \in Runner, job[r].phase \in Downs, NEW p \in Downs \cup {"closed"}, To(r, p), Undisturbed,
         NEW c, c = job[r].container, UNCHANGED containers \/ SetState(c, "exited") \/ SetState(c, "removed"),
         UNCHANGED containers \/ Exists(c), trouble \subseteq trouble',
         \A d \in emptied' : d \in emptied \/ (d = c /\ SetState(c, "removed")),
         p = "closed" => Trouble(r) \/ SetState(c, "removed") \/ (UNCHANGED containers /\ ~Live(c))
  PROVE  StaySound
<1> USE DEF Undisturbed, AllSound, PortsInv
<1>1. JobShape(r) /\ job[r].kind = "unmake"
  BY Shapely DEF Jobs
<1>2. PICK n : n = job[r].name /\ c \in Container /\ NameOf(c) = n
  BY <1>1, Shapely DEF Past
<1>3. /\ containers'[c] \in {containers[c], "exited", "removed"}
      /\ containers'[c] # containers[c] => Exists(c)
      /\ SetState(c, "removed") => containers'[c] = "removed"
      /\ \A d \in Container \ {c} : containers'[d] = containers[d]
  BY <1>2, SetIs
<1>4. JobIs(r, p, job[r].port, c)
  BY ToMoves
<1>5. JobShape(r)' /\ OnlyJob(r, job'[r]) /\ Proceeds(r, p, c)
  BY <1>1, <1>2, <1>4, ShapeGoesOn
<1>6. Jobs'
  BY <1>2, <1>3, <1>5, JobsGoOn DEF Jobs, EmptiedGone, Exists
<1>7. n \in Calm' /\ p = "closed" => ~Live(c)'
  BY <1>2, <1>3 DEF Trouble, Calm, Live
<1>8. \A d \in Container : (NameOf(d) # n => containers'[d] = containers[d]) /\ (Live(d)' => Live(d))
  BY <1>2, <1>3 DEF Live
<1>9. \A q \in Calm' : Sound(q)'
  BY <1>1, <1>2, <1>5, <1>7, <1>8, DownMoves
<1> QED BY <1>6, <1>9 DEF StaySound

LEMMA DownSound ==
  ASSUME AllSound, NEW r \in Runner, Stop(r) \/ Remove(r) \/ StopIt(r) \/ RemoveIt(r), Undisturbed
  PROVE  StaySound
<1>0. PICK c : c = job[r].container
  OBVIOUS
<1> USE DEF InPhase, Downs
<1>1. CASE Stop(r)
  <2>1. c \in emptied => ~Live(c)
    <3>1. JobShape(r)
      BY DEF AllSound, Jobs
    <3>2. c \in Container
      BY <1>0, <1>1, <3>1, Shapely DEF Stop
    <3> QED BY <3>2 DEF AllSound, Jobs, EmptiedGone, Live
  <2> QED BY <1>0, <1>1, <2>1, OneDown DEF Stop, StopContainer, Fails, Trouble
<1>2. CASE Remove(r)
  BY <1>0, <1>2, OneDown DEF Remove, RemoveContainer, Fails, Trouble
<1>3. CASE StopIt(r)
  BY <1>0, <1>3, OneDown DEF StopIt, StopContainer, Fails
<1>4. CASE RemoveIt(r)
  <2>1. ~Exists(c) => ~Live(c)
    BY DEF Exists, Live
  <2> QED BY <1>0, <1>4, <2>1, OneDown DEF RemoveIt, RemoveContainer, Fails, Trouble
<1> QED BY <1>1, <1>2, <1>3, <1>4

LEMMA EngineSound ==
  ASSUME AllSound, NEW r \in Runner, EngineStep(r), Undisturbed
  PROVE  StaySound
  BY AllocateSound, CreateSound, StartSound, WaitSound, DownSound DEF EngineStep
-----------------------------------------------------------------------------
(* What such a step leaves as it was.                                       *)
EngineMoves(r, p, c) ==
  /\ Proceeds(r, p, c)
  /\ \/ /\ job[r].kind = "make" /\ job[r].phase \in {"allocate", "create", "start", "wait"}
        /\ p \in {"create", "failed"} \cup Past
        /\ \A d \in Container : containers'[d] # containers[d] =>
             containers[d] \in {"none", "created"} /\ NameOf(d) = job[r].name
        /\ job[r].phase \in Past \/ p \notin Past \/ ~NameTaken(job[r].name)
     \/ /\ job[r].kind = "unmake" /\ job[r].phase \in Downs
        /\ p \in Downs \cup {"closed"} /\ c = job[r].container
        /\ \A d \in Container : containers'[d] # containers[d] =>
             d = c /\ NameOf(d) = job[r].name /\ ~Live(d)'

LEMMA EngineDoes ==
  ASSUME AllSound, NEW r \in Runner, EngineStep(r), Undisturbed
  PROVE  \E p, c : EngineMoves(r, p, c)
<1> USE DEF Undisturbed, AllSound, PortsInv
<1>1. JobShape(r) /\ trouble \subseteq trouble'
  BY DEF Jobs, EngineStep, Allocate, Create, Start, Wait, Stop, Remove, StopIt, RemoveIt, Trouble
<1>2. CASE Allocate(r)
  <2>1. job[r].kind = "make" /\ job[r].phase = "allocate" /\ UNCHANGED containers
    BY <1>1, <1>2, Shapely DEF Allocate, InPhase
  <2>2. PICK p \in {"create", "failed"} : \E port : JobIs(r, p, port, job[r].container)
    BY <1>2, JobBecomes, ToMoves DEF Allocate
  <2> QED BY <1>1, <2>1, <2>2, ItProceeds DEF EngineMoves, Past
<1>3. CASE Create(r)
  <2>1. job[r].kind = "make" /\ job[r].phase = "create"
    BY <1>1, <1>3, Shapely DEF Create, InPhase
  <2>2. ASSUME NEW c \in NextSpare(job[r].name), ~NameTaken(job[r].name), CreateContainer(c),
               job' = [job EXCEPT ![r].phase = "start", ![r].container = c]
        PROVE  EngineMoves(r, "start", c)
    <3>1. c \in Container /\ NameOf(c) = job[r].name /\ containers[c] = "none"
      BY <2>2 DEF NextSpare, Spare
    <3>2. \A d \in Container \ {c} : containers'[d] = containers[d]
      BY <2>2, <3>1, SetIs DEF CreateContainer
    <3>3. OnlyJob(r, [kind |-> job[r].kind, name |-> job[r].name, phase |-> "start", port |-> job[r].port, container |-> c])
      BY <2>2, JobHasContainer
    <3>4. JobIs(r, "start", job[r].port, c)
      BY <3>3 DEF JobIs, Moves, OnlyJob
    <3> QED BY <1>1, <2>1, <2>2, <3>1, <3>2, <3>4, ItProceeds DEF EngineMoves, Past
  <2>3. ASSUME UNCHANGED containers, To(r, "failed") PROVE EngineMoves(r, "failed", job[r].container)
    BY <1>1, <2>1, <2>3, ToMoves, ItProceeds DEF EngineMoves, Past
  <2> QED BY <1>3, <2>2, <2>3 DEF Create, Fails
<1>4. CASE Start(r)
  <2>1. job[r].kind = "make" /\ job[r].phase = "start" /\ job[r].container \in Container /\ NameOf(job[r].container) = job[r].name
    BY <1>1, <1>4, Shapely DEF Start, InPhase, Past
  <2>2. PICK p \in {"ready", "wait", "failed"} : To(r, p)
    BY <1>4 DEF Start
  <2>3. \A d \in Container : containers'[d] # containers[d] => d = job[r].container /\ containers[d] = "created"
    BY <1>4, <2>1, SetIs DEF Start, StartContainer, Fails
  <2> QED BY <1>1, <2>1, <2>2, <2>3, ToMoves, ItProceeds DEF EngineMoves, Past
<1>5. CASE Wait(r)
  <2>1. job[r].kind = "make" /\ job[r].phase = "wait" /\ UNCHANGED containers
    BY <1>1, <1>5, Shapely DEF Wait, InPhase, Past
  <2>2. PICK p \in {"ready", "failed"} : To(r, p)
    BY <1>5 DEF Wait
  <2> QED BY <1>1, <2>1, <2>2, ToMoves, ItProceeds DEF EngineMoves, Past
<1>6. CASE Stop(r) \/ Remove(r) \/ StopIt(r) \/ RemoveIt(r)
  <2>1. job[r].phase \in Downs
    BY <1>6 DEF Stop, Remove, StopIt, RemoveIt, InPhase, Downs
  <2>2. job[r].kind = "unmake" /\ job[r].container \in Container /\ NameOf(job[r].container) = job[r].name
    BY <1>1, <2>1, Shapely
  <2>3. PICK c : c = job[r].container
    OBVIOUS
  <2>4. UNCHANGED containers \/ SetState(c, "exited") \/ SetState(c, "removed")
    BY <1>6, <2>3 DEF Stop, Remove, StopIt, RemoveIt, StopContainer, RemoveContainer, Fails
  <2>5. \A d \in Container : containers'[d] # containers[d] => d = c /\ ~Live(d)'
    BY <2>2, <2>3, <2>4, SetIs DEF Live
  <2>6. PICK p \in Downs \cup {"closed"} : To(r, p)
    BY <1>6 DEF Stop, Remove, StopIt, RemoveIt, Downs
  <2> QED BY <1>1, <2>1, <2>2, <2>3, <2>5, <2>6, ToMoves, ItProceeds DEF EngineMoves
<1> QED BY <1>2, <1>3, <1>4, <1>5, <1>6 DEF EngineStep

LEMMA MovesKeep ==
  ASSUME NEW r \in Runner, NEW p, NEW c, EngineMoves(r, p, c)
  PROVE  /\ \A q \in Runner \ {r} : job'[q] = job[q]
         /\ \A q \in Runner : job'[q].kind = job[q].kind /\ job'[q].name = job[q].name
         /\ \A q \in Runner : \A n : Works(q, n)' <=> Works(q, n)
         /\ \A q \in Runner : job[q].phase \in {"ready", "idle", "switch", "switched", "closed"} => job'[q] = job[q]
         /\ \A q \in Runner : job[q] = NoJob => job'[q] = job[q]
         /\ \A q \in Runner : job[q].kind \in {"unmake", "start", "halt"} => job'[q].container = job[q].container
         /\ job'[r].phase = p /\ job'[r].container = c /\ Works(r, job[r].name) /\ Calm' \subseteq Calm
<1>1. job[r].phase \notin {"none", "ready", "idle", "switch", "switched", "closed"}
  BY DEF EngineMoves, Downs
<1> QED BY <1>1 DEF EngineMoves, Proceeds, OnlyJob, Works, NoJob, Calm

\* The rest of the invariant, for a step of EngineStep.
DockerStep(r) == /\ AccountsInv /\ PortsInv /\ Undisturbed /\ UNCHANGED req /\ StaySound

LEMMA DockerLinked ==
  ASSUME NEW r \in Runner, NEW p, NEW c, EngineMoves(r, p, c), DockerStep(r)
  PROVE  BackendsNamed' /\ ServerJobs' /\ Linked'
<1> USE DEF DockerStep, Undisturbed, AccountsInv
<1>1. BackendsNamed'
  BY DEF BackendsNamed, BackendNamed
<1>2. ServerJobs'
  <2>1. Server \in Runner
    BY Constants
  <2> QED BY <2>1, MovesKeep DEF ServerJobs, Services
<1>3. Shapes => Shapes'
  BY DEF Shapes, ReqShape, Rec, MapsApart, Points, Apart, NamesMatch, Named, Full, Keys, Key
<1>4. \A h \in Handler : h \in Runner
  BY Constants
<1>5. \A h \in Handler : ClusterJob(h) => ClusterJob(h)'
  <2> TAKE h \in Handler
  <2> HAVE ClusterJob(h)
  <2>1. ~(InPhase(h, "idle")') \/ InPhase(h, "idle")
    BY <1>4, MovesKeep DEF EngineMoves, InPhase, Downs, Past
  <2> QED BY <1>4, <2>1, MovesKeep DEF ClusterJob, At, Key, InPhase
<1>6. \A h \in Handler : InstanceJob(h) => InstanceJob(h)'
  <2> TAKE h \in Handler
  <2> HAVE InstanceJob(h)
  <2>1. ~(InPhase(h, "idle")') \/ InPhase(h, "idle")
    BY <1>4, MovesKeep DEF EngineMoves, InPhase, Downs, Past
  <2> QED BY <1>4, <2>1, MovesKeep DEF InstanceJob, At, Key, InPhase
<1>7. DatabaseJobs => DatabaseJobs'
  BY <1>4, MovesKeep DEF DatabaseJobs, ReqShape, Rec, DatabaseJob, At, Key
<1> QED BY <1>1, <1>2, <1>3, <1>5, <1>6, <1>7 DEF Linked

LEMMA DockerInstances ==
  ASSUME NEW r \in Runner, NEW p, NEW c, EngineMoves(r, p, c), DockerStep(r)
  PROVE  Instances'
<1> USE DEF DockerStep, Undisturbed, AccountsInv
<1> SUFFICES ASSUME workload = "gce", NEW h \in Handler, job'[h].name \in Calm'
             PROVE  InstanceSound(h)'
  BY DEF Instances
<1>1. h \in Runner /\ JobShape(h) /\ job'[h].name = job[h].name /\ job[h].name \in Calm
  BY Constants, MovesKeep DEF Jobs
<1>2. InstanceSound(h)
  BY <1>1 DEF Instances
<1>3. InPhase(h, "switched")' => InPhase(h, "switched") /\ job'[h] = job[h]
  BY <1>1, MovesKeep DEF EngineMoves, InPhase, Downs, Past
<1>4. InPhase(h, "switched") => containers'[job[h].container] = containers[job[h].container]
  <2> SUFFICES ASSUME InPhase(h, "switched") PROVE containers'[job[h].container] = containers[job[h].container]
    OBVIOUS
  <2>1. /\ job[h].kind \in {"start", "halt"} /\ job[h].container \in Container /\ NameOf(job[h].container) = job[h].name
    BY <1>1, Shapely DEF InPhase
  <2>2. job[r].name # job[h].name
    <3>1. Works(h, job[h].name) /\ Works(r, job[r].name) /\ job[r].kind \in {"make", "unmake"}
      BY <2>1, MovesKeep DEF Works, EngineMoves
    <3>2. Agree(job[h].name)
      BY <1>1 DEF Sound
    <3> QED BY <1>1, <2>1, <3>1, <3>2 DEF Agree
  <2> QED BY <2>1, <2>2 DEF EngineMoves
<1> QED BY <1>1, <1>2, <1>3, <1>4, MovesKeep DEF InstanceSound, Key

\* What is claimed has a container under the name.
LEMMA ClaimsTaken ==
  ASSUME AccountsInv, PortsInv, workload = "clusters", NEW n \in Calm, Matching(n), NEW r \in Runner, Works(r, n), job[r].kind = "make",
         Claims(n) # {}
  PROVE  NameTaken(n)
<1> USE DEF AccountsInv
<1>1. \A q \in Runner : Works(q, n) => job[q].kind = "make"
  BY DEF Sound, Agree
<1>2. \A h \in Handler : h \in Runner
  BY Constants
<1>3. PICK k : k \in Claims(n)
  OBVIOUS
<1>4. CASE k \in DOMAIN store /\ Named(k) = n
  <2>1. Shapes
    BY DEF Linked
  <2>2. PICK d \in Container : maps[store[k].map] = {d}
    BY <1>4, <2>1 DEF Shapes, MapsApart, Points
  <2>3. NameOf(d) = n
    BY <1>4, <2>1, <2>2 DEF Shapes, NamesMatch
  <2>4. \A h \in Handler : ~(Works(h, n) /\ (job[h].kind = "unmake" \/ InPhase(h, "switched")))
    BY <1>1, <1>2, Shapely DEF Jobs, InPhase
  <2>5. containers[d] \in {"running", "paused"}
    BY <1>4, <2>2, <2>3, <2>4 DEF Matching, RecordsMatch
  <2> QED BY <2>3, <2>5 DEF NameTaken, Exists
<1>5. CASE k \in ClusterKeys /\ BackendOf(k) \in DOMAIN backends /\ Named(k) = n
  <2>1. PICK b \in DOMAIN backends : b = BackendOf(k)
    BY <1>5
  <2>2. b[1] \in {"eks", "gke"} /\ NameOf(backends[b]) = n
    BY <1>5, <2>1 DEF ClusterKeys, EksKeys, GkeKeys, BackendOf, ServiceOf, Named, BackendsNamed, BackendNamed
  <2>3. backends[b] \in Container /\ Live(backends[b])
    BY <2>1, <2>2 DEF Matching, ObjectsRun, PortsInv, EngineInv, HeldHaveRun, Held
  <2> QED BY <2>2, <2>3 DEF NameTaken, Live, Exists
<1>6. CASE \E g \in Handler : Works(g, n) /\ (job[g].kind = "unmake" \/ job[g].phase \in Past)
  <2>1. PICK g \in Runner : Works(g, n) /\ job[g].phase \in Past
    BY <1>1, <1>2, <1>6
  <2>2. job[g].container \in Container /\ NameOf(job[g].container) = n
    BY <2>1, Shapely DEF Jobs, Works
  <2>3. Exists(job[g].container)
    BY <2>1 DEF Sound, IsUp, Exists
  <2> QED BY <2>2, <2>3 DEF NameTaken
<1> QED BY <1>3, <1>4, <1>5, <1>6 DEF Claims

LEMMA DockerMatching ==
  ASSUME NEW r \in Runner, NEW p, NEW c, EngineMoves(r, p, c), DockerStep(r), Up, NEW n \in Calm'
  PROVE  Matching(n)'
<1> USE DEF DockerStep, Undisturbed, AccountsInv
<1>0. n \in Calm /\ Matching(n) /\ Sound(n) /\ JobShape(r)
  BY MovesKeep DEF Jobs
<1>1. \A h \in Handler : h \in Runner
  BY Constants
<1>2. job[r].kind = "unmake" => r \in Handler
  BY BackendsAssumption DEF ServerJobs, Up, NoJob
<1>3. ASSUME workload = "clusters" PROVE OneCluster(n)'
  <2>1. CASE /\ r \in Handler /\ job[r].name = n /\ p \in Past /\ job[r].phase \notin Past /\ job[r].kind = "make"
    <3>1. ~NameTaken(n) /\ Works(r, n)
      BY <2>1, MovesKeep DEF EngineMoves
    <3>2. Claims(n) = {}
      BY <1>0, <1>3, <2>1, <3>1, ClaimsTaken
    <3>3. Claims(n)' \subseteq {Key(r)}
      <4>1. \A q \in Handler \ {r} : ~(Works(q, n) /\ (job[q].kind = "unmake" \/ job[q].phase \in Past))
        BY <3>2 DEF Claims
      <4>2. \A q \in Handler \ {r} : ~(Works(q, n)' /\ (job'[q].kind = "unmake" \/ job'[q].phase \in Past))
        BY <1>1, <4>1, MovesKeep
      <4>3. /\ {k \in DOMAIN store : Named(k) = n} = {}
            /\ {k \in ClusterKeys : BackendOf(k) \in DOMAIN backends /\ Named(k) = n} = {}
        BY <3>2 DEF Claims
      <4>4. /\ {k \in DOMAIN store' : Named(k) = n} = {}
            /\ {k \in ClusterKeys : BackendOf(k) \in DOMAIN backends' /\ Named(k) = n} = {}
        BY <4>3
      <4>5. \A q \in Handler : Key(q)' = Key(q)
        BY DEF Key
      <4> QED BY <4>2, <4>4, <4>5 DEF Claims
    <3> QED BY <3>3 DEF OneCluster
  <2>2. CASE ~(r \in Handler /\ job[r].name = n /\ p \in Past /\ job[r].phase \notin Past /\ job[r].kind = "make")
    <3>1. \A q \in Handler : /\ Works(q, n)' /\ (job'[q].kind = "unmake" \/ job'[q].phase \in Past)
                             => Works(q, n) /\ (job[q].kind = "unmake" \/ job[q].phase \in Past)
      <4> TAKE q \in Handler
      <4>1. CASE q # r
        BY <1>1, <4>1, MovesKeep
      <4>2. CASE q = r
        BY <1>1, <2>2, <4>2, MovesKeep DEF EngineMoves, Works
      <4> QED BY <4>1, <4>2
    <3>2. Claims(n)' \subseteq Claims(n)
      BY <3>1 DEF Claims, Key
    <3> QED BY <1>0, <1>3, <3>2 DEF OneCluster, Matching
  <2> QED BY <2>1, <2>2
<1>4. ASSUME workload = "clusters" PROVE ObjectsRun(n)'
  <2> SUFFICES ASSUME NEW b \in DOMAIN backends, b[1] \in {"eks", "gke"}, NameOf(backends[b]) = n
               PROVE  /\ Live(backends[b])'
                      /\ \A h \in Handler : Works(h, n) /\ job[h].kind = "unmake" => InPhase(h, "idle")'
    BY <1>1, MovesKeep DEF ObjectsRun
  <2>1. Live(backends[b]) /\ backends[b] \in Container
    BY <1>0, <1>4 DEF Matching, ObjectsRun, PortsInv, EngineInv, HeldHaveRun, Held
  <2>2. \A h \in Handler : Works(h, n) /\ job[h].kind = "unmake" => InPhase(h, "idle")
    BY <1>0, <1>4 DEF Matching, ObjectsRun
  <2>3. \A h \in Handler : Works(h, n) /\ job[h].kind = "unmake" => InPhase(h, "idle")'
    BY <1>1, <2>2, MovesKeep DEF InPhase
  <2>4. containers'[backends[b]] = containers[backends[b]]
    <3>1. CASE job[r].kind = "make"
      BY <2>1, <3>1 DEF EngineMoves, Live
    <3>2. CASE job[r].kind = "unmake"
      <4>1. job[r].name # n
        BY <1>2, <2>2, <3>2, MovesKeep DEF EngineMoves, InPhase, Downs
      <4> QED BY <2>1, <3>2, <4>1 DEF EngineMoves
    <3> QED BY <3>1, <3>2 DEF EngineMoves
  <2> QED BY <2>1, <2>3, <2>4 DEF Live
<1>5. ASSUME workload \in {"clusters", "gce"} PROVE RecordsMatch(n)'
  <2> SUFFICES ASSUME NEW k \in DOMAIN store, NEW d \in maps[store[k].map], NameOf(d) = n
               PROVE  \/ containers'[d] = IF store[k].status = "stopped" THEN "paused" ELSE "running"
                      \/ \E h \in Handler : Works(h, n)' /\ (job'[h].kind = "unmake" \/ InPhase(h, "switched")')
    BY DEF RecordsMatch
  <2>0. d \in Container
    BY <1>5 DEF Linked, Shapes, MapsApart, Points
  <2>1. CASE \E h \in Handler : Works(h, n) /\ (job[h].kind = "unmake" \/ InPhase(h, "switched"))
    BY <1>1, <2>1, MovesKeep DEF InPhase
  <2>2. CASE containers[d] = IF store[k].status = "stopped" THEN "paused" ELSE "running"
    <3>1. CASE containers'[d] = containers[d]
      BY <2>2, <3>1
    <3>2. CASE containers'[d] # containers[d]
      <4>1. job[r].kind = "unmake" /\ job[r].name = n
        BY <2>0, <2>2, <3>2 DEF EngineMoves
      <4> QED BY <1>2, <4>1, MovesKeep
    <3> QED BY <3>1, <3>2
  <2> QED BY <1>0, <1>5, <2>1, <2>2 DEF Matching, RecordsMatch
<1> QED BY <1>3, <1>4, <1>5 DEF Matching

LEMMA DockerShutting ==
  ASSUME NEW r \in Runner, NEW p, NEW c, EngineMoves(r, p, c), DockerStep(r)
  PROVE  Shutting'
<1> USE DEF DockerStep, Undisturbed, AccountsInv
<1> SUFFICES ASSUME server.pc \in {"closing", "exited"} PROVE Shutting'
  BY DEF Shutting
<1>1. \A h \in Handler : h \in Runner
  BY Constants
<1>2. \A h \in Handler : job'[h].kind = "make" => job'[h].name \in server.late
  BY <1>1, MovesKeep DEF Shutting
<1>3. ASSUME NEW d \in Container, Live(d)', NameOf(d) \in Calm' \ server.late
      PROVE  Doomed(d)' \/ Scheduled(d)'
  <2>1. Live(d)
    <3>1. CASE job[r].kind = "make"
      <4>1. r \in Handler
        BY <3>1, BackendsAssumption DEF ServerJobs, NoJob
      <4>2. NameOf(d) # job[r].name
        BY <1>3, <3>1, <4>1 DEF Shutting
      <4> QED BY <1>3, <3>1, <4>2 DEF EngineMoves, Live
    <3>2. CASE job[r].kind = "unmake"
      BY <1>3, <3>2 DEF EngineMoves, Live
    <3> QED BY <3>1, <3>2 DEF EngineMoves
  <2>2. NameOf(d) \in Calm \ server.late
    BY <1>3, MovesKeep
  <2>3. Doomed(d) \/ Scheduled(d)
    BY <2>1, <2>2 DEF Shutting
  <2>4. Scheduled(d) => Scheduled(d)'
    BY DEF Scheduled, EngineMoves, Proceeds
  <2>5. ASSUME NEW q \in Runner, job[q].phase \in Downs, job[q].container = d PROVE Doomed(d)'
    <3>1. CASE q # r
      BY <2>5, <3>1, MovesKeep DEF Doomed
    <3>2. CASE q = r /\ p = "closed"
      <4>1. job'[r].container = d /\ InPhase(r, "closed")' /\ Works(r, job[r].name)' /\ JobShape(r)
        BY <2>5, <3>2, MovesKeep DEF EngineMoves, Past, InPhase, Jobs
      <4>2. job[r].name = NameOf(d)
        BY <2>5, <3>2, <4>1, Shapely
      <4>3. Sound(NameOf(d))'
        BY <1>3 DEF StaySound
      <4>4. IsDown(NameOf(d))'
        BY <4>3 DEF Sound
      <4>5. Works(r, NameOf(d))'
        BY <4>1, <4>2, MovesKeep DEF Works, EngineMoves
      <4> QED BY <1>3, <4>1, <4>4, <4>5 DEF IsDown
    <3>3. CASE q = r /\ p # "closed"
      <4>1. JobShape(r) /\ p \in Downs /\ c = d
        BY <2>5, <3>3, Shapely DEF EngineMoves, Jobs, Downs
      <4> QED BY <2>5, <3>3, <4>1, MovesKeep DEF Doomed
    <3> QED BY <3>1, <3>2, <3>3
  <2> QED BY <2>3, <2>4, <2>5 DEF Doomed
<1> QED BY <1>2, <1>3 DEF Shutting

LEMMA DockerAccounts ==
  ASSUME AccountsInv, PortsInv, DockerSteps, UNCHANGED workload
  PROVE  AccountsInv'
<1>1. PICK r \in Runner : EngineStep(r)
  BY DEF DockerSteps
<1>2. Undisturbed /\ UNCHANGED req
  BY <1>1 DEF DockerSteps, stores, EngineStep, registry, Undisturbed
<1>3. AllSound
  BY DEF AllSound, AccountsInv
<1>4. StaySound
  BY <1>1, <1>2, <1>3, EngineSound
<1>5. PICK p, c : EngineMoves(r, p, c)
  BY <1>1, <1>2, <1>3, EngineDoes
<1>6. DockerStep(r)
  BY <1>2, <1>4 DEF DockerStep
<1>7. BackendsNamed' /\ ServerJobs' /\ Linked' /\ Instances' /\ Shutting'
  BY <1>5, <1>6, DockerLinked, DockerInstances, DockerShutting
<1>8. Up' => \A n \in Calm' : Matching(n)'
  BY <1>2, <1>5, <1>6, DockerMatching DEF Up, Undisturbed
<1> QED BY <1>4, <1>7, <1>8 DEF AccountsInv, StaySound
-----------------------------------------------------------------------------
(* The steps of a handler, on its own job.                                  *)
GoodJob(h, j) ==
  \/ j \in {job[h], NoJob}
  \/ /\ j.kind # "none" /\ j.phase \notin Past \cup {"closed"}
     /\ \/ job[h].kind = j.kind /\ job[h].name = j.name
        \/ /\ job[h] = NoJob
           /\ j.name \in trouble' \/ \A q \in Runner \ {h} : Works(q, j.name) => job[q].kind = j.kind

\* What a shutdown would find it still finds, or h takes it down; what h has
\* brought up it hands to the service.
KeptOn == \A d \in Container : Live(d) /\ NameOf(d) \in Calm' =>
            \A s : d \in ListToShut(s) => d \in ListToShut(s)' \/ Doomed(d)'
HandedOver(h) == \A d \in Container : job[h].phase \in {"wait", "ready"} /\ job[h].container = d /\ NameOf(d) \in Calm' =>
                   Kept(d)' \/ InHand(d)'

JobMoves(h, j) ==
  /\ OnlyJob(h, j) /\ GoodJob(h, j) /\ JobShape(h)'
  /\ trouble \subseteq trouble' /\ UNCHANGED <<emptied, workload>>
  /\ job[h].phase \in Downs => j = job[h]
  /\ KeptOn /\ HandedOver(h)
  /\ \A d \in Container : containers'[d] # containers[d] =>
       /\ {containers[d], containers'[d]} \subseteq {"running", "paused"}
       /\ NameOf(d) = job[h].name /\ job[h].kind \in {"start", "halt"}
HandlerMoves(h, j) == h \in Handler /\ JobMoves(h, j)

LEMMA JobSound ==
  ASSUME AllSound, NEW h \in Runner, NEW j, JobMoves(h, j)
  PROVE  StaySound
<1>1. /\ h \in Runner /\ job'[h] = j /\ \A q \in Runner \ {h} : job'[q] = job[q]
      /\ \A q \in Runner : JobShape(q)
  BY Constants DEF JobMoves, OnlyJob, AllSound, Jobs
<1>2. \A d \in Container : (Live(d)' <=> Live(d)) /\ (Exists(d)' <=> Exists(d)) /\ (containers[d] = "removed" => containers'[d] = "removed")
  BY DEF JobMoves, Live, Exists
<1>3. Jobs'
  <2>1. \A q \in Runner : JobShape(q)'
    BY <1>1 DEF JobShape, JobMoves, NoJob
  <2>2. OneOfAName' /\ EmptiedGone'
    BY <1>2 DEF OneOfAName, EmptiedGone, JobMoves, AllSound, Jobs
  <2> QED BY <2>1, <2>2 DEF Jobs
<1>4. ASSUME NEW n \in Calm' PROVE Sound(n)'
  <2>0. n \in Calm /\ Sound(n) /\ n \notin trouble'
    BY DEF Calm, JobMoves, AllSound
  <2>1. \A q \in Runner \ {h} : Works(q, n)' <=> Works(q, n)
    BY <1>1 DEF Works
  <2>2. Works(h, n)' => job'[h] = job[h] \/ \A q \in Runner : Works(q, n) => job[q].kind = job'[h].kind
    <3> SUFFICES ASSUME Works(h, n)', job'[h] # job[h] PROVE \A q \in Runner : Works(q, n) => job[q].kind = job'[h].kind
      OBVIOUS
    <3>1. j.kind # "none" /\ j.name = n /\ j # NoJob
      BY <1>1 DEF Works, NoJob
    <3>2. job[h].kind = j.kind /\ job[h].name = j.name =>
            Works(h, n) /\ \A q \in Runner : Works(q, n) => job[q].kind = j.kind
      BY <1>1, <2>0, <3>1 DEF Sound, Agree, Works
    <3>3. CASE job[h].kind = j.kind /\ job[h].name = j.name
      BY <1>1, <3>2, <3>3
    <3>4. CASE ~(job[h].kind = j.kind /\ job[h].name = j.name)
      <4>1. \A q \in Runner \ {h} : Works(q, j.name) => job[q].kind = j.kind
        BY <1>1, <2>0, <3>1, <3>4 DEF JobMoves, GoodJob
      <4>2. ~Works(h, n) \/ job[h].kind = j.kind
        BY <1>1, <3>1, <3>4 DEF Works, JobMoves, GoodJob, NoJob
      <4> QED BY <1>1, <3>1, <4>1, <4>2
    <3> QED BY <3>3, <3>4
  <2>3. Agree(n)'
    BY <1>1, <2>0, <2>1, <2>2 DEF Agree, Sound, Works
  <2>4. \A q \in Runner : Works(q, n)' /\ job'[q].phase \in Past \cup {"closed"} => Works(q, n) /\ job'[q] = job[q]
    BY <1>1, <2>1 DEF JobMoves, GoodJob, NoJob, Works
  <2>5. OneUp(n)'
    BY <2>0, <2>4 DEF OneUp, Sound
  <2>6. IsUp(n)'
    <3> SUFFICES ASSUME NEW q \in Runner, Works(q, n), job[q].phase \in Past
                 PROVE  containers'[job[q].container] = containers[job[q].container]
      BY <2>0, <2>4 DEF IsUp, Sound, InPhase
    <3>1. job[q].kind = "make" /\ job[q].container \in Container /\ NameOf(job[q].container) = n
      BY <1>1, Shapely DEF Works
    <3>2. ~(job[h].kind \in {"start", "halt"} /\ job[h].name = n)
      BY <1>1, <2>0, <3>1 DEF Works, Sound, Agree
    <3> QED BY <3>1, <3>2 DEF JobMoves
  <2>7. IsDown(n)'
    <3> SUFFICES ASSUME NEW q \in Runner, Works(q, n), job[q].phase = "closed"
                 PROVE  ~(containers'[job[q].container] \in {"running", "paused"})
      BY <2>4 DEF IsDown, InPhase, Live
    <3>1. job[q].container \in Container /\ ~Live(job[q].container)
      BY <1>1, <2>0, Shapely DEF IsDown, InPhase, Sound
    <3> QED BY <1>2, <3>1 DEF Live
  <2>8. Accounted(n)'
    <3> SUFFICES ASSUME NEW d \in Container, Live(d)', NameOf(d) = n
                 PROVE  Kept(d)' \/ Doomed(d)' \/ InHand(d)'
      BY DEF Accounted
    <3>1. Kept(d) \/ Doomed(d) \/ InHand(d)
      BY <1>2, <2>0 DEF Sound, Accounted
    <3>2. Kept(d) => Kept(d)' \/ Doomed(d)'
      BY <1>2 DEF Kept, JobMoves, KeptOn, Services
    <3>3. Doomed(d) => Doomed(d)'
      BY <1>1 DEF Doomed, JobMoves
    <3>4. InHand(d) => InHand(d)' \/ Kept(d)'
      BY <1>1 DEF InHand, JobMoves, HandedOver
    <3> QED BY <3>1, <3>2, <3>3, <3>4
  <2> QED BY <2>3, <2>5, <2>6, <2>7, <2>8 DEF Sound
<1> QED BY <1>3, <1>4 DEF StaySound

LEMMA HandlerSound ==
  ASSUME AllSound, NEW h, NEW j, HandlerMoves(h, j)
  PROVE  StaySound
  BY Constants, JobSound DEF HandlerMoves

\* What Requests does to the server's own record.
Noted == /\ Running
         /\ server' = [server EXCEPT !.late = IF server.pc = "closing" THEN @ \cup Makers' ELSE @]

LEMMA NotedIs ==
  ASSUME EngineInv, Noted
  PROVE  /\ server'.pc = server.pc /\ server'.services = server.services /\ server'.left = server.left
         /\ server.pc = "closing" => server'.late = server.late \cup Makers'
         /\ server.pc \in {"serving", "closing"} /\ ServerTypeOK'
  BY DEF Noted, Running, EngineInv, ServerTypeOK

LEMMA HandlerShuts ==
  ASSUME AccountsInv, PortsInv, NEW h, NEW j, HandlerMoves(h, j), Noted
  PROVE  ServerJobs' /\ Shutting'
<1>1. /\ h \in Runner /\ job'[h] = j /\ \A q \in Runner \ {h} : job'[q] = job[q]
      /\ Server # h /\ job'[Server] = job[Server] /\ Calm' \subseteq Calm
  BY Constants DEF HandlerMoves, JobMoves, OnlyJob, Calm
<1>2. /\ server'.pc = server.pc /\ server'.services = server.services /\ server'.left = server.left
      /\ server.pc = "closing" => server'.late = server.late \cup Makers'
      /\ server.pc \in {"serving", "closing"}
  BY NotedIs DEF PortsInv
<1>3. ServerJobs'
  BY <1>1, <1>2 DEF AccountsInv, ServerJobs
<1>4. Shutting'
  <2> SUFFICES ASSUME server.pc = "closing"
               PROVE  /\ \A g \in Handler : job'[g].kind = "make" => job'[g].name \in server'.late
                      /\ \A d \in Container : Live(d)' /\ NameOf(d) \in Calm' \ server'.late => Doomed(d)' \/ Scheduled(d)'
    BY <1>2 DEF Shutting
  <2>1. \A g \in Handler : job'[g].kind = "make" => job'[g].name \in server'.late
    BY <1>2 DEF Makers
  <2>2. ASSUME NEW d \in Container, Live(d)', NameOf(d) \in Calm' \ server'.late
        PROVE  Doomed(d)' \/ Scheduled(d)'
    <3>1. Live(d) /\ NameOf(d) \in Calm \ server.late
      BY <1>1, <1>2, <2>2 DEF HandlerMoves, JobMoves, Live
    <3>2. Doomed(d) \/ Scheduled(d)
      BY <3>1 DEF AccountsInv, Shutting
    <3>3. Doomed(d) => Doomed(d)'
      BY <1>1 DEF Doomed, HandlerMoves, JobMoves
    <3>4. Scheduled(d) => Scheduled(d)' \/ Doomed(d)'
      BY <1>2, <2>2, <3>1 DEF Scheduled, HandlerMoves, JobMoves, KeptOn
    <3> QED BY <3>2, <3>3, <3>4
  <2> QED BY <2>1, <2>2
<1> QED BY <1>3, <1>4
-----------------------------------------------------------------------------
(* The records of clusters and instances, and their containers.             *)

LEMMA KeysNamed ==
  /\ \A k \in ClusterKeys : /\ Named(k) = ContainerName(k) /\ Named(k) \in ClusterName /\ Named(k) \in Resource
                            /\ Named(k) \notin EngineName /\ k[1] \in {"eks", "gke"}
  /\ \A k \in GceKeys : /\ Named(k) = k[2] /\ Named(k) \in GceName /\ Named(k) \in Resource
                        /\ Named(k) \notin EngineName /\ k[1] = "gce"
  /\ \A j, k \in ClusterKeys : BackendOf(j) = BackendOf(k) => j = k
  /\ \A j, k \in GceKeys : Named(j) = Named(k) => j = k
  BY BackendsAssumption DEF ClusterKeys, EksKeys, GkeKeys, GceKeys, Named, ContainerName, ServiceOf, BackendOf

\* The container that a record has.
Owns(k, c) == /\ maps[store[k].map] = {c} /\ NameOf(c) = Named(k) /\ Content(store[k]) = {c}
              /\ ContainerOf(store[k]) = c /\ GceContainer(store[k]) = c

LEMMA ItsOwn ==
  ASSUME Shapes, NEW k \in DOMAIN store
  PROVE  \E c \in Container : Owns(k, c)
<1>1. PICK c \in Container : maps[store[k].map] = {c}
  BY DEF Shapes, MapsApart, Points
<1>2. store[k].map \in Map /\ NameOf(c) = Named(k)
  BY <1>1 DEF Shapes, MapsApart, Points, NamesMatch
<1>3. Content(store[k]) = {c}
  BY <1>1, <1>2, RecordStoreAssumption DEF Content
<1> QED BY <1>1, <1>2, <1>3 DEF Owns, ContainerOf, GceContainer

LEMMA ShapesSame ==
  ASSUME Shapes, UNCHANGED <<store, maps, workload, req>>
  PROVE  Shapes'
  BY DEF Shapes, ReqShape, Rec, MapsApart, Points, Apart, NamesMatch, Named, Full, Keys, Key

LEMMA ShapesAsk ==
  ASSUME Shapes, NEW h \in Handler, NEW op, NEW key, NEW field, NEW copy, ReqIs(h, op, key, field, copy),
         UNCHANGED <<store, maps, workload>>,
         \/ copy = Blank
         \/ key = req[h].key /\ copy = req[h].copy
         \/ key \in DOMAIN store /\ copy = store[key]
  PROVE  Shapes'
<1>1. MapsApart'
  BY ApartAsks DEF Shapes, Blank
<1>2. \A g \in Handler : Full(req[g].copy)' /\ (req'[g].copy.map # NilMap => \A c \in maps[req'[g].copy.map] : NameOf(c) = Named(Key(g)'))
  <2> TAKE g \in Handler
  <2>1. CASE g # h
    <3>1. req'[g].copy = req[g].copy /\ req'[g].key = req[g].key
      BY <2>1 DEF ReqIs
    <3> QED BY <3>1 DEF Shapes, NamesMatch, Full, Key
  <2>2. CASE g = h
    <3>1. req'[g].copy = copy /\ Key(g)' = key
      BY <2>2 DEF ReqIs, Key
    <3>2. Full(copy) /\ (copy.map # NilMap => \A c \in maps[copy.map] : NameOf(c) = Named(key))
      <4>1. CASE copy = Blank
        BY <4>1 DEF Full, Blank
      <4>2. CASE key = req[h].key /\ copy = req[h].copy
        BY <4>2 DEF Shapes, NamesMatch, Key
      <4>3. CASE key \in DOMAIN store /\ copy = store[key]
        BY <4>3 DEF Shapes, NamesMatch
      <4> QED BY <4>1, <4>2, <4>3
    <3> QED BY <3>1, <3>2 DEF Full
  <2> QED BY <2>1, <2>2
<1>3. NamesMatch'
  BY <1>2 DEF NamesMatch, Shapes, Keys, Full
<1> QED BY <1>1, <1>3 DEF Shapes, ReqIs, Rec

\* A new record.
NewRecord(k, c) == \E m \in Map :
  /\ DOMAIN store' = DOMAIN store \cup {k} /\ store'[k] = [status |-> "available", map |-> m]
  /\ \A l \in DOMAIN store \ {k} : store'[l] = store[l] /\ store[l].map # m
  /\ maps' = [maps EXCEPT ![m] = {c}] /\ m # NilMap
  /\ \A g \in Handler : req[g].copy.map # m

LEMMA PutNewIs ==
  ASSUME NEW k, NEW c, PutNew(k, {c})
  PROVE  NewRecord(k, c)
<1>1. PICK m \in FreshMap : /\ Put(k, [status |-> "available", map |-> m])
                            /\ maps' = [maps EXCEPT ![m] = {c}]
  BY DEF PutNew
<1>2. /\ m \in Map /\ m # NilMap
      /\ \A l \in DOMAIN store : store[l].map # m
      /\ \A g \in Handler : req[g].copy.map # m
  BY <1>1, RecordStoreAssumption DEF FreshMap, Unused
<1> QED BY <1>1, <1>2 DEF Put, Over, Only, NewRecord

LEMMA NewRecordIs ==
  ASSUME Shapes, NEW k, NEW c, NewRecord(k, c)
  PROVE  /\ DOMAIN store' = DOMAIN store \cup {k}
         /\ store'[k].status = "available" /\ maps'[store'[k].map] = {c}
         /\ \A l \in DOMAIN store \ {k} : store'[l] = store[l] /\ maps'[store[l].map] = maps[store[l].map]
         /\ Content(store[k])' = {c}
<1>1. PICK m \in Map :
        /\ DOMAIN store' = DOMAIN store \cup {k} /\ store'[k] = [status |-> "available", map |-> m]
        /\ \A l \in DOMAIN store \ {k} : store'[l] = store[l] /\ store[l].map # m
        /\ maps' = [maps EXCEPT ![m] = {c}] /\ m # NilMap
  BY DEF NewRecord
<1>2. maps'[m] = {c} /\ \A n \in Map \ {m} : maps'[n] = maps[n]
  BY <1>1 DEF Shapes
<1>3. \A l \in DOMAIN store : store[l].map \in Map
  BY DEF Shapes, MapsApart, Points
<1> QED BY <1>1, <1>2, <1>3 DEF Content

LEMMA ShapesPutNew ==
  ASSUME Shapes, NEW h \in Handler, NEW op, NEW key, NEW field, NEW copy, ReqIs(h, op, key, field, copy),
         copy = Blank \/ (key = req[h].key /\ copy = req[h].copy),
         NEW k \in Keys, NEW c \in Container, NameOf(c) = Named(k), PutNew(k, {c}), UNCHANGED workload
  PROVE  Shapes'
<1>1. Apart(c)
  BY KeysNamed DEF Apart, Keys
<1>2. MapsApart'
  BY <1>1, ApartPutNew DEF Shapes, Blank
<1>3. PICK m \in Map :
        /\ DOMAIN store' = DOMAIN store \cup {k} /\ store'[k] = [status |-> "available", map |-> m]
        /\ \A l \in DOMAIN store \ {k} : store'[l] = store[l] /\ store[l].map # m
        /\ maps' = [maps EXCEPT ![m] = {c}] /\ m # NilMap
        /\ \A g \in Handler : req[g].copy.map # m
  <2>1. NewRecord(k, c)
    BY PutNewIs
  <2> QED BY <2>1 DEF NewRecord
<1>4. maps' = [n \in Map |-> maps'[n]] /\ maps'[m] = {c} /\ \A n \in Map \ {m} : maps'[n] = maps[n]
  BY <1>3 DEF Shapes
<1>5. \A l \in DOMAIN store : store[l].map \in Map
  BY DEF Shapes, MapsApart, Points
<1>6. \A l \in DOMAIN store' : l \in Keys' /\ Full(store'[l]) /\ Rec(store'[l]) /\ \A d \in maps'[store'[l].map] : NameOf(d) = Named(l)
  <2> TAKE l \in DOMAIN store'
  <2>1. CASE l = k
    BY <1>3, <1>4, <2>1 DEF Full, Rec, Keys
  <2>2. CASE l # k
    BY <1>3, <1>4, <1>5, <2>2 DEF Shapes, NamesMatch, Rec, Full, Keys
  <2> QED BY <2>1, <2>2
<1>7. \A g \in Handler : Full(req'[g].copy) /\ (req'[g].copy.map # NilMap => \A d \in maps'[req'[g].copy.map] : NameOf(d) = Named(Key(g)'))
  <2> TAKE g \in Handler
  <2>1. req'[g].copy = Blank \/ (req'[g].copy = req[g].copy /\ Key(g)' = Key(g))
    BY DEF ReqIs, Key
  <2>2. req[g].copy.map # NilMap => maps'[req[g].copy.map] = maps[req[g].copy.map]
    BY <1>3, <1>4 DEF Shapes, MapsApart, Points
  <2> QED BY <2>1, <2>2 DEF Shapes, NamesMatch, Full, Blank
<1>8. NamesMatch'
  BY <1>6, <1>7 DEF NamesMatch, Full
<1> QED BY <1>2, <1>4, <1>6, <1>8 DEF Shapes, ReqIs, Rec

\* A record that is deleted.
LEMMA DeleteIs ==
  ASSUME Shapes, NEW k, Delete(k)
  PROVE  /\ DOMAIN store' = DOMAIN store \ {k} /\ maps' = [m \in Map |-> maps'[m]]
         /\ \A l \in DOMAIN store' : store'[l] = store[l] /\ maps'[store[l].map] = maps[store[l].map]
                                     /\ Content(store[l])' = Content(store[l])
         /\ \A g \in Handler : req[g].copy.map # NilMap => maps'[req[g].copy.map] = maps[req[g].copy.map]
<1>1. DOMAIN store' = DOMAIN store \ {k} /\ \A l \in DOMAIN store' : store'[l] = store[l]
  BY DEF Delete, Without, Restrict
<1>2. /\ maps' = [m \in Map |-> maps'[m]]
      /\ \A m \in Map : maps'[m] = maps[m] \/
           (k \in DOMAIN store /\ store[k].map = m /\ \A h \in Handler : req[h].copy.map # m)
  BY DEF Delete
<1>3. \A l \in DOMAIN store : store[l].map \in Map /\ (l # k /\ k \in DOMAIN store => store[l].map # store[k].map)
  BY DEF Shapes, MapsApart, Points
<1>4. \A g \in Handler : req[g].copy.map # NilMap => req[g].copy.map \in Map
  BY DEF Shapes, MapsApart, Points
<1> QED BY <1>1, <1>2, <1>3, <1>4 DEF Content

LEMMA ShapesDelete ==
  ASSUME Shapes, NEW h \in Handler, ReqIs(h, "idle", NoKey, "none", Blank), NEW k, Delete(k), UNCHANGED workload
  PROVE  Shapes'
<1>1. MapsApart'
  BY ApartDelete DEF Shapes
<1>2. /\ DOMAIN store' = DOMAIN store \ {k} /\ maps' = [m \in Map |-> maps'[m]]
      /\ \A l \in DOMAIN store' : store'[l] = store[l] /\ maps'[store[l].map] = maps[store[l].map]
      /\ \A g \in Handler : req[g].copy.map # NilMap => maps'[req[g].copy.map] = maps[req[g].copy.map]
  BY DeleteIs
<1>3. \A l \in DOMAIN store' : l \in Keys' /\ Full(store'[l]) /\ Rec(store'[l]) /\ \A d \in maps'[store'[l].map] : NameOf(d) = Named(l)
  BY <1>2 DEF Shapes, NamesMatch, Rec, Full, Keys
<1>4. \A g \in Handler : Full(req'[g].copy) /\ (req'[g].copy.map # NilMap => \A d \in maps'[req'[g].copy.map] : NameOf(d) = Named(Key(g)'))
  <2> TAKE g \in Handler
  <2>1. req'[g].copy = Blank \/ (req'[g].copy = req[g].copy /\ Key(g)' = Key(g))
    BY DEF ReqIs, Key
  <2> QED BY <1>2, <2>1 DEF Shapes, NamesMatch, Full, Blank
<1>5. NamesMatch'
  BY <1>3, <1>4 DEF NamesMatch, Full
<1> QED BY <1>1, <1>2, <1>3, <1>5 DEF Shapes, ReqIs, Rec
-----------------------------------------------------------------------------
(* The steps of a handler, all together.                                    *)

\* A request's step, of which the container states are not a part.
HandlerCtx(h) == /\ AccountsInv /\ PortsInv /\ Noted /\ h \in Handler
                 /\ UNCHANGED <<containers, emptied, workload>>

LEMMA HandlerNow ==
  ASSUME NEW h, HandlerCtx(h)
  PROVE  /\ h \in Runner /\ EngineInv /\ AllSound /\ JobShape(h) /\ h # Server
         /\ job = [q \in Runner |-> job[q]] /\ (trouble \subseteq trouble' => Calm' \subseteq Calm)
         /\ server'.pc = server.pc /\ server'.left = server.left
  BY Constants, JobAt, NotedIs DEF HandlerCtx, PortsInv, AccountsInv, AllSound, Jobs, Calm

LEMMA ShutsSame ==
  ASSUME UNCHANGED <<store, maps, workload, backends>>
  PROVE  KeptOn
  BY SameServices DEF KeptOn

\* Nothing has changed but what the clients know.
LEMMA Rests ==
  ASSUME NEW h, HandlerCtx(h), UNCHANGED <<store, maps, req, job, trouble, backends>>
  PROVE  AccountsInv'
<1> USE DEF HandlerCtx, AccountsInv
<1>1. HandlerMoves(h, job[h])
  <2>1. h \in Runner /\ JobShape(h) /\ OnlyJob(h, job[h])
    BY HandlerNow DEF OnlyJob
  <2>2. KeptOn
    BY ShutsSame
  <2>3. HandedOver(h)
    BY <2>1 DEF HandedOver, InHand
  <2> QED BY <2>1, <2>2, <2>3 DEF HandlerMoves, JobMoves, GoodJob, JobShape, NoJob
<1>2. StaySound
  BY <1>1, HandlerSound, HandlerNow
<1>3. ServerJobs' /\ Shutting'
  BY <1>1, HandlerShuts
<1>4. BackendsNamed'
  BY HandlerNow DEF BackendsNamed, BackendNamed
<1>5. Linked'
  <2>1. Shapes => Shapes'
    BY ShapesSame
  <2>2. \A g \in Handler : (ClusterJob(g) => ClusterJob(g)') /\ (InstanceJob(g) => InstanceJob(g)')
    BY DEF ClusterJob, InstanceJob, At, Key, InPhase, NoJob
  <2>3. DatabaseJobs => DatabaseJobs'
    BY DEF DatabaseJobs, ReqShape, Rec, DatabaseJob, At, Key, NoJob
  <2> QED BY <2>1, <2>2, <2>3 DEF Linked
<1>6. Instances'
  BY DEF Instances, InstanceSound, InPhase, Key, Calm
<1>7. Up' => \A n \in Calm' : Matching(n)'
  <2> SUFFICES ASSUME Up', NEW n \in Calm' PROVE Matching(n)'
    OBVIOUS
  <2>1. Matching(n)
    BY HandlerNow DEF Up, Calm
  <2>2. Claims(n)' = Claims(n)
    BY DEF Claims, Works, Key
  <2>3. ObjectsRun(n) => ObjectsRun(n)'
    BY DEF ObjectsRun, Live, Works, InPhase
  <2>4. RecordsMatch(n) => RecordsMatch(n)'
    BY DEF RecordsMatch, Works, InPhase
  <2> QED BY <2>1, <2>2, <2>3, <2>4 DEF Matching, OneCluster
<1> QED BY <1>2, <1>3, <1>4, <1>5, <1>6, <1>7 DEF StaySound

\* What a goroutine has ready is the one container of its name.
LEMMA Readied ==
  ASSUME AllSound, NEW r \in Runner, job[r].phase \in {"wait", "ready"}, job[r].name \in Calm
  PROVE  /\ job[r].container \in Container /\ NameOf(job[r].container) = job[r].name /\ job[r].kind = "make"
         /\ containers[job[r].container] = "running" /\ Live(job[r].container)
         /\ \A d \in Container : Live(d) /\ NameOf(d) = job[r].name => d = job[r].container
<1>1. JobShape(r)
  BY DEF AllSound, Jobs
<1>2. job[r].container \in Container /\ NameOf(job[r].container) = job[r].name /\ job[r].kind = "make" /\ job[r].phase \in Past
  BY <1>1, Shapely DEF Past
<1>3. Works(r, job[r].name)
  BY <1>2 DEF Works
<1>4. Sound(job[r].name)
  BY DEF AllSound
<1>5. containers[job[r].container] = "running"
  BY <1>2, <1>3, <1>4 DEF Sound, IsUp, InPhase
<1> QED BY <1>2, <1>5 DEF Live, Exists, AllSound, Jobs, OneOfAName

\* The name of the container that object b stands for.
NameFor(b) == IF b[1] = "eks" THEN b[2] ELSE IF b[1] = "gke" THEN b[2][2] ELSE b[2]

\* Whatever is registered under b already is it, or runs no more.
LEMMA RegisterKeeps ==
  ASSUME AllSound, BackendsNamed, NEW r \in Runner, job[r].phase = "ready", NEW b, Register(b, job[r].container),
         NameFor(b) = job[r].name
  PROVE  /\ DOMAIN backends' = DOMAIN backends \cup {b} /\ backends'[b] = job[r].container
         /\ \A x \in DOMAIN backends : x # b => backends'[x] = backends[x]
         /\ job[r].name \in Calm => \A x \in DOMAIN backends : Live(backends[x]) => backends'[x] = backends[x]
         /\ BackendNamed(b)'
<1>1. /\ DOMAIN backends' = DOMAIN backends \cup {b} /\ backends'[b] = job[r].container
      /\ \A x \in DOMAIN backends : x # b => backends'[x] = backends[x]
  BY DEF Register
<1>2. NameOf(job[r].container) = job[r].name
  BY Shapely DEF AllSound, Jobs, Past
<1>3. job[r].name \in Calm => \A x \in DOMAIN backends : Live(backends[x]) => backends'[x] = backends[x]
  <2> SUFFICES ASSUME job[r].name \in Calm, b \in DOMAIN backends, Live(backends[b]) PROVE backends[b] = job[r].container
    BY <1>1
  <2>1. NameOf(backends[b]) = job[r].name
    BY DEF BackendsNamed, BackendNamed, NameFor
  <2>2. backends[b] \in Container
    BY DEF AllSound, PortsInv, EngineInv, HeldHaveRun, Held
  <2> QED BY <2>1, <2>2, Readied
<1> QED BY <1>1, <1>2, <1>3 DEF BackendNamed, NameFor

\* The list of compute is that of the instances, the others are those of the objects.
LEMMA KeptByObjects ==
  ASSUME \A k \in DOMAIN store : k[1] # "gce",
         \A b \in DOMAIN backends : \A d \in Container : d = backends[b] /\ Live(d) /\ NameOf(d) \in Calm' =>
           (b \in DOMAIN backends' /\ backends'[b] = d) \/ Doomed(d)'
  PROVE  KeptOn
<1> SUFFICES ASSUME NEW d \in Container, Live(d), NameOf(d) \in Calm', NEW s, d \in ListToShut(s)
             PROVE  d \in ListToShut(s)' \/ Doomed(d)'
  BY DEF KeptOn
<1>1. s # "compute"
  BY DEF ListToShut
<1>2. PICK b \in DOMAIN backends : b[1] = s /\ backends[b] = d
  BY <1>1 DEF ListToShut
<1>3. CASE b \in DOMAIN backends' /\ backends'[b] = d
  BY <1>1, <1>2, <1>3 DEF ListToShut
<1>4. CASE Doomed(d)'
  BY <1>4
<1> QED BY <1>2, <1>3, <1>4
-----------------------------------------------------------------------------
(* How a handler takes up a job, keeps it and ends it.                      *)

LEMMA Remains ==
  ASSUME NEW h, HandlerCtx(h), UNCHANGED <<job, trouble>>, KeptOn, job[h].phase \notin Downs
  PROVE  HandlerMoves(h, job[h]) /\ job'[h] = job[h]
<1>1. OnlyJob(h, job[h]) /\ h \in Runner /\ JobShape(h)
  BY HandlerNow DEF OnlyJob
<1>2. HandedOver(h)
  BY <1>1 DEF HandedOver, InHand
<1> QED BY <1>1, <1>2 DEF HandlerMoves, JobMoves, GoodJob, JobShape, NoJob, HandlerCtx

LEMMA Ends ==
  ASSUME NEW h, HandlerCtx(h), EndJob(h), trouble' = trouble, KeptOn, HandedOver(h), job[h].phase \notin Downs
  PROVE  HandlerMoves(h, NoJob) /\ job'[h] = NoJob
<1>1. OnlyJob(h, NoJob) /\ h \in Runner
  BY HandlerNow, EndJobOnly
<1>2. JobShape(h)'
  BY <1>1 DEF OnlyJob, JobShape, NoJob, Kinds, Past
<1> QED BY <1>1, <1>2 DEF HandlerMoves, JobMoves, GoodJob, OnlyJob, HandlerCtx

LEMMA TakesUp ==
  ASSUME NEW h, HandlerCtx(h), UNCHANGED <<store, maps, backends>>,
         NEW kind, NEW n \in Resource, NEW phase, NEW c, TakeJob(h, kind, n, phase, c),
         \/ kind = "make" /\ phase \in {"allocate", "create"}
         \/ kind = "unmake" /\ phase \in {"idle", "stopIt"} /\ c \in Container /\ NameOf(c) = n
         \/ kind \in {"start", "halt"} /\ phase = "switch" /\ c \in Container /\ NameOf(c) = n
  PROVE  /\ HandlerMoves(h, NewJob(kind, n, phase, c)) /\ job[h] = NoJob
         /\ job'[h] = NewJob(kind, n, phase, c)
<1>1. h \in Runner /\ EngineInv
  BY HandlerNow
<1>2. OnlyJob(h, NewJob(kind, n, phase, c)) /\ job[h] = NoJob
  BY <1>1, TakeJobOnly DEF TakeJob
<1>3. job'[h] = NewJob(kind, n, phase, c)
  BY <1>1, <1>2 DEF OnlyJob
<1>4. JobShape(h)'
  BY <1>3 DEF JobShape, NewJob, Kinds, Past, Downs
<1>5. \A q \in Runner \ {h} : Works(q, n) /\ job[q].kind # kind => n \in trouble'
  BY DEF TakeJob, Others, Works
<1>6. GoodJob(h, NewJob(kind, n, phase, c))
  <2>1. /\ NewJob(kind, n, phase, c).kind = kind /\ NewJob(kind, n, phase, c).name = n
        /\ NewJob(kind, n, phase, c).phase = phase
    BY DEF NewJob
  <2>2. kind # "none" /\ phase \notin Past \cup {"closed"}
    BY DEF Past
  <2> QED BY <1>2, <1>5, <2>1, <2>2 DEF GoodJob
<1>7. KeptOn
  BY ShutsSame DEF HandlerCtx
<1>8. job[h].phase \notin Downs \cup {"wait", "ready"}
  BY <1>2 DEF NoJob, Downs
<1>9. HandedOver(h)
  BY <1>8 DEF HandedOver
<1>10. trouble \subseteq trouble'
  BY DEF TakeJob
<1> QED BY <1>2, <1>3, <1>4, <1>6, <1>7, <1>8, <1>9, <1>10 DEF HandlerMoves, JobMoves, HandlerCtx

\* The others, and their requests, are where they were.
LEMMA OthersStay ==
  ASSUME NEW h, NEW j, HandlerMoves(h, j), NEW op, NEW key, NEW field, NEW copy, ReqIs(h, op, key, field, copy)
  PROVE  /\ h \in Handler /\ h \in Runner /\ job'[h] = j /\ Calm' \subseteq Calm
         /\ \A g \in Handler \ {h} : job'[g] = job[g] /\ Key(g)' = Key(g) /\ g \in Runner
         /\ \A g \in Handler \ {h} : \A n : Works(g, n)' <=> Works(g, n)
         /\ \A g \in Handler \ {h} : \A p : (At(g, p)' <=> At(g, p)) /\ (InPhase(g, p)' <=> InPhase(g, p))
         /\ Key(h)' = key
<1>1. \A g \in Handler : g \in Runner
  BY Constants
<1>2. job'[h] = j /\ \A g \in Handler \ {h} : job'[g] = job[g]
  BY <1>1 DEF HandlerMoves, JobMoves, OnlyJob
<1> QED BY <1>1, <1>2 DEF HandlerMoves, JobMoves, ReqIs, Key, Works, At, InPhase, Calm
-----------------------------------------------------------------------------
(* Clusters.                                                                *)

LEMMA ClusterGoes ==
  ASSUME NEW h, HandlerCtx(h), workload = "clusters", NEW j, HandlerMoves(h, j),
         NEW op, NEW key, NEW field, NEW copy, ReqIs(h, op, key, field, copy),
         Shapes', ClusterJob(h)', BackendsNamed',
         \A n \in Calm : Up /\ Matching(n) /\ Sound(n) => Claims(n)' \subseteq Claims(n) /\ ObjectsRun(n)' /\ RecordsMatch(n)'
  PROVE  AccountsInv'
<1> USE DEF HandlerCtx, AccountsInv
<1>1. StaySound
  BY HandlerSound, HandlerNow
<1>2. ServerJobs' /\ Shutting'
  BY HandlerShuts
<1>3. \A g \in Handler : ClusterJob(g)'
  <2> TAKE g \in Handler
  <2>1. CASE g # h
    <3>1. ClusterJob(g)
      BY DEF Linked
    <3> QED BY <2>1, <3>1, OthersStay DEF ClusterJob
  <2> QED BY <2>1
<1>4. Linked' /\ Instances'
  BY <1>3 DEF Linked, Instances
<1>5. Up' => \A n \in Calm' : Matching(n)'
  <2> SUFFICES ASSUME Up', NEW n \in Calm' PROVE Matching(n)'
    OBVIOUS
  <2>1. n \in Calm /\ Up
    BY OthersStay, HandlerNow DEF Up
  <2>2. Claims(n)' \subseteq Claims(n) /\ ObjectsRun(n)' /\ RecordsMatch(n)'
    BY <2>1
  <2> QED BY <2>1, <2>2 DEF Matching, OneCluster
<1> QED BY <1>1, <1>2, <1>4, <1>5 DEF StaySound

LEMMA ClaimsStay ==
  ASSUME NEW h, NEW j, HandlerMoves(h, j), NEW op, NEW key, NEW field, NEW copy, ReqIs(h, op, key, field, copy), NEW n,
         \A k \in DOMAIN store' : Named(k) = n => k \in Claims(n),
         \A k \in ClusterKeys : BackendOf(k) \in DOMAIN backends' /\ Named(k) = n => k \in Claims(n),
         j.name = n /\ (j.kind = "unmake" \/ j.phase \in Past) => key \in Claims(n)
  PROVE  Claims(n)' \subseteq Claims(n)
<1> SUFFICES ASSUME NEW k \in Claims(n)' PROVE k \in Claims(n)
  OBVIOUS
<1>1. CASE k \in DOMAIN store' /\ Named(k) = n
  BY <1>1
<1>2. CASE k \in ClusterKeys /\ BackendOf(k) \in DOMAIN backends' /\ Named(k) = n
  BY <1>2
<1>3. ASSUME NEW g \in Handler, k = Key(g)', Works(g, n)', job'[g].kind = "unmake" \/ job'[g].phase \in Past
      PROVE  k \in Claims(n)
  <2>1. CASE g = h
    BY <1>3, <2>1, OthersStay DEF Works
  <2>2. CASE g # h
    <3>1. k = Key(g) /\ Works(g, n) /\ (job[g].kind = "unmake" \/ job[g].phase \in Past)
      BY <1>3, <2>2, OthersStay
    <3> QED BY <3>1 DEF Claims
  <2> QED BY <2>1, <2>2
<1> QED BY <1>1, <1>2, <1>3 DEF Claims

\* Nothing registered is taken down, and no job taken up but to begin with.
LEMMA ObjectsStay ==
  ASSUME NEW h, HandlerCtx(h), NEW j, HandlerMoves(h, j), NEW op, NEW key, NEW field, NEW copy, ReqIs(h, op, key, field, copy),
         NEW n, ObjectsRun(n), backends' = backends,
         j.kind = "unmake" => j.phase = "idle" \/ j = job[h]
  PROVE  ObjectsRun(n)'
<1>1. \A b \in DOMAIN backends : Live(backends[b])' <=> Live(backends[b])
  BY DEF HandlerCtx, Live
<1>2. \A b \in DOMAIN backends' : backends'[b] = backends[b]
  OBVIOUS
<1>3. \A b \in DOMAIN backends : b[1] \in {"eks", "gke"} /\ NameOf(backends[b]) = n =>
        \A g \in Handler : Works(g, n)' /\ job'[g].kind = "unmake" => InPhase(g, "idle")'
  <2> TAKE b \in DOMAIN backends
  <2> HAVE b[1] \in {"eks", "gke"} /\ NameOf(backends[b]) = n
  <2> TAKE g \in Handler
  <2> HAVE Works(g, n)' /\ job'[g].kind = "unmake"
  <2>1. CASE g # h
    BY <2>1, OthersStay DEF ObjectsRun
  <2>2. CASE g = h
    BY <2>2, OthersStay DEF ObjectsRun, InPhase, Works
  <2> QED BY <2>1, <2>2
<1> QED BY <1>1, <1>2, <1>3 DEF ObjectsRun, Live

LEMMA RecordsStay ==
  ASSUME NEW h, HandlerCtx(h), NEW j, HandlerMoves(h, j), NEW op, NEW key, NEW field, NEW copy, ReqIs(h, op, key, field, copy),
         NEW n, RecordsMatch(n),
         \A k \in DOMAIN store' : \A c \in maps'[store'[k].map] : NameOf(c) = n =>
           \/ k \in DOMAIN store /\ store'[k] = store[k] /\ c \in maps[store[k].map]
           \/ containers[c] = IF store'[k].status = "stopped" THEN "paused" ELSE "running",
         n = job[h].name /\ (job[h].kind = "unmake" \/ InPhase(h, "switched")) =>
           j = job[h] \/ (j.kind = "unmake" /\ j.name = n)
             \/ \A k \in DOMAIN store' : \A c \in maps'[store'[k].map] : NameOf(c) # n
  PROVE  RecordsMatch(n)'
<1> SUFFICES ASSUME NEW k \in DOMAIN store', NEW c \in maps'[store'[k].map], NameOf(c) = n
             PROVE  \/ containers'[c] = IF store'[k].status = "stopped" THEN "paused" ELSE "running"
                    \/ \E g \in Handler : Works(g, n)' /\ (job'[g].kind = "unmake" \/ InPhase(g, "switched")')
  BY DEF RecordsMatch
<1>1. containers'[c] = containers[c]
  BY DEF HandlerCtx
<1>2. CASE k \in DOMAIN store /\ store'[k] = store[k] /\ c \in maps[store[k].map]
  <2>1. \/ containers[c] = IF store[k].status = "stopped" THEN "paused" ELSE "running"
        \/ \E g \in Handler : Works(g, n) /\ (job[g].kind = "unmake" \/ InPhase(g, "switched"))
    BY <1>2 DEF RecordsMatch
  <2>2. ASSUME NEW g \in Handler, Works(g, n), job[g].kind = "unmake" \/ InPhase(g, "switched")
        PROVE  Works(g, n)' /\ (job'[g].kind = "unmake" \/ InPhase(g, "switched")')
    <3>1. CASE g # h
      BY <2>2, <3>1, OthersStay
    <3>2. CASE g = h
      BY <2>2, <3>2, OthersStay DEF Works, InPhase
    <3> QED BY <3>1, <3>2
  <2> QED BY <1>1, <1>2, <2>1, <2>2
<1> QED BY <1>1, <1>2

LEMMA ClusterNow ==
  ASSUME NEW h, HandlerCtx(h), workload = "clusters"
  PROVE  /\ Shapes /\ ReqShape /\ ClusterJob(h) /\ Keys = ClusterKeys /\ Keys' = ClusterKeys
         /\ \A k \in DOMAIN store : k \in ClusterKeys /\ k[1] # "gce" /\ Rec(store[k])
         /\ BackendsNamed /\ h \in Handler
<1>1. Shapes /\ ClusterJob(h)
  BY DEF HandlerCtx, AccountsInv, Linked
<1>2. Keys = ClusterKeys /\ Keys' = ClusterKeys
  BY DEF Keys, HandlerCtx
<1>3. \A k \in DOMAIN store : k \in ClusterKeys /\ k[1] # "gce" /\ Rec(store[k])
  BY <1>1, <1>2, KeysNamed DEF Shapes, NamesMatch
<1> QED BY <1>1, <1>2, <1>3 DEF Shapes, HandlerCtx, AccountsInv

LEMMA BackendsSame ==
  ASSUME NEW h, HandlerCtx(h), backends' = backends
  PROVE  BackendsNamed'
  BY HandlerNow DEF BackendsNamed, BackendNamed, HandlerCtx, AccountsInv

LEMMA MakeBegins ==
  ASSUME NEW h, HandlerCtx(h), workload = "clusters", NEW k \in ClusterKeys, backends' = backends,
         Begin(h, "createCluster", SubjectOf(k), [key |-> k]),
         TakeJob(h, "make", ContainerName(k), "allocate", NoContainer)
  PROVE  AccountsInv'
<1>1. Shapes /\ ReqShape /\ h \in Handler
  BY ClusterNow
<1>2. UNCHANGED <<store, maps>> /\ Enter(h, "createCluster", SubjectOf(k), [key |-> k]) /\ UNCHANGED workload
  BY DEF Begin, HandlerCtx
<1>3. ReqIs(h, "createCluster", k, "none", Blank)
  BY <1>1, <1>2, EnterKey
<1>4. PICK n \in Resource : n = ContainerName(k)
  BY ClusterNames
<1>5. PICK j : j = NewJob("make", n, "allocate", NoContainer)
  OBVIOUS
<1>6. HandlerMoves(h, j) /\ job'[h] = j /\ job[h] = NoJob
  BY <1>2, <1>4, <1>5, TakesUp
<1>7. Shapes'
  BY <1>1, <1>2, <1>3, ShapesAsk
<1>8. j.kind = "make" /\ j.name = n /\ j.phase = "allocate"
  BY <1>5 DEF NewJob
<1>9. ClusterJob(h)'
  BY <1>3, <1>4, <1>6, <1>8 DEF ClusterJob, ReqIs, Key, At
<1>10. BackendsNamed'
  BY BackendsSame
<1>11. ASSUME NEW m \in Calm, Matching(m) PROVE Claims(m)' \subseteq Claims(m) /\ ObjectsRun(m)' /\ RecordsMatch(m)'
  <2>1. Claims(m)' \subseteq Claims(m)
    <3>1. \A l \in DOMAIN store' : Named(l) = m => l \in Claims(m)
      BY <1>2 DEF Claims
    <3>2. \A l \in ClusterKeys : BackendOf(l) \in DOMAIN backends' /\ Named(l) = m => l \in Claims(m)
      BY DEF Claims
    <3>3. ~(j.kind = "unmake" \/ j.phase \in Past)
      BY <1>8 DEF Past
    <3> QED BY <1>3, <1>6, <3>1, <3>2, <3>3, ClaimsStay
  <2>2. ObjectsRun(m)'
    BY <1>3, <1>6, <1>8, <1>11, ObjectsStay DEF Matching
  <2>3. RecordsMatch(m)'
    BY <1>2, <1>3, <1>6, <1>11, RecordsStay DEF Matching, NoJob, InPhase
  <2> QED BY <2>1, <2>2, <2>3
<1> QED BY <1>3, <1>6, <1>7, <1>9, <1>10, <1>11, ClusterGoes

LEMMA MakeFails ==
  ASSUME NEW h, HandlerCtx(h), workload = "clusters", At(h, "createCluster"), InPhase(h, "failed"),
         NEW promise, Answer(h, promise), EndJob(h), UNCHANGED <<store, maps, trouble, backends>>
  PROVE  AccountsInv'
<1>1. Shapes /\ ReqShape /\ h \in Handler /\ ClusterJob(h)
  BY ClusterNow
<1>2. UNCHANGED workload
  BY DEF HandlerCtx
<1>3. ReqIs(h, "idle", NoKey, "none", Blank)
  BY <1>1, AnswerIs
<1>4. job[h].kind = "make"
  BY <1>1 DEF ClusterJob, At
<1>5. HandlerMoves(h, NoJob) /\ job'[h] = NoJob
  <2>1. KeptOn
    BY <1>2, ShutsSame
  <2>2. job[h].phase \notin Downs /\ HandedOver(h)
    BY DEF InPhase, Downs, HandedOver
  <2> QED BY <2>1, <2>2, Ends
<1>6. Shapes'
  BY <1>1, <1>2, <1>3, ShapesAsk
<1>7. ClusterJob(h)'
  BY <1>3, <1>5 DEF ClusterJob, ReqIs, At
<1>8. BackendsNamed'
  BY BackendsSame
<1>9. ASSUME NEW m \in Calm, Matching(m) PROVE Claims(m)' \subseteq Claims(m) /\ ObjectsRun(m)' /\ RecordsMatch(m)'
  <2>1. Claims(m)' \subseteq Claims(m)
    <3>1. \A l \in DOMAIN store' : Named(l) = m => l \in Claims(m)
      BY DEF Claims
    <3>2. \A l \in ClusterKeys : BackendOf(l) \in DOMAIN backends' /\ Named(l) = m => l \in Claims(m)
      BY DEF Claims
    <3>3. ~(NoJob.kind = "unmake" \/ NoJob.phase \in Past)
      BY DEF Past, NoJob
    <3> QED BY <1>3, <1>5, <3>1, <3>2, <3>3, ClaimsStay
  <2>2. ObjectsRun(m)'
    BY <1>3, <1>5, <1>9, ObjectsStay DEF Matching, NoJob
  <2>3. RecordsMatch(m)'
    BY <1>3, <1>4, <1>5, <1>9, RecordsStay DEF Matching, InPhase
  <2> QED BY <2>1, <2>2, <2>3
<1> QED BY <1>3, <1>5, <1>6, <1>7, <1>8, <1>9, ClusterGoes

\* What is ready belongs to the request's name.
LEMMA ClusterReady ==
  ASSUME NEW h, HandlerCtx(h), workload = "clusters", req[h].op \in {"createCluster", "register"}, InPhase(h, "ready")
  PROVE  /\ Key(h) \in ClusterKeys /\ Key(h) \in Keys /\ job[h].name = Named(Key(h)) /\ job[h].kind = "make"
         /\ job[h].container \in Container /\ NameOf(job[h].container) = Named(Key(h))
         /\ Named(Key(h)) = NameFor(BackendOf(Key(h))) /\ Key(h) \in Claims(Named(Key(h)))
<1>1. ClusterJob(h) /\ Keys = ClusterKeys /\ h \in Handler
  BY ClusterNow
<1>2. Key(h) \in ClusterKeys /\ job[h].name = ContainerName(Key(h)) /\ job[h].kind = "make"
  BY <1>1 DEF ClusterJob, At
<1>3. job[h].container \in Container /\ NameOf(job[h].container) = job[h].name
  BY HandlerNow, Shapely DEF InPhase, Past
<1>4. NameFor(BackendOf(Key(h))) = ContainerName(Key(h)) /\ Named(Key(h)) = ContainerName(Key(h))
  BY <1>2, KeysNamed DEF NameFor, BackendOf, ContainerName, ServiceOf
<1>5. Works(h, Named(Key(h))) /\ job[h].phase \in Past
  BY <1>2, <1>4 DEF Works, InPhase, Past
<1> QED BY <1>1, <1>2, <1>3, <1>4, <1>5 DEF Claims

LEMMA MakeRecords ==
  ASSUME NEW h, HandlerCtx(h), workload = "clusters", At(h, "createCluster"), InPhase(h, "ready"),
         PutNew(Key(h), {job[h].container}), Goto(h, "register"), UNCHANGED <<job, trouble, backends>>
  PROVE  AccountsInv'
<1>1. Shapes /\ ReqShape /\ h \in Handler /\ ClusterJob(h) /\ Keys = ClusterKeys
  BY ClusterNow
<1>2. UNCHANGED workload
  BY DEF HandlerCtx
<1>3. ReqIs(h, "register", req[h].key, req[h].field, req[h].copy)
  BY <1>1, GotoIs
<1>4. PICK k, c : k = Key(h) /\ c = job[h].container
  OBVIOUS
<1>5. /\ k \in ClusterKeys /\ k \in Keys /\ job[h].name = Named(k) /\ job[h].kind = "make"
      /\ c \in Container /\ NameOf(c) = Named(k) /\ k \in Claims(Named(k))
  BY <1>4, ClusterReady DEF At
<1>6. /\ DOMAIN store' = DOMAIN store \cup {k}
      /\ store'[k].status = "available" /\ maps'[store'[k].map] = {c}
      /\ \A l \in DOMAIN store \ {k} : store'[l] = store[l] /\ maps'[store[l].map] = maps[store[l].map]
  BY <1>1, <1>4, PutNewIs, NewRecordIs
<1>7. HandlerMoves(h, job[h]) /\ job'[h] = job[h]
  <2>1. KeptOn
    <3>1. \A l \in DOMAIN store : l[1] # "gce"
      BY ClusterNow
    <3> QED BY <3>1, KeptByObjects
  <2>2. job[h].phase \notin Downs
    BY DEF InPhase, Downs
  <2> QED BY <2>1, <2>2, Remains
<1>8. Shapes'
  BY <1>1, <1>2, <1>3, <1>4, <1>5, ShapesPutNew
<1>9. ClusterJob(h)'
  BY <1>3, <1>4, <1>5, <1>7, KeysNamed DEF ClusterJob, ReqIs, At, Key, InPhase
<1>10. BackendsNamed'
  BY BackendsSame
<1>11. ASSUME NEW m \in Calm, Matching(m) PROVE Claims(m)' \subseteq Claims(m) /\ ObjectsRun(m)' /\ RecordsMatch(m)'
  <2>1. Claims(m)' \subseteq Claims(m)
    <3>1. \A l \in DOMAIN store' : Named(l) = m => l \in Claims(m)
      BY <1>5, <1>6 DEF Claims
    <3>2. \A l \in ClusterKeys : BackendOf(l) \in DOMAIN backends' /\ Named(l) = m => l \in Claims(m)
      BY DEF Claims
    <3>3. job[h].name = m => req[h].key \in Claims(m)
      BY <1>4, <1>5 DEF Key
    <3> QED BY <1>3, <1>7, <3>1, <3>2, <3>3, ClaimsStay
  <2>2. ObjectsRun(m)'
    BY <1>3, <1>7, <1>11, ObjectsStay DEF Matching
  <2>3. RecordsMatch(m)'
    <3>1. m = Named(k) => containers[c] = "running"
      BY <1>4, <1>5, HandlerNow, Readied DEF InPhase
    <3>2. \A l \in DOMAIN store' : \A d \in maps'[store'[l].map] : NameOf(d) = m =>
            \/ l \in DOMAIN store /\ store'[l] = store[l] /\ d \in maps[store[l].map]
            \/ containers[d] = IF store'[l].status = "stopped" THEN "paused" ELSE "running"
      BY <1>5, <1>6, <3>1
    <3>3. RecordsMatch(m)
      BY <1>11 DEF Matching
    <3> QED BY <1>3, <1>7, <3>2, <3>3, RecordsStay
  <2> QED BY <2>1, <2>2, <2>3
<1> QED BY <1>3, <1>7, <1>8, <1>9, <1>10, <1>11, ClusterGoes

LEMMA MakeRegisters ==
  ASSUME NEW h, HandlerCtx(h), workload = "clusters", At(h, "register"),
         Register(BackendOf(Key(h)), job[h].container), NEW promise, Answer(h, promise), EndJob(h),
         UNCHANGED <<store, maps, trouble>>
  PROVE  AccountsInv'
<1>1. Shapes /\ ReqShape /\ h \in Handler /\ ClusterJob(h) /\ BackendsNamed
  BY ClusterNow
<1>2. UNCHANGED workload /\ AllSound /\ h \in Runner /\ Calm' \subseteq Calm
  BY HandlerNow DEF HandlerCtx
<1>3. ReqIs(h, "idle", NoKey, "none", Blank)
  BY <1>1, AnswerIs
<1>0. job[h].phase = "ready"
  BY <1>1 DEF ClusterJob, At, InPhase
<1>4. PICK k, c, b : k = Key(h) /\ c = job[h].container /\ b = BackendOf(Key(h))
  OBVIOUS
<1>5. /\ k \in ClusterKeys /\ job[h].name = Named(k) /\ job[h].kind = "make"
      /\ c \in Container /\ NameOf(c) = Named(k) /\ k \in Claims(Named(k)) /\ NameFor(b) = Named(k)
  BY <1>0, <1>4, ClusterReady DEF At, InPhase
<1>6. /\ DOMAIN backends' = DOMAIN backends \cup {b} /\ backends'[b] = c
      /\ \A x \in DOMAIN backends : x # b => backends'[x] = backends[x]
      /\ Named(k) \in Calm => \A x \in DOMAIN backends : Live(backends[x]) => backends'[x] = backends[x]
      /\ BackendNamed(b)'
  BY <1>0, <1>1, <1>2, <1>4, <1>5, RegisterKeeps
<1>7. HandlerMoves(h, NoJob) /\ job'[h] = NoJob
  <2>1. KeptOn
    <3>1. \A l \in DOMAIN store : l[1] # "gce"
      BY ClusterNow
    <3>2. ASSUME NEW x \in DOMAIN backends, NEW d \in Container, d = backends[x], Live(d), NameOf(d) \in Calm'
          PROVE  x \in DOMAIN backends' /\ backends'[x] = d
      <4>1. x = b => NameOf(d) = Named(k)
        BY <1>1, <1>5, <3>2 DEF BackendsNamed, BackendNamed, NameFor
      <4> QED BY <1>2, <1>6, <3>2, <4>1
    <3> QED BY <3>1, <3>2, KeptByObjects
  <2>2. job[h].phase \notin Downs
    BY <1>0 DEF Downs
  <2>3. HandedOver(h)
    <3>1. b \in DOMAIN backends' /\ b[1] \in {"eks", "gke"}
      BY <1>4, <1>5, <1>6, KeysNamed DEF BackendOf, ServiceOf
    <3>2. PICK s \in {"eks", "gke"} : b[1] = s
      BY <3>1
    <3>3. c \in ListToShut(s)'
      BY <1>6, <3>1, <3>2 DEF ListToShut
    <3>4. workload \in Workloads
      BY <1>1 DEF BackendsNamed
    <3>5. s \in Services'
      BY <1>2, <3>2, <3>4, RegistrationAssumption DEF Services
    <3>6. Kept(c)'
      BY <3>3, <3>5 DEF Kept
    <3> QED BY <1>4, <3>6 DEF HandedOver
  <2> QED BY <2>1, <2>2, <2>3, Ends
<1>8. Shapes'
  BY <1>1, <1>2, <1>3, ShapesAsk
<1>9. ClusterJob(h)'
  BY <1>3, <1>7 DEF ClusterJob, ReqIs, At
<1>10. BackendsNamed'
  <2>1. \A x \in DOMAIN backends' : BackendNamed(x)'
    <3> TAKE x \in DOMAIN backends'
    <3>1. CASE x = b
      BY <1>6, <3>1
    <3>2. CASE x # b
      <4>1. x \in DOMAIN backends /\ backends'[x] = backends[x]
        BY <1>6, <3>2
      <4> QED BY <1>1, <4>1 DEF BackendsNamed, BackendNamed
    <3> QED BY <3>1, <3>2
  <2>2. \A x \in DOMAIN backends' : x[1] \in {"eks", "gke"} => workload' = "clusters" /\ \E l \in ClusterKeys : x = BackendOf(l)
    BY <1>1, <1>2, <1>4, <1>5, <1>6 DEF BackendsNamed
  <2>3. server'.left \subseteq Container /\ workload' \in Workloads
    BY <1>1, <1>2, HandlerNow DEF BackendsNamed
  <2> QED BY <2>1, <2>2, <2>3 DEF BackendsNamed
<1>11. ASSUME NEW m \in Calm, Matching(m), Sound(m) PROVE Claims(m)' \subseteq Claims(m) /\ ObjectsRun(m)' /\ RecordsMatch(m)'
  <2>1. Claims(m)' \subseteq Claims(m)
    <3>1. \A l \in DOMAIN store' : Named(l) = m => l \in Claims(m)
      BY DEF Claims
    <3>2. \A l \in ClusterKeys : BackendOf(l) \in DOMAIN backends' /\ Named(l) = m => l \in Claims(m)
      <4> TAKE l \in ClusterKeys
      <4> HAVE BackendOf(l) \in DOMAIN backends' /\ Named(l) = m
      <4>1. CASE BackendOf(l) = b
        BY <1>4, <1>5, <4>1, KeysNamed
      <4>2. CASE BackendOf(l) # b
        BY <1>6, <4>2 DEF Claims
      <4> QED BY <4>1, <4>2
    <3>3. ~(NoJob.kind = "unmake" \/ NoJob.phase \in Past)
      BY DEF Past, NoJob
    <3> QED BY <1>3, <1>7, <3>1, <3>2, <3>3, ClaimsStay
  <2>2. ObjectsRun(m)'
    <3> SUFFICES ASSUME NEW x \in DOMAIN backends', x[1] \in {"eks", "gke"}, NameOf(backends'[x]) = m
                 PROVE  /\ Live(backends[x])'
                        /\ \A g \in Handler : Works(g, m)' /\ job'[g].kind = "unmake" => InPhase(g, "idle")'
      BY DEF ObjectsRun
    <3>0. containers' = containers
      BY DEF HandlerCtx
    <3>1. CASE x = b
      <4>1. m = Named(k) /\ Live(c)
        BY <1>0, <1>2, <1>4, <1>5, <1>6, <3>1, Readied
      <4>2. \A g \in Runner : Works(g, m) => job[g].kind = "make"
        BY <1>2, <1>5, <1>11, <4>1 DEF Sound, Agree, Works
      <4>3. \A g \in Handler : ~(Works(g, m)' /\ job'[g].kind = "unmake")
        BY <1>3, <1>7, <4>2, OthersStay DEF Works, NoJob
      <4> QED BY <1>6, <3>0, <3>1, <4>1, <4>3 DEF Live
    <3>2. CASE x # b
      <4>1. x \in DOMAIN backends /\ backends'[x] = backends[x]
        BY <1>6, <3>2
      <4>2. Live(backends[x]) /\ \A g \in Handler : Works(g, m) /\ job[g].kind = "unmake" => InPhase(g, "idle")
        BY <1>11, <4>1 DEF Matching, ObjectsRun
      <4>3. \A g \in Handler : Works(g, m)' /\ job'[g].kind = "unmake" => InPhase(g, "idle")'
        BY <1>3, <1>7, <4>2, OthersStay DEF Works, NoJob
      <4> QED BY <3>0, <4>1, <4>2, <4>3 DEF Live
    <3> QED BY <3>1, <3>2
  <2>3. RecordsMatch(m)'
    BY <1>0, <1>3, <1>5, <1>7, <1>11, RecordsStay DEF Matching, InPhase
  <2> QED BY <2>1, <2>2, <2>3
<1> QED BY <1>3, <1>7, <1>8, <1>9, <1>10, <1>11, ClusterGoes

LEMMA UnmakeBegins ==
  ASSUME NEW h, HandlerCtx(h), workload = "clusters", NEW k \in DOMAIN store, backends' = backends,
         Begin(h, "deleteCluster", SubjectOf(k), [key |-> k, copy |-> store[k]]),
         TakeJob(h, "unmake", ContainerName(k), "idle", ContainerOf(store[k]))
  PROVE  AccountsInv'
<1>1. Shapes /\ ReqShape /\ h \in Handler /\ k \in ClusterKeys /\ Rec(store[k])
  BY ClusterNow
<1>2. UNCHANGED <<store, maps>> /\ Enter(h, "deleteCluster", SubjectOf(k), [key |-> k, copy |-> store[k]]) /\ UNCHANGED workload
  BY DEF Begin, HandlerCtx
<1>3. ReqIs(h, "deleteCluster", k, "none", store[k])
  BY <1>1, <1>2, EnterCopy
<1>4. PICK n \in Resource : n = ContainerName(k) /\ n = Named(k)
  BY <1>1, ClusterNames, KeysNamed
<1>5. PICK c \in Container : NameOf(c) = n /\ c = ContainerOf(store[k])
  BY <1>1, <1>4, ItsOwn DEF Owns
<1>6. PICK j : j = NewJob("unmake", n, "idle", c)
  OBVIOUS
<1>7. HandlerMoves(h, j) /\ job'[h] = j /\ job[h] = NoJob
  BY <1>2, <1>4, <1>5, <1>6, TakesUp
<1>8. Shapes'
  BY <1>1, <1>2, <1>3, ShapesAsk
<1>9. j.kind = "unmake" /\ j.name = n /\ j.phase = "idle"
  BY <1>6 DEF NewJob
<1>10. ClusterJob(h)'
  BY <1>1, <1>3, <1>4, <1>7, <1>9 DEF ClusterJob, ReqIs, Key, At, InPhase
<1>11. BackendsNamed'
  BY BackendsSame
<1>12. ASSUME NEW m \in Calm, Matching(m) PROVE Claims(m)' \subseteq Claims(m) /\ ObjectsRun(m)' /\ RecordsMatch(m)'
  <2>1. Claims(m)' \subseteq Claims(m)
    <3>1. \A l \in DOMAIN store' : Named(l) = m => l \in Claims(m)
      BY <1>2 DEF Claims
    <3>2. \A l \in ClusterKeys : BackendOf(l) \in DOMAIN backends' /\ Named(l) = m => l \in Claims(m)
      BY DEF Claims
    <3>3. j.name = m => k \in Claims(m)
      BY <1>4, <1>9 DEF Claims
    <3> QED BY <1>3, <1>7, <3>1, <3>2, <3>3, ClaimsStay
  <2>2. ObjectsRun(m)'
    BY <1>3, <1>7, <1>9, <1>12, ObjectsStay DEF Matching
  <2>3. RecordsMatch(m)'
    BY <1>2, <1>3, <1>7, <1>12, RecordsStay DEF Matching, NoJob, InPhase
  <2> QED BY <2>1, <2>2, <2>3
<1> QED BY <1>3, <1>7, <1>8, <1>10, <1>11, <1>12, ClusterGoes

\* The object that is taken out of the map is h's to shut down;  there is no other
\* of the name, since one cluster has it.
LEMMA UnmakeGoesOn ==
  ASSUME NEW h, HandlerCtx(h), workload = "clusters", At(h, "deleteCluster"), Goto(h, "dropCluster"),
         UNCHANGED <<store, maps, trouble>>, NEW b, b = BackendOf(Key(h)),
         \/ /\ b \in DOMAIN backends /\ Forget(b)
            /\ job' = [job EXCEPT ![h].phase = "stop", ![h].container = backends[b]]
         \/ b \notin DOMAIN backends /\ To(h, "stopIt") /\ UNCHANGED backends
  PROVE  AccountsInv'
<1>1. Shapes /\ ReqShape /\ h \in Handler /\ ClusterJob(h) /\ BackendsNamed
  BY ClusterNow
<1>2. UNCHANGED workload /\ EngineInv /\ h \in Runner /\ JobShape(h)
  BY HandlerNow DEF HandlerCtx
<1>3. ReqIs(h, "dropCluster", req[h].key, req[h].field, req[h].copy)
  BY <1>1, GotoIs
<1>4. /\ job[h].kind = "unmake" /\ job[h].phase = "idle"
      /\ Key(h) \in ClusterKeys /\ job[h].name = ContainerName(Key(h)) /\ job[h].name = Named(Key(h))
      /\ job[h].container \in Container /\ NameOf(job[h].container) = job[h].name
  BY <1>1, <1>2, KeysNamed, Shapely DEF ClusterJob, At, InPhase
<1>5. /\ DOMAIN backends' \subseteq DOMAIN backends \ {b}
      /\ \A x \in DOMAIN backends : x # b => x \in DOMAIN backends' /\ backends'[x] = backends[x]
  BY DEF Forget, Restrict
<1>6. b \in DOMAIN backends => backends[b] \in Container /\ NameOf(backends[b]) = job[h].name
  <2>1. b \in DOMAIN backends => backends[b] \in Container
    BY <1>2 DEF EngineInv, HeldHaveRun, Held
  <2>2. b \in DOMAIN backends => NameOf(backends[b]) = ContainerName(Key(h))
    BY <1>1, <1>4, KeysNamed DEF BackendsNamed, BackendNamed, BackendOf, ServiceOf, ContainerName
  <2> QED BY <1>4, <2>1, <2>2
<1>7. PICK p, c : /\ job'[h] = [kind |-> job[h].kind, name |-> job[h].name, phase |-> p, port |-> job[h].port, container |-> c]
                  /\ OnlyJob(h, job'[h]) /\ c \in Container /\ NameOf(c) = job[h].name
                  /\ p \in {"stop", "stopIt"} /\ (b \in DOMAIN backends => c = backends[b])
  <2>1. CASE b \in DOMAIN backends
    <3>1. PICK c : c = backends[b]
      OBVIOUS
    <3>2. OnlyJob(h, [kind |-> job[h].kind, name |-> job[h].name, phase |-> "stop", port |-> job[h].port, container |-> c])
      BY <1>2, <2>1, <3>1, JobHasContainer
    <3>3. job'[h] = [kind |-> job[h].kind, name |-> job[h].name, phase |-> "stop", port |-> job[h].port, container |-> c]
      BY <1>2, <3>2 DEF OnlyJob
    <3> QED BY <1>6, <2>1, <3>1, <3>2, <3>3
  <2>2. CASE b \notin DOMAIN backends
    <3>1. OnlyJob(h, [kind |-> job[h].kind, name |-> job[h].name, phase |-> "stopIt", port |-> job[h].port, container |-> job[h].container])
      BY <1>2, <2>2, ToOnly
    <3>2. job'[h] = [kind |-> job[h].kind, name |-> job[h].name, phase |-> "stopIt", port |-> job[h].port, container |-> job[h].container]
      BY <1>2, <3>1 DEF OnlyJob
    <3> QED BY <1>4, <2>2, <3>1, <3>2
  <2> QED BY <2>1, <2>2
<1>8. PICK j : j = job'[h]
  OBVIOUS
<1>9. j.kind = "unmake" /\ j.name = job[h].name /\ j.phase = p /\ j.container = c /\ j # NoJob
  BY <1>4, <1>7, <1>8 DEF NoJob
<1>10. JobShape(h)'
  BY <1>4, <1>7, <1>8, <1>9 DEF JobShape, Kinds, Downs, Past
<1>11. HandlerMoves(h, j)
  <2>1. KeptOn
    <3>1. \A l \in DOMAIN store : l[1] # "gce"
      BY ClusterNow
    <3>2. ASSUME NEW x \in DOMAIN backends, NEW d \in Container, d = backends[x]
          PROVE  (x \in DOMAIN backends' /\ backends'[x] = d) \/ Doomed(d)'
      <4>1. CASE x # b
        BY <1>5, <3>2, <4>1
      <4>2. CASE x = b
        BY <1>2, <1>7, <1>8, <1>9, <3>2, <4>2 DEF Doomed, Downs
      <4> QED BY <4>1, <4>2
    <3> QED BY <3>1, <3>2, KeptByObjects
  <2>2. job[h].phase \notin Downs /\ HandedOver(h)
    BY <1>4 DEF Downs, HandedOver
  <2>3. GoodJob(h, j)
    BY <1>4, <1>7, <1>9 DEF GoodJob, Past
  <2> QED BY <1>1, <1>7, <1>8, <1>10, <2>1, <2>2, <2>3 DEF HandlerMoves, JobMoves, HandlerCtx
<1>12. Shapes'
  BY <1>1, <1>2, <1>3, ShapesAsk
<1>13. ClusterJob(h)'
  BY <1>3, <1>4, <1>7, <1>8, <1>9 DEF ClusterJob, ReqIs, Key, At, InPhase
<1>14. BackendsNamed'
  BY <1>1, <1>2, <1>5, HandlerNow DEF BackendsNamed, BackendNamed
<1>15. ASSUME NEW m \in Calm, Matching(m) PROVE Claims(m)' \subseteq Claims(m) /\ ObjectsRun(m)' /\ RecordsMatch(m)'
  <2>0. m = job[h].name => Key(h) \in Claims(m)
    BY <1>1, <1>4 DEF Claims, Works
  <2>1. Claims(m)' \subseteq Claims(m)
    <3>1. \A l \in DOMAIN store' : Named(l) = m => l \in Claims(m)
      BY DEF Claims
    <3>2. \A l \in ClusterKeys : BackendOf(l) \in DOMAIN backends' /\ Named(l) = m => l \in Claims(m)
      BY <1>5 DEF Claims
    <3>3. j.name = m => req[h].key \in Claims(m)
      BY <1>9, <2>0 DEF Key
    <3> QED BY <1>3, <1>11, <3>1, <3>2, <3>3, ClaimsStay
  <2>2. ObjectsRun(m)'
    <3> SUFFICES ASSUME NEW x \in DOMAIN backends', x[1] \in {"eks", "gke"}, NameOf(backends'[x]) = m
                 PROVE  /\ Live(backends[x])'
                        /\ \A g \in Handler : Works(g, m)' /\ job'[g].kind = "unmake" => InPhase(g, "idle")'
      BY DEF ObjectsRun
    <3>1. x \in DOMAIN backends /\ x # b /\ backends'[x] = backends[x] /\ containers' = containers
      BY <1>5 DEF HandlerCtx
    <3>2. Live(backends[x]) /\ \A g \in Handler : Works(g, m) /\ job[g].kind = "unmake" => InPhase(g, "idle")
      BY <1>15, <3>1 DEF Matching, ObjectsRun
    <3>3. m # job[h].name
      <4>1. PICK l \in ClusterKeys : x = BackendOf(l)
        BY <1>1, <3>1 DEF BackendsNamed
      <4>2. Named(l) = m
        BY <1>1, <3>1, <4>1, KeysNamed DEF BackendsNamed, BackendNamed, BackendOf, ServiceOf, ContainerName
      <4>3. l \in Claims(m)
        BY <3>1, <4>1, <4>2 DEF Claims
      <4>4. OneCluster(m)
        BY <1>15 DEF Matching
      <4> QED BY <2>0, <3>1, <4>1, <4>3, <4>4 DEF OneCluster
    <3>4. \A g \in Handler : Works(g, m)' /\ job'[g].kind = "unmake" => InPhase(g, "idle")'
      BY <1>3, <1>8, <1>9, <1>11, <3>2, <3>3, OthersStay DEF Works
    <3> QED BY <3>1, <3>2, <3>4 DEF Live
  <2>3. RecordsMatch(m)'
    BY <1>3, <1>9, <1>11, <1>15, RecordsStay DEF Matching
  <2> QED BY <2>1, <2>2, <2>3
<1> QED BY <1>3, <1>11, <1>12, <1>13, <1>14, <1>15, ClusterGoes

LEMMA ClusterDrops ==
  ASSUME NEW h, HandlerCtx(h), workload = "clusters", At(h, "dropCluster"), InPhase(h, "closed"),
         Delete(Key(h)), NEW promise, Answer(h, promise), EndJob(h), UNCHANGED <<trouble, backends>>
  PROVE  AccountsInv'
<1>1. Shapes /\ ReqShape /\ h \in Handler /\ ClusterJob(h)
  BY ClusterNow
<1>2. UNCHANGED workload
  BY DEF HandlerCtx
<1>3. ReqIs(h, "idle", NoKey, "none", Blank)
  BY <1>1, AnswerIs
<1>4. job[h].kind = "unmake" /\ job[h].phase = "closed" /\ Key(h) \in ClusterKeys /\ job[h].name = Named(Key(h))
  BY <1>1, KeysNamed DEF ClusterJob, At, InPhase
<1>5. HandlerMoves(h, NoJob) /\ job'[h] = NoJob
  <2>1. KeptOn
    <3>1. \A l \in DOMAIN store : l[1] # "gce"
      BY ClusterNow
    <3> QED BY <3>1, KeptByObjects
  <2>2. job[h].phase \notin Downs /\ HandedOver(h)
    BY <1>4 DEF Downs, HandedOver
  <2> QED BY <2>1, <2>2, Ends
<1>6. Shapes'
  BY <1>1, <1>2, <1>3, ShapesDelete
<1>7. ClusterJob(h)'
  BY <1>3, <1>5 DEF ClusterJob, ReqIs, At
<1>8. BackendsNamed'
  BY BackendsSame
<1>9. /\ DOMAIN store' = DOMAIN store \ {Key(h)}
      /\ \A l \in DOMAIN store' : store'[l] = store[l] /\ maps'[store[l].map] = maps[store[l].map]
  BY <1>1, DeleteIs
<1>10. ASSUME NEW m \in Calm, Matching(m) PROVE Claims(m)' \subseteq Claims(m) /\ ObjectsRun(m)' /\ RecordsMatch(m)'
  <2>1. Claims(m)' \subseteq Claims(m)
    <3>1. \A l \in DOMAIN store' : Named(l) = m => l \in Claims(m)
      BY <1>9 DEF Claims
    <3>2. \A l \in ClusterKeys : BackendOf(l) \in DOMAIN backends' /\ Named(l) = m => l \in Claims(m)
      BY DEF Claims
    <3>3. ~(NoJob.kind = "unmake" \/ NoJob.phase \in Past)
      BY DEF Past, NoJob
    <3> QED BY <1>3, <1>5, <3>1, <3>2, <3>3, ClaimsStay
  <2>2. ObjectsRun(m)'
    BY <1>3, <1>5, <1>10, ObjectsStay DEF Matching, NoJob
  <2>3. m = job[h].name => \A k \in DOMAIN store' : \A c \in maps'[store'[k].map] : NameOf(c) # m
    <3> SUFFICES ASSUME m = job[h].name, NEW k \in DOMAIN store', NEW c \in maps'[store'[k].map], NameOf(c) = m
                 PROVE  FALSE
      OBVIOUS
    <3>1. k \in DOMAIN store /\ k # Key(h) /\ c \in maps[store[k].map]
      BY <1>9
    <3>2. k \in Claims(m)
      BY <1>1, <3>1 DEF Shapes, NamesMatch, Claims
    <3>3. Key(h) \in Claims(m)
      BY <1>1, <1>4 DEF Claims, Works
    <3>4. OneCluster(m)
      BY <1>10 DEF Matching
    <3> QED BY <3>1, <3>2, <3>3, <3>4 DEF OneCluster
  <2>4. RecordsMatch(m)
    BY <1>10 DEF Matching
  <2>5. RecordsMatch(m)'
    BY <1>3, <1>5, <1>9, <2>3, <2>4, RecordsStay
  <2> QED BY <2>1, <2>2, <2>5
<1> QED BY <1>3, <1>5, <1>6, <1>7, <1>8, <1>10, ClusterGoes

LEMMA ClusterAccounts ==
  ASSUME NEW h, AccountsInv, PortsInv, Noted, h \in Handler, workload = "clusters", ClusterStep(h), UNCHANGED workload
  PROVE  AccountsInv'
<1>0. HandlerCtx(h)
  BY DEF HandlerCtx, ClusterStep
<1>1. PICK keys \in {EksKeys, GkeKeys} : MakeCluster(h, keys) \/ UnmakeCluster(h, keys)
  BY DEF ClusterStep, eksCreateCluster, eksDeleteCluster, gkeCreateCluster, gkeDeleteCluster
<1>2. keys \subseteq ClusterKeys
  BY DEF ClusterKeys
<1>3. CASE (\E k \in keys : Shows({SubjectOf(k)})) /\ UNCHANGED <<job, trouble, backends>>
  BY <1>0, <1>3, Rests DEF Shows
<1>4. CASE MakeCluster(h, keys)
  BY <1>0, <1>2, <1>3, <1>4, MakeBegins, MakeFails, MakeRecords, MakeRegisters DEF MakeCluster
<1>5. CASE UnmakeCluster(h, keys)
  <2>1. DropCluster(h, keys) => AccountsInv'
    BY <1>0, ClusterDrops DEF DropCluster
  <2> QED BY <1>0, <1>3, <1>5, <2>1, UnmakeBegins, UnmakeGoesOn DEF UnmakeCluster, Present
<1> QED BY <1>1, <1>4, <1>5
-----------------------------------------------------------------------------
(* Instances.                                                               *)

LEMMA GceNow ==
  ASSUME AccountsInv, NEW h \in Handler, workload = "gce"
  PROVE  /\ Shapes /\ ReqShape /\ InstanceJob(h) /\ Keys = GceKeys
         /\ \A k \in DOMAIN store : k \in GceKeys /\ k[1] = "gce" /\ Rec(store[k])
         /\ BackendsNamed /\ h \in Runner
         /\ job[h].kind # "none" => Key(h) \in GceKeys /\ job[h].name = Named(Key(h)) /\ job[h].name \in Resource
<1>1. Shapes /\ InstanceJob(h)
  BY DEF AccountsInv, Linked
<1>2. Keys = GceKeys
  BY DEF Keys
<1>3. \A k \in DOMAIN store : k \in GceKeys /\ k[1] = "gce" /\ Rec(store[k])
  BY <1>1, <1>2, KeysNamed DEF Shapes, NamesMatch
<1>4. job[h].kind # "none" => Key(h) \in GceKeys /\ job[h].name = Named(Key(h)) /\ job[h].name \in Resource
  BY <1>1, KeysNamed DEF InstanceJob, NoJob
<1> QED BY <1>1, <1>2, <1>3, <1>4, Constants DEF Shapes, AccountsInv

\* What is so of a request's instance is so as long as the record keeps its map.
SameRecord(k) == k \in DOMAIN store' => /\ k \in DOMAIN store /\ store'[k].map = store[k].map
                                        /\ maps'[store[k].map] = maps[store[k].map]

LEMMA OtherInstances ==
  ASSUME AccountsInv, workload = "gce", NEW h, NEW j, HandlerMoves(h, j),
         NEW op, NEW key, NEW field, NEW copy, ReqIs(h, op, key, field, copy),
         NEW g \in Handler \ {h}, job'[g].name \in Calm',
         job[g].kind \in {"unmake", "start", "halt"} =>
           /\ SameRecord(Key(g))
           /\ job[g].kind # "unmake" /\ Key(g) \in DOMAIN store => Key(g) \in DOMAIN store'
           /\ InPhase(g, "switched") => containers'[job[g].container] = containers[job[g].container]
  PROVE  InstanceSound(g)'
<1>1. job'[g] = job[g] /\ Key(g)' = Key(g) /\ job[g].name \in Calm /\ req'[g].copy = req[g].copy
  BY OthersStay DEF ReqIs
<1>2. InstanceSound(g)
  BY <1>1 DEF AccountsInv, Instances
<1> QED BY <1>1, <1>2 DEF InstanceSound, SameRecord, InPhase

\* The requests that are at work on one instance do the same.
LEMMA SameKind ==
  ASSUME AccountsInv, workload = "gce", NEW g \in Handler, NEW h \in Handler, job[g].kind # "none", job[h].kind # "none",
         Key(g) = Key(h), job[g].name \in Calm
  PROVE  job[g].kind = job[h].kind
<1>1. Works(g, job[g].name) /\ Works(h, job[g].name) /\ g \in Runner /\ h \in Runner
  BY GceNow DEF Works
<1> QED BY <1>1 DEF AccountsInv, Sound, Agree

LEMMA InstanceGoes ==
  ASSUME AccountsInv, PortsInv, Noted, workload = "gce", backends' = backends, NEW h, NEW j, HandlerMoves(h, j),
         NEW op, NEW key, NEW field, NEW copy, ReqIs(h, op, key, field, copy), Shapes', InstanceJob(h)',
         \A n \in Calm' : Up /\ RecordsMatch(n) => RecordsMatch(n)',
         \A g \in Handler : job'[g].name \in Calm' => InstanceSound(g)'
  PROVE  AccountsInv'
<1> USE DEF AccountsInv
<1>0. workload' = workload /\ server'.pc = server.pc /\ server'.left = server.left /\ AllSound
  BY NotedIs DEF HandlerMoves, JobMoves, PortsInv, AllSound
<1>1. StaySound
  BY <1>0, HandlerSound
<1>2. ServerJobs' /\ Shutting'
  BY HandlerShuts
<1>3. BackendsNamed'
  BY <1>0 DEF BackendsNamed, BackendNamed
<1>4. \A g \in Handler : InstanceJob(g)'
  <2> TAKE g \in Handler
  <2>1. CASE g # h
    <3>1. InstanceJob(g)
      BY DEF Linked
    <3>2. req'[g].copy = req[g].copy
      BY <2>1 DEF ReqIs
    <3> QED BY <2>1, <3>1, <3>2, OthersStay DEF InstanceJob
  <2> QED BY <2>1
<1>5. Linked'
  BY <1>0, <1>4 DEF Linked
<1>6. Instances'
  BY DEF Instances
<1>7. Up' => \A n \in Calm' : Matching(n)'
  <2> SUFFICES ASSUME Up', NEW n \in Calm' PROVE Matching(n)'
    OBVIOUS
  <2>1. n \in Calm /\ Up
    BY <1>0, OthersStay DEF Up
  <2> QED BY <1>0, <2>1 DEF Matching
<1> QED BY <1>1, <1>2, <1>3, <1>5, <1>6, <1>7 DEF StaySound

\* The list of compute is that of the records.
LEMMA KeptByRecords ==
  ASSUME backends' = backends,
         \A k \in DOMAIN store : \A d \in Container : k[1] = "gce" /\ d = GceContainer(store[k]) /\ Live(d) /\ NameOf(d) \in Calm' =>
           k \in DOMAIN store' /\ Content(store[k])' = {d}
  PROVE  KeptOn
<1> SUFFICES ASSUME NEW d \in Container, Live(d), NameOf(d) \in Calm', NEW s, d \in ListToShut(s)
             PROVE  d \in ListToShut(s)'
  BY DEF KeptOn
<1>1. CASE s # "compute"
  BY <1>1 DEF ListToShut
<1>2. CASE s = "compute"
  <2>1. PICK k \in DOMAIN store : k[1] = "gce" /\ d = GceContainer(store[k])
    BY <1>2 DEF ListToShut
  <2>2. k \in DOMAIN store' /\ Content(store[k])' = {d}
    BY <2>1
  <2>3. GceContainer(store[k])' = d
    BY <2>2 DEF GceContainer
  <2> QED BY <1>2, <2>1, <2>2, <2>3 DEF ListToShut
<1> QED BY <1>1, <1>2

\* A request begins, whatever it is to do.
LEMMA InstanceBegins ==
  ASSUME NEW h, HandlerCtx(h), workload = "gce", backends' = backends, NEW k \in GceKeys,
         NEW op, NEW kind, NEW phase, NEW c, TakeJob(h, kind, k[2], phase, c),
         \/ /\ Begin(h, op, SubjectOf(k), [key |-> k])
            /\ kind = "make" /\ phase = "create" /\ op = "insertInstance"
         \/ /\ Begin(h, op, SubjectOf(k), [key |-> k, copy |-> store[k]])
            /\ k \in DOMAIN store /\ c = GceContainer(store[k])
            /\ \/ kind = "unmake" /\ phase = "stopIt" /\ op = "deleteInstance"
               \/ kind = "start" /\ phase = "switch" /\ op = "startInstance"
               \/ kind = "halt" /\ phase = "switch" /\ op = "stopInstance"
  PROVE  AccountsInv'
<1>1. Shapes /\ ReqShape /\ h \in Handler /\ AccountsInv /\ PortsInv /\ Noted
  BY GceNow DEF HandlerCtx
<1>2. UNCHANGED <<store, maps, workload, containers>>
  BY DEF Begin, HandlerCtx
<1>3. PICK n \in Resource : n = k[2] /\ n = Named(k)
  BY KeysNamed
<1>4. kind # "make" => k \in DOMAIN store /\ c \in Container /\ NameOf(c) = n /\ maps[store[k].map] = {c}
                       /\ Rec(store[k]) /\ store[k].map # NilMap
  <2> SUFFICES ASSUME kind # "make" PROVE c \in Container /\ NameOf(c) = n /\ maps[store[k].map] = {c} /\ Rec(store[k]) /\ store[k].map # NilMap
    OBVIOUS
  <2>1. k \in DOMAIN store /\ c = GceContainer(store[k])
    OBVIOUS
  <2>2. Rec(store[k]) /\ store[k].map # NilMap
    BY <1>1, <2>1, RecordStoreAssumption DEF Shapes, MapsApart, Points
  <2> QED BY <1>1, <1>3, <2>1, <2>2, ItsOwn DEF Owns
<1>5. PICK copy : ReqIs(h, op, k, "none", copy) /\ copy = IF kind = "make" THEN Blank ELSE store[k]
  <2>1. CASE kind = "make"
    BY <1>1, <2>1, EnterKey DEF Begin
  <2>2. CASE kind # "make"
    BY <1>1, <1>4, <2>2, EnterCopy DEF Begin
  <2> QED BY <2>1, <2>2
<1>6. PICK j : j = NewJob(kind, n, phase, c)
  OBVIOUS
<1>7. HandlerMoves(h, j) /\ job'[h] = j /\ job[h] = NoJob
  BY <1>2, <1>3, <1>4, <1>6, TakesUp
<1>8. Shapes'
  BY <1>1, <1>2, <1>4, <1>5, ShapesAsk
<1>9. j.kind = kind /\ j.name = n /\ j.phase = phase /\ j.container = c
  BY <1>6 DEF NewJob
<1>10. InstanceJob(h)'
  BY <1>3, <1>4, <1>5, <1>7, <1>9 DEF InstanceJob, ReqIs, Key, At, InPhase
<1>11. \A m : RecordsMatch(m) => RecordsMatch(m)'
  <2> SUFFICES ASSUME NEW m, RecordsMatch(m) PROVE RecordsMatch(m)'
    OBVIOUS
  <2> QED BY <1>2, <1>5, <1>7, RecordsStay DEF NoJob, InPhase
<1>12. ASSUME NEW g \in Handler, job'[g].name \in Calm' PROVE InstanceSound(g)'
  <2>1. CASE g # h
    BY <1>1, <1>2, <1>5, <1>7, <1>12, <2>1, OtherInstances DEF SameRecord
  <2>2. CASE g = h
    <3>1. Key(h)' = k /\ req'[h].copy = copy
      BY <1>5 DEF ReqIs, Key
    <3> QED BY <1>2, <1>4, <1>5, <1>7, <1>9, <2>2, <3>1 DEF InstanceSound, InPhase
  <2> QED BY <2>1, <2>2
<1> QED BY <1>1, <1>5, <1>7, <1>8, <1>10, <1>11, <1>12, InstanceGoes

\* A request that ends, and leaves the records as they were.
LEMMA InstanceEnds ==
  ASSUME NEW h, HandlerCtx(h), workload = "gce", NEW promise, Answer(h, promise), EndJob(h),
         UNCHANGED <<store, maps, trouble, backends>>, job[h].phase \in {"create", "failed", "switch"}
  PROVE  AccountsInv'
<1>1. Shapes /\ ReqShape /\ h \in Handler /\ AccountsInv /\ PortsInv /\ Noted /\ JobShape(h)
  BY GceNow, HandlerNow DEF HandlerCtx
<1>2. UNCHANGED <<workload, containers>>
  BY DEF HandlerCtx
<1>3. ReqIs(h, "idle", NoKey, "none", Blank)
  BY <1>1, AnswerIs
<1>4. job[h].kind # "unmake" /\ ~InPhase(h, "switched")
  BY <1>1 DEF JobShape, InPhase, Downs
<1>5. HandlerMoves(h, NoJob) /\ job'[h] = NoJob
  <2>1. KeptOn
    BY <1>2, ShutsSame
  <2>2. job[h].phase \notin Downs /\ HandedOver(h)
    BY DEF Downs, HandedOver
  <2> QED BY <2>1, <2>2, Ends
<1>6. Shapes'
  BY <1>1, <1>2, <1>3, ShapesAsk
<1>7. InstanceJob(h)'
  BY <1>3, <1>5 DEF InstanceJob, ReqIs, At
<1>8. \A m : RecordsMatch(m) => RecordsMatch(m)'
  BY <1>3, <1>4, <1>5, RecordsStay
<1>9. ASSUME NEW g \in Handler, job'[g].name \in Calm' PROVE InstanceSound(g)'
  <2>1. CASE g # h
    BY <1>1, <1>2, <1>3, <1>5, <1>9, <2>1, OtherInstances DEF SameRecord
  <2>2. CASE g = h
    BY <1>5, <2>2 DEF InstanceSound, NoJob
  <2> QED BY <2>1, <2>2
<1> QED BY <1>1, <1>3, <1>5, <1>6, <1>7, <1>8, <1>9, InstanceGoes

LEMMA InstanceRecords ==
  ASSUME NEW h, HandlerCtx(h), workload = "gce", At(h, "insertInstance"), InPhase(h, "ready"),
         PutNew(Key(h), {job[h].container}), NEW promise, Answer(h, promise), EndJob(h), UNCHANGED <<trouble, backends>>
  PROVE  AccountsInv'
<1>1. /\ Shapes /\ ReqShape /\ h \in Handler /\ h \in Runner /\ AccountsInv /\ PortsInv /\ Noted /\ AllSound
      /\ InstanceJob(h) /\ Keys = GceKeys /\ BackendsNamed
  BY GceNow, HandlerNow DEF HandlerCtx
<1>2. UNCHANGED <<workload, containers>> /\ Calm' = Calm
  BY DEF HandlerCtx, Calm
<1>3. ReqIs(h, "idle", NoKey, "none", Blank)
  BY <1>1, AnswerIs
<1>4. PICK k, c : k = Key(h) /\ c = job[h].container
  OBVIOUS
<1>5. /\ job[h].kind = "make" /\ k \in Keys /\ k[1] = "gce" /\ job[h].name = Named(k)
      /\ c \in Container /\ NameOf(c) = Named(k)
  <2>1. job[h].kind = "make" /\ Key(h) \in GceKeys /\ job[h].name = Key(h)[2]
    BY <1>1 DEF InstanceJob, At
  <2>2. job[h].container \in Container /\ NameOf(job[h].container) = job[h].name
    BY HandlerNow, Shapely DEF InPhase, Past
  <2> QED BY <1>1, <1>4, <2>1, <2>2, KeysNamed
<1>6. /\ DOMAIN store' = DOMAIN store \cup {k}
      /\ store'[k].status = "available" /\ maps'[store'[k].map] = {c}
      /\ \A l \in DOMAIN store \ {k} : store'[l] = store[l] /\ maps'[store[l].map] = maps[store[l].map]
      /\ Content(store[k])' = {c}
  BY <1>1, <1>4, PutNewIs, NewRecordIs
<1>7. Named(k) \in Calm => /\ containers[c] = "running" /\ Live(c)
                           /\ \A d \in Container : Live(d) /\ NameOf(d) = Named(k) => d = c
  BY <1>1, <1>4, <1>5, Readied DEF InPhase
<1>8. \A l \in DOMAIN store : l # k => Content(store[l])' = Content(store[l])
  BY <1>6 DEF Content
<1>9. HandlerMoves(h, NoJob) /\ job'[h] = NoJob
  <2>1. KeptOn
    <3>1. ASSUME NEW l \in DOMAIN store, NEW d \in Container, d = GceContainer(store[l]), Live(d), NameOf(d) \in Calm'
          PROVE  l \in DOMAIN store' /\ Content(store[l])' = {d}
      <4>1. Content(store[l]) = {d} /\ NameOf(d) = Named(l)
        BY <1>1, <3>1, ItsOwn DEF Owns
      <4> QED BY <1>2, <1>6, <1>7, <1>8, <3>1, <4>1
    <3> QED BY <3>1, KeptByRecords
  <2>2. job[h].phase \notin Downs
    BY DEF InPhase, Downs
  <2>3. HandedOver(h)
    <3>1. "compute" \in Services'
      BY <1>1, <1>2, RegistrationAssumption DEF Services, BackendsNamed
    <3>2. GceContainer(store[k])' = c
      BY <1>5, <1>6 DEF GceContainer
    <3>3. c \in ListToShut("compute")'
      BY <1>5, <1>6, <3>2 DEF ListToShut
    <3> QED BY <1>4, <3>1, <3>3 DEF HandedOver, Kept
  <2> QED BY <2>1, <2>2, <2>3, Ends
<1>10. Shapes'
  BY <1>1, <1>2, <1>3, <1>4, <1>5, ShapesPutNew
<1>11. InstanceJob(h)'
  BY <1>3, <1>9 DEF InstanceJob, ReqIs, At
<1>12. ASSUME NEW m \in Calm', RecordsMatch(m) PROVE RecordsMatch(m)'
  <2>1. \A l \in DOMAIN store' : \A d \in maps'[store'[l].map] : NameOf(d) = m =>
          \/ l \in DOMAIN store /\ store'[l] = store[l] /\ d \in maps[store[l].map]
          \/ containers[d] = IF store'[l].status = "stopped" THEN "paused" ELSE "running"
    BY <1>2, <1>5, <1>6, <1>7
  <2> QED BY <1>3, <1>5, <1>9, <1>12, <2>1, RecordsStay DEF InPhase
<1>13. ASSUME NEW g \in Handler, job'[g].name \in Calm' PROVE InstanceSound(g)'
  <2>1. CASE g # h
    <3>1. job[g].name \in Calm
      BY <1>2, <1>3, <1>9, <1>13, <2>1, OthersStay
    <3>2. job[g].kind \in {"unmake", "start", "halt"} => Key(g) # k
      BY <1>1, <1>4, <1>5, <3>1, SameKind
    <3>3. job[g].kind \in {"unmake", "start", "halt"} => SameRecord(Key(g)) /\ (Key(g) \in DOMAIN store => Key(g) \in DOMAIN store')
      BY <1>6, <3>2 DEF SameRecord
    <3> QED BY <1>1, <1>2, <1>3, <1>9, <1>13, <2>1, <3>3, OtherInstances
  <2>2. CASE g = h
    BY <1>9, <2>2 DEF InstanceSound, NoJob
  <2> QED BY <2>1, <2>2
<1> QED BY <1>1, <1>3, <1>9, <1>10, <1>11, <1>12, <1>13, InstanceGoes

LEMMA InstanceDrops ==
  ASSUME NEW h, HandlerCtx(h), workload = "gce", At(h, "deleteInstance"), InPhase(h, "closed"),
         Delete(Key(h)), NEW promise, Answer(h, promise), EndJob(h), UNCHANGED <<trouble, backends>>
  PROVE  AccountsInv'
<1>1. /\ Shapes /\ ReqShape /\ h \in Handler /\ h \in Runner /\ AccountsInv /\ PortsInv /\ Noted /\ AllSound
      /\ InstanceJob(h) /\ Keys = GceKeys
  BY GceNow, HandlerNow DEF HandlerCtx
<1>2. UNCHANGED <<workload, containers>> /\ Calm' = Calm
  BY DEF HandlerCtx, Calm
<1>3. ReqIs(h, "idle", NoKey, "none", Blank)
  BY <1>1, AnswerIs
<1>4. PICK k, c : k = Key(h) /\ c = job[h].container
  OBVIOUS
<1>5. job[h].kind = "unmake" /\ k \in GceKeys /\ job[h].name = Named(k)
  BY <1>1, <1>4, KeysNamed DEF InstanceJob, At
<1>6. /\ DOMAIN store' = DOMAIN store \ {k}
      /\ \A l \in DOMAIN store' : /\ store'[l] = store[l] /\ maps'[store[l].map] = maps[store[l].map]
                                  /\ Content(store[l])' = Content(store[l])
  BY <1>1, <1>4, DeleteIs
<1>7. Named(k) \in Calm => ~Live(c) /\ (k \in DOMAIN store => maps[store[k].map] = {c})
  <2>1. Works(h, Named(k))
    BY <1>5 DEF Works
  <2>2. Named(k) \in Calm => IsDown(Named(k)) /\ InstanceSound(h)
    BY <1>1, <1>5 DEF AccountsInv, Sound, Instances
  <2> QED BY <1>1, <1>4, <1>5, <2>1, <2>2 DEF IsDown, InstanceSound
<1>8. \A l \in DOMAIN store : l \in GceKeys
  BY <1>1 DEF Shapes, NamesMatch
<1>9. HandlerMoves(h, NoJob) /\ job'[h] = NoJob
  <2>1. KeptOn
    <3>1. ASSUME NEW l \in DOMAIN store, NEW d \in Container, d = GceContainer(store[l]), Live(d), NameOf(d) \in Calm'
          PROVE  l \in DOMAIN store' /\ Content(store[l])' = {d}
      <4>1. Content(store[l]) = {d} /\ NameOf(d) = Named(l) /\ maps[store[l].map] = {d}
        BY <1>1, <3>1, ItsOwn DEF Owns
      <4>2. l # k
        BY <1>2, <1>7, <3>1, <4>1
      <4> QED BY <1>6, <4>1, <4>2
    <3> QED BY <3>1, KeptByRecords
  <2>2. job[h].phase \notin Downs /\ HandedOver(h)
    BY DEF InPhase, Downs, HandedOver
  <2> QED BY <2>1, <2>2, Ends
<1>10. Shapes'
  BY <1>1, <1>2, <1>3, ShapesDelete
<1>11. InstanceJob(h)'
  BY <1>3, <1>9 DEF InstanceJob, ReqIs, At
<1>12. ASSUME NEW m \in Calm', RecordsMatch(m) PROVE RecordsMatch(m)'
  <2>1. m = job[h].name => \A l \in DOMAIN store' : \A d \in maps'[store'[l].map] : NameOf(d) # m
    <3> SUFFICES ASSUME m = job[h].name, NEW l \in DOMAIN store', NEW d \in maps'[store'[l].map], NameOf(d) = m
                 PROVE  FALSE
      OBVIOUS
    <3>1. l \in DOMAIN store /\ l # k /\ d \in maps[store[l].map]
      BY <1>6
    <3>2. Named(l) = Named(k)
      BY <1>1, <1>5, <3>1 DEF Shapes, NamesMatch
    <3> QED BY <1>5, <1>8, <3>1, <3>2, KeysNamed
  <2>2. \A l \in DOMAIN store' : l \in DOMAIN store /\ store'[l] = store[l] /\ maps'[store'[l].map] = maps[store[l].map]
    BY <1>6
  <2> QED BY <1>3, <1>9, <1>12, <2>1, <2>2, RecordsStay
<1>13. ASSUME NEW g \in Handler, job'[g].name \in Calm' PROVE InstanceSound(g)'
  <2>1. CASE g # h
    <3>1. job[g].name \in Calm
      BY <1>2, <1>3, <1>9, <1>13, <2>1, OthersStay
    <3>2. job[g].kind \in {"start", "halt"} => Key(g) # k
      BY <1>1, <1>4, <1>5, <3>1, SameKind
    <3>3. SameRecord(Key(g)) /\ (job[g].kind \in {"start", "halt"} /\ Key(g) \in DOMAIN store => Key(g) \in DOMAIN store')
      BY <1>6, <3>2 DEF SameRecord
    <3> QED BY <1>1, <1>2, <1>3, <1>9, <1>13, <2>1, <3>3, OtherInstances
  <2>2. CASE g = h
    BY <1>9, <2>2 DEF InstanceSound, NoJob
  <2> QED BY <2>1, <2>2
<1> QED BY <1>1, <1>3, <1>9, <1>10, <1>11, <1>12, <1>13, InstanceGoes

\* The copy is put back.
LEMMA ShapesPut ==
  ASSUME Shapes, NEW h \in Handler, ReqIs(h, "idle", NoKey, "none", Blank), req[h].key \in Keys,
         NEW r, Full(r), Rec(r), r.map = req[h].copy.map, r.map # NilMap, Put(req[h].key, r), UNCHANGED <<maps, workload>>
  PROVE  Shapes'
<1>1. MapsApart'
  BY ApartPut DEF Shapes
<1>2. PICK k : k = req[h].key /\ k \in Keys
  OBVIOUS
<1>3. /\ DOMAIN store' = DOMAIN store \cup {k} /\ store'[k] = r
      /\ \A l \in DOMAIN store \ {k} : store'[l] = store[l]
  BY <1>2 DEF Put, Over, Only
<1>4. \A l \in DOMAIN store' : l \in Keys' /\ Full(store'[l]) /\ Rec(store'[l]) /\ \A d \in maps'[store'[l].map] : NameOf(d) = Named(l)
  <2> TAKE l \in DOMAIN store'
  <2>1. CASE l = k
    BY <1>2, <1>3, <2>1 DEF Shapes, NamesMatch, Key, Keys
  <2>2. CASE l # k
    BY <1>3, <2>2 DEF Shapes, NamesMatch, Keys
  <2> QED BY <2>1, <2>2
<1>5. \A g \in Handler : Full(req'[g].copy) /\ (req'[g].copy.map # NilMap => \A d \in maps'[req'[g].copy.map] : NameOf(d) = Named(Key(g)'))
  <2> TAKE g \in Handler
  <2>1. req'[g].copy = Blank \/ (req'[g].copy = req[g].copy /\ Key(g)' = Key(g))
    BY DEF ReqIs, Key
  <2> QED BY <2>1 DEF Shapes, NamesMatch, Full, Blank
<1>6. NamesMatch'
  BY <1>4, <1>5 DEF NamesMatch, Full
<1> QED BY <1>1, <1>4, <1>6 DEF Shapes, ReqIs, Rec

LEMMA InstanceSwitches ==
  ASSUME NEW h, HandlerCtx(h), workload = "gce", NEW op, NEW status, NEW promise, Switched(h, op, status, promise),
         \/ op = "startInstance" /\ status = "available"
         \/ op = "stopInstance" /\ status = "stopped",
         backends' = backends
  PROVE  AccountsInv'
<1>0. /\ At(h, op) /\ InPhase(h, "switched") /\ Put(Key(h), [req[h].copy EXCEPT !.status = status])
      /\ Answer(h, promise) /\ EndJob(h) /\ UNCHANGED <<maps, trouble>>
  BY DEF Switched
<1>1. /\ Shapes /\ ReqShape /\ h \in Handler /\ h \in Runner /\ AccountsInv /\ PortsInv /\ Noted /\ AllSound
      /\ InstanceJob(h) /\ Keys = GceKeys
  BY GceNow, HandlerNow DEF HandlerCtx
<1>2. UNCHANGED <<workload, containers>> /\ Calm' = Calm
  BY <1>0 DEF HandlerCtx, Calm
<1>3. ReqIs(h, "idle", NoKey, "none", Blank)
  BY <1>0, <1>1, AnswerIs
<1>4. PICK k, c : k = Key(h) /\ c = job[h].container
  OBVIOUS
<1>5. /\ job[h].kind \in {"start", "halt"} /\ k \in GceKeys /\ job[h].name = Named(k) /\ req[h].copy.map # NilMap
      /\ (job[h].kind = "halt" <=> status = "stopped")
  BY <1>0, <1>1, <1>4, KeysNamed DEF InstanceJob, At
<1>6. PICK r : r = [req[h].copy EXCEPT !.status = status]
  OBVIOUS
<1>7. Full(r) /\ Rec(r) /\ r.status = status /\ r.map = req[h].copy.map
  <2>1. Full(req[h].copy) /\ Rec(req[h].copy)
    BY <1>1 DEF Shapes, NamesMatch, ReqShape
  <2>2. r = [status |-> status, map |-> req[h].copy.map]
    BY <1>6, <2>1 DEF Full
  <2> QED BY <2>1, <2>2 DEF Full, Rec
<1>8. /\ DOMAIN store' = DOMAIN store \cup {k} /\ store'[k] = r
      /\ \A l \in DOMAIN store \ {k} : store'[l] = store[l]
  BY <1>0, <1>4, <1>6 DEF Put, Over, Only
<1>9. Named(k) \in Calm => /\ k \in DOMAIN store /\ store[k].map = r.map /\ maps[r.map] = {c}
                           /\ containers[c] = IF status = "stopped" THEN "paused" ELSE "running"
  <2>1. Named(k) \in Calm => InstanceSound(h)
    BY <1>1, <1>5 DEF AccountsInv, Instances
  <2> QED BY <1>0, <1>4, <1>5, <1>7, <2>1 DEF InstanceSound
<1>10. HandlerMoves(h, NoJob) /\ job'[h] = NoJob
  <2>1. KeptOn
    <3>1. ASSUME NEW l \in DOMAIN store, NEW d \in Container, d = GceContainer(store[l]), Live(d), NameOf(d) \in Calm'
          PROVE  l \in DOMAIN store' /\ Content(store[l])' = {d}
      <4>1. Content(store[l]) = {d} /\ NameOf(d) = Named(l)
        BY <1>1, <3>1, ItsOwn DEF Owns
      <4>2. store'[l].map = store[l].map
        BY <1>2, <1>8, <1>9, <3>1, <4>1
      <4> QED BY <1>0, <1>8, <4>1, <4>2 DEF Content
    <3> QED BY <3>1, KeptByRecords
  <2>2. job[h].phase \notin Downs /\ HandedOver(h)
    BY <1>0 DEF InPhase, Downs, HandedOver
  <2> QED BY <1>0, <2>1, <2>2, Ends
<1>11. Shapes'
  BY <1>0, <1>1, <1>2, <1>3, <1>4, <1>5, <1>6, <1>7, ShapesPut DEF Key
<1>12. InstanceJob(h)'
  BY <1>3, <1>10 DEF InstanceJob, ReqIs, At
<1>13. ASSUME NEW m \in Calm', RecordsMatch(m) PROVE RecordsMatch(m)'
  <2>0. Keys' = GceKeys
    BY <1>2 DEF Keys
  <2>1. \A l \in DOMAIN store' : \A d \in maps'[store'[l].map] : l \in GceKeys /\ NameOf(d) = Named(l)
    BY <1>11, <2>0 DEF Shapes, NamesMatch, Named
  <2>2. CASE m = Named(k)
    <3>1. \A l \in DOMAIN store' : \A d \in maps'[store'[l].map] : NameOf(d) = m => l = k
      BY <1>5, <2>1, <2>2, KeysNamed
    <3> QED BY <1>0, <1>2, <1>7, <1>8, <1>9, <1>13, <2>2, <3>1 DEF RecordsMatch
  <2>3. CASE m # Named(k)
    <3>1. \A l \in DOMAIN store' : \A d \in maps'[store'[l].map] : NameOf(d) = m =>
            l \in DOMAIN store /\ store'[l] = store[l] /\ d \in maps[store[l].map]
      BY <1>0, <1>8, <2>1, <2>3
    <3> QED BY <1>3, <1>5, <1>10, <1>13, <2>3, <3>1, RecordsStay
  <2> QED BY <2>2, <2>3
<1>14. ASSUME NEW g \in Handler, job'[g].name \in Calm' PROVE InstanceSound(g)'
  <2>1. CASE g # h
    <3>1. job[g].name \in Calm
      BY <1>2, <1>3, <1>10, <1>14, <2>1, OthersStay
    <3>2. job[g].kind # "none" => job[g].name = Named(Key(g))
      BY <1>1, GceNow
    <3>3. job[g].kind \in {"unmake", "start", "halt"} => SameRecord(Key(g)) /\ (Key(g) \in DOMAIN store => Key(g) \in DOMAIN store')
      <4> SUFFICES ASSUME job[g].kind \in {"unmake", "start", "halt"}
                   PROVE  SameRecord(Key(g)) /\ (Key(g) \in DOMAIN store => Key(g) \in DOMAIN store')
        OBVIOUS
      <4>1. CASE Key(g) = k
        BY <1>0, <1>8, <1>9, <3>1, <3>2, <4>1 DEF SameRecord
      <4>2. CASE Key(g) # k
        BY <1>0, <1>8, <4>2 DEF SameRecord
      <4> QED BY <4>1, <4>2
    <3> QED BY <1>1, <1>2, <1>3, <1>10, <1>14, <2>1, <3>3, OtherInstances
  <2>2. CASE g = h
    BY <1>10, <2>2 DEF InstanceSound, NoJob
  <2> QED BY <2>1, <2>2
<1> QED BY <1>1, <1>3, <1>10, <1>11, <1>12, <1>13, <1>14, InstanceGoes

\* Docker pauses the container, or lets it go on: nobody else has done so already,
\* since the requests for the name all do the same.
LEMMA InstancePauses ==
  ASSUME AccountsInv, PortsInv, Noted, NEW h \in Handler, workload = "gce",
         UNCHANGED <<store, maps, req, trouble, backends, emptied, workload>>, InPhase(h, "switch"), To(h, "switched"),
         NEW c, c = job[h].container, NEW before, NEW after, containers[c] = before, SetState(c, after),
         \/ before = "running" /\ after = "paused" /\ At(h, "stopInstance")
         \/ before = "paused" /\ after = "running" /\ At(h, "startInstance")
  PROVE  AccountsInv'
<1>1. /\ Shapes /\ ReqShape /\ h \in Runner /\ InstanceJob(h) /\ EngineInv /\ JobShape(h)
  BY GceNow DEF PortsInv, AccountsInv, Jobs
<1>2. PICK n : n = job[h].name
  OBVIOUS
<1>3. /\ job[h].kind \in {"start", "halt"} /\ c \in Container /\ NameOf(c) = n
      /\ (job[h].kind = "halt" <=> after = "paused")
  BY <1>1, <1>2, Shapely DEF InstanceJob, At, InPhase
<1>4. PICK j : j = [kind |-> job[h].kind, name |-> job[h].name, phase |-> "switched", port |-> job[h].port, container |-> c]
  OBVIOUS
<1>5. OnlyJob(h, j) /\ job'[h] = j
  <2>1. OnlyJob(h, j)
    BY <1>1, <1>4, ToOnly
  <2> QED BY <1>1, <2>1 DEF OnlyJob
<1>6. j.kind = job[h].kind /\ j.name = n /\ j.phase = "switched" /\ j.container = c /\ j # NoJob
  BY <1>2, <1>3, <1>4 DEF NoJob
<1>7. containers'[c] = after /\ \A d \in Container \ {c} : containers'[d] = containers[d]
  BY <1>1, <1>3, SetIs
<1>8. ReqIs(h, req[h].op, req[h].key, req[h].field, req[h].copy)
  BY <1>1 DEF ReqIs, ReqShape, Rec
<1>9. JobShape(h)'
  BY <1>2, <1>3, <1>5, <1>6 DEF JobShape, Kinds, Past
<1>10. HandlerMoves(h, j)
  <2>1. KeptOn
    BY ShutsSame
  <2>2. job[h].phase \notin Downs /\ HandedOver(h)
    BY DEF InPhase, Downs, HandedOver
  <2>3. GoodJob(h, j)
    BY <1>2, <1>3, <1>6 DEF GoodJob, Past
  <2>4. \A d \in Container : containers'[d] # containers[d] =>
          {containers[d], containers'[d]} \subseteq {"running", "paused"} /\ NameOf(d) = job[h].name
    BY <1>2, <1>3, <1>7
  <2> QED BY <1>3, <1>5, <1>9, <2>1, <2>2, <2>3, <2>4 DEF HandlerMoves, JobMoves
<1>11. Shapes'
  BY <1>1, <1>8, ShapesAsk
<1>12. InstanceJob(h)'
  BY <1>1, <1>2, <1>3, <1>5, <1>6 DEF InstanceJob, At, Key
<1>13. ASSUME NEW m \in Calm', RecordsMatch(m) PROVE RecordsMatch(m)'
  <2>1. CASE m = n
    <3>1. Works(h, m)' /\ InPhase(h, "switched")'
      BY <1>3, <1>5, <1>6, <2>1 DEF Works, InPhase
    <3> QED BY <3>1 DEF RecordsMatch
  <2>2. CASE m # n
    <3> SUFFICES ASSUME NEW k \in DOMAIN store, NEW d \in maps[store[k].map], NameOf(d) = m
                 PROVE  \/ containers'[d] = IF store[k].status = "stopped" THEN "paused" ELSE "running"
                        \/ \E g \in Handler : Works(g, m)' /\ (job'[g].kind = "unmake" \/ InPhase(g, "switched")')
      BY DEF RecordsMatch
    <3>1. d \in Container \ {c}
      BY <1>1, <1>3, <2>2 DEF Shapes, MapsApart, Points
    <3>2. \/ containers[d] = IF store[k].status = "stopped" THEN "paused" ELSE "running"
          \/ \E g \in Handler : Works(g, m) /\ (job[g].kind = "unmake" \/ InPhase(g, "switched"))
      BY <1>13 DEF RecordsMatch
    <3>3. ASSUME NEW g \in Handler, Works(g, m), job[g].kind = "unmake" \/ InPhase(g, "switched")
          PROVE  Works(g, m)' /\ (job'[g].kind = "unmake" \/ InPhase(g, "switched")')
      <4>1. g # h
        BY <1>2, <2>2, <3>3 DEF Works
      <4> QED BY <1>8, <1>10, <3>3, <4>1, OthersStay
    <3> QED BY <1>7, <3>1, <3>2, <3>3
  <2> QED BY <2>1, <2>2
<1>14. ASSUME NEW g \in Handler, job'[g].name \in Calm' PROVE InstanceSound(g)'
  <2>0. job[g].name = job'[g].name /\ job[g].name \in Calm
    BY <1>2, <1>6, <1>5, <1>8, <1>10, <1>14, OthersStay
  <2>1. CASE g # h
    <3>1. InPhase(g, "switched") => containers'[job[g].container] = containers[job[g].container]
      <4> SUFFICES ASSUME InPhase(g, "switched"), containers'[job[g].container] # containers[job[g].container] PROVE FALSE
        OBVIOUS
      <4>1. JobShape(g) /\ g \in Runner
        BY GceNow DEF AccountsInv, Jobs
      <4>2. job[g].kind \in {"start", "halt"} /\ job[g].container \in Container /\ NameOf(job[g].container) = job[g].name
        BY <4>1, Shapely DEF InPhase
      <4>3. job[g].container = c /\ job[g].name = n
        BY <1>3, <1>7, <4>2
      <4>4. Works(g, n) /\ Works(h, n) /\ Agree(n)
        BY <1>2, <1>3, <2>0, <4>2, <4>3 DEF Works, AccountsInv, Sound
      <4>5. job[g].kind = job[h].kind
        BY <1>1, <4>1, <4>4 DEF Agree
      <4>6. InstanceSound(g)
        BY <2>0 DEF AccountsInv, Instances
      <4> QED BY <1>3, <4>2, <4>3, <4>5, <4>6 DEF InstanceSound
    <3> QED BY <1>8, <1>10, <1>14, <2>1, <3>1, OtherInstances DEF SameRecord
  <2>2. CASE g = h
    <3>1. InstanceSound(h)
      BY <2>0, <2>2 DEF AccountsInv, Instances
    <3> QED BY <1>3, <1>5, <1>6, <1>7, <2>2, <3>1 DEF InstanceSound, Key
  <2> QED BY <2>1, <2>2
<1> QED BY <1>8, <1>10, <1>11, <1>12, <1>13, <1>14, InstanceGoes

LEMMA GceAccounts ==
  ASSUME NEW h, AccountsInv, PortsInv, Noted, h \in Handler, workload = "gce", GceStep(h), UNCHANGED workload
  PROVE  AccountsInv'
<1>0. UNCHANGED <<emptied, backends>> /\ (UNCHANGED containers => HandlerCtx(h))
  BY DEF HandlerCtx, GceStep, registry
<1>1. CASE (\E k \in GceKeys : Shows({SubjectOf(k)})) /\ UNCHANGED <<job, trouble, containers>>
  BY <1>0, <1>1, Rests DEF Shows
<1>2. CASE UNCHANGED containers /\ insertInstance(h)
  <2>1. CASE /\ job[h].phase \in {"create", "failed"}
             /\ Answer(h, Promised(h)) /\ EndJob(h) /\ UNCHANGED <<store, maps, trouble>>
    BY <1>0, <1>2, <2>1, InstanceEnds
  <2> QED BY <1>0, <1>1, <1>2, <2>1, InstanceBegins, InstanceRecords DEF insertInstance
<1>3. CASE UNCHANGED containers /\ deleteInstance(h)
  BY <1>0, <1>1, <1>3, InstanceBegins, InstanceDrops DEF deleteInstance, Present
<1>4. CASE UNCHANGED containers /\ (startInstance(h) \/ stopInstance(h))
  <2>1. ASSUME Switch(h, "startInstance", "start", "stopped") \/ Switch(h, "stopInstance", "halt", "available")
        PROVE  AccountsInv'
    BY <1>0, <1>1, <1>4, <2>1, InstanceBegins DEF Switch, Present
  <2> QED BY <1>0, <1>4, <2>1, InstanceSwitches DEF startInstance, stopInstance
<1>5. CASE Pause(h) \/ Unpause(h)
  <2>1. CASE /\ UNCHANGED containers /\ InPhase(h, "switch") /\ UNCHANGED <<store, maps, trouble>>
             /\ Answer(h, Promised(h)) /\ EndJob(h)
    BY <1>0, <2>1, InstanceEnds DEF InPhase
  <2>2. CASE Pause(h) /\ PauseContainer(job[h].container, TRUE) /\ To(h, "switched") /\ UNCHANGED req
    BY <1>0, <2>2, InstancePauses DEF Pause, PauseContainer
  <2>3. CASE Unpause(h) /\ UnpauseContainer(job[h].container, TRUE) /\ To(h, "switched") /\ UNCHANGED req
    BY <1>0, <2>3, InstancePauses DEF Unpause, UnpauseContainer
  <2> QED BY <1>5, <2>1, <2>2, <2>3 DEF Pause, Unpause, PauseContainer, UnpauseContainer, Fails
<1> QED BY <1>2, <1>3, <1>4, <1>5 DEF GceStep
-----------------------------------------------------------------------------
(* The services whose instances are records over an engine.                 *)
DataCtx(h) == HandlerCtx(h) /\ workload \notin {"clusters", "gce"}
Rows       == \A k \in DOMAIN store : k[1] \notin NoKeys /\ Rec(store[k])

LEMMA DataShape ==
  ASSUME NEW h, DataCtx(h)
  PROVE  /\ ReqShape /\ Rows /\ h \in Handler /\ Key(h)[1] \notin NoKeys /\ DatabaseJob(h)
         /\ \A k \in DOMAIN store : k[1] # "gce"
         /\ job[h].phase \notin Downs /\ BackendsNamed /\ workload' = workload
<1>1. DatabaseJobs /\ h \in Handler /\ BackendsNamed /\ workload' = workload
  BY DEF DataCtx, HandlerCtx, AccountsInv, Linked
<1>2. JobShape(h) /\ h \in Runner
  BY HandlerNow DEF DataCtx
<1>3. job[h].phase \notin Downs
  BY <1>1, <1>2, Shapely DEF DatabaseJobs, DatabaseJob
<1> QED BY <1>1, <1>3 DEF DatabaseJobs, Rows, NoKeys

LEMMA DatabaseGoes ==
  ASSUME NEW h, DataCtx(h), NEW j, HandlerMoves(h, j),
         NEW op, NEW key, NEW field, NEW copy, ReqIs(h, op, key, field, copy), key[1] \notin NoKeys,
         Rows', DatabaseJob(h)', BackendsNamed'
  PROVE  AccountsInv'
<1> USE DEF DataCtx, HandlerCtx, AccountsInv
<1>1. StaySound
  BY HandlerSound, HandlerNow
<1>2. ServerJobs' /\ Shutting'
  BY HandlerShuts
<1>3. \A g \in Handler : Key(g)'[1] \notin NoKeys /\ DatabaseJob(g)'
  <2> TAKE g \in Handler
  <2>1. CASE g = h
    BY <2>1, OthersStay
  <2>2. CASE g # h
    <3>1. DatabaseJob(g) /\ Key(g)[1] \notin NoKeys
      BY DEF Linked, DatabaseJobs
    <3>2. job'[g] = job[g] /\ Key(g)' = Key(g) /\ req'[g].field = req[g].field /\ req'[g].op = req[g].op
      BY <2>2, OthersStay DEF ReqIs
    <3> QED BY <3>1, <3>2 DEF DatabaseJob, At
  <2> QED BY <2>1, <2>2
<1>4. DatabaseJobs'
  BY <1>3 DEF DatabaseJobs, Rows, ReqIs
<1>5. Linked' /\ Instances' /\ \A n \in Calm' : Matching(n)'
  BY <1>4 DEF Linked, Instances, Matching
<1> QED BY <1>1, <1>2, <1>5 DEF StaySound

\* A request for a record has nothing to do with containers.
DataQuiet(h) == DataCtx(h) /\ UNCHANGED <<job, trouble, backends>>

LEMMA DataAsks ==
  ASSUME NEW h, DataQuiet(h), NEW op, NEW key, NEW field, NEW copy, ReqIs(h, op, key, field, copy),
         op # "initBackend", key[1] \notin NoKeys, Rows'
  PROVE  AccountsInv'
<1> USE DEF DataQuiet
<1>1. KeptOn
  BY DataShape, KeptByObjects
<1>2. HandlerMoves(h, job[h]) /\ job'[h] = job[h]
  BY <1>1, DataShape, Remains DEF DataCtx
<1>3. DatabaseJob(h)'
  BY <1>2, DataShape DEF DatabaseJob, At, ReqIs
<1>4. BackendsNamed'
  BY BackendsSame DEF DataCtx
<1> QED BY <1>2, <1>3, <1>4, DatabaseGoes

LEMMA RowsStay ==
  ASSUME NEW h, DataCtx(h), store' = store
  PROVE  Rows'
  BY DataShape DEF Rows, Rec

LEMMA RowsPut ==
  ASSUME NEW h, DataCtx(h), NEW k, k[1] \notin NoKeys, NEW r, Rec(r), Put(k, r)
  PROVE  Rows'
  BY DataShape DEF Rows, Rec, Put, Over, Only

LEMMA RowsPutNew ==
  ASSUME NEW h, DataCtx(h), NEW k, k[1] \notin NoKeys, NEW content, PutNew(k, content)
  PROVE  Rows'
<1>1. PICK m \in Map : Put(k, [status |-> "available", map |-> m])
  BY DEF PutNew, FreshMap, Unused
<1>2. Rec([status |-> "available", map |-> m])
  BY DEF Rec
<1> QED BY <1>1, <1>2, RowsPut

LEMMA RowsPutCopy ==
  ASSUME NEW h, DataCtx(h), NEW content, PutCopy(h, content)
  PROVE  Rows'
<1>0. Rec(req[h].copy) /\ req[h].key[1] \notin NoKeys
  BY DataShape DEF ReqShape, Key
<1>1. PICK m \in Map : Put(req[h].key, [req[h].copy EXCEPT !.map = m])
  BY <1>0 DEF PutCopy, FreshMap, Unused, Rec
<1>2. Rec([req[h].copy EXCEPT !.map = m])
  BY <1>0 DEF Rec
<1> QED BY <1>0, <1>1, <1>2, RowsPut

LEMMA RowsDelete ==
  ASSUME NEW h, DataCtx(h), NEW k, Delete(k)
  PROVE  Rows'
<1>1. \A l \in DOMAIN store' : l \in DOMAIN store /\ store'[l] = store[l]
  BY DEF Delete, Without, Restrict
<1> QED BY <1>1, DataShape DEF Rows, Rec

LEMMA DataRests ==
  ASSUME NEW h, DataQuiet(h), NEW s, Shows(s)
  PROVE  AccountsInv'
  BY Rests DEF DataQuiet, DataCtx, Shows

LEMMA DataAnswers ==
  ASSUME NEW h, DataQuiet(h), NEW promise, Answer(h, promise), Rows'
  PROVE  AccountsInv'
<1>1. ReqIs(h, "idle", NoKey, "none", Blank)
  BY DataShape, AnswerIs DEF DataQuiet
<1>2. NoKey[1] \notin NoKeys
  BY DEF NoKey, NoKeys
<1> QED BY <1>1, <1>2, DataAsks

LEMMA DataBegins ==
  ASSUME NEW h, DataQuiet(h), NEW op, op # "initBackend", NEW s, NEW k, k[1] \notin NoKeys, Begin(h, op, s, [key |-> k])
  PROVE  AccountsInv'
<1>1. ReqIs(h, op, k, "none", Blank)
  BY DataShape, EnterKey DEF Begin, DataQuiet
<1>2. Rows'
  BY RowsStay DEF Begin, DataQuiet
<1> QED BY <1>1, <1>2, DataAsks

LEMMA DataGoesTo ==
  ASSUME NEW h, DataQuiet(h), NEW op, op # "initBackend", Goto(h, op), store' = store
  PROVE  AccountsInv'
<1>1. ReqIs(h, op, req[h].key, req[h].field, req[h].copy) /\ req[h].key[1] \notin NoKeys
  BY DataShape, GotoIs DEF DataQuiet, Key
<1>2. Rows'
  BY RowsStay DEF DataQuiet
<1> QED BY <1>1, <1>2, DataAsks

LEMMA DataNames ==
  ASSUME NEW h, DataQuiet(h), NEW op, op # "initBackend", NEW k, k[1] \notin NoKeys,
         \/ CreateNamed(h, op, k) \/ RemoveNamed(h, op, k)
         \/ InsertNamed(h, op) \/ DropNamed(h, op)
  PROVE  AccountsInv'
<1>1. CASE CreateNamed(h, op, k) \/ RemoveNamed(h, op, k)
  BY <1>1, DataRests, DataBegins DEF CreateNamed, RemoveNamed
<1>2. CASE InsertNamed(h, op)
  <2>1. Key(h)[1] \notin NoKeys /\ Rec([status |-> "available", map |-> NilMap])
    BY DataShape DEF DataQuiet, Rec
  <2>2. Rows'
    BY <1>2, <2>1, RowsPut DEF InsertNamed, PutBare, DataQuiet
  <2> QED BY <1>2, <2>2, DataAnswers DEF InsertNamed
<1>3. CASE DropNamed(h, op)
  BY <1>3, RowsDelete, DataAnswers DEF DropNamed, DataQuiet
<1> QED BY <1>1, <1>2, <1>3

LEMMA DataInserts ==
  ASSUME NEW h, DataQuiet(h), NEW op, NEW e, NEW p, InsertOver(h, op, e, p)
  PROVE  AccountsInv'
<1>1. Key(h)[1] \notin NoKeys
  BY DataShape DEF DataQuiet
<1>2. Rows'
  BY <1>1, RowsPutNew DEF InsertOver, DataQuiet
<1> QED BY <1>2, DataAnswers DEF InsertOver

LEMMA DataWrites ==
  ASSUME NEW h, DataQuiet(h), NEW op, op # "initBackend", NEW k \in DOMAIN store, NEW content, BeginWriting(h, op, k, content)
  PROVE  AccountsInv'
<1>1. Rec(store[k]) /\ k[1] \notin NoKeys
  BY DataShape DEF DataQuiet, Rows
<1>2. ReqIs(h, op, k, "none", store[k])
  BY <1>1, DataShape, EnterCopy DEF BeginWriting, DataQuiet
<1>3. Rows'
  BY RowsStay DEF BeginWriting, DataQuiet
<1> QED BY <1>1, <1>2, <1>3, DataAsks

LEMMA DataModifies ==
  ASSUME NEW h, DataQuiet(h), NEW op, op # "initBackend", NEW k, Modify(h, op, k) \/ PutModified(h, op)
  PROVE  AccountsInv'
<1>1. CASE Modify(h, op, k)
  BY <1>1, DataRests, DataWrites DEF Modify, Present
<1>2. CASE PutModified(h, op)
  BY <1>2, RowsPutCopy, DataAnswers DEF PutModified, DataQuiet
<1> QED BY <1>1, <1>2

\* The keys of the databases are of their own kinds.
DbServices == {"rds", "snapshot", "cloudsql", "cachecluster", "replication", "memorystore"}
LEMMA DbKeysApart == \A s \in DbServices : \A n : DbKey(s, n)[1] \notin NoKeys
  BY DEF DbServices, DbKey, NoKeys

LEMMA SharedAccount ==
  ASSUME NEW h, DataQuiet(h), SqlStep(h) \/ CacheStep(h) \/ GroupStep(h) \/ RedisStep(h)
  PROVE  AccountsInv'
<1> USE DbKeysApart DEF DbServices
<1>1. CASE SqlStep(h)
  BY <1>1, DataNames, DataInserts, DataModifies DEF SqlStep, insertSqlInstance, deleteSqlInstance, updateSqlInstance
<1>2. CASE CacheStep(h)
  BY <1>2, DataNames, DataInserts, DataModifies DEF CacheStep, createCacheCluster, deleteCacheCluster, modifyCacheCluster
<1>3. CASE GroupStep(h)
  BY <1>3, DataNames, DataInserts DEF GroupStep, createReplicationGroup, deleteReplicationGroup
<1>4. CASE RedisStep(h)
  BY <1>4, DataNames, DataInserts, DataModifies DEF RedisStep, createRedisInstance, deleteRedisInstance, updateRedisInstance
<1> QED BY <1>1, <1>2, <1>3, <1>4

LEMMA CreateDBAccounts ==
  ASSUME NEW h, DataQuiet(h), NEW engines, createDBInstance(h, engines)
  PROVE  AccountsInv'
<1>1. ASSUME NEW n, NEW e, Begin(h, "getOrCreateBackend", SubjectOf(DbKey("rds", n)), [key |-> DbKey("rds", n), field |-> e])
      PROVE  AccountsInv'
  <2>1. PICK k : k = DbKey("rds", n) /\ k[1] \notin NoKeys
    BY DbKeysApart DEF DbServices
  <2>2. ReqIs(h, "getOrCreateBackend", k, e, Blank)
    BY <1>1, <2>1, DataShape, EnterField DEF Begin, DataQuiet
  <2>3. Rows'
    BY <1>1, RowsStay DEF Begin, DataQuiet
  <2> QED BY <2>1, <2>2, <2>3, DataAsks
<1> QED BY <1>1, DataRests, DataInserts DEF createDBInstance

LEMMA DeleteDBAccounts ==
  ASSUME NEW h, DataQuiet(h), deleteDBInstance(h)
  PROVE  AccountsInv'
<1>0. NoKey[1] \notin NoKeys
  BY DEF NoKey, NoKeys
<1>1. CASE DropNamed(h, "deleteDBInstance")
  BY <1>0, <1>1, DataNames
<1>2. ASSUME NEW k \in DOMAIN store, BeginWriting(h, "deleteDBInstance", k, Deleting) PROVE AccountsInv'
  BY <1>2, DataWrites
<1>3. ASSUME NEW s, Shows(s) PROVE AccountsInv'
  BY <1>3, DataRests
<1> QED BY <1>1, <1>2, <1>3 DEF deleteDBInstance, Present

LEMMA SnapshotAccounts ==
  ASSUME NEW h, DataQuiet(h), SnapshotStep(h)
  PROVE  AccountsInv'
<1> USE DbKeysApart DEF DbServices
<1>0. NoKey[1] \notin NoKeys
  BY DEF NoKey, NoKeys
<1>1. CASE modifyDBInstance(h)
  <2>1. ASSUME NEW s, NEW promise, AtOnce(s, promise), store' = store PROVE AccountsInv'
    <3>1. ReqIs(h, req[h].op, req[h].key, req[h].field, req[h].copy)
      BY <2>1, DataShape, MarkedSame DEF AtOnce, ReqIs, ReqShape, Rec, DataQuiet
    <3>2. Rows' /\ req[h].key[1] \notin NoKeys
      BY <2>1, RowsStay, DataShape DEF DataQuiet, Key
    <3>3. KeptOn
      BY DataShape, KeptByObjects DEF DataQuiet
    <3>4. HandlerMoves(h, job[h]) /\ job'[h] = job[h]
      BY <3>3, DataShape, Remains DEF DataCtx, DataQuiet
    <3>5. DatabaseJob(h)'
      BY <3>1, <3>4, DataShape DEF DatabaseJob, At, ReqIs, DataQuiet
    <3>6. BackendsNamed'
      BY BackendsSame DEF DataCtx, DataQuiet
    <3> QED BY <3>1, <3>2, <3>4, <3>5, <3>6, DatabaseGoes DEF DataQuiet
  <2>2. ASSUME NEW n, Modify(h, "modifyDBInstance", DbKey("rds", n)) \/ PutModified(h, "modifyDBInstance") PROVE AccountsInv'
    BY <2>2, DataModifies
  <2> QED BY <1>1, <2>1, <2>2 DEF modifyDBInstance
<1>2. CASE createDBSnapshot(h)
  <2>1. CASE InsertNamed(h, "putSnapshot")
    BY <1>0, <2>1, DataNames
  <2>2. CASE Answer(h, Promised(h)) /\ store' = store
    BY <2>2, RowsStay, DataAnswers DEF DataQuiet
  <2> QED BY <1>2, <2>1, <2>2, DataRests, DataBegins, DataGoesTo DEF createDBSnapshot
<1>3. CASE deleteDBSnapshot(h)
  BY <1>0, <1>3, DataNames DEF deleteDBSnapshot
<1>4. CASE Goto(h, "putDBInstance") /\ store' = store
  BY <1>4, DataGoesTo
<1> QED BY <1>1, <1>2, <1>3, <1>4, CreateDBAccounts, DeleteDBAccounts DEF SnapshotStep

\* PostgreSQL is brought up by a request, and handed to the service.
LEMMA BackendRegisters ==
  ASSUME NEW h, DataCtx(h), workload = "rds", At(h, "initBackend"), BackendReady(h), EndJob(h),
         UNCHANGED <<store, maps, trouble>>
  PROVE  AccountsInv'
<1>1. ReqShape /\ h \in Handler /\ DatabaseJob(h) /\ BackendsNamed /\ workload' = workload
  BY DataShape
<1>2. AllSound /\ h \in Runner /\ Calm' \subseteq Calm
  BY HandlerNow DEF DataCtx
<1>3. ReqIs(h, "putDBInstance", req[h].key, req[h].field, req[h].copy) /\ req[h].key[1] \notin NoKeys
  BY <1>1, DataShape, GotoIs DEF BackendReady, Key
<1>4. PICK c, b : c = job[h].container /\ b = Rds(req[h].field)
  OBVIOUS
<1>5. b[1] = "rds" /\ NameFor(b) = job[h].name /\ job[h].phase = "ready"
  BY <1>1, <1>4 DEF NameFor, Rds, DatabaseJob, BackendReady, InPhase
<1>6. /\ DOMAIN backends' = DOMAIN backends \cup {b} /\ backends'[b] = c
      /\ \A x \in DOMAIN backends : x # b => backends'[x] = backends[x]
      /\ job[h].name \in Calm => \A x \in DOMAIN backends : Live(backends[x]) => backends'[x] = backends[x]
      /\ BackendNamed(b)'
  BY <1>1, <1>2, <1>4, <1>5, RegisterKeeps DEF BackendReady
<1>7. HandlerMoves(h, NoJob) /\ job'[h] = NoJob
  <2>1. KeptOn
    <3>1. ASSUME NEW x \in DOMAIN backends, NEW d \in Container, d = backends[x], Live(d), NameOf(d) \in Calm'
          PROVE  x \in DOMAIN backends' /\ backends'[x] = d
      <4>1. x = b => NameOf(d) = job[h].name
        BY <1>1, <1>5, <3>1 DEF BackendsNamed, BackendNamed, NameFor
      <4> QED BY <1>2, <1>6, <3>1, <4>1
    <3> QED BY <3>1, DataShape, KeptByObjects
  <2>2. HandedOver(h)
    <3>1. c \in ListToShut("rds")'
      BY <1>5, <1>6 DEF ListToShut
    <3>2. "rds" \in Services'
      BY <1>1, RegistrationAssumption DEF Services, BackendsNamed
    <3>3. Kept(c)'
      BY <3>1, <3>2 DEF Kept
    <3> QED BY <1>4, <3>3 DEF HandedOver
  <2> QED BY <2>1, <2>2, DataShape, Ends DEF DataCtx
<1>8. BackendsNamed'
  <2>1. \A x \in DOMAIN backends' : BackendNamed(x)'
    <3> TAKE x \in DOMAIN backends'
    <3>1. CASE x = b
      BY <1>6, <3>1
    <3>2. CASE x # b
      <4>1. x \in DOMAIN backends /\ backends'[x] = backends[x]
        BY <1>6, <3>2
      <4> QED BY <1>1, <4>1 DEF BackendsNamed, BackendNamed
    <3> QED BY <3>1, <3>2
  <2>2. \A x \in DOMAIN backends' : x[1] \in {"eks", "gke"} => workload' = "clusters" /\ \E l \in ClusterKeys : x = BackendOf(l)
    BY <1>1, <1>5, <1>6 DEF BackendsNamed
  <2>3. server'.left \subseteq Container /\ workload' \in Workloads
    BY <1>1, HandlerNow DEF BackendsNamed, DataCtx
  <2> QED BY <2>1, <2>2, <2>3 DEF BackendsNamed
<1>9. DatabaseJob(h)' /\ Rows'
  BY <1>1, <1>3, <1>7, RowsStay DEF DatabaseJob, NoJob, ReqIs, At
<1> QED BY <1>3, <1>7, <1>8, <1>9, DatabaseGoes

LEMMA GetOrCreateAccounts ==
  ASSUME NEW h, DataCtx(h), workload = "rds", getOrCreateBackend(h)
  PROVE  AccountsInv'
<1>0. UNCHANGED <<store, maps>>
  BY DEF getOrCreateBackend, FindBackend
<1>1. ReqShape /\ h \in Handler /\ DatabaseJob(h) /\ Rows'
  BY <1>0, DataShape, RowsStay
<1>2. CASE Goto(h, "putDBInstance") /\ UNCHANGED <<job, trouble, backends>>
  BY <1>0, <1>2, DataGoesTo DEF DataQuiet
<1>3. CASE /\ At(h, "getOrCreateBackend") /\ Goto(h, "initBackend") /\ UNCHANGED backends
           /\ TakeJob(h, "make", req[h].field, "allocate", NoContainer)
  <2>1. ReqIs(h, "initBackend", req[h].key, req[h].field, req[h].copy) /\ req[h].key[1] \notin NoKeys
    BY <1>1, <1>3, DataShape, GotoIs DEF Key
  <2>2. PICK n \in Resource : n = req[h].field
    BY <1>1, <1>3, Constants DEF DataCtx, HandlerCtx, PortsInv, Asking
  <2>3. PICK j : j = NewJob("make", n, "allocate", NoContainer)
    OBVIOUS
  <2>4. HandlerMoves(h, j) /\ job'[h] = j
    BY <1>0, <1>3, <2>2, <2>3, TakesUp DEF DataCtx
  <2>5. DatabaseJob(h)'
    BY <1>1, <2>1, <2>2, <2>3, <2>4, DataShape DEF DatabaseJob, NewJob, ReqIs, At
  <2>6. BackendsNamed'
    BY <1>3, BackendsSame DEF DataCtx
  <2> QED BY <1>1, <2>1, <2>4, <2>5, <2>6, DatabaseGoes
<1>4. CASE At(h, "initBackend") /\ BackendReady(h) /\ EndJob(h) /\ trouble' = trouble
  BY <1>0, <1>4, BackendRegisters
<1>5. CASE BackendFailed(h) /\ EndJob(h) /\ trouble' = trouble
  <2>1. ReqIs(h, "idle", NoKey, "none", Blank) /\ NoKey[1] \notin NoKeys /\ backends' = backends
    BY <1>1, <1>5, AnswerIs DEF BackendFailed, NoKey, NoKeys
  <2>2. KeptOn /\ HandedOver(h)
    BY <1>5, <2>1, DataShape, KeptByObjects DEF BackendFailed, InPhase, HandedOver
  <2>3. HandlerMoves(h, NoJob) /\ job'[h] = NoJob
    BY <1>5, <2>2, DataShape, Ends DEF DataCtx
  <2>4. DatabaseJob(h)'
    BY <1>1, <2>1, <2>3 DEF DatabaseJob, NoJob, ReqIs, At
  <2>5. BackendsNamed'
    BY <2>1, BackendsSame DEF DataCtx
  <2> QED BY <1>1, <2>1, <2>3, <2>4, <2>5, DatabaseGoes
<1> QED BY <1>2, <1>3, <1>4, <1>5 DEF getOrCreateBackend, FindBackend
-----------------------------------------------------------------------------
LEMMA RequestsAccount ==
  ASSUME AccountsInv, PortsInv, Requests, UNCHANGED workload
  PROVE  AccountsInv'
<1>1. PICK h \in Handler : ServiceStep(h)
  BY DEF Requests
<1>2. Noted
  BY DEF Requests, Noted
<1>3. UNCHANGED <<containers, emptied>> /\ workload \notin {"clusters", "gce"} => DataCtx(h)
  BY <1>2 DEF DataCtx, HandlerCtx
<1>4. CASE workload = "rds" /\ RdsStep(h)
  <2>1. DataCtx(h)
    BY <1>3, <1>4 DEF RdsStep
  <2>2. UNCHANGED <<job, trouble, registry>> => DataQuiet(h)
    BY <2>1 DEF DataQuiet, registry
  <2> QED BY <1>4, <2>1, <2>2, GetOrCreateAccounts, CreateDBAccounts, DeleteDBAccounts DEF RdsStep
<1>5. CASE UNCHANGED <<engineVars, registry>> /\ workload \notin {"clusters", "gce"}
           /\ (SqlStep(h) \/ CacheStep(h) \/ GroupStep(h) \/ RedisStep(h) \/ SnapshotStep(h))
  <2>1. DataQuiet(h)
    BY <1>3, <1>5 DEF DataQuiet, engineVars, registry
  <2> QED BY <1>5, <2>1, SharedAccount, SnapshotAccounts
<1> QED BY <1>1, <1>2, <1>4, <1>5, ClusterAccounts, GceAccounts DEF ServiceStep

\* Reads, and steps that change nothing.
LEMMA ReadsAccount ==
  ASSUME AccountsInv, UNCHANGED <<store, maps, req, containers, emptied, job, trouble, backends, server, workload>>
  PROVE  AccountsInv'
<1> USE DEF AccountsInv
<1>1. Jobs'
  BY DEF Jobs, JobShape, NoJob, OneOfAName, EmptiedGone, Exists
<1>2. \A s : ListToShut(s)' = ListToShut(s)
  BY DEF ListToShut, GceContainer, Content
<1>3. \A n \in Calm' : Sound(n)'
  <2> SUFFICES ASSUME NEW n \in Calm PROVE Sound(n)'
    BY DEF Calm
  <2>1. Agree(n)' /\ OneUp(n)' /\ IsUp(n)' /\ IsDown(n)'
    BY DEF Sound, Agree, OneUp, IsUp, IsDown, Works, InPhase, Live
  <2>2. \A c \in Container : (Kept(c) => Kept(c)') /\ (Doomed(c) => Doomed(c)') /\ (InHand(c) => InHand(c)')
    BY <1>2 DEF Kept, Services, Doomed, InHand
  <2>3. Accounted(n)'
    BY <2>2 DEF Sound, Accounted, Live
  <2> QED BY <2>1, <2>3 DEF Sound
<1>4. BackendsNamed' /\ ServerJobs'
  BY DEF BackendsNamed, BackendNamed, ServerJobs, Services, NoJob
<1>5. Linked'
  <2>1. Shapes => Shapes'
    BY ShapesSame
  <2>2. \A g \in Handler : (ClusterJob(g) => ClusterJob(g)') /\ (InstanceJob(g) => InstanceJob(g)')
    BY DEF ClusterJob, InstanceJob, At, Key, InPhase, NoJob
  <2>3. DatabaseJobs => DatabaseJobs'
    BY DEF DatabaseJobs, ReqShape, Rec, DatabaseJob, At, Key, NoJob
  <2> QED BY <2>1, <2>2, <2>3 DEF Linked
<1>6. Instances'
  BY DEF Instances, InstanceSound, InPhase, Key, Calm
<1>7. Up' => \A n \in Calm' : Matching(n)'
  <2> SUFFICES ASSUME Up', NEW n \in Calm' PROVE Matching(n)'
    OBVIOUS
  <2>1. Matching(n)
    BY DEF Up, Calm
  <2>2. Claims(n)' = Claims(n)
    BY DEF Claims, Works, Key
  <2>3. ObjectsRun(n) => ObjectsRun(n)'
    BY DEF ObjectsRun, Live, Works, InPhase
  <2>4. RecordsMatch(n) => RecordsMatch(n)'
    BY DEF RecordsMatch, Works, InPhase
  <2> QED BY <2>1, <2>2, <2>3, <2>4 DEF Matching, OneCluster
<1>8. Shutting'
  BY <1>2 DEF Shutting, Scheduled, Doomed, Live, Calm
<1> QED BY <1>1, <1>3, <1>4, <1>5, <1>6, <1>7, <1>8
-----------------------------------------------------------------------------
(* The server's own steps: they leave the records and the containers alone. *)
ServerCtx == /\ AccountsInv /\ PortsInv
             /\ UNCHANGED <<store, maps, req, containers, emptied, workload>>

LEMMA ServerNow ==
  ASSUME ServerCtx
  PROVE  /\ Server \in Runner /\ EngineInv /\ AllSound /\ JobShape(Server)
         /\ server = [pc |-> server.pc, services |-> server.services, left |-> server.left, late |-> server.late]
         /\ workload \in Workloads /\ BackendsNamed /\ ServerJobs /\ Registered[workload] \in Seq(STRING)
  BY Constants, BackendsAssumption
     DEF ServerCtx, PortsInv, EngineInv, ServerTypeOK, AccountsInv, AllSound, Jobs, BackendsNamed

\* All but what the server knows itself.
LEMMA ServerGoes ==
  ASSUME ServerCtx, NEW j, JobMoves(Server, j), BackendsNamed', ServerJobs', Shutting', Up' => Up,
         \A b : b[1] \in {"eks", "gke"} =>
           /\ (b \in DOMAIN backends' <=> b \in DOMAIN backends)
           /\ (b \in DOMAIN backends => backends'[b] = backends[b])
  PROVE  AccountsInv'
<1> USE DEF ServerCtx, AccountsInv
<1>1. StaySound
  BY ServerNow, JobSound
<1>2. /\ \A h \in Handler : job'[h] = job[h]
      /\ Calm' \subseteq Calm
  BY Constants DEF JobMoves, OnlyJob, Calm
<1>3. Linked'
  <2>1. Shapes => Shapes'
    BY ShapesSame
  <2>2. \A g \in Handler : (ClusterJob(g) => ClusterJob(g)') /\ (InstanceJob(g) => InstanceJob(g)')
    BY <1>2 DEF ClusterJob, InstanceJob, At, Key, InPhase
  <2>3. DatabaseJobs => DatabaseJobs'
    BY <1>2 DEF DatabaseJobs, ReqShape, Rec, DatabaseJob, At, Key
  <2> QED BY <2>1, <2>2, <2>3 DEF Linked
<1>4. Instances'
  BY <1>2 DEF Instances, InstanceSound, InPhase, Key
<1>5. Up' => \A n \in Calm' : Matching(n)'
  <2> SUFFICES ASSUME Up', NEW n \in Calm' PROVE Matching(n)'
    OBVIOUS
  <2>1. Matching(n)
    BY <1>2
  <2>2. Claims(n)' \subseteq Claims(n)
    <3>1. \A k \in ClusterKeys : BackendOf(k) \in DOMAIN backends' <=> BackendOf(k) \in DOMAIN backends
      BY DEF ClusterKeys, EksKeys, GkeKeys, BackendOf, ServiceOf
    <3>2. \A g \in Handler : /\ Works(g, n)' <=> Works(g, n)
                             /\ job'[g] = job[g] /\ Key(g)' = Key(g)
      BY <1>2 DEF Works, Key
    <3> QED BY <3>1, <3>2 DEF Claims
  <2>3. ObjectsRun(n) => ObjectsRun(n)'
    BY <1>2 DEF ObjectsRun, Live, Works, InPhase
  <2>4. RecordsMatch(n) => RecordsMatch(n)'
    BY <1>2 DEF RecordsMatch, Works, InPhase
  <2> QED BY <2>1, <2>2, <2>3, <2>4 DEF Matching, OneCluster
<1> QED BY <1>1, <1>3, <1>4, <1>5 DEF StaySound

LEMMA ServerRemains ==
  ASSUME ServerCtx, UNCHANGED <<job, trouble, backends>>
  PROVE  /\ JobMoves(Server, job[Server]) /\ Calm' = Calm
         /\ \A s : ListToShut(s)' = ListToShut(s)
<1>1. OnlyJob(Server, job[Server]) /\ JobShape(Server)
  BY ServerNow, JobAt DEF OnlyJob
<1>2. KeptOn
  BY ShutsSame DEF ServerCtx
<1>3. HandedOver(Server)
  BY ServerNow DEF HandedOver, InHand
<1>4. \A s : ListToShut(s)' = ListToShut(s)
  BY SameServices DEF ServerCtx
<1> QED BY <1>1, <1>2, <1>3, <1>4 DEF JobMoves, GoodJob, JobShape, NoJob, ServerCtx, Calm

LEMMA SameBackends ==
  ASSUME ServerCtx, backends' = backends, server'.left \subseteq Container
  PROVE  BackendsNamed'
  BY ServerNow DEF BackendsNamed, BackendNamed, ServerCtx

(* InitAll.                                                                 *)
LEMMA InitGoesOn ==
  ASSUME ServerCtx, server.pc = "init", server.services \in Seq(STRING), server.services # <<>>, NextService
  PROVE  /\ server'.pc = "init" /\ server'.left = {} /\ Up
         /\ \A i \in 1 .. Len(server'.services) : server'.services[i] \in Services'
         /\ Current \in Services
<1>1. server' = [pc |-> "init", services |-> Tail(server.services), left |-> {}, late |-> server.late]
  BY ServerNow DEF NextService
<1>2. Services' = Services
  BY DEF Services, ServerCtx
<1>3. \A i \in 1 .. Len(server.services) : server.services[i] \in Services
  BY ServerNow DEF ServerJobs
<1>4. \A i \in 1 .. Len(Tail(server.services)) : /\ Tail(server.services)[i] = server.services[i + 1]
                                                /\ i + 1 \in 1 .. Len(server.services)
  OBVIOUS
<1>5. Current = server.services[1] /\ 1 \in 1 .. Len(server.services)
  BY DEF Current
<1> QED BY <1>1, <1>2, <1>3, <1>4, <1>5 DEF Up

LEMMA InitStarts ==
  ASSUME ServerCtx, TellingInv, NEW service, NEW engine, <<service, engine>> \in StartedEngine, StartEngine(service, engine)
  PROVE  AccountsInv'
<1>0. server.pc = "init" /\ server.services # <<>> /\ Current = service /\ Up
  BY DEF StartEngine, Initialising, Up
<1>1. server.services \in Seq(STRING) /\ ServerTold
  BY <1>0 DEF TellingInv, AllTold, EnginesTold, InOrder
<1>2. /\ engine \in EngineName /\ engine \in Resource /\ service \notin {"eks", "gke", "compute"}
      /\ \A e : <<service, e>> \in StartedEngine => e = engine
  BY BackendsAssumption DEF StartedEngine, EngineName
<1>3. CASE TakeJob(Server, "make", engine, "allocate", NoContainer) /\ UNCHANGED <<backends, server>>
  <2>1. PICK j : j = NewJob("make", engine, "allocate", NoContainer)
    OBVIOUS
  <2>2. /\ j.kind = "make" /\ j.phase = "allocate" /\ j.name = engine
    BY <2>1 DEF NewJob
  <2>3. OnlyJob(Server, j) /\ job[Server] = NoJob
    BY <1>2, <1>3, <2>1, ServerNow, TakeJobOnly DEF TakeJob
  <2>4. job'[Server] = j
    BY <2>3, ServerNow DEF OnlyJob
  <2>5. JobShape(Server)'
    BY <2>2, <2>4 DEF JobShape, Kinds, Past
  <2>6. GoodJob(Server, j)
    <3>1. j.name \in trouble' \/ \A q \in Runner \ {Server} : Works(q, j.name) => job[q].kind = j.kind
      BY <1>3, <2>2 DEF TakeJob, Others, Works
    <3> QED BY <2>2, <2>3, <3>1 DEF GoodJob, Past
  <2>7. KeptOn /\ HandedOver(Server)
    BY <1>3, <2>3, ShutsSame DEF ServerCtx, HandedOver, NoJob
  <2>8. trouble \subseteq trouble' /\ job[Server].phase \notin Downs
    BY <1>3, <2>3 DEF TakeJob, NoJob, Downs
  <2>9. JobMoves(Server, j)
    BY <2>3, <2>5, <2>6, <2>7, <2>8 DEF JobMoves, ServerCtx
  <2>10. ServerJobs' /\ Shutting'
    BY <1>0, <1>3, <2>2, <2>4, ServerNow DEF ServerJobs, Shutting, Services, ServerCtx
  <2>11. BackendsNamed'
    BY <1>3, ServerNow, SameBackends DEF BackendsNamed
  <2> QED BY <1>0, <1>3, <2>9, <2>10, <2>11, ServerGoes
<1>4. CASE /\ InPhase(Server, "ready") /\ Register(<<service, engine>>, job[Server].container)
           /\ EndJob(Server) /\ NextService /\ UNCHANGED trouble
  <2>1. PICK c, b : c = job[Server].container /\ b = <<service, engine>> /\ b[1] = service
    OBVIOUS
  <2>2. job[Server].phase = "ready" /\ job[Server].name = engine /\ NameFor(b) = job[Server].name
    <3>1. job[Server] # NoJob
      BY <1>4 DEF InPhase, NoJob
    <3> QED BY <1>0, <1>1, <1>2, <1>4, <2>1, <3>1 DEF ServerTold, InPhase, NameFor
  <2>3. /\ DOMAIN backends' = DOMAIN backends \cup {b} /\ backends'[b] = c
        /\ \A x \in DOMAIN backends : x # b => backends'[x] = backends[x]
        /\ engine \in Calm => \A x \in DOMAIN backends : Live(backends[x]) => backends'[x] = backends[x]
        /\ BackendNamed(b)'
    BY <1>4, <2>1, <2>2, ServerNow, RegisterKeeps
  <2>4. OnlyJob(Server, NoJob)
    BY <1>4, ServerNow, EndJobOnly
  <2>5. job'[Server] = NoJob
    BY <2>4, ServerNow DEF OnlyJob
  <2>6. JobShape(Server)'
    BY <2>5 DEF JobShape, NoJob, Kinds, Past
  <2>7. KeptOn
    <3> SUFFICES ASSUME NEW d \in Container, Live(d), NameOf(d) \in Calm', NEW s, d \in ListToShut(s)
                 PROVE  d \in ListToShut(s)'
      BY DEF KeptOn
    <3>1. CASE s = "compute"
      BY <3>1 DEF ListToShut, GceContainer, Content, ServerCtx
    <3>2. CASE s # "compute"
      <4>1. PICK x \in DOMAIN backends : x[1] = s /\ backends[x] = d
        BY <3>2 DEF ListToShut
      <4>2. x = b => NameOf(d) = engine
        BY <2>2, <4>1, ServerNow DEF BackendsNamed, BackendNamed, NameFor
      <4>3. NameOf(d) \in Calm
        BY <1>4 DEF Calm
      <4>4. backends'[x] = d /\ x \in DOMAIN backends'
        BY <2>3, <4>1, <4>2, <4>3
      <4> QED BY <3>2, <4>1, <4>4 DEF ListToShut
    <3> QED BY <3>1, <3>2
  <2>8. HandedOver(Server)
    <3>1. c \in ListToShut(service)'
      BY <1>2, <2>1, <2>3 DEF ListToShut
    <3>2. service \in Services'
      BY <1>0, <1>1, <1>4, InitGoesOn DEF Services, ServerCtx
    <3> QED BY <2>1, <3>1, <3>2 DEF HandedOver, Kept
  <2>9. JobMoves(Server, NoJob)
    BY <1>4, <2>2, <2>4, <2>6, <2>7, <2>8 DEF JobMoves, ServerCtx, GoodJob, Downs
  <2>10. ServerJobs' /\ Shutting'
    BY <1>0, <1>1, <1>4, <2>5, InitGoesOn DEF ServerJobs, Shutting, NoJob
  <2>11. BackendsNamed'
    <3>1. \A x \in DOMAIN backends' : BackendNamed(x)'
      <4> TAKE x \in DOMAIN backends'
      <4>1. CASE x = b
        BY <2>3, <4>1
      <4>2. CASE x # b
        <5>1. x \in DOMAIN backends /\ backends'[x] = backends[x]
          BY <2>3, <4>2
        <5> QED BY <5>1, ServerNow DEF BackendsNamed, BackendNamed
      <4> QED BY <4>1, <4>2
    <3>2. \A x \in DOMAIN backends' : x[1] \in {"eks", "gke"} => workload' = "clusters" /\ \E l \in ClusterKeys : x = BackendOf(l)
      BY <1>2, <2>1, <2>3, ServerNow DEF BackendsNamed, ServerCtx
    <3>3. server'.left \subseteq Container /\ workload' \in Workloads
      BY <1>0, <1>1, <1>4, ServerNow, InitGoesOn DEF ServerCtx
    <3> QED BY <3>1, <3>2, <3>3 DEF BackendsNamed
  <2>12. \A x : x[1] \in {"eks", "gke"} =>
           /\ (x \in DOMAIN backends' <=> x \in DOMAIN backends)
           /\ (x \in DOMAIN backends => backends'[x] = backends[x])
    BY <1>2, <2>1, <2>3
  <2> QED BY <1>0, <2>9, <2>10, <2>11, <2>12, ServerGoes
<1> QED BY <1>3, <1>4 DEF StartEngine

LEMMA InitAllAccounts ==
  ASSUME ServerCtx, TellingInv, InitAll
  PROVE  AccountsInv'
<1>0. server.pc = "init" => /\ server.services \in Seq(STRING)
                            /\ (job[Server] # NoJob => server.services # <<>>)
  BY DEF TellingInv, AllTold, EnginesTold, InOrder, ServerTold, Up
<1>1. CASE InitS3 \/ InitElasticache \/ InitRds \/ InitDynamodb
  BY <1>1, InitStarts DEF InitS3, InitElasticache, InitRds, InitDynamodb, StartedEngine
<1>2. CASE Initialising /\ UNCHANGED <<job, trouble, backends>> /\ NextService
  <2>1. /\ server'.pc = "init" /\ server'.left = {} /\ Up
        /\ \A i \in 1 .. Len(server'.services) : server'.services[i] \in Services'
    BY <1>0, <1>2, InitGoesOn DEF Initialising
  <2>2. ServerJobs' /\ Shutting'
    BY <1>2, <2>1, ServerNow DEF ServerJobs, Shutting, Initialising
  <2>3. BackendsNamed'
    BY <1>2, <2>1, SameBackends
  <2> QED BY <1>2, <2>1, <2>2, <2>3, ServerRemains, ServerGoes
<1>3. CASE EngineFailed
  <2>1. server'.pc = "failed" /\ server'.left = server.left /\ UNCHANGED <<job, trouble, backends>>
    BY <1>3, ServerNow DEF EngineFailed
  <2>2. ServerJobs' /\ Shutting' /\ ~Up'
    BY <2>1 DEF ServerJobs, Shutting, Up
  <2>3. BackendsNamed'
    BY <2>1, ServerNow, SameBackends DEF BackendsNamed
  <2> QED BY <2>1, <2>2, <2>3, ServerRemains, ServerGoes
<1>4. CASE Serve
  <2>1. server'.pc = "serving" /\ server'.left = server.left /\ UNCHANGED <<job, trouble, backends>>
    BY <1>4, ServerNow DEF Serve
  <2>2. ServerJobs' /\ Shutting' /\ Up
    BY <1>0, <1>4, <2>1 DEF ServerJobs, Shutting, Up, Serve
  <2>3. BackendsNamed'
    BY <2>1, ServerNow, SameBackends DEF BackendsNamed
  <2> QED BY <2>1, <2>2, <2>3, ServerRemains, ServerGoes
<1>5. CASE InitCloudSql \/ InitMemorystore
  BY <1>2, <1>5 DEF InitCloudSql, InitMemorystore, ReadAddresses
<1>6. CASE NothingToStart
  BY <1>2, <1>6 DEF NothingToStart
<1> QED BY <1>1, <1>3, <1>4, <1>5, <1>6 DEF InitAll
(* ShutdownAll.                                                             *)
LEMMA ListedContainers ==
  ASSUME ServerCtx, NEW s
  PROVE  ListToShut(s) \subseteq Container
<1> SUFFICES ASSUME NEW c \in ListToShut(s) PROVE c \in Container
  OBVIOUS
<1>1. CASE s # "compute"
  BY <1>1, ServerNow DEF ListToShut, EngineInv, HeldHaveRun, Held
<1>2. CASE s = "compute"
  <2>1. PICK k \in DOMAIN store : k[1] = "gce" /\ c = GceContainer(store[k])
    BY <1>2 DEF ListToShut
  <2>2. workload \in {"clusters", "gce"}
    BY <2>1 DEF ServerCtx, AccountsInv, Linked, DatabaseJobs, NoKeys
  <2>3. PICK d \in Container : Owns(k, d)
    BY <2>2, ItsOwn DEF ServerCtx, AccountsInv, Linked
  <2> QED BY <2>1, <2>3 DEF Owns
<1> QED BY <1>1, <1>2

LEMMA SignalAccounts ==
  ASSUME ServerCtx, Signal, backends' = backends
  PROVE  AccountsInv'
<1>1. UNCHANGED <<job, trouble, backends>> /\ server.pc = "serving" /\ server.left = {}
  BY ServerNow DEF Signal, EngineInv, ServerTypeOK
<1>2. PICK service \in Seq(STRING) : service = Registered[workload]
  BY ServerNow
<1>3. server' = [pc |-> "closing", services |-> Seqs!Reverse(service), left |-> {}, late |-> Makers]
  BY <1>1, <1>2, ServerNow DEF Signal
<1>4. Seqs!Reverse(service) = [i \in 1 .. Len(service) |-> service[(Len(service) - i) + 1]]
  BY DEF Seqs!Reverse
<1>5. /\ Seqs!Reverse(service) \in Seq(STRING) /\ Len(Seqs!Reverse(service)) = Len(service)
      /\ \A i \in 1 .. Len(service) : \E j \in 1 .. Len(service) : Seqs!Reverse(service)[j] = service[i]
  <2>1. Seqs!Reverse(service) \in Seq(STRING) /\ Len(Seqs!Reverse(service)) = Len(service)
    BY <1>4
  <2>2. ASSUME NEW i \in 1 .. Len(service)
        PROVE  \E j \in 1 .. Len(service) : Seqs!Reverse(service)[j] = service[i]
    <3>1. PICK j \in 1 .. Len(service) : (Len(service) - j) + 1 = i
      <4>1. (Len(service) - i) + 1 \in 1 .. Len(service) /\ (Len(service) - ((Len(service) - i) + 1)) + 1 = i
        OBVIOUS
      <4> QED BY <4>1
    <3> QED BY <1>4, <3>1
  <2> QED BY <2>1, <2>2
<1>6. job[Server] = NoJob
  BY <1>1, ServerNow DEF ServerJobs
<1>7. ServerJobs'
  BY <1>1, <1>3, <1>5, <1>6 DEF ServerJobs, NoJob
<1>8. Shutting'
  <2>1. \A h \in Handler : job'[h].kind = "make" => job'[h].name \in server'.late
    BY <1>1, <1>3 DEF Makers
  <2>2. ASSUME NEW c \in Container, Live(c), NameOf(c) \in Calm \ Makers PROVE Doomed(c)' \/ Scheduled(c)'
    <3>1. Kept(c) \/ Doomed(c) \/ InHand(c)
      BY <2>2 DEF ServerCtx, AccountsInv, Sound, Accounted
    <3>2. ~InHand(c)
      <4> SUFFICES ASSUME NEW r \in Runner, job[r].phase \in {"wait", "ready"}, job[r].container = c PROVE FALSE
        BY DEF InHand
      <4>1. job[r].kind = "make" /\ job[r].name = NameOf(c)
        BY Shapely DEF ServerCtx, AccountsInv, Jobs, Past
      <4>2. r \in Handler
        BY <1>6, <4>1, BackendsAssumption DEF NoJob
      <4> QED BY <2>2, <4>1, <4>2 DEF Makers
    <3>3. CASE Kept(c)
      <4>1. PICK i \in 1 .. Len(service) : c \in ListToShut(service[i])
        BY <1>2, <3>3 DEF Kept, Services
      <4>2. PICK j \in 1 .. Len(service) : Seqs!Reverse(service)[j] = service[i]
        BY <1>5
      <4>3. PICK s : s = service[i] /\ c \in ListToShut(s)'
        BY <1>1, <4>1, ServerRemains
      <4>4. server'.services = Seqs!Reverse(service) /\ server'.left = {}
        BY <1>3
      <4>5. j \in 1 .. Len(server'.services) /\ server'.services[j] = s
        BY <1>5, <4>2, <4>3, <4>4
      <4>6. Scheduled(c)'
        BY <4>3, <4>4, <4>5 DEF Scheduled
      <4> QED BY <4>6
    <3>4. CASE Doomed(c)
      BY <1>1, <3>4 DEF Doomed
    <3> QED BY <3>1, <3>2, <3>3, <3>4
  <2>3. Calm' = Calm /\ server'.late = Makers /\ \A c \in Container : Live(c)' <=> Live(c)
    BY <1>1, <1>3 DEF Calm, Live, ServerCtx
  <2> QED BY <2>1, <2>2, <2>3 DEF Shutting
<1>9. ~Up' /\ BackendsNamed'
  BY <1>3, SameBackends DEF Up
<1> QED BY <1>1, <1>7, <1>8, <1>9, ServerRemains, ServerGoes

\* The shutdown goes on to the next service, of whose list nothing runs on.
LEMMA ShutsNext ==
  ASSUME ServerCtx, Closing, server.services \in Seq(STRING),
         NextService, Calm' \subseteq Calm, UNCHANGED backends,
         \A r \in Runner : job[r].phase \in Downs => job'[r] = job[r],
         \A c \in Container : Live(c) /\ NameOf(c) \in Calm \ server.late /\ Scheduled(c) =>
           \E i \in 2 .. Len(server.services) : c \in ListToShut(server.services[i]),
         \A h \in Handler : job'[h] = job[h]
  PROVE  Shutting' /\ server'.pc = "closing" /\ server'.left = {} /\ server'.services \in Seq(STRING)
<1>1. server' = [pc |-> "closing", services |-> Tail(server.services), left |-> {}, late |-> server.late]
  BY ServerNow DEF NextService, Closing
<1>2. /\ Tail(server.services) \in Seq(STRING)
      /\ \A i \in 2 .. Len(server.services) : /\ i - 1 \in 1 .. Len(Tail(server.services))
                                              /\ Tail(server.services)[i - 1] = server.services[i]
  <2>1. PICK q \in Seq(STRING) : q = server.services /\ q # <<>>
    BY DEF Closing
  <2>2. /\ Tail(q) \in Seq(STRING) /\ Len(Tail(q)) = Len(q) - 1 /\ Len(q) \in Nat
        /\ \A i \in 1 .. Len(Tail(q)) : Tail(q)[i] = q[i + 1]
    BY <2>1, TailOf
  <2>3. ASSUME NEW i \in 2 .. Len(q) PROVE i - 1 \in 1 .. Len(Tail(q)) /\ Tail(q)[i - 1] = q[i]
    <3>1. i - 1 \in 1 .. Len(Tail(q)) /\ (i - 1) + 1 = i
      BY <2>2
    <3> QED BY <2>2, <3>1
  <2> QED BY <2>1, <2>2, <2>3
<1>3. Shutting
  BY DEF ServerCtx, AccountsInv
<1>4. ASSUME NEW c \in Container, Live(c), NameOf(c) \in Calm \ server.late PROVE Doomed(c)' \/ Scheduled(c)'
  <2>1. Doomed(c) \/ Scheduled(c)
    BY <1>3, <1>4 DEF Shutting, Closing
  <2>2. CASE Doomed(c)
    BY <2>2 DEF Doomed
  <2>3. CASE Scheduled(c)
    <3>1. PICK i \in 2 .. Len(server.services) : c \in ListToShut(server.services[i])
      BY <1>4, <2>3
    <3>2. PICK s : s = server.services[i] /\ c \in ListToShut(s)'
      BY <3>1, SameServices DEF ServerCtx
    <3>3. PICK j \in 1 .. Len(server'.services) : server'.services[j] = s
      BY <1>1, <1>2, <3>2
    <3>4. server'.left = {}
      BY <1>1
    <3> QED BY <3>2, <3>3, <3>4 DEF Scheduled
  <2> QED BY <2>1, <2>2, <2>3
<1>5. \A h \in Handler : job'[h].kind = "make" => job'[h].name \in server.late
  BY <1>3 DEF Shutting, Closing
<1>6. \A c \in Container : Live(c)' => Live(c)
  BY DEF Live, ServerCtx
<1>7. Shutting'
  BY <1>1, <1>4, <1>5, <1>6 DEF Shutting
<1> QED BY <1>1, <1>2, <1>7

LEMMA ListingAccounts ==
  ASSUME ServerCtx, EnterShutdown \/ NothingToShut \/ Exit, backends' = backends
  PROVE  AccountsInv'
<1>1. UNCHANGED <<job, trouble, backends>> /\ server.pc = "closing" /\ Calm' = Calm
  BY DEF EnterShutdown, NothingToShut, Exit, Closing, Calm
<1>2. server.services \in Seq(STRING) /\ Shutting /\ ServerJobs
  BY <1>1, ServerNow DEF ServerJobs, ServerCtx, AccountsInv
<1>3. \A c \in Container : (Live(c)' <=> Live(c)) /\ (Doomed(c)' <=> Doomed(c))
  BY <1>1 DEF Live, Doomed, ServerCtx
<1>4. \A s : ListToShut(s)' = ListToShut(s)
  BY <1>1, ServerRemains
<1>5. CASE EnterShutdown
  <2>1. /\ server.left = {} /\ job[Server] = NoJob
        /\ server' = [pc |-> "closing", services |-> server.services, left |-> ListToShut(Current), late |-> server.late]
    BY <1>1, <1>5, ServerNow DEF EnterShutdown
  <2>2. Current = server.services[1]
    BY DEF Current
  <2>3. \A c \in Container : Scheduled(c) => Scheduled(c)'
    <3> SUFFICES ASSUME NEW c \in Container, NEW i \in 1 .. Len(server.services), c \in ListToShut(server.services[i])
                 PROVE  Scheduled(c)'
      BY DEF Scheduled
    <3>1. PICK s : s = server.services[i] /\ c \in ListToShut(s)'
      BY <1>4
    <3>2. server'.services = server.services /\ server'.left = ListToShut(Current)
      BY <2>1
    <3>3. i = 1 => c \in server'.left
      BY <2>2, <3>2
    <3> QED BY <3>1, <3>2, <3>3 DEF Scheduled
  <2>4. Shutting'
    BY <1>1, <1>2, <1>3, <2>1, <2>3 DEF Shutting
  <2>5. ServerJobs'
    BY <1>1, <1>2, <2>1 DEF ServerJobs, NoJob
  <2>6. ~Up' /\ BackendsNamed'
    BY <1>1, <2>1, ListedContainers, SameBackends DEF Up
  <2> QED BY <1>1, <2>4, <2>5, <2>6, ServerRemains, ServerGoes
<1>6. CASE NothingToShut
  <2>1. server.left = {} /\ ListToShut(Current) = {} /\ job[Server] = NoJob /\ Closing /\ NextService
    BY <1>6 DEF NothingToShut
  <2>2. Current = server.services[1]
    BY DEF Current
  <2>3. \A c \in Container : Scheduled(c) => \E i \in 2 .. Len(server.services) : c \in ListToShut(server.services[i])
    <3> SUFFICES ASSUME NEW c \in Container, NEW i \in 1 .. Len(server.services), c \in ListToShut(server.services[i])
                 PROVE  i \in 2 .. Len(server.services)
      BY DEF Scheduled
    <3>1. i # 1
      BY <2>1, <2>2
    <3> QED BY <1>2, <3>1
  <2>4. Shutting' /\ server'.pc = "closing" /\ server'.left = {} /\ server'.services \in Seq(STRING)
    BY <1>1, <1>2, <2>1, <2>3, ShutsNext
  <2>5. ServerJobs'
    BY <1>1, <2>1, <2>4 DEF ServerJobs, NoJob
  <2>6. ~Up' /\ BackendsNamed'
    BY <1>1, <2>4, SameBackends DEF Up
  <2> QED BY <1>1, <2>4, <2>5, <2>6, ServerRemains, ServerGoes
<1>7. CASE Exit
  <2>1. /\ server' = [pc |-> "exited", services |-> server.services, left |-> server.left, late |-> server.late]
        /\ server.services = <<>>
    BY <1>7, ServerNow DEF Exit
  <2>2. ServerJobs'
    BY <1>1, <1>2, <2>1 DEF ServerJobs
  <2>3. \A c \in Container : ~Scheduled(c)
    BY <2>1 DEF Scheduled
  <2>4. Shutting'
    BY <1>1, <1>2, <1>3, <2>1, <2>3 DEF Shutting
  <2>5. ~Up' /\ BackendsNamed'
    BY <1>1, <2>1, ServerNow, SameBackends DEF Up, BackendsNamed
  <2> QED BY <1>1, <2>2, <2>4, <2>5, ServerRemains, ServerGoes
<1> QED BY <1>5, <1>6, <1>7

LEMMA ShutOneAccounts ==
  ASSUME ServerCtx, ShutOne, backends' = backends
  PROVE  AccountsInv'
<1>0. server' = server /\ server.pc = "closing"
  BY DEF ShutOne, Closing
<1>1. PICK c \in server.left :
        TakeJob(Server, "unmake", NameOf(c), IF Current = "compute" THEN "stopIt" ELSE "stop", c)
  BY DEF ShutOne
<1>2. PICK p \in {"stopIt", "stop"} : p = (IF Current = "compute" THEN "stopIt" ELSE "stop")
  OBVIOUS
<1>3. c \in Container /\ NameOf(c) \in Resource
  BY ServerNow, Constants DEF BackendsNamed
<1>4. PICK j : j = NewJob("unmake", NameOf(c), p, c)
  OBVIOUS
<1>5. j.kind = "unmake" /\ j.name = NameOf(c) /\ j.phase = p /\ j.container = c
  BY <1>4 DEF NewJob
<1>6. OnlyJob(Server, j) /\ job[Server] = NoJob /\ trouble \subseteq trouble'
  BY <1>1, <1>2, <1>3, <1>4, ServerNow, TakeJobOnly DEF TakeJob
<1>7. job'[Server] = j
  BY <1>6, ServerNow DEF OnlyJob
<1>8. JobShape(Server)'
  BY <1>2, <1>3, <1>5, <1>7 DEF JobShape, Kinds, Past, Downs
<1>9. GoodJob(Server, j)
  <2>1. j.name \in trouble' \/ \A q \in Runner \ {Server} : Works(q, j.name) => job[q].kind = j.kind
    BY <1>1, <1>5 DEF TakeJob, Others, Works
  <2> QED BY <1>2, <1>5, <1>6, <2>1 DEF GoodJob, Past
<1>10. KeptOn /\ HandedOver(Server) /\ job[Server].phase \notin Downs
  BY <1>6, ShutsSame DEF ServerCtx, HandedOver, NoJob, Downs
<1>11. JobMoves(Server, j)
  BY <1>6, <1>8, <1>9, <1>10 DEF JobMoves, ServerCtx
<1>12. ServerJobs'
  BY <1>0, <1>5, <1>7, ServerNow DEF ServerJobs
<1>13. \A s : ListToShut(s)' = ListToShut(s)
  BY SameServices DEF ServerCtx
<1>14. \A r \in Runner : job[r].phase \in Downs => job'[r] = job[r]
  BY <1>6, <1>10, ServerNow DEF OnlyJob
<1>15. \A d \in Container : (Doomed(d) => Doomed(d)') /\ (Scheduled(d) => Scheduled(d)') /\ (Live(d)' <=> Live(d))
  BY <1>0, <1>13, <1>14 DEF Doomed, Scheduled, Live, ServerCtx
<1>16. \A h \in Handler : job'[h] = job[h]
  BY <1>6, Constants DEF OnlyJob
<1>17. Shutting' /\ BackendsNamed' /\ ~Up'
  <2>1. Shutting /\ Calm' \subseteq Calm
    BY <1>6 DEF Calm, ServerCtx, AccountsInv
  <2> QED BY <1>0, <1>15, <1>16, <2>1, ServerNow, SameBackends DEF Shutting, BackendsNamed, Up
<1> QED BY <1>11, <1>12, <1>17, ServerGoes

\* One that is down is crossed off; it does not run, if its name is calm.
LEMMA OneShutAccounts ==
  ASSUME ServerCtx, OneShut, backends' = backends
  PROVE  AccountsInv'
<1>0. /\ server.pc = "closing" /\ Closing /\ job[Server].phase = "closed" /\ EndJob(Server) /\ UNCHANGED <<trouble, backends>>
      /\ Calm' = Calm
  BY DEF OneShut, Closing, InPhase, Calm
<1>1. PICK c : c = job[Server].container
  OBVIOUS
<1>2. /\ c \in server.left /\ server.services \in Seq(STRING) /\ Shutting
  BY <1>0, <1>1, ServerNow DEF ServerJobs, NoJob, ServerCtx, AccountsInv
<1>3. /\ c \in Container /\ job[Server].kind = "unmake" /\ NameOf(c) = job[Server].name
  BY <1>0, <1>1, ServerNow, Shapely
<1>4. NameOf(c) \in Calm => ~Live(c)
  <2>1. Works(Server, NameOf(c)) /\ InPhase(Server, "closed")
    BY <1>0, <1>3 DEF Works, InPhase
  <2> QED BY <1>1, <2>1, ServerNow DEF AllSound, Sound, IsDown
<1>5. OnlyJob(Server, NoJob)
  BY <1>0, ServerNow, EndJobOnly
<1>6. job'[Server] = NoJob /\ \A r \in Runner \ {Server} : job'[r] = job[r]
  BY <1>5, ServerNow DEF OnlyJob
<1>7. JobMoves(Server, NoJob)
  <2>1. JobShape(Server)'
    BY <1>6 DEF JobShape, NoJob, Kinds, Past
  <2>2. KeptOn /\ HandedOver(Server)
    BY <1>0, ShutsSame DEF ServerCtx, HandedOver
  <2>3. job[Server].phase \notin Downs
    BY <1>0 DEF Downs
  <2> QED BY <1>0, <1>5, <2>1, <2>2, <2>3 DEF JobMoves, GoodJob, ServerCtx
<1>8. \A h \in Handler : job'[h] = job[h]
  BY <1>6, Constants
<1>9. \A r \in Runner : job[r].phase \in Downs => job'[r] = job[r]
  BY <1>0, <1>6 DEF Downs
<1>10. CASE server.left \ {c} # {}
  <2>1. server' = [pc |-> "closing", services |-> server.services, left |-> server.left \ {c}, late |-> server.late]
    BY <1>0, <1>1, <1>10, ServerNow DEF OneShut
  <2>2. ASSUME NEW d \in Container, Live(d), NameOf(d) \in Calm, Scheduled(d) PROVE Scheduled(d)'
    <3>0. d # c /\ \A s : ListToShut(s)' = ListToShut(s)
      BY <1>0, <1>4, <2>2, SameServices DEF ServerCtx
    <3>1. PICK i \in 1 .. Len(server.services) : /\ d \in ListToShut(server.services[i])
                                                 /\ i = 1 => server.left = {} \/ d \in server.left
      BY <2>2 DEF Scheduled
    <3>2. PICK s : s = server.services[i] /\ d \in ListToShut(s)'
      BY <3>0, <3>1
    <3>3. server'.services = server.services /\ (i = 1 => d \in server'.left)
      BY <1>2, <2>1, <3>0, <3>1
    <3> QED BY <3>2, <3>3 DEF Scheduled
  <2>3. \A d \in Container : (Doomed(d) => Doomed(d)') /\ (Live(d)' <=> Live(d))
    BY <1>9 DEF Doomed, Live, ServerCtx
  <2>4. Shutting'
    BY <1>0, <1>2, <1>8, <2>1, <2>2, <2>3 DEF Shutting
  <2>5. ServerJobs'
    BY <1>2, <1>6, <2>1 DEF ServerJobs, NoJob
  <2>6. BackendsNamed' /\ ~Up'
    BY <1>0, <2>1, ServerNow, SameBackends DEF BackendsNamed, Up
  <2> QED BY <1>0, <1>7, <2>4, <2>5, <2>6, ServerGoes
<1>11. CASE server.left \ {c} = {}
  <2>1. NextService
    BY <1>1, <1>11 DEF OneShut
  <2>2. ASSUME NEW d \in Container, Live(d), NameOf(d) \in Calm, Scheduled(d)
        PROVE  \E i \in 2 .. Len(server.services) : d \in ListToShut(server.services[i])
    <3>0. d # c
      BY <1>4, <2>2
    <3>1. PICK i \in 1 .. Len(server.services) : /\ d \in ListToShut(server.services[i])
                                                 /\ i = 1 => server.left = {} \/ d \in server.left
      BY <2>2 DEF Scheduled
    <3>2. i # 1
      BY <1>2, <1>11, <3>0, <3>1
    <3>3. i \in 2 .. Len(server.services)
      BY <1>2, <3>2
    <3>4. d \in ListToShut(server.services[i])
      BY <3>1
    <3> QED BY <3>3, <3>4
  <2>3. Shutting' /\ server'.pc = "closing" /\ server'.left = {} /\ server'.services \in Seq(STRING)
    BY <1>0, <1>2, <1>8, <1>9, <2>1, <2>2, ShutsNext
  <2>4. ServerJobs'
    BY <1>6, <2>3 DEF ServerJobs, NoJob
  <2>5. BackendsNamed' /\ ~Up'
    BY <1>0, <2>3, SameBackends DEF Up
  <2> QED BY <1>0, <1>7, <2>3, <2>4, <2>5, ServerGoes
<1> QED BY <1>10, <1>11

LEMMA ServerAccounts ==
  ASSUME AccountsInv, PortsInv, TellingInv, ServerStep, UNCHANGED workload
  PROVE  AccountsInv'
<1>1. ServerCtx
  BY DEF ServerStep, stores, ServerCtx
<1>2. CASE InitAll
  BY <1>1, <1>2, InitAllAccounts
<1>3. CASE ShutdownAll
  BY <1>1, <1>3, SignalAccounts, ListingAccounts, ShutOneAccounts, OneShutAccounts DEF ShutdownAll
<1> QED BY <1>2, <1>3 DEF ServerStep
-----------------------------------------------------------------------------
LEMMA AccountsNext == PortsInv /\ TellingInv /\ AccountsInv /\ [Next]_vars => AccountsInv'
<1> SUFFICES ASSUME PortsInv, TellingInv, AccountsInv, [Next]_vars
             PROVE  AccountsInv'
  OBVIOUS
<1>1. CASE ServerStep /\ UNCHANGED workload
  BY <1>1, ServerAccounts
<1>2. CASE DockerSteps /\ UNCHANGED workload
  BY <1>2, DockerAccounts
<1>3. CASE Requests /\ UNCHANGED workload
  BY <1>3, RequestsAccount
<1>4. CASE Reads /\ UNCHANGED workload
  <2>1. UNCHANGED <<req, store, maps>>
    BY <1>4 DEF Reads, ClusterReads, describeCluster, eksListClusters, getCluster, gkeListClusters,
         GceReads, getInstance, listInstances, RdsReads, describeDBInstances,
         SqlReads, getSqlInstance, listSqlInstances, CacheReads, describeCacheClusters,
         GroupReads, describeReplicationGroups, RedisReads, getRedisInstance, listRedisInstances,
         SnapshotReads, describeDBSnapshots, Shows
  <2> QED BY <1>4, <2>1, ReadsAccount DEF Reads, engineVars, registry
<1>5. CASE UNCHANGED vars
  BY <1>5, ReadsAccount DEF vars, recVars, engineVars, registry
<1> QED BY <1>1, <1>2, <1>3, <1>4, <1>5 DEF Next
-----------------------------------------------------------------------------
\* A name that no call has for its own and none has failed for.
LEMMA QuietOnes ==
  ASSUME AccountsInv, NEW c \in Container, Quiet(NameOf(c))
  PROVE  /\ NameOf(c) \in Calm /\ Sound(NameOf(c))
         /\ \A r \in Runner : ~Works(r, NameOf(c))
         /\ ~Doomed(c) /\ ~InHand(c)
<1>1. NameOf(c) \in Calm
  BY Constants DEF Quiet, Calm
<1>2. ASSUME NEW r \in Runner, job[r].phase \in Downs \cup Past PROVE job[r].container # c
  BY <1>2, Shapely DEF AccountsInv, Jobs, Quiet
<1>3. ~Doomed(c) /\ ~InHand(c)
  BY <1>2 DEF Doomed, InHand, Past
<1> QED BY <1>1, <1>3 DEF AccountsInv, Works, Quiet

\* A record whose container somebody may look for is a cluster's or an instance's.
LEMMA RecordedOnes ==
  ASSUME AccountsInv, NEW k \in DOMAIN store, k[1] \in {"eks", "gke", "gce"}
  PROVE  /\ workload \in {"clusters", "gce"}
         /\ \E c \in Container : /\ Recorded(k) = {c} /\ maps[store[k].map] = {c}
                                 /\ GceContainer(store[k]) = c
<1>1. workload \in {"clusters", "gce"}
  BY DEF AccountsInv, Linked, DatabaseJobs, NoKeys
<1>2. PICK c \in Container : Owns(k, c)
  BY <1>1, ItsOwn DEF AccountsInv, Linked
<1> QED BY <1>1, <1>2 DEF Owns, Recorded

LEMMA AccountsKnown == AccountsInv => LiveOnesKnown
<1> SUFFICES ASSUME AccountsInv, NEW c \in Container, Live(c), Quiet(NameOf(c))
             PROVE  c \in Known
  BY DEF LiveOnesKnown
<1>1. Kept(c)
  BY QuietOnes DEF Sound, Accounted
<1>2. PICK s : c \in ListToShut(s)
  BY <1>1 DEF Kept
<1>3. CASE s # "compute"
  BY <1>2, <1>3 DEF ListToShut, Known
<1>4. CASE s = "compute"
  <2>1. PICK k \in DOMAIN store : k[1] = "gce" /\ c = GceContainer(store[k])
    BY <1>2, <1>4 DEF ListToShut
  <2>2. c \in Recorded(k)
    BY <2>1, RecordedOnes
  <2> QED BY <2>2 DEF Known
<1> QED BY <1>3, <1>4

LEMMA AccountsLive == AccountsInv /\ PortsInv /\ TellingInv => KnownOnesLive
<1> SUFFICES ASSUME AccountsInv, PortsInv, TellingInv, server.pc = "serving" PROVE KnownOnesLive
  BY DEF KnownOnesLive
<1>1. Up /\ RegistryTold
  BY DEF Up, TellingInv, AllTold, EnginesTold
<1>2. ASSUME NEW b \in DOMAIN backends, Quiet(NameOf(backends[b])) PROVE Live(backends[b])
  <2>1. CASE b[1] \in {"eks", "gke"}
    <3>1. backends[b] \in Container /\ workload = "clusters"
      BY <2>1 DEF PortsInv, EngineInv, HeldHaveRun, Held, AccountsInv, BackendsNamed
    <3>2. PICK n \in Calm : n = NameOf(backends[b])
      BY <1>2, <3>1, QuietOnes
    <3>3. ObjectsRun(n)
      BY <1>1, <3>1 DEF AccountsInv, Matching
    <3> QED BY <2>1, <3>2, <3>3 DEF ObjectsRun
  <2>2. CASE b[1] \notin {"eks", "gke"}
    BY <1>1, <2>2 DEF RegistryTold, BackendTold, Runs
  <2> QED BY <2>1, <2>2
<1>3. ASSUME NEW k \in DOMAIN store, NEW c \in Recorded(k), Quiet(NameOf(c))
      PROVE  containers[c] = IF store[k].status = "stopped" THEN "paused" ELSE "running"
  <2>1. k[1] \in {"eks", "gke", "gce"}
    BY DEF Recorded
  <2>2. /\ workload \in {"clusters", "gce"} /\ c \in Container /\ c \in maps[store[k].map]
    BY <2>1, RecordedOnes
  <2>3. NameOf(c) \in Calm /\ \A r \in Runner : ~Works(r, NameOf(c))
    BY <1>3, <2>2, QuietOnes
  <2>4. RecordsMatch(NameOf(c))
    BY <1>1, <2>2, <2>3 DEF AccountsInv, Matching
  <2>5. \A h \in Handler : ~Works(h, NameOf(c))
    BY <2>3, Constants
  <2> QED BY <2>2, <2>4, <2>5 DEF RecordsMatch
<1> QED BY <1>2, <1>3 DEF KnownOnesLive

LEMMA AccountsGone == AccountsInv => NothingLeft
<1> SUFFICES ASSUME AccountsInv, server.pc = "exited", NEW c \in Container, Live(c), Quiet(NameOf(c))
             PROVE  NameOf(c) \in server.late
  BY DEF NothingLeft
<1>1. NameOf(c) \in Calm /\ ~Doomed(c)
  BY QuietOnes
<1>2. server.services = <<>>
  BY DEF AccountsInv, ServerJobs
<1>3. ~Scheduled(c)
  BY <1>2 DEF Scheduled
<1> QED BY <1>1, <1>3 DEF AccountsInv, Shutting

(* Unless a call for its name has failed, or people with different aims have *)
(* met on it, a container that runs is known to its service, what is known   *)
(* runs (paused exactly if its record says so) while the server serves, and  *)
(* after a shutdown only what was being made meanwhile is left: for any      *)
(* number of handlers, names, containers and ports, in every workload        *)
(* (service/*/service.go, backend/*/backend.go, service/registry.go).        *)
THEOREM ContainersAreAccounted == Spec => []ContainersAccounted
<1>1. AccountsInv /\ PortsInv /\ TellingInv => ContainersAccounted
  BY AccountsKnown, AccountsLive, AccountsGone DEF ContainersAccounted
<1>2. Init => AccountsInv /\ PortsInv /\ TellingInv
  BY AccountsInit, PortsInit, TellingInit
<1>3. PortsInv /\ TellingInv /\ AccountsInv /\ [Next]_vars => (AccountsInv /\ PortsInv /\ TellingInv)'
  BY AccountsNext, PortsNext, TellingNext
<1> QED BY <1>1, <1>2, <1>3, PTL DEF Spec
=============================================================================
