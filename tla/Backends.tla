------------------------------ MODULE Backends ------------------------------
(***************************************************************************)
(* One server process: InitAll brings the services up one after the other  *)
(* (internal/service/registry.go), requests are served, and at a signal    *)
(* ShutdownAll takes the services down in the reverse order, while         *)
(* requests still come (internal/cli/start.go: the HTTP server is stopped  *)
(* last).  Which services a run brings up and which one its clients talk   *)
(* to is its workload.                                                     *)
(***************************************************************************)
EXTENDS Clusters, Databases, Gce, Sequences

Seqs == INSTANCE SequencesExt

CONSTANTS Workloads,   \* what the clients talk to
          Registered,  \* workload -> the services, in the order of their registration
          Server       \* the goroutine that runs start.go

VARIABLES server, workload

\* The names of the containers: an engine has its own, those of clusters begin with
\* cloudia-k3s-, those of instances with cloudia-gce-.
EngineName == {"minio", "redis", "mysql", "postgres", "dynamodb"}

ASSUME BackendsAssumption ==
  /\ Server \notin Handler /\ Runner = Handler \cup {Server}
  /\ NoResource \notin Resource
  /\ EngineName \cup ClusterName \cup GceName \subseteq Resource
  /\ EngineName \cap ClusterName = {} /\ EngineName \cap GceName = {} /\ ClusterName \cap GceName = {}
  /\ \A w \in Workloads : Registered[w] \in Seq(STRING)

\* start.go registers the services that clients talk to, and the one that starts Redis
\* before the one that copies its address.
ASSUME RegistrationAssumption == \A w \in Workloads :
  LET service == Registered[w] IN
  /\ w = "clusters" => \A s \in {"eks", "gke"} : \E i \in 1 .. Len(service) : service[i] = s
  /\ w = "gce" => \E i \in 1 .. Len(service) : service[i] = "compute"
  /\ w = "rds" => \E i \in 1 .. Len(service) : service[i] = "rds"
  /\ w = "cloudsql" => \E i \in 1 .. Len(service) : service[i] = "cloudsql"
  /\ w \in {"caches", "replication"} => \E i \in 1 .. Len(service) : service[i] = "elasticache"
  /\ w = "memorystore" => \E i, j \in 1 .. Len(service) :
                            i < j /\ service[i] = "elasticache" /\ service[j] = "memorystore"

vars == <<recVars, engineVars, registry, sharedPort, server, workload>>
stores == <<store, maps, req, said, raced, drawn>>

\* services: those still to be brought up or taken down;  left: what of the first
\* of them is still to be taken down;  late: names for which something was being
\* made while the services went down (not in the program).
Init == /\ workload \in Workloads
        /\ RecInit /\ EngineInit
        /\ sharedPort = <<>>
        /\ server = [pc |-> "init", services |-> Registered[workload], left |-> {}, late |-> {}]

Makers == {job[h].name : h \in {g \in Handler : job[g].kind = "make"}}
-----------------------------------------------------------------------------
(* InitAll                                                                  *)

Current  == Head(server.services)
NextService == server' = [server EXCEPT !.services = Tail(@), !.left = {}]
Initialising == server.pc = "init" /\ server.services # <<>>

\* A service that starts an engine, and registers it.
StartEngine(service, engine) ==
  /\ Initialising /\ Current = service
  /\ \/ /\ TakeJob(Server, "make", engine, "allocate", NoContainer)
        /\ UNCHANGED <<backends, server>>
     \/ /\ InPhase(Server, "ready")
        /\ Register(<<service, engine>>, job[Server].container)
        /\ EndJob(Server) /\ NextService
        /\ UNCHANGED trouble
  /\ UNCHANGED sharedPort

InitS3          == StartEngine("s3", "minio")
InitElasticache == StartEngine("elasticache", "redis")
InitRds         == StartEngine("rds", "mysql")
InitDynamodb    == StartEngine("dynamodb", "dynamodb")

\* The first error ends InitAll, and the program: nothing is shut down.
EngineFailed ==
  /\ Initialising /\ InPhase(Server, "failed")
  /\ server' = [server EXCEPT !.pc = "failed"]
  /\ UNCHANGED <<job, trouble, backends, sharedPort>>

\* Cloud SQL and Memorystore copy the addresses that are registered by now.
ReadAddresses(service, from) ==
  LET up == {b \in DOMAIN backends : b[1] = from}
  IN /\ Initialising /\ Current = service
     /\ sharedPort' = Over(Only(service, [e \in {b[2] : b \in up} |->
                                            PortOf(CHOOSE b \in up : b[2] = e)]), sharedPort)
     /\ NextService
     /\ UNCHANGED <<job, trouble, backends>>

InitCloudSql    == ReadAddresses("cloudsql", "rds")
InitMemorystore == ReadAddresses("memorystore", "elasticache")

NothingToStart ==
  /\ Initialising /\ Current \in {"compute", "eks", "gke"}
  /\ NextService
  /\ UNCHANGED <<job, trouble, backends, sharedPort>>

Serve ==
  /\ server.pc = "init" /\ server.services = <<>>
  /\ server' = [server EXCEPT !.pc = "serving"]
  /\ UNCHANGED <<job, trouble, backends, sharedPort>>

InitAll == /\ \/ InitS3 \/ InitElasticache \/ InitRds \/ InitDynamodb
              \/ InitCloudSql \/ InitMemorystore
              \/ EngineFailed \/ NothingToStart \/ Serve
           /\ UNCHANGED locked
-----------------------------------------------------------------------------
(* ShutdownAll                                                              *)

Signal ==
  /\ server.pc = "serving"
  /\ server' = [server EXCEPT !.pc = "closing", !.late = Makers,
                              !.services = Seqs!Reverse(Registered[workload])]
  /\ UNCHANGED <<job, trouble, locked>>

Closing == server.pc = "closing" /\ server.services # <<>>
Holds(s) == s \in {"eks", "gke"}    \* Shutdown holds the mutex all the time

\* The objects the service has registered, or the instances it has recorded.
ListToShut(s) == IF s = "compute" THEN {GceContainer(store[k]) : k \in {j \in DOMAIN store : j[1] = "gce"}}
                                  ELSE {backends[b] : b \in {d \in DOMAIN backends : d[1] = s}}

EnterShutdown ==
  /\ Closing /\ server.left = {} /\ Current \notin locked /\ job[Server] = NoJob
  /\ ListToShut(Current) # {}
  /\ server' = [server EXCEPT !.left = ListToShut(Current)]
  /\ locked' = locked \cup {s \in {Current} : Holds(s)}
  /\ UNCHANGED <<job, trouble>>

NothingToShut ==
  /\ Closing /\ server.left = {} /\ Current \notin locked /\ job[Server] = NoJob
  /\ ListToShut(Current) = {}
  /\ NextService
  /\ UNCHANGED <<job, trouble, locked>>

ShutOne ==
  /\ Closing
  /\ \E c \in server.left :
       TakeJob(Server, "unmake", NameOf(c), IF Current = "compute" THEN "stopIt" ELSE "stop", c)
  /\ UNCHANGED <<server, locked>>

\* An error is remembered, and the rest is shut down nevertheless.
OneShut ==
  LET left == server.left \ {job[Server].container} IN
  /\ Closing /\ InPhase(Server, "closed")
  /\ EndJob(Server)
  /\ IF left # {} THEN server' = [server EXCEPT !.left = left] /\ UNCHANGED locked
                  ELSE NextService /\ locked' = locked \ {s \in {Current} : Holds(s)}
  /\ UNCHANGED trouble

\* server.Shutdown waits for the requests in flight, or for its deadline.
Exit ==
  /\ server.pc = "closing" /\ server.services = <<>>
  /\ server' = [server EXCEPT !.pc = "exited"]
  /\ UNCHANGED <<job, trouble, locked>>

ShutdownAll == /\ \/ Signal \/ EnterShutdown \/ NothingToShut \/ ShutOne \/ OneShut \/ Exit
               /\ UNCHANGED <<backends, sharedPort>>
-----------------------------------------------------------------------------
Running == server.pc \in {"serving", "closing"}

ServiceStep(h) ==
  \/ workload = "clusters" /\ ClusterStep(h)
  \/ workload = "gce" /\ GceStep(h)
  \/ workload = "rds" /\ RdsStep(h)
  \/ /\ \/ workload = "cloudsql" /\ SqlStep(h)
        \/ workload = "caches" /\ CacheStep(h)
        \/ workload = "replication" /\ GroupStep(h)
        \/ workload = "memorystore" /\ RedisStep(h)
        \/ workload = "snapshots" /\ SnapshotStep(h)
     /\ UNCHANGED <<engineVars, registry, drawn>>

Requests ==
  /\ Running
  /\ \E h \in Handler : ServiceStep(h)
  /\ server' = [server EXCEPT !.late = IF server.pc = "closing" THEN @ \cup Makers' ELSE @]
  /\ UNCHANGED sharedPort

Reads ==
  /\ Running
  /\ \/ workload = "clusters" /\ ClusterReads
     \/ workload = "gce" /\ GceReads
     \/ workload = "rds" /\ RdsReads
     \/ workload = "cloudsql" /\ SqlReads
     \/ workload = "caches" /\ CacheReads
     \/ workload = "replication" /\ GroupReads
     \/ workload = "memorystore" /\ RedisReads
     \/ workload = "snapshots" /\ SnapshotReads
  /\ UNCHANGED <<drawn, engineVars, registry, sharedPort, server>>

DockerSteps ==
  /\ \E r \in Runner : /\ r \in Handler => Running
                       /\ EngineStep(r)
  /\ UNCHANGED <<stores, sharedPort, server>>

ServerStep ==
  /\ InitAll \/ ShutdownAll
  /\ UNCHANGED <<stores, containers, owner, published, emptied>>

Next == (ServerStep \/ DockerSteps \/ Requests \/ Reads) /\ UNCHANGED workload

Spec == Init /\ [][Next]_vars
-----------------------------------------------------------------------------
Quiet(n) == n \notin trouble /\ \A r \in Runner : job[r].name # n

Recorded(k) == IF k[1] \in {"eks", "gke", "gce"} THEN Content(store[k]) ELSE {}
Known == {backends[b] : b \in DOMAIN backends} \cup UNION {Recorded(k) : k \in DOMAIN store}

(* Every container that runs is known to its service, so that a deletion or the
   shutdown will find it: unless a call has failed, or a creation and a deletion
   of one name have overlapped.  Two creations of one name may overlap, the
   container's name decides; so may two deletions.  Here and below nobody else
   touches the containers and records: the reconciler, the deletions of the admin
   API and crashes of containers are not in this model.                     *)
LiveOnesKnown == \A c \in Container : Live(c) /\ Quiet(NameOf(c)) => c \in Known

(* While the server serves, the container of every record and of every registered
   backend runs, paused exactly if the record says stopped.                 *)
KnownOnesLive ==
  server.pc = "serving" =>
    /\ \A b \in DOMAIN backends : Quiet(NameOf(backends[b])) => Live(backends[b])
    /\ \A k \in DOMAIN store : \A c \in Recorded(k) :
         Quiet(NameOf(c)) =>
           containers[c] = IF store[k].status = "stopped" THEN "paused" ELSE "running"

(* After a shutdown nothing runs, but for what was being made meanwhile and what
   the requests that are cut off at the end were working on.                *)
NothingLeft ==
  server.pc = "exited" =>
    \A c \in Container : Live(c) /\ Quiet(NameOf(c)) => NameOf(c) \in server.late

ContainersAccounted == LiveOnesKnown /\ KnownOnesLive /\ NothingLeft

(* The endpoint that a database instance has told its clients is that of an engine
   that runs, as long as the server serves: a failed engine is not handed out.
   Cloud SQL and Memorystore rely on the order of InitAll for it.  The reconciler,
   which removes the engines' containers at its first tick (BackendsLeftAlone), and
   containers that crash are not in this model.                             *)
EndpointsLive ==
  server.pc = "serving" =>
    \A k \in DOMAIN store : \A x \in Content(store[k]) :
      x[1] \in {"redis", "mysql", "postgres"} =>
        \E c \in Container : Live(c) /\ NameOf(c) = x[1] /\ published[c] = x[2]
=============================================================================
