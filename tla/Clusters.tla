------------------------------ MODULE Clusters ------------------------------
(***************************************************************************)
(* internal/service/eks and internal/service/gke: a cluster is a record, a *)
(* k3s container, and a backend object in a map under the service's mutex. *)
(* EKS names a cluster by its name, GKE by location and name; both name    *)
(* the container after the cluster's name alone.                           *)
(***************************************************************************)
EXTENDS RecordStore, Engine

CONSTANTS ClusterName, Location

EksKeys     == {<<"eks", n, n>> : n \in ClusterName}
GkeKeys     == {<<"gke", <<l, n>>, <<l, n>>>> : l \in Location, n \in ClusterName}
ClusterKeys == EksKeys \cup GkeKeys

ServiceOf(k)     == k[1]
ContainerName(k) == IF ServiceOf(k) = "eks" THEN k[2] ELSE k[2][2]
BackendOf(k)     == <<ServiceOf(k), k[2]>>
ContainerOf(r)   == CHOOSE c \in Content(r) : c \in Container

\* The name is looked up before the backend is started; the record is put after
\* it, and the object registered last.
MakeCluster(h, keys) ==
  \/ /\ \E k \in keys :
          IF Present(k) THEN Shows({SubjectOf(k)}) /\ UNCHANGED <<job, trouble>>
          ELSE /\ MayMake(h, ContainerName(k))
               /\ Begin(h, "createCluster", SubjectOf(k), [key |-> k])
               /\ TakeJob(h, "make", ContainerName(k), "allocate", NoContainer)
     /\ UNCHANGED backends
  \/ /\ At(h, "createCluster") /\ Key(h) \in keys /\ InPhase(h, "failed")
     /\ Answer(h, Promised(h)) /\ EndJob(h)
     /\ UNCHANGED <<store, maps, trouble, backends>>
  \/ /\ At(h, "createCluster") /\ Key(h) \in keys /\ InPhase(h, "ready")
     /\ PutNew(Key(h), {job[h].container})
     /\ Goto(h, "register")
     /\ UNCHANGED <<job, trouble, backends>>
  \/ /\ At(h, "register") /\ Key(h) \in keys /\ ServiceOf(Key(h)) \notin locked
     /\ Register(BackendOf(Key(h)), job[h].container)
     /\ Answer(h, Record(Key(h), {job[h].container})) /\ EndJob(h)
     /\ UNCHANGED <<store, maps, trouble>>

DropCluster(h, keys) ==
  /\ At(h, "dropCluster") /\ Key(h) \in keys /\ InPhase(h, "closed")
  /\ Delete(Key(h))
  /\ Answer(h, Gone) /\ EndJob(h)
  /\ UNCHANGED <<trouble, backends>>

UnmakeCluster_ForgetsShutdown(h, keys) ==
  \/ /\ \E k \in keys :
          IF ~Present(k) THEN Shows({SubjectOf(k)}) /\ UNCHANGED <<job, trouble>>
          ELSE /\ Begin(h, "deleteCluster", SubjectOf(k), [key |-> k, copy |-> store[k]])
               /\ TakeJob(h, "unmake", ContainerName(k), "closed", ContainerOf(store[k]))
     /\ UNCHANGED backends
  \/ /\ At(h, "deleteCluster") /\ Key(h) \in keys
     /\ Forget(BackendOf(Key(h))) /\ Goto(h, "dropCluster")
     /\ UNCHANGED <<store, maps, job, trouble>>
  \/ DropCluster(h, keys)

\* The object is taken out of the map and shut down; without one, the container of
\* the record is stopped and removed.  Either way the record goes.
UnmakeCluster(h, keys) ==
  \/ /\ \E k \in keys :
          IF ~Present(k) THEN Shows({SubjectOf(k)}) /\ UNCHANGED <<job, trouble>>
          ELSE /\ Begin(h, "deleteCluster", SubjectOf(k), [key |-> k, copy |-> store[k]])
               /\ TakeJob(h, "unmake", ContainerName(k), "idle", ContainerOf(store[k]))
     /\ UNCHANGED backends
  \/ LET b == BackendOf(Key(h)) IN
     /\ At(h, "deleteCluster") /\ Key(h) \in keys /\ ServiceOf(Key(h)) \notin locked
     /\ IF b \in DOMAIN backends
        THEN /\ Forget(b)
             /\ job' = [job EXCEPT ![h].phase = "stop", ![h].container = backends[b]]
        ELSE To(h, "stopIt") /\ UNCHANGED backends
     /\ Goto(h, "dropCluster")
     /\ UNCHANGED <<store, maps, trouble>>
  \/ DropCluster(h, keys)

eksCreateCluster(h) == MakeCluster(h, EksKeys)
eksDeleteCluster(h) == UnmakeCluster(h, EksKeys)
describeCluster     == \E k \in EksKeys : Shows({SubjectOf(k)})
eksListClusters     == Shows({t \in Subject : t[1] = "eks"})

gkeCreateCluster(h) == MakeCluster(h, GkeKeys)
gkeDeleteCluster(h) == UnmakeCluster(h, GkeKeys)
getCluster          == \E k \in GkeKeys : Shows({SubjectOf(k)})
gkeListClusters     == Shows({t \in Subject : t[1] = "gke"})

ClusterStep(h) == /\ \/ eksCreateCluster(h) \/ eksDeleteCluster(h)
                     \/ gkeCreateCluster(h) \/ gkeDeleteCluster(h)
                  /\ UNCHANGED <<containers, owner, published, emptied, locked, drawn>>
ClusterReads   == describeCluster \/ eksListClusters \/ getCluster \/ gkeListClusters
=============================================================================
