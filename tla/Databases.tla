------------------------------ MODULE Databases ------------------------------
(***************************************************************************)
(* The services whose instances are records over a shared engine:          *)
(* internal/service/rds, cloudsql, elasticache and memorystore.  MySQL and *)
(* Redis are up before requests are taken; PostgreSQL is started by the    *)
(* first CreateDBInstance that asks for it, under the service's mutex.     *)
(* Cloud SQL and Memorystore keep the address that the registry of shared  *)
(* backends had when they were initialised.                                *)
(*                                                                         *)
(* A record's content is the endpoint it tells its clients, <<engine,      *)
(* port>>, and what has been written into its Spec since.                   *)
(***************************************************************************)
EXTENDS RecordStore, Engine

CONSTANTS DbName, SnapshotName

VARIABLE sharedPort    \* service -> engine -> port, as read at Init

DbKey(service, n) == <<service, n, n>>
Rds(e)            == <<"rds", e>>
Redis             == <<"elasticache", "redis">>
PortOf(b)         == published[backends[b]]
Endpoint(e, p)    == {<<e, p>>}
Changed           == {<<"changed", 0>>}
Deleting          == {<<"deleting", 0>>}

\* A record over an engine that is up.
InsertOver(h, op, e, p) == /\ At(h, op)
                           /\ PutNew(Key(h), Endpoint(e, p))
                           /\ Answer(h, Record(Key(h), Endpoint(e, p)))

\* The four services modify in the same way: the Spec of the copy is written, which
\* the store's record shares, and the copy is put back.
Modify(h, op, k) == \/ ~Present(k) /\ Shows({SubjectOf(k)})
                    \/ Present(k) /\ BeginWriting(h, op, k, Changed)

PutModified(h, op) == /\ At(h, op)
                      /\ PutCopy(h, Content(req[h].copy))
                      /\ Answer(h, Record(Key(h), PromisedContent(h) \cup Changed))
-----------------------------------------------------------------------------
(* rds                                                                      *)

DbEngine == {"mysql", "postgres"}

\* The identifier is looked up, the backend found or started, the record put.
createDBInstance(h, engines) ==
  \/ \E n \in DbName, e \in engines :
       LET k == DbKey("rds", n) IN
       IF Present(k) THEN Shows({SubjectOf(k)})
       ELSE Begin(h, "getOrCreateBackend", SubjectOf(k), [key |-> k, field |-> e])
  \/ InsertOver(h, "putDBInstance", req[h].field, PortOf(Rds(req[h].field)))

\* The mutex is held while PostgreSQL comes up.
FindBackend(h) ==
  LET e == req[h].field IN
  /\ At(h, "getOrCreateBackend") /\ "rds" \notin locked
  /\ IF Rds(e) \in DOMAIN backends
     THEN Goto(h, "putDBInstance") /\ UNCHANGED <<job, trouble, locked>>
     ELSE /\ MayMake(h, e)
          /\ locked' = locked \cup {"rds"}
          /\ TakeJob(h, "make", e, "allocate", NoContainer)
          /\ Goto(h, "initBackend")
  /\ UNCHANGED <<store, maps, backends>>

\* A backend that failed is not registered: the next request tries again.
BackendReady(h) == /\ InPhase(h, "ready")
                   /\ Register(Rds(req[h].field), job[h].container)
                   /\ Goto(h, "putDBInstance")
BackendFailed_Registers(h) ==
  /\ InPhase(h, "failed")
  /\ IF job[h].container # NoContainer
     THEN Register(Rds(req[h].field), job[h].container) /\ Goto(h, "putDBInstance")
     ELSE Answer(h, Promised(h)) /\ UNCHANGED backends
BackendFailed(h) == /\ InPhase(h, "failed")
                    /\ Answer(h, Promised(h))
                    /\ UNCHANGED backends

getOrCreateBackend(h) ==
  \/ FindBackend(h)
  \/ /\ At(h, "initBackend")
     /\ BackendReady(h) \/ BackendFailed(h)
     /\ locked' = locked \ {"rds"} /\ EndJob(h)
     /\ UNCHANGED <<store, maps, trouble>>

\* The new status is written into the Spec that the store's record shares; then the
\* record is deleted.
deleteDBInstance(h) ==
  \/ \E n \in DbName :
       LET k == DbKey("rds", n) IN
       IF Present(k) THEN BeginWriting(h, "deleteDBInstance", k, Deleting)
                     ELSE Shows({SubjectOf(k)})
  \/ DropNamed(h, "deleteDBInstance")

\* A password that is refused may come after a class that is accepted: the class has
\* been written by then, into the Spec that the store's record shares.  The client is told
\* that nothing has changed; said follows the program.
HalfChanged(k) ==
  LET s == SubjectOf(k) IN
  IF said[s] = Unknown THEN Unknown ELSE Record(k, said[s][k].content \cup Changed)

modifyDBInstance(h) ==
  \/ \E n \in DbName : Modify(h, "modifyDBInstance", DbKey("rds", n))
  \/ \E n \in DbName :
       LET k == DbKey("rds", n) IN
       /\ Present(k) /\ req[h] = Idle
       /\ maps' = [maps EXCEPT ![store[k].map] = @ \cup Changed]
       /\ AtOnce(SubjectOf(k), HalfChanged(k))
       /\ UNCHANGED store
  \/ PutModified(h, "modifyDBInstance")

\* A snapshot is a record too; the instance must exist when it is made.
createDBSnapshot(h) ==
  \/ \E n \in DbName, t \in SnapshotName :
       IF Present(DbKey("rds", n))
       THEN Begin(h, "findSnapshot", <<"snapshot", t>>, [key |-> DbKey("snapshot", t)])
       ELSE Shows({<<"rds", n>>})
  \/ /\ At(h, "findSnapshot")
     /\ IF Present(Key(h)) THEN Answer(h, Promised(h)) ELSE Goto(h, "putSnapshot")
     /\ UNCHANGED <<store, maps>>
  \/ InsertNamed(h, "putSnapshot")

deleteDBSnapshot(h) ==
  \/ \E t \in SnapshotName : RemoveNamed(h, "deleteDBSnapshot", DbKey("snapshot", t))
  \/ DropNamed(h, "deleteDBSnapshot")

describeDBInstances == Shows({s \in Subject : s[1] = "rds"})
describeDBSnapshots == Shows({s \in Subject : s[1] = "snapshot"})
-----------------------------------------------------------------------------
(* cloudsql: an engine that was not registered at Init is refused, for good. *)

insertSqlInstance(h) ==
  \/ \E n \in DbName, e \in DbEngine :
       LET k == DbKey("cloudsql", n) IN
       /\ e \in DOMAIN sharedPort["cloudsql"]
       /\ CreateNamed(h, "insertSqlInstance", k)
  \/ InsertOver(h, "insertSqlInstance", "mysql", sharedPort["cloudsql"]["mysql"])

deleteSqlInstance(h) ==
  \/ \E n \in DbName : RemoveNamed(h, "deleteSqlInstance", DbKey("cloudsql", n))
  \/ DropNamed(h, "deleteSqlInstance")

updateSqlInstance(h) ==
  \/ \E n \in DbName : Modify(h, "updateSqlInstance", DbKey("cloudsql", n))
  \/ PutModified(h, "updateSqlInstance")

getSqlInstance   == \E n \in DbName : Shows({<<"cloudsql", n>>})
listSqlInstances == Shows({s \in Subject : s[1] = "cloudsql"})
-----------------------------------------------------------------------------
(* elasticache: clusters and replication groups; both tell Redis's port.    *)

RedisPort == PortOf(Redis)

createCacheCluster(h) ==
  \/ \E n \in DbName : CreateNamed(h, "createCacheCluster", DbKey("cachecluster", n))
  \/ InsertOver(h, "createCacheCluster", "redis", RedisPort)

deleteCacheCluster(h) ==
  \/ \E n \in DbName : RemoveNamed(h, "deleteCacheCluster", DbKey("cachecluster", n))
  \/ DropNamed(h, "deleteCacheCluster")

modifyCacheCluster(h) ==
  \/ \E n \in DbName : Modify(h, "modifyCacheCluster", DbKey("cachecluster", n))
  \/ PutModified(h, "modifyCacheCluster")

createReplicationGroup(h) ==
  \/ \E n \in DbName : CreateNamed(h, "createReplicationGroup", DbKey("replication", n))
  \/ InsertOver(h, "createReplicationGroup", "redis", RedisPort)

deleteReplicationGroup(h) ==
  \/ \E n \in DbName : RemoveNamed(h, "deleteReplicationGroup", DbKey("replication", n))
  \/ DropNamed(h, "deleteReplicationGroup")

describeCacheClusters     == Shows({s \in Subject : s[1] = "cachecluster"})
describeReplicationGroups == Shows({s \in Subject : s[1] = "replication"})
-----------------------------------------------------------------------------
(* memorystore                                                              *)

createRedisInstance(h) ==
  \/ \E n \in DbName : CreateNamed(h, "createRedisInstance", DbKey("memorystore", n))
  \/ InsertOver(h, "createRedisInstance", "redis", sharedPort["memorystore"]["redis"])

deleteRedisInstance(h) ==
  \/ \E n \in DbName : RemoveNamed(h, "deleteRedisInstance", DbKey("memorystore", n))
  \/ DropNamed(h, "deleteRedisInstance")

updateRedisInstance(h) ==
  \/ \E n \in DbName : Modify(h, "updateRedisInstance", DbKey("memorystore", n))
  \/ PutModified(h, "updateRedisInstance")

getRedisInstance   == \E n \in DbName : Shows({<<"memorystore", n>>})
listRedisInstances == Shows({s \in Subject : s[1] = "memorystore"})
-----------------------------------------------------------------------------
RdsStep(h) ==
  /\ \/ getOrCreateBackend(h)
     \/ createDBInstance(h, DbEngine) /\ UNCHANGED <<job, trouble, registry>>
     \/ deleteDBInstance(h) /\ UNCHANGED <<job, trouble, registry>>
  /\ UNCHANGED <<containers, owner, published, emptied, drawn>>

\* What is done to the records of instances over MySQL, which getOrCreateBackend
\* finds registered.
SnapshotStep(h) ==
  \/ createDBInstance(h, {"mysql"}) \/ deleteDBInstance(h) \/ modifyDBInstance(h)
  \/ createDBSnapshot(h) \/ deleteDBSnapshot(h)
  \/ /\ Rds(req[h].field) \in DOMAIN backends
     /\ At(h, "getOrCreateBackend") /\ Goto(h, "putDBInstance") /\ UNCHANGED <<store, maps>>

SqlStep(h)   == \/ insertSqlInstance(h) \/ deleteSqlInstance(h) \/ updateSqlInstance(h)
CacheStep(h) == \/ createCacheCluster(h) \/ deleteCacheCluster(h) \/ modifyCacheCluster(h)
GroupStep(h) == \/ createReplicationGroup(h) \/ deleteReplicationGroup(h)
RedisStep(h) == \/ createRedisInstance(h) \/ deleteRedisInstance(h) \/ updateRedisInstance(h)

RdsReads   == describeDBInstances
SnapshotReads == describeDBInstances \/ describeDBSnapshots
SqlReads   == getSqlInstance \/ listSqlInstances
CacheReads == describeCacheClusters
GroupReads == describeReplicationGroups
RedisReads == getRedisInstance \/ listRedisInstances
=============================================================================
