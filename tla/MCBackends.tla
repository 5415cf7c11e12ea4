----------------------------- MODULE MCBackends -----------------------------
EXTENDS Backends

MCWorkloads == {"startup", "clusters", "gce", "rds", "snapshots", "cloudsql",
                "caches", "replication", "memorystore"}

\* The services that meet in a workload; "startup" has all those that start anything.
MCRegistered ==
  [w \in MCWorkloads |->
     CASE w = "startup"  -> <<"s3", "compute", "elasticache", "rds", "memorystore", "cloudsql",
                              "dynamodb", "eks", "gke">>
       [] w = "clusters" -> <<"eks", "gke">>
       [] w = "gce"      -> <<"compute">>
       [] w \in {"rds", "cloudsql", "snapshots"} -> <<"rds", "cloudsql">>
       [] OTHER          -> <<"elasticache", "memorystore">>]

MCEngine   == {"minio", "redis", "mysql", "postgres", "dynamodb"}
MCResource == MCEngine \cup ClusterName \cup GceName

\* A name of a cluster or an instance can be taken again, and PostgreSQL tried again.
MCContainer == {<<n, 1>> : n \in MCResource}
                 \cup {<<n, 2>> : n \in {"postgres"} \cup ClusterName \cup GceName}

MCRunner  == Handler \cup {Server}
MCSubject == {SubjectOf(k) : k \in ClusterKeys \cup GceKeys}
               \cup {<<s, n>> : s \in {"rds", "cloudsql", "cachecluster", "replication", "memorystore"},
                                n \in DbName}
               \cup {<<"snapshot", n>> : n \in SnapshotName}

\* Some ask for the same port, as the clusters do.
MCPreferred == [n \in MCResource |-> CASE n \in {"minio", "k3s-a"} -> 1
                                       [] n \in {"redis", "mysql", "postgres"} -> 3
                                       [] OTHER -> 4]

MCSymmetry == Permutations(Handler)
=============================================================================
