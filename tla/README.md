# Cloudia in TLA+

Cloudia (`src/`) is one Go process that answers the APIs of AWS and of Google
Cloud on one port and keeps what is asked of it in Docker containers and in an
in-memory store.  This directory models its concurrent core in TLA+, checks the
models with TLC on small instances, and proves the main results with TLAPS for
all values of the constants.

Contents: 1. the system, 2. the modules and the code, 3. the runs, 4. fairness,
5. the proofs, 6. where code and documents part, 7. what is not modelled,
8. the plan, 9. running it.

## 1. The system

### Parts

| part | state | operations | called by |
|---|---|---|---|
| gateway (`internal/gateway`) | none of its own | request → codec → verifier → service; recovery, logging, idempotency, metrics and timeout around it | HTTP clients |
| idempotency (`gateway/middleware/idempotency.go`) | answers by service and token, 5 min | look-up, record, collect | gateway |
| service registry (`service/registry.go`) | services, their order, shared backends | Register, Resolve, InitAll, ShutdownAll | `cli/start.go`, gateway |
| state store (`state/memory.go`) | records by kind and id | Get, List, Put, Delete (each atomic) | every service, reconciler, admin |
| lock manager (`state/lock.go`) | a channel for each held key | Lock with a deadline, TryLock, Unlock | reconciler |
| port manager (`resource/port.go`) | port → owner, number of ports of an owner | Allocate, AllocateAny, Release | every service that publishes a port |
| limiter (`resource/limiter.go`) | none | CheckContainerLimit (counts records) | ec2, gce, lambda, ... |
| Docker client (`backend/docker`) | the daemon's containers | create and start, stop, pause, unpause, remove, list | every service with containers, reconciler |
| reconciler (`state/reconciler.go`) | none between ticks | compares Docker with the store, repairs both | a ticker |
| ec2 instances (`service/ec2/actions.go`) | records `Instance` | Run, Stop, Start, Terminate, Describe | gateway |
| lambda (`service/lambda`) | records, code directories, container pool, startup table | Create, Update, Delete, Invoke, Shutdown | gateway, start.go |
| pubsub (`service/pubsub`) | topics, subscriptions, queues | create, delete, publish, pull, acknowledge | gateway |
| engines (`backend/{rdb,redis,k3s}`, `s3/minio.go`, `dynamodb/backend.go`) | a container under a fixed name, its port | Init or Start, Shutdown | s3, dynamodb, rds, elasticache, eks, gke |
| eks, gke (`service/{eks,gke}`) | records, a k3s container each, backend objects in a map under a mutex | create, delete, describe, list, Shutdown | gateway, start.go |
| gce (`service/gce`) | records, a container each | insert, delete, start, stop, get, list, Shutdown | gateway, start.go |
| rds, cloudsql, elasticache, memorystore | records that tell an engine's address | create, delete, modify, snapshots, describe | gateway |
| iam, vpc, sg, sqs, key pairs, tags | records that refer to each other; VPCs a Docker network | create, delete, attach, authorise, tag, describe | gateway |
| s3, gcs | bucket records beside one MinIO | a proxy: the answer of MinIO, then the record | gateway |
| command line (`cli/{start,stop,cleanup}.go`) | pid file, signals | start, stop, cleanup: processes of their own | the user |
| admin (`admin/api_resources.go`) | none | list, read and delete any record | the user |
| imds, auth, codecs, config | tokens; none | read-only views, parsing | HTTP clients |

### How they interact

Each HTTP request is a goroutine.  It reads a record (`Get` returns a copy of
the struct, whose maps are shared), calls Docker, and puts the record back; no
handler holds a lock over these steps.  The reconciler is one more goroutine: it
lists Docker, lists the store, and repairs from the two listings while requests
go on.  It takes a lock for each repair, but no handler takes the same lock.
Lambda is the one service with locks of its own: `poolMu` for single accesses to
the pool and one startup mutex per function.  Pub/Sub holds one mutex for the
length of a handler, EKS and GKE hold one for single accesses to the map of
their backends and for the whole of their shutdown, and RDS holds one over the
look-up and the start of PostgreSQL.  On SIGTERM the services are shut down
first, in the reverse order of their registration, and the server, which answers
until then, afterwards.  The state is in memory: a restart begins with an empty
store beside whatever containers are left, and their names are fixed.

### What is hard, and what makes each part correct

| part | hard | correct when |
|---|---|---|
| port manager | a counter kept beside a map; a scan that wraps round, bounded by what the caller prefers | one owner per port; counter = ports owned; limit kept; exhaustion only when full; nearest free port |
| lock manager | hand-over between a closed channel, a deadline and a third caller | exclusion; an entry exactly while held; no lost wake-up; every Lock returns |
| ec2 + reconciler | read–Docker–put without a lock; two listings of different moments; failures at every call; containers changed behind its back | every container can be found again; store and Docker come to agree; terminated is final |
| lambda | pool read under a lock and used after it; ports given back before containers stop; failed starts; shutdown beside requests | one owner per port; no forgotten container; warm container = recorded code; calls reach their own function |
| pubsub | a batch across the limit of a queue; names used again | cascade; at most once and in order; nothing lost that had room |
| records (iam, vpc, sg, sqs, key pairs, tags, buckets, admin) | check and then put; records that refer to each other, deleted under each other; maps that all copies of a record share | no write that was answered is lost or undone until somebody overlaps; no reference to what is not there |
| engines, eks, gke, gce, databases | ports and names taken before a start that fails; two creations, a creation and a deletion, a shutdown beside both; addresses copied at Init | a published port is not free; every container is known to its service; endpoints are those of engines that run |
| life cycle | three commands, one pid file, signals at any point, crashes; requests served while the services shut down and after | a server keeps its pid file; a stop leaves nothing it could know of |
| idempotency | expiry, a collector with a clock of its own, timeouts that leave the handler running, overlap, a deadline computed before the lock is taken | replays are justified; no second run within the TTL of an answer nothing overlapped |

## 2. The modules and the code

| module | models | state ↔ code |
|---|---|---|
| `PortPool` | what services rely on (`service/interface.go`, PortAllocator) | `owner`: who has a port |
| `PortManager` | `resource/port.go` | `ports` and `resourcePorts` are the two maps, `reply` what the last call returned; a call is one action, since `mu` is held throughout |
| `AbstractLock` | a table of exclusive locks | who holds what |
| `LockManager` | `state/lock.go` | the map, the channels (open or closed), and for every caller where it is: the critical section, the wait, the deadline |
| `Docker` | `backend/docker/container.go` over the daemon | state of each container: none, created, running, paused, exited, removed; a call may fail when `DockerMayFail` |
| `Ec2` | `service/ec2/actions.go`, `CheckContainerLimit`, `state/memory.go` | `store` (status per key), `stateName` (the shared `Spec["StateName"]`), `req` (a handler's program counter and locals); one action per Docker or store call |
| `Reconciler` | `state/reconciler.go`, beside `Ec2` and `Docker` | `rec`: the two listings and the place in the loop |
| `Lambda` | `service/lambda/{actions,invoke,lambda}.go`, over `PortPool` and `Docker` | `store`, `code` (the directory), `pool`, `startup` (table of mutexes), `owner`, `made` (what a container was created from), `req`, `phase` of the shutdown |
| `PubSub` | `service/pubsub` | `topics`, `subscriptions`, `messages`, `messageIDSeq`; one action per handler |
| `Idempotency` | `middleware/{idempotency,timeout,recovery}.go` | `records`, the requests with their answers and how far each is (a deadline is computed in one step, the record stored in a later one), the clock |
| `RecordStore` | `state/memory.go` and the life of a request over it | `store` (key → status and reference to a map), `maps` (what the shared maps hold), `req` (where a request is, and the copy it read), `drawn` (random ids given) |
| `Iam`, `Vpc`, `SecurityGroups`, `Queues`, `KeyPairs`, `Tags` | `service/{iam,vpc,sg,sqs}/actions.go`, `service/ec2/{keypair,tags}.go` | records of their kinds; `networks` are the Docker networks of VPCs |
| `Buckets` | `service/{s3,gcs}/{proxy,state}.go` over MinIO | `minio` and `objects` are MinIO's own buckets and objects; the records are those of the two services; an answer of MinIO may be lost on its way back |
| `AdminApi` | `admin/api_resources.go` | deletes any record |
| `Records` | the eight above with one store | `workload`: the group of services the clients of a behaviour talk to |
| `Engine` | `backend/{rdb,redis,k3s}/backend.go`, `s3/minio.go`, `dynamodb/backend.go`: bringing a named container up and taking it down | `job` (what a goroutine is bringing up or taking down, and how far it is), `published` and `owner` (ports), `backends` (registered objects), `locked` (the services' mutexes), `emptied` (objects whose Shutdown is over) |
| `Clusters`, `Gce`, `Databases` | `service/{eks,gke}`, `service/gce`, `service/{rds,cloudsql,elasticache,memorystore}`, over `RecordStore` and `Engine` | records, and the two modules' state |
| `Backends` | the three above from InitAll to ShutdownAll (`service/registry.go`, `cli/start.go`) | `server` (the goroutine of `runStart`), `sharedPort` (addresses copied at Init), `workload` |
| `Lifecycle` | `cli/{start,stop,cleanup}.go`, `gateway/server.go` | `pidFile` (its creator, and whether the pid is in it), `server` and `stopper` (how far each process is), `container`, `listening`, `signalled`; `work` and `request`: the containers made for requests, and whether their service has noted them |

`Lambda` uses `PortPool`, the abstract allocator, and not `PortManager`: the run
`managers` and the theorem `PoolImplemented` show that the manager is one.
`Reconciler` extends `Ec2`, which extends `Docker`; `Lambda` and `Engine` extend
`Docker`, and `Engine` too takes ports from a `PortPool`.  `Records` and
`Backends` compose: their parts share the store, the ports and Docker, and a
behaviour picks one workload at the start, since services of different workloads
never touch each other's records.

History variables, which no action reads: `delivered`, `acked`, `owed` in
`PubSub`; `spoiled` in `Lambda` (which functions have seen requests overlap
that change them, or a container lost to a failure or to somebody else); the
`reply` in `PortManager`; the times of answers and `beside` (which executions
overlapped) in `Idempotency`;
`said` (what a client has been answered of a thing) and `raced` (things whose
deletion may have missed what refers to them, as the two overlapped) in
`RecordStore`; `trouble` (names for which a call failed or requests of different
kinds overlapped) in `Engine`; `late` in `Backends`; `exposed`, `lost` and `late` in
`Lifecycle`; `taken` (records the admin API has deleted) in `AdminApi` and `left`
(bucket records whose bucket went by a request that leaves them) in `Buckets`.

Definitions named `X_Y` just above `X` are faulty variants of `X`, one for every
checked property: with the variant in place of `X`, TLC finds the property
violated.  They show that a property depends on the code it is about.

Abstractions.  A message, a body, a version of the code, an instance is a model
value.  Docker's image pulls and time-outs within a call are part of the call
failing.  A handler's validation, which changes nothing, is left out, unless it
decides between outcomes.  A call of Docker that fails changes nothing, except
that RunContainer is two calls, the first of which may succeed alone.

## 3. The runs

Each run is one `.cfg` on one `MC` module.

| run | instance | shows |
|---|---|---|
| `managers` | 2 resources, ports 2..4, limit 2, preferred 0, 3, 4, 5; 3 callers, 2 keys | ports: counter, limit, exhaustion, nearest port, refinement of `PortPool`; locks: exclusion, entries exactly while held, no lost wake-up, `LockReturns` (liveness), refinement of `AbstractLock` |
| `ec2_serial` | 2 instances, one request at a time | between requests store, container and DescribeInstances agree; the life cycle |
| `reconciler` | 2 handlers, 2 instances, crashes and removals behind its back | every container accounted for |
| `reconciler_live` | 1 instance, 2 handlers, failing Docker calls | `Converges`: once requests stop, store and Docker agree for good |
| `reconciler_backends` | 1 backend | *violated*: the first tick removes a backend's container |
| `lambda` | 2 functions, 2 requests at once, 2 ports, 2 containers, 4 events | ports, forgotten containers, recorded code, calls that stay with their function |
| `process` | 2 servers, 2 stop commands, cleanup, crashes, a request of each server at a time; 2 topics, 2 subscriptions, queues of 2, batches of 1 and 2, 4 message ids | `PidFileNamesServer`, `NothingLeftBehind`; Pub/Sub: cascade, once and in order, nothing lost, bounded queues |
| `stop_removes_all` | 1 server, 1 stop command | *violated*: a request served beside the shutdown leaves its container |
| `idempotency` | 3 requests, 2 services of one scope, 2 bodies, TTL 1, times 0..2 | replays, refusals, re-runs, collection |
| `records` | 9 workloads; 2 requests at once; 1 name of each thing, 2 subnets, 2 or 3 random ids, 2 tags, 2 objects | `AnswersHold`, `ReferencesHold` |
| `revoke` | security groups, 1 request at a time, 2 rules | *violated*: the revoke of what the default egress rule shows is answered true and leaves it |
| `backends` | 9 workloads; 2 requests at once beside the server's own goroutine; 1 name of each thing that can be taken twice, 4 ports; any call fails; no reconciler, no deletion by the admin API, no crash of a container | `AnswersHold`, `PublishedPortsHeld`, `ContainersAccounted`, `EndpointsLive` |

`AnswersHold` compares the store with the abstract table `said`: what clients may
conclude from the answers they have been given.  While requests for one thing do
not overlap, the records of a thing are the ones promised, status and content;
after an overlap nothing is promised until somebody asks again.  Every service
over `RecordStore` is held to this one table.  An answer promises what the request
asked for.  In three cases the program does something else although nobody
overlaps, and there `said` follows the program, so that `AnswersHold` still says
that nothing else is lost: a request with a parameter of a bucket that is taken for
one of the bucket (`mistakenForBucket`), a revoke that the default egress rule does
not match (`Matched`; what it should do is `RevokedIsGone`, which `revoke`
violates), and a change of a database instance that is refused after half of it was
written (`HalfChanged`).

`ReferencesHold` exempts what an overlap has left (`raced`) and three serial cases
that the code really has, each by name and only until the parent is made again: a
parent deleted by the admin API (`taken`), a bucket deleted by the other service,
and one whose deletion was answered by MinIO but not heard (`left`).

Two of the runs hold a pair of components that share no variable: the ports and
the locks in `managers`, the life cycle and Pub/Sub in `process`.  A behaviour
picks one of the pair at the start, so each is explored as if alone.

Why the bounds are enough to see what matters.  *Ports*: three ports, a limit of
two and two owners give a full range, a full owner and a wrap-round; the
preferred ports lie below, in and just above the range.  *Locks*: a holder, a
waiter and one who overtakes the waiter; a second key shows that keys do not
mix.  *EC2*: two instances are one request with a launch that half fails, or two
requests on different ones; two handlers give each race of read and put; orphan
records are named as ids too, as DescribeInstances shows them.  With one orphan
per tick (`MaxOrphanCleanup = 1`) the bound of the loop is reached.  *Lambda*:
two requests on one function or on two, each with the port or the container of
the other; an *event* is a request, a crash, a removal by others or the
shutdown, and four of them are: create, create, invoke and one that disturbs, or
create, invoke, update and an overlapping delete.  *Pub/Sub*: a batch of two on
a queue of two with one place left.  *Idempotency*: an answer, its replay or an
overlapping execution, and one more request at the end of the TTL and after it;
three requests are two that overlap, of which the older deadline is stored last,
and the one that then runs too early.  The two services share a scope; that
services of different scopes never meet is in the proofs only.

*Records*: two requests for one name are every race of a check and a put; two
subnets are one that goes and one that stays; ids are never drawn twice, so two
groups and three key pairs are a name that is taken again; one record of each
kind is enough, as kinds only meet through the references that the workloads
contain; the one rule besides the default is the one without ranges, which among
the ingress rules is a rule like any other and among the egress rules is the one
that the default matches (a request that repeats a range within a rule is left out).  *Backends*: four ports, of which several engines prefer the same, are
the ports of one engine of each kind that a workload has beside a leaked one; two
containers per name are a creation after a failed or deleted one.  The workload
`startup` brings up everything that starts something and takes it down again; the
others have the services that meet.  *Process*: a server, its successor under
another pid or its own, a stop that has looked and a second one; one container of
the start and one of a request stand for the others, as their fates differ only in
whether the service had noted them when it was shut down.

`MaxEvents`, `MaxId`, `MaxRequests`, `MaxTime` and `MaxPort` bound counters of
the model, not of the code; in `Engine`, `MayMake` keeps a creation from
beginning when no container of its name is left.  Deadlock is checked except in
`lambda`, which stops when it has used its events, and in `backends`, where the
server ends after its shutdown or a failed start.

## 4. Fairness

*`managers`* (locks): a caller that has begun goes on (goroutines are scheduled), a
deadline arrives, a holder does not keep the lock for ever (the reconciler's
repairs end); and a `select` whose two cases are ready again and again takes each
of them some time, as Go chooses at random: strong fairness of `GiveUp`.  The
properties of safety do not use it.  *`reconciler_live`*: a request that has begun goes on; the
ticker fires for ever; and Docker, asked again and again to remove a container,
removes it some time (strong fairness of that outcome, without which no
reconciler can repair anything).  `Converges` is conditional: it says nothing
while requests keep coming.  *`idempotency`*: the collector's ticker fires for
ever; no request has to go on.

## 5. The proofs

| module | theorems | argument |
|---|---|---|
| `ManagerProofs` | port manager: `TypeCorrect`, `CountsCorrect`, `LimitCorrect`, `ExhaustionIsReal`, `ProbingIsLinear`, `RangeKept`, `PoolImplemented` | the counter is the cardinality of a finite set of ports; every call adds or removes one element of it.  `RangeKept` (`OnlyRangeUsed`) assumes that no preferred port is more than one above the range: without that the code does leave it |
| | lock manager: `LockTypeCorrect`, `Exclusive`, `MapTellsTheTruth`, `WakeupsKept`, `ChannelsKeptApart`, `LockTableImplemented` | the invariant joins what the map says, which channels are open and what every caller waits on: no part is inductive alone, as exclusion needs that an absent entry means no holder, which needs that channels are not shared (`ChannelsKeptApart`, which is what the induction rests on and no run has to repeat) |
| | life cycle: `PidFileKept`, `StopLeavesNothing` | why a file is not taken away is a fact about two other actors: a stop on its way to remove it has looked before the server began (`StopsAreStale`), and a second server is there only after both were exposed (`TogetherExposed`).  `StopLeavesNothing` rests on `ContainerServed`: a container whose server has lost nothing belongs to one that has come up and not yet shut down, and a container of a request, to a server that runs, unless the request ran beside ShutdownAll or after it (`late`) |
| `ReconcilerProofs` | `ReconcilerTypeCorrect`, `NoContainerLost`, `SerialAgreement`, `SerialLifeCycle` | a container is lost when the record that leads to it goes, or never comes.  Only the clean-up of RunInstances deletes records, so the invariant says what a handler knows of the ids it works on (`HandlerInv`): their containers have been started, and before the deletion the container is gone for good.  `RecordsSound` says the same of every record and of the reconciler's old listing, since a stale Put may bring a record back.  `NoContainerLost` assumes that Docker refuses no removal of a container that is there (`~DockerMayFail`), as the run `reconciler` does: a refused removal is only logged, and the record is deleted all the same.  `SerialAgreement` (`QuietAgreement`) and `SerialLifeCycle` (`LifeCycle`) are about `SerialSpec`, as the run `ec2_serial`: one handler at most, no reconciler, no Docker failure; any number of instances, requests and ids per request.  `SerialInv`: an instance whose record and container disagree is the one the handler is just working on (`Behind`), and the handler knows both (`OnTheWay`) |
| `PubSubProofs` | `CascadeCorrect`, `TypesCorrect`, `DeliveryCorrect`, `NothingLostCorrect`, `QueueBoundedCorrect` | the cascade: the only step that removes a topic removes its subscriptions too.  The queues: `QueueInv` says of every subscription that what was delivered, followed by what is queued, ascends (`Good`); that nothing was delivered twice follows, and a publication keeps it because its ids are new (none is above `messageIDSeq`).  Pull and acknowledge need what `SelectSeq` and concatenation do to an ascending sequence: those lemmas are proved from the definitions by rank (`RankStep`), not by an induction over sequences |
| `LambdaProofs` | `LambdaTypeCorrect`, `PortsOwnedOnce`, `NoContainerForgotten`, `EntriesRunRecordedCode`, `NoForeignCalls` | `IInv` adds to the types what a request knows at each place (`Known`: it has a port from allocation on and a container from creation on) and `Linked`: the port a container publishes is the port of the request that started it.  Without `Linked`, handing the container over to the pool could give a port a second owner.  The second half rests on the first.  `Accounts`: no container is referred to twice (`RefsApart`), and Docker has room for one of a name (`OneName`), so that even two starts of a function at once, which a failed start lets through, never overwrite a live pool entry.  `CodeInv` says what a request knows of record, directory and pool where it is; the steps that change them use `Alone`: without an overlap, of two requests for a function neither changes it.  `PortInv`: nobody else listens on the port of an entry, of a started container or of a call under way (`CallOK`).  The last is not kept by a shutdown, which gives ports back while containers may stay: hence `phase = "up"` in `CallsOwnFunction` |
| `IdempotencyProofs` | `IdempotencyTypeCorrect`, `ReplaysJustified`, `NoEarlyRerun` | `RecordsBacked`: a record is the answer of a request for its token, and expires one TTL after the date that request computed.  `AnswersKept`: while an answer is not old (`Old`) its token has a record that outlives it, or outlives one that overlapped it and is dated no later: as the deadline is computed before the lock is taken, the record with the earlier one may be stored last.  Of an overlapping record that is still to come it must be known that it did overlap: `AllMet`.  All are kept by the collector because a clock read earlier only finds fewer records expired |
| `RecordsProofs` | `CoreCorrect`, `AnswersCorrect`, `TypesCorrect`, `ReferencesCorrect` | a handler reads a record in one step and puts it back in another, and the record shares a map with every copy of it.  `Core` therefore says, beside that promises are kept (`Kept`), that a map belongs to one key (`Apart`: otherwise a Put under one name changes what was answered of another), that of two requests for a name none believes to be alone (`Solo`), and that what a request that is alone has read is still there (`UpToDate`): only then does its write make its answer true.  Every action of the eight services is shown to be a read, the beginning of a request, a write of its own record or an answer, and those keep `Core`.  References rest on more: a deletion that is past its check has found nothing that refers to the record, or the request that makes such a reference overlaps it, and that has been seen (`Met`), as whichever of the two began second found the other at work.  A record whose parent the admin API has deleted is exempt until the parent is made again (`taken`); `Minio` says the same of buckets taken by a request that leaves a record (`left`): the other service's, or one whose answer was lost.  `Net` and `Minio` add the same for the networks of VPCs and the buckets of MinIO, which change outside the store, before or after it.  `RecordsAssumption`: clients talk about whatever there is a key for, no request gives a rule in the type the default one is stored in (`parseIpPermissions` makes `[]string`), and instances made in a group are told from the others |
| `BackendsProofs` | `PublishedPortsAreHeld`, `EndpointsAreLive`, `AnswersAreKept` | `PortsInv`: every port has at most one taker, which the pool knows: a container that has been started or is registered, about to be, or to be shut down, or a job whose container has not started yet.  A path that gives a port back does it for a taker, so it gives back nobody else's.  `TellingInv` holds while the services come up and serve: registered engines run and nothing takes them down, as only the containers of clusters and instances are stopped or removed (`JobTold`); the addresses that services have copied are theirs; the maps of clusters and instances are not shared (`MapsApart`), so that a delete reads the container of its own record; and what a workload needs is there or still due in InitAll (`InOrder`).  The last is where the order of registration enters (`RegistrationAssumption`, from start.go): with Memorystore before ElastiCache the theorem is false.  `AnswersInv`: what was answered of a name is what its record tells (`Shown`), except while a request for the name is writing (`Writing`) or requests for it overlap; after a change that was refused half-way, what the program has written is what is told (`HalfChanged`); what a request that is alone has read, or a creation has put before it registers the backend, is still so (`UpToDate`), and is what its answer will say.  A handler changes the map that it shares with the store before it puts the record back, so this needs that a map belongs to one key (`OneKeyed`), and that who has been alone so far still is (`OneAlone`).  Every step is shown to be one request's, on one key (`OneMoves`); it keeps what the others know, and has only to be right about its own name (`RightMoveKeeps`) |
| `AccountsProofs` | `ContainersAreAccounted` | the property speaks of the names nobody works on; the invariant has to say what those who do have in hand.  `AccountsInv` is about the calm names: those that no call has failed for, and on which nobody has met with a different aim.  `Sound`: all who work on such a name do the same (`Agree`), one of them at most has its container past creation (`OneUp`), which is up when it should be (`IsUp`) and down when a removal is over (`IsDown`), and whatever runs is kept by its service, about to be handed over, or on its way down (`Accounted`).  `Linked` ties the job to the place the request is at, and a record to the one container of its name; `Instances` says that the record of an instance stays, with that container, while the instance is started, stopped or deleted.  While the server serves, `Matching`: one cluster claims a name, as EKS and GKE name containers alike, its backend object runs, and the container of a record is as its status says, unless a job is about to change one of the two.  During a shutdown, `Shutting`: what runs is on a list still to come or in the server's hand, or was being made when the shutdown began.  `server.late` are the names for which something was being made when the shutdown began or meanwhile.  It rests on `PortsInv` and `TellingInv`, on which the engines' part (what is registered runs) is proved already, and on `RegistrationAssumption`: a workload has the services it talks to |

The proofs assume only the named assumptions on constants of each module, which
TLC evaluates for every run (disjoint kinds of values, positive limits, the order
of registration), and what the table names beside a theorem.  Each invariant has
been checked as an invariant by TLC before.

Only model-checked: liveness (`LockReturns`, `Converges`, `ExpiredGoes`), which
rests on fairness and so on ENABLED, beyond the prover.

## 6. Where code and documents part

Shown by a run (see `findings` in `PROJECT.json`):

- The containers of the shared backends have the managed label and no record;
  the first tick removes them (`reconciler.go:130`, run `reconciler_backends`).
- `.belt/spec.md:223`: stop removes every container.  Requests are served until
  after the services are shut down (`start.go:243`, `247`): a request that comes
  after its service's Shutdown, or whose container the service has not noted by
  then, leaves it (run `stop_removes_all`).
- `sg/actions.go:328`: rules match when protocol, ports and ranges agree.  The
  ranges of the default egress rule are stored in another type, so a revoke of what
  DescribeSecurityGroups shows is answered true and the rule stays (run `revoke`);
  a request without ranges revokes it.

Met while modelling; no run is spent on them:

- `reconciler.go:127`: the reconciler removes the container of an instance that
  RunInstances recorded between the two listings, although its record exists.
- `.belt/spec.md:268`: concurrent operations are to be kept apart by locks on
  resources.  No handler takes one, so a Stop that overlaps a Terminate brings the
  record back as stopped, and likewise in `gce` and `rds`.
- `invoke.go:157`: `startupEntry` is to prevent several starts.  A failed start
  takes the mutex out of the table while others wait for it; two invocations then
  start a container.
- `port.go:61`: with a preferred port two or more above the range, ports outside
  the range are handed out.  The assumption in `OnlyRangeUsed` names this.
- `lock.go:28`, `42`: Lock on a free key succeeds although its context is over.
- `reconciler.go:69`, `95`: a container created after the first listing is
  missing from it, so a live instance can be marked terminated.
- A failed removal of an orphan is not tried again, as its record then makes the
  container known; `roadmap.md:230` promises that orphans are cleaned up.  A container that has
  exited is not reported terminated (`spec.md:64`).
- `spec.md:200`: one RunInstances request can exceed the container limit, which
  is checked once and before the first start.
- Lambda: a container that failed to start keeps its fixed name and blocks later
  starts; a failed update leaves no code and the old record; an entry whose
  container died stays ready; a port is free before its container has stopped,
  so calls that overlap a Delete can reach another function; an Update that
  overlaps a Delete puts the record back.
- `idempotency.go:207`: two requests with one token that overlap both run.  As each
  computes its deadline (`269`) before it takes the lock, the earlier deadline may be
  stored last, and the operation runs again within the TTL of the other's answer.
  Errors and 503s are recorded like any answer; a body is cut at 1 MB, for the
  handler too (line 221 says that the original is restored); all services under
  `/v1/projects/` share their tokens, as the service name that line 185 looks
  for is put into a later context (`handler.go`).
- `minio.go:40`, `66`: the comments say that an existing container is used again.
  It never is: InitAll fails on the name until the container is removed.
- `.belt/spec.md:223` again: stop does not remove the containers of an InitAll
  that failed, or that a SIGTERM interrupted (NotifyContext comes later), or a
  server that could not listen.  A stop that finds the pid file still empty takes
  the server for dead and removes the file; a pid that was given again is sent the
  signal meant for another process.
- `cloudsql/actions.go:106`: "create a postgres instance in RDS first" does not
  help, since the address is copied at Init, before any request.
- An engine that does not become healthy keeps its name and its port, and every
  later attempt fails on the name.  EKS and GKE name a container after the cluster
  alone, so one of two clusters of one name cannot be created; a cluster without a
  backend object is removed directly and its port never given back; a deletion
  between the Put of a record and the registration of its backend leaves a backend
  that names no container.
- RDS: a refused password leaves the new class in the map shared with the store; a
  Modify that overlaps a Delete puts the record back as "deleting".
- Security groups: DescribeSecurityGroups never shows the ranges of a rule that was
  added, which are `[]string` (`toIpPermissionItems` asserts `[]interface{}`); IAM:
  DeletePolicy does not look at attachments; tags: of two first CreateTags that
  overlap one is lost; S3: any DELETE of a bucket path, with a parameter too, deletes
  the bucket's record, and a PUT with a parameter that is not one of five writes it
  anew (`s3/state.go:41`); S3 and GCS list buckets the other has deleted
  (`gcs/state.go:51`), and those whose deletion MinIO has done when its answer was
  lost (`s3/proxy.go:47-55`); admin: a record is deleted under those that refer
  to it, and pages are cut from a listing in random order.

## 7. What is not modelled

The file store, TTL manager and cleaner (written and tested, but constructed by
nothing), codecs, verifiers and configuration (pure functions of one request),
the default network (one call at start), the event stream (nothing subscribes),
IMDS (views, and a table of tokens under one mutex), the pages of admin, the
removal of all networks at the shutdown of vpc, the reconciler, the admin API's
deletions and crashing containers beside the services of `Backends` (what
`ContainersAccounted`, `EndpointsLive` and their theorems say holds without them), the translation between GCS and
S3 requests.  `components` in `PROJECT.json` gives the reason for each.

## 8. The plan

Done, in this order: `PortPool`, `PortManager`; `AbstractLock`, `LockManager`;
`Docker`, `Ec2`, `Reconciler`; `PubSub`; `Lambda`; `Idempotency`; `RecordStore`
with the eight modules of `Records`; `Engine`, `Clusters`, `Gce`, `Databases`,
`Backends`; `Lifecycle`; the proofs.

Left, should the code come to need it:

1. `FileStore`: snapshots and renames of several goroutines, a crash between them,
   a restart from the file; TTL manager and cleaner on top.  When start.go wires
   them, and not before.
2. `Gce` and the engines under the reconciler, as `Ec2` is: `reconciler_backends`
   shows what happens now.

## 9. Running it

```
tlc -workers 2 -config Process.cfg MCProcess.tla   # one run
tlapm LambdaProofs.tla                             # one module of proofs
```

`PROJECT.json` lists runs, variants, theorems, hazards, and for every definition
the lines it models.
