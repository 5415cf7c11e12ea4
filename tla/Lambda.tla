------------------------------- MODULE Lambda -------------------------------
(***************************************************************************)
(* internal/service/lambda: the function records, the deployed code, the   *)
(* pool of warm containers and the table of startup mutexes, on top of     *)
(* Docker and of the port allocator (PortPool).  Every handler is a        *)
(* goroutine; poolMu and startupMu are held for single reads and writes of  *)
(* their maps only, and the startup mutex of a function from the second     *)
(* look at the pool to the registration of the container.                  *)
(*                                                                         *)
(* Synchronous and asynchronous invocations run the same invokeFunction; a *)
(* deadline that expires shows as a failed step.  Container names are      *)
(* cloudia-lambda-<function>: Docker refuses a second one while the first  *)
(* exists.  Deployed code is its version; the validation of requests, which *)
(* changes nothing, is left out.                                           *)
(***************************************************************************)
EXTENDS Docker, PortPool

CONSTANTS Function, Handler, Version,
          Entry,     \* startup mutexes, as many as can be referred to at a time
          Ops,       \* the operations that are requested
          MaxEvents  \* bound of the model: requests, crashes and the like in a behaviour

None == 0            \* no container, port or mutex

\* Resource ids of the port allocator are "lambda-" + the name of the function.
ASSUME LambdaAssumption ==
  /\ Container \subseteq Nat \ {None} /\ Port \subseteq Nat \ {None}
  /\ Entry \subseteq Nat \ {None}
  /\ Version \cap {"none", "absent", "empty", "broken"} = {}
  /\ Resource = Function /\ NoResource \notin Function
  /\ MaxEvents \in Nat
  /\ Ops \subseteq {"create", "delete", "update", "invoke"}

VARIABLES store,     \* function -> version that its record tells, or "absent"
          code,      \* function -> what its code directory holds
          made,      \* container -> what it was created with
          pool,      \* function -> container of its pool entry, or None
          startup,   \* function -> its mutex in startupPool, or None
          req,       \* handler -> the request it is working on
          events,    \* how many of them there have been
          phase,     \* of the service: "up", "closing" or "down"
          spoiled    \* function -> mishaps it has seen (history)

vars == <<containers, owner, store, code, made, pool, startup, req, events, phase, spoiled>>

Recorded == Version \cup {"absent"}
Deployed == Version \cup {"empty", "broken"}
Made     == [fn : Function, port : Port, code : Deployed]
Unmade   == [fn |-> NoResource, port |-> None, code |-> "empty"]

Starting == {"create", "start", "health", "healthStop", "healthRemove", "register"}
Pc == {"idle", "get", "limit", "ensure", "lock", "alloc", "call",
       "wipe", "deploy", "take", "stop", "remove", "commit", "cleanup"} \cup Starting

Request == [pc : Pc, op : {"none", "create", "delete", "update", "invoke"},
            fn : Function \cup {NoResource}, ctr : Container \cup {None},
            port : Port \cup {None}, entry : Entry \cup {None}, version : Version \cup {"none"}]

Idle == [pc |-> "idle", op |-> "none", fn |-> NoResource, ctr |-> None,
         port |-> None, entry |-> None, version |-> "none"]

TypeOK == /\ DockerTypeOK
          /\ owner \in [Port -> Function \cup {NoResource}]
          /\ store \in [Function -> Recorded]
          /\ code \in [Function -> Deployed]
          /\ made \in [Container -> Made \cup {Unmade}]
          /\ pool \in [Function -> Container \cup {None}]
          /\ startup \in [Function -> Entry \cup {None}]
          /\ req \in [Handler -> Request]
          /\ events \in 0 .. MaxEvents
          /\ phase \in {"up", "closing", "down"}
          /\ spoiled \in [Function -> SUBSET {"overlap", "loose"}]

\* The functions have been created, with the same code, and none invoked yet: the
\* requests of a behaviour are counted from there.
Init == /\ PoolInit
        /\ containers = [c \in Container |-> "none"]
        /\ store \in {[f \in Function |-> v] : v \in Version}
        /\ code = store
        /\ made = [c \in Container |-> Unmade]
        /\ pool = [f \in Function |-> None]
        /\ startup = [f \in Function |-> None]
        /\ req = [h \in Handler |-> Idle]
        /\ events = 0
        /\ phase = "up"
        /\ spoiled = [f \in Function |-> {}]
-----------------------------------------------------------------------------
At(h, pc)   == req[h].pc = pc
Fn(h)       == req[h].fn
Goto(h, pc) == req' = [req EXCEPT ![h].pc = pc]
Answer(h)   == req' = [req EXCEPT ![h] = Idle]
Active(h)   == ~At(h, "idle")

\* Release ignores a port that nobody holds.
Release(p) == owner' = [owner EXCEPT ![p] = NoResource]

Mishap(f, why) == spoiled' = [spoiled EXCEPT ![f] = @ \cup {why}]

\* poolMu is free for the handlers unless Shutdown holds it.
PoolUnlocked == phase # "closing"
Register(f, c) == pool' = [pool EXCEPT ![f] = c]

Event == events < MaxEvents /\ events' = events + 1

\* A request comes in.  History: requests that change a function while another
\* request for it is under way.
Admin(op) == op # "invoke"
Begin(h, op, f, v) ==
  /\ At(h, "idle")
  /\ Event
  /\ req' = [req EXCEPT ![h] = [Idle EXCEPT !.pc = "get", !.op = op, !.fn = f, !.version = v]]
  /\ IF \E g \in Handler : Fn(g) = f /\ (Admin(op) \/ Admin(req[g].op))
     THEN Mishap(f, "overlap") ELSE UNCHANGED spoiled
  /\ UNCHANGED <<containers, owner, store, code, made, pool, startup, phase>>

\* What each handler does with the answer of its store.Get.
GetFunction(h) ==
  LET found == store[Fn(h)] # "absent" IN
  /\ At(h, "get")
  /\ \/ found = (req[h].op = "create") /\ Answer(h)
     \/ found # (req[h].op = "create")
        /\ Goto(h, CASE req[h].op = "create" -> "deploy" [] req[h].op = "delete" -> "take"
                     [] req[h].op = "update" -> "wipe"   [] req[h].op = "invoke" -> "limit")
  /\ UNCHANGED <<containers, owner, store, code, made, pool, startup, phase, spoiled, events>>
-----------------------------------------------------------------------------
(* Invoke                                                                   *)

\* The container limit counts records of all services: it may refuse at any time.
CheckLimit(h) ==
  /\ At(h, "limit") /\ PoolUnlocked
  /\ \/ Goto(h, "ensure")
     \/ pool[Fn(h)] = None /\ Answer(h)
  /\ UNCHANGED <<containers, owner, store, code, made, pool, startup, phase, spoiled, events>>

\* The pool entry's baseURL is read under poolMu and used without it.
CallEntry(h) == req' = [req EXCEPT ![h].pc = "call", ![h].entry = None,
                                   ![h].port = made[pool[Fn(h)]].port]

Unreferenced(e) == /\ \A f \in Function : startup[f] # e
                   /\ \A h \in Handler : req[h].entry # e

\* First look at the pool; a miss fetches the function's mutex or makes one.
EnsureContainer(h) ==
  LET f == Fn(h)  Wait(e) == req' = [req EXCEPT ![h].pc = "lock", ![h].entry = e] IN
  /\ At(h, "ensure") /\ PoolUnlocked
  /\ \/ pool[f] # None /\ CallEntry(h) /\ UNCHANGED startup
     \/ pool[f] = None /\ startup[f] # None /\ Wait(startup[f]) /\ UNCHANGED startup
     \/ /\ pool[f] = None /\ startup[f] = None
        /\ \E e \in Entry : /\ Unreferenced(e)
                            /\ \A d \in Entry : d < e => ~Unreferenced(d)
                            /\ Wait(e)
                            /\ startup' = [startup EXCEPT ![f] = e]
  /\ UNCHANGED <<containers, owner, store, code, made, pool, phase, spoiled, events>>

Holds(h, e) == req[h].entry = e /\ req[h].pc \in Starting \cup {"alloc"}

\* The mutex is taken and the pool looked at again.
LockStartup(h) ==
  /\ At(h, "lock") /\ PoolUnlocked
  /\ ~\E g \in Handler : Holds(g, req[h].entry)
  /\ IF pool[Fn(h)] # None THEN CallEntry(h) ELSE Goto(h, "alloc")
  /\ UNCHANGED <<containers, owner, store, code, made, pool, startup, phase, spoiled, events>>

\* startContainer has failed: the mutex leaves the table and is unlocked.
GiveUp(h) == /\ startup' = [startup EXCEPT ![Fn(h)] = None]
             /\ Answer(h)

AllocatePort(h) ==
  /\ At(h, "alloc")
  /\ \/ \E p \in Port : /\ Grant(Fn(h), p)
                        /\ req' = [req EXCEPT ![h].pc = "create", ![h].port = p]
                        /\ UNCHANGED startup
     \/ GiveUp(h) /\ UNCHANGED owner
  /\ UNCHANGED <<containers, store, code, made, pool, phase, spoiled, events>>

NameFree(f) == \A c \in Container : Exists(c) => made[c].fn # f

\* RunContainer creates the container, with the code directory as it is now ...
Create(h) ==
  /\ At(h, "create")
  /\ \/ \E c \in Container :
          /\ \A b \in Container : b < c => containers[b] # "none"
          /\ NameFree(Fn(h))
          /\ CreateContainer(c)
          /\ made' = [made EXCEPT ![c] = [fn |-> Fn(h), port |-> req[h].port,
                                          code |-> code[Fn(h)]]]
          /\ req' = [req EXCEPT ![h].pc = "start", ![h].ctr = c]
          /\ UNCHANGED <<owner, startup>>
     \/ GiveUp(h) /\ Release(req[h].port) /\ UNCHANGED <<containers, made>>
  /\ UNCHANGED <<store, code, pool, phase, spoiled, events>>

\* ... and starts it, which Docker refuses while another container publishes the
\* host port.  A container that does not start is left behind.
Publishes(c, p) == containers[c] = "running" /\ made[c].port = p
Start(h) ==
  LET busy == \E c \in Container : Publishes(c, req[h].port) IN
  /\ At(h, "start")
  /\ \/ /\ ~busy /\ StartContainer(req[h].ctr, TRUE)
        /\ Goto(h, "health")
        /\ UNCHANGED <<owner, startup, spoiled>>
     \/ /\ IF busy THEN UNCHANGED containers ELSE StartContainer(req[h].ctr, FALSE)
        /\ GiveUp(h) /\ Release(req[h].port) /\ Mishap(Fn(h), "loose")
  /\ UNCHANGED <<store, code, made, pool, phase, events>>

WaitRIEHealthy(h) ==
  /\ At(h, "health")
  /\ \/ containers[req[h].ctr] = "running" /\ Goto(h, "register")
     \/ Goto(h, "healthStop")
  /\ UNCHANGED <<containers, owner, store, code, made, pool, startup, phase, spoiled, events>>

UnhealthyStop(h) ==
  /\ At(h, "healthStop")
  /\ \E ok \in BOOLEAN : StopContainer(req[h].ctr, ok)
  /\ Goto(h, "healthRemove")
  /\ UNCHANGED <<owner, store, code, made, pool, startup, phase, spoiled, events>>

\* Errors of RemoveContainer are ignored, here and in Delete and Update.
RemoveOrLose(c, f) ==
  \E ok \in BOOLEAN : /\ RemoveContainer(c, ok)
                      /\ IF Exists(c) /\ ~ok THEN Mishap(f, "loose") ELSE UNCHANGED spoiled

UnhealthyRemove_KeepsContainer(h) ==
  /\ At(h, "healthRemove")
  /\ GiveUp(h) /\ Release(req[h].port)
  /\ UNCHANGED <<containers, spoiled, store, code, made, pool, phase, events>>
UnhealthyRemove(h) ==
  /\ At(h, "healthRemove")
  /\ RemoveOrLose(req[h].ctr, Fn(h))
  /\ GiveUp(h) /\ Release(req[h].port)
  /\ UNCHANGED <<store, code, made, pool, phase, events>>

\* The container enters the pool and the mutex is unlocked.
RegisterContainer(h) ==
  /\ At(h, "register") /\ PoolUnlocked
  /\ Register(Fn(h), req[h].ctr)
  /\ req' = [req EXCEPT ![h].pc = "call", ![h].entry = None, ![h].ctr = None]
  /\ UNCHANGED <<containers, owner, store, code, made, startup, phase, spoiled, events>>

\* The answer or the error of the HTTP call is passed on: the pool stays as it is.
CallRIE(h) ==
  /\ At(h, "call")
  /\ Answer(h)
  /\ UNCHANGED <<containers, owner, store, code, made, pool, startup, phase, spoiled, events>>
-----------------------------------------------------------------------------
(* CreateFunction, UpdateFunctionCode and DeleteFunction                    *)

Wipe(h) ==
  /\ At(h, "wipe")
  /\ code' = [code EXCEPT ![Fn(h)] = "empty"]
  /\ Goto(h, "deploy")
  /\ UNCHANGED <<containers, owner, store, made, pool, startup, phase, spoiled, events>>

\* deployZipFile writes into the directory; a bad archive leaves it half filled.
DeployZipFile(h) ==
  /\ At(h, "deploy")
  /\ \/ /\ code' = [code EXCEPT ![Fn(h)] = req[h].version]
        /\ Goto(h, IF req[h].op = "create" THEN "commit" ELSE "take")
     \/ /\ code' = [code EXCEPT ![Fn(h)] = "broken"]
        /\ Answer(h)
  /\ UNCHANGED <<containers, owner, store, made, pool, startup, phase, spoiled, events>>

\* Under poolMu the port is released and the entry removed; the container, which
\* still publishes that port, is stopped and removed afterwards.
TakeEntry_KeepsEntry(h) ==
  LET c == pool[Fn(h)] IN
  /\ At(h, "take") /\ PoolUnlocked
  /\ IF c = None
     THEN Goto(h, "commit") /\ UNCHANGED owner
     ELSE /\ Release(made[c].port)
          /\ req' = [req EXCEPT ![h].pc = "stop", ![h].ctr = c]
  /\ UNCHANGED <<containers, store, code, made, pool, startup, phase, spoiled, events>>
TakeEntry(h) ==
  LET c == pool[Fn(h)] IN
  /\ At(h, "take") /\ PoolUnlocked
  /\ IF c = None
     THEN Goto(h, "commit") /\ UNCHANGED <<owner, pool>>
     ELSE /\ Release(made[c].port)
          /\ Register(Fn(h), None)
          /\ req' = [req EXCEPT ![h].pc = "stop", ![h].ctr = c]
  /\ UNCHANGED <<containers, store, code, made, startup, phase, spoiled, events>>

StopTaken(h) ==
  /\ At(h, "stop")
  /\ \E ok \in BOOLEAN : StopContainer(req[h].ctr, ok)
  /\ Goto(h, "remove")
  /\ UNCHANGED <<owner, store, code, made, pool, startup, phase, spoiled, events>>

RemoveTaken(h) ==
  /\ At(h, "remove")
  /\ RemoveOrLose(req[h].ctr, Fn(h))
  /\ req' = [req EXCEPT ![h].pc = "commit", ![h].ctr = None]
  /\ UNCHANGED <<owner, store, code, made, pool, startup, phase, events>>

\* store.Put (Create, Update) or store.Delete.  Put does not ask whether the
\* record it was read from is still there.
CommitRecord_StaleVersion(h) ==
  /\ At(h, "commit")
  /\ store' = [store EXCEPT ![Fn(h)] = CASE req[h].op = "delete" -> "absent"
                                        [] req[h].op = "create" -> req[h].version
                                        [] OTHER -> @]
  /\ IF req[h].op = "delete" THEN Goto(h, "cleanup") ELSE Answer(h)
  /\ UNCHANGED <<containers, owner, code, made, pool, startup, events, phase, spoiled>>
CommitRecord_FromDirectory(h) ==
  /\ At(h, "commit")
  /\ store' = [store EXCEPT ![Fn(h)] = IF req[h].op = "delete" THEN "absent" ELSE code[Fn(h)]]
  /\ IF req[h].op = "delete" THEN Goto(h, "cleanup") ELSE Answer(h)
  /\ UNCHANGED <<containers, owner, code, made, pool, startup, phase, spoiled, events>>
CommitRecord(h) ==
  /\ At(h, "commit")
  /\ \/ /\ req[h].op = "delete"
        /\ store' = [store EXCEPT ![Fn(h)] = "absent"]
        /\ Goto(h, "cleanup")
     \/ /\ req[h].op # "delete"
        /\ store' = [store EXCEPT ![Fn(h)] = req[h].version]
        /\ Answer(h)
  /\ UNCHANGED <<containers, owner, code, made, pool, startup, events, phase, spoiled>>

RemoveCode(h) ==
  /\ At(h, "cleanup")
  /\ code' = [code EXCEPT ![Fn(h)] = "empty"]
  /\ Answer(h)
  /\ UNCHANGED <<containers, owner, store, made, pool, startup, phase, spoiled, events>>
-----------------------------------------------------------------------------
(* Shutdown, with poolMu held throughout; the server answers requests until *)
(* after it.                                                                *)

StartShutdown == /\ phase = "up"
                 /\ Event
                 /\ phase' = "closing"
                 /\ UNCHANGED <<containers, owner, store, code, made, pool, startup, req, spoiled>>

\* The loop's turn for f.  That the container is stopped first makes no difference
\* to a removal.
ShutdownEntry(f) ==
  LET c == pool[f] IN
  /\ phase = "closing" /\ c # None
  /\ RemoveOrLose(c, f)
  /\ Release(made[c].port)
  /\ Register(f, None)
  /\ UNCHANGED <<store, code, made, startup, req, phase, events>>

EndShutdown == /\ phase = "closing"
               /\ \A f \in Function : pool[f] = None
               /\ phase' = "down"
               /\ code' = [f \in Function |-> "empty"]
               /\ UNCHANGED <<containers, owner, store, made, pool, startup, req, spoiled, events>>

\* Containers crash, and others remove them: the reconciler takes the containers
\* of functions for orphans, as no record names them.
Crash(c) == /\ Event
            /\ Dies(c)
            /\ UNCHANGED <<owner, store, code, made, pool, startup, req, phase, spoiled>>
TakenAway(c) == /\ Event
                /\ RemovedByHand(c)
                /\ Mishap(made[c].fn, "loose")
                /\ UNCHANGED <<owner, store, code, made, pool, startup, req, phase>>

Step(h) ==
  \/ \E op \in Ops, f \in Function :
       \E v \in IF op \in {"create", "update"} THEN Version ELSE {"none"} : Begin(h, op, f, v)
  \/ GetFunction(h)
  \/ CheckLimit(h) \/ EnsureContainer(h) \/ LockStartup(h) \/ AllocatePort(h)
  \/ Create(h) \/ Start(h) \/ WaitRIEHealthy(h) \/ UnhealthyStop(h) \/ UnhealthyRemove(h)
  \/ RegisterContainer(h) \/ CallRIE(h)
  \/ Wipe(h) \/ DeployZipFile(h)
  \/ TakeEntry(h) \/ StopTaken(h) \/ RemoveTaken(h) \/ CommitRecord(h) \/ RemoveCode(h)

Next == \/ \E h \in Handler : Step(h)
        \/ StartShutdown \/ EndShutdown \/ \E f \in Function : ShutdownEntry(f)
        \/ \E c \in Container : Crash(c) \/ TakenAway(c)

Spec == Init /\ [][Next]_vars
-----------------------------------------------------------------------------
Owners(h) == req[h].pc \in Starting

(* A host port is answered for at most once: by the pool entry of one function
   or by one invocation that is starting a container, and the allocator has it
   down for that function (Allocate/Release in invoke.go and actions.go).    *)
OnePortOwner ==
  /\ \A f \in Function : pool[f] # None => owner[made[pool[f]].port] = f
  /\ \A h \in Handler : Owners(h) => owner[req[h].port] = Fn(h)
  /\ \A f \in Function, h \in Handler :
       pool[f] # None /\ Owners(h) => made[pool[f]].port # req[h].port
  /\ \A g, h \in Handler : g # h /\ Owners(g) /\ Owners(h) => req[g].port # req[h].port

(* No container is forgotten: one that exists is in the pool, or some request
   is still starting it or taking it down, unless Docker failed to start or to
   remove a container of that function or somebody else removed one.         *)
ContainersAccounted ==
  \A c \in Container :
    Exists(c) /\ "loose" \notin spoiled[made[c].fn] =>
      pool[made[c].fn] = c \/ \E h \in Handler : req[h].ctr = c

(* As long as requests that change a function do not overlap with other requests
   for it, its warm container belongs to a function that exists and runs the
   code that the record tells (or what a failed deployment had left).        *)
PoolRunsRecordedCode ==
  \A f \in Function :
    pool[f] # None /\ "overlap" \notin spoiled[f] /\ (\A h \in Handler : Fn(h) # f) =>
      /\ store[f] # "absent"
      /\ made[pool[f]].code \in {store[f], "empty", "broken"}

(* Under the same condition an invocation calls its own function: nobody else's
   container has come to listen on the port it goes to.                      *)
CallsOwnFunction ==
  \A h \in Handler, c \in Container :
    At(h, "call") /\ Publishes(c, req[h].port) /\ "overlap" \notin spoiled[Fn(h)] /\ phase = "up"
      => made[c].fn = Fn(h)
=============================================================================
