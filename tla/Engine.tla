------------------------------- MODULE Engine -------------------------------
(***************************************************************************)
(* The containers cloudia starts under a fixed name and publishes on a     *)
(* host port: MinIO, Redis, MySQL, PostgreSQL, DynamoDB Local, and one k3s *)
(* per cluster (internal/backend/*/backend.go, service/s3/minio.go,        *)
(* service/dynamodb/backend.go).  They come up and go down in the same     *)
(* steps; between two of them other goroutines run.                        *)
(*                                                                         *)
(* A container is <<name, n>>, the n-th of that name, so that its identity *)
(* is that of its Docker id.  job[r] is the backend that goroutine r is    *)
(* bringing up or taking down.  A backend object keeps container and port; *)
(* it is identified with its container, and emptied are the objects that   *)
(* Shutdown has set back to containerID "".                                *)
(*                                                                         *)
(* trouble is not in the program: the names for which a call has failed,   *)
(* or for which requests of different kinds have overlapped.               *)
(***************************************************************************)
EXTENDS Docker, PortPool, FiniteSets, Functions, TLC

CONSTANTS Runner,      \* goroutines: the handlers and the server's own
          Preferred    \* name -> the port that is asked for

NoPort == 0

ASSUME EngineAssumption == /\ Port \subseteq Nat \ {NoPort}
                           /\ Container \subseteq Resource \X Nat
                           /\ Preferred \in [Resource -> Nat]

VARIABLES published,   \* container -> the host port it is published on
          emptied, job, trouble,
          backends,    \* <<service, id>> -> the object the service has registered
          locked       \* services whose mutex is held across several steps

engineVars == <<containers, owner, published, emptied, job, trouble>>
registry   == <<backends, locked>>

NameOf(c)     == c[1]
NoContainer   == <<>>
NoJob         == [kind |-> "none", name |-> "none", phase |-> "none", port |-> NoPort, container |-> NoContainer]
InPhase(r, p) == job[r].phase = p
To(r, p)      == job' = [job EXCEPT ![r].phase = p]
Live(c)       == containers[c] \in {"running", "paused"}

EngineInit == /\ containers = [c \in Container |-> "none"]
              /\ PoolInit
              /\ published = [c \in Container |-> NoPort]
              /\ emptied = {}
              /\ job = [r \in Runner |-> NoJob]
              /\ trouble = {}
              /\ backends = <<>>
              /\ locked = {}

Others(r, n) == {q \in Runner \ {r} : job[q].name = n}
Spare(n)     == {c \in Container : NameOf(c) = n /\ containers[c] = "none"}
NextSpare(n) == {c \in Spare(n) : \A d \in Spare(n) : c[2] <= d[2]}

\* Requests of one kind for one name may overlap, those of different kinds not.
TakeJob(r, kind, n, phase, c) ==
  /\ job[r] = NoJob
  /\ job' = [job EXCEPT ![r] = [kind |-> kind, name |-> n, phase |-> phase,
                                port |-> NoPort, container |-> c]]
  /\ trouble' = trouble \cup {m \in {n} : \E q \in Others(r, n) : job[q].kind # kind}

\* The bound: there is a container left for everybody who may make one.
MayMake(r, n) == Cardinality(Spare(n)) > Cardinality({q \in Others(r, n) : job[q].kind = "make"})

EndJob(r) == job' = [job EXCEPT ![r] = NoJob]
Trouble(r) == trouble' = trouble \cup {job[r].name}

GiveBack(r) == IF job[r].port = NoPort THEN UNCHANGED owner ELSE Return(job[r].port)
-----------------------------------------------------------------------------
(* Up.                                                                      *)

\* The nearest free port, as PortManager gives it; or a refusal.
Nearest(n) ==
  LET free  == {p \in Port : owner[p] = NoResource}
      above == {p \in free : p >= Preferred[n]}
      from  == IF above = {} THEN free ELSE above
  IN {p \in from : \A q \in from : p <= q}

Allocate(r) ==
  /\ InPhase(r, "allocate")
  /\ \/ \E p \in Nearest(job[r].name) :
          /\ Grant(job[r].name, p)
          /\ job' = [job EXCEPT ![r].phase = "create", ![r].port = p]
          /\ UNCHANGED trouble
     \/ To(r, "failed") /\ Trouble(r) /\ UNCHANGED owner
  /\ UNCHANGED <<containers, published, emptied>>

\* RunContainer creates the container: its name must not be in use, not even by a
\* container that has stopped.  When it fails the port is given back.
NameTaken(n) == \E c \in Container : NameOf(c) = n /\ Exists(c)

Create(r) ==
  LET n == job[r].name IN
  /\ InPhase(r, "create")
  /\ \/ \E c \in NextSpare(n) :
          /\ ~NameTaken(n) /\ CreateContainer(c)
          /\ published' = [published EXCEPT ![c] = job[r].port]
          /\ job' = [job EXCEPT ![r].phase = "start", ![r].container = c]
          /\ UNCHANGED <<owner, trouble>>
     \/ /\ Fails(~NameTaken(n)) /\ GiveBack(r) /\ To(r, "failed") /\ UNCHANGED published
        /\ IF NameTaken(n) THEN UNCHANGED trouble ELSE Trouble(r)
  /\ UNCHANGED emptied

\* ... and starts it.  One that does not start is left behind under its name.
Start(r) ==
  /\ InPhase(r, "start")
  /\ \/ /\ StartContainer(job[r].container, TRUE)
        /\ To(r, IF job[r].port = NoPort THEN "ready" ELSE "wait")
        /\ UNCHANGED <<owner, trouble>>
     \/ /\ StartContainer(job[r].container, FALSE)
        /\ GiveBack(r) /\ To(r, "failed") /\ Trouble(r)
  /\ UNCHANGED <<published, emptied>>

Wait_GivesBack(r) ==
  /\ InPhase(r, "wait")
  /\ \/ To(r, "ready") /\ UNCHANGED <<owner, trouble>>
     \/ To(r, "failed") /\ Trouble(r) /\ GiveBack(r)
  /\ UNCHANGED <<containers, published, emptied>>

\* One that does not become healthy is left running, and keeps its port; k3s is
\* asked for its kubeconfig too.
Wait(r) ==
  /\ InPhase(r, "wait")
  /\ \/ To(r, "ready") /\ UNCHANGED trouble
     \/ To(r, "failed") /\ Trouble(r)
  /\ UNCHANGED <<containers, owner, published, emptied>>
-----------------------------------------------------------------------------
(* Down.                                                                    *)

\* Shutdown of an object: an error leaves the rest undone.
Stop(r) ==
  LET c == job[r].container IN
  /\ InPhase(r, "stop")
  /\ \/ c \in emptied /\ To(r, "closed") /\ UNCHANGED <<containers, trouble>>
     \/ c \notin emptied /\ StopContainer(c, TRUE) /\ To(r, "remove") /\ UNCHANGED trouble
     \/ c \notin emptied /\ StopContainer(c, FALSE) /\ To(r, "closed") /\ Trouble(r)
  /\ UNCHANGED <<owner, published, emptied>>

Remove(r) ==
  LET c == job[r].container IN
  /\ InPhase(r, "remove")
  /\ \/ /\ RemoveContainer(c, TRUE) /\ Return(published[c])
        /\ emptied' = emptied \cup {c} /\ UNCHANGED trouble
     \/ /\ RemoveContainer(c, FALSE) /\ Trouble(r)
        /\ UNCHANGED <<owner, emptied>>
  /\ To(r, "closed")
  /\ UNCHANGED published

\* Handlers without an object stop and remove the container themselves; errors are
\* logged, and no port is given back.
StopIt(r) ==
  /\ InPhase(r, "stopIt")
  /\ \E ok \in BOOLEAN : StopContainer(job[r].container, ok)
  /\ To(r, "removeIt")
  /\ UNCHANGED <<owner, published, emptied, trouble>>

RemoveIt(r) ==
  LET c == job[r].container IN
  /\ InPhase(r, "removeIt")
  /\ \E ok \in BOOLEAN :
       /\ RemoveContainer(c, ok)
       /\ IF ok \/ ~Exists(c) THEN UNCHANGED trouble ELSE Trouble(r)
  /\ To(r, "closed")
  /\ UNCHANGED <<owner, published, emptied>>

EngineStep(r) == /\ \/ Allocate(r) \/ Create(r) \/ Start(r) \/ Wait(r)
                    \/ Stop(r) \/ Remove(r) \/ StopIt(r) \/ RemoveIt(r)
                 /\ UNCHANGED registry

Register(b, c) == backends' = [x \in DOMAIN backends \cup {b} |-> IF x = b THEN c ELSE backends[x]]
Forget(b)      == backends' = Restrict(backends, DOMAIN backends \ {b})

(* A container that runs has the port it is published on: the pool gives it to
   nobody else.  Every path that gives a port back must come after the removal of
   the container, or before its start.                                      *)
PublishedPortsHeld ==
  \A c \in Container : Live(c) /\ published[c] # NoPort => owner[published[c]] = NameOf(c)
=============================================================================
