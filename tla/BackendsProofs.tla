--------------------------- MODULE BackendsProofs ---------------------------
(***************************************************************************)
(* What runs is published on a port that the pool has given to it, and     *)
(* what the records tell their clients runs.                               *)
(*                                                                         *)
(* PublishedPortsHeld alone is not inductive.  PortsInv says that every    *)
(* port has at most one taker, which the pool knows: a container that has  *)
(* been started or that somebody holds, or a job whose container has not   *)
(* started yet.  A step that gives a port back does it for a taker, so it  *)
(* gives back nobody else's.                                               *)
(*                                                                         *)
(* TellingInv says what holds while the services come up and serve: the    *)
(* registered engines run, the addresses that have been copied are theirs, *)
(* what a workload needs is there or comes later in InitAll, and nothing   *)
(* is taken down but the containers of clusters and instances.             *)
(*                                                                         *)
(* AnswersInv says what a request that is alone with its name has read and *)
(* written, so that its answer is true (AnswersHold).                      *)
(***************************************************************************)
EXTENDS Backends, TLAPS

(* The containers that somebody will take for ones that have run: those     *)
(* registered, about to be, or to be shut down with their port.             *)
HandedOn == {job[r].container : r \in {q \in Runner : job[q].phase \in {"wait", "ready", "stop", "remove"}}}
ToShut   == IF Closing /\ Current # "compute" THEN server.left ELSE {}
Held     == {backends[b] : b \in DOMAIN backends} \cup HandedOn \cup ToShut

\* c is there and has a port; r has a port for a container that has not started.
Takes(c)  == c \in Container /\ published[c] # NoPort /\ Exists(c) /\ (Live(c) \/ c \in Held)
Awaits(r) == job[r].phase \in {"create", "start"} /\ job[r].port # NoPort

JobTypeOK == \A r \in Runner :
  /\ job[r] = [kind |-> job[r].kind, name |-> job[r].name, phase |-> job[r].phase,
               port |-> job[r].port, container |-> job[r].container]
  /\ job[r].port \in Port \cup {NoPort}
  /\ InPhase(r, "allocate") => job[r].name \in Resource

EngineTypeOK == /\ containers \in [Container -> ContainerState]
                /\ owner \in [Port -> Resource \cup {NoResource}]
                /\ published \in [Container -> Port \cup {NoPort}]
                /\ job = [r \in Runner |-> job[r]]
                /\ JobTypeOK

ServerTypeOK == /\ server = [pc |-> server.pc, services |-> server.services,
                             left |-> server.left, late |-> server.late]
                /\ server.pc \in {"init", "serving", "failed"} => server.left = {}

\* The pool has a port for its taker, and no port has two.
TakersHold   == \A c \in Container : Takes(c) => owner[published[c]] = NameOf(c)
AwaitersHold == \A r \in Runner : Awaits(r) => owner[job[r].port] = job[r].name /\ job[r].name \in Resource
TakersDiffer ==
  /\ \A c, d \in Container : Takes(c) /\ Takes(d) /\ c # d => published[c] # published[d]
  /\ \A c \in Container, r \in Runner : Takes(c) /\ Awaits(r) => published[c] # job[r].port
  /\ \A q, r \in Runner : Awaits(q) /\ Awaits(r) /\ q # r => job[q].port # job[r].port

\* The container that r is about to start.
Starts(r) == /\ job[r].container \in Container
             /\ containers[job[r].container] # "none"
             /\ published[job[r].container] = job[r].port
             /\ NameOf(job[r].container) = job[r].name
ToBeStarted ==
  \A r \in Runner : InPhase(r, "start") =>
    /\ Starts(r)
    /\ \A q \in Runner \ {r} : InPhase(q, "start") => job[q].container # job[r].container

HeldHaveRun == \A c \in Held : c \in Container /\ containers[c] \notin {"none", "created"}

EngineInv == /\ EngineTypeOK /\ ServerTypeOK
             /\ TakersHold /\ AwaitersHold /\ TakersDiffer /\ ToBeStarted /\ HeldHaveRun

(* What a handler knows when it registers a container or looks for one.     *)
Asked == /\ req = [h \in Handler |-> req[h]]
         /\ \A h \in Handler : {"op", "field"} \subseteq DOMAIN req[h]
Asking == /\ workload \in {"clusters", "gce", "rds"} => Asked
          /\ \A h \in Handler :
               /\ workload = "clusters" /\ At(h, "register") => InPhase(h, "ready")
               /\ workload = "rds" /\ At(h, "getOrCreateBackend") => req[h].field \in DbEngine

PortsInv == EngineInv /\ Asking
-----------------------------------------------------------------------------
LEMMA Constants ==
  /\ NoPort \notin Port /\ NoResource \notin Resource
  /\ \A c \in Container : NameOf(c) \in Resource /\ NameOf(c) # NoResource
  /\ Server \in Runner /\ Server \notin Handler
  /\ \A h \in Handler : h \in Runner /\ h # Server
  /\ DbEngine \subseteq Resource
  BY EngineAssumption, BackendsAssumption DEF NoPort, NameOf, DbEngine, EngineName

LEMMA PortsInit == Init => PortsInv
<1> SUFFICES ASSUME Init PROVE PortsInv
  OBVIOUS
<1> USE Constants
<1>1. \A r \in Runner : job[r] = NoJob
  BY DEF Init, EngineInit
<1>2. Held = {} /\ ~Closing
  BY <1>1 DEF Init, EngineInit, Held, HandedOn, ToShut, Closing, NoJob
<1>3. EngineTypeOK
  BY <1>1 DEF Init, EngineInit, EngineTypeOK, JobTypeOK, NoJob, ContainerState, PoolInit, InPhase
<1>4. ServerTypeOK
  BY DEF Init, ServerTypeOK
<1>5. \A c \in Container : ~Exists(c)
  BY DEF Init, EngineInit, Exists
<1>6. \A r \in Runner : ~Awaits(r) /\ ~InPhase(r, "start")
  BY <1>1 DEF Awaits, NoJob, InPhase
<1>7. TakersHold /\ AwaitersHold /\ TakersDiffer /\ ToBeStarted /\ HeldHaveRun
  BY <1>2, <1>5, <1>6 DEF TakersHold, AwaitersHold, TakersDiffer, ToBeStarted, HeldHaveRun, Takes
<1>8. Asking
  BY DEF Init, RecInit, Asking, Asked, Idle, At
<1> QED BY <1>3, <1>4, <1>7, <1>8 DEF PortsInv, EngineInv

(* Steps that leave ports alone and start no container: jobs may be taken,  *)
(* given up and moved on, as long as no port is awaited and no container    *)
(* held that was not before.                                                *)
Ebbs == /\ containers' \in [Container -> ContainerState]
        /\ \A c \in Container :
             /\ Exists(c)' => Exists(c)
             /\ Live(c)' => Live(c)
             /\ containers[c] # "none" => containers'[c] # "none"
             /\ containers[c] \notin {"none", "created"} => containers'[c] \notin {"none", "created"}
QuietJob(r) == \/ job'[r] = job[r]
               \/ /\ job'[r] = [kind |-> job'[r].kind, name |-> job'[r].name, phase |-> job'[r].phase,
                                port |-> job'[r].port, container |-> job'[r].container]
                  /\ job'[r].port \in Port \cup {NoPort}
                  /\ InPhase(r, "allocate")' => job'[r].name \in Resource
                  /\ ~Awaits(r)' /\ job'[r].phase # "start"

LEMMA StillEbbs == ASSUME EngineInv, UNCHANGED containers PROVE Ebbs
  BY DEF EngineInv, EngineTypeOK, Ebbs, Exists, Live

LEMMA DownEbbs ==
  ASSUME EngineInv, NEW c, NEW ok,
         StopContainer(c, ok) \/ RemoveContainer(c, ok) \/ PauseContainer(c, ok) \/ UnpauseContainer(c, ok)
  PROVE  Ebbs
<1>1. CASE UNCHANGED containers
  BY <1>1, StillEbbs
<1>2. CASE \E s \in {"exited", "removed", "paused", "running"} :
             /\ SetState(c, s) /\ Exists(c)
             /\ s \in {"paused", "running"} => Live(c)
  <2>1. CASE c \notin Container
    <3>1. containers' = containers
      BY <1>2, <2>1 DEF SetState, EngineInv, EngineTypeOK
    <3> QED BY <3>1, StillEbbs
  <2>2. CASE c \in Container
    BY <1>2, <2>2 DEF SetState, EngineInv, EngineTypeOK, Ebbs, Exists, Live, ContainerState
  <2> QED BY <2>1, <2>2
<1>3. UNCHANGED containers \/ \E s \in {"exited", "removed", "paused", "running"} :
             /\ SetState(c, s) /\ Exists(c)
             /\ s \in {"paused", "running"} => Live(c)
  BY DEF StopContainer, RemoveContainer, PauseContainer, UnpauseContainer, Fails, Exists, Live
<1> QED BY <1>1, <1>2, <1>3

LEMMA Regroup ==
  ASSUME EngineInv, Ebbs, UNCHANGED <<owner, published>>,
         job' = [r \in Runner |-> job'[r]], \A r \in Runner : QuietJob(r),
         ServerTypeOK', Held' \subseteq Held
  PROVE  EngineInv'
<1> USE DEF EngineInv
<1>1. EngineTypeOK'
  <2>1. \A r \in Runner : /\ job'[r] = [kind |-> job'[r].kind, name |-> job'[r].name, phase |-> job'[r].phase,
                                        port |-> job'[r].port, container |-> job'[r].container]
                          /\ job'[r].port \in Port \cup {NoPort}
                          /\ InPhase(r, "allocate")' => job'[r].name \in Resource
    BY DEF QuietJob, EngineTypeOK, JobTypeOK, InPhase
  <2> QED BY <2>1 DEF EngineTypeOK, JobTypeOK, Ebbs
<1>2. \A r \in Runner : Awaits(r)' => Awaits(r) /\ job'[r] = job[r]
  BY DEF QuietJob, Awaits
<1>3. \A c \in Container : Takes(c)' => Takes(c)
  BY DEF Takes, Ebbs
<1>4. \A r \in Runner : InPhase(r, "start")' => InPhase(r, "start") /\ job'[r] = job[r]
  BY DEF QuietJob, InPhase
<1>5. TakersHold' /\ AwaitersHold'
  BY <1>2, <1>3 DEF TakersHold, AwaitersHold
<1>6. TakersDiffer'
  BY <1>2, <1>3 DEF TakersDiffer
<1>7. ToBeStarted'
  BY <1>4 DEF ToBeStarted, Starts, Ebbs
<1>8. HeldHaveRun'
  BY DEF HeldHaveRun, Ebbs
<1> QED BY <1>1, <1>5, <1>6, <1>7, <1>8
-----------------------------------------------------------------------------
(* The steps of a goroutine that brings a container up or takes one down.   *)
Moves(r) == /\ job' = [q \in Runner |-> job'[q]]
            /\ \A q \in Runner \ {r} : job'[q] = job[q]
            /\ UNCHANGED <<backends, server>>

LEMMA HeldOnMove ==
  ASSUME NEW r \in Runner, Moves(r),
         job'[r].phase \in {"wait", "ready", "stop", "remove"} => job'[r].container \in Held
  PROVE  Held' \subseteq Held
<1>1. HandedOn' \subseteq HandedOn \cup {job'[r].container : q \in {x \in {r} : job'[r].phase \in {"wait", "ready", "stop", "remove"}}}
  BY DEF HandedOn, Moves
<1>2. ToShut' = ToShut /\ backends' = backends
  BY DEF Moves, ToShut, Closing, Current
<1> QED BY <1>1, <1>2 DEF Held

LEMMA QuietMove ==
  ASSUME EngineInv, NEW r \in Runner, Moves(r), Ebbs, UNCHANGED <<owner, published>>, QuietJob(r),
         job'[r].phase \in {"wait", "ready", "stop", "remove"} => job'[r].container \in Held
  PROVE  EngineInv'
<1>1. \A q \in Runner : QuietJob(q)
  BY DEF Moves, QuietJob
<1>2. ServerTypeOK'
  BY DEF Moves, EngineInv, ServerTypeOK
<1> QED BY <1>1, <1>2, HeldOnMove, Regroup DEF Moves

LEMMA JobAt ==
  ASSUME EngineInv, NEW r \in Runner
  PROVE  /\ job = [q \in Runner |-> job[q]]
         /\ job[r] = [kind |-> job[r].kind, name |-> job[r].name, phase |-> job[r].phase,
                      port |-> job[r].port, container |-> job[r].container]
         /\ job[r].port \in Port \cup {NoPort}
  BY DEF EngineInv, EngineTypeOK, JobTypeOK

OnlyJob(r, j) == job' = [q \in Runner |-> IF q = r THEN j ELSE job[q]]

\* What becomes of a job, as To and EXCEPT write it.
JobIs(r, phase, port, container) ==
  /\ Moves(r)
  /\ job'[r] = [kind |-> job[r].kind, name |-> job[r].name, phase |-> phase,
                port |-> port, container |-> container]

LEMMA JobBecomes ==
  ASSUME EngineInv, NEW r \in Runner, NEW p, NEW port, UNCHANGED <<backends, server>>,
         job' = [job EXCEPT ![r].phase = p, ![r].port = port]
  PROVE  JobIs(r, p, port, job[r].container)
<1>1. /\ job = [q \in Runner |-> job[q]]
      /\ job[r] = [kind |-> job[r].kind, name |-> job[r].name, phase |-> job[r].phase,
                   port |-> job[r].port, container |-> job[r].container]
  BY JobAt
<1> DEFINE first == [job EXCEPT ![r].phase = p]
<1>2. first = [q \in Runner |-> IF q = r THEN [kind |-> job[r].kind, name |-> job[r].name, phase |-> p,
                                               port |-> job[r].port, container |-> job[r].container]
                                         ELSE job[q]]
  BY ONLY <1>1
<1>3. job' = [first EXCEPT ![r].port = port]
  OBVIOUS
<1> HIDE DEF first
<1>4. job' = [q \in Runner |-> IF q = r THEN [kind |-> job[r].kind, name |-> job[r].name, phase |-> p,
                                              port |-> port, container |-> job[r].container]
                                        ELSE job[q]]
  BY ONLY <1>2, <1>3
<1> QED BY <1>4 DEF JobIs, Moves

LEMMA ToMoves ==
  ASSUME EngineInv, NEW r \in Runner, NEW p, To(r, p), UNCHANGED <<backends, server>>
  PROVE  JobIs(r, p, job[r].port, job[r].container)
<1>1. /\ job = [q \in Runner |-> job[q]]
      /\ job[r] = [kind |-> job[r].kind, name |-> job[r].name, phase |-> job[r].phase,
                   port |-> job[r].port, container |-> job[r].container]
  BY JobAt
<1>2. job' = [q \in Runner |-> IF q = r THEN [job[r] EXCEPT !.phase = p] ELSE job[q]]
  BY <1>1 DEF To
<1>3. [job[r] EXCEPT !.phase = p] = [kind |-> job[r].kind, name |-> job[r].name, phase |-> p,
                   port |-> job[r].port, container |-> job[r].container]
  BY ONLY <1>1
<1> QED BY <1>2, <1>3 DEF JobIs, Moves

\* What r knows of its job stays, but for the phase.
Advances(r, p) == QuietJob(r) /\ JobIs(r, p, job[r].port, job[r].container)

LEMMA JobAdvances ==
  ASSUME EngineInv, NEW r \in Runner, NEW p, To(r, p), UNCHANGED <<backends, server>>,
         p \notin {"allocate", "create", "start"}
  PROVE  Advances(r, p)
<1>1. JobIs(r, p, job[r].port, job[r].container)
  BY ToMoves
<1>2. job[r].port \in Port \cup {NoPort}
  BY JobAt
<1>3. QuietJob(r)
  BY <1>1, <1>2 DEF JobIs, QuietJob, InPhase, Awaits
<1> QED BY <1>1, <1>3 DEF Advances, JobIs

LEMMA AllocateKeeps ==
  ASSUME EngineInv, NEW r \in Runner, Allocate(r), UNCHANGED <<backends, server>>
  PROVE  EngineInv'
<1> USE Constants
<1>1. CASE To(r, "failed") /\ UNCHANGED owner
  <2>1. Advances(r, "failed")
    BY <1>1, JobAdvances
  <2>3. Moves(r) /\ QuietJob(r) /\ job'[r].phase = "failed"
    BY <2>1 DEF Advances, JobIs
  <2> QED BY <1>1, <2>3, QuietMove, StillEbbs DEF Allocate
<1>2. CASE \E p \in Nearest(job[r].name) :
             /\ Grant(job[r].name, p)
             /\ job' = [job EXCEPT ![r].phase = "create", ![r].port = p]
  <2>1. PICK p \in Port : /\ Grant(job[r].name, p)
                          /\ job' = [job EXCEPT ![r].phase = "create", ![r].port = p]
    BY <1>2 DEF Nearest
  <2>2. owner[p] = NoResource /\ owner' = [owner EXCEPT ![p] = job[r].name] /\ job[r].name \in Resource
    BY <2>1 DEF Grant, Allocate, EngineInv, EngineTypeOK, JobTypeOK
  <2>0. JobIs(r, "create", p, job[r].container)
    BY <2>1, JobBecomes
  <2>3. job'[r] = [kind |-> job[r].kind, name |-> job[r].name, phase |-> "create",
                   port |-> p, container |-> job[r].container]
    BY <2>0 DEF JobIs
  <2>4. Moves(r)
    BY <2>0 DEF JobIs
  <2>5. Held' \subseteq Held
    BY <2>3, <2>4, HeldOnMove
  <2>6. UNCHANGED <<containers, published>>
    BY DEF Allocate
  <2>7. EngineTypeOK'
    BY <2>2, <2>3, <2>4, <2>6 DEF EngineInv, EngineTypeOK, JobTypeOK, Moves, InPhase
  <2>8. ServerTypeOK'
    BY <2>4 DEF Moves, EngineInv, ServerTypeOK
  <2>9. \A c \in Container : Takes(c)' => Takes(c) /\ published[c] # p
    BY <2>2, <2>5, <2>6 DEF Takes, Exists, Live, EngineInv, TakersHold
  <2>10. \A q \in Runner \ {r} : Awaits(q)' => Awaits(q) /\ job'[q] = job[q] /\ job[q].port # p
    BY <2>2, <2>4 DEF Moves, Awaits, EngineInv, AwaitersHold
  <2>11. \A c \in Container : published[c] \in Port \cup {NoPort}
    BY DEF EngineInv, EngineTypeOK
  <2>12. TakersHold'
    BY <2>2, <2>6, <2>9, <2>11 DEF TakersHold, EngineInv, EngineTypeOK, Takes
  <2>13. AwaitersHold'
    BY <2>2, <2>3, <2>10 DEF AwaitersHold, EngineInv, EngineTypeOK
  <2>14. TakersDiffer'
    BY <2>3, <2>6, <2>9, <2>10 DEF TakersDiffer, EngineInv
  <2>15. \A q \in Runner : InPhase(q, "start")' => InPhase(q, "start") /\ job'[q] = job[q]
    BY <2>3, <2>4 DEF Moves, InPhase
  <2>16. ToBeStarted'
    BY <2>6, <2>15 DEF ToBeStarted, Starts, EngineInv
  <2>17. HeldHaveRun'
    BY <2>5, <2>6 DEF HeldHaveRun, EngineInv
  <2> QED BY <2>7, <2>8, <2>12, <2>13, <2>14, <2>16, <2>17 DEF EngineInv
<1> QED BY <1>1, <1>2 DEF Allocate

LEMMA WaitKeeps ==
  ASSUME EngineInv, NEW r \in Runner, Wait(r), UNCHANGED <<backends, server>>
  PROVE  EngineInv'
<1>1. job[r].container \in Held
  BY DEF Wait, InPhase, Held, HandedOn
<1>2. PICK p \in {"ready", "failed"} : To(r, p)
  BY DEF Wait
<1>3. Advances(r, p)
  BY <1>2, JobAdvances
<1>4. Moves(r) /\ QuietJob(r) /\ job'[r].container = job[r].container
  BY <1>3 DEF Advances, JobIs
<1> QED BY <1>1, <1>4, QuietMove, StillEbbs DEF Wait

LEMMA StopKeeps ==
  ASSUME EngineInv, NEW r \in Runner, Stop(r), UNCHANGED <<backends, server>>
  PROVE  EngineInv'
<1>1. job[r].container \in Held
  BY DEF Stop, InPhase, Held, HandedOn
<1>2. PICK p \in {"remove", "closed"} : To(r, p)
  BY DEF Stop
<1>3. Advances(r, p)
  BY <1>2, JobAdvances
<1>4. Moves(r) /\ QuietJob(r) /\ job'[r].container = job[r].container
  BY <1>3 DEF Advances, JobIs
<1>5. Ebbs
  BY DownEbbs, StillEbbs DEF Stop
<1> QED BY <1>1, <1>4, <1>5, QuietMove DEF Stop

LEMMA StopItKeeps ==
  ASSUME EngineInv, NEW r \in Runner, StopIt(r), UNCHANGED <<backends, server>>
  PROVE  EngineInv'
<1>1. Moves(r) /\ QuietJob(r) /\ job'[r].phase = "removeIt"
  <2>1. Advances(r, "removeIt")
    BY JobAdvances DEF StopIt
  <2> QED BY <2>1 DEF Advances, JobIs
<1>2. Ebbs
  BY DownEbbs DEF StopIt
<1> QED BY <1>1, <1>2, QuietMove DEF StopIt

LEMMA RemoveItKeeps ==
  ASSUME EngineInv, NEW r \in Runner, RemoveIt(r), UNCHANGED <<backends, server>>
  PROVE  EngineInv'
<1>1. Moves(r) /\ QuietJob(r) /\ job'[r].phase = "closed"
  <2>1. Advances(r, "closed")
    BY JobAdvances DEF RemoveIt
  <2> QED BY <2>1 DEF Advances, JobIs
<1>2. Ebbs
  BY DownEbbs DEF RemoveIt
<1> QED BY <1>1, <1>2, QuietMove DEF RemoveIt

\* Only the port of a container that goes, and that has it, is given back.
LEMMA RemoveKeeps ==
  ASSUME EngineInv, NEW r \in Runner, Remove(r), UNCHANGED <<backends, server>>
  PROVE  EngineInv'
<1>1. PICK c \in Container : c = job[r].container /\ c \in Held
  BY DEF Remove, InPhase, Held, HandedOn, EngineInv, HeldHaveRun
<1>2. Moves(r) /\ QuietJob(r) /\ job'[r].phase = "closed"
  <2>1. Advances(r, "closed")
    BY JobAdvances DEF Remove
  <2> QED BY <2>1 DEF Advances, JobIs
<1>3. CASE RemoveContainer(c, FALSE) /\ UNCHANGED owner
  BY <1>1, <1>2, <1>3, QuietMove, DownEbbs DEF Remove
<1>4. CASE RemoveContainer(c, TRUE) /\ Return(published[c])
  <2>1. Ebbs
    BY <1>4, DownEbbs
  <2>2. Exists(c) /\ containers' = [containers EXCEPT ![c] = "removed"]
    BY <1>4 DEF RemoveContainer, SetState
  <2>3. owner' = [owner EXCEPT ![published[c]] = NoResource] /\ published' = published
    BY <1>4 DEF Return, Remove
  <2>4. Held' \subseteq Held
    BY <1>2, HeldOnMove
  <2>5. \A d \in Container : Takes(d)' => Takes(d) /\ published[d] # published[c]
    <3>1. ~Exists(c)'
      BY <1>1, <2>2 DEF Exists, EngineInv, EngineTypeOK
    <3>2. \A d \in Container : Takes(d)' => Takes(d) /\ d # c
      BY <2>1, <2>3, <2>4, <3>1 DEF Takes, Ebbs
    <3>3. published[c] # NoPort => Takes(c)
      BY <1>1, <2>2 DEF Takes
    <3> QED BY <1>1, <3>2, <3>3 DEF EngineInv, TakersDiffer, Takes
  <2>6. \A q \in Runner : Awaits(q)' => Awaits(q) /\ job'[q] = job[q] /\ job[q].port # published[c]
    <3>1. \A q \in Runner : Awaits(q)' => Awaits(q) /\ job'[q] = job[q]
      BY <1>2 DEF Moves, Awaits
    <3>2. published[c] # NoPort => Takes(c)
      BY <1>1, <2>2 DEF Takes
    <3> QED BY <1>1, <3>1, <3>2 DEF EngineInv, TakersDiffer, Awaits
  <2> QED
    <3>1. EngineTypeOK'
      <4>1. owner' \in [Port -> Resource \cup {NoResource}]
        BY <2>3 DEF EngineInv, EngineTypeOK
      <4> QED BY <1>2, <2>1, <2>3, <4>1 DEF EngineInv, EngineTypeOK, JobTypeOK, Ebbs, Moves, QuietJob, InPhase
    <3>2. ServerTypeOK'
      BY <1>2 DEF Moves, EngineInv, ServerTypeOK
    <3>3. TakersHold' /\ AwaitersHold'
      BY <2>3, <2>5, <2>6 DEF EngineInv, EngineTypeOK, TakersHold, AwaitersHold, Takes
    <3>4. TakersDiffer'
      BY <2>3, <2>5, <2>6 DEF EngineInv, TakersDiffer
    <3>5. \A q \in Runner : InPhase(q, "start")' => InPhase(q, "start") /\ job'[q] = job[q]
      BY <1>2 DEF Moves, InPhase
    <3>6. ToBeStarted' /\ HeldHaveRun'
      BY <2>1, <2>3, <2>4, <3>5 DEF ToBeStarted, Starts, EngineInv, HeldHaveRun, Ebbs
    <3> QED BY <3>1, <3>2, <3>3, <3>4, <3>6 DEF EngineInv
<1> QED BY <1>1, <1>3, <1>4 DEF Remove

\* A start that fails gives back the port that it alone has.
LEMMA GiveBackKeeps ==
  ASSUME EngineInv, NEW r \in Runner, job[r].phase \in {"create", "start"},
         GiveBack(r), To(r, "failed"), UNCHANGED <<containers, published, backends, server>>
  PROVE  EngineInv'
<1>1. Advances(r, "failed")
  BY JobAdvances
<1>2. Moves(r) /\ QuietJob(r) /\ job'[r].phase = "failed"
  BY <1>1 DEF Advances, JobIs
<1>3. CASE job[r].port = NoPort
  BY <1>2, <1>3, QuietMove, StillEbbs DEF GiveBack
<1>4. CASE job[r].port # NoPort
  <2>1. PICK p \in Port : p = job[r].port
    BY <1>4, JobAt
  <2>2. owner' = [owner EXCEPT ![p] = NoResource]
    BY <1>4, <2>1 DEF GiveBack, Return
  <2>3. Awaits(r) /\ ~Awaits(r)'
    BY <1>2, <1>4 DEF Awaits
  <2>4. Held' \subseteq Held
    BY <1>2, HeldOnMove
  <2>5. \A d \in Container : Takes(d)' => Takes(d) /\ published[d] # p
    <3>1. \A d \in Container : Takes(d)' => Takes(d)
      BY <2>4 DEF Takes, Exists, Live
    <3> QED BY <2>1, <2>3, <3>1 DEF EngineInv, TakersDiffer
  <2>6. \A q \in Runner : Awaits(q)' => Awaits(q) /\ job'[q] = job[q] /\ job[q].port # p
    <3>1. \A q \in Runner : Awaits(q)' => Awaits(q) /\ job'[q] = job[q] /\ q # r
      BY <1>2, <2>3 DEF Moves, Awaits
    <3> QED BY <2>1, <2>3, <3>1 DEF EngineInv, TakersDiffer
  <2>7. EngineTypeOK'
    <3>1. owner' \in [Port -> Resource \cup {NoResource}]
      BY <2>2 DEF EngineInv, EngineTypeOK
    <3> QED BY <1>2, <3>1 DEF EngineInv, EngineTypeOK, JobTypeOK, Moves, QuietJob, InPhase
  <2>8. ServerTypeOK'
    BY <1>2 DEF Moves, EngineInv, ServerTypeOK
  <2>9. TakersHold' /\ AwaitersHold'
    BY <2>2, <2>5, <2>6, Constants DEF EngineInv, EngineTypeOK, JobTypeOK, TakersHold, AwaitersHold, Takes, Awaits
  <2>10. TakersDiffer'
    BY <2>5, <2>6 DEF EngineInv, TakersDiffer
  <2>11. \A q \in Runner : InPhase(q, "start")' => InPhase(q, "start") /\ job'[q] = job[q]
    BY <1>2 DEF Moves, InPhase
  <2>12. ToBeStarted' /\ HeldHaveRun'
    BY <2>4, <2>11 DEF ToBeStarted, Starts, EngineInv, HeldHaveRun
  <2> QED BY <2>7, <2>8, <2>9, <2>10, <2>12 DEF EngineInv
<1> QED BY <1>3, <1>4

LEMMA JobHasContainer ==
  ASSUME EngineInv, NEW r \in Runner, NEW p, NEW c,
         job' = [job EXCEPT ![r].phase = p, ![r].container = c]
  PROVE  OnlyJob(r, [kind |-> job[r].kind, name |-> job[r].name, phase |-> p,
                     port |-> job[r].port, container |-> c])
<1>1. /\ job = [q \in Runner |-> job[q]]
      /\ job[r] = [kind |-> job[r].kind, name |-> job[r].name, phase |-> job[r].phase,
                   port |-> job[r].port, container |-> job[r].container]
  BY JobAt
<1> DEFINE first == [job EXCEPT ![r].phase = p]
<1>2. first = [q \in Runner |-> IF q = r THEN [kind |-> job[r].kind, name |-> job[r].name, phase |-> p,
                                               port |-> job[r].port, container |-> job[r].container]
                                         ELSE job[q]]
  BY ONLY <1>1
<1>3. job' = [first EXCEPT ![r].container = c]
  OBVIOUS
<1> HIDE DEF first
<1>4. job' = [q \in Runner |-> IF q = r THEN [kind |-> job[r].kind, name |-> job[r].name, phase |-> p,
                                              port |-> job[r].port, container |-> c]
                                        ELSE job[q]]
  BY ONLY <1>2, <1>3
<1> QED BY <1>4 DEF OnlyJob

\* The new container is nobody's yet.
LEMMA CreateKeeps ==
  ASSUME EngineInv, NEW r \in Runner, Create(r), UNCHANGED <<backends, server>>
  PROVE  EngineInv'
<1>1. CASE GiveBack(r) /\ To(r, "failed") /\ UNCHANGED <<containers, published>>
  BY <1>1, GiveBackKeeps DEF Create, InPhase
<1>2. CASE /\ UNCHANGED owner
           /\ \E c \in NextSpare(job[r].name) :
                /\ CreateContainer(c)
                /\ published' = [published EXCEPT ![c] = job[r].port]
                /\ job' = [job EXCEPT ![r].phase = "start", ![r].container = c]
  <2>1. PICK c \in Container :
          /\ NameOf(c) = job[r].name /\ containers[c] = "none"
          /\ containers' = [containers EXCEPT ![c] = "created"]
          /\ published' = [published EXCEPT ![c] = job[r].port]
          /\ job' = [job EXCEPT ![r].phase = "start", ![r].container = c]
    BY <1>2 DEF NextSpare, Spare, CreateContainer, SetState
  <2>0. OnlyJob(r, [kind |-> job[r].kind, name |-> job[r].name, phase |-> "start",
                    port |-> job[r].port, container |-> c])
    BY <2>1, JobHasContainer
  <2>2. /\ Moves(r)
        /\ job'[r] = [kind |-> job[r].kind, name |-> job[r].name, phase |-> "start",
                      port |-> job[r].port, container |-> c]
    BY <2>0 DEF OnlyJob, Moves
  <2>3. Held' \subseteq Held
    BY <2>2, HeldOnMove
  <2>4. \A d \in Container : d # c => containers'[d] = containers[d] /\ published'[d] = published[d]
    BY <2>1 DEF EngineInv, EngineTypeOK
  <2>5. containers'[c] = "created" /\ published'[c] = job[r].port /\ c \notin Held
    BY <2>1 DEF EngineInv, EngineTypeOK, HeldHaveRun
  <2>6. \A d \in Container : Takes(d)' => Takes(d) /\ published'[d] = published[d]
    <3>1. ~Takes(c)'
      BY <2>3, <2>5 DEF Takes, Live
    <3> QED BY <2>3, <2>4, <3>1 DEF Takes, Exists, Live
  <2>7. \A q \in Runner : Awaits(q)' => Awaits(q) /\ job'[q].port = job[q].port /\ job'[q].name = job[q].name
    BY <2>2 DEF Moves, Awaits, Create, InPhase
  <2>8. EngineTypeOK'
    <3>1. containers' \in [Container -> ContainerState]
      BY <2>1 DEF EngineInv, EngineTypeOK, ContainerState
    <3>2. published' \in [Container -> Port \cup {NoPort}]
      BY <2>1, JobAt DEF EngineInv, EngineTypeOK
    <3>3. JobTypeOK'
      BY <2>2 DEF EngineInv, EngineTypeOK, JobTypeOK, Moves, InPhase
    <3>4. owner' = owner
      BY <1>2
    <3> QED BY <2>2, <3>1, <3>2, <3>3, <3>4 DEF EngineInv, EngineTypeOK, Moves
  <2>9. ServerTypeOK'
    BY <2>2 DEF Moves, EngineInv, ServerTypeOK
  <2>10. TakersHold' /\ AwaitersHold'
    BY <1>2, <2>6, <2>7 DEF EngineInv, TakersHold, AwaitersHold
  <2>11. TakersDiffer'
    BY <2>6, <2>7 DEF EngineInv, TakersDiffer
  <2>12. ToBeStarted'
    <3>1. \A q \in Runner \ {r} : InPhase(q, "start")' => InPhase(q, "start") /\ job'[q] = job[q] /\ job[q].container # c
      <4>1. \A q \in Runner \ {r} : job'[q] = job[q]
        BY <2>2 DEF Moves
      <4>2. \A q \in Runner : InPhase(q, "start") => job[q].container # c
        BY <2>1 DEF EngineInv, ToBeStarted, Starts
      <4> QED BY <4>1, <4>2 DEF InPhase
    <3>2. \A q \in Runner \ {r} : InPhase(q, "start")' => Starts(q)'
      BY <2>4, <3>1 DEF EngineInv, ToBeStarted, Starts
    <3>3. Starts(r)'
      BY <2>1, <2>2, <2>5 DEF Starts
    <3>4. \A q \in Runner \ {r} : InPhase(q, "start")' => job'[q].container # job'[r].container
      BY <2>2, <3>1
    <3>5. \A q \in Runner \ {r} : InPhase(q, "start")' =>
             \A x \in Runner \ {q, r} : InPhase(x, "start")' => job'[x].container # job'[q].container
      BY <3>1 DEF EngineInv, ToBeStarted
    <3> QED BY <3>2, <3>3, <3>4, <3>5 DEF ToBeStarted
  <2>13. HeldHaveRun'
    BY <2>3, <2>4, <2>5 DEF EngineInv, HeldHaveRun
  <2> QED BY <2>8, <2>9, <2>10, <2>11, <2>12, <2>13 DEF EngineInv
<1> QED BY <1>1, <1>2 DEF Create, Fails

\* The container takes over the port that its job has awaited.
LEMMA StartKeeps ==
  ASSUME EngineInv, NEW r \in Runner, Start(r), UNCHANGED <<backends, server>>
  PROVE  EngineInv'
<1>1. CASE StartContainer(job[r].container, FALSE) /\ GiveBack(r) /\ To(r, "failed")
  BY <1>1, GiveBackKeeps DEF Start, InPhase, StartContainer, Fails
<1>2. CASE /\ StartContainer(job[r].container, TRUE)
           /\ To(r, IF job[r].port = NoPort THEN "ready" ELSE "wait")
           /\ UNCHANGED owner
  <2>1. PICK c \in Container : c = job[r].container
    BY DEF Start, EngineInv, ToBeStarted, Starts
  <2>2. PICK p \in {"ready", "wait"} : To(r, p)
    BY <1>2
  <2>3. Advances(r, p)
    BY <2>2, JobAdvances DEF Start
  <2>4. Moves(r) /\ job'[r].phase = p /\ job'[r].container = c
    BY <2>1, <2>3 DEF Advances, JobIs
  <2>5. containers[c] = "created" /\ containers' = [containers EXCEPT ![c] = "running"]
    BY <1>2, <2>1 DEF StartContainer, SetState
  <2>6. published[c] = job[r].port /\ NameOf(c) = job[r].name /\ published' = published
    BY <2>1 DEF Start, EngineInv, ToBeStarted, Starts
  <2>7. Held' \subseteq Held \cup {c}
    <3>1. HandedOn' \subseteq HandedOn \cup {c}
      BY <2>4 DEF HandedOn, Moves
    <3>2. ToShut' = ToShut /\ backends' = backends
      BY <2>4 DEF Moves, ToShut, Closing, Current
    <3> QED BY <3>1, <3>2 DEF Held
  <2>8. \A d \in Container : d # c => containers'[d] = containers[d]
    BY <2>5 DEF EngineInv, EngineTypeOK
  <2>9. containers'[c] = "running"
    BY <2>5 DEF EngineInv, EngineTypeOK
  <2>10. \A d \in Container : Takes(d)' => Takes(d) \/ (d = c /\ Awaits(r))
    <3>1. Takes(c)' => Awaits(r)
      BY <2>6 DEF Takes, Awaits, Start, InPhase
    <3>2. \A d \in Container : d # c /\ Takes(d)' => Takes(d)
      BY <2>6, <2>7, <2>8 DEF Takes, Exists, Live
    <3> SUFFICES ASSUME NEW d \in Container, Takes(d)' PROVE Takes(d) \/ (d = c /\ Awaits(r))
      OBVIOUS
    <3> QED BY <3>1, <3>2 DEF Takes
  <2>11. \A q \in Runner : Awaits(q)' => Awaits(q) /\ q # r /\ job'[q] = job[q]
    BY <2>4 DEF Moves, Awaits
  <2>12. EngineTypeOK'
    <3>1. containers' \in [Container -> ContainerState]
      BY <2>5 DEF EngineInv, EngineTypeOK, ContainerState
    <3> QED BY <1>2, <2>3, <2>6, <3>1 DEF EngineInv, EngineTypeOK, JobTypeOK, Advances, JobIs, Moves, QuietJob, InPhase
  <2>13. ServerTypeOK'
    BY <2>4 DEF Moves, EngineInv, ServerTypeOK
  <2>14. TakersHold' /\ AwaitersHold'
    BY <1>2, <2>6, <2>10, <2>11 DEF EngineInv, TakersHold, AwaitersHold
  <2>15. TakersDiffer'
    BY <2>6, <2>10, <2>11 DEF EngineInv, TakersDiffer
  <2>16. \A q \in Runner : InPhase(q, "start")' => InPhase(q, "start") /\ job'[q] = job[q]
    BY <2>4 DEF Moves, InPhase
  <2>17. ToBeStarted'
    BY <2>6, <2>8, <2>9, <2>16 DEF EngineInv, ToBeStarted, Starts
  <2>18. HeldHaveRun'
    BY <2>7, <2>8, <2>9 DEF EngineInv, HeldHaveRun
  <2> QED BY <2>12, <2>13, <2>14, <2>15, <2>17, <2>18 DEF EngineInv
<1> QED BY <1>1, <1>2 DEF Start

LEMMA EngineKeeps ==
  ASSUME EngineInv, NEW r \in Runner, EngineStep(r), UNCHANGED server
  PROVE  EngineInv'
<1>1. UNCHANGED <<backends, server>>
  BY DEF EngineStep, registry
<1> QED BY <1>1, AllocateKeeps, CreateKeeps, StartKeeps, WaitKeeps, StopKeeps, RemoveKeeps, StopItKeeps, RemoveItKeeps DEF EngineStep
-----------------------------------------------------------------------------
(* The steps that take up a job, give it up, register and forget.           *)
NewJob(kind, n, phase, c) == [kind |-> kind, name |-> n, phase |-> phase, port |-> NoPort, container |-> c]

LEMMA Settle ==
  ASSUME EngineInv, Ebbs, UNCHANGED <<owner, published>>, NEW r \in Runner, NEW j, OnlyJob(r, j), QuietJob(r),
         j.phase \in {"wait", "ready", "stop", "remove"} => j.container \in Held,
         \A b \in DOMAIN backends' : backends'[b] \in Held,
         ToShut' \subseteq Held, ServerTypeOK'
  PROVE  EngineInv'
<1>1. job' = [q \in Runner |-> job'[q]] /\ job'[r] = j /\ \A q \in Runner \ {r} : job'[q] = job[q]
  BY DEF OnlyJob
<1>2. \A q \in Runner : QuietJob(q)
  BY <1>1 DEF QuietJob
<1>3. HandedOn' \subseteq Held
  <2>1. \A q \in Runner : job'[q].phase \in {"wait", "ready", "stop", "remove"} => job'[q].container \in Held
    BY <1>1 DEF Held, HandedOn
  <2> QED BY <2>1 DEF HandedOn
<1>4. Held' \subseteq Held
  BY <1>3 DEF Held
<1> QED BY <1>1, <1>2, <1>4, Regroup

LEMMA SettleJobs ==
  ASSUME EngineInv, UNCHANGED <<containers, owner, published, job>>,
         \A b \in DOMAIN backends' : backends'[b] \in Held,
         ToShut' \subseteq Held, ServerTypeOK'
  PROVE  EngineInv'
<1>1. OnlyJob(Server, job[Server])
  BY Constants DEF OnlyJob, EngineInv, EngineTypeOK
<1>2. job[Server].phase \in {"wait", "ready", "stop", "remove"} => job[Server].container \in Held
  BY Constants DEF Held, HandedOn
<1>3. QuietJob(Server)
  BY DEF QuietJob
<1> QED BY <1>1, <1>2, <1>3, Settle, StillEbbs, Constants

LEMMA TakeJobOnly ==
  ASSUME EngineInv, NEW r \in Runner, NEW kind, NEW n, NEW phase, NEW c, TakeJob(r, kind, n, phase, c),
         phase = "allocate" => n \in Resource, phase # "start"
  PROVE  OnlyJob(r, NewJob(kind, n, phase, c)) /\ QuietJob(r)
<1>1. job' = [job EXCEPT ![r] = NewJob(kind, n, phase, c)]
  BY DEF TakeJob, NewJob
<1>2. OnlyJob(r, NewJob(kind, n, phase, c))
  BY <1>1, JobAt DEF OnlyJob
<1>3. job'[r] = NewJob(kind, n, phase, c)
  BY <1>2 DEF OnlyJob
<1> QED BY <1>2, <1>3 DEF NewJob, QuietJob, InPhase, Awaits

LEMMA EndJobOnly ==
  ASSUME EngineInv, NEW r \in Runner, EndJob(r)
  PROVE  OnlyJob(r, NoJob) /\ QuietJob(r) /\ NoJob.phase = "none"
<1>1. OnlyJob(r, NoJob)
  BY JobAt DEF EndJob, OnlyJob
<1>2. job'[r] = NoJob
  BY <1>1 DEF OnlyJob
<1> QED BY <1>1, <1>2 DEF NoJob, QuietJob, InPhase, Awaits

\* A job that goes on to a phase that awaits no port.
LEMMA ToOnly ==
  ASSUME EngineInv, NEW r \in Runner, NEW p, To(r, p), p \notin {"allocate", "create", "start"}
  PROVE  /\ OnlyJob(r, [kind |-> job[r].kind, name |-> job[r].name, phase |-> p,
                        port |-> job[r].port, container |-> job[r].container])
         /\ QuietJob(r)
<1> DEFINE j == [kind |-> job[r].kind, name |-> job[r].name, phase |-> p,
                 port |-> job[r].port, container |-> job[r].container]
<1>1. /\ job = [q \in Runner |-> job[q]]
      /\ job[r] = [kind |-> job[r].kind, name |-> job[r].name, phase |-> job[r].phase,
                   port |-> job[r].port, container |-> job[r].container]
      /\ job[r].port \in Port \cup {NoPort}
  BY JobAt
<1>2. job' = [q \in Runner |-> IF q = r THEN [job[r] EXCEPT !.phase = p] ELSE job[q]]
  BY <1>1 DEF To
<1>3. [job[r] EXCEPT !.phase = p] = j
  BY ONLY <1>1
<1>4. OnlyJob(r, j) /\ job'[r] = j
  BY <1>2, <1>3 DEF OnlyJob
<1> QED BY <1>1, <1>4 DEF QuietJob, InPhase, Awaits

LEMMA HeldNow ==
  /\ \A b \in DOMAIN backends : backends[b] \in Held
  /\ \A r \in Runner : job[r].phase \in {"wait", "ready", "stop", "remove"} => job[r].container \in Held
  /\ ToShut \subseteq Held
  BY DEF Held, HandedOn

LEMMA RegisterHeld ==
  ASSUME NEW b, NEW c \in Held, Register(b, c)
  PROVE  \A x \in DOMAIN backends' : backends'[x] \in Held
  BY HeldNow DEF Register

LEMMA ForgetHeld ==
  ASSUME NEW b, Forget(b)
  PROVE  \A x \in DOMAIN backends' : backends'[x] \in Held
  BY HeldNow DEF Forget, Restrict

\* The server record, as EXCEPT writes it.
LEMMA NextServiceIs ==
  ASSUME EngineInv, NextService
  PROVE  /\ server'.pc = server.pc /\ server'.left = {}
         /\ ServerTypeOK'
<1>1. server = [pc |-> server.pc, services |-> server.services, left |-> server.left, late |-> server.late]
  BY DEF EngineInv, ServerTypeOK
<1>2. server' = [pc |-> server.pc, services |-> Tail(server.services), left |-> {}, late |-> server.late]
  BY <1>1 DEF NextService
<1> QED BY <1>2 DEF ServerTypeOK

LEMMA NothingToShutNow ==
  ASSUME server'.pc # "closing" \/ server'.left = {}
  PROVE  ToShut' \subseteq Held
  BY DEF ToShut, Closing

LEMMA StartEngineKeeps ==
  ASSUME EngineInv, NEW service, NEW engine \in EngineName, StartEngine(service, engine),
         UNCHANGED <<containers, owner, published>>
  PROVE  EngineInv'
<1> USE Constants
<1>1. engine \in Resource /\ server.pc = "init"
  BY BackendsAssumption DEF StartEngine, Initialising
<1>2. CASE TakeJob(Server, "make", engine, "allocate", NoContainer) /\ UNCHANGED <<backends, server>>
  <2>1. OnlyJob(Server, NewJob("make", engine, "allocate", NoContainer)) /\ QuietJob(Server)
    BY <1>1, <1>2, TakeJobOnly
  <2>2. ServerTypeOK' /\ server'.pc # "closing"
    BY <1>1, <1>2 DEF EngineInv, ServerTypeOK
  <2>3. NewJob("make", engine, "allocate", NoContainer).phase = "allocate"
    BY DEF NewJob
  <2>4. backends' = backends
    BY <1>2
  <2> QED BY <2>1, <2>2, <2>3, <2>4, Settle, StillEbbs, HeldNow, NothingToShutNow
<1>3. CASE /\ InPhase(Server, "ready")
           /\ Register(<<service, engine>>, job[Server].container)
           /\ EndJob(Server) /\ NextService
  <2>1. OnlyJob(Server, NoJob) /\ QuietJob(Server) /\ NoJob.phase = "none"
    BY <1>3, EndJobOnly
  <2>2. ServerTypeOK' /\ server'.pc # "closing"
    BY <1>1, <1>3, NextServiceIs
  <2>3. \A x \in DOMAIN backends' : backends'[x] \in Held
    BY <1>3, RegisterHeld, HeldNow DEF InPhase
  <2> QED BY <2>1, <2>2, <2>3, Settle, StillEbbs, NothingToShutNow
<1> QED BY <1>2, <1>3 DEF StartEngine

LEMMA InitAllKeeps ==
  ASSUME EngineInv, InitAll, UNCHANGED <<containers, owner, published>>
  PROVE  EngineInv'
<1>1. CASE InitS3 \/ InitElasticache \/ InitRds \/ InitDynamodb
  BY <1>1, StartEngineKeeps DEF InitS3, InitElasticache, InitRds, InitDynamodb, EngineName
<1>2. CASE UNCHANGED <<job, backends>> /\ NextService /\ server.pc = "init"
  <2>1. ServerTypeOK' /\ server'.pc # "closing"
    BY <1>2, NextServiceIs
  <2> QED BY <1>2, <2>1, SettleJobs, HeldNow, NothingToShutNow
<1>3. CASE UNCHANGED <<job, backends>> /\ server.pc = "init" /\ \E p \in {"failed", "serving"} : server' = [server EXCEPT !.pc = p]
  <2>1. ServerTypeOK' /\ server'.pc # "closing"
    BY <1>3 DEF EngineInv, ServerTypeOK
  <2> QED BY <1>3, <2>1, SettleJobs, HeldNow, NothingToShutNow
<1>4. CASE InitCloudSql \/ InitMemorystore
  BY <1>2, <1>4 DEF InitCloudSql, InitMemorystore, ReadAddresses, Initialising
<1>5. CASE EngineFailed
  BY <1>3, <1>5 DEF EngineFailed, Initialising
<1>6. CASE NothingToStart
  BY <1>2, <1>6 DEF NothingToStart, Initialising
<1>7. CASE Serve
  BY <1>3, <1>7 DEF Serve
<1> QED BY <1>1, <1>4, <1>5, <1>6, <1>7 DEF InitAll

LEMMA ShutdownAllKeeps ==
  ASSUME EngineInv, ShutdownAll, UNCHANGED <<containers, owner, published>>
  PROVE  EngineInv'
<1> USE Constants
<1>0. /\ server = [pc |-> server.pc, services |-> server.services, left |-> server.left, late |-> server.late]
      /\ backends' = backends
  BY DEF EngineInv, ServerTypeOK, ShutdownAll
<1>1. CASE Signal
  <2>1. server.left = {} /\ job' = job
    BY <1>1 DEF Signal, EngineInv, ServerTypeOK
  <2>2. server' = [pc |-> "closing", services |-> Seqs!Reverse(Registered[workload]),
                   left |-> {}, late |-> Makers]
    BY <1>0, <1>1, <2>1 DEF Signal
  <2>3. ServerTypeOK' /\ server'.left = {}
    BY <2>2 DEF ServerTypeOK
  <2> QED BY <1>0, <2>1, <2>3, SettleJobs, HeldNow, NothingToShutNow
<1>2. CASE EnterShutdown
  <2>1. server' = [pc |-> "closing", services |-> server.services, left |-> ListToShut(Current), late |-> server.late]
    BY <1>0, <1>2 DEF EnterShutdown, Closing
  <2>2. Current' = Current /\ job' = job
    BY <1>2, <2>1 DEF Current, EnterShutdown
  <2>3. ToShut' \subseteq Held
    BY <2>1, <2>2, HeldNow DEF ToShut, ListToShut
  <2>4. ServerTypeOK'
    BY <2>1 DEF ServerTypeOK
  <2> QED BY <1>0, <2>2, <2>3, <2>4, SettleJobs, HeldNow
<1>3. CASE NothingToShut
  <2>1. ServerTypeOK' /\ server'.left = {} /\ job' = job
    BY <1>3, NextServiceIs DEF NothingToShut
  <2> QED BY <1>0, <2>1, SettleJobs, HeldNow, NothingToShutNow
<1>4. CASE ShutOne
  <2>1. PICK c \in server.left :
          TakeJob(Server, "unmake", NameOf(c), IF Current = "compute" THEN "stopIt" ELSE "stop", c)
    BY <1>4 DEF ShutOne
  <2>2. PICK p \in {"stopIt", "stop"} : p = (IF Current = "compute" THEN "stopIt" ELSE "stop")
    OBVIOUS
  <2>3. p = "stop" => c \in Held
    BY <1>4, <2>2, HeldNow DEF ToShut, ShutOne
  <2>4. OnlyJob(Server, NewJob("unmake", NameOf(c), p, c)) /\ QuietJob(Server)
    BY <2>1, <2>2, TakeJobOnly
  <2>5. NewJob("unmake", NameOf(c), p, c).phase = p /\ NewJob("unmake", NameOf(c), p, c).container = c
    BY DEF NewJob
  <2>6. server' = server
    BY <1>4 DEF ShutOne
  <2>7. ServerTypeOK' /\ ToShut' = ToShut
    BY <2>6 DEF EngineInv, ServerTypeOK, ToShut, Closing, Current
  <2> QED BY <1>0, <2>3, <2>4, <2>5, <2>7, Settle, StillEbbs, HeldNow
<1>5. CASE OneShut
  <2>1. OnlyJob(Server, NoJob) /\ QuietJob(Server) /\ NoJob.phase = "none"
    BY <1>5, EndJobOnly DEF OneShut
  <2>2. ServerTypeOK' /\ ToShut' \subseteq Held
    <3>1. CASE NextService
      BY <3>1, NextServiceIs, NothingToShutNow
    <3>2. CASE server' = [server EXCEPT !.left = server.left \ {job[Server].container}]
      <4>1. server' = [pc |-> server.pc, services |-> server.services,
                       left |-> server.left \ {job[Server].container}, late |-> server.late]
        BY <1>0, <3>2
      <4>2. ServerTypeOK'
        BY <1>5, <4>1 DEF ServerTypeOK, OneShut, Closing
      <4>3. ToShut' \subseteq ToShut
        BY <4>1 DEF ToShut, Closing, Current
      <4> QED BY <4>2, <4>3, HeldNow
    <3> QED BY <1>5, <3>1, <3>2 DEF OneShut
  <2> QED BY <1>0, <2>1, <2>2, Settle, StillEbbs, HeldNow
<1>6. CASE Exit
  <2>1. server' = [pc |-> "exited", services |-> server.services, left |-> server.left, late |-> server.late]
    BY <1>0, <1>6 DEF Exit
  <2>2. ServerTypeOK' /\ server'.pc # "closing" /\ job' = job
    BY <1>6, <2>1 DEF ServerTypeOK, Exit
  <2> QED BY <1>0, <2>2, SettleJobs, HeldNow, NothingToShutNow
<1> QED BY <1>1, <1>2, <1>3, <1>4, <1>5, <1>6 DEF ShutdownAll
-----------------------------------------------------------------------------
(* Requests go from one place to the next.                                  *)
Turns(h, op) == /\ Asked'
                /\ req'[h].op = op
                /\ \A g \in Handler \ {h} : req'[g].op = req[g].op /\ req'[g].field = req[g].field

LEMMA MarkedAsked ==
  ASSUME Asked, NEW s
  PROVE  /\ Marked(s) = [g \in Handler |-> Marked(s)[g]]
         /\ \A g \in Handler : /\ {"op", "field"} \subseteq DOMAIN Marked(s)[g]
                               /\ Marked(s)[g].op = req[g].op /\ Marked(s)[g].field = req[g].field
  BY DEF Asked, Marked

LEMMA EnterTurns ==
  ASSUME Asked, NEW h \in Handler, NEW op, NEW s, NEW fields, Enter(h, op, s, fields), "op" \notin DOMAIN fields
  PROVE  /\ Turns(h, op) /\ req[h].op = "idle"
         /\ "field" \in DOMAIN fields => req'[h].field = fields["field"]
<1> DEFINE idle == [Idle EXCEPT !.op = op, !.subject = s, !.alone = Busy(s) = {}]
           r == Over(fields, idle)
<1>1. req[h] = Idle /\ req' = [Marked(s) EXCEPT ![h] = r]
  BY DEF Enter
<1>2. /\ {"op", "field"} \subseteq DOMAIN idle
      /\ idle.op = op
  BY DEF Idle
<1> HIDE DEF idle
<1>3. /\ {"op", "field"} \subseteq DOMAIN r
      /\ r["op"] = op
      /\ "field" \in DOMAIN fields => r["field"] = fields["field"]
  BY <1>2 DEF Over
<1> HIDE DEF r
<1>4. req' = [g \in Handler |-> IF g = h THEN r ELSE Marked(s)[g]]
  BY <1>1, MarkedAsked
<1>5. Asked' /\ req'[h].op = op
  BY <1>3, <1>4, MarkedAsked DEF Asked
<1>6. \A g \in Handler \ {h} : req'[g].op = req[g].op /\ req'[g].field = req[g].field
  BY <1>4, MarkedAsked
<1> QED BY <1>1, <1>3, <1>4, <1>5, <1>6 DEF Turns, Idle

LEMMA GotoTurns ==
  ASSUME Asked, NEW h \in Handler, NEW op, Goto(h, op)
  PROVE  Turns(h, op) /\ req'[h].field = req[h].field
<1>1. req' = [g \in Handler |-> IF g = h THEN [req[h] EXCEPT !.op = op] ELSE req[g]]
  BY DEF Goto, Asked
<1>2. LET r == [req[h] EXCEPT !.op = op]
      IN {"op", "field"} \subseteq DOMAIN r /\ r.op = op /\ r.field = req[h].field
  BY DEF Asked
<1> QED BY <1>1, <1>2 DEF Asked, Turns

LEMMA AnswerTurns ==
  ASSUME Asked, NEW h \in Handler, NEW promise, Answer(h, promise)
  PROVE  Turns(h, "idle")
<1>1. req' = [g \in Handler |-> IF g = h THEN Idle ELSE req[g]]
  BY DEF Answer, Asked
<1>2. {"op", "field"} \subseteq DOMAIN Idle /\ Idle.op = "idle"
  BY DEF Idle
<1> QED BY <1>1, <1>2 DEF Asked, Turns

LEMMA AskingGoesOn ==
  ASSUME Asking, NEW h \in Handler, NEW op, Turns(h, op), UNCHANGED workload,
         \A g \in Handler \ {h} : job'[g] = job[g],
         workload = "clusters" /\ op = "register" => InPhase(h, "ready")',
         workload = "rds" /\ op = "getOrCreateBackend" => req'[h].field \in DbEngine
  PROVE  Asking'
<1>1. Asked'
  BY DEF Turns
<1>2. \A g \in Handler \ {h} :
         /\ workload' = "clusters" /\ At(g, "register")' => InPhase(g, "ready")'
         /\ workload' = "rds" /\ At(g, "getOrCreateBackend")' => req'[g].field \in DbEngine
  BY DEF Asking, Turns, At, InPhase
<1>3. /\ workload' = "clusters" /\ At(h, "register")' => InPhase(h, "ready")'
      /\ workload' = "rds" /\ At(h, "getOrCreateBackend")' => req'[h].field \in DbEngine
  BY DEF Turns, At
<1> QED BY <1>1, <1>2, <1>3 DEF Asking

\* Reads, and steps of other goroutines.
LEMMA AskingStays ==
  ASSUME Asking, UNCHANGED <<req, workload>>,
         \A h \in Handler : InPhase(h, "ready") => InPhase(h, "ready")'
  PROVE  Asking'
  BY DEF Asking, Asked, At
-----------------------------------------------------------------------------
(* The handlers.  They leave containers and ports alone.                    *)
HandlerStep(h) == /\ PortsInv /\ h \in Handler
                  /\ UNCHANGED <<owner, published, workload>>
                  /\ ServerTypeOK' /\ ToShut' = ToShut

\* Nothing happens to any job or backend.
LEMMA OnlyRequests ==
  ASSUME NEW h, HandlerStep(h), UNCHANGED <<containers, job, backends>>
  PROVE  EngineInv'
  BY SettleJobs, HeldNow DEF HandlerStep, PortsInv

LEMMA OnlyReads ==
  ASSUME NEW h, HandlerStep(h), UNCHANGED <<containers, job, backends, req>>
  PROVE  PortsInv'
  BY OnlyRequests, AskingStays DEF HandlerStep, PortsInv, InPhase

\* The job of h changes; what it then has is held already.
LEMMA HandlerSettles ==
  ASSUME NEW h, HandlerStep(h), Ebbs, NEW j, OnlyJob(h, j), QuietJob(h),
         j.phase \in {"wait", "ready", "stop", "remove"} => j.container \in Held,
         \A b \in DOMAIN backends' : backends'[b] \in Held,
         NEW op, Turns(h, op),
         workload = "clusters" => op # "register",
         workload = "rds" => op # "getOrCreateBackend"
  PROVE  PortsInv'
<1>1. h \in Runner /\ ToShut' \subseteq Held
  BY Constants, HeldNow DEF HandlerStep
<1>2. EngineInv'
  BY <1>1, Settle DEF HandlerStep, PortsInv
<1>3. \A g \in Handler \ {h} : job'[g] = job[g]
  BY Constants DEF OnlyJob
<1>4. Asking'
  BY <1>3, AskingGoesOn DEF HandlerStep, PortsInv
<1> QED BY <1>2, <1>4 DEF PortsInv

\* It takes up a job, which waits for no port yet.
LEMMA HandlerTakes ==
  ASSUME NEW h, HandlerStep(h), UNCHANGED <<containers, backends>>,
         NEW kind, NEW n, NEW phase, NEW c, TakeJob(h, kind, n, phase, c),
         phase \in {"allocate", "create", "closed", "idle", "stopIt", "switch"}, phase = "allocate" => n \in Resource,
         NEW op, Turns(h, op),
         workload = "clusters" => op # "register",
         workload = "rds" => op # "getOrCreateBackend"
  PROVE  PortsInv'
<1>1. h \in Runner /\ EngineInv
  BY Constants DEF HandlerStep, PortsInv
<1>2. OnlyJob(h, NewJob(kind, n, phase, c)) /\ QuietJob(h)
  BY <1>1, TakeJobOnly
<1>3. NewJob(kind, n, phase, c).phase \notin {"wait", "ready", "stop", "remove"}
  BY DEF NewJob
<1> QED BY <1>1, <1>2, <1>3, HandlerSettles, HeldNow, StillEbbs

LEMMA HandlerEnds ==
  ASSUME NEW h, HandlerStep(h), Ebbs, EndJob(h), \A b \in DOMAIN backends' : backends'[b] \in Held,
         NEW op, Turns(h, op), op \notin {"register", "getOrCreateBackend"}
  PROVE  PortsInv'
<1>1. h \in Runner /\ EngineInv
  BY Constants DEF HandlerStep, PortsInv
<1>2. OnlyJob(h, NoJob) /\ QuietJob(h) /\ NoJob.phase = "none"
  BY <1>1, EndJobOnly
<1> QED BY <1>2, HandlerSettles

\* A cluster's name is one of those that the pool knows.
LEMMA ClusterNames ==
  \A k \in ClusterKeys : ContainerName(k) \in ClusterName /\ ContainerName(k) \in Resource
<1>1. \A k \in EksKeys : ContainerName(k) \in ClusterName
  BY DEF EksKeys, ContainerName, ServiceOf
<1>2. \A k \in GkeKeys : ContainerName(k) \in ClusterName
  BY DEF GkeKeys, ContainerName, ServiceOf
<1> QED BY <1>1, <1>2, BackendsAssumption DEF ClusterKeys

LEMMA MakeClusterKeeps ==
  ASSUME NEW h, HandlerStep(h), UNCHANGED containers, workload = "clusters",
         NEW keys, keys \subseteq ClusterKeys, MakeCluster(h, keys)
  PROVE  PortsInv'
<1> USE DEF HandlerStep
<1>0. /\ EngineInv /\ Asking /\ Asked /\ h \in Runner /\ Ebbs
      /\ \A b \in DOMAIN backends : backends[b] \in Held
  BY Constants, HeldNow, StillEbbs DEF PortsInv, Asking
<1>1. CASE (\E k \in keys : Shows({SubjectOf(k)})) /\ UNCHANGED <<job, backends>>
  BY <1>1, OnlyReads DEF Shows
<1>2. ASSUME NEW k \in keys, Begin(h, "createCluster", SubjectOf(k), [key |-> k]),
             TakeJob(h, "make", ContainerName(k), "allocate", NoContainer), UNCHANGED backends
      PROVE  PortsInv'
  <2>1. Turns(h, "createCluster")
    BY <1>0, <1>2, EnterTurns DEF Begin
  <2>2. ContainerName(k) \in Resource
    BY ClusterNames
  <2> QED BY <1>2, <2>1, <2>2, HandlerTakes
<1>3. CASE Answer(h, Promised(h)) /\ EndJob(h) /\ UNCHANGED backends
  BY <1>0, <1>3, AnswerTurns, HandlerEnds
<1>4. CASE InPhase(h, "ready") /\ Goto(h, "register") /\ UNCHANGED <<job, backends>>
  <2>1. Turns(h, "register") /\ InPhase(h, "ready")'
    BY <1>0, <1>4, GotoTurns DEF InPhase
  <2>2. Asking'
    BY <1>0, <1>4, <2>1, AskingGoesOn
  <2> QED BY <1>4, <2>2, OnlyRequests DEF PortsInv
<1>5. CASE /\ At(h, "register")
           /\ Register(BackendOf(Key(h)), job[h].container)
           /\ Answer(h, Record(Key(h), {job[h].container})) /\ EndJob(h)
  <2>1. job[h].container \in Held
    BY <1>0, <1>5, HeldNow DEF Asking, InPhase
  <2>2. \A b \in DOMAIN backends' : backends'[b] \in Held
    BY <1>5, <2>1, RegisterHeld
  <2>3. Turns(h, "idle")
    BY <1>0, <1>5, AnswerTurns
  <2> QED BY <1>0, <1>5, <2>2, <2>3, HandlerEnds
<1> QED BY <1>1, <1>2, <1>3, <1>4, <1>5 DEF MakeCluster

LEMMA UnmakeClusterKeeps ==
  ASSUME NEW h, HandlerStep(h), UNCHANGED containers, workload = "clusters",
         NEW keys, keys \subseteq ClusterKeys, UnmakeCluster(h, keys)
  PROVE  PortsInv'
<1> USE DEF HandlerStep
<1>0. /\ EngineInv /\ Asking /\ Asked /\ h \in Runner /\ Ebbs
      /\ \A b \in DOMAIN backends : backends[b] \in Held
  BY Constants, HeldNow, StillEbbs DEF PortsInv, Asking
<1>1. CASE (\E k \in keys : Shows({SubjectOf(k)})) /\ UNCHANGED <<job, backends>>
  BY <1>1, OnlyReads DEF Shows
<1>2. ASSUME NEW k \in keys, Begin(h, "deleteCluster", SubjectOf(k), [key |-> k, copy |-> store[k]]),
             TakeJob(h, "unmake", ContainerName(k), "idle", ContainerOf(store[k])), UNCHANGED backends
      PROVE  PortsInv'
  <2>1. Turns(h, "deleteCluster")
    BY <1>0, <1>2, EnterTurns DEF Begin
  <2> QED BY <1>2, <2>1, HandlerTakes
<1>3. ASSUME NEW b \in DOMAIN backends, Forget(b), Goto(h, "dropCluster"),
             job' = [job EXCEPT ![h].phase = "stop", ![h].container = backends[b]]
      PROVE  PortsInv'
  <2>1. PICK c \in Held : c = backends[b]
    BY <1>0
  <2> DEFINE j == [kind |-> job[h].kind, name |-> job[h].name, phase |-> "stop",
                   port |-> job[h].port, container |-> c]
  <2>2. OnlyJob(h, j)
    BY <1>0, <1>3, <2>1, JobHasContainer
  <2>3. job'[h] = j /\ j.phase = "stop" /\ j.container = c
    BY <1>0, <2>2 DEF OnlyJob
  <2>4. QuietJob(h)
    <3>1. job[h].port \in Port \cup {NoPort}
      BY <1>0, JobAt
    <3> QED BY <2>3, <3>1 DEF QuietJob, InPhase, Awaits
  <2>5. Turns(h, "dropCluster")
    BY <1>0, <1>3, GotoTurns
  <2> QED BY <1>0, <1>3, <2>2, <2>3, <2>4, <2>5, HandlerSettles, ForgetHeld
<1>4. CASE To(h, "stopIt") /\ UNCHANGED backends /\ Goto(h, "dropCluster")
  <2> DEFINE j == [kind |-> job[h].kind, name |-> job[h].name, phase |-> "stopIt",
                   port |-> job[h].port, container |-> job[h].container]
  <2>1. OnlyJob(h, j) /\ QuietJob(h) /\ j.phase = "stopIt"
    BY <1>0, <1>4, ToOnly
  <2>2. Turns(h, "dropCluster")
    BY <1>0, <1>4, GotoTurns
  <2> QED BY <1>0, <1>4, <2>1, <2>2, HandlerSettles
<1>5. CASE DropCluster(h, keys)
  <2>1. Turns(h, "idle")
    BY <1>0, <1>5, AnswerTurns DEF DropCluster
  <2>2. EndJob(h) /\ backends' = backends
    BY <1>5 DEF DropCluster
  <2> QED BY <1>0, <2>1, <2>2, HandlerEnds
<1> QED BY <1>1, <1>2, <1>3, <1>4, <1>5 DEF UnmakeCluster

LEMMA ClusterStepKeeps ==
  ASSUME NEW h, HandlerStep(h), workload = "clusters", ClusterStep(h)
  PROVE  PortsInv'
<1>1. EksKeys \subseteq ClusterKeys /\ GkeKeys \subseteq ClusterKeys
  BY DEF ClusterKeys
<1> QED BY <1>1, MakeClusterKeeps, UnmakeClusterKeeps
        DEF ClusterStep, eksCreateCluster, eksDeleteCluster, gkeCreateCluster, gkeDeleteCluster

\* Instances publish no port.
LEMMA GceStepKeeps ==
  ASSUME NEW h, HandlerStep(h), workload = "gce", GceStep(h)
  PROVE  PortsInv'
<1> USE DEF HandlerStep
<1>0. /\ EngineInv /\ Asking /\ Asked /\ h \in Runner
      /\ \A b \in DOMAIN backends' : backends'[b] \in Held
  BY Constants, HeldNow DEF PortsInv, Asking, GceStep, registry
<1>00. backends' = backends
  BY DEF GceStep, registry
<1>1. CASE (\E k \in GceKeys : Shows({SubjectOf(k)})) /\ UNCHANGED <<containers, job>>
  BY <1>00, <1>1, OnlyReads DEF Shows
<1>2. ASSUME NEW k \in GceKeys, NEW op, NEW kind, NEW phase \in {"create", "stopIt", "switch"}, NEW c,
             \/ Begin(h, op, SubjectOf(k), [key |-> k])
             \/ Begin(h, op, SubjectOf(k), [key |-> k, copy |-> store[k]]),
             TakeJob(h, kind, k[2], phase, c), UNCHANGED containers
      PROVE  PortsInv'
  <2>1. "op" \notin DOMAIN [key |-> k] /\ "op" \notin DOMAIN [key |-> k, copy |-> store[k]]
    OBVIOUS
  <2>2. Turns(h, op)
    BY <1>0, <1>2, <2>1, EnterTurns DEF Begin
  <2> QED BY <1>00, <1>2, <2>2, HandlerTakes
<1>3. ASSUME NEW promise, Answer(h, promise), EndJob(h), Ebbs
      PROVE  PortsInv'
  BY <1>0, <1>3, AnswerTurns, HandlerEnds
<1>4. CASE insertInstance(h) /\ UNCHANGED containers
  <2>1. Ebbs
    BY <1>0, <1>4, StillEbbs
  <2> QED BY <1>1, <1>2, <1>3, <1>4, <2>1 DEF insertInstance
<1>5. CASE deleteInstance(h) /\ UNCHANGED containers
  <2>1. Ebbs
    BY <1>0, <1>5, StillEbbs
  <2> QED BY <1>1, <1>2, <1>3, <1>5, <2>1 DEF deleteInstance
<1>6. CASE startInstance(h) /\ UNCHANGED containers
  <2>1. Ebbs
    BY <1>0, <1>6, StillEbbs
  <2> QED BY <1>1, <1>2, <1>3, <1>6, <2>1 DEF startInstance, Switch, Switched
<1>7. CASE stopInstance(h) /\ UNCHANGED containers
  <2>1. Ebbs
    BY <1>0, <1>7, StillEbbs
  <2> QED BY <1>1, <1>2, <1>3, <1>7, <2>1 DEF stopInstance, Switch, Switched
<1>8. CASE Unpause(h) \/ Pause(h)
  <2>1. Ebbs
    BY <1>0, <1>8, DownEbbs DEF Unpause, Pause
  <2>2. CASE EndJob(h) /\ Answer(h, Promised(h))
    BY <1>3, <2>1, <2>2
  <2>3. CASE To(h, "switched") /\ req' = req
    <3> DEFINE j == [kind |-> job[h].kind, name |-> job[h].name, phase |-> "switched",
                     port |-> job[h].port, container |-> job[h].container]
    <3>1. OnlyJob(h, j) /\ QuietJob(h) /\ j.phase = "switched"
      BY <1>0, <2>3, ToOnly
    <3>2. EngineInv'
      BY <1>0, <2>1, <3>1, Settle, HeldNow
    <3>3. Asking'
      BY <2>3 DEF PortsInv, Asking, Asked, At
    <3> QED BY <3>2, <3>3 DEF PortsInv
  <2> QED BY <1>8, <2>2, <2>3 DEF Unpause, Pause
<1> QED BY <1>4, <1>5, <1>6, <1>7, <1>8 DEF GceStep

LEMMA CreateDBKeeps ==
  ASSUME NEW h, HandlerStep(h), workload = "rds", createDBInstance(h, DbEngine), UNCHANGED <<containers, job, backends>>
  PROVE  PortsInv'
<1> USE DEF HandlerStep
<1>0. EngineInv' /\ Asking /\ Asked
  BY OnlyRequests DEF PortsInv, Asking
<1>1. CASE \E s : Shows(s)
  BY <1>1, OnlyReads DEF Shows
<1>2. ASSUME NEW k, NEW e \in DbEngine, Begin(h, "getOrCreateBackend", SubjectOf(k), [key |-> k, field |-> e])
      PROVE  PortsInv'
  <2>1. "op" \notin DOMAIN [key |-> k, field |-> e]
    OBVIOUS
  <2>2. Turns(h, "getOrCreateBackend") /\ req'[h].field = e
    BY <1>0, <1>2, <2>1, EnterTurns DEF Begin
  <2>3. Asking'
    BY <1>0, <2>2, AskingGoesOn
  <2> QED BY <1>0, <2>3 DEF PortsInv
<1>3. CASE \E m : Answer(h, m)
  <2>1. Turns(h, "idle")
    BY <1>0, <1>3, AnswerTurns
  <2>2. Asking'
    BY <1>0, <2>1, AskingGoesOn
  <2> QED BY <1>0, <2>2 DEF PortsInv
<1> QED BY <1>1, <1>2, <1>3 DEF createDBInstance, InsertOver

LEMMA DeleteDBKeeps ==
  ASSUME NEW h, HandlerStep(h), workload = "rds", deleteDBInstance(h), UNCHANGED <<containers, job, backends>>
  PROVE  PortsInv'
<1> USE DEF HandlerStep
<1>0. EngineInv' /\ Asking /\ Asked
  BY OnlyRequests DEF PortsInv, Asking
<1>1. CASE \E s : Shows(s)
  BY <1>1, OnlyReads DEF Shows
<1>2. ASSUME NEW k, BeginWriting(h, "deleteDBInstance", k, Deleting)
      PROVE  PortsInv'
  <2>1. "op" \notin DOMAIN [key |-> k, copy |-> store[k]]
    OBVIOUS
  <2>2. Turns(h, "deleteDBInstance")
    BY <1>0, <1>2, <2>1, EnterTurns DEF BeginWriting
  <2>3. Asking'
    BY <1>0, <2>2, AskingGoesOn
  <2> QED BY <1>0, <2>3 DEF PortsInv
<1>3. CASE \E m : Answer(h, m)
  <2>1. Turns(h, "idle")
    BY <1>0, <1>3, AnswerTurns
  <2>2. Asking'
    BY <1>0, <2>1, AskingGoesOn
  <2> QED BY <1>0, <2>2 DEF PortsInv
<1> QED BY <1>1, <1>2, <1>3 DEF deleteDBInstance, DropNamed

LEMMA GetOrCreateKeeps ==
  ASSUME NEW h, HandlerStep(h), workload = "rds", getOrCreateBackend(h), UNCHANGED containers
  PROVE  PortsInv'
<1> USE DEF HandlerStep
<1>0. /\ EngineInv /\ Asking /\ Asked /\ h \in Runner /\ Ebbs
      /\ \A b \in DOMAIN backends : backends[b] \in Held
  BY Constants, HeldNow, StillEbbs DEF PortsInv, Asking
<1>1. ASSUME NEW op \in {"putDBInstance", "initBackend"}, Goto(h, op)
      PROVE  Turns(h, op)
  BY <1>0, <1>1, GotoTurns
<1>2. CASE Goto(h, "putDBInstance") /\ UNCHANGED <<job, backends>>
  <2>1. Asking'
    BY <1>0, <1>1, <1>2, AskingGoesOn
  <2> QED BY <1>2, <2>1, OnlyRequests DEF PortsInv
<1>3. CASE /\ At(h, "getOrCreateBackend") /\ Goto(h, "initBackend") /\ UNCHANGED backends
           /\ TakeJob(h, "make", req[h].field, "allocate", NoContainer)
  <2>1. req[h].field \in Resource
    BY <1>0, <1>3, Constants DEF Asking
  <2> QED BY <1>1, <1>3, <2>1, HandlerTakes
<1>4. CASE BackendReady(h) /\ EndJob(h)
  <2>1. \A b \in DOMAIN backends' : backends'[b] \in Held
    BY <1>0, <1>4, RegisterHeld, HeldNow DEF BackendReady, InPhase
  <2>2. Turns(h, "putDBInstance")
    BY <1>1, <1>4 DEF BackendReady
  <2> QED BY <1>0, <1>4, <2>1, <2>2, HandlerEnds
<1>5. CASE BackendFailed(h) /\ EndJob(h)
  <2>1. Turns(h, "idle") /\ backends' = backends
    BY <1>0, <1>5, AnswerTurns DEF BackendFailed
  <2> QED BY <1>0, <1>5, <2>1, HandlerEnds
<1> QED BY <1>2, <1>3, <1>4, <1>5 DEF getOrCreateBackend, FindBackend

\* The other services only read what is registered.
LEMMA OtherStepsKeep ==
  ASSUME NEW h, HandlerStep(h), workload \notin {"clusters", "gce", "rds"}, UNCHANGED <<engineVars, registry>>
  PROVE  PortsInv'
  BY OnlyRequests DEF HandlerStep, PortsInv, Asking, engineVars, registry

LEMMA RequestsKeep == PortsInv /\ Requests /\ UNCHANGED workload => PortsInv'
<1> SUFFICES ASSUME PortsInv, Requests, UNCHANGED workload
             PROVE  PortsInv'
  OBVIOUS
<1>1. PICK h \in Handler : ServiceStep(h)
  BY DEF Requests
<1>2. UNCHANGED <<owner, published>>
  BY <1>1 DEF ServiceStep, ClusterStep, GceStep, RdsStep, engineVars
<1>3. PICK late : server' = [server EXCEPT !.late = late]
  BY DEF Requests
<1>4. server' = [pc |-> server.pc, services |-> server.services, left |-> server.left, late |-> late]
  BY <1>3 DEF PortsInv, EngineInv, ServerTypeOK
<1>5. ServerTypeOK' /\ ToShut' = ToShut
  BY <1>4 DEF PortsInv, EngineInv, ServerTypeOK, ToShut, Closing, Current
<1>6. HandlerStep(h)
  BY <1>2, <1>5 DEF HandlerStep
<1>7. CASE workload = "clusters" /\ ClusterStep(h)
  BY <1>6, <1>7, ClusterStepKeeps
<1>8. CASE workload = "gce" /\ GceStep(h)
  BY <1>6, <1>8, GceStepKeeps
<1>9. CASE workload = "rds" /\ RdsStep(h)
  BY <1>6, <1>9, CreateDBKeeps, DeleteDBKeeps, GetOrCreateKeeps DEF RdsStep, registry
<1>10. CASE workload \notin {"clusters", "gce", "rds"} /\ UNCHANGED <<engineVars, registry>>
  BY <1>6, <1>10, OtherStepsKeep
<1> QED BY <1>1, <1>7, <1>8, <1>9, <1>10 DEF ServiceStep

LEMMA ReadsKeep == PortsInv /\ Reads /\ UNCHANGED workload => PortsInv'
<1> SUFFICES ASSUME PortsInv, Reads, UNCHANGED workload
             PROVE  PortsInv'
  OBVIOUS
<1>1. req' = req
  BY DEF Reads, ClusterReads, describeCluster, eksListClusters, getCluster, gkeListClusters,
         GceReads, getInstance, listInstances, RdsReads, describeDBInstances,
         SqlReads, getSqlInstance, listSqlInstances, CacheReads, describeCacheClusters,
         GroupReads, describeReplicationGroups, RedisReads, getRedisInstance, listRedisInstances,
         SnapshotReads, describeDBSnapshots, Shows
<1>2. UNCHANGED <<containers, owner, published, job, backends, server>>
  BY DEF Reads, engineVars, registry
<1>3. ServerTypeOK' /\ ToShut' = ToShut
  BY <1>2 DEF PortsInv, EngineInv, ServerTypeOK, ToShut, Closing, Current
<1>4. EngineInv'
  BY <1>2, <1>3, SettleJobs, HeldNow DEF PortsInv
<1>5. Asking'
  BY <1>1, <1>2, AskingStays DEF PortsInv, InPhase
<1> QED BY <1>4, <1>5 DEF PortsInv

\* A job that is ready waits for its handler.
LEMMA ReadyWaits ==
  ASSUME EngineInv, NEW r \in Runner, EngineStep(r)
  PROVE  \A q \in Runner : InPhase(q, "ready") => job'[q] = job[q]
<1>1. ~InPhase(r, "ready")
  BY DEF EngineStep, Allocate, Create, Start, Wait, Stop, Remove, StopIt, RemoveIt, InPhase
<1>2. \A q \in Runner \ {r} : job'[q] = job[q]
  BY JobAt DEF EngineStep, Allocate, Create, Start, Wait, Stop, Remove, StopIt, RemoveIt, To
<1> QED BY <1>1, <1>2

LEMMA PortsNext == PortsInv /\ [Next]_vars => PortsInv'
<1> SUFFICES ASSUME PortsInv, [Next]_vars
             PROVE  PortsInv'
  OBVIOUS
<1>1. CASE ServerStep /\ UNCHANGED workload
  <2>1. EngineInv'
    BY <1>1, InitAllKeeps, ShutdownAllKeeps DEF ServerStep, PortsInv
  <2>2. \A h \in Handler : job'[h] = job[h]
    BY <1>1, Constants, JobAt DEF ServerStep, InitAll, InitS3, InitElasticache, InitRds, InitDynamodb, StartEngine,
         InitCloudSql, InitMemorystore, ReadAddresses, EngineFailed, NothingToStart, Serve,
         ShutdownAll, Signal, EnterShutdown, NothingToShut, ShutOne, OneShut, Exit,
         TakeJob, EndJob, PortsInv
  <2>3. Asking'
    BY <1>1, <2>2, AskingStays DEF ServerStep, stores, PortsInv, InPhase
  <2> QED BY <2>1, <2>3 DEF PortsInv
<1>2. CASE DockerSteps /\ UNCHANGED workload
  <2>1. PICK r \in Runner : EngineStep(r)
    BY <1>2 DEF DockerSteps
  <2>2. server' = server /\ req' = req
    BY <1>2 DEF DockerSteps, stores
  <2>3. EngineInv'
    BY <2>1, <2>2, EngineKeeps DEF PortsInv
  <2>4. Asking'
    BY <1>2, <2>1, <2>2, ReadyWaits, AskingStays, Constants DEF PortsInv, InPhase
  <2> QED BY <2>3, <2>4 DEF PortsInv
<1>3. CASE Requests /\ UNCHANGED workload
  BY <1>3, RequestsKeep
<1>4. CASE Reads /\ UNCHANGED workload
  BY <1>4, ReadsKeep
<1>5. CASE UNCHANGED vars
  <2>1. UNCHANGED <<containers, owner, published, job, backends, server, req, workload>>
    BY <1>5 DEF vars, recVars, engineVars, registry
  <2>2. ServerTypeOK' /\ ToShut' = ToShut
    BY <2>1 DEF PortsInv, EngineInv, ServerTypeOK, ToShut, Closing, Current
  <2>3. EngineInv'
    BY <2>1, <2>2, SettleJobs, HeldNow DEF PortsInv
  <2>4. Asking'
    BY <2>1, AskingStays DEF PortsInv, InPhase
  <2> QED BY <2>3, <2>4 DEF PortsInv
<1> QED BY <1>1, <1>2, <1>3, <1>4, <1>5 DEF Next

(* A shared backend, a cluster or an engine that runs has the host port it  *)
(* is published on: for any number of handlers, names, containers and ports *)
(* every path that gives a port back comes after the removal of its         *)
(* container or before its start (internal/backend/*/backend.go).           *)
THEOREM PublishedPortsAreHeld == Spec => []PublishedPortsHeld
<1>1. PortsInv => PublishedPortsHeld
  BY DEF PortsInv, EngineInv, TakersHold, Takes, PublishedPortsHeld, Live, Exists
<1> QED BY <1>1, PortsInit, PortsNext, PTL DEF Spec
-----------------------------------------------------------------------------
(* Endpoints.  While the services come up and serve, nothing takes a shared *)
(* engine down: the containers that are stopped, removed or paused are      *)
(* those of clusters and instances.  So an address that was read stays      *)
(* right, in the registry, in the copies of it and in the records.          *)
Up == server.pc \in {"init", "serving"}

\* Engine e runs, and is published on port p.
Runs(c, e) == e \in EngineName /\ c \in Container /\ Live(c) /\ NameOf(c) = e
Told(e, p) == \E c \in Container : Runs(c, e) /\ published[c] = p
Good(x)    == x[1] \in {"redis", "mysql", "postgres"} => Told(x[1], x[2])
Apart(c)   == NameOf(c) \notin EngineName

GoesDown      == {"idle", "stop", "remove", "stopIt", "removeIt", "switch"}
StartedEngine == {<<"s3", "minio">>, <<"elasticache", "redis">>, <<"rds", "mysql">>, <<"dynamodb", "dynamodb">>}

JobTold(r) ==
  /\ job[r].phase \in {"wait", "ready"} =>
       /\ job[r].container \in Container /\ NameOf(job[r].container) = job[r].name
       /\ job[r].name \in EngineName => Live(job[r].container)
  /\ job[r].phase \in GoesDown => Apart(job[r].container)
  /\ workload \in {"clusters", "gce"} /\ r \in Handler => job[r].name \notin EngineName
ServerTold == server.pc = "init" /\ job[Server] # NoJob =>
                server.services # <<>> /\ <<Current, job[Server].name>> \in StartedEngine

BackendTold(b) == IF b[1] \in {"eks", "gke"} THEN Apart(backends[b]) ELSE Runs(backends[b], b[2])
RegistryTold   ==
  /\ \A b \in DOMAIN backends : BackendTold(b)
  /\ server.pc = "init" => \A b \in DOMAIN backends : b[1] = "rds" => b[2] = "mysql"

AddressesTold ==
  /\ \A s \in DOMAIN sharedPort : \A e \in DOMAIN sharedPort[s] : Told(e, sharedPort[s][e])
  /\ "cloudsql" \in DOMAIN sharedPort => DOMAIN sharedPort["cloudsql"] \subseteq {"mysql"}

(* What a workload needs is there, or still to come.                        *)
Due(s) == \E i \in 1 .. Len(server.services) : server.services[i] = s
BothDue == \E i, j \in 1 .. Len(server.services) :
             i < j /\ server.services[i] = "elasticache" /\ server.services[j] = "memorystore"
RedisTold == "memorystore" \in DOMAIN sharedPort /\ "redis" \in DOMAIN sharedPort["memorystore"]
InOrder ==
  /\ server.pc = "init" => server.services \in Seq(STRING)
  /\ workload = "cloudsql" =>
       \/ "cloudsql" \in DOMAIN sharedPort
       \/ server.pc = "init" /\ Due("cloudsql")
  /\ workload \in {"caches", "replication"} =>
       \/ Redis \in DOMAIN backends
       \/ server.pc = "init" /\ Due("elasticache")
  /\ workload = "memorystore" =>
       \/ Redis \in DOMAIN backends /\ (RedisTold \/ (server.pc = "init" /\ Due("memorystore")))
       \/ server.pc = "init" /\ BothDue

EnginesTold == /\ \A r \in Runner : JobTold(r)
               /\ ServerTold /\ RegistryTold /\ AddressesTold /\ InOrder

(* The records: their maps exist, and tell addresses that are right.        *)
Rec(r) == "map" \in DOMAIN r /\ r.map \in Map \cup {NilMap}
ReqShape == /\ req = [h \in Handler |-> req[h]]
            /\ \A h \in Handler : {"op", "key", "field", "copy"} \subseteq DOMAIN req[h] /\ Rec(req[h].copy)
ContentsTold == /\ maps = [m \in Map |-> maps[m]]
                /\ \A k \in DOMAIN store : Rec(store[k])
                /\ \A m \in Map : \A x \in maps[m] : Good(x)

(* The map of a cluster or an instance has its container, and it is not     *)
(* shared with the record of another.                                       *)
Points(r) == r.map \in Map /\ \E c \in Container : maps[r.map] = {c} /\ Apart(c)
MapsApart ==
  /\ \A k \in DOMAIN store : Points(store[k])
  /\ \A h \in Handler : req[h].copy.map # NilMap => Points(req[h].copy)
  /\ \A k, l \in DOMAIN store : store[k].map = store[l].map => k = l
  /\ \A k \in DOMAIN store, h \in Handler : req[h].copy.map = store[k].map => req[h].key = k
  /\ \A g, h \in Handler : req[g].copy.map = req[h].copy.map /\ req[h].copy.map # NilMap =>
                             req[g].key = req[h].key
RecordsTold == ReqShape /\ ContentsTold /\ (workload \in {"clusters", "gce"} => MapsApart)

(* What a handler knows between two steps.                                  *)
Knowing(h) ==
  /\ server.pc = "init" => At(h, "idle")
  /\ workload = "clusters" /\ At(h, "deleteCluster") => InPhase(h, "idle")
  /\ workload = "gce" /\ req[h].op \in {"startInstance", "stopInstance"} => req[h].copy.map # NilMap
  /\ workload \in {"rds", "snapshots"} /\ req[h].op \in {"getOrCreateBackend", "initBackend", "putDBInstance"} =>
       req[h].field \in DbEngine
  /\ workload = "rds" /\ At(h, "initBackend") => job[h].name = req[h].field
  /\ workload \in {"rds", "snapshots"} /\ At(h, "putDBInstance") => Rds(req[h].field) \in DOMAIN backends
  /\ workload = "cloudsql" /\ At(h, "insertSqlInstance") =>
       "cloudsql" \in DOMAIN sharedPort /\ "mysql" \in DOMAIN sharedPort["cloudsql"]

AllTold    == EnginesTold /\ RecordsTold /\ \A h \in Handler : Knowing(h)
TellingInv == Up => AllTold
-----------------------------------------------------------------------------
LEMMA TellingInit == Init => TellingInv
<1> SUFFICES ASSUME Init PROVE EnginesTold /\ RecordsTold /\ \A h \in Handler : Knowing(h)
  BY DEF TellingInv, AllTold
<1> USE Constants
<1>1. \A r \in Runner : job[r] = NoJob
  BY DEF Init, EngineInit
<1>2. \A h \in Handler : req[h] = Idle
  BY DEF Init, RecInit
<1>3. server.pc = "init" /\ server.services = Registered[workload] /\ workload \in Workloads
  BY DEF Init
<1>4. backends = <<>> /\ sharedPort = <<>> /\ store = <<>>
  BY DEF Init, EngineInit, RecInit
<1>5. (\A r \in Runner : JobTold(r)) /\ ServerTold
  BY <1>1 DEF JobTold, ServerTold, NoJob, GoesDown, EngineName
<1>6. RegistryTold /\ AddressesTold
  BY <1>4 DEF RegistryTold, AddressesTold
<1>7. InOrder
  <2>1. server.services \in Seq(STRING)
    BY <1>3, BackendsAssumption
  <2>2. workload = "cloudsql" => Due("cloudsql")
    BY <1>3, RegistrationAssumption DEF Due
  <2>3. workload \in {"caches", "replication"} => Due("elasticache")
    BY <1>3, RegistrationAssumption DEF Due
  <2>4. workload = "memorystore" => BothDue
    BY <1>3, RegistrationAssumption DEF BothDue
  <2> QED BY <1>3, <2>1, <2>2, <2>3, <2>4 DEF InOrder
<1>8. RecordsTold
  <2>1. ReqShape
    BY <1>2 DEF ReqShape, Init, RecInit, Idle, Rec
  <2>2. ContentsTold
    BY <1>4 DEF ContentsTold, Init, RecInit
  <2>3. \A h \in Handler : req[h].copy.map = NilMap
    BY <1>2 DEF Idle
  <2>4. MapsApart
    BY <1>4, <2>3 DEF MapsApart
  <2> QED BY <2>1, <2>2, <2>4 DEF RecordsTold
<1>9. \A h \in Handler : Knowing(h)
  BY <1>2 DEF Knowing, At, Idle
<1> QED BY <1>5, <1>6, <1>7, <1>8, <1>9 DEF EnginesTold

(* What is told stays true.                                                 *)
Stay == \A c \in Container : NameOf(c) \in EngineName /\ Live(c) => Live(c)' /\ published'[c] = published[c]

LEMMA Staying ==
  ASSUME Stay
  PROVE  /\ \A e, p : Told(e, p) => Told(e, p)'
         /\ \A x : Good(x) => Good(x)'
<1>1. ASSUME NEW e, NEW p, Told(e, p) PROVE Told(e, p)'
  <2>1. PICK c \in Container : Runs(c, e) /\ published[c] = p
    BY <1>1 DEF Told
  <2>2. Runs(c, e)' /\ published'[c] = p
    BY <2>1 DEF Runs, Stay
  <2> QED BY <2>2 DEF Told
<1>2. ASSUME NEW x, Good(x) PROVE Good(x)'
  BY <1>1, <1>2 DEF Good
<1> QED BY <1>1, <1>2

LEMMA StandingStill == UNCHANGED <<containers, published>> => Stay
  BY DEF Stay, Live

LEMMA JobTells ==
  ASSUME Stay, workload' = workload, NEW q, JobTold(q), job'[q] = job[q]
  PROVE  JobTold(q)'
  BY DEF JobTold, Stay, Live, NameOf, Apart

LEMMA RegistryTells ==
  ASSUME Stay, RegistryTold, backends' = backends, server'.pc = server.pc
  PROVE  RegistryTold'
<1>1. ASSUME NEW b \in DOMAIN backends PROVE BackendTold(b)'
  BY DEF RegistryTold, BackendTold, Runs, Stay, Apart
<1> QED BY <1>1 DEF RegistryTold

LEMMA AddressesTell ==
  ASSUME Stay, AddressesTold, sharedPort' = sharedPort
  PROVE  AddressesTold'
<1>1. ASSUME NEW s \in DOMAIN sharedPort, NEW e \in DOMAIN sharedPort[s] PROVE Told(e, sharedPort[s][e])'
  BY Staying DEF AddressesTold
<1> QED BY <1>1 DEF AddressesTold

LEMMA RecordsTell ==
  ASSUME Stay, RecordsTold, UNCHANGED <<req, store, maps, workload>>
  PROVE  RecordsTold'
<1>1. ReqShape'
  BY DEF RecordsTold, ReqShape, Rec
<1>2. ContentsTold'
  <2>1. \A m \in Map : \A x \in maps[m] : Good(x)'
    BY Staying DEF RecordsTold, ContentsTold
  <2> QED BY <2>1 DEF RecordsTold, ContentsTold, Rec
<1>3. MapsApart => MapsApart'
  BY DEF MapsApart, Points, Apart
<1> QED BY <1>1, <1>2, <1>3 DEF RecordsTold

(* The steps of a job.                                                      *)
LEMMA StartedStays ==
  ASSUME EngineInv, NEW c \in Container, StartContainer(c, TRUE), published' = published
  PROVE  Stay /\ Live(c)'
  BY DEF StartContainer, SetState, Stay, Live, EngineInv, EngineTypeOK

LEMMA DownStays ==
  ASSUME EngineInv, NEW c, Apart(c), published' = published, NEW s,
         UNCHANGED containers \/ SetState(c, s)
  PROVE  Stay
  BY DEF SetState, Stay, Live, EngineInv, EngineTypeOK, Apart

\* r goes on with the same name.
GoesOn(r) == /\ Moves(r)
             /\ job'[r].name = job[r].name
             /\ job[r].phase \notin {"idle", "none"}

LEMMA AllocateTells ==
  ASSUME EngineInv, NEW r \in Runner, JobTold(r), Allocate(r), UNCHANGED <<backends, server, workload>>
  PROVE  Stay /\ GoesOn(r) /\ JobTold(r)'
<1>1. Stay /\ job[r].phase \notin {"idle", "none"}
  BY StandingStill DEF Allocate, InPhase
<1>2. CASE \E p : job' = [job EXCEPT ![r].phase = "create", ![r].port = p]
  <2>1. PICK p : job' = [job EXCEPT ![r].phase = "create", ![r].port = p]
    BY <1>2
  <2>2. JobIs(r, "create", p, job[r].container)
    BY <2>1, JobBecomes
  <2> QED BY <1>1, <2>2 DEF JobIs, GoesOn, JobTold, GoesDown
<1>3. CASE To(r, "failed")
  <2>1. JobIs(r, "failed", job[r].port, job[r].container)
    BY <1>3, ToMoves
  <2> QED BY <1>1, <2>1 DEF JobIs, GoesOn, JobTold, GoesDown
<1> QED BY <1>2, <1>3 DEF Allocate

LEMMA CreateTells ==
  ASSUME EngineInv, NEW r \in Runner, JobTold(r), Create(r), UNCHANGED <<backends, server, workload>>
  PROVE  Stay /\ GoesOn(r) /\ JobTold(r)'
<1>1. job[r].phase \notin {"idle", "none"}
  BY DEF Create, InPhase
<1>2. ASSUME NEW c \in NextSpare(job[r].name), CreateContainer(c),
             published' = [published EXCEPT ![c] = job[r].port],
             job' = [job EXCEPT ![r].phase = "start", ![r].container = c]
      PROVE  Stay /\ GoesOn(r) /\ JobTold(r)'
  <2>1. OnlyJob(r, [kind |-> job[r].kind, name |-> job[r].name, phase |-> "start",
                    port |-> job[r].port, container |-> c])
    BY <1>2, JobHasContainer
  <2>2. Moves(r) /\ job'[r].name = job[r].name /\ job'[r].phase = "start"
    BY <2>1 DEF OnlyJob, Moves
  <2>3. c \in Container /\ containers[c] = "none"
    BY <1>2 DEF NextSpare, Spare
  <2>4. Stay
    BY <1>2, <2>3 DEF Stay, Live, CreateContainer, SetState, EngineInv, EngineTypeOK
  <2> QED BY <1>1, <2>2, <2>4 DEF GoesOn, JobTold, GoesDown
<1>3. CASE To(r, "failed") /\ UNCHANGED <<containers, published>>
  <2>1. JobIs(r, "failed", job[r].port, job[r].container)
    BY <1>3, ToMoves
  <2> QED BY <1>1, <1>3, <2>1, StandingStill DEF JobIs, GoesOn, JobTold, GoesDown
<1> QED BY <1>2, <1>3 DEF Create, Fails

LEMMA StartTells ==
  ASSUME EngineInv, NEW r \in Runner, JobTold(r), Start(r), UNCHANGED <<backends, server, workload>>
  PROVE  Stay /\ GoesOn(r) /\ JobTold(r)'
<1>1. job[r].phase \notin {"idle", "none"} /\ Starts(r)
  BY DEF Start, InPhase, EngineInv, ToBeStarted
<1>2. ASSUME NEW p \in {"ready", "wait"}, To(r, p), StartContainer(job[r].container, TRUE)
      PROVE  Stay /\ GoesOn(r) /\ JobTold(r)'
  <2>1. JobIs(r, p, job[r].port, job[r].container)
    BY <1>2, ToMoves
  <2>0. PICK c \in Container : c = job[r].container
    BY <1>1 DEF Starts
  <2>2. Stay /\ Live(c)'
    BY <1>2, <2>0, StartedStays DEF Start
  <2>3. job'[r].container = c /\ job'[r].name = job[r].name /\ job'[r].phase = p
    BY <2>0, <2>1 DEF JobIs
  <2>4. p \notin GoesDown
    BY DEF GoesDown
  <2>6. JobTold(r)'
    BY <1>1, <2>0, <2>2, <2>3, <2>4 DEF JobTold, Starts, NameOf, Live
  <2> QED BY <1>1, <2>1, <2>2, <2>6 DEF JobIs, GoesOn
<1>3. CASE To(r, "failed") /\ StartContainer(job[r].container, FALSE)
  <2>1. JobIs(r, "failed", job[r].port, job[r].container)
    BY <1>3, ToMoves
  <2>2. UNCHANGED <<containers, published>>
    BY <1>3 DEF StartContainer, Fails, Start
  <2> QED BY <1>1, <2>1, <2>2, StandingStill DEF JobIs, GoesOn, JobTold, GoesDown
<1> QED BY <1>2, <1>3 DEF Start

LEMMA WaitTells ==
  ASSUME EngineInv, NEW r \in Runner, JobTold(r), Wait(r), UNCHANGED <<backends, server, workload>>
  PROVE  Stay /\ GoesOn(r) /\ JobTold(r)'
<1>1. job[r].phase = "wait" /\ UNCHANGED <<containers, published>>
  BY DEF Wait, InPhase
<1>2. PICK p \in {"ready", "failed"} : To(r, p)
  BY DEF Wait
<1>3. JobIs(r, p, job[r].port, job[r].container)
  BY <1>2, ToMoves
<1>4. p \notin GoesDown
  BY DEF GoesDown
<1> QED BY <1>1, <1>3, <1>4, StandingStill DEF JobIs, GoesOn, JobTold, Live

\* Only containers of clusters and instances are taken down.
LEMMA DownTells ==
  ASSUME EngineInv, NEW r \in Runner, JobTold(r), Stop(r) \/ Remove(r) \/ StopIt(r) \/ RemoveIt(r),
         UNCHANGED <<backends, server, workload>>
  PROVE  Stay /\ GoesOn(r) /\ JobTold(r)'
<1>1. job[r].phase \in {"stop", "remove", "stopIt", "removeIt"}
  BY DEF Stop, Remove, StopIt, RemoveIt, InPhase
<1>2. Apart(job[r].container)
  BY <1>1 DEF JobTold, GoesDown
<1>3. \E s : UNCHANGED containers \/ SetState(job[r].container, s)
  BY DEF Stop, Remove, StopIt, RemoveIt, StopContainer, RemoveContainer, Fails
<1>4. published' = published
  BY DEF Stop, Remove, StopIt, RemoveIt
<1>5. Stay
  BY <1>2, <1>3, <1>4, DownStays
<1>6. PICK p \in {"remove", "closed", "removeIt"} : To(r, p)
  BY DEF Stop, Remove, StopIt, RemoveIt
<1>7. JobIs(r, p, job[r].port, job[r].container)
  BY <1>6, ToMoves
<1> QED BY <1>1, <1>2, <1>5, <1>7 DEF JobIs, GoesOn, JobTold, Apart

LEMMA DockerTells ==
  ASSUME PortsInv, AllTold, DockerSteps, workload' = workload
  PROVE  AllTold'
<1> USE DEF AllTold
<1>1. PICK r \in Runner : EngineStep(r)
  BY DEF DockerSteps
<1>2. UNCHANGED <<backends, server, sharedPort, req, store, maps>>
  BY <1>1 DEF DockerSteps, stores, EngineStep, registry
<1>3. EngineInv /\ JobTold(r)
  BY DEF PortsInv, EnginesTold
<1>4. Stay /\ GoesOn(r) /\ JobTold(r)'
  BY <1>1, <1>2, <1>3, AllocateTells, CreateTells, StartTells, WaitTells, DownTells DEF EngineStep
<1>5. \A q \in Runner : JobTold(q)'
  BY <1>4, JobTells DEF GoesOn, Moves, EnginesTold
<1>6. \A q \in Runner : job'[q].name = job[q].name /\ (InPhase(q, "idle") => InPhase(q, "idle")')
  BY <1>4 DEF GoesOn, Moves, InPhase
<1>7. job[Server] = NoJob => job'[Server] = NoJob
  BY <1>4, Constants DEF GoesOn, Moves, NoJob
<1>8. ServerTold'
  BY <1>2, <1>6, <1>7, Constants DEF ServerTold, EnginesTold, Current
<1>9. RegistryTold' /\ AddressesTold' /\ RecordsTold'
  BY <1>2, <1>4, RegistryTells, AddressesTell, RecordsTell DEF EnginesTold
<1>10. InOrder'
  BY <1>2 DEF EnginesTold, InOrder, Due, BothDue, RedisTold
<1>11. \A h \in Handler : Knowing(h)'
  BY <1>2, <1>6, Constants DEF Knowing, At, InPhase
<1> QED BY <1>5, <1>8, <1>9, <1>10, <1>11 DEF EnginesTold
-----------------------------------------------------------------------------
(* InitAll.                                                                 *)

LEMMA TailOf ==
  ASSUME NEW S, NEW q \in Seq(S), q # <<>>
  PROVE  /\ Tail(q) \in Seq(S) /\ Len(Tail(q)) = Len(q) - 1 /\ Len(q) \in Nat
         /\ \A i \in 1 .. Len(Tail(q)) : Tail(q)[i] = q[i + 1]
  OBVIOUS

LEMMA DueNext ==
  ASSUME EngineInv, NextService, server.services \in Seq(STRING), server.services # <<>>
  PROVE  /\ server'.pc = server.pc /\ server'.services = Tail(server.services)
         /\ server'.services \in Seq(STRING)
         /\ \A s : Due(s) => Current = s \/ Due(s)'
         /\ BothDue => Due("memorystore")' /\ (Current = "elasticache" \/ BothDue')
<1>1. server' = [server EXCEPT !.services = Tail(@), !.left = {}]
  BY DEF NextService
<1>2. server'.pc = server.pc /\ server'.services = Tail(server.services)
  BY <1>1 DEF EngineInv, ServerTypeOK
<1>3. /\ server'.services \in Seq(STRING)
      /\ Len(server'.services) = Len(server.services) - 1
      /\ \A i \in 1 .. Len(server'.services) : server'.services[i] = server.services[i + 1]
      /\ Len(server.services) \in Nat
  <2>1. PICK q \in Seq(STRING) : q = server.services
    OBVIOUS
  <2>2. PICK S : S = STRING
    OBVIOUS
  <2>3. q \in Seq(S) /\ q # <<>>
    BY <2>1, <2>2
  <2>4. /\ Tail(q) \in Seq(S) /\ Len(Tail(q)) = Len(q) - 1 /\ Len(q) \in Nat
        /\ \A i \in 1 .. Len(Tail(q)) : Tail(q)[i] = q[i + 1]
    BY <2>3, TailOf
  <2> QED BY <1>2, <2>1, <2>2, <2>4, Zenon
<1>4. \A i \in 1 .. Len(server.services) :
        i = 1 \/ (i - 1 \in 1 .. Len(server'.services) /\ server'.services[i - 1] = server.services[i])
  <2> TAKE i \in 1 .. Len(server.services)
  <2>1. CASE i # 1
    <3>1. i - 1 \in 1 .. Len(server'.services) /\ (i - 1) + 1 = i
      BY <1>3, <2>1
    <3> QED BY <1>3, <3>1
  <2> QED BY <2>1
<1>5. ASSUME NEW s, Due(s), Current # s PROVE Due(s)'
  <2>1. PICK i \in 1 .. Len(server.services) : server.services[i] = s
    BY <1>5 DEF Due
  <2>2. i # 1
    BY <1>5, <2>1 DEF Current
  <2> QED BY <1>4, <2>1, <2>2 DEF Due
<1>6. ASSUME BothDue PROVE Due("memorystore")' /\ (Current = "elasticache" \/ BothDue')
  <2>1. PICK i, j \in 1 .. Len(server.services) :
          i < j /\ server.services[i] = "elasticache" /\ server.services[j] = "memorystore"
    BY <1>6 DEF BothDue
  <2>2. j # 1
    BY <2>1
  <2>3. j - 1 \in 1 .. Len(server'.services) /\ server'.services[j - 1] = "memorystore"
    BY <1>4, <2>1, <2>2
  <2>4. Due("memorystore")'
    BY <2>3 DEF Due
  <2>5. CASE i = 1
    BY <2>1, <2>4, <2>5 DEF Current
  <2>6. CASE i # 1
    <3>1. i - 1 \in 1 .. Len(server'.services) /\ server'.services[i - 1] = "elasticache" /\ i - 1 < j - 1
      BY <1>4, <2>1, <2>6
    <3>2. BothDue'
      BY <2>3, <3>1 DEF BothDue
    <3> QED BY <2>4, <3>2
  <2> QED BY <2>5, <2>6
<1> QED BY <1>2, <1>3, <1>5, <1>6

LEMMA OrderNext ==
  ASSUME EngineInv, InOrder, Initialising, NextService, workload' = workload,
         DOMAIN backends \subseteq DOMAIN backends', DOMAIN sharedPort \subseteq DOMAIN sharedPort',
         Redis \in DOMAIN backends /\ RedisTold => RedisTold',
         Current = "cloudsql" => "cloudsql" \in DOMAIN sharedPort',
         Current = "elasticache" => Redis \in DOMAIN backends',
         Current = "memorystore" /\ Redis \in DOMAIN backends => RedisTold'
  PROVE  InOrder'
<1>0. server.pc = "init" /\ server.services # <<>> /\ server.services \in Seq(STRING)
  BY DEF Initialising, InOrder
<1>1. /\ server'.pc = "init"
      /\ server'.services \in Seq(STRING)
      /\ \A s : Due(s) => Current = s \/ Due(s)'
      /\ BothDue => Due("memorystore")' /\ (Current = "elasticache" \/ BothDue')
  BY <1>0, DueNext
<1>2. CASE workload = "memorystore"
  BY <1>1, <1>2 DEF InOrder
<1>3. CASE workload # "memorystore"
  BY <1>1, <1>3 DEF InOrder
<1> QED BY <1>2, <1>3

\* A job of the server's is one for the engine that its service starts.
LEMMA ServerJob ==
  ASSUME EnginesTold, Initialising, job[Server] # NoJob
  PROVE  <<Current, job[Server].name>> \in StartedEngine
  BY DEF EnginesTold, ServerTold, Initialising

LEMMA RegisterTells ==
  ASSUME Stay, RegistryTold, NEW service, NEW engine, NEW c, Register(<<service, engine>>, c),
         service \notin {"eks", "gke"}, Runs(c, engine),
         server.pc = "init" /\ service = "rds" => engine = "mysql", server'.pc = server.pc
  PROVE  RegistryTold' /\ DOMAIN backends' = DOMAIN backends \cup {<<service, engine>>}
<1>1. /\ DOMAIN backends' = DOMAIN backends \cup {<<service, engine>>}
      /\ backends'[<<service, engine>>] = c
      /\ \A b \in DOMAIN backends : b # <<service, engine>> => backends'[b] = backends[b]
  BY DEF Register
<1>2. BackendTold(<<service, engine>>)'
  BY <1>1 DEF BackendTold, Runs, Stay
<1>3. ASSUME NEW b \in DOMAIN backends, b # <<service, engine>> PROVE BackendTold(b)'
  BY <1>1, <1>3 DEF RegistryTold, BackendTold, Runs, Stay, Apart
<1>4. server'.pc = "init" => \A b \in DOMAIN backends' : b[1] = "rds" => b[2] = "mysql"
  BY <1>1 DEF RegistryTold
<1> QED BY <1>1, <1>2, <1>3, <1>4 DEF RegistryTold

LEMMA StartEngineTells ==
  ASSUME EngineInv, EnginesTold, NEW service, NEW engine, <<service, engine>> \in StartedEngine,
         StartEngine(service, engine), UNCHANGED <<containers, published, workload>>
  PROVE  EnginesTold'
<1> USE Constants
<1>0. /\ Stay /\ AddressesTold'
      /\ engine \in EngineName /\ engine \in Resource
      /\ service \notin {"eks", "gke", "cloudsql", "memorystore"}
      /\ service = "rds" => engine = "mysql"
      /\ service = "elasticache" => engine = "redis"
  BY StandingStill, AddressesTell, BackendsAssumption DEF EnginesTold, StartEngine, StartedEngine, EngineName
<1>1. CASE /\ TakeJob(Server, "make", engine, "allocate", NoContainer)
           /\ UNCHANGED <<backends, server>>
  <2>1. OnlyJob(Server, NewJob("make", engine, "allocate", NoContainer))
    BY <1>0, <1>1, TakeJobOnly
  <2>2. \A q \in Runner \ {Server} : job'[q] = job[q]
    BY <2>1 DEF OnlyJob
  <2>3. job'[Server].name = engine /\ job'[Server].phase = "allocate"
    BY <2>1 DEF OnlyJob, NewJob
  <2>4. JobTold(Server)'
    BY <2>3 DEF JobTold, GoesDown
  <2>5. \A q \in Runner : JobTold(q)'
    BY <1>0, <2>2, <2>4, JobTells DEF EnginesTold
  <2>6. ServerTold'
    BY <1>1, <2>3 DEF ServerTold, StartEngine, Initialising, Current
  <2>7. RegistryTold' /\ InOrder'
    BY <1>0, <1>1, RegistryTells DEF EnginesTold, InOrder, Due, BothDue, RedisTold, StartEngine
  <2> QED BY <1>0, <2>5, <2>6, <2>7 DEF EnginesTold
<1>2. CASE /\ InPhase(Server, "ready")
           /\ Register(<<service, engine>>, job[Server].container)
           /\ EndJob(Server) /\ NextService
  <2>0. Initialising /\ Current = service /\ server.pc = "init" /\ sharedPort' = sharedPort
    BY DEF StartEngine, Initialising
  <2>1. job[Server] # NoJob /\ job[Server].name = engine
    <3>1. job[Server] # NoJob
      BY <1>2 DEF InPhase, NoJob
    <3> QED BY <2>0, <3>1, ServerJob DEF StartedEngine
  <2>2. Runs(job[Server].container, engine)
    BY <1>0, <1>2, <2>1 DEF EnginesTold, JobTold, InPhase, Runs
  <2>3. OnlyJob(Server, NoJob)
    BY <1>2, EndJobOnly
  <2>4. \A q \in Runner \ {Server} : job'[q] = job[q]
    BY <2>3 DEF OnlyJob
  <2>5. job'[Server] = NoJob
    BY <2>3 DEF OnlyJob
  <2>6. JobTold(Server)' /\ ServerTold'
    BY <2>5 DEF JobTold, NoJob, GoesDown, ServerTold
  <2>7. \A q \in Runner : JobTold(q)'
    BY <1>0, <2>4, <2>6, JobTells DEF EnginesTold
  <2>8. server'.pc = server.pc
    BY <1>2, NextServiceIs
  <2>9. RegistryTold' /\ DOMAIN backends' = DOMAIN backends \cup {<<service, engine>>}
    BY <1>0, <1>2, <2>2, <2>8, RegisterTells DEF EnginesTold
  <2>10. Redis \in DOMAIN backends /\ RedisTold => RedisTold'
    BY <2>0 DEF RedisTold
  <2>11. InOrder'
    BY <1>0, <1>2, <2>0, <2>9, <2>10, OrderNext DEF EnginesTold, Redis
  <2> QED BY <1>0, <2>6, <2>7, <2>9, <2>11 DEF EnginesTold
<1> QED BY <1>1, <1>2 DEF StartEngine

\* The server has no job but for an engine, so nothing to lose when it goes on.
LEMMA NoServerJob ==
  ASSUME EnginesTold, Initialising, Current \in {"cloudsql", "memorystore", "compute", "eks", "gke"}
  PROVE  job[Server] = NoJob
  BY ServerJob DEF StartedEngine

LEMMA ReadAddressesTells ==
  ASSUME EngineInv, EnginesTold, NEW service, NEW from,
         <<service, from>> \in {<<"cloudsql", "rds">>, <<"memorystore", "elasticache">>},
         ReadAddresses(service, from), UNCHANGED <<containers, published, workload>>
  PROVE  EnginesTold'
<1>0. /\ Initialising /\ Current = service /\ server.pc = "init" /\ NextService
      /\ UNCHANGED <<job, backends>>
      /\ from \notin {"eks", "gke"} /\ service \in {"cloudsql", "memorystore"} /\ Stay
      /\ server'.pc = server.pc
  BY StandingStill, NextServiceIs DEF ReadAddresses, Initialising
<1>1. PICK up : up = {b \in DOMAIN backends : b[1] = from}
  OBVIOUS
<1>2. PICK told : told = [e \in {b[2] : b \in up} |-> PortOf(CHOOSE b \in up : b[2] = e)]
  OBVIOUS
<1>3. sharedPort' = Over(Only(service, told), sharedPort)
  BY <1>1, <1>2 DEF ReadAddresses
<1>4. /\ DOMAIN sharedPort' = DOMAIN sharedPort \cup {service}
      /\ sharedPort'[service] = told
      /\ \A s \in DOMAIN sharedPort : s # service => sharedPort'[s] = sharedPort[s]
  BY <1>3 DEF Over, Only
<1>5. ASSUME NEW e \in DOMAIN told PROVE Told(e, told[e])'
  <2>1. PICK b \in up : b[2] = e
    BY <1>2, <1>5
  <2>2. PICK d : d = CHOOSE x \in up : x[2] = e
    OBVIOUS
  <2>3. d \in up /\ d[2] = e
    BY <2>1, <2>2
  <2>4. Runs(backends[d], e)
    BY <1>0, <1>1, <2>3 DEF EnginesTold, RegistryTold, BackendTold
  <2>5. told[e] = published[backends[d]]
    BY <1>2, <1>5, <2>2 DEF PortOf
  <2>6. Told(e, told[e])
    BY <2>4, <2>5 DEF Told, Runs
  <2> QED BY <1>0, <2>6, Staying
<1>6. service = "cloudsql" => DOMAIN told \subseteq {"mysql"}
  BY <1>0, <1>1, <1>2 DEF EnginesTold, RegistryTold
<1>7. AddressesTold'
  <2>1. ASSUME NEW s \in DOMAIN sharedPort', NEW e \in DOMAIN sharedPort'[s] PROVE Told(e, sharedPort[s][e])'
    <3>1. CASE s = service
      BY <1>4, <1>5, <2>1, <3>1
    <3>2. CASE s # service
      <4>1. s \in DOMAIN sharedPort /\ sharedPort'[s] = sharedPort[s]
        BY <1>4, <3>2
      <4>2. Told(e, sharedPort[s][e])
        BY <2>1, <4>1 DEF EnginesTold, AddressesTold
      <4>3. PICK p : p = sharedPort[s][e]
        OBVIOUS
      <4>4. Told(e, p)' /\ sharedPort'[s][e] = p
        BY <1>0, <4>1, <4>2, <4>3, Staying
      <4> QED BY <4>4
    <3> QED BY <3>1, <3>2
  <2>2. "cloudsql" \in DOMAIN sharedPort' => DOMAIN sharedPort'["cloudsql"] \subseteq {"mysql"}
    BY <1>4, <1>6 DEF EnginesTold, AddressesTold
  <2> QED BY <2>1, <2>2 DEF AddressesTold
<1>8. service = "memorystore" /\ Redis \in DOMAIN backends => RedisTold'
  <2> HAVE service = "memorystore" /\ Redis \in DOMAIN backends
  <2>1. Redis \in up /\ Redis[2] = "redis"
    BY <1>1 DEF Redis
  <2>2. "redis" \in DOMAIN told
    BY <1>2, <2>1
  <2> QED BY <1>4, <2>2 DEF RedisTold
<1>9. Redis \in DOMAIN backends /\ RedisTold => RedisTold'
  BY <1>4, <1>8 DEF RedisTold
<1>10. InOrder'
  BY <1>0, <1>4, <1>8, <1>9, OrderNext DEF EnginesTold
<1>11. job'[Server] = NoJob
  BY <1>0, NoServerJob
<1>12. (\A q \in Runner : JobTold(q)') /\ ServerTold' /\ RegistryTold'
  BY <1>0, <1>11, JobTells, RegistryTells DEF EnginesTold, ServerTold
<1> QED BY <1>7, <1>10, <1>12 DEF EnginesTold

LEMMA NothingToStartTells ==
  ASSUME EngineInv, EnginesTold, NothingToStart, UNCHANGED <<containers, published, workload>>
  PROVE  EnginesTold'
<1>1. /\ Initialising /\ NextService /\ UNCHANGED <<job, backends, sharedPort>>
      /\ Current \in {"compute", "eks", "gke"} /\ Stay /\ server'.pc = server.pc
  BY StandingStill, NextServiceIs DEF NothingToStart
<1>2. InOrder'
  BY <1>1, OrderNext DEF EnginesTold, RedisTold
<1>3. job'[Server] = NoJob
  BY <1>1, NoServerJob
<1> QED BY <1>1, <1>2, <1>3, JobTells, RegistryTells, AddressesTell DEF EnginesTold, ServerTold

\* Nothing is due any more.
LEMMA ServeTells ==
  ASSUME EngineInv, EnginesTold, Serve, UNCHANGED <<containers, published, workload>>
  PROVE  EnginesTold'
<1>1. /\ server.pc = "init" /\ server.services = <<>> /\ UNCHANGED <<job, backends, sharedPort>> /\ Stay
      /\ server'.pc = "serving"
  BY StandingStill DEF Serve, EngineInv, ServerTypeOK
<1>2. ~BothDue /\ \A s : ~Due(s)
  <2>1. 1 .. Len(server.services) = {}
    BY <1>1
  <2> QED BY <2>1 DEF BothDue, Due
<1>3. InOrder'
  BY <1>1, <1>2 DEF EnginesTold, InOrder, RedisTold
<1>4. RegistryTold'
  <2>1. ASSUME NEW b \in DOMAIN backends PROVE BackendTold(b)'
    BY <1>1 DEF EnginesTold, RegistryTold, BackendTold, Runs, Stay, Apart
  <2> QED BY <1>1, <2>1 DEF RegistryTold
<1>5. ServerTold'
  BY <1>1 DEF ServerTold
<1> QED BY <1>1, <1>3, <1>4, <1>5, JobTells, AddressesTell DEF EnginesTold

LEMMA InitAllTells ==
  ASSUME PortsInv, TellingInv, InitAll, UNCHANGED <<stores, containers, published, workload>>
  PROVE  TellingInv'
<1> SUFFICES ASSUME Up'
             PROVE  EnginesTold' /\ RecordsTold' /\ \A h \in Handler : Knowing(h)'
  BY DEF TellingInv, AllTold
<1>1. server.pc = "init" /\ EngineInv
  BY DEF InitAll, InitS3, InitElasticache, InitRds, InitDynamodb, StartEngine, InitCloudSql, InitMemorystore,
         ReadAddresses, EngineFailed, NothingToStart, Serve, Initialising, PortsInv
<1>2. EnginesTold /\ RecordsTold /\ \A h \in Handler : Knowing(h)
  BY <1>1 DEF TellingInv, AllTold, Up
<1>3. ~EngineFailed
  BY <1>1 DEF EngineFailed, Up, EngineInv, ServerTypeOK
<1>4. InitS3 \/ InitElasticache \/ InitRds \/ InitDynamodb => EnginesTold'
  BY <1>1, <1>2, StartEngineTells DEF InitS3, InitElasticache, InitRds, InitDynamodb, StartedEngine
<1>5. InitCloudSql \/ InitMemorystore => EnginesTold'
  BY <1>1, <1>2, ReadAddressesTells DEF InitCloudSql, InitMemorystore
<1>6. EnginesTold'
  BY <1>1, <1>2, <1>3, <1>4, <1>5, NothingToStartTells, ServeTells DEF InitAll
<1>7. RecordsTold'
  BY <1>2, StandingStill, RecordsTell DEF stores
<1>8. \A h \in Handler : Knowing(h)'
  BY <1>1, <1>2 DEF Knowing, At, stores
<1> QED BY <1>6, <1>7, <1>8

LEMMA ShutdownAllTells ==
  ASSUME PortsInv, ShutdownAll
  PROVE  TellingInv'
<1>1. server.pc \in {"serving", "closing"} /\ ServerTypeOK
  BY DEF ShutdownAll, Signal, EnterShutdown, NothingToShut, ShutOne, OneShut, Exit, Closing, PortsInv, EngineInv
<1>2. CASE NextService /\ server.pc = "closing"
  BY <1>2, NextServiceIs DEF PortsInv, TellingInv, Up
<1>3. CASE ~NextService
  BY <1>1, <1>3 DEF ShutdownAll, Signal, EnterShutdown, NothingToShut, ShutOne, OneShut, Exit, Closing,
         ServerTypeOK, TellingInv, Up
<1>4. CASE server.pc # "closing"
  BY <1>1, <1>4 DEF ShutdownAll, Signal, EnterShutdown, NothingToShut, ShutOne, OneShut, Exit, Closing,
         ServerTypeOK, TellingInv, Up
<1> QED BY <1>2, <1>3, <1>4
-----------------------------------------------------------------------------
(* Requests, and what becomes of the records.                               *)

\* The request of h has now this place, key, field and copy;  the others keep theirs.
ReqIs(h, op, key, field, copy) ==
  /\ ReqShape'
  /\ req'[h].op = op /\ req'[h].key = key /\ req'[h].field = field /\ req'[h].copy = copy
  /\ \A g \in Handler \ {h} : /\ req'[g].op = req[g].op /\ req'[g].key = req[g].key
                              /\ req'[g].field = req[g].field /\ req'[g].copy = req[g].copy

NoKey == <<"none", "none", "none">>
Blank == [status |-> "none", map |-> NilMap]

LEMMA IdleShape ==
  /\ {"op", "key", "field", "copy"} \subseteq DOMAIN Idle
  /\ Idle.op = "idle" /\ Idle.key = NoKey /\ Idle.field = "none" /\ Idle.copy = Blank
  /\ Rec(Blank) /\ Blank.map = NilMap
  BY DEF Idle, NoKey, Blank, Rec

LEMMA MarkedSame ==
  ASSUME ReqShape, NEW s
  PROVE  /\ Marked(s) = [g \in Handler |-> Marked(s)[g]]
         /\ \A g \in Handler : /\ {"op", "key", "field", "copy"} \subseteq DOMAIN Marked(s)[g]
                               /\ Marked(s)[g].op = req[g].op /\ Marked(s)[g].key = req[g].key
                               /\ Marked(s)[g].field = req[g].field /\ Marked(s)[g].copy = req[g].copy
                               /\ Rec(Marked(s)[g].copy)
  BY DEF ReqShape, Marked

LEMMA EnterIs ==
  ASSUME ReqShape, NEW h \in Handler, NEW op, NEW s, NEW fields, Enter(h, op, s, fields),
         "op" \notin DOMAIN fields, "key" \in DOMAIN fields,
         NEW field, field = IF "field" \in DOMAIN fields THEN fields["field"] ELSE "none",
         NEW copy, copy = IF "copy" \in DOMAIN fields THEN fields["copy"] ELSE Blank, Rec(copy)
  PROVE  ReqIs(h, op, fields["key"], field, copy) /\ req[h].op = "idle"
<1>1. PICK idle : idle = [Idle EXCEPT !.op = op, !.subject = s, !.alone = Busy(s) = {}]
  OBVIOUS
<1>2. PICK r : r = Over(fields, idle)
  OBVIOUS
<1>3. req[h] = Idle /\ req' = [Marked(s) EXCEPT ![h] = r]
  BY <1>1, <1>2 DEF Enter
<1>4. /\ {"op", "key", "field", "copy"} \subseteq DOMAIN idle
      /\ idle["op"] = op /\ idle["field"] = "none" /\ idle["copy"] = Blank
  BY <1>1 DEF Idle, Blank
<1>5. /\ {"op", "key", "field", "copy"} \subseteq DOMAIN r
      /\ r["op"] = op /\ r["key"] = fields["key"] /\ r["field"] = field /\ r["copy"] = copy
  BY <1>2, <1>4 DEF Over
<1>6. req' = [g \in Handler |-> IF g = h THEN r ELSE Marked(s)[g]]
  BY <1>3, MarkedSame
<1>7. ReqShape'
  BY <1>5, <1>6, MarkedSame DEF ReqShape, Rec
<1> QED BY <1>3, <1>5, <1>6, <1>7, MarkedSame, IdleShape DEF ReqIs

LEMMA EnterKey ==
  ASSUME ReqShape, NEW h \in Handler, NEW op, NEW s, NEW k, Enter(h, op, s, [key |-> k])
  PROVE  ReqIs(h, op, k, "none", Blank) /\ req[h].op = "idle"
<1>1. PICK fields : fields = [key |-> k]
  OBVIOUS
<1>2. "op" \notin DOMAIN fields /\ "key" \in DOMAIN fields /\ "field" \notin DOMAIN fields
      /\ "copy" \notin DOMAIN fields /\ fields["key"] = k
  BY <1>1
<1> QED BY <1>1, <1>2, EnterIs, IdleShape

LEMMA EnterField ==
  ASSUME ReqShape, NEW h \in Handler, NEW op, NEW s, NEW k, NEW e, Enter(h, op, s, [key |-> k, field |-> e])
  PROVE  ReqIs(h, op, k, e, Blank) /\ req[h].op = "idle"
<1>1. PICK fields : fields = [key |-> k, field |-> e]
  OBVIOUS
<1>2. "op" \notin DOMAIN fields /\ "key" \in DOMAIN fields /\ "field" \in DOMAIN fields
      /\ "copy" \notin DOMAIN fields /\ fields["key"] = k /\ fields["field"] = e
  BY <1>1
<1> QED BY <1>1, <1>2, EnterIs, IdleShape

LEMMA EnterCopy ==
  ASSUME ReqShape, NEW h \in Handler, NEW op, NEW s, NEW k, NEW r, Rec(r),
         Enter(h, op, s, [key |-> k, copy |-> r])
  PROVE  ReqIs(h, op, k, "none", r) /\ req[h].op = "idle"
<1>1. PICK fields : fields = [key |-> k, copy |-> r]
  OBVIOUS
<1>2. "op" \notin DOMAIN fields /\ "key" \in DOMAIN fields /\ "field" \notin DOMAIN fields
      /\ "copy" \in DOMAIN fields /\ fields["key"] = k /\ fields["copy"] = r
  BY <1>1
<1> QED BY <1>1, <1>2, EnterIs

LEMMA GotoIs ==
  ASSUME ReqShape, NEW h \in Handler, NEW op, Goto(h, op)
  PROVE  ReqIs(h, op, req[h].key, req[h].field, req[h].copy)
<1>1. PICK r : r = [req[h] EXCEPT !.op = op]
  OBVIOUS
<1>2. req' = [g \in Handler |-> IF g = h THEN r ELSE req[g]]
  BY <1>1 DEF Goto, ReqShape
<1>3. /\ {"op", "key", "field", "copy"} \subseteq DOMAIN r
      /\ r.op = op /\ r.key = req[h].key /\ r.field = req[h].field /\ r.copy = req[h].copy
  BY <1>1 DEF ReqShape
<1>4. ReqShape'
  BY <1>2, <1>3 DEF ReqShape, Rec
<1> QED BY <1>2, <1>3, <1>4 DEF ReqIs

LEMMA AnswerIs ==
  ASSUME ReqShape, NEW h \in Handler, NEW promise, Answer(h, promise)
  PROVE  ReqIs(h, "idle", NoKey, "none", Blank)
<1>1. req' = [g \in Handler |-> IF g = h THEN Idle ELSE req[g]]
  BY DEF Answer, ReqShape
<1>2. ReqShape'
  BY <1>1, IdleShape DEF ReqShape, Rec
<1> QED BY <1>1, <1>2, IdleShape DEF ReqIs

(* The contents that are written.                                           *)
LEMMA PutNewContents ==
  ASSUME ContentsTold, Stay, NEW k, NEW content, \A x \in content : Good(x), PutNew(k, content)
  PROVE  ContentsTold'
<1>1. PICK m \in FreshMap : /\ Put(k, [status |-> "available", map |-> m])
                            /\ maps' = [maps EXCEPT ![m] = content]
  BY DEF PutNew
<1>2. m \in Map
  BY <1>1 DEF FreshMap, Unused
<1>3. maps' = [n \in Map |-> IF n = m THEN content ELSE maps[n]]
  BY <1>1, <1>2 DEF ContentsTold
<1>4. \A n \in Map : \A x \in maps'[n] : Good(x)'
  BY <1>3, Staying DEF ContentsTold
<1>5. \A l \in DOMAIN store' : Rec(store'[l])
  BY <1>1, <1>2 DEF ContentsTold, Put, Over, Only, Rec
<1> QED BY <1>3, <1>4, <1>5 DEF ContentsTold, Rec

LEMMA PutContents ==
  ASSUME ContentsTold, Stay, NEW k, NEW r, Rec(r), Put(k, r), maps' = maps
  PROVE  ContentsTold'
<1>1. \A n \in Map : \A x \in maps'[n] : Good(x)'
  BY Staying DEF ContentsTold
<1>2. \A l \in DOMAIN store' : Rec(store'[l])
  BY DEF ContentsTold, Put, Over, Only, Rec
<1> QED BY <1>1, <1>2 DEF ContentsTold, Rec

LEMMA PutBareContents ==
  ASSUME ContentsTold, Stay, NEW k, PutBare(k)
  PROVE  ContentsTold'
  BY PutContents DEF PutBare, Rec

LEMMA WriteContents ==
  ASSUME ContentsTold, Stay, NEW m, NEW content, \A x \in content : Good(x), store' = store,
         maps' = [maps EXCEPT ![m] = @ \cup content]
  PROVE  ContentsTold'
<1>1. maps' = [n \in Map |-> IF n = m THEN maps[n] \cup content ELSE maps[n]]
  BY DEF ContentsTold
<1>2. \A n \in Map : \A x \in maps'[n] : Good(x)'
  BY <1>1, Staying DEF ContentsTold
<1> QED BY <1>1, <1>2 DEF ContentsTold, Rec

LEMMA PutCopyContents ==
  ASSUME ContentsTold, ReqShape, Stay, NEW h \in Handler, NEW content, \A x \in content : Good(x), PutCopy(h, content)
  PROVE  ContentsTold'
<1>0. Rec(req[h].copy)
  BY DEF ReqShape
<1>1. PICK m \in Map : /\ maps' = [maps EXCEPT ![m] = content]
                       /\ Put(req[h].key, [req[h].copy EXCEPT !.map = m])
  BY <1>0 DEF PutCopy, FreshMap, Unused, Rec
<1>2. maps' = [n \in Map |-> IF n = m THEN content ELSE maps[n]]
  BY <1>1 DEF ContentsTold
<1>3. \A n \in Map : \A x \in maps'[n] : Good(x)'
  BY <1>2, Staying DEF ContentsTold
<1>4. Rec([req[h].copy EXCEPT !.map = m])
  BY <1>0 DEF Rec
<1>5. \A l \in DOMAIN store' : Rec(store'[l])
  BY <1>1, <1>4 DEF ContentsTold, Put, Over, Only, Rec
<1> QED BY <1>2, <1>3, <1>5 DEF ContentsTold, Rec

LEMMA DeleteContents ==
  ASSUME ContentsTold, Stay, NEW k, Delete(k)
  PROVE  ContentsTold'
<1>1. \A n \in Map : maps'[n] = {} \/ maps'[n] = maps[n]
  BY DEF Delete
<1>2. \A n \in Map : \A x \in maps'[n] : Good(x)'
  BY <1>1, Staying DEF ContentsTold
<1>3. \A l \in DOMAIN store' : l \in DOMAIN store /\ store'[l] = store[l]
  BY DEF Delete, Without, Restrict
<1>4. maps' = [m \in Map |-> maps'[m]]
  BY DEF Delete
<1> QED BY <1>2, <1>3, <1>4 DEF ContentsTold, Rec

(* The maps of clusters and instances.                                      *)
LEMMA ApartAsks ==
  ASSUME MapsApart, NEW h \in Handler, NEW op, NEW key, NEW field, NEW copy, ReqIs(h, op, key, field, copy),
         UNCHANGED <<store, maps>>,
         \/ copy.map = NilMap
         \/ key = req[h].key /\ copy = req[h].copy
         \/ key \in DOMAIN store /\ copy = store[key]
  PROVE  MapsApart'
<1>1. copy.map # NilMap => Points(copy)
  BY DEF MapsApart
<1>2. \A k \in DOMAIN store : copy.map = store[k].map => key = k
  BY RecordStoreAssumption DEF MapsApart, Points
<1>3. \A g \in Handler : req[g].copy.map = copy.map /\ copy.map # NilMap => req[g].key = key
  BY DEF MapsApart
<1>4. \A g \in Handler : req'[g].copy.map # NilMap => Points(req[g].copy)'
  BY <1>1 DEF ReqIs, MapsApart, Points, Apart
<1>5. \A k \in DOMAIN store, g \in Handler : req'[g].copy.map = store[k].map => req'[g].key = k
  BY <1>2 DEF ReqIs, MapsApart
<1>6. \A f, g \in Handler : req'[f].copy.map = req'[g].copy.map /\ req'[g].copy.map # NilMap =>
                              req'[f].key = req'[g].key
  BY <1>3 DEF ReqIs, MapsApart
<1>7. \A k \in DOMAIN store : Points(store[k])'
  BY DEF MapsApart, Points, Apart
<1> QED BY <1>4, <1>5, <1>6, <1>7 DEF MapsApart

\* The record is new, and so is its map.
LEMMA ApartPutNew ==
  ASSUME MapsApart, maps = [m \in Map |-> maps[m]], NEW h \in Handler, NEW op, NEW key, NEW field, NEW copy,
         ReqIs(h, op, key, field, copy), copy.map = NilMap \/ (key = req[h].key /\ copy = req[h].copy),
         NEW k, NEW c \in Container, Apart(c), PutNew(k, {c})
  PROVE  MapsApart'
<1>1. PICK m \in FreshMap : /\ Put(k, [status |-> "available", map |-> m])
                            /\ maps' = [maps EXCEPT ![m] = {c}]
  BY DEF PutNew
<1>2. /\ m \in Map /\ m # NilMap
      /\ \A l \in DOMAIN store : store[l].map # m
      /\ \A g \in Handler : req[g].copy.map # m
  BY <1>1, RecordStoreAssumption DEF FreshMap, Unused
<1>3. maps'[m] = {c} /\ \A n \in Map \ {m} : maps'[n] = maps[n]
  BY <1>1, <1>2
<1>4. /\ DOMAIN store' = DOMAIN store \cup {k} /\ store'[k].map = m
      /\ \A l \in DOMAIN store \ {k} : store'[l] = store[l]
  BY <1>1 DEF Put, Over, Only
<1>5. \A r : Points(r) /\ r.map # m => Points(r)'
  BY <1>3 DEF Points, Apart
<1>6. Points(store[k])'
  BY <1>2, <1>3, <1>4 DEF Points, Apart
<1>7. \A l \in DOMAIN store \ {k} : Points(store[l])'
  <2> TAKE l \in DOMAIN store \ {k}
  <2>1. PICK r : r = store[l]
    OBVIOUS
  <2>2. Points(r)'
    BY <1>2, <1>5, <2>1 DEF MapsApart
  <2> QED BY <1>4, <2>1, <2>2 DEF Points, Apart
<1>8. \A g \in Handler : req'[g].copy.map # NilMap => req'[g].copy = req[g].copy /\ req'[g].key = req[g].key
  BY DEF ReqIs
<1>9. \A g \in Handler : req'[g].copy.map # m
  BY <1>2, <1>8
<1>10. \A g \in Handler : req'[g].copy.map # NilMap => Points(req[g].copy)'
  <2> TAKE g \in Handler
  <2> HAVE req'[g].copy.map # NilMap
  <2>1. PICK r : r = req[g].copy
    OBVIOUS
  <2>2. Points(r)'
    BY <1>2, <1>5, <1>8, <2>1 DEF MapsApart
  <2> QED BY <1>8, <2>1, <2>2 DEF Points, Apart
<1>11. \A l \in DOMAIN store', g \in Handler : req'[g].copy.map = store'[l].map => req'[g].key = l
  <2> TAKE l \in DOMAIN store', g \in Handler
  <2> HAVE req'[g].copy.map = store'[l].map
  <2>1. l # k /\ store'[l] = store[l] /\ l \in DOMAIN store
    BY <1>4, <1>9
  <2>2. req'[g].copy.map # NilMap
    BY <2>1, RecordStoreAssumption DEF MapsApart, Points
  <2> QED BY <1>8, <2>1, <2>2 DEF MapsApart
<1>12. \A j, l \in DOMAIN store' : store'[j].map = store'[l].map => j = l
  BY <1>2, <1>4 DEF MapsApart
<1>13. \A f, g \in Handler : req'[f].copy.map = req'[g].copy.map /\ req'[g].copy.map # NilMap =>
                              req'[f].key = req'[g].key
  BY <1>8 DEF MapsApart
<1> QED BY <1>4, <1>6, <1>7, <1>10, <1>11, <1>12, <1>13 DEF MapsApart

\* A copy is put back under its key.
LEMMA ApartPut ==
  ASSUME MapsApart, NEW h \in Handler, ReqIs(h, "idle", NoKey, "none", Blank),
         NEW r, r.map = req[h].copy.map, r.map # NilMap, Put(req[h].key, r), maps' = maps
  PROVE  MapsApart'
<1>1. PICK k : k = req[h].key
  OBVIOUS
<1>2. /\ DOMAIN store' = DOMAIN store \cup {k} /\ store'[k] = r
      /\ \A l \in DOMAIN store \ {k} : store'[l] = store[l]
  BY <1>1 DEF Put, Over, Only
<1>3. Points(r)
  BY DEF MapsApart, Points
<1>4. \A g \in Handler : req'[g].copy.map # NilMap => g # h /\ req'[g].copy = req[g].copy /\ req'[g].key = req[g].key
  BY IdleShape DEF ReqIs
<1>5. \A g \in Handler : req'[g].copy.map # NilMap => Points(req[g].copy)'
  BY <1>4 DEF MapsApart, Points, Apart
<1>6. \A l \in DOMAIN store' : Points(store[l])'
  BY <1>2, <1>3 DEF MapsApart, Points, Apart
<1>7. \A l \in DOMAIN store \ {k} : store[l].map # r.map
  BY <1>1 DEF MapsApart
<1>8. \A j, l \in DOMAIN store' : store'[j].map = store'[l].map => j = l
  BY <1>2, <1>7 DEF MapsApart
<1>9. \A l \in DOMAIN store', g \in Handler : req'[g].copy.map = store'[l].map => req'[g].key = l
  <2> TAKE l \in DOMAIN store', g \in Handler
  <2> HAVE req'[g].copy.map = store'[l].map
  <2>1. req'[g].copy.map # NilMap
    BY <1>6, RecordStoreAssumption DEF Points
  <2>2. CASE l = k
    BY <1>1, <1>2, <1>4, <2>1, <2>2 DEF MapsApart
  <2>3. CASE l # k
    BY <1>2, <1>4, <2>1, <2>3 DEF MapsApart
  <2> QED BY <2>2, <2>3
<1>10. \A f, g \in Handler : req'[f].copy.map = req'[g].copy.map /\ req'[g].copy.map # NilMap =>
                              req'[f].key = req'[g].key
  BY <1>4 DEF MapsApart
<1> QED BY <1>5, <1>6, <1>8, <1>9, <1>10 DEF MapsApart

\* Only the map that goes with the record is forgotten.
LEMMA ApartDelete ==
  ASSUME MapsApart, NEW h \in Handler, ReqIs(h, "idle", NoKey, "none", Blank), NEW k, Delete(k)
  PROVE  MapsApart'
<1>1. /\ \A l \in DOMAIN store' : l \in DOMAIN store /\ l # k /\ store'[l] = store[l]
      /\ \A m \in Map : maps'[m] = maps[m] \/
                        (k \in DOMAIN store /\ store[k].map = m /\ \A g \in Handler : req[g].copy.map # m)
  BY DEF Delete, Without, Restrict
<1>2. \A l \in DOMAIN store' : maps'[store[l].map] = maps[store[l].map] /\ Points(store[l])
  BY <1>1 DEF MapsApart, Points
<1>3. \A l \in DOMAIN store' : Points(store[l])'
  BY <1>1, <1>2 DEF Points, Apart
<1>4. \A g \in Handler : req'[g].copy.map # NilMap => req'[g].copy = req[g].copy /\ req'[g].key = req[g].key
  BY IdleShape DEF ReqIs
<1>5. \A g \in Handler : req'[g].copy.map # NilMap => Points(req[g].copy)'
  BY <1>1, <1>4 DEF MapsApart, Points, Apart
<1>6. \A j, l \in DOMAIN store' : store'[j].map = store'[l].map => j = l
  BY <1>1 DEF MapsApart
<1>7. \A l \in DOMAIN store', g \in Handler : req'[g].copy.map = store'[l].map => req'[g].key = l
  <2> TAKE l \in DOMAIN store', g \in Handler
  <2> HAVE req'[g].copy.map = store'[l].map
  <2>1. req'[g].copy.map # NilMap
    BY <1>3, RecordStoreAssumption DEF Points
  <2> QED BY <1>1, <1>4, <2>1 DEF MapsApart
<1>8. \A f, g \in Handler : req'[f].copy.map = req'[g].copy.map /\ req'[g].copy.map # NilMap =>
                              req'[f].key = req'[g].key
  BY <1>4 DEF MapsApart
<1> QED BY <1>3, <1>5, <1>6, <1>7, <1>8 DEF MapsApart
-----------------------------------------------------------------------------
(* A step of a request while the services serve.                            *)
Serving(h) == /\ PortsInv /\ AllTold /\ h \in Handler
              /\ server.pc = "serving" /\ server'.pc = "serving"
              /\ UNCHANGED <<published, sharedPort, workload>>

LEMMA OthersKnow ==
  ASSUME NEW h, Serving(h), NEW g \in Handler, job'[g] = job[g],
         req'[g].op = req[g].op, req'[g].field = req[g].field, req'[g].copy = req[g].copy,
         workload \in {"rds", "snapshots"} => DOMAIN backends \subseteq DOMAIN backends'
  PROVE  Knowing(g)'
  BY DEF Serving, AllTold, Knowing, At, InPhase

LEMMA EnginesServe ==
  ASSUME NEW h, Serving(h), Stay, \A q \in Runner \ {h} : job'[q] = job[q], JobTold(h)', RegistryTold',
         workload \in {"caches", "replication", "memorystore"} => backends' = backends
  PROVE  EnginesTold'
<1>1. \A q \in Runner : JobTold(q)'
  BY JobTells DEF Serving, AllTold, EnginesTold
<1>2. ServerTold'
  BY DEF Serving, ServerTold
<1>3. AddressesTold'
  BY AddressesTell DEF Serving, AllTold, EnginesTold
<1>4. InOrder'
  BY DEF Serving, AllTold, EnginesTold, InOrder, RedisTold
<1> QED BY <1>1, <1>2, <1>3, <1>4 DEF EnginesTold

\* The engines are not touched at all.
LEMMA EnginesRest ==
  ASSUME NEW h, Serving(h), UNCHANGED <<containers, job, backends>>
  PROVE  Stay /\ EnginesTold'
<1>1. Stay
  BY StandingStill DEF Serving
<1>2. JobTold(h)' /\ RegistryTold'
  BY <1>1, JobTells, RegistryTells, Constants DEF Serving, AllTold, EnginesTold
<1> QED BY <1>1, <1>2, EnginesServe

\* A request that only looks.
LEMMA Looks ==
  ASSUME NEW h, Serving(h), UNCHANGED <<containers, job, backends, store, maps, req>>
  PROVE  AllTold'
<1>1. Stay /\ EnginesTold'
  BY EnginesRest
<1>2. RecordsTold'
  BY <1>1, RecordsTell DEF Serving, AllTold
<1>3. \A g \in Handler : Knowing(g)'
  BY OthersKnow DEF Serving, AllTold
<1> QED BY <1>1, <1>2, <1>3 DEF AllTold

(* The services whose instances are records over an engine.                 *)
DataStep(h) == Serving(h) /\ workload \notin {"clusters", "gce"} /\ UNCHANGED <<containers, job, backends>>

\* At these places a handler needs what it has found before.
Needy == {"getOrCreateBackend", "initBackend", "putDBInstance", "insertSqlInstance"}

LEMMA KnowsEnough ==
  ASSUME NEW h, Serving(h), workload \notin {"clusters", "gce"},
         NEW op, op \notin Needy, NEW key, NEW field, NEW copy, ReqIs(h, op, key, field, copy)
  PROVE  Knowing(h)'
  BY DEF Serving, Knowing, Needy, ReqIs, At

LEMMA DataGoes ==
  ASSUME NEW h, DataStep(h), ContentsTold', NEW op, NEW key, NEW field, NEW copy, ReqIs(h, op, key, field, copy),
         op \in Needy => Knowing(h)'
  PROVE  AllTold'
<1>1. Stay /\ EnginesTold'
  BY EnginesRest DEF DataStep
<1>2. RecordsTold'
  BY DEF RecordsTold, DataStep, Serving, ReqIs
<1>3. Knowing(h)'
  BY KnowsEnough DEF DataStep
<1>4. \A g \in Handler \ {h} : Knowing(g)'
  BY OthersKnow DEF DataStep, ReqIs
<1> QED BY <1>1, <1>2, <1>3, <1>4 DEF AllTold

LEMMA DataNow ==
  ASSUME NEW h, DataStep(h)
  PROVE  /\ ReqShape /\ ContentsTold /\ Stay /\ h \in Handler /\ Knowing(h) /\ EnginesTold
         /\ UNCHANGED <<store, maps>> => ContentsTold'
<1>1. ReqShape /\ ContentsTold /\ h \in Handler /\ Knowing(h) /\ EnginesTold
  BY DEF DataStep, Serving, AllTold, RecordsTold
<1>2. Stay
  BY EnginesRest DEF DataStep
<1>3. UNCHANGED <<store, maps>> => ContentsTold'
  BY <1>1, <1>2, Staying DEF ContentsTold, Rec
<1> QED BY <1>1, <1>2, <1>3

LEMMA ShowsTells ==
  ASSUME NEW h, DataStep(h), NEW s, Shows(s)
  PROVE  AllTold'
  BY Looks DEF DataStep, Shows

LEMMA BeginTells ==
  ASSUME NEW h, DataStep(h), NEW op, op \notin Needy, NEW s, NEW k, Begin(h, op, s, [key |-> k])
  PROVE  AllTold'
<1>1. ReqIs(h, op, k, "none", Blank)
  BY DataNow, EnterKey DEF Begin
<1> QED BY <1>1, DataNow, DataGoes DEF Begin

LEMMA AnswerTells ==
  ASSUME NEW h, DataStep(h), NEW promise, Answer(h, promise), ContentsTold'
  PROVE  AllTold'
<1>1. ReqIs(h, "idle", NoKey, "none", Blank)
  BY DataNow, AnswerIs
<1>2. "idle" \notin Needy
  BY DEF Needy
<1> QED BY <1>1, <1>2, DataGoes

LEMMA CreateNamedTells ==
  ASSUME NEW h, DataStep(h), NEW op, op \notin Needy, NEW k, CreateNamed(h, op, k)
  PROVE  AllTold'
  BY ShowsTells, BeginTells DEF CreateNamed

LEMMA RemoveNamedTells ==
  ASSUME NEW h, DataStep(h), NEW op, op \notin Needy, NEW k, RemoveNamed(h, op, k)
  PROVE  AllTold'
  BY ShowsTells, BeginTells DEF RemoveNamed

LEMMA InsertNamedTells ==
  ASSUME NEW h, DataStep(h), NEW op, InsertNamed(h, op)
  PROVE  AllTold'
<1>1. ContentsTold'
  BY DataNow, PutBareContents DEF InsertNamed
<1> QED BY <1>1, AnswerTells DEF InsertNamed

LEMMA DropNamedTells ==
  ASSUME NEW h, DataStep(h), NEW op, DropNamed(h, op)
  PROVE  AllTold'
<1>1. ContentsTold'
  BY DataNow, DeleteContents DEF DropNamed
<1> QED BY <1>1, AnswerTells DEF DropNamed

LEMMA InsertOverTells ==
  ASSUME NEW h, DataStep(h), NEW op, NEW e, NEW p, Told(e, p), InsertOver(h, op, e, p)
  PROVE  AllTold'
<1>1. \A x \in Endpoint(e, p) : Good(x)
  BY DEF Endpoint, Good
<1>2. ContentsTold'
  BY <1>1, DataNow, PutNewContents DEF InsertOver
<1> QED BY <1>2, AnswerTells DEF InsertOver

\* What is written into a Spec is no address.
LEMMA WrittenGood == \A x \in Changed \cup Deleting : Good(x)
  BY DEF Changed, Deleting, Good

LEMMA BeginWritingTells ==
  ASSUME NEW h, DataStep(h), NEW op, op \notin Needy, NEW k \in DOMAIN store,
         NEW content \in {Changed, Deleting}, BeginWriting(h, op, k, content)
  PROVE  AllTold'
<1>1. Rec(store[k])
  BY DataNow DEF ContentsTold
<1>2. ReqIs(h, op, k, "none", store[k])
  BY <1>1, DataNow, EnterCopy DEF BeginWriting
<1>3. \A x \in content : Good(x)
  BY WrittenGood
<1>4. ContentsTold'
  BY <1>3, DataNow, WriteContents DEF BeginWriting
<1> QED BY <1>2, <1>4, DataGoes

LEMMA ModifyTells ==
  ASSUME NEW h, DataStep(h), NEW op, op \notin Needy, NEW k, Modify(h, op, k) \/ PutModified(h, op)
  PROVE  AllTold'
<1>1. CASE ~Present(k) /\ Shows({SubjectOf(k)})
  BY <1>1, ShowsTells
<1>2. CASE Present(k) /\ BeginWriting(h, op, k, Changed)
  BY <1>2, BeginWritingTells DEF Present
<1>3. CASE PutModified(h, op)
  <2>1. \A x \in Content(req[h].copy) : Good(x)
    BY DataNow DEF Content, ReqShape, ContentsTold, Rec
  <2>2. ContentsTold'
    BY <1>3, <2>1, DataNow, PutCopyContents DEF PutModified
  <2> QED BY <1>3, <2>2, AnswerTells DEF PutModified
<1> QED BY <1>1, <1>2, <1>3 DEF Modify

\* Cloud SQL refuses an engine that it has no address of.
LEMMA SqlTells ==
  ASSUME NEW h, DataStep(h), workload = "cloudsql", SqlStep(h)
  PROVE  AllTold'
<1>1. CASE insertSqlInstance(h)
  <2>1. "cloudsql" \in DOMAIN sharedPort /\ DOMAIN sharedPort["cloudsql"] \subseteq {"mysql"}
    BY DataNow DEF DataStep, Serving, EnginesTold, InOrder, AddressesTold
  <2>2. ASSUME NEW k, NEW e \in DOMAIN sharedPort["cloudsql"], CreateNamed(h, "insertSqlInstance", k)
        PROVE  AllTold'
    <3>1. CASE Begin(h, "insertSqlInstance", SubjectOf(k), [key |-> k])
      <4>1. ReqIs(h, "insertSqlInstance", k, "none", Blank)
        BY <3>1, DataNow, EnterKey DEF Begin
      <4>2. sharedPort' = sharedPort /\ workload' = "cloudsql" /\ server'.pc = "serving"
        BY DEF DataStep, Serving
      <4>3. Knowing(h)'
        BY <2>1, <2>2, <4>1, <4>2 DEF Knowing, ReqIs, At
      <4> QED BY <3>1, <4>1, <4>3, DataNow, DataGoes DEF Begin
    <3> QED BY <2>2, <3>1, ShowsTells DEF CreateNamed
  <2>3. CASE InsertOver(h, "insertSqlInstance", "mysql", sharedPort["cloudsql"]["mysql"])
    <3>1. "mysql" \in DOMAIN sharedPort["cloudsql"]
      BY <2>3, DataNow DEF InsertOver, Knowing, DataStep
    <3>2. Told("mysql", sharedPort["cloudsql"]["mysql"])
      BY <2>1, <3>1, DataNow DEF EnginesTold, AddressesTold
    <3> QED BY <2>3, <3>2, InsertOverTells
  <2> QED BY <1>1, <2>2, <2>3 DEF insertSqlInstance
<1>2. CASE deleteSqlInstance(h)
  BY <1>2, RemoveNamedTells, DropNamedTells DEF deleteSqlInstance, Needy
<1>3. CASE updateSqlInstance(h)
  BY <1>3, ModifyTells DEF updateSqlInstance, Needy
<1> QED BY <1>1, <1>2, <1>3 DEF SqlStep

\* ElastiCache reads the address when it makes a record.
LEMMA CachesTell ==
  ASSUME NEW h, DataStep(h), \/ workload = "caches" /\ CacheStep(h)
                             \/ workload = "replication" /\ GroupStep(h)
  PROVE  AllTold'
<1>1. Redis \in DOMAIN backends
  BY DataNow DEF DataStep, Serving, EnginesTold, InOrder
<1>2. Runs(backends[Redis], "redis")
  BY <1>1, DataNow DEF EnginesTold, RegistryTold, BackendTold, Redis
<1>3. Told("redis", RedisPort)
  BY <1>2 DEF Told, Runs, RedisPort, PortOf
<1>4. CASE CacheStep(h)
  BY <1>3, <1>4, CreateNamedTells, InsertOverTells, RemoveNamedTells, DropNamedTells, ModifyTells
     DEF CacheStep, createCacheCluster, deleteCacheCluster, modifyCacheCluster, Needy
<1>5. CASE GroupStep(h)
  BY <1>3, <1>5, CreateNamedTells, InsertOverTells, RemoveNamedTells, DropNamedTells
     DEF GroupStep, createReplicationGroup, deleteReplicationGroup, Needy
<1> QED BY <1>4, <1>5

\* Memorystore has copied it.
LEMMA RedisTells ==
  ASSUME NEW h, DataStep(h), workload = "memorystore", RedisStep(h)
  PROVE  AllTold'
<1>1. RedisTold
  BY DataNow DEF DataStep, Serving, EnginesTold, InOrder
<1>2. Told("redis", sharedPort["memorystore"]["redis"])
  BY <1>1, DataNow DEF EnginesTold, AddressesTold, RedisTold
<1> QED BY <1>2, CreateNamedTells, InsertOverTells, RemoveNamedTells, DropNamedTells, ModifyTells
        DEF RedisStep, createRedisInstance, deleteRedisInstance, updateRedisInstance, Needy

(* RDS.                                                                     *)
LEMMA CreateDBTells ==
  ASSUME NEW h, DataStep(h), workload \in {"rds", "snapshots"}, NEW engines \in SUBSET DbEngine, createDBInstance(h, engines)
  PROVE  AllTold'
<1>1. ASSUME NEW k, NEW e \in engines, Begin(h, "getOrCreateBackend", SubjectOf(k), [key |-> k, field |-> e])
      PROVE  AllTold'
  <2>1. ReqIs(h, "getOrCreateBackend", k, e, Blank)
    BY <1>1, DataNow, EnterField DEF Begin
  <2>2. Knowing(h)'
    BY <2>1 DEF Knowing, ReqIs, At, DataStep, Serving
  <2> QED BY <1>1, <2>1, <2>2, DataNow, DataGoes DEF Begin
<1>2. CASE InsertOver(h, "putDBInstance", req[h].field, PortOf(Rds(req[h].field)))
  <2>1. PICK e : e = req[h].field
    OBVIOUS
  <2>2. Rds(e) \in DOMAIN backends
    BY <1>2, <2>1, DataNow DEF InsertOver, Knowing
  <2>3. Runs(backends[Rds(e)], e)
    BY <2>2, DataNow DEF EnginesTold, RegistryTold, BackendTold, Rds
  <2>4. Told(e, PortOf(Rds(e)))
    BY <2>3 DEF Told, Runs, PortOf
  <2> QED BY <1>2, <2>1, <2>4, InsertOverTells
<1> QED BY <1>1, <1>2, ShowsTells DEF createDBInstance

LEMMA DeleteDBTells ==
  ASSUME NEW h, DataStep(h), deleteDBInstance(h)
  PROVE  AllTold'
<1>1. "deleteDBInstance" \notin Needy
  BY DEF Needy
<1> QED BY <1>1, ShowsTells, BeginWritingTells, DropNamedTells DEF deleteDBInstance, Present

LEMMA ModifyDBTells ==
  ASSUME NEW h, DataStep(h), modifyDBInstance(h)
  PROVE  AllTold'
<1>1. "modifyDBInstance" \notin Needy
  BY DEF Needy
<1>2. ASSUME NEW k, maps' = [maps EXCEPT ![store[k].map] = @ \cup Changed], store' = store,
             AtOnce(SubjectOf(k), HalfChanged(k))
      PROVE  AllTold'
  <2>1. ContentsTold'
    BY <1>2, DataNow, WrittenGood, WriteContents
  <2>2. req' = Marked(SubjectOf(k))
    BY <1>2 DEF AtOnce
  <2>3. ReqIs(h, req[h].op, req[h].key, req[h].field, req[h].copy)
    BY <2>2, DataNow, MarkedSame DEF ReqIs, ReqShape, Rec
  <2>4. Knowing(h)'
    BY <2>3, OthersKnow DEF ReqIs, DataStep, Serving
  <2> QED BY <2>1, <2>3, <2>4, DataGoes
<1> QED BY <1>1, <1>2, ModifyTells DEF modifyDBInstance

LEMMA CreateSnapshotTells ==
  ASSUME NEW h, DataStep(h), createDBSnapshot(h)
  PROVE  AllTold'
<1>1. "findSnapshot" \notin Needy /\ "putSnapshot" \notin Needy
  BY DEF Needy
<1>2. CASE Goto(h, "putSnapshot") /\ UNCHANGED <<store, maps>>
  <2>1. ReqIs(h, "putSnapshot", req[h].key, req[h].field, req[h].copy)
    BY <1>2, DataNow, GotoIs
  <2> QED BY <1>1, <1>2, <2>1, DataNow, DataGoes
<1>3. CASE Answer(h, Promised(h)) /\ UNCHANGED <<store, maps>>
  BY <1>3, DataNow, AnswerTells
<1> QED BY <1>1, <1>2, <1>3, BeginTells, ShowsTells, InsertNamedTells DEF createDBSnapshot

LEMMA SnapshotTells ==
  ASSUME NEW h, DataStep(h), workload = "snapshots", SnapshotStep(h)
  PROVE  AllTold'
<1>1. CASE createDBInstance(h, {"mysql"})
  BY <1>1, CreateDBTells DEF DbEngine
<1>2. CASE deleteDBSnapshot(h)
  BY <1>2, RemoveNamedTells, DropNamedTells DEF deleteDBSnapshot, Needy
<1>3. CASE /\ Rds(req[h].field) \in DOMAIN backends
           /\ At(h, "getOrCreateBackend") /\ Goto(h, "putDBInstance") /\ UNCHANGED <<store, maps>>
  <2>1. ReqIs(h, "putDBInstance", req[h].key, req[h].field, req[h].copy)
    BY <1>3, DataNow, GotoIs
  <2>2. req[h].field \in DbEngine
    BY <1>3, DataNow DEF Knowing, At
  <2>3. Knowing(h)'
    BY <1>3, <2>1, <2>2 DEF Knowing, ReqIs, At, DataStep, Serving
  <2> QED BY <1>3, <2>1, <2>3, DataNow, DataGoes
<1> QED BY <1>1, <1>2, <1>3, DeleteDBTells, ModifyDBTells, CreateSnapshotTells DEF SnapshotStep

\* PostgreSQL is registered when it is up, and for as long as the server serves.
LEMMA GetOrCreateTells ==
  ASSUME NEW h, Serving(h), workload = "rds", getOrCreateBackend(h), UNCHANGED containers
  PROVE  AllTold'
<1> USE Constants
<1>0. /\ h \in Handler /\ h \in Runner /\ EngineInv /\ ReqShape /\ ContentsTold /\ Knowing(h) /\ EnginesTold
      /\ Stay /\ UNCHANGED <<store, maps>>
  BY StandingStill DEF Serving, AllTold, RecordsTold, PortsInv, getOrCreateBackend, FindBackend
<1>1. PICK e : e = req[h].field
  OBVIOUS
<1>2. At(h, "getOrCreateBackend") \/ At(h, "initBackend") => e \in DbEngine /\ e \in EngineName /\ e \in Resource
  BY <1>0, <1>1 DEF Knowing, At, Serving, DbEngine, EngineName
<1>3. RecordsTold <=> ReqShape /\ ContentsTold
  BY DEF RecordsTold, Serving
<1>4. ASSUME ReqShape' PROVE RecordsTold'
  BY <1>0, <1>4, Staying DEF RecordsTold, Serving, ContentsTold, Rec
<1>5. ASSUME NEW op, NEW key, NEW field, NEW copy, ReqIs(h, op, key, field, copy), Knowing(h)',
             \A q \in Runner \ {h} : job'[q] = job[q], JobTold(h)', RegistryTold',
             DOMAIN backends \subseteq DOMAIN backends'
      PROVE  AllTold'
  <2>1. EnginesTold'
    BY <1>0, <1>5, EnginesServe DEF Serving
  <2>2. \A g \in Handler \ {h} : Knowing(g)'
    BY <1>5, OthersKnow DEF ReqIs
  <2> QED BY <1>4, <1>5, <2>1, <2>2 DEF AllTold, ReqIs
<1>6. ASSUME EndJob(h)
      PROVE  JobTold(h)' /\ \A q \in Runner \ {h} : job'[q] = job[q]
  <2>1. OnlyJob(h, NoJob)
    BY <1>0, <1>6, EndJobOnly
  <2>2. job'[h] = NoJob /\ \A q \in Runner \ {h} : job'[q] = job[q]
    BY <1>0, <2>1 DEF OnlyJob
  <2> QED BY <2>2 DEF JobTold, NoJob, GoesDown, EngineName
<1>7. CASE At(h, "getOrCreateBackend") /\ Rds(e) \in DOMAIN backends /\ Goto(h, "putDBInstance") /\ UNCHANGED <<job, backends>>
  <2>1. ReqIs(h, "putDBInstance", req[h].key, e, req[h].copy)
    BY <1>0, <1>1, <1>7, GotoIs
  <2>2. Knowing(h)'
    BY <1>2, <1>7, <2>1 DEF Knowing, ReqIs, At, Serving
  <2>3. EnginesTold'
    BY <1>0, <1>7, EnginesRest
  <2>4. \A g \in Handler \ {h} : Knowing(g)'
    BY <1>7, <2>1, OthersKnow DEF ReqIs
  <2> QED BY <1>4, <2>1, <2>2, <2>3, <2>4 DEF AllTold, ReqIs
<1>8. CASE /\ At(h, "getOrCreateBackend") /\ Goto(h, "initBackend") /\ UNCHANGED backends
           /\ TakeJob(h, "make", req[h].field, "allocate", NoContainer)
  <2>1. ReqIs(h, "initBackend", req[h].key, e, req[h].copy)
    BY <1>0, <1>1, <1>8, GotoIs
  <2>2. OnlyJob(h, NewJob("make", e, "allocate", NoContainer))
    BY <1>0, <1>1, <1>2, <1>8, TakeJobOnly
  <2>3. job'[h].name = e /\ job'[h].phase = "allocate" /\ \A q \in Runner \ {h} : job'[q] = job[q]
    BY <1>0, <2>2 DEF OnlyJob, NewJob
  <2>4. JobTold(h)' /\ RegistryTold'
    BY <1>0, <1>8, <2>3, RegistryTells DEF JobTold, GoesDown, Serving, EnginesTold
  <2>5. Knowing(h)'
    BY <1>2, <1>8, <2>1, <2>3 DEF Knowing, ReqIs, At, Serving
  <2> QED BY <1>5, <1>8, <2>1, <2>3, <2>4, <2>5
<1>9. CASE At(h, "initBackend") /\ BackendReady(h) /\ EndJob(h)
  <2>1. ReqIs(h, "putDBInstance", req[h].key, e, req[h].copy)
    BY <1>0, <1>1, <1>9, GotoIs DEF BackendReady
  <2>2. PICK c : c = job[h].container
    OBVIOUS
  <2>3. job[h].name = e
    BY <1>0, <1>1, <1>9 DEF Knowing, Serving
  <2>4. Runs(c, e)
    BY <1>0, <1>2, <1>9, <2>2, <2>3 DEF EnginesTold, JobTold, BackendReady, InPhase, Runs
  <2>5. Register(<<"rds", e>>, c)
    BY <1>1, <1>9, <2>2 DEF BackendReady, Rds
  <2>6. RegistryTold' /\ DOMAIN backends' = DOMAIN backends \cup {<<"rds", e>>}
    BY <1>0, <2>4, <2>5, RegisterTells DEF EnginesTold, Serving
  <2>7. Knowing(h)'
    BY <1>2, <1>9, <2>1, <2>6 DEF Knowing, ReqIs, At, Serving, Rds
  <2> QED BY <1>5, <1>6, <1>9, <2>1, <2>6, <2>7
<1>10. CASE BackendFailed(h) /\ EndJob(h)
  <2>1. ReqIs(h, "idle", NoKey, "none", Blank) /\ backends' = backends
    BY <1>0, <1>10, AnswerIs DEF BackendFailed
  <2>2. Knowing(h)'
    BY <2>1, KnowsEnough DEF Needy
  <2>3. RegistryTold'
    BY <1>0, <2>1, RegistryTells DEF EnginesTold, Serving
  <2> QED BY <1>5, <1>6, <1>10, <2>1, <2>2, <2>3
<1> QED BY <1>1, <1>7, <1>8, <1>9, <1>10 DEF getOrCreateBackend, FindBackend

(* Clusters and instances: what is taken down is theirs.                    *)
ApartStep(h) == Serving(h) /\ workload \in {"clusters", "gce"}

LEMMA ApartNow ==
  ASSUME NEW h, ApartStep(h)
  PROVE  /\ ReqShape /\ ContentsTold /\ MapsApart /\ EnginesTold /\ EngineInv
         /\ h \in Handler /\ h \in Runner /\ Knowing(h) /\ JobTold(h) /\ job[h].name \notin EngineName
         /\ UNCHANGED containers => Stay
  BY Constants, StandingStill DEF ApartStep, Serving, AllTold, RecordsTold, EnginesTold, PortsInv, JobTold

LEMMA ApartGoes ==
  ASSUME NEW h, ApartStep(h), Stay, \A q \in Runner \ {h} : job'[q] = job[q], JobTold(h)', RegistryTold',
         ContentsTold', MapsApart', NEW op, NEW key, NEW field, NEW copy, ReqIs(h, op, key, field, copy),
         workload = "clusters" /\ op = "deleteCluster" => InPhase(h, "idle")',
         workload = "gce" /\ op \in {"startInstance", "stopInstance"} => copy.map # NilMap
  PROVE  AllTold'
<1>1. EnginesTold'
  BY EnginesServe DEF ApartStep
<1>2. RecordsTold'
  BY DEF RecordsTold, ReqIs
<1>3. Knowing(h)'
  BY DEF Knowing, ReqIs, At, ApartStep, Serving
<1>4. \A g \in Handler \ {h} : Knowing(g)'
  BY OthersKnow, Constants DEF ApartStep, ReqIs
<1> QED BY <1>1, <1>2, <1>3, <1>4 DEF AllTold

\* The job becomes j, which will take down only what is apart.
LEMMA ApartJob ==
  ASSUME NEW h, ApartStep(h), NEW j, OnlyJob(h, j), j.name \notin EngineName,
         j.phase \notin {"wait", "ready"}, j.phase \in GoesDown => Apart(j.container)
  PROVE  JobTold(h)' /\ job'[h] = j /\ \A q \in Runner \ {h} : job'[q] = job[q]
<1>1. job'[h] = j /\ \A q \in Runner \ {h} : job'[q] = job[q]
  BY ApartNow DEF OnlyJob
<1>2. JobTold(h)'
  BY <1>1 DEF JobTold, Apart
<1> QED BY <1>1, <1>2

LEMMA ApartEnds ==
  ASSUME NEW h, ApartStep(h), EndJob(h)
  PROVE  JobTold(h)' /\ \A q \in Runner \ {h} : job'[q] = job[q]
<1>1. OnlyJob(h, NoJob)
  BY ApartNow, EndJobOnly
<1> QED BY <1>1, ApartJob DEF NoJob, GoesDown, EngineName

LEMMA ApartTakes ==
  ASSUME NEW h, ApartStep(h), NEW kind, NEW n \in ClusterName \cup GceName, NEW phase, NEW c,
         TakeJob(h, kind, n, phase, c), phase \notin {"start", "wait", "ready"}, phase \in GoesDown => Apart(c)
  PROVE  JobTold(h)' /\ InPhase(h, phase)' /\ \A q \in Runner \ {h} : job'[q] = job[q]
<1>1. n \in Resource /\ n \notin EngineName
  BY BackendsAssumption
<1>2. PICK j : j = NewJob(kind, n, phase, c)
  OBVIOUS
<1>3. OnlyJob(h, j)
  BY <1>1, <1>2, ApartNow, TakeJobOnly
<1>4. j.name = n /\ j.phase = phase /\ j.container = c
  BY <1>2 DEF NewJob
<1> QED BY <1>1, <1>3, <1>4, ApartJob DEF InPhase

LEMMA ApartTo ==
  ASSUME NEW h, ApartStep(h), NEW p, To(h, p), p \notin {"allocate", "create", "start", "wait", "ready"},
         p \in GoesDown => Apart(job[h].container)
  PROVE  JobTold(h)' /\ \A q \in Runner \ {h} : job'[q] = job[q]
<1>1. PICK j : j = [kind |-> job[h].kind, name |-> job[h].name, phase |-> p,
                    port |-> job[h].port, container |-> job[h].container]
  OBVIOUS
<1>2. OnlyJob(h, j)
  BY <1>1, ApartNow, ToOnly
<1>3. j.name = job[h].name /\ j.phase = p /\ j.container = job[h].container
  BY <1>1
<1> QED BY <1>2, <1>3, ApartNow, ApartJob

\* The container that a record names.
LEMMA ItsContainer ==
  ASSUME NEW h, ApartStep(h), NEW k \in DOMAIN store
  PROVE  /\ Apart(ContainerOf(store[k])) /\ Apart(GceContainer(store[k]))
         /\ Rec(store[k]) /\ store[k].map # NilMap
<1>1. Points(store[k]) /\ Rec(store[k])
  BY ApartNow DEF MapsApart, ContentsTold
<1>2. PICK c \in Container : maps[store[k].map] = {c} /\ Apart(c)
  BY <1>1 DEF Points
<1>3. store[k].map # NilMap
  BY <1>1, RecordStoreAssumption DEF Points
<1>4. Content(store[k]) = {c}
  BY <1>2, <1>3 DEF Content
<1>5. ContainerOf(store[k]) = c /\ GceContainer(store[k]) = c
  BY <1>4 DEF ContainerOf, GceContainer
<1> QED BY <1>1, <1>2, <1>3, <1>5

\* A container that has come up for a handler.
LEMMA ComesUp ==
  ASSUME NEW h, ApartStep(h), InPhase(h, "ready")
  PROVE  /\ job[h].container \in Container /\ Apart(job[h].container)
         /\ \A x \in {job[h].container} : Good(x)
  BY ApartNow DEF JobTold, InPhase, Apart, Good, NameOf, EngineName

LEMMA ApartAnswers ==
  ASSUME NEW h, ApartStep(h), Stay, EndJob(h), NEW promise, Answer(h, promise), RegistryTold',
         ContentsTold', ReqIs(h, "idle", NoKey, "none", Blank) => MapsApart'
  PROVE  AllTold'
<1>1. ReqIs(h, "idle", NoKey, "none", Blank)
  BY ApartNow, AnswerIs
<1> QED BY <1>1, ApartEnds, ApartGoes

LEMMA ApartSame ==
  ASSUME NEW h, ApartStep(h), Stay, UNCHANGED <<store, maps>>
  PROVE  ContentsTold'
  BY ApartNow, Staying DEF ContentsTold, Rec

LEMMA MakeClusterTells ==
  ASSUME NEW h, ApartStep(h), workload = "clusters", NEW keys, keys \subseteq ClusterKeys,
         MakeCluster(h, keys), UNCHANGED containers
  PROVE  AllTold'
<1>0. /\ ReqShape /\ ContentsTold /\ MapsApart /\ EnginesTold /\ h \in Handler /\ Stay
      /\ backends' = backends => RegistryTold'
  BY ApartNow, RegistryTells DEF ApartStep, Serving, EnginesTold
<1>1. CASE (\E k \in keys : Shows({SubjectOf(k)})) /\ UNCHANGED <<job, backends>>
  BY <1>1, Looks DEF ApartStep, Shows
<1>2. ASSUME NEW k \in keys, Begin(h, "createCluster", SubjectOf(k), [key |-> k]),
             TakeJob(h, "make", ContainerName(k), "allocate", NoContainer), UNCHANGED backends
      PROVE  AllTold'
  <2>1. ReqIs(h, "createCluster", k, "none", Blank) /\ UNCHANGED <<store, maps>>
    BY <1>0, <1>2, EnterKey DEF Begin
  <2>2. ContainerName(k) \in ClusterName /\ "allocate" \notin GoesDown
    BY ClusterNames DEF GoesDown
  <2>3. JobTold(h)' /\ \A q \in Runner \ {h} : job'[q] = job[q]
    BY <1>2, <2>2, ApartTakes
  <2>4. ContentsTold' /\ MapsApart'
    BY <1>0, <2>1, ApartSame, ApartAsks, IdleShape
  <2> QED BY <1>0, <1>2, <2>1, <2>3, <2>4, ApartGoes DEF ApartStep
<1>3. CASE Answer(h, Promised(h)) /\ EndJob(h) /\ UNCHANGED <<store, maps, backends>>
  <2>1. ContentsTold'
    BY <1>0, <1>3, ApartSame
  <2>2. ReqIs(h, "idle", NoKey, "none", Blank) => MapsApart'
    BY <1>0, <1>3, ApartAsks, IdleShape
  <2> QED BY <1>0, <1>3, <2>1, <2>2, ApartAnswers
<1>4. CASE /\ InPhase(h, "ready") /\ PutNew(Key(h), {job[h].container})
           /\ Goto(h, "register") /\ UNCHANGED <<job, backends>>
  <2>1. ReqIs(h, "register", req[h].key, req[h].field, req[h].copy)
    BY <1>0, <1>4, GotoIs
  <2>2. PICK c \in Container : c = job[h].container
    BY <1>4, ComesUp
  <2>3. Apart(c) /\ \A x \in {c} : Good(x)
    BY <1>4, <2>2, ComesUp
  <2>6. maps = [m \in Map |-> maps[m]]
    BY <1>0 DEF ContentsTold
  <2>4. ContentsTold' /\ MapsApart'
    BY <1>0, <1>4, <2>1, <2>2, <2>3, <2>6, PutNewContents, ApartPutNew
  <2>5. JobTold(h)'
    BY <1>0, <1>4, ApartNow, JobTells DEF ApartStep, Serving
  <2> QED BY <1>0, <1>4, <2>1, <2>4, <2>5, ApartGoes
<1>5. CASE /\ At(h, "register") /\ Key(h) \in keys /\ UNCHANGED <<store, maps>>
           /\ Register(BackendOf(Key(h)), job[h].container)
           /\ Answer(h, Record(Key(h), {job[h].container})) /\ EndJob(h)
  <2>1. InPhase(h, "ready")
    BY <1>0, <1>5 DEF ApartStep, Serving, PortsInv, Asking
  <2>2. PICK b : b = BackendOf(Key(h))
    OBVIOUS
  <2>3. b[1] \in {"eks", "gke"}
    BY <1>5, <2>2 DEF ClusterKeys, EksKeys, GkeKeys, BackendOf, ServiceOf
  <2>4. PICK c : c = job[h].container
    OBVIOUS
  <2>5. Apart(c)
    BY <2>1, <2>4, ComesUp
  <2>6. backends' = [x \in DOMAIN backends \cup {b} |-> IF x = b THEN c ELSE backends[x]]
    BY <1>5, <2>2, <2>4 DEF Register
  <2>7. \A x \in DOMAIN backends' : BackendTold(x)'
    BY <1>0, <2>3, <2>5, <2>6 DEF EnginesTold, RegistryTold, BackendTold, Runs, Stay, Apart
  <2>8. RegistryTold'
    BY <2>7 DEF RegistryTold, ApartStep, Serving
  <2>9. ContentsTold'
    BY <1>0, <1>5, ApartSame
  <2>10. ReqIs(h, "idle", NoKey, "none", Blank) => MapsApart'
    BY <1>0, <1>5, ApartAsks, IdleShape
  <2> QED BY <1>0, <1>5, <2>8, <2>9, <2>10, ApartAnswers
<1> QED BY <1>1, <1>2, <1>3, <1>4, <1>5 DEF MakeCluster

LEMMA UnmakeClusterTells ==
  ASSUME NEW h, ApartStep(h), workload = "clusters", NEW keys, keys \subseteq ClusterKeys,
         UnmakeCluster(h, keys), UNCHANGED containers
  PROVE  AllTold'
<1>0. /\ ReqShape /\ ContentsTold /\ MapsApart /\ EnginesTold /\ h \in Handler /\ h \in Runner /\ Stay
      /\ EngineInv
      /\ backends' = backends => RegistryTold'
  BY ApartNow, RegistryTells DEF ApartStep, Serving, EnginesTold
<1>1. CASE (\E k \in keys : Shows({SubjectOf(k)})) /\ UNCHANGED <<job, backends>>
  BY <1>1, Looks DEF ApartStep, Shows
<1>2. ASSUME NEW k \in keys, k \in DOMAIN store, UNCHANGED backends,
             Begin(h, "deleteCluster", SubjectOf(k), [key |-> k, copy |-> store[k]]),
             TakeJob(h, "unmake", ContainerName(k), "idle", ContainerOf(store[k]))
      PROVE  AllTold'
  <2>1. Rec(store[k]) /\ Apart(ContainerOf(store[k]))
    BY <1>2, ItsContainer
  <2>2. ReqIs(h, "deleteCluster", k, "none", store[k]) /\ UNCHANGED <<store, maps>>
    BY <1>0, <1>2, <2>1, EnterCopy DEF Begin
  <2>3. ContainerName(k) \in ClusterName
    BY ClusterNames
  <2>4. JobTold(h)' /\ InPhase(h, "idle")' /\ \A q \in Runner \ {h} : job'[q] = job[q]
    BY <1>2, <2>1, <2>3, ApartTakes
  <2>5. ContentsTold' /\ MapsApart'
    BY <1>0, <1>2, <2>2, ApartSame, ApartAsks
  <2> QED BY <1>0, <1>2, <2>2, <2>4, <2>5, ApartGoes DEF ApartStep
<1>3. ASSUME Goto(h, "dropCluster"), UNCHANGED <<store, maps>>, RegistryTold',
             JobTold(h)', \A q \in Runner \ {h} : job'[q] = job[q]
      PROVE  AllTold'
  <2>1. ReqIs(h, "dropCluster", req[h].key, req[h].field, req[h].copy)
    BY <1>0, <1>3, GotoIs
  <2>2. ContentsTold' /\ MapsApart'
    BY <1>0, <1>3, <2>1, ApartSame, ApartAsks
  <2> QED BY <1>0, <1>3, <2>1, <2>2, ApartGoes
<1>4. ASSUME NEW b \in DOMAIN backends, b = BackendOf(Key(h)), Key(h) \in keys, Forget(b),
             Goto(h, "dropCluster"), UNCHANGED <<store, maps>>,
             job' = [job EXCEPT ![h].phase = "stop", ![h].container = backends[b]]
      PROVE  AllTold'
  <2>1. b[1] \in {"eks", "gke"}
    BY <1>4 DEF ClusterKeys, EksKeys, GkeKeys, BackendOf, ServiceOf
  <2>2. Apart(backends[b])
    BY <1>0, <1>4, <2>1 DEF EnginesTold, RegistryTold, BackendTold
  <2>3. PICK c : c = backends[b]
    OBVIOUS
  <2>4. PICK j : j = [kind |-> job[h].kind, name |-> job[h].name, phase |-> "stop",
                      port |-> job[h].port, container |-> c]
    OBVIOUS
  <2>5. OnlyJob(h, j) /\ j.name = job[h].name /\ j.phase = "stop" /\ j.container = c
    BY <1>0, <1>4, <2>3, <2>4, JobHasContainer
  <2>6. JobTold(h)' /\ \A q \in Runner \ {h} : job'[q] = job[q]
    BY <2>2, <2>3, <2>5, ApartNow, ApartJob
  <2>7. RegistryTold'
    <3>1. \A x \in DOMAIN backends' : x \in DOMAIN backends /\ backends'[x] = backends[x]
      BY <1>4 DEF Forget, Restrict
    <3>2. \A x \in DOMAIN backends' : BackendTold(x)'
      BY <1>0, <3>1 DEF EnginesTold, RegistryTold, BackendTold, Runs, Stay, Apart
    <3> QED BY <3>2 DEF RegistryTold, ApartStep, Serving
  <2> QED BY <1>3, <1>4, <2>6, <2>7
<1>5. CASE /\ At(h, "deleteCluster") /\ To(h, "stopIt") /\ Goto(h, "dropCluster")
           /\ UNCHANGED <<store, maps, backends>>
  <2>1. InPhase(h, "idle")
    BY <1>5, ApartNow DEF Knowing
  <2>2. Apart(job[h].container)
    BY <2>1, ApartNow DEF JobTold, InPhase, GoesDown
  <2>3. JobTold(h)' /\ \A q \in Runner \ {h} : job'[q] = job[q]
    BY <1>5, <2>2, ApartTo
  <2> QED BY <1>0, <1>3, <1>5, <2>3
<1>6. CASE DropCluster(h, keys)
  <2>1. EndJob(h) /\ Answer(h, Gone) /\ Delete(Key(h)) /\ backends' = backends
    BY <1>6 DEF DropCluster
  <2>2. ContentsTold'
    BY <1>0, <2>1, DeleteContents
  <2>3. ReqIs(h, "idle", NoKey, "none", Blank) => MapsApart'
    BY <1>0, <2>1, ApartDelete
  <2> QED BY <1>0, <2>1, <2>2, <2>3, ApartAnswers
<1> QED BY <1>1, <1>2, <1>3, <1>4, <1>5, <1>6 DEF UnmakeCluster, Present

LEMMA ClusterTells ==
  ASSUME NEW h, Serving(h), workload = "clusters", ClusterStep(h)
  PROVE  AllTold'
<1>1. EksKeys \subseteq ClusterKeys /\ GkeKeys \subseteq ClusterKeys /\ ApartStep(h)
  BY DEF ClusterKeys, ApartStep
<1> QED BY <1>1, MakeClusterTells, UnmakeClusterTells
        DEF ClusterStep, eksCreateCluster, eksDeleteCluster, gkeCreateCluster, gkeDeleteCluster

(* Instances.                                                               *)
LEMMA InstanceTakes ==
  ASSUME NEW h, ApartStep(h), workload = "gce", UNCHANGED <<containers, backends>>, NEW k \in GceKeys,
         NEW op, NEW kind, NEW phase \in {"create", "stopIt", "switch"}, NEW c, TakeJob(h, kind, k[2], phase, c),
         \/ Begin(h, op, SubjectOf(k), [key |-> k]) /\ phase = "create" /\ op = "insertInstance"
         \/ Begin(h, op, SubjectOf(k), [key |-> k, copy |-> store[k]]) /\ k \in DOMAIN store /\ c = GceContainer(store[k])
  PROVE  AllTold'
<1>0. /\ ReqShape /\ ContentsTold /\ MapsApart /\ EnginesTold /\ h \in Handler /\ Stay /\ RegistryTold'
  BY ApartNow, RegistryTells DEF ApartStep, Serving, EnginesTold
<1>1. k[2] \in ClusterName \cup GceName
  BY DEF GceKeys
<1>2. CASE Begin(h, op, SubjectOf(k), [key |-> k]) /\ phase = "create" /\ op = "insertInstance"
  <2>1. ReqIs(h, op, k, "none", Blank) /\ UNCHANGED <<store, maps>>
    BY <1>0, <1>2, EnterKey DEF Begin
  <2>2. phase \notin GoesDown
    BY <1>2 DEF GoesDown
  <2>3. JobTold(h)' /\ \A q \in Runner \ {h} : job'[q] = job[q]
    BY <1>1, <2>2, ApartTakes
  <2>4. ContentsTold' /\ MapsApart'
    BY <1>0, <2>1, ApartSame, ApartAsks, IdleShape
  <2> QED BY <1>0, <1>2, <2>1, <2>3, <2>4, ApartGoes
<1>3. CASE /\ Begin(h, op, SubjectOf(k), [key |-> k, copy |-> store[k]])
           /\ k \in DOMAIN store /\ c = GceContainer(store[k])
  <2>1. Rec(store[k]) /\ Apart(c) /\ store[k].map # NilMap
    BY <1>3, ItsContainer
  <2>2. ReqIs(h, op, k, "none", store[k]) /\ UNCHANGED <<store, maps>>
    BY <1>0, <1>3, <2>1, EnterCopy DEF Begin
  <2>3. JobTold(h)' /\ \A q \in Runner \ {h} : job'[q] = job[q]
    BY <1>1, <2>1, ApartTakes
  <2>4. ContentsTold' /\ MapsApart'
    BY <1>0, <1>3, <2>2, ApartSame, ApartAsks
  <2> QED BY <1>0, <2>1, <2>2, <2>3, <2>4, ApartGoes
<1> QED BY <1>2, <1>3

LEMMA InstanceAnswers ==
  ASSUME NEW h, ApartStep(h), Stay, UNCHANGED <<store, maps, backends>>, EndJob(h), NEW promise, Answer(h, promise)
  PROVE  AllTold'
<1>1. ContentsTold' /\ MapsApart /\ h \in Handler
  BY ApartSame, ApartNow
<1>2. RegistryTold'
  BY ApartNow, RegistryTells DEF ApartStep, Serving, EnginesTold
<1>3. ReqIs(h, "idle", NoKey, "none", Blank) => MapsApart'
  BY <1>1, ApartAsks, IdleShape
<1> QED BY <1>1, <1>2, <1>3, ApartAnswers

LEMMA SwitchedTells ==
  ASSUME NEW h, ApartStep(h), UNCHANGED <<containers, backends>>, workload = "gce",
         NEW op \in {"startInstance", "stopInstance"}, NEW status, NEW promise, Switched(h, op, status, promise)
  PROVE  AllTold'
<1>0. /\ ReqShape /\ ContentsTold /\ MapsApart /\ h \in Handler /\ Stay /\ RegistryTold'
  BY ApartNow, RegistryTells DEF ApartStep, Serving, EnginesTold
<1>1. EndJob(h) /\ Answer(h, promise) /\ maps' = maps /\ Put(req[h].key, [req[h].copy EXCEPT !.status = status])
  BY DEF Switched, Key
<1>2. req[h].copy.map # NilMap /\ Rec(req[h].copy)
  BY ApartNow DEF Switched, Knowing, At, ReqShape
<1>3. PICK r : r = [req[h].copy EXCEPT !.status = status]
  OBVIOUS
<1>4. Rec(r) /\ r.map = req[h].copy.map
  BY <1>2, <1>3 DEF Rec
<1>5. ContentsTold'
  BY <1>0, <1>1, <1>3, <1>4, PutContents
<1>6. ReqIs(h, "idle", NoKey, "none", Blank) => MapsApart'
  BY <1>0, <1>1, <1>2, <1>3, <1>4, ApartPut
<1> QED BY <1>0, <1>1, <1>5, <1>6, ApartAnswers

\* Docker pauses and unpauses only the container of an instance.
LEMMA PauseTells ==
  ASSUME NEW h, ApartStep(h), workload = "gce", Pause(h) \/ Unpause(h), UNCHANGED backends
  PROVE  AllTold'
<1>0. /\ ReqShape /\ MapsApart /\ EnginesTold /\ EngineInv /\ h \in Handler /\ InPhase(h, "switch") /\ UNCHANGED <<store, maps>>
  BY ApartNow DEF Pause, Unpause
<1>1. Apart(job[h].container)
  BY <1>0, ApartNow DEF JobTold, InPhase, GoesDown
<1>2. \E s : UNCHANGED containers \/ SetState(job[h].container, s)
  BY DEF Pause, Unpause, PauseContainer, UnpauseContainer, Fails
<1>3. Stay
  BY <1>0, <1>1, <1>2, DownStays DEF ApartStep, Serving
<1>4. CASE To(h, "switched") /\ UNCHANGED req
  <2>1. ReqIs(h, req[h].op, req[h].key, req[h].field, req[h].copy)
    BY <1>0, <1>4 DEF ReqIs, ReqShape, Rec
  <2>2. JobTold(h)' /\ \A q \in Runner \ {h} : job'[q] = job[q]
    BY <1>4, ApartTo DEF GoesDown
  <2>3. ContentsTold' /\ MapsApart'
    BY <1>0, <1>3, <2>1, ApartSame, ApartAsks
  <2>4. req[h].op \in {"startInstance", "stopInstance"} => req[h].copy.map # NilMap
    BY ApartNow DEF Knowing, ApartStep
  <2>5. RegistryTold'
    BY <1>0, <1>3, RegistryTells DEF ApartStep, Serving, EnginesTold
  <2> QED BY <1>3, <2>1, <2>2, <2>3, <2>4, <2>5, ApartGoes
<1>5. CASE Answer(h, Promised(h)) /\ EndJob(h)
  BY <1>0, <1>3, <1>5, InstanceAnswers
<1> QED BY <1>4, <1>5 DEF Pause, Unpause

LEMMA GceTells ==
  ASSUME NEW h, Serving(h), workload = "gce", GceStep(h)
  PROVE  AllTold'
<1>0. ApartStep(h) /\ backends' = backends
  BY DEF ApartStep, GceStep, registry
<1>1. (\E k \in GceKeys : Shows({SubjectOf(k)})) /\ UNCHANGED <<containers, job>> => AllTold'
  BY <1>0, Looks DEF Shows
<1>2. ASSUME UNCHANGED containers, insertInstance(h)
      PROVE  AllTold'
  <2>1. /\ ReqShape /\ ContentsTold /\ MapsApart /\ EnginesTold /\ h \in Handler /\ Stay /\ RegistryTold'
    BY <1>0, <1>2, ApartNow, RegistryTells DEF ApartStep, Serving, EnginesTold
  <2>2. CASE /\ InPhase(h, "ready") /\ PutNew(Key(h), {job[h].container})
             /\ Answer(h, Record(Key(h), {job[h].container})) /\ EndJob(h)
    <3>1. PICK c \in Container : c = job[h].container
      BY <1>0, <2>2, ComesUp
    <3>2. Apart(c) /\ \A x \in {c} : Good(x)
      BY <1>0, <2>2, <3>1, ComesUp
    <3>3. ContentsTold'
      BY <2>1, <2>2, <3>1, <3>2, PutNewContents
    <3>5. maps = [m \in Map |-> maps[m]]
      BY <2>1 DEF ContentsTold
    <3>4. ReqIs(h, "idle", NoKey, "none", Blank) => MapsApart'
      BY <2>1, <2>2, <3>1, <3>2, <3>5, ApartPutNew, IdleShape
    <3> QED BY <1>0, <2>1, <2>2, <3>3, <3>4, ApartAnswers
  <2>3. CASE Answer(h, Promised(h)) /\ EndJob(h) /\ UNCHANGED <<store, maps>>
    BY <1>0, <2>1, <2>3, InstanceAnswers
  <2> QED BY <1>0, <1>1, <1>2, <2>2, <2>3, InstanceTakes DEF insertInstance
<1>3. ASSUME UNCHANGED containers, deleteInstance(h)
      PROVE  AllTold'
  <2>1. /\ ContentsTold /\ MapsApart /\ h \in Handler /\ Stay /\ RegistryTold'
    BY <1>0, <1>3, ApartNow, RegistryTells DEF ApartStep, Serving, EnginesTold
  <2>2. CASE Delete(Key(h)) /\ Answer(h, Gone) /\ EndJob(h)
    <3>1. ContentsTold'
      BY <2>1, <2>2, DeleteContents
    <3>2. ReqIs(h, "idle", NoKey, "none", Blank) => MapsApart'
      BY <2>1, <2>2, ApartDelete
    <3> QED BY <1>0, <2>1, <2>2, <3>1, <3>2, ApartAnswers
  <2> QED BY <1>0, <1>1, <1>3, <2>2, InstanceTakes DEF deleteInstance, Present
<1>4. ASSUME UNCHANGED containers, startInstance(h) \/ stopInstance(h)
      PROVE  AllTold'
  BY <1>0, <1>1, <1>4, InstanceTakes, SwitchedTells DEF startInstance, stopInstance, Switch, Present
<1> QED BY <1>0, <1>2, <1>3, <1>4, PauseTells DEF GceStep
-----------------------------------------------------------------------------
LEMMA RequestsTell ==
  ASSUME PortsInv, TellingInv, Requests, UNCHANGED workload
  PROVE  TellingInv'
<1> SUFFICES ASSUME Up'
             PROVE  AllTold'
  BY DEF TellingInv
<1>1. PICK h \in Handler : ServiceStep(h)
  BY DEF Requests
<1>2. server'.pc = server.pc
  BY DEF Requests, PortsInv, EngineInv, ServerTypeOK
<1>3. server.pc = "serving"
  BY <1>2 DEF Requests, Running, Up
<1>4. published' = published /\ sharedPort' = sharedPort
  BY <1>1 DEF Requests, ServiceStep, ClusterStep, GceStep, RdsStep, engineVars
<1>5. Serving(h)
  BY <1>2, <1>3, <1>4 DEF Serving, TellingInv, Up
<1>6. workload = "rds" /\ RdsStep(h) => AllTold'
  <2> HAVE workload = "rds" /\ RdsStep(h)
  <2>1. UNCHANGED containers
    BY DEF RdsStep
  <2>2. UNCHANGED <<job, registry>> => DataStep(h)
    BY <1>5, <2>1 DEF DataStep, registry
  <2> QED BY <1>5, <2>1, <2>2, GetOrCreateTells, CreateDBTells, DeleteDBTells DEF RdsStep
<1>7. workload \notin {"clusters", "gce", "rds"} /\ UNCHANGED <<engineVars, registry>> => DataStep(h)
  BY <1>5 DEF DataStep, engineVars, registry
<1> QED BY <1>1, <1>5, <1>6, <1>7, ClusterTells, GceTells, SqlTells, CachesTell, RedisTells, SnapshotTells DEF ServiceStep

LEMMA ReadsTell ==
  ASSUME PortsInv, TellingInv, UNCHANGED <<workload, server, containers, published, job, backends, sharedPort, req, store, maps>>
  PROVE  TellingInv'
<1> SUFFICES ASSUME Up'
             PROVE  AllTold'
  BY DEF TellingInv
<1>1. Stay /\ AllTold
  BY StandingStill DEF TellingInv, Up
<1>2. EnginesTold'
  BY <1>1, JobTells, RegistryTells, AddressesTell
     DEF AllTold, EnginesTold, ServerTold, Current, InOrder, Due, BothDue, RedisTold
<1>3. RecordsTold'
  BY <1>1, RecordsTell DEF AllTold
<1>4. \A h \in Handler : Knowing(h)'
  BY <1>1 DEF AllTold, Knowing, At, InPhase
<1> QED BY <1>2, <1>3, <1>4 DEF AllTold

LEMMA TellingNext == PortsInv /\ TellingInv /\ [Next]_vars => TellingInv'
<1> SUFFICES ASSUME PortsInv, TellingInv, [Next]_vars
             PROVE  TellingInv'
  OBVIOUS
<1>1. CASE ServerStep /\ UNCHANGED workload
  BY <1>1, InitAllTells, ShutdownAllTells DEF ServerStep
<1>2. CASE DockerSteps /\ UNCHANGED workload
  <2>1. server' = server
    BY <1>2 DEF DockerSteps
  <2> QED BY <1>2, <2>1, DockerTells DEF TellingInv, Up
<1>3. CASE Requests /\ UNCHANGED workload
  BY <1>3, RequestsTell
<1>4. CASE Reads /\ UNCHANGED workload
  <2>1. UNCHANGED <<req, store, maps>>
    BY <1>4 DEF Reads, ClusterReads, describeCluster, eksListClusters, getCluster, gkeListClusters,
         GceReads, getInstance, listInstances, RdsReads, describeDBInstances,
         SqlReads, getSqlInstance, listSqlInstances, CacheReads, describeCacheClusters,
         GroupReads, describeReplicationGroups, RedisReads, getRedisInstance, listRedisInstances,
         SnapshotReads, describeDBSnapshots, Shows
  <2> QED BY <1>4, <2>1, ReadsTell DEF Reads, engineVars, registry
<1>5. CASE UNCHANGED vars
  BY <1>5, ReadsTell DEF vars, recVars, engineVars, registry
<1> QED BY <1>1, <1>2, <1>3, <1>4, <1>5 DEF Next

(* As long as the server serves, the endpoint that a record tells is that   *)
(* of an engine that runs, for any number of handlers, names and ports, and *)
(* any order of registration with what the workload needs: no handler gives *)
(* out an engine that failed, and InitAll reads no address before its       *)
(* engine is up (service/*/service.go, service/registry.go).                *)
THEOREM EndpointsAreLive == Spec => []EndpointsLive
<1>1. TellingInv => EndpointsLive
  <2> SUFFICES ASSUME TellingInv, server.pc = "serving", NEW k \in DOMAIN store, NEW x \in Content(store[k]),
                      x[1] \in {"redis", "mysql", "postgres"}
               PROVE  \E c \in Container : Live(c) /\ NameOf(c) = x[1] /\ published[c] = x[2]
    BY DEF EndpointsLive
  <2>1. ContentsTold
    BY DEF TellingInv, Up, AllTold, RecordsTold
  <2>2. Good(x)
    BY <2>1 DEF Content, ContentsTold, Rec
  <2> QED BY <2>2 DEF Good, Told, Runs
<1> QED BY <1>1, PortsInit, PortsNext, TellingInit, TellingNext, PTL DEF Spec

-----------------------------------------------------------------------------
(* Answers.  A handler writes the map that it shares with the store before  *)
(* it puts the record back, registers a backend after it has put the        *)
(* record, and switches a container in between.  AnswersInv says what is so *)
(* meanwhile: the records show what was answered, except for what a request *)
(* that is alone with its name is just writing (Writing), and that is what  *)
(* its answer will say.                                                     *)
Modifiers == {"modifyDBInstance", "updateSqlInstance", "modifyCacheCluster", "updateRedisInstance"}
Switchers == {"startInstance", "stopInstance"}
Snappers  == {"findSnapshot", "putSnapshot", "deleteDBSnapshot"}
Writing   == Modifiers \cup {"deleteDBInstance", "register"}
Reqs      == {"op", "subject", "key", "copy", "read", "field", "arg", "ref", "alone"}

\* A name has one key.  Only instances change their status; a snapshot's map is nil.
Plain(k)  == k = <<k[1], k[2], k[2]>> /\ k[1] # "none" /\ (k[1] = "gce" <=> workload = "gce")
Proper(r) == r = [status |-> r.status, map |-> r.map] /\ r.map \in Map \cup {NilMap}
Filed(k, r) == /\ k[1] # "gce" => r.status = "available"
               /\ k[1] # "snapshot" => r.map # NilMap
               /\ k[1] = "gce" => \E c \in Container : maps[r.map] = {c}

Filing == /\ req = [h \in Handler |-> req[h]] /\ said = [s \in Subject |-> said[s]]
          /\ maps = [m \in Map |-> maps[m]]
          /\ \A k \in DOMAIN store : Plain(k) /\ Proper(store[k]) /\ Filed(k, store[k])

\* Of a request: it has the copy that its operation reads, and the job.
Task(h) ==
  /\ Reqs \subseteq DOMAIN req[h] /\ req[h].alone \in BOOLEAN
  /\ req[h] = Idle \/ (~At(h, "idle") /\ Plain(Key(h)) /\ req[h].subject = SubjectOf(Key(h)))
  /\ Proper(req[h].copy)
  /\ req[h].op \in Modifiers => Key(h)[1] \notin {"gce", "snapshot"} /\ Filed(Key(h), req[h].copy)
  /\ req[h].op \in Switchers => /\ Key(h)[1] = "gce" /\ Filed(Key(h), req[h].copy)
                                /\ job[h].phase \in {"switch", "switched"}
  /\ req[h].op = "register" => InPhase(h, "ready")
  /\ req[h].op \in Snappers => Key(h)[1] = "snapshot"

\* A map belongs to one key.
OneKeyed ==
  /\ \A k, l \in DOMAIN store : store[k].map = store[l].map /\ store[k].map # NilMap => k = l
  /\ \A k \in DOMAIN store, h \in Handler : req[h].copy.map = store[k].map /\ store[k].map # NilMap => Key(h) = k
  /\ \A g, h \in Handler : req[g].copy.map = req[h].copy.map /\ req[g].copy.map # NilMap => Key(g) = Key(h)

\* Who has been alone with a name so far still is.
OneAlone == \A g, h \in Handler : g # h /\ req[g].subject = req[h].subject /\ req[g].subject # Nobody => ~req[g].alone

\* What was promised is so, but for what is being written.
Untold(s)  == said[s] = Unknown \/ \E h \in Busy(s) : ~req[h].alone \/ req[h].op \in Writing
Shown(s)   == Untold(s) \/ said[s] = View(s)

\* What a request that is alone has read, or has written, is so.
UpToDate(h) ==
  req[h].alone =>
    /\ req[h].op \in Modifiers /\ req[h].subject \in Subject /\ Promised(h) # Unknown =>
         Present(Key(h)) /\ store[Key(h)] = req[h].copy /\ Content(req[h].copy) = PromisedContent(h) \cup Changed
    /\ req[h].op \in Switchers => Content(req[h].copy) = {job[h].container}
    /\ req[h].op = "register" => /\ Present(Key(h)) /\ store[Key(h)].status = "available"
                                 /\ Content(store[Key(h)]) = {job[h].container}

AnswersInv == /\ Filing /\ (\A h \in Handler : Task(h)) /\ OneKeyed /\ OneAlone
              /\ (\A s \in Subject : Shown(s)) /\ \A h \in Handler : UpToDate(h)
-----------------------------------------------------------------------------
\* What a handler that has no request has.
LEMMA IdleHas ==
  /\ Reqs \subseteq DOMAIN Idle /\ Idle.op = "idle" /\ Idle.subject = Nobody /\ Idle.alone = TRUE
  /\ Idle.copy = Blank /\ Blank.map = NilMap /\ Proper(Blank)
  /\ "idle" \notin Modifiers \cup Switchers \cup Snappers \cup Writing
  BY DEF Idle, Reqs, Blank, Proper, Modifiers, Switchers, Snappers, Writing

LEMMA NamesDiffer ==
  ASSUME NEW k, Plain(k)
  PROVE  SubjectOf(k) # Nobody /\ \A l : Plain(l) /\ SubjectOf(l) = SubjectOf(k) => l = k
<1>1. SubjectOf(k) # Nobody
  BY DEF Plain, SubjectOf, Nobody
<1>2. ASSUME NEW l, Plain(l), SubjectOf(l) = SubjectOf(k) PROVE l = k
  <2>1. l[1] = k[1] /\ l[2] = k[2]
    BY <1>2 DEF SubjectOf
  <2> QED BY <1>2, <2>1 DEF Plain
<1> QED BY <1>1, <1>2

\* Nobody's records are none.
LEMMA NothingListed ==
  ASSUME Filing
  PROVE  Listed(Nobody) = {} /\ View(Nobody) = Gone
<1>1. Listed(Nobody) = {}
  BY NamesDiffer DEF Filing, Listed
<1> QED BY <1>1 DEF View, Gone

\* The view of a key's name.
LEMMA OneListed ==
  ASSUME Filing, NEW k, Plain(k)
  PROVE  /\ Present(k) => View(SubjectOf(k)) = Only(k, [status |-> store[k].status, content |-> Content(store[k])])
         /\ ~Present(k) => View(SubjectOf(k)) = Gone
<1>1. Listed(SubjectOf(k)) = {l \in {k} : Present(l)}
  BY NamesDiffer DEF Filing, Listed, Present
<1> QED BY <1>1 DEF View, Gone, Only, Present
-----------------------------------------------------------------------------
(* A step of one request, on one key.                                       *)
\* The others go on, but not alone when they work on the same.
Kin(r, p)   == Reqs \subseteq DOMAIN r /\ r.op = p.op /\ r.subject = p.subject /\ r.key = p.key /\ r.copy = p.copy
Stays(g, k) == /\ Kin(req'[g], req[g]) /\ req'[g].alone \in BOOLEAN
               /\ IF req[g].subject = SubjectOf(k) THEN ~req'[g].alone ELSE req'[g] = req[g]

\* Only the record under k, and the map that it alone has, may have changed.
TouchesOnly(k) ==
  /\ \A l : l # k => (l \in DOMAIN store' <=> l \in DOMAIN store)
  /\ \A l \in DOMAIN store : l # k => store'[l] = store[l] /\ Content(store[l])' = Content(store[l])
  /\ \A g \in Handler : (Key(g) # k \/ workload = "gce") /\ req[g].copy.map # NilMap =>
                          maps'[req[g].copy.map] = maps[req[g].copy.map]
MapFrom(h, k) == k \in DOMAIN store' =>
  \/ store'[k].map = NilMap \/ store'[k].map \in Unused
  \/ Key(h) = k /\ store'[k].map = req[h].copy.map
  \/ k \in DOMAIN store /\ store'[k].map = store[k].map
Refiled(h, k) == /\ maps' = [m \in Map |-> maps'[m]]
                 /\ TouchesOnly(k) /\ MapFrom(h, k)
                 /\ k \in DOMAIN store' => Proper(store'[k]) /\ Filed(k, store[k])'
CopyFrom(h, k) == \/ req'[h].copy.map = NilMap
                  \/ /\ req'[h].key = k
                     /\ \/ Key(h) = k /\ req'[h].copy.map = req[h].copy.map
                        \/ k \in DOMAIN store /\ req'[h].copy.map = store[k].map

OneMoves(h, k) ==
  /\ AnswersInv /\ workload' = workload /\ h \in Handler /\ Plain(k)
  /\ req[h].subject \in {SubjectOf(k), Nobody}
  /\ req' = [g \in Handler |-> req'[g]] /\ said' = [s \in Subject |-> said'[s]]
  /\ \A g \in Handler : g # h => Stays(g, k) /\ job'[g] = job[g]
  /\ \A s \in Subject : s # SubjectOf(k) => said'[s] = said[s]
  /\ Task(h)' /\ req'[h].subject \in {SubjectOf(k), Nobody} /\ CopyFrom(h, k)
  /\ req'[h].alone /\ req'[h].subject = SubjectOf(k) =>
       \A g \in Handler : g # h => req[g].subject # SubjectOf(k)
  /\ Refiled(h, k)

LEMMA MovesFiling ==
  ASSUME NEW h, NEW k, OneMoves(h, k)
  PROVE  Filing'
<1>1. Filing /\ workload' = workload
  BY DEF OneMoves, AnswersInv
<1>2. ASSUME NEW l \in DOMAIN store', l # k
      PROVE  Plain(l)' /\ Proper(store'[l]) /\ Filed(l, store[l])'
  <2>1. l \in DOMAIN store /\ store'[l] = store[l] /\ Content(store[l])' = Content(store[l])
    BY <1>2 DEF OneMoves, Refiled, TouchesOnly
  <2>2. Plain(l) /\ Proper(store[l]) /\ Filed(l, store[l])
    BY <1>1, <2>1 DEF Filing
  <2>3. l[1] = "gce" => \E c \in Container : maps'[store[l].map] = {c}
    <3> HAVE l[1] = "gce"
    <3>1. store[l].map # NilMap
      BY <2>2 DEF Filed
    <3> QED BY <2>1, <2>2, <3>1 DEF Content, Filed
  <2> QED BY <1>1, <2>1, <2>2, <2>3 DEF Plain, Filed
<1>3. k \in DOMAIN store' => Plain(k)' /\ Proper(store'[k]) /\ Filed(k, store[k])'
  BY <1>1 DEF OneMoves, Refiled, Plain
<1>4. \A l \in DOMAIN store' : Plain(l)' /\ Proper(store'[l]) /\ Filed(l, store[l])'
  BY <1>2, <1>3
<1> QED BY <1>4 DEF Filing, OneMoves, Refiled

LEMMA MovesKeyed ==
  ASSUME NEW h, NEW k, OneMoves(h, k)
  PROVE  OneKeyed'
<1>1. OneKeyed /\ h \in Handler
  BY DEF OneMoves, AnswersInv
<1>2. \A g \in Handler : g # h => req'[g].copy = req[g].copy /\ req'[g].key = req[g].key
  BY DEF OneMoves, Stays, Kin
<1>3. \A l \in DOMAIN store' : l # k => l \in DOMAIN store /\ store'[l] = store[l]
  BY DEF OneMoves, Refiled, TouchesOnly
<1>4. ASSUME k \in DOMAIN store', store'[k].map # NilMap
      PROVE  /\ \A l \in DOMAIN store : store[l].map = store'[k].map => l = k
             /\ \A g \in Handler : req[g].copy.map = store'[k].map => Key(g) = k
  <2>0. MapFrom(h, k)
    BY DEF OneMoves, Refiled
  <2>1. CASE store'[k].map \in Unused
    BY <2>1 DEF Unused
  <2>2. CASE Key(h) = k /\ store'[k].map = req[h].copy.map
    BY <1>1, <1>4, <2>2 DEF OneKeyed
  <2>3. CASE k \in DOMAIN store /\ store'[k].map = store[k].map
    BY <1>1, <1>4, <2>3 DEF OneKeyed
  <2> QED BY <1>4, <2>0, <2>1, <2>2, <2>3 DEF MapFrom
<1>5. ASSUME req'[h].copy.map # NilMap
      PROVE  /\ req'[h].key = k
             /\ \A l \in DOMAIN store : store[l].map = req'[h].copy.map => l = k
             /\ \A g \in Handler : req[g].copy.map = req'[h].copy.map => Key(g) = k
  BY <1>1, <1>5 DEF OneMoves, CopyFrom, OneKeyed
<1>6. \A j, l \in DOMAIN store' : store'[j].map = store'[l].map /\ store'[j].map # NilMap => j = l
  BY <1>1, <1>3, <1>4 DEF OneKeyed
<1>7. \A l \in DOMAIN store', g \in Handler : req'[g].copy.map = store'[l].map /\ store'[l].map # NilMap => req'[g].key = l
  <2> TAKE l \in DOMAIN store', g \in Handler
  <2> HAVE req'[g].copy.map = store'[l].map /\ store'[l].map # NilMap
  <2>1. CASE g = h /\ l = k
    BY <1>5, <2>1
  <2>2. CASE g = h /\ l # k
    BY <1>3, <1>5, <2>2
  <2>3. CASE g # h /\ l = k
    BY <1>2, <1>4, <2>3 DEF Key
  <2>4. CASE g # h /\ l # k
    BY <1>1, <1>2, <1>3, <2>4 DEF OneKeyed, Key
  <2> QED BY <2>1, <2>2, <2>3, <2>4
<1>8. \A f, g \in Handler : req'[f].copy.map = req'[g].copy.map /\ req'[f].copy.map # NilMap => req'[f].key = req'[g].key
  BY <1>1, <1>2, <1>5 DEF OneKeyed, Key
<1> QED BY <1>6, <1>7, <1>8 DEF OneKeyed, Key

LEMMA MovesAlone ==
  ASSUME NEW h, NEW k, OneMoves(h, k)
  PROVE  OneAlone'
<1> SUFFICES ASSUME NEW f \in Handler, NEW g \in Handler, f # g, req'[f].subject = req'[g].subject,
                    req'[f].subject # Nobody
             PROVE  ~req'[f].alone
  BY DEF OneAlone
<1>1. \A e \in Handler : e # h => /\ req'[e].subject = req[e].subject
                                  /\ IF req[e].subject = SubjectOf(k) THEN ~req'[e].alone ELSE req'[e] = req[e]
  BY DEF OneMoves, Stays, Kin
<1>2. OneAlone /\ req'[h].subject \in {SubjectOf(k), Nobody}
  BY DEF OneMoves, AnswersInv
<1>3. CASE f = h
  BY <1>1, <1>2, <1>3 DEF OneMoves
<1>4. CASE g = h
  BY <1>1, <1>2, <1>4
<1>5. CASE f # h /\ g # h
  BY <1>1, <1>2, <1>5 DEF OneAlone
<1> QED BY <1>3, <1>4, <1>5

LEMMA MovesTask ==
  ASSUME NEW h, NEW k, OneMoves(h, k), NEW g \in Handler, g # h
  PROVE  Task(g)'
<1>1. /\ Task(g) /\ workload' = workload /\ job'[g] = job[g]
      /\ Kin(req'[g], req[g]) /\ req'[g].alone \in BOOLEAN
      /\ IF req[g].subject = SubjectOf(k) THEN ~req'[g].alone ELSE req'[g] = req[g]
  BY DEF OneMoves, AnswersInv, Stays
<1>2. req[g] = Idle => req'[g] = Idle
  BY <1>1, NamesDiffer, IdleHas DEF OneMoves
<1>3. req'[g] = Idle \/ (~At(g, "idle")' /\ Plain(Key(g))' /\ req'[g].subject = SubjectOf(Key(g)'))
  BY <1>1, <1>2 DEF Task, Kin, At, Key, Plain
<1>4. req[g].op \in Modifiers => Filed(Key(g), req[g].copy)'
  BY <1>1 DEF Task, Kin, Filed, Key
<1>5. req[g].op \in Switchers => Filed(Key(g), req[g].copy)'
  <2> HAVE req[g].op \in Switchers
  <2>1. Key(g)[1] = "gce" /\ Filed(Key(g), req[g].copy)
    BY <1>1 DEF Task
  <2>2. workload = "gce"
    BY <1>1, <2>1, IdleHas DEF Task, Plain
  <2>3. req[g].copy.map # NilMap /\ \E c \in Container : maps[req[g].copy.map] = {c}
    BY <2>1 DEF Filed
  <2>4. maps'[req[g].copy.map] = maps[req[g].copy.map]
    BY <2>2, <2>3 DEF OneMoves, Refiled, TouchesOnly
  <2> QED BY <1>1, <2>1, <2>3, <2>4 DEF Filed, Kin, Key
<1> QED BY <1>1, <1>3, <1>4, <1>5 DEF Task, Kin, Key, InPhase

LEMMA MovesShown ==
  ASSUME NEW h, NEW k, OneMoves(h, k), NEW s \in Subject, s # SubjectOf(k)
  PROVE  Shown(s)'
<1>1. said'[s] = said[s] /\ Shown(s) /\ Filing /\ Filing'
  BY MovesFiling DEF OneMoves, AnswersInv
<1>2. View(s)' = View(s)
  <2>1. Listed(s)' = Listed(s)
    BY DEF Listed, OneMoves, Refiled, TouchesOnly
  <2>2. \A l \in Listed(s) : store'[l] = store[l] /\ Content(store[l])' = Content(store[l])
    BY DEF Listed, OneMoves, Refiled, TouchesOnly
  <2> QED BY <2>1, <2>2 DEF View
<1>3. CASE s = Nobody
  <2>1. \A g \in Handler : req[g].subject = Nobody => req[g] = Idle
    BY NamesDiffer DEF OneMoves, AnswersInv, Task
  <2>2. ~\E g \in Busy(s) : ~req[g].alone \/ req[g].op \in Writing
    BY <1>3, <2>1, IdleHas DEF Busy
  <2> QED BY <1>1, <1>2, <2>2 DEF Shown, Untold
<1>4. CASE s # Nobody
  <2>1. \A g \in Busy(s) : g \in Handler /\ g # h /\ req'[g] = req[g]
    BY <1>4 DEF Busy, OneMoves, Stays
  <2>2. Untold(s) => Untold(s)'
    BY <1>1, <2>1 DEF Untold, Busy
  <2> QED BY <1>1, <1>2, <2>2 DEF Shown
<1> QED BY <1>3, <1>4

LEMMA MovesUpToDate ==
  ASSUME NEW h, NEW k, OneMoves(h, k), NEW g \in Handler, g # h
  PROVE  UpToDate(g)'
<1> SUFFICES ASSUME req'[g].alone PROVE UpToDate(g)'
  BY DEF UpToDate
<1>1. req'[g] = req[g] /\ req[g].subject # SubjectOf(k) /\ job'[g] = job[g]
  BY DEF OneMoves, Stays
<1>2. UpToDate(g) /\ Task(g) /\ Filing
  BY DEF OneMoves, AnswersInv
<1>3. CASE req[g] = Idle
  BY <1>1, <1>3, IdleHas DEF UpToDate, Writing
<1>4. CASE req[g] # Idle
  <2>1. PICK l : l = Key(g)
    OBVIOUS
  <2>2. l # k /\ req[g].subject = SubjectOf(l)
    BY <1>1, <1>2, <1>4, <2>1 DEF Task
  <2>3. l \in DOMAIN store => l \in DOMAIN store' /\ store'[l] = store[l] /\ Content(store[l])' = Content(store[l])
    BY <2>2 DEF OneMoves, Refiled, TouchesOnly
  <2>4. Content(req[g].copy)' = Content(req[g].copy)
    BY <1>1, <2>1, <2>2 DEF Content, OneMoves, Refiled, TouchesOnly
  <2>5. req[g].subject \in Subject => said'[req[g].subject] = said[req[g].subject]
    BY <1>1 DEF OneMoves
  <2>6. req[g].op \in Modifiers /\ req[g].subject \in Subject /\ said'[req[g].subject] # Unknown =>
          Present(Key(g))' /\ store'[l] = req[g].copy
            /\ Content(req[g].copy)' = said'[req[g].subject][l].content \cup Changed
    BY <1>1, <1>2, <2>1, <2>3, <2>4, <2>5 DEF UpToDate, Present, Promised, PromisedContent, Key
  <2>7. req[g].op = "register" => Present(Key(g))' /\ store'[l].status = "available" /\ Content(store[l])' = {job[g].container}
    BY <1>1, <1>2, <2>1, <2>3 DEF UpToDate, Present, Key
  <2>8. req[g].op \in Switchers => Content(req[g].copy)' = {job[g].container}
    BY <1>1, <1>2, <2>4 DEF UpToDate
  <2> QED BY <1>1, <2>1, <2>6, <2>7, <2>8 DEF UpToDate, Promised, PromisedContent, Key
<1> QED BY <1>3, <1>4

\* A step of h on k preserves the invariant when it is right about k.
LEMMA RightMoveKeeps ==
  ASSUME NEW h, NEW k, OneMoves(h, k), SubjectOf(k) \in Subject => Shown(SubjectOf(k))', UpToDate(h)'
  PROVE  AnswersInv'
<1>1. \A s \in Subject : Shown(s)'
  BY MovesShown
<1>2. \A g \in Handler : Task(g)'
  BY MovesTask DEF OneMoves
<1>3. \A g \in Handler : UpToDate(g)'
  BY MovesUpToDate
<1> QED BY <1>1, <1>2, <1>3, MovesFiling, MovesKeyed, MovesAlone DEF AnswersInv

-----------------------------------------------------------------------------
(* What a request does: it comes, goes on, or is answered.                  *)
Working(h) == /\ AnswersInv /\ workload' = workload /\ h \in Handler
              /\ \A g \in Handler : g # h => job'[g] = job[g]
Onto(h, k) == Working(h) /\ ~At(h, "idle") /\ k = Key(h)

LEMMA OntoIts ==
  ASSUME NEW h, NEW k, Onto(h, k)
  PROVE  /\ Plain(k) /\ req[h].subject = SubjectOf(k) /\ Task(h) /\ Filing /\ h \in Handler
         /\ \A g \in Handler : g # h /\ req[g].subject = SubjectOf(k) => ~req[g].alone /\ ~req[h].alone
<1>1. Plain(k) /\ req[h].subject = SubjectOf(k) /\ Task(h) /\ Filing /\ OneAlone /\ h \in Handler
  BY IdleHas DEF Onto, Working, AnswersInv, Task, At
<1>2. SubjectOf(k) # Nobody
  BY <1>1, NamesDiffer
<1> QED BY <1>1, <1>2 DEF OneAlone

LEMMA StaysSame ==
  ASSUME NEW h, NEW k, Onto(h, k), NEW g \in Handler, g # h, req'[g] = req[g]
  PROVE  Stays(g, k)
<1>1. Task(g)
  BY DEF Onto, Working, AnswersInv
<1> QED BY <1>1, OntoIts DEF Stays, Kin, Task

\* What there is of the key's name now.
LEMMA ViewNow ==
  ASSUME NEW h, NEW k, Filing, Plain(k), Refiled(h, k)
  PROVE  /\ Present(k)' => View(SubjectOf(k))' = Only(k, [status |-> store'[k].status, content |-> Content(store[k])'])
         /\ ~Present(k)' => View(SubjectOf(k))' = Gone
<1>1. Listed(SubjectOf(k)) \subseteq {k}
  BY NamesDiffer DEF Filing, Listed
<1>2. Listed(SubjectOf(k))' = {l \in {k} : Present(l)'}
  BY <1>1 DEF Listed, Refiled, TouchesOnly, Present
<1> QED BY <1>2 DEF View, Gone, Only, Present

LEMMA AnswerKeeps ==
  ASSUME NEW h, NEW k, Onto(h, k), NEW promise, Answer(h, promise), Refiled(h, k),
         req[h].alone /\ SubjectOf(k) \in Subject /\ said[SubjectOf(k)] # Unknown => promise = View(SubjectOf(k))'
  PROVE  AnswersInv'
<1>0. /\ Plain(k) /\ req[h].subject = SubjectOf(k) /\ h \in Handler
      /\ req = [g \in Handler |-> req[g]] /\ said = [s \in Subject |-> said[s]]
  BY OntoIts DEF Filing
<1>1. req' = [g \in Handler |-> IF g = h THEN Idle ELSE req[g]]
  BY <1>0 DEF Answer
<1>2. said' = [s \in Subject |-> IF s = SubjectOf(k) THEN IF req[h].alone /\ said[s] # Unknown THEN promise ELSE Unknown
                                                    ELSE said[s]]
  BY <1>0 DEF Answer
<1>3. Task(h)' /\ UpToDate(h)'
  BY <1>0, <1>1, IdleHas DEF Task, UpToDate, Writing
<1>4. \A g \in Handler : g # h => Stays(g, k) /\ job'[g] = job[g]
  BY <1>1, StaysSame DEF Onto, Working
<1>5. CopyFrom(h, k) /\ req'[h].subject = Nobody
  BY <1>0, <1>1, IdleHas DEF CopyFrom
<1>6. OneMoves(h, k)
  BY <1>0, <1>1, <1>2, <1>3, <1>4, <1>5, NamesDiffer DEF OneMoves, Onto, Working
<1>7. SubjectOf(k) \in Subject => Shown(SubjectOf(k))'
  BY <1>2 DEF Shown, Untold
<1> QED BY <1>3, <1>6, <1>7, RightMoveKeeps

LEMMA GotoKeeps ==
  ASSUME NEW h, NEW k, Onto(h, k), NEW op, op \notin Modifiers \cup Switchers \cup {"idle"}, Goto(h, op), Refiled(h, k),
         op \in Snappers => k[1] = "snapshot",
         \/ op # "register" /\ req[h].op \notin Writing /\ UNCHANGED <<store, maps>>
         \/ /\ op = "register" /\ InPhase(h, "ready")'
            /\ Present(k)' /\ store'[k].status = "available" /\ Content(store[k])' = {job'[h].container}
  PROVE  AnswersInv'
<1>0. /\ Plain(k) /\ req[h].subject = SubjectOf(k) /\ h \in Handler /\ k = req[h].key /\ Task(h)
      /\ req = [g \in Handler |-> req[g]] /\ said = [s \in Subject |-> said[s]] /\ workload' = workload
  BY OntoIts DEF Filing, Onto, Working, Key
<1>1. PICK p : p = req[h]
  OBVIOUS
<1>2. PICK r : r = [p EXCEPT !.op = op]
  OBVIOUS
<1>3. /\ req' = [g \in Handler |-> IF g = h THEN r ELSE req[g]] /\ said' = said
      /\ req'[h] = r
  BY <1>0, <1>1, <1>2 DEF Goto
<1>4. /\ Reqs \subseteq DOMAIN r /\ r.op = op /\ r.key = k /\ r.subject = SubjectOf(k) /\ r.alone = p.alone /\ r.copy = p.copy
  BY <1>0, <1>1, <1>2 DEF Task, Reqs
<1>5. Task(h)'
  BY <1>0, <1>1, <1>3, <1>4 DEF Task, At, Key, Plain
<1>6. \A g \in Handler : g # h => Stays(g, k) /\ job'[g] = job[g]
  BY <1>3, StaysSame DEF Onto, Working
<1>7. CopyFrom(h, k)
  BY <1>0, <1>1, <1>3, <1>4 DEF CopyFrom, Key
<1>8. r.alone => \A g \in Handler : g # h => req[g].subject # SubjectOf(k)
  BY <1>1, <1>4, OntoIts
<1>9. OneMoves(h, k)
  BY <1>0, <1>3, <1>4, <1>5, <1>6, <1>7, <1>8 DEF OneMoves, Onto, Working
<1>10. UpToDate(h)'
  BY <1>3, <1>4 DEF UpToDate, Key, Present
<1>11. SubjectOf(k) \in Subject => Shown(SubjectOf(k))'
  <2> HAVE SubjectOf(k) \in Subject
  <2>1. CASE op = "register"
    <3>1. h \in Busy(SubjectOf(k))' /\ req'[h].op \in Writing
      BY <1>0, <1>3, <1>4, <2>1 DEF Busy, Writing
    <3> QED BY <3>1 DEF Shown, Untold
  <2>2. CASE op # "register"
    <3>1. req[h].op \notin Writing /\ UNCHANGED <<store, maps>> /\ Shown(SubjectOf(k))
      BY <2>2 DEF Onto, Working, AnswersInv
    <3>2. View(SubjectOf(k))' = View(SubjectOf(k))
      BY <3>1 DEF View, Listed, Content
    <3>3. \A g \in Busy(SubjectOf(k)) : req'[g].subject = req[g].subject /\ req'[g].alone = req[g].alone
                                        /\ (req[g].op \in Writing => req'[g].op \in Writing)
      BY <1>1, <1>3, <1>4, <1>0, <3>1 DEF Busy
    <3>4. Untold(SubjectOf(k)) => Untold(SubjectOf(k))'
      BY <1>3, <3>3 DEF Untold, Busy
    <3> QED BY <1>3, <3>1, <3>2, <3>4 DEF Shown
  <2> QED BY <2>1, <2>2
<1> QED BY <1>9, <1>10, <1>11, RightMoveKeeps

\* A request comes, with a copy of the record or without.
Entered(h, op, k, copy) ==
  /\ req[h] = Idle /\ req' = [g \in Handler |-> req'[g]] /\ said' = said
  /\ \A g \in Handler : g # h => Stays(g, k)
  /\ Reqs \subseteq DOMAIN req'[h] /\ req'[h].op = op /\ req'[h].key = k /\ req'[h].subject = SubjectOf(k)
  /\ req'[h].copy = copy /\ req'[h].alone = (Busy(SubjectOf(k)) = {})

LEMMA MarkedStays ==
  ASSUME AnswersInv, NEW k, Plain(k)
  PROVE  /\ Marked(SubjectOf(k)) = [g \in Handler |-> Marked(SubjectOf(k))[g]]
         /\ \A g \in Handler : req' = [e \in Handler |-> req'[e]] /\ req'[g] = Marked(SubjectOf(k))[g] => Stays(g, k)
<1>1. PICK s : s = SubjectOf(k)
  OBVIOUS
<1>2. Marked(s) = [g \in Handler |-> IF g \in Busy(s) THEN [req[g] EXCEPT !.alone = FALSE] ELSE req[g]]
  BY DEF Marked
<1>3. ASSUME NEW g \in Handler, req'[g] = Marked(s)[g] PROVE Stays(g, k)
  <2>1. PICK p : p = req[g]
    OBVIOUS
  <2>2. PICK r : r = [p EXCEPT !.alone = FALSE]
    OBVIOUS
  <2>3. Reqs \subseteq DOMAIN p /\ p.alone \in BOOLEAN
    BY <1>3, <2>1 DEF AnswersInv, Task
  <2>4. Reqs \subseteq DOMAIN r /\ r.op = p.op /\ r.subject = p.subject /\ r.key = p.key /\ r.copy = p.copy /\ r.alone = FALSE
    BY <2>2, <2>3 DEF Reqs
  <2>5. req'[g] = IF p.subject = s THEN r ELSE p
    BY <1>2, <1>3, <2>1, <2>2 DEF Busy
  <2> QED BY <1>1, <2>1, <2>3, <2>4, <2>5 DEF Stays, Kin
<1> QED BY <1>1, <1>2, <1>3

LEMMA EnterGives ==
  ASSUME NEW h, Working(h), NEW k, Plain(k), NEW op, NEW fields, Enter(h, op, SubjectOf(k), fields),
         DOMAIN fields \subseteq {"key", "copy", "field"}, "key" \in DOMAIN fields, fields["key"] = k,
         NEW copy, copy = IF "copy" \in DOMAIN fields THEN fields["copy"] ELSE Blank
  PROVE  Entered(h, op, k, copy)
<1>1. PICK s : s = SubjectOf(k)
  OBVIOUS
<1>2. PICK idle : idle = [Idle EXCEPT !.op = op, !.subject = s, !.alone = Busy(s) = {}]
  OBVIOUS
<1>3. PICK r : r = Over(fields, idle)
  OBVIOUS
<1>4. /\ Reqs = DOMAIN idle
      /\ idle["op"] = op /\ idle["subject"] = s /\ idle["alone"] = (Busy(s) = {}) /\ idle["copy"] = Blank
  BY <1>2 DEF Idle, Reqs, Blank
<1>5. /\ Reqs \subseteq DOMAIN r
      /\ \A f \in Reqs : r[f] = IF f \in DOMAIN fields THEN fields[f] ELSE idle[f]
  BY <1>3, <1>4 DEF Over
<1>6. r.op = op /\ r.key = k /\ r.subject = s /\ r.copy = copy /\ r.alone = (Busy(s) = {})
  BY <1>4, <1>5 DEF Reqs
<1>7. req[h] = Idle /\ req' = [Marked(s) EXCEPT ![h] = r] /\ said' = said
  BY <1>1, <1>2, <1>3 DEF Enter
<1>8. req' = [g \in Handler |-> IF g = h THEN r ELSE Marked(s)[g]] /\ h \in Handler
  BY <1>1, <1>7, MarkedStays DEF Working
<1>9. \A g \in Handler : g # h => Stays(g, k)
  BY <1>1, <1>8, MarkedStays DEF Working
<1> QED BY <1>1, <1>5, <1>6, <1>7, <1>8, <1>9 DEF Entered

LEMMA EnterKeeps ==
  ASSUME NEW h, Working(h), NEW k, Plain(k), NEW op, NEW copy, Entered(h, op, k, copy), op \notin {"idle", "register"},
         Refiled(h, k), store' = store,
         copy = Blank \/ (Present(k) /\ copy = store[k]),
         op \in Modifiers => /\ k[1] \notin {"gce", "snapshot"} /\ Present(k) /\ copy = store[k]
                             /\ maps' = [maps EXCEPT ![store[k].map] = @ \cup Changed],
         op \in Switchers => /\ k[1] = "gce" /\ Present(k) /\ copy = store[k]
                             /\ job'[h].phase = "switch" /\ Content(store[k]) = {job'[h].container},
         op \in Snappers => k[1] = "snapshot",
         op \notin Writing => maps' = maps
  PROVE  AnswersInv'
<1>0. h \in Handler /\ workload' = workload /\ Filing /\ req[h].subject = Nobody
  BY IdleHas DEF Working, AnswersInv, Entered
<1>1. Present(k) => store[k].map \in Map \cup {NilMap} /\ Proper(store[k]) /\ Filed(k, store[k]) /\ Filed(k, store[k])'
  BY <1>0 DEF Present, Filing, Proper, Refiled
<1>2. Task(h)'
  BY <1>0, <1>1, IdleHas DEF Task, Entered, At, Key, Plain, Filed, Modifiers, Switchers
<1>3. CopyFrom(h, k)
  BY IdleHas DEF CopyFrom, Entered, Present
<1>4. req'[h].alone => \A g \in Handler : req[g].subject # SubjectOf(k)
  BY DEF Entered, Busy
<1>5. said' = [s \in Subject |-> said'[s]] /\ \A s \in Subject : said'[s] = said[s]
  BY <1>0 DEF Entered, Filing
<1>6. OneMoves(h, k)
  BY <1>0, <1>2, <1>3, <1>4, <1>5 DEF OneMoves, Entered, Working
<1>7. SubjectOf(k) \in Subject => Shown(SubjectOf(k))'
  <2> HAVE SubjectOf(k) \in Subject
  <2>1. h \in Busy(SubjectOf(k))' /\ req'[h].op = op
    BY <1>0 DEF Busy, Entered
  <2>2. CASE op \in Writing
    BY <2>1, <2>2 DEF Shown, Untold
  <2>3. CASE op \notin Writing /\ Busy(SubjectOf(k)) = {}
    <3>1. said[SubjectOf(k)] = Unknown \/ said[SubjectOf(k)] = View(SubjectOf(k))
      BY <2>3 DEF Working, AnswersInv, Shown, Untold
    <3>2. View(SubjectOf(k))' = View(SubjectOf(k))
      BY <2>3 DEF View, Listed, Content
    <3> QED BY <1>5, <3>1, <3>2 DEF Shown, Untold
  <2>4. CASE op \notin Writing /\ Busy(SubjectOf(k)) # {}
    <3>1. ~req'[h].alone
      BY <2>4 DEF Entered
    <3> QED BY <2>1, <3>1 DEF Shown, Untold
  <2> QED BY <2>2, <2>3, <2>4
<1>8. UpToDate(h)'
  <2> SUFFICES ASSUME req'[h].alone PROVE UpToDate(h)'
    BY DEF UpToDate
  <2>1. ASSUME op \in Modifiers, SubjectOf(k) \in Subject, said'[SubjectOf(k)] # Unknown
        PROVE  Present(k)' /\ store'[k] = copy /\ Content(copy)' = said'[SubjectOf(k)][k].content \cup Changed
    <3>1. Busy(SubjectOf(k)) = {}
      BY DEF Entered
    <3>2. said[SubjectOf(k)] = View(SubjectOf(k))
      BY <1>5, <2>1, <3>1 DEF Working, AnswersInv, Shown, Untold
    <3>3. said[SubjectOf(k)] = Only(k, [status |-> store[k].status, content |-> Content(store[k])])
      BY <1>0, <2>1, <3>2, OneListed
    <3>4. said'[SubjectOf(k)][k].content = Content(store[k])
      BY <1>5, <2>1, <3>3 DEF Only
    <3>5. store[k].map \in Map /\ store[k].map # NilMap
      BY <1>1, <2>1 DEF Filed
    <3>6. maps'[store[k].map] = maps[store[k].map] \cup Changed
      BY <1>0, <2>1, <3>5 DEF Filing
    <3> QED BY <2>1, <3>4, <3>5, <3>6 DEF Content, Present
  <2>2. op \in Switchers => Content(copy)' = {job'[h].container}
    BY DEF Content, Switchers, Modifiers, Writing
  <2> QED BY <2>1, <2>2 DEF UpToDate, Entered, Key, Promised, PromisedContent, Present
<1> QED BY <1>6, <1>7, <1>8, RightMoveKeeps

-----------------------------------------------------------------------------
(* What it writes.                                                          *)
LEMMA SameRefiled ==
  ASSUME NEW h, Working(h), NEW k, Plain(k), UNCHANGED <<store, maps>>
  PROVE  Refiled(h, k)
<1>1. Filing
  BY DEF Working, AnswersInv
<1> QED BY <1>1 DEF Refiled, TouchesOnly, MapFrom, Content, Filing, Filed

LEMMA FreshIs ==
  ASSUME NEW m \in FreshMap
  PROVE  /\ m \in Map /\ m # NilMap /\ m \in Unused
         /\ \A l \in DOMAIN store : store[l].map # m
         /\ \A g \in Handler : req[g].copy.map # m
  BY RecordStoreAssumption DEF FreshMap, Unused

LEMMA MapsThere ==
  ASSUME AnswersInv
  PROVE  /\ \A l \in DOMAIN store : store[l].map \in Map \cup {NilMap}
         /\ \A g \in Handler : req[g].copy.map \in Map \cup {NilMap}
         /\ maps = [m \in Map |-> maps[m]]
  BY DEF AnswersInv, Filing, Task, Proper

LEMMA PutTouches ==
  ASSUME NEW k, NEW r, Put(k, r)
  PROVE  /\ DOMAIN store' = DOMAIN store \cup {k} /\ store'[k] = r
         /\ \A l \in DOMAIN store : l # k => store'[l] = store[l]
  BY DEF Put, Over, Only

LEMMA PutTouchesOnly ==
  ASSUME NEW k, NEW r, Put(k, r),
         \A l \in DOMAIN store : store[l].map # NilMap => maps'[store[l].map] = maps[store[l].map],
         \A g \in Handler : req[g].copy.map # NilMap => maps'[req[g].copy.map] = maps[req[g].copy.map]
  PROVE  TouchesOnly(k)
<1>1. DOMAIN store' = DOMAIN store \cup {k} /\ \A l \in DOMAIN store : l # k => store'[l] = store[l]
  BY PutTouches
<1>2. \A l \in DOMAIN store : l # k => store'[l] = store[l] /\ Content(store[l])' = Content(store[l])
  BY <1>1 DEF Content
<1> QED BY <1>1, <1>2 DEF TouchesOnly

LEMMA PutNewRefiled ==
  ASSUME NEW h, NEW k, Onto(h, k), NEW content, PutNew(k, content),
         workload = "gce" => \E c \in Container : content = {c}
  PROVE  Refiled(h, k) /\ Present(k)' /\ store'[k].status = "available" /\ Content(store[k])' = content
<1>1. PICK m \in FreshMap : /\ Put(k, [status |-> "available", map |-> m])
                            /\ maps' = [maps EXCEPT ![m] = content]
  BY DEF PutNew
<1>2. PICK r : r = [status |-> "available", map |-> m]
  OBVIOUS
<1>3. Put(k, r) /\ r.status = "available" /\ r.map = m
  BY <1>1, <1>2
<1>4. /\ m \in Map /\ m # NilMap /\ m \in Unused
      /\ \A l \in DOMAIN store : store[l].map # m
      /\ \A g \in Handler : req[g].copy.map # m
  BY FreshIs
<1>5. /\ AnswersInv /\ Plain(k)
      /\ maps = [n \in Map |-> maps[n]]
      /\ \A l \in DOMAIN store : store[l].map \in Map \cup {NilMap}
      /\ \A g \in Handler : req[g].copy.map \in Map \cup {NilMap}
  BY OntoIts, MapsThere DEF Onto, Working
<1>6. maps' = [n \in Map |-> IF n = m THEN content ELSE maps[n]]
  BY <1>1, <1>5
<1>7. TouchesOnly(k)
  <2>1. \A n \in Map : n # m => maps'[n] = maps[n]
    BY <1>6
  <2> QED BY <1>3, <1>4, <1>5, <2>1, PutTouchesOnly
<1>8. k \in DOMAIN store' /\ store'[k] = r /\ MapFrom(h, k)
  BY <1>3, <1>4, PutTouches DEF MapFrom
<1>9. Proper(r) /\ Content(store[k])' = content /\ maps'[m] = content
  BY <1>2, <1>3, <1>4, <1>6, <1>8 DEF Proper, Content
<1>10. Filed(k, store[k])'
  BY <1>3, <1>4, <1>5, <1>8, <1>9 DEF Filed, Plain
<1> QED BY <1>3, <1>6, <1>7, <1>8, <1>9, <1>10 DEF Refiled, Present

LEMMA PutBareRefiled ==
  ASSUME NEW h, NEW k, Onto(h, k), PutBare(k), k[1] = "snapshot"
  PROVE  Refiled(h, k) /\ Present(k)' /\ store'[k].status = "available" /\ Content(store[k])' = {}
<1>1. PICK r : r = [status |-> "available", map |-> NilMap]
  OBVIOUS
<1>2. Put(k, r) /\ maps' = maps /\ r.status = "available" /\ r.map = NilMap
  BY <1>1 DEF PutBare
<1>3. AnswersInv /\ maps = [n \in Map |-> maps[n]]
  BY MapsThere DEF Onto, Working
<1>4. TouchesOnly(k)
  BY <1>2, PutTouchesOnly
<1>5. k \in DOMAIN store' /\ store'[k] = r /\ MapFrom(h, k) /\ Proper(r)
  BY <1>1, <1>2, PutTouches DEF MapFrom, Proper
<1>6. Filed(k, store[k])'
  BY <1>2, <1>5 DEF Filed
<1> QED BY <1>2, <1>3, <1>4, <1>5, <1>6 DEF Refiled, Present, Content

LEMMA DeleteRefiled ==
  ASSUME NEW h, NEW k, Onto(h, k), Delete(k)
  PROVE  Refiled(h, k) /\ ~Present(k)'
<1>1. DOMAIN store' = DOMAIN store \ {k} /\ \A l \in DOMAIN store' : store'[l] = store[l]
  BY DEF Delete, Without, Restrict
<1>2. maps' = [m \in Map |-> IF /\ k \in DOMAIN store /\ store[k].map = m
                                /\ \A g \in Handler : req[g].copy.map # m
                             THEN {} ELSE maps[m]]
  BY DEF Delete
<1>3. /\ AnswersInv /\ OneKeyed
      /\ \A l \in DOMAIN store : store[l].map \in Map \cup {NilMap}
      /\ \A g \in Handler : req[g].copy.map \in Map \cup {NilMap}
  BY MapsThere DEF Onto, Working, AnswersInv
<1>4. \A l \in DOMAIN store : l # k /\ store[l].map # NilMap => maps'[store[l].map] = maps[store[l].map]
  BY <1>2, <1>3 DEF OneKeyed
<1>5. \A g \in Handler : req[g].copy.map # NilMap => maps'[req[g].copy.map] = maps[req[g].copy.map]
  BY <1>2, <1>3
<1>6. TouchesOnly(k)
  BY <1>1, <1>4, <1>5 DEF TouchesOnly, Content
<1>7. maps' = [m \in Map |-> maps'[m]]
  BY <1>2
<1> QED BY <1>1, <1>6, <1>7 DEF Refiled, MapFrom, Present

\* The copy is put back, with a status of its own or as it was; its map is what it is.
LEMMA PutBackRefiled ==
  ASSUME NEW h, NEW k, Onto(h, k), NEW r, Put(k, r), maps' = maps, Proper(r), r.map = req[h].copy.map, Filed(k, r)
  PROVE  Refiled(h, k) /\ Present(k)' /\ store'[k] = r /\ Content(store[k])' = Content(req[h].copy)
<1>1. maps = [n \in Map |-> maps[n]] /\ k = Key(h)
  BY MapsThere DEF Onto, Working
<1>2. TouchesOnly(k)
  BY PutTouchesOnly
<1>3. k \in DOMAIN store' /\ store'[k] = r /\ MapFrom(h, k)
  BY <1>1, PutTouches DEF MapFrom
<1>4. Filed(k, store[k])'
  BY <1>3 DEF Filed
<1> QED BY <1>1, <1>2, <1>3, <1>4 DEF Refiled, Present, Content

LEMMA WriteRefiled ==
  ASSUME NEW h, Working(h), NEW k, Plain(k), Present(k), k[1] \notin {"gce", "snapshot"}, NEW content,
         store' = store, maps' = [maps EXCEPT ![store[k].map] = @ \cup content]
  PROVE  Refiled(h, k)
<1>1. /\ Filing /\ OneKeyed /\ workload # "gce"
      /\ maps = [n \in Map |-> maps[n]]
      /\ \A l \in DOMAIN store : store[l].map \in Map \cup {NilMap}
      /\ \A g \in Handler : req[g].copy.map \in Map \cup {NilMap}
  BY MapsThere DEF Working, AnswersInv, Plain
<1>2. PICK m : m = store[k].map
  OBVIOUS
<1>3. maps' = [n \in Map |-> IF n = m THEN maps[n] \cup content ELSE maps[n]]
  BY <1>1, <1>2
<1>4. m # NilMap /\ Filed(k, store[k]) /\ Proper(store[k])
  BY <1>1, <1>2 DEF Filing, Filed, Present
<1>5. \A l \in DOMAIN store : l # k => store[l].map # m
  BY <1>1, <1>2, <1>4 DEF OneKeyed, Present
<1>6. \A g \in Handler : Key(g) # k => req[g].copy.map # m
  BY <1>1, <1>2, <1>4 DEF OneKeyed, Present
<1>7. TouchesOnly(k)
  BY <1>1, <1>3, <1>5, <1>6 DEF TouchesOnly, Content
<1>8. Filed(k, store[k])'
  BY <1>4 DEF Filed
<1> QED BY <1>3, <1>4, <1>7, <1>8 DEF Refiled, MapFrom
-----------------------------------------------------------------------------
(* Steps of others, and of requests that only look.                         *)
\* The jobs that a request goes by stay as they are.
Waits(g)  == job[g].phase \in {"ready", "switch", "switched"} => job'[g] = job[g]

LEMMA LooksKeep ==
  ASSUME AnswersInv, UNCHANGED <<store, maps, req, workload>>, \A g \in Handler : Waits(g),
         said' = [s \in Subject |-> said'[s]],
         \A s \in Subject : said'[s] = said[s] \/ (Busy(s) = {} /\ said'[s] = View(s))
  PROVE  AnswersInv'
<1>1. Filing' /\ OneKeyed' /\ OneAlone'
  BY DEF AnswersInv, Filing, OneKeyed, OneAlone, Plain, Filed, Key
<1>2. ASSUME NEW g \in Handler PROVE Task(g)' /\ UpToDate(g)'
  <2>1. Task(g) /\ UpToDate(g) /\ Waits(g)
    BY <1>2 DEF AnswersInv
  <2>2. Task(g)'
    BY <2>1 DEF Task, At, Key, Plain, Filed, InPhase, Waits
  <2>3. req[g].subject \in Subject => said'[req[g].subject] = said[req[g].subject]
    BY <1>2 DEF Busy
  <2>4. req[g].op \in Switchers \cup {"register"} => job'[g] = job[g]
    BY <2>1 DEF Task, Waits, InPhase
  <2>5. UpToDate(g)'
    BY <2>1, <2>3, <2>4 DEF UpToDate, Present, Key, Content, Promised, PromisedContent
  <2> QED BY <2>2, <2>5
<1>3. ASSUME NEW s \in Subject PROVE Shown(s)'
  <2>1. Shown(s) /\ View(s)' = View(s) /\ Busy(s)' = Busy(s)
    BY <1>3 DEF AnswersInv, View, Listed, Content, Busy
  <2> QED BY <1>3, <2>1 DEF Shown, Untold
<1> QED BY <1>1, <1>2, <1>3 DEF AnswersInv

LEMMA ShowsKeeps ==
  ASSUME AnswersInv, NEW subjects, Shows(subjects), UNCHANGED workload, \A g \in Handler : Waits(g)
  PROVE  AnswersInv'
  BY LooksKeep DEF Shows

\* The container has been switched; the record is put next.
LEMMA SwitchKeeps ==
  ASSUME NEW h, NEW k, Onto(h, k), UNCHANGED <<store, maps, req, said>>, req[h].op \in Switchers,
         job'[h].phase = "switched", job'[h].container = job[h].container
  PROVE  AnswersInv'
<1>1. /\ Plain(k) /\ req[h].subject = SubjectOf(k) /\ h \in Handler /\ k = Key(h) /\ workload' = workload
      /\ Task(h) /\ Filing /\ UpToDate(h) /\ (SubjectOf(k) \in Subject => Shown(SubjectOf(k)))
  BY OntoIts DEF Onto, Working, AnswersInv
<1>2. Refiled(h, k)
  BY <1>1, SameRefiled DEF Onto
<1>3. Task(h)'
  BY <1>1 DEF Task, At, Key, Plain, Filed, Switchers
<1>4. \A g \in Handler : g # h => Stays(g, k) /\ job'[g] = job[g]
  BY StaysSame DEF Onto, Working
<1>5. req'[h].alone => \A g \in Handler : g # h => req[g].subject # SubjectOf(k)
  BY OntoIts
<1>6. CopyFrom(h, k)
  BY <1>1 DEF CopyFrom, Key
<1>7. OneMoves(h, k)
  BY <1>1, <1>2, <1>3, <1>4, <1>5, <1>6 DEF OneMoves, Onto, Working, Filing
<1>8. UpToDate(h)'
  BY <1>1 DEF UpToDate, Switchers, Modifiers, Content
<1>9. Shown(SubjectOf(k)) => Shown(SubjectOf(k))'
  BY DEF Shown, Untold, Busy, View, Listed, Content
<1> QED BY <1>1, <1>7, <1>8, <1>9, RightMoveKeeps DEF Onto, Working, AnswersInv

\* A password is refused after a class has been written: the class is there from now on.
LEMMA RefusedKeeps ==
  ASSUME NEW h, Working(h), NEW k, Plain(k), Present(k), k[1] \notin {"gce", "snapshot"}, req[h] = Idle,
         store' = store, maps' = [maps EXCEPT ![store[k].map] = @ \cup Changed],
         AtOnce(SubjectOf(k), HalfChanged(k))
  PROVE  AnswersInv'
<1>1. AnswersInv /\ h \in Handler /\ Filing /\ Refiled(h, k)
  BY WriteRefiled DEF Working, AnswersInv
<1>2. SubjectOf(k) # Nobody /\ req[h].subject = Nobody /\ Task(h) /\ UpToDate(h)
  BY <1>1, NamesDiffer, IdleHas DEF AnswersInv
<1>3. req' = Marked(SubjectOf(k)) /\ req' = [g \in Handler |-> req'[g]] /\ \A g \in Handler : Stays(g, k)
  BY <1>1, MarkedStays DEF AtOnce
<1>4. req'[h] = Idle
  BY <1>1, <1>2, <1>3 DEF Stays
<1>5. said' = [s \in Subject |-> said'[s]] /\ (\A s \in Subject : s # SubjectOf(k) => said'[s] = said[s])
      /\ (SubjectOf(k) \in Subject =>
            said'[SubjectOf(k)] = IF Busy(SubjectOf(k)) = {} THEN HalfChanged(k) ELSE Unknown)
  BY <1>1 DEF AtOnce, Filing
<1>6. Task(h)' /\ UpToDate(h)' /\ CopyFrom(h, k)
  BY <1>4, IdleHas DEF Task, UpToDate, Writing, CopyFrom
<1>7. OneMoves(h, k)
  BY <1>1, <1>2, <1>3, <1>4, <1>5, <1>6, IdleHas DEF OneMoves, Working
<1>8. SubjectOf(k) \in Subject => Shown(SubjectOf(k))'
  <2> SUFFICES ASSUME SubjectOf(k) \in Subject, Busy(SubjectOf(k)) = {}, said[SubjectOf(k)] # Unknown
               PROVE  HalfChanged(k) = View(SubjectOf(k))'
    BY <1>5 DEF Shown, Untold, HalfChanged
  <2>1. said[SubjectOf(k)] = Only(k, [status |-> store[k].status, content |-> Content(store[k])])
    BY <1>1, OneListed DEF AnswersInv, Shown, Untold
  <2>2. said[SubjectOf(k)][k].content = Content(store[k])
    BY <2>1 DEF Only
  <2>3. /\ store[k].status = "available" /\ store[k].map # NilMap /\ store[k].map \in Map
        /\ maps = [m \in Map |-> maps[m]]
    BY <1>1 DEF Filing, Filed, Proper, Present
  <2>4. Content(store[k])' = Content(store[k]) \cup Changed
    BY <2>3 DEF Content
  <2>5. View(SubjectOf(k))' = Record(k, Content(store[k]) \cup Changed)
    BY <1>1, <2>3, <2>4, ViewNow DEF Record, Present
  <2> QED BY <2>2, <2>5 DEF HalfChanged
<1> QED BY <1>6, <1>7, <1>8, RightMoveKeeps

-----------------------------------------------------------------------------
(* The ways in which requests begin and end.                                *)
LEMMA QuietlyLooks ==
  ASSUME NEW h, Working(h), job' = job, NEW subjects, Shows(subjects)
  PROVE  AnswersInv'
  BY ShowsKeeps DEF Working, Waits

LEMMA BeginKeeps ==
  ASSUME NEW h, Working(h), NEW k, Plain(k), NEW op, op \notin Writing \cup Switchers \cup {"idle"},
         op \in Snappers => k[1] = "snapshot",
         NEW fields, DOMAIN fields \subseteq {"key", "copy", "field"}, "key" \in DOMAIN fields, fields["key"] = k,
         "copy" \in DOMAIN fields => Present(k) /\ fields["copy"] = store[k],
         Begin(h, op, SubjectOf(k), fields)
  PROVE  AnswersInv'
<1>1. Refiled(h, k)
  BY SameRefiled DEF Begin
<1>2. PICK copy : copy = IF "copy" \in DOMAIN fields THEN fields["copy"] ELSE Blank
  OBVIOUS
<1>3. Entered(h, op, k, copy)
  BY <1>2, EnterGives DEF Begin
<1> QED BY <1>1, <1>2, <1>3, EnterKeeps DEF Begin, Writing

LEMMA BeginKey ==
  ASSUME NEW h, Working(h), NEW k, Plain(k), NEW op, op \notin Writing \cup Switchers \cup {"idle"},
         op \in Snappers => k[1] = "snapshot", Begin(h, op, SubjectOf(k), [key |-> k])
  PROVE  AnswersInv'
<1>1. PICK fields : fields = [key |-> k]
  OBVIOUS
<1>2. DOMAIN fields \subseteq {"key", "copy", "field"} /\ "key" \in DOMAIN fields /\ fields["key"] = k
      /\ "copy" \notin DOMAIN fields
  BY <1>1
<1> QED BY <1>1, <1>2, BeginKeeps

LEMMA BeginField ==
  ASSUME NEW h, Working(h), NEW k, Plain(k), NEW op, op \notin Writing \cup Switchers \cup Snappers \cup {"idle"},
         NEW e, Begin(h, op, SubjectOf(k), [key |-> k, field |-> e])
  PROVE  AnswersInv'
<1>1. PICK fields : fields = [key |-> k, field |-> e]
  OBVIOUS
<1>2. DOMAIN fields \subseteq {"key", "copy", "field"} /\ "key" \in DOMAIN fields /\ fields["key"] = k
      /\ "copy" \notin DOMAIN fields
  BY <1>1
<1> QED BY <1>1, <1>2, BeginKeeps

LEMMA CopyFields ==
  ASSUME NEW k, NEW r, NEW fields, fields = [key |-> k, copy |-> r]
  PROVE  /\ DOMAIN fields \subseteq {"key", "copy", "field"} /\ "key" \in DOMAIN fields /\ fields["key"] = k
         /\ "copy" \in DOMAIN fields /\ fields["copy"] = r
  OBVIOUS

LEMMA BeginCopy ==
  ASSUME NEW h, Working(h), NEW k, Plain(k), NEW op, op \notin Writing \cup Switchers \cup Snappers \cup {"idle"},
         Present(k), Begin(h, op, SubjectOf(k), [key |-> k, copy |-> store[k]])
  PROVE  AnswersInv'
<1>1. PICK fields : fields = [key |-> k, copy |-> store[k]]
  OBVIOUS
<1> QED BY <1>1, CopyFields, BeginKeeps

\* The container of an instance is to be switched.
LEMMA BeginSwitch ==
  ASSUME NEW h, Working(h), NEW k, Plain(k), NEW op \in Switchers, k[1] = "gce", Present(k),
         Begin(h, op, SubjectOf(k), [key |-> k, copy |-> store[k]]),
         job'[h].phase = "switch", job'[h].container = GceContainer(store[k])
  PROVE  AnswersInv'
<1>1. PICK fields : fields = [key |-> k, copy |-> store[k]]
  OBVIOUS
<1>2. Refiled(h, k) /\ UNCHANGED <<store, maps>>
  BY SameRefiled DEF Begin
<1>3. Entered(h, op, k, store[k])
  BY <1>1, CopyFields, EnterGives DEF Begin
<1>4. Filed(k, store[k]) /\ Proper(store[k])
  BY DEF Working, AnswersInv, Filing, Present
<1>5. PICK c \in Container : maps[store[k].map] = {c}
  BY <1>4 DEF Filed
<1>6. Content(store[k]) = {c}
  BY <1>4, <1>5 DEF Content, Filed
<1>7. GceContainer(store[k]) = c
  BY <1>6 DEF GceContainer
<1>8. Content(store[k]) = {job'[h].container}
  BY <1>6, <1>7
<1>9. op \notin Modifiers /\ op \notin Snappers /\ op \notin {"idle", "register"}
  BY DEF Switchers, Modifiers, Snappers
<1> QED BY <1>2, <1>3, <1>8, <1>9, EnterKeeps

LEMMA BeginWritingKeeps ==
  ASSUME NEW h, Working(h), NEW k, Plain(k), k[1] \notin {"gce", "snapshot"}, Present(k),
         NEW op, NEW content, (op \in Modifiers /\ content = Changed) \/ op = "deleteDBInstance",
         BeginWriting(h, op, k, content)
  PROVE  AnswersInv'
<1>1. PICK fields : fields = [key |-> k, copy |-> store[k]]
  OBVIOUS
<1>2. Enter(h, op, SubjectOf(k), fields) /\ store' = store /\ maps' = [maps EXCEPT ![store[k].map] = @ \cup content]
  BY <1>1 DEF BeginWriting
<1>3. Refiled(h, k)
  BY <1>2, WriteRefiled
<1>4. Entered(h, op, k, store[k])
  BY <1>1, <1>2, CopyFields, EnterGives
<1>5. op \in Writing /\ op \notin Switchers /\ op \notin Snappers /\ op \notin {"idle", "register"}
      /\ (op = "deleteDBInstance" => op \notin Modifiers)
  BY DEF Writing, Switchers, Modifiers, Snappers
<1> QED BY <1>2, <1>3, <1>4, <1>5, EnterKeeps

LEMMA InsertKeeps ==
  ASSUME NEW h, NEW k, Onto(h, k), NEW content, workload = "gce" => \E c \in Container : content = {c},
         PutNew(k, content), Answer(h, Record(k, content))
  PROVE  AnswersInv'
<1>1. Refiled(h, k) /\ Present(k)' /\ store'[k].status = "available" /\ Content(store[k])' = content
  BY PutNewRefiled
<1>2. View(SubjectOf(k))' = Record(k, content)
  BY <1>1, ViewNow, OntoIts DEF Record
<1> QED BY <1>1, <1>2, AnswerKeeps

LEMMA InsertBareKeeps ==
  ASSUME NEW h, NEW k, Onto(h, k), k[1] = "snapshot", PutBare(k), Answer(h, Record(k, {}))
  PROVE  AnswersInv'
<1>1. Refiled(h, k) /\ Present(k)' /\ store'[k].status = "available" /\ Content(store[k])' = {}
  BY PutBareRefiled
<1>2. View(SubjectOf(k))' = Record(k, {})
  BY <1>1, ViewNow, OntoIts DEF Record
<1> QED BY <1>1, <1>2, AnswerKeeps

LEMMA DropKeeps ==
  ASSUME NEW h, NEW k, Onto(h, k), Delete(k), Answer(h, Gone)
  PROVE  AnswersInv'
<1>1. Refiled(h, k) /\ ~Present(k)'
  BY DeleteRefiled
<1>2. View(SubjectOf(k))' = Gone
  BY <1>1, ViewNow, OntoIts
<1> QED BY <1>1, <1>2, AnswerKeeps

\* An error, and nothing has been written: what was promised is so still.
LEMMA SayAgainKeeps ==
  ASSUME NEW h, NEW k, Onto(h, k), UNCHANGED <<store, maps>>, req[h].op \notin Writing, Answer(h, Promised(h))
  PROVE  AnswersInv'
<1>1. Plain(k) /\ req[h].subject = SubjectOf(k) /\ Refiled(h, k)
  BY OntoIts, SameRefiled DEF Onto
<1>2. View(SubjectOf(k))' = View(SubjectOf(k))
  BY DEF View, Listed, Content
<1>3. PICK promise : promise = Promised(h)
  OBVIOUS
<1>4. ASSUME req[h].alone, SubjectOf(k) \in Subject, said[SubjectOf(k)] # Unknown
      PROVE  promise = View(SubjectOf(k))'
  <2>1. \A g \in Busy(SubjectOf(k)) : g = h
    BY <1>4, OntoIts DEF Busy
  <2>2. Shown(SubjectOf(k))
    BY <1>4 DEF Onto, Working, AnswersInv
  <2>3. said[SubjectOf(k)] = View(SubjectOf(k))
    BY <1>4, <2>1, <2>2 DEF Shown, Untold
  <2> QED BY <1>1, <1>2, <1>3, <2>3 DEF Promised
<1> QED BY <1>1, <1>3, <1>4, AnswerKeeps

LEMMA PutModifiedKeeps ==
  ASSUME NEW h, Working(h), NEW op \in Modifiers, PutModified(h, op)
  PROVE  AnswersInv'
<1>1. PICK k : k = Key(h)
  OBVIOUS
<1>2. Onto(h, k) /\ req[h].op = op
  BY <1>1 DEF Onto, PutModified, At, Modifiers
<1>3. /\ Plain(k) /\ req[h].subject = SubjectOf(k) /\ Task(h) /\ k[1] # "gce" /\ Filed(k, req[h].copy)
      /\ Proper(req[h].copy) /\ req[h].copy.map \in Map /\ k[1] # "snapshot"
  BY <1>1, <1>2, OntoIts DEF Task, Proper, Filed
<1>4. PICK r : r = req[h].copy
  OBVIOUS
<1>5. r.status = "available" /\ r.map # NilMap /\ r.map \in Map /\ r = [status |-> r.status, map |-> r.map]
  BY <1>3, <1>4 DEF Filed, Proper
<1>6. maps' = [maps EXCEPT ![r.map] = maps[r.map]] /\ Put(k, [r EXCEPT !.map = r.map])
  BY <1>1, <1>4, <1>5 DEF PutModified, PutCopy, Content, Key
<1>7. maps' = maps
  BY <1>5, <1>6, MapsThere DEF Working
<1>8. [r EXCEPT !.map = r.map] = r
  BY <1>5
<1>9. Refiled(h, k) /\ Present(k)' /\ store'[k] = r /\ Content(store[k])' = Content(r)
  BY <1>2, <1>3, <1>4, <1>6, <1>7, <1>8, PutBackRefiled
<1>10. View(SubjectOf(k))' = Record(k, Content(r))
  BY <1>2, <1>5, <1>9, ViewNow, OntoIts DEF Record
<1>11. req[h].alone /\ SubjectOf(k) \in Subject /\ said[SubjectOf(k)] # Unknown => Content(r) = PromisedContent(h) \cup Changed
  BY <1>2, <1>3, <1>4 DEF Onto, Working, AnswersInv, UpToDate, Promised
<1>12. PICK content : content = PromisedContent(h) \cup Changed
  OBVIOUS
<1>13. Answer(h, Record(k, content))
  BY <1>1, <1>12 DEF PutModified
<1> QED BY <1>2, <1>9, <1>10, <1>11, <1>12, <1>13, AnswerKeeps

-----------------------------------------------------------------------------
(* The services.                                                            *)
\* A request to one whose records need no job.
Plainly(h) == Working(h) /\ job' = job /\ workload # "gce"

LEMMA DbNames ==
  ASSUME workload # "gce", NEW service, service \notin {"none", "gce"}, NEW n
  PROVE  Plain(DbKey(service, n)) /\ DbKey(service, n)[1] = service /\ SubjectOf(DbKey(service, n)) = <<service, n>>
  BY DEF DbKey, Plain, SubjectOf

NamedOps == {"insertSqlInstance", "deleteSqlInstance", "createCacheCluster", "deleteCacheCluster",
           "createReplicationGroup", "deleteReplicationGroup", "createRedisInstance", "deleteRedisInstance"}

LEMMA NamedWriteNothing ==
  ASSUME NEW op \in NamedOps PROVE op \notin Writing \cup Switchers \cup Snappers \cup {"idle"}
  BY DEF NamedOps, Writing, Modifiers, Switchers, Snappers

LEMMA CreateNamedKeeps ==
  ASSUME NEW h, Plainly(h), NEW op \in NamedOps, NEW service, service \notin {"none", "gce"}, NEW n,
         CreateNamed(h, op, DbKey(service, n))
  PROVE  AnswersInv'
<1>1. PICK k : k = DbKey(service, n)
  OBVIOUS
<1>2. Plain(k)
  BY <1>1, DbNames DEF Plainly
<1> QED BY <1>1, <1>2, NamedWriteNothing, QuietlyLooks, BeginKey DEF CreateNamed, Plainly

LEMMA RemoveNamedKeeps ==
  ASSUME NEW h, Plainly(h), NEW op, NEW service, service \notin {"none", "gce"}, NEW n,
         op \in NamedOps \/ (op = "deleteDBSnapshot" /\ service = "snapshot"),
         RemoveNamed(h, op, DbKey(service, n))
  PROVE  AnswersInv'
<1>1. PICK k : k = DbKey(service, n)
  OBVIOUS
<1>2. Plain(k) /\ k[1] = service
  BY <1>1, DbNames DEF Plainly
<1>3. op \notin Writing \cup Switchers \cup {"idle"} /\ (op \in Snappers => k[1] = "snapshot")
  BY <1>2, NamedWriteNothing DEF Writing, Modifiers, Switchers
<1> QED BY <1>1, <1>2, <1>3, QuietlyLooks, BeginKey DEF RemoveNamed, Plainly

LEMMA ModifyKeeps ==
  ASSUME NEW h, Plainly(h), NEW op \in Modifiers, NEW service, service \notin {"none", "gce", "snapshot"}, NEW n,
         Modify(h, op, DbKey(service, n))
  PROVE  AnswersInv'
<1>1. PICK k : k = DbKey(service, n)
  OBVIOUS
<1>2. Plain(k) /\ k[1] = service
  BY <1>1, DbNames DEF Plainly
<1> QED BY <1>1, <1>2, QuietlyLooks, BeginWritingKeeps DEF Modify, Plainly

LEMMA InsertOverKeeps ==
  ASSUME NEW h, Plainly(h), NEW op, op # "idle", NEW e, NEW p, InsertOver(h, op, e, p)
  PROVE  AnswersInv'
<1>1. PICK k : k = Key(h)
  OBVIOUS
<1>2. Onto(h, k)
  BY <1>1 DEF Onto, Plainly, InsertOver, At
<1>3. PICK content : content = Endpoint(e, p)
  OBVIOUS
<1> QED BY <1>1, <1>2, <1>3, InsertKeeps DEF InsertOver, Plainly

LEMMA DropNamedKeeps ==
  ASSUME NEW h, Working(h), NEW op, op # "idle", DropNamed(h, op)
  PROVE  AnswersInv'
<1>1. PICK k : k = Key(h)
  OBVIOUS
<1>2. Onto(h, k)
  BY <1>1 DEF Onto, DropNamed, At
<1> QED BY <1>1, <1>2, DropKeeps DEF DropNamed

\* A request that goes on to op.
LEMMA TurnKeeps ==
  ASSUME NEW h, Working(h), ~At(h, "idle"), UNCHANGED <<store, maps>>, req[h].op \notin Writing, NEW op, Goto(h, op),
         op \notin Writing \cup Switchers \cup {"idle"}, op \in Snappers => req[h].op \in Snappers
  PROVE  AnswersInv'
<1>1. PICK k : k = Key(h)
  OBVIOUS
<1>2. Onto(h, k)
  BY <1>1 DEF Onto
<1>3. Plain(k) /\ (req[h].op \in Snappers => k[1] = "snapshot")
  BY <1>1, <1>2, OntoIts DEF Task
<1>4. Refiled(h, k)
  BY <1>3, SameRefiled
<1> QED BY <1>2, <1>3, <1>4, GotoKeeps DEF Writing

LEMMA SqlKeeps ==
  ASSUME NEW h, Plainly(h), SqlStep(h)
  PROVE  AnswersInv'
<1>1. {"insertSqlInstance", "deleteSqlInstance"} \subseteq NamedOps /\ "updateSqlInstance" \in Modifiers /\ Working(h)
  BY DEF NamedOps, Modifiers, Plainly
<1>2. insertSqlInstance(h) => AnswersInv'
  BY <1>1, CreateNamedKeeps, InsertOverKeeps DEF insertSqlInstance
<1>3. deleteSqlInstance(h) => AnswersInv'
  BY <1>1, RemoveNamedKeeps, DropNamedKeeps DEF deleteSqlInstance
<1>4. updateSqlInstance(h) => AnswersInv'
  BY <1>1, ModifyKeeps, PutModifiedKeeps DEF updateSqlInstance
<1> QED BY <1>2, <1>3, <1>4 DEF SqlStep

LEMMA CachesKeep ==
  ASSUME NEW h, Plainly(h), CacheStep(h) \/ GroupStep(h)
  PROVE  AnswersInv'
<1>1. /\ {"createCacheCluster", "deleteCacheCluster", "createReplicationGroup", "deleteReplicationGroup"} \subseteq NamedOps
      /\ "modifyCacheCluster" \in Modifiers /\ Working(h)
  BY DEF NamedOps, Modifiers, Plainly
<1>2. createCacheCluster(h) \/ createReplicationGroup(h) => AnswersInv'
  BY <1>1, CreateNamedKeeps, InsertOverKeeps DEF createCacheCluster, createReplicationGroup
<1>3. deleteCacheCluster(h) \/ deleteReplicationGroup(h) => AnswersInv'
  BY <1>1, RemoveNamedKeeps, DropNamedKeeps DEF deleteCacheCluster, deleteReplicationGroup
<1>4. modifyCacheCluster(h) => AnswersInv'
  BY <1>1, ModifyKeeps, PutModifiedKeeps DEF modifyCacheCluster
<1> QED BY <1>2, <1>3, <1>4 DEF CacheStep, GroupStep

LEMMA RedisKeeps ==
  ASSUME NEW h, Plainly(h), RedisStep(h)
  PROVE  AnswersInv'
<1>1. {"createRedisInstance", "deleteRedisInstance"} \subseteq NamedOps /\ "updateRedisInstance" \in Modifiers /\ Working(h)
  BY DEF NamedOps, Modifiers, Plainly
<1>2. createRedisInstance(h) => AnswersInv'
  BY <1>1, CreateNamedKeeps, InsertOverKeeps DEF createRedisInstance
<1>3. deleteRedisInstance(h) => AnswersInv'
  BY <1>1, RemoveNamedKeeps, DropNamedKeeps DEF deleteRedisInstance
<1>4. updateRedisInstance(h) => AnswersInv'
  BY <1>1, ModifyKeeps, PutModifiedKeeps DEF updateRedisInstance
<1> QED BY <1>2, <1>3, <1>4 DEF RedisStep

LEMMA CreateDBStill ==
  ASSUME NEW h, Plainly(h), NEW engines, createDBInstance(h, engines)
  PROVE  AnswersInv'
<1>1. ASSUME NEW n, NEW e, LET k == DbKey("rds", n) IN
               IF Present(k) THEN Shows({SubjectOf(k)})
               ELSE Begin(h, "getOrCreateBackend", SubjectOf(k), [key |-> k, field |-> e])
      PROVE  AnswersInv'
  <2>1. PICK k : k = DbKey("rds", n)
    OBVIOUS
  <2>2. Plain(k)
    BY <2>1, DbNames DEF Plainly
  <2>3. "getOrCreateBackend" \notin Writing \cup Switchers \cup Snappers \cup {"idle"}
    BY DEF Writing, Modifiers, Switchers, Snappers
  <2> QED BY <1>1, <2>1, <2>2, <2>3, QuietlyLooks, BeginField DEF Plainly
<1> QED BY <1>1, InsertOverKeeps DEF createDBInstance

LEMMA DeleteDBStill ==
  ASSUME NEW h, Plainly(h), deleteDBInstance(h)
  PROVE  AnswersInv'
<1>1. ASSUME NEW n, LET k == DbKey("rds", n) IN
               IF Present(k) THEN BeginWriting(h, "deleteDBInstance", k, Deleting) ELSE Shows({SubjectOf(k)})
      PROVE  AnswersInv'
  <2>1. PICK k : k = DbKey("rds", n)
    OBVIOUS
  <2>2. Plain(k) /\ k[1] = "rds"
    BY <2>1, DbNames DEF Plainly
  <2> QED BY <1>1, <2>1, <2>2, QuietlyLooks, BeginWritingKeeps DEF Plainly
<1> QED BY <1>1, DropNamedKeeps DEF deleteDBInstance, Plainly

LEMMA ModifyDBStill ==
  ASSUME NEW h, Plainly(h), modifyDBInstance(h)
  PROVE  AnswersInv'
<1>1. "modifyDBInstance" \in Modifiers /\ Working(h)
  BY DEF Modifiers, Plainly
<1>2. ASSUME NEW n, Present(DbKey("rds", n)), req[h] = Idle,
             maps' = [maps EXCEPT ![store[DbKey("rds", n)].map] = @ \cup Changed],
             AtOnce(SubjectOf(DbKey("rds", n)), HalfChanged(DbKey("rds", n))), store' = store
      PROVE  AnswersInv'
  <2>1. PICK k : k = DbKey("rds", n)
    OBVIOUS
  <2>2. Plain(k) /\ k[1] = "rds"
    BY <2>1, DbNames DEF Plainly
  <2> QED BY <1>1, <1>2, <2>1, <2>2, RefusedKeeps
<1> QED BY <1>1, <1>2, ModifyKeeps, PutModifiedKeeps DEF modifyDBInstance

LEMMA SnapshotStill ==
  ASSUME NEW h, Plainly(h), SnapshotStep(h)
  PROVE  AnswersInv'
<1>1. Working(h)
  BY DEF Plainly
<1>2. createDBSnapshot(h) => AnswersInv'
  <2>1. ASSUME NEW n, NEW t, IF Present(DbKey("rds", n))
                             THEN Begin(h, "findSnapshot", <<"snapshot", t>>, [key |-> DbKey("snapshot", t)])
                             ELSE Shows({<<"rds", n>>})
        PROVE  AnswersInv'
    <3>1. PICK k : k = DbKey("snapshot", t)
      OBVIOUS
    <3>2. Plain(k) /\ k[1] = "snapshot" /\ SubjectOf(k) = <<"snapshot", t>>
      BY <3>1, DbNames DEF Plainly
    <3>3. "findSnapshot" \notin Writing \cup Switchers \cup {"idle"}
      BY DEF Writing, Modifiers, Switchers
    <3> QED BY <1>1, <2>1, <3>1, <3>2, <3>3, QuietlyLooks, BeginKey DEF Plainly
  <2>2. CASE At(h, "findSnapshot") /\ UNCHANGED <<store, maps>> /\ (Answer(h, Promised(h)) \/ Goto(h, "putSnapshot"))
    <3>1. ~At(h, "idle") /\ req[h].op \notin Writing /\ req[h].op \in Snappers
          /\ "putSnapshot" \notin Writing \cup Switchers \cup {"idle"} /\ Onto(h, Key(h))
      BY <1>1, <2>2 DEF At, Writing, Modifiers, Switchers, Snappers, Onto
    <3> QED BY <1>1, <2>2, <3>1, TurnKeeps, SayAgainKeeps
  <2>3. CASE InsertNamed(h, "putSnapshot")
    <3>1. Onto(h, Key(h)) /\ Key(h)[1] = "snapshot"
      BY <1>1, <2>3 DEF Onto, InsertNamed, At, Working, AnswersInv, Task, Snappers
    <3> QED BY <2>3, <3>1, InsertBareKeeps DEF InsertNamed
  <2> QED BY <2>1, <2>2, <2>3 DEF createDBSnapshot
<1>3. deleteDBSnapshot(h) => AnswersInv'
  BY <1>1, RemoveNamedKeeps, DropNamedKeeps DEF deleteDBSnapshot
<1>4. At(h, "getOrCreateBackend") /\ Goto(h, "putDBInstance") /\ UNCHANGED <<store, maps>> => AnswersInv'
  BY <1>1, TurnKeeps DEF At, Writing, Modifiers, Switchers, Snappers
<1> QED BY <1>2, <1>3, <1>4, CreateDBStill, DeleteDBStill, ModifyDBStill DEF SnapshotStep

LEMMA GetOrCreateStill ==
  ASSUME NEW h, Working(h), getOrCreateBackend(h)
  PROVE  AnswersInv'
<1>1. {"getOrCreateBackend", "initBackend", "putDBInstance"} \cap (Writing \cup Switchers \cup Snappers \cup {"idle"}) = {}
  BY DEF Writing, Modifiers, Switchers, Snappers
<1>2. FindBackend(h) => AnswersInv'
  BY <1>1, TurnKeeps DEF FindBackend, At
<1>3. At(h, "initBackend") /\ UNCHANGED <<store, maps>> /\ BackendReady(h) => AnswersInv'
  BY <1>1, TurnKeeps DEF BackendReady, At
<1>4. At(h, "initBackend") /\ UNCHANGED <<store, maps>> /\ BackendFailed(h) => AnswersInv'
  <2> HAVE At(h, "initBackend") /\ UNCHANGED <<store, maps>> /\ BackendFailed(h)
  <2>1. Onto(h, Key(h)) /\ req[h].op \notin Writing
    BY <1>1 DEF Onto, At
  <2> QED BY <2>1, SayAgainKeeps DEF BackendFailed
<1> QED BY <1>2, <1>3, <1>4 DEF getOrCreateBackend

\* clusters
LEMMA ClusterPlain ==
  ASSUME workload = "clusters", NEW k \in ClusterKeys
  PROVE  Plain(k)
  BY DEF ClusterKeys, EksKeys, GkeKeys, Plain

LEMMA MakeClusterStill ==
  ASSUME NEW h, Working(h), workload = "clusters", NEW keys, keys \subseteq ClusterKeys, MakeCluster(h, keys)
  PROVE  AnswersInv'
<1>1. {"createCluster"} \cap (Writing \cup Switchers \cup Snappers \cup {"idle"}) = {}
      /\ "register" \notin Modifiers \cup Switchers \cup Snappers \cup {"idle"} /\ \A k \in keys : Plain(k)
  BY ClusterPlain DEF Writing, Modifiers, Switchers, Snappers
<1>2. PICK k : k = Key(h)
  OBVIOUS
<1>3. At(h, "createCluster") \/ At(h, "register") => Onto(h, k)
  BY <1>2 DEF Onto, At
<1>4. CASE At(h, "createCluster") /\ Answer(h, Promised(h)) /\ UNCHANGED <<store, maps>>
  BY <1>1, <1>3, <1>4, SayAgainKeeps DEF At
<1>5. CASE At(h, "createCluster") /\ InPhase(h, "ready") /\ PutNew(k, {job[h].container}) /\ Goto(h, "register") /\ job' = job
  <2>1. Refiled(h, k) /\ Present(k)' /\ store'[k].status = "available" /\ Content(store[k])' = {job'[h].container}
    BY <1>3, <1>5, PutNewRefiled
  <2> QED BY <1>1, <1>3, <1>5, <2>1, GotoKeeps DEF InPhase
<1>6. CASE At(h, "register") /\ Answer(h, Record(k, {job[h].container})) /\ UNCHANGED <<store, maps>>
  <2>1. Filing /\ Plain(k) /\ UpToDate(h) /\ Refiled(h, k)
    BY <1>3, <1>6, OntoIts, SameRefiled DEF Onto, Working, AnswersInv
  <2>2. View(SubjectOf(k))' = View(SubjectOf(k))
    BY <1>6 DEF View, Listed, Content
  <2>3. req[h].alone => Record(k, {job[h].container}) = View(SubjectOf(k))
    BY <1>2, <1>6, <2>1, OneListed DEF UpToDate, At, Record
  <2> QED BY <1>3, <1>6, <2>1, <2>2, <2>3, AnswerKeeps
<1>7. CASE \E l \in keys : IF Present(l) THEN Shows({SubjectOf(l)}) /\ UNCHANGED <<job, trouble>>
                                         ELSE Begin(h, "createCluster", SubjectOf(l), [key |-> l])
  BY <1>1, <1>7, QuietlyLooks, BeginKey
<1> QED BY <1>2, <1>4, <1>5, <1>6, <1>7 DEF MakeCluster

LEMMA UnmakeClusterStill ==
  ASSUME NEW h, Working(h), workload = "clusters", NEW keys, keys \subseteq ClusterKeys, UnmakeCluster(h, keys)
  PROVE  AnswersInv'
<1>1. {"deleteCluster", "dropCluster"} \cap (Writing \cup Switchers \cup Snappers \cup {"idle"}) = {}
      /\ \A k \in keys : Plain(k)
  BY ClusterPlain DEF Writing, Modifiers, Switchers, Snappers
<1>2. CASE DropCluster(h, keys)
  <2>1. Onto(h, Key(h))
    BY <1>2 DEF Onto, At, DropCluster
  <2> QED BY <1>2, <2>1, DropKeeps DEF DropCluster
<1>3. CASE At(h, "deleteCluster") /\ Goto(h, "dropCluster") /\ UNCHANGED <<store, maps>>
  BY <1>1, <1>3, TurnKeeps DEF At
<1>4. CASE \E l \in keys : IF ~Present(l) THEN Shows({SubjectOf(l)}) /\ UNCHANGED <<job, trouble>>
                                          ELSE Begin(h, "deleteCluster", SubjectOf(l), [key |-> l, copy |-> store[l]])
  BY <1>1, <1>4, QuietlyLooks, BeginCopy
<1> QED BY <1>2, <1>3, <1>4 DEF UnmakeCluster

LEMMA ClusterStill ==
  ASSUME NEW h, Working(h), workload = "clusters", ClusterStep(h)
  PROVE  AnswersInv'
<1>1. EksKeys \subseteq ClusterKeys /\ GkeKeys \subseteq ClusterKeys
  BY DEF ClusterKeys
<1> QED BY <1>1, MakeClusterStill, UnmakeClusterStill
        DEF ClusterStep, eksCreateCluster, eksDeleteCluster, gkeCreateCluster, gkeDeleteCluster

\* gce
LEMMA InstancePlain ==
  ASSUME workload = "gce", NEW k \in GceKeys
  PROVE  Plain(k) /\ k[1] = "gce"
  BY DEF GceKeys, Plain

LEMMA InsertStill ==
  ASSUME PortsInv, NEW h, Working(h), workload = "gce", insertInstance(h)
  PROVE  AnswersInv'
<1>1. "insertInstance" \notin Writing \cup Switchers \cup Snappers \cup {"idle"}
  BY DEF Writing, Modifiers, Switchers, Snappers
<1>2. PICK k : k = Key(h)
  OBVIOUS
<1>3. At(h, "insertInstance") => Onto(h, k)
  BY <1>1, <1>2 DEF Onto, At
<1>4. CASE At(h, "insertInstance") /\ Answer(h, Promised(h)) /\ UNCHANGED <<store, maps>>
  BY <1>1, <1>3, <1>4, SayAgainKeeps DEF At
<1>5. CASE At(h, "insertInstance") /\ InPhase(h, "ready") /\ PutNew(k, {job[h].container})
           /\ Answer(h, Record(k, {job[h].container}))
  <2>1. job[h].container \in Container
    BY <1>5, Constants DEF Working, PortsInv, EngineInv, HeldHaveRun, Held, HandedOn, InPhase
  <2>2. PICK content : content = {job[h].container}
    OBVIOUS
  <2> QED BY <1>3, <1>5, <2>1, <2>2, InsertKeeps
<1>6. CASE \E l \in GceKeys : IF Present(l) THEN Shows({SubjectOf(l)}) /\ UNCHANGED <<job, trouble>>
                                            ELSE Begin(h, "insertInstance", SubjectOf(l), [key |-> l])
  BY <1>1, <1>6, InstancePlain, QuietlyLooks, BeginKey
<1> QED BY <1>2, <1>4, <1>5, <1>6 DEF insertInstance

LEMMA DeleteStill ==
  ASSUME NEW h, Working(h), workload = "gce", deleteInstance(h)
  PROVE  AnswersInv'
<1>1. "deleteInstance" \notin Writing \cup Switchers \cup Snappers \cup {"idle"}
  BY DEF Writing, Modifiers, Switchers, Snappers
<1>2. CASE At(h, "deleteInstance") /\ Delete(Key(h)) /\ Answer(h, Gone)
  <2>1. Onto(h, Key(h))
    BY <1>2 DEF Onto, At
  <2> QED BY <1>2, <2>1, DropKeeps
<1>3. CASE \E l \in GceKeys : IF ~Present(l) THEN Shows({SubjectOf(l)}) /\ UNCHANGED <<job, trouble>>
                                             ELSE Begin(h, "deleteInstance", SubjectOf(l), [key |-> l, copy |-> store[l]])
  BY <1>1, <1>3, InstancePlain, QuietlyLooks, BeginCopy
<1> QED BY <1>2, <1>3 DEF deleteInstance

LEMMA SwitchStill ==
  ASSUME PortsInv, NEW h, Working(h), workload = "gce", NEW op \in Switchers, NEW kind, NEW from, Switch(h, op, kind, from)
  PROVE  AnswersInv'
<1>1. PICK k \in GceKeys : IF Present(k) /\ store[k].status = from
                           THEN /\ Begin(h, op, SubjectOf(k), [key |-> k, copy |-> store[k]])
                                /\ TakeJob(h, kind, k[2], "switch", GceContainer(store[k]))
                           ELSE Shows({SubjectOf(k)}) /\ UNCHANGED <<job, trouble>>
  BY DEF Switch
<1>2. CASE /\ Present(k) /\ Begin(h, op, SubjectOf(k), [key |-> k, copy |-> store[k]])
           /\ TakeJob(h, kind, k[2], "switch", GceContainer(store[k]))
  <2>1. EngineInv /\ h \in Runner
    BY Constants DEF PortsInv, Working
  <2>2. OnlyJob(h, NewJob(kind, k[2], "switch", GceContainer(store[k])))
    BY <1>2, <2>1, TakeJobOnly
  <2>3. job'[h].phase = "switch" /\ job'[h].container = GceContainer(store[k])
    BY <2>1, <2>2 DEF OnlyJob, NewJob
  <2> QED BY <1>2, <2>3, InstancePlain, BeginSwitch
<1> QED BY <1>1, <1>2, QuietlyLooks

LEMMA SwitchedStill ==
  ASSUME NEW h, Working(h), NEW op \in Switchers, NEW status, NEW promise,
         promise = Only(Key(h), [status |-> status, content |-> {job[h].container}]),
         Switched(h, op, status, promise)
  PROVE  AnswersInv'
<1>1. PICK k : k = Key(h)
  OBVIOUS
<1>2. Onto(h, k) /\ req[h].op = op
  BY <1>1 DEF Onto, Switched, At, Switchers
<1>3. /\ Plain(k) /\ Task(h) /\ k[1] = "gce" /\ Filed(k, req[h].copy) /\ Proper(req[h].copy) /\ Filing
  BY <1>1, <1>2, OntoIts DEF Task
<1>4. PICK p : p = req[h].copy
  OBVIOUS
<1>5. PICK r : r = [p EXCEPT !.status = status]
  OBVIOUS
<1>6. r.status = status /\ r.map = p.map /\ Proper(r)
  BY <1>3, <1>4, <1>5 DEF Proper
<1>7. Put(k, r) /\ maps' = maps /\ Answer(h, promise)
  BY <1>1, <1>4, <1>5 DEF Switched
<1>8. Filed(k, r)
  BY <1>3, <1>4, <1>6 DEF Filed
<1>9. Refiled(h, k) /\ Present(k)' /\ store'[k] = r /\ Content(store[k])' = Content(p)
  BY <1>2, <1>4, <1>6, <1>7, <1>8, PutBackRefiled
<1>10. View(SubjectOf(k))' = Only(k, [status |-> status, content |-> Content(p)])
  BY <1>3, <1>6, <1>9, ViewNow
<1>11. req[h].alone => Content(p) = {job[h].container}
  BY <1>2, <1>4 DEF Onto, Working, AnswersInv, UpToDate
<1> QED BY <1>1, <1>2, <1>7, <1>9, <1>10, <1>11, AnswerKeeps

LEMMA PauseStill ==
  ASSUME PortsInv, NEW h, Working(h), Pause(h) \/ Unpause(h)
  PROVE  AnswersInv'
<1>1. PICK op \in Switchers : At(h, op) /\ UNCHANGED <<store, maps>>
  BY DEF Pause, Unpause, Switchers
<1>2. Onto(h, Key(h)) /\ req[h].op \in Switchers /\ req[h].op \notin Writing
  BY <1>1 DEF Onto, At, Switchers, Writing, Modifiers
<1>3. CASE To(h, "switched") /\ UNCHANGED <<req, said>>
  <2>1. EngineInv /\ h \in Runner
    BY Constants DEF PortsInv, Working
  <2>2. job'[h].phase = "switched" /\ job'[h].container = job[h].container
    BY <1>3, <2>1, ToOnly DEF OnlyJob
  <2> QED BY <1>1, <1>2, <1>3, <2>2, SwitchKeeps
<1>4. CASE Answer(h, Promised(h))
  BY <1>1, <1>2, <1>4, SayAgainKeeps
<1> QED BY <1>3, <1>4 DEF Pause, Unpause

LEMMA GceStill ==
  ASSUME PortsInv, NEW h, Working(h), workload = "gce", GceStep(h)
  PROVE  AnswersInv'
<1>1. {"startInstance", "stopInstance"} \subseteq Switchers
  BY DEF Switchers
<1>2. startInstance(h) => AnswersInv'
  <2> HAVE startInstance(h)
  <2>1. PICK promise : promise = Record(Key(h), {job[h].container})
    OBVIOUS
  <2> QED BY <1>1, <2>1, SwitchStill, SwitchedStill DEF startInstance, Record
<1>3. stopInstance(h) => AnswersInv'
  <2> HAVE stopInstance(h)
  <2>1. PICK promise : promise = Only(Key(h), Stopped(job[h].container))
    OBVIOUS
  <2> QED BY <1>1, <2>1, SwitchStill, SwitchedStill DEF stopInstance, Stopped
<1> QED BY <1>2, <1>3, InsertStill, DeleteStill, PauseStill DEF GceStep
-----------------------------------------------------------------------------
\* A request leaves the jobs of the others to them.
LEMMA OwnJob ==
  ASSUME PortsInv, NEW h \in Handler, ServiceStep(h)
  PROVE  \A g \in Handler : g # h => job'[g] = job[g]
<1>1. job = [q \in Runner |-> job[q]] /\ h \in Runner /\ \A g \in Handler : g \in Runner
  BY JobAt, Constants DEF PortsInv
<1>2. workload = "clusters" /\ ClusterStep(h) => \A g \in Handler : g # h => job'[g] = job[g]
  BY <1>1 DEF ClusterStep, eksCreateCluster, eksDeleteCluster, gkeCreateCluster, gkeDeleteCluster,
              MakeCluster, UnmakeCluster, DropCluster, TakeJob, EndJob, To
<1>3. workload = "gce" /\ GceStep(h) => \A g \in Handler : g # h => job'[g] = job[g]
  BY <1>1 DEF GceStep, insertInstance, deleteInstance, startInstance, stopInstance, Switch, Switched, Pause, Unpause,
              TakeJob, EndJob, To
<1>4. workload = "rds" /\ RdsStep(h) => \A g \in Handler : g # h => job'[g] = job[g]
  BY <1>1 DEF RdsStep, getOrCreateBackend, FindBackend, TakeJob, EndJob
<1> QED BY <1>2, <1>3, <1>4 DEF ServiceStep, engineVars

LEMMA RequestsStill ==
  ASSUME PortsInv, AnswersInv, Requests, UNCHANGED workload
  PROVE  AnswersInv'
<1>1. PICK h \in Handler : ServiceStep(h)
  BY DEF Requests
<1>2. Working(h)
  BY <1>1, OwnJob DEF Working
<1>3. workload = "rds" /\ RdsStep(h) => AnswersInv'
  <2> HAVE workload = "rds" /\ RdsStep(h)
  <2>1. job' = job => Plainly(h)
    BY <1>2 DEF Plainly
  <2> QED BY <1>2, <2>1, GetOrCreateStill, CreateDBStill, DeleteDBStill DEF RdsStep
<1>4. workload \notin {"clusters", "gce", "rds"} /\ UNCHANGED engineVars => Plainly(h)
  BY <1>2 DEF Plainly, engineVars
<1> QED BY <1>1, <1>2, <1>3, <1>4, ClusterStill, GceStill, SqlKeeps, CachesKeep, RedisKeeps, SnapshotStill DEF ServiceStep

LEMMA ReadsStill ==
  ASSUME AnswersInv, Reads, UNCHANGED workload
  PROVE  AnswersInv'
<1>1. \A g \in Handler : Waits(g)
  BY DEF Reads, engineVars, Waits
<1>2. \E subjects : Shows(subjects)
  BY DEF Reads, ClusterReads, describeCluster, eksListClusters, getCluster, gkeListClusters,
         GceReads, getInstance, listInstances, RdsReads, describeDBInstances,
         SqlReads, getSqlInstance, listSqlInstances, CacheReads, describeCacheClusters,
         GroupReads, describeReplicationGroups, RedisReads, getRedisInstance, listRedisInstances,
         SnapshotReads, describeDBSnapshots
<1> QED BY <1>1, <1>2, ShowsKeeps

\* Docker and the server work on jobs that no handler is waiting to end.
LEMMA DockerWaits ==
  ASSUME PortsInv, DockerSteps
  PROVE  \A g \in Handler : Waits(g)
<1>1. PICK r \in Runner : EngineStep(r)
  BY DEF DockerSteps
<1>2. job[r].phase \notin {"ready", "switch", "switched"}
  BY <1>1 DEF EngineStep, Allocate, Create, Start, Wait, Stop, Remove, StopIt, RemoveIt, InPhase
<1>3. \A q \in Runner \ {r} : job'[q] = job[q]
  BY <1>1, JobAt DEF PortsInv, EngineStep, Allocate, Create, Start, Wait, Stop, Remove, StopIt, RemoveIt, To
<1> QED BY <1>2, <1>3, Constants DEF Waits

LEMMA ServerWaits ==
  ASSUME PortsInv, ServerStep
  PROVE  \A g \in Handler : Waits(g)
  BY Constants, JobAt DEF ServerStep, InitAll, InitS3, InitElasticache, InitRds, InitDynamodb, StartEngine,
       InitCloudSql, InitMemorystore, ReadAddresses, EngineFailed, NothingToStart, Serve,
       ShutdownAll, Signal, EnterShutdown, NothingToShut, ShutOne, OneShut, Exit,
       TakeJob, EndJob, PortsInv, Waits

LEMMA StoresStill ==
  ASSUME AnswersInv, UNCHANGED <<stores, workload>>, \A g \in Handler : Waits(g)
  PROVE  AnswersInv'
<1>1. said' = [s \in Subject |-> said'[s]]
  BY DEF AnswersInv, Filing, stores
<1> QED BY <1>1, LooksKeep DEF stores

LEMMA AnswersInit == Init => AnswersInv
<1> SUFFICES ASSUME Init PROVE AnswersInv
  OBVIOUS
<1>1. DOMAIN store = {} /\ (\A h \in Handler : req[h] = Idle) /\ \A s \in Subject : said[s] = Gone
  BY DEF Init, RecInit, Gone
<1>2. Filing
  BY <1>1 DEF Init, RecInit, Filing
<1>3. \A h \in Handler : Task(h) /\ UpToDate(h)
  BY <1>1, IdleHas DEF Task, UpToDate, Writing
<1>4. OneKeyed /\ OneAlone
  BY <1>1, IdleHas DEF OneKeyed, OneAlone
<1>5. \A s \in Subject : Shown(s)
  BY <1>1 DEF Shown, View, Listed, Gone
<1> QED BY <1>2, <1>3, <1>4, <1>5 DEF AnswersInv

LEMMA AnswersNext == PortsInv /\ AnswersInv /\ [Next]_vars => AnswersInv'
<1> SUFFICES ASSUME PortsInv, AnswersInv, [Next]_vars
             PROVE  AnswersInv'
  OBVIOUS
<1>1. CASE ServerStep /\ UNCHANGED workload
  BY <1>1, ServerWaits, StoresStill DEF ServerStep
<1>2. CASE DockerSteps /\ UNCHANGED workload
  BY <1>2, DockerWaits, StoresStill DEF DockerSteps
<1>3. CASE UNCHANGED vars
  BY <1>3, StoresStill DEF vars, recVars, engineVars, stores, Waits
<1> QED BY <1>1, <1>2, <1>3, RequestsStill, ReadsStill DEF Next

(* A record that nobody is working on is as the last answer about it said,  *)
(* for any number of handlers, names, containers and maps: the handlers of  *)
(* clusters, instances and databases (service/eks, gke, gce, rds, cloudsql, *)
(* elasticache, memorystore) write a map that the store shares, switch a    *)
(* container or register a backend before or after they put the record, but *)
(* none of them answers before all of it is done, or after an error when    *)
(* half of it is done.                                                      *)
THEOREM AnswersAreKept == Spec => []AnswersHold
<1>1. AnswersInv => AnswersHold
  BY DEF AnswersInv, AnswersHold, Shown, Untold
<1> QED BY <1>1, PortsInit, PortsNext, AnswersInit, AnswersNext, PTL DEF Spec

=============================================================================
