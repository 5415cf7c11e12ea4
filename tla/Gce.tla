--------------------------------- MODULE Gce ---------------------------------
(***************************************************************************)
(* internal/service/gce/actions.go: instances by project, zone and name,   *)
(* with a container named after all three.  RUNNING is a running container *)
(* and TERMINATED a paused one; no port is published.  A handler works on  *)
(* the copy of the record it read first, and puts that back.               *)
(***************************************************************************)
EXTENDS RecordStore, Engine

CONSTANT GceName

GceKeys == {<<"gce", n, n>> : n \in GceName}

Stopped(c)     == [status |-> "stopped", content |-> {c}]
GceContainer(r) == CHOOSE c \in Content(r) : c \in Container

\* The limiter may refuse; then nothing has happened.
insertInstance(h) ==
  \/ \E k \in GceKeys :
       IF Present(k) THEN Shows({SubjectOf(k)}) /\ UNCHANGED <<job, trouble>>
       ELSE /\ MayMake(h, k[2])
            /\ Begin(h, "insertInstance", SubjectOf(k), [key |-> k])
            /\ TakeJob(h, "make", k[2], "create", NoContainer)
  \/ /\ At(h, "insertInstance") /\ job[h].phase \in {"create", "failed"}
     /\ Answer(h, Promised(h)) /\ EndJob(h)
     /\ UNCHANGED <<store, maps, trouble>>
  \/ /\ At(h, "insertInstance") /\ InPhase(h, "ready")
     /\ PutNew(Key(h), {job[h].container})
     /\ Answer(h, Record(Key(h), {job[h].container})) /\ EndJob(h)
     /\ UNCHANGED trouble

deleteInstance(h) ==
  \/ \E k \in GceKeys :
       IF ~Present(k) THEN Shows({SubjectOf(k)}) /\ UNCHANGED <<job, trouble>>
       ELSE /\ Begin(h, "deleteInstance", SubjectOf(k), [key |-> k, copy |-> store[k]])
            /\ TakeJob(h, "unmake", k[2], "stopIt", GceContainer(store[k]))
  \/ /\ At(h, "deleteInstance") /\ InPhase(h, "closed")
     /\ Delete(Key(h))
     /\ Answer(h, Gone) /\ EndJob(h)
     /\ UNCHANGED trouble

\* StartInstance and StopInstance: one that has the status already is left alone.
Switch(h, op, kind, from) ==
  \E k \in GceKeys :
    IF Present(k) /\ store[k].status = from
    THEN /\ Begin(h, op, SubjectOf(k), [key |-> k, copy |-> store[k]])
         /\ TakeJob(h, kind, k[2], "switch", GceContainer(store[k]))
    ELSE Shows({SubjectOf(k)}) /\ UNCHANGED <<job, trouble>>

Switched_ForgetsPut(h, op, status, promise) ==
  /\ At(h, op) /\ InPhase(h, "switched")
  /\ Answer(h, promise) /\ EndJob(h)
  /\ UNCHANGED <<store, maps, trouble>>

Switched(h, op, status, promise) ==
  /\ At(h, op) /\ InPhase(h, "switched")
  /\ Put(Key(h), [req[h].copy EXCEPT !.status = status])
  /\ Answer(h, promise) /\ EndJob(h)
  /\ UNCHANGED <<maps, trouble>>

\* The container first; when Docker refuses, the record stays as it is.
Unpause(h) ==
  /\ At(h, "startInstance") /\ InPhase(h, "switch")
  /\ \/ UnpauseContainer(job[h].container, TRUE) /\ To(h, "switched") /\ UNCHANGED <<req, said, raced>>
     \/ UnpauseContainer(job[h].container, FALSE) /\ Answer(h, Promised(h)) /\ EndJob(h)
  /\ UNCHANGED <<store, maps, trouble>>

Pause(h) ==
  /\ At(h, "stopInstance") /\ InPhase(h, "switch")
  /\ \/ PauseContainer(job[h].container, TRUE) /\ To(h, "switched") /\ UNCHANGED <<req, said, raced>>
     \/ PauseContainer(job[h].container, FALSE) /\ Answer(h, Promised(h)) /\ EndJob(h)
  /\ UNCHANGED <<store, maps, trouble>>

startInstance(h) == \/ Switch(h, "startInstance", "start", "stopped")
                    \/ Switched(h, "startInstance", "available", Record(Key(h), {job[h].container}))

stopInstance(h)  == \/ Switch(h, "stopInstance", "halt", "available")
                    \/ Switched(h, "stopInstance", "stopped", Only(Key(h), Stopped(job[h].container)))

getInstance   == \E k \in GceKeys : Shows({SubjectOf(k)})
listInstances == Shows({s \in Subject : s[1] = "gce"})

GceStep(h) == /\ \/ UNCHANGED containers /\ (insertInstance(h) \/ deleteInstance(h)
                                             \/ startInstance(h) \/ stopInstance(h))
                 \/ Unpause(h) \/ Pause(h)
              /\ UNCHANGED <<owner, published, emptied, registry, drawn>>
GceReads   == getInstance \/ listInstances
=============================================================================
