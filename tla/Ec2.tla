-------------------------------- MODULE Ec2 --------------------------------
(***************************************************************************)
(* internal/service/ec2/actions.go on top of the in-memory state store     *)
(* (internal/state/memory.go) and Docker.  Handlers are goroutines of the  *)
(* HTTP server.  They take no lock: between its Get, its Docker calls and  *)
(* its Put a handler is interleaved with the others, so each of these is a *)
(* step of its own.                                                        *)
(*                                                                         *)
(* A record is its status and the container it points to; the key says     *)
(* which.  Res(i) is the record that RunInstances writes for instance i;   *)
(* Orphan(c) is the one the reconciler writes for container c, under the   *)
(* first 12 characters of the container id.  Spec["StateName"], which      *)
(* DescribeInstances reports, is kept apart from the record: Get and Put   *)
(* copy the struct but not the Spec map, so all copies of the record of an *)
(* instance share one map.                                                 *)
(***************************************************************************)
EXTENDS Docker, Sequences, FiniteSets

CONSTANTS Instance,        \* ids that generateHex17 can return
          Handler,         \* concurrent requests
          Counts,          \* <<MinCount, MaxCount>> of RunInstances requests
          MaxContainers,   \* limits.max_containers
          IdLists          \* InstanceId.1, InstanceId.2 ... of a request: one at least

Res(c)    == <<"res", c>>
Orphan(c) == <<"ctr", c>>
Key == {"res", "ctr"} \X Container
ContainerOf(k) == k[2]

Status == {"running", "stopped", "terminated", "orphan"}

ASSUME Ec2Assumption ==
  /\ Instance \subseteq Container
  /\ \A m \in Counts : m \in Nat \X Nat
  /\ MaxContainers \in Nat
  /\ IdLists \subseteq Seq(Key) \ {<<>>}

VARIABLES store,      \* key -> status of the record, or "absent"
          stateName,  \* instance -> Spec["StateName"] of the map its records share
          req         \* handler -> the request it is working on

ec2Vars == <<containers, store, stateName, req>>

Pc == {"idle", "run", "start", "insert", "finish", "undoStop", "undoRemove", "undoDelete",
       "get", "pause", "unpause", "stop", "remove", "setSpec", "put"}

\* ids: the ids still to be worked on (Start/Stop/Terminate) or the instances
\* launched so far (Run);  cur: the instance being launched or undone.
Request == [pc : Pc, op : {"none", "run", "stop", "start", "terminate"},
            ids : Seq(Key), counts : Nat \X Nat, cur : Container \cup {"none"}]

Idle == [pc |-> "idle", op |-> "none", ids |-> <<>>, counts |-> <<0, 0>>, cur |-> "none"]

TypeOK == /\ DockerTypeOK
          /\ store \in [Key -> Status \cup {"absent"}]
          /\ stateName \in [Instance -> {"none", "running", "stopped", "terminated"}]
          /\ req \in [Handler -> Request]

Ec2Init == /\ store = [k \in Key |-> "absent"]
           /\ stateName = [i \in Instance |-> "none"]
           /\ req = [h \in Handler |-> Idle]
-----------------------------------------------------------------------------
Present(k) == store[k] # "absent"
Put(k, s)  == store' = [store EXCEPT ![k] = s]
Delete(k)  == store' = [store EXCEPT ![k] = "absent"]

Goto(h, pc) == req' = [req EXCEPT ![h].pc = pc]
Return(h)   == req' = [req EXCEPT ![h] = Idle]
\* The next turn of a loop over the ids, or the answer when none is left.
NextTurn(r, pc) == IF Len(r.ids) = 1 THEN Idle
                   ELSE [r EXCEPT !.pc = pc, !.ids = Tail(r.ids)]
NextId(h)   == req' = [req EXCEPT ![h] = NextTurn(req[h], "get")]
At(h, pc)   == req[h].pc = pc
Id(h)       == Head(req[h].ids)

Active == Cardinality({k \in Key : store[k] \notin {"absent", "terminated", "orphan"}})
CheckContainerLimit == Active < MaxContainers
-----------------------------------------------------------------------------
(* RunInstances                                                             *)

\* Parameters are valid and the limits are looked at, once for the request.
RunInstances(h, counts) ==
  /\ At(h, "idle")
  /\ CheckContainerLimit
  /\ req' = [req EXCEPT ![h] = [Idle EXCEPT !.pc = "run", !.op = "run", !.counts = counts]]
  /\ UNCHANGED <<containers, store, stateName>>

\* One turn of the launch loop: RunContainer pulls the image and creates the
\* container; a failure so far ends the loop ...
Create(h) ==
  /\ At(h, "run")
  /\ \/ \E i \in Instance : /\ CreateContainer(i)
                            /\ req' = [req EXCEPT ![h].pc = "start", ![h].cur = i]
     \/ Goto(h, "finish") /\ UNCHANGED containers
  /\ UNCHANGED <<store, stateName>>

\* ... and starts it.  If that fails, the created container is left behind.
Start(h) ==
  /\ At(h, "start")
  /\ \E ok \in BOOLEAN :
       /\ StartContainer(req[h].cur, ok)
       /\ IF ok THEN Goto(h, "insert")
                ELSE req' = [req EXCEPT ![h].pc = "finish", ![h].cur = "none"]
  /\ UNCHANGED <<store, stateName>>

\* InspectContainer only fills in the address.  The record is inserted.
Insert(h) ==
  LET r == req[h]  ids == Append(r.ids, Res(r.cur)) IN
  /\ At(h, "insert")
  /\ Put(Res(r.cur), "running")
  /\ stateName' = [stateName EXCEPT ![r.cur] = "running"]
  /\ req' = [req EXCEPT ![h].pc = IF Len(ids) < r.counts[2] THEN "run" ELSE "finish",
                        ![h].ids = ids, ![h].cur = "none"]
  /\ UNCHANGED containers

\* Fewer than MinCount instances run: what was launched is taken down again.
FinishRun(h) ==
  LET r == req[h] IN
  /\ At(h, "finish")
  /\ IF Len(r.ids) < r.counts[1] /\ r.ids # <<>> THEN Goto(h, "undoStop") ELSE Return(h)
  /\ UNCHANGED <<containers, store, stateName>>

\* Failures to stop and to remove are only logged, here and in Terminate.
UndoStop(h) ==
  /\ At(h, "undoStop")
  /\ \E ok \in BOOLEAN : StopContainer(ContainerOf(Id(h)), ok)
  /\ Goto(h, "undoRemove")
  /\ UNCHANGED <<store, stateName>>

UndoRemove_Skipped(h) ==
  /\ At(h, "undoRemove")
  /\ Goto(h, "undoDelete")
  /\ UNCHANGED <<containers, store, stateName>>

UndoRemove(h) ==
  /\ At(h, "undoRemove")
  /\ \E ok \in BOOLEAN : RemoveContainer(ContainerOf(Id(h)), ok)
  /\ Goto(h, "undoDelete")
  /\ UNCHANGED <<store, stateName>>

UndoDelete(h) ==
  /\ At(h, "undoDelete")
  /\ Delete(Id(h))
  /\ req' = [req EXCEPT ![h] = NextTurn(req[h], "undoStop")]
  /\ UNCHANGED <<containers, stateName>>
-----------------------------------------------------------------------------
(* StopInstances, StartInstances, TerminateInstances: a loop over the ids.  *)

ChangeInstances(h, op, ids) ==
  /\ At(h, "idle")
  /\ req' = [req EXCEPT ![h] = [Idle EXCEPT !.pc = "get", !.op = op, !.ids = ids]]
  /\ UNCHANGED <<containers, store, stateName>>

\* Terminate judges by Spec["StateName"]; a record without Spec by its status.
PrevStateName(k) == IF k = Res(ContainerOf(k)) THEN stateName[ContainerOf(k)]
                                               ELSE store[k]

\* What the handler decides on what Get returned.
Verdict(op, k) ==
  CASE ~Present(k) -> "error"
    [] op = "stop" /\ Present(k) ->
         CASE store[k] = "terminated" -> "error"
           [] store[k] = "stopped"    -> "done"
           [] OTHER                   -> "pause"
    [] op = "start" /\ Present(k) ->
         CASE store[k] = "running" -> "done"
           [] store[k] = "stopped" -> "unpause"
           [] OTHER                -> "error"
    [] op = "terminate" /\ Present(k) ->
         IF PrevStateName(k) = "terminated" THEN "done" ELSE "stop"

GetInstance(h) ==
  LET v == Verdict(req[h].op, Id(h)) IN
  /\ At(h, "get")
  /\ \/ v = "error" /\ Return(h)
     \/ v = "done" /\ NextId(h)
     \/ v \notin {"error", "done"} /\ Goto(h, v)
  /\ UNCHANGED <<containers, store, stateName>>

Pause(h) ==
  /\ At(h, "pause")
  /\ \E ok \in BOOLEAN : /\ PauseContainer(ContainerOf(Id(h)), ok)
                         /\ IF ok THEN Goto(h, "setSpec") ELSE Return(h)
  /\ UNCHANGED <<store, stateName>>

Unpause(h) ==
  /\ At(h, "unpause")
  /\ \E ok \in BOOLEAN : /\ UnpauseContainer(ContainerOf(Id(h)), ok)
                         /\ IF ok THEN Goto(h, "setSpec") ELSE Return(h)
  /\ UNCHANGED <<store, stateName>>

TerminateStop_KeepsContainer(h) ==
  /\ At(h, "stop")
  /\ \E ok \in BOOLEAN : StopContainer(ContainerOf(Id(h)), ok)
  /\ Goto(h, "setSpec")
  /\ UNCHANGED <<store, stateName>>

TerminateStop(h) ==
  /\ At(h, "stop")
  /\ \E ok \in BOOLEAN : StopContainer(ContainerOf(Id(h)), ok)
  /\ Goto(h, "remove")
  /\ UNCHANGED <<store, stateName>>

TerminateRemove(h) ==
  /\ At(h, "remove")
  /\ \E ok \in BOOLEAN : RemoveContainer(ContainerOf(Id(h)), ok)
  /\ Goto(h, "setSpec")
  /\ UNCHANGED <<store, stateName>>

Target_Transitional(op) == CASE op = "stop" -> "stopping" [] op = "start" -> "pending"
                             [] op = "terminate" -> "shutting-down"
Target(op) == CASE op = "stop" -> "stopped" [] op = "start" -> "running"
                [] op = "terminate" -> "terminated"

\* r.Spec["StateName"] = ... writes through to the shared map before the Put.
\* An orphan record has no Spec map: the assignment panics, and the recovery
\* middleware answers 500.
SetSpec(h) ==
  LET k == Id(h) IN
  /\ At(h, "setSpec")
  /\ \/ /\ k = Res(ContainerOf(k))
        /\ stateName' = [stateName EXCEPT ![ContainerOf(k)] = Target(req[h].op)]
        /\ Goto(h, "put")
     \/ /\ k = Orphan(ContainerOf(k))
        /\ Return(h)
        /\ UNCHANGED stateName
  /\ UNCHANGED <<containers, store>>

PutInstance_DropsTerminated(h) ==
  /\ At(h, "put")
  /\ IF req[h].op = "terminate" THEN Delete(Id(h)) ELSE Put(Id(h), Target(req[h].op))
  /\ NextId(h)
  /\ UNCHANGED <<containers, stateName>>

\* The copy that Get returned is put back, with the new status.
PutInstance(h) ==
  /\ At(h, "put")
  /\ Put(Id(h), Target(req[h].op))
  /\ NextId(h)
  /\ UNCHANGED <<containers, stateName>>

HandlerStep(h) ==
  \/ \E m \in Counts : RunInstances(h, m)
  \/ Create(h) \/ Start(h) \/ Insert(h) \/ FinishRun(h)
  \/ UndoStop(h) \/ UndoRemove(h) \/ UndoDelete(h)
  \/ \E op \in {"stop", "start", "terminate"}, ids \in IdLists : ChangeInstances(h, op, ids)
  \/ GetInstance(h) \/ Pause(h) \/ Unpause(h)
  \/ TerminateStop(h) \/ TerminateRemove(h) \/ SetSpec(h) \/ PutInstance(h)

\* What DescribeInstances says about an instance that has a record.
Reported(i) == stateName[i]
=============================================================================
