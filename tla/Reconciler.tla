----------------------------- MODULE Reconciler -----------------------------
(***************************************************************************)
(* internal/state/reconciler.go, running beside the EC2 handlers.  One     *)
(* goroutine runs Reconcile at every tick.  It lists Docker, then lists    *)
(* the store, and then works from these two listings: whatever the         *)
(* handlers do in the meantime, it does not see.                           *)
(*                                                                         *)
(* TryLock is left out: the reconciler is the only caller of LockManager   *)
(* in the program, and it holds one key at a time, so TryLock succeeds     *)
(* (LockManager.tla models the manager itself).                            *)
(***************************************************************************)
EXTENDS Ec2

CONSTANTS Backend,         \* containers of the shared backends (minio, redis ...)
          MaxOrphanCleanup \* maxOrphanCleanupPerReconcile

ASSUME ReconcilerAssumption == /\ Backend \subseteq Container \ Instance
                               /\ MaxOrphanCleanup \in Nat

VARIABLE rec    \* the local variables of Reconcile

vars == <<containers, store, stateName, req, rec>>

\* seen: the containers Docker listed;  gone: records still to be marked
\* terminated;  unknown: containers still to be treated as orphans.
RecState == [pc : {"tick", "list", "mark", "adopt", "remove"},
             seen : SUBSET Container, gone : SUBSET Key, unknown : SUBSET Container,
             cur : Container \cup {"none"}, cleaned : Nat]

Waiting == [pc |-> "tick", seen |-> {}, gone |-> {}, unknown |-> {},
            cur |-> "none", cleaned |-> 0]

FullTypeOK == TypeOK /\ rec \in RecState

\* The server is up: InitAll has started the backends.
Init == /\ containers = [c \in Container |-> IF c \in Backend THEN "running" ELSE "none"]
        /\ Ec2Init
        /\ rec = Waiting
-----------------------------------------------------------------------------
ListDocker ==
  /\ rec.pc = "tick"
  /\ rec' = [Waiting EXCEPT !.pc = "list", !.seen = ListManagedContainers]
  /\ UNCHANGED ec2Vars

\* store.List over all kinds; every record has a container id.
ListStore ==
  LET listed == {k \in Key : Present(k)}
      known  == {ContainerOf(k) : k \in listed} IN
  /\ rec.pc = "list"
  /\ rec' = [rec EXCEPT !.pc = "mark",
                        !.gone = {k \in listed : ContainerOf(k) \notin rec.seen},
                        !.unknown = rec.seen \ known]
  /\ UNCHANGED ec2Vars

MarkTerminated_OnlyLogs ==
  /\ rec.pc = "mark"
  /\ \E k \in rec.gone : rec' = [rec EXCEPT !.gone = @ \ {k}]
  /\ UNCHANGED ec2Vars

\* In the store, not in Docker: the listed copy is put back as terminated.  Spec,
\* and with it the reported state, is not touched.
MarkTerminated ==
  /\ rec.pc = "mark"
  /\ \E k \in rec.gone : /\ Put(k, "terminated")
                         /\ rec' = [rec EXCEPT !.gone = @ \ {k}]
  /\ UNCHANGED <<containers, stateName, req>>

AllMarked ==
  /\ rec.pc = "mark" /\ rec.gone = {}
  /\ rec' = [rec EXCEPT !.pc = "adopt"]
  /\ UNCHANGED ec2Vars

\* In Docker, not in the store: a record is inserted, with status orphan ...
AdoptOrphan ==
  /\ rec.pc = "adopt" /\ rec.cleaned < MaxOrphanCleanup
  /\ \E c \in rec.unknown : /\ Put(Orphan(c), "orphan")
                            /\ rec' = [rec EXCEPT !.pc = "remove", !.cur = c]
  /\ UNCHANGED <<containers, stateName, req>>

\* ... and the container is removed; a failure is logged.
RemoveOrphan ==
  /\ rec.pc = "remove"
  /\ \E ok \in BOOLEAN : RemoveContainer(rec.cur, ok)
  /\ rec' = [rec EXCEPT !.pc = "adopt", !.unknown = @ \ {rec.cur}, !.cur = "none",
                        !.cleaned = @ + 1]
  /\ UNCHANGED <<store, stateName, req>>

ReconcileDone ==
  /\ rec.pc = "adopt"
  /\ rec.unknown = {} \/ rec.cleaned >= MaxOrphanCleanup
  /\ rec' = Waiting
  /\ UNCHANGED ec2Vars

ReconcilerStep == \/ ListDocker \/ ListStore \/ MarkTerminated \/ AllMarked
                  \/ AdoptOrphan \/ RemoveOrphan \/ ReconcileDone

Handlers == \E h \in Handler : HandlerStep(h) /\ UNCHANGED rec

Outside == /\ \E c \in Container : Dies(c) \/ RemovedByHand(c)
           /\ UNCHANGED <<store, stateName, req, rec>>

Next == Handlers \/ ReconcilerStep \/ Outside

Spec == Init /\ [][Next]_vars

\* Requests one after the other, and nothing else going on.
SerialSpec == Init /\ [][Handlers]_vars

(* The goroutines of the server are scheduled, so a request that has begun goes
   on; the ticker fires for ever; and Docker, when asked again and again to
   remove a container, does so some time.                                   *)
Working(h) == ~At(h, "idle") /\ HandlerStep(h) /\ UNCHANGED rec
Fairness == /\ \A h \in Handler : WF_vars(Working(h))
            /\ WF_vars(ReconcilerStep)
            /\ SF_vars(RemoveOrphan /\ containers' # containers)

FairSpec == Spec /\ Fairness
-----------------------------------------------------------------------------
HandlersIdle == \A h \in Handler : At(h, "idle")

(* Every container started for an instance can be found again from the store,
   or its request has not inserted the record yet, or its start failed (the
   container that RunContainer leaves behind).  The order stop, remove, delete
   of the clean-up in RunInstances is what makes it true when many requests
   and the reconciler run at once.                                          *)
ContainersAccounted ==
  \A i \in Instance :
    Exists(i) => \/ Present(Res(i)) \/ Present(Orphan(i))
                 \/ \E h \in Handler : At(h, "insert") /\ req[h].cur = i
                 \/ containers[i] = "created"

(* The point of reconciliation: once no request is being served, the store and
   Docker come to agree, and stay so, on which containers exist: a record whose
   container is gone says terminated, and no container is unknown.          *)
Repaired ==
  /\ \A k \in Key : Present(k) /\ ~Exists(ContainerOf(k)) => store[k] = "terminated"
  /\ \A c \in Container : Exists(c) => \E k \in Key : Present(k) /\ ContainerOf(k) = c
Converges == <>[]HandlersIdle => <>[]Repaired

(* With requests one at a time, what the store says of an instance between two
   requests is the state of its container, and DescribeInstances reports it. *)
Agrees(i) ==
  CASE store[Res(i)] = "absent"     -> containers[i] \in {"none", "created", "removed"}
    [] store[Res(i)] = "running"    -> containers[i] = "running" /\ Reported(i) = "running"
    [] store[Res(i)] = "stopped"    -> containers[i] = "paused" /\ Reported(i) = "stopped"
    [] store[Res(i)] = "terminated" -> containers[i] = "removed" /\ Reported(i) = "terminated"
    [] OTHER -> FALSE
QuietAgreement == HandlersIdle => \A i \in Instance : Agrees(i)

(* The life of an instance: terminated is final, and only a launch that is
   undone makes a record disappear.                                         *)
Move == {<<"absent", "running">>, <<"running", "stopped">>, <<"stopped", "running">>,
         <<"running", "terminated">>, <<"stopped", "terminated">>, <<"running", "absent">>}
LifeCycle ==
  [][\A i \in Instance : \/ store'[Res(i)] = store[Res(i)]
                         \/ <<store[Res(i)], store'[Res(i)]>> \in Move]_vars

-----------------------------------------------------------------------------
(* What a document says, and the code does not do.                          *)

(* spec.md:12: the backends run behind the services; the reconciler leaves their
   containers alone.                                                        *)
BackendsLeftAlone ==
  [][rec' # rec => \A b \in Backend : containers'[b] = containers[b]]_vars
=============================================================================
