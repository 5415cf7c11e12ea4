------------------------------- MODULE Docker -------------------------------
(***************************************************************************)
(* The Docker daemon as internal/backend/docker/container.go uses it.      *)
(* A container is identified with the thing it is started for: an EC2      *)
(* instance (container name "cloudia-i-...", fresh for every launch) or a  *)
(* shared backend.  All of them carry the label cloudia.managed=true,      *)
(* which RunContainer sets.                                                *)
(***************************************************************************)
EXTENDS Naturals

CONSTANTS Container,
          DockerMayFail   \* may a call fail although the container is there?

ASSUME DockerAssumption == DockerMayFail \in BOOLEAN

VARIABLE containers    \* container -> its state in the daemon

ContainerState == {"none", "created", "running", "paused", "exited", "removed"}

DockerTypeOK == containers \in [Container -> ContainerState]

Exists(c) == containers[c] \in {"created", "running", "paused", "exited"}
SetState(c, s) == containers' = [containers EXCEPT ![c] = s]

\* ListManagedContainers asks for All: stopped containers are listed too.
ListManagedContainers == {c \in Container : Exists(c)}

\* RunContainer pulls the image, creates the container and starts it.
CreateContainer(c)    == containers[c] = "none" /\ SetState(c, "created")

\* The other calls fail on a container in the wrong state, and perhaps on one in
\* the right state; a call that fails changes nothing.
Fails(usable) == (~usable \/ DockerMayFail) /\ UNCHANGED containers

StartContainer(c, ok) == \/ ok /\ containers[c] = "created" /\ SetState(c, "running")
                         \/ ~ok /\ Fails(containers[c] = "created")

StopContainer(c, ok) == \/ ok /\ Exists(c) /\ SetState(c, "exited")
                        \/ ~ok /\ Fails(Exists(c))

RemoveContainer(c, ok) == \/ ok /\ Exists(c) /\ SetState(c, "removed")
                          \/ ~ok /\ Fails(Exists(c))

PauseContainer(c, ok) == \/ ok /\ containers[c] = "running" /\ SetState(c, "paused")
                         \/ ~ok /\ Fails(containers[c] = "running")

UnpauseContainer(c, ok) == \/ ok /\ containers[c] = "paused" /\ SetState(c, "running")
                           \/ ~ok /\ Fails(containers[c] = "paused")

\* What happens to containers behind cloudia's back: the process dies (OOM, a
\* crash), or somebody removes the container with the docker CLI.
Dies(c)           == containers[c] \in {"running", "paused"} /\ SetState(c, "exited")
RemovedByHand(c)  == Exists(c) /\ SetState(c, "removed")
=============================================================================
