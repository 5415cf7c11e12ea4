------------------------------ MODULE Lifecycle ------------------------------
(***************************************************************************)
(* cloudia start, stop and cleanup (internal/cli) as processes of one      *)
(* machine.  They share the pid file, the containers, whose names are      *)
(* fixed, and the port the server listens on.  A process id may be given   *)
(* again to a later server.                                                *)
(*                                                                         *)
(* A file is [by, written]: its creator, and whether the pid is in it yet; *)
(* a server writes to the file it has created, even if that is not the pid *)
(* file any more.  The containers a server creates when it starts are one; *)
(* those it creates for requests are one for each process id, and are      *)
(* there before the service of the request has noted them.  Requests are   *)
(* served until the process ends: runStart shuts the services down before  *)
(* the HTTP server.  What deletes the container of a request, and the      *)
(* reconciler, only remove, and are left out.                              *)
(*                                                                         *)
(* exposed, lost and late are not in the program: the servers that have    *)
(* been started beside a stop command or another server; those that have   *)
(* ended, or lost a call of Docker, in a way that may leave a container;   *)
(* and those that had a request beside ShutdownAll, or after it, whose     *)
(* container ShutdownAll could not know.                                   *)
(***************************************************************************)
CONSTANTS Server,      \* process ids of cloudia start
          Stopper,     \* cloudia stop
          None

ASSUME LifecycleAssumption == None \notin Server

VARIABLES pidFile, server, stopper,
          container,   \* the server whose container there is
          listening,   \* the server that has the port
          signalled,   \* servers whose sigCtx is done
          work,        \* servers with a container created for a request
          request,     \* server -> how far its last request for a container is
          exposed, lost, late

requestVars == <<work, request, late>>
lifeVars == <<pidFile, server, stopper, container, listening, signalled, exposed, lost, requestVars>>

Absent == [by |-> None, written |-> FALSE]

Starting == {"created", "init", "initialised"}
Handling == {"notified", "serving", "shutting", "stopping"}   \* NotifyContext is in force
Leaving  == {"leaving", "closing"}    \* runStart returns; closing: after server.Shutdown
Holding(p)  == server[p] \in Starting \cup Handling \cup Leaving
Running(p)  == server[p] # "none"
To(p, pc)   == server' = [server EXCEPT ![p] = pc]

LifeInit == /\ pidFile = Absent
            /\ server = [p \in Server |-> "none"]
            /\ stopper = [s \in Stopper |-> [pc |-> "idle", pid |-> None]]
            /\ container = None /\ listening = None
            /\ signalled = {} /\ exposed = {} /\ lost = {} /\ late = {}
            /\ work = {} /\ request = [p \in Server |-> "none"]

\* What p has created and is there now, it may leave there.
Lose(p) == lost' = lost \cup {q \in {p} : container' = q \/ q \in work'}
-----------------------------------------------------------------------------
(* cloudia start                                                            *)

Launch(p) == /\ server[p] = "none" /\ To(p, "launched")
             /\ UNCHANGED <<pidFile, stopper, container, listening, signalled, exposed, lost, requestVars>>

\* What may take the file of a server that is starting: a stop command under way, a
\* server that runs without its file.
Disturbed(p) == \/ \E s \in Stopper : stopper[s].pc \in {"probe", "remove"}
                \/ \E q \in Server \ {p} : Holding(q)

\* os.Remove is deferred before it is known whether the file could be created.
CreatePidFile_DefersFirst(p) ==
  /\ server[p] = "launched"
  /\ \/ /\ pidFile = Absent
        /\ pidFile' = [by |-> p, written |-> FALSE] /\ To(p, "created")
        /\ exposed' = exposed \cup {q \in {p} : Disturbed(p)}
     \/ /\ pidFile # Absent
        /\ To(p, "leaving") /\ exposed' = exposed \cup {p} /\ UNCHANGED pidFile
  /\ UNCHANGED <<stopper, container, listening, signalled, lost, requestVars>>

\* O_EXCL: a server that finds the file there leaves it, and ends.
CreatePidFile(p) ==
  /\ server[p] = "launched"
  /\ \/ /\ pidFile = Absent
        /\ pidFile' = [by |-> p, written |-> FALSE] /\ To(p, "created")
        /\ exposed' = exposed \cup {q \in {p} : Disturbed(p)}
     \/ /\ pidFile # Absent
        /\ To(p, "none") /\ UNCHANGED <<pidFile, exposed>>
  /\ UNCHANGED <<stopper, container, listening, signalled, lost, requestVars>>

WritePid(p) ==
  /\ server[p] = "created" /\ To(p, "init")
  /\ pidFile' = IF pidFile.by = p THEN [pidFile EXCEPT !.written = TRUE] ELSE pidFile
  /\ UNCHANGED <<stopper, container, listening, signalled, exposed, lost, requestVars>>

\* The client, the network, the services.  The names of the containers must be free;
\* what fails after they were created leaves them.
InitAll(p) ==
  /\ server[p] = "init"
  /\ \/ /\ container = None /\ container' = p
        /\ \/ To(p, "initialised") /\ lost' = lost \ ({p} \ work)
           \/ To(p, "leaving") /\ UNCHANGED work /\ Lose(p)
     \/ To(p, "leaving") /\ UNCHANGED <<container, lost>>
  /\ UNCHANGED <<pidFile, stopper, listening, signalled, exposed, requestVars>>

NotifyContext(p) == /\ server[p] = "initialised" /\ To(p, "notified")
                    /\ UNCHANGED <<pidFile, stopper, container, listening, signalled, exposed, lost,
                                   requestVars>>

\* A server that cannot listen ends, without ShutdownAll.
Start(p) ==
  /\ server[p] = "notified"
  /\ \/ listening = None /\ listening' = p /\ To(p, "serving") /\ UNCHANGED lost
     \/ To(p, "leaving") /\ UNCHANGED <<container, work, listening>> /\ Lose(p)
  /\ UNCHANGED <<pidFile, stopper, container, signalled, exposed, requestVars>>

Done(p) == /\ server[p] = "serving" /\ p \in signalled /\ To(p, "shutting")
           /\ UNCHANGED <<pidFile, stopper, container, listening, signalled, exposed, lost, requestVars>>

\* A request is served: its container is created and started, and noted afterwards by
\* its service.  Handlers run until the process ends: server.Shutdown gives up after
\* 15 seconds, and does not wait for those the time limit has cut off.
Serve(p) ==
  /\ server[p] \in {"serving", "shutting", "stopping", "closing"}
  /\ request[p] # "started" /\ p \notin work
  /\ work' = work \cup {p} /\ request' = [request EXCEPT ![p] = "started"]
  /\ late' = IF server[p] \in {"stopping", "closing"} THEN late \cup {p} ELSE late \ {p}
  /\ UNCHANGED <<pidFile, server, stopper, container, listening, signalled, exposed, lost>>

Note(p) ==
  /\ Running(p) /\ request[p] = "started"
  /\ request' = [request EXCEPT ![p] = "noted"]
  /\ UNCHANGED <<pidFile, server, stopper, container, listening, signalled, exposed, lost, work, late>>

\* Each service removes the containers it has started and noted, by their ids; a call
\* that fails leaves its own.
ShutdownAll(p) ==
  LET mine == {q \in {p} : container = q}
      kept == {q \in {p} : request[q] = "noted"}
  IN  /\ server[p] = "shutting" /\ To(p, "stopping")
      /\ \/ /\ container' = (IF mine = {} THEN container ELSE None)
            /\ work' = work \ kept /\ UNCHANGED lost
         \/ /\ container' \in {container, IF mine = {} THEN container ELSE None}
            /\ work' \in {work, work \ kept} /\ Lose(p)
      /\ late' = late \cup {q \in {p} : request[q] = "started"}
      /\ UNCHANGED <<pidFile, stopper, listening, signalled, exposed, request>>

Shutdown(p) == /\ server[p] = "stopping" /\ To(p, "closing")
               /\ listening' = IF listening = p THEN None ELSE listening
               /\ UNCHANGED <<pidFile, stopper, container, signalled, exposed, lost, requestVars>>

\* The process is gone, and what was its own.
Ends(p) == /\ To(p, "none")
           /\ listening' = IF listening = p THEN None ELSE listening
           /\ signalled' = signalled \ {p} /\ exposed' = exposed \ {p}
           /\ request' = [request EXCEPT ![p] = "none"]

\* The deferred calls: the default effect of signals is back, then the file goes,
\* whosever it is.
RemovePidFile(p) == /\ server[p] \in Leaving /\ Ends(p)
                    /\ pidFile' = Absent
                    /\ UNCHANGED <<stopper, container, lost, work, late>>
-----------------------------------------------------------------------------
(* Signals                                                                  *)

\* A crash, or SIGKILL.
Crash(p) == /\ Running(p) /\ Ends(p)
            /\ UNCHANGED <<pidFile, stopper, container, work, late>>
            /\ Lose(p)

Terminate_Once(p) ==
  \/ /\ server[p] \in Handling /\ p \notin signalled
     /\ signalled' = signalled \cup {p}
     /\ UNCHANGED <<server, listening, lost, request, exposed>>
  \/ /\ Running(p) /\ (server[p] \notin Handling \/ p \in signalled)
     /\ Ends(p)
     /\ IF server[p] \in Starting THEN UNCHANGED <<container, work>> /\ Lose(p) ELSE UNCHANGED lost

\* SIGTERM.  While NotifyContext is in force it ends the wait, and a second one has
\* no effect; before and after, the process ends where it is.
Terminate(p) ==
  \/ /\ server[p] \in Handling
     /\ signalled' = signalled \cup {p}
     /\ UNCHANGED <<server, listening, lost, request, exposed>>
  \/ /\ Running(p) /\ server[p] \notin Handling
     /\ Ends(p)
     /\ IF server[p] \in Starting THEN UNCHANGED <<container, work>> /\ Lose(p) ELSE UNCHANGED lost
-----------------------------------------------------------------------------
(* cloudia stop and cloudia cleanup                                         *)

Step(s, pc) == stopper' = [stopper EXCEPT ![s].pc = pc]

\* No file, or no number in it: the server is taken not to run.
ReadFile(s) ==
  /\ stopper[s].pc = "idle"
  /\ stopper' = [stopper EXCEPT ![s] = IF pidFile.written THEN [pc |-> "probe", pid |-> pidFile.by]
                                                          ELSE [pc |-> "remove", pid |-> None]]
  /\ exposed' = exposed \cup {p \in {pidFile.by} \ {None} : ~pidFile.written /\ Running(p)}
  /\ UNCHANGED <<pidFile, server, container, listening, signalled, lost, requestVars>>

Probe(s) == /\ stopper[s].pc = "probe"
            /\ Step(s, IF Running(stopper[s].pid) THEN "signal" ELSE "remove")
            /\ UNCHANGED <<pidFile, server, container, listening, signalled, exposed, lost, requestVars>>

Signal(s) ==
  LET p == stopper[s].pid IN
  /\ stopper[s].pc = "signal" /\ Step(s, "idle")
  /\ \/ Terminate(p)
     \/ ~Running(p) /\ UNCHANGED <<server, listening, signalled, exposed, request, lost>>
  /\ UNCHANGED <<pidFile, container, work, late>>

Remove(s) == /\ stopper[s].pc = "remove" /\ Step(s, "idle")
             /\ pidFile' = Absent
             /\ UNCHANGED <<server, container, listening, signalled, exposed, lost, requestVars>>

\* Everything that has the label goes, the containers of a server that runs too.
runCleanup == /\ container # None \/ work # {}
              /\ container' = None /\ work' = {} /\ lost' = {} /\ late' = {}
              /\ UNCHANGED <<pidFile, server, stopper, listening, signalled, exposed, request>>
-----------------------------------------------------------------------------
runStart(p) == \/ Launch(p) \/ CreatePidFile(p) \/ WritePid(p) \/ InitAll(p)
               \/ NotifyContext(p) \/ Start(p) \/ Done(p) \/ ShutdownAll(p) \/ Serve(p) \/ Note(p)
               \/ Shutdown(p) \/ RemovePidFile(p) \/ Crash(p)
runStop(s)  == ReadFile(s) \/ Probe(s) \/ Signal(s) \/ Remove(s)

LifeNext == \/ \E p \in Server : runStart(p)
            \/ \E s \in Stopper : runStop(s)
            \/ runCleanup

LifeSpec == LifeInit /\ [][LifeNext]_lifeVars
-----------------------------------------------------------------------------
(* The pid file of a server that runs is the one it has created, until it leaves:
   unless it was started while a stop command was under way, or read as empty, or
   beside a server that had lost its file.  No number of other starts, stops,
   crashes and clean-ups takes it away.                                     *)
PidFileNamesServer ==
  \A p \in Server : Holding(p) /\ p \notin exposed =>
    pidFile = [by |-> p, written |-> server[p] # "created"]

(* A server that is stopped after it has come up leaves no container it had when its
   services were shut down, however many stop commands there are: the containers it
   created at its start are left only by a crash, a start that fails or is
   interrupted, or a failing call of Docker; those of requests also when ShutdownAll
   ran before the service had noted them.                                   *)
NothingLeftBehind ==
  \A p \in Server : ~Running(p) => /\ container = p => p \in lost
                                   /\ p \in work => p \in lost \cup late

(* cloudia stop removes everything (.belt/spec.md:223): what is left is left by a
   crash, a start that fails or is interrupted, or a failing call of Docker.  It
   does not: requests are served while the services shut down, and after.        *)
StopRemovesAll ==
  \A p \in Server : ~Running(p) /\ (container = p \/ p \in work) => p \in lost
=============================================================================
