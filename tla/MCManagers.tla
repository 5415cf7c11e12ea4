----------------------------- MODULE MCManagers -----------------------------
(* The port manager and the lock manager have no variable in common and no   *)
(* step together, so a behaviour of one of them, with the other at rest,     *)
(* says all there is to say: which one is chosen at first.                   *)
(*                                                                           *)
(* Ports 2..4 are managed; callers prefer a port below the range (as lambda  *)
(* does with 0), one in its middle and the one just above its end.           *)
(*                                                                           *)
(* Three callers and two keys: a holder, a waiter and a third who may        *)
(* overtake the waiter.  A process uses at most one channel at a time, so    *)
(* |Proc| channels are enough for make(chan) never to run out.               *)
EXTENDS PortManager, LockManager
CONSTANTS r1, r2, p1, p2, p3, c1, c2, c3

VARIABLE which

MCResource  == {r1, r2}
MCPreferred == {0, 3, 4, 5}

PortStep == which = "ports" /\ Next /\ UNCHANGED <<lockVars, which>>
LockStep == which = "locks" /\ LockNext /\ UNCHANGED <<vars, which>>

ManagersInit == Init /\ LockInit /\ which \in {"ports", "locks"}
ManagersSpec == /\ ManagersInit
                /\ [][PortStep \/ LockStep]_<<vars, lockVars, which>>
                /\ Fairness
=============================================================================
