------------------------------ MODULE MCProcess ------------------------------
(* Processes that come and go, and the one service that is wholly in the     *)
(* memory of its process: Pub/Sub.  A server starts it afresh, and they      *)
(* share nothing else, so a behaviour is one of the life cycle, with the     *)
(* service at rest, or one of the service: which one is chosen at first.     *)
(*                                                                           *)
(* Pub/Sub: a queue of two takes part of a batch of two; pulls of one leave  *)
(* a rest; a pull of 0 means the default, one of 3 is refused.  The symmetry *)
(* is that of the process ids; nothing temporal is checked with it.          *)
EXTENDS Lifecycle, PubSub, TLC
CONSTANTS t1, t2, s1, s2

VARIABLE which

MCPulls    == {-1, 0, 1, 3}
MCAcks     == {{<<i, s>>} : i \in 1 .. MaxId, s \in Sub} \cup {(1 .. MaxId) \X Sub}
MCSymmetry == Permutations(Server) \cup Permutations(Stopper)

LifeStep   == which = "life" /\ LifeNext /\ UNCHANGED <<vars, which>>
PubSubStep == which = "pubsub" /\ Next /\ UNCHANGED <<lifeVars, which>>

ProcessInit == Init /\ LifeInit /\ which \in {"life", "pubsub"}
ProcessSpec == ProcessInit /\ [][LifeStep \/ PubSubStep]_<<vars, lifeVars, which>>
=============================================================================
