------------------------------ MODULE PortPool ------------------------------
(***************************************************************************)
(* What internal/service/interface.go promises the service plugins under   *)
(* the name PortAllocator: a pool of host ports from which a caller is     *)
(* given a port nobody else holds, and to which it gives the port back.    *)
(* Which free port is given is not part of the promise, and neither is the *)
(* moment at which the pool refuses.                                       *)
(***************************************************************************)
CONSTANTS Resource,     \* resource ids on whose behalf ports are taken
          Port,         \* the ports the pool may hand out
          NoResource    \* the owner of a free port

VARIABLE owner          \* owner[p]: the resource holding port p

PoolInit == owner = [p \in Port |-> NoResource]

Grant(r, p) == /\ owner[p] = NoResource
               /\ owner' = [owner EXCEPT ![p] = r]

Return(p) == /\ owner[p] # NoResource
             /\ owner' = [owner EXCEPT ![p] = NoResource]

PoolNext == \E p \in Port : Return(p) \/ \E r \in Resource : Grant(r, p)

PoolSpec == PoolInit /\ [][PoolNext]_owner
=============================================================================
