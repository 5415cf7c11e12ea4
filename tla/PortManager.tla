---------------------------- MODULE PortManager ----------------------------
(***************************************************************************)
(* internal/resource/port.go.  Every method holds m.mu from its first to   *)
(* its last line, so one call is one action.  `reply' is what the last     *)
(* call returned to its caller.                                            *)
(*                                                                         *)
(* Here and in the other modules a definition X_Bug, placed before X, is a *)
(* plausible bug in X: it is not part of the specification and only shows  *)
(* that a property can fail.                                               *)
(***************************************************************************)
EXTENDS Integers, FiniteSets

CONSTANTS Resource,        \* resource ids the callers pass
          NoResource,      \* "no entry" in the ports map
          RangeStart,      \* cfg.RangeStart
          RangeEnd,        \* cfg.RangeEnd
          MaxPerResource,  \* cfg.MaxPerResource; 0 switches the limit off
          Preferred,       \* the ports callers ask for (0, 3306, 6379, 9000 ...)
          MaxPort          \* the largest port number there is

Port    == 0 .. MaxPort
Managed == RangeStart .. RangeEnd

ASSUME PortAssumption ==
  /\ NoResource \notin Resource
  /\ RangeStart \in Port /\ RangeEnd \in Port
  /\ MaxPerResource \in Nat /\ MaxPort \in Nat
  /\ Preferred \subseteq Port

VARIABLES ports,          \* port -> resource id
          resourcePorts,  \* resource id -> number of ports; an absent key reads 0
          reply           \* what the last call returned

vars == <<ports, resourcePorts, reply>>

Outcome == {"none", "ok", "limit", "exhausted", "released"}
Reply   == [out : Outcome, pref : Port, port : Port]

TypeOK == /\ ports \in [Port -> Resource \cup {NoResource}]
          /\ resourcePorts \in [Resource -> Nat]
          /\ reply \in Reply

Init == /\ ports = [p \in Port |-> NoResource]
        /\ resourcePorts = [r \in Resource |-> 0]
        /\ reply = [out |-> "none", pref |-> 0, port |-> 0]
-----------------------------------------------------------------------------
Free(p)        == ports[p] = NoResource
InRange(p)     == p \in Managed
IsAvailable(p) == Free(p) /\ InRange(p)

checkResourceLimit_OffByOne(r) ==
  MaxPerResource > 0 => resourcePorts[r] <= MaxPerResource
checkResourceLimit(r) == MaxPerResource > 0 => resourcePorts[r] < MaxPerResource

\* The first free port of an upward scan over lo, lo+1, ..., hi.
FirstFree_TakesUsed(lo, hi, p) == p = lo /\ lo <= hi
FirstFree(lo, hi, p) == /\ p \in lo .. hi
                        /\ Free(p)
                        /\ \A q \in lo .. hi : q < p => ~Free(q)

NoneFree(lo, hi) == \A q \in lo .. hi : ~Free(q)

assign(p, r) == /\ ports' = [ports EXCEPT ![p] = r]
                /\ resourcePorts' = [resourcePorts EXCEPT ![r] = @ + 1]

Refuse_NegativePort(pref, why) ==
  /\ reply' = [out |-> why, pref |-> pref, port |-> -1]
  /\ UNCHANGED <<ports, resourcePorts>>
Refuse(pref, why) == /\ reply' = [out |-> why, pref |-> pref, port |-> 0]
                     /\ UNCHANGED <<ports, resourcePorts>>

\* Where the first scan of Allocate starts, and where its second one stops.
ScanStart_SkipsOne(pref) == IF pref + 2 < RangeStart THEN RangeStart ELSE pref + 2
WrapEnd_StopsEarly(pref) == pref - 2
ScanStart(pref) == IF pref + 1 < RangeStart THEN RangeStart ELSE pref + 1
WrapEnd(pref)   == pref - 1

\* p is the port that Allocate settles on: preferred itself, or the first free
\* one above it, or the first free one from the bottom of the range.
Picks(pref, p) ==
  \/ IsAvailable(pref) /\ p = pref
  \/ ~IsAvailable(pref) /\ FirstFree(ScanStart(pref), RangeEnd, p)
  \/ /\ ~IsAvailable(pref) /\ NoneFree(ScanStart(pref), RangeEnd)
     /\ FirstFree(RangeStart, WrapEnd(pref), p)

Exhausted(pref) == /\ ~IsAvailable(pref)
                   /\ NoneFree(ScanStart(pref), RangeEnd)
                   /\ NoneFree(RangeStart, WrapEnd(pref))

Allocate(pref, r) ==
  \/ ~checkResourceLimit(r) /\ Refuse(pref, "limit")
  \/ /\ checkResourceLimit(r)
     /\ \E p \in Port : /\ Picks(pref, p)
                        /\ assign(p, r)
                        /\ reply' = [out |-> "ok", pref |-> pref, port |-> p]
  \/ checkResourceLimit(r) /\ Exhausted(pref) /\ Refuse(pref, "exhausted")

\* AllocateAny scans the whole range; it reads like Allocate with the bottom of
\* the range preferred.
AllocateAny(r) ==
  \/ ~checkResourceLimit(r) /\ Refuse(RangeStart, "limit")
  \/ /\ checkResourceLimit(r)
     /\ \E p \in Port :
          /\ FirstFree(RangeStart, RangeEnd, p)
          /\ assign(p, r)
          /\ reply' = [out |-> "ok", pref |-> RangeStart, port |-> p]
  \/ checkResourceLimit(r) /\ NoneFree(RangeStart, RangeEnd)
                           /\ Refuse(RangeStart, "exhausted")

\* Release(port) knows the owner only from the map; releasing a free port is
\* ignored.  A count of zero deletes the key, which reads as 0.
Release_KeepsCount(p) ==
  /\ reply' = [out |-> "released", pref |-> 0, port |-> p]
  /\ ports' = [ports EXCEPT ![p] = NoResource]
  /\ UNCHANGED resourcePorts
Release(p) ==
  /\ reply' = [out |-> "released", pref |-> 0, port |-> p]
  /\ \/ Free(p) /\ UNCHANGED <<ports, resourcePorts>>
     \/ /\ ~Free(p)
        /\ ports' = [ports EXCEPT ![p] = NoResource]
        /\ resourcePorts' =
             [resourcePorts EXCEPT ![ports[p]] = IF @ <= 1 THEN 0 ELSE @ - 1]

Next == \/ \E r \in Resource : \/ AllocateAny(r)
                               \/ \E pref \in Preferred : Allocate(pref, r)
        \/ \E p \in Port : Release(p)

Spec == Init /\ [][Next]_vars
-----------------------------------------------------------------------------
Owned(r) == {p \in Port : ports[p] = r}

(* The two maps of the manager agree: the counter that the limit is checked
   against is the number of ports the ports map gives that resource, whatever
   the order of allocations and releases.                                   *)
CountsMatchPorts == \A r \in Resource : resourcePorts[r] = Cardinality(Owned(r))

(* No resource ever holds more ports than max_per_resource allows.          *)
LimitRespected ==
  MaxPerResource > 0 =>
    \A r \in Resource : Cardinality(Owned(r)) <= MaxPerResource

(* "all ports exhausted" is only answered when no port of the range is free:
   the two scans and the preferred port between them leave nothing out.     *)
ExhaustedOnlyWhenFull ==
  reply.out = "exhausted" => \A p \in Managed : ~Free(p)

(* Ports that lie before p in the order that starts at pref and wraps around
   at the end of the range.                                                 *)
Before(pref, p) == IF p >= pref THEN pref .. (p - 1)
                                ELSE (pref .. MaxPort) \cup (0 .. (p - 1))

(* Linear probing: a caller gets its preferred port when that is free, and
   otherwise the next free one, going up and wrapping around once.          *)
NearestFreePort ==
  reply.out = "ok" => \A q \in Before(reply.pref, reply.port) \cap Managed : ~Free(q)

(* A port outside the configured range is never handed out.                 *)
OnlyRangeUsed == \A p \in Port : ~Free(p) => p \in Managed

(* The manager implements the pool that the plugins are written against, so
   no port has two owners and a grant never takes a port from its owner.    *)
Pool == INSTANCE PortPool WITH owner <- ports
ImplementsPortPool == Pool!PoolSpec
=============================================================================
