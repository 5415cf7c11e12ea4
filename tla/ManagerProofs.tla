--------------------------- MODULE ManagerProofs ---------------------------
(***************************************************************************)
(* What everything else is built on.  The port manager keeps its promises  *)
(* for every range, every limit, every set of resources and every          *)
(* preferred port; the lock manager for any number of callers, keys and    *)
(* channels; the life cycle for any number of servers and stop commands.   *)
(***************************************************************************)
EXTENDS PortManager, LockManager, Lifecycle, FiniteSetTheorems, TLAPS

(* The ports that belong to a resource are finitely many.                  *)
LEMMA OwnedFinite == \A r \in Resource : IsFiniteSet(Owned(r))
<1>1. IsFiniteSet(Port)
  BY PortAssumption, FS_Interval DEF Port
<1>2. QED BY <1>1, FS_Subset DEF Owned

(* What the two ways out of an allocation do to the types.                  *)
LEMMA AssignType ==
  ASSUME TypeOK, NEW r \in Resource, NEW p \in Port, NEW pref \in Port, assign(p, r),
         reply' = [out |-> "ok", pref |-> pref, port |-> p]
  PROVE  TypeOK'
<1>1. ports' \in [Port -> Resource \cup {NoResource}]
  BY DEF assign, TypeOK
<1>2. resourcePorts' \in [Resource -> Nat]
  BY DEF assign, TypeOK
<1>3. reply' \in Reply
  BY DEF Reply, Outcome
<1>4. QED BY <1>1, <1>2, <1>3 DEF TypeOK

LEMMA RefuseType ==
  ASSUME TypeOK, NEW pref \in Port, NEW why \in {"limit", "exhausted"}, Refuse(pref, why)
  PROVE  TypeOK'
<1>1. 0 \in Port
  BY PortAssumption DEF Port
<1>2. QED BY <1>1 DEF Refuse, TypeOK, Reply, Outcome

(* Type correctness: the two maps and the reply stay well formed through any
   sequence of Allocate, AllocateAny and Release calls.                     *)
THEOREM TypeCorrect == Spec => []TypeOK
<1>0. 0 \in Port /\ RangeStart \in Port /\ Preferred \subseteq Port
  BY PortAssumption DEF Port
<1>1. Init => TypeOK
  BY <1>0 DEF Init, TypeOK, Reply, Outcome
<1>2. TypeOK /\ [Next]_vars => TypeOK'
  <2> SUFFICES ASSUME TypeOK, [Next]_vars PROVE TypeOK'
    OBVIOUS
  <2>1. ASSUME NEW r \in Resource, NEW pref \in Preferred, Allocate(pref, r)
        PROVE  TypeOK'
    BY <1>0, <2>1, AssignType, RefuseType DEF Allocate
  <2>2. ASSUME NEW r \in Resource, AllocateAny(r)
        PROVE  TypeOK'
    BY <1>0, <2>2, AssignType, RefuseType DEF AllocateAny
  <2>3. ASSUME NEW p \in Port, Release(p)
        PROVE  TypeOK'
    <3>1. reply' \in Reply
      BY <1>0, <2>3 DEF Release, Reply, Outcome
    <3>2. CASE Free(p)
      BY <2>3, <3>1, <3>2 DEF Release, TypeOK
    <3>3. CASE ~Free(p)
      <4>1. ports[p] \in Resource
        BY <3>3 DEF Free, TypeOK
      <4>2. ports' \in [Port -> Resource \cup {NoResource}]
        BY <2>3, <3>3 DEF Release, TypeOK
      <4>3. resourcePorts' \in [Resource -> Nat]
        BY <2>3, <3>3, <4>1 DEF Release, TypeOK
      <4>4. QED BY <3>1, <4>2, <4>3 DEF TypeOK
    <3>4. QED BY <3>2, <3>3
  <2>4. CASE UNCHANGED vars
    BY <2>4 DEF vars, TypeOK
  <2>5. QED
    BY <2>1, <2>2, <2>3, <2>4 DEF Next
<1>3. QED BY <1>1, <1>2, PTL DEF Spec

-----------------------------------------------------------------------------
(* A resource's port set, after a port is given to it or taken from it.     *)
LEMMA OwnedAfterAssign ==
  ASSUME TypeOK, NEW r \in Resource, NEW p \in Port, Free(p), assign(p, r), NEW s \in Resource
  PROVE  /\ s = r => Owned(s)' = Owned(s) \cup {p} /\ p \notin Owned(s)
         /\ s # r => Owned(s)' = Owned(s)
BY PortAssumption DEF TypeOK, Free, assign, Owned

LEMMA OwnedAfterRelease ==
  ASSUME TypeOK, NEW p \in Port, ~Free(p), Release(p), NEW s \in Resource
  PROVE  /\ s = ports[p] => Owned(s)' = Owned(s) \ {p} /\ p \in Owned(s)
         /\ s # ports[p] => Owned(s)' = Owned(s)
BY PortAssumption DEF TypeOK, Free, Release, Owned

(* Allocate and AllocateAny only settle on a free port.                     *)
LEMMA PicksFree ==
  ASSUME NEW pref, NEW p, Picks(pref, p) PROVE Free(p)
BY DEF Picks, IsAvailable, FirstFree

(* Counting is right, and the limit is kept: the inductive invariant.       *)
CountInv == TypeOK /\ CountsMatchPorts /\ LimitRespected

LEMMA AssignKeepsCount ==
  ASSUME CountInv, NEW r \in Resource, NEW p \in Port, Free(p), checkResourceLimit(r),
         assign(p, r)
  PROVE  CountsMatchPorts' /\ LimitRespected'
<1>1. ASSUME NEW s \in Resource
      PROVE  /\ resourcePorts'[s] = Cardinality(Owned(s))'
             /\ MaxPerResource > 0 => Cardinality(Owned(s))' <= MaxPerResource
  <2>1. CASE s = r
    <3>1. Cardinality(Owned(r))' = Cardinality(Owned(r)) + 1
      BY OwnedAfterAssign, OwnedFinite, FS_AddElement DEF CountInv
    <3>2. resourcePorts'[r] = resourcePorts[r] + 1
      BY DEF assign, CountInv, TypeOK
    <3>3. resourcePorts[r] = Cardinality(Owned(r)) /\ resourcePorts[r] \in Nat
      BY DEF CountInv, CountsMatchPorts, TypeOK
    <3>4. MaxPerResource > 0 => resourcePorts[r] + 1 <= MaxPerResource
      BY <3>3, PortAssumption DEF checkResourceLimit
    <3>5. QED BY <2>1, <3>1, <3>2, <3>3, <3>4
  <2>2. CASE s # r
    <3>1. Owned(s)' = Owned(s)
      BY <2>2, OwnedAfterAssign DEF CountInv
    <3>2. resourcePorts'[s] = resourcePorts[s]
      BY <2>2 DEF assign, CountInv, TypeOK
    <3>3. QED BY <3>1, <3>2 DEF CountInv, CountsMatchPorts, LimitRespected
  <2>3. QED BY <2>1, <2>2
<1>2. QED BY <1>1 DEF CountsMatchPorts, LimitRespected

LEMMA ReleaseKeepsCount ==
  ASSUME CountInv, NEW p \in Port, ~Free(p), Release(p)
  PROVE  CountsMatchPorts' /\ LimitRespected'
<1>0. ports[p] \in Resource
  BY DEF Free, CountInv, TypeOK
<1>1. ASSUME NEW s \in Resource
      PROVE  /\ resourcePorts'[s] = Cardinality(Owned(s))'
             /\ MaxPerResource > 0 => Cardinality(Owned(s))' <= MaxPerResource
  <2>0. /\ resourcePorts[s] = Cardinality(Owned(s)) /\ resourcePorts[s] \in Nat
        /\ MaxPerResource > 0 => Cardinality(Owned(s)) <= MaxPerResource
    BY DEF CountInv, CountsMatchPorts, LimitRespected, TypeOK
  <2>1. CASE s = ports[p]
    <3>1. Cardinality(Owned(s))' = Cardinality(Owned(s)) - 1
      BY <2>1, OwnedAfterRelease, OwnedFinite, FS_RemoveElement DEF CountInv
    <3>2. Cardinality(Owned(s)) # 0
      BY <2>1, OwnedAfterRelease, OwnedFinite, FS_EmptySet DEF CountInv
    <3>3. resourcePorts'[s] = IF resourcePorts[s] <= 1 THEN 0 ELSE resourcePorts[s] - 1
      BY <1>0, <2>1 DEF Release, CountInv, TypeOK
    <3>4. QED BY <2>0, <3>1, <3>2, <3>3, PortAssumption
  <2>2. CASE s # ports[p]
    <3>1. Owned(s)' = Owned(s)
      BY <2>2, OwnedAfterRelease DEF CountInv
    <3>2. resourcePorts'[s] = resourcePorts[s]
      BY <1>0, <2>2 DEF Release, CountInv, TypeOK
    <3>3. QED BY <2>0, <3>1, <3>2
  <2>3. QED BY <2>1, <2>2
<1>2. QED BY <1>1 DEF CountsMatchPorts, LimitRespected

LEMMA UnchangedKeepsCount ==
  ASSUME CountInv, UNCHANGED <<ports, resourcePorts>>
  PROVE  CountsMatchPorts' /\ LimitRespected'
BY DEF CountInv, CountsMatchPorts, LimitRespected, Owned

LEMMA CountInductive == Spec => []CountInv
<1>1. Init => CountInv
  <2> SUFFICES ASSUME Init PROVE CountInv
    OBVIOUS
  <2>1. \A r \in Resource : Owned(r) = {}
    BY PortAssumption DEF Init, Owned
  <2>2. \A r \in Resource : Cardinality(Owned(r)) = 0
    BY <2>1, FS_EmptySet
  <2>3. CountsMatchPorts
    BY <2>2 DEF Init, CountsMatchPorts
  <2>4. LimitRespected
    BY <2>2, PortAssumption DEF LimitRespected
  <2>5. TypeOK
    BY PortAssumption DEF Init, TypeOK, Reply, Outcome, Port
  <2>6. QED BY <2>3, <2>4, <2>5 DEF CountInv
<1>2. CountInv /\ TypeOK' /\ [Next]_vars => CountInv'
  <2> SUFFICES ASSUME CountInv, TypeOK', [Next]_vars
               PROVE  CountsMatchPorts' /\ LimitRespected'
    BY DEF CountInv
  <2>1. ASSUME NEW r \in Resource, NEW pref \in Preferred, Allocate(pref, r)
        PROVE  CountsMatchPorts' /\ LimitRespected'
    BY <2>1, PicksFree, AssignKeepsCount, UnchangedKeepsCount DEF Allocate, Refuse
  <2>2. ASSUME NEW r \in Resource, AllocateAny(r)
        PROVE  CountsMatchPorts' /\ LimitRespected'
    BY <2>2, AssignKeepsCount, UnchangedKeepsCount DEF AllocateAny, Refuse, FirstFree
  <2>3. ASSUME NEW p \in Port, Release(p)
        PROVE  CountsMatchPorts' /\ LimitRespected'
    BY <2>3, ReleaseKeepsCount, UnchangedKeepsCount DEF Release
  <2>4. CASE UNCHANGED vars
    BY <2>4, UnchangedKeepsCount DEF vars
  <2>5. QED BY <2>1, <2>2, <2>3, <2>4 DEF Next
<1>3. QED BY <1>1, <1>2, TypeCorrect, PTL DEF Spec

(* The counter of a resource is the number of ports it owns, always: what
   checkResourceLimit compares with max_per_resource is the truth.          *)
THEOREM CountsCorrect == Spec => []CountsMatchPorts
BY CountInductive, PTL DEF CountInv

(* No resource gets beyond max_per_resource ports.                          *)
THEOREM LimitCorrect == Spec => []LimitRespected
BY CountInductive, PTL DEF CountInv

-----------------------------------------------------------------------------
(* The three stretches of Allocate -- preferred, above it, from the bottom of
   the range up to it -- cover the range.                                   *)
LEMMA ScansCoverRange ==
  ASSUME NEW pref \in Port, Exhausted(pref)
  PROVE  \A p \in Managed : ~Free(p)
<1> SUFFICES ASSUME NEW p \in Managed PROVE ~Free(p)
  OBVIOUS
<1>0. pref \in Int /\ RangeStart \in Int /\ RangeEnd \in Int /\ p \in Int
  BY PortAssumption DEF Port, Managed
<1>1. CASE p = pref
  BY <1>1 DEF Exhausted, IsAvailable, InRange
<1>2. CASE p > pref
  <2>1. p \in ScanStart(pref) .. RangeEnd
    BY <1>0, <1>2 DEF ScanStart, Managed
  <2>2. QED BY <2>1 DEF Exhausted, NoneFree
<1>3. CASE p < pref
  <2>1. p \in RangeStart .. WrapEnd(pref)
    BY <1>0, <1>3 DEF WrapEnd, Managed
  <2>2. QED BY <2>1 DEF Exhausted, NoneFree
<1>4. QED BY <1>0, <1>1, <1>2, <1>3

(* ... and what lies between the preferred port and the one picked is in use. *)
LEMMA PickIsNearest ==
  ASSUME NEW pref \in Port, NEW p \in Port, Picks(pref, p)
  PROVE  \A q \in Before(pref, p) \cap Managed : q # p /\ ~Free(q)
<1> SUFFICES ASSUME NEW q \in Before(pref, p) \cap Managed PROVE q # p /\ ~Free(q)
  OBVIOUS
<1>0. /\ pref \in Int /\ p \in Int /\ q \in Int /\ MaxPort \in Int
      /\ RangeStart \in Int /\ RangeEnd \in Int
      /\ q \in Managed /\ RangeStart <= q /\ q <= RangeEnd
  BY PortAssumption DEF Port, Managed
<1>1. CASE p >= pref
  <2>1. pref <= q /\ q < p
    BY <1>0, <1>1 DEF Before
  <2>2. /\ ~IsAvailable(pref)
        /\ FirstFree(ScanStart(pref), RangeEnd, p)
    BY <1>0, <1>1, <2>1 DEF Picks, FirstFree, WrapEnd
  <2>3. CASE q = pref
    BY <1>0, <2>1, <2>2, <2>3 DEF IsAvailable, InRange
  <2>4. CASE q > pref
    <3>1. q \in ScanStart(pref) .. RangeEnd
      BY <1>0, <2>4 DEF ScanStart
    <3>2. QED BY <1>0, <2>1, <2>2, <3>1 DEF FirstFree
  <2>5. QED BY <1>0, <2>1, <2>3, <2>4
<1>2. CASE p < pref
  <2>1. q >= pref \/ q < p
    BY <1>0, <1>2 DEF Before
  <2>2. /\ ~IsAvailable(pref)
        /\ NoneFree(ScanStart(pref), RangeEnd)
        /\ FirstFree(RangeStart, WrapEnd(pref), p)
    BY <1>0, <1>2 DEF Picks, FirstFree, ScanStart
  <2>3. CASE q = pref
    BY <1>0, <1>2, <2>2, <2>3 DEF IsAvailable, InRange
  <2>4. CASE q > pref
    <3>1. q \in ScanStart(pref) .. RangeEnd
      BY <1>0, <2>4 DEF ScanStart
    <3>2. QED BY <1>0, <1>2, <2>2, <2>4, <3>1 DEF NoneFree
  <2>5. CASE q < p
    <3>1. q \in RangeStart .. WrapEnd(pref)
      BY <1>0, <1>2, <2>5 DEF WrapEnd
    <3>2. QED BY <1>0, <2>2, <2>5, <3>1 DEF FirstFree
  <2>6. QED BY <1>0, <2>1, <2>3, <2>4, <2>5
<1>3. QED BY <1>0, <1>1, <1>2

(* AllocateAny is a scan of the same kind, from the bottom of the range.    *)
LEMMA AnyIsNearest ==
  ASSUME NEW p \in Port, FirstFree(RangeStart, RangeEnd, p)
  PROVE  \A q \in Before(RangeStart, p) \cap Managed : q # p /\ ~Free(q)
BY PortAssumption DEF FirstFree, Before, Managed, Port

(* What a reply claims about the ports map at the time it is given.         *)
LEMMA OkReplyNearest ==
  ASSUME TypeOK, NEW r \in Resource, NEW pref \in Port, NEW p \in Port, assign(p, r),
         reply' = [out |-> "ok", pref |-> pref, port |-> p],
         \A q \in Before(pref, p) \cap Managed : q # p /\ ~Free(q)
  PROVE  NearestFreePort' /\ ExhaustedOnlyWhenFull'
<1>1. ExhaustedOnlyWhenFull'
  BY DEF ExhaustedOnlyWhenFull
<1>2. \A q \in Before(pref, p) \cap Managed : ports'[q] = ports[q]
  <2>1. \A q \in Managed : q \in Port
    BY PortAssumption DEF Managed, Port
  <2>2. QED BY <2>1 DEF assign, TypeOK
<1>3. QED BY <1>1, <1>2 DEF NearestFreePort, Free, Before

LEMMA RefusalReply ==
  ASSUME NEW pref, NEW why \in {"limit", "exhausted"}, Refuse(pref, why),
         why = "exhausted" => \A p \in Managed : ~Free(p)
  PROVE  NearestFreePort' /\ ExhaustedOnlyWhenFull'
<1>1. reply'.out = why /\ ports' = ports /\ why # "ok"
  BY DEF Refuse
<1>2. NearestFreePort'
  BY <1>1 DEF NearestFreePort
<1>3. ExhaustedOnlyWhenFull'
  BY <1>1 DEF ExhaustedOnlyWhenFull, Free
<1>4. QED BY <1>2, <1>3

LEMMA RepliesInductive == Spec => [](NearestFreePort /\ ExhaustedOnlyWhenFull)
<1>1. Init => NearestFreePort /\ ExhaustedOnlyWhenFull
  BY DEF Init, NearestFreePort, ExhaustedOnlyWhenFull
<1>2. TypeOK /\ (NearestFreePort /\ ExhaustedOnlyWhenFull) /\ [Next]_vars
        => (NearestFreePort /\ ExhaustedOnlyWhenFull)'
  <2> SUFFICES ASSUME TypeOK, NearestFreePort, ExhaustedOnlyWhenFull, [Next]_vars
               PROVE  NearestFreePort' /\ ExhaustedOnlyWhenFull'
    OBVIOUS
  <2>0. RangeStart \in Port /\ Preferred \subseteq Port
    BY PortAssumption
  <2>1. ASSUME NEW r \in Resource, NEW pref \in Preferred, Allocate(pref, r)
        PROVE  NearestFreePort' /\ ExhaustedOnlyWhenFull'
    <3>1. CASE Refuse(pref, "limit")
      BY <3>1, RefusalReply
    <3>2. ASSUME NEW p \in Port, Picks(pref, p), assign(p, r),
                 reply' = [out |-> "ok", pref |-> pref, port |-> p]
          PROVE  NearestFreePort' /\ ExhaustedOnlyWhenFull'
      BY <2>0, <3>2, PickIsNearest, OkReplyNearest
    <3>3. CASE Exhausted(pref) /\ Refuse(pref, "exhausted")
      BY <2>0, <3>3, ScansCoverRange, RefusalReply
    <3>4. QED BY <2>1, <3>1, <3>2, <3>3 DEF Allocate
  <2>2. ASSUME NEW r \in Resource, AllocateAny(r)
        PROVE  NearestFreePort' /\ ExhaustedOnlyWhenFull'
    <3>1. CASE Refuse(RangeStart, "limit")
      BY <3>1, RefusalReply
    <3>2. ASSUME NEW p \in Port, FirstFree(RangeStart, RangeEnd, p), assign(p, r),
                 reply' = [out |-> "ok", pref |-> RangeStart, port |-> p]
          PROVE  NearestFreePort' /\ ExhaustedOnlyWhenFull'
      BY <2>0, <3>2, AnyIsNearest, OkReplyNearest
    <3>3. CASE NoneFree(RangeStart, RangeEnd) /\ Refuse(RangeStart, "exhausted")
      BY <3>3, RefusalReply DEF NoneFree, Managed
    <3>4. QED BY <2>2, <3>1, <3>2, <3>3 DEF AllocateAny
  <2>3. ASSUME NEW p \in Port, Release(p)
        PROVE  NearestFreePort' /\ ExhaustedOnlyWhenFull'
    BY <2>3 DEF Release, NearestFreePort, ExhaustedOnlyWhenFull
  <2>4. CASE UNCHANGED vars
    BY <2>4 DEF vars, NearestFreePort, ExhaustedOnlyWhenFull, Free, Before
  <2>5. QED BY <2>1, <2>2, <2>3, <2>4 DEF Next
<1>3. QED BY <1>1, <1>2, TypeCorrect, PTL DEF Spec

(* "all ports exhausted" is never answered while a port of the range is free. *)
THEOREM ExhaustionIsReal == Spec => []ExhaustedOnlyWhenFull
BY RepliesInductive, PTL

(* Every port granted is the nearest free one to the one asked for.         *)
THEOREM ProbingIsLinear == Spec => []NearestFreePort
BY RepliesInductive, PTL
-----------------------------------------------------------------------------
(* With no preferred port beyond the one just above the range -- all that the
   default configuration asks for is below it -- no port outside the range is
   handed out.  Without the premise the second scan of Allocate leaves the
   range.                                                                   *)
THEOREM RangeKept ==
  ASSUME \A q \in Preferred : q <= RangeEnd + 1
  PROVE  Spec => []OnlyRangeUsed
<1>0. \A x \in Preferred : x \in Int /\ x <= RangeEnd + 1
  BY PortAssumption DEF Port
<1>1. Init => OnlyRangeUsed
  BY DEF Init, OnlyRangeUsed, Free
<1>2. TypeOK /\ OnlyRangeUsed /\ [Next]_vars => OnlyRangeUsed'
  <2> SUFFICES ASSUME TypeOK, OnlyRangeUsed, [Next]_vars PROVE OnlyRangeUsed'
    OBVIOUS
  <2>0. ASSUME NEW r \in Resource, NEW p \in Port, p \in Managed, assign(p, r)
        PROVE  OnlyRangeUsed'
    BY <2>0 DEF assign, OnlyRangeUsed, Free, TypeOK
  <2>1. ASSUME NEW r \in Resource, NEW pref \in Preferred, Allocate(pref, r)
        PROVE  OnlyRangeUsed'
    <3>1. ASSUME NEW p \in Port, Picks(pref, p) PROVE p \in Managed
      <4>0. /\ p \in Int /\ pref \in Int /\ pref <= RangeEnd + 1
            /\ RangeStart \in Int /\ RangeEnd \in Int
        BY <1>0, PortAssumption DEF Port
      <4>1. QED BY <3>1, <4>0 DEF Picks, FirstFree, ScanStart, WrapEnd,
                                 IsAvailable, InRange, Managed
    <3>2. QED BY <2>0, <2>1, <3>1 DEF Allocate, Refuse, OnlyRangeUsed, Free
  <2>2. ASSUME NEW r \in Resource, AllocateAny(r)
        PROVE  OnlyRangeUsed'
    BY <2>0, <2>2 DEF AllocateAny, FirstFree, Refuse, OnlyRangeUsed, Free, Managed
  <2>3. ASSUME NEW p \in Port, Release(p)
        PROVE  OnlyRangeUsed'
    BY <2>3 DEF Release, OnlyRangeUsed, Free, TypeOK
  <2>4. CASE UNCHANGED vars
    BY <2>4 DEF vars, OnlyRangeUsed, Free
  <2>5. QED BY <2>1, <2>2, <2>3, <2>4 DEF Next
<1>3. QED BY <1>1, <1>2, TypeCorrect, PTL DEF Spec

(* The manager implements the abstract pool: every call grants a free port,
   returns an owned one, or leaves the pool alone.                          *)
THEOREM PoolImplemented == Spec => ImplementsPortPool
<1>1. Init => Pool!PoolInit
  BY DEF Init, Pool!PoolInit
<1>2. TypeOK /\ [Next]_vars => [Pool!PoolNext]_ports
  <2> SUFFICES ASSUME TypeOK, [Next]_vars, ports' # ports PROVE Pool!PoolNext
    OBVIOUS
  <2>1. ASSUME NEW r \in Resource, NEW p \in Port, Free(p), assign(p, r)
        PROVE  Pool!PoolNext
    BY <2>1 DEF assign, Free, Pool!PoolNext, Pool!Grant
  <2>2. ASSUME NEW r \in Resource, NEW pref \in Preferred, Allocate(pref, r)
        PROVE  Pool!PoolNext
    BY <2>1, <2>2, PicksFree DEF Allocate, Refuse
  <2>3. ASSUME NEW r \in Resource, AllocateAny(r)
        PROVE  Pool!PoolNext
    BY <2>1, <2>3 DEF AllocateAny, FirstFree, Refuse
  <2>4. ASSUME NEW p \in Port, Release(p)
        PROVE  Pool!PoolNext
    BY <2>4 DEF Release, Free, Pool!PoolNext, Pool!Return
  <2>5. QED BY <2>2, <2>3, <2>4 DEF Next, vars
<1>3. QED BY <1>1, <1>2, TypeCorrect, PTL DEF Spec, ImplementsPortPool, Pool!PoolSpec

-----------------------------------------------------------------------------
(***************************************************************************)
(* The lock manager: mutual exclusion, no lost wake-up, and the refinement *)
(* of AbstractLock.                                                        *)
(*                                                                         *)
(* None of the properties is inductive alone: whether a wake-up is lost    *)
(* depends on channels not being shared, exclusion depends on the map      *)
(* telling who holds what, and both on a caller knowing its key.           *)
(***************************************************************************)

KeyKnown  == \A p \in Proc : pc[p] # "idle" => key[p] \in Key
WaitsOnCh == \A p \in Proc : pc[p] = "wait" <=> ch[p] # NoChan

LockInv == /\ LockTypeOK /\ KeyKnown /\ WaitsOnCh
           /\ LockedIffHeld /\ MutualExclusion
           /\ ChannelsSeparate /\ NoLostWakeup

(* The three ways in which a step moves locks between callers: not at all,
   from nobody to p, from p to nobody.                                      *)
Still      == \A q \in Proc, l \in Key : holds(q, l)' <=> holds(q, l)
Takes(p, k) == /\ ~locked(k)
               /\ Register(k)
               /\ \A q \in Proc, l \in Key :
                    holds(q, l)' <=> holds(q, l) \/ (q = p /\ l = k)
Drops(p, k) == /\ holds(p, k)
               /\ locks' = [locks EXCEPT ![k] = NoChan]
               /\ closed' = closed \cup ({locks[k]} \ {NoChan})
               /\ \A q \in Proc, l \in Key :
                    holds(q, l)' <=> holds(q, l) /\ ~(q = p /\ l = k)

LEMMA LockInitInv == LockInit => LockInv
BY LockAssumption DEF LockInit, LockInv, LockTypeOK, KeyKnown, WaitsOnCh, LockedIffHeld, holds,
   locked, MutualExclusion, ChannelsSeparate, NoLostWakeup

(* The parts of the invariant that concern one process at a time.           *)
LEMMA CallersInductive ==
  ASSUME LockTypeOK, KeyKnown, WaitsOnCh, [LockNext]_lockVars
  PROVE  LockTypeOK' /\ KeyKnown' /\ WaitsOnCh'
<1> USE LockAssumption DEF LockTypeOK, KeyKnown, WaitsOnCh
<1>1. ASSUME NEW p \in Proc, NEW k \in Key, LockCall(p, k) PROVE LockTypeOK' /\ KeyKnown' /\ WaitsOnCh'
  BY <1>1 DEF LockCall
<1>2. ASSUME NEW p \in Proc, NEW k \in Key, TryLock(p, k) PROVE LockTypeOK' /\ KeyKnown' /\ WaitsOnCh'
  BY <1>2 DEF TryLock, Register
<1>3. ASSUME NEW p \in Proc, LockAttempt(p) PROVE LockTypeOK' /\ KeyKnown' /\ WaitsOnCh'
  BY <1>3 DEF LockAttempt, Register, locked
<1>4. ASSUME NEW p \in Proc, Woken(p) PROVE LockTypeOK' /\ KeyKnown' /\ WaitsOnCh'
  BY <1>4 DEF Woken
<1>5. ASSUME NEW p \in Proc, GiveUp(p) PROVE LockTypeOK' /\ KeyKnown' /\ WaitsOnCh'
  BY <1>5 DEF GiveUp
<1>6. ASSUME NEW p \in Proc, Expire(p) PROVE LockTypeOK' /\ KeyKnown' /\ WaitsOnCh'
  BY <1>6 DEF Expire
<1>7. ASSUME NEW p \in Proc, Unlock(p) PROVE LockTypeOK' /\ KeyKnown' /\ WaitsOnCh'
  BY <1>7 DEF Unlock
<1>8. CASE UNCHANGED lockVars
  BY <1>8 DEF lockVars
<1>9. QED BY <1>1, <1>2, <1>3, <1>4, <1>5, <1>6, <1>7, <1>8 DEF LockNext

(* Every action is one of the three moves.                                  *)
LEMMA LockMoves ==
  ASSUME LockInv, [LockNext]_lockVars
  PROVE  \/ Still /\ UNCHANGED <<locks, closed>>
         \/ \E p \in Proc, k \in Key : Takes(p, k) \/ Drops(p, k)
<1> USE DEF LockInv, LockTypeOK, KeyKnown, Still, holds
<1>1. ASSUME NEW p \in Proc, NEW k \in Key, LockCall(p, k) PROVE Still /\ UNCHANGED <<locks, closed>>
  BY <1>1 DEF LockCall
<1>2. ASSUME NEW p \in Proc, NEW k \in Key, TryLock(p, k) PROVE Takes(p, k)
  BY <1>2 DEF TryLock, Takes
<1>3. ASSUME NEW p \in Proc, LockAttempt(p)
      PROVE  (Still /\ UNCHANGED <<locks, closed>>) \/ Takes(p, key[p])
  BY <1>3 DEF LockAttempt, Takes
<1>4. ASSUME NEW p \in Proc, Woken(p) PROVE Still /\ UNCHANGED <<locks, closed>>
  BY <1>4 DEF Woken
<1>5. ASSUME NEW p \in Proc, GiveUp(p) PROVE Still /\ UNCHANGED <<locks, closed>>
  BY <1>5 DEF GiveUp
<1>6. ASSUME NEW p \in Proc, Expire(p) PROVE Still /\ UNCHANGED <<locks, closed>>
  BY <1>6 DEF Expire
<1>7. ASSUME NEW p \in Proc, Unlock(p) PROVE Drops(p, key[p])
  BY <1>7 DEF Unlock, Drops
<1>8. CASE UNCHANGED lockVars
  BY <1>8 DEF lockVars
<1>9. \A p \in Proc : LockAttempt(p) \/ Unlock(p) => key[p] \in Key
  BY DEF LockAttempt, Unlock
<1> HIDE DEF LockInv, LockTypeOK, KeyKnown, Still, holds
<1>10. QED BY <1>1, <1>2, <1>3, <1>4, <1>5, <1>6, <1>7, <1>8, <1>9 DEF LockNext

(* Who holds what, after each move.                                         *)
LEMMA HoldersInductive ==
  ASSUME LockInv, [LockNext]_lockVars
  PROVE  LockedIffHeld' /\ MutualExclusion'
<1> USE LockAssumption DEF LockInv, LockTypeOK
<1>1. CASE Still /\ UNCHANGED <<locks, closed>>
  BY <1>1 DEF Still, LockedIffHeld, MutualExclusion, locked
<1>2. ASSUME NEW p \in Proc, NEW k \in Key, Takes(p, k)
      PROVE  LockedIffHeld' /\ MutualExclusion'
  <2>1. \A l \in Key : locked(l)' <=> (locked(l) \/ l = k)
    BY <1>2 DEF Takes, Register, locked
  <2>2. \A q \in Proc : ~holds(q, k)
    BY <1>2 DEF Takes, LockedIffHeld
  <2>3. QED BY <1>2, <2>1, <2>2 DEF Takes, LockedIffHeld, MutualExclusion
<1>3. ASSUME NEW p \in Proc, NEW k \in Key, Drops(p, k)
      PROVE  LockedIffHeld' /\ MutualExclusion'
  <2>1. \A l \in Key : locked(l)' <=> locked(l) /\ l # k
    BY <1>3 DEF Drops, locked
  <2>2. \A q \in Proc : holds(q, k) => q = p
    BY <1>3 DEF Drops, MutualExclusion
  <2>3. QED BY <1>3, <2>1, <2>2 DEF Drops, LockedIffHeld, MutualExclusion
<1>4. QED BY <1>1, <1>2, <1>3, LockMoves

(* A registered channel is open and belongs to one key, after each move.    *)
LEMMA ChannelsInductive ==
  ASSUME LockInv, [LockNext]_lockVars
  PROVE  ChannelsSeparate'
<1> USE LockAssumption DEF LockInv, LockTypeOK, ChannelsSeparate, locked
<1>1. CASE UNCHANGED <<locks, closed>>
  BY <1>1
<1>2. ASSUME NEW p \in Proc, NEW k \in Key, Takes(p, k) PROVE ChannelsSeparate'
  <2>1. PICK c \in Chan \ InUse : /\ locks' = [locks EXCEPT ![k] = c]
                                  /\ closed' = closed \ {c}
    BY <1>2 DEF Takes, Register
  <2>2. \A l \in Key : locks[l] # c
    BY <2>1 DEF InUse
  <2>3. QED BY <2>1, <2>2
<1>3. ASSUME NEW p \in Proc, NEW k \in Key, Drops(p, k) PROVE ChannelsSeparate'
  <2>1. locked(k)
    BY <1>3 DEF Drops, LockedIffHeld
  <2>2. QED BY <1>3, <2>1 DEF Drops
<1>4. QED BY <1>1, <1>2, <1>3, LockMoves

(* A caller in the select can still be reached by a close.                  *)
LEMMA WakeupInductive ==
  ASSUME LockInv, [LockNext]_lockVars
  PROVE  NoLostWakeup'
<1> USE LockAssumption DEF LockInv, LockTypeOK, NoLostWakeup, KeyKnown, WaitsOnCh
<1>1. ASSUME NEW p \in Proc, NEW k \in Key, LockCall(p, k) PROVE NoLostWakeup'
  BY <1>1 DEF LockCall
<1>2. ASSUME NEW p \in Proc, NEW k \in Key, NEW c \in Chan \ InUse, ~locked(k),
             locks' = [locks EXCEPT ![k] = c], closed' = closed \ {c},
             pc' = [pc EXCEPT ![p] = "hold"], UNCHANGED ch,
             \A q \in Proc : q # p => key'[q] = key[q]
      PROVE  NoLostWakeup'
  <2>1. \A q \in Proc : ch[q] # c
    BY DEF InUse
  <2>2. QED BY <1>2, <2>1 DEF locked
<1>3. ASSUME NEW p \in Proc, NEW k \in Key, TryLock(p, k) PROVE NoLostWakeup'
  BY <1>2, <1>3 DEF TryLock, Register
<1>4. ASSUME NEW p \in Proc, LockAttempt(p) PROVE NoLostWakeup'
  <2>1. CASE ~locked(key[p])
    BY <1>2, <1>4, <2>1 DEF LockAttempt, Register
  <2>2. CASE locked(key[p])
    BY <1>4, <2>2 DEF LockAttempt
  <2>3. QED BY <2>1, <2>2
<1>5. ASSUME NEW p \in Proc, Woken(p) PROVE NoLostWakeup'
  BY <1>5 DEF Woken
<1>6. ASSUME NEW p \in Proc, GiveUp(p) PROVE NoLostWakeup'
  BY <1>6 DEF GiveUp
<1>7. ASSUME NEW p \in Proc, Expire(p) PROVE NoLostWakeup'
  BY <1>7 DEF Expire
<1>8. ASSUME NEW p \in Proc, Unlock(p) PROVE NoLostWakeup'
  <2> SUFFICES ASSUME NEW q \in Proc, pc'[q] = "wait"
               PROVE  ch'[q] \in closed' \/ locks'[key'[q]] = ch'[q]
    OBVIOUS
  <2>1. q # p /\ pc[q] = "wait" /\ ch'[q] = ch[q] /\ key'[q] = key[q]
    BY <1>8 DEF Unlock
  <2>2. closed \subseteq closed' /\ (ch[q] = locks[key[p]] => ch[q] \in closed')
    BY <1>8, <2>1 DEF Unlock
  <2>3. QED BY <1>8, <2>1, <2>2 DEF Unlock
<1>9. CASE UNCHANGED lockVars
  BY <1>9 DEF lockVars
<1>10. QED BY <1>1, <1>3, <1>4, <1>5, <1>6, <1>7, <1>8, <1>9 DEF LockNext

LEMMA LockInvariance == LockSpec => []LockInv
<1>1. LockInv /\ [LockNext]_lockVars => LockInv'
  BY CallersInductive, HoldersInductive, ChannelsInductive, WakeupInductive DEF LockInv
<1>2. QED BY LockInitInv, <1>1, PTL DEF LockSpec

(* Type correctness of the manager and of its callers' local variables.     *)
THEOREM LockTypeCorrect == LockSpec => []LockTypeOK
BY LockInvariance, PTL DEF LockInv

(* Two callers never hold the same resource.                                *)
THEOREM Exclusive == LockSpec => []MutualExclusion
BY LockInvariance, PTL DEF LockInv

(* The map registers exactly the keys that some caller holds.               *)
THEOREM MapTellsTheTruth == LockSpec => []LockedIffHeld
BY LockInvariance, PTL DEF LockInv

(* A caller never waits on a channel that nobody will close.                *)
THEOREM WakeupsKept == LockSpec => []NoLostWakeup
BY LockInvariance, PTL DEF LockInv

(* An Unlock wakes the callers of its own key only.                         *)
THEOREM ChannelsKeptApart == LockSpec => []ChannelsSeparate
BY LockInvariance, PTL DEF LockInv
-----------------------------------------------------------------------------
(* The refinement mapping, without its CHOOSE.                              *)
HolderIs == \A k \in Key : /\ \A p \in Proc : holds(p, k) => holderOf[k] = p
                           /\ (\A p \in Proc : ~holds(p, k)) => holderOf[k] = NoProc

LEMMA HolderKnown == MutualExclusion => HolderIs
BY DEF MutualExclusion, HolderIs, holderOf

(* Every step of the manager is an Acquire, a Yield or a stutter of the lock
   table.                                                                   *)
THEOREM LockTableImplemented == LockSpec => ImplementsAbstractLock
<1>1. LockInit => Table!LInit
  BY DEF LockInit, holds, holderOf, Table!LInit
<1>2. LockInv /\ LockInv' /\ HolderIs /\ HolderIs' /\ [LockNext]_lockVars => [Table!LNext]_holderOf
  <2> SUFFICES ASSUME LockInv, HolderIs, HolderIs', [LockNext]_lockVars
               PROVE  [Table!LNext]_holderOf
    OBVIOUS
  <2>0. holderOf = [k \in Key |-> holderOf[k]] /\ holderOf' = [k \in Key |-> holderOf'[k]]
    BY DEF holderOf
  <2>1. CASE Still
    <3>1. \A k \in Key : holderOf'[k] = holderOf[k]
      BY <2>1 DEF Still, HolderIs
    <3>2. QED BY <2>0, <3>1
  <2>2. ASSUME NEW p \in Proc, NEW k \in Key, Takes(p, k) PROVE Table!LNext
    <3>1. holderOf[k] = NoProc
      BY <2>2 DEF Takes, HolderIs, LockInv, LockedIffHeld
    <3>2. \A l \in Key : holderOf'[l] = IF l = k THEN p ELSE holderOf[l]
      BY <2>2 DEF Takes, HolderIs
    <3>3. holderOf' = [holderOf EXCEPT ![k] = p]
      BY <2>0, <3>2
    <3>4. QED BY <3>1, <3>3 DEF Table!LNext, Table!Acquire
  <2>3. ASSUME NEW p \in Proc, NEW k \in Key, Drops(p, k) PROVE Table!LNext
    <3>1. holderOf[k] = p
      BY <2>3 DEF Drops, HolderIs
    <3>2. \A l \in Key : holderOf'[l] = IF l = k THEN NoProc ELSE holderOf[l]
      <4>1. \A q \in Proc : holds(q, k) => q = p
        BY <2>3 DEF Drops, LockInv, MutualExclusion
      <4>2. QED BY <2>3, <4>1 DEF Drops, HolderIs
    <3>3. holderOf' = [holderOf EXCEPT ![k] = NoProc]
      BY <2>0, <3>2
    <3>4. QED BY <3>1, <3>3 DEF Table!LNext, Table!Yield
  <2>4. QED BY <2>1, <2>2, <2>3, LockMoves
<1>3. QED
  BY <1>1, <1>2, LockInvariance, Exclusive, HolderKnown, PTL DEF LockSpec, ImplementsAbstractLock, Table!LSpec
-----------------------------------------------------------------------------
(* The life cycle: the pid file stays with its server, and a stop leaves no *)
(* container.  Why a file is not taken away is a fact about two other       *)
(* actors: a stop command on its way to remove it has read it before the    *)
(* server began (StopsAreStale), and a second server beside the first is    *)
(* there only after both were exposed (TogetherExposed).                    *)
Types ==
  /\ pidFile \in [by : Server \cup {None}, written : BOOLEAN]
  /\ pidFile.written => pidFile.by \in Server
  /\ server \in [Server -> {"none", "launched"} \cup Starting \cup Handling \cup Leaving]
  /\ stopper \in [Stopper -> [pc : {"idle", "probe", "signal", "remove"},
                              pid : Server \cup {None}]]
  /\ \A s \in Stopper : stopper[s].pc \in {"probe", "signal"} => stopper[s].pid \in Server
  /\ container \in Server \cup {None}
  /\ request \in [Server -> {"none", "started", "noted"}]

Safe(p) == Holding(p) /\ p \notin exposed

StopsAreStale ==
  \A s \in Stopper, p \in Server : Safe(p) =>
    /\ stopper[s].pc # "remove"
    /\ stopper[s].pc = "probe" => stopper[s].pid = p

TogetherExposed ==
  \A p, q \in Server : Safe(p) /\ Holding(q) => p = q

IInv == Types /\ PidFileNamesServer /\ StopsAreStale /\ TogetherExposed

\* What a server has that has a container it has not been seen to lose: ShutdownAll is
\* still to come, and will find the container, or what leaves it is seen then.
ContainerServed ==
  container # None /\ container \notin lost =>
    server[container] \in {"initialised", "notified", "serving", "shutting"}
WorkServed ==
  \A p \in Server : p \in work /\ p \notin lost \cup late =>
    server[p] \in {"serving", "shutting"} /\ request[p] # "none"

LEMMA TypesKept == ASSUME Types, [LifeNext]_lifeVars PROVE Types'
<1> USE LifecycleAssumption DEF Types, Starting, Handling, Leaving, To, Absent, requestVars
<1>1. ASSUME NEW p \in Server, runStart(p) PROVE Types'
  <2>1. CASE Launch(p)         BY <2>1 DEF Launch
  <2>2. CASE CreatePidFile(p)
    <3>1. pidFile' = pidFile \/ pidFile' = [by |-> p, written |-> FALSE]
      BY <2>2 DEF CreatePidFile
    <3>2. \E q \in {"created", "none"} : server' = [server EXCEPT ![p] = q]
      BY <2>2 DEF CreatePidFile
    <3>3. UNCHANGED <<stopper, container, request>>
      BY <2>2 DEF CreatePidFile
    <3>4. pidFile' \in [by : Server \cup {None}, written : BOOLEAN] /\ (pidFile'.written => pidFile'.by \in Server)
      <4>1. CASE pidFile' = pidFile
        BY <4>1
      <4>2. CASE pidFile' = [by |-> p, written |-> FALSE]
        BY ONLY <4>2, p \in Server
      <4>3. QED BY <3>1, <4>1, <4>2
    <3>5. server' \in [Server -> {"none", "launched"} \cup Starting \cup Handling \cup Leaving]
      BY <3>2
    <3>6. QED BY <3>3, <3>4, <3>5
  <2>3. CASE WritePid(p)       BY <2>3 DEF WritePid
  <2>4. CASE InitAll(p)        BY <2>4 DEF InitAll
  <2>5. CASE NotifyContext(p)  BY <2>5 DEF NotifyContext
  <2>6. CASE Start(p)          BY <2>6 DEF Start
  <2>7. CASE Done(p)           BY <2>7 DEF Done
  <2>8. CASE ShutdownAll(p)    BY <2>8 DEF ShutdownAll
  <2>9. CASE Shutdown(p)       BY <2>9 DEF Shutdown
  <2>10. CASE RemovePidFile(p) BY <2>10 DEF RemovePidFile, Ends
  <2>11. CASE Crash(p)         BY <2>11 DEF Crash, Ends
  <2>12. CASE Serve(p)         BY <2>12 DEF Serve
  <2>13. CASE Note(p)          BY <2>13 DEF Note
  <2>14. QED BY <1>1, <2>1, <2>2, <2>3, <2>4, <2>5, <2>6, <2>7, <2>8, <2>9, <2>10, <2>11, <2>12,
                <2>13 DEF runStart
<1>2. ASSUME NEW s \in Stopper, runStop(s) PROVE Types'
  <2>1. CASE ReadFile(s) BY <2>1 DEF ReadFile
  <2>2. CASE Probe(s)    BY <2>2 DEF Probe, Step
  <2>3. CASE Signal(s)   BY <2>3 DEF Signal, Step, Terminate, Ends
  <2>4. CASE Remove(s)   BY <2>4 DEF Remove, Step
  <2>5. QED BY <1>2, <2>1, <2>2, <2>3, <2>4 DEF runStop
<1>3. CASE runCleanup     BY <1>3 DEF runCleanup
<1>4. CASE UNCHANGED lifeVars BY <1>4 DEF lifeVars
<1>5. QED BY <1>1, <1>2, <1>3, <1>4 DEF LifeNext

(* A step that takes no file, and after which nobody is safe who was not, keeps
   the three invariants if the stop commands go on as they should.          *)
LEMMA QuietStep ==
  ASSUME IInv, Types', UNCHANGED <<pidFile, stopper>>,
         \A p \in Server : Holding(p)' => Holding(p) /\ (p \in exposed => p \in exposed'),
         \A p \in Server : Holding(p)' => (server[p]' = "created" <=> server[p] = "created")
  PROVE  IInv'
BY DEF IInv, PidFileNamesServer, StopsAreStale, TogetherExposed, Safe

LEMMA StartKept == ASSUME IInv, Types', NEW p \in Server, runStart(p) PROVE IInv'
<1> USE LifecycleAssumption DEF Types, Holding, Starting, Handling, Leaving, To, Absent, requestVars
<1>1. CASE CreatePidFile(p)
  <2>1. CASE pidFile # Absent
    BY <1>1, <2>1, QuietStep DEF CreatePidFile, IInv
  <2>2. CASE pidFile = Absent
    <3>1. /\ pidFile' = [by |-> p, written |-> FALSE]
          /\ server' = [server EXCEPT ![p] = "created"]
          /\ exposed' = exposed \cup {q \in {p} : Disturbed(p)}
          /\ stopper' = stopper
      BY <1>1, <2>2 DEF CreatePidFile
    <3>2. \A q \in Server : Holding(q) => q \in exposed
      BY <2>2 DEF IInv, PidFileNamesServer
    <3>3. \A q \in Server : Safe(q)' => q = p /\ ~Disturbed(p)
      BY <3>1, <3>2 DEF IInv, Safe
    <3>4. \A q \in Server : Holding(q)' => q = p \/ Holding(q)
      BY <3>1 DEF IInv
    <3>5. PidFileNamesServer'
      BY <3>1, <3>3 DEF PidFileNamesServer, Safe, IInv
    <3>6. StopsAreStale'
      BY <3>1, <3>3 DEF StopsAreStale, Disturbed, IInv
    <3>7. TogetherExposed'
      BY <3>3, <3>4 DEF TogetherExposed, Disturbed, Safe, IInv
    <3>8. QED BY <3>5, <3>6, <3>7 DEF IInv
  <2>3. QED BY <2>1, <2>2
<1>2. CASE WritePid(p)
  <2>1. /\ server[p] = "created" /\ server' = [server EXCEPT ![p] = "init"]
        /\ pidFile' = IF pidFile.by = p THEN [pidFile EXCEPT !.written = TRUE] ELSE pidFile
        /\ UNCHANGED <<stopper, exposed>>
    BY <1>2 DEF WritePid
  <2>2. \A q \in Server : Holding(q)' <=> Holding(q)
    BY <2>1 DEF IInv
  <2>3. PidFileNamesServer'
    BY <2>1, <2>2 DEF IInv, PidFileNamesServer, TogetherExposed, Safe
  <2>4. StopsAreStale' /\ TogetherExposed'
    BY <2>1, <2>2 DEF IInv, StopsAreStale, TogetherExposed, Safe
  <2>5. QED BY <2>3, <2>4 DEF IInv
<1>3. CASE RemovePidFile(p)
  <2>1. /\ server[p] \in Leaving /\ server' = [server EXCEPT ![p] = "none"]
        /\ stopper' = stopper /\ exposed' = exposed \ {p}
    BY <1>3 DEF RemovePidFile, Ends
  <2>2. \A q \in Server : Holding(q)' => Holding(q) /\ q # p
    BY <2>1 DEF IInv
  <2>3. \A q \in Server : ~Safe(q)'
    BY <2>1, <2>2 DEF IInv, TogetherExposed, Safe
  <2>4. QED BY <2>3 DEF IInv, PidFileNamesServer, StopsAreStale, TogetherExposed, Safe
<1>4. CASE Launch(p)        BY <1>4, QuietStep DEF Launch, IInv
<1>5. CASE InitAll(p)       BY <1>5, QuietStep DEF InitAll, IInv
<1>6. CASE NotifyContext(p) BY <1>6, QuietStep DEF NotifyContext, IInv
<1>7. CASE Start(p)         BY <1>7, QuietStep DEF Start, IInv
<1>8. CASE Done(p)          BY <1>8, QuietStep DEF Done, IInv
<1>9. CASE ShutdownAll(p)   BY <1>9, QuietStep DEF ShutdownAll, IInv
<1>10. CASE Shutdown(p)     BY <1>10, QuietStep DEF Shutdown, IInv
<1>11. CASE Crash(p)        BY <1>11, QuietStep DEF Crash, Ends, IInv
<1>12. CASE Serve(p)        BY <1>12, QuietStep DEF Serve, IInv
<1>13. CASE Note(p)         BY <1>13, QuietStep DEF Note, IInv
<1>14. QED BY <1>1, <1>2, <1>3, <1>4, <1>5, <1>6, <1>7, <1>8, <1>9, <1>10, <1>11, <1>12, <1>13
           DEF runStart

LEMMA StopKept == ASSUME IInv, Types', NEW s \in Stopper, runStop(s) PROVE IInv'
<1> USE LifecycleAssumption DEF Types, Holding, Starting, Handling, Leaving, To, Absent, requestVars
<1>1. CASE ReadFile(s)
  <2>1. \A p \in Server : Safe(p)' => Safe(p) /\ pidFile = [by |-> p, written |-> TRUE]
    BY <1>1 DEF ReadFile, Safe, Running, IInv, PidFileNamesServer
  <2>2. PidFileNamesServer' /\ TogetherExposed'
    BY <1>1, <2>1 DEF ReadFile, Safe, IInv, PidFileNamesServer, TogetherExposed
  <2>3. StopsAreStale'
    BY <1>1, <2>1 DEF ReadFile, IInv, StopsAreStale
  <2>4. QED BY <2>2, <2>3 DEF IInv
<1>2. CASE Probe(s)
  <2>1. /\ UNCHANGED <<pidFile, server, exposed>> /\ stopper[s].pc = "probe"
        /\ stopper' = [stopper EXCEPT ![s].pc = IF Running(stopper[s].pid) THEN "signal" ELSE "remove"]
    BY <1>2 DEF Probe, Step
  <2>2. \A p \in Server : Safe(p) => Running(stopper[s].pid)
    BY <2>1 DEF IInv, StopsAreStale, Safe, Running
  <2>3. StopsAreStale'
    BY <2>1, <2>2 DEF IInv, StopsAreStale, Safe
  <2>4. PidFileNamesServer' /\ TogetherExposed'
    BY <2>1 DEF IInv, PidFileNamesServer, TogetherExposed, Safe
  <2>5. QED BY <2>3, <2>4 DEF IInv
<1>3. CASE Signal(s)
  <2>1. /\ pidFile' = pidFile /\ stopper' = [stopper EXCEPT ![s].pc = "idle"]
        /\ \/ server' = server /\ exposed' = exposed
           \/ /\ server' = [server EXCEPT ![stopper[s].pid] = "none"]
              /\ exposed' = exposed \ {stopper[s].pid}
    BY <1>3 DEF Signal, Step, Terminate, Ends
  <2>2. \A p \in Server : Holding(p)' => /\ Holding(p) /\ server'[p] = server[p]
                                        /\ p \in exposed <=> p \in exposed'
    BY <2>1 DEF IInv
  <2>3. QED BY <2>1, <2>2 DEF IInv, PidFileNamesServer, StopsAreStale, TogetherExposed, Safe
<1>4. CASE Remove(s)
  <2>1. \A p \in Server : ~Safe(p)'
    BY <1>4 DEF Remove, IInv, StopsAreStale, Safe
  <2>2. QED BY <2>1 DEF IInv, PidFileNamesServer, StopsAreStale, TogetherExposed, Safe
<1>5. QED BY <1>1, <1>2, <1>3, <1>4 DEF runStop

LEMMA IInvKept == IInv /\ [LifeNext]_lifeVars => IInv'
<1> SUFFICES ASSUME IInv, [LifeNext]_lifeVars PROVE IInv'
  OBVIOUS
<1>1. Types' BY TypesKept DEF IInv
<1>2. CASE runCleanup
  BY <1>1, <1>2 DEF runCleanup, IInv, PidFileNamesServer, StopsAreStale, TogetherExposed, Safe, Holding
<1>3. CASE UNCHANGED lifeVars
  BY <1>1, <1>3 DEF lifeVars, IInv, PidFileNamesServer, StopsAreStale, TogetherExposed, Safe, Holding
<1>4. QED BY <1>1, <1>2, <1>3, StartKept, StopKept DEF LifeNext

LEMMA InitIInv == LifeInit => IInv
BY LifecycleAssumption DEF LifeInit, IInv, Types, PidFileNamesServer, StopsAreStale, TogetherExposed,
   Safe, Holding, Starting, Handling, Leaving, Absent

(* Only a server that was started beside a stop command, or beside a server that
   had lost its file, can lose its own: exclusive creation, the look at the
   process and the deferred removal suffice for all others.                 *)
THEOREM PidFileKept == LifeSpec => []PidFileNamesServer
<1>1. IInv => PidFileNamesServer BY DEF IInv
<1>2. QED BY InitIInv, IInvKept, <1>1, PTL DEF LifeSpec

LEMMA ServedKept ==
  ASSUME Types, Types', ContainerServed, WorkServed, [LifeNext]_lifeVars
  PROVE  ContainerServed' /\ WorkServed'
<1> USE LifecycleAssumption
    DEF Types, ContainerServed, WorkServed, Starting, Handling, Leaving, To, Lose, requestVars
<1>1. ASSUME NEW p \in Server, runStart(p) PROVE ContainerServed' /\ WorkServed'
  <2>1. CASE Launch(p)         BY <2>1 DEF Launch
  <2>2. CASE CreatePidFile(p)  BY <2>2 DEF CreatePidFile
  <2>3. CASE WritePid(p)       BY <2>3 DEF WritePid
  <2>4. CASE InitAll(p)        BY <2>4 DEF InitAll
  <2>5. CASE NotifyContext(p)  BY <2>5 DEF NotifyContext
  <2>6. CASE Start(p)          BY <2>6 DEF Start
  <2>7. CASE Done(p)           BY <2>7 DEF Done
  <2>8. CASE ShutdownAll(p)    BY <2>8 DEF ShutdownAll
  <2>9. CASE Shutdown(p)       BY <2>9 DEF Shutdown
  <2>10. CASE RemovePidFile(p) BY <2>10 DEF RemovePidFile, Ends
  <2>11. CASE Crash(p)         BY <2>11 DEF Crash, Ends
  <2>12. CASE Serve(p)         BY <2>12 DEF Serve
  <2>13. CASE Note(p)          BY <2>13 DEF Note
  <2>14. QED BY <1>1, <2>1, <2>2, <2>3, <2>4, <2>5, <2>6, <2>7, <2>8, <2>9, <2>10, <2>11, <2>12,
                <2>13 DEF runStart
<1>2. ASSUME NEW s \in Stopper, runStop(s) PROVE ContainerServed' /\ WorkServed'
  <2>1. CASE ReadFile(s) BY <2>1 DEF ReadFile
  <2>2. CASE Probe(s)    BY <2>2 DEF Probe
  <2>3. CASE Signal(s)   BY <2>3 DEF Signal, Terminate, Ends
  <2>4. CASE Remove(s)   BY <2>4 DEF Remove
  <2>5. QED BY <1>2, <2>1, <2>2, <2>3, <2>4 DEF runStop
<1>3. CASE runCleanup     BY <1>3 DEF runCleanup
<1>4. CASE UNCHANGED lifeVars BY <1>4 DEF lifeVars
<1>5. QED BY <1>1, <1>2, <1>3, <1>4 DEF LifeNext

(* A container without its server is what a crash, a failed or interrupted start,
   or a failed call of Docker has left, or that of a request which ShutdownAll
   came before: a stop leaves none of those its services knew when they were shut
   down.                                                                     *)
THEOREM StopLeavesNothing == LifeSpec => []NothingLeftBehind
<1>1. LifeInit => Types /\ ContainerServed /\ WorkServed
  BY InitIInv DEF IInv, LifeInit, ContainerServed, WorkServed
<1>2. Types /\ ContainerServed /\ WorkServed /\ [LifeNext]_lifeVars
        => (Types /\ ContainerServed /\ WorkServed)'
  BY TypesKept, ServedKept
<1>3. Types /\ ContainerServed /\ WorkServed => NothingLeftBehind
  BY LifecycleAssumption DEF Types, ContainerServed, WorkServed, NothingLeftBehind, Running
<1>4. QED BY <1>1, <1>2, <1>3, PTL DEF LifeSpec
=============================================================================
