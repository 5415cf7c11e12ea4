---------------------------- MODULE LockManager ----------------------------
(***************************************************************************)
(* internal/state/lock.go: a lock per resource key.  The map `locks' holds *)
(* a channel for every locked key; a caller that finds one waits on that   *)
(* channel, which Unlock closes, and tries again.  m.mu is only held while *)
(* the map is looked at, so a call of Lock is several steps, in between    *)
(* which other calls run.                                                  *)
(*                                                                         *)
(* The callers are modelled by the discipline the code keeps (reconciler   *)
(* lines 97-110 and 148-164): who has acquired a lock releases it once.    *)
(***************************************************************************)
EXTENDS FiniteSets, Naturals

CONSTANTS Proc,      \* goroutines that call the manager
          Key,       \* "kind:id" strings
          Chan,      \* channel identities that make(chan struct{}) can return
          NoChan,    \* "no entry" in the map, "no channel" in a local variable
          NoKey,     \* a process with no call under way
          NoProc

ASSUME LockAssumption == /\ NoChan \notin Chan
                         /\ NoKey \notin Key
                         /\ NoProc \notin Proc

VARIABLES locks,    \* key -> the channel registered for it
          closed,   \* channels that have been closed
          pc,       \* where each process stands
          key,      \* the key of its call
          ch,       \* its local variable ch
          expired   \* its ctx is done (deadline or defaultTimeout reached)

lockVars == <<locks, closed, pc, key, ch, expired>>

(* "try": at the head of the for loop;  "wait": in the select;
   "hold": the call returned nil / true and Unlock has not been called.     *)
LockTypeOK == /\ locks \in [Key -> Chan \cup {NoChan}]
              /\ closed \in SUBSET Chan
              /\ pc \in [Proc -> {"idle", "try", "wait", "hold"}]
              /\ key \in [Proc -> Key \cup {NoKey}]
              /\ ch \in [Proc -> Chan \cup {NoChan}]
              /\ expired \in [Proc -> BOOLEAN]

LockInit == /\ locks = [k \in Key |-> NoChan]
            /\ closed = {}
            /\ pc = [p \in Proc |-> "idle"]
            /\ key = [p \in Proc |-> NoKey]
            /\ ch = [p \in Proc |-> NoChan]
            /\ expired = [p \in Proc |-> FALSE]
-----------------------------------------------------------------------------
locked(k) == locks[k] # NoChan

\* make(chan struct{}) returns a channel that nothing refers to any more.
InUse == {locks[k] : k \in Key} \cup {ch[p] : p \in Proc}
Register(k) == \E c \in Chan \ InUse : /\ locks' = [locks EXCEPT ![k] = c]
                                       /\ closed' = closed \ {c}

\* A caller enters Lock, with a ctx that has a deadline or is given one.
LockCall(p, k) ==
  /\ pc[p] = "idle"
  /\ pc' = [pc EXCEPT ![p] = "try"]
  /\ key' = [key EXCEPT ![p] = k]
  /\ expired' = [expired EXCEPT ![p] = FALSE]
  /\ UNCHANGED <<locks, closed, ch>>

\* The map is checked and written in two critical sections.
LockAttempt_NotAtomic(p) ==
  /\ pc[p] \in {"try", "wait"}
  /\ \/ /\ pc[p] = "try" /\ ~locked(key[p])
        /\ pc' = [pc EXCEPT ![p] = "wait"]
        /\ UNCHANGED <<locks, closed>>
     \/ /\ pc[p] = "wait" /\ ch[p] = NoChan
        /\ Register(key[p])
        /\ pc' = [pc EXCEPT ![p] = "hold"]
  /\ UNCHANGED <<key, ch, expired>>

\* The critical section of one turn of the loop: register, or pick up the
\* channel to wait on.  The deadline is not looked at here.
LockAttempt(p) ==
  /\ pc[p] = "try"
  /\ \/ /\ ~locked(key[p])
        /\ Register(key[p])
        /\ pc' = [pc EXCEPT ![p] = "hold"]
        /\ UNCHANGED ch
     \/ /\ locked(key[p])
        /\ ch' = [ch EXCEPT ![p] = locks[key[p]]]
        /\ pc' = [pc EXCEPT ![p] = "wait"]
        /\ UNCHANGED <<locks, closed>>
  /\ UNCHANGED <<key, expired>>

\* case <-ch: the channel has been closed; try again.
Woken(p) ==
  /\ pc[p] = "wait"
  /\ ch[p] \in closed
  /\ pc' = [pc EXCEPT ![p] = "try"]
  /\ ch' = [ch EXCEPT ![p] = NoChan]
  /\ UNCHANGED <<locks, closed, key, expired>>

\* The caller that gives up clears the entry it waited for.
GiveUp_Deletes(p) ==
  /\ pc[p] = "wait"
  /\ expired[p]
  /\ locks' = [locks EXCEPT ![key[p]] = NoChan]
  /\ pc' = [pc EXCEPT ![p] = "idle"]
  /\ ch' = [ch EXCEPT ![p] = NoChan]
  /\ key' = [key EXCEPT ![p] = NoKey]
  /\ UNCHANGED <<closed, expired>>

\* case <-ctx.Done(): give up.  If both cases are ready select takes either.
GiveUp(p) ==
  /\ pc[p] = "wait"
  /\ expired[p]
  /\ pc' = [pc EXCEPT ![p] = "idle"]
  /\ ch' = [ch EXCEPT ![p] = NoChan]
  /\ key' = [key EXCEPT ![p] = NoKey]
  /\ UNCHANGED <<locks, closed, expired>>

\* defaultTimeout is not applied to a ctx without a deadline.
Expire_Never(p) == FALSE /\ expired' = expired /\ UNCHANGED <<locks, closed, pc, key, ch>>

\* Time passes: the deadline of the call of p is reached.
Expire(p) ==
  /\ pc[p] \in {"try", "wait"}
  /\ ~expired[p]
  /\ expired' = [expired EXCEPT ![p] = TRUE]
  /\ UNCHANGED <<locks, closed, pc, key, ch>>

\* TryLock without the check of the map.
TryLock_Always(p, k) ==
  /\ pc[p] = "idle"
  /\ Register(k)
  /\ pc' = [pc EXCEPT ![p] = "hold"]
  /\ key' = [key EXCEPT ![p] = k]
  /\ UNCHANGED <<ch, expired>>

TryLock(p, k) ==
  /\ pc[p] = "idle"
  /\ ~locked(k)                    \* false is returned otherwise: no change
  /\ Register(k)
  /\ pc' = [pc EXCEPT ![p] = "hold"]
  /\ key' = [key EXCEPT ![p] = k]
  /\ UNCHANGED <<ch, expired>>

Unlock_NoClose(p) ==
  /\ pc[p] = "hold"
  /\ locks' = [locks EXCEPT ![key[p]] = NoChan]
  /\ pc' = [pc EXCEPT ![p] = "idle"]
  /\ key' = [key EXCEPT ![p] = NoKey]
  /\ UNCHANGED <<closed, ch, expired>>

\* The channel to close is read from the map after its entry is deleted.
Unlock_ClosesNil(p) ==
  /\ pc[p] = "hold"
  /\ locks' = [locks EXCEPT ![key[p]] = NoChan]
  /\ closed' = closed \cup {locks'[key[p]]}
  /\ pc' = [pc EXCEPT ![p] = "idle"]
  /\ key' = [key EXCEPT ![p] = NoKey]
  /\ UNCHANGED <<ch, expired>>

\* delete(m.locks, key); close(ch) -- both under m.mu, and only for a locked key.
Unlock(p) ==
  /\ pc[p] = "hold"
  /\ locks' = [locks EXCEPT ![key[p]] = NoChan]
  /\ closed' = closed \cup ({locks[key[p]]} \ {NoChan})
  /\ pc' = [pc EXCEPT ![p] = "idle"]
  /\ key' = [key EXCEPT ![p] = NoKey]
  /\ UNCHANGED <<ch, expired>>

LockNext == \E p \in Proc :
          \/ \E k \in Key : LockCall(p, k) \/ TryLock(p, k)
          \/ LockAttempt(p) \/ Woken(p) \/ GiveUp(p) \/ Expire(p) \/ Unlock(p)

LockSpec == LockInit /\ [][LockNext]_lockVars

(* Goroutines are scheduled, deadlines arrive, holders return from what they
   do under the lock (the reconciler's critical sections have no loops), and a
   select whose two cases are ready again and again picks each of them: Go
   chooses at random, hence strong fairness of GiveUp.                      *)
Fairness == \A p \in Proc : /\ WF_lockVars(LockAttempt(p)) /\ WF_lockVars(Woken(p))
                            /\ WF_lockVars(Expire(p))      /\ WF_lockVars(Unlock(p))
                            /\ SF_lockVars(GiveUp(p))

FairSpec == LockSpec /\ Fairness
-----------------------------------------------------------------------------
holds(p, k) == pc[p] = "hold" /\ key[p] = k

(* Exclusive lock: two callers never hold the same resource.               *)
MutualExclusion ==
  \A k \in Key, p, q \in Proc : holds(p, k) /\ holds(q, k) => p = q

(* A registered key belongs to exactly a caller that knows it holds it: a
   caller that gave up at its deadline leaves no entry behind, and nobody
   believes to hold a key that is not registered.                           *)
LockedIffHeld == \A k \in Key : locked(k) <=> \E p \in Proc : holds(p, k)

(* No wake-up is lost: a caller blocked in the select either waits on the
   channel of the present holder or on a channel that is already closed.    *)
NoLostWakeup ==
  \A p \in Proc : pc[p] = "wait" => \/ ch[p] \in closed
                                    \/ locks[key[p]] = ch[p]

(* Releasing one resource does not wake the callers of another one: channels
   are not shared, and a registered channel is open.                        *)
ChannelsSeparate ==
  /\ \A k \in Key : locks[k] \notin closed
  /\ \A k, l \in Key : locked(k) /\ locks[k] = locks[l] => k = l

(* Every call of Lock returns, with the lock or with ctx.Err(), although the
   holder may change hands for ever while it waits.                         *)
LockReturns ==
  \A p \in Proc : pc[p] \in {"try", "wait"} ~> pc[p] \in {"hold", "idle"}

(* The manager is a table of mutual-exclusion locks.                        *)
holderOf == [k \in Key |-> IF \E p \in Proc : holds(p, k)
                           THEN CHOOSE p \in Proc : holds(p, k) ELSE NoProc]
Table == INSTANCE AbstractLock WITH holder <- holderOf
ImplementsAbstractLock == Table!LSpec
=============================================================================
