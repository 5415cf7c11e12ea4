---------------------------- MODULE AbstractLock ----------------------------
(* A table of mutual-exclusion locks: what "排他ロック" (exclusive lock, the
   comment of LockManager) means.  holder[k] is the one process that may touch
   resource k.                                                              *)
CONSTANTS Proc, Key, NoProc
VARIABLE holder

LInit == holder = [k \in Key |-> NoProc]

Acquire(p, k) == holder[k] = NoProc /\ holder' = [holder EXCEPT ![k] = p]

Yield(p, k) == holder[k] = p /\ holder' = [holder EXCEPT ![k] = NoProc]

LNext == \E p \in Proc, k \in Key : Acquire(p, k) \/ Yield(p, k)

LSpec == LInit /\ [][LNext]_holder
=============================================================================
