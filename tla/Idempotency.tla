---------------------------- MODULE Idempotency ----------------------------
(***************************************************************************)
(* The idempotency middleware of the gateway, around the timeout           *)
(* middleware and under the recovery middleware.  A request carries a      *)
(* service, an idempotency token and a body (what is read of it: the first *)
(* megabyte, which is also what the handler below sees); a request without *)
(* a token never touches the store and is left out.  Store accesses are    *)
(* atomic under s.mu; everything between them is open to other requests.   *)
(* Once the time limit has passed, what the handler still does is cut off  *)
(* from the answer, and from here.                                         *)
(***************************************************************************)
EXTENDS Integers

CONSTANTS Service, Key, Body,
          V1Projects,   \* services with paths under /v1/projects/
          MaxRequests,  \* bound of the model; requests are numbered as they arrive
          TTL,          \* idempotencyTTL, in ticks
          MaxTime       \* bound of the model

Scope == (Service \cup {"pubsub"}) \X Key

ASSUME IdempotencyAssumption ==
  /\ V1Projects \subseteq Service
  /\ MaxRequests \in Nat /\ TTL \in Nat \ {0} /\ MaxTime \in Nat

Request  == 1 .. MaxRequests
Never    == -1
NoRecord == [status |-> "none"]
Status   == {"answer", "timeout"}   \* what can be captured, and replayed

VARIABLES records,  \* scope -> recorded answer
          rq,       \* request -> what it asks, how far it is, its answer and when
          now,
          beside    \* history: request -> those of its scope whose handler ran beside its own

vars == <<records, rq, now, beside>>

Record == [status : Status, body : Body, from : Request, expiresAt : 0 .. MaxTime + TTL]
Unsent == [pc |-> "unsent"]
Sent   == [pc : {"running", "captured", "dated", "replied"}, svc : Service, key : Key, body : Body,
           status : Status \cup {"none", "mismatch", "panic"}, from : Request,
           at : 0 .. MaxTime \cup {Never}]

TypeOK == /\ records \in [Scope -> Record \cup {NoRecord}]
          /\ rq \in [Request -> Sent \cup {Unsent}]
          /\ now \in 0 .. MaxTime
          /\ beside \in [Request -> SUBSET Request]

Init == /\ records = [s \in Scope |-> NoRecord]
        /\ rq = [r \in Request |-> Unsent]
        /\ now = 0
        /\ beside = [r \in Request |-> {}]
-----------------------------------------------------------------------------
At(r, pc) == rq[r].pc = pc

\* Every path under /v1/projects/ passes for pubsub.
detectService(svc) == IF svc \in V1Projects THEN "pubsub" ELSE svc
StoreKey(svc, key) == <<detectService(svc), key>>
ScopeOf(r) == StoreKey(rq[r].svc, rq[r].key)

expired_AtDeadline(rec, t) == t >= rec.expiresAt
expired(rec, t) == t > rec.expiresAt
Found_Expired(s) == records[s] # NoRecord
Found(s) == records[s] # NoRecord /\ ~expired(records[s], now)

\* A request comes in: its token is looked up.
Arrives(r, svc, key, b, pc, status, from, at) ==
  /\ At(r, "unsent") /\ \A q \in 1 .. r - 1 : ~At(q, "unsent")
  /\ rq' = [rq EXCEPT ![r] = [pc |-> pc, svc |-> svc, key |-> key, body |-> b,
                              status |-> status, from |-> from, at |-> at]]
  /\ UNCHANGED now

\* Its handler has run, or runs, and its answer is not in the store yet.
Active(r) == rq[r].pc \in {"running", "captured", "dated"}

Mismatch(r, svc, key, b) ==
  LET s == StoreKey(svc, key)
  IN  /\ Found(s) /\ records[s].body # b
      /\ Arrives(r, svc, key, b, "replied", "mismatch", records[s].from, now)
      /\ UNCHANGED <<records, beside>>

Replay(r, svc, key, b) ==
  LET s == StoreKey(svc, key)
  IN  /\ Found(s) /\ records[s].body = b
      /\ Arrives(r, svc, key, b, "replied", records[s].status, records[s].from, now)
      /\ UNCHANGED <<records, beside>>

\* Nothing found, or only an expired record, which get deletes: the handler runs.
Run(r, svc, key, b) ==
  LET s == StoreKey(svc, key)
      others == {q \in Request : Active(q) /\ ScopeOf(q) = s}
  IN  /\ ~Found(s)
      /\ Arrives(r, svc, key, b, "running", "none", r, Never)
      /\ records' = [records EXCEPT ![s] = NoRecord]
      /\ beside' = [q \in Request |-> IF q = r THEN others
                                     ELSE IF q \in others THEN beside[q] \cup {r}
                                     ELSE beside[q]]

\* The handler answers, or TimeoutHandler answers 503 in its place (also when
\* the client has gone); either way the answer is captured.
Captured(r, status) ==
  /\ At(r, "running")
  /\ rq' = [rq EXCEPT ![r].pc = "captured", ![r].status = status]
  /\ UNCHANGED <<records, now, beside>>

\* An error of the handler is an answer like any other.
Handle(r)  == Captured(r, "answer")
TimeOut(r) == Captured(r, "timeout")

\* A panic goes through the middleware up to Recovery, which answers 500.
Panic_Stored(r) ==
  /\ At(r, "running")
  /\ rq' = [rq EXCEPT ![r].pc = "captured", ![r].status = "panic", ![r].at = now]
  /\ UNCHANGED <<records, now, beside>>
Panic(r) ==
  /\ At(r, "running")
  /\ rq' = [rq EXCEPT ![r].pc = "replied", ![r].status = "panic", ![r].at = now]
  /\ UNCHANGED <<records, now, beside>>

\* The deadline of the new record is computed before set takes the lock: until
\* it has it, time may pass and another request may store its own record.
Date(r) ==
  /\ At(r, "captured")
  /\ rq' = [rq EXCEPT ![r].pc = "dated", ![r].at = now]
  /\ UNCHANGED <<records, now, beside>>

set(r) ==
  /\ At(r, "dated")
  /\ records' = [records EXCEPT ![ScopeOf(r)] =
                   [status |-> rq[r].status, body |-> rq[r].body, from |-> r,
                    expiresAt |-> rq[r].at + TTL]]
  /\ rq' = [rq EXCEPT ![r].pc = "replied"]
  /\ UNCHANGED <<now, beside>>

\* The time is read before the lock is taken, so it may be an old one.
gc_AddsTTL(t) ==
  /\ records' = [s \in Scope |-> IF records[s] # NoRecord /\ t > records[s].expiresAt + TTL
                                 THEN NoRecord ELSE records[s]]
  /\ UNCHANGED <<rq, now, beside>>
gc(t) ==
  /\ records' = [s \in Scope |-> IF records[s] # NoRecord /\ expired(records[s], t)
                                 THEN NoRecord ELSE records[s]]
  /\ UNCHANGED <<rq, now, beside>>

Tick == /\ now < MaxTime
        /\ now' = now + 1
        /\ UNCHANGED <<records, rq, beside>>

runGC == \E t \in 0 .. now : gc(t)

Next == \/ \E r \in Request, svc \in Service, key \in Key, b \in Body :
             Mismatch(r, svc, key, b) \/ Replay(r, svc, key, b) \/ Run(r, svc, key, b)
        \/ \E r \in Request : Handle(r) \/ TimeOut(r) \/ Panic(r) \/ Date(r) \/ set(r)
        \/ runGC
        \/ Tick

\* The collector's ticker goes on firing.
Spec == Init /\ [][Next]_vars /\ WF_vars(runGC)
-----------------------------------------------------------------------------
\* The answer to e was put into the store when e was answered.
Stored(e) == At(e, "replied") /\ rq[e].from = e /\ rq[e].status # "panic"

FromRecord(r) ==
  At(r, "replied") /\ rq[r].from # r =>
    LET e == rq[r].from
    IN  /\ Stored(e)
        /\ rq[e].key = rq[r].key
        /\ rq[e].svc = rq[r].svc \/ {rq[e].svc, rq[r].svc} \subseteq V1Projects \cup {"pubsub"}
        /\ rq[r].at - rq[e].at \in 0 .. TTL
        /\ IF rq[r].status = "mismatch" THEN rq[e].body # rq[r].body
           ELSE rq[e].body = rq[r].body /\ rq[e].status = rq[r].status

(* An answer taken from the store is the answer of an earlier request with   *)
(* the same token, recorded no longer ago than the TTL, to the same body and *)
(* of the same service (or both under /v1/projects/); a mismatch is reported *)
(* only when such a request had another body.                                *)
AnswersFromRecord == \A r \in Request : FromRecord(r)

\* Of the answers given to e and to the requests that ran beside it, one dated
\* no later than e's is older than the TTL.
Old(e) == \E f \in {e} \cup beside[e] : Stored(f) /\ rq[f].at <= rq[e].at /\ now - rq[f].at > TTL

(* A handler runs for a token only when every answer recorded for the token  *)
(* is older than the TTL, or overlapped one that is and was dated no later:  *)
(* two requests that run side by side both record, and the record of the     *)
(* earlier deadline may be stored last.  So a retry that comes after an      *)
(* answer, a 503 included, does not run the operation a second time within   *)
(* the TTL, whatever the collector, expired records and the requests         *)
(* between them do, unless the operation had been run twice already.         *)
RunsAgainOnlyAfterExpiry ==
  [][\A r \in Request : At(r, "unsent") /\ At(r, "running")' =>
       \A e \in Request : Stored(e) /\ ScopeOf(e) = ScopeOf(r)' => Old(e)]_vars

(* The collector removes every expired record nobody asks for again.         *)
ExpiredGoes ==
  \A s \in Scope : records[s] # NoRecord /\ expired(records[s], now)
                     ~> (records[s] = NoRecord \/ ~expired(records[s], now))
=============================================================================
