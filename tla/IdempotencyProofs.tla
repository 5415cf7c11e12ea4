------------------------- MODULE IdempotencyProofs -------------------------
(* What the middleware guarantees for any services, tokens, bodies, TTL and
   number of requests.  TLC's instance has three requests; the proof has the
   bounds as parameters.                                                     *)
EXTENDS Idempotency, TLAPS

\* How far a request is says what is known of its answer.
Progress ==
  \A r \in Request : /\ At(r, "captured") \/ At(r, "dated") => rq[r].status \in Status
                     /\ Active(r) => rq[r].from = r
                     /\ At(r, "dated") \/ At(r, "replied") => rq[r].at \in 0 .. now

\* A record is the answer of a request for that token, and dated by it.
Backed(s) ==
  records[s] # NoRecord =>
    LET e == records[s].from
    IN  /\ Stored(e) /\ ScopeOf(e) = s
        /\ rq[e].body = records[s].body /\ rq[e].status = records[s].status
        /\ records[s].expiresAt = rq[e].at + TTL
RecordsBacked == \A s \in Scope : Backed(s)

\* While an answer is not old its token has a record, which does not expire
\* before that answer would have, or one beside it dated no later.
Kept(e) ==
  Stored(e) =>
    \/ Old(e)
    \/ /\ records[ScopeOf(e)] # NoRecord
       /\ \E f \in {e} \cup beside[e] : /\ Stored(f) /\ rq[f].at <= rq[e].at
                                       /\ records[ScopeOf(e)].expiresAt >= rq[f].at + TTL
AnswersKept == \A e \in Request : Kept(e)

\* A request whose handler ran ran beside every other one of its scope that is
\* not recorded yet, and beside every recorded one that is not old.
Met(e, g) ==
  Active(g) /\ (Active(e) \/ Stored(e)) /\ g # e /\ ScopeOf(g) = ScopeOf(e) =>
    g \in beside[e] \/ (Stored(e) /\ Old(e))
AllMet == \A e, g \in Request : Met(e, g)

IInv == TypeOK /\ Progress /\ RecordsBacked /\ AnswersKept /\ AllMet /\ AnswersFromRecord

LEMMA NoRecordApart ==
  /\ \A rec \in Record : rec # NoRecord
  /\ \A q \in Sent : q # Unsent /\ q.pc # "unsent"
  /\ Unsent.pc = "unsent"
BY DEF Record, NoRecord, Status, Sent, Unsent

\* Two services share a scope only under /v1/projects/.
LEMMA SharedScope ==
  ASSUME NEW s1 \in Service, NEW s2 \in Service, NEW k1 \in Key, NEW k2 \in Key,
         StoreKey(s1, k1) = StoreKey(s2, k2)
  PROVE  /\ k1 = k2
         /\ s1 = s2 \/ {s1, s2} \subseteq V1Projects \cup {"pubsub"}
BY DEF StoreKey, detectService

LEMMA ScopeType ==
  ASSUME NEW svc \in Service, NEW key \in Key
  PROVE  StoreKey(svc, key) \in Scope
BY DEF StoreKey, detectService, Scope

LEMMA InitInv == Init => IInv
<1> SUFFICES ASSUME Init PROVE IInv
  OBVIOUS
<1>1. \A r \in Request : rq[r].pc = "unsent"
  BY NoRecordApart DEF Init
<1>2. TypeOK
  BY IdempotencyAssumption DEF Init, TypeOK
<1>3. QED
  BY <1>1, <1>2 DEF Init, IInv, Progress, RecordsBacked, Backed, AnswersKept, Kept, AllMet, Met,
     AnswersFromRecord, FromRecord, Stored, At, Active

\* Answers given are never touched again.
Answered == \A e \in Request : At(e, "replied") => rq'[e] = rq[e]

LEMMA ArrivesFacts ==
  ASSUME TypeOK, NEW r \in Request, NEW svc \in Service, NEW key \in Key, NEW b \in Body,
         NEW pc \in {"running", "captured", "replied"},
         NEW status \in Status \cup {"none", "mismatch", "panic"}, NEW from \in Request,
         NEW at \in 0 .. MaxTime \cup {Never},
         Arrives(r, svc, key, b, pc, status, from, at)
  PROVE  /\ rq' \in [Request -> Sent \cup {Unsent}] /\ now' = now
         /\ At(r, "unsent") /\ Answered
         /\ \A q \in Request \ {r} : rq'[q] = rq[q]
         /\ rq'[r] = [pc |-> pc, svc |-> svc, key |-> key, body |-> b,
                      status |-> status, from |-> from, at |-> at]
<1> DEFINE new == [pc |-> pc, svc |-> svc, key |-> key, body |-> b,
                   status |-> status, from |-> from, at |-> at]
<1>1. new \in Sent
  BY DEF Sent
<1>2. rq' = [rq EXCEPT ![r] = new] /\ now' = now /\ At(r, "unsent")
  BY DEF Arrives
<1> HIDE DEF new
<1>3. rq' \in [Request -> Sent \cup {Unsent}] /\ rq'[r] = new
      /\ \A q \in Request \ {r} : rq'[q] = rq[q]
  BY <1>1, <1>2 DEF TypeOK
<1>4. Answered
  BY <1>2, <1>3 DEF Answered, At
<1>5. QED BY <1>2, <1>3, <1>4 DEF new

\* A step of a request that is not answered yet.
LEMMA UpdateFacts ==
  ASSUME TypeOK, NEW r \in Request, NEW q \in Sent, rq[r].pc \in {"running", "captured", "dated"},
         rq' = [rq EXCEPT ![r] = q]
  PROVE  /\ rq' \in [Request -> Sent \cup {Unsent}] /\ Answered /\ rq'[r] = q
         /\ \A p \in Request \ {r} : rq'[p] = rq[p]
BY DEF TypeOK, Answered, At

\* History only grows.
Onward == /\ Answered /\ now' \in {now, now + 1}
          /\ \A e \in Request : Stored(e) => beside[e] \subseteq beside'[e]

LEMMA StoredStays ==
  ASSUME IInv, Onward, NEW e \in Request, Stored(e)
  PROVE  /\ rq'[e] = rq[e] /\ Stored(e)' /\ ScopeOf(e)' = ScopeOf(e)
         /\ rq[e].at \in 0 .. now /\ ScopeOf(e) \in Scope
<1>1. rq'[e] = rq[e] /\ Stored(e)' /\ ScopeOf(e)' = ScopeOf(e)
  BY DEF Onward, Answered, Stored, At, ScopeOf
<1>2. rq[e].at \in 0 .. now /\ rq[e] \in Sent
  BY NoRecordApart DEF IInv, TypeOK, Progress, Stored, At
<1>3. QED BY <1>1, <1>2, ScopeType DEF ScopeOf, Sent

LEMMA OldStays ==
  ASSUME IInv, Onward, NEW e \in Request, Stored(e), Old(e)
  PROVE  Old(e)'
<1>1. PICK f \in {e} \cup beside[e] : Stored(f) /\ rq[f].at <= rq[e].at /\ now - rq[f].at > TTL
  BY DEF Old
<1>2. f \in Request /\ f \in {e} \cup beside'[e]
  BY <1>1 DEF IInv, TypeOK, Onward
<1>3. rq'[e] = rq[e] /\ rq'[f] = rq[f] /\ Stored(f)' /\ rq[f].at \in 0 .. now
  BY <1>1, <1>2, StoredStays
<1>4. now' - rq[f].at > TTL
  BY <1>1, <1>3, IdempotencyAssumption DEF IInv, TypeOK, Onward
<1>5. QED BY <1>1, <1>2, <1>3, <1>4 DEF Old

\* While only records that protect no answer go and no answer is recorded, the
\* store stays right.
LEMMA StoreStays ==
  ASSUME IInv, Onward,
         \A e \in Request : Stored(e)' => Stored(e),
         \A s \in Scope : records'[s] = records[s] \/ records'[s] = NoRecord,
         \A e \in Request : Stored(e) /\ ~Old(e) => records'[ScopeOf(e)] = records[ScopeOf(e)]
  PROVE  (RecordsBacked /\ AnswersKept)'
<1>1. ASSUME NEW s \in Scope PROVE Backed(s)'
  <2>1. CASE records'[s] # NoRecord
    <3>1. records'[s] = records[s] /\ records[s].from \in Request
      BY <2>1, NoRecordApart DEF IInv, TypeOK, Record
    <3>2. Backed(s)
      BY DEF IInv, RecordsBacked
    <3>3. QED BY <2>1, <3>1, <3>2, StoredStays DEF Backed
  <2>2. QED BY <2>1 DEF Backed
<1>2. ASSUME NEW e \in Request PROVE Kept(e)'
  <2>1. SUFFICES ASSUME Stored(e), ~Old(e) PROVE Kept(e)'
    BY OldStays DEF Kept
  <2>2. rq'[e] = rq[e] /\ ScopeOf(e)' = ScopeOf(e) /\ records'[ScopeOf(e)] = records[ScopeOf(e)]
    BY <2>1, StoredStays
  <2>3. records[ScopeOf(e)] # NoRecord
    BY <2>1 DEF IInv, AnswersKept, Kept
  <2>4. PICK f \in {e} \cup beside[e] : /\ Stored(f) /\ rq[f].at <= rq[e].at
                                     /\ records[ScopeOf(e)].expiresAt >= rq[f].at + TTL
    BY <2>1 DEF IInv, AnswersKept, Kept
  <2>5. f \in Request /\ f \in {e} \cup beside'[e]
    BY <2>1, <2>4 DEF IInv, TypeOK, Onward
  <2>6. rq'[f] = rq[f] /\ Stored(f)'
    BY <2>4, <2>5, StoredStays
  <2>7. QED BY <2>2, <2>3, <2>4, <2>5, <2>6 DEF Kept
<1>3. QED BY <1>1, <1>2 DEF RecordsBacked, AnswersKept

\* While no handler starts, nobody meets anybody new.
LEMMA MetStays ==
  ASSUME IInv, Onward, beside' = beside,
         \A q \in Request : /\ Active(q)' => Active(q)
                            /\ Stored(q)' => Active(q) \/ Stored(q)
                            /\ Active(q)' \/ Stored(q)' => ScopeOf(q)' = ScopeOf(q)
  PROVE  AllMet'
<1>1. SUFFICES ASSUME NEW e \in Request, NEW g \in Request,
                      Active(g)', Active(e)' \/ Stored(e)', g # e, ScopeOf(g)' = ScopeOf(e)'
               PROVE  g \in beside'[e] \/ (Stored(e) /\ Old(e))'
  BY DEF AllMet, Met
<1>2. Active(g) /\ (Active(e) \/ Stored(e)) /\ ScopeOf(g) = ScopeOf(e)
  BY <1>1
<1>3. g \in beside[e] \/ (Stored(e) /\ Old(e))
  BY <1>1, <1>2 DEF IInv, AllMet, Met
<1>4. QED BY <1>3, StoredStays, OldStays

\* An answer given stays right; only the request that moves has to be looked at.
LEMMA AnswersStay ==
  ASSUME IInv, Answered, NEW r \in Request, FromRecord(r)',
         \A q \in Request \ {r} : rq'[q] = rq[q]
  PROVE  AnswersFromRecord'
<1>1. \A e \in Request : Stored(e) => rq'[e] = rq[e] /\ Stored(e)'
  BY DEF Answered, Stored, At
<1>2. ASSUME NEW q \in Request \ {r} PROVE FromRecord(q)'
  <2>1. SUFFICES ASSUME At(q, "replied"), rq[q].from # q PROVE FromRecord(q)'
    BY <1>2 DEF FromRecord, At
  <2>2. rq'[q] = rq[q] /\ rq[q].from \in Request
    BY <1>2, <2>1, NoRecordApart DEF IInv, TypeOK, Sent, At
  <2>3. FromRecord(q) /\ Stored(rq[q].from)
    BY <2>1 DEF IInv, AnswersFromRecord, FromRecord
  <2>4. QED BY <1>1, <2>1, <2>2, <2>3 DEF FromRecord, At
<1>3. QED BY <1>2 DEF AnswersFromRecord

\* What a request takes out of the store is the answer of a request like it.
LEMMA FoundFacts ==
  ASSUME IInv, NEW s \in Scope, Found(s)
  PROVE  /\ records[s] \in Record /\ records[s].from \in Request
         /\ Stored(records[s].from) /\ ScopeOf(records[s].from) = s
         /\ rq[records[s].from].body = records[s].body
         /\ rq[records[s].from].status = records[s].status
         /\ now - rq[records[s].from].at \in 0 .. TTL
<1>1. records[s] \in Record /\ records[s].from \in Request
  BY DEF IInv, TypeOK, Found, Record
<1>2. Backed(s) /\ records[s] # NoRecord /\ ~(now > records[s].expiresAt)
  BY DEF IInv, RecordsBacked, Found, expired
<1>3. rq[records[s].from].at \in 0 .. now
  BY <1>1, <1>2 DEF Backed, IInv, Progress, Stored
<1>4. now - rq[records[s].from].at \in 0 .. TTL
  BY <1>2, <1>3, IdempotencyAssumption DEF Backed, IInv, TypeOK
<1>5. QED BY <1>1, <1>2, <1>4 DEF Backed

\* Only requests that are under way move; none of them was answered before.
LEMMA ProgressStays ==
  ASSUME IInv, TypeOK', NEW r \in Request, now' = now,
         \A q \in Request \ {r} : rq'[q] = rq[q],
         /\ At(r, "captured")' \/ At(r, "dated")' => rq'[r].status \in Status
         /\ Active(r)' => rq'[r].from = r
         /\ At(r, "dated")' \/ At(r, "replied")' => rq'[r].at \in 0 .. now
  PROVE  Progress'
BY DEF IInv, TypeOK, Progress, At, Active

LEMMA AnsweredFromStore ==
  ASSUME IInv, NEW r \in Request, NEW svc \in Service, NEW key \in Key, NEW b \in Body,
         NEW status \in Status \cup {"mismatch"}, Found(StoreKey(svc, key)),
         LET rec == records[StoreKey(svc, key)]
         IN  /\ Arrives(r, svc, key, b, "replied", status, rec.from, now)
             /\ IF status = "mismatch" THEN rec.body # b ELSE rec.body = b /\ rec.status = status,
         UNCHANGED <<records, beside>>
  PROVE  IInv'
<1>0. StoreKey(svc, key) \in Scope
  BY ScopeType
<1>1. PICK e \in Request : e = records[StoreKey(svc, key)].from
  BY <1>0, FoundFacts
<1>2. Stored(e) /\ ScopeOf(e) = StoreKey(svc, key)
      /\ rq[e].body = records[StoreKey(svc, key)].body
      /\ rq[e].status = records[StoreKey(svc, key)].status /\ now - rq[e].at \in 0 .. TTL
  BY <1>0, <1>1, FoundFacts
<1>3. TypeOK /\ now \in 0 .. MaxTime
  BY DEF IInv, TypeOK
<1>4. Arrives(r, svc, key, b, "replied", status, e, now)
  BY <1>1
<1>5. /\ rq' \in [Request -> Sent \cup {Unsent}] /\ now' = now
      /\ At(r, "unsent") /\ Answered
      /\ \A q \in Request \ {r} : rq'[q] = rq[q]
      /\ rq'[r] = [pc |-> "replied", svc |-> svc, key |-> key, body |-> b,
                   status |-> status, from |-> e, at |-> now]
  BY <1>2, <1>3, <1>4, ArrivesFacts
<1>6. TypeOK'
  BY <1>3, <1>5 DEF TypeOK
<1>7. e # r /\ rq'[e] = rq[e] /\ Stored(e)' /\ ~Stored(r)'
  <2>1. e # r /\ rq'[e] = rq[e]
    BY <1>2, <1>5 DEF Answered, Stored, At
  <2>2. rq'[r].from = e
    BY <1>5
  <2>3. Stored(e)
    BY <1>2
  <2>4. Stored(e)'
    <3>1. rq'[e].pc = "replied" /\ rq'[e].from = e /\ rq'[e].status # "panic"
      BY <2>1, <2>3 DEF Stored, At
    <3>2. QED BY <3>1 DEF Stored, At
  <2>5. ~Stored(r)'
    BY <2>1, <2>2 DEF Stored
  <2>6. QED BY <2>1, <2>4, <2>5
<1>8. Progress'
  BY <1>3, <1>5, <1>6, ProgressStays DEF At, Active
<1>9. rq[e] \in Sent
  BY <1>2, <1>3, NoRecordApart DEF TypeOK, Stored, At
<1>10. /\ rq[e].key = key
       /\ rq[e].svc = svc \/ {rq[e].svc, svc} \subseteq V1Projects \cup {"pubsub"}
  BY <1>2, <1>9, SharedScope DEF ScopeOf, Sent
<1>11. FromRecord(r)'
  BY <1>2, <1>5, <1>7, <1>10 DEF FromRecord
<1>12. AnswersFromRecord'
  BY <1>5, <1>11, AnswersStay
<1>13. \A q \in Request : Stored(q)' => Stored(q)
  BY <1>5, <1>7 DEF Stored, At
<1>14. Onward
  BY <1>5 DEF Onward
<1>15. (RecordsBacked /\ AnswersKept)'
  BY <1>13, <1>14, StoreStays
<1>16. AllMet'
  <2>1. ASSUME NEW q \in Request, Active(q)' \/ Stored(q)' PROVE q # r
    BY <1>5, <1>7, <2>1 DEF Active
  <2>2. QED BY <1>5, <1>13, <1>14, <2>1, MetStays DEF Active, ScopeOf
<1>17. QED BY <1>6, <1>8, <1>12, <1>15, <1>16 DEF IInv

\* A request that finds nothing finds no answer that is not old either.
LEMMA NothingYoung ==
  ASSUME IInv, NEW s \in Scope, ~Found(s), NEW e \in Request, Stored(e), ScopeOf(e) = s
  PROVE  Old(e)
<1>1. SUFFICES ASSUME ~Old(e) PROVE FALSE
  OBVIOUS
<1>2. records[s] # NoRecord
  BY <1>1 DEF IInv, AnswersKept, Kept
<1>3. PICK f \in {e} \cup beside[e] : /\ Stored(f) /\ rq[f].at <= rq[e].at
                                   /\ records[s].expiresAt >= rq[f].at + TTL
  BY <1>1 DEF IInv, AnswersKept, Kept
<1>4. f \in Request
  BY <1>3 DEF IInv, TypeOK
<1>5. records[s].expiresAt \in Int /\ rq[f].at \in Int /\ now \in Int
  BY <1>2, <1>3, <1>4 DEF IInv, TypeOK, Record, Progress, Stored
<1>6. now > records[s].expiresAt
  BY <1>2 DEF Found, expired
<1>7. now - rq[f].at > TTL
  BY <1>3, <1>5, <1>6, IdempotencyAssumption
<1>8. QED BY <1>1, <1>3, <1>7 DEF Old

LEMMA RunKeeps ==
  ASSUME IInv, NEW r \in Request, NEW svc \in Service, NEW key \in Key, NEW b \in Body,
         Run(r, svc, key, b)
  PROVE  IInv' /\ At(r, "unsent") /\ ScopeOf(r)' = StoreKey(svc, key)
<1> DEFINE s == StoreKey(svc, key)
<1>1. s \in Scope
  BY ScopeType
<1> HIDE DEF s
<1> DEFINE others == {q \in Request : Active(q) /\ ScopeOf(q) = s}
<1>2. /\ ~Found(s) /\ records' = [records EXCEPT ![s] = NoRecord]
      /\ Arrives(r, svc, key, b, "running", "none", r, Never)
      /\ beside' = [q \in Request |-> IF q = r THEN others
                                     ELSE IF q \in others THEN beside[q] \cup {r}
                                     ELSE beside[q]]
  BY DEF Run, s
<1>3. TypeOK
  BY DEF IInv
<1>4. /\ rq' \in [Request -> Sent \cup {Unsent}] /\ now' = now
      /\ At(r, "unsent") /\ Answered
      /\ \A q \in Request \ {r} : rq'[q] = rq[q]
      /\ rq'[r] = [pc |-> "running", svc |-> svc, key |-> key, body |-> b,
                   status |-> "none", from |-> r, at |-> Never]
  BY <1>2, <1>3, ArrivesFacts
<1>5. TypeOK'
  <2>1. beside' \in [Request -> SUBSET Request]
    BY <1>2, <1>3 DEF TypeOK
  <2>2. QED BY <1>1, <1>2, <1>3, <1>4, <2>1 DEF TypeOK
<1>6. ScopeOf(r)' = s
  BY <1>4 DEF ScopeOf, s
<1>7. Progress'
  BY <1>3, <1>4, <1>5, ProgressStays DEF At, Active
<1>8. FromRecord(r)'
  BY <1>4 DEF FromRecord, At
<1>9. AnswersFromRecord'
  BY <1>4, <1>8, AnswersStay
<1>10. \A q \in Request : Stored(q)' => Stored(q)
  BY <1>4 DEF Stored, At
<1>11. \A q \in Scope : records'[q] = records[q] \/ records'[q] = NoRecord
  BY <1>1, <1>2, <1>3 DEF TypeOK
<1>12. Onward
  <2>1. ~Active(r) /\ ~Stored(r)
    BY <1>4 DEF Active, Stored, At
  <2>2. \A q \in Request \ {r} : beside[q] \subseteq beside'[q]
    BY <1>2
  <2>3. QED BY <1>4, <2>1, <2>2 DEF Onward
<1>13. ASSUME NEW q \in Request, Stored(q), ~Old(q)
       PROVE  records'[ScopeOf(q)] = records[ScopeOf(q)]
  <2>1. ScopeOf(q) # s
    BY <1>1, <1>2, <1>13, NothingYoung
  <2>2. ScopeOf(q) \in Scope
    BY <1>12, <1>13, StoredStays
  <2>3. QED BY <1>2, <1>3, <2>1, <2>2 DEF TypeOK
<1>14. (RecordsBacked /\ AnswersKept)'
  BY <1>10, <1>11, <1>12, <1>13, StoreStays
<1>15. AllMet'
  <2>1. SUFFICES ASSUME NEW e \in Request, NEW g \in Request, Active(g)',
                        Active(e)' \/ Stored(e)', g # e, ScopeOf(g)' = ScopeOf(e)'
                 PROVE  g \in beside'[e] \/ (Stored(e) /\ Old(e))'
    BY DEF AllMet, Met
  <2>2. CASE g # r /\ e # r
    <3>1. Active(g) /\ (Active(e) \/ Stored(e)) /\ ScopeOf(g) = ScopeOf(e)
      BY <1>4, <2>1, <2>2 DEF Active, Stored, At, ScopeOf
    <3>2. g \in beside[e] \/ (Stored(e) /\ Old(e))
      BY <2>1, <3>1 DEF IInv, AllMet, Met
    <3>3. g \in beside[e] => g \in beside'[e]
      BY <1>2, <2>2
    <3>4. QED BY <1>12, <3>2, <3>3, StoredStays, OldStays
  <2>3. CASE e = r
    <3>1. Active(g) /\ ScopeOf(g) = s
      BY <1>4, <1>6, <2>1, <2>3 DEF Active, ScopeOf
    <3>2. QED BY <1>2, <2>3, <3>1
  <2>4. CASE g = r /\ e # r
    <3>1. (Active(e) \/ Stored(e)) /\ ScopeOf(e) = s
      BY <1>4, <1>6, <2>1, <2>4 DEF Active, Stored, At, ScopeOf
    <3>2. CASE Active(e)
      BY <1>2, <2>4, <3>1, <3>2
    <3>3. CASE Stored(e)
      BY <1>1, <1>2, <1>12, <3>1, <3>3, NothingYoung, StoredStays, OldStays
    <3>4. QED BY <3>1, <3>2, <3>3
  <2>5. QED BY <2>2, <2>3, <2>4
<1>16. QED BY <1>4, <1>5, <1>6, <1>7, <1>9, <1>14, <1>15 DEF IInv, s

\* A request moves on, or panics, and the store does not change.
LEMMA MoveKeeps ==
  ASSUME IInv, NEW r \in Request, NEW q \in Sent, Active(r),
         q.svc = rq[r].svc /\ q.key = rq[r].key /\ q.from = r,
         \/ q.pc \in {"captured", "dated"} /\ q.status \in Status
         \/ q.pc = "replied" /\ q.status = "panic",
         q.pc # "captured" => q.at = now,
         rq' = [rq EXCEPT ![r] = q], UNCHANGED <<records, now, beside>>
  PROVE  IInv'
<1>1. /\ rq' \in [Request -> Sent \cup {Unsent}] /\ Answered /\ rq'[r] = q
      /\ \A p \in Request \ {r} : rq'[p] = rq[p]
  BY UpdateFacts DEF IInv, Active
<1>2. TypeOK' /\ Onward
  BY <1>1 DEF IInv, TypeOK, Onward
<1>3. Progress'
  BY <1>1, <1>2, ProgressStays DEF At, Active, IInv, TypeOK
<1>4. AnswersFromRecord'
  BY <1>1, AnswersStay DEF FromRecord, At
<1>5. \A p \in Request : Stored(p)' => Stored(p)
  BY <1>1 DEF Stored, At
<1>6. (RecordsBacked /\ AnswersKept)'
  BY <1>2, <1>5, StoreStays
<1>7. AllMet'
  <2>1. \A p \in Request : (Active(p)' => Active(p)) /\ ScopeOf(p)' = ScopeOf(p)
    BY <1>1 DEF Active, ScopeOf
  <2>2. QED BY <1>2, <1>5, <2>1, MetStays
<1>8. QED BY <1>2, <1>3, <1>4, <1>6, <1>7 DEF IInv

LEMMA CapturedKeeps ==
  ASSUME IInv, NEW r \in Request, NEW status \in Status, Captured(r, status)
  PROVE  IInv'
<1> DEFINE q == [rq[r] EXCEPT !.pc = "captured", !.status = status]
<1>1. rq[r] \in Sent /\ Active(r) /\ rq[r].from = r
  BY NoRecordApart DEF Captured, At, Active, IInv, TypeOK, Progress
<1>2. /\ q \in Sent /\ q.pc = "captured" /\ q.status = status /\ q.from = r
      /\ q.svc = rq[r].svc /\ q.key = rq[r].key
  BY <1>1 DEF Sent
<1>3. rq' = [rq EXCEPT ![r] = q] /\ UNCHANGED <<records, now, beside>>
  BY <1>1 DEF Captured, IInv, TypeOK
<1> HIDE DEF q
<1>4. QED BY <1>1, <1>2, <1>3, MoveKeeps

LEMMA PanicKeeps ==
  ASSUME IInv, NEW r \in Request, Panic(r)
  PROVE  IInv'
<1> DEFINE q == [rq[r] EXCEPT !.pc = "replied", !.status = "panic", !.at = now]
<1>1. rq[r] \in Sent /\ Active(r) /\ rq[r].from = r /\ now \in 0 .. MaxTime
  BY NoRecordApart DEF Panic, At, Active, IInv, TypeOK, Progress
<1>2. /\ q \in Sent /\ q.pc = "replied" /\ q.status = "panic" /\ q.from = r /\ q.at = now
      /\ q.svc = rq[r].svc /\ q.key = rq[r].key
  BY <1>1 DEF Sent
<1>3. rq' = [rq EXCEPT ![r] = q] /\ UNCHANGED <<records, now, beside>>
  BY <1>1 DEF Panic, IInv, TypeOK
<1> HIDE DEF q
<1>4. QED BY <1>1, <1>2, <1>3, MoveKeeps

LEMMA DateKeeps ==
  ASSUME IInv, NEW r \in Request, Date(r)
  PROVE  IInv'
<1> DEFINE q == [rq[r] EXCEPT !.pc = "dated", !.at = now]
<1>1. /\ rq[r] \in Sent /\ Active(r) /\ rq[r].from = r /\ now \in 0 .. MaxTime
      /\ rq[r].status \in Status
  BY NoRecordApart DEF Date, At, Active, IInv, TypeOK, Progress
<1>2. /\ q \in Sent /\ q.pc = "dated" /\ q.status = rq[r].status /\ q.from = r /\ q.at = now
      /\ q.svc = rq[r].svc /\ q.key = rq[r].key
  BY <1>1 DEF Sent
<1>3. rq' = [rq EXCEPT ![r] = q] /\ UNCHANGED <<records, now, beside>>
  BY <1>1 DEF Date, IInv, TypeOK
<1> HIDE DEF q
<1>4. QED BY <1>1, <1>2, <1>3, MoveKeeps

\* The new record protects every answer that is not old: the request met it,
\* and either is dated no later than it or protects it longer.
LEMMA SetKeeps ==
  ASSUME IInv, NEW r \in Request, set(r)
  PROVE  IInv'
<1> DEFINE q == [rq[r] EXCEPT !.pc = "replied"]
           s == ScopeOf(r)
           rec == [status |-> rq[r].status, body |-> rq[r].body, from |-> r,
                   expiresAt |-> rq[r].at + TTL]
<1>1. /\ rq[r] \in Sent /\ rq[r].pc = "dated" /\ rq[r].from = r /\ rq[r].status \in Status
      /\ rq[r].at \in 0 .. now /\ now \in 0 .. MaxTime /\ Active(r)
  BY NoRecordApart DEF set, At, Active, IInv, TypeOK, Progress
<1>2. /\ q \in Sent /\ q.pc = "replied" /\ q.status = rq[r].status /\ q.from = r
      /\ q.at = rq[r].at /\ q.body = rq[r].body /\ q.svc = rq[r].svc /\ q.key = rq[r].key
  BY <1>1 DEF Sent
<1>3. rq' = [rq EXCEPT ![r] = q] /\ now' = now /\ beside' = beside
  BY <1>1 DEF set, IInv, TypeOK
<1>4. s \in Scope
  BY <1>1, ScopeType DEF ScopeOf, Sent
<1>5. records' = [records EXCEPT ![s] = rec]
  BY DEF set
<1>6. rec \in Record /\ rec # NoRecord
  <2>1. rq[r].at + TTL \in 0 .. MaxTime + TTL
    BY <1>1, IdempotencyAssumption
  <2>2. rec \in Record
    BY <1>1, <2>1 DEF Record, Sent
  <2>3. QED BY <2>2, NoRecordApart
<1>7. rec.status = q.status /\ rec.body = q.body /\ rec.from = r /\ rec.expiresAt = q.at + TTL
  BY <1>2
<1>8. StoreKey(q.svc, q.key) = s
  BY <1>2 DEF ScopeOf
<1> HIDE DEF q, s, rec
<1>9. /\ rq' \in [Request -> Sent \cup {Unsent}] /\ Answered /\ rq'[r] = q
      /\ \A p \in Request \ {r} : rq'[p] = rq[p]
  BY <1>1, <1>2, <1>3, UpdateFacts DEF IInv
<1>10. /\ records'[s] = rec /\ \A t \in Scope \ {s} : records'[t] = records[t]
       /\ records' \in [Scope -> Record \cup {NoRecord}]
  BY <1>4, <1>5, <1>6 DEF IInv, TypeOK
<1>11. TypeOK' /\ Onward
  BY <1>3, <1>9, <1>10 DEF IInv, TypeOK, Onward
<1>12. Progress'
  BY <1>1, <1>2, <1>3, <1>9, <1>11, ProgressStays DEF At, Active
<1>13. AnswersFromRecord'
  BY <1>2, <1>9, AnswersStay DEF FromRecord, At
<1>14. Stored(r)' /\ ScopeOf(r)' = s /\ ScopeOf(r) = s
  BY <1>1, <1>2, <1>8, <1>9 DEF Stored, At, ScopeOf, Status, s
<1>15. ASSUME NEW t \in Scope PROVE Backed(t)'
  <2>1. CASE t = s
    BY <1>7, <1>9, <1>10, <1>14, <2>1 DEF Backed
  <2>2. CASE t # s
    <3>1. records'[t] = records[t] /\ Backed(t)
      BY <1>10, <2>2 DEF IInv, RecordsBacked
    <3>2. records[t] # NoRecord => records[t].from \in Request
      BY DEF IInv, TypeOK, Record
    <3>3. QED BY <1>11, <3>1, <3>2, StoredStays DEF Backed
  <2>3. QED BY <2>1, <2>2
<1>16. ASSUME NEW e \in Request PROVE Kept(e)'
  <2>1. CASE e = r
    <3>1. records'[s].expiresAt >= rq'[r].at + TTL /\ rq'[r].at <= rq'[r].at
      BY <1>1, <1>2, <1>7, <1>9, <1>10, IdempotencyAssumption
    <3>2. QED BY <1>6, <1>10, <1>14, <2>1, <3>1 DEF Kept
  <2>2. CASE e # r /\ Stored(e) /\ ~Old(e)
    <3>1. /\ rq'[e] = rq[e] /\ ScopeOf(e)' = ScopeOf(e) /\ Stored(e)'
          /\ rq[e].at \in 0 .. now /\ ScopeOf(e) \in Scope
      BY <1>11, <2>2, StoredStays
    <3>2. CASE ScopeOf(e) = s
      <4>1. r \in beside[e]
        BY <1>1, <1>14, <2>2, <3>2 DEF IInv, AllMet, Met
      <4>2. CASE rq[r].at <= rq[e].at
        <5>1. rq'[r].at <= rq'[e].at /\ records'[s].expiresAt >= rq'[r].at + TTL
          BY <1>1, <1>2, <1>7, <1>9, <1>10, <3>1, <4>2, IdempotencyAssumption
        <5>2. QED BY <1>3, <1>6, <1>10, <1>14, <3>1, <3>2, <4>1, <5>1 DEF Kept
      <4>3. CASE ~(rq[r].at <= rq[e].at)
        <5>1. rq'[e].at <= rq'[e].at /\ records'[s].expiresAt >= rq'[e].at + TTL
          BY <1>1, <1>2, <1>7, <1>9, <1>10, <3>1, <4>3, IdempotencyAssumption
        <5>2. QED BY <1>6, <1>10, <3>1, <3>2, <5>1 DEF Kept
      <4>4. QED BY <4>2, <4>3
    <3>3. CASE ScopeOf(e) # s
      <4>1. records'[ScopeOf(e)] = records[ScopeOf(e)]
        BY <1>10, <3>1, <3>3
      <4>2. PICK f \in {e} \cup beside[e] : /\ Stored(f) /\ rq[f].at <= rq[e].at
                                         /\ records[ScopeOf(e)].expiresAt >= rq[f].at + TTL
        BY <2>2 DEF IInv, AnswersKept, Kept
      <4>3. f \in Request /\ records[ScopeOf(e)] # NoRecord
        BY <2>2, <4>2 DEF IInv, TypeOK, AnswersKept, Kept
      <4>4. rq'[f] = rq[f] /\ Stored(f)'
        BY <1>11, <4>2, <4>3, StoredStays
      <4>5. QED BY <1>3, <3>1, <4>1, <4>2, <4>3, <4>4 DEF Kept
    <3>4. QED BY <3>2, <3>3
  <2>3. CASE e # r /\ Stored(e) /\ Old(e)
    BY <1>11, <2>3, OldStays DEF Kept
  <2>4. CASE e # r /\ ~Stored(e)
    BY <1>9, <2>4 DEF Kept, Stored, At
  <2>5. QED BY <2>1, <2>2, <2>3, <2>4
<1>17. AllMet'
  <2>1. \A p \in Request : /\ Active(p)' => Active(p)
                           /\ Stored(p)' => Active(p) \/ Stored(p)
                           /\ ScopeOf(p)' = ScopeOf(p)
    BY <1>1, <1>2, <1>9, <1>14 DEF Active, Stored, At, ScopeOf
  <2>2. QED BY <1>3, <1>11, <2>1, MetStays
<1>18. QED BY <1>11, <1>12, <1>13, <1>15, <1>16, <1>17 DEF IInv, RecordsBacked, AnswersKept

LEMMA gcKeeps ==
  ASSUME IInv, NEW t \in 0 .. now, gc(t)
  PROVE  IInv'
<1>1. TypeOK' /\ Onward /\ rq' = rq /\ now' = now /\ beside' = beside
  BY DEF gc, IInv, TypeOK, Onward, Answered
<1>2. Progress' /\ AnswersFromRecord'
  BY <1>1 DEF IInv, Progress, Active, AnswersFromRecord, FromRecord, Stored, At
<1>3. \A e \in Request : Stored(e)' => Stored(e)
  BY <1>1 DEF Stored, At
<1>4. \A s \in Scope : /\ records'[s] = records[s] \/ records'[s] = NoRecord
                       /\ Found(s) => records'[s] = records[s]
  <2>1. ASSUME NEW s \in Scope, records[s] # NoRecord, expired(records[s], t) PROVE ~Found(s)
    BY <2>1 DEF Found, expired, IInv, TypeOK, Record
  <2>2. QED BY <2>1 DEF gc
<1>5. ASSUME NEW e \in Request, Stored(e), ~Old(e)
      PROVE  records'[ScopeOf(e)] = records[ScopeOf(e)]
  <2>1. ScopeOf(e) \in Scope
    BY <1>1, <1>5, StoredStays
  <2>2. QED BY <1>4, <1>5, <2>1, NothingYoung
<1>6. (RecordsBacked /\ AnswersKept)'
  BY <1>1, <1>3, <1>4, <1>5, StoreStays
<1>7. AllMet'
  BY <1>1, <1>3, MetStays DEF Active, ScopeOf
<1>8. QED BY <1>1, <1>2, <1>6, <1>7 DEF IInv

LEMMA TickKeeps ==
  ASSUME IInv, Tick
  PROVE  IInv'
<1>1. Onward /\ rq' = rq /\ records' = records /\ now' = now + 1 /\ now < MaxTime /\ beside' = beside
  BY DEF Tick, Answered, Onward
<1>0. TypeOK'
  BY <1>1, IdempotencyAssumption DEF IInv, TypeOK
<1>2. Progress'
  BY <1>0, <1>1 DEF IInv, TypeOK, Progress, At, Active
<1>3. AnswersFromRecord'
  BY <1>1 DEF IInv, AnswersFromRecord, FromRecord, Stored, At
<1>4. \A e \in Request : Stored(e)' => Stored(e)
  BY <1>1 DEF Stored, At
<1>5. (RecordsBacked /\ AnswersKept)'
  BY <1>1, <1>4, StoreStays
<1>6. AllMet'
  BY <1>1, <1>4, MetStays DEF Active, ScopeOf
<1>7. QED BY <1>0, <1>2, <1>3, <1>5, <1>6 DEF IInv

LEMMA Inductive ==
  ASSUME IInv, [Next]_vars
  PROVE  IInv'
<1>1. ASSUME NEW r \in Request, NEW svc \in Service, NEW key \in Key, NEW b \in Body,
             Mismatch(r, svc, key, b)
      PROVE  IInv'
  BY <1>1, AnsweredFromStore DEF Mismatch
<1>2. ASSUME NEW r \in Request, NEW svc \in Service, NEW key \in Key, NEW b \in Body,
             Replay(r, svc, key, b)
      PROVE  IInv'
  <2> DEFINE rec == records[StoreKey(svc, key)]
  <2>1. Found(StoreKey(svc, key)) /\ rec.body = b /\ UNCHANGED <<records, beside>>
        /\ Arrives(r, svc, key, b, "replied", rec.status, rec.from, now)
    BY <1>2 DEF Replay
  <2>2. rec \in Record
    BY <2>1, ScopeType, FoundFacts
  <2>3. rec.status \in Status \cup {"mismatch"} /\ rec.status # "mismatch"
    BY <2>2 DEF Record, Status
  <2>4. QED BY <2>1, <2>3, AnsweredFromStore
<1>3. ASSUME NEW r \in Request, NEW svc \in Service, NEW key \in Key, NEW b \in Body,
             Run(r, svc, key, b)
      PROVE  IInv'
  BY <1>3, RunKeeps
<1>4. ASSUME NEW r \in Request, Handle(r) \/ TimeOut(r) PROVE IInv'
  <2>1. \E status \in Status : Captured(r, status)
    BY <1>4 DEF Handle, TimeOut, Status
  <2>2. QED BY <2>1, CapturedKeeps
<1>5. ASSUME NEW r \in Request, Panic(r) PROVE IInv'
  BY <1>5, PanicKeeps
<1>6. ASSUME NEW r \in Request, Date(r) \/ set(r) PROVE IInv'
  BY <1>6, DateKeeps, SetKeeps
<1>7. ASSUME runGC PROVE IInv'
  BY <1>7, gcKeeps DEF runGC
<1>8. ASSUME Tick PROVE IInv'
  BY <1>8, TickKeeps
<1>9. ASSUME UNCHANGED vars PROVE IInv'
  BY <1>9 DEF vars, IInv, TypeOK, Progress, RecordsBacked, Backed, AnswersKept, Kept, AllMet, Met,
     AnswersFromRecord, FromRecord, Stored, Old, At, Active, ScopeOf
<1>10. QED BY <1>1, <1>2, <1>3, <1>4, <1>5, <1>6, <1>7, <1>8, <1>9 DEF Next

(* The store and the requests keep their types.                             *)
THEOREM IdempotencyTypeCorrect == Spec => []TypeOK
<1>1. IInv => TypeOK
  BY DEF IInv
<1>2. QED BY <1>1, InitInv, Inductive, PTL DEF Spec

(* What is replayed, or refused, is justified by an earlier answer for the
   same token that is no older than the TTL.                                *)
THEOREM ReplaysJustified == Spec => []AnswersFromRecord
<1>1. IInv => AnswersFromRecord
  BY DEF IInv
<1>2. QED BY <1>1, InitInv, Inductive, PTL DEF Spec

(* No operation starts again within the TTL of an answer recorded for its
   token, or of one that overlapped it and is dated no later, for any number
   of overlapping requests and any collector.                               *)
THEOREM NoEarlyRerun == Spec => RunsAgainOnlyAfterExpiry
<1> DEFINE Late == \A r \in Request : At(r, "unsent") /\ At(r, "running")' =>
                     \A e \in Request : Stored(e) /\ ScopeOf(e) = ScopeOf(r)' => Old(e)
<1>1. ASSUME IInv, [Next]_vars PROVE Late
  <2>1. SUFFICES ASSUME NEW r \in Request, At(r, "unsent"), At(r, "running")'
                 PROVE  \A e \in Request : Stored(e) /\ ScopeOf(e) = ScopeOf(r)' => Old(e)
    OBVIOUS
  <2>2. PICK svc \in Service, key \in Key, b \in Body : Run(r, svc, key, b)
    <3>1. rq'[r] # rq[r] /\ rq[r].pc = "unsent" /\ rq'[r].pc = "running"
      BY <2>1 DEF At
    <3>2. ASSUME NEW q \in Request, NEW svc \in Service, NEW key \in Key, NEW b \in Body,
                 Mismatch(q, svc, key, b) \/ Replay(q, svc, key, b)
          PROVE  FALSE
      BY <1>1, <3>1, <3>2 DEF Mismatch, Replay, Arrives, IInv, TypeOK
    <3>3. ASSUME NEW q \in Request, NEW svc \in Service, NEW key \in Key, NEW b \in Body,
                 Run(q, svc, key, b)
          PROVE  q = r
      BY <1>1, <3>1, <3>3 DEF Run, Arrives, IInv, TypeOK
    <3>4. ASSUME NEW q \in Request, Handle(q) \/ TimeOut(q) \/ Panic(q) \/ Date(q) \/ set(q)
          PROVE  FALSE
      BY <1>1, <3>1, <3>4 DEF Handle, TimeOut, Captured, Panic, Date, set, At, IInv, TypeOK
    <3>5. ~runGC /\ ~Tick /\ ~UNCHANGED vars
      BY <3>1 DEF runGC, gc, Tick, vars
    <3>6. QED BY <1>1, <3>2, <3>3, <3>4, <3>5 DEF Next
  <2>3. QED BY <1>1, <2>2, RunKeeps, ScopeType, NothingYoung DEF Run
<1>2. QED BY <1>1, InitInv, Inductive, PTL DEF Spec, RunsAgainOnlyAfterExpiry
=============================================================================
