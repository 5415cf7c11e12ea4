----------------------------- MODULE RecordStore -----------------------------
(***************************************************************************)
(* The in-memory state store (internal/state/memory.go) and the handlers   *)
(* of the HTTP server on top of it.  Every Get, List, Put and Delete holds *)
(* the store's lock; a handler holds nothing between two of them, so each  *)
(* of them is a step that others may come between.                         *)
(*                                                                         *)
(* A key is <<kind, name, id>>.  A client addresses the name, a subject    *)
(* <<kind, name>>; for most kinds the id is the name, key pairs and        *)
(* security groups draw an id of their own.  A record is the struct that   *)
(* Get and Put copy: a status, and a reference to the map (Spec or Tags)   *)
(* that a handler may write, which all copies share.  NilMap is Go's nil   *)
(* map.                                                                    *)
(*                                                                         *)
(* said and raced are not in the program.  said[s] is the abstract table:  *)
(* the records that the answers given so far promise for s, or Unknown     *)
(* after requests for s have overlapped, until somebody looks again.  An   *)
(* answer promises what the request asked for; where the program does      *)
(* something else and answers that it has done it, said follows the        *)
(* program, and the action says so: a parameter of a bucket that is taken  *)
(* for the bucket (Buckets), a revoke of the default rule (SecurityGroups) *)
(* and a refused change of an instance (Databases).                        *)
(***************************************************************************)
EXTENDS Naturals, FiniteSets, Functions, TLC

CONSTANTS Handler,     \* concurrent requests
          Subject,     \* <<kind, name>> the clients talk about
          Map,         \* references to maps, positive numbers
          Unknown      \* no promise

NilMap == 0

ASSUME RecordStoreAssumption == Map \subseteq Nat \ {NilMap} /\ Unknown \notin Subject

VARIABLES store,       \* key -> record, for the keys that are present
          maps,        \* reference -> content
          req,         \* handler -> the request it is working on
          said,        \* subject -> promised records, or Unknown
          raced,       \* subjects whose deletion has overlapped with a request for
                       \* them or for what refers to them: once raced, always raced
          drawn        \* random ids drawn so far: none is drawn twice

recVars == <<store, maps, req, said, raced, drawn>>

SubjectOf(k) == <<k[1], k[2]>>
Nobody == <<"none", "none">>

\* copy: what Get returned;  read: what the handler read in its map, and in which
\* field;  arg: what the request asks for;  ref: the subject that the record to be
\* made refers to;  alone: nothing else worked on the subject meanwhile.
Idle == [op |-> "idle", subject |-> Nobody, key |-> <<"none", "none", "none">>,
         copy |-> [status |-> "none", map |-> NilMap], read |-> {}, field |-> "none",
         arg |-> {}, ref |-> Nobody, alone |-> TRUE]

RecInit == /\ store = <<>>
           /\ maps = [m \in Map |-> {}]
           /\ req = [h \in Handler |-> Idle]
           /\ said = [s \in Subject |-> <<>>]
           /\ raced = {}
           /\ drawn = {}
-----------------------------------------------------------------------------
(* memory.go                                                                *)

Present(k) == k \in DOMAIN store
Listed(s)  == {k \in DOMAIN store : SubjectOf(k) = s}
Content(r) == IF r.map = NilMap THEN {} ELSE maps[r.map]

\* The map f, and g for the keys that f does not have.
Over(f, g) == [x \in DOMAIN f \cup DOMAIN g |-> IF x \in DOMAIN f THEN f[x] ELSE g[x]]
Only(k, v) == [x \in {k} |-> v]
Without(f, k) == Restrict(f, DOMAIN f \ {k})

Put(k, r)  == store' = Over(Only(k, r), store)

\* The map of a record that is deleted is forgotten when no copy has it.
Delete(k) ==
  /\ store' = Without(store, k)
  /\ maps' = [m \in Map |-> IF /\ k \in DOMAIN store /\ store[k].map = m
                               /\ \A h \in Handler : req[h].copy.map # m
                            THEN {} ELSE maps[m]]

\* make(map...), or the composite literal of a new record: a map that nothing
\* refers to.  The bound: there is one in Map.
Unused   == {m \in Map : /\ \A k \in DOMAIN store : store[k].map # m
                         /\ \A h \in Handler : req[h].copy.map # m}
FreshMap == {m \in Unused : \A n \in Unused : m <= n}

PutNew(k, content) ==
  \E m \in FreshMap : /\ Put(k, [status |-> "available", map |-> m])
                      /\ maps' = [maps EXCEPT ![m] = content]

\* A new record whose map is nil, or is not written any more.
PutBare_NoStatus(k) == Put(k, Idle.copy) /\ UNCHANGED maps
PutBare(k) == Put(k, [status |-> "available", map |-> NilMap]) /\ UNCHANGED maps

\* The map of the copy is written, a nil one replaced first, and the copy put back.
PutCopy(h, content) ==
  LET r == req[h].copy IN
  \E m \in IF r.map = NilMap THEN FreshMap ELSE {r.map} :
    /\ maps' = [maps EXCEPT ![m] = content]
    /\ Put(req[h].key, [r EXCEPT !.map = m])
-----------------------------------------------------------------------------
(* Requests                                                                 *)

Busy(s)   == {h \in Handler : req[h].subject = s}
At(h, op) == req[h].op = op
Key(h)    == req[h].key

View(s) == [k \in Listed(s) |-> [status |-> store[k].status, content |-> Content(store[k])]]
Record(k, content) == Only(k, [status |-> "available", content |-> content])

Marked(s) == [g \in Handler |-> IF g \in Busy(s) THEN [req[g] EXCEPT !.alone = FALSE]
                                                ELSE req[g]]

\* The request has read what it needed to read and goes on.
Enter(h, op, s, fields) ==
  LET r == Over(fields, [Idle EXCEPT !.op = op, !.subject = s, !.alone = Busy(s) = {}])
  IN /\ req[h] = Idle
     /\ req' = [Marked(s) EXCEPT ![h] = r]
     /\ raced' = raced \cup {t \in {r.ref} \cap Subject : Busy(t) # {}}
                       \cup {t \in {s} : \E g \in Handler : req[g].ref = s}
     /\ UNCHANGED said

Begin(h, op, s, fields) == Enter(h, op, s, fields) /\ UNCHANGED <<store, maps>>

\* It has read a record, and written into the map that it shares with the store.
BeginWriting(h, op, k, content) ==
  /\ Enter(h, op, SubjectOf(k), [key |-> k, copy |-> store[k]])
  /\ maps' = [maps EXCEPT ![store[k].map] = @ \cup content]
  /\ UNCHANGED store

Goto(h, op) == req' = [req EXCEPT ![h].op = op] /\ UNCHANGED <<said, raced>>

\* The request is answered; the answer promises these records from now on.
Answer(h, promise) ==
  /\ req' = [req EXCEPT ![h] = Idle]
  /\ said' = [said EXCEPT ![req[h].subject] =
                IF req[h].alone /\ @ # Unknown THEN promise ELSE Unknown]
  /\ UNCHANGED raced

\* A request that is one write, answered at once.
AtOnce(s, promise) ==
  /\ req' = Marked(s)
  /\ said' = [said EXCEPT ![s] = IF Busy(s) = {} THEN promise ELSE Unknown]
  /\ raced' = raced \cup {t \in {s} : \E g \in Handler : req[g].ref = s}

Promised(h) == said[req[h].subject]
PromisedContent(h) == Promised(h)[Key(h)].content
Gone == <<>>

\* Subjects of these kinds should have one record, and two after a race.
NameIsUnique(s) == s[1] = "bucket" \/ \A k, l \in Listed(s) : k = l

\* A request that only reads tells the client what there is.
Shows(subjects) ==
  /\ said' = [s \in Subject |-> IF s \in subjects /\ Busy(s) = {} /\ NameIsUnique(s)
                                THEN View(s) ELSE said[s]]
  /\ UNCHANGED <<store, maps, req, raced>>

\* Many services create in the same way: a name that is taken is refused, a free
\* one is written.
CreateNamed(h, op, k) ==
  \/ Present(k) /\ Shows({SubjectOf(k)})
  \/ ~Present(k) /\ Begin(h, op, SubjectOf(k), [key |-> k])

InsertNamed(h, op) ==
  /\ At(h, op)
  /\ PutBare(Key(h))
  /\ Answer(h, Record(Key(h), {}))

\* They delete in the same way too: what is not there is refused.
RemoveNamed(h, op, k) ==
  \/ ~Present(k) /\ Shows({SubjectOf(k)})
  \/ Present(k) /\ Begin(h, op, SubjectOf(k), [key |-> k])

DropNamed(h, op) ==
  /\ At(h, op)
  /\ Delete(Key(h))
  /\ Answer(h, Gone)

\* What the answers said is so, for every subject that nobody is working on: no write is
\* lost, and none is undone by a copy that was read earlier, unless requests for the
\* same subject overlapped.
AnswersHold == \A s \in Subject : Busy(s) = {} /\ said[s] # Unknown => said[s] = View(s)
=============================================================================
