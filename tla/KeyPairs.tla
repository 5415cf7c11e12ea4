------------------------------ MODULE KeyPairs ------------------------------
(***************************************************************************)
(* internal/service/ec2/keypair.go: a key pair is kept under a random id;  *)
(* its name is looked for in a listing of all key pairs.                   *)
(***************************************************************************)
EXTENDS RecordStore

CONSTANTS KeyName, KeyPairId

PairKey(n, i) == <<"keypair", n, i>>
PairSubject(n) == <<"keypair", n>>

\* CreateKeyPair and ImportKeyPair refuse a name that the listing contains.
NewPair(h, op) ==
  \/ \E n \in KeyName, i \in KeyPairId \ drawn :
       IF Listed(PairSubject(n)) = {}
       THEN /\ Begin(h, op, PairSubject(n), [key |-> PairKey(n, i)])
            /\ drawn' = drawn \cup {i}
       ELSE Shows({PairSubject(n)}) /\ UNCHANGED drawn
  \/ /\ At(h, op)
     /\ PutBare(Key(h)) /\ Answer(h, Record(Key(h), {}))
     /\ UNCHANGED drawn

createKeyPair(h) == NewPair(h, "createPair")
importKeyPair(h) == NewPair(h, "importPair")

\* The first key pair of that name in the listing is deleted, in whatever order
\* the listing is; a name that is not there is not an error.
deleteKeyPair(h) ==
  /\ UNCHANGED drawn
  /\ \/ \E n \in KeyName : /\ Listed(PairSubject(n)) = {}
                           /\ Shows({PairSubject(n)})
     \/ \E n \in KeyName : \E k \in Listed(PairSubject(n)) :
          Begin(h, "deletePair", PairSubject(n), [key |-> k])
     \/ /\ At(h, "deletePair")
        /\ Delete(Key(h))
        /\ Answer(h, Gone)

describeKeyPairs == Shows({s \in Subject : s[1] = "keypair"})

KeyPairStep(h) == createKeyPair(h) \/ importKeyPair(h) \/ deleteKeyPair(h)
=============================================================================
