------------------------------- MODULE Queues -------------------------------
(***************************************************************************)
(* internal/service/sqs/actions.go: a queue is a record under its name;    *)
(* there are no messages.  Tags are kept in the record's own Tags map,     *)
(* which is nil until the first tag.                                       *)
(***************************************************************************)
EXTENDS RecordStore

CONSTANTS QueueName, QueueTag

QueueKey(n) == <<"queue", n, n>>

createQueue(h) ==
  \/ \E n \in QueueName, tags \in SUBSET QueueTag :
       LET k == QueueKey(n) IN
       IF Present(k) THEN Shows({SubjectOf(k)})
                     ELSE Begin(h, "createQueue", SubjectOf(k), [key |-> k, arg |-> tags])
  \/ /\ At(h, "createQueue")
     /\ IF req[h].arg = {} THEN PutBare(Key(h)) ELSE PutNew(Key(h), req[h].arg)
     /\ Answer(h, Record(Key(h), req[h].arg))

\* The queue need not exist.
deleteQueue ==
  \E n \in QueueName : /\ Delete(QueueKey(n))
                       /\ AtOnce(SubjectOf(QueueKey(n)), Gone)

tagQueue_ForgetsPut(h) ==
  \/ \E n \in QueueName, tags \in SUBSET QueueTag \ {{}} :
       LET k == QueueKey(n) IN
       IF Present(k)
       THEN Begin(h, "tagQueue", SubjectOf(k), [key |-> k, copy |-> store[k], arg |-> tags])
       ELSE Shows({SubjectOf(k)})
  \/ /\ At(h, "tagQueue")
     /\ req[h].copy.map # NilMap => maps' = [maps EXCEPT ![req[h].copy.map] = @ \cup req[h].arg]
     /\ req[h].copy.map = NilMap => UNCHANGED maps
     /\ UNCHANGED store
     /\ Answer(h, Record(Key(h), PromisedContent(h) \cup req[h].arg))

\* The tags are added to the map, or to a new one if the record had none when it
\* was read; the copy is put back.
tagQueue(h) ==
  \/ \E n \in QueueName, tags \in SUBSET QueueTag \ {{}} :
       LET k == QueueKey(n) IN
       IF Present(k)
       THEN Begin(h, "tagQueue", SubjectOf(k), [key |-> k, copy |-> store[k], arg |-> tags])
       ELSE Shows({SubjectOf(k)})
  \/ /\ At(h, "tagQueue")
     /\ PutCopy(h, Content(req[h].copy) \cup req[h].arg)
     /\ Answer(h, Record(Key(h), PromisedContent(h) \cup req[h].arg))

getQueueUrl        == \E n \in QueueName : Shows({SubjectOf(QueueKey(n))})
getQueueAttributes == \E n \in QueueName : Shows({SubjectOf(QueueKey(n))})
listQueues         == Shows({s \in Subject : s[1] = "queue"})

SqsStep(h) == createQueue(h) \/ deleteQueue \/ tagQueue(h)
SqsReads   == getQueueUrl \/ getQueueAttributes \/ listQueues
=============================================================================
