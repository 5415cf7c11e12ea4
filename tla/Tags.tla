-------------------------------- MODULE Tags --------------------------------
(***************************************************************************)
(* internal/service/ec2/tags.go, beside the requests of actions.go that    *)
(* change the status of the same record (module Ec2 has those in full).    *)
(* A request with several ids does for one id after the other what is      *)
(* described here for one, and ends at the first that is not there.        *)
(***************************************************************************)
EXTENDS RecordStore

CONSTANTS TaggedInstance, Tag

InstanceKey(i) == <<"instance", i, i>>

\* Instances are there from the start, without tags.
TagsInit ==
  /\ store = [k \in {InstanceKey(i) : i \in TaggedInstance} |->
                [status |-> "running", map |-> NilMap]]
  /\ said = [s \in Subject |->
               [k \in {InstanceKey(i) : i \in {j \in TaggedInstance : s = <<"instance", j>>}} |->
                  [status |-> "running", content |-> {}]]]
  /\ maps = [m \in Map |-> {}]
  /\ req = [h \in Handler |-> Idle]
  /\ raced = {} /\ drawn = {}

RequestedTags == SUBSET Tag

ReadInstance(h, op, tags) ==
  \E i \in TaggedInstance :
    LET k == InstanceKey(i) IN
    IF Present(k)
    THEN Begin(h, op, SubjectOf(k), [key |-> k, copy |-> store[k], arg |-> tags])
    ELSE Shows({SubjectOf(k)})

Answered(h, content) == Answer(h, [Promised(h) EXCEPT ![Key(h)].content = content])

createTags(h) ==
  \/ \E tags \in RequestedTags : ReadInstance(h, "createTags", tags)
  \/ /\ At(h, "createTags")
     /\ PutCopy(h, Content(req[h].copy) \cup req[h].arg)
     /\ Answered(h, PromisedContent(h) \cup req[h].arg)

\* A record without tags is put back as it was read.
deleteTags(h) ==
  \/ \E tags \in RequestedTags : ReadInstance(h, "deleteTags", tags)
  \/ /\ At(h, "deleteTags")
     /\ IF req[h].copy.map = NilMap
        THEN Put(Key(h), req[h].copy) /\ UNCHANGED maps
        ELSE PutCopy(h, Content(req[h].copy) \ req[h].arg)
     /\ Answered(h, PromisedContent(h) \ req[h].arg)

\* TerminateInstances puts the copy back with another status.
terminateInstances(h) ==
  \/ ReadInstance(h, "terminate", {})
  \/ /\ At(h, "terminate")
     /\ Put(Key(h), [req[h].copy EXCEPT !.status = "terminated"]) /\ UNCHANGED maps
     /\ Answer(h, [Promised(h) EXCEPT ![Key(h)].status = "terminated"])

describeTags == Shows({s \in Subject : s[1] = "instance"})

TagsStep(h) == createTags(h) \/ deleteTags(h) \/ terminateInstances(h)
=============================================================================
