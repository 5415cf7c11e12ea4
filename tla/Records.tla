------------------------------- MODULE Records -------------------------------
(***************************************************************************)
(* The services that are records and little else, over one store.  Which   *)
(* of them the clients of a run talk to is its workload; the records of    *)
(* different services have different kinds and never meet.                 *)
(***************************************************************************)
EXTENDS Iam, Vpc, SecurityGroups, Queues, KeyPairs, Tags, Buckets, AdminApi

CONSTANT Workloads

\* The keys of each kind of record.
RoleKeys   == {RoleKey(n) : n \in RoleName}
AttachKeys == {AttachKey(r, p) : r \in RoleName, p \in PolicyName}
NameKeys   == {UserKey(n) : n \in UserName} \cup {PolicyKey(n) : n \in PolicyName}
VpcKeys    == {VpcKey(i) : i \in VpcId}
SubnetKeys == {SubnetKey(v, i) : v \in VpcId, i \in SubnetId}
GroupKeys  == {GroupKey(n, i) : n \in GroupName, i \in GroupId}
MemberKeys == {MemberKey(g, i) : g \in GroupKeys, i \in Member}
QueueKeys  == {QueueKey(n) : n \in QueueName}
PairKeys   == {PairKey(n, i) : n \in KeyName, i \in KeyPairId}
TaggedKeys == {InstanceKey(i) : i \in TaggedInstance}
BucketKeys == {S3Key(b) : b \in Bucket} \cup {GcsKey(b) : b \in Bucket}
Keys == RoleKeys \cup AttachKeys \cup NameKeys \cup VpcKeys \cup SubnetKeys \cup GroupKeys
          \cup MemberKeys \cup QueueKeys \cup PairKeys \cup TaggedKeys \cup BucketKeys

\* Clients talk about whatever there is a key for.  No request gives a rule in the type
\* the default rule is stored in ([]interface{}, sg/actions.go:145), whatever it says; the
\* third part of an instance's key tells how it was made.
ASSUME RecordsAssumption ==
  /\ Nobody \notin Subject /\ \A k \in Keys : SubjectOf(k) \in Subject
  /\ DefaultRule \notin Rule
  /\ "id" \notin TaggedInstance

VARIABLE workload

vars == <<recVars, taken, networks, bucketVars, workload>>

Init == /\ workload \in Workloads
        /\ IF workload = "tags" THEN TagsInit ELSE RecInit
        /\ VpcInit /\ BucketsInit /\ taken = {}

Service(h) ==
  \/ /\ \/ workload = "names" /\ NameStep(h) /\ UNCHANGED drawn
        \/ workload = "roles" /\ RoleStep(h) /\ UNCHANGED drawn
        \/ workload = "groups" /\ (GroupStep(h) \/ RuleStep(h))
        \/ workload = "members" /\ (GroupStep(h) \/ runInstances(h))
        \/ workload = "sqs" /\ SqsStep(h) /\ UNCHANGED drawn
        \/ workload = "keypairs" /\ KeyPairStep(h)
        \/ workload = "tags" /\ TagsStep(h) /\ UNCHANGED drawn
     /\ UNCHANGED <<networks, bucketVars>>
  \/ workload = "vpc" /\ VpcStep(h) /\ UNCHANGED bucketVars
  \/ workload = "buckets" /\ BucketStep(h) /\ UNCHANGED networks

Admin(h) == DeleteResourceHandler(h) /\ UNCHANGED <<drawn, networks, bucketVars>>

ServiceStep(h) == (Service(h) /\ StillTaken) \/ Admin(h)

Reads ==
  /\ \/ workload = "names" /\ NameReads
     \/ workload = "roles" /\ RoleReads
     \/ workload = "vpc" /\ VpcReads
     \/ workload \in {"groups", "members"} /\ describeSecurityGroups
     \/ workload = "sqs" /\ SqsReads
     \/ workload = "keypairs" /\ describeKeyPairs
     \/ workload = "tags" /\ describeTags
     \/ AdminReads
  /\ UNCHANGED <<taken, drawn, networks, bucketVars>>

Next == ((\E h \in Handler : ServiceStep(h)) \/ Reads) /\ UNCHANGED workload

Spec == Init /\ [][Next]_vars

Records == [status : {"available", "running", "terminated"}, map : Map \cup {NilMap}]

(* Types: a record's status is one of the three, its map one that exists.     *)
TypeOK == /\ \A k \in DOMAIN store : store[k] \in Records /\ SubjectOf(k) \in Subject
          /\ DOMAIN maps = Map
          /\ \A h \in Handler : /\ req[h].copy.map \in Map \cup {NilMap}
                                /\ req[h].subject \in Subject \cup {Nobody}
          /\ raced \subseteq Subject /\ \A k \in taken : SubjectOf(k) \in Subject
          /\ networks \subseteq VpcId /\ minio \subseteq Bucket /\ left \subseteq BucketKeys

\* What refers to something, refers to something that is there: no service deletes a record
\* under those that refer to it, unless a deletion of a record of its name once overlapped
\* with a request for it or for what refers to it.  Otherwise, a record whose parent is
\* not there has lost it to the admin API, which does not look, and a bucket's record
\* its bucket to a request that leaves the record: of the other service, or with a lost
\* answer of MinIO.  Both end when the parent, or the bucket, is made again.
ReferencesHold == AttachmentsHaveRoles /\ SubnetsHaveVpcs /\ MembersHaveGroups /\ BucketsBacked
=============================================================================
