------------------------------- MODULE Buckets -------------------------------
(***************************************************************************)
(* internal/service/s3 and internal/service/gcs: both pass requests on to  *)
(* one MinIO server and keep bucket records of their own kind beside it.   *)
(* The answer of MinIO and the change of the record are two steps.  MinIO  *)
(* creates a bucket that is not there and deletes one that is there and    *)
(* empty; other answers, and a MinIO that cannot be reached, change        *)
(* nothing and are left out.  An answer may be lost after MinIO has done   *)
(* what it was asked for: the client has gone, or the connection.          *)
(*                                                                         *)
(* left is not in the program: the records whose bucket was deleted by a   *)
(* request that leaves them, of the other service or with a lost answer.   *)
(***************************************************************************)
EXTENDS RecordStore

CONSTANTS Bucket,
          Object,
          Config      \* versioning, policy, acl, cors, lifecycle

VARIABLES minio,      \* the buckets MinIO has
          objects,    \* the <<bucket, object>> it holds
          left

bucketVars == <<minio, objects, left>>

BucketSubject(b) == <<"bucket", b>>
S3Key(b)  == <<"bucket", b, "s3">>
GcsKey(b) == <<"bucket", b, "gcs">>
BucketRecords(b) == {S3Key(b), GcsKey(b)} \cap DOMAIN store

BucketsInit == minio = {} /\ objects = {} /\ left = {}

BeginBucket(h, op, k, fields) ==
  Begin(h, op, SubjectOf(k), Over([key |-> k, ref |-> SubjectOf(k)], fields))
-----------------------------------------------------------------------------
(* MinIO has done what was asked for ...                                    *)

\* ... but its answer does not arrive: the client is told that MinIO is not there, and
\* the record is not touched.
Unheard(s) ==
  /\ req' = Marked(s)
  /\ said' = [said EXCEPT ![s] = IF Busy(s) = {} THEN @ ELSE Unknown]
  /\ raced' = raced \cup {t \in {s} : Busy(t) # {}}
  /\ UNCHANGED <<store, maps>>

\* A record that was left stands for the bucket of that name again.
MinIOCreates(h, k) ==
  /\ k[2] \notin minio
  /\ minio' = minio \cup {k[2]}
  /\ left' = left \ {S3Key(k[2]), GcsKey(k[2])}
  /\ UNCHANGED objects
  /\ BeginBucket(h, "recordBucket", k, [arg |-> {}]) \/ Unheard(SubjectOf(k))

\* The record that the other service keeps of the bucket is not looked at.
MinIODeletes(h, k) ==
  /\ k[2] \in minio
  /\ \A o \in Object : <<k[2], o>> \notin objects
  /\ minio' = minio \ {k[2]}
  /\ UNCHANGED objects
  /\ \/ /\ BeginBucket(h, "forgetBucket", k, [arg |-> {}])
        /\ left' = left \cup (BucketRecords(k[2]) \ {k})
     \/ /\ Unheard(SubjectOf(k))
        /\ left' = left \cup BucketRecords(k[2])

\* PUT with a query parameter that is a bucket configuration, DELETE with one, and
\* PUT with another parameter (tagging, say).
MinIOConfigures(h, op, b, config) ==
  /\ b \in minio
  /\ BeginBucket(h, op, S3Key(b), [arg |-> config])
  /\ UNCHANGED bucketVars
-----------------------------------------------------------------------------
(* ... and the record follows.                                              *)

createBucketResource(h) ==
  /\ At(h, "recordBucket")
  /\ PutBare(Key(h))
  /\ Answer(h, Over(Record(Key(h), {}), Promised(h)))
  /\ UNCHANGED bucketVars

deleteBucketResource(h) ==
  /\ At(h, "forgetBucket")
  /\ Delete(Key(h))
  /\ Answer(h, Without(Promised(h), Key(h)))
  /\ UNCHANGED bucketVars

updateBucketConfig(h) ==
  \/ /\ At(h, "readBucket")
     /\ IF Present(Key(h))
        THEN /\ req' = [req EXCEPT ![h].op = "configure", ![h].copy = store[Key(h)]]
             /\ UNCHANGED <<said, raced>>
        ELSE Answer(h, Promised(h))
     /\ UNCHANGED <<store, maps, bucketVars>>
  \/ /\ At(h, "configure")
     /\ PutCopy(h, Content(req[h].copy) \cup req[h].arg)
     /\ Answer(h, Over(Record(Key(h), PromisedContent(h) \cup req[h].arg), Promised(h)))
     /\ UNCHANGED bucketVars

\* PUT of a parameter that is not in the list writes the record anew, and DELETE of
\* any parameter deletes it, although the bucket is still there.  The client has asked
\* for neither; said follows the program.
mistakenForBucket(h) ==
  /\ \/ /\ At(h, "putOther") /\ PutBare(Key(h))
        /\ Answer(h, Over(Record(Key(h), {}), Promised(h)))
     \/ /\ At(h, "deleteConfig") /\ Delete(Key(h))
        /\ Answer(h, Without(Promised(h), Key(h)))
  /\ UNCHANGED bucketVars

S3Step(h) ==
  \/ \E b \in Bucket : MinIOCreates(h, S3Key(b)) \/ MinIODeletes(h, S3Key(b))
  \/ \E b \in Bucket, c \in Config : MinIOConfigures(h, "readBucket", b, {c})
  \/ \E b \in Bucket, op \in {"putOther", "deleteConfig"} : MinIOConfigures(h, op, b, {})
  \/ updateBucketConfig(h) \/ mistakenForBucket(h)

handleCreateBucket(h) == \E b \in Bucket : MinIOCreates(h, GcsKey(b))
handleDeleteBucket(h) == \E b \in Bucket : MinIODeletes(h, GcsKey(b))
-----------------------------------------------------------------------------
(* Objects: MinIO only.                                                     *)

handleObjectUpload ==
  \E b \in minio, o \in Object : /\ objects' = objects \cup {<<b, o>>}
                                 /\ UNCHANGED <<recVars, minio, left>>

handleObjectCopy ==
  \E src \in objects, b \in minio, o \in Object : /\ objects' = objects \cup {<<b, o>>}
                                                  /\ src # <<b, o>>
                                                  /\ UNCHANGED <<recVars, minio, left>>

handleObjectDelete ==
  \E x \in objects : objects' = objects \ {x} /\ UNCHANGED <<recVars, minio, left>>

BucketStep(h) ==
  \/ (S3Step(h) \/ handleCreateBucket(h) \/ handleDeleteBucket(h)) /\ UNCHANGED drawn
  \/ (createBucketResource(h) \/ deleteBucketResource(h)) /\ UNCHANGED drawn
  \/ handleObjectUpload \/ handleObjectCopy \/ handleObjectDelete

\* A bucket record stands for a bucket of MinIO, unless that was deleted by a request that
\* leaves the record, and has not been made again; an object lies in a bucket.
BucketsBacked ==
  /\ \A k \in DOMAIN store : k[1] = "bucket" =>
        \/ k[2] \in minio
        \/ k \in left
        \/ BucketSubject(k[2]) \in raced
        \/ \E h \in Handler : At(h, "forgetBucket") /\ Key(h) = k
  /\ \A x \in objects : x[1] \in minio
=============================================================================
