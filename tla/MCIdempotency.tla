--------------------------- MODULE MCIdempotency ---------------------------
(* Two services that share the scope of /v1/projects/: requests of different *)
(* scopes never meet, and the third one overlaps the first two or follows.   *)
EXTENDS Idempotency
CONSTANTS k, b1, b2

Services  == {"pubsub", "gke"}
GoogleV1  == {"pubsub", "gke"}
=============================================================================
