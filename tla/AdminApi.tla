------------------------------ MODULE AdminApi ------------------------------
(***************************************************************************)
(* internal/admin/api_resources.go: any record can be listed, read and     *)
(* deleted by kind and id.  The deletion stops and removes the record's    *)
(* container and does not look for records that refer to this one.         *)
(*                                                                         *)
(* taken is not in the program: the keys whose record it has deleted, and  *)
(* that have none since.                                                   *)
(***************************************************************************)
EXTENDS RecordStore

VARIABLE taken

StillTaken == taken' = taken \ DOMAIN store'

ListResourcesHandler == Shows(Subject)

GetResourceHandler == \E s \in Subject : Shows({s})

DeleteResourceHandler(h) ==
  \/ /\ \E k \in DOMAIN store : Begin(h, "adminDelete", SubjectOf(k), [key |-> k])
     /\ StillTaken
  \/ /\ At(h, "adminDelete")
     /\ Delete(Key(h))
     /\ Answer(h, Without(Promised(h), Key(h)))
     /\ taken' = taken \cup ({Key(h)} \cap DOMAIN store)

AdminReads == ListResourcesHandler \/ GetResourceHandler
=============================================================================
