--------------------------------- MODULE Iam ---------------------------------
(***************************************************************************)
(* internal/service/iam/actions.go: roles, users, policies, and the        *)
(* attachments of policies to roles.  An attachment is a record of its own *)
(* under "<role>:<policy arn>" that refers to the role by name.            *)
(***************************************************************************)
EXTENDS AdminApi

CONSTANTS RoleName, PolicyName, UserName

RoleKey(n)      == <<"role", n, n>>
UserKey(n)      == <<"user", n, n>>
PolicyKey(n)    == <<"policy", n, n>>
AttachKey(r, p) == <<"attachment", <<r, p>>, "id">>
RoleOf(k)       == k[2][1]

Attachments(n) == {k \in DOMAIN store : k[1] = "attachment" /\ RoleOf(k) = n}

createRole(h)   == InsertNamed(h, "createRole")   \/ \E n \in RoleName : CreateNamed(h, "createRole", RoleKey(n))
createUser(h)   == InsertNamed(h, "createUser")   \/ \E n \in UserName : CreateNamed(h, "createUser", UserKey(n))
createPolicy(h) == InsertNamed(h, "createPolicy") \/ \E n \in PolicyName : CreateNamed(h, "createPolicy", PolicyKey(n))

\* That a policy is attached is not looked at.
deleteUser(h)   == DropNamed(h, "deleteUser")   \/ \E n \in UserName : RemoveNamed(h, "deleteUser", UserKey(n))
deletePolicy(h) == DropNamed(h, "deletePolicy") \/ \E n \in PolicyName : RemoveNamed(h, "deletePolicy", PolicyKey(n))

\* DeleteRole lists the attachments after it has found the role, and refuses
\* while there is one (DeleteConflict).
deleteRole(h) ==
  \/ \E n \in RoleName : RemoveNamed(h, "deleteRole", RoleKey(n))
  \/ /\ At(h, "deleteRole")
     /\ IF Attachments(Key(h)[2]) = {} THEN Goto(h, "dropRole") ELSE Answer(h, Promised(h))
     /\ UNCHANGED <<store, maps>>
  \/ DropNamed(h, "dropRole")

\* The role must exist, the policy need not; attaching again changes nothing.
attachRolePolicy(h) ==
  \/ \E r \in RoleName, p \in PolicyName :
       LET k == AttachKey(r, p)  s == SubjectOf(k) IN
       IF Present(RoleKey(r))
       THEN Begin(h, "attach", s, [key |-> k, ref |-> SubjectOf(RoleKey(r))])
       ELSE Shows({SubjectOf(RoleKey(r))})
  \/ /\ At(h, "attach") /\ Present(Key(h))
     /\ Answer(h, Promised(h)) /\ UNCHANGED <<store, maps>>
  \/ /\ At(h, "attach") /\ ~Present(Key(h))
     /\ Goto(h, "putAttachment") /\ UNCHANGED <<store, maps>>
  \/ InsertNamed(h, "putAttachment")

detachRolePolicy(h) ==
  \/ DropNamed(h, "detach")
  \/ \E r \in RoleName, p \in PolicyName : RemoveNamed(h, "detach", AttachKey(r, p))

\* GetRole, GetUser and GetPolicy; ListRoles, ListUsers and ListPolicies.
getRole   == \E n \in RoleName : Shows({SubjectOf(RoleKey(n))})
getUser   == \E n \in UserName : Shows({SubjectOf(UserKey(n))})
getPolicy == \E n \in PolicyName : Shows({SubjectOf(PolicyKey(n))})
ListKind(kind) == Shows({s \in Subject : s[1] = kind})
listRoles    == ListKind("role")
listUsers    == ListKind("user")
listPolicies == ListKind("policy")
listAttachedRolePolicies ==
  \E r \in RoleName : Present(RoleKey(r)) /\ Shows({s \in Subject : s[1] = "attachment" /\ s[2][1] = r})

\* Users and policies are names on their own; roles have attachments.
NameStep(h) == \/ createUser(h) \/ deleteUser(h) \/ createPolicy(h) \/ deletePolicy(h)
RoleStep(h) == \/ createRole(h) \/ deleteRole(h) \/ attachRolePolicy(h) \/ detachRolePolicy(h)
NameReads == getUser \/ getPolicy \/ listUsers \/ listPolicies
RoleReads == getRole \/ listRoles \/ listAttachedRolePolicies

\* A role with policies attached to it is not deleted under them, but by the admin API.
AttachmentsHaveRoles ==
  \A k \in DOMAIN store : k[1] = "attachment" =>
     LET role == RoleKey(RoleOf(k)) IN Present(role) \/ role \in taken \/ SubjectOf(role) \in raced
=============================================================================
