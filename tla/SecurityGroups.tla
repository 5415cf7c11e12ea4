--------------------------- MODULE SecurityGroups ---------------------------
(***************************************************************************)
(* internal/service/sg/actions.go: a security group has a random id and a  *)
(* name that should be unique, and two lists of rules in its Spec.  The    *)
(* instances that refer to it are records of EC2, which keeps them after   *)
(* they are terminated.                                                    *)
(***************************************************************************)
EXTENDS AdminApi

CONSTANTS GroupName, GroupId,
          Rule,            \* rules as requests give them: their ranges are strings
          Everything,      \* protocol -1, ports 0, the range 0.0.0.0/0
          NoRanges,        \* protocol -1, ports 0, no range
          DefaultRule,     \* the egress rule a new group has: Everything to a client, but
                           \* its ranges are stored in another type
          Member           \* instances that are started in a group

GroupKey(n, i)  == <<"sg", n, i>>
Groups          == {k \in DOMAIN store : k[1] = "sg"}
MemberKey(g, i) == <<"instance", <<g, i>>, "id">>
Members(g)      == {k \in DOMAIN store : k[1] = "instance" /\ k[2][1] = g}
List(k, field)  == {x \in Content(store[k]) : x[1] = field}

createSecurityGroup(h) ==
  \/ \E n \in GroupName, i \in GroupId \ drawn :
       LET k == GroupKey(n, i)  s == SubjectOf(k) IN
       IF Listed(s) = {}
       THEN Begin(h, "createGroup", s, [key |-> k]) /\ drawn' = drawn \cup {i}
       ELSE Shows({s}) /\ UNCHANGED drawn
  \/ /\ At(h, "createGroup")
     /\ PutNew(Key(h), {<<"egress", DefaultRule>>})
     /\ Answer(h, Record(Key(h), {<<"egress", DefaultRule>>}))
     /\ UNCHANGED drawn

deleteSecurityGroup(h) ==
  \/ /\ \E k \in Groups : Begin(h, "deleteGroup", SubjectOf(k), [key |-> k])
     /\ UNCHANGED drawn
  \/ /\ At(h, "deleteGroup")
     /\ IF Members(Key(h)) = {} THEN Goto(h, "dropGroup") ELSE Answer(h, Promised(h))
     /\ UNCHANGED <<store, maps, drawn>>
  \/ /\ At(h, "dropGroup")
     /\ Delete(Key(h)) /\ UNCHANGED drawn
     /\ Answer(h, Gone)

\* The rules of a request, and the rules of a list that one of them matches.  The type
\* assertion finds no range in the default rule: it is matched by the request without
\* ranges, and not by the one that names what a client is shown.
RequestedRules(field) == {{field} \X rules : rules \in SUBSET Rule \ {{}}}
Matched(list, rules) ==
  {x \in list : x \in rules \/ (x[2] = DefaultRule /\ <<x[1], NoRanges>> \in rules)}

\* The list is read from the Spec map ...
ReadRules(h, op, field) ==
  \E k \in Groups, rules \in RequestedRules(field) :
    Begin(h, op, SubjectOf(k), [key |-> k, copy |-> store[k], read |-> List(k, field),
                                field |-> field, arg |-> rules])

\* ... and the new one is written to it, whatever was written in between; then the
\* copy is put back.
WriteRules(h, list) ==
  PutCopy(h, {x \in Content(req[h].copy) : x[1] # req[h].field} \cup list)

modifySecurityGroupRules(h, field) ==
  \/ ReadRules(h, "authorize", field)
  \/ /\ At(h, "authorize") /\ req[h].field = field
     /\ WriteRules(h, req[h].read \cup req[h].arg)
     /\ Answer(h, Record(Key(h), PromisedContent(h) \cup req[h].arg))

\* Rules that match one of the request's are left out of the new list; the answer is
\* true whatever was matched, and said follows the match.
removeSecurityGroupRules(h, field) ==
  \/ ReadRules(h, "revoke", field)
  \/ /\ At(h, "revoke") /\ req[h].field = field
     /\ WriteRules(h, req[h].read \ Matched(req[h].read, req[h].arg))
     /\ Answer(h, Record(Key(h), PromisedContent(h) \ Matched(PromisedContent(h), req[h].arg)))

authorizeSecurityGroupIngress(h) == modifySecurityGroupRules(h, "ingress") /\ UNCHANGED drawn
authorizeSecurityGroupEgress(h)  == modifySecurityGroupRules(h, "egress") /\ UNCHANGED drawn
revokeSecurityGroupIngress(h)    == removeSecurityGroupRules(h, "ingress") /\ UNCHANGED drawn
revokeSecurityGroupEgress(h)     == removeSecurityGroupRules(h, "egress") /\ UNCHANGED drawn

describeSecurityGroups == Shows({s \in Subject : s[1] = "sg"})

\* RunInstances with a group that exists when the request is made.  It is written
\* to the instance's Spec; nobody looks whether it is still there.
runInstances(h) ==
  \/ \E k \in Groups, i \in Member \ drawn :
       /\ Begin(h, "runInstance", SubjectOf(MemberKey(k, i)),
                [key |-> MemberKey(k, i), ref |-> SubjectOf(k)])
       /\ drawn' = drawn \cup {i}
  \/ /\ At(h, "runInstance")
     /\ PutBare(Key(h)) /\ Answer(h, Record(Key(h), {}))
     /\ UNCHANGED drawn

GroupStep(h)  == createSecurityGroup(h) \/ deleteSecurityGroup(h)
RuleStep(h)   == \/ authorizeSecurityGroupIngress(h) \/ authorizeSecurityGroupEgress(h)
                 \/ revokeSecurityGroupIngress(h) \/ revokeSecurityGroupEgress(h)

\* ipPermissionMatches compares protocol, ports and ranges (sg/actions.go:328): a rule
\* that a revoke answered true for is not shown any more, when nothing overlapped.  The
\* default rule is: it is shown as Everything, and a revoke of Everything leaves it.
AsShown(rule) == IF rule = DefaultRule THEN Everything ELSE rule

RevokedIsGone ==
  [][\A h \in Handler : At(h, "revoke") /\ req[h].alone /\ req'[h] = Idle =>
       \A x \in maps'[store'[Key(h)].map] : <<x[1], AsShown(x[2])>> \notin req[h].arg]_recVars

\* A group is not deleted under the instances that were started in it, but by the admin API.
MembersHaveGroups ==
  \A k \in DOMAIN store : k[1] = "instance" /\ k[3] = "id" =>
     LET group == k[2][1] IN Present(group) \/ group \in taken \/ SubjectOf(group) \in raced
=============================================================================
