------------------------------ MODULE MCRecords ------------------------------
EXTENDS Records

CONSTANTS r1, p1, u1, v1, n1, n2, g1, q1, k1, i1, m1, b1, none

\* Ids that are drawn at random: two of each, so that a name can be taken again.
MCGroupIds == {1, 2}
MCPairIds  == {1, 2, 3}

MCSubject ==
  {<<"role", r1>>, <<"user", u1>>, <<"policy", p1>>, <<"attachment", <<r1, p1>>>>}
  \cup {<<"vpc", v>> : v \in {v1}} \cup {<<"subnet", <<v, n>>>> : v \in {v1}, n \in {n1, n2}}
  \cup {<<"sg", g1>>, <<"queue", q1>>, <<"keypair", k1>>, <<"instance", i1>>, <<"bucket", b1>>}
  \cup {<<"instance", <<GroupKey(g1, i), m1>>>> : i \in MCGroupIds}

\* Handlers and the ids of subnets are only ever compared.
MCSymmetry == Permutations(Handler) \cup Permutations({n1, n2}) \cup Permutations(QueueTag)

MCWorkloads == {"names", "roles", "vpc", "groups", "members", "sqs", "keypairs", "tags", "buckets"}
=============================================================================
