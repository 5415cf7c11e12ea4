--------------------------------- MODULE Vpc ---------------------------------
(***************************************************************************)
(* internal/service/vpc/actions.go: a VPC is a record and a Docker network *)
(* of its own; a subnet is a record that refers to its VPC.                *)
(***************************************************************************)
EXTENDS AdminApi

CONSTANTS VpcId, SubnetId

VARIABLE networks      \* the VPCs that have a Docker network

VpcKey(i)       == <<"vpc", i, i>>
SubnetKey(v, i) == <<"subnet", <<v, i>>, "id">>
VpcOf(k)        == k[2][1]
Subnets(v)      == {k \in DOMAIN store : k[1] = "subnet" /\ VpcOf(k) = v}

VpcInit == networks = {}

\* A network that cannot be created ends the request with nothing written.
createVpc(h) ==
  \/ \E i \in VpcId \ drawn :
       /\ Begin(h, "createVpc", SubjectOf(VpcKey(i)), [key |-> VpcKey(i)])
       /\ drawn' = drawn \cup {i}
       /\ networks' = networks \cup {i}
  \/ /\ At(h, "createVpc")
     /\ PutBare(Key(h)) /\ Answer(h, Record(Key(h), {}))
     /\ UNCHANGED <<networks, drawn>>

FindVpc(h) ==
  \E i \in VpcId :
    LET k == VpcKey(i) IN
    /\ IF Present(k) THEN Begin(h, "deleteVpc", SubjectOf(k), [key |-> k])
                     ELSE Shows({SubjectOf(k)})
    /\ UNCHANGED <<networks, drawn>>

LookForSubnets(h) ==
  /\ At(h, "deleteVpc")
  /\ IF Subnets(Key(h)[2]) = {} THEN Goto(h, "removeNetwork") ELSE Answer(h, Promised(h))
  /\ UNCHANGED <<store, maps, networks, drawn>>

\* A network that cannot be removed is logged, and stays behind.
RemoveNetwork(h) ==
  /\ At(h, "removeNetwork")
  /\ networks' \in {networks, networks \ {Key(h)[2]}}
  /\ Goto(h, "dropVpc")
  /\ UNCHANGED <<store, maps, drawn>>

DropVpc(h) ==
  /\ At(h, "dropVpc")
  /\ Delete(Key(h)) /\ UNCHANGED <<networks, drawn>>
  /\ Answer(h, Gone)

deleteVpc_NetworkFirst(h) ==
  \/ FindVpc(h)
  \/ RemoveNetwork(h)
  \/ /\ At(h, "deleteVpc")
     /\ networks' = networks \ {Key(h)[2]}
     /\ IF Subnets(Key(h)[2]) = {} THEN Goto(h, "dropVpc") ELSE Answer(h, Promised(h))
     /\ UNCHANGED <<store, maps, drawn>>
  \/ DropVpc(h)

deleteVpc(h) == FindVpc(h) \/ LookForSubnets(h) \/ RemoveNetwork(h) \/ DropVpc(h)

createSubnet(h) ==
  \/ \E v \in VpcId, i \in SubnetId \ drawn :
       LET k == SubnetKey(v, i)  s == SubjectOf(VpcKey(v)) IN
       /\ Present(VpcKey(v))
       /\ Begin(h, "createSubnet", SubjectOf(k), [key |-> k, ref |-> s])
       /\ drawn' = drawn \cup {i}
       /\ UNCHANGED networks
  \/ /\ At(h, "createSubnet")
     /\ PutBare(Key(h)) /\ Answer(h, Record(Key(h), {}))
     /\ UNCHANGED <<networks, drawn>>

deleteSubnet(h) ==
  \/ \E v \in VpcId, i \in SubnetId :
       LET k == SubnetKey(v, i) IN
       /\ IF Present(k) THEN Begin(h, "deleteSubnet", SubjectOf(k), [key |-> k])
                        ELSE Shows({SubjectOf(k)})
       /\ UNCHANGED <<networks, drawn>>
  \/ /\ At(h, "deleteSubnet")
     /\ Delete(Key(h)) /\ UNCHANGED <<networks, drawn>>
     /\ Answer(h, Gone)

describeVpcs    == Shows({s \in Subject : s[1] = "vpc"})
describeSubnets == Shows({s \in Subject : s[1] = "subnet"})

VpcStep(h) == createVpc(h) \/ deleteVpc(h) \/ createSubnet(h) \/ deleteSubnet(h)
VpcReads   == describeVpcs \/ describeSubnets

\* A VPC is not deleted under its subnets, but by the admin API, and until it is deleted
\* it has its network.
SubnetsHaveVpcs ==
  /\ \A k \in DOMAIN store : k[1] = "subnet" =>
        LET vpc == VpcKey(VpcOf(k)) IN Present(vpc) \/ vpc \in taken \/ SubjectOf(vpc) \in raced
  /\ \A i \in VpcId : Present(VpcKey(i)) =>
        i \in networks \/ \E h \in Handler : Key(h) = VpcKey(i) /\ At(h, "dropVpc")
=============================================================================
