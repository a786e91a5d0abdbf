---------------------------- MODULE MCInventory -----------------------------
(***************************************************************************)
(* A small cloud: two resource groups, of which the discoverer sees one or *)
(* both, two storage accounts of which one name contains the other, and at *)
(* least one object of every kind.                                         *)
(***************************************************************************)
EXTENDS Inventory

CONSTANT Scoping   \* whether the discoverer is scoped to a group

MCSub == <<"sub">>
G1 == <<"sub", "g1">>
G2 == <<"sub", "g2">>
MCScope == IF Scoping THEN G1 ELSE Everywhere
MCGroups == <<G1, G2>>
MCAccounts ==
  <<[id |-> G1 \o <<"acc">>, containers |-> <<G1 \o <<"acc", "c">>>>,
     shares |-> <<G1 \o <<"acc", "s">>>>, key |-> TRUE],
    [id |-> G2 \o <<"acc2">>, containers |-> <<G2 \o <<"acc2", "c">>>>, shares |-> <<>>,
     key |-> FALSE]>>
MCWithin == {<<"acc", "acc">>, <<"acc2", "acc2">>, <<"acc", "acc2">>}
MCServers == <<[id |-> G1 \o <<"sql">>, databases |-> <<G1 \o <<"sql", "db">>>>]>>
MCCosmos ==
  <<[id |-> G2 \o <<"mongo">>, mongo |-> TRUE, key |-> TRUE, databases |-> <<G2 \o <<"mongo", "db">>>>],
    [id |-> G1 \o <<"docs">>, mongo |-> FALSE, key |-> FALSE, databases |-> <<>>]>>
MCDisks == <<[id |-> G1 \o <<"disk">>, key |-> TRUE], [id |-> G2 \o <<"disk">>, key |-> FALSE]>>
MCMachines ==
  <<[id |-> G1 \o <<"vm">>, nics |-> {G1 \o <<"nic">>}, disks |-> {G1 \o <<"disk">>}]>>
MCSites ==
  <<[id |-> G1 \o <<"web">>, kind |-> "app,linux", subnets |-> {G1 \o <<"net">>}],
    [id |-> G1 \o <<"fun">>, kind |-> "functionapp", subnets |-> {}],
    [id |-> G2 \o <<"box">>, kind |-> "hyperV", subnets |-> {}]>>
MCInterfaces == <<G1 \o <<"nic">>>>
MCBalancers == <<G2 \o <<"lb">>>>
MCGateways == <<G1 \o <<"ag">>>>
MCPlans == [p \in {"StorageAccounts", "VirtualMachines"} |-> p = "VirtualMachines"]
MCVaults ==
  <<[id |-> G1 \o <<"v1">>,
     pages |-> <<<<>>, <<[id |-> G1 \o <<"v1", "b1">>, source |-> G1 \o <<"disk">>, type |-> Disc]>>>>],
    [id |-> G2 \o <<"v2">>,
     pages |-> <<<<[id |-> G2 \o <<"v2", "b2">>, source |-> G1 \o <<"acc">>, type |-> Blob]>>>>]>>

MCBuckets ==
  <<[name |-> "b1", region |-> "here", encryption |-> "kms"],
    [name |-> "b2", region |-> "there", encryption |-> "none"]>>
MCVolumes == <<[id |-> "vol", encrypted |-> TRUE]>>
MCNics == <<"eni">>
MCVms == <<[id |-> "i", volumes |-> {"vol"}, nics |-> {"eni"}]>>
MCLambdas == <<<<"l1">>, <<"l2">>>>

MCPods ==
  <<[namespace |-> "ns", name |-> "p1",
     volumes |-> <<[name |-> "d", source |-> "AzureDisk"], [name |-> "cm", source |-> "ConfigMap"],
                   [name |-> "k", source |-> "Secret"]>>],
    [namespace |-> "ns", name |-> "p2", volumes |-> <<[name |-> "cm", source |-> "ConfigMap"]>>]>>
MCServices == <<[namespace |-> "ns", name |-> "svc"]>>
MCIngresses == <<[namespace |-> "ns", name |-> "in", tls |-> TRUE]>>
MCPVs == <<[uid |-> "pv1", source |-> "NFS"], [uid |-> "pv2", source |-> "Local"]>>
MCCustomIds == {"custom"}
=============================================================================
