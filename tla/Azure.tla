------------------------------- MODULE Azure --------------------------------
(***************************************************************************)
(* The Azure discoverer (service/discovery/azure).  List asks for one kind *)
(* of resource after the other; every question is an action, because the   *)
(* backup vaults may change, and any question may fail, between two of     *)
(* them.  What List keeps over its runs is the map of backups.             *)
(***************************************************************************)
EXTENDS Resources, SequencesExt

CONSTANTS
  Sub,        \* the path of the first subscription
  Scope,      \* the resource group the discoverer is scoped to, or Everywhere
  Everywhere,
  Groups,     \* the paths of the resource groups
  Accounts,   \* the storage accounts [id, containers, shares, key], a sequence
  Within,   \* <<n, s>>: the segment s of an identifier contains the name n
  Servers,    \* the SQL servers [id, databases]
  Cosmos,     \* the Cosmos DB accounts [id, mongo, key, databases]
  Disks,      \* the disks [id, key]
  Machines,   \* the virtual machines [id, nics, disks]
  Sites,      \* the function and web apps [id, kind, subnets]
  Interfaces, \* the paths of the network interfaces
  Balancers,  \* the paths of the load balancers
  Gateways,   \* the paths of the application gateways
  Plans,      \* the Defender plans: a function from plans to whether they are paid
  Vaults,     \* the backup vaults [id, pages], pages being sequences of instances
  MayFail     \* whether questions to the cloud may fail

VARIABLES
  azpc,       \* the next question of List, or idle, listed, failed
  list,       \* what List has collected
  backupMap,  \* the instances found by discoverBackupVaults, in order
  defender,   \* defenderProperties
  vaulted     \* the instances [id, source, type] that exist in the cloud

azureVars == <<azpc, list, backupMap, defender, vaulted>>

Disc == "Microsoft.Compute/disks"
Blob == "Microsoft.Storage/storageAccounts/blobServices"
Instances == UNION {UNION {ElementsOf(p) : p \in ElementsOf(v.pages)} : v \in ElementsOf(Vaults)}

Init ==
  /\ azpc = "idle"
  /\ list = <<>>
  /\ backupMap = <<>>
  /\ defender = [p \in {} |-> FALSE]
  /\ vaulted = Instances
-----------------------------------------------------------------------------
(***************************************************************************)
(* azure_properties.go.  resourceID lower-cases an identifier.             *)
(***************************************************************************)
resourceID(p) == Id(p)

\* mutant: the group is cut out, and its case is kept.
resourceGroupIDAsIs(p) == IF Len(p) < 2 THEN NoFields ELSE Parent(RawId(SubSeq(p, 1, 2)))

resourceGroupID(p) == IF Len(p) < 2 THEN NoFields ELSE Parent(Id(SubSeq(p, 1, 2)))

accountName(p) == p[3]

InScope(o) == Scope = Everywhere \/ SubSeq(o.id, 1, 2) = Scope
-----------------------------------------------------------------------------
(***************************************************************************)
(* The handlers: what a discovered object becomes.                         *)
(***************************************************************************)
handleSubscription == Plain("Account", resourceID(Sub), NoFields)

handleResourceGroup(g) == Plain("ResourceGroup", resourceID(g), Parent(RawId(Sub)))

blockStorageAtRestEncryption(o) ==
  IF o.key THEN {"CustomerKeyEncryption"} ELSE {"ManagedKeyEncryption"}

storageAtRestEncryption(o) == blockStorageAtRestEncryption(o)

\* backupMap[type].backup[source]: the last instance of the source wins
Backups(type, source) ==
  LET I == {i \in DOMAIN backupMap : backupMap[i].type = type /\ backupMap[i].source = source}
  IN IF I = {} THEN {} ELSE {RawId(backupMap[CHOOSE i \in I : \A j \in I : j <= i].id)}

\* backupMap[type].backupStorages; only the two types below are ever added to a list
handleInstances(i) ==
  Plain(IF i.type = Blob THEN "ObjectStorage" ELSE "BlockStorage",
        resourceID(i.id), resourceGroupID(i.id))

backupStorages(type) ==
  LET own == SelectSeq(backupMap, LAMBDA i : i.type = type)
  IN [k \in DOMAIN own |-> handleInstances(own[k])]

\* both storage handlers look at the plan for storage accounts and use the one for machines
StorageLogging ==
  IF "StorageAccounts" \in DOMAIN defender /\ defender["VirtualMachines"]
  THEN {"ResourceLogging"} ELSE {}

handleObjectStorage(a, c) ==
  Res("ObjectStorage", resourceID(c), Parent(resourceID(a.id)), NoFields,
           storageAtRestEncryption(a) \cup StorageLogging, Backups(Blob, a.id))

handleFileStorage(a, s) ==
  Res("FileStorage", resourceID(s), Parent(resourceID(a.id)), NoFields,
           storageAtRestEncryption(a) \cup StorageLogging, {})

handleStorageAccount(a, storagesList) ==
  Res("ObjectStorageService", resourceID(a.id), resourceGroupID(a.id),
           [f \in {"storage_ids"} |->
              {r.id : r \in {s \in ElementsOf(storagesList) :
                 \E k \in DOMAIN s.id.path : <<accountName(a.id), s.id.path[k]>> \in Within}}],
           {"TransportEncryption"}, {})

handleSqlServer(s, dbs) ==
  <<Res("RelationalDatabaseService", resourceID(s.id), resourceGroupID(s.id), NoFields,
             {"TransportEncryption", "AnomalyDetection"}, {})>> \o dbs

getSqlDBs(s, n) ==
  [k \in 1..n |-> Res("DatabaseStorage", resourceID(s.databases[k]), Parent(resourceID(s.id)),
                           NoFields, {"ManagedKeyEncryption"}, {})]

discoverMongoDBDatabases(a, n) ==
  [k \in 1..n |-> Res("DatabaseStorage", resourceID(a.databases[k]), Parent(resourceID(a.id)),
                           NoFields, storageAtRestEncryption(a), {})]

handleCosmosDB(a, n) ==
  <<Plain("DocumentDatabaseService", resourceID(a.id), resourceGroupID(a.id))>>
    \o IF a.mongo THEN discoverMongoDBDatabases(a, n) ELSE <<>>

handleBlockStorage(d) ==
  Res("BlockStorage", resourceID(d.id), resourceGroupID(d.id), NoFields,
           blockStorageAtRestEncryption(d), Backups(Disc, d.id))

handleVirtualMachines(m) ==
  Res("VirtualMachine", resourceID(m.id), resourceGroupID(m.id),
           [f \in {"network_interface_ids", "block_storage_ids"} |->
              {resourceID(p) : p \in IF f = "block_storage_ids" THEN m.disks ELSE m.nics}],
           {"ActivityLogging"}, {})

getVirtualNetworkSubnetId(s) == [f \in {"network_interface_ids"} |-> {resourceID(p) : p \in s.subnets}]

handleFunction(s) ==
  Res("Function", resourceID(s.id), resourceGroupID(s.id), getVirtualNetworkSubnetId(s), {}, {})

handleWebApp(s) ==
  Res("WebApp", resourceID(s.id), resourceGroupID(s.id), getVirtualNetworkSubnetId(s), {}, {})

handleSite(s) ==
  IF s.kind \in {"app", "app,linux"} THEN <<handleWebApp(s)>>
  ELSE IF s.kind \in {"functionapp", "functionapp,linux"} THEN <<handleFunction(s)>>
  ELSE <<>>

handleNetworkInterfaces(p) ==
  Res("NetworkInterface", resourceID(p), resourceGroupID(p), NoFields, {"L3Firewall"}, {})

handleLoadBalancer(p) == Plain("LoadBalancer", resourceID(p), resourceGroupID(p))

handleApplicationGateway(p) ==
  Res("LoadBalancer", resourceID(p), resourceGroupID(p), NoFields,
           {"WebApplicationFirewall"}, {})
-----------------------------------------------------------------------------
(***************************************************************************)
(* The questions of List, in its order.  One that fails ends List with an  *)
(* error, and its caller does not use the list.                            *)
(***************************************************************************)
Adds(from, to, resources) ==
  /\ azpc = from
  /\ azpc' = to
  /\ list' = list \o resources

ConcatMap(Op(_), s) == FoldLeft(LAMBDA acc, o : acc \o Op(o), <<>>, s)
Scoped(s) == SelectSeq(s, InScope)
AsObjects(paths) == [k \in DOMAIN paths |-> [id |-> paths[k]]]

List ==
  /\ azpc \in {"idle", "listed", "failed"}
  /\ azpc' = "groups"
  /\ list' = <<>>
  /\ UNCHANGED <<backupMap, defender, vaulted>>

ListFails ==
  /\ MayFail
  /\ azpc \in {"groups", "defender", "accounts", "sql", "cosmos", "disks", "machines",
               "sites", "interfaces", "balancers", "gateways"}
  /\ azpc' = "failed"
  /\ UNCHANGED <<list, backupMap, defender, vaulted>>

discoverResourceGroups ==
  /\ Adds("groups", "defender",
          <<handleSubscription>>
            \o ConcatMap(LAMBDA g : <<handleResourceGroup(g.id)>>, Scoped(AsObjects(Groups))))
  /\ UNCHANGED <<backupMap, defender, vaulted>>

discoverDefender ==
  /\ azpc = "defender"
  /\ azpc' = "storageVaults"
  /\ defender' = Plans
  /\ UNCHANGED <<list, backupMap, vaulted>>

(***************************************************************************)
(* discoverBackupVaults, called before the storage accounts and before the *)
(* disks.  Nothing is asked once the map has entries.  Of a vault only the *)
(* last page of its instances is used.  A failure leaves the vaults before *)
(* it in the map, and is only logged; an instance whose policy cannot be   *)
(* had is left out.                                                        *)
(***************************************************************************)
discoverBackupInstances(v) == v.pages[Len(v.pages)]

Found(n, bad) ==
  ConcatMap(LAMBDA v : SelectSeq(discoverBackupInstances(v), LAMBDA i : i \in vaulted \ bad),
            SubSeq(Scoped(Vaults), 1, n))

\* mutant: the vaults are asked for again although they are known.
AskAgain(from, to) ==
  /\ azpc = from
  /\ azpc' = to
  /\ backupMap' = backupMap \o Found(Len(Scoped(Vaults)), {})
  /\ UNCHANGED <<list, defender, vaulted>>

discoverBackupVaults(from, to) ==
  /\ azpc = from
  /\ azpc' = to
  /\ \/ backupMap # <<>> /\ UNCHANGED backupMap
     \/ /\ backupMap = <<>>
        /\ \E n \in (IF MayFail THEN 0..Len(Scoped(Vaults)) ELSE {Len(Scoped(Vaults))}),
              bad \in (IF MayFail THEN SUBSET Instances ELSE {{}}) :
             backupMap' = Found(n, bad)
  /\ UNCHANGED <<list, defender, vaulted>>

discoverObjectStorages(a) ==
  [k \in DOMAIN a.containers |-> handleObjectStorage(a, a.containers[k])]

discoverFileStorages(a) == [k \in DOMAIN a.shares |-> handleFileStorage(a, a.shares[k])]

AddAccount(acc, a) ==
  LET own == acc \o discoverObjectStorages(a) \o discoverFileStorages(a)
  IN Append(own, handleStorageAccount(a, own))

discoverStorageAccounts ==
  /\ Adds("accounts", "sql",
          FoldLeft(AddAccount, <<>>, Scoped(Accounts)) \o backupStorages(Blob))
  /\ UNCHANGED <<backupMap, defender, vaulted>>

(***************************************************************************)
(* A page of databases that cannot be had is only logged: the databases of *)
(* the pages before it are used.                                           *)
(***************************************************************************)
Most == FoldLeft(LAMBDA m, o : IF Len(o.databases) > m THEN Len(o.databases) ELSE m,
                 0, Servers \o Cosmos)
Lengths == IF MayFail THEN 0..Most ELSE {Most}
UpTo(o, n) == IF n < Len(o.databases) THEN n ELSE Len(o.databases)

discoverSqlServers ==
  /\ \E n \in Lengths :
       Adds("sql", "cosmos",
            ConcatMap(LAMBDA s : handleSqlServer(s, getSqlDBs(s, UpTo(s, n))), Scoped(Servers)))
  /\ UNCHANGED <<backupMap, defender, vaulted>>

discoverCosmosDB ==
  /\ \E n \in Lengths :
       Adds("cosmos", "diskVaults",
            ConcatMap(LAMBDA a : handleCosmosDB(a, UpTo(a, n)), Scoped(Cosmos)))
  /\ UNCHANGED <<backupMap, defender, vaulted>>

\* mutant: the storages of the backups are not added to the list.
DisksOnly ==
  /\ Adds("disks", "machines", ConcatMap(LAMBDA d : <<handleBlockStorage(d)>>, Scoped(Disks)))
  /\ UNCHANGED <<backupMap, defender, vaulted>>

discoverBlockStorages ==
  /\ Adds("disks", "machines",
          ConcatMap(LAMBDA d : <<handleBlockStorage(d)>>, Scoped(Disks)) \o backupStorages(Disc))
  /\ UNCHANGED <<backupMap, defender, vaulted>>

discoverVirtualMachines ==
  /\ Adds("machines", "sites",
          ConcatMap(LAMBDA m : <<handleVirtualMachines(m)>>, Scoped(Machines)))
  /\ UNCHANGED <<backupMap, defender, vaulted>>

\* a site whose configuration cannot be had is left out
discoverFunctionsWebApps ==
  /\ \E ok \in (IF MayFail THEN SUBSET DOMAIN Sites ELSE {DOMAIN Sites}) :
       Adds("sites", "interfaces",
            ConcatMap(LAMBDA k : IF k \in ok /\ InScope(Sites[k]) THEN handleSite(Sites[k]) ELSE <<>>,
                      [k \in DOMAIN Sites |-> k]))
  /\ UNCHANGED <<backupMap, defender, vaulted>>

discoverNetworkInterfaces ==
  /\ Adds("interfaces", "balancers",
          ConcatMap(LAMBDA o : <<handleNetworkInterfaces(o.id)>>, Scoped(AsObjects(Interfaces))))
  /\ UNCHANGED <<backupMap, defender, vaulted>>

discoverLoadBalancer ==
  /\ Adds("balancers", "gateways",
          ConcatMap(LAMBDA o : <<handleLoadBalancer(o.id)>>, Scoped(AsObjects(Balancers))))
  /\ UNCHANGED <<backupMap, defender, vaulted>>

discoverApplicationGateway ==
  /\ Adds("gateways", "listed",
          ConcatMap(LAMBDA o : <<handleApplicationGateway(o.id)>>, Scoped(AsObjects(Gateways))))
  /\ UNCHANGED <<backupMap, defender, vaulted>>

\* backups are configured and removed in the cloud at any time (external)
VaultChanges ==
  /\ \E i \in Instances : vaulted' = IF i \in vaulted THEN vaulted \ {i} ELSE vaulted \cup {i}
  /\ UNCHANGED <<azpc, list, backupMap, defender>>

Question ==
  \/ discoverResourceGroups \/ discoverDefender
  \/ discoverBackupVaults("storageVaults", "accounts") \/ discoverStorageAccounts
  \/ discoverSqlServers \/ discoverCosmosDB
  \/ discoverBackupVaults("diskVaults", "disks") \/ discoverBlockStorages
  \/ discoverVirtualMachines \/ discoverFunctionsWebApps
  \/ discoverNetworkInterfaces \/ discoverLoadBalancer \/ discoverApplicationGateway
=============================================================================
