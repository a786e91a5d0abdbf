----------------------------- MODULE Inventory ------------------------------
(***************************************************************************)
(* The inventory of resources: what the discoverers of Azure, AWS and      *)
(* Kubernetes list, what StartDiscovery makes of it in the storage, and    *)
(* what ListResources and ListGraphEdges answer.  How runs are scheduled   *)
(* and overlap is the subject of Discovery.                                *)
(***************************************************************************)
EXTENDS Azure, Ontology

CONSTANTS
  Region, Buckets, Volumes, Nics, Vms, Lambdas,
  Pods, Services, Ingresses, PVs,
  CustomIds,    \* the identifiers of the resources that clients provide
  MaxOthers     \* how many of the other discoverers and updates are explored together

VARIABLES
  table,        \* the stored resources, by identifier
  ran           \* the discoverers of AWS and Kubernetes that have run, and the updates

W == INSTANCE Aws
K == INSTANCE Kubernetes

vars == <<azureVars, table, ran>>

InventoryInit ==
  /\ Init
  /\ table = [id \in {} |-> {}]
  /\ ran = {}
-----------------------------------------------------------------------------
(***************************************************************************)
(* ToDiscoveryResource and Save.  The resource types are joined with       *)
(* commas; here they stay a sequence.  Save replaces the row with the same *)
(* identifier.                                                             *)
(***************************************************************************)
ToDiscoveryResource(r) == [resourceType |-> ResourceTypes(r.kind), properties |-> r]

Save(t, r) ==
  [id \in DOMAIN t \cup {r.id} |-> IF id = r.id THEN ToDiscoveryResource(r) ELSE t[id]]

\* the loop of StartDiscovery; an error of List ends it before anything is saved
SaveAll(resources) == table' = FoldLeft(Save, table, resources)

(***************************************************************************)
(* Bounds: the other discoverers and the clients share nothing but the     *)
(* table with Azure, so they are explored after the lists of Azure, and at *)
(* most MaxOthers of them in one behaviour; clients update resources       *)
(* before anything is discovered.                                          *)
(***************************************************************************)
AzureStep ==
  /\ ran = {}
  /\ List \/ ListFails \/ Question \/ VaultChanges
  /\ UNCHANGED <<table, ran>>

OtherStep == azpc = "idle" /\ Cardinality(ran) < MaxOthers /\ UNCHANGED azureVars

AzureDiscovered ==
  /\ azpc = "listed"
  /\ SaveAll(list)
  /\ azpc' = "idle"
  /\ list' = <<>>
  /\ UNCHANGED <<backupMap, defender, vaulted, ran>>

Discovered(name, resources) ==
  /\ OtherStep
  /\ name \notin ran
  /\ ran' = ran \cup {name}
  /\ SaveAll(resources)

AwsDiscovered ==
  \/ Discovered("AWS Blob Storage", W!StorageList)
  \/ Discovered("AWS Compute", W!ComputeList)

KubernetesDiscovered ==
  \/ Discovered("Kubernetes Compute", K!ComputeList)
  \/ Discovered("Kubernetes Network", K!NetworkList)
  \/ Discovered("Kubernetes Storage", K!StorageList)

\* a client provides a resource of its own, of any class, or with any feature
CustomFeatures == {{}} \cup {{f} : f \in DOMAIN PropertyClasses}

UpdateResource ==
  /\ OtherStep
  /\ \A id \in DOMAIN table : id.path[1] \in CustomIds
  /\ \E p \in CustomIds, k \in ResourceKinds, F \in CustomFeatures :
       /\ p \notin ran
       /\ k = "Application" \/ F = {}
       /\ table' = Save(table, Res(k, Id(<<p>>), NoFields, NoFields, F, {}))
       /\ ran' = ran \cup {p}

Next == AzureStep \/ AzureDiscovered \/ AwsDiscovered \/ KubernetesDiscovered \/ UpdateResource

Spec == InventoryInit /\ [][Next]_vars
-----------------------------------------------------------------------------
(***************************************************************************)
(* ListResources with a type: the column is matched with the patterns      *)
(* "T,%", "%,T,%" and "%,T".                                               *)
(***************************************************************************)
\* mutant: the pattern for a type in the middle is left out.
LikeOuter(types, T) == Len(types) > 1 /\ (types[1] = T \/ types[Len(types)] = T)

Like(types, T) ==
  \/ Len(types) > 1 /\ types[1] = T
  \/ \E i \in 2..(Len(types) - 1) : types[i] = T
  \/ Len(types) > 1 /\ types[Len(types)] = T

ListResources(T) == {id \in DOMAIN table : Like(table[id].resourceType, T)}

ListGraphEdges ==
  UNION {{[source |-> id, target |-> e.value, type |-> e.property] :
            e \in Related(table[id].properties)} : id \in DOMAIN table}
-----------------------------------------------------------------------------
Types == UNION {ElementsOf(ResourceTypes(k)) : k \in ResourceKinds}

\* Rows are stored under the identifier of their resource, in lower case, and Azure is asked
\* the questions of List only.
TypeOK ==
  /\ \A id \in DOMAIN table : ~id.raw /\ table[id].properties.id = id
  /\ azpc \in {"idle", "groups", "defender", "storageVaults", "accounts", "sql", "cosmos",
               "diskVaults", "disks", "machines", "sites", "interfaces", "balancers",
               "gateways", "listed", "failed"}
  /\ \A i \in DOMAIN backupMap : backupMap[i] \in Instances

\* The types of a resource mean the same everywhere.  The three patterns of ListResources find
\* exactly the stored resources that have the type, be it the class itself or one of its
\* abstract classes; and the oneof of an abstract class can hold a class exactly if the
\* resource types of the class name it, for every class that is stored, as a resource or as
\* one of its features.  (The table only changes when Azure is idle.)
TypesAgree ==
  azpc = "idle" =>
    /\ \A T \in Types :
         ListResources(T) = {id \in DOMAIN table : HasType(table[id].properties.kind, T)}
    /\ \A id \in DOMAIN table :
         \A k \in {table[id].properties.kind} \cup table[id].properties.features :
           \A c \in DOMAIN AbstractClasses : k \in AbstractClasses[c] <=> HasType(k, c)

\* Every edge of the resource graph leads to a stored resource: the parents that the Azure
\* handlers compute from identifiers are the identifiers under which the subscription, the
\* groups and the accounts are stored, also when the discoverer is scoped to a group.
EdgesResolve == \A e \in ListGraphEdges : e.target \in DOMAIN table

\* A list of the Azure discoverer has no resource twice, although the vaults are visited for
\* the storage accounts and for the disks.
ListedOnce ==
  azpc = "listed" => \A i, j \in DOMAIN list : list[i].id = list[j].id => i = j

\* Services and backups agree with the list they are part of: a storage service names every
\* storage whose parent it is, and what a resource names as the storage of its backup is in
\* the same list, up to the case of the identifier, whatever failed or changed between the
\* questions.
LinksListed ==
  azpc = "listed" =>
    \A r \in ElementsOf(list) :
      /\ \A s \in ElementsOf(list) :
           s.kind = "ObjectStorageService" /\ r.val = Parent(s.id) => r.id \in s.lists["storage_ids"]
      /\ \A b \in r.backup : \E s \in ElementsOf(list) : s.id = Id(b.path)

\* Nothing that a discoverer of AWS or Kubernetes found is missing from the storage: every
\* function of every page, and every volume of a pod whose source is known, with its kind.
FoundIsStored ==
  /\ "AWS Compute" \in ran =>
       \A page \in ElementsOf(Lambdas) : \A f \in ElementsOf(page) : Id(<<f>>) \in DOMAIN table
  /\ "Kubernetes Compute" \in ran =>
       \A p \in ElementsOf(Pods) : \A v \in ElementsOf(p.volumes) :
         /\ v.source \in K!BlockSources =>
              Id(<<v.name>>) \in ListResources("BlockStorage")
         /\ v.source \in K!PodFileSources =>
              Id(<<v.name>>) \in ListResources("FileStorage")
=============================================================================
