---------------------------- MODULE Kubernetes ------------------------------
(***************************************************************************)
(* The Kubernetes discoverers (service/discovery/k8s): pods with their     *)
(* volumes, services and ingresses, and persistent volumes.                *)
(***************************************************************************)
EXTENDS Resources, SequencesExt

CONSTANTS
  Pods,       \* the pods [namespace, name, volumes], volumes being [name, source]
  Services,   \* the services [namespace, name]
  Ingresses,  \* the ingresses [namespace, name, tls]
  PVs         \* the persistent volumes [uid, source]

BlockSources ==
  {"AWSElasticBlockStore", "AzureDisk", "Cinder", "FlexVolume", "CephFS", "Glusterfs",
   "GCEPersistentDisk", "RBD", "StorageOS", "FC", "PortworxVolume", "ISCSI", "Flocker"}
PodFileSources == {"AzureFile", "EmptyDir", "NFS", "HostPath", "Secret"}
PVFileSources == {"AzureFile", "NFS", "HostPath"}

getContainerResourceID(p) == Id(<<"namespaces", p.namespace, "containers", p.name>>)
getNetworkServiceResourceID(s) == Id(<<"namespaces", s.namespace, "services", s.name>>)
getLoadBalancerResourceID(i) == Id(<<"namespaces", i.namespace, "ingresses", i.name>>)

handlePod(p) ==
  Res("Container", getContainerResourceID(p), NoFields,
           [f \in {"network_interface_ids"} |-> {Id(<<p.namespace>>)}], {}, {})

(***************************************************************************)
(* handlePodVolume.  v outlives an iteration of the loop: a volume with an *)
(* unknown source adds the volume before it once more.                     *)
(***************************************************************************)
NextVolume(v, vol) ==
  IF vol.source \in BlockSources THEN <<Plain("BlockStorage", Id(<<vol.name>>), NoFields)>>
  ELSE IF vol.source \in PodFileSources THEN <<Plain("FileStorage", Id(<<vol.name>>), NoFields)>>
  ELSE v

handlePodVolume(p) ==
  FoldLeft(LAMBDA acc, vol : LET v == NextVolume(acc.v, vol)
                             IN [v |-> v, volumes |-> acc.volumes \o v],
           [v |-> <<>>, volumes |-> <<>>], p.volumes).volumes

ComputeList == FoldLeft(LAMBDA acc, p : acc \o <<handlePod(p)>> \o handlePodVolume(p), <<>>, Pods)

handleService(s) == Plain("GenericNetworkService", getNetworkServiceResourceID(s), NoFields)

handleIngress(i) ==
  Res("LoadBalancer", getLoadBalancerResourceID(i), NoFields, NoFields,
           IF i.tls THEN {"TransportEncryption"} ELSE {}, {})

NetworkList ==
  [k \in DOMAIN Services |-> handleService(Services[k])]
    \o [k \in DOMAIN Ingresses |-> handleIngress(Ingresses[k])]

handlePV(pv) ==
  IF pv.source \in BlockSources THEN <<Plain("BlockStorage", Id(<<pv.uid>>), NoFields)>>
  ELSE IF pv.source \in PVFileSources THEN <<Plain("FileStorage", Id(<<pv.uid>>), NoFields)>>
  ELSE <<>>

StorageList == FoldLeft(LAMBDA acc, pv : acc \o handlePV(pv), <<>>, PVs)
=============================================================================
