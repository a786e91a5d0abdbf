-------------------------------- MODULE Aws ---------------------------------
(***************************************************************************)
(* The AWS discoverers (service/discovery/aws): the buckets of S3, and the *)
(* volumes, interfaces, instances and functions of EC2 and Lambda.         *)
(***************************************************************************)
EXTENDS Resources, SequencesExt

CONSTANTS
  Region,     \* the region of the configuration
  Buckets,    \* the buckets [name, region, encryption], a sequence
  Volumes,    \* the volumes [id, encrypted]
  Nics,       \* the names of the network interfaces
  Vms,        \* the instances [id, volumes, nics]
  Lambdas     \* the functions: a sequence of pages of their ARNs

arnify(typ, id) == Id(<<"arn", typ, id>>)

\* only the buckets of the configured region
getBuckets == SelectSeq(Buckets, LAMBDA b : b.region = Region)

getEncryptionAtRest(b) ==
  [none |-> {}, aes |-> {"ManagedKeyEncryption"}, kms |-> {"CustomerKeyEncryption"}][b.encryption]

\* always enabled; whether the policy of the bucket enforces it is left out
getTransportEncryption == {"TransportEncryption"}

\* two resources for one bucket, with the same identifier
BucketResources(b) ==
  <<Res("ObjectStorage", Id(<<"arn", "s3", b.name>>), NoFields, NoFields, getEncryptionAtRest(b), {}),
    Res("ObjectStorageService", Id(<<"arn", "s3", b.name>>), NoFields, NoFields,
             getTransportEncryption, {})>>

StorageList == FoldLeft(LAMBDA acc, b : acc \o BucketResources(b), <<>>, getBuckets)

discoverVolumes ==
  [k \in DOMAIN Volumes |->
     Res("BlockStorage", arnify("volume", Volumes[k].id), NoFields, NoFields,
              IF Volumes[k].encrypted THEN {"ManagedKeyEncryption"} ELSE {}, {})]

discoverNetworkInterfaces ==
  [k \in DOMAIN Nics |-> Plain("NetworkInterface", arnify("network-interface", Nics[k]), NoFields)]

mapBlockStorageIDsOfVM(vm) == {arnify("volume", v) : v \in vm.volumes}

getNetworkInterfacesOfVM(vm) == {arnify("network-interface", n) : n \in vm.nics}

discoverVirtualMachines ==
  [k \in DOMAIN Vms |->
     Res("VirtualMachine", arnify("instance", Vms[k].id), NoFields,
              [f \in {"network_interface_ids", "block_storage_ids"} |->
                 IF f = "block_storage_ids" THEN mapBlockStorageIDsOfVM(Vms[k])
                 ELSE getNetworkInterfacesOfVM(Vms[k])],
              {}, {})]

mapFunctionResources(page) ==
  [k \in DOMAIN page |-> Plain("Function", Id(<<page[k]>>), NoFields)]

\* mutant: only the first page of functions is asked for.
FirstPage == IF Lambdas = <<>> THEN <<>> ELSE mapFunctionResources(Lambdas[1])

\* one page after the other, until there is no further marker
discoverFunctions == FoldLeft(LAMBDA acc, page : acc \o mapFunctionResources(page), <<>>, Lambdas)

ComputeList ==
  discoverVolumes \o discoverNetworkInterfaces \o discoverVirtualMachines \o discoverFunctions
=============================================================================
