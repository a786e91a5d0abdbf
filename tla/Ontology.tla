------------------------------ MODULE Ontology ------------------------------
(***************************************************************************)
(* The ontology of api/ontology/ontology.pb.go.  A concrete class is given *)
(* by its resource types, most specific first (the message option that     *)
(* ResourceTypes of ontology.go reads), by its string fields with the      *)
(* suffix _id and by its lists of strings with the suffix _ids.  An        *)
(* abstract class is a message with one oneof; it is given by the names of *)
(* the classes it can hold.  All other fields are left out: nothing below  *)
(* looks at them.                                                          *)
(***************************************************************************)
EXTENDS Sequences, Naturals

Class(types, ids, lists) == [types |-> types, ids |-> ids, lists |-> lists]
-----------------------------------------------------------------------------
(***************************************************************************)
(* The concrete classes that implement IsResource.                         *)
(***************************************************************************)
Account == Class(<<"Account", "CloudResource", "Resource">>, {"parent_id"}, {})
Application == Class(<<"Application", "Resource">>, {"compute_id", "parent_id"}, {})
BlockStorage ==
  Class(<<"BlockStorage", "Storage", "CloudResource", "Resource">>,
        {"parent_id"}, {})
Certificate ==
  Class(<<"Certificate", "Credential", "CloudResource", "Resource">>,
        {"parent_id"}, {})
Container ==
  Class(<<"Container", "Compute", "CloudResource", "Resource">>,
        {"image_id", "parent_id"}, {"network_interface_ids"})
ContainerImage ==
  Class(<<"ContainerImage", "Image", "CloudResource", "Resource">>,
        {"application_id", "parent_id"}, {})
ContainerOrchestration ==
  Class(<<"ContainerOrchestration", "CloudResource", "Resource">>,
        {"parent_id"}, {"container_ids"})
ContainerRegistry ==
  Class(<<"ContainerRegistry", "CloudResource", "Resource">>,
        {"parent_id"}, {})
DatabaseStorage ==
  Class(<<"DatabaseStorage", "Storage", "CloudResource", "Resource">>,
        {"parent_id"}, {})
DeviceProvisioningService ==
  Class(<<"DeviceProvisioningService", "IoT", "CloudResource", "Resource">>,
        {"parent_id"}, {})
Document == Class(<<"Document", "Resource">>, {"parent_id"}, {})
DocumentDatabaseService ==
  Class(<<"DocumentDatabaseService", "DatabaseService", "StorageService",
          "NetworkService", "Networking", "CloudResource", "Resource">>,
        {"compute_id", "parent_id"}, {"storage_ids"})
FileStorage ==
  Class(<<"FileStorage", "Storage", "CloudResource", "Resource">>,
        {"parent_id"}, {})
FileStorageService ==
  Class(<<"FileStorageService", "StorageService", "NetworkService", "Networking",
          "CloudResource", "Resource">>,
        {"compute_id", "parent_id"}, {"storage_ids"})
Function ==
  Class(<<"Function", "Compute", "CloudResource", "Resource">>,
        {"parent_id"}, {"network_interface_ids"})
GenericNetworkService ==
  Class(<<"GenericNetworkService", "NetworkService", "Networking", "CloudResource",
          "Resource">>,
        {"compute_id", "parent_id"}, {})
Identity ==
  Class(<<"Identity", "Identifiable", "CloudResource", "Resource">>,
        {"parent_id"}, {})
Job == Class(<<"Job", "CICDService", "CloudResource", "Resource">>, {"parent_id"}, {})
Key == Class(<<"Key", "Credential", "CloudResource", "Resource">>, {"parent_id"}, {})
KeyValueDatabaseService ==
  Class(<<"KeyValueDatabaseService", "DatabaseService", "StorageService",
          "NetworkService", "Networking", "CloudResource", "Resource">>,
        {"compute_id", "parent_id"}, {"storage_ids"})
KeyVault ==
  Class(<<"KeyVault", "CloudResource", "Resource">>,
        {"parent_id"}, {"credential_ids"})
LoadBalancer ==
  Class(<<"LoadBalancer", "NetworkService", "Networking", "CloudResource", "Resource">>,
        {"compute_id", "parent_id"}, {"network_service_ids"})
LoggingService ==
  Class(<<"LoggingService", "NetworkService", "Networking", "CloudResource", "Resource">>,
        {"compute_id", "parent_id"}, {"storage_ids"})
MessagingHub ==
  Class(<<"MessagingHub", "IoT", "CloudResource", "Resource">>,
        {"parent_id"}, {})
MultiModalDatabaseService ==
  Class(<<"MultiModalDatabaseService", "DatabaseService", "StorageService",
          "NetworkService", "Networking", "CloudResource", "Resource">>,
        {"compute_id", "parent_id"}, {"storage_ids"})
NetworkInterface ==
  Class(<<"NetworkInterface", "Networking", "CloudResource", "Resource">>,
        {"network_service_id", "parent_id"}, {})
NetworkSecurityGroup ==
  Class(<<"NetworkSecurityGroup", "Networking", "CloudResource", "Resource">>,
        {"parent_id"}, {})
ObjectStorage ==
  Class(<<"ObjectStorage", "Storage", "CloudResource", "Resource">>,
        {"parent_id"}, {})
ObjectStorageService ==
  Class(<<"ObjectStorageService", "StorageService", "NetworkService", "Networking",
          "CloudResource", "Resource">>,
        {"compute_id", "parent_id"}, {"storage_ids"})
PasswordPolicy ==
  Class(<<"PasswordPolicy", "CloudResource", "Resource">>,
        {"parent_id"}, {})
RelationalDatabaseService ==
  Class(<<"RelationalDatabaseService", "DatabaseService", "StorageService",
          "NetworkService", "Networking", "CloudResource", "Resource">>,
        {"compute_id", "parent_id"}, {"storage_ids"})
ResourceGroup == Class(<<"ResourceGroup", "CloudResource", "Resource">>, {"parent_id"}, {})
RoleAssignment ==
  Class(<<"RoleAssignment", "Identifiable", "CloudResource", "Resource">>,
        {"parent_id"}, {})
Secret == Class(<<"Secret", "Credential", "CloudResource", "Resource">>, {"parent_id"}, {})
VMImage ==
  Class(<<"VMImage", "Image", "CloudResource", "Resource">>,
        {"application_id", "parent_id"}, {})
VirtualMachine ==
  Class(<<"VirtualMachine", "Compute", "CloudResource", "Resource">>,
        {"parent_id"}, {"block_storage_ids", "network_interface_ids"})
VirtualNetwork ==
  Class(<<"VirtualNetwork", "Networking", "CloudResource", "Resource">>,
        {"parent_id"}, {})
VirtualSubNetwork ==
  Class(<<"VirtualSubNetwork", "Networking", "CloudResource", "Resource">>,
        {"parent_id"}, {})
WebApp ==
  Class(<<"WebApp", "Compute", "CloudResource", "Resource">>,
        {"parent_id"}, {"network_interface_ids"})
Workflow ==
  Class(<<"Workflow", "CICDService", "CloudResource", "Resource">>,
        {"parent_id"}, {})
-----------------------------------------------------------------------------
(***************************************************************************)
(* The concrete classes that describe a property of a resource.            *)
(***************************************************************************)
ABAC == Class(<<"ABAC", "Authorization", "SecurityFeature">>, {}, {})
ActivityLogging ==
  Class(<<"ActivityLogging", "Logging", "Auditing", "SecurityFeature">>,
        {}, {"logging_service_ids"})
AnomalyDetection == Class(<<"AnomalyDetection", "Auditing", "SecurityFeature">>, {}, {})
ApplicationLogging ==
  Class(<<"ApplicationLogging", "Logging", "Auditing", "SecurityFeature">>,
        {}, {"logging_service_ids"})
AutomaticUpdates == Class(<<"AutomaticUpdates", "Integrity", "SecurityFeature">>, {}, {})
Backup == Class(<<"Backup", "Availability", "SecurityFeature">>, {"storage_id"}, {})
BootLogging ==
  Class(<<"BootLogging", "Logging", "Auditing", "SecurityFeature">>,
        {}, {"logging_service_ids"})
CertificateBasedAuthentication ==
  Class(<<"CertificateBasedAuthentication", "Authenticity", "SecurityFeature">>,
        {}, {})
CipherSuite == Class(<<"CipherSuite", "Functionality">>, {}, {})
CloudSDK == Class(<<"CloudSDK", "Framework">>, {}, {})
CustomerKeyEncryption ==
  Class(<<"CustomerKeyEncryption", "AtRestEncryption", "Confidentiality",
          "SecurityFeature">>,
        {}, {})
DDoSProtection == Class(<<"DDoSProtection", "Availability", "SecurityFeature">>, {}, {})
DatabaseConnect ==
  Class(<<"DatabaseConnect", "DatabaseOperation", "Operation", "Functionality">>,
        {"database_storage_id"}, {"database_service_ids"})
DatabaseQuery ==
  Class(<<"DatabaseQuery", "DatabaseOperation", "Operation", "Functionality">>,
        {"database_storage_id"}, {"database_service_ids"})
EncryptionInUse ==
  Class(<<"EncryptionInUse", "Confidentiality", "SecurityFeature">>,
        {}, {})
GeoLocation == Class(<<"GeoLocation", "Availability", "SecurityFeature">>, {}, {})
GeoRedundancy ==
  Class(<<"GeoRedundancy", "Redundancy", "Availability", "SecurityFeature">>,
        {}, {})
HttpClientLibrary == Class(<<"HttpClientLibrary", "Framework">>, {}, {})
HttpEndpoint == Class(<<"HttpEndpoint", "Functionality">>, {}, {})
HttpRequest == Class(<<"HttpRequest", "Operation", "Functionality">>, {}, {})
HttpRequestHandler ==
  Class(<<"HttpRequestHandler", "Functionality">>,
        {"application_id"}, {})
HttpServer == Class(<<"HttpServer", "Framework">>, {}, {})
Immutability == Class(<<"Immutability", "Integrity", "SecurityFeature">>, {}, {})
TokenBasedAuthentication ==
  Class(<<"TokenBasedAuthentication", "Authenticity", "SecurityFeature">>,
        {}, {})
L3Firewall ==
  Class(<<"L3Firewall", "Firewall", "AccessRestriction", "Authorization",
          "SecurityFeature">>,
        {}, {})
LocalRedundancy ==
  Class(<<"LocalRedundancy", "Redundancy", "Availability", "SecurityFeature">>,
        {}, {})
LogOperation == Class(<<"LogOperation", "Operation", "Functionality">>, {}, {})
Logger == Class(<<"Logger", "Framework">>, {}, {})
MalwareProtection == Class(<<"MalwareProtection", "Auditing", "SecurityFeature">>, {}, {})
ManagedKeyEncryption ==
  Class(<<"ManagedKeyEncryption", "AtRestEncryption", "Confidentiality",
          "SecurityFeature">>,
        {}, {})
MultiFactorAuthentiation ==
  Class(<<"MultiFactorAuthentiation", "Authenticity", "SecurityFeature">>,
        {}, {})
NoAuthentication == Class(<<"NoAuthentication", "Authenticity", "SecurityFeature">>, {}, {})
OSLogging ==
  Class(<<"OSLogging", "Logging", "Auditing", "SecurityFeature">>,
        {}, {"logging_service_ids"})
OTPBasedAuthentication ==
  Class(<<"OTPBasedAuthentication", "Authenticity", "SecurityFeature">>,
        {}, {})
ObjectStorageRequest ==
  Class(<<"ObjectStorageRequest", "Operation", "Functionality">>,
        {}, {"object_storage_ids"})
PasswordBasedAuthentication ==
  Class(<<"PasswordBasedAuthentication", "Authenticity", "SecurityFeature">>,
        {}, {})
RBAC == Class(<<"RBAC", "Authorization", "SecurityFeature">>, {}, {})
ResourceLogging ==
  Class(<<"ResourceLogging", "Logging", "Auditing", "SecurityFeature">>,
        {}, {"logging_service_ids"})
SingleSignOn == Class(<<"SingleSignOn", "Authenticity", "SecurityFeature">>, {}, {})
TransportEncryption ==
  Class(<<"TransportEncryption", "Confidentiality", "SecurityFeature">>,
        {}, {})
UsageStatistics == Class(<<"UsageStatistics", "Auditing", "SecurityFeature">>, {}, {})
WebApplicationFirewall ==
  Class(<<"WebApplicationFirewall", "Firewall", "AccessRestriction", "Authorization",
          "SecurityFeature">>,
        {}, {})
ZoneRedundancy ==
  Class(<<"ZoneRedundancy", "Redundancy", "Availability", "SecurityFeature">>,
        {}, {})
-----------------------------------------------------------------------------
(***************************************************************************)
(* The abstract classes.                                                   *)
(***************************************************************************)
AccessRestriction ==
  {"L3Firewall", "WebApplicationFirewall"}
AtRestEncryption ==
  {"CustomerKeyEncryption", "ManagedKeyEncryption"}
Auditing ==
  {"AnomalyDetection", "ActivityLogging", "ApplicationLogging", "BootLogging",
   "OSLogging", "ResourceLogging", "MalwareProtection", "UsageStatistics"}
Authenticity ==
  {"CertificateBasedAuthentication", "TokenBasedAuthentication",
   "MultiFactorAuthentiation", "NoAuthentication", "OTPBasedAuthentication",
   "PasswordBasedAuthentication", "SingleSignOn"}
Authorization ==
  {"ABAC", "L3Firewall", "WebApplicationFirewall", "RBAC"}
Availability ==
  {"Backup", "DDoSProtection", "GeoLocation", "GeoRedundancy", "LocalRedundancy",
   "ZoneRedundancy"}
Resource ==
  {"Application", "Account", "Job", "Workflow", "Container", "Function",
   "VirtualMachine", "WebApp", "ContainerOrchestration", "ContainerRegistry",
   "Certificate", "Key", "Secret", "Identity", "RoleAssignment", "ContainerImage",
   "VMImage", "DeviceProvisioningService", "MessagingHub", "KeyVault",
   "NetworkInterface", "NetworkSecurityGroup", "GenericNetworkService", "LoadBalancer",
   "LoggingService", "DocumentDatabaseService", "KeyValueDatabaseService",
   "MultiModalDatabaseService", "RelationalDatabaseService", "FileStorageService",
   "ObjectStorageService", "VirtualNetwork", "VirtualSubNetwork", "PasswordPolicy",
   "ResourceGroup", "BlockStorage", "DatabaseStorage", "FileStorage", "ObjectStorage",
   "Document"}
CICDService ==
  {"Job", "Workflow"}
CloudResource ==
  {"Account", "Job", "Workflow", "Container", "Function", "VirtualMachine", "WebApp",
   "ContainerOrchestration", "ContainerRegistry", "Certificate", "Key", "Secret",
   "Identity", "RoleAssignment", "ContainerImage", "VMImage",
   "DeviceProvisioningService", "MessagingHub", "KeyVault", "NetworkInterface",
   "NetworkSecurityGroup", "GenericNetworkService", "LoadBalancer", "LoggingService",
   "DocumentDatabaseService", "KeyValueDatabaseService", "MultiModalDatabaseService",
   "RelationalDatabaseService", "FileStorageService", "ObjectStorageService",
   "VirtualNetwork", "VirtualSubNetwork", "PasswordPolicy", "ResourceGroup",
   "BlockStorage", "DatabaseStorage", "FileStorage", "ObjectStorage"}
Compute ==
  {"Container", "Function", "VirtualMachine", "WebApp"}
Confidentiality ==
  {"CustomerKeyEncryption", "ManagedKeyEncryption", "EncryptionInUse",
   "TransportEncryption"}
Credential ==
  {"Certificate", "Key", "Secret"}
DatabaseOperation ==
  {"DatabaseConnect", "DatabaseQuery"}
DatabaseService ==
  {"DocumentDatabaseService", "KeyValueDatabaseService", "MultiModalDatabaseService",
   "RelationalDatabaseService"}
Firewall ==
  {"L3Firewall", "WebApplicationFirewall"}
Framework ==
  {"CloudSDK", "HttpClientLibrary", "HttpServer", "Logger"}
Functionality ==
  {"CipherSuite", "HttpEndpoint", "HttpRequestHandler", "DatabaseConnect",
   "DatabaseQuery", "HttpRequest", "LogOperation", "ObjectStorageRequest"}
Identifiable ==
  {"Identity", "RoleAssignment"}
Image ==
  {"ContainerImage", "VMImage"}
Integrity ==
  {"AutomaticUpdates", "Immutability"}
IoT ==
  {"DeviceProvisioningService", "MessagingHub"}
Logging ==
  {"ActivityLogging", "ApplicationLogging", "BootLogging", "OSLogging",
   "ResourceLogging"}
NetworkService ==
  {"GenericNetworkService", "LoadBalancer", "LoggingService",
   "DocumentDatabaseService", "KeyValueDatabaseService", "MultiModalDatabaseService",
   "RelationalDatabaseService", "FileStorageService", "ObjectStorageService"}
Networking ==
  {"NetworkInterface", "NetworkSecurityGroup", "GenericNetworkService", "LoadBalancer",
   "LoggingService", "DocumentDatabaseService", "KeyValueDatabaseService",
   "MultiModalDatabaseService", "RelationalDatabaseService", "FileStorageService",
   "ObjectStorageService", "VirtualNetwork", "VirtualSubNetwork"}
Operation ==
  {"DatabaseConnect", "DatabaseQuery", "HttpRequest", "LogOperation",
   "ObjectStorageRequest"}
Redundancy ==
  {"GeoRedundancy", "LocalRedundancy", "ZoneRedundancy"}
SecurityFeature ==
  {"AnomalyDetection", "ActivityLogging", "ApplicationLogging", "BootLogging",
   "OSLogging", "ResourceLogging", "MalwareProtection", "UsageStatistics",
   "CertificateBasedAuthentication", "TokenBasedAuthentication",
   "MultiFactorAuthentiation", "NoAuthentication", "OTPBasedAuthentication",
   "PasswordBasedAuthentication", "SingleSignOn", "ABAC", "L3Firewall",
   "WebApplicationFirewall", "RBAC", "Backup", "DDoSProtection", "GeoLocation",
   "GeoRedundancy", "LocalRedundancy", "ZoneRedundancy", "CustomerKeyEncryption",
   "ManagedKeyEncryption", "EncryptionInUse", "TransportEncryption",
   "AutomaticUpdates", "Immutability"}
Storage ==
  {"BlockStorage", "DatabaseStorage", "FileStorage", "ObjectStorage"}
StorageService ==
  {"DocumentDatabaseService", "KeyValueDatabaseService", "MultiModalDatabaseService",
   "RelationalDatabaseService", "FileStorageService", "ObjectStorageService"}
-----------------------------------------------------------------------------
(***************************************************************************)
(* The classes by name.                                                    *)
(***************************************************************************)
ResourceClasses ==
  [Account |-> Account, Application |-> Application, BlockStorage |-> BlockStorage,
   Certificate |-> Certificate, Container |-> Container,
   ContainerImage |-> ContainerImage,
   ContainerOrchestration |-> ContainerOrchestration,
   ContainerRegistry |-> ContainerRegistry, DatabaseStorage |-> DatabaseStorage,
   DeviceProvisioningService |-> DeviceProvisioningService, Document |-> Document,
   DocumentDatabaseService |-> DocumentDatabaseService, FileStorage |-> FileStorage,
   FileStorageService |-> FileStorageService, Function |-> Function,
   GenericNetworkService |-> GenericNetworkService, Identity |-> Identity, Job |-> Job,
   Key |-> Key, KeyValueDatabaseService |-> KeyValueDatabaseService,
   KeyVault |-> KeyVault, LoadBalancer |-> LoadBalancer,
   LoggingService |-> LoggingService, MessagingHub |-> MessagingHub,
   MultiModalDatabaseService |-> MultiModalDatabaseService,
   NetworkInterface |-> NetworkInterface,
   NetworkSecurityGroup |-> NetworkSecurityGroup, ObjectStorage |-> ObjectStorage,
   ObjectStorageService |-> ObjectStorageService, PasswordPolicy |-> PasswordPolicy,
   RelationalDatabaseService |-> RelationalDatabaseService,
   ResourceGroup |-> ResourceGroup, RoleAssignment |-> RoleAssignment,
   Secret |-> Secret, VMImage |-> VMImage, VirtualMachine |-> VirtualMachine,
   VirtualNetwork |-> VirtualNetwork, VirtualSubNetwork |-> VirtualSubNetwork,
   WebApp |-> WebApp, Workflow |-> Workflow]
PropertyClasses ==
  [ABAC |-> ABAC, ActivityLogging |-> ActivityLogging,
   AnomalyDetection |-> AnomalyDetection, ApplicationLogging |-> ApplicationLogging,
   AutomaticUpdates |-> AutomaticUpdates, Backup |-> Backup,
   BootLogging |-> BootLogging,
   CertificateBasedAuthentication |-> CertificateBasedAuthentication,
   CipherSuite |-> CipherSuite, CloudSDK |-> CloudSDK,
   CustomerKeyEncryption |-> CustomerKeyEncryption, DDoSProtection |-> DDoSProtection,
   DatabaseConnect |-> DatabaseConnect, DatabaseQuery |-> DatabaseQuery,
   EncryptionInUse |-> EncryptionInUse, GeoLocation |-> GeoLocation,
   GeoRedundancy |-> GeoRedundancy, HttpClientLibrary |-> HttpClientLibrary,
   HttpEndpoint |-> HttpEndpoint, HttpRequest |-> HttpRequest,
   HttpRequestHandler |-> HttpRequestHandler, HttpServer |-> HttpServer,
   Immutability |-> Immutability,
   TokenBasedAuthentication |-> TokenBasedAuthentication, L3Firewall |-> L3Firewall,
   LocalRedundancy |-> LocalRedundancy, LogOperation |-> LogOperation,
   Logger |-> Logger, MalwareProtection |-> MalwareProtection,
   ManagedKeyEncryption |-> ManagedKeyEncryption,
   MultiFactorAuthentiation |-> MultiFactorAuthentiation,
   NoAuthentication |-> NoAuthentication, OSLogging |-> OSLogging,
   OTPBasedAuthentication |-> OTPBasedAuthentication,
   ObjectStorageRequest |-> ObjectStorageRequest,
   PasswordBasedAuthentication |-> PasswordBasedAuthentication, RBAC |-> RBAC,
   ResourceLogging |-> ResourceLogging, SingleSignOn |-> SingleSignOn,
   TransportEncryption |-> TransportEncryption, UsageStatistics |-> UsageStatistics,
   WebApplicationFirewall |-> WebApplicationFirewall, ZoneRedundancy |-> ZoneRedundancy]
AbstractClasses ==
  [AccessRestriction |-> AccessRestriction, AtRestEncryption |-> AtRestEncryption,
   Auditing |-> Auditing, Authenticity |-> Authenticity,
   Authorization |-> Authorization, Availability |-> Availability,
   Resource |-> Resource, CICDService |-> CICDService, CloudResource |-> CloudResource,
   Compute |-> Compute, Confidentiality |-> Confidentiality, Credential |-> Credential,
   DatabaseOperation |-> DatabaseOperation, DatabaseService |-> DatabaseService,
   Firewall |-> Firewall, Framework |-> Framework, Functionality |-> Functionality,
   Identifiable |-> Identifiable, Image |-> Image, Integrity |-> Integrity,
   IoT |-> IoT, Logging |-> Logging, NetworkService |-> NetworkService,
   Networking |-> Networking, Operation |-> Operation, Redundancy |-> Redundancy,
   SecurityFeature |-> SecurityFeature, Storage |-> Storage,
   StorageService |-> StorageService]

ResourceKinds == DOMAIN ResourceClasses

ResourceTypes(k) ==
  IF k \in ResourceKinds THEN ResourceClasses[k].types ELSE PropertyClasses[k].types

HasType(k, T) == \E i \in DOMAIN ResourceTypes(k) : ResourceTypes(k)[i] = T

(***************************************************************************)
(* Related: the relationships of a resource r, whose fields r.val are a    *)
(* function from the names of the fields that are set to their values.     *)
(* The suffix _id is cut off; a field with the suffix _ids does not have   *)
(* it, so the branch of the code for lists is never taken.                 *)
(***************************************************************************)
Related(r) ==
  {[property |-> f, value |-> r.val[f]] : f \in ResourceClasses[r.kind].ids \cap DOMAIN r.val}
=============================================================================
