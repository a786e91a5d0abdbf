------------------------------- MODULE Routes -------------------------------
(***************************************************************************)
(* The REST routes of the services, as the generated gateways              *)
(* (api/*/*.pb.gw.go) register them: verb, path, the fields of the request *)
(* message that the parameters of the path fill, in order, the field that  *)
(* the body is decoded into, and whether query parameters fill the rest.   *)
(* A field of an embedded message is a path of names.                      *)
(***************************************************************************)
EXTENDS Sequences

Param == "{}"        \* a parameter of a path
Whole == "*"         \* the body is the message itself
Nothing == "none"    \* there is no body

Route(rpc, verb, path, params, body, query) ==
  [rpc |-> rpc, verb |-> verb, path |-> path, params |-> params, body |-> body, query |-> query]

V1(service, rest) == <<"v1", service>> \o rest

-----------------------------------------------------------------------------
\* api/discovery/discovery.pb.gw.go
Start == Route("Start", "POST", V1("discovery", <<"start">>), <<>>, Whole, FALSE)
ListResources ==
  Route("ListResources", "GET", V1("discovery", <<"resources">>), <<>>, Nothing, TRUE)

RegisterDiscoveryHandlerClient ==
  <<Start, ListResources>>

-----------------------------------------------------------------------------
\* api/discovery/experimental.pb.gw.go
UpdateResource ==
  Route("UpdateResource", "POST", <<"v1experimental", "discovery", "resources", Param>>,
        <<<<"resource", "id">>>>, Whole, FALSE)
ListGraphEdges ==
  Route("ListGraphEdges", "GET", <<"v1experimental", "discovery", "graph", "edges">>,
        <<>>, Nothing, TRUE)

RegisterExperimentalDiscoveryHandlerClient ==
  <<UpdateResource, ListGraphEdges>>

-----------------------------------------------------------------------------
\* api/assessment/assessment.pb.gw.go
AssessEvidence ==
  Route("AssessEvidence", "POST", V1("assessment", <<"evidences">>), <<>>, "evidence", FALSE)

RegisterAssessmentHandlerClient ==
  <<AssessEvidence>>

-----------------------------------------------------------------------------
\* api/orchestrator/orchestrator.pb.gw.go
RegisterAssessmentTool ==
  Route("RegisterAssessmentTool", "POST", V1("orchestrator", <<"assessment_tools">>),
        <<>>, "tool", FALSE)
ListAssessmentTools ==
  Route("ListAssessmentTools", "GET", V1("orchestrator", <<"assessment_tools">>),
        <<>>, Nothing, TRUE)
GetAssessmentTool ==
  Route("GetAssessmentTool", "GET", V1("orchestrator", <<"assessment_tools", Param>>),
        <<<<"tool_id">>>>, Nothing, FALSE)
UpdateAssessmentTool ==
  Route("UpdateAssessmentTool", "PUT", V1("orchestrator", <<"assessment_tools", Param>>),
        <<<<"tool", "id">>>>, "tool", FALSE)
DeregisterAssessmentTool ==
  Route("DeregisterAssessmentTool", "DELETE", V1("orchestrator", <<"assessment_tools", Param>>),
        <<<<"tool_id">>>>, Nothing, FALSE)
StoreAssessmentResult ==
  Route("StoreAssessmentResult", "POST", V1("orchestrator", <<"assessment_results">>),
        <<>>, "result", FALSE)
GetAssessmentResult ==
  Route("GetAssessmentResult", "GET", V1("orchestrator", <<"assessment_results", Param>>),
        <<<<"id">>>>, Nothing, FALSE)
ListAssessmentResults ==
  Route("ListAssessmentResults", "GET", V1("orchestrator", <<"assessment_results">>),
        <<>>, Nothing, TRUE)
CreateMetric ==
  Route("CreateMetric", "POST", V1("orchestrator", <<"metrics">>), <<>>, "metric", FALSE)
UpdateMetric ==
  Route("UpdateMetric", "PUT", V1("orchestrator", <<"metrics", Param>>),
        <<<<"metric", "id">>>>, "metric", FALSE)
GetMetric ==
  Route("GetMetric", "GET", V1("orchestrator", <<"metrics", Param>>),
        <<<<"metric_id">>>>, Nothing, FALSE)
ListMetrics == Route("ListMetrics", "GET", V1("orchestrator", <<"metrics">>), <<>>, Nothing, TRUE)
RemoveMetric ==
  Route("RemoveMetric", "DELETE", V1("orchestrator", <<"metrics", Param>>),
        <<<<"metric_id">>>>, Nothing, FALSE)
RegisterCloudService ==
  Route("RegisterCloudService", "POST", V1("orchestrator", <<"cloud_services">>),
        <<>>, "cloud_service", FALSE)
UpdateCloudService ==
  Route("UpdateCloudService", "PUT", V1("orchestrator", <<"cloud_services", Param>>),
        <<<<"cloud_service", "id">>>>, "cloud_service", FALSE)
GetCloudService ==
  Route("GetCloudService", "GET", V1("orchestrator", <<"cloud_services", Param>>),
        <<<<"cloud_service_id">>>>, Nothing, FALSE)
ListCloudServices ==
  Route("ListCloudServices", "GET", V1("orchestrator", <<"cloud_services">>), <<>>, Nothing, TRUE)
RemoveCloudService ==
  Route("RemoveCloudService", "DELETE", V1("orchestrator", <<"cloud_services", Param>>),
        <<<<"cloud_service_id">>>>, Nothing, FALSE)
GetCloudServiceStatistics ==
  Route("GetCloudServiceStatistics", "GET", V1("orchestrator", <<"cloud_services", "statistics">>),
        <<>>, Nothing, TRUE)
UpdateMetricConfiguration ==
  Route("UpdateMetricConfiguration", "PUT", V1("orchestrator", <<"cloud_services", Param, "metric_configurations", Param>>),
        <<<<"cloud_service_id">>, <<"metric_id">>>>, "configuration", FALSE)
GetMetricConfiguration ==
  Route("GetMetricConfiguration", "GET", V1("orchestrator", <<"cloud_services", Param, "metric_configurations", Param>>),
        <<<<"cloud_service_id">>, <<"metric_id">>>>, Nothing, FALSE)
ListMetricConfigurations ==
  Route("ListMetricConfigurations", "GET", V1("orchestrator", <<"cloud_services", Param, "metric_configurations">>),
        <<<<"cloud_service_id">>>>, Nothing, FALSE)
UpdateMetricImplementation ==
  Route("UpdateMetricImplementation", "PUT", V1("orchestrator", <<"metrics", Param, "implementation">>),
        <<<<"implementation", "metric_id">>>>, "implementation", FALSE)
GetMetricImplementation ==
  Route("GetMetricImplementation", "GET", V1("orchestrator", <<"metrics", Param, "implementation">>),
        <<<<"metric_id">>>>, Nothing, FALSE)
CreateCertificate ==
  Route("CreateCertificate", "POST", V1("orchestrator", <<"certificates">>),
        <<>>, "certificate", FALSE)
GetCertificate ==
  Route("GetCertificate", "GET", V1("orchestrator", <<"certificates", Param>>),
        <<<<"certificate_id">>>>, Nothing, FALSE)
ListCertificates ==
  Route("ListCertificates", "GET", V1("orchestrator", <<"certificates">>), <<>>, Nothing, TRUE)
ListPublicCertificates ==
  Route("ListPublicCertificates", "GET", V1("orchestrator", <<"public", "certificates">>),
        <<>>, Nothing, TRUE)
UpdateCertificate ==
  Route("UpdateCertificate", "PUT", V1("orchestrator", <<"certificates", Param>>),
        <<<<"certificate", "id">>>>, "certificate", FALSE)
RemoveCertificate ==
  Route("RemoveCertificate", "DELETE", V1("orchestrator", <<"certificates", Param>>),
        <<<<"certificate_id">>>>, Nothing, FALSE)
CreateCatalog ==
  Route("CreateCatalog", "POST", V1("orchestrator", <<"catalogs">>), <<>>, "catalog", FALSE)
ListCatalogs ==
  Route("ListCatalogs", "GET", V1("orchestrator", <<"catalogs">>), <<>>, Nothing, TRUE)
GetCatalog ==
  Route("GetCatalog", "GET", V1("orchestrator", <<"catalogs", Param>>),
        <<<<"catalog_id">>>>, Nothing, FALSE)
RemoveCatalog ==
  Route("RemoveCatalog", "DELETE", V1("orchestrator", <<"catalogs", Param>>),
        <<<<"catalog_id">>>>, Nothing, FALSE)
UpdateCatalog ==
  Route("UpdateCatalog", "PUT", V1("orchestrator", <<"catalogs", Param>>),
        <<<<"catalog", "id">>>>, "catalog", FALSE)
GetCategory ==
  Route("GetCategory", "GET", V1("orchestrator", <<"catalogs", Param, "category", Param>>),
        <<<<"catalog_id">>, <<"category_name">>>>, Nothing, FALSE)
ListControls ==
  Route("ListControls", "GET", V1("orchestrator", <<"controls">>), <<>>, Nothing, TRUE)
ListControls_1 ==
  Route("ListControls", "GET", V1("orchestrator", <<"catalogs", Param, "categories", Param, "controls">>),
        <<<<"catalog_id">>, <<"category_name">>>>, Nothing, TRUE)
GetControl ==
  Route("GetControl", "GET", V1("orchestrator", <<"catalogs", Param, "categories", Param, "controls", Param>>),
        <<<<"catalog_id">>, <<"category_name">>, <<"control_id">>>>, Nothing, FALSE)
CreateTargetOfEvaluation ==
  Route("CreateTargetOfEvaluation", "POST", V1("orchestrator", <<"toes">>),
        <<>>, "target_of_evaluation", FALSE)
GetTargetOfEvaluation ==
  Route("GetTargetOfEvaluation", "GET", V1("orchestrator", <<"cloud_services", Param, "toes", Param>>),
        <<<<"cloud_service_id">>, <<"catalog_id">>>>, Nothing, FALSE)
ListTargetsOfEvaluation ==
  Route("ListTargetsOfEvaluation", "GET", V1("orchestrator", <<"toes">>), <<>>, Nothing, TRUE)
ListTargetsOfEvaluation_1 ==
  Route("ListTargetsOfEvaluation", "GET", V1("orchestrator", <<"cloud_services", Param, "toes">>),
        <<<<"cloud_service_id">>>>, Nothing, TRUE)
ListTargetsOfEvaluation_2 ==
  Route("ListTargetsOfEvaluation", "GET", V1("orchestrator", <<"catalogs", Param, "toes">>),
        <<<<"catalog_id">>>>, Nothing, TRUE)
UpdateTargetOfEvaluation ==
  Route("UpdateTargetOfEvaluation", "PUT", V1("orchestrator", <<"cloud_services", Param, "toes", Param>>),
        <<<<"target_of_evaluation", "cloud_service_id">>, <<"target_of_evaluation", "catalog_id">>>>, "target_of_evaluation", FALSE)
RemoveTargetOfEvaluation ==
  Route("RemoveTargetOfEvaluation", "DELETE", V1("orchestrator", <<"cloud_services", Param, "toes", Param>>),
        <<<<"cloud_service_id">>, <<"catalog_id">>>>, Nothing, FALSE)
GetRuntimeInfo ==
  Route("GetRuntimeInfo", "GET", V1("orchestrator", <<"runtime_info">>), <<>>, Nothing, FALSE)

RegisterOrchestratorHandlerClient ==
  <<RegisterAssessmentTool, ListAssessmentTools, GetAssessmentTool, UpdateAssessmentTool,
    DeregisterAssessmentTool, StoreAssessmentResult, GetAssessmentResult,
    ListAssessmentResults, CreateMetric, UpdateMetric, GetMetric, ListMetrics,
    RemoveMetric, RegisterCloudService, UpdateCloudService, GetCloudService,
    ListCloudServices, RemoveCloudService, GetCloudServiceStatistics,
    UpdateMetricConfiguration, GetMetricConfiguration, ListMetricConfigurations,
    UpdateMetricImplementation, GetMetricImplementation, CreateCertificate, GetCertificate,
    ListCertificates, ListPublicCertificates, UpdateCertificate, RemoveCertificate,
    CreateCatalog, ListCatalogs, GetCatalog, RemoveCatalog, UpdateCatalog, GetCategory,
    ListControls, ListControls_1, GetControl, CreateTargetOfEvaluation,
    GetTargetOfEvaluation, ListTargetsOfEvaluation, ListTargetsOfEvaluation_1,
    ListTargetsOfEvaluation_2, UpdateTargetOfEvaluation, RemoveTargetOfEvaluation,
    GetRuntimeInfo>>

-----------------------------------------------------------------------------
\* api/evaluation/evaluation.pb.gw.go
StartEvaluation ==
  Route("StartEvaluation", "POST", V1("evaluation", <<"evaluate", Param, Param, "start">>),
        <<<<"cloud_service_id">>, <<"catalog_id">>>>, Nothing, TRUE)
StopEvaluation ==
  Route("StopEvaluation", "POST", V1("evaluation", <<"evaluate", Param, Param, "stop">>),
        <<<<"cloud_service_id">>, <<"catalog_id">>>>, Nothing, FALSE)
ListEvaluationResults ==
  Route("ListEvaluationResults", "GET", V1("evaluation", <<"results">>), <<>>, Nothing, TRUE)
CreateEvaluationResult ==
  Route("CreateEvaluationResult", "POST", V1("evaluation", <<"results">>), <<>>, "result", FALSE)

RegisterEvaluationHandlerClient ==
  <<StartEvaluation, StopEvaluation, ListEvaluationResults, CreateEvaluationResult>>

-----------------------------------------------------------------------------
\* api/evidence/evidence_store.pb.gw.go
StoreEvidence ==
  Route("StoreEvidence", "POST", V1("evidence_store", <<"evidence">>), <<>>, "evidence", FALSE)
ListEvidences ==
  Route("ListEvidences", "GET", V1("evidence_store", <<"evidences">>), <<>>, Nothing, TRUE)
GetEvidence ==
  Route("GetEvidence", "GET", V1("evidence_store", <<"evidences", Param>>),
        <<<<"evidence_id">>>>, Nothing, FALSE)

RegisterEvidenceStoreHandlerClient ==
  <<StoreEvidence, ListEvidences, GetEvidence>>

=============================================================================
