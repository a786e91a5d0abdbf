------------------------------- MODULE Gateway -------------------------------
(***************************************************************************)
(* How the REST gateway (server/rest/rest.go and the generated             *)
(* api/*/*.pb.gw.go) turns an HTTP request into a call: RunServer registers *)
(* the routes of the services, the mux of the library finds the handler,   *)
(* and the handler fills the request message from the body, the path and   *)
(* the query.  A value is named for where the client put it.               *)
(***************************************************************************)
EXTENDS Routes, Naturals, Functions

(***************************************************************************)
(* The order in which RunServer registers the services.                    *)
(***************************************************************************)
Registered ==
  RegisterDiscoveryHandlerClient \o RegisterExperimentalDiscoveryHandlerClient
    \o RegisterAssessmentHandlerClient \o RegisterOrchestratorHandlerClient
    \o RegisterEvaluationHandlerClient \o RegisterEvidenceStoreHandlerClient

PathValues == <<"path1", "path2", "path3">>

\* the field of the message that the query or the body sets besides the others
OtherField == <<"other">>

(***************************************************************************)
(* A client that means a route: every parameter of its path has a value,   *)
(* which is an identifier and never a fixed part of a path, and the client *)
(* may set the same fields, and others, in a body and in a query.          *)
(***************************************************************************)
ParamsBefore(route, i) == Len(SelectSeq(SubSeq(route.path, 1, i), LAMBDA seg : seg = Param))

PathOf(route) ==
  [i \in DOMAIN route.path |->
     IF route.path[i] = Param THEN PathValues[ParamsBefore(route, i)] ELSE route.path[i]]

Requests ==
  {[meant |-> route, body |-> body, query |-> query] :
     route \in Range(Registered), body \in BOOLEAN, query \in BOOLEAN}

(***************************************************************************)
(* The mux tries the handlers of a verb from the one registered last to    *)
(* the one registered first.                                               *)
(***************************************************************************)
Matches(route, verb, path) ==
  /\ route.verb = verb
  /\ Len(route.path) = Len(path)
  /\ \A i \in DOMAIN path : route.path[i] \in {Param, path[i]}

HandlersOf(verb, path) == SelectSeq(Registered, LAMBDA route : Matches(route, verb, path))

Handler(verb, path) == HandlersOf(verb, path)[Len(HandlersOf(verb, path))]

(***************************************************************************)
(* The generated handler decodes the body into the message or one of its   *)
(* fields, then sets the fields of the path, then adds the parameters of   *)
(* the query that the filter of the route does not exclude.                *)
(***************************************************************************)
BodyCovers(route, field) == route.body = Whole \/ route.body = Head(field)

Fields(route) ==
  Range(route.params) \cup {OtherField} \cup {<<route.body>> \o OtherField}

FromBody(route, req) ==
  [f \in Fields(route) |-> IF req.body /\ BodyCovers(route, f) THEN "body" ELSE "zero"]

FromPath(route, msg) ==
  [f \in DOMAIN msg |->
     IF f \in Range(route.params) THEN PathValues[CHOOSE i \in DOMAIN route.params : route.params[i] = f]
                                  ELSE msg[f]]

\* mutant: the query also sets what the path has set
FromQueryUnfiltered(route, req, msg) ==
  [f \in DOMAIN msg |-> IF route.query /\ req.query THEN "query" ELSE msg[f]]
FromQuery(route, req, msg) ==
  [f \in DOMAIN msg |->
     IF route.query /\ req.query /\ f \notin Range(route.params) THEN "query" ELSE msg[f]]

Decode(route, req) == FromQuery(route, req, FromPath(route, FromBody(route, req)))
=============================================================================
