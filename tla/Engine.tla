------------------------------- MODULE Engine -------------------------------
(***************************************************************************)
(* The engine process: services that call each other through an            *)
(* RPCConnection (Connection) with tokens of the embedded OAuth server,    *)
(* the authentication of every call (Authentication) with keys of the same *)
(* server, the REST gateway (Gateway) whose requests become calls, and the *)
(* start and the end of the process (Server).                              *)
(*                                                                         *)
(* The REST server is thus needed by the calls that it makes itself: a     *)
(* request waits for a call, which waits for the key set, which the REST   *)
(* server serves.                                                          *)
(***************************************************************************)
EXTENDS Gateway, Connection, Authentication, Server

CONSTANTS Rest,          \* the requester of the REST gateway
          PublicEndpoints, \* methods that are called without a token
          Busy,          \* requests made at any time (bound)
          MaxFaults      \* bound on the faults of the network

VARIABLES token,         \* the callers' authorizer holds a token
          request,       \* the REST request on its way: meant and called
          faults

vars == <<connVars, authVars, serverVars, token, request, faults>>

NoRequest == [pc |-> "idle"]

TypeOK ==
  /\ ConnTypeOK /\ AuthTypeOK /\ ServerTypeOK
  /\ token \in BOOLEAN
  /\ request.pc \in {"idle", "forwarded", "called"}
  /\ faults \in 0..MaxFaults
  /\ \A c \in Callers : apc[c] # "idle" => cpc[c] = "sent"
  /\ apc[Rest] # "idle" <=> request.pc = "called"

Init ==
  /\ ConnInit /\ AuthInit /\ ServerInit
  /\ token = FALSE
  /\ request = NoRequest
  /\ faults = 0

Panicked == (\E c \in Callers : cpc[c] = "panic") \/ (\E r \in Requesters : apc[r] = "panic")
Alive == engine # "exited" /\ ~Panicked
Fault == faults < MaxFaults /\ faults' = faults + 1

\* when every request is made: nothing else has happened yet (bound)
Quiet == calls = 0 /\ faults = 0 /\ ~interrupted /\ ~jwks /\ ~dialable

-----------------------------------------------------------------------------
(***************************************************************************)
(* A service makes a call.  The services exist before the servers do.  No  *)
(* more than two of the calls and the request are under way (bound).       *)
(***************************************************************************)
ServiceCalls(c) ==
  /\ engine # "storage"
  /\ request.pc = "idle" \/ \A d \in Callers : cpc[d] = "idle"
  /\ Invoke(c)
  /\ UNCHANGED <<authVars, serverVars, token, request, faults>>

ServiceConnects(c) ==
  /\ InitCheck(c) \/ InitDial(c) \/ Use(c) \/ ForceReconnect(c)
  /\ UNCHANGED <<authVars, serverVars, token, request, faults>>

(***************************************************************************)
(* GetRequestMetadata: the token is fetched once and kept; without one     *)
(* the call fails before it is sent.                                       *)
(***************************************************************************)
GetRequestMetadata(c) ==
  /\ cpc[c] = "sent" /\ apc[c] = "idle" /\ ~token
  /\ \/ restServes /\ token' = TRUE /\ UNCHANGED <<connVars, faults>>
     \/ restDown /\ Return(c) /\ UNCHANGED <<token, faults>>
     \/ restServes /\ Fault /\ Return(c) /\ UNCHANGED token
  /\ UNCHANGED <<authVars, serverVars, request>>

(***************************************************************************)
(* The call reaches the gRPC server, which serves as long as a token of    *)
(* the embedded server can be had.                                         *)
(***************************************************************************)
ServiceSends(c) ==
  /\ cpc[c] = "sent" /\ apc[c] = "idle" /\ token
  /\ grpcUp
  /\ Intercept(c, FALSE)
  /\ UNCHANGED <<connVars, serverVars, token, request, faults>>

(***************************************************************************)
(* The answer arrives, or the stream ends with EOF.                        *)
(***************************************************************************)
ServiceReturns(c) ==
  /\ Answered(c)
  /\ \/ Return(c) /\ UNCHANGED faults
     \/ Fault /\ ReturnEOF(c)
  /\ UNCHANGED <<serverVars, token, request>>

-----------------------------------------------------------------------------
(***************************************************************************)
(* The REST server routes a request and decodes its message; the call then *)
(* goes through the interceptors of the gRPC server, which let calls of    *)
(* public endpoints pass, and its answer becomes the answer of the         *)
(* request.                                                                *)
(***************************************************************************)
ServeHTTP ==
  /\ restServes
  /\ request.pc = "idle"
  /\ \E c \in Callers : cpc[c] = "idle"
  /\ \E req \in Requests :
       /\ req \in Busy \/ Quiet
       /\ LET route == Handler(req.meant.verb, PathOf(req.meant))
          IN request' = [pc |-> "forwarded", meant |-> req.meant, rpc |-> route.rpc,
                         msg |-> Decode(route, req)]
  /\ UNCHANGED <<connVars, authVars, serverVars, token, faults>>

GatewayCalls ==
  /\ request.pc = "forwarded"
  /\ Intercept(Rest, request.rpc \in PublicEndpoints)
  /\ request' = [pc |-> "called"]
  /\ UNCHANGED <<connVars, serverVars, token, faults>>

GatewayAnswers ==
  /\ request.pc = "called"
  /\ Answered(Rest)
  /\ request' = NoRequest
  /\ UNCHANGED <<connVars, serverVars, token, faults>>

-----------------------------------------------------------------------------
(***************************************************************************)
(* AuthFunc for one call.  A call of a service carries a valid token.      *)
(***************************************************************************)
Bearers(r) == IF r = Rest THEN {"none", "invalid", "valid"} ELSE {"valid"}

\* mutant: the key set is served only when the REST server has nothing else to do
LoadsKeysInTurn(r) ==
  /\ \/ restServes /\ request.pc = "idle" /\ LoadKeys(r) /\ UNCHANGED faults
     \/ restDown /\ LoadKeysFails(r) /\ UNCHANGED faults
  /\ UNCHANGED <<connVars, serverVars, token, request>>

LoadsKeys(r) ==
  /\ \/ restServes /\ LoadKeys(r) /\ UNCHANGED faults
     \/ restDown /\ LoadKeysFails(r) /\ UNCHANGED faults
     \/ restServes /\ Fault /\ LoadKeysFails(r)
  /\ UNCHANGED <<connVars, serverVars, token, request>>

Authenticates(r) ==
  /\ AuthCheck(r) \/ \E bearer \in Bearers(r) : ParseToken(r, bearer)
  /\ UNCHANGED <<connVars, serverVars, token, request, faults>>

ServerRuns(A) == A /\ UNCHANGED <<connVars, authVars, token, request, faults>>

-----------------------------------------------------------------------------
Starts == ServerRuns(EngineStep)
Offers == ServerRuns(OfferReady)
AutoRuns == ServerRuns(AutoReceives \/ AutoStarts)
Stops == ServerRuns(StopServer)

CallProceeds(c) ==
  ServiceConnects(c) \/ GetRequestMetadata(c) \/ ServiceSends(c) \/ ServiceReturns(c)
AuthProceeds(r) == LoadsKeys(r) \/ Authenticates(r)
RequestProceeds == GatewayCalls \/ GatewayAnswers

Next ==
  /\ Alive
  /\ \/ Starts \/ Offers \/ AutoRuns \/ Stops
     \/ ServerRuns(Interrupt)
     \/ \E c \in Callers : ServiceCalls(c) \/ CallProceeds(c)
     \/ \E r \in Requesters : AuthProceeds(r)
     \/ ServeHTTP \/ RequestProceeds

Spec == Init /\ [][Next]_vars

(***************************************************************************)
(* Every goroutine of the process is scheduled; nobody has to send a       *)
(* request, make a call or interrupt.                                      *)
(***************************************************************************)
Fairness ==
  /\ WF_vars(Alive /\ Starts) /\ WF_vars(Alive /\ Offers)
  /\ WF_vars(Alive /\ AutoRuns) /\ WF_vars(Alive /\ Stops)
  /\ WF_vars(Alive /\ RequestProceeds)
  /\ \A c \in Callers : WF_vars(Alive /\ CallProceeds(c))
  /\ \A r \in Requesters : WF_vars(Alive /\ AuthProceeds(r))

FairSpec == Spec /\ Fairness

-----------------------------------------------------------------------------
(***************************************************************************)
(* The method that a client means is the one that is called, although      *)
(* paths with a parameter overlap fixed paths: GET .../cloud_services/{id} *)
(* and GET .../cloud_services/statistics (orchestrator.pb.gw.go).  Every   *)
(* field that the path names has the value of the path, whatever the body  *)
(* and the query say of it.                                                *)
(***************************************************************************)
RequestReachesMethod ==
  request.pc = "forwarded" =>
    /\ request.rpc = request.meant.rpc
    /\ \A i \in DOMAIN request.meant.params :
         /\ request.meant.params[i] \in DOMAIN request.msg
         /\ request.msg[request.meant.params[i]] = PathValues[i]

(***************************************************************************)
(* After an interrupt the process ends, whoever holds or misses the ready  *)
(* signal (rest.go:294: "Clear our ready channel, otherwise, this will     *)
(* block the exit").                                                       *)
(***************************************************************************)
InterruptEnds == interrupted ~> ~Alive

(***************************************************************************)
(* A REST request is answered although its call may wait for keys that the *)
(* same REST server serves, and a call of a service ends, with an answer   *)
(* or an error, although the connection is dropped under it and tokens or  *)
(* keys cannot be had; unless the process ends first.                      *)
(***************************************************************************)
CallsEnd ==
  /\ request.pc # "idle" ~> request.pc = "idle" \/ ~Alive
  /\ \A c \in Callers : cpc[c] # "idle" ~> cpc[c] = "idle" \/ ~Alive
=============================================================================
