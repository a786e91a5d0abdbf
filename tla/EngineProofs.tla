---------------------------- MODULE EngineProofs ----------------------------
(***************************************************************************)
(* Proofs about Engine, for any callers, requesters, requests, endpoints   *)
(* and bounds.  A step of the engine is, seen from one of its components,  *)
(* a step of that component or none; so an invariant over the variables of *)
(* one component is shown to be inductive for that component alone.        *)
(***************************************************************************)
EXTENDS Engine, TLAPS

\* A panic ends the process: no step follows it.
ConnStep ==
  /\ ~Panicked
  /\ \E c \in Callers :
       \/ Invoke(c) \/ InitCheck(c) \/ InitDial(c) \/ Use(c)
       \/ Return(c) \/ ReturnEOF(c) \/ ForceReconnect(c)

\* the requesters that pass an interceptor and get an answer
Admitted == Callers \cup {Rest}

AuthStep ==
  /\ ~Panicked
  /\ \/ \E r \in Admitted : (\E f \in BOOLEAN : Intercept(r, f)) \/ Answered(r)
     \/ \E r \in Requesters :
          \/ AuthCheck(r) \/ LoadKeys(r) \/ LoadKeysFails(r)
          \/ \E bearer \in {"none", "invalid", "valid"} : ParseToken(r, bearer)

ServerStep == EngineStep \/ OfferReady \/ AutoReceives \/ AutoStarts \/ Interrupt \/ StopServer

-----------------------------------------------------------------------------
(***************************************************************************)
(* The steps of the engine and those of its components                     *)
(***************************************************************************)

\* A step of the engine is a step of the connection or leaves it alone.
LEMMA EngineStepsConnection == Next => ConnStep \/ UNCHANGED connVars
<1> SUFFICES ASSUME Next PROVE ConnStep \/ UNCHANGED connVars
  BY Zenon
<1>0. ~Panicked
  BY Zenon DEF Next, Alive
<1>1. CASE Starts \/ Offers \/ AutoRuns \/ Stops \/ ServerRuns(Interrupt)
  BY <1>1, Zenon DEF Starts, Offers, AutoRuns, Stops, ServerRuns
<1>2. ASSUME NEW c \in Callers, ServiceCalls(c)  PROVE ConnStep
  BY <1>0, <1>2 DEF ServiceCalls, ConnStep
<1>3. ASSUME NEW c \in Callers, CallProceeds(c)  PROVE ConnStep \/ UNCHANGED connVars
  <2>1. CASE ServiceConnects(c)
    BY <1>0, <2>1 DEF ServiceConnects, ConnStep
  <2>2. CASE GetRequestMetadata(c)
    BY <1>0, <2>2, Zenon DEF GetRequestMetadata, ConnStep
  <2>3. CASE ServiceSends(c)
    BY <2>3, Zenon DEF ServiceSends
  <2>4. CASE ServiceReturns(c)
    BY <1>0, <2>4, Zenon DEF ServiceReturns, ConnStep
  <2> QED BY <1>3, <2>1, <2>2, <2>3, <2>4 DEF CallProceeds
<1>4. ASSUME NEW r \in Requesters, AuthProceeds(r)  PROVE UNCHANGED connVars
  BY <1>4, Zenon DEF AuthProceeds, LoadsKeys, Authenticates
<1>5. CASE ServeHTTP \/ RequestProceeds
  BY <1>5, Zenon DEF ServeHTTP, RequestProceeds, GatewayCalls, GatewayAnswers
<1> QED BY <1>1, <1>2, <1>3, <1>4, <1>5 DEF Next

\* A step of the engine is a step of the authentication or leaves it alone.
LEMMA EngineStepsAuthentication == Next => AuthStep \/ UNCHANGED authVars
<1> SUFFICES ASSUME Next PROVE AuthStep \/ UNCHANGED authVars
  BY Zenon
<1> USE DEF AuthStep
<1>0. ~Panicked
  BY Zenon DEF Next, Alive
<1>1. CASE Starts \/ Offers \/ AutoRuns \/ Stops \/ ServerRuns(Interrupt)
  BY <1>1, Zenon DEF Starts, Offers, AutoRuns, Stops, ServerRuns
<1>2. ASSUME NEW c \in Callers, ServiceCalls(c)  PROVE UNCHANGED authVars
  BY <1>2, Zenon DEF ServiceCalls
<1>3. ASSUME NEW c \in Callers, CallProceeds(c)  PROVE AuthStep \/ UNCHANGED authVars
  <2>1. CASE ServiceConnects(c) \/ GetRequestMetadata(c)
    BY <2>1, Zenon DEF ServiceConnects, GetRequestMetadata
  <2>2. CASE ServiceSends(c)
    BY <1>0, <2>2, Zenon DEF ServiceSends, Admitted
  <2>3. CASE ServiceReturns(c)
    BY <1>0, <2>3, Zenon DEF ServiceReturns, Admitted
  <2> QED BY <1>3, <2>1, <2>2, <2>3 DEF CallProceeds
<1>4. ASSUME NEW r \in Requesters, AuthProceeds(r)  PROVE AuthStep
  <2>1. CASE LoadsKeys(r)
    BY <1>0, <2>1, Zenon DEF LoadsKeys
  <2>2. CASE Authenticates(r)
    BY <1>0, <2>2, Zenon DEF Authenticates, Bearers
  <2> QED BY <1>4, <2>1, <2>2, Zenon DEF AuthProceeds
<1>5. CASE ServeHTTP
  BY <1>5, Zenon DEF ServeHTTP
<1>6. CASE GatewayCalls
  <2>1. Intercept(Rest, TRUE) \/ Intercept(Rest, FALSE)
    BY <1>6, Zenon DEF GatewayCalls, Intercept
  <2> QED BY <1>0, <2>1, Zenon DEF Admitted
<1>7. CASE GatewayAnswers
  BY <1>0, <1>7, Zenon DEF GatewayAnswers, Admitted
<1> QED BY <1>1, <1>2, <1>3, <1>4, <1>5, <1>6, <1>7 DEF Next, RequestProceeds

\* A step of the engine is a step of the servers or leaves them alone.
LEMMA EngineStepsServer == Next => ServerStep \/ UNCHANGED serverVars
<1> SUFFICES ASSUME Next PROVE ServerStep \/ UNCHANGED serverVars
  BY Zenon
<1>1. CASE Starts \/ Offers \/ AutoRuns \/ Stops \/ ServerRuns(Interrupt)
  BY <1>1 DEF Starts, Offers, AutoRuns, Stops, ServerRuns, ServerStep
<1>2. ASSUME NEW c \in Callers, ServiceCalls(c) \/ CallProceeds(c)  PROVE UNCHANGED serverVars
  BY <1>2, Zenon DEF ServiceCalls, CallProceeds, ServiceConnects, GetRequestMetadata, ServiceSends,
              ServiceReturns
<1>3. ASSUME NEW r \in Requesters, AuthProceeds(r)  PROVE UNCHANGED serverVars
  BY <1>3, Zenon DEF AuthProceeds, LoadsKeys, Authenticates
<1>4. CASE ServeHTTP \/ RequestProceeds
  BY <1>4, Zenon DEF ServeHTTP, RequestProceeds, GatewayCalls, GatewayAnswers
<1> QED BY <1>1, <1>2, <1>3, <1>4 DEF Next

-----------------------------------------------------------------------------
(***************************************************************************)
(* The connection                                                          *)
(***************************************************************************)

\* A connection is there only if grpc.Dial accepts the target: the second of two
\* callers that dial cannot fail where the first has succeeded.
ConnInv ==
  /\ cpc \in [Callers -> {"idle", "init", "dial", "use", "sent", "eof", "panic"}]
  /\ cc => dialable
  /\ InitialisedIsUsable

\* ConnInv is kept by every step of the connection that no panic precedes.
LEMMA ConnectionKeepsInv == ConnInv /\ (ConnStep \/ UNCHANGED connVars) => ConnInv'
<1> SUFFICES ASSUME ConnInv, ConnStep \/ UNCHANGED connVars  PROVE ConnInv'
  BY Zenon
<1> USE DEF ConnInv, InitialisedIsUsable, At
<1>1. ASSUME NEW c \in Callers,
             Invoke(c) \/ InitCheck(c) \/ Return(c) \/ ReturnEOF(c)
      PROVE  ConnInv'
  BY <1>1 DEF Invoke, InitCheck, Return, ReturnEOF
<1>2. ASSUME NEW c \in Callers, InitDial(c)  PROVE ConnInv'
  BY <1>2, Zenon DEF InitDial
<1>3. ASSUME NEW c \in Callers, Use(c)  PROVE ConnInv'
  BY <1>3, Zenon DEF Use
<1>4. ASSUME NEW c \in Callers, ForceReconnect(c), ~Panicked  PROVE ConnInv'
  BY <1>4, Zenon DEF ForceReconnect, Panicked
<1>5. CASE UNCHANGED connVars
  BY <1>5, Zenon DEF connVars
<1> QED BY <1>1, <1>2, <1>3, <1>4, <1>5 DEF ConnStep

\* A caller whose init returned without an error finds a connection, unless
\* ForceReconnect of another caller has dropped it meanwhile (api/connection.go).
THEOREM InitialisedCallersFindAConnection == Spec => []InitialisedIsUsable
<1>1. Init => ConnInv
  BY Zenon DEF Init, ConnInit, ConnInv, InitialisedIsUsable
<1>2. ConnInv /\ [Next]_vars => ConnInv'
  <2>1. [Next]_vars => ConnStep \/ UNCHANGED connVars
    BY EngineStepsConnection, Zenon DEF vars
  <2> QED BY <2>1, ConnectionKeepsInv, Zenon
<1>3. ConnInv => InitialisedIsUsable
  BY Zenon DEF ConnInv
<1> QED BY <1>1, <1>2, <1>3, PTL DEF Spec

-----------------------------------------------------------------------------
(***************************************************************************)
(* The authentication                                                      *)
(***************************************************************************)
AuthInv ==
  /\ apc \in [Requesters -> {"idle", "check", "load", "parse", "granted", "refused", "panic"}]
  /\ LoadedKeysAreUsable

\* AuthInv is kept by every step of the authentication that no panic precedes.
LEMMA AuthenticationKeepsInv == AuthInv /\ (AuthStep \/ UNCHANGED authVars) => AuthInv'
<1> SUFFICES ASSUME AuthInv, AuthStep \/ UNCHANGED authVars  PROVE AuthInv'
  BY Zenon
<1> USE DEF AuthInv, LoadedKeysAreUsable, AuthAt
<1>1. ASSUME NEW r \in Admitted, NEW f \in BOOLEAN, Intercept(r, f)  PROVE AuthInv'
  BY <1>1, Zenon DEF Intercept
<1>2. ASSUME NEW r \in Admitted, Answered(r)  PROVE AuthInv'
  BY <1>2, Zenon DEF Answered
<1>3. ASSUME NEW r \in Requesters, AuthCheck(r) \/ LoadKeys(r)  PROVE AuthInv'
  BY <1>3 DEF AuthCheck, LoadKeys
<1>4. ASSUME NEW r \in Requesters, LoadKeysFails(r), ~Panicked  PROVE AuthInv'
  BY <1>4, Zenon DEF LoadKeysFails, Robbed, Panicked
<1>5. ASSUME NEW r \in Requesters, NEW bearer \in {"none", "invalid", "valid"},
             ParseToken(r, bearer)
      PROVE  AuthInv'
  BY <1>5, Zenon DEF ParseToken
<1>6. CASE UNCHANGED authVars
  BY <1>6, Zenon DEF authVars
<1> QED BY <1>1, <1>2, <1>3, <1>4, <1>5, <1>6 DEF AuthStep

\* A call that got past the loading of the key set finds it, unless another call's
\* failed loading has overwritten it (server/auth_middleware.go).
THEOREM LoadedKeysStay == Spec => []LoadedKeysAreUsable
<1>1. Init => AuthInv
  BY Zenon DEF Init, AuthInit, AuthInv, LoadedKeysAreUsable
<1>2. AuthInv /\ [Next]_vars => AuthInv'
  <2>1. [Next]_vars => AuthStep \/ UNCHANGED authVars
    BY EngineStepsAuthentication, Zenon DEF vars
  <2> QED BY <2>1, AuthenticationKeepsInv, Zenon
<1>3. AuthInv => LoadedKeysAreUsable
  BY Zenon DEF AuthInv
<1> QED BY <1>1, <1>2, <1>3, PTL DEF Spec

-----------------------------------------------------------------------------
(***************************************************************************)
(* The start of the servers                                                *)
(***************************************************************************)

\* the ready signal is offered only behind net.Listen, and nobody waits for it
\* before the services are there
ServerInv ==
  /\ engine \in {"storage", "services", "gateway", "bind"} => offer = "none"
  /\ engine = "storage" => auto = "off"
  /\ offer # "none" => wasBound
  /\ AutoStartAfterListen

\* ServerInv is kept by every step of the servers.
LEMMA ServerKeepsInv == ServerInv /\ (ServerStep \/ UNCHANGED serverVars) => ServerInv'
<1> SUFFICES ASSUME ServerInv, ServerStep \/ UNCHANGED serverVars  PROVE ServerInv'
  OBVIOUS
<1> USE DEF ServerInv, AutoStartAfterListen
<1>1. CASE EngineStep
  <2>1. CASE NewServices
    BY <2>1, Zenon DEF NewServices
  <2>2. CASE StartGRPCServer \/ NotifyInterrupt
    BY <2>2, Zenon DEF StartGRPCServer, NotifyInterrupt
  <2>3. CASE Listen
    BY <2>3, Zenon DEF Listen
  <2>4. CASE Serve \/ ShutdownServices \/ StopGRPC
    BY <2>4, Zenon DEF Serve, ShutdownServices, StopGRPC
  <2> QED BY <1>1, <2>1, <2>2, <2>3, <2>4 DEF EngineStep
<1>2. CASE OfferReady \/ AutoReceives \/ AutoStarts
  BY <1>2, Zenon DEF OfferReady, AutoReceives, AutoStarts
<1>3. CASE Interrupt
  BY <1>3, Zenon DEF Interrupt
<1>4. CASE StopServer
  BY <1>4, Zenon DEF StopServer, ClearReady, Shutdown
<1>5. CASE UNCHANGED serverVars
  BY <1>5, Zenon DEF serverVars
<1> QED BY <1>1, <1>2, <1>3, <1>4, <1>5 DEF ServerStep

\* The automatic start of the discovery comes after net.Listen of the REST server,
\* and the ready signal goes to one receiver (engine.go, rest.go).
THEOREM AutoStartWaitsForListen == Spec => []AutoStartAfterListen
<1>1. Init => ServerInv
  BY Zenon DEF Init, ServerInit, ServerInv, AutoStartAfterListen
<1>2. ServerInv /\ [Next]_vars => ServerInv'
  <2>1. [Next]_vars => ServerStep \/ UNCHANGED serverVars
    BY EngineStepsServer, Zenon DEF vars
  <2> QED BY <2>1, ServerKeepsInv
<1>3. ServerInv => AutoStartAfterListen
  BY Zenon DEF ServerInv
<1> QED BY <1>1, <1>2, <1>3, PTL DEF Spec
=============================================================================
