------------------------------- MODULE Server -------------------------------
(***************************************************************************)
(* The life of the engine process: doCmd (cmd/engine/engine.go) builds the *)
(* storage and the services, starts the gRPC server and runs the REST      *)
(* server (server/rest/rest.go) until it is stopped.  Besides the main     *)
(* goroutine there are the one that waits to start the discovery, the one  *)
(* that offers the ready signal on a channel without a buffer, and the one *)
(* that waits for an interrupt and calls StopServer.                       *)
(*                                                                         *)
(* engine is where the main goroutine is:                                  *)
(*   storage   before the storage is created                               *)
(*   services  before the gRPC server is started                           *)
(*   gateway   in RunServer, before the interrupt is asked for             *)
(*   bind      before net.Listen                                           *)
(*   bound     after net.Listen, before Serve                              *)
(*   serving   in Serve                                                    *)
(*   closed    after Serve                                                 *)
(*   drained   after the services were shut down                           *)
(*   exited    the process has ended                                       *)
(***************************************************************************)
EXTENDS Naturals

VARIABLES engine,
          auto,          \* automatic start: "off", "waiting", "signalled", "started"
          offer,         \* ready <- true: "none", "spawned", "blocked", "done"
          stop,          \* StopServer: "off", "armed", "clear", "shutdown", "stopped"
          interrupted,   \* an interrupt was sent
          wasBound       \* history: net.Listen of the REST server has succeeded

serverVars == <<engine, auto, offer, stop, interrupted, wasBound>>

ServerTypeOK ==
  /\ engine \in {"storage", "services", "gateway", "bind", "bound", "serving", "closed",
                 "drained", "exited"}
  /\ auto \in {"off", "waiting", "signalled", "started"}
  /\ offer \in {"none", "spawned", "blocked", "done"}
  /\ stop \in {"off", "armed", "clear", "shutdown", "stopped"}
  /\ interrupted \in BOOLEAN
  /\ wasBound \in BOOLEAN

ServerInit ==
  /\ engine = "storage"
  /\ auto = "off"
  /\ offer = "none"
  /\ stop = "off"
  /\ interrupted = FALSE
  /\ wasBound = FALSE

grpcUp == engine \in {"gateway", "bind", "bound", "serving", "closed", "drained"}
restServes == engine = "serving" /\ stop # "stopped"
restDown == engine \notin {"bound", "serving"} \/ stop = "stopped"

-----------------------------------------------------------------------------
(***************************************************************************)
(* doCmd up to the services and the goroutine of the automatic start; the  *)
(* storage may not be available.  The error of the default target is only  *)
(* logged.                                                                 *)
(***************************************************************************)
NewServices ==
  /\ engine = "storage"
  /\ \/ engine' = "exited" /\ UNCHANGED auto
     \/ engine' = "services" /\ auto' \in {"off", "waiting"}
  /\ UNCHANGED <<offer, stop, interrupted, wasBound>>

StartGRPCServer ==
  /\ engine = "services"
  /\ engine' \in {"gateway", "exited"}
  /\ UNCHANGED <<auto, offer, stop, interrupted, wasBound>>

(***************************************************************************)
(* RunServer registers the handlers (Gateway) and asks for the interrupt.  *)
(***************************************************************************)
NotifyInterrupt ==
  /\ engine = "gateway"
  /\ engine' = "bind"
  /\ stop' = "armed"
  /\ UNCHANGED <<auto, offer, interrupted, wasBound>>

\* mutant: the ready signal is offered before the socket is there
OfferThenListen ==
  /\ engine = "bind"
  /\ \/ offer = "none" /\ offer' = "spawned" /\ UNCHANGED <<engine, wasBound>>
     \/ offer # "none" /\ engine' = "bound" /\ wasBound' = TRUE /\ UNCHANGED offer
     \/ offer # "none" /\ engine' = "exited" /\ UNCHANGED <<offer, wasBound>>
  /\ UNCHANGED <<auto, stop, interrupted>>

Listen ==
  /\ engine = "bind"
  /\ \/ engine' = "bound" /\ wasBound' = TRUE /\ offer' = "spawned"
     \/ engine' = "exited" /\ UNCHANGED <<offer, wasBound>>
  /\ UNCHANGED <<auto, stop, interrupted>>

(***************************************************************************)
(* srv.Serve: ends at once on a server that was shut down before, and as   *)
(* soon as Shutdown has closed the listener, not when Shutdown returns.    *)
(***************************************************************************)
Serve ==
  /\ \/ engine = "bound" /\ engine' = IF stop = "stopped" THEN "closed" ELSE "serving"
     \/ engine = "serving" /\ stop = "stopped" /\ engine' = "closed"
  /\ UNCHANGED <<auto, offer, stop, interrupted, wasBound>>

ShutdownServices ==
  /\ engine = "closed"
  /\ engine' = "drained"
  /\ UNCHANGED <<auto, offer, stop, interrupted, wasBound>>

StopGRPC ==
  /\ engine = "drained"
  /\ engine' = "exited"
  /\ UNCHANGED <<auto, offer, stop, interrupted, wasBound>>

EngineStep ==
  NewServices \/ StartGRPCServer \/ NotifyInterrupt \/ Listen \/ Serve \/ ShutdownServices \/ StopGRPC

-----------------------------------------------------------------------------
(***************************************************************************)
(* The goroutine that offers the signal: it starts, and then blocks until  *)
(* somebody receives.                                                      *)
(***************************************************************************)
OfferReady ==
  /\ offer = "spawned"
  /\ offer' = "blocked"
  /\ UNCHANGED <<engine, auto, stop, interrupted, wasBound>>

AutoReceives ==
  /\ auto = "waiting" /\ offer = "blocked"
  /\ auto' = "signalled" /\ offer' = "done"
  /\ UNCHANGED <<engine, stop, interrupted, wasBound>>

AutoStarts ==
  /\ auto = "signalled"
  /\ auto' = "started"
  /\ UNCHANGED <<engine, offer, stop, interrupted, wasBound>>

(***************************************************************************)
(* An interrupt ends the process, unless it was asked for.                 *)
(***************************************************************************)
Interrupt ==
  /\ ~interrupted
  /\ interrupted' = TRUE
  /\ \/ stop = "off" /\ engine' = "exited" /\ UNCHANGED stop
     \/ stop = "armed" /\ stop' = "clear" /\ UNCHANGED engine
  /\ UNCHANGED <<auto, offer, wasBound>>

(***************************************************************************)
(* StopServer takes the ready signal if it is offered, so that the         *)
(* goroutine that offers it does not stay, and shuts the server down.      *)
(***************************************************************************)
\* mutant: waits until the signal is offered
ClearReadyWaits ==
  /\ stop = "clear" /\ offer = "blocked"
  /\ offer' = "done" /\ stop' = "shutdown"
  /\ UNCHANGED <<engine, auto, interrupted, wasBound>>

ClearReady ==
  /\ stop = "clear"
  /\ stop' = "shutdown"
  /\ \/ offer = "blocked" /\ offer' = "done"
     \/ offer # "blocked" /\ UNCHANGED offer
  /\ UNCHANGED <<engine, auto, interrupted, wasBound>>

Shutdown ==
  /\ stop = "shutdown"
  /\ stop' = "stopped"
  /\ UNCHANGED <<engine, auto, offer, interrupted, wasBound>>

StopServer == ClearReady \/ Shutdown

-----------------------------------------------------------------------------
(***************************************************************************)
(* The automatic start of the discovery, whose evidences need a token of   *)
(* the embedded OAuth server, comes after the REST server has its socket,  *)
(* and at most one of the starter and StopServer gets the ready signal     *)
(* (engine.go:366, rest.go:294).                                           *)
(***************************************************************************)
AutoStartAfterListen ==
  /\ auto \in {"signalled", "started"} => wasBound /\ offer = "done"
  /\ auto = "waiting" /\ offer = "done" => stop \in {"shutdown", "stopped"}
=============================================================================
