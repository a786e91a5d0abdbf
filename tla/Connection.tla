----------------------------- MODULE Connection -----------------------------
(***************************************************************************)
(* RPCConnection (api/connection.go): callers share one client connection, *)
(* which the first call establishes and which is dropped when a call ends  *)
(* with EOF.  cc says whether there is a connection.  A caller is at       *)
(*   idle    no call                                                       *)
(*   init    before init looks at cc under the read lock                   *)
(*   dial    after the read lock was given up, before the write lock       *)
(*   use     after init, before cc is dereferenced                         *)
(*   sent    the call is under way on the connection                       *)
(*   eof     the call ended with EOF, before ForceReconnect                *)
(*   panic   cc was nil when it was dereferenced                           *)
(* Nothing in the code closes a connection, so its state is never Shutdown.*)
(***************************************************************************)
EXTENDS Naturals

CONSTANTS Callers,
          MaxCalls     \* bound on the calls of all callers

VARIABLES cc, cpc,
          dialable,    \* whether grpc.Dial accepts the target and the options
          calls,       \* the calls begun so far
          dropped      \* history: callers under which cc was set to nil after their init

connVars == <<cc, cpc, dialable, calls, dropped>>

ConnTypeOK ==
  /\ cc \in BOOLEAN
  /\ cpc \in [Callers -> {"idle", "init", "dial", "use", "sent", "eof", "panic"}]
  /\ dialable \in BOOLEAN
  /\ calls \in 0..MaxCalls
  /\ dropped \in SUBSET Callers

ConnInit ==
  /\ cc = FALSE
  /\ cpc = [c \in Callers |-> "idle"]
  /\ dialable \in BOOLEAN
  /\ calls = 0
  /\ dropped = {}

At(c, from, to) == cpc[c] = from /\ cpc' = [cpc EXCEPT ![c] = to]

(***************************************************************************)
(* Invoke and NewStream call init first.                                   *)
(***************************************************************************)
Invoke(c) ==
  /\ calls < MaxCalls
  /\ calls' = calls + 1
  /\ At(c, "idle", "init")
  /\ UNCHANGED <<cc, dialable, dropped>>

(***************************************************************************)
(* init: the look under the read lock.                                     *)
(***************************************************************************)
InitCheck(c) ==
  /\ \/ cc /\ At(c, "init", "use")
     \/ ~cc /\ At(c, "init", "dial")
  /\ UNCHANGED <<cc, dialable, calls, dropped>>

(***************************************************************************)
(* init: the write lock is held while the connection is dialled, without   *)
(* another look at cc.  grpc.Dial does not wait for the server; it fails   *)
(* only on what it is given, and then cc becomes nil.                      *)
(***************************************************************************)
\* mutant: the error of grpc.Dial is not looked at
InitDialUnchecked(c) ==
  /\ At(c, "dial", "use")
  /\ cc' = dialable
  /\ UNCHANGED <<dialable, calls, dropped>>

InitDial(c) ==
  /\ \/ dialable /\ At(c, "dial", "use")
     \/ ~dialable /\ At(c, "dial", "idle")
  /\ cc' = dialable
  /\ UNCHANGED <<dialable, calls, dropped>>

(***************************************************************************)
(* The dereference of cc, which takes no lock.                             *)
(***************************************************************************)
Use(c) ==
  /\ \/ cc /\ At(c, "use", "sent") /\ dropped' = dropped \ {c}
     \/ ~cc /\ At(c, "use", "panic") /\ UNCHANGED dropped
  /\ UNCHANGED <<cc, dialable, calls>>

(***************************************************************************)
(* The call returns, with EOF or otherwise.                                *)
(***************************************************************************)
Return(c) == At(c, "sent", "idle") /\ UNCHANGED <<cc, dialable, calls, dropped>>
ReturnEOF(c) == At(c, "sent", "eof") /\ UNCHANGED <<cc, dialable, calls, dropped>>

(***************************************************************************)
(* ForceReconnect takes no lock.                                           *)
(***************************************************************************)
ForceReconnect(c) ==
  /\ At(c, "eof", "idle")
  /\ cc' = FALSE
  /\ dropped' = dropped \cup {d \in Callers : cpc[d] = "use"}
  /\ UNCHANGED <<dialable, calls>>

-----------------------------------------------------------------------------
(***************************************************************************)
(* Once init returned without an error, the caller finds a connection,     *)
(* unless another caller dropped it in between: no failed or doubled       *)
(* dialling leaves it with nil (api/connection.go:97, :141).               *)
(***************************************************************************)
InitialisedIsUsable == \A c \in Callers : cpc[c] \in {"use", "panic"} /\ ~cc => c \in dropped
=============================================================================
