--------------------------- MODULE Authentication ---------------------------
(***************************************************************************)
(* The authentication of calls (server/auth_middleware.go, and the filters *)
(* of server/grpc.go that decide which calls go through it).  The key set  *)
(* is loaded by the first call that needs it; calls run concurrently and   *)
(* share it without a lock.  A requester is at                             *)
(*   idle     no call                                                      *)
(*   check    before AuthFunc looks for the key set                        *)
(*   load     while the key set is fetched                                 *)
(*   parse    before the bearer token is checked against the key set       *)
(*   granted  the handler runs                                             *)
(*   refused  the call is answered with an error                           *)
(*   panic    the key set was nil when it was dereferenced                 *)
(***************************************************************************)
CONSTANTS Requesters

VARIABLES jwks,      \* whether the key set is there
          apc,
          robbed     \* history: requesters under which the key set was set to nil

authVars == <<jwks, apc, robbed>>

AuthTypeOK ==
  /\ jwks \in BOOLEAN
  /\ apc \in [Requesters -> {"idle", "check", "load", "parse", "granted", "refused", "panic"}]
  /\ robbed \in SUBSET Requesters

AuthInit ==
  /\ jwks = FALSE
  /\ apc = [r \in Requesters |-> "idle"]
  /\ robbed = {}

AuthAt(r, from, to) == apc[r] = from /\ apc' = [apc EXCEPT ![r] = to]

(***************************************************************************)
(* The interceptor: calls of public endpoints and of the reflection        *)
(* service go straight to the handler.                                     *)
(***************************************************************************)
Intercept(r, filtered) ==
  /\ \/ filtered /\ AuthAt(r, "idle", "granted")
     \/ ~filtered /\ AuthAt(r, "idle", "check")
  /\ UNCHANGED <<jwks, robbed>>

AuthCheck(r) ==
  /\ \/ jwks /\ AuthAt(r, "check", "parse")
     \/ ~jwks /\ AuthAt(r, "check", "load")
  /\ UNCHANGED <<jwks, robbed>>

(***************************************************************************)
(* keyfunc.Get returns a key set, or nil and an error; either is assigned. *)
(***************************************************************************)
LoadKeys(r) == AuthAt(r, "load", "parse") /\ jwks' = TRUE /\ UNCHANGED robbed

Robbed(r) == robbed \cup {q \in Requesters \ {r} : apc[q] = "parse"}

\* mutant: the error of keyfunc.Get is only logged
LoadKeysIgnored(r) == AuthAt(r, "load", "parse") /\ jwks' = FALSE /\ robbed' = Robbed(r)

LoadKeysFails(r) == AuthAt(r, "load", "refused") /\ jwks' = FALSE /\ robbed' = Robbed(r)

(***************************************************************************)
(* AuthFromMD and parseToken: a token that is missing is refused before    *)
(* the key set is touched.  The library dereferences the key set unless    *)
(* the token cannot be decoded.                                            *)
(***************************************************************************)
ParseToken(r, bearer) ==
  /\ \/ bearer = "none" /\ AuthAt(r, "parse", "refused")
     \/ bearer = "invalid" /\ AuthAt(r, "parse", "refused")
     \/ bearer # "none" /\ ~jwks /\ AuthAt(r, "parse", "panic")
     \/ bearer = "valid" /\ jwks /\ AuthAt(r, "parse", "granted")
  /\ UNCHANGED jwks
  /\ robbed' = IF apc'[r] = "panic" THEN robbed ELSE robbed \ {r}

Answered(r) ==
  /\ apc[r] \in {"granted", "refused"}
  /\ apc' = [apc EXCEPT ![r] = "idle"]
  /\ UNCHANGED <<jwks, robbed>>

-----------------------------------------------------------------------------
(***************************************************************************)
(* A call that got past the loading of the key set finds it, unless        *)
(* another call's failed loading overwrote it in between                   *)
(* (server/auth_middleware.go:112).                                        *)
(***************************************************************************)
LoadedKeysAreUsable == \A r \in Requesters : apc[r] \in {"parse", "panic"} /\ ~jwks => r \in robbed
=============================================================================
