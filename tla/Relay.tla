-------------------------------- MODULE Relay --------------------------------
(***************************************************************************)
(* What a message channel in front of a gRPC stream promises: a message it *)
(* accepted is handed to a stream at most once, and only after it was      *)
(* accepted.  What happens to a message after the hand-over is up to gRPC. *)
(***************************************************************************)
CONSTANT Msgs

VARIABLES
  held,    \* accepted, not yet handed to a stream
  handed   \* handed to a stream, not yet read by the server

Init == held = {} /\ handed = {}

Accept(m) ==
  /\ m \notin held \cup handed
  /\ held' = held \cup {m}
  /\ UNCHANGED handed

HandOver(m) ==
  /\ m \in held
  /\ held' = held \ {m}
  /\ handed' = handed \cup {m}

\* the server reads a message, or a stream ends with messages unread
Leave == handed' \subseteq handed /\ UNCHANGED held

Next == Leave \/ \E m \in Msgs : Accept(m) \/ HandOver(m)

Spec == Init /\ [][Next]_<<held, handed>>
=============================================================================
