--------------------------------- MODULE Hop ---------------------------------
(***************************************************************************)
(* One StreamsOf target as its users see it: the message channel and the   *)
(* stream behind it.  Streams has the goroutines; here a message is        *)
(* accepted, handed to the stream while there is one, and read by the      *)
(* server or lost with the stream.  A stream that ended is replaced only   *)
(* by the next GetStream.  Every hop is checked to implement Relay.        *)
(***************************************************************************)
CONSTANT Msgs

VARIABLES
  held,    \* accepted by Send, not yet handed to a stream
  handed,  \* handed to a stream, not yet read by the server
  gone,    \* lost with a stream, or read by the server and refused
  up       \* the channel has a stream that has not ended

hopVars == <<held, handed, gone, up>>

Init == held = {} /\ handed = {} /\ gone = {} /\ up = FALSE

\* mutant: the message is also written to the new stream directly
AcceptTwice(m) ==
  /\ held' = held \cup {m} /\ handed' = handed \cup {m}
  /\ up' = TRUE
  /\ UNCHANGED gone

\* GetStream (which adds or restarts the stream when there is none) and Send
Accept(m) ==
  /\ held' = held \cup {m}
  /\ up' = TRUE
  /\ UNCHANGED <<handed, gone>>

\* sendLoop: SendMsg accepts the message
HandOver(m) ==
  /\ up /\ m \in held
  /\ held' = held \ {m}
  /\ handed' = handed \cup {m}
  /\ UNCHANGED <<gone, up>>

\* the server's Recv returns the message
Take(m) ==
  /\ m \in handed
  /\ handed' = handed \ {m}
  /\ UNCHANGED <<held, gone, up>>

\* the server's Recv returns the message, and the server refuses it
Drop(m) ==
  /\ m \in handed
  /\ handed' = handed \ {m}
  /\ gone' = gone \cup {m}
  /\ UNCHANGED <<held, up>>

\* The stream ends: with the network or the server, or by CloseAll.  What the
\* server has not read is lost; what was put back on the channel waits for the
\* next GetStream.
Break ==
  /\ up
  /\ up' = FALSE
  /\ gone' = gone \cup handed
  /\ handed' = {}
  /\ UNCHANGED held

\* Close: the client half-closes; the server still reads what is on the wire
Close == up' = FALSE /\ UNCHANGED <<held, handed, gone>>
=============================================================================
