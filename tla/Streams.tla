------------------------------- MODULE Streams -------------------------------
(***************************************************************************)
(* api/streams.go: StreamsOf / StreamChannelOf, the buffered message       *)
(* channel that discovery and assessment put in front of every gRPC client *)
(* stream.  One target is modelled: the map entries of two targets share   *)
(* nothing but the map lock.                                               *)
(*                                                                         *)
(* Goroutines: the Callers of GetStream and Send, and for every stream     *)
(* that was initialised one sendLoop and one recvLoop, named here by that  *)
(* stream.  A loop reads c.stream anew in every iteration, so it may end   *)
(* up working on a stream other than the one it is named by.               *)
(*                                                                         *)
(* A message is named when Send puts it on a channel, and may be any that  *)
(* is nowhere in the system: finitely many names give unbounded traffic.   *)
(***************************************************************************)
EXTENDS Naturals, Sequences, FiniteSets

CONSTANTS
  Callers,      \* slots for goroutines in GetStream; Send frees the slot
  Msgs,         \* messages
  Chans,        \* StreamChannelOf objects that addStream may allocate
  StreamIds,    \* gRPC client streams that the init function may return
  Cap,          \* capacity of a channel (1000 in the code)
  MaxBreaks,    \* bound: how often the network or the server ends a stream
  InitMayFail,  \* whether the init function may return an error
  None

ASSUME StreamsAssumption ==
  /\ Cap \in Nat \ {0}
  /\ MaxBreaks \in Nat
  /\ InitMayFail \in BOOLEAN
  /\ None \notin Callers \cup Msgs \cup Chans \cup StreamIds

VARIABLES
  entry,                 \* s.channels[target], None if there is no entry
  dead, current, queue,  \* a channel's dead, stream (None before addStream), channel
  state, wire,           \* gRPC: a stream as the client sees it, messages not yet read
  pc, cchan, cstream,    \* callers: program counter, c, the stream just initialised
  spc, schan, smsg, son, \* sendLoops: counter, c, the message, the stream of SendMsg
  rpc, rchan, ron,       \* recvLoops: counter, c, the stream of RecvMsg
  putting,               \* goroutines at c.channel <- m: <<c, m>>
  breaks,                \* how often a stream was ended so far
  shutdown,              \* CloseAll has run
  panicked               \* the process died of a run-time panic

callerVars == <<pc, cchan, cstream>>
sendVars   == <<spc, schan, smsg, son>>
recvVars   == <<rpc, rchan, ron>>
loopVars   == <<sendVars, recvVars>>
procVars   == <<breaks, shutdown, panicked>>
vars == <<entry, dead, current, queue, state, wire, callerVars, loopVars,
          putting, procVars>>

Init ==
  /\ entry = None
  /\ dead = [c \in Chans |-> FALSE]
  /\ current = [c \in Chans |-> None]
  /\ queue = [c \in Chans |-> <<>>]
  /\ state = [s \in StreamIds |-> "unused"]
  /\ wire = [s \in StreamIds |-> {}]
  /\ pc = [t \in Callers |-> "idle"]
  /\ cchan = [t \in Callers |-> None] /\ cstream = [t \in Callers |-> None]
  /\ spc = [s \in StreamIds |-> "none"] /\ rpc = [s \in StreamIds |-> "none"]
  /\ schan = [s \in StreamIds |-> None] /\ rchan = [s \in StreamIds |-> None]
  /\ smsg = [s \in StreamIds |-> None]
  /\ son = [s \in StreamIds |-> None] /\ ron = [s \in StreamIds |-> None]
  /\ putting = {}
  /\ breaks = 0 /\ shutdown = FALSE /\ panicked = FALSE

(***************************************************************************)
(* Where a message can be.                                                 *)
(***************************************************************************)
InQueue(m, c) == \E i \in 1..Len(queue[c]) : queue[c][i] = m

Places(m) ==
  {<<"queue", p[1], p[2]>> : p \in {x \in Chans \X (1..Cap) :
     x[2] <= Len(queue[x[1]]) /\ queue[x[1]][x[2]] = m}} \cup
  {<<"loop", s>> : s \in {x \in StreamIds : smsg[x] = m}} \cup
  {<<"putting", c>> : c \in {x \in Chans : <<x, m>> \in putting}} \cup
  {<<"wire", s>> : s \in {x \in StreamIds : m \in wire[x]}}

\* m was given to channel c and no SendMsg has accepted it yet
HeldBy(m, c) ==
  \/ InQueue(m, c)
  \/ \E s \in StreamIds : schan[s] = c /\ smsg[s] = m
  \/ <<c, m>> \in putting

Held == {m \in Msgs : \E c \in Chans : HeldBy(m, c)}
OnWire == {m \in Msgs : \E s \in StreamIds : m \in wire[s]}

(***************************************************************************)
(* Callers.                                                                *)
(***************************************************************************)

\* mutant: a dead stream is not noticed
DecisionNoRestart == IF entry = None THEN "add" ELSE "send"

\* no entry, a dead channel, or a channel that can be used
Decision == IF entry = None THEN "add"
            ELSE IF dead[entry] THEN "restart" ELSE "send"

\* c.channel <- m blocks while the channel is full
HasRoom(c) == Len(queue[c]) < Cap

\* GetStream up to its decision.  The map is read under the read lock, c.dead
\* without any lock.
GetStream(t) ==
  /\ pc[t] = "idle"
  /\ pc' = [pc EXCEPT ![t] = Decision]
  /\ cchan' = [cchan EXCEPT ![t] = entry]
  /\ UNCHANGED <<entry, dead, current, queue, state, wire, cstream, loopVars,
                 putting, procVars>>

\* the init function returns a stream
Open(s) == state[s] = "unused" /\ state' = [state EXCEPT ![s] = "open"]

\* addStream: the init function succeeds
AddStreamInit(t, s) ==
  /\ pc[t] = "add"
  /\ Open(s)
  /\ pc' = [pc EXCEPT ![t] = "publish"]
  /\ cstream' = [cstream EXCEPT ![t] = s]
  /\ UNCHANGED <<entry, dead, current, queue, wire, cchan, loopVars, putting,
                 procVars>>

\* addStream: the init function fails.  GetStream returns the error, and all
\* callers in this repository then give up the message.
AddStreamFail(t) ==
  /\ InitMayFail
  /\ pc[t] = "add"
  /\ pc' = [pc EXCEPT ![t] = "idle"]
  /\ UNCHANGED <<entry, dead, current, queue, state, wire, cchan, cstream,
                 loopVars, putting, procVars>>

\* addStream: the channel object is created and stored in the map, whatever
\* another caller may have stored there since the map was read
AddStreamPublish(t, c) ==
  /\ pc[t] = "publish"
  /\ current[c] = None
  /\ current' = [current EXCEPT ![c] = cstream[t]]
  /\ entry' = c
  /\ pc' = [pc EXCEPT ![t] = "start"]
  /\ cchan' = [cchan EXCEPT ![t] = c]
  /\ UNCHANGED <<dead, queue, state, wire, cstream, loopVars, putting, procVars>>

\* restartStream: the init function succeeds and c.stream is replaced
RestartStreamInit(t, s) ==
  /\ pc[t] = "restart"
  /\ Open(s)
  /\ current' = [current EXCEPT ![cchan[t]] = s]
  /\ pc' = [pc EXCEPT ![t] = "revive"]
  /\ cstream' = [cstream EXCEPT ![t] = s]
  /\ UNCHANGED <<entry, dead, queue, wire, cchan, loopVars, putting, procVars>>

\* restartStream: the init function fails, c.stream is nil and a nil channel
\* is returned, of which GetStream reads c.component to format its error
RestartStreamFail(t) ==
  /\ InitMayFail
  /\ pc[t] = "restart"
  /\ current' = [current EXCEPT ![cchan[t]] = None]
  /\ panicked' = TRUE
  /\ UNCHANGED <<entry, dead, queue, state, wire, callerVars, loopVars,
                 putting, breaks, shutdown>>

\* restartStream: c.dead = false
RestartStreamRevive(t) ==
  /\ pc[t] = "revive"
  /\ dead' = [dead EXCEPT ![cchan[t]] = FALSE]
  /\ pc' = [pc EXCEPT ![t] = "start"]
  /\ UNCHANGED <<entry, current, queue, state, wire, cchan, cstream, loopVars,
                 putting, procVars>>

\* mutant: no recvLoop is started
RecvLoopNotStarted(s) == rpc

\* go c.recvLoop(s)
RecvLoopStarted(s) == [rpc EXCEPT ![s] = "iter"]

\* addStream and restartStream: go c.recvLoop(s), go c.sendLoop(s)
StartLoops(t) ==
  /\ pc[t] = "start"
  /\ schan' = [schan EXCEPT ![cstream[t]] = cchan[t]]
  /\ rchan' = [rchan EXCEPT ![cstream[t]] = cchan[t]]
  /\ spc' = [spc EXCEPT ![cstream[t]] = "range"]
  /\ rpc' = RecvLoopStarted(cstream[t])
  /\ pc' = [pc EXCEPT ![t] = "send"]
  /\ cstream' = [cstream EXCEPT ![t] = None]
  /\ UNCHANGED <<entry, dead, current, queue, state, wire, cchan,
                 smsg, son, ron, putting, procVars>>

\* Send: the caller is from now on a goroutine at c.channel <- m, and its slot
\* is free for the next caller.  Bound: no more than Msgs are in the system.
Send(t) ==
  /\ pc[t] = "send"
  /\ IF \E m \in Msgs : Places(m) = {}
     THEN \E m \in Msgs : /\ Places(m) = {}
                          /\ putting' = putting \cup {<<cchan[t], m>>}
     ELSE UNCHANGED putting
  /\ pc' = [pc EXCEPT ![t] = "idle"]
  /\ cchan' = [cchan EXCEPT ![t] = None]
  /\ UNCHANGED <<entry, dead, current, queue, state, wire, cstream, loopVars, procVars>>

\* c.channel <- m, of a caller or of a message that is put back
Put(c, m) ==
  /\ <<c, m>> \in putting
  /\ HasRoom(c)
  /\ queue' = [queue EXCEPT ![c] = Append(@, m)]
  /\ putting' = putting \ {<<c, m>>}
  /\ UNCHANGED <<entry, dead, current, state, wire, callerVars, loopVars, procVars>>

\* CloseSend on the stream that is c.stream by now
CloseSend(c) ==
  state' = [state EXCEPT ![current[c]] = IF @ = "open" THEN "closed" ELSE @]

\* mutant: the channel is removed from the map
CloseAllForgets ==
  /\ ~shutdown
  /\ shutdown' = TRUE
  /\ IF entry = None THEN UNCHANGED state ELSE CloseSend(entry)
  /\ entry' = None
  /\ UNCHANGED <<dead, current, queue, wire, callerVars, loopVars, putting, breaks,
                 panicked>>

\* CloseAll, on shutdown
CloseAll ==
  /\ ~shutdown
  /\ shutdown' = TRUE
  /\ IF entry = None THEN UNCHANGED state ELSE CloseSend(entry)
  /\ UNCHANGED <<entry, dead, current, queue, wire, callerVars, loopVars,
                 putting, breaks, panicked>>

(***************************************************************************)
(* sendLoop                                                                *)
(***************************************************************************)

\* mutants: a message is looked at but not taken; the loop goes on after an
\* error; the channel is not declared dead; the message is not put back
PeekOnly(q) == q
LoopGoesOn(s) == spc' = [spc EXCEPT ![s] = "range"] /\ UNCHANGED schan
NotDeclaredDead(c) == dead
NotPutBack(c, m) == putting

\* what is left in c.channel after a receive
Received(q) == Tail(q)

\* sendLoop returns after an error
LoopReturns(s) ==
  spc' = [spc EXCEPT ![s] = "done"] /\ schan' = [schan EXCEPT ![s] = None]

\* c.dead = true
DeclaredDead(c) == [dead EXCEPT ![c] = TRUE]

\* the goroutine that will put m back on the channel is started
WithPutBack(c, m) == putting \cup {<<c, m>>}

\* for m := range c.channel
SendLoopRange(s) ==
  LET c == schan[s] IN
  /\ spc[s] = "range"
  /\ queue[c] # <<>>
  /\ queue' = [queue EXCEPT ![c] = Received(@)]
  /\ smsg' = [smsg EXCEPT ![s] = Head(queue[c])]
  /\ spc' = [spc EXCEPT ![s] = "got"]
  /\ UNCHANGED <<entry, dead, current, state, wire, callerVars, schan, son,
                 recvVars, putting, procVars>>

\* the call c.stream.SendMsg(m)
SendLoopCall(s) ==
  /\ spc[s] = "got"
  /\ son' = [son EXCEPT ![s] = current[schan[s]]]
  /\ spc' = [spc EXCEPT ![s] = "sending"]
  /\ UNCHANGED <<entry, dead, current, queue, state, wire, callerVars, schan,
                 smsg, recvVars, putting, procVars>>

\* SendMsg returns nil: the stream has taken the message
SendLoopSent(s) ==
  /\ spc[s] = "sending"
  /\ state[son[s]] = "open"
  /\ wire' = [wire EXCEPT ![son[s]] = @ \cup {smsg[s]}]
  /\ spc' = [spc EXCEPT ![s] = "range"]
  /\ smsg' = [smsg EXCEPT ![s] = None]
  /\ son' = [son EXCEPT ![s] = None]
  /\ UNCHANGED <<entry, dead, current, queue, state, callerVars, schan,
                 recvVars, putting, procVars>>

\* SendMsg returns an error: io.EOF for a stream that ended, another error for
\* one on which CloseSend was called, after which c.stream is closed once more
SendLoopFail(s) ==
  LET c == schan[s] IN
  /\ spc[s] = "sending"
  /\ \/ state[son[s]] = "broken" /\ UNCHANGED state
     \/ state[son[s]] # "open" /\ CloseSend(c)
  /\ dead' = DeclaredDead(c)
  /\ putting' = WithPutBack(c, smsg[s])
  /\ LoopReturns(s)
  /\ smsg' = [smsg EXCEPT ![s] = None]
  /\ son' = [son EXCEPT ![s] = None]
  /\ UNCHANGED <<entry, current, queue, wire, callerVars, recvVars, procVars>>

(***************************************************************************)
(* recvLoop: responses are read and thrown away.                           *)
(***************************************************************************)

\* the call c.stream.RecvMsg(msg)
RecvLoopCall(s) ==
  /\ rpc[s] = "iter"
  /\ ron' = [ron EXCEPT ![s] = current[rchan[s]]]
  /\ rpc' = [rpc EXCEPT ![s] = "recv"]
  /\ UNCHANGED <<entry, dead, current, queue, state, wire, callerVars, sendVars,
                 rchan, putting, procVars>>

\* RecvMsg returns a response, or io.EOF or another error, which ends the loop
RecvLoopReturn(s) ==
  /\ rpc[s] = "recv"
  /\ \/ rpc' = [rpc EXCEPT ![s] = "iter"] /\ UNCHANGED rchan
     \/ /\ state[ron[s]] # "open"
        /\ rpc' = [rpc EXCEPT ![s] = "done"]
        /\ rchan' = [rchan EXCEPT ![s] = None]
  /\ ron' = [ron EXCEPT ![s] = None]
  /\ UNCHANGED <<entry, dead, current, queue, state, wire, callerVars, sendVars,
                 putting, procVars>>

(***************************************************************************)
(* gRPC and the server (external).                                         *)
(***************************************************************************)
ServerReceive(s, m) ==
  /\ m \in wire[s]
  /\ wire' = [wire EXCEPT ![s] = @ \ {m}]
  /\ UNCHANGED <<entry, dead, current, queue, state, callerVars, loopVars,
                 putting, procVars>>

\* The stream ends; what the server has not read is gone.
Break(s) ==
  /\ state[s] \in {"open", "closed"}
  /\ breaks < MaxBreaks
  /\ breaks' = breaks + 1
  /\ state' = [state EXCEPT ![s] = "broken"]
  /\ wire' = [wire EXCEPT ![s] = {}]
  /\ UNCHANGED <<entry, dead, current, queue, callerVars, loopVars, putting,
                 shutdown, panicked>>

-----------------------------------------------------------------------------
Caller(t) ==
  \/ GetStream(t) \/ Send(t)
  \/ \E s \in StreamIds : AddStreamInit(t, s) \/ RestartStreamInit(t, s)
  \/ \E c \in Chans : AddStreamPublish(t, c)
  \/ AddStreamFail(t) \/ RestartStreamFail(t)
  \/ RestartStreamRevive(t) \/ StartLoops(t)

SendLoop(s) ==
  SendLoopRange(s) \/ SendLoopCall(s) \/ SendLoopSent(s) \/ SendLoopFail(s)

RecvLoop(s) == RecvLoopCall(s) \/ RecvLoopReturn(s)

Network(s) == Break(s) \/ \E m \in Msgs : ServerReceive(s, m)

Next ==
  /\ ~panicked
  /\ \/ \E t \in Callers : Caller(t)
     \/ \E s \in StreamIds : SendLoop(s) \/ RecvLoop(s) \/ Network(s)
     \/ \E c \in Chans, m \in Msgs : Put(c, m)
     \/ CloseAll

Spec == Init /\ [][Next]_vars

\* The Go scheduler runs every goroutine that can go on.  There are always new
\* callers: discovery runs are scheduled periodically.  Blocked sends on a Go
\* channel are served in order, hence SF.  The server reads its streams.
FairSpec ==
  /\ Spec
  /\ \A t \in Callers : WF_vars(~panicked /\ Caller(t))
  /\ \A s \in StreamIds : WF_vars(~panicked /\ SendLoop(s))
  /\ \A c \in Chans, m \in Msgs : SF_vars(~panicked /\ Put(c, m))
  /\ \A s \in StreamIds, m \in Msgs : WF_vars(~panicked /\ ServerReceive(s, m))

-----------------------------------------------------------------------------
(***************************************************************************)
(* Properties                                                              *)
(***************************************************************************)
\* Type invariant of the channel objects, streams and goroutines; a channel
\* never holds more than its capacity (make(chan MsgType, 1000)).
TypeOK ==
  /\ entry \in Chans \cup {None}
  /\ dead \in [Chans -> BOOLEAN]
  /\ current \in [Chans -> StreamIds \cup {None}]
  /\ queue \in [Chans -> Seq(Msgs)] /\ \A c \in Chans : Len(queue[c]) <= Cap
  /\ state \in [StreamIds -> {"unused", "open", "closed", "broken"}]
  /\ wire \in [StreamIds -> SUBSET Msgs]
  /\ pc \in [Callers -> {"idle", "add", "publish", "restart", "revive",
                         "start", "send"}]
  /\ cchan \in [Callers -> Chans \cup {None}]
  /\ cstream \in [Callers -> StreamIds \cup {None}]
  /\ schan \in [StreamIds -> Chans \cup {None}]
  /\ rchan \in [StreamIds -> Chans \cup {None}]
  /\ spc \in [StreamIds -> {"none", "range", "got", "sending", "done"}]
  /\ smsg \in [StreamIds -> Msgs \cup {None}]
  /\ son \in [StreamIds -> StreamIds \cup {None}]
  /\ rpc \in [StreamIds -> {"none", "iter", "recv", "done"}]
  /\ ron \in [StreamIds -> StreamIds \cup {None}]
  /\ putting \in SUBSET (Chans \X Msgs)
  /\ breaks \in Nat /\ shutdown \in BOOLEAN /\ panicked \in BOOLEAN

\* A channel that GetStream hands out without a restart (c.dead is false) has a
\* sendLoop that is running or that its creator is just about to start: no
\* interleaving of failing loops and restarts leaves a channel that looks alive
\* and that nobody empties.
AliveHasSender ==
  \A c \in Chans : current[c] # None /\ ~dead[c] =>
    \/ \E s \in StreamIds : schan[s] = c /\ spc[s] \in {"range", "got", "sending"}
    \/ \E t \in Callers : cchan[t] = c /\ pc[t] = "start"

\* The current stream of a channel always has a recvLoop that reads it ("we
\* need to receive them, otherwise the buffer of the stream gets congested"),
\* or one that its creator is about to start, for as long as the stream is open.
CurrentStreamDrained ==
  \A c \in Chans, s \in StreamIds : current[c] = s /\ state[s] = "open" =>
    \/ \E r \in StreamIds : /\ rchan[r] = c
                            /\ rpc[r] = "iter" \/ (rpc[r] = "recv" /\ ron[r] = s)
    \/ \E t \in Callers : cchan[t] = c /\ pc[t] \in {"revive", "start"}

\* A message is never in two places: in a channel, with a sendLoop, waiting to
\* be put on a channel, or on a stream.  Putting failed messages back therefore
\* never makes a server see a message twice.
AtMostOnce == \A m \in Msgs : Cardinality(Places(m)) <= 1

\* A message that a channel accepted stays with that channel until SendMsg of a
\* stream takes it, however often the stream fails and is restarted.
NoSilentLoss ==
  [][\A m \in Msgs, c \in Chans : HeldBy(m, c) => HeldBy(m, c)' \/ m \in OnWire']_vars

\* The channel machinery implements the abstract at-most-once relay.
Abstract == INSTANCE Relay WITH held <- Held, handed <- OnWire
RelaySpec == Abstract!Spec

\* "gRPC does not allow sending to a stream from multiple goroutines directly":
\* no two sendLoops are inside SendMsg of the same stream.
NoConcurrentSend ==
  \A s1, s2 \in StreamIds :
    spc[s1] = "sending" /\ spc[s2] = "sending" /\ son[s1] = son[s2] => s1 = s2

\* "Put the message back on the channel, so that it does not get lost": a dead
\* channel that still holds a message is the one GetStream finds and restarts.
PutBackReachable ==
  \A c \in Chans, m \in Msgs : dead[c] /\ HeldBy(m, c) => entry = c

\* "An error is returned if the initialization is not successful": GetStream
\* with a failing init function does not panic.
GetStreamReturnsError == ~panicked

\* Every message a channel accepted is eventually taken by a stream.
HeldIsHandedOver == \A m \in Msgs : (m \in Held) ~> (m \in OnWire)
=============================================================================
