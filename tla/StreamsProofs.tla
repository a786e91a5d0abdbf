---------------------------- MODULE StreamsProofs ----------------------------
(***************************************************************************)
(* Proofs about Streams, for any number of callers, messages, channels and *)
(* streams and any capacity.  IInv is the inductive invariant: the types,  *)
(* what the program counters say about the local variables, which stream   *)
(* belongs to which goroutine, and the two safety invariants.  That every  *)
(* message has one place, and that the channels implement Relay, is proved *)
(* on top of it.                                                           *)
(***************************************************************************)
EXTENDS Streams, SequenceLemmas, TLAPS

\* the caller has initialised a stream whose loops it has not started yet
Starting(t) == pc[t] \in {"publish", "revive", "start"}

Live(s) == spc[s] \in {"range", "got", "sending"}

CallerLocals ==
  \A t \in Callers :
    /\ Starting(t) => cstream[t] \in StreamIds
    /\ pc[t] \in {"restart", "revive", "start", "send"} => cchan[t] \in Chans

LoopLocals ==
  \A s \in StreamIds :
    /\ Live(s) => schan[s] \in Chans
    /\ IF spc[s] \in {"got", "sending"} THEN smsg[s] \in Msgs ELSE smsg[s] = None
    /\ spc[s] = "sending" => son[s] \in StreamIds
    /\ rpc[s] \in {"iter", "recv"} => rchan[s] \in Chans
    /\ rpc[s] = "recv" => ron[s] \in StreamIds

\* a channel in use has a stream, until a restart fails
HasStream ==
  ~panicked =>
    /\ entry # None => current[entry] # None
    /\ \A t \in Callers : pc[t] \in {"restart", "revive", "start", "send"} =>
                            current[cchan[t]] # None
    /\ \A s \in StreamIds : Live(s) => current[schan[s]] # None
    /\ \A s \in StreamIds : rpc[s] \in {"iter", "recv"} => current[rchan[s]] # None

\* the loops of a stream are started once, by the caller that initialised it
OwnStream ==
  /\ \A t \in Callers : Starting(t) =>
       /\ spc[cstream[t]] = "none" /\ rpc[cstream[t]] = "none"
       /\ state[cstream[t]] # "unused"
  /\ \A t, u \in Callers : Starting(t) /\ Starting(u) /\ cstream[t] = cstream[u] => t = u
  /\ \A s \in StreamIds : state[s] = "unused" =>
       spc[s] = "none" /\ rpc[s] = "none" /\ \A c \in Chans : current[c] # s

\* CurrentStreamDrained, and it is the loop named by the stream that reads it
OwnReceiver ==
  \A c \in Chans, s \in StreamIds : current[c] = s /\ state[s] = "open" =>
    \/ /\ rchan[s] = c
       /\ rpc[s] = "iter" \/ (rpc[s] = "recv" /\ ron[s] = s)
    \/ \E t \in Callers : cchan[t] = c /\ cstream[t] = s /\ pc[t] \in {"revive", "start"}

Locals == CallerLocals /\ LoopLocals /\ HasStream /\ OwnStream

-----------------------------------------------------------------------------
LEMMA NoneDistinct == None \notin Chans /\ None \notin StreamIds /\ None \notin Msgs
BY StreamsAssumption, Zenon

StateType == {"unused", "open", "closed", "broken"}

\* CloseSend keeps the type of the streams; it opens none and uses no new one.
LEMMA CloseSendFacts ==
  ASSUME NEW c, state \in [StreamIds -> StateType], CloseSend(c)
  PROVE  /\ state' \in [StreamIds -> StateType]
         /\ \A x \in StreamIds : state'[x] = "unused" <=> state[x] = "unused"
         /\ \A x \in StreamIds : state'[x] = "open" => state[x] = "open"
<1> DEFINE v == IF state[current[c]] = "open" THEN "closed" ELSE state[current[c]]
<1>1. state' = [state EXCEPT ![current[c]] = v]
  BY Zenon DEF CloseSend
<1>2. CASE current[c] \in StreamIds
  <2>1. v \in StateType
    BY <1>2, Zenon DEF StateType
  <2>2. v = "unused" <=> state[current[c]] = "unused"
    BY <1>2, Zenon
  <2>3. v # "open"
    BY Zenon
  <2> HIDE DEF v
  <2>4. QED BY <1>1, <1>2, <2>1, <2>2, <2>3, Zenon
<1>3. CASE current[c] \notin StreamIds
  BY <1>1, <1>3, Zenon
<1>4. QED BY <1>2, <1>3, Zenon

\* Init establishes the types and the facts about local variables.
LEMMA InitLocals == Init => TypeOK /\ Locals
<1> SUFFICES ASSUME Init PROVE TypeOK /\ Locals
  BY Zenon
<1> USE NoneDistinct
<1>1. TypeOK
  <2>1. queue \in [Chans -> Seq(Msgs)] /\ \A c \in Chans : Len(queue[c]) <= Cap
    BY StreamsAssumption DEF Init
  <2>2. spc \in [StreamIds -> {"none", "range", "got", "sending", "done"}]
    BY Zenon DEF Init
  <2>3. pc \in [Callers -> {"idle", "add", "publish", "restart", "revive",
                            "start", "send"}]
    BY Zenon DEF Init
  <2>4. wire \in [StreamIds -> SUBSET Msgs] /\ putting \in SUBSET (Chans \X Msgs)
    BY Zenon DEF Init
  <2>5. QED BY <2>1, <2>2, <2>3, <2>4, Zenon DEF Init, TypeOK
<1>2. CallerLocals /\ OwnStream
  BY Zenon DEF Init, CallerLocals, OwnStream, Starting
<1>3. LoopLocals /\ HasStream
  BY Zenon DEF Init, LoopLocals, HasStream, Live
<1>4. QED BY <1>1, <1>2, <1>3, Zenon DEF Locals

\* Every step preserves the types.
LEMMA StepTypeOK == TypeOK /\ Locals /\ Next => TypeOK'
<1> SUFFICES ASSUME TypeOK, CallerLocals, LoopLocals, Next PROVE TypeOK'
  BY Zenon DEF Locals
<1> USE StreamsAssumption, NoneDistinct
        DEF TypeOK, callerVars, loopVars, sendVars, recvVars, procVars
<1>1. ASSUME NEW t \in Callers, GetStream(t) PROVE TypeOK'
  BY <1>1, Zenon DEF GetStream, Decision
<1>2. ASSUME NEW t \in Callers, NEW s \in StreamIds, AddStreamInit(t, s) PROVE TypeOK'
  BY <1>2, Zenon DEF AddStreamInit, Open
<1>3. ASSUME NEW t \in Callers, AddStreamFail(t) PROVE TypeOK'
  BY <1>3, Zenon DEF AddStreamFail
<1>4. ASSUME NEW t \in Callers, NEW c \in Chans, AddStreamPublish(t, c) PROVE TypeOK'
  BY <1>4, Zenon DEF AddStreamPublish
<1>5. ASSUME NEW t \in Callers, NEW s \in StreamIds, RestartStreamInit(t, s) PROVE TypeOK'
  BY <1>5, Zenon DEF RestartStreamInit, Open
<1>6. ASSUME NEW t \in Callers, RestartStreamFail(t) PROVE TypeOK'
  BY <1>6, Zenon DEF RestartStreamFail
<1>7. ASSUME NEW t \in Callers, RestartStreamRevive(t) PROVE TypeOK'
  BY <1>7, Zenon DEF RestartStreamRevive
<1>8. ASSUME NEW t \in Callers, StartLoops(t) PROVE TypeOK'
  BY <1>8, Zenon DEF StartLoops, RecvLoopStarted, CallerLocals, Starting
<1>9. ASSUME NEW t \in Callers, Send(t) PROVE TypeOK'
  BY <1>9 DEF Send, CallerLocals
<1>10. ASSUME NEW c \in Chans, NEW m \in Msgs, Put(c, m) PROVE TypeOK'
  BY <1>10 DEF Put, HasRoom
<1>11. CASE CloseAll
  BY <1>11 DEF CloseAll, CloseSend
<1>12. ASSUME NEW s \in StreamIds, SendLoopRange(s) PROVE TypeOK'
  BY <1>12 DEF SendLoopRange, Received, LoopLocals, Live
<1>13. ASSUME NEW s \in StreamIds, SendLoopCall(s) PROVE TypeOK'
  BY <1>13, Zenon DEF SendLoopCall, LoopLocals, Live
<1>14. ASSUME NEW s \in StreamIds, SendLoopSent(s) PROVE TypeOK'
  BY <1>14 DEF SendLoopSent, LoopLocals
<1>15. ASSUME NEW s \in StreamIds, SendLoopFail(s) PROVE TypeOK'
  <2> USE <1>15 DEF SendLoopFail
  <2>1. schan[s] \in Chans /\ smsg[s] \in Msgs
    BY Zenon DEF LoopLocals, Live
  <2>2. state' \in [StreamIds -> {"unused", "open", "closed", "broken"}]
    <3>1. state' = state \/ CloseSend(schan[s])
      BY Zenon
    <3>2. QED BY <3>1, CloseSendFacts, Zenon DEF TypeOK, StateType
  <2>3. dead' \in [Chans -> BOOLEAN]
    BY Zenon DEF TypeOK, DeclaredDead
  <2>4. putting' \in SUBSET (Chans \X Msgs)
    BY <2>1 DEF TypeOK, WithPutBack
  <2>5. spc' \in [StreamIds -> {"none", "range", "got", "sending", "done"}]
    BY Zenon DEF TypeOK, LoopReturns
  <2>6. QED
    BY <2>2, <2>3, <2>4, <2>5, Zenon DEF TypeOK, LoopReturns, callerVars, recvVars, procVars
<1>16. ASSUME NEW s \in StreamIds, RecvLoopCall(s) PROVE TypeOK'
  BY <1>16, Zenon DEF RecvLoopCall, LoopLocals
<1>17. ASSUME NEW s \in StreamIds, RecvLoopReturn(s) PROVE TypeOK'
  <2>1. rchan' \in [StreamIds -> Chans \cup {None}]
    BY <1>17, Zenon DEF TypeOK, RecvLoopReturn
  <2>2. rpc' \in [StreamIds -> {"none", "iter", "recv", "done"}]
    BY <1>17, Zenon DEF TypeOK, RecvLoopReturn
  <2>3. ron' \in [StreamIds -> StreamIds \cup {None}]
    BY <1>17, Zenon DEF TypeOK, RecvLoopReturn
  <2>4. QED
    BY <1>17, <2>1, <2>2, <2>3, Zenon
       DEF TypeOK, RecvLoopReturn, callerVars, sendVars, procVars
<1>18. ASSUME NEW s \in StreamIds, NEW m \in Msgs, ServerReceive(s, m) PROVE TypeOK'
  BY <1>18, Zenon DEF ServerReceive
<1>19. ASSUME NEW s \in StreamIds, Break(s) PROVE TypeOK'
  BY <1>19 DEF Break
<1>20. QED
  BY <1>1, <1>2, <1>3, <1>4, <1>5, <1>6, <1>7, <1>8, <1>9, <1>10, <1>11, <1>12,
     <1>13, <1>14, <1>15, <1>16, <1>17, <1>18, <1>19, Zenon
     DEF Next, Caller, SendLoop, RecvLoop, Network

\* Every step preserves the facts about local variables.
LEMMA StepLocals == TypeOK /\ Locals /\ Next => Locals'
<1> SUFFICES ASSUME TypeOK, Locals, ~panicked, Next PROVE Locals'
  BY Zenon DEF Next
<1> USE NoneDistinct
        DEF TypeOK, Locals, CallerLocals, LoopLocals, HasStream,
        OwnStream, Starting, Live, callerVars, loopVars, sendVars,
        recvVars, procVars
<1>1. ASSUME NEW t \in Callers, GetStream(t) PROVE Locals'
  BY <1>1 DEF GetStream, Decision
<1>2. ASSUME NEW t \in Callers, NEW s \in StreamIds, AddStreamInit(t, s) PROVE Locals'
  BY <1>2 DEF AddStreamInit, Open
<1>3. ASSUME NEW t \in Callers, AddStreamFail(t) PROVE Locals'
  BY <1>3 DEF AddStreamFail
<1>4. ASSUME NEW t \in Callers, NEW c \in Chans, AddStreamPublish(t, c) PROVE Locals'
  BY <1>4 DEF AddStreamPublish
<1>5. ASSUME NEW t \in Callers, NEW s \in StreamIds, RestartStreamInit(t, s) PROVE Locals'
  BY <1>5 DEF RestartStreamInit, Open
<1>6. ASSUME NEW t \in Callers, RestartStreamFail(t) PROVE Locals'
  BY <1>6 DEF RestartStreamFail
<1>7. ASSUME NEW t \in Callers, RestartStreamRevive(t) PROVE Locals'
  BY <1>7 DEF RestartStreamRevive
<1>8. ASSUME NEW t \in Callers, StartLoops(t) PROVE Locals'
  BY <1>8 DEF StartLoops, RecvLoopStarted
<1>9. ASSUME NEW t \in Callers, Send(t) PROVE Locals'
  BY <1>9 DEF Send
<1>10. ASSUME NEW c \in Chans, NEW m \in Msgs, Put(c, m) PROVE Locals'
  BY <1>10 DEF Put
<1>11. CASE CloseAll
  BY <1>11 DEF CloseAll, CloseSend
<1>12. ASSUME NEW s \in StreamIds, SendLoopRange(s) PROVE Locals'
  BY <1>12 DEF SendLoopRange, Received
<1>13. ASSUME NEW s \in StreamIds, SendLoopCall(s) PROVE Locals'
  BY <1>13 DEF SendLoopCall
<1>14. ASSUME NEW s \in StreamIds, SendLoopSent(s) PROVE Locals'
  BY <1>14 DEF SendLoopSent
<1>15. ASSUME NEW s \in StreamIds, SendLoopFail(s) PROVE Locals'
  <2> USE <1>15 DEF SendLoopFail, LoopReturns
  <2>1. \A x \in StreamIds : state'[x] = "unused" <=> state[x] = "unused"
    <3>1. state' = state \/ CloseSend(schan[s])
      BY Zenon
    <3>2. QED BY <3>1, CloseSendFacts, Zenon DEF TypeOK, StateType
  <2>2. CallerLocals'
    BY Zenon DEF Locals, CallerLocals, Starting, callerVars
  <2>3. LoopLocals'
    BY DEF TypeOK, Locals, LoopLocals, Live, recvVars
  <2>4. HasStream'
    BY DEF TypeOK, Locals, LoopLocals, HasStream, Live, callerVars, recvVars, procVars
  <2>5. OwnStream'
    BY <2>1 DEF TypeOK, Locals, CallerLocals, OwnStream, Starting, callerVars,
                recvVars
  <2>6. QED BY <2>2, <2>3, <2>4, <2>5, Zenon DEF Locals
<1>16. ASSUME NEW s \in StreamIds, RecvLoopCall(s) PROVE Locals'
  BY <1>16 DEF RecvLoopCall
<1>17. ASSUME NEW s \in StreamIds, RecvLoopReturn(s) PROVE Locals'
  <2> USE <1>17 DEF RecvLoopReturn
  <2>1. CallerLocals'
    BY Zenon DEF Locals, CallerLocals, Starting, callerVars
  <2>2. LoopLocals'
    BY DEF TypeOK, Locals, LoopLocals, Live, sendVars
  <2>3. HasStream'
    BY DEF TypeOK, Locals, LoopLocals, HasStream, Live, callerVars, sendVars, procVars
  <2>4. OwnStream'
    BY DEF TypeOK, Locals, CallerLocals, OwnStream, Starting, callerVars, sendVars
  <2>5. QED BY <2>1, <2>2, <2>3, <2>4, Zenon DEF Locals
<1>18. ASSUME NEW s \in StreamIds, NEW m \in Msgs, ServerReceive(s, m) PROVE Locals'
  BY <1>18 DEF ServerReceive
<1>19. ASSUME NEW s \in StreamIds, Break(s) PROVE Locals'
  BY <1>19 DEF Break
<1>20. QED
  BY <1>1, <1>2, <1>3, <1>4, <1>5, <1>6, <1>7, <1>8, <1>9, <1>10, <1>11, <1>12,
     <1>13, <1>14, <1>15, <1>16, <1>17, <1>18, <1>19, Zenon
     DEF Next, Caller, SendLoop, RecvLoop, Network

-----------------------------------------------------------------------------
(***************************************************************************)
(* AliveHasSender and CurrentStreamDrained.  What a step must not do to    *)
(* the goroutines that serve a channel is stated once, as SendersKept and  *)
(* ReceiversKept, and shown action by action.                              *)
(***************************************************************************)
Sending(s, c) == schan[s] = c /\ Live(s)
AboutToStart(t, c) == cchan[t] = c /\ pc[t] = "start"

SendersKept ==
  /\ \A c \in Chans : current'[c] # None /\ ~dead'[c] =>
       (current[c] # None /\ ~dead[c]) \/ \E t \in Callers : AboutToStart(t, c)'
  /\ \A s \in StreamIds, c \in Chans : Sending(s, c) => dead'[c] \/ Sending(s, c)'
  /\ \A t \in Callers, c \in Chans : AboutToStart(t, c) =>
       AboutToStart(t, c)' \/ \E s \in StreamIds : Sending(s, c)'

\* SendersKept is what AliveHasSender needs of a step.
LEMMA SendersKeptSuffices == AliveHasSender /\ SendersKept => AliveHasSender'
BY DEF AliveHasSender, SendersKept, Sending, AboutToStart, Live

\* Every step keeps the senders of a channel that is alive.
LEMMA StepSendersKept == TypeOK /\ Locals /\ Next => SendersKept
<1> SUFFICES ASSUME TypeOK, Locals, ~panicked, Next PROVE SendersKept
  BY Zenon DEF Next
<1> USE NoneDistinct
        DEF TypeOK, Locals, CallerLocals, HasStream, OwnStream,
        Starting, Live, SendersKept, Sending, AboutToStart,
        callerVars, loopVars, sendVars, recvVars, procVars
<1>1. ASSUME NEW t \in Callers, GetStream(t) PROVE SendersKept
  BY <1>1 DEF GetStream, Decision
<1>2. ASSUME NEW t \in Callers, NEW s \in StreamIds, AddStreamInit(t, s) PROVE SendersKept
  BY <1>2, Zenon DEF AddStreamInit, Open
<1>3. ASSUME NEW t \in Callers, AddStreamFail(t) PROVE SendersKept
  BY <1>3 DEF AddStreamFail
<1>4. ASSUME NEW t \in Callers, NEW c \in Chans, AddStreamPublish(t, c) PROVE SendersKept
  BY <1>4 DEF AddStreamPublish
<1>5. ASSUME NEW t \in Callers, NEW s \in StreamIds, RestartStreamInit(t, s) PROVE SendersKept
  BY <1>5 DEF RestartStreamInit, Open
<1>6. ASSUME NEW t \in Callers, RestartStreamFail(t) PROVE SendersKept
  BY <1>6 DEF RestartStreamFail
<1>7. ASSUME NEW t \in Callers, RestartStreamRevive(t) PROVE SendersKept
  BY <1>7 DEF RestartStreamRevive
<1>8. ASSUME NEW t \in Callers, StartLoops(t) PROVE SendersKept
  BY <1>8 DEF StartLoops, RecvLoopStarted
<1>9. ASSUME NEW t \in Callers, Send(t) PROVE SendersKept
  BY <1>9 DEF Send
<1>10. ASSUME NEW c \in Chans, NEW m \in Msgs, Put(c, m) PROVE SendersKept
  BY <1>10, Zenon DEF Put
<1>11. CASE CloseAll
  BY <1>11, Zenon DEF CloseAll, CloseSend
<1>12. ASSUME NEW s \in StreamIds, SendLoopRange(s) PROVE SendersKept
  BY <1>12 DEF SendLoopRange, Received
<1>13. ASSUME NEW s \in StreamIds, SendLoopCall(s) PROVE SendersKept
  BY <1>13 DEF SendLoopCall
<1>14. ASSUME NEW s \in StreamIds, SendLoopSent(s) PROVE SendersKept
  BY <1>14, Zenon DEF SendLoopSent
<1>15. ASSUME NEW s \in StreamIds, SendLoopFail(s) PROVE SendersKept
  BY <1>15 DEF SendLoopFail, CloseSend, DeclaredDead, LoopReturns
<1>16. ASSUME NEW s \in StreamIds, RecvLoopCall(s) PROVE SendersKept
  BY <1>16, Zenon DEF RecvLoopCall
<1>17. ASSUME NEW s \in StreamIds, RecvLoopReturn(s) PROVE SendersKept
  BY <1>17, Zenon DEF RecvLoopReturn
<1>18. ASSUME NEW s \in StreamIds, NEW m \in Msgs, ServerReceive(s, m) PROVE SendersKept
  BY <1>18, Zenon DEF ServerReceive
<1>19. ASSUME NEW s \in StreamIds, Break(s) PROVE SendersKept
  BY <1>19, Zenon DEF Break
<1>20. QED
  BY <1>1, <1>2, <1>3, <1>4, <1>5, <1>6, <1>7, <1>8, <1>9, <1>10, <1>11, <1>12,
     <1>13, <1>14, <1>15, <1>16, <1>17, <1>18, <1>19, Zenon
     DEF Next, Caller, SendLoop, RecvLoop, Network

Receiving(s, c) ==
  rchan[s] = c /\ (rpc[s] = "iter" \/ (rpc[s] = "recv" /\ ron[s] = s))
AboutToReceive(t, c, s) ==
  cchan[t] = c /\ cstream[t] = s /\ pc[t] \in {"revive", "start"}

ReceiversKept ==
  /\ \A c \in Chans, s \in StreamIds : current'[c] = s /\ state'[s] = "open" =>
       \/ current[c] = s /\ state[s] = "open"
       \/ \E t \in Callers : AboutToReceive(t, c, s)'
  /\ \A c \in Chans, s \in StreamIds :
       current[c] = s /\ state'[s] = "open" /\ Receiving(s, c) => Receiving(s, c)'
  /\ \A c \in Chans, s \in StreamIds, t \in Callers :
       AboutToReceive(t, c, s) => AboutToReceive(t, c, s)' \/ Receiving(s, c)'

\* ReceiversKept is what OwnReceiver needs of a step.
LEMMA ReceiversKeptSuffices == OwnReceiver /\ ReceiversKept => OwnReceiver'
BY DEF OwnReceiver, ReceiversKept, Receiving, AboutToReceive

\* Every step keeps the receiver of a channel's current stream.
LEMMA StepReceiversKept == TypeOK /\ Locals /\ Next => ReceiversKept
<1> SUFFICES ASSUME TypeOK, Locals, Next PROVE ReceiversKept
  BY Zenon DEF Next
<1> USE NoneDistinct
        DEF TypeOK, Locals, CallerLocals, OwnStream, Starting,
        ReceiversKept, Receiving, AboutToReceive, callerVars,
        loopVars, sendVars, recvVars, procVars
<1>1. ASSUME NEW t \in Callers, GetStream(t) PROVE ReceiversKept
  BY <1>1 DEF GetStream, Decision
<1>2. ASSUME NEW t \in Callers, NEW s \in StreamIds, AddStreamInit(t, s) PROVE ReceiversKept
  BY <1>2 DEF AddStreamInit, Open
<1>3. ASSUME NEW t \in Callers, AddStreamFail(t) PROVE ReceiversKept
  BY <1>3 DEF AddStreamFail
<1>4. ASSUME NEW t \in Callers, NEW c \in Chans, AddStreamPublish(t, c) PROVE ReceiversKept
  BY <1>4 DEF AddStreamPublish
<1>5. ASSUME NEW t \in Callers, NEW s \in StreamIds, RestartStreamInit(t, s) PROVE ReceiversKept
  BY <1>5 DEF RestartStreamInit, Open
<1>6. ASSUME NEW t \in Callers, RestartStreamFail(t) PROVE ReceiversKept
  BY <1>6, Zenon DEF RestartStreamFail
<1>7. ASSUME NEW t \in Callers, RestartStreamRevive(t) PROVE ReceiversKept
  BY <1>7 DEF RestartStreamRevive
<1>8. ASSUME NEW t \in Callers, StartLoops(t) PROVE ReceiversKept
  BY <1>8 DEF StartLoops, RecvLoopStarted
<1>9. ASSUME NEW t \in Callers, Send(t) PROVE ReceiversKept
  BY <1>9 DEF Send
<1>10. ASSUME NEW c \in Chans, NEW m \in Msgs, Put(c, m) PROVE ReceiversKept
  BY <1>10, Zenon DEF Put
<1>11. CASE CloseAll
  BY <1>11 DEF CloseAll, CloseSend
<1>12. ASSUME NEW s \in StreamIds, SendLoopRange(s) PROVE ReceiversKept
  BY <1>12, Zenon DEF SendLoopRange, Received
<1>13. ASSUME NEW s \in StreamIds, SendLoopCall(s) PROVE ReceiversKept
  BY <1>13, Zenon DEF SendLoopCall
<1>14. ASSUME NEW s \in StreamIds, SendLoopSent(s) PROVE ReceiversKept
  BY <1>14, Zenon DEF SendLoopSent
<1>15. ASSUME NEW s \in StreamIds, SendLoopFail(s) PROVE ReceiversKept
  BY <1>15 DEF SendLoopFail, CloseSend, DeclaredDead, LoopReturns
<1>16. ASSUME NEW s \in StreamIds, RecvLoopCall(s) PROVE ReceiversKept
  BY <1>16 DEF RecvLoopCall
<1>17. ASSUME NEW s \in StreamIds, RecvLoopReturn(s) PROVE ReceiversKept
  BY <1>17 DEF RecvLoopReturn
<1>18. ASSUME NEW s \in StreamIds, NEW m \in Msgs, ServerReceive(s, m) PROVE ReceiversKept
  BY <1>18, Zenon DEF ServerReceive
<1>19. ASSUME NEW s \in StreamIds, Break(s) PROVE ReceiversKept
  BY <1>19 DEF Break
<1>20. QED
  BY <1>1, <1>2, <1>3, <1>4, <1>5, <1>6, <1>7, <1>8, <1>9, <1>10, <1>11, <1>12,
     <1>13, <1>14, <1>15, <1>16, <1>17, <1>18, <1>19, Zenon
     DEF Next, Caller, SendLoop, RecvLoop, Network

-----------------------------------------------------------------------------
\* The inductive invariant.
IInv == TypeOK /\ Locals /\ AliveHasSender /\ OwnReceiver

\* What holds for the loop a stream is named by gives CurrentStreamDrained.
LEMMA OwnReceiverDrains == OwnReceiver => CurrentStreamDrained
BY DEF OwnReceiver, CurrentStreamDrained

\* IInv is an invariant of the channel machinery.
LEMMA Inductive == Spec => []IInv
<1>1. Init => IInv
  <2> SUFFICES ASSUME Init PROVE AliveHasSender /\ OwnReceiver
    BY InitLocals, Zenon DEF IInv
  <2>1. QED BY NoneDistinct, Zenon DEF Init, AliveHasSender, OwnReceiver
<1>2. IInv /\ [Next]_vars => IInv'
  <2> SUFFICES ASSUME IInv, [Next]_vars PROVE IInv'
    BY Zenon
  <2>1. CASE Next
    BY <2>1, StepTypeOK, StepLocals, StepSendersKept, SendersKeptSuffices,
       StepReceiversKept, ReceiversKeptSuffices, Zenon DEF IInv
  <2>2. CASE UNCHANGED vars
    BY <2>2 DEF IInv, TypeOK, Locals, CallerLocals, LoopLocals, HasStream, OwnStream,
                Starting, Live, AliveHasSender, OwnReceiver, vars, callerVars,
                loopVars, sendVars, recvVars, procVars
  <2>3. QED BY <2>1, <2>2, Zenon
<1>3. QED BY <1>1, <1>2, PTL DEF Spec

\* The types hold, and no channel exceeds its capacity (make(chan MsgType, 1000)).
THEOREM TypeCorrect == Spec => []TypeOK
BY Inductive, PTL DEF IInv

\* A channel that GetStream hands out without a restart has a sendLoop, for any
\* number of concurrent callers and failures of its streams.
THEOREM AliveChannelsHaveSenders == Spec => []AliveHasSender
BY Inductive, PTL DEF IInv

\* The responses on the current stream of a channel are always being read.
THEOREM CurrentStreamsAreDrained == Spec => []CurrentStreamDrained
BY Inductive, OwnReceiverDrains, PTL DEF IInv

-----------------------------------------------------------------------------
(***************************************************************************)
(* One caller at a time.  If GetStream is never called concurrently, there *)
(* is at most one sendLoop, so gRPC's rule is kept.  That this needs the   *)
(* assumption is shown by the run of NoConcurrentSend with two callers.    *)
(***************************************************************************)
NoSender == \A s \in StreamIds : ~Live(s)

OneSender ==
  /\ \A s1, s2 \in StreamIds : Live(s1) /\ Live(s2) => s1 = s2
  /\ entry = None \/ dead[entry] => NoSender
  /\ \A t \in Callers : pc[t] \in {"add", "publish", "restart", "revive", "start"} => NoSender
  /\ \A t \in Callers : pc[t] \in {"restart", "revive", "start"} => cchan[t] = entry
  /\ \A t \in Callers : pc[t] = "start" => ~dead[entry]
  /\ ~panicked => \A c \in Chans : dead[c] => current[c] # None

\* the map entry is set once: it is the channel of every sendLoop, and the only
\* channel that is ever declared dead
OneChannel ==
  /\ \A t \in Callers : pc[t] \in {"add", "publish"} => entry = None
  /\ \A s \in StreamIds : Live(s) => schan[s] = entry
  /\ \A c \in Chans : dead[c] => entry = c

\* Every step of a system with one caller preserves OneSender.
LEMMA StepOneSender ==
  ASSUME \A t, u \in Callers : t = u
  PROVE  TypeOK /\ Locals /\ OneSender /\ Next => OneSender'
<1> SUFFICES ASSUME TypeOK, Locals, OneSender, ~panicked, Next PROVE OneSender'
  BY Zenon DEF Next
<1> USE NoneDistinct
        DEF TypeOK, Locals, CallerLocals, LoopLocals, HasStream,
        OwnStream, Starting, Live, OneSender, NoSender, callerVars,
        loopVars, sendVars, recvVars, procVars
<1>1. ASSUME NEW t \in Callers, GetStream(t) PROVE OneSender'
  BY <1>1 DEF GetStream, Decision
<1>2. ASSUME NEW t \in Callers, NEW s \in StreamIds, AddStreamInit(t, s) PROVE OneSender'
  BY <1>2 DEF AddStreamInit, Open
<1>3. ASSUME NEW t \in Callers, AddStreamFail(t) PROVE OneSender'
  BY <1>3 DEF AddStreamFail
<1>4. ASSUME NEW t \in Callers, NEW c \in Chans, AddStreamPublish(t, c) PROVE OneSender'
  BY <1>4 DEF AddStreamPublish
<1>5. ASSUME NEW t \in Callers, NEW s \in StreamIds, RestartStreamInit(t, s) PROVE OneSender'
  BY <1>5 DEF RestartStreamInit, Open
<1>6. ASSUME NEW t \in Callers, RestartStreamFail(t) PROVE OneSender'
  BY <1>6, Zenon DEF RestartStreamFail
<1>7. ASSUME NEW t \in Callers, RestartStreamRevive(t) PROVE OneSender'
  BY <1>7 DEF RestartStreamRevive
<1>8. ASSUME NEW t \in Callers, StartLoops(t) PROVE OneSender'
  BY <1>8 DEF StartLoops, RecvLoopStarted
<1>9. ASSUME NEW t \in Callers, Send(t) PROVE OneSender'
  BY <1>9 DEF Send
<1>10. ASSUME NEW c \in Chans, NEW m \in Msgs, Put(c, m) PROVE OneSender'
  BY <1>10, Zenon DEF Put
<1>11. CASE CloseAll
  BY <1>11, Zenon DEF CloseAll, CloseSend
<1>12. ASSUME NEW s \in StreamIds, SendLoopRange(s) PROVE OneSender'
  BY <1>12 DEF SendLoopRange, Received
<1>13. ASSUME NEW s \in StreamIds, SendLoopCall(s) PROVE OneSender'
  BY <1>13 DEF SendLoopCall
<1>14. ASSUME NEW s \in StreamIds, SendLoopSent(s) PROVE OneSender'
  BY <1>14 DEF SendLoopSent
<1>15. ASSUME NEW s \in StreamIds, SendLoopFail(s) PROVE OneSender'
  BY <1>15 DEF SendLoopFail, CloseSend, DeclaredDead, LoopReturns
<1>16. ASSUME NEW s \in StreamIds, RecvLoopCall(s) PROVE OneSender'
  BY <1>16, Zenon DEF RecvLoopCall
<1>17. ASSUME NEW s \in StreamIds, RecvLoopReturn(s) PROVE OneSender'
  BY <1>17, Zenon DEF RecvLoopReturn
<1>18. ASSUME NEW s \in StreamIds, NEW m \in Msgs, ServerReceive(s, m) PROVE OneSender'
  BY <1>18, Zenon DEF ServerReceive
<1>19. ASSUME NEW s \in StreamIds, Break(s) PROVE OneSender'
  BY <1>19, Zenon DEF Break
<1>20. QED
  BY <1>1, <1>2, <1>3, <1>4, <1>5, <1>6, <1>7, <1>8, <1>9, <1>10, <1>11, <1>12,
     <1>13, <1>14, <1>15, <1>16, <1>17, <1>18, <1>19, Zenon
     DEF Next, Caller, SendLoop, RecvLoop, Network

\* With one caller at a time OneSender holds throughout.
LEMMA OneSenderInvariant ==
  ASSUME \A t, u \in Callers : t = u
  PROVE  Spec => []OneSender
<1>1. Init => OneSender
  BY NoneDistinct DEF Init, OneSender, NoSender, Live
<1>2. IInv /\ OneSender /\ [Next]_vars => OneSender'
  <2> SUFFICES ASSUME IInv, OneSender, [Next]_vars PROVE OneSender'
    BY Zenon
  <2>1. CASE Next
    BY <2>1, StepOneSender, Zenon DEF IInv
  <2>2. CASE UNCHANGED vars
    BY <2>2, Zenon DEF OneSender, NoSender, Live, vars, callerVars, loopVars,
                sendVars, procVars
  <2>3. QED BY <2>1, <2>2, Zenon
<1>3. QED BY <1>1, <1>2, Inductive, PTL DEF Spec

\* "gRPC does not allow sending to a stream from multiple goroutines directly":
\* with one caller at a time no two sendLoops are in SendMsg of one stream.
THEOREM SequentialCallersSendAlone ==
  ASSUME \A t, u \in Callers : t = u
  PROVE  Spec => []NoConcurrentSend
<1>1. OneSender => NoConcurrentSend
  BY Zenon DEF OneSender, NoConcurrentSend, Live
<1>2. QED BY <1>1, OneSenderInvariant, PTL

\* Every step of a system with one caller preserves OneChannel.
LEMMA StepOneChannel ==
  ASSUME \A t, u \in Callers : t = u
  PROVE  TypeOK /\ Locals /\ OneSender /\ OneChannel /\ Next => OneChannel'
<1> SUFFICES ASSUME TypeOK, Locals, OneSender, OneChannel, Next PROVE OneChannel'
  BY Zenon
<1> USE NoneDistinct
        DEF TypeOK, Locals, CallerLocals, LoopLocals, Live, OneChannel, callerVars,
        loopVars, sendVars, recvVars, procVars
<1>1. ASSUME NEW t \in Callers, GetStream(t) PROVE OneChannel'
  BY <1>1, Zenon DEF GetStream, Decision
<1>2. ASSUME NEW t \in Callers, NEW s \in StreamIds, AddStreamInit(t, s) PROVE OneChannel'
  BY <1>2, Zenon DEF AddStreamInit, Open
<1>3. ASSUME NEW t \in Callers, AddStreamFail(t) PROVE OneChannel'
  BY <1>3, Zenon DEF AddStreamFail
<1>4. ASSUME NEW t \in Callers, NEW c \in Chans, AddStreamPublish(t, c) PROVE OneChannel'
  BY <1>4 DEF AddStreamPublish, OneSender, NoSender
<1>5. ASSUME NEW t \in Callers, NEW s \in StreamIds, RestartStreamInit(t, s) PROVE OneChannel'
  BY <1>5, Zenon DEF RestartStreamInit, Open
<1>6. ASSUME NEW t \in Callers, RestartStreamFail(t) PROVE OneChannel'
  BY <1>6, Zenon DEF RestartStreamFail
<1>7. ASSUME NEW t \in Callers, RestartStreamRevive(t) PROVE OneChannel'
  BY <1>7 DEF RestartStreamRevive
<1>8. ASSUME NEW t \in Callers, StartLoops(t) PROVE OneChannel'
  BY <1>8 DEF StartLoops, RecvLoopStarted, OneSender
<1>9. ASSUME NEW t \in Callers, Send(t) PROVE OneChannel'
  BY <1>9, Zenon DEF Send
<1>10. ASSUME NEW c \in Chans, NEW m \in Msgs, Put(c, m) PROVE OneChannel'
  BY <1>10, Zenon DEF Put
<1>11. CASE CloseAll
  BY <1>11, Zenon DEF CloseAll
<1>12. ASSUME NEW s \in StreamIds, SendLoopRange(s) PROVE OneChannel'
  BY <1>12, Zenon DEF SendLoopRange
<1>13. ASSUME NEW s \in StreamIds, SendLoopCall(s) PROVE OneChannel'
  BY <1>13, Zenon DEF SendLoopCall
<1>14. ASSUME NEW s \in StreamIds, SendLoopSent(s) PROVE OneChannel'
  BY <1>14, Zenon DEF SendLoopSent
<1>15. ASSUME NEW s \in StreamIds, SendLoopFail(s) PROVE OneChannel'
  BY <1>15 DEF SendLoopFail, DeclaredDead, LoopReturns
<1>16. ASSUME NEW s \in StreamIds, RecvLoopCall(s) PROVE OneChannel'
  BY <1>16, Zenon DEF RecvLoopCall
<1>17. ASSUME NEW s \in StreamIds, RecvLoopReturn(s) PROVE OneChannel'
  BY <1>17, Zenon DEF RecvLoopReturn
<1>18. ASSUME NEW s \in StreamIds, NEW m \in Msgs, ServerReceive(s, m) PROVE OneChannel'
  BY <1>18, Zenon DEF ServerReceive
<1>19. ASSUME NEW s \in StreamIds, Break(s) PROVE OneChannel'
  BY <1>19, Zenon DEF Break
<1>20. QED
  BY <1>1, <1>2, <1>3, <1>4, <1>5, <1>6, <1>7, <1>8, <1>9, <1>10, <1>11, <1>12,
     <1>13, <1>14, <1>15, <1>16, <1>17, <1>18, <1>19, Zenon
     DEF Next, Caller, SendLoop, RecvLoop, Network

\* "Put the message back on the channel, so that it does not get lost": with one
\* caller at a time the channel that a failing sendLoop declares dead, and whose
\* goroutine puts the message back, is the one that the next GetStream restarts.
THEOREM SequentialCallersFindWhatWasPutBack ==
  ASSUME \A t, u \in Callers : t = u
  PROVE  Spec => []PutBackReachable
<1>1. Init => OneChannel
  BY Zenon DEF Init, OneChannel, Live
<1>2. IInv /\ OneSender /\ OneChannel /\ [Next]_vars => OneChannel'
  <2> SUFFICES ASSUME IInv, OneSender, OneChannel, [Next]_vars PROVE OneChannel'
    BY Zenon
  <2>1. CASE Next
    BY <2>1, StepOneChannel, Zenon DEF IInv
  <2>2. CASE UNCHANGED vars
    BY <2>2, Zenon DEF OneChannel, Live, vars, callerVars, loopVars, sendVars
  <2>3. QED BY <2>1, <2>2, Zenon
<1>3. OneChannel => PutBackReachable
  BY Zenon DEF OneChannel, PutBackReachable
<1>4. QED BY <1>1, <1>2, <1>3, Inductive, OneSenderInvariant, PTL DEF Spec

-----------------------------------------------------------------------------
(***************************************************************************)
(* NoSilentLoss.                                                           *)
(***************************************************************************)
\* what NoSilentLoss says of a step, for one message and one channel
Kept(m, c) == HeldBy(m, c) => HeldBy(m, c)' \/ m \in OnWire'

\* Every step keeps the messages a channel has accepted.
LEMMA StepKept == TypeOK /\ Locals /\ Next => \A m \in Msgs, c \in Chans : Kept(m, c)
<1> SUFFICES ASSUME TypeOK, Locals, NEW m0 \in Msgs, NEW c0 \in Chans, HeldBy(m0, c0), Next
             PROVE  HeldBy(m0, c0)' \/ m0 \in OnWire'
  BY Zenon DEF Kept
<1> DEFINE K == HeldBy(m0, c0)' \/ m0 \in OnWire'
<1> USE NoneDistinct
        DEF HeldBy, InQueue, callerVars, loopVars, sendVars, recvVars,
        procVars
<1>1. ASSUME NEW t \in Callers, GetStream(t) PROVE K
  BY <1>1, Zenon DEF GetStream, Decision
<1>2. ASSUME NEW t \in Callers, NEW s \in StreamIds, AddStreamInit(t, s) PROVE K
  BY <1>2, Zenon DEF AddStreamInit, Open
<1>3. ASSUME NEW t \in Callers, AddStreamFail(t) PROVE K
  BY <1>3, Zenon DEF AddStreamFail
<1>4. ASSUME NEW t \in Callers, NEW c \in Chans, AddStreamPublish(t, c) PROVE K
  BY <1>4, Zenon DEF AddStreamPublish
<1>5. ASSUME NEW t \in Callers, NEW s \in StreamIds, RestartStreamInit(t, s) PROVE K
  BY <1>5, Zenon DEF RestartStreamInit, Open
<1>6. ASSUME NEW t \in Callers, RestartStreamFail(t) PROVE K
  BY <1>6, Zenon DEF RestartStreamFail
<1>7. ASSUME NEW t \in Callers, RestartStreamRevive(t) PROVE K
  BY <1>7, Zenon DEF RestartStreamRevive
<1>8. ASSUME NEW t \in Callers, StartLoops(t) PROVE K
  <2>1. cstream[t] \in StreamIds /\ spc[cstream[t]] = "none"
    BY <1>8, Zenon DEF Locals, CallerLocals, OwnStream, Starting, StartLoops
  <2>2. smsg[cstream[t]] = None
    BY <2>1, Zenon DEF Locals, LoopLocals
  <2>3. \A x \in StreamIds : smsg[x] = m0 => schan'[x] = schan[x]
    BY <1>8, <2>2 DEF TypeOK, StartLoops
  <2>4. QED BY <1>8, <2>3, Zenon DEF StartLoops
<1>9. ASSUME NEW t \in Callers, Send(t) PROVE K
  BY <1>9, Zenon DEF Send
<1>10. ASSUME NEW c \in Chans, NEW m \in Msgs, Put(c, m) PROVE K
  <2>1. /\ queue[c] \in Seq(Msgs) /\ queue'[c] = Append(queue[c], m)
        /\ \A d \in Chans : d # c => queue'[d] = queue[d]
    BY <1>10 DEF TypeOK, Put
  <2>2. UNCHANGED <<schan, smsg>> /\ putting' = putting \ {<<c, m>>}
    BY <1>10, Zenon DEF Put, loopVars, sendVars
  <2>3. CASE InQueue(m0, c0) /\ c0 = c
    <3>1. PICK i \in 1..Len(queue[c]) : queue[c][i] = m0
      BY <2>3, Zenon DEF InQueue
    <3>2. \E k \in 1..Len(Append(queue[c], m)) : Append(queue[c], m)[k] = m0
      BY <2>1, <3>1, TailAndAppend
    <3>3. InQueue(m0, c)'
      BY <2>1, <3>2, Zenon DEF InQueue
    <3>4. QED BY <2>3, <3>3, Zenon DEF HeldBy
  <2>4. CASE InQueue(m0, c0) /\ c0 # c
    BY <2>1, <2>4, Zenon DEF HeldBy, InQueue
  <2>5. CASE <<c0, m0>> \in putting /\ c0 = c /\ m0 = m
    <3> DEFINE q == Append(queue[c], m)
    <3>1. Len(queue[c]) + 1 \in 1..Len(q) /\ q[Len(queue[c]) + 1] = m
      BY <2>1
    <3> HIDE DEF q
    <3>2. InQueue(m, c)'
      BY <2>1, <3>1, Zenon DEF InQueue, q
    <3>3. QED BY <2>5, <3>2, Zenon DEF HeldBy
  <2>6. CASE <<c0, m0>> \in putting /\ ~(c0 = c /\ m0 = m)
    <3>1. <<c0, m0>> \in putting'
      BY <2>2, <2>6, Zenon
    <3>2. QED BY <3>1, Zenon DEF HeldBy
  <2>7. QED BY <2>2, <2>3, <2>4, <2>5, <2>6, Zenon DEF HeldBy
<1>11. CASE CloseAll
  BY <1>11, Zenon DEF CloseAll, CloseSend
<1>12. ASSUME NEW s \in StreamIds, SendLoopRange(s) PROVE K
  <2> USE <1>12 DEF SendLoopRange, Received
  <2>1. CASE InQueue(m0, c0)
    <3>1. CASE c0 = schan[s] /\ m0 = Head(queue[c0])
      BY <3>1, Zenon DEF TypeOK, HeldBy
    <3>2. CASE c0 = schan[s] /\ m0 # Head(queue[c0])
      <4>1. InQueue(m0, c0)'
        BY <2>1, <3>2, TailAndAppend DEF TypeOK, InQueue
      <4>2. QED BY <4>1, Zenon DEF HeldBy
    <3>3. CASE c0 # schan[s]
      BY <2>1, <3>3, Zenon DEF TypeOK, HeldBy, InQueue
    <3>4. QED BY <3>1, <3>2, <3>3, Zenon
  <2>2. CASE <<c0, m0>> \in putting
    BY <2>2, Zenon DEF HeldBy
  <2>3. ASSUME NEW x \in StreamIds, schan[x] = c0, smsg[x] = m0 PROVE K
    <3>1. x # s
      BY <2>3, NoneDistinct, Zenon DEF Locals, LoopLocals
    <3>2. smsg'[x] = smsg[x] /\ schan'[x] = schan[x]
      BY <3>1, Zenon DEF TypeOK
    <3>3. QED BY <2>3, <3>2, Zenon DEF HeldBy
  <2>4. QED BY <2>1, <2>2, <2>3, Zenon DEF HeldBy
<1>13. ASSUME NEW s \in StreamIds, SendLoopCall(s) PROVE K
  BY <1>13, Zenon DEF SendLoopCall
<1>14. ASSUME NEW s \in StreamIds, SendLoopSent(s) PROVE K
  BY <1>14 DEF TypeOK, Locals, LoopLocals, OnWire, SendLoopSent
<1>15. ASSUME NEW s \in StreamIds, SendLoopFail(s) PROVE K
  BY <1>15, Zenon DEF TypeOK, SendLoopFail, LoopReturns, WithPutBack
<1>16. ASSUME NEW s \in StreamIds, RecvLoopCall(s) PROVE K
  BY <1>16, Zenon DEF RecvLoopCall
<1>17. ASSUME NEW s \in StreamIds, RecvLoopReturn(s) PROVE K
  BY <1>17, Zenon DEF RecvLoopReturn
<1>18. ASSUME NEW s \in StreamIds, NEW m \in Msgs, ServerReceive(s, m) PROVE K
  BY <1>18, Zenon DEF ServerReceive
<1>19. ASSUME NEW s \in StreamIds, Break(s) PROVE K
  BY <1>19, Zenon DEF Break
<1>20. QED
  BY <1>1, <1>2, <1>3, <1>4, <1>5, <1>6, <1>7, <1>8, <1>9, <1>10, <1>11, <1>12,
     <1>13, <1>14, <1>15, <1>16, <1>17, <1>18, <1>19, Zenon
     DEF Next, Caller, SendLoop, RecvLoop, Network

\* A message that a channel accepted stays with it until a stream takes it,
\* however often the stream fails and is restarted.
THEOREM MessagesAreNotLost == Spec => NoSilentLoss
<1>1. IInv /\ [Next]_vars =>
        [\A m \in Msgs, c \in Chans : HeldBy(m, c) => HeldBy(m, c)' \/ m \in OnWire']_vars
  BY StepKept, Zenon DEF IInv, Kept
<1>2. QED BY <1>1, Inductive, PTL DEF Spec, NoSilentLoss

-----------------------------------------------------------------------------
(***************************************************************************)
(* AtMostOnce.  Most actions leave every message where it is; the others   *)
(* are the seven moves of a message (Moves).  Once says that a message has *)
(* one place without counting.                                             *)
(***************************************************************************)
At(m, c, i) == i \in 1..Len(queue[c]) /\ queue[c][i] = m

InChannel(m) == \E c \in Chans, i \in Nat : At(m, c, i)
WithLoop(m) == \E s \in StreamIds : smsg[s] = m
Blocked(m) == \E c \in Chans : <<c, m>> \in putting
OnStream(m) == \E s \in StreamIds : m \in wire[s]

Once(m) ==
  /\ InChannel(m) => ~WithLoop(m) /\ ~Blocked(m) /\ ~OnStream(m)
  /\ WithLoop(m) => ~Blocked(m) /\ ~OnStream(m)
  /\ Blocked(m) => ~OnStream(m)
  /\ \A c, d \in Chans, i, j \in Nat : At(m, c, i) /\ At(m, d, j) => c = d /\ i = j
  /\ \A s, r \in StreamIds : smsg[s] = m /\ smsg[r] = m => s = r
  /\ \A c, d \in Chans : <<c, m>> \in putting /\ <<d, m>> \in putting => c = d
  /\ \A s, r \in StreamIds : m \in wire[s] /\ m \in wire[r] => s = r

placeVars == <<queue, smsg, putting, wire>>

Moves ==
  \/ UNCHANGED placeVars
  \/ \E t \in Callers : Send(t)
  \/ \E c \in Chans, m \in Msgs : Put(c, m)
  \/ \E s \in StreamIds : SendLoopRange(s) \/ SendLoopSent(s) \/ SendLoopFail(s)
  \/ \E s \in StreamIds, m \in Msgs : ServerReceive(s, m)
  \/ \E s \in StreamIds : Break(s)

\* The other actions move no message.
LEMMA StepMoves == [Next]_vars => Moves
<1> SUFFICES ASSUME [Next]_vars PROVE Moves
  BY Zenon
<1> USE DEF Moves, placeVars, callerVars, loopVars, sendVars
<1>1. ASSUME NEW t \in Callers, GetStream(t) PROVE Moves
  BY <1>1, Zenon DEF GetStream
<1>2. ASSUME NEW t \in Callers, NEW s \in StreamIds, AddStreamInit(t, s) PROVE Moves
  BY <1>2, Zenon DEF AddStreamInit
<1>3. ASSUME NEW t \in Callers, AddStreamFail(t) PROVE Moves
  BY <1>3, Zenon DEF AddStreamFail
<1>4. ASSUME NEW t \in Callers, NEW c \in Chans, AddStreamPublish(t, c) PROVE Moves
  BY <1>4, Zenon DEF AddStreamPublish
<1>5. ASSUME NEW t \in Callers, NEW s \in StreamIds, RestartStreamInit(t, s) PROVE Moves
  BY <1>5, Zenon DEF RestartStreamInit
<1>6. ASSUME NEW t \in Callers, RestartStreamFail(t) PROVE Moves
  BY <1>6, Zenon DEF RestartStreamFail
<1>7. ASSUME NEW t \in Callers, RestartStreamRevive(t) PROVE Moves
  BY <1>7, Zenon DEF RestartStreamRevive
<1>8. ASSUME NEW t \in Callers, StartLoops(t) PROVE Moves
  BY <1>8, Zenon DEF StartLoops
<1>9. CASE CloseAll
  BY <1>9, Zenon DEF CloseAll
<1>10. ASSUME NEW s \in StreamIds, SendLoopCall(s) PROVE Moves
  BY <1>10, Zenon DEF SendLoopCall
<1>11. ASSUME NEW s \in StreamIds, RecvLoopCall(s) PROVE Moves
  BY <1>11, Zenon DEF RecvLoopCall
<1>12. ASSUME NEW s \in StreamIds, RecvLoopReturn(s) PROVE Moves
  BY <1>12, Zenon DEF RecvLoopReturn
<1>13. CASE UNCHANGED vars
  BY <1>13, Zenon DEF vars
<1>14. QED
  BY <1>1, <1>2, <1>3, <1>4, <1>5, <1>6, <1>7, <1>8, <1>9, <1>10, <1>11, <1>12, <1>13, Zenon
     DEF Next, Caller, SendLoop, RecvLoop, Network, Moves

\* A message that has no place is in no channel, loop, goroutine or stream.
LEMMA Nowhere ==
  ASSUME TypeOK, NEW m \in Msgs, Places(m) = {}
  PROVE  ~InChannel(m) /\ ~WithLoop(m) /\ ~Blocked(m) /\ ~OnStream(m)
<1>1. ~InChannel(m)
  <2> SUFFICES ASSUME NEW c \in Chans, NEW i \in Nat, At(m, c, i) PROVE FALSE
    BY Zenon DEF InChannel
  <2>1. i \in 1..Cap /\ i <= Len(queue[c]) /\ queue[c][i] = m
    BY StreamsAssumption DEF TypeOK, At
  <2>2. <<c, i>> \in {x \in Chans \X (1..Cap) :
                       x[2] <= Len(queue[x[1]]) /\ queue[x[1]][x[2]] = m}
    BY <2>1, Zenon
  <2>3. <<"queue", <<c, i>>[1], <<c, i>>[2]>> \in Places(m)
    BY <2>2, Zenon DEF Places
  <2>4. QED BY <2>3, Zenon
<1>2. ~WithLoop(m) /\ ~OnStream(m)
  BY Zenon DEF Places, WithLoop, OnStream
<1>3. ~Blocked(m)
  BY Zenon DEF Places, Blocked
<1>4. QED BY <1>1, <1>2, <1>3, Zenon

\* A step that puts m nowhere new keeps it in one place.
LEMMA OnceKept ==
  ASSUME NEW m \in Msgs, Once(m),
         \A c \in Chans, i \in Nat : At(m, c, i)' => At(m, c, i),
         \A s \in StreamIds : smsg'[s] = m => smsg[s] = m,
         \A c \in Chans : <<c, m>> \in putting' => <<c, m>> \in putting,
         \A s \in StreamIds : m \in wire'[s] => m \in wire[s]
  PROVE  Once(m)'
<1>1. /\ InChannel(m)' => InChannel(m)
      /\ WithLoop(m)' => WithLoop(m)
      /\ Blocked(m)' => Blocked(m)
      /\ OnStream(m)' => OnStream(m)
  BY Zenon DEF InChannel, WithLoop, Blocked, OnStream
<1>2. QED BY <1>1, Zenon DEF Once

\* A receive from channel c moves its messages by one, its first one excepted.
LEMMA ReceiveShifts ==
  ASSUME NEW c \in Chans, queue[c] \in Seq(Msgs), queue[c] # <<>>,
         queue'[c] = Tail(queue[c]), \A d \in Chans : d # c => queue'[d] = queue[d],
         NEW m \in Msgs
  PROVE  /\ \A d \in Chans, i \in Nat : d # c => (At(m, d, i)' <=> At(m, d, i))
         /\ \A i \in Nat : At(m, c, i)' => At(m, c, i + 1) /\ i # 0
         /\ Head(queue[c]) = m <=> At(m, c, 1)
         /\ \A i \in Nat \ {0} : At(m, c, i) => i = 1 \/ At(m, c, i - 1)'
<1>1. \A d \in Chans, i \in Nat : d # c => (At(m, d, i)' <=> At(m, d, i))
  BY Zenon DEF At
<1>2. ASSUME NEW i \in Nat, At(m, c, i)' PROVE At(m, c, i + 1) /\ i # 0
  BY <1>2 DEF At
<1>3. Head(queue[c]) = m <=> At(m, c, 1)
  BY DEF At
<1>4. ASSUME NEW i \in Nat \ {0}, At(m, c, i), i # 1 PROVE At(m, c, i - 1)'
  BY <1>4 DEF At
<1>5. QED BY <1>1, <1>2, <1>3, <1>4, Zenon

\* A send on channel c adds a message at its end.
LEMMA SendAdds ==
  ASSUME NEW c \in Chans, queue[c] \in Seq(Msgs), NEW m \in Msgs,
         queue'[c] = Append(queue[c], m), \A d \in Chans : d # c => queue'[d] = queue[d],
         NEW x \in Msgs, NEW d \in Chans, NEW i \in Nat
  PROVE  At(x, d, i)' <=> At(x, d, i) \/ (x = m /\ d = c /\ i = Len(queue[c]) + 1)
<1>1. CASE d # c
  BY <1>1, Zenon DEF At
<1>2. CASE d = c
  <2> DEFINE q == queue[c]
  <2>1. /\ Len(Append(q, m)) = Len(q) + 1 /\ Len(q) \in Nat
        /\ Append(q, m)[Len(q) + 1] = m
        /\ \A k \in 1..Len(q) : Append(q, m)[k] = q[k]
    OBVIOUS
  <2>2. i \in 1..Len(q) + 1 <=> i \in 1..Len(q) \/ i = Len(q) + 1
    BY <2>1
  <2>3. ~(i \in 1..Len(q) /\ i = Len(q) + 1)
    BY <2>1
  <2> HIDE DEF q
  <2>4. QED BY <1>2, <2>1, <2>2, <2>3, Zenon DEF At, q
<1>3. QED BY <1>1, <1>2, Zenon

\* A failing sendLoop moves its message to the goroutine that puts it back.
LEMMA FailMoves ==
  ASSUME TypeOK, Locals, NEW s \in StreamIds, SendLoopFail(s)
  PROVE  /\ UNCHANGED <<queue, wire>> /\ smsg'[s] = None
         /\ smsg[s] \in Msgs /\ schan[s] \in Chans
         /\ \A r \in StreamIds : r # s => smsg'[r] = smsg[r]
         /\ putting' = putting \cup {<<schan[s], smsg[s]>>}
<1>1. /\ UNCHANGED <<queue, wire>> /\ smsg' = [smsg EXCEPT ![s] = None]
      /\ putting' = putting \cup {<<schan[s], smsg[s]>>} /\ spc[s] = "sending"
  BY Zenon DEF SendLoopFail, WithPutBack
<1>2. smsg[s] \in Msgs /\ schan[s] \in Chans
  BY <1>1, Zenon DEF Locals, LoopLocals, Live
<1>3. QED BY <1>1, <1>2, Zenon DEF TypeOK

\* The seven moves keep a message in one place.
LEMMA StepOnce ==
  TypeOK /\ Locals /\ (\A m \in Msgs : Once(m)) /\ Moves => (\A m \in Msgs : Once(m)')
<1> SUFFICES ASSUME TypeOK, Locals, \A m \in Msgs : Once(m), Moves, NEW m0 \in Msgs
             PROVE  Once(m0)'
  BY Zenon
<1>a. Once(m0)
  BY Zenon
<1>1. CASE UNCHANGED placeVars
  BY <1>a, <1>1, OnceKept, Zenon DEF placeVars, At
<1>2. ASSUME NEW t \in Callers, Send(t) PROVE Once(m0)'
  <2>1. UNCHANGED <<queue, smsg, wire>>
    BY <1>2, Zenon DEF Send, loopVars, sendVars
  <2>2. CASE \A c \in Chans : <<c, m0>> \in putting' => <<c, m0>> \in putting
    BY <1>a, <2>1, <2>2, OnceKept, Zenon DEF At
  <2>3. CASE Places(m0) = {} /\ putting' = putting \cup {<<cchan[t], m0>>}
    <3>1. ~InChannel(m0) /\ ~WithLoop(m0) /\ ~Blocked(m0) /\ ~OnStream(m0)
      BY <2>3, Nowhere, Zenon
    <3>2. ~InChannel(m0)' /\ ~WithLoop(m0)' /\ ~OnStream(m0)'
      BY <2>1, <3>1, Zenon DEF InChannel, WithLoop, OnStream, At
    <3>3. \A c \in Chans : <<c, m0>> \in putting' => c = cchan[t]
      BY <2>3, <3>1, Zenon DEF Blocked
    <3>4. QED BY <3>2, <3>3, Zenon DEF Once, InChannel, WithLoop, OnStream
  <2>4. \/ UNCHANGED putting
        \/ \E m \in Msgs : Places(m) = {} /\ putting' = putting \cup {<<cchan[t], m>>}
    BY <1>2, Zenon DEF Send
  <2>5. ASSUME NEW m \in Msgs, m # m0, putting' = putting \cup {<<cchan[t], m>>},
               NEW c \in Chans, <<c, m0>> \in putting'
        PROVE  <<c, m0>> \in putting
    BY <2>5, Zenon
  <2>6. QED BY <2>2, <2>3, <2>4, <2>5, Zenon
<1>3. ASSUME NEW c \in Chans, NEW m \in Msgs, Put(c, m) PROVE Once(m0)'
  <2>1. /\ queue[c] \in Seq(Msgs) /\ queue'[c] = Append(queue[c], m)
        /\ \A d \in Chans : d # c => queue'[d] = queue[d]
        /\ <<c, m>> \in putting
    BY <1>3 DEF TypeOK, Put
  <2>2. UNCHANGED <<smsg, wire>> /\ putting' = putting \ {<<c, m>>}
    BY <1>3, Zenon DEF Put, loopVars, sendVars
  <2>3. \A d \in Chans, i \in Nat : At(m0, d, i)' =>
          At(m0, d, i) \/ (m0 = m /\ d = c /\ i = Len(queue[c]) + 1)
    BY <2>1, SendAdds, Zenon
  <2>4. CASE m = m0
    <3>1. ~InChannel(m0) /\ ~WithLoop(m0) /\ ~OnStream(m0)
      BY <1>a, <2>1, <2>4, Zenon DEF Once, Blocked
    <3>2. ~WithLoop(m0)' /\ ~OnStream(m0)'
      BY <2>2, <3>1, Zenon DEF WithLoop, OnStream
    <3>3. ~Blocked(m0)'
      BY <1>a, <2>1, <2>2, <2>4, Zenon DEF Once, Blocked
    <3>4. \A d \in Chans, i \in Nat : At(m0, d, i)' => d = c /\ i = Len(queue[c]) + 1
      BY <2>3, <3>1, Zenon DEF InChannel
    <3>5. \A d, e \in Chans, i, j \in Nat : At(m0, d, i)' /\ At(m0, e, j)' => d = e /\ i = j
      BY <3>4, Zenon
    <3>6. QED BY <3>2, <3>3, <3>5, Zenon DEF Once, WithLoop, Blocked, OnStream
  <2>5. CASE m # m0
    <3>1. \A d \in Chans : <<d, m0>> \in putting' => <<d, m0>> \in putting
      BY <2>2, Zenon
    <3>2. QED BY <1>a, <2>2, <2>3, <2>5, <3>1, OnceKept, Zenon
  <2>6. QED BY <2>4, <2>5, Zenon
<1>4. ASSUME NEW s \in StreamIds, SendLoopRange(s) PROVE Once(m0)'
  <2>1. PICK c \in Chans : c = schan[s]
    BY <1>4, Zenon DEF Locals, LoopLocals, Live, SendLoopRange
  <2>2. /\ queue[c] \in Seq(Msgs) /\ queue[c] # <<>> /\ queue'[c] = Tail(queue[c])
        /\ \A d \in Chans : d # c => queue'[d] = queue[d]
    BY <1>4, <2>1, Zenon DEF TypeOK, SendLoopRange, Received
  <2>3. /\ smsg'[s] = Head(queue[c]) /\ \A r \in StreamIds : r # s => smsg'[r] = smsg[r]
        /\ UNCHANGED <<putting, wire>>
    BY <1>4, <2>1 DEF TypeOK, SendLoopRange
  <2>4. /\ \A d \in Chans, i \in Nat : d # c => (At(m0, d, i)' <=> At(m0, d, i))
        /\ \A i \in Nat : At(m0, c, i)' => At(m0, c, i + 1) /\ i # 0
        /\ Head(queue[c]) = m0 <=> At(m0, c, 1)
    BY <2>2, ReceiveShifts, Zenon
  <2>5. \A i \in Nat : i + 1 \in Nat /\ (i # 0 => i + 1 # 1)
    OBVIOUS
  <2>6. InChannel(m0)' => InChannel(m0)
    BY <2>4, <2>5, Zenon DEF InChannel
  <2>7. (Blocked(m0)' <=> Blocked(m0)) /\ (OnStream(m0)' <=> OnStream(m0))
    BY <2>3, Zenon DEF Blocked, OnStream
  <2>8. CASE smsg'[s] = m0
    <3>1. InChannel(m0) /\ At(m0, c, 1)
      <4>1. 1 \in Nat
        BY Zenon
      <4>2. QED BY <2>3, <2>4, <2>8, <4>1, Zenon DEF InChannel
    <3>2. \A d \in Chans, i \in Nat : At(m0, d, i) => d = c /\ i = 1
      BY <1>a, <3>1, Zenon DEF Once
    <3>3. ~InChannel(m0)'
      BY <2>4, <2>5, <3>2, Zenon DEF InChannel
    <3>4. ~Blocked(m0)' /\ ~OnStream(m0)' /\ ~WithLoop(m0)
      BY <1>a, <2>7, <3>1, Zenon DEF Once
    <3>5. \A r \in StreamIds : smsg'[r] = m0 => r = s
      BY <2>3, <3>4, Zenon DEF WithLoop
    <3>6. QED BY <3>3, <3>4, <3>5, Zenon DEF Once, InChannel, Blocked, OnStream
  <2>9. CASE smsg'[s] # m0
    <3>1. \A r \in StreamIds : smsg'[r] = m0 => smsg[r] = m0
      BY <2>3, <2>9, Zenon
    <3>2. WithLoop(m0)' => WithLoop(m0)
      BY <3>1, Zenon DEF WithLoop
    <3>3. \A d, e \in Chans, i, j \in Nat :
            At(m0, d, i)' /\ At(m0, e, j)' => d = e /\ i = j
      <4> SUFFICES ASSUME NEW d \in Chans, NEW e \in Chans, NEW i \in Nat, NEW j \in Nat,
                          At(m0, d, i)', At(m0, e, j)'
                   PROVE  d = e /\ i = j
        BY Zenon
      <4> DEFINE k == IF d = c THEN i + 1 ELSE i
                 l == IF e = c THEN j + 1 ELSE j
      <4>1. k \in Nat /\ l \in Nat /\ At(m0, d, k) /\ At(m0, e, l)
        BY <2>4
      <4>2. d = e /\ k = l
        BY <1>a, <4>1, Zenon DEF Once
      <4>3. QED BY <4>2
    <3>4. \A r, q \in StreamIds : smsg'[r] = m0 /\ smsg'[q] = m0 => r = q
      BY <1>a, <3>1, Zenon DEF Once
    <3>5. /\ \A d, e \in Chans : <<d, m0>> \in putting' /\ <<e, m0>> \in putting' => d = e
          /\ \A r, q \in StreamIds : m0 \in wire'[r] /\ m0 \in wire'[q] => r = q
      BY <1>a, <2>3, Zenon DEF Once
    <3>6. QED BY <1>a, <2>6, <2>7, <3>2, <3>3, <3>4, <3>5, Zenon DEF Once
  <2>10. QED BY <2>8, <2>9, Zenon
<1>5. ASSUME NEW s \in StreamIds, SendLoopSent(s) PROVE Once(m0)'
  <2>1. /\ UNCHANGED <<queue, putting>> /\ smsg'[s] = None
        /\ \A r \in StreamIds : r # s => smsg'[r] = smsg[r]
        /\ \A r \in StreamIds : m0 \in wire'[r] => m0 \in wire[r] \/ (r = son[s] /\ smsg[s] = m0)
    BY <1>5, Zenon DEF TypeOK, SendLoopSent
  <2>2. CASE smsg[s] = m0
    <3>1. WithLoop(m0) /\ \A r \in StreamIds : r # s => smsg[r] # m0
      BY <1>a, <2>2, Zenon DEF Once, WithLoop
    <3>2. ~InChannel(m0) /\ ~Blocked(m0) /\ ~OnStream(m0)
      BY <1>a, <3>1, Zenon DEF Once
    <3>3. ~InChannel(m0)' /\ ~Blocked(m0)'
      BY <2>1, <3>2, Zenon DEF InChannel, Blocked, At
    <3>4. ~WithLoop(m0)'
      BY <2>1, <3>1, NoneDistinct, Zenon DEF WithLoop
    <3>5. \A r \in StreamIds : m0 \in wire'[r] => r = son[s]
      BY <2>1, <3>2, Zenon DEF OnStream
    <3>6. QED BY <3>3, <3>4, <3>5, Zenon DEF Once, InChannel, Blocked, WithLoop
  <2>3. CASE smsg[s] # m0
    <3>1. \A r \in StreamIds : (smsg'[r] = m0 => smsg[r] = m0) /\ (m0 \in wire'[r] => m0 \in wire[r])
      BY <2>1, <2>3, NoneDistinct, Zenon
    <3>2. QED BY <1>a, <2>1, <3>1, OnceKept, Zenon DEF At
  <2>4. QED BY <2>2, <2>3, Zenon
<1>6. ASSUME NEW s \in StreamIds, SendLoopFail(s) PROVE Once(m0)'
  <2>1. /\ UNCHANGED <<queue, wire>> /\ smsg'[s] = None
        /\ \A r \in StreamIds : r # s => smsg'[r] = smsg[r]
    BY <1>6, FailMoves, Zenon
  <2>2. \A d \in Chans : <<d, m0>> \in putting' =>
          <<d, m0>> \in putting \/ (d = schan[s] /\ smsg[s] = m0)
    BY <1>6, FailMoves
  <2>3. CASE smsg[s] = m0
    <3>1. WithLoop(m0) /\ \A r \in StreamIds : r # s => smsg[r] # m0
      BY <1>a, <2>3, Zenon DEF Once, WithLoop
    <3>2. ~InChannel(m0) /\ ~Blocked(m0) /\ ~OnStream(m0)
      BY <1>a, <3>1, Zenon DEF Once
    <3>3. ~InChannel(m0)' /\ ~OnStream(m0)'
      BY <2>1, <3>2, Zenon DEF InChannel, OnStream, At
    <3>4. ~WithLoop(m0)'
      BY <2>1, <3>1, NoneDistinct, Zenon DEF WithLoop
    <3>5. \A d \in Chans : <<d, m0>> \in putting' => d = schan[s]
      BY <2>2, <3>2, Zenon DEF Blocked
    <3>6. QED BY <3>3, <3>4, <3>5, Zenon DEF Once, InChannel, OnStream, WithLoop
  <2>4. CASE smsg[s] # m0
    <3>1. /\ \A r \in StreamIds : smsg'[r] = m0 => smsg[r] = m0
          /\ \A d \in Chans : <<d, m0>> \in putting' => <<d, m0>> \in putting
      BY <2>1, <2>2, <2>4, NoneDistinct, Zenon
    <3>2. QED BY <1>a, <2>1, <3>1, OnceKept, Zenon DEF At
  <2>5. QED BY <2>3, <2>4
<1>7. ASSUME NEW s \in StreamIds, NEW m \in Msgs, ServerReceive(s, m) PROVE Once(m0)'
  <2>1. \A r \in StreamIds : m0 \in wire'[r] => m0 \in wire[r]
    BY <1>7, Zenon DEF TypeOK, ServerReceive
  <2>2. UNCHANGED <<queue, smsg, putting>>
    BY <1>7, Zenon DEF ServerReceive, loopVars, sendVars
  <2>3. QED BY <1>a, <2>1, <2>2, OnceKept, Zenon DEF At
<1>8. ASSUME NEW s \in StreamIds, Break(s) PROVE Once(m0)'
  <2>1. \A r \in StreamIds : m0 \in wire'[r] => m0 \in wire[r]
    BY <1>8, Zenon DEF TypeOK, Break
  <2>2. UNCHANGED <<queue, smsg, putting>>
    BY <1>8, Zenon DEF Break, loopVars, sendVars
  <2>3. QED BY <1>a, <2>1, <2>2, OnceKept, Zenon DEF At
<1>9. QED BY <1>1, <1>2, <1>3, <1>4, <1>5, <1>6, <1>7, <1>8, Zenon DEF Moves

\* A message in one place has at most one place.
LEMMA OncePlace ==
  ASSUME TypeOK, NEW m \in Msgs, Once(m)
  PROVE  \A p, q \in Places(m) : p = q
<1> DEFINE Queued(p) == \E c \in Chans, i \in Nat : At(m, c, i) /\ p = <<"queue", c, i>>
           Looped(p) == \E s \in StreamIds : smsg[s] = m /\ p = <<"loop", s>>
           Waiting(p) == \E c \in Chans : <<c, m>> \in putting /\ p = <<"putting", c>>
           Wired(p) == \E s \in StreamIds : m \in wire[s] /\ p = <<"wire", s>>
<1>1. ASSUME NEW p \in Places(m) PROVE Queued(p) \/ Looped(p) \/ Waiting(p) \/ Wired(p)
  <2>1. ASSUME NEW x \in Chans \X (1..Cap), x[2] <= Len(queue[x[1]]), queue[x[1]][x[2]] = m
        PROVE  x[1] \in Chans /\ x[2] \in Nat /\ At(m, x[1], x[2])
    BY <2>1, StreamsAssumption DEF TypeOK, At
  <2>2. QED BY <1>1, <2>1, Zenon DEF Places
<1>2. ASSUME NEW p, NEW q, Queued(p) PROVE (Queued(q) => p = q) /\ ~Looped(q) /\ ~Waiting(q) /\ ~Wired(q)
  BY <1>2, Zenon DEF Once, InChannel, WithLoop, Blocked, OnStream
<1>3. ASSUME NEW p, NEW q, Looped(p) PROVE (Looped(q) => p = q) /\ ~Waiting(q) /\ ~Wired(q)
  BY <1>3, Zenon DEF Once, WithLoop, Blocked, OnStream
<1>4. ASSUME NEW p, NEW q, Waiting(p) PROVE (Waiting(q) => p = q) /\ ~Wired(q)
  BY <1>4, Zenon DEF Once, Blocked, OnStream
<1>5. ASSUME NEW p, NEW q, Wired(p), Wired(q) PROVE p = q
  BY <1>5, Zenon DEF Once
<1> HIDE DEF Queued, Looped, Waiting, Wired
<1>6. QED BY <1>1, <1>2, <1>3, <1>4, <1>5, Zenon

\* AtMostOnce in the form of Once is an invariant.
LEMMA OnceInvariant == Spec => [](\A m \in Msgs : Once(m))
<1>1. Init => \A m \in Msgs : Once(m)
  <2>1. Init => \A m \in Msgs : ~InChannel(m) /\ ~WithLoop(m) /\ ~Blocked(m) /\ ~OnStream(m)
    BY NoneDistinct DEF Init, InChannel, WithLoop, Blocked, OnStream, At
  <2>2. QED BY <2>1, Zenon DEF Once, InChannel, WithLoop, Blocked, OnStream
<1>2. IInv /\ (\A m \in Msgs : Once(m)) /\ [Next]_vars => (\A m \in Msgs : Once(m))'
  BY StepMoves, StepOnce, Zenon DEF IInv
<1>3. QED BY <1>1, <1>2, Inductive, PTL DEF Spec

\* A message is never in two places: putting failed messages back never makes a
\* server see a message twice, for any number of callers, restarts and failures.
THEOREM MessagesAreInOnePlace == Spec => []AtMostOnce
<1>1. ASSUME TypeOK, \A m \in Msgs : Once(m) PROVE AtMostOnce
  <2> SUFFICES ASSUME NEW m \in Msgs PROVE Cardinality(Places(m)) <= 1
    BY Zenon DEF AtMostOnce
  <2>1. \A p, q \in Places(m) : p = q
    BY <1>1, OncePlace, Zenon
  <2>2. QED BY <2>1, AtMostOneElement, Zenon
<1>2. IInv /\ (\A m \in Msgs : Once(m)) => AtMostOnce
  BY <1>1, Zenon DEF IInv
<1>3. QED BY <1>2, Inductive, OnceInvariant, PTL

-----------------------------------------------------------------------------
(***************************************************************************)
(* The channel machinery implements Relay.  Send of a message is Accept,   *)
(* SendMsg that takes it is HandOver, a read by the server and the end of  *)
(* a stream are Leave, and every other step changes nothing that Relay     *)
(* sees: a message that is received from a channel, or put back on it, is  *)
(* held throughout.                                                        *)
(***************************************************************************)
Waits(m) == InChannel(m) \/ WithLoop(m) \/ Blocked(m)

\* What Held says, without the channel.
LEMMA HeldIsWaiting == TypeOK /\ Locals => Held = {m \in Msgs : Waits(m)}
<1> SUFFICES ASSUME TypeOK, Locals, NEW m \in Msgs
             PROVE  (\E c \in Chans : HeldBy(m, c)) <=> Waits(m)
  BY Zenon DEF Held
<1>1. ASSUME NEW c \in Chans, HeldBy(m, c) PROVE Waits(m)
  <2>1. CASE InQueue(m, c)
    <3>1. PICK i \in 1..Len(queue[c]) : queue[c][i] = m
      BY <2>1, Zenon DEF InQueue
    <3>2. i \in Nat /\ At(m, c, i)
      BY <3>1 DEF TypeOK, At
    <3>3. QED BY <3>2, Zenon DEF Waits, InChannel, WithLoop, Blocked
  <2>2. QED BY <1>1, <2>1, Zenon DEF HeldBy, Waits, InChannel, WithLoop, Blocked
<1>2. ASSUME NEW c \in Chans, NEW i \in Nat, At(m, c, i) PROVE HeldBy(m, c)
  BY <1>2, Zenon DEF At, HeldBy, InQueue
<1>3. ASSUME NEW s \in StreamIds, smsg[s] = m PROVE schan[s] \in Chans /\ HeldBy(m, schan[s])
  BY <1>3, NoneDistinct, Zenon DEF Locals, LoopLocals, Live, HeldBy
<1>4. ASSUME NEW c \in Chans, <<c, m>> \in putting PROVE HeldBy(m, c)
  BY <1>4, Zenon DEF HeldBy
<1>5. QED BY <1>1, <1>2, <1>3, <1>4, Zenon DEF Waits, InChannel, WithLoop, Blocked

\* What a move does to the messages that wait and to those on a stream.
LEMMA MoveSteps ==
  ASSUME TypeOK, Locals, \A m \in Msgs : Once(m), Moves,
         NEW H, H = {m \in Msgs : Waits(m)}, NEW G, G = {m \in Msgs : Waits(m)'}
  PROVE  \/ G = H /\ OnWire' \subseteq OnWire
         \/ \E m \in Msgs : m \notin H \cup OnWire /\ G = H \cup {m} /\ OnWire' = OnWire
         \/ \E m \in Msgs : m \in H /\ G = H \ {m} /\ OnWire' = OnWire \cup {m}
<1> DEFINE Goal == \/ G = H /\ OnWire' \subseteq OnWire
                   \/ \E m \in Msgs : m \notin H \cup OnWire /\ G = H \cup {m} /\ OnWire' = OnWire
                   \/ \E m \in Msgs : m \in H /\ G = H \ {m} /\ OnWire' = OnWire \cup {m}
<1> SUFFICES Goal
  BY Zenon
<1>1. ASSUME UNCHANGED placeVars PROVE Goal
  <2>1. OnWire' = OnWire /\ \A m \in Msgs : Waits(m)' <=> Waits(m)
    BY <1>1, Zenon DEF placeVars, OnWire, Waits, InChannel, WithLoop, Blocked, At
  <2>2. QED BY <2>1, Zenon
<1>2. ASSUME NEW t \in Callers, Send(t) PROVE Goal
  <2>1. UNCHANGED <<queue, smsg, wire>> /\ cchan[t] \in Chans
    BY <1>2, Zenon DEF Send, loopVars, sendVars, Locals, CallerLocals
  <2>2. OnWire' = OnWire
    BY <2>1, Zenon DEF OnWire
  <2>3. CASE UNCHANGED putting
    <3>1. \A m \in Msgs : Waits(m)' <=> Waits(m)
      BY <2>1, <2>3, Zenon DEF Waits, InChannel, WithLoop, Blocked, At
    <3>2. QED BY <2>2, <3>1, Zenon
  <2>4. ASSUME NEW m \in Msgs, Places(m) = {}, putting' = putting \cup {<<cchan[t], m>>}
        PROVE  Goal
    <3>1. ~Waits(m) /\ m \notin OnWire
      BY <2>4, Nowhere, Zenon DEF Waits, OnStream, OnWire
    <3>2. \A x \in Msgs : Waits(x)' <=> Waits(x) \/ x = m
      BY <2>1, <2>4, Zenon DEF Waits, InChannel, WithLoop, Blocked, At
    <3>3. G = H \cup {m} /\ m \notin H
      BY <3>1, <3>2, Zenon
    <3>4. QED BY <2>2, <3>1, <3>3, Zenon
  <2>5. QED BY <1>2, <2>3, <2>4, Zenon DEF Send
<1>3. ASSUME NEW c \in Chans, NEW m \in Msgs, Put(c, m) PROVE Goal
  <2>1. /\ queue[c] \in Seq(Msgs) /\ queue'[c] = Append(queue[c], m)
        /\ \A d \in Chans : d # c => queue'[d] = queue[d]
        /\ <<c, m>> \in putting
    BY <1>3, Zenon DEF TypeOK, Put
  <2>2. UNCHANGED <<smsg, wire>> /\ putting' = putting \ {<<c, m>>}
    BY <1>3, Zenon DEF Put, loopVars, sendVars
  <2>3. \A x \in Msgs, d \in Chans, i \in Nat : At(x, d, i)' <=>
          At(x, d, i) \/ (x = m /\ d = c /\ i = Len(queue[c]) + 1)
    BY <2>1, SendAdds, Zenon
  <2>4. \A x \in Msgs : Waits(x)' <=> Waits(x)
    <3>1. Len(queue[c]) + 1 \in Nat
      BY <2>1
    <3>2. QED BY <2>1, <2>2, <2>3, <3>1, Zenon DEF Waits, InChannel, WithLoop, Blocked
  <2>5. OnWire' = OnWire
    BY <2>2, Zenon DEF OnWire
  <2>6. QED BY <2>4, <2>5, Zenon
<1>4. ASSUME NEW s \in StreamIds, SendLoopRange(s) PROVE Goal
  <2>0. PICK c \in Chans : c = schan[s]
    BY <1>4, Zenon DEF Locals, LoopLocals, Live, SendLoopRange
  <2>1. /\ queue[c] \in Seq(Msgs) /\ queue[c] # <<>> /\ queue'[c] = Tail(queue[c])
        /\ \A d \in Chans : d # c => queue'[d] = queue[d]
    BY <1>4, <2>0, Zenon DEF TypeOK, SendLoopRange, Received
  <2>2. /\ smsg[s] = None /\ smsg'[s] = Head(queue[c])
        /\ \A r \in StreamIds : r # s => smsg'[r] = smsg[r]
        /\ UNCHANGED <<putting, wire>>
    BY <1>4, <2>0, Zenon DEF TypeOK, Locals, LoopLocals, SendLoopRange
  <2>3. \A x \in Msgs : (\E i \in Nat : At(x, c, i)) <=>
          (x = Head(queue[c]) \/ \E i \in Nat : At(x, c, i)')
    <3> SUFFICES ASSUME NEW x \in Msgs
                 PROVE  (\E i \in Nat : At(x, c, i)) <=>
                          (x = Head(queue[c]) \/ \E i \in Nat : At(x, c, i)')
      BY Zenon
    <3>1. (\E i \in Nat : At(x, c, i)) <=> \E i \in 1..Len(queue[c]) : queue[c][i] = x
      BY <2>1 DEF At
    <3>2. (\E i \in Nat : At(x, c, i)') <=>
            \E i \in 1..Len(Tail(queue[c])) : Tail(queue[c])[i] = x
      BY <2>1 DEF At
    <3> DEFINE q == queue[c]
    <3> HIDE DEF q
    <3>3. q \in Seq(Msgs) /\ q # <<>>
      BY <2>1, Zenon DEF q
    <3>4. (\E i \in 1..Len(q) : q[i] = x) <=>
            (x = Head(q) \/ \E i \in 1..Len(Tail(q)) : Tail(q)[i] = x)
      BY <3>3, HeadOrTail
    <3>5. QED BY <3>1, <3>2, <3>4, Zenon DEF q
  <2>4. \A x \in Msgs, d \in Chans, i \in Nat : d # c => (At(x, d, i)' <=> At(x, d, i))
    BY <2>1, Zenon DEF At
  <2>5. \A x \in Msgs : Waits(x)' <=> Waits(x)
    BY <2>2, <2>3, <2>4, NoneDistinct, Zenon DEF Waits, InChannel, WithLoop, Blocked
  <2>6. OnWire' = OnWire
    BY <2>2, Zenon DEF OnWire
  <2>7. QED BY <2>5, <2>6, Zenon
<1>5. ASSUME NEW s \in StreamIds, SendLoopSent(s) PROVE Goal
  <2>1. /\ UNCHANGED <<queue, putting>> /\ smsg[s] \in Msgs /\ smsg'[s] = None
        /\ \A r \in StreamIds : r # s => smsg'[r] = smsg[r]
        /\ \A r \in StreamIds, x \in Msgs :
             x \in wire'[r] <=> x \in wire[r] \/ (r = son[s] /\ x = smsg[s])
        /\ son[s] \in StreamIds
    BY <1>5, Zenon DEF TypeOK, Locals, LoopLocals, SendLoopSent
  <2>2. \A x \in Msgs : Waits(x)' <=> Waits(x) /\ x # smsg[s]
    <3>1. /\ \A c \in Chans, i \in Nat : ~At(smsg[s], c, i)
          /\ \A c \in Chans : <<c, smsg[s]>> \notin putting
          /\ \A r \in StreamIds : r # s => smsg[r] # smsg[s]
      BY <2>1, Zenon DEF Once, InChannel, WithLoop, Blocked
    <3>2. \A x \in Msgs, c \in Chans, i \in Nat : At(x, c, i)' <=> At(x, c, i)
      BY <2>1, Zenon DEF At
    <3>3. \A r \in StreamIds, x \in Msgs : smsg'[r] = x => smsg[r] = x /\ x # smsg[s]
      BY <2>1, <3>1, NoneDistinct, Zenon
    <3>4. ASSUME NEW x \in Msgs, Waits(x)' PROVE Waits(x) /\ x # smsg[s]
      <4>1. InChannel(x)' => InChannel(x) /\ x # smsg[s]
        BY <3>1, <3>2, Zenon DEF InChannel
      <4>2. WithLoop(x)' => WithLoop(x) /\ x # smsg[s]
        BY <3>3, Zenon DEF WithLoop
      <4>3. Blocked(x)' => Blocked(x) /\ x # smsg[s]
        BY <2>1, <3>1, Zenon DEF Blocked
      <4>4. QED BY <3>4, <4>1, <4>2, <4>3, Zenon DEF Waits
    <3>5. ASSUME NEW x \in Msgs, Waits(x), x # smsg[s] PROVE Waits(x)'
      BY <2>1, <3>2, <3>5, Zenon DEF Waits, InChannel, WithLoop, Blocked
    <3>6. QED BY <3>4, <3>5, Zenon
  <2>3. OnWire' = OnWire \cup {smsg[s]}
    <3>1. \A x \in Msgs : x \in OnWire' <=> x \in OnWire \/ x = smsg[s]
      BY <2>1, Zenon DEF OnWire
    <3>2. OnWire \subseteq Msgs /\ OnWire' \subseteq Msgs
      BY Zenon DEF OnWire
    <3>3. QED BY <2>1, <3>1, <3>2, Zenon
  <2>4. Waits(smsg[s])
    BY <2>1, Zenon DEF Waits, InChannel, WithLoop, Blocked
  <2>5. smsg[s] \in H /\ G = H \ {smsg[s]}
    BY <2>1, <2>2, <2>4, Zenon
  <2>6. QED BY <2>1, <2>3, <2>5, Zenon
<1>6. ASSUME NEW s \in StreamIds, SendLoopFail(s) PROVE Goal
  <2>1. /\ UNCHANGED <<queue, wire>> /\ smsg'[s] = None
        /\ smsg[s] \in Msgs /\ schan[s] \in Chans
        /\ \A r \in StreamIds : r # s => smsg'[r] = smsg[r]
        /\ putting' = putting \cup {<<schan[s], smsg[s]>>}
    BY <1>6, FailMoves, Zenon
  <2>2. \A x \in Msgs : Waits(x)' <=> Waits(x)
    BY <2>1, NoneDistinct, Zenon DEF Waits, InChannel, WithLoop, Blocked, At
  <2>3. OnWire' = OnWire
    BY <2>1, Zenon DEF OnWire
  <2>4. QED BY <2>2, <2>3, Zenon
<1>7. ASSUME NEW s \in StreamIds, UNCHANGED <<queue, smsg, putting>>,
             \A r \in StreamIds : wire'[r] \subseteq wire[r]
      PROVE  Goal
  <2>1. \A x \in Msgs : Waits(x)' <=> Waits(x)
    BY <1>7, Zenon DEF Waits, InChannel, WithLoop, Blocked, At
  <2>2. OnWire' \subseteq OnWire
    BY <1>7, Zenon DEF OnWire
  <2>3. QED BY <2>1, <2>2, Zenon
<1>8. ASSUME NEW s \in StreamIds, NEW m \in Msgs, ServerReceive(s, m) PROVE Goal
  <2>1. UNCHANGED <<queue, smsg, putting>> /\ \A r \in StreamIds : wire'[r] \subseteq wire[r]
    BY <1>8, Zenon DEF TypeOK, ServerReceive, loopVars, sendVars
  <2>2. QED BY <1>7, <2>1, Zenon
<1>9. ASSUME NEW s \in StreamIds, Break(s) PROVE Goal
  <2>1. UNCHANGED <<queue, smsg, putting>> /\ \A r \in StreamIds : wire'[r] \subseteq wire[r]
    BY <1>9, Zenon DEF TypeOK, Break, loopVars, sendVars
  <2>2. QED BY <1>7, <2>1, Zenon
<1> HIDE DEF Goal
<1>10. QED
  BY <1>1, <1>2, <1>3, <1>4, <1>5, <1>6, <1>8, <1>9, Zenon DEF Moves

\* The channel machinery implements the at-most-once relay: the initial states
\* map to its initial state, and every step of a caller, a loop, the network or
\* the shutdown to one of its steps or to none.
THEOREM StreamsImplementRelay == Spec => RelaySpec
<1> DEFINE J == IInv /\ \A m \in Msgs : Once(m)
<1>1. Init => Abstract!Init
  BY NoneDistinct DEF Init, Abstract!Init, Held, HeldBy, InQueue, OnWire
<1>2. J => Held = {m \in Msgs : Waits(m)}
  BY HeldIsWaiting, Zenon DEF IInv
<1>3. J' => (Held = {m \in Msgs : Waits(m)})'
  BY <1>2, PTL
<1>4. J /\ J' /\ [Next]_vars => [Abstract!Next]_<<Held, OnWire>>
  <2> SUFFICES ASSUME J, J', [Next]_vars PROVE [Abstract!Next]_<<Held, OnWire>>
    BY Zenon
  <2>1. Held = {m \in Msgs : Waits(m)} /\ Held' = {m \in Msgs : Waits(m)'}
    BY <1>2, <1>3, Zenon
  <2>2. \/ Held' = Held /\ OnWire' \subseteq OnWire
        \/ \E m \in Msgs : m \notin Held \cup OnWire /\ Held' = Held \cup {m} /\ OnWire' = OnWire
        \/ \E m \in Msgs : m \in Held /\ Held' = Held \ {m} /\ OnWire' = OnWire \cup {m}
    BY <2>1, StepMoves, MoveSteps, Zenon DEF IInv
  <2>3. QED
    BY <2>2, Zenon DEF Abstract!Next, Abstract!Leave, Abstract!Accept, Abstract!HandOver
<1>5. QED BY <1>1, <1>4, Inductive, OnceInvariant, PTL DEF Spec, RelaySpec, Abstract!Spec
=============================================================================
