-------------------------- MODULE MetricCacheProofs -------------------------
(***************************************************************************)
(* Proofs about MetricCache, for any number of evaluations, metrics and    *)
(* changes: type correctness, with any failures and restarts, and that the *)
(* query cache holds no stale query without an event under way while the   *)
(* subscription lasts (nothing is removed, no connection is lost and the   *)
(* orchestrator is not restarted).                                         *)
(***************************************************************************)
EXTENDS MetricCache, SequenceLemmas, TLAPS

\* Local variables of evalMap; the lock of the query cache is held exactly while
\* a query is prepared.
AssessorLocals ==
  \A a \in Assessors :
    /\ pc[a] # "idle" => key[a] \in Keys
    /\ pc[a] \in {"storeConf", "query", "fetchImpl", "storeImpl"} => aconf[a] \in Values
    /\ pc[a] = "storeImpl" => aimpl[a] \in Values
    /\ qcLock = a <=> pc[a] \in {"fetchImpl", "storeImpl"}

\* Local variables of SubscribeMetricChangeEvents and recvEventsLoop.
LoopLocals ==
  \A h \in Subs :
    /\ handler[h] = "sending" => inHand[h] \in Event
    /\ lpc[h] # "none" => eventStream \in Subs
    /\ lpc[h] = "recv" => lon[h] \in Subs
    /\ lpc[h] \in {"got", "evict"} => lev[h] \in Event

\* The type invariant in parts: the orchestrator and its channels, the event
\* loops, the caches, and the evaluations with the lock of the query cache.
MetricsTypes ==
  /\ metric \in [MetricIds -> {"absent", "active", "deprecated"}]
  /\ impl \in [MetricIds -> ValueOrNone] /\ conf \in [Keys -> ValueOrNone]
  /\ removing \in SUBSET (MetricIds \X ValueOrNone)
  /\ notifying \in SUBSET Event /\ events \in Seq(Event) /\ Len(events) <= EventCap
  /\ handler \in [Subs -> {"none", "waiting", "sending", "done"}]
  /\ inHand \in [Subs -> Event \cup {None}]
  /\ sub \in [Subs -> {"none", "open", "ended"}] /\ wire \in [Subs -> Seq(Event)]
  /\ changes \in 0..MaxChanges /\ removals \in Nat /\ restarts \in Nat

LoopTypes ==
  /\ link \in {"up", "down"} /\ reconnects \in Nat
  /\ eventStream \in Subs \cup {None}
  /\ lpc \in [Subs -> {"none", "iter", "recv", "got", "evict", "done"}]
  /\ lon \in [Subs -> Subs \cup {None}] /\ lev \in [Subs -> Event \cup {None}]

CacheTypes ==
  /\ confCache \in [Keys -> ValueOrNone] /\ cachedAt \in [Keys -> Nat] /\ now \in Nat
  /\ qc \in [QueryKeys -> ValueOrNone]

AssessTypes ==
  /\ pc \in [Assessors -> {"idle", "lookup", "fetchConf", "storeConf", "query",
                           "fetchImpl", "storeImpl"}]
  /\ key \in [Assessors -> Keys \cup {None}]
  /\ aconf \in [Assessors -> ValueOrNone] /\ aimpl \in [Assessors -> ValueOrNone]
  /\ qcLock \in Assessors \cup {None}

TypeInv ==
  /\ MetricsTypes /\ LoopTypes /\ CacheTypes /\ AssessTypes
  /\ AssessorLocals /\ LoopLocals

\* None is no value, metric, service, subscription, assessor or key.
LEMMA NoneDistinct ==
  /\ None \notin MetricIds /\ None \notin Services /\ None \notin Values
  /\ None \notin Subs /\ None \notin Assessors /\ None \notin Keys
  /\ None \notin Event
  BY MetricsAssumption, MetricCacheAssumption, Zenon

\* The event of a change is an event.
LEMMA NotifyTyped ==
  ASSUME MetricsTypes, changes < MaxChanges, NEW type \in {"meta", "impl", "config"},
         NEW m \in MetricIds, NEW s \in Services \cup {None}, Notify(type, m, s)
  PROVE  /\ notifying' \in SUBSET Event /\ changes' \in 0..MaxChanges
         /\ \E e \in Event : e.type = type /\ e.metric = m /\ e \in notifying'
         /\ notifying \subseteq notifying'
<1> DEFINE e == [id |-> changes + 1, type |-> type, metric |-> m, service |-> s]
<1>1. changes + 1 \in 1..MaxChanges /\ changes' = changes + 1
  BY MetricsAssumption DEF MetricsTypes, Notify
<1>2. e \in Event /\ e.type = type /\ e.metric = m
  BY <1>1, Zenon DEF Event
<1>3. notifying' = notifying \cup {e}
  BY Zenon DEF Notify
<1>4. notifying' \in SUBSET Event
  BY <1>2, <1>3, Zenon DEF MetricsTypes
<1>5. changes' \in 0..MaxChanges
  BY <1>1, MetricsAssumption
<1>6. e \in notifying' /\ notifying \subseteq notifying'
  BY <1>3, Zenon
<1> HIDE DEF e
<1>7. QED BY <1>2, <1>4, <1>5, <1>6, Zenon

\* An evaluation writes the caches and its local variables only.
LEMMA AssessFrame ==
  ASSUME NEW a \in Assessors,
         Assess(a) \/ RpcFails(a) \/ \E k \in Keys : EvalMap(a, k)
  PROVE  UNCHANGED <<metricVars, loopVars>>
  BY Zenon DEF Assess, RpcFails, EvalMap, ConfLookup, FetchConf, StoreConf, QueryGet,
         FetchImpl, StoreImpl

\* The goroutines of the subscription leave the tables and the evaluations alone.
LEMMA LoopFrame ==
  ASSUME NEW h \in Subs, EventLoop(h) \/ InitOrchestratorStream(h)
  PROVE  UNCHANGED <<tables, channel, inHand, bounds, now, qcLock, assessVars>>
  BY Zenon DEF EventLoop, InitOrchestratorStream, Subscribe, LoopCall, LoopRecv, LoopEnd,
         HandleConfigEvent, HandleMetricEvent, metricVars, tables, channel, subVars,
         bounds, confVars, queryVars, assessVars

\* Every step keeps the types of the orchestrator and its channels.
LEMMA MetricsTypesStep ==
  TypeInv /\ [Next]_vars => MetricsTypes'
<1> SUFFICES ASSUME TypeInv, [Next]_vars PROVE MetricsTypes'
  BY Zenon
<1> USE NoneDistinct
<1> USE DEF TypeInv, metricVars, tables, channel, subVars, bounds,
            loopVars, confVars, queryVars, assessVars, assessmentVars
<1>1. ASSUME UNCHANGED metricVars PROVE MetricsTypes'
  BY <1>1, Zenon DEF MetricsTypes
<1>2. ASSUME NEW m \in MetricIds, NEW v \in Values \cup {None},
             CreateMetric(m, v) /\ UNCHANGED assessmentVars
      PROVE  MetricsTypes'
  <2>1. notifying' \in SUBSET Event /\ changes' \in 0..MaxChanges
    BY <1>2, NotifyTyped, NoneDistinct, Zenon DEF CreateMetric
  <2>2. QED
    BY <1>2, <2>1, Zenon DEF MetricsTypes, ValueOrNone, CreateMetric
<1>3. ASSUME NEW m \in MetricIds, UpdateMetric(m) /\ UNCHANGED assessmentVars
      PROVE  MetricsTypes'
  <2>1. notifying' \in SUBSET Event /\ changes' \in 0..MaxChanges
    BY <1>3, NotifyTyped, NoneDistinct, Zenon DEF UpdateMetric
  <2>2. QED
    BY <1>3, <2>1 DEF MetricsTypes, ValueOrNone, UpdateMetric
<1>4. ASSUME NEW m \in MetricIds, RemoveMetricGet(m) /\ UNCHANGED assessmentVars
      PROVE  MetricsTypes'
  BY <1>4 DEF MetricsTypes, ValueOrNone, RemoveMetricGet
<1>5. ASSUME NEW m \in MetricIds, NEW v \in Values \cup {None},
             RemoveMetricUpdate(m, v) /\ UNCHANGED assessmentVars
      PROVE  MetricsTypes'
  BY <1>5, Zenon DEF MetricsTypes, ValueOrNone, RemoveMetricUpdate
<1>6. ASSUME NEW m \in MetricIds, NEW v \in Values,
             UpdateMetricImplementation(m, v) /\ UNCHANGED assessmentVars
      PROVE  MetricsTypes'
  <2>1. notifying' \in SUBSET Event /\ changes' \in 0..MaxChanges
    BY <1>6, NotifyTyped, NoneDistinct, Zenon DEF UpdateMetricImplementation
  <2>2. QED
    BY <1>6, <2>1, Zenon DEF MetricsTypes, ValueOrNone, UpdateMetricImplementation
<1>7. ASSUME NEW k \in Keys, NEW v \in Values,
             UpdateMetricConfiguration(k, v) /\ UNCHANGED assessmentVars
      PROVE  MetricsTypes'
  <2>1. notifying' \in SUBSET Event /\ changes' \in 0..MaxChanges
    BY <1>7, NotifyTyped, NoneDistinct, Zenon DEF UpdateMetricConfiguration, Keys
  <2>2. QED
    BY <1>7, <2>1, Zenon DEF MetricsTypes, ValueOrNone, UpdateMetricConfiguration, Keys
<1>8. ASSUME NEW e \in Event, PutEvent(e) /\ UNCHANGED assessmentVars
      PROVE  MetricsTypes'
  <2>1. Len(events) \in Nat /\ Len(events) < EventCap /\ events \in Seq(Event)
    BY <1>8 DEF MetricsTypes, PutEvent, RoomForEvent
  <2>2. events' \in Seq(Event) /\ Len(events') <= EventCap
    BY <1>8, <2>1, MetricsAssumption DEF PutEvent
  <2>3. notifying' \in SUBSET Event
    BY <1>8, Zenon DEF MetricsTypes, PutEvent
  <2>4. QED
    BY <1>8, <2>1, <2>2, <2>3, Zenon DEF MetricsTypes, ValueOrNone, PutEvent, RoomForEvent
<1>9. ASSUME NEW h \in Subs, HandlerTake(h) /\ UNCHANGED assessmentVars
      PROVE  MetricsTypes'
  <2>1. events \in Seq(Event) /\ events # <<>> /\ Len(events) <= EventCap
    BY <1>9, Zenon DEF MetricsTypes, HandlerTake
  <2>2. Head(events) \in Event /\ Tail(events) \in Seq(Event) /\ Len(Tail(events)) <= EventCap
    BY <2>1, MetricsAssumption
  <2>3. inHand' \in [Subs -> Event \cup {None}]
    BY <1>9, <2>2, Zenon DEF MetricsTypes, HandlerTake
  <2>4. events' \in Seq(Event) /\ Len(events') <= EventCap
    BY <1>9, <2>2, Zenon DEF HandlerTake
  <2>5. handler' \in [Subs -> {"none", "waiting", "sending", "done"}]
    BY <1>9, Zenon DEF MetricsTypes, HandlerTake
  <2>6. QED
    BY <1>9, <2>1, <2>2, <2>3, <2>4, <2>5, Zenon DEF MetricsTypes, ValueOrNone, HandlerTake
<1>10. ASSUME NEW h \in Subs, HandlerSend(h) /\ UNCHANGED assessmentVars
      PROVE  MetricsTypes'
  <2>1. /\ handler \in [Subs -> {"none", "waiting", "sending", "done"}]
        /\ wire \in [Subs -> Seq(Event)]
    BY Zenon DEF MetricsTypes
  <2>2. inHand[h] \in Event
    BY <1>10, Zenon DEF LoopLocals, HandlerSend
  <2>3. Append(wire[h], inHand[h]) \in Seq(Event)
    BY <2>1, <2>2
  <2>4. wire' \in [Subs -> Seq(Event)]
    BY <1>10, <2>1, <2>2, <2>3, Zenon DEF HandlerSend
  <2>5. handler' \in [Subs -> {"none", "waiting", "sending", "done"}]
    BY <1>10, <2>1, Zenon DEF HandlerSend
  <2>6. inHand' \in [Subs -> Event \cup {None}]
    BY <1>10, Zenon DEF MetricsTypes, HandlerSend
  <2>7. QED
    BY <1>10, <2>1, <2>2, <2>3, <2>4, <2>5, <2>6, Zenon DEF MetricsTypes, ValueOrNone,
       HandlerSend
<1>11. ASSUME NEW h \in Subs, InitOrchestratorStream(h) PROVE MetricsTypes'
  BY <1>11, Zenon DEF MetricsTypes, ValueOrNone, InitOrchestratorStream, Subscribe
<1>12. ASSUME NEW h \in Subs, LoopCall(h) PROVE MetricsTypes'
  BY <1>1, <1>12, Zenon DEF LoopCall
<1>13. ASSUME NEW h \in Subs, LoopRecv(h) PROVE MetricsTypes'
  <2>1. /\ lon[h] \in Subs /\ wire \in [Subs -> Seq(Event)]
    BY <1>13, Zenon DEF MetricsTypes, LoopLocals, LoopRecv
  <2>2. Tail(wire[lon[h]]) \in Seq(Event) /\ Head(wire[lon[h]]) \in Event
    BY <1>13, <2>1 DEF LoopRecv
  <2>3. UNCHANGED <<tables, channel, handler, inHand, sub, bounds>>
    BY <1>13, Zenon DEF LoopRecv
  <2>4. wire' \in [Subs -> Seq(Event)]
    BY <1>13, <2>1, <2>2, Zenon DEF LoopRecv
  <2>5. QED
    BY <1>13, <2>1, <2>2, <2>3, <2>4, Zenon DEF MetricsTypes
<1>14. ASSUME NEW h \in Subs, LoopEnd(h) PROVE MetricsTypes'
  BY <1>1, <1>14, Zenon DEF LoopEnd
<1>15. ASSUME NEW h \in Subs, HandleConfigEvent(h) PROVE MetricsTypes'
  BY <1>1, <1>15, Zenon DEF HandleConfigEvent
<1>16. ASSUME NEW h \in Subs, HandleMetricEvent(h) PROVE MetricsTypes'
  BY <1>1, <1>16, Zenon DEF HandleMetricEvent, Evict
<1>17. CASE ResultStreamEnds
  <2>1. sub' \in [Subs -> {"none", "open", "ended"}]
    BY <1>17, Zenon DEF MetricsTypes, ResultStreamEnds
  <2>2. QED
    BY <1>17, <2>1, Zenon DEF MetricsTypes, ValueOrNone, ResultStreamEnds
<1>18. CASE OrchestratorRestart
  <2>1. metric' \in [MetricIds -> {"absent", "active", "deprecated"}]
    BY <1>18, Zenon DEF MetricsTypes, OrchestratorRestart, Restart, BuiltinOr
  <2>2. impl' \in [MetricIds -> Values \cup {None}]
    BY <1>18, MetricsAssumption, Zenon DEF MetricsTypes, ValueOrNone,
      OrchestratorRestart, Restart, BuiltinOr
  <2>3. events' \in Seq(Event) /\ Len(events') <= EventCap
    BY <1>18, MetricsAssumption DEF OrchestratorRestart, Restart
  <2>4. handler' \in [Subs -> {"none", "waiting", "sending", "done"}]
    BY <1>18, Zenon DEF MetricsTypes, OrchestratorRestart, Restart
  <2>5. sub' \in [Subs -> {"none", "open", "ended"}]
    BY <1>18, Zenon DEF MetricsTypes, OrchestratorRestart, Restart
  <2>6. /\ inHand' \in [Subs -> Event \cup {None}] /\ wire' \in [Subs -> Seq(Event)]
        /\ removing' = {} /\ notifying' = {} /\ restarts' \in Nat
    BY <1>18 DEF MetricsTypes, OrchestratorRestart, Restart
  <2>7. QED
    BY <1>18, <2>1, <2>2, <2>3, <2>4, <2>5, <2>6, Zenon DEF MetricsTypes, ValueOrNone,
       OrchestratorRestart, Restart, BuiltinOr
<1>19. CASE Tick
  BY <1>1, <1>19, Zenon DEF Tick
<1>20. CASE UNCHANGED vars
  BY <1>1, <1>20, Zenon DEF vars
<1>21. removing \subseteq MetricIds \X (Values \cup {None}) /\ notifying \subseteq Event
  BY Zenon DEF MetricsTypes, ValueOrNone
<1>22. CASE MetricsStep /\ UNCHANGED assessmentVars
  BY <1>22, <1>2, <1>3, <1>4, <1>5, <1>6, <1>7, <1>8, <1>9, <1>10, <1>21, Zenon DEF
     MetricsStep
<1>23. ASSUME NEW a \in Assessors, Assess(a) \/ RpcFails(a) \/ \E k \in Keys : EvalMap(a, k)
      PROVE  MetricsTypes'
  BY <1>1, <1>23, AssessFrame, Zenon
<1>24. ASSUME NEW h \in Subs, EventLoop(h) \/ InitOrchestratorStream(h)
      PROVE  MetricsTypes'
  BY <1>24, <1>11, <1>12, <1>13, <1>14, <1>15, <1>16, Zenon DEF EventLoop
<1>25. QED
  BY <1>20, <1>22, <1>23, <1>24, <1>17, <1>18, <1>19, Zenon DEF Next

\* Every step keeps the types of the event loops.
LEMMA LoopTypesStep ==
  TypeInv /\ [Next]_vars => LoopTypes'
<1> SUFFICES ASSUME TypeInv, [Next]_vars PROVE LoopTypes'
  OBVIOUS
<1> USE NoneDistinct
<1> USE DEF TypeInv, metricVars, tables, channel, subVars, bounds,
            loopVars, confVars, queryVars, assessVars, assessmentVars
<1>1. ASSUME UNCHANGED loopVars PROVE LoopTypes'
  BY <1>1, Zenon DEF LoopTypes
<1>2. ASSUME NEW h \in Subs, InitOrchestratorStream(h) PROVE LoopTypes'
  BY <1>2, Zenon DEF LoopTypes, InitOrchestratorStream, Subscribe
<1>3. ASSUME NEW h \in Subs, LoopCall(h) PROVE LoopTypes'
  BY <1>3, Zenon DEF LoopTypes, LoopCall
<1>4. ASSUME NEW h \in Subs, LoopRecv(h) PROVE LoopTypes'
  <2>1. /\ lon[h] \in Subs /\ wire \in [Subs -> Seq(Event)]
    BY <1>4 DEF MetricsTypes, LoopLocals, LoopRecv
  <2>2. Head(wire[lon[h]]) \in Event
    BY <1>4, <2>1 DEF LoopRecv
  <2>3. QED
    BY <1>4, <2>1, <2>2, Zenon DEF LoopTypes, LoopRecv
<1>5. ASSUME NEW h \in Subs, LoopEnd(h) PROVE LoopTypes'
  BY <1>5, Zenon DEF LoopTypes, LoopEnd
<1>6. ASSUME NEW h \in Subs, HandleConfigEvent(h) PROVE LoopTypes'
  BY <1>6, Zenon DEF LoopTypes, HandleConfigEvent
<1>7. ASSUME NEW h \in Subs, HandleMetricEvent(h) PROVE LoopTypes'
  BY <1>7, Zenon DEF LoopTypes, HandleMetricEvent, Evict
<1>8. CASE ResultStreamEnds
  BY <1>8 DEF LoopTypes, ResultStreamEnds
<1>9. CASE OrchestratorRestart
  BY <1>9, Zenon DEF LoopTypes, OrchestratorRestart, Restart, BuiltinOr
<1>10. CASE Tick
  BY <1>1, <1>10, Zenon DEF Tick
<1>11. CASE UNCHANGED vars
  BY <1>1, <1>11, Zenon DEF vars
<1>12. CASE MetricsStep /\ UNCHANGED assessmentVars
  BY <1>1, <1>12, Zenon
<1>13. ASSUME NEW a \in Assessors, Assess(a) \/ RpcFails(a) \/ \E k \in Keys : EvalMap(a, k)
      PROVE  LoopTypes'
  BY <1>1, <1>13, AssessFrame, Zenon
<1>14. ASSUME NEW h \in Subs, EventLoop(h) \/ InitOrchestratorStream(h)
      PROVE  LoopTypes'
  BY <1>14, <1>2, <1>3, <1>4, <1>5, <1>6, <1>7, Zenon DEF EventLoop
<1>15. QED
  BY <1>11, <1>12, <1>13, <1>14, <1>8, <1>9, <1>10, Zenon DEF Next

\* Every step keeps the types of the caches.
LEMMA CacheTypesStep ==
  TypeInv /\ [Next]_vars => CacheTypes'
<1> SUFFICES ASSUME TypeInv, [Next]_vars PROVE CacheTypes'
  BY Zenon
<1> USE NoneDistinct
<1> USE DEF TypeInv, metricVars, tables, channel, subVars, bounds,
            loopVars, confVars, queryVars, assessVars, assessmentVars
<1>1. ASSUME UNCHANGED <<confVars, qc>> PROVE CacheTypes'
  BY <1>1, Zenon DEF CacheTypes
<1>2. ASSUME NEW a \in Assessors, NEW k \in Keys, EvalMap(a, k) PROVE CacheTypes'
  BY <1>1, <1>2, Zenon DEF EvalMap, Goto
<1>3. ASSUME NEW a \in Assessors, ConfLookup(a) PROVE CacheTypes'
  BY <1>1, <1>3, Zenon DEF ConfLookup, Goto
<1>4. ASSUME NEW a \in Assessors, FetchConf(a) PROVE CacheTypes'
  BY <1>1, <1>4, Zenon DEF FetchConf, Goto, Return, ConfNotFound, ConfigOf
<1>5. ASSUME NEW a \in Assessors, StoreConf(a) PROVE CacheTypes'
  <2>1. key[a] \in Keys /\ aconf[a] \in Values
    BY <1>5, Zenon DEF AssessorLocals, StoreConf
  <2>2. QED
    BY <1>5, <2>1, Zenon DEF CacheTypes, ValueOrNone, StoreConf
<1>6. ASSUME NEW a \in Assessors, QueryGet(a) PROVE CacheTypes'
  BY <1>1, <1>6, Zenon DEF QueryGet, Goto, Return, LockTaken
<1>7. ASSUME NEW a \in Assessors, FetchImpl(a) PROVE CacheTypes'
  BY <1>1, <1>7, Zenon DEF FetchImpl, Goto, Return, Unlock, Keys
<1>8. ASSUME NEW a \in Assessors, StoreImpl(a) PROVE CacheTypes'
  <2>1. key[a] \in Keys /\ aconf[a] \in Values /\ aimpl[a] \in Values
    BY <1>8, Zenon DEF AssessorLocals, StoreImpl
  <2>2. QED
    BY <1>8, <2>1, Zenon DEF CacheTypes, ValueOrNone, QueryKeys, StoreImpl
<1>9. ASSUME NEW a \in Assessors, RpcFails(a) PROVE CacheTypes'
  BY <1>1, <1>9, Zenon DEF RpcFails, Goto, Return, Unlock
<1>10. ASSUME NEW h \in Subs, InitOrchestratorStream(h) PROVE CacheTypes'
  BY <1>1, <1>10, Zenon DEF InitOrchestratorStream, Subscribe
<1>11. ASSUME NEW h \in Subs, LoopCall(h) PROVE CacheTypes'
  BY <1>1, <1>11, Zenon DEF LoopCall
<1>12. ASSUME NEW h \in Subs, LoopRecv(h) PROVE CacheTypes'
  BY <1>1, <1>12, Zenon DEF LoopRecv
<1>13. ASSUME NEW h \in Subs, LoopEnd(h) PROVE CacheTypes'
  BY <1>1, <1>13, Zenon DEF LoopEnd
<1>14. ASSUME NEW h \in Subs, HandleConfigEvent(h) PROVE CacheTypes'
  BY <1>14, Zenon DEF CacheTypes, ValueOrNone, HandleConfigEvent
<1>15. ASSUME NEW h \in Subs, HandleMetricEvent(h) PROVE CacheTypes'
  BY <1>15, Zenon DEF CacheTypes, ValueOrNone, HandleMetricEvent, Evict
<1>16. CASE ResultStreamEnds
  BY <1>1, <1>16, Zenon DEF ResultStreamEnds
<1>17. CASE OrchestratorRestart
  BY <1>1, <1>17, Zenon DEF OrchestratorRestart, Restart, BuiltinOr
<1>18. CASE Tick
  BY <1>18 DEF CacheTypes, ValueOrNone, Tick
<1>19. CASE UNCHANGED vars
  BY <1>1, <1>19, Zenon DEF vars
<1>20. CASE MetricsStep /\ UNCHANGED assessmentVars
  BY <1>1, <1>20, Zenon
<1>21. ASSUME NEW a \in Assessors, Assess(a) \/ RpcFails(a) \/ \E k \in Keys : EvalMap(a, k)
      PROVE  CacheTypes'
  BY <1>21, <1>2, <1>3, <1>4, <1>5, <1>6, <1>7, <1>8, <1>9, Zenon DEF Assess
<1>22. ASSUME NEW h \in Subs, EventLoop(h) \/ InitOrchestratorStream(h)
      PROVE  CacheTypes'
  BY <1>22, <1>10, <1>11, <1>12, <1>13, <1>14, <1>15, Zenon DEF EventLoop
<1>23. QED
  BY <1>19, <1>20, <1>21, <1>22, <1>16, <1>17, <1>18, Zenon DEF Next

\* Every step keeps the types of the evaluations.
LEMMA AssessTypesStep ==
  TypeInv /\ [Next]_vars => AssessTypes'
<1> SUFFICES ASSUME TypeInv, [Next]_vars PROVE AssessTypes'
  OBVIOUS
<1> USE NoneDistinct
<1> USE DEF TypeInv, metricVars, tables, channel, subVars, bounds,
            loopVars, confVars, queryVars, assessVars, assessmentVars
<1>1. ASSUME UNCHANGED <<assessVars, qcLock>> PROVE AssessTypes'
  BY <1>1, Zenon DEF AssessTypes
<1>2. ASSUME NEW a \in Assessors, NEW k \in Keys, EvalMap(a, k) PROVE AssessTypes'
  BY <1>2, Zenon DEF AssessTypes, ValueOrNone, EvalMap, Goto
<1>3. ASSUME NEW a \in Assessors, ConfLookup(a) PROVE AssessTypes'
  <2>1. confCache[key[a]] \in Values \cup {None}
    BY <1>3, Zenon DEF CacheTypes, ValueOrNone, AssessorLocals, ConfLookup
  <2>2. /\ pc \in [Assessors -> {"idle", "lookup", "fetchConf", "storeConf", "query",
                           "fetchImpl", "storeImpl"}]
        /\ key \in [Assessors -> Keys \cup {None}]
        /\ aconf \in [Assessors -> Values \cup {None}]
        /\ aimpl \in [Assessors -> Values \cup {None}] /\ qcLock \in Assessors \cup {None}
    BY Zenon DEF AssessTypes, ValueOrNone
  <2>3. pc' \in [Assessors -> {"idle", "lookup", "fetchConf", "storeConf", "query",
                           "fetchImpl", "storeImpl"}]
    BY <1>3, <2>2, Zenon DEF ConfLookup, Goto, Return
  <2>4. key' \in [Assessors -> Keys \cup {None}]
    BY <1>3, <2>2, Zenon DEF ConfLookup, Goto, Return
  <2>5. aconf' \in [Assessors -> Values \cup {None}]
    BY <1>3, <2>2, <2>1, Zenon DEF ConfLookup, Goto, Return
  <2>6. aimpl' \in [Assessors -> Values \cup {None}]
    BY <1>3, <2>2, Zenon DEF ConfLookup, Goto, Return
  <2>7. QED
    BY <1>3, <2>1, <2>2, <2>3, <2>4, <2>5, <2>6, Zenon DEF AssessTypes, ValueOrNone,
       ConfLookup, Goto, Return
<1>4. ASSUME NEW a \in Assessors, FetchConf(a) PROVE AssessTypes'
  <2>1. ConfigOf(key[a]) \in Values \cup {None}
    BY <1>4, MetricsAssumption, Zenon DEF MetricsTypes, ValueOrNone, AssessorLocals,
      FetchConf, ConfigOf
  <2>2. /\ pc \in [Assessors -> {"idle", "lookup", "fetchConf", "storeConf", "query",
                           "fetchImpl", "storeImpl"}]
        /\ key \in [Assessors -> Keys \cup {None}]
        /\ aconf \in [Assessors -> Values \cup {None}]
        /\ aimpl \in [Assessors -> Values \cup {None}] /\ qcLock \in Assessors \cup {None}
    BY DEF AssessTypes, ValueOrNone
  <2>3. pc' \in [Assessors -> {"idle", "lookup", "fetchConf", "storeConf", "query",
                           "fetchImpl", "storeImpl"}]
    BY <1>4, <2>2 DEF FetchConf, Goto, Return, ConfNotFound
  <2>4. key' \in [Assessors -> Keys \cup {None}]
    BY <1>4, <2>2, Zenon DEF FetchConf, Goto, Return, ConfNotFound
  <2>5. aconf' \in [Assessors -> Values \cup {None}]
    BY <1>4, <2>2, <2>1, Zenon DEF FetchConf, Goto, Return, ConfNotFound
  <2>6. aimpl' \in [Assessors -> Values \cup {None}]
    BY <1>4, <2>2, Zenon DEF FetchConf, Goto, Return, ConfNotFound
  <2>7. QED
    BY <1>4, <2>1, <2>2, <2>3, <2>4, <2>5, <2>6, Zenon DEF AssessTypes, ValueOrNone,
       FetchConf, Goto, Return, ConfNotFound
<1>5. ASSUME NEW a \in Assessors, StoreConf(a) PROVE AssessTypes'
  BY <1>5, Zenon DEF AssessTypes, ValueOrNone, StoreConf, Goto
<1>6. ASSUME NEW a \in Assessors, QueryGet(a) PROVE AssessTypes'
  <2>1. /\ pc \in [Assessors -> {"idle", "lookup", "fetchConf", "storeConf", "query",
                           "fetchImpl", "storeImpl"}]
        /\ key \in [Assessors -> Keys \cup {None}]
        /\ aconf \in [Assessors -> Values \cup {None}]
        /\ aimpl \in [Assessors -> Values \cup {None}] /\ qcLock \in Assessors \cup {None}
    BY DEF AssessTypes, ValueOrNone
  <2>2. pc' \in [Assessors -> {"idle", "lookup", "fetchConf", "storeConf", "query",
                           "fetchImpl", "storeImpl"}]
    BY <1>6, <2>1 DEF QueryGet, Goto, Return
  <2>3. key' \in [Assessors -> Keys \cup {None}]
    BY <1>6, <2>1, Zenon DEF QueryGet, Goto, Return
  <2>4. aconf' \in [Assessors -> Values \cup {None}]
    BY <1>6, <2>1, Zenon DEF QueryGet, Goto, Return
  <2>5. aimpl' \in [Assessors -> Values \cup {None}]
    BY <1>6, <2>1, Zenon DEF QueryGet, Goto, Return
  <2>6. qcLock' \in Assessors \cup {None}
    BY <1>6, <2>1, Zenon DEF QueryGet, LockTaken, Unlock
  <2>7. QED
    BY <1>6, <2>1, <2>2, <2>3, <2>4, <2>5, <2>6, Zenon DEF AssessTypes, ValueOrNone,
       QueryGet, Goto, Return
<1>7. ASSUME NEW a \in Assessors, FetchImpl(a) PROVE AssessTypes'
  <2>1. impl[key[a][2]] \in Values \cup {None}
    BY <1>7, Zenon DEF MetricsTypes, ValueOrNone, AssessorLocals, FetchImpl, Keys
  <2>2. /\ pc \in [Assessors -> {"idle", "lookup", "fetchConf", "storeConf", "query",
                           "fetchImpl", "storeImpl"}]
        /\ key \in [Assessors -> Keys \cup {None}]
        /\ aconf \in [Assessors -> Values \cup {None}]
        /\ aimpl \in [Assessors -> Values \cup {None}] /\ qcLock \in Assessors \cup {None}
    BY DEF AssessTypes, ValueOrNone
  <2>3. pc' \in [Assessors -> {"idle", "lookup", "fetchConf", "storeConf", "query",
                           "fetchImpl", "storeImpl"}]
    BY <1>7, <2>2 DEF FetchImpl, Goto, Return
  <2>4. key' \in [Assessors -> Keys \cup {None}]
    BY <1>7, <2>2, Zenon DEF FetchImpl, Goto, Return
  <2>5. aconf' \in [Assessors -> Values \cup {None}]
    BY <1>7, <2>2, Zenon DEF FetchImpl, Goto, Return
  <2>6. aimpl' \in [Assessors -> Values \cup {None}]
    BY <1>7, <2>2, <2>1, Zenon DEF FetchImpl, Goto, Return
  <2>7. qcLock' \in Assessors \cup {None}
    BY <1>7, <2>2, Zenon DEF FetchImpl, LockTaken, Unlock
  <2>8. QED
    BY <1>7, <2>1, <2>2, <2>3, <2>4, <2>5, <2>6, <2>7, Zenon DEF AssessTypes,
       ValueOrNone, FetchImpl, Goto, Return
<1>8. ASSUME NEW a \in Assessors, StoreImpl(a) PROVE AssessTypes'
  BY <1>8, Zenon DEF AssessTypes, ValueOrNone, StoreImpl, Goto, Return, Unlock
<1>9. ASSUME NEW a \in Assessors, RpcFails(a) PROVE AssessTypes'
  BY <1>9, Zenon DEF AssessTypes, ValueOrNone, RpcFails, Goto, Return, Unlock
<1>10. CASE ResultStreamEnds
  BY <1>1, <1>10, Zenon DEF ResultStreamEnds
<1>11. CASE OrchestratorRestart
  BY <1>1, <1>11, Zenon DEF OrchestratorRestart, Restart, BuiltinOr
<1>12. CASE Tick
  BY <1>1, <1>12, Zenon DEF Tick
<1>13. CASE UNCHANGED vars
  BY <1>1, <1>13, Zenon DEF vars
<1>14. CASE MetricsStep /\ UNCHANGED assessmentVars
  BY <1>1, <1>14, Zenon
<1>15. ASSUME NEW a \in Assessors, Assess(a) \/ RpcFails(a) \/ \E k \in Keys : EvalMap(a, k)
      PROVE  AssessTypes'
  BY <1>15, <1>2, <1>3, <1>4, <1>5, <1>6, <1>7, <1>8, <1>9, Zenon DEF Assess
<1>16. ASSUME NEW h \in Subs, EventLoop(h) \/ InitOrchestratorStream(h)
      PROVE  AssessTypes'
  BY <1>1, <1>16, LoopFrame, Zenon
<1>17. QED
  BY <1>13, <1>14, <1>15, <1>16, <1>10, <1>11, <1>12, Zenon DEF Next

\* Every step keeps the local variables of evalMap and the lock in step.
LEMMA AssessorLocalsStep ==
  TypeInv /\ [Next]_vars => AssessorLocals'
<1> SUFFICES ASSUME TypeInv, [Next]_vars PROVE AssessorLocals'
  BY Zenon
<1> USE NoneDistinct
<1> USE DEF TypeInv, metricVars, tables, channel, subVars, bounds,
            loopVars, confVars, queryVars, assessVars, assessmentVars
<1>1. ASSUME UNCHANGED <<assessVars, qcLock>> PROVE AssessorLocals'
  BY <1>1, Zenon DEF AssessorLocals
<1>2. ASSUME NEW a \in Assessors, NEW k \in Keys, EvalMap(a, k)
      PROVE  AssessorLocals'
  BY <1>2, Zenon DEF AssessorLocals, AssessTypes, CacheTypes, ValueOrNone, EvalMap,
    Goto
<1>3. ASSUME NEW a \in Assessors, ConfLookup(a) PROVE AssessorLocals'
  BY <1>3 DEF AssessorLocals, AssessTypes, CacheTypes, ValueOrNone,
    ConfLookup, Goto
<1>4. ASSUME NEW a \in Assessors, FetchConf(a) PROVE AssessorLocals'
  <2>1. /\ pc \in [Assessors -> {"idle", "lookup", "fetchConf", "storeConf", "query",
                           "fetchImpl", "storeImpl"}]
        /\ key \in [Assessors -> Keys \cup {None}]
        /\ aconf \in [Assessors -> Values \cup {None}]
        /\ aimpl \in [Assessors -> Values \cup {None}] /\ qcLock \in Assessors \cup {None}
    BY Zenon DEF AssessTypes, ValueOrNone
  <2>2. ConfigOf(key[a]) \in Values \cup {None}
    BY <1>4, MetricsAssumption, Zenon DEF MetricsTypes, ValueOrNone, AssessorLocals,
      FetchConf, ConfigOf
  <2>3. QED
    BY <1>4, <2>1, <2>2 DEF AssessorLocals, FetchConf, Goto, Return, ConfNotFound
<1>5. ASSUME NEW a \in Assessors, StoreConf(a) PROVE AssessorLocals'
  BY <1>5, Zenon DEF AssessorLocals, AssessTypes, CacheTypes, ValueOrNone, StoreConf,
    Goto
<1>6. ASSUME NEW a \in Assessors, QueryGet(a) PROVE AssessorLocals'
  <2>1. /\ pc \in [Assessors -> {"idle", "lookup", "fetchConf", "storeConf", "query",
                           "fetchImpl", "storeImpl"}]
        /\ key \in [Assessors -> Keys \cup {None}]
        /\ aconf \in [Assessors -> Values \cup {None}]
        /\ aimpl \in [Assessors -> Values \cup {None}] /\ qcLock \in Assessors \cup {None}
    BY DEF AssessTypes, ValueOrNone
  <2>2. key[a] \in Keys
    BY <1>6, Zenon DEF AssessorLocals, QueryGet
  <2>3. QED
    BY <1>6, <2>1, <2>2 DEF AssessorLocals, QueryGet, Goto, Return, LockTaken
<1>7. ASSUME NEW a \in Assessors, FetchImpl(a) PROVE AssessorLocals'
  <2>1. /\ pc \in [Assessors -> {"idle", "lookup", "fetchConf", "storeConf", "query",
                           "fetchImpl", "storeImpl"}]
        /\ key \in [Assessors -> Keys \cup {None}]
        /\ aconf \in [Assessors -> Values \cup {None}]
        /\ aimpl \in [Assessors -> Values \cup {None}] /\ qcLock \in Assessors \cup {None}
    BY DEF AssessTypes, ValueOrNone
  <2>2. impl[key[a][2]] \in Values \cup {None}
    BY <1>7, Zenon DEF MetricsTypes, ValueOrNone, AssessorLocals, FetchImpl, Keys
  <2>3. QED
    BY <1>7, <2>1, <2>2 DEF AssessorLocals, FetchImpl, Goto, Return, Unlock
<1>8. ASSUME NEW a \in Assessors, StoreImpl(a) PROVE AssessorLocals'
  BY <1>8, Zenon DEF AssessorLocals, AssessTypes, CacheTypes, ValueOrNone, StoreImpl,
    Goto, Return, Unlock
<1>9. ASSUME NEW a \in Assessors, RpcFails(a) PROVE AssessorLocals'
  BY <1>9, Zenon DEF AssessorLocals, AssessTypes, CacheTypes, ValueOrNone, RpcFails,
    Goto, Return, Unlock
<1>10. CASE ResultStreamEnds
  BY <1>1, <1>10, Zenon DEF ResultStreamEnds
<1>11. CASE OrchestratorRestart
  BY <1>1, <1>11, Zenon DEF OrchestratorRestart, Restart, BuiltinOr
<1>12. CASE Tick
  BY <1>1, <1>12, Zenon DEF Tick
<1>13. CASE UNCHANGED vars
  BY <1>1, <1>13, Zenon DEF vars
<1>14. CASE MetricsStep /\ UNCHANGED assessmentVars
  BY <1>1, <1>14, Zenon
<1>15. ASSUME NEW a \in Assessors, Assess(a) \/ RpcFails(a) \/ \E k \in Keys : EvalMap(a, k)
      PROVE  AssessorLocals'
  BY <1>15, <1>2, <1>3, <1>4, <1>5, <1>6, <1>7, <1>8, <1>9, Zenon DEF Assess
<1>16. ASSUME NEW h \in Subs, EventLoop(h) \/ InitOrchestratorStream(h)
      PROVE  AssessorLocals'
  BY <1>1, <1>16, LoopFrame, Zenon
<1>17. QED
  BY <1>13, <1>14, <1>15, <1>16, <1>10, <1>11, <1>12, Zenon DEF Next

\* Every step keeps the local variables of the handlers and the event loops.
LEMMA LoopLocalsStep ==
  TypeInv /\ [Next]_vars => LoopLocals'
<1> SUFFICES ASSUME TypeInv, [Next]_vars PROVE LoopLocals'
  OBVIOUS
<1> USE NoneDistinct
<1> USE DEF TypeInv, metricVars, tables, channel, subVars, bounds,
            loopVars, confVars, queryVars, assessVars, assessmentVars
<1>1. ASSUME UNCHANGED <<handler, inHand, eventStream, lpc, lon, lev>> PROVE LoopLocals'
  BY <1>1, Zenon DEF LoopLocals
<1>2. ASSUME NEW m \in MetricIds, NEW v \in Values \cup {None},
             CreateMetric(m, v) /\ UNCHANGED assessmentVars
      PROVE  LoopLocals'
  BY <1>1, <1>2, Zenon DEF CreateMetric
<1>3. ASSUME NEW m \in MetricIds, UpdateMetric(m) /\ UNCHANGED assessmentVars
      PROVE  LoopLocals'
  BY <1>1, <1>3, Zenon DEF UpdateMetric
<1>4. ASSUME NEW m \in MetricIds, RemoveMetricGet(m) /\ UNCHANGED assessmentVars
      PROVE  LoopLocals'
  BY <1>1, <1>4, Zenon DEF RemoveMetricGet
<1>5. ASSUME NEW m \in MetricIds, NEW v \in Values \cup {None},
             RemoveMetricUpdate(m, v) /\ UNCHANGED assessmentVars
      PROVE  LoopLocals'
  BY <1>1, <1>5, Zenon DEF RemoveMetricUpdate
<1>6. ASSUME NEW m \in MetricIds, NEW v \in Values,
             UpdateMetricImplementation(m, v) /\ UNCHANGED assessmentVars
      PROVE  LoopLocals'
  BY <1>1, <1>6, Zenon DEF UpdateMetricImplementation
<1>7. ASSUME NEW k \in Keys, NEW v \in Values,
             UpdateMetricConfiguration(k, v) /\ UNCHANGED assessmentVars
      PROVE  LoopLocals'
  BY <1>1, <1>7, Zenon DEF UpdateMetricConfiguration, Keys
<1>8. ASSUME NEW e \in Event, PutEvent(e) /\ UNCHANGED assessmentVars
      PROVE  LoopLocals'
  BY <1>1, <1>8, Zenon DEF PutEvent, RoomForEvent
<1>9. ASSUME NEW h \in Subs, HandlerTake(h) /\ UNCHANGED assessmentVars
      PROVE  LoopLocals'
  BY <1>9 DEF LoopLocals, MetricsTypes, LoopTypes, HandlerTake
<1>10. ASSUME NEW h \in Subs, HandlerSend(h) /\ UNCHANGED assessmentVars
      PROVE  LoopLocals'
  BY <1>10 DEF LoopLocals, MetricsTypes, LoopTypes, HandlerSend
<1>11. ASSUME NEW h \in Subs, InitOrchestratorStream(h) PROVE LoopLocals'
  BY <1>11 DEF LoopLocals, MetricsTypes, LoopTypes, InitOrchestratorStream,
    Subscribe
<1>12. ASSUME NEW h \in Subs, LoopCall(h) PROVE LoopLocals'
  BY <1>12, Zenon DEF LoopLocals, MetricsTypes, LoopTypes, LoopCall
<1>13. ASSUME NEW h \in Subs, LoopRecv(h) PROVE LoopLocals'
  BY <1>13 DEF LoopLocals, MetricsTypes, LoopTypes, LoopRecv
<1>14. ASSUME NEW h \in Subs, LoopEnd(h) PROVE LoopLocals'
  BY <1>14, Zenon DEF LoopLocals, MetricsTypes, LoopTypes, LoopEnd
<1>15. ASSUME NEW h \in Subs, HandleConfigEvent(h) PROVE LoopLocals'
  BY <1>15, Zenon DEF LoopLocals, MetricsTypes, LoopTypes, HandleConfigEvent
<1>16. ASSUME NEW h \in Subs, HandleMetricEvent(h) PROVE LoopLocals'
  BY <1>16, Zenon DEF LoopLocals, MetricsTypes, LoopTypes, HandleMetricEvent, Evict
<1>17. CASE ResultStreamEnds
  BY <1>1, <1>17, Zenon DEF ResultStreamEnds
<1>18. CASE OrchestratorRestart
  BY <1>18, Zenon DEF LoopLocals, MetricsTypes, LoopTypes, OrchestratorRestart,
    Restart, BuiltinOr
<1>19. CASE Tick
  BY <1>1, <1>19, Zenon DEF Tick
<1>20. CASE UNCHANGED vars
  BY <1>1, <1>20, Zenon DEF vars
<1>21. removing \subseteq MetricIds \X (Values \cup {None}) /\ notifying \subseteq Event
  BY Zenon DEF MetricsTypes, ValueOrNone
<1>22. CASE MetricsStep /\ UNCHANGED assessmentVars
  BY <1>22, <1>2, <1>3, <1>4, <1>5, <1>6, <1>7, <1>8, <1>9, <1>10, <1>21, Zenon DEF
     MetricsStep
<1>23. ASSUME NEW a \in Assessors, Assess(a) \/ RpcFails(a) \/ \E k \in Keys : EvalMap(a, k)
      PROVE  LoopLocals'
  BY <1>1, <1>23, AssessFrame, Zenon
<1>24. ASSUME NEW h \in Subs, EventLoop(h) \/ InitOrchestratorStream(h)
      PROVE  LoopLocals'
  BY <1>24, <1>11, <1>12, <1>13, <1>14, <1>15, <1>16, Zenon DEF EventLoop
<1>25. QED
  BY <1>20, <1>22, <1>23, <1>24, <1>17, <1>18, <1>19, Zenon DEF Next

\* The strengthened type invariant holds in every state.
LEMMA TypeInvariant == Spec => []TypeInv
<1>1. Init => TypeInv
  BY NoneDistinct, MetricsAssumption
     DEF Init, MetricsInit, TypeInv, MetricsTypes, LoopTypes, CacheTypes, AssessTypes,
         ValueOrNone, AssessorLocals, LoopLocals
<1>2. TypeInv /\ [Next]_vars => TypeInv'
  BY MetricsTypesStep, LoopTypesStep, CacheTypesStep, AssessTypesStep,
     AssessorLocalsStep, LoopLocalsStep, Zenon DEF TypeInv
<1>3. QED BY <1>1, <1>2, PTL DEF Spec

\* The tables, caches, channels and goroutines of both services keep their types,
\* for any number of metrics, evaluations, subscriptions, failures and restarts.
THEOREM TypeCorrect == Spec => []TypeOK
<1>1. TypeInv => TypeOK
  BY Zenon DEF TypeInv, TypeOK, MetricsTypes, LoopTypes, CacheTypes, AssessTypes
<1>2. QED BY <1>1, TypeInvariant, PTL

-----------------------------------------------------------------------------
(***************************************************************************)
(* The coherence of the query cache.                                       *)
(***************************************************************************)
Steady == MaxRemovals = 0 /\ MaxRestarts = 0 /\ MaxReconnects = 0

\* Subscriptions do not end, and an event is held by one goroutine at a time.
Subscribed ==
  /\ removing = {}
  /\ \A h \in Subs :
       /\ sub[h] # "ended"
       /\ handler[h] # "none" \/ lpc[h] # "none" => sub[h] = "open"
       /\ handler[h] # "sending" => inHand[h] = None
       /\ lpc[h] \notin {"got", "evict"} => lev[h] = None

\* A query is compiled from an implementation that exists.
Implemented ==
  /\ \A m \in MetricIds : metric[m] = "absent" => impl[m] = None
  /\ \A q \in QueryKeys : qc[q] # None => impl[MetricOf(q)] # None
  /\ \A a \in Assessors : pc[a] = "storeImpl" => impl[key[a][2]] # None

\* The implementation an evaluation has fetched under the lock of the cache is
\* the current one, or an event that evicts what it will store is under way.
InFlight ==
  \A a \in Assessors :
    pc[a] = "storeImpl" /\ aimpl[a] # impl[key[a][2]] => ImplAnnounced(key[a][2])

CoherenceInv == Subscribed /\ Implemented /\ InFlight /\ QueryCoherent

\* While the subscription lasts, nothing is removed, reconnected or restarted.
LEMMA SteadySteps ==
  ASSUME Steady, TypeInv, Subscribed
  PROVE  /\ \A m \in MetricIds : ~RemoveMetricGet(m)
         /\ \A m \in MetricIds, v \in Values \cup {None} : ~RemoveMetricUpdate(m, v)
         /\ ~ResultStreamEnds
         /\ ~OrchestratorRestart
<1>1. removals \in Nat /\ restarts \in Nat /\ reconnects \in Nat
  BY Zenon DEF TypeInv, MetricsTypes, LoopTypes
<1>2. ~(removals < MaxRemovals) /\ ~(restarts < MaxRestarts) /\ ~(reconnects < MaxReconnects)
  BY <1>1 DEF Steady
<1>3. removing = {}
  BY Zenon DEF Subscribed
<1>4. \A m \in MetricIds : ~RemoveMetricGet(m)
  BY <1>2, Zenon DEF RemoveMetricGet
<1>5. \A m \in MetricIds, v \in Values \cup {None} : ~RemoveMetricUpdate(m, v)
  BY <1>3, Zenon DEF RemoveMetricUpdate
<1>6. ~ResultStreamEnds /\ ~OrchestratorRestart
  BY <1>2, Zenon DEF ResultStreamEnds, OrchestratorRestart, Restart
<1>7. QED BY <1>4, <1>5, <1>6, Zenon

\* Every step keeps the subscriptions up.
LEMMA SubscribedStep ==
  Steady /\ TypeInv /\ Subscribed /\ [Next]_vars => Subscribed'
<1> SUFFICES ASSUME Steady, TypeInv, Subscribed, [Next]_vars PROVE Subscribed'
  BY Zenon
<1> USE NoneDistinct
<1> USE DEF TypeInv, metricVars, tables, channel, subVars, bounds,
            loopVars, confVars, queryVars, assessVars, assessmentVars
<1>1. ASSUME UNCHANGED <<removing, sub, handler, lpc, inHand, lev>> PROVE Subscribed'
  BY <1>1, Zenon DEF Subscribed
<1>2. ASSUME NEW m \in MetricIds, NEW v \in Values \cup {None},
             CreateMetric(m, v) /\ UNCHANGED assessmentVars
      PROVE  Subscribed'
  BY <1>1, <1>2, Zenon DEF CreateMetric
<1>3. ASSUME NEW m \in MetricIds, UpdateMetric(m) /\ UNCHANGED assessmentVars
      PROVE  Subscribed'
  BY <1>1, <1>3, Zenon DEF UpdateMetric
<1>4. ASSUME NEW m \in MetricIds, RemoveMetricGet(m) /\ UNCHANGED assessmentVars
      PROVE  Subscribed'
  BY <1>4, SteadySteps, Zenon
<1>5. ASSUME NEW m \in MetricIds, NEW v \in Values \cup {None},
             RemoveMetricUpdate(m, v) /\ UNCHANGED assessmentVars
      PROVE  Subscribed'
  BY <1>5, SteadySteps, Zenon
<1>6. ASSUME NEW m \in MetricIds, NEW v \in Values,
             UpdateMetricImplementation(m, v) /\ UNCHANGED assessmentVars
      PROVE  Subscribed'
  BY <1>1, <1>6, Zenon DEF UpdateMetricImplementation
<1>7. ASSUME NEW k \in Keys, NEW v \in Values,
             UpdateMetricConfiguration(k, v) /\ UNCHANGED assessmentVars
      PROVE  Subscribed'
  BY <1>1, <1>7, Zenon DEF UpdateMetricConfiguration, Keys
<1>8. ASSUME NEW e \in Event, PutEvent(e) /\ UNCHANGED assessmentVars
      PROVE  Subscribed'
  BY <1>1, <1>8, Zenon DEF PutEvent, RoomForEvent
<1>9. ASSUME NEW h \in Subs, HandlerTake(h) /\ UNCHANGED assessmentVars
      PROVE  Subscribed'
  BY <1>9, Zenon DEF Subscribed, MetricsTypes, LoopTypes, HandlerTake
<1>10. ASSUME NEW h \in Subs, HandlerSend(h) /\ UNCHANGED assessmentVars
      PROVE  Subscribed'
  BY <1>10 DEF Subscribed, MetricsTypes, LoopTypes, HandlerSend
<1>11. ASSUME NEW h \in Subs, InitOrchestratorStream(h) PROVE Subscribed'
  BY <1>11 DEF Subscribed, MetricsTypes, LoopTypes, InitOrchestratorStream,
    Subscribe
<1>12. ASSUME NEW h \in Subs, LoopCall(h) PROVE Subscribed'
  BY <1>12, Zenon DEF Subscribed, MetricsTypes, LoopTypes, LoopCall
<1>13. ASSUME NEW h \in Subs, LoopRecv(h) PROVE Subscribed'
  BY <1>13, Zenon DEF Subscribed, MetricsTypes, LoopTypes, LoopRecv
<1>14. ASSUME NEW h \in Subs, LoopEnd(h) PROVE Subscribed'
  BY <1>14 DEF Subscribed, MetricsTypes, LoopTypes, LoopEnd
<1>15. ASSUME NEW h \in Subs, HandleConfigEvent(h) PROVE Subscribed'
  BY <1>15, Zenon DEF Subscribed, MetricsTypes, LoopTypes, HandleConfigEvent
<1>16. ASSUME NEW h \in Subs, HandleMetricEvent(h) PROVE Subscribed'
  BY <1>16, Zenon DEF Subscribed, MetricsTypes, LoopTypes, HandleMetricEvent, Evict
<1>17. CASE ResultStreamEnds
  BY <1>17, SteadySteps, Zenon
<1>18. CASE OrchestratorRestart
  BY <1>18, SteadySteps, Zenon
<1>19. CASE Tick
  BY <1>1, <1>19, Zenon DEF Tick
<1>20. CASE UNCHANGED vars
  BY <1>1, <1>20, Zenon DEF vars
<1>21. removing \subseteq MetricIds \X (Values \cup {None}) /\ notifying \subseteq Event
  BY Zenon DEF MetricsTypes, ValueOrNone
<1>22. CASE MetricsStep /\ UNCHANGED assessmentVars
  BY <1>22, <1>2, <1>3, <1>4, <1>5, <1>6, <1>7, <1>8, <1>9, <1>10, <1>21, Zenon DEF
     MetricsStep
<1>23. ASSUME NEW a \in Assessors, Assess(a) \/ RpcFails(a) \/ \E k \in Keys : EvalMap(a, k)
      PROVE  Subscribed'
  BY <1>1, <1>23, AssessFrame, Zenon
<1>24. ASSUME NEW h \in Subs, EventLoop(h) \/ InitOrchestratorStream(h)
      PROVE  Subscribed'
  BY <1>24, <1>11, <1>12, <1>13, <1>14, <1>15, <1>16, Zenon DEF EventLoop
<1>25. QED
  BY <1>20, <1>22, <1>23, <1>24, <1>17, <1>18, <1>19, Zenon DEF Next

\* A receive takes the first event from a channel, and no other.
LEMMA WithinTail ==
  ASSUME NEW q \in Seq(Event), NEW e \in Event, Within(e, q)
  PROVE  e = Head(q) \/ Within(e, Tail(q))
<1>1. PICK i \in 1..Len(q) : q[i] = e
  BY Zenon DEF Within
<1>2. CASE i = 1
  BY <1>1, <1>2
<1>3. CASE i # 1
  <2>1. i - 1 \in 1..Len(Tail(q)) /\ Tail(q)[i - 1] = e
    BY <1>1, <1>3
  <2>2. QED BY <2>1, Zenon DEF Within
<1>4. QED BY <1>2, <1>3, Zenon

\* A send adds an event to a channel, and keeps the others.
LEMMA WithinAppend ==
  ASSUME NEW q \in Seq(Event), NEW x \in Event
  PROVE  /\ Within(x, Append(q, x))
         /\ \A e \in Event : Within(e, q) => Within(e, Append(q, x))
<1>1. Within(x, Append(q, x))
  BY Appended, Zenon DEF Within
<1>2. ASSUME NEW e \in Event, Within(e, q) PROVE Within(e, Append(q, x))
  <2>1. PICK i \in 1..Len(q) : q[i] = e
    BY <1>2, Zenon DEF Within
  <2>2. QED BY <2>1, TailAndAppend DEF Within
<1>3. QED BY <1>1, <1>2, Zenon

\* A step that handles no event loses none.
LEMMA AnnouncedKept ==
  ASSUME Steady, TypeInv, Subscribed, [Next]_vars,
         \A h \in Subs : ~HandleMetricEvent(h),
         NEW e \in Event, Announced(e)
  PROVE  Announced(e)'
<1> USE DEF TypeInv, metricVars, tables, channel, subVars, bounds,
            loopVars, confVars, queryVars, assessVars, assessmentVars
<1>1. ASSUME UNCHANGED <<notifying, events, inHand, wire, lev>> PROVE Announced(e)'
  BY <1>1, Zenon DEF Announced, Within
<1>2. ASSUME NEW m \in MetricIds, NEW v \in Values \cup {None},
             CreateMetric(m, v) /\ UNCHANGED assessmentVars
      PROVE  Announced(e)'
  <2>1. UNCHANGED <<events, inHand, wire, lev>> /\ notifying \subseteq notifying'
    BY <1>2, Zenon DEF CreateMetric, Notify
  <2>2. QED BY <2>1, Zenon DEF Announced, Within
<1>3. ASSUME NEW m \in MetricIds, UpdateMetric(m) /\ UNCHANGED assessmentVars
      PROVE  Announced(e)'
  <2>1. UNCHANGED <<events, inHand, wire, lev>> /\ notifying \subseteq notifying'
    BY <1>3, Zenon DEF UpdateMetric, Notify
  <2>2. QED BY <2>1, Zenon DEF Announced, Within
<1>4. ASSUME NEW m \in MetricIds, RemoveMetricGet(m) /\ UNCHANGED assessmentVars
      PROVE  Announced(e)'
  BY <1>4, SteadySteps, Zenon
<1>5. ASSUME NEW m \in MetricIds, NEW v \in Values \cup {None},
             RemoveMetricUpdate(m, v) /\ UNCHANGED assessmentVars
      PROVE  Announced(e)'
  BY <1>5, SteadySteps, Zenon
<1>6. ASSUME NEW m \in MetricIds, NEW v \in Values,
             UpdateMetricImplementation(m, v) /\ UNCHANGED assessmentVars
      PROVE  Announced(e)'
  <2>1. UNCHANGED <<events, inHand, wire, lev>> /\ notifying \subseteq notifying'
    BY <1>6, Zenon DEF UpdateMetricImplementation, Notify
  <2>2. QED BY <2>1, Zenon DEF Announced, Within
<1>7. ASSUME NEW k \in Keys, NEW v \in Values,
             UpdateMetricConfiguration(k, v) /\ UNCHANGED assessmentVars
      PROVE  Announced(e)'
  <2>1. UNCHANGED <<events, inHand, wire, lev>> /\ notifying \subseteq notifying'
    BY <1>7, Zenon DEF UpdateMetricConfiguration, Notify
  <2>2. QED BY <2>1, Zenon DEF Announced, Within
<1>8. ASSUME NEW x \in Event, PutEvent(x) /\ UNCHANGED assessmentVars
      PROVE  Announced(e)'
  <2>1. events \in Seq(Event) /\ x \in Event /\ events' = Append(events, x)
    BY <1>8, Zenon DEF MetricsTypes, PutEvent
  <2>2. Within(x, events') /\ (Within(e, events) => Within(e, events'))
    BY <2>1, WithinAppend, Zenon
  <2>3. QED
    BY <1>8, <2>2, Zenon DEF Announced, Within, PutEvent, RoomForEvent
<1>9. ASSUME NEW h \in Subs, HandlerTake(h) /\ UNCHANGED assessmentVars
      PROVE  Announced(e)'
  <2>1. events \in Seq(Event) /\ events' = Tail(events) /\ inHand'[h] = Head(events)
    BY <1>9, Zenon DEF MetricsTypes, HandlerTake
  <2>2. Within(e, events) => Within(e, events') \/ inHand'[h] = e
    BY <2>1, WithinTail, Zenon
  <2>3. inHand[h] = None
    BY <1>9, Zenon DEF Subscribed, HandlerTake
  <2>4. \A g \in Subs : inHand[g] = e => inHand'[g] = e
    BY <1>9, <2>3, NoneDistinct, Zenon DEF MetricsTypes, HandlerTake
  <2>5. QED
    BY <1>9, <2>2, <2>4, Zenon DEF Announced, Within, HandlerTake
<1>10. ASSUME NEW h \in Subs, HandlerSend(h) /\ UNCHANGED assessmentVars
      PROVE  Announced(e)'
  <2>1. wire[h] \in Seq(Event) /\ wire'[h] = Append(wire[h], inHand[h]) /\ inHand[h] \in Event
    BY <1>10, Zenon DEF MetricsTypes, HandlerSend, Subscribed, LoopLocals
  <2>2. Within(inHand[h], wire'[h]) /\ (Within(e, wire[h]) => Within(e, wire'[h]))
    BY <2>1, WithinAppend, Zenon
  <2>3. \A g \in Subs : g # h => wire'[g] = wire[g] /\ inHand'[g] = inHand[g]
    BY <1>10, Zenon DEF MetricsTypes, HandlerSend
  <2>4. \A g \in Subs : inHand[g] = e => inHand'[g] = e \/ Within(e, wire'[g])
    BY <2>2, <2>3, Zenon
  <2>5. \A g \in Subs : Within(e, wire[g]) => Within(e, wire'[g])
    BY <2>2, <2>3, Zenon
  <2>6. UNCHANGED <<notifying, events, lev>>
    BY <1>10, Zenon DEF HandlerSend
  <2>7. QED
    BY <2>4, <2>5, <2>6, Zenon DEF Announced, Within
<1>11. ASSUME NEW h \in Subs, InitOrchestratorStream(h) PROVE Announced(e)'
  BY <1>1, <1>11, Zenon DEF InitOrchestratorStream, Subscribe
<1>12. ASSUME NEW h \in Subs, LoopCall(h) PROVE Announced(e)'
  BY <1>1, <1>12, Zenon DEF LoopCall
<1>13. ASSUME NEW h \in Subs, LoopRecv(h) PROVE Announced(e)'
  <2>1. /\ lon[h] \in Subs /\ wire[lon[h]] \in Seq(Event)
        /\ wire'[lon[h]] = Tail(wire[lon[h]]) /\ lev'[h] = Head(wire[lon[h]])
    BY <1>13, Zenon DEF MetricsTypes, LoopTypes, LoopRecv, LoopLocals
  <2>2. Within(e, wire[lon[h]]) => Within(e, wire'[lon[h]]) \/ lev'[h] = e
    BY <2>1, WithinTail, Zenon
  <2>3. \A g \in Subs : g # lon[h] => wire'[g] = wire[g]
    BY <1>13, Zenon DEF MetricsTypes, LoopRecv
  <2>4. lev[h] = None
    BY <1>13, Zenon DEF Subscribed, LoopRecv
  <2>5. \A g \in Subs : lev[g] = e => lev'[g] = e
    BY <1>13, <2>4, NoneDistinct, Zenon DEF LoopTypes, LoopRecv
  <2>6. UNCHANGED <<notifying, events, inHand>>
    BY <1>13, Zenon DEF LoopRecv
  <2>7. \A g \in Subs : Within(e, wire[g]) => Within(e, wire'[g]) \/ lev'[h] = e
    BY <2>2, <2>3, Zenon
  <2>8. QED
    BY <2>5, <2>6, <2>7, Zenon DEF Announced, Within
<1>14. ASSUME NEW h \in Subs, LoopEnd(h) PROVE Announced(e)'
  BY <1>1, <1>14, Zenon DEF LoopEnd
<1>15. ASSUME NEW h \in Subs, HandleConfigEvent(h) PROVE Announced(e)'
  BY <1>1, <1>15, Zenon DEF HandleConfigEvent
<1>16. ASSUME NEW h \in Subs, HandleMetricEvent(h) PROVE Announced(e)'
  BY <1>16, Zenon
<1>17. CASE ResultStreamEnds
  BY <1>17, SteadySteps, Zenon
<1>18. CASE OrchestratorRestart
  BY <1>18, SteadySteps, Zenon
<1>19. CASE Tick
  BY <1>1, <1>19, Zenon DEF Tick
<1>20. CASE UNCHANGED vars
  BY <1>1, <1>20, Zenon DEF vars
<1>21. removing \subseteq MetricIds \X (Values \cup {None}) /\ notifying \subseteq Event
  BY Zenon DEF MetricsTypes, ValueOrNone
<1>22. CASE MetricsStep /\ UNCHANGED assessmentVars
  BY <1>22, <1>2, <1>3, <1>4, <1>5, <1>6, <1>7, <1>8, <1>9, <1>10, <1>21, Zenon DEF
     MetricsStep
<1>23. ASSUME NEW a \in Assessors, Assess(a) \/ RpcFails(a) \/ \E k \in Keys : EvalMap(a, k)
      PROVE  Announced(e)'
  BY <1>1, <1>23, AssessFrame, Zenon
<1>24. ASSUME NEW h \in Subs, EventLoop(h) \/ InitOrchestratorStream(h)
      PROVE  Announced(e)'
  BY <1>24, <1>11, <1>12, <1>13, <1>14, <1>15, <1>16, Zenon DEF EventLoop
<1>25. QED
  BY <1>20, <1>22, <1>23, <1>24, <1>17, <1>18, <1>19, Zenon DEF Next

\* What every step does but the two that fetch an implementation and store a
\* query: an implementation that changes is a new one or is announced, and no
\* query is added.
Quiet ==
  /\ \A m \in MetricIds :
       /\ metric'[m] = "absent" => metric[m] = "absent" /\ impl'[m] = impl[m]
       /\ \/ impl'[m] = impl[m]
          \/ metric[m] = "absent"
          \/ /\ impl'[m] # None
             /\ \E e \in Event : e.type = "impl" /\ e.metric = m /\ e \in notifying'
  /\ \A q \in QueryKeys : qc'[q] = qc[q] \/ qc'[q] = None
  /\ \A a \in Assessors : pc'[a] = "storeImpl" =>
       pc[a] = "storeImpl" /\ key'[a] = key[a] /\ aimpl'[a] = aimpl[a]

\* Every other step is quiet.
LEMMA QuietStep ==
  ASSUME Steady, TypeInv, Subscribed, [Next]_vars,
         \A a \in Assessors : ~FetchImpl(a) /\ ~StoreImpl(a)
  PROVE  Quiet
<1> USE NoneDistinct
<1> USE DEF TypeInv, metricVars, tables, channel, subVars, bounds,
            loopVars, confVars, queryVars, assessVars, assessmentVars
<1>1. ASSUME UNCHANGED <<metric, impl, qc, pc, key, aimpl>> PROVE Quiet
  BY <1>1, Zenon DEF Quiet
<1>2. ASSUME NEW m \in MetricIds, NEW v \in Values \cup {None},
             CreateMetric(m, v) /\ UNCHANGED assessmentVars
      PROVE  Quiet
  <2>1. UNCHANGED <<pc, key, aimpl, qc>>
    BY <1>2, Zenon
  <2>2. /\ metric \in [MetricIds -> {"absent", "active", "deprecated"}]
        /\ impl \in [MetricIds -> ValueOrNone]
    BY Zenon DEF MetricsTypes
  <2>3. QED
    BY <1>2, <2>1, <2>2, Zenon DEF Quiet, CreateMetric
<1>3. ASSUME NEW m \in MetricIds, UpdateMetric(m) /\ UNCHANGED assessmentVars
      PROVE  Quiet
  <2>1. UNCHANGED <<pc, key, aimpl, qc>>
    BY <1>3, Zenon
  <2>2. /\ metric \in [MetricIds -> {"absent", "active", "deprecated"}]
        /\ impl \in [MetricIds -> ValueOrNone]
    BY Zenon DEF MetricsTypes
  <2>3. QED
    BY <1>3, <2>1, <2>2, Zenon DEF Quiet, UpdateMetric
<1>4. ASSUME NEW m \in MetricIds, RemoveMetricGet(m) /\ UNCHANGED assessmentVars
      PROVE  Quiet
  BY <1>4, SteadySteps, Zenon
<1>5. ASSUME NEW m \in MetricIds, NEW v \in Values \cup {None},
             RemoveMetricUpdate(m, v) /\ UNCHANGED assessmentVars
      PROVE  Quiet
  BY <1>5, SteadySteps, Zenon
<1>6. ASSUME NEW m \in MetricIds, NEW v \in Values,
             UpdateMetricImplementation(m, v) /\ UNCHANGED assessmentVars
      PROVE  Quiet
  <2>1. UNCHANGED <<pc, key, aimpl, qc, metric>>
    BY <1>6, Zenon DEF UpdateMetricImplementation
  <2>2. \E e \in Event : e.type = "impl" /\ e.metric = m /\ e \in notifying'
    BY <1>6, NotifyTyped, Zenon DEF UpdateMetricImplementation
  <2>3. metric[m] # "absent" /\ impl'[m] # None /\ \A n \in MetricIds \ {m} : impl'[n] = impl[n]
    BY <1>6, Zenon DEF UpdateMetricImplementation, MetricsTypes
  <2>4. QED
    BY <2>1, <2>2, <2>3, Zenon DEF Quiet
<1>7. ASSUME NEW k \in Keys, NEW v \in Values,
             UpdateMetricConfiguration(k, v) /\ UNCHANGED assessmentVars
      PROVE  Quiet
  BY <1>1, <1>7, Zenon DEF UpdateMetricConfiguration, Keys
<1>8. ASSUME NEW e \in Event, PutEvent(e) /\ UNCHANGED assessmentVars PROVE Quiet
  BY <1>1, <1>8, Zenon DEF PutEvent, RoomForEvent
<1>9. ASSUME NEW h \in Subs, HandlerTake(h) /\ UNCHANGED assessmentVars PROVE Quiet
  BY <1>1, <1>9, Zenon DEF HandlerTake
<1>10. ASSUME NEW h \in Subs, HandlerSend(h) /\ UNCHANGED assessmentVars PROVE Quiet
  BY <1>1, <1>10, Zenon DEF HandlerSend
<1>11. ASSUME NEW a \in Assessors, NEW k \in Keys, EvalMap(a, k) PROVE Quiet
  <2>1. UNCHANGED <<metric, impl, qc>>
    BY <1>11, Zenon DEF EvalMap
  <2>2. /\ pc \in [Assessors -> {"idle", "lookup", "fetchConf", "storeConf", "query",
                           "fetchImpl", "storeImpl"}]
        /\ key \in [Assessors -> Keys \cup {None}] /\ aimpl \in [Assessors -> ValueOrNone]
    BY Zenon DEF AssessTypes
  <2>3. \A b \in Assessors : pc'[b] = "storeImpl" =>
          pc[b] = "storeImpl" /\ key'[b] = key[b] /\ aimpl'[b] = aimpl[b]
    BY <1>11, <2>2, Zenon DEF EvalMap, Goto, Return, ConfNotFound
  <2>4. QED BY <2>1, <2>3, Zenon DEF Quiet
<1>12. ASSUME NEW a \in Assessors, ConfLookup(a) PROVE Quiet
  <2>1. UNCHANGED <<metric, impl, qc>>
    BY <1>12, Zenon DEF ConfLookup
  <2>2. /\ pc \in [Assessors -> {"idle", "lookup", "fetchConf", "storeConf", "query",
                           "fetchImpl", "storeImpl"}]
        /\ key \in [Assessors -> Keys \cup {None}] /\ aimpl \in [Assessors -> ValueOrNone]
    BY Zenon DEF AssessTypes
  <2>3. \A b \in Assessors : pc'[b] = "storeImpl" =>
          pc[b] = "storeImpl" /\ key'[b] = key[b] /\ aimpl'[b] = aimpl[b]
    BY <1>12, <2>2, Zenon DEF ConfLookup, Goto, Return, ConfNotFound
  <2>4. QED BY <2>1, <2>3, Zenon DEF Quiet
<1>13. ASSUME NEW a \in Assessors, FetchConf(a) PROVE Quiet
  <2>1. UNCHANGED <<metric, impl, qc>>
    BY <1>13, Zenon DEF FetchConf
  <2>2. /\ pc \in [Assessors -> {"idle", "lookup", "fetchConf", "storeConf", "query",
                           "fetchImpl", "storeImpl"}]
        /\ key \in [Assessors -> Keys \cup {None}] /\ aimpl \in [Assessors -> ValueOrNone]
    BY DEF AssessTypes
  <2>3. \A b \in Assessors : pc'[b] = "storeImpl" =>
          pc[b] = "storeImpl" /\ key'[b] = key[b] /\ aimpl'[b] = aimpl[b]
    BY <1>13, <2>2, Zenon DEF FetchConf, Goto, Return, ConfNotFound
  <2>4. QED BY <2>1, <2>3 DEF Quiet
<1>14. ASSUME NEW a \in Assessors, StoreConf(a) PROVE Quiet
  <2>1. UNCHANGED <<metric, impl, qc>>
    BY <1>14, Zenon DEF StoreConf
  <2>2. /\ pc \in [Assessors -> {"idle", "lookup", "fetchConf", "storeConf", "query",
                           "fetchImpl", "storeImpl"}]
        /\ key \in [Assessors -> Keys \cup {None}] /\ aimpl \in [Assessors -> ValueOrNone]
    BY DEF AssessTypes
  <2>3. \A b \in Assessors : pc'[b] = "storeImpl" =>
          pc[b] = "storeImpl" /\ key'[b] = key[b] /\ aimpl'[b] = aimpl[b]
    BY <1>14, <2>2, Zenon DEF StoreConf, Goto, Return, ConfNotFound
  <2>4. QED BY <2>1, <2>3 DEF Quiet
<1>15. ASSUME NEW a \in Assessors, QueryGet(a) PROVE Quiet
  <2>1. UNCHANGED <<metric, impl, qc>>
    BY <1>15, Zenon DEF QueryGet
  <2>2. /\ pc \in [Assessors -> {"idle", "lookup", "fetchConf", "storeConf", "query",
                           "fetchImpl", "storeImpl"}]
        /\ key \in [Assessors -> Keys \cup {None}] /\ aimpl \in [Assessors -> ValueOrNone]
    BY DEF AssessTypes
  <2>3. \A b \in Assessors : pc'[b] = "storeImpl" =>
          pc[b] = "storeImpl" /\ key'[b] = key[b] /\ aimpl'[b] = aimpl[b]
    BY <1>15, <2>2, Zenon DEF QueryGet, Goto, Return, ConfNotFound
  <2>4. QED BY <2>1, <2>3 DEF Quiet
<1>16. ASSUME NEW a \in Assessors, FetchImpl(a) PROVE Quiet
  BY <1>16, Zenon
<1>17. ASSUME NEW a \in Assessors, StoreImpl(a) PROVE Quiet
  BY <1>17, Zenon
<1>18. ASSUME NEW a \in Assessors, RpcFails(a) PROVE Quiet
  <2>1. UNCHANGED <<metric, impl, qc>>
    BY <1>18, Zenon DEF RpcFails
  <2>2. /\ pc \in [Assessors -> {"idle", "lookup", "fetchConf", "storeConf", "query",
                           "fetchImpl", "storeImpl"}]
        /\ key \in [Assessors -> Keys \cup {None}] /\ aimpl \in [Assessors -> ValueOrNone]
    BY DEF AssessTypes
  <2>3. \A b \in Assessors : pc'[b] = "storeImpl" =>
          pc[b] = "storeImpl" /\ key'[b] = key[b] /\ aimpl'[b] = aimpl[b]
    BY <1>18, <2>2, Zenon DEF RpcFails, Goto, Return, ConfNotFound
  <2>4. QED BY <2>1, <2>3 DEF Quiet
<1>19. ASSUME NEW h \in Subs, InitOrchestratorStream(h) PROVE Quiet
  BY <1>1, <1>19, Zenon DEF InitOrchestratorStream, Subscribe
<1>20. ASSUME NEW h \in Subs, LoopCall(h) PROVE Quiet
  BY <1>1, <1>20, Zenon DEF LoopCall
<1>21. ASSUME NEW h \in Subs, LoopRecv(h) PROVE Quiet
  BY <1>1, <1>21, Zenon DEF LoopRecv
<1>22. ASSUME NEW h \in Subs, LoopEnd(h) PROVE Quiet
  BY <1>1, <1>22, Zenon DEF LoopEnd
<1>23. ASSUME NEW h \in Subs, HandleConfigEvent(h) PROVE Quiet
  BY <1>1, <1>23, Zenon DEF HandleConfigEvent
<1>24. ASSUME NEW h \in Subs, HandleMetricEvent(h) PROVE Quiet
  <2>1. UNCHANGED <<metric, impl, pc, key, aimpl>>
    BY <1>24, Zenon DEF HandleMetricEvent
  <2>2. \A q \in QueryKeys : qc'[q] = qc[q] \/ qc'[q] = None
    BY <1>24, Zenon DEF HandleMetricEvent, Evict
  <2>3. QED BY <2>1, <2>2, Zenon DEF Quiet
<1>25. CASE ResultStreamEnds
  BY <1>25, SteadySteps, Zenon
<1>26. CASE OrchestratorRestart
  BY <1>26, SteadySteps, Zenon
<1>27. CASE Tick
  BY <1>1, <1>27, Zenon DEF Tick
<1>28. CASE UNCHANGED vars
  BY <1>1, <1>28, Zenon DEF vars
<1>29. removing \subseteq MetricIds \X (Values \cup {None}) /\ notifying \subseteq Event
  BY Zenon DEF MetricsTypes, ValueOrNone
<1>30. CASE MetricsStep /\ UNCHANGED assessmentVars
  BY <1>30, <1>2, <1>3, <1>4, <1>5, <1>6, <1>7, <1>8, <1>9, <1>10, <1>29, Zenon DEF
     MetricsStep
<1>31. ASSUME NEW a \in Assessors, Assess(a) \/ RpcFails(a) \/ \E k \in Keys : EvalMap(a, k)
      PROVE  Quiet
  BY <1>31, <1>11, <1>12, <1>13, <1>14, <1>15, <1>16, <1>17, <1>18, Zenon DEF Assess
<1>32. ASSUME NEW h \in Subs, EventLoop(h) \/ InitOrchestratorStream(h) PROVE Quiet
  BY <1>32, <1>19, <1>20, <1>21, <1>22, <1>23, <1>24, Zenon DEF EventLoop
<1>33. QED
  BY <1>28, <1>30, <1>31, <1>32, <1>25, <1>26, <1>27, Zenon DEF Next

\* A quiet step keeps queries compiled from implementations that exist.
LEMMA QuietImplemented ==
  ASSUME TypeInv, TypeInv', Implemented, Quiet
  PROVE  Implemented'
<1>1. \A q \in QueryKeys : MetricOf(q) \in MetricIds
  BY Zenon DEF QueryKeys, Keys, MetricOf
<1>2. \A a \in Assessors : pc[a] = "storeImpl" => key[a][2] \in MetricIds
  BY Zenon DEF TypeInv, AssessorLocals, Keys
<1>3. \A m \in MetricIds : impl[m] # None => impl'[m] # None
  BY Zenon DEF Implemented, Quiet
<1>4. \A m \in MetricIds : metric'[m] = "absent" => impl'[m] = None
  BY Zenon DEF Implemented, Quiet
<1>5. \A q \in QueryKeys : qc'[q] # None => impl'[MetricOf(q)] # None
  BY <1>1, <1>3, Zenon DEF Implemented, Quiet
<1>6. \A a \in Assessors : pc'[a] = "storeImpl" => impl'[key'[a][2]] # None
  BY <1>2, <1>3 DEF Implemented, Quiet
<1>7. QED BY <1>4, <1>5, <1>6, Zenon DEF Implemented, MetricOf

\* A quiet step that loses no event keeps the cache coherent.
LEMMA QuietCoherent ==
  ASSUME TypeInv, Implemented, InFlight, QueryCoherent, Quiet,
         \A m \in MetricIds : ImplAnnounced(m) => ImplAnnounced(m)'
  PROVE  InFlight' /\ QueryCoherent'
<1>1. \A q \in QueryKeys : MetricOf(q) \in MetricIds
  BY Zenon DEF QueryKeys, Keys, MetricOf
<1>2. \A a \in Assessors : pc[a] = "storeImpl" => key[a][2] \in MetricIds
  BY Zenon DEF TypeInv, AssessorLocals, Keys
<1>3. \A m \in MetricIds : impl[m] # None => impl'[m] = impl[m] \/ ImplAnnounced(m)'
  BY Zenon DEF Implemented, Quiet, ImplAnnounced, Announced
<1>4. ASSUME NEW a \in Assessors, pc'[a] = "storeImpl", aimpl'[a] # impl'[key'[a][2]]
      PROVE  ImplAnnounced(key[a][2])' /\ key'[a] = key[a]
  <2>1. pc[a] = "storeImpl" /\ key'[a] = key[a] /\ aimpl'[a] = aimpl[a]
    BY <1>4, Zenon DEF Quiet
  <2>2. key[a][2] \in MetricIds /\ impl[key[a][2]] # None
    BY <1>2, <2>1, Zenon DEF Implemented
  <2>3. CASE impl'[key[a][2]] = impl[key[a][2]]
    <3>1. aimpl[a] # impl[key[a][2]]
      BY <1>4, <2>1, <2>3, Zenon
    <3>2. ImplAnnounced(key[a][2])
      BY <2>1, <3>1, Zenon DEF InFlight
    <3>3. QED BY <2>1, <2>2, <3>2, Zenon
  <2>4. CASE impl'[key[a][2]] # impl[key[a][2]]
    BY <1>3, <2>1, <2>2, <2>4, Zenon
  <2>5. QED BY <2>3, <2>4, Zenon
<1>5. ASSUME NEW q \in QueryKeys, qc'[q] # None, qc'[q] # impl'[MetricOf(q)]
      PROVE  ImplAnnounced(MetricOf(q))'
  <2>1. qc'[q] = qc[q] /\ MetricOf(q) \in MetricIds
    BY <1>1, <1>5, Zenon DEF Quiet
  <2>2. impl[MetricOf(q)] # None
    BY <1>5, <2>1, Zenon DEF Implemented
  <2>3. CASE impl'[MetricOf(q)] = impl[MetricOf(q)]
    <3>1. ImplAnnounced(MetricOf(q))
      BY <1>5, <2>1, <2>3, Zenon DEF QueryCoherent
    <3>2. QED BY <2>1, <3>1, Zenon
  <2>4. CASE impl'[MetricOf(q)] # impl[MetricOf(q)]
    BY <1>3, <2>1, <2>2, <2>4, Zenon
  <2>5. QED BY <2>3, <2>4, Zenon
<1>6. InFlight'
  BY <1>4, Zenon DEF InFlight
<1>7. QueryCoherent'
  BY <1>5, Zenon DEF QueryCoherent
<1>8. QED BY <1>6, <1>7, Zenon

\* FetchImpl reads the current implementation.
LEMMA FetchImplCoherent ==
  ASSUME TypeInv, Implemented, InFlight, QueryCoherent,
         \A m \in MetricIds : ImplAnnounced(m) => ImplAnnounced(m)',
         NEW a \in Assessors, FetchImpl(a)
  PROVE  Implemented' /\ InFlight' /\ QueryCoherent'
<1>1. UNCHANGED <<metric, impl, qc>>
  BY Zenon DEF FetchImpl, metricVars, tables
<1>2. \A q \in QueryKeys : MetricOf(q) \in MetricIds
  BY Zenon DEF QueryKeys, Keys, MetricOf
<1>3. \A b \in Assessors : pc[b] = "storeImpl" => key[b][2] \in MetricIds
  BY Zenon DEF TypeInv, AssessorLocals, Keys
<1>4. /\ pc \in [Assessors -> {"idle", "lookup", "fetchConf", "storeConf", "query",
                             "fetchImpl", "storeImpl"}]
      /\ key \in [Assessors -> Keys \cup {None}]
      /\ aimpl \in [Assessors -> Values \cup {None}]
  BY Zenon DEF TypeInv, AssessTypes, CacheTypes, ValueOrNone
<1>5. \A b \in Assessors : pc'[b] = "storeImpl" =>
        /\ key'[b] = key[b]
        /\ \/ pc[b] = "storeImpl" /\ aimpl'[b] = aimpl[b]
           \/ aimpl'[b] = impl[key[b][2]] /\ impl[key[b][2]] # None
  BY <1>4 DEF FetchImpl, Return, Goto
<1>6. Implemented'
  BY <1>1, <1>5, Zenon DEF Implemented, MetricOf
<1>7. InFlight'
  BY <1>1, <1>3, <1>5, Zenon DEF InFlight
<1>8. QueryCoherent'
  BY <1>1, <1>2, Zenon DEF QueryCoherent
<1>9. QED BY <1>6, <1>7, <1>8, Zenon

\* StoreImpl adds a query of the implementation that was fetched.
LEMMA StoreImplCoherent ==
  ASSUME TypeInv, Implemented, InFlight, QueryCoherent,
         \A m \in MetricIds : ImplAnnounced(m) => ImplAnnounced(m)',
         NEW a \in Assessors, StoreImpl(a)
  PROVE  Implemented' /\ InFlight' /\ QueryCoherent'
<1>1. UNCHANGED <<metric, impl>> /\ pc[a] = "storeImpl"
  BY Zenon DEF StoreImpl, metricVars, tables
<1>2. \A q \in QueryKeys : MetricOf(q) \in MetricIds
  BY DEF QueryKeys, Keys, MetricOf
<1>3. \A b \in Assessors : pc[b] = "storeImpl" => key[b][2] \in MetricIds
  BY DEF TypeInv, AssessorLocals, Keys
<1>4. /\ pc \in [Assessors -> {"idle", "lookup", "fetchConf", "storeConf", "query",
                             "fetchImpl", "storeImpl"}]
      /\ key \in [Assessors -> Keys \cup {None}]
      /\ aimpl \in [Assessors -> Values \cup {None}] /\ qc \in [QueryKeys -> Values \cup {None}]
  BY Zenon DEF TypeInv, AssessTypes, CacheTypes, ValueOrNone
<1>5. \A b \in Assessors : pc'[b] = "storeImpl" =>
        pc[b] = "storeImpl" /\ key'[b] = key[b] /\ aimpl'[b] = aimpl[b]
  BY <1>4, Zenon DEF StoreImpl, Return, Goto
<1>6. MetricOf(<<key[a], aconf[a]>>) = key[a][2]
  BY Zenon DEF MetricOf
<1>7. \A q \in QueryKeys : qc'[q] = qc[q] \/ (MetricOf(q) = key[a][2] /\ qc'[q] = aimpl[a])
  BY <1>4, <1>6, Zenon DEF StoreImpl
<1>8. Implemented'
  <2>1. \A m \in MetricIds : metric'[m] = "absent" => impl'[m] = None
    BY <1>1, Zenon DEF Implemented
  <2>2. \A q \in QueryKeys : qc'[q] # None => impl'[MetricOf(q)] # None
    BY <1>1, <1>7, Zenon DEF Implemented
  <2>3. \A b \in Assessors : pc'[b] = "storeImpl" => impl'[key'[b][2]] # None
    BY <1>1, <1>5, Zenon DEF Implemented
  <2>4. QED BY <2>1, <2>2, <2>3, Zenon DEF Implemented, MetricOf
<1>9. InFlight'
  BY <1>1, <1>3, <1>5, Zenon DEF InFlight
<1>10. ASSUME NEW q \in QueryKeys, qc'[q] # None, qc'[q] # impl'[MetricOf(q)]
       PROVE  ImplAnnounced(MetricOf(q))'
  <2>1. ImplAnnounced(MetricOf(q))
    BY <1>1, <1>7, <1>10, Zenon DEF InFlight, QueryCoherent
  <2>2. QED BY <1>2, <2>1, Zenon
<1>11. QueryCoherent'
  BY <1>10, Zenon DEF QueryCoherent
<1>12. QED BY <1>8, <1>9, <1>11

\* HandleMetricEvent drops an event, and every query it announces a change for.
LEMMA HandleCoherent ==
  ASSUME TypeInv, Implemented, InFlight, QueryCoherent, Quiet,
         NEW h \in Subs, HandleMetricEvent(h)
  PROVE  InFlight' /\ QueryCoherent'
<1>1. /\ UNCHANGED <<impl, pc, key, notifying, events, inHand, wire>>
      /\ lev' = [lev EXCEPT ![h] = None] /\ qc' = Evict(lev[h].metric)
  BY Zenon DEF HandleMetricEvent, metricVars, tables, channel, subVars, assessVars
<1>2. lev \in [Subs -> Event \cup {None}] /\ lev[h] \in Event
  BY Zenon DEF TypeInv, LoopTypes, LoopLocals, HandleMetricEvent
<1>3. \A b \in Assessors : pc'[b] # "storeImpl"
  BY NoneDistinct, Zenon DEF TypeInv, AssessorLocals, HandleMetricEvent, assessVars
<1>4. \A e \in Event : Announced(e) => e = lev[h] \/ Announced(e)'
  BY <1>1, <1>2, Zenon DEF Announced, Within
<1>5. \A m \in MetricIds : m # lev[h].metric /\ ImplAnnounced(m) => ImplAnnounced(m)'
  BY <1>4, Zenon DEF ImplAnnounced
<1>6. \A q \in QueryKeys : MetricOf(q) \in MetricIds
  BY Zenon DEF QueryKeys, Keys, MetricOf
<1>7. \A q \in QueryKeys : MetricOf(q) = lev[h].metric => qc'[q] = None
  BY <1>1, <1>6, MetricCacheAssumption, Zenon DEF Evict
<1>8. ASSUME NEW q \in QueryKeys, qc'[q] # None, qc'[q] # impl'[MetricOf(q)]
      PROVE  ImplAnnounced(MetricOf(q))'
  <2>1. MetricOf(q) # lev[h].metric
    BY <1>7, <1>8, Zenon
  <2>2. qc'[q] = qc[q]
    BY <1>8, Zenon DEF Quiet
  <2>3. ImplAnnounced(MetricOf(q))
    BY <1>1, <1>8, <2>2, Zenon DEF QueryCoherent
  <2>4. QED BY <1>5, <1>6, <2>1, <2>3, Zenon
<1>9. QED BY <1>3, <1>8, Zenon DEF InFlight, QueryCoherent

\* While nothing is removed, the connection lasts and the orchestrator is not
\* restarted, the query cache holds no stale query without an event under way
\* that evicts it: for any number of concurrent evaluations, metrics, services,
\* changes and capacity of the event channel.
THEOREM QueriesAreCoherent ==
  ASSUME Steady
  PROVE  Spec => []QueryCoherent
<1>1. Init => CoherenceInv
  BY DEF Init, MetricsInit, CoherenceInv, Subscribed, Implemented, InFlight,
     QueryCoherent
<1>2. TypeInv /\ TypeInv' /\ CoherenceInv /\ [Next]_vars => CoherenceInv'
  <2> SUFFICES ASSUME TypeInv, TypeInv', CoherenceInv, [Next]_vars PROVE CoherenceInv'
    BY Zenon
  <2> USE DEF CoherenceInv
  <2>1. Subscribed'
    BY SubscribedStep, Steady, Zenon
  <2>2. CASE \A h \in Subs : ~HandleMetricEvent(h)
    <3>1. \A m \in MetricIds : ImplAnnounced(m) => ImplAnnounced(m)'
      BY <2>2, AnnouncedKept, Steady, Zenon DEF ImplAnnounced
    <3>2. CASE \A a \in Assessors : ~FetchImpl(a) /\ ~StoreImpl(a)
      BY <2>1, <3>1, <3>2, QuietStep, QuietImplemented, QuietCoherent, Steady, Zenon
    <3>3. CASE \E a \in Assessors : FetchImpl(a) \/ StoreImpl(a)
      BY <2>1, <3>1, <3>3, FetchImplCoherent, StoreImplCoherent, Zenon
    <3>4. QED BY <3>2, <3>3, Zenon
  <2>3. ASSUME NEW h \in Subs, HandleMetricEvent(h) PROVE CoherenceInv'
    <3>1. \A a \in Assessors : pc[a] \notin {"fetchImpl", "storeImpl"}
      BY <2>3, NoneDistinct, Zenon DEF HandleMetricEvent, TypeInv, AssessorLocals
    <3>2. \A a \in Assessors : ~FetchImpl(a) /\ ~StoreImpl(a)
      BY <3>1, Zenon DEF FetchImpl, StoreImpl
    <3>3. Quiet
      BY <3>2, QuietStep, Steady, Zenon
    <3>4. QED
      BY <2>1, <2>3, <3>3, QuietImplemented, HandleCoherent, Zenon
  <2>4. QED BY <2>2, <2>3, Zenon
<1>3. CoherenceInv => QueryCoherent
  BY Zenon DEF CoherenceInv
<1>4. QED BY <1>1, <1>2, <1>3, TypeInvariant, PTL DEF Spec
=============================================================================
