----------------------------- MODULE MetricCache -----------------------------
(***************************************************************************)
(* The assessment service and the metrics of the orchestrator: the cache   *)
(* of metric configurations (service/assessment/assessment.go), the cache  *)
(* of prepared queries (policies/rego.go), and the goroutines that evict   *)
(* entries when an event announces a change.  An Assessor is a goroutine   *)
(* in evalMap; it compiles a query from a configuration and an             *)
(* implementation, or takes the one another goroutine compiled.            *)
(***************************************************************************)
EXTENDS Metrics

CONSTANTS
  Assessors,
  Prefixes,      \* <<m, n>>: the identifier of n begins with that of m
  MaxReconnects, \* bound: how often the stream for results has to be restarted
  MaxTime,       \* bound: clock ticks
  EvictionTime,  \* in clock ticks
  RpcMayFail     \* whether a call to the orchestrator may return an error

ASSUME MetricCacheAssumption ==
  /\ MaxReconnects \in Nat /\ MaxTime \in Nat /\ EvictionTime \in Nat
  /\ RpcMayFail \in BOOLEAN
  /\ \A m \in MetricIds : <<m, m>> \in Prefixes
  /\ None \notin Assessors \cup Keys

VARIABLES
  link, reconnects,  \* the stream for assessment results: up or down
  eventStream,            \* svc.metricEventStream
  lpc, lon, lev,  \* recvEventsLoops, named by their subscription: program
                  \* counter, the stream of Recv, the event being handled
  confCache, cachedAt, now,  \* svc.cachedConfigurations, its time stamps, clock
  qc, qcLock,                \* query cache: implementation compiled, lock owner
  pc, key, aconf, aimpl      \* assessors: program counter, service and metric,
                             \* configuration and implementation fetched

loopVars == <<link, reconnects, eventStream, lpc, lon, lev>>
confVars == <<confCache, cachedAt, now>>
queryVars == <<qc, qcLock>>
assessVars == <<pc, key, aconf, aimpl>>
assessmentVars == <<loopVars, confVars, queryVars, assessVars>>
vars == <<metricVars, assessmentVars>>

\* a query is cached by service, metric and hash of the configuration
QueryKeys == Keys \X Values
MetricOf(q) == q[1][2]

Init ==
  /\ MetricsInit
  /\ link = "down" /\ reconnects = 0 /\ eventStream = None
  /\ lpc = [h \in Subs |-> "none"]
  /\ lon = [h \in Subs |-> None] /\ lev = [h \in Subs |-> None]
  /\ confCache = [k \in Keys |-> None] /\ cachedAt = [k \in Keys |-> 0] /\ now = 0
  /\ qc = [q \in QueryKeys |-> None] /\ qcLock = None
  /\ pc = [a \in Assessors |-> "idle"] /\ key = [a \in Assessors |-> None]
  /\ aconf = [a \in Assessors |-> None] /\ aimpl = [a \in Assessors |-> None]

-----------------------------------------------------------------------------
(***************************************************************************)
(* evalMap: MetricConfiguration, then queryCache.Get.                      *)
(***************************************************************************)
Goto(a, l) == pc' = [pc EXCEPT ![a] = l]

\* evalMap returns, with a result or an error
Return(a) ==
  /\ Goto(a, "idle")
  /\ key' = [key EXCEPT ![a] = None]
  /\ aconf' = [aconf EXCEPT ![a] = None]
  /\ aimpl' = [aimpl EXCEPT ![a] = None]

EvalMap(a, k) ==
  /\ pc[a] = "idle"
  /\ metric[k[2]] # "absent"
  /\ key' = [key EXCEPT ![a] = k]
  /\ Goto(a, "lookup")
  /\ UNCHANGED <<metricVars, loopVars, confVars, queryVars, aconf, aimpl>>

\* cache.cachedAt.After(time.Now().Add(EvictionTime))
Expired(k) == cachedAt[k] > now + EvictionTime

\* the entry is read under confMutex
ConfLookup(a) ==
  LET k == key[a] IN
  /\ pc[a] = "lookup"
  /\ \/ /\ confCache[k] # None /\ ~Expired(k)
        /\ aconf' = [aconf EXCEPT ![a] = confCache[k]] /\ Goto(a, "query")
     \/ /\ confCache[k] = None \/ Expired(k)
        /\ aconf' = aconf /\ Goto(a, "fetchConf")
  /\ UNCHANGED <<metricVars, loopVars, confVars, queryVars, key, aimpl>>

\* mutant: the call is repeated until there is a configuration
AskAgain(a) == UNCHANGED assessVars

\* evalMap returns the error of MetricConfiguration
ConfNotFound(a) == Return(a)

\* GetMetricConfiguration, without a lock
FetchConf(a) ==
  LET v == ConfigOf(key[a]) IN
  /\ pc[a] = "fetchConf"
  /\ \/ v = None /\ ConfNotFound(a)
     \/ /\ v # None
        /\ aconf' = [aconf EXCEPT ![a] = v]
        /\ Goto(a, "storeConf")
        /\ UNCHANGED <<key, aimpl>>
  /\ UNCHANGED <<metricVars, loopVars, confVars, queryVars>>

\* what was fetched is stored under confMutex, whatever happened since
StoreConf(a) ==
  /\ pc[a] = "storeConf"
  /\ confCache' = [confCache EXCEPT ![key[a]] = aconf[a]]
  /\ cachedAt' = [cachedAt EXCEPT ![key[a]] = now]
  /\ Goto(a, "query")
  /\ UNCHANGED <<metricVars, loopVars, now, queryVars, key, aconf, aimpl>>

\* mutant: the lock is not held while the query is prepared
LockNotTaken(a) == qcLock' = qcLock

\* queryCache.Get holds the mutex until it returns
LockTaken(a) == qcLock' = a
Unlock(a) == qcLock' = IF qcLock = a THEN None ELSE qcLock

\* queryCache.Get: the query is in the cache, or has to be prepared
QueryGet(a) ==
  /\ pc[a] = "query"
  /\ qcLock = None
  /\ \/ qc[<<key[a], aconf[a]>>] # None /\ Return(a) /\ UNCHANGED qcLock
     \/ /\ qc[<<key[a], aconf[a]>>] = None
        /\ LockTaken(a)
        /\ Goto(a, "fetchImpl")
        /\ UNCHANGED <<key, aconf, aimpl>>
  /\ UNCHANGED <<metricVars, loopVars, confVars, qc>>

\* GetMetricImplementation
FetchImpl(a) ==
  LET v == impl[key[a][2]] IN
  /\ pc[a] = "fetchImpl"
  /\ \/ v = None /\ Return(a) /\ Unlock(a)
     \/ /\ v # None
        /\ aimpl' = [aimpl EXCEPT ![a] = v]
        /\ Goto(a, "storeImpl")
        /\ UNCHANGED <<key, aconf, qcLock>>
  /\ UNCHANGED <<metricVars, loopVars, confVars, qc>>

StoreImpl(a) ==
  /\ pc[a] = "storeImpl"
  /\ qc' = [qc EXCEPT ![<<key[a], aconf[a]>>] = aimpl[a]]
  /\ Unlock(a)
  /\ Return(a)
  /\ UNCHANGED <<metricVars, loopVars, confVars>>

\* a call to the orchestrator fails, and evalMap returns an error
RpcFails(a) ==
  /\ RpcMayFail
  /\ pc[a] \in {"fetchConf", "fetchImpl"}
  /\ Return(a)
  /\ Unlock(a)
  /\ UNCHANGED <<metricVars, loopVars, confVars, qc>>

Assess(a) ==
  \/ ConfLookup(a) \/ FetchConf(a) \/ StoreConf(a)
  \/ QueryGet(a) \/ FetchImpl(a) \/ StoreImpl(a)

-----------------------------------------------------------------------------
(***************************************************************************)
(* The subscription to metric change events.                               *)
(***************************************************************************)

\* initOrchestratorStream, called by GetStream for a new or a dead stream: the
\* field metricEventStream is replaced and one more recvEventsLoop is started
InitOrchestratorStream(h) ==
  /\ link = "down"
  /\ Subscribe(h)
  /\ link' = "up"
  /\ eventStream' = h
  /\ lpc' = [lpc EXCEPT ![h] = "iter"]
  /\ UNCHANGED <<reconnects, lon, lev, confVars, queryVars, assessVars>>

\* the stream for results ends, alone or with the connection
ResultStreamEnds ==
  /\ link = "up" /\ reconnects < MaxReconnects
  /\ link' = "down"
  /\ reconnects' = reconnects + 1
  /\ \/ UNCHANGED sub
     \/ sub' = [h \in Subs |-> IF sub[h] = "open" THEN "ended" ELSE sub[h]]
  /\ UNCHANGED <<tables, channel, handler, inHand, wire, bounds, eventStream,
                 lpc, lon, lev, confVars, queryVars, assessVars>>

\* svc.metricEventStream.Recv()
LoopCall(h) ==
  /\ lpc[h] = "iter"
  /\ lon' = [lon EXCEPT ![h] = eventStream]
  /\ lpc' = [lpc EXCEPT ![h] = "recv"]
  /\ UNCHANGED <<metricVars, link, reconnects, eventStream, lev, confVars,
                 queryVars, assessVars>>

LoopRecv(h) ==
  /\ lpc[h] = "recv"
  /\ wire[lon[h]] # <<>>
  /\ lev' = [lev EXCEPT ![h] = Head(wire[lon[h]])]
  /\ wire' = [wire EXCEPT ![lon[h]] = Tail(@)]
  /\ lpc' = [lpc EXCEPT ![h] = "got"]
  /\ UNCHANGED <<tables, channel, handler, inHand, sub, bounds, link,
                 reconnects, eventStream, lon, confVars, queryVars, assessVars>>

LoopEnd(h) ==
  /\ lpc[h] = "recv"
  /\ sub[lon[h]] = "ended"
  /\ lpc' = [lpc EXCEPT ![h] = "done"]
  /\ UNCHANGED <<metricVars, link, reconnects, eventStream, lon, lev,
                 confVars, queryVars, assessVars>>

\* mutant: nothing is evicted
EvictNothing(m) == qc

\* qc.Evict(metric) deletes the keys that begin with the metric
Evict(m) == [q \in QueryKeys |-> IF <<m, MetricOf(q)>> \in Prefixes THEN None ELSE qc[q]]

\* handleMetricEvent, up to the call of HandleMetricEvent
HandleConfigEvent(h) ==
  /\ lpc[h] = "got"
  /\ confCache' = IF lev[h].type = "config"
                  THEN [confCache EXCEPT ![<<lev[h].service, lev[h].metric>>] = None]
                  ELSE confCache
  /\ lpc' = [lpc EXCEPT ![h] = "evict"]
  /\ UNCHANGED <<metricVars, link, reconnects, eventStream, lon, lev,
                 cachedAt, now, queryVars, assessVars>>

\* HandleMetricEvent, which waits for the lock of the query cache
HandleMetricEvent(h) ==
  /\ lpc[h] = "evict"
  /\ qcLock = None
  /\ qc' = Evict(lev[h].metric)
  /\ lpc' = [lpc EXCEPT ![h] = "iter"]
  /\ lev' = [lev EXCEPT ![h] = None]
  /\ UNCHANGED <<metricVars, link, reconnects, eventStream, lon, confVars,
                 qcLock, assessVars>>

EventLoop(h) ==
  LoopCall(h) \/ LoopRecv(h) \/ LoopEnd(h) \/ HandleConfigEvent(h) \/ HandleMetricEvent(h)

Tick ==
  /\ now < MaxTime
  /\ now' = now + 1
  /\ UNCHANGED <<metricVars, loopVars, confCache, cachedAt, queryVars, assessVars>>

OrchestratorRestart ==
  /\ Restart
  /\ link' = "down"
  /\ UNCHANGED <<reconnects, eventStream, lpc, lon, lev, confVars, queryVars, assessVars>>

Next ==
  \/ MetricsStep /\ UNCHANGED assessmentVars
  \/ \E a \in Assessors : Assess(a) \/ RpcFails(a) \/ \E k \in Keys : EvalMap(a, k)
  \/ \E h \in Subs : EventLoop(h) \/ InitOrchestratorStream(h)
  \/ ResultStreamEnds \/ OrchestratorRestart \/ Tick

Spec == Init /\ [][Next]_vars

\* Goroutines that can go on do; a call to the orchestrator returns, and no
\* failure is certain; evidences keep coming, so that a dead stream is restarted.
\* A Go mutex is not held back from a goroutine forever, hence SF where qcLock is
\* taken.
FairSpec ==
  /\ Spec
  /\ \A a \in Assessors : WF_vars(Assess(a)) /\ SF_vars(QueryGet(a))
  /\ \A h \in Subs : WF_vars(EventLoop(h)) /\ SF_vars(HandleMetricEvent(h))
  /\ WF_vars(\E h \in Subs : InitOrchestratorStream(h))
  /\ WF_vars(\E e \in notifying : PutEvent(e) /\ UNCHANGED assessmentVars)
  /\ \A h \in Subs : WF_vars((HandlerTake(h) \/ HandlerSend(h))
                             /\ UNCHANGED assessmentVars)

-----------------------------------------------------------------------------
(***************************************************************************)
(* Properties                                                              *)
(***************************************************************************)
ValueOrNone == Values \cup {None}

\* Type invariant of the tables, the event channel, the caches and the
\* goroutines of both services.
TypeOK ==
  /\ metric \in [MetricIds -> {"absent", "active", "deprecated"}]
  /\ impl \in [MetricIds -> ValueOrNone] /\ conf \in [Keys -> ValueOrNone]
  /\ removing \in SUBSET (MetricIds \X ValueOrNone)
  /\ notifying \in SUBSET Event /\ events \in Seq(Event) /\ Len(events) <= EventCap
  /\ handler \in [Subs -> {"none", "waiting", "sending", "done"}]
  /\ inHand \in [Subs -> Event \cup {None}]
  /\ sub \in [Subs -> {"none", "open", "ended"}] /\ wire \in [Subs -> Seq(Event)]
  /\ changes \in 0..MaxChanges /\ removals \in Nat /\ restarts \in Nat
  /\ link \in {"up", "down"} /\ reconnects \in Nat
  /\ eventStream \in Subs \cup {None}
  /\ lpc \in [Subs -> {"none", "iter", "recv", "got", "evict", "done"}]
  /\ lon \in [Subs -> Subs \cup {None}] /\ lev \in [Subs -> Event \cup {None}]
  /\ confCache \in [Keys -> ValueOrNone] /\ cachedAt \in [Keys -> Nat] /\ now \in Nat
  /\ qc \in [QueryKeys -> ValueOrNone] /\ qcLock \in Assessors \cup {None}
  /\ pc \in [Assessors -> {"idle", "lookup", "fetchConf", "storeConf", "query",
                           "fetchImpl", "storeImpl"}]
  /\ key \in [Assessors -> Keys \cup {None}]
  /\ aconf \in [Assessors -> ValueOrNone] /\ aimpl \in [Assessors -> ValueOrNone]

Within(e, q) == \E i \in 1..Len(q) : q[i] = e

\* an event that no recvEventsLoop has handled
Announced(e) ==
  \/ e \in notifying \/ Within(e, events)
  \/ \E h \in Subs : inHand[h] = e \/ Within(e, wire[h]) \/ lev[h] = e

ImplAnnounced(m) == \E e \in Event : e.type = "impl" /\ e.metric = m /\ Announced(e)

\* A prepared query is one of the current implementation of its metric, or an
\* event that will evict it is on its way: preparing a query under the lock of
\* the cache leaves no window for a stale entry.
QueryCoherent ==
  \A q \in QueryKeys :
    qc[q] # None /\ qc[q] # impl[MetricOf(q)] => ImplAnnounced(MetricOf(q))

\* nothing has interrupted the subscription or overwritten an implementation
Undisturbed == reconnects = 0 /\ restarts = 0 /\ removals = 0

\* Once the metrics are no longer changed, recvEventsLoop leaves no prepared query
\* stale, as long as its subscription lasts and no metric is removed.
QueriesBecomeFresh ==
  []Undisturbed => <>[](\A q \in QueryKeys : qc[q] \in {None, impl[MetricOf(q)]})

\* Every evaluation finishes although calls fail and the orchestrator restarts.
EvaluationsFinish == \A a \in Assessors : (pc[a] # "idle") ~> (pc[a] = "idle")

\* "In case the configuration has changed, we need to clear our configuration
\* cache": a cached configuration is the current one, or the event that clears
\* it is on its way.
ConfigCoherent ==
  \A k \in Keys : confCache[k] # None /\ confCache[k] # ConfigOf(k) =>
    \E e \in Event : /\ e.type = "config" /\ e.service = k[1] /\ e.metric = k[2]
                     /\ Announced(e)

\* "EvictionTime is the time after which an entry in the metric configuration is
\* invalid": MetricConfiguration returns no older entry.
NoExpiredConfig ==
  [][\A a \in Assessors : pc[a] = "lookup" /\ pc'[a] = "query" =>
       now <= cachedAt[key[a]] + EvictionTime]_vars

=============================================================================
