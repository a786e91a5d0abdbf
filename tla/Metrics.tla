------------------------------- MODULE Metrics -------------------------------
(***************************************************************************)
(* service/orchestrator/metrics.go: the metrics of the orchestrator, their *)
(* implementations and configurations in the database, and the events that *)
(* announce changes.  There is one channel svc.events for all subscribers; *)
(* every change starts a goroutine that puts its event on it.              *)
(***************************************************************************)
EXTENDS Naturals, Sequences

CONSTANTS
  MetricIds,     \* metric identifiers
  Builtin,       \* the metrics of the embedded metrics file
  Services,      \* cloud services
  Values,        \* contents of an implementation or a configuration
  Default,       \* the content shipped with a built-in metric
  Subs,          \* calls of SubscribeMetricChangeEvents
  EventCap,      \* capacity of svc.events (1000 in the code)
  MaxChanges,    \* bound: number of changes announced by an event
  MaxRemovals,   \* bound: calls of RemoveMetric
  MaxRestarts,   \* bound: restarts of the orchestrator
  None

Keys == Services \X MetricIds

\* id tells apart the goroutines that deliver equal events
Event == [id : 1..MaxChanges, type : {"meta", "impl", "config"},
          metric : MetricIds, service : Services \cup {None}]

ASSUME MetricsAssumption ==
  /\ Builtin \subseteq MetricIds /\ Default \in Values
  /\ EventCap \in Nat \ {0} /\ MaxChanges \in Nat
  /\ MaxRemovals \in Nat /\ MaxRestarts \in Nat
  /\ None \notin MetricIds \cup Services \cup Values \cup Subs \cup Event

VARIABLES
  metric,      \* table of metrics: absent, active or deprecated
  impl,        \* table of metric implementations
  conf,        \* table of metric configurations, per service and metric
  removing,    \* calls of RemoveMetric: metric and implementation read
  notifying,   \* goroutines at svc.events <- event
  events,      \* svc.events
  handler,     \* SubscribeMetricChangeEvents: none, waiting, sending, done
  inHand,      \* the event a handler took from svc.events
  sub,         \* the event stream as the client sees it: none, open, ended
  wire,        \* events sent on a stream and not received by the client
  changes, removals, restarts

tables == <<metric, impl, conf, removing>>
channel == <<notifying, events>>
subVars == <<handler, inHand, sub, wire>>
bounds == <<changes, removals, restarts>>
metricVars == <<tables, channel, subVars, bounds>>

BuiltinOr(f, v) == [m \in MetricIds |-> IF m \in Builtin THEN v ELSE f[m]]

MetricsInit ==
  /\ metric = [m \in MetricIds |-> IF m \in Builtin THEN "active" ELSE "absent"]
  /\ impl = [m \in MetricIds |-> IF m \in Builtin THEN Default ELSE None]
  /\ conf = [k \in Keys |-> None]
  /\ removing = {} /\ notifying = {} /\ events = <<>>
  /\ handler = [h \in Subs |-> "none"] /\ inHand = [h \in Subs |-> None]
  /\ sub = [h \in Subs |-> "none"] /\ wire = [h \in Subs |-> <<>>]
  /\ changes = 0 /\ removals = 0 /\ restarts = 0

\* the configuration GetMetricConfiguration returns, None for NotFound
ConfigOf(k) ==
  IF conf[k] # None THEN conf[k] ELSE IF k[2] \in Builtin THEN Default ELSE None

-----------------------------------------------------------------------------
(***************************************************************************)
(* The handlers that change a metric.                                      *)
(***************************************************************************)

\* go func() { svc.events <- ... }()
Notify(type, m, s) ==
  /\ changes' = changes + 1
  /\ notifying' = notifying \cup
       {[id |-> changes + 1, type |-> type, metric |-> m, service |-> s]}

\* the metric of the request may come with its implementation, v # None
CreateMetric(m, v) ==
  /\ changes < MaxChanges
  /\ metric[m] = "absent"
  /\ metric' = [metric EXCEPT ![m] = "active"]
  /\ impl' = [impl EXCEPT ![m] = v]
  /\ Notify("meta", m, None)
  /\ UNCHANGED <<conf, removing, events, subVars, removals, restarts>>

\* deprecated_since is one of the fields the request replaces
UpdateMetric(m) ==
  /\ changes < MaxChanges
  /\ metric[m] # "absent"
  /\ \E d \in {"active", "deprecated"} : metric' = [metric EXCEPT ![m] = d]
  /\ Notify("meta", m, None)
  /\ UNCHANGED <<impl, conf, removing, events, subVars, removals, restarts>>

UpdateMetricImplementation(m, v) ==
  /\ changes < MaxChanges
  /\ metric[m] # "absent"
  /\ impl' = [impl EXCEPT ![m] = v]
  /\ Notify("impl", m, None)
  /\ UNCHANGED <<metric, conf, removing, events, subVars, removals, restarts>>

\* a configuration of an unknown metric violates a foreign key
UpdateMetricConfiguration(k, v) ==
  /\ changes < MaxChanges
  /\ metric[k[2]] # "absent"
  /\ conf' = [conf EXCEPT ![k] = v]
  /\ Notify("config", k[2], k[1])
  /\ UNCHANGED <<metric, impl, removing, events, subVars, removals, restarts>>

\* RemoveMetric reads the metric with its implementation, marks it as deprecated
\* and updates it with all its associations: the implementation that was read
\* is written again.  No event announces it.
RemoveMetricGet(m) ==
  /\ removals < MaxRemovals
  /\ metric[m] # "absent"
  /\ removals' = removals + 1
  /\ removing' = removing \cup {<<m, impl[m]>>}
  /\ UNCHANGED <<metric, impl, conf, channel, subVars, changes, restarts>>

RemoveMetricUpdate(m, v) ==
  /\ <<m, v>> \in removing
  /\ removing' = removing \ {<<m, v>>}
  /\ metric' = [metric EXCEPT ![m] = "deprecated"]
  /\ impl' = [impl EXCEPT ![m] = IF v = None THEN @ ELSE v]
  /\ UNCHANGED <<conf, channel, subVars, bounds>>

-----------------------------------------------------------------------------
(***************************************************************************)
(* The event channel and its readers.                                      *)
(***************************************************************************)

\* mutant: a send never blocks
EventsUnbounded == TRUE

\* a send on the buffered channel blocks while it is full
RoomForEvent == Len(events) < EventCap

\* svc.events <- event
PutEvent(e) ==
  /\ e \in notifying
  /\ RoomForEvent
  /\ notifying' = notifying \ {e}
  /\ events' = Append(events, e)
  /\ UNCHANGED <<tables, subVars, bounds>>

\* event = <-svc.events
HandlerTake(h) ==
  /\ handler[h] = "waiting"
  /\ events # <<>>
  /\ inHand' = [inHand EXCEPT ![h] = Head(events)]
  /\ events' = Tail(events)
  /\ handler' = [handler EXCEPT ![h] = "sending"]
  /\ UNCHANGED <<tables, notifying, sub, wire, bounds>>

\* stream.Send(event): the handler returns if the stream has ended, and the
\* event it took from the channel is gone
HandlerSend(h) ==
  /\ handler[h] = "sending"
  /\ \/ /\ sub[h] = "open"
        /\ wire' = [wire EXCEPT ![h] = Append(@, inHand[h])]
        /\ handler' = [handler EXCEPT ![h] = "waiting"]
     \/ /\ sub[h] # "open"
        /\ handler' = [handler EXCEPT ![h] = "done"]
        /\ UNCHANGED wire
  /\ inHand' = [inHand EXCEPT ![h] = None]
  /\ UNCHANGED <<tables, channel, sub, bounds>>

\* a client calls SubscribeMetricChangeEvents
Subscribe(h) ==
  /\ sub[h] = "none"
  /\ sub' = [sub EXCEPT ![h] = "open"]
  /\ handler' = [handler EXCEPT ![h] = "waiting"]
  /\ UNCHANGED <<tables, channel, inHand, wire, bounds>>

\* The orchestrator is restarted: what was in memory is lost, and loadMetrics
\* saves the built-in metrics and implementations over those in the database.
Restart ==
  /\ restarts < MaxRestarts
  /\ restarts' = restarts + 1
  /\ metric' = BuiltinOr(metric, "active")
  /\ impl' = BuiltinOr(impl, Default)
  /\ removing' = {} /\ notifying' = {} /\ events' = <<>>
  /\ handler' = [h \in Subs |-> IF handler[h] = "none" THEN "none" ELSE "done"]
  /\ sub' = [h \in Subs |-> IF sub[h] = "none" THEN "none" ELSE "ended"]
  /\ inHand' = [h \in Subs |-> None] /\ wire' = [h \in Subs |-> <<>>]
  /\ UNCHANGED <<conf, changes, removals>>

MetricsStep ==
  \/ \E m \in MetricIds, v \in Values \cup {None} : CreateMetric(m, v)
  \/ \E m \in MetricIds : UpdateMetric(m) \/ RemoveMetricGet(m)
  \/ \E r \in removing : RemoveMetricUpdate(r[1], r[2])
  \/ \E m \in MetricIds, v \in Values : UpdateMetricImplementation(m, v)
  \/ \E k \in Keys, v \in Values : UpdateMetricConfiguration(k, v)
  \/ \E e \in notifying : PutEvent(e)
  \/ \E h \in Subs : HandlerTake(h) \/ HandlerSend(h)
=============================================================================
