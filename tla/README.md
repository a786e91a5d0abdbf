# Clouditor in TLA+

Clouditor continuously checks whether cloud resources meet security controls.
This directory holds TLA+ models of its concurrent parts, the TLC runs that check
them on small instances, and TLAPS proofs of the central invariants for instances
of any size. `PROJECT.json` maps every definition to the lines it models and lists
the runs, mutants, findings, hazards and theorems.

## The system

```
Discovery --evidences--> Assessment --evidences--> Evidence Store
                             |  ^
            assessment results  metric change events
                             v  |
                         Orchestrator <--assessment results, controls-- Evaluation
```

* **Discovery** (`service/discovery`): a scheduler runs discoverers for Azure, AWS and
  Kubernetes; each resource is saved and sent as an evidence.
* **Assessment** (`service/assessment`, `policies`): evaluates an evidence with Rego
  policies. It caches metric configurations, prepared queries and the list of
  applicable metrics, and sends evidences and results on.
* **Evidence Store** (`service/evidence`) and **Orchestrator** (`service/orchestrator`):
  records behind a gorm storage (`persistence`). The orchestrator announces changes
  of metrics to subscribers.
* **Evaluation** (`service/evaluation`): a scheduler evaluates the controls of a
  catalog from the latest assessment results.
* **Plumbing** (`api`, `service`, `server`): message channels in front of gRPC streams,
  lazily dialled connections, pagination, authorization, servers.

## Modules

| Module | Models | Contents |
| --- | --- | --- |
| `Streams` | `api/streams.go` | channels, `sendLoop`, `recvLoop`, restart and shutdown |
| `Relay` | what a channel promises | abstract specification that `Streams` and the hops of `Pipeline` implement |
| `Metrics` | `service/orchestrator/metrics.go` | tables, event channel, subscriptions |
| `MetricCache` | `assessment.go`, `policies/rego.go` | the two caches and the event loop; extends `Metrics` |
| `Evaluation` | `service/evaluation/evaluation.go` | start and stop, runs, manual results |
| `Discovery` | `service/discovery/discovery.go` | `Start`, `Shutdown`, scheduled runs, the resource table |
| `DiscoveryService` | the discovery service on its own | `Discovery` with a reader of its stream |
| `Assessment` | `assessment.go`, `policies/rego.go`, `policies.go` | `handleEvidence`, the list of applicable metrics |
| `Sinks` | `evidence_store.go`, `assessment_results.go` | the two receiving ends |
| `Hop`, `EvidenceHop` | a `StreamsOf` seen by its users | accept, hand over, take, break; the hop that discovery and assessment share |
| `Pipeline` | the four services together | extends `Discovery` and `Assessment`, and adds `Sinks` and the network |
| `Storage`, `Records` | `persistence/gorm`, `service/orchestrator`, `service/paginate.go`, `api/pagination.go` | concurrent handlers over tables, a client that lists |
| `Ontology`, `Resources` | `api/ontology` | the classes, `ResourceTypes`, `HasType`, `Related` |
| `Azure`, `Aws`, `Kubernetes` | `service/discovery/{azure,aws,k8s}` | what the discoverers list, question by question |
| `Inventory` | the resource table and its readers | composes the discoverers, `ListResources`, `ListGraphEdges` |
| `Routes`, `Gateway` | `api/*/*.pb.gw.go`, `server/rest/rest.go` | routes, choice of the handler, decoding |
| `Connection` | `api/connection.go` | lazy dialling and `ForceReconnect` |
| `Authentication` | `server/auth_middleware.go`, `server/grpc.go` | interceptor, key set, token |
| `Server` | `cmd/engine/engine.go`, `server/rest/rest.go` | start and end of the process |
| `Engine` | one process | composes the last five |
| `MC...` | | instances for TLC: symmetry and structured constants |
| `...Proofs`, `SequenceLemmas` | | theorems and lemmas |

### Streams

`entry` is the map of `StreamsOf` for one target. A channel object has `queue`
(the Go channel, at most `Cap` messages), `current` (`c.stream`) and `dead`. A caller
of `GetStream` reads the map, then adds or restarts a channel in several steps, as the
code holds no lock over them. `sendLoop` and `recvLoop` are named by the stream for
which they were started; both read `c.stream` anew in each iteration, so `son` and
`ron` record the stream of the call in progress. A failed `SendMsg` puts its message
back with a goroutine (`putting`), which may block on a full channel. gRPC is external:
a stream takes messages, breaks (`MaxBreaks`) or is closed.

### Metrics and MetricCache

The tables keep per metric whether it exists, its implementation and its
configurations. A change leaves an event with a goroutine (`notifying`) that blocks
while the channel `events` is full; `SubscribeMetricChangeEvents` handlers take events
from that one channel and send them to their own client. In the assessment service an
*assessor* is a goroutine in `evalMap`: it looks up the configuration, fetches and
stores it in separate steps, and prepares a query while it holds the lock of the query
cache. `recvEventsLoop` evicts entries. `Evict` removes every key that begins with the
metric's identifier, hence `Prefixes`.

### Evaluation

One catalog. A call of `StartEvaluation` empties and refills the map of controls one
entry at a time, looks for a job and adds one, in separate steps. A run of
`evaluateCatalog` reads the controls, reads the manual results, and starts a goroutine
per control and sub-control. `results` is the table of evaluation results in the order
of creation. The code orders by timestamp; a manual result's timestamp is given by its
request, so the model assumes that requests give the current time and the right parent
control. `ConcurrentMapAccess` ends the process, as the Go runtime may do when it
notices a concurrent write of a map; `RunsFinish` allows for that outcome. Assurance
levels (`IsRelevantFor`) are the constant `Relevant`.

### Discovery and Pipeline

A call of `Start` authenticates a provider, reads `svc.discoverers` and appends to it in
separate steps, then schedules one job after the other; a failure leaves what was done.
A run of `StartDiscovery` lists its discoverer, then saves and sends one resource at a
time. `cloud` counts changes of the clouds, and a row of the table holds the count that
its run has seen. Nobody receives from the channel of discovery events: `offers` are the
goroutines that wait there.

`DiscoveryService` adds an assessment service that only reads; `Pipeline` puts the real
one there, and leaves changes of the clouds and the shutdown to `DiscoveryService`.
Workers handle evidences: `Receive` for one that came on a stream, `AssessEvidence` for a
single call. `Eval` fills the list of applicable metrics of a kind of resource under a
lock, and reads it without one. `known` is the orchestrator's list of metrics in its
order. A message on a hop is held, handed to
a stream, or gone; a stream that broke is replaced by the next `GetStream` only. The two
sinks store a message or refuse it.

### Storage and Records

A table is a sequence of rows; a storage call is an operator that gives the tables it may
lead to, since a database may move an updated row. A handler makes one call per step:
`UpdateCertificate` and `UpdateCloudService` count and then save, `RemoveCertificate`
counts twice and then deletes. `listing` is the loop of `ListAllPaginated`; a page token
is the offset it encodes. `stayed` and `shifts` record which rows stayed in place and how
many changes moved others while the client listed.

### Inventory

Identifiers are paths, with a flag for those whose case was not lowered. `Azure` asks for
one kind of resource per action, since any question may fail and backups may change
between two of them; the map of backups is the state that `List` keeps. AWS and
Kubernetes keep no state, so their lists are operators. Of a resource the models keep
kind, identifier, links and security features. The ontology is complete: every class with
its types, its references and, for an abstract class, what it can hold. Classes that no
discoverer lists are stored by `UpdateResource`.

### Engine

Services call through one connection with a token of the embedded OAuth server, and every
call is authenticated with keys of the same server, which is part of the REST server,
whose requests become calls. `cc` and `jwks` are the shared pointers, without a lock where
the code has none; `panic` is a dereference of nil, and ends the process. The goroutine
that waits to start the discovery, the one that offers the ready signal and the one that
waits for the interrupt are modelled one step at a time. Routes are data: verb, path,
body and query of every method. The engine registers no public endpoints; the instance
has one, so that the option is exercised.

## Runs

| Run | Result | Question |
| --- | --- | --- |
| `streams_two_callers` | holds | with two callers of `GetStream`: no loss, no duplicate, a sender for each live channel, a reader for each open stream; `Relay` is implemented |
| `streams_one_caller` | holds | without overlapping calls: one sender per stream, put-back messages stay reachable, messages are eventually handed over |
| `metric_cache_steady` | holds | a prepared query is current or an event that evicts it is under way |
| `metric_cache_failures` | holds | evaluations finish despite failures; queries become fresh while the subscription lasts |
| `metric_cache_race` | violated | a configuration fetched before a change is cached after its event |
| `evaluation_once` | holds | overlapping runs of one job: controls after sub-controls, statuses agree, every relevant control has a result |
| `evaluation_failures` | holds | runs end despite failing calls and a second `StartEvaluation` |
| `discovery` | holds | success of `Start` means that everything is scheduled, once; an older state is stored only by overlapping runs; runs end although nobody receives their events |
| `pipeline` | holds | an evidence reaches the store before its results the orchestrator; the answer says what was sent; no metric is missed or doubled; each hop is a `Relay`; evidences are answered |
| `records` | holds | a removed record comes back only by an overlapping update; targets have their parents; what a paginated list misses is bounded by the rows that moved; listing ends |
| `inventory` | holds | the types mean the same to the filter, the oneofs and the classes; links resolve; nothing is listed twice or left out |
| `engine` | holds | connection and keys are lost only to another call; the discovery starts after the listener; every route reaches its method and the path decides; interrupt, requests and calls end |

`TypeOK` of a module states the types of its variables. It is proved for `Streams`,
`MetricCache` and `Records`; the other proofs establish the types they need. Of the runs only `metric_cache_steady` lists it, where it bounds the event channel.

The violated property quotes a comment of the repository; `findings` gives the line.

### Disagreements without a run

Further statements of the repository are violated by the models. Each has a configuration
that shows it, or is noted at its hazard.

| Statement | What happens | Property and configuration |
| --- | --- | --- |
| `api/streams.go:49`: no sending from multiple goroutines | two callers restart a dead channel, two loops send on one stream | `NoConcurrentSend`, `MCStreamsStatements.cfg` |
| `api/streams.go:115`: `GetStream` returns an error | a failing restart dereferences a nil channel | `GetStreamReturnsError`, `MCStreamsStatements.cfg` |
| `assessment.go:66`: `EvictionTime` makes an entry invalid | no cached configuration ever expires | `NoExpiredConfig`, `MCMetricCacheExpiry.cfg` |
| `evaluation.go:459`: all controls are evaluated | a refused `StartEvaluation` makes a run miss controls | `AllControlsEvaluated`, `MCEvaluationStatements.cfg` |
| `evaluation.proto:95`: results of the cloud service | a manual result of another cloud service is applied | `ManualOfOwnService`, `MCEvaluationStatements.cfg` |

The configurations with two properties show both with TLC's option `-continue`.

Also reachable: orphaned channels, two jobs for one cloud service, manual results created
during a run, a pending result after a compliant one, the lost update of `RemoveMetric`,
events taken by a stale subscription, overlapping calls of `Start` that lose discoverers
(`OverlappingStarts`), requests under way that are lost when `Serve` returns at the
interrupt.

### Bounds

* Streams: two callers are enough for every race between two calls; three streams
  allow a first one and two restarts; capacity 1 with two messages makes a channel full.
  Two channels are there also for one caller, so that `PutBackReachable` could fail.
* MetricCache: two assessors race for the lock (`steady`); two values tell stale from
  current; capacity 1 makes the event channel full; one removal, restart and reconnect
  (`failures`). `failures` has two metrics, one of them not built in, so that a metric
  is created and one identifier begins with the other.
* Evaluation: one control with two sub-controls, which may finish in either order; two
  runs overlap (`once`); two calls refill the map (`failures`). `once` has one manual
  result and one change of assessment results. One clock tick lets a manual result
  expire (`failures`).
* Discovery: two providers with three discoverers let a call fail half-way; two calls, two
  runs and two states of the cloud give every order of lists and saves. Calls of `Start`
  do not overlap.
* Pipeline: two evidences of one kind and two services; one metric that applies to both
  resources, one that is created on the way and one that gets its implementation on the
  way; two workers race for the list of metrics. One stream breaks or one metric changes
  (`MaxEvents`), at any moment.
* Records: two handlers and three certificates with pages of one or two rows; three calls
  that change a table (`MaxWrites`). `ListingEnds` needs this bound: a table that grows
  for ever is never listed to its end.
* Inventory: one object of every kind at least, two resource groups, names of which one
  contains the other, pages that are empty or follow others. The discoverers share
  nothing but the table; at most two of AWS, Kubernetes and clients run in one behaviour
  (`MaxOthers`). The discoverer sees all groups (`Scoping`).
* Engine: two services that call, one REST request at a time, two calls, one fault. Every
  route is requested before anything else has happened (`Quiet`), one of them at any time.
* Symmetry is used for callers, messages, assessors, subscriptions, runs and calls, and
  only in runs without liveness properties.
* Deadlock is not checked where the system may stop: after a shutdown or panic, and when
  all the bounded calls and runs are over.

### Fairness

Goroutines that can go on do (weak fairness). Strong fairness is assumed where a
goroutine waits for a lock or for room in a channel that others keep taking: Go's
mutexes and channels do not starve a waiter. Calls return, and failures are never
fair: nothing forces or forbids one. `MetricCache` also assumes that evidences keep
coming, so that a dead stream is restarted. `HeldIsHandedOver` assumes further calls of
`GetStream`, since only they restart a dead channel. In `Pipeline` the workers, the
readers of the streams and the channel to the assessment go on; nothing is assumed of the
discovery. In `Engine` every goroutine is scheduled while the process lives, and nobody
has to send a request, make a call or interrupt. `Records` assumes that a handler that
began and the listing client go on.

## Proofs

`StreamsProofs`, for any numbers of callers, messages, channels and streams:

* `TypeCorrect`, `AliveChannelsHaveSenders`, `CurrentStreamsAreDrained`. The inductive
  invariant `IInv` adds to the type invariant the local variables of callers and loops
  (`Locals`), that the loops of a stream are started once by the caller that opened it
  (`OwnStream`), and `OwnReceiver`: the reader of a current stream is the loop started
  for it. Without the last one a loop of an older stream could be the only reader, and
  its end would break the claim.
* `SequentialCallersSendAlone`, `SequentialCallersFindWhatWasPutBack`: assume that there
  is one caller. `OneSender` says that no loop is live while a channel is added or
  restarted; `OneChannel`, on top of it, that a live loop and a dead channel are those of
  the map entry. With two callers both conclusions are false.
* `MessagesAreNotLost`: the action property, from `IInv`, per action.
* `MessagesAreInOnePlace`: `Once` says of a message that it is in a channel, with a loop,
  with a goroutine that puts it back or on a stream, and in each at one place only.
  `StepMoves` reduces every action to what it does to one message (`Moves`).
* `StreamsImplementRelay`: under `IInv` and `Once`, each kind of move is a step of `Relay`
  or none. `Once` is needed, since a message taken off one place must not be held
  elsewhere.

`MetricCacheProofs`, for any numbers of assessors, metrics,
services and subscriptions:

* `TypeCorrect`, part by part of the type invariant, with the local
  variables and that the lock is held exactly while a query is prepared.
* `QueriesAreCoherent`: assumes that there are no removals, restarts or reconnects
  (`Steady`). `CoherenceInv` adds that subscriptions last, that a compiled query has an
  implementation, and `InFlight`: what an evaluation fetched and has yet to store is
  current, or its eviction is under way. The key step is that the event cannot be
  handled between fetch and store, because both need the lock.

`EngineProofs`, for any callers, requesters, routes and bounds. A step of the engine is a
step of one component or leaves it alone (`EngineSteps...`), so each invariant is shown
for its component:

* `InitialisedCallersFindAConnection`: `ConnInv` adds that a connection exists only if
  `grpc.Dial` accepts the target, so the second of two callers that dial does not fail
  where the first succeeded.
* `LoadedKeysStay`: inductive with the types; a panic ends the process, so nothing follows.
* `AutoStartWaitsForListen`: `ServerInv` adds that the ready signal is offered behind
  `net.Listen` only and that nobody waits for it before the services are there.

`EvaluationProofs`, for any catalog, runs, manual results and changes:

* `ControlsWaitForSubControls`: `OrderInv` adds that goroutines and results belong to runs
  that have begun (`OnlyBegun`), and that while `evaluateControl` waits, every relevant
  sub-control has a manual result or a goroutine (`SubsCovered`). Without the latter the
  wait could end before a goroutine was started.
* `RunsEvaluateAllControls` assumes one call of `StartEvaluation` and no failures
  (`OneCall`); `MCEvaluationStatements.cfg` shows that a second call breaks it.
  `MapComplete` says that the map of controls is complete before a job exists, and
  `Progress` what a run has done, and has yet to do, for each top-level control.

`RecordsProofs`, for any handlers, ids, tokens and pages:

* `TablesStayInOrder`, `OnlyOverlappingUpdatesRevive`, `TargetsKeepTheirParents`.
  `RecordsInv` adds `Counted`: a record that a handler counted and has yet to save is
  there, or was removed while the handler was at work. The lemmas about `Storage` say what
  a call does to the ids of a table.

`DiscoveryProofs`, for any providers, discoverers, calls, runs
and changes of the clouds:

* `SuccessMeansScheduled` and `StartSucceedsOnce` assume calls of `Start` that do not
  overlap, the second also that there is a discoverer. `NothingLeftOut` follows the
  discoverers from the providers over `svc.discoverers` to the jobs; `OnceInv` says that a
  later call finds a job to schedule, whose tag is taken.
* `OlderStateOnlyByOverlap` assumes that no resource is found by two discoverers.
  `Sequential`: of two runs that did not overlap the later one has seen the cloud later.
  `StoredWasSeen`: what is stored was seen by a run that finds the resource.

`PipelineProofs`, for any evidences, metrics, workers and lost streams:

* `Types` and `OwnerInv`: an evidence is with the run that will send it, on the hop, with
  one worker, or answered. Hence nobody has begun an evidence that is still on its way,
  and no two workers have the same one.
* `MetricsCountOnce`, first half: `OnceInv` says that the metrics of the orchestrator, the
  lists of the kinds and what a worker has left, found and evaluated never name a metric
  twice, and that what is found and what is left do not meet. Second half: `CoverInv` says
  where, while no metric has changed, a metric that applies to the whole kind is at each
  point of a worker (`Counted`) and that no cached list lacks it (`ListsCover`).
* `AnswersAreHonest`: `HonestInv` says per point of a worker what has been sent and told
  about its evidence (`Progress`) and what is true of an evidence nobody has begun or that
  is answered (`Settled`). It needs `OwnerInv`, since another worker on the same evidence
  would send results too, and `OnceInv`, since a doubled metric would be sent twice.
* `PipelineHopsRelay`: all three hops, from the invariants above: what a run or a worker
  puts on a hop is not there yet.
* `EvidenceGoesFirst`: `PassedStore` says that a worker past the evidence store has put
  its evidence on the channel; the steps of all components only move what is there.

`SequenceLemmas` has what the proofs need about heads, tails, ranges and sequences without
repetition.

What is assumed of the constants is stated as `ASSUME` in the module that declares them,
and TLC evaluates it in the runs. Most of it says that they are naturals, Booleans, sets
or sequences, with `None` or `Nobody` outside them. More than that is:

* `EvaluationAssumption`: a sub-control has one parent and is no top-level control, as in
  the catalogs' tree.
* `RecordsAssumption`: the ids of the stored rows are unique (a primary key), and default
  and largest page size are not 0 (`service/paginate.go`).
* `AssessmentAssumption`: the orchestrator lists a metric once (a primary key).
* `PipelineAssumption`: evidences have ids of their own (`uuid`), and a discoverer lists a
  resource once, which the run `inventory` checks.

Leaves that need no arithmetic name Zenon as their prover where a module has many: the
encoder of the SMT backend slows down with the obligations of a module.

Only model-checked:

* Liveness and what needs `ENABLED`: the provers cannot do it.
* `ParentStatusSound`: the status of a control is computed by recursion over a sequence,
  and what it computes needs an induction over data.
* `ListingOffByShifts`: it counts the rows of a filtered table (`SelectSeq`), which needs
  an induction as well.
* `Inventory`: the lists of the discoverers are folds.
* `RequestReachesMethod`: a statement about the table of routes, which is data; TLC
  evaluates it completely.

## Not modelled

* Logging, formatting, utilities; the CLI, which makes single calls.
* Generated messages and their validation: the models take messages that pass it.
* The Rego language, gRPC, gocron, OAuth and the database are external; what a query
  answers is a constant.
* Hooks: the engine registers none. `Pipeline` records what they would be told.
* Readers without state (statistics, most lists) and `PaginateSlice`, which has no caller.
* Properties of cloud resources other than identifiers, links and security features.
* Flags and options of the engine, CORS, the translation of answers to JSON.
