------------------------------ MODULE Discovery ------------------------------
(***************************************************************************)
(* service/discovery: Start configures the discoverers and schedules a job *)
(* for each; every run of a job (StartDiscovery) lists the resources of    *)
(* its discoverer, saves each one and sends an evidence of it to the       *)
(* assessment service.  The scheduler (gocron) starts a job again whether  *)
(* or not its last run has ended.                                          *)
(***************************************************************************)
EXTENDS EvidenceHop, Naturals, Sequences, Functions

CONSTANTS
  Providers,      \* svc.providers, a sequence
  DiscoverersOf,  \* the names of the discoverers of a provider, in order
  ListOf,         \* the resources a discoverer finds, in order
  Calls, Runs,    \* calls of Start, runs of StartDiscovery
  MaxVersion,     \* bound: how often the cloud changes
  CloudMayFail,   \* whether the network, the clouds and the storage may fail
  OverlappingStarts  \* whether Start may be called while a call is under way

Names == UNION {Range(DiscoverersOf[p]) : p \in Range(Providers)}
Resources == UNION {Range(ListOf[d]) : d \in Names}

\* a provider has a sequence of discoverers, a discoverer one of resources, and a
\* run makes an evidence of every resource it finds
ASSUME DiscoverersAssumption ==
  /\ Providers \in Seq(Range(Providers))
  /\ \A p \in Range(Providers) : DiscoverersOf[p] \in Seq(Names)
  /\ \A d \in Names : ListOf[d] \in Seq(Resources)
  /\ Runs \X Resources \subseteq Evidences

None == "none"
Unknown == 0   \* no state of a resource is stored

VARIABLES
  discoverers,              \* svc.discoverers
  jobs,                     \* the tags of the scheduler's jobs
  scheduler,                \* "new", "running" or "stopped"
  spc, sleft, sread,        \* Start: counter, what is left to do, a slice read
  closing,                  \* Shutdown has closed the streams
  cloud,                    \* the version of what the clouds hold
  rpc, rdisc, rleft, rseen, \* runs: counter, discoverer, list, its version
  resources,                \* the resource table: the version of each row
  offers,                   \* goroutines at svc.Events <- e; nobody receives
  met                       \* history: runs of one discoverer that overlapped

startVars == <<discoverers, jobs, scheduler, spc, sleft, sread, closing>>
runVars   == <<cloud, rpc, rdisc, rleft, rseen, resources, offers, met>>

DiscoveryInit ==
  /\ discoverers = <<>> /\ jobs = {} /\ scheduler = "new"
  /\ spc = [s \in Calls |-> "idle"]
  /\ sleft = [s \in Calls |-> <<>>] /\ sread = [s \in Calls |-> <<>>]
  /\ closing = FALSE
  /\ cloud = 1
  /\ rpc = [r \in Runs |-> "idle"] /\ rdisc = [r \in Runs |-> None]
  /\ rleft = [r \in Runs |-> <<>>] /\ rseen = [r \in Runs |-> Unknown]
  /\ resources = [x \in Resources |-> Unknown]
  /\ offers = {} /\ met = {}
  /\ A!Init

(***************************************************************************)
(* Start                                                                   *)
(***************************************************************************)

\* a call that passed validation and CheckAccess
Start(s) ==
  /\ spc[s] = "idle"
  /\ OverlappingStarts \/ \A t \in Calls : spc[t] \in {"idle", "started", "failed"}
  /\ spc' = [spc EXCEPT ![s] = "providers"]
  /\ sleft' = [sleft EXCEPT ![s] = Providers]
  /\ UNCHANGED <<discoverers, jobs, scheduler, sread, closing, runVars, aVars>>

\* the provider's client is authenticated, and svc.discoverers read for append
Authenticate(s) ==
  /\ spc[s] = "providers" /\ sleft[s] # <<>>
  /\ spc' = [spc EXCEPT ![s] = "append"]
  /\ sread' = [sread EXCEPT ![s] = discoverers]
  /\ UNCHANGED <<discoverers, jobs, scheduler, sleft, closing, runVars, aVars>>

\* FailedPrecondition.  The discoverers of the providers before stay.
AuthenticateFails(s) ==
  /\ CloudMayFail
  /\ spc[s] = "providers" /\ sleft[s] # <<>>
  /\ spc' = [spc EXCEPT ![s] = "failed"]
  /\ UNCHANGED <<discoverers, jobs, scheduler, sleft, sread, closing, runVars,
                 aVars>>

\* svc.discoverers = append(...), without a lock
AppendDiscoverers(s) ==
  /\ spc[s] = "append"
  /\ discoverers' = sread[s] \o DiscoverersOf[Head(sleft[s])]
  /\ spc' = [spc EXCEPT ![s] = "providers"]
  /\ sleft' = [sleft EXCEPT ![s] = Tail(@)]
  /\ sread' = [sread EXCEPT ![s] = <<>>]
  /\ UNCHANGED <<jobs, scheduler, closing, runVars, aVars>>

\* mutant: the loop leaves out the first discoverer
BeginSchedulingShort(s) ==
  /\ spc[s] = "providers" /\ sleft[s] = <<>>
  /\ spc' = [spc EXCEPT ![s] = "schedule"]
  /\ sleft' = [sleft EXCEPT ![s] = Tail(discoverers)]
  /\ UNCHANGED <<discoverers, jobs, scheduler, sread, closing, runVars, aVars>>

\* the range expression of the scheduling loop is read once
BeginScheduling(s) ==
  /\ spc[s] = "providers" /\ sleft[s] = <<>>
  /\ spc' = [spc EXCEPT ![s] = "schedule"]
  /\ sleft' = [sleft EXCEPT ![s] = discoverers]
  /\ UNCHANGED <<discoverers, jobs, scheduler, sread, closing, runVars, aVars>>

\* mutant: an error of Do is only logged
ScheduleOrSkip(s) ==
  /\ spc[s] = "schedule" /\ sleft[s] # <<>>
  /\ jobs' = jobs \cup {Head(sleft[s])}
  /\ sleft' = [sleft EXCEPT ![s] = Tail(@)]
  /\ UNCHANGED <<discoverers, scheduler, spc, sread, closing, runVars, aVars>>

\* Every(...).Tag(name).Do(StartDiscovery, v).  Tags are unique: a job whose
\* tag is taken is refused, and the call ends with Aborted.
Schedule(s) ==
  /\ spc[s] = "schedule" /\ sleft[s] # <<>>
  /\ \/ /\ Head(sleft[s]) \notin jobs
        /\ jobs' = jobs \cup {Head(sleft[s])}
        /\ sleft' = [sleft EXCEPT ![s] = Tail(@)]
        /\ UNCHANGED spc
     \/ /\ Head(sleft[s]) \in jobs
        /\ spc' = [spc EXCEPT ![s] = "failed"]
        /\ UNCHANGED <<jobs, sleft>>
  /\ UNCHANGED <<discoverers, scheduler, sread, closing, runVars, aVars>>

StartAsync(s) ==
  /\ spc[s] = "schedule" /\ sleft[s] = <<>>
  /\ spc' = [spc EXCEPT ![s] = "started"]
  /\ scheduler' = "running"
  /\ UNCHANGED <<discoverers, jobs, sleft, sread, closing, runVars, aVars>>

(***************************************************************************)
(* Shutdown: the streams are closed first, then the scheduler is stopped.  *)
(***************************************************************************)
ShutdownCloseAll ==
  /\ ~closing
  /\ closing' = TRUE
  /\ A!Close
  /\ UNCHANGED <<discoverers, jobs, scheduler, spc, sleft, sread, runVars>>

\* scheduler.Stop returns when the runs under way have ended
ShutdownStop ==
  /\ closing /\ scheduler = "running"
  /\ \A r \in Runs : rpc[r] \in {"idle", "ended"}
  /\ scheduler' = "stopped"
  /\ UNCHANGED <<discoverers, jobs, spc, sleft, sread, closing, runVars, aVars>>

(***************************************************************************)
(* StartDiscovery                                                          *)
(***************************************************************************)
ChangeCloud ==
  /\ cloud < MaxVersion
  /\ cloud' = cloud + 1
  /\ UNCHANGED <<startVars, rpc, rdisc, rleft, rseen, resources, offers, met, aVars>>

\* the scheduler starts a job; the first thing a run does is offer an event
StartDiscovery(r, d) ==
  /\ scheduler = "running" /\ d \in jobs
  /\ rpc[r] = "idle"
  /\ rpc' = [rpc EXCEPT ![r] = "list"]
  /\ rdisc' = [rdisc EXCEPT ![r] = d]
  /\ offers' = offers \cup {<<r, "start">>}
  /\ met' = met \cup {{q, r} : q \in {p \in Runs : rdisc[p] = d /\ rpc[p] # "ended"}}
  /\ UNCHANGED <<startVars, cloud, rleft, rseen, resources, aVars>>

\* mutant: the client may answer from a cache that is never refreshed
ListCached(r) ==
  /\ rpc[r] = "list"
  /\ rpc' = [rpc EXCEPT ![r] = "items"]
  /\ rleft' = [rleft EXCEPT ![r] = ListOf[rdisc[r]]]
  /\ \E seen \in {1, cloud} : rseen' = [rseen EXCEPT ![r] = seen]
  /\ offers' = offers \cup {<<r, "finished">>}
  /\ UNCHANGED <<startVars, cloud, rdisc, resources, met, aVars>>

List(r) ==
  /\ rpc[r] = "list"
  /\ rpc' = [rpc EXCEPT ![r] = "items"]
  /\ rleft' = [rleft EXCEPT ![r] = ListOf[rdisc[r]]]
  /\ rseen' = [rseen EXCEPT ![r] = cloud]
  /\ offers' = offers \cup {<<r, "finished">>}
  /\ UNCHANGED <<startVars, cloud, rdisc, resources, met, aVars>>

\* a discoverer that fails in part returns no list at all
ListFails(r) ==
  /\ CloudMayFail
  /\ rpc[r] = "list"
  /\ rpc' = [rpc EXCEPT ![r] = "ended"]
  /\ UNCHANGED <<startVars, cloud, rdisc, rleft, rseen, resources, offers, met, aVars>>

\* a resource that cannot be converted is left out
SkipResource(r) ==
  /\ CloudMayFail
  /\ rpc[r] = "items" /\ rleft[r] # <<>>
  /\ rleft' = [rleft EXCEPT ![r] = Tail(@)]
  /\ UNCHANGED <<startVars, cloud, rpc, rdisc, rseen, resources, offers, met, aVars>>

\* storage.Save; an error is logged and the evidence sent all the same
SaveResource(r) ==
  /\ rpc[r] = "items" /\ rleft[r] # <<>>
  /\ rpc' = [rpc EXCEPT ![r] = "send"]
  /\ \/ resources' = [resources EXCEPT ![Head(rleft[r])] = rseen[r]]
     \/ CloudMayFail /\ UNCHANGED resources
  /\ UNCHANGED <<startVars, cloud, rdisc, rleft, rseen, offers, met, aVars>>

\* GetStream and Send
SendEvidence(r) ==
  /\ rpc[r] = "send"
  /\ A!Accept(<<r, Head(rleft[r])>>)
  /\ rpc' = [rpc EXCEPT ![r] = "items"]
  /\ rleft' = [rleft EXCEPT ![r] = Tail(@)]
  /\ UNCHANGED <<startVars, cloud, rdisc, rseen, resources, offers, met>>

\* the resource cannot be wrapped, or there is no stream: it is saved, and its
\* evidence is not sent
GetStreamFails(r) ==
  /\ CloudMayFail
  /\ rpc[r] = "send"
  /\ rpc' = [rpc EXCEPT ![r] = "items"]
  /\ rleft' = [rleft EXCEPT ![r] = Tail(@)]
  /\ UNCHANGED <<startVars, cloud, rdisc, rseen, resources, offers, met, aVars>>

\* mutant: the run itself waits until its events are received
RunEndsWhenHeard(r) ==
  /\ rpc[r] = "items" /\ rleft[r] = <<>>
  /\ \A o \in offers : o[1] # r
  /\ rpc' = [rpc EXCEPT ![r] = "ended"]
  /\ UNCHANGED <<startVars, cloud, rdisc, rleft, rseen, resources, offers, met, aVars>>

RunEnds(r) ==
  /\ rpc[r] = "items" /\ rleft[r] = <<>>
  /\ rpc' = [rpc EXCEPT ![r] = "ended"]
  /\ UNCHANGED <<startVars, cloud, rdisc, rleft, rseen, resources, offers, met, aVars>>

StartStep(s) ==
  \/ Authenticate(s) \/ AuthenticateFails(s) \/ AppendDiscoverers(s)
  \/ BeginScheduling(s) \/ Schedule(s) \/ StartAsync(s)

Trigger(r) == \E d \in jobs : StartDiscovery(r, d)

RunStep(r) ==
  \/ List(r) \/ ListFails(r) \/ SkipResource(r) \/ SaveResource(r)
  \/ SendEvidence(r) \/ GetStreamFails(r) \/ RunEnds(r)
=============================================================================
