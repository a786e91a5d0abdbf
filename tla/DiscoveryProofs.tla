--------------------------- MODULE DiscoveryProofs ---------------------------
(***************************************************************************)
(* Proofs about Discovery, for any providers, discoverers, calls of Start, *)
(* runs and changes of the clouds.  What Start promises when it returns    *)
(* without an error is proved for calls of Start that do not overlap:      *)
(* Start appends to svc.discoverers without a lock.                        *)
(***************************************************************************)
EXTENDS DiscoveryService, SequenceLemmas, TLAPS

Busy(s) == spc[s] \in {"providers", "append", "schedule"}

\* p's discoverers are still to be appended by call s, or are there
Covered(s, p) == p \in Range(sleft[s]) \/ Range(DiscoverersOf[p]) \subseteq Range(discoverers)

StartTypes ==
  /\ spc \in [Calls -> {"idle", "providers", "append", "schedule", "started", "failed"}]
  /\ sleft \in [Calls -> Seq(Range(Providers) \cup Names)]
  /\ sread \in [Calls -> Seq(Names)]
  /\ discoverers \in Seq(Names)
  /\ jobs \subseteq Names

\* what a call has left to do is of the kind of its loop
StartLocals ==
  \A s \in Calls :
    /\ spc[s] \in {"providers", "append"} => sleft[s] \in Seq(Range(Providers))
    /\ spc[s] = "append" => sleft[s] # <<>>
    /\ spc[s] = "schedule" => sleft[s] \in Seq(Names)

OneAtATime == \A s, t \in Calls : Busy(s) /\ Busy(t) => s = t

\* nothing is left out on the way from the providers to the jobs
NothingLeftOut ==
  \A s \in Calls :
    /\ spc[s] \in {"providers", "append"} => \A p \in Range(Providers) : Covered(s, p)
    /\ spc[s] = "append" => sread[s] = discoverers
    /\ spc[s] = "schedule" => Names \subseteq Range(sleft[s]) \cup jobs

StartInv == StartTypes /\ StartLocals /\ OneAtATime /\ NothingLeftOut /\ StartedMeansScheduled

-----------------------------------------------------------------------------
\* The types and the locals are kept by every step, whether or not calls of Start
\* overlap.
LEMMA StartTypesInductive ==
  StartTypes /\ StartLocals /\ [Next]_vars => StartTypes' /\ StartLocals'
<1> SUFFICES ASSUME StartTypes, StartLocals, [Next]_vars  PROVE StartTypes' /\ StartLocals'
  BY Zenon
<1>1. ASSUME NEW s \in Calls, Start(s)  PROVE StartTypes' /\ StartLocals'
  BY <1>1, DiscoverersAssumption DEF Start, StartTypes, StartLocals
<1>2. ASSUME NEW s \in Calls, Authenticate(s) \/ AuthenticateFails(s)
      PROVE  StartTypes' /\ StartLocals'
  BY <1>2, Zenon DEF Authenticate, AuthenticateFails, StartTypes, StartLocals
<1>3. ASSUME NEW s \in Calls, AppendDiscoverers(s)  PROVE StartTypes' /\ StartLocals'
  <2>1. /\ Head(sleft[s]) \in Range(Providers)
        /\ Tail(sleft[s]) \in Seq(Range(Providers))
        /\ Tail(sleft[s]) \in Seq(Range(Providers) \cup Names)
    BY <1>3, RangeOfTail, Zenon DEF AppendDiscoverers, StartTypes, StartLocals
  <2>2. sread[s] \o DiscoverersOf[Head(sleft[s])] \in Seq(Names)
    BY <2>1, RangeOfConcat, DiscoverersAssumption, Zenon DEF StartTypes
  <2> QED BY <1>3, <2>1, <2>2 DEF AppendDiscoverers, StartTypes, StartLocals
<1>4. ASSUME NEW s \in Calls, BeginScheduling(s) \/ StartAsync(s)
      PROVE  StartTypes' /\ StartLocals'
  <2>1. CASE BeginScheduling(s)
    BY <2>1 DEF BeginScheduling, StartTypes, StartLocals
  <2>2. CASE StartAsync(s)
    BY <2>2, Zenon DEF StartAsync, StartTypes, StartLocals
  <2> QED BY <1>4, <2>1, <2>2, Zenon
<1>5. ASSUME NEW s \in Calls, Schedule(s)  PROVE StartTypes' /\ StartLocals'
  <2>1. /\ Head(sleft[s]) \in Names
        /\ Tail(sleft[s]) \in Seq(Names)
        /\ Tail(sleft[s]) \in Seq(Range(Providers) \cup Names)
    BY <1>5, RangeOfTail, Zenon DEF Schedule, StartTypes, StartLocals
  <2> QED BY <1>5, <2>1, Zenon DEF Schedule, StartTypes, StartLocals
<1>6. CASE UNCHANGED <<discoverers, jobs, spc, sleft, sread>>
  BY <1>6, Zenon DEF StartTypes, StartLocals
<1>7. ASSUME NEW r \in Runs, Trigger(r) \/ RunStep(r)  PROVE UNCHANGED startVars
  BY <1>7, Zenon DEF Trigger, StartDiscovery, RunStep, List, ListFails, SkipResource, SaveResource,
              SendEvidence, GetStreamFails, RunEnds
<1>8. CASE ShutdownCloseAll \/ ShutdownStop \/ ChangeCloud \/ HandOver \/ Read \/ UNCHANGED vars
  BY <1>6, <1>8, Zenon DEF ShutdownCloseAll, ShutdownStop, ChangeCloud, HandOver, Read, vars, startVars
<1> QED BY <1>1, <1>2, <1>3, <1>4, <1>5, <1>6, <1>7, <1>8, Zenon DEF Next, StartStep, startVars

\* StartInv is kept by every step of calls that do not overlap.
LEMMA StartInvInductive == ~OverlappingStarts /\ StartInv /\ [Next]_vars => StartInv'
<1> SUFFICES ASSUME ~OverlappingStarts, StartInv, [Next]_vars
             PROVE  OneAtATime' /\ NothingLeftOut' /\ StartedMeansScheduled'
  BY StartTypesInductive, Zenon DEF StartInv
<1> DEFINE Kept == OneAtATime' /\ NothingLeftOut' /\ StartedMeansScheduled'
<1> USE DEF StartInv
<1>1. ASSUME NEW s \in Calls, Start(s)  PROVE Kept
  <2>1. \A t \in Calls : ~Busy(t)
    BY <1>1, Zenon DEF Start, Busy
  <2> QED BY <1>1, <2>1 DEF Start, StartTypes, OneAtATime, NothingLeftOut,
                            StartedMeansScheduled, Covered, Busy
<1>2. ASSUME NEW s \in Calls, Authenticate(s) \/ AuthenticateFails(s)  PROVE Kept
  <2>1. CASE Authenticate(s)
    BY <2>1 DEF Authenticate, StartTypes, OneAtATime, NothingLeftOut, StartedMeansScheduled,
                Covered, Busy
  <2>2. CASE AuthenticateFails(s)
    BY <2>2, Zenon DEF AuthenticateFails, StartTypes, OneAtATime, NothingLeftOut, StartedMeansScheduled,
                Covered, Busy
  <2> QED BY <1>2, <2>1, <2>2, Zenon
<1>3. ASSUME NEW s \in Calls, AppendDiscoverers(s)  PROVE Kept
  <2> DEFINE p == Head(sleft[s])
  <2>1. /\ spc[s] = "append"
        /\ discoverers' = discoverers \o DiscoverersOf[p]
        /\ spc' = [spc EXCEPT ![s] = "providers"]
        /\ sleft' = [sleft EXCEPT ![s] = Tail(sleft[s])]
        /\ UNCHANGED <<jobs, scheduler, closing>>
    BY <1>3, Zenon DEF AppendDiscoverers, NothingLeftOut
  <2>2. p \in Range(Providers) /\ Range(sleft[s]) = {p} \cup Range(Tail(sleft[s]))
    BY <2>1, RangeOfTail, Zenon DEF StartLocals
  <2>3. /\ Range(discoverers) \subseteq Range(discoverers')
        /\ Range(DiscoverersOf[p]) \subseteq Range(discoverers')
    BY <2>1, <2>2, RangeOfConcat, DiscoverersAssumption, Zenon DEF StartTypes
  <2>4. \A t \in Calls \ {s} : ~Busy(t)
    BY <2>1, Zenon DEF OneAtATime, Busy
  <2>5. OneAtATime' /\ StartedMeansScheduled'
    BY <2>1, <2>4 DEF StartTypes, OneAtATime, StartedMeansScheduled, Busy
  <2>6. ASSUME NEW q \in Range(Providers)  PROVE Covered(s, q)'
    <3>1. Covered(s, q)
      BY <2>1, Zenon DEF NothingLeftOut
    <3>2. sleft'[s] = Tail(sleft[s])
      BY <2>1, Zenon DEF StartTypes
    <3> QED BY <2>2, <2>3, <3>1, <3>2, Zenon DEF Covered
  <2>7. NothingLeftOut'
    BY <2>1, <2>4, <2>6, Zenon DEF StartTypes, NothingLeftOut, Busy
  <2> QED BY <2>5, <2>7, Zenon
<1>4. ASSUME NEW s \in Calls, BeginScheduling(s)  PROVE Kept
  <2>1. OneAtATime' /\ StartedMeansScheduled'
    BY <1>4, Zenon DEF BeginScheduling, StartTypes, OneAtATime, StartedMeansScheduled, Busy
  <2>2. \A p \in Range(Providers) : Range(DiscoverersOf[p]) \subseteq Range(discoverers)
    BY <1>4, RangeOfEmpty, Zenon DEF BeginScheduling, NothingLeftOut, Covered
  <2>3. Names \subseteq Range(discoverers)
    BY <2>2, Zenon DEF Names
  <2>4. NothingLeftOut'
    BY <1>4, <2>3, Zenon DEF BeginScheduling, StartTypes, NothingLeftOut, Covered
  <2> QED BY <2>1, <2>4
<1>5. ASSUME NEW s \in Calls, Schedule(s)  PROVE Kept
  <2>1. /\ spc[s] = "schedule" /\ sleft[s] # <<>> /\ sleft[s] \in Seq(Names)
        /\ UNCHANGED <<discoverers, scheduler, sread, closing>>
    BY <1>5, Zenon DEF Schedule, StartLocals
  <2>2. Range(sleft[s]) = {Head(sleft[s])} \cup Range(Tail(sleft[s]))
    BY <2>1, RangeOfTail, Zenon
  <2>3. CASE spc' = [spc EXCEPT ![s] = "failed"] /\ UNCHANGED <<jobs, sleft>>
    BY <2>1, <2>3, Zenon DEF StartTypes, OneAtATime, NothingLeftOut, StartedMeansScheduled, Covered, Busy
  <2>4. CASE /\ jobs' = jobs \cup {Head(sleft[s])}
             /\ sleft' = [sleft EXCEPT ![s] = Tail(sleft[s])]
             /\ UNCHANGED spc
    <3>1. OneAtATime' /\ StartedMeansScheduled'
      BY <2>1, <2>4, Zenon DEF StartTypes, OneAtATime, StartedMeansScheduled, Busy
    <3>2. \A t \in Calls : spc[t] \in {"providers", "append"} => t # s /\ sleft'[t] = sleft[t]
      BY <2>1, <2>4, Zenon DEF StartTypes
    <3>3. Names \subseteq Range(sleft'[s]) \cup jobs'
      BY <2>1, <2>2, <2>4, Zenon DEF StartTypes, NothingLeftOut
    <3>4. \A t \in Calls : spc[t] = "schedule" => t = s
      BY <2>1, Zenon DEF OneAtATime, Busy
    <3>5. NothingLeftOut'
      BY <2>1, <2>4, <3>2, <3>3, <3>4, Zenon DEF NothingLeftOut, Covered
    <3> QED BY <3>1, <3>5
  <2> QED BY <1>5, <2>3, <2>4, Zenon DEF Schedule
<1>6. ASSUME NEW s \in Calls, StartAsync(s)  PROVE Kept
  <2>1. Names \subseteq jobs
    BY <1>6, RangeOfEmpty, Zenon DEF StartAsync, NothingLeftOut
  <2> QED BY <1>6, <2>1, Zenon DEF StartAsync, StartTypes, OneAtATime, NothingLeftOut,
                            StartedMeansScheduled, Covered, Busy
<1>7. ASSUME UNCHANGED <<discoverers, jobs, spc, sleft, sread>>,
             closing => closing',
             scheduler' = scheduler \/ closing
      PROVE  Kept
  BY <1>7, Zenon DEF OneAtATime, NothingLeftOut, StartedMeansScheduled, Covered, Busy
<1>8. CASE ShutdownCloseAll \/ ShutdownStop
  BY <1>7, <1>8, Zenon DEF ShutdownCloseAll, ShutdownStop
<1>9. CASE UNCHANGED startVars
  BY <1>7, <1>9, Zenon DEF startVars
<1>10. ASSUME NEW r \in Runs, Trigger(r) \/ RunStep(r)  PROVE UNCHANGED startVars
  BY <1>10, Zenon DEF Trigger, StartDiscovery, RunStep, List, ListFails, SkipResource, SaveResource,
               SendEvidence, GetStreamFails, RunEnds
<1>11. CASE ChangeCloud \/ HandOver \/ Read \/ UNCHANGED vars
  BY <1>9, <1>11, Zenon DEF ChangeCloud, HandOver, Read, vars
<1> QED BY <1>1, <1>2, <1>3, <1>4, <1>5, <1>6, <1>8, <1>9, <1>10, <1>11, Zenon DEF Next, StartStep

\* StartInv holds at the beginning.
LEMMA StartInvInitially == Init => StartInv
  BY DEF Init, DiscoveryInit, StartInv, StartTypes, StartLocals, OneAtATime, NothingLeftOut,
         StartedMeansScheduled, Busy

\* Start reports success only when every discoverer of every provider has its job
\* and the scheduler runs or is being shut down (discovery.go).
THEOREM SuccessMeansScheduled ==
  ASSUME ~OverlappingStarts  PROVE Spec => []StartedMeansScheduled
<1>1. StartInv => StartedMeansScheduled
  BY Zenon DEF StartInv
<1>2. StartInv /\ [Next]_vars => StartInv'
  BY StartInvInductive, Zenon
<1> QED BY StartInvInitially, <1>1, <1>2, PTL DEF Spec

-----------------------------------------------------------------------------
\* once a call has succeeded, the next one has a job to schedule, whose tag is taken
OnceInv ==
  /\ StartsOnce
  /\ \A s, t \in Calls : spc[s] = "started" /\ spc[t] = "schedule" => sleft[t] # <<>>

\* OnceInv is kept by every step of calls that do not overlap.
LEMMA OnceInvInductive ==
  ASSUME ~OverlappingStarts, Names # {}
  PROVE  StartInv /\ OnceInv /\ [Next]_vars => OnceInv'
<1> SUFFICES ASSUME StartInv, OnceInv, [Next]_vars  PROVE OnceInv'
  BY Zenon
<1> USE DEF StartInv, OnceInv, StartsOnce
<1>1. ASSUME NEW s \in Calls, Start(s) \/ Authenticate(s) \/ AuthenticateFails(s) \/ AppendDiscoverers(s)
      PROVE  OnceInv'
  <2>1. /\ \E pc \in {"providers", "append", "failed"} : spc' = [spc EXCEPT ![s] = pc]
        /\ UNCHANGED sleft \/ \E q : sleft' = [sleft EXCEPT ![s] = q]
    BY <1>1, Zenon DEF Start, Authenticate, AuthenticateFails, AppendDiscoverers
  <2> QED BY <2>1 DEF StartTypes
<1>2. ASSUME NEW s \in Calls, BeginScheduling(s)  PROVE OnceInv'
  <2>1. Names \subseteq Range(discoverers)
    BY <1>2, RangeOfEmpty, Zenon DEF BeginScheduling, NothingLeftOut, Covered, Names
  <2>2. discoverers # <<>>
    BY <2>1, RangeOfEmpty, Zenon
  <2> QED BY <1>2, <2>2, Zenon DEF BeginScheduling, StartTypes
<1>3. ASSUME NEW s \in Calls, Schedule(s)  PROVE OnceInv'
  <2>1. Head(sleft[s]) \in Names /\ spc[s] = "schedule"
    BY <1>3, RangeOfTail, Zenon DEF Schedule, StartLocals
  <2>2. CASE \E t \in Calls : spc[t] = "started"
    <3>1. Head(sleft[s]) \in jobs
      BY <2>1, <2>2, Zenon DEF StartedMeansScheduled
    <3> QED BY <1>3, <3>1, Zenon DEF Schedule, StartTypes
  <2>3. CASE \A t \in Calls : spc[t] # "started"
    BY <1>3, <2>3, Zenon DEF Schedule, StartTypes
  <2> QED BY <2>2, <2>3, Zenon
<1>4. ASSUME NEW s \in Calls, StartAsync(s)  PROVE OnceInv'
  <2>1. \A t \in Calls : spc[t] # "started"
    BY <1>4, Zenon DEF StartAsync
  <2>2. \A t \in Calls : spc[t] = "schedule" => t = s
    BY <1>4, Zenon DEF StartAsync, OneAtATime, Busy
  <2> QED BY <1>4, <2>1, <2>2, Zenon DEF StartAsync, StartTypes
<1>5. CASE UNCHANGED <<spc, sleft>>
  BY <1>5, Zenon
<1>6. ASSUME NEW r \in Runs, Trigger(r) \/ RunStep(r)  PROVE UNCHANGED <<spc, sleft>>
  BY <1>6, Zenon DEF Trigger, StartDiscovery, RunStep, List, ListFails, SkipResource, SaveResource,
              SendEvidence, GetStreamFails, RunEnds, startVars
<1>7. CASE ShutdownCloseAll \/ ShutdownStop \/ ChangeCloud \/ HandOver \/ Read \/ UNCHANGED vars
  BY <1>5, <1>7, Zenon DEF ShutdownCloseAll, ShutdownStop, ChangeCloud, HandOver, Read, vars, startVars
<1> QED BY <1>1, <1>2, <1>3, <1>4, <1>5, <1>6, <1>7, Zenon DEF Next, StartStep

\* Of calls of Start that do not overlap at most one succeeds, if there is anything
\* to discover: the tags of the jobs are unique (discovery.go).
THEOREM StartSucceedsOnce ==
  ASSUME ~OverlappingStarts, Names # {}  PROVE Spec => []StartsOnce
<1>1. Init => OnceInv
  BY Zenon DEF Init, DiscoveryInit, OnceInv, StartsOnce
<1>2. StartInv /\ [Next]_vars => StartInv'
  BY StartInvInductive, Zenon
<1>3. StartInv /\ OnceInv /\ [Next]_vars => OnceInv'
  BY OnceInvInductive, Zenon
<1>4. OnceInv => StartsOnce
  BY Zenon DEF OnceInv
<1> QED BY StartInvInitially, <1>1, <1>2, <1>3, <1>4, PTL DEF Spec

-----------------------------------------------------------------------------
(***************************************************************************)
(* Runs of StartDiscovery which follow each other never replace the stored *)
(* state of a resource by an older one.  The argument: of two runs of one  *)
(* discoverer that did not overlap, the later one has seen the cloud later *)
(* (Sequential), and what is stored was seen by a run of the discoverer    *)
(* that finds the resource (StoredWasSeen).                                *)
(***************************************************************************)
RunTypes ==
  /\ rpc \in [Runs -> {"idle", "list", "items", "send", "ended"}]
  /\ rseen \in [Runs -> Nat]
  /\ cloud \in Nat /\ cloud > Unknown
  /\ resources \in [Resources -> Nat]
  /\ DOMAIN rdisc = Runs /\ DOMAIN rleft = Runs

RunLocals ==
  \A r \in Runs :
    /\ rpc[r] # "idle" => rdisc[r] \in Names
    /\ rpc[r] \in {"items", "send"} =>
         /\ rseen[r] > Unknown
         /\ rleft[r] \in Seq(Resources) /\ Range(rleft[r]) \subseteq Range(ListOf[rdisc[r]])
    /\ rpc[r] = "send" => rleft[r] # <<>>
    /\ rpc[r] \in {"idle", "list"} => rseen[r] = Unknown
    /\ rseen[r] <= cloud

Before(q, r) == rpc[q] = "ended" /\ (rseen[r] = Unknown \/ rseen[q] <= rseen[r])

Sequential ==
  \A q, r \in Runs :
    q # r /\ rdisc[q] = rdisc[r] /\ rpc[q] # "idle" /\ rpc[r] # "idle" /\ {q, r} \notin met =>
      Before(q, r) \/ Before(r, q)

Finds(q, x) == rpc[q] # "idle" /\ x \in Range(ListOf[rdisc[q]])

StoredWasSeen ==
  \A x \in Resources : resources[x] # Unknown =>
    \E q \in Runs : Finds(q, x) /\ rseen[q] = resources[x]

RunInv == RunTypes /\ RunLocals /\ Sequential /\ StoredWasSeen

\* no resource is found by two discoverers
FoundByOne ==
  \A d, e \in Names : \A x \in Resources :
    x \in Range(ListOf[d]) /\ x \in Range(ListOf[e]) => d = e

-----------------------------------------------------------------------------
\* RunInv is kept by every step.  (jobs \subseteq Names is part of StartTypes.)
LEMMA RunInvInductive == RunInv /\ StartTypes /\ [Next]_vars => RunInv'
<1> SUFFICES ASSUME RunInv, StartTypes, [Next]_vars  PROVE RunInv'
  BY Zenon
<1> USE DEF RunInv, Unknown
<1>1. ASSUME NEW r \in Runs, NEW d \in jobs, StartDiscovery(r, d)  PROVE RunInv'
  <2>1. d \in Names
    BY Zenon DEF StartTypes
  <2>2. RunTypes' /\ RunLocals'
    BY <1>1, <2>1, Zenon DEF StartDiscovery, RunTypes, RunLocals
  <2>3. /\ rpc[r] = "idle" /\ rpc' = [rpc EXCEPT ![r] = "list"]
        /\ rdisc' = [rdisc EXCEPT ![r] = d]
        /\ met' = met \cup {{q, r} : q \in {p \in Runs : rdisc[p] = d /\ rpc[p] # "ended"}}
        /\ UNCHANGED <<rseen, resources>>
    BY <1>1, Zenon DEF StartDiscovery
  <2>4. ASSUME NEW q \in Runs, q # r, rdisc[q] = d, rpc[q] # "idle", {q, r} \notin met'
        PROVE  Before(q, r)'
    <3>1. rpc[q] = "ended"
      BY <2>3, <2>4, Zenon
    <3> QED BY <2>3, <2>4, <3>1, Zenon DEF Before, RunTypes, RunLocals
  <2>5. \A q \in Runs : {q, r} = {r, q}
    BY Zenon
  <2>6. Sequential'
    <3> SUFFICES ASSUME NEW p \in Runs, NEW q \in Runs, p # q, rdisc'[p] = rdisc'[q],
                        rpc'[p] # "idle", rpc'[q] # "idle", {p, q} \notin met'
                 PROVE  Before(p, q)' \/ Before(q, p)'
      BY Zenon DEF Sequential
    <3>1. CASE q = r
      BY <2>3, <2>4, <3>1, Zenon DEF RunTypes
    <3>2. CASE p = r
      BY <2>3, <2>4, <2>5, <3>2, Zenon DEF RunTypes
    <3>3. CASE p # r /\ q # r
      <4>1. Before(p, q) \/ Before(q, p)
        BY <2>3, <3>3, Zenon DEF RunTypes, Sequential
      <4> QED BY <2>3, <3>3, <4>1, Zenon DEF RunTypes, Before
    <3> QED BY <3>1, <3>2, <3>3, Zenon
  <2>7. StoredWasSeen'
    <3> SUFFICES ASSUME NEW x \in Resources, resources[x] # Unknown
                 PROVE  \E q \in Runs : Finds(q, x)' /\ rseen[q] = resources[x]
      BY <2>3, Zenon DEF StoredWasSeen
    <3>1. PICK q \in Runs : Finds(q, x) /\ rseen[q] = resources[x]
      BY Zenon DEF StoredWasSeen
    <3>2. q # r /\ rpc'[q] = rpc[q] /\ rdisc'[q] = rdisc[q]
      BY <2>3, <3>1, Zenon DEF RunTypes, Finds
    <3> QED BY <3>1, <3>2, Zenon DEF Finds
  <2> QED BY <2>2, <2>6, <2>7, Zenon
<1>2. ASSUME NEW r \in Runs, List(r)  PROVE RunInv'
  <2>1. /\ rpc[r] = "list" /\ rpc' = [rpc EXCEPT ![r] = "items"]
        /\ rleft' = [rleft EXCEPT ![r] = ListOf[rdisc[r]]]
        /\ rseen' = [rseen EXCEPT ![r] = cloud]
        /\ UNCHANGED <<cloud, rdisc, resources, met>>
    BY <1>2, Zenon DEF List
  <2>2. ListOf[rdisc[r]] \in Seq(Resources)
    BY <2>1, DiscoverersAssumption, Zenon DEF RunLocals
  <2>3. RunTypes' /\ RunLocals'
    BY <2>1, <2>2 DEF RunTypes, RunLocals
  <2>4. Sequential'
    BY <2>1 DEF RunTypes, RunLocals, Sequential, Before
  <2>5. StoredWasSeen'
    <3> SUFFICES ASSUME NEW x \in Resources, resources[x] # Unknown
                 PROVE  \E q \in Runs : Finds(q, x)' /\ rseen'[q] = resources[x]
      BY <2>1, Zenon DEF StoredWasSeen
    <3>1. PICK q \in Runs : Finds(q, x) /\ rseen[q] = resources[x]
      BY Zenon DEF StoredWasSeen
    <3>2. q # r
      BY <2>1, <3>1, Zenon DEF RunLocals
    <3> QED BY <2>1, <3>1, <3>2, Zenon DEF RunTypes, Finds
  <2> QED BY <2>3, <2>4, <2>5, Zenon
<1>3. ASSUME NEW r \in Runs,
             ListFails(r) \/ SkipResource(r) \/ SendEvidence(r) \/ GetStreamFails(r) \/ RunEnds(r)
      PROVE  RunInv'
  <2>1. /\ rpc[r] # "idle"
        /\ \/ rpc' = [rpc EXCEPT ![r] = "ended"] /\ rleft' = rleft
           \/ /\ rpc[r] \in {"items", "send"} /\ rpc' = [rpc EXCEPT ![r] = "items"]
              /\ rleft[r] # <<>> /\ rleft' = [rleft EXCEPT ![r] = Tail(rleft[r])]
        /\ UNCHANGED <<cloud, rdisc, rseen, resources, met>>
    BY <1>3, Zenon DEF ListFails, SkipResource, SendEvidence, GetStreamFails, RunEnds, RunTypes, RunLocals
  <2>2. rleft[r] # <<>> /\ rpc[r] \in {"items", "send"} =>
          Tail(rleft[r]) \in Seq(Resources) /\ Range(Tail(rleft[r])) \subseteq Range(rleft[r])
    BY RangeOfTail, Zenon DEF RunLocals
  <2>3. RunTypes' /\ RunLocals'
    BY <2>1, <2>2, Zenon DEF RunTypes, RunLocals
  <2>4. Sequential'
    <3>1. \A q \in Runs : (rpc'[q] = "idle" <=> rpc[q] = "idle") /\ (rpc[q] = "ended" => rpc'[q] = "ended")
      BY <2>1 DEF RunTypes
    <3> QED BY <2>1, <3>1, Zenon DEF Sequential, Before
  <2>5. StoredWasSeen'
    BY <2>1 DEF RunTypes, StoredWasSeen, Finds
  <2> QED BY <2>3, <2>4, <2>5
<1>4. ASSUME NEW r \in Runs, SaveResource(r)  PROVE RunInv'
  <2>1. /\ rpc[r] = "items" /\ rleft[r] # <<>> /\ rpc' = [rpc EXCEPT ![r] = "send"]
        /\ \/ resources' = [resources EXCEPT ![Head(rleft[r])] = rseen[r]]
           \/ UNCHANGED resources
        /\ UNCHANGED <<cloud, rdisc, rleft, rseen, met>>
    BY <1>4, Zenon DEF SaveResource
  <2>2. RunTypes' /\ RunLocals'
    BY <2>1, Zenon DEF RunTypes, RunLocals
  <2>3. Sequential'
    BY <2>1 DEF RunTypes, Sequential, Before
  <2>4. Head(rleft[r]) \in Range(ListOf[rdisc[r]])
    BY <2>1, RangeOfTail, Zenon DEF RunLocals
  <2>5. StoredWasSeen'
    BY <2>1, <2>4, Zenon DEF RunTypes, StoredWasSeen, Finds
  <2> QED BY <2>2, <2>3, <2>5
<1>5. CASE ChangeCloud
  <2>1. RunTypes' /\ RunLocals'
    BY <1>5 DEF ChangeCloud, RunTypes, RunLocals
  <2>2. Sequential' /\ StoredWasSeen'
    BY <1>5, Zenon DEF ChangeCloud, Sequential, Before, StoredWasSeen, Finds
  <2> QED BY <2>1, <2>2, Zenon
<1>6. CASE UNCHANGED runVars
  <2>1. RunTypes' /\ RunLocals'
    BY <1>6, Zenon DEF runVars, RunTypes, RunLocals
  <2>2. Sequential' /\ StoredWasSeen'
    BY <1>6, Zenon DEF runVars, Sequential, Before, StoredWasSeen, Finds
  <2> QED BY <2>1, <2>2
<1>7. ASSUME NEW s \in Calls, Start(s) \/ StartStep(s)  PROVE UNCHANGED runVars
  BY <1>7, Zenon DEF Start, StartStep, Authenticate, AuthenticateFails, AppendDiscoverers,
              BeginScheduling, Schedule, StartAsync
<1>8. CASE ShutdownCloseAll \/ ShutdownStop \/ HandOver \/ Read \/ UNCHANGED vars
  BY <1>6, <1>8, Zenon DEF ShutdownCloseAll, ShutdownStop, HandOver, Read, vars
<1> QED BY <1>1, <1>2, <1>3, <1>4, <1>5, <1>6, <1>7, <1>8, Zenon DEF Next, Trigger, RunStep

\* A run that stores an older state overlapped the run that had stored the newer one.
LEMMA OlderMeansOverlap ==
  ASSUME FoundByOne, RunInv, [Next]_vars,
         NEW x \in Resources, resources'[x] < resources[x]
  PROVE  \E q, r \in Runs : q # r /\ {q, r} \in met /\ rpc[r] = "items" /\ rpc'[r] = "send"
<1>1. PICK r \in Runs : SaveResource(r)
  <2>1. resources' # resources
    BY DEF RunInv, RunTypes
  <2>2. ASSUME NEW s \in Calls  PROVE ~Start(s) /\ ~StartStep(s)
    BY <2>1, Zenon DEF Start, StartStep, Authenticate, AuthenticateFails, AppendDiscoverers,
                BeginScheduling, Schedule, StartAsync, runVars
  <2>3. ~ShutdownCloseAll /\ ~ShutdownStop /\ ~ChangeCloud /\ ~HandOver /\ ~Read
    BY <2>1, Zenon DEF ShutdownCloseAll, ShutdownStop, ChangeCloud, HandOver, Read, runVars
  <2>4. ASSUME NEW r \in Runs, RunStep(r)  PROVE SaveResource(r)
    BY <2>1, <2>4, Zenon DEF RunStep, List, ListFails, SkipResource, SendEvidence, GetStreamFails, RunEnds
  <2>5. ASSUME NEW r \in Runs  PROVE ~Trigger(r)
    BY <2>1, Zenon DEF Trigger, StartDiscovery
  <2>6. ~UNCHANGED vars
    BY <2>1, Zenon DEF vars, runVars
  <2> QED BY <2>2, <2>3, <2>4, <2>5, <2>6, Zenon DEF Next
<1>2. /\ rpc[r] = "items" /\ rpc'[r] = "send" /\ rleft[r] # <<>>
      /\ x = Head(rleft[r]) /\ rseen[r] < resources[x]
  BY <1>1 DEF SaveResource, RunInv, RunTypes
<1>3. x \in Range(ListOf[rdisc[r]]) /\ rdisc[r] \in Names /\ rseen[r] > Unknown
  BY <1>2, RangeOfTail, Zenon DEF RunInv, RunLocals
<1>4. PICK q \in Runs : Finds(q, x) /\ rseen[q] = resources[x]
  BY <1>2, <1>3 DEF RunInv, RunTypes, StoredWasSeen, Unknown
<1>5. rdisc[q] = rdisc[r] /\ q # r /\ rpc[q] # "idle"
  BY <1>2, <1>3, <1>4 DEF RunInv, RunTypes, RunLocals, Finds, FoundByOne
<1>6. {q, r} \in met
  BY <1>2, <1>3, <1>4, <1>5 DEF RunInv, RunTypes, Sequential, Before, Unknown
<1> QED BY <1>2, <1>5, <1>6, Zenon

\* The stored state of a resource that one discoverer finds is replaced by an older one
\* only by a run that overlapped another run of the discoverer (discovery.go).
THEOREM OlderStateOnlyByOverlap ==
  ASSUME FoundByOne  PROVE Spec => StaleOnlyByOverlap
<1>1. Init => RunInv /\ StartTypes /\ StartLocals
  <2>1. Init => RunInv
    BY DEF Init, DiscoveryInit, RunInv, RunTypes, RunLocals, Sequential, StoredWasSeen, Unknown
  <2> QED BY <2>1, StartInvInitially, Zenon DEF StartInv
<1>2. RunInv /\ StartTypes /\ StartLocals /\ [Next]_vars => (RunInv /\ StartTypes /\ StartLocals)'
  BY RunInvInductive, StartTypesInductive, Zenon
<1>3. RunInv /\ [Next]_vars =>
        [\A x \in Resources : resources'[x] < resources[x] =>
           \E q, r \in Runs : q # r /\ {q, r} \in met /\ rpc[r] = "items" /\ rpc'[r] = "send"]_vars
  BY OlderMeansOverlap, Zenon
<1> QED BY <1>1, <1>2, <1>3, PTL DEF Spec, StaleOnlyByOverlap
=============================================================================
