--------------------------- MODULE PipelineProofs ---------------------------
(***************************************************************************)
(* Proofs about the whole pipeline, for any providers, evidences, metrics  *)
(* and workers, any failures and any number of lost streams: the evidence  *)
(* store is given an evidence before any of its results is given to the    *)
(* orchestrator, answers are honest, every metric counts once, and each    *)
(* hop implements Relay.                                                   *)
(*                                                                         *)
(* The argument goes in layers, each one an invariant of its own that      *)
(* rests on those before it:                                               *)
(*   Types        what is where: the locals of workers, runs and calls;    *)
(*   OwnerInv     an evidence is in one place only: still to be sent by    *)
(*                its run, on the channel, with one worker, or answered;   *)
(*   OnceInv      no list of metrics repeats one, and the metrics left to  *)
(*                evaluate are not among those evaluated;                  *)
(*   HonestInv    what was sent and announced of an evidence, by how far   *)
(*                its worker is;                                           *)
(*   CoverInv     no metric that always applies is lost on the way from    *)
(*                ListMetrics to the verdict.                              *)
(***************************************************************************)
EXTENDS Pipeline, SequenceLemmas, TLAPS

EarlyCounters == {"lookup", "metrics", "lock", "fill", "hit"}
Counters == EarlyCounters \cup {"idle", "store", "orchestrator", "results"}

WorkTypes ==
  /\ wpc \in [Workers -> Counters]
  /\ wev \in [Workers -> Evidences \cup {Nobody}]
  /\ \A w \in Workers : wpc[w] = "idle" <=> wev[w] = Nobody

SliceTypes ==
  /\ known \in Seq(Metrics)
  /\ mrtc \in [Keys -> Seq(Metrics) \cup {NoList}]
  /\ wleft \in [Workers -> Seq(Metrics)]
  /\ wfill \in [Workers -> Seq(Metrics)]
  /\ wdata \in [Workers -> Seq(Metrics)]

AnswerTypes ==
  /\ status \in [Evidences -> {"new", "assessed", "failed"}]
  /\ verdict \in [Evidences -> SUBSET Metrics]

HopTypes ==
  /\ aHeld \subseteq Evidences /\ aHanded \subseteq Evidences
  /\ eHeld \subseteq Evidences /\ oHeld \subseteq Results

StartTypes ==
  /\ spc \in [Calls -> {"idle", "providers", "append", "schedule", "started", "failed"}]
  /\ sleft \in [Calls -> Seq(Range(Providers) \cup Names)]
  /\ sread \in [Calls -> Seq(Names)]
  /\ discoverers \in Seq(Names)
  /\ jobs \subseteq Names
  /\ \A s \in Calls :
       /\ spc[s] \in {"providers", "append"} => sleft[s] \in Seq(Range(Providers))
       /\ spc[s] = "append" => sleft[s] # <<>>
       /\ spc[s] = "schedule" => sleft[s] \in Seq(Names)

RunTypes ==
  /\ rpc \in [Runs -> {"idle", "list", "items", "send", "ended"}]
  /\ DOMAIN rdisc = Runs
  /\ \A r \in Runs : rpc[r] = "list" => rdisc[r] \in Names
  /\ rleft \in [Runs -> Seq(Resources)]
  /\ \A r \in Runs : IsInjective(rleft[r]) /\ (rpc[r] = "send" => rleft[r] # <<>>)

\* nobody has begun to assess ev
Untouched(ev) == status[ev] = "new" /\ \A w \in Workers : wev[w] # ev

\* run r may still send an evidence of x
Unsent(r, x) == rpc[r] \in {"idle", "list"} \/ x \in Range(rleft[r])

OwnerInv ==
  /\ aHeld \cap aHanded = {}
  /\ \A ev \in InHopA : ev \notin Direct /\ Untouched(ev)
  /\ \A r \in Runs, x \in Resources :
       Unsent(r, x) => <<r, x>> \notin InHopA /\ Untouched(<<r, x>>)
  /\ \A v, w \in Workers : wev[v] = wev[w] /\ wev[v] # Nobody => v = w
  /\ \A w \in Workers : wev[w] # Nobody => status[wev[w]] = "new"

\* the slices of w repeat nothing, and what is left was not collected before
OnceOf(w) ==
  /\ IsInjective(wleft[w]) /\ IsInjective(wfill[w]) /\ IsInjective(wdata[w])
  /\ Range(wleft[w]) \cap (Range(wfill[w]) \cup Range(wdata[w])) = {}
  /\ wpc[w] \in {"idle", "lookup", "metrics", "lock"} => wfill[w] = <<>> /\ wdata[w] = <<>>

OnceInv ==
  /\ IsInjective(known) /\ \A k \in Keys : IsInjective(mrtc[k])
  /\ \A w \in Workers : OnceOf(w)

Sent(ev) == {m \in Metrics : <<ev, m>> \in SentResults}
Told(ev) == {m \in Metrics : <<"result", ev, m>> \in announced}
Quiet(ev) == Sent(ev) = {} /\ Told(ev) = {} /\ <<"error", ev>> \notin announced

\* what is known of ev, the evidence of w, by how far w is
Progress(w, ev) ==
  /\ wpc[w] \in EarlyCounters \cup {"store"} => Quiet(ev) /\ ev \notin SentEvidences
  /\ wpc[w] = "orchestrator" => Quiet(ev)
  /\ wpc[w] \in {"store", "orchestrator"} => verdict[ev] = Range(wdata[w])
  /\ wpc[w] = "results" =>
       /\ Told(ev) = Sent(ev) /\ <<"error", ev>> \notin announced
       /\ verdict[ev] = Sent(ev) \cup Range(wdata[w])
       /\ Sent(ev) \cap Range(wdata[w]) = {}

\* what is known of an evidence that is with no worker
Settled(ev) ==
  /\ Untouched(ev) => Quiet(ev) /\ ev \notin SentEvidences
  /\ status[ev] = "assessed" =>
       Sent(ev) = verdict[ev] /\ Told(ev) = verdict[ev] /\ <<"error", ev>> \notin announced
  /\ status[ev] = "failed" => Sent(ev) = {} /\ Told(ev) = {}

HonestInv ==
  \A ev \in Evidences : Settled(ev) /\ \A w \in Workers : wev[w] = ev => Progress(w, ev)

\* m exists from the start, applies to all of kind k, and all services can use it
Always(k, m) ==
  /\ m \in Range(InitialMetrics)
  /\ \A x \in DOMAIN KeyOf : KeyOf[x] = k => <<m, x>> \in Applies
  /\ \A s \in Range(ServiceOf) : <<s, m>> \in usable

\* where such a metric is while w works on ev
Counted(w, ev, m) ==
  /\ wpc[w] = "lock" => m \in Range(wleft[w])
  /\ wpc[w] = "fill" => m \in Range(wleft[w]) \cup Range(wfill[w])
  /\ wpc[w] \in {"fill", "hit"} => m \in Range(wleft[w]) \cup Range(wdata[w])
  /\ wpc[w] \in {"store", "orchestrator", "results"} => m \in verdict[ev]

\* such a metric is not left out for ev
Covered(ev) ==
  \A m \in Metrics : Always(KeyOf[ev[2]], m) =>
    /\ status[ev] = "assessed" => m \in verdict[ev]
    /\ \A w \in Workers : wev[w] = ev => Counted(w, ev, m)

\* nor in the list of a kind
ListsCover ==
  \A k \in Keys, m \in Metrics : Always(k, m) /\ mrtc[k] # NoList => m \in Range(mrtc[k])

CoverInv ==
  /\ changes \in Nat
  /\ changes = 0 =>
       known = InitialMetrics /\ ListsCover /\ \A ev \in Evidences : Covered(ev)

PassedStore ==
  \A w \in Workers : wpc[w] \in {"orchestrator", "results"} => wev[w] \in SentEvidences

OrderInv == PassedStore /\ \A res \in SentResults : res[1] \in SentEvidences
-----------------------------------------------------------------------------
(***************************************************************************)
(* Types                                                                   *)
(***************************************************************************)
\* A call of Start changes what belongs to Start, a run what belongs to runs, ...
LEMMA DiscoveryFrame ==
  /\ \A s \in Calls : StartAny(s) =>
       UNCHANGED <<runVars, assessmentVars, sinkVars, aVars, eVars, oVars>>
  /\ \A r \in Runs : RunAny(r) =>
       UNCHANGED <<startVars, assessmentVars, sinkVars, eVars, oVars>>
<1>1. ASSUME NEW s \in Calls, StartAny(s)  PROVE UNCHANGED <<runVars, aVars>>
  BY <1>1, Zenon DEF StartAny, Start, StartStep, Authenticate, AuthenticateFails, AppendDiscoverers,
              BeginScheduling, Schedule, StartAsync
<1>2. ASSUME NEW r \in Runs, RunAny(r)  PROVE UNCHANGED startVars
  BY <1>2, Zenon DEF RunAny, Trigger, StartDiscovery, RunStep, List, ListFails, SkipResource,
              SaveResource, SendEvidence, GetStreamFails, RunEnds
<1> QED BY <1>1, <1>2, Zenon DEF StartAny, RunAny, ByDiscovery

\* ... and a worker what belongs to the assessment.
LEMMA AssessmentFrame ==
  /\ \A m : NewMetric(m) => ByAssessment /\ CreateMetric(m)
  /\ \A s, m : ChangeMetric(s, m) => ByAssessment /\ ProvideMetric(s, m)
  /\ \A w : ReceiveAny(w) \/ AssessAny(w) \/ Refused(w) \/ Work(w) => ByAssessment
  BY Zenon DEF NewMetric, ChangeMetric, ReceiveAny, AssessAny, Refused, Work

\* The types of Start are kept.
LEMMA StartKeepsTypes ==
  ASSUME StartTypes, NEW s \in Calls, StartAny(s)  PROVE StartTypes'
<1>1. CASE Start(s)
  BY <1>1, DiscoverersAssumption DEF Start, StartTypes
<1>2. CASE Authenticate(s) \/ AuthenticateFails(s)
  BY <1>2, Zenon DEF Authenticate, AuthenticateFails, StartTypes
<1>3. CASE AppendDiscoverers(s)
  <2>1. /\ Head(sleft[s]) \in Range(Providers)
        /\ Tail(sleft[s]) \in Seq(Range(Providers))
        /\ Tail(sleft[s]) \in Seq(Range(Providers) \cup Names)
    BY <1>3, RangeOfTail, Zenon DEF AppendDiscoverers, StartTypes
  <2>2. sread[s] \o DiscoverersOf[Head(sleft[s])] \in Seq(Names)
    BY <2>1, RangeOfConcat, DiscoverersAssumption, Zenon DEF StartTypes
  <2> QED BY <1>3, <2>1, <2>2 DEF AppendDiscoverers, StartTypes
<1>4. CASE BeginScheduling(s)
  BY <1>4 DEF BeginScheduling, StartTypes
<1>5. CASE StartAsync(s)
  BY <1>5, Zenon DEF StartAsync, StartTypes
<1>6. CASE Schedule(s)
  <2>1. /\ Head(sleft[s]) \in Names
        /\ Tail(sleft[s]) \in Seq(Names)
        /\ Tail(sleft[s]) \in Seq(Range(Providers) \cup Names)
    BY <1>6, RangeOfTail, Zenon DEF Schedule, StartTypes
  <2> QED BY <1>6, <2>1, Zenon DEF Schedule, StartTypes
<1> QED BY <1>1, <1>2, <1>3, <1>4, <1>5, <1>6, Zenon DEF StartAny, StartStep

\* The types of the runs are kept.
LEMMA RunsKeepTypes ==
  ASSUME StartTypes, RunTypes, NEW r \in Runs, RunAny(r)  PROVE RunTypes'
<1>1. CASE Trigger(r)
  BY <1>1 DEF Trigger, StartDiscovery, RunTypes, StartTypes
<1>2. CASE List(r)
  BY <1>2, PipelineAssumption, DiscoverersAssumption, Zenon DEF List, RunTypes
<1>3. CASE ListFails(r) \/ SaveResource(r) \/ RunEnds(r)
  BY <1>3, Zenon DEF ListFails, SaveResource, RunEnds, RunTypes
<1>4. CASE SkipResource(r) \/ SendEvidence(r) \/ GetStreamFails(r)
  <2>1. /\ rpc[r] \in {"items", "send"} /\ rpc' = [rpc EXCEPT ![r] = "items"] /\ rdisc' = rdisc
        /\ rleft[r] # <<>> /\ rleft' = [rleft EXCEPT ![r] = Tail(@)]
    BY <1>4, Zenon DEF SkipResource, SendEvidence, GetStreamFails, RunTypes
  <2>2. Tail(rleft[r]) \in Seq(Resources) /\ IsInjective(Tail(rleft[r]))
    BY <2>1, InjectiveTail DEF RunTypes
  <2> QED BY <2>1, <2>2, Zenon DEF RunTypes
<1> QED BY <1>1, <1>2, <1>3, <1>4, Zenon DEF RunAny, RunStep

\* An evidence is of a kind.
LEMMA EvidenceHasKey == \A ev \in Evidences : KeyOf[ev[2]] \in Keys /\ ev # Nobody
  BY AssessmentAssumption, Zenon DEF Keys, Range

\* A step of a worker either goes on with its evidence or answers it.
LEMMA WorkShape ==
  ASSUME WorkTypes, NEW w \in Workers, WorkStep(w)
  PROVE  /\ wpc[w] # "idle" /\ wev[w] \in Evidences
         /\ UNCHANGED <<metricVars, aVars>>
         /\ \/ /\ UNCHANGED <<wev, status>>
               /\ \E pc \in Counters \ {"idle"} : wpc' = [wpc EXCEPT ![w] = pc]
            \/ /\ wpc' = [wpc EXCEPT ![w] = "idle"] /\ wev' = [wev EXCEPT ![w] = Nobody]
               /\ \E answer \in {"assessed", "failed"} :
                    status' = [status EXCEPT ![wev[w]] = answer]
<1>1. CASE Lookup(w) \/ ListMetrics(w) \/ LockList(w) \/ FillDone(w) \/ HitDone(w)
           \/ SendToStore(w) \/ OpenOrchestrator(w)
  <2>1. /\ wpc[w] # "idle" /\ UNCHANGED <<wev, status, metricVars, aVars>>
        /\ \E pc \in Counters \ {"idle"} : wpc' = [wpc EXCEPT ![w] = pc]
    BY <1>1, Zenon DEF Lookup, ListMetrics, LockList, FillDone, HitDone, SendToStore, OpenOrchestrator,
                Goto, Counters, EarlyCounters
  <2> QED BY <2>1, Zenon DEF WorkTypes
<1>2. CASE FillOne(w) \/ HitOne(w) \/ SendResult(w)
  <2>1. /\ wpc[w] \in Counters \ {"idle"} /\ UNCHANGED <<wpc, wev, status, metricVars, aVars>>
    BY <1>2, Zenon DEF FillOne, HitOne, SendResult, Counters, EarlyCounters
  <2>2. wpc' = [wpc EXCEPT ![w] = wpc[w]]
    BY <2>1, Zenon DEF WorkTypes
  <2> QED BY <2>1, <2>2, Zenon DEF WorkTypes
<1>3. CASE ListMetricsFails(w) \/ FillFails(w) \/ HitFails(w) \/ StoreStreamFails(w)
           \/ OrchestratorStreamFails(w) \/ Assessed(w)
  <2>1. /\ wpc[w] # "idle" /\ UNCHANGED <<metricVars, aVars>>
        /\ Reply(w, "failed") \/ Reply(w, "assessed")
    BY <1>3, Zenon DEF ListMetricsFails, FillFails, HitFails, StoreStreamFails,
                OrchestratorStreamFails, Assessed, Fail
  <2> QED BY <2>1, Zenon DEF WorkTypes, Reply, Goto
<1> QED BY <1>1, <1>2, <1>3, Zenon DEF WorkStep

\* A worker begins with an evidence that was on the stream, or came as a call.
LEMMA BeginShape ==
  ASSUME HopTypes, NEW w \in Workers, ReceiveAny(w) \/ AssessAny(w)
  PROVE  \E ev \in Evidences :
           /\ \/ ev \in aHanded /\ aHanded' = aHanded \ {ev} /\ UNCHANGED aHeld
              \/ ev \in Direct /\ Untouched(ev) /\ UNCHANGED <<aHeld, aHanded>>
           /\ Begin(w, ev)
<1>1. CASE ReceiveAny(w)
  BY <1>1, Zenon DEF ReceiveAny, Receive, A!Take, HopTypes
<1>2. CASE AssessAny(w)
  BY <1>2, AssessmentAssumption, Zenon DEF AssessAny, AssessEvidence, Untouched, aVars
<1> QED BY <1>1, <1>2, Zenon

\* The types of workers and answers are kept.
LEMMA WorkersKeepTypes ==
  ASSUME WorkTypes, AnswerTypes, HopTypes, NEW w \in Workers,
         ReceiveAny(w) \/ AssessAny(w) \/ Refused(w) \/ Work(w)
  PROVE  WorkTypes' /\ status' \in [Evidences -> {"new", "assessed", "failed"}]
<1>1. CASE Work(w)
  BY <1>1, WorkShape, EvidenceHasKey DEF Work, WorkTypes, AnswerTypes, Counters, EarlyCounters
<1>2. CASE Refused(w)
  BY <1>2, EvidenceHasKey, Zenon DEF Refused, Refuse, Reply, Goto, WorkTypes, AnswerTypes, Counters,
                              EarlyCounters
<1>3. CASE ReceiveAny(w) \/ AssessAny(w)
  <2>1. PICK ev \in Evidences : Begin(w, ev)
    BY <1>3, BeginShape, Zenon
  <2> QED BY <2>1, EvidenceHasKey, Zenon DEF Begin, Goto, WorkTypes, AnswerTypes, Counters,
                                      EarlyCounters
<1> QED BY <1>1, <1>2, <1>3, Zenon

\* What a worker may do to the slices: it reads a list, goes through it, and collects.
LEMMA SliceShape ==
  ASSUME WorkTypes, SliceTypes, NEW w \in Workers, WorkStep(w)
  PROVE  /\ \/ UNCHANGED wleft
            \/ \E q \in {known, mrtc[KeyAt(w)], Tail(wleft[w]), <<>>} \cap Seq(Metrics) :
                 wleft' = [wleft EXCEPT ![w] = q]
         /\ \/ UNCHANGED wfill
            \/ \E q \in {Append(wfill[w], Head(wleft[w])), wfill[w], <<>>} \cap Seq(Metrics) :
                 wfill' = [wfill EXCEPT ![w] = q]
         /\ \/ UNCHANGED wdata
            \/ \E q \in {Append(wdata[w], Head(wleft[w])), wdata[w], Tail(wdata[w]), <<>>}
                          \cap Seq(Metrics) : wdata' = [wdata EXCEPT ![w] = q]
         /\ \/ UNCHANGED mrtc
            \/ \E q \in {wfill[w], NoList} : mrtc' = [mrtc EXCEPT ![KeyAt(w)] = q]
<1>k. KeyAt(w) \in Keys /\ <<>> \in Seq(Metrics)
  BY WorkShape, EvidenceHasKey DEF KeyAt
<1>1. CASE Lookup(w)
  BY <1>1, <1>k, Zenon DEF Lookup, SliceTypes, listVars
<1>2. CASE ListMetrics(w) \/ LockList(w)
  BY <1>2, <1>k, Zenon DEF ListMetrics, LockList, FirstList, SliceTypes, listVars
<1>3. CASE FillOne(w) \/ HitOne(w)
  <2>1. wleft[w] # <<>> /\ UNCHANGED mrtc /\ wleft' = [wleft EXCEPT ![w] = Tail(@)]
    BY <1>3, Zenon DEF FillOne, HitOne, listVars
  <2>2. Head(wleft[w]) \in Metrics /\ Tail(wleft[w]) \in Seq(Metrics)
    BY <2>1 DEF SliceTypes
  <2>3. /\ Append(wfill[w], Head(wleft[w])) \in Seq(Metrics)
        /\ Append(wdata[w], Head(wleft[w])) \in Seq(Metrics)
    BY <2>2 DEF SliceTypes
  <2>4. /\ UNCHANGED wfill \/ wfill' = [wfill EXCEPT ![w] = Append(@, Head(wleft[w]))]
             \/ wfill' = [wfill EXCEPT ![w] = @]
        /\ wdata' = [wdata EXCEPT ![w] = Append(@, Head(wleft[w]))]
             \/ wdata' = [wdata EXCEPT ![w] = @]
    BY <1>3, Zenon DEF FillOne, HitOne
  <2> QED BY <2>1, <2>2, <2>3, <2>4, Zenon DEF SliceTypes
<1>4. CASE ListMetricsFails(w) \/ FillFails(w) \/ HitFails(w) \/ StoreStreamFails(w)
           \/ OrchestratorStreamFails(w) \/ Assessed(w)
  <2>1. /\ Reply(w, "failed") \/ Reply(w, "assessed")
        /\ UNCHANGED mrtc \/ mrtc' = [mrtc EXCEPT ![KeyAt(w)] = NoList]
    BY <1>4, Zenon DEF ListMetricsFails, FillFails, HitFails, StoreStreamFails,
                OrchestratorStreamFails, Assessed, Fail, listVars
  <2> QED BY <2>1, <1>k, Zenon DEF Reply
<1>5. CASE FillDone(w) \/ HitDone(w) \/ SendToStore(w) \/ OpenOrchestrator(w)
  <2>1. /\ UNCHANGED <<wleft, wfill, wdata>>
        /\ UNCHANGED mrtc \/ mrtc' = [mrtc EXCEPT ![KeyAt(w)] = wfill[w]]
    BY <1>5, Zenon DEF FillDone, HitDone, SendToStore, OpenOrchestrator, listVars
  <2> QED BY <2>1, Zenon
<1>6. CASE SendResult(w)
  <2>1. wdata[w] # <<>> /\ UNCHANGED <<wleft, wfill, mrtc>> /\ wdata' = [wdata EXCEPT ![w] = Tail(@)]
    BY <1>6, Zenon DEF SendResult, listVars
  <2>2. Tail(wdata[w]) \in Seq(Metrics)
    BY <2>1 DEF SliceTypes
  <2> QED BY <2>1, <2>2, Zenon
<1> QED BY <1>1, <1>2, <1>3, <1>4, <1>5, <1>6, Zenon DEF WorkStep

\* The types of the slices are kept.
LEMMA SlicesKeepTypes ==
  ASSUME WorkTypes, SliceTypes, NEW w \in Workers, WorkStep(w)  PROVE SliceTypes'
<1>1. KeyAt(w) \in Keys /\ known' = known
  BY WorkShape, EvidenceHasKey, Zenon DEF KeyAt, metricVars
<1>2. mrtc' \in [Keys -> Seq(Metrics) \cup {NoList}]
  <2>1. wfill[w] \in Seq(Metrics) /\ mrtc \in [Keys -> Seq(Metrics) \cup {NoList}]
    BY Zenon DEF SliceTypes
  <2>2. PICK q \in Seq(Metrics) \cup {NoList} :
          UNCHANGED mrtc \/ mrtc' = [mrtc EXCEPT ![KeyAt(w)] = q]
    BY <2>1, SliceShape, Zenon
  <2> QED BY <1>1, <2>1, <2>2, Zenon
<1>3. wleft' \in [Workers -> Seq(Metrics)]
  BY SliceShape, Zenon DEF SliceTypes
<1>4. wfill' \in [Workers -> Seq(Metrics)]
  BY SliceShape, Zenon DEF SliceTypes
<1>5. wdata' \in [Workers -> Seq(Metrics)]
  BY SliceShape, Zenon DEF SliceTypes
<1> QED BY <1>1, <1>2, <1>3, <1>4, <1>5, Zenon DEF SliceTypes

\* Verdicts are sets of metrics.
LEMMA VerdictsKeepTypes ==
  ASSUME WorkTypes, SliceTypes, AnswerTypes, NEW w \in Workers, WorkStep(w)
  PROVE  verdict' \in [Evidences -> SUBSET Metrics]
<1>1. Range(wdata[w]) \in SUBSET Metrics
  BY DEF SliceTypes, Range
<1>2. UNCHANGED verdict \/ verdict' = [verdict EXCEPT ![wev[w]] = Range(wdata[w])]
  BY Zenon DEF WorkStep, Lookup, ListMetrics, ListMetricsFails, LockList, FillOne, FillFails,
               FillDone, HitOne, HitFails, HitDone, SendToStore, StoreStreamFails,
               OpenOrchestrator, OrchestratorStreamFails, SendResult, Assessed
<1> QED BY <1>1, <1>2, Zenon DEF AnswerTypes

\* What a worker puts on the channels.
LEMMA WorkHops ==
  ASSUME NEW w \in Workers, WorkStep(w)
  PROVE  /\ \/ UNCHANGED <<eHeld, eHanded, eGone>>
            \/ /\ wpc[w] = "store" /\ eHeld' = eHeld \cup {wev[w]}
               /\ UNCHANGED <<eHanded, eGone>>
         /\ \/ UNCHANGED <<oHeld, oHanded, oGone>>
            \/ /\ wpc[w] = "results" /\ wdata[w] # <<>>
               /\ oHeld' = oHeld \cup {<<wev[w], Head(wdata[w])>>}
               /\ UNCHANGED <<oHanded, oGone>>
<1>1. CASE SendToStore(w)
  BY <1>1, Zenon DEF SendToStore, E!Accept, eVars, oVars
<1>2. CASE SendResult(w)
  BY <1>2, Zenon DEF SendResult, eVars
<1>3. CASE OpenOrchestrator(w)
  BY <1>3, Zenon DEF OpenOrchestrator, eVars
<1>4. CASE ~SendToStore(w) /\ ~SendResult(w) /\ ~OpenOrchestrator(w)
  <2>1. UNCHANGED <<eVars, oVars>>
    BY <1>4, Zenon DEF WorkStep, Lookup, ListMetrics, ListMetricsFails, LockList, FillOne,
                       FillFails, FillDone, HitOne, HitFails, HitDone, StoreStreamFails,
                       OrchestratorStreamFails, Assessed
  <2> QED BY <2>1, Zenon DEF eVars, oVars
<1> QED BY <1>1, <1>2, <1>3, <1>4, Zenon

\* A run sends an evidence of a resource once.
LEMMA RunShape ==
  ASSUME RunTypes, NEW r \in Runs, RunAny(r)
  PROVE  /\ \A q \in Runs, x \in Resources : Unsent(q, x)' => Unsent(q, x)
         /\ \/ UNCHANGED <<aHeld, aHanded>>
            \/ /\ \E x \in Resources :
                    Unsent(r, x) /\ ~Unsent(r, x)' /\ aHeld' = aHeld \cup {<<r, x>>}
               /\ UNCHANGED aHanded
<1>1. CASE Trigger(r)
  <2>1. rpc[r] = "idle" /\ rpc' = [rpc EXCEPT ![r] = "list"] /\ UNCHANGED <<rleft, aVars>>
    BY <1>1, Zenon DEF Trigger, StartDiscovery
  <2> QED BY <2>1, Zenon DEF RunTypes, Unsent, aVars
<1>2. CASE List(r)
  <2>1. /\ rpc[r] = "list" /\ rpc' = [rpc EXCEPT ![r] = "items"] /\ UNCHANGED aVars
        /\ rleft' = [rleft EXCEPT ![r] = ListOf[rdisc[r]]]
    BY <1>2, Zenon DEF List
  <2> QED BY <2>1, Zenon DEF RunTypes, Unsent, aVars
<1>3. CASE ListFails(r) \/ SaveResource(r) \/ RunEnds(r)
  <2>1. /\ \E pc \in {"ended", "send"} : rpc' = [rpc EXCEPT ![r] = pc]
        /\ UNCHANGED <<rleft, aVars>>
    BY <1>3, Zenon DEF ListFails, SaveResource, RunEnds
  <2> QED BY <2>1, Zenon DEF RunTypes, Unsent, aVars
<1>4. CASE SkipResource(r) \/ SendEvidence(r) \/ GetStreamFails(r)
  <2>1. /\ rpc[r] \in {"items", "send"} /\ rpc' = [rpc EXCEPT ![r] = "items"]
        /\ rleft[r] # <<>> /\ rleft' = [rleft EXCEPT ![r] = Tail(@)]
    BY <1>4, Zenon DEF SkipResource, SendEvidence, GetStreamFails, RunTypes
  <2>2. \/ UNCHANGED <<aHeld, aHanded>>
        \/ aHeld' = aHeld \cup {<<r, Head(rleft[r])>>} /\ UNCHANGED aHanded
    BY <1>4, Zenon DEF SkipResource, SendEvidence, GetStreamFails, A!Accept, aVars
  <2>3. /\ Head(rleft[r]) \in Resources /\ Head(rleft[r]) \notin Range(Tail(rleft[r]))
        /\ Range(rleft[r]) = {Head(rleft[r])} \cup Range(Tail(rleft[r]))
    <3>1. rleft[r] \in Seq(Resources) /\ IsInjective(rleft[r])
      BY Zenon DEF RunTypes
    <3> QED BY <2>1, <3>1, RangeOfTail, InjectiveTail, Zenon
  <2>4. /\ \A q \in Runs : q # r => rpc'[q] = rpc[q] /\ rleft'[q] = rleft[q]
        /\ rpc'[r] = "items" /\ rleft'[r] = Tail(rleft[r])
    BY <2>1, Zenon DEF RunTypes
  <2>5. \A q \in Runs, x \in Resources : Unsent(q, x)' => Unsent(q, x)
    BY <2>3, <2>4, Zenon DEF Unsent
  <2>6. \A x \in Resources : x = Head(rleft[r]) => Unsent(r, x) /\ ~Unsent(r, x)'
    BY <2>3, <2>4, Zenon DEF Unsent
  <2> QED BY <2>2, <2>3, <2>5, <2>6, Zenon
<1> QED BY <1>1, <1>2, <1>3, <1>4, Zenon DEF RunAny, RunStep

\* The three channels as the network and the services at their ends see them.
LEMMA NetworkShape ==
  /\ HandOverA => \E ev \in aHeld : aHeld' = aHeld \ {ev} /\ aHanded' = aHanded \cup {ev}
  /\ HandOverE => \E ev \in eHeld : eHeld' = eHeld \ {ev} /\ eHanded' = eHanded \cup {ev}
  /\ HandOverO => \E res \in oHeld : oHeld' = oHeld \ {res} /\ oHanded' = oHanded \cup {res}
  /\ Break => /\ UNCHANGED <<aHeld, eHeld, oHeld>>
              /\ aHanded' \subseteq aHanded /\ eHanded' \subseteq eHanded /\ oHanded' \subseteq oHanded
  /\ StoreEvidence \/ StoreResult =>
       /\ UNCHANGED <<aHeld, aHanded, eHeld, oHeld>>
       /\ eHanded' \subseteq eHanded /\ oHanded' \subseteq oHanded
<1>1. /\ HandOverA => \E ev \in aHeld : aHeld' = aHeld \ {ev} /\ aHanded' = aHanded \cup {ev}
      /\ HandOverE => \E ev \in eHeld : eHeld' = eHeld \ {ev} /\ eHanded' = eHanded \cup {ev}
      /\ HandOverO => \E res \in oHeld : oHeld' = oHeld \ {res} /\ oHanded' = oHanded \cup {res}
  BY Zenon DEF HandOverA, HandOverE, HandOverO, A!HandOver, E!HandOver, O!HandOver
<1>2. ASSUME Break
      PROVE  /\ UNCHANGED <<aHeld, eHeld, oHeld>>
             /\ aHanded' \subseteq aHanded /\ eHanded' \subseteq eHanded /\ oHanded' \subseteq oHanded
  BY <1>2, Zenon DEF Break, A!Break, E!Break, O!Break, aVars, eVars, oVars
<1>3. ASSUME StoreEvidence
      PROVE  /\ UNCHANGED <<aHeld, aHanded, eHeld, oHeld, oHanded>>
             /\ eHanded' \subseteq eHanded
  BY <1>3, Zenon DEF StoreEvidence, S!StoreEvidence, S!E!Take, S!E!Drop, BySinks, aVars
<1>4. ASSUME StoreResult
      PROVE  /\ UNCHANGED <<aHeld, aHanded, eHeld, oHeld, eHanded>>
             /\ oHanded' \subseteq oHanded
  BY <1>4, Zenon DEF StoreResult, S!StoreAssessmentResult, S!O!Take, S!O!Drop, BySinks, aVars
<1> QED BY <1>1, <1>2, <1>3, <1>4, Zenon

Types == WorkTypes /\ SliceTypes /\ AnswerTypes /\ HopTypes /\ StartTypes /\ RunTypes

\* Only workers touch the locals of workers, and only answers change answers.
LEMMA OthersKeepTypes ==
  ASSUME UNCHANGED assessmentVars
  PROVE  /\ WorkTypes => WorkTypes'
         /\ SliceTypes => SliceTypes'
         /\ AnswerTypes => AnswerTypes'
<1>1. UNCHANGED <<wpc, wev, known, mrtc, wleft, wfill, wdata, status, verdict>>
  BY Zenon DEF assessmentVars, workVars, metricVars, listVars
<1>2. WorkTypes => WorkTypes'
  BY <1>1, Zenon DEF WorkTypes
<1>3. SliceTypes => SliceTypes'
  BY <1>1, Zenon DEF SliceTypes
<1>4. AnswerTypes => AnswerTypes'
  BY <1>1, Zenon DEF AnswerTypes
<1> QED BY <1>2, <1>3, <1>4, Zenon

\* The discovery keeps the types of Start and of runs, and nobody else touches them.
LEMMA DiscoveryTypesKept ==
  ASSUME StartTypes, RunTypes, [Next]_vars  PROVE StartTypes' /\ RunTypes'
<1>1. ASSUME UNCHANGED startVars  PROVE StartTypes'
  <2>1. UNCHANGED <<spc, sleft, sread, discoverers, jobs>>
    BY <1>1, Zenon DEF startVars
  <2> QED BY <2>1, Zenon DEF StartTypes
<1>2. ASSUME UNCHANGED runVars  PROVE RunTypes'
  <2>1. UNCHANGED <<rpc, rdisc, rleft>>
    BY <1>2, Zenon DEF runVars
  <2> QED BY <2>1, Zenon DEF RunTypes
<1>3. ASSUME NEW s \in Calls, StartAny(s)  PROVE StartTypes' /\ RunTypes'
  BY <1>2, <1>3, StartKeepsTypes, DiscoveryFrame, Zenon
<1>4. ASSUME NEW r \in Runs, RunAny(r)  PROVE StartTypes' /\ RunTypes'
  BY <1>1, <1>4, RunsKeepTypes, DiscoveryFrame, Zenon
<1>5. CASE UNCHANGED discoveryVars
  BY <1>1, <1>2, <1>5, Zenon DEF discoveryVars
<1>6. (\E s \in Calls : StartAny(s)) \/ (\E r \in Runs : RunAny(r)) \/ UNCHANGED discoveryVars
  BY AssessmentFrame, Zenon
     DEF Next, ByAssessment, BySinks, ByNetwork, StoreEvidence, StoreResult, HandOverA,
         HandOverE, HandOverO, Break, vars
<1> QED BY <1>3, <1>4, <1>5, <1>6, Zenon

\* Nobody else touches the state of the assessment.
LEMMA AssessmentSteps ==
  ASSUME [Next]_vars
  PROVE  \/ UNCHANGED assessmentVars
         \/ \E m \in Metrics : NewMetric(m) \/ \E s \in Range(ServiceOf) : ChangeMetric(s, m)
         \/ \E w \in Workers : ReceiveAny(w) \/ AssessAny(w) \/ Refused(w) \/ Work(w)
  BY DiscoveryFrame, Zenon
     DEF Next, BySinks, ByNetwork, StoreEvidence, StoreResult, HandOverA, HandOverE, HandOverO,
         Break, vars

\* The assessment keeps its types.
LEMMA AssessmentTypesKept ==
  ASSUME WorkTypes, SliceTypes, AnswerTypes, HopTypes, [Next]_vars
  PROVE  WorkTypes' /\ SliceTypes' /\ AnswerTypes'
<1>1. ASSUME NEW w \in Workers, Work(w)  PROVE WorkTypes' /\ SliceTypes' /\ AnswerTypes'
  BY <1>1, WorkersKeepTypes, SlicesKeepTypes, VerdictsKeepTypes, Zenon DEF Work, AnswerTypes
<1>2. ASSUME NEW w \in Workers, ReceiveAny(w) \/ AssessAny(w)
      PROVE  WorkTypes' /\ SliceTypes' /\ AnswerTypes'
  <2>1. UNCHANGED <<known, mrtc, wleft, wfill, wdata, verdict>>
    BY <1>2, Zenon DEF ReceiveAny, AssessAny, Receive, AssessEvidence, Begin, metricVars, listVars
  <2> QED BY <1>2, <2>1, WorkersKeepTypes, Zenon DEF SliceTypes, AnswerTypes
<1>3. ASSUME NEW w \in Workers, Refused(w)  PROVE WorkTypes' /\ SliceTypes' /\ AnswerTypes'
  <2>1. /\ UNCHANGED <<known, mrtc, verdict>>
        /\ wleft' = [wleft EXCEPT ![w] = <<>>]
        /\ wfill' = [wfill EXCEPT ![w] = <<>>]
        /\ wdata' = [wdata EXCEPT ![w] = <<>>]
    BY <1>3, Zenon DEF Refused, Refuse, Reply, metricVars, listVars
  <2>2. SliceTypes'
    BY <2>1 DEF SliceTypes
  <2> QED BY <1>3, <2>1, <2>2, WorkersKeepTypes, Zenon DEF AnswerTypes
<1>4. ASSUME NEW m \in Metrics, NewMetric(m) \/ \E s \in Range(ServiceOf) : ChangeMetric(s, m)
      PROVE  WorkTypes' /\ SliceTypes' /\ AnswerTypes'
  <2>1. /\ UNCHANGED <<wpc, wev, mrtc, wleft, wfill, wdata, status, verdict>>
        /\ UNCHANGED known \/ known' = Append(known, m)
    BY <1>4, Zenon DEF NewMetric, ChangeMetric, CreateMetric, ProvideMetric, listVars, workVars
  <2>2. WorkTypes' /\ AnswerTypes'
    BY <2>1, Zenon DEF WorkTypes, AnswerTypes
  <2>3. known \in Seq(Metrics) /\ Append(known, m) \in Seq(Metrics)
    BY DEF SliceTypes
  <2> QED BY <2>1, <2>2, <2>3, Zenon DEF SliceTypes
<1>5. CASE UNCHANGED assessmentVars
  BY <1>5, OthersKeepTypes, Zenon
<1> QED BY <1>1, <1>2, <1>3, <1>4, <1>5, AssessmentSteps, Zenon

\* Which steps of Next change what is held by or handed over on the channels.
LEMMA HopSteps ==
  ASSUME [Next]_vars
  PROVE  \/ UNCHANGED <<aHeld, aHanded, eHeld, eHanded, oHeld, oHanded>>
         \/ \E r \in Runs : RunAny(r)
         \/ \E w \in Workers : ReceiveAny(w) \/ AssessAny(w) \/ Work(w)
         \/ StoreEvidence \/ StoreResult \/ HandOverA \/ HandOverE \/ HandOverO \/ Break
<1>1. ASSUME (\E s \in Calls : StartAny(s)) \/ UNCHANGED vars  PROVE UNCHANGED <<aVars, eVars, oVars>>
  BY <1>1, DiscoveryFrame, Zenon DEF vars
<1>2. ASSUME \/ \E w \in Workers : Refused(w)
             \/ \E m \in Metrics : NewMetric(m) \/ \E s \in Range(ServiceOf) : ChangeMetric(s, m)
      PROVE  UNCHANGED <<aVars, eVars, oVars>>
  BY <1>2, Zenon DEF Refused, Refuse, NewMetric, CreateMetric, ChangeMetric, ProvideMetric
<1> QED BY <1>1, <1>2, Zenon DEF Next, aVars, eVars, oVars

\* Only evidences are on their two channels, and only results on the third.
LEMMA HopTypesKept == Types /\ [Next]_vars => HopTypes'
<1> SUFFICES ASSUME Types, [Next]_vars  PROVE HopTypes'
  BY Zenon
<1>1. ASSUME NEW r \in Runs, RunAny(r)  PROVE HopTypes'
  BY <1>1, RunShape, DiscoveryFrame, DiscoverersAssumption DEF Types, HopTypes, eVars, oVars
<1>2. ASSUME NEW w \in Workers, Work(w)  PROVE HopTypes'
  <2>1. /\ wev[w] \in Evidences /\ wdata[w] \in Seq(Metrics) /\ UNCHANGED <<aHeld, aHanded>>
    BY <1>2, WorkShape, Zenon DEF Work, Types, SliceTypes, aVars
  <2>2. wdata[w] # <<>> => <<wev[w], Head(wdata[w])>> \in Results
    BY <2>1 DEF Results
  <2>3. WorkStep(w) /\ HopTypes
    BY <1>2, Zenon DEF Work, Types
  <2> QED BY <2>1, <2>2, <2>3, WorkHops, Zenon DEF HopTypes
<1>3. ASSUME NEW w \in Workers, ReceiveAny(w) \/ AssessAny(w)  PROVE HopTypes'
  <2>1. /\ aHeld' = aHeld /\ aHanded' \subseteq aHanded
        /\ UNCHANGED <<eHeld, oHeld>>
    BY <1>3, BeginShape, Zenon DEF Begin, Types, eVars, oVars
  <2> QED BY <2>1, Zenon DEF Types, HopTypes
<1>4. CASE StoreEvidence \/ StoreResult \/ HandOverA \/ HandOverE \/ HandOverO \/ Break
  <2>1. /\ aHeld' \subseteq aHeld /\ aHanded' \subseteq aHanded \cup aHeld
        /\ eHeld' \subseteq eHeld /\ oHeld' \subseteq oHeld
    BY <1>4, NetworkShape, Zenon DEF HandOverA, HandOverE, HandOverO, aVars, eVars, oVars
  <2> QED BY <2>1, Zenon DEF Types, HopTypes
<1> QED BY <1>1, <1>2, <1>3, <1>4, HopSteps, Zenon DEF Types, HopTypes

\* The types hold initially.
LEMMA TypesInitially == Init => Types
<1>1. Init => WorkTypes
  BY EvidenceHasKey DEF Init, AssessmentInit, WorkTypes, Counters
<1>2. Init => HopTypes /\ AnswerTypes
  BY DEF Init, DiscoveryInit, AssessmentInit, A!Init, E!Init, O!Init, AnswerTypes, HopTypes
<1>3. Init => SliceTypes
  <2>1. <<>> \in Seq(Metrics) /\ InitialMetrics \in Seq(Metrics)
    BY AssessmentAssumption
  <2> QED BY <2>1 DEF Init, AssessmentInit, SliceTypes
<1>4. Init => StartTypes /\ RunTypes
  BY InjectiveEmpty DEF Init, DiscoveryInit, StartTypes, RunTypes
<1> QED BY <1>1, <1>2, <1>3, <1>4, Zenon DEF Types

\* The types are an invariant.
LEMMA TypesInvariant == Spec => []Types
<1>1. Types /\ [Next]_vars => Types'
  BY HopTypesKept, AssessmentTypesKept, DiscoveryTypesKept, Zenon DEF Types
<1> QED BY <1>1, TypesInitially, PTL DEF Spec
-----------------------------------------------------------------------------
(***************************************************************************)
(* An evidence is in one place only                                        *)
(***************************************************************************)
\* OwnerInv is kept by a step that leaves workers and answers alone and moves evidences
\* along the channel, or takes some off it.
LEMMA OwnerMove ==
  ASSUME OwnerInv, UNCHANGED <<wev, status>>,
         aHeld' \cap aHanded' = {}, InHopA' \subseteq InHopA,
         \A q \in Runs, x \in Resources : Unsent(q, x)' => Unsent(q, x)
  PROVE  OwnerInv'
<1>1. \A ev : Untouched(ev)' = Untouched(ev)
  BY Zenon DEF Untouched
<1> QED BY <1>1, Zenon DEF OwnerInv

\* A run sends what it has not sent before.
LEMMA OwnerRun ==
  ASSUME OwnerInv, RunTypes, NEW r \in Runs, RunAny(r)  PROVE OwnerInv'
<1>1. UNCHANGED <<wev, status>>
  BY DiscoveryFrame, Zenon DEF assessmentVars, workVars
<1>2. CASE UNCHANGED <<aHeld, aHanded>>
  BY <1>1, <1>2, OwnerMove, RunShape, Zenon DEF OwnerInv, InHopA
<1>3. ASSUME NEW x \in Resources, Unsent(r, x), ~Unsent(r, x)', UNCHANGED aHanded,
             aHeld' = aHeld \cup {<<r, x>>}
      PROVE  OwnerInv'
  <2>1. \A ev : Untouched(ev)' = Untouched(ev)
    BY <1>1, Zenon DEF Untouched
  <2>2. /\ InHopA' = InHopA \cup {<<r, x>>} /\ <<r, x>> \notin InHopA
        /\ <<r, x>> \notin Direct /\ Untouched(<<r, x>>)
    BY <1>3, PipelineAssumption, Zenon DEF OwnerInv, InHopA
  <2>3. \A q \in Runs, y \in Resources :
          Unsent(q, y)' => <<q, y>> \notin InHopA' /\ Untouched(<<q, y>>)
    BY <1>3, <2>2, RunShape, Zenon DEF OwnerInv
  <2> QED BY <1>1, <1>3, <2>1, <2>2, <2>3 DEF OwnerInv, InHopA
<1> QED BY <1>2, <1>3, RunShape, Zenon

\* A worker begins with an evidence that nobody has begun with.
LEMMA OwnerBegin ==
  ASSUME Types, OwnerInv, NEW w \in Workers, ReceiveAny(w) \/ AssessAny(w)  PROVE OwnerInv'
<1>1. PICK ev \in Evidences :
         /\ \/ ev \in aHanded /\ aHanded' = aHanded \ {ev} /\ UNCHANGED aHeld
            \/ ev \in Direct /\ Untouched(ev) /\ UNCHANGED <<aHeld, aHanded>>
         /\ Begin(w, ev)
  BY BeginShape, Zenon DEF Types
<1>2. /\ ev # Nobody /\ Untouched(ev) /\ ev \notin InHopA'
      /\ InHopA' \subseteq InHopA /\ aHeld' \cap aHanded' = {}
  BY <1>1, EvidenceHasKey, Zenon DEF OwnerInv, InHopA
<1>3. /\ \A v \in Workers : wev'[v] = IF v = w THEN ev ELSE wev[v]
      /\ UNCHANGED status
  BY <1>1, Zenon DEF Begin, Types, WorkTypes
<1>4. /\ \A e : e # ev /\ Untouched(e) => Untouched(e)'
      /\ \A q \in Runs, x \in Resources : Unsent(q, x) => <<q, x>> # ev
  <2>1. \A e : e # ev /\ Untouched(e) => Untouched(e)'
    BY <1>3, Zenon DEF Untouched
  <2> QED BY <1>1, <2>1, PipelineAssumption, Zenon DEF OwnerInv, InHopA
<1>5. \A q \in Runs, x \in Resources : Unsent(q, x)' = Unsent(q, x)
  <2>1. UNCHANGED <<rpc, rleft>>
    BY AssessmentFrame, Zenon DEF ByAssessment, discoveryVars, runVars
  <2> QED BY <2>1, Zenon DEF Unsent
<1>6. /\ \A v, u \in Workers : wev'[v] = wev'[u] /\ wev'[v] # Nobody => v = u
      /\ \A v \in Workers : wev'[v] # Nobody => status'[wev'[v]] = "new"
  BY <1>2, <1>3, Zenon DEF OwnerInv, Untouched
<1> QED BY <1>2, <1>4, <1>5, <1>6, Zenon DEF OwnerInv

\* A worker answers its own evidence.
LEMMA OwnerReply ==
  ASSUME WorkTypes, AnswerTypes, HopTypes, OwnerInv, NEW w \in Workers,
         UNCHANGED <<runVars, aVars>>,
         wev[w] \in Evidences, wev' = [wev EXCEPT ![w] = Nobody],
         NEW answer, status' = [status EXCEPT ![wev[w]] = answer]
  PROVE  OwnerInv'
<1>1. /\ \A v \in Workers : wev'[v] = IF v = w THEN Nobody ELSE wev[v]
      /\ \A e \in Evidences : e # wev[w] => status'[e] = status[e]
  BY Zenon DEF WorkTypes, AnswerTypes
<1>2. \A e \in Evidences : Untouched(e) => Untouched(e)'
  BY <1>1, EvidenceHasKey, Zenon DEF Untouched
<1>3. /\ UNCHANGED InHopA /\ aHeld' \cap aHanded' = aHeld \cap aHanded
      /\ \A q \in Runs, x \in Resources : Unsent(q, x)' = Unsent(q, x)
  BY Zenon DEF InHopA, aVars, runVars, Unsent
<1>4. /\ \A v, u \in Workers : wev'[v] = wev'[u] /\ wev'[v] # Nobody => v = u
      /\ \A v \in Workers : wev'[v] # Nobody => status'[wev'[v]] = "new"
  BY <1>1 DEF OwnerInv, WorkTypes
<1>5. InHopA \subseteq Evidences /\ \A q \in Runs, x \in Resources : <<q, x>> \in Evidences
  BY DiscoverersAssumption, Zenon DEF HopTypes, InHopA
<1> QED BY <1>2, <1>3, <1>4, <1>5, Zenon DEF OwnerInv

\* A worker keeps OwnerInv whatever it does.
LEMMA OwnerWork ==
  ASSUME Types, OwnerInv, NEW w \in Workers, Refused(w) \/ Work(w)  PROVE OwnerInv'
<1>1. UNCHANGED runVars
  BY AssessmentFrame, Zenon DEF ByAssessment, discoveryVars
<1>2. CASE UNCHANGED <<wev, status, aVars>>
  <2>1. UNCHANGED InHopA /\ aHeld' \cap aHanded' = aHeld \cap aHanded
    BY <1>2, Zenon DEF InHopA, aVars
  <2>2. \A q \in Runs, x \in Resources : Unsent(q, x)' = Unsent(q, x)
    BY <1>1, Zenon DEF runVars, Unsent
  <2> QED BY <1>2, <2>1, <2>2, OwnerMove, Zenon DEF OwnerInv
<1>3. ASSUME NEW answer, status' = [status EXCEPT ![wev[w]] = answer], UNCHANGED aVars,
             wev[w] \in Evidences, wev' = [wev EXCEPT ![w] = Nobody]
      PROVE  OwnerInv'
  BY <1>1, <1>3, OwnerReply, Zenon DEF Types
<1>4. CASE Work(w)
  BY <1>2, <1>3, <1>4, WorkShape, Zenon DEF Work, Types
<1>5. CASE Refused(w)
  <2>1. /\ wpc[w] = "lookup" /\ UNCHANGED aVars /\ wev' = [wev EXCEPT ![w] = Nobody]
        /\ status' = [status EXCEPT ![wev[w]] = "failed"]
    BY <1>5, Zenon DEF Refused, Refuse, Reply
  <2>2. wev[w] \in Evidences
    BY <2>1, Zenon DEF Types, WorkTypes
  <2> QED BY <1>3, <2>1, <2>2, Zenon
<1> QED BY <1>4, <1>5, Zenon

\* The network keeps OwnerInv, and so does everything that does not concern it.
LEMMA OwnerNetwork ==
  ASSUME OwnerInv,
         \/ HandOverA
         \/ UNCHANGED <<wev, status, aHeld, aHanded, runVars>>
         \/ Break
  PROVE  OwnerInv'
<1>1. CASE HandOverA \/ Break
  <2>1. UNCHANGED <<wev, status, runVars>>
    BY <1>1, Zenon DEF HandOverA, Break, ByNetwork, assessmentVars, workVars, discoveryVars
  <2>2. InHopA' \subseteq InHopA /\ aHeld' \cap aHanded' = {}
    BY <1>1, NetworkShape, Zenon DEF InHopA, OwnerInv
  <2>3. \A q \in Runs, x \in Resources : Unsent(q, x)' => Unsent(q, x)
    BY <2>1, Zenon DEF runVars, Unsent
  <2> QED BY <2>1, <2>2, <2>3, OwnerMove, Zenon
<1>2. CASE UNCHANGED <<wev, status, aHeld, aHanded, runVars>>
  <2>1. InHopA' \subseteq InHopA /\ aHeld' \cap aHanded' = {}
    BY <1>2, Zenon DEF InHopA, OwnerInv
  <2>2. \A q \in Runs, x \in Resources : Unsent(q, x)' => Unsent(q, x)
    BY <1>2, Zenon DEF runVars, Unsent
  <2> QED BY <1>2, <2>1, <2>2, OwnerMove, Zenon
<1> QED BY <1>1, <1>2, Zenon

\* The steps that concern neither workers nor the channel to the assessment.
LEMMA OtherSteps ==
  ASSUME [Next]_vars
  PROVE  \/ UNCHANGED <<wev, status, aHeld, aHanded, runVars>>
         \/ \E r \in Runs : RunAny(r)
         \/ \E w \in Workers : ReceiveAny(w) \/ AssessAny(w) \/ Refused(w) \/ Work(w)
         \/ HandOverA \/ Break
<1>1. ASSUME (\E s \in Calls : StartAny(s)) \/ UNCHANGED vars
      PROVE  UNCHANGED <<wev, status, aHeld, aHanded, runVars>>
  BY <1>1, DiscoveryFrame, Zenon DEF vars, assessmentVars, workVars, discoveryVars, aVars
<1>2. ASSUME NEW m, NewMetric(m) \/ \E s \in Range(ServiceOf) : ChangeMetric(s, m)
      PROVE  UNCHANGED <<wev, status, aHeld, aHanded, runVars>>
  BY <1>2, Zenon DEF NewMetric, CreateMetric, ChangeMetric, ProvideMetric, ByAssessment,
                     discoveryVars, aVars, workVars
<1>3. ASSUME StoreEvidence \/ StoreResult \/ HandOverE \/ HandOverO
      PROVE  UNCHANGED <<wev, status, aHeld, aHanded, runVars>>
  BY <1>3, Zenon DEF StoreEvidence, StoreResult, HandOverE, HandOverO, BySinks, ByNetwork,
                     assessmentVars, workVars, discoveryVars, aVars
<1> QED BY <1>1, <1>2, <1>3, Zenon DEF Next

\* OwnerInv is an invariant.
LEMMA OwnerInvariant == Spec => [](Types /\ OwnerInv)
<1>1. Init => OwnerInv
  BY EvidenceHasKey, DiscoverersAssumption
     DEF Init, DiscoveryInit, AssessmentInit, A!Init, OwnerInv, InHopA, Untouched
<1>2. Types /\ OwnerInv /\ [Next]_vars => OwnerInv'
  BY OwnerRun, OwnerBegin, OwnerWork, OwnerNetwork, OtherSteps, Zenon DEF Types
<1> QED BY <1>1, <1>2, TypesInvariant, PTL DEF Spec
-----------------------------------------------------------------------------
(***************************************************************************)
(* No list repeats a metric                                                *)
(***************************************************************************)
\* A step of one worker leaves the slices of the others alone.
LEMMA OtherWorkers ==
  ASSUME WorkTypes, SliceTypes, NEW w \in Workers, WorkStep(w)
  PROVE  \A v \in Workers : v # w =>
           /\ wpc'[v] = wpc[v] /\ wev'[v] = wev[v]
           /\ wleft'[v] = wleft[v] /\ wfill'[v] = wfill[v] /\ wdata'[v] = wdata[v]
<1>1. \A v \in Workers : v # w => wpc'[v] = wpc[v] /\ wev'[v] = wev[v]
  BY WorkShape DEF WorkTypes
<1>2. \A v \in Workers : v # w => wleft'[v] = wleft[v]
  <2>1. UNCHANGED wleft \/ \E q : wleft' = [wleft EXCEPT ![w] = q]
    BY SliceShape, Zenon
  <2> QED BY <2>1, Zenon DEF SliceTypes
<1>3. \A v \in Workers : v # w => wfill'[v] = wfill[v]
  <2>1. UNCHANGED wfill \/ \E q : wfill' = [wfill EXCEPT ![w] = q]
    BY SliceShape, Zenon
  <2> QED BY <2>1, Zenon DEF SliceTypes
<1>4. \A v \in Workers : v # w => wdata'[v] = wdata[v]
  <2>1. UNCHANGED wdata \/ \E q : wdata' = [wdata EXCEPT ![w] = q]
    BY SliceShape, Zenon
  <2> QED BY <2>1, Zenon DEF SliceTypes
<1> QED BY <1>1, <1>2, <1>3, <1>4, Zenon

\* What the worker that takes a step has to keep.
LEMMA OnceStep ==
  ASSUME WorkTypes, SliceTypes, OnceInv, NEW w \in Workers, WorkStep(w), OnceOf(w)'
  PROVE  OnceInv'
<1>1. \A v \in Workers : v # w => OnceOf(v)'
  BY OtherWorkers, Zenon DEF OnceInv, OnceOf
<1>2. IsInjective(known)'
  BY WorkShape, Zenon DEF OnceInv, metricVars
<1>3. IsInjective(wfill[w]) /\ IsInjective(NoList)
  <2>1. IsInjective(NoList)
    BY InjectiveSingle, Zenon DEF NoList
  <2> QED BY <2>1, Zenon DEF OnceInv, OnceOf
<1>4. KeyAt(w) \in Keys
  BY WorkShape, EvidenceHasKey, Zenon DEF KeyAt
<1>5. \A k \in Keys : IsInjective(mrtc[k])'
  <2>1. PICK q : IsInjective(q) /\ (UNCHANGED mrtc \/ mrtc' = [mrtc EXCEPT ![KeyAt(w)] = q])
    BY <1>3, SliceShape, Zenon
  <2>2. \A k \in Keys : mrtc'[k] = mrtc[k] \/ mrtc'[k] = q
    BY <1>4, <2>1, Zenon DEF SliceTypes
  <2> QED BY <2>1, <2>2, Zenon DEF OnceInv
<1> QED BY <1>1, <1>2, <1>5, Zenon DEF OnceInv

\* A worker that goes on to the next metric.
LEMMA OnceNextMetric ==
  ASSUME WorkTypes, SliceTypes, OnceInv, NEW w \in Workers, FillOne(w) \/ HitOne(w)
  PROVE  OnceOf(w)'
<1> DEFINE m == Head(wleft[w])
<1>1. /\ wleft[w] # <<>> /\ wpc'[w] \in {"fill", "hit"}
      /\ wleft'[w] = Tail(wleft[w])
      /\ wfill'[w] \in {wfill[w], Append(wfill[w], m)}
      /\ wdata'[w] \in {wdata[w], Append(wdata[w], m)}
  <2>1. /\ wleft[w] # <<>> /\ wpc[w] \in {"fill", "hit"} /\ UNCHANGED wpc
        /\ wleft' = [wleft EXCEPT ![w] = Tail(@)]
        /\ UNCHANGED wfill \/ \E q \in {wfill[w], Append(wfill[w], m)} : wfill' = [wfill EXCEPT ![w] = q]
        /\ \E q \in {wdata[w], Append(wdata[w], m)} : wdata' = [wdata EXCEPT ![w] = q]
    BY Zenon DEF FillOne, HitOne
  <2> QED BY <2>1, Zenon DEF SliceTypes
<1>2. /\ wleft[w] \in Seq(Metrics) /\ wfill[w] \in Seq(Metrics) /\ wdata[w] \in Seq(Metrics)
      /\ OnceOf(w)
  BY Zenon DEF SliceTypes, OnceInv
<1> HIDE DEF m
<1>3. /\ m \in Metrics /\ IsInjective(Tail(wleft[w])) /\ m \notin Range(Tail(wleft[w]))
      /\ Range(wleft[w]) = {m} \cup Range(Tail(wleft[w]))
  BY <1>1, <1>2, RangeOfTail, InjectiveTail, Zenon DEF OnceOf, m
<1>4. /\ IsInjective(Append(wfill[w], m)) /\ Range(Append(wfill[w], m)) = Range(wfill[w]) \cup {m}
      /\ IsInjective(Append(wdata[w], m)) /\ Range(Append(wdata[w], m)) = Range(wdata[w]) \cup {m}
  <2>1. m \notin Range(wfill[w]) /\ m \notin Range(wdata[w])
    BY <1>2, <1>3, Zenon DEF OnceOf
  <2> QED BY <1>2, <1>3, <2>1, InjectiveAppend, RangeOfAppend DEF OnceOf
<1> QED BY <1>1, <1>2, <1>3, <1>4, ZenonT(30) DEF OnceOf

\* Every step of a worker keeps OnceInv.
LEMMA OnceWork ==
  ASSUME WorkTypes, SliceTypes, OnceInv, NEW w \in Workers, WorkStep(w)  PROVE OnceInv'
<1> SUFFICES OnceOf(w)'
  BY OnceStep, Zenon
<1>1. OnceOf(w) /\ IsInjective(<<>>) /\ Range(<<>>) = {} /\ KeyAt(w) \in Keys
  BY InjectiveEmpty, RangeOfEmpty, WorkShape, EvidenceHasKey, Zenon DEF OnceInv, KeyAt
<1>2. CASE Lookup(w) \/ ListMetrics(w)
  <2>1. /\ wfill[w] = <<>> /\ wdata[w] = <<>> /\ UNCHANGED <<wfill, wdata>>
        /\ wleft'[w] \in {wleft[w], mrtc[KeyAt(w)], known}
    BY <1>1, <1>2, Zenon DEF Lookup, ListMetrics, OnceOf, SliceTypes
  <2>2. IsInjective(wleft'[w])
    BY <1>1, <2>1, Zenon DEF OnceInv, OnceOf
  <2> QED BY <1>1, <2>1, <2>2, Zenon DEF OnceOf
<1>3. CASE LockList(w)
  BY <1>1, <1>3, Zenon DEF LockList, FirstList, Goto, OnceOf, WorkTypes, SliceTypes
<1>4. CASE FillOne(w) \/ HitOne(w)
  BY <1>4, OnceNextMetric, Zenon
<1>5. CASE ListMetricsFails(w) \/ FillFails(w) \/ HitFails(w) \/ StoreStreamFails(w)
           \/ OrchestratorStreamFails(w) \/ Assessed(w)
  <2>1. Reply(w, "failed") \/ Reply(w, "assessed")
    BY <1>5, Zenon DEF ListMetricsFails, FillFails, HitFails, StoreStreamFails,
                OrchestratorStreamFails, Assessed, Fail
  <2>2. wleft'[w] = <<>> /\ wfill'[w] = <<>> /\ wdata'[w] = <<>>
    BY <2>1, Zenon DEF Reply, SliceTypes
  <2> QED BY <1>1, <2>2, Zenon DEF OnceOf
<1>6. CASE FillDone(w) \/ HitDone(w) \/ SendToStore(w) \/ OpenOrchestrator(w)
  <2>1. /\ UNCHANGED <<wleft, wfill, wdata>>
        /\ wpc'[w] \in {"store", "orchestrator", "results"}
    BY <1>6, Zenon DEF FillDone, HitDone, SendToStore, OpenOrchestrator, Goto, WorkTypes
  <2> QED BY <1>1, <2>1, Zenon DEF OnceOf
<1>7. CASE SendResult(w)
  <2>1. /\ UNCHANGED <<wleft, wfill>> /\ wpc'[w] = "results"
        /\ wdata[w] # <<>> /\ wdata'[w] = Tail(wdata[w]) /\ wdata[w] \in Seq(Metrics)
    BY <1>7, Zenon DEF SendResult, SliceTypes
  <2>2. IsInjective(wdata'[w]) /\ Range(wdata'[w]) \subseteq Range(wdata[w])
    BY <1>1, <2>1, RangeOfTail, InjectiveTail DEF OnceOf
  <2> QED BY <1>1, <2>1, <2>2, Zenon DEF OnceOf
<1> QED BY <1>2, <1>3, <1>4, <1>5, <1>6, <1>7, Zenon DEF WorkStep

\* A worker that begins or refuses, or a change of a metric, keeps OnceInv.
LEMMA OnceOthers ==
  ASSUME Types, OnceInv,
         \/ \E w \in Workers : ReceiveAny(w) \/ AssessAny(w) \/ Refused(w)
         \/ \E m \in Metrics : NewMetric(m) \/ \E s \in Range(ServiceOf) : ChangeMetric(s, m)
  PROVE  OnceInv'
<1>1. ASSUME NEW w \in Workers, ReceiveAny(w) \/ AssessAny(w)  PROVE OnceInv'
  <2>1. /\ UNCHANGED <<known, mrtc, wleft, wfill, wdata>>
        /\ wpc[w] = "idle" /\ wpc' = [wpc EXCEPT ![w] = "lookup"]
    BY <1>1, Zenon DEF ReceiveAny, AssessAny, Receive, AssessEvidence, Begin, Goto, metricVars,
                       listVars
  <2>2. \A v \in Workers : wpc'[v] = wpc[v] \/ (wpc[v] = "idle" /\ wpc'[v] = "lookup")
    BY <2>1, Zenon DEF Types, WorkTypes
  <2> QED BY <2>1, <2>2, Zenon DEF OnceInv, OnceOf
<1>2. ASSUME NEW w \in Workers, Refused(w)  PROVE OnceInv'
  <2>1. /\ UNCHANGED <<known, mrtc>> /\ wpc' = [wpc EXCEPT ![w] = "idle"]
        /\ wleft' = [wleft EXCEPT ![w] = <<>>]
        /\ wfill' = [wfill EXCEPT ![w] = <<>>]
        /\ wdata' = [wdata EXCEPT ![w] = <<>>]
    BY <1>2, Zenon DEF Refused, Refuse, Reply, Goto, metricVars, listVars
  <2>2. \A v \in Workers :
          IF v = w THEN wleft'[v] = <<>> /\ wfill'[v] = <<>> /\ wdata'[v] = <<>>
          ELSE wpc'[v] = wpc[v] /\ wleft'[v] = wleft[v] /\ wfill'[v] = wfill[v] /\ wdata'[v] = wdata[v]
    BY <2>1, Zenon DEF Types, WorkTypes, SliceTypes
  <2>3. \A v \in Workers : OnceOf(v)'
    BY <2>2, InjectiveEmpty, RangeOfEmpty, Zenon DEF OnceInv, OnceOf
  <2> QED BY <2>1, <2>3, Zenon DEF OnceInv
<1>3. ASSUME NEW m \in Metrics, NewMetric(m) \/ \E s \in Range(ServiceOf) : ChangeMetric(s, m)
      PROVE  OnceInv'
  <2>1. /\ UNCHANGED <<wpc, mrtc, wleft, wfill, wdata>>
        /\ UNCHANGED known \/ (m \notin Range(known) /\ known' = Append(known, m))
    BY <1>3, Zenon DEF NewMetric, ChangeMetric, CreateMetric, ProvideMetric, listVars, workVars
  <2>2. known \in Seq(Metrics) /\ IsInjective(known)
    BY Zenon DEF Types, SliceTypes, OnceInv
  <2>3. IsInjective(known')
    BY <2>1, <2>2, InjectiveAppend, Zenon
  <2> QED BY <2>1, <2>3, Zenon DEF OnceInv, OnceOf
<1> QED BY <1>1, <1>2, <1>3, Zenon

\* OnceInv is an invariant.
LEMMA OnceInvariant == Spec => [](Types /\ OnceInv)
<1>1. Init => OnceInv
  <2> SUFFICES ASSUME Init  PROVE OnceInv
    BY Zenon
  <2>1. IsInjective(NoList) /\ IsInjective(<<>>) /\ Range(<<>>) = {} /\ IsInjective(InitialMetrics)
    BY InjectiveSingle, InjectiveEmpty, RangeOfEmpty, AssessmentAssumption, Zenon DEF NoList
  <2>2. \A w \in Workers : OnceOf(w)
    BY <2>1, Zenon DEF Init, AssessmentInit, OnceOf
  <2>3. \A k \in Keys : mrtc[k] = NoList
    BY Zenon DEF Init, AssessmentInit
  <2> QED BY <2>1, <2>2, <2>3, Zenon DEF Init, AssessmentInit, OnceInv
<1>2. ASSUME OnceInv, UNCHANGED assessmentVars  PROVE OnceInv'
  BY <1>2, Zenon DEF assessmentVars, metricVars, listVars, workVars, OnceInv, OnceOf
<1>3. Types /\ OnceInv /\ [Next]_vars => OnceInv'
  BY <1>2, OnceOthers, OnceWork, AssessmentSteps, Zenon DEF Types, Work
<1> QED BY <1>1, <1>3, TypesInvariant, PTL DEF Spec
-----------------------------------------------------------------------------
(***************************************************************************)
(* Answers are honest                                                      *)
(***************************************************************************)
\* What is sent, announced, found and answered of ev stays as it is.
SameRecords(ev) ==
  /\ Sent(ev)' = Sent(ev) /\ Told(ev)' = Told(ev)
  /\ (<<"error", ev>> \in announced)' = (<<"error", ev>> \in announced)
  /\ (ev \in SentEvidences)' = (ev \in SentEvidences)

\* The announcement of an error is none of a result.
LEMMA TagsDiffer ==
  /\ \A e, f, m : <<"error", e>> # <<"result", f, m>>
  /\ \A e, f : <<"error", e>> = <<"error", f>> => e = f
  /\ \A e, f, m, n : <<"result", e, m>> = <<"result", f, n>> => e = f /\ m = n
  BY SMT, Zenon

\* What a worker may announce.
LEMMA WorkAnnounces ==
  ASSUME NEW w \in Workers, WorkStep(w)
  PROVE  \/ UNCHANGED announced
         \/ announced' = announced \cup {<<"error", wev[w]>>}
         \/ /\ wpc[w] = "results" /\ wdata[w] # <<>>
            /\ announced' = announced \cup {<<"result", wev[w], Head(wdata[w])>>}
  BY Zenon DEF WorkStep, Lookup, ListMetrics, ListMetricsFails, LockList, FillOne, FillFails,
               FillDone, HitOne, HitFails, HitDone, SendToStore, StoreStreamFails, Fail,
               OpenOrchestrator, OrchestratorStreamFails, SendResult, Assessed

\* What belongs to an evidence is left alone by workers that have another one.
LEMMA OtherEvidences ==
  ASSUME NEW w \in Workers, Work(w), NEW ev, ev # wev[w]  PROVE SameRecords(ev)
<1>1. WorkStep(w) /\ UNCHANGED <<evidences, results>>
  BY Zenon DEF Work, ByAssessment, sinkVars
<1>2. Sent(ev)' = Sent(ev)
  <2>1. \A m \in Metrics : <<ev, m>> # <<wev[w], Head(wdata[w])>>
    BY Zenon
  <2>2. UNCHANGED <<oHeld, oHanded, oGone>> \/
          (oHeld' = oHeld \cup {<<wev[w], Head(wdata[w])>>} /\ UNCHANGED <<oHanded, oGone>>)
    BY <1>1, WorkHops, Zenon
  <2>3. \A m \in Metrics : (<<ev, m>> \in SentResults)' = (<<ev, m>> \in SentResults)
    BY <1>1, <2>1, <2>2 DEF SentResults
  <2> QED BY <2>3, Zenon DEF Sent
<1>3. (ev \in SentEvidences)' = (ev \in SentEvidences)
  <2>1. UNCHANGED <<eHeld, eHanded, eGone>> \/
          (eHeld' = eHeld \cup {wev[w]} /\ UNCHANGED <<eHanded, eGone>>)
    BY <1>1, WorkHops, Zenon
  <2> QED BY <1>1, <2>1 DEF SentEvidences
<1>4. Told(ev)' = Told(ev) /\ (<<"error", ev>> \in announced)' = (<<"error", ev>> \in announced)
  <2>1. \/ UNCHANGED announced
        \/ announced' = announced \cup {<<"error", wev[w]>>}
        \/ announced' = announced \cup {<<"result", wev[w], Head(wdata[w])>>}
    BY <1>1, WorkAnnounces, Zenon
  <2>2. CASE UNCHANGED announced
    BY <2>2, Zenon DEF Told
  <2>3. CASE announced' = announced \cup {<<"error", wev[w]>>}
    BY <2>3, TagsDiffer DEF Told
  <2>4. CASE announced' = announced \cup {<<"result", wev[w], Head(wdata[w])>>}
    BY <2>4, TagsDiffer DEF Told
  <2> QED BY <2>1, <2>2, <2>3, <2>4, Zenon
<1> QED BY <1>2, <1>3, <1>4, Zenon DEF SameRecords

\* A worker that announces nothing and sends nothing leaves the records of its own
\* evidence alone, too.
LEMMA SilentSteps ==
  ASSUME NEW w \in Workers, Work(w), ~SendToStore(w), ~SendResult(w)
  PROVE  \A ev : /\ Sent(ev)' = Sent(ev) /\ Told(ev)' = Told(ev)
                 /\ (ev \in SentEvidences)' = (ev \in SentEvidences)
<1>1. UNCHANGED <<eHeld, eHanded, eGone, evidences, oHeld, oHanded, oGone, results>>
  BY Zenon DEF Work, ByAssessment, sinkVars, WorkStep, Lookup, ListMetrics, ListMetricsFails,
               LockList, FillOne, FillFails, FillDone, HitOne, HitFails, HitDone,
               StoreStreamFails, OpenOrchestrator, OrchestratorStreamFails, Assessed, eVars, oVars
<1>2. UNCHANGED announced \/ announced' = announced \cup {<<"error", wev[w]>>}
  BY Zenon DEF Work, WorkStep, Lookup, ListMetrics, ListMetricsFails, LockList, FillOne,
               FillFails, FillDone, HitOne, HitFails, HitDone, StoreStreamFails, Fail,
               OpenOrchestrator, OrchestratorStreamFails, Assessed
<1>3. SentResults' = SentResults /\ SentEvidences' = SentEvidences
  BY <1>1, Zenon DEF SentResults, SentEvidences
<1>4. \A ev : Told(ev)' = Told(ev)
  BY <1>2, TagsDiffer, Zenon DEF Told
<1> QED BY <1>3, <1>4, Zenon DEF Sent


\* A worker changes the verdict and the answer of its own evidence only.
LEMMA OtherAnswers ==
  ASSUME WorkTypes, AnswerTypes, NEW w \in Workers, WorkStep(w)
  PROVE  \A ev \in Evidences : ev # wev[w] => verdict'[ev] = verdict[ev] /\ status'[ev] = status[ev]
<1>1. UNCHANGED verdict \/ verdict' = [verdict EXCEPT ![wev[w]] = Range(wdata[w])]
  BY Zenon
     DEF WorkStep, Lookup, ListMetrics, ListMetricsFails, LockList, FillOne, FillFails, FillDone,
         HitOne, HitFails, HitDone, SendToStore, StoreStreamFails, OpenOrchestrator,
         OrchestratorStreamFails, SendResult, Assessed
<1>2. UNCHANGED status \/ \E answer : status' = [status EXCEPT ![wev[w]] = answer]
  BY WorkShape, Zenon
<1> QED BY <1>1, <1>2, Zenon DEF AnswerTypes

\* A step of a worker has to be looked at for its own evidence only.
LEMMA HonestStep ==
  ASSUME Types, OwnerInv, HonestInv, NEW w \in Workers, Work(w),
         NEW e \in Evidences, wev[w] = e, Settled(e)', wev'[w] = e => Progress(w, e)'
  PROVE  HonestInv'
<1>1. WorkTypes /\ SliceTypes /\ AnswerTypes /\ WorkStep(w)
  BY Zenon DEF Types, Work
<1>2. \A ev \in Evidences : ev # e => verdict'[ev] = verdict[ev] /\ status'[ev] = status[ev]
  BY <1>1, OtherAnswers, Zenon
<1>3. \A v \in Workers : v # w => wpc'[v] = wpc[v] /\ wev'[v] = wev[v] /\ wdata'[v] = wdata[v]
  BY <1>1, OtherWorkers, Zenon
<1>4. \A v \in Workers : v # w => wev[v] # e
  BY EvidenceHasKey, Zenon DEF OwnerInv
<1>5. wev'[w] \in {e, Nobody}
  BY <1>1, WorkShape, Zenon DEF WorkTypes
<1>6. ASSUME NEW ev \in Evidences, ev # e
      PROVE  Settled(ev)' /\ \A v \in Workers : wev'[v] = ev => Progress(v, ev)'
  <2>1. SameRecords(ev) /\ Settled(ev) /\ \A v \in Workers : wev[v] = ev => Progress(v, ev)
    BY <1>6, OtherEvidences, Zenon DEF HonestInv
  <2>2. Untouched(ev)' => Untouched(ev)
    BY <1>2, <1>3, <1>6, Zenon DEF Untouched
  <2>3. Settled(ev)'
    BY <1>2, <1>6, <2>1, <2>2, Zenon DEF Settled, Quiet, SameRecords
  <2>4. \A v \in Workers : wev'[v] = ev => v # w
    BY <1>5, <1>6, EvidenceHasKey, Zenon
  <2>5. ASSUME NEW v \in Workers, wev'[v] = ev  PROVE Progress(v, ev)'
    <3>1. v # w /\ wpc'[v] = wpc[v] /\ wdata'[v] = wdata[v] /\ verdict'[ev] = verdict[ev] /\ Progress(v, ev)
      BY <1>2, <1>3, <1>6, <2>1, <2>4, <2>5, Zenon
    <3> QED BY <2>1, <3>1, Zenon DEF Progress, Quiet, SameRecords
  <2> QED BY <2>3, <2>5, Zenon
<1>7. \A v \in Workers : wev'[v] = e => Progress(v, e)'
  BY <1>3, <1>4, Zenon
<1> QED BY <1>6, <1>7, Zenon DEF HonestInv

\* While a worker evaluates, its evidence stays unknown to everybody else.
LEMMA HonestEvaluates ==
  ASSUME WorkTypes, AnswerTypes, HonestInv, NEW w \in Workers, Work(w),
         NEW e \in Evidences, wev[w] = e,
         \/ Lookup(w) \/ ListMetrics(w) \/ LockList(w) \/ FillOne(w) \/ HitOne(w)
         \/ FillDone(w) \/ HitDone(w)
  PROVE  Progress(w, e)'
<1>1. /\ wpc[w] \in EarlyCounters /\ UNCHANGED announced
      /\ \/ wpc'[w] \in EarlyCounters
         \/ wpc'[w] = "store" /\ verdict'[e] = Range(wdata[w]) /\ UNCHANGED wdata
  <2>1. CASE Lookup(w) \/ ListMetrics(w) \/ LockList(w) \/ FillOne(w) \/ HitOne(w)
    BY <2>1, Zenon DEF Lookup, ListMetrics, LockList, FillOne, HitOne, Goto, EarlyCounters, WorkTypes
  <2>2. CASE FillDone(w) \/ HitDone(w)
    BY <2>2, Zenon DEF FillDone, HitDone, Goto, EarlyCounters, WorkTypes, AnswerTypes
  <2> QED BY <2>1, <2>2, Zenon
<1>2. ~SendToStore(w) /\ ~SendResult(w)
  BY <1>1, Zenon DEF SendToStore, SendResult, EarlyCounters
<1>3. Quiet(e) /\ e \notin SentEvidences
  BY <1>1, Zenon DEF HonestInv, Progress
<1>4. Quiet(e)' /\ e \notin SentEvidences'
  BY <1>1, <1>2, <1>3, SilentSteps, Zenon DEF Quiet
<1> QED BY <1>1, <1>4, Zenon DEF Progress, EarlyCounters

\* Between the evidence store and the orchestrator, no result is known yet.
LEMMA HonestConnects ==
  ASSUME WorkTypes, HonestInv, NEW w \in Workers, Work(w), NEW e \in Evidences, wev[w] = e,
         SendToStore(w) \/ OpenOrchestrator(w)
  PROVE  Progress(w, e)'
<1>1. /\ \/ wpc[w] = "store" /\ wpc'[w] = "orchestrator"
         \/ wpc[w] = "orchestrator" /\ wpc'[w] = "results"
      /\ UNCHANGED <<wdata, verdict, announced, oHeld, oHanded, oGone>>
  BY Zenon DEF SendToStore, OpenOrchestrator, Goto, WorkTypes, oVars
<1>2. UNCHANGED results
  BY Zenon DEF Work, ByAssessment, sinkVars
<1>3. Sent(e)' = Sent(e) /\ Told(e)' = Told(e)
  BY <1>1, <1>2, Zenon DEF Sent, Told, SentResults
<1>4. Quiet(e) /\ verdict[e] = Range(wdata[w])
  BY <1>1, Zenon DEF HonestInv, Progress
<1>5. Quiet(e)'
  BY <1>1, <1>3, <1>4, Zenon DEF Quiet
<1> QED BY <1>1, <1>4, <1>5, Zenon DEF Progress, EarlyCounters, Quiet

\* A result that is sent is announced as well, and was not sent before.
LEMMA HonestSends ==
  ASSUME SliceTypes, OnceInv, HonestInv, NEW w \in Workers, Work(w), NEW e \in Evidences, wev[w] = e,
         SendResult(w)
  PROVE  Progress(w, e)'
<1> DEFINE q == wdata[w]
           m == Head(q)
<1>1. /\ wpc[w] = "results" /\ q # <<>> /\ UNCHANGED <<wpc, verdict, oHanded, oGone>>
      /\ oHeld' = oHeld \cup {<<e, m>>}
      /\ announced' = announced \cup {<<"result", e, m>>}
      /\ wdata' = [wdata EXCEPT ![w] = Tail(q)]
  BY Zenon DEF SendResult
<1>2. q \in Seq(Metrics) /\ wdata'[w] = Tail(q)
  BY <1>1, Zenon DEF SliceTypes
<1>3. m \in Metrics /\ Range(q) = {m} \cup Range(Tail(q)) /\ m \notin Range(Tail(q))
  BY <1>1, <1>2, RangeOfTail, InjectiveTail, Zenon DEF OnceInv, OnceOf
<1>4. Sent(e)' = Sent(e) \cup {m}
  <2>1. SentResults' = SentResults \cup {<<e, m>>}
    BY <1>1, Zenon DEF Work, ByAssessment, sinkVars, SentResults
  <2> QED BY <1>3, <2>1, Zenon DEF Sent
<1>5. Told(e)' = Told(e) \cup {m}
  BY <1>1, <1>3, TagsDiffer, ZenonT(30) DEF Told
<1>6. <<"error", e>> \notin announced => <<"error", e>> \notin announced'
  BY <1>1, TagsDiffer, Zenon
<1>7. /\ Told(e) = Sent(e) /\ <<"error", e>> \notin announced
      /\ verdict[e] = Sent(e) \cup Range(q) /\ Sent(e) \cap Range(q) = {}
  BY <1>1, Zenon DEF HonestInv, Progress
<1>8. /\ Told(e)' = Sent(e)' /\ verdict'[e] = Sent(e)' \cup Range(wdata'[w])
      /\ Sent(e)' \cap Range(wdata'[w]) = {} /\ wpc'[w] = "results"
  BY <1>1, <1>2, <1>3, <1>4, <1>5, <1>7
<1> QED BY <1>6, <1>7, <1>8, Zenon DEF Progress, EarlyCounters

\* A worker that fails has sent and announced no result; one that answers ASSESSED, all.
LEMMA HonestReplies ==
  ASSUME WorkTypes, AnswerTypes, HonestInv, NEW w \in Workers, Work(w) \/ Refused(w),
         NEW e \in Evidences, wev[w] = e,
         \/ ListMetricsFails(w) \/ FillFails(w) \/ HitFails(w) \/ StoreStreamFails(w)
         \/ OrchestratorStreamFails(w) \/ Assessed(w) \/ Refuse(w)
  PROVE  Settled(e)' /\ wev'[w] # e
<1>1. /\ UNCHANGED <<eHeld, eHanded, eGone, oHeld, oHanded, oGone, verdict>>
      /\ UNCHANGED announced \/ announced' = announced \cup {<<"error", e>>}
  BY Zenon DEF ListMetricsFails, FillFails, HitFails, StoreStreamFails, OrchestratorStreamFails,
               Assessed, Refuse, Fail, eVars, oVars
<1>2. UNCHANGED results
  BY Zenon DEF Work, Refused, ByAssessment, sinkVars
<1>3. Sent(e)' = Sent(e)
  BY <1>1, <1>2, Zenon DEF Sent, SentResults
<1>4. Told(e)' = Told(e)
  BY <1>1, TagsDiffer, Zenon DEF Told
<1>5. Progress(w, e)
  BY Zenon DEF HonestInv
<1>6. CASE Assessed(w)
  <2>1. wpc[w] = "results" /\ wdata[w] = <<>> /\ Reply(w, "assessed") /\ UNCHANGED announced
    BY <1>6, Zenon DEF Assessed
  <2>2. status'[e] = "assessed" /\ wev'[w] = Nobody
    BY <2>1, Zenon DEF Reply, AnswerTypes, WorkTypes
  <2>3. Sent(e) = verdict[e] /\ Told(e) = verdict[e] /\ <<"error", e>> \notin announced
    BY <1>5, <2>1, RangeOfEmpty, Zenon DEF Progress
  <2> QED BY <1>1, <1>3, <1>4, <2>1, <2>2, <2>3, EvidenceHasKey, Zenon DEF Settled, Untouched
<1>7. CASE ~Assessed(w)
  <2>1. Reply(w, "failed") /\ wpc[w] \in EarlyCounters \cup {"store", "orchestrator"}
    BY <1>7, Zenon DEF ListMetricsFails, FillFails, HitFails, StoreStreamFails, EarlyCounters,
                       OrchestratorStreamFails, Refuse, Fail
  <2>2. status'[e] = "failed" /\ wev'[w] = Nobody
    BY <2>1, Zenon DEF Reply, AnswerTypes, WorkTypes
  <2>3. Sent(e) = {} /\ Told(e) = {}
    BY <1>5, <2>1, Zenon DEF Progress, Quiet
  <2> QED BY <1>3, <1>4, <2>2, <2>3, EvidenceHasKey, Zenon DEF Settled, Untouched
<1> QED BY <1>6, <1>7, Zenon

\* Every step of a worker keeps HonestInv.
LEMMA HonestWork ==
  ASSUME Types, OwnerInv, OnceInv, HonestInv, NEW w \in Workers, Work(w)  PROVE HonestInv'
<1>1. WorkTypes /\ SliceTypes /\ AnswerTypes /\ WorkStep(w)
  BY Zenon DEF Types, Work
<1>2. PICK e \in Evidences : wev[w] = e
  BY <1>1, WorkShape, Zenon
<1>3. CASE \/ Lookup(w) \/ ListMetrics(w) \/ LockList(w) \/ FillOne(w) \/ HitOne(w) \/ FillDone(w)
           \/ HitDone(w) \/ SendToStore(w) \/ OpenOrchestrator(w) \/ SendResult(w)
  <2>1. Progress(w, e)'
    BY <1>1, <1>2, <1>3, HonestEvaluates, HonestConnects, HonestSends, Zenon
  <2>2. UNCHANGED <<wev, status>>
    BY <1>3, Zenon DEF Lookup, ListMetrics, LockList, FillOne, HitOne, FillDone, HitDone,
                       SendToStore, OpenOrchestrator, SendResult
  <2>3. status[e] = "new"
    BY <1>2, EvidenceHasKey, Zenon DEF OwnerInv
  <2>4. Settled(e)'
    BY <1>2, <2>2, <2>3, Zenon DEF Settled, Untouched
  <2> QED BY <1>2, <2>1, <2>4, HonestStep, Zenon
<1>4. CASE \/ ListMetricsFails(w) \/ FillFails(w) \/ HitFails(w) \/ StoreStreamFails(w)
           \/ OrchestratorStreamFails(w) \/ Assessed(w)
  BY <1>1, <1>2, <1>4, HonestReplies, HonestStep, Zenon
<1> QED BY <1>1, <1>3, <1>4, Zenon DEF WorkStep

\* When nothing is sent or announced, the records of all evidences stay.
LEMMA RecordsStay ==
  ASSUME UNCHANGED announced, SentEvidences' = SentEvidences, SentResults' = SentResults
  PROVE  \A ev : SameRecords(ev)
  BY Zenon DEF SameRecords, Sent, Told

\* A worker begins with an evidence that nothing is known of.
LEMMA HonestBegin ==
  ASSUME Types, OwnerInv, HonestInv, NEW w \in Workers, ReceiveAny(w) \/ AssessAny(w)
  PROVE  HonestInv'
<1>1. PICK e \in Evidences : Begin(w, e) /\ Untouched(e)
  <2>1. HopTypes
    BY Zenon DEF Types
  <2>2. \A e \in aHanded : Untouched(e)
    BY Zenon DEF OwnerInv, InHopA
  <2> QED BY <2>1, <2>2, BeginShape, Zenon
<1>2. UNCHANGED <<evidences, results>>
  BY Zenon DEF ReceiveAny, AssessAny, ByAssessment, sinkVars
<1>3. /\ wpc[w] = "idle" /\ UNCHANGED <<wdata, status, verdict, announced, eVars, oVars>>
      /\ wpc' = [wpc EXCEPT ![w] = "lookup"] /\ wev' = [wev EXCEPT ![w] = e]
  BY <1>1, Zenon DEF Begin, Goto
<1>4. \A ev : SameRecords(ev)
  BY <1>2, <1>3, RecordsStay, Zenon DEF SentEvidences, SentResults, eVars, oVars
<1>5. /\ wpc'[w] = "lookup" /\ wev[w] = Nobody /\ wev'[w] = e
      /\ \A v \in Workers : v # w => wpc'[v] = wpc[v] /\ wev'[v] = wev[v]
  BY <1>3, Zenon DEF Types, WorkTypes
<1>6. ASSUME NEW ev \in Evidences
      PROVE  Settled(ev)' /\ \A v \in Workers : wev'[v] = ev => Progress(v, ev)'
  <2>1. SameRecords(ev) /\ Settled(ev) /\ \A v \in Workers : wev[v] = ev => Progress(v, ev)
    BY <1>4, Zenon DEF HonestInv
  <2>2. Untouched(ev)' => Untouched(ev)
    BY <1>3, <1>5, EvidenceHasKey, Zenon DEF Untouched
  <2>3. Settled(ev)'
    BY <1>3, <2>1, <2>2, Zenon DEF Settled, Quiet, SameRecords
  <2>4. ASSUME NEW v \in Workers, v # w, wev'[v] = ev  PROVE Progress(v, ev)'
    <3>1. wpc'[v] = wpc[v] /\ wdata'[v] = wdata[v] /\ verdict'[ev] = verdict[ev] /\ Progress(v, ev)
      BY <1>3, <1>5, <2>1, <2>4, Zenon
    <3> QED BY <2>1, <3>1, Zenon DEF Progress, Quiet, SameRecords
  <2>5. ev = e => Progress(w, ev)'
    <3>1. ev = e => Quiet(ev)' /\ ev \notin SentEvidences'
      BY <1>1, <2>1, Zenon DEF Settled, Quiet, SameRecords
    <3> QED BY <1>5, <3>1, Zenon DEF Progress, EarlyCounters
  <2> QED BY <1>5, <2>3, <2>4, <2>5, Zenon
<1> QED BY <1>6, Zenon DEF HonestInv

\* A worker that refuses its evidence has not told anybody of it.
LEMMA HonestRefused ==
  ASSUME Types, OwnerInv, HonestInv, NEW w \in Workers, Refused(w)  PROVE HonestInv'
<1>1. WorkTypes /\ AnswerTypes /\ SliceTypes
  BY Zenon DEF Types
<1>2. PICK e \in Evidences : wev[w] = e
  BY <1>1, Zenon DEF Refused, Refuse, WorkTypes
<1>3. /\ UNCHANGED <<verdict, announced, eVars, oVars, evidences, results>>
      /\ Reply(w, "failed") /\ Refuse(w)
  BY Zenon DEF Refused, Refuse, ByAssessment, sinkVars
<1>4. Settled(e)' /\ wev'[w] = Nobody
  <2>1. wev'[w] = Nobody
    BY <1>1, <1>3, Zenon DEF Reply, WorkTypes
  <2> QED BY <1>1, <1>2, <1>3, <2>1, HonestReplies, Zenon
<1>5. \A ev : SameRecords(ev)
  BY <1>3, RecordsStay, Zenon DEF SentEvidences, SentResults, eVars, oVars
<1>6. /\ \A v \in Workers : v # w => wpc'[v] = wpc[v] /\ wev'[v] = wev[v] /\ wdata'[v] = wdata[v]
      /\ \A ev \in Evidences : ev # e => status'[ev] = status[ev]
  BY <1>1, <1>2, <1>3, Zenon DEF Reply, Goto, WorkTypes, SliceTypes, AnswerTypes
<1>7. ASSUME NEW ev \in Evidences
      PROVE  Settled(ev)' /\ \A v \in Workers : wev'[v] = ev => Progress(v, ev)'
  <2>1. SameRecords(ev) /\ Settled(ev) /\ \A v \in Workers : wev[v] = ev => Progress(v, ev)
    BY <1>5, Zenon DEF HonestInv
  <2>2. ASSUME ev # e  PROVE Settled(ev)'
    <3>1. Untouched(ev)' => Untouched(ev)
      BY <1>2, <1>6, <2>2, Zenon DEF Untouched
    <3> QED BY <1>3, <1>6, <2>1, <2>2, <3>1, Zenon DEF Settled, Quiet, SameRecords
  <2>3. ASSUME NEW v \in Workers, wev'[v] = ev  PROVE Progress(v, ev)'
    <3>1. v # w /\ wpc'[v] = wpc[v] /\ wdata'[v] = wdata[v] /\ verdict'[ev] = verdict[ev] /\ Progress(v, ev)
      BY <1>3, <1>4, <1>6, <2>1, <2>3, EvidenceHasKey, Zenon
    <3> QED BY <2>1, <3>1, Zenon DEF Progress, Quiet, SameRecords
  <2>4. Settled(ev)'
    BY <1>4, <2>2, Zenon
  <2> QED BY <2>3, <2>4, Zenon
<1> QED BY <1>7, Zenon DEF HonestInv

\* Only the assessment changes what is sent to the evidence store and the orchestrator:
\* the network and the two receivers move it on or lose it.
LEMMA SentOnlyByWork ==
  ASSUME [Next]_vars
  PROVE  \/ SentEvidences' = SentEvidences /\ SentResults' = SentResults
         \/ \E w \in Workers : Work(w)
<1>1. ASSUME UNCHANGED <<eVars, oVars, sinkVars>>
      PROVE  SentEvidences' = SentEvidences /\ SentResults' = SentResults
  BY <1>1, Zenon DEF eVars, oVars, sinkVars, SentEvidences, SentResults
<1>2. CASE UNCHANGED vars \/ HandOverA \/ (\E s \in Calls : StartAny(s)) \/ (\E r \in Runs : RunAny(r))
  <2>1. UNCHANGED <<eVars, oVars, sinkVars>>
    BY <1>2, Zenon DEF vars, HandOverA, ByNetwork, StartAny, RunAny, ByDiscovery
  <2> QED BY <1>1, <2>1, Zenon
<1>3. CASE \/ \E m \in Metrics : NewMetric(m) \/ \E s \in Range(ServiceOf) : ChangeMetric(s, m)
           \/ \E w \in Workers : ReceiveAny(w) \/ AssessAny(w) \/ Refused(w)
  <2>1. UNCHANGED <<eVars, oVars, sinkVars>>
    BY <1>3, Zenon DEF NewMetric, ChangeMetric, CreateMetric, ProvideMetric, ReceiveAny, AssessAny,
                       Receive, AssessEvidence, Begin, Refused, Refuse, ByAssessment
  <2> QED BY <1>1, <2>1, Zenon
<1>4. CASE StoreEvidence
  <2>1. PICK ev \in eHanded : S!StoreEvidence(ev)
    BY <1>4, Zenon DEF StoreEvidence
  <2>2. /\ UNCHANGED <<oHeld, oHanded, oGone, results, eHeld>> /\ eHanded' = eHanded \ {ev}
        /\ \/ evidences' = evidences \cup {ev} /\ UNCHANGED eGone
           \/ eGone' = eGone \cup {ev} /\ UNCHANGED evidences
    BY <2>1, Zenon DEF S!StoreEvidence, S!E!Take, S!E!Drop
  <2> QED BY <2>1, <2>2, Zenon DEF SentEvidences, SentResults
<1>5. CASE StoreResult
  <2>1. PICK res \in oHanded : S!StoreAssessmentResult(res)
    BY <1>5, Zenon DEF StoreResult
  <2>2. /\ UNCHANGED <<eHeld, eHanded, eGone, evidences, oHeld>> /\ oHanded' = oHanded \ {res}
        /\ \/ results' = results \cup {res} /\ UNCHANGED oGone
           \/ oGone' = oGone \cup {res} /\ UNCHANGED results
    BY <2>1, Zenon DEF S!StoreAssessmentResult, S!O!Take, S!O!Drop
  <2> QED BY <2>1, <2>2, Zenon DEF SentEvidences, SentResults
<1>6. CASE HandOverE
  <2>1. /\ \E ev \in eHeld : eHeld' = eHeld \ {ev} /\ eHanded' = eHanded \cup {ev}
        /\ UNCHANGED <<eGone, evidences, oHeld, oHanded, oGone, results>>
    BY <1>6, Zenon DEF HandOverE, E!HandOver, ByNetwork, sinkVars, oVars
  <2> QED BY <2>1, Zenon DEF SentEvidences, SentResults
<1>7. CASE HandOverO
  <2>1. /\ \E res \in oHeld : oHeld' = oHeld \ {res} /\ oHanded' = oHanded \cup {res}
        /\ UNCHANGED <<oGone, results, eHeld, eHanded, eGone, evidences>>
    BY <1>7, Zenon DEF HandOverO, O!HandOver, ByNetwork, sinkVars, eVars
  <2> QED BY <2>1, Zenon DEF SentEvidences, SentResults
<1>8. CASE Break
  <2>1. /\ UNCHANGED <<evidences, results, eHeld, oHeld>>
        /\ UNCHANGED <<eHanded, eGone>> \/ (eGone' = eGone \cup eHanded /\ eHanded' = {})
        /\ UNCHANGED <<oHanded, oGone>> \/ (oGone' = oGone \cup oHanded /\ oHanded' = {})
    BY <1>8, Zenon DEF Break, A!Break, E!Break, O!Break, ByNetwork, sinkVars, eVars, oVars
  <2> QED BY <2>1, Zenon DEF SentEvidences, SentResults
<1> QED BY <1>2, <1>3, <1>4, <1>5, <1>6, <1>7, <1>8, Zenon DEF Next

\* The steps of the others change nothing that HonestInv is about.
LEMMA HonestMove ==
  ASSUME HonestInv, UNCHANGED <<wpc, wev, wdata, status, verdict, announced>>,
         SentEvidences' = SentEvidences, SentResults' = SentResults
  PROVE  HonestInv'
<1>1. \A ev : SameRecords(ev)
  BY RecordsStay, Zenon
<1>2. \A ev : Untouched(ev)' = Untouched(ev)
  BY Zenon DEF Untouched
<1>3. \A ev \in Evidences : Settled(ev)'
  BY <1>1, <1>2, Zenon DEF HonestInv, Settled, Quiet, SameRecords
<1>4. ASSUME NEW ev \in Evidences, NEW w \in Workers, wev'[w] = ev  PROVE Progress(w, ev)'
  <2>1. Progress(w, ev) /\ SameRecords(ev)
    BY <1>1, <1>4, Zenon DEF HonestInv
  <2> QED BY <2>1, Zenon DEF Progress, Quiet, SameRecords
<1> QED BY <1>3, <1>4, Zenon DEF HonestInv

\* HonestInv is an invariant.
LEMMA HonestInvariant == Spec => [](Types /\ OwnerInv /\ OnceInv /\ HonestInv)
<1>1. Init => HonestInv
  <2> SUFFICES ASSUME Init  PROVE HonestInv
    BY Zenon
  <2>1. SentEvidences = {} /\ SentResults = {} /\ announced = {}
    BY Zenon DEF Init, AssessmentInit, E!Init, O!Init, S!Init, SentEvidences, SentResults
  <2>2. /\ \A w \in Workers : wev[w] = Nobody
        /\ \A ev \in Evidences : status[ev] = "new"
    BY Zenon DEF Init, AssessmentInit
  <2>3. \A ev \in Evidences : Quiet(ev)
    BY <2>1, Zenon DEF Quiet, Sent, Told
  <2> QED BY <2>1, <2>2, <2>3, EvidenceHasKey, Zenon DEF HonestInv, Settled
<1>2. Types /\ OwnerInv /\ OnceInv /\ HonestInv /\ [Next]_vars => HonestInv'
  <2> SUFFICES ASSUME Types, OwnerInv, OnceInv, HonestInv, [Next]_vars  PROVE HonestInv'
    BY Zenon
  <2>1. CASE \E w \in Workers : ReceiveAny(w) \/ AssessAny(w) \/ Refused(w) \/ Work(w)
    BY <2>1, HonestBegin, HonestRefused, HonestWork, Zenon
  <2>2. CASE ~\E w \in Workers : ReceiveAny(w) \/ AssessAny(w) \/ Refused(w) \/ Work(w)
    <3>1. UNCHANGED <<wpc, wev, wdata, status, verdict, announced>>
      BY <2>2, AssessmentSteps, Zenon
         DEF assessmentVars, workVars, NewMetric, CreateMetric, ChangeMetric, ProvideMetric
    <3> QED BY <2>2, <3>1, SentOnlyByWork, HonestMove, Zenon
  <2> QED BY <2>1, <2>2, Zenon
<1> QED BY <1>1, <1>2, OwnerInvariant, OnceInvariant, PTL DEF Spec

\* AnswerIsHonest: ASSESSED means that the result of every metric Eval returned was sent
\* and announced, FAILED that none was (handleEvidence, informHooks).
THEOREM AnswersAreHonest == Spec => []AnswerIsHonest
<1>1. HonestInv => AnswerIsHonest
  BY Zenon DEF HonestInv, Settled, AnswerIsHonest, Sent, Told
<1> QED BY <1>1, HonestInvariant, PTL
-----------------------------------------------------------------------------
(***************************************************************************)
(* The hops do what a message channel promises                             *)
(***************************************************************************)
\* No run sends an evidence that is still on its way to the assessment.
LEMMA StepOfHopA ==
  ASSUME Types, OwnerInv, [Next]_vars  PROVE RA!Next \/ UNCHANGED <<aHeld, aHanded>>
<1>1. ASSUME NEW r \in Runs, RunAny(r)  PROVE RA!Next \/ UNCHANGED <<aHeld, aHanded>>
  <2>1. ASSUME NEW x \in Resources, Unsent(r, x), aHeld' = aHeld \cup {<<r, x>>}, UNCHANGED aHanded
        PROVE  RA!Next
    <3>1. <<r, x>> \in Evidences
      BY DiscoverersAssumption, Zenon
    <3>2. <<r, x>> \notin aHeld \cup aHanded
      BY <2>1, Zenon DEF OwnerInv, InHopA
    <3> QED BY <2>1, <3>1, <3>2, Zenon DEF RA!Next, RA!Accept
  <2>2. RunTypes
    BY Zenon DEF Types
  <2> QED BY <1>1, <2>1, <2>2, RunShape, Zenon
<1>2. ASSUME NEW w \in Workers, ReceiveAny(w) \/ AssessAny(w)
      PROVE  RA!Next \/ UNCHANGED <<aHeld, aHanded>>
  <2>1. HopTypes
    BY Zenon DEF Types
  <2>2. UNCHANGED aHeld /\ aHanded' \subseteq aHanded
    BY <1>2, <2>1, BeginShape, Zenon
  <2> QED BY <2>2, Zenon DEF RA!Next, RA!Leave
<1>3. ASSUME NEW w \in Workers, Refused(w) \/ Work(w)  PROVE UNCHANGED <<aHeld, aHanded>>
  BY <1>3, WorkShape, Zenon DEF Types, Refused, Refuse, Work, aVars
<1>4. HandOverA => RA!Next
  BY NetworkShape, Zenon DEF Types, HopTypes, RA!Next, RA!HandOver
<1>5. Break => RA!Next
  BY NetworkShape, Zenon DEF RA!Next, RA!Leave
<1> QED BY <1>1, <1>2, <1>3, <1>4, <1>5, OtherSteps, Zenon

\* No worker sends an evidence that is still on its way to the evidence store.
LEMMA StepOfHopE ==
  ASSUME Types, HonestInv, [Next]_vars  PROVE RE!Next \/ UNCHANGED <<eHeld, eHanded>>
<1>1. ASSUME NEW w \in Workers, Work(w)  PROVE RE!Next \/ UNCHANGED <<eHeld, eHanded>>
  <2>1. WorkTypes /\ WorkStep(w) /\ wev[w] \in Evidences
    BY <1>1, WorkShape, Zenon DEF Types, Work
  <2>2. wpc[w] = "store" => wev[w] \notin eHeld \cup eHanded
    BY <2>1, Zenon DEF HonestInv, Progress, SentEvidences
  <2> QED BY <2>1, <2>2, WorkHops, Zenon DEF RE!Next, RE!Accept
<1>2. ASSUME \/ \E r \in Runs : RunAny(r)
             \/ \E w \in Workers : ReceiveAny(w) \/ AssessAny(w)
             \/ HandOverA \/ HandOverO
      PROVE  UNCHANGED <<eHeld, eHanded>>
  BY <1>2, Zenon DEF RunAny, ByDiscovery, ReceiveAny, AssessAny, Receive, AssessEvidence, Begin,
                     HandOverA, HandOverO, eVars
<1>3. StoreEvidence \/ StoreResult \/ Break => RE!Next
  BY NetworkShape, Zenon DEF RE!Next, RE!Leave
<1>4. HandOverE => RE!Next
  BY NetworkShape, Zenon DEF Types, HopTypes, RE!Next, RE!HandOver
<1> QED BY <1>1, <1>2, <1>3, <1>4, HopSteps, Zenon

\* No worker sends a result that is still on its way to the orchestrator.
LEMMA StepOfHopO ==
  ASSUME Types, HonestInv, [Next]_vars  PROVE RO!Next \/ UNCHANGED <<oHeld, oHanded>>
<1>1. ASSUME NEW w \in Workers, Work(w)  PROVE RO!Next \/ UNCHANGED <<oHeld, oHanded>>
  <2> DEFINE m == Head(wdata[w])
  <2>1. WorkTypes /\ SliceTypes /\ WorkStep(w) /\ wev[w] \in Evidences
    BY <1>1, WorkShape, Zenon DEF Types, Work
  <2>2. ASSUME wpc[w] = "results", wdata[w] # <<>>
        PROVE  <<wev[w], m>> \in Results /\ <<wev[w], m>> \notin oHeld \cup oHanded
    <3>1. wdata[w] \in Seq(Metrics)
      BY <2>1, Zenon DEF SliceTypes
    <3>2. m \in Metrics /\ m \in Range(wdata[w])
      BY <2>2, <3>1, RangeOfTail, Zenon
    <3>3. m \notin Sent(wev[w])
      BY <2>1, <2>2, <3>2, Zenon DEF HonestInv, Progress
    <3> QED BY <2>1, <3>2, <3>3, Zenon DEF Sent, SentResults, Results
  <2> QED BY <2>1, <2>2, WorkHops, Zenon DEF RO!Next, RO!Accept
<1>2. ASSUME \/ \E r \in Runs : RunAny(r)
             \/ \E w \in Workers : ReceiveAny(w) \/ AssessAny(w)
             \/ HandOverA \/ HandOverE
      PROVE  UNCHANGED <<oHeld, oHanded>>
  BY <1>2, Zenon DEF RunAny, ByDiscovery, ReceiveAny, AssessAny, Receive, AssessEvidence, Begin,
                     HandOverA, HandOverE, oVars
<1>3. StoreEvidence \/ StoreResult \/ Break => RO!Next
  BY NetworkShape, Zenon DEF RO!Next, RO!Leave
<1>4. HandOverO => RO!Next
  BY NetworkShape, Zenon DEF Types, HopTypes, RO!Next, RO!HandOver
<1> QED BY <1>1, <1>2, <1>3, <1>4, HopSteps, Zenon

\* HopsRelay: each of the three connections of the pipeline does what a message channel
\* promises.  Nothing is accepted twice while it is on its way, nothing goes back from a
\* stream to the channel, and nothing appears that was not sent.
THEOREM PipelineHopsRelay == Spec => HopsRelay
<1>1. Init => RA!Init /\ RE!Init /\ RO!Init
  BY Zenon DEF Init, DiscoveryInit, AssessmentInit, A!Init, E!Init, O!Init, RA!Init, RE!Init, RO!Init
<1>2. Types /\ OwnerInv /\ OnceInv /\ HonestInv /\ [Next]_vars =>
        /\ [RA!Next]_<<aHeld, aHanded>>
        /\ [RE!Next]_<<eHeld, eHanded>>
        /\ [RO!Next]_<<oHeld, oHanded>>
  BY StepOfHopA, StepOfHopE, StepOfHopO, Zenon
<1> QED BY <1>1, <1>2, HonestInvariant, PTL DEF Spec, HopsRelay, RA!Spec, RE!Spec, RO!Spec
-----------------------------------------------------------------------------
(***************************************************************************)
(* Evidences go before their results                                       *)
(***************************************************************************)
\* A worker gets to the orchestrator by way of the evidence store.
LEMMA WorkersPassStore ==
  ASSUME WorkTypes, ~StoreDisabled, NEW w \in Workers, WorkStep(w),
         wpc'[w] \in {"orchestrator", "results"}
  PROVE  wev'[w] = wev[w] /\ (wpc[w] \in {"orchestrator", "results"} \/ wev[w] \in eHeld')
<1>1. CASE SendToStore(w)
  <2>1. eHeld' = eHeld \cup {wev[w]} /\ UNCHANGED wev
    BY <1>1, Zenon DEF SendToStore, E!Accept
  <2> QED BY <2>1, Zenon
<1>2. CASE OpenOrchestrator(w) \/ SendResult(w)
  BY <1>2, Zenon DEF OpenOrchestrator, SendResult
<1>3. CASE ~SendToStore(w) /\ ~OpenOrchestrator(w) /\ ~SendResult(w)
  <2>1. \E pc \in EarlyCounters \cup {"idle", "store"} : wpc' = [wpc EXCEPT ![w] = pc]
    <3>1. CASE FillOne(w) \/ HitOne(w)
      BY <3>1, Zenon DEF FillOne, HitOne, EarlyCounters, WorkTypes
    <3>2. CASE ~FillOne(w) /\ ~HitOne(w)
      BY <1>3, <3>2, Zenon
         DEF WorkStep, Lookup, ListMetrics, ListMetricsFails, LockList, FillFails, FillDone,
             HitFails, HitDone, StoreStreamFails, OrchestratorStreamFails, Assessed, Fail, Reply,
             Goto, EarlyCounters
    <3> QED BY <3>1, <3>2, Zenon
  <2> QED BY <2>1, Zenon DEF WorkTypes, EarlyCounters
<1> QED BY <1>1, <1>2, <1>3, Zenon

\* Every step of a worker keeps OrderInv.
LEMMA WorkersKeepOrder ==
  ASSUME Types, ~StoreDisabled, OrderInv, NEW w \in Workers, Work(w)  PROVE OrderInv'
<1>1. WorkTypes /\ SliceTypes /\ WorkStep(w) /\ UNCHANGED <<evidences, results>>
  BY Zenon DEF Types, Work, ByAssessment, sinkVars
<1>2. SentEvidences \subseteq SentEvidences' /\ eHeld' \subseteq SentEvidences'
  BY <1>1, WorkHops, Zenon DEF SentEvidences
<1>3. \A v \in Workers : v # w => wpc'[v] = wpc[v] /\ wev'[v] = wev[v]
  BY <1>1, OtherWorkers, Zenon
<1>4. wpc'[w] \in {"orchestrator", "results"} => wev'[w] \in SentEvidences'
  BY <1>1, <1>2, WorkersPassStore, Zenon DEF OrderInv, PassedStore
<1>5. PassedStore'
  BY <1>2, <1>3, <1>4, Zenon DEF OrderInv, PassedStore
<1>6. SentResults' = SentResults \/
        (wpc[w] = "results" /\ SentResults' = SentResults \cup {<<wev[w], Head(wdata[w])>>})
  BY <1>1, WorkHops, Zenon DEF SentResults
<1>7. \A res \in SentResults' : res[1] \in SentEvidences'
  <2>1. wpc[w] = "results" => wev[w] \in SentEvidences
    BY Zenon DEF OrderInv, PassedStore
  <2> QED BY <1>2, <1>6, <2>1 DEF OrderInv
<1> QED BY <1>5, <1>7, Zenon DEF OrderInv

\* Every step of the pipeline keeps OrderInv.
LEMMA OrderInvInductive ==
  ASSUME Types, ~StoreDisabled, OrderInv, [Next]_vars  PROVE OrderInv'
<1>1. CASE \E w \in Workers : Work(w)
  BY <1>1, WorkersKeepOrder, Zenon
<1>2. CASE ~\E w \in Workers : Work(w)
  <2>1. SentEvidences' = SentEvidences /\ SentResults' = SentResults
    BY <1>2, SentOnlyByWork, Zenon
  <2>2. ASSUME NEW w \in Workers, ReceiveAny(w) \/ AssessAny(w) \/ Refused(w)  PROVE PassedStore'
    <3>1. /\ \E pc \in {"lookup", "idle"} : wpc' = [wpc EXCEPT ![w] = pc]
          /\ \E ev : wev' = [wev EXCEPT ![w] = ev]
      BY <2>2, Zenon DEF ReceiveAny, AssessAny, Refused, Receive, AssessEvidence, Refuse, Begin,
                         Reply, Goto
    <3>2. \A v \in Workers : wpc'[v] \in {"orchestrator", "results"} =>
            wpc'[v] = wpc[v] /\ wev'[v] = wev[v]
      BY <3>1, Zenon DEF Types, WorkTypes
    <3> QED BY <2>1, <3>2, Zenon DEF OrderInv, PassedStore
  <2>3. CASE ~\E w \in Workers : ReceiveAny(w) \/ AssessAny(w) \/ Refused(w)
    <3>1. UNCHANGED <<wpc, wev>>
      BY <1>2, <2>3, AssessmentSteps, Zenon
         DEF assessmentVars, workVars, NewMetric, CreateMetric, ChangeMetric, ProvideMetric
    <3> QED BY <2>1, <3>1, Zenon DEF OrderInv, PassedStore
  <2> QED BY <2>1, <2>2, <2>3, Zenon DEF OrderInv
<1> QED BY <1>1, <1>2, Zenon

\* EvidenceBeforeResults: a result goes to the orchestrator only after its evidence went to
\* the evidence store, unless the evidence store is disabled (handleEvidence).
THEOREM EvidenceGoesFirst == Spec => []EvidenceBeforeResults
<1> DEFINE I == StoreDisabled \/ OrderInv
<1>1. Init => I
  <2> SUFFICES ASSUME Init  PROVE OrderInv
    BY Zenon
  <2>1. SentResults = {} /\ \A w \in Workers : wpc[w] = "idle"
    BY Zenon DEF Init, AssessmentInit, O!Init, S!Init, SentResults
  <2> QED BY <2>1, Zenon DEF OrderInv, PassedStore
<1>2. Types /\ I /\ [Next]_vars => I'
  BY OrderInvInductive, Zenon
<1>3. I => EvidenceBeforeResults
  BY Zenon DEF OrderInv, EvidenceBeforeResults
<1> HIDE DEF I
<1> QED BY <1>1, <1>2, <1>3, TypesInvariant, PTL DEF Spec
-----------------------------------------------------------------------------
(***************************************************************************)
(* Every metric is assessed once                                           *)
(***************************************************************************)
\* Whether a metric always counts depends on what is usable only.
LEMMA AlwaysStays ==
  ASSUME UNCHANGED usable  PROVE \A k, m : Always(k, m)' = Always(k, m)
  BY Zenon DEF Always

\* evalMap has a result for a metric that always counts.
LEMMA AlwaysHasResult ==
  ASSUME NEW w \in Workers, NEW e \in Evidences, wev[w] = e, NEW m \in Metrics,
         Always(KeyOf[e[2]], m)
  PROVE  EvalMap(w, m) = "result" /\ m \in Range(InitialMetrics)
<1>1. e[2] \in DOMAIN KeyOf /\ e[2] \in DOMAIN ServiceOf
  BY AssessmentAssumption, Zenon
<1>2. ServiceOf[e[2]] \in Range(ServiceOf)
  BY <1>1, Zenon DEF Range
<1>3. <<ServiceOf[e[2]], m>> \in usable /\ <<m, e[2]>> \in Applies
  BY <1>1, <1>2, Zenon DEF Always
<1>4. m \in Range(InitialMetrics)
  BY Zenon DEF Always
<1> QED BY <1>3, <1>4, Zenon DEF EvalMap

\* The next metric of a list is collected when it has a result.
LEMMA CoverNextMetric ==
  ASSUME WorkTypes, SliceTypes, NEW w \in Workers, FillOne(w) \/ HitOne(w),
         NEW e \in Evidences, wev[w] = e, NEW m \in Metrics, EvalMap(w, m) = "result",
         Counted(w, e, m)
  PROVE  Counted(w, e, m)'
<1> DEFINE h == Head(wleft[w])
<1>1. /\ wleft[w] # <<>> /\ wpc[w] \in {"fill", "hit"} /\ UNCHANGED wpc
      /\ wleft' = [wleft EXCEPT ![w] = Tail(@)]
      /\ \E q : /\ EvalMap(w, h) = "result" => q = Append(wdata[w], h)
                /\ EvalMap(w, h) # "result" => q = wdata[w]
                /\ wdata' = [wdata EXCEPT ![w] = q]
      /\ wpc[w] = "fill" =>
           \E q : /\ EvalMap(w, h) = "result" => q = Append(wfill[w], h)
                  /\ EvalMap(w, h) # "result" => q = wfill[w]
                  /\ wfill' = [wfill EXCEPT ![w] = q]
  <2>1. CASE FillOne(w)
    BY <2>1, Zenon DEF FillOne
  <2>2. CASE HitOne(w)
    BY <2>2, Zenon DEF HitOne
  <2> QED BY <2>1, <2>2, Zenon
<1>2. /\ wleft'[w] = Tail(wleft[w])
      /\ IF EvalMap(w, h) = "result" THEN wdata'[w] = Append(wdata[w], h) ELSE wdata'[w] = wdata[w]
      /\ wpc[w] = "fill" =>
           IF EvalMap(w, h) = "result" THEN wfill'[w] = Append(wfill[w], h) ELSE wfill'[w] = wfill[w]
  BY <1>1, Zenon DEF SliceTypes
<1>3. /\ wleft[w] \in Seq(Metrics) /\ wfill[w] \in Seq(Metrics) /\ wdata[w] \in Seq(Metrics)
  BY Zenon DEF SliceTypes
<1>4. /\ h \in Metrics /\ Range(wleft[w]) = {h} \cup Range(Tail(wleft[w]))
      /\ Range(Append(wfill[w], h)) = Range(wfill[w]) \cup {h}
      /\ Range(Append(wdata[w], h)) = Range(wdata[w]) \cup {h}
  <2>1. h \in Metrics /\ Range(wleft[w]) = {h} \cup Range(Tail(wleft[w]))
    BY <1>1, <1>3, RangeOfTail, Zenon
  <2> HIDE DEF h
  <2>2. \A q \in Seq(Metrics) : Range(Append(q, h)) = Range(q) \cup {h}
    BY <2>1, RangeOfAppend, SMTT(20)
  <2> QED BY <1>3, <2>1, <2>2, Zenon
<1>5. wpc[w] = "fill" => m \in Range(wleft'[w]) \cup Range(wfill'[w])
  BY <1>2, <1>4, Zenon DEF Counted
<1>6. m \in Range(wleft'[w]) \cup Range(wdata'[w])
  BY <1>1, <1>2, <1>4, Zenon DEF Counted
<1> QED BY <1>1, <1>5, <1>6, Zenon DEF Counted

\* A metric that always counts stays counted while its worker goes on.
LEMMA CoverGoesOn ==
  ASSUME WorkTypes, SliceTypes, AnswerTypes, known = InitialMetrics, ListsCover,
         NEW w \in Workers, WorkStep(w), NEW e \in Evidences, wev[w] = e, wev'[w] = e,
         NEW m \in Metrics, Always(KeyOf[e[2]], m), Counted(w, e, m)
  PROVE  Counted(w, e, m)'
<1>1. EvalMap(w, m) = "result" /\ m \in Range(InitialMetrics)
  BY AlwaysHasResult, Zenon
<1>2. CASE Lookup(w)
  <2>1. /\ \/ wpc'[w] = "metrics"
           \/ wpc'[w] = "hit" /\ mrtc[KeyAt(w)] # NoList /\ wleft'[w] = mrtc[KeyAt(w)]
    BY <1>2, Zenon DEF Lookup, Goto, WorkTypes, SliceTypes
  <2>2. KeyAt(w) \in Keys /\ KeyAt(w) = KeyOf[e[2]]
    BY EvidenceHasKey, Zenon DEF KeyAt
  <2> QED BY <2>1, <2>2, Zenon DEF Counted, ListsCover
<1>3. CASE ListMetrics(w)
  <2>1. wpc'[w] = "lock" /\ wleft'[w] = known
    BY <1>3, Zenon DEF ListMetrics, Goto, WorkTypes, SliceTypes
  <2> QED BY <1>1, <2>1, Zenon DEF Counted
<1>4. CASE LockList(w)
  <2>1. wpc[w] = "lock" /\ wpc'[w] = "fill" /\ UNCHANGED wleft
    BY <1>4, Zenon DEF LockList, Goto, WorkTypes
  <2> QED BY <2>1, Zenon DEF Counted
<1>5. CASE FillOne(w) \/ HitOne(w)
  BY <1>1, <1>5, CoverNextMetric, Zenon
<1>6. CASE FillDone(w) \/ HitDone(w)
  <2>1. /\ wpc[w] \in {"fill", "hit"} /\ wleft[w] = <<>> /\ wpc'[w] = "store"
        /\ verdict'[e] = Range(wdata[w])
    BY <1>6, Zenon DEF FillDone, HitDone, Goto, WorkTypes, AnswerTypes
  <2>2. m \in verdict'[e]
    BY <2>1, RangeOfEmpty, Zenon DEF Counted
  <2> QED BY <2>1, <2>2, Zenon DEF Counted
<1>7. CASE SendToStore(w) \/ OpenOrchestrator(w) \/ SendResult(w)
  <2>1. /\ wpc[w] \in {"store", "orchestrator", "results"} /\ UNCHANGED verdict
        /\ wpc'[w] \in {"store", "orchestrator", "results"}
    BY <1>7, Zenon DEF SendToStore, OpenOrchestrator, SendResult, Goto, WorkTypes
  <2> QED BY <2>1, Zenon DEF Counted
<1>8. CASE \/ ListMetricsFails(w) \/ FillFails(w) \/ HitFails(w) \/ StoreStreamFails(w)
           \/ OrchestratorStreamFails(w) \/ Assessed(w)
  <2>1. wev' = [wev EXCEPT ![w] = Nobody]
    BY <1>8, Zenon DEF ListMetricsFails, FillFails, HitFails, StoreStreamFails,
                       OrchestratorStreamFails, Assessed, Fail, Reply
  <2> QED BY <2>1, EvidenceHasKey, Zenon DEF WorkTypes
<1> QED BY <1>2, <1>3, <1>4, <1>5, <1>6, <1>7, <1>8, Zenon DEF WorkStep

\* A list is stored when all metrics were tried, and covers what always counts.
LEMMA CoverLists ==
  ASSUME WorkTypes, SliceTypes, ListsCover, NEW w \in Workers, WorkStep(w),
         NEW e \in Evidences, wev[w] = e, Covered(e)
  PROVE  ListsCover'
<1>1. UNCHANGED usable /\ KeyAt(w) = KeyOf[e[2]] /\ KeyAt(w) \in Keys
  BY WorkShape, EvidenceHasKey, Zenon DEF metricVars, KeyAt
<1>2. \A k, m : Always(k, m)' = Always(k, m)
  BY <1>1, AlwaysStays, Zenon
<1>3. \/ UNCHANGED mrtc
      \/ mrtc' = [mrtc EXCEPT ![KeyAt(w)] = NoList]
      \/ wpc[w] = "fill" /\ wleft[w] = <<>> /\ mrtc' = [mrtc EXCEPT ![KeyAt(w)] = wfill[w]]
  BY Zenon DEF WorkStep, Lookup, ListMetrics, ListMetricsFails, LockList, FillOne, FillFails,
               FillDone, HitOne, HitFails, HitDone, SendToStore, StoreStreamFails,
               OpenOrchestrator, OrchestratorStreamFails, SendResult, Assessed, listVars
<1>4. CASE UNCHANGED mrtc
  BY <1>2, <1>4, Zenon DEF ListsCover
<1>5. CASE mrtc' = [mrtc EXCEPT ![KeyAt(w)] = NoList]
  <2>1. \A k \in Keys : mrtc'[k] \in {mrtc[k], NoList}
    BY <1>1, <1>5, Zenon DEF SliceTypes
  <2> QED BY <1>2, <2>1, Zenon DEF ListsCover
<1>6. CASE wpc[w] = "fill" /\ wleft[w] = <<>> /\ mrtc' = [mrtc EXCEPT ![KeyAt(w)] = wfill[w]]
  <2>1. \A k \in Keys : IF k = KeyAt(w) THEN mrtc'[k] = wfill[w] ELSE mrtc'[k] = mrtc[k]
    BY <1>1, <1>6, Zenon DEF SliceTypes
  <2>2. \A m \in Metrics : Always(KeyAt(w), m) => m \in Range(wfill[w])
    BY <1>1, <1>6, RangeOfEmpty, Zenon DEF Covered, Counted
  <2> QED BY <1>2, <2>1, <2>2, Zenon DEF ListsCover
<1> QED BY <1>3, <1>4, <1>5, <1>6, Zenon

\* Every step of a worker keeps CoverInv.
LEMMA CoverWork ==
  ASSUME Types, OwnerInv, CoverInv, NEW w \in Workers, Work(w)  PROVE CoverInv'
<1>1. WorkTypes /\ SliceTypes /\ AnswerTypes /\ WorkStep(w) /\ UNCHANGED <<known, usable, changes>>
  BY WorkShape, Zenon DEF Types, Work, metricVars
<1>2. CASE changes # 0
  BY <1>1, <1>2, Zenon DEF CoverInv
<1>3. CASE changes = 0
  <2>1. known = InitialMetrics /\ ListsCover /\ \A ev \in Evidences : Covered(ev)
    BY <1>3, Zenon DEF CoverInv
  <2>2. PICK e \in Evidences : wev[w] = e
    BY <1>1, WorkShape, Zenon
  <2>3. ListsCover'
    BY <1>1, <2>1, <2>2, CoverLists, Zenon
  <2>4. /\ \A k, m : Always(k, m)' = Always(k, m)
        /\ \A v \in Workers : v # w => wev[v] # e
        /\ wev'[w] \in {e, Nobody} /\ status[e] = "new"
    <3>1. \A k, m : Always(k, m)' = Always(k, m)
      BY <1>1, AlwaysStays, Zenon
    <3>2. \A v \in Workers : v # w => wev[v] # e
      BY <2>2, EvidenceHasKey, Zenon DEF OwnerInv
    <3>3. wev'[w] \in {e, Nobody}
      BY <1>1, <2>2, WorkShape, Zenon DEF WorkTypes
    <3>4. status[e] = "new"
      BY <2>2, EvidenceHasKey, Zenon DEF OwnerInv
    <3> QED BY <3>1, <3>2, <3>3, <3>4, Zenon
  <2>5. \A v \in Workers : v # w =>
          /\ wpc'[v] = wpc[v] /\ wev'[v] = wev[v]
          /\ wleft'[v] = wleft[v] /\ wfill'[v] = wfill[v] /\ wdata'[v] = wdata[v]
    BY <1>1, OtherWorkers, Zenon
  <2>6. ASSUME NEW ev \in Evidences, ev # e  PROVE Covered(ev)'
    <3>1. verdict'[ev] = verdict[ev] /\ status'[ev] = status[ev] /\ Covered(ev)
      BY <1>1, <2>1, <2>2, <2>6, OtherAnswers, Zenon
    <3>2. \A v \in Workers : wev'[v] = ev => v # w
      BY <2>4, <2>6, EvidenceHasKey, Zenon
    <3>3. \A v \in Workers, m \in Metrics : wev'[v] = ev => wev[v] = ev /\ (Counted(v, ev, m) => Counted(v, ev, m)')
      BY <2>5, <3>1, <3>2, Zenon DEF Counted
    <3> QED BY <2>4, <3>1, <3>3, Zenon DEF Covered
  <2>7. Covered(e)'
    <3>1. ASSUME NEW m \in Metrics, Always(KeyOf[e[2]], m), status'[e] = "assessed"
          PROVE  m \in verdict'[e]
      <4>1. CASE Assessed(w)
        <5>1. wpc[w] = "results" /\ UNCHANGED verdict
          BY <4>1, Zenon DEF Assessed
        <5>2. Counted(w, e, m)
          BY <2>1, <2>2, <3>1, Zenon DEF Covered
        <5> QED BY <5>1, <5>2, Zenon DEF Counted
      <4>2. CASE ~Assessed(w)
        <5>1. UNCHANGED status \/ status' = [status EXCEPT ![e] = "failed"]
          BY <1>1, <2>2, <4>2, ZenonT(30)
             DEF WorkStep, Lookup, ListMetrics, ListMetricsFails, LockList, FillOne, FillFails,
                 FillDone, HitOne, HitFails, HitDone, SendToStore, StoreStreamFails,
                 OpenOrchestrator, OrchestratorStreamFails, SendResult, Fail, Reply
        <5> QED BY <1>1, <2>4, <3>1, <5>1, Zenon DEF AnswerTypes
      <4> QED BY <4>1, <4>2, Zenon
    <3>2. ASSUME NEW m \in Metrics, Always(KeyOf[e[2]], m), wev'[w] = e
          PROVE  Counted(w, e, m)'
      <4>1. Counted(w, e, m)
        BY <2>1, <2>2, <3>2, Zenon DEF Covered
      <4> QED BY <1>1, <2>1, <2>2, <3>2, <4>1, CoverGoesOn, Zenon
    <3>3. \A v \in Workers : wev'[v] = e => v = w
      BY <2>4, <2>5, Zenon
    <3> QED BY <2>4, <3>1, <3>2, <3>3, Zenon DEF Covered
  <2> QED BY <1>1, <2>1, <2>3, <2>6, <2>7, Zenon DEF CoverInv
<1> QED BY <1>2, <1>3, Zenon

\* So do steps that end no assessment and leave the lists of metrics alone.
LEMMA CoverMove ==
  ASSUME CoverInv, UNCHANGED <<metricVars, mrtc, verdict>>,
         \A ev \in Evidences : status'[ev] = "assessed" => status[ev] = "assessed",
         \A w \in Workers : \/ wev'[w] = Nobody
                            \/ wpc'[w] = "lookup"
                            \/ /\ wpc'[w] = wpc[w] /\ wev'[w] = wev[w] /\ wleft'[w] = wleft[w]
                               /\ wfill'[w] = wfill[w] /\ wdata'[w] = wdata[w]
  PROVE  CoverInv'
<1>1. UNCHANGED <<known, usable, changes>>
  BY Zenon DEF metricVars
<1>2. \A k, m : Always(k, m)' = Always(k, m)
  BY <1>1, AlwaysStays, Zenon
<1>3. ListsCover => ListsCover'
  BY <1>2, Zenon DEF ListsCover
<1>4. ASSUME NEW ev \in Evidences, Covered(ev)  PROVE Covered(ev)'
  <2>1. \A w \in Workers, m \in Metrics : wpc'[w] = "lookup" => Counted(w, ev, m)'
    BY Zenon DEF Counted
  <2>2. \A w \in Workers, m \in Metrics :
          /\ wpc'[w] = wpc[w] /\ wleft'[w] = wleft[w] /\ wfill'[w] = wfill[w] /\ wdata'[w] = wdata[w]
          /\ Counted(w, ev, m)
          => Counted(w, ev, m)'
    BY Zenon DEF Counted
  <2>3. ASSUME NEW w \in Workers, wev'[w] = ev, NEW m \in Metrics, Always(KeyOf[ev[2]], m)
        PROVE  Counted(w, ev, m)'
    BY <1>4, <2>1, <2>2, <2>3, EvidenceHasKey, Zenon DEF Covered
  <2>4. ASSUME NEW m \in Metrics, Always(KeyOf[ev[2]], m), status'[ev] = "assessed"
        PROVE  m \in verdict'[ev]
    BY <1>4, <2>4, Zenon DEF Covered
  <2> QED BY <1>2, <2>3, <2>4, Zenon DEF Covered
<1> QED BY <1>1, <1>3, <1>4, Zenon DEF CoverInv

\* A worker that begins or refuses, or a change of a metric, keeps CoverInv.
LEMMA CoverOthers ==
  ASSUME Types, CoverInv,
         \/ \E w \in Workers : ReceiveAny(w) \/ AssessAny(w) \/ Refused(w)
         \/ \E m \in Metrics : NewMetric(m) \/ \E s \in Range(ServiceOf) : ChangeMetric(s, m)
  PROVE  CoverInv'
<1>1. WorkTypes /\ SliceTypes /\ AnswerTypes
  BY Zenon DEF Types
<1>2. ASSUME NEW w \in Workers, ReceiveAny(w) \/ AssessAny(w)  PROVE CoverInv'
  <2>1. /\ UNCHANGED <<metricVars, mrtc, verdict, status, wleft, wfill, wdata>>
        /\ wpc' = [wpc EXCEPT ![w] = "lookup"] /\ \E ev : wev' = [wev EXCEPT ![w] = ev]
    BY <1>2, Zenon DEF ReceiveAny, AssessAny, Receive, AssessEvidence, Begin, Goto, listVars
  <2>2. wpc'[w] = "lookup" /\ \A v \in Workers : v # w => wpc'[v] = wpc[v] /\ wev'[v] = wev[v]
    BY <1>1, <2>1, Zenon DEF WorkTypes
  <2> QED BY <2>1, <2>2, CoverMove, Zenon
<1>3. ASSUME NEW w \in Workers, Refused(w)  PROVE CoverInv'
  <2>1. UNCHANGED <<metricVars, mrtc, verdict>> /\ Reply(w, "failed")
    BY <1>3, Zenon DEF Refused, Refuse, listVars
  <2>2. /\ wev'[w] = Nobody
        /\ \A v \in Workers : v # w =>
             /\ wpc'[v] = wpc[v] /\ wev'[v] = wev[v]
             /\ wleft'[v] = wleft[v] /\ wfill'[v] = wfill[v] /\ wdata'[v] = wdata[v]
    BY <1>1, <2>1, Zenon DEF Reply, Goto, WorkTypes, SliceTypes
  <2>3. \A ev \in Evidences : status'[ev] = "assessed" => status[ev] = "assessed"
    BY <1>1, <2>1, Zenon DEF Reply, AnswerTypes
  <2> QED BY <2>1, <2>2, <2>3, CoverMove, Zenon
<1>4. ASSUME NEW m, NewMetric(m) \/ \E s \in Range(ServiceOf) : ChangeMetric(s, m)  PROVE CoverInv'
  <2>1. changes' = changes + 1 /\ changes \in Nat
    BY <1>4, Zenon DEF NewMetric, CreateMetric, ChangeMetric, ProvideMetric, CoverInv
  <2>2. changes' \in Nat /\ changes' # 0
    BY <2>1
  <2> QED BY <2>2, Zenon DEF CoverInv
<1> QED BY <1>2, <1>3, <1>4, Zenon

\* CoverInv is an invariant.
LEMMA CoverInvariant == Spec => []CoverInv
<1>1. Init => CoverInv
  <2> SUFFICES ASSUME Init  PROVE CoverInv
    BY Zenon
  <2>1. /\ changes \in Nat /\ known = InitialMetrics
        /\ \A k \in Keys : mrtc[k] = NoList
        /\ \A w \in Workers : wev[w] = Nobody
        /\ \A ev \in Evidences : status[ev] = "new"
    BY Zenon DEF Init, AssessmentInit
  <2>2. ListsCover
    BY <2>1, Zenon DEF ListsCover
  <2>3. \A ev \in Evidences : Covered(ev)
    BY <2>1, EvidenceHasKey, Zenon DEF Covered
  <2> QED BY <2>1, <2>2, <2>3, Zenon DEF CoverInv
<1>2. Types /\ OwnerInv /\ CoverInv /\ [Next]_vars => CoverInv'
  <2> SUFFICES ASSUME Types, OwnerInv, CoverInv, [Next]_vars  PROVE CoverInv'
    BY Zenon
  <2>1. CASE UNCHANGED assessmentVars
    <3>1. UNCHANGED <<metricVars, mrtc, verdict, status, wpc, wev, wleft, wfill, wdata>>
      BY <2>1, Zenon DEF assessmentVars, listVars, workVars
    <3> QED BY <3>1, CoverMove, Zenon
  <2> QED BY <2>1, AssessmentSteps, CoverWork, CoverOthers, Zenon
<1> QED BY <1>1, <1>2, OwnerInvariant, PTL DEF Spec

\* EachMetricOnce: the list of a kind and the results of an assessment never name a metric
\* twice, and as long as metrics do not change, a metric that applies to all resources of
\* a kind is part of every assessment of the kind (Eval, with and without a cached list).
THEOREM MetricsCountOnce == Spec => []EachMetricOnce
<1>1. OnceInv /\ CoverInv => EachMetricOnce
  <2> SUFFICES ASSUME OnceInv, CoverInv  PROVE EachMetricOnce
    BY Zenon
  <2>1. (\A k \in Keys : IsInjective(mrtc[k])) /\ \A w \in Workers : IsInjective(wdata[w])
    BY Zenon DEF OnceInv, OnceOf
  <2>2. \A m \in Range(InitialMetrics) : m \in Metrics
    BY AssessmentAssumption DEF Range
  <2>3. ASSUME changes = 0, NEW ev \in Evidences, status[ev] = "assessed",
               NEW m \in Range(InitialMetrics), Always(KeyOf[ev[2]], m)
        PROVE  m \in verdict[ev]
    BY <2>2, <2>3, Zenon DEF CoverInv, Covered
  <2> QED BY <2>1, <2>3, Zenon DEF EachMetricOnce, Always
<1> QED BY <1>1, OnceInvariant, CoverInvariant, PTL
=============================================================================
