------------------------------ MODULE Pipeline ------------------------------
(***************************************************************************)
(* Discovery, assessment, evidence store and orchestrator, connected by    *)
(* three message channels: discovery -> assessment (A), assessment ->      *)
(* evidence store (E) and assessment -> orchestrator (O).  Changes of the  *)
(* clouds and the shutdown of the discovery are left to DiscoveryService.  *)
(***************************************************************************)
EXTENDS Discovery, Assessment, FiniteSets

CONSTANT MaxEvents  \* bound: how often a stream ends or a metric changes

VARIABLES evidences, results, breaks

S == INSTANCE Sinks

\* an evidence has an id of its own, and a discoverer lists a resource once
ASSUME PipelineAssumption ==
  /\ (Runs \X Resources) \cap Direct = {}
  /\ \A d \in Names : IsInjective(ListOf[d])

discoveryVars == <<startVars, runVars>>
assessmentVars == <<metricVars, listVars, workVars, status, verdict, announced>>
sinkVars == <<evidences, results>>
vars == <<discoveryVars, assessmentVars, sinkVars, aVars, eVars, oVars, breaks>>

Init == DiscoveryInit /\ AssessmentInit /\ S!Init /\ breaks = 0

\* the parts of the system that a step of one component leaves alone
ByDiscovery == UNCHANGED <<assessmentVars, sinkVars, eVars, oVars, breaks>>
ByAssessment == UNCHANGED <<discoveryVars, sinkVars, breaks>>
BySinks == UNCHANGED <<discoveryVars, assessmentVars, aVars, breaks>>
ByNetwork == UNCHANGED <<discoveryVars, assessmentVars, sinkVars>>

StartAny(s) == (Start(s) \/ StartStep(s)) /\ ByDiscovery
RunAny(r) == (Trigger(r) \/ RunStep(r)) /\ ByDiscovery

NewMetric(m) == breaks + changes < MaxEvents /\ CreateMetric(m) /\ ByAssessment
ChangeMetric(s, m) == breaks + changes < MaxEvents /\ ProvideMetric(s, m) /\ ByAssessment
ReceiveAny(w) == (\E ev \in aHanded : Receive(w, ev)) /\ ByAssessment
AssessAny(w) == (\E ev \in Direct : AssessEvidence(w, ev)) /\ ByAssessment
Refused(w) == Refuse(w) /\ ByAssessment
Work(w) == WorkStep(w) /\ ByAssessment

StoreEvidence == (\E ev \in eHanded : S!StoreEvidence(ev)) /\ BySinks
StoreResult == (\E res \in oHanded : S!StoreAssessmentResult(res)) /\ BySinks

HandOverA == (\E ev \in aHeld : A!HandOver(ev)) /\ UNCHANGED <<eVars, oVars, breaks>> /\ ByNetwork
HandOverE == (\E ev \in eHeld : E!HandOver(ev)) /\ UNCHANGED <<aVars, oVars, breaks>> /\ ByNetwork
HandOverO == (\E x \in oHeld : O!HandOver(x)) /\ UNCHANGED <<aVars, eVars, breaks>> /\ ByNetwork

\* a stream ends
Break ==
  /\ breaks + changes < MaxEvents
  /\ breaks' = breaks + 1
  /\ \/ A!Break /\ UNCHANGED <<eVars, oVars>>
     \/ E!Break /\ UNCHANGED <<aVars, oVars>>
     \/ O!Break /\ UNCHANGED <<aVars, eVars>>
  /\ ByNetwork

Next ==
  \/ \E s \in Calls : StartAny(s)
  \/ \E r \in Runs : RunAny(r)
  \/ \E m \in Metrics : NewMetric(m)
  \/ \E s \in Range(ServiceOf), m \in Metrics : ChangeMetric(s, m)
  \/ \E w \in Workers : ReceiveAny(w) \/ AssessAny(w) \/ Refused(w) \/ Work(w)
  \/ StoreEvidence \/ StoreResult
  \/ HandOverA \/ HandOverE \/ HandOverO
  \/ Break

Spec == Init /\ [][Next]_vars

\* Go schedules every goroutine that can run, SendMsg and Recv of an open
\* stream go on, and a remote call returns, with an error if need be.
Fairness ==
  /\ \A w \in Workers : WF_vars(Work(w))
  /\ WF_vars(\E w \in Workers : ReceiveAny(w))
  /\ WF_vars(HandOverA)

FairSpec == Spec /\ Fairness

(***************************************************************************)
(* Properties                                                              *)
(***************************************************************************)
InHopA == aHeld \cup aHanded

TypeOK ==
  /\ Range(discoverers) \subseteq Names /\ jobs \subseteq Names
  /\ mrtcBy \in Workers \cup {Nobody}
  /\ \A w \in Workers : wev[w] \in Evidences \cup {Nobody}
  /\ InHopA \cup aGone \subseteq Evidences
  /\ oHeld \cup oHanded \cup oGone \cup results \subseteq Results

\* Everything the assessment has put on a channel is somewhere: waiting, on the
\* wire, stored, or lost (with a stream, or refused by the service).
SentEvidences == eHeld \cup eHanded \cup evidences \cup eGone
SentResults == oHeld \cup oHanded \cup results \cup oGone

\* handleEvidence gives an evidence to the evidence store before any of its
\* results goes to the orchestrator: a result whose evidence the evidence store
\* never got can only come of a lost stream or a refusal.
EvidenceBeforeResults ==
  StoreDisabled \/ \A res \in SentResults : res[1] \in SentEvidences

\* ASSESSED means that the result of every metric Eval returned was sent and
\* announced; FAILED means that none was, and hooks were not told of any.
AnswerIsHonest ==
  \A ev \in Evidences :
    LET sent == {m \in Metrics : <<ev, m>> \in SentResults}
        told == {m \in Metrics : <<"result", ev, m>> \in announced}
    IN /\ status[ev] = "assessed" =>
            sent = verdict[ev] /\ told = verdict[ev] /\ <<"error", ev>> \notin announced
       /\ status[ev] = "failed" => sent = {} /\ told = {}

\* Every applicable metric counts once.  The list of metrics of a kind never
\* names one twice, however many evidences of the kind arrive at once.  As long
\* as metrics do not change, a metric that is usable for the service and
\* applicable to every resource of the kind is part of every assessment.
EachMetricOnce ==
  /\ \A k \in Keys : IsInjective(mrtc[k])
  /\ \A w \in Workers : IsInjective(wdata[w])
  /\ changes = 0 =>
       \A ev \in Evidences : status[ev] = "assessed" =>
         \A m \in Range(InitialMetrics) :
           /\ \A x \in DOMAIN KeyOf : KeyOf[x] = KeyOf[ev[2]] => <<m, x>> \in Applies
           /\ \A s \in Range(ServiceOf) : <<s, m>> \in usable
           => m \in verdict[ev]

RA == INSTANCE Relay WITH Msgs <- Evidences, held <- aHeld, handed <- aHanded
RE == INSTANCE Relay WITH Msgs <- Evidences, held <- eHeld, handed <- eHanded
RO == INSTANCE Relay WITH Msgs <- Results, held <- oHeld, handed <- oHanded

\* Each hop does what a message channel promises.
HopsRelay == RA!Spec /\ RE!Spec /\ RO!Spec

\* An evidence that the channel to the assessment accepted is answered, unless
\* its stream ends: whatever fails, Eval releases the lock of the list, and the
\* workers come to rest.
EvidenceIsAnswered ==
  \A ev \in Runs \X Resources :
    ev \in aHeld ~> status[ev] # "new" \/ ev \in aGone \/ ~aUp
=============================================================================
