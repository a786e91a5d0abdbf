----------------------------- MODULE Assessment -----------------------------
(***************************************************************************)
(* service/assessment and policies: a worker (the handler of a stream or   *)
(* of a single AssessEvidence call) evaluates an evidence against the      *)
(* metrics that apply to its kind of resource, and passes the evidence to  *)
(* the evidence store and the results to the orchestrator.                 *)
(*                                                                         *)
(* Eval keeps, for every kind of resource, the list of applicable metrics  *)
(* (mrtc.m).  The first evidence of a kind fills the list under the write  *)
(* lock; later ones use it.  A prepared query and a configuration are      *)
(* cached too: that is MetricCache.                                        *)
(*                                                                         *)
(* An evidence is a pair <<source, resource>>.                             *)
(***************************************************************************)
EXTENDS EvidenceHop, Naturals, Sequences, Functions

CONSTANTS
  Direct,         \* the evidences that come as single calls
  KeyOf,          \* createKey: the resource types and the tool of a resource
  ServiceOf,      \* the cloud service of a resource
  Metrics,        \* all metrics
  Applies,        \* <<m, x>>: the policy of m says it is applicable to x
  InitialMetrics, \* the metrics that exist from the start, a sequence
  InitialUsable,  \* <<s, m>>: m has an implementation and a configuration for s
  Workers,
  MaxChanges,     \* bound: changes of metrics
  MayFail,
  StoreDisabled,  \* isEvidenceStoreDisabled
  Nobody          \* neither a worker nor an evidence

ASSUME AssessmentAssumption ==
  /\ InitialMetrics \in Seq(Metrics) /\ IsInjective(InitialMetrics)
  /\ Direct \subseteq Evidences
  /\ \A ev \in Evidences : ev[2] \in DOMAIN KeyOf \cap DOMAIN ServiceOf
  /\ Nobody \notin Evidences

Keys == Range(KeyOf)
NoList == <<"no list">>   \* nil, as opposed to an empty list

VARIABLES
  known, usable, changes,         \* the orchestrator's metrics, in the order of their
                                  \* creation: ListMetrics asks for no other one
  mrtc, mrtcBy,                   \* the lists, and who holds the write lock
  wpc, wev, wleft, wfill, wdata,  \* workers: counter, evidence, metrics left,
                                  \* list being filled, metrics with a result
  status,                         \* the answer to an evidence
  verdict,                        \* what Eval returned for it
  announced,                      \* the informHooks goroutines started so far
  eHeld, eHanded, eGone, eUp,
  oHeld, oHanded, oGone, oUp

Results == Evidences \X Metrics

E == INSTANCE Hop WITH Msgs <- Evidences, held <- eHeld, handed <- eHanded,
                       gone <- eGone, up <- eUp
O == INSTANCE Hop WITH Msgs <- Results, held <- oHeld, handed <- oHanded,
                       gone <- oGone, up <- oUp

metricVars == <<known, usable, changes>>
listVars   == <<mrtc, mrtcBy>>
workVars   == <<wpc, wev, wleft, wfill, wdata>>
eVars      == <<eHeld, eHanded, eGone, eUp>>
oVars      == <<oHeld, oHanded, oGone, oUp>>

AssessmentInit ==
  /\ known = InitialMetrics /\ usable = InitialUsable /\ changes = 0
  /\ mrtc = [k \in Keys |-> NoList] /\ mrtcBy = Nobody
  /\ wpc = [w \in Workers |-> "idle"] /\ wev = [w \in Workers |-> Nobody]
  /\ wleft = [w \in Workers |-> <<>>]
  /\ wfill = [w \in Workers |-> <<>>] /\ wdata = [w \in Workers |-> <<>>]
  /\ status = [e \in Evidences |-> "new"]
  /\ verdict = [e \in Evidences |-> {}]
  /\ announced = {}
  /\ E!Init /\ O!Init

Goto(w, l) == wpc' = [wpc EXCEPT ![w] = l]
KeyAt(w) == KeyOf[wev[w][2]]

(***************************************************************************)
(* The metrics of the orchestrator                                         *)
(***************************************************************************)
\* CreateMetric
CreateMetric(m) ==
  /\ changes < MaxChanges /\ m \notin Range(known)
  /\ known' = Append(known, m)
  /\ changes' = changes + 1
  /\ UNCHANGED <<usable, listVars, workVars, status, verdict, announced, aVars,
                 eVars, oVars>>

\* UpdateMetricImplementation, UpdateMetricConfiguration
ProvideMetric(s, m) ==
  /\ changes < MaxChanges /\ m \in Range(known) /\ <<s, m>> \notin usable
  /\ usable' = usable \cup {<<s, m>>}
  /\ changes' = changes + 1
  /\ UNCHANGED <<known, listVars, workVars, status, verdict, announced, aVars,
                 eVars, oVars>>

(***************************************************************************)
(* AssessEvidence and AssessEvidences up to Eval                           *)
(***************************************************************************)
Begin(w, ev) ==
  /\ wpc[w] = "idle"
  /\ Goto(w, "lookup")
  /\ wev' = [wev EXCEPT ![w] = ev]
  /\ UNCHANGED <<metricVars, listVars, wleft, wfill, wdata, status, verdict,
                 announced, eVars, oVars>>

\* Recv of an AssessEvidences handler
Receive(w, ev) == A!Take(ev) /\ Begin(w, ev)

\* the single call
AssessEvidence(w, ev) ==
  /\ ev \in Direct /\ status[ev] = "new"
  /\ \A v \in Workers : wev[v] # ev
  /\ Begin(w, ev)
  /\ UNCHANGED aVars

\* The end of a call.  The worker forgets its locals.
Reply(w, answer) ==
  /\ Goto(w, "idle")
  /\ status' = [status EXCEPT ![wev[w]] = answer]
  /\ wev' = [wev EXCEPT ![w] = Nobody]
  /\ wleft' = [wleft EXCEPT ![w] = <<>>]
  /\ wfill' = [wfill EXCEPT ![w] = <<>>]
  /\ wdata' = [wdata EXCEPT ![w] = <<>>]

\* go informHooks(nil, err), and FAILED
Fail(w) ==
  /\ Reply(w, "failed")
  /\ announced' = announced \cup {<<"error", wev[w]>>}

\* an invalid evidence, or one of a service the caller may not access: FAILED,
\* and no hook is told
Refuse(w) ==
  /\ MayFail /\ wpc[w] = "lookup"
  /\ Reply(w, "failed")
  /\ UNCHANGED <<metricVars, listVars, verdict, announced, aVars, eVars, oVars>>

(***************************************************************************)
(* Eval                                                                    *)
(***************************************************************************)
\* what evalMap says about m and the evidence of w, the network permitting
EvalMap(w, m) ==
  IF <<ServiceOf[wev[w][2]], m>> \notin usable THEN "not found"
  ELSE IF <<m, wev[w][2]>> \in Applies THEN "result" ELSE "not applicable"

\* the list is read under the read lock
Lookup(w) ==
  /\ wpc[w] = "lookup" /\ mrtcBy = Nobody
  /\ \/ /\ mrtc[KeyAt(w)] = NoList
        /\ Goto(w, "metrics") /\ UNCHANGED wleft
     \/ /\ mrtc[KeyAt(w)] # NoList
        /\ Goto(w, "hit")
        /\ wleft' = [wleft EXCEPT ![w] = mrtc[KeyAt(w)]]
  /\ UNCHANGED <<metricVars, listVars, wev, wfill, wdata, status, verdict,
                 announced, aVars, eVars, oVars>>

ListMetrics(w) ==
  /\ wpc[w] = "metrics"
  /\ Goto(w, "lock")
  /\ wleft' = [wleft EXCEPT ![w] = known]
  /\ UNCHANGED <<metricVars, listVars, wev, wfill, wdata, status, verdict,
                 announced, aVars, eVars, oVars>>

ListMetricsFails(w) ==
  /\ MayFail /\ wpc[w] = "metrics"
  /\ Fail(w)
  /\ UNCHANGED <<metricVars, listVars, verdict, aVars, eVars, oVars>>

\* mutant: goes on with the list a parallel execution has stored meanwhile
OldList(k) == IF mrtc[k] = NoList THEN <<>> ELSE mrtc[k]

\* the list a worker starts with once it has the lock
FirstList(k) == <<>>

LockList(w) ==
  /\ wpc[w] = "lock" /\ mrtcBy = Nobody
  /\ mrtcBy' = w
  /\ Goto(w, "fill")
  /\ wfill' = [wfill EXCEPT ![w] = FirstList(KeyAt(w))]
  /\ UNCHANGED <<metricVars, mrtc, wev, wleft, wdata, status, verdict, announced,
                 aVars, eVars, oVars>>

\* one metric of the list of all metrics, under the lock
FillOne(w) ==
  /\ wpc[w] = "fill" /\ wleft[w] # <<>>
  /\ LET m == Head(wleft[w])
         hit == EvalMap(w, m) = "result"
     IN /\ wfill' = [wfill EXCEPT ![w] = IF hit THEN Append(@, m) ELSE @]
        /\ wdata' = [wdata EXCEPT ![w] = IF hit THEN Append(@, m) ELSE @]
  /\ wleft' = [wleft EXCEPT ![w] = Tail(@)]
  /\ UNCHANGED <<metricVars, listVars, wpc, wev, status, verdict, announced,
                 aVars, eVars, oVars>>

\* mutant: returns with the lock held
FillFailsLocked(w) ==
  /\ MayFail /\ wpc[w] = "fill" /\ wleft[w] # <<>>
  /\ mrtc' = [mrtc EXCEPT ![KeyAt(w)] = NoList]
  /\ Fail(w)
  /\ UNCHANGED <<metricVars, mrtcBy, verdict, aVars, eVars, oVars>>

\* an error other than "not found" drops the list and releases the lock
FillFails(w) ==
  /\ MayFail /\ wpc[w] = "fill" /\ wleft[w] # <<>>
  /\ mrtc' = [mrtc EXCEPT ![KeyAt(w)] = NoList]
  /\ mrtcBy' = Nobody
  /\ Fail(w)
  /\ UNCHANGED <<metricVars, verdict, aVars, eVars, oVars>>

FillDone(w) ==
  /\ wpc[w] = "fill" /\ wleft[w] = <<>>
  /\ mrtc' = [mrtc EXCEPT ![KeyAt(w)] = wfill[w]]
  /\ mrtcBy' = Nobody
  /\ Goto(w, "store")
  /\ verdict' = [verdict EXCEPT ![wev[w]] = Range(wdata[w])]
  /\ UNCHANGED <<metricVars, wev, wleft, wfill, wdata, status, announced, aVars,
                 eVars, oVars>>

\* one metric of the stored list.  Here a missing implementation or
\* configuration is an error like any other.
HitOne(w) ==
  /\ wpc[w] = "hit" /\ wleft[w] # <<>>
  /\ EvalMap(w, Head(wleft[w])) # "not found"
  /\ wdata' = [wdata EXCEPT ![w] =
       IF EvalMap(w, Head(wleft[w])) = "result" THEN Append(@, Head(wleft[w])) ELSE @]
  /\ wleft' = [wleft EXCEPT ![w] = Tail(@)]
  /\ UNCHANGED <<metricVars, listVars, wpc, wev, wfill, status, verdict,
                 announced, aVars, eVars, oVars>>

HitFails(w) ==
  /\ wpc[w] = "hit" /\ wleft[w] # <<>>
  /\ MayFail \/ EvalMap(w, Head(wleft[w])) = "not found"
  /\ Fail(w)
  /\ UNCHANGED <<metricVars, listVars, verdict, aVars, eVars, oVars>>

HitDone(w) ==
  /\ wpc[w] = "hit" /\ wleft[w] = <<>>
  /\ Goto(w, "store")
  /\ verdict' = [verdict EXCEPT ![wev[w]] = Range(wdata[w])]
  /\ UNCHANGED <<metricVars, listVars, wev, wleft, wfill, wdata, status,
                 announced, aVars, eVars, oVars>>

(***************************************************************************)
(* handleEvidence after Eval                                               *)
(***************************************************************************)
SendToStore(w) ==
  /\ wpc[w] = "store"
  /\ IF StoreDisabled THEN UNCHANGED eVars ELSE E!Accept(wev[w])
  /\ Goto(w, "orchestrator")
  /\ UNCHANGED <<metricVars, listVars, wev, wleft, wfill, wdata, status, verdict,
                 announced, aVars, oVars>>

\* mutant: the error is only logged
StoreStreamIgnored(w) ==
  /\ MayFail /\ wpc[w] = "store" /\ ~StoreDisabled
  /\ Goto(w, "orchestrator")
  /\ UNCHANGED <<metricVars, listVars, wev, wleft, wfill, wdata, status, verdict,
                 announced, aVars, eVars, oVars>>

StoreStreamFails(w) ==
  /\ MayFail /\ wpc[w] = "store" /\ ~StoreDisabled
  /\ Fail(w)
  /\ UNCHANGED <<metricVars, listVars, verdict, aVars, eVars, oVars>>

\* GetStream; the channel of the orchestrator is kept for all results
OpenOrchestrator(w) ==
  /\ wpc[w] = "orchestrator"
  /\ Goto(w, "results")
  /\ oUp' = TRUE
  /\ UNCHANGED <<metricVars, listVars, wev, wleft, wfill, wdata, status, verdict,
                 announced, aVars, eVars, oHeld, oHanded, oGone>>

\* the evidence stays with the evidence store although the answer is FAILED
OrchestratorStreamFails(w) ==
  /\ MayFail /\ wpc[w] = "orchestrator"
  /\ Fail(w)
  /\ UNCHANGED <<metricVars, listVars, verdict, aVars, eVars, oVars>>

\* go informHooks(result, nil), and Send on the channel got before.  Send does
\* not revive a stream that has ended since.
SendResult(w) ==
  /\ wpc[w] = "results" /\ wdata[w] # <<>>
  /\ LET res == <<wev[w], Head(wdata[w])>>
     IN /\ oHeld' = oHeld \cup {res}
        /\ announced' = announced \cup {<<"result", wev[w], Head(wdata[w])>>}
  /\ wdata' = [wdata EXCEPT ![w] = Tail(@)]
  /\ UNCHANGED <<metricVars, listVars, wpc, wev, wleft, wfill, status, verdict,
                 aVars, eVars, oHanded, oGone, oUp>>

\* mutant: answers before all results are sent
AssessedEarly(w) ==
  /\ wpc[w] = "results"
  /\ Reply(w, "assessed")
  /\ UNCHANGED <<metricVars, listVars, verdict, announced, aVars, eVars, oVars>>

Assessed(w) ==
  /\ wpc[w] = "results" /\ wdata[w] = <<>>
  /\ Reply(w, "assessed")
  /\ UNCHANGED <<metricVars, listVars, verdict, announced, aVars, eVars, oVars>>

WorkStep(w) ==
  \/ Lookup(w) \/ ListMetrics(w) \/ ListMetricsFails(w) \/ LockList(w)
  \/ FillOne(w) \/ FillFails(w) \/ FillDone(w)
  \/ HitOne(w) \/ HitFails(w) \/ HitDone(w)
  \/ SendToStore(w) \/ StoreStreamFails(w)
  \/ OpenOrchestrator(w) \/ OrchestratorStreamFails(w)
  \/ SendResult(w) \/ Assessed(w)
=============================================================================
