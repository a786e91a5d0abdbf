----------------------------- MODULE Evaluation -----------------------------
(***************************************************************************)
(* service/evaluation/evaluation.go, for one catalog: StartEvaluation and  *)
(* StopEvaluation, the runs of evaluateCatalog the scheduler starts, with  *)
(* a goroutine for every control and sub-control, and the evaluation       *)
(* results they and CreateEvaluationResult store.                          *)
(***************************************************************************)
EXTENDS Naturals, Sequences, FiniteSets, Functions

CONSTANTS
  Services,    \* cloud services
  Calls,       \* calls of StartEvaluation; a call names the job it adds
  Runs,        \* executions of evaluateCatalog
  Parents,     \* top-level controls of the catalog
  SubsOf,      \* the sub-controls of a control, in order
  Relevant,    \* controls relevant for the targets of evaluation
  MaxManual,   \* bound: calls of CreateEvaluationResult
  MaxChanges,  \* bound: changes of assessment results
  MaxTime,     \* bound: clock ticks
  MayFail,     \* whether calls to the orchestrator and the database may fail
  None

Subs == UNION {Range(SubsOf[p]) : p \in Parents}
Controls == Parents \cup Subs

ASSUME EvaluationAssumption ==
  /\ SubsOf \in [Parents -> Seq(Subs)] /\ Relevant \subseteq Controls
  /\ Parents \cap Subs = {}
  /\ \A p, q \in Parents : p # q => Range(SubsOf[p]) \cap Range(SubsOf[q]) = {}
  /\ MaxManual \in Nat /\ MaxChanges \in Nat /\ MaxTime \in Nat /\ MayFail \in BOOLEAN
  /\ None \notin Services \cup Controls \cup Runs \cup Nat

Manual == {"COMPLIANT_MANUALLY", "NOT_COMPLIANT_MANUALLY"}
Automatic == {"COMPLIANT", "NOT_COMPLIANT", "PENDING"}
Status == Manual \cup Automatic

VARIABLES
  jobs,        \* jobs of the scheduler
  spc, serv,   \* StartEvaluation: program counter and cloud service
  todo,        \* controls that cacheControls has yet to store
  cached,      \* svc.catalogControls
  results,     \* table of evaluation results, in the order of their creation, which is
               \* also that of their timestamps if requests give the current time
  assessed,    \* the latest assessment results for a sub-control
  now,
  rpc, rserv,  \* evaluateCatalog: program counter and cloud service
  controls,    \* the controls a run evaluates
  manual,      \* status of the manual results a run has found
  ppc,         \* evaluateControl, per run and control
  sub,         \* evaluateSubcontrol: program counter or status found
  creates, changes,
  fatal        \* the Go runtime has found a concurrent access to a map

startVars == <<jobs, spc, serv, todo>>
runVars == <<rpc, rserv, controls, manual, ppc, sub>>
dataVars == <<results, assessed, now, creates, changes>>
vars == <<startVars, cached, runVars, dataVars, fatal>>

JobsOf(s) == {c \in jobs : serv[c] = s}

Init ==
  /\ jobs = {} /\ cached = {} /\ results = <<>> /\ now = 0
  /\ spc = [c \in Calls |-> "idle"] /\ serv = [c \in Calls |-> None]
  /\ todo = [c \in Calls |-> {}]
  /\ assessed = [x \in Services \X Subs |-> "none"]
  /\ rpc = [r \in Runs |-> "none"] /\ rserv = [r \in Runs |-> None]
  /\ controls = [r \in Runs |-> {}]
  /\ manual = [x \in Runs \X Controls |-> None]
  /\ ppc = [x \in Runs \X Parents |-> "none"]
  /\ sub = [x \in Runs \X Subs |-> "none"]
  /\ creates = 0 /\ changes = 0 /\ fatal = FALSE

-----------------------------------------------------------------------------
(***************************************************************************)
(* StartEvaluation and StopEvaluation                                      *)
(***************************************************************************)
At(c, from, to) == spc[c] = from /\ spc' = [spc EXCEPT ![c] = to]

StartEvaluation(c, s) ==
  /\ At(c, "idle", "cache")
  /\ serv' = [serv EXCEPT ![c] = s]
  /\ UNCHANGED <<jobs, todo, cached, runVars, dataVars, fatal>>

\* a call to the orchestrator fails
StartFails(c) ==
  /\ MayFail
  /\ At(c, "cache", "done") \/ At(c, "find", "done")
  /\ UNCHANGED <<jobs, serv, todo, cached, runVars, dataVars, fatal>>

\* cacheControls replaces the map of the catalog by an empty one
CacheControls(c) ==
  /\ At(c, "cache", IF Controls = {} THEN "find" ELSE "fill")
  /\ cached' = {}
  /\ todo' = [todo EXCEPT ![c] = Controls]
  /\ UNCHANGED <<jobs, serv, runVars, dataVars, fatal>>

\* mutant: only one control is stored
FirstOnly(c, x) == TRUE

LastControl(c, x) == todo[c] = {x}

\* and stores the controls one by one, without a lock
CacheControl(c, x) ==
  /\ spc[c] = "fill" /\ x \in todo[c]
  /\ cached' = cached \cup {x}
  /\ todo' = [todo EXCEPT ![c] = @ \ {x}]
  /\ spc' = [spc EXCEPT ![c] = IF LastControl(c, x) THEN "find" ELSE "fill"]
  /\ UNCHANGED <<jobs, serv, runVars, dataVars, fatal>>

\* FindJobsByTag
NotStarted(c) == JobsOf(serv[c]) = {}

FindJobs(c) ==
  /\ \/ NotStarted(c) /\ At(c, "find", "add")
     \/ ~NotStarted(c) /\ At(c, "find", "done")
  /\ UNCHANGED <<jobs, serv, todo, cached, runVars, dataVars, fatal>>

AddJobToScheduler(c) ==
  /\ At(c, "add", "done")
  /\ jobs' = jobs \cup {c}
  /\ UNCHANGED <<serv, todo, cached, runVars, dataVars, fatal>>

StopEvaluation(s) ==
  /\ JobsOf(s) # {}
  /\ jobs' = jobs \ JobsOf(s)
  /\ UNCHANGED <<spc, serv, todo, cached, runVars, dataVars, fatal>>

-----------------------------------------------------------------------------
(***************************************************************************)
(* Results that are created by hand, changes of the assessment results.    *)
(***************************************************************************)
Row(s, x, status, until, r) ==
  [service |-> s, control |-> x, status |-> status, until |-> until, run |-> r]

CreateEvaluationResult(s, x, status, until) ==
  /\ creates < MaxManual
  /\ creates' = creates + 1
  /\ results' = Append(results, Row(s, x, status, until, None))
  /\ UNCHANGED <<startVars, cached, runVars, assessed, now, changes, fatal>>

\* StoreAssessmentResult of the orchestrator
AssessmentResultsChange(s, x, v) ==
  /\ changes < MaxChanges
  /\ changes' = changes + 1
  /\ assessed' = [assessed EXCEPT ![<<s, x>>] = v]
  /\ UNCHANGED <<startVars, cached, runVars, results, now, creates, fatal>>

Tick ==
  /\ now < MaxTime
  /\ now' = now + 1
  /\ UNCHANGED <<startVars, cached, runVars, results, assessed, creates, changes, fatal>>

-----------------------------------------------------------------------------
(***************************************************************************)
(* evaluateCatalog                                                         *)
(***************************************************************************)

\* the scheduler runs a job, whether or not an earlier run goes on
RunJob(r, c) ==
  /\ c \in jobs /\ rpc[r] = "none"
  /\ rpc' = [rpc EXCEPT ![r] = "controls"]
  /\ rserv' = [rserv EXCEPT ![r] = serv[c]]
  /\ UNCHANGED <<startVars, cached, controls, manual, ppc, sub, dataVars, fatal>>

ReadControls(r) ==
  /\ rpc[r] = "controls"
  /\ controls' = [controls EXCEPT ![r] = cached \cap Parents]
  /\ rpc' = [rpc EXCEPT ![r] = "manual"]
  /\ UNCHANGED <<startVars, cached, rserv, manual, ppc, sub, dataVars, fatal>>

\* the WHERE clause of ListEvaluationResults for ValidManualOnly: in
\* "... AND status IN ? AND valid_until IS NULL OR valid_until >= CURRENT_TIMESTAMP"
\* AND binds more strongly than OR
ValidManual(row, s) ==
  \/ row.service = s /\ row.status \in Manual /\ row.until = None
  \/ row.until # None /\ row.until >= now

\* the latest result by control
LatestManual(s, x) ==
  {i \in DOMAIN results :
     /\ results[i].control = x /\ ValidManual(results[i], s)
     /\ \A j \in DOMAIN results :
          results[j].control = x /\ ValidManual(results[j], s) => j <= i}

ManualStatus(s, x) ==
  IF LatestManual(s, x) = {} THEN None
  ELSE results[CHOOSE i \in LatestManual(s, x) : TRUE].status

\* a control is evaluated if it is relevant and has no manual result
ToEvaluate(s, x) == x \in Relevant /\ ManualStatus(s, x) = None

\* the list of manual results is read, the controls to evaluate are chosen, and
\* the goroutines for the controls and their sub-controls are started
StartControls(r) ==
  LET s == rserv[r]
      chosen == {p \in controls[r] : ToEvaluate(s, p)}
      subs == {x \in Subs : ToEvaluate(s, x) /\ \E p \in chosen : x \in Range(SubsOf[p])}
  IN
  /\ rpc[r] = "manual"
  /\ controls' = [controls EXCEPT ![r] = chosen]
  /\ manual' = [y \in Runs \X Controls |->
                  IF y[1] = r THEN ManualStatus(s, y[2]) ELSE manual[y]]
  /\ ppc' = [y \in Runs \X Parents |->
               IF y[1] = r /\ y[2] \in chosen THEN "wait" ELSE ppc[y]]
  /\ sub' = [y \in Runs \X Subs |->
               IF y[1] = r /\ y[2] \in subs THEN "lookup" ELSE sub[y]]
  /\ rpc' = [rpc EXCEPT ![r] = "wait"]
  /\ UNCHANGED <<startVars, cached, rserv, dataVars, fatal>>

\* ListEvaluationResults fails
StartControlsFails(r) ==
  /\ MayFail /\ rpc[r] = "manual"
  /\ rpc' = [rpc EXCEPT ![r] = "done"]
  /\ controls' = [controls EXCEPT ![r] = {}]
  /\ UNCHANGED <<startVars, cached, rserv, manual, ppc, sub, dataVars, fatal>>

\* pending without assessment results, also if they cannot be listed; otherwise
\* compliant unless one of them is not
Verdicts(s, x) ==
  LET v == CASE assessed[<<s, x>>] = "none" -> "PENDING"
             [] assessed[<<s, x>>] = "good" -> "COMPLIANT"
             [] OTHER -> "NOT_COMPLIANT"
  IN {v} \cup (IF MayFail THEN {"PENDING"} ELSE {})

\* evaluateSubcontrol: the control is not in the map, or its assessment results
\* are listed
EvaluateSubcontrol(r, x) ==
  /\ sub[<<r, x>>] = "lookup"
  /\ \/ x \notin cached /\ sub' = [sub EXCEPT ![<<r, x>>] = "error"]
     \/ /\ x \in cached
        /\ \E v \in Verdicts(rserv[r], x) : sub' = [sub EXCEPT ![<<r, x>>] = v]
  /\ UNCHANGED <<startVars, cached, rpc, rserv, controls, manual, ppc, dataVars, fatal>>

Stored(r, x) == \E i \in DOMAIN results : results[i].run = r /\ results[i].control = x

StoreSubcontrol(r, x) ==
  /\ sub[<<r, x>>] \in Automatic /\ ~Stored(r, x)
  /\ \/ /\ results' = Append(results, Row(rserv[r], x, sub[<<r, x>>], None, r))
        /\ UNCHANGED sub
     \/ /\ MayFail
        /\ sub' = [sub EXCEPT ![<<r, x>>] = "error"]
        /\ UNCHANGED results
  /\ UNCHANGED <<startVars, cached, rpc, rserv, controls, manual, ppc, assessed,
                 now, creates, changes, fatal>>

\* mutants: the method waits for one goroutine only, or for goroutines that failed
OneIsEnough(r, p) ==
  \E x \in Range(SubsOf[p]) : sub[<<r, x>>] = "error" \/ Stored(r, x)
FailuresAwaited(r, p) == \A x \in Range(SubsOf[p]) : sub[<<r, x>>] = "none" \/ Stored(r, x)

\* g.Wait(): every goroutine of a sub-control has returned
SubsFinished(r, p) ==
  \A x \in Range(SubsOf[p]) : sub[<<r, x>>] \in {"none", "error"} \/ Stored(r, x)

\* mutant: only the last result counts
LastStatus(status, v) == IF v = "COMPLIANT_MANUALLY" THEN "COMPLIANT" ELSE v

\* one round of the loop that combines the results of the sub-controls
NextStatus(status, v) ==
  IF v \in {"COMPLIANT", "COMPLIANT_MANUALLY"} /\ status \notin {"NOT_COMPLIANT", "NOT_COMPLIANT_MANUALLY"}
  THEN "COMPLIANT"
  ELSE IF v = "PENDING" /\ status = "PENDING" THEN "PENDING" ELSE "NOT_COMPLIANT"

\* automatic results in the order of the sub-controls, then the manual ones
SubResults(r, p) ==
  LET auto == SelectSeq(SubsOf[p], LAMBDA x : sub[<<r, x>>] \in Automatic)
      byHand == SelectSeq(SubsOf[p], LAMBDA x : manual[<<r, x>>] # None)
  IN [i \in DOMAIN auto |-> sub[<<r, auto[i]>>]] \o [i \in DOMAIN byHand |-> manual[<<r, byHand[i]>>]]

\* the status of a control, from the results of its sub-controls
ParentStatus(rows) ==
  LET after[i \in 0..Len(rows)] ==
        IF i = 0 THEN "PENDING" ELSE NextStatus(after[i - 1], rows[i])
  IN after[Len(rows)]

\* evaluateControl, once its sub-controls are evaluated
EvaluateControl(r, p) ==
  /\ ppc[<<r, p>>] = "wait"
  /\ SubsFinished(r, p)
  /\ \/ /\ \A x \in Range(SubsOf[p]) : sub[<<r, x>>] # "error"
        /\ results' = Append(results,
             Row(rserv[r], p, ParentStatus(SubResults(r, p)), None, r))
     \/ /\ MayFail \/ \E x \in Range(SubsOf[p]) : sub[<<r, x>>] = "error"
        /\ UNCHANGED results
  /\ ppc' = [ppc EXCEPT ![<<r, p>>] = "done"]
  /\ UNCHANGED <<startVars, cached, rpc, rserv, controls, manual, sub, assessed,
                 now, creates, changes, fatal>>

RunEnds(r) ==
  /\ rpc[r] = "wait"
  /\ \A p \in controls[r] : ppc[<<r, p>>] = "done"
  /\ rpc' = [rpc EXCEPT ![r] = "done"]
  /\ UNCHANGED <<startVars, cached, rserv, controls, manual, ppc, sub, dataVars, fatal>>

Run(r) ==
  \/ ReadControls(r) \/ StartControls(r) \/ RunEnds(r)
  \/ \E x \in Subs : EvaluateSubcontrol(r, x) \/ StoreSubcontrol(r, x)
  \/ \E p \in Parents : EvaluateControl(r, p)

\* A goroutine writes the map while another one is about to write or read it: the
\* Go runtime may notice, and the process ends.
Reading(r) == rpc[r] = "controls" \/ \E x \in Subs : sub[<<r, x>>] = "lookup"

ConcurrentMapAccess ==
  /\ \E c \in Calls : /\ spc[c] = "fill"
                      /\ \/ \E d \in Calls \ {c} : spc[d] = "fill"
                         \/ \E r \in Runs : Reading(r)
  /\ fatal' = TRUE
  /\ UNCHANGED <<startVars, cached, runVars, dataVars>>

Start(c) ==
  \/ CacheControls(c) \/ (\E x \in Controls : CacheControl(c, x))
  \/ FindJobs(c) \/ AddJobToScheduler(c)

Next ==
  /\ ~fatal
  /\ \/ \E c \in Calls : Start(c) \/ StartFails(c) \/ \E s \in Services : StartEvaluation(c, s)
     \/ \E s \in Services : StopEvaluation(s)
     \/ \E s \in Services, x \in Controls, v \in Manual, t \in 0..MaxTime :
          CreateEvaluationResult(s, x, v, t)
     \/ \E s \in Services, x \in Subs, v \in {"good", "bad"} : AssessmentResultsChange(s, x, v)
     \/ \E r \in Runs, c \in Calls : RunJob(r, c)
     \/ \E r \in Runs : Run(r) \/ StartControlsFails(r)
     \/ Tick \/ ConcurrentMapAccess

Spec == Init /\ [][Next]_vars

\* Goroutines that can go on do; calls to the orchestrator and the database return.
FairSpec ==
  /\ Spec
  /\ \A r \in Runs : WF_vars(~fatal /\ Run(r))
  /\ \A c \in Calls : WF_vars(~fatal /\ Start(c))

-----------------------------------------------------------------------------
(***************************************************************************)
(* Properties                                                              *)
(***************************************************************************)

\* Type invariant of the scheduler, the calls, the runs and the stored results.
TypeOK ==
  /\ jobs \subseteq Calls /\ cached \subseteq Controls
  /\ spc \in [Calls -> {"idle", "cache", "fill", "find", "add", "done"}]
  /\ serv \in [Calls -> Services \cup {None}] /\ todo \in [Calls -> SUBSET Controls]
  /\ results \in Seq([service : Services, control : Controls, status : Status,
                      until : Nat \cup {None}, run : Runs \cup {None}])
  /\ assessed \in [Services \X Subs -> {"none", "good", "bad"}]
  /\ now \in Nat /\ creates \in Nat /\ changes \in Nat /\ fatal \in BOOLEAN
  /\ rpc \in [Runs -> {"none", "controls", "manual", "wait", "done"}]
  /\ rserv \in [Runs -> Services \cup {None}] /\ controls \in [Runs -> SUBSET Parents]
  /\ manual \in [Runs \X Controls -> Manual \cup {None}]
  /\ ppc \in [Runs \X Parents -> {"none", "wait", "done"}]
  /\ sub \in [Runs \X Subs -> Automatic \cup {"none", "lookup", "error"}]

ResultAt(r, x) == {i \in DOMAIN results : results[i].run = r /\ results[i].control = x}

\* "the method needs to wait till all sub-controls are evaluated": the result of
\* a control comes after a result of the same run, or a manual result, for each
\* relevant sub-control.
ParentAfterSubs ==
  \A i \in DOMAIN results : results[i].run # None /\ results[i].control \in Parents =>
    \A x \in Range(SubsOf[results[i].control]) \cap Relevant :
      \/ manual[<<results[i].run, x>>] # None
      \/ \E j \in ResultAt(results[i].run, x) : j < i

\* The statuses a run has for the sub-controls of p, stored or made by hand.
SubStatuses(r, p) ==
  {results[i].status : i \in UNION {ResultAt(r, x) : x \in Range(SubsOf[p])}}
    \cup ({manual[<<r, x>>] : x \in Range(SubsOf[p])} \ {None})

Failed == {"NOT_COMPLIANT", "NOT_COMPLIANT_MANUALLY"}

\* The status of a control agrees with those of its sub-controls, whatever the
\* order in which evaluateControl combines them: it is compliant only if none of
\* them failed, and it is pending exactly if all of them are.
ParentStatusSound ==
  \A r \in Runs, p \in Parents : \A i \in ResultAt(r, p) :
    LET found == SubStatuses(r, p) IN
    /\ results[i].status = "COMPLIANT" => found \cap Failed = {} /\ found # {}
    /\ results[i].status = "PENDING" <=> found \subseteq {"PENDING"}

\* "evaluateCatalog evaluates all [orchestrator.Control] items in the catalog":
\* a run ends with a result for each relevant control, unless it has a manual one.
AllControlsEvaluated ==
  \A r \in Runs : rpc[r] = "done" =>
    \A p \in Parents \cap Relevant : manual[<<r, p>>] # None \/ ResultAt(r, p) # {}

\* A run of evaluateCatalog ends, also if calls fail, unless the process dies.
RunsFinish == \A r \in Runs : (rpc[r] # "none") ~> (rpc[r] = "done" \/ fatal)

\* "Lists only evaluation results for a specific cloud service": a run leaves a
\* control to a manual result only if there is one of its own cloud service.
ManualOfOwnService ==
  \A r \in Runs, x \in Controls : manual[<<r, x>>] # None =>
    \E i \in DOMAIN results :
      /\ results[i].service = rserv[r] /\ results[i].control = x
      /\ results[i].status \in Manual
=============================================================================
