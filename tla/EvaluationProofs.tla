-------------------------- MODULE EvaluationProofs --------------------------
(***************************************************************************)
(* Proofs about Evaluation, for any catalog, any number of runs, manual    *)
(* results and changes of the assessment results.                          *)
(***************************************************************************)
EXTENDS Evaluation, TLAPS

RpcType == {"none", "controls", "manual", "wait", "done"}
SubType == Automatic \cup {"none", "lookup", "error"}

\* The variables of the runs have their types, and results is a sequence of rows
\* (what ParentStatus makes of the statuses is left open).
RunTypes ==
  /\ \E S : results \in Seq(S)
  /\ rpc \in [Runs -> RpcType] /\ controls \in [Runs -> SUBSET Parents]
  /\ ppc \in [Runs \X Parents -> {"none", "wait", "done"}]
  /\ sub \in [Runs \X Subs -> SubType]

\* a run that has started its goroutines
Begun(r) == rpc[r] \in {"wait", "done"}

\* the run of a stored result, None if it was made by hand
RunBegun(r) == r = None \/ (r \in Runs /\ Begun(r))

\* Goroutines and results belong to runs that have started their goroutines.
OnlyBegun ==
  /\ \A i \in DOMAIN results : RunBegun(results[i].run)
  /\ \A r \in Runs, p \in Parents : ppc[<<r, p>>] # "none" => Begun(r)
  /\ \A r \in Runs, x \in Subs : sub[<<r, x>>] # "none" => Begun(r)

\* While evaluateControl waits, each relevant sub-control has a manual result or
\* a goroutine of its own.
SubsCovered ==
  \A r \in Runs, p \in Parents : ppc[<<r, p>>] = "wait" =>
    \A x \in Range(SubsOf[p]) \cap Relevant :
      manual[<<r, x>>] # None \/ sub[<<r, x>>] # "none"

OrderInv == RunTypes /\ OnlyBegun /\ SubsCovered /\ ParentAfterSubs

-----------------------------------------------------------------------------
\* The sub-controls of a control are controls, and no top-level ones.
LEMMA SubControlsAreControls ==
  /\ \A p \in Parents : Range(SubsOf[p]) \subseteq Subs
  /\ Subs \subseteq Controls /\ Parents \subseteq Controls
  /\ Parents \cap Subs = {} /\ None \notin Runs
<1>1. \A p \in Parents : Range(SubsOf[p]) \subseteq Subs
  BY Zenon DEF Subs
<1>2. QED BY <1>1, EvaluationAssumption, Zenon DEF Controls

\* What a new row does to the table of results.
LEMMA NewRow ==
  ASSUME NEW row, \E S : results \in Seq(S), results' = Append(results, row)
  PROVE  /\ \E S : results' \in Seq(S)
         /\ Len(results) + 1 \in DOMAIN results' /\ results'[Len(results) + 1] = row
         /\ \A i \in DOMAIN results : i \in DOMAIN results' /\ results'[i] = results[i]
                                      /\ i < Len(results) + 1
         /\ \A i \in DOMAIN results' : i \in DOMAIN results \/ i = Len(results) + 1
<1>1. PICK S : results \in Seq(S)
  BY Zenon
<1>2. results \in Seq(S \cup {row})
  BY <1>1
<1>3. results' \in Seq(S \cup {row})
  BY <1>2
<1>4. DOMAIN results = 1..Len(results) /\ DOMAIN results' = 1..(Len(results) + 1) /\ Len(results) \in Nat
  BY <1>2, <1>3
<1>5. results'[Len(results) + 1] = row /\ \A i \in 1..Len(results) : results'[i] = results[i]
  BY <1>2
<1>6. QED BY <1>3, <1>4, <1>5

\* What the steps of calls, of the clock and of other services leave alone.
LEMMA OtherSteps ==
  ASSUME Next,
         ~ \E s \in Services, x \in Controls, v \in Manual, t \in 0..MaxTime :
             CreateEvaluationResult(s, x, v, t),
         ~ \E r \in Runs, c \in Calls : RunJob(r, c),
         ~ \E r \in Runs : Run(r) \/ StartControlsFails(r)
  PROVE  UNCHANGED <<runVars, results>>
<1> USE DEF dataVars
<1>1. ASSUME NEW c \in Calls, Start(c) PROVE UNCHANGED <<runVars, results>>
  BY <1>1, Zenon DEF Start, CacheControls, CacheControl, FindJobs, AddJobToScheduler
<1>2. ASSUME NEW c \in Calls, StartFails(c) PROVE UNCHANGED <<runVars, results>>
  BY <1>2, Zenon DEF StartFails
<1>3. ASSUME NEW c \in Calls, NEW s \in Services, StartEvaluation(c, s)
      PROVE  UNCHANGED <<runVars, results>>
  BY <1>3, Zenon DEF StartEvaluation
<1>4. ASSUME NEW s \in Services, StopEvaluation(s) PROVE UNCHANGED <<runVars, results>>
  BY <1>4, Zenon DEF StopEvaluation
<1>5. ASSUME NEW s \in Services, NEW x \in Subs, NEW v \in {"good", "bad"},
             AssessmentResultsChange(s, x, v)
      PROVE  UNCHANGED <<runVars, results>>
  BY <1>5, Zenon DEF AssessmentResultsChange
<1>6. CASE Tick \/ ConcurrentMapAccess
  BY <1>6, Zenon DEF Tick, ConcurrentMapAccess
<1>7. QED BY <1>1, <1>2, <1>3, <1>4, <1>5, <1>6, Zenon DEF Next

\* A new row keeps ParentAfterSubs if it is no result of a top-level control, or
\* if it comes after the results of the sub-controls.
LEMMA NewRowKeepsOrder ==
  ASSUME NEW row, \E S : results \in Seq(S), results' = Append(results, row),
         UNCHANGED manual, ParentAfterSubs,
         row.run # None /\ row.control \in Parents =>
           \A x \in Range(SubsOf[row.control]) \cap Relevant :
             manual[<<row.run, x>>] # None \/ Stored(row.run, x)
  PROVE  ParentAfterSubs'
<1> DEFINE n == Len(results) + 1
<1>1. /\ n \in DOMAIN results' /\ results'[n] = row
      /\ \A i \in DOMAIN results : i \in DOMAIN results' /\ results'[i] = results[i] /\ i < n
      /\ \A i \in DOMAIN results' : i \in DOMAIN results \/ i = n
  BY NewRow, Zenon
<1> HIDE DEF n
<1>2. \A r, x : ResultAt(r, x) \subseteq ResultAt(r, x)'
  BY <1>1, Zenon DEF ResultAt
<1> SUFFICES ASSUME NEW i \in DOMAIN results', results'[i].run # None,
                    results'[i].control \in Parents,
                    NEW x \in Range(SubsOf[results'[i].control]) \cap Relevant,
                    manual[<<results'[i].run, x>>] = None
             PROVE  \E j \in ResultAt(results[i].run, x)' : j < i
  BY Zenon DEF ParentAfterSubs
<1>3. CASE i \in DOMAIN results
  <2>1. results'[i] = results[i]
    BY <1>1, <1>3, Zenon
  <2>2. \E j \in ResultAt(results[i].run, x) : j < i
    BY <1>3, <2>1, Zenon DEF ParentAfterSubs
  <2>3. QED BY <1>2, <2>1, <2>2, Zenon
<1>4. CASE i = n
  <2>1. Stored(row.run, x)
    BY <1>1, <1>4, Zenon
  <2>2. PICK j \in DOMAIN results : results[j].run = row.run /\ results[j].control = x
    BY <2>1, Zenon DEF Stored
  <2>3. j \in ResultAt(row.run, x)' /\ j < n
    BY <1>1, <2>2, Zenon DEF ResultAt
  <2>4. QED BY <1>1, <1>4, <2>3, Zenon
<1>5. QED BY <1>1, <1>3, <1>4, Zenon

\* A new row keeps OnlyBegun if its run has started its goroutines.
LEMMA NewRowKeepsBegun ==
  ASSUME NEW row, \E S : results \in Seq(S), results' = Append(results, row),
         UNCHANGED rpc, RunBegun(row.run),
         \A i \in DOMAIN results : RunBegun(results[i].run)
  PROVE  \A i \in DOMAIN results' : RunBegun(results[i].run)'
<1>1. /\ results'[Len(results) + 1] = row
      /\ \A i \in DOMAIN results : results'[i] = results[i]
      /\ \A i \in DOMAIN results' : i \in DOMAIN results \/ i = Len(results) + 1
  BY NewRow, Zenon
<1>2. QED BY <1>1, Zenon DEF RunBegun, Begun

\* evaluateSubcontrol finds an automatic status.
LEMMA VerdictType == \A s, x : Verdicts(s, x) \subseteq Automatic
BY Zenon DEF Verdicts, Automatic

\* Every step preserves the order of the results.
LEMMA StepOrderInv == OrderInv /\ [Next]_vars => OrderInv'
<1> SUFFICES ASSUME OrderInv, [Next]_vars PROVE OrderInv'
  BY Zenon
<1> USE DEF OrderInv
<1>1. CASE UNCHANGED <<runVars, results>>
  <2>1. RunTypes' /\ SubsCovered'
    BY <1>1, Zenon DEF RunTypes, SubsCovered, runVars
  <2>2. OnlyBegun'
    BY <1>1, Zenon DEF OnlyBegun, RunBegun, Begun, runVars
  <2>3. ParentAfterSubs'
    BY <1>1, Zenon DEF ParentAfterSubs, ResultAt, runVars
  <2>4. QED BY <2>1, <2>2, <2>3, Zenon
<1>2. ASSUME NEW s \in Services, NEW x \in Controls, NEW v \in Manual, NEW t \in 0..MaxTime,
             CreateEvaluationResult(s, x, v, t)
      PROVE  OrderInv'
  <2> DEFINE row == Row(s, x, v, t, None)
  <2>1. results' = Append(results, row) /\ UNCHANGED runVars
    BY <1>2, Zenon DEF CreateEvaluationResult
  <2>2. row.run = None /\ None \notin Runs
    BY SubControlsAreControls, Zenon DEF Row
  <2> HIDE DEF row
  <2>3. ParentAfterSubs'
    BY <2>1, <2>2, NewRowKeepsOrder, Zenon DEF RunTypes, runVars
  <2>4. \A i \in DOMAIN results' : RunBegun(results[i].run)'
    BY <2>1, <2>2, NewRowKeepsBegun, Zenon DEF RunTypes, OnlyBegun, RunBegun, runVars
  <2>5. RunTypes'
    BY <2>1, NewRow, Zenon DEF RunTypes, runVars
  <2>6. SubsCovered' /\ OnlyBegun'
    BY <2>1, <2>4, Zenon DEF SubsCovered, OnlyBegun, RunBegun, Begun, runVars
  <2>7. QED BY <2>3, <2>5, <2>6, Zenon
<1>a. ASSUME NEW r \in Runs, NEW x \in Subs, sub[<<r, x>>] # "none",
             NEW v \in SubType \ {"none"}, sub' = [sub EXCEPT ![<<r, x>>] = v],
             UNCHANGED <<rpc, controls, manual, ppc, results>>
      PROVE  OrderInv'
  <2>1. RunTypes'
    BY <1>a, Zenon DEF RunTypes
  <2>2. \A q \in Runs, y \in Subs : sub'[<<q, y>>] # "none" <=> sub[<<q, y>>] # "none"
    BY <1>a, Zenon DEF RunTypes
  <2>3. OnlyBegun'
    BY <1>a, <2>2, Zenon DEF OnlyBegun, RunBegun, Begun
  <2>4. SubsCovered'
    BY <1>a, <2>2, SubControlsAreControls, Zenon DEF SubsCovered
  <2>5. ParentAfterSubs'
    BY <1>a, Zenon DEF ParentAfterSubs, ResultAt
  <2>6. QED BY <2>1, <2>3, <2>4, <2>5, Zenon
<1>b. ASSUME NEW row, results' = Append(results, row), row.run \in Runs,
             row.control \notin Parents, Begun(row.run),
             UNCHANGED <<rpc, controls, manual, ppc, sub>>
      PROVE  OrderInv'
  <2>1. ParentAfterSubs'
    BY <1>b, NewRowKeepsOrder, Zenon DEF RunTypes
  <2>2. \A i \in DOMAIN results' : RunBegun(results[i].run)'
    BY <1>b, NewRowKeepsBegun, Zenon DEF RunTypes, OnlyBegun, RunBegun
  <2>3. RunTypes'
    BY <1>b, NewRow, Zenon DEF RunTypes
  <2>4. SubsCovered' /\ OnlyBegun'
    BY <1>b, <2>2, Zenon DEF SubsCovered, OnlyBegun, RunBegun, Begun
  <2>5. QED BY <2>1, <2>3, <2>4, Zenon
<1>3. ASSUME NEW r \in Runs, rpc[r] \notin {"wait", "done"} \/ rpc'[r] \in {"wait", "done"},
             NEW to \in RpcType, rpc' = [rpc EXCEPT ![r] = to],
             controls' \in [Runs -> SUBSET Parents], UNCHANGED <<manual, ppc, sub, results>>
      PROVE  OrderInv'
  <2>1. RunTypes'
    BY <1>3, Zenon DEF RunTypes
  <2>2. \A q \in Runs : Begun(q) => Begun(q)'
    BY <1>3, Zenon DEF RunTypes, Begun
  <2>3. OnlyBegun'
    BY <1>3, <2>2, Zenon DEF OnlyBegun, RunBegun
  <2>4. SubsCovered' /\ ParentAfterSubs'
    BY <1>3, Zenon DEF SubsCovered, ParentAfterSubs, ResultAt
  <2>5. QED BY <2>1, <2>3, <2>4, Zenon
<1>4. ASSUME NEW r \in Runs, NEW c \in Calls, RunJob(r, c) PROVE OrderInv'
  <2>1. /\ rpc[r] = "none" /\ rpc' = [rpc EXCEPT ![r] = "controls"]
        /\ UNCHANGED <<controls, manual, ppc, sub, results>>
    BY <1>4, Zenon DEF RunJob, dataVars
  <2>2. QED BY <1>3, <2>1, Zenon DEF RunTypes, RpcType
<1>5. ASSUME NEW r \in Runs, ReadControls(r) PROVE OrderInv'
  <2>1. /\ rpc[r] = "controls" /\ rpc' = [rpc EXCEPT ![r] = "manual"]
        /\ controls' = [controls EXCEPT ![r] = cached \cap Parents]
        /\ UNCHANGED <<manual, ppc, sub, results>>
    BY <1>5, Zenon DEF ReadControls, dataVars
  <2>2. controls' \in [Runs -> SUBSET Parents]
    BY <2>1, Zenon DEF RunTypes
  <2>3. QED BY <1>3, <2>1, <2>2, Zenon DEF RpcType
<1>6. ASSUME NEW r \in Runs, StartControlsFails(r) PROVE OrderInv'
  <2>1. /\ rpc[r] = "manual" /\ rpc' = [rpc EXCEPT ![r] = "done"]
        /\ controls' = [controls EXCEPT ![r] = {}]
        /\ UNCHANGED <<manual, ppc, sub, results>>
    BY <1>6, Zenon DEF StartControlsFails, dataVars
  <2>2. controls' \in [Runs -> SUBSET Parents]
    BY <2>1, Zenon DEF RunTypes
  <2>3. QED BY <1>3, <2>1, <2>2, Zenon DEF RpcType
<1>7. ASSUME NEW r \in Runs, RunEnds(r) PROVE OrderInv'
  <2>1. /\ rpc' = [rpc EXCEPT ![r] = "done"]
        /\ UNCHANGED <<controls, manual, ppc, sub, results>>
    BY <1>7, Zenon DEF RunEnds, dataVars
  <2>2. rpc'[r] = "done"
    BY <2>1, Zenon DEF RunTypes
  <2>3. QED BY <1>3, <2>1, <2>2, Zenon DEF RunTypes, RpcType
<1>8. ASSUME NEW r \in Runs, StartControls(r) PROVE OrderInv'
  <2> DEFINE s == rserv[r]
             chosen == {p \in controls[r] : ToEvaluate(s, p)}
             subs == {x \in Subs : ToEvaluate(s, x) /\ \E p \in chosen : x \in Range(SubsOf[p])}
  <2>1. /\ rpc[r] = "manual" /\ rpc' = [rpc EXCEPT ![r] = "wait"] /\ UNCHANGED results
        /\ controls' = [controls EXCEPT ![r] = chosen]
    BY <1>8, Zenon DEF StartControls, dataVars
  <2>2. manual' = [y \in Runs \X Controls |-> IF y[1] = r THEN ManualStatus(s, y[2]) ELSE manual[y]]
    BY <1>8, Zenon DEF StartControls
  <2>3. ppc' = [y \in Runs \X Parents |-> IF y[1] = r /\ y[2] \in chosen THEN "wait" ELSE ppc[y]]
    BY <1>8, Zenon DEF StartControls
  <2>4. sub' = [y \in Runs \X Subs |-> IF y[1] = r /\ y[2] \in subs THEN "lookup" ELSE sub[y]]
    BY <1>8, Zenon DEF StartControls
  <2>5. chosen \subseteq Parents
    BY Zenon DEF RunTypes
  <2>6. \A x \in Subs : x \in subs <=> ToEvaluate(s, x) /\ \E p \in chosen : x \in Range(SubsOf[p])
    BY Zenon
  <2> HIDE DEF s, chosen, subs
  <2>7. /\ \A x \in Controls : manual'[<<r, x>>] = ManualStatus(s, x)
        /\ \A q \in Runs, x \in Controls : q # r => manual'[<<q, x>>] = manual[<<q, x>>]
    BY <2>2, Zenon
  <2>8. \A q \in Runs, p \in Parents :
          ppc'[<<q, p>>] = IF q = r /\ p \in chosen THEN "wait" ELSE ppc[<<q, p>>]
    BY <2>3, Zenon
  <2>9. \A q \in Runs, x \in Subs :
          sub'[<<q, x>>] = IF q = r /\ x \in subs THEN "lookup" ELSE sub[<<q, x>>]
    BY <2>4, Zenon
  <2>10. Begun(r)' /\ ~Begun(r) /\ \A q \in Runs : Begun(q) => Begun(q)'
    BY <2>1, Zenon DEF RunTypes, Begun
  <2>11. RunTypes'
    <3>1. rpc' \in [Runs -> RpcType] /\ controls' \in [Runs -> SUBSET Parents]
      BY <2>1, <2>5, Zenon DEF RunTypes, RpcType
    <3>2. ppc' \in [Runs \X Parents -> {"none", "wait", "done"}]
      BY <2>3, Zenon DEF RunTypes
    <3>3. sub' \in [Runs \X Subs -> SubType]
      BY <2>4, Zenon DEF RunTypes, SubType
    <3>4. QED BY <2>1, <3>1, <3>2, <3>3, Zenon DEF RunTypes
  <2>12. OnlyBegun'
    <3>1. \A i \in DOMAIN results' : RunBegun(results[i].run)'
      BY <2>1, <2>10, Zenon DEF OnlyBegun, RunBegun
    <3>2. \A q \in Runs, p \in Parents : ppc'[<<q, p>>] # "none" => Begun(q)'
      BY <2>8, <2>10, Zenon DEF OnlyBegun, RunBegun
    <3>3. \A q \in Runs, x \in Subs : sub'[<<q, x>>] # "none" => Begun(q)'
      BY <2>9, <2>10, Zenon DEF OnlyBegun, RunBegun
    <3>4. QED BY <3>1, <3>2, <3>3, Zenon DEF OnlyBegun, RunBegun
  <2>13. SubsCovered'
    <3> SUFFICES ASSUME NEW q \in Runs, NEW p \in Parents, ppc'[<<q, p>>] = "wait",
                        NEW x \in Range(SubsOf[p]) \cap Relevant, manual'[<<q, x>>] = None
                 PROVE  sub'[<<q, x>>] # "none"
      BY Zenon DEF SubsCovered
    <3>1. x \in Subs /\ x \in Controls
      BY SubControlsAreControls, Zenon
    <3>2. CASE q = r
      <4>1. p \in chosen
        BY <2>8, <2>10, <3>2, Zenon DEF OnlyBegun, RunBegun
      <4>2. ToEvaluate(s, x)
        BY <2>7, <3>1, <3>2, Zenon DEF ToEvaluate
      <4>3. QED BY <2>6, <2>9, <3>1, <3>2, <4>1, <4>2, Zenon
    <3>3. CASE q # r
      <4>1. ppc[<<q, p>>] = "wait" /\ manual[<<q, x>>] = None /\ sub'[<<q, x>>] = sub[<<q, x>>]
        BY <2>7, <2>8, <2>9, <3>1, <3>3, Zenon
      <4>2. QED BY <4>1, Zenon DEF SubsCovered
    <3>4. QED BY <3>2, <3>3, Zenon
  <2>14. ParentAfterSubs'
    <3>1. \A i \in DOMAIN results : results[i].run # r
      BY <2>10, SubControlsAreControls, Zenon DEF OnlyBegun, RunBegun
    <3> SUFFICES ASSUME NEW i \in DOMAIN results, results[i].run # None,
                        results[i].control \in Parents,
                        NEW x \in Range(SubsOf[results[i].control]) \cap Relevant
                 PROVE  \/ manual'[<<results[i].run, x>>] # None
                        \/ \E j \in ResultAt(results[i].run, x) : j < i
      BY <2>1, Zenon DEF ParentAfterSubs, ResultAt
    <3>2. x \in Controls
      BY SubControlsAreControls, Zenon
    <3>3. manual'[<<results[i].run, x>>] = manual[<<results[i].run, x>>]
      BY <2>7, <3>1, <3>2, Zenon DEF OnlyBegun, RunBegun
    <3>4. QED BY <3>3, Zenon DEF ParentAfterSubs
  <2>15. QED BY <2>11, <2>12, <2>13, <2>14, Zenon
<1>9. ASSUME NEW r \in Runs, NEW x \in Subs, EvaluateSubcontrol(r, x) PROVE OrderInv'
  <2>1. PICK v \in Automatic \cup {"error"} : sub' = [sub EXCEPT ![<<r, x>>] = v]
    <3>1. CASE \E v \in Verdicts(rserv[r], x) : sub' = [sub EXCEPT ![<<r, x>>] = v]
      BY <3>1, VerdictType, Zenon
    <3>2. QED BY <1>9, <3>1, Zenon DEF EvaluateSubcontrol
  <2>2. sub[<<r, x>>] = "lookup" /\ UNCHANGED <<rpc, controls, manual, ppc, results>>
    BY <1>9, Zenon DEF EvaluateSubcontrol, dataVars
  <2>3. v \in SubType \ {"none"} /\ sub[<<r, x>>] # "none"
    BY <2>2, Zenon DEF SubType, Automatic
  <2>4. QED BY <1>a, <2>1, <2>2, <2>3, Zenon
<1>10. ASSUME NEW r \in Runs, NEW x \in Subs, StoreSubcontrol(r, x) PROVE OrderInv'
  <2>1. sub[<<r, x>>] \in Automatic /\ UNCHANGED <<rpc, controls, manual, ppc>>
    BY <1>10, Zenon DEF StoreSubcontrol
  <2>2. sub[<<r, x>>] # "none"
    BY <2>1, Zenon DEF Automatic
  <2>3. CASE sub' = [sub EXCEPT ![<<r, x>>] = "error"] /\ UNCHANGED results
    <3>1. "error" \in SubType \ {"none"}
      BY Zenon DEF SubType
    <3>2. QED BY <1>a, <2>1, <2>2, <2>3, <3>1, Zenon
  <2>4. CASE results' = Append(results, Row(rserv[r], x, sub[<<r, x>>], None, r)) /\ UNCHANGED sub
    <3>1. PICK row : /\ results' = Append(results, row) /\ row.run = r /\ row.control = x
      BY <2>4 DEF Row
    <3>2. row.control \notin Parents
      BY <3>1, SubControlsAreControls, Zenon
    <3>3. Begun(row.run)
      BY <2>2, <3>1, Zenon DEF OnlyBegun, RunBegun
    <3>4. QED BY <1>b, <2>1, <2>4, <3>1, <3>2, <3>3, Zenon
  <2>5. QED BY <1>10, <2>3, <2>4, Zenon DEF StoreSubcontrol
<1>11. ASSUME NEW r \in Runs, NEW p \in Parents, EvaluateControl(r, p) PROVE OrderInv'
  <2>1. /\ ppc[<<r, p>>] = "wait" /\ SubsFinished(r, p)
        /\ ppc' = [ppc EXCEPT ![<<r, p>>] = "done"] /\ UNCHANGED <<rpc, controls, manual, sub>>
    BY <1>11, Zenon DEF EvaluateControl
  <2>2. ppc' \in [Runs \X Parents -> {"none", "wait", "done"}]
    BY <2>1, Zenon DEF RunTypes
  <2>3. \A q \in Runs, o \in Parents :
          /\ ppc'[<<q, o>>] = "wait" => ppc[<<q, o>>] = "wait"
          /\ ppc'[<<q, o>>] # "none" => ppc[<<q, o>>] # "none"
    BY <2>1, Zenon DEF RunTypes
  <2>4. SubsCovered'
    BY <2>1, <2>3, Zenon DEF SubsCovered
  <2>5. /\ \A q \in Runs, o \in Parents : ppc'[<<q, o>>] # "none" => Begun(q)'
        /\ \A q \in Runs, x \in Subs : sub'[<<q, x>>] # "none" => Begun(q)'
    BY <2>1, <2>3, Zenon DEF OnlyBegun, RunBegun, Begun
  <2>6. CASE UNCHANGED results
    <3>1. RunTypes'
      BY <2>1, <2>2, <2>6, Zenon DEF RunTypes
    <3>2. OnlyBegun'
      BY <2>1, <2>5, <2>6, Zenon DEF OnlyBegun, RunBegun, Begun
    <3>3. ParentAfterSubs'
      BY <2>1, <2>6, Zenon DEF ParentAfterSubs, ResultAt
    <3>4. QED BY <2>4, <3>1, <3>2, <3>3, Zenon
  <2>7. CASE /\ \A x \in Range(SubsOf[p]) : sub[<<r, x>>] # "error"
             /\ results' # results
    <3>1. PICK row : results' = Append(results, row) /\ row.run = r /\ row.control = p
      <4>1. PICK v : results' = Append(results, Row(rserv[r], p, v, None, r))
        BY <1>11, <2>7, Zenon DEF EvaluateControl
      <4>2. QED BY <4>1 DEF Row
    <3>2. \A x \in Range(SubsOf[p]) \cap Relevant : manual[<<r, x>>] # None \/ Stored(r, x)
      BY <2>1, <2>7, Zenon DEF SubsFinished, SubsCovered
    <3>3. ParentAfterSubs'
      BY <2>1, <3>1, <3>2, NewRowKeepsOrder, Zenon DEF RunTypes
    <3>4. Begun(r)
      BY <2>1, Zenon DEF OnlyBegun, RunBegun
    <3>5. \A i \in DOMAIN results' : RunBegun(results[i].run)'
      BY <2>1, <3>1, <3>4, NewRowKeepsBegun, Zenon DEF RunTypes, OnlyBegun, RunBegun
    <3>6. RunTypes'
      BY <2>1, <2>2, <3>1, NewRow, Zenon DEF RunTypes
    <3>7. QED BY <2>4, <2>5, <3>3, <3>5, <3>6, Zenon DEF OnlyBegun, RunBegun
  <2>8. QED BY <1>11, <2>6, <2>7, Zenon DEF EvaluateControl
<1>12. CASE UNCHANGED vars
  BY <1>1, <1>12, Zenon DEF vars, dataVars
<1>13. CASE Next
  BY <1>1, <1>2, <1>4, <1>5, <1>6, <1>7, <1>8, <1>9, <1>10, <1>11, <1>13, OtherSteps, Zenon
     DEF Run
<1>14. QED BY <1>12, <1>13, Zenon

\* The order of the results is an invariant.
LEMMA OrderInvariant == Spec => []OrderInv
<1>1. Init => OrderInv
  <2> SUFFICES ASSUME Init PROVE OrderInv
    BY Zenon
  <2>1. results \in Seq({}) /\ DOMAIN results = {}
    BY DEF Init
  <2>2. RunTypes
    BY <2>1, Zenon DEF Init, RunTypes, RpcType, SubType
  <2>3. OnlyBegun /\ SubsCovered /\ ParentAfterSubs
    BY <2>1, Zenon DEF Init, OnlyBegun, SubsCovered, ParentAfterSubs
  <2>4. QED BY <2>2, <2>3, Zenon DEF OrderInv
<1>2. QED BY <1>1, StepOrderInv, PTL DEF Spec

\* "the method needs to wait till all sub-controls are evaluated": whatever the
\* runs, the failures and the results made by hand meanwhile, the result of a
\* control comes after those of its relevant sub-controls.
THEOREM ControlsWaitForSubControls == Spec => []ParentAfterSubs
<1>1. OrderInv => ParentAfterSubs
  BY Zenon DEF OrderInv
<1>2. QED BY <1>1, OrderInvariant, PTL

-----------------------------------------------------------------------------
(***************************************************************************)
(* AllControlsEvaluated, for one call of StartEvaluation and calls that    *)
(* succeed.  A second call empties the map of controls while runs read it, *)
(* and a failure ends a goroutine without a result.                        *)
(***************************************************************************)
OneCall == ~MayFail /\ \A c, d \in Calls : c = d

\* The map is complete before a job is added, and stays so.
MapComplete ==
  /\ spc \in [Calls -> {"idle", "cache", "fill", "find", "add", "done"}]
  /\ todo \in [Calls -> SUBSET Controls]
  /\ \A c \in Calls : spc[c] = "fill" => Controls \subseteq cached \cup todo[c]
  /\ \A c \in Calls : spc[c] \in {"find", "add", "done"} => Controls \subseteq cached
  /\ \A c \in jobs : c \in Calls /\ spc[c] = "done"
  /\ \A r \in Runs : rpc[r] # "none" => \E c \in Calls : spc[c] = "done"

\* What a run has done, and has yet to do, for the top-level controls.
RunProgress(r) ==
  /\ rpc[r] = "manual" => controls[r] = Parents
  /\ Begun(r) => \A p \in Parents \cap Relevant :
                   p \in controls[r] \/ manual[<<r, p>>] # None
  /\ rpc[r] = "done" => \A p \in controls[r] : ppc[<<r, p>>] = "done"
  /\ \A p \in Parents : ppc[<<r, p>>] = "done" => Stored(r, p)
  /\ \A x \in Subs : sub[<<r, x>>] # "error"

Progress == \A r \in Runs : RunProgress(r)

CompleteInv == MapComplete /\ Progress

\* The calls of StartEvaluation, the scheduler and the runs keep the map complete.
LEMMA StepMapComplete ==
  ASSUME OneCall, RunTypes, MapComplete, [Next]_vars
  PROVE  MapComplete'
<1> USE DEF MapComplete
<1>1. ASSUME UNCHANGED <<spc, todo, cached>>, jobs' \subseteq jobs,
             \A r \in Runs : rpc'[r] # "none" => \E c \in Calls : spc[c] = "done"
      PROVE  MapComplete'
  BY <1>1, Zenon
<1>2. ASSUME UNCHANGED <<startVars, cached>>,
             NEW r \in Runs, rpc[r] # "none", NEW to, rpc' = [rpc EXCEPT ![r] = to]
      PROVE  MapComplete'
  <2>1. \A q \in Runs : rpc'[q] # "none" => rpc[q] # "none"
    BY <1>2, Zenon DEF RunTypes
  <2>2. QED BY <1>1, <1>2, <2>1, Zenon DEF startVars
<1>3. ASSUME UNCHANGED <<startVars, cached, rpc>> PROVE MapComplete'
  BY <1>1, <1>3, Zenon DEF startVars
<1>4. ASSUME NEW c \in Calls, NEW s \in Services, StartEvaluation(c, s) PROVE MapComplete'
  BY <1>4, Zenon DEF StartEvaluation, At, runVars, dataVars
<1>5. ASSUME NEW c \in Calls, StartFails(c) PROVE MapComplete'
  BY <1>5, Zenon DEF StartFails, OneCall
<1>6. ASSUME NEW c \in Calls, CacheControls(c) PROVE MapComplete'
  <2>1. /\ spc[c] = "cache" /\ spc' = [spc EXCEPT ![c] = IF Controls = {} THEN "find" ELSE "fill"]
        /\ todo' = [todo EXCEPT ![c] = Controls] /\ UNCHANGED <<jobs, rpc>>
    BY <1>6, Zenon DEF CacheControls, At, runVars
  <2>2. \A d \in Calls : d = c
    BY Zenon DEF OneCall
  <2>3. /\ spc' \in [Calls -> {"idle", "cache", "fill", "find", "add", "done"}]
        /\ todo' \in [Calls -> SUBSET Controls]
        /\ spc'[c] = IF Controls = {} THEN "find" ELSE "fill"
        /\ todo'[c] = Controls
    BY <2>1, Zenon
  <2>4. jobs = {} /\ \A r \in Runs : rpc[r] = "none"
    BY <2>1, <2>2, Zenon
  <2>5. QED BY <2>1, <2>2, <2>3, <2>4, Zenon
<1>7. ASSUME NEW c \in Calls, NEW x \in Controls, CacheControl(c, x) PROVE MapComplete'
  <2>1. /\ spc[c] = "fill" /\ x \in todo[c] /\ cached' = cached \cup {x}
        /\ todo' = [todo EXCEPT ![c] = todo[c] \ {x}]
        /\ spc' = [spc EXCEPT ![c] = IF todo[c] = {x} THEN "find" ELSE "fill"]
        /\ UNCHANGED <<jobs, rpc>>
    BY <1>7, Zenon DEF CacheControl, LastControl, runVars
  <2>2. \A d \in Calls : d = c
    BY Zenon DEF OneCall
  <2>3. /\ spc' \in [Calls -> {"idle", "cache", "fill", "find", "add", "done"}]
        /\ todo' \in [Calls -> SUBSET Controls]
        /\ spc'[c] = IF todo[c] = {x} THEN "find" ELSE "fill"
        /\ todo'[c] = todo[c] \ {x}
    BY <2>1, Zenon
  <2>4. Controls \subseteq cached' \cup todo'[c]
    BY <2>1, <2>3, Zenon
  <2>5. todo[c] = {x} => Controls \subseteq cached'
    BY <2>1, Zenon
  <2>6. jobs = {} /\ \A r \in Runs : rpc[r] = "none"
    BY <2>1, <2>2, Zenon
  <2>7. QED BY <2>1, <2>2, <2>3, <2>4, <2>5, <2>6, Zenon
<1>8. ASSUME NEW c \in Calls, FindJobs(c) PROVE MapComplete'
  <2>1. /\ spc[c] = "find" /\ UNCHANGED <<jobs, todo, cached, rpc>>
        /\ \E to \in {"add", "done"} : spc' = [spc EXCEPT ![c] = to]
    BY <1>8, Zenon DEF FindJobs, At, runVars
  <2>2. QED BY <2>1, Zenon
<1>9. ASSUME NEW c \in Calls, AddJobToScheduler(c) PROVE MapComplete'
  <2>1. /\ spc[c] = "add" /\ UNCHANGED <<todo, cached, rpc>>
        /\ spc' = [spc EXCEPT ![c] = "done"] /\ jobs' = jobs \cup {c}
    BY <1>9, Zenon DEF AddJobToScheduler, At, runVars
  <2>2. QED BY <2>1, Zenon
<1>10. ASSUME NEW s \in Services, StopEvaluation(s) PROVE MapComplete'
  <2>1. jobs' \subseteq jobs /\ UNCHANGED <<spc, todo, cached, rpc>>
    BY <1>10, Zenon DEF StopEvaluation, runVars
  <2>2. QED BY <1>1, <2>1, Zenon
<1>11. ASSUME NEW r \in Runs, NEW c \in Calls, RunJob(r, c) PROVE MapComplete'
  <2>1. spc[c] = "done" /\ UNCHANGED <<startVars, cached>>
    BY <1>11, Zenon DEF RunJob
  <2>2. QED BY <1>1, <2>1, Zenon DEF startVars
<1>12. ASSUME NEW r \in Runs, ReadControls(r) \/ StartControls(r) \/ StartControlsFails(r) \/ RunEnds(r)
       PROVE  MapComplete'
  <2>1. UNCHANGED <<startVars, cached>> /\ rpc[r] # "none" /\ \E to : rpc' = [rpc EXCEPT ![r] = to]
    BY <1>12, Zenon DEF ReadControls, StartControls, StartControlsFails, RunEnds
  <2>2. QED BY <1>2, <2>1, Zenon
<1>13. ASSUME NEW r \in Runs, NEW x \in Subs, EvaluateSubcontrol(r, x) \/ StoreSubcontrol(r, x)
       PROVE  MapComplete'
  BY <1>3, <1>13, Zenon DEF EvaluateSubcontrol, StoreSubcontrol
<1>14. ASSUME NEW r \in Runs, NEW p \in Parents, EvaluateControl(r, p) PROVE MapComplete'
  BY <1>3, <1>14, Zenon DEF EvaluateControl
<1>15. ASSUME NEW s \in Services, NEW x \in Controls, NEW v, NEW t,
              CreateEvaluationResult(s, x, v, t) \/ AssessmentResultsChange(s, x, v)
       PROVE  MapComplete'
  BY <1>3, <1>15, Zenon DEF CreateEvaluationResult, AssessmentResultsChange, runVars
<1>16. CASE Tick \/ ConcurrentMapAccess
  BY <1>3, <1>16, Zenon DEF Tick, ConcurrentMapAccess, runVars
<1>17. CASE UNCHANGED vars
  BY <1>3, <1>17, Zenon DEF vars, runVars
<1>18. QED
  BY <1>4, <1>5, <1>6, <1>7, <1>8, <1>9, <1>10, <1>11, <1>12, <1>13, <1>14, <1>15, <1>16,
     <1>17, SubControlsAreControls, Zenon DEF Next, Start, Run

\* A step that only adds rows keeps the progress of the runs.
LEMMA RowsKeepProgress ==
  ASSUME RunTypes, Progress, UNCHANGED <<rpc, controls, manual, ppc, sub>>,
         UNCHANGED results \/ \E row : results' = Append(results, row)
  PROVE  Progress'
<1>1. \A r, x : Stored(r, x) => Stored(r, x)'
  BY NewRow, Zenon DEF RunTypes, Stored
<1>2. QED BY <1>1, Zenon DEF Progress, RunProgress, Begun

\* Every step keeps the progress of the runs.
LEMMA StepProgress ==
  ASSUME OneCall, OrderInv, MapComplete, Progress, [Next]_vars
  PROVE  Progress'
<1> USE DEF OrderInv
<1>1. CASE UNCHANGED <<runVars, results>>
  BY <1>1, RowsKeepProgress, Zenon DEF runVars
<1>2. ASSUME NEW s \in Services, NEW x \in Controls, NEW v \in Manual, NEW t \in 0..MaxTime,
             CreateEvaluationResult(s, x, v, t)
      PROVE  Progress'
  BY <1>2, RowsKeepProgress, Zenon DEF CreateEvaluationResult, runVars
<1>a. ASSUME NEW r \in Runs, rpc[r] # "none" PROVE Controls \subseteq cached
  BY <1>a, Zenon DEF MapComplete
<1>b. ASSUME UNCHANGED results PROVE \A q, x : Stored(q, x)' = Stored(q, x)
  BY <1>b, Zenon DEF Stored
<1>3. ASSUME NEW r \in Runs, NEW to, rpc' = [rpc EXCEPT ![r] = to],
             \A q \in Runs : q # r => controls'[q] = controls[q],
             UNCHANGED <<manual, ppc, sub, results>>, RunProgress(r)'
      PROVE  Progress'
  <2>1. \A q \in Runs : q # r => rpc'[q] = rpc[q]
    BY <1>3, Zenon DEF RunTypes
  <2>2. ASSUME NEW q \in Runs, q # r PROVE RunProgress(q)'
    <3>1. /\ rpc'[q] = rpc[q] /\ controls'[q] = controls[q] /\ UNCHANGED <<manual, ppc, sub>>
          /\ \A x : Stored(q, x)' = Stored(q, x)
      BY <1>3, <1>b, <2>1, <2>2, Zenon
    <3>2. RunProgress(q)
      BY Zenon DEF Progress
    <3>3. QED BY <3>1, <3>2, Zenon DEF RunProgress, Begun
  <2>3. QED BY <1>3, <2>2, Zenon DEF Progress
<1>4. ASSUME NEW r \in Runs, NEW c \in Calls, RunJob(r, c) PROVE Progress'
  <2>1. /\ rpc' = [rpc EXCEPT ![r] = "controls"] /\ UNCHANGED <<controls, manual, ppc, sub, results>>
    BY <1>4, Zenon DEF RunJob, dataVars
  <2>2. rpc'[r] = "controls"
    BY <2>1, Zenon DEF RunTypes
  <2>3. RunProgress(r)'
    BY <1>b, <2>1, <2>2, Zenon DEF Progress, RunProgress, Begun
  <2>4. QED BY <1>3, <2>1, <2>3, Zenon
<1>5. ASSUME NEW r \in Runs, ReadControls(r) PROVE Progress'
  <2>1. /\ rpc[r] = "controls" /\ rpc' = [rpc EXCEPT ![r] = "manual"]
        /\ controls' = [controls EXCEPT ![r] = cached \cap Parents]
        /\ UNCHANGED <<manual, ppc, sub, results>>
    BY <1>5, Zenon DEF ReadControls, dataVars
  <2>2. cached \cap Parents = Parents
    BY <1>a, <2>1, SubControlsAreControls, Zenon
  <2>3. /\ rpc'[r] = "manual" /\ controls'[r] = Parents
        /\ \A q \in Runs : q # r => controls'[q] = controls[q]
    BY <2>1, <2>2, Zenon DEF RunTypes
  <2>4. RunProgress(r)'
    <3>1. RunProgress(r)
      BY Zenon DEF Progress
    <3>2. QED BY <1>b, <2>1, <2>3, <3>1, Zenon DEF RunProgress, Begun
  <2>5. QED BY <1>3, <2>1, <2>3, <2>4, Zenon
<1>6. ASSUME NEW r \in Runs, RunEnds(r) PROVE Progress'
  <2>1. /\ rpc[r] = "wait" /\ rpc' = [rpc EXCEPT ![r] = "done"]
        /\ \A p \in controls[r] : ppc[<<r, p>>] = "done"
        /\ UNCHANGED <<controls, manual, ppc, sub, results>>
    BY <1>6, Zenon DEF RunEnds, dataVars
  <2>2. rpc'[r] = "done"
    BY <2>1, Zenon DEF RunTypes
  <2>3. RunProgress(r)'
    BY <1>b, <2>1, <2>2, Zenon DEF Progress, RunProgress, Begun
  <2>4. QED BY <1>3, <2>1, <2>3, Zenon
<1>7. ASSUME NEW r \in Runs, StartControls(r) PROVE Progress'
  <2> DEFINE s == rserv[r]
             chosen == {p \in controls[r] : ToEvaluate(s, p)}
             subs == {x \in Subs : ToEvaluate(s, x) /\ \E p \in chosen : x \in Range(SubsOf[p])}
  <2>1. /\ rpc[r] = "manual" /\ rpc' = [rpc EXCEPT ![r] = "wait"] /\ UNCHANGED results
        /\ controls' = [controls EXCEPT ![r] = chosen]
    BY <1>7, Zenon DEF StartControls, dataVars
  <2>2. manual' = [y \in Runs \X Controls |-> IF y[1] = r THEN ManualStatus(s, y[2]) ELSE manual[y]]
    BY <1>7, Zenon DEF StartControls
  <2>3. ppc' = [y \in Runs \X Parents |-> IF y[1] = r /\ y[2] \in chosen THEN "wait" ELSE ppc[y]]
    BY <1>7, Zenon DEF StartControls
  <2>4. sub' = [y \in Runs \X Subs |-> IF y[1] = r /\ y[2] \in subs THEN "lookup" ELSE sub[y]]
    BY <1>7, Zenon DEF StartControls
  <2>5. \A p \in Parents : p \in chosen <=> ToEvaluate(s, p)
    BY <2>1, Zenon DEF Progress, RunProgress
  <2> HIDE DEF s, chosen, subs
  <2>6. /\ \A x \in Controls : manual'[<<r, x>>] = ManualStatus(s, x)
        /\ \A q \in Runs, x \in Controls : q # r => manual'[<<q, x>>] = manual[<<q, x>>]
    BY <2>2, Zenon
  <2>7. \A q \in Runs, p \in Parents :
          ppc'[<<q, p>>] = IF q = r /\ p \in chosen THEN "wait" ELSE ppc[<<q, p>>]
    BY <2>3, Zenon
  <2>8. \A q \in Runs, x \in Subs :
          sub'[<<q, x>>] = IF q = r /\ x \in subs THEN "lookup" ELSE sub[<<q, x>>]
    BY <2>4, Zenon
  <2>9. /\ rpc'[r] = "wait" /\ controls'[r] = chosen
        /\ \A q \in Runs : q # r => rpc'[q] = rpc[q] /\ controls'[q] = controls[q]
    BY <2>1, Zenon DEF RunTypes
  <2>10. \A q, x : Stored(q, x)' = Stored(q, x)
    BY <1>b, <2>1, Zenon
  <2>11. \A q \in Runs, x \in Subs : sub'[<<q, x>>] # "error"
    BY <2>8, Zenon DEF Progress, RunProgress
  <2>12. \A q \in Runs, p \in Parents : ppc'[<<q, p>>] = "done" => Stored(q, p)'
    BY <2>7, <2>10, Zenon DEF Progress, RunProgress
  <2>13. RunProgress(r)'
    <3>1. \A p \in Parents \cap Relevant : p \in chosen \/ manual'[<<r, p>>] # None
      BY <2>5, <2>6, SubControlsAreControls, Zenon DEF ToEvaluate
    <3>2. QED BY <2>9, <2>11, <2>12, <3>1, Zenon DEF RunProgress
  <2>14. ASSUME NEW q \in Runs, q # r PROVE RunProgress(q)'
    <3>1. \A p \in Parents : manual'[<<q, p>>] = manual[<<q, p>>] /\ ppc'[<<q, p>>] = ppc[<<q, p>>]
      BY <2>6, <2>7, <2>14, SubControlsAreControls, Zenon
    <3>2. controls[q] \subseteq Parents /\ RunProgress(q)
      BY Zenon DEF RunTypes, Progress
    <3>3. QED BY <2>9, <2>11, <2>12, <2>14, <3>1, <3>2, Zenon DEF RunProgress, Begun
  <2>15. QED BY <2>13, <2>14, Zenon DEF Progress
<1>8. ASSUME NEW r \in Runs, NEW x \in Subs, EvaluateSubcontrol(r, x) PROVE Progress'
  <2>1. sub[<<r, x>>] = "lookup" /\ UNCHANGED <<rpc, controls, manual, ppc, results>>
    BY <1>8, Zenon DEF EvaluateSubcontrol, dataVars
  <2>2. rpc[r] # "none"
    BY <2>1, Zenon DEF OnlyBegun, Begun
  <2>3. x \in cached
    BY <1>a, <2>2, SubControlsAreControls, Zenon
  <2>4. PICK v \in Automatic : sub' = [sub EXCEPT ![<<r, x>>] = v]
    BY <1>8, <2>3, VerdictType, Zenon DEF EvaluateSubcontrol
  <2>5. v # "error"
    BY Zenon DEF Automatic
  <2>6. \A q \in Runs, y \in Subs : sub'[<<q, y>>] # "error"
    <3>1. \A q \in Runs, y \in Subs : sub'[<<q, y>>] \in {v, sub[<<q, y>>]}
      BY <2>4, Zenon DEF RunTypes
    <3>2. QED BY <2>5, <3>1, Zenon DEF Progress, RunProgress
  <2>7. QED BY <1>b, <2>1, <2>6, Zenon DEF Progress, RunProgress, Begun
<1>9. ASSUME NEW r \in Runs, NEW x \in Subs, StoreSubcontrol(r, x) PROVE Progress'
  BY <1>9, RowsKeepProgress, Zenon DEF StoreSubcontrol, OneCall
<1>10. ASSUME NEW r \in Runs, NEW p \in Parents, EvaluateControl(r, p) PROVE Progress'
  <2>1. /\ ppc' = [ppc EXCEPT ![<<r, p>>] = "done"] /\ UNCHANGED <<rpc, controls, manual, sub>>
    BY <1>10, Zenon DEF EvaluateControl
  <2>2. PICK v : results' = Append(results, Row(rserv[r], p, v, None, r))
    BY <1>10, SubControlsAreControls, Zenon DEF EvaluateControl, OneCall, Progress, RunProgress
  <2>3. PICK row : results' = Append(results, row) /\ row.run = r /\ row.control = p
    BY <2>2 DEF Row
  <2>4. Stored(r, p)' /\ \A q, y : Stored(q, y) => Stored(q, y)'
    BY <2>3, NewRow, Zenon DEF RunTypes, Stored
  <2>5. \A q \in Runs, o \in Parents :
          ppc'[<<q, o>>] = IF q = r /\ o = p THEN "done" ELSE ppc[<<q, o>>]
    BY <2>1, Zenon DEF RunTypes
  <2>6. \A q \in Runs, o \in Parents : ppc'[<<q, o>>] = "done" => Stored(q, o)'
    BY <2>4, <2>5, Zenon DEF Progress, RunProgress
  <2>7. \A q \in Runs, o \in Parents : ppc[<<q, o>>] = "done" => ppc'[<<q, o>>] = "done"
    BY <2>5, Zenon
  <2>8. \A q \in Runs : controls[q] \subseteq Parents
    BY Zenon DEF RunTypes
  <2>9. ASSUME NEW q \in Runs PROVE RunProgress(q)'
    <3>1. RunProgress(q)
      BY Zenon DEF Progress
    <3>2. QED BY <2>1, <2>6, <2>7, <2>8, <3>1, Zenon DEF RunProgress, Begun
  <2>10. QED BY <2>9, Zenon DEF Progress
<1>11. ASSUME NEW r \in Runs, StartControlsFails(r) PROVE Progress'
  BY <1>11, Zenon DEF StartControlsFails, OneCall
<1>12. CASE UNCHANGED vars
  BY <1>1, <1>12, Zenon DEF vars, dataVars
<1>13. CASE Next
  BY <1>1, <1>2, <1>4, <1>5, <1>6, <1>7, <1>8, <1>9, <1>10, <1>11, <1>13, OtherSteps, Zenon
     DEF Run
<1>14. QED BY <1>12, <1>13, Zenon

\* "evaluateCatalog evaluates all [orchestrator.Control] items in the catalog": if
\* StartEvaluation is called once and the calls to the orchestrator and the database
\* succeed, a run that ends has, for each relevant control of any catalog, its
\* own result or a manual one, whatever else runs meanwhile.
THEOREM RunsEvaluateAllControls == ASSUME OneCall PROVE Spec => []AllControlsEvaluated
<1>1. Init => CompleteInv
  <2> SUFFICES ASSUME Init PROVE CompleteInv
    BY Zenon
  <2>1. MapComplete
    BY Zenon DEF Init, MapComplete
  <2>2. Progress
    BY Zenon DEF Init, Progress, RunProgress, Begun
  <2>3. QED BY <2>1, <2>2, Zenon DEF CompleteInv
<1>2. OrderInv /\ CompleteInv /\ [Next]_vars => CompleteInv'
  BY StepMapComplete, StepProgress, Zenon DEF CompleteInv, OrderInv
<1>3. CompleteInv => AllControlsEvaluated
  <2> SUFFICES ASSUME CompleteInv, NEW r \in Runs, rpc[r] = "done", NEW p \in Parents \cap Relevant,
                      manual[<<r, p>>] = None
               PROVE  ResultAt(r, p) # {}
    BY Zenon DEF AllControlsEvaluated
  <2>1. Stored(r, p)
    BY Zenon DEF CompleteInv, Progress, RunProgress, Begun
  <2>2. QED BY <2>1, Zenon DEF Stored, ResultAt
<1>4. QED BY <1>1, <1>2, <1>3, OrderInvariant, PTL DEF Spec
=============================================================================
