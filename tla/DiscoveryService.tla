-------------------------- MODULE DiscoveryService --------------------------
(***************************************************************************)
(* The discovery service on its own, with an assessment service that reads *)
(* what is on the stream; Pipeline has the real one.                       *)
(***************************************************************************)
EXTENDS Discovery

\* the assessment service, seen from here: it reads what is on the stream
HandOver == (\E ev \in aHeld : A!HandOver(ev)) /\ UNCHANGED <<startVars, runVars>>
Read == (\E ev \in aHanded : A!Take(ev)) /\ UNCHANGED <<startVars, runVars>>

vars == <<startVars, runVars, aVars>>

Init == DiscoveryInit

Next ==
  \/ \E s \in Calls : Start(s) \/ StartStep(s)
  \/ ShutdownCloseAll \/ ShutdownStop \/ ChangeCloud
  \/ \E r \in Runs : Trigger(r) \/ RunStep(r)
  \/ HandOver \/ Read

Spec == Init /\ [][Next]_vars

\* Go schedules every goroutine that can run; a call of Start and a run wait for
\* nothing but remote calls, which return
Fairness == \A r \in Runs : WF_vars(RunStep(r))

FairSpec == Spec /\ Fairness

(***************************************************************************)
(* Properties                                                              *)
(***************************************************************************)
TypeOK ==
  /\ Range(discoverers) \subseteq Names /\ jobs \subseteq Names
  /\ scheduler \in {"new", "running", "stopped"}
  /\ \A s \in Calls : spc[s] \in {"idle", "providers", "append", "schedule",
                                  "started", "failed"}
  /\ \A r \in Runs : rpc[r] \in {"idle", "list", "items", "send", "ended"}
  /\ \A x \in Resources : resources[x] \in Unknown..MaxVersion

\* Start reports success only when the scheduler has a job for every discoverer
\* of every provider and runs, or is being shut down, whatever calls failed before.
StartedMeansScheduled ==
  \A s \in Calls : spc[s] = "started" =>
    Names \subseteq jobs /\ (scheduler = "running" \/ closing)

\* At most one call of Start succeeds: a later one finds the tags of its jobs
\* taken.  (So a job is never scheduled twice.)
StartsOnce ==
  \A s, t \in Calls : spc[s] = "started" /\ spc[t] = "started" => s = t

\* The stored state of a resource is replaced by an older one only by a run that
\* overlapped another run of its discoverer: runs that follow each other never do it.
StaleOnlyByOverlap ==
  [][\A x \in Resources : resources'[x] < resources[x] =>
       \E q, r \in Runs : q # r /\ {q, r} \in met /\ rpc[r] = "items" /\ rpc'[r] = "send"]_vars

\* Every run ends, whatever fails.
RunsEnd == \A r \in Runs : rpc[r] = "list" ~> rpc[r] = "ended"
=============================================================================
