-------------------------------- MODULE Sinks --------------------------------
(***************************************************************************)
(* The two ends of the pipeline: service/evidence stores the evidences and *)
(* service/orchestrator the assessment results that arrive on the streams  *)
(* of the assessment service.  What fails is answered with status false,   *)
(* which the client's recvLoop discards.  The hooks are called, in a       *)
(* goroutine, for exactly the rows that were created.                      *)
(***************************************************************************)
CONSTANTS MayFail, Evidences, Results

VARIABLES
  evidences, results,  \* the two tables
  eHeld, eHanded, eGone, eUp, oHeld, oHanded, oGone, oUp

E == INSTANCE Hop WITH Msgs <- Evidences, held <- eHeld, handed <- eHanded,
                       gone <- eGone, up <- eUp
O == INSTANCE Hop WITH Msgs <- Results, held <- oHeld, handed <- oHanded,
                       gone <- oGone, up <- oUp

sinkVars == <<evidences, results>>

Init == evidences = {} /\ results = {}

\* StoreEvidences: Recv, and StoreEvidence.  An evidence that is stored
\* already is refused (AlreadyExists).
StoreEvidence(ev) ==
  /\ \/ /\ ev \notin evidences
        /\ E!Take(ev)
        /\ evidences' = evidences \cup {ev}
     \/ /\ MayFail \/ ev \in evidences
        /\ E!Drop(ev)
        /\ UNCHANGED evidences
  /\ UNCHANGED <<results, oHeld, oHanded, oGone, oUp>>

\* StoreAssessmentResults: Recv, and StoreAssessmentResult
StoreAssessmentResult(res) ==
  /\ \/ /\ res \notin results
        /\ O!Take(res)
        /\ results' = results \cup {res}
     \/ /\ MayFail \/ res \in results
        /\ O!Drop(res)
        /\ UNCHANGED results
  /\ UNCHANGED <<evidences, eHeld, eHanded, eGone, eUp>>
=============================================================================
