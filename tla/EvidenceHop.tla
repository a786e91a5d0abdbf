----------------------------- MODULE EvidenceHop -----------------------------
(* The channel from the discovery to the assessment service. *)
CONSTANT Evidences  \* all evidences

VARIABLES aHeld, aHanded, aGone, aUp

A == INSTANCE Hop WITH Msgs <- Evidences, held <- aHeld, handed <- aHanded,
                       gone <- aGone, up <- aUp

aVars == <<aHeld, aHanded, aGone, aUp>>
=============================================================================
