---------------------------- MODULE MCEvaluation ----------------------------
(***************************************************************************)
(* Instances of Evaluation for TLC: a control p with the sub-controls a    *)
(* and b.                                                                  *)
(***************************************************************************)
EXTENDS Evaluation, TLC

CONSTANTS a, b

Symmetry == Permutations(Runs) \cup Permutations(Calls)

SubControls == [x \in Parents |-> <<a, b>>]
=============================================================================
