---------------------------- MODULE MCMetricCache ----------------------------
(***************************************************************************)
(* Instances of MetricCache for TLC.                                       *)
(***************************************************************************)
EXTENDS MetricCache, TLC

\* the identifier of the built-in metric begins that of the others
IdPrefixes == {p \in MetricIds \X MetricIds : p[1] = p[2] \/ p[1] \in Builtin}

Symmetry == Permutations(Assessors) \cup Permutations(Subs)
=============================================================================
