------------------------------ MODULE MCStreams ------------------------------
(* Small instances of Streams. *)
EXTENDS Streams, TLC

Symmetry == Permutations(Callers) \cup Permutations(Msgs)
              \cup Permutations(Chans) \cup Permutations(StreamIds)
=============================================================================
