---------------------------- MODULE MCDiscovery ----------------------------
(* A small instance of DiscoveryService: two providers with three discoverers. *)
EXTENDS DiscoveryService, TLC

CONSTANTS r1, r2, x1

TwoProviders == <<"azure", "aws">>
ThreeDiscoverers ==
  [p \in {"azure", "aws"} |-> IF p = "azure" THEN <<"d1">> ELSE <<"d2", "d3">>]
OnlyFirstFinds == [d \in {"d1", "d2", "d3"} |-> IF d = "d1" THEN <<x1>> ELSE <<>>]
TwoEvidences == {r1, r2} \X {x1}
=============================================================================
