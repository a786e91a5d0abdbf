----------------------------- MODULE MCPipeline -----------------------------
(* Small instances of Pipeline. *)
EXTENDS Pipeline, TLC

CONSTANTS r1, x2, x3, m1, m2, m3, s1, s2

OneProvider == <<"azure">>
OneDiscoverer == [p \in {"azure"} |-> <<"d1">>]
OneResource == [d \in {"d1"} |-> <<x2>>]
OneKind == [x \in {x2, x3} |-> "k"]
Service == [x \in {x2, x3} |-> IF x = x3 THEN s2 ELSE s1]
AppliesPartly == {<<m1, x2>>, <<m1, x3>>, <<m2, x2>>, <<m3, x3>>}
UsableBy == {<<s1, m1>>, <<s2, m1>>, <<s1, m2>>}
OtherCollector == {<<"other", x3>>}
TwoEvidences == {<<r1, x2>>} \cup OtherCollector
TwoMetrics == <<m1, m3>>
=============================================================================
