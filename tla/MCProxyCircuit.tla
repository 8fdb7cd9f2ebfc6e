--------------------------- MODULE MCProxyCircuit ---------------------------
(* Instances of ProxyCircuit for TLC. *)
EXTENDS ProxyCircuit

CONSTANTS e1, e2, r1, r2

OneEndpoint == {e1}
TheOther == {e2}
TwoEndpoints == {e1, e2}
NoEndpoints == {}
OneRequest == {r1}
TwoRequests == {r1, r2}
=============================================================================
