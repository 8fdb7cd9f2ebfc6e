--------------------------- MODULE MCQuantumRouter ---------------------------
(* The instance of QuantumRouter for TLC. *)
EXTENDS QuantumRouter

CONSTANTS k1, e1, b1, b2, r1, o1, o2, o3, o4

OneConversation == {k1}
OneEndpoint == {e1}
TwoObservations == {b1, b2}
AllOfOne == [b \in {b1, b2} |-> k1]
SameEndpoint == [b \in {b1, b2} |-> e1]
OneRouter == {r1}
FourObjects == {o1, o2, o3, o4}
=============================================================================
