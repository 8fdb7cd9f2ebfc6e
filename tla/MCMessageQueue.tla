--------------------------- MODULE MCMessageQueue ---------------------------
(* Instances of MessageQueue for TLC. *)
EXTENDS MessageQueue

CONSTANTS a1, a2, c1, c2, m1, m2

TwoMessages == {m1, m2}

\* Two connections of one agent, so that two drains compete for an entry.
OneAgent == {a1}
TwoChannels == {c1, c2}
OneAgentOf == [c \in {c1, c2} |-> a1]

\* A second agent, which never connects, so that a pass of the prune task
\* visits and removes several entries.
TwoAgents == {a1, a2}
=============================================================================
