----------------------------- MODULE MCAgentHub -----------------------------
(* Instances of AgentHub for TLC. *)
EXTENDS AgentHub

CONSTANTS a1, c1, c2, m1

\* One agent that connects twice, so that its connections overlap.
OneAgent == {a1}
TwoChannels == {c1, c2}
OneAgentOf == [c \in {c1, c2} |-> a1]
OneMessage == {m1}

\* One handler that drops a message it cannot send, one that enqueues it.
TwoSources == {"rest", "msg"}
=============================================================================
