------------------------------ MODULE MCDaemon ------------------------------
(* Instances of Daemon for TLC. *)
EXTENDS Daemon

CONSTANTS e1, e2, t1, t2, m1, c1, p1, p2, p3, p4, bad, net

\* Two rules for one endpoint, two of equal priority, one that is no
\* expression.
FiveRules == {p1, p2, p3, p4, bad}
Priorities == (p1 :> 1) @@ (p2 :> 2) @@ (p3 :> 1) @@ (p4 :> 0) @@ (bad :> 0)
DestinationsOf == (p1 :> e2) @@ (p2 :> e1) @@ (p3 :> net) @@ (p4 :> e1) @@ (bad :> net)
OneBad == {bad}
TwoEndpoints == {e1, e2}
TwoTools == {t1, t2}
OfferedTools == (e1 :> {t1}) @@ (e2 :> {t1, t2})
OneMessage == {m1}
MatchedRules == (m1 :> {p1, p2, p3, p4})
CalledTools == (m1 :> t1)
OneCall == {c1}
ThreeTasks == {"cleanup", "probe", "quantum"}

Configuration(order, q, c, t) == [rules |-> order, quantum |-> q, circuit |-> c, tls |-> t]

SomeSettings ==
    {Configuration(o, q, c, FALSE) : o \in {<<p1, p2, p3, p4>>, <<p4, p3, p2, p1>>},
                                     q \in BOOLEAN, c \in BOOLEAN}
    \cup {Configuration(<<>>, TRUE, TRUE, TRUE), Configuration(<<p2, bad>>, FALSE, TRUE, FALSE)}
=============================================================================
