-------------------------------- MODULE MCVfs --------------------------------
(* Instances of Vfs for TLC. *)
EXTENDS Vfs, TLC

CONSTANTS a, b, bw, t1, t2

\* bw is the name b with white space after it, and the id of the second agent.
AgentIds == {a, bw}
IdsAsParts == [id \in AgentIds |-> <<id>>]
NoTrim == <<>>
BlankAfterB == bw :> b

\* The path of the capability leads out of the namespace of a to /net/b.
OneCapability ==
    [id \in AgentIds |->
        IF id = a THEN <<[name |-> <<"chat">>, paths |-> <<<<"", "..", "..", "..", b>>>>]>>
                  ELSE <<>>]

\* Of one agent the base and a directory in it, of the other what mount makes
\* of its base.
SmallTree == {<<"net">>, <<"net", a>>, <<"net", a, "ctl">>, <<"net", b>>}

ThreePaths == {<<"net">>, <<"", "net", a, ".", "ctl", "">>, <<"..", "net", bw, "..", bw>>}
TwoTasks == {t1, t2}
Alike == Permutations(Tasks)
=============================================================================
