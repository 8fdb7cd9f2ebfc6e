------------------------------ MODULE Mailbox ------------------------------
(***************************************************************************)
(* What the hub promises the sender of a message for an agent, whatever    *)
(* path the message takes (src/net/transport.rs, src/daemon.rs,            *)
(* src/api.rs, src/queue.rs): an accepted message is delivered at most     *)
(* once or it is lost, its fate is final, and it is decided in the end.    *)
(* The hub does not promise delivery: connections break and queued         *)
(* messages expire.                                                        *)
(***************************************************************************)
CONSTANT Messages

VARIABLE status     \* status[m]: what has become of m

MailboxInit == status = [m \in Messages |-> "unsent"]

Accept(m) ==
    /\ status[m] = "unsent"
    /\ status' = [status EXCEPT ![m] = "accepted"]

Deliver(m) ==
    /\ status[m] = "accepted"
    /\ status' = [status EXCEPT ![m] = "delivered"]

\* A channel or a queue may disappear with all that is in it.
Lose(S) ==
    /\ \A m \in S : status[m] = "accepted"
    /\ status' = [m \in Messages |-> IF m \in S THEN "lost" ELSE status[m]]

MailboxNext ==
    \/ \E m \in Messages : Accept(m) \/ Deliver(m)
    \/ \E S \in (SUBSET Messages) \ {{}} : Lose(S)

Settled(m) == status[m] \in {"delivered", "lost"}

\* An accepted message is settled in the end.
MailboxSettles == \A m \in Messages : status[m] = "accepted" ~> Settled(m)

MailboxSpec == MailboxInit /\ [][MailboxNext]_status
=============================================================================
