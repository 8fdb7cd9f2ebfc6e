------------------------------ MODULE AgentHub ------------------------------
(***************************************************************************)
(* Delivery of messages to agents: the registry of src/agent.rs, the       *)
(* WebSocket connections of src/net/transport.rs, the handlers of          *)
(* src/daemon.rs and src/api.rs that send to an agent, the heartbeat       *)
(* cleanup task of src/daemon.rs and the queue of MessageQueue.            *)
(*                                                                         *)
(* All of them run concurrently on a multi-threaded runtime and share the  *)
(* registry and the queue, two DashMaps whose operations are atomic one by *)
(* one and not together: a handler that looks an agent up and then sends   *)
(* or enqueues, a connection that registers and then drains, a teardown    *)
(* that compares and then unregisters are two actions each.                *)
(*                                                                         *)
(* Which agent a message goes to is decided by the routing code and chosen *)
(* freely here. Of the other operations of the protocol, Ack and Nak do    *)
(* nothing; FsRead, FsWrite and a frame that cannot be parsed are answered *)
(* through the channel of the connection. An answer is not an agent's      *)
(* message and not in chan, but the send task may fail to write it.        *)
(***************************************************************************)
EXTENDS MessageQueue    \* here Channels are the connections, each of which
                        \* owns one channel to its socket
CONSTANTS
    Sources,        \* the handlers that send to agents, see SourceKinds
    StaleAfter      \* stale_secs of the cleanup task, in ticks

SourceKinds == {"ws", "rest", "msg", "grpc"}

ASSUME HubAssumption ==
    /\ Sources \subseteq SourceKinds
    /\ StaleAfter \in Nat

VARIABLES
    registry,   \* registry[a]: the connection whose tx is registered for a
    beat,       \* beat[a]: ticks since the last heartbeat of the registration
    conn,       \* conn[c]: where the receive loop of c is
    task,       \* task[c]: the send task of c, which owns the receiver
    chan,       \* chan[c]: the messages in the channel of c
    sender,     \* sender[m]: where the handler that sends m is
    delivered,  \* the messages written to a socket
    stale       \* the agents the cleanup task has still to unregister

connVars == <<conn, task, chan, delivered>>
vars == <<queueVars, registry, beat, connVars, sender, stale>>

ConnPhases == {"new", "open", "registered", "closing", "removing", "closed"}
SenderPhases == {"new", "lookup", "sending", "queueing", "done"}

Init ==
    /\ QueueInit
    /\ registry = [a \in Agents |-> NoOne]
    /\ beat = [a \in Agents |-> 0]
    /\ conn = [c \in Channels |-> "new"]
    /\ task = [c \in Channels |-> "running"]
    /\ chan = [c \in Channels |-> <<>>]
    /\ sender \in [Messages -> [pc : {"new"}, dest : Agents, via : Sources, tx : {NoOne}]]
    /\ delivered = {}
    /\ stale = {}

-----------------------------------------------------------------------------
(* src/agent.rs *)

Register(a, c) ==
    /\ registry' = [registry EXCEPT ![a] = c]
    /\ beat' = [beat EXCEPT ![a] = 0]

Unregister(a) ==
    /\ registry' = [registry EXCEPT ![a] = NoOne]
    /\ beat' = [beat EXCEPT ![a] = 0]

\* stale_agents: the age is strictly greater than the threshold.
StaleAgents == {a \in Agents : registry[a] # NoOne /\ beat[a] > StaleAfter}

-----------------------------------------------------------------------------
(* A connection: handle_socket and handle_op. The receive loop handles one *)
(* frame at a time, so it does nothing else while it drains.               *)

Ready(c) == conn[c] = "open" /\ drain[c] = "idle"

Connect(c) ==
    /\ conn[c] = "new"
    /\ conn' = [conn EXCEPT ![c] = "open"]
    /\ UNCHANGED <<queueVars, registry, beat, task, chan, delivered, sender, stale>>

\* Hello, first half: the registration replaces that of an older connection.
HelloRegister(c) ==
    /\ Ready(c)
    /\ Register(AgentOf[c], c)
    /\ conn' = [conn EXCEPT ![c] = "registered"]
    /\ UNCHANGED <<queueVars, task, chan, delivered, sender, stale>>

\* Hello, second half: drain_to(agent_id, tx).
HelloDrain(c) ==
    /\ conn[c] = "registered"
    /\ DrainLookup(c)
    /\ conn' = [conn EXCEPT ![c] = "open"]
    /\ UNCHANGED <<registry, beat, task, chan, delivered, sender, stale>>

\* tx.send fails only when the send task, and with it the receiver, is gone.
CanSend(c) == task[c] # "gone"

PushTo(c, m) ==
    IF CanSend(c) THEN chan' = [chan EXCEPT ![c] = Append(@, m)] ELSE UNCHANGED chan

DrainOne(c) ==
    /\ DrainSend(c, CanSend(c))
    /\ PushTo(c, Head(queues[AgentOf[c]]).msg)
    /\ UNCHANGED <<registry, beat, conn, task, delivered, sender, stale>>

DrainEnd(c) ==
    /\ DrainRelease(c) \/ DrainRemoveIf(c)
    /\ UNCHANGED <<registry, beat, connVars, sender, stale>>

\* heartbeat is keyed by the agent id: any connection of the agent
\* refreshes whatever registration there is.
Heartbeat(c) ==
    /\ Ready(c)
    /\ registry[AgentOf[c]] # NoOne
    /\ beat' = [beat EXCEPT ![AgentOf[c]] = 0]
    /\ UNCHANGED <<queueVars, registry, connVars, sender, stale>>

DisconnectKeepsTask(c) ==   \* faulty variant: forgets to abort the send task
    /\ Ready(c)
    /\ conn' = [conn EXCEPT ![c] = "closing"]
    /\ UNCHANGED <<queueVars, registry, beat, task, chan, delivered, sender, stale>>

\* Close frame, socket error or end of stream: leave the loop, abort the
\* send task (which runs on until its next await).
Disconnect(c) ==
    /\ Ready(c)
    /\ conn' = [conn EXCEPT ![c] = "closing"]
    /\ task' = [task EXCEPT ![c] = IF @ = "running" THEN "aborted" ELSE @]
    /\ UNCHANGED <<queueVars, registry, beat, chan, delivered, sender, stale>>

TeardownCheckNever(c) ==   \* faulty variant: takes every registration for a newer one
    /\ conn[c] = "closing"
    /\ conn' = [conn EXCEPT ![c] = "closed"]
    /\ UNCHANGED <<queueVars, registry, beat, task, chan, delivered, sender, stale>>

\* agents.get(id) and same_channel: a superseded connection leaves the
\* registration alone.
TeardownCheck(c) ==
    /\ conn[c] = "closing"
    /\ conn' = [conn EXCEPT ![c] =
                   IF registry[AgentOf[c]] = c THEN "removing" ELSE "closed"]
    /\ UNCHANGED <<queueVars, registry, beat, task, chan, delivered, sender, stale>>

\* agents.unregister(id): by id, without a second look.
TeardownRemove(c) ==
    /\ conn[c] = "removing"
    /\ Unregister(AgentOf[c])
    /\ conn' = [conn EXCEPT ![c] = "closed"]
    /\ UNCHANGED <<queueVars, task, chan, delivered, sender, stale>>

\* The send task writes the next message to the socket ...
SendTaskWrite(c) ==
    /\ CanSend(c)
    /\ chan[c] # <<>>
    /\ delivered' = delivered \cup {Head(chan[c])}
    /\ chan' = [chan EXCEPT ![c] = Tail(@)]
    /\ UNCHANGED <<queueVars, registry, beat, conn, task, sender, stale>>

\* ... or fails to write a message or an answer and ends, or is dropped after
\* the abort: the receiver and what is in the channel go with it. The receive
\* loop is not told.
SendTaskEnd(c) ==
    /\ \/ task[c] = "running" /\ conn[c] # "new"
       \/ task[c] = "aborted"
    /\ task' = [task EXCEPT ![c] = "gone"]
    /\ chan' = [chan EXCEPT ![c] = <<>>]
    /\ UNCHANGED <<queueVars, registry, beat, conn, delivered, sender, stale>>

-----------------------------------------------------------------------------
(* The senders: the Message frame of handle_op ("ws"), send_message of the *)
(* REST API ("rest"), msg_handler ("msg") and grpc_handler ("grpc").       *)

InHand(m) == sender[m].pc \in {"lookup", "sending", "queueing"}

\* All the places where a copy of m is, each copy a place of its own.
Places(m) ==
    {<<"hand", m, 0>> : x \in {n \in {m} : InHand(n)}}
    \cup {<<"socket", m, 0>> : x \in delivered \cap {m}}
    \cup (UNION {{<<"queue", a, i>> : i \in {j \in DOMAIN queues[a] : queues[a][j].msg = m}}
                   : a \in Agents})
    \cup (UNION {{<<"channel", c, i>> : i \in {j \in DOMAIN chan[c] : chan[c][j] = m}}
                   : c \in Channels})

SubmitRetriesLost(m) ==   \* faulty variant: a lost message is sent again
    /\ sender[m].pc = "new" \/ Places(m) = {}
    /\ sender' = [sender EXCEPT ![m].pc = "lookup"]
    /\ UNCHANGED <<queueVars, registry, beat, connVars, stale>>

Submit(m) ==
    /\ sender[m].pc = "new"
    /\ sender' = [sender EXCEPT ![m].pc = "lookup"]
    /\ UNCHANGED <<queueVars, registry, beat, connVars, stale>>

LookupQueuesToo(m) ==   \* faulty variant: enqueues a copy for an online agent
    LET s == sender[m] IN
    /\ s.pc = "lookup"
    /\ Enqueue(s.dest, m)
    /\ sender' = [sender EXCEPT ![m] =
                     IF registry[s.dest] = NoOne
                     THEN [s EXCEPT !.pc = "done"]
                     ELSE [s EXCEPT !.pc = "sending", !.tx = registry[s.dest]]]
    /\ UNCHANGED <<registry, beat, connVars, stale>>

\* agents.get(target): a clone of the registration, tx included, or the
\* decision to enqueue.
Lookup(m) ==
    LET s == sender[m] IN
    /\ s.pc = "lookup"
    /\ sender' = [sender EXCEPT ![m] =
                     IF registry[s.dest] = NoOne
                     THEN [s EXCEPT !.pc = "queueing"]
                     ELSE [s EXCEPT !.pc = "sending", !.tx = registry[s.dest]]]
    /\ UNCHANGED <<queueVars, registry, beat, connVars, stale>>

\* Whether the error of a send leads to the queue or is dropped (let _ =).
RequeuesOnError(via) == via \in {"msg", "grpc"}

SendForgets(m) ==   \* faulty variant: a failed send is never followed up
    LET s == sender[m] IN
    /\ s.pc = "sending"
    /\ PushTo(s.tx, m)
    /\ sender' = IF CanSend(s.tx) THEN [sender EXCEPT ![m] = [s EXCEPT !.pc = "done", !.tx = NoOne]]
                                  ELSE sender
    /\ UNCHANGED <<queueVars, registry, beat, conn, task, delivered, stale>>

\* target_tx.send(..): into the channel as it is now, which may belong to a
\* connection that has been superseded or torn down since the lookup.
Send(m) ==
    LET s == sender[m] IN
    /\ s.pc = "sending"
    /\ PushTo(s.tx, m)
    /\ sender' = [sender EXCEPT ![m] =
                     [s EXCEPT !.pc = IF CanSend(s.tx) \/ ~RequeuesOnError(s.via)
                                      THEN "done" ELSE "queueing",
                               !.tx = NoOne]]
    /\ UNCHANGED <<queueVars, registry, beat, conn, task, delivered, stale>>

Requeue(m) ==
    LET s == sender[m] IN
    /\ s.pc = "queueing"
    /\ Enqueue(s.dest, m)
    /\ sender' = [sender EXCEPT ![m].pc = "done"]
    /\ UNCHANGED <<registry, beat, connVars, stale>>

-----------------------------------------------------------------------------
(* The background tasks and the administrator.                             *)

PruneTask ==
    /\ PrunerStep
    /\ UNCHANGED <<registry, beat, connVars, sender, stale>>

\* The cleanup task: a scan for stale agents, then one unregister per id.
CleanupScan ==
    /\ stale = {}
    /\ StaleAgents # {}
    /\ stale' = StaleAgents
    /\ UNCHANGED <<queueVars, registry, beat, connVars, sender>>

CleanupForgets(a) ==   \* faulty variant: the stale agent stays registered
    /\ a \in stale
    /\ stale' = stale \ {a}
    /\ UNCHANGED <<queueVars, registry, beat, connVars, sender>>

CleanupRemove(a) ==
    /\ a \in stale
    /\ stale' = stale \ {a}
    /\ Unregister(a)
    /\ UNCHANGED <<queueVars, connVars, sender>>

\* DELETE /agents/{id}; its connection is not closed.
ApiUnregister(a) ==
    /\ registry[a] # NoOne
    /\ Unregister(a)
    /\ UNCHANGED <<queueVars, connVars, sender, stale>>

\* Time passes for the queued messages and for the registrations.
Tick ==
    /\ QueueTick
    /\ beat' = [a \in Agents |->
                  IF registry[a] # NoOne /\ beat[a] <= StaleAfter THEN beat[a] + 1
                                                                  ELSE beat[a]]
    /\ UNCHANGED <<registry, connVars, sender, stale>>

-----------------------------------------------------------------------------

\* What a connection does of itself, and what its client makes it do.
ConnStep(c) ==
    \/ HelloDrain(c) \/ DrainOne(c) \/ DrainEnd(c)
    \/ TeardownCheck(c) \/ TeardownRemove(c)
ClientStep(c) ==
    \/ Connect(c) \/ HelloRegister(c) \/ Heartbeat(c) \/ Disconnect(c)
SendTaskStep(c) == SendTaskWrite(c) \/ SendTaskEnd(c)
SendTaskBusy(c) == chan[c] # <<>> \/ task[c] = "aborted"
SenderStep(m) == Lookup(m) \/ Send(m) \/ Requeue(m)
CleanupStep == CleanupScan \/ \E a \in Agents : CleanupRemove(a)

Next ==
    \/ \E c \in Channels : ConnStep(c) \/ ClientStep(c) \/ SendTaskStep(c)
    \/ \E m \in Messages : Submit(m) \/ SenderStep(m)
    \/ PruneTask
    \/ CleanupStep
    \/ \E a \in Agents : ApiUnregister(a)
    \/ Tick

Spec == Init /\ [][Next]_vars

\* The runtime runs every task that is ready, a waiter for an entry of a map
\* gets it in the end, the tickers fire and time passes. A send task with
\* nothing to write waits, for ever if need be. Nothing is assumed of clients,
\* senders and administrators: they may stop at any time.
Fairness ==
    /\ \A c \in Channels : SF_vars(ConnStep(c)) /\ WF_vars(SendTaskBusy(c) /\ SendTaskStep(c))
    /\ \A m \in Messages : SF_vars(SenderStep(m))
    /\ SF_vars(PruneTask)
    /\ SF_vars(CleanupStep)
    /\ WF_vars(Tick)

FairSpec == Spec /\ Fairness

-----------------------------------------------------------------------------
(* Properties *)

\* Types of the hub's state. A connection that has left its receive loop has
\* aborted its send task, so that the task cannot outlive it for long with a
\* channel that still accepts messages.
TypeOK ==
    /\ QueueTypeOK
    /\ registry \in [Agents -> Channels \cup {NoOne}]
    /\ beat \in [Agents -> 0..(StaleAfter + 1)]
    /\ conn \in [Channels -> ConnPhases]
    /\ task \in [Channels -> {"running", "aborted", "gone"}]
    /\ \A c \in Channels : conn[c] \in {"closing", "removing", "closed"} => task[c] # "running"
    /\ chan \in [Channels -> Seq(Messages)]
    /\ sender \in [Messages -> [pc : SenderPhases, dest : Agents, via : Sources,
                                tx : Channels \cup {NoOne}]]
    /\ delivered \in SUBSET Messages
    /\ stale \in SUBSET Agents

\* No duplicates: across lookups that go stale, failed sends that fall back
\* to the queue, concurrent drains of two connections of an agent and
\* teardowns, a message has at most one copy.
AtMostOnce == \A m \in Messages : Cardinality(Places(m)) <= 1

\* A connection whose handler has returned is not registered, so that later
\* messages for its agent are queued instead of sent to a dead channel.
NoGhostRegistration ==
    \A c \in Channels : conn[c] = "closed" => registry[AgentOf[c]] # c

\* The fate of a message, as its sender could know it.
Fate(m) ==
    CASE sender[m].pc = "new" -> "unsent"
      [] m \in delivered      -> "delivered"
      [] OTHER -> IF Places(m) # {} THEN "accepted" ELSE "lost"

Mail == INSTANCE Mailbox WITH status <- [m \in Messages |-> Fate(m)]

\* Whatever the paths of delivery do together, they implement the mailbox of
\* module Mailbox: a lost message does not come back, a delivered one is not
\* taken back.
ImplementsMailbox == Mail!MailboxSpec

\* An accepted message is delivered or lost in the end: no handler, queue or
\* channel keeps it for ever, though connections may stay silent.
MessagesSettle == Mail!MailboxSettles

\* A registration nobody refreshes is removed by the cleanup task.
StaleRegistrationEnds ==
    \A a \in Agents : (registry[a] # NoOne /\ beat[a] > StaleAfter)
                         ~> (registry[a] = NoOne \/ beat[a] <= StaleAfter)

\* src/net/transport.rs:106 "ignoring teardown of superseded connection for
\* agent": the teardown of a connection ends its own registration only.
TeardownSparesSuccessor ==
    [][\A c \in Channels :
          conn[c] = "removing" /\ conn'[c] = "closed" =>
             registry[AgentOf[c]] \in {c, NoOne}]_vars
=============================================================================
