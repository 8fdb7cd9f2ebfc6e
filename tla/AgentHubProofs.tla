--------------------------- MODULE AgentHubProofs ---------------------------
(***************************************************************************)
(* Proofs about AgentHub for any number of agents, connections, messages,  *)
(* senders, stale ids and any timeout.                                     *)
(*                                                                         *)
(* Registrations. NoGhostRegistration is about a closed connection only;   *)
(* what makes it inductive is where a registration comes from. RegInv adds *)
(* that an agent is registered with one of its own connections and that a  *)
(* connection that has not been accepted yet is registered for nobody. The *)
(* removals by the cleanup task, the API and the teardown of other         *)
(* connections may come at any moment: none of them can bring a            *)
(* registration back.                                                      *)
(*                                                                         *)
(* Copies. CopyInv says where a message can be: in one entry of the queues *)
(* at most (OnePlace), in one slot of the channels (OneSlot), and in one   *)
(* of the kinds of place (OneKind). Instead of the invariant the steps are *)
(* described by what they do to the messages (Effect): one message starts, *)
(* moves or arrives and the others stay or fade. From this follow both the *)
(* invariant and the steps of the mailbox.                                 *)
(***************************************************************************)
EXTENDS AgentHub, MessageQueueProofs

\* Types of what the registrations depend on.
RegShape ==
    /\ registry \in [Agents -> Channels \cup {NoOne}]
    /\ conn \in [Channels -> ConnPhases]

\* An agent is registered with a connection of its own.
OwnRegistration ==
    \A a \in Agents : registry[a] # NoOne => AgentOf[registry[a]] = a

\* A connection that is not accepted yet, or torn down, is not registered.
NeverRegistered ==
    \A c \in Channels : conn[c] \in {"new", "closed"} => registry[AgentOf[c]] # c

RegInv == RegShape /\ OwnRegistration /\ NeverRegistered

LEMMA RegInit == Init => RegInv
  BY QueueAssumption
     DEF Init, RegInv, RegShape, OwnRegistration, NeverRegistered, ConnPhases

\* Steps that touch neither the registry nor the receive loops.
LEMMA RegUntouched ==
    ASSUME RegInv, UNCHANGED <<registry, conn>>
    PROVE  RegInv'
  BY DEF RegInv, RegShape, OwnRegistration, NeverRegistered

\* Whoever unregisters an agent, and at whatever moment.
LEMMA RegUnregister ==
    ASSUME RegInv, NEW a \in Agents, Unregister(a), UNCHANGED conn
    PROVE  RegInv'
  BY QueueAssumption
     DEF RegInv, RegShape, OwnRegistration, NeverRegistered, Unregister

\* A receive loop that goes on, without becoming or leaving a connection
\* that is registered nowhere.
LEMMA RegLoop ==
    ASSUME RegInv, NEW c \in Channels, UNCHANGED registry,
           NEW p \in ConnPhases, conn' = [conn EXCEPT ![c] = p],
           p \in {"new", "closed"} => registry[AgentOf[c]] # c
    PROVE  RegInv'
  BY QueueAssumption
     DEF RegInv, RegShape, OwnRegistration, NeverRegistered

\* The steps of a connection.
LEMMA RegConnStep ==
    ASSUME RegInv, NEW c \in Channels, ConnStep(c)
    PROVE  RegInv'
  <1>1. CASE HelloDrain(c)
    BY <1>1, RegLoop DEF HelloDrain, ConnPhases
  <1>2. CASE DrainOne(c) \/ DrainEnd(c)
    BY <1>2, RegUntouched DEF DrainOne, DrainEnd, connVars
  <1>3. CASE TeardownCheck(c)
    <2>1. CASE registry[AgentOf[c]] = c
      BY <1>3, <2>1, RegLoop DEF TeardownCheck, ConnPhases
    <2>2. CASE registry[AgentOf[c]] # c
      BY <1>3, <2>2, RegLoop DEF TeardownCheck, ConnPhases
    <2>3. QED
      BY <2>1, <2>2
  <1>4. CASE TeardownRemove(c)
    <2>1. /\ registry' = [registry EXCEPT ![AgentOf[c]] = NoOne]
          /\ conn' = [conn EXCEPT ![c] = "closed"]
      BY <1>4 DEF TeardownRemove, Unregister
    <2>2. AgentOf[c] \in Agents /\ "closed" \in ConnPhases
      BY QueueAssumption DEF ConnPhases
    <2>3. RegShape'
      BY <2>1, <2>2 DEF RegInv, RegShape
    <2>4. OwnRegistration'
      BY <2>1, <2>2 DEF RegInv, RegShape, OwnRegistration
    <2>5. NeverRegistered'
      BY <2>1, <2>2, QueueAssumption DEF RegInv, RegShape, NeverRegistered
    <2>6. QED
      BY <2>3, <2>4, <2>5 DEF RegInv
  <1>5. QED
    BY <1>1, <1>2, <1>3, <1>4 DEF ConnStep

\* The steps a client makes its connection take.
LEMMA RegClientStep ==
    ASSUME RegInv, NEW c \in Channels, ClientStep(c)
    PROVE  RegInv'
  <1>1. CASE Connect(c)
    BY <1>1, RegLoop DEF Connect, ConnPhases
  <1>2. CASE HelloRegister(c)
    <2>1. /\ registry' = [registry EXCEPT ![AgentOf[c]] = c]
          /\ conn' = [conn EXCEPT ![c] = "registered"]
          /\ conn[c] = "open"
      BY <1>2 DEF HelloRegister, Register, Ready
    <2>2. AgentOf[c] \in Agents /\ "registered" \in ConnPhases
      BY QueueAssumption DEF ConnPhases
    <2>3. RegShape'
      BY <2>1, <2>2 DEF RegInv, RegShape
    <2>4. OwnRegistration'
      BY <2>1, <2>2 DEF RegInv, RegShape, OwnRegistration
    <2>5. NeverRegistered'
      BY <2>1, <2>2, QueueAssumption DEF RegInv, RegShape, NeverRegistered
    <2>6. QED
      BY <2>3, <2>4, <2>5 DEF RegInv
  <1>3. CASE Heartbeat(c)
    BY <1>3, RegUntouched DEF Heartbeat, connVars
  <1>4. CASE Disconnect(c)
    BY <1>4, RegLoop DEF Disconnect, ConnPhases
  <1>5. QED
    BY <1>1, <1>2, <1>3, <1>4 DEF ClientStep

\* Every step of the hub preserves the invariant.
LEMMA RegStep == RegInv /\ [Next]_vars => RegInv'
  <1> SUFFICES ASSUME RegInv, [Next]_vars PROVE RegInv'
    OBVIOUS
  <1>1. ASSUME NEW c \in Channels, SendTaskStep(c) PROVE RegInv'
    BY <1>1, RegUntouched DEF SendTaskStep, SendTaskWrite, SendTaskEnd
  <1>2. ASSUME NEW m \in Messages, Submit(m) \/ SenderStep(m) PROVE RegInv'
    BY <1>2, RegUntouched
       DEF Submit, SenderStep, Lookup, Send, Requeue, connVars
  <1>3. CASE PruneTask \/ Tick
    BY <1>3, RegUntouched DEF PruneTask, Tick, connVars
  <1>4. CASE CleanupStep
    <2>1. CASE CleanupScan
      BY <2>1, RegUntouched DEF CleanupScan, connVars
    <2>2. ASSUME NEW a \in Agents, CleanupRemove(a) PROVE RegInv'
      BY <2>2, RegUnregister DEF CleanupRemove, connVars
    <2>3. QED
      BY <1>4, <2>1, <2>2 DEF CleanupStep
  <1>5. ASSUME NEW a \in Agents, ApiUnregister(a) PROVE RegInv'
    BY <1>5, RegUnregister DEF ApiUnregister, connVars
  <1>6. CASE UNCHANGED vars
    BY <1>6, RegUntouched DEF vars, connVars
  <1>7. QED
    BY <1>1, <1>2, <1>3, <1>4, <1>5, <1>6, RegConnStep, RegClientStep DEF Next

\* For any number of agents and overlapping connections: the registry never
\* refers to a connection whose handler has returned.
THEOREM NoGhosts == Spec => []NoGhostRegistration
  <1>1. RegInv => NoGhostRegistration
    BY DEF RegInv, NeverRegistered, NoGhostRegistration
  <1>2. QED
    BY <1>1, RegInit, RegStep, PTL DEF Spec

-----------------------------------------------------------------------------
(* Types.                                                                  *)

TaskPhases == {"running", "aborted", "gone"}

\* A handler: its record, and its next states.
HandlerType == [pc : SenderPhases, dest : Agents, via : Sources,
                tx : Channels \cup {NoOne}]

LEMMA HandlerFields ==
    \A s \in HandlerType :
        s.pc \in SenderPhases /\ s.dest \in Agents /\ s.tx \in Channels \cup {NoOne}
  BY DEF HandlerType

\* A handler that sends has the channel it found in the registry.
SendingHasTx == \A m \in Messages : sender[m].pc = "sending" => sender[m].tx \in Channels

HubTypeInv == TypeOK /\ SendingHasTx

\* A connection that has left its loop has aborted its send task.
Left == {"closing", "removing", "closed"}
LeftIsAborted == \A c \in Channels : conn[c] \in Left => task[c] # "running"

\* The types of what is not the queue.
HubTypes ==
    /\ registry \in [Agents -> Channels \cup {NoOne}]
    /\ beat \in [Agents -> 0..(StaleAfter + 1)]
    /\ conn \in [Channels -> ConnPhases]
    /\ task \in [Channels -> TaskPhases]
    /\ LeftIsAborted
    /\ chan \in [Channels -> Seq(Messages)]
    /\ sender \in [Messages -> HandlerType]
    /\ delivered \in SUBSET Messages
    /\ stale \in SUBSET Agents
    /\ SendingHasTx

LEMMA HubTypeParts == HubTypeInv <=> QueueTypeOK /\ HubTypes
  BY DEF HubTypeInv, TypeOK, HubTypes, HandlerType, TaskPhases, LeftIsAborted, Left

LEMMA HubTypeInit == Init => HubTypeInv
  <1> SUFFICES ASSUME Init PROVE QueueTypeOK /\ HubTypes
    BY HubTypeParts
  <1>1. QueueTypeOK
    BY QueueTypeInit DEF Init
  <1>2. sender \in [Messages -> HandlerType] /\ \A m \in Messages : sender[m].pc = "new"
    BY DEF Init, HandlerType, SenderPhases
  <1>3. /\ registry \in [Agents -> Channels \cup {NoOne}]
        /\ beat \in [Agents -> 0..(StaleAfter + 1)]
        /\ conn \in [Channels -> ConnPhases]
        /\ task \in [Channels -> TaskPhases]
        /\ LeftIsAborted
        /\ chan \in [Channels -> Seq(Messages)]
        /\ delivered \in SUBSET Messages
        /\ stale \in SUBSET Agents
    BY HubAssumption DEF Init, ConnPhases, TaskPhases, LeftIsAborted, Left
  <1>4. QED
    BY <1>1, <1>2, <1>3 DEF HubTypes, SendingHasTx

\* What the steps of the receive loops, the registry and the background
\* tasks do to the types, where they leave the messages and handlers alone.
LEMMA HubTypeFrame ==
  ASSUME HubTypes, UNCHANGED <<chan, sender, delivered>>,
         registry' \in [Agents -> Channels \cup {NoOne}],
         beat' \in [Agents -> 0..(StaleAfter + 1)],
         conn' \in [Channels -> ConnPhases],
         task' \in [Channels -> TaskPhases],
         LeftIsAborted',
         stale' \in SUBSET Agents
  PROVE  HubTypes'
  BY DEF HubTypes, SendingHasTx

\* A receive loop goes on to another phase.
LEMMA HubTypeLoop ==
  ASSUME HubTypes, NEW c \in Channels, NEW p \in ConnPhases,
         conn' = [conn EXCEPT ![c] = p],
         p \in Left => conn[c] \in Left,
         UNCHANGED <<chan, sender, delivered, registry, beat, stale, task>>
  PROVE  HubTypes'
  <1>1. LeftIsAborted'
    BY DEF HubTypes, LeftIsAborted
  <1>2. QED
    BY <1>1, HubTypeFrame DEF HubTypes

\* An agent is unregistered, by whomever.
LEMMA HubTypeUnregister ==
  ASSUME HubTypes, NEW a \in Agents, Unregister(a), stale' \subseteq Agents,
         UNCHANGED <<chan, sender, delivered, conn, task>>
  PROVE  HubTypes'
  <1>1. 0 \in 0..(StaleAfter + 1)
    BY HubAssumption
  <1>2. QED
    BY <1>1, HubTypeFrame DEF HubTypes, Unregister, LeftIsAborted

\* A push into a channel.
LEMMA PushType ==
  ASSUME HubTypes, NEW c \in Channels, NEW m \in Messages, PushTo(c, m)
  PROVE  chan' \in [Channels -> Seq(Messages)]
  <1>1. chan \in [Channels -> Seq(Messages)]
    BY DEF HubTypes
  <1>2. CASE CanSend(c)
    <2>1. chan' = [chan EXCEPT ![c] = Append(@, m)]
      BY <1>2 DEF PushTo
    <2>2. QED
      BY <1>1, <2>1
  <1>3. CASE ~CanSend(c)
    BY <1>1, <1>3 DEF PushTo
  <1>4. QED
    BY <1>2, <1>3

\* The message at the front of a queue.
LEMMA HeadQueued ==
  ASSUME QueueTypeOK, NEW a \in Agents, queues[a] # <<>>
  PROVE  /\ Head(queues[a]) = queues[a][1]
         /\ 1 \in DOMAIN queues[a]
         /\ Head(queues[a]).msg \in Messages
  <1> DEFINE S == QueuedMessage
  <1>1. queues[a] \in Seq(S) /\ \A x \in S : x.msg \in Messages
    BY QueuedMessageFields DEF QueueTypeOK
  <1> HIDE DEF S
  <1>2. 1 \in DOMAIN queues[a] /\ Head(queues[a]) = queues[a][1] /\ queues[a][1] \in S
    BY <1>1
  <1>3. QED
    BY <1>1, <1>2

\* The types after a step of each kind.
LEMMA HubTypeConnStep ==
  ASSUME QueueTypeOK, HubTypes, NEW c \in Channels, ConnStep(c)
  PROVE  QueueTypeOK' /\ HubTypes'
  <1>1. CASE HelloDrain(c)
    <2>1. QueueTypeOK'
      BY <1>1, QueueTypeDrain DEF HelloDrain
    <2>2. HubTypes'
      BY <1>1, HubTypeLoop DEF HelloDrain, ConnPhases, Left
    <2>3. QED
      BY <2>1, <2>2
  <1>2. CASE DrainOne(c)
    <2> DEFINE a == AgentOf[c]
    <2>1. DrainSend(c, CanSend(c)) /\ CanSend(c) \in BOOLEAN
      BY <1>2 DEF DrainOne, CanSend
    <2>2. QueueTypeOK'
      BY <2>1, QueueTypeDrain DEF DrainStep
    <2>3. a \in Agents /\ queues[a] # <<>>
      BY <2>1, QueueAssumption DEF DrainSend
    <2>4. chan' \in [Channels -> Seq(Messages)]
      BY <1>2, <2>3, HeadQueued, PushType DEF DrainOne
    <2>5. HubTypes'
      BY <1>2, <2>4 DEF DrainOne, HubTypes, SendingHasTx, LeftIsAborted
    <2>6. QED
      BY <2>2, <2>5
  <1>3. CASE DrainEnd(c)
    <2>1. QueueTypeOK'
      BY <1>3, QueueTypeDrain DEF DrainEnd, DrainStep
    <2>2. HubTypes'
      BY <1>3, HubTypeFrame DEF DrainEnd, connVars, HubTypes, LeftIsAborted
    <2>3. QED
      BY <2>1, <2>2
  <1>4. CASE TeardownCheck(c)
    <2>1. QueueTypeOK'
      BY <1>4 DEF TeardownCheck, queueVars, QueueTypeOK
    <2>2. CASE registry[AgentOf[c]] = c
      BY <1>4, <2>1, <2>2, HubTypeLoop DEF TeardownCheck, ConnPhases, Left
    <2>3. CASE registry[AgentOf[c]] # c
      BY <1>4, <2>1, <2>3, HubTypeLoop DEF TeardownCheck, ConnPhases, Left
    <2>4. QED
      BY <2>2, <2>3
  <1>5. CASE TeardownRemove(c)
    <2>1. QueueTypeOK'
      BY <1>5 DEF TeardownRemove, queueVars, QueueTypeOK
    <2>2. 0 \in 0..(StaleAfter + 1) /\ AgentOf[c] \in Agents
      BY HubAssumption, QueueAssumption
    <2>3. HubTypes'
      BY <1>5, <2>2, HubTypeFrame
         DEF TeardownRemove, Unregister, HubTypes, ConnPhases, LeftIsAborted, Left
    <2>4. QED
      BY <2>1, <2>3
  <1>6. QED
    BY <1>1, <1>2, <1>3, <1>4, <1>5 DEF ConnStep

LEMMA HubTypeClientStep ==
  ASSUME QueueTypeOK, HubTypes, NEW c \in Channels, ClientStep(c)
  PROVE  QueueTypeOK' /\ HubTypes'
  <1>1. QueueTypeOK'
    BY DEF ClientStep, Connect, HelloRegister, Heartbeat, Disconnect, queueVars, QueueTypeOK
  <1>2. 0 \in 0..(StaleAfter + 1) /\ AgentOf[c] \in Agents
    BY HubAssumption, QueueAssumption
  <1>3. CASE Connect(c)
    BY <1>1, <1>3, HubTypeLoop DEF Connect, ConnPhases, Left
  <1>4. CASE HelloRegister(c)
    BY <1>1, <1>2, <1>4, HubTypeFrame
       DEF HelloRegister, Register, HubTypes, ConnPhases, LeftIsAborted, Left
  <1>5. CASE Heartbeat(c)
    BY <1>1, <1>2, <1>5, HubTypeFrame DEF Heartbeat, connVars, HubTypes, LeftIsAborted
  <1>6. CASE Disconnect(c)
    BY <1>1, <1>6, HubTypeFrame
       DEF Disconnect, HubTypes, ConnPhases, TaskPhases, LeftIsAborted, Left
  <1>7. QED
    BY <1>3, <1>4, <1>5, <1>6 DEF ClientStep

LEMMA HubTypeSendTaskStep ==
  ASSUME QueueTypeOK, HubTypes, NEW c \in Channels, SendTaskStep(c)
  PROVE  QueueTypeOK' /\ HubTypes'
  <1>1. QueueTypeOK'
    BY DEF SendTaskStep, SendTaskWrite, SendTaskEnd, queueVars, QueueTypeOK
  <1>2. CASE SendTaskWrite(c)
    <2>1. chan' \in [Channels -> Seq(Messages)] /\ delivered' \in SUBSET Messages
      BY <1>2 DEF SendTaskWrite, HubTypes
    <2>2. HubTypes'
      BY <1>2, <2>1 DEF SendTaskWrite, HubTypes, SendingHasTx, LeftIsAborted
    <2>3. QED
      BY <1>1, <2>2
  <1>3. CASE SendTaskEnd(c)
    <2>1. chan' \in [Channels -> Seq(Messages)] /\ task' \in [Channels -> TaskPhases]
      BY <1>3 DEF SendTaskEnd, HubTypes, TaskPhases
    <2>2. HubTypes'
      BY <1>3, <2>1 DEF SendTaskEnd, HubTypes, SendingHasTx, LeftIsAborted
    <2>3. QED
      BY <1>1, <2>2
  <1>4. QED
    BY <1>2, <1>3 DEF SendTaskStep

\* How the record of a handler changes.
SenderBecomes(m, s) ==
    /\ sender' = [sender EXCEPT ![m] = s]
    /\ s.pc = "sending" => s.tx \in Channels
    /\ s.pc # "new"
    /\ Submit(m) => s.pc = "lookup"
    /\ Requeue(m) => s.pc = "done"
    /\ Lookup(m) => s.pc \in {"sending", "queueing"}
    /\ Send(m) => s.pc \in {"done", "queueing"} /\ (CanSend(sender[m].tx) => s.pc = "done")

\* The record of a handler after each of its steps is a record again.
LEMMA SenderEffect ==
  ASSUME HubTypes, NEW m \in Messages, Submit(m) \/ SenderStep(m)
  PROVE  \E s \in HandlerType : SenderBecomes(m, s)
  <1> DEFINE h == sender[m]
  <1>1. h \in HandlerType
    BY DEF HubTypes
  <1>2. registry[h.dest] \in Channels \cup {NoOne}
    BY <1>1, HandlerFields DEF HubTypes
  <1>3. /\ "lookup" \in SenderPhases /\ "sending" \in SenderPhases
        /\ "queueing" \in SenderPhases /\ "done" \in SenderPhases
        /\ NoOne \in Channels \cup {NoOne}
    BY DEF SenderPhases
  <1>4. /\ Submit(m) => h.pc = "new"
        /\ Lookup(m) => h.pc = "lookup"
        /\ Send(m) => h.pc = "sending"
        /\ Requeue(m) => h.pc = "queueing"
    BY DEF Submit, Lookup, Send, Requeue
  <1>5. CASE Submit(m)
    <2> DEFINE s == [h EXCEPT !.pc = "lookup"]
    <2>1. sender' = [sender EXCEPT ![m] = s]
      BY <1>5 DEF Submit
    <2>2. s \in HandlerType /\ s.pc = "lookup"
      BY <1>1, <1>3 DEF HandlerType
    <2> HIDE DEF s, h
    <2>3. QED
      BY <1>4, <1>5, <2>1, <2>2 DEF SenderBecomes
  <1>6. CASE Lookup(m)
    <2>1. CASE registry[h.dest] = NoOne
      <3> DEFINE s == [h EXCEPT !.pc = "queueing"]
      <3>1. sender' = [sender EXCEPT ![m] = s]
        BY <1>6, <2>1 DEF Lookup
      <3>2. s \in HandlerType /\ s.pc = "queueing"
        BY <1>1, <1>3 DEF HandlerType
      <3> HIDE DEF s, h
      <3>3. QED
        BY <1>4, <1>6, <3>1, <3>2 DEF SenderBecomes
    <2>2. CASE registry[h.dest] # NoOne
      <3> DEFINE c == registry[h.dest]
                 s == [h EXCEPT !.pc = "sending", !.tx = c]
      <3>1. sender' = [sender EXCEPT ![m] = s] /\ c \in Channels
        BY <1>2, <1>6, <2>2 DEF Lookup
      <3> HIDE DEF c
      <3>2. s \in HandlerType /\ s.pc = "sending" /\ s.tx = c
        BY <1>1, <1>3, <3>1 DEF HandlerType
      <3> HIDE DEF s, h
      <3>3. QED
        BY <1>4, <1>6, <3>1, <3>2 DEF SenderBecomes
    <2>3. QED
      BY <2>1, <2>2
  <1>7. CASE Send(m)
    <2> DEFINE p == IF CanSend(h.tx) \/ ~RequeuesOnError(h.via) THEN "done" ELSE "queueing"
               s == [h EXCEPT !.pc = p, !.tx = NoOne]
    <2>1. sender' = [sender EXCEPT ![m] = s]
      BY <1>7 DEF Send
    <2>2. /\ p \in {"done", "queueing"} /\ p \in SenderPhases
          /\ CanSend(sender[m].tx) => p = "done"
      BY <1>3
    <2> HIDE DEF p
    <2>3. s \in HandlerType /\ s.pc = p
      BY <1>1, <1>3, <2>2 DEF HandlerType
    <2> HIDE DEF s, h
    <2>4. QED
      BY <1>4, <1>7, <2>1, <2>2, <2>3 DEF SenderBecomes
  <1>8. CASE Requeue(m)
    <2> DEFINE s == [h EXCEPT !.pc = "done"]
    <2>1. sender' = [sender EXCEPT ![m] = s]
      BY <1>8 DEF Requeue
    <2>2. s \in HandlerType /\ s.pc = "done"
      BY <1>1, <1>3 DEF HandlerType
    <2> HIDE DEF s, h
    <2>3. QED
      BY <1>4, <1>8, <2>1, <2>2 DEF SenderBecomes
  <1>9. QED
    BY <1>5, <1>6, <1>7, <1>8 DEF SenderStep

LEMMA HubTypeSenderStep ==
  ASSUME QueueTypeOK, HubTypes, NEW m \in Messages, Submit(m) \/ SenderStep(m)
  PROVE  QueueTypeOK' /\ HubTypes'
  <1>1. PICK s \in HandlerType : SenderBecomes(m, s)
    BY SenderEffect
  <1>2. UNCHANGED <<registry, beat, conn, task, delivered, stale>>
    BY DEF Submit, SenderStep, Lookup, Send, Requeue, connVars
  <1>3. chan' \in [Channels -> Seq(Messages)]
    <2>1. CASE Send(m)
      <3>1. sender[m].tx \in Channels /\ PushTo(sender[m].tx, m)
        BY <2>1 DEF Send, HubTypes, SendingHasTx
      <3>2. QED
        BY <3>1, PushType
    <2>2. CASE ~Send(m)
      BY <2>2 DEF Submit, SenderStep, Lookup, Requeue, connVars, HubTypes
    <2>3. QED
      BY <2>1, <2>2
  <1>4. QueueTypeOK'
    <2>1. CASE Requeue(m)
      <3>1. sender[m].dest \in Agents
        BY HandlerFields DEF HubTypes
      <3>2. QED
        BY <2>1, <3>1, QueueTypeEnqueue DEF Requeue
    <2>2. CASE ~Requeue(m)
      BY <2>2 DEF Submit, SenderStep, Lookup, Send, queueVars, QueueTypeOK
    <2>3. QED
      BY <2>1, <2>2
  <1>5. sender' \in [Messages -> HandlerType] /\ SendingHasTx'
    BY <1>1 DEF SenderBecomes, HubTypes, SendingHasTx
  <1>6. QED
    BY <1>2, <1>3, <1>4, <1>5 DEF HubTypes, LeftIsAborted

LEMMA HubTypeTick ==
  ASSUME QueueTypeOK, HubTypes, Tick
  PROVE  QueueTypeOK' /\ HubTypes'
  <1>1. beat' \in [Agents -> 0..(StaleAfter + 1)]
    BY HubAssumption DEF Tick, HubTypes
  <1>2. QueueTypeOK'
    BY QueueTypeTick DEF Tick
  <1>3. QED
    BY <1>1, <1>2, HubTypeFrame DEF Tick, connVars, HubTypes, LeftIsAborted

\* Every step of the hub preserves the types.
LEMMA HubTypeStep == HubTypeInv /\ [Next]_vars => HubTypeInv'
  <1> SUFFICES ASSUME QueueTypeOK, HubTypes, [Next]_vars PROVE QueueTypeOK' /\ HubTypes'
    BY HubTypeParts, PTL
  <1>1. CASE PruneTask
    <2>1. QueueTypeOK'
      BY <1>1, QueueTypePruner DEF PruneTask
    <2>2. HubTypes'
      BY <1>1 DEF PruneTask, connVars, HubTypes, SendingHasTx, LeftIsAborted
    <2>3. QED
      BY <2>1, <2>2
  <1>2. CASE CleanupScan
    BY <1>2 DEF CleanupScan, StaleAgents, queueVars, connVars, QueueTypeOK, HubTypes,
                SendingHasTx, LeftIsAborted
  <1>3. ASSUME NEW a \in Agents, CleanupRemove(a) \/ ApiUnregister(a)
        PROVE  QueueTypeOK' /\ HubTypes'
    <2>1. QueueTypeOK'
      BY <1>3 DEF CleanupRemove, ApiUnregister, queueVars, QueueTypeOK
    <2>2. Unregister(a) /\ stale' \subseteq Agents
      BY <1>3 DEF CleanupRemove, ApiUnregister, HubTypes
    <2>3. QED
      BY <1>3, <2>1, <2>2, HubTypeUnregister DEF CleanupRemove, ApiUnregister, connVars
  <1>4. CASE UNCHANGED vars
    BY <1>4 DEF vars, queueVars, connVars, QueueTypeOK, HubTypes, SendingHasTx, LeftIsAborted
  <1>5. QED
    BY <1>1, <1>2, <1>3, <1>4, HubTypeConnStep, HubTypeClientStep, HubTypeSendTaskStep,
       HubTypeSenderStep, HubTypeTick DEF Next, CleanupStep

\* The types of the hub: what a channel carries is a message whichever path
\* put it there, and a handler that sends has a channel to send to.
THEOREM HubTyping == Spec => []TypeOK
  <1>1. HubTypeInv => TypeOK
    BY DEF HubTypeInv
  <1>2. QED
    BY <1>1, HubTypeInit, HubTypeStep, PTL DEF Spec

-----------------------------------------------------------------------------
(* At most one copy. A message has one place in the queues (OnePlace) and   *)
(* one in the channels (OneSlot), and it is in one of four kinds of place:  *)
(* with its handler, in a queue, in a channel or delivered (OneKind).       *)

\* m is in some queue, in some channel, with its handler.
QueuedIn(qs, m) == \E a \in Agents : \E i \in DOMAIN qs[a] : qs[a][i].msg = m
SentIn(chs, m) == \E c \in Channels : \E i \in DOMAIN chs[c] : chs[c][i] = m
HeldIn(hs, m) == hs[m].pc \in {"lookup", "sending", "queueing"}

\* A message is in the channels once.
OneSlot ==
    \A c, d \in Channels : \A i \in DOMAIN chan[c], j \in DOMAIN chan[d] :
        chan[c][i] = chan[d][j] => c = d /\ i = j

\* The kinds of place exclude each other.
OneKindOf(m) ==
    /\ sender[m].pc # "done" => ~QueuedIn(queues, m) /\ ~SentIn(chan, m) /\ m \notin delivered
    /\ QueuedIn(queues, m) => ~SentIn(chan, m) /\ m \notin delivered
    /\ SentIn(chan, m) => m \notin delivered

OneKind == \A m \in Messages : OneKindOf(m)

CopyInv == HubTypeInv /\ OnePlace /\ OneSlot /\ OneKind

LEMMA CopyInit == Init => CopyInv
  BY HubTypeInit
     DEF Init, QueueInit, CopyInv, OnePlace, OneSlot, OneKind, OneKindOf, QueuedIn,
         SentIn, Queued

\* m is nowhere it was not before, and its handler does not start over.
Fades(m) ==
    /\ QueuedIn(queues', m) => QueuedIn(queues, m)
    /\ SentIn(chan', m) => SentIn(chan, m)
    /\ m \in delivered' <=> m \in delivered
    /\ sender[m].pc = "new" <=> sender'[m].pc = "new"
    /\ HeldIn(sender', m) => HeldIn(sender, m)

\* m is accepted by a handler.
Starts(m) ==
    /\ sender[m].pc = "new" /\ sender'[m].pc = "lookup"
    /\ ~QueuedIn(queues', m) /\ ~SentIn(chan', m) /\ m \notin delivered'

\* m leaves its handler or a queue, for a queue or a channel.
Moves(m) ==
    /\ HeldIn(sender, m) \/ QueuedIn(queues, m)
    /\ sender[m].pc # "new" /\ sender'[m].pc = "done"
    /\ m \notin delivered /\ m \notin delivered'
    /\ QueuedIn(queues', m) => ~SentIn(chan', m)
    /\ QueuedIn(queues', m) \/ SentIn(chan', m)

\* m leaves a channel for the socket.
Arrives(m) ==
    /\ SentIn(chan, m) /\ m \notin delivered
    /\ sender[m].pc = "done" /\ sender'[m].pc = "done"
    /\ ~QueuedIn(queues', m) /\ ~SentIn(chan', m) /\ m \in delivered'

\* m is where it was.
Stays(m) ==
    /\ QueuedIn(queues', m) <=> QueuedIn(queues, m)
    /\ SentIn(chan', m) <=> SentIn(chan, m)
    /\ m \in delivered' <=> m \in delivered
    /\ sender'[m] = sender[m]

\* What a step of the hub does to the messages: at most one of them gets on.
AtMostOneGetsOn ==
    \/ \A m \in Messages : Fades(m)
    \/ \E x \in Messages : Moves(x) /\ \A m \in Messages \ {x} : Fades(m)
    \/ \E x \in Messages : /\ Starts(x) \/ Arrives(x)
                           /\ \A m \in Messages \ {x} : Stays(m)

\* What is to be shown of each step.
Effect == OnePlace' /\ OneSlot' /\ AtMostOneGetsOn

\* A handler is in one of its phases.
LEMMA PhaseOfHandler ==
  ASSUME HubTypes, NEW m \in Messages
  PROVE  sender[m].pc \in SenderPhases
  BY HandlerFields DEF HubTypes

\* The kinds of place still exclude each other after each of these effects.
LEMMA FadesOneKind ==
  ASSUME HubTypes, HubTypes', NEW m \in Messages, OneKindOf(m), Fades(m)
  PROVE  OneKindOf(m)'
  <1>1. sender[m].pc \in SenderPhases /\ sender'[m].pc \in SenderPhases
    BY PhaseOfHandler, HandlerFields DEF HubTypes
  <1>2. sender'[m].pc # "done" => sender[m].pc # "done"
    BY <1>1 DEF Fades, HeldIn, SenderPhases
  <1>3. QED
    BY <1>2 DEF Fades, OneKindOf

LEMMA GettingOnOneKind ==
  ASSUME NEW m \in Messages, Starts(m) \/ Moves(m) \/ Arrives(m)
  PROVE  OneKindOf(m)'
  BY DEF Starts, Moves, Arrives, OneKindOf

LEMMA StaysFades ==
  ASSUME NEW m \in Messages, Stays(m)
  PROVE  Fades(m)
  BY DEF Stays, Fades, HeldIn

\* So a step with such an effect preserves the invariant.
LEMMA EffectCopyInv ==
  ASSUME CopyInv, HubTypeInv', Effect
  PROVE  CopyInv'
  <1>1. HubTypes /\ HubTypes'
    BY HubTypeParts, PTL DEF CopyInv
  <1>2. OneKind'
    BY <1>1, FadesOneKind, StaysFades, GettingOnOneKind DEF CopyInv, OneKind, Effect, AtMostOneGetsOn
  <1>3. QED
    BY <1>2 DEF CopyInv, Effect

\* What is only taken away turns up in no other queue.
LEMMA RemainsQueuedIn ==
  ASSUME OnlyRemains, NEW m, QueuedIn(queues', m)
  PROVE  QueuedIn(queues, m)
  <1>1. PICK a \in Agents : \E k \in DOMAIN queues'[a] : queues'[a][k].msg = m
    BY DEF QueuedIn
  <1>2. PICK e \in [DOMAIN queues'[a] -> DOMAIN queues[a]] :
          \A l \in DOMAIN queues'[a] : queues'[a][l].msg = queues[a][e[l]].msg
    BY DEF OnlyRemains, Remains
  <1>3. QED
    BY <1>1, <1>2 DEF QueuedIn

\* A step of which the messages know nothing more than that queues shrink.
LEMMA ShrinkFades ==
  ASSUME OnlyRemains, UNCHANGED <<chan, delivered, sender>>, NEW m \in Messages
  PROVE  Fades(m)
  <1>1. QueuedIn(queues', m) => QueuedIn(queues, m)
    BY RemainsQueuedIn
  <1>2. SentIn(chan', m) <=> SentIn(chan, m)
    BY DEF SentIn
  <1>3. HeldIn(sender', m) <=> HeldIn(sender, m)
    BY DEF HeldIn
  <1>4. QED
    BY <1>1, <1>2, <1>3 DEF Fades

\* ... and what it does as a whole.
LEMMA ShrinkEffect ==
  ASSUME CopyInv, HubTypeInv', OnlyRemains, UNCHANGED <<chan, delivered, sender>>
  PROVE  Effect
  <1>1. QueueTypeOK /\ QueueTypeOK'
    BY HubTypeParts, PTL DEF CopyInv
  <1>2. OnePlace'
    BY <1>1, RemainsOnePlace DEF CopyInv
  <1>3. OneSlot'
    BY DEF CopyInv, OneSlot
  <1>4. QED
    BY <1>2, <1>3, ShrinkFades DEF Effect, AtMostOneGetsOn

\* A push makes one slot, if the message had none.
LEMMA PushSlot ==
  ASSUME HubTypes, OneSlot, NEW c \in Channels, NEW m \in Messages, ~SentIn(chan, m),
         chan' = [chan EXCEPT ![c] = Append(@, m)]
  PROVE  /\ OneSlot' /\ SentIn(chan', m)
         /\ \A n \in Messages \ {m} : SentIn(chan', n) => SentIn(chan, n)
  <1>1. chan \in [Channels -> Seq(Messages)]
    BY DEF HubTypes
  <1> DEFINE k == Len(chan[c]) + 1
  <1>2. /\ k \in DOMAIN chan'[c] /\ chan'[c][k] = m
        /\ \A d \in Channels : \A i \in DOMAIN chan'[d] :
              \/ i \in DOMAIN chan[d] /\ chan'[d][i] = chan[d][i] /\ chan[d][i] # m
              \/ d = c /\ i = k /\ chan'[d][i] = m
    BY <1>1 DEF SentIn
  <1> HIDE DEF k
  <1>3. OneSlot'
    BY <1>2 DEF OneSlot
  <1>4. QED
    BY <1>2, <1>3 DEF SentIn

\* The send task takes the first message of its channel.
LEMMA TakeSlot ==
  ASSUME HubTypes, OneSlot, NEW c \in Channels, chan[c] # <<>>,
         chan' = [chan EXCEPT ![c] = Tail(@)]
  PROVE  /\ OneSlot' /\ Head(chan[c]) \in Messages
         /\ SentIn(chan, Head(chan[c]))
         /\ \A n \in Messages : SentIn(chan', n) => SentIn(chan, n) /\ n # Head(chan[c])
         /\ \A n \in Messages : SentIn(chan, n) => SentIn(chan', n) \/ n = Head(chan[c])
  <1>1. chan \in [Channels -> Seq(Messages)]
    BY DEF HubTypes
  <1>2. /\ 1 \in DOMAIN chan[c] /\ Head(chan[c]) = chan[c][1] /\ chan[c][1] \in Messages
        /\ \A i \in DOMAIN chan'[c] : /\ i \in Nat /\ i + 1 # 1
                                      /\ i + 1 \in DOMAIN chan[c]
                                      /\ chan'[c][i] = chan[c][i + 1]
        /\ \A d \in Channels \ {c} : chan'[d] = chan[d]
    BY <1>1
  <1>3. \A i \in DOMAIN chan'[c] : chan'[c][i] # chan[c][1]
    BY <1>2 DEF OneSlot
  <1>4. \A d \in Channels \ {c} : \A i \in DOMAIN chan'[d] : chan'[d][i] # chan[c][1]
    BY <1>2 DEF OneSlot
  <1>5. OneSlot'
    <2> SUFFICES ASSUME NEW d \in Channels, NEW f \in Channels,
                        NEW i \in DOMAIN chan'[d], NEW j \in DOMAIN chan'[f],
                        chan'[d][i] = chan'[f][j]
                 PROVE  d = f /\ i = j
      BY DEF OneSlot
    <2> DEFINE up(b, n) == IF b = c THEN n + 1 ELSE n
    <2>1. /\ up(d, i) \in DOMAIN chan[d] /\ chan'[d][i] = chan[d][up(d, i)]
          /\ up(f, j) \in DOMAIN chan[f] /\ chan'[f][j] = chan[f][up(f, j)]
      BY <1>2
    <2>2. d = f /\ up(d, i) = up(f, j)
      BY <2>1 DEF OneSlot
    <2>3. QED
      BY <1>2, <2>2
  <1>6. \A n \in Messages : SentIn(chan', n) => SentIn(chan, n)
    BY <1>2 DEF SentIn
  <1>7. \A i \in DOMAIN chan[c] : i # 1 => /\ i - 1 \in DOMAIN chan'[c]
                                         /\ chan'[c][i - 1] = chan[c][i]
    BY <1>1
  <1>8. ASSUME NEW n \in Messages, SentIn(chan, n), n # chan[c][1] PROVE SentIn(chan', n)
    <2>1. PICK d \in Channels : \E i \in DOMAIN chan[d] : chan[d][i] = n
      BY <1>8 DEF SentIn
    <2>2. PICK i \in DOMAIN chan[d] : chan[d][i] = n
      BY <2>1
    <2>3. CASE d = c
      BY <1>7, <1>8, <2>2, <2>3, ZenonT(30) DEF SentIn
    <2>4. CASE d # c
      BY <1>2, <2>2, <2>4 DEF SentIn
    <2>5. QED
      BY <2>3, <2>4
  <1>9. QED
    BY <1>2, <1>3, <1>4, <1>5, <1>6, <1>8 DEF SentIn

\* A receiver that is dropped takes its channel along.
LEMMA DropSlots ==
  ASSUME HubTypes, OneSlot, NEW c \in Channels, chan' = [chan EXCEPT ![c] = <<>>]
  PROVE  OneSlot' /\ \A n \in Messages : SentIn(chan', n) => SentIn(chan, n)
  <1>1. /\ chan'[c] = <<>> /\ \A d \in Channels \ {c} : chan'[d] = chan[d]
    BY DEF HubTypes
  <1>2. QED
    BY <1>1 DEF OneSlot, SentIn

\* A drain sends the first message of its entry, which is nowhere else.
LEMMA DrainOneEffect ==
  ASSUME CopyInv, HubTypeInv', NEW c \in Channels, DrainOne(c)
  PROVE  Effect
  <1> DEFINE a == AgentOf[c]
  <1> SUFFICES ASSUME NEW x, x = Head(queues[a]).msg PROVE Effect
    OBVIOUS
  <1>1. QueueTypeOK /\ QueueTypeOK' /\ HubTypes /\ HubTypes'
    BY HubTypeParts, PTL DEF CopyInv
  <1>2. /\ DrainSend(c, CanSend(c)) /\ PushTo(c, x) /\ CanSend(c) \in BOOLEAN
        /\ UNCHANGED <<delivered, sender>>
    BY DEF DrainOne, CanSend
  <1>3. OnlyRemains
    BY <1>1, <1>2, RemainsDrain DEF DrainStep
  <1>4. CASE ~CanSend(c)
    BY <1>2, <1>3, <1>4, ShrinkEffect DEF PushTo
  <1>5. CASE CanSend(c)
    <2>1. /\ a \in Agents /\ queues[a] # <<>> /\ queues[a] \in Seq(QueuedMessage)
          /\ queues'[a] = Tail(queues[a])
          /\ \A b \in Agents \ {a} : queues'[b] = queues[b]
          /\ chan' = [chan EXCEPT ![c] = Append(@, x)]
      BY <1>1, <1>2, <1>5, QueueAssumption DEF DrainSend, PushTo, QueueTypeOK
    <2>2. 1 \in DOMAIN queues[a] /\ queues[a][1].msg = x /\ x \in Messages
      BY <1>1, <2>1, HeadQueued
    <2>3. QueuedIn(queues, x)
      BY <2>1, <2>2 DEF QueuedIn, Queued
    <2>4. ~QueuedIn(queues', x)
      <3>1. \A i \in DOMAIN queues'[a] : /\ i + 1 # 1 /\ i + 1 \in DOMAIN queues[a]
                                         /\ queues'[a][i] = queues[a][i + 1]
        BY <2>1
      <3>2. \A i \in DOMAIN queues'[a] : queues'[a][i].msg # x
        BY <2>1, <2>2, <3>1 DEF CopyInv, OnePlace
      <3>3. \A b \in Agents \ {a} : \A i \in DOMAIN queues'[b] : queues'[b][i].msg # x
        BY <2>1, <2>2 DEF CopyInv, OnePlace
      <3>4. QED
        BY <3>2, <3>3 DEF QueuedIn, Queued
    <2>5. ~SentIn(chan, x) /\ x \notin delivered /\ sender[x].pc = "done"
      BY <2>2, <2>3 DEF CopyInv, OneKind, OneKindOf
    <2>6. /\ OneSlot' /\ SentIn(chan', x)
          /\ \A n \in Messages \ {x} : SentIn(chan', n) => SentIn(chan, n)
      BY <1>1, <2>1, <2>2, <2>5, PushSlot DEF CopyInv
    <2>7. Moves(x)
      BY <1>2, <2>3, <2>4, <2>5, <2>6 DEF Moves
    <2>8. \A n \in Messages : QueuedIn(queues', n) => QueuedIn(queues, n)
      BY <1>3, RemainsQueuedIn
    <2>9. \A n \in Messages \ {x} : Fades(n)
      BY <1>2, <2>6, <2>8 DEF Fades, HeldIn
    <2>10. OnePlace'
      BY <1>1, <1>3, RemainsOnePlace DEF CopyInv
    <2>11. QED
      BY <2>2, <2>6, <2>7, <2>9, <2>10 DEF Effect, AtMostOneGetsOn
  <1>6. QED
    BY <1>4, <1>5

\* A send task writes the first message of its channel, or drops them all.
LEMMA SendTaskEffect ==
  ASSUME CopyInv, HubTypeInv', NEW c \in Channels, SendTaskStep(c)
  PROVE  Effect
  <1>1. HubTypes
    BY HubTypeParts, PTL DEF CopyInv
  <1>2. UNCHANGED <<queues, sender>>
    BY DEF SendTaskStep, SendTaskWrite, SendTaskEnd, queueVars
  <1>3. OnePlace'
    BY <1>2 DEF CopyInv, OnePlace
  <1>4. CASE SendTaskWrite(c)
    <2> SUFFICES ASSUME NEW x, x = Head(chan[c]) PROVE Effect
      OBVIOUS
    <2>1. /\ chan[c] # <<>> /\ chan' = [chan EXCEPT ![c] = Tail(@)]
          /\ delivered' = delivered \cup {x}
      BY <1>4 DEF SendTaskWrite
    <2>2. /\ OneSlot' /\ x \in Messages /\ SentIn(chan, x)
          /\ \A n \in Messages : SentIn(chan', n) => SentIn(chan, n) /\ n # x
          /\ \A n \in Messages : SentIn(chan, n) => SentIn(chan', n) \/ n = x
      BY <1>1, <2>1, TakeSlot DEF CopyInv
    <2>3. x \notin delivered /\ sender[x].pc = "done" /\ ~QueuedIn(queues, x)
      BY <2>2 DEF CopyInv, OneKind, OneKindOf
    <2>4. Arrives(x)
      BY <1>2, <2>1, <2>2, <2>3 DEF Arrives
    <2>5. \A n \in Messages \ {x} : Stays(n)
      BY <1>2, <2>1, <2>2 DEF Stays
    <2>6. QED
      BY <1>3, <2>2, <2>4, <2>5 DEF Effect, AtMostOneGetsOn
  <1>5. CASE SendTaskEnd(c)
    <2>1. chan' = [chan EXCEPT ![c] = <<>>] /\ delivered' = delivered
      BY <1>5 DEF SendTaskEnd
    <2>2. OneSlot' /\ \A n \in Messages : SentIn(chan', n) => SentIn(chan, n)
      BY <1>1, <2>1, DropSlots DEF CopyInv
    <2>3. \A n \in Messages : Fades(n)
      BY <1>2, <2>1, <2>2 DEF Fades
    <2>4. QED
      BY <1>3, <2>2, <2>3 DEF Effect, AtMostOneGetsOn
  <1>6. QED
    BY <1>4, <1>5 DEF SendTaskStep

\* A handler accepts, keeps, sends, queues or drops its own message.
LEMMA SenderStepEffect ==
  ASSUME CopyInv, HubTypeInv', NEW x \in Messages, Submit(x) \/ SenderStep(x)
  PROVE  Effect
  <1>1. QueueTypeOK /\ HubTypes
    BY HubTypeParts, PTL DEF CopyInv
  <1>2. PICK s \in HandlerType : SenderBecomes(x, s)
    BY <1>1, SenderEffect
  <1>3. /\ delivered' = delivered
        /\ sender'[x] = s
        /\ \A n \in Messages \ {x} : sender'[n] = sender[n]
    BY <1>1, <1>2 DEF SenderBecomes, HubTypes, Submit, SenderStep, Lookup, Send, Requeue, connVars
  <1>4. /\ sender[x].pc # "done" /\ ~QueuedIn(queues, x) /\ ~SentIn(chan, x) /\ x \notin delivered
        /\ Submit(x) <=> sender[x].pc = "new"
        /\ ~Submit(x) => HeldIn(sender, x)
    <2>1. /\ Submit(x) => sender[x].pc = "new"
          /\ SenderStep(x) => sender[x].pc # "new" /\ HeldIn(sender, x)
      BY DEF Submit, SenderStep, Lookup, Send, Requeue, HeldIn
    <2>2. sender[x].pc # "done"
      BY <2>1 DEF HeldIn
    <2>3. QED
      BY <2>1, <2>2 DEF CopyInv, OneKind, OneKindOf
  <1>5. ASSUME UNCHANGED <<queues, chan>>
        PROVE  /\ OnePlace' /\ OneSlot'
               /\ \A n \in Messages : /\ QueuedIn(queues', n) <=> QueuedIn(queues, n)
                                      /\ SentIn(chan', n) <=> SentIn(chan, n)
    BY <1>5 DEF CopyInv, OnePlace, OneSlot, QueuedIn, Queued, SentIn
  <1>6. CASE Submit(x)
    <2>1. UNCHANGED <<queues, chan>> /\ s.pc = "lookup"
      BY <1>2, <1>6 DEF Submit, SenderBecomes, queueVars, connVars
    <2>2. Starts(x)
      BY <1>3, <1>4, <1>5, <1>6, <2>1 DEF Starts
    <2>3. \A n \in Messages \ {x} : Stays(n)
      BY <1>3, <1>5, <2>1 DEF Stays
    <2>4. QED
      BY <1>5, <2>1, <2>2, <2>3 DEF Effect, AtMostOneGetsOn
  <1>7. ASSUME ~Submit(x), UNCHANGED <<queues, chan>> PROVE Effect
    <2>1. s.pc # "new"
      BY <1>2 DEF SenderBecomes
    <2>2. \A n \in Messages : Fades(n)
      BY <1>3, <1>4, <1>5, <1>7, <2>1 DEF Fades, HeldIn
    <2>3. QED
      BY <1>5, <1>7, <2>2 DEF Effect, AtMostOneGetsOn
  <1>8. CASE Lookup(x) /\ ~Submit(x)
    BY <1>7, <1>8 DEF Lookup, queueVars, connVars
  <1>9. CASE Send(x) /\ ~Submit(x)
    <2> DEFINE c == sender[x].tx
    <2>1. c \in Channels /\ PushTo(c, x) /\ UNCHANGED queues
      BY <1>1, <1>9 DEF Send, HubTypes, SendingHasTx, queueVars
    <2>2. CASE CanSend(c)
      <3>1. chan' = [chan EXCEPT ![c] = Append(@, x)]
        BY <2>1, <2>2 DEF PushTo
      <3>2. /\ OneSlot' /\ SentIn(chan', x)
            /\ \A n \in Messages \ {x} : SentIn(chan', n) => SentIn(chan, n)
        BY <1>1, <1>4, <2>1, <3>1, PushSlot DEF CopyInv
      <3>3. OnePlace' /\ \A n \in Messages : QueuedIn(queues', n) <=> QueuedIn(queues, n)
        BY <2>1 DEF CopyInv, OnePlace, QueuedIn, Queued
      <3>4. s.pc = "done"
        BY <1>2, <1>9, <2>2 DEF SenderBecomes
      <3>5. Moves(x)
        BY <1>3, <1>4, <1>9, <3>2, <3>3, <3>4 DEF Moves, HeldIn
      <3>6. \A n \in Messages \ {x} : Fades(n)
        BY <1>3, <3>2, <3>3 DEF Fades, HeldIn
      <3>7. QED
        BY <3>2, <3>3, <3>5, <3>6 DEF Effect, AtMostOneGetsOn
    <2>3. CASE ~CanSend(c)
      BY <1>7, <1>9, <2>1, <2>3 DEF PushTo
    <2>4. QED
      BY <2>2, <2>3
  <1>10. CASE Requeue(x) /\ ~Submit(x)
    <2> DEFINE a == sender[x].dest
    <2>1. a \in Agents /\ Enqueue(a, x) /\ UNCHANGED chan
      BY <1>1, <1>10, HandlerFields DEF Requeue, HubTypes, connVars
    <2>2. OnePlace'
      BY <1>1, <1>4, <2>1, EnqueueOnePlace DEF CopyInv, QueuedIn, Queued
    <2>3. OneSlot' /\ \A n \in Messages : SentIn(chan', n) <=> SentIn(chan, n)
      BY <2>1 DEF CopyInv, OneSlot, SentIn
    <2>4. \A n \in Messages \ {x} : QueuedIn(queues', n) => QueuedIn(queues, n)
      <3> SUFFICES ASSUME NEW n \in Messages \ {x}, NEW b \in Agents,
                          NEW i \in DOMAIN queues'[b], queues'[b][i].msg = n
                   PROVE  QueuedIn(queues, n)
        BY DEF QueuedIn
      <3> HIDE DEF a
      <3>2. i \in DOMAIN queues[b] /\ queues'[b][i] = queues[b][i]
        BY <1>1, <2>1, EnqueueEffect
      <3>3. QED
        BY <3>2 DEF QueuedIn
    <2>5. QueuedIn(queues', x)
      <3> DEFINE y == [msg |-> x, age |-> 0]
                 S == QueuedMessage
      <3>1. queues \in [Agents -> Seq(S)] /\ y \in S /\ y.msg = x
        BY <1>1, QueuedMessageFields DEF QueueTypeOK
      <3>2. queues' = [queues EXCEPT ![a] = Append(@, y)]
        BY <2>1 DEF Enqueue
      <3> HIDE DEF a, y, S
      <3>3. Len(queues[a]) + 1 \in DOMAIN queues'[a] /\ queues'[a][Len(queues[a]) + 1] = y
        BY <2>1, <3>1, <3>2
      <3>4. QED
        BY <2>1, <3>1, <3>3 DEF QueuedIn, Queued
    <2>6. s.pc = "done"
      BY <1>2, <1>10 DEF SenderBecomes
    <2>7. Moves(x)
      BY <1>3, <1>4, <1>10, <2>3, <2>5, <2>6 DEF Moves, HeldIn
    <2>8. \A n \in Messages \ {x} : Fades(n)
      BY <1>3, <2>3, <2>4 DEF Fades, HeldIn
    <2>9. QED
      BY <2>2, <2>3, <2>7, <2>8 DEF Effect, AtMostOneGetsOn
  <1>11. QED
    BY <1>6, <1>8, <1>9, <1>10 DEF SenderStep

\* Whatever step the hub takes, at most one message gets on, and the others
\* stay where they are or disappear.
LEMMA NextEffect ==
  ASSUME CopyInv, HubTypeInv', [Next]_vars
  PROVE  Effect
  <1>1. QueueTypeOK
    BY HubTypeParts DEF CopyInv
  <1>2. CASE OnlyRemains /\ UNCHANGED <<chan, delivered, sender>>
    BY <1>2, ShrinkEffect
  <1>3. CASE UNCHANGED <<queues, chan, delivered, sender>>
    BY <1>1, <1>2, <1>3, OnlyRemainsUnchanged
  <1>4. ASSUME NEW c \in Channels, ConnStep(c) PROVE Effect
    <2>1. CASE HelloDrain(c)
      BY <1>1, <1>2, <2>1, RemainsDrain DEF HelloDrain
    <2>2. CASE DrainOne(c)
      BY <2>2, DrainOneEffect
    <2>3. CASE DrainEnd(c)
      BY <1>1, <1>2, <2>3, RemainsDrain DEF DrainEnd, DrainStep, connVars
    <2>4. CASE TeardownCheck(c) \/ TeardownRemove(c)
      BY <1>3, <2>4 DEF TeardownCheck, TeardownRemove, queueVars
    <2>5. QED
      BY <1>4, <2>1, <2>2, <2>3, <2>4 DEF ConnStep
  <1>5. ASSUME NEW c \in Channels, ClientStep(c) PROVE Effect
    BY <1>3, <1>5
       DEF ClientStep, Connect, HelloRegister, Heartbeat, Disconnect, queueVars, connVars
  <1>6. CASE PruneTask
    BY <1>1, <1>2, <1>6, RemainsPruner DEF PruneTask, connVars
  <1>7. CASE CleanupStep
    BY <1>3, <1>7 DEF CleanupStep, CleanupScan, CleanupRemove, queueVars, connVars
  <1>8. ASSUME NEW a \in Agents, ApiUnregister(a) PROVE Effect
    BY <1>3, <1>8 DEF ApiUnregister, queueVars, connVars
  <1>9. CASE Tick
    BY <1>1, <1>2, <1>9, RemainsTick DEF Tick, connVars
  <1>10. CASE UNCHANGED vars
    BY <1>3, <1>10 DEF vars, queueVars, connVars
  <1>11. QED
    BY <1>4, <1>5, <1>6, <1>7, <1>8, <1>9, <1>10, SendTaskEffect, SenderStepEffect DEF Next

\* Every step of the hub preserves the invariant of the copies.
LEMMA CopyStep == CopyInv /\ [Next]_vars => CopyInv'
  BY HubTypeStep, NextEffect, EffectCopyInv DEF CopyInv

\* The copies of m in the queues and in the channels, as Places names them.
QueueCopy(m, x) ==
    \E a \in Agents : \E i \in DOMAIN queues[a] :
        queues[a][i].msg = m /\ x = <<"queue", a, i>>
ChannelCopy(m, x) ==
    \E c \in Channels : \E i \in DOMAIN chan[c] :
        chan[c][i] = m /\ x = <<"channel", c, i>>

\* A place is of one of the four kinds.
LEMMA PlacesKinds ==
  ASSUME NEW m \in Messages, NEW x
  PROVE  x \in Places(m) <=> \/ x = <<"hand", m, 0>> /\ HeldIn(sender, m)
                             \/ x = <<"socket", m, 0>> /\ m \in delivered
                             \/ QueueCopy(m, x)
                             \/ ChannelCopy(m, x)
  <1> DEFINE hand == {<<"hand", m, 0>> : y \in {n \in {m} : InHand(n)}}
             socket == {<<"socket", m, 0>> : y \in delivered \cap {m}}
             queue(a) == {<<"queue", a, i>> : i \in {j \in DOMAIN queues[a] :
                                                       queues[a][j].msg = m}}
             channel(c) == {<<"channel", c, i>> : i \in {j \in DOMAIN chan[c] :
                                                           chan[c][j] = m}}
             inQueues == UNION {queue(a) : a \in Agents}
             inChannels == UNION {channel(c) : c \in Channels}
  <1>1. x \in hand <=> x = <<"hand", m, 0>> /\ HeldIn(sender, m)
    BY DEF InHand, HeldIn
  <1>2. x \in socket <=> x = <<"socket", m, 0>> /\ m \in delivered
    OBVIOUS
  <1>3. (\E a \in Agents : x \in queue(a)) <=> QueueCopy(m, x)
    BY DEF QueueCopy
  <1>4. (\E c \in Channels : x \in channel(c)) <=> ChannelCopy(m, x)
    BY DEF ChannelCopy
  <1>5. x \in Places(m) <=> x \in hand \cup socket \cup inQueues \cup inChannels
    BY DEF Places
  <1> HIDE DEF hand, socket, queue, channel
  <1>6. x \in inQueues <=> \E a \in Agents : x \in queue(a)
    OBVIOUS
  <1>7. x \in inChannels <=> \E c \in Channels : x \in channel(c)
    OBVIOUS
  <1> HIDE DEF inQueues, inChannels
  <1>8. QED
    BY <1>1, <1>2, <1>3, <1>4, <1>5, <1>6, <1>7

\* The copies of a message, counted.
LEMMA OnePlaceOfMessage ==
  ASSUME CopyInv, NEW m \in Messages
  PROVE  Cardinality(Places(m)) <= 1
  <1>1. \A p, q \in Places(m) : p = q
    <2> SUFFICES ASSUME NEW p \in Places(m), NEW q \in Places(m) PROVE p = q
      OBVIOUS
    <2>1. /\ QueueCopy(m, p) \/ QueueCopy(m, q) => QueuedIn(queues, m)
          /\ ChannelCopy(m, p) \/ ChannelCopy(m, q) => SentIn(chan, m)
      BY DEF QueueCopy, ChannelCopy, QueuedIn, SentIn
    <2>2. QueueCopy(m, p) /\ QueueCopy(m, q) => p = q
      BY DEF CopyInv, OnePlace, QueueCopy
    <2>3. ChannelCopy(m, p) /\ ChannelCopy(m, q) => p = q
      BY DEF CopyInv, OneSlot, ChannelCopy
    <2>4. HeldIn(sender, m) => sender[m].pc # "done"
      BY DEF HeldIn
    <2>5. \A x \in {p, q} : \/ x = <<"hand", m, 0>> /\ HeldIn(sender, m)
                            \/ x = <<"socket", m, 0>> /\ m \in delivered
                            \/ QueueCopy(m, x)
                            \/ ChannelCopy(m, x)
      BY PlacesKinds
    <2>6. QED
      BY <2>1, <2>2, <2>3, <2>4, <2>5 DEF CopyInv, OneKind, OneKindOf
  <1>2. CASE Places(m) = {}
    BY <1>2, FS_EmptySet
  <1>3. CASE Places(m) # {}
    <2>1. PICK p : Places(m) = {p}
      BY <1>1, <1>3
    <2>2. QED
      BY <2>1, FS_Singleton
  <1>4. QED
    BY <1>2, <1>3

\* No path of delivery makes a second copy of a message: not the lookups
\* that go stale, the failed sends that fall back to the queue, concurrent
\* drains of two connections of an agent, teardowns or prunes, however many
\* of each there are.
THEOREM NoDuplicates == Spec => []AtMostOnce
  <1>1. CopyInv => AtMostOnce
    BY OnePlaceOfMessage DEF AtMostOnce
  <1>2. QED
    BY <1>1, CopyInit, CopyStep, PTL DEF Spec

-----------------------------------------------------------------------------
(* The hub implements the mailbox.                                         *)

\* The fate of a message, by the kind of place it is in.
FateTable ==
    \A m \in Messages :
        Fate(m) = IF sender[m].pc = "new" THEN "unsent"
                  ELSE IF m \in delivered THEN "delivered"
                  ELSE IF HeldIn(sender, m) \/ QueuedIn(queues, m) \/ SentIn(chan, m)
                       THEN "accepted" ELSE "lost"

\* In every state of the invariant the table is right.
LEMMA FateByKind == CopyInv => FateTable
  <1> SUFFICES ASSUME CopyInv, NEW m \in Messages
               PROVE  Fate(m) = IF sender[m].pc = "new" THEN "unsent"
                                ELSE IF m \in delivered THEN "delivered"
                                ELSE IF \/ HeldIn(sender, m)
                                        \/ QueuedIn(queues, m)
                                        \/ SentIn(chan, m)
                                     THEN "accepted" ELSE "lost"
    BY DEF FateTable
  <1> DEFINE Kind == \/ HeldIn(sender, m) \/ m \in delivered
                     \/ QueuedIn(queues, m) \/ SentIn(chan, m)
  <1>1. Places(m) # {} <=> Kind
    <2>1. Kind <=> \E x : \/ x = <<"hand", m, 0>> /\ HeldIn(sender, m)
                          \/ x = <<"socket", m, 0>> /\ m \in delivered
                          \/ QueueCopy(m, x)
                          \/ ChannelCopy(m, x)
      <3>1. QueuedIn(queues, m) <=> \E x : QueueCopy(m, x)
        BY DEF QueuedIn, QueueCopy
      <3>2. SentIn(chan, m) <=> \E x : ChannelCopy(m, x)
        BY DEF SentIn, ChannelCopy
      <3>3. QED
        BY <3>1, <3>2
    <2> HIDE DEF Kind
    <2>2. Kind <=> \E x : x \in Places(m)
      BY <2>1, PlacesKinds
    <2>3. QED
      BY <2>2
  <1>2. sender[m].pc = "new" => m \notin delivered
    BY DEF CopyInv, OneKind, OneKindOf
  <1>3. QED
    BY <1>1, <1>2 DEF Fate

\* The fate of a message that stays, disappears or gets on.
LEMMA FateSteps ==
  ASSUME FateTable, FateTable', NEW m \in Messages
  PROVE  /\ Fades(m) => \/ Fate(m)' = Fate(m)
                        \/ Fate(m) = "accepted" /\ Fate(m)' = "lost"
         /\ Stays(m) \/ Moves(m) => Fate(m)' = Fate(m)
         /\ Starts(m) => Fate(m) = "unsent" /\ Fate(m)' = "accepted"
         /\ Arrives(m) => Fate(m) = "accepted" /\ Fate(m)' = "delivered"
  <1>1. Fate(m) = IF sender[m].pc = "new" THEN "unsent"
                  ELSE IF m \in delivered THEN "delivered"
                  ELSE IF HeldIn(sender, m) \/ QueuedIn(queues, m) \/ SentIn(chan, m)
                       THEN "accepted" ELSE "lost"
    BY DEF FateTable
  <1>2. Fate(m)' = IF sender'[m].pc = "new" THEN "unsent"
                   ELSE IF m \in delivered' THEN "delivered"
                   ELSE IF HeldIn(sender', m) \/ QueuedIn(queues', m) \/ SentIn(chan', m)
                        THEN "accepted" ELSE "lost"
    BY DEF FateTable
  <1>3. Fades(m) => \/ Fate(m)' = Fate(m)
                    \/ Fate(m) = "accepted" /\ Fate(m)' = "lost"
    BY <1>1, <1>2 DEF Fades
  <1>4. Stays(m) => Fate(m)' = Fate(m)
    BY <1>1, <1>2 DEF Stays, HeldIn
  <1>5. Moves(m) => Fate(m)' = Fate(m)
    BY <1>1, <1>2 DEF Moves
  <1>6. Starts(m) => Fate(m) = "unsent" /\ Fate(m)' = "accepted"
    BY <1>1, <1>2 DEF Starts, HeldIn
  <1>7. Arrives(m) => Fate(m) = "accepted" /\ Fate(m)' = "delivered"
    BY <1>1, <1>2 DEF Arrives
  <1>8. QED
    BY <1>3, <1>4, <1>5, <1>6, <1>7

\* Every step of the hub is a step of the mailbox or none at all.
LEMMA MailboxStep ==
  ASSUME FateTable, FateTable', AtMostOneGetsOn
  PROVE  [Mail!MailboxNext]_([m \in Messages |-> Fate(m)])
  <1> SUFFICES ASSUME NEW F, F = [m \in Messages |-> Fate(m)],
                      NEW G, G = [m \in Messages |-> Fate(m)]'
               PROVE  \/ Mail!MailboxNext
                      \/ G = F
    BY Zenon
  <1>1. /\ \A m \in Messages : F[m] = Fate(m) /\ G[m] = Fate(m)'
        /\ F = [m \in Messages |-> F[m]] /\ G = [m \in Messages |-> G[m]]
    OBVIOUS
  <1>2. ASSUME NEW m \in Messages
        PROVE  /\ Fades(m) => G[m] = F[m] \/ (F[m] = "accepted" /\ G[m] = "lost")
               /\ Stays(m) \/ Moves(m) => G[m] = F[m]
               /\ Starts(m) => F[m] = "unsent" /\ G[m] = "accepted"
               /\ Arrives(m) => F[m] = "accepted" /\ G[m] = "delivered"
    <2>1. F[m] = Fate(m) /\ G[m] = Fate(m)'
      BY <1>1
    <2>2. QED
      BY <2>1, FateSteps
  <1>3. ASSUME \A m \in Messages : G[m] = F[m] \/ (F[m] = "accepted" /\ G[m] = "lost")
        PROVE  Mail!MailboxNext \/ G = F
    <2> DEFINE S == {m \in Messages : G[m] # F[m]}
    <2>1. CASE S = {}
      BY <1>1, <2>1
    <2>2. CASE S # {}
      <3>1. /\ \A m \in S : F[m] = "accepted"
            /\ G = [m \in Messages |-> IF m \in S THEN "lost" ELSE F[m]]
        BY <1>1, <1>3
      <3>2. Mail!Lose(S)
        BY <1>1, <3>1 DEF Mail!Lose
      <3>3. S \in (SUBSET Messages) \ {{}}
        BY <2>2
      <3> HIDE DEF S
      <3>4. QED
        BY <3>2, <3>3 DEF Mail!MailboxNext
    <2>3. QED
      BY <2>1, <2>2
  <1>4. ASSUME NEW x \in Messages, Starts(x) \/ Arrives(x),
               \A m \in Messages \ {x} : Stays(m)
        PROVE  Mail!MailboxNext
    <2>1. \A m \in Messages \ {x} : G[m] = F[m]
      BY <1>2, <1>4
    <2>2. CASE Starts(x)
      <3>1. F[x] = "unsent" /\ G = [F EXCEPT ![x] = "accepted"]
        BY <1>1, <1>2, <2>1, <2>2
      <3>2. Mail!Accept(x)
        BY <3>1 DEF Mail!Accept
      <3>3. QED
        BY <3>2 DEF Mail!MailboxNext
    <2>3. CASE Arrives(x)
      <3>1. F[x] = "accepted" /\ G = [F EXCEPT ![x] = "delivered"]
        BY <1>1, <1>2, <2>1, <2>3
      <3>2. Mail!Deliver(x)
        BY <3>1 DEF Mail!Deliver
      <3>3. QED
        BY <3>2 DEF Mail!MailboxNext
    <2>4. QED
      BY <1>4, <2>2, <2>3
  <1>5. CASE \A m \in Messages : Fades(m)
    BY <1>2, <1>3, <1>5
  <1>6. CASE \E x \in Messages : Moves(x) /\ \A m \in Messages \ {x} : Fades(m)
    <2>1. PICK x \in Messages : Moves(x) /\ \A m \in Messages \ {x} : Fades(m)
      BY <1>6
    <2>2. G[x] = F[x]
      BY <1>2, <2>1
    <2>3. \A m \in Messages \ {x} : G[m] = F[m] \/ (F[m] = "accepted" /\ G[m] = "lost")
      BY <1>2, <2>1
    <2>4. ASSUME NEW m \in Messages
          PROVE  G[m] = F[m] \/ (F[m] = "accepted" /\ G[m] = "lost")
      <3>1. CASE m = x
        BY <2>2, <3>1
      <3>2. CASE m # x
        BY <2>3, <3>2
      <3>3. QED
        BY <3>1, <3>2
    <2>5. QED
      BY <1>3, <2>4
  <1>7. QED
    BY <1>4, <1>5, <1>6 DEF AtMostOneGetsOn

\* For any number of agents, connections, handlers and messages, the paths
\* of delivery together implement the mailbox: a message is delivered or lost
\* once, and for good.
THEOREM HubImplementsMailbox == Spec => ImplementsMailbox
  <1>1. Init => Mail!MailboxInit
    BY CopyInit, FateByKind DEF Init, FateTable, Mail!MailboxInit
  <1>2. CopyInv /\ [Next]_vars => [Mail!MailboxNext]_([m \in Messages |-> Fate(m)])
    <2> SUFFICES ASSUME CopyInv, [Next]_vars
                 PROVE  [Mail!MailboxNext]_([m \in Messages |-> Fate(m)])
      OBVIOUS
    <2>1. HubTypeInv' /\ CopyInv'
      BY CopyStep DEF CopyInv
    <2>2. AtMostOneGetsOn
      BY <2>1, NextEffect DEF Effect
    <2>3. FateTable /\ FateTable'
      BY <2>1, FateByKind, PTL
    <2>4. QED
      BY <2>2, <2>3, MailboxStep
  <1>3. QED
    BY <1>1, <1>2, CopyInit, CopyStep, PTL DEF Spec, ImplementsMailbox, Mail!MailboxSpec
=============================================================================
