---------------------------- MODULE MessageQueue ----------------------------
(***************************************************************************)
(* The per-agent in-memory queue of src/queue.rs: a DashMap from agent id  *)
(* to a VecDeque of messages that wait for the agent to come online.       *)
(*                                                                         *)
(* The map locks one entry at a time, so an operation that touches several *)
(* entries, or that releases its entry between two accesses, is split here *)
(* into one action per critical section:                                   *)
(*   enqueue    one critical section                                       *)
(*   drain_to   take the entry, one send per message, release the entry,   *)
(*              then remove_if(is_empty) under a new lock                  *)
(*   prune_old  one retain per entry, one emptiness test per entry, one    *)
(*              unconditional remove per id collected as empty             *)
(*                                                                         *)
(* A message that is sent goes to a channel of the caller; what becomes of *)
(* the channel is the business of AgentHub.                                *)
(***************************************************************************)
EXTENDS Naturals, Sequences, FiniteSets

CONSTANTS
    Agents,     \* agent ids
    Messages,   \* message identities
    Channels,   \* the senders (one per connection) drain_to is called with
    AgentOf,    \* AgentOf[c]: the agent on whose behalf c drains
    MaxAge,     \* max_age_secs of the prune task, in ticks
    NoOne       \* "nobody holds the guard of this entry"

ASSUME QueueAssumption ==
    /\ AgentOf \in [Channels -> Agents]
    /\ Agents # {}
    /\ MaxAge \in Nat \ {0}
    /\ NoOne \notin Channels

VARIABLES
    queues,     \* queues[a]: the VecDeque of a, oldest message first
    keys,       \* the agents that have an entry in the map
    guard,      \* guard[a]: the drain that keeps the RefMut of a's entry
    drain,      \* drain[c]: where c's call of drain_to is
    pruner      \* where the prune task is

queueVars == <<queues, keys, guard, drain, pruner>>

\* QueuedMessage: enqueued_at is kept as an age that stops at MaxAge.
QueuedMessage == [msg : Messages, age : 0..MaxAge]

DrainPhases == {"idle", "sending", "remove_if"}
PrunePhases == {"idle", "retain", "collect", "remove"}

IdlePruner == [phase |-> "idle", todo |-> {}, empty |-> {}, expired |-> {}]

QueueInit ==
    /\ queues = [a \in Agents |-> <<>>]
    /\ keys = {}
    /\ guard = [a \in Agents |-> NoOne]
    /\ drain = [c \in Channels |-> "idle"]
    /\ pruner = IdlePruner

-----------------------------------------------------------------------------
(* Helpers *)

Queued(a) == {queues[a][i].msg : i \in DOMAIN queues[a]}

Expired(a) ==
    {queues[a][i].msg : i \in {j \in DOMAIN queues[a] : queues[a][j].age >= MaxAge}}

-----------------------------------------------------------------------------
(* enqueue *)

\* entry(a).or_default().push_back(..): waits for whoever holds the entry.
Enqueue(a, m) ==
    /\ guard[a] = NoOne
    /\ queues' = [queues EXCEPT ![a] = Append(@, [msg |-> m, age |-> 0])]
    /\ keys' = keys \cup {a}
    /\ UNCHANGED <<guard, drain, pruner>>

-----------------------------------------------------------------------------
(* drain_to *)

\* get_mut(a): without an entry the call returns at once.
DrainLookup(c) ==
    LET a == AgentOf[c] IN
    /\ drain[c] = "idle"
    /\ guard[a] = NoOne
    /\ IF a \in keys
       THEN /\ guard' = [guard EXCEPT ![a] = c]
            /\ drain' = [drain EXCEPT ![c] = "sending"]
       ELSE UNCHANGED <<guard, drain>>
    /\ UNCHANGED <<queues, keys, pruner>>

DrainSendRequeueBack(c, ok) ==   \* faulty variant: push_back on failure
    LET a == AgentOf[c] IN
    /\ drain[c] = "sending"
    /\ queues[a] # <<>>
    /\ queues' = [queues EXCEPT ![a] = IF ok THEN Tail(@)
                                              ELSE Append(Tail(@), Head(@))]
    /\ IF ok
       THEN UNCHANGED <<guard, drain>>
       ELSE /\ guard' = [guard EXCEPT ![a] = NoOne]
            /\ drain' = [drain EXCEPT ![c] = "idle"]
    /\ UNCHANGED <<keys, pruner>>

\* One turn of the loop: pop_front and tx.send. A failed send puts the
\* message back at the front, breaks, and the non-empty entry is released.
DrainSend(c, ok) ==
    LET a == AgentOf[c] IN
    /\ drain[c] = "sending"
    /\ queues[a] # <<>>
    /\ IF ok
       THEN /\ queues' = [queues EXCEPT ![a] = Tail(@)]
            /\ UNCHANGED <<guard, drain>>
       ELSE /\ guard' = [guard EXCEPT ![a] = NoOne]
            /\ drain' = [drain EXCEPT ![c] = "idle"]
            /\ UNCHANGED queues
    /\ UNCHANGED <<keys, pruner>>

DrainReleaseKept(c) ==   \* faulty variant: drop(entry) forgotten
    LET a == AgentOf[c] IN
    /\ drain[c] = "sending"
    /\ queues[a] = <<>>
    /\ drain' = [drain EXCEPT ![c] = "remove_if"]
    /\ UNCHANGED <<queues, keys, guard, pruner>>

\* pop_front returned None: drop(entry).
DrainRelease(c) ==
    LET a == AgentOf[c] IN
    /\ drain[c] = "sending"
    /\ queues[a] = <<>>
    /\ guard' = [guard EXCEPT ![a] = NoOne]
    /\ drain' = [drain EXCEPT ![c] = "remove_if"]
    /\ UNCHANGED <<queues, keys, pruner>>

DrainRemoveAlways(c) ==   \* faulty variant: remove instead of remove_if
    LET a == AgentOf[c] IN
    /\ drain[c] = "remove_if"
    /\ guard[a] = NoOne
    /\ keys' = keys \ {a}
    /\ queues' = [queues EXCEPT ![a] = <<>>]
    /\ drain' = [drain EXCEPT ![c] = "idle"]
    /\ UNCHANGED <<guard, pruner>>

\* remove_if(a, is_empty), under a lock of its own: what was enqueued since
\* the release is seen.
DrainRemoveIf(c) ==
    LET a == AgentOf[c] IN
    /\ drain[c] = "remove_if"
    /\ guard[a] = NoOne
    /\ keys' = IF queues[a] = <<>> THEN keys \ {a} ELSE keys
    /\ drain' = [drain EXCEPT ![c] = "idle"]
    /\ UNCHANGED <<queues, guard, pruner>>

-----------------------------------------------------------------------------
(* prune_old *)

\* The prune task in `phase`, with all entries left to visit.
Pruning(phase, empty, expired) ==
    [phase |-> phase, todo |-> Agents, empty |-> empty, expired |-> expired]

\* `now` is read once: it fixes which messages are too old for this pass.
PruneStart ==
    /\ pruner.phase = "idle"
    /\ pruner' = Pruning("retain", {}, UNION {Expired(a) : a \in Agents})
    /\ UNCHANGED <<queues, keys, guard, drain>>

\* What the task does after it has visited a: the next entry, or the next loop.
Visited(a, next) ==
    pruner' = IF pruner.todo = {a} THEN next ELSE [pruner EXCEPT !.todo = @ \ {a}]

RetainedAll(q) == q   \* faulty variant: nothing is ever too old

\* VecDeque::retain: kept[i] is what is left of the first i messages of q
\* without those in gone, in their order.
Retain(q, gone) ==
    LET kept[i \in 0..Len(q)] ==
          IF i = 0 THEN <<>>
          ELSE IF q[i].msg \in gone THEN kept[i - 1]
          ELSE Append(kept[i - 1], q[i])
    IN kept[Len(q)]

\* What is not too old.
Retained(q) == Retain(q, pruner.expired)

\* iter_mut: the retain of one entry.
PruneRetain(a) ==
    /\ pruner.phase = "retain"
    /\ a \in pruner.todo
    /\ guard[a] = NoOne
    /\ queues' = IF a \in keys THEN [queues EXCEPT ![a] = Retained(@)] ELSE queues
    /\ Visited(a, Pruning("collect", {}, {}))
    /\ UNCHANGED <<keys, guard, drain>>

\* iter().filter(is_empty): the test of one entry.
PruneCollect(a) ==
    LET empty == IF a \in keys /\ queues[a] = <<>>
                 THEN pruner.empty \cup {a} ELSE pruner.empty
    IN
    /\ pruner.phase = "collect"
    /\ a \in pruner.todo
    /\ guard[a] = NoOne
    /\ pruner' = IF pruner.todo # {a}
                 THEN [pruner EXCEPT !.todo = @ \ {a}, !.empty = empty]
                 ELSE IF empty = {} THEN IdlePruner
                 ELSE [Pruning("remove", empty, {}) EXCEPT !.todo = {}]
    /\ UNCHANGED <<queues, keys, guard, drain>>

PruneRemoveUnguarded(a) ==   \* faulty variant: does not wait for the entry
    /\ pruner.phase = "remove"
    /\ a \in pruner.empty
    /\ keys' = keys \ {a}
    /\ queues' = [queues EXCEPT ![a] = <<>>]
    /\ pruner' = IF pruner.empty = {a} THEN IdlePruner
                 ELSE [pruner EXCEPT !.empty = @ \ {a}]
    /\ UNCHANGED <<guard, drain>>

\* remove(&id): does not look at the entry again, and drops what is in it.
PruneRemove(a) ==
    /\ pruner.phase = "remove"
    /\ a \in pruner.empty
    /\ guard[a] = NoOne
    /\ keys' = keys \ {a}
    /\ queues' = [queues EXCEPT ![a] = <<>>]
    /\ pruner' = IF pruner.empty = {a} THEN IdlePruner
                 ELSE [pruner EXCEPT !.empty = @ \ {a}]
    /\ UNCHANGED <<guard, drain>>

PrunerStep ==
    \/ PruneStart
    \/ \E a \in Agents : PruneRetain(a) \/ PruneCollect(a) \/ PruneRemove(a)

-----------------------------------------------------------------------------

\* Time: every queued message gets older.
AgeQueues ==
    queues' = [a \in Agents |->
                 [i \in DOMAIN queues[a] |->
                    [queues[a][i] EXCEPT !.age = IF @ < MaxAge THEN @ + 1 ELSE MaxAge]]]

QueueTick == AgeQueues /\ UNCHANGED <<keys, guard, drain, pruner>>

-----------------------------------------------------------------------------
(* The queue by itself: callers enqueue and drain at any time. *)

\* A message identity nothing refers to any more may stand for a new message.
Unused(m) == m \notin pruner.expired /\ \A a \in Agents : m \notin Queued(a)

DrainStep(c) ==
    \/ \E ok \in BOOLEAN : DrainSend(c, ok)
    \/ DrainRelease(c)
    \/ DrainRemoveIf(c)

QueueNext ==
    \/ \E a \in Agents, m \in Messages : Unused(m) /\ Enqueue(a, m)
    \/ \E c \in Channels : DrainLookup(c) \/ DrainStep(c)
    \/ PrunerStep
    \/ QueueTick

QueueSpec == QueueInit /\ [][QueueNext]_queueVars

\* A call that holds or waits for an entry goes on, whoever waits for an
\* entry that is released again and again gets it in the end (the lock of
\* a shard is fair), the ticker of the prune task fires, time passes.
QueueFairness ==
    /\ \A c \in Channels : SF_queueVars(DrainStep(c))
    /\ \A a \in Agents : /\ SF_queueVars(PruneRetain(a))
                         /\ SF_queueVars(PruneCollect(a))
                         /\ SF_queueVars(PruneRemove(a))
    /\ WF_queueVars(PruneStart)
    /\ WF_queueVars(QueueTick)

QueueFairSpec == QueueSpec /\ QueueFairness

-----------------------------------------------------------------------------
(* Properties *)

\* Types of the variables of src/queue.rs.
QueueTypeOK ==
    /\ queues \in [Agents -> Seq(QueuedMessage)]
    /\ keys \in SUBSET Agents
    /\ guard \in [Agents -> Channels \cup {NoOne}]
    /\ drain \in [Channels -> DrainPhases]
    /\ pruner \in [phase : PrunePhases, todo : SUBSET Agents,
                   empty : SUBSET Agents, expired : SUBSET Messages]

\* drain_to keeps the entry of its own agent, and only while it sends; the
\* entry it keeps a reference to stays in the map (a removal waits for it);
\* an agent without an entry has no messages.
GuardInv ==
    /\ \A c \in Channels : (drain[c] = "sending") <=> (guard[AgentOf[c]] = c)
    /\ \A a \in Agents : guard[a] # NoOne => AgentOf[guard[a]] = a /\ a \in keys
    /\ \A a \in Agents : a \notin keys => queues[a] = <<>>

Before(q, m, n) == \E i, j \in DOMAIN q : i < j /\ q[i].msg = m /\ q[j].msg = n

\* Messages are delivered in the order in which they were enqueued: whatever
\* drains, failed sends and pruning passes do, two messages of a queue never
\* change places, and a new one goes behind all that are there.
KeepsOrder ==
    [][\A a \in Agents : \A m, n \in Queued(a)' :
          Before(queues[a]', m, n) =>
             \/ n \notin Queued(a)
             \/ Before(queues[a], m, n)]_queueVars

\* The two ways a message may leave a queue: at the front, one at a time, to
\* the drain that keeps the entry; or because it has reached max_age_secs.
LeavesInOrder(a) ==
    \A m \in Queued(a) \ Queued(a)' :
        \/ /\ guard[a] # NoOne
           /\ m = Head(queues[a]).msg
           /\ queues[a]' = Tail(queues[a])
        \/ m \in Expired(a)

\* src/queue.rs:72 "Prune messages older than max_age_secs.": no message
\* leaves a queue other than by delivery or by age.
OnlyDeliveredOrExpired == [][\A a \in Agents : LeavesInOrder(a)]_queueVars

\* drain_to and the retain pass lose nothing: in particular what is enqueued
\* between drop(entry) and remove_if survives. Only the removal of the ids
\* collected as empty (PruneRemove) is left out.
DrainAndRetainLoseNothing ==
    [][pruner.phase # "remove" => \A a \in Agents : LeavesInOrder(a)]_queueVars

\* Every call of drain_to returns, although it takes the lock twice.
DrainReturns == \A c \in Channels : drain[c] # "idle" ~> drain[c] = "idle"

\* A queued message does not stay for ever: it is handed over or ages out.
QueuedMessageLeaves ==
    \A a \in Agents, m \in Messages : m \in Queued(a) ~> m \notin Queued(a)
=============================================================================
