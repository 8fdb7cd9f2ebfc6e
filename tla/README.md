# Xfiles in TLA+

Models, checks and proofs of the Xfiles hub: an async Rust daemon (tokio,
multi-threaded) between agents and AI endpoints. Paths below are relative to the
repository; `queue.rs:45` stands for `src/queue.rs`, line 45.

Contents: 1 Inventory, 2 Modules and the code they model, 3 Runs, 4 Bounds,
5 Fairness, 6 Proofs, 7 What the checks found, 8 What is not modelled, 9 Plan.

## 1 Inventory

All components share memory: `Arc<DashMap>`s whose operations are atomic one by
one, and unbounded channels. Nothing makes two operations atomic together. HTTP
and WebSocket handlers, one task per connection and half a dozen ticker tasks
run concurrently. A request may be dropped at an `await` when the client leaves
or the 120 s `TimeoutLayer` (daemon.rs:233) fires.

| Component | State | Operations | What makes it correct |
|---|---|---|---|
| Message queue (queue.rs) | agent -> VecDeque of messages with a time | `enqueue`, `drain_to`, `prune_old` | order, no loss but by age, no deadlock of the two locks of a drain, every message leaves |
| Agent registry (agent.rs) | agent -> tx of its connection, last heartbeat | `register`, `unregister`, `heartbeat`, `stale_agents` | no registration of a connection that has ended, stale ones end |
| WebSocket transport (net/transport.rs) | per connection: receive loop, send task, channel | hello, heartbeat, message, teardown | the teardown of an old connection spares a newer one |
| Senders (transport.rs:180, api.rs:316, daemon.rs:560, 709) | the message in hand, a cloned tx | look up, send or enqueue | at most one copy, every accepted message is delivered or lost in the end |
| Circuit breaker (circuit.rs) | per endpoint: state, failures, last failure, half-open calls | `allow`, `record_success`, `record_failure` | trips at the threshold, cuts off, probes within a bound, recovers |
| AI proxy (proxy.rs) | per request: candidates, target | filter, route, forward, record | no new traffic to an open endpoint, bounded probes, every probe is judged |
| Routing pipeline (router.rs, plumber.rs) | rules by priority | five stages over a candidate list | the configuration decides: the best rule no circuit refused |
| Rate limiter (ratelimit.rs) | key -> tokens, last refill | `check` | the rate is kept, no starvation |
| Endpoint registry (ai/endpoints.rs, ai/probe.rs) | id -> endpoint with health | `probe_all`, `prune_offline` | the fields of the health agree, dead endpoints are avoided, live ones used |
| Discovery (ai/discovery.rs, docker.rs) | same map, tags | `scan`, `prune_stale` | scanners leave alone what has none of their tags, and only they add |
| Quantum routing (quantum/) | conversation -> endpoint -> amplitude, pulls, reward | `route`, `observe`, `feedback`, `tick` | no observation is lost that found its conversation, each saved row has it, nothing is kept of conversations that are gone |
| VFS (fs/, namespace.rs) | path -> node; directories list their children | `mkdir`, `add_node`, `remove`, mount, unmount | children and nodes agree, an unmount leaves nothing of what the mount made |
| MCP index (mcp.rs) | tool -> endpoint | `discover_and_index` | an endpoint that answered keeps no tool from being found |
| Start and shutdown (daemon.rs) | server, tasks, four shutdown channels | `run`, the shutdown task | requests in progress are answered, tasks are waited for, the exit comes |
| Store, state, events (store.rs, state.rs, event.rs) | SQLite | inserts, updates, queries | order of statements of concurrent tasks |
| Auth, TLS, config, telemetry, CLI, codecs | none that changes after start | | |

Hard behaviours, each listed with its line under "hazards" in `PROJECT.json`:
check-then-act across two map operations (transport.rs:98-100, 180-185), ids
collected and removed later (queue.rs:84-92, probe.rs:105-120, daemon.rs:343-346,
discovery.rs:78-91), a probe answer applied to whatever entry has the id by then
(probe.rs:60), a predicate with side effects (`allow`, proxy.rs:117, router.rs:229),
outcomes that arrive after the circuit has moved on, a clock read before a lock
(ratelimit.rs:36), a task aborted with messages in its channel (transport.rs:97), a
u32 that wraps (circuit.rs:107), a copy saved by a task of its own
(quantum/router.rs:161), two maps by conversation pruned one after the other
(quantum/router.rs:203-207), a list updated only if its lock is free
(fs/registry.rs:99), paths normalised by one operation and compared as they are by
another (fs/registry.rs:147), a shutdown told over four channels and awaited task by
task (daemon.rs:436-458).

## 2 Modules and the code they model

| Module | Models | Extends, instantiates |
|---|---|---|
| `MessageQueue` | queue.rs, with the locks of its entries | |
| `Mailbox` | what the hub promises a sender (abstract) | |
| `AgentHub` | agent.rs, net/transport.rs, the senders, the cleanup and prune tasks, `DELETE /agents/{id}` | extends `MessageQueue`, implements `Mailbox` |
| `Breaker` | what a circuit breaker promises (abstract) | |
| `CircuitBreaker` | circuit.rs | implements `Breaker` |
| `ProxyCircuit` | `chat_completions_handler`, `CircuitAwareStage` | extends `CircuitBreaker` |
| `RateLimiter` | ratelimit.rs | |
| `EndpointRegistry` | probe.rs, discovery.rs, docker.rs, the tasks of daemon.rs:255-312 | |
| `QuantumRouter` | quantum/: route, observe, tick, and the saves to the store | |
| `RoutingPipeline` | plumber.rs, the index of mcp.rs, router.rs, the shorter way of agents and gRPC | |
| `Daemon` | `run` of daemon.rs: start, requests, background tasks, shutdown | extends `RoutingPipeline` |
| `Vfs` | fs/registry.rs, reads of vnode.rs, namespace.rs, the handlers that change the tree | |
| `*Proofs` | theorems about the module in the name; `CircuitProofs` about `CircuitBreaker` and `ProxyCircuit` | extend it and TLAPS; `AgentHubProofs` extends `MessageQueueProofs` |
| `MC*` | values for the constants | extend the module |

`PROJECT.json` "map" gives the lines of every definition. Definitions marked
`faulty variant` are not part of any specification: each is a plausible bug put
in place of the definition that follows, to see that a property notices it
(mutation testing of the properties). How state and actions correspond to the
code:

**MessageQueue.** `queues` and `keys` are the DashMap (a key may be there with an
empty queue, and only the removals take it away), `guard[a]` is the `RefMut` a
drain keeps on an entry from queue.rs:45 to 58. Operations that would wait for
that entry are disabled while it is kept. `DrainSend` is one turn of the loop,
`DrainRelease` is `drop(entry)`, `DrainRemoveIf` the second lock. `prune_old` is
three loops over the map, one action per entry: `PruneRetain`, `PruneCollect`,
`PruneRemove`. `now` is read once (`PruneStart`), so which messages are too old
is fixed there. DashMap locks shards, not entries; a shard lock only removes
interleavings that entry locks allow, and as no operation holds one entry while
it takes another, it adds no deadlock.

**AgentHub.** A connection is a receive loop (`conn`), a send task (`task`) and an
unbounded channel (`chan`). `HelloRegister` and `HelloDrain` are the two halves of
Hello. `Disconnect` aborts the send task, which runs until its next await: from
"aborted" it may still write or end. When it ends, its channel is lost and `tx.send`
fails from then on. A send task may also fail by itself, on any frame of a
registered connection: a message in its channel or an answer to a read or a parse
error (`SendTaskEnd`); that does not end the receive loop. `TeardownCheck` and
`TeardownRemove` are the two steps of transport.rs:98-100. A sender does `Lookup` (a
clone of the registration), then `Send` into that channel, or `Requeue`. What
happens to a failed send depends on the handler: msg_handler and grpc_handler
enqueue, WebSocket and REST drop the error. The age of a registration (`beat`) is
refreshed by heartbeats of any connection of the agent, since `heartbeat` goes by
id.

**CircuitBreaker.** One record per endpoint, one action per operation (each holds
the entry throughout). `last_failure` is kept as the time since, which stops at
the timeout; `failures` is taken modulo `CounterSize`, 2^32 in a release build.
The configuration accepts zeros, and so do the assumptions.

**ProxyCircuit.** A request goes through filter (one `Filter` per endpoint, which
calls `allow` and so changes the breaker), `Route`, `LookupEndpoint`, and waits for
its `Respond` or `Cancel`; it has a target from the selection to the end, one of
those that passed the filter (`Targeted`). The probes and discovery appear as
`HealthChanges` and `ListingChanges`, the pipeline as `PipelineAsks`. `probing` is a
history variable: the requests that were admitted in the current half-open period.

**RateLimiter.** `Check(k, lag)` is `check` with a `now` read `lag` ticks before
the bucket was locked. `credit` is a history variable, an ideal bucket of
max_requests + 1 tokens (plus what comes in during a lag) that fills at the
configured rate. `Conforms` says it is never overdrawn. The division in f64 is
exact in the model.

**EndpointRegistry.** `listed` and `health` are the map, `service` is the world
outside. A probe pass asks the endpoints it saw at its start one at a time
(`ProbeAsk`) and applies each answer later (`ProbeResult`). The prune task and
each scanner collect ids and remove them one by one. Where an endpoint comes from
(`KindOf`) and what a scanner takes for its own are two things: `Claimed` goes by the
tags, and an endpoint of the configuration has the tags its file gives it (`tags`, any
of `ConfiguredTags`). One that is tagged `docker` or `auto-discovered` is removed by
a scan, and does not return. `ProbesRun` is the condition of daemon.rs:257.

**QuantumRouter.** `table` is the map of conversations; a state has an identity
(a member of `Objects`), because a call that holds its `Arc` goes on with it after
the ticker has removed it from the map and another call has made a new one. An
identity is free again when nothing refers to it. `observe` is five steps: find or
make the state, count under the lock of the endpoint's entry, stamp
`last_active`, find or make the state again, copy the entry and hand the copy to a
task that saves it. The entry of an endpoint is the set of observations counted in
it (`pulls` is its size); amplitudes and rewards only weigh the choice of `route`,
and exploration may choose any candidate. `tick` removes what it collected as
inactive and then visits the keys of `last_endpoint`. `lost` is a history
variable: observations whose conversation was removed after they had begun.

**RoutingPipeline** has no behaviour of its own; `Daemon` starts it. `rules` is the
plumber's list, which `LoadRule` keeps sorted as a push and a stable sort do. The
candidates of a message are a function on the positions of their rules, so that a
filter is a restriction and the first candidate that of the least position.
Whether a rule matches a message is given (`Matches`), what circuits say is free
(`Verdicts`, a verdict for each time a candidate is asked for, as `allow` may
change its mind), and so is the choice of the quantum router. `RoutePipeline` is
router.rs:69-80 with the stages of `default_pipeline`; `RouteDirect` is the way of
transport.rs:145-170 and daemon.rs:702-707, without tools and circuits.

**Daemon.** `phase` is where `run` is: loading rules, discovering tools, serving
(waiting for the server), waiting for tasks, returned or failed. `told` counts the
sends of the shutdown task (four channels and the handle of the TLS server). A
failure before serving (TLS set-up, bind) ends `run` like one of the server
(`ServeFails`), and a bad rule ends it while loading. A background task is waiting
in its `select!`, busy or ended; what it does in a pass is in the module of its
component. `GiveUp` is the timeout of five seconds on a handle. `Ends` is the drop
of the runtime: a task that has not stored its message yet is lost.

**Vfs.** `node` is the map, `kids` the lists of children. A path as it is written
is the sequence of its parts between slashes, and `Normal` does what `normalize`
does: it trims white space at the two ends of the path, drops empty parts and `.`,
and resolves `..`. `mkdir`, `add_node`, `get` and `remove` normalise (`Dir`, `File`,
`Delete`, `Open`); `unmount_agent_ns` compares keys with a prefix that it does not
normalise (`Under`), made of the agent's id as it is (`Spelled`, `Base`). A path that
a capability names may leave the namespace with `..`.

An operation is a list of entries to make or to remove (`todo`), each in three
steps: change the map (`InsertNode`, `RemoveNode`), find the parent and try the lock
of its list (`TryLock`), change the list (`EditList`). While it has that lock it
holds a reference into the map, so that nobody replaces the parent (`Referenced`).
`Visit` is a step of the walk of an unmount through the map. A directory is replaced
by an empty one when it is made again, and what is below it stays. The namespace of
an agent is bound (`binds`) when all its entries are made. A task that reads a
directory that has left the map holds a list nobody else sees (`path` None).
`doubtful` is a history variable: the paths of which the list may be wrong, and why,
is said in `TryLock`, `EditList` and `InsertNode`. The daemon itself mounts no
namespace: mount and create are operations of the library.

## 3 Runs

| Run | Checks | Result |
|---|---|---|
| queue | `GuardInv` `KeepsOrder` `DrainAndRetainLoseNothing` `DrainReturns` `QueuedMessageLeaves` | hold |
| queue_prune | `OnlyDeliveredOrExpired` | violated, see 7 |
| hub | `TypeOK` `AtMostOnce` `NoGhostRegistration` `ImplementsMailbox` `MessagesSettle` `StaleRegistrationEnds` | hold |
| hub_teardown | `TeardownSparesSuccessor` | violated |
| breaker | `BreakerTypeOK` `ClosedBelowThreshold` `ProbesBounded` `ImplementsBreaker` | hold |
| proxy | `TypeOK` `ProbeTrafficBounded` `OpenTrafficDrains` `OpenBecomesDue` | hold |
| proxy_judged | `HalfOpenIsJudged` | violated |
| limiter | `TypeOK` `Conforms` `NeverStarved` | hold |
| endpoints | `HealthAgrees` `ScansKeepOthers` `OnlyScansAdd` `DownIsAvoided` `UpIsUsed` | hold |
| quantum | `Learned` `SaveHasIt` `NothingLeaks` | hold |
| daemon | `TypeOK` `RulesDecide` `IndexComplete` `ExitIsOrderly` `ShutdownCompletes` | hold |
| vfs | `TypeOK` `ListsAgree` `UnmountClears` | hold |

What the properties say stands above each in its module. The two refinements:
`ImplementsMailbox` maps the hub to a message that is unsent, accepted, delivered
or lost, with the place of its only copy hidden; `ImplementsBreaker` hides
everything of a circuit but its state. `MessagesSettle` is the liveness property
of the mailbox, through the same mapping. `DownIsAvoided` leaves out one case
that does not hold: a container that runs and never answers is removed as
long offline and then discovered again as Healthy, so it is routed to again and
again. The type invariants of `MessageQueue`, `EndpointRegistry` and
`QuantumRouter` say nothing that a change of the code could break, so no run checks
them: the proofs use them (`QueueTyping`, `HealthIsConsistent`, `NothingUnlearned`).
Those of the other modules relate several parts of the state. In `AgentHub` a
connection that has left its loop has aborted its send task; in `ProxyCircuit` a
request has a target exactly when it has selected one; in `Daemon` whatever comes
after loading has all rules and no bad one; in `Vfs` the lock of a list is that of a
directory in the map.

`OpenTrafficDrains` is about the filter: a candidate admitted before the trip is
still sent. `UnmountClears` is about agents whose id makes a path in normal form
(`Plain`).

`Learned` has its exception built in: an observation that has begun before the
ticker removes its conversation may be counted in a state nobody will see again.
`SaveHasIt` is about each save when it happens; that a later save of an older copy
may take an observation out of a row again is allowed, and happens. `ListsAgree` is
about the paths without a conflict, and the conflicts are named: the list was in
use, its directory was made anew, or two operations on the path overlapped.
`ExitIsOrderly` does not say that messages are stored.

Deadlock is checked in every run but `daemon`, where the process ends.

## 4 Bounds

* queue: two connections of one agent (two drains compete for an entry), a
  second agent that never connects (a prune pass with several entries), two
  messages (the least that have an order), `MaxAge` 2 (fresh, old, too old).
  Message identities are used again when nothing refers to them, so the number
  of enqueues is not bounded. 7,667 states.
* hub: one agent with two connections, which is what overlapping needs; more
  agents only share the maps. One message, by a handler that drops a failed send
  or by one that enqueues it; messages meet in the queue only, where the run queue
  has two. Each connection lives once and the message is sent once. `MaxAge` 1,
  `StaleAfter` 0: one tick makes a message or a registration old. 107,474 states.
* breaker: threshold 2, timeout 2 ticks, 2 half-open calls, and a counter that
  wraps at 4, so that it passes the threshold, wraps and passes it again. Two
  endpoints, for the refinement. 4,225 states.
* proxy: two endpoints, so that one can be admitted and not selected. One is a
  destination of the pipeline, the other changes its health and its place in
  the map. Two requests, each used again for the next. Threshold, timeout and
  half-open calls 1. 167,624 states. proxy_judged needs a single request, no
  pipeline, no cancellation and no change of the endpoints.
* limiter: 2 tokens per 3 ticks, so that refills round, and a lag of one tick.
  1,024 states.
* endpoints: a configured endpoint and a container, `MaxOffline` 1. The counter
  of failures is compared with 3 only and stops there. The configured endpoint has
  no tag of a scanner, that of a container or that of a port. 594,216 states. A port
  takes the same path as a container but for the first step of a scan; an
  instance with a port and a container is covered by the theorem
  `ScansRemoveTheirOwn`.
* quantum: one conversation (conversations share no state but the maps), two
  observations of one endpoint, so that copies overtake each other, one call of
  route at a time, again and again. Four objects: the map, two observations and a
  route can each hold a different one; a call that needs a fifth does not exist.
  `MaxAge` 0: one tick makes a conversation inactive. 398,278 states.
* daemon: ten configurations (two orders of four rules, two of which share a
  destination and two a priority, with and without quantum routing and circuits;
  one with TLS and no rules; one with a bad pattern), two endpoints that offer a
  common tool, one message, one proxy request, three background tasks: one on the
  common channel, the probes with their own, and the one that is optional.
  722,762 states.
* vfs: the base of an agent, a directory in it and the base of a second agent, under
  /net: siblings that compete for the list of /net, and a directory that is made anew
  above another. The id of the second agent ends with white space, so that mount makes
  another path than unmount looks for; a path of the first agent's capability leads
  to the second one's base. Two tasks, interchangeable, each with one operation after
  the other, without a limit. 2,135,636 states. Files are entries like directories.

No state constraint is used. Clocks are ages that stop where the code no longer
distinguishes them: `MaxAge`, `StaleAfter + 1`, `RecoveryTimeout`,
`MaxOffline + 1`, `Window + Lag`.

## 5 Fairness

Weak or strong fairness is assumed only of what the runtime does by itself:
tokio runs every ready task, tickers fire (daemon.rs:267-367), waiters of a lock
get it in the end (strong fairness, since they may be overtaken), requests to
endpoints end (the HTTP client has a timeout of 60 s, a probe 5 s, a scan 2 s)
and time passes. Nothing is assumed of clients: an agent need not connect, send
heartbeats or close, a sender need not submit. One exception: `OpenBecomesDue`
and `HalfOpenIsJudged` are about endpoints that are asked for, so requests keep
arriving in `ProxyCircuit`. A send task gets weak fairness as long as it has
something to do (`SendTaskBusy`): a message to send, or an abort to notice. A send
that the peer does not take may end the task as well. An idle task may fail on a
frame that is not modelled and need not. In `QuantumRouter` calls that have
begun go on and the ticker fires, in `Daemon` `run` and the shutdown task go on,
timers included, and upstreams answer or time out. Background tasks get no
fairness: a pass may take longer than five seconds, and a `select!` with two ready
branches may prefer the ticker.

## 6 Proofs

Checked by tlapm for every value of the constants that satisfies the named
assumptions of the modules.

| Theorem | Module | Statement |
|---|---|---|
| `QueueTyping` | `MessageQueueProofs` | `QueueSpec => []QueueTypeOK` |
| `GuardSafety` | `MessageQueueProofs` | `QueueSpec => []GuardInv` |
| `OrderIsKept` | `MessageQueueProofs` | `QueueSpec => KeepsOrder` |
| `NothingLost` | `MessageQueueProofs` | `QueueSpec => DrainAndRetainLoseNothing` |
| `HubTyping` | `AgentHubProofs` | `Spec => []TypeOK` |
| `NoGhosts` | `AgentHubProofs` | `Spec => []NoGhostRegistration` |
| `NoDuplicates` | `AgentHubProofs` | `Spec => []AtMostOnce` |
| `HubImplementsMailbox` | `AgentHubProofs` | `Spec => ImplementsMailbox` |
| `BreakerSafety` | `CircuitProofs` | `BreakerSpec =>` the types and the three safety invariants of the breaker, always |
| `BreakerRefinement` | `CircuitProofs` | `BreakerSpec => ImplementsBreaker` |
| `ProxyTyping` | `CircuitProofs` | `Spec => []TypeOK` |
| `ProbesAreFew` | `CircuitProofs` | `Spec => []ProbeTrafficBounded` |
| `ProxyKeepsBreaker` | `CircuitProofs` | `Spec => ImplementsBreaker` |
| `OpenCutsOff` | `CircuitProofs` | `Spec => OpenTrafficDrains` |
| `RateLimited` | `RateLimiterProofs` | `Spec => [](TypeOK /\ Conforms)` |
| `HealthIsConsistent` | `EndpointRegistryProofs` | `Spec => [](TypeOK /\ HealthAgrees)` |
| `ScansRemoveTheirOwn` | `EndpointRegistryProofs` | `Spec => ScansKeepOthers` |
| `ScansAddTheirOwn` | `EndpointRegistryProofs` | `Spec => OnlyScansAdd` |
| `NothingUnlearned` | `QuantumRouterProofs` | `Spec => [](TypeOK /\ Learned)` |
| `SavedRows` | `QuantumRouterProofs` | `Spec => SaveHasIt` |
| `DaemonTyping` | `DaemonProofs` | `Spec => []TypeOK` |
| `ConfigurationDecides` | `DaemonProofs` | `Spec => []RulesDecide` |
| `IndexIsComplete` | `DaemonProofs` | `Spec => []IndexComplete` |
| `ShutdownIsOrderly` | `DaemonProofs` | `Spec => []ExitIsOrderly` |
| `VfsTyping` | `VfsProofs` | `Spec => []TypeOK` |
| `ListsFollowNodes` | `VfsProofs` | `Spec => []ListsAgree` |
| `UnmountIsComplete` | `VfsProofs` | `Spec => UnmountClears` |

With these, every safety property that a passing run checks is a theorem; the run
shows it on an instance, and its mutants that it can fail.

**Queue.** What `retain` leaves of a queue is a recursive function (`Retain`), so
its properties need induction. The induction theorems of the library take a
predicate as a parameter, which the provers cannot instantiate. `SetInduction` is
induction over a set of numbers instead: a set that contains 0 and with each number
the next one contains all (from the pigeonhole theorem of the library). With it, the
function exists (`KeptExists`) and its value comes with an order-preserving
embedding into the queue, onto the messages that are not gone (`RetainKeeps`).
*QueueTyping* is inductive. *GuardSafety*: `GuardInv` plus the types of `guard`,
`drain` and `keys` is inductive; the clause that carries it is that a kept entry is
in `keys`: every removal is disabled while somebody keeps the entry. *OrderIsKept*:
every step but an enqueue leaves of each queue something that embeds into it in
order (`OnlyRemains`), and an enqueue appends a message that was nowhere.
*NothingLost*: in addition, a message identity has one place in the queues, and what
the pass has judged too old is too old in whichever queue it is (`PassIInv`), since
ages only grow.

**Hub.** *NoGhosts*: a closed connection is not registered because only `Ready`
connections register, and a connection leaves "closing" for "closed" only when its
registration is not its own, or after removing it. *HubTyping* is inductive with the
fact that a handler that sends has a channel (`SendingHasTx`). *NoDuplicates*: the
places of a message are of four kinds (handler, queue, channel, socket). `CopyInv`
says that there is one kind at a time, and one place of it. Every step has, for each
message, one of a few effects (`Effect`): it is accepted (`Starts`), goes on from a
handler or queue (`Moves`), from a channel to the socket (`Arrives`), is dropped
(`Fades`) or stays, and at most one message gets on. From `Effect` alone follow the
invariant and, with the fate of a message written by kind (`FateTable`), the steps of
the mailbox: *HubImplementsMailbox*.

**Breaker and proxy.** `BreakerInv` is inductive with the types; zero thresholds
make 0 behave like 1, hence `AtLeastOne`. *BreakerRefinement*: each operation moves
one endpoint along one edge of `Breaker` or leaves all phases alone. `ProxyInv` adds
that a request that looks its target up or was sent has one and, per endpoint, that the
requests in `probing` are counted in `half_open_calls` while the circuit is half
open: an `allow` that admits raises both, and whoever else asks raises only the
counter. *ProbesAreFew* is that count with `ProbesBounded`. *ProxyKeepsBreaker*: every
step of the proxy is a step of the breaker or leaves the circuits alone.
*OpenCutsOff*: an `allow` that admits does not leave a circuit open.

**Rate limiter.** `credit >= 0` is not inductive. What is: the tokens in the bucket
and the time since the last refill, in units of 1/window of a token, never exceed
`credit`. The proof is arithmetic about the floor in `Refill`, with the products
hidden behind lemmas.

**Endpoints.** *HealthIsConsistent*: the three conjuncts are inductive with the
types. *ScansRemoveTheirOwn*: what a scanner has still to remove has its tags (`OwnIds`).
*ScansAddTheirOwn*: what a scanner has still to visit is of its own kind.

**Quantum router.** `QuantumInv` adds to `Learned` that a call which holds a state
and whose conversation was not removed holds the state of the map (`Holding`), that
the copy to save has the observation (`CopyHasIt`), and what a route refers to
(`Routing`). The clause that carries it is `Holding`: `or_insert_with` looks and
inserts under one lock, so that two calls cannot make two states.

**Daemon.** *ConfigurationDecides*: `RulesInv` says that the list of the plumber
is a rearrangement of the first rules of the file, given by a function from places
in the list to places in the file under which an earlier place is a better rule
(`Places`), and that all rules are loaded when `run` serves. A sorted list is what
makes the rules of at least some priority its first ones, so that the place of a new
rule, which the model takes from their number, is behind them
(`InitialSegment`, `InsertKeepsPlaces`). With all rules loaded, the function carries
the candidates that are left to the matching rules of the file that are not refused,
and the least position to the best of them (`Selection`). *IndexIsComplete*: only an
answer of an endpoint changes the index, and an endpoint the timeout cut off counts
as failed. *ShutdownIsOrderly*: `OrderInv` adds that no request is cut while the
server runs and that none is waiting when `run` waits for the tasks. *DaemonTyping*
puts these invariants together.

**VFS.** Between the change of a node and that of its parent's list anything may
happen to both, so `ListsInv` says what an editor may rely on. The task that holds a
list still has its directory in the map (`Placed`), since it holds a reference; and an
editor nobody has overtaken (not `mixed`) made the last change to its node
(`UnmixedIsLast`), so what it writes to the list is true of the node. That two names
in one directory are two paths is a lemma on sequences (`PathIsParentAndName`), for
which the tree is assumed to consist of sequences in normal form (`VfsAssumption`).
*VfsTyping*: with `Placed`, the name an editor writes is that of a child of its
directory. *UnmountIsComplete*: what an unmount owes and has not gone is still to be
visited or among its keys (`Owes`). It owes what is at or below the directory that
mount makes, if that is the path it looks for, and then all of that has its prefix
(`OwnIsUnder`).

Only model-checked: the liveness properties, since fairness and ENABLED are beyond
the prover (`DrainReturns`, `QueuedMessageLeaves`, `MessagesSettle`,
`StaleRegistrationEnds`, `OpenBecomesDue`, `NeverStarved`, `DownIsAvoided`,
`UpIsUsed`, `NothingLeaks`, `ShutdownCompletes`). `FoldLeft`, `SelectSeq` and
`FlattenSeq` remain in `Vfs` in the normalisation of paths and in the lists of
entries of a mount; no theorem depends on what they return, since `InsertNode` and
`RemoveNode` look at the entry they get.

## 7 What the checks found

Each is a run that TLC refutes, listed under "findings" with the line quoted.

1. `queue_prune`: `prune_old` removes the ids it found empty without looking
   again (queue.rs:91): a message enqueued in between is dropped unaged. The
   drain uses `remove_if` against the same race.
2. `hub_teardown`: the check that a connection is not superseded and the removal
   by id are two steps; a hello in between is unregistered by the old connection.
3. `proxy_judged`: candidates that are not selected use up half-open calls. With
   one request at a time, a healthy endpoint in front is enough to leave another
   one HalfOpen for ever.

Seen while modelling, without a run. An endpoint that comes back between the
collection and the removal of the prune task is removed while Healthy
(probe.rs:118), and a configured one does not return. A sender finds no
registration, the agent says hello and drains, the sender enqueues
(transport.rs:185): the message waits in the queue of an agent that is online, until
its next hello or an hour has passed. In the virtual filesystem, a mount and an
unmount that overlap, or one that meets a reader, leave a name in the list of the
parent without a node, or a node that is not listed (registry.rs:99): what WebSocket
clients read from a directory (the list) and what REST clients are shown (the map)
then differ. The removal of a directory leaves what is below it in the map. Unmount
does not normalise the id it gets (registry.rs:147): for an id with white space at
its end the base stays, and for one with `..` or an empty part everything, where
namespace.rs:80 says "Also remove all /net entries for this agent"; what a
capability made outside of the namespace by a path with `..` stays too. An endpoint
of the configuration with the tags of a scanner is removed by a scan that does not
find it (discovery.rs:81, docker.rs:123) and does not return. `ctl` nodes store what
is written to them: vnode.rs:28 says a write triggers an action, and none does.
WebSocket and gRPC messages bypass the circuits and the tool index. An error of the
server ends `run` without telling the background tasks. The pattern of the prune
task lets the cleanup task unregister an agent that is alive (daemon.rs:346); an
agent unregistered that way or by the REST API keeps its connection and is not
registered again by its heartbeats; the rate limiter's key is ip:port
(ratelimit.rs:75) where its comment says client IP (ratelimit.rs:12), and its
buckets are never removed; probes do not run if no endpoint is configured
(daemon.rs:257).

## 8 What is not modelled

In the modules about delivery, the choice of a destination is free (it is the
subject of `RoutingPipeline`). The contents of messages and responses, and the names of
services are chosen freely. Left out:

* amplitudes, rewards, decoherence and the entanglement table of the quantum
  router: floating point, and `record_pair` has no caller; `load_from_store` is an
  empty hook that reads no row;
* the content of files in the VFS: a write replaces the bytes of a file under its
  own lock;
* queries of the store, the event log, conversations and their history: SQL behind
  a connection pool;
* the calls of MCP tools, model aliases and streamed answers of the proxy, which
  pass a request on;
* keys of the VFS with white space at their end, as `/net/x /y/..` makes them:
  `parent_path` normalises once more and would trim them (`VfsAssumption`);
* authentication, what TLS set-up does besides failing, configuration, telemetry,
  the CLI, the gRPC and JSON codecs: no state that changes.

A failed Docker call ends a scan without a change, which is the same as no scan.

## 9 Plan

1. Proofs: leads-to properties by hand, as soon as the prover handles ENABLED; what
   `Normal` returns for any path (by `SetInduction`).
2. Contents of files, if namespaces come to be mounted by the daemon.
3. The store, if the router comes to read its rows back: then the order of the
   saves matters.
