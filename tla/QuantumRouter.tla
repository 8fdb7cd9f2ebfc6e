---------------------------- MODULE QuantumRouter ----------------------------
(***************************************************************************)
(* What the quantum router learns and forgets: the states of conversations *)
(* of src/quantum/state.rs, and the operations of src/quantum/router.rs on *)
(* them, route, observe, diagnostics and the periodic tick, as             *)
(* src/daemon.rs, src/proxy.rs and src/api.rs call them.                   *)
(*                                                                         *)
(* A ConversationState is shared: whoever has looked it up keeps working   *)
(* on it, also after the tick has removed it from the map and another one  *)
(* has been created for the same conversation. States therefore have       *)
(* identities, taken from a pool.                                          *)
(*                                                                         *)
(* The entry of an endpoint is the set of the observations counted in it:  *)
(* pulls is its size. Amplitudes and rewards are left out: an amplitude    *)
(* only weighs the choice of route, and exploration may choose any         *)
(* candidate. The entanglement table is empty (record_pair has no caller). *)
(***************************************************************************)
EXTENDS Naturals

CONSTANTS
    Conversations,  \* conversation ids; feedback uses message ids for them
    Endpoints,      \* endpoint ids
    Observations,   \* calls of observe, each with the
    ConversationOf, \*     conversation
    EndpointOf,     \*     and the endpoint that it is about
    Routers,        \* concurrent calls of route
    Objects,        \* pool of identities of conversation states
    MaxAge,         \* 3600 seconds of prune_old, in ticks
    None

ASSUME QuantumAssumption ==
    /\ ConversationOf \in [Observations -> Conversations]
    /\ EndpointOf \in [Observations -> Endpoints]
    /\ MaxAge \in Nat
    /\ None \notin Objects \cup Endpoints \cup Conversations

VARIABLES
    table,      \* conversations: the state of each one in the map, or None
    object,     \* object[o]: endpoints with an entry, what they have counted,
                \* the time since last_active
    last,       \* last_endpoint
    observe,    \* observe[b]: where the call is, its state, its copy to save
    route,      \* route[r]: the call in progress
    tick,       \* prune_old and retain: the phase, the ids left
    row,        \* row[c][e]: what the stored row of c and e has counted, or {}
    lost        \* history: the observations whose conversation was removed
                \* after they had begun

vars == <<table, object, last, observe, route, tick, row, lost>>

NewObject == [known |-> {}, counted |-> {}, age |-> 0]

IdleRoute == [conversation |-> None, state |-> None, candidates |-> {}, built |-> FALSE]

Init ==
    /\ table = [c \in Conversations |-> None]
    /\ object = [o \in Objects |-> NewObject]
    /\ last = [c \in Conversations |-> None]
    /\ observe = [b \in Observations |-> [pc |-> "idle", state |-> None, copy |-> {}]]
    /\ route = [r \in Routers |-> IdleRoute]
    /\ tick = [phase |-> "idle", todo |-> {}]
    /\ row = [c \in Conversations |-> [e \in Endpoints |-> {}]]
    /\ lost = {}

-----------------------------------------------------------------------------
(* The map of conversations                                                *)

\* Who refers to a state: the map and the calls in progress. A state is
\* dropped with the last reference to it.
Referenced(o) ==
    \/ \E c \in Conversations : table[c] = o
    \/ \E b \in Observations : observe[b].state = o
    \/ \E r \in Routers : route[r].state = o

Kept(obj) == [o \in Objects |-> IF Referenced(o)' THEN obj[o] ELSE NewObject]

Free == {o \in Objects : ~Referenced(o)}

GetOrCreateUnlocked(c, o) ==   \* faulty variant: inserts without a second look
    /\ o \in Free
    /\ table' = [table EXCEPT ![c] = o]
    /\ object' = [object EXCEPT ![o] = NewObject]

\* entry(c).or_insert_with(new) looks and inserts under one lock: o is the
\* state of c, which may be new.
GetOrCreate(c, o) ==
    \/ /\ table[c] # None
       /\ o = table[c]
       /\ UNCHANGED <<table, object>>
    \/ /\ table[c] = None
       /\ o \in Free
       /\ o = CHOOSE f \in Free : TRUE
       /\ table' = [table EXCEPT ![c] = o]
       /\ object' = [object EXCEPT ![o] = NewObject]

\* diagnostics: the first question about a conversation creates it.
Diagnostics(c) ==
    /\ \E o \in Objects : GetOrCreate(c, o)
    /\ UNCHANGED <<last, observe, route, tick, row, lost>>

-----------------------------------------------------------------------------
(* observe, also called for feedback                                       *)

ObserveOpen(b) ==
    /\ observe[b].pc = "idle"
    /\ \E o \in Objects :
          /\ GetOrCreate(ConversationOf[b], o)
          /\ observe' = [observe EXCEPT ![b] = [pc |-> "count", state |-> o, copy |-> {}]]
    /\ UNCHANGED <<last, route, tick, row, lost>>

\* The entry of the endpoint is updated under its lock.
ObserveCount(b) ==
    LET o == observe[b].state IN
    /\ observe[b].pc = "count"
    /\ object' = [object EXCEPT ![o] = [known |-> object[o].known \cup {EndpointOf[b]},
                                        counted |-> object[o].counted \cup {b},
                                        age |-> object[o].age]]
    /\ observe' = [observe EXCEPT ![b].pc = "touch"]
    /\ UNCHANGED <<table, last, route, tick, row, lost>>

\* last_active = now; decoherence changes the amplitudes only.
ObserveTouch(b) ==
    LET o == observe[b].state
        touched == [object EXCEPT ![o] = [known |-> object[o].known,
                                          counted |-> object[o].counted, age |-> 0]] IN
    /\ observe[b].pc = "touch"
    /\ observe' = [observe EXCEPT ![b] = [pc |-> "reopen", state |-> None, copy |-> {}]]
    /\ UNCHANGED <<table, last, route, tick, row, lost>>
    /\ object' = Kept(touched)

\* The conversation is looked up a second time for the copy to save.
ObserveReopen(b) ==
    /\ observe[b].pc = "reopen"
    /\ \E o \in Objects :
          /\ GetOrCreate(ConversationOf[b], o)
          /\ observe' = [observe EXCEPT ![b] = [pc |-> "copy", state |-> o, copy |-> {}]]
    /\ UNCHANGED <<last, route, tick, row, lost>>

\* What the entry of b's endpoint has counted in state o.
EntryOf(b, o) == {d \in object[o].counted : EndpointOf[d] = EndpointOf[b]}

ObserveCopyOthers(b) ==   \* faulty variant: a copy from before the update
    LET o == observe[b].state IN
    /\ observe[b].pc = "copy"
    /\ observe' = [observe EXCEPT ![b] =
          IF EndpointOf[b] \in object[o].known
          THEN [pc |-> "save", state |-> None, copy |-> EntryOf(b, o) \ {b}]
          ELSE [pc |-> "done", state |-> None, copy |-> {}]]
    /\ UNCHANGED <<table, last, route, tick, row, lost>>
    /\ object' = Kept(object)

\* A state without an entry of the endpoint leaves nothing to save. Otherwise
\* the copy goes to a task of its own, and the call returns.
ObserveCopy(b) ==
    LET o == observe[b].state IN
    /\ observe[b].pc = "copy"
    /\ observe' = [observe EXCEPT ![b] =
          IF EndpointOf[b] \in object[o].known
          THEN [pc |-> "save", state |-> None, copy |-> EntryOf(b, o)]
          ELSE [pc |-> "done", state |-> None, copy |-> {}]]
    /\ UNCHANGED <<table, last, route, tick, row, lost>>
    /\ object' = Kept(object)

\* save_quantum_state: an upsert of the row, in whatever order the tasks of
\* several observations get to it, or an error that is logged.
Save(b) ==
    /\ observe[b].pc = "save"
    /\ observe' = [observe EXCEPT ![b] = [pc |-> "done", state |-> None, copy |-> {}]]
    /\ row' = [row EXCEPT ![ConversationOf[b]][EndpointOf[b]] = observe[b].copy]
    /\ UNCHANGED <<table, object, last, route, tick, lost>>

SaveFails(b) ==
    /\ observe[b].pc = "save"
    /\ observe' = [observe EXCEPT ![b] = [pc |-> "failed", state |-> None, copy |-> {}]]
    /\ UNCHANGED <<table, object, last, route, tick, row, lost>>

ObserveStep(b) ==
    \/ ObserveCount(b)
    \/ ObserveTouch(b)
    \/ ObserveReopen(b)
    \/ ObserveCopy(b)
    \/ Save(b)
    \/ SaveFails(b)

-----------------------------------------------------------------------------
(* route                                                                   *)

\* Without candidates route returns at once.
RouteOpen(r, c, S) ==
    /\ route[r] = IdleRoute
    /\ S # {}
    /\ \E o \in Objects :
          /\ GetOrCreate(c, o)
          /\ route' = [route EXCEPT ![r] =
                [conversation |-> c, state |-> o, candidates |-> S, built |-> FALSE]]
    /\ UNCHANGED <<last, observe, tick, row, lost>>

\* get_or_insert of every candidate. last_active stays as it is.
RouteBuild(r) ==
    LET o == route[r].state IN
    /\ route[r].state # None
    /\ ~route[r].built
    /\ object' = [object EXCEPT ![o] =
          [known |-> object[o].known \cup route[r].candidates,
           counted |-> object[o].counted, age |-> object[o].age]]
    /\ route' = [route EXCEPT ![r].built = TRUE]
    /\ UNCHANGED <<table, last, observe, tick, row, lost>>

\* Weighted by the amplitudes, or uniformly: any candidate.
RouteSelect(r) ==
    /\ route[r].built
    /\ \E e \in route[r].candidates : last' = [last EXCEPT ![route[r].conversation] = e]
    /\ route' = [route EXCEPT ![r] = IdleRoute]
    /\ UNCHANGED <<table, observe, tick, row, lost>>
    /\ object' = Kept(object)

RouteStep(r) == RouteBuild(r) \/ RouteSelect(r)

-----------------------------------------------------------------------------
(* tick                                                                    *)

Inactive == {c \in Conversations : table[c] # None /\ object[table[c]].age > MaxAge}

\* A pass of prune_old over what is left to remove, and then retain, which
\* visits every key.
Removing(S) == IF S = {} THEN [phase |-> "retain", todo |-> Conversations]
               ELSE [phase |-> "remove", todo |-> S]
Retaining(S) == [phase |-> IF S = {} THEN "idle" ELSE "retain", todo |-> S]

\* prune_old collects the ids of inactive conversations,
TickCollect ==
    /\ tick.phase = "idle"
    /\ tick' = Removing(Inactive)
    /\ UNCHANGED <<table, object, last, observe, route, row, lost>>

\* and removes each of them, without a second look.
TickRemove(c) ==
    /\ tick.phase = "remove"
    /\ c \in tick.todo
    /\ tick' = Removing(tick.todo \ {c})
    /\ table' = [table EXCEPT ![c] = None]
    /\ lost' = lost \cup {b \in Observations : ConversationOf[b] = c /\ observe[b].pc # "idle"}
    /\ UNCHANGED <<last, observe, route, row>>
    /\ object' = Kept(object)

TickForgetActive(c) ==   \* faulty variant: keeps what it should drop and drops the rest
    /\ tick.phase = "retain"
    /\ c \in tick.todo
    /\ tick' = Retaining(tick.todo \ {c})
    /\ last' = IF table[c] # None THEN [last EXCEPT ![c] = None] ELSE last
    /\ UNCHANGED <<table, object, observe, route, row, lost>>

TickForget(c) ==
    /\ tick.phase = "retain"
    /\ c \in tick.todo
    /\ tick' = Retaining(tick.todo \ {c})
    /\ last' = IF table[c] = None THEN [last EXCEPT ![c] = None] ELSE last
    /\ UNCHANGED <<table, object, observe, route, row, lost>>

TickStep ==
    \/ TickCollect
    \/ \E c \in Conversations : TickRemove(c) \/ TickForget(c)

-----------------------------------------------------------------------------

InMap(o) == \E c \in Conversations : table[c] = o

\* The unit of time is long: update reads the clock, counts and writes
\* last_active within one. Nobody asks for the age of a state that has left
\* the map.
TimePasses ==
    /\ \A b \in Observations : observe[b].pc \notin {"count", "touch"}
    /\ object' = [o \in Objects |->
          [known |-> object[o].known, counted |-> object[o].counted,
           age |-> IF object[o].age <= MaxAge /\ InMap(o)
                   THEN object[o].age + 1 ELSE object[o].age]]
    /\ UNCHANGED <<table, last, observe, route, tick, row, lost>>

Next ==
    \/ \E b \in Observations : ObserveOpen(b) \/ ObserveStep(b)
    \/ \E r \in Routers, c \in Conversations, S \in SUBSET Endpoints : RouteOpen(r, c, S)
    \/ \E r \in Routers : RouteStep(r)
    \/ \E c \in Conversations : Diagnostics(c)
    \/ TickStep
    \/ TimePasses

Spec == Init /\ [][Next]_vars

\* Calls that have begun go on, the ticker fires and time passes. Whether
\* anybody observes, routes or asks is up to the clients.
Fairness ==
    /\ \A b \in Observations : WF_vars(ObserveStep(b))
    /\ \A r \in Routers : WF_vars(RouteStep(r))
    /\ WF_vars(TickStep)
    /\ WF_vars(TimePasses)

FairSpec == Spec /\ Fairness

-----------------------------------------------------------------------------
(* Properties *)

\* Types of the maps, of the calls in progress and of the store.
TypeOK ==
    /\ table \in [Conversations -> Objects \cup {None}]
    /\ object \in [Objects -> [known : SUBSET Endpoints, counted : SUBSET Observations,
                               age : 0..(MaxAge + 1)]]
    /\ last \in [Conversations -> Endpoints \cup {None}]
    /\ observe \in [Observations ->
          [pc : {"idle", "count", "touch", "reopen", "copy", "save", "done", "failed"},
           state : Objects \cup {None}, copy : SUBSET Observations]]
    /\ route \in [Routers ->
          [conversation : Conversations \cup {None}, state : Objects \cup {None},
           candidates : SUBSET Endpoints, built : BOOLEAN]]
    /\ tick \in [phase : {"idle", "remove", "retain"}, todo : SUBSET Conversations]
    /\ row \in [Conversations -> [Endpoints -> SUBSET Observations]]
    /\ lost \in SUBSET Observations

Counted(b) == observe[b].pc \in {"touch", "reopen", "copy", "save", "done", "failed"}

\* Nothing is unlearned but by the tick: an observation that was counted is
\* in the state the next route of its conversation will use, however the
\* first lookups of a new conversation and the updates interleave, unless the
\* conversation was removed after the observation had begun.
Learned ==
    \A b \in Observations : Counted(b) /\ b \notin lost =>
        /\ table[ConversationOf[b]] # None
        /\ b \in object[table[ConversationOf[b]]].counted

\* The row that the task of an observation writes has counted it, although
\* the copy was taken after a second lookup; with the same exception: a state
\* created by that lookup may hold an entry without a single observation, and
\* saving it resets the row.
SaveHasIt ==
    [][\A b \in Observations \ lost :
          observe[b].pc = "save" /\ observe'[b].pc = "done"
              => b \in row'[ConversationOf[b]][EndpointOf[b]]]_vars

Leftover(c) == table[c] = None /\ last[c] # None

\* The maps do not keep what nobody uses: a conversation that is inactive too
\* long is removed or used again, and so is the last endpoint of one that has
\* been removed, also when a route that had begun before stores it later.
NothingLeaks ==
    \A c \in Conversations :
        /\ c \in Inactive ~> c \notin Inactive
        /\ Leftover(c) ~> ~Leftover(c)
=============================================================================
