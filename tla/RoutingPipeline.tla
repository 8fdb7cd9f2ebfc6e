--------------------------- MODULE RoutingPipeline ---------------------------
(***************************************************************************)
(* How a message gets its destination: the rules of src/plumber.rs, the    *)
(* tool index of src/mcp.rs, the stages of src/router.rs, and the shorter  *)
(* way that src/net/transport.rs and the gRPC handler take. Rules and      *)
(* index are built while the daemon starts and never change afterwards;    *)
(* module Daemon starts it and takes the requests.                         *)
(*                                                                         *)
(* A rule is a name with a priority and a destination; whether its pattern *)
(* and its headers match a message is given. What a circuit or the health  *)
(* of an endpoint says is free (modules CircuitBreaker and                 *)
(* EndpointRegistry), and so is what the quantum router selects among its  *)
(* candidates (module QuantumRouter).                                      *)
(***************************************************************************)
EXTENDS Integers, FiniteSets, SequencesExt

CONSTANTS
    Rules,          \* the plumber rules, each with
    Priority,       \*     its priority
    Destination,    \*     and its destination, several may have the same
    BadRules,       \* the rules whose pattern is not a regular expression
    Endpoints,      \* the AI endpoints of the configuration
    Tools,          \* tool names
    Offers,         \* Offers[e]: the tools of endpoint e
    Messages,       \* messages, each with
    Matches,        \*     the rules it matches
    ToolOf,         \*     and the tool it calls, or None
    Log,            \* the destination "/proc/log"
    None

ASSUME PipelineAssumption ==
    /\ Priority \in [Rules -> Int]
    /\ BadRules \subseteq Rules
    /\ Offers \in [Endpoints -> SUBSET Tools]
    /\ Matches \in [Messages -> SUBSET Rules]
    /\ ToolOf \in [Messages -> Tools \cup {None}]
    /\ None \notin Endpoints \cup Tools /\ Log # None
    /\ \A r \in Rules : Destination[r] # None

VARIABLES
    settings,   \* the configuration: rules in the order of the file; whether
                \* quantum routing, circuit breakers and TLS are enabled
    rules,      \* the list of the plumber
    mcp,        \* discovery: the clients not asked yet, those that failed
    index,      \* index[t]: the endpoint that calls of tool t go to, or None
    decision    \* decision[m]: the way m came, who refused it, what was selected

pipelineVars == <<settings, rules, mcp, index, decision>>

Destinations == {Destination[r] : r \in Rules} \cup {Log} \cup Endpoints

Undecided == [via |-> "none", refused |-> {}, selected |-> None]

PipelineInit ==
    /\ rules = <<>>
    /\ mcp = [todo |-> Endpoints, failed |-> {}]
    /\ index = [t \in Tools |-> None]
    /\ decision = [m \in Messages |-> Undecided]

-----------------------------------------------------------------------------
(* Start                                                                   *)

InsertedFirst(list, r) ==   \* faulty variant: a rule goes before its equals
    InsertAt(list, Cardinality({i \in DOMAIN list : Priority[list[i]] > Priority[r]}) + 1, r)

\* A push and a stable sort by descending priority of a list that is sorted.
Inserted(list, r) ==
    InsertAt(list, Cardinality({i \in DOMAIN list : Priority[list[i]] >= Priority[r]}) + 1, r)

\* load_from_config, one rule after the other.
Loaded == Len(rules) = Len(settings.rules)

LoadRule ==
    LET r == settings.rules[Len(rules) + 1] IN
    /\ ~Loaded
    /\ r \notin BadRules
    /\ rules' = Inserted(rules, r)
    /\ UNCHANGED <<settings, mcp, index, decision>>

DiscoverAnswerOverwrites(e) ==   \* faulty variant: the failure of a later endpoint
    /\ e \in mcp.todo            \* drops what the others offer
    /\ \/ /\ mcp' = [mcp EXCEPT !.todo = mcp.todo \ {e}]
          /\ index' = [t \in Tools |->
                IF t \in Offers[e] /\ index[t] = None THEN e ELSE index[t]]
       \/ /\ mcp' = [todo |-> mcp.todo \ {e}, failed |-> mcp.failed \cup {e}]
          /\ index' = [t \in Tools |-> None]
    /\ UNCHANGED <<settings, rules, decision>>

\* discover_and_index asks one endpoint after the other, in the order of a
\* hash map. The first endpoint that offers a tool keeps it; an endpoint that
\* does not answer is skipped.
DiscoverAnswer(e) ==
    /\ e \in mcp.todo
    /\ \/ /\ mcp' = [mcp EXCEPT !.todo = mcp.todo \ {e}]
          /\ index' = [t \in Tools |->
                IF t \in Offers[e] /\ index[t] = None THEN e ELSE index[t]]
       \/ /\ mcp' = [todo |-> mcp.todo \ {e}, failed |-> mcp.failed \cup {e}]
          /\ UNCHANGED index
    /\ UNCHANGED <<settings, rules, decision>>

-----------------------------------------------------------------------------
(* Requests                                                                *)

\* Plumber::route. The candidates are a function on the positions of their
\* rules in the list; the one of the least position comes first.
Routed(m) ==
    LET matching == {k \in DOMAIN rules : rules[k] \in Matches[m]}
    IN  IF matching = {} THEN [k \in {1} |-> Log]
        ELSE [k \in matching |-> Destination[rules[k]]]

\* CircuitAwareStage asks for every candidate, also for one it has asked for
\* before. Only endpoints have circuits that open and health; an id that is
\* refused once is refused altogether.
Verdicts(c) ==
    IF settings.circuit
    THEN {v \in [DOMAIN c -> BOOLEAN] : \A i \in DOMAIN c : c[i] \notin Endpoints => v[i]}
    ELSE {[i \in DOMAIN c |-> TRUE]}

Refused(c, v) == {c[i] : i \in {j \in DOMAIN c : ~v[j]}}

Valid(c, refused) == Restrict(c, {k \in DOMAIN c : c[k] \notin refused})

\* QuantumRoutingStage, or the first candidate.
Selectable(c) ==
    IF DOMAIN c = {} THEN {None}
    ELSE IF settings.quantum THEN Range(c)
    ELSE {c[k] : k \in {l \in DOMAIN c : \A n \in DOMAIN c : l <= n}}

HasTool(m) == ToolOf[m] # None /\ index[ToolOf[m]] # None

\* RoutingPipeline::route: a tool call goes to the endpoint of the index;
\* otherwise plumber, circuits, quantum router or fallback.
RoutePipeline(m) ==
    /\ \/ /\ HasTool(m)
          /\ decision' = [decision EXCEPT ![m] =
                [via |-> "mcp", refused |-> {}, selected |-> index[ToolOf[m]]]]
       \/ /\ ~HasTool(m)
          /\ \E v \in Verdicts(Routed(m)) :
                LET refused == Refused(Routed(m), v) IN
                \E d \in Selectable(Valid(Routed(m), refused)) :
                    decision' = [decision EXCEPT ![m] =
                        [via |-> "rules", refused |-> refused, selected |-> d]]
    /\ UNCHANGED <<settings, rules, mcp, index>>

\* A message of an agent or of a gRPC client: no tools, no circuits.
RouteDirect(m) ==
    /\ \E d \in Selectable(Routed(m)) :
          decision' = [decision EXCEPT ![m] =
              [via |-> "direct", refused |-> {}, selected |-> d]]
    /\ UNCHANGED <<settings, rules, mcp, index>>

-----------------------------------------------------------------------------
(* Properties *)

PipelineTypeOK ==
    /\ settings \in [rules : Seq(Rules), quantum : BOOLEAN, circuit : BOOLEAN, tls : BOOLEAN]
    /\ rules \in Seq(Rules)
    /\ mcp \in [todo : SUBSET Endpoints, failed : SUBSET Endpoints]
    /\ index \in [Tools -> Endpoints \cup {None}]
    /\ decision \in [Messages -> [via : {"mcp", "rules", "direct", "none"},
                                  refused : SUBSET Destinations,
                                  selected : Destinations \cup {None}]]

\* Of two rules of the file, which comes first: the one of higher priority,
\* and of equals the one that stands first.
Before(i, j) ==
    LET p == Priority[settings.rules[i]]  q == Priority[settings.rules[j]]
    IN  p > q \/ (p = q /\ i < j)

\* The destinations that no circuit refused, and the best of them, in terms
\* of the configuration.
Open(m) ==
    {i \in DOMAIN settings.rules :
        settings.rules[i] \in Matches[m]
        /\ Destination[settings.rules[i]] \notin decision[m].refused}

Unmatched(m) == \A i \in DOMAIN settings.rules : settings.rules[i] \notin Matches[m]

\* The configuration decides where a message goes: to the destination of the
\* matching rule with the highest priority, the first in the file of several,
\* among those that no circuit refused; to the log if no rule matches (which
\* only an endpoint of that name can refuse); nowhere if all are refused. The
\* quantum router may choose another of them, and never one that is refused.
\* However the rules were loaded, duplicate destinations included.
RulesDecide ==
    \A m \in Messages : decision[m].via \in {"rules", "direct"} =>
        LET s == decision[m].selected
            DestinationOf(i) == Destination[settings.rules[i]]
        IN  IF Unmatched(m)
            THEN s = IF Log \in Endpoints \cap decision[m].refused THEN None ELSE Log
            ELSE IF Open(m) = {} THEN s = None
            ELSE \E i \in Open(m) :
                    /\ s = DestinationOf(i)
                    /\ settings.quantum \/ \A j \in Open(m) \ {i} : Before(i, j)

\* The index is worth what discovery got to: a tool goes to an endpoint that
\* offers it, and an endpoint that has answered keeps no tool from being
\* found, whoever failed and wherever the time ran out.
IndexComplete ==
    \A t \in Tools :
        /\ index[t] # None => t \in Offers[index[t]]
        /\ \A e \in Endpoints \ (mcp.todo \cup mcp.failed) : t \in Offers[e] => index[t] # None
=============================================================================
