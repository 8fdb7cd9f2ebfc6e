---------------------------- MODULE DaemonProofs ----------------------------
(***************************************************************************)
(* Proofs about Daemon: the index of tools is worth what discovery got to, *)
(* the shutdown is orderly, the rules of the configuration decide where a  *)
(* message goes, and types, for any configuration, endpoints, tools,       *)
(* messages, requests and background tasks.                                *)
(***************************************************************************)
EXTENDS Daemon, FiniteSetTheorems, TLAPS

-----------------------------------------------------------------------------
(* The index                                                               *)

IndexInv ==
    /\ index \in [Tools -> Endpoints \cup {None}]
    /\ mcp \in [todo : SUBSET Endpoints, failed : SUBSET Endpoints]
    /\ IndexComplete

\* Only discovery and the start of the server touch the index or what is
\* known of the endpoints.
LEMMA IndexFrame ==
  ASSUME [Next]_vars
  PROVE  \/ UNCHANGED <<mcp, index>>
         \/ \E e \in Endpoints : DiscoverAnswer(e)
         \/ Serve
  <1>1. CASE Load
    BY <1>1 DEF Load, LoadRule, pipelineVars
  <1>2. CASE LoadFails \/ ServeFails \/ ServerDrain \/ ServerStop \/ Exit \/ Signal \/ Tell
    BY <1>2 DEF LoadFails, ServeFails, ServerDrain, ServerStop, Exit, Signal, Tell, pipelineVars
  <1>3. CASE Discover
    BY <1>3 DEF Discover
  <1>4. ASSUME NEW t \in Background, GiveUp(t) \/ TaskTick(t) \/ TaskPassEnds(t) \/ TaskStop(t)
        PROVE  UNCHANGED <<mcp, index>>
    BY <1>4 DEF GiveUp, TaskTick, TaskPassEnds, TaskStop, pipelineVars
  <1>5. ASSUME NEW m \in Messages, Handle(m) \/ StoreJob(m)
        PROVE  UNCHANGED <<mcp, index>>
    BY <1>5 DEF Handle, StoreJob, RoutePipeline, RouteDirect, pipelineVars
  <1>6. ASSUME NEW c \in Calls, CallArrive(c) \/ CallReturn(c)
        PROVE  UNCHANGED <<mcp, index>>
    BY <1>6 DEF CallArrive, CallReturn, pipelineVars
  <1>7. CASE UNCHANGED vars
    BY <1>7 DEF vars, pipelineVars
  <1>8. QED
    BY <1>1, <1>2, <1>3, <1>4, <1>5, <1>6, <1>7 DEF Next, Main

LEMMA IndexInit == Init => IndexInv
  <1> SUFFICES ASSUME Init PROVE IndexInv
    OBVIOUS
  <1>1. index = [t \in Tools |-> None] /\ mcp = [todo |-> Endpoints, failed |-> {}]
    BY DEF Init, PipelineInit
  <1>2. QED
    BY <1>1 DEF IndexInv, IndexComplete

LEMMA IndexStep == IndexInv /\ [Next]_vars => IndexInv'
  <1> SUFFICES ASSUME IndexInv, [Next]_vars PROVE IndexInv'
    OBVIOUS
  <1> USE DEF IndexInv
  <1>1. CASE UNCHANGED <<mcp, index>>
    BY <1>1 DEF IndexComplete
  <1>2. ASSUME NEW e \in Endpoints, DiscoverAnswer(e)
        PROVE  IndexInv'
    <2>1. CASE /\ mcp' = [mcp EXCEPT !.todo = mcp.todo \ {e}]
               /\ index' = [t \in Tools |->
                     IF t \in Offers[e] /\ index[t] = None THEN e ELSE index[t]]
      <3>1. mcp' \in [todo : SUBSET Endpoints, failed : SUBSET Endpoints]
            /\ mcp'.todo = mcp.todo \ {e} /\ mcp'.failed = mcp.failed
        BY <2>1
      <3>2. index' \in [Tools -> Endpoints \cup {None}]
        BY <2>1
      <3>3. ASSUME NEW t \in Tools, index'[t] # None PROVE t \in Offers[index'[t]]
        BY <2>1, <3>3 DEF IndexComplete
      <3>4. ASSUME NEW t \in Tools, NEW f \in Endpoints \ (mcp'.todo \cup mcp'.failed),
                   t \in Offers[f]
            PROVE  index'[t] # None
        BY <2>1, <3>1, <3>4, PipelineAssumption DEF IndexComplete
      <3>5. QED
        BY <3>1, <3>2, <3>3, <3>4 DEF IndexComplete
    <2>2. CASE /\ mcp' = [todo |-> mcp.todo \ {e}, failed |-> mcp.failed \cup {e}]
               /\ UNCHANGED index
      BY <2>2 DEF IndexComplete
    <2>3. QED
      BY <1>2, <2>1, <2>2 DEF DiscoverAnswer
  <1>3. CASE Serve
    <2>1. mcp' = [todo |-> {}, failed |-> mcp.todo \cup mcp.failed] /\ index' = index
      BY <1>3 DEF Serve
    <2>2. QED
      BY <2>1 DEF IndexComplete
  <1>4. QED
    BY <1>1, <1>2, <1>3, IndexFrame

\* An endpoint that has answered keeps no tool from being found, and a tool
\* goes to an endpoint that offers it, whoever failed and wherever the ten
\* seconds of daemon.rs:105 ran out.
THEOREM IndexIsComplete == Spec => []IndexComplete
  <1>1. IndexInv => IndexComplete
    BY DEF IndexInv
  <1>2. QED
    BY IndexInit, IndexStep, <1>1, PTL DEF Spec

-----------------------------------------------------------------------------
(* The shutdown                                                            *)

\* Requests are cut only when the server stops or the process ends, and when
\* run() waits for the tasks no request is in progress any more.
OrderInv ==
    /\ phase \in {"load", "discover", "serve", "await", "exited", "failed"}
    /\ told \in Nat
    /\ call \in [Calls -> {"none", "waiting", "answered", "cut"}]
    /\ task \in [Background -> {"none", "waiting", "busy", "ended"}]
    /\ phase \in {"load", "discover", "serve"} => \A c \in Calls : call[c] # "cut"
    /\ phase = "await" => \A c \in Calls : call[c] # "waiting"
    /\ ExitIsOrderly

LEMMA OrderInit == Init => OrderInv
  BY DEF Init, OrderInv, ExitIsOrderly

LEMMA SettingsFixed == [Next]_vars => settings' = settings
  <1> SUFFICES ASSUME [Next]_vars PROVE settings' = settings
    OBVIOUS
  <1>1. CASE Load
    BY <1>1 DEF Load, LoadRule, pipelineVars
  <1>2. CASE LoadFails \/ ServeFails \/ ServerDrain \/ ServerStop \/ Exit \/ Signal \/ Tell \/ Serve
    BY <1>2 DEF LoadFails, ServeFails, ServerDrain, ServerStop, Exit, Signal, Tell, Serve,
                pipelineVars
  <1>3. CASE Discover
    BY <1>3 DEF Discover, DiscoverAnswer
  <1>4. ASSUME NEW t \in Background, GiveUp(t) \/ TaskTick(t) \/ TaskPassEnds(t) \/ TaskStop(t)
        PROVE  settings' = settings
    BY <1>4 DEF GiveUp, TaskTick, TaskPassEnds, TaskStop, pipelineVars
  <1>5. ASSUME NEW m \in Messages, Handle(m) \/ StoreJob(m)
        PROVE  settings' = settings
    BY <1>5 DEF Handle, StoreJob, RoutePipeline, RouteDirect, pipelineVars
  <1>6. ASSUME NEW c \in Calls, CallArrive(c) \/ CallReturn(c)
        PROVE  settings' = settings
    BY <1>6 DEF CallArrive, CallReturn, pipelineVars
  <1>7. CASE UNCHANGED vars
    BY <1>7 DEF vars, pipelineVars
  <1>8. QED
    BY <1>1, <1>2, <1>3, <1>4, <1>5, <1>6, <1>7 DEF Next, Main

LEMMA OrderStep == OrderInv /\ [Next]_vars => OrderInv'
  <1> SUFFICES ASSUME OrderInv, [Next]_vars PROVE OrderInv'
    OBVIOUS
  <1> USE DEF OrderInv, ExitIsOrderly
  <1>0. settings' = settings
    BY SettingsFixed
  <1>1. CASE Load \/ Discover
    <2>1. phase \in {"load", "discover"} /\ phase' \in {"load", "discover"}
      BY <1>1 DEF Load, Discover, daemonVars
    <2>2. UNCHANGED <<told, call, task, gaveUp>>
      BY <1>1 DEF Load, Discover, daemonVars
    <2>3. QED
      BY <1>0, <2>1, <2>2
  <1>2. CASE LoadFails \/ ServeFails
    <2>1. phase' = "failed" /\ UNCHANGED <<told, task, gaveUp>>
      BY <1>2 DEF LoadFails, ServeFails
    <2>2. call' = [c \in Calls |-> IF call[c] = "waiting" THEN "cut" ELSE call[c]]
      BY <1>2 DEF LoadFails, ServeFails, Ends
    <2>3. QED
      BY <1>0, <2>1, <2>2
  <1>3. CASE Serve
    <2>1. phase = "discover" /\ phase' = "serve" /\ UNCHANGED <<told, call, gaveUp>>
      BY <1>3 DEF Serve
    <2>2. task' \in [Background -> {"none", "waiting"}]
      BY <1>3 DEF Serve
    <2>3. QED
      BY <1>0, <2>1, <2>2
  <1>4. CASE ServerDrain
    BY <1>0, <1>4 DEF ServerDrain
  <1>5. CASE ServerStop
    <2>1. phase = "serve" /\ phase' = "await" /\ UNCHANGED <<told, task, gaveUp>>
      BY <1>5 DEF ServerStop
    <2>2. call' = [c \in Calls |-> IF call[c] = "waiting" THEN "cut" ELSE call[c]]
      BY <1>5 DEF ServerStop, InFlight
    <2>3. settings.tls \/ \A c \in Calls : call[c] # "waiting"
      BY <1>5 DEF ServerStop, InFlight
    <2>4. QED
      BY <1>0, <2>1, <2>2, <2>3
  <1>6. CASE Exit
    <2>1. phase = "await" /\ phase' = "exited" /\ UNCHANGED <<told, task, gaveUp>>
      BY <1>6 DEF Exit
    <2>2. call' = [c \in Calls |-> IF call[c] = "waiting" THEN "cut" ELSE call[c]]
      BY <1>6 DEF Exit, Ends
    <2>3. \A t \in Background : task[t] \in {"ended", "none"} \/ t \in gaveUp
      BY <1>6 DEF Exit, Joined
    <2>4. QED
      BY <1>0, <2>1, <2>2, <2>3
  <1>7. ASSUME NEW t \in Background, GiveUp(t)
        PROVE  OrderInv'
    BY <1>0, <1>7 DEF GiveUp
  <1>8. CASE Signal \/ Tell
    <2>1. phase' = phase /\ phase \in {"serve", "await"} /\ told' = told + 1
          /\ UNCHANGED <<call, task, gaveUp>>
      BY <1>8 DEF Signal, Tell
    <2>2. QED
      BY <1>0, <2>1
  <1>9. ASSUME NEW m \in Messages, Handle(m) \/ StoreJob(m)
        PROVE  OrderInv'
    BY <1>0, <1>9 DEF Handle, StoreJob
  <1>10. ASSUME NEW c \in Calls, CallArrive(c) \/ CallReturn(c)
         PROVE  OrderInv'
    <2>1. phase = "serve" /\ UNCHANGED <<phase, told, task, gaveUp>>
      BY <1>10 DEF CallArrive, CallReturn, Accepting
    <2>2. \E r \in {"waiting", "answered"} : call' = [call EXCEPT ![c] = r]
      BY <1>10 DEF CallArrive, CallReturn
    <2>3. QED
      BY <1>0, <2>1, <2>2
  <1>11. ASSUME NEW t \in Background, TaskTick(t) \/ TaskPassEnds(t) \/ TaskStop(t)
         PROVE  OrderInv'
    <2>1. phase \in {"serve", "await"} /\ UNCHANGED <<phase, told, call, gaveUp>>
      BY <1>11 DEF TaskTick, TaskPassEnds, TaskStop, Running
    <2>2. CASE TaskStop(t)
      <3>1. told > 0
        BY <2>2 DEF TaskStop, ChannelOf
      <3>2. task' = [task EXCEPT ![t] = "ended"]
        BY <2>2 DEF TaskStop
      <3>3. QED
        BY <1>0, <2>1, <3>1, <3>2
    <2>3. CASE TaskTick(t) \/ TaskPassEnds(t)
      <3>1. \E r \in {"waiting", "busy"} : task' = [task EXCEPT ![t] = r]
        BY <2>3 DEF TaskTick, TaskPassEnds
      <3>2. QED
        BY <1>0, <2>1, <3>1
    <2>4. QED
      BY <1>11, <2>2, <2>3
  <1>12. CASE UNCHANGED vars
    BY <1>0, <1>12 DEF vars, daemonVars
  <1>13. QED
    BY <1>1, <1>2, <1>3, <1>4, <1>5, <1>6, <1>7, <1>8, <1>9, <1>10, <1>11, <1>12 DEF Next, Main

\* The shutdown of daemon.rs:415-462 answers the requests in progress and
\* waits for every task, unless TLS or a timeout cuts it short, and ends no
\* task before the signal.
THEOREM ShutdownIsOrderly == Spec => []ExitIsOrderly
  <1>1. OrderInv => ExitIsOrderly
    BY DEF OrderInv
  <1>2. QED
    BY OrderInit, OrderStep, <1>1, PTL DEF Spec

-----------------------------------------------------------------------------
(* The list of the plumber                                                 *)

\* Of numbers from 1 on, so many that with each one all smaller ones are
\* among them, the last is their number.
LEMMA InitialSegment ==
  ASSUME NEW n \in Nat, NEW D \in SUBSET (1..n),
         \A i, j \in 1..n : i < j /\ j \in D => i \in D
  PROVE  Cardinality(D) \in 0..n /\ D = 1..Cardinality(D)
  <1> DEFINE c == Cardinality(D)
  <1>1. IsFiniteSet(1..n) /\ Cardinality(1..n) = n
    BY FS_Interval
  <1>2. IsFiniteSet(D) /\ c \in Nat /\ c <= n
    BY <1>1, FS_Subset, FS_CardinalityType
  <1> HIDE DEF c
  <1>3. IsFiniteSet(1..c) /\ Cardinality(1..c) = c
    BY <1>2, FS_Interval
  <1>4. ASSUME NEW d \in D, d \notin 1..c PROVE FALSE
    <2>1. d \in Nat /\ d > c
      BY <1>2, <1>4
    <2>2. IsFiniteSet(1..d) /\ Cardinality(1..d) = d
      BY <2>1, FS_Interval
    <2>3. \A i \in 1..d : i \in D
      BY <2>1
    <2>4. 1..d \subseteq D
      BY <2>3
    <2>5. d <= c
      BY <1>2, <2>2, <2>4, FS_Subset DEF c
    <2>6. QED
      BY <1>2, <2>1, <2>5
  <1>5. D \subseteq 1..c
    BY <1>4
  <1>6. D = 1..c
    BY <1>2, <1>3, <1>5, FS_Subset DEF c
  <1>7. QED
    BY <1>2, <1>6 DEF c

\* f says where in the file the rules of the list stand: all of the first
\* Len(rules) are there, in the order in which they are to be asked.
Places(f) ==
    /\ \A k \in 1..Len(rules) : f[k] \in 1..Len(rules) /\ rules[k] = settings.rules[f[k]]
    /\ \A i \in 1..Len(rules) : \E k \in 1..Len(rules) : f[k] = i
    /\ \A k, l \in 1..Len(rules) : k < l => Before(f[k], f[l])

RulesInv ==
    /\ settings \in [rules : Seq(Rules), quantum : BOOLEAN, circuit : BOOLEAN, tls : BOOLEAN]
    /\ rules \in Seq(Rules)
    /\ Len(rules) <= Len(settings.rules)
    /\ \A i \in 1..Len(rules) : settings.rules[i] \notin BadRules
    /\ \E f : Places(f)
    /\ phase \in {"load", "discover", "serve", "await", "exited", "failed"}
    /\ phase \in {"discover", "serve", "await"} => Loaded
    /\ decision = [m \in Messages |-> decision[m]]
    /\ RulesDecide

LEMMA RulesInit == Init => RulesInv
  <1> SUFFICES ASSUME Init PROVE RulesInv
    OBVIOUS
  <1>1. settings \in [rules : Seq(Rules), quantum : BOOLEAN, circuit : BOOLEAN, tls : BOOLEAN]
    BY DaemonAssumption DEF Init
  <1>2. rules = <<>> /\ Len(rules) = 0 /\ rules \in Seq(Rules)
    BY DEF Init, PipelineInit
  <1>3. Places(<<>>)
    BY <1>2 DEF Places
  <1>4. decision = [m \in Messages |-> Undecided]
    BY DEF Init, PipelineInit
  <1>5. RulesDecide
    <2>1. \A m \in Messages : decision[m].via = "none"
      BY <1>4 DEF Undecided
    <2>2. QED
      BY <2>1 DEF RulesDecide
  <1>6. /\ Len(rules) <= Len(settings.rules)
        /\ \A i \in 1..Len(rules) : settings.rules[i] \notin BadRules
    BY <1>1, <1>2
  <1>7. QED
    BY <1>1, <1>2, <1>3, <1>4, <1>5, <1>6 DEF RulesInv, Init

\* A rule of higher number goes behind those of at least its priority, which
\* are the first ones, as the list is sorted.
LEMMA InsertKeepsPlaces ==
  ASSUME RulesInv, LoadRule
  PROVE  /\ rules' \in Seq(Rules)
         /\ Len(rules') = Len(rules) + 1
         /\ \E f : Places(f)'
  <1> DEFINE n == Len(rules)
             file == settings.rules
             r == file[n + 1]
             D == {i \in DOMAIN rules : Priority[rules[i]] >= Priority[r]}
             p == Cardinality(D)
             P(i) == Priority[file[i]]
  <1>1. /\ file \in Seq(Rules) /\ rules \in Seq(Rules)
        /\ n \in Nat /\ Len(file) \in Nat /\ n < Len(file)
    BY DEF RulesInv, LoadRule, Loaded
  <1>2. n + 1 \in DOMAIN file /\ r \in Rules
    BY <1>1
  <1>3. \A i \in 1..(n + 1) : P(i) \in Int
    BY <1>1, PipelineAssumption
  <1>4. PICK f : Places(f)
    BY DEF RulesInv
  <1>5. \A k \in 1..n : f[k] \in 1..n /\ Priority[rules[k]] = P(f[k])
    BY <1>4 DEF Places
  <1>6. \A k, l \in 1..n : k < l =>
            P(f[k]) > P(f[l]) \/ (P(f[k]) = P(f[l]) /\ f[k] < f[l])
    BY <1>4 DEF Places, Before
  <1>7. D \in SUBSET (1..n) /\ \A k \in 1..n : k \in D <=> P(f[k]) >= P(n + 1)
    BY <1>1, <1>5
  <1> HIDE DEF P
  <1>8. \A i, j \in 1..n : i < j /\ j \in D => i \in D
    <2> SUFFICES ASSUME NEW i \in 1..n, NEW j \in 1..n, i < j, j \in D PROVE i \in D
      OBVIOUS
    <2>1. P(f[i]) >= P(f[j])
      <3>1. f[i] \in 1..(n + 1) /\ f[j] \in 1..(n + 1)
        BY <1>1, <1>5
      <3>2. P(f[i]) \in Int /\ P(f[j]) \in Int
        BY <1>3, <3>1
      <3>3. P(f[i]) > P(f[j]) \/ P(f[i]) = P(f[j])
        BY <1>6
      <3>4. QED
        BY <3>2, <3>3
    <2>2. P(f[j]) >= P(n + 1)
      BY <1>7
    <2>3. P(f[i]) \in Int /\ P(f[j]) \in Int /\ P(n + 1) \in Int
      BY <1>1, <1>3, <1>5
    <2>4. P(f[i]) >= P(n + 1)
      BY <2>1, <2>2, <2>3
    <2>5. QED
      BY <1>7, <2>4
  <1> HIDE DEF D
  <1>9. p \in 0..n /\ D = 1..p
    BY <1>1, <1>7, <1>8, InitialSegment
  <1>10. rules' = InsertAt(rules, p + 1, r)
    BY DEF LoadRule, Inserted, D
  <1> HIDE DEF p
  <1>11. /\ rules' \in Seq(Rules) /\ Len(rules') = n + 1
         /\ \A k \in 1..p : rules'[k] = rules[k]
         /\ rules'[p + 1] = r
         /\ \A k \in (p + 2)..(n + 1) : rules'[k] = rules[k - 1]
    <2> DEFINE front == SubSeq(rules, 1, p)
               back == SubSeq(rules, p + 1, n)
    <2>1. /\ front \in Seq(Rules) /\ Len(front) = p
          /\ \A k \in 1..p : front[k] = rules[k]
      BY <1>1, <1>9
    <2>2. /\ back \in Seq(Rules) /\ Len(back) = n - p
          /\ \A k \in 1..(n - p) : back[k] = rules[p + k]
      BY <1>1, <1>9
    <2>3. rules' = front \o <<r>> \o back
      <3>1. rules' = SubSeq(rules, 1, (p + 1) - 1) \o <<r>> \o SubSeq(rules, p + 1, Len(rules))
        BY <1>10 DEF InsertAt
      <3>2. (p + 1) - 1 = p
        BY <1>9
      <3>3. QED
        BY <3>1, <3>2
    <2> HIDE DEF front, back, r
    <2>4. <<r>> \in Seq(Rules) /\ Len(<<r>>) = 1
      BY <1>2 DEF r
    <2>5. /\ front \o <<r>> \in Seq(Rules) /\ Len(front \o <<r>>) = p + 1
          /\ \A k \in 1..p : (front \o <<r>>)[k] = front[k]
          /\ (front \o <<r>>)[p + 1] = r
      BY <1>9, <2>1, <2>4
    <2> DEFINE most == front \o <<r>>
    <2> HIDE DEF most
    <2>6. /\ most \in Seq(Rules) /\ Len(most) = p + 1
          /\ \A k \in 1..p : most[k] = rules[k]
          /\ most[p + 1] = r /\ rules' = most \o back
      BY <2>1, <2>3, <2>5 DEF most
    <2>7. /\ most \o back \in Seq(Rules) /\ Len(most \o back) = n + 1
          /\ \A k \in 1..(p + 1) : (most \o back)[k] = most[k]
          /\ \A k \in (p + 2)..(n + 1) : (most \o back)[k] = back[k - (p + 1)]
      <3> HIDE DEF back
      <3>1. /\ most \o back \in Seq(Rules) /\ Len(most \o back) = Len(most) + Len(back)
            /\ \A k \in 1..(Len(most) + Len(back)) :
                 (most \o back)[k] = IF k <= Len(most) THEN most[k] ELSE back[k - Len(most)]
        <4>1. most \in Seq(Rules) /\ back \in Seq(Rules)
          BY <2>2, <2>6
        <4>2. QED
          BY <4>1
      <3>2. Len(most) + Len(back) = n + 1
        BY <1>1, <1>9, <2>2, <2>6
      <3>3. /\ \A k \in 1..(p + 1) : k \in 1..(n + 1) /\ k <= p + 1
            /\ \A k \in (p + 2)..(n + 1) : k \in 1..(n + 1) /\ ~(k <= p + 1)
        BY <1>1, <1>9
      <3>4. QED
        BY <2>6, <3>1, <3>2, <3>3
    <2>8. \A k \in (p + 2)..(n + 1) : back[k - (p + 1)] = rules[k - 1]
      <3> TAKE k \in (p + 2)..(n + 1)
      <3>1. k - (p + 1) \in 1..(n - p) /\ p + (k - (p + 1)) = k - 1
        BY <1>1, <1>9
      <3>2. QED
        BY <2>2, <3>1
    <2>9. rules' \in Seq(Rules) /\ Len(rules') = n + 1 /\ rules'[p + 1] = r
      <3>1. p + 1 \in 1..(p + 1)
        BY <1>9
      <3>2. QED
        BY <2>6, <2>7, <3>1
    <2>10. \A k \in 1..p : rules'[k] = rules[k]
      <3>1. \A k \in 1..p : k \in 1..(p + 1)
        BY <1>9
      <3>2. QED
        BY <2>6, <2>7, <3>1
    <2>11. \A k \in (p + 2)..(n + 1) : rules'[k] = rules[k - 1]
      BY <2>6, <2>7, <2>8
    <2>12. QED
      BY <2>9, <2>10, <2>11
  <1> DEFINE g == [k \in 1..(n + 1) |-> IF k <= p THEN f[k]
                                        ELSE IF k = p + 1 THEN n + 1 ELSE f[k - 1]]
  <1>12. /\ \A k \in 1..p : k \in 1..n /\ g[k] = f[k]
         /\ g[p + 1] = n + 1
         /\ \A k \in (p + 2)..(n + 1) : k - 1 \in 1..n /\ k - 1 > p /\ g[k] = f[k - 1]
    BY <1>1, <1>9
  <1> HIDE DEF g
  <1>13. \A k \in 1..(n + 1) : k \in 1..p \/ k = p + 1 \/ k \in (p + 2)..(n + 1)
    BY <1>1, <1>9
  <1>14. ASSUME NEW k \in 1..(n + 1)
         PROVE  g[k] \in 1..(n + 1) /\ rules'[k] = file[g[k]]
    <2>1. CASE k \in 1..p
      <3>1. g[k] = f[k] /\ k \in 1..n /\ rules'[k] = rules[k]
        BY <1>11, <1>12, <2>1
      <3>2. f[k] \in 1..n /\ rules[k] = file[f[k]]
        BY <1>4, <3>1 DEF Places
      <3>3. QED
        BY <1>1, <3>1, <3>2
    <2>2. CASE k = p + 1
      BY <1>1, <1>11, <1>12, <2>2
    <2>3. CASE k \in (p + 2)..(n + 1)
      <3>1. g[k] = f[k - 1] /\ k - 1 \in 1..n /\ rules'[k] = rules[k - 1]
        BY <1>11, <1>12, <2>3
      <3>2. f[k - 1] \in 1..n /\ rules[k - 1] = file[f[k - 1]]
        BY <1>4, <3>1 DEF Places
      <3>3. QED
        BY <1>1, <3>1, <3>2
    <2>4. QED
      BY <1>13, <2>1, <2>2, <2>3
  <1>15. ASSUME NEW i \in 1..(n + 1)
         PROVE  \E k \in 1..(n + 1) : g[k] = i
    <2>1. CASE i = n + 1
      <3>1. p + 1 \in 1..(n + 1)
        BY <1>1, <1>9
      <3>2. QED
        BY <1>12, <2>1, <3>1
    <2>2. CASE i # n + 1
      <3>1. i \in 1..n
        BY <1>1, <2>2
      <3>2. PICK k \in 1..n : f[k] = i
        BY <1>4, <3>1 DEF Places
      <3>3. CASE k <= p
        <4>1. k \in 1..p /\ k \in 1..(n + 1)
          BY <1>1, <1>9, <3>3
        <4>2. QED
          BY <1>12, <3>2, <4>1
      <3>4. CASE k > p
        <4>1. k + 1 \in (p + 2)..(n + 1) /\ (k + 1) - 1 = k /\ k + 1 \in 1..(n + 1)
          BY <1>1, <1>9, <3>4
        <4>2. g[k + 1] = f[k]
          BY <1>12, <4>1
        <4>3. QED
          BY <3>2, <4>1, <4>2
      <3>5. QED
        BY <1>1, <1>9, <3>3, <3>4
    <2>3. QED
      BY <2>1, <2>2
  <1>16. ASSUME NEW k \in 1..(n + 1), NEW l \in 1..(n + 1), k < l
         PROVE  P(g[k]) > P(g[l]) \/ (P(g[k]) = P(g[l]) /\ g[k] < g[l])
    <2>1. CASE k \in 1..p /\ l \in 1..p
      BY <1>6, <1>12, <1>16, <2>1
    <2>2. CASE k \in 1..p /\ l = p + 1
      <3>1. g[k] = f[k] /\ k \in 1..n /\ g[l] = n + 1
        BY <1>12, <2>2
      <3>2. f[k] \in 1..n /\ P(f[k]) >= P(n + 1)
        BY <1>5, <1>7, <1>9, <2>2, <3>1
      <3>3. P(f[k]) \in Int /\ P(n + 1) \in Int
        BY <1>1, <1>3, <3>2
      <3>4. QED
        BY <1>1, <3>1, <3>2, <3>3
    <2>3. CASE k \in 1..p /\ l \in (p + 2)..(n + 1)
      <3>1. g[k] = f[k] /\ k \in 1..n /\ g[l] = f[l - 1] /\ l - 1 \in 1..n /\ k < l - 1
        BY <1>9, <1>12, <2>3
      <3>2. QED
        BY <1>6, <3>1
    <2>4. CASE k = p + 1 /\ l \in (p + 2)..(n + 1)
      <3>1. g[k] = n + 1 /\ g[l] = f[l - 1] /\ l - 1 \in 1..n /\ l - 1 \notin 1..p
        BY <1>9, <1>12, <2>4
      <3>2. f[l - 1] \in 1..n /\ ~(P(f[l - 1]) >= P(n + 1))
        BY <1>5, <1>7, <1>9, <3>1
      <3>3. P(f[l - 1]) \in Int /\ P(n + 1) \in Int
        BY <1>1, <1>3, <3>2
      <3>4. QED
        BY <3>1, <3>2, <3>3
    <2>5. CASE k \in (p + 2)..(n + 1) /\ l \in (p + 2)..(n + 1)
      <3>1. g[k] = f[k - 1] /\ k - 1 \in 1..n /\ g[l] = f[l - 1] /\ l - 1 \in 1..n /\ k - 1 < l - 1
        BY <1>9, <1>12, <1>16, <2>5
      <3>2. QED
        BY <1>6, <3>1
    <2>6. QED
      BY <1>9, <1>13, <1>16, <2>1, <2>2, <2>3, <2>4, <2>5
  <1>17. settings' = settings
    BY DEF LoadRule
  <1>18. PICK h : h = g
    OBVIOUS
  <1>19. Places(h)'
    <2>1. \A k \in 1..Len(rules)' : h[k] \in 1..Len(rules)' /\ rules'[k] = settings'.rules[h[k]]
      BY <1>11, <1>14, <1>17, <1>18
    <2>2. \A i \in 1..Len(rules)' : \E k \in 1..Len(rules)' : h[k] = i
      BY <1>11, <1>15, <1>18
    <2>3. \A k, l \in 1..Len(rules)' : k < l => Before(h[k], h[l])'
      BY <1>11, <1>16, <1>17, <1>18 DEF Before, P
    <2>4. QED
      BY <2>1, <2>2, <2>3 DEF Places
  <1>20. QED
    BY <1>11, <1>19


\* The rules of the file that match and whose destination is not refused.
Left(m, refused) ==
    {i \in DOMAIN settings.rules :
        settings.rules[i] \in Matches[m] /\ Destination[settings.rules[i]] \notin refused}

\* RulesDecide of a message that was refused there and goes to d.
Decides(m, refused, d) ==
    IF Unmatched(m)
    THEN d = IF Log \in Endpoints \cap refused THEN None ELSE Log
    ELSE IF Left(m, refused) = {} THEN d = None
    ELSE \E i \in Left(m, refused) :
            /\ d = Destination[settings.rules[i]]
            /\ settings.quantum \/ \A j \in Left(m, refused) \ {i} : Before(i, j)

\* What is selected among the candidates that are left.
LEMMA Selection ==
  ASSUME RulesInv, Loaded, NEW m \in Messages, NEW refused,
         Log \in refused /\ Unmatched(m) => Log \in Endpoints,
         NEW d \in Selectable(Valid(Routed(m), refused))
  PROVE  Decides(m, refused, d)
  <1> DEFINE n == Len(rules)
             file == settings.rules
             matching == {k \in DOMAIN rules : rules[k] \in Matches[m]}
             c == Routed(m)
             v == Valid(c, refused)
  <1>1. rules \in Seq(Rules) /\ file \in Seq(Rules) /\ n = Len(file) /\ n \in Nat
    BY DEF RulesInv, Loaded
  <1>2. DOMAIN rules = 1..n /\ DOMAIN file = 1..n
    BY <1>1
  <1>3. PICK f : Places(f)
    BY DEF RulesInv
  <1>4. /\ \A k \in 1..n : f[k] \in 1..n /\ rules[k] = file[f[k]]
        /\ \A i \in 1..n : \E k \in 1..n : f[k] = i
        /\ \A k, l \in 1..n : k < l => Before(f[k], f[l])
    BY <1>3 DEF Places
  <1>5. DOMAIN v = {k \in DOMAIN c : c[k] \notin refused} /\ \A k \in DOMAIN v : v[k] = c[k]
    BY DEF Valid, Restrict
  <1>6. /\ DOMAIN v = {} => d = None
        /\ DOMAIN v # {} => \E k \in DOMAIN v :
              d = v[k] /\ (settings.quantum \/ \A l \in DOMAIN v : k <= l)
    BY DEF Selectable, Range
  <1>7. CASE Unmatched(m)
    <2>1. matching = {}
      BY <1>2, <1>4, <1>7 DEF Unmatched
    <2>2. c = [k \in {1} |-> Log]
      BY <2>1 DEF Routed
    <2> HIDE DEF c, v
    <2>3. DOMAIN c = {1} /\ c[1] = Log
      BY <2>2
    <2>4. CASE Log \in refused
      <3>1. DOMAIN v = {}
        BY <1>5, <2>3, <2>4
      <3>2. QED
        BY <1>6, <1>7, <2>4, <3>1 DEF Decides
    <2>5. CASE Log \notin refused
      <3>1. DOMAIN v = {1} /\ v[1] = Log
        BY <1>5, <2>3, <2>5
      <3>2. d = Log
        BY <1>6, <3>1
      <3>3. QED
        BY <1>7, <2>5, <3>2 DEF Decides
    <2>6. QED
      BY <2>4, <2>5
  <1>8. CASE ~Unmatched(m)
    <2>1. matching # {}
      <3>1. PICK i \in 1..n : file[i] \in Matches[m]
        BY <1>2, <1>8 DEF Unmatched
      <3>2. PICK k \in 1..n : f[k] = i
        BY <1>4, <3>1
      <3>3. k \in matching
        BY <1>2, <1>4, <3>1, <3>2
      <3>4. QED
        BY <3>3
    <2>2. c = [k \in matching |-> Destination[rules[k]]]
      BY <2>1 DEF Routed
    <2> HIDE DEF c, v
    <2>3. DOMAIN c = matching /\ \A k \in matching : c[k] = Destination[rules[k]]
      BY <2>2
    <2>4. ASSUME NEW k \in DOMAIN v
          PROVE  k \in 1..n /\ f[k] \in Left(m, refused) /\ v[k] = Destination[file[f[k]]]
      <3>1. k \in matching /\ c[k] \notin refused /\ v[k] = c[k]
        BY <1>5, <2>3
      <3>2. k \in 1..n /\ rules[k] \in Matches[m] /\ rules[k] = file[f[k]] /\ f[k] \in 1..n
        BY <1>2, <1>4, <3>1
      <3>3. QED
        BY <1>2, <2>3, <3>1, <3>2 DEF Left
    <2>5. ASSUME NEW i \in Left(m, refused)
          PROVE  \E k \in DOMAIN v : f[k] = i
      <3>1. i \in 1..n /\ file[i] \in Matches[m] /\ Destination[file[i]] \notin refused
        BY <1>2 DEF Left
      <3>2. PICK k \in 1..n : f[k] = i
        BY <1>4, <3>1
      <3>3. rules[k] = file[i] /\ k \in matching
        BY <1>2, <1>4, <3>1, <3>2
      <3>4. k \in DOMAIN v
        BY <1>5, <2>3, <3>1, <3>3
      <3>5. QED
        BY <3>2, <3>4
    <2>6. CASE DOMAIN v = {}
      <3>1. Left(m, refused) = {}
        BY <2>5, <2>6
      <3>2. QED
        BY <1>6, <1>8, <2>6, <3>1 DEF Decides
    <2>7. CASE DOMAIN v # {}
      <3>1. PICK k \in DOMAIN v : d = v[k] /\ (settings.quantum \/ \A l \in DOMAIN v : k <= l)
        BY <1>6, <2>7
      <3>2. f[k] \in Left(m, refused) /\ d = Destination[file[f[k]]] /\ k \in 1..n
        BY <2>4, <3>1
      <3>3. ASSUME ~settings.quantum, NEW j \in Left(m, refused) \ {f[k]}
            PROVE  Before(f[k], j)
        <4>1. PICK l \in DOMAIN v : f[l] = j
          BY <2>5
        <4>2. l \in 1..n /\ l # k /\ k <= l
          BY <2>4, <3>1, <3>3, <4>1
        <4>3. k < l
          BY <1>1, <3>2, <4>2
        <4>4. QED
          BY <1>4, <3>2, <4>1, <4>2, <4>3
      <3>4. QED
        BY <1>8, <3>2, <3>3 DEF Decides
    <2>8. QED
      BY <2>6, <2>7
  <1>9. QED
    BY <1>7, <1>8

LEMMA PlacesKept ==
  ASSUME \E f : Places(f), UNCHANGED <<settings, rules>>
  PROVE  \E f : Places(f)'
  <1>1. PICK f : Places(f)
    OBVIOUS
  <1>2. \A i, j : Before(i, j)' <=> Before(i, j)
    BY DEF Before
  <1>3. Places(f)'
    BY <1>1, <1>2 DEF Places
  <1>4. QED
    BY <1>3

\* A decision that the rules make.
LEMMA Decision ==
  ASSUME RulesInv, NEW m \in Messages, NEW via, NEW refused, NEW d, Decides(m, refused, d),
         decision' = [decision EXCEPT ![m] = [via |-> via, refused |-> refused, selected |-> d]],
         UNCHANGED <<settings, rules, phase>>
  PROVE  RulesInv'
  <1>1. /\ decision' = [k \in Messages |-> decision'[k]]
        /\ decision'[m].via = via /\ decision'[m].refused = refused /\ decision'[m].selected = d
        /\ \A k \in Messages \ {m} : decision'[k] = decision[k]
    BY DEF RulesInv
  <1>2. RulesDecide'
    <2> SUFFICES ASSUME NEW k \in Messages, decision'[k].via \in {"rules", "direct"}
                 PROVE  (LET s == decision[k].selected
                             DestinationOf(i) == Destination[settings.rules[i]]
                         IN  IF Unmatched(k)
                             THEN s = IF Log \in Endpoints \cap decision[k].refused
                                      THEN None ELSE Log
                             ELSE IF Open(k) = {} THEN s = None
                             ELSE \E i \in Open(k) :
                                     /\ s = DestinationOf(i)
                                     /\ settings.quantum \/ \A j \in Open(k) \ {i} : Before(i, j))'
      BY DEF RulesDecide
    <2>1. CASE k = m
      <3>1. Open(k)' = Left(m, refused)
        BY <1>1, <2>1 DEF Open, Left
      <3>2. Unmatched(k)' <=> Unmatched(m)
        BY <2>1 DEF Unmatched
      <3>3. \A i, j : Before(i, j)' <=> Before(i, j)
        BY DEF Before
      <3>4. QED
        BY <1>1, <2>1, <3>1, <3>2, <3>3 DEF Decides
    <2>2. CASE k # m
      <3>1. decision'[k] = decision[k]
        BY <1>1, <2>2
      <3>2. Open(k)' = Open(k)
        BY <3>1 DEF Open
      <3>3. Unmatched(k)' <=> Unmatched(k)
        BY DEF Unmatched
      <3>4. \A i, j : Before(i, j)' <=> Before(i, j)
        BY DEF Before
      <3>5. QED
        BY <3>1, <3>2, <3>3, <3>4, ZenonT(30) DEF RulesInv, RulesDecide
    <2>3. QED
      BY <2>1, <2>2
  <1>3. \E f : Places(f)'
    BY PlacesKept DEF RulesInv
  <1>4. QED
    BY <1>1, <1>2, <1>3 DEF RulesInv, Loaded

LEMMA HandleStep ==
  ASSUME RulesInv, NEW m \in Messages, Handle(m)
  PROVE  RulesInv'
  <1>1. phase \in {"serve", "await"} /\ UNCHANGED <<settings, rules, phase>>
    BY DEF Handle, Accepting, RoutePipeline, RouteDirect
  <1>2. Loaded
    BY <1>1 DEF RulesInv
  <1>3. ASSUME RoutePipeline(m), HasTool(m) PROVE RulesInv'
    <2> DEFINE to == index[ToolOf[m]]
    <2>1. decision' = [decision EXCEPT ![m] = [via |-> "mcp", refused |-> {}, selected |-> to]]
      BY <1>3 DEF RoutePipeline
    <2> HIDE DEF to
    <2>2. /\ decision' = [k \in Messages |-> decision'[k]]
          /\ decision'[m].via = "mcp"
          /\ \A k \in Messages \ {m} : decision'[k] = decision[k]
      BY <2>1 DEF RulesInv
    <2>3. RulesDecide'
      <3>1. \A k \in Messages : Unmatched(k)' <=> Unmatched(k)
        BY <1>1 DEF Unmatched
      <3>2. \A i, j : Before(i, j)' <=> Before(i, j)
        BY <1>1 DEF Before
      <3>3. \A k \in Messages \ {m} : Open(k)' = Open(k)
        BY <1>1, <2>2 DEF Open
      <3>4. QED
        BY <1>1, <2>2, <3>1, <3>2, <3>3 DEF RulesInv, RulesDecide
    <2>4. \E f : Places(f)'
      BY <1>1, PlacesKept DEF RulesInv
    <2>5. QED
      BY <1>1, <2>2, <2>3, <2>4 DEF RulesInv, Loaded
  <1>4. ASSUME RoutePipeline(m), ~HasTool(m) PROVE RulesInv'
    <2>1. PICK v \in Verdicts(Routed(m)) : \E d \in Selectable(Valid(Routed(m), Refused(Routed(m), v))) :
            decision' = [decision EXCEPT ![m] =
               [via |-> "rules", refused |-> Refused(Routed(m), v), selected |-> d]]
      BY <1>4 DEF RoutePipeline
    <2> DEFINE refused == Refused(Routed(m), v)
    <2>2. PICK d \in Selectable(Valid(Routed(m), refused)) :
            decision' = [decision EXCEPT ![m] =
               [via |-> "rules", refused |-> refused, selected |-> d]]
      BY <2>1
    <2>3. Log \in refused => Log \in Endpoints
      <3> DEFINE c == Routed(m)
      <3>1. v \in [DOMAIN c -> BOOLEAN] /\ \A i \in DOMAIN c : c[i] \notin Endpoints => v[i]
        BY DEF Verdicts
      <3> HIDE DEF c
      <3>2. Log \in Refused(c, v) => \E i \in DOMAIN c : ~v[i] /\ c[i] = Log
        BY DEF Refused
      <3>3. QED
        BY <3>1, <3>2 DEF c
    <2> HIDE DEF refused
    <2>4. Decides(m, refused, d)
      BY <1>2, <2>2, <2>3, Selection
    <2>5. QED
      BY <1>1, <2>2, <2>4, Decision
  <1>5. ASSUME RouteDirect(m) PROVE RulesInv'
    <2>1. PICK d \in Selectable(Routed(m)) :
            decision' = [decision EXCEPT ![m] =
               [via |-> "direct", refused |-> {}, selected |-> d]]
      BY <1>5 DEF RouteDirect
    <2>2. Valid(Routed(m), {}) = Routed(m)
      <3> DEFINE c == Routed(m)
      <3>1. c = [k \in DOMAIN c |-> c[k]]
        BY DEF Routed
      <3> HIDE DEF c
      <3>2. Valid(c, {}) = [k \in DOMAIN c |-> c[k]]
        <4>1. {k \in DOMAIN c : c[k] \notin {}} = DOMAIN c
          OBVIOUS
        <4>2. QED
          BY <4>1 DEF Valid, Restrict
      <3>3. QED
        BY <3>1, <3>2 DEF c
    <2>3. Decides(m, {}, d)
      BY <1>2, <2>1, <2>2, Selection
    <2>4. QED
      BY <1>1, <2>1, <2>3, Decision
  <1>6. QED
    BY <1>3, <1>4, <1>5 DEF Handle

\* Whatever else happens leaves the rules and the decisions alone, and
\* run() serves only when all rules are loaded.
LEMMA OtherStep ==
  ASSUME RulesInv, UNCHANGED <<settings, rules, decision>>,
         phase' \in {"load", "discover", "serve", "await", "exited", "failed"},
         phase' \in {"discover", "serve", "await"} =>
             Loaded \/ phase \in {"discover", "serve", "await"}
  PROVE  RulesInv'
  <1>1. \E f : Places(f)'
    BY PlacesKept DEF RulesInv
  <1>2. RulesDecide'
    BY DEF RulesInv, RulesDecide, Unmatched, Open, Before
  <1>3. QED
    BY <1>1, <1>2 DEF RulesInv, Loaded

LEMMA RulesStep == RulesInv /\ [Next]_vars => RulesInv'
  <1> SUFFICES ASSUME RulesInv, [Next]_vars PROVE RulesInv'
    OBVIOUS
  <1>1. CASE Load
    <2>1. CASE LoadRule
      <3>1. phase = "load" /\ phase' = "load" /\ UNCHANGED <<settings, decision>>
        BY <1>1, <2>1 DEF Load, LoadRule, Loaded
      <3>2. /\ Len(rules') <= Len(settings'.rules)
            /\ \A i \in 1..Len(rules') : settings'.rules[i] \notin BadRules
        <4>1. Len(rules) \in Nat /\ Len(settings.rules) \in Nat /\ Len(rules) < Len(settings.rules)
          BY <2>1 DEF RulesInv, LoadRule, Loaded
        <4>2. /\ settings.rules[Len(rules) + 1] \notin BadRules
              /\ \A i \in 1..Len(rules) : settings.rules[i] \notin BadRules
          BY <2>1 DEF RulesInv, LoadRule
        <4>3. QED
          BY <2>1, <3>1, <4>1, <4>2, InsertKeepsPlaces
      <3>3. RulesDecide'
        BY <3>1 DEF RulesInv, RulesDecide, Unmatched, Open, Before
      <3>4. QED
        BY <2>1, <3>1, <3>2, <3>3, InsertKeepsPlaces DEF RulesInv
    <2>2. CASE Loaded /\ phase' = "discover" /\ UNCHANGED pipelineVars
      BY <2>2, OtherStep DEF pipelineVars
    <2>3. QED
      BY <1>1, <2>1, <2>2 DEF Load
  <1>2. CASE LoadFails \/ ServeFails \/ Exit
    BY <1>2, OtherStep DEF LoadFails, ServeFails, Exit, pipelineVars
  <1>3. CASE Discover
    BY <1>3, OtherStep DEF Discover, DiscoverAnswer, daemonVars, RulesInv
  <1>4. CASE Serve
    BY <1>4, OtherStep DEF Serve
  <1>5. CASE ServerDrain \/ ServerStop \/ Signal \/ Tell
    BY <1>5, OtherStep DEF ServerDrain, ServerStop, Signal, Tell, pipelineVars, RulesInv
  <1>6. ASSUME NEW t \in Background, GiveUp(t) \/ TaskTick(t) \/ TaskPassEnds(t) \/ TaskStop(t)
        PROVE  RulesInv'
    BY <1>6, OtherStep DEF GiveUp, TaskTick, TaskPassEnds, TaskStop, pipelineVars, RulesInv
  <1>7. ASSUME NEW m \in Messages, StoreJob(m)
        PROVE  RulesInv'
    BY <1>7, OtherStep DEF StoreJob, pipelineVars, RulesInv
  <1>8. ASSUME NEW m \in Messages, Handle(m)
        PROVE  RulesInv'
    BY <1>8, HandleStep
  <1>9. ASSUME NEW c \in Calls, CallArrive(c) \/ CallReturn(c)
        PROVE  RulesInv'
    BY <1>9, OtherStep DEF CallArrive, CallReturn, pipelineVars, RulesInv
  <1>10. CASE UNCHANGED vars
    BY <1>10, OtherStep DEF vars, pipelineVars, daemonVars, RulesInv
  <1>11. QED
    BY <1>1, <1>2, <1>3, <1>4, <1>5, <1>6, <1>7, <1>8, <1>9, <1>10 DEF Next, Main

\* plumber.rs:32-46 keeps the list sorted while it loads the rules, and
\* router.rs:69-80 takes the first candidate that is not refused: for any
\* configuration the destination is the one that the file names.
THEOREM ConfigurationDecides == Spec => []RulesDecide
  <1>1. RulesInv => RulesDecide
    BY DEF RulesInv
  <1>2. QED
    BY RulesInit, RulesStep, <1>1, PTL DEF Spec


-----------------------------------------------------------------------------
(* Types                                                                   *)

Decisions == [via : {"mcp", "rules", "direct", "none"},
              refused : SUBSET Destinations,
              selected : Destinations \cup {None}]

Jobs == {"none", "pending", "stored", "refused", "lost"}

RestTyped ==
    /\ decision \in [Messages -> Decisions]
    /\ told \in 0..AllTold
    /\ server \in {"off", "open", "draining", "stopped"}
    /\ job \in [Messages -> Jobs]
    /\ gaveUp \in SUBSET Background

DaemonInv == IndexInv /\ OrderInv /\ RulesInv /\ RestTyped

\* Candidates are destinations of rules, or the log.
LEMMA RoutedType ==
  ASSUME RulesInv, NEW m \in Messages, NEW k \in DOMAIN Routed(m)
  PROVE  Routed(m)[k] \in Destinations
  <1> DEFINE matching == {i \in DOMAIN rules : rules[i] \in Matches[m]}
  <1>1. CASE matching = {}
    <2>1. Routed(m) = [i \in {1} |-> Log]
      BY <1>1 DEF Routed
    <2>2. QED
      BY <2>1 DEF Destinations
  <1>2. CASE matching # {}
    <2>1. Routed(m) = [i \in matching |-> Destination[rules[i]]]
      BY <1>2 DEF Routed
    <2>2. k \in DOMAIN rules /\ Routed(m)[k] = Destination[rules[k]]
      BY <2>1
    <2>3. rules[k] \in Rules
      BY <2>2 DEF RulesInv
    <2>4. QED
      BY <2>2, <2>3 DEF Destinations
  <1>3. QED
    BY <1>1, <1>2

LEMMA SelectableType ==
  ASSUME NEW c, \A k \in DOMAIN c : c[k] \in Destinations, NEW d \in Selectable(c)
  PROVE  d \in Destinations \cup {None}
  BY DEF Selectable, Range

LEMMA DecisionTyped ==
  ASSUME DaemonInv, NEW m \in Messages, RoutePipeline(m) \/ RouteDirect(m)
  PROVE  decision' \in [Messages -> Decisions]
  <1> DEFINE c == Routed(m)
  <1>1. \A k \in DOMAIN c : c[k] \in Destinations
    BY RoutedType DEF DaemonInv
  <1>2. ASSUME NEW via \in {"mcp", "rules", "direct"}, NEW refused \in SUBSET Destinations,
               NEW d \in Destinations \cup {None},
               decision' = [decision EXCEPT ![m] = [via |-> via, refused |-> refused, selected |-> d]]
        PROVE  decision' \in [Messages -> Decisions]
    <2>1. [via |-> via, refused |-> refused, selected |-> d] \in Decisions
      BY DEF Decisions
    <2>2. decision \in [Messages -> Decisions]
      BY DEF DaemonInv, RestTyped
    <2> HIDE DEF Decisions
    <2>3. QED
      BY <1>2, <2>1, <2>2
  <1>3. ASSUME RoutePipeline(m), HasTool(m) PROVE decision' \in [Messages -> Decisions]
    <2> DEFINE to == index[ToolOf[m]]
    <2>1. to \in Endpoints
      BY <1>3, PipelineAssumption DEF HasTool, DaemonInv, IndexInv
    <2>2. to \in Destinations \cup {None}
      BY <2>1 DEF Destinations
    <2>3. decision' = [decision EXCEPT ![m] = [via |-> "mcp", refused |-> {}, selected |-> to]]
      BY <1>3 DEF RoutePipeline
    <2> HIDE DEF to
    <2>4. QED
      BY <1>2, <2>2, <2>3
  <1>4. ASSUME RoutePipeline(m), ~HasTool(m) PROVE decision' \in [Messages -> Decisions]
    <2>1. PICK v \in Verdicts(c) : \E d \in Selectable(Valid(c, Refused(c, v))) :
            decision' = [decision EXCEPT ![m] =
               [via |-> "rules", refused |-> Refused(c, v), selected |-> d]]
      BY <1>4 DEF RoutePipeline
    <2> DEFINE refused == Refused(c, v)
    <2>2. PICK d \in Selectable(Valid(c, refused)) :
            decision' = [decision EXCEPT ![m] =
               [via |-> "rules", refused |-> refused, selected |-> d]]
      BY <2>1
    <2> HIDE DEF c
    <2>3. DOMAIN v = DOMAIN c
      BY DEF Verdicts
    <2>4. refused \in SUBSET Destinations
      BY <1>1, <2>3 DEF Refused
    <2> HIDE DEF refused
    <2>5. \A k \in DOMAIN Valid(c, refused) : Valid(c, refused)[k] \in Destinations
      BY <1>1 DEF Valid, Restrict
    <2>6. d \in Destinations \cup {None}
      BY <2>5, SelectableType
    <2>7. QED
      BY <1>2, <2>2, <2>4, <2>6
  <1>5. ASSUME RouteDirect(m) PROVE decision' \in [Messages -> Decisions]
    <2>1. PICK d \in Selectable(c) : decision' = [decision EXCEPT ![m] =
               [via |-> "direct", refused |-> {}, selected |-> d]]
      BY <1>5 DEF RouteDirect
    <2> HIDE DEF c
    <2>2. d \in Destinations \cup {None}
      BY <1>1, SelectableType
    <2>3. QED
      BY <1>2, <2>1, <2>2
  <1>6. QED
    BY <1>3, <1>4, <1>5

LEMMA TypesInit == Init => DaemonInv
  <1> SUFFICES ASSUME Init PROVE RestTyped
    BY IndexInit, OrderInit, RulesInit DEF DaemonInv
  <1>1. Undecided \in Decisions
    BY DEF Undecided, Decisions
  <1>2. decision \in [Messages -> Decisions]
    BY <1>1 DEF Init, PipelineInit
  <1>3. QED
    BY <1>2 DEF Init, RestTyped, AllTold, Jobs

\* The end of the process loses the messages that are not stored yet.
LEMMA EndsTyped ==
  ASSUME job \in [Messages -> Jobs], Ends
  PROVE  job' \in [Messages -> Jobs] /\ server' = "stopped"
  BY DEF Ends, Jobs

LEMMA TypesStep == DaemonInv /\ [Next]_vars => DaemonInv'
  <1> SUFFICES ASSUME DaemonInv, [Next]_vars PROVE RestTyped'
    BY IndexStep, OrderStep, RulesStep DEF DaemonInv
  <1> USE DEF RestTyped
  <1>0. RestTyped
    BY DEF DaemonInv
  <1>1. CASE Load \/ Discover
    <2>1. decision' = decision /\ UNCHANGED <<told, server, job, gaveUp>>
      BY <1>1 DEF Load, LoadRule, Discover, DiscoverAnswer, pipelineVars, daemonVars
    <2>2. QED
      BY <1>0, <2>1
  <1>2. CASE LoadFails \/ ServeFails \/ Exit
    <2>1. Ends /\ decision' = decision /\ UNCHANGED <<told, gaveUp>>
      BY <1>2 DEF LoadFails, ServeFails, Exit, pipelineVars
    <2>2. QED
      BY <1>0, <2>1, EndsTyped
  <1>3. CASE Serve \/ ServerDrain \/ ServerStop
    <2>1. /\ server' \in {"open", "draining", "stopped"} /\ decision' = decision
          /\ UNCHANGED <<told, job, gaveUp>>
      BY <1>3 DEF Serve, ServerDrain, ServerStop, pipelineVars
    <2>2. QED
      BY <1>0, <2>1
  <1>4. CASE Signal \/ Tell
    <2>1. told' \in 0..AllTold /\ decision' = decision /\ UNCHANGED <<server, job, gaveUp>>
      BY <1>4 DEF Signal, Tell, AllTold, pipelineVars
    <2>2. QED
      BY <1>0, <2>1
  <1>5. ASSUME NEW t \in Background, GiveUp(t)
        PROVE  RestTyped'
    <2>1. gaveUp' = gaveUp \cup {t} /\ decision' = decision /\ UNCHANGED <<told, server, job>>
      BY <1>5 DEF GiveUp, pipelineVars
    <2>2. QED
      BY <1>0, <2>1
  <1>6. ASSUME NEW t \in Background, TaskTick(t) \/ TaskPassEnds(t) \/ TaskStop(t)
        PROVE  RestTyped'
    <2>1. decision' = decision /\ UNCHANGED <<told, server, job, gaveUp>>
      BY <1>6 DEF TaskTick, TaskPassEnds, TaskStop, pipelineVars
    <2>2. QED
      BY <1>0, <2>1
  <1>7. ASSUME NEW m \in Messages, StoreJob(m)
        PROVE  RestTyped'
    <2>1. decision' = decision /\ UNCHANGED <<told, server, gaveUp>>
      BY <1>7 DEF StoreJob, pipelineVars
    <2>2. \E r \in Jobs : job' = [job EXCEPT ![m] = r]
      BY <1>7 DEF StoreJob, Jobs
    <2>3. QED
      BY <1>0, <2>1, <2>2
  <1>8. ASSUME NEW m \in Messages, Handle(m)
        PROVE  RestTyped'
    <2>1. (RoutePipeline(m) \/ RouteDirect(m)) /\ UNCHANGED <<told, server, gaveUp>>
      BY <1>8 DEF Handle
    <2>2. job' = job \/ job' = [job EXCEPT ![m] = "pending"]
      BY <1>8 DEF Handle
    <2>3. job' \in [Messages -> Jobs]
      BY <1>0, <2>2 DEF Jobs
    <2>4. decision' \in [Messages -> Decisions]
      BY <2>1, DecisionTyped
    <2>5. QED
      BY <1>0, <2>1, <2>3, <2>4
  <1>9. ASSUME NEW c \in Calls, CallArrive(c) \/ CallReturn(c)
        PROVE  RestTyped'
    <2>1. decision' = decision /\ UNCHANGED <<told, server, job, gaveUp>>
      BY <1>9 DEF CallArrive, CallReturn, pipelineVars
    <2>2. QED
      BY <1>0, <2>1
  <1>10. CASE UNCHANGED vars
    <2>1. decision' = decision /\ UNCHANGED <<told, server, job, gaveUp>>
      BY <1>10 DEF vars, pipelineVars, daemonVars
    <2>2. QED
      BY <1>0, <2>1
  <1>11. QED
    BY <1>1, <1>2, <1>3, <1>4, <1>5, <1>6, <1>7, <1>8, <1>9, <1>10 DEF Next, Main

\* Whatever the daemon does, from loading to the exit: it goes past the loading
\* only with all rules of the file in the list and none of them bad, and a
\* decision names a destination of a rule, the log or an endpoint.
THEOREM DaemonTyping == Spec => []TypeOK
  <1>1. DaemonInv => TypeOK
    <2>1. RulesInv /\ Loaded => \A i \in DOMAIN settings.rules : settings.rules[i] \notin BadRules
      BY DEF RulesInv, Loaded
    <2>2. QED
      BY <2>1 DEF DaemonInv, IndexInv, OrderInv, RulesInv, RestTyped, TypeOK,
                  PipelineTypeOK, Decisions, Jobs
  <1>2. QED
    BY TypesInit, TypesStep, <1>1, PTL DEF Spec

=============================================================================
