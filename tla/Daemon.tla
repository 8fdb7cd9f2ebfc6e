-------------------------------- MODULE Daemon --------------------------------
(***************************************************************************)
(* The life of the daemon, src/daemon.rs: start, requests, shutdown. It    *)
(* starts the routing pipeline (module RoutingPipeline) and takes requests *)
(* through it, spawns a task for each message to store, and on a signal    *)
(* tells server and background tasks, waits for them and returns, which    *)
(* ends whatever is still running.                                         *)
(*                                                                         *)
(* The handler of a message does not wait for anything, so it is a single  *)
(* step. Calls of the AI proxy wait for their upstream. WebSocket handlers *)
(* are tasks of their own that nobody waits for.                           *)
(***************************************************************************)
EXTENDS RoutingPipeline

CONSTANTS
    Settings,       \* the configurations
    Calls,          \* requests to the AI proxy
    Background      \* the background tasks of this instance

\* The background tasks, in the order in which run() waits for them, and the
\* shutdown channel each one listens to: 1 is the common one.
TaskOrder == <<"cleanup", "prune", "queue", "discovery", "probe", "docker", "quantum">>
ChannelOf(t) == CASE t = "probe" -> 2 [] t = "discovery" -> 3 [] t = "docker" -> 4 [] OTHER -> 1
AllTold == 5        \* four channels and the handle of the server

ASSUME DaemonAssumption ==
    /\ Background \subseteq ToSet(TaskOrder)
    /\ Settings \subseteq [rules : Seq(Rules), quantum : BOOLEAN,
                           circuit : BOOLEAN, tls : BOOLEAN]

VARIABLES
    phase,      \* where run() is
    told,       \* how many sends of the shutdown are done; 0 before the signal
    server,     \* "off", "open", "draining", "stopped"
    job,        \* job[m]: the task that stores m
    call,       \* call[c]: where the proxy request is
    task,       \* task[t]: "waiting" in select, "busy" in a pass, "ended"
    gaveUp      \* the tasks whose JoinHandle timed out

daemonVars == <<phase, told, server, job, call, task, gaveUp>>
vars == <<pipelineVars, daemonVars>>

Init ==
    /\ settings \in Settings
    /\ PipelineInit
    /\ phase = "load"
    /\ told = 0
    /\ server = "off"
    /\ job = [m \in Messages |-> "none"]
    /\ call = [c \in Calls |-> "none"]
    /\ task = [t \in Background |-> "waiting"]
    /\ gaveUp = {}

\* Everything that runs ends with the process.
Ends ==
    /\ job' = [m \in Messages |-> IF job[m] = "pending" THEN "lost" ELSE job[m]]
    /\ call' = [c \in Calls |-> IF call[c] = "waiting" THEN "cut" ELSE call[c]]
    /\ server' = "stopped"

-----------------------------------------------------------------------------
(* run(), from the start to the signal                                     *)

LoadGoesOn ==   \* faulty variant: run() does not look at the result (no `?`)
    /\ phase = "load"
    /\ \/ LoadRule /\ UNCHANGED phase
       \/ /\ ~Loaded => settings.rules[Len(rules) + 1] \in BadRules
          /\ phase' = "discover"
          /\ UNCHANGED pipelineVars
    /\ UNCHANGED <<told, server, job, call, task, gaveUp>>

Load ==
    /\ phase = "load"
    /\ \/ LoadRule /\ UNCHANGED phase
       \/ Loaded /\ phase' = "discover" /\ UNCHANGED pipelineVars
    /\ UNCHANGED <<told, server, job, call, task, gaveUp>>

\* A pattern that is not a regular expression ends the daemon.
LoadFails ==
    /\ phase = "load"
    /\ ~Loaded
    /\ settings.rules[Len(rules) + 1] \in BadRules
    /\ phase' = "failed"
    /\ Ends
    /\ UNCHANGED <<pipelineVars, told, task, gaveUp>>

Discover ==
    /\ phase = "discover"
    /\ \E e \in Endpoints : DiscoverAnswer(e)
    /\ UNCHANGED daemonVars

\* All endpoints have been asked, or ten seconds are over. The server starts,
\* and with it the background tasks: probes if an endpoint is configured, the
\* maintenance of quantum routing if it is enabled. For the index an endpoint
\* that was not asked is like one that failed.
Serve ==
    /\ phase = "discover"
    /\ phase' = "serve"
    /\ mcp' = [todo |-> {}, failed |-> mcp.todo \cup mcp.failed]
    /\ server' = "open"
    /\ task' = [t \in Background |->
          IF (t = "probe" /\ Endpoints = {}) \/ (t = "quantum" /\ ~settings.quantum)
          THEN "none" ELSE "waiting"]
    /\ UNCHANGED <<settings, rules, index, decision, told, job, call, gaveUp>>

\* The set-up of TLS or the bind fails, or the server ends with an error; the
\* background tasks are not told.
ServeFails ==
    /\ phase = "discover" \/ (phase = "serve" /\ server = "open")
    /\ phase' = "failed"
    /\ Ends
    /\ UNCHANGED <<pipelineVars, told, task, gaveUp>>

-----------------------------------------------------------------------------
(* Requests                                                                *)

Accepting == phase = "serve" /\ server = "open"

\* msg_handler and send_message store the message in a task of its own; the
\* gRPC handler and the WebSocket transport do not store it. A WebSocket
\* outlives the server, until run() returns.
Handle(m) ==
    /\ decision[m] = Undecided
    /\ \/ Accepting /\ RoutePipeline(m) /\ job' = [job EXCEPT ![m] = "pending"]
       \/ phase \in {"serve", "await"} /\ RouteDirect(m) /\ UNCHANGED job
    /\ UNCHANGED <<phase, told, server, call, task, gaveUp>>

\* insert_message succeeds, or fails and is logged.
StoreJob(m) ==
    /\ phase \notin {"exited", "failed"}
    /\ job[m] = "pending"
    /\ \E r \in {"stored", "refused"} : job' = [job EXCEPT ![m] = r]
    /\ UNCHANGED <<pipelineVars, phase, told, server, call, task, gaveUp>>

CallArrive(c) ==
    /\ Accepting
    /\ call[c] = "none"
    /\ call' = [call EXCEPT ![c] = "waiting"]
    /\ UNCHANGED <<pipelineVars, phase, told, server, job, task, gaveUp>>

\* The upstream answers or times out; TimeoutLayer ends what takes longer.
CallReturn(c) ==
    /\ phase = "serve"
    /\ call[c] = "waiting"
    /\ call' = [call EXCEPT ![c] = "answered"]
    /\ UNCHANGED <<pipelineVars, phase, told, server, job, task, gaveUp>>

-----------------------------------------------------------------------------
(* Background tasks                                                        *)

Running == phase \in {"serve", "await"}

TaskTick(t) ==
    /\ Running
    /\ task[t] = "waiting"
    /\ task' = [task EXCEPT ![t] = "busy"]
    /\ UNCHANGED <<pipelineVars, phase, told, server, job, call, gaveUp>>

TaskPassEnds(t) ==
    /\ Running
    /\ task[t] = "busy"
    /\ task' = [task EXCEPT ![t] = "waiting"]
    /\ UNCHANGED <<pipelineVars, phase, told, server, job, call, gaveUp>>

\* Between passes select! may notice that the channel has changed.
TaskStop(t) ==
    /\ Running
    /\ task[t] = "waiting"
    /\ told >= ChannelOf(t)
    /\ task' = [task EXCEPT ![t] = "ended"]
    /\ UNCHANGED <<pipelineVars, phase, told, server, job, call, gaveUp>>

-----------------------------------------------------------------------------
(* Shutdown                                                                *)

\* SIGINT or SIGTERM: the first send.
Signal ==
    /\ phase = "serve"
    /\ told = 0
    /\ told' = 1
    /\ UNCHANGED <<pipelineVars, phase, server, job, call, task, gaveUp>>

\* The other three channels, and graceful_shutdown of the handle.
Tell ==
    /\ phase \in {"serve", "await"}
    /\ told \in 1..(AllTold - 1)
    /\ told' = told + 1
    /\ UNCHANGED <<pipelineVars, phase, server, job, call, task, gaveUp>>

\* The plain server listens to the first channel, the one with TLS to its
\* handle. It takes no more requests.
ServerDrain ==
    /\ phase = "serve"
    /\ server = "open"
    /\ told >= IF settings.tls THEN AllTold ELSE 1
    /\ server' = "draining"
    /\ UNCHANGED <<pipelineVars, phase, told, job, call, task, gaveUp>>

InFlight == {c \in Calls : call[c] = "waiting"}

ServerStopAtOnce ==   \* faulty variant: the plain server does not drain
    /\ phase = "serve"
    /\ server = "draining"
    /\ server' = "stopped"
    /\ call' = [c \in Calls |-> IF c \in InFlight THEN "cut" ELSE call[c]]
    /\ phase' = "await"
    /\ UNCHANGED <<pipelineVars, told, job, task, gaveUp>>

\* It stops when the requests in progress have ended; with TLS, after five
\* seconds it cuts them.
ServerStop ==
    /\ phase = "serve"
    /\ server = "draining"
    /\ InFlight = {} \/ settings.tls
    /\ server' = "stopped"
    /\ call' = [c \in Calls |-> IF c \in InFlight THEN "cut" ELSE call[c]]
    /\ phase' = "await"
    /\ UNCHANGED <<pipelineVars, told, job, task, gaveUp>>

\* The tasks still to be waited for. The wait is for one after the other.
Joined(t) == task[t] \in {"ended", "none"} \/ t \in gaveUp

Awaited(t) ==
    \E i \in DOMAIN TaskOrder :
        /\ TaskOrder[i] = t
        /\ \A j \in 1..(i - 1) : TaskOrder[j] \in Background => Joined(TaskOrder[j])

GiveUpIdle(t) ==   \* faulty variant: a task that is busy is waited for without a limit
    /\ phase = "await"
    /\ Awaited(t)
    /\ task[t] = "waiting"
    /\ gaveUp' = gaveUp \cup {t}
    /\ UNCHANGED <<pipelineVars, phase, told, server, job, call, task>>

\* timeout(5 s, handle): the task goes on without anybody waiting.
GiveUp(t) ==
    /\ phase = "await"
    /\ Awaited(t)
    /\ ~Joined(t)
    /\ gaveUp' = gaveUp \cup {t}
    /\ UNCHANGED <<pipelineVars, phase, told, server, job, call, task>>

\* run() returns, the runtime is dropped.
Exit ==
    /\ phase = "await"
    /\ \A t \in Background : Joined(t)
    /\ phase' = "exited"
    /\ Ends
    /\ UNCHANGED <<pipelineVars, told, task, gaveUp>>

Main ==
    \/ Load
    \/ LoadFails
    \/ Discover
    \/ Serve
    \/ ServerDrain
    \/ ServerStop
    \/ Exit
    \/ \E t \in Background : GiveUp(t)

Next ==
    \/ Main
    \/ ServeFails
    \/ Signal
    \/ Tell
    \/ \E m \in Messages : Handle(m) \/ StoreJob(m)
    \/ \E c \in Calls : CallArrive(c) \/ CallReturn(c)
    \/ \E t \in Background : TaskTick(t) \/ TaskPassEnds(t) \/ TaskStop(t)

Spec == Init /\ [][Next]_vars

\* run() and the shutdown task go on, timers included, and upstreams answer or
\* time out. A pass of a background task may take longer than anybody waits,
\* and select! need not prefer the shutdown.
Fairness ==
    /\ WF_vars(Main)
    /\ WF_vars(Tell)
    /\ \A c \in Calls : WF_vars(CallReturn(c))

FairSpec == Spec /\ Fairness

-----------------------------------------------------------------------------
(* Properties *)

\* Types of the pipeline and of what runs in the daemon. It gets past the
\* loading only if every rule of its file is in the list and none is bad.
TypeOK ==
    /\ PipelineTypeOK
    /\ phase \in {"load", "discover", "serve", "await", "exited", "failed"}
    /\ phase \in {"discover", "serve", "await"} =>
          Loaded /\ \A i \in DOMAIN settings.rules : settings.rules[i] \notin BadRules
    /\ told \in 0..AllTold
    /\ server \in {"off", "open", "draining", "stopped"}
    /\ job \in [Messages -> {"none", "pending", "stored", "refused", "lost"}]
    /\ call \in [Calls -> {"none", "waiting", "answered", "cut"}]
    /\ task \in [Background -> {"none", "waiting", "busy", "ended"}]
    /\ gaveUp \in SUBSET Background

\* A shutdown is orderly: without TLS every proxy request that was accepted
\* gets its answer, and run() returns only when each background task has
\* ended or five seconds were spent on it, and no task is told to end before
\* the signal. What it does not promise is that messages are stored: their
\* tasks are lost if they have not run (job "lost").
ExitIsOrderly ==
    /\ phase \in {"await", "exited"} =>
          \A c \in Calls : call[c] = "cut" => settings.tls
    /\ phase = "exited" => \A t \in Background : task[t] \in {"ended", "none"} \/ t \in gaveUp
    /\ \A t \in Background : task[t] = "ended" => told > 0

\* A signal ends the daemon, whatever the tasks are busy with, unless it
\* ends by itself; the order of the sends and of the waits cannot block it.
ShutdownCompletes == told > 0 ~> phase \in {"exited", "failed"}
=============================================================================
