--------------------------------- MODULE Vfs ---------------------------------
(***************************************************************************)
(* The virtual filesystem, src/fs/registry.rs, and those who use it: the   *)
(* namespaces of src/namespace.rs, DELETE and unregistration in src/api.rs *)
(* and FsRead of src/net/transport.rs.                                     *)
(*                                                                         *)
(* The nodes are entries of one concurrent map, from path to node; a       *)
(* directory has, besides, a list of its children behind a lock of its     *)
(* own. An operation changes first the entry of its node and then the list *)
(* of the parent, if it gets the lock at once. Whoever looks at a          *)
(* directory through the map (REST) sees the entries, and through the node *)
(* (WebSocket) the list.                                                   *)
(*                                                                         *)
(* A path as it is written is the sequence of its parts between slashes,   *)
(* and the path of a node one of names. mkdir, add_node, get and remove    *)
(* normalise what they are given; unmount compares keys with a prefix that *)
(* is not normalised. The content of files is not modelled.                *)
(***************************************************************************)
EXTENDS Naturals, FiniteSets, SequencesExt

CONSTANTS
    Agents,
    Spelled,        \* Spelled[a]: the parts of the id of a
    Capabilities,   \* Capabilities[a]: those in the manifest of a, each a
                    \* record of its name and of the paths it names, in parts
    Paths,          \* the part of the tree that is looked at
    Requested,      \* paths as clients write them
    TrimStart,      \* from a part that begins (ends) with white space to
    TrimEnd,        \* the part without it
    Tasks,          \* whoever uses the filesystem
    None

Names == UNION {ToSet(p) : p \in Paths}

Trim(trim, part) == IF part \in DOMAIN trim THEN trim[part] ELSE part

\* White space at the ends of the whole path goes, but not inside it. A
\* leading, a trailing or a double slash is no part; ".." at the root is lost.
Normal(path) ==
    LET Outer(i, part) ==
            LET begun == IF i = 1 THEN Trim(TrimStart, part) ELSE part
            IN IF i = Len(path) THEN Trim(TrimEnd, begun) ELSE begun
        Step(done, part) ==
            CASE part = ".." -> IF done = <<>> THEN <<>> ELSE Front(done)
              [] part \in {".", ""} -> done
              [] OTHER -> Append(done, part)
    IN FoldLeft(Step, <<>>, [i \in DOMAIN path |-> Outer(i, path[i])])

\* A key like the one that "/net/x /y/.." gives, with white space at its end,
\* is not looked at: parent_path, which normalises once more, would trim it.
ASSUME VfsAssumption ==
    /\ Paths \subseteq Seq(Names)
    /\ \A p \in Paths : Normal(p) = p
    /\ \A a \in Agents : Spelled[a] \in Seq(ToSet(Spelled[a]))
    /\ None \notin Agents \cup Paths \cup {"dir", "file"}

VARIABLES
    node,       \* node[p]: "dir", "file" or None, the map
    kids,       \* kids[p]: the list of children of the directory at p
    bindings,   \* the agents that NamespaceManager knows
    job,        \* job[t]: the operation of task t
    doubtful    \* history: the paths whose entry in the parent's list may be
                \* wrong, because the list was in use or made anew, or
                \* because two operations on the path overlapped

vars == <<node, kids, bindings, job, doubtful>>

-----------------------------------------------------------------------------
(* Paths. *)

\* The root has no parent, and is not in the map at first.
Parent(p) == IF p = <<>> THEN None ELSE Front(p)

Children(d) == {p \in Paths : Parent(p) = d}

\* format!("/net/{}", agent_id), as it is, for mount and unmount
Base(a) == <<"net">> \o Spelled[a]

\* Mount makes the node that unmount looks for: not so for an id "b ",
\* "a/../b" or "a/", whose base is another path once it is normalised.
Plain(a) == Normal(Base(a)) = Base(a)

UnderStrictly(a) ==     \* faulty variant: without the base itself
    {p \in Paths : IsStrictPrefix(Base(a), p)}

\* key == base || key.starts_with(base + "/"), for base as it is
Under(a) == {p \in Paths : IsPrefix(Base(a), p)}

-----------------------------------------------------------------------------
(* The trees that operations make: entries in the order they are made. *)

Dir(path) == [do |-> "dir", path |-> Normal(path)]
File(path) == [do |-> "file", path |-> Normal(path)]
Gone(p) == [do |-> "gone", path |-> p]

Kept(entries) == SelectSeq(entries, LAMBDA e : e.path \in Paths)

MountEntries(a) ==
    LET base == Base(a) IN
    Kept(<<Dir(base), Dir(base \o <<"ctl">>), Dir(base \o <<"msg">>),
           File(base \o <<"hostname">>), File(base \o <<"ctl", "status">>),
           File(base \o <<"ctl", "capabilities">>),
           File(base \o <<"msg", "inbox">>), File(base \o <<"msg", "outbox">>)>>)

\* The parent of the capabilities, .../cap, is never made. A path that a
\* capability names is below its directory only as long as it has no "..".
NamespaceEntries(a) ==
    LET base == Base(a)
        OfCapability(c) ==
            LET dir == base \o <<"cap">> \o c.name IN
            <<Dir(dir), File(dir \o <<"version">>)>>
                \o [i \in DOMAIN c.paths |-> File(dir \o c.paths[i])]
    IN Kept(<<Dir(base), Dir(base \o <<"ctl">>), File(base \o <<"hostname">>),
              File(base \o <<"ctl", "status">>), File(base \o <<"ctl", "capabilities">>),
              Dir(base \o <<"msg">>),
              File(base \o <<"msg", "inbox">>), File(base \o <<"msg", "outbox">>)>>
            \o FlattenSeq([i \in DOMAIN Capabilities[a] |-> OfCapability(Capabilities[a][i])]))

SeedDirs == {<<n>> : n \in {"net", "ai", "proc", "msg", "plumber", "ctl"}}
SeedFiles == {<<"ctl", "status">>, <<"ctl", "shutdown">>, <<"plumber", "rules">>}

-----------------------------------------------------------------------------
(* An operation has a stage:                                               *)
(*   "scan"    unmount collects the keys to remove,                        *)
(*   "apply"   the next entry of todo is due,                              *)
(*   "link"    the entry of path is changed, its parent's list is next,    *)
(*   "hold"    it holds the lock of that list,                             *)
(*   "opened"  it has a clone of the directory at path, to read its list,  *)
(*   "reading" it holds the lock of the list, shared.                      *)
(* path is None for the clone of a directory that has left the map, and    *)
(* binds is the agent whose namespace is known when all entries are made.  *)
(* owed and mixed are history: what unmount has to remove, and that        *)
(* another operation changed the same path in the meantime.                *)

Idle == [stage |-> "idle", todo |-> <<>>, scan |-> {}, path |-> None, adds |-> FALSE,
         binds |-> None, owed |-> {}, mixed |-> FALSE]

Stages == {"idle", "scan", "apply", "link", "hold", "opened", "reading"}

Init ==
    /\ node = [p \in Paths |-> CASE p \in SeedDirs -> "dir"
                                 [] p \in SeedFiles -> "file"
                                 [] OTHER -> None]
    /\ kids = [p \in Paths |-> {Last(c) : c \in Children(p) \cap SeedFiles}]
    /\ bindings = {}
    /\ job = [t \in Tasks |-> Idle]
    /\ doubtful = {}

IsDir(p) == p \in Paths /\ node[p] = "dir"
Present(p) == p \in Paths /\ node[p] # None

\* Between the change of the entry of p and that of its parent's list.
Editing(t, p) == job[t].stage \in {"link", "hold"} /\ job[t].path = p

\* Some task has write access to the list of p.
Locked(p) == \E t \in Tasks : job[t].stage = "hold" /\ Parent(job[t].path) = p

ReferencedNever(p) ==   \* faulty variant: link_child works on a clone of the node
    FALSE

\* Who has write access to the list holds a reference into the map too, and
\* the entry can be neither replaced nor removed.
Referenced(p) == Locked(p)

\* try_write on the list of p fails.
InUse(p) ==
    \/ Locked(p)
    \/ \E t \in Tasks : job[t].stage = "reading" /\ job[t].path = p

-----------------------------------------------------------------------------
(* Requests. *)

Start(t, new) ==
    /\ job[t].stage = "idle"
    /\ job' = [job EXCEPT ![t] = new]
    /\ UNCHANGED <<node, kids, doubtful>>

\* mount_agent_ns
Mount(t, a) ==
    /\ Start(t, [Idle EXCEPT !.stage = "apply", !.todo = MountEntries(a)])
    /\ UNCHANGED bindings

\* create_namespace
CreateNamespace(t, a) ==
    /\ Start(t, [Idle EXCEPT !.stage = "apply", !.todo = NamespaceEntries(a), !.binds = a])
    /\ UNCHANGED bindings

\* What is there at or below the directory that mount makes for the agent.
Own(a) ==
    {p \in Paths : /\ Present(p)
                   /\ Len(p) >= Len(Base(a))
                   /\ \A i \in DOMAIN Base(a) : p[i] = Base(a)[i]}

Unmounting(a) ==
    [Idle EXCEPT !.stage = "scan", !.scan = Under(a),
                 !.owed = IF Plain(a) THEN Own(a) ELSE {}]

\* unregister_agent leaves the bindings alone, remove_namespace does not.
Unregister(t, a) == Start(t, Unmounting(a)) /\ UNCHANGED bindings
RemoveNamespace(t, a) == Start(t, Unmounting(a)) /\ bindings' = bindings \ {a}

\* vfs_delete
Delete(t, path) ==
    /\ Start(t, [Idle EXCEPT !.stage = "apply", !.todo = <<Gone(Normal(path))>>])
    /\ UNCHANGED bindings

\* FsRead of a directory. Every other read leaves the tree and its locks
\* alone.
Open(t, path) ==
    /\ IsDir(Normal(path))
    /\ Start(t, [Idle EXCEPT !.stage = "opened", !.path = Normal(path)])
    /\ UNCHANGED bindings

-----------------------------------------------------------------------------
(* Steps of an operation. *)

\* The map is walked shard by shard, in an order of its own, while others
\* change it.
Visit(t) ==
    /\ job[t].stage = "scan"
    /\ IF job[t].scan = {}
       THEN job' = [job EXCEPT ![t].stage = "apply"]
       ELSE \E p \in job[t].scan :
                job' = [job EXCEPT ![t].scan = @ \ {p},
                                   ![t].todo = IF Present(p) THEN Append(@, Gone(p)) ELSE @]
    /\ UNCHANGED <<node, kids, bindings, doubtful>>

\* The entry at p is replaced or removed by t, whose job is next to change
\* the parent's list. Clones of the old node are on their own.
Changed(t, p, adds) ==
    job' = [u \in Tasks |->
        IF u = t
        THEN [job[t] EXCEPT !.stage = "link", !.todo = Tail(@), !.path = p, !.adds = adds,
                            !.mixed = \E v \in Tasks \ {t} : Editing(v, p)]
        ELSE [job[u] EXCEPT !.mixed = @ \/ Editing(u, p),
                            !.path = IF job[u].stage \in {"opened", "reading"} /\ @ = p
                                     THEN None ELSE @,
                            !.owed = IF adds THEN @ \ {p} ELSE @]]

\* nodes.insert in mkdir and add_node. What was there is replaced, a
\* directory by an empty one, and what is below it stays.
InsertNode(t) ==
    LET e == Head(job[t].todo) IN
    /\ job[t].stage = "apply" /\ job[t].todo # <<>>
    /\ e.do \in {"dir", "file"} /\ e.path \in Paths
    /\ ~Referenced(e.path)
    /\ node' = [node EXCEPT ![e.path] = e.do]
    /\ kids' = [kids EXCEPT ![e.path] = {}]
    /\ Changed(t, e.path, TRUE)
    /\ doubtful' = (doubtful \ Children(e.path)) \cup {c \in Children(e.path) : Present(c)}
    /\ UNCHANGED bindings

\* nodes.remove in remove and unmount_agent_ns: what is below stays.
RemoveNode(t) ==
    LET p == Head(job[t].todo).path IN
    /\ job[t].stage = "apply" /\ job[t].todo # <<>>
    /\ Head(job[t].todo).do = "gone"
    /\ ~Referenced(p)
    /\ IF Present(p)
       THEN /\ node' = [node EXCEPT ![p] = None]
            /\ kids' = [kids EXCEPT ![p] = {}]
            /\ Changed(t, p, FALSE)
       ELSE /\ job' = [job EXCEPT ![t].todo = Tail(@)]
            /\ UNCHANGED <<node, kids>>
    /\ UNCHANGED <<bindings, doubtful>>

Bind(t) ==
    /\ job[t].stage = "apply" /\ job[t].todo = <<>> /\ job[t].binds # None
    /\ bindings' = bindings \cup {job[t].binds}
    /\ job' = [job EXCEPT ![t].binds = None]
    /\ UNCHANGED <<node, kids, doubtful>>

Unlocked(t) == [job EXCEPT ![t].stage = "apply", ![t].path = None,
                           ![t].adds = FALSE, ![t].mixed = FALSE]

\* link_child and unlink_child find the parent and try its lock: without a
\* directory there is nothing to do, and without the lock it is not done.
TryLock(t) ==
    LET p == job[t].path
        d == Parent(p)
    IN
    /\ job[t].stage = "link"
    /\ IF IsDir(d) /\ ~InUse(d)
       THEN job' = [job EXCEPT ![t].stage = "hold"] /\ UNCHANGED doubtful
       ELSE /\ job' = Unlocked(t)
            /\ doubtful' = IF IsDir(d) \/ job[t].mixed THEN doubtful \cup {p} ELSE doubtful
    /\ UNCHANGED <<node, kids, bindings>>

EditListToggles(t) ==   \* faulty variant: a name that is not there is added
    LET p == job[t].path IN
    /\ job[t].stage = "hold"
    /\ kids' = [kids EXCEPT ![Parent(p)] =
                   IF Last(p) \in @ THEN @ \ {Last(p)} ELSE @ \cup {Last(p)}]
    /\ job' = Unlocked(t)
    /\ doubtful' = IF job[t].mixed THEN doubtful \cup {p} ELSE doubtful \ {p}
    /\ UNCHANGED <<node, bindings>>

EditList(t) ==
    LET p == job[t].path IN
    /\ job[t].stage = "hold"
    /\ kids' = [kids EXCEPT ![Parent(p)] =
                   IF job[t].adds THEN @ \cup {Last(p)} ELSE @ \ {Last(p)}]
    /\ job' = Unlocked(t)
    /\ doubtful' = IF job[t].mixed THEN doubtful \cup {p} ELSE doubtful \ {p}
    /\ UNCHANGED <<node, bindings>>

Finish(t) ==
    /\ job[t].stage = "apply" /\ job[t].todo = <<>> /\ job[t].binds = None
    /\ job' = [job EXCEPT ![t] = Idle]
    /\ UNCHANGED <<node, kids, bindings, doubtful>>

\* The read of a list waits for whoever changes it.
ReadList(t) ==
    /\ job[t].stage = "opened"
    /\ ~Locked(job[t].path)
    /\ job' = [job EXCEPT ![t].stage = "reading"]
    /\ UNCHANGED <<node, kids, bindings, doubtful>>

EndRead(t) ==
    /\ job[t].stage = "reading"
    /\ job' = [job EXCEPT ![t] = Idle]
    /\ UNCHANGED <<node, kids, bindings, doubtful>>

Operation(t) ==
    \/ Visit(t) \/ InsertNode(t) \/ RemoveNode(t) \/ Bind(t)
    \/ TryLock(t) \/ EditList(t) \/ Finish(t)
    \/ ReadList(t) \/ EndRead(t)

Request(t) ==
    \/ \E a \in Agents : Mount(t, a) \/ CreateNamespace(t, a)
    \/ \E a \in Agents : Unregister(t, a) \/ RemoveNamespace(t, a)
    \/ \E path \in Requested : Delete(t, path) \/ Open(t, path)

Next == \E t \in Tasks : Operation(t) \/ Request(t)

Spec == Init /\ [][Next]_vars

-----------------------------------------------------------------------------
(* Properties. *)

\* Type invariant: every entry is a directory, a file or absent, only a
\* directory has a list, and a list names children that are looked at. A job
\* has the path of a node while it changes the list of the parent, and may
\* have one while it reads; whoever has the lock of a list holds a directory
\* that is in the map, although others remove and replace nodes.
TypeOK ==
    /\ node \in [Paths -> {"dir", "file", None}]
    /\ \A p \in Paths : kids[p] \subseteq {Last(c) : c \in Children(p)}
    /\ \A p \in Paths : node[p] # "dir" => kids[p] = {}
    /\ bindings \subseteq Agents
    /\ doubtful \subseteq Paths
    /\ \A t \in Tasks :
        /\ job[t].stage \in Stages
        /\ job[t].scan \subseteq Paths /\ job[t].owed \subseteq Paths
        /\ job[t].binds \in Agents \cup {None}
        /\ job[t].stage \in {"idle", "scan", "apply"} => job[t].path = None
        /\ job[t].stage \in {"link", "hold"} => job[t].path \in Paths
        /\ job[t].stage \in {"opened", "reading"} => job[t].path \in Paths \cup {None}
        /\ job[t].stage = "hold" => IsDir(Parent(job[t].path))

\* The list of a directory and the entries of the map agree on every path
\* nobody is working on, however the operations of several tasks were
\* interleaved, except where one found the list in use, the directory was
\* made anew above what it had, or two operations on that path overlapped
\* (insert, then link; remove, then unlink).
ListsAgree ==
    \A p \in Paths :
        IsDir(Parent(p)) /\ p \notin doubtful /\ ~(\E t \in Tasks : Editing(t, p))
            => (Last(p) \in kids[Parent(p)] <=> node[p] # None)

\* When unmount_agent_ns returns for an agent whose id makes a path in normal
\* form, every node that was at or below the agent's directory when it began
\* is gone, unless someone made it anew in the meantime, although the keys
\* are collected first and removed afterwards. For other ids nodes stay.
UnmountClears ==
    [][\A t \in Tasks : job[t].stage = "apply" /\ job'[t].stage = "idle"
            => \A p \in job[t].owed : node'[p] = None]_vars
=============================================================================
