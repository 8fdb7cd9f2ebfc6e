------------------------------ MODULE VfsProofs ------------------------------
(***************************************************************************)
(* Proofs about Vfs: types, the lists of children agree with the nodes,    *)
(* and an unmount leaves nothing, for any tree, agents, requests, tasks.   *)
(***************************************************************************)
EXTENDS Vfs, TLAPS

-----------------------------------------------------------------------------
(* Paths *)

\* Two children of one directory with the same name are the same path.
LEMMA PathIsParentAndName ==
  ASSUME NEW p \in Paths, NEW q \in Paths,
         Parent(p) = Parent(q), Parent(p) \in Paths, Last(p) = Last(q)
  PROVE  p = q
  <1>1. p # <<>> /\ q # <<>>
    BY VfsAssumption DEF Parent
  <1>2. p \in Seq(Names) /\ q \in Seq(Names)
    BY VfsAssumption
  <1>3. Front(p) = Front(q)
    BY <1>1 DEF Parent
  <1>4. Len(p) \in Nat \ {0} /\ Len(q) \in Nat \ {0}
    BY <1>1, <1>2
  <1>5. /\ Front(p) = [i \in 1..(Len(p) - 1) |-> p[i]]
        /\ Front(q) = [i \in 1..(Len(q) - 1) |-> q[i]]
    BY <1>2, <1>4 DEF Front
  <1>6. DOMAIN Front(p) = 1..(Len(p) - 1) /\ DOMAIN Front(q) = 1..(Len(q) - 1)
    BY <1>5
  <1>7. Len(p) = Len(q)
    BY <1>3, <1>4, <1>6
  <1>8. ASSUME NEW i \in 1..Len(p) PROVE p[i] = q[i]
    <2>1. CASE i = Len(p)
      BY <1>7, <2>1 DEF Last
    <2>2. CASE i # Len(p)
      <3>1. i \in 1..(Len(p) - 1)
        BY <1>4, <2>2
      <3>2. Front(p)[i] = p[i] /\ Front(q)[i] = q[i]
        BY <1>5, <1>7, <3>1
      <3>3. QED
        BY <1>3, <3>2
    <2>3. QED
      BY <2>1, <2>2
  <1>9. QED
    BY <1>2, <1>7, <1>8

-----------------------------------------------------------------------------
(* The invariant                                                           *)

IsJob(j) ==
    j = [f \in {"stage", "todo", "scan", "path", "adds", "binds", "owed", "mixed"} |-> j[f]]

Shapes ==
    /\ node = [p \in Paths |-> node[p]]
    /\ kids = [p \in Paths |-> kids[p]]
    /\ job = [t \in Tasks |-> job[t]]
    /\ \A t \in Tasks : IsJob(job[t])

\* A task that edits a list knows where, and holds its directory.
Placed ==
    \A t \in Tasks :
        /\ job[t].stage \in {"link", "hold"} => job[t].path \in Paths
        /\ job[t].stage = "hold" => IsDir(Parent(job[t].path))

\* The task whose change to the node at p is not the last one knows it.
UnmixedIsLast ==
    \A t \in Tasks : \A p \in Paths :
        Editing(t, p) /\ ~job[t].mixed => (node[p] # None <=> job[t].adds)

ListsInv == Shapes /\ Placed /\ UnmixedIsLast /\ ListsAgree

LEMMA ListsInit == Init => ListsInv
  <1> SUFFICES ASSUME Init PROVE ListsInv
    OBVIOUS
  <1>1. Shapes
    <2>1. IsJob(Idle)
      BY DEF IsJob, Idle
    <2>2. job = [t \in Tasks |-> Idle]
      BY DEF Init
    <2>3. \A t \in Tasks : IsJob(job[t])
      BY <2>1, <2>2
    <2>4. job = [t \in Tasks |-> job[t]]
      BY <2>2
    <2>5. node = [p \in Paths |-> node[p]]
      <3> DEFINE first(p) == CASE p \in SeedDirs -> "dir" [] p \in SeedFiles -> "file"
                               [] OTHER -> None
      <3>1. node = [p \in Paths |-> first(p)]
        BY DEF Init
      <3> HIDE DEF first
      <3>2. QED
        BY <3>1
    <2>6. kids = [p \in Paths |-> kids[p]]
      <3> DEFINE first(p) == {Last(c) : c \in Children(p) \cap SeedFiles}
      <3>1. kids = [p \in Paths |-> first(p)]
        BY DEF Init
      <3> HIDE DEF first
      <3>2. QED
        BY <3>1
    <2>7. QED
      BY <2>3, <2>4, <2>5, <2>6 DEF Shapes
  <1>2. \A t \in Tasks : job[t].stage = "idle"
    BY DEF Init, Idle
  <1>3. Placed /\ UnmixedIsLast
    BY <1>2 DEF Placed, UnmixedIsLast, Editing
  <1>4. ListsAgree
    <2> SUFFICES ASSUME NEW p \in Paths, IsDir(Parent(p))
                 PROVE  Last(p) \in kids[Parent(p)] <=> node[p] # None
      BY DEF ListsAgree
    <2> DEFINE d == Parent(p)
    <2>1. d \in Paths /\ kids[d] = {Last(c) : c \in Children(d) \cap SeedFiles}
      BY DEF Init, IsDir
    <2>2. p \in Children(d)
      BY DEF Children
    <2>3. p \in SeedFiles <=> node[p] # None
      <3>1. p \notin SeedDirs
        <4>1. node[d] = "dir" /\ d \in SeedDirs
          <5>1. node[d] = "dir"
            BY DEF IsDir
          <5>2. node[d] = CASE d \in SeedDirs -> "dir"
                            [] d \in SeedFiles -> "file"
                            [] OTHER -> None
            BY <2>1 DEF Init
          <5>3. QED
            BY <5>1, <5>2, VfsAssumption
        <4>2. Len(d) = 1
          BY <4>1 DEF SeedDirs
        <4>3. p # <<>> /\ d = Front(p) /\ p \in Seq(Names)
          BY <2>1, VfsAssumption DEF Parent
        <4>4. Len(p) \in Nat \ {0} /\ d = [i \in 1..(Len(p) - 1) |-> p[i]]
          BY <4>3 DEF Front
        <4>5. ASSUME p \in SeedDirs PROVE FALSE
          <5>1. Len(p) = 1
            BY <4>5 DEF SeedDirs
          <5>2. DOMAIN d = {}
            BY <4>4, <5>1
          <5>3. DOMAIN d = {1}
            BY <4>1 DEF SeedDirs
          <5>4. QED
            BY <5>2, <5>3
        <4>6. QED
          BY <4>5
      <3>2. node[p] = CASE p \in SeedDirs -> "dir"
                        [] p \in SeedFiles -> "file"
                        [] OTHER -> None
        BY DEF Init
      <3>3. QED
        BY <3>1, <3>2, VfsAssumption
    <2>4. ASSUME NEW c \in Children(d), Last(c) = Last(p) PROVE c = p
      <3>1. c \in Paths /\ Parent(c) = Parent(p)
        BY DEF Children
      <3>2. QED
        BY <2>1, <2>4, <3>1, PathIsParentAndName
    <2>5. QED
      BY <2>1, <2>2, <2>3, <2>4
  <1>5. QED
    BY <1>1, <1>3, <1>4 DEF ListsInv

-----------------------------------------------------------------------------
(* Steps that leave nodes and lists alone                                  *)

LEMMA QuietStep ==
  ASSUME ListsInv, NEW t \in Tasks, NEW j, IsJob(j),
         job' = [job EXCEPT ![t] = j],
         job[t].stage \notin {"link", "hold"}, j.stage \notin {"link", "hold"},
         UNCHANGED <<node, kids, doubtful>>
  PROVE  ListsInv'
  <1> USE DEF ListsInv
  <1>1. /\ job'[t] = j
        /\ \A u \in Tasks \ {t} : job'[u] = job[u]
        /\ job' = [u \in Tasks |-> job'[u]]
    BY DEF Shapes
  <1>2. Shapes'
    BY <1>1, SMTT(30) DEF Shapes, IsJob
  <1>3. \A u \in Tasks : job'[u].stage \in {"link", "hold"} => job'[u] = job[u]
    BY <1>1
  <1>4. \A u \in Tasks : job[u].stage \in {"link", "hold"} => job'[u] = job[u]
    BY <1>1
  <1>5. Placed'
    BY <1>3 DEF Placed, IsDir
  <1>6. UnmixedIsLast'
    BY <1>3 DEF UnmixedIsLast, Editing
  <1>7. ListsAgree'
    BY <1>4 DEF ListsAgree, Editing, IsDir
  <1>8. QED
    BY <1>2, <1>5, <1>6, <1>7

LEMMA RequestStep ==
  ASSUME ListsInv, NEW t \in Tasks, Request(t)
  PROVE  ListsInv'
  <1>1. \E j : /\ Start(t, j) /\ IsJob(j)
               /\ j.stage \notin {"link", "hold"}
    <2>1. ASSUME NEW a \in Agents, Mount(t, a)
          PROVE  \E j : Start(t, j) /\ IsJob(j) /\ j.stage \notin {"link", "hold"}
      <3> DEFINE j == [Idle EXCEPT !.stage = "apply", !.todo = MountEntries(a)]
      <3>1. Start(t, j)
        BY <2>1 DEF Mount
      <3>2. IsJob(j) /\ j.stage = "apply"
        BY DEF IsJob, Idle
      <3>3. QED
        BY <3>1, <3>2
    <2>2. ASSUME NEW a \in Agents, CreateNamespace(t, a)
          PROVE  \E j : Start(t, j) /\ IsJob(j) /\ j.stage \notin {"link", "hold"}
      <3> DEFINE j == [Idle EXCEPT !.stage = "apply", !.todo = NamespaceEntries(a), !.binds = a]
      <3>1. Start(t, j)
        BY <2>2 DEF CreateNamespace
      <3>2. IsJob(j) /\ j.stage = "apply"
        BY DEF IsJob, Idle
      <3>3. QED
        BY <3>1, <3>2
    <2>3. ASSUME NEW a \in Agents, Unregister(t, a) \/ RemoveNamespace(t, a)
          PROVE  \E j : Start(t, j) /\ IsJob(j) /\ j.stage \notin {"link", "hold"}
      <3>1. Start(t, Unmounting(a))
        BY <2>3 DEF Unregister, RemoveNamespace
      <3>2. IsJob(Unmounting(a)) /\ Unmounting(a).stage = "scan"
        BY DEF IsJob, Idle, Unmounting
      <3>3. QED
        BY <3>1, <3>2
    <2>4. ASSUME NEW path \in Requested, Delete(t, path)
          PROVE  \E j : Start(t, j) /\ IsJob(j) /\ j.stage \notin {"link", "hold"}
      <3> DEFINE j == [Idle EXCEPT !.stage = "apply", !.todo = <<Gone(Normal(path))>>]
      <3>1. Start(t, j)
        BY <2>4 DEF Delete
      <3>2. IsJob(j) /\ j.stage = "apply"
        BY DEF IsJob, Idle
      <3>3. QED
        BY <3>1, <3>2
    <2>5. ASSUME NEW path \in Requested, Open(t, path)
          PROVE  \E j : Start(t, j) /\ IsJob(j) /\ j.stage \notin {"link", "hold"}
      <3> DEFINE j == [Idle EXCEPT !.stage = "opened", !.path = Normal(path)]
      <3>1. Start(t, j)
        BY <2>5 DEF Open
      <3>2. IsJob(j) /\ j.stage = "opened"
        BY DEF IsJob, Idle
      <3>3. QED
        BY <3>1, <3>2
    <2>6. QED
      BY <2>1, <2>2, <2>3, <2>4, <2>5 DEF Request
  <1>2. PICK j : Start(t, j) /\ IsJob(j) /\ j.stage \notin {"link", "hold"}
    BY <1>1
  <1>3. QED
    BY <1>2, QuietStep DEF Start

LEMMA QuietOperation ==
  ASSUME ListsInv, NEW t \in Tasks,
         Visit(t) \/ Bind(t) \/ Finish(t) \/ ReadList(t) \/ EndRead(t)
  PROVE  ListsInv'
  <1>1. UNCHANGED <<node, kids, doubtful>>
    BY DEF Visit, Bind, Finish, ReadList, EndRead
  <1>2. IsJob(job[t])
    BY DEF ListsInv, Shapes
  <1>3. CASE Visit(t)
    <2>1. CASE job' = [job EXCEPT ![t].stage = "apply"]
      <3> DEFINE j == [job[t] EXCEPT !.stage = "apply"]
      <3>1. IsJob(j) /\ j.stage = "apply"
        BY <1>2 DEF IsJob
      <3>2. job' = [job EXCEPT ![t] = j]
        BY <2>1
      <3>3. QED
        BY <1>1, <1>3, <3>1, <3>2, QuietStep DEF Visit
    <2>2. ASSUME NEW p, NEW todo,
                 job' = [job EXCEPT ![t].scan = @ \ {p}, ![t].todo = todo]
          PROVE  ListsInv'
      <3> DEFINE j == [job[t] EXCEPT !.scan = @ \ {p}, !.todo = todo]
      <3>1. IsJob(j) /\ j.stage = job[t].stage
        BY <1>2 DEF IsJob
      <3>2. job' = [job EXCEPT ![t] = j]
        BY <2>2 DEF ListsInv, Shapes
      <3>3. QED
        BY <1>1, <1>3, <3>1, <3>2, QuietStep DEF Visit
    <2>3. QED
      <3>1. CASE job[t].scan # {}
        <4>1. PICK p \in job[t].scan :
                job' = [job EXCEPT ![t].scan = @ \ {p},
                                   ![t].todo = IF Present(p) THEN Append(@, Gone(p)) ELSE @]
          BY <1>3, <3>1 DEF Visit
        <4> DEFINE todo == IF Present(p) THEN Append(job[t].todo, Gone(p)) ELSE job[t].todo
        <4>2. job' = [job EXCEPT ![t].scan = @ \ {p}, ![t].todo = todo]
          BY <4>1, <1>2 DEF ListsInv, Shapes, IsJob
        <4> HIDE DEF todo
        <4>3. QED
          BY <2>2, <4>2
      <3>2. QED
        BY <1>3, <2>1, <3>1 DEF Visit
  <1>4. CASE Bind(t)
    <2> DEFINE j == [job[t] EXCEPT !.binds = None]
    <2>1. IsJob(j) /\ j.stage = job[t].stage
      BY <1>2 DEF IsJob
    <2>2. job' = [job EXCEPT ![t] = j]
      BY <1>4 DEF Bind
    <2>3. QED
      BY <1>1, <1>4, <2>1, <2>2, QuietStep DEF Bind
  <1>5. CASE Finish(t) \/ EndRead(t)
    <2>1. IsJob(Idle) /\ Idle.stage = "idle"
      BY DEF IsJob, Idle
    <2>2. job' = [job EXCEPT ![t] = Idle] /\ job[t].stage \in {"apply", "reading"}
      BY <1>5 DEF Finish, EndRead
    <2>3. QED
      BY <1>1, <2>1, <2>2, QuietStep
  <1>6. CASE ReadList(t)
    <2> DEFINE j == [job[t] EXCEPT !.stage = "reading"]
    <2>1. IsJob(j) /\ j.stage = "reading"
      BY <1>2 DEF IsJob
    <2>2. job' = [job EXCEPT ![t] = j]
      BY <1>6 DEF ReadList
    <2>3. QED
      BY <1>1, <1>6, <2>1, <2>2, QuietStep DEF ReadList
  <1>7. QED
    BY <1>3, <1>4, <1>5, <1>6

-----------------------------------------------------------------------------
(* Steps that change a node                                                *)

LEMMA ChangedJobs ==
  ASSUME Shapes, NEW t \in Tasks, NEW p \in Paths, NEW adds \in BOOLEAN,
         Changed(t, p, adds)
  PROVE  /\ job' = [u \in Tasks |-> job'[u]]
         /\ \A u \in Tasks : IsJob(job'[u])
         /\ job'[t].stage = "link" /\ job'[t].path = p /\ job'[t].adds = adds
         /\ \A u \in Tasks \ {t} :
               /\ job'[u].stage = job[u].stage
               /\ job[u].stage \in {"link", "hold"} => job'[u].path = job[u].path
               /\ job'[u].adds = job[u].adds
               /\ job'[u].mixed <=> (job[u].mixed \/ Editing(u, p))
  <1> DEFINE own == [job[t] EXCEPT !.stage = "link", !.todo = Tail(@), !.path = p, !.adds = adds,
                                   !.mixed = \E v \in Tasks \ {t} : Editing(v, p)]
             other(u) == [job[u] EXCEPT
                            !.mixed = @ \/ Editing(u, p),
                            !.path = IF job[u].stage \in {"opened", "reading"} /\ @ = p
                                     THEN None ELSE @,
                            !.owed = IF adds THEN @ \ {p} ELSE @]
  <1>1. job' = [u \in Tasks |-> IF u = t THEN own ELSE other(u)]
    BY DEF Changed
  <1>2. IsJob(own) /\ own.stage = "link" /\ own.path = p /\ own.adds = adds
    BY DEF Shapes, IsJob
  <1>3. ASSUME NEW u \in Tasks
        PROVE  /\ IsJob(other(u))
               /\ other(u).stage = job[u].stage
               /\ job[u].stage \in {"link", "hold"} => other(u).path = job[u].path
               /\ other(u).adds = job[u].adds
               /\ other(u).mixed <=> (job[u].mixed \/ Editing(u, p))
    BY ZenonT(30) DEF Shapes, IsJob
  <1> HIDE DEF own, other
  <1>4. QED
    BY <1>1, <1>2, <1>3

\* What inserting or removing the node at q, while nobody holds the list
\* at q, does to the invariant. The paths in doubtful below q grow.
LEMMA NodeStep ==
  ASSUME ListsInv, NEW t \in Tasks, NEW q \in Paths, NEW adds \in BOOLEAN, NEW what,
         job[t].stage = "apply", ~Referenced(q), Changed(t, q, adds),
         adds <=> what # None,
         node' = [node EXCEPT ![q] = what],
         kids' = [kids EXCEPT ![q] = {}],
         \A p \in Paths : Parent(p) # q => (p \in doubtful' <=> p \in doubtful),
         what = "dir" => \A p \in Paths :
                            Parent(p) = q /\ p \notin doubtful' => node[p] = None
  PROVE  ListsInv'
  <1> USE DEF ListsInv
  <1>1. /\ job' = [u \in Tasks |-> job'[u]]
        /\ \A u \in Tasks : IsJob(job'[u])
        /\ job'[t].stage = "link" /\ job'[t].path = q /\ job'[t].adds = adds
    BY ChangedJobs
  <1>2. ASSUME NEW u \in Tasks \ {t}
        PROVE  /\ job'[u].stage = job[u].stage
               /\ job[u].stage \in {"link", "hold"} => job'[u].path = job[u].path
               /\ job'[u].adds = job[u].adds
               /\ job'[u].mixed <=> (job[u].mixed \/ Editing(u, q))
    BY ChangedJobs
  <1>3. /\ node' = [p \in Paths |-> node'[p]] /\ kids' = [p \in Paths |-> kids'[p]]
        /\ node'[q] = what /\ kids'[q] = {}
        /\ \A p \in Paths \ {q} : node'[p] = node[p] /\ kids'[p] = kids[p]
    BY DEF Shapes
  <1>4. Shapes'
    BY <1>1, <1>3 DEF Shapes, IsJob
  <1>5. Placed'
    <2> SUFFICES ASSUME NEW u \in Tasks
                 PROVE  /\ job'[u].stage \in {"link", "hold"} => job'[u].path \in Paths
                        /\ job'[u].stage = "hold" =>
                              Parent(job'[u].path) \in Paths /\ node'[Parent(job'[u].path)] = "dir"
      BY DEF Placed, IsDir
    <2>1. CASE u = t
      BY <1>1, <2>1
    <2>2. CASE u # t
      <3>1. job[u].stage = "hold" => IsDir(Parent(job[u].path)) /\ Parent(job[u].path) # q
        BY DEF Placed, Referenced, Locked
      <3>2. QED
        BY <1>2, <1>3, <2>2, <3>1 DEF Placed, IsDir
    <2>3. QED
      BY <2>1, <2>2
  <1>6. UnmixedIsLast'
    <2> SUFFICES ASSUME NEW u \in Tasks, NEW p \in Paths,
                        Editing(u, p)', ~job'[u].mixed
                 PROVE  node'[p] # None <=> job'[u].adds
      BY DEF UnmixedIsLast
    <2>1. CASE u = t
      BY <1>1, <1>3, <2>1 DEF Editing
    <2>2. CASE u # t
      <3>1. Editing(u, p) /\ ~job[u].mixed /\ ~Editing(u, q)
        BY <1>2, <2>2 DEF Editing
      <3>2. p # q
        BY <3>1
      <3>3. QED
        BY <1>2, <1>3, <2>2, <3>1, <3>2 DEF UnmixedIsLast
    <2>3. QED
      BY <2>1, <2>2
  <1>7. ListsAgree'
    <2> SUFFICES ASSUME NEW p \in Paths, IsDir(Parent(p))', p \notin doubtful',
                        \A u \in Tasks : ~Editing(u, p)'
                 PROVE  Last(p) \in kids'[Parent(p)] <=> node'[p] # None
      BY DEF ListsAgree
    <2>1. p # q
      BY <1>1 DEF Editing
    <2>2. CASE Parent(p) = q
      <3>1. what = "dir"
        BY <1>3, <2>2 DEF IsDir
      <3>2. node'[p] = None
        BY <1>3, <2>1, <2>2, <3>1
      <3>3. QED
        BY <1>3, <2>2, <3>2
    <2>3. CASE Parent(p) # q
      <3>1. IsDir(Parent(p)) /\ kids'[Parent(p)] = kids[Parent(p)] /\ node'[p] = node[p]
        BY <1>3, <2>1, <2>3 DEF IsDir
      <3>2. p \notin doubtful
        BY <2>3
      <3>3. \A u \in Tasks : ~Editing(u, p)
        BY <1>2 DEF Editing
      <3>4. QED
        BY <3>1, <3>2, <3>3 DEF ListsAgree
    <2>4. QED
      BY <2>2, <2>3
  <1>8. QED
    BY <1>4, <1>5, <1>6, <1>7

LEMMA InsertStep ==
  ASSUME ListsInv, NEW t \in Tasks, InsertNode(t)
  PROVE  ListsInv'
  <1> DEFINE e == Head(job[t].todo)
             q == e.path
             what == e.do
  <1>1. /\ job[t].stage = "apply" /\ what \in {"dir", "file"} /\ q \in Paths
        /\ ~Referenced(q) /\ Changed(t, q, TRUE)
        /\ node' = [node EXCEPT ![q] = what] /\ kids' = [kids EXCEPT ![q] = {}]
        /\ doubtful' = (doubtful \ Children(q)) \cup {c \in Children(q) : Present(c)}
    BY DEF InsertNode
  <1> HIDE DEF e, q, what
  <1>2. TRUE <=> what # None
    BY <1>1, VfsAssumption
  <1>3. \A p \in Paths : Parent(p) # q => (p \in doubtful' <=> p \in doubtful)
    BY <1>1 DEF Children
  <1>4. \A p \in Paths : Parent(p) = q /\ p \notin doubtful' => node[p] = None
    BY <1>1 DEF Children, Present
  <1>5. QED
    BY <1>1, <1>2, <1>3, <1>4, NodeStep

LEMMA RemoveStep ==
  ASSUME ListsInv, NEW t \in Tasks, RemoveNode(t)
  PROVE  ListsInv'
  <1> DEFINE q == Head(job[t].todo).path
  <1>1. job[t].stage = "apply" /\ ~Referenced(q) /\ doubtful' = doubtful
    BY DEF RemoveNode
  <1>2. CASE Present(q)
    <2>1. /\ node' = [node EXCEPT ![q] = None] /\ kids' = [kids EXCEPT ![q] = {}]
          /\ Changed(t, q, FALSE) /\ q \in Paths
      BY <1>2 DEF RemoveNode, Present
    <2>2. None # "dir"
      BY VfsAssumption
    <2> HIDE DEF q
    <2>3. QED
      BY <1>1, <2>1, <2>2, NodeStep
  <1>3. CASE ~Present(q)
    <2> DEFINE j == [job[t] EXCEPT !.todo = Tail(@)]
    <2>1. IsJob(j) /\ j.stage = job[t].stage
      BY DEF IsJob, ListsInv, Shapes
    <2>2. job' = [job EXCEPT ![t] = j] /\ UNCHANGED <<node, kids, doubtful>>
      BY <1>3 DEF RemoveNode
    <2>3. QED
      BY <1>1, <2>1, <2>2, QuietStep
  <1>4. QED
    BY <1>2, <1>3

-----------------------------------------------------------------------------
(* Steps that change a list                                                *)

LEMMA UnlockedJobs ==
  ASSUME Shapes, NEW t \in Tasks, job' = Unlocked(t)
  PROVE  /\ job' = [u \in Tasks |-> job'[u]]
         /\ \A u \in Tasks : IsJob(job'[u])
         /\ job'[t].stage = "apply"
         /\ \A u \in Tasks \ {t} : job'[u] = job[u]
  <1> DEFINE j == [job[t] EXCEPT !.stage = "apply", !.path = None, !.adds = FALSE, !.mixed = FALSE]
  <1>1. IsJob(j) /\ j.stage = "apply"
    BY DEF Shapes, IsJob
  <1>2. job' = [job EXCEPT ![t] = j]
    BY DEF Unlocked, Shapes
  <1> HIDE DEF j
  <1>3. QED
    BY <1>1, <1>2 DEF Shapes

\* A task that got the lock goes on editing the same list.
LEMMA LockStep ==
  ASSUME ListsInv, NEW t \in Tasks, job[t].stage = "link",
         IsDir(Parent(job[t].path)),
         job' = [job EXCEPT ![t].stage = "hold"],
         UNCHANGED <<node, kids, doubtful>>
  PROVE  ListsInv'
  <1> USE DEF ListsInv
  <1> DEFINE j == [job[t] EXCEPT !.stage = "hold"]
  <1>1. /\ IsJob(j) /\ j.stage = "hold" /\ j.path = job[t].path
        /\ j.adds = job[t].adds /\ j.mixed = job[t].mixed
    BY DEF Shapes, IsJob
  <1>2. job' = [job EXCEPT ![t] = j]
    OBVIOUS
  <1> HIDE DEF j
  <1>3. /\ job' = [u \in Tasks |-> job'[u]] /\ job'[t] = j
        /\ \A u \in Tasks \ {t} : job'[u] = job[u]
    BY <1>2 DEF Shapes
  <1>4. Shapes'
    BY <1>1, <1>3 DEF Shapes, IsJob
  <1>5. Placed'
    BY <1>1, <1>3 DEF Placed, IsDir
  <1>6. \A u \in Tasks : \A p \in Paths : Editing(u, p)' <=> Editing(u, p)
    BY <1>1, <1>3 DEF Editing
  <1>7. UnmixedIsLast'
    BY <1>1, <1>3, <1>6 DEF UnmixedIsLast
  <1>8. ListsAgree'
    BY <1>6 DEF ListsAgree, IsDir
  <1>9. QED
    BY <1>4, <1>5, <1>7, <1>8

LEMMA TryLockStep ==
  ASSUME ListsInv, NEW t \in Tasks, TryLock(t)
  PROVE  ListsInv'
  <1> DEFINE q == job[t].path
             d == Parent(q)
  <1>1. CASE IsDir(d) /\ ~InUse(d)
    BY <1>1, LockStep DEF TryLock
  <1>2. CASE ~(IsDir(d) /\ ~InUse(d))
    <2>1. /\ job[t].stage = "link" /\ job' = Unlocked(t)
          /\ doubtful' = IF IsDir(d) \/ job[t].mixed THEN doubtful \cup {q} ELSE doubtful
          /\ UNCHANGED <<node, kids>>
      BY <1>2 DEF TryLock
    <2>2. /\ job' = [u \in Tasks |-> job'[u]] /\ \A u \in Tasks : IsJob(job'[u])
          /\ job'[t].stage = "apply" /\ \A u \in Tasks \ {t} : job'[u] = job[u]
      BY <2>1, UnlockedJobs DEF ListsInv
    <2>3. Shapes'
      BY <2>1, <2>2 DEF ListsInv, Shapes, IsJob
    <2>4. Placed' /\ UnmixedIsLast'
      BY <2>1, <2>2 DEF ListsInv, Placed, UnmixedIsLast, Editing, IsDir
    <2>5. ListsAgree'
      <3> SUFFICES ASSUME NEW p \in Paths, IsDir(Parent(p)), p \notin doubtful',
                          \A u \in Tasks : ~Editing(u, p)'
                   PROVE  Last(p) \in kids[Parent(p)] <=> node[p] # None
        BY <2>1 DEF ListsAgree, IsDir
      <3>1. p # q /\ p \notin doubtful
        BY <2>1
      <3>2. \A u \in Tasks : ~Editing(u, p)
        BY <2>2, <3>1 DEF Editing
      <3>3. QED
        BY <3>1, <3>2 DEF ListsInv, ListsAgree
    <2>6. QED
      BY <2>3, <2>4, <2>5 DEF ListsInv
  <1>3. QED
    BY <1>1, <1>2

LEMMA EditListStep ==
  ASSUME ListsInv, NEW t \in Tasks, EditList(t)
  PROVE  ListsInv'
  <1> DEFINE q == job[t].path
             d == Parent(q)
             list == IF job[t].adds THEN kids[d] \cup {Last(q)} ELSE kids[d] \ {Last(q)}
  <1>1. /\ job[t].stage = "hold" /\ job' = Unlocked(t) /\ node' = node
        /\ doubtful' = IF job[t].mixed THEN doubtful \cup {q} ELSE doubtful \ {q}
        /\ kids' = [kids EXCEPT ![d] = list]
    BY DEF EditList
  <1>2. q \in Paths /\ IsDir(d)
    BY <1>1 DEF ListsInv, Placed
  <1>3. /\ kids' = [p \in Paths |-> kids'[p]] /\ kids'[d] = list
        /\ \A p \in Paths \ {d} : kids'[p] = kids[p]
    BY <1>1, <1>2 DEF ListsInv, Shapes, IsDir
  <1>4. /\ job' = [u \in Tasks |-> job'[u]] /\ \A u \in Tasks : IsJob(job'[u])
        /\ job'[t].stage = "apply" /\ \A u \in Tasks \ {t} : job'[u] = job[u]
    BY <1>1, UnlockedJobs DEF ListsInv
  <1>5. Shapes'
    BY <1>1, <1>3, <1>4 DEF ListsInv, Shapes, IsJob
  <1>6. Placed' /\ UnmixedIsLast'
    BY <1>1, <1>4 DEF ListsInv, Placed, UnmixedIsLast, Editing, IsDir
  <1>7. ListsAgree'
    <2> SUFFICES ASSUME NEW p \in Paths, IsDir(Parent(p)), p \notin doubtful',
                        \A u \in Tasks : ~Editing(u, p)'
                 PROVE  Last(p) \in kids'[Parent(p)] <=> node[p] # None
      BY <1>1 DEF ListsAgree, IsDir
    <2>1. CASE p = q
      <3>1. ~job[t].mixed
        BY <1>1, <2>1
      <3>2. node[p] # None <=> job[t].adds
        BY <1>1, <1>2, <2>1, <3>1 DEF ListsInv, UnmixedIsLast, Editing
      <3>3. QED
        BY <1>3, <2>1, <3>2
    <2>2. CASE p # q
      <3>1. p \notin doubtful
        BY <1>1, <2>2
      <3>2. \A u \in Tasks : ~Editing(u, p)
        BY <1>4, <2>2 DEF Editing
      <3>3. Last(p) \in kids[Parent(p)] <=> node[p] # None
        BY <3>1, <3>2 DEF ListsInv, ListsAgree
      <3>4. CASE Parent(p) = d
        <4>1. Last(p) # Last(q)
          BY <1>2, <2>2, <3>4, PathIsParentAndName DEF IsDir
        <4>2. QED
          BY <1>3, <3>3, <3>4, <4>1
      <3>5. CASE Parent(p) # d
        BY <1>3, <3>3, <3>5 DEF IsDir
      <3>6. QED
        BY <3>4, <3>5
    <2>3. QED
      BY <2>1, <2>2
  <1>8. QED
    BY <1>5, <1>6, <1>7 DEF ListsInv

LEMMA ListsStep == ListsInv /\ [Next]_vars => ListsInv'
  <1> SUFFICES ASSUME ListsInv, [Next]_vars PROVE ListsInv'
    OBVIOUS
  <1>1. ASSUME NEW t \in Tasks, Operation(t) PROVE ListsInv'
    BY <1>1, QuietOperation, InsertStep, RemoveStep, TryLockStep, EditListStep DEF Operation
  <1>2. ASSUME NEW t \in Tasks, Request(t) PROVE ListsInv'
    BY <1>2, RequestStep
  <1>3. CASE UNCHANGED vars
    BY <1>3 DEF vars, ListsInv, Shapes, IsJob, Placed, UnmixedIsLast, ListsAgree,
                IsDir, Editing
  <1>4. QED
    BY <1>1, <1>2, <1>3 DEF Next

\* registry.rs changes a node and its parent's list one after the other and
\* gives up when the list is in use. On every path where neither that nor an
\* overlap of two operations happened, list and node agree again as soon as
\* nobody is between the two.
THEOREM ListsFollowNodes == Spec => []ListsAgree
  <1>1. ListsInv => ListsAgree
    BY DEF ListsInv
  <1>2. QED
    BY ListsInit, ListsStep, <1>1, PTL DEF Spec

-----------------------------------------------------------------------------
(* Types                                                                   *)

JobTyped(j) ==
    /\ j.stage \in Stages
    /\ j.scan \subseteq Paths /\ j.owed \subseteq Paths
    /\ j.binds \in Agents \cup {None}
    /\ j.stage \in {"idle", "scan", "apply"} => j.path = None
    /\ j.stage \in {"link", "hold"} => j.path \in Paths
    /\ j.stage \in {"opened", "reading"} => j.path \in Paths \cup {None}

JobsTyped == \A t \in Tasks : JobTyped(job[t])

\* A list names children, and only a directory has one.
TreeTyped ==
    /\ node \in [Paths -> {"dir", "file", None}]
    /\ \A p \in Paths : kids[p] \subseteq {Last(c) : c \in Children(p)}
    /\ \A p \in Paths : node[p] # "dir" => kids[p] = {}
    /\ bindings \subseteq Agents
    /\ doubtful \subseteq Paths

VfsInv == ListsInv /\ TreeTyped /\ JobsTyped

LEMMA IdleTyped == IsJob(Idle) /\ JobTyped(Idle)
  BY DEF IsJob, JobTyped, Idle, Stages

LEMMA TypesInit == Init => VfsInv
  <1> SUFFICES ASSUME Init PROVE TreeTyped /\ JobsTyped
    BY ListsInit DEF VfsInv
  <1>1. JobsTyped
    BY IdleTyped DEF Init, JobsTyped
  <1>2. /\ node = [p \in Paths |-> node[p]]
        /\ \A p \in Paths : node[p] = CASE p \in SeedDirs -> "dir"
                                        [] p \in SeedFiles -> "file"
                                        [] OTHER -> None
        /\ \A p \in Paths : kids[p] = {Last(c) : c \in Children(p) \cap SeedFiles}
        /\ bindings = {} /\ doubtful = {}
    BY ListsInit DEF Init, ListsInv, Shapes
  <1>3. node \in [Paths -> {"dir", "file", None}]
    <2>1. \A p \in Paths : node[p] \in {"dir", "file", None}
      BY <1>2
    <2>2. QED
      BY <1>2, <2>1
  <1>4. ASSUME NEW p \in Paths, NEW c \in Children(p) \cap SeedFiles
        PROVE  node[p] = "dir"
    <2>1. c \in Paths /\ c # <<>> /\ p = Front(c)
      BY <1>4, VfsAssumption DEF Children, Parent
    <2>2. Len(c) = 2 /\ c[1] \in {"ctl", "plumber"}
      BY DEF SeedFiles
    <2>3. p = <<c[1]>>
      <3>1. Front(c) = [i \in 1..1 |-> c[i]]
        BY <2>2 DEF Front
      <3>2. <<c[1]>> = [i \in 1..1 |-> c[i]]
        OBVIOUS
      <3>3. QED
        BY <2>1, <3>1, <3>2
    <2>4. p \in SeedDirs /\ p \notin SeedFiles
      BY <2>2, <2>3 DEF SeedDirs, SeedFiles
    <2>5. QED
      BY <1>2, <2>4
  <1>5. QED
    BY <1>1, <1>2, <1>3, <1>4 DEF TreeTyped

\* Of the steps of a task those on its own job.
LEMMA OwnJobTyped ==
  ASSUME Shapes, JobsTyped, NEW t \in Tasks, NEW j, JobTyped(j),
         job' = [job EXCEPT ![t] = j]
  PROVE  JobsTyped'
  <1>1. job'[t] = j /\ \A u \in Tasks \ {t} : job'[u] = job[u]
    BY DEF Shapes
  <1>2. \A u \in Tasks : JobTyped(job'[u])
    BY <1>1 DEF JobsTyped
  <1>3. QED
    BY <1>2 DEF JobsTyped, JobTyped

LEMMA ChangedTyped ==
  ASSUME Shapes, JobsTyped, NEW t \in Tasks, NEW p \in Paths, NEW adds \in BOOLEAN,
         Changed(t, p, adds)
  PROVE  JobsTyped'
  <1> DEFINE own == [job[t] EXCEPT !.stage = "link", !.todo = Tail(@), !.path = p, !.adds = adds,
                                   !.mixed = \E v \in Tasks \ {t} : Editing(v, p)]
             other(u) == [job[u] EXCEPT
                            !.mixed = @ \/ Editing(u, p),
                            !.path = IF job[u].stage \in {"opened", "reading"} /\ @ = p
                                     THEN None ELSE @,
                            !.owed = IF adds THEN @ \ {p} ELSE @]
  <1>1. job' = [u \in Tasks |-> IF u = t THEN own ELSE other(u)]
    BY DEF Changed
  <1>2. /\ own.stage = "link" /\ own.scan = job[t].scan /\ own.owed = job[t].owed
        /\ own.binds = job[t].binds /\ own.path = p
    BY DEF Shapes, IsJob
  <1>3. ASSUME NEW u \in Tasks
        PROVE  /\ other(u).stage = job[u].stage /\ other(u).scan = job[u].scan
               /\ other(u).owed \subseteq job[u].owed /\ other(u).binds = job[u].binds
               /\ \/ other(u).path = job[u].path
                  \/ job[u].stage \in {"opened", "reading"} /\ other(u).path = None
    BY DEF Shapes, IsJob
  <1> HIDE DEF own, other
  <1>4. ASSUME NEW u \in Tasks PROVE JobTyped(job'[u])
    <2>1. JobTyped(job[u]) /\ JobTyped(job[t])
      BY DEF JobsTyped
    <2>2. CASE u = t
      BY <1>1, <1>2, <2>1, <2>2 DEF JobTyped, Stages
    <2>3. CASE u # t
      <3>1. job'[u] = other(u)
        BY <1>1, <2>3
      <3>2. QED
        BY <1>3, <2>1, <3>1 DEF JobTyped
    <2>4. QED
      BY <2>2, <2>3
  <1>5. QED
    BY <1>4 DEF JobsTyped, JobTyped

LEMMA RequestTyped ==
  ASSUME VfsInv, NEW t \in Tasks, Request(t)
  PROVE  JobsTyped' /\ TreeTyped'
  <1>1. \E j : JobTyped(j) /\ Start(t, j)
    <2>1. ASSUME NEW a \in Agents, Mount(t, a) PROVE \E j : JobTyped(j) /\ Start(t, j)
      <3> DEFINE j == [Idle EXCEPT !.stage = "apply", !.todo = MountEntries(a)]
      <3>1. JobTyped(j)
        BY DEF JobTyped, Idle, Stages
      <3>2. QED
        BY <2>1, <3>1 DEF Mount
    <2>2. ASSUME NEW a \in Agents, CreateNamespace(t, a)
          PROVE  \E j : JobTyped(j) /\ Start(t, j)
      <3> DEFINE j == [Idle EXCEPT !.stage = "apply", !.todo = NamespaceEntries(a), !.binds = a]
      <3>1. JobTyped(j)
        BY DEF JobTyped, Idle, Stages
      <3>2. QED
        BY <2>2, <3>1 DEF CreateNamespace
    <2>3. ASSUME NEW a \in Agents, Unregister(t, a) \/ RemoveNamespace(t, a)
          PROVE  \E j : JobTyped(j) /\ Start(t, j)
      <3>1. JobTyped(Unmounting(a))
        BY DEF JobTyped, Unmounting, Idle, Stages, Under, Own
      <3>2. QED
        BY <2>3, <3>1 DEF Unregister, RemoveNamespace
    <2>4. ASSUME NEW path \in Requested, Delete(t, path)
          PROVE  \E j : JobTyped(j) /\ Start(t, j)
      <3> DEFINE j == [Idle EXCEPT !.stage = "apply", !.todo = <<Gone(Normal(path))>>]
      <3>1. JobTyped(j)
        BY DEF JobTyped, Idle, Stages
      <3>2. QED
        BY <2>4, <3>1 DEF Delete
    <2>5. ASSUME NEW path \in Requested, Open(t, path)
          PROVE  \E j : JobTyped(j) /\ Start(t, j)
      <3> DEFINE j == [Idle EXCEPT !.stage = "opened", !.path = Normal(path)]
      <3>1. JobTyped(j)
        BY <2>5 DEF JobTyped, Idle, Stages, Open, IsDir
      <3>2. QED
        BY <2>5, <3>1 DEF Open
    <2>6. QED
      BY <2>1, <2>2, <2>3, <2>4, <2>5 DEF Request
  <1>2. JobsTyped'
    BY <1>1, OwnJobTyped DEF Start, VfsInv, ListsInv
  <1>3. node' = node /\ kids' = kids /\ doubtful' = doubtful
    BY <1>1 DEF Start
  <1>4. bindings' \subseteq bindings
    BY DEF Request, Mount, CreateNamespace, Unregister, RemoveNamespace, Delete, Open
  <1>5. TreeTyped'
    BY <1>3, <1>4 DEF VfsInv, TreeTyped
  <1>6. QED
    BY <1>2, <1>5

\* Steps that change no node and no list.
LEMMA QuietTyped ==
  ASSUME VfsInv, NEW t \in Tasks,
         Visit(t) \/ Bind(t) \/ TryLock(t) \/ Finish(t) \/ ReadList(t) \/ EndRead(t)
  PROVE  JobsTyped' /\ TreeTyped'
  <1> USE DEF VfsInv
  <1>0. Shapes /\ IsJob(job[t]) /\ JobTyped(job[t]) /\ Placed
    BY DEF ListsInv, Shapes, JobsTyped
  <1>1. UNCHANGED <<node, kids>>
    BY DEF Visit, Bind, TryLock, Finish, ReadList, EndRead
  <1>2. bindings' \subseteq Agents
    BY <1>0, VfsAssumption DEF Visit, Bind, TryLock, Finish, ReadList, EndRead, JobTyped, TreeTyped
  <1>3. doubtful' \subseteq Paths
    <2>1. doubtful' \subseteq doubtful \/ TryLock(t)
      BY DEF Visit, Bind, Finish, ReadList, EndRead
    <2>2. CASE TryLock(t)
      <3>1. job[t].path \in Paths /\ doubtful' \subseteq (doubtful \cup {job[t].path})
        BY <1>0, <2>2 DEF TryLock, Placed
      <3>2. QED
        BY <3>1 DEF TreeTyped
    <2>3. QED
      BY <2>1, <2>2 DEF TreeTyped
  <1>4. TreeTyped'
    BY <1>1, <1>2, <1>3 DEF TreeTyped
  <1>5. CASE Visit(t)
    <2>1. CASE job[t].scan = {}
      <3> DEFINE j == [job[t] EXCEPT !.stage = "apply"]
      <3>1. JobTyped(j)
        BY <1>0, <1>5 DEF IsJob, JobTyped, Stages, Visit
      <3>2. job' = [job EXCEPT ![t] = j]
        BY <1>5, <2>1 DEF Visit
      <3>3. QED
        BY <1>0, <1>4, <3>1, <3>2, OwnJobTyped
    <2>2. CASE job[t].scan # {}
      <3>1. PICK p \in job[t].scan :
              job' = [job EXCEPT ![t].scan = @ \ {p},
                                 ![t].todo = IF Present(p) THEN Append(@, Gone(p)) ELSE @]
        BY <1>5, <2>2 DEF Visit
      <3> DEFINE more == IF Present(p) THEN Append(job[t].todo, Gone(p)) ELSE job[t].todo
                 j == [job[t] EXCEPT !.scan = @ \ {p}, !.todo = more]
      <3>2. job' = [job EXCEPT ![t] = j]
        BY <1>0, <3>1 DEF Shapes, IsJob
      <3>3. JobTyped(j)
        BY <1>0 DEF IsJob, JobTyped
      <3>4. QED
        BY <1>0, <1>4, <3>2, <3>3, OwnJobTyped
    <2>3. QED
      BY <2>1, <2>2
  <1>6. CASE Bind(t)
    <2> DEFINE j == [job[t] EXCEPT !.binds = None]
    <2>1. JobTyped(j) /\ job' = [job EXCEPT ![t] = j]
      BY <1>0, <1>6 DEF IsJob, JobTyped, Bind
    <2>2. QED
      BY <1>0, <1>4, <2>1, OwnJobTyped
  <1>7. CASE TryLock(t)
    <2> DEFINE free == [job[t] EXCEPT !.stage = "apply", !.path = None, !.adds = FALSE,
                                      !.mixed = FALSE]
               hold == [job[t] EXCEPT !.stage = "hold"]
    <2>1. job' = [job EXCEPT ![t] = free] \/ job' = [job EXCEPT ![t] = hold]
      BY <1>0, <1>7 DEF TryLock, Unlocked, Shapes
    <2>2. JobTyped(free) /\ JobTyped(hold)
      BY <1>0, <1>7 DEF IsJob, JobTyped, Stages, TryLock
    <2>3. QED
      BY <1>0, <1>4, <2>1, <2>2, OwnJobTyped
  <1>8. CASE Finish(t) \/ EndRead(t)
    <2>1. job' = [job EXCEPT ![t] = Idle]
      BY <1>8 DEF Finish, EndRead
    <2>2. QED
      BY <1>0, <1>4, <2>1, IdleTyped, OwnJobTyped
  <1>9. CASE ReadList(t)
    <2> DEFINE j == [job[t] EXCEPT !.stage = "reading"]
    <2>1. JobTyped(j) /\ job' = [job EXCEPT ![t] = j]
      BY <1>0, <1>9 DEF IsJob, JobTyped, ReadList, Stages
    <2>2. QED
      BY <1>0, <1>4, <2>1, OwnJobTyped
  <1>10. QED
    BY <1>5, <1>6, <1>7, <1>8, <1>9

\* A node that is replaced or removed loses its list.
LEMMA NodeTyped ==
  ASSUME VfsInv, NEW q \in Paths, NEW what \in {"dir", "file", None},
         node' = [node EXCEPT ![q] = what],
         kids' = [kids EXCEPT ![q] = {}],
         doubtful' \subseteq Paths, bindings' = bindings
  PROVE  TreeTyped'
  <1>1. /\ node' \in [Paths -> {"dir", "file", None}]
        /\ node'[q] = what /\ kids'[q] = {}
        /\ \A p \in Paths \ {q} : node'[p] = node[p] /\ kids'[p] = kids[p]
    BY DEF VfsInv, ListsInv, Shapes, TreeTyped
  <1>2. ASSUME NEW p \in Paths
        PROVE  /\ kids'[p] \subseteq {Last(c) : c \in Children(p)}
               /\ node'[p] # "dir" => kids'[p] = {}
    <2>1. CASE p = q
      BY <1>1, <2>1
    <2>2. CASE p # q
      BY <1>1, <2>2 DEF VfsInv, TreeTyped
    <2>3. QED
      BY <2>1, <2>2
  <1>3. QED
    BY <1>1, <1>2 DEF VfsInv, TreeTyped, Children

LEMMA InsertTyped ==
  ASSUME VfsInv, NEW t \in Tasks, InsertNode(t)
  PROVE  JobsTyped' /\ TreeTyped'
  <1> DEFINE q == Head(job[t].todo).path
             what == Head(job[t].todo).do
  <1>1. /\ what \in {"dir", "file"} /\ q \in Paths /\ Changed(t, q, TRUE)
        /\ node' = [node EXCEPT ![q] = what] /\ kids' = [kids EXCEPT ![q] = {}]
        /\ doubtful' = (doubtful \ Children(q)) \cup {c \in Children(q) : Present(c)}
        /\ bindings' = bindings
    BY DEF InsertNode
  <1> HIDE DEF q, what
  <1>2. JobsTyped'
    BY <1>1, ChangedTyped DEF VfsInv, ListsInv
  <1>3. doubtful' \subseteq Paths
    BY <1>1 DEF Children, VfsInv, TreeTyped
  <1>4. QED
    BY <1>1, <1>2, <1>3, NodeTyped

LEMMA RemoveTyped ==
  ASSUME VfsInv, NEW t \in Tasks, RemoveNode(t)
  PROVE  JobsTyped' /\ TreeTyped'
  <1> DEFINE q == Head(job[t].todo).path
  <1>0. Shapes /\ IsJob(job[t]) /\ JobTyped(job[t])
    BY DEF VfsInv, ListsInv, Shapes, JobsTyped
  <1>1. doubtful' = doubtful /\ bindings' = bindings /\ doubtful \subseteq Paths
    BY DEF RemoveNode, VfsInv, TreeTyped
  <1>2. CASE Present(q)
    <2>1. /\ node' = [node EXCEPT ![q] = None] /\ kids' = [kids EXCEPT ![q] = {}]
          /\ Changed(t, q, FALSE) /\ q \in Paths
      BY <1>2 DEF RemoveNode, Present
    <2> HIDE DEF q
    <2>2. JobsTyped'
      BY <2>1, ChangedTyped DEF VfsInv, ListsInv
    <2>3. QED
      BY <1>1, <2>1, <2>2, NodeTyped
  <1>3. CASE ~Present(q)
    <2> DEFINE j == [job[t] EXCEPT !.todo = Tail(@)]
    <2>1. job' = [job EXCEPT ![t] = j] /\ UNCHANGED <<node, kids>>
      BY <1>3 DEF RemoveNode
    <2>2. JobTyped(j)
      BY <1>0 DEF IsJob, JobTyped
    <2>3. JobsTyped'
      BY <1>0, <2>1, <2>2, OwnJobTyped DEF VfsInv
    <2>4. QED
      BY <1>1, <2>1, <2>3 DEF VfsInv, TreeTyped
  <1>4. QED
    BY <1>2, <1>3

LEMMA EditTyped ==
  ASSUME VfsInv, NEW t \in Tasks, EditList(t)
  PROVE  JobsTyped' /\ TreeTyped'
  <1> DEFINE q == job[t].path
             d == Parent(q)
             j == [job[t] EXCEPT !.stage = "apply", !.path = None, !.adds = FALSE, !.mixed = FALSE]
  <1>0. Shapes /\ IsJob(job[t]) /\ JobTyped(job[t]) /\ Placed
    BY DEF VfsInv, ListsInv, Shapes, JobsTyped
  <1>1. q \in Paths /\ d \in Paths /\ node[d] = "dir" /\ q \in Children(d)
    BY <1>0 DEF EditList, Placed, IsDir, Children
  <1>2. /\ node' = node /\ bindings' = bindings
        /\ kids' = [kids EXCEPT ![d] = IF job[t].adds THEN @ \cup {Last(q)} ELSE @ \ {Last(q)}]
        /\ doubtful' \subseteq (doubtful \cup {q})
    BY DEF EditList
  <1>3. JobsTyped'
    <2>1. job' = [job EXCEPT ![t] = j]
      BY <1>0 DEF EditList, Unlocked, Shapes
    <2>2. JobTyped(j)
      BY <1>0 DEF IsJob, JobTyped, Stages
    <2>3. QED
      BY <1>0, <2>1, <2>2, OwnJobTyped DEF VfsInv
  <1>4. /\ kids'[d] \subseteq (kids[d] \cup {Last(q)})
        /\ \A p \in Paths \ {d} : kids'[p] = kids[p]
    BY <1>0, <1>1, <1>2 DEF Shapes
  <1>5. ASSUME NEW p \in Paths
        PROVE  /\ kids'[p] \subseteq {Last(c) : c \in Children(p)}
               /\ node[p] # "dir" => kids'[p] = {}
    <2>1. CASE p = d
      BY <1>1, <1>4, <2>1 DEF VfsInv, TreeTyped
    <2>2. CASE p # d
      BY <1>4, <2>2 DEF VfsInv, TreeTyped
    <2>3. QED
      BY <2>1, <2>2
  <1>6. QED
    BY <1>1, <1>2, <1>3, <1>5 DEF VfsInv, TreeTyped, Children

LEMMA TypesStep == VfsInv /\ [Next]_vars => VfsInv'
  <1> SUFFICES ASSUME VfsInv, [Next]_vars PROVE JobsTyped' /\ TreeTyped'
    BY ListsStep DEF VfsInv
  <1>1. ASSUME NEW t \in Tasks, Operation(t) PROVE JobsTyped' /\ TreeTyped'
    BY <1>1, QuietTyped, InsertTyped, RemoveTyped, EditTyped DEF Operation
  <1>2. ASSUME NEW t \in Tasks, Request(t) PROVE JobsTyped' /\ TreeTyped'
    BY <1>2, RequestTyped
  <1>3. CASE UNCHANGED vars
    BY <1>3 DEF vars, VfsInv, JobsTyped, JobTyped, TreeTyped, Children
  <1>4. QED
    BY <1>1, <1>2, <1>3 DEF Next

\* For any tree and tasks: only a directory has a list of children, and it
\* names paths below it; link_child and unlink_child keep their reference
\* into the map, so that whoever holds the lock of a list holds that of a
\* directory which is still in the map.
THEOREM VfsTyping == Spec => []TypeOK
  <1>1. VfsInv => TypeOK
    BY DEF VfsInv, TreeTyped, JobsTyped, JobTyped, ListsInv, Placed, TypeOK
  <1>2. QED
    BY TypesInit, TypesStep, <1>1, PTL DEF Spec

-----------------------------------------------------------------------------
(* Unmount                                                                 *)

Keys == Seq([do : {"gone"}, path : Paths])

\* What task t has to remove and is still there is yet to be visited by the
\* scan or in the list of keys that the scan collected.
Owes(t) ==
    /\ job[t].owed \subseteq Paths
    /\ job[t].owed # {} =>
          /\ job[t].stage \in {"scan", "apply", "link", "hold"}
          /\ job[t].todo \in Keys
    /\ \A p \in job[t].owed : node[p] # None =>
          \/ job[t].stage = "scan" /\ p \in job[t].scan
          \/ \E i \in 1..Len(job[t].todo) : job[t].todo[i].path = p

UnmountInv == ListsInv /\ \A t \in Tasks : Owes(t)

\* A job whose keys are as before, and that owes less, is as good.
LEMMA SameKeys ==
  ASSUME NEW t \in Tasks, Owes(t),
         job'[t].owed \subseteq job[t].owed,
         job'[t].todo = job[t].todo,
         job[t].stage = "scan" => job'[t].stage = "scan" /\ job'[t].scan = job[t].scan,
         job'[t].stage \in {"scan", "apply", "link", "hold"} \/ job'[t].stage = job[t].stage,
         \A p \in job'[t].owed : node'[p] # None => node[p] # None
  PROVE  Owes(t)'
  BY DEF Owes

\* A job that owes nothing is as good.
LEMMA NothingOwed ==
  ASSUME NEW t \in Tasks, job'[t].owed = {}
  PROVE  Owes(t)'
  BY DEF Owes

\* When the keys lose their first, its node has gone.
LEMMA NextKey ==
  ASSUME NEW t \in Tasks, Owes(t), job[t].stage = "apply", job[t].todo # <<>>,
         job'[t].owed = job[t].owed,
         job'[t].todo = Tail(job[t].todo),
         job'[t].stage \in {"apply", "link"},
         \A p \in job[t].owed : node'[p] # None =>
             node[p] # None /\ p # Head(job[t].todo).path
  PROVE  Owes(t)'
  <1>1. CASE job[t].owed = {}
    BY <1>1, NothingOwed
  <1>2. CASE job[t].owed # {}
    <2> DEFINE todo == job[t].todo
               rest == job'[t].todo
    <2>1. todo \in Keys
      BY <1>2 DEF Owes
    <2>3. /\ rest \in Keys /\ Len(rest) = Len(todo) - 1
          /\ Len(todo) \in Nat \ {0} /\ Head(todo) = todo[1]
          /\ \A i \in 1..Len(rest) : rest[i] = todo[i + 1]
      BY <2>1 DEF Keys
    <2>4. ASSUME NEW p \in job'[t].owed, node'[p] # None
          PROVE  \E i \in 1..Len(rest) : rest[i].path = p
      <3>1. p \in job[t].owed /\ node[p] # None /\ p # todo[1].path
        BY <2>3, <2>4
      <3>2. PICK i \in 1..Len(todo) : todo[i].path = p
        BY <3>1 DEF Owes
      <3>3. i # 1
        BY <3>1, <3>2
      <3>4. i - 1 \in 1..Len(rest) /\ rest[i - 1] = todo[i]
        BY <2>3, <3>2, <3>3
      <3>5. QED
        BY <3>2, <3>4
    <2>5. QED
      BY <2>3, <2>4 DEF Owes
  <1>3. QED
    BY <1>1, <1>2

LEMMA UnmountInit == Init => UnmountInv
  <1> SUFFICES ASSUME Init PROVE \A t \in Tasks : Owes(t)
    BY ListsInit DEF UnmountInv
  <1>1. \A t \in Tasks : job[t].owed = {}
    BY DEF Init, Idle
  <1>2. QED
    BY <1>1 DEF Owes

\* What is in an agent's directory has its base as a prefix.
LEMMA OwnIsUnder ==
  ASSUME NEW a \in Agents
  PROVE  Own(a) \subseteq Under(a)
  <1> SUFFICES ASSUME NEW p \in Own(a) PROVE IsPrefix(Base(a), p)
    BY DEF Own, Under
  <1> DEFINE base == Base(a)
             n == Len(base)
             Part == {"net"} \cup ToSet(Spelled[a])
  <1>1. p \in Seq(Names)
    BY VfsAssumption DEF Own
  <1>2. base \in Seq(Part)
    <2>1. Spelled[a] \in Seq(Part) /\ <<"net">> \in Seq(Part)
      BY VfsAssumption
    <2>2. QED
      BY <2>1 DEF Base
  <1>3. n <= Len(p) /\ \A i \in DOMAIN base : p[i] = base[i]
    BY DEF Own
  <1> HIDE DEF base, Part
  <1>4. /\ SubSeq(base, 1, n) = [i \in 1..n |-> base[i]]
        /\ SubSeq(p, 1, n) = [i \in 1..n |-> p[i]]
        /\ DOMAIN base = 1..n
    BY <1>1, <1>2
  <1>5. SubSeq(base, 1, n) = SubSeq(p, 1, n)
    BY <1>3, <1>4
  <1>6. QED
    BY <1>3, <1>5 DEF IsPrefix, base

LEMMA UnmountRequest ==
  ASSUME UnmountInv, NEW t \in Tasks, Request(t), NEW u \in Tasks
  PROVE  Owes(u)'
  <1> USE DEF UnmountInv, ListsInv
  <1>1. \E j : Start(t, j)
    BY DEF Request, Mount, CreateNamespace, Unregister, RemoveNamespace, Delete, Open
  <1>2. node' = node /\ \A v \in Tasks \ {t} : job'[v] = job[v]
    BY <1>1 DEF Start, Shapes
  <1>3. CASE u # t
    BY <1>2, <1>3, SameKeys
  <1>4. ASSUME NEW a \in Agents, Start(t, Unmounting(a))
        PROVE  Owes(t)'
    <2>1. job'[t] = Unmounting(a)
      BY <1>4 DEF Start, Shapes
    <2>2. /\ job'[t].stage = "scan" /\ job'[t].todo = <<>> /\ job'[t].scan = Under(a)
          /\ job'[t].owed \subseteq Own(a) /\ Own(a) \subseteq Paths
      BY <2>1 DEF Unmounting, Idle, Own
    <2>3. <<>> \in Keys
      BY DEF Keys
    <2>4. \A p \in job'[t].owed : p \in Paths /\ p \in job'[t].scan
      BY <2>2, OwnIsUnder
    <2>5. QED
      BY <2>2, <2>3, <2>4 DEF Owes
  <1>5. ASSUME NEW j, Start(t, j), j.owed = {}
        PROVE  Owes(t)'
    BY <1>5, NothingOwed DEF Start, Shapes
  <1>6. ASSUME NEW a \in Agents, Mount(t, a) \/ CreateNamespace(t, a)
        PROVE  Owes(t)'
    <2>1. /\ [Idle EXCEPT !.stage = "apply", !.todo = MountEntries(a)].owed = {}
          /\ [Idle EXCEPT !.stage = "apply", !.todo = NamespaceEntries(a), !.binds = a].owed = {}
      BY DEF Idle
    <2>2. QED
      BY <1>5, <1>6, <2>1 DEF Mount, CreateNamespace
  <1>7. ASSUME NEW path \in Requested, Delete(t, path) \/ Open(t, path)
        PROVE  Owes(t)'
    <2>1. /\ [Idle EXCEPT !.stage = "apply", !.todo = <<Gone(Normal(path))>>].owed = {}
          /\ [Idle EXCEPT !.stage = "opened", !.path = Normal(path)].owed = {}
      BY DEF Idle
    <2>2. QED
      BY <1>5, <1>7, <2>1 DEF Delete, Open
  <1>8. QED
    BY <1>3, <1>4, <1>6, <1>7 DEF Request, Unregister, RemoveNamespace

\* A change of the node at q leaves to the others what they owe, but for q
\* itself when it is made anew.
LEMMA OthersOwe ==
  ASSUME UnmountInv, NEW t \in Tasks, NEW q \in Paths, NEW adds \in BOOLEAN,
         Changed(t, q, adds),
         \A p \in Paths \ {q} : node'[p] = node[p],
         ~adds => node'[q] = None,
         NEW u \in Tasks \ {t}
  PROVE  Owes(u)'
  <1>1. /\ job'[u].stage = job[u].stage /\ job'[u].todo = job[u].todo
        /\ job'[u].scan = job[u].scan
        /\ job'[u].owed = IF adds THEN job[u].owed \ {q} ELSE job[u].owed
    <2> DEFINE other == [job[u] EXCEPT
                            !.mixed = @ \/ Editing(u, q),
                            !.path = IF job[u].stage \in {"opened", "reading"} /\ @ = q
                                     THEN None ELSE @,
                            !.owed = IF adds THEN @ \ {q} ELSE @]
    <2>1. job'[u] = other
      BY DEF Changed
    <2>2. /\ other.stage = job[u].stage /\ other.todo = job[u].todo
          /\ other.scan = job[u].scan
          /\ other.owed = IF adds THEN job[u].owed \ {q} ELSE job[u].owed
      BY DEF UnmountInv, ListsInv, Shapes, IsJob
    <2>3. QED
      BY <2>1, <2>2
  <1>2. \A p \in job'[u].owed : p \in Paths /\ (node'[p] # None => node[p] # None)
    BY <1>1 DEF UnmountInv, Owes
  <1>3. Owes(u)
    BY DEF UnmountInv
  <1>4. QED
    BY <1>1, <1>2, <1>3, SameKeys

LEMMA UnmountInsert ==
  ASSUME UnmountInv, NEW t \in Tasks, InsertNode(t), NEW u \in Tasks
  PROVE  Owes(u)'
  <1> USE DEF UnmountInv, ListsInv
  <1> DEFINE q == Head(job[t].todo).path
  <1>1. /\ job[t].todo # <<>> /\ Head(job[t].todo).do # "gone"
        /\ q \in Paths /\ Changed(t, q, TRUE)
        /\ node' = [node EXCEPT ![q] = Head(job[t].todo).do]
    BY DEF InsertNode
  <1>2. CASE u = t
    <2>1. job[t].owed = {}
      <3>1. ASSUME job[t].todo \in Keys PROVE FALSE
        <4> DEFINE todo == job[t].todo
                   Key == [do : {"gone"}, path : Paths]
        <4>1. todo \in Seq(Key) /\ todo # <<>>
          BY <1>1, <3>1 DEF Keys
        <4> HIDE DEF todo, Key
        <4>2. Head(todo) \in Key
          BY <4>1
        <4>3. Head(todo).do = "gone"
          BY <4>2 DEF Key
        <4>4. QED
          BY <1>1, <4>3 DEF todo
      <3>2. QED
        BY <3>1 DEF Owes
    <2>2. job'[t].owed = job[t].owed
      <3> DEFINE own == [job[t] EXCEPT !.stage = "link", !.todo = Tail(@), !.path = q,
                            !.adds = TRUE, !.mixed = \E v \in Tasks \ {t} : Editing(v, q)]
      <3>1. job'[t] = own
        BY <1>1 DEF Changed
      <3>2. own.owed = job[t].owed
        BY DEF Shapes, IsJob
      <3>3. QED
        BY <3>1, <3>2
    <2>3. QED
      BY <1>2, <2>1, <2>2, NothingOwed
  <1>3. CASE u # t
    <2>1. \A p \in Paths \ {q} : node'[p] = node[p]
      BY <1>1 DEF Shapes
    <2> HIDE DEF q
    <2>2. QED
      BY <1>1, <1>3, <2>1, OthersOwe
  <1>4. QED
    BY <1>2, <1>3

LEMMA UnmountRemove ==
  ASSUME UnmountInv, NEW t \in Tasks, RemoveNode(t), NEW u \in Tasks
  PROVE  Owes(u)'
  <1> USE DEF UnmountInv, ListsInv
  <1> DEFINE q == Head(job[t].todo).path
  <1>1. job[t].stage = "apply" /\ job[t].todo # <<>>
    BY DEF RemoveNode
  <1>2. CASE Present(q)
    <2>1. q \in Paths /\ Changed(t, q, FALSE) /\ node' = [node EXCEPT ![q] = None]
      BY <1>2 DEF RemoveNode, Present
    <2>2. node'[q] = None /\ \A p \in Paths \ {q} : node'[p] = node[p]
      BY <2>1 DEF Shapes
    <2>3. CASE u = t
      <3> DEFINE own == [job[t] EXCEPT !.stage = "link", !.todo = Tail(@), !.path = q,
                            !.adds = FALSE, !.mixed = \E v \in Tasks \ {t} : Editing(v, q)]
      <3>1. job'[t] = own
        BY <2>1 DEF Changed
      <3>2. own.owed = job[t].owed /\ own.todo = Tail(job[t].todo) /\ own.stage = "link"
        BY DEF Shapes, IsJob
      <3>3. \A p \in job[t].owed : p \in Paths
        BY DEF Owes
      <3> HIDE DEF own
      <3>4. \A p \in job[t].owed : node'[p] # None => node[p] # None /\ p # q
        BY <2>2, <3>3
      <3>5. QED
        BY <1>1, <2>3, <3>1, <3>2, <3>4, NextKey
    <2>4. CASE u # t
      <3> HIDE DEF q
      <3>1. QED
        BY <2>1, <2>2, <2>4, OthersOwe
    <2>5. QED
      BY <2>3, <2>4
  <1>3. CASE ~Present(q)
    <2>1. job' = [job EXCEPT ![t].todo = Tail(@)] /\ node' = node
      BY <1>3 DEF RemoveNode
    <2>2. CASE u = t
      <3> DEFINE own == [job[t] EXCEPT !.todo = Tail(@)]
      <3>1. job'[t] = own
        BY <2>1 DEF Shapes
      <3>2. own.owed = job[t].owed /\ own.todo = Tail(job[t].todo) /\ own.stage = job[t].stage
        BY DEF Shapes, IsJob
      <3>3. \A p \in job[t].owed : node'[p] # None => node[p] # None /\ p # q
        BY <1>3, <2>1 DEF Owes, Present
      <3> HIDE DEF own
      <3>4. QED
        BY <1>1, <2>2, <3>1, <3>2, <3>3, NextKey
    <2>3. CASE u # t
      <3>1. job'[u] = job[u]
        BY <2>1, <2>3 DEF Shapes
      <3>2. QED
        BY <2>1, <3>1, SameKeys
    <2>4. QED
      BY <2>2, <2>3
  <1>4. QED
    BY <1>2, <1>3

LEMMA UnmountVisit ==
  ASSUME UnmountInv, NEW t \in Tasks, Visit(t)
  PROVE  Owes(t)'
  <1> USE DEF UnmountInv, ListsInv
  <1>1. job[t].stage = "scan" /\ node' = node /\ Owes(t)
    BY DEF Visit
  <1>2. CASE job[t].scan = {}
    <2> DEFINE own == [job[t] EXCEPT !.stage = "apply"]
    <2>1. job'[t] = own
      BY <1>2 DEF Visit, Shapes
    <2>2. own.owed = job[t].owed /\ own.todo = job[t].todo /\ own.stage = "apply"
      BY DEF Shapes, IsJob
    <2> HIDE DEF own
    <2>3. QED
      BY <1>1, <1>2, <2>1, <2>2 DEF Owes
  <1>3. CASE job[t].scan # {}
    <2> DEFINE todo == job[t].todo
    <2>1. PICK p \in job[t].scan :
            job' = [job EXCEPT ![t].scan = @ \ {p},
                               ![t].todo = IF Present(p) THEN Append(@, Gone(p)) ELSE @]
      BY <1>3 DEF Visit
    <2> DEFINE more == IF Present(p) THEN Append(todo, Gone(p)) ELSE todo
               own == [job[t] EXCEPT !.scan = @ \ {p}, !.todo = more]
    <2>2. job'[t] = own
      BY <2>1 DEF Shapes, IsJob
    <2>3. /\ own.owed = job[t].owed /\ own.todo = more /\ own.stage = "scan"
          /\ own.scan = job[t].scan \ {p}
      BY <1>1 DEF Shapes, IsJob
    <2> HIDE DEF own
    <2>4. CASE job[t].owed = {}
      BY <2>2, <2>3, <2>4, NothingOwed
    <2>5. CASE job[t].owed # {}
      <3>1. todo \in Keys
        BY <1>1, <2>5 DEF Owes
      <3>2. CASE Present(p)
        <4>1. Gone(p) \in [do : {"gone"}, path : Paths] /\ Gone(p).path = p
          BY <3>2 DEF Gone, Present
        <4>2. /\ more \in Keys /\ Len(more) = Len(todo) + 1 /\ Len(todo) \in Nat
              /\ more[Len(more)] = Gone(p)
              /\ \A i \in 1..Len(todo) : more[i] = todo[i]
          BY <3>1, <3>2, <4>1 DEF Keys
        <4> HIDE DEF more
        <4>3. ASSUME NEW r \in job[t].owed, node[r] # None, r \notin job[t].scan \ {p}
              PROVE  \E i \in 1..Len(more) : more[i].path = r
          <5>1. CASE r = p
            <6>1. Len(more) \in 1..Len(more)
              BY <4>2
            <6>2. QED
              BY <4>1, <4>2, <5>1, <6>1
          <5>2. CASE r # p
            <6>1. PICK i \in 1..Len(todo) : todo[i].path = r
              BY <1>1, <4>3, <5>2 DEF Owes
            <6>2. i \in 1..Len(more) /\ more[i] = todo[i]
              BY <4>2, <6>1
            <6>3. QED
              BY <6>1, <6>2
          <5>3. QED
            BY <5>1, <5>2
        <4>4. QED
          BY <1>1, <2>2, <2>3, <4>2, <4>3 DEF Owes
      <3>3. CASE ~Present(p)
        <4>1. more = todo
          BY <3>3
        <4>2. \A r \in job[t].owed : node[r] # None => r # p
          BY <1>1, <3>3 DEF Owes, Present
        <4> HIDE DEF more
        <4>3. QED
          BY <1>1, <2>2, <2>3, <3>1, <4>1, <4>2 DEF Owes
      <3>4. QED
        BY <3>2, <3>3
    <2>6. QED
      BY <2>4, <2>5
  <1>4. QED
    BY <1>2, <1>3

LEMMA UnmountStep == UnmountInv /\ [Next]_vars => UnmountInv'
  <1> SUFFICES ASSUME UnmountInv, [Next]_vars, NEW u \in Tasks PROVE Owes(u)'
    BY ListsStep DEF UnmountInv
  <1> USE DEF UnmountInv, ListsInv
  <1>1. ASSUME NEW t \in Tasks, Visit(t)
        PROVE  Owes(u)'
    <2>1. CASE u = t
      BY <1>1, <2>1, UnmountVisit
    <2>2. CASE u # t
      <3>1. job'[u] = job[u] /\ node' = node
        BY <1>1, <2>2 DEF Visit, Shapes
      <3>2. QED
        BY <3>1, SameKeys
    <2>3. QED
      BY <2>1, <2>2
  <1>2. ASSUME NEW t \in Tasks, Bind(t)
        PROVE  Owes(u)'
    <2>1. CASE u = t
      <3> DEFINE own == [job[t] EXCEPT !.binds = None]
      <3>1. job'[t] = own /\ node' = node
        BY <1>2 DEF Bind, Shapes
      <3>2. /\ own.owed = job[t].owed /\ own.todo = job[t].todo
            /\ own.stage = job[t].stage /\ own.scan = job[t].scan
        BY DEF Shapes, IsJob
      <3> HIDE DEF own
      <3>3. QED
        BY <2>1, <3>1, <3>2, SameKeys
    <2>2. CASE u # t
      <3>1. job'[u] = job[u] /\ node' = node
        BY <1>2, <2>2 DEF Bind, Shapes
      <3>2. QED
        BY <3>1, SameKeys
    <2>3. QED
      BY <2>1, <2>2
  <1>3. ASSUME NEW t \in Tasks, TryLock(t) \/ EditList(t)
        PROVE  Owes(u)'
    <2>1. node' = node /\ job[t].stage \in {"link", "hold"}
          /\ (job' = Unlocked(t) \/ job' = [job EXCEPT ![t].stage = "hold"])
      BY <1>3 DEF TryLock, EditList
    <2>2. CASE u = t
      <3> DEFINE free == [job[t] EXCEPT !.stage = "apply", !.path = None, !.adds = FALSE,
                                        !.mixed = FALSE]
                 hold == [job[t] EXCEPT !.stage = "hold"]
      <3>1. job'[t] = free \/ job'[t] = hold
        BY <2>1 DEF Unlocked, Shapes
      <3>2. /\ free.owed = job[t].owed /\ free.todo = job[t].todo /\ free.stage = "apply"
            /\ hold.owed = job[t].owed /\ hold.todo = job[t].todo /\ hold.stage = "hold"
        BY DEF Shapes, IsJob
      <3> HIDE DEF free, hold
      <3>3. /\ job'[t].owed = job[t].owed /\ job'[t].todo = job[t].todo
            /\ job'[t].stage \in {"apply", "hold"}
        BY <3>1, <3>2
      <3>4. QED
        BY <2>1, <2>2, <3>3, SameKeys
    <2>3. CASE u # t
      <3>1. job'[u] = job[u]
        BY <2>1, <2>3 DEF Unlocked, Shapes
      <3>2. QED
        BY <2>1, <3>1, SameKeys
    <2>4. QED
      BY <2>2, <2>3
  <1>4. ASSUME NEW t \in Tasks, Finish(t) \/ EndRead(t)
        PROVE  Owes(u)'
    <2>1. node' = node /\ job' = [job EXCEPT ![t] = Idle]
      BY <1>4 DEF Finish, EndRead
    <2>2. CASE u = t
      BY <2>1, <2>2, NothingOwed DEF Shapes, Idle
    <2>3. CASE u # t
      <3>1. job'[u] = job[u]
        BY <2>1, <2>3 DEF Shapes
      <3>2. QED
        BY <2>1, <3>1, SameKeys
    <2>4. QED
      BY <2>2, <2>3
  <1>5. ASSUME NEW t \in Tasks, ReadList(t)
        PROVE  Owes(u)'
    <2>1. node' = node /\ job' = [job EXCEPT ![t].stage = "reading"] /\ job[t].stage = "opened"
      BY <1>5 DEF ReadList
    <2>2. CASE u = t
      <3> DEFINE own == [job[t] EXCEPT !.stage = "reading"]
      <3>1. job'[t] = own
        BY <2>1 DEF Shapes
      <3>2. own.owed = job[t].owed
        BY DEF Shapes, IsJob
      <3>3. job[t].owed = {}
        BY <2>1 DEF Owes
      <3> HIDE DEF own
      <3>4. QED
        BY <2>2, <3>1, <3>2, <3>3, NothingOwed
    <2>3. CASE u # t
      <3>1. job'[u] = job[u]
        BY <2>1, <2>3 DEF Shapes
      <3>2. QED
        BY <2>1, <3>1, SameKeys
    <2>4. QED
      BY <2>2, <2>3
  <1>6. ASSUME NEW t \in Tasks, InsertNode(t) \/ RemoveNode(t)
        PROVE  Owes(u)'
    BY <1>6, UnmountInsert, UnmountRemove
  <1>7. ASSUME NEW t \in Tasks, Request(t)
        PROVE  Owes(u)'
    BY <1>7, UnmountRequest
  <1>8. CASE UNCHANGED vars
    BY <1>8 DEF vars, Owes
  <1>9. QED
    BY <1>1, <1>2, <1>3, <1>4, <1>5, <1>6, <1>7, <1>8 DEF Next, Operation

\* Only Finish takes a task from "apply" to "idle", when it has no key left.
LEMMA ReturnsCleared ==
  ASSUME UnmountInv, [Next]_vars, NEW t \in Tasks,
         job[t].stage = "apply", job'[t].stage = "idle"
  PROVE  \A p \in job[t].owed : node'[p] = None
  <1> USE DEF UnmountInv, ListsInv
  <1>1. ASSUME NEW u \in Tasks, Visit(u) \/ Bind(u) \/ TryLock(u) \/ EditList(u)
                                \/ ReadList(u) \/ EndRead(u) \/ Request(u)
        PROVE  FALSE
    <2>1. CASE u # t
      <3>1. \E j : job' = [job EXCEPT ![u] = j]
        <4>1. CASE Visit(u)
          BY <4>1 DEF Visit, Shapes
        <4>2. CASE Bind(u) \/ ReadList(u) \/ EndRead(u)
          BY <4>2 DEF Bind, ReadList, EndRead
        <4>3. CASE TryLock(u) \/ EditList(u)
          BY <4>3 DEF TryLock, EditList, Unlocked
        <4>4. CASE Request(u)
          BY <4>4 DEF Request, Mount, CreateNamespace, Unregister, RemoveNamespace,
                      Delete, Open, Start
        <4>5. QED
          BY <1>1, <4>1, <4>2, <4>3, <4>4
      <3>2. job'[t] = job[t]
        BY <2>1, <3>1 DEF Shapes
      <3>3. QED
        BY <3>2
    <2>2. CASE u = t
      <3>1. ~(Visit(t) \/ TryLock(t) \/ EditList(t) \/ ReadList(t) \/ EndRead(t))
        BY DEF Visit, TryLock, EditList, ReadList, EndRead
      <3>2. ~Request(t)
        BY DEF Request, Mount, CreateNamespace, Unregister, RemoveNamespace, Delete, Open, Start
      <3>3. ~Bind(t)
        BY DEF Bind, Shapes, IsJob
      <3>4. QED
        BY <1>1, <2>2, <3>1, <3>2, <3>3
    <2>3. QED
      BY <2>1, <2>2
  <1>2. ASSUME NEW u \in Tasks, NEW q \in Paths, NEW adds \in BOOLEAN, Changed(u, q, adds)
        PROVE  FALSE
    BY <1>2, ChangedJobs
  <1>3. ASSUME NEW u \in Tasks, InsertNode(u) PROVE FALSE
    BY <1>2, <1>3 DEF InsertNode
  <1>4. ASSUME NEW u \in Tasks, RemoveNode(u) PROVE FALSE
    <2>1. CASE Present(Head(job[u].todo).path)
      BY <1>2, <1>4, <2>1 DEF RemoveNode, Present
    <2>2. CASE ~Present(Head(job[u].todo).path)
      <3>1. job' = [job EXCEPT ![u].todo = Tail(@)]
        BY <1>4, <2>2 DEF RemoveNode
      <3>2. job'[t].stage = job[t].stage
        BY <3>1 DEF Shapes, IsJob
      <3>3. QED
        BY <3>2
    <2>3. QED
      BY <2>1, <2>2
  <1>5. ~(UNCHANGED vars)
    BY DEF vars
  <1>6. PICK u \in Tasks : Finish(u)
    BY <1>1, <1>3, <1>4, <1>5 DEF Next, Operation
  <1>7. u = t
    BY <1>6 DEF Finish, Shapes
  <1>8. job[t].todo = <<>> /\ node' = node
    BY <1>6, <1>7 DEF Finish
  <1>9. \A p \in job[t].owed : node[p] = None
    BY <1>8 DEF Owes
  <1>10. QED
    BY <1>8, <1>9

\* unmount_agent_ns collects the keys while others change the map and removes
\* them one by one; when it returns for an agent whose id makes a path in
\* normal form, no node that was at or below its directory is left, unless
\* someone made it anew in the meantime. (Its prefix is not normalised as the
\* paths of mount are: of any other id nothing is claimed.)
THEOREM UnmountIsComplete == Spec => UnmountClears
  <1>1. UnmountInv /\ [Next]_vars =>
          [\A t \in Tasks : job[t].stage = "apply" /\ job'[t].stage = "idle"
              => \A p \in job[t].owed : node'[p] = None]_vars
    BY ReturnsCleared
  <1>2. QED
    BY UnmountInit, UnmountStep, <1>1, PTL DEF Spec, UnmountClears
=============================================================================
