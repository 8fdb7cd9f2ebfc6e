------------------------- MODULE MessageQueueProofs -------------------------
(***************************************************************************)
(* Proofs about MessageQueue for any number of agents, channels and        *)
(* messages, in this order:                                                *)
(*                                                                         *)
(*   induction   over the naturals, as a lemma about sets                  *)
(*   retain      the recursive function returns the messages that are not  *)
(*               too old, in their order (RetainKeeps, by induction)       *)
(*   types       QueueTyping                                               *)
(*   the guard   drain_to works on a reference into the map; GuardInv says *)
(*               that it is never left dangling: while a drain sends, its  *)
(*               entry is in the map and nobody else has it                *)
(*   order       every step but enqueue only takes messages away           *)
(*               (OnlyRemains); OrderIsKept                                *)
(*   the pass    what a pass of the prune task found too old when it began *)
(*               is too old wherever it finds it (PassIInv); NothingLost   *)
(***************************************************************************)
EXTENDS MessageQueue, Integers, FiniteSetTheorems, TLAPS

-----------------------------------------------------------------------------
(* Induction over the naturals, as a fact about sets.                      *)

\* A set that contains 0 and the successor of each of its members contains
\* every natural number. Otherwise x is missing, and subtracting 1 maps the
\* members of 0..x that are missing injectively into those other than x.
LEMMA SetInduction ==
  ASSUME NEW S, 0 \in S, \A n \in Nat : n \in S => n + 1 \in S
  PROVE  Nat \subseteq S
  <1> SUFFICES ASSUME NEW x \in Nat, x \notin S PROVE FALSE
    OBVIOUS
  <1> DEFINE Bad == {n \in 0..x : n \notin S}
             Down == [n \in Bad |-> n - 1]
  <1>1. IsFiniteSet(Bad)
    <2>1. IsFiniteSet(0..x)
      BY FS_Interval
    <2>2. Bad \in SUBSET (0..x)
      OBVIOUS
    <2> HIDE DEF Bad
    <2>3. QED
      BY <2>1, <2>2, FS_Subset
  <1>2. x \in Bad
    OBVIOUS
  <1>3. \A n \in Bad : n \in 0..x /\ n - 1 \in Bad \ {x}
    OBVIOUS
  <1>4. /\ IsFiniteSet(Bad \ {x})
        /\ Cardinality(Bad) \in Nat
        /\ Cardinality(Bad \ {x}) = Cardinality(Bad) - 1
    <2> HIDE DEF Bad
    <2>1. QED
      BY <1>1, <1>2, FS_RemoveElement, FS_CardinalityType
  <1>5. Down \in [Bad -> Bad \ {x}]
    BY <1>3
  <1> HIDE DEF Bad
  <1>6. \A m, n \in Bad : Down[m] = Down[n] => m = n
    BY <1>3
  <1> HIDE DEF Down
  <1>7. \E m, n \in Bad : m # n /\ Down[m] = Down[n]
    BY <1>1, <1>4, <1>5, FS_PigeonHole
  <1>8. QED
    BY <1>6, <1>7

-----------------------------------------------------------------------------
(* What retain returns.                                                    *)

\* One turn of the recursion, as a function of what it returned before.
KeptTurn(q, gone, kept, i) ==
    IF i = 0 THEN <<>>
    ELSE IF q[i].msg \in gone THEN kept[i - 1]
    ELSE Append(kept[i - 1], q[i])

\* The recursion of Retain defines a function.
LEMMA KeptExists ==
  ASSUME NEW q, NEW gone
  PROVE  \A n \in Nat : \E kept : kept = [i \in 0..n |-> KeptTurn(q, gone, kept, i)]
  <1> DEFINE Good == {n \in Nat : \E kept :
                         kept = [i \in 0..n |-> KeptTurn(q, gone, kept, i)]}
  <1>1. 0 \in Good
    <2> DEFINE k == [i \in 0..0 |-> <<>>]
    <2>1. k = [i \in 0..0 |-> KeptTurn(q, gone, k, i)]
      BY DEF KeptTurn
    <2>2. QED
      BY <2>1
  <1>2. ASSUME NEW n \in Nat, n \in Good PROVE n + 1 \in Good
    <2>1. PICK k : k = [i \in 0..n |-> KeptTurn(q, gone, k, i)]
      BY <1>2
    <2> DEFINE h == [i \in 0..(n + 1) |->
                       IF i <= n THEN k[i] ELSE KeptTurn(q, gone, k, i)]
    <2>2. \A i \in 0..(n + 1) : h[i] = KeptTurn(q, gone, h, i)
      <3> SUFFICES ASSUME NEW i \in 0..(n + 1) PROVE h[i] = KeptTurn(q, gone, h, i)
        OBVIOUS
      <3>1. i # 0 => i - 1 \in 0..n
        OBVIOUS
      <3>2. \A j \in 0..n : h[j] = k[j]
        OBVIOUS
      <3>3. i # 0 => h[i - 1] = k[i - 1]
        BY <3>1, <3>2
      <3>4. KeptTurn(q, gone, h, i) = KeptTurn(q, gone, k, i)
        BY <3>3 DEF KeptTurn
      <3>5. h[i] = KeptTurn(q, gone, k, i)
        BY <2>1
      <3>6. QED
        BY <3>4, <3>5
    <2>3. h = [i \in 0..(n + 1) |-> h[i]]
      OBVIOUS
    <2> HIDE DEF h
    <2>4. h = [i \in 0..(n + 1) |-> KeptTurn(q, gone, h, i)]
      BY <2>2, <2>3
    <2>5. QED
      BY <2>4
  <1> HIDE DEF Good
  <1>3. Nat \subseteq Good
    BY <1>1, <1>2, SetInduction
  <1>4. QED
    BY <1>3 DEF Good

\* e lists, in their order, the positions of q up to n that retain keeps in r.
Keeps(e, r, q, n, gone) ==
    /\ r \in Seq({q[i] : i \in 1..n})
    /\ e \in [1..Len(r) -> 1..n]
    /\ \A k \in 1..Len(r) : r[k] = q[e[k]]
    /\ \A k, l \in 1..Len(r) : k < l => e[k] < e[l]
    /\ \A i \in 1..n : q[i].msg \notin gone <=> \E k \in 1..Len(r) : e[k] = i

\* One turn keeps the message of that turn or not, and all those before it.
LEMMA KeepsTurn ==
  ASSUME NEW q, NEW gone, NEW n \in Nat, NEW e, NEW r, Keeps(e, r, q, n, gone),
         NEW s, s = IF q[n + 1].msg \in gone THEN r ELSE Append(r, q[n + 1])
  PROVE  \E d : Keeps(d, s, q, n + 1, gone)
  <1> DEFINE T(m) == {q[i] : i \in 1..m}
  <1>1. T(n) \subseteq T(n + 1) /\ q[n + 1] \in T(n + 1)
    OBVIOUS
  <1>2. r \in Seq(T(n)) /\ Len(r) \in Nat
    BY DEF Keeps
  <1> HIDE DEF T
  <1>3. r \in Seq(T(n + 1))
    BY <1>1, <1>2
  <1>4. CASE q[n + 1].msg \in gone
    <2> DEFINE L == Len(r)
    <2>1. /\ e \in [1..L -> 1..n]
          /\ \A k \in 1..L : r[k] = q[e[k]]
          /\ \A k, l \in 1..L : k < l => e[k] < e[l]
          /\ \A i \in 1..n : q[i].msg \notin gone <=> \E k \in 1..L : e[k] = i
      BY DEF Keeps
    <2> HIDE DEF L
    <2>2. e \in [1..L -> 1..(n + 1)] /\ \A k \in 1..L : e[k] # n + 1
      BY <2>1
    <2>3. \A i \in 1..(n + 1) : q[i].msg \notin gone <=> \E k \in 1..L : e[k] = i
      <3> SUFFICES ASSUME NEW i \in 1..(n + 1)
                   PROVE  q[i].msg \notin gone <=> \E k \in 1..L : e[k] = i
        OBVIOUS
      <3>1. CASE i = n + 1
        BY <1>4, <2>2, <3>1
      <3>2. CASE i # n + 1
        <4>1. i \in 1..n
          BY <3>2
        <4>2. QED
          BY <2>1, <4>1
      <3>3. QED
        BY <3>1, <3>2
    <2>4. Keeps(e, r, q, n + 1, gone)
      BY <1>3, <2>1, <2>2, <2>3 DEF Keeps, T, L
    <2>5. QED
      BY <1>4, <2>4
  <1>5. CASE q[n + 1].msg \notin gone
    <2> DEFINE L == Len(r)
               d == [k \in 1..(L + 1) |-> IF k = L + 1 THEN n + 1 ELSE e[k]]
    <2>1. s = Append(r, q[n + 1])
      BY <1>5
    <2>2. /\ s \in Seq(T(n + 1))
          /\ Len(s) = L + 1
          /\ s[L + 1] = q[n + 1]
          /\ \A k \in 1..L : s[k] = r[k]
      <3> DEFINE x == q[n + 1]
                 U == T(n + 1)
      <3>1. x \in U /\ r \in Seq(U)
        BY <1>1, <1>3
      <3>2. s = Append(r, x)
        BY <2>1
      <3> HIDE DEF x, U
      <3>3. s \in Seq(U) /\ Len(s) = L + 1 /\ s[L + 1] = x /\ \A k \in 1..L : s[k] = r[k]
        BY <3>1, <3>2
      <3>4. QED
        BY <3>3 DEF x, U
    <2>3. /\ e \in [1..L -> 1..n]
          /\ \A k \in 1..L : r[k] = q[e[k]]
          /\ \A k, l \in 1..L : k < l => e[k] < e[l]
          /\ \A i \in 1..n : q[i].msg \notin gone <=> \E k \in 1..L : e[k] = i
      BY DEF Keeps
    <2>4. L \in Nat
      BY <1>2
    <2>5. /\ d[L + 1] = n + 1
          /\ \A k \in 1..L : d[k] = e[k] /\ d[k] \in 1..n
          /\ d \in [1..(L + 1) -> 1..(n + 1)]
      BY <2>3, <2>4, SMTT(30)
    <2> HIDE DEF d, L
    <2>6. \A k \in 1..(L + 1) : s[k] = q[d[k]]
      BY <2>2, <2>3, <2>4, <2>5
    <2>7. \A k, l \in 1..(L + 1) : k < l => d[k] < d[l]
      <3> SUFFICES ASSUME NEW k \in 1..(L + 1), NEW l \in 1..(L + 1), k < l
                   PROVE  d[k] < d[l]
        OBVIOUS
      <3>1. k \in 1..L /\ d[k] \in 1..n /\ d[k] = e[k]
        BY <2>4, <2>5
      <3>2. CASE l = L + 1
        BY <2>5, <3>1, <3>2
      <3>3. CASE l # L + 1
        <4>1. l \in 1..L /\ d[l] = e[l]
          BY <2>4, <2>5, <3>3
        <4>2. QED
          BY <2>3, <3>1, <4>1
      <3>4. QED
        BY <3>2, <3>3
    <2>8. \A i \in 1..(n + 1) : q[i].msg \notin gone <=> \E k \in 1..(L + 1) : d[k] = i
      <3> SUFFICES ASSUME NEW i \in 1..(n + 1)
                   PROVE  q[i].msg \notin gone <=> \E k \in 1..(L + 1) : d[k] = i
        OBVIOUS
      <3>1. CASE i = n + 1
        BY <1>5, <2>4, <2>5, <3>1
      <3>2. CASE i # n + 1
        <4>1. i \in 1..n
          BY <3>2
        <4>2. (\E k \in 1..L : e[k] = i) <=> \E k \in 1..(L + 1) : d[k] = i
          BY <2>4, <2>5, <3>2
        <4>3. QED
          BY <2>3, <4>1, <4>2
      <3>3. QED
        BY <3>1, <3>2
    <2>9. Keeps(d, s, q, n + 1, gone)
      BY <2>2, <2>5, <2>6, <2>7, <2>8 DEF Keeps, T
    <2>10. QED
      BY <2>9
  <1>6. QED
    BY <1>4, <1>5

\* retain returns the messages of q that are not in gone, in their order.
LEMMA RetainKeeps ==
  ASSUME NEW T, NEW q \in Seq(T), NEW gone
  PROVE  \E e : Keeps(e, Retain(q, gone), q, Len(q), gone)
  <1> DEFINE N == Len(q)
             Kept == CHOOSE kept : kept = [i \in 0..N |-> KeptTurn(q, gone, kept, i)]
  <1>1. N \in Nat
    OBVIOUS
  <1>2. Retain(q, gone) = Kept[N]
    BY DEF Retain, KeptTurn
  <1>3. Kept = [i \in 0..N |-> KeptTurn(q, gone, Kept, i)]
    BY <1>1, KeptExists
  <1> HIDE DEF N, Kept
  <1>4. \A i \in 0..N : Kept[i] = KeptTurn(q, gone, Kept, i)
    BY <1>3
  <1> DEFINE Good == {n \in Nat : n <= N => \E e : Keeps(e, Kept[n], q, n, gone)}
  <1>5. 0 \in Good
    <2>1. Kept[0] = <<>>
      BY <1>1, <1>4 DEF KeptTurn
    <2> DEFINE e == [k \in 1..0 |-> k]
    <2>2. Keeps(e, <<>>, q, 0, gone)
      BY DEF Keeps
    <2>3. QED
      BY <2>1, <2>2
  <1>6. ASSUME NEW n \in Nat, n \in Good PROVE n + 1 \in Good
    <2> SUFFICES ASSUME n + 1 <= N PROVE \E e : Keeps(e, Kept[n + 1], q, n + 1, gone)
      OBVIOUS
    <2>1. PICK e : Keeps(e, Kept[n], q, n, gone)
      BY <1>1, <1>6
    <2>2. Kept[n + 1] = IF q[n + 1].msg \in gone THEN Kept[n] ELSE Append(Kept[n], q[n + 1])
      <3>1. n + 1 \in 0..N /\ n + 1 # 0 /\ (n + 1) - 1 = n
        BY <1>1
      <3>2. QED
        BY <1>4, <3>1 DEF KeptTurn
    <2>3. QED
      BY <2>1, <2>2, KeepsTurn
  <1> HIDE DEF Good
  <1>7. N \in Good
    BY <1>1, <1>5, <1>6, SetInduction
  <1>8. QED
    BY <1>1, <1>2, <1>7 DEF Good, N

\* The type of what retain returns.
LEMMA RetainType ==
  ASSUME NEW T, NEW q \in Seq(T), NEW gone
  PROVE  Retain(q, gone) \in Seq(T)
  <1> DEFINE U == {q[i] : i \in 1..Len(q)}
  <1>1. Retain(q, gone) \in Seq(U)
    BY RetainKeeps DEF Keeps
  <1>2. U \subseteq T
    OBVIOUS
  <1> HIDE DEF U
  <1>3. QED
    BY <1>1, <1>2

-----------------------------------------------------------------------------
(* Types.                                                                  *)

\* A queued message is a record with these two fields.
LEMMA QueuedMessageFields ==
    /\ \A x \in QueuedMessage : x.msg \in Messages /\ x.age \in 0..MaxAge
    /\ \A m \in Messages : [msg |-> m, age |-> 0] \in QueuedMessage
    /\ \A x \in QueuedMessage : \A t \in 0..MaxAge :
          /\ [x EXCEPT !.age = t] \in QueuedMessage
          /\ [x EXCEPT !.age = t].msg = x.msg
          /\ [x EXCEPT !.age = t].age = t
  BY QueueAssumption DEF QueuedMessage

\* Older: what time does to one queued message.
Older(x) == [x EXCEPT !.age = IF @ < MaxAge THEN @ + 1 ELSE MaxAge]

LEMMA OlderType ==
  ASSUME NEW x \in QueuedMessage
  PROVE  Older(x) \in QueuedMessage /\ Older(x).msg = x.msg /\ x.age <= Older(x).age
  <1> DEFINE t == IF x.age < MaxAge THEN x.age + 1 ELSE MaxAge
  <1>1. x.age \in 0..MaxAge
    BY QueuedMessageFields
  <1>2. t \in 0..MaxAge /\ x.age <= t
    BY <1>1, QueueAssumption
  <1>3. Older(x) = [x EXCEPT !.age = t]
    BY DEF Older
  <1> HIDE DEF t
  <1>4. QED
    BY <1>2, <1>3, QueuedMessageFields

\* A tick makes every message of every queue older, in its place.
LEMMA AgeQueuesEffect ==
  ASSUME QueueTypeOK, AgeQueues, NEW a \in Agents
  PROVE  /\ queues'[a] \in Seq(QueuedMessage)
         /\ DOMAIN queues'[a] = DOMAIN queues[a]
         /\ \A i \in DOMAIN queues[a] : queues'[a][i] = Older(queues[a][i])
  <1> DEFINE q == queues[a]
             S == QueuedMessage
  <1>1. q \in Seq(S)
    BY DEF QueueTypeOK
  <1>2. queues'[a] = [i \in DOMAIN q |-> Older(q[i])]
    BY DEF AgeQueues, Older
  <1>3. \A x \in S : Older(x) \in S
    BY OlderType
  <1> HIDE DEF q, S
  <1>4. [i \in DOMAIN q |-> Older(q[i])] \in Seq(S)
    BY <1>1, <1>3
  <1>5. QED
    BY <1>2, <1>4 DEF q, S

LEMMA QueueTypeInit == QueueInit => QueueTypeOK
  BY QueueAssumption
     DEF QueueInit, QueueTypeOK, IdlePruner, DrainPhases, PrunePhases

\* What the steps that leave the prune task alone do to the types.
LEMMA QueueTypeFrame ==
  ASSUME QueueTypeOK, UNCHANGED pruner,
         queues' \in [Agents -> Seq(QueuedMessage)], keys' \in SUBSET Agents,
         guard' \in [Agents -> Channels \cup {NoOne}],
         drain' \in [Channels -> DrainPhases]
  PROVE  QueueTypeOK'
  BY DEF QueueTypeOK

LEMMA QueueTypeEnqueue ==
  ASSUME QueueTypeOK, NEW a \in Agents, NEW m \in Messages, Enqueue(a, m)
  PROVE  QueueTypeOK'
  <1> DEFINE S == QueuedMessage
             x == [msg |-> m, age |-> 0]
  <1>1. x \in S /\ queues \in [Agents -> Seq(S)]
    BY QueuedMessageFields DEF QueueTypeOK
  <1>2. queues' = [queues EXCEPT ![a] = Append(@, x)]
    BY DEF Enqueue
  <1> HIDE DEF S, x
  <1>3. queues' \in [Agents -> Seq(S)]
    BY <1>1, <1>2
  <1>4. QED
    BY <1>3, QueueTypeFrame DEF Enqueue, QueueTypeOK, S

LEMMA QueueTypeDrain ==
  ASSUME QueueTypeOK, NEW c \in Channels, DrainLookup(c) \/ DrainStep(c)
  PROVE  QueueTypeOK'
  <1> DEFINE a == AgentOf[c]
             S == QueuedMessage
  <1>1. a \in Agents /\ DrainPhases = {"idle", "sending", "remove_if"}
    BY QueueAssumption DEF DrainPhases
  <1>2. CASE DrainLookup(c)
    BY <1>1, <1>2, QueueTypeFrame, SMTT(30) DEF DrainLookup, QueueTypeOK
  <1>3. ASSUME NEW ok \in BOOLEAN, DrainSend(c, ok) PROVE QueueTypeOK'
    <2>1. CASE ok
      <3>1. queues \in [Agents -> Seq(S)] /\ queues[a] # <<>>
        BY <1>3 DEF DrainSend, QueueTypeOK
      <3>2. queues' = [queues EXCEPT ![a] = Tail(@)]
        BY <1>3, <2>1 DEF DrainSend
      <3> HIDE DEF S
      <3>3. queues' \in [Agents -> Seq(S)]
        BY <1>1, <3>1, <3>2
      <3>4. QED
        BY <1>3, <2>1, <3>3, QueueTypeFrame DEF DrainSend, QueueTypeOK, S
    <2>2. CASE ~ok
      BY <1>1, <1>3, <2>2, QueueTypeFrame DEF DrainSend, QueueTypeOK
    <2>3. QED
      BY <2>1, <2>2
  <1>4. CASE DrainRelease(c)
    BY <1>1, <1>4, QueueTypeFrame DEF DrainRelease, QueueTypeOK
  <1>5. CASE DrainRemoveIf(c)
    BY <1>1, <1>5, QueueTypeFrame DEF DrainRemoveIf, QueueTypeOK
  <1>6. QED
    BY <1>2, <1>3, <1>4, <1>5 DEF DrainStep

\* The states of the prune task.
LEMMA PrunerType ==
  ASSUME QueueTypeOK
  PROVE  /\ pruner = [f \in {"phase", "todo", "empty", "expired"} |-> pruner[f]]
         /\ pruner.phase \in PrunePhases
         /\ pruner.todo \subseteq Agents
         /\ pruner.empty \subseteq Agents
         /\ pruner.expired \subseteq Messages
  BY DEF QueueTypeOK

LEMMA QueueTypePruner ==
  ASSUME QueueTypeOK, PrunerStep
  PROVE  QueueTypeOK'
  <1> DEFINE P == [phase : PrunePhases, todo : SUBSET Agents,
                   empty : SUBSET Agents, expired : SUBSET Messages]
             S == QueuedMessage
  <1> SUFFICES /\ queues' \in [Agents -> Seq(S)]
               /\ keys' \in SUBSET Agents
               /\ pruner' \in P
               /\ UNCHANGED <<guard, drain>>
    BY DEF QueueTypeOK
  <1>1. /\ queues \in [Agents -> Seq(S)]
        /\ keys \in SUBSET Agents
        /\ pruner \in P
    BY DEF QueueTypeOK
  <1>2. CASE PruneStart
    <2>1. UNION {Expired(a) : a \in Agents} \subseteq Messages
      <3>1. \A a \in Agents : \A i \in DOMAIN queues[a] : queues[a][i] \in S
        BY <1>1
      <3>2. \A a \in Agents : Expired(a) \subseteq Messages
        BY <3>1, QueuedMessageFields DEF Expired
      <3>3. QED
        BY <3>2
    <2>2. QED
      BY <1>1, <1>2, <2>1 DEF PruneStart, Pruning, PrunePhases
  <1>3. ASSUME NEW a \in Agents, PruneRetain(a)
        PROVE  /\ queues' \in [Agents -> Seq(S)]
               /\ keys' \in SUBSET Agents
               /\ pruner' \in P
               /\ UNCHANGED <<guard, drain>>
    <2>1. Retained(queues[a]) \in Seq(S)
      BY <1>1, RetainType DEF Retained
    <2>2. /\ queues' = IF a \in keys THEN [queues EXCEPT ![a] = Retained(@)] ELSE queues
          /\ Visited(a, Pruning("collect", {}, {}))
          /\ UNCHANGED <<keys, guard, drain>>
      BY <1>3 DEF PruneRetain
    <2>3. pruner' \in P
      BY <1>1, <2>2 DEF Visited, Pruning, PrunePhases
    <2> HIDE DEF S, P
    <2>4. queues' \in [Agents -> Seq(S)]
      BY <1>1, <2>1, <2>2
    <2>5. QED
      BY <1>1, <2>2, <2>3, <2>4
  <1>4. ASSUME NEW a \in Agents, PruneCollect(a)
        PROVE  /\ pruner' \in P
               /\ UNCHANGED <<queues, keys, guard, drain>>
    BY <1>1, <1>4 DEF PruneCollect, Pruning, IdlePruner, PrunePhases
  <1>5. ASSUME NEW a \in Agents, PruneRemove(a)
        PROVE  /\ queues' \in [Agents -> Seq(S)]
               /\ keys' \in SUBSET Agents
               /\ pruner' \in P
               /\ UNCHANGED <<guard, drain>>
    <2>1. pruner' \in P
      BY <1>1, <1>5 DEF PruneRemove, IdlePruner, PrunePhases
    <2> HIDE DEF S, P
    <2>2. queues' \in [Agents -> Seq(S)]
      BY <1>1, <1>5 DEF PruneRemove
    <2>3. QED
      BY <1>1, <1>5, <2>1, <2>2 DEF PruneRemove
  <1>6. QED
    BY <1>1, <1>2, <1>3, <1>4, <1>5 DEF PrunerStep, PruneStart

LEMMA QueueTypeTick ==
  ASSUME QueueTypeOK, QueueTick
  PROVE  QueueTypeOK'
  <1>1. queues' = [a \in Agents |-> queues'[a]]
    BY DEF QueueTick, AgeQueues
  <1>2. \A a \in Agents : queues'[a] \in Seq(QueuedMessage)
    BY AgeQueuesEffect DEF QueueTick
  <1>3. queues' \in [Agents -> Seq(QueuedMessage)]
    BY <1>1, <1>2
  <1>4. QED
    BY <1>3, QueueTypeFrame DEF QueueTick, QueueTypeOK

LEMMA QueueTypeStep == QueueTypeOK /\ [QueueNext]_queueVars => QueueTypeOK'
  <1> SUFFICES ASSUME QueueTypeOK, [QueueNext]_queueVars PROVE QueueTypeOK'
    OBVIOUS
  <1>1. CASE UNCHANGED queueVars
    BY <1>1 DEF queueVars, QueueTypeOK
  <1>2. QED
    BY <1>1, QueueTypeEnqueue, QueueTypeDrain, QueueTypePruner, QueueTypeTick
       DEF QueueNext

\* The types of src/queue.rs are kept: in particular a retain returns a
\* queue of messages, whatever the queue and whatever is too old.
THEOREM QueueTyping == QueueSpec => []QueueTypeOK
  BY QueueTypeInit, QueueTypeStep, PTL DEF QueueSpec

-----------------------------------------------------------------------------
(* The guard of an entry.                                                  *)

QueueShape ==
    /\ queues = [a \in Agents |-> queues[a]]
    /\ keys \in SUBSET Agents
    /\ guard \in [Agents -> Channels \cup {NoOne}]
    /\ drain \in [Channels -> DrainPhases]

GuardIInv == QueueShape /\ GuardInv

LEMMA GuardInit == QueueInit => GuardIInv
  BY QueueAssumption DEF QueueInit, GuardIInv, QueueShape, GuardInv, DrainPhases

\* An operation that neither takes nor releases an entry, and that leaves
\* the entries in use in the map and the absent ones empty.
LEMMA GuardUntouched ==
    ASSUME GuardIInv,
           UNCHANGED <<guard, drain>>,
           queues' = [a \in Agents |-> queues'[a]],
           keys' \in SUBSET Agents,
           \A a \in Agents : guard[a] # NoOne => a \in keys',
           \A a \in Agents : a \notin keys' => queues'[a] = <<>>
    PROVE  GuardIInv'
  BY DEF GuardIInv, QueueShape, GuardInv

\* A drain step takes or releases the entry of its own agent.
LEMMA GuardDrainStep ==
    ASSUME GuardIInv, NEW c \in Channels, DrainLookup(c) \/ DrainStep(c)
    PROVE  GuardIInv'
  <1> DEFINE a == AgentOf[c]
  <1>1. a \in Agents /\ c # NoOne
    BY QueueAssumption
  <1>2. CASE DrainLookup(c)
    BY <1>1, <1>2, QueueAssumption
       DEF DrainLookup, GuardIInv, QueueShape, GuardInv, DrainPhases
  <1>3. ASSUME NEW ok \in BOOLEAN, DrainSend(c, ok) PROVE GuardIInv'
    <2>1. CASE ok
      <3>1. UNCHANGED <<guard, drain, keys>> /\ queues' = [queues EXCEPT ![a] = Tail(@)]
        BY <1>3, <2>1 DEF DrainSend
      <3>2. a \in keys
        BY <1>1, <1>3 DEF DrainSend, GuardIInv, GuardInv
      <3>3. QED
        BY <1>1, <3>1, <3>2, GuardUntouched DEF GuardIInv, QueueShape, GuardInv
    <2>2. CASE ~ok
      <3>1. /\ UNCHANGED <<queues, keys>>
            /\ guard' = [guard EXCEPT ![a] = NoOne]
            /\ drain' = [drain EXCEPT ![c] = "idle"]
        BY <1>3, <2>2 DEF DrainSend
      <3>2. guard[a] = c
        BY <1>1, <1>3 DEF DrainSend, GuardIInv, GuardInv
      <3>3. QueueShape'
        BY <1>1, <3>1 DEF GuardIInv, QueueShape, DrainPhases
      <3>4. \A d \in Channels : (drain[d] = "sending")' <=> (guard[AgentOf[d]] = d)'
        BY <1>1, <3>1, <3>2, QueueAssumption DEF GuardIInv, QueueShape, GuardInv
      <3>5. QED
        BY <1>1, <3>1, <3>3, <3>4 DEF GuardIInv, QueueShape, GuardInv
    <2>3. QED
      BY <2>1, <2>2
  <1>4. CASE DrainRelease(c)
    BY <1>1, <1>4, QueueAssumption
       DEF DrainRelease, GuardIInv, QueueShape, GuardInv, DrainPhases
  <1>5. CASE DrainRemoveIf(c)
    BY <1>1, <1>5, QueueAssumption
       DEF DrainRemoveIf, GuardIInv, QueueShape, GuardInv, DrainPhases
  <1>6. QED
    BY <1>2, <1>3, <1>4, <1>5 DEF DrainStep

\* A removal or an insertion waits for the entry.
LEMMA GuardPrunerStep ==
    ASSUME GuardIInv, PrunerStep
    PROVE  GuardIInv'
  <1>1. CASE PruneStart
    BY <1>1, GuardUntouched DEF PruneStart, GuardIInv, QueueShape, GuardInv
  <1>2. ASSUME NEW a \in Agents, PruneRetain(a) PROVE GuardIInv'
    BY <1>2, GuardUntouched DEF PruneRetain, GuardIInv, QueueShape, GuardInv
  <1>3. ASSUME NEW a \in Agents, PruneCollect(a) PROVE GuardIInv'
    BY <1>3, GuardUntouched DEF PruneCollect, GuardIInv, QueueShape, GuardInv
  <1>4. ASSUME NEW a \in Agents, PruneRemove(a) PROVE GuardIInv'
    BY <1>4, GuardUntouched DEF PruneRemove, GuardIInv, QueueShape, GuardInv
  <1>5. QED
    BY <1>1, <1>2, <1>3, <1>4 DEF PrunerStep

\* Every step preserves the invariant.
LEMMA GuardStep == GuardIInv /\ [QueueNext]_queueVars => GuardIInv'
  <1> SUFFICES ASSUME GuardIInv, [QueueNext]_queueVars PROVE GuardIInv'
    OBVIOUS
  <1>1. ASSUME NEW a \in Agents, NEW m \in Messages, Enqueue(a, m) PROVE GuardIInv'
    BY <1>1, GuardUntouched DEF Enqueue, GuardIInv, QueueShape, GuardInv
  <1>2. CASE QueueTick
    <2>1. queues' = [a \in Agents |-> queues'[a]] /\ UNCHANGED <<keys, guard, drain>>
      BY <1>2 DEF QueueTick, AgeQueues
    <2>2. \A a \in Agents : queues[a] = <<>> => queues'[a] = <<>>
      BY <1>2 DEF QueueTick, AgeQueues
    <2>3. QED
      BY <2>1, <2>2, GuardUntouched DEF GuardIInv, QueueShape, GuardInv
  <1>3. CASE UNCHANGED queueVars
    BY <1>3 DEF queueVars, GuardIInv, QueueShape, GuardInv
  <1>4. QED
    BY <1>1, <1>2, <1>3, GuardDrainStep, GuardPrunerStep DEF QueueNext

\* For any number of agents, connections and messages: the entry a drain
\* works on stays in the map and is its own until the drain releases it.
THEOREM GuardSafety == QueueSpec => []GuardInv
  <1>1. GuardIInv => GuardInv
    BY DEF GuardIInv
  <1>2. QED
    BY <1>1, GuardInit, GuardStep, PTL DEF QueueSpec

-----------------------------------------------------------------------------
(* What the steps other than enqueue do to a queue.                        *)

\* r is what is left of q: its messages are messages of q, in the order of
\* q, and none has become younger.
Remains(r, q) ==
    \E e \in [DOMAIN r -> DOMAIN q] :
        /\ \A k, l \in DOMAIN r : k < l => e[k] < e[l]
        /\ \A k \in DOMAIN r : r[k].msg = q[e[k]].msg /\ q[e[k]].age <= r[k].age

LEMMA RemainsSame ==
  ASSUME NEW q \in Seq(QueuedMessage), NEW r \in Seq(QueuedMessage), DOMAIN r = DOMAIN q,
         \A i \in DOMAIN q : r[i].msg = q[i].msg /\ q[i].age <= r[i].age
  PROVE  Remains(r, q)
  <1> DEFINE D == DOMAIN q
             e == [i \in D |-> i]
  <1>1. e \in [D -> D] /\ \A i \in D : e[i] = i
    OBVIOUS
  <1> HIDE DEF e
  <1>2. QED
    BY <1>1 DEF Remains

LEMMA RemainsUnchanged ==
  ASSUME NEW q \in Seq(QueuedMessage)
  PROVE  Remains(q, q)
  <1>1. \A i \in DOMAIN q : q[i] \in QueuedMessage
    OBVIOUS
  <1>2. \A i \in DOMAIN q : q[i].age <= q[i].age
    BY <1>1, QueuedMessageFields, QueueAssumption
  <1>3. QED
    BY <1>2, RemainsSame

LEMMA RemainsTail ==
  ASSUME NEW q \in Seq(QueuedMessage), q # <<>>
  PROVE  Remains(Tail(q), q)
  <1> DEFINE r == Tail(q)
             e == [k \in DOMAIN r |-> k + 1]
             S == QueuedMessage
  <1>1. /\ \A k \in DOMAIN r : k + 1 \in DOMAIN q /\ r[k] = q[k + 1]
        /\ DOMAIN r \subseteq Nat
        /\ \A k \in DOMAIN q : q[k] \in S
    <2>1. q \in Seq(S) /\ r = Tail(q)
      OBVIOUS
    <2> HIDE DEF r, S
    <2>2. /\ DOMAIN q = 1..Len(q) /\ Len(q) \in Nat \ {0}
          /\ DOMAIN r = 1..(Len(q) - 1)
          /\ \A k \in 1..(Len(q) - 1) : r[k] = q[k + 1]
      BY <2>1
    <2>3. QED
      BY <2>1, <2>2
  <1>2. \A x \in S : x.age <= x.age
    BY QueuedMessageFields, QueueAssumption
  <1> HIDE DEF r, S
  <1>3. /\ e \in [DOMAIN r -> DOMAIN q]
        /\ \A k, l \in DOMAIN r : k < l => e[k] < e[l]
        /\ \A k \in DOMAIN r : e[k] = k + 1
    BY <1>1
  <1> HIDE DEF e
  <1>4. \A k \in DOMAIN r : r[k].msg = q[e[k]].msg /\ q[e[k]].age <= r[k].age
    BY <1>1, <1>2, <1>3
  <1>5. Remains(r, q)
    BY <1>3, <1>4 DEF Remains
  <1>6. QED
    BY <1>5 DEF r

LEMMA RemainsRetain ==
  ASSUME NEW q \in Seq(QueuedMessage), NEW gone
  PROVE  Remains(Retain(q, gone), q)
  <1> DEFINE r == Retain(q, gone)
             S == QueuedMessage
  <1>1. PICK e : Keeps(e, r, q, Len(q), gone)
    BY RetainKeeps
  <1>2. r \in Seq(S)
    BY RetainType
  <1>3. /\ DOMAIN r = 1..Len(r) /\ DOMAIN q = 1..Len(q)
        /\ \A i \in DOMAIN q : q[i] \in S
    <2>1. q \in Seq(S)
      OBVIOUS
    <2> HIDE DEF r, S
    <2>2. QED
      BY <1>2, <2>1
  <1>4. \A x \in S : x.age <= x.age
    BY QueuedMessageFields, QueueAssumption
  <1> HIDE DEF r, S
  <1>5. /\ e \in [DOMAIN r -> DOMAIN q]
        /\ \A k, l \in DOMAIN r : k < l => e[k] < e[l]
        /\ \A k \in DOMAIN r : r[k] = q[e[k]]
    BY <1>1, <1>3 DEF Keeps
  <1>6. \A k \in DOMAIN r : r[k].msg = q[e[k]].msg /\ q[e[k]].age <= r[k].age
    BY <1>3, <1>4, <1>5
  <1>7. Remains(r, q)
    BY <1>5, <1>6 DEF Remains
  <1>8. QED
    BY <1>7 DEF r

LEMMA RemainsEmpty ==
  ASSUME NEW q
  PROVE  Remains(<<>>, q)
  <1> DEFINE e == [k \in {} |-> k]
  <1>1. e \in [DOMAIN <<>> -> DOMAIN q] /\ DOMAIN <<>> = {}
    OBVIOUS
  <1>2. QED
    BY <1>1 DEF Remains

\* Whatever drains, prunes or ages a queue only takes messages away.
OnlyRemains == \A a \in Agents : Remains(queues'[a], queues[a])

LEMMA OnlyRemainsOne ==
  ASSUME QueueTypeOK, NEW a \in Agents, NEW r, Remains(r, queues[a]),
         queues' = [queues EXCEPT ![a] = r]
  PROVE  OnlyRemains
  <1>1. queues'[a] = r /\ \A b \in Agents \ {a} : queues'[b] = queues[b]
    BY DEF QueueTypeOK
  <1>2. \A b \in Agents : queues[b] \in Seq(QueuedMessage)
    BY DEF QueueTypeOK
  <1>3. QED
    BY <1>1, <1>2, RemainsUnchanged DEF OnlyRemains

LEMMA OnlyRemainsUnchanged ==
  ASSUME QueueTypeOK, UNCHANGED queues
  PROVE  OnlyRemains
  <1>1. \A b \in Agents : queues[b] \in Seq(QueuedMessage)
    BY DEF QueueTypeOK
  <1>2. QED
    BY <1>1, RemainsUnchanged DEF OnlyRemains

LEMMA RemainsDrain ==
  ASSUME QueueTypeOK, NEW c \in Channels, DrainLookup(c) \/ DrainStep(c)
  PROVE  OnlyRemains
  <1>1. ASSUME NEW ok \in BOOLEAN, DrainSend(c, ok), ok PROVE OnlyRemains
    <2> DEFINE a == AgentOf[c]
    <2>1. a \in Agents /\ queues[a] \in Seq(QueuedMessage) /\ queues[a] # <<>>
      BY <1>1, QueueAssumption DEF DrainSend, QueueTypeOK
    <2>2. Remains(Tail(queues[a]), queues[a])
      BY <2>1, RemainsTail
    <2>3. queues' = [queues EXCEPT ![a] = Tail(queues[a])]
      BY <1>1 DEF DrainSend
    <2>4. QED
      BY <2>1, <2>2, <2>3, OnlyRemainsOne
  <1>2. ASSUME NEW ok \in BOOLEAN, DrainSend(c, ok), ~ok PROVE OnlyRemains
    BY <1>2, OnlyRemainsUnchanged DEF DrainSend
  <1>3. CASE DrainLookup(c) \/ DrainRelease(c) \/ DrainRemoveIf(c)
    BY <1>3, OnlyRemainsUnchanged DEF DrainLookup, DrainRelease, DrainRemoveIf
  <1>4. QED
    BY <1>1, <1>2, <1>3 DEF DrainStep

LEMMA RemainsPruner ==
  ASSUME QueueTypeOK, PrunerStep
  PROVE  OnlyRemains
  <1>1. CASE PruneStart
    BY <1>1, OnlyRemainsUnchanged DEF PruneStart
  <1>2. ASSUME NEW a \in Agents, PruneRetain(a) PROVE OnlyRemains
    <2>1. queues[a] \in Seq(QueuedMessage)
      BY DEF QueueTypeOK
    <2>2. CASE a \in keys
      <3>1. queues' = [queues EXCEPT ![a] = Retain(queues[a], pruner.expired)]
        BY <1>2, <2>2 DEF PruneRetain, Retained
      <3>2. QED
        BY <2>1, <3>1, RemainsRetain, OnlyRemainsOne
    <2>3. CASE a \notin keys
      BY <1>2, <2>3, OnlyRemainsUnchanged DEF PruneRetain
    <2>4. QED
      BY <2>2, <2>3
  <1>3. ASSUME NEW a \in Agents, PruneCollect(a) PROVE OnlyRemains
    BY <1>3, OnlyRemainsUnchanged DEF PruneCollect
  <1>4. ASSUME NEW a \in Agents, PruneRemove(a) PROVE OnlyRemains
    BY <1>4, RemainsEmpty, OnlyRemainsOne DEF PruneRemove
  <1>5. QED
    BY <1>1, <1>2, <1>3, <1>4 DEF PrunerStep

LEMMA RemainsTick ==
  ASSUME QueueTypeOK, QueueTick
  PROVE  OnlyRemains
  <1> SUFFICES ASSUME NEW a \in Agents PROVE Remains(queues'[a], queues[a])
    BY DEF OnlyRemains
  <1>1. /\ queues[a] \in Seq(QueuedMessage)
        /\ queues'[a] \in Seq(QueuedMessage)
        /\ DOMAIN queues'[a] = DOMAIN queues[a]
        /\ \A i \in DOMAIN queues[a] : queues'[a][i] = Older(queues[a][i])
    BY AgeQueuesEffect DEF QueueTypeOK, QueueTick
  <1>2. \A i \in DOMAIN queues[a] : queues[a][i] \in QueuedMessage
    BY <1>1
  <1>3. QED
    BY <1>1, <1>2, OlderType, RemainsSame

-----------------------------------------------------------------------------
(* Order.                                                                  *)

\* KeepsOrder, for one queue.
OrderKept(a) ==
    \A m, n \in Queued(a)' :
        Before(queues[a]', m, n) => n \notin Queued(a) \/ Before(queues[a], m, n)

\* What is left of a queue is in the order of the queue.
LEMMA RemainsInOrder ==
  ASSUME NEW a \in Agents, Remains(queues'[a], queues[a])
  PROVE  OrderKept(a)
  <1> DEFINE q == queues[a]
             r == queues'[a]
  <1> SUFFICES ASSUME NEW m, NEW n, Before(r, m, n) PROVE Before(q, m, n)
    BY DEF OrderKept, Before
  <1>1. PICK i, j \in DOMAIN r : i < j /\ r[i].msg = m /\ r[j].msg = n
    BY DEF Before
  <1>2. PICK e \in [DOMAIN r -> DOMAIN q] :
          /\ \A k, l \in DOMAIN r : k < l => e[k] < e[l]
          /\ \A k \in DOMAIN r : r[k].msg = q[e[k]].msg
    BY DEF Remains
  <1> HIDE DEF q, r
  <1>3. e[i] \in DOMAIN q /\ e[j] \in DOMAIN q /\ e[i] < e[j]
    BY <1>1, <1>2
  <1>4. QED
    BY <1>1, <1>2, <1>3 DEF Before

\* A new message goes behind all that are there.
LEMMA EnqueueInOrder ==
  ASSUME QueueTypeOK, NEW b \in Agents, NEW x \in Messages, x \notin Queued(b),
         Enqueue(b, x), NEW a \in Agents
  PROVE  OrderKept(a)
  <1> SUFFICES ASSUME NEW m, NEW n, Before(queues'[a], m, n),
                      ~Before(queues[a], m, n)
               PROVE  n \notin Queued(a)
    BY DEF OrderKept
  <1> DEFINE q == queues[a]
             y == [msg |-> x, age |-> 0]
             S == QueuedMessage
  <1>1. q \in Seq(S) /\ y \in S
    BY QueuedMessageFields DEF QueueTypeOK
  <1>2. a # b => queues'[a] = q
    BY DEF Enqueue, QueueTypeOK
  <1>3. a = b => queues'[a] = Append(q, y)
    BY DEF Enqueue, QueueTypeOK
  <1>4. a = b
    BY <1>2
  <1>5. y.msg = x /\ ~Before(q, m, n)
    OBVIOUS
  <1> HIDE DEF q, y, S
  <1>6. PICK i, j \in DOMAIN Append(q, y) :
          i < j /\ Append(q, y)[i].msg = m /\ Append(q, y)[j].msg = n
    <2>1. Before(Append(q, y), m, n)
      BY <1>3, <1>4
    <2>2. QED
      BY <2>1 DEF Before
  <1>7. /\ DOMAIN Append(q, y) = 1..(Len(q) + 1) /\ DOMAIN q = 1..Len(q)
        /\ Len(q) \in Nat
        /\ Append(q, y)[Len(q) + 1] = y
        /\ \A k \in DOMAIN q : Append(q, y)[k] = q[k]
    BY <1>1
  <1>8. j = Len(q) + 1
    <2> SUFFICES ASSUME j # Len(q) + 1 PROVE FALSE
      OBVIOUS
    <2>1. i \in DOMAIN q /\ j \in DOMAIN q
      BY <1>6, <1>7
    <2>2. QED
      BY <1>5, <1>6, <1>7, <2>1 DEF Before
  <1>9. n = x
    BY <1>5, <1>6, <1>7, <1>8
  <1>10. QED
    BY <1>4, <1>9

\* Nothing a drain, a failed send, a prune pass or the passing of time does
\* makes two messages of a queue change places.
THEOREM OrderIsKept == QueueSpec => KeepsOrder
  <1>1. QueueTypeOK /\ [QueueNext]_queueVars =>
          [\A a \in Agents : \A m, n \in Queued(a)' :
             Before(queues[a]', m, n) =>
                \/ n \notin Queued(a)
                \/ Before(queues[a], m, n)]_queueVars
    <2> SUFFICES ASSUME QueueTypeOK, QueueNext, NEW a \in Agents
                 PROVE  OrderKept(a)
      BY DEF OrderKept
    <2>1. ASSUME NEW b \in Agents, NEW x \in Messages, Unused(x), Enqueue(b, x)
          PROVE  OrderKept(a)
      BY <2>1, EnqueueInOrder DEF Unused
    <2>2. CASE OnlyRemains
      BY <2>2, RemainsInOrder DEF OnlyRemains
    <2>3. QED
      BY <2>1, <2>2, RemainsDrain, RemainsPruner, RemainsTick DEF QueueNext
  <1>2. QED
    BY <1>1, QueueTyping, PTL DEF QueueSpec, KeepsOrder

-----------------------------------------------------------------------------
(* What a pass of the prune task takes away.                               *)

\* A message is in one place of one queue.
OnePlace ==
    \A a, b \in Agents : \A i \in DOMAIN queues[a], j \in DOMAIN queues[b] :
        queues[a][i].msg = queues[b][j].msg => a = b /\ i = j

\* During the retain pass, what was found too old when the pass began is too
\* old in whichever queue it is.
ExpiredAreOld ==
    pruner.phase = "retain" =>
        \A a \in Agents : \A i \in DOMAIN queues[a] :
            queues[a][i].msg \in pruner.expired => queues[a][i].age >= MaxAge

PassIInv == QueueTypeOK /\ OnePlace /\ ExpiredAreOld

LEMMA PassInit == QueueInit => PassIInv
  BY QueueTypeInit DEF QueueInit, PassIInv, OnePlace, ExpiredAreOld, IdlePruner

LEMMA RemainsOnePlace ==
  ASSUME QueueTypeOK, QueueTypeOK', OnePlace, OnlyRemains
  PROVE  OnePlace'
  <1> SUFFICES ASSUME NEW a \in Agents, NEW b \in Agents,
                      NEW i \in DOMAIN queues'[a], NEW j \in DOMAIN queues'[b],
                      queues'[a][i].msg = queues'[b][j].msg
               PROVE  a = b /\ i = j
    BY DEF OnePlace
  <1>1. PICK e \in [DOMAIN queues'[a] -> DOMAIN queues[a]] :
          /\ \A k, l \in DOMAIN queues'[a] : k < l => e[k] < e[l]
          /\ \A k \in DOMAIN queues'[a] : queues'[a][k].msg = queues[a][e[k]].msg
    BY DEF OnlyRemains, Remains
  <1>2. PICK d \in [DOMAIN queues'[b] -> DOMAIN queues[b]] :
          \A k \in DOMAIN queues'[b] : queues'[b][k].msg = queues[b][d[k]].msg
    BY DEF OnlyRemains, Remains
  <1>3. a = b
    BY <1>1, <1>2 DEF OnePlace
  <1>4. j \in DOMAIN queues'[a] /\ e[i] = e[j]
    BY <1>1, <1>3 DEF OnePlace
  <1>5. DOMAIN queues[a] \subseteq Nat /\ DOMAIN queues'[a] \subseteq Nat
    BY DEF QueueTypeOK
  <1>6. ~(i < j) /\ ~(j < i)
    BY <1>1, <1>4, <1>5
  <1>7. QED
    BY <1>3, <1>4, <1>5, <1>6

LEMMA RemainsExpired ==
  ASSUME QueueTypeOK, QueueTypeOK', ExpiredAreOld, OnlyRemains,
         pruner'.phase = "retain" =>
            pruner.phase = "retain" /\ pruner'.expired = pruner.expired
  PROVE  ExpiredAreOld'
  <1> SUFFICES ASSUME pruner'.phase = "retain", NEW a \in Agents,
                      NEW i \in DOMAIN queues'[a],
                      queues'[a][i].msg \in pruner'.expired
               PROVE  queues'[a][i].age >= MaxAge
    BY DEF ExpiredAreOld
  <1>1. PICK e \in [DOMAIN queues'[a] -> DOMAIN queues[a]] :
          \A k \in DOMAIN queues'[a] : /\ queues'[a][k].msg = queues[a][e[k]].msg
                                       /\ queues[a][e[k]].age <= queues'[a][k].age
    BY DEF OnlyRemains, Remains
  <1> DEFINE x == queues[a][e[i]]
             y == queues'[a][i]
  <1>2. x \in QueuedMessage /\ y \in QueuedMessage
    BY <1>1 DEF QueueTypeOK
  <1>3. x.age >= MaxAge /\ x.age <= y.age
    BY <1>1 DEF ExpiredAreOld
  <1>4. x.age \in Nat /\ y.age \in Nat /\ MaxAge \in Nat
    BY <1>2, QueuedMessageFields, QueueAssumption
  <1> HIDE DEF x, y
  <1>5. y.age >= MaxAge
    BY <1>3, <1>4
  <1>6. QED
    BY <1>5 DEF y

\* Where the messages are after an enqueue.
LEMMA EnqueueEffect ==
  ASSUME QueueTypeOK, NEW a \in Agents, NEW m \in Messages, Enqueue(a, m)
  PROVE  \A b \in Agents : \A i \in DOMAIN queues'[b] :
           \/ /\ i \in DOMAIN queues[b]
              /\ queues'[b][i] = queues[b][i]
           \/ /\ b = a /\ i = Len(queues[a]) + 1
              /\ queues'[b][i].msg = m
  <1> DEFINE x == [msg |-> m, age |-> 0]
             S == QueuedMessage
  <1>1. /\ queues' = [queues EXCEPT ![a] = Append(@, x)]
        /\ queues \in [Agents -> Seq(S)]
        /\ x.msg = m /\ x \in S
    BY QueuedMessageFields DEF Enqueue, QueueTypeOK
  <1> HIDE DEF x, S
  <1>2. QED
    BY <1>1

\* A message that is in no queue is enqueued: at one place.
LEMMA EnqueueOnePlace ==
  ASSUME QueueTypeOK, OnePlace, NEW a \in Agents, NEW m \in Messages,
         \A b \in Agents : m \notin Queued(b), Enqueue(a, m)
  PROVE  OnePlace'
  <1> SUFFICES ASSUME NEW b \in Agents, NEW d \in Agents,
                      NEW i \in DOMAIN queues'[b], NEW j \in DOMAIN queues'[d],
                      queues'[b][i].msg = queues'[d][j].msg
               PROVE  b = d /\ i = j
    BY DEF OnePlace
  <1>1. \A c \in Agents : \A k \in DOMAIN queues[c] : queues[c][k].msg # m
    BY DEF Queued
  <1>2. CASE queues'[b][i].msg = m
    <2> DEFINE New(c, k) == c = a /\ k = Len(queues[a]) + 1
    <2>1. \A c \in Agents : \A k \in DOMAIN queues'[c] :
             queues'[c][k].msg = m => New(c, k)
      <3> HIDE DEF New
      <3>1. \A c \in Agents : \A k \in DOMAIN queues'[c] :
               \/ k \in DOMAIN queues[c] /\ queues'[c][k] = queues[c][k]
               \/ New(c, k)
        BY EnqueueEffect DEF New
      <3>2. QED
        BY <1>1, <3>1
    <2>2. New(b, i) /\ New(d, j)
      BY <1>2, <2>1
    <2>3. QED
      BY <2>2
  <1>3. CASE queues'[b][i].msg # m
    <2>1. i \in DOMAIN queues[b] /\ queues'[b][i] = queues[b][i]
      BY <1>3, EnqueueEffect
    <2>2. j \in DOMAIN queues[d] /\ queues'[d][j] = queues[d][j]
      BY <1>3, EnqueueEffect
    <2>3. QED
      BY <2>1, <2>2 DEF OnePlace
  <1>4. QED
    BY <1>2, <1>3

\* A message nobody refers to is enqueued: not expired either.
LEMMA PassEnqueue ==
  ASSUME PassIInv, NEW a \in Agents, NEW m \in Messages, Unused(m), Enqueue(a, m)
  PROVE  PassIInv'
  <1>1. QueueTypeOK /\ QueueTypeOK' /\ OnePlace' /\ UNCHANGED pruner
    BY QueueTypeEnqueue, EnqueueOnePlace DEF PassIInv, Unused, Enqueue
  <1>2. ExpiredAreOld'
    <2> SUFFICES ASSUME pruner.phase = "retain", NEW b \in Agents,
                        NEW i \in DOMAIN queues'[b],
                        queues'[b][i].msg \in pruner.expired
                 PROVE  queues'[b][i].age >= MaxAge
      BY <1>1 DEF ExpiredAreOld
    <2>1. queues'[b][i].msg # m
      BY DEF Unused
    <2>2. QED
      BY <1>1, <2>1, EnqueueEffect DEF PassIInv, ExpiredAreOld
  <1>3. QED
    BY <1>1, <1>2 DEF PassIInv

\* The pass begins: a message found too old is in no other place, younger.
LEMMA PassStart ==
  ASSUME PassIInv, PruneStart
  PROVE  ExpiredAreOld'
  <1> SUFFICES ASSUME NEW a \in Agents, NEW i \in DOMAIN queues[a],
                      queues[a][i].msg \in pruner'.expired
               PROVE  queues[a][i].age >= MaxAge
    BY DEF ExpiredAreOld, PruneStart
  <1>1. PICK b \in Agents : queues[a][i].msg \in Expired(b)
    BY DEF PruneStart, Pruning
  <1>2. PICK j \in DOMAIN queues[b] :
          queues[b][j].age >= MaxAge /\ queues[b][j].msg = queues[a][i].msg
    BY <1>1 DEF Expired
  <1>3. QED
    BY <1>2 DEF PassIInv, OnePlace

LEMMA PassPruner ==
  ASSUME PassIInv, PrunerStep
  PROVE  PassIInv'
  <1>1. QueueTypeOK /\ QueueTypeOK' /\ OnlyRemains /\ OnePlace'
    BY QueueTypePruner, RemainsPruner, RemainsOnePlace DEF PassIInv
  <1>2. ASSUME NEW a \in Agents, PruneRetain(a) PROVE ExpiredAreOld'
    <2>1. pruner'.phase = "retain" =>
             pruner.phase = "retain" /\ pruner'.expired = pruner.expired
      BY <1>1, <1>2, PrunerType DEF PruneRetain, Visited, Pruning
    <2>2. QED
      BY <1>1, <2>1, RemainsExpired DEF PassIInv
  <1>3. ASSUME NEW a \in Agents, PruneCollect(a) \/ PruneRemove(a) PROVE ExpiredAreOld'
    <2>1. PruneCollect(a) => pruner'.phase # "retain"
      BY <1>1, PrunerType DEF PruneCollect, Pruning, IdlePruner
    <2>2. PruneRemove(a) => pruner'.phase # "retain"
      BY <1>1, PrunerType DEF PruneRemove, IdlePruner
    <2>3. QED
      BY <1>3, <2>1, <2>2 DEF ExpiredAreOld
  <1>4. QED
    BY <1>1, <1>2, <1>3, PassStart DEF PassIInv, PrunerStep

LEMMA PassStep == PassIInv /\ [QueueNext]_queueVars => PassIInv'
  <1> SUFFICES ASSUME PassIInv, [QueueNext]_queueVars PROVE PassIInv'
    OBVIOUS
  <1>1. CASE UNCHANGED queueVars
    BY <1>1 DEF queueVars, PassIInv, QueueTypeOK, OnePlace, ExpiredAreOld
  <1>2. CASE QueueTypeOK' /\ OnlyRemains /\ UNCHANGED pruner
    BY <1>2, RemainsOnePlace, RemainsExpired DEF PassIInv
  <1>3. ASSUME NEW c \in Channels, DrainLookup(c) \/ DrainStep(c) PROVE PassIInv'
    <2>1. UNCHANGED pruner
      BY <1>3 DEF DrainLookup, DrainStep, DrainSend, DrainRelease, DrainRemoveIf
    <2>2. QED
      BY <1>2, <1>3, <2>1, QueueTypeDrain, RemainsDrain DEF PassIInv
  <1>4. CASE QueueTick
    BY <1>2, <1>4, QueueTypeTick, RemainsTick DEF PassIInv, QueueTick
  <1>5. QED
    BY <1>1, <1>3, <1>4, PassEnqueue, PassPruner DEF QueueNext

LEMMA StayingLeavesInOrder ==
  ASSUME NEW a \in Agents,
         \A i \in DOMAIN queues[a] :
            \E j \in DOMAIN queues'[a] : queues'[a][j].msg = queues[a][i].msg
  PROVE  LeavesInOrder(a)
  BY DEF LeavesInOrder, Queued

\* A drain takes the first message of the entry it keeps.
LEMMA DrainLeavesInOrder ==
  ASSUME QueueTypeOK, GuardInv, NEW c \in Channels, DrainLookup(c) \/ DrainStep(c),
         NEW b \in Agents
  PROVE  LeavesInOrder(b)
  <1>1. CASE UNCHANGED queues
    BY <1>1, StayingLeavesInOrder
  <1>2. ASSUME NEW ok \in BOOLEAN, DrainSend(c, ok), ok PROVE LeavesInOrder(b)
    <2> DEFINE a == AgentOf[c]
               q == queues[a]
    <2>1. /\ a \in Agents /\ q \in Seq(QueuedMessage) /\ q # <<>>
          /\ queues'[a] = Tail(q)
          /\ \A d \in Agents \ {a} : queues'[d] = queues[d]
      BY <1>2, QueueAssumption DEF DrainSend, QueueTypeOK
    <2>2. guard[a] # NoOne
      BY <1>2, QueueAssumption DEF DrainSend, GuardInv
    <2>3. CASE b # a
      BY <2>1, <2>3, StayingLeavesInOrder
    <2>4. CASE b = a
      <3>1. \A i \in DOMAIN q :
              q[i] = Head(q) \/ \E j \in DOMAIN Tail(q) : Tail(q)[j] = q[i]
        <4> SUFFICES ASSUME NEW i \in DOMAIN q, i # 1
                     PROVE  \E j \in DOMAIN Tail(q) : Tail(q)[j] = q[i]
          BY <2>1
        <4>1. i - 1 \in DOMAIN Tail(q) /\ Tail(q)[i - 1] = q[i]
          BY <2>1
        <4>2. QED
          BY <4>1
      <3>2. ASSUME NEW m \in Queued(b) \ Queued(b)' PROVE m = Head(q).msg
        <4>1. PICK i \in DOMAIN q : q[i].msg = m
          BY <2>4 DEF Queued
        <4>2. \A j \in DOMAIN Tail(q) : Tail(q)[j].msg # m
          BY <2>1, <2>4, <3>2 DEF Queued
        <4>3. QED
          BY <3>1, <4>1, <4>2
      <3>3. QED
        BY <2>1, <2>2, <2>4, <3>2 DEF LeavesInOrder
    <2>5. QED
      BY <2>3, <2>4
  <1>3. QED
    BY <1>1, <1>2 DEF DrainLookup, DrainStep, DrainSend, DrainRelease, DrainRemoveIf

\* A retain takes what is too old, and what it takes was too old when the
\* pass began.
LEMMA RetainLeavesInOrder ==
  ASSUME PassIInv, NEW a \in Agents, PruneRetain(a), NEW b \in Agents
  PROVE  LeavesInOrder(b)
  <1>1. queues \in [Agents -> Seq(QueuedMessage)]
    BY DEF PassIInv, QueueTypeOK
  <1>2. CASE queues'[b] = queues[b]
    BY <1>2, StayingLeavesInOrder
  <1>3. CASE queues'[b] # queues[b]
    <2> DEFINE q == queues[a]
               r == Retain(q, pruner.expired)
    <2>1. b = a /\ queues'[a] = r /\ pruner.phase = "retain"
      BY <1>1, <1>3 DEF PruneRetain, Retained
    <2>2. PICK e : Keeps(e, r, q, Len(q), pruner.expired)
      BY <1>1, RetainKeeps
    <2>3. r \in Seq(QueuedMessage) /\ q \in Seq(QueuedMessage)
      BY <1>1, RetainType
    <2> HIDE DEF q, r
    <2>4. DOMAIN r = 1..Len(r) /\ DOMAIN q = 1..Len(q)
      BY <2>3
    <2>5. \A i \in DOMAIN q : q[i].msg \in pruner.expired \/ \E k \in DOMAIN r : r[k] = q[i]
      <3> SUFFICES ASSUME NEW i \in DOMAIN q, q[i].msg \notin pruner.expired
                   PROVE  \E k \in DOMAIN r : r[k] = q[i]
        OBVIOUS
      <3>1. PICK k \in 1..Len(r) : e[k] = i
        BY <2>2, <2>4 DEF Keeps
      <3>2. r[k] = q[i]
        BY <2>2, <3>1 DEF Keeps
      <3>3. QED
        BY <2>4, <3>2
    <2>6. \A i \in DOMAIN q : q[i].msg \in pruner.expired => q[i].age >= MaxAge
      BY <2>1 DEF PassIInv, ExpiredAreOld, q
    <2>7. QED
      BY <2>1, <2>5, <2>6 DEF LeavesInOrder, Queued, Expired, q
  <1>4. QED
    BY <1>2, <1>3

\* drain_to and retain lose nothing: whatever the calls that overlap with
\* them enqueue, take or prune, a message that leaves a queue is the first of
\* an entry that a drain keeps, or has reached max_age_secs.
THEOREM NothingLost == QueueSpec => DrainAndRetainLoseNothing
  <1>1. PassIInv /\ GuardIInv /\ [QueueNext]_queueVars =>
          [pruner.phase # "remove" => \A a \in Agents : LeavesInOrder(a)]_queueVars
    <2> SUFFICES ASSUME PassIInv, GuardIInv, QueueNext, pruner.phase # "remove",
                        NEW b \in Agents
                 PROVE  LeavesInOrder(b)
      OBVIOUS
    <2>1. QueueTypeOK /\ GuardInv
      BY DEF PassIInv, GuardIInv
    <2>2. ASSUME NEW a \in Agents, NEW m \in Messages, Enqueue(a, m)
          PROVE  LeavesInOrder(b)
      <3>1. \A i \in DOMAIN queues[b] : i \in DOMAIN queues'[b] /\ queues'[b][i] = queues[b][i]
        BY <2>1, <2>2 DEF Enqueue, QueueTypeOK
      <3>2. QED
        BY <3>1, StayingLeavesInOrder
    <2>3. CASE PrunerStep
      <3>1. CASE UNCHANGED queues
        BY <3>1, StayingLeavesInOrder
      <3>2. QED
        BY <2>3, <3>1, RetainLeavesInOrder
           DEF PrunerStep, PruneStart, PruneCollect, PruneRemove
    <2>4. CASE QueueTick
      <3>1. \A i \in DOMAIN queues[b] : queues[b][i] \in QueuedMessage
        BY <2>1 DEF QueueTypeOK
      <3>2. \A i \in DOMAIN queues[b] :
              i \in DOMAIN queues'[b] /\ queues'[b][i].msg = queues[b][i].msg
        BY <2>1, <2>4, <3>1, AgeQueuesEffect, OlderType DEF QueueTick
      <3>3. QED
        BY <3>2, StayingLeavesInOrder
    <2>5. QED
      BY <2>1, <2>2, <2>3, <2>4, DrainLeavesInOrder DEF QueueNext
  <1>2. QED
    BY <1>1, PassInit, PassStep, GuardInit, GuardStep, PTL
       DEF QueueSpec, DrainAndRetainLoseNothing
=============================================================================
