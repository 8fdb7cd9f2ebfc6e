------------------------- MODULE QuantumRouterProofs -------------------------
(***************************************************************************)
(* Proofs about QuantumRouter for any conversations, endpoints and calls:  *)
(* types, and that nothing counted is lost but by the removal of its       *)
(* conversation, in memory (Learned) and in what is saved (SaveHasIt).     *)
(*                                                                         *)
(* What makes them true is Holding: as long as the conversation has not    *)
(* been removed, the state an observation has looked up, the first time or *)
(* the second, is the one in the map. A state in the map is referenced, so *)
(* no new conversation is given it and it is never dropped.                *)
(***************************************************************************)
EXTENDS QuantumRouter, TLAPS

Holding ==
    \A b \in Observations :
        /\ observe[b].pc \in {"count", "touch", "copy"} => observe[b].state \in Objects
        /\ observe[b].pc \in {"count", "copy"} /\ b \notin lost =>
              observe[b].state = table[ConversationOf[b]]

CopyHasIt ==
    \A b \in Observations : observe[b].pc = "save" /\ b \notin lost => b \in observe[b].copy

Routing ==
    \A r \in Routers :
        \/ route[r] = IdleRoute
        \/ route[r].state \in Objects /\ route[r].conversation \in Conversations

QuantumInv == TypeOK /\ Learned /\ Holding /\ CopyHasIt /\ Routing

Record == [known : SUBSET Endpoints, counted : SUBSET Observations, age : 0..(MaxAge + 1)]

LEMMA NewRecord == NewObject \in Record
  BY QuantumAssumption DEF NewObject, Record

\* The first and the second lookup.
LEMMA Lookup ==
    ASSUME QuantumInv, NEW c \in Conversations, NEW o \in Objects, GetOrCreate(c, o)
    PROVE  /\ table' \in [Conversations -> Objects \cup {None}]
           /\ object' \in [Objects -> Record]
           /\ table'[c] = o
           /\ \A d \in Conversations : table[d] # None =>
                 table'[d] = table[d] /\ object'[table[d]] = object[table[d]]
  <1>1. CASE table[c] # None /\ o = table[c] /\ UNCHANGED <<table, object>>
    BY <1>1 DEF QuantumInv, TypeOK, Record
  <1>2. CASE table[c] = None /\ o \in Free /\ table' = [table EXCEPT ![c] = o]
             /\ object' = [object EXCEPT ![o] = NewObject]
    <2>1. \A d \in Conversations : table[d] # o
      BY <1>2 DEF Free, Referenced
    <2>2. table \in [Conversations -> Objects \cup {None}] /\ object \in [Objects -> Record]
      BY DEF QuantumInv, TypeOK, Record
    <2>3. QED
      BY <1>2, <2>1, <2>2, NewRecord
  <1>3. QED
    BY <1>1, <1>2 DEF GetOrCreate

\* What the end of a call or a removal leaves of the states.
LEMMA Keeping ==
    ASSUME NEW obj \in [Objects -> Record], object' = Kept(obj)
    PROVE  /\ object' \in [Objects -> Record]
           /\ \A c \in Conversations : table'[c] \in Objects =>
                 object'[table'[c]] = obj[table'[c]]
  <1>1. \A o \in Objects : object'[o] = IF Referenced(o)' THEN obj[o] ELSE NewObject
    BY DEF Kept
  <1>2. \A o \in Objects, c \in Conversations : table'[c] = o => Referenced(o)'
    BY DEF Referenced
  <1>3. object' \in [Objects -> Record]
    BY NewRecord DEF Kept
  <1>4. QED
    BY <1>1, <1>2, <1>3

LEMMA QuantumInit == Init => QuantumInv
  <1> SUFFICES ASSUME Init PROVE QuantumInv
    OBVIOUS
  <1>1. TypeOK
    BY QuantumAssumption, NewRecord DEF Init, TypeOK, IdleRoute, Record
  <1>2. Learned /\ Holding /\ CopyHasIt
    BY DEF Init, Learned, Counted, Holding, CopyHasIt
  <1>3. Routing
    BY DEF Init, Routing
  <1>4. QED
    BY <1>1, <1>2, <1>3 DEF QuantumInv


\* The maps and states after any step, and the calls that go on as they were.
LEMMA ObserveStepKeeps ==
    ASSUME QuantumInv, NEW b \in Observations, ObserveStep(b) \/ ObserveOpen(b)
    PROVE  QuantumInv'
  <1> DEFINE Pc == {"idle", "count", "touch", "reopen", "copy", "save", "done", "failed"}
             Call == [pc : Pc, state : Objects \cup {None}, copy : SUBSET Observations]
             C == ConversationOf[b]
  <1>0. /\ C \in Conversations /\ EndpointOf[b] \in Endpoints
        /\ observe \in [Observations -> Call] /\ object \in [Objects -> Record]
        /\ table \in [Conversations -> Objects \cup {None}] /\ None \notin Objects
        /\ \A d \in Observations : ConversationOf[d] \in Conversations
    BY QuantumAssumption DEF QuantumInv, TypeOK, Record
  <1> DEFINE Others == \A d \in Observations : d # b => observe'[d] = observe[d]
  \* What an action on b has to show.
  <1>1. ASSUME object' \in [Objects -> Record],
               table' \in [Conversations -> Objects \cup {None}],
               observe' \in [Observations -> Call], Others,
               row' \in [Conversations -> [Endpoints -> SUBSET Observations]],
               UNCHANGED <<last, route, tick, lost>>,
               \A d \in Conversations : table[d] # None =>
                   table'[d] = table[d] /\ object[table[d]].counted \subseteq object'[table[d]].counted,
               Counted(b)' /\ b \notin lost => table'[C] # None /\ b \in object'[table'[C]].counted,
               observe'[b].pc \in {"count", "touch", "copy"} => observe'[b].state \in Objects,
               observe'[b].pc \in {"count", "copy"} /\ b \notin lost => observe'[b].state = table'[C],
               observe'[b].pc = "save" /\ b \notin lost => b \in observe'[b].copy
        PROVE  QuantumInv'
    <2>1. TypeOK'
      BY <1>1 DEF QuantumInv, TypeOK, Record
    <2>2. Learned'
      <3> SUFFICES ASSUME NEW d \in Observations, Counted(d)', d \notin lost'
                   PROVE  /\ table'[ConversationOf[d]] # None
                          /\ d \in object'[table'[ConversationOf[d]]].counted
        BY DEF Learned
      <3>1. CASE d = b
        BY <3>1, <1>1
      <3>2. CASE d # b
        BY <3>2, <1>0, <1>1 DEF QuantumInv, Learned, Counted
      <3>3. QED
        BY <3>1, <3>2
    <2>3. Holding'
      <3> SUFFICES ASSUME NEW d \in Observations
                   PROVE  /\ observe'[d].pc \in {"count", "touch", "copy"} => observe'[d].state \in Objects
                          /\ observe'[d].pc \in {"count", "copy"} /\ d \notin lost' =>
                                observe'[d].state = table'[ConversationOf[d]]
        BY DEF Holding
      <3>1. CASE d = b
        BY <3>1, <1>1
      <3>2. CASE d # b
        BY <3>2, <1>0, <1>1 DEF QuantumInv, Holding
      <3>3. QED
        BY <3>1, <3>2
    <2>4. CopyHasIt'
      BY <1>1 DEF QuantumInv, CopyHasIt
    <2>5. Routing'
      BY <1>1 DEF QuantumInv, Routing
    <2>6. QED
      BY <2>1, <2>2, <2>3, <2>4, <2>5 DEF QuantumInv
  <1>2. CASE ObserveOpen(b)
    <2>1. PICK o \in Objects :
              /\ GetOrCreate(C, o)
              /\ observe' = [observe EXCEPT ![b] = [pc |-> "count", state |-> o, copy |-> {}]]
      BY <1>2 DEF ObserveOpen
    <2>2. /\ table' \in [Conversations -> Objects \cup {None}]
          /\ object' \in [Objects -> Record]
          /\ table'[C] = o
          /\ \A d \in Conversations : table[d] # None =>
                table'[d] = table[d] /\ object'[table[d]] = object[table[d]]
      BY <2>1, <1>0, Lookup
    <2>3. observe' \in [Observations -> Call] /\ Others
          /\ observe'[b] = [pc |-> "count", state |-> o, copy |-> {}]
      BY <2>1, <1>0
    <2>4. row' \in [Conversations -> [Endpoints -> SUBSET Observations]]
          /\ UNCHANGED <<last, route, tick, lost>>
      BY <1>2 DEF ObserveOpen, QuantumInv, TypeOK
    <2>5. ~Counted(b)'
      BY <2>3 DEF Counted
    <2>6. QED
      BY <1>1, <2>2, <2>3, <2>4, <2>5
  <1>3. CASE ObserveCount(b)
    <2> DEFINE o == observe[b].state
    <2>1. o \in Objects /\ observe[b].pc = "count"
      BY <1>3 DEF ObserveCount, QuantumInv, Holding
    <2>2. object' = [object EXCEPT ![o] = [known |-> object[o].known \cup {EndpointOf[b]},
                                           counted |-> object[o].counted \cup {b},
                                           age |-> object[o].age]]
          /\ observe' = [observe EXCEPT ![b].pc = "touch"]
          /\ UNCHANGED <<table, last, route, tick, row, lost>>
      BY <1>3 DEF ObserveCount
    <2>3. object' \in [Objects -> Record]
          /\ \A p \in Objects : object[p].counted \subseteq object'[p].counted
          /\ b \in object'[o].counted
      BY <2>1, <2>2, <1>0 DEF Record
    <2>4. observe' \in [Observations -> Call] /\ Others
          /\ observe'[b].pc = "touch" /\ observe'[b].state = o
      BY <2>1, <2>2, <1>0
    <2>5. b \notin lost => table[C] = o
      BY <2>1 DEF QuantumInv, Holding
    <2>6. row' \in [Conversations -> [Endpoints -> SUBSET Observations]]
      BY <2>2 DEF QuantumInv, TypeOK
    <2> HIDE DEF o
    <2>7. \A d \in Conversations : table[d] # None =>
              table'[d] = table[d] /\ object[table[d]].counted \subseteq object'[table[d]].counted
      BY <1>0, <2>2, <2>3
    <2>8. b \notin lost => table'[C] # None /\ b \in object'[table'[C]].counted
      BY <1>0, <2>1, <2>2, <2>3, <2>5
    <2>9. /\ UNCHANGED <<table, last, route, tick, row, lost>>
          /\ table' \in [Conversations -> Objects \cup {None}]
      BY <1>0, <2>2
    <2>10. QED
      BY <1>1, <2>1, <2>3, <2>4, <2>6, <2>7, <2>8, <2>9
  <1>4. CASE ObserveTouch(b)
    <2> DEFINE o == observe[b].state
               touched == [object EXCEPT ![o] = [known |-> object[o].known,
                                                 counted |-> object[o].counted, age |-> 0]]
    <2>1. o \in Objects /\ observe[b].pc = "touch"
      BY <1>4 DEF ObserveTouch, QuantumInv, Holding
    <2>2. object' = Kept(touched)
          /\ observe' = [observe EXCEPT ![b] = [pc |-> "reopen", state |-> None, copy |-> {}]]
          /\ UNCHANGED <<table, last, route, tick, row, lost>>
      BY <1>4 DEF ObserveTouch
    <2>3. touched \in [Objects -> Record]
          /\ \A p \in Objects : object[p].counted = touched[p].counted
      BY <2>1, <1>0, QuantumAssumption DEF Record
    <2>4. observe' \in [Observations -> Call] /\ Others
          /\ observe'[b] = [pc |-> "reopen", state |-> None, copy |-> {}]
      BY <2>2, <1>0
    <2>5. row' \in [Conversations -> [Endpoints -> SUBSET Observations]]
      BY <2>2 DEF QuantumInv, TypeOK
    <2> HIDE DEF touched, o
    <2>6. object' \in [Objects -> Record]
          /\ \A d \in Conversations : table'[d] \in Objects => object'[table'[d]] = touched[table'[d]]
      BY <2>2, <2>3, Keeping
    <2>7. \A d \in Conversations : table[d] # None =>
              table'[d] = table[d] /\ object'[table[d]].counted = object[table[d]].counted
      BY <2>2, <2>3, <2>6, <1>0
    <2>8. b \notin lost => table[C] # None /\ b \in object[table[C]].counted
      BY <2>1 DEF QuantumInv, Learned, Counted
    <2>9. QED
      BY <1>0, <1>1, <2>2, <2>4, <2>5, <2>6, <2>7, <2>8
  <1>5. CASE ObserveReopen(b)
    <2>1. PICK o \in Objects :
              /\ GetOrCreate(C, o)
              /\ observe' = [observe EXCEPT ![b] = [pc |-> "copy", state |-> o, copy |-> {}]]
      BY <1>5 DEF ObserveReopen
    <2>2. /\ table' \in [Conversations -> Objects \cup {None}]
          /\ object' \in [Objects -> Record]
          /\ table'[C] = o
          /\ \A d \in Conversations : table[d] # None =>
                table'[d] = table[d] /\ object'[table[d]] = object[table[d]]
      BY <2>1, <1>0, Lookup
    <2>3. observe' \in [Observations -> Call] /\ Others
          /\ observe'[b] = [pc |-> "copy", state |-> o, copy |-> {}]
      BY <2>1, <1>0
    <2>4. row' \in [Conversations -> [Endpoints -> SUBSET Observations]]
          /\ UNCHANGED <<last, route, tick, lost>> /\ observe[b].pc = "reopen"
      BY <1>5 DEF ObserveReopen, QuantumInv, TypeOK
    <2>5. b \notin lost => table[C] # None /\ b \in object[table[C]].counted
      BY <2>4 DEF QuantumInv, Learned, Counted
    <2>6. QED
      BY <1>0, <1>1, <2>2, <2>3, <2>4, <2>5
  <1>6. CASE ObserveCopy(b)
    <2> DEFINE o == observe[b].state
    <2>1. o \in Objects /\ observe[b].pc = "copy"
      BY <1>6 DEF ObserveCopy, QuantumInv, Holding
    <2>2. \/ observe' = [observe EXCEPT ![b] =
                 [pc |-> "save", state |-> None, copy |-> EntryOf(b, o)]]
          \/ observe' = [observe EXCEPT ![b] = [pc |-> "done", state |-> None, copy |-> {}]]
      BY <1>6 DEF ObserveCopy
    <2>3. object' = Kept(object) /\ UNCHANGED <<table, last, route, tick, row, lost>>
      BY <1>6 DEF ObserveCopy
    <2>4. b \notin lost => table[C] # None /\ b \in object[table[C]].counted /\ table[C] = o
      BY <2>1 DEF QuantumInv, Learned, Counted, Holding
    <2>5. EntryOf(b, o) \in SUBSET Observations /\ (b \notin lost => b \in EntryOf(b, o))
      BY <2>1, <2>4, <1>0 DEF EntryOf, Record
    <2> HIDE DEF o
    <2>6. observe' \in [Observations -> Call] /\ Others
          /\ \/ observe'[b] = [pc |-> "save", state |-> None, copy |-> EntryOf(b, o)]
             \/ observe'[b] = [pc |-> "done", state |-> None, copy |-> {}]
      <3> DEFINE saving == [pc |-> "save", state |-> None, copy |-> EntryOf(b, o)]
                 done == [pc |-> "done", state |-> None, copy |-> {}]
      <3>1. saving \in Call /\ done \in Call
        BY <2>5
      <3> HIDE DEF saving, done, Call
      <3>2. observe \in [Observations -> Call]
        BY <1>0
      <3>3. /\ observe' \in [Observations -> Call] /\ Others
            /\ observe'[b] = saving \/ observe'[b] = done
        BY <2>2, <3>1, <3>2 DEF saving, done
      <3>4. QED
        BY <3>3 DEF saving, done
    <2>7. object' \in [Objects -> Record]
          /\ \A d \in Conversations : table'[d] \in Objects => object'[table'[d]] = object[table'[d]]
      BY <1>0, <2>3, Keeping
    <2>8. row' \in [Conversations -> [Endpoints -> SUBSET Observations]]
      BY <2>3 DEF QuantumInv, TypeOK
    <2>9. \A d \in Conversations : table[d] # None =>
              table'[d] = table[d] /\ object'[table[d]].counted = object[table[d]].counted
      BY <2>3, <2>7, <1>0
    <2>10. QED
      BY <1>0, <1>1, <2>3, <2>4, <2>5, <2>6, <2>7, <2>8, <2>9
  <1>7. CASE Save(b) \/ SaveFails(b)
    <2>1. /\ observe[b].pc = "save"
          /\ UNCHANGED <<table, object, last, route, tick, lost>>
          /\ \/ observe' = [observe EXCEPT ![b] = [pc |-> "done", state |-> None, copy |-> {}]]
             \/ observe' = [observe EXCEPT ![b] = [pc |-> "failed", state |-> None, copy |-> {}]]
      BY <1>7 DEF Save, SaveFails
    <2>2. observe' \in [Observations -> Call] /\ Others
          /\ observe'[b].pc \in {"done", "failed"}
      BY <2>1, <1>0
    <2>3. observe[b].copy \in SUBSET Observations
          /\ row \in [Conversations -> [Endpoints -> SUBSET Observations]]
      BY <1>0 DEF QuantumInv, TypeOK
    <2>4. \/ row' = [row EXCEPT ![C][EndpointOf[b]] = observe[b].copy]
          \/ row' = row
      BY <1>7 DEF Save, SaveFails
    <2>5. row' \in [Conversations -> [Endpoints -> SUBSET Observations]]
      <3> DEFINE R == [Endpoints -> SUBSET Observations]
                 r == [row[C] EXCEPT ![EndpointOf[b]] = observe[b].copy]
      <3>1. r \in R
        BY <2>3, <1>0
      <3>2. CASE row' = [row EXCEPT ![C][EndpointOf[b]] = observe[b].copy]
        <4>1. row' = [row EXCEPT ![C] = r]
          BY <3>2
        <4> HIDE DEF r, R
        <4>2. row \in [Conversations -> R]
          BY <2>3 DEF R
        <4>3. row' \in [Conversations -> R]
          BY <4>1, <4>2, <3>1, <1>0
        <4>4. QED
          BY <4>3 DEF R
      <3>3. QED
        BY <2>3, <2>4, <3>2
    <2>6. b \notin lost => table[C] # None /\ b \in object[table[C]].counted
      BY <2>1 DEF QuantumInv, Learned, Counted
    <2>7. QED
      BY <1>0, <1>1, <2>1, <2>2, <2>5, <2>6
  <1>8. QED
    BY <1>2, <1>3, <1>4, <1>5, <1>6, <1>7 DEF ObserveStep

LEMMA RouteKeeps ==
    ASSUME QuantumInv, NEW r \in Routers,
           \/ RouteStep(r)
           \/ \E c \in Conversations, S \in SUBSET Endpoints : RouteOpen(r, c, S)
    PROVE  QuantumInv'
  <1> DEFINE Call == [conversation : Conversations \cup {None}, state : Objects \cup {None},
                      candidates : SUBSET Endpoints, built : BOOLEAN]
  <1>0. /\ route \in [Routers -> Call] /\ object \in [Objects -> Record]
        /\ table \in [Conversations -> Objects \cup {None}] /\ None \notin Objects
        /\ last \in [Conversations -> Endpoints \cup {None}]
        /\ \A d \in Observations : ConversationOf[d] \in Conversations
        /\ IdleRoute \in Call /\ IdleRoute.state = None /\ ~IdleRoute.built
    BY QuantumAssumption DEF QuantumInv, TypeOK, Record, IdleRoute
  \* What an action of r has to show.
  <1>1. ASSUME object' \in [Objects -> Record],
               table' \in [Conversations -> Objects \cup {None}],
               last' \in [Conversations -> Endpoints \cup {None}],
               NEW call \in Call, route' = [route EXCEPT ![r] = call],
               call = IdleRoute \/ (call.state \in Objects /\ call.conversation \in Conversations),
               UNCHANGED <<observe, tick, row, lost>>,
               \A d \in Conversations : table[d] # None =>
                   table'[d] = table[d] /\ object'[table[d]].counted = object[table[d]].counted
        PROVE  QuantumInv'
    <2> HIDE DEF Call
    <2>1. route' \in [Routers -> Call] /\ route'[r] = call
          /\ \A q \in Routers : q # r => route'[q] = route[q]
      BY <1>0, <1>1
    <2>2. TypeOK'
      BY <1>1, <2>1 DEF QuantumInv, TypeOK, Record, Call
    <2>3. Learned'
      <3> SUFFICES ASSUME NEW d \in Observations, Counted(d)', d \notin lost'
                   PROVE  /\ table'[ConversationOf[d]] # None
                          /\ d \in object'[table'[ConversationOf[d]]].counted
        BY DEF Learned
      <3>1. Counted(d) /\ d \notin lost
        BY <1>1 DEF Counted
      <3>2. QED
        BY <3>1, <1>0, <1>1 DEF QuantumInv, Learned
    <2>4. Holding'
      <3> SUFFICES ASSUME NEW d \in Observations
                   PROVE  /\ observe'[d].pc \in {"count", "touch", "copy"} => observe'[d].state \in Objects
                          /\ observe'[d].pc \in {"count", "copy"} /\ d \notin lost' =>
                                observe'[d].state = table'[ConversationOf[d]]
        BY DEF Holding
      <3>1. QED
        BY <1>0, <1>1 DEF QuantumInv, Holding
    <2>5. CopyHasIt'
      BY <1>1 DEF QuantumInv, CopyHasIt
    <2>6. Routing'
      BY <1>1, <2>1 DEF QuantumInv, Routing
    <2>7. QED
      BY <2>2, <2>3, <2>4, <2>5, <2>6 DEF QuantumInv
  <1>2. CASE \E c \in Conversations, S \in SUBSET Endpoints : RouteOpen(r, c, S)
    <2>1. PICK c \in Conversations, S \in SUBSET Endpoints, o \in Objects :
              /\ GetOrCreate(c, o)
              /\ route' = [route EXCEPT ![r] =
                    [conversation |-> c, state |-> o, candidates |-> S, built |-> FALSE]]
              /\ UNCHANGED <<last, observe, tick, row, lost>>
      BY <1>2 DEF RouteOpen
    <2> DEFINE call == [conversation |-> c, state |-> o, candidates |-> S, built |-> FALSE]
    <2>2. call \in Call /\ call.state = o /\ call.conversation = c
      OBVIOUS
    <2>3. /\ table' \in [Conversations -> Objects \cup {None}]
          /\ object' \in [Objects -> Record]
          /\ \A d \in Conversations : table[d] # None =>
                table'[d] = table[d] /\ object'[table[d]] = object[table[d]]
      BY <2>1, Lookup
    <2>4. route' = [route EXCEPT ![r] = call]
      BY <2>1
    <2> HIDE DEF call, Call
    <2>5. QED
      BY <1>0, <1>1, <2>1, <2>2, <2>3, <2>4
  <1>3. CASE RouteBuild(r)
    <2> DEFINE o == route[r].state
               call == [route[r] EXCEPT !.built = TRUE]
    <2>1. o \in Objects /\ route[r].conversation \in Conversations
      BY <1>0, <1>3 DEF RouteBuild, QuantumInv, Routing
    <2>2. object' = [object EXCEPT ![o] = [known |-> object[o].known \cup route[r].candidates,
                                           counted |-> object[o].counted, age |-> object[o].age]]
          /\ route' = [route EXCEPT ![r] = call]
          /\ UNCHANGED <<table, last, observe, tick, row, lost>>
      BY <1>3 DEF RouteBuild
    <2>3. object' \in [Objects -> Record]
          /\ \A p \in Objects : object'[p].counted = object[p].counted
      BY <1>0, <2>1, <2>2 DEF Record
    <2>4. call \in Call /\ call.state \in Objects /\ call.conversation \in Conversations
      BY <1>0, <2>1
    <2>5. /\ table' \in [Conversations -> Objects \cup {None}]
          /\ last' \in [Conversations -> Endpoints \cup {None}]
          /\ \A d \in Conversations : table[d] # None =>
                table'[d] = table[d] /\ object'[table[d]].counted = object[table[d]].counted
      BY <1>0, <2>2, <2>3
    <2> HIDE DEF call, Call, o
    <2>6. QED
      BY <1>1, <2>2, <2>3, <2>4, <2>5
  <1>4. CASE RouteSelect(r)
    <2>1. route[r].built /\ route[r].conversation \in Conversations
      BY <1>0, <1>4 DEF RouteSelect, QuantumInv, Routing
    <2>2. PICK e \in route[r].candidates : last' = [last EXCEPT ![route[r].conversation] = e]
      BY <1>4 DEF RouteSelect
    <2>3. /\ route' = [route EXCEPT ![r] = IdleRoute] /\ object' = Kept(object)
          /\ UNCHANGED <<table, observe, tick, row, lost>>
      BY <1>4 DEF RouteSelect
    <2>4. last' \in [Conversations -> Endpoints \cup {None}]
      BY <1>0, <2>1, <2>2
    <2>5. object' \in [Objects -> Record]
          /\ \A d \in Conversations : table'[d] \in Objects => object'[table'[d]] = object[table'[d]]
      BY <1>0, <2>3, Keeping
    <2>6. \A d \in Conversations : table[d] # None =>
              table'[d] = table[d] /\ object'[table[d]].counted = object[table[d]].counted
      BY <1>0, <2>3, <2>5
    <2> HIDE DEF Call
    <2>7. QED
      BY <1>0, <1>1, <2>3, <2>4, <2>5, <2>6
  <1>5. QED
    BY <1>2, <1>3, <1>4 DEF RouteStep

LEMMA DiagnosticsKeeps ==
    ASSUME QuantumInv, NEW c \in Conversations, Diagnostics(c)
    PROVE  QuantumInv'
  <1>1. PICK o \in Objects : GetOrCreate(c, o)
    BY DEF Diagnostics
  <1>2. /\ table' \in [Conversations -> Objects \cup {None}]
        /\ object' \in [Objects -> Record]
        /\ \A d \in Conversations : table[d] # None =>
              table'[d] = table[d] /\ object'[table[d]] = object[table[d]]
    BY <1>1, Lookup
  <1>3. UNCHANGED <<last, observe, route, tick, row, lost>>
    BY DEF Diagnostics
  <1>4. \A d \in Observations : ConversationOf[d] \in Conversations
    BY QuantumAssumption
  <1>5. None \notin Objects /\ table \in [Conversations -> Objects \cup {None}]
    BY QuantumAssumption DEF QuantumInv, TypeOK
  <1>6. TypeOK' /\ CopyHasIt' /\ Routing'
    BY <1>2, <1>3 DEF QuantumInv, TypeOK, Record, CopyHasIt, Routing
  <1>7. Learned'
    BY <1>2, <1>3, <1>4 DEF QuantumInv, Learned, Counted
  <1>8. Holding'
    BY <1>2, <1>3, <1>4, <1>5 DEF QuantumInv, Holding
  <1>9. QED
    BY <1>6, <1>7, <1>8 DEF QuantumInv

\* A tick takes the states of inactive conversations out of the map, and
\* the observations that had begun on them into lost.
LEMMA TickKeeps ==
    ASSUME QuantumInv, TickStep
    PROVE  QuantumInv'
  <1> DEFINE Tick == [phase : {"idle", "remove", "retain"}, todo : SUBSET Conversations]
  <1>0. /\ object \in [Objects -> Record]
        /\ table \in [Conversations -> Objects \cup {None}] /\ None \notin Objects
        /\ last \in [Conversations -> Endpoints \cup {None}] /\ tick \in Tick
        /\ \A d \in Observations : ConversationOf[d] \in Conversations
        /\ \A S \in SUBSET Conversations : Removing(S) \in Tick /\ Retaining(S) \in Tick
    BY QuantumAssumption DEF QuantumInv, TypeOK, Record, Removing, Retaining
  <1>1. CASE TickCollect
    <2>1. Inactive \in SUBSET Conversations /\ tick' = Removing(Inactive)
          /\ UNCHANGED <<table, object, last, observe, route, row, lost>>
      BY <1>1 DEF TickCollect, Inactive
    <2>2. tick' \in Tick
      BY <1>0, <2>1
    <2>3. QED
      BY <2>1, <2>2 DEF QuantumInv, TypeOK, Learned, Counted, Holding, CopyHasIt, Routing
  <1>2. ASSUME NEW c \in Conversations, TickRemove(c)
        PROVE  QuantumInv'
    <2>1. /\ tick' = Removing(tick.todo \ {c}) /\ table' = [table EXCEPT ![c] = None]
          /\ lost' = lost \cup {b \in Observations :
                                  ConversationOf[b] = c /\ observe[b].pc # "idle"}
          /\ object' = Kept(object) /\ UNCHANGED <<last, observe, route, row>>
      BY <1>2 DEF TickRemove
    <2>2. object' \in [Objects -> Record]
          /\ \A d \in Conversations : table'[d] \in Objects => object'[table'[d]] = object[table'[d]]
      BY <1>0, <2>1, Keeping
    <2>3. /\ table' \in [Conversations -> Objects \cup {None}]
          /\ \A d \in Conversations : d # c => table'[d] = table[d]
          /\ tick' \in Tick
      BY <1>0, <2>1
    <2>4. TypeOK'
      BY <2>1, <2>2, <2>3 DEF QuantumInv, TypeOK, Record
    <2>5. \A b \in Observations : b \notin lost' =>
              b \notin lost /\ (observe[b].pc # "idle" => ConversationOf[b] # c)
      BY <2>1
    <2>6. Learned'
      <3> SUFFICES ASSUME NEW b \in Observations, Counted(b)', b \notin lost'
                   PROVE  /\ table'[ConversationOf[b]] # None
                          /\ b \in object'[table'[ConversationOf[b]]].counted
        BY DEF Learned
      <3>1. Counted(b) /\ b \notin lost /\ ConversationOf[b] # c
        BY <2>1, <2>5 DEF Counted
      <3>2. QED
        BY <1>0, <2>2, <2>3, <3>1 DEF QuantumInv, Learned
    <2>7. Holding' /\ CopyHasIt' /\ Routing'
      BY <1>0, <2>1, <2>3, <2>5 DEF QuantumInv, Holding, CopyHasIt, Routing
    <2>8. QED
      BY <2>4, <2>6, <2>7 DEF QuantumInv
  <1>3. ASSUME NEW c \in Conversations, TickForget(c)
        PROVE  QuantumInv'
    <2>1. tick' = Retaining(tick.todo \ {c})
          /\ UNCHANGED <<table, object, observe, route, row, lost>>
          /\ \/ last' = [last EXCEPT ![c] = None]
             \/ last' = last
      BY <1>3 DEF TickForget
    <2>2. tick' \in Tick /\ last' \in [Conversations -> Endpoints \cup {None}]
      BY <1>0, <2>1
    <2>3. QED
      BY <2>1, <2>2 DEF QuantumInv, TypeOK, Learned, Counted, Holding, CopyHasIt, Routing
  <1>4. QED
    BY <1>1, <1>2, <1>3 DEF TickStep

LEMMA TimeKeeps == QuantumInv /\ TimePasses => QuantumInv'
  <1> SUFFICES ASSUME QuantumInv, TimePasses PROVE QuantumInv'
    OBVIOUS
  <1> DEFINE Aged(o) == IF object[o].age <= MaxAge /\ InMap(o)
                        THEN object[o].age + 1 ELSE object[o].age
  <1>1. /\ object \in [Objects -> Record] /\ MaxAge \in Nat
        /\ table \in [Conversations -> Objects \cup {None}] /\ None \notin Objects
        /\ \A d \in Observations : ConversationOf[d] \in Conversations
    BY QuantumAssumption DEF QuantumInv, TypeOK, Record
  <1>2. /\ object' = [o \in Objects |-> [known |-> object[o].known,
                                         counted |-> object[o].counted, age |-> Aged(o)]]
        /\ UNCHANGED <<table, last, observe, route, tick, row, lost>>
    BY DEF TimePasses
  <1>3. \A o \in Objects : Aged(o) \in 0..(MaxAge + 1)
    BY <1>1 DEF Record
  <1> HIDE DEF Aged
  <1>4. object' \in [Objects -> Record]
        /\ \A o \in Objects : object'[o].counted = object[o].counted
    BY <1>1, <1>2, <1>3 DEF Record
  <1>5. TypeOK' /\ Holding' /\ CopyHasIt' /\ Routing'
    BY <1>2, <1>4 DEF QuantumInv, TypeOK, Record, Holding, CopyHasIt, Routing
  <1>6. Learned'
    BY <1>1, <1>2, <1>4 DEF QuantumInv, Learned, Counted
  <1>7. QED
    BY <1>5, <1>6 DEF QuantumInv

LEMMA QuantumStep == QuantumInv /\ [Next]_vars => QuantumInv'
  <1> SUFFICES ASSUME QuantumInv, [Next]_vars PROVE QuantumInv'
    OBVIOUS
  <1>1. CASE Next
    BY <1>1, ObserveStepKeeps, RouteKeeps, DiagnosticsKeeps, TickKeeps, TimeKeeps DEF Next
  <1>2. CASE UNCHANGED vars
    BY <1>2 DEF vars, QuantumInv, TypeOK, Learned, Counted, Holding, CopyHasIt, Routing
  <1>3. QED
    BY <1>1, <1>2

\* An observation that was counted stays in the state of its conversation,
\* whatever get_or_create, update and tick interleave, until the conversation
\* is removed; and the maps and records have their types.
THEOREM NothingUnlearned == Spec => [](TypeOK /\ Learned)
  <1>1. QuantumInv => TypeOK /\ Learned
    BY DEF QuantumInv
  <1>2. QED
    BY <1>1, QuantumInit, QuantumStep, PTL DEF Spec

\* Whatever order the tasks that save run in, each writes a row that has
\* counted the observation it was spawned for, with the same exception.
THEOREM SavedRows == Spec => SaveHasIt
  <1>1. ASSUME QuantumInv, [Next]_vars, NEW b \in Observations \ lost,
               observe[b].pc = "save", observe'[b].pc = "done"
        PROVE  b \in row'[ConversationOf[b]][EndpointOf[b]]
    <2> DEFINE Call == [pc : {"idle", "count", "touch", "reopen", "copy", "save", "done", "failed"},
                        state : Objects \cup {None}, copy : SUBSET Observations]
    <2>0. observe \in [Observations -> Call]
          /\ row \in [Conversations -> [Endpoints -> SUBSET Observations]]
          /\ ConversationOf[b] \in Conversations /\ EndpointOf[b] \in Endpoints
      BY <1>1, QuantumAssumption DEF QuantumInv, TypeOK
    <2>1. observe' # observe
      BY <1>1
    <2>2. PICK d \in Observations : ObserveOpen(d) \/ ObserveStep(d)
      BY <1>1, <2>1 DEF Next, vars, RouteOpen, RouteStep, RouteBuild, RouteSelect, Diagnostics,
            TickStep, TickCollect, TickRemove, TickForget, TimePasses
    <2>3. d = b
      <3>1. SUFFICES ASSUME d # b PROVE observe'[b] = observe[b]
        BY <1>1
      <3>2. QED
        BY <2>0, <2>2, <3>1 DEF ObserveOpen, ObserveStep, ObserveCount, ObserveTouch,
              ObserveReopen, ObserveCopy, Save, SaveFails
    <2>4. Save(b) \/ SaveFails(b)
      BY <1>1, <2>2, <2>3 DEF ObserveOpen, ObserveStep, ObserveCount, ObserveTouch,
            ObserveReopen, ObserveCopy
    <2>5. ~SaveFails(b)
      BY <1>1, <2>0 DEF SaveFails
    <2>6. row' = [row EXCEPT ![ConversationOf[b]][EndpointOf[b]] = observe[b].copy]
      BY <2>4, <2>5 DEF Save
    <2>7. row'[ConversationOf[b]][EndpointOf[b]] = observe[b].copy
      BY <2>0, <2>6
    <2>8. b \in observe[b].copy
      BY <1>1 DEF QuantumInv, CopyHasIt
    <2>9. QED
      BY <2>7, <2>8
  <1>2. QuantumInv /\ [Next]_vars =>
            [\A b \in Observations \ lost :
                observe[b].pc = "save" /\ observe'[b].pc = "done"
                    => b \in row'[ConversationOf[b]][EndpointOf[b]]]_vars
    BY <1>1
  <1>3. QED
    BY <1>2, QuantumInit, QuantumStep, PTL DEF Spec, SaveHasIt
=============================================================================
