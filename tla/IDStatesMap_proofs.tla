-------------------------- MODULE IDStatesMap_proofs --------------------------
(***************************************************************************)
(* Proofs about IDStatesMap for every number of threads and queries, every *)
(* finite set of IDs and every timeout.                                    *)
(***************************************************************************)
EXTENDS IDStatesMap, FiniteSetTheorems, TLAPS

\* The client and the responder threads are threads, and not both.
LEMMA ThreadKinds ==
    /\ \A t \in Clients : t \in Threads
    /\ \A t \in Responders : t \in Threads
  BY DEF Threads

\* An ID to start with is an ID.
LEMMA AnyIDType == AnyID \in IDs
  BY MapAssumption DEF AnyID

\* An update, inside the function's domain or not, keeps its type.
LEMMA UpdateType ==
    ASSUME NEW S, NEW T, NEW f \in [S -> T], NEW i, NEW v \in T
    PROVE  [f EXCEPT ![i] = v] \in [S -> T]
  OBVIOUS

TableTypes ==
    /\ map \in [IDs -> Queries \cup {NoQuery}]
    /\ age \in [IDs -> 0 .. UdpTimeout + 1]

ThreadTypes ==
    /\ pc \in [Threads -> Points]
    /\ sel \in [Threads -> IDs]
    /\ hand \in [Threads -> Queries \cup {NoQuery}]
    /\ pkt \in [Threads -> Queries \cup {NoQuery}]
    /\ empty \in [Threads -> BOOLEAN]

QueryTypes ==
    /\ sock \in [Queries -> Sockets]
    /\ copies \in [Queries -> 0 .. MaxCopies]
    /\ idOf \in [Queries -> IDs]
    /\ outcome \in [Queries -> {"new", "pending", "answered", "timeout",
                                "reused", "returned"}]

Types == TableTypes /\ ThreadTypes /\ QueryTypes

\* A thread that gives up its local state keeps the types.
LEMMA FinishTypes ==
    ASSUME ThreadTypes, NEW t \in Threads, Finish(t)
    PROVE  ThreadTypes'
  BY AnyIDType DEF ThreadTypes, Finish, Goto, Points

\* All types but that of the counter are preserved by every step.
LEMMA TypeStep ==
    ASSUME Types, [Next]_vars
    PROVE  Types'
<1> USE MapAssumption, ThreadKinds, AnyIDType
    DEF Types, TableTypes, ThreadTypes, QueryTypes, Goto, Points, Resolve
<1>1. ASSUME NEW c \in Clients, NEW q \in Queries, Assign(c, q)
      PROVE  Types'
  BY <1>1 DEF Assign
<1>2. ASSUME NEW c \in Clients, NEW i \in IDs, SaveState(c, i)
      PROVE  Types'
  <2>1. TableTypes'
    BY <1>2 DEF SaveState
  <2>2. ThreadTypes'
    BY <1>2 DEF SaveState
  <2>3. QueryTypes'
    BY <1>2, UpdateType DEF SaveState
  <2> QED BY <2>1, <2>2, <2>3
<1>3. ASSUME NEW c \in Clients, SendQuery(c)
      PROVE  Types'
  <2>1. ThreadTypes'
    BY <1>3, FinishTypes DEF SendQuery
  <2>2. copies' \in [Queries -> 0 .. MaxCopies]
    BY <1>3, UpdateType DEF SendQuery
  <2>3. idOf' \in [Queries -> IDs]
    BY <1>3, UpdateType DEF SendQuery
  <2> QED BY <1>3, <2>1, <2>2, <2>3 DEF SendQuery
<1>4. ASSUME NEW c \in Clients, SendError(c)
      PROVE  Types'
  BY <1>4 DEF SendError
<1>5. ASSUME NEW c \in Clients, ClearState(c)
      PROVE  Types'
  <2>1. ThreadTypes'
    BY <1>5, FinishTypes DEF ClearState
  <2>2. TableTypes' /\ QueryTypes'
    BY <1>5, UpdateType DEF ClearState
  <2> QED BY <2>1, <2>2
<1>6. ASSUME NEW r \in Responders, NEW q \in Queries, Receive(r, q)
      PROVE  Types'
  BY <1>6 DEF Receive
<1>7. ASSUME NEW r \in Responders, GetState(r)
      PROVE  Types'
  <2>1. ThreadTypes'
    <3>1. CASE Finish(r)
      BY <3>1, FinishTypes
    <3>2. CASE ~ Finish(r)
      BY <1>7, <3>2 DEF GetState
    <3> QED BY <3>1, <3>2
  <2>2. TableTypes' /\ QueryTypes'
    BY <1>7 DEF GetState
  <2> QED BY <2>1, <2>2
<1>8. ASSUME NEW r \in Responders, Answer(r)
      PROVE  Types'
  <2>1. ThreadTypes'
    BY <1>8, FinishTypes DEF Answer
  <2> QED BY <1>8, <2>1, UpdateType DEF Answer
<1>9. ASSUME NEW r \in Responders, Mismatch(r)
      PROVE  Types'
  BY <1>9 DEF Mismatch
<1>10. ASSUME NEW r \in Responders, RestoreState(r)
       PROVE  Types'
  <2>1. ThreadTypes'
    BY <1>10, FinishTypes DEF RestoreState
  <2>2. TableTypes' /\ QueryTypes'
    BY <1>10, UpdateType DEF RestoreState
  <2> QED BY <2>1, <2>2
<1>11. ASSUME TimeoutScan
       PROVE  Types'
  <2>1. age' \in [IDs -> 0 .. UdpTimeout + 1]
    BY <1>11 DEF TimeoutScan, ExpiredIDs, Aged
  <2> QED BY <1>11, <2>1 DEF TimeoutScan, localVars
<1>12. CASE UNCHANGED vars
  BY <1>12 DEF vars, localVars
<1> QED
  BY <1>1, <1>2, <1>3, <1>4, <1>5, <1>6, <1>7, <1>8, <1>9, <1>10, <1>11, <1>12
  DEF Next, ClientStep, ResponderStep

-----------------------------------------------------------------------------
(* How many IDs are in use.                                                *)

Used == {i \in IDs : map[i] # NoQuery}

\* The IDs in use are a finite set, and counted.
LEMMA UsedFinite == IsFiniteSet(Used) /\ Cardinality(Used) \in Nat
<1>1. IsFiniteSet(Used)
  BY MapAssumption, FS_Subset DEF Used
<1> QED BY <1>1, FS_CardinalityType

\* The ways a step may move the count: not at all ...
LEMMA SizeKept ==
    ASSUME OutstandingIsSize, outstanding' = outstanding,
           \A i \in IDs : map'[i] # NoQuery <=> map[i] # NoQuery
    PROVE  OutstandingIsSize'
<1>1. Used' = Used
  BY DEF Used
<1> QED BY <1>1 DEF OutstandingIsSize, Used

\* ... up with one ID more ...
LEMMA SizeAdded ==
    ASSUME OutstandingIsSize, NEW i \in IDs, map[i] = NoQuery, map'[i] # NoQuery,
           outstanding' = outstanding + 1,
           \A j \in IDs \ {i} : map'[j] = map[j]
    PROVE  OutstandingIsSize'
<1>1. Used' = Used \cup {i} /\ i \notin Used
  BY DEF Used
<1>2. Cardinality(Used') = Cardinality(Used) + 1
  BY <1>1, UsedFinite, FS_AddElement
<1> QED BY <1>2 DEF OutstandingIsSize, Used

\* ... or down with some IDs less.
LEMMA SizeRemoved ==
    ASSUME OutstandingIsSize, NEW gone \in SUBSET IDs,
           \A i \in gone : map[i] # NoQuery /\ map'[i] = NoQuery,
           \A i \in IDs \ gone : map'[i] = map[i],
           outstanding' = outstanding - Cardinality(gone)
    PROVE  OutstandingIsSize'
<1>1. Used' = Used \ gone /\ Used \cap gone = gone
  BY DEF Used
<1>2. Cardinality(Used \ gone) = Cardinality(Used) - Cardinality(Used \cap gone)
  BY UsedFinite, FS_Difference
<1> QED BY <1>1, <1>2 DEF OutstandingIsSize, Used

-----------------------------------------------------------------------------
(* Where a query is.                                                       *)

\* Where a thread has a query in its local state.
Holding == {"save", "match", "restore"}

Placed == \A t \in Threads : pc[t] \in Holding <=> hand[t] # NoQuery

\* No query is in two places.
Unshared ==
    /\ \A t, u \in Threads : hand[t] = hand[u] /\ hand[t] # NoQuery => t = u
    /\ \A i, j \in IDs : map[i] = map[j] /\ map[i] # NoQuery => i = j
    /\ \A t \in Threads, i \in IDs : hand[t] = map[i] => hand[t] = NoQuery

\* The queries that are somewhere are the pending ones.
Kept ==
    \A q \in Queries :
        outcome[q] = "pending" <=> \/ \E t \in Threads : hand[t] = q
                                   \/ \E i \in IDs : map[i] = q

\* The threads have a query where their state says they do.
LEMMA PlacedStep ==
    ASSUME Types, Placed, [Next]_vars
    PROVE  Placed'
<1> USE MapAssumption, ThreadKinds
    DEF Types, TableTypes, ThreadTypes, Placed, Holding, Goto, Emplaced
<1>1. ASSUME NEW c \in Clients, NEW q \in Queries, Assign(c, q)
      PROVE  Placed'
  BY <1>1 DEF Assign
<1>2. ASSUME NEW c \in Clients, ClientStep(c)
      PROVE  Placed'
  BY <1>2 DEF ClientStep, SaveState, SendQuery, SendError, ClearState, Finish
<1>3. ASSUME NEW r \in Responders, NEW q \in Queries, Receive(r, q)
      PROVE  Placed'
  BY <1>3 DEF Receive
<1>4. ASSUME NEW r \in Responders, ResponderStep(r)
      PROVE  Placed'
  BY <1>4 DEF ResponderStep, GetState, Answer, Mismatch, RestoreState, Finish
<1>5. CASE TimeoutScan \/ UNCHANGED vars
  BY <1>5 DEF TimeoutScan, vars, localVars
<1> QED BY <1>1, <1>2, <1>3, <1>4, <1>5 DEF Next

\* The ways a query moves: it stays where it is ...
LEMMA PlacesKept ==
    ASSUME Unshared, Kept, hand' = hand, map' = map, outcome' = outcome
    PROVE  Unshared' /\ Kept'
  BY DEF Unshared, Kept

\* ... a client thread takes it over ...
LEMMA PlacesTaken ==
    ASSUME Types, Unshared, Kept, NEW t \in Threads, NEW q \in Queries,
           hand[t] = NoQuery, outcome[q] = "new",
           hand' = [hand EXCEPT ![t] = q], map' = map,
           outcome' = [outcome EXCEPT ![q] = "pending"]
    PROVE  Unshared' /\ Kept'
<1> USE MapAssumption DEF Types, TableTypes, ThreadTypes, QueryTypes
<1>1. /\ \A u \in Threads : hand[u] # q
      /\ \A i \in IDs : map[i] # q
  BY DEF Kept
<1>2. Unshared'
  BY <1>1 DEF Unshared
<1>3. Kept'
  BY <1>1 DEF Kept
<1> QED BY <1>2, <1>3

\* ... it moves from a thread to an ID, whose query, if any, is given up ...
LEMMA PlacesStored ==
    ASSUME Types, Unshared, Kept, NEW t \in Threads, NEW i \in IDs,
           hand[t] # NoQuery,
           hand' = [hand EXCEPT ![t] = NoQuery],
           map' = [map EXCEPT ![i] = hand[t]],
           \/ map[i] = NoQuery /\ outcome' = outcome
           \/ map[i] # NoQuery /\ outcome' = [outcome EXCEPT ![map[i]] = "reused"]
    PROVE  Unshared' /\ Kept'
<1> USE MapAssumption DEF Types, TableTypes, ThreadTypes, QueryTypes
<1>1. Unshared'
  BY DEF Unshared
<1>2. Kept'
  <2> SUFFICES ASSUME NEW q \in Queries
               PROVE  outcome'[q] = "pending" <=> \/ \E u \in Threads : hand'[u] = q
                                                  \/ \E j \in IDs : map'[j] = q
    BY DEF Kept
  <2>1. CASE q = hand[t]
    BY <2>1 DEF Kept, Unshared
  <2>2. CASE q # hand[t] /\ q = map[i]
    BY <2>2 DEF Unshared
  <2>3. CASE q # hand[t] /\ q # map[i]
    BY <2>3 DEF Kept
  <2> QED BY <2>1, <2>2, <2>3
<1> QED BY <1>1, <1>2

\* ... or back to a thread ...
LEMMA PlacesLoaded ==
    ASSUME Types, Unshared, Kept, NEW t \in Threads, NEW i \in IDs,
           hand[t] = NoQuery, map[i] # NoQuery,
           hand' = [hand EXCEPT ![t] = map[i]],
           map' = [map EXCEPT ![i] = NoQuery], outcome' = outcome
    PROVE  Unshared' /\ Kept'
<1> USE MapAssumption DEF Types, TableTypes, ThreadTypes, QueryTypes
<1>1. Unshared'
  BY DEF Unshared
<1>2. Kept'
  <2> SUFFICES ASSUME NEW q \in Queries
               PROVE  outcome[q] = "pending" <=> \/ \E u \in Threads : hand'[u] = q
                                                 \/ \E j \in IDs : map'[j] = q
    BY DEF Kept
  <2>1. CASE q = map[i]
    BY <2>1 DEF Kept
  <2>2. CASE q # map[i]
    BY <2>2 DEF Kept
  <2> QED BY <2>1, <2>2
<1> QED BY <1>1, <1>2

\* ... it is resolved by the thread that has it ...
LEMMA PlacesLeftHand ==
    ASSUME Types, Unshared, Kept, NEW t \in Threads, NEW how,
           hand[t] # NoQuery, how # "pending",
           hand' = [hand EXCEPT ![t] = NoQuery], map' = map,
           outcome' = [outcome EXCEPT ![hand[t]] = how]
    PROVE  Unshared' /\ Kept'
<1> USE MapAssumption DEF Types, TableTypes, ThreadTypes, QueryTypes
<1>1. Unshared'
  BY DEF Unshared
<1>2. Kept'
  <2> SUFFICES ASSUME NEW q \in Queries
               PROVE  outcome'[q] = "pending" <=> \/ \E u \in Threads : hand'[u] = q
                                                  \/ \E j \in IDs : map'[j] = q
    BY DEF Kept
  <2>1. CASE q = hand[t]
    BY <2>1 DEF Unshared
  <2>2. CASE q # hand[t]
    BY <2>2 DEF Kept
  <2> QED BY <2>1, <2>2
<1> QED BY <1>1, <1>2

\* ... or with others whose IDs are dropped from the map.
LEMMA PlacesLeftMap ==
    ASSUME Types, Unshared, Kept, NEW gone \in SUBSET IDs, NEW how,
           \A i \in gone : map[i] # NoQuery,
           how # "pending", hand' = hand,
           map' = [i \in IDs |-> IF i \in gone THEN NoQuery ELSE map[i]],
           outcome' = [q \in Queries |-> IF q \in {map[i] : i \in gone}
                                           THEN how ELSE outcome[q]]
    PROVE  Unshared' /\ Kept'
<1> USE MapAssumption DEF Types, TableTypes, ThreadTypes, QueryTypes
<1>1. Unshared'
  BY DEF Unshared
<1>2. Kept'
  <2> SUFFICES ASSUME NEW q \in Queries
               PROVE  outcome'[q] = "pending" <=> \/ \E u \in Threads : hand'[u] = q
                                                  \/ \E j \in IDs : map'[j] = q
    BY DEF Kept
  <2>1. CASE \E i \in gone : map[i] = q
    <3>1. PICK i \in gone : map[i] = q
      BY <2>1
    <3>2. outcome'[q] # "pending"
      BY <3>1
    <3>3. \A j \in IDs : map'[j] # q
      BY <3>1 DEF Unshared
    <3>4. \A u \in Threads : hand'[u] # q
      BY <3>1 DEF Unshared
    <3> QED BY <3>2, <3>3, <3>4
  <2>2. CASE ~ \E i \in gone : map[i] = q
    <3>1. outcome'[q] = outcome[q]
      BY <2>2
    <3>2. \A j \in IDs : map'[j] = q <=> map[j] = q
      BY <2>2
    <3> QED BY <3>1, <3>2 DEF Kept
  <2> QED BY <2>1, <2>2
<1> QED BY <1>1, <1>2

-----------------------------------------------------------------------------
(* The two together, step by step.                                         *)

IInv == Types /\ OutstandingIsSize /\ Placed /\ Unshared /\ Kept

\* What each step does to the queries is a move, an acceptance or a resolution
\* as UDPInFlight allows it, and the count follows.
StepOK ==
    /\ OutstandingIsSize' /\ Unshared' /\ Kept'
    /\ [InFlight!Next]_outcome

\* One query resolved is a step of the abstract specification.
LEMMA ResolveIsAbstract ==
    ASSUME Types, NEW q \in Queries, NEW how \in InFlight!Outcomes,
           outcome[q] = "pending", Resolve(q, how)
    PROVE  InFlight!Next
<1>1. outcome' = [p \in Queries |-> IF p \in {q} THEN how ELSE outcome[p]]
  BY DEF Types, QueryTypes, Resolve
<1>2. InFlight!Resolve({q}, how)
  BY <1>1 DEF InFlight!Resolve
<1> QED BY <1>2 DEF InFlight!Next

\* Every step is sound in this sense.
LEMMA SoundStep ==
    ASSUME IInv, [Next]_vars
    PROVE  StepOK
<1> USE MapAssumption, ThreadKinds
<1>0. /\ Types /\ Placed /\ Unshared /\ Kept /\ OutstandingIsSize
      /\ \A t \in Threads : sel[t] \in IDs /\ hand[t] \in Queries \cup {NoQuery}
      /\ \A i \in IDs : map[i] \in Queries \cup {NoQuery}
      /\ hand \in [Threads -> Queries \cup {NoQuery}]
      /\ map \in [IDs -> Queries \cup {NoQuery}]
  BY DEF IInv, Types, ThreadTypes, TableTypes
<1>a. {"answered", "timeout", "reused", "returned"} \subseteq InFlight!Outcomes
  BY DEF InFlight!Outcomes
<1>b. ASSUME NEW t \in Threads, hand[t] # NoQuery
      PROVE  hand[t] \in Queries /\ outcome[hand[t]] = "pending"
  BY <1>0, <1>b DEF Kept
<1>c. ASSUME NEW i \in IDs, map[i] # NoQuery
      PROVE  map[i] \in Queries /\ outcome[map[i]] = "pending"
  BY <1>0, <1>c DEF Kept
<1>d. ASSUME NEW t \in Threads, Finish(t)
      PROVE  /\ hand' = [hand EXCEPT ![t] = NoQuery]
             /\ hand[t] = NoQuery => hand' = hand
  BY <1>0, <1>d DEF Finish
<1>e. ASSUME outcome' = outcome, map' = map, hand' = hand, outstanding' = outstanding
      PROVE  StepOK
  BY <1>0, <1>e, PlacesKept, SizeKept DEF StepOK
<1>1. ASSUME NEW c \in Clients, NEW q \in Queries, Assign(c, q)
      PROVE  StepOK
  <2>1. hand[c] = NoQuery
    BY <1>0, <1>1 DEF Assign, Placed, Holding
  <2>2. Unshared' /\ Kept'
    BY <1>0, <1>1, <2>1, PlacesTaken DEF Assign
  <2>3. OutstandingIsSize'
    BY <1>0, <1>1, SizeKept DEF Assign
  <2>4. InFlight!Next
    BY <1>1 DEF Assign, InFlight!Next, InFlight!Accept
  <2> QED BY <2>2, <2>3, <2>4 DEF StepOK
<1>2. ASSUME NEW c \in Clients, NEW i \in IDs, SaveState(c, i)
      PROVE  StepOK
  <2>1. /\ hand[c] # NoQuery
        /\ hand' = [hand EXCEPT ![c] = NoQuery]
        /\ map' = [map EXCEPT ![i] = hand[c]]
        /\ \/ map[i] = NoQuery /\ outcome' = outcome
           \/ map[i] # NoQuery /\ outcome' = [outcome EXCEPT ![map[i]] = "reused"]
    BY <1>0, <1>2 DEF SaveState, Placed, Holding, Emplaced, Resolve
  <2>2. Unshared' /\ Kept'
    BY <1>0, <2>1, PlacesStored
  <2>3. OutstandingIsSize'
    <3>1. CASE map[i] = NoQuery
      BY <1>0, <1>2, <2>1, <3>1, SizeAdded DEF SaveState, CountSaved, Emplaced
    <3>2. CASE map[i] # NoQuery
      BY <1>0, <1>2, <2>1, <3>2, SizeKept DEF SaveState, CountSaved, Emplaced
    <3> QED BY <3>1, <3>2
  <2>4. [InFlight!Next]_outcome
    BY <1>0, <1>a, <1>c, <2>1, ResolveIsAbstract DEF Resolve
  <2> QED BY <2>2, <2>3, <2>4 DEF StepOK
<1>3. ASSUME NEW c \in Clients, SendQuery(c)
      PROVE  StepOK
  <2>1. hand[c] = NoQuery
    BY <1>0, <1>3 DEF SendQuery, Placed, Holding
  <2> QED BY <1>d, <1>e, <1>3, <2>1 DEF SendQuery
<1>4. ASSUME NEW c \in Clients, SendError(c)
      PROVE  StepOK
  BY <1>e, <1>4 DEF SendError
<1>5. ASSUME NEW c \in Clients, ClearState(c)
      PROVE  StepOK
  <2>1. hand[c] = NoQuery /\ hand' = hand
    BY <1>0, <1>d, <1>5 DEF ClearState, Placed, Holding
  <2>2. CASE Emplaced(sel[c])
    BY <1>e, <1>5, <2>1, <2>2 DEF ClearState
  <2>3. CASE ~ Emplaced(sel[c])
    <3> DEFINE i == sel[c]
    <3>1. /\ i \in IDs /\ map[i] # NoQuery
          /\ map' = [map EXCEPT ![i] = NoQuery]
          /\ outstanding' = outstanding - 1
          /\ outcome' = [outcome EXCEPT ![map[i]] = "returned"]
      BY <1>0, <1>5, <2>3 DEF ClearState, Emplaced, Resolve
    <3> HIDE DEF i
    <3>2. Cardinality({i}) = 1
      BY FS_Singleton
    <3>3. OutstandingIsSize'
      BY <1>0, <3>1, <3>2, SizeRemoved
    <3>4. map' = [j \in IDs |-> IF j \in {i} THEN NoQuery ELSE map[j]]
      BY <1>0, <3>1
    <3>5. Unshared' /\ Kept'
      <4>1. {map[j] : j \in {i}} = {map[i]}
        OBVIOUS
      <4>2. outcome' = [q \in Queries |-> IF q \in {map[i]}
                                             THEN "returned" ELSE outcome[q]]
        BY <1>0, <3>1 DEF Types, QueryTypes
      <4>3. outcome' = [q \in Queries |-> IF q \in {map[j] : j \in {i}}
                                             THEN "returned" ELSE outcome[q]]
        BY <4>1, <4>2, Zenon
      <4>4. {i} \in SUBSET IDs /\ \A j \in {i} : map[j] # NoQuery
        BY <3>1
      <4> QED BY <1>0, <2>1, <3>4, <4>3, <4>4, PlacesLeftMap, Zenon
    <3>6. InFlight!Next
      BY <1>0, <1>a, <1>c, <3>1, ResolveIsAbstract DEF Resolve
    <3> QED BY <3>3, <3>5, <3>6 DEF StepOK
  <2> QED BY <2>2, <2>3
<1>6. ASSUME NEW r \in Responders, NEW q \in Queries, Receive(r, q)
      PROVE  StepOK
  BY <1>e, <1>6 DEF Receive
<1>7. ASSUME NEW r \in Responders, GetState(r)
      PROVE  StepOK
  <2>1. hand[r] = NoQuery
    BY <1>0, <1>7 DEF GetState, Placed, Holding
  <2>2. CASE Emplaced(sel[r])
    BY <1>d, <1>e, <1>7, <2>1, <2>2 DEF GetState
  <2>3. CASE ~ Emplaced(sel[r])
    <3> DEFINE i == sel[r]
    <3>1. /\ i \in IDs /\ map[i] # NoQuery
          /\ map' = [map EXCEPT ![i] = NoQuery]
          /\ hand' = [hand EXCEPT ![r] = map[i]]
          /\ outstanding' = outstanding - 1
          /\ outcome' = outcome
      BY <1>0, <1>7, <2>3 DEF GetState, Emplaced
    <3> HIDE DEF i
    <3>2. Cardinality({i}) = 1
      BY FS_Singleton
    <3>3. OutstandingIsSize'
      BY <1>0, <3>1, <3>2, SizeRemoved
    <3>4. Unshared' /\ Kept'
      BY <1>0, <2>1, <3>1, PlacesLoaded
    <3> QED BY <3>1, <3>3, <3>4 DEF StepOK
  <2> QED BY <2>2, <2>3
<1>8. ASSUME NEW r \in Responders, hand[r] # NoQuery, Finish(r),
             NEW how \in {"answered", "reused"},
             Resolve(hand[r], how), map' = map, outstanding' = outstanding
      PROVE  StepOK
  <2>1. Unshared' /\ Kept'
    BY <1>0, <1>d, <1>8, PlacesLeftHand DEF Resolve
  <2>2. OutstandingIsSize'
    BY <1>0, <1>8, SizeKept
  <2>3. InFlight!Next
    BY <1>0, <1>a, <1>b, <1>8, ResolveIsAbstract
  <2> QED BY <2>1, <2>2, <2>3 DEF StepOK
<1>9. ASSUME NEW r \in Responders, Answer(r) \/ Mismatch(r)
      PROVE  StepOK
  <2>1. CASE Answer(r)
    BY <1>0, <1>8, <2>1 DEF Answer, Placed, Holding
  <2>2. CASE Mismatch(r)
    BY <1>e, <2>2 DEF Mismatch
  <2> QED BY <1>9, <2>1, <2>2
<1>10. ASSUME NEW r \in Responders, RestoreState(r)
       PROVE  StepOK
  <2>1. hand[r] # NoQuery
    BY <1>0, <1>10 DEF RestoreState, Placed, Holding
  <2>2. CASE ~ Emplaced(sel[r])
    BY <1>8, <1>10, <2>1, <2>2 DEF RestoreState
  <2>3. CASE Emplaced(sel[r])
    <3> DEFINE i == sel[r]
    <3>1. /\ i \in IDs /\ map[i] = NoQuery
          /\ map' = [map EXCEPT ![i] = hand[r]]
          /\ outstanding' = outstanding + 1
          /\ outcome' = outcome
          /\ hand' = [hand EXCEPT ![r] = NoQuery]
      BY <1>0, <1>d, <1>10, <2>3 DEF RestoreState, Emplaced
    <3> HIDE DEF i
    <3>2. OutstandingIsSize'
      BY <1>0, <2>1, <3>1, SizeAdded
    <3>3. Unshared' /\ Kept'
      BY <1>0, <2>1, <3>1, PlacesStored
    <3> QED BY <3>1, <3>2, <3>3 DEF StepOK
  <2> QED BY <2>2, <2>3
<1>11. ASSUME TimeoutScan
       PROVE  StepOK
  <2> DEFINE gone == ExpiredIDs
  <2>1. /\ gone \in SUBSET IDs
        /\ \A i \in gone : map[i] # NoQuery
        /\ hand' = hand
        /\ map' = [i \in IDs |-> IF i \in gone THEN NoQuery ELSE map[i]]
        /\ outcome' = [q \in Queries |-> IF q \in {map[i] : i \in gone}
                                           THEN "timeout" ELSE outcome[q]]
        /\ outstanding' = outstanding - Cardinality(gone)
    BY <1>11 DEF TimeoutScan, ExpiredIDs, localVars
  <2> HIDE DEF gone
  <2>2. Unshared' /\ Kept'
    BY <1>0, <2>1, PlacesLeftMap
  <2>3. OutstandingIsSize'
    BY <1>0, <2>1, SizeRemoved
  <2>4. {map[i] : i \in gone} \in SUBSET Queries
    BY <1>c, <2>1
  <2>5. InFlight!Resolve({map[i] : i \in gone}, "timeout")
    BY <1>c, <2>1 DEF InFlight!Resolve
  <2>6. InFlight!Next
    BY <1>a, <2>4, <2>5 DEF InFlight!Next
  <2> QED BY <2>2, <2>3, <2>6 DEF StepOK
<1>12. CASE UNCHANGED vars
  BY <1>e, <1>12 DEF vars, localVars
<1> QED
  BY <1>1, <1>2, <1>3, <1>4, <1>5, <1>6, <1>7, <1>9, <1>10, <1>11, <1>12
  DEF Next, ClientStep, ResponderStep

-----------------------------------------------------------------------------
\* An empty map satisfies the invariant.
LEMMA InitIInv == Init => IInv
<1> SUFFICES ASSUME Init PROVE IInv
  OBVIOUS
<1>1. Types
  BY MapAssumption, AnyIDType
  DEF Init, Types, TableTypes, ThreadTypes, QueryTypes, Points
<1>2. {i \in IDs : map[i] # NoQuery} = {}
  BY DEF Init
<1>3. OutstandingIsSize
  BY <1>2, FS_EmptySet DEF Init, OutstandingIsSize
<1>4. Placed /\ Unshared /\ Kept
  BY MapAssumption DEF Init, Placed, Holding, Unshared, Kept
<1> QED BY <1>1, <1>3, <1>4 DEF IInv

\* The strengthened invariant holds in every reachable state.
LEMMA InductiveInvariant == Spec => []IInv
<1>1. IInv /\ [Next]_vars => IInv'
  BY TypeStep, PlacedStep, SoundStep DEF IInv, StepOK
<1> QED BY InitIInv, <1>1, PTL DEF Spec

\* saveState, getState, restoreState and handleUDPTimeouts keep `outstanding`
\* equal to the number of IDs in the map.
THEOREM OutstandingIsMapSize == Spec => []OutstandingIsSize
  BY InductiveInvariant, PTL DEF IInv

\* All types; in particular the unsigned counter never goes below zero, and an
\* entry's age stops at one above the timeout.
THEOREM TypeCorrect == Spec => []TypeOK
<1>1. IInv => TypeOK
  BY UsedFinite DEF IInv, Types, TableTypes, ThreadTypes, QueryTypes, TypeOK,
                    OutstandingIsSize, Used
<1> QED BY InductiveInvariant, <1>1, PTL

\* The map with random IDs implements UDPInFlight: a query is taken over once
\* and resolved once, whether its ID is drawn twice, its send fails, responses
\* take it out and put it back, or a scan times it out.
THEOREM MapImplementsInFlight == Spec => ImplementsInFlight
<1>1. Init => InFlight!Init
  BY DEF Init, InFlight!Init
<1>2. IInv /\ [Next]_vars => [InFlight!Next]_outcome
  BY SoundStep DEF StepOK
<1> QED BY InductiveInvariant, <1>1, <1>2, PTL DEF Spec, ImplementsInFlight, InFlight!Spec

===============================================================================
