---------------------------- MODULE IDStatesMap ----------------------------
(***************************************************************************)
(* The other table of in-flight UDP queries of a dnsdist backend, used     *)
(* when setRandomizedIdsOverUDP is set: a map (d_idStatesMap) from random  *)
(* IDs to queries, under one lock. Every operation is one critical         *)
(* section; what interleaves are the sequences of operations of the client *)
(* and the responder threads (store, send, clear on failure; take, compare *)
(* and put back) and the timeout scan.                                     *)
(***************************************************************************)
EXTENDS Integers, FiniteSets

CONSTANTS Clients, Responders, Queries, Question, Sockets,
          IDs,          \* the 16-bit IDs
          UdpTimeout,
          MaxCopies,    \* bound: responses received per query sent
          NoQuery

Threads == Clients \cup Responders

ASSUME MapAssumption ==
    /\ Clients \cap Responders = {}
    /\ NoQuery \notin Queries
    /\ IsFiniteSet(IDs) /\ IDs # {}
    /\ UdpTimeout \in Nat /\ MaxCopies \in Nat

VARIABLES
    map,         \* per ID: the stored query, or NoQuery if the ID is not there
    age,         \* per ID: age of the entry
    outstanding,
    pc, sel, hand, pkt, empty,      \* per thread, as in IDStates
    sock, copies, idOf, outcome     \* per query, as in IDStates

localVars == <<pc, sel, hand, pkt, empty>>
vars == <<map, age, outstanding, localVars, sock, copies, idOf, outcome>>

Points == {"idle", "save", "send", "clear", "get", "match", "restore"}

AnyID == CHOOSE i \in IDs : TRUE

\* The types of all variables; `outstanding` is a non-negative counter.
TypeOK ==
    /\ map \in [IDs -> Queries \cup {NoQuery}]
    /\ age \in [IDs -> 0 .. UdpTimeout + 1]
    /\ outstanding \in Nat
    /\ pc \in [Threads -> Points]
    /\ sel \in [Threads -> IDs]
    /\ hand \in [Threads -> Queries \cup {NoQuery}]
    /\ pkt \in [Threads -> Queries \cup {NoQuery}]
    /\ empty \in [Threads -> BOOLEAN]
    /\ sock \in [Queries -> Sockets]
    /\ copies \in [Queries -> 0 .. MaxCopies]
    /\ idOf \in [Queries -> IDs]
    /\ outcome \in [Queries -> {"new", "pending", "answered", "timeout",
                                "reused", "returned"}]

Init ==
    /\ map = [i \in IDs |-> NoQuery]
    /\ age = [i \in IDs |-> 0]
    /\ outstanding = 0
    /\ pc = [t \in Threads |-> "idle"]
    /\ sel = [t \in Threads |-> AnyID]
    /\ hand = [t \in Threads |-> NoQuery]
    /\ pkt = [t \in Threads |-> NoQuery]
    /\ empty = [t \in Threads |-> FALSE]
    /\ sock \in [Queries -> Sockets]
    /\ copies = [q \in Queries |-> 0]
    /\ idOf = [q \in Queries |-> AnyID]
    /\ outcome = [q \in Queries |-> "new"]

Goto(t, point) == pc' = [pc EXCEPT ![t] = point]

Finish(t) ==
    /\ Goto(t, "idle")
    /\ sel' = [sel EXCEPT ![t] = AnyID]
    /\ hand' = [hand EXCEPT ![t] = NoQuery]
    /\ pkt' = [pkt EXCEPT ![t] = NoQuery]
    /\ empty' = [empty EXCEPT ![t] = FALSE]

Resolve(q, how) == outcome' = [outcome EXCEPT ![q] = how]

Emplaced(i) == map[i] = NoQuery

-----------------------------------------------------------------------------
(* Client threads.                                                         *)

Assign(c, q) ==
    /\ pc[c] = "idle"
    /\ outcome[q] = "new"
    /\ hand' = [hand EXCEPT ![c] = q]
    /\ pkt' = [pkt EXCEPT ![c] = q]
    /\ outcome' = [outcome EXCEPT ![q] = "pending"]
    /\ Goto(c, "save")
    /\ UNCHANGED <<map, age, outstanding, sel, empty, sock, copies, idOf>>

CountSaved_Always(i) == outstanding + 1
CountSaved(i) == IF Emplaced(i) THEN outstanding + 1 ELSE outstanding

\* saveState. Five random draws may all hit IDs in use, and the last of them is
\* used all the same: any ID can be the one. Only an ID that was free adds to
\* the outstanding queries.
SaveState(c, i) ==
    /\ pc[c] = "save"
    /\ map' = [map EXCEPT ![i] = hand[c]]
    /\ age' = [age EXCEPT ![i] = 0]
    /\ sel' = [sel EXCEPT ![c] = i]
    /\ hand' = [hand EXCEPT ![c] = NoQuery]
    /\ IF Emplaced(i)
         THEN UNCHANGED outcome
         ELSE Resolve(map[i], "reused")
    /\ outstanding' = CountSaved(i)
    /\ Goto(c, "send")
    /\ UNCHANGED <<pkt, empty, sock, copies, idOf>>

SendQuery(c) ==
    /\ pc[c] = "send"
    /\ idOf' = [idOf EXCEPT ![pkt[c]] = sel[c]]
    /\ copies' = [copies EXCEPT ![pkt[c]] = MaxCopies]
    /\ Finish(c)
    /\ UNCHANGED <<map, age, outstanding, sock, outcome>>

SendError(c) ==
    /\ pc[c] = "send"
    /\ Goto(c, "clear")
    /\ UNCHANGED <<map, age, outstanding, sel, hand, pkt, empty, sock, copies,
                   idOf, outcome>>

\* getState for a failed send: what is found is handed back to the caller.
ClearState(c) ==
    /\ pc[c] = "clear"
    /\ IF Emplaced(sel[c])
         THEN UNCHANGED <<map, outstanding, outcome>>
         ELSE /\ map' = [map EXCEPT ![sel[c]] = NoQuery]
              /\ outstanding' = outstanding - 1
              /\ Resolve(map[sel[c]], "returned")
    /\ Finish(c)
    /\ UNCHANGED <<age, sock, copies, idOf>>

-----------------------------------------------------------------------------
(* Responder threads.                                                      *)

Receive(r, q) ==
    /\ pc[r] = "idle"
    /\ copies[q] > 0
    /\ copies' = [copies EXCEPT ![q] = @ - 1]
    /\ pkt' = [pkt EXCEPT ![r] = q]
    /\ sel' = [sel EXCEPT ![r] = idOf[q]]
    /\ \E b \in BOOLEAN : empty' = [empty EXCEPT ![r] = b]
    /\ Goto(r, "get")
    /\ UNCHANGED <<map, age, outstanding, hand, sock, idOf, outcome>>

GetState(r) ==
    /\ pc[r] = "get"
    /\ IF Emplaced(sel[r])
         THEN Finish(r) /\ UNCHANGED <<map, outstanding>>
         ELSE /\ hand' = [hand EXCEPT ![r] = map[sel[r]]]
              /\ map' = [map EXCEPT ![sel[r]] = NoQuery]
              /\ outstanding' = outstanding - 1
              /\ Goto(r, "match")
              /\ UNCHANGED <<sel, pkt, empty>>
    /\ UNCHANGED <<age, sock, copies, idOf, outcome>>

Matches(r) ==
    /\ sock[pkt[r]] = sock[hand[r]]
    /\ empty[r] \/ Question[pkt[r]] = Question[hand[r]]

Answer(r) ==
    /\ pc[r] = "match"
    /\ Matches(r)
    /\ Resolve(hand[r], "answered")
    /\ Finish(r)
    /\ UNCHANGED <<map, age, outstanding, sock, copies, idOf>>

Mismatch(r) ==
    /\ pc[r] = "match"
    /\ ~ Matches(r)
    /\ Goto(r, "restore")
    /\ UNCHANGED <<map, age, outstanding, sel, hand, pkt, empty, sock, copies,
                   idOf, outcome>>

\* restoreState. A new entry starts again with age 0. If the ID was taken in
\* the meantime, the query is given up.
RestoreState(r) ==
    /\ pc[r] = "restore"
    /\ IF Emplaced(sel[r])
         THEN /\ map' = [map EXCEPT ![sel[r]] = hand[r]]
              /\ age' = [age EXCEPT ![sel[r]] = 0]
              /\ outstanding' = outstanding + 1
              /\ UNCHANGED outcome
         ELSE /\ Resolve(hand[r], "reused")
              /\ UNCHANGED <<map, age, outstanding>>
    /\ Finish(r)
    /\ UNCHANGED <<sock, copies, idOf>>

-----------------------------------------------------------------------------
(* The health-check thread: handleUDPTimeouts, under the lock throughout.  *)

ExpiredIDs_Late == {i \in IDs : map[i] # NoQuery /\ age[i] > UdpTimeout + 1}
ExpiredIDs == {i \in IDs : map[i] # NoQuery /\ age[i] > UdpTimeout}

Aged_Stuck(i) == age[i]
Aged(i) == IF map[i] # NoQuery THEN age[i] + 1 ELSE age[i]

TimeoutScan_KeepEntries ==
    LET gone == {map[i] : i \in ExpiredIDs} IN
    /\ \E i \in IDs : map[i] # NoQuery
    /\ outcome' = [q \in Queries |-> IF q \in gone THEN "timeout" ELSE outcome[q]]
    /\ outstanding' = outstanding - Cardinality(ExpiredIDs)
    /\ age' = [i \in IDs |-> IF i \in ExpiredIDs THEN 0 ELSE Aged(i)]
    /\ UNCHANGED <<map, localVars, sock, copies, idOf>>

TimeoutScan ==
    LET gone == {map[i] : i \in ExpiredIDs} IN
    /\ \E i \in IDs : map[i] # NoQuery
    /\ outcome' = [q \in Queries |-> IF q \in gone THEN "timeout" ELSE outcome[q]]
    /\ outstanding' = outstanding - Cardinality(ExpiredIDs)
    /\ map' = [i \in IDs |-> IF i \in ExpiredIDs THEN NoQuery ELSE map[i]]
    /\ age' = [i \in IDs |-> IF i \in ExpiredIDs THEN 0 ELSE Aged(i)]
    /\ UNCHANGED <<localVars, sock, copies, idOf>>

-----------------------------------------------------------------------------
ClientStep(c) ==
    \/ \E i \in IDs : SaveState(c, i)
    \/ SendQuery(c) \/ SendError(c) \/ ClearState(c)
ResponderStep(r) == GetState(r) \/ Answer(r) \/ Mismatch(r) \/ RestoreState(r)

Next ==
    \/ \E c \in Clients : ClientStep(c) \/ \E q \in Queries : Assign(c, q)
    \/ \E r \in Responders : ResponderStep(r) \/ \E q \in Queries : Receive(r, q)
    \/ TimeoutScan

Spec == Init /\ [][Next]_vars

Fairness ==
    /\ \A c \in Clients : WF_vars(ClientStep(c))
    /\ \A r \in Responders : WF_vars(ResponderStep(r))
    /\ WF_vars(TimeoutScan)

FairSpec == Spec /\ Fairness

-----------------------------------------------------------------------------
(* Properties.                                                             *)

\* outstanding is the number of IDs in the map, although it is kept by the
\* threads and never computed from the map.
OutstandingIsSize == outstanding = Cardinality({i \in IDs : map[i] # NoQuery})

\* Every query is eventually resolved, although a mismatching response that
\* takes it out and puts it back starts its age again at zero.
EventuallyResolved ==
    \A q \in Queries :
        outcome[q] = "pending" ~> outcome[q] \notin {"new", "pending"}

\* The map with random IDs keeps the same promise as the table of slots: a
\* query is taken over once and resolved once.
InFlight == INSTANCE UDPInFlight WITH Queries <- Queries, outcome <- outcome
ImplementsInFlight == InFlight!Spec

=============================================================================
