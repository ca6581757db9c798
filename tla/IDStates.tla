------------------------------ MODULE IDStates ------------------------------
(***************************************************************************)
(* The table of in-flight UDP queries of a dnsdist backend                 *)
(* (DownstreamState::idStates) and the threads that work on it:            *)
(*   - the client threads store a query in the next slot, send it to the   *)
(*     backend, and clear the slot if the send failed;                     *)
(*   - the responder threads take the query whose slot number a response   *)
(*     carries, and answer it or put it back when the response is for      *)
(*     something else;                                                     *)
(*   - the health-check thread ages the slots and times queries out.       *)
(* Slots are protected by one-shot guards (a compare-and-swap that is      *)
(* never waited for); the age and inUse of a slot are also read, and the   *)
(* age incremented, without the guard.                                     *)
(*                                                                         *)
(* A step is one access to an atomic that another thread can see, with the *)
(* thread-local work around it. A guard is released in the same step as    *)
(* the last store it protects: in between, no other thread can do anything *)
(* that it could not do before the store.                                  *)
(*                                                                         *)
(* Definitions named X_Y are mutations of X: a plausible bug in the code   *)
(* of X, used to show that the properties notice it.                       *)
(***************************************************************************)
EXTENDS Integers, FiniteSets

CONSTANTS Clients, Responders,  \* threads
          Health,               \* the health-check thread
          Queries,              \* the queries assigned to this backend
          Question,             \* what each query asks: name, type and class
          Sockets,              \* sockets connected to the backend
          SlotCount,            \* maxUDPOutstanding
          UdpTimeout,           \* udpTimeout, in scans of the table
          MaxCopies,            \* bound: responses received per query sent
          NoThread, NoQuery

Threads == Clients \cup Responders \cup {Health}
Slots   == 0 .. SlotCount - 1

ASSUME ThreadAssumption ==
    /\ Health \notin Clients \cup Responders
    /\ Clients \cap Responders = {}
    /\ NoThread \notin Threads
ASSUME QueryAssumption == NoQuery \notin Queries
ASSUME SlotAssumption == SlotCount \in Nat \ {0}
ASSUME TimeoutAssumption == UdpTimeout \in Nat
ASSUME CopiesAssumption == MaxCopies \in Nat

VARIABLES
    inUse,       \* per slot: a query is stored
    locked,      \* per slot: who holds the guard, or NoThread
    age,         \* per slot: scans that found it in use
    internal,    \* per slot: the stored query
    outstanding, \* the backend's count of queries in flight
    idOffset,    \* the next slot to try
    pc,          \* per thread: where it is
    sel,         \* per thread: the slot it works on
    hand,        \* per thread: the query moved into its local state
    pkt,         \* per thread: the query whose packet it sends or received
    empty,       \* per thread: the response has no question section
    sock,        \* per query: the socket it was assigned
    copies,      \* per query: responses that may still come in
    idOf,        \* per query: the ID its packet was sent with
    outcome,     \* per query: what became of it
    scans        \* per query: scans started since it was stored

slotVars  == <<inUse, locked, age, internal>>
localVars == <<sel, hand, pkt, empty>>
queryVars == <<sock, copies, idOf, outcome, scans>>
vars == <<slotVars, outstanding, idOffset, pc, localVars, queryVars>>

-----------------------------------------------------------------------------
(* Control points.                                                         *)

SavePoints    == {"pick", "saveAcquire", "saveCount", "saveWrite"}
GetPoints     == {"getAcquire", "getTake", "getClear"}
RestorePoints == {"restoreAcquire", "restoreCheck", "restoreCount"}
TimeoutPoints == {"visit", "age", "toAcquire", "toRecheck", "toCount"}

ClientPoints    == {"idle", "send", "returned"} \cup SavePoints \cup GetPoints
ResponderPoints == {"idle", "match"} \cup GetPoints \cup RestorePoints
HealthPoints    == {"idle"} \cup TimeoutPoints

Points == ClientPoints \cup ResponderPoints \cup HealthPoints

\* Where a thread holds the guard of the slot it works on.
GuardedPoints == {"saveCount", "saveWrite", "getTake", "getClear",
                  "restoreCheck", "restoreCount", "toRecheck", "toCount"}

SlotTypes ==
    /\ inUse \in [Slots -> BOOLEAN]
    /\ locked \in [Slots -> Threads \cup {NoThread}]
    /\ age \in [Slots -> 0 .. UdpTimeout + 1]
    /\ internal \in [Slots -> Queries \cup {NoQuery}]
    /\ outstanding \in Int
    /\ idOffset \in Slots

ThreadTypes ==
    /\ pc \in [Threads -> Points]
    /\ sel \in [Threads -> Slots]
    /\ hand \in [Threads -> Queries \cup {NoQuery}]
    /\ pkt \in [Threads -> Queries \cup {NoQuery}]
    /\ empty \in [Threads -> BOOLEAN]

QueryTypes ==
    /\ sock \in [Queries -> Sockets]
    /\ copies \in [Queries -> 0 .. MaxCopies]
    /\ idOf \in [Queries -> Slots]
    /\ outcome \in [Queries -> {"new", "pending", "answered", "timeout",
                                "reused", "returned"}]
    /\ scans \in [Queries -> 0 .. UdpTimeout + 1]

\* The types of all variables. The bound on the ages is not a matter of course:
\* they are incremented without the slot's guard.
TypeOK == SlotTypes /\ ThreadTypes /\ QueryTypes

Init ==
    /\ inUse = [s \in Slots |-> FALSE]
    /\ locked = [s \in Slots |-> NoThread]
    /\ age = [s \in Slots |-> 0]
    /\ internal = [s \in Slots |-> NoQuery]
    /\ outstanding = 0
    /\ idOffset = 0
    /\ pc = [t \in Threads |-> "idle"]
    /\ sel = [t \in Threads |-> 0]
    /\ hand = [t \in Threads |-> NoQuery]
    /\ pkt = [t \in Threads |-> NoQuery]
    /\ empty = [t \in Threads |-> FALSE]
    /\ sock \in [Queries -> Sockets]
    /\ copies = [q \in Queries |-> 0]
    /\ idOf = [q \in Queries |-> 0]
    /\ outcome = [q \in Queries |-> "new"]
    /\ scans = [q \in Queries |-> 0]

-----------------------------------------------------------------------------
Goto(t, point) == pc' = [pc EXCEPT ![t] = point]

\* Thread t is done with its query or response: its local state goes.
Finish(t) ==
    /\ Goto(t, "idle")
    /\ sel' = [sel EXCEPT ![t] = 0]
    /\ hand' = [hand EXCEPT ![t] = NoQuery]
    /\ pkt' = [pkt EXCEPT ![t] = NoQuery]
    /\ empty' = [empty EXCEPT ![t] = FALSE]

\* IDState::acquire, one compare-and-swap that succeeds ...
Acquire_NoCompare(t, held) ==
    /\ locked' = [locked EXCEPT ![sel[t]] = t]
    /\ Goto(t, held)

Acquire(t, held) ==
    /\ locked[sel[t]] = NoThread
    /\ locked' = [locked EXCEPT ![sel[t]] = t]
    /\ Goto(t, held)

\* ... or one that finds the slot owned.
Missed(t) ==
    /\ locked[sel[t]] # NoThread
    /\ UNCHANGED locked

\* The end of the scope of thread t's StateGuard.
Release(t) == locked' = [locked EXCEPT ![sel[t]] = NoThread]

Resolve(q, how) == outcome' = [outcome EXCEPT ![q] = how]

-----------------------------------------------------------------------------
(* Client threads: assignOutgoingUDPQueryToBackend.                        *)

\* A query is assigned to the backend; its socket was drawn in Init.
Assign(c, q) ==
    /\ pc[c] = "idle"
    /\ outcome[q] = "new"
    /\ hand' = [hand EXCEPT ![c] = q]
    /\ pkt' = [pkt EXCEPT ![c] = q]
    /\ outcome' = [outcome EXCEPT ![q] = "pending"]
    /\ Goto(c, "pick")
    /\ UNCHANGED <<slotVars, outstanding, idOffset, sel, empty, sock, copies,
                   idOf, scans>>

\* (idOffset++) % idStates.size()
NextOffset_NoWrap == idOffset + 1
NextOffset == (idOffset + 1) % SlotCount

\* saveState: take the next slot number ...
SavePick(c) ==
    /\ pc[c] = "pick"
    /\ sel' = [sel EXCEPT ![c] = idOffset]
    /\ idOffset' = NextOffset
    /\ Goto(c, "saveAcquire")
    /\ UNCHANGED <<slotVars, outstanding, hand, pkt, empty, queryVars>>

\* ... try to own that slot, or go on with the next ...
SaveAcquire(c) ==
    /\ pc[c] = "saveAcquire"
    /\ Acquire(c, "saveCount") \/ (Missed(c) /\ Goto(c, "pick"))
    /\ UNCHANGED <<inUse, age, internal, outstanding, idOffset, localVars,
                   queryVars>>

\* "we are reusing a state"
Reusing_CountAgain(s) == FALSE
Reusing(s) == inUse[s]

\* ... give up the query that is still there, or count a new one ...
SaveCount(c) ==
    /\ pc[c] = "saveCount"
    /\ IF Reusing(sel[c])
         THEN /\ Resolve(internal[sel[c]], "reused")
              /\ internal' = [internal EXCEPT ![sel[c]] = NoQuery]
              /\ UNCHANGED outstanding
         ELSE /\ outstanding' = outstanding + 1
              /\ UNCHANGED <<internal, outcome>>
    /\ Goto(c, "saveWrite")
    /\ UNCHANGED <<inUse, locked, age, idOffset, localVars, sock, copies, idOf,
                   scans>>

\* ... and move the query in.
SaveWrite(c) ==
    /\ pc[c] = "saveWrite"
    /\ internal' = [internal EXCEPT ![sel[c]] = hand[c]]
    /\ age' = [age EXCEPT ![sel[c]] = 0]
    /\ inUse' = [inUse EXCEPT ![sel[c]] = TRUE]
    /\ scans' = [scans EXCEPT ![hand[c]] = 0]
    /\ hand' = [hand EXCEPT ![c] = NoQuery]
    /\ Release(c)
    /\ Goto(c, "send")
    /\ UNCHANGED <<outstanding, idOffset, sel, pkt, empty, sock, copies, idOf,
                   outcome>>

\* udpClientSendRequestToBackend succeeds: responses may come in from now on.
SendQuery(c) ==
    /\ pc[c] = "send"
    /\ idOf' = [idOf EXCEPT ![pkt[c]] = sel[c]]
    /\ copies' = [copies EXCEPT ![pkt[c]] = MaxCopies]
    /\ Finish(c)
    /\ UNCHANGED <<slotVars, outstanding, idOffset, sock, outcome, scans>>

\* It fails: whatever is in the slot by now is cleared, with getState.
SendError(c) ==
    /\ pc[c] = "send"
    /\ Goto(c, "getAcquire")
    /\ UNCHANGED <<slotVars, outstanding, idOffset, localVars, queryVars>>

\* The query getState found is handed back to the caller.
TakeBack_Own(c) ==
    /\ pc[c] = "returned"
    /\ Resolve(pkt[c], "returned")
    /\ Finish(c)
    /\ UNCHANGED <<slotVars, outstanding, idOffset, sock, copies, idOf, scans>>

TakeBack(c) ==
    /\ pc[c] = "returned"
    /\ Resolve(hand[c], "returned")
    /\ Finish(c)
    /\ UNCHANGED <<slotVars, outstanding, idOffset, sock, copies, idOf, scans>>

-----------------------------------------------------------------------------
(* getState, called by the client and the responder threads.               *)

GetAcquire(t) ==
    /\ pc[t] = "getAcquire"
    /\ \/ Acquire(t, "getTake") /\ UNCHANGED localVars
       \/ Missed(t) /\ Finish(t)
    /\ UNCHANGED <<inUse, age, internal, outstanding, idOffset, queryVars>>

GetTake(t) ==
    /\ pc[t] = "getTake"
    /\ IF inUse[sel[t]]
         THEN /\ hand' = [hand EXCEPT ![t] = internal[sel[t]]]
              /\ internal' = [internal EXCEPT ![sel[t]] = NoQuery]
              /\ outstanding' = outstanding - 1
         ELSE UNCHANGED <<hand, internal, outstanding>>
    /\ Goto(t, "getClear")
    /\ UNCHANGED <<inUse, locked, age, idOffset, sel, pkt, empty, queryVars>>

GetClear(t) ==
    /\ pc[t] = "getClear"
    /\ inUse' = [inUse EXCEPT ![sel[t]] = FALSE]
    /\ Release(t)
    /\ IF hand[t] = NoQuery
         THEN Finish(t)
         ELSE /\ Goto(t, IF t \in Clients THEN "returned" ELSE "match")
              /\ UNCHANGED localVars
    /\ UNCHANGED <<age, internal, outstanding, idOffset, queryVars>>

-----------------------------------------------------------------------------
(* Responder threads: processUDPResponseFromBackend.                       *)

\* A response to q's packet comes in, on q's socket and with q's ID. The
\* backend may have left the question section out of an error response.
Receive(r, q) ==
    /\ pc[r] = "idle"
    /\ copies[q] > 0
    /\ copies' = [copies EXCEPT ![q] = @ - 1]
    /\ pkt' = [pkt EXCEPT ![r] = q]
    /\ sel' = [sel EXCEPT ![r] = idOf[q]]
    /\ \E b \in BOOLEAN : empty' = [empty EXCEPT ![r] = b]
    /\ Goto(r, "getAcquire")
    /\ UNCHANGED <<slotVars, outstanding, idOffset, hand, sock, idOf, outcome,
                   scans>>

\* responseContentMatches; an empty error response matches every query.
ContentMatches(r) == empty[r] \/ Question[pkt[r]] = Question[hand[r]]

Matches(r) == sock[pkt[r]] = sock[hand[r]] /\ ContentMatches(r)

\* The response is for the query found: pass it on ...
Answer(r) ==
    /\ pc[r] = "match"
    /\ Matches(r)
    /\ Resolve(hand[r], "answered")
    /\ Finish(r)
    /\ UNCHANGED <<slotVars, outstanding, idOffset, sock, copies, idOf, scans>>

\* ... or put the query back.
Mismatch(r) ==
    /\ pc[r] = "match"
    /\ ~ Matches(r)
    /\ Goto(r, "restoreAcquire")
    /\ UNCHANGED <<slotVars, outstanding, idOffset, localVars, queryVars>>

\* restoreState: a slot that is owned or in use by now is not waited for.
RestoreAcquire(r) ==
    /\ pc[r] = "restoreAcquire"
    /\ \/ Acquire(r, "restoreCheck") /\ UNCHANGED <<localVars, outcome>>
       \/ Missed(r) /\ Resolve(hand[r], "reused") /\ Finish(r)
    /\ UNCHANGED <<inUse, age, internal, outstanding, idOffset, sock, copies,
                   idOf, scans>>

AlreadyUsed_Overwrite(s) == FALSE
AlreadyUsed(s) == inUse[s]

RestoreCheck(r) ==
    /\ pc[r] = "restoreCheck"
    /\ IF AlreadyUsed(sel[r])
         THEN /\ Resolve(hand[r], "reused")
              /\ Release(r)
              /\ Finish(r)
              /\ UNCHANGED <<internal, inUse>>
         ELSE /\ internal' = [internal EXCEPT ![sel[r]] = hand[r]]
              /\ inUse' = [inUse EXCEPT ![sel[r]] = TRUE]
              /\ hand' = [hand EXCEPT ![r] = NoQuery]
              /\ Goto(r, "restoreCount")
              /\ UNCHANGED <<locked, outcome, sel, pkt, empty>>
    /\ UNCHANGED <<age, outstanding, idOffset, sock, copies, idOf, scans>>

RestoreCount(r) ==
    /\ pc[r] = "restoreCount"
    /\ outstanding' = outstanding + 1
    /\ Release(r)
    /\ Finish(r)
    /\ UNCHANGED <<inUse, age, internal, idOffset, queryVars>>

-----------------------------------------------------------------------------
(* The health-check thread: handleUDPTimeouts, once per second.            *)

\* isIDSExpired
Expired(s) == age[s] > UdpTimeout

\* On to the slot after sel[Health], or done.
NextSlot ==
    IF sel[Health] + 1 \in Slots
      THEN /\ sel' = [sel EXCEPT ![Health] = @ + 1]
           /\ Goto(Health, "visit")
      ELSE /\ sel' = [sel EXCEPT ![Health] = 0]
           /\ Goto(Health, "idle")

ScanDue_OffByOne == outstanding > 1
ScanDue == outstanding > 0

\* `scans` only observes: it counts the scans that start after a query was
\* stored, up to the number that lets it time out.
ScanStart ==
    /\ pc[Health] = "idle"
    /\ ScanDue
    /\ sel' = [sel EXCEPT ![Health] = 0]
    /\ scans' = [q \in Queries |->
                   IF outcome[q] = "pending" /\ scans[q] <= UdpTimeout
                     THEN scans[q] + 1 ELSE scans[q]]
    /\ Goto(Health, "visit")
    /\ UNCHANGED <<slotVars, outstanding, idOffset, hand, pkt, empty, sock,
                   copies, idOf, outcome>>

\* The unguarded look at the slot.
ScanVisit ==
    /\ pc[Health] = "visit"
    /\ IF inUse[sel[Health]]
         THEN /\ Goto(Health, IF Expired(sel[Health]) THEN "toAcquire" ELSE "age")
              /\ UNCHANGED sel
         ELSE NextSlot
    /\ UNCHANGED <<slotVars, outstanding, idOffset, hand, pkt, empty, queryVars>>

\* ++ids.age, also unguarded.
ScanAge ==
    /\ pc[Health] = "age"
    /\ age' = [age EXCEPT ![sel[Health]] = @ + 1]
    /\ NextSlot
    /\ UNCHANGED <<inUse, locked, internal, outstanding, idOffset, hand, pkt,
                   empty, queryVars>>

TimeoutAcquire ==
    /\ pc[Health] = "toAcquire"
    /\ \/ Acquire(Health, "toRecheck") /\ UNCHANGED sel
       \/ Missed(Health) /\ NextSlot
    /\ UNCHANGED <<inUse, age, internal, outstanding, idOffset, hand, pkt,
                   empty, queryVars>>

\* "check again, now that we have locked this state"
StillExpired_UseOnly(s) == inUse[s]
StillExpired(s) == inUse[s] /\ Expired(s)

TimeoutRecheck ==
    /\ pc[Health] = "toRecheck"
    /\ IF StillExpired(sel[Health])
         THEN /\ age' = [age EXCEPT ![sel[Health]] = 0]
              /\ inUse' = [inUse EXCEPT ![sel[Health]] = FALSE]
              /\ Goto(Health, "toCount")
              /\ UNCHANGED <<locked, sel>>
         ELSE /\ Release(Health)
              /\ NextSlot
              /\ UNCHANGED <<age, inUse>>
    /\ UNCHANGED <<internal, outstanding, idOffset, hand, pkt, empty, queryVars>>

\* The rest of handleUDPTimeout.
TimeoutCount ==
    /\ pc[Health] = "toCount"
    /\ outstanding' = outstanding - 1
    /\ Resolve(internal[sel[Health]], "timeout")
    /\ internal' = [internal EXCEPT ![sel[Health]] = NoQuery]
    /\ Release(Health)
    /\ NextSlot
    /\ UNCHANGED <<inUse, age, idOffset, hand, pkt, empty, sock, copies, idOf,
                   scans>>

-----------------------------------------------------------------------------
SaveStep(c)    == SavePick(c) \/ SaveAcquire(c) \/ SaveCount(c) \/ SaveWrite(c)
SendStep(c)    == SendQuery(c) \/ SendError(c) \/ TakeBack(c)
GetStep(t)     == GetAcquire(t) \/ GetTake(t) \/ GetClear(t)
MatchStep(r)   == Answer(r) \/ Mismatch(r)
RestoreStep(r) == RestoreAcquire(r) \/ RestoreCheck(r) \/ RestoreCount(r)
HealthStep     == \/ ScanStart \/ ScanVisit \/ ScanAge
                  \/ TimeoutAcquire \/ TimeoutRecheck \/ TimeoutCount

ClientStep(c)    == SaveStep(c) \/ SendStep(c) \/ GetStep(c)
ResponderStep(r) == GetStep(r) \/ MatchStep(r) \/ RestoreStep(r)

Next ==
    \/ \E c \in Clients : ClientStep(c) \/ \E q \in Queries : Assign(c, q)
    \/ \E r \in Responders : ResponderStep(r) \/ \E q \in Queries : Receive(r, q)
    \/ HealthStep

Spec == Init /\ [][Next]_vars

\* What keeps the threads going. A thread that was scheduled with work to do
\* finishes it, and the health-check thread comes round every second; nothing
\* obliges clients to send queries or the backend to respond.
Fairness ==
    /\ \A c \in Clients : WF_vars(ClientStep(c))
    /\ \A r \in Responders : WF_vars(ResponderStep(r))
    /\ WF_vars(HealthStep)

FairSpec == Spec /\ Fairness

-----------------------------------------------------------------------------
(* Properties.                                                             *)

\* Slot s is part of what `outstanding` counts. A thread in the middle of
\* storing, taking, restoring or timing out a query has updated the count and
\* not yet the slot, or the other way round.
OwnerAt(s, points) == locked[s] # NoThread /\ pc[locked[s]] \in points

Counted(s) ==
    \/ OwnerAt(s, {"saveWrite", "toCount"})
    \/ inUse[s] /\ ~ OwnerAt(s, {"getClear", "restoreCount"})

\* outstanding, which load balancing, the outstanding-queries limit and the
\* timeout scan rely on, is at every moment the exact number of slots in use,
\* up to the one operation each guard holder has in progress. In particular it
\* never goes below zero (it is an unsigned counter in dnsdist.hh).
OutstandingExact == outstanding = Cardinality({s \in Slots : Counted(s)})

\* A slot is owned by the one thread that is inside a guarded section on it,
\* and while it is, nobody else marks it used or free: a restore in progress
\* still finds its slot in use when it counts it, a timeout still finds it free.
GuardDiscipline ==
    /\ \A s \in Slots, t \in Threads :
           locked[s] = t <=> pc[t] \in GuardedPoints /\ sel[t] = s
    /\ \A t \in Threads :
           /\ pc[t] = "restoreCount" => inUse[sel[t]]
           /\ pc[t] = "toCount" => ~ inUse[sel[t]]

\* The unguarded ++age follows an unguarded check of the same age, and nobody
\* else lets it grow: the slot's age stops at one above the timeout.
AgeBounded == pc[Health] = "age" => age[sel[Health]] <= UdpTimeout

\* A pending query is in exactly one place, the local state of one thread or
\* one slot of the table, and a resolved query is nowhere: no query (and no
\* DOHUnit, which would leak or be freed twice) is lost or resolved twice by
\* evictions, restores, failed sends and timeouts that meet on the same slot.
Conserved ==
    \A q \in Queries :
        Cardinality({t \in Threads : hand[t] = q})
          + Cardinality({s \in Slots : internal[s] = q})
        = (IF outcome[q] = "pending" THEN 1 ELSE 0)

\* The health-check thread times a query out only in a scan that comes after
\* udpTimeout full ones since the query was stored, whatever was in the slot
\* when handleUDPTimeouts looked at it without the guard.
NotTimedOutEarly ==
    [][\A q \in Queries :
         outcome[q] # "timeout" /\ outcome'[q] = "timeout"
           => scans[q] > UdpTimeout]_vars

\* Every query handed to the backend is resolved in the end: the timeout scan
\* frees the slots of the queries the backend never answers, and none of them
\* keeps its client waiting for ever.
EventuallyResolved ==
    \A q \in Queries :
        outcome[q] = "pending" ~> outcome[q] \notin {"new", "pending"}

\* The table with all its guards implements a set of queries that are taken
\* over once and resolved once.
InFlight == INSTANCE UDPInFlight WITH Queries <- Queries, outcome <- outcome
ImplementsInFlight == InFlight!Spec

=============================================================================
