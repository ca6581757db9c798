--------------------------- MODULE ZoneTransfers ---------------------------
(***************************************************************************)
(* The secondary side of the communicator of the authoritative server: the *)
(* main thread compares serials with the primaries, for zones a NOTIFY     *)
(* came in for or whose refresh time has come, and queues transfers; the   *)
(* retrieval threads take them from the queue and run suck(). They share   *)
(* the queue, the set of zones in progress, the checks asked for and the   *)
(* zones that failed, under one lock (d_data) that none of them holds      *)
(* across a network or a database access.                                  *)
(*                                                                         *)
(* A step is one critical section, or one access to the database or the    *)
(* network. The refresh time of a zone and the time a failed zone is left  *)
(* alone are timers that may run out at any moment. d_any_sem only shortens*)
(* the pause between two rounds of the main loop and is left out. Serials  *)
(* are far from wrapping. The order of the queue is the order of the       *)
(* sequence: priority first, then arrival.                                 *)
(*                                                                         *)
(* Definitions named X_Y are mutations of X.                               *)
(***************************************************************************)
EXTENDS Integers, FiniteSets, SequencesExt

CONSTANTS Zones, Primaries,
          Retrievers,       \* the retrieval threads
          FirstPrimary,     \* the first in the zones' list of primaries
          IXFR,             \* the zones have the IXFR metadata
          AXFRLowerSerial,  \* axfr-lower-serial
          CheckSignatures,  \* secondary-check-signature-freshness
          MaxSerial,        \* bound: versions of a zone
          MaxEvents,        \* bound: how many of the events below happen
          NoPrimary, NoRequest

Versions   == 1 .. MaxSerial
Operator == 1           \* PdnsControl and Api, which come before all others
Notify == 2
SerialRefresh == 3
SignaturesRefresh == 4
Priorities == Operator .. SignaturesRefresh

Requests == [zone : Zones, primary : Primaries, prio : Priorities]

ASSUME PrimaryAssumption ==
    FirstPrimary \in Primaries /\ NoPrimary \notin Primaries /\ IsFiniteSet(Primaries)
ASSUME RetrieverAssumption == IsFiniteSet(Retrievers)
ASSUME RequestAssumption == NoRequest \notin Requests
ASSUME TransferAssumption ==
    /\ {IXFR, AXFRLowerSerial, CheckSignatures} \subseteq BOOLEAN
    /\ MaxSerial \in Nat \ {0}
    /\ MaxEvents \in Nat

VARIABLES
    \* the database
    serial,     \* per zone: the serial stored, 0 if there is no SOA
    pure,       \* per zone: the records are those of that serial
    unfresh,    \* per zone: getUnfreshSecondaryInfos returns it
    \* d_data
    queue,      \* d_suckdomains
    inprogress, \* d_inprogress
    tocheck,    \* d_tocheck: per zone, the primaries to ask, {} if none
    excluded,   \* d_failedSecondaryRefresh: zones whose time is not over
    sem,        \* d_suck_sem
    \* the main thread in secondaryRefresh
    mpc,        \* where it is
    chk,        \* per zone: the check it makes
    \* the retrieval threads
    pc, req,    \* where each is, the request it took
    base,       \* the serial it will ask a difference to
    got,        \* the version the primary is sending, 0 if none
    \* the rest of the world
    theirs,     \* per primary and zone: its serial
    events      \* per kind: crashes, failed transfers and unanswered checks;
                \* transfers the operator asked for; lost packets;
                \* zones found signed anew

dbVars    == <<serial, pure, unfresh>>
dataVars  == <<queue, inprogress, tocheck, excluded, sem>>
mainVars  == <<mpc, chk>>
threadVars == <<pc, req, base, got>>
worldVars == <<theirs, events>>
vars == <<dbVars, dataVars, mainVars, threadVars, worldVars>>

EventKinds == {"fault", "retrieve", "loss", "resigned"}

NoCheck == [st |-> "none", from |-> {}, primary |-> NoPrimary, notified |-> FALSE,
            theirs |-> 0, ours |-> 0]

Checks == [st : {"none", "picked", "asked", "answered", "silent", "compared"},
           from : SUBSET Primaries, primary : Primaries \cup {NoPrimary},
           notified : BOOLEAN, theirs : 0 .. MaxSerial, ours : 0 .. MaxSerial]

DatabaseTypes ==
    /\ serial \in [Zones -> 0 .. MaxSerial]
    /\ pure \in [Zones -> BOOLEAN]
    /\ unfresh \in [Zones -> BOOLEAN]
    /\ theirs \in [Primaries -> [Zones -> Versions]]

\* UniQueue: one entry per zone and primary.
UniQueue ==
    /\ queue \in Seq(Requests)
    /\ \A i, j \in 1 .. Len(queue) :
           queue[i].zone = queue[j].zone /\ queue[i].primary = queue[j].primary => i = j

DataTypes ==
    /\ UniQueue
    /\ inprogress \subseteq Zones
    /\ tocheck \in [Zones -> SUBSET Primaries]
    /\ excluded \in [Zones -> BOOLEAN]
    /\ sem \in Nat
    /\ events \in [EventKinds -> 0 .. MaxEvents]

ThreadTypes ==
    /\ mpc \in {"idle", "select", "check"}
    /\ chk \in [Zones -> Checks]
    /\ pc \in [Retrievers -> {"wait", "take", "suck", "read", "commit", "deltas",
                              "committed", "leave"}]
    /\ req \in [Retrievers -> Requests \cup {NoRequest}]
    /\ base \in [Retrievers -> 0 .. MaxSerial]
    /\ got \in [Retrievers -> 0 .. MaxSerial]

\* The types of all variables; a zone is queued at most once for a primary.
TypeOK == DatabaseTypes /\ DataTypes /\ ThreadTypes

\* A zone that was checked some time ago, or a new one.
Init ==
    /\ theirs = [p \in Primaries |-> [z \in Zones |-> 1]]
    /\ serial \in [Zones -> {0, 1}]
    /\ pure = [z \in Zones |-> TRUE]
    /\ unfresh = [z \in Zones |-> serial[z] = 0]
    /\ queue = <<>>
    /\ inprogress = {}
    /\ tocheck = [z \in Zones |-> {}]
    /\ excluded = [z \in Zones |-> FALSE]
    /\ sem = 0
    /\ mpc = "idle"
    /\ chk = [z \in Zones |-> NoCheck]
    /\ pc = [t \in Retrievers |-> "wait"]
    /\ req = [t \in Retrievers |-> NoRequest]
    /\ base = [t \in Retrievers |-> 0]
    /\ got = [t \in Retrievers |-> 0]
    /\ events = [k \in EventKinds |-> 0]

Event(kind) ==
    /\ events["fault"] + events["retrieve"] + events["loss"] + events["resigned"] < MaxEvents
    /\ events' = [events EXCEPT ![kind] = @ + 1]
    /\ UNCHANGED theirs

Fault == Event("fault")

-----------------------------------------------------------------------------
(* The queue of transfers.                                                 *)

Queued(z, p) == \E i \in 1 .. Len(queue) : queue[i].zone = z /\ queue[i].primary = p

\* The place of a request in the order of d_suckdomains (priorityAndOrder).
Insert(q, r) ==
    InsertAt(q, 1 + Cardinality({i \in 1 .. Len(q) : q[i].prio <= r.prio}), r)

Request(z, p, prio) == [zone |-> z, primary |-> p, prio |-> prio]

\* addSuckRequest: a request that is queued already may only gain priority.
AddSuckRequest_PostAlways(z, p, prio) ==
    /\ \/ /\ ~Queued(z, p)
          /\ queue' = Insert(queue, Request(z, p, prio))
       \/ \E i \in 1 .. Len(queue) :
             /\ queue[i].zone = z /\ queue[i].primary = p
             /\ queue' = IF prio < queue[i].prio
                         THEN Insert(RemoveAt(queue, i), Request(z, p, prio))
                         ELSE queue
    /\ sem' = sem + 1

AddSuckRequest_NotUnique(z, p, prio) ==
    /\ queue' = Insert(queue, Request(z, p, prio))
    /\ sem' = sem + 1

AddSuckRequest(z, p, prio) ==
    \/ /\ ~Queued(z, p)
       /\ queue' = Insert(queue, Request(z, p, prio))
       /\ sem' = sem + 1
    \/ \E i \in 1 .. Len(queue) :
          /\ queue[i].zone = z /\ queue[i].primary = p
          /\ queue' = IF prio < queue[i].prio
                      THEN Insert(RemoveAt(queue, i), Request(z, p, prio))
                      ELSE queue
          /\ UNCHANGED sem

\* pdns_control retrieve, or a PUT to the API.
Retrieve(z, p) ==
    /\ Event("retrieve")
    /\ AddSuckRequest(z, p, Operator)
    /\ UNCHANGED <<dbVars, inprogress, tocheck, excluded, mainVars, threadVars>>

\* processNotify for a zone we have, from one of its primaries: only that one
\* will be asked (addSecondaryCheckRequest).
CheckRequested(z, p) ==
    tocheck' = [tocheck EXCEPT ![z] = {p}]

ReceiveNotify(z, p) ==
    /\ CheckRequested(z, p)
    /\ UNCHANGED <<dbVars, queue, inprogress, excluded, sem, mainVars, threadVars,
                   worldVars>>

-----------------------------------------------------------------------------
(* The main thread: secondaryRefresh.                                      *)

\* Zones with a NOTIFY are checked first; those being transferred right now
\* stay on the list.
Requeued_None == [z \in Zones |-> {}]
Requeued == [z \in Zones |-> IF z \in inprogress THEN tocheck[z] ELSE {}]

Notified == {z \in Zones \ inprogress : tocheck[z] # {}}

PickedCheck(ps, notified) ==
    [NoCheck EXCEPT !.st = "picked", !.from = ps, !.notified = notified]

\* The first critical section, and getUnfreshSecondaryInfos if it found nothing.
Collect ==
    /\ mpc = "idle"
    /\ tocheck' = Requeued
    /\ excluded' = [z \in Zones |-> excluded[z] /\ z \notin Notified]
    /\ chk' = [z \in Zones |->
                 CASE z \in Notified -> PickedCheck(tocheck[z], TRUE)
                   [] Notified = {} /\ unfresh[z] -> PickedCheck(Primaries, FALSE)
                   [] OTHER -> NoCheck]
    /\ mpc' = "select"
    /\ UNCHANGED <<dbVars, queue, inprogress, sem, threadVars, worldVars>>

First(ps) == IF FirstPrimary \in ps THEN FirstPrimary ELSE CHOOSE p \in ps : TRUE

\* The second one: zones that failed a moment ago, are queued, or are being
\* transferred are skipped.
Skipped(z) ==
    excluded[z] \/ Queued(z, First(chk[z].from)) \/ z \in inprogress

Select ==
    /\ mpc = "select"
    /\ chk' = [z \in Zones |->
                 IF chk[z].st = "picked" /\ ~Skipped(z)
                 THEN [chk[z] EXCEPT !.st = "asked"] ELSE NoCheck]
    /\ mpc' = "check"
    /\ UNCHANGED <<dbVars, dataVars, threadVars, worldVars>>

SetCheck(z, c) == chk' = [chk EXCEPT ![z] = c]

\* The Inflighter asks one of the primaries at random, and gets its serial ...
Answered(z) ==
    /\ mpc = "check"
    /\ chk[z].st = "asked"
    /\ \E p \in chk[z].from :
          SetCheck(z, [chk[z] EXCEPT !.st = "answered", !.primary = p,
                                     !.theirs = theirs[p][z]])
    /\ UNCHANGED <<dbVars, dataVars, mpc, threadVars, worldVars>>

\* ... or nothing in time.
Unanswered(z) ==
    /\ mpc = "check"
    /\ chk[z].st = "asked"
    /\ Fault
    /\ SetCheck(z, [chk[z] EXCEPT !.st = "silent"])
    /\ UNCHANGED <<dbVars, dataVars, mpc, threadVars>>

\* When all answers are in, they are gone through.
AllAnswered == mpc = "check" /\ \A z \in Zones : chk[z].st # "asked"

\* markAsFailed; the zone of a NOTIFY is marked stale, so that it is checked again.
ProcessSilent(z) ==
    /\ AllAnswered
    /\ chk[z].st = "silent"
    /\ excluded' = [excluded EXCEPT ![z] = TRUE]
    /\ unfresh' = [unfresh EXCEPT ![z] = @ \/ chk[z].notified]
    /\ SetCheck(z, NoCheck)
    /\ UNCHANGED <<serial, pure, queue, inprogress, tocheck, sem, mpc, threadVars,
                   worldVars>>

\* The serial in the database is read, in its own time. (The query cache may answer
\* for it: with an earlier serial at worst, which costs one more transfer.)
Compare(z) ==
    /\ AllAnswered
    /\ chk[z].st = "answered"
    /\ excluded' = [excluded EXCEPT ![z] = FALSE]
    /\ SetCheck(z, [chk[z] EXCEPT !.st = "compared", !.ours = serial[z]])
    /\ UNCHANGED <<dbVars, queue, inprogress, tocheck, sem, mpc, threadVars, worldVars>>

HasSOA(c) == c.ours # 0

Behind_OffByOne(c) == ~HasSOA(c) \/ c.theirs > c.ours + 1
Behind(c) ==
    ~HasSOA(c) \/ c.theirs > c.ours \/ (c.theirs < c.ours /\ AXFRLowerSerial)

Concluded(z) ==
    /\ AllAnswered
    /\ chk[z].st = "compared"
    /\ SetCheck(z, NoCheck)
    /\ UNCHANGED <<serial, pure, inprogress, tocheck, excluded, mpc, threadVars>>

\* "Domain is fresh", or more recent than the primary.
Fresh(z) ==
    /\ Concluded(z)
    /\ ~Behind(chk[z])
    /\ unfresh' = [unfresh EXCEPT ![z] = FALSE]
    /\ UNCHANGED <<queue, sem, worldVars>>

\* "Domain is stale", or has no SOA yet.
Stale(z) ==
    /\ Concluded(z)
    /\ Behind(chk[z])
    /\ AddSuckRequest(z, chk[z].primary,
                      IF chk[z].notified THEN Notify ELSE SerialRefresh)
    /\ UNCHANGED <<unfresh, worldVars>>

\* The serials agree and the signatures do not.
SignaturesDiffer(z) ==
    /\ Concluded(z)
    /\ CheckSignatures
    /\ HasSOA(chk[z]) /\ chk[z].theirs = chk[z].ours
    /\ Event("resigned")
    /\ AddSuckRequest(z, chk[z].primary,
                      IF chk[z].notified THEN Notify ELSE SignaturesRefresh)
    /\ UNCHANGED unfresh

EndRefresh ==
    /\ AllAnswered
    /\ \A z \in Zones : chk[z].st = "none"
    /\ mpc' = "idle"
    /\ UNCHANGED <<dbVars, dataVars, chk, threadVars, worldVars>>

-----------------------------------------------------------------------------
(* A retrieval thread: retrievalLoopThread and suck.                       *)

Goto(t, point) == pc' = [pc EXCEPT ![t] = point]

Leave(t) ==
    /\ Goto(t, "leave")
    /\ base' = [base EXCEPT ![t] = 0]
    /\ got' = [got EXCEPT ![t] = 0]

SemWait(t) ==
    /\ pc[t] = "wait"
    /\ sem > 0
    /\ sem' = sem - 1
    /\ Goto(t, "take")
    /\ UNCHANGED <<dbVars, queue, inprogress, tocheck, excluded, mainVars, req, base, got,
                   worldVars>>

\* An empty queue sends the thread back to the semaphore.
Take(t) ==
    /\ pc[t] = "take"
    /\ IF queue = <<>>
       THEN /\ Goto(t, "wait")
            /\ UNCHANGED <<req, queue>>
       ELSE /\ req' = [req EXCEPT ![t] = Head(queue)]
            /\ queue' = Tail(queue)
            /\ Goto(t, "suck")
    /\ UNCHANGED <<dbVars, inprogress, tocheck, excluded, sem, mainVars, base, got, worldVars>>

Zone(t) == req[t].zone

\* suck: a zone that is being transferred already is left alone.
Busy_Ignored(z) == FALSE
Busy(z) == z \in inprogress

SuckBegin(t) ==
    /\ pc[t] = "suck"
    /\ IF Busy(Zone(t))
       THEN /\ Goto(t, "wait")
            /\ req' = [req EXCEPT ![t] = NoRequest]
            /\ UNCHANGED <<inprogress, base>>
       ELSE /\ inprogress' = inprogress \cup {Zone(t)}
            /\ base' = [base EXCEPT ![t] = IF IXFR THEN serial[Zone(t)] ELSE 0]
            /\ Goto(t, "read")
            /\ UNCHANGED req
    /\ UNCHANGED <<dbVars, queue, tocheck, excluded, sem, mainVars, got, worldVars>>

Receive(t, point) ==
    /\ pc[t] = "read"
    /\ got' = [got EXCEPT ![t] = theirs[req[t].primary][Zone(t)]]
    /\ Goto(t, point)
    /\ UNCHANGED <<dbVars, dataVars, mainVars, req, worldVars>>

\* The whole zone comes in, also from a primary that cannot tell the difference.
ReceiveAXFR(t) ==
    /\ Receive(t, "commit")
    /\ base' = [base EXCEPT ![t] = 0]

\* The differences come in, nothing if the primary is not ahead of us.
ReceiveIXFR(t) ==
    /\ base[t] # 0
    /\ Receive(t, "deltas")
    /\ UNCHANGED base

\* ixfrSuck: every difference is a transaction of its own.
ApplyDelta(t) ==
    /\ pc[t] = "deltas"
    /\ base[t] < got[t]
    /\ pure' = [pure EXCEPT ![Zone(t)] = @ /\ serial[Zone(t)] = base[t]]
    /\ serial' = [serial EXCEPT ![Zone(t)] = base[t] + 1]
    /\ base' = [base EXCEPT ![t] = @ + 1]
    /\ UNCHANGED <<unfresh, dataVars, mainVars, pc, req, got, worldVars>>

\* An incremental transfer leaves the zone to the next check.
EndIXFR(t) ==
    /\ pc[t] = "deltas"
    /\ base[t] >= got[t]
    /\ Leave(t)
    /\ UNCHANGED <<dbVars, dataVars, mainVars, req, worldVars>>

\* commitTransaction
CommitAXFR(t) ==
    /\ pc[t] = "commit"
    /\ serial' = [serial EXCEPT ![Zone(t)] = got[t]]
    /\ pure' = [pure EXCEPT ![Zone(t)] = TRUE]
    /\ Goto(t, "committed")
    /\ UNCHANGED <<unfresh, dataVars, mainVars, req, base, got, worldVars>>

SetFresh(t) ==
    /\ pc[t] = "committed"
    /\ unfresh' = [unfresh EXCEPT ![Zone(t)] = FALSE]
    /\ Leave(t)
    /\ UNCHANGED <<serial, pure, dataVars, mainVars, req, worldVars>>

\* A ResolverException: markAsFailed, and an open transaction is aborted.
TransferFails(t) ==
    /\ pc[t] \in {"read", "deltas"}
    /\ Fault
    /\ excluded' = [excluded EXCEPT ![Zone(t)] = TRUE]
    /\ Leave(t)
    /\ UNCHANGED <<dbVars, queue, inprogress, tocheck, sem, mainVars, req>>

\* Any other exception, or a return because something is not configured. Once the zone
\* is committed, setFresh may throw: there is nothing left to abort, the zone stays unfresh.
TransferGivesUp(t) ==
    /\ pc[t] \in {"read", "commit", "deltas", "committed"}
    /\ Fault
    /\ Leave(t)
    /\ UNCHANGED <<dbVars, dataVars, mainVars, req>>

\* RemoveSentinel
Sentinel_Forgets(z) == inprogress
Sentinel(z) == inprogress \ {z}

SuckEnd(t) ==
    /\ pc[t] = "leave"
    /\ inprogress' = Sentinel(Zone(t))
    /\ Goto(t, "wait")
    /\ req' = [req EXCEPT ![t] = NoRequest]
    /\ UNCHANGED <<dbVars, queue, tocheck, excluded, sem, mainVars, base, got, worldVars>>

-----------------------------------------------------------------------------
(* Time, failures and the primaries.                                       *)

RefreshTime(z) ==
    /\ ~unfresh[z]
    /\ unfresh' = [unfresh EXCEPT ![z] = TRUE]
    /\ UNCHANGED <<serial, pure, dataVars, mainVars, threadVars, worldVars>>

ExclusionOver(z) ==
    /\ excluded[z]
    /\ excluded' = [excluded EXCEPT ![z] = FALSE]
    /\ UNCHANGED <<dbVars, queue, inprogress, tocheck, sem, mainVars, threadVars, worldVars>>

\* The server dies and is started again: the database is what is left.
Crash ==
    /\ Fault
    /\ queue' = <<>>
    /\ inprogress' = {}
    /\ tocheck' = [z \in Zones |-> {}]
    /\ excluded' = [z \in Zones |-> FALSE]
    /\ sem' = 0
    /\ mpc' = "idle"
    /\ chk' = [z \in Zones |-> NoCheck]
    /\ pc' = [t \in Retrievers |-> "wait"]
    /\ req' = [t \in Retrievers |-> NoRequest]
    /\ base' = [t \in Retrievers |-> 0]
    /\ got' = [t \in Retrievers |-> 0]
    /\ UNCHANGED dbVars

Publish(p, z) ==
    /\ theirs[p][z] < MaxSerial
    /\ theirs' = [theirs EXCEPT ![p][z] = @ + 1]
    /\ UNCHANGED <<dbVars, dataVars, mainVars, threadVars, events>>

MainStep ==
    \/ Collect \/ Select \/ EndRefresh
    \/ \E z \in Zones : \/ Answered(z) \/ Unanswered(z) \/ ProcessSilent(z) \/ Compare(z)
                        \/ Fresh(z) \/ Stale(z) \/ SignaturesDiffer(z)

ThreadStep(t) ==
    \/ SemWait(t) \/ Take(t) \/ SuckBegin(t)
    \/ ReceiveAXFR(t) \/ ReceiveIXFR(t) \/ ApplyDelta(t) \/ EndIXFR(t)
    \/ CommitAXFR(t) \/ SetFresh(t)
    \/ TransferFails(t) \/ TransferGivesUp(t)
    \/ SuckEnd(t)

\* Everything but the NOTIFYs and the changes of the zones.
SecondaryStep ==
    \/ MainStep
    \/ \E t \in Retrievers : ThreadStep(t)
    \/ \E z \in Zones : RefreshTime(z) \/ ExclusionOver(z)
    \/ \E z \in Zones, p \in Primaries : Retrieve(z, p)
    \/ Crash

Next ==
    \/ SecondaryStep
    \/ \E z \in Zones, p \in Primaries : ReceiveNotify(z, p) \/ Publish(p, z)

Spec == Init /\ [][Next]_vars

-----------------------------------------------------------------------------
(* Properties.                                                             *)

Serving(t) == pc[t] \in {"read", "commit", "deltas", "committed", "leave"}

\* A zone is in progress exactly while one thread works on it: two transfers of
\* a zone never overlap, and none leaves it blocked, whatever went wrong.
OneTransferPerZone ==
    /\ inprogress = {Zone(t) : t \in {u \in Retrievers : Serving(u)}}
    /\ \A t, u \in Retrievers :
           Serving(t) /\ Serving(u) /\ Zone(t) = Zone(u) => t = u

\* No request waits in the queue without a thread that is, or will be, woken for
\* it: posts of d_suck_sem and requests correspond, duplicates included.
WakeupsMatch ==
    sem + Cardinality({t \in Retrievers : pc[t] = "take"}) = Len(queue)

SetMax(S) == CHOOSE m \in S : \A n \in S : n <= m

Replicated == INSTANCE ReplicatedZone WITH
    newest <- [z \in Zones |-> SetMax({theirs[p][z] : p \in Primaries})],
    held   <- [z \in Zones |-> IF pure[z] THEN serial[z] ELSE MaxSerial + 1]

\* The zone stored here is always a version that some primary published, also in
\* the middle of an incremental transfer and after a crash.
ImplementsReplicatedZone == Replicated!Spec

\* A zone with one primary never goes back to an earlier version, whatever requests
\* and answers are late. (With two primaries it can: suck() does not compare serials
\* again, so a request that was made for a primary which lags behind the other is
\* carried out after the transfer from the other one.)
NeverGoesBack ==
    [][~AXFRLowerSerial /\ Cardinality(Primaries) = 1
         => \A z \in Zones : serial'[z] >= serial[z]]_vars

=============================================================================
