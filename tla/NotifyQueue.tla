---------------------------- MODULE NotifyQueue ----------------------------
(***************************************************************************)
(* The primary side of the communicator: primaryUpdateCheck finds the      *)
(* zones whose serial is not the one last notified and queues a NOTIFY     *)
(* for the secondary, doNotifications sends what is in the queue until the *)
(* answer comes or the attempts are used up. The queue is in memory, the   *)
(* notified serial in the database.                                        *)
(*                                                                         *)
(* All of it is done by the main thread of each primary, one entry after   *)
(* the other. The time of the next attempt may come at any moment. There   *)
(* is one secondary. An entry has a random id in the code; the serial it   *)
(* was queued for stands for it, so that two entries of a zone never       *)
(* collide. Packets and answers may be lost, and overtake each other.      *)
(*                                                                         *)
(* Definitions named X_Y are mutations of X.                               *)
(***************************************************************************)
EXTENDS Integers, SequencesExt

CONSTANTS Zones, Primaries,
          MaxSerial,    \* bound: versions of a zone
          MaxAttempts   \* times a NOTIFY is sent, 4 in the code

VARIABLES theirs,     \* per primary and zone: the serial in its database
          notified,   \* per primary and zone: notified_serial
          seen,       \* per primary and zone: the serial primaryUpdateCheck read, or 0
          nqueue,     \* d_nqueue of each primary
          packets,    \* NOTIFYs on their way to the secondary
          answers     \* and the answers

notifyVars == <<notified, seen, nqueue, packets, answers>>

Entries == [zone : Zones, id : 1 .. MaxSerial, attempts : 0 .. MaxAttempts]
Packets == [primary : Primaries, zone : Zones, id : 1 .. MaxSerial]

TypeOK ==
    /\ notified \in [Primaries -> [Zones -> 1 .. MaxSerial]]
    /\ seen \in [Primaries -> [Zones -> 0 .. MaxSerial]]
    /\ nqueue \in [Primaries -> Seq(Entries)]
    /\ packets \subseteq Packets
    /\ answers \subseteq Packets

Init ==
    /\ notified = theirs
    /\ seen = [p \in Primaries |-> [z \in Zones |-> 0]]
    /\ nqueue = [p \in Primaries |-> <<>>]
    /\ packets = {}
    /\ answers = {}

\* getUpdatedPrimaries
Updated(p, z) == theirs[p][z] # notified[p][z]

GetUpdatedPrimaries(p) ==
    /\ \A z \in Zones : seen[p][z] = 0
    /\ \E z \in Zones : Updated(p, z)
    /\ seen' = [seen EXCEPT ![p] =
                  [z \in Zones |-> IF Updated(p, z) THEN theirs[p][z] ELSE 0]]
    /\ UNCHANGED <<theirs, notified, nqueue, packets, answers>>

\* queueNotifyDomain, and setNotified with the serial that was read.
NotifiedSerial(p, z) == seen[p][z]

QueueNotifyDomain(p, z) ==
    /\ seen[p][z] # 0
    /\ nqueue' = [nqueue EXCEPT ![p] =
                    Append(@, [zone |-> z, id |-> seen[p][z], attempts |-> 0])]
    /\ notified' = [notified EXCEPT ![p][z] = NotifiedSerial(p, z)]
    /\ seen' = [seen EXCEPT ![p][z] = 0]
    /\ UNCHANGED <<theirs, packets, answers>>

Packet(p, e) == [primary |-> p, zone |-> e.zone, id |-> e.id]

\* getOne: an entry is sent, or given up after the last attempt. The next attempt is
\* seconds away: a packet has arrived or is lost by then, its answer may be late.
GivenUp_TooSoon(attempts) == attempts >= MaxAttempts
GivenUp(attempts) == attempts > MaxAttempts

SendNotification(p, i) ==
    /\ seen[p] = [z \in Zones |-> 0]
    /\ i \in 1 .. Len(nqueue[p])
    /\ Packet(p, nqueue[p][i]) \notin packets
    /\ LET e == nqueue[p][i] IN
       IF GivenUp(e.attempts + 1)
       THEN /\ nqueue' = [nqueue EXCEPT ![p] = RemoveAt(@, i)]
            /\ UNCHANGED packets
       ELSE /\ nqueue' = [nqueue EXCEPT ![p][i].attempts = @ + 1]
            /\ packets' = packets \cup {Packet(p, e)}
    /\ UNCHANGED <<theirs, notified, seen, answers>>

\* The secondary answers the NOTIFY it handles.
Deliver(pkt) ==
    /\ pkt \in packets
    /\ packets' = packets \ {pkt}
    /\ answers' = answers \cup {pkt}
    /\ UNCHANGED <<theirs, notified, seen, nqueue>>

\* removeIf: the first entry with that id and zone, none if the answer is spurious.
ReceiveAnswer(pkt) ==
    LET p == pkt.primary
        Same(e) == e.id = pkt.id /\ e.zone = pkt.zone
    IN  /\ pkt \in answers
        /\ seen[p] = [z \in Zones |-> 0]
        /\ answers' = answers \ {pkt}
        /\ nqueue' = [nqueue EXCEPT ![p] = RemoveFirstMatch(@, Same)]
        /\ UNCHANGED <<theirs, notified, seen, packets>>

Lose(pkt) ==
    /\ \/ /\ pkt \in packets
          /\ packets' = packets \ {pkt}
          /\ UNCHANGED answers
       \/ /\ pkt \in answers
          /\ answers' = answers \ {pkt}
          /\ UNCHANGED packets
    /\ UNCHANGED <<theirs, notified, seen, nqueue>>

\* The primary is restarted: the queue is gone, the notified serial is not.
Restart(p) ==
    /\ nqueue' = [nqueue EXCEPT ![p] = <<>>]
    /\ seen' = [seen EXCEPT ![p] = [z \in Zones |-> 0]]
    /\ UNCHANGED <<theirs, notified, packets, answers>>

\* The steps of a primary on its own.
PrimaryStep(p) ==
    \/ GetUpdatedPrimaries(p)
    \/ \E z \in Zones : QueueNotifyDomain(p, z)
    \/ \E i \in 1 .. Len(nqueue[p]) : SendNotification(p, i)
    \/ \E pkt \in answers : pkt.primary = p /\ ReceiveAnswer(pkt)

=============================================================================
