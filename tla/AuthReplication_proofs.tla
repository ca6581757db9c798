------------------------ MODULE AuthReplication_proofs ------------------------
(***************************************************************************)
(* Proofs about AuthReplication, for every number of zones, primaries,     *)
(* retrieval threads, versions, events and attempts. A step of the whole   *)
(* is for the secondary a step of its own, a NOTIFY that comes in, a zone  *)
(* that is published, or an event elsewhere, so that what                  *)
(* ZoneTransfers_proofs shows of those steps carries over.                 *)
(***************************************************************************)
EXTENDS AuthReplication, ZoneTransfers_proofs

-----------------------------------------------------------------------------
(* The primaries.                                                          *)

\* The first of the places an entry can be at is one of them.
LEMMA MinIn ==
    ASSUME NEW I, I \subseteq Nat, I # {}
    PROVE  Primary!Min(I) \in I
  BY LeastOf DEF Primary!Min

\* The places of the entries an answer can be for, and the queue without the first.
Places(q, pkt) == {i \in 1 .. Len(q) : q[i].id = pkt.id /\ q[i].zone = pkt.zone}
Without(q, pkt) == IF Places(q, pkt) # {} THEN Primary!RemoveAt(q, Primary!Min(Places(q, pkt))) ELSE q

\* What remains of the queue has the same type.
LEMMA WithoutType ==
    ASSUME NEW S, NEW q \in Seq(S), NEW pkt
    PROVE  Without(q, pkt) \in Seq(S)
<1> DEFINE I == Places(q, pkt)
<1>1. CASE I = {}
  BY <1>1 DEF Without
<1>2. CASE I # {}
  <2>1. I \subseteq 1 .. Len(q)
    BY DEF Places
  <2>2. Without(q, pkt) = Primary!RemoveAt(q, Primary!Min(I))
    BY <1>2 DEF Without
  <2> HIDE DEF I
  <2>3. I \subseteq Nat
    BY <2>1
  <2>4. Primary!Min(I) \in 1 .. Len(q)
    BY <1>2, <2>1, <2>3, MinIn
  <2>5. Primary!RemoveAt(q, Primary!Min(I)) \in Seq(S)
    BY <2>4, RemoveAtSpec DEF Primary!RemoveAt, RemoveAt
  <2> QED BY <2>2, <2>5
<1> QED BY <1>1, <1>2

\* An entry that is sent once more is an entry.
LEMMA AttemptType ==
    ASSUME NEW e \in Primary!Entries, ~ Primary!GivenUp(e.attempts + 1)
    PROVE  [e EXCEPT !.attempts = @ + 1] \in Primary!Entries
<1>1. e.attempts \in 0 .. MaxAttempts
  BY DEF Primary!Entries
<1>2. e.attempts + 1 \in 0 .. MaxAttempts
  BY <1>1, AttemptsAssumption DEF Primary!GivenUp
<1> QED BY <1>2 DEF Primary!Entries

\* A primary keeps its types.
LEMMA PrimaryTypes ==
    ASSUME SystemTypeOK, NEW p \in Primaries,
           Primary!PrimaryStep(p) \/ Primary!Restart(p)
    PROVE  Primary!TypeOK' /\ theirs' = theirs
<1> USE TransferAssumption, AttemptsAssumption DEF SystemTypeOK, Primary!TypeOK, Primary!Packets
<1>0. \A r \in Primaries, z \in Zones : theirs[r][z] \in 1 .. MaxSerial
  BY DEF TypeOK, DatabaseTypes, Versions
<1>q. nqueue[p] \in Seq(Primary!Entries)
  OBVIOUS
<1>e. \A i \in 1 .. Len(nqueue[p]) : nqueue[p][i] \in Primary!Entries
  BY <1>q
<1>1. CASE Primary!GetUpdatedPrimaries(p)
  <2>1. \A z \in Zones : (IF Primary!Updated(p, z) THEN theirs[p][z] ELSE 0) \in 0 .. MaxSerial
    BY <1>0
  <2> QED BY <1>1, <2>1 DEF Primary!GetUpdatedPrimaries
<1>2. ASSUME NEW z \in Zones, Primary!QueueNotifyDomain(p, z)
      PROVE  Primary!TypeOK' /\ theirs' = theirs
  <2>1. seen[p][z] \in 1 .. MaxSerial
    BY <1>2 DEF Primary!QueueNotifyDomain
  <2> DEFINE e == [zone |-> z, id |-> seen[p][z], attempts |-> 0]
  <2>2. e \in Primary!Entries
    BY <2>1 DEF Primary!Entries
  <2>3. nqueue' = [nqueue EXCEPT ![p] = Append(@, e)]
    BY <1>2 DEF Primary!QueueNotifyDomain
  <2> HIDE DEF e
  <2>4. Append(nqueue[p], e) \in Seq(Primary!Entries)
    BY <1>q, <2>2, AppendProperties
  <2>5. nqueue' \in [Primaries -> Seq(Primary!Entries)]
    BY <2>3, <2>4
  <2> QED BY <1>2, <2>1, <2>5 DEF Primary!QueueNotifyDomain, Primary!NotifiedSerial
<1>3. ASSUME NEW i \in 1 .. Len(nqueue[p]), Primary!SendNotification(p, i)
      PROVE  Primary!TypeOK' /\ theirs' = theirs
  <2> DEFINE e == nqueue[p][i]
  <2>1. e \in Primary!Entries
    BY <1>e
  <2>2. Primary!Packet(p, e) \in Primary!Packets
    BY <2>1 DEF Primary!Packet, Primary!Entries
  <2>0. IF Primary!GivenUp(e.attempts + 1)
        THEN nqueue' = [nqueue EXCEPT ![p] = RemoveAt(@, i)] /\ packets' = packets
        ELSE /\ nqueue' = [nqueue EXCEPT ![p][i].attempts = @ + 1]
             /\ packets' = packets \cup {Primary!Packet(p, e)}
    BY <1>3, Zenon DEF Primary!SendNotification, Primary!RemoveAt, RemoveAt
  <2>3. CASE Primary!GivenUp(e.attempts + 1)
    <3>1. RemoveAt(nqueue[p], i) \in Seq(Primary!Entries)
      BY <1>q, RemoveAtSpec
    <3>2. nqueue' = [nqueue EXCEPT ![p] = RemoveAt(@, i)] /\ packets' = packets
      BY <2>0, <2>3
    <3> QED BY <1>3, <3>1, <3>2 DEF Primary!SendNotification
  <2>4. CASE ~ Primary!GivenUp(e.attempts + 1)
    <3> DEFINE d == [e EXCEPT !.attempts = @ + 1]
               q == [nqueue[p] EXCEPT ![i] = d]
    <3>1. d \in Primary!Entries
      BY <2>1, <2>4, AttemptType, Zenon
    <3>2. /\ nqueue' = [nqueue EXCEPT ![p][i].attempts = @ + 1]
          /\ packets' = packets \cup {Primary!Packet(p, e)}
      BY <2>0, <2>4
    <3>3. nqueue' = [nqueue EXCEPT ![p] = q]
      BY <3>2
    <3> HIDE DEF d
    <3>4. q \in Seq(Primary!Entries)
      BY <1>q, <3>1, ExceptSeq
    <3> HIDE DEF q
    <3>5. nqueue' \in [Primaries -> Seq(Primary!Entries)]
      BY <3>3, <3>4
    <3> QED BY <1>3, <2>2, <3>2, <3>5 DEF Primary!SendNotification
  <2> QED BY <2>3, <2>4
<1>4. ASSUME NEW pkt \in answers, pkt.primary = p, Primary!ReceiveAnswer(pkt)
      PROVE  Primary!TypeOK' /\ theirs' = theirs
  <2> DEFINE q == Without(nqueue[p], pkt)
  <2>1. q \in Seq(Primary!Entries)
    BY <1>q, WithoutType
  <2>2. nqueue' = [nqueue EXCEPT ![p] = q]
    <3> DEFINE I == Places(nqueue[p], pkt)
    <3>1. nqueue' = [nqueue EXCEPT ![p] = IF \E i \in 1 .. Len(nqueue[p]) :
                                                 /\ nqueue[p][i].id = pkt.id
                                                 /\ nqueue[p][i].zone = pkt.zone
                                          THEN Primary!RemoveAt(@, IF I # {} THEN Primary!Min(I) ELSE 0)
                                          ELSE @]
      BY <1>4
      DEF Primary!ReceiveAnswer, Primary!RemoveFirstMatch, Primary!SelectInSeq, Places
    <3>2. (\E i \in 1 .. Len(nqueue[p]) : /\ nqueue[p][i].id = pkt.id
                                          /\ nqueue[p][i].zone = pkt.zone) <=> I # {}
      BY DEF Places
    <3> HIDE DEF I
    <3>3. nqueue' = [nqueue EXCEPT ![p] = IF I # {} THEN Primary!RemoveAt(@, Primary!Min(I)) ELSE @]
      BY <3>1, <3>2
    <3> QED BY <3>3 DEF I, Without
  <2>3. answers' = answers \ {pkt} /\ UNCHANGED <<theirs, notified, seen, packets>>
    BY <1>4 DEF Primary!ReceiveAnswer
  <2> HIDE DEF q
  <2>4. nqueue' \in [Primaries -> Seq(Primary!Entries)]
    BY <2>1, <2>2
  <2> QED BY <2>3, <2>4
<1>5. CASE Primary!Restart(p)
  <2>1. <<>> \in Seq(Primary!Entries)
    BY EmptySeq
  <2> QED BY <1>5, <2>1 DEF Primary!Restart
<1> QED BY <1>1, <1>2, <1>3, <1>4, <1>5 DEF Primary!PrimaryStep

\* The network keeps the types of the primaries too.
LEMMA PrimaryTypesStep ==
    ASSUME SystemTypeOK, SystemNext \/ UNCHANGED systemVars
    PROVE  Primary!TypeOK'
<1>1. CASE UNCHANGED notifyVars
  BY <1>1 DEF SystemTypeOK, Primary!TypeOK, notifyVars
<1>2. ASSUME NEW pkt \in packets, DeliverNotify(pkt)
      PROVE  Primary!TypeOK'
  BY <1>2 DEF DeliverNotify, Primary!Deliver, SystemTypeOK, Primary!TypeOK
<1>3. ASSUME NEW p \in Primaries, NotifyStep(p) \/ RestartPrimary(p)
      PROVE  Primary!TypeOK'
  BY <1>3, PrimaryTypes DEF NotifyStep, RestartPrimary
<1>4. ASSUME NEW pkt, Lose(pkt)
      PROVE  Primary!TypeOK'
  BY <1>4 DEF Lose, Primary!Lose, SystemTypeOK, Primary!TypeOK
<1> QED BY <1>1, <1>2, <1>3, <1>4 DEF SystemNext, systemVars

-----------------------------------------------------------------------------
(* The whole.                                                              *)

\* A step of the whole, seen from the secondary.
LEMMA StepSeen ==
    ASSUME SystemTypeOK, SystemNext \/ UNCHANGED systemVars
    PROVE  AnyStep
<1>1. CASE SecondaryStep
  BY <1>1 DEF AnyStep, Next
<1>2. CASE \E z \in Zones, p \in Primaries : Publish(p, z)
  BY <1>2 DEF AnyStep, Next
<1>3. ASSUME NEW pkt \in packets, DeliverNotify(pkt)
      PROVE  AnyStep
  <2>1. pkt.zone \in Zones /\ pkt.primary \in Primaries
    BY DEF SystemTypeOK, Primary!TypeOK, Primary!Packets
  <2>2. ReceiveNotify(pkt.zone, pkt.primary)
    BY <1>3 DEF DeliverNotify, ReceiveNotify, Primary!Deliver, worldVars
  <2> QED BY <2>1, <2>2 DEF AnyStep, Next
<1>4. ASSUME NEW p \in Primaries, NotifyStep(p)
      PROVE  AnyStep
  <2>1. theirs' = theirs
    BY <1>4, PrimaryTypes DEF NotifyStep
  <2> QED BY <1>4, <2>1 DEF NotifyStep, AnyStep, vars, secondaryVars, worldVars
<1>5. ASSUME NEW pkt, Lose(pkt)
      PROVE  AnyStep
  BY <1>5 DEF Lose, AnyStep, EventElsewhere, EventKinds
<1>6. ASSUME NEW p \in Primaries, RestartPrimary(p)
      PROVE  AnyStep
  BY <1>6 DEF RestartPrimary, Fault, AnyStep, EventElsewhere, EventKinds
<1>7. CASE UNCHANGED systemVars
  BY <1>7 DEF systemVars, AnyStep
<1> QED BY <1>1, <1>2, <1>3, <1>4, <1>5, <1>6, <1>7 DEF SystemNext

SystemInv == IInv /\ Primary!TypeOK

\* The secondary's invariant and the types of the primaries hold throughout.
LEMMA SystemInvariant == SystemSpec => []SystemInv
<1>1. SystemInit => SystemInv
  <2> SUFFICES ASSUME SystemInit PROVE SystemInv
    OBVIOUS
  <2>1. IInv
    BY IInvInit DEF SystemInit
  <2>2. theirs \in [Primaries -> [Zones -> 1 .. MaxSerial]]
    BY <2>1 DEF IInv, TypeOK, DatabaseTypes, Versions
  <2>3. <<>> \in Seq(Primary!Entries)
    BY EmptySeq
  <2> QED BY <2>1, <2>2, <2>3, TransferAssumption
          DEF SystemInit, Primary!Init, SystemInv, Primary!TypeOK
<1>2. SystemInv /\ [SystemNext]_systemVars => SystemInv'
  <2> SUFFICES ASSUME SystemInv, SystemNext \/ UNCHANGED systemVars PROVE SystemInv'
    OBVIOUS
  <2>1. SystemTypeOK
    BY DEF SystemInv, IInv, SystemTypeOK
  <2> QED BY <2>1, StepSeen, IInvStep, PrimaryTypesStep DEF SystemInv
<1> QED BY <1>1, <1>2, PTL DEF SystemSpec

\* The variables of both sides have their types, and the queue of transfers has one
\* entry per zone and primary (UniQueue).
THEOREM TypeCorrect == SystemSpec => []SystemTypeOK
<1>1. SystemInv => SystemTypeOK
  BY DEF SystemInv, IInv, SystemTypeOK
<1> QED BY <1>1, SystemInvariant, PTL

\* suck() and its RemoveSentinel: a zone is in progress exactly while one of the
\* retrieval threads works on it.
THEOREM TransfersExclude == SystemSpec => []OneTransferPerZone
<1>1. SystemInv => OneTransferPerZone
  BY DEF SystemInv, IInv
<1> QED BY <1>1, SystemInvariant, PTL

\* addSuckRequest and retrievalLoopThread: the semaphore and the threads it woke are as
\* many as the requests that wait.
THEOREM NoWakeupIsLost == SystemSpec => []WakeupsMatch
<1>1. SystemInv => WakeupsMatch
  BY DEF SystemInv, IInv
<1> QED BY <1>1, SystemInvariant, PTL

\* suck() and ixfrSuck(): the zone stored is at all times a version that a primary has
\* published, and never a mixture, with any number of primaries, threads and failures.
THEOREM TransfersImplementReplicatedZone == SystemSpec => ImplementsReplicatedZone
<1>1. SystemInit => Replicated!Init
  <2> SUFFICES ASSUME SystemInit PROVE Replicated!Init
    OBVIOUS
  <2>1. IInv
    BY IInvInit DEF SystemInit
  <2>2. \A z \in Zones : Newest[z] \in Nat \ {0}
    BY <2>1, NewestIs DEF IInv, Versions
  <2>3. \A z \in Zones : Held[z] \in 0 .. Newest[z]
    BY <2>1, HeldIs DEF IInv
  <2>4. Newest \in [Zones -> Nat \ {0}]
    BY <2>2 DEF Newest
  <2> QED BY <2>3, <2>4 DEF Replicated!Init, Newest, Held
<1>2. SystemInv /\ SystemInv' /\ [SystemNext]_systemVars
        => [Replicated!Next]_<<Newest, Held>>
  <2> SUFFICES ASSUME SystemInv, SystemInv', SystemNext \/ UNCHANGED systemVars
               PROVE  Replicated!Next \/ UNCHANGED <<Newest, Held>>
    OBVIOUS
  <2>1. AnyStep
    BY StepSeen DEF SystemInv, IInv, SystemTypeOK
  <2>2. Replicated!Next \/ (Newest' = Newest /\ Held' = Held)
    BY <2>1, StepIsAbstract DEF SystemInv
  <2> QED BY <2>2
<1> QED
  BY <1>1, <1>2, SystemInvariant, PTL
  DEF SystemSpec, ImplementsReplicatedZone, Replicated!Spec, Newest, Held

\* secondaryRefresh and suck(): with one primary a zone never goes back.
THEOREM OnePrimaryNeverGoesBack == SystemSpec => NeverGoesBack
<1> DEFINE Forward == ~AXFRLowerSerial /\ Cardinality(Primaries) = 1
                        => \A z \in Zones : serial'[z] >= serial[z]
<1>1. SystemInv /\ [SystemNext]_systemVars => [Forward]_vars
  <2> SUFFICES ASSUME SystemInv, SystemNext \/ UNCHANGED systemVars PROVE Forward
    OBVIOUS
  <2>1. AnyStep
    BY StepSeen DEF SystemInv, IInv, SystemTypeOK
  <2> QED BY <2>1, StepGoesForward DEF SystemInv
<1> QED BY <1>1, SystemInvariant, PTL DEF SystemSpec, NeverGoesBack

===============================================================================
