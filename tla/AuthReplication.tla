-------------------------- MODULE AuthReplication --------------------------
(***************************************************************************)
(* Primaries and a secondary together: the NOTIFYs that the primaries'     *)
(* communicators send (NotifyQueue) are what the secondary's communicator  *)
(* receives (ZoneTransfers). A zone that changes reaches the secondary by  *)
(* a NOTIFY, or by the check that its refresh time brings.                 *)
(***************************************************************************)
EXTENDS ZoneTransfers

CONSTANT MaxAttempts    \* times a NOTIFY is sent

ASSUME AttemptsAssumption == MaxAttempts \in Nat

VARIABLES notified, seen, nqueue, packets, answers

Primary == INSTANCE NotifyQueue

notifyVars == <<notified, seen, nqueue, packets, answers>>
secondaryVars == <<dbVars, dataVars, mainVars, threadVars, events>>
systemVars == <<vars, notifyVars>>

\* The types of the variables of both sides.
SystemTypeOK == TypeOK /\ Primary!TypeOK

SystemInit == Init /\ Primary!Init

\* processNotify in the secondary, for one NOTIFY of a primary.
DeliverNotify(pkt) ==
    /\ Primary!Deliver(pkt)
    /\ CheckRequested(pkt.zone, pkt.primary)
    /\ UNCHANGED <<dbVars, queue, inprogress, excluded, sem, mainVars, threadVars,
                   events>>

NotifyStep(p) == Primary!PrimaryStep(p) /\ UNCHANGED secondaryVars

Lose(pkt) ==
    /\ Primary!Lose(pkt)
    /\ Event("loss")
    /\ UNCHANGED <<dbVars, dataVars, mainVars, threadVars>>

RestartPrimary(p) ==
    /\ Primary!Restart(p)
    /\ Fault
    /\ UNCHANGED <<dbVars, dataVars, mainVars, threadVars>>

SystemNext ==
    \/ SecondaryStep /\ UNCHANGED notifyVars
    \/ \E z \in Zones, p \in Primaries : Publish(p, z) /\ UNCHANGED notifyVars
    \/ \E pkt \in packets : DeliverNotify(pkt)
    \/ \E p \in Primaries : NotifyStep(p)
    \/ \E pkt \in packets \cup answers : Lose(pkt)
    \/ \E p \in Primaries : RestartPrimary(p)

SystemSpec == SystemInit /\ [][SystemNext]_systemVars

\* The main thread and the retrieval threads are scheduled, a packet that is not
\* lost arrives, the primaries keep sending, and the time a failed zone is left
\* alone ends. Nothing is assumed of the refresh times. (For the properties below
\* it is enough that some thread or some primary goes on.)
Fairness ==
    /\ WF_systemVars(MainStep /\ UNCHANGED notifyVars)
    /\ WF_systemVars((\E t \in Retrievers : ThreadStep(t)) /\ UNCHANGED notifyVars)
    /\ WF_systemVars((\E z \in Zones : ExclusionOver(z)) /\ UNCHANGED notifyVars)
    /\ WF_systemVars(\/ \E p \in Primaries : NotifyStep(p)
                     \/ \E pkt \in packets : DeliverNotify(pkt))

FairSpec == SystemSpec /\ Fairness

-----------------------------------------------------------------------------
(* Properties.                                                             *)

InSync(z) == \A p \in Primaries : serial[z] = theirs[p][z]

\* As long as the refresh time of a zone keeps coming, the zone gets in sync with
\* a primary that stays as it is: after lost NOTIFYs, failed transfers, crashes of
\* either side and incremental transfers that did not finish.
EventuallyInSync ==
    \A z \in Zones : []<>unfresh[z] => <>[]InSync(z)

\* A NOTIFY is enough, without any refresh time: when nothing else fails and fewer
\* packets are lost than a NOTIFY is sent, the zone gets in sync. No request that is
\* dropped, skipped or merged on the way was needed for the latest version.
NotifyHonoured ==
    <>[](events["fault"] = 0 /\ events["loss"] < MaxAttempts => \A z \in Zones : InSync(z))

=============================================================================
