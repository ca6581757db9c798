--------------------------- MODULE ReplicatedZone ---------------------------
(***************************************************************************)
(* What the secondary operation of the authoritative server promises about *)
(* the content of a zone: it is at any time, crashes and concurrent        *)
(* transfers included, empty or exactly one of the versions that a primary *)
(* has published, never a mixture of two.                                  *)
(*                                                                         *)
(* Versions are numbered by their serial; primaries publish them in order. *)
(* It does not promise that the version held only moves forward: with two  *)
(* primaries the code does not ensure that (see ZoneTransfers).            *)
(***************************************************************************)
EXTENDS Integers

CONSTANT Zones

VARIABLES newest,   \* per zone: the latest version some primary has
          held      \* per zone: the version stored here, 0 if none

Init ==
    /\ newest \in [Zones -> Nat \ {0}]
    /\ \A z \in Zones : held[z] \in 0 .. newest[z]

Publish(z) ==
    /\ newest' = [newest EXCEPT ![z] = @ + 1]
    /\ UNCHANGED held

Install(z) ==
    /\ held'[z] \in 1 .. newest[z]
    /\ held' = [held EXCEPT ![z] = held'[z]]
    /\ UNCHANGED newest

Next == \E z \in Zones : Publish(z) \/ Install(z)

Spec == Init /\ [][Next]_<<newest, held>>

=============================================================================
