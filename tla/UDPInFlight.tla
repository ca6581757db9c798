---------------------------- MODULE UDPInFlight ----------------------------
(***************************************************************************)
(* What dnsdist promises about the queries it forwards to a UDP backend,   *)
(* without saying how they are stored: a query is taken over once, and     *)
(* resolved once, by exactly one of                                        *)
(*   "answered"  a response of the backend is passed on to the client,     *)
(*   "timeout"   the health-check thread noticed that none came,           *)
(*   "reused"    its place was needed for, or taken by, another query,     *)
(*   "returned"  it is handed back to a client thread whose send failed.   *)
(* IDStates and IDStatesMap, the two tables DownstreamState can use, are   *)
(* shown to implement this module.                                         *)
(***************************************************************************)
CONSTANT Queries

VARIABLE outcome

Outcomes == {"answered", "timeout", "reused", "returned"}

TypeOK == outcome \in [Queries -> {"new", "pending"} \cup Outcomes]

Init == outcome = [q \in Queries |-> "new"]

\* A client thread has selected this backend for the query q.
Accept(q) ==
    /\ outcome[q] = "new"
    /\ outcome' = [outcome EXCEPT ![q] = "pending"]

\* One critical section may time out several queries.
Resolve(qs, how) ==
    /\ \A q \in qs : outcome[q] = "pending"
    /\ outcome' = [q \in Queries |-> IF q \in qs THEN how ELSE outcome[q]]

Next == \/ \E q \in Queries : Accept(q)
        \/ \E qs \in SUBSET Queries, how \in Outcomes : Resolve(qs, how)

Spec == Init /\ [][Next]_outcome

=============================================================================
