---------------------------- MODULE MCIDStatesMap ----------------------------
(* Instances of IDStatesMap for TLC.                                       *)
EXTENDS IDStatesMap, TLC

CONSTANTS q1, q2, q3

MCQuestion == [q \in Queries |-> IF q = q2 THEN "B" ELSE "A"]
=============================================================================
