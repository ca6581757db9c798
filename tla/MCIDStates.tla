----------------------------- MODULE MCIDStates -----------------------------
(* Instances of IDStates for TLC.                                          *)
EXTENDS IDStates, TLC

CONSTANTS c1, c2, r1, q1, q2, q3, k1, k2

\* The first and the last query ask the same.
MCQuestion == [q \in Queries |-> IF q = q2 THEN "B" ELSE "A"]
=============================================================================
