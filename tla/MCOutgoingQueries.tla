-------------------------- MODULE MCOutgoingQueries --------------------------
(* OutgoingQueries for TLC: mthreads, questions and subnets are model      *)
(* values. Mthreads and questions are interchangeable; IDs are not, since  *)
(* chains are ordered by them.                                             *)
EXTENDS OutgoingQueries, TLC

CONSTANTS m1, m2, m3, m4, q1, q2, noECS, subnet

Symmetry == Permutations(MThreads) \cup Permutations(Questions)

=============================================================================
