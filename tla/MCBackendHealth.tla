--------------------------- MODULE MCBackendHealth ---------------------------
(* BackendHealth for TLC: the threads are model values.                    *)
EXTENDS BackendHealth, TLC

CONSTANTS c1, c2

=============================================================================
