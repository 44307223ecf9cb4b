------------------------- MODULE MCMetricsIsolator -------------------------
(* Values of the constants of MetricsIsolator for TLC. *)
EXTENDS MetricsIsolator

CONSTANTS c1, c2, d1

\* Every container has a value of its own.
OwnValues == [c \in Containers |-> c]

=============================================================================
