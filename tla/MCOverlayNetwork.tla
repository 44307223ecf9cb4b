-------------------------- MODULE MCOverlayNetwork --------------------------
(* Values of the constants of OverlayNetwork for TLC. *)
EXTENDS OverlayNetwork

CONSTANTS a1, a2, o1, o2

TwoSubnets == [o \in Overlays |-> {0, 1}]

\* One configuration, kept across restarts.
FixedConfig == {[enabled |-> Overlays, network6 |-> TRUE, log |-> TRUE]}

\* The operator enables a second overlay.
SecondOverlay ==
    {[enabled |-> {o1}, network6 |-> FALSE, log |-> TRUE],
     [enabled |-> {o1, o2}, network6 |-> FALSE, log |-> TRUE]}

=============================================================================
