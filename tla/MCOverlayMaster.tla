-------------------------- MODULE MCOverlayMaster --------------------------
(* Values of the constants of OverlayMaster for TLC. *)
EXTENDS OverlayMaster, TLC

CONSTANTS a1, a2, o1, o2

\* Enough for every agent, and not enough.
TwoSubnets == [o \in Overlays |-> {0, 1}]
OneSubnet == [o \in Overlays |-> {0}]

\* One configuration, kept across restarts.
FixedConfig == {[enabled |-> Overlays, network6 |-> TRUE, log |-> TRUE]}

\* The same, with a replicated log or without.
EitherLog ==
    {[enabled |-> Overlays, network6 |-> TRUE, log |-> b] : b \in BOOLEAN}

\* No overlay is enabled at first; the operator enables one, the IPv6 VTEP
\* network, and the other overlay.
GrowingConfigs ==
    {[enabled |-> {}, network6 |-> FALSE, log |-> TRUE],
     [enabled |-> {o1}, network6 |-> FALSE, log |-> TRUE],
     [enabled |-> {o1}, network6 |-> TRUE, log |-> TRUE],
     [enabled |-> {o1, o2}, network6 |-> TRUE, log |-> TRUE]}

\* Agents are alike.
AgentSymmetry == Permutations(AgentIPs)

=============================================================================
