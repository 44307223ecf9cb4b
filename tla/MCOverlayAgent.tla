--------------------------- MODULE MCOverlayAgent ---------------------------
(* Values of the constants of OverlayAgent for TLC. *)
EXTENDS OverlayAgent

CONSTANTS m1, m2, o1, o2

\* The master that comes to lead has an overlay that the agent has not got,
\* and its update names that one first.
NewOverlayFirst == [m \in Masters |-> IF m = m1 THEN <<o2>> ELSE <<o1, o2>>]

\* One master and two overlays.
TwoOverlays == [m \in Masters |-> <<o1, o2>>]

\* Both overlays have subnets of both kinds; or the second is of IPv6 alone.
BothSubnets == [o \in Overlays |-> {"subnet", "subnet6"}]
OnlyIPv6 ==
    [o \in Overlays |->
        IF o = o1 THEN {"subnet", "subnet6"} ELSE {"subnet6"}]

\* The network_configs: no bridge, one, or both, with IPv6 or without.
SomeConfigs ==
    {{}, {"mesos_bridge"}, {"docker_bridge"},
     {"mesos_bridge", "docker_bridge", "enable_ipv6"}}
BothBridges == {{"mesos_bridge", "docker_bridge", "enable_ipv6"}}
OneOrBothBridges ==
    {{"mesos_bridge"}, {"docker_bridge", "enable_ipv6"},
     {"mesos_bridge", "docker_bridge"},
     {"mesos_bridge", "docker_bridge", "enable_ipv6"}}

\* The update has both bridges for every overlay; or has none of the first if
\* the agent asks for one only, as when it asked for none at first.
AllBridges ==
    [c \in NetworkConfigs |->
        [o \in Overlays |-> {"mesos_bridge", "docker_bridge"}]]
MissingBridges ==
    [c \in NetworkConfigs |->
        [o \in Overlays |->
            IF o = o1 /\ ~({"mesos_bridge", "docker_bridge"} \subseteq c)
            THEN {} ELSE {"mesos_bridge", "docker_bridge"}]]

=============================================================================
