---------------------------- MODULE MCSubnetPool ----------------------------
(* Values of the constants of SubnetPool for TLC. *)
EXTENDS SubnetPool, TLC

CONSTANTS a1, a2, a3, a4

PlanOf(version, of, network, prefix, count) ==
    [version |-> version, of |-> of, network |-> network,
     prefix |-> prefix, earlier |-> count]

\* Pools on the edges: exhausted, at the first byte that is full, at the last
\* subnet of the network.
SoundPlans ==
    {PlanOf(4, "subnets", 6, 8, n) : n \in 0..2} \cup
    {PlanOf(4, "addresses", 4, 8, n) : n \in {0, 12}} \cup
    {PlanOf(6, "subnets", 6, 16, n) : n \in {0, 254, 256}} \cup
    {PlanOf(6, "addresses", 6, 16, n) : n \in {0, 254}} \cup
    {PlanOf(6, "subnets", 6, 11, n) : n \in {0, 6, 8}} \cup
    {PlanOf(6, "subnets", 12, 15, n) : n \in {0, 6}}

\* A /68 for each agent, out of a /64.
FourOddBits == {PlanOf(6, "subnets", 8, 12, 6)}

ASSUME SoundAssumption ==
    /\ \A p \in SoundPlans : Sound(p) /\ Early(p)
    /\ \A p \in FourOddBits : ~Sound(p)

\* Agents are alike.
AgentSymmetry == Permutations(Agents)

=============================================================================
