--------------------------- MODULE SubnetRegistry ---------------------------
(***************************************************************************)
(* What the overlay master's replicated log promises the cluster: a         *)
(* register of the subnets and VTEP addresses each agent holds.             *)
(*                                                                          *)
(* An agent's grant lasts until the agent is purged.  One write may serve    *)
(* many agents at once, and grants only what nobody holds before the write: *)
(* what a purge releases is granted again by a later write.                 *)
(***************************************************************************)
EXTENDS FiniteSets

CONSTANTS Agents,     \* the agents of the cluster
          Resources   \* all there is to grant

VARIABLE granted      \* what each agent holds

Init == granted = [a \in Agents |-> {}]

Keeps(a) == granted[a] \subseteq granted'[a]
Purged(a) == granted'[a] = {}

\* What is new in a's grant was nobody's.
Fresh(a) ==
    \A b \in Agents : (granted'[a] \ granted[a]) \cap granted[b] = {}

Write ==
    /\ granted' \in [Agents -> SUBSET Resources]
    /\ \A a \in Agents : Purged(a) \/ (Keeps(a) /\ Fresh(a))
    /\ \A a, b \in Agents : a # b => granted'[a] \cap granted'[b] = {}

Spec == Init /\ [][Write]_granted

=============================================================================
