--------------------------- MODULE OverlayNetwork ---------------------------
(***************************************************************************)
(* The overlay master together with the hosts of its agents: OverlayMaster, *)
(* and on every host the Docker network that the overlay agent of           *)
(* src/overlay/agent.cpp makes of each overlay it is told of.               *)
(*                                                                          *)
(* A Docker network outlives the agent, mesos-agent and the master's        *)
(* opinion of the agent: `docker network create` runs only when `docker     *)
(* network inspect` finds none of that name, whatever its subnet is.  How   *)
(* an agent gets from an update to that command is the subject of           *)
(* OverlayAgent; here it is one step that happens later or never.           *)
(***************************************************************************)
EXTENDS OverlayMaster

VARIABLES
    docker,      \* docker[a][o]: the subnets of the Docker network, or None
    configured   \* the overlays that are STATUS_OK in every agent's memory

hosts == <<docker, configured>>
networkVars == <<vars, hosts>>

-----------------------------------------------------------------------------
NoNetworks == [o \in Overlays |-> None]

NetworkInit ==
    /\ Init
    /\ docker = [a \in AgentIPs |-> NoNetworks]
    /\ configured = [a \in AgentIPs |-> {}]

\* The subnets that the bridge of an overlay is given; None if it has neither.
SubnetsIn(info) ==
    IF info.subnet = None /\ info.subnet6 = None THEN None
    ELSE [subnet |-> info.subnet, subnet6 |-> info.subnet6]

\* checkDockerNetwork and _configureDockerNetwork: a network that exists stays.
NetworkAfter(a, o) ==
    IF docker[a][o] # None THEN docker[a][o] ELSE SubnetsIn(told[a][o])

\* The agent configures an overlay of the last update, if it has not since it
\* started.  That an update is dropped while an earlier one is under way makes
\* a difference only when the two name different subnets.
Configure(a, o) ==
    /\ ~Gone(a)
    /\ o \in known[a] \ configured[a]
    /\ told[a][o] # None
    /\ docker' = [docker EXCEPT ![a][o] = NetworkAfter(a, o)]
    /\ configured' = [configured EXCEPT ![a] = @ \cup {o}]
    /\ UNCHANGED vars

\* An agent reports STATUS_OK for what it has configured, and only for that.
Reports(a) ==
    /\ \E status \in [Overlays -> Statuses] :
        /\ \A o \in known[a] : status[o] = "STATUS_OK" <=> o \in configured[a]
        /\ AgentRegistered(a, status)
    /\ UNCHANGED hosts

\* mesos-agent restarts: what it knew of its overlays is gone, the Docker
\* networks are not.
Restarts(a) ==
    /\ AgentRestart(a)
    /\ configured' = [configured EXCEPT ![a] = {}]
    /\ UNCHANGED docker

\* A purge: if it names only agents that are gone, their hosts are, too, and
\* an agent that comes back under such an IP comes with a new host.
Purge(ips) ==
    /\ DeleteAgents(ips)
    /\ IF GoneOnly
       THEN /\ docker' = [a \in AgentIPs |->
                    IF a \in ips THEN NoNetworks ELSE docker[a]]
            /\ configured' = [a \in AgentIPs |->
                    IF a \in ips THEN {} ELSE configured[a]]
       ELSE UNCHANGED hosts

\* All else is the master's.
MasterStep ==
    /\ \/ \E a \in AgentIPs : RegisterAgent(a) \/ AgentRegisteredAborts(a)
       \/ Recovery
       \/ Continuation
       \/ StoreLands
       \/ Stored
       \/ StoreFailed
       \/ Respawn
       \/ Reboot
    /\ UNCHANGED hosts

NetworkNext ==
    \/ \E a \in AgentIPs :
        \/ \E o \in Overlays : Configure(a, o)
        \/ Reports(a)
        \/ Restarts(a)
    \/ \E ips \in SUBSET AgentIPs \ {{}} : Purge(ips)
    \/ MasterStep

NetworkSpec == NetworkInit /\ [][NetworkNext]_networkVars

\* An agent that is sent its overlays after every restart gets to configure
\* them between two restarts.
FairNetworkSpec ==
    /\ NetworkSpec
    /\ Fairness
    /\ \A a \in AgentIPs, o \in Overlays : SF_networkVars(Configure(a, o))

-----------------------------------------------------------------------------
(* Properties *)

\* Networks differ in what both have.
Apart(network1, network2) ==
    /\ network1.subnet # network2.subnet \/ network1.subnet = None
    /\ network1.subnet6 # network2.subnet6 \/ network1.subnet6 = None

\* No two hosts have a Docker network with the same subnet of an overlay,
\* whatever became since of the master, its log and the agents that made them:
\* two containers would share an address.
HostsExclusive ==
    \A a, b \in AgentIPs, o \in Overlays :
        a # b /\ docker[a][o] # None /\ docker[b][o] # None =>
            Apart(docker[a][o], docker[b][o])

\* "Here, we assume that the overlay configuration never changes": no update
\* tells an agent of another subnet than the one its Docker network has.
NeverMoves ==
    \A a \in AgentIPs, o \in Overlays :
        docker[a][o] # None /\ told[a] # None =>
            told[a][o] = None \/ docker[a][o] = SubnetsIn(told[a][o])

\* Every agent that goes on registering ends up with a configuration, the one
\* that the master and its log hold for it, and its host with those networks.
EventuallyConnected ==
    \A a \in AgentIPs :
        <>[](/\ Settled(a)
             /\ \A o \in config.enabled :
                    docker[a][o] = SubnetsIn(log[a][1][o]))

=============================================================================
