---------------------------- MODULE OverlayAgent ----------------------------
(***************************************************************************)
(* The overlay agent of src/overlay/agent.cpp: the ManagerProcess that      *)
(* registers with the overlay master of the leading Mesos master,           *)
(* configures the Mesos and Docker networks of the overlays it is sent, and *)
(* reports how that went until the master acknowledges.                     *)
(*                                                                          *)
(* The process is one libprocess actor, so a handler is one action.  What   *)
(* interleaves with it are the delayed registrations, the subprocesses that *)
(* configure the networks of several overlays at once, the futures that     *)
(* collect their results, and the messages of more than one master.         *)
(***************************************************************************)
EXTENDS Integers, Sequences, FiniteSets

CONSTANTS
    Masters,            \* overlay masters that may come to lead
    Overlays,           \* names of the overlay networks
    UpdateOf,           \* UpdateOf[m]: the overlays master m sends, in order
    SubnetsOf,          \* SubnetsOf[o]: the subnets of o, of IPv4, IPv6 or both
    NetworkConfigs,     \* the network_configs an agent may have
    BridgesOf,          \* BridgesOf[c][o]: the bridges an update has for o, for
                        \* an agent whose network_config is c
    MaxConfigAttempts,  \* max_configuration_attempts
    MaxFaults,          \* bound on failures of the network and of commands
    MaxRetries,         \* bound on delayed registrations
    MaxUpdates,         \* bound on updates whose results are awaited
    MaxMessages,        \* bound on messages of one master under way
    None                \* an absent value

ASSUME UpdateAssumption ==
    /\ IsFiniteSet(Overlays)
    /\ UpdateOf \in [Masters -> Seq(Overlays)]
    /\ \A m \in Masters : \A i, j \in DOMAIN UpdateOf[m] :
            UpdateOf[m][i] = UpdateOf[m][j] => i = j

ASSUME BridgeAssumption ==
    /\ SubnetsOf \in [Overlays -> SUBSET {"subnet", "subnet6"}]
    /\ BridgesOf \in
            [NetworkConfigs ->
                [Overlays -> SUBSET {"mesos_bridge", "docker_bridge"}]]

ASSUME AgentConfigAssumption ==
    /\ NetworkConfigs \subseteq
            SUBSET {"mesos_bridge", "docker_bridge", "enable_ipv6"}
    /\ MaxConfigAttempts \in Nat
    /\ MaxFaults \in Nat

ASSUME AgentBoundsAssumption ==
    /\ MaxRetries \in Nat \ {0}
    /\ MaxUpdates \in Nat \ {0}
    /\ MaxMessages \in Nat \ {0}

VARIABLES
    networkConfig,   \* the flags that are set in networkConfig
    proc,            \* "running", or the CHECK that ended mesos-agent
    state,           \* state
    overlayMaster,   \* overlayMaster
    overlays,        \* the status of every overlay in `overlays`
    configAttempts,  \* configAttempts, up to one more than its maximum
    connected,       \* is the promise `connected` set?
    retries,         \* delayed calls of doReliableRegistration
    work,            \* how far configure() of every overlay has come
    awaiting,        \* per awaited update, the overlays not yet configured
    networks,        \* overlays whose Docker network exists on the host
    linked,          \* masters the process is linked to
    leader,          \* the overlay master of the leading Mesos master
    news,            \* has the detector something to report of it?
    toMaster,        \* messages under way to every master, oldest first
    toAgent,         \* messages under way from every master, oldest first
    faults           \* failures so far

registration == <<state, overlayMaster, configAttempts, connected, retries>>
configuration == <<overlays, work, awaiting>>
detector == <<leader, news>>
messages == <<toMaster, toAgent>>
process == <<networkConfig, proc>>
vars == <<process, registration, configuration, networks, linked, detector,
          messages, faults>>

-----------------------------------------------------------------------------
(* Data *)

States == {"REGISTERING", "REGISTERED"}

Statuses == {"STATUS_CONFIGURING", "STATUS_OK", "STATUS_FAILED"}

\* What configure() of an overlay waits for: the docker commands inspect and
\* create, iptables for the isolation chain and for masquerading; or just for
\* _configure to run.
Phases == {"inspect", "create", "isolation", "_configure", "masquerade"}

\* failed: did configureMesosNetwork fail?
Work == [phase: Phases, failed: BOOLEAN]

ASSUME AgentNoneAssumption == None \notin Masters \cup Statuses \cup Work

ToMaster == {"RegisterAgent", "AgentRegistered"}
ToAgent == {"UpdateAgentOverlays", "AgentRegisteredAcknowledgement"}

MesosBridge == "mesos_bridge" \in networkConfig
DockerBridge == "docker_bridge" \in networkConfig

\* Does the update have this bridge for overlay o?  A master keeps the bridges
\* that the agent asked for when it was given its subnet of o.
HasBridge(o, bridge) == bridge \in BridgesOf[networkConfig][o]

\* The subnets that docker network create is given: the bridge has an address
\* of each subnet of the overlay, and that of IPv6 is used if it is enabled.
DockerSubnets(o) ==
    {s \in SubnetsOf[o] : s = "subnet6" => "enable_ipv6" \in networkConfig}

CheckFailures == {"no overlay master", "overlay configuring"}

\* Mutant: STATUS_CONFIGURING is taken for any other status.
NeverConfiguring(o) == FALSE

Configuring(o) == overlays[o] = "STATUS_CONFIGURING"

\* A message that is still under way is not sent again: the second would be
\* answered as the first.
Send(queue, message) ==
    IF \E i \in DOMAIN queue : queue[i] = message THEN queue
    ELSE Append(queue, message)

\* A failure of a command or of the network, of which there are few.
Fault == faults < MaxFaults /\ faults' = faults + 1

-----------------------------------------------------------------------------
(* Registration *)

Init ==
    /\ networkConfig \in NetworkConfigs
    /\ proc = "running"
    /\ state = "REGISTERING"
    /\ overlayMaster = None
    /\ overlays = [o \in Overlays |-> None]
    /\ configAttempts = 0
    /\ connected = ~MesosBridge
    /\ retries = 0
    /\ work = [o \in Overlays |-> None]
    /\ awaiting = <<>>
    /\ networks = {}
    /\ linked = {}
    /\ leader \in Masters
    /\ news = TRUE
    /\ toMaster = [m \in Masters |-> <<>>]
    /\ toAgent = [m \in Masters |-> <<>>]
    /\ faults = 0

\* doReliableRegistration, in a handler that leaves the agent in state s with
\* master m, and n delayed calls besides its own.
doReliableRegistration(s, m, n) ==
    IF s = "REGISTERED" \/ m = None
    THEN /\ retries' = n
         /\ UNCHANGED toMaster
    ELSE /\ toMaster' = [toMaster EXCEPT ![m] = Send(@, "RegisterAgent")]
         /\ retries' = n + 1

\* A delayed doReliableRegistration.
RetryRegistration ==
    /\ proc = "running"
    /\ retries > 0
    /\ doReliableRegistration(state, overlayMaster, retries - 1)
    /\ UNCHANGED <<process, state, overlayMaster, configAttempts, connected,
                   configuration, networks, linked, detector, toAgent,
                   faults>>

\* Another master leads, or none; or the same one does anew.
LeaderChanges(m) ==
    /\ Fault
    /\ leader' = m
    /\ news' = TRUE
    /\ UNCHANGED <<process, registration, configuration, networks, linked,
                   messages>>

\* detected: the future of detect() is set by what differs from the last
\* master detected.
Detected ==
    /\ proc = "running"
    /\ news
    /\ leader = None => overlayMaster # None
    /\ retries < MaxRetries
    /\ news' = FALSE
    /\ configAttempts' = 0
    /\ state' = "REGISTERING"
    /\ overlayMaster' = leader
    /\ linked' = linked \cup ({leader} \ {None})
    /\ IF leader = None THEN UNCHANGED <<retries, toMaster>>
       ELSE doReliableRegistration("REGISTERING", leader, retries)
    /\ UNCHANGED <<process, connected, configuration, networks, leader, toAgent,
                   faults>>

\* Mutant: the link is not followed by a registration.
ExitedAndWaits(m) ==
    /\ proc = "running"
    /\ m \in linked
    /\ retries < MaxRetries
    /\ Fault
    /\ linked' = linked \ {m}
    /\ state' = "REGISTERING"
    /\ toAgent' = [toAgent EXCEPT ![m] = <<>>]
    /\ UNCHANGED <<process, overlayMaster, configAttempts, connected, retries,
                   configuration, networks, detector, toMaster>>

\* exited: the link to master m breaks, be m the present master or not, and
\* what m had sent is lost.
Exited(m) ==
    /\ proc = "running"
    /\ m \in linked
    /\ retries < MaxRetries
    /\ Fault
    /\ linked' = linked \ {m}
    /\ state' = "REGISTERING"
    /\ doReliableRegistration("REGISTERING", overlayMaster, retries)
    /\ toAgent' = [toAgent EXCEPT ![m] = <<>>]
    /\ UNCHANGED <<process, overlayMaster, configAttempts, connected,
                   configuration, networks, detector>>

-----------------------------------------------------------------------------
(* Updates *)

Received(m, message) ==
    /\ proc = "running"
    /\ toAgent[m] # <<>>
    /\ Head(toAgent[m]) = message
    /\ toAgent' = [toAgent EXCEPT ![m] = Tail(@)]

\* updateAgentOverlays takes the overlays of the update in order, up to the
\* first that is being configured ...
Considered(update) ==
    {o \in Overlays : \E i \in DOMAIN update :
        /\ update[i] = o
        /\ \A j \in 1..i : ~Configuring(update[j])}

\* Mutant: an overlay that is configured already is configured again.
StartedAll(update) == Considered(update)

\* ... and configures those that are not configured yet.
Started(update) == {o \in Considered(update) : overlays[o] # "STATUS_OK"}

Pending(update) == \E i \in DOMAIN update : Configuring(update[i])

\* Overlays of which configureMesosNetwork() writes the CNI configuration: those
\* with an IPv4 subnet, if the agent has a Mesos bridge ...
MesosNetworks(os) == {o \in os : MesosBridge /\ "subnet" \in SubnetsOf[o]}

\* ... which it cannot for those that the update has no Mesos bridge for.
WithoutMesosBridge(os) ==
    {o \in MesosNetworks(os) : ~HasBridge(o, "mesos_bridge")}

\* configureMesosNetwork() of the overlays os fails for the overlays failing.
configureMesosNetwork(os, failing) ==
    /\ failing \subseteq MesosNetworks(os)
    /\ WithoutMesosBridge(os) \subseteq failing

\* Mutant: the overlays do not become STATUS_CONFIGURING.
ConfigureSilently(os, failing) ==
    /\ failing \subseteq os
    /\ UNCHANGED overlays
    /\ work' = [o \in Overlays |->
            IF o \in os THEN [phase |-> "_configure", failed |-> o \in failing]
                        ELSE work[o]]

\* configure(), up to its first asynchronous command: the Mesos network is
\* written at once, the Docker network takes commands.
Configure(os, failing) ==
    /\ configureMesosNetwork(os, failing)
    /\ overlays' = [o \in Overlays |->
                        IF o \in os THEN "STATUS_CONFIGURING" ELSE overlays[o]]
    /\ work' = [o \in Overlays |->
            IF o \in os
            THEN [phase |-> IF DockerBridge THEN "inspect" ELSE "_configure",
                  failed |-> o \in failing]
            ELSE work[o]]

\* updateAgentOverlays: dropped unless the agent is registering; dropped, but
\* not undone, at an overlay that is being configured.
UpdateAgentOverlays(m) ==
    /\ Received(m, "UpdateAgentOverlays")
    /\ LET update == UpdateOf[m]
       IN  IF state # "REGISTERING"
           THEN UNCHANGED <<configuration, faults>>
           ELSE /\ \E failing \in SUBSET Started(update) :
                    /\ Configure(Started(update), failing)
                    /\ faults' = faults + Cardinality(
                            failing \ WithoutMesosBridge(Started(update)))
                    /\ faults' <= MaxFaults
                /\ IF Pending(update)
                   THEN UNCHANGED awaiting
                   ELSE /\ Len(awaiting) < MaxUpdates
                        /\ awaiting' = Append(awaiting, Started(update))
    /\ UNCHANGED <<process, registration, networks, linked, detector, toMaster>>

\* _updateAgentOverlays: the i-th awaited update has been configured, and its
\* outcome is reported to the present master, if the agent still registers.
_updateAgentOverlays(i) ==
    /\ proc = "running"
    /\ i \in DOMAIN awaiting
    /\ awaiting[i] = {}
    /\ awaiting' = [j \in 1..(Len(awaiting) - 1) |->
                        IF j < i THEN awaiting[j] ELSE awaiting[j + 1]]
    /\ IF state # "REGISTERING" THEN UNCHANGED toMaster
       ELSE /\ overlayMaster # None
            /\ \A o \in Overlays : ~Configuring(o)
            /\ toMaster' = [toMaster EXCEPT ![overlayMaster] =
                                Send(@, "AgentRegistered")]
    /\ UNCHANGED <<process, registration, overlays, work, networks, linked,
                   detector, toAgent, faults>>

\* Its CHECKs: there is an overlay master, and no overlay is configuring.
_updateAgentOverlaysAborts(i) ==
    /\ proc = "running"
    /\ i \in DOMAIN awaiting
    /\ awaiting[i] = {}
    /\ state = "REGISTERING"
    /\ \/ overlayMaster = None /\ proc' = "no overlay master"
       \/ /\ overlayMaster # None
          /\ \E o \in Overlays : Configuring(o)
          /\ proc' = "overlay configuring"
    /\ UNCHANGED <<networkConfig, registration, configuration, networks, linked,
                   detector, messages, faults>>

\* Mutant: only failures are looked for.
NoneFailed == \A o \in Overlays : overlays[o] # "STATUS_FAILED"

AllConfigured == \A o \in Overlays : overlays[o] \in {None, "STATUS_OK"}

\* agentRegisteredAcknowledgement: dropped, but counted, while an overlay is
\* not configured and attempts are left.
AgentRegisteredAcknowledgement(m) ==
    /\ Received(m, "AgentRegisteredAcknowledgement")
    /\ configAttempts' = IF configAttempts > MaxConfigAttempts
                         THEN configAttempts ELSE configAttempts + 1
    /\ linked' = linked \cup {m}
    /\ IF configAttempts' > MaxConfigAttempts \/ AllConfigured
       THEN state' = "REGISTERED" /\ connected' = TRUE
       ELSE UNCHANGED <<state, connected>>
    /\ UNCHANGED <<process, overlayMaster, retries, configuration, networks,
                   detector, toMaster, faults>>

-----------------------------------------------------------------------------
(* Configuration of an overlay *)

At(o, phase) == proc = "running" /\ work[o] # None /\ work[o].phase = phase

\* The configuration of o goes on with another command; an update that awaits
\* it awaits it still.
Goes(o, phase) ==
    /\ work' = [work EXCEPT ![o].phase = phase]
    /\ UNCHANGED <<process, registration, overlays, awaiting, linked, detector,
                   messages>>

\* The configuration of o is over: its future is set or failed.
Ends(o, status) ==
    /\ overlays' = [overlays EXCEPT ![o] = status]
    /\ work' = [work EXCEPT ![o] = None]
    /\ awaiting' = [i \in DOMAIN awaiting |-> awaiting[i] \ {o}]
    /\ UNCHANGED <<process, registration, linked, detector, messages>>

\* Mutant: the results of the two networks are not looked at.
AnyFailed(o, failed) == FALSE

Failed(o, failed) == work[o].failed \/ failed

\* _configure: both networks are done, well or badly.  An overlay with a bridge
\* needs rules for masquerading too.
_configure(o, failed) ==
    IF Failed(o, failed) THEN Ends(o, "STATUS_FAILED")
    ELSE IF MesosBridge \/ DockerBridge
         THEN Goes(o, "masquerade")
         ELSE Ends(o, "STATUS_OK")

\* configureDockerNetwork has nothing to do.
NoDockerNetwork(o) ==
    /\ At(o, "_configure")
    /\ _configure(o, FALSE)
    /\ UNCHANGED <<networks, faults>>

\* checkDockerNetwork: any exit status but 0 counts as no network.
CheckDockerNetwork(o) ==
    /\ At(o, "inspect")
    /\ \/ o \in networks /\ Goes(o, "isolation") /\ UNCHANGED faults
       \/ o \notin networks /\ Goes(o, "create") /\ UNCHANGED faults
       \/ o \in networks /\ Goes(o, "create") /\ Fault
       \/ _configure(o, TRUE) /\ Fault
    /\ UNCHANGED networks

\* _configureDockerNetwork fails without a bridge, and has nothing to do for one
\* without a subnet it may use.  Otherwise docker network create fails for a
\* network that exists, and may have created it when it is killed at its
\* timeout.
CreateDockerNetwork(o) ==
    /\ At(o, "create")
    /\ \/ /\ ~HasBridge(o, "docker_bridge")
          /\ _configure(o, TRUE)
          /\ UNCHANGED <<networks, faults>>
       \/ /\ HasBridge(o, "docker_bridge")
          /\ DockerSubnets(o) = {}
          /\ _configure(o, FALSE)
          /\ UNCHANGED <<networks, faults>>
       \/ /\ HasBridge(o, "docker_bridge")
          /\ DockerSubnets(o) # {}
          /\ \/ /\ o \notin networks
                /\ Goes(o, "isolation")
                /\ networks' = networks \cup {o}
                /\ UNCHANGED faults
             \/ /\ o \in networks
                /\ _configure(o, TRUE)
                /\ UNCHANGED <<networks, faults>>
             \/ /\ o \notin networks
                /\ _configure(o, TRUE)
                /\ networks' \in {networks, networks \cup {o}}
                /\ Fault

\* __configureDockerNetwork: iptables of the isolation chain, tried on another
\* chain when it fails on the first.
BypassIsolation(o) ==
    /\ At(o, "isolation")
    /\ \/ _configure(o, FALSE) /\ UNCHANGED faults
       \/ _configure(o, TRUE) /\ Fault
    /\ UNCHANGED networks

\* The script of ipset and iptables ends; overlaySuccess or overlayFailure
\* runs before the future of the configuration is set.
Masquerade(o) ==
    /\ At(o, "masquerade")
    /\ \/ Ends(o, "STATUS_OK") /\ UNCHANGED faults
       \/ Ends(o, "STATUS_FAILED") /\ Fault
    /\ UNCHANGED networks

ConfigurationStep(o) ==
    \/ NoDockerNetwork(o)
    \/ CheckDockerNetwork(o)
    \/ CreateDockerNetwork(o)
    \/ BypassIsolation(o)
    \/ Masquerade(o)

-----------------------------------------------------------------------------
(* The rest of the world *)

\* mesos-agent is started again after a failed CHECK, or is restarted.  The
\* Docker networks are still there; what was sent to it is lost.
AgentRestart ==
    /\ \/ proc \in CheckFailures /\ UNCHANGED faults
       \/ proc = "running" /\ Fault
    /\ proc' = "running"
    /\ state' = "REGISTERING"
    /\ overlayMaster' = None
    /\ overlays' = [o \in Overlays |-> None]
    /\ configAttempts' = 0
    /\ connected' = ~MesosBridge
    /\ retries' = 0
    /\ work' = [o \in Overlays |-> None]
    /\ awaiting' = <<>>
    /\ linked' = {}
    /\ news' = TRUE
    /\ toAgent' = [m \in Masters |-> <<>>]
    /\ UNCHANGED <<networkConfig, networks, leader, toMaster>>

\* What a master answers: a registration with the agent's overlays, a report
\* with an acknowledgement.
Response(request) ==
    IF request = "RegisterAgent" THEN "UpdateAgentOverlays"
                                 ELSE "AgentRegisteredAcknowledgement"

\* Master m handles the oldest message from the agent.
MasterAnswers(m) ==
    /\ toMaster[m] # <<>>
    /\ Len(toAgent[m]) < MaxMessages
    /\ toMaster' = [toMaster EXCEPT ![m] = Tail(@)]
    /\ toAgent' = [toAgent EXCEPT ![m] = Append(@, Response(Head(toMaster[m])))]
    /\ UNCHANGED <<process, registration, configuration, networks, linked,
                   detector, faults>>

\* The message is lost, or dropped by a master that recovers.
MasterDrops(m) ==
    /\ toMaster[m] # <<>>
    /\ toMaster' = [toMaster EXCEPT ![m] = Tail(@)]
    /\ Fault
    /\ UNCHANGED <<process, registration, configuration, networks, linked,
                   detector, toAgent>>

-----------------------------------------------------------------------------

Receive(m) == UpdateAgentOverlays(m) \/ AgentRegisteredAcknowledgement(m)

Report ==
    \E i \in 1..MaxUpdates :
        _updateAgentOverlays(i) \/ _updateAgentOverlaysAborts(i)

Next ==
    \/ RetryRegistration
    \/ \E m \in Masters \cup {None} : LeaderChanges(m)
    \/ Detected
    \/ \E m \in Masters :
        \/ Exited(m)
        \/ Receive(m)
        \/ MasterAnswers(m)
        \/ MasterDrops(m)
    \/ Report
    \/ \E o \in Overlays : ConfigurationStep(o)
    \/ AgentRestart

Spec == Init /\ [][Next]_vars

\* Delayed calls and subprocesses come to an end, and messages that are not
\* lost arrive.
Fairness ==
    /\ WF_vars(RetryRegistration)
    /\ WF_vars(Report)
    /\ \A m \in Masters : WF_vars(Receive(m)) /\ WF_vars(MasterAnswers(m))
    /\ \A o \in Overlays : WF_vars(ConfigurationStep(o))
    /\ WF_vars(proc \in CheckFailures /\ AgentRestart)
    /\ WF_vars(Detected)

FairSpec == Spec /\ Fairness

-----------------------------------------------------------------------------
(* Properties *)

\* Every variable has the values its declaration in ManagerProcess allows,
\* and exactly the overlays with a configuration under way are configuring.
TypeOK ==
    /\ networkConfig \in NetworkConfigs
    /\ proc \in {"running"} \cup CheckFailures
    /\ state \in States
    /\ overlayMaster \in Masters \cup {None}
    /\ overlays \in [Overlays -> Statuses \cup {None}]
    /\ configAttempts \in 0..(MaxConfigAttempts + 1)
    /\ connected \in BOOLEAN
    /\ retries \in 0..MaxRetries
    /\ work \in [Overlays -> Work \cup {None}]
    /\ awaiting \in Seq(SUBSET Overlays)
    /\ networks \subseteq Overlays
    /\ linked \subseteq Masters
    /\ leader \in Masters \cup {None}
    /\ news \in BOOLEAN
    /\ toMaster \in [Masters -> Seq(ToMaster)]
    /\ toAgent \in [Masters -> Seq(ToAgent)]
    /\ faults \in 0..MaxFaults
    /\ \A o \in Overlays : work[o] # None <=> overlays[o] = "STATUS_CONFIGURING"

\* An agent that is not registered, and knows a master, is going to try again
\* (doReliableRegistration), whatever links broke and masters came and went.
RegistrationRetried ==
    proc = "running" /\ state = "REGISTERING" /\ overlayMaster # None
        => retries > 0

\* "We move into `REGISTERED` state only if all overlays have been configured
\* correctly", or no attempt is left.
RegisteredConfigured ==
    proc = "running" /\ state = "REGISTERED" =>
        \/ \A o \in Overlays : overlays[o] \in {None, "STATUS_OK"}
        \/ configAttempts > MaxConfigAttempts

\* On an agent with docker_bridge an overlay that is STATUS_OK has its Docker
\* network, if it has a subnet that docker may be given.  An overlay of IPv6
\* alone is STATUS_OK without one when enable_ipv6 is not set ("nothing to
\* configure").
ConfiguredForReal ==
    DockerBridge =>
        \A o \in Overlays :
            overlays[o] = "STATUS_OK" /\ DockerSubnets(o) # {} =>
                o \in networks

\* An update awaits only overlays that are being configured, each of them in
\* one update at most: its report does come.
AwaitedUnderWay ==
    \A i \in DOMAIN awaiting :
        /\ \A o \in awaiting[i] : overlays[o] = "STATUS_CONFIGURING"
        /\ \A j \in DOMAIN awaiting \ {i} : awaiting[i] \cap awaiting[j] = {}

\* "If the overlay is in `STATUS_OK`, we will skip the configuration": a
\* network in use is not taken down until mesos-agent is restarted.
ConfiguredStays ==
    [][\A o \in Overlays : overlays[o] = "STATUS_OK" =>
            overlays'[o] = "STATUS_OK" \/ AgentRestart]_vars

\* "Every overlay network should have a status, and it should be either in
\* `STATUS_OK` or `STATUS_FAILED`" once an update was configured.
ReportedWhenConfigured == proc # "overlay configuring"

\* The agent tries "configuring overlay networks, learned from the new Master"
\* before it is registered with it.
RegisteredLearned ==
    proc = "running" /\ state = "REGISTERED" /\ overlayMaster # None =>
        \A i \in DOMAIN UpdateOf[overlayMaster] :
            overlays[UpdateOf[overlayMaster][i]] # None

\* With failures that come to an end, an agent that keeps a master ends up
\* REGISTERED, for good, and this master is the one it knows and would report
\* to.  It may be an acknowledgement of an earlier registration that registers
\* it, so that the master need not have heard of it: see RegisteredLearned.
EventuallyRegistered ==
    \/ <>[](leader = None)
    \/ <>[]/\ proc = "running"
           /\ state = "REGISTERED"
           /\ overlayMaster = leader

=============================================================================
