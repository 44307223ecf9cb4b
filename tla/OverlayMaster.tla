--------------------------- MODULE OverlayMaster ---------------------------
(***************************************************************************)
(* The overlay master of src/overlay/master.cpp: the ManagerProcess that    *)
(* gives every agent a subnet of each overlay network and a VTEP address,   *)
(* and keeps what it gave in a replicated log.                              *)
(*                                                                          *)
(* ManagerProcess is one libprocess actor: its handlers run one at a time,  *)
(* and each is one action here.  What is concurrent is the log, which       *)
(* answers a fetch or a store later, the continuations the actor defers to  *)
(* itself, and the agents and operators that send requests meanwhile.       *)
(*                                                                          *)
(* A subnet or an address is a number: the n-th subnet of its overlay, the  *)
(* n-th address of the VTEP network.                                        *)
(***************************************************************************)
EXTENDS Integers, Sequences, FiniteSets

CONSTANTS
    AgentIPs,      \* agents, known to the master by their IP
    Overlays,      \* names of the configured overlay networks
    IPv4Overlays,  \* the overlays configured with an IPv4 network
    IPv6Overlays,  \* the overlays configured with an IPv6 network
    Subnets,       \* Subnets[o]: the IPv4 agent subnets of overlay o
    Subnets6,      \* Subnets6[o]: the IPv6 agent subnets of overlay o
    VtepIPs,       \* addresses of vtep_subnet
    VtepIP6s,      \* addresses of vtep_subnet6
    Configs,       \* configurations the operator may start the master with
    Statuses,      \* outcomes an agent reports for an overlay
    AllocChoices,  \* values of allocate_subnet that agents register with
    GoneOnly,      \* are purges requested only for agents that are gone?
    MaxFaults,     \* bound on log failures and restarts
    MaxDeletes,    \* bound on purge requests
    None           \* an absent value

ASSUME NetworksAssumption ==
    /\ IPv4Overlays \subseteq Overlays
    /\ IPv6Overlays \subseteq Overlays
    /\ Subnets \in [Overlays -> SUBSET Nat]
    /\ Subnets6 \in [Overlays -> SUBSET Nat]
    /\ VtepIPs \subseteq Nat
    /\ VtepIP6s \subseteq Nat

ASSUME ConfigAssumption ==
    /\ Configs \subseteq [enabled: SUBSET Overlays, network6: BOOLEAN,
                          log: BOOLEAN]
    /\ AllocChoices \subseteq BOOLEAN
    /\ GoneOnly \in BOOLEAN
    /\ MaxFaults \in Nat
    /\ MaxDeletes \in Nat

ASSUME NoneAssumption ==
    /\ None \notin Nat
    /\ None \notin Statuses

VARIABLES
    proc,           \* "running", "terminated" (demoted), or why it aborted
    config,         \* the configuration this process was started with
    recovering,     \* recovering
    stored,         \* storedState.isSome()
    agents,         \* agents: backend and overlays of every agent
    freeIP,         \* vtep.freeIP
    freeIP6,        \* vtep.freeIP6
    freeNetworks,   \* freeNetworks of every overlay
    freeNetworks6,  \* freeNetworks6 of every overlay
    networkState,   \* networkState: the records of every agent
    operations,     \* operations: queued behind the store in flight
    inflight,       \* the store in flight, None when ~storing
    mailbox,        \* continuations deferred to the process, oldest first
    log,            \* the State in the replicated log
    logged,         \* has_network() of that State: was it ever written?
    told,           \* the last configuration sent to every agent
    known,          \* the overlays every agent has been told of
    faults,         \* log failures and restarts so far
    deletes         \* purge requests so far

pools == <<freeIP, freeIP6, freeNetworks, freeNetworks6>>
storage == <<operations, inflight, mailbox>>
durable == <<log, logged>>
environment == <<told, known, faults, deletes>>
vars == <<proc, config, recovering, stored, agents, pools, networkState,
          storage, durable, environment>>

-----------------------------------------------------------------------------
(* Data *)

\* Is a replicated_log_dir configured?
UseLog == config.log

OverlayInfo == [subnet: Nat \cup {None}, subnet6: Nat \cup {None},
                vtep: VtepIPs, vtep6: VtepIP6s \cup {None},
                status: Statuses \cup {None}]

\* AgentInfo: the overlays of one agent, None where it has not got one.
AgentInfo == [Overlays -> OverlayInfo \cup {None}]

BackendInfo == [vtep: VtepIPs, vtep6: VtepIP6s \cup {None}]

Agent == [backend: BackendInfo \cup {None}, overlays: AgentInfo]

\* A State holds a sequence of records per agent: AddAgent appends one
\* without looking for another, ModifyAgent replaces the first.
NetworkState == [AgentIPs -> Seq(AgentInfo)]

Operation ==
    [type: {"add", "modify"}, ip: AgentIPs, info: AgentInfo]
        \cup [type: {"delete"}, ips: SUBSET AgentIPs]

\* A store in flight: the State it writes, the operations it completes, and
\* whether the log already holds it.
Store == [state: NetworkState, ops: Seq(Operation), landed: BOOLEAN]

\* None is told from what may be in its place.
ASSUME AbsentAssumption ==
    /\ None \notin OverlayInfo
    /\ None \notin AgentInfo
    /\ None \notin BackendInfo
    /\ None \notin Agent
    /\ None \notin Store

AbortReasons == {"no such agent", "no backend", "unknown overlay",
                 "deletion failed"}

NoOverlays == [o \in Overlays |-> None]
NoAgents == [a \in AgentIPs |-> None]
NoRecords == [a \in AgentIPs |-> <<>>]

Names(info) == {o \in Overlays : info[o] # None}

ClearStatus(info) ==
    [o \in Overlays |->
        IF info[o] = None THEN None ELSE [info[o] EXCEPT !.status = None]]

\* freeIP.begin()->lower(): allocation always takes the lowest free slot.
Lowest(S) == CHOOSE n \in S : \A m \in S : n <= m

-----------------------------------------------------------------------------
(* Operations on a State *)

\* Operation::perform on state ns, when the agents in `present` are in the
\* agents map: can it be done, and what does it make of ns?
CanPerform(op, ns, present) ==
    \/ op.type = "delete"
    \/ op.type = "add" /\ op.ip \in present
    \/ op.type = "modify" /\ op.ip \in present /\ ns[op.ip] # <<>>

Perform(op, ns, present) ==
    IF ~CanPerform(op, ns, present) THEN ns
    ELSE CASE op.type = "add" -> [ns EXCEPT ![op.ip] = Append(@, op.info)]
           [] op.type = "modify" ->
                    [ns EXCEPT ![op.ip] = [@ EXCEPT ![1] = op.info]]
           [] op.type = "delete" ->
                    [a \in AgentIPs |-> IF a \in op.ips THEN <<>> ELSE ns[a]]

\* The State store() writes: every queued operation performed on a copy of
\* ns, in order.  An operation that fails is skipped.
PerformAll(ops, ns, present) ==
    LET after[n \in 0..Len(ops)] ==
            IF n = 0 THEN ns ELSE Perform(ops[n], after[n - 1], present)
    IN  after[Len(ops)]

Present(as) == {a \in AgentIPs : as[a] # None}

\* store() of the operations `ops` on ns.
Write(ops, ns, present) ==
    [state |-> PerformAll(ops, ns, present), ops |-> ops, landed |-> FALSE]

\* update(op), called in a handler that leaves the agents map at `as`.
Update(op, as) ==
    IF UseLog
    THEN /\ IF inflight # None
            THEN /\ operations' = Append(operations, op)
                 /\ UNCHANGED inflight
            ELSE /\ inflight' = Write(Append(operations, op), networkState,
                                      Present(as))
                 /\ operations' = <<>>
         /\ UNCHANGED <<mailbox, networkState>>
    ELSE /\ networkState' = Perform(op, networkState, Present(as))
         /\ mailbox' = IF CanPerform(op, networkState, Present(as))
                       THEN Append(mailbox, op) ELSE mailbox
         /\ UNCHANGED <<operations, inflight>>

\* Agents that some purge still under way names.
PendingDeletes ==
    LET pending == operations \o mailbox
                     \o (IF inflight = None THEN <<>> ELSE inflight.ops)
    IN  UNION {pending[i].ips : i \in {j \in DOMAIN pending :
                                          pending[j].type = "delete"}}

\* An agent whose purge was requested because it is gone: it sends nothing
\* and receives nothing until the purge is done.
Gone(a) == GoneOnly /\ a \in PendingDeletes

-----------------------------------------------------------------------------
(* Allocation *)

\* Mutant: overlays the agent has are not skipped.
MissingAll(has) == config.enabled

\* Overlays agent info `has` lacks: addOverlays walks through these.
Missing(has) == config.enabled \ Names(has)

\* What addOverlays allocates in overlay o: a failed IPv6 allocation comes
\* after the IPv4 one, which is kept.
Takes(o, alloc) == alloc /\ o \in IPv4Overlays /\ freeNetworks[o] # {}

Takes6(o, alloc) ==
    /\ alloc /\ o \in IPv6Overlays /\ freeNetworks6[o] # {}
    /\ o \in IPv4Overlays => freeNetworks[o] # {}

Added(has, alloc) ==
    {o \in Missing(has) :
        alloc => /\ o \in IPv4Overlays => freeNetworks[o] # {}
                 /\ o \in IPv6Overlays => freeNetworks6[o] # {}}

NewOverlay(o, backend, alloc) ==
    [subnet  |-> IF Takes(o, alloc) THEN Lowest(freeNetworks[o]) ELSE None,
     subnet6 |-> IF Takes6(o, alloc) THEN Lowest(freeNetworks6[o]) ELSE None,
     vtep    |-> backend.vtep,
     vtep6   |-> backend.vtep6,
     status  |-> None]

\* Agent::addOverlays: the overlays the agent ends up with ...
WithOverlays(has, backend, alloc) ==
    [o \in Overlays |->
        IF o \in Added(has, alloc) THEN NewOverlay(o, backend, alloc)
                                   ELSE has[o]]

\* Mutants: allocate, or allocate6, does not remove what it gives.
AllocateAndKeep(has, alloc) == UNCHANGED <<freeNetworks, freeNetworks6>>

AllocateAndKeep6(has, alloc) ==
    /\ freeNetworks' = [o \in Overlays |->
            IF o \in Missing(has) /\ Takes(o, alloc)
            THEN freeNetworks[o] \ {Lowest(freeNetworks[o])}
            ELSE freeNetworks[o]]
    /\ UNCHANGED freeNetworks6

\* ... and what it takes from the overlays' free subnets.
AllocateSubnets(has, alloc) ==
    /\ freeNetworks' = [o \in Overlays |->
            IF o \in Missing(has) /\ Takes(o, alloc)
            THEN freeNetworks[o] \ {Lowest(freeNetworks[o])}
            ELSE freeNetworks[o]]
    /\ freeNetworks6' = [o \in Overlays |->
            IF o \in Missing(has) /\ Takes6(o, alloc)
            THEN freeNetworks6[o] \ {Lowest(freeNetworks6[o])}
            ELSE freeNetworks6[o]]

-----------------------------------------------------------------------------
(* The process starts, is demoted, and aborts *)

InitialPool(o) == IF o \in IPv4Overlays THEN Subnets[o] ELSE {}
InitialPool6(o) == IF o \in IPv6Overlays THEN Subnets6[o] ELSE {}

InitialFreeIP6(c) == IF c.network6 THEN VtepIP6s ELSE {}

Init ==
    /\ proc = "running"
    /\ config \in Configs
    /\ recovering = FALSE
    /\ stored = FALSE
    /\ agents = NoAgents
    /\ freeIP = VtepIPs
    /\ freeIP6 = InitialFreeIP6(config)
    /\ freeNetworks = [o \in Overlays |-> InitialPool(o)]
    /\ freeNetworks6 = [o \in Overlays |-> InitialPool6(o)]
    /\ networkState = NoRecords
    /\ operations = <<>>
    /\ inflight = None
    /\ mailbox = <<>>
    /\ log = NoRecords
    /\ logged = FALSE
    /\ told = NoAgents
    /\ known = [a \in AgentIPs |-> {}]
    /\ faults = 0
    /\ deletes = 0

\* The ManagerProcess that replaces this one: all it had in memory is gone,
\* with the store in flight, whether that reached the log or not.
Start(c) ==
    /\ proc' = "running"
    /\ config' = c
    /\ recovering' = FALSE
    /\ stored' = FALSE
    /\ agents' = NoAgents
    /\ freeIP' = VtepIPs
    /\ freeIP6' = InitialFreeIP6(c)
    /\ freeNetworks' = [o \in Overlays |-> InitialPool(o)]
    /\ freeNetworks6' = [o \in Overlays |-> InitialPool6(o)]
    /\ networkState' = NoRecords
    /\ operations' = <<>>
    /\ inflight' = None
    /\ mailbox' = <<>>
    /\ UNCHANGED <<durable, told, known, deletes>>

Stop(reason) ==
    /\ proc' = reason
    /\ UNCHANGED <<config, recovering, stored, agents, pools, networkState,
                   storage>>

\* demote() terminates the process ahead of all that is in its mailbox.
Demote == Stop("terminated")

\* A failed CHECK or an uncaught exception ends mesos-master itself.
Abort(reason) == Stop(reason) /\ UNCHANGED <<durable, environment>>

\* ProcessSupervisor starts a new process, with the same MasterConfig, three
\* seconds after the old one terminated.
Respawn ==
    /\ proc = "terminated"
    /\ Start(config)
    /\ UNCHANGED faults

\* mesos-master is killed or has aborted, and comes back with a configuration
\* in which the operator may have enabled overlays or the IPv6 VTEP network.
Reboot ==
    /\ proc \in AbortReasons \/ faults < MaxFaults
    /\ faults' = IF proc \in AbortReasons THEN faults ELSE faults + 1
    /\ \E c \in Configs :
        /\ config.network6 => c.network6
        /\ c.log = config.log
        /\ Start(c)

-----------------------------------------------------------------------------
(* Recovery from the log *)

Recovered == UseLog => stored

\* The first RegisterAgentMessage makes the master fetch its State; it is
\* dropped, and so is every other until the fetch is done.
StartRecovery(a) ==
    /\ proc = "running"
    /\ ~Gone(a)
    /\ UseLog /\ ~stored /\ ~recovering
    /\ recovering' = TRUE
    /\ UNCHANGED <<proc, config, stored, agents, pools, networkState,
                   storage, durable, environment>>

\* The records of State ns, as <<agent, index>>.
Records(ns) == UNION {{a} \X DOMAIN ns[a] : a \in AgentIPs}

VtepsOf(info) == {info[o].vtep : o \in Names(info)}
Vtep6sOf(info) == {info[o].vtep6 : o \in Names(info)} \ {None}

\* What a record names is free, so that every reserve() of _recover of it
\* succeeds ...
Available(info) ==
    /\ \A o \in Names(info) :
        /\ info[o].subnet \in freeNetworks[o] \cup {None}
        /\ info[o].subnet6 \in freeNetworks6[o] \cup {None}
    /\ VtepsOf(info) \subseteq freeIP
    /\ Vtep6sOf(info) \subseteq freeIP6

\* ... unless another record names it too.
Disjoint(info1, info2) ==
    /\ \A o \in Names(info1) \cap Names(info2) :
        /\ info1[o].subnet # info2[o].subnet \/ info1[o].subnet = None
        /\ info1[o].subnet6 # info2[o].subnet6 \/ info1[o].subnet6 = None
    /\ VtepsOf(info1) \cap VtepsOf(info2) = {}
    /\ Vtep6sOf(info1) \cap Vtep6sOf(info2) = {}

AllDisjoint(ns) ==
    \A r, s \in Records(ns) : r # s => Disjoint(ns[r[1]][r[2]], ns[s[1]][s[2]])

Reservable(ns) ==
    AllDisjoint(ns) /\ \A r \in Records(ns) : Available(ns[r[1]][r[2]])

\* Agent::create: the backend is that of overlays(0), which may be any of the
\* agent's overlays, as getAgentInfo lists them in hashmap order.
BackendsOf(info) ==
    IF Names(info) = {} THEN {None}
    ELSE {[vtep |-> info[o].vtep, vtep6 |-> info[o].vtep6] : o \in Names(info)}

Backends(ns) == UNION {BackendsOf(ns[a][1]) : a \in {b \in AgentIPs : ns[b] # <<>>}}

FetchPending == proc = "running" /\ recovering /\ ~stored

\* Mutant: the state is taken for empty whatever the log holds.
RecoverNothingEver ==
    /\ FetchPending
    /\ stored' = TRUE
    /\ UNCHANGED <<proc, config, recovering, agents, pools, networkState,
                   storage, durable, environment>>

\* _recover, when nothing was ever stored: `recovering` stays set.
RecoverNothing ==
    /\ FetchPending
    /\ ~logged
    /\ stored' = TRUE
    /\ UNCHANGED <<proc, config, recovering, agents, pools, networkState,
                   storage, durable, environment>>

ReserveSubnets(infos) ==
    freeNetworks' = [o \in Overlays |-> freeNetworks[o] \
        {i[o].subnet : i \in {j \in infos : j[o] # None}}]
ReserveSubnets6(infos) ==
    freeNetworks6' = [o \in Overlays |-> freeNetworks6[o] \
        {i[o].subnet6 : i \in {j \in infos : j[o] # None}}]
ReserveIPs(infos) == freeIP' = freeIP \ UNION {VtepsOf(i) : i \in infos}
ReserveIP6s(infos) == freeIP6' = freeIP6 \ UNION {Vtep6sOf(i) : i \in infos}

\* Mutants: one kind of resource is not reserved.
ReserveNotSubnets6(infos) ==
    /\ ReserveSubnets(infos) /\ UNCHANGED freeNetworks6
    /\ ReserveIPs(infos) /\ ReserveIP6s(infos)
ReserveNotIPs(infos) ==
    /\ ReserveSubnets(infos) /\ ReserveSubnets6(infos)
    /\ UNCHANGED freeIP /\ ReserveIP6s(infos)
ReserveNotIP6s(infos) ==
    /\ ReserveSubnets(infos) /\ ReserveSubnets6(infos)
    /\ ReserveIPs(infos) /\ UNCHANGED freeIP6

\* What the records name leaves the free pools.
Reserve(infos) ==
    /\ ReserveSubnets(infos) /\ ReserveSubnets6(infos)
    /\ ReserveIPs(infos) /\ ReserveIP6s(infos)

\* _recover: the agents, their subnets and their VTEP addresses are taken
\* from the log.  agents.emplace keeps the first record of an agent.
Recover ==
    /\ FetchPending
    /\ logged
    /\ Reservable(log)
    /\ \E first \in [AgentIPs -> Backends(log) \cup {None}] :
        /\ \A a \in AgentIPs :
            first[a] \in IF log[a] = <<>> THEN {None} ELSE BackendsOf(log[a][1])
        /\ agents' = [a \in AgentIPs |->
                IF log[a] = <<>> THEN None
                ELSE [backend |-> first[a], overlays |-> ClearStatus(log[a][1])]]
    /\ Reserve({log[r[1]][r[2]] : r \in Records(log)})
    /\ networkState' = [a \in AgentIPs |->
            [i \in DOMAIN log[a] |-> ClearStatus(log[a][i])]]
    /\ stored' = TRUE
    /\ recovering' = FALSE
    /\ UNCHANGED <<proc, config, storage, durable, environment>>

\* _recover: the fetch failed, was discarded or took longer than
\* replicatedLogTimeout.
FetchFailed ==
    /\ FetchPending
    /\ faults < MaxFaults
    /\ faults' = faults + 1
    /\ Demote
    /\ UNCHANGED <<durable, told, known, deletes>>

\* _recover: some record names what is not free.
RecoveryFailed ==
    /\ FetchPending
    /\ logged
    /\ ~Reservable(log)
    /\ Demote
    /\ UNCHANGED <<durable, environment>>

-----------------------------------------------------------------------------
(* Registration *)

\* What the agent is sent: its overlays, without their status.
Configuration(as, a) == ClearStatus(as[a].overlays)

\* send(pid, update): the configuration of agent a in the map `as`.
SendUpdate(as, a) ==
    IF Gone(a) THEN UNCHANGED <<told, known>>
    ELSE /\ told' = [told EXCEPT ![a] = Configuration(as, a)]
         /\ known' = [known EXCEPT ![a] = @ \cup Names(as[a].overlays)]

CanRegister(a) == proc = "running" /\ ~Gone(a) /\ Recovered

\* registerAgent of an agent that is not in `agents`.
RegisterNew(a, alloc) ==
    /\ CanRegister(a)
    /\ agents[a] = None
    /\ freeIP # {}
    /\ LET backend == [vtep |-> Lowest(freeIP),
                       vtep6 |-> IF config.network6 THEN Lowest(freeIP6)
                                                    ELSE None]
       IN  /\ freeIP' = freeIP \ {Lowest(freeIP)}
           /\ IF config.network6 /\ freeIP6 = {}
              \* The VTEP IP just allocated is not given back.
              THEN UNCHANGED <<agents, freeIP6, freeNetworks, freeNetworks6,
                               networkState, storage>>
              ELSE /\ freeIP6' = freeIP6 \ {backend.vtep6}
                   /\ agents' = [agents EXCEPT ![a] =
                        [backend |-> backend,
                         overlays |-> WithOverlays(NoOverlays, backend, alloc)]]
                   /\ AllocateSubnets(NoOverlays, alloc)
                   /\ Update([type |-> "add", ip |-> a,
                              info |-> agents'[a].overlays], agents')
    /\ UNCHANGED <<proc, config, recovering, stored, durable, environment>>

\* registerAgent of an agent that is in `agents`: it gets the VTEP IPv6 and
\* the overlays it lacks.  New overlays go to the log first; when there are
\* none, an agent that networkState holds is sent its overlays at once, and
\* the message of one it does not hold is dropped.
RegisterKnown(a, alloc) ==
    /\ CanRegister(a)
    /\ agents[a] # None
    /\ agents[a].backend # None
    /\ LET needs6 == config.network6 /\ agents[a].backend.vtep6 = None
           has == agents[a].overlays
           backend == IF needs6
                      THEN [agents[a].backend EXCEPT !.vtep6 = Lowest(freeIP6)]
                      ELSE agents[a].backend
       IN  /\ needs6 => freeIP6 # {}
           /\ freeIP6' = IF needs6 THEN freeIP6 \ {Lowest(freeIP6)} ELSE freeIP6
           /\ agents' = [agents EXCEPT ![a] =
                [backend |-> backend,
                 overlays |-> WithOverlays(has, backend, alloc)]]
           /\ AllocateSubnets(has, alloc)
           /\ IF Added(has, alloc) # {}
              THEN /\ Update([type |-> "modify", ip |-> a,
                              info |-> agents'[a].overlays], agents')
                   /\ UNCHANGED <<told, known>>
              ELSE /\ IF networkState[a] # <<>> THEN SendUpdate(agents', a)
                                                ELSE UNCHANGED <<told, known>>
                   /\ UNCHANGED <<networkState, storage>>
    /\ UNCHANGED <<proc, config, recovering, stored, freeIP, durable,
                   faults, deletes>>

\* registerAgent drops the message, and changes nothing, while it recovers,
\* when no VTEP IP is left, and when no VTEP IPv6 is left for a known agent.
RegistrationDropped(a) ==
    /\ proc = "running"
    /\ ~Gone(a)
    /\ \/ FetchPending
       \/ Recovered /\ agents[a] = None /\ freeIP = {}
       \/ /\ Recovered /\ agents[a] # None
          /\ agents[a].backend # None /\ agents[a].backend.vtep6 = None
          /\ config.network6 /\ freeIP6 = {}
    /\ UNCHANGED vars

\* getBackendInfo() of an agent recovered without any overlay.
RegisterAborts(a) ==
    /\ CanRegister(a)
    /\ agents[a] # None
    /\ agents[a].backend = None
    /\ Abort("no backend")

-----------------------------------------------------------------------------
(* The store in flight *)

\* The log holds the State; the master has not been told yet.  The write goes
\* on when the master that started it has meanwhile been demoted.
StoreLands ==
    /\ inflight # None
    /\ ~inflight.landed
    /\ log' = inflight.state
    /\ logged' = TRUE
    /\ inflight' = [inflight EXCEPT !.landed = TRUE]
    /\ UNCHANGED <<proc, config, recovering, stored, agents, pools,
                   networkState, operations, mailbox, environment>>

\* Mutant: the store is taken for done as soon as it is started.
StoreDoneEarly == inflight # None

StoreDone == inflight # None /\ inflight.landed

\* Mutant: the operations queued during a store are not stored after it.
NoNextWrite == None

NextWrite ==
    IF operations = <<>> THEN None
    ELSE Write(operations, inflight.state, Present(agents))

\* _store: networkState becomes what was stored, every operation's future is
\* set, which defers its continuation, and the operations queued meanwhile
\* are stored next.  The answer of a store reaches the process after the
\* continuations of the store before it.
Stored ==
    /\ proc = "running"
    /\ StoreDone
    /\ mailbox = <<>>
    /\ networkState' = inflight.state
    /\ mailbox' = inflight.ops
    /\ inflight' = NextWrite
    /\ operations' = <<>>
    /\ UNCHANGED <<proc, config, recovering, stored, agents, pools, durable,
                   environment>>

\* _store: the store failed, was discarded, took longer than
\* replicatedLogTimeout, or returned None.
StoreFailed ==
    /\ proc = "running"
    /\ inflight # None
    /\ mailbox = <<>>
    /\ faults < MaxFaults
    /\ faults' = faults + 1
    /\ Demote
    /\ UNCHANGED <<durable, told, known, deletes>>

-----------------------------------------------------------------------------
(* Continuations *)

\* _registerAgent, deferred until its operation was performed: the agent is
\* sent the overlays it has by now.  Operation::set signals success or
\* failure of perform alike by a ready future.
_registerAgent ==
    /\ proc = "running"
    /\ mailbox # <<>>
    /\ Head(mailbox).type \in {"add", "modify"}
    /\ agents[Head(mailbox).ip] # None
    /\ SendUpdate(agents, Head(mailbox).ip)
    /\ mailbox' = Tail(mailbox)
    /\ UNCHANGED <<proc, config, recovering, stored, agents, pools,
                   networkState, operations, inflight, durable, faults,
                   deletes>>

\* CHECK(agents.contains(agentIP)) of _registerAgent.
_registerAgentAborts ==
    /\ proc = "running"
    /\ mailbox # <<>>
    /\ Head(mailbox).type \in {"add", "modify"}
    /\ agents[Head(mailbox).ip] = None
    /\ Abort("no such agent")

\* What deleteAgents gives back for the agents in `ips`.  An agent's backend
\* is not looked at: only what its overlays record.
Deleted(ips) == {a \in ips : agents[a] # None}

FreedIPs(a) == VtepsOf(agents[a].overlays)

\* Mutants: VTEP IPv6 addresses are not collected, or the absent ones too.
FreedNoIP6s(a) == {}
FreedIP6sUnchecked(a) ==
    {agents[a].overlays[o].vtep6 : o \in Names(agents[a].overlays)}

FreedIP6s(a) == Vtep6sOf(agents[a].overlays)

SubnetsOf(as, o) ==
    {agents[a].overlays[o].subnet :
        a \in {b \in as : agents[b].overlays[o] # None}} \ {None}
Subnets6Of(as, o) ==
    {agents[a].overlays[o].subnet6 :
        a \in {b \in as : agents[b].overlays[o] # None}} \ {None}

Deallocate(as) ==
    /\ freeNetworks' = [o \in Overlays |-> freeNetworks[o] \cup SubnetsOf(as, o)]
    /\ freeNetworks6' = [o \in Overlays |-> freeNetworks6[o] \cup Subnets6Of(as, o)]
    /\ freeIP' = freeIP \cup UNION {FreedIPs(a) : a \in as}
    /\ freeIP6' = freeIP6 \cup UNION {FreedIP6s(a) : a \in as}

\* deallocateIP refuses an address that is free; free() of a subnet does not.
DeletionFails(ips) ==
    \E a \in Deleted(ips) :
        \/ FreedIPs(a) \cap freeIP # {}
        \/ FreedIP6s(a) \cap freeIP6 # {}
        \/ \E b \in Deleted(ips) \ {a} :
            \/ FreedIPs(a) \cap FreedIPs(b) # {}
            \/ FreedIP6s(a) \cap FreedIP6s(b) # {}

\* Mutant: the agents stay in the map.
WithoutNone(ips) == agents

\* agents.erase(ip).
Without(ips) == [a \in AgentIPs |-> IF a \in ips THEN None ELSE agents[a]]

\* _deleteAgentsEndpoint, deferred until the purge was performed on the State.
\* CHECK(!deletionOutcome.isError()) aborts when deleteAgents fails.
_deleteAgentsEndpoint ==
    /\ proc = "running"
    /\ mailbox # <<>>
    /\ Head(mailbox).type = "delete"
    /\ LET ips == Head(mailbox).ips
       IN  IF DeletionFails(ips) THEN Abort("deletion failed")
           ELSE /\ Deallocate(Deleted(ips))
                /\ agents' = Without(ips)
                /\ mailbox' = Tail(mailbox)
                /\ UNCHANGED <<proc, config, recovering, stored, networkState,
                               operations, inflight, durable, environment>>

-----------------------------------------------------------------------------
(* Purges and status reports *)

\* deleteAgentsEndpoint, which answers 503 until the State was recovered.
\* With GoneOnly the agents named are gone by now, and with them what they
\* were told.
DeleteAgents(ips) ==
    /\ proc = "running"
    /\ Recovered
    /\ deletes < MaxDeletes
    /\ deletes' = deletes + 1
    /\ Update([type |-> "delete", ips |-> ips], agents)
    /\ IF GoneOnly
       THEN /\ told' = [a \in AgentIPs |-> IF a \in ips THEN None ELSE told[a]]
            /\ known' = [a \in AgentIPs |-> IF a \in ips THEN {} ELSE known[a]]
       ELSE UNCHANGED <<told, known>>
    /\ UNCHANGED <<proc, config, recovering, stored, agents, pools, durable,
                   faults>>

\* agentRegistered: the agent reports the outcome `status` for each overlay
\* it was ever told of.  The statuses go to `agents` and from there, with all
\* else `agents` holds of the agent, to networkState.
AgentRegistered(a, status) ==
    /\ proc = "running"
    /\ ~Gone(a)
    /\ agents[a] # None
    /\ known[a] # {}
    /\ known[a] \subseteq Names(agents[a].overlays)
    /\ agents' = [agents EXCEPT ![a].overlays =
            [o \in Overlays |->
                IF o \in known[a] THEN [@[o] EXCEPT !.status = status[o]]
                                  ELSE @[o]]]
    /\ networkState' =
            IF networkState[a] = <<>> THEN networkState
            ELSE [networkState EXCEPT ![a] =
                    [@ EXCEPT ![1] = agents'[a].overlays]]
    /\ UNCHANGED <<proc, config, recovering, stored, pools, storage, durable,
                   environment>>

\* updateOverlayState of an overlay the master does not know of: at() throws.
AgentRegisteredAborts(a) ==
    /\ proc = "running"
    /\ ~Gone(a)
    /\ agents[a] # None
    /\ ~ (known[a] \subseteq Names(agents[a].overlays))
    /\ Abort("unknown overlay")

\* The agent process restarts, and forgets its overlays.
AgentRestart(a) ==
    /\ known[a] # {}
    /\ known' = [known EXCEPT ![a] = {}]
    /\ UNCHANGED <<proc, config, recovering, stored, agents, pools,
                   networkState, storage, durable, told, faults, deletes>>

-----------------------------------------------------------------------------

RegisterAgent(a) ==
    \/ StartRecovery(a)
    \/ \E alloc \in AllocChoices : RegisterNew(a, alloc) \/ RegisterKnown(a, alloc)
    \/ RegistrationDropped(a)
    \/ RegisterAborts(a)

Recovery == RecoverNothing \/ Recover \/ RecoveryFailed \/ FetchFailed

Continuation ==
    \/ _registerAgent
    \/ _registerAgentAborts
    \/ _deleteAgentsEndpoint

Next ==
    \/ \E a \in AgentIPs :
        \/ RegisterAgent(a)
        \/ \E status \in [Overlays -> Statuses] : AgentRegistered(a, status)
        \/ AgentRegisteredAborts(a)
        \/ AgentRestart(a)
    \/ \E ips \in SUBSET AgentIPs \ {{}} : DeleteAgents(ips)
    \/ Recovery
    \/ Continuation
    \/ StoreLands
    \/ Stored
    \/ StoreFailed
    \/ Respawn
    \/ Reboot

Spec == Init /\ [][Next]_vars

-----------------------------------------------------------------------------
(* Properties *)

\* Every variable has the values its declaration in ManagerProcess allows.
TypeOK ==
    /\ proc \in {"running", "terminated"} \cup AbortReasons
    /\ config \in Configs
    /\ recovering \in BOOLEAN
    /\ stored \in BOOLEAN
    /\ agents \in [AgentIPs -> Agent \cup {None}]
    /\ freeIP \subseteq VtepIPs
    /\ freeIP6 \subseteq VtepIP6s
    /\ freeNetworks \in [Overlays -> SUBSET Nat]
    /\ freeNetworks6 \in [Overlays -> SUBSET Nat]
    /\ networkState \in NetworkState
    /\ operations \in Seq(Operation)
    /\ mailbox \in Seq(Operation)
    /\ inflight \in Store \cup {None}
    /\ log \in NetworkState
    /\ logged \in BOOLEAN
    /\ told \in [AgentIPs -> AgentInfo \cup {None}]
    /\ known \in [AgentIPs -> SUBSET Overlays]
    /\ faults \in 0..MaxFaults
    /\ deletes \in 0..MaxDeletes

\* What the manager has given to each agent, by the agents map `as`: its subnet
\* and IPv6 subnet of overlay o, and the VTEP addresses of its overlays and of
\* its backend.
HeldSubnets(as, o) ==
    [a \in AgentIPs |->
        IF as[a] = None \/ as[a].overlays[o] = None THEN {}
        ELSE {as[a].overlays[o].subnet} \ {None}]
HeldSubnets6(as, o) ==
    [a \in AgentIPs |->
        IF as[a] = None \/ as[a].overlays[o] = None THEN {}
        ELSE {as[a].overlays[o].subnet6} \ {None}]
BackendVteps(agent) ==
    IF agent.backend = None THEN {} ELSE {agent.backend.vtep}
BackendVtep6s(agent) ==
    IF agent.backend = None THEN {} ELSE {agent.backend.vtep6} \ {None}
HeldVteps(as) ==
    [a \in AgentIPs |->
        IF as[a] = None THEN {}
        ELSE VtepsOf(as[a].overlays) \cup BackendVteps(as[a])]
HeldVtep6s(as) ==
    [a \in AgentIPs |->
        IF as[a] = None THEN {}
        ELSE Vtep6sOf(as[a].overlays) \cup BackendVtep6s(as[a])]

\* Nothing that an agent holds is free, or with another agent.
Separate(held, free) ==
    \A a \in AgentIPs :
        /\ held[a] \cap free = {}
        /\ \A b \in AgentIPs \ {a} : held[a] \cap held[b] = {}

\* No subnet, VTEP IP or VTEP IPv6 that the manager has given to an agent is
\* with another agent, or free to be given to one: allocate, allocate6,
\* allocateIP, allocateIP6, free, deallocateIP and reserve agree at every step.
MemoryExclusive ==
    /\ \A o \in Overlays :
        /\ Separate(HeldSubnets(agents, o), freeNetworks[o])
        /\ Separate(HeldSubnets6(agents, o), freeNetworks6[o])
    /\ Separate(HeldVteps(agents), freeIP)
    /\ Separate(HeldVtep6s(agents), freeIP6)

\* All of `pool` is free or with an agent.
Conserved(pool, held, free) ==
    pool \subseteq free \cup UNION {held[a] : a \in AgentIPs}

\* Every subnet and VTEP address is free or with an agent: none is lost when
\* an allocation fails halfway or an agent is purged.
NothingLeaks ==
    /\ \A o \in Overlays :
        /\ Conserved(InitialPool(o), HeldSubnets(agents, o), freeNetworks[o])
        /\ Conserved(InitialPool6(o), HeldSubnets6(agents, o), freeNetworks6[o])
    /\ Conserved(VtepIPs, HeldVteps(agents), freeIP)
    /\ Conserved(InitialFreeIP6(config), HeldVtep6s(agents), freeIP6)

\* "The information stored in the replicated log should not have any errors":
\* _recover can reserve all that the log records.
LogRecoverable == FetchPending => Reservable(log)

\* Whatever the log records for an agent, the recovered master has reserved:
\* it is in no free pool, however many operations, stores and purges are
\* under way, so no other agent can be given it.
LogReserved ==
    proc = "running" /\ stored =>
        \A a \in AgentIPs : \A i \in DOMAIN log[a] :
            /\ \A o \in Names(log[a][i]) :
                /\ log[a][i][o].subnet \notin freeNetworks[o]
                /\ log[a][i][o].subnet6 \notin freeNetworks6[o]
            /\ VtepsOf(log[a][i]) \cap freeIP = {}
            /\ Vtep6sOf(log[a][i]) \cap freeIP6 = {}

\* No CHECK of the handlers fails and no exception escapes them: a master
\* that is sent registrations, reports and purges does not abort.
NeverAborts == proc \notin AbortReasons

\* "Update the `networkState in the replicated log before sending the overlay
\* configuration to the Agent": all that registerAgent sends, the log holds.
DurableBeforeTold ==
    [][\A a \in AgentIPs :
         told'[a] # told[a] /\ told'[a] # None =>
            log'[a] # <<>> /\ told'[a] = ClearStatus(log'[a][1])]_vars

\* No two agents work with the same subnet or VTEP address, whatever became
\* of the master since it sent them.
ToldExclusive ==
    \A a, b \in {c \in AgentIPs : told[c] # None} :
        a # b => Disjoint(told[a], told[b])

-----------------------------------------------------------------------------
(* The log implements a registry of grants *)

Resources ==
    ({"subnet", "subnet6"} \X Overlays \X Nat) \cup ({"vtep", "vtep6"} \X Nat)

ResourcesOf(info) ==
    {<<"subnet", o, info[o].subnet>> : o \in {p \in Names(info) : info[p].subnet # None}}
    \cup {<<"subnet6", o, info[o].subnet6>> :
                o \in {p \in Names(info) : info[p].subnet6 # None}}
    \cup {<<"vtep", n>> : n \in VtepsOf(info)}
    \cup {<<"vtep6", n>> : n \in Vtep6sOf(info)}

Registry == INSTANCE SubnetRegistry WITH
    Agents <- AgentIPs,
    granted <- [a \in AgentIPs |->
                    UNION {ResourcesOf(log[a][i]) : i \in DOMAIN log[a]}]

\* What agents hold according to the replicated log only ever grows by what
\* nobody holds, or is purged altogether.
RegistrySpec == Registry!Spec

-----------------------------------------------------------------------------
(* Liveness *)

\* Agents register until they are answered (doReliableRegistration), the actor
\* runs what is in its mailbox, the log answers, and the supervisor restarts a
\* terminated process.
Fairness ==
    /\ \A a \in AgentIPs : WF_vars(RegisterAgent(a))
    /\ WF_vars(RecoverNothing \/ Recover \/ RecoveryFailed)
    /\ WF_vars(StoreLands)
    /\ WF_vars(Stored)
    /\ WF_vars(Continuation)
    /\ WF_vars(Respawn)

FairSpec == Spec /\ Fairness

\* Agent a has a configuration, and it is the one that the master and its log
\* hold for it.
Settled(a) ==
    /\ agents[a] # None
    /\ told[a] = Configuration(agents, a)
    /\ log[a] # <<>>
    /\ told[a] = ClearStatus(log[a][1])

=============================================================================
