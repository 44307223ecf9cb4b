# TLA+ models of dcos-mesos-modules

The repository holds modules that Mesos loads into its master and agents. The
one with a protocol of its own is the *overlay* module pair: a manager in
mesos-master that gives every agent a subnet of each overlay network and a VTEP
address and records what it gave in a replicated log, and a manager in
mesos-agent that registers with it and configures the networks it is given.
Around it are an isolator that registers containers with the DC/OS metrics
service, and a container logger whose companion processes carry what a
container writes to journald, files and Fluent Bit. This project models all of
these, checks them with TLC on small instances, and proves all of their safety
properties with TLAPS for every instance, or for those that named hypotheses
describe.

## Inventory

| Component | Source | State it keeps | Operations | What is hard |
|---|---|---|---|---|
| Overlay master | `overlay/master.cpp` | `agents`, the free subnets and VTEP addresses, `networkState`, the operations queued behind a store, `recovering`/`storedState` | `registerAgent`, `_registerAgent`, `agentRegistered`, `deleteAgentsEndpoint`, `_deleteAgentsEndpoint`, `recover`, `_recover`, `update`, `store`, `_store`, `demote` | the memory, the copy in `networkState`, the State being stored and the log are four versions of one thing, and every handler may run between two steps of another's |
| Overlay agent | `overlay/agent.cpp` | `state`, `overlayMaster`, `overlays`, `configAttempts` | `detected`, `exited`, `doReliableRegistration`, `updateAgentOverlays`, `_updateAgentOverlays`, `agentRegisteredAcknowledgement`, `configure` and its steps | several overlays are configured at once, retries cross late answers, masters change under way |
| Process supervisor | `overlay/supervisor.hpp` | the child process, promises of its address | `initialize`, `exited`, `child` | restart of a demoted master |
| Subnet arithmetic and pools | `overlay/network.hpp`, `Vtep` and `Overlay` of `overlay/master.cpp` | interval sets of what is free | `++`, `--`, comparison, parsing; `allocate`, `free`, `reserve` | carries from byte to byte, prefixes that end within a byte, intervals that must fit together after any history |
| Metrics isolator | `metrics/isolator.cpp` | `debugContainers` | `prepare`, `cleanup`, `send` | timeouts that do not withdraw a request, answers that come late, restarts |
| Container logger | `journald/lib_journald.cpp` | none between calls | `prepare` | undoing half of a start, a death in the middle, companions that outlive mesos-agent |
| Logger companion | `journald/journald.cpp` | the buffer, `bytesWritten`, `leading`, `fluentbit_socket` | `run`, `loop`, `write_*`, `rotate` | writes that fail halfway, one sink that fails before another, a count that parts from the file's size |
| Command runner | `common/shell.hpp` | a subprocess | `runCommand` | a timeout against the reaper and the pipes |
| Log sink, docker config remover, gauges, scripts | `logsink/`, `dockercfg/`, `overlay/*_metrics.*`, `support/` | none that matters | | pure I/O |

How they interact. The overlay agent sends `RegisterAgentMessage` to the overlay
master of the leading Mesos master until it is acknowledged. The master, once it
has fetched its State from the log, allocates what the agent lacks, queues an
`AddAgent` or `ModifyAgent` operation on the State and, when that has been
stored, sends `UpdateAgentOverlaysMessage`. The agent configures its networks
with CNI files and `docker`, `iptables` and `ipset` commands, reports with
`AgentRegisteredMessage`, and is acknowledged. An operator may purge agents
with an HTTP request, which queues a `DeleteAgents` operation. A master whose
log fails demotes itself, and the supervisor starts another.

The isolator and the container logger are called by the containerizer of
mesos-agent. The isolator sends a POST before a container is launched and a
DELETE after it has ended. The logger makes a pipe and a companion for each of
stdout and stderr; the companion reads its pipe until that is closed.

What makes each correct. *Master*: no subnet or address is given to two agents,
whatever was crashed, failed or purged; what an agent was told survives in the
log; what the log holds can be recovered; nothing leaks; no CHECK fails; an
agent that keeps registering is answered. *Master and hosts*: two hosts never
have the same network, and a host ends up with the one the log records.
*Agent*: it keeps registering until it is registered; a status is true; an
update is reported once all it started is configured; a network in use is left
alone; it does register in the end. *Isolator*: who reports metrics is
registered, who is gone is not, and nobody is held up. *Logger*: no descriptor
and no companion stays behind, both streams are read under the right labels.
*Companion*: a sink loses by the failure of another the buffer at hand at most, a
file stays within its bound, the container is never blocked.

## Modules

| Module | What it is |
|---|---|
| `OverlayMaster` | the master's `ManagerProcess`, its log, and as much of agents and operators as sends it messages |
| `SubnetRegistry` | the abstract specification of the log: grants grow by what nobody holds, or are purged |
| `OverlayNetwork` | `OverlayMaster` composed with the hosts of the agents and their Docker networks |
| `OverlayAgent` | the agent's `ManagerProcess`, the commands it runs, and as much of masters and the network as it meets |
| `SubnetPool` | one pool of the master, IPv4 or IPv6, over the increments of `network.hpp` |
| `MetricsIsolator` | the isolator, its requests, the metrics service and the containerizer |
| `ContainerLogger` | `prepare` of the container logger, call by call, and what becomes of its companions |
| `LogWriter` | one companion, its pipe and its sinks |
| `OverlayMaster_proofs`, `OverlayAgent_proofs`, `SubnetPool_proofs`, `MetricsIsolator_proofs`, `ContainerLogger_proofs`, `LogWriter_proofs` | theorems about the modules they are named for |
| `OverlayLog_proofs` | theorems about the replicated log of `OverlayMaster`, on top of `OverlayMaster_proofs` |
| `OverlayNetwork_proofs` | theorems about what agents are told and what their hosts have, on top of `OverlayLog_proofs` |
| `MCOverlayMaster`, `MCOverlayNetwork`, `MCOverlayAgent`, `MCSubnetPool`, `MCMetricsIsolator`, `MCContainerLogger`, `MCLogWriter` | values of the constants for TLC |

### OverlayMaster

A libprocess actor runs one handler at a time, so one handler is one action.
`agents`, `networkState`, `operations` and the free pools (`freeIP`, `freeIP6`,
`freeNetworks`, `freeNetworks6`) are the members of the same names; `stored` is
`storedState.isSome()`, `inflight` the store that `storing` stands for,
together with the State it writes, and `mailbox` the continuations that the
promises of finished operations have deferred to the actor. `log` is the
variable in the replicated log. `told` and `known` are what agents were sent
and report about.

`RegisterAgent(a)` is `registerAgent`, one disjunct per early return:
`StartRecovery`, `RegisterNew`, `RegisterKnown`, `RegistrationDropped`,
`RegisterAborts`. A `store` is three steps: it starts in `Update` (with the
State computed there and then, as `Operation::perform` on a copy of
`networkState`), `StoreLands` in the log, and `Stored` or `StoreFailed` when
the actor learns of it. Between them every other handler may run, the process
may be demoted and respawned (`Respawn`) or mesos-master restarted (`Reboot`).
A restarted process forgets the store in flight; whether that landed is a
choice made by whether `StoreLands` came first. `UseLog` is whether the
configuration names a replicated log: without one there is no recovery, and an
operation is performed at once but continued later.

Data. A subnet or an address is its index, and allocation takes the lowest free
one, as `IntervalSet` does. Bridges and the MAC of the VTEP follow from them and
are left out; `allocateBridges` fails only when it cannot parse a subnet the master
has just printed. That a pool may be taken for a set of numbers is what
`SubnetPool` is for. `config.network6` never goes from true to false across
restarts, and `config.log` does not change. `mailbox` is served before the
answer of the next store: that answer is dispatched after the promises of the
last are set.

`GoneOnly` is an assumption on operators, not on the code: the agents named in
a purge have stopped (the help of the endpoint, `master.cpp:102`, says "Purge
overlay state records of Agents that are gone"). With it FALSE, agents that live
are purged too.

### OverlayNetwork

It adds two variables to `OverlayMaster`: `docker`, the Docker network of each
overlay on each host, and `configured`, the overlays that are STATUS_OK in the
agent's memory. A Docker network outlives both processes, and `docker network
create` runs only when `docker network inspect` finds none of that name,
whatever subnet it has (`NetworkAfter`). Every other step is the master's
(`MasterStep`); the agent's way from an update to that command is abstracted to
one step, `Configure`, that happens later or never. A purge of a gone agent
removes its host (`Purge`). The whole of `OverlayAgent` under the whole of
`OverlayMaster` is out of TLC's reach.

### OverlayAgent

`state`, `overlayMaster`, `overlays` (the status of each), `configAttempts` and
`connected` are the members. `retries` counts the delayed calls of
`doReliableRegistration`; `work` is how far `configure` has come for each
overlay, and `awaiting` the updates whose futures `await` collects. `linked`,
`leader`, `news`, `toMaster` and `toAgent` are what libprocess, the detector
and the network hold.

`Detected`, `Exited`, `UpdateAgentOverlays`, `_updateAgentOverlays`,
`AgentRegisteredAcknowledgement`, `RetryRegistration` are the handlers;
`CheckDockerNetwork`, `CreateDockerNetwork`, `BypassIsolation`, `_configure`
and `Masquerade` the steps of `configure`, which take the outcome of one command
each. `networks` are the Docker networks that exist on the host; they survive a
restart of mesos-agent, and a `docker network create` that is killed at its
timeout may have made one. A failed CHECK is a value of `proc`
(`_updateAgentOverlaysAborts`) from which `AgentRestart` starts again.

Data. All the masters of a cluster would send the same overlays, unless one was
started with another configuration: `UpdateOf` lets them differ. An overlay has
subnets of IPv4, IPv6, both or neither (`SubnetsOf`), and `networkConfig` has
`enable_ipv6`: a Mesos network is made of an IPv4 subnet, a Docker network of
what is there and enabled, and where there is nothing `configureDockerNetwork`
succeeds without one. An update need not have the bridges that the agent is
configured for (`BridgesOf`): a master keeps those the agent asked for when it
first registered. Such a bridge is missed, and its configuration fails each
time (`WithoutMesosBridge`, `CreateDockerNetwork`). Neither changes in a run. The
order in which libprocess runs the callbacks of one future is taken as given:
`Ends` sets the status of an overlay and completes its future in one step.
`toMaster` keeps one copy of a message that has not
been handled, since a second is answered as the first. A broken link loses what
that master had sent.

### SubnetPool

A subnet is the number that its prefix spells, an address likewise, and the
leading bytes that the whole network shares are left out. `NextSubnet6` and
`Increment` are the two cases of `Network::operator++` for IPv6 (`Increment` is
also `IP::operator++`), which is no addition: a byte that has reached 0xff stays
there, and only three of the odd bits of a prefix are counted. `free` is
`freeNetworks`, `freeNetworks6`, `freeIP` or `freeIP6`, by `plan`. stout's
`IntervalSet` is external: an interval runs from x up to but excluding `++x`,
and bounds that are closed are opened with `++`. `AllocateSubnet`, `FreeSubnet`,
`AllocateIP` and `DeallocateIP` are the methods of `Overlay` and `Vtep`;
`Recover` is what `_recover` does to the pool of a new process with
`reserve()`. `earlier` are agents that were there before and stay: they bring a
run to a carry or to the end of a network of a thousand subnets at once.
`DockerBridge` is the increment `allocateBridges` makes with one bit more.

### MetricsIsolator

`container` is how far the containerizer has come with each container, and
`waiting` the request whose future `prepare` or `cleanup` waits on. `send` is a
chain of futures under a timeout that fails the outer one and leaves the chain
alone, so a request goes through `connecting`, `wire` and `answers` in steps of
its own while `TimesOut` may come at any of them. A request whose connection
breaks fails, though the service may still handle it (`stray`); so may one of a
mesos-agent that is no more. `environment` are the containers that were given
an address to report to. The service, `service`, is external: it registers a
value on a POST, removes it on a DELETE, and answers as it likes. `unsettled`
is an auxiliary set: the containers with a request that failed or came late.

Values of containers are distinct (`ValuesAssumption`): the isolator sends the
last part of a nested ID only, so two nested containers whose launchers chose the
same value would be one to the service.

### ContainerLogger

`phase` is the system call that `prepare` is at, so that any of them may fail
and mesos-agent may die between any two (`AgentDies`). `held` are the
descriptors that mesos-agent has open, `writers` the write ends that containers
have, `companion` the processes, `labels` what each was started with. Two facts
of `subprocess()` are external: a read end passed to it as owned is closed
whether it succeeds or fails, and it never returns a child that has not been
made. `AgentId` is the search for the agent ID in the sandbox path.

Of the labels only `AGENT_ID` and `STREAM` are kept; the checks of
configuration that precede the first system call are one outcome. The
descriptors are closed on exec, so a companion has none but its own.

### LogWriter

`step` is what `loop` is at: reading, or writing to one of its sinks in turn.
`taken` is how far it has read, `next..taken` the buffer, `size` the length of
the leading file and `bytesWritten` what the companion has counted of it. A
write may fail halfway: some of the buffer reaches the sink, the rest does not.
`rotate` runs logrotate, which may fail, or decline because the file is below
the threshold that it was configured with. `got` is what each sink was given in
full, and `received` what Fluent Bit has received over the connection at hand.
A failing logrotate may be followed by a failing open or write in the same step.
A failed open ends the companion there and then (`OpenFails`), before
`write_fluentbit`. `PeerCloses` and the failures are bounded by `MaxFaults`, after
which no call fails.

A line is a number and the unit of all sizes. The code's buffer may end inside
a line, which is then cut, and the labels and the text of records are left out.

## Runs

| Run | Question | Instance |
|---|---|---|
| `master_durable` | with purges of gone agents only: is all that agents were told recorded, recoverable, exclusive, without leaks, aborts or starvation, and do the hosts' networks follow? | 2 agents and hosts, 1 dual-stack overlay, 2 faults, 2 purges |
| `master_upgrade` | the log while the operator enables overlays and the IPv6 VTEP network; does it implement `SubnetRegistry`? | 2 agents, 2 overlays (one IPv4 only), one IPv6 subnet for two, 4 configurations, 1 fault, 1 purge |
| `master_nolog` | exclusion in memory with purges of agents that live and agents that want no subnet, with a replicated log and without | 2 agents, 1 fault, 1 purge |
| `agent_registration` | safety of the agent, whatever bridges and subnets it is given | 2 masters, 2 overlays, one of IPv6 alone; one bridge or both, IPv6 enabled or not, updates without a bridge; 2 faults of any kind |
| `agent_live` | is the agent registered in the end, and does it know the leader then? | no bridge, one, or both with IPv6; one overlay of IPv6 alone; all bridges in the updates; 1 fault of any kind |
| `subnet_pool` | is a pool a set of numbers: exclusive, within its network, without loss, recoverable? | 4 agents; 15 pools: IPv4, IPv6 with 0, 3 and 7 odd bits, addresses; full, before a carry, before the end |
| `metrics_isolator` | does the service know who reports and forget who is gone, whatever it answers and when? | one container and one of class DEBUG, 2 faults |
| `log_writer` | sizes, losses and gaps of each sink, and is the container always drained? | 5 destinations, a buffer of 2, a file of 3, new or with 2 lines in it, 7 lines of input, 2 failures |
| `container_logger` | descriptors, companions and labels after every failure | a nested container of an executor, a standalone one and one of class DEBUG, 2 faults |
| `master_purge_race`, `network_moves`, `agent_reconfigure` | violations, see Findings | |

Bounds. Two agents suffice for exclusion, and for one operation that waits
behind the store of another; two purges for one queued behind another and for
one that meets a re-registration. A *fault* of the master is a failed or late
store or fetch, or a restart; two allow a store that lands after its master was
demoted, followed by a second restart during the recovery. A fault of the agent
is a lost message, a broken link, a change of the leader, a failed command or a
restart; two allow any of them to happen while another is being got over.
`MaxRetries` 2 is one chain of registrations more than a detection needs,
`MaxUpdates` 2 lets a second update be awaited behind a first. They are guards:
`Detected` and `Exited` wait for a chain to end when two are there.
`MaxConfigAttempts` 1 has an attempt that is dropped and one that is not. In
`agent_live` no overlay is without a bridge, so none fails for ever (see
Findings). The queues from the masters hold one message each, so the rest waits in `toMaster`.

The pools of `subnet_pool` have one or two bytes that vary; a third would only
carry as the second does. Four agents are enough to take what lies on both
sides of a carry, and to exhaust what `earlier` has left.

In `metrics_isolator` a fault is a broken connection or a restart; the requests
of two containers with values of their own do not meet, so one of each class is
enough, which is also what the proof shows. In `log_writer` seven lines are two
rotations of a file of three with a buffer that straddles one of them, and two
failures let one sink fail before and after another, or logrotate after a
write. In `container_logger` two faults are a failure and a death of
mesos-agent during its clean-up, and the sandbox paths put "slaves" where the
search must not stop.

Deadlock is not checked where a system that is at rest is a proper end: a
registered agent with nothing in flight, a container that is gone, a companion
whose pipe is closed.

Fairness. The actors run what is in their mailboxes, delayed calls fire,
subprocesses end (each has a timeout but `docker network inspect`, which is
*assumed* to end), messages that are not lost arrive, a store that is not
failed is answered, the supervisor respawns a terminated process, and
mesos-agent is restarted by its service manager after a failed CHECK. A host's
`Configure` is strongly fair: an agent is sent its overlays again after every
restart, and between two of them gets to configure. The isolator's timeouts
fire and the containerizer calls `cleanup`; of the service nothing is assumed,
not even that it accepts connections. The calls of a companion's `loop` return,
and a companion reads to the end of its pipe. Faults, restarts and purges have
no fairness and are bounded, so the liveness properties say what happens once
they have ended.

## Properties

*Master.* `LogRecoverable`: every record of the log can be reserved by a
recovery that is about to happen. `LogReserved`: whatever the log records is in
no free pool of the recovered master, however many operations are under way.
`ToldExclusive`: no two agents work with the same subnet or address.
`DurableBeforeTold`: an agent is sent only what the log holds. `NothingLeaks`:
each subnet and address is free or with an agent. `MemoryExclusive`: what is
held is neither free nor with another agent. `NeverAborts`: no CHECK fails and no
exception escapes. `RegistrySpec`: the refinement of `SubnetRegistry`.

*Master and hosts.* `HostsExclusive`: no two hosts have a Docker network with
one subnet. `NeverMoves`: no update names another subnet than the network of
that host has, which the agent would ignore. `EventuallyConnected`: once faults
and purges have ended, every host has the networks that the log records for it.

*Agent.* `RegistrationRetried`: as long as the agent registers and knows a
master, a retry is scheduled. `RegisteredConfigured`: it is registered only
when its overlays are configured or attempts have run out. `ConfiguredForReal`:
an overlay that is STATUS_OK has its Docker network, if it has a subnet that
docker may be given: one of IPv6 alone has none to give while `enable_ipv6` is
off. `AwaitedUnderWay`: an
update awaits only what is being configured, and no overlay is awaited twice.
`ConfiguredStays`: an overlay in use is not configured again.
`EventuallyRegistered`: once failures have ended and the leader stays, the agent
is REGISTERED for good and the master it knows is that leader. The property does
not say that this master has heard of it: an acknowledgement of the master
before may be what registered it (see Findings).

*Pool.* `Exclusive`, `WithinNetwork`; `NothingLost`: the pool is at all times
what the intervals of the holders leave of a full one; `BridgesHalve`: the two
bridges of an agent are the halves of its subnet; `Recoverable`: all that is
held can be reserved anew in any order.

*Isolator.* `ReportingRegistered`: a container that was told where to report is
registered until its cleanup. `NothingLeftBehind`: one that was cleaned up is
not, unless one of its requests failed or came late. `AlwaysAnswered`: the
service can hold up neither `prepare` nor `cleanup`.

*Logger.* `NothingHeld`: a descriptor that is open belongs to the call at hand
or to a container not yet launched. `NoneStaysBehind`: no companion outlives
its container. `BothRead`: both streams of a running container are read under
their own names. `AgentIdentified`: the agent ID is found in any sandbox path.

*Companion.* `SizeBounded`: as long as logrotate works the leading file exceeds
its maximum by no more than `Overhang`. `Delivered`: between two buffers, and when
the companion has ended, a sink has all that was read unless one of the calls in
`CostLines` failed, which are its own and, for Fluent Bit, the open of the log
file that comes before it; and a sink none of whose writes failed misses no more
than the last buffer, however the companion ended. `NoGaps`: what one connection receives has no
line missing in between. `AlwaysDrained`: no failure of a sink blocks the
container, except a failed `socket()`, after which the companion has ended.

Each one is broken by some mutant of a definition of the model: a variant of that
definition which stands before it under a comment "Mutant: ...", and which a
plausible bug in the code would make of it.

## Proofs

Proved for every value of the constants that meets the named assumptions, for
any number of agents or containers and any bound on faults:

| Module | Theorem | States |
|---|---|---|
| `OverlayMaster_proofs` | `TypeCorrect`, `Exclusive` | `TypeOK`, `MemoryExclusive` |
| `OverlayLog_proofs` | `Recoverable`, `Reserved`, `Implements`, each assuming `GoneOnly` | `LogRecoverable`, `LogReserved`, `RegistrySpec` |
| `OverlayNetwork_proofs` | `NoAbort`, `NoLeak`, `DurableFirst`, `ToldApart`, `HostsApart`, `NetworksStay`, each assuming `GoneOnly`, `Steady` and `Enough` | `NeverAborts`, `NothingLeaks`, `DurableBeforeTold`, `ToldExclusive`, `HostsExclusive`, `NeverMoves` |
| `SubnetPool_proofs` | `TypeCorrect`, `Apart`, `Inside`, `Complete`, `Halves`, `Reservable`, each for plans that are `Sound` and `Early` | `TypeOK`, `Exclusive`, `WithinNetwork`, `NothingLost`, `BridgesHalve`, `Recoverable` |
| `OverlayAgent_proofs` | `TypeCorrect`, `Retried`, `Configured`, `Real`, `Awaited`, `InUse` | `TypeOK`, `RegistrationRetried`, `RegisteredConfigured`, `ConfiguredForReal`, `AwaitedUnderWay`, `ConfiguredStays` |
| `MetricsIsolator_proofs` | `TypeCorrect`, `Registered`, `Removed` | `TypeOK`, `ReportingRegistered`, `NothingLeftBehind` |
| `ContainerLogger_proofs` | `TypeCorrect`, `Closed`, `Read`; `Identified`, assuming `SandboxPath` | `TypeOK`, `NothingHeld`, `BothRead`; `AgentIdentified` |
| `LogWriter_proofs` | `TypeCorrect`, `Bounded`, `AllDelivered`, `Gapless` | `TypeOK`, `SizeBounded`, `Delivered`, `NoGaps` |

*Master.* The inductive invariant is `IInv == TypeOK /\ MemoryExclusive`;
`TypeOK` is needed to know that a free pool has a lowest member and that what an
agent holds is a set of numbers. The argument does not follow the records: every
action moves sets of resources between the free pool and one agent (`Moved`),
or gives many back at once, and for each of the four kinds of resource a lemma
says that such a move keeps `Separate`. A recovery starts from full pools and no
agents, and `Reservable(log)` is what makes the records disjoint; that guard is
the chain of `reserve()` calls in `_recover`, each of which fails for what is
not free. It holds with purges of agents that live.

*Log.* The log, the State being stored, `networkState` and the queued operations
are four versions of what agents hold. None of the three properties of the log is
inductive: what a store is going to write must be known before it lands. The
invariant is `LogInv`. `Covered` says that each of the four records no more than
the agents map, so that `MemoryExclusive` keeps agents apart in all of them.
Since a purge empties the State before it removes its agents from the map,
`PurgesInv` says that nothing is written for an agent behind its purge; this is
where `GoneOnly` is needed, and it is what `master_purge_race` shows to fail
without it. `Addable` and `Single` give each agent one record (`AddAgent` appends
without looking for another), `GrowsInv` says that a later version names all that
an earlier one names, which makes each write of the log a `Write` of
`SubnetRegistry`, and `Fresh` is what `_recover` starts from. The effect of a
whole queue of operations (`PerformAll`) is followed along the States it
goes through (`PerformRun`). Besides `GoneOnly` the assumptions are those of
`OverlayMaster`, among them that `None` is no value of what may be in its place
(`NoneAssumption`, `AbsentAssumption`).

*Network.* What agents are told, and what their hosts make of it, is safe under
three hypotheses (`OverlayNetwork_proofs`). `GoneOnly` is the one above. `Steady`:
the configuration enables some overlay, keeps a replicated log, and is the same
after a restart; the agent relies on that as well ("Here, we assume that the
overlay configuration never changes", `agent.cpp:332`). `Enough`: every pool of
subnets, and `vtep_subnet6`, has something for every agent; `vtep_subnet` need
not, for an agent that finds it exhausted is given nothing at all. Under Findings
are the ways in which the properties fail without them. The instance of
`master_durable` meets all three, and the invariant holds there.

Under these hypotheses an agent is given all its overlays when it registers first,
and no `ModifyAgent` is ever queued; that is `WholeInv`. `OrderInv` says that
continuations run in the order of their operations and that the purge of an
agent comes after all that is written for it, without which a late
`_registerAgent` would find its agent gone (`NeverAborts`) or send what has been
purged. `DurableInv` says that an agent whose continuation is to run is in the
log and stays there until it is purged, and `ToldInv` that an agent works with
what the log records for it, so that `LogInv` keeps agents apart in what they
were told. `NothingLeaks` belongs to the invariant: with it, and since nobody
holds two things of a pool, a pool that is large enough has something free for
an agent that holds nothing (`SomeFree`, by counting), so that a registration
never stops halfway. `HostsInv` carries this to the hosts: a Docker network is
always of the subnet its agent was told, also when the agent, or the master that
told it, is no more. The proof goes part by part of the invariant and action by
action (the lemmas named `...Facts`).

*Pool.* `Sound` describes the plans whose increments stay within the network:
IPv4, IPv6 with a prefix of whole bytes or of three odd bits, and more odd bits
as long as three bits vary. `FourOddBits` is not one of them (see Findings).
`Early` bounds the agents of the initial state to those that came before the first
carry, which is where `FirstTaken` is what they were given. Whole bytes that all
subnets share are left out and two vary at most (`PlanAssumption`), so the
powers that occur are finitely many (`Powers`).

The invariant `GridInv` says that all that is held lies on one grid: a set of
numbers that `++` goes through in order, whose intervals lie in the pool and end
where the next begins (`Successive`). On a grid intervals do not meet
(`IntervalsApart`), and the lowest number that some of them leave free is on the
grid again (`LowestOnGrid`): it lies in the interval of the greatest element of
the grid up to it, which cannot be taken. Nothing else is needed for
allocating, giving back and recovering to keep `NothingLost` and `Exclusive`, and
for `Recoverable`. That there is a grid is arithmetic: either `++` adds one
throughout (`Plain`), or it adds one up to the first carry and then the size of
a byte, or of three bits (`Ladder`); `WholeBytes`, `ThreeOddBits`, `FewBits` and
`Version4` say which plan does which. `Halves` needs no more of `++` than that it
sets the last bit of an even number (`NextOfEven`).

*Agent.* The properties of its safety run are together nearly inductive. What
they lack is how far a configuration is: with a Docker bridge it ends in
STATUS_OK only after the `iptables` and `ipset` commands, and by then the
network exists, if docker could be given a subnet (`PhaseInv`), which no later command removes. A step of a
configuration is about one overlay; lemma `ContinuesIInv` says once and for all
that such a step, to a further phase or to an end, keeps the invariant. An
update is about many: it starts only overlays that are not configuring, so none
of them is awaited already. The assumptions are that there are finitely many
overlays, that an update names each at most once, and that `None` is no value of
anything (`UpdateAssumption`, `AgentNoneAssumption`).

*Isolator.* `ReportingRegistered` alone is not inductive: an answer that is on
its way must still be true when it is taken. The invariant follows each request:
a POST is in one place at a time (`PostOnce`), somebody waits for it or its
container counts as unsettled (`PostSettled`), a DELETE belongs to a container
that was given up (`DeleteFromCleanup`), and an answer agrees with the service
(`AnswersTrue`). Every action is about one container; lemma `Untouched` disposes
of the others, by `ValuesAssumption`.

*Logger.* The invariant gives the descriptors open in each phase of `prepare`
(`Descriptors`), and says that whoever is yet to write to a pipe has its write
end (`HasWriters`), so that the companion at the other end has not met its end
(`Reads`). A second one, `Labelled`, says that a companion keeps the labels that
it was started with. `AgentIdOfPath` is about the search for the agent ID:
`SandboxPath` says what Mesos makes of a path, keys and IDs by turns, and that
the work directory has no part called "slaves" where the search looks; no ID
can then mislead it, since it steps from key to key.

*Companion.* The invariant gives what each sink has at each step of the loop and
at each end of the companion (`GotInv`), how far the size of the file can be from the count (`SizeInv`: a
write that failed is counted in full, and what a companion finds is not counted
at all), and that what a connection has received ends at the line before the
next (`ReceivedInv`).

Only model-checked: liveness (`EventuallyConnected`, `EventuallyRegistered`,
`AlwaysAnswered`, `AlwaysDrained`, `NoneStaysBehind`), which is out of the
prover's reach. Every safety property that a run checks is stated by a theorem.
What the theorems leave open are the instances outside of their hypotheses: a
master whose configuration changes between restarts (`master_upgrade` checks what
holds of its log then), one without a replicated log (`master_nolog`), pools that
run out, purges of agents that live, and prefixes that are not sound.

## Findings

With a run:

* `master_purge_race`: a purge empties the State first and `agents` later; a
  registration in between writes records that a later recovery cannot reserve,
  and the master demotes for good.
* `network_moves`: an agent that registers again while its new overlay is being
  stored is sent it at once, and makes a Docker network of it. If the master
  dies before the store lands, its successor gives that subnet away and tells
  this agent of another, which its host ignores. `HostsExclusive` fails in the
  same instance, and `DurableBeforeTold` at the first step of it.
* `agent_reconfigure`: an update dropped halfway leaves overlays configuring
  with nobody awaiting them, and a CHECK of the earlier update's report fails.

Modelled as the code has them, without a run of their own:

* an acknowledgement of an earlier registration registers the agent before the
  present master's overlays have reached it (`agent.cpp:444`):
  `RegisteredLearned` of `OverlayAgent` does not hold;
* the agent registered so may know the leader while its overlays were never
  configured and the leader never gets a report, since updates are dropped once
  it is REGISTERED (`agent.cpp:298`);
* an overlay that came without a bridge the agent is now configured for fails
  every time (`agent.cpp:757`, `891`), as the master answers a known agent from
  memory (`master.cpp:1474`). With such an overlay `EventuallyRegistered` does not
  hold: the report of one update may meet the restarted overlay each time, and
  `CHECK` (`agent.cpp:426`) ends mesos-agent again and again;
* an overlay of IPv6 alone is STATUS_OK without a Docker network on an agent with
  `docker_bridge` whose `enable_ipv6` is off (`agent.cpp:909`, `920`):
  `CreateDockerNetwork`;
* with four or more odd bits in `prefix6` (a /68 out of a /64) the ninth agent
  gets a subnet of the next network (`network.hpp:270`): `WithinNetwork` does
  not hold for `FourOddBits` of `MCSubnetPool`;
* an IPv6 network has far fewer subnets to give than bits: 511 for a /80 out of
  a /64, since `++` leaves full bytes full (`network.hpp:279`): `Increment`;
* with one or two odd bits in `prefix6` the last increment overflows its byte to
  a lower subnet (`network.hpp:271`), so its interval is empty: `NextSubnet6`;
* the IPv4 subnet is lost when the IPv6 one cannot be allocated
  (`master.cpp:698`), and the VTEP IP when there is no VTEP IPv6
  (`master.cpp:1510`): `NothingLeaks` does not hold where they run out;
* the purge race also makes `CHECK(agents.contains(agentIP))`
  (`master.cpp:1595`) fail: `_registerAgentAborts`;
* an agent stored without any overlay is recovered without a backend, and its
  next registration reads `None` (`master.cpp:1439`): `RegisterAborts`;
* `updateOverlayState` logs an unknown overlay and then throws
  (`master.cpp:789-793`): `AgentRegisteredAborts`;
* `recovering` and its gauge stay set after an empty log was recovered
  (`master.cpp:1884`): `RecoverNothing`;
* `_store` overwrites a status reported during the store (`master.cpp:2206`):
  `Stored`;
* a master lost while overlays are being configured makes
  `CHECK_SOME(overlayMaster)` (`agent.cpp:417`) fail:
  `_updateAgentOverlaysAborts`;
* after a restart of mesos-agent a DELETE is sent for a debug container
  (`isolator.cpp:141`): `DebugNeverDeleted` of `MetricsIsolator` does not hold;
* a file can exceed its maximum: a failed write is counted, so logrotate is
  asked to rotate a file below its own threshold, leaves it in place, and the
  count starts anew (`journald.cpp:306`). "We rotate to keep files *under* the
  max size" (`journald.cpp:72-73`) is `UnderMaxSize` of `LogWriter`, which does
  not hold;
* a log file that cannot be opened ends the companion before `write_fluentbit`
  (`journald.cpp:246`, `320`): Fluent Bit loses the buffer at hand with no failure
  of its own, and all that the container writes later: `OpenFails`;
* a failed `socket()` leaves an error in `fluentbit_socket`, and the companion
  ends by a failed assertion of its destructor: `SocketFails`;
* the search for the agent ID steps by two and goes on to the start of the path
  (`lib_journald.cpp:255`): in a work directory with a part called "slaves", at
  an even distance from the one of Mesos, it ends at that one and takes what
  follows for the ID (`AgentId`).

## Plan

Done: the master and its log, the agent, the pools, master and hosts composed,
the isolator, the logger and its companion; the theorems above, one for every
safety property of the runs.

Left, in this order:

1. how far `ToldExclusive` and `HostsExclusive` go when the configuration changes:
   a weaker `Steady` that lets overlays be added while no store is under way;
2. `RunCommand` (timeout, reaper, pipes) and `ProcessSupervisor` (the promises
   of `child()`, a factory that fails) as modules of their own;
3. two masters that write one log after a failover.

## Not modelled

Parsing of flags, JSON and protobufs, module entry points and gauges; the log
sink and the docker config remover (one I/O call each); build files, scripts and
tests. Of `shell.hpp` and `supervisor.hpp` only the effect on their callers is
modelled: a command that ends, fails, or is killed at its timeout after it has
had its effect, and a terminated process that is respawned with fresh state.
