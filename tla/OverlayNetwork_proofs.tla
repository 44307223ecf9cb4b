------------------------ MODULE OverlayNetwork_proofs ------------------------
(***************************************************************************)
(* Proofs about the overlay master and the Docker networks of its agents,  *)
(* for all agents, overlays, pools and bounds, under three hypotheses:     *)
(*                                                                         *)
(*   GoneOnly  agents are purged only after they are gone;                 *)
(*   Steady    the configuration enables some overlay, keeps a replicated  *)
(*             log, and stays the same across restarts;                    *)
(*   Enough    no network runs out of subnets, nor vtep_subnet6 of         *)
(*             addresses, before every agent has one.                      *)
(*                                                                         *)
(* Under them an agent is given all its overlays when it registers first,  *)
(* so a record never changes in what it names until it is purged: what an  *)
(* agent was told is what the log records for it, then and later.          *)
(*                                                                         *)
(*   SteadyInductive  the invariant holds                                  *)
(*   NoAbort          NeverAborts                                          *)
(*   NoLeak           NothingLeaks                                         *)
(*   DurableFirst     DurableBeforeTold                                    *)
(*   ToldApart        ToldExclusive                                        *)
(*   HostsApart       HostsExclusive                                       *)
(*   NetworksStay     NeverMoves                                           *)
(***************************************************************************)
EXTENDS OverlayNetwork, OverlayLog_proofs, FiniteSetTheorems

-----------------------------------------------------------------------------
(* Hypotheses *)

\* "Here, we assume that the overlay configuration never changes."
Steady == \A c, d \in Configs : c = d /\ c.log /\ c.enabled # {}

\* A pool that has something for every agent.
Plenty(pool) ==
    IsFiniteSet(pool) /\ Cardinality(AgentIPs) <= Cardinality(pool)

Enough ==
    /\ IsFiniteSet(AgentIPs)
    /\ \A o \in IPv4Overlays : Plenty(Subnets[o])
    /\ \A o \in IPv6Overlays : Plenty(Subnets6[o])
    /\ \A c \in Configs : c.network6 => Plenty(VtepIP6s)

-----------------------------------------------------------------------------
(* The invariant *)

\* A record of an agent that was given all overlays of configuration c at once.
Whole(x, c) ==
    /\ Names(x) = c.enabled
    /\ \A o, p \in Names(x) : x[o].vtep = x[p].vtep /\ x[o].vtep6 = x[p].vtep6
    /\ c.network6 => \A o \in Names(x) : x[o].vtep6 # None

WholeAgent(agent, c) ==
    Whole(agent.overlays, c) /\ agent.backend \in BackendsOf(agent.overlays)

\* Every record is whole, and none is ever modified to name more.
WholeInv ==
    /\ \A a \in AgentIPs :
        /\ \A x \in Recs(log, a) : Whole(x, config)
        /\ \A x \in Recs(networkState, a) : Whole(x, config)
        /\ \A x \in Recs(InflightState, a) : Whole(x, config)
        /\ \A x \in Writes(operations, a) : Whole(x, config)
        /\ agents[a] # None => WholeAgent(agents[a], config)
    /\ \A i \in DOMAIN operations : operations[i].type # "modify"

PurgeLast(ops, a) ==
    \A i, j \in DOMAIN ops : IsPurge(ops[i], a) /\ IsWrite(ops[j], a) => j < i

\* Continuations run in the order of their operations, and the purge of an
\* agent is behind all that was written for it.
OrderInv ==
    \A a \in AgentIPs :
        /\ PurgeLast(mailbox, a) /\ PurgeLast(InflightOps, a)
        /\ Purges(mailbox, a) => Writes(InflightOps, a) = {}
        /\ Writes(mailbox, a) \cup Writes(InflightOps, a) # {} => agents[a] # None

\* A purge of agent a is under way.
Doomed(a) ==
    Purges(mailbox, a) \/ Purges(InflightOps, a) \/ Purges(operations, a)

\* An agent whose continuation is to run is recorded, in memory and in the
\* log, and stays so until it is purged.
DurableInv ==
    \A a \in AgentIPs : ~Doomed(a) =>
        /\ Writes(mailbox, a) # {} => networkState[a] # <<>>
        /\ Writes(InflightOps, a) # {} => InflightState[a] # <<>>
        /\ networkState[a] # <<>> =>
              /\ log[a] # <<>>
              /\ inflight # None => InflightState[a] # <<>>

\* An agent works with what the log records for it.
ToldInv ==
    \A a \in AgentIPs :
        /\ Doomed(a) => told[a] = None
        /\ told[a] # None =>
            /\ log[a] # <<>> /\ told[a] = ClearStatus(log[a][1])
            /\ stored => networkState[a] # <<>>
        /\ known[a] \subseteq (IF told[a] = None THEN {} ELSE config.enabled)

RecordFacts == WholeInv /\ OrderInv /\ DurableInv /\ ToldInv

SteadyInv ==
    /\ LogInv
    /\ RecordFacts
    /\ NothingLeaks
    /\ NeverAborts

-----------------------------------------------------------------------------
(* Queues and States *)

\* What the head of a queue and its tail write and purge.
LEMMA HeadTail ==
  ASSUME NEW ops \in Seq(Operation), ops # <<>>, NEW a
  PROVE  /\ Writes(ops, a) = Writes(Tail(ops), a)
                \cup (IF IsWrite(Head(ops), a) THEN {Head(ops).info} ELSE {})
         /\ Purges(ops, a) <=> Purges(Tail(ops), a) \/ IsPurge(Head(ops), a)
         /\ PurgeLast(ops, a) => PurgeLast(Tail(ops), a)
         /\ PurgeLast(ops, a) /\ IsPurge(Head(ops), a) => Writes(Tail(ops), a) = {}
<1> DEFINE tail == Tail(ops)
<1>1. /\ tail \in Seq(Operation) /\ Len(tail) = Len(ops) - 1
      /\ \A i \in 1..Len(tail) : tail[i] = ops[i + 1]
      /\ Head(ops) = ops[1]
  BY HeadTailProperties
<1>2. /\ Len(ops) \in Nat /\ DOMAIN ops = 1..Len(ops)
      /\ DOMAIN tail = 1..Len(tail)
  BY <1>1, LenProperties
<1>3. Len(ops) # 0
  BY <1>2, EmptySeq
<1> HIDE DEF tail
<1>4. \A i \in DOMAIN tail : i + 1 \in DOMAIN ops /\ tail[i] = ops[i + 1] /\ i \in Nat
  BY <1>1, <1>2
<1>5. \A j \in DOMAIN ops : j = 1 \/ (j - 1 \in DOMAIN tail /\ ops[j] = tail[j - 1])
  <2> SUFFICES ASSUME NEW j \in DOMAIN ops, j # 1
               PROVE  j - 1 \in DOMAIN tail /\ ops[j] = tail[j - 1]
    OBVIOUS
  <2>1. j - 1 \in 1..Len(tail) /\ (j - 1) + 1 = j
    BY <1>1, <1>2
  <2> QED BY <1>1, <1>2, <2>1
<1>6. 1 \in DOMAIN ops
  BY <1>2, <1>3
<1>7. Writes(ops, a) = Writes(tail, a)
          \cup (IF IsWrite(Head(ops), a) THEN {Head(ops).info} ELSE {})
  <2>1. ASSUME NEW x \in Writes(ops, a)
        PROVE  x \in Writes(tail, a)
                  \/ (IsWrite(Head(ops), a) /\ x = Head(ops).info)
    <3>1. PICK j \in DOMAIN ops : IsWrite(ops[j], a) /\ x = ops[j].info
      BY <2>1 DEF Writes
    <3> QED BY <1>1, <1>5, <3>1 DEF Writes
  <2>2. ASSUME NEW x \in Writes(tail, a) PROVE x \in Writes(ops, a)
    <3>1. PICK j \in DOMAIN tail : IsWrite(tail[j], a) /\ x = tail[j].info
      BY <2>2 DEF Writes
    <3> QED BY <1>4, <3>1 DEF Writes
  <2>3. IsWrite(Head(ops), a) => Head(ops).info \in Writes(ops, a)
    BY <1>1, <1>6 DEF Writes
  <2> QED BY <2>1, <2>2, <2>3
<1>8. Purges(ops, a) <=> Purges(tail, a) \/ IsPurge(Head(ops), a)
  BY <1>1, <1>4, <1>5, <1>6 DEF Purges
<1>9. PurgeLast(ops, a) => PurgeLast(tail, a)
  <2> SUFFICES ASSUME PurgeLast(ops, a), NEW i \in DOMAIN tail, NEW j \in DOMAIN tail,
                      IsPurge(tail[i], a), IsWrite(tail[j], a)
               PROVE  j < i
    BY DEF PurgeLast
  <2>1. j + 1 < i + 1 /\ i \in Nat /\ j \in Nat
    BY <1>4 DEF PurgeLast
  <2> QED BY <2>1
<1>10. PurgeLast(ops, a) /\ IsPurge(Head(ops), a) => Writes(tail, a) = {}
  <2> SUFFICES ASSUME PurgeLast(ops, a), IsPurge(Head(ops), a),
                      NEW j \in DOMAIN tail, IsWrite(tail[j], a)
               PROVE  FALSE
    BY DEF Writes
  <2>1. j + 1 < 1 /\ j \in Nat
    BY <1>1, <1>4, <1>6 DEF PurgeLast
  <2> QED BY <2>1
<1> QED BY <1>7, <1>8, <1>9, <1>10 DEF tail

\* An agent that is recorded, or is added, is recorded after an operation
\* that is not its purge.
LEMMA PerformKeeps ==
  ASSUME NEW op \in Operation, NEW ns \in NetworkState, NEW present,
         NEW a \in AgentIPs, ~IsPurge(op, a),
         ns[a] # <<>> \/ (op.type = "add" /\ op.ip = a /\ a \in present)
  PROVE  Perform(op, ns, present)[a] # <<>>
<1> DEFINE after == Perform(op, ns, present)
<1>0. ns[a] \in Seq(AgentInfo) /\ Len(ns[a]) \in Nat
  BY LenProperties DEF NetworkState
<1>1. CASE ~CanPerform(op, ns, present)
  BY <1>1 DEF Perform, CanPerform
<1>2. CASE CanPerform(op, ns, present) /\ op.type = "add"
  <2>1. op.ip \in AgentIPs /\ op.info \in AgentInfo
    BY <1>2 DEF Operation
  <2>2. after = [ns EXCEPT ![op.ip] = Append(ns[op.ip], op.info)]
    BY <1>2 DEF Perform
  <2>3. CASE op.ip # a
    BY <2>2, <2>3 DEF NetworkState
  <2>4. CASE op.ip = a
    <3>1. after[a] = Append(ns[a], op.info)
      BY <2>1, <2>2, <2>4 DEF NetworkState
    <3>2. Append(ns[a], op.info)[Len(ns[a]) + 1] = op.info
          /\ Len(ns[a]) + 1 \in DOMAIN Append(ns[a], op.info)
      BY <1>0, <2>1, Appended
    <3> QED BY <3>1, <3>2
  <2> QED BY <2>3, <2>4
<1>3. CASE CanPerform(op, ns, present) /\ op.type = "modify"
  <2>1. op.ip \in AgentIPs /\ op.info \in AgentInfo
    BY <1>3 DEF Operation
  <2>2. after = [ns EXCEPT ![op.ip] = [ns[op.ip] EXCEPT ![1] = op.info]]
    BY <1>3 DEF Perform
  <2>3. CASE op.ip # a
    BY <1>3, <2>2, <2>3 DEF NetworkState
  <2>4. CASE op.ip = a
    <3>1. after[a] = [ns[a] EXCEPT ![1] = op.info]
      BY <2>1, <2>2, <2>4 DEF NetworkState
    <3>2. 1 \in DOMAIN ns[a]
      BY <1>0, <1>3, <2>4, EmptySeq, LenProperties DEF CanPerform
    <3>3. 1 \in DOMAIN after[a]
      BY <3>1, <3>2
    <3>4. 1 \notin DOMAIN <<>>
      OBVIOUS
    <3> QED BY <3>3, <3>4
  <2> QED BY <2>3, <2>4
<1>4. CASE CanPerform(op, ns, present) /\ op.type = "delete"
  <2>1. after[a] = IF a \in op.ips THEN <<>> ELSE ns[a]
    BY <1>4 DEF Perform
  <2> QED BY <1>4, <2>1 DEF IsPurge
<1> QED BY <1>1, <1>2, <1>3, <1>4 DEF CanPerform

\* The same for all the operations of a store.
LEMMA PerformAllKeeps ==
  ASSUME NEW ops \in Seq(Operation), NEW ns \in NetworkState, NEW present,
         NEW a \in AgentIPs, ~Purges(ops, a),
         \/ ns[a] # <<>>
         \/ a \in present /\ \E i \in DOMAIN ops : ops[i].type = "add" /\ ops[i].ip = a
  PROVE  PerformAll(ops, ns, present)[a] # <<>>
<1>0. PICK run \in [0..Len(ops) -> NetworkState] : IsRun(run, ops, ns, present)
  BY PerformRun
<1>1. /\ Len(ops) \in Nat /\ DOMAIN ops = 1..Len(ops)
      /\ run[0] = ns
      /\ run[Len(ops)] = PerformAll(ops, ns, present)
      /\ \A k \in 1..Len(ops) :
            /\ ops[k] \in Operation /\ k - 1 \in 0..Len(ops)
            /\ run[k] = Perform(ops[k], run[k - 1], present)
  BY <1>0, LenProperties DEF IsRun
<1> DEFINE G == {k \in 0..Len(ops) : run[k][a] # <<>>}
<1>2. \E m \in 0..Len(ops) : m \in G
  <2>1. CASE ns[a] # <<>>
    <3>1. 0 \in 0..Len(ops) /\ 0 \in G
      BY <1>1, <2>1
    <3> QED BY <3>1
  <2>2. ASSUME a \in present, NEW i \in DOMAIN ops, ops[i].type = "add", ops[i].ip = a
        PROVE  \E m \in 0..Len(ops) : m \in G
    <3>1. i \in 1..Len(ops) /\ i \in 0..Len(ops)
      BY <1>1, LenProperties
    <3>2. run[i - 1] \in NetworkState /\ ~IsPurge(ops[i], a)
      BY <1>1, <3>1 DEF Purges
    <3>3. run[i][a] # <<>>
      BY <1>1, <2>2, <3>1, <3>2, PerformKeeps
    <3> QED BY <3>1, <3>3
  <2> QED BY <2>1, <2>2
<1>3. PICK m \in 0..Len(ops) : m \in G
  BY <1>2
<1>4. ASSUME NEW k \in 1..Len(ops), k - 1 \in G PROVE k \in G
  <2>1. run[k - 1] \in NetworkState /\ ~IsPurge(ops[k], a) /\ k \in 0..Len(ops)
    BY <1>1, LenProperties DEF Purges
  <2>2. run[k - 1][a] # <<>>
    BY <1>4
  <2>3. run[k][a] # <<>>
    BY <1>1, <2>1, <2>2, PerformKeeps
  <2> QED BY <2>1, <2>3
<1>5. Len(ops) \in G
  <2>1. G \in SUBSET (0..Len(ops))
    OBVIOUS
  <2> HIDE DEF G
  <2>2. Len(ops) \in 0..Len(ops) /\ m <= Len(ops)
    BY <1>1
  <2> QED BY <1>1, <1>3, <1>4, <2>1, <2>2, Upwards
<1> QED BY <1>1, <1>5

\* A store of one operation performs it.
LEMMA PerformAllOne ==
  ASSUME NEW op \in Operation, NEW ns \in NetworkState, NEW present,
         NEW ops \in Seq(Operation), Len(ops) = 1, ops[1] = op
  PROVE  PerformAll(ops, ns, present) = Perform(op, ns, present)
<1>1. PICK run \in [0..Len(ops) -> NetworkState] : IsRun(run, ops, ns, present)
  BY PerformRun
<1>2. /\ run[0] = ns /\ run[1] = PerformAll(ops, ns, present)
      /\ \A k \in 1..1 : run[k] = Perform(ops[k], run[k - 1], present)
  BY <1>1 DEF IsRun
<1>3. run[1] = Perform(ops[1], run[1 - 1], present) /\ 1 - 1 = 0
  BY <1>2
<1> QED BY <1>2, <1>3

\* update() of a process that stores nothing yet stores the operation.
LEMMA UpdateFirst ==
  ASSUME TypeOK, UseLog, inflight = None, operations = <<>>,
         NEW op \in Operation, NEW as, Update(op, as)
  PROVE  /\ UNCHANGED <<networkState, mailbox, operations>>
         /\ inflight' # None
         /\ InflightState' = Perform(op, networkState, Present(as))
         /\ \A b : /\ Writes(InflightOps', b)
                          = (IF IsWrite(op, b) THEN {op.info} ELSE {})
                   /\ Purges(InflightOps', b) <=> IsPurge(op, b)
                   /\ PurgeLast(InflightOps', b)
<1> DEFINE ops == Append(operations, op)
           ns == PerformAll(ops, networkState, Present(as))
<1>1. operations \in Seq(Operation) /\ networkState \in NetworkState
  BY DEF TypeOK
<1>2. ops \in Seq(Operation)
  BY <1>1, Appended
<1>3. DOMAIN ops = {1} /\ ops[1] = op /\ Len(ops) = 1
  <2>1. DOMAIN operations = {} /\ Len(operations) = 0
    OBVIOUS
  <2> QED BY <1>1, <2>1, Appended
<1>4. /\ UNCHANGED <<networkState, mailbox, operations>>
      /\ inflight' = [state |-> ns, ops |-> ops, landed |-> FALSE]
  BY DEF Update, Write
<1>5. inflight' \in Store
  BY <1>1, <1>2, <1>4, PerformAllType DEF Store
<1>6. inflight' # None
  BY <1>5, AbsentAssumption
<1>7. InflightState' = ns /\ InflightOps' = ops
  BY <1>4, <1>6 DEF InflightState, InflightOps
<1> HIDE DEF ops
<1>8. ns = Perform(op, networkState, Present(as))
  BY <1>1, <1>2, <1>3, PerformAllOne
<1>9. ASSUME NEW b
      PROVE  /\ Writes(ops, b) = (IF IsWrite(op, b) THEN {op.info} ELSE {})
             /\ Purges(ops, b) <=> IsPurge(op, b)
             /\ PurgeLast(ops, b)
  <2>1. Writes(ops, b) = (IF IsWrite(op, b) THEN {op.info} ELSE {})
    BY <1>3 DEF Writes
  <2>2. Purges(ops, b) <=> IsPurge(op, b)
    BY <1>3 DEF Purges
  <2>3. PurgeLast(ops, b)
    BY <1>3 DEF PurgeLast, IsPurge, IsWrite
  <2> QED BY <2>1, <2>2, <2>3
<1> QED BY <1>4, <1>6, <1>7, <1>8, <1>9

\* update() behind a store in flight queues the operation.
LEMMA UpdateQueued ==
  ASSUME TypeOK, UseLog, inflight # None,
         NEW op \in Operation, NEW as, Update(op, as)
  PROVE  /\ UNCHANGED <<networkState, mailbox, inflight>>
         /\ InflightState' = InflightState /\ InflightOps' = InflightOps
         /\ \A b : /\ Writes(operations', b) = Writes(operations, b)
                          \cup (IF IsWrite(op, b) THEN {op.info} ELSE {})
                   /\ Purges(operations', b) <=> Purges(operations, b) \/ IsPurge(op, b)
         /\ op.type # "modify" /\ (\A i \in DOMAIN operations : operations[i].type # "modify")
              => \A i \in DOMAIN operations' : operations'[i].type # "modify"
<1>1. /\ operations' = Append(operations, op)
      /\ UNCHANGED <<inflight, mailbox, networkState>>
  BY DEF Update
<1>2. InflightState' = InflightState /\ InflightOps' = InflightOps
  BY <1>1 DEF InflightState, InflightOps
<1>3. operations \in Seq(Operation)
  BY DEF TypeOK
<1>4. \A b : /\ Writes(operations', b) = Writes(operations, b)
                      \cup (IF IsWrite(op, b) THEN {op.info} ELSE {})
             /\ Purges(operations', b) <=> Purges(operations, b) \/ IsPurge(op, b)
  BY <1>1, <1>3, AppendedWrites
<1>5. /\ DOMAIN operations' = DOMAIN operations \cup {Len(operations) + 1}
      /\ \A i \in DOMAIN operations : operations'[i] = operations[i]
      /\ operations'[Len(operations) + 1] = op
  BY <1>1, <1>3, Appended
<1> QED BY <1>1, <1>2, <1>4, <1>5

-----------------------------------------------------------------------------
(* Records *)

\* Records that name the same are the same but for their statuses.
LEMMA SameCleared ==
  ASSUME NEW x \in AgentInfo, NEW y \in AgentInfo,
         Within(x, y), Names(x) = Names(y)
  PROVE  ClearStatus(x) = ClearStatus(y)
<1> SUFFICES ASSUME NEW o \in Overlays
             PROVE  ClearStatus(x)[o] = ClearStatus(y)[o]
  BY DEF ClearStatus
<1>1. CASE o \notin Names(x)
  <2>1. x[o] = None /\ y[o] = None
    BY <1>1 DEF Names
  <2> QED BY <2>1 DEF ClearStatus
<1>2. CASE o \in Names(x)
  <2>1. x[o] # None /\ y[o] # None
    BY <1>2 DEF Names
  <2>2. x[o] \in OverlayInfo /\ y[o] \in OverlayInfo
    BY <2>1 DEF AgentInfo
  <2>3. /\ x[o].subnet = y[o].subnet /\ x[o].subnet6 = y[o].subnet6
        /\ x[o].vtep = y[o].vtep /\ x[o].vtep6 = y[o].vtep6
    BY <1>2 DEF Within
  <2>4. [x[o] EXCEPT !.status = None] = [y[o] EXCEPT !.status = None]
    BY <2>2, <2>3 DEF OverlayInfo
  <2> QED BY <2>1, <2>4 DEF ClearStatus
<1> QED BY <1>1, <1>2

\* Records that name the same things.
Alike(x, y) == Within(x, y) /\ Within(y, x)

\* They name the same overlays, addresses and backends, and are whole alike.
LEMMA AlikeRecords ==
  ASSUME NEW x, NEW y, Alike(x, y)
  PROVE  /\ Names(x) = Names(y)
         /\ VtepsOf(x) = VtepsOf(y) /\ Vtep6sOf(x) = Vtep6sOf(y)
         /\ BackendsOf(x) = BackendsOf(y)
         /\ \A c : Whole(x, c) => Whole(y, c)
<1>1. Names(x) = Names(y)
  BY DEF Alike, Within, Names
<1>2. \A o \in Names(x) : x[o].vtep = y[o].vtep /\ x[o].vtep6 = y[o].vtep6
  BY DEF Alike, Within
<1>3. VtepsOf(x) = VtepsOf(y) /\ Vtep6sOf(x) = Vtep6sOf(y)
  BY <1>1, <1>2 DEF VtepsOf, Vtep6sOf
<1>4. BackendsOf(x) = BackendsOf(y)
  BY <1>1, <1>2 DEF BackendsOf
<1>5. \A c : Whole(x, c) => Whole(y, c)
  BY <1>1, <1>2 DEF Whole
<1> QED BY <1>1, <1>3, <1>4, <1>5

\* An agents map that changes statuses only holds the same.
LEMMA AlikeHeld ==
  ASSUME NEW as, NEW bs,
         \A a \in AgentIPs :
            /\ as[a] = None <=> bs[a] = None
            /\ as[a] # None => /\ Alike(as[a].overlays, bs[a].overlays)
                               /\ as[a].backend = bs[a].backend
  PROVE  /\ \A o \in Overlays : /\ HeldSubnets(as, o) = HeldSubnets(bs, o)
                                /\ HeldSubnets6(as, o) = HeldSubnets6(bs, o)
         /\ HeldVteps(as) = HeldVteps(bs) /\ HeldVtep6s(as) = HeldVtep6s(bs)
<1>1. ASSUME NEW o \in Overlays
      PROVE  HeldSubnets(as, o) = HeldSubnets(bs, o)
             /\ HeldSubnets6(as, o) = HeldSubnets6(bs, o)
  <2>1. ASSUME NEW a \in AgentIPs, as[a] # None, as[a].overlays[o] # None
        PROVE  /\ bs[a].overlays[o] # None
               /\ as[a].overlays[o].subnet = bs[a].overlays[o].subnet
               /\ as[a].overlays[o].subnet6 = bs[a].overlays[o].subnet6
    <3>1. o \in Names(as[a].overlays)
      BY <2>1 DEF Names
    <3> QED BY <2>1, <3>1 DEF Alike, Within
  <2>2. ASSUME NEW a \in AgentIPs, as[a] # None, as[a].overlays[o] = None
        PROVE  bs[a].overlays[o] = None
    BY <2>2 DEF Alike, Within, Names
  <2> QED BY <2>1, <2>2 DEF HeldSubnets, HeldSubnets6
<1>2. HeldVteps(as) = HeldVteps(bs) /\ HeldVtep6s(as) = HeldVtep6s(bs)
  BY AlikeRecords DEF HeldVteps, HeldVtep6s, BackendVteps, BackendVtep6s
<1> QED BY <1>1, <1>2

-----------------------------------------------------------------------------
(* Pools *)

\* A pool with something for every agent has something free for one that
\* holds nothing, when no agent holds two things and nothing is lost.
LEMMA SomeFree ==
  ASSUME Enough, NEW pool, Plenty(pool), NEW held, NEW free,
         Conserved(pool, held, free),
         NEW a \in AgentIPs, held[a] = {},
         \A b \in AgentIPs : \A m, n \in held[b] : m = n
  PROVE  free # {}
<1> SUFFICES ASSUME free = {} PROVE FALSE
  OBVIOUS
<1> DEFINE others == AgentIPs \ {a}
           holder == [n \in pool |-> CHOOSE b \in others : n \in held[b]]
<1>1. \A n \in pool : \E b \in others : n \in held[b]
  BY DEF Conserved
<1>2. \A n \in pool : holder[n] \in others /\ n \in held[holder[n]]
  BY <1>1
<1>3. holder \in [pool -> others]
  BY <1>2
<1>4. IsFiniteSet(AgentIPs) /\ IsFiniteSet(pool)
  BY DEF Enough, Plenty
<1>5. IsFiniteSet(others) /\ Cardinality(others) = Cardinality(AgentIPs) - 1
  BY <1>4, FS_RemoveElement
<1>6. Cardinality(others) < Cardinality(pool)
  <2>1. Cardinality(AgentIPs) \in Nat /\ Cardinality(pool) \in Nat
    BY <1>4, FS_CardinalityType
  <2> QED BY <1>5, <2>1 DEF Plenty
<1> HIDE DEF holder, others
<1>7. PICK m, n \in pool : m # n /\ holder[m] = holder[n]
  BY <1>3, <1>4, <1>5, <1>6, FS_PigeonHole
<1>8. holder[m] \in AgentIPs
  BY <1>2 DEF others
<1> QED BY <1>2, <1>7, <1>8

\* A whole agent holds one subnet of an overlay and one address of each kind.
LEMMA HoldsOne ==
  ASSUME NEW a \in AgentIPs, agents[a] # None => WholeAgent(agents[a], config),
         config.enabled # {}
  PROVE  /\ \A o \in Overlays :
                /\ \A m, n \in HeldSubnets(agents, o)[a] : m = n
                /\ \A m, n \in HeldSubnets6(agents, o)[a] : m = n
         /\ \A m, n \in HeldVtep6s(agents)[a] : m = n
         /\ agents[a] # None => HeldVteps(agents)[a] = VtepsOf(agents[a].overlays)
         /\ agents[a] # None => HeldVtep6s(agents)[a] = Vtep6sOf(agents[a].overlays)
<1>1. \A o \in Overlays : /\ \A m, n \in HeldSubnets(agents, o)[a] : m = n
                          /\ \A m, n \in HeldSubnets6(agents, o)[a] : m = n
  BY DEF HeldSubnets, HeldSubnets6
<1>2. CASE agents[a] = None
  BY <1>1, <1>2 DEF HeldVtep6s
<1>3. CASE agents[a] # None
  <2> DEFINE x == agents[a].overlays
  <2>1. /\ Names(x) = config.enabled
        /\ \A o, p \in Names(x) : x[o].vtep = x[p].vtep /\ x[o].vtep6 = x[p].vtep6
    BY <1>3 DEF WholeAgent, Whole
  <2>2. PICK o \in Names(x) :
            agents[a].backend = [vtep |-> x[o].vtep, vtep6 |-> x[o].vtep6]
    BY <1>3, <2>1 DEF WholeAgent, BackendsOf
  <2> HIDE DEF x
  <2>3. BackendVteps(agents[a]) \subseteq VtepsOf(x)
    BY <2>2 DEF BackendVteps, VtepsOf
  <2>4. BackendVtep6s(agents[a]) \subseteq Vtep6sOf(x)
    BY <2>2 DEF BackendVtep6s, Vtep6sOf
  <2>5. HeldVteps(agents)[a] = VtepsOf(x) /\ HeldVtep6s(agents)[a] = Vtep6sOf(x)
    BY <1>3, <2>3, <2>4 DEF HeldVteps, HeldVtep6s, x
  <2>6. \A m, n \in Vtep6sOf(x) : m = n
    BY <2>1 DEF Vtep6sOf
  <2> QED BY <1>1, <2>5, <2>6 DEF x
<1> QED BY <1>2, <1>3

\* The configuration never changes.
LEMMA SteadyConfig ==
  ASSUME Steady, TypeOK
  PROVE  /\ UseLog /\ config.enabled # {} /\ config.enabled \subseteq Overlays
         /\ \A c \in Configs : c = config
<1>1. config \in Configs
  BY DEF TypeOK
<1> QED BY <1>1, ConfigAssumption DEF Steady, UseLog

\* No pool that registerAgent allocates from is empty for an agent that is
\* not in the agents map.
LEMMA PoolsLast ==
  ASSUME Steady, Enough, TypeOK, WholeInv, NothingLeaks,
         NEW a \in AgentIPs, agents[a] = None
  PROVE  /\ \A o \in IPv4Overlays : freeNetworks[o] # {}
         /\ \A o \in IPv6Overlays : freeNetworks6[o] # {}
         /\ config.network6 => freeIP6 # {}
<1>1. config.enabled # {} /\ config \in Configs
  BY SteadyConfig DEF TypeOK
<1>2. \A b \in AgentIPs : agents[b] # None => WholeAgent(agents[b], config)
  BY DEF WholeInv
<1>3. /\ \A o \in Overlays : HeldSubnets(agents, o)[a] = {} /\ HeldSubnets6(agents, o)[a] = {}
      /\ HeldVtep6s(agents)[a] = {}
  BY DEF HeldSubnets, HeldSubnets6, HeldVtep6s
<1>4. \A b \in AgentIPs :
        /\ \A o \in Overlays :
                /\ \A m, n \in HeldSubnets(agents, o)[b] : m = n
                /\ \A m, n \in HeldSubnets6(agents, o)[b] : m = n
        /\ \A m, n \in HeldVtep6s(agents)[b] : m = n
  BY <1>1, <1>2, HoldsOne
<1>5. ASSUME NEW o \in IPv4Overlays PROVE freeNetworks[o] # {}
  <2>1. o \in Overlays /\ InitialPool(o) = Subnets[o]
    BY NetworksAssumption DEF InitialPool
  <2>2. Plenty(Subnets[o]) /\ Conserved(Subnets[o], HeldSubnets(agents, o), freeNetworks[o])
    BY <2>1 DEF Enough, NothingLeaks
  <2> QED BY <1>3, <1>4, <2>1, <2>2, SomeFree
<1>6. ASSUME NEW o \in IPv6Overlays PROVE freeNetworks6[o] # {}
  <2>1. o \in Overlays /\ InitialPool6(o) = Subnets6[o]
    BY NetworksAssumption DEF InitialPool6
  <2>2. Plenty(Subnets6[o]) /\ Conserved(Subnets6[o], HeldSubnets6(agents, o), freeNetworks6[o])
    BY <2>1 DEF Enough, NothingLeaks
  <2> QED BY <1>3, <1>4, <2>1, <2>2, SomeFree
<1>7. ASSUME config.network6 PROVE freeIP6 # {}
  <2>1. Plenty(VtepIP6s) /\ Conserved(VtepIP6s, HeldVtep6s(agents), freeIP6)
    BY <1>1, <1>7 DEF Enough, NothingLeaks, InitialFreeIP6
  <2> QED BY <1>3, <1>4, <2>1, SomeFree
<1> QED BY <1>5, <1>6, <1>7

-----------------------------------------------------------------------------
(* Registration *)

\* A step that leaves records and queues alone, and sends what ToldInv allows.
LEMMA KeptRecords ==
  ASSUME WholeInv, OrderInv, DurableInv, ToldInv',
         UNCHANGED <<config, agents, networkState, operations, inflight, mailbox, log>>
  PROVE  RecordFacts'
<1>1. InflightState' = InflightState /\ InflightOps' = InflightOps
  BY DEF InflightState, InflightOps
<1>2. WholeInv'
  BY <1>1 DEF WholeInv
<1>3. OrderInv'
  BY <1>1 DEF OrderInv
<1>4. DurableInv'
  BY <1>1 DEF DurableInv, Doomed
<1> QED BY <1>2, <1>3, <1>4 DEF RecordFacts

\* A step that sends nothing.
LEMMA KeptTold ==
  ASSUME ToldInv, UNCHANGED <<config, stored, networkState, log, told>>,
         \A a \in AgentIPs : known'[a] \subseteq known[a] /\ (Doomed(a)' => Doomed(a))
  PROVE  ToldInv'
BY DEF ToldInv

\* What the log records for an agent that is recorded is what it holds.
LEMMA LoggedHeld ==
  ASSUME LogInv, WholeInv, stored, NEW a \in AgentIPs,
         agents[a] # None, log[a] # <<>>
  PROVE  /\ log[a][1] \in AgentInfo /\ agents[a].overlays \in AgentInfo
         /\ ClearStatus(agents[a].overlays) = ClearStatus(log[a][1])
<1> DEFINE x == log[a][1]
           y == agents[a].overlays
<1>1. TypeOK /\ Covered /\ log \in NetworkState
  BY DEF LogInv, LogFacts, QueueInv, TypeOK
<1>2. x \in AgentInfo /\ x \in Recs(log, a)
  BY <1>1, SingleRecs
<1>3. y \in AgentInfo
  BY <1>1 DEF TypeOK, Agent
<1>4. Within(x, y)
  BY <1>1, <1>2 DEF Covered, AllHeld, HeldBy
<1>5. Names(x) = config.enabled /\ Names(y) = config.enabled
  BY <1>2 DEF WholeInv, Whole, WholeAgent
<1> HIDE DEF x, y
<1>6. ClearStatus(x) = ClearStatus(y)
  BY <1>2, <1>3, <1>4, <1>5, SameCleared
<1> QED BY <1>2, <1>3, <1>6 DEF x, y

\* registerAgent and _registerAgent send an agent what the log records for it.
LEMMA SentTold ==
  ASSUME GoneOnly, LogInv, WholeInv, DurableInv, ToldInv, stored,
         NEW a \in AgentIPs, agents[a] # None,
         ~Gone(a) => networkState[a] # <<>>,
         SendUpdate(agents, a),
         UNCHANGED <<config, stored, networkState, log>>,
         \A b \in AgentIPs : Doomed(b)' => Doomed(b)
  PROVE  ToldInv'
<1>0. TypeOK
  BY DEF LogInv
<1>1. CASE Gone(a)
  BY <1>1, KeptTold DEF SendUpdate
<1>2. CASE ~Gone(a)
  <2>1. ~Doomed(a)
    BY <1>0, <1>2, NotGone DEF Doomed
  <2>2. networkState[a] # <<>> /\ log[a] # <<>>
    BY <1>2, <2>1 DEF DurableInv
  <2>3. /\ agents[a].overlays \in AgentInfo /\ log[a][1] \in AgentInfo
        /\ ClearStatus(agents[a].overlays) = ClearStatus(log[a][1])
    BY <2>2, LoggedHeld
  <2>4. Names(agents[a].overlays) = config.enabled
    BY DEF WholeInv, WholeAgent, Whole
  <2>5. /\ told' = [told EXCEPT ![a] = ClearStatus(log[a][1])]
        /\ known' = [known EXCEPT ![a] = @ \cup config.enabled]
    BY <1>2, <2>3, <2>4 DEF SendUpdate, Configuration
  <2>6. ClearStatus(log[a][1]) # None
    BY <2>3, ClearStatusType, AbsentAssumption
  <2>7. /\ told'[a] = ClearStatus(log[a][1]) /\ known'[a] = known[a] \cup config.enabled
        /\ \A b \in AgentIPs : b # a => told'[b] = told[b] /\ known'[b] = known[b]
    BY <1>0, <2>5 DEF TypeOK
  <2>8. known[a] \subseteq config.enabled
    BY DEF ToldInv
  <2> QED BY <2>1, <2>2, <2>6, <2>7, <2>8 DEF ToldInv
<1> QED BY <1>1, <1>2

\* What one agent takes from a pool is not lost.
LEMMA TakenConserved ==
  ASSUME NEW pool, NEW H, NEW H2, NEW F, NEW F2, Conserved(pool, H, F),
         NEW a \in AgentIPs, H[a] = {},
         \A b \in AgentIPs : b # a => H2[b] = H[b],
         \A n \in F : n \in F2 \/ n \in H2[a]
  PROVE  Conserved(pool, H2, F2)
BY DEF Conserved

\* What registerAgent gives an agent that is not in the agents map.
LEMMA NewAgent ==
  ASSUME Steady, Enough, TypeOK, WholeInv, NothingLeaks,
         NEW a \in AgentIPs, NEW alloc, RegisterNew(a, alloc)
  PROVE  /\ agents'[a] \in Agent /\ agents'[a] # None
         /\ WholeAgent(agents'[a], config)
         /\ \A b \in AgentIPs : b # a => agents'[b] = agents[b]
         /\ Update([type |-> "add", ip |-> a, info |-> agents'[a].overlays], agents')
         /\ NothingLeaks'
<1> DEFINE backend == [vtep |-> Lowest(freeIP),
                       vtep6 |-> IF config.network6 THEN Lowest(freeIP6)
                                                    ELSE None]
           x == WithOverlays(NoOverlays, backend, alloc)
           agent == [backend |-> backend, overlays |-> x]
<1>0. /\ agents[a] = None /\ freeIP # {} /\ freeIP' = freeIP \ {Lowest(freeIP)}
      /\ UNCHANGED config
  BY DEF RegisterNew
<1>1. /\ config.enabled # {} /\ config.enabled \subseteq Overlays
      /\ \A o \in IPv4Overlays : freeNetworks[o] # {}
      /\ \A o \in IPv6Overlays : freeNetworks6[o] # {}
      /\ config.network6 => freeIP6 # {}
  BY <1>0, SteadyConfig, PoolsLast
<1>2. /\ freeIP6' = freeIP6 \ {backend.vtep6}
      /\ agents' = [agents EXCEPT ![a] = agent]
      /\ AllocateSubnets(NoOverlays, alloc)
      /\ Update([type |-> "add", ip |-> a, info |-> agents'[a].overlays], agents')
  BY <1>1 DEF RegisterNew
<1>3. /\ Lowest(freeIP) \in freeIP /\ freeIP \subseteq VtepIPs /\ freeIP6 \subseteq VtepIP6s
      /\ config.network6 => Lowest(freeIP6) \in freeIP6
  BY <1>0, <1>1, FreePoolsNat, LowestInSet DEF TypeOK
<1>4. backend \in BackendInfo /\ backend # None
  BY <1>3, AbsentAssumption DEF BackendInfo
<1>5. config.network6 => backend.vtep6 # None
  BY <1>3, NetworksAssumption, NoneAssumption
<1>6. backend = [vtep |-> backend.vtep, vtep6 |-> backend.vtep6]
      /\ backend.vtep = Lowest(freeIP)
  OBVIOUS
<1> HIDE DEF backend
<1>7. x \in AgentInfo
  <2>1. NoOverlays \in AgentInfo
    BY DEF NoOverlays, AgentInfo
  <2> QED BY <1>4, <2>1, WithOverlaysType
<1>8. Added(NoOverlays, alloc) = config.enabled /\ Missing(NoOverlays) = config.enabled
  <2>1. Names(NoOverlays) = {}
    BY DEF Names, NoOverlays
  <2>2. Missing(NoOverlays) = config.enabled
    BY <2>1 DEF Missing
  <2> QED BY <1>1, <2>2 DEF Added
<1>9. ASSUME NEW o \in config.enabled
      PROVE  /\ x[o] = NewOverlay(o, backend, alloc) /\ o \in Names(x)
             /\ x[o].vtep = backend.vtep /\ x[o].vtep6 = backend.vtep6
  <2>1. o \in Overlays
    BY <1>1
  <2>2. x[o] = NewOverlay(o, backend, alloc)
    BY <1>8, <2>1 DEF WithOverlays
  <2>3. NewOverlay(o, backend, alloc) \in OverlayInfo
    BY <1>4, <2>1, NewOverlayType
  <2>4. x[o] # None
    BY <2>2, <2>3, AbsentAssumption
  <2>5. x[o].vtep = backend.vtep /\ x[o].vtep6 = backend.vtep6
    BY <2>2 DEF NewOverlay
  <2> HIDE DEF x
  <2> QED BY <2>1, <2>2, <2>4, <2>5 DEF Names
<1>10. Names(x) = config.enabled
  <2>1. \A o \in Overlays : o \notin config.enabled => x[o] = None
    BY <1>8 DEF WithOverlays, NoOverlays
  <2> HIDE DEF x
  <2> QED BY <1>9, <2>1 DEF Names
<1>11. agent \in Agent /\ agent.backend = backend /\ agent.overlays = x
  BY <1>4, <1>7 DEF Agent
<1> HIDE DEF x
<1>12. WholeAgent(agent, config)
  <2>1. Whole(x, config)
    BY <1>5, <1>9, <1>10 DEF Whole
  <2>2. backend \in BackendsOf(x)
    BY <1>1, <1>6, <1>9, <1>10 DEF BackendsOf
  <2> QED BY <1>11, <2>1, <2>2 DEF WholeAgent
<1> HIDE DEF agent
<1>13. agents'[a] = agent /\ \A b \in AgentIPs : b # a => agents'[b] = agents[b]
  BY <1>2 DEF TypeOK
<1>14. agent # None
  BY <1>11, AbsentAssumption
<1>15. ASSUME NEW o \in Overlays
       PROVE  /\ Conserved(InitialPool(o), HeldSubnets(agents, o), freeNetworks[o])'
              /\ Conserved(InitialPool6(o), HeldSubnets6(agents, o), freeNetworks6[o])'
  <2>1. /\ HeldSubnets(agents, o)[a] = {} /\ HeldSubnets6(agents, o)[a] = {}
        /\ \A b \in AgentIPs : b # a =>
              /\ HeldSubnets(agents', o)[b] = HeldSubnets(agents, o)[b]
              /\ HeldSubnets6(agents', o)[b] = HeldSubnets6(agents, o)[b]
    BY <1>0, <1>13 DEF HeldSubnets, HeldSubnets6
  <2>2. o \in Names(x) =>
            /\ HeldSubnets(agents', o)[a] = {x[o].subnet} \ {None}
            /\ HeldSubnets6(agents', o)[a] = {x[o].subnet6} \ {None}
    BY <1>11, <1>13, <1>14 DEF HeldSubnets, HeldSubnets6, Names
  <2>3. None \notin freeNetworks[o] /\ None \notin freeNetworks6[o]
    BY FreePoolsNat, NoneAssumption
  <2>4. ASSUME NEW n \in freeNetworks[o]
        PROVE  n \in freeNetworks'[o] \/ n \in HeldSubnets(agents', o)[a]
    <3> SUFFICES ASSUME n \notin freeNetworks'[o]
                 PROVE  n \in HeldSubnets(agents', o)[a]
      OBVIOUS
    <3>1. o \in config.enabled /\ Takes(o, alloc) /\ n = Lowest(freeNetworks[o])
      BY <1>2, <1>8 DEF AllocateSubnets
    <3>2. NewOverlay(o, backend, alloc).subnet = n
      BY <3>1 DEF NewOverlay
    <3>3. x[o].subnet = n /\ o \in Names(x)
      BY <1>9, <3>1, <3>2
    <3> QED BY <2>2, <2>3, <3>3
  <2>5. ASSUME NEW n \in freeNetworks6[o]
        PROVE  n \in freeNetworks6'[o] \/ n \in HeldSubnets6(agents', o)[a]
    <3> SUFFICES ASSUME n \notin freeNetworks6'[o]
                 PROVE  n \in HeldSubnets6(agents', o)[a]
      OBVIOUS
    <3>1. o \in config.enabled /\ Takes6(o, alloc) /\ n = Lowest(freeNetworks6[o])
      BY <1>2, <1>8 DEF AllocateSubnets
    <3>2. NewOverlay(o, backend, alloc).subnet6 = n
      BY <3>1 DEF NewOverlay
    <3>3. x[o].subnet6 = n /\ o \in Names(x)
      BY <1>9, <3>1, <3>2
    <3> QED BY <2>2, <2>3, <3>3
  <2>6. /\ Conserved(InitialPool(o), HeldSubnets(agents, o), freeNetworks[o])
        /\ Conserved(InitialPool6(o), HeldSubnets6(agents, o), freeNetworks6[o])
    BY DEF NothingLeaks
  <2> QED BY <2>1, <2>4, <2>5, <2>6, TakenConserved
<1>16. Conserved(VtepIPs, HeldVteps(agents), freeIP)'
  <2>1. HeldVteps(agents)[a] = {}
        /\ \A b \in AgentIPs : b # a => HeldVteps(agents')[b] = HeldVteps(agents)[b]
    BY <1>0, <1>13 DEF HeldVteps
  <2>2. backend.vtep \in HeldVteps(agents')[a]
    BY <1>4, <1>11, <1>13, <1>14 DEF HeldVteps, BackendVteps
  <2>3. Conserved(VtepIPs, HeldVteps(agents), freeIP)
    BY DEF NothingLeaks
  <2> QED BY <1>0, <1>6, <2>1, <2>2, <2>3, TakenConserved
<1>17. Conserved(InitialFreeIP6(config), HeldVtep6s(agents), freeIP6)'
  <2>1. HeldVtep6s(agents)[a] = {}
        /\ \A b \in AgentIPs : b # a => HeldVtep6s(agents')[b] = HeldVtep6s(agents)[b]
    BY <1>0, <1>13 DEF HeldVtep6s
  <2>2. backend.vtep6 # None => backend.vtep6 \in HeldVtep6s(agents')[a]
    BY <1>4, <1>11, <1>13, <1>14 DEF HeldVtep6s, BackendVtep6s
  <2>3. None \notin freeIP6
    BY FreePoolsNat, NoneAssumption
  <2>4. Conserved(InitialFreeIP6(config), HeldVtep6s(agents), freeIP6)
    BY DEF NothingLeaks
  <2>5. \A n \in freeIP6 : n \in freeIP6' \/ n \in HeldVtep6s(agents')[a]
    BY <1>2, <2>2, <2>3
  <2>6. Conserved(InitialFreeIP6(config), HeldVtep6s(agents'), freeIP6')
    BY <2>1, <2>4, <2>5, TakenConserved
  <2> QED BY <1>0, <2>6
<1>18. NothingLeaks'
  BY <1>15, <1>16, <1>17 DEF NothingLeaks
<1> QED BY <1>2, <1>11, <1>12, <1>13, <1>14, <1>18

\* The parts of LogInv that the proofs below use, once the log was recovered.
LEMMA LogParts ==
  ASSUME Steady, LogInv
  PROVE  /\ TypeOK /\ MemoryExclusive /\ LogFacts /\ UseLog
         /\ config.enabled # {} /\ config.enabled \subseteq Overlays
         /\ ~stored => Fresh
         /\ stored => StoreInv /\ Covered /\ PurgesInv /\ GrowsInv
         /\ inflight # None => stored
         /\ networkState \in NetworkState /\ log \in NetworkState
         /\ InflightState \in NetworkState /\ InflightOps \in Seq(Operation)
         /\ mailbox \in Seq(Operation) /\ operations \in Seq(Operation)
<1>1. TypeOK /\ MemoryExclusive /\ LogFacts
  BY DEF LogInv
<1>2. UseLog /\ config.enabled # {} /\ config.enabled \subseteq Overlays
  BY <1>1, SteadyConfig
<1> QED BY <1>1, <1>2, InflightType, StoringStored DEF LogFacts, QueueInv, TypeOK

\* registerAgent of an agent that is not in the agents map.
LEMMA RegisterNewFacts ==
  ASSUME GoneOnly, Steady, Enough, LogInv, RecordFacts, NothingLeaks,
         NEW a \in AgentIPs, NEW alloc, RegisterNew(a, alloc)
  PROVE  RecordFacts' /\ NothingLeaks'
<1> DEFINE op == [type |-> "add", ip |-> a, info |-> agents'[a].overlays]
<1>0. /\ TypeOK /\ UseLog /\ WholeInv /\ OrderInv /\ DurableInv /\ ToldInv
      /\ networkState \in NetworkState
  BY LogParts DEF RecordFacts
<1>1. stored /\ ~Gone(a) /\ agents[a] = None
  BY <1>0 DEF RegisterNew, CanRegister, Recovered
<1>2. StoreInv /\ Covered
  BY <1>1, LogParts
<1>3. UNCHANGED <<config, stored, log, told, known>>
  BY DEF RegisterNew, durable, environment
<1>4. /\ agents'[a] \in Agent /\ agents'[a] # None /\ WholeAgent(agents'[a], config)
      /\ \A b \in AgentIPs : b # a => agents'[b] = agents[b]
      /\ Update(op, agents') /\ NothingLeaks'
  BY <1>0, NewAgent
<1>5. ~Doomed(a)
  BY <1>0, <1>1, NotGone DEF Doomed
<1>6. /\ op \in Operation /\ Whole(op.info, config) /\ op.type # "modify"
      /\ \A b : (IsWrite(op, b) <=> b = a) /\ ~IsPurge(op, b)
      /\ op.type = "add" /\ op.ip = a
  BY <1>4 DEF Operation, Agent, WholeAgent, IsWrite, IsPurge
<1>7. a \in Present(agents')
  BY <1>4 DEF Present
<1> HIDE DEF op
<1>8. Writes(mailbox, a) = {} /\ Writes(InflightOps, a) = {}
  BY <1>0, <1>1 DEF OrderInv
<1>9. CASE inflight = None
  <2> DEFINE ns == Perform(op, networkState, Present(agents'))
  <2>1. operations = <<>> /\ InflightOps = <<>>
    BY <1>2, <1>9 DEF StoreInv, InflightOps
  <2>2. /\ UNCHANGED <<networkState, mailbox, operations>>
        /\ inflight' # None
        /\ InflightState' = ns
        /\ \A b : /\ Writes(InflightOps', b)
                          = (IF IsWrite(op, b) THEN {op.info} ELSE {})
                  /\ ~Purges(InflightOps', b)
                  /\ PurgeLast(InflightOps', b)
    BY <1>0, <1>4, <1>6, <1>9, <2>1, UpdateFirst
  <2>3. \A b : Writes(operations', b) = {} /\ ~Purges(operations', b)
    BY <2>1, <2>2, Nothing
  <2>4. \A b \in AgentIPs : Doomed(b)' <=> Doomed(b)
    BY <2>1, <2>2, <2>3, Nothing DEF Doomed
  <2>5. ASSUME NEW b \in AgentIPs
        PROVE  /\ Recs(ns, b) \subseteq Recs(networkState, b)
                        \cup (IF IsWrite(op, b) THEN {op.info} ELSE {})
               /\ networkState[b] # <<>> => ns[b] # <<>>
    BY <1>0, <1>6, PerformRecs, PerformKeeps
  <2>6. ns[a] # <<>>
    BY <1>0, <1>6, <1>7, PerformKeeps
  <2> HIDE DEF ns
  <2>7. WholeInv'
    <3>1. \A b \in AgentIPs : \A x \in Recs(ns, b) : Whole(x, config)
      BY <1>0, <1>6, <2>5 DEF WholeInv
    <3>2. DOMAIN operations' = {}
      BY <2>1, <2>2
    <3> QED BY <1>0, <1>3, <1>4, <2>2, <2>3, <3>1, <3>2 DEF WholeInv
  <2>8. OrderInv'
    BY <1>0, <1>4, <1>5, <1>6, <2>2 DEF OrderInv, Doomed
  <2>9. DurableInv'
    BY <1>0, <1>3, <1>6, <2>2, <2>4, <2>5, <2>6 DEF DurableInv
  <2>10. ToldInv'
    BY <1>0, <1>3, <2>2, <2>4, KeptTold
  <2> QED BY <1>4, <2>7, <2>8, <2>9, <2>10 DEF RecordFacts
<1>10. CASE inflight # None
  <2>1. /\ UNCHANGED <<networkState, mailbox, inflight>>
        /\ InflightState' = InflightState /\ InflightOps' = InflightOps
        /\ \A b : /\ Writes(operations', b) = Writes(operations, b)
                          \cup (IF IsWrite(op, b) THEN {op.info} ELSE {})
                  /\ Purges(operations', b) <=> Purges(operations, b)
        /\ \A i \in DOMAIN operations' : operations'[i].type # "modify"
    <3>1. \A i \in DOMAIN operations : operations[i].type # "modify"
      BY <1>0 DEF WholeInv
    <3> QED BY <1>0, <1>4, <1>6, <1>10, <3>1, UpdateQueued
  <2>2. \A b \in AgentIPs : Doomed(b)' <=> Doomed(b)
    BY <2>1 DEF Doomed
  <2>3. WholeInv'
    BY <1>0, <1>3, <1>4, <1>6, <2>1 DEF WholeInv
  <2>4. OrderInv'
    BY <1>0, <1>4, <1>8, <2>1 DEF OrderInv
  <2>5. DurableInv'
    BY <1>0, <1>3, <2>1, <2>2 DEF DurableInv
  <2>6. ToldInv'
    BY <1>0, <1>3, <2>1, <2>2, KeptTold
  <2> QED BY <1>4, <2>3, <2>4, <2>5, <2>6 DEF RecordFacts
<1> QED BY <1>9, <1>10

\* registerAgent of a known agent has nothing to allocate: it answers with
\* what the agent has, if that is stored.
LEMMA RegisterKnownFacts ==
  ASSUME GoneOnly, Steady, LogInv, RecordFacts, NothingLeaks,
         NEW a \in AgentIPs, NEW alloc, RegisterKnown(a, alloc)
  PROVE  RecordFacts' /\ NothingLeaks'
<1> DEFINE needs6 == config.network6 /\ agents[a].backend.vtep6 = None
           has == agents[a].overlays
<1>0. /\ TypeOK /\ UseLog /\ WholeInv /\ OrderInv /\ DurableInv /\ ToldInv
      /\ config.enabled # {}
  BY LogParts DEF RecordFacts
<1>1. /\ stored /\ agents[a] # None /\ agents[a] \in Agent
      /\ UNCHANGED <<config, stored, freeIP, log>>
  BY <1>0 DEF RegisterKnown, CanRegister, Recovered, durable, TypeOK
<1>2. /\ has \in AgentInfo /\ Names(has) = config.enabled
      /\ config.network6 => \A o \in Names(has) : has[o].vtep6 # None
      /\ agents[a].backend \in BackendsOf(has)
  BY <1>0, <1>1 DEF WholeInv, WholeAgent, Whole, Agent
<1>3. ~needs6
  <2>1. PICK o \in Names(has) :
            agents[a].backend = [vtep |-> has[o].vtep, vtep6 |-> has[o].vtep6]
    BY <1>0, <1>2 DEF BackendsOf
  <2> QED BY <1>2, <2>1
<1>4. Missing(has) = {} /\ Added(has, alloc) = {}
  BY <1>2 DEF Missing, Added
<1>5. WithOverlays(has, agents[a].backend, alloc) = has
  BY <1>2, <1>4 DEF WithOverlays, AgentInfo
<1>6. /\ freeIP6' = IF needs6 THEN freeIP6 \ {Lowest(freeIP6)} ELSE freeIP6
      /\ agents' = [agents EXCEPT ![a] =
            [backend |-> IF needs6
                         THEN [agents[a].backend EXCEPT !.vtep6 = Lowest(freeIP6)]
                         ELSE agents[a].backend,
             overlays |-> WithOverlays(has, IF needs6
                         THEN [agents[a].backend EXCEPT !.vtep6 = Lowest(freeIP6)]
                         ELSE agents[a].backend, alloc)]]
      /\ AllocateSubnets(has, alloc)
      /\ Added(has, alloc) = {} =>
            /\ IF networkState[a] # <<>> THEN SendUpdate(agents', a)
                                         ELSE UNCHANGED <<told, known>>
            /\ UNCHANGED <<networkState, storage>>
  BY DEF RegisterKnown
<1>7. agents' = agents
  <2>1. agents' = [agents EXCEPT ![a] =
                    [backend |-> agents[a].backend, overlays |-> agents[a].overlays]]
    BY <1>3, <1>5, <1>6
  <2>2. [backend |-> agents[a].backend, overlays |-> agents[a].overlays] = agents[a]
    BY <1>1 DEF Agent
  <2> QED BY <1>0, <2>1, <2>2 DEF TypeOK
<1>8. UNCHANGED <<freeIP6, freeNetworks, freeNetworks6>>
  BY <1>0, <1>3, <1>4, <1>6 DEF AllocateSubnets, TypeOK
<1>9. UNCHANGED <<networkState, operations, inflight, mailbox>>
  BY <1>4, <1>6 DEF storage
<1>10. \A b \in AgentIPs : Doomed(b)' => Doomed(b)
  BY <1>9 DEF Doomed, InflightOps
<1> HIDE DEF needs6, has
<1>11. ToldInv'
  <2>1. CASE networkState[a] = <<>>
    BY <1>0, <1>1, <1>4, <1>6, <1>9, <1>10, <2>1, KeptTold
  <2>2. CASE networkState[a] # <<>>
    BY <1>0, <1>1, <1>4, <1>6, <1>7, <1>9, <1>10, <2>2, SentTold
  <2> QED BY <2>1, <2>2
<1>12. RecordFacts'
  BY <1>0, <1>1, <1>7, <1>9, <1>11, KeptRecords
<1>13. NothingLeaks'
  BY <1>1, <1>7, <1>8 DEF NothingLeaks
<1> QED BY <1>12, <1>13

\* agentRegistered changes statuses.
LEMMA AgentRegisteredFacts ==
  ASSUME GoneOnly, Steady, LogInv, RecordFacts, NothingLeaks, NEW a \in AgentIPs,
         NEW status \in [Overlays -> Statuses], AgentRegistered(a, status)
  PROVE  RecordFacts' /\ NothingLeaks'
<1> DEFINE reported == [o \in Overlays |->
                IF o \in known[a]
                THEN [agents[a].overlays[o] EXCEPT !.status = status[o]]
                ELSE agents[a].overlays[o]]
           agent == [agents[a] EXCEPT !.overlays = reported]
<1>0. /\ TypeOK /\ UseLog /\ WholeInv /\ OrderInv /\ DurableInv /\ ToldInv
      /\ networkState \in NetworkState
      /\ agents[a] \in Agent /\ agents[a] # None
      /\ agents[a].overlays \in AgentInfo
      /\ known[a] \subseteq Names(agents[a].overlays)
  BY LogParts DEF RecordFacts, TypeOK, AgentRegistered, Agent
<1>1. UNCHANGED <<config, stored, log, freeIP, freeIP6, freeNetworks,
                  freeNetworks6, operations, inflight, mailbox, told, known>>
  BY DEF AgentRegistered, durable, pools, storage, environment
<1>2. agents' = [agents EXCEPT ![a] = agent]
  BY <1>0 DEF AgentRegistered, TypeOK
<1>3. ASSUME NEW o \in Overlays
      PROVE  /\ reported[o] = None <=> agents[a].overlays[o] = None
             /\ reported[o] # None =>
                  /\ reported[o].subnet = agents[a].overlays[o].subnet
                  /\ reported[o].subnet6 = agents[a].overlays[o].subnet6
                  /\ reported[o].vtep = agents[a].overlays[o].vtep
                  /\ reported[o].vtep6 = agents[a].overlays[o].vtep6
  <2>1. CASE o \in known[a]
    <3>1. agents[a].overlays[o] \in OverlayInfo /\ agents[a].overlays[o] # None
      BY <1>0, <2>1 DEF Names, AgentInfo
    <3>2. reported[o] = [agents[a].overlays[o] EXCEPT !.status = status[o]]
      BY <2>1
    <3>3. reported[o] \in OverlayInfo
      BY <3>1, <3>2 DEF OverlayInfo
    <3>4. reported[o] # None
      BY <3>3, AbsentAssumption
    <3> QED BY <3>1, <3>2, <3>3, <3>4 DEF OverlayInfo
  <2>2. CASE o \notin known[a]
    BY <2>2
  <2> QED BY <2>1, <2>2
<1>4. agent.overlays = reported /\ agent.backend = agents[a].backend /\ agent # None
  <2>1. agent.overlays = reported /\ agent.backend = agents[a].backend
    BY <1>0 DEF Agent
  <2>2. agent \in [backend : {agents[a].backend}, overlays : {reported}]
    BY <1>0 DEF Agent
  <2>3. reported \in AgentInfo
    <3> SUFFICES ASSUME NEW o \in Overlays, o \in known[a]
                 PROVE  [agents[a].overlays[o] EXCEPT !.status = status[o]] \in OverlayInfo
      BY <1>0 DEF AgentInfo
    <3>1. agents[a].overlays[o] \in OverlayInfo
      BY <1>0 DEF Names, AgentInfo
    <3> QED BY <3>1 DEF OverlayInfo
  <2>4. agent \in Agent
    BY <1>0, <2>2, <2>3 DEF Agent
  <2> QED BY <2>1, <2>4, AbsentAssumption
<1> HIDE DEF reported
<1>5. Alike(agents[a].overlays, reported)
  BY <1>3 DEF Alike, Within, Names
<1> HIDE DEF agent
<1>6. agents'[a] = agent /\ \A b \in AgentIPs : b # a => agents'[b] = agents[b]
  BY <1>0, <1>2 DEF TypeOK
<1>7. WholeAgent(agents'[a], config) /\ Whole(reported, config)
  <2>1. WholeAgent(agents[a], config)
    BY <1>0 DEF WholeInv
  <2> QED BY <1>4, <1>5, <1>6, <2>1, AlikeRecords DEF WholeAgent
<1>8. ASSUME NEW b \in AgentIPs
      PROVE  /\ networkState'[b] = <<>> <=> networkState[b] = <<>>
             /\ Recs(networkState', b) \subseteq Recs(networkState, b)
                    \cup (IF b = a THEN {reported} ELSE {})
  <2>0. networkState' = IF networkState[a] = <<>> THEN networkState
                        ELSE [networkState EXCEPT ![a] =
                                  [networkState[a] EXCEPT ![1] = agents'[a].overlays]]
    BY <1>0 DEF AgentRegistered, NetworkState
  <2>1. networkState' = IF networkState[a] = <<>> THEN networkState
                        ELSE [networkState EXCEPT ![a] =
                                  [networkState[a] EXCEPT ![1] = reported]]
    BY <1>4, <1>6, <2>0
  <2>2. CASE networkState[a] = <<>> \/ b # a
    <3>1. networkState'[b] = networkState[b]
      BY <1>0, <2>1, <2>2 DEF NetworkState
    <3> QED BY <3>1 DEF Recs
  <2>3. CASE networkState[a] # <<>> /\ b = a
    <3>1. networkState'[a] = [networkState[a] EXCEPT ![1] = reported]
      BY <1>0, <2>1, <2>3 DEF NetworkState
    <3>2. /\ networkState[a] \in Seq(AgentInfo) /\ Len(networkState[a]) \in Nat
          /\ DOMAIN networkState[a] = 1..Len(networkState[a])
      BY <1>0, LenProperties DEF NetworkState
    <3>3. 1 \in DOMAIN networkState[a]
      BY <2>3, <3>2, EmptySeq
    <3>4. /\ DOMAIN networkState'[a] = DOMAIN networkState[a]
          /\ \A i \in DOMAIN networkState[a] :
                networkState'[a][i] = IF i = 1 THEN reported ELSE networkState[a][i]
      BY <3>1, <3>3
    <3>5. 1 \notin DOMAIN <<>>
      OBVIOUS
    <3>6. networkState'[a] # <<>>
      BY <3>3, <3>4, <3>5
    <3>7. Recs(networkState', a) \subseteq Recs(networkState, a) \cup {reported}
      BY <3>4 DEF Recs
    <3> QED BY <2>3, <3>6, <3>7
  <2> QED BY <2>2, <2>3
<1>9. InflightState' = InflightState /\ InflightOps' = InflightOps
  BY <1>1 DEF InflightState, InflightOps
<1>10. \A b \in AgentIPs : Doomed(b)' <=> Doomed(b)
  BY <1>1, <1>9 DEF Doomed
<1>11. WholeInv'
  <2>1. \A b \in AgentIPs : \A x \in Recs(networkState', b) : Whole(x, config)
    BY <1>0, <1>7, <1>8 DEF WholeInv
  <2> QED BY <1>0, <1>1, <1>6, <1>7, <1>9, <2>1 DEF WholeInv
<1>12. OrderInv'
  BY <1>0, <1>1, <1>4, <1>6, <1>9 DEF OrderInv
<1>13. DurableInv'
  BY <1>0, <1>1, <1>8, <1>9, <1>10 DEF DurableInv
<1>14. ToldInv'
  BY <1>0, <1>1, <1>8, <1>10 DEF ToldInv
<1>15. NothingLeaks'
  <2>1. \A b \in AgentIPs :
            /\ agents[b] = None <=> agents'[b] = None
            /\ agents[b] # None => /\ Alike(agents[b].overlays, agents'[b].overlays)
                                   /\ agents[b].backend = agents'[b].backend
    BY <1>0, <1>4, <1>5, <1>6, WithinItself DEF Alike
  <2>2. /\ \A o \in Overlays : /\ HeldSubnets(agents', o) = HeldSubnets(agents, o)
                               /\ HeldSubnets6(agents', o) = HeldSubnets6(agents, o)
        /\ HeldVteps(agents') = HeldVteps(agents)
        /\ HeldVtep6s(agents') = HeldVtep6s(agents)
    BY <2>1, AlikeHeld
  <2> QED BY <1>1, <2>2 DEF NothingLeaks
<1> QED BY <1>11, <1>12, <1>13, <1>14, <1>15 DEF RecordFacts

-----------------------------------------------------------------------------
(* The store and its continuations *)

\* A store that lands makes the log the State that was in flight.
LEMMA StoreLandsFacts ==
  ASSUME Steady, LogInv, RecordFacts, NothingLeaks, StoreLands
  PROVE  RecordFacts' /\ NothingLeaks'
<1>0. /\ TypeOK /\ WholeInv /\ OrderInv /\ DurableInv /\ ToldInv
      /\ inflight # None /\ stored /\ GrowsInv /\ inflight \in Store
      /\ log \in NetworkState /\ InflightState \in NetworkState
  BY LogParts DEF RecordFacts, StoreLands, TypeOK
<1>1. /\ log' = inflight.state /\ inflight' = [inflight EXCEPT !.landed = TRUE]
      /\ UNCHANGED <<config, stored, agents, freeIP, freeIP6, freeNetworks,
                     freeNetworks6, networkState, operations, mailbox, told, known>>
  BY DEF StoreLands, pools, environment
<1>2. /\ inflight' \in Store /\ inflight'.state = inflight.state
      /\ inflight'.ops = inflight.ops
  BY <1>0, <1>1 DEF Store
<1>3. /\ InflightState' = InflightState /\ InflightOps' = InflightOps
      /\ log' = InflightState
  BY <1>0, <1>1, <1>2, AbsentAssumption DEF InflightState, InflightOps
<1>4. \A a \in AgentIPs : Doomed(a)' <=> Doomed(a)
  BY <1>1, <1>3 DEF Doomed
<1>5. WholeInv'
  BY <1>0, <1>1, <1>3 DEF WholeInv
<1>6. OrderInv'
  BY <1>0, <1>1, <1>3 DEF OrderInv
<1>7. DurableInv'
  BY <1>0, <1>1, <1>3, <1>4 DEF DurableInv
<1>8. ToldInv'
  <2>1. ASSUME NEW a \in AgentIPs, told[a] # None
        PROVE  /\ InflightState[a] # <<>>
               /\ ClearStatus(InflightState[a][1]) = ClearStatus(log[a][1])
    <3> DEFINE x == log[a][1]
               y == InflightState[a][1]
    <3>1. log[a] # <<>> /\ InflightState[a] # <<>>
      BY <1>0, <2>1 DEF ToldInv, DurableInv
    <3>2. /\ x \in Recs(log, a) /\ y \in Recs(InflightState, a)
          /\ x \in AgentInfo /\ y \in AgentInfo
      BY <1>0, <3>1, SingleRecs
    <3> HIDE DEF x, y
    <3>3. Within(x, y) /\ Names(x) = config.enabled /\ Names(y) = config.enabled
      BY <1>0, <3>2 DEF GrowsInv, AllWithin, WholeInv, Whole
    <3>4. ClearStatus(x) = ClearStatus(y)
      BY <3>2, <3>3, SameCleared
    <3> QED BY <3>1, <3>4 DEF x, y
  <2> QED BY <1>0, <1>1, <1>3, <1>4, <2>1 DEF ToldInv
<1>9. NothingLeaks'
  BY <1>1 DEF NothingLeaks
<1> QED BY <1>5, <1>6, <1>7, <1>8, <1>9 DEF RecordFacts

\* _store stores what was queued, for agents that are all in the agents map.
LEMMA StoredFacts ==
  ASSUME Steady, LogInv, RecordFacts, NothingLeaks, Stored
  PROVE  RecordFacts' /\ NothingLeaks'
<1> DEFINE next == PerformAll(operations, inflight.state, Present(agents))
<1>0. /\ TypeOK /\ WholeInv /\ OrderInv /\ DurableInv /\ ToldInv
      /\ inflight # None /\ stored /\ StoreInv /\ Covered /\ PurgesInv
      /\ inflight.landed /\ mailbox = <<>>
      /\ InflightState \in NetworkState /\ operations \in Seq(Operation)
  BY LogParts DEF RecordFacts, Stored, StoreDone
<1>1. /\ networkState' = inflight.state /\ mailbox' = inflight.ops
      /\ inflight' = NextWrite /\ operations' = <<>>
      /\ UNCHANGED <<config, stored, agents, freeIP, freeIP6, freeNetworks,
                     freeNetworks6, log, told, known>>
  BY DEF Stored, pools, durable, environment
<1>2. /\ InflightState = inflight.state /\ InflightOps = inflight.ops
      /\ log = InflightState
  BY <1>0 DEF StoreInv, InflightState, InflightOps
<1>3. next \in NetworkState
  BY <1>0, <1>2, PerformAllType
<1>4. \/ /\ inflight' = None /\ InflightState' = NoRecords /\ InflightOps' = operations
         /\ operations = <<>>
      \/ /\ inflight' # None /\ InflightState' = next /\ InflightOps' = operations
  <2>1. CASE operations = <<>>
    BY <1>1, <2>1 DEF NextWrite, InflightState, InflightOps
  <2>2. CASE operations # <<>>
    <3>1. inflight' = [state |-> next, ops |-> operations, landed |-> FALSE]
      BY <1>1, <2>2 DEF NextWrite, Write
    <3>2. inflight' \in Store
      BY <1>0, <1>3, <3>1 DEF Store
    <3>3. inflight' # None
      BY <3>2, AbsentAssumption
    <3> QED BY <3>1, <3>3 DEF InflightState, InflightOps
  <2> QED BY <2>1, <2>2
<1> HIDE DEF next
<1>5. InflightOps' = operations /\ mailbox' = InflightOps
  BY <1>1, <1>2, <1>4
<1>6. ASSUME NEW a \in AgentIPs
      PROVE  /\ Recs(next, a) \subseteq Recs(InflightState, a) \cup Writes(operations, a)
             /\ ~Purges(operations, a) =>
                  /\ InflightState[a] # <<>> => next[a] # <<>>
                  /\ Writes(operations, a) # {} => next[a] # <<>>
  <2>1. Recs(next, a) \subseteq Recs(InflightState, a) \cup Writes(operations, a)
    BY <1>0, <1>2, PerformAllRecs DEF next
  <2>2. ASSUME ~Purges(operations, a), InflightState[a] # <<>> PROVE next[a] # <<>>
    BY <1>0, <1>2, <2>2, PerformAllKeeps DEF next
  <2>3. ASSUME ~Purges(operations, a), Writes(operations, a) # {}
        PROVE  next[a] # <<>>
    <3>1. PICK i \in DOMAIN operations : IsWrite(operations[i], a)
      BY <2>3 DEF Writes
    <3>2. operations[i].type = "add" /\ operations[i].ip = a
      BY <1>0, <3>1 DEF WholeInv, IsWrite
    <3>3. a \in Present(agents)
      BY <1>0, <2>3 DEF Covered, HeldBy, Present
    <3> QED BY <1>0, <1>2, <2>3, <3>2, <3>3, PerformAllKeeps DEF next
  <2> QED BY <2>1, <2>2, <2>3
<1>7. \A a \in AgentIPs : Writes(operations', a) = {} /\ ~Purges(operations', a)
                          /\ Recs(NoRecords, a) = {} /\ ~Purges(mailbox, a)
  BY <1>0, <1>1, Nothing
<1>8. \A a \in AgentIPs : Doomed(a)' <=> Doomed(a)
  BY <1>5, <1>7 DEF Doomed
<1>9. WholeInv'
  <2>1. \A a \in AgentIPs : \A x \in Recs(InflightState', a) : Whole(x, config)
    BY <1>0, <1>4, <1>6, <1>7 DEF WholeInv
  <2>2. DOMAIN operations' = {}
    BY <1>1
  <2> QED BY <1>0, <1>1, <1>2, <1>7, <2>1, <2>2 DEF WholeInv
<1>10. OrderInv'
  <2>1. ASSUME NEW a \in AgentIPs
        PROVE  /\ PurgeLast(operations, a)
               /\ Purges(InflightOps, a) => Writes(operations, a) = {}
               /\ Writes(operations, a) # {} => agents[a] # None
    BY <1>0 DEF PurgesInv, PurgeLast, Covered, HeldBy
  <2> QED BY <1>0, <1>1, <1>5, <2>1 DEF OrderInv
<1>11. DurableInv'
  <2>1. ASSUME NEW a \in AgentIPs, ~Doomed(a)'
        PROVE  /\ Writes(InflightOps, a) # {} => InflightState[a] # <<>>
               /\ Writes(operations, a) # {} => InflightState'[a] # <<>>
               /\ inflight' # None /\ InflightState[a] # <<>> => InflightState'[a] # <<>>
    <3>1. ~Doomed(a) /\ ~Purges(operations, a)
      BY <1>8, <2>1 DEF Doomed
    <3>2. Writes(operations, a) # {} => operations # <<>>
      BY Nothing
    <3> QED BY <1>0, <1>4, <1>6, <3>1, <3>2 DEF DurableInv
  <2> QED BY <1>1, <1>2, <1>5, <2>1 DEF DurableInv
<1>12. ToldInv'
  BY <1>0, <1>1, <1>2, <1>8 DEF ToldInv
<1>13. NothingLeaks'
  BY <1>1 DEF NothingLeaks
<1> QED BY <1>9, <1>10, <1>11, <1>12, <1>13 DEF RecordFacts

\* _registerAgent of an agent that is in the agents map, and recorded.
LEMMA _registerAgentFacts ==
  ASSUME GoneOnly, Steady, LogInv, RecordFacts, NothingLeaks, _registerAgent
  PROVE  RecordFacts' /\ NothingLeaks'
<1> DEFINE a == Head(mailbox).ip
<1>0. /\ TypeOK /\ WholeInv /\ OrderInv /\ DurableInv /\ ToldInv
      /\ mailbox \in Seq(Operation) /\ mailbox # <<>>
  BY LogParts DEF RecordFacts, _registerAgent
<1>1. /\ stored
  <2>1. ~stored => mailbox = <<>>
    BY LogParts DEF Fresh
  <2> QED BY <1>0, <2>1
<1>2. /\ mailbox' = Tail(mailbox) /\ SendUpdate(agents, a)
      /\ UNCHANGED <<config, stored, agents, freeIP, freeIP6, freeNetworks,
                     freeNetworks6, networkState, operations, inflight, log>>
  BY DEF _registerAgent, pools, durable
<1>3. /\ a \in AgentIPs /\ agents[a] # None /\ IsWrite(Head(mailbox), a)
      /\ \A b : ~IsPurge(Head(mailbox), b)
  BY <1>0, TailType DEF _registerAgent, Operation, IsWrite, IsPurge
<1>4. InflightState' = InflightState /\ InflightOps' = InflightOps
  BY <1>2 DEF InflightState, InflightOps
<1>5. ASSUME NEW b \in AgentIPs
      PROVE  /\ Writes(mailbox', b) \subseteq Writes(mailbox, b)
             /\ Purges(mailbox', b) <=> Purges(mailbox, b)
             /\ PurgeLast(mailbox, b) => PurgeLast(mailbox', b)
  BY <1>0, <1>2, <1>3, HeadTail
<1>6. \A b \in AgentIPs : Doomed(b)' <=> Doomed(b)
  BY <1>2, <1>4, <1>5 DEF Doomed
<1>7. ~Gone(a) => networkState[a] # <<>>
  <2>1. Writes(mailbox, a) # {}
    BY <1>0, <1>3, HeadTail
  <2>2. ~Gone(a) => ~Doomed(a)
    BY <1>0, NotGone DEF Doomed
  <2> QED BY <1>0, <1>3, <2>1, <2>2 DEF DurableInv
<1> HIDE DEF a
<1>8. ToldInv'
  BY <1>0, <1>1, <1>2, <1>3, <1>6, <1>7, SentTold
<1>9. WholeInv'
  BY <1>0, <1>2, <1>4 DEF WholeInv
<1>10. OrderInv'
  BY <1>0, <1>2, <1>4, <1>5 DEF OrderInv
<1>11. DurableInv'
  BY <1>0, <1>2, <1>4, <1>5, <1>6 DEF DurableInv
<1>12. NothingLeaks'
  BY <1>2 DEF NothingLeaks
<1> QED BY <1>8, <1>9, <1>10, <1>11, <1>12 DEF RecordFacts

\* deallocateIP never refuses: what an agent holds is not free, nor another's.
LEMMA DeletionSucceeds ==
  ASSUME MemoryExclusive, NEW ips \in SUBSET AgentIPs PROVE ~DeletionFails(ips)
<1>1. \A d \in Deleted(ips) :
        /\ d \in AgentIPs
        /\ FreedIPs(d) \subseteq HeldVteps(agents)[d]
        /\ FreedIP6s(d) \subseteq HeldVtep6s(agents)[d]
  BY DEF Deleted, HeldVteps, HeldVtep6s, FreedIPs, FreedIP6s
<1> QED BY <1>1 DEF DeletionFails, MemoryExclusive, Separate

\* What an agent that is erased held goes back to the pools.
LEMMA GivenBack ==
  ASSUME NEW pool, NEW H, NEW H2, NEW F, NEW F2, Conserved(pool, H, F),
         F \subseteq F2,
         \A b \in AgentIPs : H2[b] = H[b] \/ H[b] \subseteq F2
  PROVE  Conserved(pool, H2, F2)
BY DEF Conserved

\* _deleteAgentsEndpoint of agents for which nothing more is to be written.
LEMMA _deleteAgentsEndpointFacts ==
  ASSUME Steady, LogInv, RecordFacts, NothingLeaks, _deleteAgentsEndpoint
  PROVE  RecordFacts' /\ NothingLeaks' /\ proc' = proc
<1> DEFINE ips == Head(mailbox).ips
<1>0. /\ TypeOK /\ WholeInv /\ OrderInv /\ DurableInv /\ ToldInv
      /\ mailbox \in Seq(Operation) /\ mailbox # <<>> /\ MemoryExclusive
      /\ config.enabled # {}
  BY LogParts DEF RecordFacts, _deleteAgentsEndpoint
<1>1. stored
  <2>1. ~stored => mailbox = <<>>
    BY LogParts DEF Fresh
  <2> QED BY <1>0, <2>1
<1>2. PurgesInv
  BY <1>1, LogParts
<1>3. ips \in SUBSET AgentIPs /\ \A b : IsPurge(Head(mailbox), b) <=> b \in ips
  BY <1>0, TailType DEF _deleteAgentsEndpoint, Operation, IsPurge
<1>4. ~DeletionFails(ips)
  BY <1>0, <1>3, DeletionSucceeds
<1>5. /\ Deallocate(Deleted(ips)) /\ agents' = Without(ips)
      /\ mailbox' = Tail(mailbox)
      /\ UNCHANGED <<proc, config, stored, networkState, operations, inflight, log,
                     told, known>>
  BY <1>4 DEF _deleteAgentsEndpoint, durable, environment
<1> HIDE DEF ips
<1>6. InflightState' = InflightState /\ InflightOps' = InflightOps
  BY <1>5 DEF InflightState, InflightOps
<1>7. ASSUME NEW b \in AgentIPs
      PROVE  /\ Writes(mailbox', b) \subseteq Writes(mailbox, b)
             /\ Purges(mailbox', b) => Purges(mailbox, b)
             /\ b \notin ips => (Purges(mailbox', b) <=> Purges(mailbox, b))
             /\ PurgeLast(mailbox', b)
             /\ b \in ips => /\ Purges(mailbox, b) /\ Writes(mailbox', b) = {}
                             /\ Writes(InflightOps, b) = {} /\ networkState[b] = <<>>
  BY <1>0, <1>2, <1>3, <1>5, HeadTail DEF OrderInv, PurgesInv
<1>8. \A b \in AgentIPs : /\ Doomed(b)' => Doomed(b)
                          /\ b \notin ips => (Doomed(b)' <=> Doomed(b))
  BY <1>5, <1>6, <1>7 DEF Doomed
<1>9. \A b \in AgentIPs : agents'[b] = IF b \in ips THEN None ELSE agents[b]
  BY <1>5 DEF Without
<1>10. WholeInv'
  BY <1>0, <1>5, <1>6, <1>9 DEF WholeInv
<1>11. OrderInv'
  BY <1>0, <1>5, <1>6, <1>7, <1>9 DEF OrderInv
<1>12. DurableInv'
  BY <1>0, <1>5, <1>6, <1>7, <1>8 DEF DurableInv
<1>13. ToldInv'
  BY <1>0, <1>5, <1>8, KeptTold
<1>14. \A b \in AgentIPs : b \in ips /\ agents[b] # None => b \in Deleted(ips)
  BY DEF Deleted
<1>15. /\ \A o \in Overlays :
            /\ freeNetworks'[o] = freeNetworks[o] \cup SubnetsOf(Deleted(ips), o)
            /\ freeNetworks6'[o] = freeNetworks6[o] \cup Subnets6Of(Deleted(ips), o)
       /\ freeIP' = freeIP \cup UNION {FreedIPs(b) : b \in Deleted(ips)}
       /\ freeIP6' = freeIP6 \cup UNION {FreedIP6s(b) : b \in Deleted(ips)}
  BY <1>5 DEF Deallocate
<1>16. ASSUME NEW o \in Overlays
       PROVE  /\ Conserved(InitialPool(o), HeldSubnets(agents', o), freeNetworks'[o])
              /\ Conserved(InitialPool6(o), HeldSubnets6(agents', o), freeNetworks6'[o])
  <2>1. ASSUME NEW b \in AgentIPs
        PROVE  /\ \/ HeldSubnets(agents', o)[b] = HeldSubnets(agents, o)[b]
                  \/ HeldSubnets(agents, o)[b] \subseteq freeNetworks'[o]
               /\ \/ HeldSubnets6(agents', o)[b] = HeldSubnets6(agents, o)[b]
                  \/ HeldSubnets6(agents, o)[b] \subseteq freeNetworks6'[o]
    <3>1. CASE b \notin ips
      BY <1>9, <3>1 DEF HeldSubnets, HeldSubnets6
    <3>2. CASE b \in ips
      <4>1. HeldSubnets(agents, o)[b] \subseteq SubnetsOf(Deleted(ips), o)
        BY <1>14, <3>2 DEF HeldSubnets, SubnetsOf
      <4>2. HeldSubnets6(agents, o)[b] \subseteq Subnets6Of(Deleted(ips), o)
        BY <1>14, <3>2 DEF HeldSubnets6, Subnets6Of
      <4> QED BY <1>15, <4>1, <4>2
    <3> QED BY <3>1, <3>2
  <2>2. /\ Conserved(InitialPool(o), HeldSubnets(agents, o), freeNetworks[o])
        /\ Conserved(InitialPool6(o), HeldSubnets6(agents, o), freeNetworks6[o])
        /\ freeNetworks[o] \subseteq freeNetworks'[o]
        /\ freeNetworks6[o] \subseteq freeNetworks6'[o]
    BY <1>15 DEF NothingLeaks
  <2> QED BY <2>1, <2>2, GivenBack
<1>17. /\ Conserved(VtepIPs, HeldVteps(agents'), freeIP')
       /\ Conserved(InitialFreeIP6(config), HeldVtep6s(agents'), freeIP6')
  <2>1. ASSUME NEW b \in AgentIPs
        PROVE  /\ \/ HeldVteps(agents')[b] = HeldVteps(agents)[b]
                  \/ HeldVteps(agents)[b] \subseteq freeIP'
               /\ \/ HeldVtep6s(agents')[b] = HeldVtep6s(agents)[b]
                  \/ HeldVtep6s(agents)[b] \subseteq freeIP6'
    <3>1. CASE b \notin ips \/ agents[b] = None
      BY <1>9, <3>1 DEF HeldVteps, HeldVtep6s
    <3>2. CASE b \in ips /\ agents[b] # None
      <4>1. /\ HeldVteps(agents)[b] = FreedIPs(b)
            /\ HeldVtep6s(agents)[b] = FreedIP6s(b)
        BY <1>0, <3>2, HoldsOne DEF WholeInv, FreedIPs, FreedIP6s
      <4> QED BY <1>14, <1>15, <3>2, <4>1
    <3> QED BY <3>1, <3>2
  <2>2. /\ Conserved(VtepIPs, HeldVteps(agents), freeIP)
        /\ Conserved(InitialFreeIP6(config), HeldVtep6s(agents), freeIP6)
        /\ freeIP \subseteq freeIP' /\ freeIP6 \subseteq freeIP6'
    BY <1>15 DEF NothingLeaks
  <2> QED BY <2>1, <2>2, GivenBack
<1>18. NothingLeaks'
  BY <1>5, <1>16, <1>17 DEF NothingLeaks
<1> QED BY <1>5, <1>10, <1>11, <1>12, <1>13, <1>18 DEF RecordFacts

\* deleteAgentsEndpoint queues a purge of agents that are gone.
LEMMA DeleteAgentsFacts ==
  ASSUME GoneOnly, Steady, LogInv, RecordFacts, NothingLeaks,
         NEW ips \in SUBSET AgentIPs, DeleteAgents(ips)
  PROVE  RecordFacts' /\ NothingLeaks'
<1> DEFINE op == [type |-> "delete", ips |-> ips]
<1>0. /\ TypeOK /\ UseLog /\ WholeInv /\ OrderInv /\ DurableInv /\ ToldInv
      /\ networkState \in NetworkState
  BY LogParts DEF RecordFacts
<1>1. /\ stored /\ Update(op, agents)
      /\ UNCHANGED <<config, stored, agents, freeIP, freeIP6, freeNetworks,
                     freeNetworks6, log>>
      /\ told' = [a \in AgentIPs |-> IF a \in ips THEN None ELSE told[a]]
      /\ known' = [a \in AgentIPs |-> IF a \in ips THEN {} ELSE known[a]]
  BY <1>0 DEF DeleteAgents, Recovered, pools, durable
<1>2. StoreInv
  BY <1>1, LogParts
<1>3. /\ op \in Operation /\ op.type # "modify"
      /\ \A b : ~IsWrite(op, b) /\ (IsPurge(op, b) <=> b \in ips)
  BY DEF Operation, IsWrite, IsPurge
<1> HIDE DEF op
<1>4. NothingLeaks'
  BY <1>1 DEF NothingLeaks
<1>5. ASSUME UNCHANGED networkState,
             \A b \in AgentIPs : Doomed(b)' <=> Doomed(b) \/ b \in ips
      PROVE  ToldInv'
  BY <1>0, <1>1, <1>5 DEF ToldInv
<1>6. CASE inflight = None
  <2> DEFINE ns == Perform(op, networkState, Present(agents))
  <2>1. operations = <<>> /\ InflightOps = <<>>
    BY <1>2, <1>6 DEF StoreInv, InflightOps
  <2>2. /\ UNCHANGED <<networkState, mailbox, operations>>
        /\ InflightState' = ns
        /\ \A b : /\ Writes(InflightOps', b) = {}
                  /\ Purges(InflightOps', b) <=> b \in ips
                  /\ PurgeLast(InflightOps', b)
    BY <1>0, <1>1, <1>3, <1>6, <2>1, UpdateFirst
  <2>3. \A b : Writes(operations', b) = {} /\ ~Purges(operations', b)
    BY <2>1, <2>2, Nothing
  <2>4. \A b \in AgentIPs : Doomed(b)' <=> Doomed(b) \/ b \in ips
    BY <2>1, <2>2, <2>3, Nothing DEF Doomed
  <2>5. ASSUME NEW b \in AgentIPs
        PROVE  /\ Recs(ns, b) \subseteq Recs(networkState, b)
               /\ b \notin ips /\ networkState[b] # <<>> => ns[b] # <<>>
    BY <1>0, <1>3, PerformRecs, PerformKeeps
  <2> HIDE DEF ns
  <2>6. WholeInv'
    <3>1. DOMAIN operations' = {}
      BY <2>1, <2>2
    <3> QED BY <1>0, <1>1, <2>2, <2>3, <2>5, <3>1 DEF WholeInv
  <2>7. OrderInv'
    BY <1>0, <1>1, <2>2 DEF OrderInv
  <2>8. DurableInv'
    BY <1>0, <1>1, <2>2, <2>4, <2>5 DEF DurableInv
  <2> QED BY <1>4, <1>5, <2>2, <2>4, <2>6, <2>7, <2>8 DEF RecordFacts
<1>7. CASE inflight # None
  <2>1. /\ UNCHANGED <<networkState, mailbox, inflight>>
        /\ InflightState' = InflightState /\ InflightOps' = InflightOps
        /\ \A b : /\ Writes(operations', b) = Writes(operations, b)
                  /\ Purges(operations', b) <=> Purges(operations, b) \/ b \in ips
        /\ \A i \in DOMAIN operations' : operations'[i].type # "modify"
    <3>1. \A i \in DOMAIN operations : operations[i].type # "modify"
      BY <1>0 DEF WholeInv
    <3> QED BY <1>0, <1>1, <1>3, <1>7, <3>1, UpdateQueued
  <2>2. \A b \in AgentIPs : Doomed(b)' <=> Doomed(b) \/ b \in ips
    BY <2>1 DEF Doomed
  <2>3. WholeInv'
    BY <1>0, <1>1, <2>1 DEF WholeInv
  <2>4. OrderInv'
    BY <1>0, <1>1, <2>1 DEF OrderInv
  <2>5. DurableInv'
    BY <1>0, <1>1, <2>1, <2>2 DEF DurableInv
  <2> QED BY <1>4, <1>5, <2>1, <2>2, <2>3, <2>4, <2>5 DEF RecordFacts
<1> QED BY <1>6, <1>7

-----------------------------------------------------------------------------
(* Recovery and restarts *)

\* A process that has fetched nothing yet, or an empty State.
LEMMA FreshQueues ==
  ASSUME Fresh
  PROVE  /\ InflightState = NoRecords /\ InflightOps = <<>>
         /\ \A a \in AgentIPs : /\ ~Doomed(a) /\ agents[a] = None
                                /\ Writes(mailbox, a) = {} /\ Writes(operations, a) = {}
                                /\ Writes(InflightOps, a) = {}
                                /\ PurgeLast(mailbox, a) /\ PurgeLast(InflightOps, a)
                                /\ networkState[a] = <<>> /\ Recs(networkState, a) = {}
                                /\ Recs(InflightState, a) = {}
         /\ DOMAIN operations = {}
<1>1. /\ mailbox = <<>> /\ operations = <<>> /\ InflightOps = <<>>
      /\ InflightState = NoRecords /\ networkState = NoRecords /\ agents = NoAgents
  BY DEF Fresh, InflightState, InflightOps
<1>2. DOMAIN <<>> = {}
  OBVIOUS
<1>3. \A a \in AgentIPs : ~Doomed(a) /\ PurgeLast(<<>>, a)
  BY <1>1, <1>2, Nothing DEF Doomed, PurgeLast
<1> QED BY <1>1, <1>2, <1>3, Nothing DEF NoAgents

\* What the log records and the agents know when a process starts.
Remembered ==
    \A a \in AgentIPs :
        /\ \A x \in Recs(log, a) : Whole(x, config)
        /\ told[a] # None => log[a] # <<>> /\ told[a] = ClearStatus(log[a][1])
        /\ known[a] \subseteq (IF told[a] = None THEN {} ELSE config.enabled)

\* A new process has nothing in memory, and all its pools are full.
LEMMA FreshFacts ==
  Fresh /\ ~stored /\ Remembered => RecordFacts /\ NothingLeaks
<1> SUFFICES ASSUME Fresh, ~stored, Remembered PROVE RecordFacts /\ NothingLeaks
  OBVIOUS
<1>1. WholeInv /\ OrderInv /\ DurableInv /\ ToldInv
  BY FreshQueues DEF Remembered, WholeInv, OrderInv, DurableInv, ToldInv
<1>2. NothingLeaks
  BY DEF Fresh, NothingLeaks, Conserved
<1> QED BY <1>1, <1>2 DEF RecordFacts

\* The first process.
LEMMA InitFacts ==
  ASSUME Init PROVE RecordFacts /\ NothingLeaks
<1>1. Fresh /\ ~stored /\ log = NoRecords /\ told = NoAgents
      /\ known = [a \in AgentIPs |-> {}]
  BY DEF Init, Fresh
<1> QED BY <1>1, FreshFacts, Nothing DEF NoAgents, Remembered

\* Every other process is started with the same configuration.
LEMMA StartFacts ==
  ASSUME Steady, LogInv, RecordFacts, NEW c \in Configs, Start(c)
  PROVE  RecordFacts' /\ NothingLeaks'
<1>0. WholeInv /\ ToldInv /\ c = config
  BY LogParts, SteadyConfig DEF RecordFacts
<1>1. Fresh' /\ ~stored' /\ UNCHANGED <<config, log, told, known>>
  BY <1>0 DEF Start, Fresh, durable
<1>2. Remembered'
  BY <1>0, <1>1 DEF WholeInv, ToldInv, Remembered
<1>3. (Fresh /\ ~stored /\ Remembered)' => (RecordFacts /\ NothingLeaks)'
  BY FreshFacts, PTL
<1> QED BY <1>1, <1>2, <1>3

\* What _recover makes of the log.
LEMMA RecoveredRecords ==
  ASSUME LogInv, TypeOK', Recover, NEW a \in AgentIPs
  PROVE  /\ \A x \in Recs(log, a) :
                /\ x \in AgentInfo /\ x = log[a][1]
                /\ agents'[a] # None /\ agents'[a].overlays = ClearStatus(x)
                /\ agents'[a].backend \in BackendsOf(x)
         /\ Recs(log, a) = {} => agents'[a] = None
         /\ Recs(log, a) = {} <=> log[a] = <<>>
         /\ \A y \in Recs(networkState', a) :
                \E x \in Recs(log, a) : y = ClearStatus(x)
         /\ networkState'[a] = <<>> <=> log[a] = <<>>
<1>0. TypeOK /\ LogFacts
  BY DEF LogInv
<1>1. PICK first \in [AgentIPs -> Backends(log) \cup {None}] :
        /\ \A b \in AgentIPs :
              first[b] \in IF log[b] = <<>> THEN {None}
                                            ELSE BackendsOf(log[b][1])
        /\ agents' = [b \in AgentIPs |->
              IF log[b] = <<>> THEN None
              ELSE [backend |-> first[b],
                    overlays |-> ClearStatus(log[b][1])]]
  BY DEF Recover
<1>2. /\ log \in NetworkState /\ networkState' \in NetworkState /\ Single(log)
  BY <1>0 DEF TypeOK, LogFacts, LogSound
<1>3. networkState'[a] = [i \in DOMAIN log[a] |-> ClearStatus(log[a][i])]
  BY DEF Recover
<1>4. Recs(log, a) = {} <=> log[a] = <<>>
  BY <1>2, SingleRecs
<1>5. ASSUME NEW x \in Recs(log, a)
      PROVE  /\ x \in AgentInfo /\ x = log[a][1]
             /\ agents'[a] # None /\ agents'[a].overlays = ClearStatus(x)
             /\ agents'[a].backend \in BackendsOf(x)
  <2>1. x \in AgentInfo /\ log[a] # <<>> /\ x = log[a][1]
    BY <1>2, SingleRecs
  <2>2. first[a] \in BackendInfo \cup {None}
    BY <1>1, <2>1 DEF BackendsOf, Names, AgentInfo, OverlayInfo, BackendInfo
  <2>3. agents'[a] = [backend |-> first[a], overlays |-> ClearStatus(x)]
    BY <1>1, <2>1
  <2>4. agents'[a] \in Agent
    BY <2>1, <2>2, <2>3, ClearStatusType DEF Agent
  <2>5. agents'[a] # None
    BY <2>4, AbsentAssumption
  <2> QED BY <1>1, <2>1, <2>3, <2>5
<1>6. DOMAIN networkState'[a] = DOMAIN log[a]
  BY <1>3
<1>7. ASSUME NEW y \in Recs(networkState', a)
      PROVE  \E x \in Recs(log, a) : y = ClearStatus(x)
  <2>1. PICK i \in DOMAIN networkState'[a] : y = networkState'[a][i]
    BY <1>7 DEF Recs
  <2>2. y = ClearStatus(log[a][i]) /\ log[a][i] \in Recs(log, a)
    BY <1>3, <1>6, <2>1 DEF Recs
  <2> QED BY <2>2
<1>8. networkState'[a] = <<>> <=> log[a] = <<>>
  <2>1. Recs(networkState', a) = {} <=> networkState'[a] = <<>>
    BY <1>2, SingleRecs
  <2>2. Recs(networkState', a) = {} <=> Recs(log, a) = {}
    BY <1>6 DEF Recs
  <2> QED BY <1>4, <2>1, <2>2
<1>9. Recs(log, a) = {} => agents'[a] = None
  BY <1>1, <1>4
<1> QED BY <1>4, <1>5, <1>7, <1>8, <1>9

\* What a recovered master reserves, the agents it recovers hold.
LEMMA ReservedHeld ==
  ASSUME NEW pool, NEW held, NEW free, NEW free2,
         pool \subseteq free,
         \A n \in free : n \in free2 \/ \E a \in AgentIPs : n \in held[a]
  PROVE  Conserved(pool, held, free2)
BY DEF Conserved

\* _recover brings back what agents held and were told.
LEMMA RecoverFacts ==
  ASSUME Steady, LogInv, TypeOK', RecordFacts, Recover
  PROVE  RecordFacts' /\ NothingLeaks'
<1>0. /\ WholeInv /\ ToldInv /\ Fresh /\ TypeOK /\ UseLog
      /\ log \in NetworkState /\ networkState' \in NetworkState
  BY LogParts DEF RecordFacts, Recover, FetchPending, TypeOK
<1>1. /\ UNCHANGED <<config, operations, mailbox, inflight, log, told, known>>
      /\ stored'
      /\ Reserve({log[r[1]][r[2]] : r \in Records(log)})
  BY DEF Recover, storage, durable, environment
<1>2. /\ InflightState' = InflightState /\ InflightOps' = InflightOps
      /\ operations' = <<>> /\ DOMAIN operations' = {}
  BY <1>0, <1>1, FreshQueues DEF InflightState, InflightOps, Fresh
<1>3. \A a \in AgentIPs :
        /\ ~Doomed(a)'
        /\ Writes(mailbox', a) = {} /\ Writes(operations', a) = {}
        /\ Writes(InflightOps', a) = {}
        /\ PurgeLast(mailbox', a) /\ PurgeLast(InflightOps', a)
        /\ ~Purges(mailbox', a)
        /\ Recs(InflightState', a) = {}
  BY <1>0, <1>1, <1>2, FreshQueues DEF Doomed
<1>4. inflight' = None
  BY <1>0, <1>1 DEF Fresh
<1>5. ASSUME NEW a \in AgentIPs, NEW x \in Recs(log, a)
      PROVE  /\ x \in AgentInfo /\ Alike(x, ClearStatus(x)) /\ Whole(x, config)
             /\ Whole(ClearStatus(x), config)
             /\ agents'[a] # None /\ agents'[a].overlays = ClearStatus(x)
             /\ agents'[a].backend \in BackendsOf(ClearStatus(x))
  <2>1. /\ x \in AgentInfo /\ agents'[a] # None
        /\ agents'[a].overlays = ClearStatus(x)
        /\ agents'[a].backend \in BackendsOf(x)
    BY RecoveredRecords
  <2>2. Alike(x, ClearStatus(x))
    BY <2>1, ClearStatusWithin DEF Alike
  <2>3. Whole(x, config)
    BY <1>0 DEF WholeInv
  <2> QED BY <2>1, <2>2, <2>3, AlikeRecords
<1>6. WholeInv'
  <2>1. ASSUME NEW a \in AgentIPs
        PROVE  /\ \A y \in Recs(networkState', a) : Whole(y, config)
               /\ agents'[a] # None => WholeAgent(agents'[a], config)
    <3>1. \A y \in Recs(networkState', a) :
              \E x \in Recs(log, a) : y = ClearStatus(x)
      BY RecoveredRecords
    <3>2. agents'[a] # None => \E x \in Recs(log, a) : TRUE
      BY RecoveredRecords
    <3>3. \A x \in Recs(log, a) :
            /\ Whole(ClearStatus(x), config)
            /\ agents'[a].overlays = ClearStatus(x)
            /\ agents'[a].backend \in BackendsOf(ClearStatus(x))
      BY <1>5
    <3> QED BY <3>1, <3>2, <3>3 DEF WholeAgent
  <2> QED BY <1>0, <1>1, <1>2, <1>3, <2>1 DEF WholeInv
<1>7. OrderInv'
  BY <1>3 DEF OrderInv
<1>8. \A a \in AgentIPs : networkState'[a] = <<>> <=> log[a] = <<>>
  BY RecoveredRecords
<1>9. DurableInv'
  BY <1>1, <1>3, <1>4, <1>8 DEF DurableInv
<1>10. ToldInv'
  BY <1>0, <1>1, <1>3, <1>8 DEF ToldInv
<1>11. NothingLeaks'
  <2> DEFINE infos == {log[r[1]][r[2]] : r \in Records(log)}
  <2>1. \A x \in infos : \E a \in AgentIPs : x \in Recs(log, a)
    BY DEF Records, Recs
  <2>2. ASSUME NEW x \in infos
        PROVE  \E a \in AgentIPs :
                 /\ \A o \in Names(x) :
                      /\ x[o].subnet # None => x[o].subnet \in HeldSubnets(agents', o)[a]
                      /\ x[o].subnet6 # None => x[o].subnet6 \in HeldSubnets6(agents', o)[a]
                 /\ VtepsOf(x) \subseteq HeldVteps(agents')[a]
                 /\ Vtep6sOf(x) \subseteq HeldVtep6s(agents')[a]
    <3>1. PICK a \in AgentIPs : x \in Recs(log, a)
      BY <2>1
    <3>2. /\ Alike(x, ClearStatus(x)) /\ agents'[a] # None
          /\ agents'[a].overlays = ClearStatus(x)
      BY <1>5, <3>1
    <3>3. \A o \in Names(x) :
            /\ x[o].subnet # None => x[o].subnet \in HeldSubnets(agents', o)[a]
            /\ x[o].subnet6 # None => x[o].subnet6 \in HeldSubnets6(agents', o)[a]
      BY <3>2 DEF HeldSubnets, HeldSubnets6, Alike, Within, Names
    <3>4. /\ VtepsOf(x) \subseteq HeldVteps(agents')[a]
          /\ Vtep6sOf(x) \subseteq HeldVtep6s(agents')[a]
      BY <3>2, AlikeRecords DEF HeldVteps, HeldVtep6s
    <3> QED BY <3>3, <3>4
  <2> HIDE DEF infos
  <2>3. Reserve(infos)
    BY <1>1 DEF infos
  <2>4. ASSUME NEW o \in Overlays
        PROVE  /\ Conserved(InitialPool(o), HeldSubnets(agents', o), freeNetworks'[o])
               /\ Conserved(InitialPool6(o), HeldSubnets6(agents', o), freeNetworks6'[o])
    <3>1. /\ freeNetworks[o] = InitialPool(o) /\ freeNetworks6[o] = InitialPool6(o)
          /\ freeNetworks[o] \subseteq Nat /\ freeNetworks6[o] \subseteq Nat
      BY <1>0 DEF Fresh, TypeOK
    <3>2. /\ freeNetworks'[o] = freeNetworks[o] \
                {i[o].subnet : i \in {j \in infos : j[o] # None}}
          /\ freeNetworks6'[o] = freeNetworks6[o] \
                {i[o].subnet6 : i \in {j \in infos : j[o] # None}}
      BY <2>3 DEF Reserve, ReserveSubnets, ReserveSubnets6
    <3>3. \A n \in freeNetworks[o] :
            n \in freeNetworks'[o] \/ \E a \in AgentIPs : n \in HeldSubnets(agents', o)[a]
      <4> SUFFICES ASSUME NEW n \in freeNetworks[o], n \notin freeNetworks'[o]
                   PROVE  \E a \in AgentIPs : n \in HeldSubnets(agents', o)[a]
        OBVIOUS
      <4>1. PICK x \in infos : x[o] # None /\ x[o].subnet = n
        BY <3>2
      <4>2. o \in Names(x) /\ n # None
        BY <3>1, <4>1, NoneAssumption DEF Names
      <4> QED BY <2>2, <4>1, <4>2
    <3>4. \A n \in freeNetworks6[o] :
            n \in freeNetworks6'[o] \/ \E a \in AgentIPs : n \in HeldSubnets6(agents', o)[a]
      <4> SUFFICES ASSUME NEW n \in freeNetworks6[o], n \notin freeNetworks6'[o]
                   PROVE  \E a \in AgentIPs : n \in HeldSubnets6(agents', o)[a]
        OBVIOUS
      <4>1. PICK x \in infos : x[o] # None /\ x[o].subnet6 = n
        BY <3>2
      <4>2. o \in Names(x) /\ n # None
        BY <3>1, <4>1, NoneAssumption DEF Names
      <4> QED BY <2>2, <4>1, <4>2
    <3> QED BY <3>1, <3>3, <3>4, ReservedHeld
  <2>5. Conserved(VtepIPs, HeldVteps(agents'), freeIP')
    <3>1. freeIP' = freeIP \ UNION {VtepsOf(i) : i \in infos} /\ freeIP = VtepIPs
      BY <1>0, <2>3 DEF Reserve, ReserveIPs, Fresh
    <3>2. \A n \in freeIP :
            n \in freeIP' \/ \E a \in AgentIPs : n \in HeldVteps(agents')[a]
      BY <2>2, <3>1
    <3> QED BY <3>1, <3>2, ReservedHeld
  <2>6. Conserved(InitialFreeIP6(config), HeldVtep6s(agents'), freeIP6')
    <3>1. /\ freeIP6' = freeIP6 \ UNION {Vtep6sOf(i) : i \in infos}
          /\ freeIP6 = InitialFreeIP6(config)
      BY <1>0, <2>3 DEF Reserve, ReserveIP6s, Fresh
    <3>2. \A n \in freeIP6 :
            n \in freeIP6' \/ \E a \in AgentIPs : n \in HeldVtep6s(agents')[a]
      BY <2>2, <3>1
    <3> QED BY <3>1, <3>2, ReservedHeld
  <2> QED BY <1>1, <2>4, <2>5, <2>6 DEF NothingLeaks
<1> QED BY <1>6, <1>7, <1>9, <1>10, <1>11 DEF RecordFacts

\* _recover, when nothing was ever stored: nothing was told, either.
LEMMA RecoverNothingFacts ==
  ASSUME Steady, LogInv, RecordFacts, NothingLeaks, RecoverNothing
  PROVE  RecordFacts' /\ NothingLeaks'
<1>1. /\ WholeInv /\ OrderInv /\ DurableInv /\ ToldInv
      /\ log = NoRecords
  BY LogParts DEF RecordFacts, LogFacts, RecoverNothing
<1>2. /\ UNCHANGED <<config, agents, freeIP, freeIP6, freeNetworks, freeNetworks6,
                     networkState, operations, mailbox, inflight, log, told, known>>
  BY DEF RecoverNothing, pools, storage, durable, environment
<1>3. \A a \in AgentIPs : told[a] = None
  BY <1>1, Nothing DEF ToldInv
<1>4. \A a \in AgentIPs : Doomed(a)' <=> Doomed(a)
  BY <1>2 DEF Doomed, InflightOps
<1>5. ToldInv'
  BY <1>1, <1>2, <1>3, <1>4 DEF ToldInv
<1>6. NothingLeaks'
  BY <1>2 DEF NothingLeaks
<1> QED BY <1>1, <1>2, <1>5, <1>6, KeptRecords

-----------------------------------------------------------------------------
(* The invariant is inductive *)

\* A step that leaves the master's memory and its log alone.
LEMMA SameFacts ==
  ASSUME RecordFacts, NothingLeaks,
         UNCHANGED <<config, stored, agents, freeIP, freeIP6, freeNetworks,
                     freeNetworks6, networkState, operations, inflight, mailbox,
                     log, told>>,
         \A a \in AgentIPs : known'[a] \subseteq known[a]
  PROVE  RecordFacts' /\ NothingLeaks'
<1>1. WholeInv /\ OrderInv /\ DurableInv /\ ToldInv
  BY DEF RecordFacts
<1>2. InflightOps' = InflightOps
  BY DEF InflightOps
<1>3. \A a \in AgentIPs : Doomed(a)' => Doomed(a)
  BY <1>2 DEF Doomed
<1>4. ToldInv'
  BY <1>1, <1>3, KeptTold
<1>5. NothingLeaks'
  BY DEF NothingLeaks
<1> QED BY <1>1, <1>4, <1>5, KeptRecords

\* The handlers find what their CHECKs and at() look for.
LEMMA ChecksHold ==
  ASSUME Steady, LogInv, RecordFacts
  PROVE  /\ \A a \in AgentIPs : ~RegisterAborts(a) /\ ~AgentRegisteredAborts(a)
         /\ ~_registerAgentAborts
<1>0. /\ TypeOK /\ WholeInv /\ OrderInv /\ ToldInv
      /\ mailbox \in Seq(Operation) /\ config.enabled # {}
  BY LogParts DEF RecordFacts
<1>1. ASSUME NEW a \in AgentIPs, agents[a] # None
      PROVE  agents[a].backend # None /\ known[a] \subseteq Names(agents[a].overlays)
  <2>1. WholeAgent(agents[a], config) /\ agents[a] \in Agent
    BY <1>0, <1>1 DEF WholeInv, TypeOK
  <2> DEFINE x == agents[a].overlays
  <2>2. x \in AgentInfo /\ Names(x) = config.enabled
        /\ agents[a].backend \in BackendsOf(x)
    BY <2>1 DEF Agent, WholeAgent, Whole
  <2> HIDE DEF x
  <2>3. PICK o \in Names(x) : agents[a].backend = [vtep |-> x[o].vtep, vtep6 |-> x[o].vtep6]
    BY <1>0, <2>2 DEF BackendsOf
  <2>4. x[o] \in OverlayInfo
    BY <2>2 DEF Names, AgentInfo
  <2>5. agents[a].backend \in BackendInfo
    BY <2>3, <2>4 DEF OverlayInfo, BackendInfo
  <2>6. known[a] \subseteq config.enabled
    BY <1>0 DEF ToldInv
  <2> QED BY <2>2, <2>5, <2>6, AbsentAssumption DEF x
<1>2. \A a \in AgentIPs : ~RegisterAborts(a) /\ ~AgentRegisteredAborts(a)
  BY <1>1 DEF RegisterAborts, AgentRegisteredAborts
<1>3. ASSUME _registerAgentAborts PROVE FALSE
  <2> DEFINE op == Head(mailbox)
  <2>1. mailbox # <<>> /\ op.type \in {"add", "modify"} /\ agents[op.ip] = None
    BY <1>3 DEF _registerAgentAborts
  <2>2. op \in Operation
    BY <1>0, <2>1, HeadTailProperties
  <2> HIDE DEF op
  <2>3. op.ip \in AgentIPs /\ IsWrite(op, op.ip)
    BY <2>1, <2>2 DEF Operation, IsWrite
  <2>4. Writes(mailbox, op.ip) = Writes(Tail(mailbox), op.ip)
            \cup (IF IsWrite(op, op.ip) THEN {op.info} ELSE {})
    BY <1>0, <2>1, HeadTail DEF op
  <2> QED BY <1>0, <2>1, <2>3, <2>4 DEF OrderInv
<1> QED BY <1>2, <1>3

\* Every step keeps it.
LEMMA NextFacts ==
  ASSUME GoneOnly, Steady, Enough, SteadyInv, [Next]_vars
  PROVE  SteadyInv'
<1>0. /\ LogInv /\ RecordFacts /\ NothingLeaks /\ NeverAborts /\ TypeOK
      /\ config \in Configs
  BY LogParts DEF SteadyInv, TypeOK
<1>1. LogInv' /\ TypeOK'
  BY <1>0, NextLogInv DEF LogInv
<1> DEFINE Kept == RecordFacts' /\ NothingLeaks' /\ NeverAborts'
<1>2. ASSUME proc' = proc \/ proc' = "running" \/ proc' = "terminated"
      PROVE  NeverAborts'
  BY <1>0, <1>2 DEF NeverAborts, AbortReasons
<1>3. ASSUME NEW a \in AgentIPs, RegisterAgent(a) PROVE Kept
  <2>1. CASE StartRecovery(a)
    BY <1>0, <1>2, <2>1, SameFacts
    DEF StartRecovery, pools, storage, durable, environment
  <2>2. ASSUME NEW alloc \in AllocChoices, RegisterNew(a, alloc) PROVE Kept
    BY <1>0, <1>2, <2>2, RegisterNewFacts DEF RegisterNew
  <2>3. ASSUME NEW alloc \in AllocChoices, RegisterKnown(a, alloc) PROVE Kept
    BY <1>0, <1>2, <2>3, RegisterKnownFacts DEF RegisterKnown
  <2>4. CASE RegistrationDropped(a)
    BY <1>0, <1>2, <2>4, SameFacts
    DEF RegistrationDropped, vars, pools, storage, durable, environment
  <2>5. ~RegisterAborts(a)
    BY <1>0, ChecksHold
  <2> QED BY <1>3, <2>1, <2>2, <2>3, <2>4, <2>5 DEF RegisterAgent
<1>4. ASSUME NEW a \in AgentIPs, NEW status \in [Overlays -> Statuses],
             AgentRegistered(a, status)
      PROVE  Kept
  BY <1>0, <1>2, <1>4, AgentRegisteredFacts DEF AgentRegistered
<1>5. ASSUME NEW a \in AgentIPs, AgentRegisteredAborts(a) PROVE Kept
  BY <1>0, <1>5, ChecksHold
<1>6. ASSUME NEW a \in AgentIPs, AgentRestart(a) PROVE Kept
  <2>1. \A b \in AgentIPs : known'[b] \subseteq known[b]
    BY <1>0, <1>6 DEF AgentRestart, TypeOK
  <2> QED BY <1>0, <1>2, <1>6, <2>1, SameFacts
          DEF AgentRestart, pools, storage, durable
<1>7. ASSUME NEW ips \in SUBSET AgentIPs, DeleteAgents(ips) PROVE Kept
  BY <1>0, <1>2, <1>7, DeleteAgentsFacts DEF DeleteAgents
<1>8. ASSUME Recovery PROVE Kept
  <2>1. CASE RecoveryFailed \/ FetchFailed
    BY <1>0, <1>2, <2>1, SameFacts
    DEF RecoveryFailed, FetchFailed, Demote, Stop, pools, storage, durable, environment
  <2>2. CASE RecoverNothing
    BY <1>0, <1>2, <2>2, RecoverNothingFacts DEF RecoverNothing
  <2>3. CASE Recover
    BY <1>0, <1>1, <1>2, <2>3, RecoverFacts DEF Recover
  <2> QED BY <1>8, <2>1, <2>2, <2>3 DEF Recovery
<1>9. ASSUME Continuation PROVE Kept
  <2>1. CASE _registerAgent
    BY <1>0, <1>2, <2>1, _registerAgentFacts DEF _registerAgent
  <2>2. CASE _deleteAgentsEndpoint
    BY <1>0, <1>2, <2>2, _deleteAgentsEndpointFacts
  <2> QED BY <1>0, <1>9, <2>1, <2>2, ChecksHold DEF Continuation
<1>10. ASSUME StoreFailed PROVE Kept
  BY <1>0, <1>2, <1>10, SameFacts
  DEF StoreFailed, Demote, Stop, pools, storage, durable
<1>11. ASSUME StoreLands PROVE Kept
  BY <1>0, <1>2, <1>11, StoreLandsFacts DEF StoreLands
<1>12. ASSUME Stored PROVE Kept
  BY <1>0, <1>2, <1>12, StoredFacts DEF Stored
<1>13. ASSUME NEW c \in Configs, Start(c) PROVE Kept
  BY <1>0, <1>2, <1>13, StartFacts DEF Start
<1>14. ASSUME Respawn \/ Reboot PROVE Kept
  BY <1>0, <1>13, <1>14 DEF Respawn, Reboot
<1>15. ASSUME UNCHANGED vars PROVE Kept
  BY <1>0, <1>2, <1>15, SameFacts DEF vars, pools, storage, durable, environment
<1>16. Kept
  BY <1>3, <1>4, <1>5, <1>6, <1>7, <1>8, <1>9, <1>10, <1>11, <1>12, <1>14, <1>15
  DEF Next
<1> QED BY <1>1, <1>16 DEF SteadyInv

\* The invariant holds: what registerAgent gives, what the log records and
\* what agents were told stay one thing, through stores, purges, failures and
\* restarts.
THEOREM SteadyInductive ==
  ASSUME GoneOnly, Steady, Enough PROVE Spec => []SteadyInv
<1>1. Init => SteadyInv
  <2> SUFFICES ASSUME Init PROVE SteadyInv
    OBVIOUS
  <2>1. NeverAborts
    BY DEF Init, NeverAborts, AbortReasons
  <2> QED BY <2>1, InitLogInv, InitFacts DEF SteadyInv
<1>2. SteadyInv /\ [Next]_vars => SteadyInv'
  BY NextFacts
<1> QED BY <1>1, <1>2, PTL DEF Spec

-----------------------------------------------------------------------------
(* What follows for the master *)

\* No CHECK of registerAgent, _registerAgent and _deleteAgentsEndpoint fails,
\* and updateOverlayState knows every overlay that is reported.
THEOREM NoAbort ==
  ASSUME GoneOnly, Steady, Enough PROVE Spec => []NeverAborts
<1>1. SteadyInv => NeverAborts
  BY DEF SteadyInv
<1>2. Spec => []SteadyInv
  BY SteadyInductive
<1> QED BY <1>1, <1>2, PTL

\* allocate, reserve and free lose no subnet and no VTEP address.
THEOREM NoLeak ==
  ASSUME GoneOnly, Steady, Enough PROVE Spec => []NothingLeaks
<1>1. SteadyInv => NothingLeaks
  BY DEF SteadyInv
<1>2. Spec => []SteadyInv
  BY SteadyInductive
<1> QED BY <1>1, <1>2, PTL

\* registerAgent and _registerAgent send what the log holds.
THEOREM DurableFirst ==
  ASSUME GoneOnly, Steady, Enough PROVE Spec => DurableBeforeTold
<1>1. SteadyInv' =>
        [\A a \in AgentIPs :
           told'[a] # told[a] /\ told'[a] # None =>
              log'[a] # <<>> /\ told'[a] = ClearStatus(log'[a][1])]_vars
  BY DEF SteadyInv, RecordFacts, ToldInv
<1>2. Spec => []SteadyInv
  BY SteadyInductive
<1> QED BY <1>1, <1>2, PTL DEF DurableBeforeTold

\* Records that name the same are apart from the same.
LEMMA AlikeDisjoint ==
  ASSUME NEW x, NEW y, NEW x2, NEW y2, Alike(x, x2), Alike(y, y2), Disjoint(x, y)
  PROVE  Disjoint(x2, y2)
<1>1. /\ Names(x) = Names(x2) /\ VtepsOf(x) = VtepsOf(x2) /\ Vtep6sOf(x) = Vtep6sOf(x2)
      /\ Names(y) = Names(y2) /\ VtepsOf(y) = VtepsOf(y2) /\ Vtep6sOf(y) = Vtep6sOf(y2)
  BY AlikeRecords
<1>2. \A o \in Names(x) : x[o].subnet = x2[o].subnet /\ x[o].subnet6 = x2[o].subnet6
  BY DEF Alike, Within
<1>3. \A o \in Names(y) : y[o].subnet = y2[o].subnet /\ y[o].subnet6 = y2[o].subnet6
  BY DEF Alike, Within
<1> QED BY <1>1, <1>2, <1>3 DEF Disjoint

\* What agents were told, the log records for them.
LEMMA ToldApartNow ==
  ASSUME Steady, SteadyInv PROVE ToldExclusive
<1>0. ToldInv /\ LogSound /\ log \in NetworkState
  BY LogParts DEF SteadyInv, RecordFacts, LogFacts
<1> SUFFICES ASSUME NEW a \in AgentIPs, NEW b \in AgentIPs,
                    told[a] # None, told[b] # None, a # b
             PROVE  Disjoint(told[a], told[b])
  BY DEF ToldExclusive
<1>1. /\ log[a] # <<>> /\ told[a] = ClearStatus(log[a][1])
      /\ log[b] # <<>> /\ told[b] = ClearStatus(log[b][1])
  BY <1>0 DEF ToldInv
<1>2. /\ log[a][1] \in AgentInfo /\ 1 \in DOMAIN log[a]
      /\ log[b][1] \in AgentInfo /\ 1 \in DOMAIN log[b]
  <2>1. log[a][1] \in Recs(log, a) /\ log[b][1] \in Recs(log, b)
    BY <1>0, <1>1, SingleRecs
  <2> QED BY <1>0, <2>1, SingleRecs DEF LogSound, Recs
<1>3. <<a, 1>> \in Records(log) /\ <<b, 1>> \in Records(log)
  BY <1>2 DEF Records
<1>4. Disjoint(log[a][1], log[b][1])
  <2>1. \A r, s \in Records(log) : r # s => Disjoint(log[r[1]][r[2]], log[s[1]][s[2]])
    BY <1>0 DEF LogSound, AllDisjoint
  <2>2. <<a, 1>> # <<b, 1>>
    OBVIOUS
  <2>3. Disjoint(log[<<a, 1>>[1]][<<a, 1>>[2]], log[<<b, 1>>[1]][<<b, 1>>[2]])
    BY <1>3, <2>1, <2>2
  <2> QED BY <2>3
<1>5. Alike(log[a][1], told[a]) /\ Alike(log[b][1], told[b])
  BY <1>1, <1>2, ClearStatusWithin DEF Alike
<1> QED BY <1>4, <1>5, AlikeDisjoint

\* Agents that registerAgent and _registerAgent sent their overlays work with
\* subnets and VTEP addresses of their own.
THEOREM ToldApart ==
  ASSUME GoneOnly, Steady, Enough PROVE Spec => []ToldExclusive
<1>1. SteadyInv => ToldExclusive
  BY ToldApartNow
<1>2. Spec => []SteadyInv
  BY SteadyInductive
<1> QED BY <1>1, <1>2, PTL

-----------------------------------------------------------------------------
(* Agents are told one configuration until they are purged *)

\* send() of an agent's overlays takes nothing from any agent.
LEMMA SendKeeps ==
  ASSUME TypeOK, NEW as \in [AgentIPs -> Agent \cup {None}], NEW a \in AgentIPs,
         as[a] # None, SendUpdate(as, a)
  PROVE  \A b \in AgentIPs : told[b] # None => told'[b] # None
<1>1. CASE Gone(a)
  BY <1>1 DEF SendUpdate
<1>2. CASE ~Gone(a)
  <2>1. as[a] \in Agent
    OBVIOUS
  <2>2. as[a].overlays \in AgentInfo
    BY <2>1 DEF Agent
  <2>3. Configuration(as, a) # None
    BY <2>2, ClearStatusType, AbsentAssumption DEF Configuration
  <2>4. told' = [told EXCEPT ![a] = Configuration(as, a)]
    BY <1>2 DEF SendUpdate
  <2> QED BY <2>3, <2>4 DEF TypeOK
<1> QED BY <1>1, <1>2

\* Only a purge makes an agent forget, and a new update is the old one.
LEMMA ToldStays ==
  ASSUME Steady, SteadyInv, SteadyInv', [Next]_vars, NEW a \in AgentIPs,
         told[a] # None, \A ips \in SUBSET AgentIPs : DeleteAgents(ips) => a \notin ips
  PROVE  told'[a] = told[a]
<1>0. /\ TypeOK /\ TypeOK' /\ ToldInv /\ ToldInv'
      /\ LogInv' /\ LogFacts'
  BY DEF SteadyInv, RecordFacts, LogInv
<1>1. ASSUME log' = log, told'[a] # None PROVE told'[a] = told[a]
  BY <1>0, <1>1 DEF ToldInv
<1>2. ASSUME NEW b \in AgentIPs, RegisterAgent(b) PROVE told'[a] = told[a]
  <2>1. CASE StartRecovery(b) \/ RegistrationDropped(b) \/ RegisterAborts(b)
    BY <2>1 DEF StartRecovery, RegistrationDropped, RegisterAborts, Abort, vars,
                environment
  <2>2. ASSUME NEW alloc \in AllocChoices, RegisterNew(b, alloc)
        PROVE  told'[a] = told[a]
    BY <2>2 DEF RegisterNew, environment
  <2>3. ASSUME NEW alloc \in AllocChoices, RegisterKnown(b, alloc)
        PROVE  told'[a] = told[a]
    <3>1. log' = log
      BY <2>3 DEF RegisterKnown, durable
    <3>2. \/ UNCHANGED told
          \/ /\ SendUpdate(agents', b) /\ networkState[b] # <<>>
             /\ networkState' = networkState
      BY <2>3 DEF RegisterKnown
    <3>3. ASSUME SendUpdate(agents', b), networkState'[b] # <<>>
          PROVE  told'[a] # None
      <4>1. stored'
        BY <1>0, <3>3, Nothing DEF LogFacts, Fresh, Steady, UseLog, TypeOK
      <4>2. AllHeld(networkState', agents') /\ networkState' \in NetworkState
        BY <1>0, <4>1 DEF LogFacts, QueueInv, Covered, TypeOK
      <4>3. networkState'[b][1] \in Recs(networkState', b)
        BY <3>3, <4>2, SingleRecs
      <4>4. agents'[b] # None
        BY <4>2, <4>3 DEF AllHeld, HeldBy
      <4>5. agents' \in [AgentIPs -> Agent \cup {None}]
        BY <1>0 DEF TypeOK
      <4> QED BY <1>0, <3>3, <4>4, <4>5, SendKeeps
    <3> QED BY <1>1, <3>1, <3>2, <3>3
  <2> QED BY <1>2, <2>1, <2>2, <2>3 DEF RegisterAgent
<1>3. ASSUME NEW b \in AgentIPs, NEW status \in [Overlays -> Statuses],
             AgentRegistered(b, status)
      PROVE  told'[a] = told[a]
  BY <1>3 DEF AgentRegistered, environment
<1>4. ASSUME NEW b \in AgentIPs, AgentRegisteredAborts(b) \/ AgentRestart(b)
      PROVE  told'[a] = told[a]
  BY <1>4 DEF AgentRegisteredAborts, AgentRestart, Abort, environment
<1>5. ASSUME NEW ips \in SUBSET AgentIPs, DeleteAgents(ips) PROVE told'[a] = told[a]
  <2>1. a \notin ips
    BY <1>5
  <2> QED BY <1>5, <2>1 DEF DeleteAgents
<1>6. ASSUME Recovery \/ StoreLands \/ Stored \/ StoreFailed PROVE told'[a] = told[a]
  BY <1>6 DEF Recovery, RecoverNothing, Recover, RecoveryFailed, FetchFailed,
              StoreLands, Stored, StoreFailed, environment
<1>7. ASSUME Continuation PROVE told'[a] = told[a]
  <2>1. CASE _registerAgent
    <3>1. log' = log /\ SendUpdate(agents, Head(mailbox).ip)
          /\ agents[Head(mailbox).ip] # None
      BY <2>1 DEF _registerAgent, durable
    <3>2. Head(mailbox) \in Operation /\ Head(mailbox).type \in {"add", "modify"}
      BY <1>0, <2>1, HeadTailProperties DEF _registerAgent, TypeOK
    <3>3. Head(mailbox).ip \in AgentIPs
      BY <3>2 DEF Operation
    <3>4. agents \in [AgentIPs -> Agent \cup {None}]
      BY <1>0 DEF TypeOK
    <3>5. told'[a] # None
      BY <1>0, <3>1, <3>3, <3>4, SendKeeps
    <3> QED BY <1>1, <3>1, <3>5
  <2>2. CASE _registerAgentAborts \/ _deleteAgentsEndpoint
    BY <2>2 DEF _registerAgentAborts, _deleteAgentsEndpoint, Abort, environment
  <2> QED BY <1>7, <2>1, <2>2 DEF Continuation
<1>8. ASSUME Respawn \/ Reboot PROVE told'[a] = told[a]
  BY <1>8 DEF Respawn, Reboot, Start
<1>9. ASSUME UNCHANGED vars PROVE told'[a] = told[a]
  BY <1>9 DEF vars, environment
<1> QED BY <1>2, <1>3, <1>4, <1>5, <1>6, <1>7, <1>8, <1>9 DEF Next

-----------------------------------------------------------------------------
(* The Docker networks *)

DockerNetwork == [subnet: Nat \cup {None}, subnet6: Nat \cup {None}]

\* A host's network of an overlay is the one that its agent was told of.
HostsInv ==
    /\ docker \in [AgentIPs -> [Overlays -> DockerNetwork \cup {None}]]
    /\ \A a \in AgentIPs, o \in Overlays : docker[a][o] # None =>
        /\ told[a] # None /\ told[a][o] # None
        /\ docker[a][o] = SubnetsIn(told[a][o])

NetworkInv == SteadyInv /\ HostsInv

\* The master takes its steps, and the hosts' own steps leave it alone.
LEMMA MasterNext ==
  ASSUME [NetworkNext]_networkVars PROVE [Next]_vars
<1>1. ASSUME NEW a \in AgentIPs, NEW o \in Overlays, Configure(a, o)
      PROVE  [Next]_vars
  BY <1>1 DEF Configure
<1>2. ASSUME NEW a \in AgentIPs, Reports(a) \/ Restarts(a) PROVE [Next]_vars
  BY <1>2 DEF Reports, Restarts, Next
<1>3. ASSUME NEW ips \in SUBSET AgentIPs \ {{}}, Purge(ips) PROVE [Next]_vars
  BY <1>3 DEF Purge, Next
<1>4. ASSUME MasterStep PROVE [Next]_vars
  BY <1>4 DEF MasterStep, Next
<1>5. ASSUME UNCHANGED networkVars PROVE [Next]_vars
  BY <1>5 DEF networkVars
<1> QED BY <1>1, <1>2, <1>3, <1>4, <1>5 DEF NetworkNext

\* A master step other than a purge leaves the hosts right.
LEMMA HostsKept ==
  ASSUME HostsInv, UNCHANGED docker,
         \A a \in AgentIPs : told[a] # None => told'[a] = told[a]
  PROVE  HostsInv'
BY DEF HostsInv

\* Only deleteAgentsEndpoint requests a purge.
LEMMA NoPurge ==
  ASSUME TypeOK, MasterStep, NEW ips PROVE ~DeleteAgents(ips)
<1>1. ASSUME NEW a \in AgentIPs, RegisterAgent(a) \/ AgentRegisteredAborts(a)
      PROVE  deletes' = deletes
  <2>1. CASE StartRecovery(a) \/ RegistrationDropped(a) \/ RegisterAborts(a)
             \/ AgentRegisteredAborts(a)
    BY <2>1 DEF StartRecovery, RegistrationDropped, RegisterAborts,
                AgentRegisteredAborts, Abort, vars, environment
  <2>2. ASSUME NEW alloc \in AllocChoices,
               RegisterNew(a, alloc) \/ RegisterKnown(a, alloc)
        PROVE  deletes' = deletes
    BY <2>2 DEF RegisterNew, RegisterKnown, environment
  <2> QED BY <1>1, <2>1, <2>2 DEF RegisterAgent
<1>2. ASSUME Recovery \/ StoreLands \/ Stored \/ StoreFailed PROVE deletes' = deletes
  BY <1>2 DEF Recovery, RecoverNothing, Recover, RecoveryFailed, FetchFailed,
              StoreLands, Stored, StoreFailed, environment
<1>3. ASSUME Continuation PROVE deletes' = deletes
  BY <1>3 DEF Continuation, _registerAgent, _registerAgentAborts,
              _deleteAgentsEndpoint, Abort, environment
<1>4. ASSUME Respawn \/ Reboot PROVE deletes' = deletes
  BY <1>4 DEF Respawn, Reboot, Start
<1>5. deletes' = deletes /\ deletes \in Int
  <2>1. deletes \in Int
    BY ConfigAssumption DEF TypeOK
  <2> QED BY <1>1, <1>2, <1>3, <1>4, <2>1 DEF MasterStep
<1> QED BY <1>5 DEF DeleteAgents

\* The agent of a host makes the network it was told of, or leaves the one
\* that is there.
LEMMA ConfigureHosts ==
  ASSUME SteadyInv, HostsInv, NEW a \in AgentIPs, NEW o \in Overlays, Configure(a, o)
  PROVE  HostsInv'
<1>0. TypeOK /\ ToldInv
  BY DEF SteadyInv, RecordFacts, LogInv
<1>1. /\ o \in known[a] /\ told[a][o] # None /\ told' = told
      /\ docker' = [docker EXCEPT ![a][o] = NetworkAfter(a, o)]
  BY DEF Configure, vars, environment
<1>2. told[a] # None
  BY <1>0, <1>1 DEF ToldInv
<1>3. told[a][o] \in OverlayInfo
  BY <1>0, <1>1, <1>2 DEF TypeOK, AgentInfo
<1>4. SubnetsIn(told[a][o]) \in DockerNetwork \cup {None}
  BY <1>3 DEF SubnetsIn, OverlayInfo, DockerNetwork
<1>5. NetworkAfter(a, o) = SubnetsIn(told[a][o])
  BY DEF NetworkAfter, HostsInv
<1> QED BY <1>1, <1>2, <1>4, <1>5 DEF HostsInv

\* Every step keeps the hosts right.
LEMMA NextNetworkInv ==
  ASSUME GoneOnly, Steady, Enough, NetworkInv, [NetworkNext]_networkVars
  PROVE  NetworkInv'
<1>0. SteadyInv /\ HostsInv /\ TypeOK
  BY DEF NetworkInv, SteadyInv, LogInv
<1>1. [Next]_vars
  BY MasterNext
<1>2. SteadyInv'
  BY <1>0, <1>1, NextFacts
<1>3. ASSUME NEW a \in AgentIPs, NEW o \in Overlays, Configure(a, o)
      PROVE  HostsInv'
  BY <1>0, <1>3, ConfigureHosts
<1>4. ASSUME NEW a \in AgentIPs, Reports(a) \/ Restarts(a) PROVE HostsInv'
  <2>1. UNCHANGED <<docker, told>>
    BY <1>4 DEF Reports, Restarts, AgentRegistered, AgentRestart, hosts, environment
  <2> QED BY <1>0, <2>1, HostsKept
<1>5. ASSUME NEW ips \in SUBSET AgentIPs \ {{}}, Purge(ips) PROVE HostsInv'
  <2>1. /\ docker' = [a \in AgentIPs |-> IF a \in ips THEN NoNetworks ELSE docker[a]]
        /\ told' = [a \in AgentIPs |-> IF a \in ips THEN None ELSE told[a]]
    BY <1>5 DEF Purge, DeleteAgents
  <2>2. NoNetworks \in [Overlays -> DockerNetwork \cup {None}]
        /\ \A o \in Overlays : NoNetworks[o] = None
    BY DEF NoNetworks
  <2> QED BY <1>0, <2>1, <2>2 DEF HostsInv
<1>6. ASSUME MasterStep PROVE HostsInv'
  <2>1. UNCHANGED docker
    BY <1>6 DEF MasterStep, hosts
  <2>2. ASSUME NEW a \in AgentIPs, told[a] # None PROVE told'[a] = told[a]
    <3>1. \A ips \in SUBSET AgentIPs : DeleteAgents(ips) => a \notin ips
      BY <1>0, <1>6, NoPurge
    <3> QED BY <1>0, <1>1, <1>2, <2>2, <3>1, ToldStays
  <2> QED BY <1>0, <2>1, <2>2, HostsKept
<1>7. ASSUME UNCHANGED networkVars PROVE HostsInv'
  BY <1>0, <1>7, HostsKept DEF networkVars, hosts, vars, environment
<1>8. HostsInv'
  BY <1>3, <1>4, <1>5, <1>6, <1>7 DEF NetworkNext
<1> QED BY <1>2, <1>8 DEF NetworkInv

\* The hosts' networks stay what the master told their agents.
LEMMA NetworkInductive ==
  ASSUME GoneOnly, Steady, Enough PROVE NetworkSpec => []NetworkInv
<1>1. NetworkInit => NetworkInv
  <2> SUFFICES ASSUME NetworkInit PROVE NetworkInv
    OBVIOUS
  <2>1. Init /\ docker = [a \in AgentIPs |-> NoNetworks]
    BY DEF NetworkInit
  <2>2. SteadyInv
    <3>1. NeverAborts
      BY <2>1 DEF Init, NeverAborts, AbortReasons
    <3> QED BY <2>1, <3>1, InitLogInv, InitFacts DEF SteadyInv
  <2>3. HostsInv
    BY <2>1 DEF HostsInv, NoNetworks
  <2> QED BY <2>2, <2>3 DEF NetworkInv
<1>2. NetworkInv /\ [NetworkNext]_networkVars => NetworkInv'
  BY NextNetworkInv
<1> QED BY <1>1, <1>2, PTL DEF NetworkSpec

\* Docker networks that checkDockerNetwork and _configureDockerNetwork make,
\* and that outlive the agents and masters behind them, differ from host to
\* host.
THEOREM HostsApart ==
  ASSUME GoneOnly, Steady, Enough PROVE NetworkSpec => []HostsExclusive
<1>1. NetworkInv => HostsExclusive
  <2> SUFFICES ASSUME NetworkInv, NEW a \in AgentIPs, NEW b \in AgentIPs,
                      NEW o \in Overlays, a # b,
                      docker[a][o] # None, docker[b][o] # None
               PROVE  Apart(docker[a][o], docker[b][o])
    BY DEF HostsExclusive
  <2>1. /\ told[a] # None /\ told[a][o] # None /\ docker[a][o] = SubnetsIn(told[a][o])
        /\ told[b] # None /\ told[b][o] # None /\ docker[b][o] = SubnetsIn(told[b][o])
    BY DEF NetworkInv, HostsInv
  <2>2. Disjoint(told[a], told[b])
    BY <2>1, ToldApartNow DEF NetworkInv, ToldExclusive
  <2>3. o \in Names(told[a]) \cap Names(told[b])
    BY <2>1 DEF Names
  <2>4. /\ told[a][o].subnet # told[b][o].subnet \/ told[a][o].subnet = None
        /\ told[a][o].subnet6 # told[b][o].subnet6 \/ told[a][o].subnet6 = None
    BY <2>2, <2>3 DEF Disjoint
  <2>5. /\ docker[a][o] = [subnet |-> told[a][o].subnet, subnet6 |-> told[a][o].subnet6]
        /\ docker[b][o] = [subnet |-> told[b][o].subnet, subnet6 |-> told[b][o].subnet6]
    BY <2>1 DEF SubnetsIn
  <2> QED BY <2>4, <2>5 DEF Apart
<1>2. NetworkSpec => []NetworkInv
  BY NetworkInductive
<1> QED BY <1>1, <1>2, PTL

\* No update tells an agent of another subnet than the one its Docker network
\* has: registerAgent finds, or recovers, what it gave the agent before.
THEOREM NetworksStay ==
  ASSUME GoneOnly, Steady, Enough PROVE NetworkSpec => []NeverMoves
<1>1. NetworkInv => NeverMoves
  BY DEF NetworkInv, HostsInv, NeverMoves
<1>2. NetworkSpec => []NetworkInv
  BY NetworkInductive
<1> QED BY <1>1, <1>2, PTL
=============================================================================
