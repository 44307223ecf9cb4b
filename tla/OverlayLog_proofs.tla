-------------------------- MODULE OverlayLog_proofs --------------------------
(***************************************************************************)
(* Proofs about the replicated log of OverlayMaster, for all agents,       *)
(* overlays, pools, configurations and bounds, when agents are purged only *)
(* after they are gone (GoneOnly).                                         *)
(*                                                                         *)
(* The log, the State being stored, networkState and the queued operations *)
(* are four versions of what agents hold.  The invariant says that each of *)
(* them records no more than the agents map (Covered), and that a purge is *)
(* behind everything that was written for its agents (PurgesInv); the rest *)
(* follows from MemoryExclusive.                                           *)
(*                                                                         *)
(*   LogInductive  the invariant holds                                     *)
(*   Recoverable   a new master can reserve all that the log records       *)
(*   Reserved      what the log records is in no free pool                 *)
(*   Implements    the log implements SubnetRegistry                       *)
(***************************************************************************)
EXTENDS OverlayMaster_proofs

-----------------------------------------------------------------------------
(* The invariant *)

\* What State ns records for agent a, and what queue ops is yet to write.
Recs(ns, a) == {ns[a][i] : i \in DOMAIN ns[a]}

IsWrite(op, a) == op.type \in {"add", "modify"} /\ op.ip = a
IsPurge(op, a) == op.type = "delete" /\ a \in op.ips

Writes(ops, a) == {ops[i].info : i \in {j \in DOMAIN ops : IsWrite(ops[j], a)}}
Purges(ops, a) == \E i \in DOMAIN ops : IsPurge(ops[i], a)

\* Record y names all that record x names.
Within(x, y) ==
    \A o \in Names(x) :
        /\ y[o] # None
        /\ x[o].subnet = y[o].subnet /\ x[o].subnet6 = y[o].subnet6
        /\ x[o].vtep = y[o].vtep /\ x[o].vtep6 = y[o].vtep6

AllWithin(xs, ys) == \A x \in xs, y \in ys : Within(x, y)

\* The agent, by its entry in the agents map, holds all that record x names.
HeldBy(x, agent) == agent # None /\ Within(x, agent.overlays)

AllHeld(ns, as) == \A a \in AgentIPs : \A x \in Recs(ns, a) : HeldBy(x, as[a])

Single(ns) == \A a \in AgentIPs : Len(ns[a]) <= 1

InflightState == IF inflight = None THEN NoRecords ELSE inflight.state
InflightOps == IF inflight = None THEN <<>> ELSE inflight.ops

\* What a process with configuration c can give.
InPools(x, c) ==
    /\ \A o \in Names(x) : /\ x[o].subnet \in InitialPool(o) \cup {None}
                           /\ x[o].subnet6 \in InitialPool6(o) \cup {None}
    /\ Vtep6sOf(x) \subseteq InitialFreeIP6(c)

\* The log can be recovered by a process with the present configuration.
LogSound ==
    /\ Single(log)
    /\ AllDisjoint(log)
    /\ \A a \in AgentIPs : \A x \in Recs(log, a) : InPools(x, config)

\* A process that has not fetched its State has done nothing else either.
Fresh ==
    /\ agents = NoAgents
    /\ networkState = NoRecords
    /\ operations = <<>> /\ mailbox = <<>> /\ inflight = None
    /\ freeIP = VtepIPs
    /\ freeIP6 = InitialFreeIP6(config)
    /\ freeNetworks = [o \in Overlays |-> InitialPool(o)]
    /\ freeNetworks6 = [o \in Overlays |-> InitialPool6(o)]

\* The pools, and what was taken from them.
PoolsInv ==
    /\ freeIP6 \subseteq InitialFreeIP6(config)
    /\ \A o \in Overlays : /\ freeNetworks[o] \subseteq InitialPool(o)
                           /\ freeNetworks6[o] \subseteq InitialPool6(o)
    /\ \A a \in AgentIPs : agents[a] # None =>
            /\ InPools(agents[a].overlays, config)
            /\ BackendVtep6s(agents[a]) \subseteq InitialFreeIP6(config)

\* Operations queue only behind a store, and a State has one record per agent.
StoreInv ==
    /\ inflight = None => operations = <<>>
    /\ inflight # None /\ inflight.landed => log = inflight.state
    /\ Single(networkState)
    /\ Single(InflightState)

\* Whatever is recorded, or about to be, the agent holds in memory.
Covered ==
    /\ AllHeld(log, agents)
    /\ AllHeld(networkState, agents)
    /\ AllHeld(InflightState, agents)
    /\ \A a \in AgentIPs : \A x \in Writes(operations, a) : HeldBy(x, agents[a])

\* Nothing is written for an agent behind its purge, and once the purge was
\* performed no State holds it.
PurgesInv ==
    \A a \in AgentIPs :
        /\ Purges(mailbox, a) =>
            /\ log[a] = <<>> /\ networkState[a] = <<>>
            /\ InflightState[a] = <<>> /\ Writes(operations, a) = {}
        /\ Purges(InflightOps, a) =>
            /\ InflightState[a] = <<>> /\ Writes(operations, a) = {}
        /\ \A i, j \in DOMAIN operations :
            IsPurge(operations[i], a) /\ IsWrite(operations[j], a) => j < i

\* An agent is added when nothing is recorded for it.
Addable(ops, ns) ==
    \A a \in AgentIPs : \A i \in DOMAIN ops :
        ops[i].type = "add" /\ ops[i].ip = a =>
            /\ ns[a] = <<>>
            /\ \A j \in DOMAIN ops : IsWrite(ops[j], a) => i <= j

\* What the log records for an agent grows until it is purged.
GrowsInv ==
    \A a \in AgentIPs :
        /\ AllWithin(Recs(log, a), Recs(InflightState, a))
        /\ AllWithin(Recs(log, a), Writes(operations, a))
        /\ AllWithin(Recs(InflightState, a), Writes(operations, a))
        /\ inflight = None => AllWithin(Recs(log, a), Recs(networkState, a))

\* The parts of the invariant about the queue, the States and the log.
QueueInv ==
    /\ StoreInv
    /\ Covered
    /\ PurgesInv
    /\ Addable(operations, InflightState)
    /\ GrowsInv

LogFacts ==
    /\ ~logged => log = NoRecords
    /\ LogSound
    /\ ~UseLog => ~stored /\ ~recovering /\ inflight = None
    /\ UseLog /\ ~stored => Fresh
    /\ stored => PoolsInv /\ QueueInv

LogInv ==
    /\ TypeOK
    /\ MemoryExclusive
    /\ LogFacts

-----------------------------------------------------------------------------
(* Sequences of operations *)

\* The elements of an appended sequence.
LEMMA Appended ==
  ASSUME NEW S, NEW seq \in Seq(S), NEW x \in S
  PROVE  /\ Append(seq, x) \in Seq(S)
         /\ DOMAIN Append(seq, x) = DOMAIN seq \cup {Len(seq) + 1}
         /\ \A i \in DOMAIN seq : i \in Nat /\ i < Len(seq) + 1
                                  /\ Append(seq, x)[i] = seq[i]
         /\ Append(seq, x)[Len(seq) + 1] = x
<1>1. Len(seq) \in Nat /\ DOMAIN seq = 1..Len(seq)
  BY LenProperties
<1>2. /\ Append(seq, x) \in Seq(S)
      /\ Len(Append(seq, x)) = Len(seq) + 1
      /\ \A i \in 1..(Len(seq) + 1) :
            Append(seq, x)[i] = IF i <= Len(seq) THEN seq[i] ELSE x
  BY <1>1
<1>3. DOMAIN Append(seq, x) = 1..(Len(seq) + 1)
  BY <1>2, LenProperties
<1> QED BY <1>1, <1>2, <1>3

\* What a queue writes and purges, with one more operation.
LEMMA AppendedWrites ==
  ASSUME NEW ops \in Seq(Operation), NEW op \in Operation, NEW a
  PROVE  /\ Writes(Append(ops, op), a)
                = Writes(ops, a) \cup (IF IsWrite(op, a) THEN {op.info} ELSE {})
         /\ Purges(Append(ops, op), a) <=> Purges(ops, a) \/ IsPurge(op, a)
<1> DEFINE more == Append(ops, op)
<1>1. /\ DOMAIN more = DOMAIN ops \cup {Len(ops) + 1}
      /\ \A i \in DOMAIN ops : more[i] = ops[i]
      /\ more[Len(ops) + 1] = op
  BY Appended
<1> HIDE DEF more
<1>2. Writes(more, a)
          = Writes(ops, a) \cup (IF IsWrite(op, a) THEN {op.info} ELSE {})
  BY <1>1 DEF Writes
<1>3. Purges(more, a) <=> Purges(ops, a) \/ IsPurge(op, a)
  BY <1>1 DEF Purges
<1> QED BY <1>2, <1>3 DEF more

\* The empty queue and the empty State.
LEMMA Nothing ==
  /\ \A a : Writes(<<>>, a) = {} /\ ~Purges(<<>>, a)
  /\ \A a \in AgentIPs : Recs(NoRecords, a) = {} /\ NoRecords[a] = <<>>
  /\ Single(NoRecords)
  /\ <<>> \in Seq(Operation)
<1>1. DOMAIN <<>> = {}
  OBVIOUS
<1>2. \A a : Writes(<<>>, a) = {} /\ ~Purges(<<>>, a)
  BY <1>1 DEF Writes, Purges
<1>3. \A a \in AgentIPs : NoRecords[a] = <<>>
  BY DEF NoRecords
<1>4. Single(NoRecords)
  BY <1>3 DEF Single
<1>5. \A a \in AgentIPs : Recs(NoRecords, a) = {}
  BY <1>1, <1>3 DEF Recs
<1> QED BY <1>2, <1>3, <1>4, <1>5, NoneType

\* The records of an agent, as a sequence of at most one.
LEMMA SingleRecs ==
  ASSUME NEW ns \in NetworkState, NEW a \in AgentIPs
  PROVE  /\ Recs(ns, a) \subseteq AgentInfo
         /\ ns[a] # <<>> => ns[a][1] \in Recs(ns, a)
         /\ Recs(ns, a) = {} <=> ns[a] = <<>>
         /\ Single(ns) => \A x, y \in Recs(ns, a) : x = y
         /\ Single(ns) => \A i \in DOMAIN ns[a] : i = 1
         /\ DOMAIN ns[a] \subseteq Nat
<1>1. ns[a] \in Seq(AgentInfo)
  BY DEF NetworkState
<1>2. Len(ns[a]) \in Nat /\ DOMAIN ns[a] = 1..Len(ns[a])
  BY <1>1, LenProperties
<1>3. ns[a] # <<>> => Len(ns[a]) # 0
  BY <1>1, <1>2, EmptySeq
<1>4. \A i \in DOMAIN ns[a] : ns[a][i] \in AgentInfo
  BY <1>1, <1>2, ElementOfSeq
<1>5. Recs(ns, a) \subseteq AgentInfo
  BY <1>4 DEF Recs
<1>6. ns[a] # <<>> => 1 \in DOMAIN ns[a]
  BY <1>2, <1>3
<1>7. ns[a] = <<>> => DOMAIN ns[a] = {}
  OBVIOUS
<1>8. Single(ns) => \A i \in DOMAIN ns[a] : i = 1
  BY <1>2 DEF Single
<1>9. Single(ns) => \A x, y \in Recs(ns, a) : x = y
  BY <1>8 DEF Recs
<1>10. /\ ns[a] # <<>> => ns[a][1] \in Recs(ns, a)
       /\ Recs(ns, a) = {} <=> ns[a] = <<>>
  BY <1>6, <1>7 DEF Recs
<1> QED BY <1>2, <1>5, <1>8, <1>9, <1>10

-----------------------------------------------------------------------------
(* What store() writes *)

\* Induction up to n.
LEMMA Upwards ==
  ASSUME NEW n \in Nat, NEW G \in SUBSET (0..n), NEW m \in 0..n, m \in G,
         \A k \in 1..n : m < k /\ k - 1 \in G => k \in G
  PROVE  \A k \in 0..n : m <= k => k \in G
<1> DEFINE Bad == {k \in 0..n : m <= k /\ k \notin G}
<1> SUFFICES ASSUME Bad # {} PROVE FALSE
  OBVIOUS
<1>1. Bad \in SUBSET Nat
  OBVIOUS
<1>2. PICK k \in Bad : \A j \in Bad : k <= j
  <2> HIDE DEF Bad
  <2> QED BY <1>1, LeastElement
<1>3. k # m /\ k \in 1..n /\ m < k /\ k - 1 \in 0..n /\ m <= k - 1
  BY <1>2
<1>4. k - 1 \in G
  BY <1>2, <1>3
<1> QED BY <1>2, <1>3, <1>4

\* One operation writes no more than it says, and only for its agent.
LEMMA PerformRecs ==
  ASSUME NEW op \in Operation, NEW ns \in NetworkState, NEW present,
         NEW a \in AgentIPs
  PROVE  /\ Recs(Perform(op, ns, present), a)
                \subseteq Recs(ns, a) \cup (IF IsWrite(op, a) THEN {op.info} ELSE {})
         /\ IsPurge(op, a) => Perform(op, ns, present)[a] = <<>>
         /\ ~IsWrite(op, a) /\ ns[a] = <<>> => Perform(op, ns, present)[a] = <<>>
         /\ Len(ns[a]) <= 1 /\ (op.type = "add" /\ op.ip = a => ns[a] = <<>>)
                => Len(Perform(op, ns, present)[a]) <= 1
<1> DEFINE after == Perform(op, ns, present)
<1>0. /\ ns[a] \in Seq(AgentInfo)
      /\ Len(ns[a]) \in Nat /\ DOMAIN ns[a] = 1..Len(ns[a])
  BY LenProperties DEF NetworkState
<1>1. CASE ~CanPerform(op, ns, present)
  <2>1. after = ns /\ op.type # "delete"
    BY <1>1 DEF Perform, CanPerform
  <2> QED BY <2>1 DEF IsPurge
<1>2. CASE CanPerform(op, ns, present) /\ op.type = "add"
  <2>1. op.ip \in AgentIPs /\ op.info \in AgentInfo
    BY <1>2 DEF Operation
  <2>2. after = [ns EXCEPT ![op.ip] = Append(ns[op.ip], op.info)]
    BY <1>2 DEF Perform
  <2>3. CASE op.ip # a
    <3>1. after[a] = ns[a]
      BY <2>2, <2>3 DEF NetworkState
    <3> QED BY <1>2, <2>3, <3>1 DEF Recs, IsPurge, IsWrite
  <2>4. CASE op.ip = a
    <3>1. after[a] = Append(ns[a], op.info)
      BY <2>1, <2>2, <2>4 DEF NetworkState
    <3>2. /\ DOMAIN after[a] = DOMAIN ns[a] \cup {Len(ns[a]) + 1}
          /\ \A i \in DOMAIN ns[a] : after[a][i] = ns[a][i]
          /\ after[a][Len(ns[a]) + 1] = op.info
      BY <1>0, <2>1, <3>1, Appended
    <3>3. IsWrite(op, a) /\ ~IsPurge(op, a)
      BY <1>2, <2>4 DEF IsWrite, IsPurge
    <3>4. Recs(after, a) \subseteq Recs(ns, a) \cup {op.info}
      BY <3>2 DEF Recs
    <3>5. ns[a] = <<>> => Len(after[a]) <= 1
      BY <2>1, <3>1
    <3>6. (op.type = "add" /\ op.ip = a => ns[a] = <<>>) => ns[a] = <<>>
      BY <1>2, <2>4
    <3> HIDE DEF after
    <3> QED BY <3>3, <3>4, <3>5, <3>6 DEF after
  <2> QED BY <2>3, <2>4
<1>3. CASE CanPerform(op, ns, present) /\ op.type = "modify"
  <2>1. op.ip \in AgentIPs /\ op.info \in AgentInfo
    BY <1>3 DEF Operation
  <2>2. after = [ns EXCEPT ![op.ip] = [ns[op.ip] EXCEPT ![1] = op.info]]
    BY <1>3 DEF Perform
  <2>3. CASE op.ip # a
    <3>1. after[a] = ns[a]
      BY <2>2, <2>3 DEF NetworkState
    <3> QED BY <1>3, <2>3, <3>1 DEF Recs, IsPurge, IsWrite
  <2>4. CASE op.ip = a
    <3>1. after[a] = [ns[a] EXCEPT ![1] = op.info]
      BY <2>1, <2>2, <2>4 DEF NetworkState
    <3>2. 1 \in 1..Len(ns[a])
      BY <1>0, <1>3, <2>4, EmptySeq DEF CanPerform
    <3>3. Len(after[a]) = Len(ns[a]) /\ DOMAIN after[a] = DOMAIN ns[a]
      BY <1>0, <2>1, <3>1, <3>2, ExceptSeq
    <3>4. \A i \in DOMAIN ns[a] :
                after[a][i] = IF i = 1 THEN op.info ELSE ns[a][i]
      BY <1>0, <3>1, <3>2
    <3>5. IsWrite(op, a) /\ ~IsPurge(op, a)
      BY <1>3, <2>4 DEF IsWrite, IsPurge
    <3>6. Recs(after, a) \subseteq Recs(ns, a) \cup {op.info}
      BY <3>3, <3>4 DEF Recs
    <3> QED BY <1>3, <2>4, <3>3, <3>5, <3>6
  <2> QED BY <2>3, <2>4
<1>4. CASE CanPerform(op, ns, present) /\ op.type = "delete"
  <2>1. after[a] = IF a \in op.ips THEN <<>> ELSE ns[a]
    BY <1>4 DEF Perform
  <2>2. ~IsWrite(op, a) /\ op.type # "add"
    BY <1>4 DEF IsWrite
  <2>3. Recs(after, a) \subseteq Recs(ns, a)
    BY <2>1 DEF Recs
  <2>4. Len(<<>>) = 0
    OBVIOUS
  <2> QED BY <2>1, <2>2, <2>3, <2>4 DEF IsPurge
<1> QED BY <1>1, <1>2, <1>3, <1>4 DEF CanPerform

\* The States that store() goes through; the last is the one it writes.
IsRun(run, ops, ns, present) ==
    /\ Len(ops) \in Nat
    /\ run[0] = ns
    /\ run[Len(ops)] = PerformAll(ops, ns, present)
    /\ \A k \in 1..Len(ops) :
          /\ ops[k] \in Operation /\ k - 1 \in 0..Len(ops)
          /\ run[k] = Perform(ops[k], run[k - 1], present)

\* The operations of a store can be followed one State after the other.
LEMMA PerformRun ==
  ASSUME NEW ops \in Seq(Operation), NEW ns \in NetworkState, NEW present
  PROVE  \E run \in [0..Len(ops) -> NetworkState] : IsRun(run, ops, ns, present)
<1> DEFINE Runs(f) == f = [n \in 0..Len(ops) |->
                              IF n = 0 THEN ns
                              ELSE Perform(ops[n], f[n - 1], present)]
           run == CHOOSE f : Runs(f)
<1>0. Len(ops) \in Nat /\ DOMAIN ops = 1..Len(ops)
  BY LenProperties
<1>1. PICK g \in [0..Len(ops) -> NetworkState] :
            Follows(g, Len(ops), ops, ns, present)
  BY PerformStates
<1>2. Runs(g)
  BY <1>1 DEF Follows
<1>3. Runs(run)
  BY <1>2
<1>4. PerformAll(ops, ns, present) = run[Len(ops)]
  BY DEF PerformAll
<1> HIDE DEF run
<1>5. run[0] = ns
  BY <1>0, <1>3
<1>6. ASSUME NEW k \in 1..Len(ops)
      PROVE  /\ ops[k] \in Operation /\ k - 1 \in 0..Len(ops)
             /\ run[k] = Perform(ops[k], run[k - 1], present)
  BY <1>0, <1>3, ElementOfSeq
<1> DEFINE G == {k \in 0..Len(ops) : run[k] \in NetworkState}
<1>7. \A k \in 0..Len(ops) : k \in G
  <2>1. 0 \in 0..Len(ops) /\ 0 \in G
    BY <1>0, <1>5
  <2>2. \A k \in 1..Len(ops) : k - 1 \in G => k \in G
    BY <1>0, <1>6, PerformType
  <2>3. \A k \in 0..Len(ops) : 0 <= k => k \in G
    <3>1. G \in SUBSET (0..Len(ops))
      OBVIOUS
    <3> HIDE DEF G
    <3> QED BY <1>0, <2>1, <2>2, <3>1, Upwards
  <2> QED BY <1>0, <2>3
<1>8. DOMAIN run = 0..Len(ops) /\ run = [k \in DOMAIN run |-> run[k]]
  BY <1>3
<1>9. run \in [0..Len(ops) -> NetworkState]
  BY <1>7, <1>8
<1> QED BY <1>0, <1>4, <1>5, <1>6, <1>9 DEF IsRun

\* It records what was recorded and what the operations write.
LEMMA PerformAllRecs ==
  ASSUME NEW ops \in Seq(Operation), NEW ns \in NetworkState, NEW present,
         NEW a \in AgentIPs
  PROVE  Recs(PerformAll(ops, ns, present), a) \subseteq Recs(ns, a) \cup Writes(ops, a)
<1>0. PICK run \in [0..Len(ops) -> NetworkState] : IsRun(run, ops, ns, present)
  BY PerformRun
<1>1. /\ Len(ops) \in Nat /\ DOMAIN ops = 1..Len(ops)
      /\ run[0] = ns
      /\ run[Len(ops)] = PerformAll(ops, ns, present)
      /\ \A k \in 1..Len(ops) :
            /\ ops[k] \in Operation /\ k - 1 \in 0..Len(ops)
            /\ run[k] = Perform(ops[k], run[k - 1], present)
  BY <1>0, LenProperties DEF IsRun
<1> DEFINE G == {k \in 0..Len(ops) :
                    Recs(run[k], a) \subseteq Recs(ns, a) \cup Writes(ops, a)}
<1>2. 0 \in 0..Len(ops) /\ 0 \in G
  BY <1>1
<1>3. ASSUME NEW k \in 1..Len(ops), k - 1 \in G PROVE k \in G
  <2>1. IsWrite(ops[k], a) => ops[k].info \in Writes(ops, a)
    BY <1>1 DEF Writes
  <2>2. run[k - 1] \in NetworkState
    BY <1>1
  <2>3. Recs(run[k], a) \subseteq Recs(run[k - 1], a)
                \cup (IF IsWrite(ops[k], a) THEN {ops[k].info} ELSE {})
    BY <1>1, <2>2, PerformRecs
  <2> QED BY <1>1, <1>3, <2>1, <2>3
<1>4. Len(ops) \in G
  <2>1. G \in SUBSET (0..Len(ops))
    OBVIOUS
  <2> HIDE DEF G
  <2>2. Len(ops) \in 0..Len(ops) /\ 0 <= Len(ops)
    BY <1>1
  <2> QED BY <1>1, <1>2, <1>3, <2>1, <2>2, Upwards
<1> QED BY <1>1, <1>4

\* An agent that was purged, with no write behind, is not recorded.
LEMMA PerformAllPurged ==
  ASSUME NEW ops \in Seq(Operation), NEW ns \in NetworkState, NEW present,
         NEW a \in AgentIPs, Purges(ops, a),
         \A i, j \in DOMAIN ops : IsPurge(ops[i], a) /\ IsWrite(ops[j], a) => j < i
  PROVE  PerformAll(ops, ns, present)[a] = <<>>
<1>0. PICK run \in [0..Len(ops) -> NetworkState] : IsRun(run, ops, ns, present)
  BY PerformRun
<1>1. /\ Len(ops) \in Nat /\ DOMAIN ops = 1..Len(ops)
      /\ run[0] = ns
      /\ run[Len(ops)] = PerformAll(ops, ns, present)
      /\ \A k \in 1..Len(ops) :
            /\ ops[k] \in Operation /\ k - 1 \in 0..Len(ops)
            /\ run[k] = Perform(ops[k], run[k - 1], present)
  BY <1>0, LenProperties DEF IsRun
<1>2. PICK m \in DOMAIN ops : IsPurge(ops[m], a)
  BY DEF Purges
<1>3. m \in 1..Len(ops) /\ m \in 0..Len(ops) /\ m <= Len(ops)
  BY <1>1, LenProperties
<1> DEFINE G == {k \in 0..Len(ops) : run[k][a] = <<>>}
<1>4. m \in G
  <2>1. run[m - 1] \in NetworkState
    BY <1>1, <1>3
  <2> QED BY <1>1, <1>2, <1>3, <2>1, PerformRecs
<1>5. ASSUME NEW k \in 1..Len(ops), m < k, k - 1 \in G PROVE k \in G
  <2>1. run[k - 1] \in NetworkState /\ ~(k < m)
    BY <1>1, <1>3, <1>5
  <2>2. ~IsWrite(ops[k], a)
    BY <1>1, <1>2, <2>1
  <2> QED BY <1>1, <1>5, <2>1, <2>2, PerformRecs
<1>6. Len(ops) \in G
  <2>1. G \in SUBSET (0..Len(ops))
    OBVIOUS
  <2> HIDE DEF G
  <2>2. Len(ops) \in 0..Len(ops)
    BY <1>1
  <2> QED BY <1>1, <1>3, <1>4, <1>5, <2>1, <2>2, Upwards
<1> QED BY <1>1, <1>6

\* Agents that are added when they are not recorded are recorded once.
LEMMA PerformAllSingle ==
  ASSUME NEW ops \in Seq(Operation), NEW ns \in NetworkState, NEW present,
         Single(ns), Addable(ops, ns)
  PROVE  Single(PerformAll(ops, ns, present))
<1>0. PICK run \in [0..Len(ops) -> NetworkState] : IsRun(run, ops, ns, present)
  BY PerformRun
<1>1. /\ Len(ops) \in Nat /\ DOMAIN ops = 1..Len(ops)
      /\ run[0] = ns
      /\ run[Len(ops)] = PerformAll(ops, ns, present)
      /\ \A k \in 1..Len(ops) :
            /\ ops[k] \in Operation /\ k - 1 \in 0..Len(ops)
            /\ run[k] = Perform(ops[k], run[k - 1], present)
  BY <1>0, LenProperties DEF IsRun
<1> SUFFICES ASSUME NEW a \in AgentIPs
             PROVE  Len(PerformAll(ops, ns, present)[a]) <= 1
  BY DEF Single
\* Until the first write of the agent it is as it was.
<1> DEFINE Before(k) == ns[a] = <<>> /\ (\A j \in DOMAIN ops : IsWrite(ops[j], a) => k < j)
           G == {k \in 0..Len(ops) : /\ Len(run[k][a]) <= 1
                                     /\ Before(k) => run[k][a] = <<>>}
<1>2. 0 \in 0..Len(ops) /\ 0 \in G
  BY <1>1 DEF Single
<1>3. ASSUME NEW k \in 1..Len(ops), k - 1 \in G PROVE k \in G
  <2>1. run[k - 1] \in NetworkState /\ DOMAIN ops = 1..Len(ops)
    BY <1>1, LenProperties
  <2>2. ASSUME ops[k].type = "add", ops[k].ip = a
        PROVE  run[k - 1][a] = <<>>
    <3>1. ns[a] = <<>> /\ \A j \in DOMAIN ops : IsWrite(ops[j], a) => k <= j
      BY <1>1, <2>2 DEF Addable
    <3>2. \A j \in DOMAIN ops : IsWrite(ops[j], a) => k - 1 < j
      BY <1>1, <2>1, <3>1
    <3> QED BY <1>3, <3>1, <3>2
  <2>3. Len(run[k][a]) <= 1
    BY <1>1, <1>3, <2>1, <2>2, PerformRecs
  <2>4. ASSUME Before(k) PROVE run[k][a] = <<>>
    <3>1. ~IsWrite(ops[k], a)
      BY <1>1, <2>1, <2>4
    <3>2. Before(k - 1)
      BY <1>1, <2>1, <2>4
    <3>3. run[k - 1][a] = <<>>
      BY <1>3, <3>2
    <3> QED BY <1>1, <2>1, <3>1, <3>3, PerformRecs
  <2> QED BY <2>3, <2>4
<1>4. Len(ops) \in G
  <2>1. G \in SUBSET (0..Len(ops))
    OBVIOUS
  <2> HIDE DEF G
  <2>2. Len(ops) \in 0..Len(ops) /\ 0 <= Len(ops)
    BY <1>1
  <2> QED BY <1>1, <1>2, <1>3, <2>1, <2>2, Upwards
<1> QED BY <1>1, <1>4

-----------------------------------------------------------------------------
(* Records and holders *)

\* What a record names is passed on from record to record.
LEMMA WithinTransitive ==
  ASSUME NEW x, NEW y, NEW z, Within(x, y), Within(y, z)
  PROVE  Within(x, z)
BY DEF Within, Names

\* A record names what it names.
LEMMA WithinItself ==
  ASSUME NEW x PROVE Within(x, x)
BY DEF Within, Names

\* An agent that holds nothing is nowhere.
LEMMA NotHeld ==
  ASSUME TypeOK, Covered, NEW a \in AgentIPs, agents[a] = None
  PROVE  /\ log[a] = <<>>
         /\ networkState[a] = <<>>
         /\ InflightState[a] = <<>>
         /\ Writes(operations, a) = {}
<1>1. /\ Recs(log, a) = {} /\ Recs(networkState, a) = {}
      /\ Recs(InflightState, a) = {} /\ Writes(operations, a) = {}
  BY DEF Covered, AllHeld, HeldBy
<1>2. log \in NetworkState /\ networkState \in NetworkState
  BY DEF TypeOK
<1>3. InflightState \in NetworkState
  BY NoneType DEF TypeOK, InflightState, Store
<1> QED BY <1>1, <1>2, <1>3, SingleRecs

\* The State being stored is a State, and its operations are operations.
LEMMA InflightType ==
  ASSUME TypeOK
  PROVE  /\ InflightState \in NetworkState
         /\ InflightOps \in Seq(Operation)
         /\ inflight # None => /\ inflight \in Store
                               /\ InflightState = inflight.state
                               /\ InflightOps = inflight.ops
<1>1. CASE inflight = None
  BY <1>1, NoneType DEF InflightState, InflightOps
<1>2. CASE inflight # None
  BY <1>2 DEF TypeOK, InflightState, InflightOps, Store
<1> QED BY <1>1, <1>2

\* A queue joined to another keeps its purges.
LEMMA JoinedPurges ==
  ASSUME NEW s \in Seq(Operation), NEW t \in Seq(Operation), NEW a,
         Purges(s, a) \/ Purges(t, a)
  PROVE  Purges(s \o t, a)
<1> DEFINE st == s \o t
<1>1. /\ DOMAIN s = 1..Len(s) /\ DOMAIN t = 1..Len(t)
      /\ Len(s) \in Nat /\ Len(t) \in Nat
  BY LenProperties
<1>2. /\ st \in Seq(Operation) /\ Len(st) = Len(s) + Len(t)
      /\ \A i \in 1..(Len(s) + Len(t)) :
            st[i] = IF i <= Len(s) THEN s[i] ELSE t[i - Len(s)]
  BY ConcatProperties
<1>3. DOMAIN st = 1..(Len(s) + Len(t))
  BY <1>2, LenProperties
<1> HIDE DEF st
<1>4. CASE Purges(s, a)
  <2>1. PICK i \in DOMAIN s : IsPurge(s[i], a)
    BY <1>4 DEF Purges
  <2>2. i \in DOMAIN st /\ st[i] = s[i]
    BY <1>1, <1>2, <1>3
  <2> QED BY <2>1, <2>2 DEF Purges, st
<1>5. CASE Purges(t, a)
  <2>1. PICK i \in DOMAIN t : IsPurge(t[i], a)
    BY <1>5 DEF Purges
  <2>2. Len(s) + i \in DOMAIN st /\ st[Len(s) + i] = t[i]
    BY <1>1, <1>2, <1>3
  <2> QED BY <2>1, <2>2 DEF Purges, st
<1> QED BY <1>4, <1>5

\* An agent that still sends messages is not being purged.
LEMMA NotGone ==
  ASSUME GoneOnly, TypeOK, NEW a, ~Gone(a)
  PROVE  /\ ~Purges(operations, a)
         /\ ~Purges(mailbox, a)
         /\ ~Purges(InflightOps, a)
<1> DEFINE pending == operations \o mailbox \o InflightOps
<1>1. /\ operations \in Seq(Operation) /\ mailbox \in Seq(Operation)
      /\ InflightOps \in Seq(Operation)
  BY InflightType DEF TypeOK
<1>2. operations \o mailbox \in Seq(Operation)
  BY <1>1, ConcatProperties
<1>3. ~Purges(pending, a)
  <2>1. PendingDeletes = UNION {pending[i].ips : i \in {j \in DOMAIN pending :
                                                    pending[j].type = "delete"}}
    BY DEF PendingDeletes, InflightOps
  <2>2. a \notin PendingDeletes
    BY DEF Gone
  <2> HIDE DEF pending
  <2> QED BY <2>1, <2>2 DEF Purges, IsPurge
<1>4. ~Purges(operations \o mailbox, a) /\ ~Purges(InflightOps, a)
  BY <1>1, <1>2, <1>3, JoinedPurges
<1> QED BY <1>1, <1>4, JoinedPurges

\* update(), when nothing is being stored, stores its operation.
LEMMA FirstStore ==
  ASSUME TypeOK, UseLog, inflight = None, operations = <<>>, Single(networkState),
         NEW op \in Operation, NEW as, Update(op, as),
         op.type = "add" => networkState[op.ip] = <<>>
  PROVE  /\ UNCHANGED <<networkState, mailbox, operations>>
         /\ inflight' # None /\ ~inflight'.landed
         /\ Single(InflightState')
         /\ \A b \in AgentIPs :
              /\ Recs(InflightState', b) \subseteq Recs(networkState, b)
                        \cup (IF IsWrite(op, b) THEN {op.info} ELSE {})
              /\ IsPurge(op, b) => InflightState'[b] = <<>>
              /\ Purges(InflightOps', b) => IsPurge(op, b)
<1> DEFINE ops == Append(operations, op)
           ns == PerformAll(ops, networkState, Present(as))
<1>1. operations \in Seq(Operation) /\ networkState \in NetworkState
  BY DEF TypeOK
<1>2. ops \in Seq(Operation)
  BY <1>1, Appended
<1>3. /\ DOMAIN ops = {1} /\ ops[1] = op
  <2>1. DOMAIN operations = {} /\ Len(operations) = 0
    OBVIOUS
  <2> QED BY <1>1, <2>1, Appended
<1>4. /\ UNCHANGED <<networkState, mailbox, operations>>
      /\ inflight' = [state |-> ns, ops |-> ops, landed |-> FALSE]
  BY DEF Update, Write
<1>5. inflight' \in Store
  BY <1>1, <1>2, <1>4, PerformAllType DEF Store
<1>6. inflight' # None
  BY <1>5, AbsentAssumption
<1>7. InflightState' = ns /\ InflightOps' = ops /\ ~inflight'.landed
  BY <1>4, <1>6 DEF InflightState, InflightOps
<1> HIDE DEF ns, ops
<1>8. Addable(ops, networkState)
  BY <1>3 DEF Addable
<1>9. Single(ns)
  BY <1>1, <1>2, <1>8, PerformAllSingle DEF ns
<1>10. ASSUME NEW b \in AgentIPs
       PROVE  /\ Recs(ns, b) \subseteq Recs(networkState, b)
                        \cup (IF IsWrite(op, b) THEN {op.info} ELSE {})
              /\ IsPurge(op, b) => ns[b] = <<>>
              /\ Purges(ops, b) => IsPurge(op, b)
  <2>1. Writes(ops, b) = IF IsWrite(op, b) THEN {op.info} ELSE {}
    BY <1>3 DEF Writes
  <2>2. Purges(ops, b) <=> IsPurge(op, b)
    BY <1>3 DEF Purges
  <2>3. Recs(ns, b) \subseteq Recs(networkState, b) \cup Writes(ops, b)
    BY <1>1, <1>2, PerformAllRecs DEF ns
  <2>4. ASSUME IsPurge(op, b) PROVE ns[b] = <<>>
    <3>1. \A i, j \in DOMAIN ops : IsPurge(ops[i], b) /\ IsWrite(ops[j], b) => j < i
      BY <1>3, <2>4 DEF IsPurge, IsWrite
    <3> QED BY <1>1, <1>2, <2>2, <2>4, <3>1, PerformAllPurged DEF ns
  <2> QED BY <2>1, <2>2, <2>3, <2>4
<1> QED BY <1>4, <1>6, <1>7, <1>9, <1>10

-----------------------------------------------------------------------------
(* What update() keeps *)

\* What the agents hold in memory only grows.
AgentsGrow ==
    \A a \in AgentIPs : \A x : HeldBy(x, agents[a]) => HeldBy(x, agents'[a])

\* A write for an agent that holds what it says, and is not being purged.
LEMMA UpdateWriteInv ==
  ASSUME GoneOnly, TypeOK, QueueInv, UseLog, AgentsGrow, UNCHANGED log,
         NEW a \in AgentIPs, ~Gone(a),
         NEW op \in Operation, IsWrite(op, a), Update(op, agents'),
         HeldBy(op.info, agents'[a]), op.info = agents'[a].overlays,
         op.type = "add" => agents[a] = None
  PROVE  QueueInv'
<1>0. StoreInv /\ Covered /\ PurgesInv /\ Addable(operations, InflightState) /\ GrowsInv
  BY DEF QueueInv
<1>1. operations \in Seq(Operation) /\ op.ip = a /\ \A b : ~IsPurge(op, b)
  BY DEF TypeOK, IsWrite, IsPurge
<1>2. op.type = "add" => /\ networkState[a] = <<>> /\ InflightState[a] = <<>>
                         /\ Writes(operations, a) = {}
  BY <1>0, NotHeld
<1>3. /\ AllHeld(log', agents')
      /\ AllHeld(networkState, agents')
      /\ AllHeld(InflightState, agents')
      /\ \A b \in AgentIPs : \A x \in Writes(operations, b) : HeldBy(x, agents'[b])
  BY <1>0 DEF Covered, AllHeld, AgentsGrow
<1>4. /\ AllWithin(Recs(log', a), {op.info})
      /\ AllWithin(Recs(networkState, a), {op.info})
      /\ AllWithin(Recs(InflightState, a), {op.info})
  BY <1>3 DEF AllHeld, HeldBy, AllWithin
<1>5. CASE inflight = None
  <2>1. operations = <<>>
    BY <1>0, <1>5 DEF StoreInv
  <2>2. Single(networkState) /\ (op.type = "add" => networkState[op.ip] = <<>>)
    BY <1>0, <1>1, <1>2 DEF StoreInv
  <2>3. /\ UNCHANGED <<networkState, mailbox, operations>>
        /\ inflight' # None /\ ~inflight'.landed
        /\ Single(InflightState')
        /\ \A b \in AgentIPs :
              /\ Recs(InflightState', b) \subseteq Recs(networkState, b)
                        \cup (IF IsWrite(op, b) THEN {op.info} ELSE {})
              /\ Purges(InflightOps', b) => IsPurge(op, b)
    BY <1>5, <2>1, <2>2, FirstStore
  <2>4. /\ \A b \in AgentIPs : Writes(operations', b) = {} /\ ~Purges(InflightOps', b)
        /\ DOMAIN operations' = {}
    BY <1>1, <2>1, <2>3, Nothing
  <2>5. StoreInv'
    BY <1>0, <2>1, <2>3 DEF StoreInv
  <2>6. Covered'
    <3>1. \A b \in AgentIPs : IsWrite(op, b) => b = a
      BY DEF IsWrite
    <3>2. AllHeld(InflightState', agents')
      BY <1>3, <2>3, <3>1 DEF AllHeld
    <3> QED BY <1>3, <2>3, <2>4, <3>2 DEF Covered
  <2>7. PurgesInv'
    <3>1. ASSUME NEW b \in AgentIPs, Purges(mailbox', b)
          PROVE  log'[b] = <<>> /\ networkState'[b] = <<>> /\ InflightState'[b] = <<>>
      <4>1. b # a
        BY <2>3, <3>1, NotGone
      <4>2. log[b] = <<>> /\ networkState[b] = <<>>
        BY <1>0, <2>3, <3>1 DEF PurgesInv
      <4>3. networkState \in NetworkState /\ InflightState' \in NetworkState
        BY UpdateType, NoneType DEF TypeOK, InflightState, Store
      <4>4. Recs(networkState, b) = {} /\ ~IsWrite(op, b)
        BY <4>1, <4>2, <4>3, SingleRecs DEF IsWrite
      <4>5. Recs(InflightState', b) = {}
        BY <2>3, <4>4
      <4> QED BY <2>3, <4>2, <4>3, <4>5, SingleRecs
    <3> QED BY <2>4, <3>1 DEF PurgesInv
  <2>8. Addable(operations', InflightState')
    BY <2>4 DEF Addable
  <2>9. GrowsInv'
    <3>1. \A b \in AgentIPs : IsWrite(op, b) => b = a
      BY DEF IsWrite
    <3>2. \A b \in AgentIPs : AllWithin(Recs(log, b), Recs(networkState, b))
      BY <1>0, <1>5 DEF GrowsInv
    <3>3. \A b \in AgentIPs : AllWithin(Recs(log', b), Recs(InflightState', b))
      BY <1>4, <2>3, <3>1, <3>2 DEF AllWithin
    <3> QED BY <2>3, <2>4, <3>3 DEF GrowsInv, AllWithin
  <2> QED BY <2>5, <2>6, <2>7, <2>8, <2>9 DEF QueueInv
<1>6. CASE inflight # None
  <2>1. /\ operations' = Append(operations, op)
        /\ UNCHANGED <<inflight, mailbox, networkState>>
    BY <1>6 DEF Update
  <2>2. InflightState' = InflightState /\ InflightOps' = InflightOps
    BY <2>1 DEF InflightState, InflightOps
  <2>3. /\ DOMAIN operations' = DOMAIN operations \cup {Len(operations) + 1}
        /\ \A i \in DOMAIN operations : i \in Nat /\ i < Len(operations) + 1
                                        /\ operations'[i] = operations[i]
        /\ operations'[Len(operations) + 1] = op
        /\ Len(operations) \in Nat
    BY <1>1, <2>1, Appended, LenProperties
  <2>4. \A b \in AgentIPs : Writes(operations', b) = Writes(operations, b)
                                \cup (IF b = a THEN {op.info} ELSE {})
    <3>1. \A b \in AgentIPs : IsWrite(op, b) <=> b = a
      BY DEF IsWrite
    <3> QED BY <1>1, <2>1, <3>1, AppendedWrites
  <2>5. StoreInv'
    BY <1>0, <1>6, <2>1, <2>2 DEF StoreInv
  <2>6. Covered'
    BY <1>3, <2>1, <2>2, <2>4 DEF Covered
  <2>7. PurgesInv'
    <3>1. ~Purges(operations, a) /\ ~Purges(mailbox, a) /\ ~Purges(InflightOps, a)
      BY NotGone
    <3>2. ASSUME NEW b \in AgentIPs, NEW i \in DOMAIN operations',
                 NEW j \in DOMAIN operations',
                 IsPurge(operations'[i], b), IsWrite(operations'[j], b)
          PROVE  j < i
      <4>1. i \in DOMAIN operations /\ IsPurge(operations[i], b)
        BY <1>1, <2>3, <3>2
      <4>2. b # a
        BY <3>1, <4>1 DEF Purges
      <4>3. j \in DOMAIN operations /\ IsWrite(operations[j], b)
        BY <2>3, <3>2, <4>2 DEF IsWrite
      <4> QED BY <1>0, <4>1, <4>3 DEF PurgesInv
    <3> QED BY <1>0, <2>1, <2>2, <2>4, <3>1, <3>2 DEF PurgesInv
  <2>8. Addable(operations', InflightState')
    <3>1. ASSUME NEW b \in AgentIPs, NEW i \in DOMAIN operations',
                 operations'[i].type = "add", operations'[i].ip = b
          PROVE  /\ InflightState[b] = <<>>
                 /\ \A j \in DOMAIN operations' : IsWrite(operations'[j], b) => i <= j
      <4>1. CASE i \in DOMAIN operations
        BY <1>0, <2>3, <3>1, <4>1 DEF Addable
      <4>2. CASE i = Len(operations) + 1
        <5>1. op.type = "add" /\ b = a
          BY <1>1, <2>3, <3>1, <4>2
        <5>2. InflightState[a] = <<>> /\ \A j \in DOMAIN operations : ~IsWrite(operations[j], a)
          BY <1>2, <5>1 DEF Writes
        <5> QED BY <2>3, <4>2, <5>1, <5>2
      <4> QED BY <2>3, <4>1, <4>2
    <3> QED BY <2>2, <3>1 DEF Addable
  <2>9. GrowsInv'
    BY <1>0, <1>4, <1>6, <2>1, <2>2, <2>4 DEF GrowsInv, AllWithin
  <2> QED BY <2>5, <2>6, <2>7, <2>8, <2>9 DEF QueueInv
<1> QED BY <1>5, <1>6

\* A purge, which goes behind all that is written for its agents.
LEMMA UpdatePurgeInv ==
  ASSUME TypeOK, QueueInv, UseLog, UNCHANGED <<log, agents>>,
         NEW op \in Operation, op.type = "delete", Update(op, agents)
  PROVE  QueueInv'
<1>0. StoreInv /\ Covered /\ PurgesInv /\ Addable(operations, InflightState) /\ GrowsInv
  BY DEF QueueInv
<1>1. operations \in Seq(Operation) /\ \A b : ~IsWrite(op, b)
  BY DEF TypeOK, IsWrite
<1>2. networkState \in NetworkState /\ InflightState' \in NetworkState
  BY UpdateType, NoneType DEF TypeOK, InflightState, Store
<1>3. CASE inflight = None
  <2>1. operations = <<>> /\ Single(networkState)
    BY <1>0, <1>3 DEF StoreInv
  <2>2. /\ UNCHANGED <<networkState, mailbox, operations>>
        /\ inflight' # None /\ ~inflight'.landed
        /\ Single(InflightState')
        /\ \A b \in AgentIPs :
              /\ Recs(InflightState', b) \subseteq Recs(networkState, b)
              /\ IsPurge(op, b) => InflightState'[b] = <<>>
              /\ Purges(InflightOps', b) => IsPurge(op, b)
    BY <1>1, <1>3, <2>1, FirstStore
  <2>3. /\ \A b \in AgentIPs : Writes(operations', b) = {}
        /\ DOMAIN operations' = {}
    BY <2>1, <2>2, Nothing
  <2>4. StoreInv'
    BY <1>0, <2>1, <2>2 DEF StoreInv
  <2>5. Covered'
    BY <1>0, <2>2, <2>3 DEF Covered, AllHeld
  <2>6. PurgesInv'
    <3>1. ASSUME NEW b \in AgentIPs, Purges(mailbox', b)
          PROVE  log'[b] = <<>> /\ networkState'[b] = <<>> /\ InflightState'[b] = <<>>
      <4>1. log[b] = <<>> /\ networkState[b] = <<>>
        BY <1>0, <2>2, <3>1 DEF PurgesInv
      <4>2. Recs(InflightState', b) = {}
        BY <1>2, <2>2, <4>1, SingleRecs
      <4> QED BY <1>2, <2>2, <4>1, <4>2, SingleRecs
    <3> QED BY <2>2, <2>3, <3>1 DEF PurgesInv
  <2>7. Addable(operations', InflightState')
    BY <2>3 DEF Addable
  <2>8. GrowsInv'
    BY <1>0, <1>3, <2>2, <2>3 DEF GrowsInv, AllWithin
  <2> QED BY <2>4, <2>5, <2>6, <2>7, <2>8 DEF QueueInv
<1>4. CASE inflight # None
  <2>1. /\ operations' = Append(operations, op)
        /\ UNCHANGED <<inflight, mailbox, networkState>>
    BY <1>4 DEF Update
  <2>2. InflightState' = InflightState /\ InflightOps' = InflightOps
    BY <2>1 DEF InflightState, InflightOps
  <2>3. /\ DOMAIN operations' = DOMAIN operations \cup {Len(operations) + 1}
        /\ \A i \in DOMAIN operations : i \in Nat /\ i < Len(operations) + 1
                                        /\ operations'[i] = operations[i]
        /\ operations'[Len(operations) + 1] = op
        /\ Len(operations) \in Nat
    BY <1>1, <2>1, Appended, LenProperties
  <2>4. \A b \in AgentIPs : Writes(operations', b) = Writes(operations, b)
    BY <1>1, <2>1, AppendedWrites
  <2>5. StoreInv'
    BY <1>0, <1>4, <2>1, <2>2 DEF StoreInv
  <2>6. Covered'
    BY <1>0, <2>1, <2>2, <2>4 DEF Covered
  <2>7. PurgesInv'
    <3>1. ASSUME NEW b \in AgentIPs, NEW i \in DOMAIN operations',
                 NEW j \in DOMAIN operations',
                 IsPurge(operations'[i], b), IsWrite(operations'[j], b)
          PROVE  j < i
      <4>1. j \in DOMAIN operations /\ IsWrite(operations[j], b)
        BY <1>1, <2>3, <3>1
      <4>2. CASE i \in DOMAIN operations
        BY <1>0, <2>3, <3>1, <4>1, <4>2 DEF PurgesInv
      <4>3. CASE i = Len(operations) + 1
        BY <2>3, <4>1, <4>3
      <4> QED BY <2>3, <4>2, <4>3
    <3> QED BY <1>0, <2>1, <2>2, <2>4, <3>1 DEF PurgesInv
  <2>8. Addable(operations', InflightState')
    <3>1. \A i \in DOMAIN operations' : i \notin DOMAIN operations =>
                operations'[i].type = "delete" /\ \A b : ~IsWrite(operations'[i], b)
      BY <1>1, <2>3
    <3>2. ASSUME NEW b \in AgentIPs, NEW i \in DOMAIN operations',
                 operations'[i].type = "add", operations'[i].ip = b
          PROVE  /\ InflightState[b] = <<>>
                 /\ \A j \in DOMAIN operations' : IsWrite(operations'[j], b) => i <= j
      BY <1>0, <2>3, <3>1, <3>2 DEF Addable
    <3> QED BY <2>2, <3>2 DEF Addable
  <2>9. GrowsInv'
    BY <1>0, <1>4, <2>1, <2>2, <2>4 DEF GrowsInv
  <2> QED BY <2>5, <2>6, <2>7, <2>8, <2>9 DEF QueueInv
<1> QED BY <1>3, <1>4

-----------------------------------------------------------------------------
(* Steps that give agents nothing and take nothing from them *)

\* The invariant depends on no more than this.
LEMMA KeptInv ==
  ASSUME LogFacts,
         UNCHANGED <<config, stored, agents, freeIP6, freeNetworks, freeNetworks6,
                     networkState, operations, inflight, log, logged>>,
         recovering' => UseLog \/ recovering,
         UseLog /\ ~stored => UNCHANGED <<freeIP, mailbox>>,
         \A a \in AgentIPs : Purges(mailbox', a) => Purges(mailbox, a)
  PROVE  LogFacts'
<1>1. UseLog' = UseLog
  BY DEF UseLog
<1>2. (~logged => log = NoRecords)' /\ LogSound'
  BY DEF LogFacts, LogSound
<1>3. UseLog' /\ ~stored' => Fresh'
  BY <1>1 DEF LogFacts, Fresh
<1>4. InflightState' = InflightState /\ InflightOps' = InflightOps
  BY DEF InflightState, InflightOps
<1>5. ASSUME stored PROVE PoolsInv' /\ QueueInv'
  <2>1. PoolsInv'
    BY <1>5 DEF LogFacts, PoolsInv
  <2>2. StoreInv' /\ Covered' /\ Addable(operations', InflightState') /\ GrowsInv'
    BY <1>4, <1>5 DEF LogFacts, QueueInv, StoreInv, Covered, GrowsInv
  <2>3. PurgesInv'
    BY <1>4, <1>5 DEF LogFacts, QueueInv, PurgesInv
  <2> QED BY <2>1, <2>2, <2>3 DEF QueueInv
<1> QED BY <1>1, <1>2, <1>3, <1>5 DEF LogFacts

\* A process that stops stays as it is, and the log with it.
LEMMA StopInv ==
  ASSUME LogFacts, NEW reason, Stop(reason), UNCHANGED durable
  PROVE  LogFacts'
BY KeptInv DEF Stop, pools, storage, durable

\* The rest of the mailbox.
LEMMA TailPurges ==
  ASSUME TypeOK, mailbox # <<>>, mailbox' = Tail(mailbox), NEW a, Purges(mailbox', a)
  PROVE  Purges(mailbox, a)
<1>1. /\ mailbox' \in Seq(Operation)
      /\ Len(mailbox') = Len(mailbox) - 1
      /\ \A i \in 1..Len(mailbox') : mailbox'[i] = mailbox[i + 1]
  BY HeadTailProperties DEF TypeOK
<1>2. PICK i \in DOMAIN mailbox' : IsPurge(mailbox'[i], a)
  BY DEF Purges
<1>3. /\ i \in 1..Len(mailbox') /\ DOMAIN mailbox = 1..Len(mailbox)
      /\ Len(mailbox) \in Nat
  BY <1>1, LenProperties DEF TypeOK
<1>4. i + 1 \in DOMAIN mailbox /\ mailbox[i + 1] = mailbox'[i]
  BY <1>1, <1>3
<1> QED BY <1>2, <1>4 DEF Purges

\* _registerAgent sends what is in memory and changes nothing that is recorded.
LEMMA _registerAgentInv ==
  ASSUME LogInv, _registerAgent PROVE LogFacts'
<1>1. /\ mailbox # <<>> /\ mailbox' = Tail(mailbox)
      /\ UNCHANGED <<config, recovering, stored, agents, pools, networkState,
                     operations, inflight, durable>>
  BY DEF _registerAgent
<1>2. \A a \in AgentIPs : Purges(mailbox', a) => Purges(mailbox, a)
  BY <1>1, TailPurges DEF LogInv
<1>3. UseLog => stored
  BY <1>1 DEF LogInv, LogFacts, Fresh
<1> QED BY <1>1, <1>2, <1>3, KeptInv DEF LogInv, pools, durable

-----------------------------------------------------------------------------
(* Registration *)

\* addOverlays gives subnets of the pools on top of what the agent has.
LEMMA AddOverlaysInv ==
  ASSUME TypeOK, PoolsInv, NEW has \in AgentInfo, NEW b \in BackendInfo,
         NEW alloc, InPools(has, config),
         b.vtep6 \in InitialFreeIP6(config) \cup {None}
  PROVE  /\ WithOverlays(has, b, alloc) \in AgentInfo
         /\ Within(has, WithOverlays(has, b, alloc))
         /\ InPools(WithOverlays(has, b, alloc), config)
<1> DEFINE new == WithOverlays(has, b, alloc)
<1>1. new \in AgentInfo
  BY WithOverlaysType
<1>2. \A o \in Overlays : new[o] = IF o \in Added(has, alloc)
                                   THEN NewOverlay(o, b, alloc) ELSE has[o]
  BY DEF WithOverlays
<1> HIDE DEF new
<1>3. \A o \in Names(has) : o \in Overlays /\ o \notin Added(has, alloc)
  BY DEF Added, Missing, Names
<1>4. Within(has, new)
  BY <1>2, <1>3 DEF Within, Names
<1>5. ASSUME NEW o \in Names(new)
      PROVE  /\ new[o].subnet \in InitialPool(o) \cup {None}
             /\ new[o].subnet6 \in InitialPool6(o) \cup {None}
             /\ new[o].vtep6 \in InitialFreeIP6(config) \cup {None}
  <2>1. o \in Overlays
    BY DEF Names
  <2>2. CASE o \in Added(has, alloc)
    <3>1. Takes(o, alloc) => Lowest(freeNetworks[o]) \in freeNetworks[o]
      BY <2>1, FreePoolsNat, LowestInSet DEF Takes
    <3>2. Takes6(o, alloc) => Lowest(freeNetworks6[o]) \in freeNetworks6[o]
      BY <2>1, FreePoolsNat, LowestInSet DEF Takes6
    <3>3. new[o] = NewOverlay(o, b, alloc)
      BY <1>2, <2>1, <2>2
    <3> QED BY <2>1, <3>1, <3>2, <3>3 DEF NewOverlay, PoolsInv
  <2>3. CASE o \notin Added(has, alloc)
    <3>1. new[o] = has[o] /\ o \in Names(has)
      BY <1>2, <2>1, <2>3 DEF Names
    <3>2. has[o].vtep6 \in Vtep6sOf(has) \cup {None}
      BY <3>1 DEF Vtep6sOf
    <3> QED BY <3>1, <3>2 DEF InPools
  <2> QED BY <2>2, <2>3
<1>6. InPools(new, config)
  BY <1>5 DEF InPools, Vtep6sOf
<1> QED BY <1>1, <1>4, <1>6 DEF new

\* A step in which agent a alone gets more keeps what the pools and the agents
\* map are bounded by.
LEMMA GivenInv ==
  ASSUME TypeOK, PoolsInv, NEW a \in AgentIPs, NEW agent \in Agent,
         agents' = [agents EXCEPT ![a] = agent],
         agents[a] # None => Within(agents[a].overlays, agent.overlays),
         InPools(agent.overlays, config),
         BackendVtep6s(agent) \subseteq InitialFreeIP6(config),
         freeIP6' \subseteq freeIP6, config' = config,
         \A o \in Overlays : /\ freeNetworks'[o] \subseteq freeNetworks[o]
                             /\ freeNetworks6'[o] \subseteq freeNetworks6[o]
  PROVE  /\ PoolsInv' /\ AgentsGrow
         /\ agents'[a] = agent /\ HeldBy(agent.overlays, agents'[a])
<1>1. agents'[a] = agent /\ \A b \in AgentIPs \ {a} : agents'[b] = agents[b]
  BY DEF TypeOK
<1>2. agent # None
  BY AbsentAssumption
<1>3. AgentsGrow
  BY <1>1, <1>2, WithinTransitive DEF AgentsGrow, HeldBy
<1>4. HeldBy(agent.overlays, agents'[a])
  BY <1>1, <1>2, WithinItself DEF HeldBy
<1>5. PoolsInv'
  BY <1>1 DEF PoolsInv
<1> QED BY <1>1, <1>3, <1>4, <1>5

\* Allocation only takes from the pools.
LEMMA AllocateLess ==
  ASSUME NEW has, NEW alloc, AllocateSubnets(has, alloc)
  PROVE  \A o \in Overlays : /\ freeNetworks'[o] \subseteq freeNetworks[o]
                             /\ freeNetworks6'[o] \subseteq freeNetworks6[o]
BY DEF AllocateSubnets

\* registerAgent of an agent that is not in the agents map queues its AddAgent.
LEMMA RegisterNewInv ==
  ASSUME GoneOnly, LogInv, NEW a \in AgentIPs, NEW alloc, RegisterNew(a, alloc)
  PROVE  LogFacts'
<1> DEFINE backend == [vtep |-> Lowest(freeIP),
                       vtep6 |-> IF config.network6 THEN Lowest(freeIP6)
                                                    ELSE None]
           agent == [backend |-> backend,
                     overlays |-> WithOverlays(NoOverlays, backend, alloc)]
           op == [type |-> "add", ip |-> a, info |-> agents'[a].overlays]
<1>0. TypeOK /\ LogFacts /\ agents[a] = None /\ ~Gone(a) /\ (UseLog => stored)
  BY DEF LogInv, RegisterNew, CanRegister, Recovered
<1>1. UNCHANGED <<config, recovering, stored, log, logged>>
  BY DEF RegisterNew, durable
<1>2. CASE config.network6 /\ freeIP6 = {}
  <2>1. UNCHANGED <<agents, freeIP6, freeNetworks, freeNetworks6, networkState,
                    storage>>
    BY <1>2 DEF RegisterNew
  <2> QED BY <1>0, <1>1, <2>1, KeptInv DEF storage
<1>3. CASE ~ (config.network6 /\ freeIP6 = {})
  <2>1. /\ freeIP # {} /\ freeIP6' \subseteq freeIP6
        /\ agents' = [agents EXCEPT ![a] = agent]
        /\ AllocateSubnets(NoOverlays, alloc)
        /\ Update(op, agents')
    BY <1>3 DEF RegisterNew
  <2>2. CASE ~UseLog
    <3>1. ~UseLog' /\ ~stored' /\ ~recovering' /\ inflight' = None
      BY <1>0, <1>1, <2>1, <2>2 DEF LogFacts, Update, UseLog
    <3> QED BY <1>0, <1>1, <3>1 DEF LogFacts, LogSound
  <2>3. CASE UseLog
    <3>1. stored /\ PoolsInv /\ QueueInv
      BY <1>0, <2>3 DEF LogFacts
    <3>2. /\ Lowest(freeIP) \in VtepIPs
          /\ config.network6 => Lowest(freeIP6) \in freeIP6 /\ Lowest(freeIP6) \in VtepIP6s
      BY <1>0, <1>3, <2>1, FreePoolsNat, LowestInSet DEF TypeOK
    <3>3. backend \in BackendInfo
      BY <3>2 DEF BackendInfo
    <3>4. backend.vtep6 \in InitialFreeIP6(config) \cup {None}
      BY <3>1, <3>2 DEF PoolsInv
    <3>5. NoOverlays \in AgentInfo /\ InPools(NoOverlays, config)
      BY DEF NoOverlays, AgentInfo, InPools, Names, Vtep6sOf
    <3> HIDE DEF backend
    <3>6. /\ agent.overlays \in AgentInfo /\ InPools(agent.overlays, config)
          /\ agent \in Agent
      BY <1>0, <3>1, <3>3, <3>4, <3>5, AddOverlaysInv DEF Agent
    <3>7. BackendVtep6s(agent) \subseteq InitialFreeIP6(config)
      BY <3>4 DEF BackendVtep6s
    <3> HIDE DEF agent
    <3>8. /\ PoolsInv' /\ AgentsGrow
          /\ agents'[a] = agent /\ HeldBy(agent.overlays, agents'[a])
      BY <1>0, <1>1, <2>1, <3>1, <3>6, <3>7, AllocateLess, GivenInv
    <3>9. op \in Operation /\ IsWrite(op, a) /\ op.info = agents'[a].overlays
      BY <3>6, <3>8 DEF Operation, IsWrite
    <3> HIDE DEF op
    <3>10. QueueInv'
      BY <1>0, <1>1, <2>1, <2>3, <3>1, <3>8, <3>9, UpdateWriteInv
    <3> QED BY <1>0, <1>1, <3>1, <3>8, <3>10 DEF LogFacts, LogSound, UseLog
  <2> QED BY <2>2, <2>3
<1> QED BY <1>2, <1>3

\* Agents that hold more cover all that they covered.
LEMMA GrownInv ==
  ASSUME QueueInv, AgentsGrow, UNCHANGED <<networkState, storage, log>>
  PROVE  QueueInv'
<1>1. InflightState' = InflightState /\ InflightOps' = InflightOps
  BY DEF InflightState, InflightOps, storage
<1>2. UNCHANGED <<networkState, operations, inflight, mailbox, log>>
  BY DEF storage
<1>3. Covered'
  BY <1>1, <1>2 DEF QueueInv, Covered, AllHeld, AgentsGrow
<1>4. StoreInv' /\ PurgesInv' /\ Addable(operations', InflightState') /\ GrowsInv'
  BY <1>1, <1>2 DEF QueueInv, StoreInv, PurgesInv, GrowsInv
<1> QED BY <1>3, <1>4 DEF QueueInv

\* registerAgent of a known agent adds overlays and queues a ModifyAgent.
LEMMA RegisterKnownInv ==
  ASSUME GoneOnly, LogInv, NEW a \in AgentIPs, NEW alloc, RegisterKnown(a, alloc)
  PROVE  LogFacts'
<1> DEFINE needs6 == config.network6 /\ agents[a].backend.vtep6 = None
           has == agents[a].overlays
           backend == IF needs6
                      THEN [agents[a].backend EXCEPT !.vtep6 = Lowest(freeIP6)]
                      ELSE agents[a].backend
           agent == [backend |-> backend,
                     overlays |-> WithOverlays(has, backend, alloc)]
           op == [type |-> "modify", ip |-> a, info |-> agents'[a].overlays]
<1>0. /\ TypeOK /\ LogFacts /\ ~Gone(a) /\ (UseLog => stored)
      /\ agents[a] \in Agent /\ agents[a] # None
      /\ agents[a].backend \in BackendInfo /\ agents[a].backend # None
      /\ has \in AgentInfo
  BY DEF LogInv, TypeOK, RegisterKnown, CanRegister, Recovered, Agent
<1>1. UNCHANGED <<config, recovering, stored, log, logged>>
  BY DEF RegisterKnown, durable
<1>2. /\ needs6 => freeIP6 # {}
      /\ freeIP6' = IF needs6 THEN freeIP6 \ {Lowest(freeIP6)} ELSE freeIP6
      /\ agents' = [agents EXCEPT ![a] = agent]
      /\ AllocateSubnets(has, alloc)
      /\ Update(op, agents') \/ UNCHANGED <<networkState, storage>>
  BY DEF RegisterKnown
<1>3. CASE ~UseLog
  <2>1. ~UseLog' /\ ~stored' /\ ~recovering' /\ inflight' = None
    BY <1>0, <1>1, <1>2, <1>3 DEF LogFacts, Update, UseLog, storage
  <2> QED BY <1>0, <1>1, <2>1 DEF LogFacts, LogSound
<1>4. CASE UseLog
  <2>1. stored /\ PoolsInv /\ QueueInv
    BY <1>0, <1>4 DEF LogFacts
  <2>2. needs6 => Lowest(freeIP6) \in freeIP6 /\ Lowest(freeIP6) \in VtepIP6s
    BY <1>0, <1>2, FreePoolsNat, LowestInSet DEF TypeOK
  <2>3. backend \in BackendInfo
    BY <1>0, <2>2 DEF BackendInfo
  <2>4. backend.vtep6 \in InitialFreeIP6(config) \cup {None}
    <3>1. agents[a].backend.vtep6 \in InitialFreeIP6(config) \cup {None}
      BY <1>0, <2>1 DEF PoolsInv, BackendVtep6s
    <3>2. needs6 => backend.vtep6 = Lowest(freeIP6)
      BY <1>0 DEF BackendInfo
    <3> QED BY <2>1, <2>2, <3>1, <3>2 DEF PoolsInv
  <2>5. InPools(has, config)
    BY <1>0, <2>1 DEF PoolsInv
  <2>6. freeIP6' \subseteq freeIP6
    BY <1>2
  <2> HIDE DEF backend
  <2>7. /\ agent.overlays \in AgentInfo /\ InPools(agent.overlays, config)
        /\ agent \in Agent /\ Within(agents[a].overlays, agent.overlays)
    BY <1>0, <2>1, <2>3, <2>4, <2>5, AddOverlaysInv DEF Agent
  <2>8. BackendVtep6s(agent) \subseteq InitialFreeIP6(config)
    BY <2>4 DEF BackendVtep6s
  <2> HIDE DEF agent
  <2>9. /\ PoolsInv' /\ AgentsGrow
        /\ agents'[a] = agent /\ HeldBy(agent.overlays, agents'[a])
    BY <1>0, <1>1, <1>2, <2>1, <2>6, <2>7, <2>8, AllocateLess, GivenInv
  <2>10. /\ op \in Operation /\ IsWrite(op, a) /\ op.info = agents'[a].overlays
         /\ op.type # "add"
    BY <2>7, <2>9 DEF Operation, IsWrite
  <2> HIDE DEF op
  <2>11. QueueInv'
    <3>1. CASE Update(op, agents')
      BY <1>0, <1>1, <1>4, <2>1, <2>9, <2>10, <3>1, UpdateWriteInv
    <3>2. CASE UNCHANGED <<networkState, storage>>
      BY <1>1, <2>1, <2>9, <3>2, GrownInv
    <3> QED BY <1>2, <3>1, <3>2
  <2> QED BY <1>0, <1>1, <2>1, <2>9, <2>11 DEF LogFacts, LogSound, UseLog
<1> QED BY <1>3, <1>4

\* A report changes no more than statuses, in networkState too.
LEMMA AgentRegisteredInv ==
  ASSUME GoneOnly, LogInv, NEW a \in AgentIPs, NEW status \in [Overlays -> Statuses],
         AgentRegistered(a, status)
  PROVE  LogFacts'
<1> DEFINE reported == [o \in Overlays |->
                IF o \in known[a]
                THEN [agents[a].overlays[o] EXCEPT !.status = status[o]]
                ELSE agents[a].overlays[o]]
           agent == [agents[a] EXCEPT !.overlays = reported]
           op == [type |-> "modify", ip |-> a, info |-> agents'[a].overlays]
<1>0. /\ TypeOK /\ LogFacts /\ ~Gone(a)
      /\ agents[a] \in Agent /\ agents[a] # None
      /\ agents[a].overlays \in AgentInfo
      /\ known[a] \subseteq Names(agents[a].overlays)
  BY DEF LogInv, TypeOK, AgentRegistered, Agent
<1>1. UNCHANGED <<config, recovering, stored, log, logged, freeIP6,
                  freeNetworks, freeNetworks6, operations, inflight, mailbox>>
  BY DEF AgentRegistered, durable, pools, storage
<1>2. agents' = [agents EXCEPT ![a] = agent]
  BY <1>0 DEF AgentRegistered, TypeOK
<1>3. ASSUME NEW o \in Overlays
      PROVE  /\ reported[o] = None <=> agents[a].overlays[o] = None
             /\ reported[o] \in OverlayInfo \cup {None}
             /\ reported[o] # None =>
                  /\ reported[o].subnet = agents[a].overlays[o].subnet
                  /\ reported[o].subnet6 = agents[a].overlays[o].subnet6
                  /\ reported[o].vtep = agents[a].overlays[o].vtep
                  /\ reported[o].vtep6 = agents[a].overlays[o].vtep6
  <2>1. CASE o \in known[a]
    <3>1. agents[a].overlays[o] \in OverlayInfo /\ agents[a].overlays[o] # None
      BY <1>0, <2>1 DEF Names, AgentInfo
    <3>2. reported[o] = [agents[a].overlays[o] EXCEPT !.status = status[o]]
      BY <2>1
    <3>3. reported[o] \in OverlayInfo
      BY <3>1, <3>2 DEF OverlayInfo
    <3>4. reported[o] # None
      BY <3>3, AbsentAssumption
    <3> QED BY <3>1, <3>2, <3>3, <3>4 DEF OverlayInfo
  <2>2. CASE o \notin known[a]
    <3>1. reported[o] = agents[a].overlays[o]
      BY <2>2
    <3> QED BY <1>0, <3>1 DEF AgentInfo
  <2> QED BY <2>1, <2>2
<1>4. reported \in AgentInfo
  BY <1>3 DEF AgentInfo
<1>5. agent \in Agent /\ agent.overlays = reported /\ agent.backend = agents[a].backend
  BY <1>0, <1>4 DEF Agent
<1> HIDE DEF reported
<1>6. Within(agents[a].overlays, agent.overlays)
  BY <1>3, <1>5 DEF Within, Names
<1> HIDE DEF agent
<1>7. CASE ~stored
  <2>1. ~UseLog
    BY <1>0, <1>7 DEF LogFacts, Fresh, NoAgents
  <2> QED BY <1>0, <1>1, <1>7, <2>1 DEF LogFacts, LogSound, UseLog
<1>8. CASE stored
  <2>1. PoolsInv /\ StoreInv /\ Covered /\ PurgesInv /\ GrowsInv
        /\ Addable(operations, InflightState)
    BY <1>0, <1>8 DEF LogFacts, QueueInv
  <2>2. InPools(agent.overlays, config)
    <3>1. InPools(agents[a].overlays, config)
      BY <1>0, <2>1 DEF PoolsInv
    <3> QED BY <1>3, <1>5, <3>1 DEF InPools, Names, Vtep6sOf
  <2>3. BackendVtep6s(agent) \subseteq InitialFreeIP6(config)
    BY <1>0, <1>5, <2>1 DEF PoolsInv, BackendVtep6s
  <2>4. /\ PoolsInv' /\ AgentsGrow
        /\ agents'[a] = agent /\ HeldBy(agent.overlays, agents'[a])
    BY <1>0, <1>1, <1>2, <1>5, <1>6, <2>1, <2>2, <2>3, GivenInv
  <2>5. InflightState' = InflightState /\ InflightOps' = InflightOps
    BY <1>1 DEF InflightState, InflightOps
  <2>6. op \in Operation /\ op.info = agent.overlays /\ \A b : IsWrite(op, b) <=> b = a
    BY <1>4, <1>5, <2>4 DEF Operation, IsWrite
  <2>7. networkState \in NetworkState
    BY <1>0 DEF TypeOK
  <2>8. networkState' = Perform(op, networkState, AgentIPs)
    <3>1. networkState' = IF networkState[a] = <<>> THEN networkState
                          ELSE [networkState EXCEPT ![a] =
                                    [networkState[a] EXCEPT ![1] = agents'[a].overlays]]
      BY <2>7 DEF AgentRegistered, NetworkState
    <3> QED BY <3>1 DEF Perform, CanPerform
  <2> HIDE DEF op
  <2>9. /\ \A b \in AgentIPs : /\ Recs(networkState', b) \subseteq Recs(networkState, b)
                                    \cup (IF IsWrite(op, b) THEN {op.info} ELSE {})
                               /\ b # a /\ networkState[b] = <<>> => networkState'[b] = <<>>
        /\ Single(networkState')
    <3>1. op.type = "modify"
      BY DEF op
    <3> QED BY <2>1, <2>6, <2>7, <2>8, <3>1, PerformRecs DEF StoreInv, Single
  <2>10. StoreInv'
    BY <1>1, <2>1, <2>5, <2>9 DEF StoreInv
  <2>11. Covered'
    BY <1>1, <2>1, <2>4, <2>5, <2>6, <2>9 DEF Covered, AllHeld, AgentsGrow
  <2>12. PurgesInv'
    <3>1. ~Purges(mailbox, a)
      BY <1>0, NotGone
    <3> QED BY <1>1, <2>1, <2>5, <2>9, <3>1 DEF PurgesInv
  <2>13. GrowsInv'
    <3>1. AllWithin(Recs(log, a), {op.info})
      BY <1>1, <2>4, <2>6, <2>11 DEF Covered, AllHeld, HeldBy, AllWithin
    <3>2. inflight = None => \A b \in AgentIPs : AllWithin(Recs(log, b), Recs(networkState', b))
      BY <2>1, <2>6, <2>9, <3>1 DEF GrowsInv, AllWithin
    <3> QED BY <1>1, <2>1, <2>5, <3>2 DEF GrowsInv
  <2>14. QueueInv'
    BY <1>1, <2>1, <2>5, <2>10, <2>11, <2>12, <2>13 DEF QueueInv
  <2> QED BY <1>0, <1>1, <1>8, <2>4, <2>14 DEF LogFacts, LogSound, UseLog
<1> QED BY <1>7, <1>8

-----------------------------------------------------------------------------
(* Purges *)

\* deleteAgentsEndpoint queues a purge.
LEMMA DeleteAgentsInv ==
  ASSUME LogInv, NEW ips \in SUBSET AgentIPs, DeleteAgents(ips) PROVE LogFacts'
<1> DEFINE op == [type |-> "delete", ips |-> ips]
<1>0. TypeOK /\ LogFacts /\ (UseLog => stored)
  BY DEF LogInv, DeleteAgents, Recovered
<1>1. /\ UNCHANGED <<config, recovering, stored, agents, freeIP, freeIP6,
                     freeNetworks, freeNetworks6, log, logged>>
      /\ Update(op, agents)
  BY DEF DeleteAgents, pools, durable
<1>2. op \in Operation /\ op.type = "delete"
  BY DEF Operation
<1> HIDE DEF op
<1>3. CASE ~UseLog
  <2>1. ~UseLog' /\ ~stored' /\ ~recovering' /\ inflight' = None
    BY <1>0, <1>1, <1>3 DEF LogFacts, Update, UseLog
  <2> QED BY <1>0, <1>1, <2>1 DEF LogFacts, LogSound
<1>4. CASE UseLog
  <2>1. stored /\ PoolsInv /\ QueueInv
    BY <1>0, <1>4 DEF LogFacts
  <2>2. QueueInv'
    BY <1>0, <1>1, <1>2, <1>4, <2>1, UpdatePurgeInv
  <2>3. PoolsInv'
    BY <1>1, <2>1 DEF PoolsInv
  <2> QED BY <1>0, <1>1, <2>1, <2>2, <2>3 DEF LogFacts, LogSound, UseLog
<1> QED BY <1>3, <1>4

\* deleteAgents erases agents that nothing records any more.
LEMMA _deleteAgentsEndpointInv ==
  ASSUME LogInv, _deleteAgentsEndpoint PROVE LogFacts'
<1> DEFINE ips == Head(mailbox).ips
<1>0. TypeOK /\ LogFacts /\ mailbox # <<>> /\ Head(mailbox).type = "delete"
  BY DEF LogInv, _deleteAgentsEndpoint
<1>1. CASE DeletionFails(ips)
  BY <1>0, <1>1, StopInv DEF _deleteAgentsEndpoint, Abort
<1>2. CASE ~DeletionFails(ips)
  <2>1. /\ Deallocate(Deleted(ips)) /\ agents' = Without(ips)
        /\ mailbox' = Tail(mailbox)
        /\ UNCHANGED <<config, recovering, stored, networkState, operations,
                       inflight, log, logged>>
    BY <1>2 DEF _deleteAgentsEndpoint, durable
  <2>2. \A a \in ips : a \in AgentIPs => Purges(mailbox, a)
    <3>1. mailbox \in Seq(Operation) /\ 1 \in DOMAIN mailbox /\ mailbox[1] = Head(mailbox)
      BY <1>0, LenProperties, EmptySeq DEF TypeOK
    <3> QED BY <1>0, <3>1 DEF Purges, IsPurge
  <2>3. \A a \in AgentIPs : Purges(mailbox', a) => Purges(mailbox, a)
    BY <1>0, <2>1, TailPurges
  <2>4. \A a \in AgentIPs : agents'[a] = IF a \in ips THEN None ELSE agents[a]
    BY <2>1 DEF Without
  <2> HIDE DEF ips
  <2>5. CASE ~stored
    <3>1. ~UseLog
      BY <1>0, <2>5 DEF LogFacts, Fresh
    <3> QED BY <1>0, <2>1, <2>5, <3>1 DEF LogFacts, LogSound, UseLog
  <2>6. CASE stored
    <3>1. PoolsInv /\ StoreInv /\ Covered /\ PurgesInv /\ GrowsInv
          /\ Addable(operations, InflightState)
      BY <1>0, <2>6 DEF LogFacts, QueueInv
    <3>2. InflightState' = InflightState /\ InflightOps' = InflightOps
      BY <2>1 DEF InflightState, InflightOps
    <3>3. Covered'
      <4>1. ASSUME NEW a \in AgentIPs, a \in ips
            PROVE  /\ Recs(log, a) = {} /\ Recs(networkState, a) = {}
                   /\ Recs(InflightState, a) = {} /\ Writes(operations, a) = {}
        <5>1. /\ log[a] = <<>> /\ networkState[a] = <<>>
              /\ InflightState[a] = <<>> /\ Writes(operations, a) = {}
          BY <2>2, <3>1, <4>1 DEF PurgesInv
        <5>2. /\ log \in NetworkState /\ networkState \in NetworkState
              /\ InflightState \in NetworkState
          BY <1>0, InflightType DEF TypeOK
        <5> QED BY <5>1, <5>2, SingleRecs
      <4> QED BY <2>1, <2>4, <3>1, <3>2, <4>1 DEF Covered, AllHeld
    <3>4. PurgesInv'
      BY <2>1, <2>3, <3>1, <3>2 DEF PurgesInv
    <3>5. StoreInv' /\ GrowsInv' /\ Addable(operations', InflightState')
      BY <2>1, <3>1, <3>2 DEF StoreInv, GrowsInv
    <3>6. PoolsInv'
      <4>1. ASSUME NEW a \in AgentIPs, a \in Deleted(ips)
            PROVE  /\ agents[a] # None /\ InPools(agents[a].overlays, config)
                   /\ agents[a].overlays \in AgentInfo
        BY <1>0, <3>1, <4>1 DEF Deleted, PoolsInv, TypeOK, Agent
      <4>2. Deleted(ips) \subseteq AgentIPs
        BY <1>0, TailType DEF Deleted, Operation, ips
      <4>3. ASSUME NEW o \in Overlays
            PROVE  /\ SubnetsOf(Deleted(ips), o) \subseteq InitialPool(o)
                   /\ Subnets6Of(Deleted(ips), o) \subseteq InitialPool6(o)
        BY <4>1, <4>2 DEF SubnetsOf, Subnets6Of, InPools, Names
      <4>4. \A a \in Deleted(ips) : FreedIP6s(a) \subseteq InitialFreeIP6(config)
        BY <4>1, <4>2 DEF FreedIP6s, InPools
      <4>5. /\ freeIP6' \subseteq InitialFreeIP6(config)
            /\ \A o \in Overlays : /\ freeNetworks'[o] \subseteq InitialPool(o)
                                   /\ freeNetworks6'[o] \subseteq InitialPool6(o)
        BY <2>1, <3>1, <4>3, <4>4 DEF Deallocate, PoolsInv
      <4> QED BY <2>1, <2>4, <3>1, <4>5 DEF PoolsInv
    <3> QED BY <1>0, <2>1, <2>6, <3>3, <3>4, <3>5, <3>6
            DEF LogFacts, LogSound, UseLog, QueueInv
  <2> QED BY <2>5, <2>6
<1> QED BY <1>1, <1>2

-----------------------------------------------------------------------------
(* The store *)

\* What two agents hold is disjoint.
LEMMA HeldDisjoint ==
  ASSUME MemoryExclusive, NEW a \in AgentIPs, NEW b \in AgentIPs, a # b,
         NEW x, HeldBy(x, agents[a]), NEW y, HeldBy(y, agents[b])
  PROVE  Disjoint(x, y)
<1>1. ASSUME NEW c \in AgentIPs, NEW z, HeldBy(z, agents[c])
      PROVE  /\ agents[c] # None
             /\ \A o \in Names(z) :
                  /\ o \in Overlays /\ agents[c].overlays[o] # None
                  /\ HeldSubnets(agents, o)[c] = {z[o].subnet} \ {None}
                  /\ HeldSubnets6(agents, o)[c] = {z[o].subnet6} \ {None}
             /\ VtepsOf(z) \subseteq HeldVteps(agents)[c]
             /\ Vtep6sOf(z) \subseteq HeldVtep6s(agents)[c]
  BY <1>1 DEF HeldBy, Within, Names, HeldSubnets, HeldSubnets6, HeldVteps,
              HeldVtep6s, VtepsOf, Vtep6sOf
<1>2. ASSUME NEW o \in Names(x) \cap Names(y)
      PROVE  /\ x[o].subnet # y[o].subnet \/ x[o].subnet = None
             /\ x[o].subnet6 # y[o].subnet6 \/ x[o].subnet6 = None
  <2>1. /\ HeldSubnets(agents, o)[a] \cap HeldSubnets(agents, o)[b] = {}
        /\ HeldSubnets6(agents, o)[a] \cap HeldSubnets6(agents, o)[b] = {}
    BY <1>1, <1>2 DEF MemoryExclusive, Separate
  <2> QED BY <1>1, <2>1
<1>3. /\ HeldVteps(agents)[a] \cap HeldVteps(agents)[b] = {}
      /\ HeldVtep6s(agents)[a] \cap HeldVtep6s(agents)[b] = {}
  BY DEF MemoryExclusive, Separate
<1> QED BY <1>1, <1>2, <1>3 DEF Disjoint

\* What covers a State keeps its agents apart.
LEMMA CoveredDisjoint ==
  ASSUME MemoryExclusive, PoolsInv, NEW ns \in NetworkState, Single(ns),
         AllHeld(ns, agents)
  PROVE  /\ AllDisjoint(ns)
         /\ \A a \in AgentIPs : \A x \in Recs(ns, a) : InPools(x, config)
<1>1. ASSUME NEW a \in AgentIPs, NEW x \in Recs(ns, a)
      PROVE  InPools(x, config)
  <2>1. HeldBy(x, agents[a]) /\ InPools(agents[a].overlays, config)
    BY <1>1 DEF AllHeld, HeldBy, PoolsInv
  <2> QED BY <2>1 DEF HeldBy, Within, InPools, Names, Vtep6sOf
<1>2. AllDisjoint(ns)
  <2> SUFFICES ASSUME NEW r \in Records(ns), NEW s \in Records(ns), r # s
               PROVE  Disjoint(ns[r[1]][r[2]], ns[s[1]][s[2]])
    BY DEF AllDisjoint
  <2>1. /\ r[1] \in AgentIPs /\ r[2] \in DOMAIN ns[r[1]] /\ r = <<r[1], r[2]>>
        /\ s[1] \in AgentIPs /\ s[2] \in DOMAIN ns[s[1]] /\ s = <<s[1], s[2]>>
    BY DEF Records
  <2>2. r[2] = 1 /\ s[2] = 1
    BY <2>1, SingleRecs
  <2>3. r[1] # s[1]
    BY <2>1, <2>2
  <2>4. /\ HeldBy(ns[r[1]][r[2]], agents[r[1]])
        /\ HeldBy(ns[s[1]][s[2]], agents[s[1]])
    BY <2>1 DEF Recs, AllHeld
  <2> QED BY <2>1, <2>3, <2>4, HeldDisjoint
<1> QED BY <1>1, <1>2

\* A store is in flight only for a process that has recovered.
LEMMA StoringStored ==
  ASSUME LogFacts, inflight # None
  PROVE  UseLog /\ stored
BY DEF LogFacts, Fresh

\* A store that lands makes the log what was in flight.
LEMMA StoreLandsInv ==
  ASSUME LogInv, StoreLands PROVE LogFacts'
<1>0. /\ TypeOK /\ MemoryExclusive /\ LogFacts /\ UseLog /\ stored
      /\ inflight # None /\ inflight \in Store
  BY StoringStored DEF LogInv, StoreLands, TypeOK
<1>1. PoolsInv /\ StoreInv /\ Covered /\ PurgesInv /\ GrowsInv
      /\ Addable(operations, InflightState)
  BY <1>0 DEF LogFacts, QueueInv
<1>2. /\ log' = inflight.state /\ logged'
      /\ inflight' = [inflight EXCEPT !.landed = TRUE]
      /\ UNCHANGED <<config, recovering, stored, agents, freeIP6, freeNetworks,
                     freeNetworks6, networkState, operations, mailbox>>
  BY DEF StoreLands, pools
<1>3. /\ inflight' \in Store /\ inflight'.state = inflight.state
      /\ inflight'.ops = inflight.ops
  BY <1>0, <1>2 DEF Store
<1>4. inflight' # None
  BY <1>3, AbsentAssumption
<1>5. /\ InflightState' = InflightState /\ InflightOps' = InflightOps
      /\ log' = InflightState /\ InflightState \in NetworkState
  BY <1>0, <1>2, <1>3, <1>4, InflightType DEF InflightState, InflightOps
<1>6. LogSound'
  <2>1. /\ AllDisjoint(InflightState) /\ Single(InflightState)
        /\ \A a \in AgentIPs : \A x \in Recs(InflightState, a) : InPools(x, config)
    BY <1>0, <1>1, <1>5, CoveredDisjoint DEF StoreInv, Covered
  <2> QED BY <1>2, <1>5, <2>1 DEF LogSound
<1>7. PoolsInv'
  BY <1>1, <1>2 DEF PoolsInv
<1>8. StoreInv'
  BY <1>1, <1>2, <1>3, <1>4, <1>5 DEF StoreInv
<1>9. Covered'
  BY <1>1, <1>2, <1>5 DEF Covered
<1>10. PurgesInv'
  BY <1>1, <1>2, <1>5 DEF PurgesInv
<1>11. GrowsInv'
  <2>1. \A a \in AgentIPs : AllWithin(Recs(InflightState, a), Recs(InflightState, a))
    BY <1>1, <1>5, SingleRecs, WithinItself DEF StoreInv, AllWithin
  <2> QED BY <1>1, <1>2, <1>4, <1>5, <2>1 DEF GrowsInv
<1>12. QueueInv'
  BY <1>1, <1>2, <1>5, <1>8, <1>9, <1>10, <1>11 DEF QueueInv
<1> QED BY <1>0, <1>2, <1>6, <1>7, <1>12 DEF LogFacts, UseLog

\* _store takes what the log holds, and stores what was queued meanwhile.
LEMMA StoredInv ==
  ASSUME LogInv, Stored PROVE LogFacts'
<1> DEFINE next == PerformAll(operations, inflight.state, Present(agents))
<1>0. /\ TypeOK /\ LogFacts /\ UseLog /\ stored
      /\ inflight # None /\ inflight \in Store /\ inflight.landed /\ mailbox = <<>>
  BY StoringStored DEF LogInv, Stored, StoreDone, TypeOK
<1>1. PoolsInv /\ StoreInv /\ Covered /\ PurgesInv /\ GrowsInv
      /\ Addable(operations, InflightState)
  BY <1>0 DEF LogFacts, QueueInv
<1>2. /\ networkState' = inflight.state /\ mailbox' = inflight.ops
      /\ inflight' = NextWrite /\ operations' = <<>>
      /\ UNCHANGED <<config, recovering, stored, agents, freeIP6, freeNetworks,
                     freeNetworks6, log, logged>>
  BY DEF Stored, pools, durable
<1>3. /\ InflightState = inflight.state /\ InflightOps = inflight.ops
      /\ log = InflightState /\ networkState' = log
      /\ InflightState \in NetworkState /\ operations \in Seq(Operation)
  BY <1>0, <1>1, <1>2, InflightType DEF StoreInv, TypeOK
<1>4. next \in NetworkState /\ Single(next)
  BY <1>1, <1>3, PerformAllType, PerformAllSingle DEF StoreInv
<1>5. \/ inflight' = None /\ InflightState' = NoRecords /\ InflightOps' = <<>>
      \/ /\ inflight' # None /\ ~inflight'.landed
         /\ InflightState' = next /\ InflightOps' = operations
  <2>1. CASE operations = <<>>
    BY <1>2, <2>1 DEF NextWrite, InflightState, InflightOps
  <2>2. CASE operations # <<>>
    <3>1. inflight' = [state |-> next, ops |-> operations, landed |-> FALSE]
      BY <1>2, <2>2 DEF NextWrite, Write
    <3>2. inflight' \in Store
      BY <1>3, <1>4, <3>1 DEF Store
    <3>3. inflight' # None
      BY <3>2, AbsentAssumption
    <3> QED BY <3>1, <3>3 DEF InflightState, InflightOps
  <2> QED BY <2>1, <2>2
<1> HIDE DEF next
<1>6. ASSUME NEW a \in AgentIPs
      PROVE  /\ Recs(next, a) \subseteq Recs(InflightState, a) \cup Writes(operations, a)
             /\ Purges(operations, a) => next[a] = <<>>
             /\ InflightState[a] = <<>> /\ Writes(operations, a) = {} => next[a] = <<>>
  <2>1. Recs(next, a) \subseteq Recs(InflightState, a) \cup Writes(operations, a)
    BY <1>3, PerformAllRecs DEF next
  <2>2. Purges(operations, a) => next[a] = <<>>
    BY <1>1, <1>3, PerformAllPurged DEF next, PurgesInv
  <2>3. ASSUME InflightState[a] = <<>>, Writes(operations, a) = {}
        PROVE  next[a] = <<>>
    <3>1. Recs(InflightState, a) = {}
      BY <1>3, <2>3, SingleRecs
    <3> QED BY <1>4, <2>1, <2>3, <3>1, SingleRecs
  <2> QED BY <2>1, <2>2, <2>3
<1>7. \A a \in AgentIPs : Writes(operations', a) = {}
  BY <1>2, Nothing
<1>8. DOMAIN operations' = {}
  BY <1>2
<1>9. PoolsInv'
  BY <1>1, <1>2 DEF PoolsInv
<1>10. StoreInv'
  BY <1>1, <1>2, <1>3, <1>4, <1>5, Nothing DEF StoreInv
<1>11. Covered'
  <2>1. AllHeld(next, agents)
    BY <1>1, <1>6 DEF Covered, AllHeld
  <2>2. AllHeld(NoRecords, agents)
    BY Nothing DEF AllHeld
  <2> QED BY <1>1, <1>2, <1>3, <1>5, <1>7, <2>1, <2>2 DEF Covered
<1>12. PurgesInv'
  <2>1. ASSUME NEW a \in AgentIPs, Purges(mailbox', a)
        PROVE  log'[a] = <<>> /\ networkState'[a] = <<>> /\ InflightState'[a] = <<>>
    <3>1. InflightState[a] = <<>> /\ Writes(operations, a) = {}
      BY <1>1, <1>2, <1>3, <2>1 DEF PurgesInv
    <3> QED BY <1>2, <1>3, <1>5, <1>6, <3>1, Nothing
  <2>2. ASSUME NEW a \in AgentIPs, Purges(InflightOps', a)
        PROVE  InflightState'[a] = <<>>
    BY <1>5, <1>6, <2>2, Nothing
  <2> QED BY <1>7, <1>8, <2>1, <2>2 DEF PurgesInv
<1>13. GrowsInv'
  <2>1. ASSUME NEW a \in AgentIPs
        PROVE  /\ AllWithin(Recs(log, a), Recs(log, a))
               /\ AllWithin(Recs(log, a), Recs(next, a))
    <3>1. AllWithin(Recs(log, a), Recs(log, a))
      BY <1>1, <1>3, SingleRecs, WithinItself DEF StoreInv, AllWithin
    <3> QED BY <1>1, <1>3, <1>6, <3>1 DEF GrowsInv, AllWithin
  <2> QED BY <1>2, <1>3, <1>5, <1>7, <2>1, Nothing DEF GrowsInv, AllWithin
<1>14. QueueInv'
  BY <1>8, <1>10, <1>11, <1>12, <1>13 DEF QueueInv, Addable
<1> QED BY <1>0, <1>2, <1>9, <1>14 DEF LogFacts, LogSound, UseLog

-----------------------------------------------------------------------------
(* Recovery and restarts *)

\* Clearing the status of a record leaves all that it names.
LEMMA ClearStatusWithin ==
  ASSUME NEW x \in AgentInfo
  PROVE  Within(x, ClearStatus(x)) /\ Within(ClearStatus(x), x)
<1>1. \A o \in Names(x) : o \in Overlays /\ x[o] \in OverlayInfo /\ x[o] # None
  BY DEF Names, AgentInfo
<1>2. ASSUME NEW o \in Names(x)
      PROVE  /\ ClearStatus(x)[o] # None
             /\ ClearStatus(x)[o].subnet = x[o].subnet
             /\ ClearStatus(x)[o].subnet6 = x[o].subnet6
             /\ ClearStatus(x)[o].vtep = x[o].vtep
             /\ ClearStatus(x)[o].vtep6 = x[o].vtep6
  <2>1. ClearStatus(x)[o] = [x[o] EXCEPT !.status = None]
    BY <1>1 DEF ClearStatus
  <2>2. ClearStatus(x)[o] \in OverlayInfo
    BY <1>1, <2>1 DEF OverlayInfo
  <2> QED BY <1>1, <2>1, <2>2, AbsentAssumption DEF OverlayInfo
<1>3. Names(ClearStatus(x)) \subseteq Names(x)
  BY DEF Names, ClearStatus
<1> QED BY <1>1, <1>2, <1>3 DEF Within

\* What records less names less of the pools.
LEMMA WithinPools ==
  ASSUME NEW x, NEW y, NEW c, Within(x, y), InPools(y, c)
  PROVE  InPools(x, c)
BY DEF Within, InPools, Names, Vtep6sOf

\* _recover makes the agents map and networkState what the log records.
LEMMA RecoverInv ==
  ASSUME LogInv, TypeOK', Recover PROVE LogFacts'
<1>0. TypeOK /\ LogFacts /\ UseLog /\ Fresh
  BY DEF LogInv, LogFacts, Recover, FetchPending
<1>1. PICK first \in [AgentIPs -> Backends(log) \cup {None}] :
        /\ \A a \in AgentIPs :
              first[a] \in IF log[a] = <<>> THEN {None}
                                            ELSE BackendsOf(log[a][1])
        /\ agents' = [a \in AgentIPs |->
              IF log[a] = <<>> THEN None
              ELSE [backend |-> first[a],
                    overlays |-> ClearStatus(log[a][1])]]
  BY DEF Recover
<1>2. /\ UNCHANGED <<config, operations, mailbox, inflight, log, logged>>
      /\ stored' /\ ~recovering'
      /\ freeIP6' \subseteq freeIP6
      /\ \A o \in Overlays : /\ freeNetworks'[o] \subseteq freeNetworks[o]
                             /\ freeNetworks6'[o] \subseteq freeNetworks6[o]
  BY DEF Recover, storage, durable, Reserve, ReserveSubnets, ReserveSubnets6,
         ReserveIP6s
<1>3. /\ log \in NetworkState /\ networkState' \in NetworkState /\ Single(log)
  BY <1>0 DEF TypeOK, LogFacts, LogSound
<1>4. \A a \in AgentIPs :
        networkState'[a] = [i \in DOMAIN log[a] |-> ClearStatus(log[a][i])]
  BY DEF Recover
<1>5. ASSUME NEW a \in AgentIPs, NEW x \in Recs(log, a)
      PROVE  /\ x \in AgentInfo /\ InPools(x, config) /\ log[a] # <<>>
             /\ agents'[a] # None /\ agents'[a].overlays = ClearStatus(x)
             /\ agents'[a].backend \in BackendsOf(x)
  <2>1. x \in AgentInfo /\ log[a] # <<>> /\ x = log[a][1] /\ InPools(x, config)
    BY <1>0, <1>3, SingleRecs DEF LogFacts, LogSound
  <2>2. first[a] \in BackendInfo \cup {None}
    BY <1>1, <2>1 DEF BackendsOf, Names, AgentInfo, OverlayInfo, BackendInfo
  <2>3. agents'[a] = [backend |-> first[a], overlays |-> ClearStatus(x)]
    BY <1>1, <2>1
  <2>4. agents'[a] \in Agent
    BY <2>1, <2>2, <2>3, ClearStatusType DEF Agent
  <2>5. agents'[a] # None
    BY <2>4, AbsentAssumption
  <2> QED BY <1>1, <2>1, <2>3, <2>5
<1>6. \A a \in AgentIPs : agents'[a] # None => log[a][1] \in Recs(log, a)
  BY <1>1, <1>3, SingleRecs
<1>7. PoolsInv'
  <2>1. ASSUME NEW a \in AgentIPs, agents'[a] # None
        PROVE  /\ InPools(agents'[a].overlays, config)
               /\ BackendVtep6s(agents'[a]) \subseteq InitialFreeIP6(config)
    <3> DEFINE x == log[a][1]
    <3>1. /\ x \in AgentInfo /\ InPools(x, config)
          /\ agents'[a].overlays = ClearStatus(x)
          /\ agents'[a].backend \in BackendsOf(x)
      BY <1>5, <1>6, <2>1
    <3> HIDE DEF x
    <3>2. InPools(agents'[a].overlays, config)
      BY <3>1, ClearStatusWithin, WithinPools
    <3>3. BackendVtep6s(agents'[a]) \subseteq Vtep6sOf(x)
      BY <3>1 DEF BackendVtep6s, BackendsOf, Vtep6sOf
    <3> QED BY <3>1, <3>2, <3>3 DEF InPools
  <2> QED BY <1>0, <1>2, <2>1 DEF PoolsInv, Fresh
<1>8. InflightState' = NoRecords /\ InflightOps' = <<>> /\ inflight' = None
      /\ operations' = <<>> /\ mailbox' = <<>>
  BY <1>0, <1>2 DEF Fresh, InflightState, InflightOps
<1>9. ASSUME NEW a \in AgentIPs, NEW y \in Recs(networkState', a)
      PROVE  \E x \in Recs(log, a) : y = ClearStatus(x)
  <2>1. DOMAIN networkState'[a] = DOMAIN log[a]
    BY <1>4
  <2>2. PICK i \in DOMAIN networkState'[a] : y = networkState'[a][i]
    BY <1>9 DEF Recs
  <2>3. y = ClearStatus(log[a][i]) /\ log[a][i] \in Recs(log, a)
    BY <1>4, <2>1, <2>2 DEF Recs
  <2> QED BY <2>3
<1>10. StoreInv'
  <2>1. ASSUME NEW a \in AgentIPs PROVE Len(networkState'[a]) <= 1
    <3>1. DOMAIN networkState'[a] = DOMAIN log[a]
      BY <1>4
    <3>2. networkState'[a] \in Seq(AgentInfo)
      BY <1>3 DEF NetworkState
    <3>3. /\ DOMAIN networkState'[a] = 1..Len(networkState'[a])
          /\ Len(networkState'[a]) \in Nat
      BY <3>2, LenProperties
    <3>4. \A i \in DOMAIN log[a] : i = 1
      BY <1>3, SingleRecs
    <3> DEFINE n == Len(networkState'[a])
    <3>5. n \in Nat /\ \A i \in 1..n : i = 1
      BY <3>1, <3>3, <3>4
    <3> HIDE DEF n
    <3>6. n <= 1
      <4>1. CASE n >= 2
        <5>1. 2 \in 1..n
          BY <3>5, <4>1
        <5> QED BY <3>5, <5>1
      <4> QED BY <3>5, <4>1
    <3> QED BY <3>6 DEF n
  <2> QED BY <1>8, <2>1, Nothing DEF StoreInv, Single
<1>11. Covered'
  <2>1. AllHeld(log, agents')
    BY <1>5, ClearStatusWithin DEF AllHeld, HeldBy
  <2>2. AllHeld(networkState', agents')
    BY <1>5, <1>9, WithinItself DEF AllHeld, HeldBy
  <2>3. AllHeld(NoRecords, agents')
    BY Nothing DEF AllHeld
  <2> QED BY <1>2, <1>8, <2>1, <2>2, <2>3, Nothing DEF Covered
<1>12. PurgesInv' /\ Addable(operations', InflightState')
  <2>1. DOMAIN operations' = {}
    BY <1>8
  <2> QED BY <1>8, <2>1, Nothing DEF PurgesInv, Addable
<1>13. GrowsInv'
  <2>1. \A a \in AgentIPs : AllWithin(Recs(log, a), Recs(networkState', a))
    <3> SUFFICES ASSUME NEW a \in AgentIPs, NEW x \in Recs(log, a),
                        NEW y \in Recs(networkState', a)
                 PROVE  Within(x, y)
      BY DEF AllWithin
    <3>1. y = ClearStatus(x) /\ x \in AgentInfo
      BY <1>3, <1>5, <1>9, SingleRecs
    <3> QED BY <3>1, ClearStatusWithin
  <2> QED BY <1>2, <1>8, <2>1, Nothing DEF GrowsInv, AllWithin
<1>14. LogSound' /\ (~logged' => log' = NoRecords) /\ UseLog'
  BY <1>0, <1>2 DEF LogFacts, LogSound, UseLog
<1> QED BY <1>2, <1>7, <1>10, <1>11, <1>12, <1>13, <1>14 DEF LogFacts, QueueInv

\* _recover, when nothing was ever stored.
LEMMA RecoverNothingInv ==
  ASSUME LogInv, RecoverNothing PROVE LogFacts'
<1>0. LogFacts /\ UseLog /\ Fresh /\ log = NoRecords
  BY DEF LogInv, LogFacts, RecoverNothing, FetchPending
<1>1. /\ UNCHANGED <<config, recovering, agents, freeIP6, freeNetworks,
                     freeNetworks6, networkState, operations, mailbox, inflight,
                     log, logged>>
      /\ stored'
  BY DEF RecoverNothing, storage, durable, pools
<1>2. /\ log' = NoRecords /\ networkState' = NoRecords /\ InflightState' = NoRecords
      /\ InflightOps' = <<>> /\ operations' = <<>> /\ mailbox' = <<>>
      /\ inflight' = None
  BY <1>0, <1>1 DEF Fresh, InflightState, InflightOps
<1>3. DOMAIN operations' = {} /\ \A a \in AgentIPs : agents'[a] = None
  BY <1>0, <1>1, <1>2 DEF Fresh, NoAgents
<1>4. PoolsInv'
  BY <1>0, <1>1, <1>3 DEF Fresh, PoolsInv
<1>5. StoreInv' /\ Covered' /\ PurgesInv' /\ Addable(operations', InflightState')
      /\ GrowsInv'
  BY <1>2, <1>3, Nothing
  DEF StoreInv, Covered, AllHeld, PurgesInv, Addable, GrowsInv, AllWithin
<1>6. LogSound' /\ UseLog'
  BY <1>0, <1>1 DEF LogFacts, LogSound, UseLog
<1> QED BY <1>1, <1>2, <1>4, <1>5, <1>6 DEF LogFacts, QueueInv

\* A new process has at least the pools of the old one.
LEMMA StartInv ==
  ASSUME LogInv, NEW c \in Configs, config.network6 => c.network6,
         c.log = config.log, Start(c)
  PROVE  LogFacts'
<1>1. /\ config' = c /\ ~stored' /\ ~recovering' /\ inflight' = None
      /\ UNCHANGED <<log, logged>>
  BY DEF Start, durable
<1>2. InitialFreeIP6(config) \subseteq InitialFreeIP6(c)
  BY DEF InitialFreeIP6
<1>3. LogSound'
  BY <1>1, <1>2 DEF LogInv, LogFacts, LogSound, InPools
<1>4. Fresh'
  BY DEF Start, Fresh
<1> QED BY <1>1, <1>3, <1>4 DEF LogInv, LogFacts

\* The first process starts from an empty log.
LEMMA InitLogInv ==
  ASSUME Init PROVE LogInv
<1>1. TypeOK /\ MemoryExclusive
  BY InitType, InitExclusive
<1>2. LogSound
  <2>1. log = NoRecords
    BY DEF Init
  <2>2. Records(log) = {}
    BY <2>1, Nothing DEF Records
  <2> QED BY <2>1, <2>2, Nothing DEF LogSound, AllDisjoint
<1>3. Fresh
  BY DEF Init, Fresh
<1> QED BY <1>1, <1>2, <1>3 DEF LogInv, LogFacts, Init

\* Every step keeps it.
LEMMA NextLogInv ==
  ASSUME GoneOnly, LogInv, [Next]_vars PROVE LogInv'
<1>0. TypeOK /\ MemoryExclusive /\ LogFacts
  BY DEF LogInv
<1>1. TypeOK' /\ MemoryExclusive'
  BY <1>0, TypeStep, ExclusiveStep
<1>2. ASSUME NEW a \in AgentIPs, RegisterAgent(a) PROVE LogFacts'
  <2>1. CASE StartRecovery(a)
    BY <1>0, <2>1, KeptInv DEF StartRecovery, pools, storage, durable
  <2>2. ASSUME NEW alloc \in AllocChoices,
               RegisterNew(a, alloc) \/ RegisterKnown(a, alloc)
        PROVE  LogFacts'
    BY <2>2, RegisterNewInv, RegisterKnownInv
  <2>3. CASE RegistrationDropped(a)
    BY <1>0, <2>3, KeptInv DEF RegistrationDropped, vars, pools, storage, durable
  <2>4. CASE RegisterAborts(a)
    BY <1>0, <2>4, StopInv DEF RegisterAborts, Abort
  <2> QED BY <1>2, <2>1, <2>2, <2>3, <2>4 DEF RegisterAgent
<1>3. ASSUME NEW a \in AgentIPs, NEW status \in [Overlays -> Statuses],
             AgentRegistered(a, status)
      PROVE  LogFacts'
  BY <1>3, AgentRegisteredInv
<1>4. ASSUME NEW a \in AgentIPs, AgentRegisteredAborts(a) PROVE LogFacts'
  BY <1>0, <1>4, StopInv DEF AgentRegisteredAborts, Abort
<1>5. ASSUME NEW a \in AgentIPs, AgentRestart(a) PROVE LogFacts'
  BY <1>0, <1>5, KeptInv DEF AgentRestart, pools, storage, durable
<1>6. ASSUME NEW ips \in SUBSET AgentIPs, DeleteAgents(ips) PROVE LogFacts'
  BY <1>6, DeleteAgentsInv
<1>7. ASSUME Recovery PROVE LogFacts'
  <2>1. CASE RecoveryFailed \/ FetchFailed
    BY <1>0, <2>1, StopInv DEF RecoveryFailed, FetchFailed, Demote
  <2> QED BY <1>1, <1>7, <2>1, RecoverNothingInv, RecoverInv DEF Recovery
<1>8. ASSUME Continuation PROVE LogFacts'
  <2>1. CASE _registerAgentAborts
    BY <1>0, <2>1, StopInv DEF _registerAgentAborts, Abort
  <2> QED BY <1>8, <2>1, _registerAgentInv, _deleteAgentsEndpointInv DEF Continuation
<1>9. ASSUME StoreFailed PROVE LogFacts'
  BY <1>0, <1>9, StopInv DEF StoreFailed, Demote
<1>10. ASSUME StoreLands \/ Stored PROVE LogFacts'
  BY <1>10, StoreLandsInv, StoredInv
<1>11. ASSUME Respawn PROVE LogFacts'
  <2>1. config \in Configs
    BY <1>0 DEF TypeOK
  <2> QED BY <1>11, <2>1, StartInv DEF Respawn
<1>12. ASSUME Reboot PROVE LogFacts'
  BY <1>12, StartInv DEF Reboot
<1>13. ASSUME UNCHANGED vars PROVE LogFacts'
  BY <1>0, <1>13, KeptInv DEF vars, pools, storage, durable
<1>14. LogFacts'
  BY <1>2, <1>3, <1>4, <1>5, <1>6, <1>7, <1>8, <1>9, <1>10, <1>11, <1>12, <1>13
  DEF Next
<1> QED BY <1>1, <1>14 DEF LogInv

\* The invariant of the replicated log is inductive: registerAgent,
\* agentRegistered, deleteAgents, store, _store, recover and a restart keep
\* what they record within what the agents hold.
THEOREM LogInductive ==
  ASSUME GoneOnly PROVE Spec => []LogInv
<1>1. Init => LogInv
  BY InitLogInv
<1>2. LogInv /\ [Next]_vars => LogInv'
  BY NextLogInv
<1> QED BY <1>1, <1>2, PTL DEF Spec

-----------------------------------------------------------------------------
(* What follows *)

\* _recover never meets a record that it cannot reserve: whatever became of
\* earlier masters, the State that a new one fetches can be recovered.
THEOREM Recoverable ==
  ASSUME GoneOnly PROVE Spec => []LogRecoverable
<1>1. LogInv => LogRecoverable
  <2> SUFFICES ASSUME LogInv, FetchPending PROVE Reservable(log)
    BY DEF LogRecoverable
  <2>1. TypeOK /\ LogSound /\ Fresh
    BY DEF LogInv, LogFacts, FetchPending
  <2>2. ASSUME NEW a \in AgentIPs, NEW i \in DOMAIN log[a]
        PROVE  Available(log[a][i])
    <3> DEFINE x == log[a][i]
    <3>1. log \in NetworkState /\ x \in Recs(log, a)
      BY <2>1 DEF TypeOK, Recs
    <3>2. x \in AgentInfo /\ InPools(x, config)
      BY <2>1, <3>1, SingleRecs DEF LogSound
    <3> HIDE DEF x
    <3>3. VtepsOf(x) \subseteq VtepIPs
      BY <3>2 DEF VtepsOf, Names, AgentInfo, OverlayInfo
    <3>4. \A o \in Names(x) : o \in Overlays
      BY DEF Names
    <3>5. Available(x)
      BY <2>1, <3>2, <3>3, <3>4 DEF Available, InPools, Fresh
    <3> QED BY <3>5 DEF x
  <2>3. \A r \in Records(log) : r[1] \in AgentIPs /\ r[2] \in DOMAIN log[r[1]]
    BY DEF Records
  <2> QED BY <2>1, <2>2, <2>3 DEF Reservable, LogSound
<1>2. Spec => []LogInv
  BY LogInductive
<1> QED BY <1>1, <1>2, PTL

\* No subnet or VTEP address that the log records is in a free pool of a
\* recovered master: allocate and allocateIP cannot give it to another agent.
THEOREM Reserved ==
  ASSUME GoneOnly PROVE Spec => []LogReserved
<1>1. LogInv => LogReserved
  <2> SUFFICES ASSUME LogInv, stored, NEW a \in AgentIPs, NEW i \in DOMAIN log[a]
               PROVE  /\ \A o \in Names(log[a][i]) :
                            /\ log[a][i][o].subnet \notin freeNetworks[o]
                            /\ log[a][i][o].subnet6 \notin freeNetworks6[o]
                      /\ VtepsOf(log[a][i]) \cap freeIP = {}
                      /\ Vtep6sOf(log[a][i]) \cap freeIP6 = {}
    BY DEF LogReserved
  <2> DEFINE x == log[a][i]
  <2>1. TypeOK /\ MemoryExclusive /\ Covered /\ x \in Recs(log, a)
    BY DEF LogInv, LogFacts, QueueInv, Recs
  <2>2. HeldBy(x, agents[a])
    BY <2>1 DEF Covered, AllHeld
  <2> HIDE DEF x
  <2>3. ASSUME NEW o \in Names(x)
        PROVE  x[o].subnet \notin freeNetworks[o] /\ x[o].subnet6 \notin freeNetworks6[o]
    <3>1. /\ o \in Overlays
          /\ HeldSubnets(agents, o)[a] = {x[o].subnet} \ {None}
          /\ HeldSubnets6(agents, o)[a] = {x[o].subnet6} \ {None}
      BY <2>2 DEF HeldBy, Within, Names, HeldSubnets, HeldSubnets6
    <3>2. None \notin freeNetworks[o] /\ None \notin freeNetworks6[o]
      BY <2>1, <3>1, FreePoolsNat, NoneAssumption
    <3> QED BY <2>1, <3>1, <3>2 DEF MemoryExclusive, Separate
  <2>4. /\ VtepsOf(x) \subseteq HeldVteps(agents)[a]
        /\ Vtep6sOf(x) \subseteq HeldVtep6s(agents)[a]
    BY <2>2 DEF HeldBy, Within, Names, HeldVteps, HeldVtep6s, VtepsOf, Vtep6sOf
  <2>5. HeldVteps(agents)[a] \cap freeIP = {} /\ HeldVtep6s(agents)[a] \cap freeIP6 = {}
    BY <2>1 DEF MemoryExclusive, Separate
  <2> QED BY <2>3, <2>4, <2>5 DEF x
<1>2. Spec => []LogInv
  BY LogInductive
<1> QED BY <1>1, <1>2, PTL

-----------------------------------------------------------------------------
(* The registry *)

\* What a State grants each agent.
Grants(ns) ==
    [a \in AgentIPs |-> UNION {ResourcesOf(ns[a][i]) : i \in DOMAIN ns[a]}]

\* The kinds of resources are told apart by their first component.
LEMMA ResourceKinds ==
  ASSUME NEW x, NEW r \in ResourcesOf(x)
  PROVE  \/ /\ r[1] = "subnet" /\ r[2] \in Names(x) /\ x[r[2]].subnet # None
            /\ r[3] = x[r[2]].subnet /\ r = <<"subnet", r[2], r[3]>>
         \/ /\ r[1] = "subnet6" /\ r[2] \in Names(x) /\ x[r[2]].subnet6 # None
            /\ r[3] = x[r[2]].subnet6 /\ r = <<"subnet6", r[2], r[3]>>
         \/ r[1] = "vtep" /\ r[2] \in VtepsOf(x) /\ r = <<"vtep", r[2]>>
         \/ r[1] = "vtep6" /\ r[2] \in Vtep6sOf(x) /\ r = <<"vtep6", r[2]>>
BY DEF ResourcesOf

\* What a record names are resources of the cluster.
LEMMA ResourcesType ==
  ASSUME NEW x \in AgentInfo PROVE ResourcesOf(x) \subseteq Resources
<1>1. \A o \in Names(x) : o \in Overlays /\ x[o] \in OverlayInfo
  BY DEF Names, AgentInfo
<1>2. \A o \in Names(x) : /\ x[o].subnet \in Nat \cup {None}
                          /\ x[o].subnet6 \in Nat \cup {None}
                          /\ x[o].vtep \in Nat /\ x[o].vtep6 \in Nat \cup {None}
  BY <1>1, NetworksAssumption DEF OverlayInfo
<1>3. VtepsOf(x) \subseteq Nat /\ Vtep6sOf(x) \subseteq Nat
  BY <1>2 DEF VtepsOf, Vtep6sOf
<1> SUFFICES ASSUME NEW r \in ResourcesOf(x) PROVE r \in Resources
  OBVIOUS
<1>4. CASE r[1] = "subnet" /\ r[2] \in Names(x) /\ x[r[2]].subnet # None
           /\ r[3] = x[r[2]].subnet /\ r = <<"subnet", r[2], r[3]>>
  <2>1. r[2] \in Overlays /\ r[3] \in Nat
    BY <1>1, <1>2, <1>4
  <2> QED BY <1>4, <2>1 DEF Resources
<1>5. CASE r[1] = "subnet6" /\ r[2] \in Names(x) /\ x[r[2]].subnet6 # None
           /\ r[3] = x[r[2]].subnet6 /\ r = <<"subnet6", r[2], r[3]>>
  <2>1. r[2] \in Overlays /\ r[3] \in Nat
    BY <1>1, <1>2, <1>5
  <2> QED BY <1>5, <2>1 DEF Resources
<1>6. CASE r[1] = "vtep" /\ r[2] \in VtepsOf(x) /\ r = <<"vtep", r[2]>>
  BY <1>3, <1>6 DEF Resources
<1>7. CASE r[1] = "vtep6" /\ r[2] \in Vtep6sOf(x) /\ r = <<"vtep6", r[2]>>
  BY <1>3, <1>7 DEF Resources
<1> QED BY <1>4, <1>5, <1>6, <1>7, ResourceKinds

\* A record that names all another names grants all it grants.
LEMMA ResourcesWithin ==
  ASSUME NEW x \in AgentInfo, NEW y, Within(x, y)
  PROVE  ResourcesOf(x) \subseteq ResourcesOf(y)
<1>1. \A o \in Names(x) : o \in Names(y)
  BY DEF Names, Within
<1>2. VtepsOf(x) \subseteq VtepsOf(y) /\ Vtep6sOf(x) \subseteq Vtep6sOf(y)
  BY <1>1 DEF Within, VtepsOf, Vtep6sOf
<1> QED BY <1>1, <1>2 DEF Within, ResourcesOf

\* Disjoint records grant different things.
LEMMA ResourcesDisjoint ==
  ASSUME NEW x, NEW y, Disjoint(x, y)
  PROVE  ResourcesOf(x) \cap ResourcesOf(y) = {}
<1> SUFFICES ASSUME NEW r \in ResourcesOf(x), r \in ResourcesOf(y) PROVE FALSE
  OBVIOUS
<1>1. CASE r[1] = "subnet"
  <2>1. /\ r[2] \in Names(x) \cap Names(y) /\ x[r[2]].subnet # None
        /\ x[r[2]].subnet = y[r[2]].subnet
    BY <1>1, ResourceKinds
  <2> QED BY <2>1 DEF Disjoint
<1>2. CASE r[1] = "subnet6"
  <2>1. /\ r[2] \in Names(x) \cap Names(y) /\ x[r[2]].subnet6 # None
        /\ x[r[2]].subnet6 = y[r[2]].subnet6
    BY <1>2, ResourceKinds
  <2> QED BY <2>1 DEF Disjoint
<1>3. CASE r[1] = "vtep"
  <2>1. r[2] \in VtepsOf(x) \cap VtepsOf(y)
    BY <1>3, ResourceKinds
  <2> QED BY <2>1 DEF Disjoint
<1>4. CASE r[1] = "vtep6"
  <2>1. r[2] \in Vtep6sOf(x) \cap Vtep6sOf(y)
    BY <1>4, ResourceKinds
  <2> QED BY <2>1 DEF Disjoint
<1> QED BY <1>1, <1>2, <1>3, <1>4, ResourceKinds

\* What a State grants an agent is what its records name.
LEMMA GrantsOf ==
  ASSUME NEW ns \in NetworkState, NEW a \in AgentIPs
  PROVE  /\ Grants(ns)[a] \subseteq Resources
         /\ ns[a] = <<>> => Grants(ns)[a] = {}
         /\ \A r \in Grants(ns)[a] : \E x \in Recs(ns, a) : r \in ResourcesOf(x)
         /\ \A x \in Recs(ns, a) : ResourcesOf(x) \subseteq Grants(ns)[a]
<1>1. Grants(ns)[a] = UNION {ResourcesOf(x) : x \in Recs(ns, a)}
  <2>1. ASSUME NEW r
        PROVE  r \in Grants(ns)[a]
                 <=> \E i \in DOMAIN ns[a] : r \in ResourcesOf(ns[a][i])
    BY DEF Grants
  <2> QED BY <2>1 DEF Recs
<1>2. Recs(ns, a) \subseteq AgentInfo
  BY SingleRecs
<1>3. ns[a] = <<>> => Recs(ns, a) = {}
  BY SingleRecs
<1> HIDE DEF Recs, Grants
<1>4. Grants(ns)[a] \subseteq Resources
  BY <1>1, <1>2, ResourcesType
<1> QED BY <1>1, <1>3, <1>4

\* Different agents are granted different things, by covered States.
LEMMA GrantsApart ==
  ASSUME MemoryExclusive,
         NEW ns1 \in NetworkState, AllHeld(ns1, agents),
         NEW ns2 \in NetworkState, AllHeld(ns2, agents),
         NEW a \in AgentIPs, NEW b \in AgentIPs, a # b
  PROVE  Grants(ns1)[a] \cap Grants(ns2)[b] = {}
<1> SUFFICES ASSUME NEW r \in Grants(ns1)[a], r \in Grants(ns2)[b] PROVE FALSE
  OBVIOUS
<1>1. PICK x \in Recs(ns1, a) : r \in ResourcesOf(x)
  BY GrantsOf
<1>2. PICK y \in Recs(ns2, b) : r \in ResourcesOf(y)
  BY GrantsOf
<1>3. HeldBy(x, agents[a]) /\ HeldBy(y, agents[b])
  BY DEF AllHeld
<1>4. Disjoint(x, y)
  BY <1>3, HeldDisjoint
<1> QED BY <1>1, <1>2, <1>4, ResourcesDisjoint

\* Only a store that lands changes the log.
LEMMA LogKept ==
  ASSUME [Next]_vars, ~StoreLands PROVE UNCHANGED log
<1>1. ASSUME NEW a \in AgentIPs, RegisterAgent(a) PROVE UNCHANGED log
  <2>1. ASSUME NEW alloc \in AllocChoices, RegisterNew(a, alloc) PROVE UNCHANGED log
    BY <2>1 DEF RegisterNew, durable
  <2>2. ASSUME NEW alloc \in AllocChoices, RegisterKnown(a, alloc)
        PROVE  UNCHANGED log
    BY <2>2 DEF RegisterKnown, durable
  <2>3. CASE StartRecovery(a)
    BY <2>3 DEF StartRecovery, durable
  <2>4. CASE RegistrationDropped(a)
    BY <2>4 DEF RegistrationDropped, vars, durable
  <2>5. CASE RegisterAborts(a)
    BY <2>5 DEF RegisterAborts, Abort, durable
  <2> QED BY <1>1, <2>1, <2>2, <2>3, <2>4, <2>5 DEF RegisterAgent
<1>2. ASSUME NEW a \in AgentIPs, NEW status \in [Overlays -> Statuses],
             AgentRegistered(a, status)
      PROVE  UNCHANGED log
  BY <1>2 DEF AgentRegistered, durable
<1>3. ASSUME NEW a \in AgentIPs, AgentRegisteredAborts(a) PROVE UNCHANGED log
  BY <1>3 DEF AgentRegisteredAborts, Abort, durable
<1>4. ASSUME NEW a \in AgentIPs, AgentRestart(a) PROVE UNCHANGED log
  BY <1>4 DEF AgentRestart, durable
<1>5. ASSUME NEW ips \in SUBSET AgentIPs, DeleteAgents(ips) PROVE UNCHANGED log
  BY <1>5 DEF DeleteAgents, durable
<1>6. ASSUME Recovery PROVE UNCHANGED log
  BY <1>6 DEF Recovery, RecoverNothing, Recover, RecoveryFailed, FetchFailed,
              storage, durable
<1>7. ASSUME Continuation PROVE UNCHANGED log
  BY <1>7 DEF Continuation, _registerAgent, _registerAgentAborts,
              _deleteAgentsEndpoint, Abort, durable
<1>8. ASSUME StoreFailed PROVE UNCHANGED log
  BY <1>8 DEF StoreFailed, durable
<1>9. ASSUME Stored PROVE UNCHANGED log
  BY <1>9 DEF Stored, durable
<1>10. ASSUME NEW c \in Configs, Start(c) PROVE UNCHANGED log
  BY <1>10 DEF Start, durable
<1>11. ASSUME Respawn \/ Reboot PROVE UNCHANGED log
  BY <1>11 DEF Respawn, Reboot, Start, durable
<1>12. ASSUME UNCHANGED vars PROVE UNCHANGED log
  BY <1>12 DEF vars, durable
<1> QED BY <1>1, <1>2, <1>3, <1>4, <1>5, <1>6, <1>7, <1>8, <1>9, <1>11, <1>12 DEF Next

\* The replicated log implements the registry: every write of the log purges
\* an agent, or keeps what it had and adds only what nobody else has.
THEOREM Implements ==
  ASSUME GoneOnly PROVE Spec => RegistrySpec
<1>1. Init => Registry!Init
  <2> SUFFICES ASSUME Init PROVE Grants(log) = [a \in AgentIPs |-> {}]
    BY DEF Registry!Init, Grants
  <2>1. log = NoRecords /\ log \in NetworkState
    BY NoneType DEF Init
  <2>2. \A a \in AgentIPs : Grants(log)[a] = {}
    BY <2>1, GrantsOf, Nothing
  <2> QED BY <2>2 DEF Grants
<1>2. LogInv /\ [Next]_vars => [Registry!Write]_(Grants(log))
  <2> SUFFICES ASSUME LogInv, [Next]_vars, ~UNCHANGED Grants(log)
               PROVE  Registry!Write
    OBVIOUS
  <2>1. StoreLands
    BY LogKept DEF Grants
  <2>2. /\ TypeOK /\ MemoryExclusive /\ LogFacts /\ stored
        /\ inflight # None /\ inflight \in Store
    BY <2>1, StoringStored DEF LogInv, StoreLands, TypeOK
  <2>3. Covered /\ GrowsInv /\ StoreInv
    BY <2>2 DEF LogFacts, QueueInv
  <2>4. log' = InflightState /\ log \in NetworkState /\ InflightState \in NetworkState
    BY <2>1, <2>2, InflightType DEF StoreLands, InflightState, TypeOK
  <2>5. Grants(log)' = Grants(InflightState)
    BY <2>4 DEF Grants
  <2>6. \A a \in AgentIPs : Grants(InflightState)[a] \subseteq Resources
    BY <2>4, GrantsOf
  <2>7. ASSUME NEW a \in AgentIPs, InflightState[a] # <<>>
        PROVE  Grants(log)[a] \subseteq Grants(InflightState)[a]
    <3> SUFFICES ASSUME NEW r \in Grants(log)[a]
                 PROVE  r \in Grants(InflightState)[a]
      OBVIOUS
    <3>1. PICK x \in Recs(log, a) : r \in ResourcesOf(x)
      BY <2>4, GrantsOf
    <3>2. PICK y \in Recs(InflightState, a) : TRUE
      BY <2>4, <2>7, SingleRecs
    <3>3. Within(x, y) /\ x \in AgentInfo
      BY <2>3, <2>4, SingleRecs DEF GrowsInv, AllWithin
    <3> QED BY <2>4, <3>1, <3>3, ResourcesWithin, GrantsOf
  <2>8. ASSUME NEW a \in AgentIPs, InflightState[a] = <<>>
        PROVE  Grants(InflightState)[a] = {}
    BY <2>4, <2>8, GrantsOf
  <2>9. ASSUME NEW a \in AgentIPs, NEW b \in AgentIPs, a # b
        PROVE  /\ Grants(InflightState)[a] \cap Grants(log)[b] = {}
               /\ Grants(InflightState)[a] \cap Grants(InflightState)[b] = {}
    BY <2>2, <2>3, <2>4, <2>9, GrantsApart DEF Covered
  <2>10. ASSUME NEW a \in AgentIPs
         PROVE  \/ Grants(InflightState)[a] = {}
                \/ /\ Grants(log)[a] \subseteq Grants(InflightState)[a]
                   /\ \A b \in AgentIPs :
                        (Grants(InflightState)[a] \ Grants(log)[a]) \cap Grants(log)[b] = {}
    BY <2>7, <2>8, <2>9
  <2>11. Grants(InflightState) \in [AgentIPs -> SUBSET Resources]
    BY <2>6 DEF Grants
  <2>12. /\ Grants(log)' \in [AgentIPs -> SUBSET Resources]
         /\ \A a \in AgentIPs :
               \/ Grants(log)'[a] = {}
               \/ /\ Grants(log)[a] \subseteq Grants(log)'[a]
                  /\ \A b \in AgentIPs :
                        (Grants(log)'[a] \ Grants(log)[a]) \cap Grants(log)[b] = {}
         /\ \A a, b \in AgentIPs : a # b => Grants(log)'[a] \cap Grants(log)'[b] = {}
    BY <2>5, <2>9, <2>10, <2>11
  <2> QED BY <2>12
    DEF Grants, Registry!Write, Registry!Keeps, Registry!Purged, Registry!Fresh
<1>3. LogInv /\ [Next]_vars => [Registry!Write]_[a \in AgentIPs |->
                UNION {ResourcesOf(log[a][i]) : i \in DOMAIN log[a]}]
  BY <1>2 DEF Grants
<1>4. Spec => []LogInv
  BY LogInductive
<1> QED BY <1>1, <1>3, <1>4, PTL DEF Spec, RegistrySpec, Registry!Spec
=============================================================================
