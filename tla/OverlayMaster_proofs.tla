------------------------ MODULE OverlayMaster_proofs ------------------------
(***************************************************************************)
(* Proofs about OverlayMaster, for any agents, overlays, subnets, VTEP      *)
(* addresses, configurations and bounds:                                    *)
(*                                                                          *)
(*   TypeCorrect       Spec => []TypeOK                                     *)
(*   Exclusive         Spec => []MemoryExclusive                            *)
(***************************************************************************)
EXTENDS OverlayMaster, WellFoundedInduction, SequenceTheorems, TLAPS

-----------------------------------------------------------------------------
(* Lemmas about the operators of OverlayMaster *)

\* < on Nat as a set of pairs.
LEMMA LessThanRelation == OpToRel(<, Nat) = {ss \in Nat \X Nat : ss[1] < ss[2]}
  BY DEF OpToRel

\* A set of naturals that is not empty has a least element.
LEMMA LeastElement ==
    ASSUME NEW S \in SUBSET Nat, S # {}
    PROVE  \E m \in S : \A k \in S : m <= k
<1> DEFINE R == {ss \in Nat \X Nat : ss[1] < ss[2]}
<1>1. IsWellFoundedOn(R, Nat)
  BY NatLessThanWellFounded, LessThanRelation
<1>2. PICK m \in S : \A k \in S : ~ (<<k, m>> \in R)
  <2> HIDE DEF R
  <2> QED
    BY <1>1, WFMin
<1>3. ASSUME NEW k \in S PROVE m <= k
  <2>1. <<k, m>> \in Nat \X Nat
    OBVIOUS
  <2>2. ~ (k < m)
    BY <1>2, <2>1
  <2> QED
    BY <2>2
<1> QED
  BY <1>3

\* freeIP.begin()->lower() of a pool that is not empty is in the pool.
LEMMA LowestInSet ==
    ASSUME NEW S \in SUBSET Nat, S # {}
    PROVE  Lowest(S) \in S
  BY LeastElement DEF Lowest

\* Clearing the status of an agent's overlays gives an AgentInfo again.
LEMMA ClearStatusType ==
    ASSUME NEW info \in AgentInfo
    PROVE  ClearStatus(info) \in AgentInfo
  BY DEF ClearStatus, AgentInfo, OverlayInfo

\* An operation performed on a State gives a State.
LEMMA PerformType ==
    ASSUME NEW op \in Operation, NEW ns \in NetworkState, NEW present
    PROVE  Perform(op, ns, present) \in NetworkState
<1>1. CASE ~CanPerform(op, ns, present)
  BY <1>1 DEF Perform
<1>2. CASE CanPerform(op, ns, present) /\ op.type = "add"
  <2>1. op.ip \in AgentIPs /\ op.info \in AgentInfo
    BY <1>2 DEF Operation
  <2>2. Append(ns[op.ip], op.info) \in Seq(AgentInfo)
    BY <2>1 DEF NetworkState
  <2>3. Perform(op, ns, present) = [ns EXCEPT ![op.ip] = Append(@, op.info)]
    BY <1>2 DEF Perform
  <2> QED
    BY <2>1, <2>2, <2>3 DEF NetworkState
<1>3. CASE CanPerform(op, ns, present) /\ op.type = "modify"
  <2>1. op.ip \in AgentIPs /\ op.info \in AgentInfo
    BY <1>3 DEF Operation
  <2>2. ns[op.ip] \in Seq(AgentInfo) /\ ns[op.ip] # <<>>
    BY <1>3, <2>1 DEF NetworkState, CanPerform
  <2>3. [ns[op.ip] EXCEPT ![1] = op.info] \in Seq(AgentInfo)
    BY <2>1, <2>2, ExceptSeq
  <2>4. Perform(op, ns, present)
            = [ns EXCEPT ![op.ip] = [@ EXCEPT ![1] = op.info]]
    BY <1>3 DEF Perform
  <2> QED
    BY <2>1, <2>3, <2>4 DEF NetworkState
<1>4. CASE CanPerform(op, ns, present) /\ op.type = "delete"
  <2>1. Perform(op, ns, present)
            = [a \in AgentIPs |-> IF a \in op.ips THEN <<>> ELSE ns[a]]
    BY <1>4 DEF Perform
  <2> QED
    BY <2>1 DEF NetworkState
<1> QED
  BY <1>1, <1>2, <1>3, <1>4 DEF CanPerform

\* g[n] is the State after the first n of the operations, up to the k-th.
Follows(g, k, ops, ns, present) ==
    \A n \in 0..k :
        g[n] = IF n = 0 THEN ns ELSE Perform(ops[n], g[n - 1], present)

\* The States that a sequence of operations goes through.
LEMMA PerformStates ==
    ASSUME NEW ops \in Seq(Operation), NEW ns \in NetworkState, NEW present
    PROVE  \E g \in [0..Len(ops) -> NetworkState] :
                Follows(g, Len(ops), ops, ns, present)
<1> DEFINE Upto(k) == \E g \in [0..k -> NetworkState] :
                            Follows(g, k, ops, ns, present)
           Bad == {k \in 0..Len(ops) : ~Upto(k)}
<1>0. Len(ops) \in Nat
  BY LenProperties
<1>1. SUFFICES ASSUME Bad # {} PROVE FALSE
  <2>1. Len(ops) \in 0..Len(ops)
    BY <1>0
  <2> HIDE DEF Upto
  <2>2. Upto(Len(ops))
    BY <2>1
  <2> QED
    BY <2>2 DEF Upto
<1>2. PICK m \in Bad : \A k \in Bad : m <= k
  <2>1. Bad \in SUBSET Nat
    BY <1>0
  <2> HIDE DEF Bad
  <2> QED
    BY <1>1, <2>1, LeastElement
<1>3. m \in 0..Len(ops) /\ ~Upto(m)
  BY <1>2
<1>4. \A k \in 0..Len(ops) : k < m => Upto(k)
  <2> HIDE DEF Upto
  <2> QED
    BY <1>0, <1>2, <1>3
<1>5. CASE m = 0
  <2>1. [n \in 0..0 |-> ns] \in [0..0 -> NetworkState]
    OBVIOUS
  <2>2. Follows([n \in 0..0 |-> ns], 0, ops, ns, present)
    BY DEF Follows
  <2>3. Upto(0)
    BY <2>1, <2>2
  <2> HIDE DEF Upto
  <2> QED
    BY <1>3, <1>5, <2>3
<1>6. CASE m # 0
  <2>1. m \in 1..Len(ops) /\ m - 1 \in 0..Len(ops) /\ m - 1 < m
    BY <1>0, <1>3, <1>6
  <2>2. PICK g \in [0..(m - 1) -> NetworkState] :
            Follows(g, m - 1, ops, ns, present)
    BY <1>4, <2>1
  <2> DEFINE last == Perform(ops[m], g[m - 1], present)
             h == [n \in 0..m |-> IF n = m THEN last ELSE g[n]]
  <2>3. ops[m] \in Operation /\ g[m - 1] \in NetworkState
    BY <1>0, <2>1, ElementOfSeq
  <2>4. last \in NetworkState
    BY <2>3, PerformType
  <2>5. h \in [0..m -> NetworkState]
    <3> HIDE DEF last
    <3> QED
      BY <1>0, <2>1, <2>4
  <2>6. Follows(h, m, ops, ns, present)
    <3> SUFFICES ASSUME NEW n \in 0..m
                 PROVE  h[n] = IF n = 0 THEN ns
                               ELSE Perform(ops[n], h[n - 1], present)
      BY DEF Follows
    <3>1. CASE n = m
      <4>1. h[n - 1] = g[m - 1] /\ h[n] = last
        BY <1>0, <3>1, <2>1
      <4> QED
        BY <3>1, <4>1, <1>6
    <3>2. CASE n # m
      <4>1. n \in 0..(m - 1) /\ h[n] = g[n]
        BY <1>0, <3>2, <2>1
      <4>2. n # 0 => h[n - 1] = g[n - 1]
        BY <1>0, <4>1, <2>1
      <4>3. g[n] = IF n = 0 THEN ns ELSE Perform(ops[n], g[n - 1], present)
        BY <4>1, <2>2 DEF Follows
      <4> HIDE DEF h
      <4> QED
        BY <4>1, <4>2, <4>3
    <3> QED
      BY <3>1, <3>2
  <2> HIDE DEF h
  <2> QED
    BY <1>3, <2>5, <2>6
<1> QED
  BY <1>5, <1>6

\* What store() writes is a State.
LEMMA PerformAllType ==
    ASSUME NEW ops \in Seq(Operation), NEW ns \in NetworkState, NEW present
    PROVE  PerformAll(ops, ns, present) \in NetworkState
<1>1. PICK g \in [0..Len(ops) -> NetworkState] :
            Follows(g, Len(ops), ops, ns, present)
  BY PerformStates
<1> DEFINE IsRun(f) == f = [n \in 0..Len(ops) |->
                              IF n = 0 THEN ns
                              ELSE Perform(ops[n], f[n - 1], present)]
           run == CHOOSE f : IsRun(f)
<1>0. Len(ops) \in Nat
  BY LenProperties
<1>2. IsRun(g)
  BY <1>1 DEF Follows
<1>3. IsRun(run)
  BY <1>2
<1>4. PerformAll(ops, ns, present) = run[Len(ops)]
  BY DEF PerformAll
<1> HIDE DEF run
<1> DEFINE Bad == {k \in 0..Len(ops) : run[k] \notin NetworkState}
<1>5. Bad = {}
  <2> SUFFICES ASSUME Bad # {} PROVE FALSE
    OBVIOUS
  <2>1. PICK m \in Bad : \A k \in Bad : m <= k
    <3>1. Bad \in SUBSET Nat
      BY <1>0
    <3> HIDE DEF Bad
    <3> QED
      BY <3>1, LeastElement
  <2>2. m # 0
    BY <1>3, <2>1
  <2>3. m \in 1..Len(ops) /\ run[m - 1] \in NetworkState
    BY <1>0, <2>1, <2>2
  <2>4. run[m] = Perform(ops[m], run[m - 1], present)
    BY <1>0, <1>3, <2>3
  <2>5. ops[m] \in Operation
    BY <1>0, <2>3, ElementOfSeq
  <2>6. run[m] \in NetworkState
    BY <2>3, <2>4, <2>5, PerformType
  <2> QED
    BY <2>1, <2>6
<1> QED
  BY <1>0, <1>4, <1>5

-----------------------------------------------------------------------------
(* Type correctness *)

\* Resources that an allocation takes are in the pools they are taken from.
LEMMA FreePoolsNat ==
    ASSUME TypeOK
    PROVE  /\ freeIP \in SUBSET Nat /\ freeIP6 \in SUBSET Nat
           /\ \A o \in Overlays : freeNetworks[o] \in SUBSET Nat
           /\ \A o \in Overlays : freeNetworks6[o] \in SUBSET Nat
  BY NetworksAssumption DEF TypeOK

\* addOverlays gives each overlay an OverlayInfo.
LEMMA NewOverlayType ==
    ASSUME TypeOK, NEW o \in Overlays, NEW b \in BackendInfo, NEW alloc
    PROVE  NewOverlay(o, b, alloc) \in OverlayInfo
<1>1. Takes(o, alloc) => Lowest(freeNetworks[o]) \in Nat
  BY FreePoolsNat, LowestInSet DEF Takes
<1>2. Takes6(o, alloc) => Lowest(freeNetworks6[o]) \in Nat
  BY FreePoolsNat, LowestInSet DEF Takes6
<1>3. b.vtep \in VtepIPs /\ b.vtep6 \in VtepIP6s \cup {None}
  BY DEF BackendInfo
<1> QED
  BY <1>1, <1>2, <1>3 DEF NewOverlay, OverlayInfo

\* addOverlays gives an AgentInfo.
LEMMA WithOverlaysType ==
    ASSUME TypeOK, NEW has \in AgentInfo, NEW b \in BackendInfo, NEW alloc
    PROVE  WithOverlays(has, b, alloc) \in AgentInfo
  BY NewOverlayType DEF WithOverlays, AgentInfo

\* Allocation leaves pools of numbers.
LEMMA AllocateSubnetsType ==
    ASSUME TypeOK, NEW has, NEW alloc, AllocateSubnets(has, alloc)
    PROVE  /\ freeNetworks' \in [Overlays -> SUBSET Nat]
           /\ freeNetworks6' \in [Overlays -> SUBSET Nat]
  BY DEF TypeOK, AllocateSubnets

\* A write that starts is a Store.
LEMMA WriteType ==
    ASSUME NEW ops \in Seq(Operation), NEW ns \in NetworkState, NEW present
    PROVE  Write(ops, ns, present) \in Store
  BY PerformAllType DEF Write, Store

\* update() leaves well-formed queues and States.
LEMMA UpdateType ==
    ASSUME TypeOK, NEW op \in Operation, NEW as, Update(op, as)
    PROVE  /\ networkState' \in NetworkState
           /\ operations' \in Seq(Operation)
           /\ mailbox' \in Seq(Operation)
           /\ inflight' \in Store \cup {None}
<1>1. Append(operations, op) \in Seq(Operation)
  BY DEF TypeOK
<1>2. Append(mailbox, op) \in Seq(Operation)
  BY DEF TypeOK
<1>3. Write(Append(operations, op), networkState, Present(as)) \in Store
  BY <1>1, WriteType DEF TypeOK
<1>4. Perform(op, networkState, Present(as)) \in NetworkState
  BY PerformType DEF TypeOK
<1>5. CASE UseLog
  <2>1. CASE inflight # None
    BY <1>1, <1>5, <2>1 DEF TypeOK, Update
  <2>2. CASE inflight = None
    <3>1. /\ operations' = <<>> /\ inflight' \in Store
          /\ mailbox' = mailbox /\ networkState' = networkState
      BY <1>3, <1>5, <2>2 DEF Update
    <3>2. mailbox \in Seq(Operation) /\ networkState \in NetworkState
      BY DEF TypeOK
    <3>3. <<>> \in Seq(Operation)
      OBVIOUS
    <3> QED
      BY <3>1, <3>2, <3>3
  <2> QED
    BY <2>1, <2>2
<1>6. CASE ~UseLog
  BY <1>2, <1>4, <1>6 DEF TypeOK, Update
<1> QED
  BY <1>5, <1>6

\* A message to an agent carries an AgentInfo.
LEMMA SendUpdateType ==
    ASSUME TypeOK, NEW as, NEW a \in AgentIPs, as[a] \in Agent,
           SendUpdate(as, a)
    PROVE  /\ told' \in [AgentIPs -> AgentInfo \cup {None}]
           /\ known' \in [AgentIPs -> SUBSET Overlays]
<1>1. as[a].overlays \in AgentInfo
  BY DEF Agent
<1>2. Configuration(as, a) \in AgentInfo
  BY <1>1, ClearStatusType DEF Configuration
<1>3. Names(as[a].overlays) \subseteq Overlays
  BY DEF Names
<1>4. CASE Gone(a)
  BY <1>4 DEF SendUpdate, TypeOK
<1>5. CASE ~Gone(a)
  BY <1>2, <1>3, <1>5 DEF SendUpdate, TypeOK
<1> QED
  BY <1>4, <1>5

\* The empty maps and queues of a new process.
LEMMA NoneType ==
    /\ NoAgents \in [AgentIPs -> Agent \cup {None}]
    /\ NoAgents \in [AgentIPs -> AgentInfo \cup {None}]
    /\ NoRecords \in NetworkState
    /\ <<>> \in Seq(Operation)
<1>1. <<>> \in Seq(AgentInfo) /\ <<>> \in Seq(Operation)
  OBVIOUS
<1>2. NoRecords \in NetworkState
  BY <1>1 DEF NoRecords, NetworkState
<1> QED
  BY <1>1, <1>2 DEF NoAgents

\* The pools of a new process.
LEMMA InitialPoolsType ==
    /\ [o \in Overlays |-> InitialPool(o)] \in [Overlays -> SUBSET Nat]
    /\ [o \in Overlays |-> InitialPool6(o)] \in [Overlays -> SUBSET Nat]
    /\ \A c : InitialFreeIP6(c) \subseteq VtepIP6s
  BY NetworksAssumption DEF InitialPool, InitialPool6, InitialFreeIP6

\* The initial states are well typed.
LEMMA InitType == Init => TypeOK
<1> SUFFICES ASSUME Init PROVE TypeOK
  OBVIOUS
<1>1. /\ proc \in {"running", "terminated"} \cup AbortReasons
      /\ config \in Configs /\ recovering \in BOOLEAN
      /\ stored \in BOOLEAN /\ logged \in BOOLEAN
      /\ known \in [AgentIPs -> SUBSET Overlays]
  BY DEF Init
<1>2. faults \in 0..MaxFaults /\ deletes \in 0..MaxDeletes
  <2>1. MaxFaults \in Nat /\ MaxDeletes \in Nat
    BY ConfigAssumption
  <2> QED
    BY <2>1 DEF Init
<1>3. /\ agents \in [AgentIPs -> Agent \cup {None}]
      /\ told \in [AgentIPs -> AgentInfo \cup {None}]
      /\ networkState \in NetworkState /\ log \in NetworkState
      /\ operations \in Seq(Operation) /\ mailbox \in Seq(Operation)
  <2>1. /\ agents = NoAgents /\ told = NoAgents
        /\ networkState = NoRecords /\ log = NoRecords
        /\ operations = <<>> /\ mailbox = <<>>
    BY DEF Init
  <2> QED
    BY <2>1, NoneType
<1>4. /\ freeNetworks \in [Overlays -> SUBSET Nat]
      /\ freeNetworks6 \in [Overlays -> SUBSET Nat]
      /\ freeIP \subseteq VtepIPs /\ freeIP6 \subseteq VtepIP6s
  BY InitialPoolsType DEF Init
<1>5. inflight \in Store \cup {None}
  BY DEF Init
<1> QED
  BY <1>1, <1>2, <1>3, <1>4, <1>5 DEF TypeOK

\* A new process, after a respawn or a reboot, starts well-formed.
LEMMA StartType ==
    ASSUME TypeOK, NEW c \in Configs, Start(c), faults' \in 0..MaxFaults
    PROVE  TypeOK'
<1>1. /\ log' \in NetworkState /\ logged' \in BOOLEAN
      /\ told' \in [AgentIPs -> AgentInfo \cup {None}]
      /\ known' \in [AgentIPs -> SUBSET Overlays]
      /\ deletes' \in 0..MaxDeletes
  BY DEF TypeOK, Start, durable
<1>2. /\ freeNetworks' \in [Overlays -> SUBSET Nat]
      /\ freeNetworks6' \in [Overlays -> SUBSET Nat]
      /\ freeIP' \subseteq VtepIPs /\ freeIP6' \subseteq VtepIP6s
  BY InitialPoolsType DEF Start
<1>3. /\ agents' \in [AgentIPs -> Agent \cup {None}]
      /\ networkState' \in NetworkState
      /\ operations' \in Seq(Operation) /\ mailbox' \in Seq(Operation)
  <2>1. /\ agents' = NoAgents /\ networkState' = NoRecords
        /\ operations' = <<>> /\ mailbox' = <<>>
    BY DEF Start
  <2> QED
    BY <2>1, NoneType
<1>4. /\ proc' = "running" /\ config' \in Configs
      /\ recovering' \in BOOLEAN /\ stored' \in BOOLEAN
      /\ inflight' \in Store \cup {None}
  BY DEF Start
<1> QED
  BY <1>1, <1>2, <1>3, <1>4 DEF TypeOK

\* Stopping changes nothing but `proc`.
LEMMA StopType ==
    ASSUME TypeOK, NEW reason \in {"terminated"} \cup AbortReasons,
           Stop(reason), UNCHANGED durable, UNCHANGED <<told, known, deletes>>,
           faults' \in 0..MaxFaults
    PROVE  TypeOK'
  BY DEF TypeOK, Stop, pools, storage, durable

\* A failed CHECK leaves a well-typed state.
LEMMA AbortType ==
    ASSUME TypeOK, NEW reason \in AbortReasons, Abort(reason)
    PROVE  TypeOK'
<1>1. faults' \in 0..MaxFaults
  BY DEF TypeOK, Abort, environment
<1> QED
  BY <1>1, StopType DEF Abort, environment

\* Recovery takes well-formed agents from a well-formed log.
LEMMA RecoverType == TypeOK /\ Recover => TypeOK'
<1> SUFFICES ASSUME TypeOK, Recover PROVE TypeOK'
  OBVIOUS
<1>1. log \in NetworkState
  BY DEF TypeOK
<1>2. ASSUME NEW a \in AgentIPs, log[a] # <<>>
      PROVE  log[a][1] \in AgentInfo
  BY <1>1, <1>2, ElementOfSeq, EmptySeq DEF NetworkState
<1>3. ASSUME NEW info \in AgentInfo, NEW b \in BackendsOf(info)
      PROVE  b \in BackendInfo \cup {None}
  BY <1>3 DEF BackendsOf, Names, AgentInfo, OverlayInfo, BackendInfo
<1>4. agents' \in [AgentIPs -> Agent \cup {None}]
  <2>1. PICK first \in [AgentIPs -> Backends(log) \cup {None}] :
          /\ \A a \in AgentIPs :
                first[a] \in IF log[a] = <<>> THEN {None}
                                              ELSE BackendsOf(log[a][1])
          /\ agents' = [a \in AgentIPs |->
                IF log[a] = <<>> THEN None
                ELSE [backend |-> first[a],
                      overlays |-> ClearStatus(log[a][1])]]
    BY DEF Recover
  <2>2. ASSUME NEW a \in AgentIPs, log[a] # <<>>
        PROVE  [backend |-> first[a], overlays |-> ClearStatus(log[a][1])]
                    \in Agent
    BY <2>1, <2>2, <1>2, <1>3, ClearStatusType DEF Agent
  <2> QED
    BY <2>1, <2>2
<1>5. networkState' \in NetworkState
  <2>1. ASSUME NEW a \in AgentIPs
        PROVE  [i \in DOMAIN log[a] |-> ClearStatus(log[a][i])]
                    \in Seq(AgentInfo)
    <3>1. log[a] \in Seq(AgentInfo)
      BY <1>1 DEF NetworkState
    <3>2. \A i \in 1..Len(log[a]) : ClearStatus(log[a][i]) \in AgentInfo
      BY <3>1, ElementOfSeq, ClearStatusType
    <3> QED
      BY <3>1, <3>2, IsASeq, LenProperties
  <2> QED
    BY <2>1 DEF Recover, NetworkState
<1>6. /\ freeNetworks' \in [Overlays -> SUBSET Nat]
      /\ freeNetworks6' \in [Overlays -> SUBSET Nat]
      /\ freeIP' \subseteq VtepIPs /\ freeIP6' \subseteq VtepIP6s
  BY DEF TypeOK, Recover, Reserve, ReserveSubnets, ReserveSubnets6,
         ReserveIPs, ReserveIP6s
<1> QED
  BY <1>4, <1>5, <1>6 DEF TypeOK, Recover, storage, durable, environment

\* A new agent is given well-formed resources.
LEMMA RegisterNewType ==
    ASSUME TypeOK, NEW a \in AgentIPs, NEW alloc, RegisterNew(a, alloc)
    PROVE  TypeOK'
<1> DEFINE backend == [vtep |-> Lowest(freeIP),
                       vtep6 |-> IF config.network6 THEN Lowest(freeIP6)
                                                    ELSE None]
           op == [type |-> "add", ip |-> a, info |-> agents'[a].overlays]
<1>1. freeIP' \subseteq VtepIPs
  BY DEF TypeOK, RegisterNew
<1>2. CASE config.network6 /\ freeIP6 = {}
  BY <1>1, <1>2 DEF TypeOK, RegisterNew, storage, durable, environment
<1>3. CASE ~ (config.network6 /\ freeIP6 = {})
  <2>1. /\ freeIP6' = freeIP6 \ {backend.vtep6}
        /\ agents' = [agents EXCEPT ![a] =
              [backend |-> backend,
               overlays |-> WithOverlays(NoOverlays, backend, alloc)]]
        /\ AllocateSubnets(NoOverlays, alloc)
        /\ Update(op, agents')
        /\ freeIP # {}
        /\ UNCHANGED <<proc, config, recovering, stored, durable, environment>>
    BY <1>3 DEF RegisterNew
  <2>2. backend \in BackendInfo
    <3>1. Lowest(freeIP) \in VtepIPs
      BY <2>1, FreePoolsNat, LowestInSet DEF TypeOK
    <3>2. config.network6 => Lowest(freeIP6) \in VtepIP6s
      BY <1>3, FreePoolsNat, LowestInSet DEF TypeOK
    <3> QED
      BY <3>1, <3>2 DEF BackendInfo
  <2>3. WithOverlays(NoOverlays, backend, alloc) \in AgentInfo
    <3>1. NoOverlays \in AgentInfo
      BY DEF NoOverlays, AgentInfo
    <3> QED
      BY <2>2, <3>1, WithOverlaysType
  <2> HIDE DEF backend
  <2>4. agents' \in [AgentIPs -> Agent \cup {None}]
    BY <2>1, <2>2, <2>3 DEF TypeOK, Agent
  <2>5. op \in Operation
    BY <2>1, <2>3 DEF TypeOK, Operation
  <2> HIDE DEF op
  <2>6. /\ networkState' \in NetworkState
        /\ operations' \in Seq(Operation) /\ mailbox' \in Seq(Operation)
        /\ inflight' \in Store \cup {None}
    BY <2>1, <2>5, UpdateType
  <2>7. /\ freeNetworks' \in [Overlays -> SUBSET Nat]
        /\ freeNetworks6' \in [Overlays -> SUBSET Nat]
    BY <2>1, AllocateSubnetsType
  <2> QED
    BY <1>1, <2>1, <2>4, <2>6, <2>7 DEF TypeOK, durable, environment
<1> QED
  BY <1>2, <1>3

\* A known agent is given well-formed resources on top of those it has.
LEMMA RegisterKnownType ==
    ASSUME TypeOK, NEW a \in AgentIPs, NEW alloc, RegisterKnown(a, alloc)
    PROVE  TypeOK'
<1> DEFINE needs6 == config.network6 /\ agents[a].backend.vtep6 = None
           has == agents[a].overlays
           backend == IF needs6
                      THEN [agents[a].backend EXCEPT !.vtep6 = Lowest(freeIP6)]
                      ELSE agents[a].backend
           op == [type |-> "modify", ip |-> a, info |-> agents'[a].overlays]
<1>1. /\ needs6 => freeIP6 # {}
      /\ freeIP6' = IF needs6 THEN freeIP6 \ {Lowest(freeIP6)} ELSE freeIP6
      /\ agents' = [agents EXCEPT ![a] =
            [backend |-> backend,
             overlays |-> WithOverlays(has, backend, alloc)]]
      /\ AllocateSubnets(has, alloc)
      /\ UNCHANGED <<proc, config, recovering, stored, freeIP, durable,
                     faults, deletes>>
      /\ \/ Update(op, agents') /\ UNCHANGED <<told, known>>
         \/ SendUpdate(agents', a) /\ UNCHANGED <<networkState, storage>>
         \/ UNCHANGED <<told, known, networkState, storage>>
  BY DEF RegisterKnown
<1>2. agents[a] \in Agent /\ agents[a].backend \in BackendInfo
      /\ has \in AgentInfo
  BY DEF TypeOK, RegisterKnown, Agent
<1>3. backend \in BackendInfo
  <2>1. needs6 => Lowest(freeIP6) \in VtepIP6s
    BY <1>1, FreePoolsNat, LowestInSet DEF TypeOK
  <2> QED
    BY <1>2, <2>1 DEF BackendInfo
<1> HIDE DEF backend
<1>4. WithOverlays(has, backend, alloc) \in AgentInfo
  BY <1>2, <1>3, WithOverlaysType
<1>5. agents' \in [AgentIPs -> Agent \cup {None}] /\ agents'[a] \in Agent
  BY <1>1, <1>3, <1>4 DEF TypeOK, Agent
<1>6. op \in Operation
  BY <1>5 DEF Operation, Agent
<1>7. freeIP6' \subseteq VtepIP6s
  BY <1>1 DEF TypeOK
<1> HIDE DEF op, has, needs6
<1>8. /\ freeNetworks' \in [Overlays -> SUBSET Nat]
      /\ freeNetworks6' \in [Overlays -> SUBSET Nat]
  BY <1>1, AllocateSubnetsType
<1>9. /\ networkState' \in NetworkState
      /\ operations' \in Seq(Operation) /\ mailbox' \in Seq(Operation)
      /\ inflight' \in Store \cup {None}
      /\ told' \in [AgentIPs -> AgentInfo \cup {None}]
      /\ known' \in [AgentIPs -> SUBSET Overlays]
  <2>1. CASE Update(op, agents') /\ UNCHANGED <<told, known>>
    <3>1. /\ told' \in [AgentIPs -> AgentInfo \cup {None}]
          /\ known' \in [AgentIPs -> SUBSET Overlays]
      BY <2>1 DEF TypeOK
    <3> QED
      BY <2>1, <3>1, <1>6, UpdateType
  <2>2. CASE SendUpdate(agents', a) /\ UNCHANGED <<networkState, storage>>
    <3>1. /\ networkState' \in NetworkState
          /\ operations' \in Seq(Operation) /\ mailbox' \in Seq(Operation)
          /\ inflight' \in Store \cup {None}
      BY <2>2 DEF TypeOK, storage
    <3> QED
      BY <2>2, <3>1, <1>5, SendUpdateType
  <2>3. CASE UNCHANGED <<told, known, networkState, storage>>
    BY <2>3 DEF TypeOK, storage
  <2> QED
    BY <1>1, <2>1, <2>2, <2>3
<1> QED
  BY <1>1, <1>5, <1>7, <1>8, <1>9 DEF TypeOK, durable

\* A store writes a well-formed State, and the next one is well-formed too.
LEMMA StoredType == TypeOK /\ Stored => TypeOK'
<1> SUFFICES ASSUME TypeOK, Stored PROVE TypeOK'
  OBVIOUS
<1>1. inflight \in Store
  BY DEF TypeOK, Stored, StoreDone
<1>2. inflight.state \in NetworkState /\ inflight.ops \in Seq(Operation)
  BY <1>1 DEF Store
<1>3. NextWrite \in Store \cup {None}
  BY <1>2, WriteType DEF NextWrite, TypeOK
<1>4. /\ networkState' \in NetworkState
      /\ operations' \in Seq(Operation) /\ mailbox' \in Seq(Operation)
      /\ inflight' \in Store \cup {None}
  BY <1>2, <1>3, NoneType DEF Stored
<1> QED
  BY <1>4 DEF TypeOK, Stored, pools, durable, environment

\* A store that lands leaves a well-typed log.
LEMMA StoreLandsType == TypeOK /\ StoreLands => TypeOK'
<1> SUFFICES ASSUME TypeOK, StoreLands PROVE TypeOK'
  OBVIOUS
<1>1. inflight \in Store
  BY DEF TypeOK, StoreLands
<1>2. log' \in NetworkState /\ inflight' \in Store
  BY <1>1 DEF Store, StoreLands
<1> QED
  BY <1>2 DEF TypeOK, StoreLands, pools, environment

\* The rest of a mailbox of operations.
LEMMA TailType ==
    ASSUME TypeOK, mailbox # <<>>
    PROVE  Head(mailbox) \in Operation /\ Tail(mailbox) \in Seq(Operation)
  BY HeadTailProperties DEF TypeOK

\* _registerAgent tells an agent what the agents map holds for it.
LEMMA _registerAgentType == TypeOK /\ _registerAgent => TypeOK'
<1> SUFFICES ASSUME TypeOK, _registerAgent PROVE TypeOK'
  OBVIOUS
<1> DEFINE a == Head(mailbox).ip
<1>1. a \in AgentIPs
  BY TailType DEF _registerAgent, Operation
<1>2. agents[a] \in Agent
  BY <1>1 DEF TypeOK, _registerAgent
<1>3. SendUpdate(agents, a)
  BY DEF _registerAgent
<1> HIDE DEF a
<1>4. /\ told' \in [AgentIPs -> AgentInfo \cup {None}]
      /\ known' \in [AgentIPs -> SUBSET Overlays]
  BY <1>1, <1>2, <1>3, SendUpdateType
<1>5. mailbox' \in Seq(Operation)
  BY TailType DEF _registerAgent
<1> QED
  BY <1>4, <1>5 DEF TypeOK, _registerAgent, pools, durable

\* deleteAgents gives back well-formed resources.
LEMMA DeleteType == TypeOK /\ _deleteAgentsEndpoint => TypeOK'
<1> SUFFICES ASSUME TypeOK, _deleteAgentsEndpoint PROVE TypeOK'
  OBVIOUS
<1> DEFINE ips == Head(mailbox).ips
<1>1. CASE DeletionFails(ips)
  BY <1>1, AbortType DEF _deleteAgentsEndpoint, AbortReasons
<1>2. CASE ~DeletionFails(ips)
  <2>1. /\ Deallocate(Deleted(ips))
        /\ agents' = Without(ips)
        /\ mailbox' = Tail(mailbox)
        /\ UNCHANGED <<proc, config, recovering, stored, networkState,
                       operations, inflight, durable, environment>>
    BY <1>2 DEF _deleteAgentsEndpoint
  <2>2. ips \subseteq AgentIPs
    BY TailType DEF _deleteAgentsEndpoint, Operation
  <2> HIDE DEF ips
  <2>3. ASSUME NEW a \in Deleted(ips)
        PROVE  agents[a] \in Agent /\ agents[a].overlays \in AgentInfo
    BY <2>2, <2>3 DEF TypeOK, Deleted, Agent
  <2>4. ASSUME NEW a \in Deleted(ips), NEW o \in Names(agents[a].overlays)
        PROVE  agents[a].overlays[o] \in OverlayInfo
    BY <2>3, <2>4 DEF Names, AgentInfo
  <2>5. freeIP' \subseteq VtepIPs /\ freeIP6' \subseteq VtepIP6s
    <3>1. ASSUME NEW a \in Deleted(ips)
          PROVE  /\ FreedIPs(a) \subseteq VtepIPs
                 /\ FreedIP6s(a) \subseteq VtepIP6s
      BY <2>4, <3>1
      DEF FreedIPs, FreedIP6s, VtepsOf, Vtep6sOf, OverlayInfo
    <3> QED
      BY <2>1, <3>1 DEF TypeOK, Deallocate
  <2>6. ASSUME NEW o \in Overlays
        PROVE  /\ SubnetsOf(Deleted(ips), o) \subseteq Nat
               /\ Subnets6Of(Deleted(ips), o) \subseteq Nat
    BY <2>4, <2>6 DEF SubnetsOf, Subnets6Of, OverlayInfo, Names
  <2>7. /\ freeNetworks' \in [Overlays -> SUBSET Nat]
        /\ freeNetworks6' \in [Overlays -> SUBSET Nat]
    BY <2>1, <2>6 DEF TypeOK, Deallocate
  <2>8. agents' \in [AgentIPs -> Agent \cup {None}]
    BY <2>1 DEF TypeOK, Without
  <2>9. mailbox' \in Seq(Operation)
    BY <2>1, TailType DEF _deleteAgentsEndpoint
  <2> QED
    BY <2>1, <2>5, <2>7, <2>8, <2>9 DEF TypeOK, durable, environment
<1> QED
  BY <1>1, <1>2

\* deleteAgentsEndpoint queues a well-typed operation.
LEMMA DeleteAgentsType ==
    ASSUME TypeOK, NEW ips \in SUBSET AgentIPs, DeleteAgents(ips)
    PROVE  TypeOK'
<1> DEFINE op == [type |-> "delete", ips |-> ips]
<1>1. op \in Operation
  BY DEF Operation
<1>2. Update(op, agents)
  BY DEF DeleteAgents
<1> HIDE DEF op
<1>3. /\ networkState' \in NetworkState
      /\ operations' \in Seq(Operation) /\ mailbox' \in Seq(Operation)
      /\ inflight' \in Store \cup {None}
  BY <1>1, <1>2, UpdateType
<1>4. deletes' \in 0..MaxDeletes
  BY ConfigAssumption DEF TypeOK, DeleteAgents
<1>5. /\ told' \in [AgentIPs -> AgentInfo \cup {None}]
      /\ known' \in [AgentIPs -> SUBSET Overlays]
  BY DEF TypeOK, DeleteAgents
<1> QED
  BY <1>3, <1>4, <1>5 DEF TypeOK, DeleteAgents, pools, durable

\* An agent's report changes the statuses of its overlays only.
LEMMA AgentRegisteredType ==
    ASSUME TypeOK, NEW a \in AgentIPs, NEW status \in [Overlays -> Statuses],
           AgentRegistered(a, status)
    PROVE  TypeOK'
<1> DEFINE reported == [o \in Overlays |->
                IF o \in known[a]
                THEN [agents[a].overlays[o] EXCEPT !.status = status[o]]
                ELSE agents[a].overlays[o]]
<1>1. agents[a] \in Agent /\ agents[a].overlays \in AgentInfo
  BY DEF TypeOK, AgentRegistered, Agent
<1>2. reported \in AgentInfo
  <2>1. ASSUME NEW o \in known[a]
        PROVE  o \in Overlays /\ agents[a].overlays[o] \in OverlayInfo
    BY <1>1, <2>1 DEF AgentRegistered, Names, AgentInfo
  <2>2. ASSUME NEW info \in OverlayInfo, NEW st \in Statuses
        PROVE  [info EXCEPT !.status = st] \in OverlayInfo
    BY DEF OverlayInfo
  <2>3. \A o \in known[a] :
            [agents[a].overlays[o] EXCEPT !.status = status[o]] \in OverlayInfo
    BY <2>1, <2>2
  <2> QED
    BY <1>1, <2>3 DEF AgentInfo
<1>3. agents' = [agents EXCEPT ![a].overlays = reported]
  BY DEF AgentRegistered
<1> HIDE DEF reported
<1>4. agents' \in [AgentIPs -> Agent \cup {None}]
  BY <1>1, <1>2, <1>3 DEF TypeOK, Agent
<1>5. agents'[a].overlays \in AgentInfo
  BY <1>1, <1>2, <1>3 DEF TypeOK, Agent
<1>6. networkState' \in NetworkState
  <2>1. CASE networkState[a] = <<>>
    BY <2>1 DEF TypeOK, AgentRegistered
  <2>2. CASE networkState[a] # <<>>
    <3>1. networkState[a] \in Seq(AgentInfo)
      BY DEF TypeOK, NetworkState
    <3>2. [networkState[a] EXCEPT ![1] = agents'[a].overlays]
                \in Seq(AgentInfo)
      BY <2>2, <3>1, <1>5, ExceptSeq
    <3>3. networkState' = [networkState EXCEPT ![a] =
                            [networkState[a] EXCEPT ![1] = agents'[a].overlays]]
      BY <2>2 DEF AgentRegistered, TypeOK, NetworkState
    <3> QED
      BY <3>2, <3>3 DEF TypeOK, NetworkState
  <2> QED
    BY <2>1, <2>2
<1> QED
  BY <1>4, <1>6 DEF TypeOK, AgentRegistered, pools, storage, durable,
                    environment

\* Every step preserves the types.
LEMMA TypeStep == TypeOK /\ [Next]_vars => TypeOK'
<1> SUFFICES ASSUME TypeOK, [Next]_vars PROVE TypeOK'
  OBVIOUS
<1>1. ASSUME NEW a \in AgentIPs, RegisterAgent(a) PROVE TypeOK'
  <2>1. CASE StartRecovery(a)
    BY <2>1 DEF TypeOK, StartRecovery, pools, storage, durable, environment
  <2>2. ASSUME NEW alloc \in AllocChoices,
               RegisterNew(a, alloc) \/ RegisterKnown(a, alloc)
        PROVE  TypeOK'
    BY <2>2, RegisterNewType, RegisterKnownType
  <2>3. CASE RegistrationDropped(a)
    BY <2>3 DEF TypeOK, RegistrationDropped, vars, pools, storage, durable,
                environment
  <2>4. CASE RegisterAborts(a)
    BY <2>4, AbortType DEF RegisterAborts, AbortReasons
  <2> QED
    BY <1>1, <2>1, <2>2, <2>3, <2>4 DEF RegisterAgent
<1>2. ASSUME NEW a \in AgentIPs, NEW status \in [Overlays -> Statuses],
             AgentRegistered(a, status)
      PROVE  TypeOK'
  BY <1>2, AgentRegisteredType
<1>3. ASSUME NEW a \in AgentIPs, AgentRegisteredAborts(a) PROVE TypeOK'
  BY <1>3, AbortType DEF AgentRegisteredAborts, AbortReasons
<1>4. ASSUME NEW a \in AgentIPs, AgentRestart(a) PROVE TypeOK'
  BY <1>4 DEF TypeOK, AgentRestart, pools, storage, durable
<1>5. ASSUME NEW ips \in SUBSET AgentIPs, DeleteAgents(ips) PROVE TypeOK'
  BY <1>5, DeleteAgentsType
<1>6. ASSUME Recovery PROVE TypeOK'
  <2>1. CASE RecoverNothing
    BY <2>1 DEF TypeOK, RecoverNothing, pools, storage, durable, environment
  <2>2. CASE Recover
    BY <2>2, RecoverType
  <2>3. CASE RecoveryFailed
    <3>1. faults' \in 0..MaxFaults
      BY <2>3 DEF TypeOK, RecoveryFailed, environment
    <3> QED
      BY <2>3, <3>1, StopType DEF RecoveryFailed, Demote, environment
  <2>4. CASE FetchFailed
    <3>1. faults' \in 0..MaxFaults
      BY <2>4, ConfigAssumption DEF TypeOK, FetchFailed
    <3> QED
      BY <2>4, <3>1, StopType DEF FetchFailed, Demote
  <2> QED
    BY <1>6, <2>1, <2>2, <2>3, <2>4 DEF Recovery
<1>7. ASSUME Continuation PROVE TypeOK'
  <2>1. CASE _registerAgentAborts
    BY <2>1, AbortType DEF _registerAgentAborts, AbortReasons
  <2> QED
    BY <1>7, <2>1, _registerAgentType, DeleteType DEF Continuation
<1>8. ASSUME StoreFailed PROVE TypeOK'
  <2>1. faults' \in 0..MaxFaults
    BY <1>8, ConfigAssumption DEF TypeOK, StoreFailed
  <2> QED
    BY <1>8, <2>1, StopType DEF StoreFailed, Demote
<1>9. ASSUME Respawn PROVE TypeOK'
  BY <1>9, StartType DEF TypeOK, Respawn
<1>10. ASSUME Reboot PROVE TypeOK'
  <2>1. faults' \in 0..MaxFaults
    BY <1>10, ConfigAssumption DEF TypeOK, Reboot
  <2> QED
    BY <1>10, <2>1, StartType DEF Reboot
<1>11. ASSUME UNCHANGED vars PROVE TypeOK'
  BY <1>11 DEF TypeOK, vars, pools, storage, durable, environment
<1> QED
  BY <1>1, <1>2, <1>3, <1>4, <1>5, <1>6, <1>7, <1>8, <1>9, <1>10, <1>11,
     StoredType, StoreLandsType DEF Next

\* The manager's state is well-formed: agents hold addresses of the VTEP
\* networks, the free pools are pools of such addresses and of subnets, and
\* the log and the queues hold well-formed records.
THEOREM TypeCorrect == Spec => []TypeOK
<1>1. Init => TypeOK
  BY InitType
<1>2. TypeOK /\ [Next]_vars => TypeOK'
  BY TypeStep
<1> QED
  BY <1>1, <1>2, PTL DEF Spec

-----------------------------------------------------------------------------
(* Exclusive allocation *)

\* What agents hold goes from H to H2 and the pool from F to F2: agent x alone
\* may take, from the pool; what is taken leaves the pool, and what enters the
\* pool was given up.
Moved(H, H2, F, F2, x) ==
    /\ \A a \in AgentIPs : \A n \in H2[a] : n \in H[a] \/ (a = x /\ n \in F)
    /\ \A a \in AgentIPs : \A n \in H2[a] : n \in H[a] \/ n \notin F2
    /\ \A n \in F2 : n \in F \/ \E d \in AgentIPs : n \in H[d] /\ n \notin H2[d]

\* Such a move keeps what is held separate.
LEMMA MovedSeparate ==
    ASSUME NEW H, NEW H2, NEW F, NEW F2, NEW x,
           Separate(H, F), Moved(H, H2, F, F2, x)
    PROVE  Separate(H2, F2)
<1>1. ASSUME NEW a \in AgentIPs, NEW n \in H2[a], n \in F2
      PROVE  FALSE
  <2>1. n \in H[a]
    BY <1>1 DEF Moved
  <2>2. n \notin F
    BY <2>1 DEF Separate
  <2>3. PICK d \in AgentIPs : n \in H[d] /\ n \notin H2[d]
    BY <1>1, <2>2 DEF Moved
  <2>4. d # a
    BY <1>1, <2>3
  <2> QED
    BY <2>1, <2>3, <2>4 DEF Separate
<1>2. ASSUME NEW a \in AgentIPs, NEW b \in AgentIPs \ {a},
             NEW n \in H2[a], n \in H2[b]
      PROVE  FALSE
  <2>1. n \in H[a] \/ (a = x /\ n \in F)
    BY DEF Moved
  <2>2. n \in H[b] \/ (b = x /\ n \in F)
    BY <1>2 DEF Moved
  <2> QED
    BY <2>1, <2>2 DEF Separate
<1> QED
  BY <1>1, <1>2 DEF Separate

\* A pool that shrinks while nobody takes anything.
LEMMA Unmoved ==
    ASSUME NEW H, NEW F, NEW F2, F2 \subseteq F, Separate(H, F)
    PROVE  Separate(H, F2)
  BY DEF Separate

\* Nobody holds anything at first.
LEMMA NobodyHolds ==
    /\ \A o \in Overlays : \A F : Separate(HeldSubnets(NoAgents, o), F)
    /\ \A o \in Overlays : \A F : Separate(HeldSubnets6(NoAgents, o), F)
    /\ \A F : Separate(HeldVteps(NoAgents), F)
    /\ \A F : Separate(HeldVtep6s(NoAgents), F)
  BY DEF Separate, NoAgents, HeldSubnets, HeldSubnets6, HeldVteps, HeldVtep6s

\* Nobody holds anything at the start.
LEMMA InitExclusive == Init => MemoryExclusive
  BY NobodyHolds DEF Init, MemoryExclusive

\* Nobody holds anything in a new process.
LEMMA StartExclusive ==
    ASSUME NEW c, Start(c)
    PROVE  MemoryExclusive'
  BY NobodyHolds DEF Start, MemoryExclusive

\* allocate and allocate6 give agent x what they remove from the pools, on top
\* of what it has.
LEMMA AllocatedSubnets ==
    ASSUME TypeOK, NEW x \in AgentIPs, NEW has, NEW b, NEW alloc,
           NEW o \in Overlays,
           agents' = [agents EXCEPT ![x] =
                [backend |-> b, overlays |-> WithOverlays(has, b, alloc)]],
           AllocateSubnets(has, alloc),
           has = IF agents[x] = None THEN NoOverlays ELSE agents[x].overlays
    PROVE  /\ Moved(HeldSubnets(agents, o), HeldSubnets(agents', o),
                    freeNetworks[o], freeNetworks'[o], x)
           /\ Moved(HeldSubnets6(agents, o), HeldSubnets6(agents', o),
                    freeNetworks6[o], freeNetworks6'[o], x)
<1> DEFINE new == NewOverlay(o, b, alloc)
<1>1. \A a \in AgentIPs : a # x => agents'[a] = agents[a]
  BY DEF TypeOK
<1>2. agents'[x] = [backend |-> b, overlays |-> WithOverlays(has, b, alloc)]
  BY DEF TypeOK
<1>3. agents'[x].overlays[o] = IF o \in Added(has, alloc) THEN new ELSE has[o]
  BY <1>2 DEF WithOverlays
<1>4. \/ o \in Added(has, alloc) /\ agents'[x].overlays[o] = new
      \/ agents'[x].overlays[o] = None
      \/ agents[x] # None /\ agents'[x].overlays[o] = agents[x].overlays[o]
  BY <1>3 DEF NoOverlays
<1>5. freeNetworks'[o] \subseteq freeNetworks[o]
  BY DEF AllocateSubnets
<1>6. freeNetworks6'[o] \subseteq freeNetworks6[o]
  BY DEF AllocateSubnets
<1>7. o \in Added(has, alloc) /\ new.subnet # None =>
        new.subnet \in freeNetworks[o] /\ new.subnet \notin freeNetworks'[o]
  BY FreePoolsNat, LowestInSet
  DEF Added, NewOverlay, Takes, AllocateSubnets
<1>8. o \in Added(has, alloc) /\ new.subnet6 # None =>
        new.subnet6 \in freeNetworks6[o] /\ new.subnet6 \notin freeNetworks6'[o]
  BY FreePoolsNat, LowestInSet
  DEF Added, NewOverlay, Takes6, AllocateSubnets
<1> HIDE DEF new
<1>9. Moved(HeldSubnets(agents, o), HeldSubnets(agents', o),
            freeNetworks[o], freeNetworks'[o], x)
  <2>1. \A a \in AgentIPs : a # x =>
            HeldSubnets(agents', o)[a] = HeldSubnets(agents, o)[a]
    BY <1>1 DEF HeldSubnets
  <2>2. \A n \in HeldSubnets(agents', o)[x] :
            \/ n \in HeldSubnets(agents, o)[x]
            \/ n \in freeNetworks[o] /\ n \notin freeNetworks'[o]
    <3>1. HeldSubnets(agents', o)[x] =
            IF agents'[x] = None \/ agents'[x].overlays[o] = None THEN {}
            ELSE {agents'[x].overlays[o].subnet} \ {None}
      BY DEF HeldSubnets
    <3>2. HeldSubnets(agents, o)[x] =
            IF agents[x] = None \/ agents[x].overlays[o] = None THEN {}
            ELSE {agents[x].overlays[o].subnet} \ {None}
      BY DEF HeldSubnets
    <3> QED
      BY <1>4, <1>7, <3>1, <3>2
  <2> QED
    BY <2>1, <2>2, <1>5 DEF Moved
<1>10. Moved(HeldSubnets6(agents, o), HeldSubnets6(agents', o),
             freeNetworks6[o], freeNetworks6'[o], x)
  <2>1. \A a \in AgentIPs : a # x =>
            HeldSubnets6(agents', o)[a] = HeldSubnets6(agents, o)[a]
    BY <1>1 DEF HeldSubnets6
  <2>2. \A n \in HeldSubnets6(agents', o)[x] :
            \/ n \in HeldSubnets6(agents, o)[x]
            \/ n \in freeNetworks6[o] /\ n \notin freeNetworks6'[o]
    <3>1. HeldSubnets6(agents', o)[x] =
            IF agents'[x] = None \/ agents'[x].overlays[o] = None THEN {}
            ELSE {agents'[x].overlays[o].subnet6} \ {None}
      BY DEF HeldSubnets6
    <3>2. HeldSubnets6(agents, o)[x] =
            IF agents[x] = None \/ agents[x].overlays[o] = None THEN {}
            ELSE {agents[x].overlays[o].subnet6} \ {None}
      BY DEF HeldSubnets6
    <3> QED
      BY <1>4, <1>8, <3>1, <3>2
  <2> QED
    BY <2>1, <2>2, <1>6 DEF Moved
<1> QED
  BY <1>9, <1>10

\* New overlays carry the addresses of the agent's backend, and no others.
LEMMA WithOverlaysVteps ==
    ASSUME NEW has, NEW b, NEW alloc
    PROVE  /\ VtepsOf(WithOverlays(has, b, alloc)) \subseteq
                    VtepsOf(has) \cup {b.vtep}
           /\ Vtep6sOf(WithOverlays(has, b, alloc)) \subseteq
                    Vtep6sOf(has) \cup ({b.vtep6} \ {None})
<1>1. ASSUME NEW o \in Names(WithOverlays(has, b, alloc))
      PROVE  \/ /\ WithOverlays(has, b, alloc)[o].vtep = b.vtep
                /\ WithOverlays(has, b, alloc)[o].vtep6 = b.vtep6
             \/ o \in Names(has) /\ WithOverlays(has, b, alloc)[o] = has[o]
  BY DEF Names, WithOverlays, NewOverlay
<1> QED
  BY <1>1 DEF VtepsOf, Vtep6sOf

\* A new agent takes the lowest VTEP addresses from their pools.
LEMMA RegisterNewExclusive ==
    ASSUME TypeOK, MemoryExclusive, NEW a \in AgentIPs, NEW alloc,
           RegisterNew(a, alloc)
    PROVE  MemoryExclusive'
<1> DEFINE backend == [vtep |-> Lowest(freeIP),
                       vtep6 |-> IF config.network6 THEN Lowest(freeIP6)
                                                    ELSE None]
           given == WithOverlays(NoOverlays, backend, alloc)
<1>1. agents[a] = None /\ freeIP' = freeIP \ {Lowest(freeIP)}
  BY DEF RegisterNew
<1>2. CASE config.network6 /\ freeIP6 = {}
  <2>1. UNCHANGED <<agents, freeIP6, freeNetworks, freeNetworks6>>
    BY <1>2 DEF RegisterNew
  <2>2. freeIP' \subseteq freeIP
    BY <1>1
  <2> QED
    BY <2>1, <2>2, Unmoved DEF MemoryExclusive
<1>3. CASE ~ (config.network6 /\ freeIP6 = {})
  <2>1. /\ freeIP6' = freeIP6 \ {backend.vtep6}
        /\ agents' = [agents EXCEPT ![a] =
              [backend |-> backend, overlays |-> given]]
        /\ AllocateSubnets(NoOverlays, alloc)
        /\ freeIP # {}
    BY <1>3 DEF RegisterNew
  <2>2. Lowest(freeIP) \in freeIP
    BY <2>1, FreePoolsNat, LowestInSet
  <2>3. backend.vtep6 # None => backend.vtep6 \in freeIP6
    BY <1>3, FreePoolsNat, LowestInSet
  <2>4. /\ VtepsOf(given) \subseteq {backend.vtep}
        /\ Vtep6sOf(given) \subseteq {backend.vtep6} \ {None}
    <3>1. VtepsOf(NoOverlays) = {} /\ Vtep6sOf(NoOverlays) = {}
      BY DEF NoOverlays, VtepsOf, Vtep6sOf, Names
    <3> HIDE DEF backend
    <3> QED
      BY <3>1, WithOverlaysVteps
  <2>5. ASSUME NEW o \in Overlays
        PROVE  /\ Separate(HeldSubnets(agents, o), freeNetworks[o])'
               /\ Separate(HeldSubnets6(agents, o), freeNetworks6[o])'
    <3> HIDE DEF backend
    <3> QED
      BY <1>1, <2>1, AllocatedSubnets, MovedSeparate DEF MemoryExclusive
  <2>6. \A b \in AgentIPs : b # a => agents'[b] = agents[b]
    BY <2>1 DEF TypeOK
  <2>7. agents'[a] = [backend |-> backend, overlays |-> given]
    BY <2>1 DEF TypeOK
  <2> HIDE DEF given
  <2>8. Separate(HeldVteps(agents), freeIP)'
    <3>1. HeldVteps(agents')[a] \subseteq {Lowest(freeIP)}
      BY <2>4, <2>7 DEF HeldVteps, BackendVteps
    <3>2. \A b \in AgentIPs : b # a =>
            HeldVteps(agents')[b] = HeldVteps(agents)[b]
      BY <2>6 DEF HeldVteps
    <3>3. Moved(HeldVteps(agents), HeldVteps(agents'), freeIP, freeIP', a)
      BY <1>1, <2>2, <3>1, <3>2 DEF Moved
    <3> QED
      BY <3>3, MovedSeparate DEF MemoryExclusive
  <2>9. Separate(HeldVtep6s(agents), freeIP6)'
    <3>1. HeldVtep6s(agents')[a] \subseteq {backend.vtep6} \ {None}
      BY <2>4, <2>7 DEF HeldVtep6s, BackendVtep6s
    <3>2. \A b \in AgentIPs : b # a =>
            HeldVtep6s(agents')[b] = HeldVtep6s(agents)[b]
      BY <2>6 DEF HeldVtep6s
    <3> HIDE DEF backend
    <3>3. Moved(HeldVtep6s(agents), HeldVtep6s(agents'), freeIP6, freeIP6', a)
      BY <2>1, <2>3, <3>1, <3>2 DEF Moved
    <3> QED
      BY <3>3, MovedSeparate DEF MemoryExclusive
  <2> QED
    BY <2>5, <2>8, <2>9 DEF MemoryExclusive
<1> QED
  BY <1>2, <1>3

\* A known agent keeps its VTEP IP, and takes a VTEP IPv6 if it has none.
LEMMA RegisterKnownExclusive ==
    ASSUME TypeOK, MemoryExclusive, NEW a \in AgentIPs, NEW alloc,
           RegisterKnown(a, alloc)
    PROVE  MemoryExclusive'
<1> DEFINE needs6 == config.network6 /\ agents[a].backend.vtep6 = None
           has == agents[a].overlays
           backend == IF needs6
                      THEN [agents[a].backend EXCEPT !.vtep6 = Lowest(freeIP6)]
                      ELSE agents[a].backend
           given == WithOverlays(has, backend, alloc)
<1>1. /\ agents[a] # None /\ agents[a].backend # None
      /\ needs6 => freeIP6 # {}
      /\ freeIP6' = IF needs6 THEN freeIP6 \ {Lowest(freeIP6)} ELSE freeIP6
      /\ agents' = [agents EXCEPT ![a] =
            [backend |-> backend, overlays |-> given]]
      /\ AllocateSubnets(has, alloc)
      /\ freeIP' = freeIP
  BY DEF RegisterKnown
<1>2. agents[a].backend \in BackendInfo
  BY <1>1 DEF TypeOK, Agent
<1>3. /\ backend.vtep = agents[a].backend.vtep
      /\ backend.vtep6 = IF needs6 THEN Lowest(freeIP6)
                         ELSE agents[a].backend.vtep6
  BY <1>2 DEF BackendInfo
<1>4. needs6 => Lowest(freeIP6) \in freeIP6
  BY <1>1, FreePoolsNat, LowestInSet
<1> HIDE DEF needs6, backend
<1>5. /\ VtepsOf(given) \subseteq VtepsOf(has) \cup {backend.vtep}
      /\ Vtep6sOf(given) \subseteq Vtep6sOf(has) \cup ({backend.vtep6} \ {None})
  BY WithOverlaysVteps
<1>6. ASSUME NEW o \in Overlays
      PROVE  /\ Separate(HeldSubnets(agents, o), freeNetworks[o])'
             /\ Separate(HeldSubnets6(agents, o), freeNetworks6[o])'
  BY <1>1, AllocatedSubnets, MovedSeparate DEF MemoryExclusive
<1>7. \A b \in AgentIPs : b # a => agents'[b] = agents[b]
  BY <1>1 DEF TypeOK
<1>8. agents'[a] = [backend |-> backend, overlays |-> given]
  BY <1>1 DEF TypeOK
<1> HIDE DEF given
<1>9. Separate(HeldVteps(agents), freeIP)'
  <2>1. HeldVteps(agents')[a] \subseteq HeldVteps(agents)[a]
    BY <1>1, <1>3, <1>5, <1>8 DEF HeldVteps, BackendVteps
  <2>2. \A b \in AgentIPs : b # a =>
          HeldVteps(agents')[b] = HeldVteps(agents)[b]
    BY <1>7 DEF HeldVteps
  <2>3. Moved(HeldVteps(agents), HeldVteps(agents'), freeIP, freeIP', a)
    BY <1>1, <2>1, <2>2 DEF Moved
  <2> QED
    BY <2>3, MovedSeparate DEF MemoryExclusive
<1>10. Separate(HeldVtep6s(agents), freeIP6)'
  <2>1. HeldVtep6s(agents')[a] \subseteq
            HeldVtep6s(agents)[a] \cup ({backend.vtep6} \ {None})
    BY <1>1, <1>5, <1>8 DEF HeldVtep6s, BackendVtep6s
  <2>2. ~needs6 => {backend.vtep6} \ {None} \subseteq HeldVtep6s(agents)[a]
    BY <1>1, <1>3 DEF HeldVtep6s, BackendVtep6s
  <2>3. \A b \in AgentIPs : b # a =>
          HeldVtep6s(agents')[b] = HeldVtep6s(agents)[b]
    BY <1>7 DEF HeldVtep6s
  <2>4. Moved(HeldVtep6s(agents), HeldVtep6s(agents'), freeIP6, freeIP6', a)
    <3>1. CASE needs6
      BY <1>1, <1>3, <1>4, <2>1, <2>3, <3>1 DEF Moved
    <3>2. CASE ~needs6
      BY <1>1, <2>1, <2>2, <2>3, <3>2 DEF Moved
    <3> QED
      BY <3>1, <3>2
  <2> QED
    BY <2>4, MovedSeparate DEF MemoryExclusive
<1> QED
  BY <1>6, <1>9, <1>10 DEF MemoryExclusive

\* Statuses have no part in what an agent holds.
LEMMA AgentRegisteredExclusive ==
    ASSUME TypeOK, MemoryExclusive, NEW a \in AgentIPs, NEW status,
           AgentRegistered(a, status)
    PROVE  MemoryExclusive'
<1>1. \A b \in AgentIPs : b # a => agents'[b] = agents[b]
  BY DEF TypeOK, AgentRegistered
<1>2. agents[a] \in Agent /\ agents[a].overlays \in AgentInfo
      /\ agents[a] # None
  BY DEF TypeOK, AgentRegistered, Agent
<1>3. /\ agents'[a].backend = agents[a].backend
      /\ agents'[a].overlays = [o \in Overlays |->
                IF o \in known[a]
                THEN [agents[a].overlays[o] EXCEPT !.status = status[o]]
                ELSE agents[a].overlays[o]]
  BY <1>2 DEF TypeOK, AgentRegistered, Agent
<1>4. ASSUME NEW o \in Overlays
      PROVE  \/ agents'[a].overlays[o] = None
             \/ /\ agents[a].overlays[o] # None
                /\ agents'[a].overlays[o].subnet = agents[a].overlays[o].subnet
                /\ agents'[a].overlays[o].subnet6 = agents[a].overlays[o].subnet6
                /\ agents'[a].overlays[o].vtep = agents[a].overlays[o].vtep
                /\ agents'[a].overlays[o].vtep6 = agents[a].overlays[o].vtep6
  <2>1. CASE o \in known[a]
    <3>1. agents[a].overlays[o] \in OverlayInfo /\ agents[a].overlays[o] # None
      BY <1>2, <2>1 DEF AgentRegistered, Names, AgentInfo
    <3>2. agents'[a].overlays[o] =
            [agents[a].overlays[o] EXCEPT !.status = status[o]]
      BY <1>3, <2>1
    <3> QED
      BY <3>1, <3>2 DEF OverlayInfo
  <2>2. CASE o \notin known[a]
    BY <1>3, <2>2
  <2> QED
    BY <2>1, <2>2
<1>5. /\ VtepsOf(agents'[a].overlays) \subseteq VtepsOf(agents[a].overlays)
      /\ Vtep6sOf(agents'[a].overlays) \subseteq Vtep6sOf(agents[a].overlays)
  BY <1>4 DEF VtepsOf, Vtep6sOf, Names
<1>6. UNCHANGED <<freeIP, freeIP6, freeNetworks, freeNetworks6>>
  BY DEF AgentRegistered, pools
<1>7. ASSUME NEW o \in Overlays
      PROVE  /\ Separate(HeldSubnets(agents, o), freeNetworks[o])'
             /\ Separate(HeldSubnets6(agents, o), freeNetworks6[o])'
  <2>1. \A b \in AgentIPs :
          /\ HeldSubnets(agents', o)[b] \subseteq HeldSubnets(agents, o)[b]
          /\ HeldSubnets6(agents', o)[b] \subseteq HeldSubnets6(agents, o)[b]
    BY <1>1, <1>2, <1>4 DEF HeldSubnets, HeldSubnets6
  <2>2. /\ Moved(HeldSubnets(agents, o), HeldSubnets(agents', o),
                 freeNetworks[o], freeNetworks'[o], a)
        /\ Moved(HeldSubnets6(agents, o), HeldSubnets6(agents', o),
                 freeNetworks6[o], freeNetworks6'[o], a)
    BY <1>6, <2>1 DEF Moved
  <2> QED
    BY <2>2, MovedSeparate DEF MemoryExclusive
<1>8. \A b \in AgentIPs :
        /\ HeldVteps(agents')[b] \subseteq HeldVteps(agents)[b]
        /\ HeldVtep6s(agents')[b] \subseteq HeldVtep6s(agents)[b]
  BY <1>1, <1>2, <1>3, <1>5
  DEF HeldVteps, HeldVtep6s, BackendVteps, BackendVtep6s
<1>9. /\ Moved(HeldVteps(agents), HeldVteps(agents'), freeIP, freeIP', a)
      /\ Moved(HeldVtep6s(agents), HeldVtep6s(agents'), freeIP6, freeIP6', a)
  BY <1>6, <1>8 DEF Moved
<1>10. /\ Separate(HeldVteps(agents), freeIP)'
       /\ Separate(HeldVtep6s(agents), freeIP6)'
  BY <1>9, MovedSeparate DEF MemoryExclusive
<1> QED
  BY <1>7, <1>10 DEF MemoryExclusive

\* deleteAgents gives back what the agents it erases held.
LEMMA DeleteExclusive ==
    ASSUME TypeOK, MemoryExclusive, _deleteAgentsEndpoint
    PROVE  MemoryExclusive'
<1> DEFINE ips == Head(mailbox).ips
<1>1. CASE DeletionFails(ips)
  <2>1. UNCHANGED <<agents, freeIP, freeIP6, freeNetworks, freeNetworks6>>
    BY <1>1 DEF _deleteAgentsEndpoint, Abort, Stop, pools
  <2> QED
    BY <2>1 DEF MemoryExclusive
<1>2. CASE ~DeletionFails(ips)
  <2>1. Deallocate(Deleted(ips)) /\ agents' = Without(ips)
    BY <1>2 DEF _deleteAgentsEndpoint
  <2>2. ips \subseteq AgentIPs
    BY TailType DEF _deleteAgentsEndpoint, Operation
  <2> HIDE DEF ips
  <2>3. \A d \in Deleted(ips) :
            d \in AgentIPs /\ agents[d] # None /\ agents'[d] = None
    BY <2>1, <2>2 DEF Deleted, Without
  <2>4. \A a \in AgentIPs : agents'[a] = None \/ agents'[a] = agents[a]
    BY <2>1 DEF Without
  <2>5. ASSUME NEW o \in Overlays
        PROVE  /\ Separate(HeldSubnets(agents, o), freeNetworks[o])'
               /\ Separate(HeldSubnets6(agents, o), freeNetworks6[o])'
    <3>1. Moved(HeldSubnets(agents, o), HeldSubnets(agents', o),
                freeNetworks[o], freeNetworks'[o], None)
      <4>1. \A a \in AgentIPs :
                HeldSubnets(agents', o)[a] \subseteq HeldSubnets(agents, o)[a]
        BY <2>4 DEF HeldSubnets
      <4>2. \A n \in SubnetsOf(Deleted(ips), o) :
                \E d \in AgentIPs : /\ n \in HeldSubnets(agents, o)[d]
                                    /\ n \notin HeldSubnets(agents', o)[d]
        BY <2>3 DEF SubnetsOf, HeldSubnets
      <4>3. freeNetworks'[o] = freeNetworks[o] \cup SubnetsOf(Deleted(ips), o)
        BY <2>1 DEF Deallocate
      <4> QED
        BY <4>1, <4>2, <4>3 DEF Moved
    <3>2. Moved(HeldSubnets6(agents, o), HeldSubnets6(agents', o),
                freeNetworks6[o], freeNetworks6'[o], None)
      <4>1. \A a \in AgentIPs :
                HeldSubnets6(agents', o)[a] \subseteq HeldSubnets6(agents, o)[a]
        BY <2>4 DEF HeldSubnets6
      <4>2. \A n \in Subnets6Of(Deleted(ips), o) :
                \E d \in AgentIPs : /\ n \in HeldSubnets6(agents, o)[d]
                                    /\ n \notin HeldSubnets6(agents', o)[d]
        BY <2>3 DEF Subnets6Of, HeldSubnets6
      <4>3. freeNetworks6'[o] =
                freeNetworks6[o] \cup Subnets6Of(Deleted(ips), o)
        BY <2>1 DEF Deallocate
      <4> QED
        BY <4>1, <4>2, <4>3 DEF Moved
    <3> QED
      BY <3>1, <3>2, MovedSeparate DEF MemoryExclusive
  <2>6. \A a \in AgentIPs :
          /\ HeldVteps(agents')[a] \subseteq HeldVteps(agents)[a]
          /\ HeldVtep6s(agents')[a] \subseteq HeldVtep6s(agents)[a]
    BY <2>4 DEF HeldVteps, HeldVtep6s, BackendVteps, BackendVtep6s
  <2>7. \A d \in Deleted(ips) :
          /\ FreedIPs(d) \subseteq HeldVteps(agents)[d]
          /\ FreedIP6s(d) \subseteq HeldVtep6s(agents)[d]
          /\ HeldVteps(agents')[d] = {} /\ HeldVtep6s(agents')[d] = {}
    BY <2>3 DEF HeldVteps, HeldVtep6s, FreedIPs, FreedIP6s
  <2>8. /\ freeIP' = freeIP \cup UNION {FreedIPs(a) : a \in Deleted(ips)}
        /\ freeIP6' = freeIP6 \cup UNION {FreedIP6s(a) : a \in Deleted(ips)}
    BY <2>1 DEF Deallocate
  <2>9. Moved(HeldVteps(agents), HeldVteps(agents'), freeIP, freeIP', None)
    BY <2>3, <2>6, <2>7, <2>8 DEF Moved
  <2>10. Moved(HeldVtep6s(agents), HeldVtep6s(agents'), freeIP6, freeIP6', None)
    BY <2>3, <2>6, <2>7, <2>8 DEF Moved
  <2> QED
    BY <2>5, <2>9, <2>10, MovedSeparate DEF MemoryExclusive
<1> QED
  BY <1>1, <1>2

\* What _recover reserves, no two agents share.
LEMMA RecoverExclusive ==
    ASSUME TypeOK, Recover
    PROVE  MemoryExclusive'
<1> DEFINE infos == {log[r[1]][r[2]] : r \in Records(log)}
<1>1. PICK first \in [AgentIPs -> Backends(log) \cup {None}] :
        /\ \A a \in AgentIPs :
              first[a] \in IF log[a] = <<>> THEN {None}
                                            ELSE BackendsOf(log[a][1])
        /\ agents' = [a \in AgentIPs |->
              IF log[a] = <<>> THEN None
              ELSE [backend |-> first[a],
                    overlays |-> ClearStatus(log[a][1])]]
  BY DEF Recover
<1>2. Reserve(infos) /\ AllDisjoint(log)
  BY DEF Recover, Reservable
<1>3. ASSUME NEW a \in AgentIPs, agents'[a] # None
      PROVE  /\ <<a, 1>> \in Records(log) /\ log[a][1] \in infos
             /\ log[a][1] \in AgentInfo
             /\ agents'[a].overlays = ClearStatus(log[a][1])
             /\ agents'[a].backend \in BackendsOf(log[a][1])
  <2>1. log[a] # <<>>
    BY <1>1, <1>3
  <2>2. log[a] \in Seq(AgentInfo)
    BY DEF TypeOK, NetworkState
  <2>3. 1 \in DOMAIN log[a] /\ log[a][1] \in AgentInfo
    BY <2>1, <2>2, EmptySeq, ElementOfSeq, LenProperties
  <2>4. <<a, 1>> \in Records(log)
    BY <2>3 DEF Records
  <2>5. log[a][1] \in infos
    BY <2>4
  <2> HIDE DEF infos
  <2> QED
    BY <1>1, <2>1, <2>3, <2>4, <2>5
<1>4. ASSUME NEW info \in AgentInfo, NEW o \in Overlays,
             ClearStatus(info)[o] # None
      PROVE  /\ o \in Names(info) /\ info[o] # None
             /\ ClearStatus(info)[o].subnet = info[o].subnet
             /\ ClearStatus(info)[o].subnet6 = info[o].subnet6
             /\ ClearStatus(info)[o].vtep = info[o].vtep
             /\ ClearStatus(info)[o].vtep6 = info[o].vtep6
  BY <1>4 DEF ClearStatus, Names, AgentInfo, OverlayInfo
<1>5. ASSUME NEW info \in AgentInfo
      PROVE  /\ VtepsOf(ClearStatus(info)) \subseteq VtepsOf(info)
             /\ Vtep6sOf(ClearStatus(info)) \subseteq Vtep6sOf(info)
  BY <1>4 DEF VtepsOf, Vtep6sOf, Names
<1>6. ASSUME NEW info, NEW b \in BackendsOf(info)
      PROVE  b # None => /\ b.vtep \in VtepsOf(info)
                         /\ b.vtep6 # None => b.vtep6 \in Vtep6sOf(info)
  BY <1>6 DEF BackendsOf, VtepsOf, Vtep6sOf
<1>7. ASSUME NEW a \in AgentIPs, NEW b \in AgentIPs \ {a},
             agents'[a] # None, agents'[b] # None
      PROVE  Disjoint(log[a][1], log[b][1])
  <2>1. <<a, 1>> \in Records(log) /\ <<b, 1>> \in Records(log)
    BY <1>3, <1>7
  <2>2. <<a, 1>> # <<b, 1>>
    OBVIOUS
  <2> QED
    BY <1>2, <2>1, <2>2 DEF AllDisjoint
<1>8. ASSUME NEW o \in Overlays
      PROVE  /\ Separate(HeldSubnets(agents, o), freeNetworks[o])'
             /\ Separate(HeldSubnets6(agents, o), freeNetworks6[o])'
  <2>1. ASSUME NEW a \in AgentIPs
        PROVE  /\ \A n \in HeldSubnets(agents', o)[a] :
                    /\ agents'[a] # None /\ o \in Names(log[a][1])
                    /\ log[a][1][o] # None
                    /\ n = log[a][1][o].subnet /\ n # None
               /\ \A n \in HeldSubnets6(agents', o)[a] :
                    /\ agents'[a] # None /\ o \in Names(log[a][1])
                    /\ log[a][1][o] # None
                    /\ n = log[a][1][o].subnet6 /\ n # None
    <3>1. CASE agents'[a] = None
      BY <3>1 DEF HeldSubnets, HeldSubnets6
    <3>2. CASE agents'[a] # None
      <4>1. /\ log[a][1] \in AgentInfo
            /\ agents'[a].overlays = ClearStatus(log[a][1])
        BY <1>3, <3>2
      <4>2. agents'[a].overlays[o] # None =>
                /\ o \in Names(log[a][1]) /\ log[a][1][o] # None
                /\ agents'[a].overlays[o].subnet = log[a][1][o].subnet
                /\ agents'[a].overlays[o].subnet6 = log[a][1][o].subnet6
        BY <1>4, <4>1
      <4> QED
        BY <3>2, <4>2 DEF HeldSubnets, HeldSubnets6
    <3> QED
      BY <3>1, <3>2
  <2>2. /\ freeNetworks'[o] = freeNetworks[o] \
                {i[o].subnet : i \in {j \in infos : j[o] # None}}
        /\ freeNetworks6'[o] = freeNetworks6[o] \
                {i[o].subnet6 : i \in {j \in infos : j[o] # None}}
    BY <1>2 DEF Reserve, ReserveSubnets, ReserveSubnets6
  <2> HIDE DEF infos
  <2>3. ASSUME NEW a \in AgentIPs
        PROVE  /\ HeldSubnets(agents', o)[a] \cap freeNetworks'[o] = {}
               /\ HeldSubnets6(agents', o)[a] \cap freeNetworks6'[o] = {}
    BY <1>3, <2>1, <2>2
  <2>4. ASSUME NEW a \in AgentIPs, NEW b \in AgentIPs \ {a}
        PROVE  /\ HeldSubnets(agents', o)[a] \cap HeldSubnets(agents', o)[b]
                    = {}
               /\ HeldSubnets6(agents', o)[a] \cap HeldSubnets6(agents', o)[b]
                    = {}
    BY <1>7, <2>1 DEF Disjoint
  <2> QED
    BY <2>3, <2>4 DEF Separate
<1>9. ASSUME NEW a \in AgentIPs
      PROVE  /\ agents'[a] = None => /\ HeldVteps(agents')[a] = {}
                                     /\ HeldVtep6s(agents')[a] = {}
             /\ agents'[a] # None =>
                    /\ HeldVteps(agents')[a] \subseteq VtepsOf(log[a][1])
                    /\ HeldVtep6s(agents')[a] \subseteq Vtep6sOf(log[a][1])
  <2>1. CASE agents'[a] = None
    BY <2>1 DEF HeldVteps, HeldVtep6s
  <2>2. CASE agents'[a] # None
    <3>1. /\ log[a][1] \in AgentInfo
          /\ agents'[a].overlays = ClearStatus(log[a][1])
          /\ agents'[a].backend \in BackendsOf(log[a][1])
      BY <1>3, <2>2
    <3>2. /\ VtepsOf(agents'[a].overlays) \subseteq VtepsOf(log[a][1])
          /\ Vtep6sOf(agents'[a].overlays) \subseteq Vtep6sOf(log[a][1])
      BY <1>5, <3>1
    <3>3. /\ BackendVteps(agents'[a]) \subseteq VtepsOf(log[a][1])
          /\ BackendVtep6s(agents'[a]) \subseteq Vtep6sOf(log[a][1])
      BY <1>6, <3>1 DEF BackendVteps, BackendVtep6s
    <3> QED
      BY <2>2, <3>2, <3>3 DEF HeldVteps, HeldVtep6s
  <2> QED
    BY <2>1, <2>2
<1>10. /\ freeIP' = freeIP \ UNION {VtepsOf(i) : i \in infos}
       /\ freeIP6' = freeIP6 \ UNION {Vtep6sOf(i) : i \in infos}
  BY <1>2 DEF Reserve, ReserveIPs, ReserveIP6s
<1> HIDE DEF infos
<1>11. ASSUME NEW a \in AgentIPs
       PROVE  /\ HeldVteps(agents')[a] \cap freeIP' = {}
              /\ HeldVtep6s(agents')[a] \cap freeIP6' = {}
  <2>1. CASE agents'[a] = None
    BY <1>9, <2>1
  <2>2. CASE agents'[a] # None
    <3>1. log[a][1] \in infos
      BY <1>3, <2>2
    <3>2. /\ VtepsOf(log[a][1]) \cap freeIP' = {}
          /\ Vtep6sOf(log[a][1]) \cap freeIP6' = {}
      BY <1>10, <3>1
    <3> QED
      BY <1>9, <2>2, <3>2
  <2> QED
    BY <2>1, <2>2
<1>12. ASSUME NEW a \in AgentIPs, NEW b \in AgentIPs \ {a}
       PROVE  /\ HeldVteps(agents')[a] \cap HeldVteps(agents')[b] = {}
              /\ HeldVtep6s(agents')[a] \cap HeldVtep6s(agents')[b] = {}
  BY <1>7, <1>9 DEF Disjoint
<1>13. /\ Separate(HeldVteps(agents), freeIP)'
       /\ Separate(HeldVtep6s(agents), freeIP6)'
  BY <1>11, <1>12 DEF Separate
<1> QED
  BY <1>8, <1>13 DEF MemoryExclusive

\* Every step keeps what agents hold exclusive.
LEMMA ExclusiveStep == TypeOK /\ MemoryExclusive /\ [Next]_vars => MemoryExclusive'
<1> SUFFICES ASSUME TypeOK, MemoryExclusive, [Next]_vars
             PROVE  MemoryExclusive'
  OBVIOUS
<1>1. ASSUME UNCHANGED <<agents, pools>> PROVE MemoryExclusive'
  BY <1>1 DEF MemoryExclusive, pools
<1>2. ASSUME NEW a \in AgentIPs, RegisterAgent(a) PROVE MemoryExclusive'
  <2>1. ASSUME NEW alloc \in AllocChoices,
               RegisterNew(a, alloc) \/ RegisterKnown(a, alloc)
        PROVE  MemoryExclusive'
    BY <2>1, RegisterNewExclusive, RegisterKnownExclusive
  <2>2. CASE StartRecovery(a) \/ RegistrationDropped(a) \/ RegisterAborts(a)
    BY <1>1, <2>2
    DEF StartRecovery, RegistrationDropped, RegisterAborts, Abort, Stop, vars
  <2> QED
    BY <1>2, <2>1, <2>2 DEF RegisterAgent
<1>3. ASSUME NEW a \in AgentIPs, NEW status, AgentRegistered(a, status)
      PROVE  MemoryExclusive'
  BY <1>3, AgentRegisteredExclusive
<1>4. ASSUME NEW a \in AgentIPs, AgentRegisteredAborts(a) \/ AgentRestart(a)
      PROVE  MemoryExclusive'
  BY <1>1, <1>4 DEF AgentRegisteredAborts, AgentRestart, Abort, Stop
<1>5. ASSUME NEW ips, DeleteAgents(ips) PROVE MemoryExclusive'
  BY <1>1, <1>5 DEF DeleteAgents
<1>6. ASSUME Recovery PROVE MemoryExclusive'
  <2>1. CASE RecoverNothing \/ RecoveryFailed \/ FetchFailed
    BY <1>1, <2>1 DEF RecoverNothing, RecoveryFailed, FetchFailed, Demote, Stop
  <2> QED
    BY <1>6, <2>1, RecoverExclusive DEF Recovery
<1>7. ASSUME Continuation PROVE MemoryExclusive'
  <2>1. CASE _registerAgent \/ _registerAgentAborts
    BY <1>1, <2>1 DEF _registerAgent, _registerAgentAborts, Abort, Stop
  <2> QED
    BY <1>7, <2>1, DeleteExclusive DEF Continuation
<1>8. ASSUME StoreLands \/ Stored \/ StoreFailed PROVE MemoryExclusive'
  BY <1>1, <1>8 DEF StoreLands, Stored, StoreFailed, Demote, Stop
<1>9. ASSUME Respawn \/ Reboot PROVE MemoryExclusive'
  BY <1>9, StartExclusive DEF Respawn, Reboot
<1>10. ASSUME UNCHANGED vars PROVE MemoryExclusive'
  BY <1>1, <1>10 DEF vars
<1> QED
  BY <1>2, <1>3, <1>4, <1>5, <1>6, <1>7, <1>8, <1>9, <1>10 DEF Next

\* However registrations, purges, stores, log failures, restarts and recoveries
\* interleave, no subnet or VTEP address that the manager has given to an agent
\* is with another agent or in a free pool.
THEOREM Exclusive == Spec => []MemoryExclusive
<1> DEFINE IInv == TypeOK /\ MemoryExclusive
<1>1. Init => IInv
  BY InitType, InitExclusive
<1>2. IInv /\ [Next]_vars => IInv'
  BY TypeStep, ExclusiveStep
<1> QED
  BY <1>1, <1>2, PTL DEF Spec

=============================================================================
