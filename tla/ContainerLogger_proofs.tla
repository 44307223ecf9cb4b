----------------------- MODULE ContainerLogger_proofs -----------------------
(***************************************************************************)
(* Proofs about ContainerLogger, for all containers and sandbox paths, and  *)
(* any number of failing calls and crashes of mesos-agent.                  *)
(*                                                                          *)
(* The invariant says which descriptors mesos-agent has open in each phase  *)
(* of prepare(), and that whoever is yet to write to a pipe has its write   *)
(* end, so that the companion at the other end reads on.  A second one says *)
(* that a companion keeps the labels it was started with.                   *)
(***************************************************************************)
EXTENDS ContainerLogger, TLAPS

Pipes(c) == phase[c] = "prepared" /\ c \notin Debug

\* The descriptors that are open in each phase, and no other.
Descriptors(c) ==
    /\ <<c, "STDOUT", "read">> \in held <=> phase[c] = "subprocess out"
    /\ <<c, "STDERR", "read">> \in held <=> phase[c] = "subprocess err"
    /\ <<c, "STDOUT", "write">> \in held <=>
            \/ phase[c] \in {"subprocess out", "pipe err", "subprocess err"}
            \/ Pipes(c)
    /\ <<c, "STDERR", "write">> \in held <=>
            phase[c] = "subprocess err" \/ Pipes(c)

\* A container of class DEBUG has no pipes to make.
NoCalls(c) ==
    c \in Debug =>
        /\ phase[c] \notin Calls
        /\ \A s \in Streams : companion[c][s] = "none"

\* A running container has the write ends of its pipes.
HasWriters(c) ==
    phase[c] = "running" /\ c \notin Debug =>
        \A s \in Streams : <<c, s>> \in writers

\* The companion for s has been started, and its pipe is in use.
Started(c, s) ==
    \/ phase[c] \in {"prepared", "running"} /\ c \notin Debug
    \/ phase[c] \in {"pipe err", "subprocess err"} /\ s = "STDOUT"

Reads(c) ==
    \A s \in Streams : Started(c, s) =>
        /\ companion[c][s] = "running" \/ <<c, s>> \in broken
        /\ labels[c][s].stream = s

ContainerInv(c) == Descriptors(c) /\ NoCalls(c) /\ HasWriters(c) /\ Reads(c)

IInv == TypeOK /\ \A c \in Containers : ContainerInv(c)

-----------------------------------------------------------------------------
(* What a step leaves alone *)

\* Nothing that the invariant says of container c has changed.
Same(c) ==
    /\ phase'[c] = phase[c]
    /\ companion'[c] = companion[c]
    /\ labels'[c] = labels[c]
    /\ \A s \in Streams :
        /\ <<c, s>> \in writers' <=> <<c, s>> \in writers
        /\ <<c, s>> \in broken' <=> <<c, s>> \in broken
        /\ \A e \in {"read", "write"} :
                <<c, s, e>> \in held' <=> <<c, s, e>> \in held

\* The invariant of a container depends on nothing else.
LEMMA Untouched ==
  ASSUME NEW c \in Containers, ContainerInv(c), Same(c)
  PROVE  ContainerInv(c)'
<1>1. Descriptors(c)' /\ NoCalls(c)'
  BY DEF ContainerInv, Descriptors, NoCalls, Pipes, Same, Streams
<1>2. HasWriters(c)'
  BY DEF ContainerInv, HasWriters, Same
<1>3. Reads(c)'
  BY DEF ContainerInv, Reads, Started, Same
<1> QED BY <1>1, <1>2, <1>3 DEF ContainerInv

\* MaxFaults is a number.
LEMMA MaxIsNat == MaxFaults \in Nat
BY ContainersAssumption

\* A fault is counted within its bound.
LEMMA FaultType ==
  ASSUME TypeOK, Fault \/ UNCHANGED faults
  PROVE  faults' \in 0..MaxFaults
BY MaxIsNat DEF TypeOK, Fault

\* A companion that is started or ends.
LEMMA CompanionType ==
  ASSUME TypeOK, NEW c \in Containers, NEW s \in Streams,
         NEW v \in {"none", "running", "ended"},
         companion' = [companion EXCEPT ![c][s] = v]
  PROVE  /\ companion' \in [Containers -> [Streams -> {"none", "running", "ended"}]]
         /\ companion'[c][s] = v
         /\ \A t \in Streams \ {s} : companion'[c][t] = companion[c][t]
         /\ \A d \in Containers \ {c} : companion'[d] = companion[d]
<1> DEFINE State == {"none", "running", "ended"}
<1>1. companion \in [Containers -> [Streams -> State]]
  BY DEF TypeOK
<1>2. companion[c] \in [Streams -> State]
  BY <1>1
<1>3. [companion[c] EXCEPT ![s] = v] \in [Streams -> State]
  BY <1>2
<1>4. companion' = [companion EXCEPT ![c] = [companion[c] EXCEPT ![s] = v]]
  OBVIOUS
<1> QED BY <1>1, <1>2, <1>3, <1>4

\* A companion that is killed, or survives it.
LEMMA KillType ==
  ASSUME TypeOK, NEW c \in Containers, Kill(c, "STDOUT")
  PROVE  /\ companion' \in [Containers -> [Streams -> {"none", "running", "ended"}]]
         /\ \A d \in Containers \ {c} : companion'[d] = companion[d]
<1>1. CASE companion' = companion
  BY <1>1 DEF TypeOK
<1>2. CASE companion' = [companion EXCEPT ![c]["STDOUT"] = "ended"]
  BY <1>2, CompanionType DEF Streams
<1> QED BY <1>1, <1>2 DEF Kill

\* A step that is about container d keeps the invariant if it keeps that of d.
LEMMA OneContainer ==
  ASSUME IInv, NEW d \in Containers, TypeOK', ContainerInv(d)',
         \A c \in Containers \ {d} : Same(c)
  PROVE  IInv'
BY Untouched DEF IInv

-----------------------------------------------------------------------------
(* The initial state *)

\* Nothing is open and nobody is started at first.
LEMMA InitIInv ==
  ASSUME Init PROVE IInv
<1> USE DEF Init
<1>1. TypeOK
  BY MaxIsNat DEF TypeOK, Phases, Labels, NoLabels
<1>2. ASSUME NEW c \in Containers PROVE ContainerInv(c)
  BY DEF ContainerInv, Descriptors, NoCalls, HasWriters, Reads, Started, Pipes,
         Calls
<1> QED BY <1>1, <1>2 DEF IInv

-----------------------------------------------------------------------------
(* prepare() *)

\* A container of class DEBUG is prepared at once.
LEMMA PrepareIInv ==
  ASSUME IInv, NEW d \in Containers, Prepare(d)
  PROVE  IInv'
<1> USE DEF Prepare, Step
<1> TypeOK /\ ContainerInv(d)
  BY DEF IInv
<1>1. TypeOK'
  <2>1. phase' \in [Containers -> Phases]
    BY DEF TypeOK, Phases, Calls, Streams
  <2>2. /\ held' \subseteq (Containers \ Debug) \X Streams \X {"read", "write"}
        /\ writers' \subseteq (Containers \ Debug) \X Streams
        /\ broken' \subseteq (Containers \ Debug) \X Streams
    BY DEF TypeOK, Calls, Streams, ContainerInv, NoCalls
  <2>3. companion' \in [Containers -> [Streams -> {"none", "running", "ended"}]]
    BY DEF TypeOK, Streams
  <2>4. labels' \in [Containers -> [Streams -> Labels]]
    BY DEF TypeOK
  <2>5. faults' \in 0..MaxFaults
    BY FaultType
  <2> QED BY <2>1, <2>2, <2>3, <2>4, <2>5 DEF TypeOK
<1>2. ASSUME NEW c \in Containers \ {d} PROVE Same(c)
  BY DEF Same, TypeOK
<1>3. ContainerInv(d)'
  <2>1. Descriptors(d)' /\ NoCalls(d)'
    BY DEF ContainerInv, Descriptors, NoCalls, Pipes, Calls, Streams, TypeOK
  <2>2. HasWriters(d)'
    BY DEF ContainerInv, HasWriters, TypeOK
  <2>3. Reads(d)'
    BY DEF ContainerInv, Reads, Started, TypeOK, Streams
  <2> QED BY <2>1, <2>2, <2>3 DEF ContainerInv
<1> QED BY <1>1, <1>2, <1>3, OneContainer

\* A pipe has two ends.
LEMMA MakePipeIInv ==
  ASSUME IInv, NEW d \in Containers, NEW s \in Streams, MakePipe(d, s)
  PROVE  IInv'
<1> USE DEF MakePipe, Step, Ends, PipeFor, SubprocessFor
<1> TypeOK /\ ContainerInv(d)
  BY DEF IInv
<1>1. TypeOK'
  <2>1. phase' \in [Containers -> Phases]
    BY DEF TypeOK, Phases, Calls, Streams
  <2>2. /\ held' \subseteq (Containers \ Debug) \X Streams \X {"read", "write"}
        /\ writers' \subseteq (Containers \ Debug) \X Streams
        /\ broken' \subseteq (Containers \ Debug) \X Streams
    <3>1. d \in Containers \ Debug
      BY DEF ContainerInv, NoCalls, Calls, Streams
    <3>2. /\ <<d, s, "read">> \in (Containers \ Debug) \X Streams \X {"read", "write"}
          /\ <<d, s, "write">> \in (Containers \ Debug) \X Streams \X {"read", "write"}
      BY <3>1
    <3>3. held' = held \cup {<<d, s, "read">>, <<d, s, "write">>}
      OBVIOUS
    <3> HIDE DEF MakePipe
    <3>4. UNCHANGED <<writers, broken>>
      BY DEF MakePipe
    <3> QED BY <3>2, <3>3, <3>4 DEF TypeOK
  <2>3. companion' \in [Containers -> [Streams -> {"none", "running", "ended"}]]
    BY DEF TypeOK, Streams
  <2>4. labels' \in [Containers -> [Streams -> Labels]]
    BY DEF TypeOK
  <2>5. faults' \in 0..MaxFaults
    BY FaultType
  <2> QED BY <2>1, <2>2, <2>3, <2>4, <2>5 DEF TypeOK
<1>2. ASSUME NEW c \in Containers \ {d} PROVE Same(c)
  BY DEF Same, TypeOK
<1>3. ContainerInv(d)'
  <2>1. Descriptors(d)' /\ NoCalls(d)'
    BY DEF ContainerInv, Descriptors, NoCalls, Pipes, Calls, Streams, TypeOK
  <2>2. HasWriters(d)'
    BY DEF ContainerInv, HasWriters, TypeOK
  <2>3. Reads(d)'
    BY DEF ContainerInv, Reads, Started, TypeOK, Streams
  <2> QED BY <2>1, <2>2, <2>3 DEF ContainerInv
<1> QED BY <1>1, <1>2, <1>3, OneContainer

\* Nothing is open when there is no pipe.
LEMMA NoPipeOutIInv ==
  ASSUME IInv, NEW d \in Containers, NoPipeOut(d)
  PROVE  IInv'
<1> USE DEF NoPipeOut, Step
<1> TypeOK /\ ContainerInv(d)
  BY DEF IInv
<1>1. TypeOK'
  <2>1. phase' \in [Containers -> Phases]
    BY DEF TypeOK, Phases, Calls, Streams
  <2>2. /\ held' \subseteq (Containers \ Debug) \X Streams \X {"read", "write"}
        /\ writers' \subseteq (Containers \ Debug) \X Streams
        /\ broken' \subseteq (Containers \ Debug) \X Streams
    BY DEF TypeOK, Calls, Streams, ContainerInv, NoCalls
  <2>3. companion' \in [Containers -> [Streams -> {"none", "running", "ended"}]]
    BY DEF TypeOK, Streams
  <2>4. labels' \in [Containers -> [Streams -> Labels]]
    BY DEF TypeOK
  <2>5. faults' \in 0..MaxFaults
    BY FaultType
  <2> QED BY <2>1, <2>2, <2>3, <2>4, <2>5 DEF TypeOK
<1>2. ASSUME NEW c \in Containers \ {d} PROVE Same(c)
  BY DEF Same, TypeOK
<1>3. ContainerInv(d)'
  <2>1. Descriptors(d)' /\ NoCalls(d)'
    BY DEF ContainerInv, Descriptors, NoCalls, Pipes, Calls, Streams, TypeOK
  <2>2. HasWriters(d)'
    BY DEF ContainerInv, HasWriters, TypeOK
  <2>3. Reads(d)'
    BY DEF ContainerInv, Reads, Started, TypeOK, Streams
  <2> QED BY <2>1, <2>2, <2>3 DEF ContainerInv
<1> QED BY <1>1, <1>2, <1>3, OneContainer

\* Without a second pipe, the first one is closed.
LEMMA NoPipeErrIInv ==
  ASSUME IInv, NEW d \in Containers, NoPipeErr(d)
  PROVE  IInv'
<1> USE DEF NoPipeErr, Step, Close
<1> TypeOK /\ ContainerInv(d)
  BY DEF IInv
<1>1. TypeOK'
  <2>1. phase' \in [Containers -> Phases]
    BY DEF TypeOK, Phases, Calls, Streams
  <2>2. /\ held' \subseteq (Containers \ Debug) \X Streams \X {"read", "write"}
        /\ writers' \subseteq (Containers \ Debug) \X Streams
        /\ broken' \subseteq (Containers \ Debug) \X Streams
    BY DEF TypeOK, Calls, Streams, ContainerInv, NoCalls
  <2>3. companion' \in [Containers -> [Streams -> {"none", "running", "ended"}]]
    BY KillType
  <2>4. labels' \in [Containers -> [Streams -> Labels]]
    BY DEF TypeOK
  <2>5. faults' \in 0..MaxFaults
    BY FaultType
  <2> QED BY <2>1, <2>2, <2>3, <2>4, <2>5 DEF TypeOK
<1>2. ASSUME NEW c \in Containers \ {d} PROVE Same(c)
  BY KillType DEF Same, TypeOK
<1>3. ContainerInv(d)'
  <2>1. Descriptors(d)' /\ NoCalls(d)'
    BY DEF ContainerInv, Descriptors, NoCalls, Pipes, Calls, Streams, TypeOK
  <2>2. HasWriters(d)'
    BY DEF ContainerInv, HasWriters, TypeOK
  <2>3. Reads(d)'
    BY DEF ContainerInv, Reads, Started, TypeOK, Streams
  <2> QED BY <2>1, <2>2, <2>3 DEF ContainerInv
<1> QED BY <1>1, <1>2, <1>3, OneContainer

\* A companion has the read end of its pipe.
LEMMA StartCompanionIInv ==
  ASSUME IInv, NEW d \in Containers, NEW s \in Streams, StartCompanion(d, s)
  PROVE  IInv'
<1> USE DEF StartCompanion, Step, Close, SubprocessFor, After
<1> TypeOK /\ ContainerInv(d)
  BY DEF IInv
<1>1. TypeOK'
  <2>1. phase' \in [Containers -> Phases]
    BY DEF TypeOK, Phases, Calls, Streams
  <2>2. /\ held' \subseteq (Containers \ Debug) \X Streams \X {"read", "write"}
        /\ writers' \subseteq (Containers \ Debug) \X Streams
        /\ broken' \subseteq (Containers \ Debug) \X Streams
    BY DEF TypeOK, Calls, Streams, ContainerInv, NoCalls
  <2>3. companion' \in [Containers -> [Streams -> {"none", "running", "ended"}]]
    BY CompanionType
  <2>4. labels' \in [Containers -> [Streams -> Labels]]
    <3>1. LabelsFor(d, s) \in Labels
      BY DEF Labels, LabelsFor
    <3>2. [labels[d] EXCEPT ![s] = LabelsFor(d, s)] \in [Streams -> Labels]
      BY <3>1 DEF TypeOK
    <3> QED BY <3>2 DEF TypeOK
  <2>5. faults' \in 0..MaxFaults
    BY FaultType
  <2> QED BY <2>1, <2>2, <2>3, <2>4, <2>5 DEF TypeOK
<1>2. ASSUME NEW c \in Containers \ {d} PROVE Same(c)
  BY CompanionType DEF Same, TypeOK
<1>3. ContainerInv(d)'
  <2>1. Descriptors(d)' /\ NoCalls(d)'
    BY DEF ContainerInv, Descriptors, NoCalls, Pipes, Calls, Streams, TypeOK
  <2>2. HasWriters(d)'
    BY DEF ContainerInv, HasWriters, TypeOK
  <2>3. Reads(d)'
    <3>1. /\ companion'[d][s] = "running"
          /\ \A t \in Streams \ {s} : companion'[d][t] = companion[d][t]
      BY CompanionType
    <3>2. /\ labels'[d][s].stream = s
          /\ \A t \in Streams \ {s} : labels'[d][t] = labels[d][t]
      BY DEF TypeOK, LabelsFor
    <3>3. \A t \in Streams \ {s} : Started(d, t)' => Started(d, t)
      <4>1. CASE s = "STDOUT"
        BY <4>1 DEF Started, TypeOK, Streams
      <4>2. CASE s = "STDERR"
        BY <4>2 DEF Started, TypeOK, Streams, ContainerInv, NoCalls, Calls
      <4> QED BY <4>1, <4>2 DEF Streams
    <3> QED BY <3>1, <3>2, <3>3 DEF ContainerInv, Reads
  <2> QED BY <2>1, <2>2, <2>3 DEF ContainerInv
<1> QED BY <1>1, <1>2, <1>3, OneContainer

\* The first pipe is closed when it has no reader.
LEMMA NoCompanionOutIInv ==
  ASSUME IInv, NEW d \in Containers, NoCompanionOut(d)
  PROVE  IInv'
<1> USE DEF NoCompanionOut, Step, Close, Ends
<1> TypeOK /\ ContainerInv(d)
  BY DEF IInv
<1>1. TypeOK'
  <2>1. phase' \in [Containers -> Phases]
    BY DEF TypeOK, Phases, Calls, Streams
  <2>2. /\ held' \subseteq (Containers \ Debug) \X Streams \X {"read", "write"}
        /\ writers' \subseteq (Containers \ Debug) \X Streams
        /\ broken' \subseteq (Containers \ Debug) \X Streams
    BY DEF TypeOK, Calls, Streams, ContainerInv, NoCalls
  <2>3. companion' \in [Containers -> [Streams -> {"none", "running", "ended"}]]
    BY DEF TypeOK, Streams
  <2>4. labels' \in [Containers -> [Streams -> Labels]]
    BY DEF TypeOK
  <2>5. faults' \in 0..MaxFaults
    BY FaultType
  <2> QED BY <2>1, <2>2, <2>3, <2>4, <2>5 DEF TypeOK
<1>2. ASSUME NEW c \in Containers \ {d} PROVE Same(c)
  BY DEF Same, TypeOK
<1>3. ContainerInv(d)'
  <2>1. Descriptors(d)' /\ NoCalls(d)'
    BY DEF ContainerInv, Descriptors, NoCalls, Pipes, Calls, Streams, TypeOK
  <2>2. HasWriters(d)'
    BY DEF ContainerInv, HasWriters, TypeOK
  <2>3. Reads(d)'
    BY DEF ContainerInv, Reads, Started, TypeOK, Streams
  <2> QED BY <2>1, <2>2, <2>3 DEF ContainerInv
<1> QED BY <1>1, <1>2, <1>3, OneContainer

\* Both pipes are closed when the second has no reader.
LEMMA NoCompanionErrIInv ==
  ASSUME IInv, NEW d \in Containers, NoCompanionErr(d)
  PROVE  IInv'
<1> USE DEF NoCompanionErr, Step, Close, Ends
<1> TypeOK /\ ContainerInv(d)
  BY DEF IInv
<1>1. TypeOK'
  <2>1. phase' \in [Containers -> Phases]
    BY DEF TypeOK, Phases, Calls, Streams
  <2>2. /\ held' \subseteq (Containers \ Debug) \X Streams \X {"read", "write"}
        /\ writers' \subseteq (Containers \ Debug) \X Streams
        /\ broken' \subseteq (Containers \ Debug) \X Streams
    BY DEF TypeOK, Calls, Streams, ContainerInv, NoCalls
  <2>3. companion' \in [Containers -> [Streams -> {"none", "running", "ended"}]]
    BY KillType
  <2>4. labels' \in [Containers -> [Streams -> Labels]]
    BY DEF TypeOK
  <2>5. faults' \in 0..MaxFaults
    BY FaultType
  <2> QED BY <2>1, <2>2, <2>3, <2>4, <2>5 DEF TypeOK
<1>2. ASSUME NEW c \in Containers \ {d} PROVE Same(c)
  BY KillType DEF Same, TypeOK
<1>3. ContainerInv(d)'
  <2>1. Descriptors(d)' /\ NoCalls(d)'
    BY DEF ContainerInv, Descriptors, NoCalls, Pipes, Calls, Streams, TypeOK
  <2>2. HasWriters(d)'
    BY DEF ContainerInv, HasWriters, TypeOK
  <2>3. Reads(d)'
    BY DEF ContainerInv, Reads, Started, TypeOK, Streams
  <2> QED BY <2>1, <2>2, <2>3 DEF ContainerInv
<1> QED BY <1>1, <1>2, <1>3, OneContainer

-----------------------------------------------------------------------------
(* The containerizer, the container, the companions *)

\* The write ends go to the container, or nobody.
LEMMA LaunchIInv ==
  ASSUME IInv, NEW d \in Containers, Launch(d)
  PROVE  IInv'
<1> USE DEF Launch, Step, Close, DescriptorsOf
<1> TypeOK /\ ContainerInv(d)
  BY DEF IInv
<1>1. TypeOK'
  <2>1. phase' \in [Containers -> Phases]
    BY DEF TypeOK, Phases, Calls, Streams
  <2>2. /\ held' \subseteq (Containers \ Debug) \X Streams \X {"read", "write"}
        /\ writers' \subseteq (Containers \ Debug) \X Streams
        /\ broken' \subseteq (Containers \ Debug) \X Streams
    BY DEF TypeOK, Calls, Streams, ContainerInv, NoCalls
  <2>3. companion' \in [Containers -> [Streams -> {"none", "running", "ended"}]]
    BY DEF TypeOK, Streams
  <2>4. labels' \in [Containers -> [Streams -> Labels]]
    BY DEF TypeOK
  <2>5. faults' \in 0..MaxFaults
    BY FaultType
  <2> QED BY <2>1, <2>2, <2>3, <2>4, <2>5 DEF TypeOK
<1>2. ASSUME NEW c \in Containers \ {d} PROVE Same(c)
  BY DEF Same, TypeOK
<1>3. ContainerInv(d)'
  <2>1. Descriptors(d)' /\ NoCalls(d)'
    BY DEF ContainerInv, Descriptors, NoCalls, Pipes, Calls, Streams, TypeOK
  <2>2. HasWriters(d)'
    <3> SUFFICES ASSUME phase'[d] = "running", d \notin Debug, NEW s \in Streams
                 PROVE  <<d, s>> \in writers'
      BY DEF HasWriters
    <3>1. <<d, s, "write">> \in held
      BY DEF ContainerInv, Descriptors, Pipes, Streams
    <3>2. writers' = writers \cup {<<e[1], e[2]>> : e \in {f \in held : f[1] = d}}
      BY DEF TypeOK
    <3> QED BY <3>1, <3>2
  <2>3. Reads(d)'
    BY DEF ContainerInv, Reads, Started, TypeOK, Streams
  <2> QED BY <2>1, <2>2, <2>3 DEF ContainerInv
<1> QED BY <1>1, <1>2, <1>3, OneContainer

\* A container that ends has no descriptors.
LEMMA ExitsIInv ==
  ASSUME IInv, NEW d \in Containers, Exits(d)
  PROVE  IInv'
<1> USE DEF Exits, Step
<1> TypeOK /\ ContainerInv(d)
  BY DEF IInv
<1>1. TypeOK'
  <2>1. phase' \in [Containers -> Phases]
    BY DEF TypeOK, Phases, Calls, Streams
  <2>2. /\ held' \subseteq (Containers \ Debug) \X Streams \X {"read", "write"}
        /\ writers' \subseteq (Containers \ Debug) \X Streams
        /\ broken' \subseteq (Containers \ Debug) \X Streams
    BY DEF TypeOK, Calls, Streams, ContainerInv, NoCalls
  <2>3. companion' \in [Containers -> [Streams -> {"none", "running", "ended"}]]
    BY DEF TypeOK, Streams
  <2>4. labels' \in [Containers -> [Streams -> Labels]]
    BY DEF TypeOK
  <2>5. faults' \in 0..MaxFaults
    BY FaultType
  <2> QED BY <2>1, <2>2, <2>3, <2>4, <2>5 DEF TypeOK
<1>2. ASSUME NEW c \in Containers \ {d} PROVE Same(c)
  BY DEF Same, TypeOK
<1>3. ContainerInv(d)'
  <2>1. Descriptors(d)' /\ NoCalls(d)'
    BY DEF ContainerInv, Descriptors, NoCalls, Pipes, Calls, Streams, TypeOK
  <2>2. HasWriters(d)'
    BY DEF ContainerInv, HasWriters, TypeOK
  <2>3. Reads(d)'
    BY DEF ContainerInv, Reads, Started, TypeOK, Streams
  <2> QED BY <2>1, <2>2, <2>3 DEF ContainerInv
<1> QED BY <1>1, <1>2, <1>3, OneContainer

\* A companion ends when nobody writes to it.
LEMMA CompanionEndsIInv ==
  ASSUME IInv, NEW d \in Containers, NEW s \in Streams, CompanionEnds(d, s)
  PROVE  IInv'
<1> USE DEF CompanionEnds
<1> TypeOK /\ ContainerInv(d)
  BY DEF IInv
<1>1. TypeOK'
  <2>1. phase' \in [Containers -> Phases]
    BY DEF TypeOK, Phases, Calls, Streams
  <2>2. /\ held' \subseteq (Containers \ Debug) \X Streams \X {"read", "write"}
        /\ writers' \subseteq (Containers \ Debug) \X Streams
        /\ broken' \subseteq (Containers \ Debug) \X Streams
    BY DEF TypeOK, Calls, Streams, ContainerInv, NoCalls
  <2>3. companion' \in [Containers -> [Streams -> {"none", "running", "ended"}]]
    BY CompanionType
  <2>4. labels' \in [Containers -> [Streams -> Labels]]
    BY DEF TypeOK
  <2>5. faults' \in 0..MaxFaults
    BY FaultType
  <2> QED BY <2>1, <2>2, <2>3, <2>4, <2>5 DEF TypeOK
<1>2. ASSUME NEW c \in Containers \ {d} PROVE Same(c)
  BY CompanionType DEF Same, TypeOK
<1>3. ContainerInv(d)'
  <2>1. Descriptors(d)' /\ NoCalls(d)'
    BY DEF ContainerInv, Descriptors, NoCalls, Pipes, Calls, Streams, TypeOK
  <2>2. HasWriters(d)'
    BY DEF ContainerInv, HasWriters, TypeOK
  <2>3. Reads(d)'
    <3>1. \A t \in Streams \ {s} : companion'[d][t] = companion[d][t]
      BY CompanionType
    <3>2. ~Started(d, s)
      BY DEF ContainerInv, Descriptors, HasWriters, Started, Pipes, Streams
    <3>3. \A t \in Streams : Started(d, t)' <=> Started(d, t)
      BY DEF Started
    <3> QED BY <3>1, <3>2, <3>3 DEF ContainerInv, Reads
  <2> QED BY <2>1, <2>2, <2>3 DEF ContainerInv
<1> QED BY <1>1, <1>2, <1>3, OneContainer

\* A companion that fails is counted as broken.
LEMMA CompanionFailsIInv ==
  ASSUME IInv, NEW d \in Containers, NEW s \in Streams, CompanionFails(d, s)
  PROVE  IInv'
<1> USE DEF CompanionFails
<1> TypeOK /\ ContainerInv(d)
  BY DEF IInv
<1>1. TypeOK'
  <2>1. phase' \in [Containers -> Phases]
    BY DEF TypeOK, Phases, Calls, Streams
  <2>2. /\ held' \subseteq (Containers \ Debug) \X Streams \X {"read", "write"}
        /\ writers' \subseteq (Containers \ Debug) \X Streams
        /\ broken' \subseteq (Containers \ Debug) \X Streams
    <3>1. d \in Containers \ Debug
      BY DEF ContainerInv, NoCalls
    <3> QED BY <3>1 DEF TypeOK
  <2>3. companion' \in [Containers -> [Streams -> {"none", "running", "ended"}]]
    BY CompanionType
  <2>4. labels' \in [Containers -> [Streams -> Labels]]
    BY DEF TypeOK
  <2>5. faults' \in 0..MaxFaults
    BY FaultType
  <2> QED BY <2>1, <2>2, <2>3, <2>4, <2>5 DEF TypeOK
<1>2. ASSUME NEW c \in Containers \ {d} PROVE Same(c)
  BY CompanionType DEF Same, TypeOK
<1>3. ContainerInv(d)'
  <2>1. Descriptors(d)' /\ NoCalls(d)'
    BY DEF ContainerInv, Descriptors, NoCalls, Pipes, Calls, Streams, TypeOK
  <2>2. HasWriters(d)'
    BY DEF ContainerInv, HasWriters, TypeOK
  <2>3. Reads(d)'
    <3>1. \A t \in Streams \ {s} : companion'[d][t] = companion[d][t]
      BY CompanionType
    <3>2. \A t \in Streams : Started(d, t)' <=> Started(d, t)
      BY DEF Started
    <3> QED BY <3>1, <3>2 DEF ContainerInv, Reads
  <2> QED BY <2>1, <2>2, <2>3 DEF ContainerInv
<1> QED BY <1>1, <1>2, <1>3, OneContainer

\* When mesos-agent dies, so does what it was preparing.
LEMMA AgentDiesIInv ==
  ASSUME IInv, AgentDies
  PROVE  IInv'
<1> TypeOK
  BY DEF IInv
<1> USE DEF AgentDies, Fault
<1>1. TypeOK'
  BY MaxIsNat DEF TypeOK, Phases
<1>2. ASSUME NEW c \in Containers PROVE ContainerInv(c)'
  <2> ContainerInv(c)
    BY DEF IInv
  <2>1. Descriptors(c)' /\ NoCalls(c)'
    BY DEF ContainerInv, Descriptors, NoCalls, Pipes, Calls
  <2>2. HasWriters(c)' /\ Reads(c)'
    BY DEF ContainerInv, HasWriters, Reads, Started, Calls
  <2> QED BY <2>1, <2>2 DEF ContainerInv
<1> QED BY <1>1, <1>2 DEF IInv

-----------------------------------------------------------------------------
(* The theorems *)

\* Every action keeps the invariant.
LEMMA NextIInv ==
  ASSUME IInv, [Next]_vars
  PROVE  IInv'
<1>1. ASSUME NEW d \in Containers,
             \/ Prepare(d) \/ NoPipeOut(d) \/ NoPipeErr(d) \/ NoCompanionOut(d)
             \/ NoCompanionErr(d) \/ Launch(d) \/ Exits(d)
      PROVE  IInv'
  BY <1>1, PrepareIInv, NoPipeOutIInv, NoPipeErrIInv, NoCompanionOutIInv,
     NoCompanionErrIInv, LaunchIInv, ExitsIInv
<1>2. ASSUME NEW d \in Containers, NEW s \in Streams,
             \/ MakePipe(d, s) \/ StartCompanion(d, s)
             \/ CompanionEnds(d, s) \/ CompanionFails(d, s)
      PROVE  IInv'
  BY <1>2, MakePipeIInv, StartCompanionIInv, CompanionEndsIInv,
     CompanionFailsIInv
<1>3. CASE UNCHANGED vars
  <2>1. TypeOK'
    BY <1>3 DEF IInv, TypeOK, vars
  <2>2. ASSUME NEW c \in Containers PROVE ContainerInv(c)'
    BY <1>3, Untouched DEF IInv, Same, vars
  <2> QED BY <2>1, <2>2 DEF IInv
<1> QED BY <1>1, <1>2, <1>3, AgentDiesIInv DEF Next

\* IInv is an invariant of the container logger.
THEOREM Inductive == Spec => []IInv
<1>1. Init => IInv
  BY InitIInv
<1>2. IInv /\ [Next]_vars => IInv'
  BY NextIInv
<1> QED BY <1>1, <1>2, PTL DEF Spec

\* Descriptors, processes and labels are well typed; no container of class
\* DEBUG has any.
THEOREM TypeCorrect == Spec => []TypeOK
<1>1. IInv => TypeOK
  BY DEF IInv
<1> QED BY <1>1, Inductive, PTL

\* Whichever call fails, in whichever order, no descriptor of mesos-agent stays
\* open: all that is open belongs to the call at hand or to a container that
\* is not launched yet.
THEOREM Closed == Spec => []NothingHeld
<1>1. ASSUME IInv PROVE NothingHeld
  <2> SUFFICES ASSUME NEW h \in held
               PROVE  /\ phase[h[1]] \in Calls \cup {"prepared"}
                      /\ h[3] = "read" => phase[h[1]] = SubprocessFor(h[2])
    BY DEF NothingHeld
  <2>1. PICK c \in Containers, s \in Streams, e \in {"read", "write"} :
            h = <<c, s, e>>
    BY <1>1 DEF IInv, TypeOK
  <2>2. <<c, s, e>> \in held /\ Descriptors(c)
    BY <1>1, <2>1 DEF IInv, ContainerInv
  <2>3. /\ phase[c] \in Calls \cup {"prepared"}
        /\ e = "read" => phase[c] = SubprocessFor(s)
    BY <2>2 DEF Descriptors, Pipes, Calls, Streams, SubprocessFor
  <2> QED BY <2>1, <2>3
<1> QED BY <1>1, Inductive, PTL

\* Both streams of a running container are read, each under its own name,
\* unless the companion itself has failed.
THEOREM Read == Spec => []BothRead
<1>1. IInv => BothRead
  BY DEF IInv, ContainerInv, Reads, Started, BothRead
<1> QED BY <1>1, Inductive, PTL

-----------------------------------------------------------------------------
(* The agent ID *)

\* The loop over the tokens ends with the agent's ID, whatever the other IDs
\* are called.
LEMMA AgentIdOfPath ==
  ASSUME NEW c \in Containers, SandboxPath(c)
  PROVE  AgentId(Directory[c]) = Agent[c]
<1> DEFINE path  == Directory[c]
           n     == Len(path)
           found == {i \in 1..n - 1 : (n - i) % 2 = 1 /\ path[i] = "slaves"}
           least == CHOOSE i \in found : \A j \in found : i <= j
<1>1. n \in Nat
  BY ContainersAssumption
<1>2. AgentId(path) = IF found = {} THEN None ELSE path[1 + least]
  BY DEF AgentId
<1>3. PICK k \in 1..n - 1 :
         /\ (n - k) % 2 = 1
         /\ \A i \in 1..k - 1 : (n - i) % 2 = 1 => path[i] # "slaves"
         /\ IF Agent[c] = None
            THEN \A i \in k..n : (n - i) % 2 = 1 => path[i] = "containers"
            ELSE path[k] = "slaves" /\ path[k + 1] = Agent[c]
  BY DEF SandboxPath
<1> HIDE DEF path, n
<1>4. \A i \in found : i \in Nat /\ k <= i
  BY <1>1, <1>3
<1>5. CASE Agent[c] = None
  <2>1. \A i \in 1..n - 1 : k <= i /\ (n - i) % 2 = 1 => path[i] = "containers"
    BY <1>1, <1>3, <1>5
  <2>2. ASSUME NEW i \in found PROVE FALSE
    <3>1. path[i] = "slaves" /\ path[i] = "containers"
      BY <1>4, <2>1, <2>2
    <3>2. "slaves" # "containers"
      OBVIOUS
    <3> QED BY <3>1, <3>2
  <2> HIDE DEF found
  <2>3. found = {}
    BY <2>2
  <2> QED BY <1>2, <1>5, <2>3 DEF path
<1>6. CASE Agent[c] # None
  <2>1. k \in found
    BY <1>3, <1>6
  <2> HIDE DEF found
  <2>2. least \in found /\ \A j \in found : least <= j
    <3>1. k \in found /\ \A j \in found : k <= j
      BY <1>4, <2>1
    <3> QED BY <3>1
  <2> HIDE DEF least
  <2>3. least = k
    BY <1>3, <1>4, <2>1, <2>2
  <2>4. 1 + k = k + 1
    BY <1>3
  <2> QED BY <1>2, <1>3, <1>6, <2>1, <2>3, <2>4 DEF path
<1> QED BY <1>5, <1>6

\* A companion that was ever started has the labels it was started with.
Labelled ==
    \A c \in Containers, s \in Streams :
        companion[c][s] # "none" \/ Started(c, s) =>
            labels[c][s].agent = AgentId(Directory[c])

\* Nothing but StartCompanion starts one.
LEMMA LabelledKept ==
  ASSUME TypeOK, Labelled, UNCHANGED labels,
         \A c \in Containers, s \in Streams :
            \/ companion'[c][s] = companion[c][s]
            \/ companion[c][s] # "none"
            \/ Started(c, s),
         \A c \in Containers, s \in Streams : Started(c, s)' => Started(c, s)
  PROVE  Labelled'
BY DEF Labelled

\* The labels stay with their companion.
LEMMA NextLabelled ==
  ASSUME TypeOK, Labelled, [Next]_vars
  PROVE  Labelled'
<1>1. ASSUME NEW d \in Containers, Prepare(d) PROVE Labelled'
  <2>1. UNCHANGED <<companion, labels>>
    BY <1>1 DEF Prepare
  <2>2. \A c \in Containers, s \in Streams : Started(c, s)' => Started(c, s)
    BY <1>1 DEF Prepare, Step, Started, TypeOK
  <2> QED BY <2>1, <2>2, LabelledKept
<1>2. ASSUME NEW d \in Containers, NoPipeOut(d) \/ NoCompanionOut(d) PROVE Labelled'
  <2>1. UNCHANGED <<companion, labels>>
    BY <1>2 DEF NoPipeOut, NoCompanionOut
  <2>2. \A c \in Containers, s \in Streams : Started(c, s)' => Started(c, s)
    BY <1>2 DEF NoPipeOut, NoCompanionOut, Step, Started, TypeOK
  <2> QED BY <2>1, <2>2, LabelledKept
<1>3. ASSUME NEW d \in Containers, NoPipeErr(d) \/ NoCompanionErr(d) PROVE Labelled'
  <2>1. UNCHANGED labels /\ Kill(d, "STDOUT")
    BY <1>3 DEF NoPipeErr, NoCompanionErr
  <2>2. \A c \in Containers, s \in Streams : Started(c, s)' => Started(c, s)
    BY <1>3 DEF NoPipeErr, NoCompanionErr, Step, Started, TypeOK
  <2>3. Started(d, "STDOUT")
    BY <1>3 DEF NoPipeErr, NoCompanionErr, Started
  <2>4. ASSUME NEW c \in Containers, NEW s \in Streams
        PROVE  companion'[c][s] = companion[c][s] \/ Started(c, s)
    <3>1. CASE companion' = companion
      BY <3>1
    <3>2. CASE companion' = [companion EXCEPT ![d]["STDOUT"] = "ended"]
      <4>1. /\ \A t \in Streams \ {"STDOUT"} : companion'[d][t] = companion[d][t]
            /\ \A e \in Containers \ {d} : companion'[e] = companion[e]
        BY <3>2, CompanionType DEF Streams
      <4> QED BY <2>3, <4>1
    <3> QED BY <2>1, <3>1, <3>2 DEF Kill
  <2> QED BY <2>1, <2>2, <2>4, LabelledKept
<1>4. ASSUME NEW d \in Containers, Launch(d) \/ Exits(d) PROVE Labelled'
  <2>1. UNCHANGED <<companion, labels>>
    BY <1>4 DEF Launch, Exits
  <2>2. \A c \in Containers, s \in Streams : Started(c, s)' => Started(c, s)
    BY <1>4 DEF Launch, Exits, Step, Started, TypeOK
  <2> QED BY <2>1, <2>2, LabelledKept
<1>5. ASSUME NEW d \in Containers, NEW t \in Streams, MakePipe(d, t) PROVE Labelled'
  <2>1. UNCHANGED <<companion, labels>>
    BY <1>5 DEF MakePipe
  <2>2. \A c \in Containers, s \in Streams : Started(c, s)' => Started(c, s)
    BY <1>5 DEF MakePipe, Step, Started, TypeOK, PipeFor, SubprocessFor, Streams
  <2> QED BY <2>1, <2>2, LabelledKept
<1>6. ASSUME NEW d \in Containers, NEW t \in Streams, StartCompanion(d, t)
      PROVE  Labelled'
  <2>1. /\ labels' = [labels EXCEPT ![d][t] = LabelsFor(d, t)]
        /\ companion' = [companion EXCEPT ![d][t] = "running"]
        /\ phase[d] = SubprocessFor(t) /\ phase' = [phase EXCEPT ![d] = After(t)]
    BY <1>6 DEF StartCompanion, Step
  <2>2. /\ \A u \in Streams \ {t} : companion'[d][u] = companion[d][u]
        /\ \A e \in Containers \ {d} : companion'[e] = companion[e]
    BY <2>1, CompanionType
  <2>3. /\ labels'[d][t].agent = AgentId(Directory[d])
        /\ \A u \in Streams \ {t} : labels'[d][u] = labels[d][u]
        /\ \A e \in Containers \ {d} : labels'[e] = labels[e]
    BY <2>1 DEF TypeOK, LabelsFor
  <2>4. ASSUME NEW c \in Containers, NEW s \in Streams, c # d \/ s # t, Started(c, s)'
        PROVE  Started(c, s)
    BY <2>1, <2>4 DEF Started, TypeOK, SubprocessFor, After, Streams
  <2>5. ASSUME NEW c \in Containers, NEW s \in Streams,
               companion'[c][s] # "none" \/ Started(c, s)'
        PROVE  labels'[c][s].agent = AgentId(Directory[c])
    <3>1. CASE c = d /\ s = t
      BY <2>3, <3>1
    <3>2. CASE c # d \/ s # t
      <4>1. companion'[c][s] = companion[c][s] /\ labels'[c][s] = labels[c][s]
        BY <2>2, <2>3, <3>2
      <4>2. companion[c][s] # "none" \/ Started(c, s)
        BY <2>4, <2>5, <3>2, <4>1
      <4> QED BY <4>1, <4>2 DEF Labelled
    <3> QED BY <3>1, <3>2
  <2> QED BY <2>5 DEF Labelled
<1>7. ASSUME NEW d \in Containers, NEW t \in Streams,
             CompanionEnds(d, t) \/ CompanionFails(d, t)
      PROVE  Labelled'
  <2>1. /\ companion[d][t] = "running" /\ UNCHANGED <<phase, labels>>
        /\ companion' = [companion EXCEPT ![d][t] = "ended"]
    BY <1>7 DEF CompanionEnds, CompanionFails
  <2>2. /\ \A u \in Streams \ {t} : companion'[d][u] = companion[d][u]
        /\ \A e \in Containers \ {d} : companion'[e] = companion[e]
    BY <2>1, CompanionType
  <2>3. \A c \in Containers, s \in Streams :
           companion'[c][s] = companion[c][s] \/ companion[c][s] # "none"
    BY <2>1, <2>2
  <2>4. \A c \in Containers, s \in Streams : Started(c, s)' => Started(c, s)
    BY <2>1 DEF Started
  <2> QED BY <2>1, <2>3, <2>4, LabelledKept
<1>8. CASE AgentDies
  <2>1. UNCHANGED <<companion, labels>>
    BY <1>8 DEF AgentDies
  <2>2. \A c \in Containers, s \in Streams : Started(c, s)' => Started(c, s)
    BY <1>8 DEF AgentDies, Started
  <2> QED BY <2>1, <2>2, LabelledKept
<1>9. CASE UNCHANGED vars
  BY <1>9 DEF vars, Labelled, Started
<1> QED BY <1>1, <1>2, <1>3, <1>4, <1>5, <1>6, <1>7, <1>8, <1>9 DEF Next

\* Every companion of a container is started with the ID of the agent, however
\* the IDs in the sandbox path are called, and with none when there is none.
THEOREM Identified ==
  ASSUME \A c \in Containers : SandboxPath(c)
  PROVE  Spec => []AgentIdentified
<1>1. Init => Labelled
  BY DEF Init, Labelled, Started
<1>2. TypeOK /\ Labelled /\ [Next]_vars => Labelled'
  BY NextLabelled
<1>3. Labelled => AgentIdentified
  BY AgentIdOfPath DEF Labelled, AgentIdentified
<1> QED BY <1>1, <1>2, <1>3, TypeCorrect, PTL DEF Spec

=============================================================================
