------------------------ MODULE OverlayAgent_proofs ------------------------
(***************************************************************************)
(* Proofs about OverlayAgent, for all masters, overlays, updates and        *)
(* network configurations, and any number of failures.                      *)
(*                                                                          *)
(* The invariant adds to the properties what the commands of an overlay     *)
(* have done by each phase of its configuration.  An update changes many    *)
(* overlays at once; every other step of a configuration is about one of    *)
(* them, and lemma Continues says when such a step keeps the invariant.     *)
(***************************************************************************)
EXTENDS OverlayAgent, FiniteSetTheorems, TLAPS

\* With a Docker bridge every overlay is configured by commands, and by the
\* time of the iptables commands it has its network, if docker can be given a
\* subnet for one.
PhaseInv ==
    DockerBridge =>
        \A o \in Overlays : work[o] # None =>
            /\ work[o].phase # "_configure"
            /\ work[o].phase \in {"isolation", "masquerade"}
                    /\ DockerSubnets(o) # {} => o \in networks

IInv ==
    /\ TypeOK
    /\ RegistrationRetried
    /\ RegisteredConfigured
    /\ ConfiguredForReal
    /\ PhaseInv
    /\ AwaitedUnderWay

-----------------------------------------------------------------------------
(* What the invariant rests on *)

\* The bounds are numbers.
LEMMA Bounds ==
  /\ MaxConfigAttempts \in Nat
  /\ MaxFaults \in Nat
  /\ MaxRetries \in Nat \ {0}
BY AgentConfigAssumption, AgentBoundsAssumption

\* The absent value is no other.
LEMMA NoneDiffers ==
  /\ None \notin Masters
  /\ None \notin Statuses
  /\ None \notin Work
BY AgentNoneAssumption

\* A failure is counted within its bound.
LEMMA FaultType ==
  ASSUME TypeOK, Fault \/ UNCHANGED faults
  PROVE  faults' \in 0..MaxFaults
BY Bounds DEF TypeOK, Fault

\* A queue stays one of its messages.
LEMMA SendType ==
  ASSUME NEW S, NEW queue \in Seq(S), NEW message \in S
  PROVE  Send(queue, message) \in Seq(S)
BY DEF Send

\* doReliableRegistration sends to a master and tries again, or does neither.
LEMMA RegistrationType ==
  ASSUME TypeOK, NEW s \in States, NEW m \in Masters \cup {None},
         NEW n \in Nat, n < MaxRetries,
         doReliableRegistration(s, m, n)
  PROVE  /\ retries' \in 0..MaxRetries
         /\ toMaster' \in [Masters -> Seq(ToMaster)]
         /\ s = "REGISTERING" /\ m # None => retries' > 0
<1>1. n \in 0..MaxRetries /\ n + 1 \in 0..MaxRetries /\ n + 1 > 0
  BY Bounds
<1>2. toMaster \in [Masters -> Seq(ToMaster)]
  BY DEF TypeOK
<1>3. CASE s = "REGISTERED" \/ m = None
  BY <1>1, <1>2, <1>3 DEF doReliableRegistration
<1>4. CASE ~(s = "REGISTERED" \/ m = None)
  <2>1. m \in Masters
    BY <1>4
  <2>2. Send(toMaster[m], "RegisterAgent") \in Seq(ToMaster)
    BY <1>2, <2>1, SendType DEF ToMaster
  <2>3. /\ toMaster' = [toMaster EXCEPT ![m] = Send(toMaster[m], "RegisterAgent")]
        /\ retries' = n + 1
    BY <1>4 DEF doReliableRegistration
  <2> QED BY <1>1, <1>2, <2>1, <2>2, <2>3
<1> QED BY <1>3, <1>4

\* What a master has sent is of its messages, also when some of it is handled.
LEMMA ReceivedType ==
  ASSUME TypeOK, NEW m \in Masters, NEW message, Received(m, message)
  PROVE  toAgent' \in [Masters -> Seq(ToAgent)]
<1>1. toAgent \in [Masters -> Seq(ToAgent)] /\ toAgent[m] \in Seq(ToAgent)
  BY DEF TypeOK
<1>2. Tail(toAgent[m]) \in Seq(ToAgent)
  BY <1>1 DEF Received
<1>3. toAgent' = [toAgent EXCEPT ![m] = Tail(toAgent[m])]
  BY DEF Received
<1> QED BY <1>1, <1>2, <1>3

-----------------------------------------------------------------------------
(* The initial state *)

\* The agent starts to register, and has no overlay and no master yet.
LEMMA InitIInv ==
  ASSUME Init PROVE IInv
<1> USE DEF Init
<1>1. TypeOK
  BY Bounds, NoneDiffers DEF TypeOK, States, Statuses, MesosBridge
<1>2. RegistrationRetried /\ RegisteredConfigured
  BY DEF RegistrationRetried, RegisteredConfigured
<1>3. ConfiguredForReal /\ PhaseInv
  BY NoneDiffers DEF ConfiguredForReal, PhaseInv, Statuses
<1>4. AwaitedUnderWay
  BY DEF AwaitedUnderWay
<1> QED BY <1>1, <1>2, <1>3, <1>4 DEF IInv

-----------------------------------------------------------------------------
(* Steps that configure nothing *)

\* What a step must leave alone, for the invariant of the configuration.
ConfigurationSame ==
    /\ UNCHANGED <<networkConfig, configuration, networks>>

\* It depends on nothing else.
LEMMA ConfigurationKept ==
  ASSUME IInv, ConfigurationSame
  PROVE  ConfiguredForReal' /\ PhaseInv' /\ AwaitedUnderWay'
<1>1. ConfiguredForReal'
  BY DEF IInv, ConfigurationSame, configuration, ConfiguredForReal,
         DockerBridge, DockerSubnets
<1>2. PhaseInv'
  BY DEF IInv, ConfigurationSame, configuration, PhaseInv, DockerBridge,
         DockerSubnets
<1>3. AwaitedUnderWay'
  BY DEF IInv, ConfigurationSame, configuration, AwaitedUnderWay
<1> QED BY <1>1, <1>2, <1>3

\* A delayed registration is sent, and another delayed, or the agent is
\* registered or has no master.
LEMMA RetryRegistrationIInv ==
  ASSUME IInv, RetryRegistration PROVE IInv'
<1> USE DEF RetryRegistration, process, registration, detector, messages
<1>0. TypeOK
  BY DEF IInv
<1>1. /\ retries' \in 0..MaxRetries
      /\ toMaster' \in [Masters -> Seq(ToMaster)]
      /\ state = "REGISTERING" /\ overlayMaster # None => retries' > 0
  <2>1. retries - 1 \in Nat /\ retries - 1 < MaxRetries
    BY <1>0, Bounds DEF TypeOK
  <2> QED BY <1>0, <2>1, RegistrationType DEF TypeOK
<1>2. TypeOK'
  BY <1>0, <1>1 DEF TypeOK, configuration
<1>3. RegistrationRetried'
  BY <1>1 DEF RegistrationRetried
<1>4. RegisteredConfigured'
  BY DEF IInv, RegisteredConfigured, configuration
<1>5. ConfigurationSame
  BY DEF ConfigurationSame
<1> QED BY <1>2, <1>3, <1>4, <1>5, ConfigurationKept DEF IInv

\* Whoever leads, the agent has not heard of it.
LEMMA LeaderChangesIInv ==
  ASSUME IInv, NEW m \in Masters \cup {None}, LeaderChanges(m) PROVE IInv'
<1> USE DEF LeaderChanges, process, registration, messages
<1>1. TypeOK'
  BY FaultType DEF IInv, TypeOK, configuration
<1>2. RegistrationRetried'
  BY DEF IInv, RegistrationRetried
<1>3. RegisteredConfigured'
  BY DEF IInv, RegisteredConfigured, configuration
<1>4. ConfigurationSame
  BY DEF ConfigurationSame
<1> QED BY <1>1, <1>2, <1>3, <1>4, ConfigurationKept DEF IInv

\* The agent registers with a master that is detected.
LEMMA DetectedIInv ==
  ASSUME IInv, Detected PROVE IInv'
<1> USE DEF Detected, process
<1>0. TypeOK
  BY DEF IInv
<1>1. /\ retries' \in 0..MaxRetries
      /\ toMaster' \in [Masters -> Seq(ToMaster)]
      /\ leader # None => retries' > 0
  <2>1. CASE leader = None
    BY <1>0, <2>1 DEF TypeOK
  <2>2. CASE leader # None
    <3>1. doReliableRegistration("REGISTERING", leader, retries)
      BY <2>2
    <3>2. retries \in Nat /\ retries < MaxRetries
      BY <1>0, Bounds DEF TypeOK
    <3>3. leader \in Masters \cup {None}
      BY <1>0 DEF TypeOK
    <3> QED BY <1>0, <3>1, <3>2, <3>3, RegistrationType DEF States
  <2> QED BY <2>1, <2>2
<1>a. linked' \subseteq Masters /\ overlayMaster' \in Masters \cup {None}
  BY <1>0 DEF TypeOK
<1>b. configAttempts' \in 0..(MaxConfigAttempts + 1) /\ state' \in States
  BY Bounds DEF States
<1>2. TypeOK'
  BY <1>0, <1>1, <1>a, <1>b DEF TypeOK, configuration
<1>3. RegistrationRetried'
  BY <1>1 DEF RegistrationRetried
<1>4. RegisteredConfigured'
  BY DEF RegisteredConfigured
<1>5. ConfigurationSame
  BY DEF ConfigurationSame
<1> QED BY <1>2, <1>3, <1>4, <1>5, ConfigurationKept DEF IInv

\* It registers anew when a link breaks, with the master it knows.
LEMMA ExitedIInv ==
  ASSUME IInv, NEW m \in Masters, Exited(m) PROVE IInv'
<1> USE DEF Exited, process, detector
<1>0. TypeOK
  BY DEF IInv
<1>1. /\ retries' \in 0..MaxRetries
      /\ toMaster' \in [Masters -> Seq(ToMaster)]
      /\ overlayMaster # None => retries' > 0
  <2>1. retries \in Nat /\ retries < MaxRetries
    BY <1>0, Bounds DEF TypeOK
  <2>2. overlayMaster \in Masters \cup {None}
    BY <1>0 DEF TypeOK
  <2> QED BY <1>0, <2>1, <2>2, RegistrationType DEF States
<1>2. TypeOK'
  BY <1>0, <1>1, FaultType DEF TypeOK, configuration, States
<1>3. RegistrationRetried'
  BY <1>1 DEF RegistrationRetried
<1>4. RegisteredConfigured'
  BY DEF RegisteredConfigured
<1>5. ConfigurationSame
  BY DEF ConfigurationSame
<1> QED BY <1>2, <1>3, <1>4, <1>5, ConfigurationKept DEF IInv

\* Masters change nothing but messages.
LEMMA MasterAnswersIInv ==
  ASSUME IInv, NEW m \in Masters, MasterAnswers(m) PROVE IInv'
<1> USE DEF MasterAnswers, process, registration, detector
<1>0. TypeOK
  BY DEF IInv
<1>1. /\ toMaster \in [Masters -> Seq(ToMaster)]
      /\ toAgent \in [Masters -> Seq(ToAgent)]
      /\ toMaster[m] \in Seq(ToMaster)
      /\ toAgent[m] \in Seq(ToAgent)
  BY <1>0 DEF TypeOK
<1>2. Tail(toMaster[m]) \in Seq(ToMaster) /\ Head(toMaster[m]) \in ToMaster
  BY <1>1
<1>3. Append(toAgent[m], Response(Head(toMaster[m]))) \in Seq(ToAgent)
  BY <1>1, <1>2 DEF Response, ToAgent
<1>4. /\ toMaster' \in [Masters -> Seq(ToMaster)]
      /\ toAgent' \in [Masters -> Seq(ToAgent)]
  BY <1>1, <1>2, <1>3
<1>5. TypeOK'
  BY <1>0, <1>4 DEF TypeOK, configuration
<1>6. RegistrationRetried'
  BY DEF IInv, RegistrationRetried
<1>7. RegisteredConfigured'
  BY DEF IInv, RegisteredConfigured, configuration
<1>8. ConfigurationSame
  BY DEF ConfigurationSame
<1> QED BY <1>5, <1>6, <1>7, <1>8, ConfigurationKept DEF IInv

\* Nor does what is lost.
LEMMA MasterDropsIInv ==
  ASSUME IInv, NEW m \in Masters, MasterDrops(m) PROVE IInv'
<1> USE DEF MasterDrops, process, registration, detector
<1>0. TypeOK
  BY DEF IInv
<1>1. toMaster \in [Masters -> Seq(ToMaster)] /\ toMaster[m] \in Seq(ToMaster)
  BY <1>0 DEF TypeOK
<1>2. Tail(toMaster[m]) \in Seq(ToMaster)
  BY <1>1
<1>3. toMaster' \in [Masters -> Seq(ToMaster)]
  BY <1>1, <1>2
<1>4. TypeOK'
  BY <1>0, <1>3, FaultType DEF TypeOK, configuration
<1>5. RegistrationRetried'
  BY DEF IInv, RegistrationRetried
<1>6. RegisteredConfigured'
  BY DEF IInv, RegisteredConfigured, configuration
<1>7. ConfigurationSame
  BY DEF ConfigurationSame
<1> QED BY <1>4, <1>5, <1>6, <1>7, ConfigurationKept DEF IInv

\* An acknowledgement registers the agent when all is configured, or no attempt
\* is left.
LEMMA AgentRegisteredAcknowledgementIInv ==
  ASSUME IInv, NEW m \in Masters, AgentRegisteredAcknowledgement(m)
  PROVE  IInv'
<1> USE DEF AgentRegisteredAcknowledgement, process, detector
<1>0. TypeOK
  BY DEF IInv
<1>1. toAgent' \in [Masters -> Seq(ToAgent)]
  BY <1>0, ReceivedType
<1>2. configAttempts' \in 0..(MaxConfigAttempts + 1)
  BY <1>0, Bounds DEF TypeOK
<1>3. /\ linked' \subseteq Masters
      /\ state' \in States
      /\ connected' \in BOOLEAN
  BY <1>0 DEF TypeOK, States
<1>4. TypeOK'
  BY <1>0, <1>1, <1>2, <1>3 DEF TypeOK, configuration
<1>5. RegistrationRetried'
  BY DEF IInv, RegistrationRetried
<1>6. RegisteredConfigured'
  <2>1. CASE configAttempts' > MaxConfigAttempts
    BY <2>1 DEF RegisteredConfigured
  <2>2. CASE ~(configAttempts' > MaxConfigAttempts) /\ AllConfigured
    BY <2>2 DEF RegisteredConfigured, AllConfigured, configuration
  <2>3. CASE ~(configAttempts' > MaxConfigAttempts) /\ ~AllConfigured
    <3>1. UNCHANGED <<proc, state, overlays>>
      BY <2>3 DEF configuration
    <3>2. ~(configAttempts > MaxConfigAttempts)
      BY <2>3
    <3> QED BY <2>3, <3>1, <3>2 DEF IInv, RegisteredConfigured, AllConfigured
  <2> QED BY <2>1, <2>2, <2>3
<1>7. ConfigurationSame
  BY DEF ConfigurationSame
<1> QED BY <1>4, <1>5, <1>6, <1>7, ConfigurationKept DEF IInv

\* mesos-agent starts again with no overlay and no master.
LEMMA AgentRestartIInv ==
  ASSUME IInv, AgentRestart PROVE IInv'
<1> USE DEF AgentRestart
<1>0. TypeOK
  BY DEF IInv
<1>1. faults' \in 0..MaxFaults
  BY <1>0, FaultType
<1>2. /\ retries' \in 0..MaxRetries
      /\ configAttempts' \in 0..(MaxConfigAttempts + 1)
      /\ state' \in States
      /\ connected' \in BOOLEAN
  BY Bounds DEF States, MesosBridge
<1>3. /\ overlays' \in [Overlays -> Statuses \cup {None}]
      /\ work' \in [Overlays -> Work \cup {None}]
      /\ \A o \in Overlays :
            work'[o] # None <=> overlays'[o] = "STATUS_CONFIGURING"
  BY NoneDiffers DEF Statuses
<1>4. awaiting' \in Seq(SUBSET Overlays) /\ awaiting' = <<>>
  OBVIOUS
<1>5. toAgent' \in [Masters -> Seq(ToAgent)]
  OBVIOUS
<1>6. TypeOK'
  BY <1>0, <1>1, <1>2, <1>3, <1>4, <1>5 DEF TypeOK
<1>7. RegistrationRetried' /\ RegisteredConfigured'
  BY DEF RegistrationRetried, RegisteredConfigured
<1>8. ConfiguredForReal' /\ PhaseInv'
  BY NoneDiffers DEF ConfiguredForReal, PhaseInv, Statuses
<1>9. AwaitedUnderWay'
  BY <1>4 DEF AwaitedUnderWay
<1> QED BY <1>6, <1>7, <1>8, <1>9 DEF IInv

-----------------------------------------------------------------------------
(* Updates *)

\* The overlays that an update starts are new to the agent, or have failed.
LEMMA StartedType ==
  ASSUME TypeOK, NEW m \in Masters
  PROVE  /\ Started(UpdateOf[m]) \subseteq Overlays
         /\ \A o \in Started(UpdateOf[m]) :
                overlays[o] \notin {"STATUS_CONFIGURING", "STATUS_OK"}
<1> DEFINE update == UpdateOf[m]
<1>1. update \in Seq(Overlays)
  BY UpdateAssumption
<1>2. Started(update) \subseteq Overlays
  BY DEF Started, Considered
<1>3. ASSUME NEW o \in Started(update)
      PROVE  overlays[o] \notin {"STATUS_CONFIGURING", "STATUS_OK"}
  <2>1. overlays[o] # "STATUS_OK"
    BY <1>3 DEF Started
  <2>2. PICK i \in DOMAIN update :
            update[i] = o /\ \A j \in 1..i : ~Configuring(update[j])
    BY <1>3 DEF Started, Considered
  <2>3. i \in 1..i
    BY <1>1
  <2>4. ~Configuring(o)
    BY <2>2, <2>3
  <2> QED BY <2>1, <2>4 DEF Configuring
<1> QED BY <1>2, <1>3

\* Overlays that are started are configuring, from the first phase on.
LEMMA ConfigureType ==
  ASSUME TypeOK, NEW os \in SUBSET Overlays, NEW failing \in SUBSET os,
         Configure(os, failing)
  PROVE  /\ overlays' \in [Overlays -> Statuses \cup {None}]
         /\ work' \in [Overlays -> Work \cup {None}]
         /\ \A o \in Overlays :
                work'[o] # None <=> overlays'[o] = "STATUS_CONFIGURING"
         /\ \A o \in os :
                /\ overlays'[o] = "STATUS_CONFIGURING"
                /\ work'[o].phase = IF DockerBridge THEN "inspect"
                                                    ELSE "_configure"
         /\ \A o \in Overlays \ os :
                overlays'[o] = overlays[o] /\ work'[o] = work[o]
<1> DEFINE first(o) ==
      [phase |-> IF DockerBridge THEN "inspect" ELSE "_configure",
       failed |-> o \in failing]
<1>1. \A o \in Overlays : first(o) \in Work
  BY DEF Work, Phases
<1>2. work' = [o \in Overlays |-> IF o \in os THEN first(o) ELSE work[o]]
  BY DEF Configure
<1>3. overlays' = [o \in Overlays |->
                    IF o \in os THEN "STATUS_CONFIGURING" ELSE overlays[o]]
  BY DEF Configure
<1>4. /\ overlays \in [Overlays -> Statuses \cup {None}]
      /\ work \in [Overlays -> Work \cup {None}]
      /\ \A o \in Overlays :
            work[o] # None <=> overlays[o] = "STATUS_CONFIGURING"
  BY DEF TypeOK
<1>5. \A o \in os : work'[o] = first(o) /\ work'[o] # None
  <2>1. \A o \in os : work'[o] = first(o) /\ first(o) \in Work
    BY <1>1, <1>2
  <2> QED BY <2>1, NoneDiffers
<1>6. work' \in [Overlays -> Work \cup {None}]
  <2> HIDE DEF first
  <2> QED BY <1>1, <1>2, <1>4
<1>7. overlays' \in [Overlays -> Statuses \cup {None}]
  BY <1>3, <1>4 DEF Statuses
<1>8. \A o \in os : /\ overlays'[o] = "STATUS_CONFIGURING"
                    /\ work'[o].phase = IF DockerBridge THEN "inspect"
                                                        ELSE "_configure"
  <2>1. \A o \in os : first(o).phase = IF DockerBridge THEN "inspect"
                                                       ELSE "_configure"
    OBVIOUS
  <2>2. \A o \in os : overlays'[o] = "STATUS_CONFIGURING"
    BY <1>3
  <2> HIDE DEF first
  <2> QED BY <1>5, <2>1, <2>2
<1>9. \A o \in Overlays \ os : overlays'[o] = overlays[o] /\ work'[o] = work[o]
  BY <1>2, <1>3
<1> QED BY <1>4, <1>5, <1>6, <1>7, <1>8, <1>9

\* What an update starts is in no other update; it is awaited with it or, if
\* the update is dropped, by nobody.
LEMMA UpdateAgentOverlaysIInv ==
  ASSUME IInv, NEW m \in Masters, UpdateAgentOverlays(m) PROVE IInv'
<1> DEFINE update == UpdateOf[m]
           os == Started(update)
<1>0. TypeOK
  BY DEF IInv
<1>1. toAgent' \in [Masters -> Seq(ToAgent)]
  BY <1>0, ReceivedType DEF UpdateAgentOverlays
<1>2. UNCHANGED <<process, registration, networks, linked, detector, toMaster>>
  BY DEF UpdateAgentOverlays
<1>3. CASE state # "REGISTERING"
  <2>1. UNCHANGED <<configuration, faults>>
    BY <1>3 DEF UpdateAgentOverlays
  <2>2. TypeOK'
    BY <1>0, <1>1, <1>2, <2>1
       DEF TypeOK, process, registration, configuration, detector
  <2>3. RegistrationRetried' /\ RegisteredConfigured'
    BY <1>2, <2>1 DEF IInv, RegistrationRetried, RegisteredConfigured, process,
                      registration, configuration
  <2>4. ConfigurationSame
    BY <1>2, <2>1 DEF ConfigurationSame, process
  <2> QED BY <2>2, <2>3, <2>4, ConfigurationKept DEF IInv
<1>4. CASE state = "REGISTERING"
  <2>1. PICK failing \in SUBSET os :
            /\ Configure(os, failing)
            /\ faults' = faults + Cardinality(failing \ WithoutMesosBridge(os))
            /\ faults' <= MaxFaults
    BY <1>4 DEF UpdateAgentOverlays
  <2>2. awaiting' = awaiting \/ awaiting' = Append(awaiting, os)
    BY <1>4 DEF UpdateAgentOverlays
  <2>3. /\ os \subseteq Overlays
        /\ \A o \in os : overlays[o] \notin {"STATUS_CONFIGURING", "STATUS_OK"}
    BY <1>0, StartedType
  <2> HIDE DEF os
  <2>4. /\ overlays' \in [Overlays -> Statuses \cup {None}]
        /\ work' \in [Overlays -> Work \cup {None}]
        /\ \A o \in Overlays :
                work'[o] # None <=> overlays'[o] = "STATUS_CONFIGURING"
        /\ \A o \in os :
                /\ overlays'[o] = "STATUS_CONFIGURING"
                /\ work'[o].phase = IF DockerBridge THEN "inspect"
                                                    ELSE "_configure"
        /\ \A o \in Overlays \ os :
                overlays'[o] = overlays[o] /\ work'[o] = work[o]
    BY <1>0, <2>1, <2>3, ConfigureType
  <2>5. faults' \in 0..MaxFaults
    <3> DEFINE failures == failing \ WithoutMesosBridge(os)
    <3>1. IsFiniteSet(failures)
      BY <2>3, UpdateAssumption, FS_Subset
    <3>2. Cardinality(failures) \in Nat
      BY <3>1, FS_CardinalityType
    <3> QED BY <1>0, <2>1, <3>2, Bounds DEF TypeOK
  <2>6. awaiting' \in Seq(SUBSET Overlays)
    <3>1. awaiting \in Seq(SUBSET Overlays) /\ os \in SUBSET Overlays
      BY <1>0, <2>3 DEF TypeOK
    <3> QED BY <2>2, <3>1
  <2>7. TypeOK'
    BY <1>0, <1>1, <1>2, <2>4, <2>5, <2>6
       DEF TypeOK, process, registration, detector
  <2>8. RegistrationRetried'
    BY <1>2 DEF IInv, RegistrationRetried, process, registration
  <2>9. RegisteredConfigured'
    BY <1>2, <1>4 DEF RegisteredConfigured, registration
  <2>10. ConfiguredForReal' /\ PhaseInv'
    BY <1>2, <2>3, <2>4 DEF IInv, ConfiguredForReal, PhaseInv, DockerBridge,
                            DockerSubnets, process
  <2>11. AwaitedUnderWay'
    <3>1. /\ awaiting \in Seq(SUBSET Overlays)
          /\ AwaitedUnderWay
      BY <1>0 DEF TypeOK, IInv
    <3>2. \A i \in DOMAIN awaiting : awaiting[i] \cap os = {}
      BY <2>3, <3>1 DEF AwaitedUnderWay
    <3>3. \A i \in DOMAIN awaiting : \A o \in awaiting[i] :
            overlays'[o] = "STATUS_CONFIGURING"
      BY <2>4, <3>1 DEF AwaitedUnderWay
    <3>4. CASE awaiting' = awaiting
      BY <3>1, <3>3, <3>4 DEF AwaitedUnderWay
    <3>5. CASE awaiting' = Append(awaiting, os)
      <4>1. /\ DOMAIN awaiting' = DOMAIN awaiting \cup {Len(awaiting) + 1}
            /\ awaiting'[Len(awaiting) + 1] = os
            /\ \A i \in DOMAIN awaiting : awaiting'[i] = awaiting[i]
        BY <3>1, <3>5
      <4> QED BY <2>4, <3>1, <3>2, <3>3, <4>1 DEF AwaitedUnderWay
    <3> QED BY <2>2, <3>4, <3>5
  <2> QED BY <2>7, <2>8, <2>9, <2>10, <2>11 DEF IInv
<1> QED BY <1>3, <1>4

\* A report removes an update of which nothing is awaited.
LEMMA _updateAgentOverlaysIInv ==
  ASSUME IInv, NEW i \in Nat, _updateAgentOverlays(i) PROVE IInv'
<1> USE DEF _updateAgentOverlays, process, registration, detector
<1>0. TypeOK
  BY DEF IInv
<1>1. /\ awaiting \in Seq(SUBSET Overlays)
      /\ toMaster \in [Masters -> Seq(ToMaster)]
      /\ overlayMaster \in Masters \cup {None}
  BY <1>0 DEF TypeOK
<1> DEFINE old(j) == IF j < i THEN j ELSE j + 1
<1>2. /\ Len(awaiting) \in Nat
      /\ i \in 1..Len(awaiting)
  BY <1>1
<1>3. awaiting' = [j \in 1..(Len(awaiting) - 1) |-> awaiting[old(j)]]
  BY <1>2
<1>4. \A j \in 1..(Len(awaiting) - 1) : old(j) \in 1..Len(awaiting)
  BY <1>2
<1>5. \A j, k \in 1..(Len(awaiting) - 1) : j # k => old(j) # old(k)
  BY <1>2
<1> HIDE DEF old
<1>6. /\ DOMAIN awaiting' = 1..(Len(awaiting) - 1)
      /\ \A j \in DOMAIN awaiting' : awaiting'[j] = awaiting[old(j)]
  BY <1>3
<1>7. awaiting' \in Seq(SUBSET Overlays)
  <2> DEFINE n == Len(awaiting) - 1
             rest(j) == awaiting[old(j)]
  <2>1. n \in Nat
    BY <1>2
  <2>2. \A j \in 1..n : rest(j) \in SUBSET Overlays
    BY <1>1, <1>4
  <2>3. awaiting' = [j \in 1..n |-> rest(j)]
    BY <1>3
  <2> HIDE DEF n, rest
  <2> QED BY <2>1, <2>2, <2>3
<1>8. toMaster' \in [Masters -> Seq(ToMaster)]
  <2>1. CASE state # "REGISTERING"
    BY <1>1, <2>1
  <2>2. CASE state = "REGISTERING"
    <3>1. overlayMaster \in Masters
      BY <1>1, <2>2
    <3>2. Send(toMaster[overlayMaster], "AgentRegistered") \in Seq(ToMaster)
      BY <1>1, <3>1, SendType DEF ToMaster
    <3>3. toMaster' = [toMaster EXCEPT ![overlayMaster] =
                        Send(toMaster[overlayMaster], "AgentRegistered")]
      BY <2>2
    <3> QED BY <1>1, <3>1, <3>2, <3>3
  <2> QED BY <2>1, <2>2
<1>9. TypeOK'
  BY <1>0, <1>7, <1>8 DEF TypeOK
<1>10. RegistrationRetried' /\ RegisteredConfigured'
  BY DEF IInv, RegistrationRetried, RegisteredConfigured
<1>11. ConfiguredForReal' /\ PhaseInv'
  BY DEF IInv, ConfiguredForReal, PhaseInv, DockerBridge, DockerSubnets
<1>12. AwaitedUnderWay'
  <2>1. AwaitedUnderWay /\ DOMAIN awaiting = 1..Len(awaiting)
    BY <1>1 DEF IInv
  <2>2. UNCHANGED overlays
    OBVIOUS
  <2> QED BY <1>4, <1>5, <1>6, <2>1, <2>2 DEF AwaitedUnderWay
<1> QED BY <1>9, <1>10, <1>11, <1>12 DEF IInv

\* A CHECK that fails ends mesos-agent.
LEMMA _updateAgentOverlaysAbortsIInv ==
  ASSUME IInv, NEW i \in Nat, _updateAgentOverlaysAborts(i) PROVE IInv'
<1> USE DEF _updateAgentOverlaysAborts, registration, detector, messages
<1>1. TypeOK'
  BY DEF IInv, TypeOK, configuration, CheckFailures
<1>2. RegistrationRetried' /\ RegisteredConfigured'
  BY DEF RegistrationRetried, RegisteredConfigured
<1>3. ConfigurationSame
  BY DEF ConfigurationSame
<1> QED BY <1>1, <1>2, <1>3, ConfigurationKept DEF IInv

-----------------------------------------------------------------------------
(* The configuration of an overlay *)

\* A command of overlay o has ended: another follows, or the configuration is
\* over.
Continues(o) ==
    \/ \E phase \in Phases \ {"_configure"} :
        /\ Goes(o, phase)
        /\ DockerBridge /\ DockerSubnets(o) # {}
                /\ phase \in {"isolation", "masquerade"} => o \in networks'
    \/ \E status \in {"STATUS_OK", "STATUS_FAILED"} :
        /\ Ends(o, status)
        /\ DockerBridge /\ DockerSubnets(o) # {} /\ status = "STATUS_OK" =>
                o \in networks'

\* An overlay with a configuration under way is configuring, so that the agent
\* is registered only if no attempt was left.
LEMMA UnderWay ==
  ASSUME IInv, NEW o \in Overlays, work[o] # None
  PROVE  /\ overlays[o] = "STATUS_CONFIGURING"
         /\ work[o] \in Work
         /\ proc = "running" /\ state = "REGISTERED" =>
                configAttempts > MaxConfigAttempts
<1>1. overlays[o] = "STATUS_CONFIGURING" /\ work[o] \in Work
  BY DEF IInv, TypeOK
<1> QED BY <1>1, NoneDiffers DEF IInv, RegisteredConfigured, Statuses

\* The configuration goes on with another command.
LEMMA GoesIInv ==
  ASSUME IInv, NEW o \in Overlays, work[o] # None,
         networks \subseteq networks', networks' \subseteq Overlays,
         faults' \in 0..MaxFaults,
         NEW phase \in Phases \ {"_configure"}, Goes(o, phase),
         DockerBridge /\ DockerSubnets(o) # {}
            /\ phase \in {"isolation", "masquerade"} => o \in networks'
  PROVE  IInv'
<1> USE DEF Goes, process, registration, detector, messages
<1>0. TypeOK
  BY DEF IInv
<1>1. /\ work \in [Overlays -> Work \cup {None}]
      /\ overlays[o] = "STATUS_CONFIGURING"
      /\ work[o] \in Work
  BY <1>0, UnderWay DEF TypeOK
<1> DEFINE new == [work[o] EXCEPT !.phase = phase]
<1>2. new \in Work /\ new.phase = phase
  BY <1>1 DEF Work
<1>3. work' = [work EXCEPT ![o] = new]
  OBVIOUS
<1> HIDE DEF new
<1>4. new # None
  BY <1>2, NoneDiffers
<1>5. /\ work' \in [Overlays -> Work \cup {None}]
      /\ work'[o] = new
      /\ \A p \in Overlays \ {o} : work'[p] = work[p]
  BY <1>1, <1>2, <1>3
<1>6. TypeOK'
  <2>1. \A p \in Overlays :
            work'[p] # None <=> overlays'[p] = "STATUS_CONFIGURING"
    BY <1>0, <1>1, <1>4, <1>5 DEF TypeOK
  <2> QED BY <1>0, <1>5, <2>1 DEF TypeOK
<1>7. RegistrationRetried' /\ RegisteredConfigured'
  BY DEF IInv, RegistrationRetried, RegisteredConfigured
<1>8. ConfiguredForReal'
  BY DEF IInv, ConfiguredForReal, DockerBridge, DockerSubnets
<1>9. PhaseInv'
  BY <1>2, <1>5 DEF IInv, PhaseInv, DockerBridge, DockerSubnets
<1>10. AwaitedUnderWay'
  BY DEF IInv, AwaitedUnderWay
<1> QED BY <1>6, <1>7, <1>8, <1>9, <1>10 DEF IInv

\* The configuration is over.
LEMMA EndsIInv ==
  ASSUME IInv, NEW o \in Overlays, work[o] # None,
         networks \subseteq networks', networks' \subseteq Overlays,
         faults' \in 0..MaxFaults,
         NEW status \in {"STATUS_OK", "STATUS_FAILED"}, Ends(o, status),
         DockerBridge /\ DockerSubnets(o) # {} /\ status = "STATUS_OK" =>
            o \in networks'
  PROVE  IInv'
<1> USE DEF Ends, process, registration, detector, messages
<1>0. TypeOK
  BY DEF IInv
<1>1. /\ work \in [Overlays -> Work \cup {None}]
      /\ overlays \in [Overlays -> Statuses \cup {None}]
      /\ awaiting \in Seq(SUBSET Overlays)
  BY <1>0 DEF TypeOK
<1>2. /\ work' \in [Overlays -> Work \cup {None}]
      /\ work'[o] = None
      /\ \A p \in Overlays \ {o} : work'[p] = work[p]
  BY <1>1
<1>3. /\ overlays' \in [Overlays -> Statuses \cup {None}]
      /\ overlays'[o] = status
      /\ \A p \in Overlays \ {o} : overlays'[p] = overlays[p]
  BY <1>1 DEF Statuses
<1>4. /\ awaiting' \in Seq(SUBSET Overlays)
      /\ DOMAIN awaiting' = DOMAIN awaiting
      /\ \A i \in DOMAIN awaiting : awaiting'[i] = awaiting[i] \ {o}
  <2>1. /\ Len(awaiting) \in Nat
        /\ DOMAIN awaiting = 1..Len(awaiting)
        /\ \A i \in DOMAIN awaiting : awaiting[i] \ {o} \in SUBSET Overlays
    BY <1>1
  <2>2. awaiting' = [i \in 1..Len(awaiting) |-> awaiting[i] \ {o}]
    BY <2>1
  <2> QED BY <2>1, <2>2
<1>5. TypeOK'
  <2>1. \A p \in Overlays :
            work'[p] # None <=> overlays'[p] = "STATUS_CONFIGURING"
    BY <1>0, <1>2, <1>3 DEF TypeOK
  <2> QED BY <1>0, <1>2, <1>3, <1>4, <2>1 DEF TypeOK
<1>6. RegistrationRetried'
  BY DEF IInv, RegistrationRetried
<1>7. RegisteredConfigured'
  BY UnderWay DEF RegisteredConfigured
<1>8. ConfiguredForReal'
  BY <1>3 DEF IInv, ConfiguredForReal, DockerBridge, DockerSubnets
<1>9. PhaseInv'
  BY <1>2 DEF IInv, PhaseInv, DockerBridge, DockerSubnets
<1>10. AwaitedUnderWay'
  <2>1. AwaitedUnderWay
    BY DEF IInv
  <2>2. \A i \in DOMAIN awaiting : awaiting[i] \subseteq Overlays
    BY <1>1
  <2> QED BY <1>3, <1>4, <2>1, <2>2 DEF AwaitedUnderWay
<1> QED BY <1>5, <1>6, <1>7, <1>8, <1>9, <1>10 DEF IInv

\* Either keeps the invariant if a network that the overlay needs is there.
LEMMA ContinuesIInv ==
  ASSUME IInv, NEW o \in Overlays, work[o] # None,
         networks \subseteq networks', networks' \subseteq Overlays,
         faults' \in 0..MaxFaults,
         Continues(o)
  PROVE  IInv'
BY GoesIInv, EndsIInv DEF Continues

\* _configure continues, if the network is there in case it succeeds.
LEMMA _configureContinues ==
  ASSUME NEW o, NEW failed \in BOOLEAN, _configure(o, failed),
         ~failed /\ DockerBridge /\ DockerSubnets(o) # {} => o \in networks'
  PROVE  Continues(o)
<1>1. CASE Failed(o, failed)
  BY <1>1 DEF _configure, Continues
<1>2. CASE ~Failed(o, failed)
  <2>1. DockerBridge /\ DockerSubnets(o) # {} => o \in networks'
    BY <1>2 DEF Failed
  <2>2. CASE MesosBridge \/ DockerBridge
    BY <1>2, <2>1, <2>2 DEF _configure, Continues, Phases
  <2>3. CASE ~(MesosBridge \/ DockerBridge)
    BY <1>2, <2>1, <2>3 DEF _configure, Continues
  <2> QED BY <2>2, <2>3
<1> QED BY <1>1, <1>2

\* Every step of a configuration keeps the invariant.
LEMMA ConfigurationStepIInv ==
  ASSUME IInv, NEW o \in Overlays, ConfigurationStep(o) PROVE IInv'
<1>0. TypeOK /\ PhaseInv
  BY DEF IInv
<1>1. networks \subseteq Overlays
  BY <1>0 DEF TypeOK
<1>2. CASE NoDockerNetwork(o)
  <2>1. work[o] # None /\ ~DockerBridge
    BY <1>0, <1>2 DEF NoDockerNetwork, At, PhaseInv
  <2>2. Continues(o)
    BY <1>2, <2>1, _configureContinues DEF NoDockerNetwork
  <2>3. UNCHANGED networks /\ faults' \in 0..MaxFaults
    BY <1>0, <1>2, FaultType DEF NoDockerNetwork
  <2> QED BY <1>1, <2>1, <2>2, <2>3, ContinuesIInv
<1>3. CASE CheckDockerNetwork(o)
  <2>1. work[o] # None /\ UNCHANGED networks
    BY <1>3 DEF CheckDockerNetwork, At
  <2>2. Continues(o)
    <3>1. CASE o \in networks /\ Goes(o, "isolation")
      BY <2>1, <3>1 DEF Continues, Phases
    <3>2. CASE Goes(o, "create")
      BY <3>2 DEF Continues, Phases
    <3>3. CASE _configure(o, TRUE)
      BY <3>3, _configureContinues
    <3> QED BY <1>3, <3>1, <3>2, <3>3 DEF CheckDockerNetwork
  <2>3. faults' \in 0..MaxFaults
    BY <1>0, <1>3, FaultType DEF CheckDockerNetwork
  <2> QED BY <1>1, <2>1, <2>2, <2>3, ContinuesIInv
<1>4. CASE CreateDockerNetwork(o)
  <2>1. work[o] # None
    BY <1>4 DEF CreateDockerNetwork, At
  <2>2. networks \subseteq networks' /\ networks' \subseteq Overlays
    BY <1>1, <1>4 DEF CreateDockerNetwork
  <2>3. Continues(o)
    <3>1. CASE Goes(o, "isolation") /\ networks' = networks \cup {o}
      BY <3>1 DEF Continues, Phases
    <3>2. CASE _configure(o, TRUE)
      BY <3>2, _configureContinues
    <3>3. CASE _configure(o, FALSE) /\ DockerSubnets(o) = {}
      BY <3>3, _configureContinues
    <3> QED BY <1>4, <3>1, <3>2, <3>3 DEF CreateDockerNetwork
  <2>4. faults' \in 0..MaxFaults
    BY <1>0, <1>4, FaultType DEF CreateDockerNetwork
  <2> QED BY <2>1, <2>2, <2>3, <2>4, ContinuesIInv
<1>5. CASE BypassIsolation(o)
  <2>1. work[o] # None /\ UNCHANGED networks
    BY <1>5 DEF BypassIsolation, At
  <2>2. DockerBridge /\ DockerSubnets(o) # {} => o \in networks
    BY <1>0, <1>5 DEF BypassIsolation, At, PhaseInv
  <2>3. Continues(o)
    BY <1>5, <2>1, <2>2, _configureContinues DEF BypassIsolation
  <2>4. faults' \in 0..MaxFaults
    BY <1>0, <1>5, FaultType DEF BypassIsolation
  <2> QED BY <1>1, <2>1, <2>3, <2>4, ContinuesIInv
<1>6. CASE Masquerade(o)
  <2>1. work[o] # None /\ UNCHANGED networks
    BY <1>6 DEF Masquerade, At
  <2>2. DockerBridge /\ DockerSubnets(o) # {} => o \in networks
    BY <1>0, <1>6 DEF Masquerade, At, PhaseInv
  <2>3. Continues(o)
    BY <1>6, <2>1, <2>2 DEF Masquerade, Continues
  <2>4. faults' \in 0..MaxFaults
    BY <1>0, <1>6, FaultType DEF Masquerade
  <2> QED BY <1>1, <2>1, <2>3, <2>4, ContinuesIInv
<1> QED BY <1>2, <1>3, <1>4, <1>5, <1>6 DEF ConfigurationStep

-----------------------------------------------------------------------------
(* The theorems *)

\* Every step keeps the invariant.
LEMMA NextIInv ==
  ASSUME IInv, [Next]_vars PROVE IInv'
<1>1. CASE UNCHANGED vars
  <2>1. TypeOK'
    BY <1>1 DEF IInv, TypeOK, vars, process, registration, configuration,
                detector, messages
  <2>2. RegistrationRetried' /\ RegisteredConfigured'
    BY <1>1 DEF IInv, RegistrationRetried, RegisteredConfigured, vars, process,
                registration, configuration
  <2>3. ConfigurationSame
    BY <1>1 DEF ConfigurationSame, vars, process
  <2> QED BY <2>1, <2>2, <2>3, ConfigurationKept DEF IInv
<1>2. CASE RetryRegistration
  BY <1>2, RetryRegistrationIInv
<1>3. CASE \E m \in Masters \cup {None} : LeaderChanges(m)
  BY <1>3, LeaderChangesIInv
<1>4. CASE Detected
  BY <1>4, DetectedIInv
<1>5. ASSUME NEW m \in Masters,
             Exited(m) \/ Receive(m) \/ MasterAnswers(m) \/ MasterDrops(m)
      PROVE  IInv'
  BY <1>5, ExitedIInv, UpdateAgentOverlaysIInv,
     AgentRegisteredAcknowledgementIInv, MasterAnswersIInv, MasterDropsIInv
     DEF Receive
<1>6. CASE Report
  <2>1. PICK i \in 1..MaxUpdates :
            _updateAgentOverlays(i) \/ _updateAgentOverlaysAborts(i)
    BY <1>6 DEF Report
  <2>2. i \in Nat
    BY AgentBoundsAssumption
  <2> QED BY <2>1, <2>2, _updateAgentOverlaysIInv, _updateAgentOverlaysAbortsIInv
<1>7. CASE \E o \in Overlays : ConfigurationStep(o)
  BY <1>7, ConfigurationStepIInv
<1>8. CASE AgentRestart
  BY <1>8, AgentRestartIInv
<1> QED BY <1>1, <1>2, <1>3, <1>4, <1>5, <1>6, <1>7, <1>8 DEF Next

\* The invariant holds of every reachable state.
THEOREM Inductive == Spec => []IInv
<1>1. Init => IInv
  BY InitIInv
<1>2. IInv /\ [Next]_vars => IInv'
  BY NextIInv
<1> QED BY <1>1, <1>2, PTL DEF Spec

\* The members of the process are well typed, and exactly the overlays with a
\* configuration under way are configuring.
THEOREM TypeCorrect == Spec => []TypeOK
<1>1. IInv => TypeOK
  BY DEF IInv
<1> QED BY <1>1, Inductive, PTL

\* An agent that registers with a master has a retry scheduled.
THEOREM Retried == Spec => []RegistrationRetried
<1>1. IInv => RegistrationRetried
  BY DEF IInv
<1> QED BY <1>1, Inductive, PTL

\* It is registered only when its overlays are configured, or no attempt is
\* left.
THEOREM Configured == Spec => []RegisteredConfigured
<1>1. IInv => RegisteredConfigured
  BY DEF IInv
<1> QED BY <1>1, Inductive, PTL

\* With docker_bridge an overlay that is STATUS_OK, and has a subnet that docker
\* can be given, has its Docker network, even if commands were killed when they
\* had had their effect.
THEOREM Real == Spec => []ConfiguredForReal
<1>1. IInv => ConfiguredForReal
  BY DEF IInv
<1> QED BY <1>1, Inductive, PTL

\* An update awaits what is being configured, and no other update does.
THEOREM Awaited == Spec => []AwaitedUnderWay
<1>1. IInv => AwaitedUnderWay
  BY DEF IInv
<1> QED BY <1>1, Inductive, PTL

\* No step but a restart takes an overlay out of STATUS_OK.
LEMMA StaysOK ==
  ASSUME IInv, [Next]_vars, NEW o \in Overlays, overlays[o] = "STATUS_OK"
  PROVE  overlays'[o] = "STATUS_OK" \/ AgentRestart
<1>0. TypeOK
  BY DEF IInv
<1>1. CASE UNCHANGED overlays
  BY <1>1
<1>2. ASSUME NEW m \in Masters, UpdateAgentOverlays(m)
      PROVE  overlays'[o] = "STATUS_OK"
  <2>1. CASE state # "REGISTERING"
    BY <1>2, <2>1 DEF UpdateAgentOverlays, configuration
  <2>2. CASE state = "REGISTERING"
    <3>1. o \notin Started(UpdateOf[m])
      BY DEF Started
    <3>2. \E failing : Configure(Started(UpdateOf[m]), failing)
      BY <1>2, <2>2 DEF UpdateAgentOverlays
    <3> QED BY <3>1, <3>2 DEF Configure
  <2> QED BY <2>1, <2>2
<1>3. ASSUME NEW p \in Overlays, ConfigurationStep(p)
      PROVE  overlays'[o] = "STATUS_OK"
  <2>1. work[p] # None
    BY <1>3 DEF ConfigurationStep, NoDockerNetwork, CheckDockerNetwork,
                CreateDockerNetwork, BypassIsolation, Masquerade, At
  <2>2. p # o /\ overlays \in [Overlays -> Statuses \cup {None}]
    BY <1>0, <2>1 DEF TypeOK
  <2>3. \/ UNCHANGED overlays
        \/ \E status : overlays' = [overlays EXCEPT ![p] = status]
    BY <1>3 DEF ConfigurationStep, NoDockerNetwork, CheckDockerNetwork,
                CreateDockerNetwork, BypassIsolation, Masquerade, _configure,
                Goes, Ends
  <2> QED BY <2>2, <2>3
<1>4. \/ UNCHANGED overlays
      \/ \E m \in Masters : UpdateAgentOverlays(m)
      \/ \E p \in Overlays : ConfigurationStep(p)
      \/ AgentRestart
  BY DEF Next, vars, configuration, RetryRegistration, LeaderChanges, Detected,
         Exited, Receive, AgentRegisteredAcknowledgement, MasterAnswers,
         MasterDrops, Report, _updateAgentOverlays, _updateAgentOverlaysAborts
<1> QED BY <1>1, <1>2, <1>3, <1>4

\* A network in use is left alone until mesos-agent restarts.
THEOREM InUse == Spec => ConfiguredStays
<1>1. IInv /\ [Next]_vars =>
        [\A o \in Overlays : overlays[o] = "STATUS_OK" =>
            overlays'[o] = "STATUS_OK" \/ AgentRestart]_vars
  BY StaysOK
<1> QED BY <1>1, Inductive, PTL DEF Spec, ConfiguredStays

=============================================================================
