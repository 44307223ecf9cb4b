----------------------- MODULE MetricsIsolator_proofs -----------------------
(***************************************************************************)
(* Proofs about MetricsIsolator, for all containers and values, any number  *)
(* of broken connections and restarts, and every order of the answers.      *)
(*                                                                          *)
(* The invariant follows a request on its way: a POST that can still reach  *)
(* the service belongs to a prepare() that waits for it or is counted as    *)
(* unsettled, and a DELETE belongs to a container that was given up.  Every *)
(* action is about one container, so a lemma for each says what becomes of  *)
(* that one, and the lemma Untouched that nothing does of the others.       *)
(***************************************************************************)
EXTENDS MetricsIsolator, TLAPS

\* The request of container c may still come to the service.
UnderWay(m, c) ==
    \/ <<m, c>> \in connecting
    \/ <<m, c>> \in wire
    \/ <<m, c>> \in stray

HasAnswer(m, c, code) == <<<<m, c>>, code>> \in answers

\* A future is waited on in the phase that started its request.
WaitsFor(c) ==
    /\ waiting[c] = "POST" <=> container[c] = "preparing"
    /\ waiting[c] = "DELETE" <=> container[c] = "cleaning"

\* A POST is sent once, by a container that has a service to report to.
PostFromPrepare(c) ==
    c \in Debug \/ container[c] = "new" =>
        /\ ~UnderWay("POST", c)
        /\ \A code \in Codes : ~HasAnswer("POST", c, code)

\* It is in one place at a time.
PostOnce(c) ==
    /\ <<"POST", c>> \in connecting => <<"POST", c>> \notin wire \cup stray
    /\ <<"POST", c>> \in wire => <<"POST", c>> \notin stray
    /\ UnderWay("POST", c) => \A code \in Codes : ~HasAnswer("POST", c, code)

\* Somebody waits for it, or it is counted as unsettled.
PostSettled(c) ==
    /\ UnderWay("POST", c) => container[c] = "preparing" \/ c \in unsettled
    /\ <<"POST", c>> \in stray => c \in unsettled

\* A container with a DELETE under way was given up.
DeleteFromCleanup(c) ==
    UnderWay("DELETE", c) \/ (\E code \in Codes : HasAnswer("DELETE", c, code)) =>
        container[c] \in {"cleaning", "gone", "doomed"}

\* What an answer says still holds when it is taken.
AnswersTrue(c) ==
    /\ HasAnswer("POST", c, "CREATED") /\ container[c] = "preparing" =>
            Value[c] \in service
    /\ HasAnswer("DELETE", c, "ACCEPTED") =>
            Value[c] \notin service \/ c \in unsettled

\* Who reports was prepared, and is registered while it runs.
Reports(c) ==
    c \in environment =>
        /\ container[c] \notin {"new", "preparing"}
        /\ container[c] = "launched" => Value[c] \in service

\* Who is gone, or never was to be registered, is not registered.
Left(c) ==
    /\ container[c] = "gone" /\ c \notin unsettled => Value[c] \notin service
    /\ c \in Debug => Value[c] \notin service

ContainerInv(c) ==
    /\ WaitsFor(c) /\ PostFromPrepare(c) /\ PostOnce(c) /\ PostSettled(c)
    /\ DeleteFromCleanup(c) /\ AnswersTrue(c) /\ Reports(c) /\ Left(c)

IInv == TypeOK /\ \A c \in Containers : ContainerInv(c)

-----------------------------------------------------------------------------
(* What a step leaves alone *)

\* Nothing that the invariant says of container c has changed.
Same(c) ==
    /\ container'[c] = container[c]
    /\ waiting'[c] = waiting[c]
    /\ c \in environment' <=> c \in environment
    /\ c \in unsettled' <=> c \in unsettled
    /\ Value[c] \in service' <=> Value[c] \in service
    /\ \A m \in Methods :
        /\ <<m, c>> \in connecting' <=> <<m, c>> \in connecting
        /\ <<m, c>> \in wire' <=> <<m, c>> \in wire
        /\ <<m, c>> \in stray' <=> <<m, c>> \in stray
        /\ \A code \in Codes :
            <<<<m, c>>, code>> \in answers' <=> <<<<m, c>>, code>> \in answers

\* The invariant of a container depends on nothing else.
LEMMA Untouched ==
  ASSUME NEW c \in Containers, ContainerInv(c), Same(c)
  PROVE  ContainerInv(c)'
<1>1. \A m \in Methods : UnderWay(m, c)' <=> UnderWay(m, c)
  BY DEF Same, UnderWay
<1>2. \A m \in Methods, code \in Codes :
          HasAnswer(m, c, code)' <=> HasAnswer(m, c, code)
  BY DEF Same, HasAnswer
<1>3. "POST" \in Methods /\ "DELETE" \in Methods
  BY DEF Methods
<1>4. "CREATED" \in Codes /\ "ACCEPTED" \in Codes
  BY DEF Codes
<1>5. WaitsFor(c)' /\ Left(c)' /\ Reports(c)'
  BY DEF ContainerInv, WaitsFor, Left, Reports, Same
<1>6. PostFromPrepare(c)' /\ DeleteFromCleanup(c)'
  BY <1>1, <1>2, <1>3 DEF ContainerInv, PostFromPrepare, DeleteFromCleanup, Same
<1>7. PostOnce(c)' /\ PostSettled(c)'
  BY <1>1, <1>2, <1>3 DEF ContainerInv, PostOnce, PostSettled, Same
<1>8. AnswersTrue(c)'
  BY <1>2, <1>3, <1>4 DEF ContainerInv, AnswersTrue, Same
<1> QED
  BY <1>5, <1>6, <1>7, <1>8 DEF ContainerInv

\* A step that is about container d keeps the invariant if it keeps that of d.
LEMMA OneContainer ==
  ASSUME IInv, NEW d \in Containers, TypeOK', ContainerInv(d)',
         \A c \in Containers \ {d} : Same(c)
  PROVE  IInv'
BY Untouched DEF IInv

-----------------------------------------------------------------------------
(* The initial state *)

\* Nothing is under way at first.
LEMMA InitIInv ==
  ASSUME Init PROVE IInv
<1> USE DEF Init
<1>1. TypeOK
  BY ContainersAssumption DEF TypeOK, Phases, Methods
<1>2. ASSUME NEW c \in Containers PROVE ContainerInv(c)
  BY ContainersAssumption
  DEF ContainerInv, WaitsFor, PostFromPrepare, PostOnce, PostSettled,
      DeleteFromCleanup, AnswersTrue, Reports, Left, UnderWay, HasAnswer
<1> QED BY <1>1, <1>2 DEF IInv

-----------------------------------------------------------------------------
(* prepare and cleanup *)

\* A container is prepared: its POST is the only one.
LEMMA PrepareIInv ==
  ASSUME IInv, NEW d \in Containers, Prepare(d)
  PROVE  IInv'
<1> USE DEF Prepare, Send, Enter, requests
<1>0. TypeOK /\ ContainerInv(d)
  BY DEF IInv
<1>1. TypeOK'
  BY <1>0, ContainersAssumption
  DEF TypeOK, Requests, Methods, Phases, ContainerInv, WaitsFor
<1>2. ASSUME NEW c \in Containers \ {d} PROVE Same(c)
  BY <1>0 DEF Same, TypeOK, Methods
<1>3. ContainerInv(d)'
  <2>1. CASE d \in Debug
    <3>1. /\ container'[d] = "launched" /\ container[d] = "new"
          /\ UNCHANGED <<waiting, connecting, wire, stray, answers,
                         environment, service, unsettled>>
      BY <1>0, <2>1 DEF TypeOK
    <3> HIDE DEF Prepare
    <3> QED
      BY <1>0, <2>1, <3>1
      DEF ContainerInv, WaitsFor, PostFromPrepare, PostOnce, PostSettled,
          DeleteFromCleanup, AnswersTrue, Reports, Left, UnderWay, HasAnswer
  <2>2. CASE d \notin Debug
    <3>1. /\ container'[d] = "preparing" /\ container[d] = "new"
          /\ waiting'[d] = "POST"
          /\ <<"DELETE", d>> \in connecting' <=> <<"DELETE", d>> \in connecting
          /\ UNCHANGED <<wire, stray, answers, environment, service, unsettled>>
      BY <1>0, <2>2 DEF TypeOK
    <3> HIDE DEF Prepare
    <3>2. WaitsFor(d)' /\ PostFromPrepare(d)' /\ Reports(d)' /\ Left(d)'
      BY <1>0, <2>2, <3>1
      DEF ContainerInv, WaitsFor, PostFromPrepare, Reports, Left
    <3>3. PostOnce(d)' /\ PostSettled(d)'
      BY <1>0, <3>1
      DEF ContainerInv, PostFromPrepare, PostOnce, PostSettled, UnderWay, HasAnswer
    <3>4. DeleteFromCleanup(d)' /\ AnswersTrue(d)'
      BY <1>0, <3>1
      DEF ContainerInv, PostFromPrepare, DeleteFromCleanup, AnswersTrue,
          UnderWay, HasAnswer, Codes
    <3> QED BY <3>2, <3>3, <3>4 DEF ContainerInv
  <2> QED BY <2>1, <2>2
<1> QED BY <1>1, <1>2, <1>3, OneContainer

\* A container is cleaned up: it was launched or given up.
LEMMA CleanupIInv ==
  ASSUME IInv, NEW d \in Containers, Cleanup(d)
  PROVE  IInv'
<1> USE DEF Cleanup, Send, Enter, requests
<1>0. TypeOK /\ ContainerInv(d)
  BY DEF IInv
<1>1. TypeOK'
  BY <1>0, ContainersAssumption
  DEF TypeOK, Requests, Methods, Phases, ContainerInv, WaitsFor
<1>2. ASSUME NEW c \in Containers \ {d} PROVE Same(c)
  BY <1>0 DEF Same, TypeOK, Methods
<1>3. ContainerInv(d)'
  <2>1. CASE d \in debugContainers
    <3>1. /\ container'[d] = "gone" /\ d \in Debug
          /\ container[d] \in {"launched", "doomed"}
          /\ UNCHANGED <<waiting, connecting, wire, stray, answers,
                         environment, service, unsettled>>
      BY <1>0, <2>1 DEF TypeOK
    <3> HIDE DEF Cleanup
    <3> QED
      BY <1>0, <3>1
      DEF ContainerInv, WaitsFor, PostFromPrepare, PostOnce, PostSettled,
          DeleteFromCleanup, AnswersTrue, Reports, Left, UnderWay, HasAnswer
  <2>2. CASE d \notin debugContainers
    <3>1. /\ container'[d] = "cleaning"
          /\ container[d] \in {"launched", "doomed"}
          /\ waiting'[d] = "DELETE"
          /\ <<"POST", d>> \in connecting' <=> <<"POST", d>> \in connecting
          /\ UNCHANGED <<wire, stray, answers, environment, service, unsettled>>
      BY <1>0, <2>2 DEF TypeOK
    <3> HIDE DEF Cleanup
    <3>2. WaitsFor(d)' /\ PostFromPrepare(d)' /\ Reports(d)' /\ Left(d)'
      BY <1>0, <3>1
      DEF ContainerInv, WaitsFor, PostFromPrepare, Reports, Left, UnderWay,
          HasAnswer
    <3>3. PostOnce(d)' /\ PostSettled(d)'
      BY <1>0, <3>1 DEF ContainerInv, PostOnce, PostSettled, UnderWay, HasAnswer
    <3>4. DeleteFromCleanup(d)' /\ AnswersTrue(d)'
      BY <1>0, <3>1 DEF ContainerInv, DeleteFromCleanup, AnswersTrue, HasAnswer
    <3> QED BY <3>2, <3>3, <3>4 DEF ContainerInv
  <2> QED BY <2>1, <2>2
<1> QED BY <1>1, <1>2, <1>3, OneContainer

-----------------------------------------------------------------------------
(* The future of a request *)

\* A request whose future fails leaves a container that is given up, and that
\* is unsettled if the service may get the request.
LEMMA FailContainer ==
  ASSUME TypeOK, NEW m \in Methods, NEW d \in Containers, ContainerInv(d),
         Fail(<<m, d>>),
         UNCHANGED <<environment, service>>,
         UnderWay("POST", d)' => UnderWay("POST", d),
         <<"POST", d>> \in stray' /\ <<"POST", d>> \notin stray =>
             m = "POST" /\ <<"POST", d>> \in wire,
         PostOnce(d)',
         UnderWay("DELETE", d)' => UnderWay("DELETE", d),
         answers' \subseteq answers
  PROVE  ContainerInv(d)'
<1>1. CASE waiting[d] # m
  <2>1. UNCHANGED <<container, waiting, unsettled>>
    BY <1>1 DEF Fail
  <2>2. WaitsFor(d)' /\ PostFromPrepare(d)' /\ Reports(d)' /\ Left(d)'
    BY <2>1 DEF ContainerInv, WaitsFor, PostFromPrepare, Reports, Left, HasAnswer
  <2>3. PostSettled(d)'
    BY <1>1, <2>1 DEF ContainerInv, WaitsFor, PostSettled, UnderWay
  <2>4. DeleteFromCleanup(d)' /\ AnswersTrue(d)'
    BY <2>1 DEF ContainerInv, DeleteFromCleanup, AnswersTrue, HasAnswer
  <2> QED BY <2>2, <2>3, <2>4 DEF ContainerInv
<1>2. CASE waiting[d] = m
  <2>1. /\ waiting'[d] = None
        /\ container'[d] = IF m = "POST" THEN "doomed" ELSE "gone"
        /\ m = "POST" => container[d] = "preparing"
        /\ m = "DELETE" => container[d] = "cleaning" /\ d \in unsettled'
        /\ UnderWay(m, d)' => d \in unsettled'
        /\ d \in unsettled => d \in unsettled'
        /\ m \in {"POST", "DELETE"} /\ None \notin {"POST", "DELETE"}
    BY <1>2, ContainersAssumption
    DEF Fail, Enter, AfterFailure, TypeOK, ContainerInv, WaitsFor, UnderWay,
        Methods
  <2>2. WaitsFor(d)' /\ PostFromPrepare(d)' /\ Reports(d)' /\ Left(d)'
    BY <2>1
    DEF ContainerInv, WaitsFor, PostFromPrepare, Reports, Left, HasAnswer
  <2>3. PostSettled(d)'
    BY <2>1 DEF ContainerInv, PostSettled, UnderWay
  <2>4. DeleteFromCleanup(d)' /\ AnswersTrue(d)'
    BY <2>1 DEF ContainerInv, DeleteFromCleanup, AnswersTrue, HasAnswer
  <2> QED BY <2>2, <2>3, <2>4 DEF ContainerInv
<1> QED BY <1>1, <1>2

\* Nor does it change the type of anything.
LEMMA FailType ==
  ASSUME TypeOK, NEW m \in Methods, NEW d \in Containers, Fail(<<m, d>>)
  PROVE  /\ container' \in [Containers -> Phases]
         /\ waiting' \in [Containers -> Methods \cup {None}]
         /\ unsettled' \subseteq Containers
         /\ \A c \in Containers \ {d} :
                /\ container'[c] = container[c]
                /\ waiting'[c] = waiting[c]
                /\ c \in unsettled' <=> c \in unsettled
BY DEF Fail, Enter, AfterFailure, TypeOK, Phases

\* A request that times out stays under way.
LEMMA TimesOutIInv ==
  ASSUME IInv, NEW d \in Containers, TimesOut(d)
  PROVE  IInv'
<1>0. TypeOK /\ ContainerInv(d)
  BY DEF IInv
<1>1. PICK m \in Methods : m = waiting[d]
  BY <1>0 DEF TimesOut, TypeOK
<1>2. /\ Fail(<<m, d>>)
      /\ UNCHANGED <<environment, debugContainers, connecting, wire, stray,
                     answers, service, faults>>
  BY <1>1 DEF TimesOut
<1>3. TypeOK'
  BY <1>0, <1>2, FailType DEF TypeOK
<1>4. ASSUME NEW c \in Containers \ {d} PROVE Same(c)
  BY <1>0, <1>2, FailType DEF Same
<1>5. PostOnce(d)'
  BY <1>0, <1>2 DEF ContainerInv, PostOnce, UnderWay, HasAnswer
<1>6. ContainerInv(d)'
  BY <1>0, <1>2, <1>5, FailContainer DEF UnderWay
<1> QED BY <1>3, <1>4, <1>6, OneContainer

\* A request without a connection is gone.
LEMMA ConnectFailsIInv ==
  ASSUME IInv, NEW m \in Methods, NEW d \in Containers, ConnectFails(<<m, d>>)
  PROVE  IInv'
<1>0. TypeOK /\ ContainerInv(d)
  BY DEF IInv
<1>1. /\ Fail(<<m, d>>)
      /\ connecting' = connecting \ {<<m, d>>}
      /\ faults < MaxFaults /\ faults' = faults + 1
      /\ UNCHANGED <<environment, debugContainers, wire, stray, answers, service>>
  BY DEF ConnectFails
<1>2. TypeOK'
  BY <1>0, <1>1, FailType, ContainersAssumption DEF TypeOK
<1>3. ASSUME NEW c \in Containers \ {d} PROVE Same(c)
  BY <1>0, <1>1, FailType DEF Same
<1>4. PostOnce(d)'
  BY <1>0, <1>1 DEF ContainerInv, PostOnce, UnderWay, HasAnswer
<1>5. ContainerInv(d)'
  BY <1>0, <1>1, <1>4, FailContainer DEF UnderWay
<1> QED BY <1>2, <1>3, <1>5, OneContainer

\* A request goes on from the connection to the wire.
LEMMA ConnectedIInv ==
  ASSUME IInv, NEW m \in Methods, NEW d \in Containers, Connected(<<m, d>>)
  PROVE  IInv'
<1>0. TypeOK /\ ContainerInv(d)
  BY DEF IInv
<1>1. /\ <<m, d>> \in connecting
      /\ connecting' = connecting \ {<<m, d>>}
      /\ wire' = wire \cup {<<m, d>>}
      /\ UNCHANGED <<container, environment, debugContainers, waiting, stray,
                     answers, service, unsettled, faults>>
  BY DEF Connected
<1>2. TypeOK'
  BY <1>0, <1>1 DEF TypeOK
<1>3. ASSUME NEW c \in Containers \ {d} PROVE Same(c)
  BY <1>0, <1>1 DEF Same
<1>4. \A n \in {"POST", "DELETE"} : UnderWay(n, d)' <=> UnderWay(n, d)
  BY <1>1 DEF UnderWay
<1>5. PostOnce(d)'
  BY <1>0, <1>1, <1>4 DEF ContainerInv, PostOnce, UnderWay, HasAnswer
<1>6. ContainerInv(d)'
  BY <1>0, <1>1, <1>4, <1>5
  DEF ContainerInv, WaitsFor, PostFromPrepare, PostSettled, DeleteFromCleanup,
      AnswersTrue, Reports, Left, HasAnswer
<1> QED BY <1>2, <1>3, <1>6, OneContainer

\* A request that may have got through is unsettled.
LEMMA DisconnectedIInv ==
  ASSUME IInv, NEW m \in Methods, NEW d \in Containers, Disconnected(<<m, d>>)
  PROVE  IInv'
<1>0. TypeOK /\ ContainerInv(d)
  BY DEF IInv
<1>1. /\ Fail(<<m, d>>)
      /\ wire' = wire \ {<<m, d>>}
      /\ \/ stray' = stray
         \/ <<m, d>> \in wire /\ stray' = stray \cup {<<m, d>>}
      /\ answers' = {a \in answers : a[1] # <<m, d>>}
      /\ faults < MaxFaults /\ faults' = faults + 1
      /\ UNCHANGED <<environment, debugContainers, connecting, service>>
  BY DEF Disconnected
<1>2. TypeOK'
  BY <1>0, <1>1, FailType, ContainersAssumption DEF TypeOK, Requests
<1>3. ASSUME NEW c \in Containers \ {d} PROVE Same(c)
  BY <1>0, <1>1, FailType DEF Same
<1>4. answers' \subseteq answers
  BY <1>1
<1>5. PostOnce(d)'
  BY <1>0, <1>1, <1>4 DEF ContainerInv, PostOnce, UnderWay, HasAnswer
<1>6. ContainerInv(d)'
  BY <1>0, <1>1, <1>4, <1>5, FailContainer DEF UnderWay
<1> QED BY <1>2, <1>3, <1>6, OneContainer

\* An answer that is waited for is true.
LEMMA AnsweredIInv ==
  ASSUME IInv, NEW m \in Methods, NEW d \in Containers, NEW code \in Codes,
         Answered(<<m, d>>, code)
  PROVE  IInv'
<1> TypeOK /\ ContainerInv(d)
  BY DEF IInv
<1>0. m = "POST" => d \notin Debug
  BY DEF Answered, ContainerInv, PostFromPrepare, HasAnswer
<1>1. /\ <<<<m, d>>, code>> \in answers
      /\ answers' = answers \ {<<<<m, d>>, code>>}
      /\ UNCHANGED <<debugContainers, connecting, wire, stray, service, faults>>
  BY DEF Answered
<1>2. PostOnce(d)'
  BY <1>1 DEF ContainerInv, PostOnce, UnderWay, HasAnswer
<1>3. CASE waiting[d] # m
  <2>1. UNCHANGED <<container, environment, waiting, unsettled>>
    BY <1>3 DEF Answered
  <2>2. TypeOK'
    BY <1>1, <2>1 DEF TypeOK
  <2>3. ASSUME NEW c \in Containers \ {d} PROVE Same(c)
    BY <1>1, <2>1 DEF Same
  <2>4. ContainerInv(d)'
    BY <1>1, <1>2, <2>1
    DEF ContainerInv, WaitsFor, PostFromPrepare, PostSettled,
        DeleteFromCleanup, AnswersTrue, Reports, Left, UnderWay, HasAnswer
  <2> QED BY <2>2, <2>3, <2>4, OneContainer
<1>4. CASE waiting[d] = m /\ m = "POST"
  <2>1. /\ waiting' = [waiting EXCEPT ![d] = None]
        /\ container' = [container EXCEPT
                ![d] = IF Launches(code) THEN "launched" ELSE "doomed"]
        /\ environment' = IF code = "CREATED" THEN environment \cup {d}
                                              ELSE environment
        /\ UNCHANGED unsettled
    BY <1>4 DEF Answered, Enter
  <2>2. TypeOK'
    BY <1>0, <1>1, <1>4, <2>1 DEF TypeOK, Phases
  <2>3. ASSUME NEW c \in Containers \ {d} PROVE Same(c)
    BY <1>1, <2>1 DEF Same, TypeOK
  <2>4. /\ waiting'[d] = None /\ None \notin {"POST", "DELETE"}
        /\ container[d] = "preparing"
        /\ container'[d] = IF Launches(code) THEN "launched" ELSE "doomed"
        /\ ~UnderWay("POST", d)
        /\ d \notin Debug
        /\ code = "CREATED" => Value[d] \in service
        /\ d \notin environment
    BY <1>1, <1>4, <2>1, ContainersAssumption
    DEF TypeOK, ContainerInv, WaitsFor, PostOnce, PostFromPrepare, HasAnswer,
        AnswersTrue, Reports
  <2>5. WaitsFor(d)' /\ PostFromPrepare(d)' /\ Left(d)'
    BY <1>1, <2>1, <2>4 DEF ContainerInv, WaitsFor, PostFromPrepare, Left
  <2>6. PostSettled(d)' /\ Reports(d)'
    BY <1>1, <2>1, <2>4
    DEF ContainerInv, PostSettled, Reports, UnderWay
  <2>7. DeleteFromCleanup(d)' /\ AnswersTrue(d)'
    BY <1>1, <2>1, <2>4
    DEF ContainerInv, DeleteFromCleanup, AnswersTrue, UnderWay, HasAnswer
  <2>8. ContainerInv(d)'
    BY <1>2, <2>5, <2>6, <2>7 DEF ContainerInv
  <2> QED BY <2>2, <2>3, <2>8, OneContainer
<1>5. CASE waiting[d] = m /\ m = "DELETE"
  <2>1. /\ waiting' = [waiting EXCEPT ![d] = None]
        /\ container' = [container EXCEPT ![d] = "gone"]
        /\ unsettled' = IF code = "ACCEPTED" THEN unsettled
                                             ELSE unsettled \cup {d}
        /\ UNCHANGED environment
    BY <1>5 DEF Answered, Enter
  <2>2. TypeOK'
    BY <1>1, <2>1 DEF TypeOK, Phases
  <2>3. ASSUME NEW c \in Containers \ {d} PROVE Same(c)
    BY <1>1, <2>1 DEF Same, TypeOK
  <2>4. /\ waiting'[d] = None /\ None \notin {"POST", "DELETE"}
        /\ container[d] = "cleaning" /\ container'[d] = "gone"
        /\ d \in unsettled' \/ Value[d] \notin service
        /\ d \in unsettled => d \in unsettled'
    BY <1>1, <1>5, <2>1, ContainersAssumption
    DEF TypeOK, ContainerInv, WaitsFor, HasAnswer, AnswersTrue
  <2>5. WaitsFor(d)' /\ PostFromPrepare(d)' /\ Left(d)'
    BY <1>1, <2>1, <2>4
    DEF ContainerInv, WaitsFor, PostFromPrepare, Left, UnderWay, HasAnswer
  <2>6. PostSettled(d)' /\ Reports(d)'
    BY <1>1, <2>1, <2>4
    DEF ContainerInv, PostSettled, Reports, UnderWay
  <2>7. DeleteFromCleanup(d)' /\ AnswersTrue(d)'
    BY <1>1, <2>1, <2>4
    DEF ContainerInv, DeleteFromCleanup, AnswersTrue, UnderWay, HasAnswer
  <2>8. ContainerInv(d)'
    BY <1>2, <2>5, <2>6, <2>7 DEF ContainerInv
  <2> QED BY <2>2, <2>3, <2>8, OneContainer
<1> QED BY <1>3, <1>4, <1>5 DEF Methods

-----------------------------------------------------------------------------
(* The service and mesos-agent *)

\* What the service has received is under way no longer, and may be answered.
LEMMA ReceivesOne ==
  ASSUME TypeOK, NEW m \in Methods, NEW d \in Containers, NEW code \in Codes,
         Receives(<<m, d>>, code), UNCHANGED connecting
  PROVE  /\ wire' \subseteq wire /\ stray' \subseteq stray
         /\ answers \subseteq answers'
         /\ answers' \subseteq answers \cup {<<<<m, d>>, code>>}
         /\ \A c \in Containers, n \in Methods :
                <<n, c>> # <<m, d>> =>
                    /\ <<n, c>> \in wire' <=> <<n, c>> \in wire
                    /\ <<n, c>> \in stray' <=> <<n, c>> \in stray
         /\ UnderWay(m, d)
         /\ PostOnce(d) => PostOnce(d)'
<1>1. CASE /\ <<m, d>> \in wire
           /\ wire' = wire \ {<<m, d>>}
           /\ answers' = answers \cup {<<<<m, d>>, code>>}
           /\ UNCHANGED stray
  BY <1>1 DEF PostOnce, UnderWay, HasAnswer
<1>2. CASE /\ <<m, d>> \in stray
           /\ stray' = stray \ {<<m, d>>}
           /\ UNCHANGED <<wire, answers>>
  BY <1>2 DEF PostOnce, UnderWay, HasAnswer
<1> QED BY <1>1, <1>2 DEF Receives

\* A POST that the service takes is waited for, or unsettled.
LEMMA HandlesPostIInv ==
  ASSUME IInv, NEW d \in Containers, NEW code \in Codes, HandlesPost(d, code)
  PROVE  IInv'
<1> TypeOK /\ ContainerInv(d)
  BY DEF IInv
<1> "POST" \in Methods /\ "DELETE" \in Methods
  BY DEF Methods
<1>1. /\ Receives(<<"POST", d>>, code)
      /\ service \subseteq service'
      /\ service' \subseteq service \cup {Value[d]}
      /\ code = "CREATED" => Value[d] \in service'
      /\ code # "ACCEPTED"
      /\ UNCHANGED <<container, environment, debugContainers, waiting,
                     connecting, unsettled, faults>>
  BY DEF HandlesPost
<1>2. /\ wire' \subseteq wire /\ stray' \subseteq stray
      /\ answers \subseteq answers'
      /\ answers' \subseteq answers \cup {<<<<"POST", d>>, code>>}
      /\ \A c \in Containers, n \in Methods :
             <<n, c>> # <<"POST", d>> =>
                 /\ <<n, c>> \in wire' <=> <<n, c>> \in wire
                 /\ <<n, c>> \in stray' <=> <<n, c>> \in stray
      /\ UnderWay("POST", d)
      /\ PostOnce(d)'
  BY <1>1, ReceivesOne DEF ContainerInv
<1>3. TypeOK'
  BY <1>1, <1>2 DEF TypeOK, Requests
<1>4. ASSUME NEW c \in Containers \ {d} PROVE Same(c)
  BY <1>1, <1>2, ValuesAssumption DEF Same
<1>5. d \notin Debug /\ container[d] # "new"
      /\ (container[d] = "preparing" \/ d \in unsettled)
  BY <1>2 DEF ContainerInv, PostFromPrepare, PostSettled
<1>6. WaitsFor(d)' /\ PostFromPrepare(d)' /\ Left(d)'
  BY <1>1, <1>5 DEF ContainerInv, WaitsFor, PostFromPrepare, Left
<1>7. PostSettled(d)' /\ Reports(d)'
  BY <1>1, <1>2 DEF ContainerInv, PostSettled, Reports, UnderWay
<1>8. \A c \in Codes : HasAnswer("DELETE", d, c)' <=> HasAnswer("DELETE", d, c)
  BY <1>2 DEF HasAnswer
<1>9. DeleteFromCleanup(d)'
  BY <1>1, <1>2, <1>8 DEF ContainerInv, DeleteFromCleanup, UnderWay
<1>10. AnswersTrue(d)'
  <2>1. HasAnswer("POST", d, "CREATED")' => Value[d] \in service'
    BY <1>1, <1>2 DEF ContainerInv, PostOnce, HasAnswer, Codes
  <2>2. HasAnswer("DELETE", d, "ACCEPTED") => d \in unsettled
    BY <1>5 DEF ContainerInv, DeleteFromCleanup, Codes
  <2> QED BY <1>1, <1>8, <2>1, <2>2 DEF AnswersTrue, Codes
<1>11. ContainerInv(d)'
  BY <1>2, <1>6, <1>7, <1>9, <1>10 DEF ContainerInv
<1> QED BY <1>3, <1>4, <1>11, OneContainer

\* A DELETE removes nobody who runs.
LEMMA HandlesDeleteIInv ==
  ASSUME IInv, NEW d \in Containers, NEW code \in Codes, HandlesDelete(d, code)
  PROVE  IInv'
<1> TypeOK /\ ContainerInv(d)
  BY DEF IInv
<1> "POST" \in Methods /\ "DELETE" \in Methods
  BY DEF Methods
<1>1. /\ Receives(<<"DELETE", d>>, code)
      /\ service' = IF code = "ACCEPTED" THEN service \ {Value[d]} ELSE service
      /\ UNCHANGED <<container, environment, debugContainers, waiting,
                     connecting, unsettled, faults>>
  BY DEF HandlesDelete
<1>2. /\ wire' \subseteq wire /\ stray' \subseteq stray
      /\ answers \subseteq answers'
      /\ answers' \subseteq answers \cup {<<<<"DELETE", d>>, code>>}
      /\ \A c \in Containers, n \in Methods :
             <<n, c>> # <<"DELETE", d>> =>
                 /\ <<n, c>> \in wire' <=> <<n, c>> \in wire
                 /\ <<n, c>> \in stray' <=> <<n, c>> \in stray
      /\ UnderWay("DELETE", d)
      /\ PostOnce(d)'
  BY <1>1, ReceivesOne DEF ContainerInv
<1>3. TypeOK'
  BY <1>1, <1>2 DEF TypeOK, Requests
<1>4. ASSUME NEW c \in Containers \ {d} PROVE Same(c)
  BY <1>1, <1>2, ValuesAssumption DEF Same
<1>5. container[d] \in {"cleaning", "gone", "doomed"}
  BY <1>2 DEF ContainerInv, DeleteFromCleanup
<1>6. WaitsFor(d)' /\ PostFromPrepare(d)' /\ Left(d)'
  BY <1>1, <1>2, <1>5
  DEF ContainerInv, WaitsFor, PostFromPrepare, Left, UnderWay, HasAnswer
<1>7. PostSettled(d)' /\ Reports(d)'
  BY <1>1, <1>2, <1>5 DEF ContainerInv, PostSettled, Reports, UnderWay
<1>8. DeleteFromCleanup(d)' /\ AnswersTrue(d)'
  BY <1>1, <1>2, <1>5
  DEF ContainerInv, DeleteFromCleanup, AnswersTrue, HasAnswer
<1>9. ContainerInv(d)'
  BY <1>2, <1>6, <1>7, <1>8 DEF ContainerInv
<1> QED BY <1>3, <1>4, <1>9, OneContainer

\* A restart leaves the requests on the wire behind.
LEMMA AgentRestartIInv ==
  ASSUME IInv, AgentRestart
  PROVE  IInv'
<1> TypeOK
  BY DEF IInv
<1>1. TypeOK'
  BY ContainersAssumption DEF AgentRestart, TypeOK, Phases
<1>2. ASSUME NEW c \in Containers PROVE ContainerInv(c)'
  <2> ContainerInv(c)
    BY DEF IInv
  <2>1. /\ container'[c] = IF container[c] \in {"preparing", "cleaning"}
                           THEN "doomed" ELSE container[c]
        /\ waiting'[c] = None /\ None \notin {"POST", "DELETE"}
        /\ connecting' = {} /\ wire' = {} /\ answers' = {}
        /\ stray' = stray \cup wire
        /\ c \in unsettled' <=> c \in unsettled \/ <<"POST", c>> \in wire
        /\ UNCHANGED <<environment, service>>
    BY ContainersAssumption DEF AgentRestart
  <2>2. WaitsFor(c)' /\ PostFromPrepare(c)' /\ PostOnce(c)' /\ Left(c)'
    BY <2>1
    DEF ContainerInv, WaitsFor, PostFromPrepare, PostOnce, Left, UnderWay, HasAnswer
  <2>3. PostSettled(c)' /\ DeleteFromCleanup(c)'
    BY <2>1
    DEF ContainerInv, PostSettled, DeleteFromCleanup, UnderWay, HasAnswer
  <2>4. AnswersTrue(c)' /\ Reports(c)'
    BY <2>1 DEF ContainerInv, AnswersTrue, Reports, HasAnswer
  <2> QED BY <2>2, <2>3, <2>4 DEF ContainerInv
<1> QED BY <1>1, <1>2 DEF IInv

-----------------------------------------------------------------------------
(* The theorems *)

\* Every action keeps the invariant.
LEMMA NextIInv ==
  ASSUME IInv, [Next]_vars
  PROVE  IInv'
<1>1. ASSUME NEW d \in Containers, Prepare(d) \/ Cleanup(d) \/ TimesOut(d)
      PROVE  IInv'
  BY <1>1, PrepareIInv, CleanupIInv, TimesOutIInv
<1>2. ASSUME NEW r \in Requests,
             ConnectFails(r) \/ Connected(r) \/ Disconnected(r)
      PROVE  IInv'
  <2>1. PICK m \in Methods, d \in Containers : r = <<m, d>>
    BY DEF Requests
  <2> QED BY <1>2, <2>1, ConnectFailsIInv, ConnectedIInv, DisconnectedIInv
<1>3. ASSUME NEW r \in Requests, NEW code \in Codes, Answered(r, code)
      PROVE  IInv'
  <2>1. PICK m \in Methods, d \in Containers : r = <<m, d>>
    BY DEF Requests
  <2> QED BY <1>3, <2>1, AnsweredIInv
<1>4. ASSUME NEW d \in Containers, NEW code \in Codes,
             HandlesPost(d, code) \/ HandlesDelete(d, code)
      PROVE  IInv'
  BY <1>4, HandlesPostIInv, HandlesDeleteIInv
<1>5. CASE UNCHANGED vars
  <2>1. TypeOK'
    BY <1>5 DEF IInv, TypeOK, vars, requests
  <2>2. ASSUME NEW c \in Containers PROVE ContainerInv(c)'
    BY <1>5, Untouched DEF IInv, Same, vars, requests
  <2> QED BY <2>1, <2>2 DEF IInv
<1> QED BY <1>1, <1>2, <1>3, <1>4, <1>5, AgentRestartIInv DEF Next

\* IInv is an invariant of the isolator, its requests and the service.
THEOREM Inductive == Spec => []IInv
<1>1. Init => IInv
  BY InitIInv
<1>2. IInv /\ [Next]_vars => IInv'
  BY NextIInv
<1> QED BY <1>1, <1>2, PTL DEF Spec

\* The isolator's members, the requests and the service are well typed; no
\* container of class DEBUG is told where to send metrics.
THEOREM TypeCorrect == Spec => []TypeOK
<1>1. IInv => TypeOK
  BY DEF IInv
<1> QED BY <1>1, Inductive, PTL

\* A container that prepare() told where to send its metrics is registered
\* until its cleanup(), in every order of connections, answers, timeouts and
\* restarts.
THEOREM Registered == Spec => []ReportingRegistered
<1>1. IInv => ReportingRegistered
  BY DEF IInv, TypeOK, ContainerInv, Reports, ReportingRegistered
<1> QED BY <1>1, Inductive, PTL

\* A container that is cleaned up is registered no longer, unless one of its
\* requests failed or came late.
THEOREM Removed == Spec => []NothingLeftBehind
<1>1. IInv => NothingLeftBehind
  BY DEF IInv, ContainerInv, Left, NothingLeftBehind
<1> QED BY <1>1, Inductive, PTL

=============================================================================
