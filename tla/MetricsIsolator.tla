-------------------------- MODULE MetricsIsolator --------------------------
(***************************************************************************)
(* The metrics isolator of src/metrics/isolator.cpp: a libprocess actor in  *)
(* mesos-agent that registers a container with the DC/OS metrics service    *)
(* when it is prepared and removes it when it is cleaned up.                *)
(*                                                                          *)
(* A request is connected, sent and answered in steps of its own, and the   *)
(* future that prepare or cleanup waits on fails after request_timeout      *)
(* while the request itself goes on.  The service, its network and the      *)
(* containerizer that calls prepare and cleanup are external.               *)
(***************************************************************************)
EXTENDS Naturals, FiniteSets

CONSTANTS
    Containers,    \* containers the agent launches
    Value,         \* Value[c]: containerId.value(), the last part of a nested ID
    Debug,         \* the containers of class DEBUG
    MaxFaults,     \* bound on broken connections and restarts of mesos-agent
    None           \* an absent value

ASSUME ContainersAssumption ==
    /\ Debug \subseteq Containers
    /\ MaxFaults \in Nat
    /\ None \notin {"POST", "DELETE"}

\* Parents are left out of what the service is sent, so two nested containers
\* could be one to it.  Mesos makes up a value that is unique, or takes the
\* one that whoever launches the container chose.
ASSUME ValuesAssumption == \A c, d \in Containers : Value[c] = Value[d] => c = d

VARIABLES
    container,        \* how far the containerizer has come with each
    environment,      \* containers given STATSD_UDP_HOST and STATSD_UDP_PORT
    debugContainers,  \* debugContainers
    waiting,          \* the request whose future prepare or cleanup waits on
    connecting,       \* requests that wait for their connection
    wire,             \* requests sent and not yet handled by the service
    stray,            \* the same, when their connection is no more
    answers,          \* its answers on their way back
    service,          \* the values that the service has registered
    unsettled,        \* containers with a request that failed or came late
    faults            \* broken connections and restarts so far

requests == <<waiting, connecting, wire, stray, answers>>
vars == <<container, environment, debugContainers, requests, service,
          unsettled, faults>>

-----------------------------------------------------------------------------
Methods == {"POST", "DELETE"}
Requests == Methods \X Containers

\* An answer to a POST is 201 with both fields of the address, 201 without,
\* 204 or another code; an answer to a DELETE is 202 or another code.
Codes == {"CREATED", "INCOMPLETE", "NO_CONTENT", "ACCEPTED", "OTHER"}

Phases == {"new", "preparing", "launched", "doomed", "cleaning", "gone"}

Init ==
    /\ container = [c \in Containers |-> "new"]
    /\ environment = {}
    /\ debugContainers = {}
    /\ waiting = [c \in Containers |-> None]
    /\ connecting = {}
    /\ wire = {}
    /\ stray = {}
    /\ answers = {}
    /\ service = {}
    /\ unsettled = {}
    /\ faults = 0

Enter(c, phase) == container' = [container EXCEPT ![c] = phase]

\* send(): connect first; the future is that of the whole chain.
Send(method, c) ==
    /\ waiting' = [waiting EXCEPT ![c] = method]
    /\ connecting' = connecting \cup {<<method, c>>}
    /\ UNCHANGED <<wire, stray, answers>>

\* Mutant: the class of the container is not looked at.
PrepareAnyClass(c) ==
    /\ container[c] = "new"
    /\ Send("POST", c)
    /\ Enter(c, "preparing")
    /\ UNCHANGED <<environment, debugContainers, service, unsettled, faults>>

\* prepare(): a container of class DEBUG is not registered.
Prepare(c) ==
    /\ container[c] = "new"
    /\ IF c \in Debug
       THEN /\ debugContainers' = debugContainers \cup {c}
            /\ Enter(c, "launched")
            /\ UNCHANGED requests
       ELSE /\ Send("POST", c)
            /\ Enter(c, "preparing")
            /\ UNCHANGED debugContainers
    /\ UNCHANGED <<environment, service, unsettled, faults>>

\* Mutant: a container that could not be prepared is taken for not registered.
CleanupLaunched(c) ==
    /\ container[c] \in {"launched", "doomed"}
    /\ IF c \in debugContainers \/ container[c] = "doomed"
       THEN /\ debugContainers' = debugContainers \ {c}
            /\ Enter(c, "gone")
            /\ UNCHANGED requests
       ELSE /\ Send("DELETE", c)
            /\ Enter(c, "cleaning")
            /\ UNCHANGED debugContainers
    /\ UNCHANGED <<environment, service, unsettled, faults>>

\* cleanup, which the containerizer calls when the container has ended or was
\* not prepared, once prepare() has answered.
Cleanup(c) ==
    /\ container[c] \in {"launched", "doomed"}
    /\ IF c \in debugContainers
       THEN /\ debugContainers' = debugContainers \ {c}
            /\ Enter(c, "gone")
            /\ UNCHANGED requests
       ELSE /\ Send("DELETE", c)
            /\ Enter(c, "cleaning")
            /\ UNCHANGED debugContainers
    /\ UNCHANGED <<environment, service, unsettled, faults>>

-----------------------------------------------------------------------------
(* The future of a request *)

\* await() makes a failed DELETE a ready future: cleanup only logs it.
AfterFailure(method) == IF method = "POST" THEN "doomed" ELSE "gone"

\* The future of request r fails; r itself may be under way still.  Nothing
\* happens if that future is waited on no longer.
Fail(r) ==
    IF waiting[r[2]] = r[1]
    THEN /\ Enter(r[2], AfterFailure(r[1]))
         /\ waiting' = [waiting EXCEPT ![r[2]] = None]
         /\ unsettled' = IF r[1] = "DELETE" \/ r \in connecting' \cup wire' \cup stray'
                         THEN unsettled \cup {r[2]} ELSE unsettled
    ELSE UNCHANGED <<container, waiting, unsettled>>

ConnectFails(r) ==
    /\ r \in connecting
    /\ faults < MaxFaults
    /\ faults' = faults + 1
    /\ connecting' = connecting \ {r}
    /\ UNCHANGED <<wire, stray, answers>>
    /\ Fail(r)
    /\ UNCHANGED <<environment, debugContainers, service>>

\* The connection is there: the request is sent, also when its future has
\* failed by now.
Connected(r) ==
    /\ r \in connecting
    /\ connecting' = connecting \ {r}
    /\ wire' = wire \cup {r}
    /\ UNCHANGED <<container, environment, debugContainers, waiting, stray,
                   answers, service, unsettled, faults>>

\* Mutant: the time is taken from when the request was sent.
TimesOutWhenSent(c) ==
    /\ waiting[c] # None
    /\ <<waiting[c], c>> \notin connecting
    /\ UNCHANGED <<connecting, wire, stray, answers>>
    /\ Fail(<<waiting[c], c>>)
    /\ UNCHANGED <<environment, debugContainers, service, faults>>

\* after(request_timeout): the request is not withdrawn.
TimesOut(c) ==
    /\ waiting[c] # None
    /\ UNCHANGED <<connecting, wire, stray, answers>>
    /\ Fail(<<waiting[c], c>>)
    /\ UNCHANGED <<environment, debugContainers, service, faults>>

\* The connection breaks, before the service has the request or after.
Disconnected(r) ==
    /\ r \in wire \/ \E code \in Codes : <<r, code>> \in answers
    /\ faults < MaxFaults
    /\ faults' = faults + 1
    /\ wire' = wire \ {r}
    /\ stray' \in {stray, stray \cup ({r} \cap wire)}
    /\ answers' = {a \in answers : a[1] # r}
    /\ UNCHANGED connecting
    /\ Fail(r)
    /\ UNCHANGED <<environment, debugContainers, service>>

\* prepare() succeeds: with an environment for 201, without one for 204.
Launches(code) == code \in {"CREATED", "NO_CONTENT"}

\* Mutant: the answer of a POST is taken when its future has failed, too.
AnsweredLate(r, code) ==
    /\ <<r, code>> \in answers
    /\ answers' = answers \ {<<r, code>>}
    /\ waiting' = [waiting EXCEPT ![r[2]] = None]
    /\ IF r[1] = "POST"
       THEN /\ Enter(r[2], IF Launches(code) THEN "launched" ELSE "doomed")
            /\ environment' = IF code = "CREATED" THEN environment \cup {r[2]}
                                                ELSE environment
            /\ UNCHANGED unsettled
       ELSE /\ Enter(r[2], "gone")
            /\ unsettled' = IF code = "ACCEPTED" THEN unsettled
                                                 ELSE unsettled \cup {r[2]}
            /\ UNCHANGED environment
    /\ UNCHANGED <<debugContainers, connecting, wire, stray, service, faults>>

\* The future of a request that is waited on is ready: prepare decides by the
\* code, cleanup is done whatever it is.
Answered(r, code) ==
    /\ <<r, code>> \in answers
    /\ answers' = answers \ {<<r, code>>}
    /\ IF waiting[r[2]] # r[1]
       THEN UNCHANGED <<container, environment, waiting, unsettled>>
       ELSE /\ waiting' = [waiting EXCEPT ![r[2]] = None]
            /\ IF r[1] = "POST"
               THEN /\ Enter(r[2], IF Launches(code) THEN "launched"
                                                     ELSE "doomed")
                    /\ environment' = IF code = "CREATED"
                                      THEN environment \cup {r[2]}
                                      ELSE environment
                    /\ UNCHANGED unsettled
               ELSE /\ Enter(r[2], "gone")
                    /\ unsettled' = IF code = "ACCEPTED" THEN unsettled
                                    ELSE unsettled \cup {r[2]}
                    /\ UNCHANGED environment
    /\ UNCHANGED <<debugContainers, connecting, wire, stray, service, faults>>

-----------------------------------------------------------------------------
(* The service and mesos-agent *)

\* The service has got request r, and answers if there is whom to answer.
Receives(r, code) ==
    \/ /\ r \in wire
       /\ wire' = wire \ {r}
       /\ answers' = answers \cup {<<r, code>>}
       /\ UNCHANGED stray
    \/ /\ r \in stray
       /\ stray' = stray \ {r}
       /\ UNCHANGED <<wire, answers>>

\* The service takes the container, or answers that it has nothing for it, or
\* with an error before or after it took it.
HandlesPost(c, code) ==
    /\ code \in Codes \ {"ACCEPTED"}
    /\ Receives(<<"POST", c>>, code)
    /\ service' \in IF code = "CREATED" THEN {service \cup {Value[c]}}
                    ELSE {service, service \cup {Value[c]}}
    /\ UNCHANGED <<container, environment, debugContainers, waiting,
                   connecting, unsettled, faults>>

HandlesDelete(c, code) ==
    /\ code \in {"ACCEPTED", "OTHER"}
    /\ Receives(<<"DELETE", c>>, code)
    /\ service' = IF code = "ACCEPTED" THEN service \ {Value[c]} ELSE service
    /\ UNCHANGED <<container, environment, debugContainers, waiting,
                   connecting, unsettled, faults>>

\* mesos-agent restarts: its connections and debugContainers are lost, the
\* isolator has no recover() of its own.  The containerizer recovers what was
\* launched, and cleans up what it was preparing or cleaning up.
AgentRestart ==
    /\ faults < MaxFaults
    /\ faults' = faults + 1
    /\ container' = [c \in Containers |->
            IF container[c] \in {"preparing", "cleaning"} THEN "doomed"
                                                          ELSE container[c]]
    /\ debugContainers' = {}
    /\ waiting' = [c \in Containers |-> None]
    /\ connecting' = {}
    /\ wire' = {}
    /\ stray' = stray \cup wire
    /\ answers' = {}
    /\ unsettled' = unsettled \cup {c \in Containers : <<"POST", c>> \in wire}
    /\ UNCHANGED <<environment, service>>

-----------------------------------------------------------------------------
Next ==
    \/ \E c \in Containers : Prepare(c) \/ Cleanup(c) \/ TimesOut(c)
    \/ \E r \in Requests : ConnectFails(r) \/ Connected(r) \/ Disconnected(r)
    \/ \E r \in Requests, code \in Codes : Answered(r, code)
    \/ \E c \in Containers, code \in Codes :
        HandlesPost(c, code) \/ HandlesDelete(c, code)
    \/ AgentRestart

Spec == Init /\ [][Next]_vars

\* Only the timers of the actor and the containerizer are counted on.
Fairness ==
    \A c \in Containers : WF_vars(TimesOut(c)) /\ WF_vars(Cleanup(c))

FairSpec == Spec /\ Fairness

-----------------------------------------------------------------------------
(* Properties *)

\* What the variables hold: the isolator's members and the requests.
TypeOK ==
    /\ container \in [Containers -> Phases]
    /\ environment \subseteq Containers \ Debug
    /\ debugContainers \subseteq Debug
    /\ waiting \in [Containers -> Methods \cup {None}]
    /\ connecting \subseteq Requests
    /\ wire \subseteq Requests
    /\ stray \subseteq Requests
    /\ answers \subseteq Requests \X Codes
    /\ service \subseteq {Value[c] : c \in Containers}
    /\ unsettled \subseteq Containers
    /\ faults \in 0..MaxFaults

\* A container that prepare() told where to send its metrics is registered with
\* the service until its cleanup(), whatever requests fail, come late or are
\* left over from before a restart of mesos-agent.
ReportingRegistered ==
    \A c \in environment :
        container[c] = "launched" => Value[c] \in service

\* A container that is cleaned up is registered no longer, unless its DELETE
\* failed, or its POST outlived the prepare() that sent it and may have come
\* to the service after the DELETE (send() does not withdraw it).
NothingLeftBehind ==
    \A c \in Containers :
        container[c] = "gone" /\ c \notin unsettled => Value[c] \notin service

\* prepare() and cleanup() come to an end even if the service accepts no
\* connection or never answers.
AlwaysAnswered ==
    \A c \in Containers :
        /\ container[c] = "preparing" ~> container[c] # "preparing"
        /\ container[c] \in {"doomed", "cleaning"} ~> container[c] = "gone"

\* "Add this container ID to the set of debug containers so that we will not
\* make a DELETE request for it during the cleanup phase": the service is
\* never asked to remove a debug container.
DebugNeverDeleted == \A c \in Debug : <<"DELETE", c>> \notin connecting \cup wire

=============================================================================
