-------------------------- MODULE ContainerLogger --------------------------
(***************************************************************************)
(* The container logger of src/journald/lib_journald.cpp: prepare() makes a *)
(* pipe for each of stdout and stderr, starts a companion (LogWriter) that  *)
(* reads it, and gives the write ends to the containerizer.                 *)
(*                                                                          *)
(* prepare() is one handler of an actor, but mesos-agent can die between    *)
(* any two of its system calls, so each call is a step; `phase` says which  *)
(* is next.  The containerizer, the companions and what subprocess() and    *)
(* the kernel do are external: a read end given to subprocess() as OWNED is *)
(* closed by it, whether it succeeds or fails, every descriptor is closed   *)
(* on exec, and a companion reads to the end of its pipe.                   *)
(***************************************************************************)
EXTENDS Naturals, Sequences, FiniteSets

CONSTANTS
    Containers,  \* containers that mesos-agent launches
    Debug,       \* the containers of class DEBUG
    Directory,   \* Directory[c]: the tokens of the sandbox path
    Agent,       \* Agent[c]: the agent ID, None for a standalone container
    MaxFaults,   \* bound on calls that fail and crashes
    None         \* an absent value

ASSUME ContainersAssumption ==
    /\ Debug \subseteq Containers
    /\ \A c \in Containers : Directory[c] \in Seq(STRING)
    /\ MaxFaults \in Nat

VARIABLES
    phase,      \* how far prepare() has come, or what became of the container
    held,       \* the descriptors <<c, stream, end>> that mesos-agent has open
    writers,    \* the pipes whose write end the container has
    companion,  \* companion[c][s]: "none", "running" or "ended"
    broken,     \* the companions that ended before the end of their pipe
    labels,     \* labels[c][s]: what the companion was started with
    faults      \* failures and crashes so far

vars == <<phase, held, writers, companion, broken, labels, faults>>

-----------------------------------------------------------------------------
Streams == {"STDOUT", "STDERR"}

\* The system call of prepare() that is next.
PipeFor(s) == IF s = "STDOUT" THEN "pipe out" ELSE "pipe err"
SubprocessFor(s) == IF s = "STDOUT" THEN "subprocess out" ELSE "subprocess err"

Calls == {"pipe out", "subprocess out", "pipe err", "subprocess err"}

Phases == {"new", "prepared", "running", "gone", "failed"} \cup Calls

Preparing == {c \in Containers : phase[c] \in Calls}

\* An empty list for the companion that is not started.
NoLabels == [agent |-> None, stream |-> None]

Init ==
    /\ phase = [c \in Containers |-> "new"]
    /\ held = {}
    /\ writers = {}
    /\ companion = [c \in Containers |-> [s \in Streams |-> "none"]]
    /\ broken = {}
    /\ labels = [c \in Containers |-> [s \in Streams |-> NoLabels]]
    /\ faults = 0

-----------------------------------------------------------------------------
(* The labels *)

\* Mutant: the search looks at every token.
AgentIdEverywhere(tokens) ==
    LET found == {i \in 1..Len(tokens) - 1 : tokens[i] = "slaves"}
    IN IF found = {} THEN None
       ELSE tokens[1 + CHOOSE i \in found : \A j \in found : j <= i]

\* The search goes backwards by two from the last token but one, and on after
\* it has found "slaves": the first of the path is what remains.
AgentId(tokens) ==
    LET found == {i \in 1..Len(tokens) - 1 :
                    (Len(tokens) - i) % 2 = 1 /\ tokens[i] = "slaves"}
    IN IF found = {} THEN None
       ELSE tokens[1 + CHOOSE i \in found : \A j \in found : i <= j]

\* A sandbox path as Mesos makes it: in the work directory, keys and IDs take
\* turns.  The first key is "slaves", with the ID of the agent; for a standalone
\* container every key is "containers".  The work directory itself has no part
\* called "slaves" where the search looks.
SandboxPath(c) ==
    LET path   == Directory[c]
        key(i) == (Len(path) - i) % 2 = 1
    IN  \E k \in 1..Len(path) - 1 :
            /\ key(k)
            /\ \A i \in 1..k - 1 : key(i) => path[i] # "slaves"
            /\ IF Agent[c] = None
               THEN \A i \in k..Len(path) : key(i) => path[i] = "containers"
               ELSE path[k] = "slaves" /\ path[k + 1] = Agent[c]

LabelsFor(c, s) == [agent |-> AgentId(Directory[c]), stream |-> s]

Labels == [agent: {None} \cup {AgentId(Directory[c]) : c \in Containers},
           stream: {None} \cup Streams]

-----------------------------------------------------------------------------
(* prepare() *)

Step(c, call) == phase' = [phase EXCEPT ![c] = call]

Fault == faults < MaxFaults /\ faults' = faults + 1

\* Closes descriptors of mesos-agent.
Close(ends) == held' = held \ ends

Ends(c, s) == {<<c, s, "read">>, <<c, s, "write">>}

\* killtree(SIGKILL): its result is not looked at, and it may fail.
Kill(c, s) ==
    \E killed \in BOOLEAN :
        companion' = IF killed THEN [companion EXCEPT ![c][s] = "ended"]
                               ELSE companion

\* Mutant: the class of the container is not looked at.
PrepareAnyClass(c) ==
    /\ phase[c] = "new" /\ Preparing = {}
    /\ Step(c, "pipe out")
    /\ UNCHANGED <<held, writers, companion, broken, labels, faults>>

\* A DEBUG container logs to files in its sandbox.  The settings in the
\* environment of the command may be invalid.
Prepare(c) ==
    /\ phase[c] = "new" /\ Preparing = {}
    /\ \/ c \in Debug /\ Step(c, "prepared") /\ UNCHANGED faults
       \/ c \notin Debug /\ Step(c, "pipe out") /\ UNCHANGED faults
       \/ c \notin Debug /\ Step(c, "failed") /\ Fault
    /\ UNCHANGED <<held, writers, companion, broken, labels>>

MakePipe(c, s) ==
    /\ phase[c] = PipeFor(s)
    /\ held' = held \cup Ends(c, s)
    /\ Step(c, SubprocessFor(s))
    /\ UNCHANGED <<writers, companion, broken, labels, faults>>

NoPipeOut(c) ==
    /\ phase[c] = "pipe out"
    /\ Fault /\ Step(c, "failed")
    /\ UNCHANGED <<held, writers, companion, broken, labels>>

\* Mutant: the first companion is left alone.
NoPipeErrLeft(c) ==
    /\ phase[c] = "pipe err"
    /\ Fault /\ Step(c, "failed")
    /\ UNCHANGED <<held, writers, companion, broken, labels>>

NoPipeErr(c) ==
    /\ phase[c] = "pipe err"
    /\ Fault /\ Step(c, "failed")
    /\ Close({<<c, "STDOUT", "write">>})
    /\ Kill(c, "STDOUT")
    /\ UNCHANGED <<writers, broken, labels>>

\* What follows when the companion for s has been started.
After(s) == IF s = "STDOUT" THEN "pipe err" ELSE "prepared"

\* subprocess() closes the read end, its own copy of it is the companion's.
StartCompanion(c, s) ==
    /\ phase[c] = SubprocessFor(s)
    /\ Close({<<c, s, "read">>})
    /\ companion' = [companion EXCEPT ![c][s] = "running"]
    /\ labels' = [labels EXCEPT ![c][s] = LabelsFor(c, s)]
    /\ Step(c, After(s))
    /\ UNCHANGED <<writers, broken, faults>>

NoCompanionOut(c) ==
    /\ phase[c] = "subprocess out"
    /\ Fault /\ Step(c, "failed")
    /\ Close(Ends(c, "STDOUT"))
    /\ UNCHANGED <<writers, companion, broken, labels>>

\* Mutant: only the descriptor at hand is closed.
NoCompanionErrOne(c) ==
    /\ phase[c] = "subprocess err"
    /\ Fault /\ Step(c, "failed")
    /\ Close(Ends(c, "STDERR"))
    /\ Kill(c, "STDOUT")
    /\ UNCHANGED <<writers, broken, labels>>

\* Mutant: the container is launched all the same.
NoCompanionErrLaunched(c) ==
    /\ phase[c] = "subprocess err"
    /\ Fault /\ Step(c, "prepared")
    /\ Close({<<c, "STDERR", "read">>})
    /\ UNCHANGED <<writers, companion, broken, labels>>

NoCompanionErr(c) ==
    /\ phase[c] = "subprocess err"
    /\ Fault /\ Step(c, "failed")
    /\ Close({<<c, "STDOUT", "write">>} \cup Ends(c, "STDERR"))
    /\ Kill(c, "STDOUT")
    /\ UNCHANGED <<writers, broken, labels>>

-----------------------------------------------------------------------------
(* The containerizer, the container, the companions *)

DescriptorsOf(c) == {d \in held : d[1] = c}

\* The container is started with the write ends, which mesos-agent closes, or
\* destroyed before it is.
Launch(c) ==
    /\ phase[c] = "prepared"
    /\ \/ /\ Step(c, "running")
          /\ writers' = writers \cup {<<d[1], d[2]>> : d \in DescriptorsOf(c)}
       \/ /\ Step(c, "gone")
          /\ UNCHANGED writers
    /\ Close(DescriptorsOf(c))
    /\ UNCHANGED <<companion, broken, labels, faults>>

Exits(c) ==
    /\ phase[c] = "running"
    /\ Step(c, "gone")
    /\ writers' = {w \in writers : w[1] # c}
    /\ UNCHANGED <<held, companion, broken, labels, faults>>

\* Who has the write end of a pipe keeps its companion reading.
CompanionEnds(c, s) ==
    /\ companion[c][s] = "running"
    /\ <<c, s>> \notin writers /\ <<c, s, "write">> \notin held
    /\ companion' = [companion EXCEPT ![c][s] = "ended"]
    /\ UNCHANGED <<phase, held, writers, broken, labels, faults>>

CompanionFails(c, s) ==
    /\ companion[c][s] = "running"
    /\ Fault
    /\ companion' = [companion EXCEPT ![c][s] = "ended"]
    /\ broken' = broken \cup {<<c, s>>}
    /\ UNCHANGED <<phase, held, writers, labels>>

\* mesos-agent dies: its descriptors are closed; containers and companions
\* live on (setsid, extendLifetime).  What was not launched yet is given up.
AgentDies ==
    /\ Fault
    /\ held' = {}
    /\ phase' = [c \in Containers |->
            IF phase[c] \in {"prepared"} \cup Calls THEN "failed" ELSE phase[c]]
    /\ UNCHANGED <<writers, companion, broken, labels>>

-----------------------------------------------------------------------------
Next ==
    \/ \E c \in Containers :
        \/ Prepare(c)
        \/ NoPipeOut(c)
        \/ NoPipeErr(c)
        \/ NoCompanionOut(c)
        \/ NoCompanionErr(c)
        \/ Launch(c)
        \/ Exits(c)
    \/ \E c \in Containers, s \in Streams :
        \/ MakePipe(c, s)
        \/ StartCompanion(c, s)
        \/ CompanionEnds(c, s)
        \/ CompanionFails(c, s)
    \/ AgentDies

Spec == Init /\ [][Next]_vars

\* A companion reads on until the end of its pipe.
FairSpec ==
    Spec /\ \A c \in Containers, s \in Streams : WF_vars(CompanionEnds(c, s))

-----------------------------------------------------------------------------
(* Properties *)

\* The descriptors, the processes, and the labels that are made for them.
TypeOK ==
    /\ phase \in [Containers -> Phases]
    /\ held \subseteq (Containers \ Debug) \X Streams \X {"read", "write"}
    /\ writers \subseteq (Containers \ Debug) \X Streams
    /\ companion \in [Containers -> [Streams -> {"none", "running", "ended"}]]
    /\ broken \subseteq (Containers \ Debug) \X Streams
    /\ labels \in [Containers -> [Streams -> Labels]]
    /\ faults \in 0..MaxFaults

\* mesos-agent has no descriptor open but for the container that prepare() is
\* at and those it has not handed over: whichever call failed, prepare() has
\* closed what it had opened, and no read end outlives its subprocess().
NothingHeld ==
    \A d \in held :
        /\ phase[d[1]] \in Calls \cup {"prepared"}
        /\ d[3] = "read" => phase[d[1]] = SubprocessFor(d[2])

\* When its container is gone, was given up or was never launched, no
\* companion stays behind, even if killtree() has failed or mesos-agent died
\* in the middle of prepare().
NoneStaysBehind ==
    \A c \in Containers, s \in Streams :
        phase[c] \in {"gone", "failed"} ~> companion[c][s] # "running"

\* What a container writes to stdout and to stderr is read as long as it runs,
\* and under the name of that stream, unless that companion has failed itself.
BothRead ==
    \A c \in Containers \ Debug, s \in Streams :
        phase[c] = "running" =>
            /\ companion[c][s] = "running" \/ <<c, s>> \in broken
            /\ labels[c][s].stream = s

\* The AGENT_ID that is found in a sandbox path is that of the agent, whatever
\* the IDs in it are, and there is none for a standalone container.
AgentIdentified ==
    \A c \in Containers, s \in Streams :
        companion[c][s] # "none" => labels[c][s].agent = Agent[c]

=============================================================================
