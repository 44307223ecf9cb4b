----------------------------- MODULE LogWriter -----------------------------
(***************************************************************************)
(* The companion of src/journald/journald.cpp: the process that reads what  *)
(* a container writes to stdout or stderr, and sends it to journald, to a   *)
(* file that it has rotated, or to Fluent Bit.                              *)
(*                                                                          *)
(* loop() reads a buffer and writes it to each destination in turn before   *)
(* it reads again.  All of these writes block, so the companion is one      *)
(* thread; what runs beside it are the container, which fills the pipe and  *)
(* blocks when that is full, and the peer of the socket.                    *)
(*                                                                          *)
(* The unit of all sizes is a line, and lines are numbered as written.      *)
(***************************************************************************)
EXTENDS Naturals, FiniteSets

CONSTANTS
    DestinationTypes,  \* values of destination_type
    MaxSize,           \* logrotate_max_size
    BufferSize,        \* bufferSize: a page
    Existing,          \* sizes of the log file the companion may find
    PipeSize,          \* what the pipe holds before the container blocks
    MaxInput,          \* bound on what the container writes
    MaxFaults          \* after so many failed calls none fails

\* --logrotate_max_size must be at least a page.
ASSUME SizeAssumption ==
    /\ BufferSize \in Nat \ {0}
    /\ MaxSize \in Nat
    /\ BufferSize <= MaxSize
    /\ Existing \subseteq Nat
    /\ PipeSize \in Nat \ {0}
    /\ MaxInput \in Nat
    /\ MaxFaults \in Nat

ASSUME DestinationAssumption ==
    DestinationTypes \subseteq {"logrotate", "fluentbit", "journald",
                                "journald+logrotate", "fluentbit+logrotate"}

VARIABLES
    destination_type,  \* where the log goes
    open,              \* has the container the write end of the pipe?
    written,           \* lines the container has written
    taken,             \* lines the companion has read
    step,              \* what loop() is at, or how the companion ended
    next,              \* the first line of the buffer not yet written on
    existing,          \* size of the log file when the companion started
    size,              \* size of the leading log file
    leading,           \* leading.isSome(): is it open?
    bytesWritten,      \* bytesWritten
    fluentbit_socket,  \* fluentbit_socket: "none", "connected" or "error"
    broken,            \* has the peer closed that connection?
    received,          \* lines the peer received over the last connection
    got,               \* got[s]: the lines that have reached sink s
    failures           \* failures[k]: the calls of kind k that failed

file == <<existing, size, leading, bytesWritten>>
connection == <<fluentbit_socket, broken, received>>
container == <<open, written>>
vars == <<destination_type, container, taken, step, next, file, connection,
          got, failures>>

-----------------------------------------------------------------------------
Sinks == {"journald", "logrotate", "fluentbit"}

\* The sinks of a destination, in the order in which loop() writes to them.
SinksOf(type) ==
    CASE type = "journald"            -> <<"journald">>
      [] type = "logrotate"           -> <<"logrotate">>
      [] type = "fluentbit"           -> <<"fluentbit">>
      [] type = "journald+logrotate"  -> <<"journald", "logrotate">>
      [] type = "fluentbit+logrotate" -> <<"logrotate", "fluentbit">>

Uses(sink) ==
    \E i \in DOMAIN SinksOf(destination_type) :
        SinksOf(destination_type)[i] = sink

\* Calls that can fail: reads of stdin, the three writes, opening the file,
\* logrotate, and connecting.
Kinds == Sinks \cup {"read", "open", "rotate", "socket"}

Ends == {"exited", "failed", "aborted"}

Ended == step \in Ends

\* Mutant: a line that went to journald is dealt with.
NextStepJournaldOnly(sink) ==
    IF sink = "logrotate" /\ Uses("fluentbit") THEN "fluentbit" ELSE "reading"

\* What the companion does after the step `sink` of its loop.
NextStep(sink) ==
    IF sink = "journald" /\ Uses("logrotate") THEN "logrotate"
    ELSE IF sink = "logrotate" /\ Uses("fluentbit") THEN "fluentbit"
    ELSE "reading"

Buffer == next..taken

FaultCount ==
    failures["journald"] + failures["logrotate"] + failures["fluentbit"]
        + failures["read"] + failures["open"] + failures["rotate"]
        + failures["socket"]

\* The calls of these kinds fail, in one step.
CountAll(kinds) ==
    /\ kinds # {} => FaultCount < MaxFaults
    /\ failures' = [k \in Kinds |->
                        IF k \in kinds THEN failures[k] + 1 ELSE failures[k]]

\* The call of kind k fails, or does not.
Count(k, fails) == CountAll({j \in {k} : fails})

Init ==
    /\ destination_type \in DestinationTypes
    /\ open = TRUE
    /\ written = 0
    /\ taken = 0
    /\ step = "reading"
    /\ next = 1
    /\ existing \in Existing
    /\ size = existing
    /\ leading = FALSE
    /\ bytesWritten = 0
    /\ fluentbit_socket = "none"
    /\ broken = FALSE
    /\ received = {}
    /\ got = [s \in Sinks |-> {}]
    /\ failures = [k \in Kinds |-> 0]

-----------------------------------------------------------------------------
(* The container *)

ContainerWrites ==
    /\ open /\ ~Ended
    /\ written < MaxInput
    /\ written - taken < PipeSize
    /\ written' = written + 1
    /\ UNCHANGED <<destination_type, open, taken, step, next, file, connection,
                   got, failures>>

ContainerExits ==
    /\ open
    /\ open' = FALSE
    /\ UNCHANGED <<destination_type, written, taken, step, next, file,
                   connection, got, failures>>

-----------------------------------------------------------------------------
(* loop() *)

\* Mutant: a read waits until the buffer is full.
ReadWhole ==
    /\ step = "reading"
    /\ taken + BufferSize <= written
    /\ taken' = taken + BufferSize
    /\ next' = taken + 1
    /\ step' = SinksOf(destination_type)[1]
    /\ UNCHANGED <<destination_type, container, file, connection, got, failures>>

\* io::read: what the pipe holds, up to a buffer.
Read ==
    /\ step = "reading"
    /\ taken < written
    /\ taken' = IF written - taken < BufferSize THEN written
                                                ELSE taken + BufferSize
    /\ next' = taken + 1
    /\ step' = SinksOf(destination_type)[1]
    /\ UNCHANGED <<destination_type, container, file, connection, got, failures>>

\* The end of the file: the container has gone.
ReadEnd ==
    /\ step = "reading"
    /\ taken = written /\ ~open
    /\ step' = "exited"
    /\ UNCHANGED <<destination_type, container, taken, next, file, connection,
                   got, failures>>

ReadFails ==
    /\ step = "reading"
    /\ Count("read", TRUE)
    /\ step' = "failed"
    /\ UNCHANGED <<destination_type, container, taken, next, file, connection, got>>

\* write_journald: sd_journal_sendv of every line, failures ignored.
write_journald ==
    /\ step = "journald"
    /\ \E lines \in SUBSET Buffer :
        /\ got' = [got EXCEPT !["journald"] = @ \cup lines]
        /\ Count("journald", lines # Buffer)
    /\ step' = NextStep("journald")
    /\ UNCHANGED <<destination_type, container, taken, next, file, connection>>

-----------------------------------------------------------------------------
(* The leading log file *)

\* Mutant: the file may be filled and then gets the buffer on top.
MustRotateLate == bytesWritten > MaxSize

MustRotate == bytesWritten + Cardinality(Buffer) > MaxSize

\* Mutant: the configuration of logrotate has the size the companion has.
ExceedsMaxSize == size > MaxSize

\* logrotate was given MaxSize - BufferSize, which must be exceeded.
Exceeds == size > MaxSize - BufferSize

\* The size of the leading file after a rotation, if there is one, that works
\* if `works`.  A failure of logrotate is ignored.
SizeAfter(works) == IF MustRotate /\ works /\ Exceeds THEN 0 ELSE size

\* write_logrotate: rotate() closes the file and starts the count anew
\* whatever logrotate did; the file is opened if it is not open; the buffer is
\* written to it, all or, when the write fails, a part, and counted as
\* written.  Both may fail in one step.
write_logrotate ==
    /\ step = "logrotate"
    /\ \E works \in BOOLEAN, n \in 0..Cardinality(Buffer) :
        /\ works \/ MustRotate
        /\ size' = SizeAfter(works) + n
        /\ got' = [got EXCEPT !["logrotate"] = @ \cup next..(next + n - 1)]
        /\ CountAll({k \in {"rotate"} : ~works}
                        \cup {k \in {"logrotate"} : n < Cardinality(Buffer)})
    /\ leading' = TRUE
    /\ bytesWritten' = (IF MustRotate THEN 0 ELSE bytesWritten)
                            + Cardinality(Buffer)
    /\ step' = NextStep("logrotate")
    /\ UNCHANGED <<destination_type, container, taken, next, existing, connection>>

\* write_logrotate, when the file cannot be opened, after a rotation that may
\* have failed too: the companion ends, and with it what loop() would do next.
OpenFails ==
    /\ step = "logrotate"
    /\ MustRotate \/ ~leading
    /\ \E works \in BOOLEAN :
        /\ works \/ MustRotate
        /\ size' = SizeAfter(works)
        /\ CountAll({"open"} \cup {k \in {"rotate"} : ~works})
    /\ leading' = FALSE
    /\ bytesWritten' = IF MustRotate THEN 0 ELSE bytesWritten
    /\ step' = "failed"
    /\ UNCHANGED <<destination_type, container, taken, next, existing,
                   connection, got>>

-----------------------------------------------------------------------------
(* Fluent Bit *)

\* write_fluentbit without a connection: it connects, and drops the buffer if
\* it cannot.
Connect ==
    /\ step = "fluentbit"
    /\ fluentbit_socket = "none"
    /\ \E fails \in BOOLEAN :
        /\ Count("fluentbit", fails)
        /\ IF fails THEN step' = "reading" /\ UNCHANGED connection
           ELSE /\ fluentbit_socket' = "connected"
                /\ broken' = FALSE
                /\ received' = {}
                /\ UNCHANGED step
    /\ UNCHANGED <<destination_type, container, taken, next, file, got>>

\* socket() fails: fluentbit_socket holds the error, loop() gives up, and the
\* destructor's get() of an error aborts.
SocketFails ==
    /\ step = "fluentbit"
    /\ fluentbit_socket = "none"
    /\ Count("socket", TRUE)
    /\ fluentbit_socket' = "error"
    /\ step' = "aborted"
    /\ UNCHANGED <<destination_type, container, taken, next, file, broken,
                   received, got>>

\* The next line of the buffer is written to the socket.  After the peer has
\* closed, a write may still succeed, and its line is lost.
WriteLine ==
    /\ step = "fluentbit"
    /\ fluentbit_socket = "connected"
    /\ next' = next + 1
    /\ step' = IF next = taken THEN "reading" ELSE "fluentbit"
    /\ IF broken THEN UNCHANGED <<received, got>>
       ELSE /\ received' = received \cup {next}
            /\ got' = [got EXCEPT !["fluentbit"] = @ \cup {next}]
    /\ UNCHANGED <<destination_type, container, taken, file, fluentbit_socket,
                   broken, failures>>

\* Mutant: the line is dropped, and the next one tried.
WriteFailsOneLine ==
    /\ step = "fluentbit"
    /\ fluentbit_socket = "connected"
    /\ Count("fluentbit", ~broken)
    /\ next' = next + 1
    /\ step' = IF next = taken THEN "reading" ELSE "fluentbit"
    /\ UNCHANGED <<destination_type, container, taken, file, connection, got>>

\* A write fails: the socket is closed, and the rest of the buffer dropped.
WriteFails ==
    /\ step = "fluentbit"
    /\ fluentbit_socket = "connected"
    /\ Count("fluentbit", ~broken)
    /\ fluentbit_socket' = "none"
    /\ step' = "reading"
    /\ UNCHANGED <<destination_type, container, taken, next, file, broken,
                   received, got>>

PeerCloses ==
    /\ fluentbit_socket = "connected" /\ ~broken
    /\ Count("fluentbit", TRUE)
    /\ broken' = TRUE
    /\ UNCHANGED <<destination_type, container, taken, step, next, file,
                   fluentbit_socket, received, got>>

-----------------------------------------------------------------------------
write_fluentbit == Connect \/ SocketFails \/ WriteLine \/ WriteFails

loop ==
    \/ Read
    \/ ReadEnd
    \/ ReadFails
    \/ write_journald
    \/ write_logrotate
    \/ OpenFails
    \/ write_fluentbit

Next ==
    \/ ContainerWrites
    \/ ContainerExits
    \/ loop
    \/ PeerCloses

Spec == Init /\ [][Next]_vars

\* The companion's calls return: logrotate ends, and the peer reads what it is
\* sent or its connection breaks.
FairSpec == Spec /\ WF_vars(loop)

-----------------------------------------------------------------------------
(* Properties *)

\* What the members of JournaldLoggerProcess hold.
TypeOK ==
    /\ destination_type \in DestinationTypes
    /\ open \in BOOLEAN
    /\ written \in 0..MaxInput
    /\ taken \in 0..written
    /\ step \in Sinks \cup {"reading"} \cup Ends
    /\ next \in 1..taken + 1
    /\ existing \in Existing
    /\ size \in Nat
    /\ leading \in BOOLEAN
    /\ bytesWritten \in 0..MaxSize
    /\ fluentbit_socket \in {"none", "connected", "error"}
    /\ broken \in BOOLEAN
    /\ received \subseteq 1..MaxInput
    /\ got \in [Sinks -> SUBSET (1..MaxInput)]
    /\ failures \in [Kinds -> 0..MaxFaults]

\* As long as logrotate works, the leading file stays within MaxSize: by as
\* much as it held at the start, or as logrotate leaves in place below its
\* own threshold after a write that failed was counted nonetheless.
Overhang ==
    IF failures["logrotate"] = 0 \/ existing > MaxSize - BufferSize
    THEN existing ELSE MaxSize - BufferSize

SizeBounded == failures["rotate"] = 0 => size <= MaxSize + Overhang

\* "We rotate to keep files *under* the max size."
UnderMaxSize ==
    failures["rotate"] = 0 /\ existing = 0 => size <= MaxSize

\* The calls whose failure may cost sink s lines: those of the sink itself, and
\* os::open of the log file, which ends the companion before write_fluentbit.
CostLines(s) ==
    CASE s = "journald"  -> {"journald"}
      [] s = "logrotate" -> {"logrotate", "open"}
      [] s = "fluentbit" -> {"fluentbit", "socket", "open"}

\* Between two buffers, and when the companion has ended, each sink of the
\* destination has all that was read, unless a call that may cost it lines
\* failed: no failure of journald, of a write to the file, of logrotate, of
\* Fluent Bit or of the socket costs another sink a line.  A call that ends
\* the companion, the open of the log file included, costs no sink more than
\* the last buffer: what was read before it is missing only from a sink one of
\* whose own writes failed.  Sinks that are not of the destination have nothing.
Delivered ==
    \A s \in Sinks :
        IF Uses(s)
        THEN /\ step \in {"reading"} \cup Ends
                    /\ (\A k \in CostLines(s) : failures[k] = 0)
                => got[s] = 1..taken
             /\ failures[s] = 0 => 1..(next - 1) \subseteq got[s]
        ELSE got[s] = {}

\* What Fluent Bit receives over one connection has no gaps: after a line is
\* lost, nothing follows but over a new connection.
NoGaps == \A i, j \in received : i..j \subseteq received

\* Whatever the container writes is read in the end, and once it has gone the
\* companion ends, unless that has ended with an error: no failure of a sink
\* leaves the container blocked on its output.
AlwaysDrained == <>[](Ended \/ (open /\ taken = written))

=============================================================================
