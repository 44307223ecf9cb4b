-------------------------- MODULE LogWriter_proofs --------------------------
(***************************************************************************)
(* Proofs about LogWriter, for all sizes of the log file, the buffer and    *)
(* the pipe, any input, and any number of calls that fail.                  *)
(*                                                                          *)
(* The invariant says how much of the buffer each sink has at each step of  *)
(* the loop, how far the size of the leading file can be from what the      *)
(* companion counted, and where the lines of a connection end.              *)
(***************************************************************************)
EXTENDS LogWriter, FiniteSetTheorems, TLAPS

\* A step of the loop has a sink to write to, and something to write.
BufferInv ==
    step \in Sinks =>
        /\ Uses(step)
        /\ next <= taken
        /\ taken - next < BufferSize

\* The steps before or at the one that writes to sink s.
Pending(s) ==
    CASE s = "journald"  -> {"journald"}
      [] s = "logrotate" -> {"journald", "logrotate"}
      [] s = "fluentbit" -> {"logrotate", "fluentbit"}

\* A sink none of whose writes failed has all lines up to the buffer, and what
\* of the buffer has been written on; when the companion has ended, it has all
\* lines unless a call failed that ends it before it writes to the sink.
GotInv(s) ==
    IF Uses(s)
    THEN failures[s] = 0 =>
            /\ step \notin Ends =>
                got[s] = IF step \in Pending(s) THEN 1..(next - 1) ELSE 1..taken
            /\ step \in Ends =>
                /\ 1..(next - 1) \subseteq got[s]
                /\ (\A k \in CostLines(s) : failures[k] = 0) => got[s] = 1..taken
    ELSE got[s] = {}

\* Who has a connection has a use for it; it breaks by a fault, and the loop
\* comes back to it where it was.
ConnectionInv ==
    /\ fluentbit_socket # "none" => Uses("fluentbit")
    /\ failures["fluentbit"] = 0 => ~broken
    /\ fluentbit_socket = "connected" /\ step = "reading" => next = taken + 1

\* What was received ends at the line before the next.
ReceivedInv ==
    /\ \A i \in received : i < next
    /\ fluentbit_socket = "connected" /\ ~broken /\ received # {} =>
            next - 1 \in received
    /\ NoGaps

\* The file is as long as was counted, or longer by no more than the overhang.
SizeInv ==
    failures["rotate"] = 0 =>
        /\ size <= Overhang + bytesWritten
        /\ failures["logrotate"] = 0 => bytesWritten <= size

IInv ==
    /\ TypeOK
    /\ BufferInv
    /\ \A s \in Sinks : GotInv(s)
    /\ ConnectionInv
    /\ ReceivedInv
    /\ SizeInv

-----------------------------------------------------------------------------
(* What the invariant rests on *)

\* The sizes are numbers.
LEMMA Sizes ==
  /\ BufferSize \in Nat \ {0}
  /\ MaxSize \in Nat
  /\ BufferSize <= MaxSize
  /\ Existing \subseteq Nat
  /\ PipeSize \in Nat \ {0}
  /\ MaxInput \in Nat
  /\ MaxFaults \in Nat
BY SizeAssumption

\* The sinks of each destination, and its first.
LEMMA Destinations ==
  ASSUME destination_type \in DestinationTypes
  PROVE  /\ destination_type \in {"logrotate", "fluentbit", "journald",
                                  "journald+logrotate", "fluentbit+logrotate"}
         /\ Uses("journald") <=>
                destination_type \in {"journald", "journald+logrotate"}
         /\ Uses("logrotate") <=>
                destination_type \in {"logrotate", "journald+logrotate",
                                      "fluentbit+logrotate"}
         /\ Uses("fluentbit") <=>
                destination_type \in {"fluentbit", "fluentbit+logrotate"}
         /\ SinksOf(destination_type)[1] =
                IF Uses("journald") THEN "journald"
                ELSE IF Uses("logrotate") THEN "logrotate" ELSE "fluentbit"
<1>1. destination_type \in {"logrotate", "fluentbit", "journald",
                            "journald+logrotate", "fluentbit+logrotate"}
  BY DestinationAssumption
<1>2. CASE destination_type = "logrotate"
  BY <1>2 DEF SinksOf, Uses
<1>3. CASE destination_type = "fluentbit"
  BY <1>3 DEF SinksOf, Uses
<1>4. CASE destination_type = "journald"
  BY <1>4 DEF SinksOf, Uses
<1>5. CASE destination_type = "journald+logrotate"
  BY <1>5 DEF SinksOf, Uses
<1>6. CASE destination_type = "fluentbit+logrotate"
  BY <1>6 DEF SinksOf, Uses
<1> QED BY <1>1, <1>2, <1>3, <1>4, <1>5, <1>6

\* The calls of these kinds are counted, and no others.
AllCounted(kinds) ==
    /\ failures' \in [Kinds -> 0..MaxFaults]
    /\ \A j \in Kinds \ kinds : failures'[j] = failures[j]
    /\ \A j \in Kinds \cap kinds :
            failures'[j] = failures[j] + 1 /\ failures'[j] # 0

\* A call of kind k is counted if it fails.
Counted(k, fails) ==
    /\ failures' \in [Kinds -> 0..MaxFaults]
    /\ \A j \in Kinds \ {k} : failures'[j] = failures[j]
    /\ failures'[k] = IF fails THEN failures[k] + 1 ELSE failures[k]
    /\ fails => failures'[k] # 0

\* The faults that CountAll() counts stay within their bound.
LEMMA CountAllType ==
  ASSUME TypeOK, NEW kinds, CountAll(kinds)
  PROVE  AllCounted(kinds)
<1>1. \A j \in Kinds : failures[j] \in 0..MaxFaults
  BY DEF TypeOK
<1>2. failures' = [k \in Kinds |->
                    IF k \in kinds THEN failures[k] + 1 ELSE failures[k]]
  BY DEF CountAll
<1>3. CASE kinds = {}
  BY <1>1, <1>2, <1>3, Sizes DEF AllCounted
<1>4. CASE kinds # {}
  <2>1. FaultCount < MaxFaults
    BY <1>4 DEF CountAll
  <2>2. \A j \in Kinds : failures[j] + 1 \in 0..MaxFaults /\ failures[j] + 1 # 0
    BY <1>1, <2>1, Sizes DEF FaultCount, Kinds, Sinks
  <2>3. \A j \in Kinds : failures'[j] \in 0..MaxFaults
    BY <1>1, <1>2, <2>2
  <2>4. failures' \in [Kinds -> 0..MaxFaults]
    BY <1>2, <2>3
  <2> QED BY <1>2, <2>2, <2>4 DEF AllCounted
<1> QED BY <1>3, <1>4

\* So does the one that Count() counts.
LEMMA CountType ==
  ASSUME TypeOK, NEW k \in Kinds, NEW fails \in BOOLEAN, Count(k, fails)
  PROVE  Counted(k, fails)
<1>1. AllCounted({j \in {k} : fails})
  BY CountAllType DEF Count
<1>2. CASE fails
  <2>1. {j \in {k} : fails} = {k}
    BY <1>2
  <2> QED BY <1>1, <1>2, <2>1 DEF AllCounted, Counted
<1>3. CASE ~fails
  <2>1. {j \in {k} : fails} = {}
    BY <1>3
  <2> QED BY <1>1, <1>3, <2>1 DEF AllCounted, Counted
<1> QED BY <1>2, <1>3

\* The destination stays the same.
LEMMA SameUses ==
  ASSUME UNCHANGED destination_type
  PROVE  \A s \in Sinks : Uses(s)' <=> Uses(s)
BY DEF Uses

\* The buffer has as many lines as there are between its ends.
LEMMA BufferLength ==
  ASSUME TypeOK, BufferInv, step \in Sinks
  PROVE  /\ Cardinality(Buffer) = taken - next + 1
         /\ Cardinality(Buffer) \in 1..BufferSize
<1>1. taken \in Nat /\ next \in Nat /\ next <= taken /\ taken - next < BufferSize
  BY Sizes DEF TypeOK, BufferInv
<1>2. Cardinality(Buffer) = taken - next + 1
  BY <1>1, FS_Interval DEF Buffer
<1> QED BY <1>1, <1>2, Sizes

\* What is counted in the loop.
LEMMA Numbers ==
  ASSUME TypeOK
  PROVE  /\ taken \in Nat /\ next \in Nat /\ written \in Nat
         /\ size \in Nat /\ bytesWritten \in Nat /\ existing \in Nat
         /\ 1 <= next /\ next <= taken + 1
         /\ taken <= written /\ written <= MaxInput
         /\ \A s \in Sinks : got[s] \subseteq 1..MaxInput
         /\ received \subseteq 1..MaxInput
         /\ \A k \in Kinds : failures[k] \in Nat
BY Sizes DEF TypeOK

-----------------------------------------------------------------------------
(* The initial state *)

\* Nothing is read and nothing sent at first.
LEMMA InitIInv ==
  ASSUME Init PROVE IInv
<1> USE DEF Init
<1>1. TypeOK
  <2>1. got \in [Sinks -> SUBSET (1..MaxInput)]
    OBVIOUS
  <2>2. failures \in [Kinds -> 0..MaxFaults]
    BY Sizes
  <2>3. /\ taken \in 0..written /\ written \in 0..MaxInput /\ next \in 1..taken + 1
        /\ size \in Nat /\ existing \in Existing /\ bytesWritten \in 0..MaxSize
    BY Sizes
  <2>4. received \subseteq 1..MaxInput
    OBVIOUS
  <2> HIDE DEF Init
  <2>5. /\ destination_type \in DestinationTypes
        /\ open = TRUE /\ leading = FALSE /\ broken = FALSE
        /\ step = "reading" /\ fluentbit_socket = "none"
    BY DEF Init
  <2> QED BY <2>1, <2>2, <2>3, <2>4, <2>5 DEF TypeOK
<1>2. BufferInv
  BY DEF BufferInv, Sinks
<1>3. ASSUME NEW s \in Sinks PROVE GotInv(s)
  BY <1>3 DEF GotInv, Pending, Sinks
<1>4. ConnectionInv /\ ReceivedInv
  BY DEF ConnectionInv, ReceivedInv, NoGaps
<1>5. SizeInv
  BY Sizes DEF SizeInv, Overhang, Kinds, Sinks
<1> QED BY <1>1, <1>2, <1>3, <1>4, <1>5 DEF IInv

-----------------------------------------------------------------------------
(* The container *)

\* A container that writes changes nothing but what is to read.
LEMMA ContainerWritesIInv ==
  ASSUME IInv, ContainerWrites PROVE IInv'
<1> TypeOK /\ BufferInv /\ ConnectionInv /\ ReceivedInv /\ SizeInv
  BY DEF IInv
<1> \A s \in Sinks : GotInv(s)
  BY DEF IInv
<1>1. TypeOK'
  BY Sizes DEF ContainerWrites, file, connection, TypeOK, Sinks, Kinds, Ends
<1>2. BufferInv'
  BY Sizes DEF ContainerWrites, file, connection, BufferInv, TypeOK, Uses, Sinks
<1>3. ASSUME NEW s \in Sinks PROVE GotInv(s)'
  BY <1>3 DEF ContainerWrites, file, connection, GotInv, Uses, Pending, TypeOK,
         Sinks, Kinds, Ends
<1>4. ConnectionInv'
  BY SameUses DEF ContainerWrites, file, connection, ConnectionInv, Sinks
<1>5. ReceivedInv'
  BY DEF ContainerWrites, file, connection, ReceivedInv, NoGaps, TypeOK
<1>6. SizeInv'
  BY DEF ContainerWrites, file, connection, SizeInv, Overhang, file, TypeOK
<1> QED BY <1>1, <1>2, <1>3, <1>4, <1>5, <1>6 DEF IInv

\* Nor does one that exits.
LEMMA ContainerExitsIInv ==
  ASSUME IInv, ContainerExits PROVE IInv'
<1> TypeOK /\ BufferInv /\ ConnectionInv /\ ReceivedInv /\ SizeInv
  BY DEF IInv
<1> \A s \in Sinks : GotInv(s)
  BY DEF IInv
<1>1. TypeOK'
  BY Sizes DEF ContainerExits, file, connection, TypeOK, Sinks, Kinds, Ends
<1>2. BufferInv'
  BY Sizes DEF ContainerExits, file, connection, BufferInv, TypeOK, Uses, Sinks
<1>3. ASSUME NEW s \in Sinks PROVE GotInv(s)'
  BY <1>3 DEF ContainerExits, file, connection, GotInv, Uses, Pending, TypeOK,
         Sinks, Kinds, Ends
<1>4. ConnectionInv'
  BY SameUses DEF ContainerExits, file, connection, ConnectionInv, Sinks
<1>5. ReceivedInv'
  BY DEF ContainerExits, file, connection, ReceivedInv, NoGaps, TypeOK
<1>6. SizeInv'
  BY DEF ContainerExits, file, connection, SizeInv, Overhang, file, TypeOK
<1> QED BY <1>1, <1>2, <1>3, <1>4, <1>5, <1>6 DEF IInv

-----------------------------------------------------------------------------
(* loop() *)

\* What was read becomes the buffer.
LEMMA ReadIInv ==
  ASSUME IInv, Read PROVE IInv'
<1> TypeOK /\ BufferInv /\ ConnectionInv /\ ReceivedInv /\ SizeInv
  BY DEF IInv
<1> \A s \in Sinks : GotInv(s)
  BY DEF IInv
<1>0. /\ step' = IF Uses("journald") THEN "journald"
                 ELSE IF Uses("logrotate") THEN "logrotate" ELSE "fluentbit"
      /\ step' \in Sinks /\ Uses(step')
      /\ Uses("fluentbit") => ~Uses("journald")
  BY Destinations DEF Read, TypeOK, Sinks
<1>a. /\ step = "reading" /\ next' = taken + 1
      /\ taken' \in Nat /\ taken < taken' /\ taken' <= written
      /\ taken' - taken <= BufferSize
  BY Sizes, Numbers DEF Read
<1>b. UNCHANGED <<destination_type, container, file, connection, got, failures>>
  BY DEF Read
<1>1. TypeOK'
  <2>1. taken' \in 0..written /\ next' \in 1..taken' + 1
    BY <1>a, Numbers
  <2> QED BY <1>0, <1>b, <2>1 DEF container, file, connection, TypeOK
<1>2. BufferInv'
  BY <1>0, <1>a, <1>b, Sizes, Numbers, SameUses DEF BufferInv
<1>3. ASSUME NEW s \in Sinks PROVE GotInv(s)'
  BY <1>0, <1>a, <1>b, <1>3, Numbers, SameUses DEF GotInv, Pending, Sinks, Ends
<1>4. ConnectionInv'
  BY <1>0, <1>b, SameUses DEF connection, ConnectionInv, Sinks
<1>5. ReceivedInv'
  BY <1>a, <1>b, Numbers DEF connection, ReceivedInv, NoGaps, ConnectionInv
<1>6. SizeInv'
  BY <1>b DEF file, SizeInv, Overhang
<1> QED BY <1>1, <1>2, <1>3, <1>4, <1>5, <1>6 DEF IInv

\* At the end of the file the companion exits.
LEMMA ReadEndIInv ==
  ASSUME IInv, ReadEnd PROVE IInv'
<1> TypeOK /\ BufferInv /\ ConnectionInv /\ ReceivedInv /\ SizeInv
  BY DEF IInv
<1> \A s \in Sinks : GotInv(s)
  BY DEF IInv
<1>1. TypeOK'
  BY Sizes DEF ReadEnd, container, file, connection, TypeOK, Sinks, Kinds, Ends
<1>2. BufferInv'
  BY Sizes DEF ReadEnd, container, file, connection, BufferInv, TypeOK, Uses, Sinks
<1>3. ASSUME NEW s \in Sinks PROVE GotInv(s)'
  BY <1>3 DEF ReadEnd, container, file, connection, GotInv, Uses, Pending,
         TypeOK, Sinks, Kinds, Ends
<1>4. ConnectionInv'
  BY SameUses DEF ReadEnd, container, file, connection, ConnectionInv, Sinks
<1>5. ReceivedInv'
  BY DEF ReadEnd, container, file, connection, ReceivedInv, NoGaps, TypeOK
<1>6. SizeInv'
  BY DEF ReadEnd, container, file, connection, SizeInv, Overhang, file, TypeOK
<1> QED BY <1>1, <1>2, <1>3, <1>4, <1>5, <1>6 DEF IInv

\* Without its input the companion fails.
LEMMA ReadFailsIInv ==
  ASSUME IInv, ReadFails PROVE IInv'
<1> TypeOK /\ BufferInv /\ ConnectionInv /\ ReceivedInv /\ SizeInv
  BY DEF IInv
<1> \A s \in Sinks : GotInv(s)
  BY DEF IInv
<1>0. Counted("read", TRUE)
  BY CountType DEF ReadFails, Kinds, Sinks
<1> UNCHANGED destination_type
  BY DEF ReadFails
<1>1. TypeOK'
  BY <1>0, Sizes, Numbers DEF ReadFails, container, file, connection, Counted, TypeOK, Ends
<1>2. BufferInv'
  BY SameUses DEF ReadFails, container, file, connection, BufferInv, Sinks, Ends
<1>3. ASSUME NEW s \in Sinks PROVE GotInv(s)'
  <2>1. /\ Uses(s)' <=> Uses(s)
        /\ failures'[s] = failures[s]
        /\ got'[s] = got[s] /\ taken' = taken /\ next' = next
    BY <1>0, SameUses DEF ReadFails, container, Counted, Kinds, Sinks
  <2>2. step = "reading" /\ step \notin Pending(s) /\ step \notin Ends
    BY DEF ReadFails, Pending, Sinks, Ends
  <2>3. 1..(next - 1) \subseteq 1..taken
    BY Numbers
  <2>4. step' \in Ends
    BY DEF ReadFails, Ends
  <2> QED BY <2>1, <2>2, <2>3, <2>4 DEF GotInv
<1>4. ConnectionInv'
  BY <1>0, SameUses, Numbers DEF ReadFails, container, file, connection,
         Counted, ConnectionInv, BufferInv, Kinds, Sinks
<1>5. ReceivedInv'
  BY DEF ReadFails, container, file, connection, ReceivedInv, NoGaps
<1>6. SizeInv'
  BY <1>0 DEF ReadFails, container, file, connection, Counted, SizeInv,
         Overhang, Kinds, Sinks
<1> QED BY <1>1, <1>2, <1>3, <1>4, <1>5, <1>6 DEF IInv

\* All of the buffer is sent to journald, or a failure is counted.
LEMMA write_journaldIInv ==
  ASSUME IInv, write_journald PROVE IInv'
<1> TypeOK /\ BufferInv /\ ConnectionInv /\ ReceivedInv /\ SizeInv
  BY DEF IInv
<1> \A s \in Sinks : GotInv(s)
  BY DEF IInv
<1>0. PICK lines \in SUBSET Buffer :
            /\ got' = [got EXCEPT !["journald"] = @ \cup lines]
            /\ Counted("journald", lines # Buffer)
  BY CountType DEF write_journald, Kinds, Sinks
<1>a. /\ step = "journald" /\ Uses("journald") /\ ~Uses("fluentbit")
      /\ step' = IF Uses("logrotate") THEN "logrotate" ELSE "reading"
  BY Destinations DEF write_journald, NextStep, BufferInv, Sinks, TypeOK
<1>b. UNCHANGED <<destination_type, container, taken, next, file, connection>>
  BY DEF write_journald
<1>c. next <= taken /\ taken - next < BufferSize
  BY <1>a DEF BufferInv, Sinks
<1>d. Buffer \subseteq 1..MaxInput
  BY Numbers, Sizes DEF Buffer
<1>1. TypeOK'
  <2>1. got' \in [Sinks -> SUBSET (1..MaxInput)]
    BY <1>0, <1>d DEF TypeOK
  <2> QED BY <1>0, <1>a, <1>b, <2>1 DEF Counted, container, file, connection, TypeOK, Sinks
<1>2. BufferInv'
  BY <1>a, <1>b, <1>c, SameUses DEF BufferInv, Sinks
<1>3. ASSUME NEW s \in Sinks PROVE GotInv(s)'
  <2>1. Uses(s)' <=> Uses(s)
    BY <1>b, SameUses
  <2>2. CASE s = "journald"
    <3>1. failures'[s] = 0 => failures[s] = 0 /\ lines = Buffer
      BY <1>0, <2>2, Numbers DEF Counted, Kinds, Sinks
    <3>2. got'[s] = got[s] \cup lines
      BY <1>0, <2>2 DEF TypeOK, Sinks
    <3>3. (1..(next - 1)) \cup Buffer = 1..taken
      BY <1>c, Numbers DEF Buffer
    <3> QED BY <1>a, <1>b, <2>1, <2>2, <3>1, <3>2, <3>3 DEF GotInv, Pending, Ends, Sinks
  <2>3. CASE s # "journald"
    <3>1. got'[s] = got[s] /\ failures'[s] = failures[s]
      BY <1>0, <2>3 DEF Counted, TypeOK, Kinds, Sinks
    <3> QED BY <1>a, <1>b, <2>1, <2>3, <3>1 DEF GotInv, Pending, Ends, Sinks
  <2> QED BY <2>2, <2>3
<1>4. ConnectionInv'
  BY <1>0, <1>a, <1>b, Destinations, SameUses DEF Counted, connection,
         ConnectionInv, TypeOK, Kinds, Sinks
<1>5. ReceivedInv'
  BY <1>b DEF connection, ReceivedInv, NoGaps
<1>6. SizeInv'
  BY <1>0, <1>b DEF Counted, file, SizeInv, Overhang, Kinds, Sinks
<1> QED BY <1>1, <1>2, <1>3, <1>4, <1>5, <1>6 DEF IInv

\* The file is rotated before it could get longer than it may.
LEMMA write_logrotateIInv ==
  ASSUME IInv, write_logrotate PROVE IInv'
<1> TypeOK /\ BufferInv /\ ConnectionInv /\ ReceivedInv /\ SizeInv
  BY DEF IInv
<1> \A s \in Sinks : GotInv(s)
  BY DEF IInv
<1> DEFINE b == Cardinality(Buffer)
<1>a. /\ step = "logrotate" /\ Uses("logrotate")
      /\ step' = IF Uses("fluentbit") THEN "fluentbit" ELSE "reading"
  BY Destinations DEF write_logrotate, NextStep, BufferInv, Sinks, TypeOK
<1>b. b = taken - next + 1 /\ b \in 1..BufferSize /\ next <= taken
  BY <1>a, BufferLength DEF Sinks, BufferInv
<1> HIDE DEF b
<1> DEFINE failing(works, n) == {k \in {"rotate"} : ~works}
                                    \cup {k \in {"logrotate"} : n < b}
<1>c. PICK works \in BOOLEAN, n \in 0..b :
            /\ works \/ MustRotate
            /\ size' = SizeAfter(works) + n
            /\ got' = [got EXCEPT !["logrotate"] = @ \cup next..(next + n - 1)]
            /\ AllCounted(failing(works, n))
  <2>1. PICK works \in BOOLEAN, n \in 0..b :
            /\ works \/ MustRotate
            /\ size' = SizeAfter(works) + n
            /\ got' = [got EXCEPT !["logrotate"] = @ \cup next..(next + n - 1)]
            /\ CountAll(failing(works, n))
    BY DEF write_logrotate, b
  <2>2. AllCounted(failing(works, n))
    BY <2>1, CountAllType
  <2> QED BY <2>1, <2>2
<1>d. /\ leading' = TRUE
      /\ bytesWritten' = (IF MustRotate THEN 0 ELSE bytesWritten) + b
      /\ MustRotate <=> bytesWritten + b > MaxSize
      /\ UNCHANGED <<destination_type, container, taken, next, existing, connection>>
  BY DEF write_logrotate, MustRotate, b
<1>e. /\ n \in Nat /\ n <= b /\ SizeAfter(works) \in Nat
      /\ next..(next + n - 1) \subseteq 1..MaxInput
      /\ n = b => next..(next + n - 1) = next..taken
  <2>1. n \in Nat /\ n <= b /\ SizeAfter(works) \in Nat
    BY <1>b, <1>c, Numbers DEF SizeAfter
  <2>2. next + n - 1 <= taken /\ (n = b => next + n - 1 = taken)
    BY <1>b, <2>1, Numbers
  <2>3. next..(next + n - 1) \subseteq 1..MaxInput
    BY <2>1, <2>2, Numbers, Sizes
  <2> QED BY <2>1, <2>2, <2>3
<1>f. /\ failures' \in [Kinds -> 0..MaxFaults]
      /\ \A k \in Kinds \ {"logrotate", "rotate"} : failures'[k] = failures[k]
      /\ failures'["logrotate"] = 0 => failures["logrotate"] = 0 /\ n = b
      /\ failures'["rotate"] = 0 => works /\ failures["rotate"] = 0
      /\ failures["logrotate"] # 0 => failures'["logrotate"] # 0
  <2>1. "logrotate" \in Kinds /\ "rotate" \in Kinds
    BY DEF Kinds, Sinks
  <2>2. failures["logrotate"] \in Nat /\ failures["rotate"] \in Nat
    BY <2>1, Numbers
  <2>3. \/ failures'["logrotate"] = failures["logrotate"] /\ n = b
        \/ failures'["logrotate"] = failures["logrotate"] + 1
    <3>1. CASE n < b
      BY <1>c, <2>1, <3>1 DEF AllCounted
    <3>2. CASE ~(n < b)
      BY <1>b, <1>c, <1>e, <2>1, <3>2 DEF AllCounted
    <3> QED BY <3>1, <3>2
  <2>4. \/ failures'["rotate"] = failures["rotate"] /\ works
        \/ failures'["rotate"] = failures["rotate"] + 1
    <3>1. CASE works
      BY <1>c, <2>1, <3>1 DEF AllCounted
    <3>2. CASE ~works
      BY <1>c, <2>1, <3>2 DEF AllCounted
    <3> QED BY <3>1, <3>2
  <2> QED BY <1>c, <2>2, <2>3, <2>4 DEF AllCounted
<1>1. TypeOK'
  <2>1. got' \in [Sinks -> SUBSET (1..MaxInput)]
    BY <1>c, <1>e DEF TypeOK
  <2>2. bytesWritten' \in 0..MaxSize
    <3>1. CASE MustRotate
      BY <1>b, <1>d, <3>1, Sizes
    <3>2. CASE ~MustRotate
      BY <1>b, <1>d, <3>2, Numbers, Sizes
    <3> QED BY <3>1, <3>2
  <2>3. size' \in Nat
    BY <1>c, <1>e
  <2> QED BY <1>a, <1>d, <1>f, <2>1, <2>2, <2>3 DEF container, connection, TypeOK, Sinks
<1>2. BufferInv'
  BY <1>a, <1>d, SameUses DEF BufferInv, Sinks
<1>3. ASSUME NEW s \in Sinks PROVE GotInv(s)'
  <2>1. Uses(s)' <=> Uses(s)
    BY <1>d, SameUses
  <2>2. CASE s = "logrotate"
    <3>1. failures'[s] = 0 => got'[s] = got[s] \cup next..taken
      BY <1>c, <1>e, <1>f, <2>2 DEF TypeOK, Sinks
    <3>2. (1..(next - 1)) \cup next..taken = 1..taken
      BY <1>b, Numbers
    <3> QED BY <1>a, <1>d, <1>f, <2>1, <2>2, <3>1, <3>2 DEF GotInv, Pending, Ends, Sinks
  <2>3. CASE s # "logrotate"
    <3>1. got'[s] = got[s] /\ failures'[s] = failures[s]
      BY <1>c, <1>f, <2>3 DEF TypeOK, Kinds, Sinks
    <3> QED BY <1>a, <1>d, <2>1, <2>3, <3>1 DEF GotInv, Pending, Ends, Sinks
  <2> QED BY <2>2, <2>3
<1>4. ConnectionInv'
  <2>1. step' = "reading" => fluentbit_socket # "connected"
    BY <1>a, <1>d DEF ConnectionInv, connection
  <2> QED BY <1>d, <1>f, <2>1, SameUses DEF connection, ConnectionInv, Kinds, Sinks
<1>5. ReceivedInv'
  BY <1>d DEF connection, ReceivedInv, NoGaps
<1>6. SizeInv'
  <2> SUFFICES ASSUME failures'["rotate"] = 0
               PROVE  /\ size' <= Overhang' + bytesWritten'
                      /\ failures'["logrotate"] = 0 => bytesWritten' <= size'
    BY DEF SizeInv
  <2>1. /\ size <= Overhang + bytesWritten
        /\ failures["logrotate"] = 0 => bytesWritten <= size
        /\ works
    BY <1>f DEF SizeInv
  <2>2. Overhang \in Nat /\ Overhang' \in Nat /\ Overhang <= Overhang'
    BY <1>d, <1>f, Numbers, Sizes DEF Overhang
  <2>3. CASE ~MustRotate
    <3>1. size' = size + n /\ bytesWritten' = bytesWritten + b
      BY <1>c, <1>d, <2>3 DEF SizeAfter
    <3>2. /\ size \in Nat /\ bytesWritten \in Nat /\ b \in Nat /\ n \in Nat
          /\ n <= b
      BY <1>b, <1>e, Numbers
    <3>3. size' <= Overhang' + bytesWritten'
      <4> DEFINE o == Overhang'
      <4>1. size <= o + bytesWritten /\ o \in Nat
        <5> DEFINE p == Overhang
        <5>1. p \in Nat /\ o \in Nat /\ p <= o /\ size <= p + bytesWritten
          BY <2>1, <2>2
        <5> HIDE DEF o, p
        <5> QED BY <3>2, <5>1
      <4> HIDE DEF o
      <4>2. size + n <= o + (bytesWritten + b)
        BY <3>2, <4>1
      <4> QED BY <3>1, <4>2 DEF o
    <3>4. failures'["logrotate"] = 0 => bytesWritten' <= size'
      BY <1>f, <2>1, <3>1, <3>2
    <3> QED BY <3>3, <3>4
  <2>4. CASE MustRotate /\ Exceeds
    <3>1. size' = n /\ bytesWritten' = b
      BY <1>b, <1>c, <1>d, <1>e, <2>1, <2>4 DEF SizeAfter
    <3> QED BY <1>b, <1>e, <1>f, <2>2, <3>1
  <2>5. CASE MustRotate /\ ~Exceeds
    <3>1. size <= MaxSize - BufferSize
      BY <2>5, Numbers, Sizes DEF Exceeds
    <3>2. failures["logrotate"] # 0
      BY <1>b, <1>d, <2>1, <2>5, <3>1, Numbers, Sizes
    <3>3. size <= Overhang'
      BY <1>d, <1>f, <3>1, <3>2, Numbers, Sizes DEF Overhang
    <3>4. size' = size + n /\ bytesWritten' = b
      BY <1>b, <1>c, <1>d, <2>5 DEF SizeAfter
    <3> QED BY <1>b, <1>e, <1>f, <2>2, <3>2, <3>3, <3>4, Numbers
  <2> QED BY <2>3, <2>4, <2>5
<1> QED BY <1>1, <1>2, <1>3, <1>4, <1>5, <1>6 DEF IInv

\* Without a file the companion fails.
LEMMA OpenFailsIInv ==
  ASSUME IInv, OpenFails PROVE IInv'
<1> TypeOK /\ BufferInv /\ ConnectionInv /\ ReceivedInv /\ SizeInv
  BY DEF IInv
<1> \A s \in Sinks : GotInv(s)
  BY DEF IInv
<1>p. PICK works \in BOOLEAN :
            /\ size' = SizeAfter(works)
            /\ AllCounted({"open"} \cup {k \in {"rotate"} : ~works})
  BY CountAllType DEF OpenFails
<1>0. /\ failures' \in [Kinds -> 0..MaxFaults]
      /\ \A k \in Kinds \ {"open", "rotate"} : failures'[k] = failures[k]
      /\ failures'["open"] # 0
      /\ failures'["rotate"] = 0 => works /\ failures["rotate"] = 0
  <2>1. "open" \in Kinds /\ "rotate" \in Kinds
    BY DEF Kinds
  <2>2. CASE works
    BY <1>p, <2>1, <2>2 DEF AllCounted
  <2>3. CASE ~works
    BY <1>p, <2>1, <2>3 DEF AllCounted
  <2>4. failures'["open"] # 0
    BY <1>p, <2>1 DEF AllCounted
  <2>5. failures' \in [Kinds -> 0..MaxFaults]
    BY <1>p DEF AllCounted
  <2> QED BY <1>p, <2>2, <2>3, <2>4, <2>5 DEF AllCounted
<1>a. /\ step = "logrotate" /\ step' = "failed" /\ leading' = FALSE
      /\ bytesWritten' = IF MustRotate THEN 0 ELSE bytesWritten
      /\ UNCHANGED <<destination_type, container, taken, next, existing,
                     connection, got>>
  BY DEF OpenFails
<1>1. TypeOK'
  <2>1. size' \in Nat /\ bytesWritten' \in 0..MaxSize
    BY <1>a, <1>p, Numbers, Sizes DEF SizeAfter, TypeOK
  <2> QED BY <1>0, <1>a, <2>1 DEF container, connection, TypeOK, Ends
<1>2. BufferInv'
  BY <1>a DEF BufferInv, Sinks
<1>3. ASSUME NEW s \in Sinks PROVE GotInv(s)'
  <2>1. Uses(s)' <=> Uses(s)
    BY <1>a, SameUses
  <2>2. failures'[s] = failures[s]
    BY <1>0 DEF Kinds, Sinks
  <2>3. s # "journald" => \E k \in CostLines(s) : failures'[k] # 0
    BY <1>0 DEF CostLines, Sinks
  <2>4. got[s] = 1..taken \/ got[s] = 1..(next - 1) => 1..(next - 1) \subseteq got[s]
    BY Numbers
  <2>5. Uses(s) /\ s = "journald" /\ failures[s] = 0 => got[s] = 1..taken
    BY <1>a DEF GotInv, Pending, Ends
  <2>6. Uses(s) /\ failures[s] = 0 => got[s] = 1..taken \/ got[s] = 1..(next - 1)
    BY <1>a DEF GotInv, Ends
  <2>7. CostLines(s)' = CostLines(s)
    BY DEF CostLines
  <2> QED BY <1>a, <2>1, <2>2, <2>3, <2>4, <2>5, <2>6, <2>7 DEF GotInv, Ends
<1>4. ConnectionInv'
  BY <1>0, <1>a, SameUses DEF connection, ConnectionInv, Kinds, Sinks
<1>5. ReceivedInv'
  BY <1>a DEF connection, ReceivedInv, NoGaps
<1>6. SizeInv'
  <2> SUFFICES ASSUME failures'["rotate"] = 0
               PROVE  /\ size' <= Overhang' + bytesWritten'
                      /\ failures'["logrotate"] = 0 => bytesWritten' <= size'
    BY DEF SizeInv
  <2>1. /\ failures["rotate"] = 0 /\ failures'["logrotate"] = failures["logrotate"]
        /\ Overhang' = Overhang /\ Overhang \in Nat
    BY <1>0, <1>a, Numbers, Sizes DEF Overhang, Kinds, Sinks
  <2>a. size' = SizeAfter(TRUE)
    BY <1>0, <1>p
  <2>2. /\ size <= Overhang + bytesWritten
        /\ failures["logrotate"] = 0 => bytesWritten <= size
    BY <2>1 DEF SizeInv
  <2>3. CASE ~(MustRotate /\ ~Exceeds)
    <3>1. CASE ~MustRotate
      <4>1. size' = size /\ bytesWritten' = bytesWritten
        BY <1>a, <2>a, <3>1 DEF SizeAfter
      <4> QED BY <2>1, <2>2, <4>1
    <3>2. CASE MustRotate /\ Exceeds
      <4>1. size' = 0 /\ bytesWritten' = 0
        BY <1>a, <2>a, <3>2 DEF SizeAfter
      <4> QED BY <2>1, <4>1
    <3> QED BY <2>3, <3>1, <3>2
  <2>4. CASE MustRotate /\ ~Exceeds
    <3>1. size <= MaxSize - BufferSize
      BY <2>4, Numbers, Sizes DEF Exceeds
    <3>2. /\ bytesWritten + Cardinality(Buffer) > MaxSize
          /\ Cardinality(Buffer) \in 1..BufferSize
      BY <1>a, <2>4, BufferLength DEF MustRotate, Sinks
    <3>3. failures["logrotate"] # 0
      BY <2>2, <3>1, <3>2, Numbers, Sizes
    <3>4. size <= Overhang
      BY <3>1, <3>3, Numbers, Sizes DEF Overhang
    <3> QED BY <1>a, <2>1, <2>a, <2>4, <3>3, <3>4, Numbers DEF SizeAfter
  <2> QED BY <2>3, <2>4
<1> QED BY <1>1, <1>2, <1>3, <1>4, <1>5, <1>6 DEF IInv

-----------------------------------------------------------------------------
(* Fluent Bit *)

\* A new connection has received nothing.
LEMMA ConnectIInv ==
  ASSUME IInv, Connect PROVE IInv'
<1> TypeOK /\ BufferInv /\ ConnectionInv /\ ReceivedInv /\ SizeInv
  BY DEF IInv
<1> \A s \in Sinks : GotInv(s)
  BY DEF IInv
<1>0. PICK fails \in BOOLEAN :
            /\ Counted("fluentbit", fails)
            /\ IF fails THEN step' = "reading" /\ UNCHANGED connection
               ELSE /\ fluentbit_socket' = "connected"
                    /\ broken' = FALSE
                    /\ received' = {}
                    /\ UNCHANGED step
  BY CountType DEF Connect, Kinds, Sinks
<1>a. /\ step = "fluentbit" /\ fluentbit_socket = "none"
      /\ UNCHANGED <<destination_type, container, taken, next, file, got>>
  BY DEF Connect
<1>b. Uses("fluentbit") /\ ("fluentbit" \in Sinks)
  BY <1>a DEF BufferInv, Sinks
<1>1. TypeOK'
  BY <1>0, <1>a DEF Counted, container, file, connection, TypeOK
<1>2. BufferInv'
  BY <1>0, <1>a, SameUses DEF BufferInv, Sinks
<1>3. ASSUME NEW s \in Sinks PROVE GotInv(s)'
  BY <1>0, <1>a, <1>3, SameUses, Numbers DEF Counted, GotInv, Pending, Sinks, Kinds, Ends
<1>4. ConnectionInv'
  <2>1. failures'["fluentbit"] = 0 => failures["fluentbit"] = 0
    BY <1>0, <1>b, Numbers DEF Counted, Kinds
  <2> QED BY <1>0, <1>a, <1>b, <2>1, SameUses DEF connection, ConnectionInv
<1>5. ReceivedInv'
  BY <1>0, <1>a DEF connection, ReceivedInv, NoGaps
<1>6. SizeInv'
  BY <1>0, <1>a DEF Counted, file, SizeInv, Overhang, Kinds, Sinks
<1> QED BY <1>1, <1>2, <1>3, <1>4, <1>5, <1>6 DEF IInv

\* Without a socket it aborts.
LEMMA SocketFailsIInv ==
  ASSUME IInv, SocketFails PROVE IInv'
<1> TypeOK /\ BufferInv /\ ConnectionInv /\ ReceivedInv /\ SizeInv
  BY DEF IInv
<1> \A s \in Sinks : GotInv(s)
  BY DEF IInv
<1>0. Counted("socket", TRUE)
  BY CountType DEF SocketFails, Kinds, Sinks
<1> UNCHANGED destination_type
  BY DEF SocketFails
<1>1. TypeOK'
  BY <1>0, Sizes, Numbers DEF SocketFails, container, file, Counted, TypeOK, Ends
<1>2. BufferInv'
  BY SameUses DEF SocketFails, container, file, BufferInv, Sinks, Ends
<1>3. ASSUME NEW s \in Sinks PROVE GotInv(s)'
  <2>1. /\ Uses(s)' <=> Uses(s)
        /\ failures'[s] = failures[s]
        /\ got'[s] = got[s] /\ taken' = taken /\ next' = next
    BY <1>0, SameUses DEF SocketFails, container, Counted, Kinds, Sinks
  <2>2. step = "fluentbit" /\ step \notin Ends /\ ~Uses("journald")
    BY Destinations DEF SocketFails, BufferInv, Sinks, Ends, TypeOK
  <2>3. 1..(next - 1) \subseteq 1..taken
    BY Numbers
  <2>4. step' \in Ends
    BY DEF SocketFails, Ends
  <2>5. CASE s = "fluentbit"
    <3>1. ~(\A k \in CostLines(s)' : failures'[k] = 0)
      BY <1>0, <2>5 DEF CostLines, Counted
    <3> QED BY <2>1, <2>2, <2>3, <2>4, <2>5, <3>1 DEF GotInv, Pending
  <2>6. CASE s = "logrotate"
    <3>1. step \notin Pending(s)
      BY <2>2, <2>6 DEF Pending
    <3> QED BY <2>1, <2>2, <2>3, <2>4, <3>1 DEF GotInv
  <2>7. CASE s = "journald"
    BY <2>1, <2>2, <2>7 DEF GotInv
  <2> QED BY <2>5, <2>6, <2>7 DEF Sinks
<1>4. ConnectionInv'
  BY <1>0, SameUses, Numbers DEF SocketFails, container, file, Counted,
         ConnectionInv, BufferInv, Kinds, Sinks
<1>5. ReceivedInv'
  BY DEF SocketFails, container, file, ReceivedInv, NoGaps
<1>6. SizeInv'
  BY <1>0 DEF SocketFails, container, file, Counted, SizeInv, Overhang, Kinds, Sinks
<1> QED BY <1>1, <1>2, <1>3, <1>4, <1>5, <1>6 DEF IInv

\* A line follows the last one.
LEMMA WriteLineIInv ==
  ASSUME IInv, WriteLine PROVE IInv'
<1> TypeOK /\ BufferInv /\ ConnectionInv /\ ReceivedInv /\ SizeInv
  BY DEF IInv
<1> \A s \in Sinks : GotInv(s)
  BY DEF IInv
<1>0. /\ step = "fluentbit" /\ Uses("fluentbit") /\ ~Uses("journald")
      /\ next <= taken /\ taken - next < BufferSize
  BY Destinations DEF WriteLine, BufferInv, Sinks, TypeOK
<1>a. /\ fluentbit_socket = "connected" /\ next' = next + 1
      /\ step' = IF next = taken THEN "reading" ELSE "fluentbit"
      /\ UNCHANGED <<destination_type, container, taken, file, fluentbit_socket,
                     broken, failures>>
  BY DEF WriteLine
<1>b. IF broken THEN UNCHANGED <<received, got>>
      ELSE /\ received' = received \cup {next}
           /\ got' = [got EXCEPT !["fluentbit"] = @ \cup {next}]
  BY DEF WriteLine
<1>c. next \in 1..MaxInput
  BY <1>0, Numbers, Sizes
<1>1. TypeOK'
  <2>1. got' \in [Sinks -> SUBSET (1..MaxInput)] /\ received' \subseteq 1..MaxInput
    BY <1>b, <1>c DEF TypeOK
  <2>2. next' \in 1..taken' + 1
    BY <1>0, <1>a, Numbers
  <2> QED BY <1>a, <2>1, <2>2 DEF container, file, TypeOK, Sinks
<1>2. BufferInv'
  BY <1>0, <1>a, Numbers, Sizes, SameUses DEF BufferInv, Sinks
<1>3. ASSUME NEW s \in Sinks PROVE GotInv(s)'
  <2>1. Uses(s)' <=> Uses(s)
    BY <1>a, SameUses
  <2>2. CASE s = "fluentbit"
    <3>1. failures'[s] = 0 => failures[s] = 0 /\ got'[s] = got[s] \cup {next}
      BY <1>a, <1>b, <2>2 DEF TypeOK, ConnectionInv, Sinks
    <3>2. (1..(next - 1)) \cup {next} = 1..(next' - 1)
      BY <1>a, Numbers
    <3>3. step' = "reading" => next' - 1 = taken'
      BY <1>a, Numbers
    <3> QED BY <1>0, <1>a, <2>1, <2>2, <3>1, <3>2, <3>3 DEF GotInv, Pending, Ends, Sinks
  <2>3. CASE s # "fluentbit"
    <3>1. got'[s] = got[s]
      BY <1>b, <2>3 DEF TypeOK, Sinks
    <3> QED BY <1>0, <1>a, <2>1, <2>3, <3>1 DEF GotInv, Pending, Ends, Sinks
  <2> QED BY <2>2, <2>3
<1>4. ConnectionInv'
  BY <1>0, <1>a, SameUses, Numbers DEF ConnectionInv, Sinks
<1>5. ReceivedInv'
  <2>1. /\ \A i \in received : i < next /\ i \in Nat
        /\ \A i, j \in received : i..j \subseteq received
    BY Numbers DEF ReceivedInv, NoGaps
  <2>2. CASE broken
    BY <1>a, <1>b, <2>1, <2>2, Numbers DEF ReceivedInv, NoGaps
  <2>3. CASE ~broken
    <3>1. received' = received \cup {next}
      BY <1>b, <2>3
    <3>2. ASSUME NEW i \in received' PROVE i < next'
      BY <1>a, <2>1, <3>1, <3>2, Numbers
    <3>3. ASSUME NEW i \in received', NEW j \in received', NEW k \in i..j
          PROVE  k \in received'
      <4>1. CASE j \in received
        BY <2>1, <3>1, <3>3, <4>1, Numbers
      <4>2. CASE j = next /\ i \in received
        <5>1. next - 1 \in received
          BY <1>a, <2>3, <4>2 DEF ReceivedInv
        <5>2. k = next \/ k \in i..(next - 1)
          BY <2>1, <3>3, <4>2, Numbers
        <5> QED BY <2>1, <3>1, <4>2, <5>1, <5>2
      <4>3. CASE j = next /\ i = next
        BY <3>1, <3>3, <4>3, Numbers
      <4> QED BY <3>1, <4>1, <4>2, <4>3
    <3>4. next' - 1 \in received'
      BY <1>a, <3>1, Numbers
    <3> QED BY <3>2, <3>3, <3>4 DEF ReceivedInv, NoGaps
  <2> QED BY <2>2, <2>3
<1>6. SizeInv'
  BY <1>a DEF file, SizeInv, Overhang
<1> QED BY <1>1, <1>2, <1>3, <1>4, <1>5, <1>6 DEF IInv

\* What is left of the buffer is lost with the connection.
LEMMA WriteFailsIInv ==
  ASSUME IInv, WriteFails PROVE IInv'
<1> TypeOK /\ BufferInv /\ ConnectionInv /\ ReceivedInv /\ SizeInv
  BY DEF IInv
<1> \A s \in Sinks : GotInv(s)
  BY DEF IInv
<1>0. Counted("fluentbit", ~broken)
  BY CountType DEF WriteFails, Kinds, Sinks
<1> UNCHANGED destination_type
  BY DEF WriteFails
<1>1. TypeOK'
  BY <1>0, Sizes, Numbers DEF WriteFails, container, file, Counted, TypeOK, Ends
<1>2. BufferInv'
  BY SameUses DEF WriteFails, container, file, BufferInv, Sinks, Ends
<1>3. ASSUME NEW s \in Sinks PROVE GotInv(s)'
  <2>1. failures'["fluentbit"] # 0
    BY <1>0, Numbers DEF WriteFails, container, file, Counted, ConnectionInv, Kinds, Sinks
  <2> QED
    BY <1>0, <1>3, <2>1, SameUses DEF WriteFails, container, file, Counted,
           GotInv, Pending, Sinks, Kinds, Ends
<1>4. ConnectionInv'
  BY <1>0, SameUses, Numbers DEF WriteFails, container, file, Counted,
         ConnectionInv, BufferInv, Kinds, Sinks
<1>5. ReceivedInv'
  BY DEF WriteFails, container, file, ReceivedInv, NoGaps
<1>6. SizeInv'
  BY <1>0 DEF WriteFails, container, file, Counted, SizeInv, Overhang, Kinds, Sinks
<1> QED BY <1>1, <1>2, <1>3, <1>4, <1>5, <1>6 DEF IInv

\* A connection that is broken receives nothing.
LEMMA PeerClosesIInv ==
  ASSUME IInv, PeerCloses PROVE IInv'
<1> TypeOK /\ BufferInv /\ ConnectionInv /\ ReceivedInv /\ SizeInv
  BY DEF IInv
<1> \A s \in Sinks : GotInv(s)
  BY DEF IInv
<1>0. Counted("fluentbit", TRUE)
  BY CountType DEF PeerCloses, Kinds, Sinks
<1> UNCHANGED destination_type
  BY DEF PeerCloses
<1>1. TypeOK'
  BY <1>0, Sizes, Numbers DEF PeerCloses, container, file, Counted, TypeOK, Ends
<1>2. BufferInv'
  BY SameUses DEF PeerCloses, container, file, BufferInv, Sinks, Ends
<1>3. ASSUME NEW s \in Sinks PROVE GotInv(s)'
  <2>1. /\ Uses(s)' <=> Uses(s)
        /\ got'[s] = got[s] /\ UNCHANGED <<taken, next, step>>
        /\ CostLines(s)' = CostLines(s)
    BY SameUses DEF PeerCloses, container, CostLines
  <2>2. \A k \in Kinds : failures'[k] = 0 => failures[k] = 0
    BY <1>0, Numbers DEF Counted, Kinds
  <2>3. CostLines(s) \subseteq Kinds
    BY DEF CostLines, Kinds, Sinks
  <2>4. s \in Kinds
    BY DEF Kinds
  <2> QED BY <2>1, <2>2, <2>3, <2>4 DEF GotInv
<1>4. ConnectionInv'
  BY <1>0, SameUses, Numbers DEF PeerCloses, container, file, Counted,
         ConnectionInv, BufferInv, Kinds, Sinks
<1>5. ReceivedInv'
  BY DEF PeerCloses, container, file, ReceivedInv, NoGaps
<1>6. SizeInv'
  BY <1>0 DEF PeerCloses, container, file, Counted, SizeInv, Overhang, Kinds, Sinks
<1> QED BY <1>1, <1>2, <1>3, <1>4, <1>5, <1>6 DEF IInv

-----------------------------------------------------------------------------
(* The theorems *)

\* Every action keeps the invariant.
LEMMA NextIInv ==
  ASSUME IInv, [Next]_vars
  PROVE  IInv'
<1>1. CASE UNCHANGED vars
  BY <1>1
  DEF vars, container, file, connection, IInv, TypeOK, BufferInv, GotInv,
      ConnectionInv, ReceivedInv, NoGaps, SizeInv, Overhang, Uses, Pending
<1>2. CASE loop
  BY <1>2, ReadIInv, ReadEndIInv, ReadFailsIInv, write_journaldIInv,
     write_logrotateIInv, OpenFailsIInv, ConnectIInv, SocketFailsIInv,
     WriteLineIInv, WriteFailsIInv
  DEF loop, write_fluentbit
<1> QED
  BY <1>1, <1>2, ContainerWritesIInv, ContainerExitsIInv, PeerClosesIInv
  DEF Next

\* IInv is an invariant of the companion and what runs beside it.
THEOREM Inductive == Spec => []IInv
<1>1. Init => IInv
  BY InitIInv
<1>2. IInv /\ [Next]_vars => IInv'
  BY NextIInv
<1> QED BY <1>1, <1>2, PTL DEF Spec

\* The members of JournaldLoggerProcess are well typed; bytesWritten in
\* particular never exceeds the size at which the file is rotated.
THEOREM TypeCorrect == Spec => []TypeOK
<1>1. IInv => TypeOK
  BY DEF IInv
<1> QED BY <1>1, Inductive, PTL

\* As long as logrotate works, the leading file is no longer than MaxSize and
\* what it held at the start, or what logrotate may leave in place.
THEOREM Bounded == Spec => []SizeBounded
<1>1. ASSUME IInv PROVE SizeBounded
  <2>1. Overhang \in Nat
    BY <1>1, Sizes DEF IInv, TypeOK, Overhang
  <2> QED BY <1>1, <2>1, Sizes DEF IInv, TypeOK, SizeInv, SizeBounded
<1> QED BY <1>1, Inductive, PTL

\* Between two buffers and at the end a sink has all that was read, unless a
\* call that may cost it lines failed: its own, for Fluent Bit socket(), and
\* for the file and Fluent Bit the open of the file.  An end of the companion
\* costs a sink none of whose writes failed the last buffer at most.
THEOREM AllDelivered == Spec => []Delivered
<1>1. ASSUME IInv PROVE Delivered
  <2> SUFFICES ASSUME NEW s \in Sinks, Uses(s)
               PROVE  /\ step \in {"reading"} \cup Ends
                            /\ (\A k \in CostLines(s) : failures[k] = 0)
                        => got[s] = 1..taken
                      /\ failures[s] = 0 => 1..(next - 1) \subseteq got[s]
    BY <1>1 DEF IInv, GotInv, Delivered
  <2>1. GotInv(s) /\ TypeOK
    BY <1>1 DEF IInv
  <2>2. s \in CostLines(s)
    BY DEF CostLines, Sinks
  <2>3. "reading" \notin Pending(s) /\ "reading" \notin Ends
    BY DEF Pending, Sinks, Ends
  <2>4. 1..(next - 1) \subseteq 1..taken
    BY <2>1, Numbers
  <2>5. step \in {"reading"} \cup Ends
            /\ (\A k \in CostLines(s) : failures[k] = 0) => got[s] = 1..taken
    BY <2>1, <2>2, <2>3 DEF GotInv
  <2>6. failures[s] = 0 => 1..(next - 1) \subseteq got[s]
    BY <2>1, <2>4 DEF GotInv
  <2> QED BY <2>5, <2>6
<1> QED BY <1>1, Inductive, PTL

\* What is received over a connection has no gaps.
THEOREM Gapless == Spec => []NoGaps
<1>1. IInv => NoGaps
  BY DEF IInv, ReceivedInv
<1> QED BY <1>1, Inductive, PTL

=============================================================================
