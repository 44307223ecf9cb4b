----------------------------- MODULE SubnetPool -----------------------------
(***************************************************************************)
(* One pool of the overlay master: the free subnets of an overlay           *)
(* (Overlay::freeNetworks, freeNetworks6) or the free addresses of the VTEP *)
(* network (Vtep::freeIP, freeIP6), over the arithmetic of network.hpp.     *)
(*                                                                          *)
(* A pool is an interval set, and an interval is bounded by what operator++ *)
(* yields: taking a subnet x removes everything from x up to ++x.           *)
(* OverlayMaster takes a pool for a set of numbers; this module shows for   *)
(* which prefixes that is right.                                            *)
(*                                                                          *)
(* A subnet is the number its prefix spells, and an address is one with the *)
(* longest prefix.  The leading bytes that all subnets share are left out,  *)
(* so prefixes are counted from the first byte that differs; whole bytes go *)
(* at a time, which keeps prefix & 7.                                       *)
(***************************************************************************)
EXTENDS Integers, FiniteSets, FiniteSetsExt

CONSTANTS
    Agents,     \* agents that come and go
    Plans,      \* the pools there may be
    None        \* an absent value

(***************************************************************************)
(* version   4 or 6                                                         *)
(* of        what is given out, "subnets" or "addresses"                    *)
(* network   prefix of the network, counted as said above                   *)
(* prefix    prefix of what is given out                                    *)
(* earlier   how many agents hold a part of it from before                  *)
(***************************************************************************)
ASSUME PlanAssumption ==
    /\ Plans \subseteq [version : {4, 6}, of : {"subnets", "addresses"},
                        network : 1..16, prefix : 2..16, earlier : Nat]
    /\ \A p \in Plans : p.network < p.prefix
    /\ \A p \in Plans : p.version = 6 /\ p.of = "addresses" => p.prefix % 8 = 0

ASSUME NoneAssumption == None \notin Nat

(***************************************************************************)
(* Plans whose increments stay within the network until its end: IPv4; IPv6 *)
(* with a prefix of whole bytes; with three odd bits, all of which are      *)
(* counted; and with more of them as long as only three vary.  There are    *)
(* two bytes at most, so a prefix with three odd bits and a byte is 11.     *)
(***************************************************************************)
Sound(p) ==
    \/ p.version = 4
    \/ p.prefix % 8 = 0
    \/ p.prefix = 11
    \/ p.prefix % 8 >= 3 /\ p.prefix - p.network <= 3

\* The earlier agents came before the first carry, and left something.
Early(p) ==
    LET skipped == IF p.of = "addresses" THEN 1 ELSE 0
    IN  /\ p.earlier + 2 * skipped < 2^(p.prefix - p.network)
        /\ p.version = 6 =>
              p.earlier + skipped <= IF p.prefix % 8 = 0 THEN 256 ELSE 8

VARIABLES
    plan,       \* the pool's network, fixed by the configuration
    free,       \* what the interval set contains
    held,       \* what each agent was given
    earlier     \* what the earlier agents were given, for good

vars == <<plan, free, held, earlier>>

-----------------------------------------------------------------------------
(* IP::operator++ and Network::operator++                                   *)

Byte(n, i) == (n \div 256^i) % 256

\* The last byte that is not 0xff goes up; those behind it stay 0xff.
Increment(n, bytes) ==
    LET low == {i \in 0..(bytes - 1) : Byte(n, i) # 255}
    IN  IF low = {} THEN n ELSE n + 256^Min(low)

\* Mutant: the test of the odd bits masks two of them.
NextSubnet6Mask3(x, prefix) ==
    LET odd  == 2^(prefix % 8)
        bits == x % odd
    IN  IF odd > 1 /\ bits % 4 # 3
        THEN (x - bits) + ((bits + 1) % odd)
        ELSE odd * Increment(x \div odd, prefix \div 8) + bits

\* The odd bits of a prefix are counted up in their byte until the last three
\* are ones, and cut to the byte; after that they stay, and the bytes before
\* theirs go up.
NextSubnet6(x, prefix) ==
    LET odd  == 2^(prefix % 8)
        bits == x % odd
    IN  IF odd > 1 /\ bits % 8 # 7
        THEN (x - bits) + ((bits + 1) % odd)
        ELSE odd * Increment(x \div odd, prefix \div 8) + bits

\* The end of the IPv4 address space is not among the plans.
Next4(x) == x + 1

NextSubnet(x, prefix) ==
    IF plan.version = 4 THEN Next4(x) ELSE NextSubnet6(x, prefix)

NextAddress(x) ==
    IF plan.version = 4 THEN Next4(x) ELSE Increment(x, plan.prefix \div 8)

Succ(x) ==
    IF plan.of = "subnets" THEN NextSubnet(x, plan.prefix) ELSE NextAddress(x)

-----------------------------------------------------------------------------
(* The interval set                                                         *)

\* The network is the one numbered 1 among those of its size, so that there
\* are subnets on either side of it.
Begin == 2^(plan.prefix - plan.network)
End == 2 * Begin - 1

\* What the interval of a single element contains.
Interval(x) == x..(Succ(x) - 1)

Covered(X) == UNION {Interval(x) : x \in X}

\* Closed bounds for subnets, open ones for addresses.
SubnetRange == Begin..(Succ(End) - 1)
AddressRange == Succ(Begin)..(End - 1)

Pool == IF plan.of = "subnets" THEN SubnetRange ELSE AddressRange

\* What n agents get that ask one after another, up to the first carry.
FirstTaken(n) == Min(Pool)..(Min(Pool) + n - 1)

-----------------------------------------------------------------------------
(* The bridges of an agent: its subnet with one bit more in the prefix, and *)
(* the one after that.                                                      *)

MesosBridge(x) == 2 * x

\* Mutant: the bit is added after the increment.
DockerBridgeLate(x) == 2 * NextSubnet(x, plan.prefix)

DockerBridge(x) == NextSubnet(MesosBridge(x), plan.prefix + 1)

-----------------------------------------------------------------------------
Held == earlier \cup ({held[a] : a \in Agents} \ {None})

Init ==
    /\ plan \in Plans
    /\ earlier = FirstTaken(plan.earlier)
    /\ free = Pool \ Covered(earlier)
    /\ held = [a \in Agents |-> None]

\* Mutant: what is taken goes out alone, without what follows up to the next.
TakeAlone(a) ==
    /\ held[a] = None
    /\ free # {}
    /\ held' = [held EXCEPT ![a] = Min(free)]
    /\ free' = free \ {Min(free)}
    /\ UNCHANGED <<plan, earlier>>

\* The lowest free one is taken; an empty pool is an error and changes nothing.
Take(a) ==
    /\ held[a] = None
    /\ free # {}
    /\ held' = [held EXCEPT ![a] = Min(free)]
    /\ free' = free \ Interval(Min(free))
    /\ UNCHANGED <<plan, earlier>>

\* Overlay::allocate and allocate6.
AllocateSubnet(a) == plan.of = "subnets" /\ Take(a)

\* Vtep::allocateIP and allocateIP6.
AllocateIP(a) == plan.of = "addresses" /\ Take(a)

\* Mutant: the interval that is given back is closed.
GiveBackClosed(a) ==
    /\ held[a] # None
    /\ held' = [held EXCEPT ![a] = None]
    /\ free' = free \cup Interval(held[a]) \cup {Succ(held[a])}
    /\ UNCHANGED <<plan, earlier>>

GiveBack(a) ==
    /\ held[a] # None
    /\ held' = [held EXCEPT ![a] = None]
    /\ free' = free \cup Interval(held[a])
    /\ UNCHANGED <<plan, earlier>>

\* Overlay::free and free6: that the subnet is taken is not looked at.
FreeSubnet(a) == plan.of = "subnets" /\ GiveBack(a)

\* Mutant: an address does not come back.
DeallocateNothing(a) ==
    /\ plan.of = "addresses"
    /\ held[a] # None
    /\ held' = [held EXCEPT ![a] = None]
    /\ UNCHANGED <<plan, free, earlier>>

\* Vtep::deallocateIP and deallocateIP6: a free address is an error.
DeallocateIP(a) ==
    /\ plan.of = "addresses"
    /\ held[a] \notin free
    /\ GiveBack(a)

\* What cannot be taken out of a new pool when X is, in some order.
Refused(X) ==
    {x \in X : \/ x \notin Pool
               \/ \E y \in X \ {x} : x \in Interval(y)}

\* Mutant: nothing of an IPv6 network is reserved.
Reserve4(X) == IF plan.version = 4 THEN Pool \ Covered(X) ELSE Pool

\* Overlay::reserve and reserve6, Vtep::reserve and reserve6, for all of X.
Reserve(X) == Pool \ Covered(X)

\* A new process starts with a full pool, and reserves what the log says is
\* held; it serves nobody if that fails.
Recover ==
    /\ Refused(Held) = {}
    /\ free' = Reserve(Held)
    /\ UNCHANGED <<plan, held, earlier>>

Next ==
    \/ \E a \in Agents :
        \/ AllocateSubnet(a)
        \/ AllocateIP(a)
        \/ FreeSubnet(a)
        \/ DeallocateIP(a)
    \/ Recover

Spec == Init /\ [][Next]_vars

-----------------------------------------------------------------------------
(* Properties                                                               *)

\* The pool and what the agents hold keep their types.
TypeOK ==
    /\ plan \in Plans
    /\ free \subseteq Pool
    /\ held \in [Agents -> Nat \cup {None}]
    /\ earlier \subseteq Nat

\* No two agents hold one subnet or address, whatever was given back and
\* recovered in between: what Overlay::allocate and Vtep::allocateIP hand out
\* is nobody's.
Exclusive ==
    \A a \in Agents : held[a] # None =>
        /\ held[a] \notin earlier
        /\ \A b \in Agents \ {a} : held[a] # held[b]

\* What an agent is given is a part of the network it is carved from, also
\* where an increment carries over a byte (overlay.proto says so of
\* AgentOverlayInfo.subnet).
WithinNetwork == Held \subseteq Begin..End

\* What is not in the pool is held: the intervals that come and go fit
\* together without a gap, however they are taken and given back.
NothingLost == free = Pool \ Covered(Held)

\* The two bridges of an agent are the halves of its subnet, so that no
\* container on one shares an address with those on the other or elsewhere.
BridgesHalve ==
    plan.of = "subnets" =>
        \A x \in Held : {MesosBridge(x), DockerBridge(x)} = {2 * x, 2 * x + 1}

\* A master that is started anew can reserve all that is held, in whichever
\* order the log lists the agents; a failure to reserve ends its recovery.
Recoverable == Refused(Held) = {}

=============================================================================
