-------------------------- MODULE SubnetPool_proofs --------------------------
(***************************************************************************)
(* Proofs about SubnetPool, for any number of agents and every pool of a   *)
(* sound plan (Sound): what the increments of network.hpp go through is a  *)
(* grid, the intervals of the grid cover the pool without overlapping, and *)
(* the lowest free element is always on the grid.                          *)
(*                                                                         *)
(*   TypeCorrect   TypeOK                                                  *)
(*   Apart         Exclusive                                               *)
(*   Inside        WithinNetwork                                           *)
(*   Complete      NothingLost                                             *)
(*   Halves        BridgesHalve                                            *)
(*   Reservable    Recoverable                                             *)
(***************************************************************************)
EXTENDS SubnetPool, TLAPS, NaturalsInduction, WellFoundedInduction

-----------------------------------------------------------------------------
(* The least and the greatest of a set of numbers                           *)

\* The order of the naturals is what the well-foundedness theorem names.
LEMMA LessThanRelation == OpToRel(<, Nat) = {ss \in Nat \X Nat : ss[1] < ss[2]}
  BY DEF OpToRel

\* A set of naturals that is not empty has a least element.
LEMMA LeastElement ==
  ASSUME NEW S \in SUBSET Nat, S # {}
  PROVE  \E m \in S : \A k \in S : m <= k
<1> DEFINE R == {ss \in Nat \X Nat : ss[1] < ss[2]}
<1>1. IsWellFoundedOn(R, Nat)
  BY NatLessThanWellFounded, LessThanRelation
<1>2. PICK m \in S : \A k \in S : ~ (<<k, m>> \in R)
  <2> HIDE DEF R
  <2> QED BY <1>1, WFMin
<1>3. ASSUME NEW k \in S PROVE m <= k
  <2>1. <<k, m>> \in Nat \X Nat
    OBVIOUS
  <2>2. ~ (k < m)
    BY <1>2, <2>1
  <2> QED BY <2>2
<1> QED BY <1>3

\* Min, which is begin()->lower() of a pool, is the least element.
LEMMA MinIsLeast ==
  ASSUME NEW S \in SUBSET Nat, S # {}
  PROVE  Min(S) \in S /\ \A k \in S : Min(S) <= k
BY LeastElement DEF Min

\* A set of naturals up to n has a greatest element.
LEMMA GreatestElement ==
  ASSUME NEW n \in Nat, NEW S \in SUBSET (0..n), S # {}
  PROVE  \E m \in S : \A k \in S : k <= m
<1> DEFINE T == {n - k : k \in S}
<1>1. T \in SUBSET Nat /\ T # {}
  <2>1. \A k \in S : k \in 0..n /\ n - k \in Nat
    OBVIOUS
  <2> QED BY <2>1
<1>2. PICK t \in T : \A u \in T : t <= u
  <2> HIDE DEF T
  <2> QED BY <1>1, LeastElement
<1>3. PICK m \in S : t = n - m
  OBVIOUS
<1>4. ASSUME NEW k \in S PROVE k <= m
  BY <1>2, <1>3
<1> QED BY <1>4

-----------------------------------------------------------------------------
(* Grids                                                                    *)

\* The increment goes through the numbers in G in order, from the first of the
\* pool on, and leaves no part of the pool out on its way.
Successive(G) ==
    /\ G \subseteq Begin..End
    /\ Pool # {} => Min(Pool) \in G
    /\ \A x \in G :
        /\ Succ(x) \in Nat /\ x < Succ(x)
        /\ Interval(x) \subseteq Pool
        /\ Succ(x) \in Pool => Succ(x) \in G
        /\ \A y \in G : x < y => Succ(x) <= y

\* A pool is a range of numbers.
Ranged == \E lo, hi \in Nat : Begin \in Nat /\ End \in Nat /\ Pool = lo..hi

\* On a grid, intervals do not meet.
LEMMA IntervalsApart ==
  ASSUME NEW G \in SUBSET Nat, Successive(G), NEW x \in G, NEW y \in G,
         NEW n \in Interval(x), n \in Interval(y)
  PROVE  x = y
<1>1. /\ Succ(x) \in Nat /\ Succ(y) \in Nat
      /\ x < y => Succ(x) <= y
      /\ y < x => Succ(y) <= x
  BY DEF Successive
<1>2. n \in Nat /\ x <= n /\ n < Succ(x) /\ y <= n /\ n < Succ(y)
  BY <1>1 DEF Interval
<1> QED BY <1>1, <1>2

\* Every element of the grid begins its interval.
LEMMA IntervalBegins ==
  ASSUME NEW G \in SUBSET Nat, Successive(G), NEW x \in G
  PROVE  x \in Interval(x) /\ x \in Pool
BY DEF Successive, Interval

\* The lowest element that the intervals of some elements of the grid leave
\* free is on the grid.
LEMMA LowestOnGrid ==
  ASSUME Ranged, NEW G \in SUBSET Nat, Successive(G), NEW X \in SUBSET G,
         NEW rest, rest = Pool \ Covered(X), rest # {}
  PROVE  /\ Min(rest) \in G /\ Min(rest) \in rest
         /\ Min(rest) \notin X
<1>1. PICK lo \in Nat, hi \in Nat : Begin \in Nat /\ End \in Nat /\ Pool = lo..hi
  BY DEF Ranged
<1> DEFINE m == Min(rest)
           low == {g \in G : g <= m}
           p == Min(Pool)
<1>2. Pool \in SUBSET Nat /\ rest \in SUBSET Nat /\ Pool # {}
  BY <1>1
<1>3. m \in rest /\ (\A k \in rest : m <= k) /\ m \in Nat
  BY <1>2, MinIsLeast
<1>4. p \in G /\ p <= m
  BY <1>2, <1>3, MinIsLeast DEF Successive
<1> HIDE DEF m, p
<1>5. low \in SUBSET (0..m) /\ low # {}
  <2>1. \A g \in low : g \in Nat /\ g <= m
    OBVIOUS
  <2>2. p \in low
    BY <1>4
  <2> HIDE DEF low
  <2>3. \A g \in low : g \in 0..m
    BY <1>3, <2>1
  <2>4. low \in SUBSET (0..m)
    BY <2>3
  <2>5. low # {}
    BY <2>2
  <2> QED BY <2>4, <2>5
<1>6. PICK g \in low : \A k \in low : k <= g
  <2> HIDE DEF low
  <2> QED BY <1>3, <1>5, GreatestElement
<1>7. g \in G /\ g <= m /\ g \in Nat /\ Succ(g) \in Nat /\ g < Succ(g)
  BY <1>6 DEF Successive
<1>8. m < Succ(g)
  <2> SUFFICES ASSUME Succ(g) <= m PROVE FALSE
    BY <1>3, <1>7
  <2>1. g \in Pool /\ m \in Pool
    BY <1>3, <1>7, IntervalBegins
  <2>2. Succ(g) \in Pool
    BY <1>1, <1>3, <1>7, <2>1
  <2>3. Succ(g) \in low
    BY <1>7, <2>2 DEF Successive
  <2> QED BY <1>6, <1>7, <2>3
<1>9. m \in Interval(g)
  BY <1>3, <1>7, <1>8 DEF Interval
<1>10. g \notin X
  BY <1>3, <1>9 DEF Covered
<1>11. g \in rest
  <2> SUFFICES ASSUME g \notin rest PROVE FALSE
    OBVIOUS
  <2>1. g \in Pool /\ g \in Interval(g)
    BY <1>7, IntervalBegins
  <2>2. PICK y \in X : g \in Interval(y)
    BY <2>1 DEF Covered
  <2>3. y = g
    BY <1>7, <2>1, <2>2, IntervalsApart
  <2> QED BY <1>10, <2>3
<1>12. g = m
  BY <1>3, <1>7, <1>11
<1> QED BY <1>3, <1>7, <1>10, <1>12 DEF m

-----------------------------------------------------------------------------
(* Powers and increments                                                    *)

\* The sizes of networks.
LEMMA Powers ==
  ASSUME NEW k \in Int
  PROVE  /\ k = 0 => 2^k = 1 /\ 256^k = 1
         /\ k = 1 => 2^k = 2 /\ 256^k = 256
         /\ k = 2 => 2^k = 4
         /\ k = 3 => 2^k = 8
         /\ k = 4 => 2^k = 16
         /\ k = 5 => 2^k = 32
         /\ k = 6 => 2^k = 64
         /\ k = 7 => 2^k = 128
         /\ k = 8 => 2^k = 256
         /\ k = 9 => 2^k = 512
         /\ k = 10 => 2^k = 1024
         /\ k = 11 => 2^k = 2048
         /\ k = 12 => 2^k = 4096
         /\ k = 13 => 2^k = 8192
         /\ k = 14 => 2^k = 16384
         /\ k = 15 => 2^k = 32768
<1>1. /\ 256^0 = 1
      /\ 256^1 = 256
      /\ 2^0 = 1
      /\ 2^1 = 2
      /\ 2^2 = 4
      /\ 2^3 = 8
      /\ 2^4 = 16
      /\ 2^5 = 32
      /\ 2^6 = 64
      /\ 2^7 = 128
      /\ 2^8 = 256
      /\ 2^9 = 512
      /\ 2^10 = 1024
      /\ 2^11 = 2048
      /\ 2^12 = 4096
      /\ 2^13 = 8192
      /\ 2^14 = 16384
      /\ 2^15 = 32768
  OBVIOUS
<1>2. k = 0 => 2^k = 1 /\ 256^k = 1
  BY <1>1
<1>3. k = 1 => 2^k = 2 /\ 256^k = 256
  BY <1>1
<1>4. k = 2 => 2^k = 4
  BY <1>1
<1>5. k = 3 => 2^k = 8
  BY <1>1
<1>6. k = 4 => 2^k = 16
  BY <1>1
<1>7. k = 5 => 2^k = 32
  BY <1>1
<1>8. k = 6 => 2^k = 64
  BY <1>1
<1>9. k = 7 => 2^k = 128
  BY <1>1
<1>10. k = 8 => 2^k = 256
  BY <1>1
<1>11. k = 9 => 2^k = 512
  BY <1>1
<1>12. k = 10 => 2^k = 1024
  BY <1>1
<1>13. k = 11 => 2^k = 2048
  BY <1>1
<1>14. k = 12 => 2^k = 4096
  BY <1>1
<1>15. k = 13 => 2^k = 8192
  BY <1>1
<1>16. k = 14 => 2^k = 16384
  BY <1>1
<1>17. k = 15 => 2^k = 32768
  BY <1>1
<1> QED BY <1>2, <1>3, <1>4, <1>5, <1>6, <1>7, <1>8, <1>9, <1>10, <1>11,
           <1>12, <1>13, <1>14, <1>15, <1>16, <1>17

\* The network is a range of as many numbers as its first.
LEMMA NetworkSize ==
  ASSUME plan \in Plans
  PROVE  /\ Begin \in Nat /\ Begin >= 2 /\ Begin % 2 = 0
         /\ End \in Nat /\ End = 2 * Begin - 1
         /\ plan.prefix - plan.network \in 1..15
         /\ \/ Begin \in {2, 4, 8, 16, 32, 64, 128}
            \/ Begin % 256 = 0 /\ Begin <= 32768
         /\ \/ Begin \in {2, 4}
            \/ Begin % 8 = 0
         /\ plan.prefix <= 8 => Begin <= 128
         /\ plan.prefix <= 11 => Begin <= 1024
         /\ plan.prefix - plan.network <= 3 => Begin <= 8
<1> DEFINE d == plan.prefix - plan.network
<1>1. /\ plan.prefix \in 2..16 /\ plan.network \in 1..16
      /\ plan.network < plan.prefix
  BY PlanAssumption
<1>2. d \in 1..15 /\ (plan.prefix <= 8 => d <= 7) /\ (plan.prefix <= 11 => d <= 10)
  BY <1>1
<1>3. Begin = 2^d
  BY DEF Begin
<1> HIDE DEF d
<1>4. \/ d = 1 /\ Begin = 2
      \/ d = 2 /\ Begin = 4
      \/ d = 3 /\ Begin = 8
      \/ d = 4 /\ Begin = 16
      \/ d = 5 /\ Begin = 32
      \/ d = 6 /\ Begin = 64
      \/ d = 7 /\ Begin = 128
      \/ d = 8 /\ Begin = 256
      \/ d = 9 /\ Begin = 512
      \/ d = 10 /\ Begin = 1024
      \/ d = 11 /\ Begin = 2048
      \/ d = 12 /\ Begin = 4096
      \/ d = 13 /\ Begin = 8192
      \/ d = 14 /\ Begin = 16384
      \/ d = 15 /\ Begin = 32768
  BY <1>2, <1>3, Powers
<1>5. /\ Begin \in Nat /\ Begin >= 2 /\ Begin % 2 = 0
      /\ \/ Begin \in {2, 4, 8, 16, 32, 64, 128}
         \/ Begin % 256 = 0 /\ Begin <= 32768
      /\ Begin \in {2, 4} \/ Begin % 8 = 0
  BY <1>4
<1>6. /\ plan.prefix <= 8 => Begin <= 128
      /\ plan.prefix <= 11 => Begin <= 1024
      /\ d <= 3 => Begin <= 8
  BY <1>2, <1>4
<1>7. End = 2 * Begin - 1
  BY DEF End
<1> QED BY <1>2, <1>5, <1>6, <1>7 DEF d

\* operator++ of one byte, or of two.
LEMMA Increments ==
  ASSUME NEW n \in Nat, NEW b \in {1, 2}
  PROVE  Increment(n, b) = IF n % 256 # 255 THEN n + 1
                           ELSE IF b = 2 /\ (n \div 256) % 256 # 255
                           THEN n + 256 ELSE n
<1> DEFINE low == {i \in 0..(b - 1) : Byte(n, i) # 255}
<1>1. 256^0 = 1 /\ 256^1 = 256
  BY Powers
<1>2. Byte(n, 0) = n % 256
  <2>1. n \div 1 = n
    OBVIOUS
  <2> QED BY <1>1, <2>1 DEF Byte
<1>3. Byte(n, 1) = (n \div 256) % 256
  BY <1>1 DEF Byte
<1>4. Increment(n, b) = IF low = {} THEN n ELSE n + 256^Min(low)
  BY DEF Increment
<1>5. /\ low \in SUBSET Nat
      /\ 0 \in low <=> n % 256 # 255
      /\ 1 \in low <=> b = 2 /\ (n \div 256) % 256 # 255
      /\ \A i \in low : i = 0 \/ i = 1
  BY <1>2, <1>3
<1> HIDE DEF low
<1>6. low # {} => Min(low) \in low /\ \A i \in low : Min(low) <= i
  BY <1>5, MinIsLeast
<1>7. CASE n % 256 # 255
  <2>1. Min(low) = 0 /\ low # {}
    <3>1. 0 \in low
      BY <1>5, <1>7
    <3>2. Min(low) \in low /\ Min(low) <= 0
      BY <1>6, <3>1
    <3>3. Min(low) = 0 \/ Min(low) = 1
      BY <1>5, <3>2
    <3> QED BY <3>1, <3>2, <3>3
  <2>2. 256^Min(low) = 1
    BY <1>1, <2>1
  <2> QED BY <1>4, <1>7, <2>1, <2>2
<1>8. CASE n % 256 = 255 /\ b = 2 /\ (n \div 256) % 256 # 255
  <2>1. Min(low) = 1 /\ low # {}
    <3>1. 1 \in low /\ 0 \notin low
      BY <1>5, <1>8
    <3>2. Min(low) \in low /\ low # {}
      BY <1>6, <3>1
    <3>3. Min(low) = 0 \/ Min(low) = 1
      BY <1>5, <3>2
    <3>4. Min(low) # 0
      BY <3>1, <3>2
    <3> QED BY <3>2, <3>3, <3>4
  <2>2. 256^Min(low) = 256
    BY <1>1, <2>1
  <2> QED BY <1>4, <1>8, <2>1, <2>2
<1>9. CASE n % 256 = 255 /\ ~(b = 2 /\ (n \div 256) % 256 # 255)
  <2>1. low = {}
    BY <1>5, <1>9
  <2> QED BY <1>4, <1>9, <2>1
<1> QED BY <1>7, <1>8, <1>9

\* operator++ of a prefix without a whole byte has no byte to raise.
LEMMA NoByte ==
  ASSUME NEW n PROVE Increment(n, 0) = n
<1>1. 0..(0 - 1) = {}
  OBVIOUS
<1> QED BY <1>1 DEF Increment

-----------------------------------------------------------------------------
(* The invariant                                                            *)

\* The elements that are held are on a grid, each is with one agent, and the
\* pool is what they leave.
GridInv ==
    /\ plan \in Plans
    /\ held \in [Agents -> Nat \cup {None}]
    /\ NothingLost
    /\ Exclusive
    /\ \E G \in SUBSET Nat : Successive(G) /\ Held \subseteq G /\ earlier \subseteq G

\* The grid and the pool are those of the plan.
LEMMA SamePlan ==
  ASSUME UNCHANGED plan
  PROVE  /\ Pool' = Pool /\ Begin' = Begin /\ End' = End
         /\ \A x : Succ(x)' = Succ(x) /\ Interval(x)' = Interval(x)
<1>1. Begin' = Begin /\ End' = End
  BY DEF Begin, End
<1>2. \A x : Succ(x)' = Succ(x)
  BY DEF Succ, NextSubnet, NextAddress
<1>3. \A x : Interval(x)' = Interval(x)
  BY <1>2 DEF Interval
<1>4. Pool' = Pool
  BY DEF Pool, SubnetRange, AddressRange, Begin, End, Succ, NextSubnet, NextAddress
<1> QED BY <1>1, <1>2, <1>3, <1>4

\* A grid stays one.
LEMMA GridStays ==
  ASSUME UNCHANGED plan, NEW G, Successive(G) PROVE Successive(G)'
<1>1. /\ Pool' = Pool /\ Begin' = Begin /\ End' = End
      /\ \A x : Succ(x)' = Succ(x) /\ Interval(x)' = Interval(x)
  BY SamePlan
<1> QED BY <1>1 DEF Successive

\* allocate takes what nobody holds.
LEMMA TakeInv ==
  ASSUME plan \in Plans => Ranged, GridInv, NEW a \in Agents, Take(a)
  PROVE  GridInv'
<1>1. PICK G \in SUBSET Nat : Successive(G) /\ Held \subseteq G /\ earlier \subseteq G
  BY DEF GridInv
<1> DEFINE m == Min(free)
<1>2. /\ held[a] = None /\ free # {}
      /\ held' = [held EXCEPT ![a] = m] /\ free' = free \ Interval(m)
      /\ UNCHANGED <<plan, earlier>>
  BY DEF Take
<1>3. /\ free = Pool \ Covered(Held) /\ held \in [Agents -> Nat \cup {None}]
      /\ plan \in Plans
  BY DEF GridInv, NothingLost
<1>4. m \in G /\ m \notin Held /\ m \in Nat
  <2>1. Ranged
    BY <1>3
  <2>2. Held \in SUBSET G /\ free # {} /\ free = Pool \ Covered(Held)
    BY <1>1, <1>2, <1>3
  <2>3. Min(free) \in G /\ Min(free) \notin Held
    BY <1>1, <2>1, <2>2, LowestOnGrid
  <2> QED BY <2>3
<1> HIDE DEF m
<1>5. m # None /\ Held' = Held \cup {m}
  <2>1. m # None
    BY <1>4, NoneAssumption
  <2>2. \A b \in Agents : held'[b] = IF b = a THEN m ELSE held[b]
    BY <1>2, <1>3
  <2> QED BY <1>2, <2>1, <2>2 DEF Held
<1>6. Pool' = Pool /\ \A x : Interval(x)' = Interval(x)
  BY <1>2, SamePlan
<1>7. NothingLost'
  BY <1>2, <1>3, <1>5, <1>6 DEF NothingLost, Covered
<1>8. held' \in [Agents -> Nat \cup {None}]
  BY <1>2, <1>3, <1>4
<1>9. Exclusive'
  <2>1. \A b \in Agents : held'[b] = IF b = a THEN m ELSE held[b]
    BY <1>2, <1>3
  <2>2. m \notin earlier /\ \A b \in Agents : held[b] # m
    BY <1>4, <1>5 DEF Held
  <2> QED BY <1>2, <2>1, <2>2 DEF GridInv, Exclusive
<1>10. Successive(G)' /\ Held' \subseteq G /\ earlier' \subseteq G
  BY <1>1, <1>2, <1>4, <1>5, GridStays
<1> QED BY <1>2, <1>3, <1>7, <1>8, <1>9, <1>10 DEF GridInv

\* free gives back what nobody else holds a part of.
LEMMA GiveBackInv ==
  ASSUME GridInv, NEW a \in Agents, GiveBack(a)
  PROVE  GridInv'
<1>1. PICK G \in SUBSET Nat : Successive(G) /\ Held \subseteq G /\ earlier \subseteq G
  BY DEF GridInv
<1> DEFINE x == held[a]
<1>2. /\ x # None /\ held' = [held EXCEPT ![a] = None]
      /\ free' = free \cup Interval(x)
      /\ UNCHANGED <<plan, earlier>>
  BY DEF GiveBack
<1>3. /\ free = Pool \ Covered(Held) /\ held \in [Agents -> Nat \cup {None}]
      /\ plan \in Plans /\ Exclusive
  BY DEF GridInv, NothingLost
<1>4. /\ x \in Held /\ x \notin earlier
      /\ \A b \in Agents : held'[b] = IF b = a THEN None ELSE held[b]
      /\ \A b \in Agents \ {a} : held[b] # x
  BY <1>2, <1>3 DEF Held, Exclusive
<1> HIDE DEF x
<1>5. Held' = Held \ {x}
  <2>1. earlier \subseteq Held /\ earlier' = earlier
    BY <1>2 DEF Held
  <2>2. ASSUME NEW y \in Held, y # x PROVE y \in Held'
    <3>1. CASE y \in earlier
      BY <2>1, <3>1 DEF Held
    <3>2. CASE y \notin earlier
      <4>1. PICK b \in Agents : y = held[b] /\ y # None
        BY <2>2, <3>2 DEF Held
      <4>2. b # a
        BY <2>2, <4>1 DEF x
      <4>3. held'[b] = y
        BY <1>4, <4>1, <4>2
      <4> QED BY <4>1, <4>3 DEF Held
    <3> QED BY <3>1, <3>2
  <2>3. ASSUME NEW y \in Held' PROVE y \in Held /\ y # x
    <3>1. CASE y \in earlier
      BY <1>4, <2>1, <3>1
    <3>2. CASE y \notin earlier
      <4>1. PICK b \in Agents : y = held'[b] /\ y # None
        BY <2>1, <2>3, <3>2 DEF Held
      <4>2. b # a /\ held[b] = y
        BY <1>4, <4>1
      <4> QED BY <1>4, <4>1, <4>2 DEF Held
    <3> QED BY <3>1, <3>2
  <2> QED BY <2>2, <2>3
<1>6. Pool' = Pool /\ \A y : Interval(y)' = Interval(y)
  BY <1>2, SamePlan
<1>7. NothingLost'
  <2>1. Interval(x) \subseteq Pool
    BY <1>1, <1>4 DEF Successive
  <2>2. \A y \in Held \ {x} : Interval(y) \cap Interval(x) = {}
    BY <1>1, <1>4, IntervalsApart
  <2>3. Pool \ Covered(Held \ {x}) = (Pool \ Covered(Held)) \cup Interval(x)
    BY <1>4, <2>1, <2>2 DEF Covered
  <2>4. Covered(Held)' = Covered(Held \ {x})
    BY <1>5, <1>6 DEF Covered
  <2> QED BY <1>2, <1>3, <1>6, <2>3, <2>4 DEF NothingLost
<1>8. held' \in [Agents -> Nat \cup {None}]
  BY <1>2, <1>3
<1>9. Exclusive'
  BY <1>2, <1>3, <1>4 DEF Exclusive
<1>10. Successive(G)' /\ Held' \subseteq G /\ earlier' \subseteq G
  BY <1>1, <1>2, <1>5, GridStays
<1> QED BY <1>2, <1>3, <1>7, <1>8, <1>9, <1>10 DEF GridInv

\* What is held can be reserved: it is in a full pool, and no interval of it
\* takes another's first element away.
LEMMA HeldReservable ==
  ASSUME GridInv PROVE Recoverable
<1>1. PICK G \in SUBSET Nat : Successive(G) /\ Held \subseteq G
  BY DEF GridInv
<1>2. \A x \in Held : x \in Pool /\ x \in Interval(x)
  BY <1>1, IntervalBegins
<1>3. \A x, y \in Held : x \in Interval(y) => x = y
  BY <1>1, <1>2, IntervalsApart
<1> QED BY <1>2, <1>3 DEF Recoverable, Refused

\* _recover brings back the pool that held leaves.
LEMMA RecoverInv ==
  ASSUME GridInv, Recover PROVE GridInv'
<1>1. PICK G \in SUBSET Nat : Successive(G) /\ Held \subseteq G /\ earlier \subseteq G
  BY DEF GridInv
<1>2. free' = Pool \ Covered(Held) /\ UNCHANGED <<plan, held, earlier>>
  BY DEF Recover, Reserve
<1>3. Pool' = Pool /\ \A y : Interval(y)' = Interval(y)
  BY <1>2, SamePlan
<1>4. Held' = Held
  BY <1>2 DEF Held
<1>5. NothingLost' /\ Exclusive'
  BY <1>2, <1>3, <1>4 DEF NothingLost, Exclusive, Covered, GridInv
<1>6. Successive(G)' /\ Held' \subseteq G /\ earlier' \subseteq G
  BY <1>1, <1>2, <1>4, GridStays
<1> QED BY <1>2, <1>5, <1>6 DEF GridInv

-----------------------------------------------------------------------------
(* The grids of the plans                                                   *)

\* An address pool of an early plan is not empty, and what is given out first
\* ends before the network does.
LEMMA EarlyFits ==
  ASSUME plan \in Plans, Early(plan)
  PROVE  LET skipped == IF plan.of = "addresses" THEN 1 ELSE 0
         IN  /\ plan.earlier \in Nat
             /\ plan.earlier + 2 * skipped < Begin
             /\ plan.version = 6 =>
                   plan.earlier + skipped <= IF plan.prefix % 8 = 0 THEN 256 ELSE 8
BY PlanAssumption DEF Early, Begin

\* A pool of subnets begins with the network, one of addresses after it.
LEMMA PoolRange ==
  ASSUME plan \in Plans, Early(plan), Succ(End) \in Nat, End <= Succ(End),
         Succ(Begin) = Begin + 1
  PROVE  LET skipped == IF plan.of = "addresses" THEN 1 ELSE 0
             hi      == IF plan.of = "addresses" THEN End - 1 ELSE Succ(End) - 1
         IN  /\ Pool = (Begin + skipped)..hi
             /\ hi \in Nat
             /\ Pool # {}
             /\ Min(Pool) = Begin + skipped
             /\ Ranged
<1> DEFINE skipped == IF plan.of = "addresses" THEN 1 ELSE 0
           hi      == IF plan.of = "addresses" THEN End - 1 ELSE Succ(End) - 1
<1>1. /\ Begin \in Nat /\ Begin >= 2
      /\ End \in Nat /\ End = 2 * Begin - 1
  BY NetworkSize
<1>2. plan.earlier \in Nat /\ plan.earlier + 2 * skipped < Begin
  BY EarlyFits
<1>3. skipped \in {0, 1} /\ hi \in Nat /\ Begin + skipped <= hi
  BY <1>1, <1>2
<1>4. Pool = (Begin + skipped)..hi
  <2>1. plan.of = "subnets" \/ plan.of = "addresses"
    BY PlanAssumption
  <2>2. CASE plan.of = "subnets"
    BY <1>1, <2>2 DEF Pool, SubnetRange
  <2>3. CASE plan.of = "addresses"
    BY <1>1, <2>3 DEF Pool, AddressRange
  <2> QED BY <2>1, <2>2, <2>3
<1> HIDE DEF skipped, hi
<1>5. Pool \in SUBSET Nat /\ Begin + skipped \in Pool
  BY <1>1, <1>3, <1>4
<1>6. Min(Pool) \in Pool /\ Min(Pool) <= Begin + skipped
  BY <1>5, MinIsLeast
<1>7. Min(Pool) = Begin + skipped
  BY <1>1, <1>3, <1>4, <1>6
<1>8. Ranged
  <2>1. Begin + skipped \in Nat
    BY <1>1, <1>3
  <2> QED BY <1>1, <1>3, <1>4, <2>1 DEF Ranged
<1> QED BY <1>3, <1>4, <1>5, <1>7, <1>8 DEF skipped, hi

\* An increment that adds one up to the end of the network goes through all of
\* it, whatever it does there.
LEMMA Plain ==
  ASSUME plan \in Plans, Early(plan), Succ(End) \in Nat, End <= Succ(End),
         \A x \in Begin..(End - 1) : Succ(x) = x + 1
  PROVE  /\ Ranged
         /\ \E G \in SUBSET Nat : Successive(G) /\ FirstTaken(plan.earlier) \subseteq G
<1> DEFINE skipped == IF plan.of = "addresses" THEN 1 ELSE 0
           hi      == IF plan.of = "addresses" THEN End - 1 ELSE Succ(End) - 1
           G       == {x \in Pool : x <= End}
<1>1. /\ Begin \in Nat /\ Begin >= 2
      /\ End \in Nat /\ End = 2 * Begin - 1
  BY NetworkSize
<1>2. plan.earlier \in Nat /\ plan.earlier + 2 * skipped < Begin
  BY EarlyFits
<1>3. Succ(Begin) = Begin + 1
  BY <1>1
<1>4. /\ Pool = (Begin + skipped)..hi
      /\ hi \in Nat
      /\ Min(Pool) = Begin + skipped
      /\ Ranged
  BY <1>3, PoolRange
<1>5. skipped \in {0, 1} /\ hi \in {End - 1, Succ(End) - 1}
  OBVIOUS
<1> HIDE DEF skipped, hi
<1>6. \A x : x \in G <=> x \in Nat /\ Begin + skipped <= x /\ x <= hi /\ x <= End
  BY <1>1, <1>4, <1>5
<1> HIDE DEF G
<1>7. G \in SUBSET Nat /\ G \subseteq Begin..End
  BY <1>1, <1>5, <1>6
<1>8. Begin + skipped \in G
  BY <1>1, <1>2, <1>5, <1>6
<1>9. ASSUME NEW x \in G
      PROVE  /\ Succ(x) \in Nat /\ x < Succ(x)
             /\ Interval(x) \subseteq Pool
             /\ Succ(x) \in Pool => Succ(x) \in G
             /\ \A y \in G : x < y => Succ(x) <= y
  <2>1. CASE x < End
    <3>1. Succ(x) = x + 1 /\ x \in Nat
      BY <1>1, <1>7, <2>1
    <3>2. Interval(x) = {x}
      BY <3>1 DEF Interval
    <3>3. x \in Pool
      BY <1>1, <1>4, <1>5, <1>6
    <3>4. Succ(x) \in Pool => Succ(x) \in G
      BY <1>1, <1>4, <1>5, <1>6, <2>1, <3>1
    <3>5. \A y \in G : x < y => Succ(x) <= y
      BY <1>7, <3>1
    <3> QED BY <3>1, <3>2, <3>3, <3>4, <3>5
  <2>2. CASE x = End
    <3>1. hi = Succ(End) - 1 /\ End < Succ(End)
      BY <1>1, <1>4, <1>5, <1>6, <2>2
    <3>2. Interval(x) \subseteq Pool
      BY <1>1, <1>2, <1>4, <1>5, <2>2, <3>1 DEF Interval
    <3>3. Succ(x) \notin Pool
      BY <1>1, <1>4, <1>5, <2>2, <3>1
    <3>4. \A y \in G : ~(x < y)
      BY <1>1, <1>7, <2>2
    <3> QED BY <2>2, <3>1, <3>2, <3>3, <3>4
  <2> QED BY <1>1, <1>7, <2>1, <2>2
<1>10. Successive(G)
  BY <1>4, <1>7, <1>8, <1>9 DEF Successive
<1>11. FirstTaken(plan.earlier) \subseteq G
  <2>1. FirstTaken(plan.earlier) = (Begin + skipped)..(Begin + skipped + plan.earlier - 1)
    BY <1>4 DEF FirstTaken
  <2>2. hi >= End - 1
    BY <1>1, <1>5
  <2>3. ASSUME NEW x \in FirstTaken(plan.earlier) PROVE x \in G
    <3>1. x \in Nat /\ Begin + skipped <= x /\ x <= Begin + skipped + plan.earlier - 1
      BY <1>1, <1>2, <1>5, <2>1, <2>3
    <3>2. x <= End - 1
      BY <1>1, <1>2, <1>5, <3>1
    <3> QED BY <1>1, <1>4, <1>6, <2>2, <3>1, <3>2
  <2> QED BY <2>3
<1> QED BY <1>4, <1>7, <1>10, <1>11

\* Steps of one, then of M: where they end and that nothing of the grid lies
\* between.
LEMMA Rungs ==
  ASSUME NEW M \in Int, M = 8 \/ M = 256,
         NEW b \in Int, b >= 2, NEW e \in Int, e = 2 * b - 1,
         e < M \/ b % M = 0,
         NEW x \in Int, b <= x, x <= e, x % M = M - 1 \/ x < b + M
  PROVE  /\ x % M # M - 1 => (x + 1) % M = M - 1 \/ x + 1 < b + M
         /\ x % M = M - 1 /\ x < e => x + M <= e
         /\ x % M = M - 1 /\ x < e => (x + M) % M = M - 1
         /\ x % M = M - 1 /\ x < e => e % M = M - 1
         /\ \A y \in Int :
                /\ x % M = M - 1
                /\ b <= y /\ y <= e /\ x < y
                /\ y % M = M - 1 \/ y < b + M
              => x + M <= y
<1>1. CASE M = 8
  <2>1. x % 8 # 7 => (x + 1) % 8 = 7 \/ x + 1 < b + 8
    BY <1>1
  <2>2. x % 8 = 7 /\ x < e => x + 8 <= e /\ (x + 8) % 8 = 7 /\ e % 8 = 7
    BY <1>1
  <2>3. ASSUME x % 8 = 7, NEW y \in Int, b <= y, y <= e, x < y, y % 8 = 7 \/ y < b + 8
        PROVE  x + 8 <= y
    BY <1>1, <2>3
  <2>4. M = 8 /\ M - 1 = 7
    BY <1>1
  <2>5. \A y \in Int :
            /\ x % M = M - 1
            /\ b <= y /\ y <= e /\ x < y
            /\ y % M = M - 1 \/ y < b + M
          => x + M <= y
    BY <2>3, <2>4
  <2> QED BY <2>1, <2>2, <2>4, <2>5
<1>2. CASE M = 256
  <2>1. x % 256 # 255 => (x + 1) % 256 = 255 \/ x + 1 < b + 256
    BY <1>2
  <2>2. x % 256 = 255 /\ x < e => x + 256 <= e /\ (x + 256) % 256 = 255 /\ e % 256 = 255
    BY <1>2
  <2>3. ASSUME x % 256 = 255, NEW y \in Int, b <= y, y <= e, x < y,
               y % 256 = 255 \/ y < b + 256
        PROVE  x + 256 <= y
    BY <1>2, <2>3
  <2>4. M = 256 /\ M - 1 = 255
    BY <1>2
  <2>5. \A y \in Int :
            /\ x % M = M - 1
            /\ b <= y /\ y <= e /\ x < y
            /\ y % M = M - 1 \/ y < b + M
          => x + M <= y
    BY <2>3, <2>4
  <2> QED BY <2>1, <2>2, <2>4, <2>5
<1> QED BY <1>1, <1>2

\* An increment that adds one until the last M values are used up, and M after
\* that, goes through the first M numbers and then through every M-th.
LEMMA Ladder ==
  ASSUME plan \in Plans, Early(plan), NEW M \in {8, 256},
         End < M \/ Begin % M = 0,
         plan.earlier + (IF plan.of = "addresses" THEN 1 ELSE 0) <= M,
         \A x \in Begin..End : x % M # M - 1 => Succ(x) = x + 1,
         \A x \in Begin..(End - 1) : x % M = M - 1 => Succ(x) = x + M,
         End % M = M - 1 => Succ(End) \in {End, End + M}
  PROVE  /\ Ranged
         /\ \E G \in SUBSET Nat : Successive(G) /\ FirstTaken(plan.earlier) \subseteq G
<1> DEFINE skipped == IF plan.of = "addresses" THEN 1 ELSE 0
           hi      == IF plan.of = "addresses" THEN End - 1 ELSE Succ(End) - 1
           Rung(x) == x % M = M - 1 \/ x < Begin + M
           G       == {x \in Pool : x <= End /\ Rung(x)}
<1>1. /\ Begin \in Nat /\ Begin >= 2 /\ Begin % 2 = 0
      /\ End \in Nat /\ End = 2 * Begin - 1
  BY NetworkSize
<1>2. plan.earlier \in Nat /\ plan.earlier + 2 * skipped < Begin
  BY EarlyFits
<1>3. Succ(Begin) = Begin + 1
  <2>1. Begin % M # M - 1
    <3>1. CASE M = 8
      BY <1>1, <3>1
    <3>2. CASE M = 256
      BY <1>1, <3>2
    <3> QED BY <3>1, <3>2
  <2> QED BY <1>1, <2>1
<1>4. Succ(End) \in Nat /\ End <= Succ(End)
  <2>1. CASE End % M = M - 1
    BY <1>1, <2>1
  <2>2. CASE End % M # M - 1
    BY <1>1, <2>2
  <2> QED BY <2>1, <2>2
<1>5. /\ Pool = (Begin + skipped)..hi
      /\ hi \in Nat
      /\ Min(Pool) = Begin + skipped
      /\ Ranged
  BY <1>3, <1>4, PoolRange
<1>6. /\ skipped \in {0, 1}
      /\ hi \in {End - 1, Succ(End) - 1}
      /\ plan.earlier + skipped <= M
  OBVIOUS
<1> HIDE DEF skipped, hi
<1>7. \A x : x \in G <=> /\ x \in Nat
                         /\ Begin + skipped <= x
                         /\ x <= hi
                         /\ x <= End
                         /\ Rung(x)
  <2> HIDE DEF Rung
  <2>1. \A x : x \in Pool <=> x \in Int /\ Begin + skipped <= x /\ x <= hi
    BY <1>1, <1>5, <1>6
  <2> QED BY <1>1, <1>6, <2>1
<1> HIDE DEF G
<1>8. G \in SUBSET Nat /\ G \subseteq Begin..End
  BY <1>1, <1>6, <1>7
<1>9. hi >= End - 1
  BY <1>1, <1>4, <1>6
<1>10. Begin + skipped \in G
  <2>1. Rung(Begin + skipped)
    BY <1>1, <1>6
  <2> QED BY <1>1, <1>2, <1>6, <1>7, <1>9, <2>1
<1>11. ASSUME NEW x \in G
       PROVE  /\ Succ(x) \in Nat /\ x < Succ(x)
              /\ Interval(x) \subseteq Pool
              /\ Succ(x) \in Pool => Succ(x) \in G
              /\ \A y \in G : x < y => Succ(x) <= y
  <2>1. /\ x \in Begin..End
        /\ x \in Nat
        /\ x \in Pool
        /\ x <= hi
        /\ Rung(x)
    BY <1>1, <1>5, <1>6, <1>7, <1>8
  <2>2. /\ x % M # M - 1 => Rung(x + 1)
        /\ x % M = M - 1 /\ x < End => /\ x + M <= End
                                       /\ Rung(x + M)
                                       /\ End % M = M - 1
        /\ x % M = M - 1 => \A y \in Begin..End : x < y /\ Rung(y) => x + M <= y
    <3>1. End < M \/ Begin % M = 0
      OBVIOUS
    <3>2. x % M = M - 1 \/ x < Begin + M
      BY <2>1
    <3> HIDE DEF Rung
    <3>3. /\ M \in Int /\ (M = 8 \/ M = 256)
          /\ Begin \in Int /\ End \in Int /\ x \in Int
          /\ Begin >= 2 /\ End = 2 * Begin - 1 /\ Begin <= x /\ x <= End
      BY <1>1, <2>1
    <3>4. /\ x % M # M - 1 => (x + 1) % M = M - 1 \/ x + 1 < Begin + M
          /\ x % M = M - 1 /\ x < End => x + M <= End
          /\ x % M = M - 1 /\ x < End => (x + M) % M = M - 1
          /\ x % M = M - 1 /\ x < End => End % M = M - 1
          /\ \A y \in Int :
                 /\ x % M = M - 1
                 /\ Begin <= y /\ y <= End /\ x < y
                 /\ y % M = M - 1 \/ y < Begin + M
               => x + M <= y
      BY ONLY <3>1, <3>2, <3>3, Rungs
    <3> QED BY <1>1, <3>4 DEF Rung
  <2>3. \A y \in G : y \in Begin..End /\ y \in Nat /\ Rung(y)
    BY <1>7, <1>8
  <2>4. \A n : n \in Pool <=> n \in Int /\ Begin + skipped <= n /\ n <= hi
    BY <1>1, <1>5, <1>6
  <2> HIDE DEF Rung
  <2>5. CASE x % M # M - 1
    <3>1. Succ(x) = x + 1
      BY <2>1, <2>5
    <3>2. Interval(x) = {x}
      BY <2>1, <3>1 DEF Interval
    <3>3. Succ(x) \in Pool => Succ(x) \in G
      <4>1. x < End \/ hi < x + 1
        <5>1. x = End => hi <= End
          BY <1>1, <1>6, <2>1, <3>1
        <5> QED BY <1>1, <1>5, <2>1, <5>1
      <4>2. CASE x < End /\ x + 1 <= hi
        <5>1. Rung(x + 1)
          BY <2>2, <2>5
        <5>2. x + 1 \in Nat /\ Begin + skipped <= x + 1 /\ x + 1 <= End
          BY <1>1, <1>6, <1>7, <2>1, <4>2
        <5> QED BY <1>7, <3>1, <4>2, <5>1, <5>2
      <4>3. CASE hi < x + 1
        BY <1>5, <2>1, <2>4, <3>1, <4>3
      <4> QED BY <1>5, <2>1, <4>1, <4>2, <4>3
    <3>4. \A y \in G : x < y => Succ(x) <= y
      BY <2>1, <2>3, <3>1
    <3> QED BY <2>1, <3>1, <3>2, <3>3, <3>4
  <2>6. CASE x % M = M - 1 /\ x < End
    <3>1. Succ(x) = x + M /\ x + M <= End /\ Rung(x + M)
      BY <1>1, <2>1, <2>2, <2>6
    <3>2. Interval(x) \subseteq Pool
      BY <1>1, <1>5, <1>6, <1>9, <2>1, <2>4, <3>1 DEF Interval
    <3>3. Succ(x) \in Pool => Succ(x) \in G
      BY <1>1, <1>7, <2>1, <2>4, <3>1
    <3>4. \A y \in G : x < y => Succ(x) <= y
      BY <2>1, <2>2, <2>3, <2>6, <3>1
    <3> QED BY <2>1, <3>1, <3>2, <3>3, <3>4
  <2>7. CASE x % M = M - 1 /\ x = End
    <3>1. hi = Succ(End) - 1 /\ Succ(End) = End + M
      BY <1>1, <1>6, <2>1, <2>7
    <3>2. Interval(x) \subseteq Pool
      BY <1>1, <1>5, <1>6, <2>1, <2>4, <2>7, <3>1 DEF Interval
    <3>3. Succ(x) \notin Pool
      BY <1>1, <1>5, <2>4, <2>7, <3>1
    <3>4. \A y \in G : ~(x < y)
      BY <1>1, <2>3, <2>7
    <3> QED BY <1>1, <2>7, <3>1, <3>2, <3>3, <3>4
  <2> QED BY <1>1, <2>1, <2>5, <2>6, <2>7
<1>12. Successive(G)
  BY <1>5, <1>8, <1>10, <1>11 DEF Successive
<1>13. FirstTaken(plan.earlier) \subseteq G
  <2>1. FirstTaken(plan.earlier) = (Begin + skipped)..(Begin + skipped + plan.earlier - 1)
    BY <1>5 DEF FirstTaken
  <2>2. ASSUME NEW x \in FirstTaken(plan.earlier) PROVE x \in G
    <3>1. x \in Nat /\ Begin + skipped <= x /\ x <= Begin + skipped + plan.earlier - 1
      BY <1>1, <1>2, <1>6, <2>1, <2>2
    <3>2. x <= End - 1 /\ x < Begin + M
      BY <1>1, <1>2, <1>6, <3>1
    <3> QED BY <1>1, <1>5, <1>7, <1>9, <3>1, <3>2
  <2> QED BY <2>2
<1> QED BY <1>5, <1>8, <1>12, <1>13

\* The increment of a prefix of whole bytes goes through the values of the last
\* byte, and after that through those of the byte before.
LEMMA WholeBytes ==
  ASSUME plan \in Plans, plan.version = 6, plan.prefix % 8 = 0
  PROVE  /\ End < 256 \/ Begin % 256 = 0
         /\ \A x \in Begin..End : x % 256 # 255 => Succ(x) = x + 1
         /\ \A x \in Begin..(End - 1) : x % 256 = 255 => Succ(x) = x + 256
         /\ End % 256 = 255 => Succ(End) \in {End, End + 256}
<1> DEFINE b == plan.prefix \div 8
<1>1. plan.prefix \in {8, 16}
  BY PlanAssumption
<1>2. b \in {1, 2} /\ (b = 1 => plan.prefix <= 8)
  BY <1>1
<1>3. /\ Begin \in Nat /\ Begin >= 2
      /\ End \in Nat /\ End = 2 * Begin - 1
      /\ Begin <= 128 \/ (Begin % 256 = 0 /\ Begin <= 32768)
      /\ b = 1 => Begin <= 128
  BY <1>2, NetworkSize
<1> HIDE DEF b
<1>4. ASSUME NEW x \in Nat PROVE Succ(x) = Increment(x, b)
  <2>1. NextAddress(x) = Increment(x, b)
    BY DEF NextAddress, b
  <2>2. NextSubnet(x, plan.prefix) = Increment(x, b)
    <3>1. 2^(plan.prefix % 8) = 1
      BY Powers
    <3>2. x \div 1 = x /\ x % 1 = 0
      OBVIOUS
    <3>3. NextSubnet6(x, plan.prefix) = 1 * Increment(x, b) + 0
      BY <3>1, <3>2 DEF NextSubnet6, b
    <3>4. Increment(x, b) \in Nat
      BY <1>2, Increments
    <3>5. 1 * Increment(x, b) + 0 = Increment(x, b)
      BY <3>4
    <3> QED BY <3>3, <3>5 DEF NextSubnet
  <2> QED BY <2>1, <2>2 DEF Succ
<1>5. ASSUME NEW x \in Nat
      PROVE  Succ(x) = IF x % 256 # 255 THEN x + 1
                       ELSE IF b = 2 /\ (x \div 256) % 256 # 255
                       THEN x + 256 ELSE x
  BY <1>2, <1>4, Increments
<1>6. \A x \in Begin..End : x % 256 # 255 => Succ(x) = x + 1
  BY <1>3, <1>5
<1>7. ASSUME NEW x \in Begin..(End - 1), x % 256 = 255 PROVE Succ(x) = x + 256
  <2>1. x \in Nat /\ Begin <= x /\ x < End
    BY <1>3
  <2>2. b = 2
    BY <1>2, <1>3, <1>7, <2>1
  <2>3. x < 65535
    BY <1>3, <2>1
  <2>4. (x \div 256) % 256 # 255
    BY <1>7, <2>1, <2>3
  <2> QED BY <1>5, <1>7, <2>1, <2>2, <2>4
<1>8. End % 256 = 255 => Succ(End) \in {End, End + 256}
  BY <1>3, <1>5
<1>9. End < 256 \/ Begin % 256 = 0
  BY <1>3
<1> QED BY <1>6, <1>7, <1>8, <1>9

\* The odd bits go up to where the last three are ones.
LEMMA OddBits ==
  ASSUME NEW x \in Nat, NEW prefix \in Nat, prefix % 8 >= 3, x % 8 # 7
  PROVE  NextSubnet6(x, prefix) = x + 1
<1> DEFINE r    == prefix % 8
           odd  == 2^r
           bits == x % odd
<1>1. r \in 3..7
  OBVIOUS
<1>2. odd \in {8, 16, 32, 64, 128}
  BY <1>1, Powers
<1>3. /\ odd > 1
      /\ bits % 8 = x % 8
      /\ bits \in Nat
      /\ (bits + 1) % odd = bits + 1
  <2> HIDE DEF odd
  <2>1. CASE odd = 8
    BY <2>1
  <2>2. CASE odd = 16
    BY <2>2
  <2>3. CASE odd = 32
    BY <2>3
  <2>4. CASE odd = 64
    BY <2>4
  <2>5. CASE odd = 128
    BY <2>5
  <2> QED BY <1>2, <2>1, <2>2, <2>3, <2>4, <2>5
<1>4. NextSubnet6(x, prefix) = IF odd > 1 /\ bits % 8 # 7
                               THEN (x - bits) + ((bits + 1) % odd)
                               ELSE odd * Increment(x \div odd, prefix \div 8) + bits
  BY DEF NextSubnet6
<1> HIDE DEF odd, bits
<1> QED BY <1>3, <1>4

\* The increment of a prefix with three odd bits goes through their values, and
\* after that through those of the byte before.
LEMMA ThreeOddBits ==
  ASSUME plan \in Plans, plan.version = 6, plan.prefix = 11
  PROVE  /\ End < 8 \/ Begin % 8 = 0
         /\ \A x \in Begin..End : x % 8 # 7 => Succ(x) = x + 1
         /\ \A x \in Begin..(End - 1) : x % 8 = 7 => Succ(x) = x + 8
         /\ End % 8 = 7 => Succ(End) \in {End, End + 8}
<1>1. /\ Begin \in Nat /\ Begin >= 2 /\ Begin <= 1024
      /\ End \in Nat /\ End = 2 * Begin - 1
      /\ Begin \in {2, 4} \/ Begin % 8 = 0
  BY NetworkSize
<1>2. plan.of = "subnets"
  BY PlanAssumption
<1>3. \A x : Succ(x) = NextSubnet6(x, 11)
  BY <1>2 DEF Succ, NextSubnet
<1>4. ASSUME NEW x \in Nat, x % 8 # 7 PROVE Succ(x) = x + 1
  BY <1>3, <1>4, OddBits
<1>5. ASSUME NEW x \in Nat, x % 8 = 7
      PROVE  Succ(x) = IF (x \div 8) % 256 # 255 THEN x + 8 ELSE x
  <2>1. 2^(11 % 8) = 8 /\ 11 \div 8 = 1
    BY Powers
  <2>2. NextSubnet6(x, 11) = 8 * Increment(x \div 8, 1) + 7
    BY <1>5, <2>1 DEF NextSubnet6
  <2>3. x \div 8 \in Nat /\ x = 8 * (x \div 8) + 7
    BY <1>5
  <2>4. Increment(x \div 8, 1) = IF (x \div 8) % 256 # 255 THEN x \div 8 + 1 ELSE x \div 8
    BY <2>3, Increments
  <2>5. CASE (x \div 8) % 256 # 255
    BY <1>3, <2>2, <2>3, <2>4, <2>5
  <2>6. CASE (x \div 8) % 256 = 255
    BY <1>3, <2>2, <2>3, <2>4, <2>6
  <2> QED BY <2>3, <2>5, <2>6
<1>6. ASSUME NEW x \in Begin..(End - 1), x % 8 = 7 PROVE Succ(x) = x + 8
  <2>1. x \in Nat /\ x < 2047
    BY <1>1
  <2>2. (x \div 8) % 256 # 255
    BY <1>6, <2>1
  <2> QED BY <1>5, <1>6, <2>1, <2>2
<1>7. End % 8 = 7 => Succ(End) \in {End, End + 8}
  BY <1>1, <1>5
<1>8. End < 8 \/ Begin % 8 = 0
  BY <1>1
<1>9. \A x \in Begin..End : x % 8 # 7 => Succ(x) = x + 1
  BY <1>1, <1>4
<1> QED BY <1>6, <1>7, <1>8, <1>9

\* The increment never leads back.
LEMMA IncrementUp ==
  ASSUME NEW n \in Nat, NEW b \in 0..2
  PROVE  Increment(n, b) \in Nat /\ n <= Increment(n, b)
<1>1. CASE b = 0
  BY <1>1, NoByte
<1>2. CASE b \in {1, 2}
  BY <1>2, Increments
<1> QED BY <1>1, <1>2

\* With three bits that vary, in a prefix of at least three odd bits, the
\* increment goes through the network one by one.
LEMMA FewBits ==
  ASSUME plan \in Plans, plan.version = 6,
         plan.prefix % 8 >= 3, plan.prefix - plan.network <= 3
  PROVE  /\ \A x \in Begin..(End - 1) : Succ(x) = x + 1
         /\ Succ(End) \in Nat /\ End <= Succ(End)
<1>1. /\ Begin \in {2, 4, 8}
      /\ End = 2 * Begin - 1 /\ End \in Nat
  BY NetworkSize
<1>2. plan.of = "subnets" /\ plan.prefix \in 2..16
  BY PlanAssumption
<1>3. \A x : Succ(x) = NextSubnet6(x, plan.prefix)
  BY <1>2 DEF Succ, NextSubnet
<1>4. ASSUME NEW x \in Nat, x % 8 # 7 PROVE Succ(x) = x + 1
  BY <1>2, <1>3, <1>4, OddBits
<1>5. ASSUME NEW x \in Begin..(End - 1) PROVE Succ(x) = x + 1
  <2>1. x \in Nat /\ x % 8 # 7
    BY <1>1
  <2> QED BY <1>4, <2>1
<1>6. CASE End % 8 # 7
  BY <1>1, <1>4, <1>5, <1>6
<1>7. CASE End % 8 = 7
  <2> DEFINE odd == 2^(plan.prefix % 8)
             b   == plan.prefix \div 8
  <2>1. odd \in {8, 16, 32, 64, 128}
    <3>1. plan.prefix % 8 \in 3..7
      BY <1>2
    <3> QED BY <3>1, Powers
  <2>2. b \in 0..2
    BY <1>2
  <2>3. Succ(End) = odd * Increment(End \div odd, b) + (End % odd)
    <3>1. (End % odd) % 8 = 7
      <4> HIDE DEF odd
      <4>1. CASE odd = 8
        BY <1>1, <1>7, <4>1
      <4>2. CASE odd # 8
        <5>1. End % odd = End
          BY <1>1, <2>1, <4>2
        <5> QED BY <1>7, <5>1
      <4> QED BY <4>1, <4>2
    <3>2. NextSubnet6(End, plan.prefix) =
             IF odd > 1 /\ (End % odd) % 8 # 7
             THEN (End - (End % odd)) + (((End % odd) + 1) % odd)
             ELSE odd * Increment(End \div odd, b) + (End % odd)
      BY DEF NextSubnet6
    <3> HIDE DEF odd, b
    <3> QED BY <1>3, <3>1, <3>2
  <2> HIDE DEF odd, b
  <2> DEFINE up == Increment(End \div odd, b)
  <2>4. /\ End \div odd \in Nat
        /\ End % odd \in Nat
        /\ End = odd * (End \div odd) + (End % odd)
    <3>1. CASE odd = 8
      BY <1>1, <3>1
    <3>2. CASE odd = 16
      BY <1>1, <3>2
    <3>3. CASE odd = 32
      BY <1>1, <3>3
    <3>4. CASE odd = 64
      BY <1>1, <3>4
    <3>5. CASE odd = 128
      BY <1>1, <3>5
    <3> QED BY <2>1, <3>1, <3>2, <3>3, <3>4, <3>5
  <2>5. up \in Nat /\ End \div odd <= up
    BY <2>2, <2>4, IncrementUp
  <2> HIDE DEF up
  <2>6. odd * up \in Nat /\ odd * (End \div odd) <= odd * up
    BY <2>1, <2>4, <2>5
  <2>7. Succ(End) = odd * up + (End % odd)
    BY <2>3 DEF up
  <2> DEFINE s == odd * up
             t == odd * (End \div odd)
             u == End % odd
  <2>8. s \in Nat /\ t \in Int /\ u \in Nat /\ t <= s /\ End = t + u /\ Succ(End) = s + u
    <3>1. t \in Int
      BY <2>1, <2>4
    <3> QED BY <2>4, <2>6, <2>7, <3>1
  <2> HIDE DEF s, t, u
  <2>9. Succ(End) \in Nat /\ End <= Succ(End)
    BY <1>1, <2>8
  <2> QED BY <1>5, <2>9
<1> QED BY <1>6, <1>7

\* In IPv4 the increment adds one.
LEMMA Version4 ==
  ASSUME plan \in Plans, plan.version = 4
  PROVE  \A x : Succ(x) = x + 1
BY DEF Succ, NextSubnet, NextAddress, Next4

\* The pool of a sound plan has a grid, and the earlier agents are on it.
LEMMA OrderlyPlan ==
  ASSUME plan \in Plans, Sound(plan), Early(plan)
  PROVE  /\ Ranged
         /\ \E G \in SUBSET Nat : Successive(G) /\ FirstTaken(plan.earlier) \subseteq G
<1>1. /\ Begin \in Nat /\ Begin >= 2
      /\ End \in Nat /\ End = 2 * Begin - 1
  BY NetworkSize
<1>2. plan.version \in {4, 6} /\ plan.prefix \in 2..16
  BY PlanAssumption
<1>3. CASE plan.version = 4
  <2>1. \A x : Succ(x) = x + 1
    BY <1>3, Version4
  <2>2. \A x \in Begin..(End - 1) : Succ(x) = x + 1
    BY <2>1
  <2>3. Succ(End) \in Nat /\ End <= Succ(End)
    BY <1>1, <2>1
  <2> QED BY <2>2, <2>3, Plain
<1>4. CASE plan.version = 6 /\ plan.prefix % 8 = 0
  <2>1. plan.earlier + (IF plan.of = "addresses" THEN 1 ELSE 0) <= 256
    BY <1>4, EarlyFits
  <2> QED BY <1>4, <2>1, WholeBytes, Ladder
<1>5. CASE plan.version = 6 /\ plan.prefix = 11
  <2>1. plan.earlier + (IF plan.of = "addresses" THEN 1 ELSE 0) <= 8
    BY <1>5, EarlyFits
  <2> QED BY <1>5, <2>1, ThreeOddBits, Ladder
<1>6. CASE plan.version = 6 /\ plan.prefix % 8 >= 3 /\ plan.prefix - plan.network <= 3
  BY <1>6, FewBits, Plain
<1> QED BY <1>2, <1>3, <1>4, <1>5, <1>6 DEF Sound

-----------------------------------------------------------------------------
(* The theorems                                                             *)

\* A new pool is what the earlier agents leave.
LEMMA InitInv ==
  ASSUME \A p \in Plans : Sound(p) /\ Early(p), Init
  PROVE  GridInv
<1>1. /\ plan \in Plans
      /\ earlier = FirstTaken(plan.earlier)
      /\ free = Pool \ Covered(earlier)
      /\ held = [a \in Agents |-> None]
  BY DEF Init
<1>2. PICK G \in SUBSET Nat : Successive(G) /\ FirstTaken(plan.earlier) \subseteq G
  BY <1>1, OrderlyPlan
<1>3. Held = earlier
  BY <1>1 DEF Held
<1>4. NothingLost
  BY <1>1, <1>3 DEF NothingLost
<1>5. Exclusive
  BY <1>1 DEF Exclusive
<1> QED BY <1>1, <1>2, <1>3, <1>4, <1>5 DEF GridInv

\* No step leaves the grid.
LEMMA NextInv ==
  ASSUME \A p \in Plans : Sound(p) /\ Early(p), GridInv, [Next]_vars
  PROVE  GridInv'
<1>1. ASSUME NEW a \in Agents, AllocateSubnet(a) \/ AllocateIP(a) PROVE GridInv'
  <2>1. plan \in Plans => Ranged
    BY OrderlyPlan
  <2> QED BY <1>1, <2>1, TakeInv DEF AllocateSubnet, AllocateIP
<1>2. ASSUME NEW a \in Agents, FreeSubnet(a) \/ DeallocateIP(a) PROVE GridInv'
  BY <1>2, GiveBackInv DEF FreeSubnet, DeallocateIP
<1>3. CASE Recover
  BY <1>3, RecoverInv
<1>4. CASE UNCHANGED vars
  <2>1. UNCHANGED <<plan, free, held, earlier>>
    BY <1>4 DEF vars
  <2>2. PICK G \in SUBSET Nat : Successive(G) /\ Held \subseteq G /\ earlier \subseteq G
    BY DEF GridInv
  <2>3. Successive(G)' /\ Held' = Held
    BY <2>1, <2>2, GridStays DEF Held
  <2>4. Pool' = Pool /\ \A y : Interval(y)' = Interval(y)
    BY <2>1, SamePlan
  <2>5. NothingLost' /\ Exclusive'
    BY <2>1, <2>3, <2>4 DEF NothingLost, Exclusive, Covered, GridInv
  <2> QED BY <2>1, <2>2, <2>3, <2>5 DEF GridInv
<1> QED BY <1>1, <1>2, <1>3, <1>4 DEF Next

\* What every reachable state keeps: the free list of an overlay or a VTEP is
\* what the elements of a grid leave, each of them with one agent.
THEOREM GridInductive ==
  ASSUME \A p \in Plans : Sound(p) /\ Early(p) PROVE Spec => []GridInv
<1>1. Init => GridInv
  BY InitInv
<1>2. GridInv /\ [Next]_vars => GridInv'
  BY NextInv
<1> QED BY <1>1, <1>2, PTL DEF Spec

\* Every agent is given a number, and the pool is a part of what the network
\* begins with.
THEOREM TypeCorrect ==
  ASSUME \A p \in Plans : Sound(p) /\ Early(p) PROVE Spec => []TypeOK
<1>1. GridInv => TypeOK
  BY DEF GridInv, TypeOK, NothingLost
<1> QED BY <1>1, GridInductive, PTL

\* allocate and allocateIP hand out what nobody holds, after any sequence of
\* allocations, deallocations and recoveries.
THEOREM Apart ==
  ASSUME \A p \in Plans : Sound(p) /\ Early(p) PROVE Spec => []Exclusive
<1>1. GridInv => Exclusive
  BY DEF GridInv
<1> QED BY <1>1, GridInductive, PTL

\* What allocate and allocateIP hand out is a part of the network, also where
\* an increment carries.
THEOREM Inside ==
  ASSUME \A p \in Plans : Sound(p) /\ Early(p) PROVE Spec => []WithinNetwork
<1>1. GridInv => WithinNetwork
  BY DEF GridInv, WithinNetwork, Successive
<1> QED BY <1>1, GridInductive, PTL

\* The pool is full again when all is given back: free puts back the interval
\* that allocate took out.
THEOREM Complete ==
  ASSUME \A p \in Plans : Sound(p) /\ Early(p) PROVE Spec => []NothingLost
<1>1. GridInv => NothingLost
  BY DEF GridInv
<1> QED BY <1>1, GridInductive, PTL

\* A master that recovers can reserve all that the log says is held.
THEOREM Reservable ==
  ASSUME \A p \in Plans : Sound(p) /\ Early(p) PROVE Spec => []Recoverable
<1>1. GridInv => Recoverable
  BY HeldReservable
<1> QED BY <1>1, GridInductive, PTL

\* The increment of a prefix that ends in a zero bit sets that bit, in IPv4 and
\* in IPv6, whichever bits of the byte it is among.
LEMMA NextOfEven ==
  ASSUME plan \in Plans, NEW x \in Nat
  PROVE  DockerBridge(x) = 2 * x + 1
<1> DEFINE q   == plan.prefix + 1
           odd == 2^(q % 8)
           n   == 2 * x
<1>1. q \in 3..17 /\ plan.version \in {4, 6} /\ n \in Nat /\ n % 2 = 0
  BY PlanAssumption
<1>2. DockerBridge(x) = NextSubnet(n, q)
  BY DEF DockerBridge, MesosBridge
<1>3. CASE plan.version = 4
  BY <1>2, <1>3 DEF NextSubnet, Next4
<1>4. CASE plan.version = 6
  <2>1. DockerBridge(x) = NextSubnet6(n, q)
    BY <1>2, <1>4 DEF NextSubnet
  <2>2. NextSubnet6(n, q) = IF odd > 1 /\ (n % odd) % 8 # 7
                            THEN (n - (n % odd)) + (((n % odd) + 1) % odd)
                            ELSE odd * Increment(n \div odd, q \div 8) + (n % odd)
    <3> HIDE DEF n, q
    <3> QED BY DEF NextSubnet6
  <2>3. CASE q % 8 = 0
    <3>1. odd = 1
      BY <2>3, Powers
    <3>2. q \div 8 \in {1, 2}
      BY <1>1, <2>3
    <3>3. n \div 1 = n /\ n % 1 = 0 /\ n % 256 # 255
      BY <1>1
    <3>4. Increment(n, q \div 8) = n + 1
      <4> HIDE DEF n, q
      <4> QED BY <1>1, <3>2, <3>3, Increments
    <3>5. NextSubnet6(n, q) = 1 * (n + 1) + 0
      <4> HIDE DEF n, q, odd
      <4>1. n \div odd = n /\ n % odd = 0
        BY <3>1, <3>3
      <4>2. ~(odd > 1)
        BY <3>1
      <4>3. NextSubnet6(n, q) = odd * Increment(n \div odd, q \div 8) + (n % odd)
        BY <2>2, <4>2
      <4> QED BY <3>1, <3>4, <4>1, <4>3
    <3> QED BY <1>1, <2>1, <3>5
  <2>4. CASE q % 8 # 0
    <3>1. odd \in {2, 4, 8, 16, 32, 64, 128}
      <4>1. q % 8 \in 1..7
        BY <1>1, <2>4
      <4> HIDE DEF q
      <4> QED BY <4>1, Powers
    <3> HIDE DEF n, q, odd
    <3>2. /\ odd > 1
          /\ n % odd \in Nat
          /\ (n % odd) % 8 # 7
          /\ ((n % odd) + 1) % odd = (n % odd) + 1
      <4>1. CASE odd = 2
        BY <1>1, <4>1
      <4>2. CASE odd = 4
        BY <1>1, <4>2
      <4>3. CASE odd = 8
        BY <1>1, <4>3
      <4>4. CASE odd = 16
        BY <1>1, <4>4
      <4>5. CASE odd = 32
        BY <1>1, <4>5
      <4>6. CASE odd = 64
        BY <1>1, <4>6
      <4>7. CASE odd = 128
        BY <1>1, <4>7
      <4> QED BY <3>1, <4>1, <4>2, <4>3, <4>4, <4>5, <4>6, <4>7
    <3>3. NextSubnet6(n, q) = n + 1
      <4>1. NextSubnet6(n, q) = (n - (n % odd)) + (((n % odd) + 1) % odd)
        BY <2>2, <3>2
      <4> DEFINE u == n % odd
      <4>2. NextSubnet6(n, q) = (n - u) + (u + 1) /\ u \in Nat
        BY <3>2, <4>1
      <4> HIDE DEF u
      <4> QED BY <1>1, <4>2
    <3> QED BY <2>1, <3>3 DEF n
  <2> QED BY <2>3, <2>4
<1> QED BY <1>1, <1>3, <1>4

\* The Mesos bridge and the Docker bridge of an agent halve its subnet.
THEOREM Halves ==
  ASSUME \A p \in Plans : Sound(p) /\ Early(p) PROVE Spec => []BridgesHalve
<1>1. ASSUME GridInv PROVE BridgesHalve
  <2>1. Held \subseteq Nat /\ plan \in Plans
    BY <1>1 DEF GridInv
  <2>2. \A x \in Held : DockerBridge(x) = 2 * x + 1
    BY <2>1, NextOfEven
  <2> QED BY <2>2 DEF BridgesHalve, MesosBridge
<1> QED BY <1>1, GridInductive, PTL
=============================================================================
