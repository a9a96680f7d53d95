---------------------------- MODULE SlabPool_proofs ----------------------------
(***************************************************************************)
(* The slab pools' lists and counters, for every set of blocks, every      *)
(* sequence of slab sizes, every request and every width of size_t.        *)
(***************************************************************************)
EXTENDS SlabPool, FiniteSetTheorems, SequenceTheorems, WellFoundedInduction, TLAPS

-----------------------------------------------------------------------------
(***************************************************************************)
(* Counting modulo Wrap.                                                   *)
(***************************************************************************)
\* A number is made of its quotient and its remainder, and of no other.
LEMMA Remainder ==
    ASSUME NEW a \in Int
    PROVE  /\ a % Wrap \in 0..(Wrap - 1) /\ a \div Wrap \in Int
           /\ a = Wrap * (a \div Wrap) + (a % Wrap)
BY SlabAssumption

LEMMA NoOtherRemainder ==
    ASSUME NEW a \in Int, NEW q \in Int, NEW r \in 0..(Wrap - 1), a = Wrap * q + r
    PROVE  a % Wrap = r
BY SlabAssumption

\* Wrapping makes no number larger.
LEMMA RemainderBound ==
    ASSUME NEW c \in Nat
    PROVE  c % Wrap <= c
<1>1. PICK q, r \in Int : c = Wrap * q + r /\ r = c % Wrap /\ r \in 0..(Wrap - 1)
  BY Remainder
<1>2. CASE c < Wrap
  <2>1. c \in 0..(Wrap - 1) /\ c = Wrap * 0 + c
    BY <1>2, SlabAssumption
  <2>2. c % Wrap = c
    BY <2>1, NoOtherRemainder
  <2> QED BY <2>2
<1>3. CASE c >= Wrap
  BY <1>1, <1>3, SlabAssumption
<1> QED BY <1>2, <1>3, SlabAssumption

\* It does not matter when the wrapping is done.
LEMMA WrapLater ==
    ASSUME NEW a \in Int, NEW b \in Int
    PROVE  ((a % Wrap) + b) % Wrap = (a + b) % Wrap
<1>1. PICK q, r \in Int : a = Wrap * q + r /\ r = a % Wrap
  BY Remainder
<1>2. PICK p, s \in Int : r + b = Wrap * p + s /\ s = (r + b) % Wrap /\ s \in 0..(Wrap - 1)
  BY <1>1, Remainder
<1>3. a + b = Wrap * (q + p) + s
  <2>1. Wrap * (q + p) = Wrap * q + Wrap * p
    BY SlabAssumption
  <2>2. Wrap * q \in Int /\ Wrap * p \in Int /\ Wrap * (q + p) \in Int
    BY SlabAssumption
  <2> QED BY <1>1, <1>2, <2>1, <2>2
<1>4. (a + b) % Wrap = s
  <2>1. q + p \in Int /\ a + b \in Int
    BY <1>1, <1>2
  <2> QED BY <1>2, <1>3, <2>1, NoOtherRemainder
<1> QED BY <1>1, <1>2, <1>4

\* If one of two counters goes up or down by d, so does their sum.
LEMMA SumMoves ==
    ASSUME NEW t \in Int, NEW u \in Int, NEW c \in Int, NEW d \in Int,
           (t + u) % Wrap = c % Wrap
    PROVE  /\ (t + ((u + d) % Wrap)) % Wrap = (c + d) % Wrap
           /\ (((t + d) % Wrap) + u) % Wrap = (c + d) % Wrap
<1>1. ((t + u) + d) % Wrap = (c + d) % Wrap
  <2>1. (((t + u) % Wrap) + d) % Wrap = ((t + u) + d) % Wrap
    BY WrapLater
  <2>2. ((c % Wrap) + d) % Wrap = (c + d) % Wrap
    BY WrapLater
  <2> QED BY <2>1, <2>2
<1>2. (((u + d) % Wrap) + t) % Wrap = ((u + d) + t) % Wrap
  BY WrapLater
<1>3. (((t + d) % Wrap) + u) % Wrap = ((t + d) + u) % Wrap
  BY WrapLater
<1>4. /\ (u + d) + t = (t + u) + d /\ (t + d) + u = (t + u) + d
      /\ (u + d) % Wrap \in Int
  BY Remainder
<1> QED BY <1>1, <1>2, <1>3, <1>4

-----------------------------------------------------------------------------
(***************************************************************************)
(* The slab of a size, and the lists.                                      *)
(***************************************************************************)
\* A set of naturals has a smallest element.
LEMMA Smallest ==
    ASSUME NEW S \in SUBSET Nat, S # {}
    PROVE  \E x \in S : \A y \in S : x <= y
<1> DEFINE R == OpToRel(<, Nat)
<1>1. \A x, y \in Nat : <<x, y>> \in R <=> x < y
  BY DEF OpToRel
<1>2. IsWellFoundedOn(R, Nat)
  BY NatLessThanWellFounded
<1> HIDE DEF R
<1>3. PICK x \in S : \A y \in S : ~(<<y, x>> \in R)
  BY <1>2, WFMin
<1>4. \A y \in S : ~(y < x)
  BY <1>1, <1>3
<1> QED BY <1>4

\* A slab is a place in SLAB_SIZES, and LARGE is none.
LEMMA SlabIndex ==
    /\ LARGE \notin Slabs
    /\ \A n : slab_index(n) \in Slabs \cup {LARGE}
<1>1. Slabs = 1..Len(SLAB_SIZES) /\ Len(SLAB_SIZES) \in Nat
  BY SlabAssumption DEF Slabs
<1>2. ASSUME NEW n, {i \in Slabs : SLAB_SIZES[i] >= n} # {}
      PROVE  Min({i \in Slabs : SLAB_SIZES[i] >= n}) \in Slabs
  <2> DEFINE fit == {i \in Slabs : SLAB_SIZES[i] >= n}
  <2>1. fit \in SUBSET Nat /\ fit \subseteq Slabs
    BY <1>1
  <2>2. fit # {}
    BY <1>2
  <2> HIDE DEF fit
  <2>3. \E x \in fit : \A y \in fit : x <= y
    BY <2>1, <2>2, Smallest
  <2>4. Min(fit) \in fit
    BY <2>3 DEF Min
  <2> QED BY <2>1, <2>4 DEF fit
<1> QED BY <1>1, <1>2 DEF slab_index, LARGE

\* A block that joins a list, at either end.
LEMMA Joins ==
    ASSUME NEW S, NEW s \in Seq(S), NEW b \in S, b \notin ToSet(s), IsInjective(s),
           NEW t, t = Append(s, b) \/ t = <<b>> \o s
    PROVE  t \in Seq(S) /\ IsInjective(t) /\ ToSet(t) = ToSet(s) \cup {b}
<1>1. CASE t = Append(s, b)
  <2>1. /\ t \in Seq(S) /\ Len(t) = Len(s) + 1 /\ t[Len(s) + 1] = b
        /\ \A k \in 1..Len(s) : t[k] = s[k]
    BY <1>1
  <2> QED BY <2>1 DEF IsInjective, ToSet
<1>2. CASE t = <<b>> \o s
  <2>1. /\ t \in Seq(S) /\ Len(t) = Len(s) + 1 /\ t[1] = b
        /\ \A k \in 2..(Len(s) + 1) : t[k] = s[k - 1]
    BY <1>2
  <2>2. \A k \in 1..Len(s) : t[k + 1] = s[k]
    BY <2>1
  <2>3. ToSet(t) = ToSet(s) \cup {b}
    <3>1. \A x : x \in ToSet(s) => x \in ToSet(t)
      <4> SUFFICES ASSUME NEW k \in 1..Len(s) PROVE s[k] \in ToSet(t)
        BY DEF ToSet
      <4>1. k + 1 \in DOMAIN t /\ t[k + 1] = s[k]
        BY <2>1, <2>2
      <4> QED BY <4>1 DEF ToSet
    <3>2. \A x : x \in ToSet(t) => x \in ToSet(s) \cup {b}
      <4> SUFFICES ASSUME NEW k \in 1..(Len(s) + 1) PROVE t[k] \in ToSet(s) \cup {b}
        BY <2>1 DEF ToSet
      <4>1. k = 1 \/ (k - 1 \in DOMAIN s /\ t[k] = s[k - 1])
        BY <2>1
      <4> QED BY <2>1, <4>1 DEF ToSet
    <3>3. b \in ToSet(t)
      <4>1. 1 \in DOMAIN t
        BY <2>1
      <4> QED BY <2>1, <4>1 DEF ToSet
    <3> QED BY <3>1, <3>2, <3>3
  <2>4. IsInjective(t)
    <3> SUFFICES ASSUME NEW k \in 1..(Len(s) + 1), NEW l \in 1..(Len(s) + 1), t[k] = t[l]
                 PROVE  k = l
      BY <2>1 DEF IsInjective
    <3>1. CASE k = 1 \/ l = 1
      BY <2>1, <3>1 DEF ToSet
    <3>2. CASE k # 1 /\ l # 1
      <4>1. k - 1 \in DOMAIN s /\ l - 1 \in DOMAIN s /\ s[k - 1] = s[l - 1]
        BY <2>1, <3>2
      <4>2. k - 1 = l - 1
        BY <4>1 DEF IsInjective
      <4> QED BY <4>2
    <3> QED BY <3>1, <3>2
  <2> QED BY <2>1, <2>3, <2>4
<1> QED BY <1>1, <1>2

\* The block at the head leaves its list.
LEMMA Leaves ==
    ASSUME NEW S, NEW s \in Seq(S), s # <<>>, IsInjective(s)
    PROVE  /\ Tail(s) \in Seq(S) /\ IsInjective(Tail(s)) /\ Head(s) \in ToSet(s)
           /\ Head(s) \in S /\ ToSet(Tail(s)) = ToSet(s) \ {Head(s)}
<1>1. /\ Len(s) \in Nat \ {0} /\ Head(s) = s[1] /\ Tail(s) \in Seq(S)
      /\ Len(Tail(s)) = Len(s) - 1
      /\ \A k \in 1..(Len(s) - 1) : Tail(s)[k] = s[k + 1]
  BY EmptySeq
<1>2. Head(s) \in ToSet(s) /\ Head(s) \in S
  BY <1>1 DEF ToSet
<1>3. IsInjective(Tail(s))
  <2> SUFFICES ASSUME NEW k \in 1..(Len(s) - 1), NEW l \in 1..(Len(s) - 1),
                      Tail(s)[k] = Tail(s)[l]
               PROVE  k = l
    BY <1>1 DEF IsInjective
  <2>1. k + 1 \in DOMAIN s /\ l + 1 \in DOMAIN s /\ s[k + 1] = s[l + 1]
    BY <1>1
  <2>2. k + 1 = l + 1
    BY <2>1 DEF IsInjective
  <2> QED BY <2>2
<1>4. \A x : x \in ToSet(Tail(s)) <=> x \in ToSet(s) /\ x # Head(s)
  <2> TAKE x
  <2>1. ASSUME x \in ToSet(Tail(s)) PROVE x \in ToSet(s) /\ x # Head(s)
    <3>1. PICK k \in 1..(Len(s) - 1) : x = s[k + 1]
      BY <1>1, <2>1 DEF ToSet
    <3>2. k + 1 \in DOMAIN s /\ 1 \in DOMAIN s /\ k + 1 # 1
      BY <1>1
    <3> QED BY <1>1, <3>1, <3>2 DEF ToSet, IsInjective
  <2>2. ASSUME x \in ToSet(s), x # Head(s) PROVE x \in ToSet(Tail(s))
    <3>1. PICK k \in 1..Len(s) : x = s[k]
      BY <2>2 DEF ToSet
    <3>2. k - 1 \in 1..(Len(s) - 1) /\ Tail(s)[k - 1] = x
      BY <1>1, <2>2, <3>1
    <3>3. k - 1 \in DOMAIN Tail(s)
      BY <1>1, <3>2
    <3> QED BY <3>2, <3>3 DEF ToSet
  <2> QED BY <2>1, <2>2
<1> QED BY <1>1, <1>2, <1>3, <1>4

-----------------------------------------------------------------------------
(***************************************************************************)
(* What the invariant says of each block, and what handing one out does.   *)
(***************************************************************************)
Held(i) == {b \in heap : slab_index(room[b]) = i}
Listed(i) == ToSet(free_list[i])

LEMMA Places ==
    ASSUME IInv, ~destroyed
    PROVE  /\ \A x : x \in heap <=> x \in active \/ \E j \in Slabs : x \in Listed(j)
           /\ \A j \in Slabs : /\ free_list[j] \in Seq(Blocks) /\ IsInjective(free_list[j])
                               /\ \A x \in Listed(j) : x \notin active /\ slab_index(room[x]) = j
           /\ heap \subseteq Blocks /\ active \subseteq heap
           /\ \A x \in active : slab_index(asked[x]) = slab_index(room[x])
           /\ \A x \in heap : slab_index(size[x]) = slab_index(room[x])
BY DEF IInv, TypeOK, BlockInv, EachBlockInOnePlace, Listed

LEMMA Finite ==
    ASSUME IInv, ~destroyed, NEW j
    PROVE  /\ IsFiniteSet(heap) /\ IsFiniteSet(ActiveOf(j)) /\ IsFiniteSet(Held(j))
           /\ Cardinality(ActiveOf(j)) \in Nat /\ Cardinality(Held(j)) \in Nat
<1>1. IsFiniteSet(heap) /\ ActiveOf(j) \in SUBSET heap /\ Held(j) \in SUBSET heap
  BY Places DEF IInv, BlockInv, ActiveOf, Held
<1>2. IsFiniteSet(ActiveOf(j)) /\ IsFiniteSet(Held(j))
  BY <1>1, FS_Subset
<1> QED BY <1>1, <1>2, FS_CardinalityType

\* The block becomes one of its slab's active blocks, and peak follows.
LEMMA HandOutEffect ==
    ASSUME IInv, ~destroyed, NEW b \in Blocks, b \notin active, NEW n \in Requests,
           HandOut(b, n), NEW j \in Slabs
    PROVE  /\ Cardinality(ActiveOf(j))' =
                Cardinality(ActiveOf(j)) + (IF j = slab_index(n) THEN 1 ELSE 0)
           /\ peak' \in [Slabs -> Nat] /\ peak'[j] >= peak[j]
           /\ Cardinality(ActiveOf(j))' <= peak'[j]
<1>1. /\ active' = active \cup {b} /\ asked' = [asked EXCEPT ![b] = n]
      /\ asked \in [Blocks -> {0} \cup Requests] /\ active \subseteq Blocks
      /\ peak \in [Slabs -> Nat]
  BY DEF HandOut, IInv, TypeOK
<1>2. ActiveOf(j)' = IF j = slab_index(n) THEN ActiveOf(j) \cup {b} ELSE ActiveOf(j)
  <2>1. asked'[b] = n /\ \A x \in active : asked'[x] = asked[x]
    BY <1>1
  <2> QED BY <1>1, <2>1 DEF ActiveOf
<1>3. b \notin ActiveOf(j) /\ IsFiniteSet(ActiveOf(j)) /\ Cardinality(ActiveOf(j)) \in Nat
  BY Finite DEF ActiveOf
<1>4. Cardinality(ActiveOf(j) \cup {b}) = Cardinality(ActiveOf(j)) + 1
  BY <1>3, FS_AddElement
<1>5. Cardinality(ActiveOf(j)) <= peak[j]
  BY DEF IInv, PeakInv
<1>6. CASE slab_index(n) = LARGE
  <2>1. peak' = peak /\ j # slab_index(n)
    BY <1>6, SlabIndex DEF HandOut
  <2> QED BY <1>1, <1>2, <1>3, <1>5, <2>1
<1>7. CASE slab_index(n) # LARGE
  <2> DEFINE i == slab_index(n)
             c == Cardinality(ActiveOf(i))
             m == Larger(peak[i], c + 1)
  <2>1. i \in Slabs /\ c \in Nat /\ peak[i] \in Nat
    BY <1>1, <1>7, SlabIndex, Finite
  <2>2. peak' = [peak EXCEPT ![i] = m]
    BY <1>7 DEF HandOut
  <2> HIDE DEF i, c
  <2>3. m \in Nat /\ m >= peak[i] /\ m >= c + 1
    BY <2>1 DEF Larger
  <2> HIDE DEF m
  <2>4. peak' \in [Slabs -> Nat] /\ peak'[i] = m /\ \A k \in Slabs \ {i} : peak'[k] = peak[k]
    BY <1>1, <2>1, <2>2, <2>3
  <2>5. CASE j = i
    <3>1. Cardinality(ActiveOf(j))' = Cardinality(ActiveOf(j)) + 1
      BY <1>2, <1>4, <2>5 DEF i
    <3>2. c = Cardinality(ActiveOf(j))
      BY <2>5 DEF c
    <3> QED BY <2>3, <2>4, <2>5, <3>1, <3>2 DEF i
  <2>6. CASE j # i
    <3>1. Cardinality(ActiveOf(j))' = Cardinality(ActiveOf(j))
      BY <1>2, <2>6 DEF i
    <3>2. peak'[j] = peak[j]
      BY <2>4, <2>6
    <3> QED BY <1>1, <1>3, <1>5, <2>4, <2>6, <3>1, <3>2 DEF i
  <2> QED BY <2>5, <2>6
<1> QED BY <1>6, <1>7

\* The two counters of a slab, when one of them moves with the active blocks.
LEMMA Counted ==
    ASSUME IInv, ~destroyed, NEW j \in Slabs
    PROVE  /\ total[j] \in 0..(Wrap - 1) /\ in_use[j] \in 0..(Wrap - 1)
           /\ total[j] = Cardinality(Held(j)) % Wrap /\ total[j] <= peak[j]
           /\ (total[j] + in_use[j]) % Wrap = Cardinality(ActiveOf(j)) % Wrap
BY DEF IInv, TypeOK, ReuseBoundsTheHeap, CountersAddUp, Held

-----------------------------------------------------------------------------
(***************************************************************************)
(* The invariant is preserved.                                             *)
(***************************************************************************)
LEMMA InitIInv == Init => IInv
<1> SUFFICES ASSUME Init PROVE IInv
  OBVIOUS
<1>1. TypeOK
  <2>1. /\ room \in [Blocks -> {0} \cup Requests] /\ intact \in [Blocks -> BOOLEAN]
        /\ size = room /\ asked = room /\ heap \subseteq Blocks /\ active \subseteq Blocks
        /\ cxx \in BOOLEAN /\ destroyed \in BOOLEAN
    BY DEF Init
  <2>2. free_list \in [Slabs -> Seq(Blocks)]
    BY DEF Init
  <2>3. /\ total \in [Slabs -> 0..(Wrap - 1)] /\ in_use \in [Slabs -> 0..(Wrap - 1)]
        /\ peak \in [Slabs -> Nat]
    <3>1. 0 \in 0..(Wrap - 1) /\ 0 \in Nat
      BY SlabAssumption
    <3> QED BY <3>1 DEF Init
  <2> QED BY <2>1, <2>2, <2>3 DEF TypeOK
<1>2. heap = {} /\ active = {} /\ IsFiniteSet(heap) /\ ~destroyed
  BY FS_EmptySet DEF Init
<1>3. \A j \in Slabs : ActiveOf(j) = {} /\ {b \in heap : slab_index(room[b]) = j} = {}
                       /\ total[j] = 0 /\ in_use[j] = 0 /\ peak[j] = 0
  BY <1>2 DEF Init, ActiveOf
<1>4. Cardinality({}) = 0 /\ 0 % Wrap = 0 /\ (0 + 0) % Wrap = 0
  BY FS_EmptySet, SlabAssumption
<1>5. \A j \in Slabs : free_list[j] = <<>> /\ ToSet(free_list[j]) = {}
                       /\ IsInjective(free_list[j])
  BY DEF Init, ToSet, IsInjective
<1>6. EachBlockInOnePlace
  BY <1>2, <1>5 DEF EachBlockInOnePlace
<1>7. BlockInv /\ PeakInv
  BY <1>2, <1>3, <1>4 DEF BlockInv, PeakInv
<1>8. ReuseBoundsTheHeap
  BY <1>3, <1>4 DEF ReuseBoundsTheHeap
<1>9. CountersAddUp
  BY <1>3, <1>4 DEF CountersAddUp
<1> QED BY <1>9, <1>1, <1>6, <1>7, <1>8 DEF IInv

\* A free block of the slab is used again.
LEMMA ReuseStep == ASSUME IInv, NEW n \in Requests, Reuse(n) PROVE IInv'
<1> DEFINE i == slab_index(n)
           b == Head(free_list[i])
<1>0. /\ ~destroyed /\ i \in Slabs /\ free_list[i] # <<>> /\ destroyed' = destroyed
      /\ cxx' = cxx /\ heap' = heap /\ room' = room /\ total' = total
      /\ free_list' = [free_list EXCEPT ![i] = Tail(free_list[i])]
      /\ active' = active \cup {b} /\ asked' = [asked EXCEPT ![b] = n]
      /\ in_use' = [in_use EXCEPT ![i] = (in_use[i] + 1) % Wrap]
      /\ HandOut(b, n) /\ TypeOK
      /\ size' = IF cxx THEN [size EXCEPT ![b] = n] ELSE size
      /\ intact' = IF cxx THEN [intact EXCEPT ![b] = TRUE] ELSE intact
  BY DEF Reuse, HasFree, HandOut, IInv
<1>1. /\ Tail(free_list[i]) \in Seq(Blocks) /\ IsInjective(Tail(free_list[i]))
      /\ b \in Listed(i) /\ b \in Blocks
      /\ ToSet(Tail(free_list[i])) = Listed(i) \ {b}
  BY <1>0, Places, Leaves DEF Listed
<1>2. b \notin active /\ slab_index(room[b]) = i /\ b \in heap
      /\ \A j \in Slabs \ {i} : b \notin Listed(j)
  BY <1>0, <1>1, Places
<1>s. slab_index(n) = i
  OBVIOUS
<1> HIDE DEF b, i
<1>3. /\ free_list' \in [Slabs -> Seq(Blocks)]
      /\ Listed(i)' = Listed(i) \ {b} /\ IsInjective(free_list'[i])
      /\ \A j \in Slabs \ {i} : free_list'[j] = free_list[j]
  <2>1. free_list'[i] = Tail(free_list[i])
    BY <1>0 DEF TypeOK
  <2>2. i' = i
    BY DEF i
  <2> QED BY <1>0, <1>1, <2>1, <2>2 DEF Listed, TypeOK
<1>4. \A j \in Slabs : /\ Cardinality(ActiveOf(j))' =
                            Cardinality(ActiveOf(j)) + (IF j = i THEN 1 ELSE 0)
                       /\ peak' \in [Slabs -> Nat] /\ peak'[j] >= peak[j]
                       /\ Cardinality(ActiveOf(j))' <= peak'[j]
  BY <1>0, <1>1, <1>2, <1>s, HandOutEffect
<1>5. TypeOK'
  <2>1. size' \in [Blocks -> {0} \cup Requests] /\ intact' \in [Blocks -> BOOLEAN]
    BY <1>0 DEF TypeOK
  <2>2. asked' \in [Blocks -> {0} \cup Requests] /\ active' \subseteq Blocks
    BY <1>0, <1>1 DEF TypeOK
  <2>3. in_use' \in [Slabs -> 0..(Wrap - 1)]
    <3>1. (in_use[i] + 1) % Wrap \in 0..(Wrap - 1)
      BY <1>0, Remainder DEF TypeOK
    <3> QED BY <1>0, <3>1 DEF TypeOK
  <2>4. peak' \in [Slabs -> Nat]
    BY <1>0, <1>4
  <2> QED BY <1>0, <1>3, <2>1, <2>2, <2>3, <2>4 DEF TypeOK
<1>6. BlockInv'
  <2>1. \A x \in heap : slab_index(size'[x]) = slab_index(room[x])
    BY <1>0, <1>2, <1>s, Places DEF TypeOK
  <2>2. \A x \in active' : slab_index(asked'[x]) = slab_index(room[x])
    BY <1>0, <1>1, <1>2, <1>s, Places DEF TypeOK
  <2> QED BY <1>0, <2>1, <2>2 DEF BlockInv, IInv
<1>7. EachBlockInOnePlace'
  <2>1. \A x : x \in heap' <=> x \in active' \/ \E j \in Slabs : x \in ToSet(free_list'[j])
    BY <1>0, <1>1, <1>2, <1>3, Places DEF Listed, i
  <2>2. \A j \in Slabs : /\ IsInjective(free_list'[j])
                         /\ \A x \in ToSet(free_list'[j]) : x \notin active'
                                                          /\ slab_index(room[x]) = j
    BY <1>0, <1>1, <1>2, <1>3, Places DEF Listed, i
  <2> QED BY <1>0, <2>1, <2>2 DEF EachBlockInOnePlace
<1>8. PeakInv' /\ ReuseBoundsTheHeap'
  <2>1. \A j \in Slabs : total[j] <= peak[j] /\ peak[j] \in Nat /\ peak'[j] \in Nat
                         /\ total[j] \in Nat
    BY <1>0, <1>4, Counted DEF TypeOK
  <2>2. \A j \in Slabs : total[j] <= peak'[j]
    BY <1>4, <2>1
  <2>3. \A j \in Slabs : total'[j] = Cardinality({x \in heap' : slab_index(room'[x]) = j}) % Wrap
    BY <1>0, Counted DEF Held
  <2> QED BY <1>0, <1>4, <2>2, <2>3 DEF PeakInv, ReuseBoundsTheHeap
<1>9. CountersAddUp'
  <2> SUFFICES ASSUME NEW j \in Slabs
               PROVE  (total'[j] + in_use'[j]) % Wrap = Cardinality(ActiveOf(j))' % Wrap
    BY DEF CountersAddUp
  <2>1. CASE j = i
    <3>1. in_use'[j] = (in_use[j] + 1) % Wrap /\ total'[j] = total[j]
      BY <1>0, <2>1 DEF TypeOK
    <3>2. Cardinality(ActiveOf(j))' = Cardinality(ActiveOf(j)) + 1
      BY <1>4, <2>1
    <3>3. total[j] \in Int /\ in_use[j] \in Int /\ Cardinality(ActiveOf(j)) \in Int
      BY <1>0, Counted, Finite
    <3>4. (total[j] + ((in_use[j] + 1) % Wrap)) % Wrap = (Cardinality(ActiveOf(j)) + 1) % Wrap
      BY <1>0, <3>3, Counted, SumMoves
    <3> QED BY <3>1, <3>2, <3>4
  <2>2. CASE j # i
    <3>1. in_use'[j] = in_use[j] /\ total'[j] = total[j]
      BY <1>0, <2>2 DEF TypeOK
    <3>2. Cardinality(ActiveOf(j))' = Cardinality(ActiveOf(j))
      BY <1>0, <1>4, <2>2, Finite
    <3> QED BY <1>0, <3>1, <3>2, Counted
  <2> QED BY <2>1, <2>2
<1> QED BY <1>5, <1>6, <1>7, <1>8, <1>9 DEF IInv

\* A new block for a slab that has none free, or for a large request.
LEMMA MallocStep == ASSUME IInv, NEW n \in Requests, NEW b \in Blocks, Malloc(n, b) PROVE IInv'
<1> DEFINE i == slab_index(n)
<1>0. /\ ~destroyed /\ ~HasFree(i) /\ b \notin heap /\ destroyed' = destroyed
      /\ cxx' = cxx /\ heap' = heap \cup {b} /\ free_list' = free_list /\ in_use' = in_use
      /\ room' = [room EXCEPT ![b] = n] /\ size' = [size EXCEPT ![b] = n]
      /\ intact' = [intact EXCEPT ![b] = TRUE]
      /\ total' = IF i = LARGE THEN total ELSE [total EXCEPT ![i] = (total[i] + 1) % Wrap]
      /\ active' = active \cup {b} /\ asked' = [asked EXCEPT ![b] = n]
      /\ HandOut(b, n) /\ TypeOK
  BY DEF Malloc, HandOut, IInv
<1>1. i \in Slabs \cup {LARGE} /\ LARGE \notin Slabs /\ slab_index(n) = i
  BY SlabIndex
<1> HIDE DEF i
<1>2. b \notin active /\ \A j \in Slabs : b \notin Listed(j)
  BY <1>0, Places
<1>3. \A j \in Slabs : /\ Cardinality(ActiveOf(j))' =
                            Cardinality(ActiveOf(j)) + (IF j = i THEN 1 ELSE 0)
                       /\ peak' \in [Slabs -> Nat] /\ peak'[j] >= peak[j]
                       /\ Cardinality(ActiveOf(j))' <= peak'[j]
  BY <1>0, <1>1, <1>2, HandOutEffect
<1>4. /\ room'[b] = n /\ size'[b] = n /\ asked'[b] = n
      /\ \A x \in heap : room'[x] = room[x] /\ size'[x] = size[x] /\ asked'[x] = asked[x]
  BY <1>0 DEF TypeOK
<1>5. TypeOK'
  <2>1. /\ room' \in [Blocks -> {0} \cup Requests] /\ size' \in [Blocks -> {0} \cup Requests]
        /\ asked' \in [Blocks -> {0} \cup Requests] /\ intact' \in [Blocks -> BOOLEAN]
    BY <1>0 DEF TypeOK
  <2>2. total' \in [Slabs -> 0..(Wrap - 1)]
    <3>1. CASE i = LARGE
      BY <1>0, <3>1 DEF TypeOK
    <3>2. CASE i # LARGE
      <4>1. i \in Slabs
        BY <1>1, <3>2
      <4>2. total[i] + 1 \in Int
        BY <1>0, <4>1 DEF TypeOK
      <4>3. (total[i] + 1) % Wrap \in 0..(Wrap - 1)
        BY <4>2, Remainder
      <4> QED BY <1>0, <3>2, <4>1, <4>3 DEF TypeOK
    <3> QED BY <3>1, <3>2
  <2>3. peak' \in [Slabs -> Nat]
    <3>1. CASE Slabs = {}
      BY <1>0, <1>1, <3>1 DEF HandOut, TypeOK, i
    <3>2. CASE Slabs # {}
      BY <1>3, <3>2
    <3> QED BY <3>1, <3>2
  <2> QED BY <1>0, <2>1, <2>2, <2>3 DEF TypeOK
<1>6. BlockInv'
  <2>1. IsFiniteSet(heap')
    BY <1>0, Finite, FS_AddElement
  <2>2. \A x \in heap' : slab_index(size'[x]) = slab_index(room'[x])
    BY <1>0, <1>4, Places
  <2>3. \A x \in active' : slab_index(asked'[x]) = slab_index(room'[x])
    BY <1>0, <1>4, Places
  <2> QED BY <2>1, <2>2, <2>3 DEF BlockInv
<1>7. EachBlockInOnePlace'
  <2>1. \A x : x \in heap' <=> x \in active' \/ \E j \in Slabs : x \in ToSet(free_list'[j])
    BY <1>0, Places DEF Listed
  <2>2. \A j \in Slabs : /\ IsInjective(free_list'[j])
                         /\ \A x \in ToSet(free_list'[j]) : x \notin active'
                                                          /\ slab_index(room'[x]) = j
    BY <1>0, <1>2, <1>4, Places DEF Listed
  <2> QED BY <1>0, <2>1, <2>2 DEF EachBlockInOnePlace
<1>8. \A j \in Slabs : {x \in heap' : slab_index(room'[x]) = j} =
                          IF j = i THEN Held(j) \cup {b} ELSE Held(j)
  BY <1>0, <1>1, <1>4 DEF Held
<1>9. ReuseBoundsTheHeap'
  <2> SUFFICES ASSUME NEW j \in Slabs
               PROVE  /\ total'[j] = Cardinality({x \in heap' : slab_index(room'[x]) = j}) % Wrap
                      /\ total'[j] <= peak'[j]
    BY DEF ReuseBoundsTheHeap
  <2> DEFINE c == Cardinality(Held(j))
             a == Cardinality(ActiveOf(j))
  <2>0. c \in Nat /\ a \in Nat /\ total[j] = c % Wrap /\ IsFiniteSet(Held(j))
        /\ total[j] <= peak[j] /\ total[j] \in Nat /\ peak[j] \in Nat /\ peak'[j] \in Nat
    BY <1>0, <1>3, Counted, Finite DEF TypeOK
  <2>1. CASE j = i
    <3>1. Cardinality(Held(j) \cup {b}) = c + 1
      BY <1>0, <2>0, FS_AddElement DEF Held
    <3>2. total'[j] = (total[j] + 1) % Wrap
      BY <1>0, <1>1, <2>1 DEF TypeOK
    <3>3. Held(j) \subseteq ActiveOf(j)
      <4>1. Listed(j) = {}
        BY <1>0, <2>1 DEF HasFree, Listed, ToSet
      <4> QED BY <1>0, <4>1, Places DEF Held, ActiveOf
    <3>4. c <= a
      BY <1>0, <3>3, Finite, FS_Subset
    <3> HIDE DEF c, a
    <3>5. total'[j] = (c + 1) % Wrap
      BY <2>0, <3>2, WrapLater
    <3>6. (c + 1) % Wrap <= c + 1
      <4>1. c + 1 \in Nat
        BY <2>0
      <4> QED BY <4>1, RemainderBound
    <3>7. Cardinality(ActiveOf(j))' = a + 1
      BY <1>3, <2>1 DEF a
    <3>8. a + 1 <= peak'[j]
      BY <1>3, <3>7
    <3>9. (c + 1) % Wrap \in Int
      BY <2>0, Remainder
    <3>10. total'[j] <= peak'[j]
      <4>1. /\ c \in Nat /\ a \in Nat /\ peak'[j] \in Nat /\ c <= a
        BY <2>0, <3>4
      <4> QED BY <3>5, <3>6, <3>8, <3>9, <4>1
    <3>11. {x \in heap' : slab_index(room'[x]) = j} = Held(j) \cup {b}
      BY <1>8, <2>1
    <3>12. Cardinality({x \in heap' : slab_index(room'[x]) = j}) = c + 1
      BY <3>1, <3>11
    <3> QED BY <3>5, <3>10, <3>12
  <2>2. CASE j # i
    <3>1. total'[j] = total[j]
      BY <1>0, <1>1, <2>2 DEF TypeOK
    <3>2. peak[j] <= peak'[j]
      BY <1>3, <2>0
    <3>3. {x \in heap' : slab_index(room'[x]) = j} = Held(j)
      BY <1>8, <2>2
    <3>4. total'[j] = Cardinality({x \in heap' : slab_index(room'[x]) = j}) % Wrap
      BY <2>0, <3>1, <3>3
    <3>5. total'[j] <= peak'[j]
      BY <2>0, <3>1, <3>2
    <3> QED BY <3>4, <3>5
  <2> QED BY <2>1, <2>2
<1>10. CountersAddUp'
  <2> SUFFICES ASSUME NEW j \in Slabs
               PROVE  (total'[j] + in_use'[j]) % Wrap = Cardinality(ActiveOf(j))' % Wrap
    BY DEF CountersAddUp
  <2>1. CASE j = i
    <3>1. total'[j] = (total[j] + 1) % Wrap /\ in_use'[j] = in_use[j]
      BY <1>0, <1>1, <2>1 DEF TypeOK
    <3>2. Cardinality(ActiveOf(j))' = Cardinality(ActiveOf(j)) + 1
      BY <1>3, <2>1
    <3>3. total[j] \in Int /\ in_use[j] \in Int /\ Cardinality(ActiveOf(j)) \in Int
      BY <1>0, Counted, Finite
    <3>4. (((total[j] + 1) % Wrap) + in_use[j]) % Wrap = (Cardinality(ActiveOf(j)) + 1) % Wrap
      BY <1>0, <3>3, Counted, SumMoves
    <3> QED BY <3>1, <3>2, <3>4
  <2>2. CASE j # i
    <3>1. in_use'[j] = in_use[j] /\ total'[j] = total[j]
      BY <1>0, <1>1, <2>2 DEF TypeOK
    <3>2. Cardinality(ActiveOf(j))' = Cardinality(ActiveOf(j))
      BY <1>0, <1>3, <2>2, Finite
    <3> QED BY <1>0, <3>1, <3>2, Counted
  <2> QED BY <2>1, <2>2
<1>11. PeakInv'
  BY <1>3 DEF PeakInv
<1> QED BY <1>5, <1>6, <1>7, <1>9, <1>10, <1>11 DEF IInv

\* A block comes back, to the list of its slab or to the heap.
LEMMA FreeStep == ASSUME IInv, NEW b \in Blocks, Free(b) PROVE IInv'
<1> DEFINE i == slab_index(size[b])
<1>0. /\ ~destroyed /\ b \in active /\ active' = active \ {b} /\ destroyed' = destroyed
      /\ UNCHANGED <<cxx, room, size, asked, intact, total, peak>> /\ TypeOK
  BY DEF Free, IInv
<1>1. i \in Slabs \cup {LARGE} /\ LARGE \notin Slabs
  BY SlabIndex
<1>2. b \in heap /\ slab_index(room[b]) = i /\ slab_index(asked[b]) = i
      /\ \A j \in Slabs : b \notin Listed(j)
  BY <1>0, Places
<1>a. \/ i = LARGE /\ heap' = heap \ {b} /\ free_list' = free_list /\ in_use' = in_use
      \/ /\ i \in Slabs /\ heap' = heap
         /\ in_use' = [in_use EXCEPT ![i] = (in_use[i] - 1) % Wrap]
         /\ free_list' = [free_list EXCEPT
                            ![i] = IF cxx THEN Append(free_list[i], b) ELSE <<b>> \o free_list[i]]
  BY <1>1 DEF Free
<1> HIDE DEF i
<1>4. \A j \in Slabs : Cardinality(ActiveOf(j))' =
                         Cardinality(ActiveOf(j)) - (IF j = i THEN 1 ELSE 0)
  <2> TAKE j \in Slabs
  <2>1. ActiveOf(j)' = IF j = i THEN ActiveOf(j) \ {b} ELSE ActiveOf(j)
    BY <1>0, <1>2 DEF ActiveOf
  <2>2. j = i => b \in ActiveOf(j)
    BY <1>0, <1>2 DEF ActiveOf
  <2>3. IsFiniteSet(ActiveOf(j)) /\ Cardinality(ActiveOf(j)) \in Nat
    BY <1>0, Finite
  <2>4. CASE j = i
    <3>1. Cardinality(ActiveOf(j) \ {b}) = Cardinality(ActiveOf(j)) - 1
      BY <2>2, <2>3, <2>4, FS_RemoveElement
    <3> QED BY <2>1, <2>4, <3>1
  <2>5. CASE j # i
    BY <2>1, <2>3, <2>5
  <2> QED BY <2>4, <2>5
<1>5. /\ free_list' \in [Slabs -> Seq(Blocks)]
      /\ \A j \in Slabs : /\ IsInjective(free_list'[j])
                          /\ ToSet(free_list'[j]) = IF j = i THEN Listed(j) \cup {b} ELSE Listed(j)
  <2>1. CASE i = LARGE
    BY <1>0, <1>1, <1>a, <2>1, Places DEF Listed, TypeOK
  <2>2. CASE i # LARGE
    <3> DEFINE t == IF cxx THEN Append(free_list[i], b) ELSE <<b>> \o free_list[i]
    <3>1. i \in Slabs /\ free_list[i] \in Seq(Blocks) /\ IsInjective(free_list[i])
          /\ b \notin ToSet(free_list[i])
      BY <1>0, <1>1, <1>2, <2>2, Places DEF Listed
    <3>2. t = Append(free_list[i], b) \/ t = <<b>> \o free_list[i]
      OBVIOUS
    <3>3. free_list' = [free_list EXCEPT ![i] = t]
      BY <1>a, <2>2
    <3> HIDE DEF t
    <3>4. t \in Seq(Blocks) /\ IsInjective(t) /\ ToSet(t) = ToSet(free_list[i]) \cup {b}
      <4> DEFINE s == free_list[i]
      <4>1. s \in Seq(Blocks) /\ IsInjective(s) /\ b \notin ToSet(s) /\ b \in Blocks
        BY <3>1
      <4>2. t = Append(s, b) \/ t = <<b>> \o s
        BY <3>2
      <4> HIDE DEF s
      <4>3. t \in Seq(Blocks) /\ IsInjective(t) /\ ToSet(t) = ToSet(s) \cup {b}
        BY <4>1, <4>2, Joins
      <4> QED BY <4>3 DEF s
    <3>5. /\ free_list' \in [Slabs -> Seq(Blocks)] /\ free_list'[i] = t
          /\ \A j \in Slabs \ {i} : free_list'[j] = free_list[j]
      BY <1>0, <3>1, <3>3, <3>4 DEF TypeOK
    <3> QED BY <1>0, <3>4, <3>5, Places DEF Listed
  <2> QED BY <2>1, <2>2
<1>6. TypeOK'
  <2>1. in_use' \in [Slabs -> 0..(Wrap - 1)]
    <3>1. CASE i = LARGE
      BY <1>0, <1>1, <1>a, <3>1 DEF TypeOK
    <3>2. CASE i # LARGE
      <4>1. i \in Slabs /\ in_use' = [in_use EXCEPT ![i] = (in_use[i] - 1) % Wrap]
        BY <1>a, <3>2
      <4>2. (in_use[i] - 1) % Wrap \in 0..(Wrap - 1)
        BY <1>0, <4>1, Remainder DEF TypeOK
      <4> QED BY <1>0, <4>1, <4>2 DEF TypeOK
    <3> QED BY <3>1, <3>2
  <2>2. heap' \subseteq Blocks /\ active' \subseteq Blocks
    BY <1>0, <1>a DEF TypeOK
  <2> QED BY <1>0, <1>5, <2>1, <2>2 DEF TypeOK
<1>7. heap' \subseteq heap /\ IsFiniteSet(heap')
  BY <1>0, <1>a, Finite, FS_Subset
<1>8. BlockInv'
  <2>1. \A x \in heap' : slab_index(size'[x]) = slab_index(room'[x])
    BY <1>0, <1>7, Places
  <2>2. \A x \in active' : slab_index(asked'[x]) = slab_index(room'[x])
    BY <1>0, Places
  <2> QED BY <1>7, <2>1, <2>2 DEF BlockInv
<1>9. EachBlockInOnePlace'
  <2>1. \A x : x \in heap' <=> x \in active' \/ \E j \in Slabs : x \in ToSet(free_list'[j])
    <3>1. CASE i = LARGE
      BY <1>0, <1>1, <1>2, <1>a, <1>5, <3>1, Places
    <3>2. CASE i # LARGE
      <4>1. i \in Slabs /\ heap' = heap
        BY <1>a, <3>2
      <4>2. \A x : (\E j \in Slabs : x \in ToSet(free_list'[j]))
                   <=> x = b \/ \E j \in Slabs : x \in Listed(j)
        BY <1>5, <4>1
      <4>3. \A x : x \in heap <=> x \in active \/ \E j \in Slabs : x \in Listed(j)
        BY <1>0, Places
      <4> QED BY <1>0, <4>1, <4>2, <4>3
    <3> QED BY <3>1, <3>2
  <2>2. \A j \in Slabs : /\ IsInjective(free_list'[j])
                         /\ \A x \in ToSet(free_list'[j]) : x \notin active'
                                                          /\ slab_index(room'[x]) = j
    BY <1>0, <1>2, <1>5, Places
  <2> QED BY <1>0, <2>1, <2>2 DEF EachBlockInOnePlace
<1>10. PeakInv' /\ ReuseBoundsTheHeap'
  <2>1. \A j \in Slabs : {x \in heap' : slab_index(room'[x]) = j} = Held(j)
    BY <1>0, <1>1, <1>2, <1>a DEF Held
  <2>2. \A j \in Slabs : Cardinality(ActiveOf(j))' <= peak[j]
    <3> TAKE j \in Slabs
    <3>1. Cardinality(ActiveOf(j)) \in Nat /\ peak[j] \in Nat
          /\ Cardinality(ActiveOf(j)) <= peak[j]
      BY <1>0, Finite DEF IInv, PeakInv, TypeOK
    <3> QED BY <1>4, <3>1
  <2>3. \A j \in Slabs : total[j] = Cardinality(Held(j)) % Wrap /\ total[j] <= peak[j]
    BY <1>0, Counted
  <2>4. PeakInv'
    BY <1>0, <2>2 DEF PeakInv
  <2> QED BY <1>0, <2>1, <2>3, <2>4 DEF ReuseBoundsTheHeap
<1>11. CountersAddUp'
  <2> SUFFICES ASSUME NEW j \in Slabs
               PROVE  (total'[j] + in_use'[j]) % Wrap = Cardinality(ActiveOf(j))' % Wrap
    BY DEF CountersAddUp
  <2>1. CASE j = i
    <3>1. in_use'[j] = (in_use[j] + (-1)) % Wrap /\ total'[j] = total[j]
      BY <1>0, <1>1, <1>a, <2>1 DEF TypeOK
    <3>2. Cardinality(ActiveOf(j))' = Cardinality(ActiveOf(j)) + (-1)
      BY <1>0, <1>4, <2>1, Finite
    <3>3. total[j] \in Int /\ in_use[j] \in Int /\ Cardinality(ActiveOf(j)) \in Int /\ -1 \in Int
      BY <1>0, Counted, Finite
    <3>4. (total[j] + ((in_use[j] + (-1)) % Wrap)) % Wrap
             = (Cardinality(ActiveOf(j)) + (-1)) % Wrap
      BY <1>0, <3>3, Counted, SumMoves
    <3> QED BY <3>1, <3>2, <3>4
  <2>2. CASE j # i
    <3>1. in_use'[j] = in_use[j] /\ total'[j] = total[j]
      BY <1>0, <1>a, <2>2 DEF TypeOK
    <3>2. Cardinality(ActiveOf(j))' = Cardinality(ActiveOf(j))
      BY <1>0, <1>4, <2>2, Finite
    <3> QED BY <1>0, <3>1, <3>2, Counted
  <2> QED BY <2>1, <2>2
<1> QED BY <1>6, <1>8, <1>9, <1>10, <1>11 DEF IInv

\* The pool's end frees both kinds of block.
LEMMA DestroyStep == ASSUME IInv, destroy PROVE IInv'
<1>0. /\ ~destroyed /\ destroyed' = TRUE /\ active' = {} /\ TypeOK
      /\ heap' = heap \ (active \cup UNION {ToSet(free_list[j]) : j \in Slabs})
      /\ UNCHANGED <<cxx, room, size, asked, intact, free_list, total, in_use, peak>>
  BY DEF destroy, IInv
<1>1. heap' = {}
  BY <1>0, Places DEF Listed
<1>2. TypeOK' /\ EachBlockInOnePlace' /\ PeakInv' /\ CountersAddUp'
  BY <1>0, <1>1 DEF TypeOK, EachBlockInOnePlace, PeakInv, CountersAddUp
<1>3. BlockInv'
  BY <1>0, <1>1, FS_EmptySet DEF BlockInv
<1>4. ReuseBoundsTheHeap'
  BY <1>0, Counted DEF ReuseBoundsTheHeap
<1> QED BY <1>2, <1>3, <1>4 DEF IInv

\* A call that changes neither lists nor counters.
LEMMA OtherStep ==
    ASSUME IInv, UNCHANGED <<cxx, heap, room, size, asked, free_list, active, total,
                             in_use, peak, destroyed>>,
           intact' \in [Blocks -> BOOLEAN]
    PROVE  IInv'
<1>1. TypeOK' /\ BlockInv' /\ EachBlockInOnePlace' /\ ReuseBoundsTheHeap'
  <2>1. TypeOK'
    BY DEF IInv, TypeOK
  <2>2. BlockInv'
    BY DEF IInv, BlockInv
  <2>3. EachBlockInOnePlace'
    BY DEF IInv, EachBlockInOnePlace
  <2>4. \A j : {x \in heap : slab_index(room[x]) = j}' = {x \in heap : slab_index(room[x]) = j}
    OBVIOUS
  <2>5. ReuseBoundsTheHeap'
    BY <2>4 DEF IInv, ReuseBoundsTheHeap
  <2> QED BY <2>1, <2>2, <2>3, <2>5
<1>2. \A j : ActiveOf(j)' = ActiveOf(j)
  BY DEF ActiveOf
<1>3. PeakInv' /\ CountersAddUp'
  BY <1>2 DEF IInv, PeakInv, CountersAddUp
<1> QED BY <1>1, <1>3 DEF IInv

-----------------------------------------------------------------------------
\* IInv holds in every state of both pools.
THEOREM Invariance == Spec => []IInv
<1>1. ASSUME IInv, [Next]_vars PROVE IInv'
  <2>1. CASE \E n \in Requests : Reuse(n)
    BY <1>1, <2>1, ReuseStep
  <2>2. CASE \E n \in Requests, b \in Blocks : Malloc(n, b)
    BY <1>1, <2>2, MallocStep
  <2>3. CASE \E b \in Blocks : Free(b)
    BY <1>1, <2>3, FreeStep
  <2>4. CASE \E b \in Blocks : FreeUnknown(b) \/ Fill(b)
    <3>1. PICK b \in Blocks : FreeUnknown(b) \/ Fill(b)
      BY <2>4
    <3>2. intact' \in [Blocks -> BOOLEAN]
      BY <1>1, <3>1 DEF FreeUnknown, Fill, IInv, TypeOK
    <3> QED BY <1>1, <3>1, <3>2, OtherStep DEF FreeUnknown, Fill
  <2>5. CASE destroy
    BY <1>1, <2>5, DestroyStep
  <2>6. CASE UNCHANGED vars
    <3>1. intact' \in [Blocks -> BOOLEAN]
      BY <1>1, <2>6 DEF vars, IInv, TypeOK
    <3> QED BY <1>1, <2>6, <3>1, OtherStep DEF vars
  <2> QED BY <1>1, <2>1, <2>2, <2>3, <2>4, <2>5, <2>6 DEF Next
<1>2. IInv /\ [Next]_vars => IInv'
  BY <1>1
<1> QED BY InitIInv, <1>2, PTL DEF Spec

\* No block is lost or shared, whatever a reused block keeps of its first
\* allocation (lines 97, 116 and 149).
THEOREM EachBlockInOnePlaceHolds == Spec => []EachBlockInOnePlace
<1>1. IInv => EachBlockInOnePlace
  BY DEF IInv
<1> QED BY Invariance, <1>1, PTL

\* The pool never mallocs more buffers for a slab than were active together.
THEOREM ReuseBoundsTheHeapHolds == Spec => []ReuseBoundsTheHeap
<1>1. IInv => ReuseBoundsTheHeap
  BY DEF IInv
<1> QED BY Invariance, <1>1, PTL

\* The wrapped counters of a slab add up to its active blocks.
THEOREM CountersAddUpHolds == Spec => []CountersAddUp
<1>1. IInv => CountersAddUp
  BY DEF IInv
<1> QED BY Invariance, <1>1, PTL
================================================================================
