--------------------- MODULE AllocationStrategies_proofs ---------------------
(***************************************************************************)
(* The allocators for every size of pool, header and request and any       *)
(* sequence of calls: the blocks tile the pool, the walk of my_free leaves *)
(* no two free neighbours, and each program is an allocator of disjoint    *)
(* ranges.                                                                 *)
(***************************************************************************)
EXTENDS AllocationStrategies, FiniteSetTheorems, WellFoundedInduction, TLAPS

LEMMA AlignFact == ASSUME NEW n \in Nat PROVE ALIGN4(n) \in Nat /\ n <= ALIGN4(n) /\ ALIGN4(n) % 4 = 0
<1> DEFINE q == (n + 3) \div 4
<1>1. q \in Nat /\ n <= q * 4
  OBVIOUS
<1> HIDE DEF q
<1>2. (q * 4) % 4 = 0
  BY <1>1
<1> QED BY <1>1, <1>2 DEF ALIGN4, q

\* No header lies within a block, and all lie below the end of the pool.
LEMMA BlocksEnd ==
    ASSUME NEW H \in Nat \ {0}, NEW P \in Nat, NEW s, Laid(s, H, P), NEW a \in DOMAIN s
    PROVE  /\ a \in Nat /\ s[a] \in Nat /\ a + H + s[a] \in 0..P /\ a < P
           /\ a + H + s[a] < P => a + H + s[a] \in DOMAIN s
           /\ \A b \in DOMAIN s : b \in Nat /\ s[b] \in Nat
           /\ \A b \in DOMAIN s : b <= a \/ a + H + s[a] <= b
           /\ P \notin DOMAIN s
<1>1. /\ \A b \in DOMAIN s : b \in 0..P /\ s[b] \in Nat /\ b + H + s[b] \in DOMAIN s \cup {P}
      /\ \A b, c \in DOMAIN s : b < c => b + H + s[b] <= c
  BY DEF Laid
<1>2. \A b \in DOMAIN s : b \in 0..P /\ s[b] \in Nat /\ b + H + s[b] \in 0..P
  BY <1>1
<1>3. P \notin DOMAIN s
  BY <1>2
<1>4. \A b \in DOMAIN s : b <= a \/ a + H + s[a] <= b
  BY <1>1
<1> QED BY <1>1, <1>2, <1>3, <1>4

\* A block that is cut in two.
LEMMA CutTiles ==
    ASSUME NEW H \in Nat \ {0}, NEW P \in Nat, NEW s, NEW t, Laid(s, H, P), H % 4 = 0,
           NEW a \in DOMAIN s, NEW n \in Nat, n % 4 = 0, s[a] - n > H + 4, NEW b, b = a + H + n,
           t = [c \in DOMAIN s \cup {b} |->
                  IF c = a THEN n ELSE IF c = b THEN s[a] - n - H ELSE s[c]]
    PROVE  Laid(t, H, P) /\ b \notin DOMAIN s
<1>1. /\ a \in Nat /\ s[a] \in Nat /\ a + H + s[a] \in 0..P
      /\ \A c \in DOMAIN s : c \in Nat /\ s[c] \in Nat
      /\ \A c \in DOMAIN s : c <= a \/ a + H + s[a] <= c
  BY BlocksEnd
<1>2. b \in Nat /\ a < b /\ b < a + H + s[a] /\ b \notin DOMAIN s
  BY <1>1
<1>3. /\ 0 \in DOMAIN s /\ DOMAIN s \subseteq 0..P
      /\ \A c \in DOMAIN s : c % 4 = 0 /\ c + H + s[c] \in DOMAIN s \cup {P}
      /\ \A c, d \in DOMAIN s : c < d => c + H + s[c] <= d
  BY DEF Laid
<1>4. /\ DOMAIN t = DOMAIN s \cup {b} /\ t[a] = n /\ t[b] = s[a] - n - H
      /\ \A c \in DOMAIN s \ {a} : t[c] = s[c]
  BY <1>2
<1>5. t[a] \in Nat /\ t[b] \in Nat /\ a + H + t[a] = b /\ b + H + t[b] = a + H + s[a]
  BY <1>1, <1>2, <1>4
<1>6. t \in [DOMAIN t -> Nat]
  <2>1. \A c \in DOMAIN t : t[c] \in Nat
    BY <1>1, <1>4, <1>5
  <2> QED BY <2>1
<1>7. 0 \in DOMAIN t /\ DOMAIN t \subseteq 0..P
  BY <1>1, <1>2, <1>3, <1>4
<1>8. ASSUME NEW c \in DOMAIN t PROVE c % 4 = 0 /\ c + H + t[c] \in DOMAIN t \cup {P}
  <2>1. CASE c = a
    BY <1>3, <1>4, <1>5, <2>1
  <2>2. CASE c = b
    <3>1. a % 4 = 0
      BY <1>3
    <3>2. b % 4 = 0
      BY <1>1, <3>1
    <3> QED BY <1>3, <1>4, <1>5, <2>2, <3>2
  <2>3. CASE c \in DOMAIN s \ {a}
    BY <1>3, <1>4, <2>3
  <2> QED BY <1>4, <2>1, <2>2, <2>3
<1>9. ASSUME NEW c \in DOMAIN t, NEW d \in DOMAIN t, c < d PROVE c + H + t[c] <= d
  <2>1. CASE c = a
    BY <1>1, <1>2, <1>4, <1>5, <1>9, <2>1
  <2>2. CASE c = b
    BY <1>1, <1>2, <1>4, <1>5, <1>9, <2>2
  <2>3. CASE c \in DOMAIN s \ {a} /\ d = b
    <3>1. c < a
      BY <1>1, <1>2, <1>9, <2>3
    <3>2. c + H + s[c] <= a
      BY <1>3, <2>3, <3>1
    <3> QED BY <1>1, <1>2, <1>4, <2>3, <3>2
  <2>4. CASE c \in DOMAIN s \ {a} /\ d \in DOMAIN s
    BY <1>3, <1>4, <1>9, <2>4
  <2> QED BY <1>4, <2>1, <2>2, <2>3, <2>4
<1> QED BY <1>2, <1>6, <1>7, <1>8, <1>9 DEF Laid

\* A block that absorbs the one behind it.
LEMMA JoinTiles ==
    ASSUME NEW H \in Nat \ {0}, NEW P \in Nat, NEW s, NEW t, Laid(s, H, P),
           NEW a \in DOMAIN s, NEW b, b = a + H + s[a], b < P,
           t = [c \in DOMAIN s \ {b} |-> IF c = a THEN s[a] + H + s[b] ELSE s[c]]
    PROVE  Laid(t, H, P) /\ b \in DOMAIN s /\ a # b
<1>1. /\ a \in Nat /\ s[a] \in Nat /\ b \in DOMAIN s
      /\ \A c \in DOMAIN s : c \in Nat /\ s[c] \in Nat
      /\ \A c \in DOMAIN s : c <= a \/ b <= c
  BY BlocksEnd
<1>2. b \in Nat /\ a < b
  BY <1>1
<1>3. /\ 0 \in DOMAIN s /\ DOMAIN s \subseteq 0..P
      /\ \A c \in DOMAIN s : c % 4 = 0 /\ c + H + s[c] \in DOMAIN s \cup {P}
      /\ \A c, d \in DOMAIN s : c < d => c + H + s[c] <= d
  BY DEF Laid
<1>4. /\ DOMAIN t = DOMAIN s \ {b} /\ t[a] = s[a] + H + s[b]
      /\ \A c \in DOMAIN s \ {a, b} : t[c] = s[c]
  BY <1>2
<1>5. t[a] \in Nat /\ a + H + t[a] = b + H + s[b]
  BY <1>1, <1>4
<1>6. t \in [DOMAIN t -> Nat]
  <2>1. \A c \in DOMAIN t : t[c] \in Nat
    BY <1>1, <1>4, <1>5
  <2> QED BY <2>1
<1>7. 0 \in DOMAIN t /\ DOMAIN t \subseteq 0..P
  BY <1>1, <1>2, <1>3, <1>4
<1>8. ASSUME NEW c \in DOMAIN t PROVE c % 4 = 0 /\ c + H + t[c] \in DOMAIN t \cup {P}
  <2>1. CASE c = a
    <3>1. b + H + s[b] \in (DOMAIN s \ {b}) \cup {P}
      BY <1>1, <1>3
    <3> QED BY <1>3, <1>4, <1>5, <2>1, <3>1
  <2>2. CASE c \in DOMAIN s \ {a, b}
    <3>1. c + H + s[c] # b
      <4>1. CASE c < a
        BY <1>1, <1>2, <1>3, <2>2, <4>1
      <4>2. CASE ~(c < a)
        BY <1>1, <1>2, <2>2, <4>2
      <4> QED BY <4>1, <4>2
    <3> QED BY <1>3, <1>4, <2>2, <3>1
  <2> QED BY <1>4, <2>1, <2>2
<1>9. ASSUME NEW c \in DOMAIN t, NEW d \in DOMAIN t, c < d PROVE c + H + t[c] <= d
  <2>1. CASE c = a
    <3>1. b < d /\ d \in DOMAIN s
      BY <1>1, <1>2, <1>4, <1>9, <2>1
    <3> QED BY <1>1, <1>3, <1>5, <2>1, <3>1
  <2>2. CASE c # a
    BY <1>3, <1>4, <1>9, <2>2
  <2> QED BY <2>1, <2>2
<1> QED BY <1>1, <1>2, <1>6, <1>7, <1>8, <1>9 DEF Laid
-----------------------------------------------------------------------------
(***************************************************************************)
(* What the steps of the three programs have in common: a block is taken,  *)
(* cut in two or whole, given back, or joined with the one behind it.      *)
(***************************************************************************)
Takes(a, n) ==
    /\ free[a] /\ ALIGN4(n) <= size[a]
    /\ live' = [b \in DOMAIN live \cup {a} |-> IF b = a THEN n ELSE live[b]]

TakesPart(a, n) ==
    /\ Takes(a, n) /\ size[a] - ALIGN4(n) > Header + 4
    /\ LET b == a + Header + ALIGN4(n) IN
         /\ size' = [c \in DOMAIN size \cup {b} |->
                       IF c = a THEN ALIGN4(n)
                       ELSE IF c = b THEN size[a] - ALIGN4(n) - Header ELSE size[c]]
         /\ free' = [c \in DOMAIN size \cup {b} |->
                       IF c = a THEN FALSE ELSE IF c = b THEN TRUE ELSE free[c]]

TakesAll(a, n) ==
    /\ Takes(a, n) /\ size' = size /\ free' = [free EXCEPT ![a] = FALSE]

GivesBack(a) ==
    /\ size' = size /\ free' = [free EXCEPT ![a] = TRUE]
    /\ live' = [b \in DOMAIN live \ {a} |-> live[b]]

Joins(a) ==
    /\ Behind(a) < Pool /\ free[a] /\ free[Behind(a)]
    /\ size' = [b \in DOMAIN size \ {Behind(a)} |->
                  IF b = a THEN size[a] + Header + size[Behind(a)] ELSE size[b]]
    /\ free' = [b \in DOMAIN free \ {Behind(a)} |-> free[b]]
    /\ live' = live

Merging == strategy \in {"implicit", "explicit"}

Malloc ==
    /\ \E n \in Requests, a \in DOMAIN size : TakesPart(a, n) \/ TakesAll(a, n)
    /\ (Merging => curr = NULL) /\ curr' = curr
FreeCall ==
    /\ \E a \in DOMAIN live : GivesBack(a)
    /\ Merging => curr = NULL /\ curr' = 0
WalkJoins == Merging /\ curr # NULL /\ Joins(curr) /\ curr' = curr
WalkMoves ==
    /\ Merging /\ curr # NULL /\ UNCHANGED <<size, free, live>>
    /\ IF Behind(curr) >= Pool THEN curr' = NULL
       ELSE ~(free[curr] /\ free[Behind(curr)]) /\ curr' = Behind(curr)

StepOfBlocks ==
    /\ UNCHANGED <<strategy, used>>
    /\ Malloc \/ FreeCall \/ WalkJoins \/ WalkMoves \/ UNCHANGED <<size, free, curr, live>>

LEMMA HeaderFacts ==
    ASSUME strategy # "bins"
    PROVE  Header \in Nat \ {0} /\ Header % 4 = 0 /\ Pool \in Nat /\ Header <= Pool
  BY PoolAssumption, StrategiesAssumption DEF Header, Pool

LEMMA ImplicitStep ==
    ASSUME BlocksInv, WalkInv, strategy = "implicit", Next, UNCHANGED strategy, used' = used
    PROVE  StepOfBlocks
<1>0. Header = HDR /\ Pool = POOL_SIZE /\ Merging /\ DOMAIN free = DOMAIN size
  BY DEF Header, Pool, Merging, BlocksInv
<1>1. CASE \E n \in Requests : my_malloc(n)
  <2>1. PICK n \in Requests : my_malloc(n)
    BY <1>1
  <2>2. PICK a \in DOMAIN size :
          /\ IsFirstFit(a, ALIGN4(n)) /\ Hand(a, n)
          /\ MallocSplit(a, ALIGN4(n)) \/ MallocWhole(a, ALIGN4(n))
    BY <2>1 DEF my_malloc
  <2>3. Takes(a, n)
    BY <2>2 DEF IsFirstFit, Fitting, Hand, Takes
  <2>4. TakesPart(a, n) \/ TakesAll(a, n)
    <3>1. CASE MallocSplit(a, ALIGN4(n))
      BY <1>0, <2>3, <3>1 DEF MallocSplit, Splits, Split, TakesPart
    <3>2. CASE MallocWhole(a, ALIGN4(n))
      BY <2>3, <3>2 DEF MallocWhole, TakesAll
    <3> QED BY <2>2, <3>1, <3>2
  <2>5. curr = NULL /\ curr' = curr
    BY <2>1 DEF my_malloc
  <2> QED BY <2>4, <2>5 DEF Malloc, StepOfBlocks
<1>2. CASE \E a \in DOMAIN live : my_free(a)
  BY <1>0, <1>2 DEF my_free, GivesBack, FreeCall, StepOfBlocks
<1>3. CASE MergeNext
  BY <1>0, <1>3 DEF MergeNext, Merge, After, Behind, Joins, WalkJoins, StepOfBlocks
<1>4. CASE MergeSkip \/ MergeEnd
  <2>1. curr # NULL /\ UNCHANGED <<size, free, live>> /\ Behind(curr) = After(size, curr)
    BY <1>0, <1>4 DEF MergeSkip, MergeEnd, After, Behind
  <2>2. /\ MergeSkip => After(size, curr) < POOL_SIZE /\ curr' = After(size, curr)
                        /\ ~(free[curr] /\ free[After(size, curr)])
        /\ MergeEnd => After(size, curr) >= POOL_SIZE /\ curr' = NULL
    BY DEF MergeSkip, MergeEnd
  <2>3. Behind(curr) >= Pool <=> ~(Behind(curr) < Pool)
    <3>1. curr \in DOMAIN size /\ Laid(size, Header, Pool)
      BY <2>1 DEF WalkInv, BlocksInv
    <3>2. Behind(curr) \in 0..Pool
      BY <1>0, <3>1, HeaderFacts, BlocksEnd DEF Behind
    <3>3. Pool \in Nat
      BY <1>0, HeaderFacts
    <3> QED BY <3>2, <3>3
  <2>4. WalkMoves
    BY <1>0, <1>4, <2>1, <2>2, <2>3 DEF WalkMoves
  <2> QED BY <2>4 DEF StepOfBlocks
<1> QED BY <1>1, <1>2, <1>3, <1>4 DEF Next, Coalesce

LEMMA ExplicitStep ==
    ASSUME BlocksInv, WalkInv, strategy = "explicit", Explicit!Next, UNCHANGED strategy, used' = used
    PROVE  StepOfBlocks
<1>0. Header = LINKED_HDR /\ Pool = LINKED_POOL /\ Merging /\ DOMAIN free = DOMAIN size
  BY DEF Header, Pool, Merging, BlocksInv
<1>1. CASE \E n \in Requests : Explicit!my_malloc(n)
  <2>1. PICK n \in Requests : Explicit!my_malloc(n)
    BY <1>1
  <2>a. Explicit!ALIGN4(n) = ALIGN4(n) /\ Explicit!NULL = NULL
    BY DEF Explicit!ALIGN4, ALIGN4, Explicit!NULL, NULL
  <2>2. PICK a \in DOMAIN size :
          /\ Explicit!IsFirstFit(a, ALIGN4(n)) /\ live' = Explicit!Extend(live, a, n)
          /\ Explicit!MallocSplit(a, ALIGN4(n)) \/ Explicit!MallocWhole(a, ALIGN4(n))
    BY <2>1, <2>a DEF Explicit!my_malloc
  <2>3. Takes(a, n)
    BY <2>2 DEF Explicit!IsFirstFit, Explicit!Fits, Explicit!Extend, Takes
  <2>4. TakesPart(a, n) \/ TakesAll(a, n)
    <3>1. CASE Explicit!MallocSplit(a, ALIGN4(n))
      <4> DEFINE b == a + Header + ALIGN4(n)
      <4>1. /\ size[a] - ALIGN4(n) > Header + 4
            /\ size' = [c \in DOMAIN size \cup {b} |->
                       IF c = a THEN ALIGN4(n)
                       ELSE IF c = b THEN size[a] - ALIGN4(n) - Header ELSE size[c]]
            /\ free' = [Explicit!Extend(free, b, TRUE) EXCEPT ![a] = FALSE]
        BY <1>0, <3>1 DEF Explicit!MallocSplit, Explicit!Splits, Explicit!Split
      <4>2. free' = [c \in DOMAIN size \cup {b} |->
                       IF c = a THEN FALSE ELSE IF c = b THEN TRUE ELSE free[c]]
        <5> HIDE DEF b
        <5> QED BY <1>0, <4>1 DEF Explicit!Extend
      <4> QED BY <2>3, <4>1, <4>2 DEF TakesPart
    <3>2. CASE Explicit!MallocWhole(a, ALIGN4(n))
      BY <2>3, <3>2 DEF Explicit!MallocWhole, TakesAll
    <3> QED BY <2>2, <3>1, <3>2
  <2>5. curr = NULL /\ curr' = curr
    BY <2>1, <2>a DEF Explicit!my_malloc
  <2> QED BY <2>4, <2>5 DEF Malloc, StepOfBlocks
<1>2. CASE \E a \in DOMAIN live : Explicit!my_free(a)
  BY <1>0, <1>2 DEF Explicit!my_free, Explicit!Drop, Explicit!NULL, NULL, GivesBack, FreeCall,
                    StepOfBlocks
<1>3. CASE Explicit!MergeNext
  <2>1. Explicit!After(size, curr) = Behind(curr)
    BY <1>0 DEF Explicit!After, Behind
  <2> QED BY <1>0, <1>3, <2>1
          DEF Explicit!MergeNext, Explicit!Merge, Explicit!Drop, Explicit!NULL, NULL, Joins,
              WalkJoins, StepOfBlocks
<1>4. CASE Explicit!MergeSkip
  <2>1. Explicit!After(size, curr) = Behind(curr)
    BY <1>0 DEF Explicit!After, Behind
  <2> QED BY <1>0, <1>4, <2>1
          DEF Explicit!MergeSkip, Explicit!NULL, NULL, WalkMoves, StepOfBlocks
<1> QED BY <1>1, <1>2, <1>3, <1>4 DEF Explicit!Next

\* A set of naturals has a smallest element, so that each size has its class.
LEMMA Smallest ==
    ASSUME NEW S \in SUBSET Nat, S # {}
    PROVE  \E x \in S : \A y \in S : x <= y
<1> DEFINE R == OpToRel(<, Nat)
<1>1. \A x, y \in Nat : <<x, y>> \in R <=> x < y
  BY DEF OpToRel
<1>2. IsWellFoundedOn(R, Nat)
  BY NatLessThanWellFounded
<1> HIDE DEF R
<1>3. PICK x \in S : \A y \in S : ~(<<y, x>> \in R)
  BY <1>2, WFMin
<1>4. \A y \in S : ~(y < x)
  BY <1>1, <1>3
<1> QED BY <1>4

\* Induction, for a set instead of a predicate.
LEMMA CountingUp ==
    ASSUME NEW S, 0 \in S, \A k \in Nat : k \in S => k + 1 \in S
    PROVE  Nat \subseteq S
<1> SUFFICES ASSUME Nat \ S # {} PROVE FALSE
  OBVIOUS
<1>1. PICK x \in Nat \ S : \A y \in Nat \ S : x <= y
  BY Smallest
<1>2. x # 0 /\ x - 1 \in Nat /\ x - 1 \in S
  BY <1>1
<1> QED BY <1>1, <1>2

LEMMA EachSizeHasAClass == ASSUME NEW n PROVE Segregated!get_class_id(n) \in Segregated!Classes
<1> DEFINE holding == {c \in Segregated!Classes : n <= class_limits[c]}
<1>1. /\ Segregated!Classes = 1..Len(class_limits) /\ Segregated!NUM_CLASSES = Len(class_limits)
      /\ Len(class_limits) \in Nat \ {0}
  BY StrategiesAssumption DEF Segregated!Classes, Segregated!NUM_CLASSES
<1>2. CASE holding = {}
  BY <1>1, <1>2 DEF Segregated!get_class_id
<1>3. CASE holding # {}
  <2>1. holding \in SUBSET Nat /\ holding \subseteq Segregated!Classes
    BY <1>1
  <2>2. Segregated!get_class_id(n) = CHOOSE c \in holding : \A d \in holding : c <= d
    BY <1>3 DEF Segregated!get_class_id
  <2> HIDE DEF holding
  <2>3. \E c \in holding : \A d \in holding : c <= d
    BY <1>3, <2>1, Smallest
  <2> QED BY <2>1, <2>2, <2>3
<1> QED BY <1>2, <1>3

\* What the search has hit is free and large enough.
LEMMA HitFits ==
    ASSUME BlocksInv, NEW m \in Nat, NEW h \in Segregated!Hits(m), NEW a \in DOMAIN size,
           a = Segregated!Listed(h[1])[h[2]]
    PROVE  free[a] /\ m <= size[a]
<1> DEFINE list == [c \in Segregated!Classes |-> Segregated!Listed(c)]
<1>1. /\ h[1] \in Segregated!get_class_id(m)..Segregated!NUM_CLASSES
      /\ free[list[h[1]][h[2]]] /\ size[list[h[1]][h[2]]] >= m
  BY DEF Segregated!Hits
<1>2. h[1] \in Segregated!Classes
  <2>1. /\ Segregated!get_class_id(m) \in Segregated!Classes
        /\ Segregated!Classes = 1..Segregated!NUM_CLASSES
        /\ Segregated!NUM_CLASSES \in Nat
    BY EachSizeHasAClass, StrategiesAssumption DEF Segregated!Classes, Segregated!NUM_CLASSES
  <2> QED BY <1>1, <2>1
<1>3. list[h[1]][h[2]] = a
  BY <1>2
<1> HIDE DEF list
<1>4. size[a] \in Nat
  BY DEF BlocksInv, Laid
<1> QED BY <1>1, <1>3, <1>4

LEMMA SegregatedStep ==
    ASSUME BlocksInv, strategy = "segregated", Segregated!Next, UNCHANGED <<strategy, used, curr>>
    PROVE  StepOfBlocks
<1>0. Header = LINKED_HDR /\ ~Merging /\ DOMAIN free = DOMAIN size
  BY DEF Header, Merging, BlocksInv
<1>1. CASE \E n \in Requests : Segregated!my_malloc(n)
  <2>1. PICK n \in Requests : Segregated!my_malloc(n)
    BY <1>1
  <2>a. Segregated!ALIGN4(n) = ALIGN4(n)
    BY DEF Segregated!ALIGN4, ALIGN4
  <2>2. CASE UNCHANGED <<size, free, live>>
    BY <2>2 DEF StepOfBlocks
  <2>3. CASE ~UNCHANGED <<size, free, live>>
    <3>1. PICK h \in Segregated!Hits(ALIGN4(n)) :
            \E a \in DOMAIN size :
              /\ a = Segregated!Listed(h[1])[h[2]] /\ live' = Segregated!Extend(live, a, n)
              /\ Segregated!MallocSplit(a, ALIGN4(n)) \/ Segregated!MallocWhole(a, ALIGN4(n))
      BY <2>1, <2>3, <2>a DEF Segregated!my_malloc
    <3>2. PICK a \in DOMAIN size :
            /\ a = Segregated!Listed(h[1])[h[2]] /\ live' = Segregated!Extend(live, a, n)
            /\ Segregated!MallocSplit(a, ALIGN4(n)) \/ Segregated!MallocWhole(a, ALIGN4(n))
      BY <3>1
    <3>3. free[a] /\ ALIGN4(n) <= size[a]
      BY <3>2, RequestsAssumption, AlignFact, HitFits
    <3>4. Takes(a, n)
      BY <3>2, <3>3 DEF Segregated!Extend, Takes
    <3>5. TakesPart(a, n) \/ TakesAll(a, n)
      <4>1. CASE Segregated!MallocSplit(a, ALIGN4(n))
        <5> DEFINE b == a + Header + ALIGN4(n)
        <5>1. /\ size[a] - ALIGN4(n) > Header + 4
              /\ size' = [c \in DOMAIN size \cup {b} |->
                         IF c = a THEN ALIGN4(n)
                         ELSE IF c = b THEN size[a] - ALIGN4(n) - Header ELSE size[c]]
              /\ free' = [Segregated!Extend(free, b, TRUE) EXCEPT ![a] = FALSE]
          BY <1>0, <4>1 DEF Segregated!MallocSplit, Segregated!Splits, Segregated!Split
        <5>2. free' = [c \in DOMAIN size \cup {b} |->
                         IF c = a THEN FALSE ELSE IF c = b THEN TRUE ELSE free[c]]
          <6> HIDE DEF b
          <6> QED BY <1>0, <5>1 DEF Segregated!Extend
        <5> QED BY <3>4, <5>1, <5>2 DEF TakesPart
      <4>2. CASE Segregated!MallocWhole(a, ALIGN4(n))
        BY <3>4, <4>2 DEF Segregated!MallocWhole, TakesAll
      <4> QED BY <3>2, <4>1, <4>2
    <3> QED BY <1>0, <3>5 DEF Malloc, StepOfBlocks
  <2> QED BY <2>2, <2>3
<1>2. CASE \E a \in DOMAIN live : Segregated!my_free(a)
  BY <1>0, <1>2 DEF Segregated!my_free, Segregated!Drop, GivesBack, FreeCall, StepOfBlocks
<1> QED BY <1>1, <1>2 DEF Segregated!Next

LEMMA KindsOfSteps ==
    ASSUME StrategiesIInv, strategy # "bins", [StrategiesNext]_strategyVars
    PROVE  StepOfBlocks
<1> USE DEF vars, chunkVars
<1>1. CASE UNCHANGED strategyVars
  BY <1>1 DEF strategyVars, StepOfBlocks
<1>2. CASE StrategiesNext /\ strategy = "implicit"
  BY <1>2, ImplicitStep DEF StrategiesNext, StrategiesIInv
<1>3. CASE StrategiesNext /\ strategy = "explicit"
  BY <1>3, ExplicitStep DEF StrategiesNext, StrategiesIInv
<1>4. CASE StrategiesNext /\ strategy = "segregated"
  BY <1>4, SegregatedStep DEF StrategiesNext, StrategiesIInv
<1> QED BY <1>1, <1>2, <1>3, <1>4 DEF StrategiesIInv

-----------------------------------------------------------------------------
\* The blocks: every kind of step keeps them end to end, and the client's bytes.
LEMMA BlocksStep ==
    ASSUME strategy # "bins", BlocksInv, StepOfBlocks,
           Merging => WalkInv
    PROVE  BlocksInv'
<1>0. /\ Header \in Nat \ {0} /\ Header % 4 = 0 /\ Pool \in Nat
      /\ Header' = Header /\ Pool' = Pool
  BY HeaderFacts DEF StepOfBlocks, Header, Pool
<1>1. /\ Laid(size, Header, Pool) /\ free \in [DOMAIN size -> BOOLEAN]
      /\ live \in [DOMAIN live -> Requests]
      /\ DOMAIN live = {a \in DOMAIN size : ~free[a]}
      /\ \A a \in DOMAIN live : live[a] <= size[a]
      /\ \A a \in DOMAIN size : size[a] \in Nat
  BY DEF BlocksInv, LiveBlocksKept, Laid
<1> SUFFICES /\ Laid(size', Header, Pool) /\ free' \in [DOMAIN size' -> BOOLEAN]
             /\ live' \in [DOMAIN live' -> Requests]
             /\ DOMAIN live' = {a \in DOMAIN size' : ~free'[a]}
             /\ \A a \in DOMAIN live' : live'[a] <= size'[a]
  BY <1>0 DEF BlocksInv, LiveBlocksKept
<1>2. CASE Malloc
  <2>1. PICK n \in Requests, a \in DOMAIN size : TakesPart(a, n) \/ TakesAll(a, n)
    BY <1>2 DEF Malloc
  <2>2. n \in Nat /\ ALIGN4(n) \in Nat /\ n <= ALIGN4(n) /\ ALIGN4(n) % 4 = 0
    BY RequestsAssumption, AlignFact
  <2>3. /\ free[a] /\ ALIGN4(n) <= size[a] /\ DOMAIN live' = DOMAIN live \cup {a}
        /\ live'[a] = n /\ \A b \in DOMAIN live \ {a} : live'[b] = live[b]
        /\ live' \in [DOMAIN live' -> Requests]
    BY <1>1, <2>1 DEF TakesPart, TakesAll, Takes
  <2>4. CASE TakesAll(a, n)
    BY <1>1, <2>2, <2>3, <2>4 DEF TakesAll
  <2>5. CASE TakesPart(a, n)
    <3> DEFINE b == a + Header + ALIGN4(n)
    <3>1. /\ size[a] - ALIGN4(n) > Header + 4
          /\ size' = [c \in DOMAIN size \cup {b} |->
                       IF c = a THEN ALIGN4(n)
                       ELSE IF c = b THEN size[a] - ALIGN4(n) - Header ELSE size[c]]
          /\ free' = [c \in DOMAIN size \cup {b} |->
                       IF c = a THEN FALSE ELSE IF c = b THEN TRUE ELSE free[c]]
      BY <2>5 DEF TakesPart
    <3>2. b = a + Header + ALIGN4(n)
      OBVIOUS
    <3> HIDE DEF b
    <3>3. Laid(size', Header, Pool) /\ b \notin DOMAIN size
      BY <1>0, <1>1, <2>2, <3>1, <3>2, CutTiles
    <3>4. free' \in [DOMAIN size' -> BOOLEAN]
      BY <1>1, <3>1
    <3>5. DOMAIN live' = {c \in DOMAIN size' : ~free'[c]}
      BY <1>1, <2>3, <3>1, <3>3
    <3>6. \A c \in DOMAIN live' : live'[c] <= size'[c]
      BY <1>1, <2>2, <2>3, <3>1, <3>3
    <3> QED BY <2>3, <3>3, <3>4, <3>5, <3>6
  <2> QED BY <2>1, <2>4, <2>5
<1>3. CASE FreeCall
  BY <1>1, <1>3 DEF FreeCall, GivesBack
<1>4. CASE WalkJoins
  <2> DEFINE b == Behind(curr)
  <2>1. /\ curr \in DOMAIN size /\ b < Pool /\ free[curr] /\ free[b] /\ live' = live
        /\ size' = [c \in DOMAIN size \ {b} |->
                     IF c = curr THEN size[curr] + Header + size[b] ELSE size[c]]
        /\ free' = [c \in DOMAIN size \ {b} |-> free[c]]
    BY <1>1, <1>4 DEF WalkJoins, Joins, WalkInv
  <2>2. b = curr + Header + size[curr]
    BY DEF Behind
  <2> HIDE DEF b
  <2>3. Laid(size', Header, Pool) /\ b \in DOMAIN size /\ curr # b
    BY <1>0, <1>1, <2>1, <2>2, JoinTiles
  <2>4. free' \in [DOMAIN size' -> BOOLEAN]
    BY <1>1, <2>1
  <2>5. DOMAIN live' = {c \in DOMAIN size' : ~free'[c]}
    BY <1>1, <2>1
  <2>6. \A c \in DOMAIN live' : live'[c] <= size'[c]
    BY <1>1, <2>1
  <2> QED BY <1>1, <2>1, <2>3, <2>4, <2>5, <2>6
<1>5. CASE WalkMoves \/ UNCHANGED <<size, free, curr, live>>
  BY <1>1, <1>5 DEF WalkMoves
<1> QED BY <1>2, <1>3, <1>4, <1>5 DEF StepOfBlocks

\* The walk: what it has passed stays merged, and a malloc cuts only a free block,
\* whose neighbours are not free.
LEMMA WalkStep ==
    ASSUME Merging, BlocksInv, WalkInv, StepOfBlocks
    PROVE  WalkInv'
<1>0. /\ Header \in Nat \ {0} /\ Header % 4 = 0 /\ Pool \in Nat
      /\ Header' = Header /\ Pool' = Pool
  BY HeaderFacts DEF StepOfBlocks, Header, Pool, Merging
<1>1. /\ Laid(size, Header, Pool) /\ free \in [DOMAIN size -> BOOLEAN]
      /\ 0 \in DOMAIN size /\ DOMAIN live \subseteq DOMAIN size /\ NULL \notin DOMAIN size
  BY DEF BlocksInv, LiveBlocksKept, Laid, NULL
<1>2. /\ curr \in DOMAIN size \cup {NULL}
      /\ \A a \in DOMAIN size :
           (curr = NULL \/ a < curr) /\ Behind(a) < Pool => ~(free[a] /\ free[Behind(a)])
  BY DEF WalkInv
<1>3. \A a \in DOMAIN size :
        /\ a \in Nat /\ size[a] \in Nat /\ Behind(a) \in 0..Pool /\ a < Pool /\ a < Behind(a)
        /\ Behind(a) < Pool => Behind(a) \in DOMAIN size
        /\ \A b \in DOMAIN size : b <= a \/ Behind(a) <= b
  <2> TAKE a \in DOMAIN size
  <2>1. /\ a \in Nat /\ size[a] \in Nat /\ Behind(a) \in 0..Pool /\ a < Pool
        /\ Behind(a) < Pool => Behind(a) \in DOMAIN size
        /\ \A b \in DOMAIN size : b <= a \/ Behind(a) <= b
    BY <1>0, <1>1, BlocksEnd DEF Behind
  <2>2. a < Behind(a)
    BY <1>0, <2>1 DEF Behind
  <2> QED BY <2>1, <2>2
<1> SUFFICES /\ curr' \in DOMAIN size' \cup {NULL}
             /\ \A a \in DOMAIN size' :
                  (curr' = NULL \/ a < curr') /\ Behind(a)' < Pool
                    => ~(free'[a] /\ free'[Behind(a)'])
  BY <1>0 DEF WalkInv
<1>4. CASE Malloc
  <2>1. PICK n \in Requests, a \in DOMAIN size : TakesPart(a, n) \/ TakesAll(a, n)
    BY <1>4 DEF Malloc
  <2>2. curr = NULL /\ curr' = NULL /\ free[a] /\ ALIGN4(n) \in Nat
    BY <1>4, <2>1, RequestsAssumption, AlignFact DEF Malloc, TakesPart, TakesAll, Takes
  <2>3. CASE TakesAll(a, n)
    BY <1>0, <1>1, <1>2, <2>2, <2>3 DEF TakesAll, Behind
  <2>4. CASE TakesPart(a, n)
    <3> DEFINE b == a + Header + ALIGN4(n)
    <3>1. /\ size[a] - ALIGN4(n) > Header + 4
          /\ size' = [c \in DOMAIN size \cup {b} |->
                       IF c = a THEN ALIGN4(n)
                       ELSE IF c = b THEN size[a] - ALIGN4(n) - Header ELSE size[c]]
          /\ free' = [c \in DOMAIN size \cup {b} |->
                       IF c = a THEN FALSE ELSE IF c = b THEN TRUE ELSE free[c]]
      BY <2>4 DEF TakesPart
    <3>2. b = a + Header + ALIGN4(n)
      OBVIOUS
    <3> HIDE DEF b
    <3>3. a < b /\ b < Behind(a) /\ b \notin DOMAIN size
      BY <1>0, <1>3, <2>2, <3>1, <3>2 DEF Behind
    <3>4. ASSUME NEW c \in DOMAIN size', Behind(c)' < Pool PROVE ~(free'[c] /\ free'[Behind(c)'])
      <4>1. CASE c = a
        BY <3>1, <4>1
      <4>2. CASE c = b
        <5>1. Behind(c)' = Behind(a)
          BY <1>0, <1>3, <2>2, <3>1, <3>2, <3>3, <4>2 DEF Behind
        <5>2. ~free[Behind(a)] /\ Behind(a) \in DOMAIN size /\ Behind(a) # b
          BY <1>2, <1>3, <2>2, <3>3, <3>4, <5>1
        <5> QED BY <3>1, <5>1, <5>2
      <4>3. CASE c \in DOMAIN size \ {a}
        <5>1. Behind(c)' = Behind(c) /\ c # b
          BY <1>0, <3>1, <3>3, <4>3 DEF Behind
        <5>2. Behind(c) \in DOMAIN size /\ ~(free[c] /\ free[Behind(c)])
          BY <1>2, <1>3, <2>2, <3>4, <4>3, <5>1
        <5> QED BY <3>1, <3>3, <4>3, <5>1, <5>2
      <4> QED BY <3>1, <4>1, <4>2, <4>3
    <3> QED BY <2>2, <3>4
  <2> QED BY <2>1, <2>3, <2>4
<1>5. CASE FreeCall
  BY <1>1, <1>3, <1>5 DEF FreeCall, GivesBack, NULL
<1>6. CASE WalkJoins
  <2> DEFINE b == Behind(curr)
  <2>1. /\ curr \in DOMAIN size /\ curr' = curr /\ b < Pool
        /\ size' = [c \in DOMAIN size \ {b} |->
                     IF c = curr THEN size[curr] + Header + size[b] ELSE size[c]]
        /\ free' = [c \in DOMAIN size \ {b} |-> free[c]]
    BY <1>1, <1>2, <1>6 DEF WalkJoins, Joins
  <2>2. b \in DOMAIN size /\ curr < b
    BY <1>3, <2>1
  <2> HIDE DEF b
  <2>3. ASSUME NEW c \in DOMAIN size', c < curr, Behind(c)' < Pool
        PROVE  ~(free'[c] /\ free'[Behind(c)'])
    <3>1. c \in DOMAIN size /\ c # b /\ Behind(c)' = Behind(c)
      BY <1>0, <1>3, <2>1, <2>3 DEF Behind
    <3>2. Behind(c) <= curr /\ Behind(c) \in DOMAIN size /\ Behind(c) # b
      BY <1>3, <2>1, <2>2, <2>3, <3>1
    <3>3. ~(free[c] /\ free[Behind(c)])
      BY <1>2, <2>3, <3>1
    <3> QED BY <2>1, <3>1, <3>2, <3>3
  <2>4. curr' \in DOMAIN size' /\ curr' # NULL
    BY <1>1, <2>1, <2>2, <1>3
  <2> QED BY <2>1, <2>3, <2>4
<1>7. CASE WalkMoves
  <2>1. /\ curr \in DOMAIN size /\ UNCHANGED <<size, free>>
        /\ IF Behind(curr) >= Pool THEN curr' = NULL
           ELSE ~(free[curr] /\ free[Behind(curr)]) /\ curr' = Behind(curr)
    BY <1>2, <1>7 DEF WalkMoves
  <2>2. \A a : Behind(a)' = Behind(a)
    BY <1>0, <2>1 DEF Behind
  <2>3. Behind(curr) >= Pool <=> ~(Behind(curr) < Pool)
    BY <1>0, <1>3, <2>1
  <2>4. curr' \in DOMAIN size \cup {NULL}
    BY <1>3, <2>1, <2>3
  <2>5. ASSUME NEW a \in DOMAIN size, curr' = NULL \/ a < curr', Behind(a) < Pool
        PROVE  ~(free[a] /\ free[Behind(a)])
    <3>1. CASE a < curr
      BY <1>2, <2>5, <3>1
    <3>2. CASE a = curr
      BY <2>1, <2>3, <2>5, <3>2
    <3>3. CASE curr < a
      <4>1. Behind(curr) <= a
        BY <1>3, <2>1, <3>3
      <4> QED BY <1>0, <1>1, <1>3, <2>1, <2>5, <4>1 DEF NULL
    <3> QED BY <1>3, <2>1, <3>1, <3>2, <3>3
  <2> QED BY <2>1, <2>2, <2>4, <2>5
<1>8. CASE UNCHANGED <<size, free, curr, live>>
  BY <1>0, <1>2, <1>8 DEF Behind
<1> QED BY <1>4, <1>5, <1>6, <1>7, <1>8 DEF StepOfBlocks
-----------------------------------------------------------------------------
(***************************************************************************)
(* Lists.  What a walk meets, and what the three ways of changing a list   *)
(* do to it.                                                               *)
(***************************************************************************)
LEMMA WalkSteps ==
    ASSUME NEW links, NEW head, NEW B \in Nat
    PROVE  Walk(links, head, B) =
             [k \in 0..B |-> IF k = 0 THEN head
                             ELSE IF Walk(links, head, B)[k - 1] = NULL THEN NULL
                             ELSE links[Walk(links, head, B)[k - 1]]]
<1> DEFINE Walks(g, n) == g = [k \in 0..n |-> IF k = 0 THEN head
                                              ELSE IF g[k - 1] = NULL THEN NULL
                                              ELSE links[g[k - 1]]]
           S == {n \in Nat : \E g : Walks(g, n)}
           W == CHOOSE g : Walks(g, B)
<1>1. 0 \in S
  <2>1. Walks([k \in 0..0 |-> head], 0)
    OBVIOUS
  <2> QED BY <2>1
<1>2. ASSUME NEW n \in Nat, n \in S PROVE n + 1 \in S
  <2>1. PICK g : Walks(g, n)
    BY <1>2
  <2> DEFINE v == IF g[n] = NULL THEN NULL ELSE links[g[n]]
             h == [k \in 0..(n + 1) |-> IF k = n + 1 THEN v ELSE g[k]]
  <2>2. ASSUME NEW k \in 0..(n + 1)
        PROVE  h[k] = IF k = 0 THEN head ELSE IF h[k - 1] = NULL THEN NULL ELSE links[h[k - 1]]
    <3>1. CASE k = n + 1
      <4>1. k # 0 /\ k - 1 = n /\ h[k] = v /\ h[n] = g[n]
        BY <3>1
      <4> QED BY <4>1
    <3>2. CASE k \in 0..n
      <4>1. h[k] = g[k] /\ (k # 0 => h[k - 1] = g[k - 1])
        BY <3>2
      <4> HIDE DEF h
      <4> QED BY <2>1, <3>2, <4>1
    <3> QED BY <3>1, <3>2
  <2>3. h = [k \in 0..(n + 1) |-> h[k]]
    OBVIOUS
  <2> HIDE DEF h
  <2>4. Walks(h, n + 1)
    BY <2>2, <2>3
  <2> QED BY <2>4
<1> HIDE DEF Walks
<1>3. \E g : Walks(g, B)
  <2> HIDE DEF S
  <2>1. Nat \subseteq S
    BY <1>1, <1>2, CountingUp
  <2> QED BY <2>1 DEF S
<1>4. Walks(W, B)
  BY <1>3
<1>5. Walk(links, head, B) = W
  BY DEF Walk, Walks
<1> HIDE DEF W
<1> QED BY <1>4, <1>5 DEF Walks

\* A walk of as many steps as there are blocks, or more, meets the blocks of a list,
\* each of them once and no others, and ends.
LEMMA WalkMeetsTheList ==
    ASSUME NEW links, NEW head, NEW S, NULL \notin S, IsFiniteSet(S), NEW B \in Nat,
           Cardinality(S) <= B, Leads(links, head, S)
    PROVE  LET W == Walk(links, head, B) IN
           /\ DOMAIN W = 0..B /\ W[0] = head
           /\ \A k \in 1..B : W[k - 1] # NULL => W[k] = links[W[k - 1]]
           /\ \A k \in 1..B : W[k - 1] = NULL => W[k] = NULL
           /\ \A k \in 0..B : W[k] \in S \cup {NULL}
           /\ W[B] = NULL
           /\ \A a \in S : \E k \in 0..B : W[k] = a
           /\ \A nodes \in SUBSET (0..B) :
                (\A k \in 0..B : k \in nodes <=> W[k] # NULL)
                  => Cardinality(nodes) = Cardinality(S)
<1> DEFINE W == Walk(links, head, B)
           nodes == {k \in 0..B : W[k] # NULL}
<1>a. W = Walk(links, head, B) /\ nodes = {k \in 0..B : W[k] # NULL}
  OBVIOUS
<1> HIDE DEF W, nodes
<1>1. /\ head \in S \cup {NULL}
      /\ \A a \in S : /\ links[a] \in (S \ {head}) \cup {NULL}
                      /\ \A b \in S : a # b /\ links[a] = links[b] => links[a] = NULL
      /\ \A T \in SUBSET S :
           head \in T \cup {NULL} /\ (\A a \in T : links[a] \in T \cup {NULL}) => T = S
  BY DEF Leads
<1>2. /\ DOMAIN W = 0..B /\ W[0] = head
      /\ \A k \in 1..B : W[k - 1] # NULL => W[k] = links[W[k - 1]]
      /\ \A k \in 1..B : W[k - 1] = NULL => W[k] = NULL
  <2>1. W = [k \in 0..B |-> IF k = 0 THEN head
                            ELSE IF W[k - 1] = NULL THEN NULL ELSE links[W[k - 1]]]
    BY <1>a, WalkSteps
  <2>2. DOMAIN W = 0..B
    BY <2>1
  <2>3. \A k \in 0..B : W[k] = IF k = 0 THEN head
                               ELSE IF W[k - 1] = NULL THEN NULL ELSE links[W[k - 1]]
    BY <2>1
  <2> QED BY <2>2, <2>3
<1>3. \A k \in 0..B : W[k] \in S \cup {NULL}
  <2> DEFINE N == {k \in Nat : k <= B => W[k] \in S \cup {NULL}}
  <2>1. 0 \in N
    BY <1>1, <1>2
  <2>2. ASSUME NEW k \in Nat, k \in N PROVE k + 1 \in N
    <3> SUFFICES ASSUME k + 1 <= B PROVE W[k + 1] \in S \cup {NULL}
      OBVIOUS
    <3>1. k + 1 \in 1..B /\ (k + 1) - 1 = k /\ W[k] \in S \cup {NULL}
      BY <2>2
    <3> QED BY <1>1, <1>2, <3>1
  <2> HIDE DEF N
  <2>3. Nat \subseteq N
    BY <2>1, <2>2, CountingUp
  <2> QED BY <2>3 DEF N
<1>4. \A i, j \in 0..B : i < j /\ W[j] # NULL => W[i] # NULL
  <2> DEFINE N == {j \in Nat : \A i \in 0..B : j <= B /\ i < j /\ W[j] # NULL => W[i] # NULL}
  <2>1. 0 \in N
    OBVIOUS
  <2>2. ASSUME NEW j \in Nat, j \in N PROVE j + 1 \in N
    <3> SUFFICES ASSUME NEW i \in 0..B, j + 1 <= B, i < j + 1, W[j + 1] # NULL PROVE W[i] # NULL
      OBVIOUS
    <3>1. j + 1 \in 1..B /\ (j + 1) - 1 = j
      OBVIOUS
    <3>2. W[j] # NULL
      BY <1>2, <3>1
    <3>3. i = j \/ i < j
      OBVIOUS
    <3> QED BY <2>2, <3>2, <3>3
  <2> HIDE DEF N
  <2>3. Nat \subseteq N
    BY <2>1, <2>2, CountingUp
  <2> QED BY <2>3 DEF N
<1>5. \A i, j \in 0..B : i < j /\ W[j] # NULL => W[i] # W[j]
  <2> DEFINE N == {i \in Nat : \A j \in 0..B : i < j /\ W[j] # NULL => W[i] # W[j]}
  <2>a. \A j \in 1..B : W[j] # NULL =>
          W[j - 1] \in S /\ W[j] = links[W[j - 1]] /\ j - 1 \in 0..B
    BY <1>2, <1>3
  <2>1. 0 \in N
    <3> SUFFICES ASSUME NEW j \in 0..B, 0 < j, W[j] # NULL PROVE W[0] # W[j]
      OBVIOUS
    <3>1. W[j - 1] \in S /\ W[j] = links[W[j - 1]]
      BY <2>a
    <3> QED BY <1>1, <1>2, <3>1
  <2>2. ASSUME NEW i \in Nat, i \in N PROVE i + 1 \in N
    <3> SUFFICES ASSUME NEW j \in 0..B, i + 1 < j, W[j] # NULL, W[i + 1] = W[j] PROVE FALSE
      OBVIOUS
    <3>1. W[j - 1] \in S /\ W[j] = links[W[j - 1]] /\ j - 1 \in 0..B
      BY <2>a
    <3>2. i + 1 \in 1..B /\ (i + 1) - 1 = i
      OBVIOUS
    <3>3. W[i] \in S /\ W[j] = links[W[i]]
      BY <2>a, <3>2
    <3>4. W[i] = W[j - 1]
      <4>1. \A a, b \in S : links[a] = links[b] /\ links[a] # NULL => a = b
        BY <1>1
      <4>2. links[W[i]] = links[W[j - 1]] /\ links[W[i]] # NULL
        BY <3>1, <3>3
      <4> QED BY <3>1, <3>3, <4>1, <4>2
    <3>5. i < j - 1 /\ W[j - 1] # NULL
      BY <3>1
    <3> QED BY <2>2, <3>1, <3>4, <3>5
  <2> HIDE DEF N
  <2>3. Nat \subseteq N
    BY <2>1, <2>2, CountingUp
  <2> QED BY <2>3 DEF N
<1>6. \A i, j \in 0..B : W[i] # NULL /\ W[i] = W[j] => i = j
  BY <1>5
<1>7. W[B] = NULL
  <2> SUFFICES ASSUME W[B] # NULL PROVE FALSE
    OBVIOUS
  <2> DEFINE f == [k \in 0..B |-> W[k]]
  <2>1. \A k \in 0..B : W[k] # NULL
    BY <1>4
  <2>2. f \in Injection(0..B, S)
    BY <1>3, <1>6, <2>1 DEF Injection, IsInjective
  <2>3. Cardinality(0..B) <= Cardinality(S)
    BY <2>2, FS_Injection
  <2>4. Cardinality(0..B) = B + 1 /\ Cardinality(S) \in Nat
    BY FS_Interval, FS_CardinalityType
  <2> QED BY <2>3, <2>4
<1>8. {W[k] : k \in nodes} = S
  <2> DEFINE T == {W[k] : k \in nodes}
  <2>1. T \subseteq S
    BY <1>3, <1>a
  <2>2. head \in T \cup {NULL}
    BY <1>2, <1>a
  <2>3. ASSUME NEW a \in T PROVE links[a] \in T \cup {NULL}
    <3>1. PICK k \in 0..B : W[k] = a /\ a # NULL
      BY <1>a
    <3>2. k + 1 \in 1..B /\ (k + 1) - 1 = k
      BY <1>7, <3>1
    <3>3. W[k + 1] = links[a]
      BY <1>2, <3>1, <3>2
    <3> QED BY <1>a, <3>2, <3>3
  <2> HIDE DEF T
  <2>4. T = S
    BY <1>1, <2>1, <2>2, <2>3
  <2> QED BY <2>4 DEF T
<1>9. \A a \in S : \E k \in 0..B : W[k] = a
  BY <1>8, <1>a
<1>10. IsFiniteSet(nodes) /\ Cardinality(nodes) = Cardinality(S)
  <2> DEFINE f == [k \in nodes |-> W[k]]
  <2>1. IsFiniteSet(nodes)
    <3>1. IsFiniteSet(0..B) /\ nodes \subseteq 0..B
      BY <1>a, FS_Interval
    <3> QED BY <3>1, FS_Subset
  <2>2. f \in Injection(nodes, S)
    <3>1. f \in [nodes -> S]
      BY <1>8
    <3>2. \A i, j \in nodes : f[i] = f[j] => i = j
      BY <1>6, <1>a
    <3> HIDE DEF f
    <3> QED BY <3>1, <3>2 DEF Injection, IsInjective
  <2>3. \A a \in S : \E k \in nodes : f[k] = a
    BY <1>8
  <2>4. f \in Surjection(nodes, S)
    BY <2>2, <2>3 DEF Surjection, Injection
  <2>5. Cardinality(nodes) = Cardinality(S)
    BY <2>2, <2>4, FS_Injection
  <2> QED BY <2>1, <2>5
<1>11. ASSUME NEW N \in SUBSET (0..B), \A k \in 0..B : k \in N <=> W[k] # NULL
       PROVE  Cardinality(N) = Cardinality(S)
  <2>1. N = nodes
    BY <1>11, <1>a
  <2> QED BY <1>10, <2>1
<1> QED BY <1>2, <1>3, <1>7, <1>9, <1>11, <1>a

\* A list whose head leaves it, a block in front of a list, and what else is written.
LEMMA PopKeepsList ==
    ASSUME NEW l, NEW h, NEW C, NULL \notin C, Leads(l, h, C), h # NULL
    PROVE  Leads(l, l[h], C \ {h})
<1>1. /\ h \in C
      /\ \A a \in C : /\ l[a] \in (C \ {h}) \cup {NULL}
                      /\ \A b \in C : a # b /\ l[a] = l[b] => l[a] = NULL
      /\ \A T \in SUBSET C :
           h \in T \cup {NULL} /\ (\A a \in T : l[a] \in T \cup {NULL}) => T = C
  BY DEF Leads
<1>2. ASSUME NEW T \in SUBSET (C \ {h}), l[h] \in T \cup {NULL},
             \A a \in T : l[a] \in T \cup {NULL}
      PROVE  T = C \ {h}
  <2>1. T \cup {h} = C
    BY <1>1, <1>2
  <2> QED BY <2>1
<1>3. ASSUME NEW a \in C \ {h}
      PROVE  /\ l[a] \in ((C \ {h}) \ {l[h]}) \cup {NULL}
             /\ \A b \in C \ {h} : a # b /\ l[a] = l[b] => l[a] = NULL
  BY <1>1
<1> QED BY <1>1, <1>2, <1>3 DEF Leads

LEMMA PushKeepsList ==
    ASSUME NEW l, NEW h, NEW C, NULL \notin C, Leads(l, h, C), NEW a, a \notin C, a # NULL,
           NEW m, m[a] = h, \A b \in C : m[b] = l[b]
    PROVE  Leads(m, a, C \cup {a})
<1>1. /\ h \in C \cup {NULL}
      /\ \A b \in C : /\ l[b] \in (C \ {h}) \cup {NULL}
                      /\ \A c \in C : b # c /\ l[b] = l[c] => l[b] = NULL
      /\ \A T \in SUBSET C :
           h \in T \cup {NULL} /\ (\A b \in T : l[b] \in T \cup {NULL}) => T = C
  BY DEF Leads
<1>2. ASSUME NEW b \in C \cup {a} PROVE m[b] \in ((C \cup {a}) \ {a}) \cup {NULL}
  BY <1>1
<1>3. ASSUME NEW b \in C \cup {a}, NEW c \in C \cup {a}, b # c, m[b] = m[c] PROVE m[b] = NULL
  BY <1>1, <1>3
<1>4. ASSUME NEW T \in SUBSET (C \cup {a}), a \in T \cup {NULL},
             \A b \in T : m[b] \in T \cup {NULL}
      PROVE  T = C \cup {a}
  <2>1. T \ {a} \in SUBSET C /\ h \in (T \ {a}) \cup {NULL}
    BY <1>1, <1>4
  <2>2. \A b \in T \ {a} : l[b] \in (T \ {a}) \cup {NULL}
    BY <1>1, <1>4
  <2>3. T \ {a} = C
    BY <1>1, <2>1, <2>2
  <2> QED BY <1>4, <2>3
<1> QED BY <1>2, <1>3, <1>4 DEF Leads

LEMMA OthersKeepList ==
    ASSUME NEW l, NEW m, NEW h, NEW C, Leads(l, h, C), \A a \in C : m[a] = l[a]
    PROVE  Leads(m, h, C)
<1>1. \A T \in SUBSET C : (\A a \in T : m[a] \in T \cup {NULL}) => \A a \in T : l[a] \in T \cup {NULL}
  OBVIOUS
<1> QED BY <1>1 DEF Leads

\* remove_from_free_list and remove_from_class: the neighbours of a block in the middle
\* are linked to each other.
LEMMA UnlinkKeepsList ==
    ASSUME NEW l, NEW k, NEW h, NEW C, NULL \notin C, LeadsAndBack(l, k, h, C), NEW b \in C,
           NEW m, \A a \in C \ {b} : m[a] = IF a = k[b] THEN l[b] ELSE l[a]
    PROVE  Leads(m, RemoveHead(l, h, b), C \ {b})
<1> DEFINE g == RemoveHead(l, h, b)
<1>1. /\ h \in C
      /\ \A a \in C : /\ l[a] \in (C \ {h}) \cup {NULL}
                      /\ \A c \in C : a # c /\ l[a] = l[c] => l[a] = NULL
      /\ \A T \in SUBSET C :
           h \in T \cup {NULL} /\ (\A a \in T : l[a] \in T \cup {NULL}) => T = C
      /\ \A a \in C : IF a = h THEN k[a] = NULL ELSE k[a] \in C /\ l[k[a]] = a
  <2>1. h # NULL
    <3>1. {} \in SUBSET C /\ \A a \in {} : l[a] \in {} \cup {NULL}
      OBVIOUS
    <3>2. h \in {} \cup {NULL} => {} = C
      BY <3>1 DEF LeadsAndBack, Leads
    <3> QED BY <3>2
  <2> QED BY <2>1 DEF LeadsAndBack, Leads
<1>2. g = IF b = h THEN l[b] ELSE h
  BY DEF RemoveHead
<1> HIDE DEF g
<1>3. /\ \A a \in C : l[a] # a
      /\ b # h => k[b] \in C \ {b} /\ l[k[b]] = b
      /\ b = h => k[b] = NULL
  <2>1. ASSUME NEW a \in C, l[a] = a PROVE FALSE
    <3>1. C \ {a} \in SUBSET C /\ a # h
      BY <1>1, <2>1
    <3>2. \A c \in C \ {a} : l[c] \in (C \ {a}) \cup {NULL}
      BY <1>1, <2>1
    <3>3. C \ {a} = C
      BY <1>1, <3>1, <3>2
    <3> QED BY <3>3
  <2> QED BY <1>1, <2>1
<1>4. g \in (C \ {b}) \cup {NULL}
  BY <1>1, <1>2, <1>3
<1>5. ASSUME NEW a \in C \ {b}
      PROVE  m[a] \in ((C \ {b}) \ {g}) \cup {NULL}
  <2>1. CASE a = k[b]
    BY <1>1, <1>2, <1>3, <2>1
  <2>2. CASE a # k[b]
    <3>1. m[a] = l[a] /\ l[a] # b
      BY <1>1, <1>3, <2>2
    <3> QED BY <1>1, <1>2, <3>1
  <2> QED BY <2>1, <2>2
<1>6. ASSUME NEW a \in C \ {b}, NEW c \in C \ {b}, a # c, m[a] = m[c] PROVE m[a] = NULL
  BY <1>1, <1>6
<1>7. ASSUME NEW T \in SUBSET (C \ {b}), g \in T \cup {NULL},
             \A a \in T : m[a] \in T \cup {NULL}
      PROVE  T = C \ {b}
  <2>1. CASE b = h \/ k[b] \in T
    <3>1. T \cup {b} \in SUBSET C /\ h \in T \cup {b}
      BY <1>1, <1>2, <1>7, <2>1
    <3>2. l[b] \in T \cup {NULL}
      BY <1>2, <1>3, <1>7, <2>1
    <3>3. \A a \in T : l[a] \in T \cup {b, NULL}
      BY <1>1, <1>3, <1>7
    <3>4. \A a \in T \cup {b} : l[a] \in (T \cup {b}) \cup {NULL}
      BY <3>2, <3>3
    <3>5. T \cup {b} = C
      BY <1>1, <3>1, <3>4
    <3> QED BY <3>5
  <2>2. CASE b # h /\ k[b] \notin T
    <3>1. h \in T
      BY <1>1, <1>2, <1>7, <2>2
    <3>2. \A a \in T : l[a] \in T \cup {NULL}
      BY <1>1, <1>3, <1>7, <2>2
    <3>3. T = C
      BY <1>1, <3>1, <3>2
    <3> QED BY <3>3
  <2> QED BY <2>1, <2>2
<1>8. Leads(m, g, C \ {b})
  BY <1>4, <1>5, <1>6, <1>7 DEF Leads
<1> QED BY <1>8 DEF g

\* add_to_free_list and add_to_class.
LEMMA AddKeepsBack ==
    ASSUME NEW l, NEW k, NEW h, NEW C, NULL \notin C, LeadsAndBack(l, k, h, C), NEW a, a \notin C,
           a # NULL, NEW m, NEW p, m[a] = h, \A b \in C : m[b] = l[b],
           p[a] = NULL, \A b \in C : p[b] = IF b = h THEN a ELSE k[b]
    PROVE  LeadsAndBack(m, p, a, C \cup {a})
<1>1. Leads(m, a, C \cup {a})
  BY PushKeepsList DEF LeadsAndBack
<1>2. ASSUME NEW b \in C PROVE p[b] \in C \cup {a} /\ m[p[b]] = b
  BY DEF LeadsAndBack
<1> QED BY <1>1, <1>2 DEF LeadsAndBack

LEMMA RemoveKeepsBack ==
    ASSUME NEW l, NEW k, NEW h, NEW C, NULL \notin C, LeadsAndBack(l, k, h, C), NEW b \in C,
           NEW m, \A a \in C \ {b} : m[a] = IF a = k[b] THEN l[b] ELSE l[a],
           NEW p, \A a \in C \ {b} : p[a] = IF a = l[b] THEN k[b] ELSE k[a]
    PROVE  LeadsAndBack(m, p, RemoveHead(l, h, b), C \ {b})
<1> DEFINE g == RemoveHead(l, h, b)
<1>1. Leads(m, g, C \ {b})
  BY UnlinkKeepsList
<1>2. g = IF b = h THEN l[b] ELSE h
  BY DEF RemoveHead
<1>3. /\ \A a \in C : /\ l[a] \in (C \ {h}) \cup {NULL}
                      /\ \A c \in C : a # c /\ l[a] = l[c] => l[a] = NULL
      /\ \A a \in C : IF a = h THEN k[a] = NULL ELSE k[a] \in C /\ l[k[a]] = a
  BY DEF LeadsAndBack, Leads
<1> HIDE DEF g
<1>4. ASSUME NEW a \in C \ {b}
      PROVE  IF a = g THEN p[a] = NULL ELSE p[a] \in C \ {b} /\ m[p[a]] = a
  <2>1. CASE a = l[b]
    <3>1. p[a] = k[b] /\ a # h
      BY <1>3, <2>1
    <3>2. CASE b = h
      BY <1>2, <1>3, <2>1, <3>1, <3>2
    <3>3. CASE b # h
      <4>1. a # g /\ k[b] \in C /\ l[k[b]] = b
        BY <1>2, <1>3, <3>1, <3>3
      <4>2. k[b] # b
        BY <2>1, <4>1
      <4> QED BY <2>1, <3>1, <4>1, <4>2
    <3> QED BY <3>2, <3>3
  <2>2. CASE a # l[b]
    <3>1. p[a] = k[a]
      BY <2>2
    <3>2. CASE a = h
      BY <1>2, <1>3, <3>1, <3>2
    <3>3. CASE a # h
      <4>1. k[a] \in C /\ l[k[a]] = a /\ a # g
        BY <1>2, <1>3, <2>2, <3>3
      <4>2. k[a] # b
        BY <2>2, <4>1
      <4>3. k[a] # k[b]
        BY <1>3, <4>1
      <4> QED BY <3>1, <4>1, <4>2, <4>3
    <3> QED BY <3>2, <3>3
  <2> QED BY <2>1, <2>2
<1>5. LeadsAndBack(m, p, g, C \ {b})
  BY <1>1, <1>4 DEF LeadsAndBack
<1> QED BY <1>5 DEF g

LEMMA OthersKeepBack ==
    ASSUME NEW l, NEW k, NEW m, NEW p, NEW h, NEW C, LeadsAndBack(l, k, h, C),
           \A a \in C : m[a] = l[a] /\ p[a] = k[a]
    PROVE  LeadsAndBack(m, p, h, C)
  BY OthersKeepList DEF LeadsAndBack

\* The functions of the programs, on the headers' fields.  A list with other blocks is
\* not touched.
LEMMA AddedBlock ==
    ASSUME NEW l, NEW k, NEW D, DOMAIN l = D, DOMAIN k = D, NULL \notin D, NEW h,
           NEW C \in SUBSET D, LeadsAndBack(l, k, h, C), NEW a \in D \ C
    PROVE  /\ LeadsAndBack(AddNext(l, h, a), AddPrev(k, h, a), a, C \cup {a})
           /\ DOMAIN AddNext(l, h, a) = D /\ DOMAIN AddPrev(k, h, a) = D
           /\ \A b \in D \ (C \cup {a}) : AddNext(l, h, a)[b] = l[b] /\ AddPrev(k, h, a)[b] = k[b]
<1> DEFINE m == AddNext(l, h, a)
           p == AddPrev(k, h, a)
<1>1. /\ DOMAIN m = D /\ m[a] = h /\ \A b \in D \ {a} : m[b] = l[b]
      /\ DOMAIN p = D /\ p[a] = NULL /\ \A b \in D \ {a} : p[b] = IF b = h THEN a ELSE k[b]
  BY DEF AddNext, AddPrev
<1> HIDE DEF m, p
<1>2. h \in C \cup {NULL}
  BY DEF LeadsAndBack, Leads
<1>3. LeadsAndBack(m, p, a, C \cup {a})
  BY <1>1, AddKeepsBack
<1> QED BY <1>1, <1>2, <1>3 DEF m, p

LEMMA RemovedBlock ==
    ASSUME NEW l, NEW k, NEW D, DOMAIN l = D, DOMAIN k = D, NULL \notin D, NEW h,
           NEW C \in SUBSET D, LeadsAndBack(l, k, h, C), NEW b \in C
    PROVE  /\ LeadsAndBack(RemoveNext(l, k, b), RemovePrev(l, k, b), RemoveHead(l, h, b), C \ {b})
           /\ DOMAIN RemoveNext(l, k, b) = D /\ DOMAIN RemovePrev(l, k, b) = D
           /\ \A a \in D \ C : RemoveNext(l, k, b)[a] = l[a] /\ RemovePrev(l, k, b)[a] = k[a]
<1> DEFINE m == RemoveNext(l, k, b)
           p == RemovePrev(l, k, b)
<1>1. /\ DOMAIN m = D /\ \A a \in D : m[a] = IF a = k[b] THEN l[b] ELSE l[a]
      /\ DOMAIN p = D /\ \A a \in D : p[a] = IF a = l[b] THEN k[b] ELSE k[a]
  BY DEF RemoveNext, RemovePrev
<1> HIDE DEF m, p
<1>2. l[b] \in C \cup {NULL} /\ k[b] \in C \cup {NULL}
  BY DEF LeadsAndBack, Leads
<1>3. LeadsAndBack(m, p, RemoveHead(l, h, b), C \ {b})
  BY <1>1, RemoveKeepsBack
<1> QED BY <1>1, <1>2, <1>3 DEF m, p

\* A header more or less.
LEMMA OneHeaderMore ==
    ASSUME NEW l, NEW k, NEW D, DOMAIN l = D, DOMAIN k = D, NEW h, NEW C \in SUBSET D,
           LeadsAndBack(l, k, h, C), NEW b, b \notin D
    PROVE  /\ DOMAIN Extend(l, b, NULL) = D \cup {b} /\ DOMAIN Extend(k, b, NULL) = D \cup {b}
           /\ LeadsAndBack(Extend(l, b, NULL), Extend(k, b, NULL), h, C)
  BY OthersKeepBack DEF Extend

LEMMA OneHeaderLess ==
    ASSUME NEW l, NEW k, NEW D, DOMAIN l = D, DOMAIN k = D, NEW h, NEW C \in SUBSET D,
           LeadsAndBack(l, k, h, C), NEW b, b \notin C
    PROVE  /\ DOMAIN Drop(l, b) = D \ {b} /\ DOMAIN Drop(k, b) = D \ {b}
           /\ LeadsAndBack(Drop(l, b), Drop(k, b), h, C)
  BY OthersKeepBack DEF Drop

LEMMA SameOperators ==
    /\ Explicit!NULL = NULL /\ Segregated!NULL = NULL
    /\ \A f, b, v : Explicit!Extend(f, b, v) = Extend(f, b, v) /\ Segregated!Extend(f, b, v) = Extend(f, b, v)
    /\ \A f, b : Explicit!Drop(f, b) = Drop(f, b) /\ Segregated!Drop(f, b) = Drop(f, b)
    /\ \A f, h, b : /\ Explicit!AddNext(f, h, b) = AddNext(f, h, b)
                    /\ Explicit!AddPrev(f, h, b) = AddPrev(f, h, b)
                    /\ Explicit!RemoveHead(f, h, b) = RemoveHead(f, h, b)
                    /\ Explicit!RemoveNext(f, h, b) = RemoveNext(f, h, b)
                    /\ Explicit!RemovePrev(f, h, b) = RemovePrev(f, h, b)
                    /\ Explicit!Walk(f, h, b) = Walk(f, h, b)
                    /\ Segregated!AddNext(f, h, b) = AddNext(f, h, b)
                    /\ Segregated!AddPrev(f, h, b) = AddPrev(f, h, b)
                    /\ Segregated!RemoveHead(f, h, b) = RemoveHead(f, h, b)
                    /\ Segregated!RemoveNext(f, h, b) = RemoveNext(f, h, b)
                    /\ Segregated!RemovePrev(f, h, b) = RemovePrev(f, h, b)
                    /\ Segregated!Walk(f, h, b) = Walk(f, h, b)
  BY DEF Explicit!NULL, Explicit!Extend, Explicit!Drop, Explicit!AddNext, Explicit!AddPrev,
         Explicit!RemoveHead, Explicit!RemoveNext, Explicit!RemovePrev, Explicit!Walk,
         Segregated!NULL, Segregated!Extend, Segregated!Drop, Segregated!AddNext,
         Segregated!AddPrev, Segregated!RemoveHead, Segregated!RemoveNext,
         Segregated!RemovePrev, Segregated!Walk,
         NULL, Extend, Drop, AddNext, AddPrev, RemoveHead, RemoveNext, RemovePrev, Walk
-----------------------------------------------------------------------------
(***************************************************************************)
(* The chunks of the fourth program.                                       *)
(***************************************************************************)
LEMMA ChunkFacts ==
    /\ \A a \in Bins!Chunks32 :
         a \in Nat /\ a % 4 = 0 /\ a + 32 <= 32 * NUM_32 /\ Bins!Width(a) = 32
    /\ \A a \in Bins!Chunks64 :
         /\ a \in Nat /\ a % 4 = 0 /\ 32 * NUM_32 <= a /\ a + 64 <= BINS_POOL
         /\ a \notin Bins!Chunks32 /\ Bins!Width(a) = 64
    /\ \A a, b \in Bins!Chunks32 : a + 32 <= b \/ b + 32 <= a \/ a = b
    /\ \A a, b \in Bins!Chunks64 : a + 64 <= b \/ b + 64 <= a \/ a = b
    /\ NUM_32 \in Nat /\ 32 * NUM_32 <= BINS_POOL /\ BINS_POOL \in Nat
    /\ Bins!Chunks = Bins!Chunks32 \cup Bins!Chunks64
    /\ Bins!NULL \notin Bins!Chunks /\ Bins!DATA \notin Bins!Chunks /\ NULL = Bins!NULL
<1>0. NUM_32 \in Nat /\ NUM_64 \in Nat /\ BINS_POOL \in Nat /\ 32 * NUM_32 + 64 * NUM_64 <= BINS_POOL
  BY StrategiesAssumption
<1>1. ASSUME NEW a \in Bins!Chunks32
      PROVE  /\ a \in Nat /\ a % 4 = 0 /\ a + 32 <= 32 * NUM_32 /\ Bins!Width(a) = 32
  <2>1. PICK i \in 0..(NUM_32 - 1) : a = 32 * i
    BY DEF Bins!Chunks32, Bins!CHUNK_32_SIZE
  <2>2. Bins!Width(a) = 32
    BY DEF Bins!Width, Bins!CHUNK_32_SIZE
  <2> QED BY <1>0, <2>1, <2>2
<1>2. ASSUME NEW a \in Bins!Chunks64
      PROVE  /\ a \in Nat /\ a % 4 = 0 /\ 32 * NUM_32 <= a /\ a + 64 <= BINS_POOL
             /\ a \notin Bins!Chunks32 /\ Bins!Width(a) = 64
  <2>1. PICK i \in 0..(NUM_64 - 1) : a = 32 * NUM_32 + 64 * i
    BY DEF Bins!Chunks64, Bins!CHUNK_32_SIZE, Bins!CHUNK_64_SIZE
  <2>2. a \in Nat /\ a % 4 = 0 /\ 32 * NUM_32 <= a /\ a + 64 <= BINS_POOL
    BY <1>0, <2>1
  <2>3. a \notin Bins!Chunks32
    BY <1>0, <1>1, <2>2
  <2>4. Bins!Width(a) = 64
    BY <2>3 DEF Bins!Width, Bins!CHUNK_64_SIZE
  <2> QED BY <2>2, <2>3, <2>4
<1>3. ASSUME NEW a \in Bins!Chunks32, NEW b \in Bins!Chunks32
      PROVE  a + 32 <= b \/ b + 32 <= a \/ a = b
  <2>1. PICK i \in 0..(NUM_32 - 1) : a = 32 * i
    BY DEF Bins!Chunks32, Bins!CHUNK_32_SIZE
  <2>2. PICK j \in 0..(NUM_32 - 1) : b = 32 * j
    BY DEF Bins!Chunks32, Bins!CHUNK_32_SIZE
  <2> QED BY <1>0, <2>1, <2>2
<1>4. ASSUME NEW a \in Bins!Chunks64, NEW b \in Bins!Chunks64
      PROVE  a + 64 <= b \/ b + 64 <= a \/ a = b
  <2>1. PICK i \in 0..(NUM_64 - 1) : a = 32 * NUM_32 + 64 * i
    BY DEF Bins!Chunks64, Bins!CHUNK_32_SIZE, Bins!CHUNK_64_SIZE
  <2>2. PICK j \in 0..(NUM_64 - 1) : b = 32 * NUM_32 + 64 * j
    BY DEF Bins!Chunks64, Bins!CHUNK_32_SIZE, Bins!CHUNK_64_SIZE
  <2> QED BY <1>0, <2>1, <2>2
<1>5. Bins!Chunks = Bins!Chunks32 \cup Bins!Chunks64
  BY DEF Bins!Chunks
<1>6. Bins!NULL \notin Bins!Chunks /\ Bins!DATA \notin Bins!Chunks /\ NULL = Bins!NULL
  BY <1>1, <1>2, <1>5 DEF Bins!NULL, Bins!DATA, NULL
<1>7. 32 * NUM_32 <= BINS_POOL
  BY <1>0
<1> QED BY <1>0, <1>1, <1>2, <1>3, <1>4, <1>5, <1>6, <1>7

LEMMA ChunksStep ==
    ASSUME ChunksInv, [Bins!Next]_(Bins!vars)
    PROVE  ChunksInv'
<1> USE ChunkFacts
<1> DEFINE C == Bins!Chunks32 \ used
           D == Bins!Chunks64 \ used
<1>0. /\ link \in [Bins!Chunks -> Int] /\ used \subseteq Bins!Chunks
      /\ Leads(link, free_list_32, C) /\ Leads(link, free_list_64, D)
  BY DEF ChunksInv
<1>1. NULL \notin C /\ NULL \notin D /\ \A a \in Bins!Chunks : a \in Int
  OBVIOUS
<1> SUFFICES /\ link' \in [Bins!Chunks -> Int] /\ used' \subseteq Bins!Chunks
             /\ Leads(link', free_list_32', Bins!Chunks32 \ used')
             /\ Leads(link', free_list_64', Bins!Chunks64 \ used')
  BY DEF ChunksInv
<1>2. CASE Bins!alloc_32
  <2>1. /\ free_list_32 # NULL /\ free_list_32' = link[free_list_32] /\ link' = link
        /\ used' = used \cup {free_list_32} /\ free_list_64' = free_list_64
    BY <1>2 DEF Bins!alloc_32
  <2>2. free_list_32 \in C
    BY <1>0, <2>1 DEF Leads
  <2>3. /\ Bins!Chunks32 \ used' = C \ {free_list_32} /\ Bins!Chunks64 \ used' = D
        /\ used' \subseteq Bins!Chunks
    BY <1>0, <2>1, <2>2
  <2>4. Leads(link, link[free_list_32], C \ {free_list_32})
    BY <1>0, <1>1, <2>1, PopKeepsList
  <2> QED BY <1>0, <2>1, <2>3, <2>4
<1>3. CASE Bins!alloc_64
  <2>1. /\ free_list_64 # NULL /\ free_list_64' = link[free_list_64] /\ link' = link
        /\ used' = used \cup {free_list_64} /\ free_list_32' = free_list_32
    BY <1>3 DEF Bins!alloc_64
  <2>2. free_list_64 \in D
    BY <1>0, <2>1 DEF Leads
  <2>3. /\ Bins!Chunks64 \ used' = D \ {free_list_64} /\ Bins!Chunks32 \ used' = C
        /\ used' \subseteq Bins!Chunks
    BY <1>0, <2>1, <2>2
  <2>4. Leads(link, link[free_list_64], D \ {free_list_64})
    BY <1>0, <1>1, <2>1, PopKeepsList
  <2> QED BY <1>0, <2>1, <2>3, <2>4
<1>4. CASE \E a \in used : Bins!free_32(a)
  <2>1. PICK a \in used \cap Bins!Chunks32 :
          /\ link' = [link EXCEPT ![a] = free_list_32] /\ free_list_32' = a
          /\ used' = used \ {a} /\ free_list_64' = free_list_64
    BY <1>4 DEF Bins!free_32
  <2>2. free_list_32 \in Int
    BY <1>0, <1>1 DEF Leads, NULL
  <2>3. /\ Bins!Chunks32 \ used' = C \cup {a} /\ Bins!Chunks64 \ used' = D
        /\ used' \subseteq Bins!Chunks /\ link' \in [Bins!Chunks -> Int]
    BY <1>0, <2>1, <2>2
  <2>4. Leads(link', a, C \cup {a})
    <3>1. link'[a] = free_list_32 /\ (\A b \in C : link'[b] = link[b]) /\ a \notin C /\ a # NULL
      BY <1>0, <1>1, <2>1
    <3> HIDE DEF C
    <3> QED BY <1>0, <1>1, <3>1, PushKeepsList
  <2>5. Leads(link', free_list_64, D)
    <3>1. \A b \in D : link'[b] = link[b]
      BY <1>0, <2>1
    <3> HIDE DEF D
    <3> QED BY <1>0, <3>1, OthersKeepList
  <2> QED BY <2>1, <2>3, <2>4, <2>5
<1>5. CASE \E a \in used : Bins!free_64(a)
  <2>1. PICK a \in used \cap Bins!Chunks64 :
          /\ link' = [link EXCEPT ![a] = free_list_64] /\ free_list_64' = a
          /\ used' = used \ {a} /\ free_list_32' = free_list_32
    BY <1>5 DEF Bins!free_64
  <2>2. free_list_64 \in Int
    BY <1>0, <1>1 DEF Leads, NULL
  <2>3. /\ Bins!Chunks64 \ used' = D \cup {a} /\ Bins!Chunks32 \ used' = C
        /\ used' \subseteq Bins!Chunks /\ link' \in [Bins!Chunks -> Int]
    BY <1>0, <2>1, <2>2
  <2>4. Leads(link', a, D \cup {a})
    <3>1. link'[a] = free_list_64 /\ (\A b \in D : link'[b] = link[b]) /\ a \notin D /\ a # NULL
      BY <1>0, <1>1, <2>1
    <3> HIDE DEF D
    <3> QED BY <1>0, <1>1, <3>1, PushKeepsList
  <2>5. Leads(link', free_list_32, C)
    <3>1. \A b \in C : link'[b] = link[b]
      BY <1>0, <2>1
    <3> HIDE DEF C
    <3> QED BY <1>0, <3>1, OthersKeepList
  <2> QED BY <2>1, <2>3, <2>4, <2>5
<1>6. CASE \E a \in used : Bins!ClientWrites(a)
  <2>1. PICK a \in used : /\ link' = [link EXCEPT ![a] = Bins!DATA]
                          /\ UNCHANGED <<free_list_32, free_list_64, used>>
    BY <1>6 DEF Bins!ClientWrites
  <2>2. link' \in [Bins!Chunks -> Int] /\ \A b \in C \cup D : link'[b] = link[b]
    BY <1>0, <2>1 DEF Bins!DATA
  <2>3. Leads(link', free_list_32, C) /\ Leads(link', free_list_64, D)
    BY <1>0, <2>2, OthersKeepList
  <2> QED BY <1>0, <2>1, <2>2, <2>3
<1>7. CASE UNCHANGED Bins!vars
  BY <1>0, <1>7 DEF Bins!vars
<1> QED BY <1>2, <1>3, <1>4, <1>5, <1>6, <1>7 DEF Bins!Next

\* At the start each list leads from its last chunk down to its first.
LEMMA ChunksAtTheStart == ASSUME Bins!Init PROVE ChunksInv
<1> DEFINE N == NUM_32
           M == NUM_64
           C == Bins!Chunks32
           D == Bins!Chunks64
<1>0. /\ link = [a \in Bins!Chunks |-> IF a \in {0, 32 * N} THEN NULL ELSE a - Bins!Width(a)]
      /\ free_list_32 = IF N = 0 THEN NULL ELSE Bins!Max(C)
      /\ free_list_64 = IF M = 0 THEN NULL ELSE Bins!Max(D)
      /\ used = {} /\ N \in Nat /\ M \in Nat /\ NULL = -1
      /\ C = {32 * i : i \in 0..(N - 1)} /\ D = {32 * N + 64 * i : i \in 0..(M - 1)}
  BY StrategiesAssumption
     DEF Bins!Init, Bins!CHUNK_32_SIZE, Bins!CHUNK_64_SIZE, Bins!NULL, NULL, Bins!Chunks32, Bins!Chunks64
<1> HIDE DEF N, M, C, D
<1>a. /\ Bins!Chunks = C \cup D /\ \A a \in C : a \in Nat /\ a + 32 <= 32 * N /\ Bins!Width(a) = 32
      /\ \A a \in D : a \in Nat /\ 32 * N <= a /\ a \notin C /\ Bins!Width(a) = 64
  BY ChunkFacts DEF C, D, N
<1>1. Leads(link, free_list_32, C)
  <2>1. CASE N = 0
    BY <1>0, <2>1 DEF Leads
  <2>2. CASE N # 0
    <3>1. 32 * (N - 1) \in C /\ \A a \in C : a <= 32 * (N - 1)
      BY <1>0, <2>2
    <3>2. free_list_32 = 32 * (N - 1)
      <4>1. free_list_32 = CHOOSE x \in C : \A y \in C : x >= y
        BY <1>0, <2>2 DEF Bins!Max
      <4>2. free_list_32 \in C /\ \A y \in C : free_list_32 >= y
        BY <1>a, <3>1, <4>1
      <4> QED BY <1>0, <1>a, <3>1, <4>2
    <3>3. ASSUME NEW a \in C
          PROVE  /\ link[a] = IF a = 0 THEN NULL ELSE a - 32
                 /\ link[a] \in (C \ {free_list_32}) \cup {NULL}
      <4>1. PICK i \in 0..(N - 1) : a = 32 * i
        BY <1>0
      <4>2. link[a] = IF a = 0 THEN NULL ELSE a - 32
        BY <1>0, <1>a
      <4>3. a # 0 => i - 1 \in 0..(N - 1) /\ a - 32 = 32 * (i - 1)
        BY <1>0, <4>1
      <4>4. a # 0 => a - 32 \in C
        BY <1>0, <4>3
      <4>5. a - 32 # free_list_32
        <5>1. a \in Nat /\ a <= free_list_32
          BY <1>a, <3>1, <3>2
        <5>2. free_list_32 \in Int
          BY <1>0, <3>2
        <5> QED BY <5>1, <5>2
      <4> QED BY <4>2, <4>4, <4>5
    <3>4. ASSUME NEW a \in C, NEW b \in C, a # b, link[a] = link[b] PROVE link[a] = NULL
      <4>1. CASE a # 0 /\ b # 0
        <5>1. a - 32 = b - 32
          BY <3>3, <3>4, <4>1
        <5> QED BY <1>a, <3>4, <5>1
      <4>2. CASE a = 0 \/ b = 0
        BY <3>3, <3>4, <4>2
      <4> QED BY <4>1, <4>2
    <3>5. ASSUME NEW T \in SUBSET C, free_list_32 \in T \cup {NULL},
                 \A a \in T : link[a] \in T \cup {NULL}
          PROVE  T = C
      <4> DEFINE down == {i \in Nat : i < N => 32 * (N - 1 - i) \in T}
      <4>1. 0 \in down
        BY <1>0, <1>a, <3>1, <3>2, <3>5
      <4>2. ASSUME NEW i \in Nat, i \in down PROVE i + 1 \in down
        <5> SUFFICES ASSUME i + 1 < N PROVE 32 * (N - 1 - (i + 1)) \in T
          OBVIOUS
        <5>1. 32 * (N - 1 - i) \in T /\ 32 * (N - 1 - i) # 0
          BY <1>0, <4>2
        <5>2. link[32 * (N - 1 - i)] = (32 * (N - 1 - i)) - 32
          BY <3>3, <5>1
        <5>3. (32 * (N - 1 - i)) - 32 = 32 * (N - 1 - (i + 1)) /\ 32 * (N - 1 - (i + 1)) # NULL
          BY <1>0
        <5> QED BY <3>5, <5>1, <5>2, <5>3
      <4> HIDE DEF down
      <4>3. Nat \subseteq down
        BY <4>1, <4>2, CountingUp
      <4>4. ASSUME NEW a \in C PROVE a \in T
        <5>1. PICK j \in 0..(N - 1) : a = 32 * j
          BY <1>0
        <5>2. N - 1 - j \in Nat /\ N - 1 - j < N /\ a = 32 * (N - 1 - (N - 1 - j))
          BY <1>0, <5>1
        <5> QED BY <4>3, <5>2 DEF down
      <4> QED BY <4>4
    <3> QED BY <3>1, <3>2, <3>3, <3>4, <3>5 DEF Leads
  <2> QED BY <2>1, <2>2
<1>2. Leads(link, free_list_64, D)
  <2>1. CASE M = 0
    BY <1>0, <2>1 DEF Leads
  <2>2. CASE M # 0
    <3>1. 32 * N + 64 * (M - 1) \in D /\ \A a \in D : a <= 32 * N + 64 * (M - 1)
      BY <1>0, <2>2
    <3>2. free_list_64 = 32 * N + 64 * (M - 1)
      <4>1. free_list_64 = CHOOSE x \in D : \A y \in D : x >= y
        BY <1>0, <2>2 DEF Bins!Max
      <4>2. free_list_64 \in D /\ \A y \in D : free_list_64 >= y
        BY <1>a, <3>1, <4>1
      <4> QED BY <1>0, <1>a, <3>1, <4>2
    <3>3. ASSUME NEW a \in D
          PROVE  /\ link[a] = IF a = 32 * N THEN NULL ELSE a - 64
                 /\ link[a] \in (D \ {free_list_64}) \cup {NULL}
      <4>1. PICK i \in 0..(M - 1) : a = 32 * N + 64 * i
        BY <1>0
      <4>2. link[a] = IF a = 32 * N THEN NULL ELSE a - 64
        BY <1>0, <1>a
      <4>3. a # 32 * N => i - 1 \in 0..(M - 1) /\ a - 64 = 32 * N + 64 * (i - 1)
        BY <1>0, <4>1
      <4>4. a # 32 * N => a - 64 \in D
        BY <1>0, <4>3
      <4>5. a - 64 # free_list_64
        <5>1. a \in Nat /\ a <= free_list_64
          BY <1>a, <3>1, <3>2
        <5>2. free_list_64 \in Int
          BY <1>0, <3>2
        <5> QED BY <5>1, <5>2
      <4> QED BY <4>2, <4>4, <4>5
    <3>4. ASSUME NEW a \in D, NEW b \in D, a # b, link[a] = link[b] PROVE link[a] = NULL
      <4>1. CASE a # 32 * N /\ b # 32 * N
        <5>1. a - 64 = b - 64
          BY <3>3, <3>4, <4>1
        <5> QED BY <1>a, <3>4, <5>1
      <4>2. CASE a = 32 * N \/ b = 32 * N
        BY <3>3, <3>4, <4>2
      <4> QED BY <4>1, <4>2
    <3>5. ASSUME NEW T \in SUBSET D, free_list_64 \in T \cup {NULL},
                 \A a \in T : link[a] \in T \cup {NULL}
          PROVE  T = D
      <4> DEFINE down == {i \in Nat : i < M => 32 * N + 64 * (M - 1 - i) \in T}
      <4>1. 0 \in down
        BY <1>0, <1>a, <3>1, <3>2, <3>5
      <4>2. ASSUME NEW i \in Nat, i \in down PROVE i + 1 \in down
        <5> SUFFICES ASSUME i + 1 < M PROVE 32 * N + 64 * (M - 1 - (i + 1)) \in T
          OBVIOUS
        <5>1. 32 * N + 64 * (M - 1 - i) \in T /\ 32 * N + 64 * (M - 1 - i) # 32 * N
          BY <1>0, <4>2
        <5>2. link[32 * N + 64 * (M - 1 - i)] = (32 * N + 64 * (M - 1 - i)) - 64
          BY <3>3, <5>1
        <5>3. (32 * N + 64 * (M - 1 - i)) - 64 = 32 * N + 64 * (M - 1 - (i + 1)) /\ 32 * N + 64 * (M - 1 - (i + 1)) # NULL
          BY <1>0
        <5> QED BY <3>5, <5>1, <5>2, <5>3
      <4> HIDE DEF down
      <4>3. Nat \subseteq down
        BY <4>1, <4>2, CountingUp
      <4>4. ASSUME NEW a \in D PROVE a \in T
        <5>1. PICK j \in 0..(M - 1) : a = 32 * N + 64 * j
          BY <1>0
        <5>2. M - 1 - j \in Nat /\ M - 1 - j < M /\ a = 32 * N + 64 * (M - 1 - (M - 1 - j))
          BY <1>0, <5>1
        <5> QED BY <4>3, <5>2 DEF down
      <4> QED BY <4>4
    <3> QED BY <3>1, <3>2, <3>3, <3>4, <3>5 DEF Leads
  <2> QED BY <2>1, <2>2
<1>3. link \in [Bins!Chunks -> Int]
  BY <1>0, <1>a
<1> QED BY <1>0, <1>1, <1>2, <1>3 DEF ChunksInv, C, D
-----------------------------------------------------------------------------
\* The pool of the first three programs at the start: one free block.
LEMMA OneBlock ==
    ASSUME strategy # "bins", size = [a \in {0} |-> Pool - Header], free = [a \in {0} |-> TRUE],
           live = [a \in {} |-> 0]
    PROVE  BlocksInv /\ (curr = NULL => WalkInv)
<1>1. Header \in Nat \ {0} /\ Pool \in Nat /\ Header <= Pool
  BY HeaderFacts
<1>2. /\ DOMAIN size = {0} /\ size[0] = Pool - Header /\ 0 + Header + size[0] = Pool
      /\ size[0] \in Nat /\ 0 % 4 = 0 /\ DOMAIN free = {0} /\ free[0] = TRUE
      /\ DOMAIN live = {}
  BY <1>1
<1>3. Laid(size, Header, Pool)
  BY <1>1, <1>2 DEF Laid
<1>4. free \in [DOMAIN size -> BOOLEAN] /\ live \in [DOMAIN live -> Requests] /\ LiveBlocksKept
  BY <1>2 DEF LiveBlocksKept
<1>5. curr = NULL => WalkInv
  BY <1>1, <1>2 DEF WalkInv, Behind
<1> QED BY <1>3, <1>4, <1>5 DEF BlocksInv

\* Its list, and the empty ones.
LEMMA OneBlockList ==
    ASSUME NEW l, NEW k, l = [a \in {0} |-> NULL], k = [a \in {0} |-> NULL]
    PROVE  LeadsAndBack(l, k, 0, {0}) /\ LeadsAndBack(l, k, NULL, {})
<1>1. l[0] = NULL /\ k[0] = NULL
  OBVIOUS
<1>2. ASSUME NEW T \in SUBSET {0}, 0 \in T \cup {NULL} PROVE T = {0}
  <2>1. 0 # NULL
    BY DEF NULL
  <2>2. 0 \in T
    BY <1>2, <2>1
  <2> QED BY <2>2
<1>3. Leads(l, 0, {0})
  BY <1>1, <1>2 DEF Leads
<1>4. Leads(l, NULL, {})
  BY DEF Leads
<1> QED BY <1>1, <1>3, <1>4 DEF LeadsAndBack

\* The pool as one block is of the last class.
LEMMA PoolsClass == Segregated!get_class_id(LINKED_POOL - LINKED_HDR) = Segregated!NUM_CLASSES
<1> DEFINE n == LINKED_POOL - LINKED_HDR
           holding == {c \in Segregated!Classes : n <= class_limits[c]}
<1>1. /\ Segregated!Classes = 1..Len(class_limits) /\ Segregated!NUM_CLASSES = Len(class_limits)
      /\ Len(class_limits) \in Nat /\ n \in Nat
      /\ \A c \in 1..Len(class_limits) : class_limits[c] \in Nat
      /\ \A c \in 1..(Len(class_limits) - 1) : class_limits[c] < n
  BY StrategiesAssumption DEF Segregated!Classes, Segregated!NUM_CLASSES
<1>2. Segregated!get_class_id(n) =
        IF holding = {} THEN Segregated!NUM_CLASSES
        ELSE CHOOSE c \in holding : \A d \in holding : c <= d
  BY DEF Segregated!get_class_id
<1>3. holding \subseteq {Segregated!NUM_CLASSES}
  <2> SUFFICES ASSUME NEW c \in 1..Len(class_limits), n <= class_limits[c]
               PROVE  c = Len(class_limits)
    BY <1>1
  <2>1. c \notin 1..(Len(class_limits) - 1)
    BY <1>1
  <2> QED BY <1>1, <2>1
<1> HIDE DEF holding, n
<1>4. CASE holding = {}
  BY <1>2, <1>4 DEF n
<1>5. CASE holding # {}
  <2>0. holding = {Segregated!NUM_CLASSES}
    BY <1>3, <1>5
  <2>1. \E c \in holding : \A d \in holding : c <= d
    BY <1>1, <2>0
  <2>2. (CHOOSE c \in holding : \A d \in holding : c <= d) \in holding
    BY <2>1
  <2>3. Segregated!get_class_id(n) \in holding
    BY <1>2, <1>5, <2>2
  <2> QED BY <2>0, <2>3 DEF n
<1> QED BY <1>4, <1>5

LEMMA StrategiesStart == StrategiesInit => StrategiesIInv
<1> SUFFICES ASSUME StrategiesInit PROVE StrategiesIInv
  OBVIOUS
<1>1. CASE strategy = "implicit" /\ Init
  BY <1>1, OneBlock DEF Init, Header, Pool, StrategiesIInv
<1>2. CASE strategy = "explicit" /\ Explicit!Init
  <2>1. BlocksInv /\ WalkInv
    BY <1>2, OneBlock DEF Explicit!Init, Explicit!NULL, NULL, Header, Pool
  <2>2. /\ DOMAIN size = {0} /\ free = [a \in {0} |-> TRUE] /\ free_list = 0
        /\ next = [a \in {0} |-> NULL] /\ prev = [a \in {0} |-> NULL]
    BY <1>2 DEF Explicit!Init, Explicit!NULL, NULL
  <2>3. FreeBlocks = {0}
    BY <2>2 DEF FreeBlocks
  <2>4. ListInv
    BY <2>2, <2>3, OneBlockList DEF ListInv, LinksOfHeaders
  <2> QED BY <1>2, <2>1, <2>4 DEF StrategiesIInv
<1>3. CASE strategy = "segregated" /\ Segregated!Init /\ curr = NULL
  <2>1. BlocksInv
    BY <1>3, OneBlock DEF Segregated!Init, Header, Pool
  <2>2. /\ DOMAIN size = {0} /\ size[0] = LINKED_POOL - LINKED_HDR /\ free = [a \in {0} |-> TRUE]
        /\ next = [a \in {0} |-> NULL] /\ prev = [a \in {0} |-> NULL] /\ ~hung
        /\ class_bins = [c \in Segregated!Classes |-> IF c = Segregated!NUM_CLASSES THEN 0 ELSE NULL]
    BY <1>3 DEF Segregated!Init, Segregated!NULL, NULL
  <2>3. \A c : FreeOfClass(c) = IF c = Segregated!NUM_CLASSES THEN {0} ELSE {}
    BY <2>2, PoolsClass DEF FreeOfClass, FreeBlocks
  <2>4. \A c \in Segregated!Classes : LeadsAndBack(next, prev, class_bins[c], FreeOfClass(c))
    BY <2>2, <2>3, OneBlockList
  <2>5. BinsInv
    BY <2>2, <2>4 DEF BinsInv, LinksOfHeaders
  <2> QED BY <1>3, <2>1, <2>5 DEF StrategiesIInv
<1>4. CASE strategy = "bins" /\ Bins!Init
  BY <1>4, ChunksAtTheStart DEF StrategiesIInv
<1> QED BY <1>1, <1>2, <1>3, <1>4 DEF StrategiesInit
-----------------------------------------------------------------------------
(***************************************************************************)
(* The lists of the two programs whose headers hold links.                 *)
(***************************************************************************)
LEMMA HeadersAreFew ==
    ASSUME strategy # "bins", BlocksInv
    PROVE  /\ NULL \notin DOMAIN size /\ IsFiniteSet(DOMAIN size)
           /\ Cardinality(DOMAIN size) \in Nat
           /\ \A S \in SUBSET DOMAIN size :
                IsFiniteSet(S) /\ Cardinality(S) <= Cardinality(DOMAIN size)
           /\ \A a \in DOMAIN size : a \in Nat /\ size[a] \in Nat
<1>1. Pool \in Nat /\ DOMAIN size \subseteq 0..Pool /\ \A a \in DOMAIN size : size[a] \in Nat
  BY HeaderFacts DEF BlocksInv, Laid
<1>2. IsFiniteSet(0..Pool)
  BY <1>1, FS_Interval
<1>3. IsFiniteSet(DOMAIN size)
  BY <1>1, <1>2, FS_Subset
<1>4. NULL \notin DOMAIN size
  BY <1>1 DEF NULL
<1>5. Cardinality(DOMAIN size) \in Nat
  BY <1>3, FS_CardinalityType
<1>6. \A S \in SUBSET DOMAIN size :
        IsFiniteSet(S) /\ Cardinality(S) <= Cardinality(DOMAIN size)
  BY <1>3, FS_Subset
<1> QED BY <1>1, <1>3, <1>4, <1>5, <1>6

\* Where the remainder of a block begins, there is no header yet.
LEMMA RemainderIsNew ==
    ASSUME strategy # "bins", BlocksInv, NEW a \in DOMAIN size, NEW n \in Nat,
           size[a] - n > Header + 4, NEW b, b = a + Header + n
    PROVE  b \in Nat /\ b # a /\ b # NULL /\ b \notin DOMAIN size
<1>1. Header \in Nat \ {0} /\ Pool \in Nat /\ Laid(size, Header, Pool)
  BY HeaderFacts DEF BlocksInv
<1>2. /\ a \in Nat /\ size[a] \in Nat
      /\ \A c \in DOMAIN size : c <= a \/ a + Header + size[a] <= c
      /\ \A c \in DOMAIN size : c \in Nat
  BY <1>1, BlocksEnd
<1>3. b \in Nat /\ a < b /\ b < a + Header + size[a]
  BY <1>1, <1>2
<1> QED BY <1>1, <1>2, <1>3 DEF NULL

\* The list holds the free blocks through every call of my_malloc and my_free.
LEMMA ExplicitListStep ==
    ASSUME strategy = "explicit", BlocksInv, WalkInv, ListInv, Explicit!Next
    PROVE  ListInv'
<1>0. /\ Header = LINKED_HDR /\ Header \in Nat \ {0} /\ Pool = LINKED_POOL
      /\ DOMAIN free = DOMAIN size /\ DOMAIN next = DOMAIN size /\ DOMAIN prev = DOMAIN size
      /\ LeadsAndBack(next, prev, free_list, FreeBlocks) /\ FreeBlocks \in SUBSET DOMAIN size
      /\ DOMAIN live = DOMAIN size \ FreeBlocks
      /\ NULL \notin DOMAIN size /\ FreeBlocks = {x \in DOMAIN size : free[x]}
  BY HeaderFacts, HeadersAreFew
     DEF Header, Pool, BlocksInv, LiveBlocksKept, ListInv, LinksOfHeaders, FreeBlocks
<1> DEFINE F == FreeBlocks
<1> SUFFICES /\ DOMAIN next' = DOMAIN size' /\ DOMAIN prev' = DOMAIN size'
             /\ LeadsAndBack(next', prev', free_list', {x \in DOMAIN size' : free'[x]})
  BY DEF ListInv, LinksOfHeaders, FreeBlocks, LeadsAndBack, Leads, NULL
<1>1. CASE \E n \in Requests : Explicit!my_malloc(n)
  <2>1. PICK n \in Requests : Explicit!my_malloc(n)
    BY <1>1
  <2> DEFINE m == ALIGN4(n)
  <2>2. /\ Explicit!ALIGN4(n) = m /\ m \in Nat
    BY RequestsAssumption, AlignFact DEF Explicit!ALIGN4, ALIGN4
  <2>3. PICK a \in DOMAIN size :
          Explicit!IsFirstFit(a, m) /\ (Explicit!MallocSplit(a, m) \/ Explicit!MallocWhole(a, m))
    BY <2>1, <2>2 DEF Explicit!my_malloc
  <2> HIDE DEF m
  <2>4. a \in F
    BY <1>0, <2>3 DEF Explicit!IsFirstFit, Explicit!Fits
  <2>5. CASE Explicit!MallocWhole(a, m)
    <3>1. /\ size' = size /\ free' = [free EXCEPT ![a] = FALSE]
          /\ next' = RemoveNext(next, prev, a) /\ prev' = RemovePrev(next, prev, a)
          /\ free_list' = RemoveHead(next, free_list, a)
      BY <2>5, SameOperators DEF Explicit!MallocWhole, Explicit!Remove
    <3>2. {x \in DOMAIN size' : free'[x]} = F \ {a}
      BY <1>0, <3>1
    <3>3. /\ LeadsAndBack(next', prev', free_list', F \ {a})
          /\ DOMAIN next' = DOMAIN size /\ DOMAIN prev' = DOMAIN size
      BY <1>0, <2>4, <3>1, RemovedBlock
    <3> QED BY <3>1, <3>2, <3>3
  <2>6. CASE Explicit!MallocSplit(a, m)
    <3> DEFINE b == a + Header + m
               l == Extend(next, b, NULL)
               k == Extend(prev, b, NULL)
               D == DOMAIN size \cup {b}
    <3>1. /\ size[a] - m > Header + 4 /\ DOMAIN size' = D
          /\ free' = [Extend(free, b, TRUE) EXCEPT ![a] = FALSE]
          /\ next' = RemoveNext(AddNext(l, free_list, b), AddPrev(k, free_list, b), a)
          /\ prev' = RemovePrev(AddNext(l, free_list, b), AddPrev(k, free_list, b), a)
          /\ free_list' = RemoveHead(AddNext(l, free_list, b), b, a)
      BY <1>0, <2>6, SameOperators DEF Explicit!MallocSplit, Explicit!Splits, Explicit!Split, Explicit!Remove
    <3>2. b # a /\ b # NULL /\ b \notin DOMAIN size
      BY <2>2, <3>1, RemainderIsNew
    <3> HIDE DEF b, l, k
    <3>3. DOMAIN l = D /\ DOMAIN k = D /\ LeadsAndBack(l, k, free_list, F)
      BY <1>0, <3>2, OneHeaderMore DEF l, k
    <3>4. F \in SUBSET D /\ NULL \notin D /\ b \in D \ F
      BY <1>0, <3>2
    <3> HIDE DEF D
    <3>5. /\ LeadsAndBack(AddNext(l, free_list, b), AddPrev(k, free_list, b), b, F \cup {b})
          /\ DOMAIN AddNext(l, free_list, b) = D /\ DOMAIN AddPrev(k, free_list, b) = D
      BY <3>3, <3>4, AddedBlock
    <3>6. a \in F \cup {b} /\ F \cup {b} \in SUBSET D
      BY <2>4, <3>4
    <3>7. /\ LeadsAndBack(next', prev', free_list', (F \cup {b}) \ {a})
          /\ DOMAIN next' = D /\ DOMAIN prev' = D
      BY <3>1, <3>4, <3>5, <3>6, RemovedBlock
    <3>8. {x \in DOMAIN size' : free'[x]} = (F \cup {b}) \ {a}
      <4>1. free' = [x \in D |-> IF x = a THEN FALSE ELSE IF x = b THEN TRUE ELSE free[x]]
        BY <1>0, <3>1 DEF D, Extend
      <4> QED BY <1>0, <3>1, <4>1 DEF D
    <3> QED BY <3>1, <3>7, <3>8
  <2> QED BY <2>3, <2>5, <2>6
<1>2. CASE \E a \in DOMAIN live : Explicit!my_free(a)
  <2>1. PICK a \in DOMAIN live : Explicit!my_free(a)
    BY <1>2
  <2>2. /\ size' = size /\ free' = [free EXCEPT ![a] = TRUE] /\ free_list' = a
        /\ next' = AddNext(next, free_list, a) /\ prev' = AddPrev(prev, free_list, a)
        /\ a \in DOMAIN size \ F
    BY <1>0, <2>1, SameOperators DEF Explicit!my_free
  <2>3. {x \in DOMAIN size' : free'[x]} = F \cup {a}
    BY <1>0, <2>2
  <2>4. /\ LeadsAndBack(next', prev', free_list', F \cup {a})
        /\ DOMAIN next' = DOMAIN size /\ DOMAIN prev' = DOMAIN size
    BY <1>0, <2>2, AddedBlock
  <2> QED BY <2>2, <2>3, <2>4
<1>3. CASE Explicit!MergeNext
  <2> DEFINE b == Behind(curr)
             l == RemoveNext(next, prev, b)
             k == RemovePrev(next, prev, b)
  <2>1. Explicit!After(size, curr) = b
    BY <1>0 DEF Explicit!After, Behind
  <2>2. /\ curr # NULL /\ b < Pool /\ free[curr] /\ free[b]
        /\ next' = Drop(l, b) /\ prev' = Drop(k, b) /\ free_list' = RemoveHead(next, free_list, b)
        /\ free' = Drop(free, b) /\ DOMAIN size' = DOMAIN size \ {b}
    BY <1>0, <1>3, <2>1, SameOperators DEF Explicit!MergeNext, Explicit!Merge
  <2>3. b \in DOMAIN size
    <3>1. curr \in DOMAIN size /\ Laid(size, Header, Pool) /\ Pool \in Nat
      BY <2>2, HeaderFacts DEF WalkInv, BlocksInv
    <3> QED BY <1>0, <2>2, <3>1, BlocksEnd DEF Behind
  <2> HIDE DEF b, l, k
  <2>4. b \in F
    BY <1>0, <2>2, <2>3
  <2>5. /\ LeadsAndBack(l, k, free_list', F \ {b})
        /\ DOMAIN l = DOMAIN size /\ DOMAIN k = DOMAIN size
    BY <1>0, <2>2, <2>4, RemovedBlock DEF l, k
  <2>6. F \ {b} \in SUBSET DOMAIN size /\ b \notin F \ {b}
    BY <1>0
  <2>7. /\ LeadsAndBack(next', prev', free_list', F \ {b})
        /\ DOMAIN next' = DOMAIN size \ {b} /\ DOMAIN prev' = DOMAIN size \ {b}
    BY <2>2, <2>5, <2>6, OneHeaderLess
  <2>8. {x \in DOMAIN size' : free'[x]} = F \ {b}
    BY <1>0, <2>2 DEF Drop
  <2> QED BY <2>2, <2>7, <2>8
<1>4. CASE Explicit!MergeSkip
  <2>1. UNCHANGED <<size, free, next, prev, free_list>>
    BY <1>4 DEF Explicit!MergeSkip
  <2> QED BY <1>0, <2>1
<1> QED BY <1>1, <1>2, <1>3, <1>4 DEF Explicit!Next

\* One list per class.
Lists(l, k, heads, F, D, K) ==
    /\ DOMAIN l = D /\ DOMAIN k = D /\ NULL \notin D
    /\ DOMAIN heads = K /\ F \in [K -> SUBSET D]
    /\ \A c, d \in K : c # d => F[c] \cap F[d] = {}
    /\ \A c \in K : LeadsAndBack(l, k, heads[c], F[c])

LEMMA HeaderAdded ==
    ASSUME NEW l, NEW k, NEW heads, NEW F, NEW D, NEW K, Lists(l, k, heads, F, D, K),
           NEW b, b \notin D, b # NULL
    PROVE  Lists(Extend(l, b, NULL), Extend(k, b, NULL), heads, F, D \cup {b}, K)
<1> DEFINE m == Extend(l, b, NULL)
           p == Extend(k, b, NULL)
<1>1. /\ DOMAIN m = D \cup {b} /\ DOMAIN p = D \cup {b} /\ NULL \notin D \cup {b}
      /\ F \in [K -> SUBSET (D \cup {b})]
      /\ \A x \in D : m[x] = l[x] /\ p[x] = k[x]
  BY DEF Lists, Extend
<1> HIDE DEF m, p
<1>2. ASSUME NEW c \in K PROVE LeadsAndBack(m, p, heads[c], F[c])
  <2>1. F[c] \subseteq D /\ LeadsAndBack(l, k, heads[c], F[c])
    BY DEF Lists
  <2> QED BY <1>1, <2>1, OthersKeepBack
<1>3. Lists(m, p, heads, F, D \cup {b}, K)
  BY <1>1, <1>2 DEF Lists
<1> QED BY <1>3 DEF m, p

\* A block enters the list of a class.
LEMMA AddedToClass ==
    ASSUME NEW l, NEW k, NEW heads, NEW F, NEW D, NEW K, Lists(l, k, heads, F, D, K),
           NEW e \in K, NEW a \in D, \A c \in K : a \notin F[c]
    PROVE  Lists(AddNext(l, heads[e], a), AddPrev(k, heads[e], a), [heads EXCEPT ![e] = a],
                 [F EXCEPT ![e] = @ \cup {a}], D, K)
<1> DEFINE C == F[e]
           h == heads[e]
           m == AddNext(l, h, a)
           p == AddPrev(k, h, a)
           g == [heads EXCEPT ![e] = a]
           G == [F EXCEPT ![e] = @ \cup {a}]
<1>1. /\ DOMAIN l = D /\ DOMAIN k = D /\ NULL \notin D
      /\ C \in SUBSET D /\ a \in D \ C /\ LeadsAndBack(l, k, h, C)
      /\ \A c \in K \ {e} : F[c] \in SUBSET (D \ (C \cup {a})) /\ LeadsAndBack(l, k, heads[c], F[c])
  BY DEF Lists
<1>2. /\ DOMAIN g = K /\ G \in [K -> SUBSET D] /\ g[e] = a /\ G[e] = C \cup {a}
      /\ \A c \in K \ {e} : g[c] = heads[c] /\ G[c] = F[c]
      /\ \A c, d \in K : c # d => G[c] \cap G[d] = {}
  BY DEF Lists
<1>3. /\ m = AddNext(l, h, a) /\ p = AddPrev(k, h, a)
  OBVIOUS
<1> HIDE DEF C, h, g, G, m, p
<1>4. /\ LeadsAndBack(m, p, a, C \cup {a}) /\ DOMAIN m = D /\ DOMAIN p = D
      /\ \A b \in D \ (C \cup {a}) : m[b] = l[b] /\ p[b] = k[b]
  BY <1>1, <1>3, AddedBlock
<1>5. ASSUME NEW c \in K PROVE LeadsAndBack(m, p, g[c], G[c])
  <2>1. CASE c = e
    BY <1>2, <1>4, <2>1
  <2>2. CASE c # e
    <3>1. /\ g[c] = heads[c] /\ G[c] = F[c] /\ LeadsAndBack(l, k, heads[c], F[c])
          /\ \A b \in F[c] : m[b] = l[b] /\ p[b] = k[b]
      BY <1>1, <1>2, <1>4, <2>2
    <3> QED BY <3>1, OthersKeepBack
  <2> QED BY <2>1, <2>2
<1>6. Lists(m, p, g, G, D, K)
  BY <1>1, <1>2, <1>4, <1>5 DEF Lists
<1> QED BY <1>6 DEF m, p, g, G, h

\* A block leaves the list of its class e, as it does when the bin that is looked at, of
\* class d, is another one, unless the block is the head of its list.
LEMMA RemovedFromClass ==
    ASSUME NEW l, NEW k, NEW heads, NEW F, NEW D, NEW K, Lists(l, k, heads, F, D, K),
           NEW e \in K, NEW a \in F[e], NEW d \in K, d = e \/ heads[e] # a
    PROVE  Lists(RemoveNext(l, k, a), RemovePrev(l, k, a),
                 [heads EXCEPT ![d] = RemoveHead(l, @, a)], [F EXCEPT ![e] = @ \ {a}], D, K)
<1> DEFINE C == F[e]
           h == heads[e]
           m == RemoveNext(l, k, a)
           p == RemovePrev(l, k, a)
           g == [heads EXCEPT ![d] = RemoveHead(l, @, a)]
           G == [F EXCEPT ![e] = @ \ {a}]
<1>1. /\ DOMAIN l = D /\ DOMAIN k = D /\ NULL \notin D
      /\ C \in SUBSET D /\ a \in C /\ a # NULL /\ LeadsAndBack(l, k, h, C)
      /\ \A c \in K \ {e} : F[c] \in SUBSET (D \ C) /\ LeadsAndBack(l, k, heads[c], F[c])
  BY DEF Lists
<1>2. ASSUME NEW c \in K \ {e} PROVE heads[c] # a
  <2>1. heads[c] \in F[c] \cup {NULL}
    BY <1>1 DEF LeadsAndBack, Leads
  <2> QED BY <1>1, <2>1
<1>3. /\ DOMAIN g = K /\ G \in [K -> SUBSET D] /\ G[e] = C \ {a}
      /\ \A c \in K \ {e} : G[c] = F[c]
      /\ \A c, x \in K : c # x => G[c] \cap G[x] = {}
      /\ \A c \in K : g[c] = IF c = d THEN RemoveHead(l, heads[d], a) ELSE heads[c]
  BY DEF Lists
<1>4. g[e] = RemoveHead(l, h, a) /\ \A c \in K \ {e} : g[c] = heads[c]
  <2> HIDE DEF g
  <2> QED BY <1>2, <1>3 DEF RemoveHead
<1>a. /\ m = RemoveNext(l, k, a) /\ p = RemovePrev(l, k, a)
  OBVIOUS
<1> HIDE DEF C, h, g, G, m, p
<1>5. /\ LeadsAndBack(m, p, RemoveHead(l, h, a), C \ {a}) /\ DOMAIN m = D /\ DOMAIN p = D
      /\ \A b \in D \ C : m[b] = l[b] /\ p[b] = k[b]
  BY <1>1, <1>a, RemovedBlock
<1>6. ASSUME NEW c \in K PROVE LeadsAndBack(m, p, g[c], G[c])
  <2>1. CASE c = e
    BY <1>3, <1>4, <1>5, <2>1
  <2>2. CASE c # e
    <3>1. /\ g[c] = heads[c] /\ G[c] = F[c] /\ LeadsAndBack(l, k, heads[c], F[c])
          /\ \A b \in F[c] : m[b] = l[b] /\ p[b] = k[b]
      BY <1>1, <1>3, <1>4, <1>5, <2>2
    <3> QED BY <3>1, OthersKeepBack
  <2> QED BY <2>1, <2>2
<1>7. Lists(m, p, g, G, D, K)
  BY <1>1, <1>3, <1>5, <1>6 DEF Lists
<1> QED BY <1>7 DEF m, p, g, G

LEMMA LinkDomains ==
    /\ \A l, h, b : DOMAIN AddNext(l, h, b) = DOMAIN l /\ DOMAIN AddPrev(l, h, b) = DOMAIN l
    /\ \A l, k, b : DOMAIN RemoveNext(l, k, b) = DOMAIN l
    /\ \A l, k, b : DOMAIN RemovePrev(l, k, b) = DOMAIN k
    /\ \A l, b : DOMAIN Extend(l, b, NULL) = DOMAIN l \cup {b}
  BY DEF AddNext, AddPrev, RemoveNext, RemovePrev, Extend

\* No search runs in circles while each bin holds its class.
LEMMA NoCircle ==
    ASSUME strategy = "segregated", BlocksInv, BinsInv, ~misfiled, NEW n
    PROVE  ~Segregated!Loops(n)
<1> SUFFICES ASSUME NEW c \in Segregated!get_class_id(n)..Segregated!NUM_CLASSES,
                    Segregated!Listed(c)[Segregated!Bound] # NULL
             PROVE  FALSE
  BY SameOperators DEF Segregated!Loops
<1>1. c \in Segregated!Classes
  <2>1. /\ Segregated!get_class_id(n) \in Segregated!Classes
        /\ Segregated!Classes = 1..Segregated!NUM_CLASSES /\ Segregated!NUM_CLASSES \in Nat
    BY EachSizeHasAClass, StrategiesAssumption DEF Segregated!Classes, Segregated!NUM_CLASSES
  <2> QED BY <2>1
<1> DEFINE S == FreeOfClass(c)
           B == Cardinality(DOMAIN size)
<1>2. /\ NULL \notin S /\ IsFiniteSet(S) /\ B \in Nat /\ Cardinality(S) <= B
      /\ Leads(next, class_bins[c], S)
  BY <1>1, HeadersAreFew DEF BinsInv, LeadsAndBack, FreeOfClass, FreeBlocks
<1>3. Segregated!Bound = B /\ Segregated!Listed(c) = Walk(next, class_bins[c], B)
  BY SameOperators DEF Segregated!Bound, Segregated!Listed, Segregated!Cardinality, Cardinality
<1> HIDE DEF S, B
<1>4. Walk(next, class_bins[c], B)[B] = NULL
  BY <1>2, WalkMeetsTheList
<1> QED BY <1>3, <1>4

\* The bins hold the free blocks of their classes until a head is misfiled.
LEMMA SegregatedBinsStep ==
    ASSUME strategy = "segregated", BlocksInv, BinsInv, Segregated!Next
    PROVE  BinsInv'
<1> DEFINE K == Segregated!Classes
           class(s) == Segregated!get_class_id(s)
           D == DOMAIN size
           F == [c \in K |-> FreeOfClass(c)]
           FreeThen(c) == {x \in DOMAIN size' : free'[x] /\ class(size'[x]) = c}
<1>0. /\ Header = LINKED_HDR /\ Header \in Nat \ {0}
      /\ DOMAIN free = D /\ DOMAIN next = D /\ DOMAIN prev = D
      /\ DOMAIN class_bins = K /\ NULL \notin D
      /\ DOMAIN live = {x \in D : ~free[x]}
  BY HeaderFacts, HeadersAreFew DEF Header, BlocksInv, LiveBlocksKept, BinsInv, LinksOfHeaders
<1>1. /\ F \in [K -> SUBSET D] /\ \A c, d \in K : c # d => F[c] \cap F[d] = {}
      /\ \A c \in K : F[c] = {x \in D : free[x] /\ class(size[x]) = c}
  BY DEF FreeOfClass, FreeBlocks
<1>2. \A s : class(s) \in K
  BY EachSizeHasAClass
<1>3. ~misfiled => ~hung /\ Lists(next, prev, class_bins, F, D, K)
  <2>1. ~misfiled => ~hung /\ \A c \in K : LeadsAndBack(next, prev, class_bins[c], F[c])
    BY DEF BinsInv
  <2> HIDE DEF F, D, K
  <2> QED BY <1>0, <1>1, <2>1 DEF Lists
<1> HIDE DEF F
<1> SUFFICES /\ DOMAIN next' = DOMAIN size' /\ DOMAIN prev' = DOMAIN size'
             /\ DOMAIN class_bins' = K
             /\ ~misfiled' => /\ ~hung'
                              /\ \E G : /\ Lists(next', prev', class_bins', G, DOMAIN size', K)
                                        /\ \A c \in K : FreeThen(c) = G[c]
  <2>1. \A c : FreeOfClass(c)' = FreeThen(c)
    BY DEF FreeOfClass, FreeBlocks
  <2>2. ASSUME ~misfiled', NEW c \in K
        PROVE  LeadsAndBack(next', prev', class_bins'[c], FreeThen(c))
    BY <2>2 DEF Lists
  <2>3. \A c \in K : LeadsAndBack(next, prev, class_bins[c], FreeOfClass(c))' =
                     LeadsAndBack(next', prev', class_bins'[c], FreeThen(c))
    BY <2>1 DEF LeadsAndBack, Leads
  <2> QED BY <2>2, <2>3 DEF BinsInv, LinksOfHeaders
<1> HIDE DEF K, class
<1>4. CASE \E a \in DOMAIN live : Segregated!my_free(a)
  <2>1. PICK a \in DOMAIN live : Segregated!my_free(a)
    BY <1>4
  <2> DEFINE e == class(size[a])
             G == [F EXCEPT ![e] = @ \cup {a}]
  <2>2. /\ size' = size /\ free' = [free EXCEPT ![a] = TRUE] /\ hung' = hung /\ misfiled' = misfiled
        /\ next' = AddNext(next, class_bins[e], a) /\ prev' = AddPrev(prev, class_bins[e], a)
        /\ class_bins' = [class_bins EXCEPT ![e] = a]
        /\ a \in D /\ ~free[a] /\ e \in K
    BY <1>0, <1>2, <2>1, SameOperators DEF Segregated!my_free, class
  <2>3. ASSUME NEW c \in K PROVE FreeThen(c) = G[c] /\ a \notin F[c]
    BY <1>0, <1>1, <2>2
  <2> HIDE DEF e
  <2>4. DOMAIN next' = DOMAIN size' /\ DOMAIN prev' = DOMAIN size' /\ DOMAIN class_bins' = K
    <3> HIDE DEF D
    <3>1. size' = size /\ DOMAIN size = D
      BY <2>2 DEF D
    <3>2. DOMAIN next' = D /\ DOMAIN prev' = D
      BY <1>0, <2>2, LinkDomains
    <3> QED BY <1>0, <2>2, <3>1, <3>2
  <2>5. ASSUME ~misfiled PROVE Lists(next', prev', class_bins', G, D, K)
    <3>1. \A c \in K : a \notin F[c]
      BY <2>3
    <3>2. Lists(next, prev, class_bins, F, D, K) /\ a \in D /\ e \in K
      BY <1>3, <2>2, <2>5
    <3> HIDE DEF D
    <3> QED BY <2>2, <3>1, <3>2, AddedToClass
  <2> HIDE DEF G
  <2> QED BY <1>3, <2>2, <2>3, <2>4, <2>5
<1>5. CASE \E n \in Requests : Segregated!my_malloc(n)
  <2>1. PICK n \in Requests : Segregated!my_malloc(n)
    BY <1>5
  <2> DEFINE m == ALIGN4(n)
  <2>2. Segregated!ALIGN4(n) = m /\ m \in Nat
    BY RequestsAssumption, AlignFact DEF Segregated!ALIGN4, ALIGN4
  <2> HIDE DEF m
  <2>3. CASE UNCHANGED <<size, free, next, prev, class_bins, misfiled>> /\ Segregated!Loops(m)
    <3>1. misfiled
      BY <2>3, NoCircle
    <3> QED BY <1>0, <2>3, <3>1
  <2>4. CASE ~Segregated!Loops(m)
    <3>1. PICK z \in Segregated!Hits(m) :
            \E a \in DOMAIN size :
              /\ a = Segregated!Listed(z[1])[z[2]]
              /\ Segregated!MallocSplit(a, m) \/ Segregated!MallocWhole(a, m)
      BY <2>1, <2>2, <2>4 DEF Segregated!my_malloc
    <3>2. PICK a \in DOMAIN size :
              /\ a = Segregated!Listed(z[1])[z[2]]
              /\ Segregated!MallocSplit(a, m) \/ Segregated!MallocWhole(a, m)
      BY <3>1
    <3>3. free[a] /\ m <= size[a]
      BY <2>2, <3>1, <3>2, HitFits
    <3>4. hung' = hung
      BY <2>1, <2>2, <2>4 DEF Segregated!my_malloc
    <3> DEFINE e == class(size[a])
    <3>5. e \in K /\ a \in F[e] /\ \A c \in K \ {e} : a \notin F[c]
      BY <1>1, <1>2, <3>2, <3>3
    <3>6. CASE Segregated!MallocWhole(a, m)
      <4> DEFINE G == [F EXCEPT ![e] = @ \ {a}]
      <4>1. /\ size' = size /\ free' = [free EXCEPT ![a] = FALSE] /\ misfiled' = misfiled
            /\ next' = RemoveNext(next, prev, a) /\ prev' = RemovePrev(next, prev, a)
            /\ class_bins' = [class_bins EXCEPT ![e] = RemoveHead(next, @, a)]
        BY <3>6, SameOperators DEF Segregated!MallocWhole, Segregated!RemoveFromClass, class
      <4>2. ASSUME NEW c \in K PROVE FreeThen(c) = G[c]
        BY <1>0, <1>1, <3>5, <4>1
      <4> HIDE DEF e
      <4>3. DOMAIN next' = DOMAIN size' /\ DOMAIN prev' = DOMAIN size' /\ DOMAIN class_bins' = K
        <5> HIDE DEF D
        <5>1. size' = size /\ DOMAIN size = D
          BY <4>1 DEF D
        <5>2. DOMAIN next' = D /\ DOMAIN prev' = D
          BY <1>0, <4>1, LinkDomains
        <5> QED BY <1>0, <4>1, <5>1, <5>2
      <4>4. ASSUME ~misfiled PROVE Lists(next', prev', class_bins', G, D, K)
        <5>1. Lists(next, prev, class_bins, F, D, K)
          BY <1>3, <4>4
        <5> HIDE DEF D
        <5> QED BY <3>5, <4>1, <5>1, RemovedFromClass
      <4> HIDE DEF G
      <4> QED BY <1>3, <3>4, <4>1, <4>2, <4>3, <4>4
    <3>7. CASE Segregated!MallocSplit(a, m)
      <4> DEFINE b == a + Header + m
                 rest == size[a] - m - Header
                 r == class(rest)
                 d == class(m)
                 l == Extend(next, b, NULL)
                 k == Extend(prev, b, NULL)
                 bins == [class_bins EXCEPT ![r] = b]
                 m1 == AddNext(l, class_bins[r], b)
                 p1 == AddPrev(k, class_bins[r], b)
                 E == D \cup {b}
                 G == [F EXCEPT ![r] = @ \cup {b}]
                 H == [G EXCEPT ![e] = @ \ {a}]
      <4>1. /\ size[a] - m > Header + 4
            /\ size' = [c \in E |-> IF c = a THEN m ELSE IF c = b THEN rest ELSE size[c]]
            /\ free' = [Extend(free, b, TRUE) EXCEPT ![a] = FALSE]
            /\ next' = RemoveNext(m1, p1, a) /\ prev' = RemovePrev(m1, p1, a)
            /\ class_bins' = [bins EXCEPT ![d] = RemoveHead(m1, @, a)]
            /\ misfiled' = (misfiled \/ (bins[e] = a /\ e # d))
        BY <1>0, <3>7, SameOperators
           DEF Segregated!MallocSplit, Segregated!Splits, Segregated!Split,
               Segregated!RemoveFromClass, class
      <4>2. b # a /\ b # NULL /\ b \notin D
        BY <2>2, <4>1, RemainderIsNew
      <4>3. r \in K /\ d \in K
        BY <1>2
      <4>4. /\ m1 = AddNext(l, class_bins[r], b) /\ p1 = AddPrev(k, class_bins[r], b)
            /\ l = Extend(next, b, NULL) /\ k = Extend(prev, b, NULL)
            /\ bins = [class_bins EXCEPT ![r] = b] /\ E = D \cup {b}
            /\ G = [F EXCEPT ![r] = @ \cup {b}] /\ H = [G EXCEPT ![e] = @ \ {a}]
            /\ r = class(rest) /\ e = class(size[a])
        OBVIOUS
      <4> HIDE DEF b, rest, l, k, bins, m1, p1, e, r, d, D, E, G, H
      <4>5. DOMAIN next' = DOMAIN size' /\ DOMAIN prev' = DOMAIN size' /\ DOMAIN class_bins' = K
        <5>1. DOMAIN l = E /\ DOMAIN k = E
          <6>1. \A f : DOMAIN Extend(f, b, NULL) = DOMAIN f \cup {b}
            BY LinkDomains
          <6>2. DOMAIN l = DOMAIN next \cup {b} /\ DOMAIN k = DOMAIN prev \cup {b}
            BY <4>4, <6>1
          <6> QED BY <1>0, <4>4, <6>2
        <5>2. DOMAIN m1 = E /\ DOMAIN p1 = E
          BY <4>4, <5>1, LinkDomains
        <5>3. DOMAIN next' = E /\ DOMAIN prev' = E
          BY <4>1, <5>2, LinkDomains
        <5> QED BY <1>0, <4>1, <4>4, <5>3
      <4>6. ASSUME NEW c \in K PROVE FreeThen(c) = H[c]
        <5>1. free' = [x \in E |-> IF x = a THEN FALSE ELSE IF x = b THEN TRUE ELSE free[x]]
          BY <1>0, <4>1, <4>4 DEF Extend
        <5>2. FreeThen(c) = {x \in E \ {a} : (x = b /\ r = c) \/ (x # b /\ free[x] /\ class(size[x]) = c)}
          BY <4>1, <4>2, <4>4, <5>1
        <5>3. G[c] = IF c = r THEN F[c] \cup {b} ELSE F[c]
          BY <1>1, <4>4
        <5>4. H[c] = IF c = e THEN G[c] \ {a} ELSE G[c]
          BY <1>1, <4>4
        <5>5. FreeThen(c) = (IF c = r THEN F[c] \cup {b} ELSE F[c]) \ {a}
          BY <1>1, <4>2, <4>4, <5>2
        <5>6. c # e => a \notin G[c]
          BY <3>5, <4>2, <5>3
        <5> HIDE DEF FreeThen
        <5> QED BY <5>3, <5>4, <5>5, <5>6
      <4>7. ASSUME ~misfiled' PROVE Lists(next', prev', class_bins', H, E, K)
        <5>1. ~misfiled /\ (d = e \/ bins[e] # a)
          BY <4>1, <4>7
        <5>2. Lists(next, prev, class_bins, F, D, K)
          BY <1>3, <5>1
        <5>3. Lists(l, k, class_bins, F, E, K)
          BY <4>2, <4>4, <5>2, HeaderAdded
        <5>4. b \in E /\ \A c \in K : b \notin F[c]
          BY <1>1, <4>2, <4>4
        <5>5. Lists(m1, p1, bins, G, E, K)
          BY <4>3, <4>4, <5>3, <5>4, AddedToClass
        <5>6. a \in G[e] /\ e \in K
          BY <1>1, <3>5, <4>4
        <5>7. Lists(RemoveNext(m1, p1, a), RemovePrev(m1, p1, a),
                    [bins EXCEPT ![d] = RemoveHead(m1, @, a)], [G EXCEPT ![e] = @ \ {a}], E, K)
          BY <4>3, <5>1, <5>5, <5>6, RemovedFromClass
        <5> QED BY <4>1, <4>4, <5>7
      <4>8. ~misfiled' => ~hung'
        BY <1>3, <3>4, <4>1
      <4>9. DOMAIN size' = E
        BY <4>1
      <4> QED BY <4>5, <4>6, <4>7, <4>8, <4>9
    <3> QED BY <3>2, <3>6, <3>7
  <2> QED BY <2>1, <2>2, <2>3, <2>4 DEF Segregated!my_malloc
<1> QED BY <1>4, <1>5 DEF Segregated!Next

LEMMA ListsStay ==
    ASSUME UNCHANGED <<size, free, next, prev>>
    PROVE  /\ ListInv /\ UNCHANGED free_list => ListInv'
           /\ BinsInv /\ UNCHANGED <<class_bins, hung, misfiled>> => BinsInv'
<1>1. FreeBlocks' = FreeBlocks /\ (LinksOfHeaders => LinksOfHeaders') /\ \A c : FreeOfClass(c)' = FreeOfClass(c)
  BY DEF FreeBlocks, FreeOfClass, LinksOfHeaders
<1>2. ListInv /\ UNCHANGED free_list => ListInv'
  BY <1>1 DEF ListInv, LeadsAndBack, Leads
<1>3. BinsInv /\ UNCHANGED <<class_bins, hung, misfiled>> => BinsInv'
  BY <1>1 DEF BinsInv, LeadsAndBack, Leads
<1> QED BY <1>2, <1>3

LEMMA StrategiesStep == StrategiesIInv /\ [StrategiesNext]_strategyVars => StrategiesIInv'
<1> SUFFICES ASSUME StrategiesIInv, [StrategiesNext]_strategyVars PROVE StrategiesIInv'
  OBVIOUS
<1>0. strategy' = strategy
  BY DEF StrategiesNext, strategyVars
<1>1. CASE strategy # "bins"
  <2>1. StepOfBlocks /\ BlocksInv /\ (Merging <=> strategy \in {"implicit", "explicit"})
    BY <1>1, KindsOfSteps DEF StrategiesIInv, Merging
  <2>2. BlocksInv'
    BY <1>1, <2>1, BlocksStep DEF StrategiesIInv
  <2>3. Merging => WalkInv'
    BY <2>1, WalkStep DEF StrategiesIInv
  <2>4. strategy = "explicit" => ListInv'
    <3> SUFFICES ASSUME strategy = "explicit" PROVE ListInv'
      OBVIOUS
    <3>1. CASE Explicit!Next
      BY <2>1, <3>1, ExplicitListStep DEF StrategiesIInv
    <3>2. CASE UNCHANGED <<size, free, next, prev, free_list>>
      BY <3>2, ListsStay DEF StrategiesIInv
    <3> QED BY <3>1, <3>2 DEF StrategiesNext, strategyVars, vars, linkVars
  <2>5. strategy = "segregated" => BinsInv'
    <3> SUFFICES ASSUME strategy = "segregated" PROVE BinsInv'
      OBVIOUS
    <3>1. CASE Segregated!Next
      BY <2>1, <3>1, SegregatedBinsStep DEF StrategiesIInv
    <3>2. CASE UNCHANGED <<size, free, next, prev, class_bins, hung, misfiled>>
      BY <3>2, ListsStay DEF StrategiesIInv
    <3> QED BY <3>1, <3>2 DEF StrategiesNext, strategyVars, vars, linkVars, binVars
  <2> QED BY <1>0, <1>1, <2>1, <2>2, <2>3, <2>4, <2>5 DEF StrategiesIInv
<1>2. CASE strategy = "bins"
  <2>1. [Bins!Next]_(Bins!vars)
    BY <1>2 DEF StrategiesNext, strategyVars, chunkVars, Bins!vars
  <2> QED BY <1>0, <1>2, <2>1, ChunksStep DEF StrategiesIInv
<1> QED BY <1>1, <1>2

\* Whatever is asked for and given back, in any order: the headers, the walk and the
\* links are in order.
THEOREM StrategiesInvariance == StrategiesSpec => []StrategiesIInv
  BY StrategiesStart, StrategiesStep, PTL DEF StrategiesSpec

\* PoolStaysTiled: my_malloc's cut and my_free's merge leave blocks that lie end to end.
THEOREM PoolStaysTiledHolds == StrategiesSpec => []PoolStaysTiled
<1>1. ASSUME StrategiesIInv PROVE PoolStaysTiled
  <2>1. CASE strategy = "bins"
    BY <2>1 DEF PoolStaysTiled
  <2>2. CASE strategy # "bins"
    <3>1. Laid(size, Header, Pool) /\ LiveBlocksKept
      BY <1>1, <2>2 DEF StrategiesIInv, BlocksInv
    <3>2. strategy = "implicit" => BlocksTileThePool
      BY <2>2, <3>1, HeaderFacts, BlocksEnd DEF BlocksTileThePool, Tiled, After, Header, Pool, Laid
    <3>3. strategy \in {"explicit", "segregated"} => Segregated!BlocksTileThePool
      BY <2>2, <3>1, HeaderFacts, BlocksEnd
         DEF Segregated!BlocksTileThePool, Segregated!Tiled, Segregated!After, Header, Pool, Laid
    <3> QED BY <1>1, <2>2, <3>1, <3>2, <3>3 DEF PoolStaysTiled, StrategiesIInv
  <2> QED BY <2>1, <2>2
<1> QED BY <1>1, StrategiesInvariance, PTL

\* FreeNeighboursMerged: a my_free that has returned leaves no two free neighbours,
\* and no my_malloc makes any.
THEOREM FreeNeighboursMergedHolds == StrategiesSpec => []FreeNeighboursMerged
<1>1. StrategiesIInv => FreeNeighboursMerged
  BY DEF StrategiesIInv, WalkInv, FreeNeighboursMerged, NeighboursMerged, Behind, After, Header,
         Pool, Explicit!NeighboursMerged, Explicit!After, Explicit!NULL, NULL
<1> QED BY <1>1, StrategiesInvariance, PTL
-----------------------------------------------------------------------------
(***************************************************************************)
(* What print_state and the search meet: the free blocks, and nothing else. *)
(***************************************************************************)
LEMMA ChunksAreFew ==
    /\ IsFiniteSet(Bins!Chunks) /\ Cardinality(Bins!Chunks) \in Nat
    /\ Bins!Cardinality(Bins!Chunks) = Cardinality(Bins!Chunks)
    /\ \A S \in SUBSET Bins!Chunks : IsFiniteSet(S) /\ Cardinality(S) <= Cardinality(Bins!Chunks)
<1>1. Bins!Chunks \subseteq 0..BINS_POOL /\ BINS_POOL \in Nat
  BY ChunkFacts
<1>2. IsFiniteSet(Bins!Chunks)
  <2>1. IsFiniteSet(0..BINS_POOL)
    BY <1>1, FS_Interval
  <2> QED BY <1>1, <2>1, FS_Subset
<1> QED BY <1>2, FS_Subset, FS_CardinalityType DEF Bins!Cardinality, Cardinality

\* One step further along the links.
Onward(X) == X \cup ({link[a] : a \in X \cap Bins!Chunks} \ {NULL})

\* R[k] is what can be reached from h in k steps.
Reached(R, h, n) == R[0] = {h} \ {NULL} /\ \A k \in 1..n : R[k] = Onward(R[k - 1])

LEMMA ChainSteps ==
    ASSUME NEW h, NEW N \in Nat, N = Cardinality(Bins!Chunks)
    PROVE  \E R : Bins!Chain(h) = R[N] /\ Reached(R, h, N)
<1> DEFINE Reaches(g, n) == g = [k \in 0..n |-> IF k = 0 THEN {h} \ {NULL} ELSE Onward(g[k - 1])]
           S == {n \in Nat : \E g : Reaches(g, n)}
           R == CHOOSE g : Reaches(g, N)
<1>1. 0 \in S
  <2>1. Reaches([k \in 0..0 |-> {h} \ {NULL}], 0)
    OBVIOUS
  <2> QED BY <2>1
<1>2. ASSUME NEW n \in Nat, n \in S PROVE n + 1 \in S
  <2>1. PICK g : Reaches(g, n)
    BY <1>2
  <2> DEFINE f == [k \in 0..(n + 1) |-> IF k = n + 1 THEN Onward(g[n]) ELSE g[k]]
  <2>2. ASSUME NEW k \in 0..(n + 1)
        PROVE  f[k] = IF k = 0 THEN {h} \ {NULL} ELSE Onward(f[k - 1])
    <3>1. CASE k = n + 1
      <4>1. k # 0 /\ k - 1 = n /\ f[k] = Onward(g[n]) /\ f[n] = g[n]
        BY <3>1
      <4> HIDE DEF f
      <4> QED BY <4>1
    <3>2. CASE k \in 0..n
      <4>1. f[k] = g[k] /\ (k # 0 => f[k - 1] = g[k - 1])
        BY <3>2
      <4> HIDE DEF f
      <4> QED BY <2>1, <3>2, <4>1
    <3> QED BY <3>1, <3>2
  <2>3. f = [k \in 0..(n + 1) |-> f[k]]
    OBVIOUS
  <2> HIDE DEF f
  <2>4. Reaches(f, n + 1)
    BY <2>2, <2>3
  <2> QED BY <2>4
<1> HIDE DEF Reaches
<1>3. \E g : Reaches(g, N)
  <2> HIDE DEF S
  <2>1. Nat \subseteq S
    BY <1>1, <1>2, CountingUp
  <2> QED BY <2>1 DEF S
<1>4. Reaches(R, N)
  BY <1>3
<1>5. Bins!Chain(h) = R[N]
  <2>1. Bins!NULL = NULL /\ Bins!Cardinality(Bins!Chunks) = N
    BY ChunkFacts, ChunksAreFew
  <2> QED BY <2>1 DEF Bins!Chain, Reaches, Onward
<1> HIDE DEF R
<1>6. \A k \in 0..N : R[k] = IF k = 0 THEN {h} \ {NULL} ELSE Onward(R[k - 1])
  BY <1>4 DEF Reaches
<1>7. R[0] = {h} \ {NULL} /\ \A k \in 1..N : R[k] = Onward(R[k - 1])
  BY <1>6
<1> QED BY <1>5, <1>7 DEF Reached

LEMMA ChainMeetsTheList ==
    ASSUME NEW h, NEW S \in SUBSET Bins!Chunks, Leads(link, h, S)
    PROVE  Bins!Chain(h) = S
<1> DEFINE N == Cardinality(Bins!Chunks)
           W == Walk(link, h, N)
<1>1. N \in Nat /\ IsFiniteSet(S) /\ Cardinality(S) <= N /\ NULL \notin S
  BY ChunksAreFew, ChunkFacts
<1>a. N \in Nat /\ N = Cardinality(Bins!Chunks)
  BY <1>1
<1> HIDE DEF N
<1>b. PICK R : Bins!Chain(h) = R[N] /\ Reached(R, h, N)
  BY <1>a, ChainSteps
<1>2. /\ Bins!Chain(h) = R[N] /\ R[0] = {h} \ {NULL}
      /\ \A k \in 1..N : R[k] = Onward(R[k - 1])
  BY <1>b DEF Reached
<1>3. /\ W[0] = h
      /\ \A k \in 1..N : W[k - 1] # NULL => W[k] = link[W[k - 1]]
      /\ \A k \in 1..N : W[k - 1] = NULL => W[k] = NULL
      /\ \A k \in 0..N : W[k] \in S \cup {NULL}
      /\ \A a \in S : \E k \in 0..N : W[k] = a
  BY <1>1, WalkMeetsTheList
<1> HIDE DEF W
<1>4. h \in S \cup {NULL} /\ \A a \in S : link[a] \in S \cup {NULL}
  BY DEF Leads
<1>5. \A k \in 0..N : R[k] \subseteq S
  <2> DEFINE M == {k \in Nat : k <= N => R[k] \subseteq S}
  <2>1. 0 \in M
    BY <1>2, <1>4
  <2>2. ASSUME NEW k \in Nat, k \in M PROVE k + 1 \in M
    <3> SUFFICES ASSUME k + 1 <= N PROVE R[k + 1] \subseteq S
      OBVIOUS
    <3>1. k + 1 \in 1..N /\ (k + 1) - 1 = k /\ R[k] \subseteq S
      BY <1>1, <2>2
    <3>2. R[k + 1] = R[k] \cup ({link[a] : a \in R[k] \cap Bins!Chunks} \ {NULL})
      BY <1>2, <3>1 DEF Onward
    <3> QED BY <1>4, <3>1, <3>2
  <2> HIDE DEF M
  <2>3. Nat \subseteq M
    BY <2>1, <2>2, CountingUp
  <2> QED BY <1>1, <2>3 DEF M
<1>6. \A j \in 0..N : \A i \in 0..j : W[i] \in R[j] \cup {NULL}
  <2> DEFINE M == {j \in Nat : j <= N => \A i \in 0..j : W[i] \in R[j] \cup {NULL}}
  <2>1. 0 \in M
    BY <1>2, <1>3
  <2>2. ASSUME NEW j \in Nat, j \in M PROVE j + 1 \in M
    <3> SUFFICES ASSUME j + 1 <= N, NEW i \in 0..(j + 1) PROVE W[i] \in R[j + 1] \cup {NULL}
      OBVIOUS
    <3>1. /\ j + 1 \in 1..N /\ (j + 1) - 1 = j /\ j \in 0..N
          /\ \A x \in 0..j : W[x] \in R[j] \cup {NULL}
      BY <1>1, <2>2
    <3>2. R[j + 1] = R[j] \cup ({link[a] : a \in R[j] \cap Bins!Chunks} \ {NULL})
      BY <1>2, <3>1 DEF Onward
    <3>3. CASE i \in 0..j
      BY <3>1, <3>2, <3>3
    <3>4. CASE i = j + 1 /\ W[j] # NULL
      <4>1. W[i] = link[W[j]] /\ W[j] \in R[j] \cap Bins!Chunks
        BY <1>3, <3>1, <3>4
      <4> QED BY <3>2, <4>1
    <3>5. CASE i = j + 1 /\ W[j] = NULL
      BY <1>3, <3>1, <3>5
    <3> QED BY <3>3, <3>4, <3>5
  <2> HIDE DEF M
  <2>3. Nat \subseteq M
    BY <2>1, <2>2, CountingUp
  <2> QED BY <1>1, <2>3 DEF M
<1>7. S \subseteq R[N]
  <2> SUFFICES ASSUME NEW a \in S PROVE a \in R[N]
    OBVIOUS
  <2>1. PICK k \in 0..N : W[k] = a
    BY <1>3
  <2>2. a \in R[N] \cup {NULL}
    BY <1>1, <1>6, <2>1
  <2> QED BY <1>1, <2>2
<1>8. R[N] \subseteq S
  BY <1>1, <1>5
<1> QED BY <1>2, <1>7, <1>8

\* The explicit program: the list, and the way back.
LEMMA ExplicitListed ==
    ASSUME strategy = "explicit", BlocksInv, ListInv
    PROVE  Explicit!ListHoldsFreeBlocks
<1> DEFINE B == Cardinality(DOMAIN size)
           W == Walk(next, free_list, B)
           F == {a \in DOMAIN size : free[a]}
           nodes == {k \in DOMAIN W : W[k] # NULL}
<1>1. /\ B \in Nat /\ IsFiniteSet(F) /\ Cardinality(F) <= B /\ NULL \notin F
      /\ LeadsAndBack(next, prev, free_list, F) /\ Leads(next, free_list, F)
  BY HeadersAreFew DEF ListInv, FreeBlocks, LeadsAndBack
<1>2. Explicit!Listed = W /\ \A S : Explicit!Cardinality(S) = Cardinality(S)
  BY SameOperators DEF Explicit!Listed, Explicit!Cardinality, Cardinality
<1> HIDE DEF B, F
<1>3. /\ DOMAIN W = 0..B /\ W[0] = free_list
      /\ \A k \in 1..B : W[k - 1] # NULL => W[k] = next[W[k - 1]]
      /\ \A k \in 1..B : W[k - 1] = NULL => W[k] = NULL
      /\ \A k \in 0..B : W[k] \in F \cup {NULL}
      /\ \A a \in F : \E k \in 0..B : W[k] = a
      /\ \A X \in SUBSET (0..B) :
           (\A k \in 0..B : k \in X <=> W[k] # NULL) => Cardinality(X) = Cardinality(F)
  BY <1>1, WalkMeetsTheList
<1> HIDE DEF W
<1>4. {W[k] : k \in nodes} = F
  BY <1>1, <1>3
<1>5. Cardinality(nodes) = Cardinality(F)
  <2>1. nodes \in SUBSET (0..B) /\ \A k \in 0..B : k \in nodes <=> W[k] # NULL
    BY <1>3
  <2> HIDE DEF nodes
  <2> QED BY <1>3, <2>1
<1>6. ASSUME NEW k \in nodes PROVE prev[W[k]] = IF k = 0 THEN NULL ELSE W[k - 1]
  <2>1. /\ \A a \in F : IF a = free_list THEN prev[a] = NULL
                        ELSE prev[a] \in F /\ next[prev[a]] = a
        /\ \A a \in F : /\ next[a] \in (F \ {free_list}) \cup {NULL}
                        /\ \A b \in F : a # b /\ next[a] = next[b] => next[a] = NULL
    BY <1>1 DEF LeadsAndBack, Leads
  <2>2. k \in 0..B /\ W[k] \in F /\ W[k] # NULL
    BY <1>3
  <2>3. CASE k = 0
    BY <1>3, <2>1, <2>2, <2>3
  <2>4. CASE k # 0
    <3>1. k \in 1..B /\ k - 1 \in 0..B
      BY <1>1, <2>2, <2>4
    <3>2. W[k - 1] \in F /\ next[W[k - 1]] = W[k]
      BY <1>3, <2>2, <3>1
    <3>3. W[k] # free_list /\ prev[W[k]] \in F /\ next[prev[W[k]]] = W[k]
      BY <2>1, <2>2, <3>2
    <3> QED BY <2>1, <2>2, <2>4, <3>2, <3>3
  <2> QED BY <2>3, <2>4
<1> QED BY <1>2, <1>4, <1>5, <1>6 DEF Explicit!ListHoldsFreeBlocks, Explicit!NULL, NULL, F

\* The segregated program: the bin of each class.
LEMMA BinsListed ==
    ASSUME strategy = "segregated", BlocksInv, BinsInv
    PROVE  Segregated!BinsHoldUntilMisfiled
<1> SUFFICES ASSUME ~misfiled, NEW c \in Segregated!Classes
             PROVE  Segregated!Bin(c) = {a \in DOMAIN size : free[a] /\ Segregated!get_class_id(size[a]) = c}
  BY DEF BinsInv, Segregated!BinsHoldUntilMisfiled, Segregated!BinsHoldFreeBlocksOfTheirClass
<1> DEFINE B == Cardinality(DOMAIN size)
           W == Walk(next, class_bins[c], B)
           S == {a \in DOMAIN size : free[a] /\ Segregated!get_class_id(size[a]) = c}
<1>1. /\ B \in Nat /\ IsFiniteSet(S) /\ Cardinality(S) <= B /\ NULL \notin S
      /\ Leads(next, class_bins[c], S)
  <2>1. FreeOfClass(c) = S
    BY DEF FreeOfClass, FreeBlocks
  <2>2. S \in SUBSET DOMAIN size
    OBVIOUS
  <2>3. Leads(next, class_bins[c], FreeOfClass(c))
    BY DEF BinsInv, LeadsAndBack
  <2> HIDE DEF S
  <2> QED BY <2>1, <2>2, <2>3, HeadersAreFew
<1>2. Segregated!Listed(c) = W /\ Segregated!Bound = B
  BY SameOperators DEF Segregated!Bound, Segregated!Listed, Segregated!Cardinality, Cardinality
<1> HIDE DEF B, S
<1>3. /\ \A k \in 0..B : W[k] \in S \cup {NULL}
      /\ \A a \in S : \E k \in 0..B : W[k] = a
  BY <1>1, WalkMeetsTheList
<1>4. Segregated!Bin(c) = {W[k] : k \in 0..B} \ {NULL}
  BY <1>2, SameOperators DEF Segregated!Bin
<1> HIDE DEF W
<1>5. {W[k] : k \in 0..B} \ {NULL} = S
  BY <1>1, <1>3
<1> QED BY <1>4, <1>5 DEF S

\* FreeBlocksAreListed: add_to_free_list, remove_from_free_list and the merge keep every
\* free block in the list, once, with the way back; add_to_class and remove_from_class do,
\* for each class, until a head is misfiled; so do alloc and free for the chunks.
THEOREM FreeBlocksAreListedHolds == StrategiesSpec => []FreeBlocksAreListed
<1>1. ASSUME StrategiesIInv PROVE FreeBlocksAreListed
  <2>1. CASE strategy = "explicit"
    BY <1>1, <2>1, ExplicitListed DEF StrategiesIInv, FreeBlocksAreListed
  <2>2. CASE strategy = "segregated"
    BY <1>1, <2>2, BinsListed DEF StrategiesIInv, FreeBlocksAreListed
  <2>3. CASE strategy = "bins"
    <3>1. ChunksInv /\ Bins!Chunks32 \ used \in SUBSET Bins!Chunks /\ Bins!Chunks64 \ used \in SUBSET Bins!Chunks
      BY <1>1, <2>3, ChunkFacts DEF StrategiesIInv
    <3>2. Bins!EachChunkInItsList
      BY <3>1, ChainMeetsTheList DEF ChunksInv, Bins!EachChunkInItsList
    <3> QED BY <2>3, <3>2 DEF FreeBlocksAreListed
  <2>4. CASE strategy = "implicit"
    BY <2>4 DEF FreeBlocksAreListed
  <2> QED BY <1>1, <2>1, <2>2, <2>3, <2>4 DEF StrategiesIInv
<1> QED BY <1>1, StrategiesInvariance, PTL

-----------------------------------------------------------------------------
(***************************************************************************)
(* Each program hands out ranges of its pool that do not meet.             *)
(***************************************************************************)
LEMMA HeldByAddress ==
    ASSUME strategy # "bins", BlocksInv
    PROVE  /\ Held = [p \in {a + Header : a \in DOMAIN live} |-> live[p - Header]]
           /\ \A a : a \in DOMAIN live => /\ a \in Nat /\ a + Header \in DOMAIN Held
                                          /\ Held[a + Header] = live[a]
           /\ \A p \in DOMAIN Held : \E a \in DOMAIN live : p = a + Header
           /\ \A a \in DOMAIN size : a \in Nat /\ size[a] \in Nat
           /\ \A a \in DOMAIN live : live[a] \in Nat /\ live[a] <= size[a] /\ a \in DOMAIN size
<1>1. /\ DOMAIN live = {a \in DOMAIN size : ~free[a]} /\ \A a \in DOMAIN live : live[a] <= size[a]
      /\ live \in [DOMAIN live -> Requests] /\ Laid(size, Header, Pool)
  BY DEF BlocksInv, LiveBlocksKept
<1>2. Header \in Nat /\ \A a \in DOMAIN size : a \in Nat /\ size[a] \in Nat
  BY <1>1, HeaderFacts DEF Laid
<1>3. Held = [p \in {a + Header : a \in DOMAIN live} |-> live[p - Header]]
  BY DEF Held
<1>4. \A a \in DOMAIN live : (a + Header) - Header = a
  BY <1>1, <1>2
<1> QED BY <1>1, <1>2, <1>3, <1>4, RequestsAssumption

LEMMA BlocksImplementHeap ==
    ASSUME strategy # "bins", BlocksInv, BlocksInv', StepOfBlocks
    PROVE  [Client!HeapNext]_<<Pool, Held>>
<1>0. /\ Header \in Nat \ {0} /\ Header % 4 = 0 /\ Pool \in Nat /\ Header' = Header /\ Pool' = Pool
      /\ strategy' # "bins"
  BY HeaderFacts DEF StepOfBlocks, Header, Pool
<1>1. /\ \A a \in DOMAIN live : /\ a \in Nat /\ a + Header \in DOMAIN Held /\ a \in DOMAIN size
                                /\ Held[a + Header] = live[a] /\ live[a] \in Nat /\ live[a] <= size[a]
      /\ \A p \in DOMAIN Held : \E a \in DOMAIN live : p = a + Header
      /\ \A a \in DOMAIN size : a \in Nat /\ size[a] \in Nat
      /\ Held = [p \in {a + Header : a \in DOMAIN live} |-> live[p - Header]]
  BY HeldByAddress
<1>2. Held' = [p \in {a + Header : a \in DOMAIN live'} |-> live'[p - Header]]
  BY <1>0 DEF Held
<1>a. \A a, b \in Nat : (a + Header) - Header = a /\ (a + Header = b + Header => a = b)
  BY <1>0
<1>3. CASE Malloc
  <2>1. PICK n \in Requests, a \in DOMAIN size : TakesPart(a, n) \/ TakesAll(a, n)
    BY <1>3 DEF Malloc
  <2>2. /\ free[a] /\ ALIGN4(n) <= size[a]
        /\ live' = [b \in DOMAIN live \cup {a} |-> IF b = a THEN n ELSE live[b]]
    BY <2>1 DEF TakesPart, TakesAll, Takes
  <2>3. /\ n \in Nat /\ n <= size[a] /\ a \in Nat /\ a % 4 = 0 /\ a \notin DOMAIN live
        /\ a + Header + size[a] \in 0..Pool
        /\ \A b \in DOMAIN size : b <= a \/ a + Header + size[a] <= b
        /\ \A b \in DOMAIN size : a <= b \/ b + Header + size[b] <= a
    <3>1. n \in Nat /\ ALIGN4(n) \in Nat /\ n <= ALIGN4(n)
      BY RequestsAssumption, AlignFact
    <3>2. Laid(size, Header, Pool) /\ a \notin DOMAIN live
      BY <2>2 DEF BlocksInv, LiveBlocksKept
    <3>3. \A b \in DOMAIN size : a <= b \/ b + Header + size[b] <= a
      BY <1>1, <3>2 DEF Laid
    <3>4. a % 4 = 0
      BY <3>2 DEF Laid
    <3> QED BY <1>0, <1>1, <2>2, <3>1, <3>2, <3>3, <3>4, BlocksEnd
  <2>4. a + Header + n <= Pool /\ a + Header \notin DOMAIN Held
    <3>1. a + Header + n <= Pool
      <4>1. size[a] \in Nat
        BY <1>1
      <4> QED BY <1>0, <2>3, <4>1
    <3>2. a + Header \notin DOMAIN Held
      BY <1>1, <1>a, <2>3
    <3> QED BY <3>1, <3>2
  <2>5. ASSUME NEW p \in DOMAIN Held PROVE Client!Apart(a + Header, n, p, Held[p])
    <3>1. PICK b \in DOMAIN live : p = b + Header
      BY <1>1
    <3>2. b \in Nat /\ b # a /\ live[b] \in Nat /\ live[b] <= size[b] /\ Held[p] = live[b]
          /\ b \in DOMAIN size /\ size[b] \in Nat /\ size[a] \in Nat
      BY <1>1, <2>3, <3>1
    <3>3. a + Header + size[a] <= b \/ b + Header + size[b] <= a
      BY <2>3, <3>2
    <3> QED BY <1>0, <2>3, <3>1, <3>2, <3>3 DEF Client!Apart
  <2>6. Held' = [p \in DOMAIN Held \cup {a + Header} |-> IF p = a + Header THEN n ELSE Held[p]]
    <3>1. DOMAIN live' = DOMAIN live \cup {a} /\ live'[a] = n /\ \A b \in DOMAIN live : live'[b] = live[b]
      BY <2>2, <2>3
    <3>2. {b + Header : b \in DOMAIN live'} = DOMAIN Held \cup {a + Header}
      BY <1>1, <3>1
    <3>3. ASSUME NEW p \in DOMAIN Held \cup {a + Header}
          PROVE  live'[p - Header] = IF p = a + Header THEN n ELSE Held[p]
      <4>1. CASE p = a + Header
        BY <1>0, <2>3, <3>1, <4>1
      <4>2. CASE p # a + Header
        <5>1. PICK b \in DOMAIN live : p = b + Header
          BY <1>1, <4>2
        <5>2. p - Header = b /\ Held[p] = live[b]
          BY <1>1, <1>a, <5>1
        <5> QED BY <3>1, <4>2, <5>1, <5>2
      <4> QED BY <4>1, <4>2
    <3> QED BY <1>2, <3>2, <3>3
  <2>7. Client!Allocate(a + Header, n)
    BY <1>0, <2>4, <2>5, <2>6 DEF Client!Allocate
  <2>8. a + Header \in {b \in 0..(POOL_SIZE + LINKED_POOL + BINS_POOL) : b % 4 = 0}
    <3>1. a + Header \in 0..Pool
      BY <1>0, <2>3, <2>4
    <3>2. Pool \in {POOL_SIZE, LINKED_POOL, BINS_POOL} /\ {POOL_SIZE, LINKED_POOL, BINS_POOL} \subseteq Nat
      BY PoolAssumption, StrategiesAssumption DEF Pool
    <3>3. (a + Header) % 4 = 0
      BY <1>0, <2>3
    <3> QED BY <3>1, <3>2, <3>3
  <2> QED BY <2>7, <2>8 DEF Client!HeapNext
<1>4. CASE FreeCall
  <2>1. PICK a \in DOMAIN live : GivesBack(a)
    BY <1>4 DEF FreeCall
  <2>2. live' = [b \in DOMAIN live \ {a} |-> live[b]]
    BY <2>1 DEF GivesBack
  <2>3. Held' = [p \in DOMAIN Held \ {a + Header} |-> Held[p]]
    <3>0. DOMAIN live' = DOMAIN live \ {a} /\ DOMAIN Held = {b + Header : b \in DOMAIN live}
      BY <1>1, <2>2
    <3>1. {b + Header : b \in DOMAIN live'} = DOMAIN Held \ {a + Header}
      <4>1. ASSUME NEW b \in DOMAIN live'
            PROVE  b + Header \in DOMAIN Held /\ b + Header # a + Header
        BY <1>1, <1>a, <3>0
      <4>2. ASSUME NEW p \in DOMAIN Held \ {a + Header}
            PROVE  \E b \in DOMAIN live' : p = b + Header
        BY <1>1, <3>0
      <4> QED BY <4>1, <4>2
    <3>2. ASSUME NEW p \in DOMAIN Held \ {a + Header} PROVE live'[p - Header] = Held[p]
      <4>1. PICK b \in DOMAIN live : p = b + Header
        BY <1>1
      <4>2. p - Header = b /\ b # a
        BY <1>1, <1>a, <4>1
      <4> QED BY <1>1, <2>2, <4>1, <4>2
    <3> QED BY <1>2, <3>1, <3>2
  <2>4. Client!Free(a + Header)
    BY <1>0, <1>1, <2>3 DEF Client!Free
  <2> QED BY <1>1, <2>4 DEF Client!HeapNext
<1>5. CASE live' = live
  BY <1>0, <1>1, <1>2, <1>5
<1>6. WalkJoins \/ WalkMoves \/ UNCHANGED <<size, free, curr, live>> => live' = live
  BY DEF WalkJoins, WalkMoves, Joins
<1> QED BY <1>3, <1>4, <1>5, <1>6 DEF StepOfBlocks

LEMMA ChunksImplementHeap ==
    ASSUME strategy = "bins", strategy' = "bins", ChunksInv, [Bins!Next]_(Bins!vars)
    PROVE  [Client!HeapNext]_<<Pool, Held>>
<1>0. Pool = BINS_POOL /\ Pool' = BINS_POOL
  BY DEF Pool
<1>1. Held = [c \in used |-> Bins!Width(c)] /\ Held' = [c \in used' |-> Bins!Width(c)]
  BY DEF Held
<1>2. /\ used \subseteq Bins!Chunks /\ free_list_32 \in (Bins!Chunks32 \ used) \cup {NULL}
      /\ free_list_64 \in (Bins!Chunks64 \ used) \cup {NULL}
  BY DEF ChunksInv, Leads
<1>3. ASSUME NEW c \in Bins!Chunks \ used, used' = used \cup {c}
      PROVE  Client!HeapNext
  <2>1. /\ c \in Nat /\ c % 4 = 0 /\ c + Bins!Width(c) <= BINS_POOL /\ Bins!Width(c) \in {32, 64}
    BY ChunkFacts
  <2>2. \A d \in DOMAIN Held : Client!Apart(c, Bins!Width(c), d, Held[d])
    <3>1. ASSUME NEW d \in used
          PROVE  c + Bins!Width(c) <= d \/ d + Bins!Width(d) <= c
      <4>1. c # d /\ d \in Bins!Chunks
        BY <1>2
      <4>2. CASE c \in Bins!Chunks32 /\ d \in Bins!Chunks32
        BY <4>1, <4>2, ChunkFacts
      <4>3. CASE c \in Bins!Chunks64 /\ d \in Bins!Chunks64
        BY <4>1, <4>3, ChunkFacts
      <4>4. CASE c \in Bins!Chunks32 /\ d \in Bins!Chunks64
        BY <4>4, ChunkFacts
      <4>5. CASE c \in Bins!Chunks64 /\ d \in Bins!Chunks32
        BY <4>5, ChunkFacts
      <4> QED BY <4>1, <4>2, <4>3, <4>4, <4>5, ChunkFacts
    <3> QED BY <1>1, <3>1 DEF Client!Apart
  <2>3. Client!Allocate(c, Bins!Width(c))
    BY <1>0, <1>1, <1>3, <2>1, <2>2 DEF Client!Allocate
  <2>4. c \in {b \in 0..(POOL_SIZE + LINKED_POOL + BINS_POOL) : b % 4 = 0}
    <3>1. c \in 0..BINS_POOL
      BY <2>1, ChunkFacts
    <3>2. POOL_SIZE \in Nat /\ LINKED_POOL \in Nat /\ BINS_POOL \in Nat
      BY PoolAssumption, StrategiesAssumption
    <3> QED BY <2>1, <3>1, <3>2
  <2> QED BY <2>1, <2>3, <2>4 DEF Client!HeapNext, Bins!CHUNK_32_SIZE, Bins!CHUNK_64_SIZE
<1>4. ASSUME NEW c \in used, used' = used \ {c}
      PROVE  Client!HeapNext
  <2>1. Client!Free(c)
    BY <1>0, <1>1, <1>4 DEF Client!Free
  <2> QED BY <1>1, <2>1 DEF Client!HeapNext
<1>5. CASE Bins!alloc_32 \/ Bins!alloc_64
  BY <1>2, <1>3, <1>5, ChunkFacts DEF Bins!alloc_32, Bins!alloc_64
<1>6. CASE \E a \in used : Bins!free_32(a) \/ Bins!free_64(a)
  BY <1>4, <1>6 DEF Bins!free_32, Bins!free_64
<1>7. CASE UNCHANGED used
  BY <1>0, <1>1, <1>7
<1>8. (\E a \in used : Bins!ClientWrites(a)) \/ UNCHANGED Bins!vars => UNCHANGED used
  BY DEF Bins!ClientWrites, Bins!vars
<1> QED BY <1>5, <1>6, <1>7, <1>8 DEF Bins!Next

\* StrategiesImplementHeap: what my_malloc returns lies in the pool, is as long as was
\* asked for and meets no block the client still holds, with each of the programs.
THEOREM StrategiesImplementHeapHolds == StrategiesSpec => StrategiesImplementHeap
<1>1. StrategiesInit => Client!HeapInit
  <2> SUFFICES ASSUME StrategiesInit PROVE Client!HeapInit
    OBVIOUS
  <2>1. Pool \in {POOL_SIZE, LINKED_POOL, BINS_POOL}
    BY DEF Pool
  <2>2. IF strategy = "bins" THEN used = {} ELSE DOMAIN live = {}
    BY DEF StrategiesInit, Init, Explicit!Init, Segregated!Init, Bins!Init
  <2>3. Held = [a \in {} |-> 0]
    BY <2>2 DEF Held
  <2> QED BY <2>1, <2>3 DEF Client!HeapInit
<1>2. StrategiesIInv /\ [StrategiesNext]_strategyVars => [Client!HeapNext]_<<Pool, Held>>
  <2> SUFFICES ASSUME StrategiesIInv, [StrategiesNext]_strategyVars
               PROVE  [Client!HeapNext]_<<Pool, Held>>
    OBVIOUS
  <2>1. StrategiesIInv' /\ strategy' = strategy
    BY StrategiesStep DEF StrategiesNext, strategyVars
  <2>2. CASE strategy # "bins"
    BY <2>1, <2>2, KindsOfSteps, BlocksImplementHeap DEF StrategiesIInv
  <2>3. CASE strategy = "bins"
    <3>1. [Bins!Next]_(Bins!vars)
      BY <2>3 DEF StrategiesNext, strategyVars, chunkVars, Bins!vars
    <3> QED BY <2>1, <2>3, <3>1, ChunksImplementHeap DEF StrategiesIInv
  <2> QED BY <2>2, <2>3
<1> QED BY <1>1, <1>2, StrategiesInvariance, PTL
        DEF StrategiesSpec, StrategiesImplementHeap, Client!HeapSpec
=============================================================================
