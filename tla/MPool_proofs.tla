----------------------------- MODULE MPool_proofs ------------------------------
(***************************************************************************)
(* The thread-safe slab pool, for any number of threads, blocks, classes   *)
(* and allocations: what its lists hold, what a dump shows and when free   *)
(* aborts; and that it implements the abstract allocator.                  *)
(***************************************************************************)
EXTENDS MPool, TLAPS

-----------------------------------------------------------------------------
(***************************************************************************)
(* Lists.  A list is the smallest set that is closed under its links, so   *)
(* that to show what is in one is to name a closed set.                    *)
(***************************************************************************)
Links == [Blocks -> Blocks \cup {Nil}]
Ends  == Blocks \cup {Nil}
Closed(n, h, S) == h \in S \cup {Nil} /\ \A x \in S : n[x] \in S \cup {Nil}

\* The list is closed, and is part of every closed set.
LEMMA ReachLeast ==
    ASSUME NEW n, NEW h, NEW S \in SUBSET Blocks, Closed(n, h, S)
    PROVE  Reach(n, h) \subseteq S
BY DEF Reach, Closed

LEMMA ReachClosed ==
    ASSUME NEW n \in Links, NEW h \in Ends
    PROVE  Closed(n, h, Reach(n, h)) /\ Reach(n, h) \in SUBSET Blocks
<1>1. h \in Reach(n, h) \cup {Nil}
  BY DEF Reach, Ends
<1>2. ASSUME NEW x \in Reach(n, h) PROVE n[x] \in Reach(n, h) \cup {Nil}
  <2>1. x \in Blocks /\ n[x] \in Blocks \cup {Nil}
    BY DEF Reach, Links
  <2>2. CASE n[x] # Nil
    <3> SUFFICES ASSUME NEW S \in SUBSET Blocks, h \in S \cup {Nil},
                        \A y \in S : n[y] \in S \cup {Nil}
                 PROVE  n[x] \in S
      BY <2>1, <2>2 DEF Reach
    <3>1. x \in S
      BY DEF Reach
    <3> QED BY <2>2, <3>1
  <2> QED BY <2>2
<1> QED BY <1>1, <1>2 DEF Closed, Reach

\* The empty list, and the list that begins with a block.
LEMMA ReachNil == ASSUME NEW n PROVE Reach(n, Nil) = {}
<1>1. Closed(n, Nil, {}) /\ {} \in SUBSET Blocks
  BY DEF Closed
<1> QED BY <1>1, ReachLeast

LEMMA ReachStep ==
    ASSUME NEW n \in Links, NEW h \in Blocks
    PROVE  Reach(n, h) = {h} \cup Reach(n, n[h])
<1>1. n[h] \in Ends /\ h \in Ends
  BY DEF Links, Ends
<1>2. /\ Closed(n, h, Reach(n, h)) /\ Reach(n, h) \in SUBSET Blocks
      /\ Closed(n, n[h], Reach(n, n[h])) /\ Reach(n, n[h]) \in SUBSET Blocks
  BY <1>1, ReachClosed
<1>3. Closed(n, h, {h} \cup Reach(n, n[h]))
  BY <1>2 DEF Closed
<1>4. h \in Reach(n, h)
  BY <1>2, MPoolAssumption DEF Closed
<1>5. Closed(n, n[h], Reach(n, h))
  BY <1>2, <1>4 DEF Closed
<1>6. Reach(n, h) \subseteq {h} \cup Reach(n, n[h])
  BY <1>2, <1>3, ReachLeast
<1>7. Reach(n, n[h]) \subseteq Reach(n, h)
  BY <1>2, <1>5, ReachLeast
<1> QED BY <1>4, <1>6, <1>7

\* What follows a block of a list is part of the list.
LEMMA ReachFrom ==
    ASSUME NEW n \in Links, NEW h \in Ends, NEW y \in Reach(n, h)
    PROVE  /\ y \in Blocks /\ Reach(n, y) \subseteq Reach(n, h)
           /\ n[y] \in Ends /\ Reach(n, n[y]) \subseteq Reach(n, h)
<1>1. Closed(n, h, Reach(n, h)) /\ Reach(n, h) \in SUBSET Blocks
  BY ReachClosed
<1>2. Closed(n, y, Reach(n, h)) /\ Closed(n, n[y], Reach(n, h))
  BY <1>1 DEF Closed
<1> QED BY <1>1, <1>2, ReachLeast DEF Links, Ends

\* Links that do not belong to a list do not matter to it.
LEMMA ReachSame ==
    ASSUME NEW n \in Links, NEW m \in Links, NEW h \in Ends,
           \A x \in Reach(n, h) : m[x] = n[x]
    PROVE  Reach(m, h) = Reach(n, h)
<1>1. /\ Closed(n, h, Reach(n, h)) /\ Reach(n, h) \in SUBSET Blocks
      /\ Closed(m, h, Reach(m, h)) /\ Reach(m, h) \in SUBSET Blocks
  BY ReachClosed
<1>2. Closed(m, h, Reach(n, h))
  BY <1>1 DEF Closed
<1>3. Closed(n, h, Reach(m, h) \cap Reach(n, h))
  BY <1>1 DEF Closed
<1>4. Reach(m, h) \subseteq Reach(n, h)
  BY <1>1, <1>2, ReachLeast
<1>5. Reach(n, h) \subseteq Reach(m, h) \cap Reach(n, h)
  BY <1>1, <1>3, ReachLeast
<1> QED BY <1>4, <1>5

\* The link that leads to b now leads past it: b leaves the list, and each part
\* of the list that does not begin with it.
LEMMA ReachSkip ==
    ASSUME NEW n \in Links, NEW m \in Links, NEW K \in SUBSET Blocks, NEW b \in Blocks,
           b \notin Reach(n, n[b]),
           \A x \in Blocks : m[x] = IF x \in K /\ n[x] = b THEN n[b] ELSE n[x],
           NEW y \in Ends \ {b}, Reach(n, y) \subseteq K
    PROVE  Reach(m, y) = Reach(n, y) \ {b}
<1>1. /\ Closed(n, y, Reach(n, y)) /\ Reach(n, y) \in SUBSET Blocks
      /\ Closed(m, y, Reach(m, y)) /\ Reach(m, y) \in SUBSET Blocks
  BY ReachClosed
<1>2. n[b] # b
  <2>1. n[b] = b => b \in Reach(n, n[b])
    BY ReachStep
  <2> QED BY <2>1
<1>3. Closed(m, y, Reach(n, y) \ {b})
  <2>1. ASSUME NEW x \in Reach(n, y) \ {b} PROVE m[x] \in (Reach(n, y) \ {b}) \cup {Nil}
    <3>1. x \in Blocks /\ x \in K /\ n[x] \in Reach(n, y) \cup {Nil}
      BY <1>1 DEF Closed
    <3>2. CASE n[x] = b
      <4>1. b \in Reach(n, y)
        BY <3>1, <3>2, MPoolAssumption
      <4>2. m[x] = n[b] /\ n[b] \in Reach(n, y) \cup {Nil}
        BY <1>1, <3>1, <3>2, <4>1 DEF Closed
      <4> QED BY <1>2, <4>2
    <3>3. CASE n[x] # b
      BY <3>1, <3>3
    <3> QED BY <3>2, <3>3
  <2>2. y \in (Reach(n, y) \ {b}) \cup {Nil}
    BY <1>1 DEF Closed
  <2> QED BY <2>1, <2>2 DEF Closed
<1>4. Reach(m, y) \subseteq Reach(n, y) \ {b}
  BY <1>1, <1>3, ReachLeast
<1>5. Reach(n, y) \subseteq Reach(m, y) \cup {b}
  <2>1. CASE \E x \in Reach(m, y) : n[x] = b
    <3> DEFINE S == (Reach(m, y) \cup {b}) \cap Reach(n, y)
    <3>1. PICK x \in Reach(m, y) : n[x] = b
      BY <2>1
    <3>2. x \in Reach(n, y) /\ x \in K /\ m[x] = n[b]
      BY <1>1, <1>4, <3>1
    <3>3. n[b] \in Reach(m, y) \cup {Nil}
      BY <1>1, <3>1, <3>2 DEF Closed
    <3>4. \A z \in S : n[z] \in S \cup {Nil}
      <4> TAKE z \in S
      <4>1. CASE z = b
        BY <1>1, <3>3, <4>1 DEF Closed
      <4>2. CASE z # b
        <5>1. z \in Reach(m, y) /\ z \in Reach(n, y) /\ z \in K
          BY <4>2
        <5>2. n[z] \in Reach(n, y) \cup {Nil} /\ m[z] \in Reach(m, y) \cup {Nil}
          BY <1>1, <5>1 DEF Closed
        <5>3. n[z] = b \/ n[z] = m[z]
          BY <1>1, <5>1
        <5> QED BY <5>2, <5>3
      <4> QED BY <4>1, <4>2
    <3>5. Closed(n, y, S) /\ S \in SUBSET Blocks
      BY <1>1, <3>4 DEF Closed
    <3>6. Reach(n, y) \subseteq S
      BY <3>5, ReachLeast
    <3> QED BY <3>6
  <2>2. CASE ~ \E x \in Reach(m, y) : n[x] = b
    <3>1. \A x \in Reach(m, y) : m[x] = n[x]
      BY <1>1, <2>2
    <3>2. Closed(n, y, Reach(m, y))
      BY <1>1, <3>1 DEF Closed
    <3> QED BY <1>1, <3>2, ReachLeast
  <2> QED BY <2>1, <2>2
<1> QED BY <1>4, <1>5

-----------------------------------------------------------------------------
(***************************************************************************)
(* Types, and what a thread's step does to its own variables.              *)
(***************************************************************************)
LEMMA GoesEffect ==
    ASSUME TypeOK, NEW t \in Threads, NEW here, NEW there, Goes(t, here, there)
    PROVE  pc[t] = here /\ pc'[t] = there /\ \A u \in Threads \ {t} : pc'[u] = pc[u]
BY DEF Goes, TypeOK

LEMMA RoundEffect ==
    ASSUME TypeOK, NEW t \in Threads, NEW here, RoundEnds(t, here)
    PROVE  /\ pc[t] = here /\ pc'[t] \in {"idle", "exit"}
           /\ \A u \in Threads \ {t} : pc'[u] = pc[u]
           /\ blk' = [blk EXCEPT ![t] = Nil]
           /\ count' \in [Threads -> Nat] /\ idx' \in [Threads -> 0..NumClasses]
           /\ pc' = [pc EXCEPT ![t] = pc'[t]]
<1>1. /\ Goes(t, here, IF count[t] + 1 < Allocs THEN "idle" ELSE "exit")
      /\ count' = [count EXCEPT ![t] = count[t] + 1] /\ blk' = [blk EXCEPT ![t] = Nil]
      /\ idx' = [idx EXCEPT ![t] = 0]
  BY DEF RoundEnds
<1>2. pc[t] = here /\ pc'[t] \in {"idle", "exit"} /\ \A u \in Threads \ {t} : pc'[u] = pc[u]
  BY <1>1, GoesEffect
<1>3. count' \in [Threads -> Nat]
  BY <1>1 DEF TypeOK
<1>4. 0 \in 0..NumClasses
  BY MPoolAssumption
<1>5. idx' \in [Threads -> 0..NumClasses]
  BY <1>1, <1>4 DEF TypeOK
<1>6. pc' = [pc EXCEPT ![t] = pc'[t]]
  BY <1>1 DEF Goes, TypeOK
<1> QED BY <1>1, <1>2, <1>3, <1>5, <1>6

Free == {"idle", "malloc", "exit"}              \* has no block
Hands == {"head", "tail", "link", "push"}       \* has one that is in no list
States == Free \cup Hands \cup {"hold", "used"}

\* A thread that goes from one state to another and keeps its block.
LEMMA KeepsBlock ==
    ASSUME TypeOK, NEW t \in Threads, NEW here \in States \ Free, NEW there \in States \ Free,
           Goes(t, here, there), blk' = blk
    PROVE  /\ pc' \in [Threads -> States] /\ blk[t] \in Blocks
           /\ \A u \in Threads : blk'[u] = Nil <=> pc'[u] \in Free
<1>1. pc[t] = here /\ pc'[t] = there /\ \A u \in Threads \ {t} : pc'[u] = pc[u]
  BY GoesEffect
<1>2. pc' \in [Threads -> States]
  BY DEF Goes, TypeOK, States, Free, Hands
<1>3. blk[t] \in Blocks
  BY <1>1 DEF TypeOK, Free, States, Hands
<1> QED BY <1>1, <1>2, <1>3 DEF TypeOK, Free

LEMMA TypeStep == ASSUME TypeOK, [Next]_vars PROVE TypeOK'
<1> USE DEF header, locals, protection
<1>1. ASSUME NEW t \in Threads, AllocTake(t) PROVE TypeOK'
  <2>1. PICK c \in 0..NumClasses :
          /\ idx' = [idx EXCEPT ![t] = c]
          /\ \/ /\ c \in Slabs /\ free_list[c] # Nil
                /\ free_list' = [free_list EXCEPT ![c] = next[free_list[c]]]
                /\ blk' = [blk EXCEPT ![t] = free_list[c]]
                /\ Goes(t, "idle", "head")
             \/ Goes(t, "idle", "malloc") /\ UNCHANGED <<free_list, blk>>
    BY <1>1 DEF AllocTake
  <2>2. idx' \in [Threads -> 0..NumClasses]
    BY <2>1 DEF TypeOK
  <2>3. /\ free_list' \in [Slabs -> Blocks \cup {Nil}] /\ blk' \in [Threads -> Blocks \cup {Nil}]
        /\ pc' \in [Threads -> States]
        /\ \A u \in Threads : blk'[u] = Nil <=> pc'[u] \in Free
    <3>1. CASE /\ c \in Slabs /\ free_list[c] # Nil
               /\ free_list' = [free_list EXCEPT ![c] = next[free_list[c]]]
               /\ blk' = [blk EXCEPT ![t] = free_list[c]]
               /\ Goes(t, "idle", "head")
      <4>1. free_list[c] \in Blocks /\ next[free_list[c]] \in Blocks \cup {Nil}
        BY <3>1 DEF TypeOK
      <4> QED BY <3>1, <4>1, MPoolAssumption DEF TypeOK, Goes, States, Free, Hands
    <3>2. CASE Goes(t, "idle", "malloc") /\ UNCHANGED <<free_list, blk>>
      BY <3>2 DEF TypeOK, Goes, States, Free, Hands
    <3> QED BY <2>1, <3>1, <3>2
  <2> QED BY <1>1, <2>2, <2>3 DEF AllocTake, TypeOK, States, Free, Hands
<1>2. ASSUME NEW t \in Threads, AllocMalloc(t) PROVE TypeOK'
  <2>1. CASE RoundEnds(t, "malloc") /\ UNCHANGED heap
    BY <1>2, <2>1, RoundEffect DEF AllocMalloc, TypeOK
  <2>2. CASE \E b \in Blocks \ heap : /\ heap' = heap \cup {b} /\ blk' = [blk EXCEPT ![t] = b]
                                      /\ Goes(t, "malloc", "head") /\ UNCHANGED <<idx, count>>
    BY <1>2, <2>2, MPoolAssumption DEF AllocMalloc, TypeOK, Goes
  <2> QED BY <1>2, <2>1, <2>2 DEF AllocMalloc
<1>3. ASSUME NEW t \in Threads, AllocHead(t) PROVE TypeOK'
  <2>1. /\ pc' \in [Threads -> States] /\ blk[t] \in Blocks
        /\ \A u \in Threads : blk'[u] = Nil <=> pc'[u] \in Free
    BY <1>3, KeepsBlock DEF AllocHead, States, Free, Hands
  <2>2. size' \in [Blocks -> 0..NumClasses]
    BY <1>3 DEF AllocHead, TypeOK
  <2> QED BY <1>3, <2>1, <2>2 DEF AllocHead, TypeOK, States, Free, Hands
<1>4. ASSUME NEW t \in Threads, AllocTail(t) \/ AllocLink(t) \/ Use(t) PROVE TypeOK'
  <2>1. /\ pc' \in [Threads -> States] /\ blk[t] \in Blocks /\ blk' = blk
        /\ \A u \in Threads : blk'[u] = Nil <=> pc'[u] \in Free
    BY <1>4, KeepsBlock DEF AllocTail, AllocLink, Use, States, Free, Hands
  <2>2. /\ tail_guard' \in [Blocks -> {"zero", "magic", "data"}]
        /\ active_list' \in Blocks \cup {Nil} /\ next' \in [Blocks -> Blocks \cup {Nil}]
    BY <1>4, <2>1 DEF AllocTail, AllocLink, Use, TypeOK
  <2> QED BY <1>4, <2>1, <2>2 DEF AllocTail, AllocLink, Use, TypeOK, States, Free, Hands
<1>5. ASSUME NEW t \in Threads, FreeAbort(t) PROVE TypeOK'
  BY <1>5 DEF FreeAbort, TypeOK
<1>6. ASSUME NEW t \in Threads, FreeUnlink(t) PROVE TypeOK'
  <2>1. /\ pc' \in [Threads -> States] /\ blk[t] \in Blocks
        /\ \A u \in Threads : blk'[u] = Nil <=> pc'[u] \in Free
    BY <1>6, KeepsBlock DEF FreeUnlink, States, Free, Hands
  <2>2. active_list' \in Blocks \cup {Nil} /\ next' \in [Blocks -> Blocks \cup {Nil}]
    BY <1>6, <2>1 DEF FreeUnlink, TypeOK
  <2>3. freed' \in [Blocks -> BOOLEAN]
    BY <1>6 DEF FreeUnlink, TypeOK
  <2> QED BY <1>6, <2>1, <2>2, <2>3 DEF FreeUnlink, TypeOK, States, Free, Hands
<1>7. ASSUME NEW t \in Threads, FreePush(t) PROVE TypeOK'
  <2>1. /\ next' \in [Blocks -> Blocks \cup {Nil}] /\ free_list' \in [Slabs -> Blocks \cup {Nil}]
        /\ heap' \subseteq Blocks
    <3>1. blk[t] \in Blocks
      BY <1>7, RoundEffect DEF FreePush, TypeOK
    <3> QED BY <1>7, <3>1 DEF FreePush, TypeOK
  <2>2. RoundEnds(t, "push")
    BY <1>7 DEF FreePush
  <2> QED BY <1>7, <2>1, <2>2, RoundEffect DEF FreePush, TypeOK
<1>8. ASSUME NEW t \in Threads, Forget(t) PROVE TypeOK'
  <2>1. RoundEnds(t, "hold") /\ leaked' = [leaked EXCEPT ![t] = leaked[t] \cup {blk[t]}]
    BY <1>8 DEF Forget
  <2>2. blk[t] \in Blocks
    BY <2>1, RoundEffect DEF TypeOK
  <2>3. leaked' \in [Threads -> SUBSET Blocks]
    BY <2>1, <2>2 DEF TypeOK
  <2> QED BY <1>8, <2>1, <2>3, RoundEffect DEF Forget, TypeOK
<1>9. ASSUME mem_pool_set_protection PROVE TypeOK'
  BY <1>9 DEF mem_pool_set_protection, TypeOK
<1>10. ASSUME mem_pool_destroy PROVE TypeOK'
  BY <1>10 DEF mem_pool_destroy, TypeOK
<1>11. ASSUME UNCHANGED vars PROVE TypeOK'
  BY <1>11 DEF vars, TypeOK
<1> QED
  BY <1>1, <1>2, <1>3, <1>4, <1>5, <1>6, <1>7, <1>8, <1>9, <1>10, <1>11
  DEF Next, Step, mem_pool_alloc_label, mem_pool_free

-----------------------------------------------------------------------------
(***************************************************************************)
(* Where the blocks are.                                                   *)
(***************************************************************************)
\* The invariant, block by block, as long as the pool is up.
LEMMA Places ==
    ASSUME IInv, mp_srv = "up"
    PROVE  /\ next \in Links /\ active_list \in Ends /\ \A c \in Slabs : free_list[c] \in Ends
           /\ \A x : x \in heap <=> \/ x \in Chain(active_list) \/ x \in InHand
                                    \/ \E c \in Slabs : x \in Chain(free_list[c])
           /\ \A x \in Chain(active_list) : x \notin InHand
           /\ \A c \in Slabs : \A x \in Chain(free_list[c]) :
                x \notin Chain(active_list) /\ x \notin InHand /\ size[x] = c
           /\ \A t, u \in Threads : t # u /\ blk[t] # Nil => blk[t] # blk[u]
           /\ \A t \in Threads : pc[t] \in Hands => blk[t] \in Blocks /\ blk[t] \in InHand
           /\ \A t \in Threads : pc[t] \in {"hold", "used"} => blk[t] \in Chain(active_list)
<1>1. TypeOK /\ EachBlockInOnePlace /\ OwnerInv
  BY DEF IInv
<1>2. \A t \in Threads : pc[t] \in Hands => blk[t] \in Blocks /\ blk[t] \in InHand
  BY <1>1 DEF TypeOK, Hands, InHand
<1>3. \A t \in Threads : pc[t] \in {"hold", "used"} => blk[t] \in Chain(active_list)
  BY <1>1 DEF OwnerInv, Owned
<1>4. next \in Links /\ active_list \in Ends /\ \A c \in Slabs : free_list[c] \in Ends
  BY <1>1 DEF TypeOK, Links, Ends
<1> QED BY <1>1, <1>2, <1>3, <1>4 DEF EachBlockInOnePlace

LEMMA NoCircle ==
    ASSUME IInv, mp_srv = "up"
    PROVE  /\ \A b \in Chain(active_list) : b \notin Chain(next[b])
           /\ \A c \in Slabs : \A b \in Chain(free_list[c]) : b \notin Chain(next[b])
BY DEF IInv, ListInv

\* A block in somebody's hand is in no list.
LEMMA InHandIs ==
    ASSUME IInv, mp_srv = "up", NEW t \in Threads, pc[t] \in Hands
    PROVE  /\ blk[t] \in Blocks /\ blk[t] \in heap /\ blk[t] \notin Chain(active_list)
           /\ \A c \in Slabs : blk[t] \notin Chain(free_list[c])
           /\ \A u \in Threads \ {t} : blk[u] # blk[t]
BY Places, MPoolAssumption

\* A step that moves no block.
LEMMA QuietStep ==
    ASSUME IInv, UNCHANGED <<free_list, active_list, next, heap, mp_srv>>, InHand' = InHand,
           \A t \in Threads : blk'[t] \in {blk[t], Nil},
           \A c \in Slabs : \A x \in Chain(free_list[c]) : mp_srv = "up" => size'[x] = size[x]
    PROVE  EachBlockInOnePlace' /\ ListInv'
<1>1. \A h : Reach(next', h) = Reach(next, h)
  OBVIOUS
<1>2. ListInv'
  BY <1>1 DEF IInv, ListInv, Chain
<1>3. ASSUME mp_srv' = "up" PROVE EachBlockInOnePlace'
  <2>1. /\ heap = Chain(active_list) \cup InHand \cup UNION {Chain(free_list[c]) : c \in Slabs}
        /\ Chain(active_list) \cap InHand = {}
        /\ \A c \in Slabs :
             /\ Chain(free_list[c]) \cap (Chain(active_list) \cup InHand) = {}
             /\ \A b \in Chain(free_list[c]) : size'[b] = c
        /\ \A t, u \in Threads : t # u /\ blk'[t] # Nil => blk'[t] # blk'[u]
    BY <1>3 DEF IInv, EachBlockInOnePlace
  <2>2. /\ Chain(active_list)' = Chain(active_list)
        /\ \A c \in Slabs : Chain(free_list[c])' = Chain(free_list[c])
    BY DEF Chain
  <2> QED BY <2>1, <2>2 DEF EachBlockInOnePlace
<1> QED BY <1>2, <1>3 DEF EachBlockInOnePlace

\* malloc's new block is in the hands of the thread.
LEMMA MallocStep ==
    ASSUME IInv, mp_srv = "up", NEW t \in Threads, NEW b \in Blocks \ heap,
           heap' = heap \cup {b}, blk' = [blk EXCEPT ![t] = b], Goes(t, "malloc", "head"),
           UNCHANGED <<free_list, active_list, next, size, mp_srv>>
    PROVE  EachBlockInOnePlace' /\ ListInv'
<1>1. TypeOK /\ pc[t] = "malloc" /\ pc'[t] = "head" /\ \A u \in Threads \ {t} : pc'[u] = pc[u]
  BY GoesEffect DEF IInv
<1>2. blk'[t] = b /\ \A u \in Threads \ {t} : blk'[u] = blk[u]
  BY <1>1 DEF TypeOK
<1>3. InHand' = InHand \cup {b}
  BY <1>1, <1>2 DEF InHand
<1>4. /\ Chain(active_list)' = Chain(active_list)
      /\ \A c \in Slabs : Chain(free_list[c])' = Chain(free_list[c])
      /\ \A x : Chain(next[x])' = Chain(next[x])
  BY DEF Chain
<1>5. b \notin Chain(active_list) /\ \A c \in Slabs : b \notin Chain(free_list[c])
  BY Places
<1>6. \A u \in Threads : blk[u] # b
  <2> SUFFICES ASSUME NEW u \in Threads, blk[u] = b PROVE FALSE
    OBVIOUS
  <2>1. pc[u] \notin Free
    BY <1>1, MPoolAssumption DEF TypeOK, Free
  <2>2. pc[u] \in Hands \cup {"hold", "used"}
    BY <1>1, <2>1 DEF TypeOK, Free, Hands
  <2> QED BY <2>2, Places
<1>7. EachBlockInOnePlace'
  <2>1. heap' = Chain(active_list) \cup (InHand \cup {b}) \cup UNION {Chain(free_list[c]) : c \in Slabs}
    BY DEF IInv, EachBlockInOnePlace
  <2>2. Chain(active_list) \cap (InHand \cup {b}) = {}
    BY <1>5, Places
  <2>3. \A c \in Slabs : /\ Chain(free_list[c]) \cap (Chain(active_list) \cup InHand \cup {b}) = {}
                         /\ \A x \in Chain(free_list[c]) : size'[x] = c
    BY <1>5, Places
  <2>4. \A u, v \in Threads : u # v /\ blk'[u] # Nil => blk'[u] # blk'[v]
    BY <1>2, <1>6, Places
  <2> QED BY <1>3, <1>4, <2>1, <2>2, <2>3, <2>4 DEF EachBlockInOnePlace
<1>8. ListInv'
  BY <1>4 DEF IInv, ListInv, Chain
<1> QED BY <1>7, <1>8

\* The head of a free list goes into the hands of the thread.
LEMMA TakeStep ==
    ASSUME IInv, mp_srv = "up", NEW t \in Threads, NEW c \in Slabs, free_list[c] # Nil,
           free_list' = [free_list EXCEPT ![c] = next[free_list[c]]],
           blk' = [blk EXCEPT ![t] = free_list[c]], Goes(t, "idle", "head"),
           UNCHANGED <<active_list, next, heap, size, mp_srv>>
    PROVE  EachBlockInOnePlace' /\ ListInv'
<1> DEFINE b == free_list[c]
<1>1. /\ TypeOK /\ pc[t] = "idle" /\ pc'[t] = "head" /\ \A u \in Threads \ {t} : pc'[u] = pc[u]
      /\ b \in Blocks /\ next \in Links
  BY GoesEffect, Places DEF IInv, TypeOK
<1>2. blk'[t] = b /\ \A u \in Threads \ {t} : blk'[u] = blk[u]
  BY <1>1 DEF TypeOK
<1>3. InHand' = InHand \cup {b}
  BY <1>1, <1>2 DEF InHand, Hands
<1>4. Chain(b) = {b} \cup Chain(next[b]) /\ b \notin Chain(next[b])
  BY <1>1, ReachStep, NoCircle DEF Chain
<1>5. /\ free_list'[c] = next[b] /\ \A d \in Slabs \ {c} : free_list'[d] = free_list[d]
      /\ next[b] \in Ends
  BY <1>1 DEF TypeOK, Links, Ends
<1>6. /\ Chain(active_list)' = Chain(active_list)
      /\ Chain(free_list[c])' = Chain(b) \ {b}
      /\ \A d \in Slabs \ {c} : Chain(free_list[d])' = Chain(free_list[d])
      /\ \A x : Chain(next[x])' = Chain(next[x])
  BY <1>4, <1>5 DEF Chain
<1>7. /\ b \in Chain(b) /\ b \in heap /\ b \notin Chain(active_list) /\ b \notin InHand
      /\ \A d \in Slabs \ {c} : b \notin Chain(free_list[d])
  BY <1>4, Places
<1>8. \A u \in Threads : blk[u] # b
  <2> SUFFICES ASSUME NEW u \in Threads, blk[u] = b PROVE FALSE
    OBVIOUS
  <2>1. pc[u] \in Hands \cup {"hold", "used"}
    BY <1>1, MPoolAssumption DEF TypeOK, Free, Hands
  <2> QED BY <1>7, <2>1, Places
<1> HIDE DEF b
<1>9. EachBlockInOnePlace'
  <2>1. \A x : x \in heap' <=> \/ x \in Chain(active_list)' \/ x \in InHand'
                               \/ \E d \in Slabs : x \in Chain(free_list[d])'
    <3> TAKE x
    <3>1. x = b => x \in heap' /\ x \in InHand'
      BY <1>3, <1>7
    <3>2. x # b => (x \in heap' <=> x \in heap) /\ (x \in InHand' <=> x \in InHand)
      BY <1>3
    <3>3. x # b => \A d \in Slabs : x \in Chain(free_list[d])' <=> x \in Chain(free_list[d])
      BY <1>6 DEF b
    <3> QED BY <1>6, <3>1, <3>2, <3>3, Places
  <2>2. \A x \in Chain(active_list)' : x \notin InHand'
    BY <1>3, <1>6, <1>7, Places
  <2>3. \A d \in Slabs : \A x \in Chain(free_list[d])' :
          /\ x \in Chain(free_list[d]) /\ x # b
          /\ x \notin Chain(active_list)' /\ x \notin InHand' /\ size'[x] = d
    <3>1. \A d \in Slabs : \A x \in Chain(free_list[d])' : x \in Chain(free_list[d]) /\ x # b
      BY <1>6, <1>7 DEF b
    <3> QED BY <1>3, <1>6, <3>1, Places
  <2>4. \A u, v \in Threads : u # v /\ blk'[u] # Nil => blk'[u] # blk'[v]
    BY <1>2, <1>8, Places
  <2> QED BY <2>1, <2>2, <2>3, <2>4 DEF EachBlockInOnePlace
<1>10. ListInv'
  <2>1. \A d \in Slabs : \A x \in Chain(free_list[d])' : x \notin Chain(next[x])'
    <3>1. \A d \in Slabs : \A x \in Chain(free_list[d])' : x \in Chain(free_list[d])
      BY <1>6 DEF b
    <3> QED BY <1>6, <3>1, NoCircle
  <2>2. \A x \in Chain(active_list)' : x \notin Chain(next[x])'
    BY <1>6, NoCircle
  <2> QED BY <2>1, <2>2 DEF ListInv, Chain
<1> QED BY <1>9, <1>10

\* A block that is in no list becomes the head of the list that began at h.
LEMMA PushedOn ==
    ASSUME NEW n \in Links, NEW m \in Links, NEW b \in Blocks, NEW h \in Ends,
           m[b] = h, \A x \in Blocks \ {b} : m[x] = n[x], b \notin Reach(n, h),
           \A x \in Reach(n, h) : x \notin Reach(n, n[x])
    PROVE  /\ Reach(m, b) = {b} \cup Reach(n, h)
           /\ \A x \in Reach(m, b) : x \notin Reach(m, m[x])
<1>1. m[b] = h /\ \A x \in Blocks \ {b} : m[x] = n[x]
  OBVIOUS
<1>2. Reach(n, h) \in SUBSET Blocks
  BY ReachClosed
<1>3. Reach(m, h) = Reach(n, h)
  BY <1>1, <1>2, ReachSame
<1>4. Reach(m, b) = {b} \cup Reach(n, h)
  <2>1. Reach(m, b) = {b} \cup Reach(m, m[b])
    BY ReachStep
  <2> QED BY <1>1, <1>3, <2>1
<1>5. \A x \in Reach(n, h) : x \notin Reach(m, m[x])
  <2> TAKE x \in Reach(n, h)
  <2>1. n[x] \in Ends /\ Reach(n, n[x]) \subseteq Reach(n, h) /\ x \in Blocks /\ x # b
    BY ReachFrom
  <2>2. \A y \in Reach(n, n[x]) : m[y] = n[y]
    BY <1>1, <1>2, <2>1
  <2>3. Reach(m, n[x]) = Reach(n, n[x])
    BY <2>1, <2>2, ReachSame
  <2> QED BY <1>1, <2>1, <2>3
<1> QED BY <1>1, <1>3, <1>4, <1>5

\* A list that the changed links do not belong to.
LEMMA Untouched ==
    ASSUME NEW n \in Links, NEW m \in Links, NEW h \in Ends,
           \A x \in Reach(n, h) : m[x] = n[x],
           \A x \in Reach(n, h) : x \notin Reach(n, n[x])
    PROVE  /\ Reach(m, h) = Reach(n, h)
           /\ \A x \in Reach(m, h) : x \notin Reach(m, m[x])
<1>1. Reach(m, h) = Reach(n, h)
  BY ReachSame
<1>2. \A x \in Reach(n, h) : x \notin Reach(m, m[x])
  <2> TAKE x \in Reach(n, h)
  <2>1. n[x] \in Ends /\ Reach(n, n[x]) \subseteq Reach(n, h)
    BY ReachFrom
  <2>2. Reach(m, n[x]) = Reach(n, n[x])
    BY <2>1, ReachSame
  <2> QED BY <2>2
<1> QED BY <1>1, <1>2

\* The thread's block goes into the active list.
LEMMA LinkStep ==
    ASSUME IInv, mp_srv = "up", NEW t \in Threads, AllocLink(t)
    PROVE  /\ EachBlockInOnePlace' /\ ListInv'
           /\ Chain(active_list)' = {blk[t]} \cup Chain(active_list)
<1> DEFINE b == blk[t]
<1>1. /\ TypeOK /\ pc[t] = "link" /\ pc'[t] = "hold" /\ \A u \in Threads \ {t} : pc'[u] = pc[u]
      /\ next' = [next EXCEPT ![b] = active_list] /\ active_list' = b
      /\ UNCHANGED <<free_list, size, heap, blk, mp_srv>>
  BY GoesEffect DEF AllocLink, IInv
<1>2. /\ b \in Blocks /\ b \in heap /\ b \notin Chain(active_list)
      /\ \A c \in Slabs : b \notin Chain(free_list[c])
      /\ \A u \in Threads \ {t} : blk[u] # b
  BY <1>1, InHandIs DEF Hands
<1> HIDE DEF b
<1>3. next \in Links /\ next' \in Links /\ active_list \in Ends /\ \A c \in Slabs : free_list[c] \in Ends
  BY <1>1, <1>2, Places DEF Links, Ends
<1>4. InHand' = InHand \ {b}
  BY <1>1, <1>2 DEF InHand, b
<1>5. /\ Reach(next', b) = {b} \cup Reach(next, active_list)
      /\ \A x \in Reach(next', b) : x \notin Reach(next', next'[x])
  <2>1. b \notin Reach(next, active_list)
        /\ \A x \in Reach(next, active_list) : x \notin Reach(next, next[x])
    BY <1>2, NoCircle DEF Chain
  <2>2. next'[b] = active_list /\ \A x \in Blocks \ {b} : next'[x] = next[x]
    BY <1>1, <1>2, <1>3 DEF Links
  <2> QED BY <1>2, <1>3, <2>1, <2>2, PushedOn
<1>6. \A c \in Slabs : /\ Reach(next', free_list[c]) = Reach(next, free_list[c])
                       /\ \A x \in Reach(next', free_list[c]) : x \notin Reach(next', next'[x])
  <2> TAKE c \in Slabs
  <2>1. \A x \in Reach(next, free_list[c]) : next'[x] = next[x]
    BY <1>1, <1>2, <1>3, ReachClosed DEF Chain, Links
  <2> QED BY <1>3, <2>1, Untouched, NoCircle DEF Chain
<1>7. /\ Chain(active_list)' = {b} \cup Chain(active_list)
      /\ \A c \in Slabs : Chain(free_list[c])' = Chain(free_list[c])
  BY <1>1, <1>5, <1>6 DEF Chain
<1>8. ListInv'
  BY <1>1, <1>5, <1>6 DEF ListInv, Chain
<1>9. EachBlockInOnePlace'
  <2>1. \A x : x \in heap' <=> \/ x \in Chain(active_list)' \/ x \in InHand'
                               \/ \E c \in Slabs : x \in Chain(free_list[c])'
    BY <1>1, <1>2, <1>4, <1>7, Places
  <2>2. \A x \in Chain(active_list)' : x \notin InHand'
    BY <1>4, <1>7, Places
  <2>3. \A c \in Slabs : \A x \in Chain(free_list[c])' :
          x \notin Chain(active_list)' /\ x \notin InHand' /\ size'[x] = c
    BY <1>1, <1>2, <1>4, <1>7, Places
  <2>4. \A u, v \in Threads : u # v /\ blk'[u] # Nil => blk'[u] # blk'[v]
    BY <1>1, Places
  <2> QED BY <2>1, <2>2, <2>3, <2>4 DEF EachBlockInOnePlace
<1> QED BY <1>7, <1>8, <1>9 DEF b

\* The thread's block leaves the active list, wherever it is in it.
LEMMA UnlinkStep ==
    ASSUME IInv, mp_srv = "up", NEW t \in Threads, FreeUnlink(t)
    PROVE  /\ EachBlockInOnePlace' /\ ListInv'
           /\ Chain(active_list)' = Chain(active_list) \ {blk[t]}
<1> DEFINE b == blk[t]
<1>1. /\ TypeOK /\ pc[t] = "used" /\ pc'[t] = "push" /\ \A u \in Threads \ {t} : pc'[u] = pc[u]
      /\ UNCHANGED <<free_list, size, heap, blk, mp_srv>>
  BY GoesEffect DEF FreeUnlink, IInv
<1>2. /\ b \in Chain(active_list) /\ b \in Blocks /\ b \notin Chain(next[b])
      /\ \A c \in Slabs : b \notin Chain(free_list[c])
      /\ \A u \in Threads \ {t} : blk[u] # b
  <2>1. b \in Chain(active_list)
    BY <1>1, Places
  <2>2. Chain(active_list) \in SUBSET Blocks
    BY Places, ReachClosed DEF Chain
  <2> QED BY <2>1, <2>2, Places, NoCircle, MPoolAssumption
<1>3. \/ active_list = b /\ active_list' = next[b] /\ next' = next
      \/ /\ active_list # b /\ active_list' = active_list
         /\ next' = [x \in Blocks |-> IF x \in Chain(active_list) /\ next[x] = b
                                        THEN next[b] ELSE next[x]]
  BY DEF FreeUnlink
<1> HIDE DEF b
<1>4. /\ next \in Links /\ active_list \in Ends /\ \A c \in Slabs : free_list[c] \in Ends
      /\ next' \in Links
  <2>1. /\ next \in Links /\ active_list \in Ends /\ \A c \in Slabs : free_list[c] \in Ends
    BY Places
  <2> QED BY <1>2, <1>3, <2>1 DEF Links
<1>5. InHand' = InHand \cup {b}
  BY <1>1 DEF InHand, b
<1>6. /\ Reach(next', active_list') = Reach(next, active_list) \ {b}
      /\ \A x \in Reach(next', active_list') : x \notin Reach(next', next'[x])
  <2>1. CASE active_list = b /\ active_list' = next[b] /\ next' = next
    <3>1. Reach(next, b) = {b} \cup Reach(next, next[b])
      BY <1>2, <1>4, ReachStep
    <3> QED BY <1>2, <2>1, <3>1, NoCircle DEF Chain
  <2>2. CASE /\ active_list # b /\ active_list' = active_list
             /\ next' = [x \in Blocks |-> IF x \in Chain(active_list) /\ next[x] = b
                                            THEN next[b] ELSE next[x]]
    <3> DEFINE K == Reach(next, active_list)
    <3>1. K \in SUBSET Blocks /\ b \in K /\ b \notin Reach(next, next[b])
          /\ \A x \in K : x \notin Reach(next, next[x])
      BY <1>2, <1>4, ReachClosed, NoCircle DEF Chain
    <3>2. \A x \in Blocks : next'[x] = IF x \in K /\ next[x] = b THEN next[b] ELSE next[x]
      BY <2>2 DEF Chain
    <3>3. \A y \in Ends : y # b /\ Reach(next, y) \subseteq K =>
                            Reach(next', y) = Reach(next, y) \ {b}
      <4> HIDE DEF K
      <4> QED BY <1>2, <1>4, <3>1, <3>2, ReachSkip
    <3>4. Reach(next', active_list') = K \ {b}
      BY <1>4, <2>2, <3>3
    <3>5. \A x \in K \ {b} : x \notin Reach(next', next'[x])
      <4> TAKE x \in K \ {b}
      <4>1. x \in Blocks /\ next[x] \in Ends /\ Reach(next, next[x]) \subseteq K
        BY <1>4, ReachFrom
      <4>2. next[b] \in Ends /\ Reach(next, next[b]) \subseteq K
        BY <1>4, <3>1, ReachFrom
      <4>3. CASE next[x] = b
        <5>1. next'[x] = next[b] /\ Reach(next, b) = {b} \cup Reach(next, next[b])
          BY <1>2, <1>4, <3>2, <4>1, <4>3, ReachStep
        <5>2. x \notin Reach(next, next[b])
          BY <3>1, <4>3, <5>1
        <5>3. next[b] # b
          <6>1. next[b] = b => b \in Reach(next, next[b])
            BY <5>1
          <6> QED BY <3>1, <6>1
        <5>4. Reach(next', next[b]) = Reach(next, next[b]) \ {b}
          BY <3>3, <4>2, <5>3
        <5> QED BY <5>1, <5>2, <5>4
      <4>4. CASE next[x] # b
        <5>1. next'[x] = next[x] /\ Reach(next', next[x]) = Reach(next, next[x]) \ {b}
          BY <3>2, <3>3, <4>1, <4>4
        <5> QED BY <3>1, <5>1
      <4> QED BY <4>3, <4>4
    <3> QED BY <3>4, <3>5
  <2> QED BY <1>3, <2>1, <2>2
<1>7. \A c \in Slabs : /\ Reach(next', free_list[c]) = Reach(next, free_list[c])
                       /\ \A x \in Reach(next', free_list[c]) : x \notin Reach(next', next'[x])
  <2> TAKE c \in Slabs
  <2>1. \A x \in Reach(next, free_list[c]) : x \in Blocks /\ x \notin Chain(active_list)
    BY <1>4, Places, ReachClosed DEF Chain
  <2>2. \A x \in Reach(next, free_list[c]) : next'[x] = next[x]
    BY <1>3, <2>1
  <2> QED BY <1>4, <2>2, Untouched, NoCircle DEF Chain
<1>8. /\ Chain(active_list)' = Chain(active_list) \ {b}
      /\ \A c \in Slabs : Chain(free_list[c])' = Chain(free_list[c])
  BY <1>1, <1>6, <1>7 DEF Chain
<1>9. ListInv'
  BY <1>1, <1>6, <1>7 DEF ListInv, Chain
<1>10. EachBlockInOnePlace'
  <2>1. \A x : x \in heap' <=> \/ x \in Chain(active_list)' \/ x \in InHand'
                               \/ \E c \in Slabs : x \in Chain(free_list[c])'
    BY <1>1, <1>2, <1>5, <1>8, Places
  <2>2. \A x \in Chain(active_list)' : x \notin InHand'
    BY <1>5, <1>8, Places
  <2>3. \A c \in Slabs : \A x \in Chain(free_list[c])' :
          x \notin Chain(active_list)' /\ x \notin InHand' /\ size'[x] = c
    BY <1>1, <1>2, <1>5, <1>8, Places
  <2>4. \A u, v \in Threads : u # v /\ blk'[u] # Nil => blk'[u] # blk'[v]
    BY <1>1, Places
  <2> QED BY <2>1, <2>2, <2>3, <2>4 DEF EachBlockInOnePlace
<1> QED BY <1>8, <1>9, <1>10 DEF b

\* The thread's block goes into the free list of its class, or back to the heap.
LEMMA PushStep ==
    ASSUME IInv, mp_srv = "up", NEW t \in Threads, FreePush(t)
    PROVE  /\ EachBlockInOnePlace' /\ ListInv'
           /\ Chain(active_list)' = Chain(active_list)
<1> DEFINE b == blk[t]
           c == size[b]
<1>1. /\ TypeOK /\ pc[t] = "push" /\ pc'[t] \in Free /\ \A u \in Threads \ {t} : pc'[u] = pc[u]
      /\ UNCHANGED <<active_list, size, mp_srv>> /\ blk' = [blk EXCEPT ![t] = Nil]
  BY RoundEffect DEF FreePush, IInv, Free
<1>2. /\ b \in Blocks /\ b \in heap /\ b \notin Chain(active_list)
      /\ \A d \in Slabs : b \notin Chain(free_list[d])
      /\ \A u \in Threads \ {t} : blk[u] # b
  BY <1>1, InHandIs DEF Hands
<1>3. \/ /\ c \in Slabs /\ next' = [next EXCEPT ![b] = free_list[c]]
         /\ free_list' = [free_list EXCEPT ![c] = b] /\ heap' = heap
      \/ c \notin Slabs /\ heap' = heap \ {b} /\ next' = next /\ free_list' = free_list
  BY DEF FreePush
<1>4. blk'[t] = Nil /\ \A u \in Threads \ {t} : blk'[u] = blk[u]
  BY <1>1 DEF TypeOK
<1>5. InHand' = InHand \ {b}
  <2>1. \A u \in Threads : u # t /\ pc'[u] \in Hands <=> pc[u] \in Hands /\ blk[u] # b
    BY <1>1, <1>2 DEF Free, Hands
  <2>2. InHand' = {blk'[u] : u \in {v \in Threads : pc'[v] \in Hands}}
    BY DEF InHand, Hands
  <2>3. InHand = {blk[u] : u \in {v \in Threads : pc[v] \in Hands}}
    BY DEF InHand, Hands
  <2>4. pc'[t] \notin Hands
    BY <1>1 DEF Free, Hands
  <2> QED BY <1>4, <2>1, <2>2, <2>3, <2>4
<1>6. \A u, v \in Threads : u # v /\ blk'[u] # Nil => blk'[u] # blk'[v]
  BY <1>4, Places
<1>7. CASE c \notin Slabs /\ heap' = heap \ {b} /\ next' = next /\ free_list' = free_list
  <2>1. /\ Chain(active_list)' = Chain(active_list)
        /\ \A d \in Slabs : Chain(free_list[d])' = Chain(free_list[d])
        /\ \A x : Chain(next[x])' = Chain(next[x])
    BY <1>1, <1>7 DEF Chain
  <2>2. ListInv'
    BY <1>1, <1>7, <2>1 DEF IInv, ListInv, Chain
  <2>3. \A x : x \in heap' <=> \/ x \in Chain(active_list)' \/ x \in InHand'
                               \/ \E d \in Slabs : x \in Chain(free_list[d])'
    BY <1>2, <1>5, <1>7, <2>1, Places
  <2>4. /\ \A x \in Chain(active_list)' : x \notin InHand'
        /\ \A d \in Slabs : \A x \in Chain(free_list[d])' :
             x \notin Chain(active_list)' /\ x \notin InHand' /\ size'[x] = d
    BY <1>1, <1>5, <2>1, Places
  <2> QED BY <1>6, <2>1, <2>2, <2>3, <2>4 DEF EachBlockInOnePlace
<1>8. CASE /\ c \in Slabs /\ next' = [next EXCEPT ![b] = free_list[c]]
           /\ free_list' = [free_list EXCEPT ![c] = b] /\ heap' = heap
  <2> HIDE DEF b, c
  <2>1. next \in Links /\ next' \in Links /\ active_list \in Ends
        /\ \A d \in Slabs : free_list[d] \in Ends
    BY <1>2, <1>8, Places DEF Links, Ends
  <2>2. free_list'[c] = b /\ \A d \in Slabs \ {c} : free_list'[d] = free_list[d]
    BY <1>1, <1>8 DEF TypeOK
  <2>3. /\ Reach(next', b) = {b} \cup Reach(next, free_list[c])
        /\ \A x \in Reach(next', b) : x \notin Reach(next', next'[x])
    <3>1. b \notin Reach(next, free_list[c])
          /\ \A x \in Reach(next, free_list[c]) : x \notin Reach(next, next[x])
      BY <1>2, <1>8, NoCircle DEF Chain
    <3>2. /\ next'[b] = free_list[c] /\ free_list[c] \in Ends
          /\ \A x \in Blocks \ {b} : next'[x] = next[x]
      BY <1>2, <1>8, <2>1 DEF Links
    <3> QED BY <1>2, <2>1, <3>1, <3>2, PushedOn
  <2>4. \A x \in Blocks \ {b} : next'[x] = next[x]
    BY <1>8, <2>1 DEF Links
  <2>5. \A d \in Slabs : /\ Reach(next', free_list[d]) = Reach(next, free_list[d])
                         /\ \A x \in Reach(next', free_list[d]) : x \notin Reach(next', next'[x])
    <3> TAKE d \in Slabs
    <3>1. \A x \in Reach(next, free_list[d]) : next'[x] = next[x]
      BY <1>2, <2>1, <2>4, ReachClosed DEF Chain
    <3> QED BY <2>1, <3>1, Untouched, NoCircle DEF Chain
  <2>6. /\ Reach(next', active_list) = Reach(next, active_list)
        /\ \A x \in Reach(next', active_list) : x \notin Reach(next', next'[x])
    <3>1. \A x \in Reach(next, active_list) : next'[x] = next[x]
      BY <1>2, <2>1, <2>4, ReachClosed DEF Chain
    <3> QED BY <2>1, <3>1, Untouched, NoCircle DEF Chain
  <2>7. /\ Chain(active_list)' = Chain(active_list)
        /\ \A d \in Slabs : Chain(free_list[d])' = IF d = c THEN {b} \cup Chain(free_list[d])
                                                  ELSE Chain(free_list[d])
    BY <1>1, <2>2, <2>3, <2>5, <2>6 DEF Chain
  <2>8. ListInv'
    <3> SUFFICES ASSUME NEW h \in {active_list'} \cup {free_list'[d] : d \in Slabs},
                        NEW x \in Reach(next', h)
                 PROVE  x \notin Reach(next', next'[x])
      BY DEF ListInv, Chain
    <3>1. h = active_list \/ h = b \/ \E d \in Slabs : h = free_list[d]
      BY <1>1, <2>2
    <3> QED BY <2>3, <2>5, <2>6, <3>1
  <2>9. \A x : x \in heap' <=> \/ x \in Chain(active_list)' \/ x \in InHand'
                               \/ \E d \in Slabs : x \in Chain(free_list[d])'
    <3> TAKE x
    <3>1. x = b => x \in heap' /\ \E d \in Slabs : x \in Chain(free_list[d])'
      <4>1. \A d \in Slabs : d = c => b \in Chain(free_list[d])'
        BY <2>7
      <4>2. \E d \in Slabs : d = c
        BY <1>8
      <4> QED BY <1>2, <1>8, <4>1, <4>2
    <3>2. x # b => (x \in heap' <=> x \in heap) /\ (x \in InHand' <=> x \in InHand)
      BY <1>5, <1>8
    <3>3. x # b => \A d \in Slabs : x \in Chain(free_list[d])' <=> x \in Chain(free_list[d])
      BY <2>7
    <3> QED BY <2>7, <3>1, <3>2, <3>3, Places
  <2>10. \A x \in Chain(active_list)' : x \notin InHand'
    BY <1>5, <2>7, Places
  <2>11. \A d \in Slabs : \A x \in Chain(free_list[d])' :
           x \notin Chain(active_list)' /\ x \notin InHand' /\ size'[x] = d
    <3> TAKE d \in Slabs
    <3> TAKE x \in Chain(free_list[d])'
    <3>1. CASE x = b
      <4>1. d = c
        BY <1>2, <2>7, <3>1
      <4> QED BY <1>1, <1>2, <1>5, <2>7, <3>1, <4>1 DEF c
    <3>2. CASE x # b
      <4>1. x \in Chain(free_list[d])
        BY <2>7, <3>2
      <4> QED BY <1>1, <1>5, <2>7, <4>1, Places
    <3> QED BY <3>1, <3>2
  <2> QED BY <1>6, <2>7, <2>8, <2>9, <2>10, <2>11 DEF EachBlockInOnePlace
<1> QED BY <1>3, <1>7, <1>8

-----------------------------------------------------------------------------
(***************************************************************************)
(* The pool is up as long as a thread runs.                                *)
(***************************************************************************)
LEMMA Up ==
    ASSUME IInv, NEW t \in Threads, pc[t] # "exit"
    PROVE  mp_srv = "up"
BY DEF IInv, TypeOK, DestroyInv

LEMMA HandsSame ==
    ASSUME \A u \in Threads : /\ pc'[u] \in Hands <=> pc[u] \in Hands
                              /\ pc[u] \in Hands => blk'[u] = blk[u]
    PROVE  InHand' = InHand
<1>1. InHand' = {blk'[u] : u \in {v \in Threads : pc'[v] \in Hands}}
  BY DEF InHand, Hands
<1>2. InHand = {blk[u] : u \in {v \in Threads : pc[v] \in Hands}}
  BY DEF InHand, Hands
<1> QED BY <1>1, <1>2

LEMMA RoundBlocks ==
    ASSUME TypeOK, NEW t \in Threads, NEW here, RoundEnds(t, here)
    PROVE  /\ pc[t] = here /\ pc'[t] \in {"idle", "exit"} /\ blk'[t] = Nil
           /\ \A u \in Threads \ {t} : pc'[u] = pc[u] /\ blk'[u] = blk[u]
<1>1. pc[t] = here /\ pc'[t] \in {"idle", "exit"} /\ \A u \in Threads \ {t} : pc'[u] = pc[u]
  BY RoundEffect
<1>2. blk' = [blk EXCEPT ![t] = Nil]
  BY RoundEffect
<1>3. blk'[t] = Nil /\ \A u \in Threads \ {t} : blk'[u] = blk[u]
  BY <1>2 DEF TypeOK
<1> QED BY <1>1, <1>3

\* The two ways to begin an allocation.
LEMMA TakeEffect ==
    ASSUME TypeOK, NEW t \in Threads, AllocTake(t)
    PROVE  /\ \/ \E c \in Slabs :
                   /\ free_list[c] # Nil
                   /\ free_list' = [free_list EXCEPT ![c] = next[free_list[c]]]
                   /\ blk' = [blk EXCEPT ![t] = free_list[c]]
                   /\ Goes(t, "idle", "head")
              \/ Goes(t, "idle", "malloc") /\ UNCHANGED <<free_list, blk>>
           /\ pc[t] = "idle" /\ pc'[t] \in {"head", "malloc"}
           /\ \A u \in Threads \ {t} : pc'[u] = pc[u] /\ blk'[u] = blk[u]
           /\ UNCHANGED <<active_list, header, protection, heap, leaked, aborted, mp_srv>>
<1>1. \/ \E c \in Slabs :
           /\ free_list[c] # Nil
           /\ free_list' = [free_list EXCEPT ![c] = next[free_list[c]]]
           /\ blk' = [blk EXCEPT ![t] = free_list[c]]
           /\ Goes(t, "idle", "head")
      \/ Goes(t, "idle", "malloc") /\ UNCHANGED <<free_list, blk>>
  BY DEF AllocTake
<1>2. pc[t] = "idle" /\ pc'[t] \in {"head", "malloc"} /\ \A u \in Threads \ {t} : pc'[u] = pc[u]
  BY <1>1, GoesEffect
<1>3. \A u \in Threads \ {t} : blk'[u] = blk[u]
  BY <1>1 DEF TypeOK
<1> QED BY <1>1, <1>2, <1>3 DEF AllocTake

LEMMA MallocEffect ==
    ASSUME TypeOK, NEW t \in Threads, AllocMalloc(t)
    PROVE  /\ pc[t] = "malloc" /\ pc'[t] \in {"idle", "exit", "head"}
           /\ \A u \in Threads \ {t} : pc'[u] = pc[u] /\ blk'[u] = blk[u]
           /\ UNCHANGED <<free_list, active_list, header, protection, leaked,
                          aborted, mp_srv>>
<1>1. CASE RoundEnds(t, "malloc")
  BY <1>1, RoundBlocks DEF AllocMalloc
<1>2. CASE \E b \in Blocks \ heap : /\ blk' = [blk EXCEPT ![t] = b] /\ Goes(t, "malloc", "head")
  BY <1>2, GoesEffect DEF AllocMalloc, TypeOK
<1> QED BY <1>1, <1>2 DEF AllocMalloc

LEMMA PlacesStep == ASSUME IInv, [Next]_vars PROVE EachBlockInOnePlace' /\ ListInv'
<1> USE DEF header
<1>0. TypeOK
  BY DEF IInv
<1>1. ASSUME NEW t \in Threads, AllocTake(t) PROVE EachBlockInOnePlace' /\ ListInv'
  <2>1. /\ pc[t] = "idle" /\ mp_srv = "up" /\ UNCHANGED <<active_list, next, size, heap, mp_srv>>
        /\ \A u \in Threads \ {t} : pc'[u] = pc[u] /\ blk'[u] = blk[u]
    BY <1>0, <1>1, TakeEffect, Up
  <2>2. CASE \E c \in Slabs : /\ free_list[c] # Nil
                              /\ free_list' = [free_list EXCEPT ![c] = next[free_list[c]]]
                              /\ blk' = [blk EXCEPT ![t] = free_list[c]]
                              /\ Goes(t, "idle", "head")
    BY <2>1, <2>2, TakeStep
  <2>3. CASE Goes(t, "idle", "malloc") /\ UNCHANGED <<free_list, blk>>
    <3>1. pc[t] = "idle" /\ pc'[t] = "malloc"
      BY <1>0, <2>3, GoesEffect
    <3>2. InHand' = InHand
      BY <2>1, <2>3, <3>1, HandsSame DEF Hands
    <3> QED BY <2>1, <2>3, <3>2, QuietStep
  <2> QED BY <1>0, <1>1, <2>2, <2>3, TakeEffect
<1>2. ASSUME NEW t \in Threads, AllocMalloc(t) PROVE EachBlockInOnePlace' /\ ListInv'
  <2>1. /\ pc[t] = "malloc" /\ mp_srv = "up" /\ UNCHANGED <<free_list, active_list, next, size, mp_srv>>
    BY <1>0, <1>2, MallocEffect, Up
  <2>2. CASE RoundEnds(t, "malloc") /\ UNCHANGED heap
    <3>1. /\ pc[t] = "malloc" /\ pc'[t] \in {"idle", "exit"} /\ blk'[t] = Nil
          /\ \A u \in Threads \ {t} : pc'[u] = pc[u] /\ blk'[u] = blk[u]
      BY <1>0, <2>2, RoundBlocks
    <3>2. InHand' = InHand
      BY <3>1, HandsSame DEF Hands
    <3> QED BY <2>1, <2>2, <3>1, <3>2, QuietStep
  <2>3. CASE \E b \in Blocks \ heap : /\ heap' = heap \cup {b} /\ blk' = [blk EXCEPT ![t] = b]
                                      /\ Goes(t, "malloc", "head")
    BY <2>1, <2>3, MallocStep
  <2> QED BY <1>2, <2>2, <2>3 DEF AllocMalloc
<1>3. ASSUME NEW t \in Threads, AllocHead(t) PROVE EachBlockInOnePlace' /\ ListInv'
  <2>1. /\ pc[t] = "head" /\ pc'[t] = "tail" /\ \A u \in Threads \ {t} : pc'[u] = pc[u]
        /\ UNCHANGED <<free_list, active_list, next, heap, mp_srv, blk>> /\ mp_srv = "up"
        /\ size' = [size EXCEPT ![blk[t]] = idx[t]]
    BY <1>0, <1>3, GoesEffect, Up DEF AllocHead
  <2>2. InHand' = InHand
    BY <2>1, HandsSame DEF Hands
  <2>3. \A c \in Slabs : \A x \in Chain(free_list[c]) : size'[x] = size[x]
    <3>1. \A c \in Slabs : blk[t] \notin Chain(free_list[c])
      BY <2>1, InHandIs DEF Hands
    <3>2. \A c \in Slabs : \A x \in Chain(free_list[c]) : x \in Blocks
      BY DEF Chain, Reach
    <3> QED BY <1>0, <2>1, <3>1, <3>2 DEF TypeOK
  <2> QED BY <2>1, <2>2, <2>3, QuietStep
<1>4. ASSUME NEW t \in Threads, AllocTail(t) \/ Use(t) PROVE EachBlockInOnePlace' /\ ListInv'
  <2>1. /\ pc[t] \in Hands <=> pc'[t] \in Hands
        /\ \A u \in Threads \ {t} : pc'[u] = pc[u]
        /\ UNCHANGED <<free_list, active_list, next, heap, mp_srv, blk, size>>
    BY <1>0, <1>4, GoesEffect DEF AllocTail, Use, Hands
  <2>2. InHand' = InHand
    BY <2>1, HandsSame
  <2> QED BY <2>1, <2>2, QuietStep
<1>5. ASSUME NEW t \in Threads, AllocLink(t) \/ FreeUnlink(t) \/ FreePush(t)
      PROVE  EachBlockInOnePlace' /\ ListInv'
  <2>1. pc[t] \in {"link", "used", "push"}
    BY <1>0, <1>5, RoundBlocks DEF AllocLink, FreeUnlink, FreePush, Goes
  <2>2. mp_srv = "up"
    BY <2>1, Up
  <2> QED BY <1>5, <2>2, LinkStep, UnlinkStep, PushStep
<1>6. ASSUME NEW t \in Threads, Forget(t) PROVE EachBlockInOnePlace' /\ ListInv'
  <2>1. /\ pc[t] = "hold" /\ pc'[t] \in {"idle", "exit"} /\ blk'[t] = Nil
        /\ \A u \in Threads \ {t} : pc'[u] = pc[u] /\ blk'[u] = blk[u]
        /\ UNCHANGED <<free_list, active_list, next, heap, mp_srv, size>>
    BY <1>0, <1>6, RoundBlocks DEF Forget
  <2>2. InHand' = InHand
    BY <2>1, HandsSame DEF Hands
  <2> QED BY <2>1, <2>2, QuietStep
<1>7. ASSUME \/ \E t \in Threads : FreeAbort(t)
             \/ mem_pool_set_protection
             \/ UNCHANGED vars
      PROVE  EachBlockInOnePlace' /\ ListInv'
  <2>1. UNCHANGED <<free_list, active_list, next, heap, mp_srv, size, pc, blk>>
    BY <1>7 DEF FreeAbort, mem_pool_set_protection, vars, locals
  <2>2. InHand' = InHand
    BY <2>1 DEF InHand
  <2> QED BY <2>1, <2>2, QuietStep
<1>8. ASSUME mem_pool_destroy PROVE EachBlockInOnePlace' /\ ListInv'
  BY <1>8 DEF mem_pool_destroy, EachBlockInOnePlace, ListInv
<1> QED
  BY <1>1, <1>2, <1>3, <1>4, <1>5, <1>6, <1>7, <1>8
  DEF Next, Step, mem_pool_alloc_label, mem_pool_free

-----------------------------------------------------------------------------
(***************************************************************************)
(* Who owns what, and which guards it has.                                 *)
(***************************************************************************)
\* A step of t that gives no block and takes none.
LEMMA OwnerQuiet ==
    ASSUME IInv, NEW t \in Threads,
           \A u \in Threads \ {t} : pc'[u] = pc[u] /\ blk'[u] = blk[u] /\ leaked'[u] = leaked[u],
           Owned(t)' = Owned(t), UNCHANGED <<active_list, mp_srv>>,
           mp_srv = "up" => Chain(active_list)' = Chain(active_list),
           \A x \in Blocks : freed'[x] => freed[x],
           pc'[t] \in {"tail", "link"} => ~freed'[blk'[t]],
           pc'[t] \in {"hold", "used"} => blk'[t] \notin leaked'[t]
    PROVE  OwnerInv'
<1>1. \A u \in Threads : Owned(u)' = Owned(u)
  BY DEF Owned
<1>2. /\ mp_srv = "up" => Chain(active_list) = UNION {Owned(u) : u \in Threads}
      /\ mp_srv = "up" => \A x \in Chain(active_list) : ~freed[x]
      /\ \A u \in Threads : pc[u] \in {"tail", "link"} => ~freed[blk[u]]
      /\ \A u \in Threads : pc[u] \in {"hold", "used"} => blk[u] \notin leaked[u]
      /\ \A u, v \in Threads : u # v => Owned(u) \cap Owned(v) = {}
  BY DEF IInv, OwnerInv
<1>3. \A u \in Threads : pc'[u] \in {"tail", "link"} => ~freed'[blk'[u]]
  <2> TAKE u \in Threads
  <2> HAVE pc'[u] \in {"tail", "link"}
  <2>1. CASE u # t
    <3>1. blk[u] \in Blocks
      BY <2>1 DEF IInv, TypeOK
    <3> QED BY <1>2, <2>1, <3>1
  <2> QED BY <2>1
<1>4. \A u \in Threads : pc'[u] \in {"hold", "used"} => blk'[u] \notin leaked'[u]
  BY <1>2
<1>5. \A u, v \in Threads : u # v => Owned(u)' \cap Owned(v)' = {}
  BY <1>1, <1>2
<1>6. {Owned(u)' : u \in Threads} = {Owned(u) : u \in Threads}
  BY <1>1
<1>7. mp_srv' = "up" => Chain(active_list)' = UNION {Owned(u)' : u \in Threads}
  BY <1>2, <1>6
<1>8. mp_srv' = "up" => \A x \in Chain(active_list)' : ~freed'[x]
  <2>1. \A x \in Chain(active_list) : x \in Blocks
    BY DEF Chain, Reach
  <2> QED BY <1>2, <2>1
<1> QED BY <1>3, <1>4, <1>5, <1>7, <1>8 DEF OwnerInv

\* What the owners have is the active list, which no step but these three changes.
LEMMA OwnerLink ==
    ASSUME IInv, NEW t \in Threads, AllocLink(t)
    PROVE  /\ OwnerInv' /\ blk[t] \in Blocks
           /\ \A u \in Threads : blk[t] \notin Owned(u)
           /\ Owned(t)' = Owned(t) \cup {blk[t]}
           /\ \A u \in Threads \ {t} : Owned(u)' = Owned(u)
<1>1. /\ TypeOK /\ pc[t] = "link" /\ pc'[t] = "hold" /\ \A u \in Threads \ {t} : pc'[u] = pc[u]
      /\ UNCHANGED <<blk, leaked, freed, mp_srv>>
  BY GoesEffect DEF AllocLink, IInv
<1>2. /\ mp_srv = "up" /\ blk[t] \in Blocks /\ blk[t] \notin Chain(active_list)
  BY <1>1, Up, InHandIs DEF Hands
<1>3. Chain(active_list)' = {blk[t]} \cup Chain(active_list)
  BY <1>2, LinkStep
<1>4. /\ Chain(active_list) = UNION {Owned(u) : u \in Threads}
      /\ \A x \in Chain(active_list) : ~freed[x]
      /\ \A u \in Threads : pc[u] \in {"tail", "link"} => ~freed[blk[u]]
      /\ \A u \in Threads : pc[u] \in {"hold", "used"} => blk[u] \notin leaked[u]
      /\ \A u, v \in Threads : u # v => Owned(u) \cap Owned(v) = {}
  BY <1>2 DEF IInv, OwnerInv
<1>5. \A u \in Threads : blk[t] \notin Owned(u)
  BY <1>2, <1>4
<1>6. /\ Owned(t)' = Owned(t) \cup {blk[t]}
      /\ \A u \in Threads \ {t} : Owned(u)' = Owned(u)
  BY <1>1 DEF Owned
<1>7. \A x : x \in UNION {Owned(u)' : u \in Threads}
               <=> x = blk[t] \/ x \in UNION {Owned(u) : u \in Threads}
  <2>1. \A x : x \in UNION {Owned(u)' : u \in Threads} <=> \E u \in Threads : x \in Owned(u)'
    OBVIOUS
  <2>2. \A x : x \in UNION {Owned(u) : u \in Threads} <=> \E u \in Threads : x \in Owned(u)
    OBVIOUS
  <2>3. \A x : \A u \in Threads : x \in Owned(u)' <=> x \in Owned(u) \/ (u = t /\ x = blk[t])
    BY <1>6
  <2> QED BY <2>1, <2>2, <2>3
<1>8. Chain(active_list)' = UNION {Owned(u)' : u \in Threads}
  BY <1>3, <1>4, <1>7
<1>9. \A x \in Chain(active_list)' : ~freed'[x]
  BY <1>1, <1>3, <1>4
<1>10. \A u \in Threads : pc'[u] \in {"hold", "used"} => blk'[u] \notin leaked'[u]
  BY <1>1, <1>4, <1>5 DEF Owned
<1>11. \A u, v \in Threads : u # v => Owned(u)' \cap Owned(v)' = {}
  BY <1>4, <1>5, <1>6
<1>12. \A u \in Threads : pc'[u] \in {"tail", "link"} => ~freed'[blk'[u]]
  BY <1>1, <1>4
<1> QED BY <1>2, <1>5, <1>6, <1>8, <1>9, <1>10, <1>11, <1>12 DEF OwnerInv

LEMMA OwnerUnlink ==
    ASSUME IInv, NEW t \in Threads, FreeUnlink(t)
    PROVE  /\ OwnerInv' /\ blk[t] \in Blocks
           /\ blk[t] \in Owned(t) /\ Owned(t)' = Owned(t) \ {blk[t]}
           /\ \A u \in Threads \ {t} : Owned(u)' = Owned(u)
<1>1. /\ TypeOK /\ pc[t] = "used" /\ pc'[t] = "push" /\ \A u \in Threads \ {t} : pc'[u] = pc[u]
      /\ UNCHANGED <<blk, leaked, mp_srv>> /\ freed' = [freed EXCEPT ![blk[t]] = TRUE]
  BY GoesEffect DEF FreeUnlink, IInv
<1>2. mp_srv = "up"
  BY <1>1, Up
<1>3. Chain(active_list)' = Chain(active_list) \ {blk[t]}
  BY <1>2, UnlinkStep
<1>4. /\ Chain(active_list) = UNION {Owned(u) : u \in Threads}
      /\ \A x \in Chain(active_list) : ~freed[x]
      /\ \A u \in Threads : pc[u] \in {"tail", "link"} => ~freed[blk[u]]
      /\ \A u \in Threads : pc[u] \in {"hold", "used"} => blk[u] \notin leaked[u]
      /\ \A u, v \in Threads : u # v => Owned(u) \cap Owned(v) = {}
  BY <1>2 DEF IInv, OwnerInv
<1>5. blk[t] \in Blocks /\ \A u \in Threads \ {t} : blk[u] # blk[t]
  BY <1>1, <1>2, Places, MPoolAssumption DEF TypeOK
<1>6. blk[t] \in Owned(t) /\ \A u \in Threads \ {t} : blk[t] \notin Owned(u)
  BY <1>1, <1>4 DEF Owned
<1>7. /\ Owned(t)' = Owned(t) \ {blk[t]}
      /\ \A u \in Threads \ {t} : Owned(u)' = Owned(u)
  BY <1>1, <1>4 DEF Owned
<1>8. \A x : x \in UNION {Owned(u)' : u \in Threads}
               <=> x # blk[t] /\ x \in UNION {Owned(u) : u \in Threads}
  <2>1. \A x : x \in UNION {Owned(u)' : u \in Threads} <=> \E u \in Threads : x \in Owned(u)'
    OBVIOUS
  <2>2. \A x : x \in UNION {Owned(u) : u \in Threads} <=> \E u \in Threads : x \in Owned(u)
    OBVIOUS
  <2>3. \A x : \A u \in Threads : x \in Owned(u)' <=> x \in Owned(u) /\ x # blk[t]
    BY <1>6, <1>7
  <2> QED BY <2>1, <2>2, <2>3
<1>9. Chain(active_list)' = UNION {Owned(u)' : u \in Threads}
  BY <1>3, <1>4, <1>8
<1>10. \A x \in Blocks \ {blk[t]} : freed'[x] = freed[x]
  BY <1>1 DEF TypeOK
<1>11. \A x \in Chain(active_list)' : ~freed'[x]
  <2>1. \A x \in Chain(active_list) : x \in Blocks
    BY DEF Chain, Reach
  <2> QED BY <1>3, <1>4, <1>10, <2>1
<1>12. \A u \in Threads : pc'[u] \in {"hold", "used"} => blk'[u] \notin leaked'[u]
  BY <1>1, <1>4
<1>13. \A u, v \in Threads : u # v => Owned(u)' \cap Owned(v)' = {}
  BY <1>4, <1>7
<1>14. \A u \in Threads : pc'[u] \in {"tail", "link"} => ~freed'[blk'[u]]
  <2> TAKE u \in Threads
  <2> HAVE pc'[u] \in {"tail", "link"}
  <2>1. u # t /\ pc[u] \in {"tail", "link"}
    BY <1>1
  <2>2. blk[u] \in Blocks \ {blk[t]}
    BY <1>1, <1>5, <2>1 DEF TypeOK
  <2> QED BY <1>1, <1>4, <1>10, <2>1, <2>2
<1> QED BY <1>5, <1>6, <1>7, <1>9, <1>11, <1>12, <1>13, <1>14 DEF OwnerInv

\* Every other step leaves what the threads own alone.
LEMMA OwnerRest ==
    ASSUME IInv, [Next]_vars, \A t \in Threads : ~AllocLink(t) /\ ~FreeUnlink(t)
    PROVE  OwnerInv' /\ \A u \in Threads : Owned(u)' = Owned(u)
<1> USE DEF header
<1>0. TypeOK /\ (mp_srv = "up" => \A x \in Chain(active_list) : ~freed[x])
      /\ \A u \in Threads : /\ pc[u] \in {"tail", "link"} => ~freed[blk[u]]
                            /\ pc[u] \in {"hold", "used"} => blk[u] \notin leaked[u]
  BY DEF IInv, OwnerInv
<1>1. ASSUME NEW t \in Threads, AllocTake(t) \/ AllocMalloc(t)
      PROVE  OwnerInv' /\ \A u \in Threads : Owned(u)' = Owned(u)
  <2>1. /\ pc[t] \in Free /\ pc'[t] \in Free \cup {"head"}
        /\ \A u \in Threads \ {t} : pc'[u] = pc[u] /\ blk'[u] = blk[u]
        /\ UNCHANGED <<active_list, next, leaked, freed, mp_srv>>
    BY <1>0, <1>1, TakeEffect, MallocEffect DEF Free
  <2>2. \A u \in Threads : Owned(u)' = Owned(u)
    BY <2>1 DEF Owned, Free
  <2>3. Chain(active_list)' = Chain(active_list)
    BY <2>1 DEF Chain
  <2> QED BY <2>1, <2>2, <2>3, OwnerQuiet DEF Free
<1>2. ASSUME NEW t \in Threads, AllocHead(t) \/ AllocTail(t) \/ Use(t)
      PROVE  OwnerInv' /\ \A u \in Threads : Owned(u)' = Owned(u)
  <2>1. /\ \/ pc[t] = "head" /\ pc'[t] = "tail" /\ freed' = [freed EXCEPT ![blk[t]] = FALSE]
           \/ pc[t] = "tail" /\ pc'[t] = "link" /\ freed' = freed
           \/ pc[t] = "hold" /\ pc'[t] = "used" /\ freed' = freed
        /\ \A u \in Threads \ {t} : pc'[u] = pc[u]
        /\ UNCHANGED <<active_list, next, leaked, blk, mp_srv>>
    BY <1>0, <1>2, GoesEffect DEF AllocHead, AllocTail, Use
  <2>2. \A u \in Threads : Owned(u)' = Owned(u)
    BY <2>1 DEF Owned
  <2>3. Chain(active_list)' = Chain(active_list)
    BY <2>1 DEF Chain
  <2>4. (\A x \in Blocks : freed'[x] => freed[x]) /\ (pc[t] = "head" => ~freed'[blk[t]])
    <3>1. blk[t] \in Blocks
      BY <1>0, <2>1 DEF TypeOK
    <3>2. \A x \in Blocks : freed'[x] => freed[x]
      BY <1>0, <2>1, <3>1 DEF TypeOK
    <3>3. pc[t] = "head" => ~freed'[blk[t]]
      BY <1>0, <2>1, <3>1 DEF TypeOK
    <3> QED BY <3>2, <3>3
  <2>5. /\ pc'[t] \in {"tail", "link"} => ~freed'[blk'[t]]
        /\ pc'[t] \in {"hold", "used"} => blk'[t] \notin leaked'[t]
    BY <1>0, <2>1, <2>4
  <2> QED BY <2>1, <2>2, <2>3, <2>4, <2>5, OwnerQuiet
<1>3. ASSUME NEW t \in Threads, Forget(t) \/ FreePush(t)
      PROVE  OwnerInv' /\ \A u \in Threads : Owned(u)' = Owned(u)
  <2>1. /\ pc'[t] \in {"idle", "exit"}
        /\ \A u \in Threads \ {t} : pc'[u] = pc[u] /\ blk'[u] = blk[u] /\ leaked'[u] = leaked[u]
        /\ \/ pc[t] = "hold" /\ leaked'[t] = leaked[t] \cup {blk[t]} /\ next' = next
           \/ pc[t] = "push" /\ leaked'[t] = leaked[t] /\ FreePush(t)
        /\ UNCHANGED <<active_list, freed, mp_srv>>
    <3>1. CASE Forget(t)
      BY <1>0, <3>1, RoundBlocks DEF Forget, TypeOK
    <3>2. CASE FreePush(t)
      BY <1>0, <3>2, RoundBlocks DEF FreePush
    <3> QED BY <1>3, <3>1, <3>2
  <2>2. \A u \in Threads : Owned(u)' = Owned(u)
    BY <2>1 DEF Owned
  <2>3. mp_srv = "up" => Chain(active_list)' = Chain(active_list)
    BY <2>1, PushStep DEF Chain
  <2> QED BY <2>1, <2>2, <2>3, OwnerQuiet
<1>4. ASSUME \/ \E t \in Threads : FreeAbort(t)
             \/ mem_pool_set_protection
             \/ UNCHANGED vars
      PROVE  OwnerInv' /\ \A u \in Threads : Owned(u)' = Owned(u)
  <2>1. UNCHANGED <<active_list, next, freed, leaked, pc, blk, mp_srv>>
    BY <1>4 DEF FreeAbort, mem_pool_set_protection, vars, locals
  <2>2. \A u \in Threads : Owned(u)' = Owned(u)
    BY <2>1 DEF Owned
  <2>3. Chain(active_list)' = Chain(active_list)
    BY <2>1 DEF Chain
  <2> QED BY <2>1, <2>2, <2>3 DEF IInv, OwnerInv
<1>5. ASSUME mem_pool_destroy
      PROVE  OwnerInv' /\ \A u \in Threads : Owned(u)' = Owned(u)
  <2>1. /\ mp_srv' = "destroyed" /\ UNCHANGED <<freed, leaked, pc, blk>>
        /\ \A u \in Threads : pc[u] = "exit"
    BY <1>5 DEF mem_pool_destroy, locals
  <2>2. \A u \in Threads : Owned(u)' = Owned(u)
    BY <2>1 DEF Owned
  <2> QED BY <2>1, <2>2 DEF IInv, OwnerInv
<1> QED
  BY <1>1, <1>2, <1>3, <1>4, <1>5 DEF Next, Step, mem_pool_alloc_label, mem_pool_free

LEMMA GuardStep == ASSUME IInv, [Next]_vars PROVE GuardInv'
<1> USE DEF header, locals, protection
<1>0. /\ TypeOK /\ TypeOK'
      /\ \A t \in Threads :
           pc[t] \in {"tail", "link", "hold", "used"} /\ protect_mode /\ ~switched[blk[t]] =>
             /\ guard_head[blk[t]] = "magic"
             /\ pc[t] \in {"link", "hold"} => tail_guard[blk[t]] = "magic"
             /\ pc[t] = "used" => tail_guard[blk[t]] \in {"magic", "data"}
  BY TypeStep DEF IInv, GuardInv
<1>1. ASSUME NEW t \in Threads, pc'[t] \in Free \cup {"head", "push"},
             UNCHANGED <<guard_head, tail_guard, protect_mode, switched>>,
             \A u \in Threads \ {t} : pc'[u] = pc[u] /\ blk'[u] = blk[u]
      PROVE  GuardInv'
  BY <1>0, <1>1 DEF GuardInv, Free
<1>2. ASSUME NEW t \in Threads, \/ AllocTake(t) \/ AllocMalloc(t) \/ Forget(t)
                                \/ FreePush(t) \/ FreeUnlink(t)
      PROVE  GuardInv'
  <2>1. CASE AllocTake(t) \/ AllocMalloc(t)
    BY <1>0, <1>1, <2>1, TakeEffect, MallocEffect DEF Free
  <2>2. CASE Forget(t) \/ FreePush(t)
    BY <1>0, <1>1, <2>2, RoundBlocks DEF Forget, FreePush, Free
  <2>3. CASE FreeUnlink(t)
    BY <1>0, <1>1, <2>3, GoesEffect DEF FreeUnlink
  <2> QED BY <1>2, <2>1, <2>2, <2>3
<1>3. ASSUME NEW t \in Threads, AllocHead(t) \/ AllocTail(t) \/ AllocLink(t) \/ Use(t)
      PROVE  GuardInv'
  <2>1. /\ pc[t] \in {"head", "tail", "link", "hold"}
        /\ \A u \in Threads \ {t} : pc'[u] = pc[u]
        /\ UNCHANGED <<blk, protect_mode>>
        /\ \/ /\ pc'[t] = "tail" /\ tail_guard' = tail_guard
              /\ switched' = [switched EXCEPT ![blk[t]] = FALSE]
              /\ guard_head' = [guard_head EXCEPT ![blk[t]] =
                                  IF protect_mode THEN "magic" ELSE "zero"]
           \/ /\ pc[t] = "tail" /\ pc'[t] = "link" /\ guard_head' = guard_head
              /\ switched' = switched
              /\ tail_guard' = [tail_guard EXCEPT ![blk[t]] =
                                  IF protect_mode THEN "magic" ELSE tail_guard[blk[t]]]
           \/ pc[t] = "link" /\ pc'[t] = "hold" /\ UNCHANGED <<guard_head, tail_guard, switched>>
           \/ /\ pc[t] = "hold" /\ pc'[t] = "used" /\ guard_head' = guard_head
              /\ switched' = switched
              /\ \/ tail_guard' = tail_guard
                 \/ tail_guard' = [tail_guard EXCEPT ![blk[t]] = "data"]
    BY <1>0, <1>3, GoesEffect DEF AllocHead, AllocTail, AllocLink, Use
  <2>2. /\ blk[t] \in Blocks /\ \A u \in Threads \ {t} : blk[u] # blk[t]
    <3>1. blk[t] \in Blocks /\ mp_srv = "up"
      BY <1>0, <2>1, Up DEF TypeOK
    <3> QED BY <3>1, Places, MPoolAssumption
  <2>3. \A x \in Blocks \ {blk[t]} : /\ guard_head'[x] = guard_head[x] /\ tail_guard'[x] = tail_guard[x]
                                  /\ switched'[x] = switched[x]
    BY <1>0, <2>1 DEF TypeOK
  <2>4. SUFFICES ASSUME NEW u \in Threads, pc'[u] \in {"tail", "link", "hold", "used"},
                        protect_mode, ~switched'[blk[u]]
                 PROVE  /\ guard_head'[blk[u]] = "magic"
                        /\ pc'[u] \in {"link", "hold"} => tail_guard'[blk[u]] = "magic"
                        /\ pc'[u] = "used" => tail_guard'[blk[u]] \in {"magic", "data"}
    BY <2>1 DEF GuardInv
  <2>5. CASE u = t
    BY <1>0, <2>1, <2>2, <2>4, <2>5 DEF TypeOK
  <2>6. CASE u # t
    <3>1. pc[u] \in {"tail", "link", "hold", "used"} => blk[u] \in Blocks \ {blk[t]}
      BY <1>0, <2>2, <2>6 DEF TypeOK
    <3> QED BY <1>0, <2>1, <2>3, <2>4, <2>6, <3>1
  <2> QED BY <2>5, <2>6
<1>4. ASSUME mem_pool_set_protection PROVE GuardInv'
  <2>1. /\ \A b \in Blocks : switched'[b]
        /\ \A t \in Threads : pc'[t] \in {"tail", "link", "hold", "used"} => blk'[t] \in Blocks
    BY <1>0, <1>4, MPoolAssumption DEF mem_pool_set_protection, TypeOK
  <2> QED BY <2>1 DEF GuardInv
<1>5. ASSUME \/ \E t \in Threads : FreeAbort(t)
             \/ mem_pool_destroy
             \/ UNCHANGED vars
      PROVE  GuardInv'
  <2>1. UNCHANGED <<guard_head, tail_guard, protect_mode, switched, pc, blk>>
    BY <1>5 DEF FreeAbort, mem_pool_destroy, vars
  <2> QED BY <1>0, <2>1 DEF GuardInv
<1> QED
  BY <1>2, <1>3, <1>4, <1>5 DEF Next, Step, mem_pool_alloc_label, mem_pool_free

LEMMA DestroyStep == ASSUME IInv, [Next]_vars PROVE DestroyInv'
<1> USE DEF header, locals, protection
<1>1. TypeOK
  BY DEF IInv
<1>2. ASSUME NEW t \in Threads, Step(t) \/ Forget(t) PROVE DestroyInv'
  <2>1. pc[t] # "exit" /\ mp_srv' = mp_srv
    BY <1>1, <1>2, TakeEffect, MallocEffect, RoundBlocks
    DEF Step, mem_pool_alloc_label, mem_pool_free, AllocHead, AllocTail, AllocLink, Use,
        FreeAbort, FreeUnlink, FreePush, Forget, Goes
  <2> QED BY <2>1, Up DEF DestroyInv
<1>3. ASSUME mem_pool_set_protection PROVE DestroyInv'
  BY <1>3 DEF mem_pool_set_protection, DestroyInv
<1>4. ASSUME mem_pool_destroy PROVE DestroyInv'
  <2>1. /\ mp_srv = "up" /\ UNCHANGED pc /\ \A t \in Threads : pc[t] = "exit"
        /\ heap' = heap \ (Chain(active_list) \cup UNION {Chain(free_list[c]) : c \in Slabs})
    BY <1>4 DEF mem_pool_destroy
  <2>2. InHand = {}
    BY <2>1 DEF InHand
  <2>3. heap = Chain(active_list) \cup InHand \cup UNION {Chain(free_list[c]) : c \in Slabs}
    BY <2>1 DEF IInv, EachBlockInOnePlace
  <2>4. heap' = {}
    BY <2>1, <2>2, <2>3
  <2> QED BY <2>1, <2>4 DEF DestroyInv
<1>5. ASSUME UNCHANGED vars PROVE DestroyInv'
  BY <1>5 DEF vars, IInv, DestroyInv
<1> QED BY <1>2, <1>3, <1>4, <1>5 DEF Next

\* A thread frees a block of the active list, so that it is not marked as freed:
\* if free aborts, then because of the guards.
LEMMA AbortStep == ASSUME IInv, [Next]_vars PROVE NoUnprovokedAbort'
<1> USE DEF header, locals, protection
<1>1. ASSUME NEW t \in Threads, ~aborted, FreeAbort(t) PROVE NoUnprovokedAbort'
  <2>1. /\ pc[t] = "used" /\ UNCHANGED <<pc, blk, freed, guard_head, tail_guard, protect_mode, switched>>
        /\ \/ freed[blk[t]]
           \/ protect_mode /\ guard_head[blk[t]] # "magic"
           \/ protect_mode /\ tail_guard[blk[t]] # "magic"
    BY <1>1 DEF FreeAbort, Rejected
  <2>2. ~freed[blk[t]]
    <3>1. mp_srv = "up"
      BY <2>1, Up
    <3>2. blk[t] \in Chain(active_list)
      BY <2>1, <3>1, Places
    <3> QED BY <3>1, <3>2 DEF IInv, OwnerInv
  <2>3. protect_mode /\ (~switched[blk[t]] => tail_guard[blk[t]] = "data")
    BY <2>1, <2>2 DEF IInv, GuardInv
  <2> QED BY <2>1, <2>2, <2>3 DEF NoUnprovokedAbort
<1>2. ASSUME aborted' = aborted, ~aborted PROVE NoUnprovokedAbort'
  BY <1>2 DEF NoUnprovokedAbort
<1>3. ASSUME UNCHANGED vars PROVE NoUnprovokedAbort'
  BY <1>3 DEF IInv, NoUnprovokedAbort, vars
<1>4. ASSUME ~aborted, \/ \E t \in Threads : (Step(t) /\ ~FreeAbort(t)) \/ Forget(t)
                       \/ mem_pool_set_protection
                       \/ mem_pool_destroy
      PROVE  aborted' = aborted
  BY <1>4 DEF Step, mem_pool_alloc_label, mem_pool_free, AllocTake, AllocMalloc, AllocHead,
              AllocTail, AllocLink, Use, FreeUnlink, FreePush, Forget, mem_pool_set_protection,
              mem_pool_destroy
<1> QED BY <1>1, <1>2, <1>3, <1>4 DEF Next

-----------------------------------------------------------------------------
(***************************************************************************)
(* The theorems.                                                           *)
(***************************************************************************)
LEMMA InitIInv == ASSUME Init PROVE IInv
<1>1. TypeOK
  <2>1. 0 \in 0..NumClasses
    BY MPoolAssumption
  <2> QED BY <2>1 DEF Init, TypeOK
<1>2. /\ \A h : h = Nil => Chain(h) = {}
      /\ active_list = Nil /\ \A c \in Slabs : free_list[c] = Nil
  BY ReachNil DEF Init, Chain
<1>3. InHand = {} /\ \A t \in Threads : Owned(t) = {}
  BY DEF Init, InHand, Owned
<1>4. EachBlockInOnePlace
  BY <1>2, <1>3 DEF Init, EachBlockInOnePlace
<1>5. ListInv
  BY <1>2 DEF ListInv
<1>6. OwnerInv
  BY <1>2, <1>3 DEF Init, OwnerInv
<1>7. GuardInv /\ DestroyInv /\ NoUnprovokedAbort
  BY DEF Init, GuardInv, DestroyInv, NoUnprovokedAbort
<1> QED BY <1>1, <1>4, <1>5, <1>6, <1>7 DEF IInv

LEMMA NextIInv == ASSUME IInv, [Next]_vars PROVE IInv'
<1>1. OwnerInv'
  <2>1. CASE \E t \in Threads : AllocLink(t)
    BY <2>1, OwnerLink
  <2>2. CASE \E t \in Threads : FreeUnlink(t)
    BY <2>2, OwnerUnlink
  <2> QED BY <2>1, <2>2, OwnerRest
<1>2. TypeOK'
  BY TypeStep DEF IInv
<1> QED BY <1>1, <1>2, PlacesStep, GuardStep, DestroyStep, AbortStep DEF IInv

\* The inductive invariant holds in every reachable state.
THEOREM Invariance == Spec => []IInv
<1>1. Init => IInv
  BY InitIInv
<1>2. IInv /\ [Next]_vars => IInv'
  BY NextIInv
<1> QED BY <1>1, <1>2, PTL DEF Spec

\* Wherever the threads are between two locks, every block of the heap is in
\* exactly one of the active list, the free list of its own class and the hands
\* of one thread; none is lost and none is in two places.
THEOREM EachBlockInOnePlaceHolds == Spec => []EachBlockInOnePlace
<1>1. IInv => EachBlockInOnePlace
  BY DEF IInv
<1> QED BY <1>1, Invariance, PTL

\* Whoever dumps the pool and whenever: the blocks listed are those that were
\* allocated and not yet freed (lines 213-214, 228-229).
THEOREM DumpIsExactHolds == Spec => []DumpIsExact
<1>1. IInv => DumpIsExact
  BY DEF IInv, OwnerInv, DumpIsExact, mem_pool_dump
<1> QED BY <1>1, Invariance, PTL

\* free aborts (lines 160-180) only for a block without its guards: one that its
\* client filled to the last byte, or one between whose own alloc and free protection
\* was switched.
THEOREM NoUnprovokedAbortHolds == Spec => []NoUnprovokedAbort
<1>1. IInv => NoUnprovokedAbort
  BY DEF IInv
<1> QED BY <1>1, Invariance, PTL

\* The pool that has been taken down keeps nothing of the heap, the blocks that
\* its client forgot included (lines 283-311).
THEOREM DestroyFreesEverything == Spec => [](mp_srv = "destroyed" => heap = {})
<1>1. IInv => (mp_srv = "destroyed" => heap = {})
  BY DEF IInv, DestroyInv
<1> QED BY <1>1, Invariance, PTL

\* The pool implements the abstract allocator: what alloc links into the active
\* list belonged to nobody, and what free unlinks belonged to the thread.
THEOREM ImplementsAllocatorHolds == Spec => ImplementsAllocator
<1> DEFINE held == [t \in Threads |-> Owned(t)]
<1>1. Init => Abstract!AllocatorInit
  <2> SUFFICES ASSUME Init PROVE Abstract!AllocatorInit
    OBVIOUS
  <2>1. \A t \in Threads : Owned(t) = {}
    BY DEF Init, Owned
  <2> QED BY <2>1 DEF Abstract!AllocatorInit
<1>2. IInv /\ [Next]_vars => [Abstract!AllocatorNext]_([t \in Threads |-> Owned(t)])
  <2> SUFFICES ASSUME IInv, [Next]_vars PROVE Abstract!AllocatorNext \/ held' = held
    OBVIOUS
  <2>1. ASSUME NEW t \in Threads, AllocLink(t) PROVE \E b \in Blocks : Abstract!Allocate(t, b)
    <3>1. /\ blk[t] \in Blocks /\ \A u \in Threads : blk[t] \notin Owned(u)
          /\ Owned(t)' = Owned(t) \cup {blk[t]}
          /\ \A u \in Threads \ {t} : Owned(u)' = Owned(u)
      BY <2>1, OwnerLink
    <3>2. held' = [held EXCEPT ![t] = held[t] \cup {blk[t]}]
      BY <3>1
    <3> QED BY <3>1, <3>2 DEF Abstract!Allocate
  <2>2. ASSUME NEW t \in Threads, FreeUnlink(t) PROVE \E b \in Blocks : Abstract!Release(t, b)
    <3>1. /\ blk[t] \in Blocks /\ blk[t] \in Owned(t) /\ Owned(t)' = Owned(t) \ {blk[t]}
          /\ \A u \in Threads \ {t} : Owned(u)' = Owned(u)
      BY <2>2, OwnerUnlink
    <3>2. held' = [held EXCEPT ![t] = held[t] \ {blk[t]}]
      BY <3>1
    <3> QED BY <3>1, <3>2 DEF Abstract!Release
  <2>3. ASSUME \A t \in Threads : ~AllocLink(t) /\ ~FreeUnlink(t) PROVE held' = held
    <3>1. \A t \in Threads : Owned(t)' = Owned(t)
      BY <2>3, OwnerRest
    <3> QED BY <3>1
  <2> QED BY <2>1, <2>2, <2>3 DEF Abstract!AllocatorNext
<1> QED
  BY <1>1, <1>2, Invariance, PTL
  DEF Spec, ImplementsAllocator, Abstract!AllocatorSpec
================================================================================
