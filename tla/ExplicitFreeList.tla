-------------------------- MODULE ExplicitFreeList --------------------------
(***************************************************************************)
(* 15.memory_allocation/1.allocation_strategy/2.explicit_free_list.c: the  *)
(* same pool as ImplicitFreeList, whose free blocks are also linked in a   *)
(* list; my_malloc searches the list, my_free merges by address.  The walk *)
(* of my_free is one step per iteration, curr is its pointer.              *)
(***************************************************************************)
EXTENDS PoolTiling, FiniteSets

CONSTANT Requests       (* the sizes the client asks for, in bytes          *)

VARIABLES size, free, next, prev,       (* the headers, by address          *)
          free_list,
          curr,                         (* the variable curr of my_free     *)
          live                          (* history: bytes asked for, by     *)
                                        (* address of block                 *)

vars == <<size, free, next, prev, free_list, curr, live>>

\* init_memory, lines 30-38.
Init ==
    /\ size = [a \in {0} |-> POOL_SIZE - HDR]
    /\ free = [a \in {0} |-> TRUE]
    /\ next = [a \in {0} |-> NULL]
    /\ prev = [a \in {0} |-> NULL]
    /\ free_list = 0
    /\ curr = NULL
    /\ live = [a \in {} |-> 0]

\* remove_from_free_list, lines 40-45, on the list as p, n and h give it.
Remove(n, p, h, b) ==
    /\ next' = RemoveNext(n, p, b)
    /\ prev' = RemovePrev(n, p, b)
    /\ free_list' = RemoveHead(n, h, b)

-----------------------------------------------------------------------------
Listed == Walk(next, free_list, Cardinality(DOMAIN size))

\* Line 61: the k-th block of the list fits n bytes.
Fits(k, n) == Listed[k] # NULL /\ free[Listed[k]] /\ size[Listed[k]] >= n

\* Line 60: it is the first that does.
IsFirstFit(a, n) ==
    \E k \in DOMAIN Listed :
        a = Listed[k] /\ Fits(k, n) /\ \A j \in DOMAIN Listed : Fits(j, n) => k <= j

\* Lines 62-74: the remainder enters the list before the block leaves it.
MallocSplit(a, n) ==
    /\ Splits(size, a, n)
    /\ LET b == a + HDR + n
           nextAfterAdd == AddNext(Extend(next, b, NULL), free_list, b)
           prevAfterAdd == AddPrev(Extend(prev, b, NULL), free_list, b)
       IN /\ size' = Split(size, a, n)
          /\ free' = [Extend(free, b, TRUE) EXCEPT ![a] = FALSE]
          /\ Remove(nextAfterAdd, prevAfterAdd, b, a)

\* Lines 73-74 alone.
MallocWhole(a, n) ==
    /\ ~Splits(size, a, n)
    /\ free' = [free EXCEPT ![a] = FALSE]
    /\ Remove(next, prev, free_list, a)
    /\ UNCHANGED size

\* Lines 55-80; without a fitting block my_malloc returns NULL.
my_malloc(n) ==
    /\ curr = NULL
    /\ \E a \in DOMAIN size :
         /\ IsFirstFit(a, ALIGN4(n))
         /\ MallocSplit(a, ALIGN4(n)) \/ MallocWhole(a, ALIGN4(n))
         /\ live' = Extend(live, a, n)
    /\ UNCHANGED curr

\* Lines 82-92.
my_free(a) ==
    /\ curr = NULL
    /\ a \in DOMAIN live
    /\ free' = [free EXCEPT ![a] = TRUE]
    /\ next' = AddNext(next, free_list, a)
    /\ prev' = AddPrev(prev, free_list, a)
    /\ free_list' = a
    /\ curr' = 0
    /\ live' = Drop(live, a)
    /\ UNCHANGED size

\* Lines 98-100.
MergeNext ==
    /\ curr # NULL
    /\ After(size, curr) < POOL_SIZE
    /\ free[curr] /\ free[After(size, curr)]
    /\ LET b == After(size, curr) IN
         /\ next' = Drop(RemoveNext(next, prev, b), b)
         /\ prev' = Drop(RemovePrev(next, prev, b), b)
         /\ free_list' = RemoveHead(next, free_list, b)
         /\ free' = Drop(free, b)
    /\ size' = Merge(size, curr)
    /\ UNCHANGED <<curr, live>>

\* Lines 101-102, and line 95.
MergeSkip ==
    /\ curr # NULL
    /\ IF After(size, curr) >= POOL_SIZE
         THEN curr' = NULL
         ELSE /\ ~(free[curr] /\ free[After(size, curr)])
              /\ curr' = After(size, curr)
    /\ UNCHANGED <<size, free, next, prev, free_list, live>>

Next ==
    \/ \E n \in Requests : my_malloc(n)
    \/ \E a \in DOMAIN live : my_free(a)
    \/ MergeNext
    \/ MergeSkip
-----------------------------------------------------------------------------
\* The headers keep their types, and curr and free_list point to headers.
TypeOK ==
    /\ DOMAIN size \subseteq 0..POOL_SIZE /\ size \in [DOMAIN size -> Nat]
    /\ free \in [DOMAIN size -> BOOLEAN]
    /\ DOMAIN next = DOMAIN size /\ DOMAIN prev = DOMAIN size
    /\ {curr, free_list} \subseteq DOMAIN size \cup {NULL}
    /\ live \in [DOMAIN live -> Requests]

\* The list holds the free blocks, all of them and nothing else, each one once,
\* and prev is the way back along next: a block that leaves the middle of the
\* list, or is merged into its neighbour, takes nothing with it.
ListHoldsFreeBlocks ==
    LET nodes == {k \in DOMAIN Listed : Listed[k] # NULL} IN
    /\ {Listed[k] : k \in nodes} = {a \in DOMAIN size : free[a]}
    /\ Cardinality(nodes) = Cardinality({a \in DOMAIN size : free[a]})
    /\ \A k \in nodes :
         prev[Listed[k]] = IF k = 0 THEN NULL ELSE Listed[k - 1]

\* The blocks still cut the pool end to end (the walk of line 93 needs it).
BlocksTileThePool == Tiled(size)

\* When my_free has returned no two neighbours are both free (line 90).
NeighboursMerged ==
    curr = NULL => \A a \in DOMAIN size :
                      After(size, a) < POOL_SIZE => ~(free[a] /\ free[After(size, a)])
=============================================================================
