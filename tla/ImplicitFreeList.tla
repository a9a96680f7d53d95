-------------------------- MODULE ImplicitFreeList --------------------------
(***************************************************************************)
(* 15.memory_allocation/1.allocation_strategy/1.implicit_free_list.c:      *)
(* first fit over all blocks of the pool, and a my_free that walks the     *)
(* whole pool and merges neighbours.  The walk of my_free is one step per  *)
(* iteration: curr is its pointer, NULL when no call is in progress.       *)
(***************************************************************************)
EXTENDS PoolTiling

CONSTANT Requests       (* the sizes the client asks for, in bytes          *)

ASSUME RequestsAssumption == Requests \subseteq Nat

VARIABLES size, free,   (* the headers, by address                          *)
          curr,         (* the variable curr of my_free                     *)
          live          (* history: bytes asked for, by address of block    *)

vars == <<size, free, curr, live>>

\* init_memory, lines 27-33.
Init ==
    /\ size = [a \in {0} |-> POOL_SIZE - HDR]
    /\ free = [a \in {0} |-> TRUE]
    /\ curr = NULL
    /\ live = [a \in {} |-> 0]

\* The blocks that fit n bytes, and the one the walk meets first.
Fitting(n) == {a \in DOMAIN size : free[a] /\ size[a] >= n}

IsFirstFit(a, n) == a \in Fitting(n) /\ \A b \in Fitting(n) : a <= b

\* The header at a becomes live, with what the client asked for.
Hand(a, n) == live' = [b \in DOMAIN live \cup {a} |-> IF b = a THEN n ELSE live[b]]

\* Lines 44-51: the remainder becomes a block of its own.
MallocSplit(a, n) ==
    /\ Splits(size, a, n)
    /\ size' = Split(size, a, n)
    /\ free' = [b \in DOMAIN free \cup {a + HDR + n} |->
                  IF b = a THEN FALSE ELSE IF b = a + HDR + n THEN TRUE ELSE free[b]]

\* Line 52 alone.
MallocWhole(a, n) ==
    /\ ~Splits(size, a, n)
    /\ free' = [free EXCEPT ![a] = FALSE]
    /\ UNCHANGED size

\* Lines 36-58; without a fitting block my_malloc returns NULL.
my_malloc(n) ==
    /\ curr = NULL
    /\ \E a \in DOMAIN size :
         /\ IsFirstFit(a, ALIGN4(n))
         /\ MallocSplit(a, ALIGN4(n)) \/ MallocWhole(a, ALIGN4(n))
         /\ Hand(a, n)
    /\ UNCHANGED curr

\* Lines 60-67: the client frees a block it was given.
my_free(a) ==
    /\ curr = NULL
    /\ a \in DOMAIN live
    /\ free' = [free EXCEPT ![a] = TRUE]
    /\ curr' = 0
    /\ live' = [b \in DOMAIN live \ {a} |-> live[b]]
    /\ UNCHANGED size

\* Mutant: the walk moves on after a merge.
MergeNextMovesOn ==
    /\ curr # NULL
    /\ After(size, curr) < POOL_SIZE
    /\ free[curr] /\ free[After(size, curr)]
    /\ size' = Merge(size, curr)
    /\ free' = [b \in DOMAIN free \ {After(size, curr)} |-> free[b]]
    /\ curr' = IF After(size', curr) < POOL_SIZE THEN After(size', curr) ELSE NULL
    /\ UNCHANGED live

\* Lines 74-75: curr stays, to try again with the block behind.
MergeNext ==
    /\ curr # NULL
    /\ After(size, curr) < POOL_SIZE
    /\ free[curr] /\ free[After(size, curr)]
    /\ size' = Merge(size, curr)
    /\ free' = [b \in DOMAIN free \ {After(size, curr)} |-> free[b]]
    /\ UNCHANGED <<curr, live>>

\* Mutant: the step is missing.
MergeSkipNot ==
    /\ curr # NULL
    /\ After(size, curr) < POOL_SIZE
    /\ ~(free[curr] /\ free[After(size, curr)])
    /\ UNCHANGED vars

\* Lines 76-77.
MergeSkip ==
    /\ curr # NULL
    /\ After(size, curr) < POOL_SIZE
    /\ ~(free[curr] /\ free[After(size, curr)])
    /\ curr' = After(size, curr)
    /\ UNCHANGED <<size, free, live>>

\* Line 71.
MergeEnd ==
    /\ curr # NULL
    /\ After(size, curr) >= POOL_SIZE
    /\ curr' = NULL
    /\ UNCHANGED <<size, free, live>>

Coalesce == MergeNext \/ MergeSkip \/ MergeEnd

Next ==
    \/ \E n \in Requests : my_malloc(n)
    \/ \E a \in DOMAIN live : my_free(a)
    \/ Coalesce

-----------------------------------------------------------------------------
\* The variables keep their types; curr is the address of a header.
TypeOK ==
    /\ DOMAIN size \subseteq 0..POOL_SIZE
    /\ size \in [DOMAIN size -> Nat]
    /\ free \in [DOMAIN size -> BOOLEAN]
    /\ curr \in DOMAIN size \cup {NULL}
    /\ live \in [DOMAIN live -> Requests]

\* After any sequence of calls the headers still cut the pool into blocks that
\* lie end to end (the walks of lines 41, 68 and 87 depend on it).
BlocksTileThePool == Tiled(size)

\* Exactly the client's blocks are marked allocated, and each still has the
\* bytes the client asked for.
LiveBlocksKept ==
    /\ DOMAIN live = {a \in DOMAIN size : ~free[a]}
    /\ \A a \in DOMAIN live : live[a] <= size[a]

\* When my_free has returned no two neighbours are both free (line 66), so that
\* a pool whose blocks were all freed is one block again.
NeighboursMerged ==
    curr = NULL => \A a \in DOMAIN size :
                      After(size, a) < POOL_SIZE => ~(free[a] /\ free[After(size, a)])
=============================================================================
