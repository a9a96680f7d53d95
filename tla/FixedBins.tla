------------------------------ MODULE FixedBins ------------------------------
(***************************************************************************)
(* 4.slab_style_fixed_size_bins.c of                                       *)
(* 15.memory_allocation/1.allocation_strategy.                             *)
(* A pool of POOL_SIZE bytes is cut into NUM_32 chunks of 32 bytes and,    *)
(* behind them, NUM_64 chunks of 64 bytes.  The word at the start of a     *)
(* free chunk is its link to the next one; once the chunk is handed out    *)
(* the client owns that word and may write anything there.                 *)
(***************************************************************************)
EXTENDS Integers, FiniteSetsExt

CONSTANTS POOL_SIZE, NUM_32, NUM_64

NULL == -1
DATA == -2              (* a word that the client wrote                     *)

CHUNK_32_SIZE == 32
CHUNK_64_SIZE == 64

Chunks32 == {CHUNK_32_SIZE * i : i \in 0..(NUM_32 - 1)}

Chunks64 == {CHUNK_32_SIZE * NUM_32 + CHUNK_64_SIZE * i : i \in 0..(NUM_64 - 1)}
Chunks   == Chunks32 \cup Chunks64
Width(a) == IF a \in Chunks32 THEN CHUNK_32_SIZE ELSE CHUNK_64_SIZE

VARIABLES free_list_32, free_list_64,   (* the heads                        *)
          next,                         (* the first word of each chunk     *)
          used                          (* history: the client's chunks     *)

vars == <<free_list_32, free_list_64, next, used>>

\* Lines 34-54: each chunk is pushed in front of the one before it.
Init ==
    /\ next = [a \in Chunks |->
                 IF a \in {0, CHUNK_32_SIZE * NUM_32} THEN NULL ELSE a - Width(a)]
    /\ free_list_32 = IF NUM_32 = 0 THEN NULL ELSE Max(Chunks32)
    /\ free_list_64 = IF NUM_64 = 0 THEN NULL ELSE Max(Chunks64)
    /\ used = {}

\* Lines 56-62; an empty list gives NULL and changes nothing.
alloc_32 ==
    /\ free_list_32 # NULL
    /\ free_list_32' = next[free_list_32]
    /\ used' = used \cup {free_list_32}
    /\ UNCHANGED <<free_list_64, next>>

\* Lines 64-70.
alloc_64 ==
    /\ free_list_64 # NULL
    /\ free_list_64' = next[free_list_64]
    /\ used' = used \cup {free_list_64}
    /\ UNCHANGED <<free_list_32, next>>

\* Lines 72-77.
free_32(a) ==
    /\ a \in used \cap Chunks32
    /\ next' = [next EXCEPT ![a] = free_list_32]
    /\ free_list_32' = a
    /\ used' = used \ {a}
    /\ UNCHANGED free_list_64

\* Lines 79-84.
free_64(a) ==
    /\ a \in used \cap Chunks64
    /\ next' = [next EXCEPT ![a] = free_list_64]
    /\ free_list_64' = a
    /\ used' = used \ {a}
    /\ UNCHANGED free_list_32

\* The client writes to a chunk it was given.
ClientWrites(a) ==
    /\ a \in used
    /\ next' = [next EXCEPT ![a] = DATA]
    /\ UNCHANGED <<free_list_32, free_list_64, used>>

Next ==
    \/ alloc_32 \/ alloc_64
    \/ \E a \in used : free_32(a) \/ free_64(a) \/ ClientWrites(a)
-----------------------------------------------------------------------------
\* The chunks of the list that begins at h, as print_state counts them.
Chain(h) ==
    LET reach[k \in 0..Cardinality(Chunks)] ==
          IF k = 0 THEN {h} \ {NULL}
          ELSE reach[k - 1] \cup ({next[a] : a \in reach[k - 1] \cap Chunks} \ {NULL})
    IN reach[Cardinality(Chunks)]

\* The heads and links are chunks of the pool or NULL.
TypeOK ==
    /\ free_list_32 \in Chunks32 \cup {NULL}
    /\ free_list_64 \in Chunks64 \cup {NULL}
    /\ next \in [Chunks -> Chunks \cup {NULL, DATA}]
    /\ used \subseteq Chunks

\* Whatever the client writes and in whatever order it frees, every chunk is
\* either the client's or in the list of its own size, and no list leads into a
\* chunk of the client or of the other size.
EachChunkInItsList ==
    /\ Chain(free_list_32) = Chunks32 \ used
    /\ Chain(free_list_64) = Chunks64 \ used
=============================================================================
