------------------------------- MODULE SlabPool -------------------------------
(***************************************************************************)
(* The slab pools of 15.memory_allocation: 2.mem_pool_c/1.base/mem_pool.c  *)
(* (~cxx) and 3.mem_pool_cxx/src/MemoryPool.cpp (cxx); cxx never changes.  *)
(* Every operation holds the pool's mutex from its first access to its     *)
(* last, so it is one step whatever the number of threads.  The two differ *)
(* in what a reused block keeps of its first allocation, and in the end of *)
(* the free list that a returned block joins.                              *)
(***************************************************************************)
EXTENDS Integers, SequencesExt

CONSTANTS
    Blocks,             (* what malloc can return                           *)
    SLAB_SIZES,         (* the chunk sizes, in increasing order             *)
    Requests,           (* the sizes that clients ask for                   *)
    Wrap                (* size_t counts modulo Wrap                        *)

ASSUME SlabAssumption ==
    /\ SLAB_SIZES \in Seq(Nat) /\ \A i, j \in DOMAIN SLAB_SIZES : i < j => SLAB_SIZES[i] < SLAB_SIZES[j]
    /\ Requests \subseteq Nat /\ Wrap \in Nat \ {0}

Slabs == DOMAIN SLAB_SIZES
LARGE == 0              (* slab_index's -1                                  *)

slab_index(n) ==
    LET fit == {i \in Slabs : SLAB_SIZES[i] >= n}
    IN IF fit = {} THEN LARGE ELSE Min(fit)

VARIABLES
    cxx,                (* which of the two pools                           *)
    heap,               (* the blocks that were malloc'd and not yet freed  *)
    room,               (* the bytes between the guards of each block's
                           buffer, as it was malloc'd                       *)
    size,               (* Block.size                                       *)
    asked,              (* history: what the block's client asked for       *)
    intact,             (* both guards hold GUARD_VAL                       *)
    free_list,          (* of each slab                                     *)
    active,             (* active_blocks                                    *)
    total, in_use,      (* the counters of each slab                        *)
    peak,               (* history: the most blocks of a slab ever active   *)
    verdict,            (* what the last call wrote to stderr               *)
    destroyed

vars == <<cxx, heap, room, size, asked, intact, free_list, active, total, in_use,
          peak, verdict, destroyed>>

ActiveOf(i) == {b \in active : slab_index(asked[b]) = i}
HasFree(i)  == i \in Slabs /\ free_list[i] # <<>>
Larger(m, n) == IF m > n THEN m ELSE n

Init ==
    /\ cxx \in BOOLEAN
    /\ heap = {} /\ active = {}
    /\ room = [b \in Blocks |-> 0] /\ size = room /\ asked = room
    /\ intact = [b \in Blocks |-> FALSE]
    /\ free_list = [i \in Slabs |-> <<>>]
    /\ total = [i \in Slabs |-> 0] /\ in_use = total /\ peak = total
    /\ verdict = "none" /\ destroyed = FALSE

\* Both alloc paths end by listing the block as active and returning it.
HandOut(b, n) ==
    /\ active' = active \cup {b}
    /\ asked' = [asked EXCEPT ![b] = n]
    /\ LET i == slab_index(n) IN
         peak' = IF i = LARGE THEN peak
                 ELSE [peak EXCEPT ![i] = Larger(@, Cardinality(ActiveOf(i)) + 1)]
    /\ verdict' = "none"
    /\ UNCHANGED <<cxx, destroyed>>

\* Mutant: the block is taken from the list and not counted.
ReuseUncounted(n) ==
    LET i == slab_index(n) IN
    /\ ~destroyed /\ HasFree(i)
    /\ LET b == Head(free_list[i]) IN
         /\ free_list' = [free_list EXCEPT ![i] = Tail(@)]
         /\ size' = IF cxx THEN [size EXCEPT ![b] = n] ELSE size
         /\ intact' = IF cxx THEN [intact EXCEPT ![b] = TRUE] ELSE intact
         /\ HandOut(b, n)
    /\ UNCHANGED <<heap, room, total, in_use>>

\* The slab has a free block.  The C pool hands it out with the size and the
\* guards of its first allocation; the C++ pool writes both anew, the tail guard
\* n bytes behind the block's start, wherever the malloc'd buffer ends.
Reuse(n) ==
    LET i == slab_index(n) IN
    /\ ~destroyed /\ HasFree(i)
    /\ LET b == Head(free_list[i]) IN
         /\ free_list' = [free_list EXCEPT ![i] = Tail(@)]
         /\ size' = IF cxx THEN [size EXCEPT ![b] = n] ELSE size
         /\ intact' = IF cxx THEN [intact EXCEPT ![b] = TRUE] ELSE intact
         /\ HandOut(b, n)
    /\ in_use' = [in_use EXCEPT ![i] = (@ + 1) % Wrap]
    /\ UNCHANGED <<heap, room, total>>

\* Mutant: a fresh block is malloc'd although the slab has a free one.
MallocAlways(n, b) ==
    LET i == slab_index(n) IN
    /\ ~destroyed
    /\ b \notin heap /\ heap' = heap \cup {b}
    /\ room' = [room EXCEPT ![b] = n] /\ size' = [size EXCEPT ![b] = n]
    /\ intact' = [intact EXCEPT ![b] = TRUE]
    /\ total' = IF i = LARGE THEN total ELSE [total EXCEPT ![i] = (@ + 1) % Wrap]
    /\ HandOut(b, n)
    /\ UNCHANGED <<free_list, in_use>>

\* The slab has none, or the request is larger than every slab: a buffer of
\* exactly the requested size and two guards.  in_use is not counted up.
Malloc(n, b) ==
    LET i == slab_index(n) IN
    /\ ~destroyed
    /\ ~HasFree(i)
    /\ b \notin heap /\ heap' = heap \cup {b}
    /\ room' = [room EXCEPT ![b] = n] /\ size' = [size EXCEPT ![b] = n]
    /\ intact' = [intact EXCEPT ![b] = TRUE]
    /\ total' = IF i = LARGE THEN total ELSE [total EXCEPT ![i] = (@ + 1) % Wrap]
    /\ HandOut(b, n)
    /\ UNCHANGED <<free_list, in_use>>

\* A pointer that is not active: nothing changes but the message.
FreeUnknown(b) ==
    /\ ~destroyed /\ b \notin active
    /\ verdict' = "invalid or double free"
    /\ UNCHANGED <<cxx, heap, room, size, asked, intact, free_list, active, total,
                   in_use, peak, destroyed>>

\* Mutant: a block that is freed stays listed as active.
FreeStaysActive(b) ==
    LET i == slab_index(size[b]) IN
    /\ ~destroyed /\ b \in active /\ active' = active
    /\ verdict' = IF intact[b] THEN "none" ELSE "overflow"
    /\ IF i = LARGE
         THEN heap' = heap \ {b} /\ UNCHANGED <<free_list, in_use>>
         ELSE /\ free_list' = [free_list EXCEPT ![i] = Append(@, b)]
              /\ in_use' = [in_use EXCEPT ![i] = (@ - 1) % Wrap]
              /\ UNCHANGED heap
    /\ UNCHANGED <<cxx, room, size, asked, intact, total, peak, destroyed>>

\* An active block.  Its guards are checked, and it joins the list of the slab
\* of Block.size or, when no slab is that large, goes back to the heap.
Free(b) ==
    LET i == slab_index(size[b]) IN
    /\ ~destroyed /\ b \in active /\ active' = active \ {b}
    /\ verdict' = IF intact[b] THEN "none" ELSE "overflow"
    /\ IF i = LARGE
         THEN heap' = heap \ {b} /\ UNCHANGED <<free_list, in_use>>
         ELSE /\ free_list' = [free_list EXCEPT
                                 ![i] = IF cxx THEN Append(@, b) ELSE <<b>> \o @]
              /\ in_use' = [in_use EXCEPT ![i] = (@ - 1) % Wrap]
              /\ UNCHANGED heap
    /\ UNCHANGED <<cxx, room, size, asked, intact, total, peak, destroyed>>

\* The client writes every byte it asked for, and no other.  The tail guard
\* that free will check is Block.size bytes behind the block's start.
Fill(b) ==
    /\ b \in active
    /\ intact' = [intact EXCEPT ![b] = @ /\ asked[b] <= size[b]]
    /\ UNCHANGED <<cxx, heap, room, size, asked, free_list, active, total, in_use,
                   peak, verdict, destroyed>>

\* mem_pool_destroy and ~MemoryPool free both kinds of blocks.  The C pool
\* leaves its free lists dangling; no program of the repository goes on.
destroy ==
    /\ ~destroyed /\ destroyed' = TRUE
    /\ heap' = heap \ (active \cup UNION {ToSet(free_list[i]) : i \in Slabs})
    /\ active' = {} /\ verdict' = "none"
    /\ UNCHANGED <<cxx, room, size, asked, intact, free_list, total, in_use, peak>>

Next ==
    \/ \E n \in Requests : Reuse(n) \/ \E b \in Blocks : Malloc(n, b)
    \/ \E b \in Blocks : Free(b) \/ FreeUnknown(b) \/ Fill(b)
    \/ destroy

Spec == Init /\ [][Next]_vars
-----------------------------------------------------------------------------
\* The variables keep their types; both sizes of a block are requests a client
\* made, never a total with guards.
TypeOK ==
    /\ heap \subseteq Blocks /\ active \subseteq Blocks /\ cxx \in BOOLEAN
    /\ room \in [Blocks -> {0} \cup Requests] /\ size \in [Blocks -> {0} \cup Requests]
    /\ asked \in [Blocks -> {0} \cup Requests] /\ intact \in [Blocks -> BOOLEAN]
    /\ free_list \in [Slabs -> Seq(Blocks)]
    /\ total \in [Slabs -> 0..(Wrap - 1)] /\ in_use \in [Slabs -> 0..(Wrap - 1)]
    /\ peak \in [Slabs -> Nat] /\ destroyed \in BOOLEAN

\* Through every reuse, each malloc'd block is active or in exactly one place of
\* one free list, the list of the slab that its buffer was malloc'd for; so the
\* pool's end, which frees those places, leaves nothing malloc'd.
EachBlockInOnePlace ==
    /\ heap = IF destroyed THEN {} ELSE active \cup UNION {ToSet(free_list[i]) : i \in Slabs}
    /\ ~destroyed => \A i \in Slabs :
         /\ IsInjective(free_list[i])
         /\ ToSet(free_list[i]) \cap active = {}
         /\ \A b \in ToSet(free_list[i]) : slab_index(room[b]) = i

\* The dump's "total" is the number of buffers malloc'd for the slab, and the
\* pool never malloc'd more of them than were once in use together (line 96
\* looks for a free block first).
ReuseBoundsTheHeap ==
    \A i \in Slabs :
        /\ ~destroyed =>
             total[i] = Cardinality({b \in heap : slab_index(room[b]) = i}) % Wrap
        /\ total[i] <= peak[i]

\* in_use wraps: a fresh block is not counted in it, and every block that comes
\* back is counted out.  It wraps exactly as far as total went up: the two
\* numbers the dump prints for a slab add up to its blocks that clients hold,
\* modulo the width of size_t, although free finds the slab by Block.size and
\* alloc by the request (lines 111, 116 and 149).
CountersAddUp ==
    ~destroyed => \A i \in Slabs :
        (total[i] + in_use[i]) % Wrap = Cardinality(ActiveOf(i)) % Wrap

\* The readme's promise that a request gets a block of a fitting slab: a client
\* can use the bytes it asked for, and the tail guard lies inside the buffer.
BlockFitsRequest == \A b \in active : asked[b] <= room[b]

(***************************************************************************)
(* The inductive invariant behind the first three.                         *)
(***************************************************************************)
\* There are finitely many blocks, and what a block says of itself, the size of
\* its buffer and what its client asked for all belong to one slab.
BlockInv ==
    /\ IsFiniteSet(heap)
    /\ \A b \in heap : slab_index(size[b]) = slab_index(room[b])
    /\ \A b \in active : slab_index(asked[b]) = slab_index(room[b])

\* peak is at least what is active.
PeakInv == ~destroyed => \A i \in Slabs : Cardinality(ActiveOf(i)) <= peak[i]

IInv ==
    TypeOK /\ BlockInv /\ PeakInv /\ EachBlockInOnePlace /\ ReuseBoundsTheHeap /\ CountersAddUp
=============================================================================
