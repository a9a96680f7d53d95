----------------------------- MODULE PoolTiling -----------------------------
(***************************************************************************)
(* The layout shared by the allocators of                                  *)
(* 15.memory_allocation/1.allocation_strategy: a pool of POOL_SIZE bytes   *)
(* cut into blocks, each a header of HDR bytes and then size bytes for the *)
(* caller.  A layout is the function size from the addresses of the        *)
(* headers, counted from memory_pool, to the sizes they hold; free says    *)
(* which blocks are free.                                                  *)
(***************************************************************************)
EXTENDS Integers

CONSTANTS POOL_SIZE, HDR

ASSUME PoolAssumption ==
    /\ POOL_SIZE \in Nat /\ HDR \in Nat \ {0}
    /\ HDR <= POOL_SIZE

NULL == -1

\* The macro ALIGN4.
ALIGN4(x) == ((x + 3) \div 4) * 4

\* A field of the headers, with a header more or less at address b.
Extend(f, b, v) == [a \in DOMAIN f \cup {b} |-> IF a = b THEN v ELSE f[a]]
Drop(f, b) == [a \in DOMAIN f \ {b} |-> f[a]]

\* The address after the block at a, where the next header is.
After(size, a) == a + HDR + size[a]

\* A block is split when what remains is more than a header and 4 bytes.
Splits(size, a, n) == size[a] - n > HDR + 4

\* Mutant: the remainder's size counts its own header.
SplitKeepsHeader(size, a, n) ==
    [b \in DOMAIN size \cup {a + HDR + n} |->
        IF b = a THEN n
        ELSE IF b = a + HDR + n THEN size[a] - n ELSE size[b]]

\* The sizes after the block at a was cut down to n bytes.
Split(size, a, n) ==
    [b \in DOMAIN size \cup {a + HDR + n} |->
        IF b = a THEN n
        ELSE IF b = a + HDR + n THEN size[a] - n - HDR ELSE size[b]]

\* The sizes after the block at a has absorbed the one after it.
Merge(size, a) ==
    [b \in DOMAIN size \ {After(size, a)} |->
        IF b = a THEN size[a] + HDR + size[After(size, a)] ELSE size[b]]

(***************************************************************************)
(* The doubly linked lists of free blocks: next and prev are header        *)
(* fields, head is free_list, or the bin of a size class.                  *)
(***************************************************************************)
\* block->next = head; head->prev = block; block->prev = NULL.
AddNext(next, head, b) == [next EXCEPT ![b] = head]
AddPrev(prev, head, b) ==
    [a \in DOMAIN prev |-> IF a = b THEN NULL ELSE IF a = head THEN b ELSE prev[a]]

\* The neighbours of b are linked to each other; b keeps its pointers.
RemoveNext(next, prev, b) ==
    IF prev[b] # NULL THEN [next EXCEPT ![prev[b]] = next[b]] ELSE next
RemovePrev(next, prev, b) ==
    IF next[b] # NULL THEN [prev EXCEPT ![next[b]] = prev[b]] ELSE prev
RemoveHead(next, head, b) == IF b = head THEN next[b] ELSE head

\* The k-th block of the list that begins at head, NULL behind its end.
Walk(next, head, bound) ==
    LET node[k \in 0..bound] ==
          IF k = 0 THEN head
          ELSE IF node[k - 1] = NULL THEN NULL ELSE next[node[k - 1]]
    IN node

\* The blocks lie end to end from 0 to POOL_SIZE: none overlaps another, none
\* is lost, and a walk by sizes meets every header and nothing else.
Tiled(size) ==
    /\ 0 \in DOMAIN size
    /\ \A a \in DOMAIN size : After(size, a) \in DOMAIN size \cup {POOL_SIZE}
    /\ \A a, b \in DOMAIN size : a < b => After(size, a) <= b
=============================================================================
