--------------------------- MODULE SegregatedFits ---------------------------
(***************************************************************************)
(* 15.memory_allocation/1.allocation_strategy/3.segregated_fits.c: the     *)
(* same pool, with one list of free blocks per size class.  my_malloc      *)
(* searches the lists from the class of the request upwards; my_free puts  *)
(* the block into the list of its class and merges nothing.                *)
(***************************************************************************)
EXTENDS PoolTiling, Sequences, FiniteSets

CONSTANTS class_limits,     (* a sequence: the largest size of each class   *)
          Requests          (* the sizes the client asks for, in bytes      *)

NUM_CLASSES == Len(class_limits)
Classes == 1..NUM_CLASSES

VARIABLES size, free, next, prev,       (* the headers, by address          *)
          class_bins,                   (* the head of each class's list    *)
          live,                         (* history: bytes asked for, by     *)
                                        (* address of block                 *)
          hung,                         (* my_malloc is in an endless loop  *)
          misfiled                      (* history: a used block was left   *)
                                        (* as the head of a bin             *)

vars == <<size, free, next, prev, class_bins, live, hung, misfiled>>

\* init_memory, lines 36-49: the whole pool goes into the last bin.
Init ==
    /\ size = [a \in {0} |-> POOL_SIZE - HDR]
    /\ free = [a \in {0} |-> TRUE]
    /\ next = [a \in {0} |-> NULL]
    /\ prev = [a \in {0} |-> NULL]
    /\ class_bins = [c \in Classes |-> IF c = NUM_CLASSES THEN 0 ELSE NULL]
    /\ live = [a \in {} |-> 0]
    /\ hung = FALSE /\ misfiled = FALSE

\* Lines 52-58.
get_class_id(n) ==
    LET holding == {c \in Classes : n <= class_limits[c]} IN
    IF holding = {} THEN NUM_CLASSES
    ELSE CHOOSE c \in holding : \A d \in holding : c <= d

-----------------------------------------------------------------------------
Bound == Cardinality(DOMAIN size)
Listed(c) == Walk(next, class_bins[c], Bound)

\* Lines 83-86: the places, by bin and along the bin, where n bytes fit.
Hits(n) ==
    LET list == [c \in Classes |-> Listed(c)]
        fits(b) == b # NULL /\ free[b] /\ size[b] >= n
    IN {h \in (get_class_id(n)..NUM_CLASSES) \X (0..Bound) : fits(list[h[1]][h[2]])}

\* The first of them in the order of the search.
IsFirst(h, hits) ==
    h \in hits /\ \A g \in hits : h[1] < g[1] \/ (h[1] = g[1] /\ h[2] <= g[2])

\* The search reaches a list that has no end before it finds a block.
Loops(n) ==
    \E c \in get_class_id(n)..NUM_CLASSES :
        Listed(c)[Bound] # NULL /\ \A h \in Hits(n) : h[1] > c

\* Mutant: the links around the block are not mended.
RemoveHeadOnly(nx, pv, bins, b, n) ==
    LET c == get_class_id(n) IN
    /\ next' = nx /\ prev' = pv
    /\ class_bins' = [bins EXCEPT ![c] = RemoveHead(nx, @, b)]

\* remove_from_class, lines 70-76: the bin is the one of the size the block has
\* now, n bytes.
RemoveFromClass(nx, pv, bins, b, n) ==
    LET c == get_class_id(n) IN
    /\ next' = RemoveNext(nx, pv, b)
    /\ prev' = RemovePrev(nx, pv, b)
    /\ class_bins' = [bins EXCEPT ![c] = RemoveHead(nx, @, b)]

\* Lines 88-100: the remainder enters its bin, the block is cut down, and only
\* then taken out of the bin.
MallocSplit(a, n) ==
    /\ Splits(size, a, n)
    /\ LET b    == a + HDR + n
           c    == get_class_id(size[a] - n - HDR)
           head == class_bins[c]
           bins == [class_bins EXCEPT ![c] = b]
           old  == get_class_id(size[a])
       IN /\ size' = Split(size, a, n)
          /\ free' = [Extend(free, b, TRUE) EXCEPT ![a] = FALSE]
          /\ RemoveFromClass(AddNext(Extend(next, b, NULL), head, b),
                             AddPrev(Extend(prev, b, NULL), head, b),
                             bins, a, n)
          /\ misfiled' = (misfiled \/ (bins[old] = a /\ old # get_class_id(n)))

\* Mutant: a block that fits exactly stays in its bin, still marked free.
MallocWholeStaysFree(a, n) ==
    /\ ~Splits(size, a, n)
    /\ UNCHANGED <<size, free, next, prev, class_bins, misfiled>>

\* Lines 99-100 alone.
MallocWhole(a, n) ==
    /\ ~Splits(size, a, n)
    /\ free' = [free EXCEPT ![a] = FALSE]
    /\ RemoveFromClass(next, prev, class_bins, a, size[a])
    /\ UNCHANGED <<size, misfiled>>

\* Lines 78-108; without a fitting block my_malloc returns NULL, if it returns.
my_malloc(n) ==
    /\ ~hung
    /\ \/ /\ Loops(ALIGN4(n))
          /\ hung' = TRUE
          /\ UNCHANGED <<size, free, next, prev, class_bins, live, misfiled>>
       \/ /\ ~Loops(ALIGN4(n))
          /\ \E h \in Hits(ALIGN4(n)) :
               /\ IsFirst(h, Hits(ALIGN4(n)))
               /\ \E a \in DOMAIN size :
                    /\ a = Listed(h[1])[h[2]]
                    /\ MallocSplit(a, ALIGN4(n)) \/ MallocWhole(a, ALIGN4(n))
                    /\ live' = Extend(live, a, n)
          /\ UNCHANGED hung

\* Lines 110-116, and add_to_class, lines 60-68.
my_free(a) ==
    /\ ~hung
    /\ a \in DOMAIN live
    /\ free' = [free EXCEPT ![a] = TRUE]
    /\ LET c == get_class_id(size[a]) IN
         /\ next' = AddNext(next, class_bins[c], a)
         /\ prev' = AddPrev(prev, class_bins[c], a)
         /\ class_bins' = [class_bins EXCEPT ![c] = a]
    /\ live' = Drop(live, a)
    /\ UNCHANGED <<size, hung, misfiled>>

Next ==
    \/ \E n \in Requests : my_malloc(n)
    \/ \E a \in DOMAIN live : my_free(a)

Spec == Init /\ [][Next]_vars
-----------------------------------------------------------------------------
\* The headers keep their types, and the bins point to headers.
TypeOK ==
    /\ DOMAIN size \subseteq 0..POOL_SIZE /\ size \in [DOMAIN size -> Nat]
    /\ free \in [DOMAIN size -> BOOLEAN]
    /\ next \in [DOMAIN size -> DOMAIN size \cup {NULL}]
    /\ prev \in [DOMAIN size -> DOMAIN size \cup {NULL}]
    /\ class_bins \in [Classes -> DOMAIN size \cup {NULL}]
    /\ live \in [DOMAIN live -> Requests]

\* The blocks cut the pool end to end, whatever becomes of the bins.
BlocksTileThePool == Tiled(size)

\* The blocks of bin c, as the search and print_state meet them.
Bin(c) == {Listed(c)[k] : k \in 0..Bound} \ {NULL}

\* A bin holds the free blocks of its class and nothing else (lines 8-14: free
\* blocks are kept by size, one list per class).
BinsHoldFreeBlocksOfTheirClass ==
    \A c \in Classes :
        Bin(c) = {a \in DOMAIN size : free[a] /\ get_class_id(size[a]) = c}

\* They do until the head of a bin is cut down to a smaller class and stays in
\* its bin (line 75 looks at the size it has by then), and until then no search
\* runs in circles.
BinsHoldUntilMisfiled == misfiled \/ (BinsHoldFreeBlocksOfTheirClass /\ ~hung)
=============================================================================
