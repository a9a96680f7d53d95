------------------------ MODULE AllocationStrategies ------------------------
(***************************************************************************)
(* The four programs of 15.memory_allocation/1.allocation_strategy side by *)
(* side.  strategy says which of them a behaviour runs; the first three    *)
(* share the headers of the pool's blocks (size, free) and the client's    *)
(* view of it (live), so that the same questions are asked of all.         *)
(***************************************************************************)
EXTENDS ImplicitFreeList, Sequences

CONSTANTS LINKED_POOL,      (* POOL_SIZE and sizeof(BlockHeader) of the     *)
          LINKED_HDR,       (* two programs whose headers hold links        *)
          class_limits, BINS_POOL, NUM_32, NUM_64

\* A struct's size is a multiple of its alignment; the pool as one block is of the
\* last class, whose bin init_memory puts it into (32 KB, and 256 bytes at most in
\* the classes before); the two kinds of chunks have room in their pool (3520 of
\* 4096 bytes).
ASSUME StrategiesAssumption ==
    /\ HDR % 4 = 0 /\ LINKED_HDR % 4 = 0
    /\ LINKED_HDR \in Nat \ {0} /\ LINKED_POOL \in Nat /\ LINKED_HDR <= LINKED_POOL
    /\ class_limits \in Seq(Nat) /\ class_limits # <<>>
    /\ \A c \in 1..(Len(class_limits) - 1) : class_limits[c] < LINKED_POOL - LINKED_HDR
    /\ {BINS_POOL, NUM_32, NUM_64} \subseteq Nat
    /\ 32 * NUM_32 + 64 * NUM_64 <= BINS_POOL

VARIABLES strategy, next, prev, free_list, class_bins, hung, misfiled,
          free_list_32, free_list_64, link, used

linkVars    == <<next, prev>>
chunkVars   == <<free_list_32, free_list_64, link, used>>
binVars     == <<class_bins, hung, misfiled>>
strategyVars == <<vars, strategy, linkVars, free_list, binVars, chunkVars>>

Explicit == INSTANCE ExplicitFreeList WITH
              POOL_SIZE <- LINKED_POOL, HDR <- LINKED_HDR
Segregated == INSTANCE SegregatedFits WITH
              POOL_SIZE <- LINKED_POOL, HDR <- LINKED_HDR
Bins == INSTANCE FixedBins WITH
              POOL_SIZE <- BINS_POOL, next <- link

Nowhere == [a \in {} |-> 0]

\* What the program in question does not have stays empty.
NoLinks == next = Nowhere /\ prev = Nowhere
NoList  == free_list = NULL
NoBins  == class_bins = <<>> /\ hung = FALSE /\ misfiled = FALSE
NoChunks == free_list_32 = NULL /\ free_list_64 = NULL /\ link = Nowhere /\ used = {}
NoBlocks == size = Nowhere /\ free = Nowhere /\ live = Nowhere

StrategiesInit ==
    \/ strategy = "implicit" /\ Init /\ NoLinks /\ NoList /\ NoBins /\ NoChunks
    \/ strategy = "explicit" /\ Explicit!Init /\ NoBins /\ NoChunks
    \/ strategy = "segregated" /\ Segregated!Init /\ curr = NULL /\ NoList /\ NoChunks
    \/ /\ strategy = "bins" /\ Bins!Init
       /\ NoBlocks /\ curr = NULL /\ NoLinks /\ NoList /\ NoBins

StrategiesNext ==
    /\ UNCHANGED strategy
    /\ \/ /\ strategy = "implicit" /\ Next
          /\ UNCHANGED <<linkVars, free_list, binVars, chunkVars>>
       \/ /\ strategy = "explicit" /\ Explicit!Next
          /\ UNCHANGED <<binVars, chunkVars>>
       \/ /\ strategy = "segregated" /\ Segregated!Next
          /\ UNCHANGED <<curr, free_list, chunkVars>>
       \/ /\ strategy = "bins" /\ Bins!Next
          /\ UNCHANGED <<vars, linkVars, free_list, binVars>>

\* A call of my_free that has begun goes on; the client may stop calling.
StrategiesSpec ==
    /\ StrategiesInit /\ [][StrategiesNext]_strategyVars
    /\ WF_strategyVars(StrategiesNext /\ curr # NULL)
-----------------------------------------------------------------------------
\* After any sequence of calls the headers still cut the pool into blocks that
\* lie end to end, which every walk of the three programs depends on; exactly
\* the client's blocks are marked as in use, each with the bytes asked for.
PoolStaysTiled ==
    /\ CASE strategy = "implicit" -> BlocksTileThePool
         [] strategy \in {"explicit", "segregated"} -> Segregated!BlocksTileThePool
         [] OTHER -> TRUE
    /\ strategy # "bins" => LiveBlocksKept

\* Exactly the free blocks can be found again: the list of the explicit program
\* holds each of them once, and so do the two lists of the fixed-size chunks,
\* whatever the clients write into the chunks they hold.  The segregated program
\* loses blocks, and can run in circles, but not before a head was misfiled.
FreeBlocksAreListed ==
    CASE strategy = "explicit" -> Explicit!ListHoldsFreeBlocks
      [] strategy = "segregated" -> Segregated!BinsHoldUntilMisfiled
      [] strategy = "bins"     -> Bins!EachChunkInItsList
      [] OTHER -> TRUE

\* When my_free has returned no two neighbours are both free, so that a pool
\* whose blocks were all freed is one block again (the two programs that merge).
FreeNeighboursMerged ==
    CASE strategy = "implicit" -> NeighboursMerged
      [] strategy = "explicit" -> Explicit!NeighboursMerged
      [] OTHER -> TRUE

\* my_free's walk over the pool ends.
FreeAlwaysReturns == (curr # NULL) ~> (curr = NULL)

Header == IF strategy = "implicit" THEN HDR ELSE LINKED_HDR
Pool == CASE strategy = "implicit" -> POOL_SIZE
          [] strategy = "bins" -> BINS_POOL
          [] OTHER -> LINKED_POOL

\* The ranges the client holds, by address.
Held ==
    IF strategy = "bins" THEN [c \in used |-> Bins!Width(c)]
    ELSE [p \in {a + Header : a \in DOMAIN live} |-> live[p - Header]]

\* What the client sees is, with each of the four programs, an allocator of
\* disjoint ranges of the pool, each at least as long as was asked for.
Client == INSTANCE HeapPromise WITH
    Pools     <- {POOL_SIZE, LINKED_POOL, BINS_POOL},
    pool      <- Pool,
    Requests  <- Requests \cup {Bins!CHUNK_32_SIZE, Bins!CHUNK_64_SIZE},
    Addresses <- {a \in 0..(POOL_SIZE + LINKED_POOL + BINS_POOL) : a % 4 = 0},
    live      <- Held

StrategiesImplementHeap == Client!HeapSpec

(***************************************************************************)
(* The inductive invariant behind these: the headers of the first three    *)
(* programs, the walk of the two that merge, the links of the fourth.      *)
(***************************************************************************)
\* The blocks lie end to end in a pool of so many bytes, each at a multiple of 4.
Laid(sizes, header, pool) ==
    /\ sizes \in [DOMAIN sizes -> Nat]
    /\ 0 \in DOMAIN sizes /\ DOMAIN sizes \subseteq 0..pool
    /\ \A a \in DOMAIN sizes :
         a % 4 = 0 /\ a + header + sizes[a] \in DOMAIN sizes \cup {pool}
    /\ \A a, b \in DOMAIN sizes : a < b => a + header + sizes[a] <= b

BlocksInv ==
    /\ Laid(size, Header, Pool) /\ free \in [DOMAIN size -> BOOLEAN]
    /\ live \in [DOMAIN live -> Requests] /\ LiveBlocksKept

Behind(a) == a + Header + size[a]

\* What the walk has passed is merged.
WalkInv ==
    /\ curr \in DOMAIN size \cup {NULL}
    /\ \A a \in DOMAIN size :
         (curr = NULL \/ a < curr) /\ Behind(a) < Pool => ~(free[a] /\ free[Behind(a)])

\* The links lead from the head through all of a set of blocks and to nothing else,
\* and never to the same block twice: no smaller set holds the head and all that its
\* members are linked to.
Leads(links, head, blocks) ==
    /\ head \in blocks \cup {NULL}
    /\ \A a \in blocks :
         /\ links[a] \in (blocks \ {head}) \cup {NULL}
         /\ \A b \in blocks : a # b /\ links[a] = links[b] => links[a] = NULL
    /\ \A T \in SUBSET blocks :
         head \in T \cup {NULL} /\ (\A a \in T : links[a] \in T \cup {NULL}) => T = blocks

\* A list with the way back.
LeadsAndBack(links, back, head, blocks) ==
    /\ Leads(links, head, blocks)
    /\ \A a \in blocks : IF a = head THEN back[a] = NULL
                         ELSE back[a] \in blocks /\ links[back[a]] = a

FreeBlocks == {a \in DOMAIN size : free[a]}
FreeOfClass(c) == {a \in FreeBlocks : Segregated!get_class_id(size[a]) = c}

LinksOfHeaders == DOMAIN next = DOMAIN size /\ DOMAIN prev = DOMAIN size

ListInv == LinksOfHeaders /\ LeadsAndBack(next, prev, free_list, FreeBlocks)

BinsInv ==
    /\ LinksOfHeaders /\ DOMAIN class_bins = Segregated!Classes
    /\ misfiled \/ /\ ~hung
                   /\ \A c \in Segregated!Classes :
                        LeadsAndBack(next, prev, class_bins[c], FreeOfClass(c))

ChunksInv ==
    /\ link \in [Bins!Chunks -> Int] /\ used \subseteq Bins!Chunks
    /\ Leads(link, free_list_32, Bins!Chunks32 \ used)
    /\ Leads(link, free_list_64, Bins!Chunks64 \ used)

StrategiesIInv ==
    /\ strategy \in {"implicit", "explicit", "segregated", "bins"}
    /\ strategy # "bins" => BlocksInv
    /\ strategy \in {"implicit", "explicit"} => WalkInv
    /\ strategy = "explicit" => ListInv
    /\ strategy = "segregated" => BinsInv
    /\ strategy = "bins" => ChunksInv
=============================================================================
