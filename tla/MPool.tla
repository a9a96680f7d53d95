------------------------------- MODULE MPool -------------------------------
(***************************************************************************)
(* The thread-safe slab pool of 15.memory_allocation/2.mem_pool_c, in its  *)
(* two versions 2.upgrade and 3.m_mem_pool, which differ only in where the *)
(* globals live.  Lines are those of 3.m_mem_pool/mem_pool.c.              *)
(*                                                                         *)
(* A block is its header: next links it into active_list or into the free  *)
(* list of its size class, never both.  Class 0 stands for sizes above the *)
(* largest slab, which malloc and free serve directly.  The client is      *)
(* main.c: each thread allocates a block, uses it, frees it; a thread may  *)
(* also forget a block (the leak that main.c has commented out), and the   *)
(* header lets anybody switch protection on and off.                       *)
(*                                                                         *)
(* active_list is used only under glb_lock, a free list only under its     *)
(* slab's lock, and no lock is taken inside another: what happens under a  *)
(* lock is one step.  The header of a block is written, and protect_mode   *)
(* read, under no lock at all; those are steps of their own.  Thread       *)
(* states: "idle" "malloc" (113) "head" (117) "tail" (131) "link" (136)    *)
(* "hold" "used" "push" (196) "exit".                                      *)
(***************************************************************************)
EXTENDS Integers, FiniteSets

CONSTANTS Threads,
          Blocks,       (* the addresses malloc can return                  *)
          NumClasses,   (* slab_cls_cnt                                     *)
          Allocs,       (* ALLOCS of main.c, allocations per thread         *)
          FillsBlock,   (* requests may be as large as their block, and     *)
                        (* the client writes all it asked for               *)
          MaxToggles,   (* set_protection calls while the threads run       *)
          MaxLeaks,     (* bound on the blocks the threads forget           *)
          Nil

ASSUME MPoolAssumption ==
    /\ NumClasses \in Nat \ {0} /\ Allocs \in Nat \ {0}
    /\ FillsBlock \in BOOLEAN /\ MaxToggles \in Nat /\ MaxLeaks \in Nat
    /\ Nil \notin Blocks

Slabs == 1..NumClasses

VARIABLES free_list, active_list,           (* heads of the lists           *)
          next, size, freed,                (* header fields, by block      *)
          guard_head, tail_guard,           (* "magic", or something else   *)
          protect_mode, toggles,
          switched,           (* history: the blocks, by address, between   *)
                              (* whose alloc and now protection was switched *)
          heap,                             (* blocks malloc handed out     *)
          pc, idx, blk, count,              (* each thread's locals         *)
          leaked, aborted, mp_srv           (* mp_srv: "up" or "destroyed"  *)

header == <<next, size, freed, guard_head, tail_guard>>
protection == <<protect_mode, toggles, switched>>
locals == <<pc, idx, blk, count>>
vars == <<free_list, active_list, header, protection, heap, locals,
          leaked, aborted, mp_srv>>

\* The blocks of the list that begins at h when its links are nxt: the smallest
\* set that holds h and, with a block, the one it is linked to.
Reach(nxt, h) ==
    {b \in Blocks : \A S \in SUBSET Blocks :
        h \in S \cup {Nil} /\ (\A x \in S : nxt[x] \in S \cup {Nil}) => b \in S}

Chain(h) == Reach(next, h)

Init ==
    /\ free_list = [c \in Slabs |-> Nil]
    /\ active_list = Nil
    /\ next = [b \in Blocks |-> Nil]
    /\ size = [b \in Blocks |-> 0]
    /\ freed = [b \in Blocks |-> FALSE]
    /\ guard_head = [b \in Blocks |-> "zero"]
    /\ tail_guard = [b \in Blocks |-> "zero"]
    /\ protect_mode = TRUE
    /\ toggles = 0
    /\ switched = [b \in Blocks |-> FALSE]
    /\ heap = {}
    /\ pc = [t \in Threads |-> "idle"]
    /\ idx = [t \in Threads |-> 0]
    /\ blk = [t \in Threads |-> Nil]
    /\ count = [t \in Threads |-> 0]
    /\ leaked = [t \in Threads |-> {}]
    /\ aborted = FALSE
    /\ mp_srv = "up"

Goes(t, here, there) == pc[t] = here /\ pc' = [pc EXCEPT ![t] = there]

\* A thread's round is over, and with its last round the thread.
RoundEnds(t, here) ==
    /\ Goes(t, here, IF count[t] + 1 < Allocs THEN "idle" ELSE "exit")
    /\ count' = [count EXCEPT ![t] = @ + 1]
    /\ blk' = [blk EXCEPT ![t] = Nil]
    /\ idx' = [idx EXCEPT ![t] = 0]

-----------------------------------------------------------------------------
\* Mutant: a free block is used but stays at the head of its list.
AllocTakeNoPop(t) ==
    /\ \E c \in 0..NumClasses :
         /\ idx' = [idx EXCEPT ![t] = c]
         /\ IF c \in Slabs /\ free_list[c] # Nil
              THEN blk' = [blk EXCEPT ![t] = free_list[c]] /\ Goes(t, "idle", "head")
              ELSE Goes(t, "idle", "malloc") /\ UNCHANGED blk
    /\ UNCHANGED <<free_list, active_list, header, protection, heap,
                   count, leaked, aborted, mp_srv>>

\* Lines 92-111: the class of the request, and the head of its free list.
AllocTake(t) ==
    /\ \E c \in 0..NumClasses :
         /\ idx' = [idx EXCEPT ![t] = c]
         /\ IF c \in Slabs /\ free_list[c] # Nil
              THEN LET b == free_list[c] IN
                   /\ free_list' = [free_list EXCEPT ![c] = next[b]]
                   /\ blk' = [blk EXCEPT ![t] = b]
                   /\ Goes(t, "idle", "head")
              ELSE Goes(t, "idle", "malloc") /\ UNCHANGED <<free_list, blk>>
    /\ UNCHANGED <<active_list, header, protection, heap, count,
                   leaked, aborted, mp_srv>>

\* Lines 112-115; when malloc fails the client gets NULL, and frees it.
AllocMalloc(t) ==
    /\ \/ RoundEnds(t, "malloc") /\ UNCHANGED heap
       \/ \E b \in Blocks \ heap :
            /\ heap' = heap \cup {b}
            /\ blk' = [blk EXCEPT ![t] = b]
            /\ Goes(t, "malloc", "head") /\ UNCHANGED <<idx, count>>
    /\ UNCHANGED <<free_list, active_list, header, protection,
                   leaked, aborted, mp_srv>>

\* Mutant: freed is not reset when a block is used again.
AllocHeadStillFreed(t) ==
    /\ Goes(t, "head", "tail")
    /\ size' = [size EXCEPT ![blk[t]] = idx[t]]
    /\ guard_head' = [guard_head EXCEPT ![blk[t]] =
                        IF protect_mode THEN "magic" ELSE "zero"]
    /\ switched' = [switched EXCEPT ![blk[t]] = FALSE]
    /\ UNCHANGED <<free_list, active_list, next, freed, tail_guard, protect_mode,
                   toggles, heap, idx, blk, count, leaked, aborted, mp_srv>>

\* Lines 117-126.
AllocHead(t) ==
    /\ Goes(t, "head", "tail")
    /\ size' = [size EXCEPT ![blk[t]] = idx[t]]
    /\ freed' = [freed EXCEPT ![blk[t]] = FALSE]
    /\ guard_head' = [guard_head EXCEPT ![blk[t]] =
                        IF protect_mode THEN "magic" ELSE "zero"]
    /\ switched' = [switched EXCEPT ![blk[t]] = FALSE]
    /\ UNCHANGED <<free_list, active_list, next, tail_guard, protect_mode,
                   toggles, heap, idx, blk, count, leaked, aborted, mp_srv>>

\* Lines 131-134: protect_mode is read again; the guard is the last word of
\* the block itself.
AllocTail(t) ==
    /\ Goes(t, "tail", "link")
    /\ tail_guard' = [tail_guard EXCEPT ![blk[t]] =
                        IF protect_mode THEN "magic" ELSE @]
    /\ UNCHANGED <<free_list, active_list, next, size, freed, guard_head,
                   protection, heap, idx, blk, count, leaked,
                   aborted, mp_srv>>

\* Lines 136-141.
AllocLink(t) ==
    /\ Goes(t, "link", "hold")
    /\ next' = [next EXCEPT ![blk[t]] = active_list]
    /\ active_list' = blk[t]
    /\ UNCHANGED <<free_list, size, freed, guard_head, tail_guard, protection,
                   heap, idx, blk, count, leaked, aborted, mp_srv>>

\* main.c, line 24: the client writes to its block, within what it asked for.
Use(t) ==
    /\ Goes(t, "hold", "used")
    /\ \/ UNCHANGED tail_guard
       \/ FillsBlock /\ tail_guard' = [tail_guard EXCEPT ![blk[t]] = "data"]
    /\ UNCHANGED <<free_list, active_list, next, size, freed, guard_head,
                   protection, heap, idx, blk, count, leaked,
                   aborted, mp_srv>>

\* The client forgets its block.
Forget(t) ==
    /\ Cardinality(UNION {leaked[u] : u \in Threads}) < MaxLeaks
    /\ RoundEnds(t, "hold")
    /\ leaked' = [leaked EXCEPT ![t] = @ \cup {blk[t]}]
    /\ UNCHANGED <<free_list, active_list, header, protection, heap,
                   aborted, mp_srv>>

\* Lines 160-180.
Rejected(b) ==
    \/ freed[b]
    \/ protect_mode /\ guard_head[b] # "magic"
    \/ protect_mode /\ tail_guard[b] # "magic"

FreeAbort(t) ==
    /\ pc[t] = "used" /\ Rejected(blk[t])
    /\ aborted' = TRUE
    /\ UNCHANGED <<free_list, active_list, header, protection, heap,
                   locals, leaked, mp_srv>>

\* Mutant: prev where *prev is needed (the comment of line 188).
FreeUnlinkHeadOnly(t) ==
    /\ Goes(t, "used", "push")
    /\ ~Rejected(blk[t])
    /\ freed' = [freed EXCEPT ![blk[t]] = TRUE]
    /\ active_list' = IF active_list = blk[t] THEN next[blk[t]] ELSE active_list
    /\ UNCHANGED <<free_list, next, size, guard_head, tail_guard, protection,
                   heap, idx, blk, count, leaked, aborted, mp_srv>>

\* Lines 182-194: the walk to the block, and the link that skips it.
FreeUnlink(t) ==
    /\ Goes(t, "used", "push")
    /\ ~Rejected(blk[t])
    /\ freed' = [freed EXCEPT ![blk[t]] = TRUE]
    /\ IF active_list = blk[t]
         THEN active_list' = next[blk[t]] /\ UNCHANGED next
         ELSE /\ next' = [b \in Blocks |->
                   IF b \in Chain(active_list) /\ next[b] = blk[t]
                     THEN next[blk[t]] ELSE next[b]]
              /\ UNCHANGED active_list
    /\ UNCHANGED <<free_list, size, guard_head, tail_guard, protection,
                   heap, idx, blk, count, leaked, aborted, mp_srv>>

\* Lines 196-204.
FreePush(t) ==
    /\ RoundEnds(t, "push")
    /\ LET b == blk[t] c == size[b] IN
         IF c \in Slabs
           THEN /\ next' = [next EXCEPT ![b] = free_list[c]]
                /\ free_list' = [free_list EXCEPT ![c] = b]
                /\ UNCHANGED heap
           ELSE heap' = heap \ {b} /\ UNCHANGED <<next, free_list>>
    /\ UNCHANGED <<active_list, size, freed, guard_head, tail_guard,
                   protection, leaked, aborted, mp_srv>>

\* Lines 83-88.
mem_pool_set_protection ==
    /\ mp_srv = "up" /\ toggles < MaxToggles
    /\ toggles' = toggles + 1
    /\ protect_mode' = ~protect_mode
    /\ switched' = [b \in Blocks |-> TRUE]
    /\ UNCHANGED <<free_list, active_list, header, heap, locals, leaked, aborted,
                   mp_srv>>

\* Mutant: the free lists are not freed.
mem_pool_destroy_active_only ==
    /\ mp_srv = "up" /\ \A t \in Threads : pc[t] = "exit"
    /\ heap' = heap \ Chain(active_list)
    /\ active_list' = Nil
    /\ mp_srv' = "destroyed"
    /\ UNCHANGED <<free_list, header, protection, locals, leaked,
                   aborted>>

\* Lines 283-311, after main has joined its threads: every list is freed.
mem_pool_destroy ==
    /\ mp_srv = "up" /\ \A t \in Threads : pc[t] = "exit"
    /\ heap' = heap \ (Chain(active_list)
                         \cup UNION {Chain(free_list[c]) : c \in Slabs})
    /\ active_list' = Nil
    /\ mp_srv' = "destroyed"
    /\ UNCHANGED <<free_list, header, protection, locals, leaked,
                   aborted>>

\* What dump_stats and dump_leaks list (lines 213-214, 228-229).
mem_pool_dump == {b \in Chain(active_list) : ~freed[b]}

-----------------------------------------------------------------------------
mem_pool_alloc_label(t) ==
    AllocTake(t) \/ AllocMalloc(t) \/ AllocHead(t) \/ AllocTail(t) \/ AllocLink(t)

mem_pool_free(t) == FreeAbort(t) \/ FreeUnlink(t) \/ FreePush(t)

Step(t) == mem_pool_alloc_label(t) \/ Use(t) \/ mem_pool_free(t)

\* abort() ends the process.
Next ==
    /\ ~aborted
    /\ \/ \E t \in Threads : Step(t) \/ Forget(t)
       \/ mem_pool_set_protection
       \/ mem_pool_destroy

Spec == Init /\ [][Next]_vars

\* Every thread runs on, and main with them.
FairSpec ==
    /\ Spec
    /\ \A t \in Threads : WF_vars(~aborted /\ Step(t))
    /\ WF_vars(~aborted /\ mem_pool_destroy)
-----------------------------------------------------------------------------
\* The variables keep their types.
TypeOK ==
    /\ free_list \in [Slabs -> Blocks \cup {Nil}]
    /\ active_list \in Blocks \cup {Nil}
    /\ next \in [Blocks -> Blocks \cup {Nil}]
    /\ size \in [Blocks -> 0..NumClasses]
    /\ freed \in [Blocks -> BOOLEAN]
    /\ guard_head \in [Blocks -> {"zero", "magic"}]
    /\ tail_guard \in [Blocks -> {"zero", "magic", "data"}]
    /\ protect_mode \in BOOLEAN /\ toggles \in Nat
    /\ switched \in [Blocks -> BOOLEAN] /\ aborted \in BOOLEAN
    /\ heap \subseteq Blocks /\ leaked \in [Threads -> SUBSET Blocks]
    /\ idx \in [Threads -> 0..NumClasses] /\ count \in [Threads -> Nat]
    /\ mp_srv \in {"up", "destroyed"}
    /\ pc \in [Threads -> {"idle", "malloc", "head", "tail", "link", "hold",
                           "used", "push", "exit"}]
    /\ blk \in [Threads -> Blocks \cup {Nil}]
    /\ \A t \in Threads : blk[t] = Nil <=> pc[t] \in {"idle", "malloc", "exit"}

\* The blocks that t was given and has not begun to free.
Owned(t) == leaked[t] \cup (IF pc[t] \in {"hold", "used"} THEN {blk[t]} ELSE {})

\* Blocks on their way between the lists.
InHand == {blk[t] : t \in {u \in Threads : pc[u] \in {"head", "tail", "link", "push"}}}

\* Every block of the heap is in exactly one place: in the active list, in the
\* free list of its own class, or in the hands of one thread.
EachBlockInOnePlace ==
    mp_srv = "up" =>
    /\ heap = Chain(active_list) \cup InHand \cup UNION {Chain(free_list[c]) : c \in Slabs}
    /\ Chain(active_list) \cap InHand = {}
    /\ \A c \in Slabs :
         /\ Chain(free_list[c]) \cap (Chain(active_list) \cup InHand) = {}
         /\ \A b \in Chain(free_list[c]) : size[b] = c
    /\ \A t, u \in Threads : t # u /\ blk[t] # Nil => blk[t] # blk[u]

\* Whoever dumps the statistics or the leaks, and whenever: what is listed are
\* exactly the blocks that were allocated and not yet freed.
DumpIsExact ==
    mp_srv = "up" => mem_pool_dump = UNION {Owned(t) : t \in Threads}

\* free aborts nobody for a block that was reused, on a stale freed flag, or while
\* protection is off: the only blocks it aborts for have lost their guards to
\* a client that filled its block to the last byte (the tail guard lies inside
\* it, line 132), or were never given them, or lost them, because protect_mode was
\* switched between that block's own alloc and its free.
NoUnprovokedAbort ==
    aborted => \E t \in Threads :
                   /\ pc[t] = "used" /\ protect_mode /\ ~freed[blk[t]]
                   /\ tail_guard[blk[t]] = "data" \/ switched[blk[t]]

\* Every thread gets through its rounds and the pool is taken down with every
\* block given back, those the client leaked included, unless free aborts.
Finishes == <>(aborted \/ (mp_srv = "destroyed" /\ heap = {}))

\* The pool implements the abstract allocator.
Abstract == INSTANCE BlockAllocator WITH
              Callers <- Threads,
              held    <- [t \in Threads |-> Owned(t)]

ImplementsAllocator == Abstract!AllocatorSpec

(***************************************************************************)
(* The inductive invariant behind the invariants and the refinement.       *)
(***************************************************************************)
\* No list runs in a circle: what follows a block does not lead back to it.
ListInv ==
    mp_srv = "up" =>
      \A h \in {active_list} \cup {free_list[c] : c \in Slabs} :
        \A b \in Chain(h) : b \notin Chain(next[b])

\* The active blocks are those that somebody owns, none of them is marked as
\* freed, and none has two owners.
OwnerInv ==
    /\ mp_srv = "up" => Chain(active_list) = UNION {Owned(t) : t \in Threads}
    /\ mp_srv = "up" => \A b \in Chain(active_list) : ~freed[b]
    /\ \A t \in Threads : pc[t] \in {"tail", "link"} => ~freed[blk[t]]
    /\ \A t \in Threads : pc[t] \in {"hold", "used"} => blk[t] \notin leaked[t]
    /\ \A t, u \in Threads : t # u => Owned(t) \cap Owned(u) = {}

\* Under protection that was not switched since its alloc, a block has its
\* guards until it is used.
GuardInv ==
    \A t \in Threads :
      pc[t] \in {"tail", "link", "hold", "used"} /\ protect_mode /\ ~switched[blk[t]] =>
        /\ guard_head[blk[t]] = "magic"
        /\ pc[t] \in {"link", "hold"} => tail_guard[blk[t]] = "magic"
        /\ pc[t] = "used" => tail_guard[blk[t]] \in {"magic", "data"}

\* The pool is taken down when every thread has ended, and keeps nothing.
DestroyInv ==
    mp_srv = "destroyed" => heap = {} /\ \A t \in Threads : pc[t] = "exit"

IInv ==
    /\ TypeOK /\ EachBlockInOnePlace /\ ListInv /\ OwnerInv /\ GuardInv /\ DestroyInv
    /\ NoUnprovokedAbort
=============================================================================
