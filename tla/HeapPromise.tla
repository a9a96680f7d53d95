---------------------------- MODULE HeapPromise ----------------------------
(***************************************************************************)
(* What my_malloc and my_free promise: an allocation is a range of the     *)
(* pool at least as long as was asked for, that meets no other live one.   *)
(* live maps the address of each live range to the bytes asked for.        *)
(***************************************************************************)
EXTENDS Integers

CONSTANTS Pools,        (* the sizes a pool may have                        *)
          Requests,
          Addresses     (* where an allocation may begin                    *)

VARIABLES pool,         (* the size of this pool                            *)
          live

Apart(a, m, b, n) == a + m <= b \/ b + n <= a

HeapInit == pool \in Pools /\ live = [a \in {} |-> 0]

Allocate(a, n) ==
    /\ a + n <= pool
    /\ a \notin DOMAIN live
    /\ \A b \in DOMAIN live : Apart(a, n, b, live[b])
    /\ live' = [b \in DOMAIN live \cup {a} |-> IF b = a THEN n ELSE live[b]]
    /\ UNCHANGED pool

Free(a) ==
    /\ a \in DOMAIN live
    /\ live' = [b \in DOMAIN live \ {a} |-> live[b]]
    /\ UNCHANGED pool

HeapNext ==
    \/ \E a \in Addresses, n \in Requests : Allocate(a, n)
    \/ \E a \in DOMAIN live : Free(a)

HeapSpec == HeapInit /\ [][HeapNext]_<<pool, live>>
=============================================================================
