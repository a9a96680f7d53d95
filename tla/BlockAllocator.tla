--------------------------- MODULE BlockAllocator ---------------------------
(***************************************************************************)
(* What a memory pool promises its callers: a block it hands out belongs   *)
(* to nobody else until the caller gives it back.  Where the memory of the *)
(* blocks comes from, and how free ones are kept, is left open.            *)
(***************************************************************************)
CONSTANTS Callers, Blocks

VARIABLE held           (* the blocks that each caller owns                 *)

AllocatorInit == held = [c \in Callers |-> {}]

Allocate(c, b) ==
    /\ \A other \in Callers : b \notin held[other]
    /\ held' = [held EXCEPT ![c] = @ \cup {b}]

Release(c, b) ==
    /\ b \in held[c]
    /\ held' = [held EXCEPT ![c] = @ \ {b}]

AllocatorNext == \E c \in Callers, b \in Blocks : Allocate(c, b) \/ Release(c, b)

AllocatorSpec == AllocatorInit /\ [][AllocatorNext]_held
=============================================================================
