----------------------------- MODULE BoundedLog -----------------------------
(***************************************************************************)
(* A log that keeps its newest Capacity entries and survives its program:  *)
(* what the black box of 3.tools/8.blackbox is for.  Of a save that was    *)
(* cut short a restart finds nothing, or the entries with some of them     *)
(* unreadable; never an entry in the wrong place or out of order.          *)
(***************************************************************************)
EXTENDS Integers, Sequences

CONSTANTS Capacity, Entries, Unknown

VARIABLES entries,      (* what the program would export                    *)
          durable       (* what a restart would find                        *)

logVars == <<entries, durable>>

\* The newest Capacity of the entries of s.
Newest(s) == IF Len(s) <= Capacity THEN s ELSE Tail(s)

\* s with some of its entries unreadable.
Damaged(s, t) ==
    /\ Len(t) = Len(s)
    /\ \A k \in 1..Len(s) : t[k] \in {s[k], Unknown}

LogInit == entries = <<>> /\ durable = <<>>

Record ==
    /\ \E e \in Entries : entries' = Newest(Append(entries, e))
    /\ UNCHANGED durable

Save ==
    /\ durable' = <<>> \/ Damaged(entries, durable')
    /\ UNCHANGED entries

Restart ==
    /\ entries' \in {<<>>, durable}
    /\ UNCHANGED durable

Clear ==
    /\ entries' = <<>>
    /\ durable' \in {<<>>, durable}

LogSpec == LogInit /\ [][Record \/ Save \/ Restart \/ Clear]_logVars
=============================================================================
