----------------------------- MODULE BoundedFifo -----------------------------
(***************************************************************************)
(* A first-in first-out channel of at most Capacity items between one      *)
(* sender and one receiver: what the bounded buffers of the semaphore      *)
(* demos are for.  The sender puts 0, 1, 2, ...                            *)
(***************************************************************************)
EXTENDS Naturals, Sequences

CONSTANTS Capacity, Items

VARIABLES channel,      (* the items put and not yet taken                  *)
          sent,         (* how many items were put                          *)
          received      (* the items taken, in order                        *)

fifoVars == <<channel, sent, received>>

FifoInit == channel = <<>> /\ sent = 0 /\ received = <<>>

Put ==
    /\ sent < Items
    /\ Len(channel) < Capacity
    /\ channel' = Append(channel, sent)
    /\ sent' = sent + 1
    /\ UNCHANGED received

Take ==
    /\ channel # <<>>
    /\ received' = Append(received, Head(channel))
    /\ channel' = Tail(channel)
    /\ UNCHANGED sent

\* The channel's owner dies, and with it what was under way.
Lose ==
    /\ channel' = <<>>
    /\ sent' = 0
    /\ received' = <<>>

FifoSpec == FifoInit /\ [][Put \/ Take \/ Lose]_fifoVars
=============================================================================
