---------------------------- MODULE BoundedBuffer ----------------------------
(***************************************************************************)
(* The bounded buffer of 3.Thread/4.semaphore: one producer and one        *)
(* consumer thread, a ring of BUFFER_SIZE slots, two counting semaphores   *)
(* and a mutex.  demo.c keeps the semaphores in the process (sem_init);    *)
(* demo2.c opens them by name (sem_open with O_CREAT alone), so that they  *)
(* outlive a process that is killed before it has unlinked both names, one *)
(* after the other.  Named chooses between the two programs; both are      *)
(* otherwise the same, and the lines in the comments are those of demo.c.  *)
(* Each thread's control state is the call it is about to make: "wait"     *)
(* "lock" "access" "post" or "done".                                       *)
(***************************************************************************)
EXTENDS Integers, Sequences

CONSTANTS BUFFER_SIZE,
          Items,        (* both loops run Items times (10 in the code)      *)
          Named,        (* FALSE: demo.c, TRUE: demo2.c                     *)
          MaxCrashes    (* bound on how often the process is killed         *)

ASSUME BufferAssumption ==
    /\ BUFFER_SIZE \in Nat \ {0}
    /\ Items \in Nat \ {0}
    /\ Named \in BOOLEAN
    /\ MaxCrashes \in Nat

VARIABLES buffer, in, out,              (* in the memory of the process     *)
          empty_slots, filled_slots,    (* the two semaphores               *)
          mutex,                        (* "free", "producer" or "consumer" *)
          ppc, pi, cpc,                 (* threads' states, producer's i    *)
          consumed,                     (* the items the consumer took      *)
          unlinked,                     (* how many of the names are gone   *)
          crashes,
          torn                          (* history: how many of the crashes *)
                                        (* came between the two sem_unlink  *)

ofMain == <<unlinked, crashes, torn>>
vars == <<buffer, in, out, empty_slots, filled_slots, mutex, ppc, pi, cpc,
          consumed, ofMain>>

Slots == 0..(BUFFER_SIZE - 1)

\* The memory of a new process: static storage is zero, both threads start.
NewProcess(b, i, o, m, p, k, c, s) ==
    /\ b = [slot \in Slots |-> 0] /\ i = 0 /\ o = 0
    /\ m = "free" /\ p = "wait" /\ k = 0 /\ c = "wait" /\ s = <<>>

Init ==
    /\ NewProcess(buffer, in, out, mutex, ppc, pi, cpc, consumed)
    /\ empty_slots = BUFFER_SIZE
    /\ filled_slots = 0
    /\ unlinked = 0 /\ crashes = 0 /\ torn = 0

-----------------------------------------------------------------------------
\* Mutant: the producer takes a failed sem_trywait for a success.
ProducerWaitNot ==
    /\ ppc = "wait"
    /\ empty_slots' = IF empty_slots > 0 THEN empty_slots - 1 ELSE empty_slots
    /\ ppc' = "lock"
    /\ UNCHANGED <<buffer, in, out, filled_slots, mutex, pi, cpc, consumed, ofMain>>

\* Line 48: sem_wait(&empty_slots).
ProducerWait ==
    /\ ppc = "wait" /\ empty_slots > 0
    /\ empty_slots' = empty_slots - 1
    /\ ppc' = "lock"
    /\ UNCHANGED <<buffer, in, out, filled_slots, mutex, pi, cpc, consumed, ofMain>>

\* Line 51.
ProducerLock ==
    /\ ppc = "lock" /\ mutex = "free"
    /\ mutex' = "producer"
    /\ ppc' = "access"
    /\ UNCHANGED <<buffer, in, out, empty_slots, filled_slots, pi, cpc, consumed, ofMain>>

\* Lines 54-59: the item is stored, in advances, the mutex is released.
ProducerStore ==
    /\ ppc = "access"
    /\ buffer' = [buffer EXCEPT ![in] = pi]
    /\ in' = (in + 1) % BUFFER_SIZE
    /\ mutex' = "free"
    /\ ppc' = "post"
    /\ UNCHANGED <<out, empty_slots, filled_slots, pi, cpc, consumed, ofMain>>

\* Line 62, and on to the next round.
ProducerPost ==
    /\ ppc = "post"
    /\ filled_slots' = filled_slots + 1
    /\ pi' = pi + 1
    /\ ppc' = IF pi + 1 < Items THEN "wait" ELSE "done"
    /\ UNCHANGED <<buffer, in, out, empty_slots, mutex, cpc, consumed, ofMain>>

\* Line 78.
ConsumerWait ==
    /\ cpc = "wait" /\ filled_slots > 0
    /\ filled_slots' = filled_slots - 1
    /\ cpc' = "lock"
    /\ UNCHANGED <<buffer, in, out, empty_slots, mutex, ppc, pi, consumed, ofMain>>

\* Line 81.
ConsumerLock ==
    /\ cpc = "lock" /\ mutex = "free"
    /\ mutex' = "consumer"
    /\ cpc' = "access"
    /\ UNCHANGED <<buffer, in, out, empty_slots, filled_slots, ppc, pi, consumed, ofMain>>

\* Lines 84-89.
ConsumerFetch ==
    /\ cpc = "access"
    /\ consumed' = Append(consumed, buffer[out])
    /\ out' = (out + 1) % BUFFER_SIZE
    /\ mutex' = "free"
    /\ cpc' = "post"
    /\ UNCHANGED <<buffer, in, empty_slots, filled_slots, ppc, pi, ofMain>>

\* Line 92, and on to the next round.
ConsumerPost ==
    /\ cpc = "post"
    /\ empty_slots' = empty_slots + 1
    /\ cpc' = IF Len(consumed) < Items THEN "wait" ELSE "done"
    /\ UNCHANGED <<buffer, in, out, filled_slots, mutex, ppc, pi, consumed, ofMain>>

\* The joins of 116-117.
BothDone == ppc = "done" /\ cpc = "done"

\* demo2.c, lines 129-130: main removes one name and then the other.
Unlink ==
    /\ Named /\ BothDone /\ unlinked < 2
    /\ unlinked' = unlinked + 1
    /\ UNCHANGED <<buffer, in, out, empty_slots, filled_slots, mutex, ppc, pi, cpc,
                   consumed, crashes, torn>>

\* Mutant: the initial values count although the semaphore exists.
RestartAddsSlots ==
    /\ Named /\ crashes < MaxCrashes
    /\ crashes' = crashes + 1
    /\ torn' = IF unlinked = 1 THEN torn + 1 ELSE torn
    /\ unlinked' = 0
    /\ NewProcess(buffer', in', out', mutex', ppc', pi', cpc', consumed')
    /\ empty_slots' = BUFFER_SIZE
    /\ filled_slots' = IF unlinked < 2 THEN filled_slots ELSE 0

\* demo2.c: the process is killed, or ends, and is started again.  Its memory is
\* new; lines 107 and 108 open what semaphores there are, ignoring the initial
\* values, and make those whose names are gone.
CrashAndRestart ==
    /\ Named /\ crashes < MaxCrashes
    /\ crashes' = crashes + 1
    /\ torn' = IF unlinked = 1 THEN torn + 1 ELSE torn
    /\ unlinked' = 0
    /\ NewProcess(buffer', in', out', mutex', ppc', pi', cpc', consumed')
    /\ empty_slots' = IF unlinked = 0 THEN empty_slots ELSE BUFFER_SIZE
    /\ filled_slots' = IF unlinked < 2 THEN filled_slots ELSE 0

\* main has joined both threads, removed the names, and ends.
MainDone == BothDone /\ (Named => unlinked = 2)
Terminated == MainDone /\ UNCHANGED vars

producer == ProducerWait \/ ProducerLock \/ ProducerStore \/ ProducerPost
consumer == ConsumerWait \/ ConsumerLock \/ ConsumerFetch \/ ConsumerPost

Next == producer \/ consumer \/ Unlink \/ CrashAndRestart \/ Terminated

Spec == Init /\ [][Next]_vars
-----------------------------------------------------------------------------
\* The variables keep their types; the ring indices stay within the ring.
TypeOK ==
    /\ buffer \in [Slots -> 0..(Items - 1)]
    /\ in \in Slots /\ out \in Slots
    /\ empty_slots \in Nat /\ filled_slots \in Nat
    /\ mutex \in {"free", "producer", "consumer"}
    /\ ppc \in {"wait", "lock", "access", "post", "done"}
    /\ cpc \in {"wait", "lock", "access", "post", "done"}
    /\ pi \in 0..Items
    /\ consumed \in Seq(0..(Items - 1))
    /\ unlinked \in 0..2 /\ crashes \in Nat /\ torn \in Nat

InHand(pc) == IF pc \in {"lock", "access", "post"} THEN 1 ELSE 0

\* Every slot is accounted for: free, filled, or in the hands of a thread.  A
\* process that is killed takes the slots in its hands with it.  A restart makes
\* the semaphores count more than there are only when the kill came between
\* the two calls of sem_unlink: the next process then has all slots free and
\* those filled that an earlier kill had left behind.
SlotsConserved ==
    LET counted == empty_slots + filled_slots + InHand(ppc) + InHand(cpc) IN
    /\ crashes = 0 => counted = BUFFER_SIZE
    /\ counted <= BUFFER_SIZE + torn * BUFFER_SIZE

\* Items put into the ring so far, by this process.
Stored == pi + (IF ppc = "post" THEN 1 ELSE 0)

\* The ring between out and in, and the two counters, are a bounded channel: no
\* item is lost, repeated, overtaken, overwritten before it is read, or read
\* from an empty slot.  The channel lives as long as its process; what a process
\* that inherits the named semaphores of a killed one does is no channel.
Fifo == INSTANCE BoundedFifo WITH
          Capacity <- BUFFER_SIZE,
          channel  <- IF crashes > 0 THEN <<>>
                      ELSE [k \in 1..(Stored - Len(consumed)) |->
                              buffer[(out + k - 1) % BUFFER_SIZE]],
          sent     <- IF crashes > 0 THEN 0 ELSE Stored,
          received <- IF crashes > 0 THEN <<>> ELSE consumed

ImplementsBoundedFifo == Fifo!FifoSpec

(***************************************************************************)
(* The inductive invariant behind these, part by part.                     *)
(***************************************************************************)
\* Within its loop the producer has an item to put; the names are removed after
\* the loops.
LoopInv == (ppc # "done" => pi < Items) /\ (unlinked > 0 => BothDone)

\* What of the ring's items no consumer has claimed, and of its free slots no
\* producer, is what the semaphores count and what a thread has yet to post.
If(test) == IF test THEN 1 ELSE 0
CountInv ==
    crashes = 0 =>
        /\ Len(consumed) <= Stored
        /\ Stored - Len(consumed) =
             filled_slots + If(cpc \in {"lock", "access"}) + If(ppc = "post")
        /\ BUFFER_SIZE - (Stored - Len(consumed)) =
             empty_slots + If(ppc \in {"lock", "access"}) + If(cpc = "post")

\* in and out are the two ends of what the ring holds.
EndsInv ==
    crashes = 0 => in = (out + (Stored - Len(consumed))) % BUFFER_SIZE

IInv == TypeOK /\ LoopInv /\ SlotsConserved /\ CountInv /\ EndsInv
=============================================================================
