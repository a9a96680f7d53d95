-------------------------- MODULE PosixDemos_proofs --------------------------
(***************************************************************************)
(* The small programs that have a module of their own, for every value of  *)
(* the constants: the bounded buffer, the black box, the directory tree,   *)
(* the timers and the configuration file; then the collection of all of    *)
(* them, in which each runs by itself; and last the demos of calls, none   *)
(* of which uses what was destroyed.                                       *)
(***************************************************************************)
EXTENDS PosixDemos, SequenceTheorems, FiniteSetTheorems, NaturalsInduction,
        WellFoundedInduction, TLAPS

-----------------------------------------------------------------------------
(***************************************************************************)
(* The bounded buffer: no slot is lost or handed out twice, and it is a    *)
(* bounded queue.                                                          *)
(***************************************************************************)

\* The first process starts with an empty ring.
LEMMA InitRing == Init => IInv
<1> SUFFICES ASSUME Init PROVE IInv
  OBVIOUS
<1> USE BufferAssumption DEF Init, NewProcess
<1>1. TypeOK
  <2>1. 0 \in Slots /\ 0 \in 0..(Items - 1)
    BY DEF Slots
  <2>2. consumed \in Seq(0..(Items - 1))
    OBVIOUS
  <2> QED BY <2>1, <2>2 DEF TypeOK
<1>2. LoopInv /\ SlotsConserved
  BY DEF LoopInv, SlotsConserved, InHand
<1>3. Stored = 0 /\ Len(consumed) = 0
  BY DEF Stored
<1>4. CountInv
  <2>1. /\ If(cpc \in {"lock", "access"}) = 0 /\ If(cpc = "post") = 0
        /\ If(ppc \in {"lock", "access"}) = 0 /\ If(ppc = "post") = 0
    BY DEF If
  <2>2. empty_slots = BUFFER_SIZE /\ filled_slots = 0
    OBVIOUS
  <2> QED BY <1>3, <2>1, <2>2 DEF CountInv
<1>5. EndsInv
  <2>1. 0 % BUFFER_SIZE = 0
    OBVIOUS
  <2> QED BY <1>3, <2>1 DEF EndsInv
<1> QED BY <1>1, <1>2, <1>4, <1>5 DEF IInv

\* Each thread's step keeps the variables within their types.
LEMMA RingTypeStep == IInv /\ [Next]_vars => TypeOK' /\ LoopInv'
<1> SUFFICES ASSUME IInv, [Next]_vars PROVE TypeOK' /\ LoopInv'
  OBVIOUS
<1>0. TypeOK /\ LoopInv /\ BUFFER_SIZE \in Nat \ {0} /\ Items \in Nat \ {0}
  BY BufferAssumption DEF IInv
<1> USE <1>0 DEF TypeOK, LoopInv, Slots, BothDone, ofMain
<1>1. CASE ProducerWait
  BY <1>1 DEF ProducerWait
<1>2. CASE ProducerLock
  BY <1>2 DEF ProducerLock
<1>3. CASE ProducerStore
  <2>1. pi \in 0..(Items - 1) /\ in' \in Slots
    BY <1>3 DEF ProducerStore
  <2>2. buffer' \in [Slots -> 0..(Items - 1)]
    BY <1>3, <2>1 DEF ProducerStore
  <2> QED BY <1>3, <2>1, <2>2 DEF ProducerStore
<1>4. CASE ProducerPost
  BY <1>4 DEF ProducerPost
<1>5. CASE ConsumerWait
  BY <1>5 DEF ConsumerWait
<1>6. CASE ConsumerLock
  BY <1>6 DEF ConsumerLock
<1>7. CASE ConsumerFetch
  <2>1. buffer[out] \in 0..(Items - 1) /\ out' \in Slots
    BY <1>7 DEF ConsumerFetch
  <2>2. consumed' \in Seq(0..(Items - 1))
    BY <1>7, <2>1 DEF ConsumerFetch
  <2> QED BY <1>7, <2>1, <2>2 DEF ConsumerFetch
<1>8. CASE ConsumerPost
  BY <1>8 DEF ConsumerPost
<1>9. CASE CrashAndRestart
  <2>1. buffer' \in [Slots -> 0..(Items - 1)] /\ consumed' \in Seq(0..(Items - 1))
    BY <1>9 DEF CrashAndRestart, NewProcess
  <2>2. /\ crashes' \in Nat /\ torn' \in Nat /\ unlinked' = 0
        /\ empty_slots' \in Nat /\ filled_slots' \in Nat
    BY <1>9 DEF CrashAndRestart
  <2> QED BY <1>9, <2>1, <2>2 DEF CrashAndRestart, NewProcess
<1>10. CASE Unlink
  BY <1>10 DEF Unlink
<1>11. CASE Terminated \/ UNCHANGED vars
  BY <1>11 DEF Terminated, vars
<1> QED
  BY <1>1, <1>2, <1>3, <1>4, <1>5, <1>6, <1>7, <1>8, <1>9, <1>10, <1>11
  DEF Next, producer, consumer

\* A thread moves a slot between a semaphore and its hands; a killed process
\* drops what is in its hands, and nobody puts it back.  The next process makes
\* the semaphores whose names are gone: if that is the first of them only, it
\* adds the free slots of a whole ring to what the second still counts.
LEMMA SlotsStep == IInv /\ [Next]_vars => SlotsConserved'
<1> SUFFICES ASSUME IInv, [Next]_vars PROVE SlotsConserved'
  OBVIOUS
<1>0. /\ SlotsConserved /\ BUFFER_SIZE \in Nat \ {0}
      /\ empty_slots \in Nat /\ filled_slots \in Nat /\ crashes \in Nat
      /\ torn \in Nat /\ unlinked \in 0..2
  BY BufferAssumption DEF IInv, TypeOK
<1> USE <1>0 DEF SlotsConserved, InHand, ofMain
<1>1. CASE ProducerWait
  BY <1>1 DEF ProducerWait
<1>2. CASE ProducerLock
  BY <1>2 DEF ProducerLock
<1>3. CASE ProducerStore
  BY <1>3 DEF ProducerStore
<1>4. CASE ProducerPost
  BY <1>4 DEF ProducerPost
<1>5. CASE ConsumerWait
  BY <1>5 DEF ConsumerWait
<1>6. CASE ConsumerLock
  BY <1>6 DEF ConsumerLock
<1>7. CASE ConsumerFetch
  BY <1>7 DEF ConsumerFetch
<1>8. CASE ConsumerPost
  BY <1>8 DEF ConsumerPost
<1>9. CASE CrashAndRestart
  <2> DEFINE more == torn * BUFFER_SIZE
  <2>1. more \in Nat /\ (torn + 1) * BUFFER_SIZE = more + BUFFER_SIZE
    OBVIOUS
  <2>2. /\ crashes' = crashes + 1 /\ ppc' = "wait" /\ cpc' = "wait"
        /\ torn' = (IF unlinked = 1 THEN torn + 1 ELSE torn)
        /\ empty_slots' = (IF unlinked = 0 THEN empty_slots ELSE BUFFER_SIZE)
        /\ filled_slots' = (IF unlinked < 2 THEN filled_slots ELSE 0)
    BY <1>9 DEF CrashAndRestart, NewProcess
  <2>3. empty_slots + filled_slots <= BUFFER_SIZE + more
    OBVIOUS
  <2>4. /\ crashes' # 0 /\ torn' * BUFFER_SIZE = (IF unlinked = 1 THEN more + BUFFER_SIZE ELSE more)
        /\ InHand(ppc') = 0 /\ InHand(cpc') = 0
    BY <2>1, <2>2
  <2> HIDE DEF more
  <2>5. empty_slots' + filled_slots' <= BUFFER_SIZE + torn' * BUFFER_SIZE
    <3>1. CASE unlinked = 0
      BY <2>1, <2>2, <2>3, <2>4, <3>1
    <3>2. CASE unlinked = 1
      BY <2>1, <2>2, <2>3, <2>4, <3>2
    <3>3. CASE unlinked = 2
      BY <2>1, <2>2, <2>3, <2>4, <3>3
    <3> QED BY <3>1, <3>2, <3>3
  <2> QED BY <2>2, <2>4, <2>5
<1>10. CASE Unlink
  BY <1>10 DEF Unlink
<1>11. CASE Terminated \/ UNCHANGED vars
  BY <1>11 DEF Terminated, vars
<1> QED
  BY <1>1, <1>2, <1>3, <1>4, <1>5, <1>6, <1>7, <1>8, <1>9, <1>10, <1>11
  DEF Next, producer, consumer

\* What is in the ring is counted by the semaphores and the threads' positions.
LEMMA CountStep == IInv /\ [Next]_vars => CountInv'
<1> SUFFICES ASSUME IInv, [Next]_vars, crashes' = 0 PROVE CountInv'
  BY DEF CountInv
<1>0. /\ BUFFER_SIZE \in Nat \ {0}
      /\ empty_slots \in Nat /\ filled_slots \in Nat /\ crashes \in Nat
      /\ pi \in Nat /\ consumed \in Seq(0..(Items - 1)) /\ Len(consumed) \in Nat
      /\ out \in Slots /\ buffer \in [Slots -> 0..(Items - 1)]
  BY BufferAssumption DEF IInv, TypeOK
<1>1. crashes = 0 /\ ~CrashAndRestart
  BY <1>0, SMT DEF Next, vars, producer, consumer, ProducerWait, ProducerLock,
     ProducerStore, ProducerPost, ConsumerWait, ConsumerLock, ConsumerFetch,
     ConsumerPost, Unlink, CrashAndRestart, Terminated, ofMain
<1>2. CountInv
  BY DEF IInv
<1> USE <1>0, <1>1, <1>2 DEF CountInv, ofMain
<1>3. CASE ProducerWait
  BY <1>3 DEF ProducerWait, If, Stored
<1>4. CASE ProducerLock
  BY <1>4 DEF ProducerLock, If, Stored
<1>5. CASE ProducerStore
  BY <1>5 DEF ProducerStore, If, Stored
<1>6. CASE ProducerPost
  BY <1>6 DEF ProducerPost, If, Stored
<1>7. CASE ConsumerWait
  BY <1>7 DEF ConsumerWait, If, Stored
<1>8. CASE ConsumerLock
  BY <1>8 DEF ConsumerLock, If, Stored
<1>9. CASE ConsumerFetch
  <2>1. /\ Len(consumed') = Len(consumed) + 1 /\ cpc = "access" /\ cpc' = "post"
        /\ ppc' = ppc /\ pi' = pi /\ empty_slots' = empty_slots
        /\ filled_slots' = filled_slots
    BY <1>9 DEF ConsumerFetch
  <2>2. /\ If(cpc \in {"lock", "access"}) = 1 /\ If(cpc' \in {"lock", "access"}) = 0
        /\ If(cpc = "post") = 0 /\ If(cpc' = "post") = 1
        /\ If(ppc = "post") \in {0, 1} /\ If(ppc \in {"lock", "access"}) \in {0, 1}
    BY <2>1 DEF If
  <2>3. Stored' = Stored /\ Stored \in Nat
    BY <2>1 DEF Stored
  <2>4. Len(consumed') <= Stored'
    <3>1. /\ Stored - Len(consumed) = filled_slots + If(cpc \in {"lock", "access"}) + If(ppc = "post")
          /\ Len(consumed) <= Stored
      BY <1>1
    <3>2. Stored - Len(consumed) >= 1
      BY <2>2, <3>1
    <3> QED BY <2>1, <2>3, <3>2
  <2> QED BY <2>1, <2>2, <2>3, <2>4
<1>10. CASE ConsumerPost
  <2>1. /\ Len(consumed') = Len(consumed) /\ cpc = "post"
        /\ cpc' \in {"wait", "done"} /\ ppc' = ppc /\ pi' = pi
        /\ empty_slots' = empty_slots + 1 /\ filled_slots' = filled_slots
    BY <1>10 DEF ConsumerPost
  <2>2. /\ If(cpc \in {"lock", "access"}) = 0 /\ If(cpc' \in {"lock", "access"}) = 0
        /\ If(cpc = "post") = 1 /\ If(cpc' = "post") = 0
        /\ If(ppc = "post") \in {0, 1} /\ If(ppc \in {"lock", "access"}) \in {0, 1}
    BY <2>1 DEF If
  <2>3. Stored' = Stored /\ Stored \in Nat
    BY <2>1 DEF Stored
  <2> QED BY <2>1, <2>2, <2>3
<1>11. CASE Terminated \/ UNCHANGED vars
  <2>1. UNCHANGED vars /\ Stored' = Stored
    BY <1>11 DEF Terminated, vars, Stored
  <2> QED BY <2>1 DEF vars
<1>12. CASE Unlink
  <2>1. Stored' = Stored
    BY <1>12 DEF Unlink, Stored
  <2> QED BY <1>12, <2>1 DEF Unlink
<1> QED
  BY <1>3, <1>4, <1>5, <1>6, <1>7, <1>8, <1>9, <1>10, <1>11, <1>12
  DEF Next, producer, consumer

\* Going round the ring once.
Wrapped(x) == IF x < BUFFER_SIZE THEN x ELSE x - BUFFER_SIZE

LEMMA RoundTheBuffer ==
    ASSUME NEW x \in 0..(2 * BUFFER_SIZE - 1)
    PROVE  x % BUFFER_SIZE = Wrapped(x)
<1>0. BUFFER_SIZE \in Nat \ {0}
  BY BufferAssumption
<1>1. CASE x < BUFFER_SIZE
  BY <1>0, <1>1 DEF Wrapped
<1>2. CASE ~(x < BUFFER_SIZE)
  <2> DEFINE y == x - BUFFER_SIZE
  <2>1. y \in 0..(BUFFER_SIZE - 1) /\ x = y + BUFFER_SIZE
    BY <1>0, <1>2
  <2> HIDE DEF y
  <2>2. (y + BUFFER_SIZE) % BUFFER_SIZE = y
    BY <1>0, <2>1
  <2> QED BY <1>2, <2>1, <2>2 DEF y, Wrapped
<1> QED BY <1>1, <1>2

\* What the invariant says of the ring's two ends, without the remainder.
LEMMA Ends ==
    ASSUME IInv, crashes = 0
    PROVE  /\ in \in Slots /\ out \in Slots
           /\ Stored - Len(consumed) \in 0..BUFFER_SIZE
           /\ in = Wrapped(out + (Stored - Len(consumed)))
           /\ ppc = "access" => Stored - Len(consumed) < BUFFER_SIZE
           /\ cpc = "access" => Stored - Len(consumed) > 0
<1>1. /\ BUFFER_SIZE \in Nat \ {0} /\ in \in Slots /\ out \in Slots
      /\ empty_slots \in Nat /\ filled_slots \in Nat
      /\ pi \in Nat /\ Len(consumed) \in Nat /\ Stored \in Nat
  BY BufferAssumption DEF IInv, TypeOK, Stored
<1> DEFINE n == Stored - Len(consumed)
<1>2. n \in 0..BUFFER_SIZE /\ (ppc = "access" => n < BUFFER_SIZE)
      /\ (cpc = "access" => n > 0)
  BY <1>1 DEF IInv, CountInv, If
<1>3. in = (out + n) % BUFFER_SIZE
  BY DEF IInv, EndsInv
<1> HIDE DEF n
<1>4. out + n \in 0..(2 * BUFFER_SIZE - 1)
  BY <1>1, <1>2 DEF Slots
<1>5. in = Wrapped(out + n)
  BY <1>3, <1>4, RoundTheBuffer
<1> QED BY <1>1, <1>2, <1>5 DEF n

\* in moves when an item is stored, out when one is taken, each by one place.
LEMMA EndsStep == IInv /\ [Next]_vars => EndsInv'
<1> SUFFICES ASSUME IInv, [Next]_vars, crashes' = 0
             PROVE  in' = (out' + (Stored' - Len(consumed'))) % BUFFER_SIZE
  BY DEF EndsInv
<1>0. /\ pi \in Nat /\ Stored \in Nat /\ BUFFER_SIZE \in Nat \ {0}
      /\ consumed \in Seq(0..(Items - 1)) /\ Len(consumed) \in Nat
      /\ out \in Slots /\ buffer \in [Slots -> 0..(Items - 1)] /\ crashes \in Nat
  BY BufferAssumption DEF IInv, TypeOK, Stored
<1>1. crashes = 0 /\ ~CrashAndRestart
  BY <1>0, SMT DEF Next, vars, producer, consumer, ProducerWait, ProducerLock,
     ProducerStore, ProducerPost, ConsumerWait, ConsumerLock, ConsumerFetch,
     ConsumerPost, Unlink, CrashAndRestart, Terminated, ofMain
<1> DEFINE n == Stored - Len(consumed)
<1>2. /\ in \in 0..(BUFFER_SIZE - 1) /\ out \in 0..(BUFFER_SIZE - 1)
      /\ n \in 0..BUFFER_SIZE /\ in = Wrapped(out + n)
      /\ ppc = "access" => n < BUFFER_SIZE
      /\ cpc = "access" => n > 0
  BY <1>1, Ends DEF Slots
<1>3. CASE /\ in' = in /\ out' = out /\ consumed' = consumed /\ Stored' = Stored
  BY <1>1, <1>3 DEF IInv, EndsInv
<1>4. CASE ProducerStore
  <2>1. /\ Stored' = Stored + 1 /\ in' = (in + 1) % BUFFER_SIZE /\ out' = out
        /\ consumed' = consumed /\ n < BUFFER_SIZE
    BY <1>0, <1>2, <1>4 DEF ProducerStore, Stored
  <2>2. Stored' - Len(consumed') = n + 1
    BY <1>0, <2>1
  <2> HIDE DEF n
  <2>3. /\ in + 1 \in 0..(2 * BUFFER_SIZE - 1)
        /\ out + (n + 1) \in 0..(2 * BUFFER_SIZE - 1)
    BY <1>0, <1>2, <2>1
  <2>4. in' = Wrapped(in + 1)
    BY <2>1, <2>3, RoundTheBuffer
  <2>5. (out + (n + 1)) % BUFFER_SIZE = Wrapped(out + (n + 1))
    BY <2>3, RoundTheBuffer
  <2>6. Wrapped(in + 1) = Wrapped(out + (n + 1))
    BY <1>0, <1>2, <2>1 DEF Wrapped
  <2> QED BY <2>1, <2>2, <2>4, <2>5, <2>6
<1>5. CASE ConsumerFetch
  <2>1. /\ Len(consumed') = Len(consumed) + 1 /\ out' = (out + 1) % BUFFER_SIZE
        /\ Stored' = Stored /\ in' = in /\ n > 0
    BY <1>0, <1>2, <1>5 DEF ConsumerFetch, Stored
  <2>2. Stored' - Len(consumed') = n - 1
    BY <1>0, <2>1
  <2> HIDE DEF n
  <2>3. out + 1 \in 0..(2 * BUFFER_SIZE - 1)
    BY <1>0, <1>2
  <2>4. out' = Wrapped(out + 1)
    BY <2>1, <2>3, RoundTheBuffer
  <2>5. Wrapped(out + 1) + (n - 1) \in 0..(2 * BUFFER_SIZE - 1)
    BY <1>0, <1>2, <2>1 DEF Wrapped
  <2>6. (out' + (n - 1)) % BUFFER_SIZE = Wrapped(Wrapped(out + 1) + (n - 1))
    BY <2>4, <2>5, RoundTheBuffer
  <2>7. Wrapped(Wrapped(out + 1) + (n - 1)) = Wrapped(out + n)
    BY <1>0, <1>2, <2>1 DEF Wrapped
  <2> QED BY <1>2, <2>1, <2>2, <2>6, <2>7
<1>6. CASE ProducerWait \/ ProducerLock \/ ProducerPost
  BY <1>0, <1>3, <1>6 DEF ProducerWait, ProducerLock, ProducerPost, Stored
<1>7. CASE ConsumerWait \/ ConsumerLock \/ ConsumerPost
  BY <1>3, <1>7 DEF ConsumerWait, ConsumerLock, ConsumerPost, Stored
<1>8. CASE Unlink \/ Terminated \/ UNCHANGED vars
  BY <1>3, <1>8 DEF Unlink, Terminated, vars, Stored
<1> QED BY <1>1, <1>4, <1>5, <1>6, <1>7, <1>8 DEF Next, producer, consumer

\* IInv holds in every state of every behaviour of the two programs.
THEOREM RingInvariance == Spec => []IInv
<1>1. IInv /\ [Next]_vars => IInv'
  BY RingTypeStep, SlotsStep, CountStep, EndsStep DEF IInv
<1> QED BY InitRing, <1>1, PTL DEF Spec

\* The variables of the buffer keep their types.
THEOREM RingTypeCorrect == Spec => []TypeOK
<1>1. IInv => TypeOK
  BY DEF IInv
<1> QED BY RingInvariance, <1>1, PTL

\* Without a crash the semaphores and the two threads account for BUFFER_SIZE
\* slots; with crashes they never count more, but for those that came between
\* the two calls of sem_unlink, each of which may add BUFFER_SIZE.
THEOREM SlotsConservedHolds == Spec => []SlotsConserved
<1>1. IInv => SlotsConserved
  BY DEF IInv
<1> QED BY RingInvariance, <1>1, PTL

-----------------------------------------------------------------------------
\* What the ring holds, oldest first.
Held == [k \in 1..(Stored - Len(consumed)) |->
           buffer[(out + k - 1) % BUFFER_SIZE]]

LEMMA HeldIsASeq ==
    ASSUME IInv, crashes = 0
    PROVE  /\ Held \in Seq(0..(Items - 1)) /\ Len(Held) = Stored - Len(consumed)
           /\ Stored - Len(consumed) \in Nat
<1>1. /\ Stored - Len(consumed) \in Nat /\ out \in Nat /\ BUFFER_SIZE \in Nat \ {0}
      /\ buffer \in [Slots -> 0..(Items - 1)]
  BY BufferAssumption DEF IInv, TypeOK, CountInv, Stored, Slots
<1>2. \A k \in 1..(Stored - Len(consumed)) :
        buffer[(out + k - 1) % BUFFER_SIZE] \in 0..(Items - 1)
  <2> TAKE k \in 1..(Stored - Len(consumed))
  <2>1. out + k - 1 \in Nat
    BY <1>1
  <2>2. (out + k - 1) % BUFFER_SIZE \in Slots
    BY <1>1, <2>1 DEF Slots
  <2> QED BY <1>1, <2>2
<1>3. Held \in [1..(Stored - Len(consumed)) -> 0..(Items - 1)]
  BY <1>2 DEF Held
<1>4. Held \in Seq(0..(Items - 1))
  BY <1>1, <1>3, SeqDef
<1> QED BY <1>1, <1>3, <1>4, LenProperties

\* The slots that hold items are none of them the one at in, while the producer
\* may store there.
LEMMA InIsFree ==
    ASSUME IInv, crashes = 0, ppc = "access",
           NEW k \in 1..(Stored - Len(consumed))
    PROVE  (out + k - 1) % BUFFER_SIZE # in
<1> DEFINE n == Stored - Len(consumed)
<1>1. /\ BUFFER_SIZE \in Nat \ {0} /\ n \in Nat /\ k \in 1..n /\ n < BUFFER_SIZE
      /\ out \in 0..(BUFFER_SIZE - 1) /\ in = Wrapped(out + n)
  BY BufferAssumption, Ends DEF Slots
<1> HIDE DEF n
<1>2. out + k - 1 \in 0..(2 * BUFFER_SIZE - 1)
  BY <1>1
<1>3. (out + k - 1) % BUFFER_SIZE = Wrapped(out + k - 1)
  BY <1>2, RoundTheBuffer
<1>4. Wrapped(out + k - 1) # Wrapped(out + n)
  BY <1>1 DEF Wrapped
<1> QED BY <1>1, <1>3, <1>4

\* A store puts the producer's next item behind those the ring holds.
LEMMA StoreAppends ==
    ASSUME IInv, crashes = 0, ProducerStore
    PROVE  /\ Held' = Append(Held, Stored) /\ Stored' = Stored + 1
           /\ Stored < Items /\ Len(Held) < BUFFER_SIZE
<1> DEFINE n == Stored - Len(consumed)
<1>0. /\ BUFFER_SIZE \in Nat \ {0} /\ Stored \in Nat /\ Len(consumed) \in Nat
      /\ Stored = pi /\ pi \in 0..(Items - 1) /\ n \in 0..(BUFFER_SIZE - 1)
      /\ out \in 0..(BUFFER_SIZE - 1) /\ in = Wrapped(out + n) /\ ppc = "access"
      /\ buffer \in [Slots -> 0..(Items - 1)] /\ in \in Slots
  <2>1. ppc = "access" /\ Stored = pi /\ pi \in 0..(Items - 1) /\ Len(consumed) \in Nat
    BY BufferAssumption DEF ProducerStore, Stored, IInv, TypeOK, LoopInv
  <2>2. n \in 0..BUFFER_SIZE /\ n < BUFFER_SIZE
    BY <2>1, Ends
  <2> QED BY <2>1, <2>2, Ends, BufferAssumption DEF Slots, IInv, TypeOK
<1>1. /\ buffer' = [buffer EXCEPT ![in] = pi] /\ out' = out /\ consumed' = consumed
      /\ Stored' = Stored + 1
  BY <1>0 DEF ProducerStore, Stored
<1>2. Held \in Seq(0..(Items - 1)) /\ Len(Held) = n
  BY HeldIsASeq
<1>3. Append(Held, Stored) \in [1..(n + 1) -> 0..(Items - 1)]
  <2>1. /\ Append(Held, Stored) \in Seq(0..(Items - 1))
        /\ Len(Append(Held, Stored)) = n + 1
    BY <1>0, <1>2
  <2> QED BY <2>1, LenProperties
<1>4. Stored' - Len(consumed') = n + 1
  BY <1>0, <1>1
<1>5. ASSUME NEW k \in 1..(n + 1)
      PROVE  Append(Held, Stored)[k] = buffer'[(out + k - 1) % BUFFER_SIZE]
  <2>1. CASE k = n + 1
    <3>1. out + k - 1 = out + n /\ out + n \in 0..(2 * BUFFER_SIZE - 1)
      BY <1>0, <2>1
    <3>2. (out + k - 1) % BUFFER_SIZE = in
      BY <1>0, <3>1, RoundTheBuffer
    <3>3. Append(Held, Stored)[k] = Stored
      BY <1>0, <1>2, <2>1
    <3> QED BY <1>0, <1>1, <3>2, <3>3
  <2>2. CASE k \in 1..n
    <3>1. Append(Held, Stored)[k] = Held[k]
      BY <1>0, <1>2, <2>2
    <3>2. Held[k] = buffer[(out + k - 1) % BUFFER_SIZE]
      BY <2>2 DEF Held
    <3>3. (out + k - 1) % BUFFER_SIZE # in
      BY <1>0, <2>2, InIsFree
    <3>4. (out + k - 1) % BUFFER_SIZE \in Slots
      <4>1. out + k - 1 \in Nat
        BY <1>0
      <4> QED BY <1>0, <4>1 DEF Slots
    <3> QED BY <1>0, <1>1, <3>1, <3>2, <3>3, <3>4
  <2>3. k = n + 1 \/ k \in 1..n
    <3> HIDE DEF n
    <3> QED BY <1>0
  <2> QED BY <2>1, <2>2, <2>3
<1>6. Held' = [k \in 1..(n + 1) |-> buffer'[(out + k - 1) % BUFFER_SIZE]]
  BY <1>1, <1>4 DEF Held
<1>7. Held' = Append(Held, Stored)
  <2> HIDE DEF n
  <2> QED BY <1>3, <1>5, <1>6
<1> QED BY <1>0, <1>1, <1>2, <1>7, BufferAssumption

\* A fetch takes the oldest item the ring holds.
LEMMA FetchTakes ==
    ASSUME IInv, crashes = 0, ConsumerFetch
    PROVE  /\ Held # <<>> /\ Held' = Tail(Held) /\ Stored' = Stored
           /\ consumed' = Append(consumed, Head(Held))
<1> DEFINE n == Stored - Len(consumed)
<1>0. /\ BUFFER_SIZE \in Nat \ {0} /\ Stored \in Nat /\ Len(consumed) \in Nat
      /\ n \in 1..BUFFER_SIZE /\ out \in 0..(BUFFER_SIZE - 1)
      /\ buffer \in [Slots -> 0..(Items - 1)] /\ consumed \in Seq(0..(Items - 1))
  <2>1. cpc = "access" /\ pi \in Nat /\ Stored \in Nat /\ Len(consumed) \in Nat
    BY DEF ConsumerFetch, Stored, IInv, TypeOK
  <2>2. n \in 0..BUFFER_SIZE /\ n > 0
    BY <2>1, Ends
  <2> QED BY <2>1, <2>2, Ends, BufferAssumption DEF Slots, IInv, TypeOK
<1>1. /\ buffer' = buffer /\ out' = (out + 1) % BUFFER_SIZE /\ Stored' = Stored
      /\ consumed' = Append(consumed, buffer[out])
  BY DEF ConsumerFetch, Stored
<1>2. Held \in Seq(0..(Items - 1)) /\ Len(Held) = n
  BY HeldIsASeq
<1>3. Held # <<>> /\ Head(Held) = buffer[out]
  <2>1. Held[1] = buffer[(out + 1 - 1) % BUFFER_SIZE]
    BY <1>0 DEF Held
  <2>2. out + 1 - 1 = out /\ out % BUFFER_SIZE = out
    BY <1>0
  <2> QED BY <1>0, <1>2, <2>1, <2>2
<1>4. buffer[out] \in 0..(Items - 1) /\ Len(consumed') = Len(consumed) + 1
  BY <1>0, <1>1 DEF Slots
<1>5. Stored' - Len(consumed') = n - 1
  BY <1>0, <1>1, <1>4
<1>6. Tail(Held) \in [1..(n - 1) -> 0..(Items - 1)]
  <2>1. Tail(Held) \in Seq(0..(Items - 1)) /\ Len(Tail(Held)) = n - 1
    BY <1>0, <1>2, <1>3
  <2> QED BY <2>1, LenProperties
<1>7. ASSUME NEW k \in 1..(n - 1)
      PROVE  Tail(Held)[k] = buffer[(out' + k - 1) % BUFFER_SIZE]
  <2>1. Tail(Held)[k] = Held[k + 1] /\ k + 1 \in 1..n
    BY <1>0, <1>2, <1>3
  <2>2. Held[k + 1] = buffer[(out + (k + 1) - 1) % BUFFER_SIZE]
    BY <2>1 DEF Held
  <2> HIDE DEF n
  <2>3. /\ out + 1 \in 0..(2 * BUFFER_SIZE - 1)
        /\ out + (k + 1) - 1 \in 0..(2 * BUFFER_SIZE - 1)
    BY <1>0
  <2>4. out' = Wrapped(out + 1)
    BY <1>1, <2>3, RoundTheBuffer
  <2>5. (out + (k + 1) - 1) % BUFFER_SIZE = Wrapped(out + (k + 1) - 1)
    BY <2>3, RoundTheBuffer
  <2>6. out' + k - 1 \in 0..(2 * BUFFER_SIZE - 1)
    BY <1>0, <2>4 DEF Wrapped
  <2>7. (out' + k - 1) % BUFFER_SIZE = Wrapped(out' + k - 1)
    BY <2>6, RoundTheBuffer
  <2>8. Wrapped(Wrapped(out + 1) + k - 1) = Wrapped(out + (k + 1) - 1)
    BY <1>0 DEF Wrapped
  <2> QED BY <2>1, <2>2, <2>4, <2>5, <2>7, <2>8
<1>8. Held' = [k \in 1..(n - 1) |-> buffer[(out' + k - 1) % BUFFER_SIZE]]
  BY <1>1, <1>5 DEF Held
<1>9. Held' = Tail(Held)
  <2> HIDE DEF n
  <2> QED BY <1>6, <1>7, <1>8
<1> QED BY <1>1, <1>3, <1>9

\* The semaphores let a store happen only when the channel has room and a fetch
\* only when it holds an item; nothing else changes the channel, but a crash.
THEOREM ImplementsBoundedFifoHolds == Spec => ImplementsBoundedFifo
<1> DEFINE channel == IF crashes > 0 THEN <<>> ELSE Held
           sent == IF crashes > 0 THEN 0 ELSE Stored
           received == IF crashes > 0 THEN <<>> ELSE consumed
<1>0. Fifo!fifoVars = <<channel, sent, received>>
  BY DEF Fifo!fifoVars, Held
<1>1. Init => Fifo!FifoInit
  <2> SUFFICES ASSUME Init PROVE Fifo!FifoInit
    OBVIOUS
  <2>1. /\ crashes = 0 /\ consumed = <<>> /\ pi = 0 /\ ppc = "wait"
    BY DEF Init, NewProcess
  <2>2. Stored = 0 /\ Len(consumed) = 0
    BY <2>1 DEF Stored
  <2>3. Stored - Len(consumed) = 0
    BY <2>2
  <2>4. Held = <<>>
    BY <2>3 DEF Held
  <2> QED BY <2>1, <2>2, <2>4 DEF Fifo!FifoInit, Held
<1>2. IInv /\ [Next]_vars => [Fifo!Put \/ Fifo!Take \/ Fifo!Lose]_(Fifo!fifoVars)
  <2> SUFFICES ASSUME IInv, [Next]_vars
               PROVE  [Fifo!Put \/ Fifo!Take \/ Fifo!Lose]_(Fifo!fifoVars)
    OBVIOUS
  <2> USE DEF ofMain
  <2>0. crashes \in Nat
    BY DEF IInv, TypeOK
  <2>1. CASE /\ buffer' = buffer /\ out' = out /\ consumed' = consumed
             /\ Stored' = Stored /\ crashes' = crashes
    BY <1>0, <2>1 DEF Fifo!fifoVars
  <2>2. CASE crashes > 0 /\ crashes' = crashes
    BY <2>2 DEF Fifo!fifoVars
  <2>3. CASE ProducerStore
    <3>1. crashes' = crashes /\ consumed' = consumed
      BY <2>3 DEF ProducerStore
    <3>2. CASE crashes = 0
      <4>1. /\ Held' = Append(Held, Stored) /\ Stored' = Stored + 1
            /\ Stored < Items /\ Len(Held) < BUFFER_SIZE
        BY <2>3, <3>2, StoreAppends
      <4>2. /\ channel = Held /\ channel' = Held' /\ sent = Stored
            /\ sent' = Stored' /\ received = consumed /\ received' = consumed'
        BY <3>1, <3>2
      <4>3. Fifo!Put
        BY <3>1, <4>1, <4>2 DEF Fifo!Put, Held
      <4> QED BY <4>3
    <3> QED BY <2>0, <2>2, <3>1, <3>2
  <2>4. CASE ConsumerFetch
    <3>1. crashes' = crashes
      BY <2>4 DEF ConsumerFetch
    <3>2. CASE crashes = 0
      <4>1. /\ Held # <<>> /\ Held' = Tail(Held) /\ Stored' = Stored
            /\ consumed' = Append(consumed, Head(Held))
        BY <2>4, <3>2, FetchTakes
      <4>2. /\ channel = Held /\ channel' = Held' /\ sent = Stored
            /\ sent' = Stored' /\ received = consumed /\ received' = consumed'
        BY <3>1, <3>2
      <4>3. Fifo!Take
        BY <4>1, <4>2 DEF Fifo!Take, Held
      <4> QED BY <4>3
    <3> QED BY <2>0, <2>2, <3>1, <3>2
  <2>5. CASE CrashAndRestart
    <3>1. crashes' > 0
      BY <2>0, <2>5 DEF CrashAndRestart
    <3> QED BY <3>1 DEF Fifo!Lose
  <2>6. CASE ProducerWait \/ ProducerLock
    BY <2>1, <2>6 DEF ProducerWait, ProducerLock, Stored
  <2>7. CASE ProducerPost
    <3>1. Stored' = Stored
      BY <2>7 DEF ProducerPost, Stored, IInv, TypeOK
    <3> QED BY <2>1, <2>7, <3>1 DEF ProducerPost
  <2>8. CASE ConsumerWait \/ ConsumerLock \/ ConsumerPost
    BY <2>1, <2>8 DEF ConsumerWait, ConsumerLock, ConsumerPost, Stored
  <2>9. CASE Unlink \/ Terminated \/ UNCHANGED vars
    BY <2>1, <2>9 DEF Unlink, Terminated, vars, Stored
  <2> QED
    BY <2>3, <2>4, <2>5, <2>6, <2>7, <2>8, <2>9 DEF Next, producer, consumer
<1> QED
  BY <1>1, <1>2, RingInvariance, PTL DEF Spec, ImplementsBoundedFifo, Fifo!FifoSpec

-----------------------------------------------------------------------------
(***************************************************************************)
(* The black box for every length of the ring: no index leaves it, what is *)
(* exported is what a restart reads, and every step is one of a log that   *)
(* keeps its newest entries.                                               *)
(***************************************************************************)

LogRing == MAX_LOG_COUNT

\* Going round the ring: an index that has passed its end starts again.
LEMMA RoundTheLog ==
    ASSUME NEW s \in Places, NEW k \in 0..LogRing
    PROVE  (s + k) % LogRing = IF s + k < LogRing THEN s + k ELSE s + k - LogRing
<1>0. LogRing \in Nat \ {0}
  BY BlackBoxAssumption DEF LogRing
<1>1. CASE s + k < LogRing
  <2> DEFINE x == s + k
  <2>1. x \in 0..(LogRing - 1)
    BY <1>0, <1>1 DEF Places, LogRing
  <2> HIDE DEF x
  <2>2. x % LogRing = x
    BY <1>0, <2>1
  <2> QED BY <1>1, <2>2 DEF x
<1>2. CASE ~(s + k < LogRing)
  <2> DEFINE x == s + k - LogRing
  <2>1. x \in 0..(LogRing - 1) /\ s + k = x + LogRing
    BY <1>0, <1>2 DEF Places, LogRing
  <2> HIDE DEF x
  <2>2. (x + LogRing) % LogRing = x
    BY <1>0, <2>1
  <2> QED BY <1>2, <2>1, <2>2 DEF x
<1> QED BY <1>1, <1>2

LEMMA InRing == ASSUME NEW s \in Places, NEW k \in 0..LogRing PROVE (s + k) % LogRing \in Places
  BY RoundTheLog, BlackBoxAssumption DEF Places, LogRing

\* What a load reads is a struct like any other.
LEMMA ReadIsABox == BoxTypeOK => Read \in BoxStruct
<1> SUFFICES ASSUME BoxTypeOK PROVE Read \in BoxStruct
  OBVIOUS
<1> USE BlackBoxAssumption
<1>1. CASE held = Nothing
  BY <1>1 DEF Read, Fresh, Garbage, BoxStruct, Places
<1>2. CASE held # Nothing
  <2> DEFINE loaded == [p \in Places |-> IF p < held THEN written.logs[p] ELSE Unknown]
  <2>1. loaded \in [Places -> Nat \cup {Unknown}]
    BY DEF BoxTypeOK, BoxStruct
  <2>2. Read = [written EXCEPT !.logs = loaded]
    BY <1>2 DEF Read
  <2> HIDE DEF loaded
  <2> QED BY <2>1, <2>2 DEF BoxTypeOK, BoxStruct
<1> QED BY <1>1, <1>2

LEMMA InitBox == BoxInit => BoxIInv
<1> SUFFICES ASSUME BoxInit PROVE BoxIInv
  OBVIOUS
<1> USE BlackBoxAssumption DEF BoxInit
<1>1. Fresh \in BoxStruct /\ Box = Fresh
  BY DEF Fresh, Garbage, BoxStruct, Places, Box
<1>2. BoxTypeOK
  BY <1>1 DEF BoxTypeOK, Nothing
<1> QED BY <1>2 DEF BoxIInv, SaveInv, SavedWhenIdle

\* Every step keeps the types: start and count stay within the ring.
LEMMA BoxTypeStep == BoxIInv /\ [BoxNext]_boxVars => BoxTypeOK'
<1> SUFFICES ASSUME BoxIInv, [BoxNext]_boxVars PROVE BoxTypeOK'
  OBVIOUS
<1>0. /\ start \in Places /\ count \in 0..LogRing /\ logs \in [Places -> Nat \cup {Unknown}]
      /\ Box \in BoxStruct /\ written \in BoxStruct
      /\ held \in {Nothing} \cup 0..LogRing /\ logged \in Nat /\ unsaved \in BOOLEAN
      /\ step \in {"down", "idle", "open", "write", "close"}
      /\ LogRing \in Nat \ {0} /\ Flushed \in 0..LogRing /\ MaxLogged \in Nat
  BY BlackBoxAssumption DEF BoxIInv, BoxTypeOK, Box, BoxStruct, LogRing
<1>a. ASSUME start' \in Places, count' \in 0..LogRing, logs' \in [Places -> Nat \cup {Unknown}]
      PROVE  Box' \in BoxStruct
  BY <1>a DEF Box, BoxStruct, LogRing
<1>b. 0 \in Places /\ Garbage \in [Places -> Nat \cup {Unknown}]
  BY <1>0 DEF Places, Garbage, LogRing
<1> USE DEF BoxTypeOK
<1>1. CASE blackbox_init
  <2>1. Read.start \in Places /\ Read.count \in 0..LogRing
        /\ Read.logs \in [Places -> Nat \cup {Unknown}]
    BY ReadIsABox DEF BoxIInv, BoxStruct, LogRing
  <2>2. Box' \in BoxStruct
    BY <1>0, <1>1, <1>a, <1>b, <2>1 DEF blackbox_init
  <2> QED BY <1>0, <1>1, <2>2 DEF blackbox_init, LogRing
<1>2. CASE blackbox_log
  <2>1. /\ start' = IF count = LogRing THEN (start + 1) % LogRing ELSE start
        /\ count' = IF count = LogRing THEN count ELSE count + 1
    BY <1>2 DEF blackbox_log, LogRing
  <2>2. (start + 1) % LogRing \in Places
    BY <1>0, InRing
  <2>3. start' \in Places /\ count' \in 0..LogRing
    BY <1>0, <2>1, <2>2
  <2>4. logs' \in [Places -> Nat \cup {Unknown}] /\ logged' \in Nat
    <3>1. logged + 1 \in Nat /\ logged' = logged + 1
      BY <1>0, <1>2 DEF blackbox_log
    <3>2. logs' = [logs EXCEPT ![(start + count) % MAX_LOG_COUNT] = logged + 1]
      BY <1>2 DEF blackbox_log
    <3> QED BY <1>0, <3>1, <3>2
  <2>5. Box' \in BoxStruct
    BY <1>a, <2>3, <2>4
  <2> QED BY <1>0, <1>2, <2>4, <2>5 DEF blackbox_log, LogRing
<1>3. CASE SaveOpen
  BY <1>0, <1>3 DEF SaveOpen, Box, LogRing
<1>4. CASE SaveWrite
  <2>1. held' \in {Nothing} \cup 0..LogRing
    BY <1>0, <1>4 DEF SaveWrite
  <2> QED BY <1>0, <1>4, <2>1 DEF SaveWrite, Box, LogRing
<1>5. CASE SaveClose
  <2>1. held' \in 0..LogRing
    BY <1>0, <1>5 DEF SaveClose, LogRing
  <2> QED BY <1>0, <1>5, <2>1 DEF SaveClose, Box, LogRing
<1>6. CASE blackbox_clear
  <2>1. Box' \in BoxStruct
    BY <1>0, <1>6, <1>a, <1>b DEF blackbox_clear
  <2> QED BY <1>0, <1>6, <2>1 DEF blackbox_clear, LogRing
<1>7. CASE Stop
  <2>1. Box' \in BoxStruct
    BY <1>0, <1>7, <1>a, <1>b DEF Stop
  <2> QED BY <1>0, <1>7, <2>1 DEF Stop, LogRing
<1>8. CASE UNCHANGED boxVars
  BY <1>0, <1>8 DEF boxVars, Box, LogRing
<1> QED
  BY <1>1, <1>2, <1>3, <1>4, <1>5, <1>6, <1>7, <1>8 DEF BoxNext

\* A save that succeeds leaves the file with the struct it started from; a load
\* leaves the struct with what the file holds.
LEMMA SaveStep == BoxIInv /\ [BoxNext]_boxVars => SaveInv' /\ SavedWhenIdle'
<1> SUFFICES ASSUME BoxIInv, [BoxNext]_boxVars PROVE SaveInv' /\ SavedWhenIdle'
  OBVIOUS
<1>0. /\ logs \in [Places -> Nat \cup {Unknown}] /\ SaveInv /\ SavedWhenIdle
      /\ LogRing \in Nat \ {0}
  BY BlackBoxAssumption DEF BoxIInv, BoxTypeOK, Box, BoxStruct, LogRing
<1>1. CASE blackbox_init
  <2>1. step' = "idle" /\ Read' = Read
    BY <1>1 DEF blackbox_init, Read
  <2>2. ~unsaved' => Box' = Read
    <3>1. ~unsaved' => Box' = [start |-> Read.start, count |-> Read.count, logs |-> Read.logs]
      BY <1>1 DEF blackbox_init, Box
    <3>2. Read \in BoxStruct
      BY ReadIsABox DEF BoxIInv
    <3> QED BY <3>1, <3>2 DEF BoxStruct
  <2> QED BY <2>1, <2>2 DEF SaveInv, SavedWhenIdle
<1>2. CASE blackbox_log \/ Stop
  BY <1>2 DEF blackbox_log, Stop, SaveInv, SavedWhenIdle
<1>3. CASE SaveOpen
  BY <1>3 DEF SaveOpen, SaveInv, SavedWhenIdle
<1>4. CASE SaveWrite
  BY <1>4 DEF SaveWrite, SaveInv, SavedWhenIdle, Box
<1>5. CASE SaveClose
  <2>1. step' = "idle" /\ Box' = Box /\ written' = Box
    BY <1>0, <1>5 DEF SaveClose, SaveInv, Box
  <2>2. ~unsaved' => Read' = Box'
    <3> SUFFICES ASSUME ~unsaved' PROVE Read' = Box'
      OBVIOUS
    <3>1. held' = LogRing /\ held' # Nothing
      BY <1>0, <1>5 DEF SaveClose, Nothing, LogRing
    <3>2. [p \in Places |-> IF p < held' THEN Box.logs[p] ELSE Unknown] = logs
      BY <1>0, <3>1 DEF Box, Places, LogRing
    <3>3. Read' = [Box EXCEPT !.logs = logs]
      BY <2>1, <3>1, <3>2 DEF Read
    <3> QED BY <2>1, <3>3 DEF Box
  <2> QED BY <2>1, <2>2 DEF SaveInv, SavedWhenIdle
<1>6. CASE blackbox_clear
  <2>1. ~unsaved' => Exported(Read)' = Exported(Box)'
    <3> SUFFICES ASSUME ~unsaved' PROVE Exported(Read)' = Exported(Box)'
      OBVIOUS
    <3>1. Read'.count = 0 /\ Box'.count = 0
      BY <1>6 DEF blackbox_clear, Read, Fresh, Box
    <3>2. 1..0 = {}
      OBVIOUS
    <3> QED BY <3>1, <3>2 DEF Exported
  <2> QED BY <1>6, <2>1 DEF blackbox_clear, SaveInv, SavedWhenIdle
<1>7. CASE UNCHANGED boxVars
  <2>1. Read' = Read /\ Box' = Box /\ step' = step /\ unsaved' = unsaved
    BY <1>7 DEF boxVars, Read, Box
  <2>2. written' = written /\ held' = held
    BY <1>7 DEF boxVars
  <2>3. Exported(Read)' = Exported(Read) /\ Exported(Box)' = Exported(Box)
    BY <2>1 DEF Exported
  <2> QED BY <1>0, <2>1, <2>2, <2>3 DEF SaveInv, SavedWhenIdle
<1> QED
  BY <1>1, <1>2, <1>3, <1>4, <1>5, <1>6, <1>7 DEF BoxNext

\* BoxIInv holds in every state of every run of the program, restarts included.
THEOREM BoxInvariance == BoxSpec => []BoxIInv
<1>1. BoxIInv /\ [BoxNext]_boxVars => BoxIInv'
  BY BoxTypeStep, SaveStep DEF BoxIInv
<1> QED BY InitBox, <1>1, PTL DEF BoxSpec

\* The variables keep their types; start and count never leave the ring.
THEOREM BoxTypeCorrect == BoxSpec => []BoxTypeOK
<1>1. BoxIInv => BoxTypeOK
  BY DEF BoxIInv
<1> QED BY BoxInvariance, <1>1, PTL

\* Between two calls a restart would read exactly what the program would export,
\* unless a call of stdio has failed.
THEOREM SavedWhenIdleHolds == BoxSpec => []SavedWhenIdle
<1>1. BoxIInv => SavedWhenIdle
  BY DEF BoxIInv
<1> QED BY BoxInvariance, <1>1, PTL

-----------------------------------------------------------------------------
Entry == Nat \cup {Unknown}

\* What blackbox_export prints of a struct is a sequence of count entries.
LEMMA ExportedIsASeq ==
    ASSUME NEW box \in BoxStruct
    PROVE  /\ Exported(box) \in Seq(Entry) /\ Len(Exported(box)) = box.count
           /\ \A k \in 1..box.count :
                Exported(box)[k] = box.logs[(box.start + (k - 1)) % LogRing]
           /\ box.count = 0 => Exported(box) = <<>>
<1>0. /\ box.start \in Places /\ box.count \in 0..LogRing /\ box.logs \in [Places -> Entry]
      /\ LogRing \in Nat \ {0}
  BY BlackBoxAssumption DEF BoxStruct, LogRing, Entry
<1>1. ASSUME NEW k \in 1..box.count
      PROVE  /\ (box.start + k - 1) % LogRing = (box.start + (k - 1)) % LogRing
             /\ box.logs[(box.start + (k - 1)) % LogRing] \in Entry
  <2>1. k - 1 \in 0..LogRing /\ box.start + k - 1 = box.start + (k - 1)
    BY <1>0 DEF Places
  <2>2. (box.start + (k - 1)) % LogRing \in Places
    BY <1>0, <2>1, InRing
  <2> QED BY <1>0, <2>1, <2>2
<1>2. Exported(box) = [k \in 1..box.count |-> box.logs[(box.start + (k - 1)) % LogRing]]
  BY <1>1 DEF Exported, LogRing
<1>3. Exported(box) \in Seq(Entry) /\ Len(Exported(box)) = box.count
  <2>1. Exported(box) \in [1..box.count -> Entry] /\ box.count \in Nat
    BY <1>0, <1>1, <1>2
  <2>2. Exported(box) \in Seq(Entry)
    BY <2>1, SeqDef
  <2>3. DOMAIN Exported(box) = 1..Len(Exported(box)) /\ Len(Exported(box)) \in Nat
    BY <2>2, LenProperties
  <2> QED BY <2>1, <2>2, <2>3
<1>4. box.count = 0 => Exported(box) = <<>>
  BY <1>3, EmptySeq
<1>5. \A k \in 1..box.count : Exported(box)[k] = box.logs[(box.start + (k - 1)) % LogRing]
  BY <1>2
<1> QED BY <1>3, <1>4, <1>5

\* blackbox_log appends the entry and, when the ring is full, drops the oldest.
LEMMA LogRecords ==
    BoxIInv /\ blackbox_log =>
        Exported(Box)' = Log!Newest(Append(Exported(Box), logged + 1))
<1> SUFFICES ASSUME BoxIInv, blackbox_log
             PROVE  Exported(Box)' = Log!Newest(Append(Exported(Box), logged + 1))
  OBVIOUS
<1> DEFINE old == Exported(Box)
           new == Exported(Box')
           e == logged + 1
<1>0. /\ start \in Places /\ count \in 0..LogRing /\ logs \in [Places -> Entry]
      /\ Box \in BoxStruct /\ e \in Entry /\ LogRing \in Nat \ {0}
      /\ logs' = [logs EXCEPT ![(start + count) % LogRing] = e]
      /\ Box.start = start /\ Box.count = count /\ Box.logs = logs
      /\ Box'.start = start' /\ Box'.count = count' /\ Box'.logs = logs'
  BY BlackBoxAssumption DEF BoxIInv, BoxTypeOK, Box, BoxStruct, LogRing, Entry, blackbox_log
<1>1. Box' \in BoxStruct
  BY BoxTypeStep DEF BoxTypeOK, BoxNext
<1>2. /\ old \in Seq(Entry) /\ Len(old) = count
      /\ \A k \in 1..count : old[k] = logs[(start + (k - 1)) % LogRing]
  BY <1>0, ExportedIsASeq
<1>3. /\ new \in Seq(Entry) /\ Len(new) = count'
      /\ \A k \in 1..count' : new[k] = logs'[(start' + (k - 1)) % LogRing]
  BY <1>0, <1>1, ExportedIsASeq
<1>4. /\ Append(old, e) \in Seq(Entry) /\ Len(Append(old, e)) = count + 1
      /\ \A k \in 1..count : Append(old, e)[k] = logs[(start + (k - 1)) % LogRing]
      /\ Append(old, e)[count + 1] = e
  BY <1>0, <1>2
<1>5. new = Log!Newest(Append(old, e))
  <2>1. CASE count # LogRing
    <3>1. start' = start /\ count' = count + 1 /\ count < LogRing
      BY <1>0, <2>1 DEF blackbox_log, LogRing
    <3>2. Log!Newest(Append(old, e)) = Append(old, e)
      BY <1>0, <1>4, <3>1 DEF Log!Newest, LogRing
    <3>3. ASSUME NEW k \in 1..(count + 1) PROVE new[k] = Append(old, e)[k]
      <4>1. new[k] = logs'[(start + (k - 1)) % LogRing]
        BY <1>3, <3>1
      <4>2. (start + (k - 1)) % LogRing \in Places /\ (start + count) % LogRing \in Places
        BY <1>0, <3>1, InRing
      <4>3. CASE k = count + 1
        BY <1>0, <1>4, <4>1, <4>2, <4>3
      <4>4. CASE k \in 1..count
        <5>1. (start + (k - 1)) % LogRing # (start + count) % LogRing
          <6>1. k - 1 \in 0..LogRing /\ k - 1 < count /\ start \in 0..(LogRing - 1)
            BY <1>0, <4>4 DEF Places, LogRing
          <6>2. /\ (start + (k - 1)) % LogRing =
                     IF start + (k - 1) < LogRing THEN start + (k - 1) ELSE start + (k - 1) - LogRing
                /\ (start + count) % LogRing =
                     IF start + count < LogRing THEN start + count ELSE start + count - LogRing
            BY <1>0, <6>1, RoundTheLog
          <6> QED BY <1>0, <3>1, <6>1, <6>2
        <5> QED BY <1>0, <1>4, <4>1, <4>2, <4>4, <5>1
      <4>5. k = count + 1 \/ k \in 1..count
        BY <1>0
      <4> QED BY <4>3, <4>4, <4>5
    <3> HIDE DEF new, old
    <3>4. Len(new) = Len(Append(old, e))
      BY <1>3, <1>4, <3>1
    <3>5. new = Append(old, e)
      BY <1>3, <1>4, <3>1, <3>3, <3>4, SeqEqual
    <3> QED BY <3>2, <3>5
  <2>2. CASE count = LogRing
    <3> DEFINE shifted == Tail(Append(old, e))
    <3>1. start' = (start + 1) % LogRing /\ count' = LogRing
      BY <1>0, <2>2 DEF blackbox_log, LogRing
    <3>2. Log!Newest(Append(old, e)) = shifted
      BY <1>0, <1>4, <2>2 DEF Log!Newest, LogRing
    <3>3. /\ shifted \in Seq(Entry) /\ Len(shifted) = LogRing
          /\ \A k \in 1..LogRing : shifted[k] = Append(old, e)[k + 1]
      <4> HIDE DEF old
      <4>1. Append(old, e) # <<>>
        BY <1>0, <1>2, AppendProperties
      <4> QED BY <1>0, <1>4, <2>2, <4>1, HeadTailProperties
    <3>4. ASSUME NEW k \in 1..LogRing PROVE new[k] = shifted[k]
      <4>0. start \in 0..(LogRing - 1) /\ k - 1 \in 0..LogRing /\ 1 \in 0..LogRing
        BY <1>0 DEF Places, LogRing
      <4>1. start' \in Places /\ start' = IF start + 1 < LogRing THEN start + 1 ELSE start + 1 - LogRing
        BY <1>0, <3>1, <4>0, InRing, RoundTheLog
      <4>2. (start' + (k - 1)) % LogRing =
              IF start' + (k - 1) < LogRing THEN start' + (k - 1) ELSE start' + (k - 1) - LogRing
        BY <4>0, <4>1, RoundTheLog
      <4>3. (start + k) % LogRing = IF start + k < LogRing THEN start + k ELSE start + k - LogRing
        BY <1>0, RoundTheLog
      <4>4. (start' + (k - 1)) % LogRing = (start + k) % LogRing
        BY <1>0, <4>0, <4>1, <4>2, <4>3
      <4>5. new[k] = logs'[(start + k) % LogRing]
        BY <1>3, <3>1, <4>4
      <4>6. (start + k) % LogRing \in Places /\ (start + count) % LogRing \in Places
        BY <1>0, <2>2, InRing
      <4>7. CASE k = LogRing
        BY <1>0, <1>4, <2>2, <3>3, <4>5, <4>6, <4>7
      <4>8. CASE k # LogRing
        <5>1. k + 1 \in 1..count /\ (k + 1) - 1 = k
          BY <1>0, <2>2, <4>8
        <5>2. shifted[k] = logs[(start + k) % LogRing]
          BY <1>4, <3>3, <5>1
        <5>3. (start + count) % LogRing = IF start + count < LogRing THEN start + count ELSE start + count - LogRing
          BY <1>0, RoundTheLog
        <5>4. (start + k) % LogRing # (start + count) % LogRing
          BY <1>0, <2>2, <4>0, <4>3, <4>8, <5>3
        <5> QED BY <1>0, <4>5, <4>6, <5>2, <5>4
      <4> QED BY <4>7, <4>8
    <3> HIDE DEF shifted, new
    <3>5. new \in Seq(Entry) /\ Len(new) = Len(shifted)
      BY <1>3, <3>1, <3>3
    <3>6. new = shifted
      BY <3>3, <3>4, <3>5
    <3> QED BY <3>2, <3>6
  <2> QED BY <2>1, <2>2
<1> QED BY <1>5

\* A file that holds the first entries of the struct in memory is read as that
\* struct with the other entries unreadable.
LEMMA TornFile ==
    ASSUME BoxIInv, NEW h \in 0..LogRing, NEW r,
           r = [Box EXCEPT !.logs = [p \in Places |-> IF p < h THEN Box.logs[p] ELSE Unknown]]
    PROVE  Log!Damaged(Exported(Box), Exported(r))
<1> DEFINE loaded == [p \in Places |-> IF p < h THEN logs[p] ELSE Unknown]
<1>0. /\ start \in Places /\ count \in 0..LogRing /\ logs \in [Places -> Entry]
      /\ Box \in BoxStruct /\ Box.start = start /\ Box.count = count /\ Box.logs = logs
  BY DEF BoxIInv, BoxTypeOK, Box, BoxStruct, LogRing, Entry
<1>1. loaded \in [Places -> Entry]
  BY <1>0 DEF Entry
<1>2. r = [Box EXCEPT !.logs = loaded]
  <2>1. loaded = [p \in Places |-> IF p < h THEN Box.logs[p] ELSE Unknown]
    BY <1>0
  <2> QED BY <2>1
<1> HIDE DEF loaded
<1>3. r \in BoxStruct /\ r.start = start /\ r.count = count /\ r.logs = loaded
  BY <1>0, <1>1, <1>2 DEF Box, BoxStruct, Entry
<1>4. /\ Len(Exported(Box)) = count /\ Len(Exported(r)) = count
      /\ \A k \in 1..count : /\ Exported(Box)[k] = logs[(start + (k - 1)) % LogRing]
                             /\ Exported(r)[k] = loaded[(start + (k - 1)) % LogRing]
  BY <1>0, <1>3, ExportedIsASeq
<1>5. ASSUME NEW k \in 1..count PROVE Exported(r)[k] \in {Exported(Box)[k], Unknown}
  <2>1. k - 1 \in 0..LogRing
    BY <1>0, BlackBoxAssumption DEF LogRing
  <2>2. (start + (k - 1)) % LogRing \in Places
    BY <1>0, <2>1, InRing
  <2> QED BY <1>4, <2>2 DEF loaded
<1> QED BY <1>4, <1>5 DEF Log!Damaged

\* Every step of the program is a step of the bounded log, or changes nothing of
\* what is exported and of what a restart would find.
THEOREM ImplementsBoundedLogHolds == BoxSpec => ImplementsBoundedLog
<1>1. BoxInit => Log!LogInit
  <2> SUFFICES ASSUME BoxInit PROVE Log!LogInit
    OBVIOUS
  <2>1. Box \in BoxStruct /\ Box.count = 0 /\ Read \in BoxStruct /\ Read.count = 0
    BY InitBox, ReadIsABox DEF BoxIInv, BoxTypeOK, BoxInit, Box, Read, Fresh
  <2> QED BY <2>1, ExportedIsASeq DEF Log!LogInit
<1>2. BoxIInv /\ BoxIInv' /\ [BoxNext]_boxVars =>
        [Log!Record \/ Log!Save \/ Log!Restart \/ Log!Clear]_(Log!logVars)
  <2> SUFFICES ASSUME BoxIInv, BoxIInv', [BoxNext]_boxVars
               PROVE  [Log!Record \/ Log!Save \/ Log!Restart \/ Log!Clear]_(Log!logVars)
    OBVIOUS
  <2> DEFINE entries == Exported(Box)
             durable == Exported(Read)
  <2>0. /\ Box' \in BoxStruct /\ Read \in BoxStruct /\ Read' \in BoxStruct
        /\ Box'.count = count' /\ Box'.start = start' /\ Box'.logs = logs'
    <3>1. Read \in BoxStruct
      BY ReadIsABox DEF BoxIInv
    <3>2. BoxTypeOK' => (Read \in BoxStruct)'
      BY ReadIsABox, PTL
    <3> QED BY <3>1, <3>2 DEF BoxIInv, BoxTypeOK, Box
  <2>a. Exported(Box)' = Exported(Box') /\ Exported(Read)' = Exported(Read')
    BY DEF Exported
  <2>b. count' = 0 => Exported(Box)' = <<>>
    BY <2>0, <2>a, ExportedIsASeq
  <2>c. held' = Nothing => Exported(Read)' = <<>>
    <3> SUFFICES ASSUME held' = Nothing PROVE Exported(Read)' = <<>>
      OBVIOUS
    <3>1. Read'.count = 0
      BY DEF Read, Fresh
    <3> QED BY <2>0, <2>a, <3>1, ExportedIsASeq
  <2>d. written' = written /\ held' = held => Exported(Read)' = Exported(Read)
    <3> SUFFICES ASSUME written' = written, held' = held
                 PROVE  Exported(Read)' = Exported(Read)
      OBVIOUS
    <3>1. Read' = Read
      BY DEF Read
    <3> QED BY <2>a, <3>1
  <2>e. start' = start /\ count' = count /\ logs' = logs => Exported(Box)' = Exported(Box)
    <3> SUFFICES ASSUME start' = start, count' = count, logs' = logs
                 PROVE  Exported(Box)' = Exported(Box)
      OBVIOUS
    <3>1. Box' = Box
      BY DEF Box
    <3> QED BY <2>a, <3>1
  <2>f. held' \in 0..LogRing /\ written' = Box => Log!Damaged(Exported(Box), Exported(Read)')
    <3> SUFFICES ASSUME held' \in 0..LogRing, written' = Box
                 PROVE  Log!Damaged(Exported(Box), Exported(Read)')
      OBVIOUS
    <3>1. held' # Nothing
      BY DEF Nothing
    <3>2. Read' = [Box EXCEPT !.logs =
                     [p \in Places |-> IF p < held' THEN Box.logs[p] ELSE Unknown]]
      BY <3>1 DEF Read
    <3> HIDE DEF BoxIInv
    <3>3. Log!Damaged(Exported(Box), Exported(Read'))
      BY <3>2, TornFile
    <3> QED BY <2>a, <3>3
  <2>1. CASE blackbox_init
    <3>1. Exported(Read)' = Exported(Read)
      BY <2>1, <2>d DEF blackbox_init
    <3>2. \/ Box' = Read
          \/ count' = 0
      BY <2>0, <2>1 DEF blackbox_init, Box, BoxStruct
    <3>3. Exported(Box)' \in {<<>>, Exported(Read)}
      BY <2>a, <2>b, <3>2
    <3> QED BY <3>1, <3>3 DEF Log!Restart
  <2>2. CASE blackbox_log
    <3>1. Exported(Read)' = Exported(Read)
      BY <2>2, <2>d DEF blackbox_log
    <3>2. logged + 1 \in 1..MaxLogged
      BY <2>2, BlackBoxAssumption DEF blackbox_log, BoxIInv, BoxTypeOK
    <3>3. Log!Record
      BY <2>2, <3>1, <3>2, LogRecords DEF Log!Record
    <3> QED BY <3>3
  <2>3. CASE SaveOpen
    <3>1. Exported(Box)' = Exported(Box)
      BY <2>3, <2>e DEF SaveOpen
    <3>2. Exported(Read)' \in {<<>>, Exported(Read)}
      BY <2>3, <2>c, <2>d DEF SaveOpen
    <3> QED BY <3>1, <3>2 DEF Log!Save, Log!logVars
  <2>4. CASE SaveWrite \/ SaveClose
    <3>1. Exported(Box)' = Exported(Box)
      BY <2>4, <2>e DEF SaveWrite, SaveClose
    <3>2. written' = Box /\ held' \in {Nothing} \cup 0..LogRing
      BY <2>4 DEF SaveWrite, SaveClose, BoxIInv, SaveInv, BoxTypeOK, LogRing
    <3>3. Exported(Read)' = <<>> \/ Log!Damaged(Exported(Box), Exported(Read)')
      BY <2>c, <2>f, <3>2
    <3> QED BY <3>1, <3>3 DEF Log!Save
  <2>5. CASE blackbox_clear
    <3>1. Exported(Box)' = <<>>
      BY <2>5, <2>b DEF blackbox_clear
    <3>2. Exported(Read)' \in {<<>>, Exported(Read)}
      BY <2>5, <2>c, <2>d DEF blackbox_clear
    <3> QED BY <3>1, <3>2 DEF Log!Clear
  <2>6. CASE Stop
    <3>1. Exported(Box)' = <<>>
      BY <2>6, <2>b DEF Stop
    <3>2. Exported(Read)' = Exported(Read)
      BY <2>6, <2>d DEF Stop
    <3> QED BY <3>1, <3>2 DEF Log!Restart
  <2>7. CASE UNCHANGED boxVars
    BY <2>7, <2>d, <2>e DEF boxVars, Log!logVars
  <2> QED
    BY <2>1, <2>2, <2>3, <2>4, <2>5, <2>6, <2>7 DEF BoxNext
<1> QED BY <1>1, <1>2, BoxInvariance, PTL DEF BoxSpec, ImplementsBoundedLog, Log!LogSpec

-----------------------------------------------------------------------------
(***************************************************************************)
(* The directory tree, for any number of runs at the same time.            *)
(***************************************************************************)

PathNames == {"my_directory"} \cup Names
Entries == SUBSET [name : Names, is_dir : BOOLEAN]
TreeStates == {"not started", "stat", "create", "remove", "ended", "killed"}

LEMMA InitTree == TreeInit => TreeIInv
<1> SUFFICES ASSUME TreeInit PROVE TreeIInv
  OBVIOUS
<1>1. [r \in Runs |-> <<>>] \in [Runs -> Seq(Frame)]
  OBVIOUS
<1>2. TreeTypeOK
  BY <1>1 DEF TreeInit, TreeTypeOK
<1>3. CreateInv /\ RemoveInv
  BY DEF TreeInit, CreateInv, RemoveInv
<1> QED BY <1>2, <1>3 DEF TreeIInv

\* The innermost of the calls of a removing run, and the calls around it.
LEMMA InnermostCall ==
    ASSUME TreeIInv, NEW r \in Runs, pc[r] = "remove"
    PROVE  /\ frames[r] \in Seq(Frame) /\ Len(frames[r]) \in Nat \ {0}
           /\ DOMAIN frames[r] = 1..Len(frames[r])
           /\ Innermost(r) = frames[r][Len(frames[r])] /\ Innermost(r) \in Frame
           /\ Caller(r) \in Seq(Frame) /\ Len(Caller(r)) = Len(frames[r]) - 1
           /\ \A i \in 1..(Len(frames[r]) - 1) : Caller(r)[i] = frames[r][i]
           /\ frames[r][1].path = top_path
           /\ ~disturbed[r] => \A i \in 1..Len(frames[r]) : CallInv(frames[r], i)
<1>1. /\ frames[r] \in Seq(Frame) /\ frames[r] # <<>> /\ frames[r][1].path = top_path
      /\ ~disturbed[r] => \A i \in 1..Len(frames[r]) : CallInv(frames[r], i)
  BY DEF TreeIInv, TreeTypeOK, RemoveInv
<1>2. Len(frames[r]) \in Nat \ {0} /\ DOMAIN frames[r] = 1..Len(frames[r])
  <2> HIDE DEF CallInv
  <2> QED BY <1>1
<1>3. Innermost(r) = frames[r][Len(frames[r])]
  BY DEF Innermost
<1>4. Innermost(r) \in Frame
  <2>1. \A fs \in Seq(Frame) : Len(fs) \in Nat \ {0} => fs[Len(fs)] \in Frame
    OBVIOUS
  <2> QED BY <1>1, <1>2, <1>3, <2>1
<1>5. /\ Caller(r) \in Seq(Frame) /\ Len(Caller(r)) = Len(frames[r]) - 1
      /\ \A i \in 1..(Len(frames[r]) - 1) : Caller(r)[i] = frames[r][i]
  <2>1. \A fs \in Seq(Frame) : Len(fs) \in Nat \ {0} =>
          LET gs == SubSeq(fs, 1, Len(fs) - 1) IN
          /\ gs \in Seq(Frame) /\ Len(gs) = Len(fs) - 1
          /\ \A i \in 1..(Len(fs) - 1) : gs[i] = fs[i]
    <3> TAKE fs \in Seq(Frame)
    <3> HAVE Len(fs) \in Nat \ {0}
    <3> DEFINE n == Len(fs) - 1
    <3>1. n \in Nat /\ 1 \in Int /\ \A i \in 1..n : fs[i] \in Frame
      OBVIOUS
    <3> HIDE DEF n
    <3>2. /\ SubSeq(fs, 1, n) \in Seq(Frame)
          /\ Len(SubSeq(fs, 1, n)) = IF 1 <= n THEN n - 1 + 1 ELSE 0
          /\ \A i \in 1..(n - 1 + 1) : SubSeq(fs, 1, n)[i] = fs[1 + i - 1]
      BY <3>1, SubSeqProperties
    <3>3. Len(SubSeq(fs, 1, n)) = n /\ \A i \in 1..n : SubSeq(fs, 1, n)[i] = fs[i]
      BY <3>1, <3>2
    <3> QED BY <3>2, <3>3 DEF n
  <2> QED BY <1>1, <1>2, <2>1 DEF Caller
<1> QED BY <1>1, <1>2, <1>3, <1>4, <1>5

\* A call that has returned.
LEMMA ReturnEffect ==
    ASSUME TreeIInv, NEW r \in Runs, pc[r] = "remove", Return(r)
    PROVE  /\ frames' \in [Runs -> Seq(Frame)] /\ frames'[r] = Caller(r)
           /\ pc'[r] = IF Len(frames[r]) = 1 THEN "ended" ELSE "remove"
           /\ pc' \in [Runs -> TreeStates]
           /\ \A s \in Runs \ {r} : frames'[s] = frames[s] /\ pc'[s] = pc[s]
<1>1. Caller(r) \in Seq(Frame)
  BY InnermostCall
<1>2. frames \in [Runs -> Seq(Frame)] /\ pc \in [Runs -> TreeStates]
  BY DEF TreeIInv, TreeTypeOK, TreeStates
<1>3. frames' = [frames EXCEPT ![r] = Caller(r)]
  BY DEF Return
<1>4. pc' = [pc EXCEPT ![r] = IF Len(frames[r]) = 1 THEN "ended" ELSE "remove"]
  BY DEF Return
<1>5. frames' \in [Runs -> Seq(Frame)] /\ frames'[r] = Caller(r)
      /\ \A s \in Runs \ {r} : frames'[s] = frames[s]
  BY <1>1, <1>2, <1>3
<1>6. pc' \in [Runs -> TreeStates] /\ pc'[r] = (IF Len(frames[r]) = 1 THEN "ended" ELSE "remove")
      /\ \A s \in Runs \ {r} : pc'[s] = pc[s]
  BY <1>2, <1>4 DEF TreeStates
<1> QED BY <1>5, <1>6

\* A call that the step is not about: nothing was created, and the call below it
\* is the same, unless that one has removed what it was for.
LEMMA CallStays ==
    ASSUME NEW fs \in Seq(Frame), NEW gs \in Seq(Frame), NEW i \in Nat, CallInv(fs, i),
           gs[i] = fs[i], dirs' \subseteq dirs, files' \subseteq files,
           i < Len(gs) => i < Len(fs) /\ gs[i + 1].path = fs[i + 1].path,
           i < Len(fs) /\ ~(i < Len(gs)) => fs[i + 1].path \notin dirs' \cup files'
    PROVE  CallInv(gs, i)'
<1>1. /\ fs[i].path \notin files /\ (i < Len(fs) => fs[i].open)
      /\ fs[i].open =>
           /\ \A e \in fs[i].entries : StillOfType(Append(fs[i].path, e.name), e.is_dir)
           /\ \A n \in Children(fs[i].path) :
                \/ \E e \in fs[i].entries : e.name = n
                \/ i < Len(fs) /\ fs[i + 1].path = Append(fs[i].path, n)
  BY DEF CallInv, StillOfType
<1>2. \A p, d : StillOfType(p, d) => StillOfType(p, d)'
  BY DEF StillOfType
<1>3. \A p : \A n \in Children(p)' : n \in Children(p) /\ Append(p, n) \in dirs' \cup files'
  BY DEF Children, Exists
<1>4. ASSUME fs[i].open, NEW n \in Children(fs[i].path)', ~ \E e \in fs[i].entries : e.name = n
      PROVE  i < Len(gs) /\ gs[i + 1].path = Append(fs[i].path, n)
  <2>1. i < Len(fs) /\ fs[i + 1].path = Append(fs[i].path, n)
        /\ Append(fs[i].path, n) \in dirs' \cup files'
    BY <1>1, <1>3, <1>4
  <2>2. i < Len(gs)
    BY <2>1
  <2> QED BY <2>1, <2>2
<1> QED BY <1>1, <1>2, <1>4 DEF CallInv

-----------------------------------------------------------------------------
CreatorInv(r) ==
    pc[r] = "create" =>
        /\ part[r] \in 1..Len(create_path)
        /\ ~disturbed[r] => \A k \in 1..(part[r] - 1) : Exists(SubSeq(create_path, 1, k))
RemoverInv(r) ==
    pc[r] = "remove" =>
        /\ frames[r] # <<>> /\ frames[r][1].path = top_path
        /\ ~disturbed[r] => \A i \in 1..Len(frames[r]) : CallInv(frames[r], i)

\* A run that does not take the step relies on what the step did not undo.
LEMMA QuietRun ==
    ASSUME TreeIInv, NEW s \in Runs, pc'[s] = pc[s], part'[s] = part[s], frames'[s] = frames[s],
           disturbed[s] => disturbed'[s],
           pc[s] = "remove" /\ ~disturbed'[s] => dirs' \subseteq dirs /\ files' \subseteq files,
           pc[s] = "create" /\ ~disturbed'[s] => dirs \subseteq dirs' /\ files \subseteq files'
    PROVE  CreatorInv(s)' /\ RemoverInv(s)'
<1>1. CreatorInv(s)'
  BY DEF CreatorInv, TreeIInv, CreateInv, Exists
<1>2. ASSUME pc[s] = "remove" PROVE RemoverInv(s)'
  <2>1. frames[s] # <<>> /\ frames[s][1].path = top_path
    BY <1>2 DEF TreeIInv, RemoveInv
  <2>2. ASSUME ~disturbed'[s], NEW i \in 1..Len(frames[s]) PROVE CallInv(frames[s], i)'
    <3> DEFINE fs == frames[s]
    <3>1. fs \in Seq(Frame) /\ CallInv(fs, i) /\ i \in Nat /\ fs' = fs
      BY <1>2, <2>2, InnermostCall
    <3>2. dirs' \subseteq dirs /\ files' \subseteq files
      BY <1>2, <2>2
    <3> HIDE DEF fs
    <3>3. CallInv(fs, i)'
      BY <3>1, <3>2, CallStays
    <3> QED BY <3>3 DEF fs
  <2> QED BY <1>2, <2>1, <2>2 DEF RemoverInv
<1> QED BY <1>1, <1>2 DEF RemoverInv

\* The prefixes that a creating run comes to.
LEMMA PathPrefixes ==
    ASSUME NEW k \in 1..3
    PROVE  /\ Len(SubSeq(create_path, 1, k)) = k
           /\ k > 1 => Parent(SubSeq(create_path, 1, k)) = SubSeq(create_path, 1, k - 1)
           /\ SubSeq(create_path, 1, 3) = create_path
           /\ SubSeq(create_path, 1, k) = create_path => k = 3
<1>1. create_path \in Seq({"my_directory"} \cup Names) /\ Len(create_path) = 3
  BY DEF create_path, Names
<1>2. Len(SubSeq(create_path, 1, k)) = k
  BY <1>1
<1>3. k > 1 => Parent(SubSeq(create_path, 1, k)) = SubSeq(create_path, 1, k - 1)
  BY <1>1, <1>2 DEF Parent
<1>4. SubSeq(create_path, 1, 3) = create_path
  BY <1>1
<1> QED BY <1>1, <1>2, <1>3, <1>4

\* What the property asks of a run that ends.
Part(r) ==
    pc[r] # "ended" /\ pc'[r] = "ended" /\ ~disturbed'[r] =>
         /\ pc[r] = "remove" => ~Exists(top_path)'
         /\ pc[r] = "create" /\ (\A k \in 1..Len(create_path) : SubSeq(create_path, 1, k) \notin files')
              => ~failed'[r] /\ create_path \in dirs'

\* A creating run: each prefix is there when mkdir has come past it.
LEMMA MkdirStep ==
    ASSUME TreeIInv, NEW r \in Runs, mkdir(r)
    PROVE  CreatorInv(r)' /\ RemoverInv(r)' /\ Part(r)
<1> DEFINE path == SubSeq(create_path, 1, part[r])
           last == path = create_path \/ mkdir_error(path)
<1>1. /\ pc[r] = "create" /\ files' = files /\ part[r] \in 1..3 /\ part'[r] = part[r] + 1
      /\ failed'[r] = mkdir_error(path) /\ dirs \subseteq dirs'
      /\ ~mkdir_error(path) => path \in dirs' \cup files'
      /\ pc'[r] = IF last THEN "ended" ELSE "create"
  BY DEF mkdir, TreeIInv, TreeTypeOK, CreateInv, Exists, create_path
<1>2. disturbed'[r] = disturbed[r]
  BY <1>1 DEF mkdir, Disturb, Removers, TreeIInv, TreeTypeOK
<1>3. ~disturbed[r] => \A k \in 1..(part[r] - 1) : Exists(SubSeq(create_path, 1, k))
  BY <1>1 DEF TreeIInv, CreateInv
<1>4. RemoverInv(r)'
  BY <1>1 DEF RemoverInv
<1>5. CreatorInv(r)'
  <2> SUFFICES ASSUME pc'[r] = "create" PROVE CreatorInv(r)'
    BY DEF CreatorInv
  <2>1. ~mkdir_error(path) /\ path # create_path
    BY <1>1
  <2>2. part[r] \in 1..2
    BY <1>1, <2>1, PathPrefixes
  <2>3. ~disturbed[r] => \A k \in 1..part[r] : Exists(SubSeq(create_path, 1, k))'
    <3> SUFFICES ASSUME ~disturbed[r], NEW k \in 1..part[r]
                 PROVE  Exists(SubSeq(create_path, 1, k))'
      OBVIOUS
    <3>1. CASE k = part[r]
      BY <1>1, <2>1, <3>1 DEF Exists
    <3>2. CASE k # part[r]
      <4>1. k \in 1..(part[r] - 1)
        BY <2>2, <3>2
      <4> QED BY <1>1, <1>3, <4>1 DEF Exists
    <3> QED BY <3>1, <3>2
  <2>4. Len(create_path) = 3
    BY DEF create_path
  <2>5. part'[r] \in 1..3 /\ part'[r] - 1 = part[r]
    BY <1>1, <2>2
  <2> QED BY <1>2, <2>3, <2>4, <2>5 DEF CreatorInv
<1>6. Part(r)
  <2> SUFFICES ASSUME pc'[r] = "ended", ~disturbed[r],
                      \A k \in 1..3 : SubSeq(create_path, 1, k) \notin files'
               PROVE  ~failed'[r] /\ create_path \in dirs'
    <3>1. Len(create_path) = 3
      BY DEF create_path
    <3> QED BY <1>1, <1>2, <3>1 DEF Part
  <2>1. ~mkdir_error(path)
    <3> SUFFICES ASSUME part[r] > 1 PROVE SubSeq(create_path, 1, part[r] - 1) \in dirs
      BY <1>1, PathPrefixes DEF mkdir_error
    <3>1. part[r] - 1 \in 1..(part[r] - 1) /\ part[r] - 1 \in 1..3
      BY <1>1
    <3> QED BY <1>1, <1>3, <3>1 DEF Exists
  <2>2. path = create_path /\ part[r] = 3
    BY <1>1, <2>1, PathPrefixes
  <2> QED BY <1>1, <2>1, <2>2
<1> QED BY <1>4, <1>5, <1>6

\* A call of a removing run returns, and what it was for is gone.
LEMMA ReturnStep ==
    ASSUME TreeIInv, NEW r \in Runs, pc[r] = "remove", Return(r),
           dirs' \subseteq dirs, files' \subseteq files, disturbed[r] => disturbed'[r],
           ~disturbed[r] => Innermost(r).path \notin dirs' \cup files'
    PROVE  CreatorInv(r)' /\ RemoverInv(r)' /\ Part(r)
<1> DEFINE fs == frames[r]
           gs == frames'[r]
           last == Len(fs)
<1>1. /\ fs \in Seq(Frame) /\ last \in Nat \ {0} /\ Innermost(r) = fs[last]
      /\ gs \in Seq(Frame) /\ Len(gs) = last - 1 /\ \A i \in 1..(last - 1) : gs[i] = fs[i]
      /\ fs[1].path = top_path
      /\ pc'[r] = IF last = 1 THEN "ended" ELSE "remove"
  <2>1. /\ fs \in Seq(Frame) /\ last \in Nat \ {0} /\ Innermost(r) = fs[last]
        /\ Caller(r) \in Seq(Frame) /\ Len(Caller(r)) = last - 1
        /\ \A i \in 1..(last - 1) : Caller(r)[i] = fs[i]
        /\ fs[1].path = top_path
    BY InnermostCall
  <2>2. gs = Caller(r) /\ pc'[r] = IF last = 1 THEN "ended" ELSE "remove"
    BY ReturnEffect
  <2> HIDE DEF fs, gs, last
  <2> QED BY <2>1, <2>2
<1>2. ~disturbed[r] => \A i \in 1..last : CallInv(fs, i)
  BY InnermostCall
<1>3. CreatorInv(r)'
  BY <1>1 DEF CreatorInv
<1>4. Part(r)
  <2>1. last = 1 /\ ~disturbed'[r] => top_path \notin dirs' \cup files'
    BY <1>1
  <2>2. last = 1 /\ ~disturbed'[r] => ~Exists(top_path)'
    BY <2>1 DEF Exists
  <2>3. pc[r] = "remove" /\ (pc'[r] = "ended" => last = 1)
    BY <1>1
  <2> HIDE DEF last
  <2> QED BY <2>2, <2>3 DEF Part
<1>5. ASSUME pc'[r] = "remove" PROVE RemoverInv(r)'
  <2>1. last > 1 /\ gs # <<>> /\ gs[1].path = top_path
    <3>1. last > 1 /\ 1 \in 1..(last - 1)
      <4> HIDE DEF last
      <4> QED BY <1>1, <1>5
    <3>2. Len(gs) # 0 /\ gs[1] = fs[1]
      BY <1>1, <3>1
    <3> HIDE DEF gs
    <3> QED BY <1>1, <3>1, <3>2
  <2>2. ASSUME ~disturbed'[r], NEW i \in 1..(last - 1) PROVE CallInv(frames[r], i)'
    <3>1. /\ CallInv(fs, i) /\ i \in Nat /\ gs[i] = fs[i] /\ i \in 1..last
          /\ i < Len(gs) => i < Len(fs) /\ gs[i + 1].path = fs[i + 1].path
          /\ i < Len(fs) /\ ~(i < Len(gs)) => fs[i + 1].path \notin dirs' \cup files'
      <4>1. i \in 1..last
        BY <1>1
      <4>2. i < last - 1 => i + 1 \in 1..(last - 1)
        BY <1>1
      <4>3. ~(i < last - 1) => i + 1 = last
        BY <1>1
      <4>4. last = Len(fs)
        OBVIOUS
      <4> HIDE DEF fs, gs, last
      <4> QED BY <1>1, <1>2, <2>2, <4>1, <4>2, <4>3, <4>4
    <3>2. \A hs : hs = gs => CallInv(hs, i)'
      <4> HIDE DEF fs, gs
      <4> TAKE hs
      <4> HAVE hs = gs
      <4>1. /\ hs \in Seq(Frame) /\ hs[i] = fs[i] /\ fs \in Seq(Frame) /\ i \in Nat
            /\ CallInv(fs, i)
        BY <1>1, <3>1
      <4>2. i < Len(hs) => i < Len(fs) /\ hs[i + 1].path = fs[i + 1].path
        BY <3>1
      <4>3. i < Len(fs) /\ ~(i < Len(hs)) => fs[i + 1].path \notin dirs' \cup files'
        BY <3>1
      <4> QED BY <4>1, <4>2, <4>3, CallStays
    <3> QED BY <3>2
  <2> QED BY <1>1, <2>1, <2>2 DEF RemoverInv
<1> QED BY <1>3, <1>4, <1>5 DEF RemoverInv

\* A run decides what to do.
LEMMA ExistsStep ==
    ASSUME TreeIInv, NEW r \in Runs, directory_exists(r)
    PROVE  CreatorInv(r)' /\ RemoverInv(r)' /\ Part(r)
<1>1. /\ pc \in [Runs -> TreeStates] /\ part \in [Runs -> Nat] /\ frames \in [Runs -> Seq(Frame)]
      /\ dirs \cap files = {} /\ Len(create_path) = 3
  BY DEF TreeIInv, TreeTypeOK, TreeStates, create_path
<1>2. CASE top_path \in dirs
  <2> DEFINE f == [path |-> top_path, open |-> FALSE, entries |-> {}]
  <2>1. pc'[r] = "remove" /\ frames'[r] = <<f>> /\ dirs' = dirs /\ files' = files
    BY <1>1, <1>2 DEF directory_exists
  <2>2. top_path \notin files'
    BY <1>1, <1>2, <2>1
  <2>3. f.path = top_path /\ f.open = FALSE
    OBVIOUS
  <2> HIDE DEF f
  <2>4. Len(<<f>>) = 1 /\ <<f>>[1] = f /\ <<f>> # <<>>
    OBVIOUS
  <2>5. \A i \in 1..1 : CallInv(<<f>>, i)'
    BY <2>2, <2>3, <2>4 DEF CallInv, StillOfType
  <2>6. RemoverInv(r)'
    BY <2>1, <2>3, <2>4, <2>5 DEF RemoverInv
  <2> QED BY <2>1, <2>6 DEF CreatorInv, Part
<1>3. CASE top_path \notin dirs
  <2>1. pc'[r] = "create" /\ part'[r] = 1
    BY <1>1, <1>3 DEF directory_exists
  <2> QED BY <1>1, <2>1 DEF CreatorInv, RemoverInv, Part
<1> QED BY <1>2, <1>3

\* The directory of a call is opened, and all that is in it is yet to be read.
LEMMA OpenStep ==
    ASSUME TreeIInv, NEW r \in Runs, opendir(r)
    PROVE  CreatorInv(r)' /\ RemoverInv(r)' /\ Part(r)
<1>0. pc[r] = "remove" /\ dirs' = dirs /\ files' = files /\ disturbed' = disturbed
  BY DEF opendir
<1>a. PICK fs \in Seq(Frame) : fs = frames[r]
  <2>1. frames[r] \in Seq(Frame)
    BY <1>0, InnermostCall
  <2> QED BY <2>1, Zenon
<1>b. PICK gs, path, last, f :
        /\ gs = frames'[r] /\ path = Innermost(r).path /\ last = Len(fs)
        /\ f = [path |-> path, open |-> TRUE,
                entries |-> {[name |-> n, is_dir |-> Append(path, n) \in dirs] : n \in Children(path)}]
  OBVIOUS
<1>1. /\ fs = frames[r] /\ gs = frames'[r] /\ path = Innermost(r).path /\ last = Len(fs)
      /\ f = [path |-> path, open |-> TRUE,
              entries |-> {[name |-> n, is_dir |-> Append(path, n) \in dirs] : n \in Children(path)}]
  BY <1>a, <1>b
<1>2. /\ last \in Nat \ {0} /\ path = fs[last].path /\ fs[1].path = top_path
      /\ ~disturbed[r] => \A i \in 1..last : CallInv(fs, i)
  BY <1>0, <1>1, InnermostCall
<1>3. /\ path \notin dirs => Return(r)
      /\ path \in dirs => frames' = [frames EXCEPT ![r][last] = f] /\ pc' = pc
  BY <1>1 DEF opendir
<1>4. ~disturbed[r] => path \notin files
  BY <1>2 DEF CallInv, StillOfType
<1>5. CASE path \notin dirs
  BY <1>0, <1>1, <1>3, <1>4, <1>5, ReturnStep
<1>6. CASE path \in dirs
  <2>1. pc'[r] = "remove" /\ gs = [fs EXCEPT ![last] = f]
    BY <1>0, <1>1, <1>3, <1>6 DEF TreeIInv, TreeTypeOK
  <2>2. /\ f.path = path /\ f.open = TRUE
        /\ \A n \in Children(path) : \E e \in f.entries : e.name = n
        /\ \A e \in f.entries : StillOfType(Append(path, e.name), e.is_dir)
    <3>1. /\ f.path = path /\ f.open = TRUE
          /\ f.entries = {[name |-> n, is_dir |-> Append(path, n) \in dirs] : n \in Children(path)}
      BY <1>1
    <3>2. dirs \cap files = {}
      BY DEF TreeIInv, TreeTypeOK
    <3>3. ASSUME NEW n \in Children(path),
                 NEW e, e = [name |-> n, is_dir |-> Append(path, n) \in dirs]
          PROVE  e.name = n /\ StillOfType(Append(path, e.name), e.is_dir)
      BY <3>2, <3>3 DEF StillOfType
    <3>4. \A e \in f.entries : StillOfType(Append(path, e.name), e.is_dir)
      BY <3>1, <3>3
    <3>5. \A n \in Children(path) : \E e \in f.entries : e.name = n
      <4> TAKE n \in Children(path)
      <4> DEFINE e == [name |-> n, is_dir |-> Append(path, n) \in dirs]
      <4>1. e \in f.entries
        BY <3>1
      <4>2. e.name = n
        OBVIOUS
      <4> HIDE DEF e
      <4> QED BY <4>1, <4>2
    <3> QED BY <3>1, <3>4, <3>5
  <2>3. /\ Len(gs) = last /\ gs[last] = f /\ \A i \in 1..last : i # last => gs[i] = fs[i]
        /\ gs # <<>> /\ gs \in Seq(Frame)
    <3>1. Len(gs) = last /\ gs[last] = f /\ \A i \in 1..last : i # last => gs[i] = fs[i]
      BY <1>1, <1>2, <2>1
    <3>2. gs \in Seq(Frame)
      <4>1. path \in Seq(PathNames)
        BY <1>0, <1>1, InnermostCall DEF Frame, PathNames
      <4>2. f \in Frame
        <5> DEFINE entry(n) == [name |-> n, is_dir |-> Append(path, n) \in dirs]
        <5>1. \A n \in Children(path) : entry(n) \in [name : Names, is_dir : BOOLEAN]
          BY DEF Children
        <5>2. {entry(n) : n \in Children(path)} \in Entries
          <6> HIDE DEF entry
          <6> QED BY <5>1 DEF Entries
        <5>3. f = [path |-> path, open |-> TRUE, entries |-> {entry(n) : n \in Children(path)}]
          BY <1>1
        <5> HIDE DEF entry
        <5> QED BY <4>1, <5>2, <5>3 DEF Frame, PathNames, Entries
      <4>3. last \in 1..Len(fs)
        BY <1>1, <1>2
      <4> QED BY <2>1, <4>2, <4>3
    <3>3. Len(gs) # 0
      BY <1>2, <3>1
    <3> QED BY <3>1, <3>2, <3>3
  <2>4. \A i \in 1..last : gs[i].path = fs[i].path
    <3>1. gs[last].path = fs[last].path
      BY <1>2, <2>2, <2>3
    <3>2. \A i \in 1..last : i # last => gs[i].path = fs[i].path
      BY <2>3
    <3> QED BY <3>1, <3>2
  <2>5. gs[1].path = top_path
    BY <1>2, <2>4
  <2>6. ASSUME ~disturbed[r], NEW i \in 1..last PROVE CallInv(gs, i)'
    <3>1. CASE i = last
      <4>1. \A p, d : StillOfType(p, d) => StillOfType(p, d)'
        BY <1>0 DEF StillOfType
      <4>2. \A n \in Children(path)' : n \in Children(path)
        BY <1>0 DEF Children, Exists
      <4>3. StillOfType(path, TRUE)
        BY <1>4, <2>6 DEF StillOfType
      <4> QED BY <2>2, <2>3, <3>1, <4>1, <4>2, <4>3 DEF CallInv
    <3>2. CASE i # last
      <4>1. i \in Nat /\ (i < last => i + 1 \in 1..last)
        BY <1>2
      <4>2. CallInv(fs, i) /\ gs[i] = fs[i]
        BY <1>2, <2>3, <2>6, <3>2
      <4>3. i < Len(gs) => i < Len(fs) /\ gs[i + 1].path = fs[i + 1].path
        BY <1>1, <2>3, <2>4, <4>1
      <4>4. ~(i < Len(fs) /\ ~(i < Len(gs)))
        BY <1>1, <2>3
      <4> QED BY <1>0, <2>3, <4>1, <4>2, <4>3, <4>4, CallStays
    <3> QED BY <3>1, <3>2
  <2>7. RemoverInv(r)'
    BY <1>0, <1>1, <2>1, <2>3, <2>5, <2>6 DEF RemoverInv
  <2> QED BY <1>0, <2>1, <2>7 DEF CreatorInv, Part
<1> QED BY <1>5, <1>6

\* What readdir hands out is removed, a directory by a call for it.
LEMMA ReadStep ==
    ASSUME TreeIInv, NEW r \in Runs, readdir(r)
    PROVE  CreatorInv(r)' /\ RemoverInv(r)' /\ Part(r)
<1>0. pc[r] = "remove" /\ pc' = pc /\ dirs' = dirs /\ Innermost(r).open
  BY DEF readdir
<1>a. PICK fs \in Seq(Frame), f \in Frame, cs \in Seq(Frame) :
        fs = frames[r] /\ f = Innermost(r) /\ cs = Caller(r)
  <2>1. frames[r] \in Seq(Frame) /\ Innermost(r) \in Frame /\ Caller(r) \in Seq(Frame)
    BY <1>0, InnermostCall
  <2> QED BY <2>1, Zenon
<1>b. PICK gs, last : gs = frames'[r] /\ last = Len(fs)
  OBVIOUS
<1>1. /\ fs = frames[r] /\ gs = frames'[r] /\ last = Len(fs) /\ f = Innermost(r)
      /\ cs = Caller(r)
  BY <1>a, <1>b
<1>2. /\ last \in Nat \ {0} /\ f = fs[last] /\ fs[1].path = top_path /\ f.open
      /\ ~disturbed[r] => \A i \in 1..last : CallInv(fs, i)
      /\ Len(cs) = last - 1 /\ \A i \in 1..(last - 1) : cs[i] = fs[i]
      /\ f.path \in Seq(PathNames) /\ f.entries \in Entries
  BY <1>0, <1>1, InnermostCall DEF Frame, PathNames, Entries
<1>3. PICK e, here, full_path, below :
        /\ e \in f.entries
        /\ full_path = Append(f.path, e.name) /\ here = [f EXCEPT !.entries = f.entries \ {e}]
        /\ below = [path |-> full_path, open |-> FALSE, entries |-> {}]
        /\ \/ /\ e.is_dir /\ frames' = [frames EXCEPT ![r] = cs \o <<here, below>>]
              /\ UNCHANGED <<files, disturbed>>
           \/ /\ ~e.is_dir /\ frames' = [frames EXCEPT ![r] = Append(cs, here)]
              /\ files' = files \ {full_path}
              /\ Disturb(IF full_path \in files THEN Creators ELSE {})
  BY <1>1 DEF readdir
<1>4. /\ files' \subseteq files /\ disturbed'[r] = disturbed[r]
      /\ gs = IF e.is_dir THEN cs \o <<here, below>> ELSE Append(cs, here)
  <2>1. files' \subseteq files
    BY <1>3
  <2>2. disturbed'[r] = disturbed[r]
    BY <1>0, <1>3 DEF Disturb, Creators, TreeIInv, TreeTypeOK
  <2>3. gs = IF e.is_dir THEN cs \o <<here, below>> ELSE Append(cs, here)
    BY <1>1, <1>3 DEF TreeIInv, TreeTypeOK
  <2> QED BY <2>1, <2>2, <2>3
<1>5. /\ here.path = f.path /\ here.open /\ here.entries = f.entries \ {e} /\ here \in Frame
      /\ below.path = full_path /\ ~below.open /\ below \in Frame
      /\ e.name \in Names
  <2>1. e.name \in Names /\ f.path \in Seq(PathNames) /\ Names \subseteq PathNames
    BY <1>2, <1>3 DEF Entries, PathNames
  <2>2. full_path \in Seq(PathNames)
    BY <1>3, <2>1
  <2>3. below.path = full_path /\ ~below.open /\ below \in Frame
    BY <1>3, <2>2 DEF Frame, PathNames
  <2>4. here.path = f.path /\ here.open /\ here.entries = f.entries \ {e}
    BY <1>2, <1>3 DEF Frame
  <2>5. here \in Frame
    BY <1>2, <1>3 DEF Frame, Entries, PathNames
  <2> QED BY <2>1, <2>3, <2>4, <2>5
<1>6. /\ gs \in Seq(Frame) /\ gs[last] = here
      /\ \A i \in 1..(last - 1) : gs[i] = fs[i]
      /\ e.is_dir => Len(gs) = last + 1 /\ gs[last + 1] = below
      /\ ~e.is_dir => Len(gs) = last
  <2>1. CASE e.is_dir
    <3>1. /\ <<here, below>> \in Seq(Frame) /\ Len(<<here, below>>) = 2
          /\ <<here, below>>[1] = here /\ <<here, below>>[2] = below
      BY <1>5
    <3>2. PICK tail \in Seq(Frame) : tail = <<here, below>>
      BY <3>1
    <3>3. gs \in Seq(Frame) /\ Len(gs) = Len(cs) + 2
          /\ \A i \in 1..(Len(cs) + 2) : gs[i] = IF i <= Len(cs) THEN cs[i] ELSE tail[i - Len(cs)]
      BY <1>4, <2>1, <3>1, <3>2, ConcatProperties
    <3>4. Len(cs) = last - 1 /\ last \in Nat \ {0} /\ tail[1] = here /\ tail[2] = below
      BY <1>2, <3>1, <3>2
    <3>5. Len(gs) = last + 1 /\ gs[last] = here /\ gs[last + 1] = below
      <4>1. /\ last \in 1..(Len(cs) + 2) /\ ~(last <= Len(cs))
            /\ last + 1 \in 1..(Len(cs) + 2) /\ ~(last + 1 <= Len(cs))
        BY <3>4
      <4>a. \A i \in 1..(Len(cs) + 2) : ~(i <= Len(cs)) => gs[i] = tail[i - Len(cs)]
        BY <3>3, Zenon
      <4>2. gs[last] = tail[last - Len(cs)] /\ gs[last + 1] = tail[last + 1 - Len(cs)]
        BY <4>1, <4>a
      <4>3. last - Len(cs) = 1 /\ last + 1 - Len(cs) = 2 /\ Len(cs) + 2 = last + 1
        BY <3>4
      <4> QED BY <3>3, <3>4, <4>2, <4>3
    <3>6. \A i \in 1..(last - 1) : gs[i] = fs[i]
      <4> TAKE i \in 1..(last - 1)
      <4>1. i \in 1..(Len(cs) + 2) /\ i <= Len(cs)
        BY <3>4
      <4> QED BY <1>2, <3>3, <4>1
    <3> QED BY <2>1, <3>3, <3>5, <3>6
  <2>2. CASE ~e.is_dir
    <3>1. /\ gs \in Seq(Frame) /\ Len(gs) = Len(cs) + 1 /\ gs[Len(cs) + 1] = here
          /\ \A i \in 1..Len(cs) : gs[i] = cs[i]
      BY <1>4, <1>5, <2>2, AppendProperties
    <3>2. Len(cs) = last - 1 /\ Len(cs) + 1 = last /\ \A i \in 1..(last - 1) : cs[i] = fs[i]
      BY <1>2
    <3> QED BY <2>2, <3>1, <3>2
  <2> QED BY <2>1, <2>2
<1>7. gs # <<>> /\ gs[1].path = top_path
  <2>1. Len(gs) # 0
    BY <1>2, <1>6
  <2>2. gs[1].path = fs[1].path
    <3>1. CASE last = 1
      BY <1>2, <1>5, <1>6, <3>1
    <3>2. CASE last # 1
      <4>1. 1 \in 1..(last - 1)
        BY <1>2, <3>2
      <4> QED BY <1>6, <4>1
    <3> QED BY <3>1, <3>2
  <2> QED BY <1>2, <2>1, <2>2
<1>8. ASSUME ~disturbed[r], NEW i \in 1..Len(gs) PROVE CallInv(gs, i)'
  <2>1. /\ f.path \notin files
        /\ \A d \in f.entries : StillOfType(Append(f.path, d.name), d.is_dir)
        /\ \A n \in Children(f.path) : \E d \in f.entries : d.name = n
    <3>1. CallInv(fs, last) /\ ~(last < Len(fs))
      BY <1>1, <1>2, <1>8
    <3> QED BY <1>2, <3>1 DEF CallInv, StillOfType
  <2>2. \A p, d : StillOfType(p, d) => StillOfType(p, d)'
    BY <1>0, <1>4 DEF StillOfType
  <2>3. \A p : \A n \in Children(p)' : n \in Children(p) /\ Append(p, n) \in dirs' \cup files'
    BY <1>0, <1>4 DEF Children, Exists
  <2>4. CASE i = last
    <3>1. ASSUME NEW n \in Children(f.path)', ~ \E d \in here.entries : d.name = n
          PROVE  i < Len(gs) /\ gs[i + 1].path = Append(f.path, n)
      <4>1. e.name = n
        BY <1>5, <2>1, <2>3, <3>1
      <4>2. full_path \in dirs' \cup files'
        BY <1>3, <2>3, <4>1
      <4>3. e.is_dir
        <5>1. ~e.is_dir => full_path \notin dirs /\ files' = files \ {full_path}
          BY <1>3, <2>1 DEF StillOfType
        <5> QED BY <1>0, <4>2, <5>1
      <4>4. Len(gs) = last + 1 /\ gs[last + 1] = below
        BY <1>6, <4>3
      <4> QED BY <1>2, <1>3, <1>5, <2>4, <4>1, <4>4
    <3>2. f.path \notin files'
      BY <1>4, <2>1
    <3>3. \A d \in here.entries : StillOfType(Append(f.path, d.name), d.is_dir)'
      BY <1>5, <2>1, <2>2
    <3>4. gs[i] = here
      BY <1>6, <2>4
    <3>5. /\ StillOfType(gs[i].path, TRUE)' /\ gs[i].open
          /\ \A d \in gs[i].entries : StillOfType(Append(gs[i].path, d.name), d.is_dir)'
      BY <1>5, <3>2, <3>3, <3>4 DEF StillOfType
    <3>6. \A n \in Children(gs[i].path)' :
            \/ \E d \in gs[i].entries : d.name = n
            \/ i < Len(gs) /\ gs[i + 1].path = Append(gs[i].path, n)
      BY <1>5, <3>1, <3>4
    <3> QED BY <3>5, <3>6, ZenonT(60) DEF CallInv
  <2>5. CASE i = last + 1
    <3>1. e.is_dir /\ gs[i] = below /\ ~(i < Len(gs))
      BY <1>2, <1>6, <2>5
    <3>2. StillOfType(full_path, TRUE)'
      BY <1>3, <2>1, <2>2, <3>1
    <3> QED BY <1>5, <3>1, <3>2 DEF CallInv
  <2>6. CASE i # last /\ i # last + 1
    <3>1. i \in 1..(last - 1) /\ i \in Nat /\ i \in 1..last /\ i < Len(fs)
      BY <1>1, <1>2, <1>6, <2>6
    <3>2. CallInv(fs, i) /\ gs[i] = fs[i] /\ i < Len(gs)
      <4>1. Len(gs) \in {last, last + 1}
        BY <1>6
      <4>2. CallInv(fs, i)
        BY <1>2, <1>8, <3>1
      <4>3. i < Len(gs)
        BY <1>2, <3>1, <4>1
      <4> QED BY <1>6, <3>1, <4>2, <4>3
    <3>3. gs[i + 1].path = fs[i + 1].path
      <4>1. CASE i + 1 = last
        BY <1>2, <1>5, <1>6, <4>1
      <4>2. CASE i + 1 # last
        <5>1. i + 1 \in 1..(last - 1)
          BY <1>2, <3>1, <4>2
        <5> QED BY <1>6, <5>1
      <4> QED BY <4>1, <4>2
    <3> QED BY <1>0, <1>4, <1>6, <3>1, <3>2, <3>3, CallStays
  <2> QED BY <1>2, <1>6, <2>4, <2>5, <2>6
<1>9. RemoverInv(r)'
  BY <1>0, <1>1, <1>4, <1>7, <1>8 DEF RemoverInv
<1> QED BY <1>0, <1>9 DEF CreatorInv, Part

\* A directory that has been read to its end is empty, and goes, unless something
\* was created.
LEMMA RmdirStep ==
    ASSUME TreeIInv, NEW r \in Runs, rmdir(r)
    PROVE  CreatorInv(r)' /\ RemoverInv(r)' /\ Part(r)
<1> DEFINE path == Innermost(r).path
           empty == path \in dirs /\ Children(path) = {}
<1>1. /\ pc[r] = "remove" /\ Return(r) /\ files' = files
      /\ Innermost(r).open /\ Innermost(r).entries = {}
      /\ dirs' = IF empty THEN dirs \ {path} ELSE dirs
      /\ Disturb(IF empty THEN Creators ELSE {})
  BY DEF rmdir
<1>2. disturbed'[r] = disturbed[r]
  BY <1>1 DEF Disturb, Creators, TreeIInv, TreeTypeOK
<1>3. ASSUME ~disturbed[r] PROVE path \notin dirs' \cup files'
  <2>1. PICK fs \in Seq(Frame) : fs = frames[r] /\ Innermost(r) = fs[Len(fs)] /\ Len(fs) \in Nat
                                 /\ CallInv(fs, Len(fs))
    <3>1. /\ frames[r] \in Seq(Frame) /\ Innermost(r) = frames[r][Len(frames[r])]
          /\ Len(frames[r]) \in Nat \ {0}
          /\ \A i \in 1..Len(frames[r]) : CallInv(frames[r], i)
      BY <1>1, <1>3, InnermostCall
    <3>2. CallInv(frames[r], Len(frames[r]))
      BY <3>1
    <3> QED BY <3>1, <3>2
  <2>2. path \notin files /\ Children(path) = {}
    BY <1>1, <2>1 DEF CallInv, StillOfType
  <2> QED BY <1>1, <2>2
<1> QED BY <1>1, <1>2, <1>3, ReturnStep

\* The types, and that nothing is a directory and a file.
LEMMA TreeTypeStep == ASSUME TreeIInv, [TreeNext]_treeVars PROVE TreeTypeOK'
<1>0. /\ pc \in [Runs -> TreeStates] /\ part \in [Runs -> Nat] /\ frames \in [Runs -> Seq(Frame)]
      /\ failed \in [Runs -> BOOLEAN] /\ disturbed \in [Runs -> BOOLEAN]
      /\ edits \in Nat /\ dirs \cap files = {}
  BY DEF TreeIInv, TreeTypeOK, TreeStates
<1>a. \A who : Disturb(who) => disturbed' \in [Runs -> BOOLEAN]
  BY <1>0 DEF Disturb
<1> SUFFICES /\ pc' \in [Runs -> TreeStates] /\ part' \in [Runs -> Nat]
             /\ frames' \in [Runs -> Seq(Frame)]
             /\ failed' \in [Runs -> BOOLEAN] /\ disturbed' \in [Runs -> BOOLEAN]
             /\ edits' \in Nat /\ dirs' \cap files' = {}
  BY DEF TreeTypeOK, TreeStates
<1>1. CASE \E r \in Runs : start_main(r) \/ killed(r)
  BY <1>0, <1>1 DEF start_main, killed, TreeStates
<1>2. CASE \E r \in Runs : directory_exists(r)
  <2>1. PICK r \in Runs : directory_exists(r)
    BY <1>2
  <2>2. UNCHANGED <<dirs, files, failed, disturbed, edits>>
    BY <2>1 DEF directory_exists
  <2>3. CASE top_path \in dirs
    <3> DEFINE f == [path |-> top_path, open |-> FALSE, entries |-> {}]
    <3>1. pc' = [pc EXCEPT ![r] = "remove"] /\ frames' = [frames EXCEPT ![r] = <<f>>] /\ part' = part
      BY <2>1, <2>3 DEF directory_exists
    <3>2. f \in Frame
      BY DEF Frame, top_path
    <3> HIDE DEF f
    <3>3. <<f>> \in Seq(Frame)
      BY <3>2
    <3> QED BY <1>0, <2>2, <3>1, <3>3 DEF TreeStates
  <2>4. CASE top_path \notin dirs
    <3>1. pc' = [pc EXCEPT ![r] = "create"] /\ part' = [part EXCEPT ![r] = 1] /\ frames' = frames
      BY <2>1, <2>4 DEF directory_exists
    <3> QED BY <1>0, <2>2, <3>1 DEF TreeStates
  <2> QED BY <2>3, <2>4
<1>3. CASE \E r \in Runs : mkdir(r)
  <2>1. PICK r \in Runs : mkdir(r)
    BY <1>3
  <2>2. /\ part' \in [Runs -> Nat] /\ frames' = frames /\ edits' = edits
        /\ disturbed' \in [Runs -> BOOLEAN]
    BY <1>0, <1>a, <2>1 DEF mkdir
  <2>3. pc' \in [Runs -> TreeStates]
    BY <1>0, <2>1 DEF mkdir, TreeStates
  <2>4. failed' \in [Runs -> BOOLEAN]
    <3>1. PICK p : failed' = [failed EXCEPT ![r] = mkdir_error(p)]
      BY <2>1 DEF mkdir
    <3>2. mkdir_error(p) \in BOOLEAN
      BY DEF mkdir_error
    <3> QED BY <1>0, <3>1, <3>2
  <2>5. dirs' \cap files' = {}
    BY <1>0, <2>1 DEF mkdir, Exists
  <2> QED BY <1>0, <2>2, <2>3, <2>4, <2>5
<1>4. CASE \E r \in Runs : opendir(r)
  <2>1. PICK r \in Runs : opendir(r)
    BY <1>4
  <2>2. /\ pc[r] = "remove" /\ UNCHANGED <<dirs, files, part, failed, disturbed, edits>>
    BY <2>1 DEF opendir
  <2>3. CASE Return(r)
    BY <1>0, <2>2, <2>3, ReturnEffect
  <2>4. CASE ~Return(r)
    <3> DEFINE path == Innermost(r).path
               entry(n) == [name |-> n, is_dir |-> Append(path, n) \in dirs]
               f == [path |-> path, open |-> TRUE, entries |-> {entry(n) : n \in Children(path)}]
    <3>1. frames' = [frames EXCEPT ![r][Len(frames[r])] = f] /\ pc' = pc
      BY <2>1, <2>4 DEF opendir
    <3>2. /\ frames[r] \in Seq(Frame) /\ Len(frames[r]) \in 1..Len(frames[r])
          /\ path \in Seq(PathNames)
      <4>1. frames[r] \in Seq(Frame) /\ Len(frames[r]) \in Nat \ {0} /\ Innermost(r) \in Frame
        BY <2>2, InnermostCall
      <4>2. PICK g \in Frame : g = Innermost(r)
        BY <4>1, Zenon
      <4>3. g.path \in Seq(PathNames)
        BY DEF Frame, PathNames
      <4> QED BY <4>1, <4>2, <4>3
    <3>3. \A n \in Children(path) : entry(n) \in [name : Names, is_dir : BOOLEAN]
      BY DEF Children
    <3>4. {entry(n) : n \in Children(path)} \in Entries
      <4> HIDE DEF entry
      <4> QED BY <3>3 DEF Entries
    <3>5. f \in Frame
      <4> HIDE DEF entry, path
      <4> QED BY <3>2, <3>4 DEF Frame, PathNames, Entries
    <3> HIDE DEF f
    <3>6. frames' = [frames EXCEPT ![r] = [frames[r] EXCEPT ![Len(frames[r])] = f]]
      BY <3>1
    <3>7. [frames[r] EXCEPT ![Len(frames[r])] = f] \in Seq(Frame)
      BY <3>2, <3>5, ExceptSeq
    <3> QED BY <1>0, <2>2, <3>1, <3>6, <3>7
  <2> QED BY <2>3, <2>4
<1>5. CASE \E r \in Runs : readdir(r)
  <2>1. PICK r \in Runs : readdir(r)
    BY <1>5
  <2>2. pc[r] = "remove" /\ UNCHANGED <<dirs, pc, part, failed, edits>>
    BY <2>1 DEF readdir
  <2>3. PICK f \in Frame, cs \in Seq(Frame) : f = Innermost(r) /\ cs = Caller(r)
    <3>1. Innermost(r) \in Frame /\ Caller(r) \in Seq(Frame)
      BY <2>2, InnermostCall
    <3> QED BY <3>1, Zenon
  <2>4. PICK e, here, full_path, below :
          /\ e \in f.entries
          /\ full_path = Append(f.path, e.name) /\ here = [f EXCEPT !.entries = f.entries \ {e}]
          /\ below = [path |-> full_path, open |-> FALSE, entries |-> {}]
          /\ \/ /\ frames' = [frames EXCEPT ![r] = cs \o <<here, below>>]
                /\ UNCHANGED <<files, disturbed>>
             \/ /\ frames' = [frames EXCEPT ![r] = Append(cs, here)]
                /\ files' = files \ {full_path}
                /\ Disturb(IF full_path \in files THEN Creators ELSE {})
    BY <2>1, <2>3 DEF readdir
  <2>5. files' \subseteq files /\ disturbed' \in [Runs -> BOOLEAN]
    BY <1>0, <1>a, <2>4
  <2>6. f.path \in Seq(PathNames) /\ e.name \in Names /\ Names \subseteq PathNames
    BY <2>4 DEF Frame, PathNames
  <2>7. full_path \in Seq(PathNames)
    BY <2>4, <2>6
  <2>8. here \in Frame /\ below \in Frame
    BY <2>4, <2>7 DEF Frame, PathNames
  <2>9. cs \o <<here, below>> \in Seq(Frame) /\ Append(cs, here) \in Seq(Frame)
    <3>1. <<here, below>> \in Seq(Frame)
      BY <2>8
    <3> QED BY <2>8, <3>1, ConcatProperties, AppendProperties
  <2>10. frames' \in [Runs -> Seq(Frame)]
    BY <1>0, <2>4, <2>9
  <2> QED BY <1>0, <2>2, <2>5, <2>10
<1>6. CASE \E r \in Runs : rmdir(r)
  <2>1. PICK r \in Runs : rmdir(r)
    BY <1>6
  <2>2. /\ pc[r] = "remove" /\ Return(r) /\ UNCHANGED <<files, part, failed, edits>>
        /\ dirs' \subseteq dirs /\ disturbed' \in [Runs -> BOOLEAN]
    BY <1>a, <2>1 DEF rmdir
  <2> QED BY <1>0, <2>2, ReturnEffect
<1>7. CASE UserCreates
  <2>1. /\ UNCHANGED <<pc, part, frames, failed>> /\ edits' = edits + 1
        /\ disturbed' \in [Runs -> BOOLEAN]
    BY <1>a, <1>7 DEF UserCreates
  <2>2. dirs' \cap files' = {}
    BY <1>0, <1>7 DEF UserCreates, Exists
  <2> QED BY <1>0, <2>1, <2>2
<1>8. CASE UNCHANGED treeVars
  BY <1>0, <1>8 DEF treeVars
<1> QED BY <1>1, <1>2, <1>3, <1>4, <1>5, <1>6, <1>7, <1>8 DEF TreeNext

\* Any step of a run: what it creates disturbs the removing runs, what it removes
\* the creating ones.
LEMMA OtherRuns ==
    ASSUME TreeIInv, NEW r \in Runs, NEW s \in Runs, s # r,
           directory_exists(r) \/ mkdir(r) \/ opendir(r) \/ readdir(r) \/ rmdir(r)
    PROVE  CreatorInv(s)' /\ RemoverInv(s)' /\ pc'[s] = pc[s]
<1>0. /\ pc \in [Runs -> TreeStates] /\ part \in [Runs -> Nat] /\ frames \in [Runs -> Seq(Frame)]
      /\ failed \in [Runs -> BOOLEAN] /\ disturbed \in [Runs -> BOOLEAN]
  BY DEF TreeIInv, TreeTypeOK, TreeStates
<1>a. pc[s] = "remove" => pc[s] # "create"
  OBVIOUS
<1>1. CASE directory_exists(r)
  <2>1. /\ UNCHANGED <<dirs, files, disturbed>>
        /\ pc'[s] = pc[s] /\ part'[s] = part[s] /\ frames'[s] = frames[s]
    BY <1>0, <1>1 DEF directory_exists
  <2> QED BY <2>1, QuietRun
<1>2. CASE mkdir(r)
  <2>1. /\ files' = files /\ dirs \subseteq dirs'
        /\ \/ dirs' = dirs /\ Disturb({})
           \/ Disturb(Removers)
        /\ pc'[s] = pc[s] /\ part'[s] = part[s] /\ frames'[s] = frames[s]
    BY <1>0, <1>2 DEF mkdir
  <2>2. disturbed[s] => disturbed'[s]
    BY <1>0, <2>1 DEF Disturb
  <2>3. pc[s] = "remove" /\ ~disturbed'[s] => dirs' = dirs
    BY <1>0, <2>1 DEF Disturb, Removers
  <2> QED BY <2>1, <2>2, <2>3, QuietRun
<1>3. CASE opendir(r)
  <2>1. /\ UNCHANGED <<dirs, files, disturbed, part>> /\ pc[r] = "remove"
    BY <1>3 DEF opendir
  <2>2. pc'[s] = pc[s] /\ frames'[s] = frames[s]
    <3>1. CASE Return(r)
      BY <2>1, <3>1, ReturnEffect
    <3>2. CASE ~Return(r)
      <4>1. PICK f : frames' = [frames EXCEPT ![r][Len(frames[r])] = f] /\ pc' = pc
        BY <1>3, <3>2 DEF opendir
      <4> QED BY <1>0, <4>1
    <3> QED BY <3>1, <3>2
  <2> QED BY <2>1, <2>2, QuietRun
<1>4. CASE readdir(r)
  <2>1. UNCHANGED <<dirs, pc, part>>
    BY <1>4 DEF readdir
  <2>2. PICK calls, path :
          /\ frames' = [frames EXCEPT ![r] = calls]
          /\ \/ UNCHANGED <<files, disturbed>>
             \/ /\ files' = files \ {path}
                /\ Disturb(IF path \in files THEN Creators ELSE {})
    BY <1>4 DEF readdir
  <2>3. frames'[s] = frames[s] /\ files' \subseteq files /\ (disturbed[s] => disturbed'[s])
    BY <1>0, <2>2 DEF Disturb
  <2>4. pc[s] = "create" /\ ~disturbed'[s] => files' = files
    BY <1>0, <2>2 DEF Disturb, Creators
  <2> QED BY <2>1, <2>3, <2>4, QuietRun
<1>5. CASE rmdir(r)
  <2>1. /\ UNCHANGED <<files, part>> /\ dirs' \subseteq dirs
        /\ pc[r] = "remove" /\ Return(r)
        /\ \/ dirs' = dirs /\ Disturb({})
           \/ Disturb(Creators)
    BY <1>5 DEF rmdir
  <2>2. pc'[s] = pc[s] /\ frames'[s] = frames[s]
    BY <2>1, ReturnEffect
  <2>3. (disturbed[s] => disturbed'[s]) /\ (pc[s] = "create" /\ ~disturbed'[s] => dirs' = dirs)
    BY <1>0, <2>1 DEF Disturb, Creators
  <2> QED BY <2>1, <2>2, <2>3, QuietRun
<1> QED BY <1>1, <1>2, <1>3, <1>4, <1>5

\* Every step keeps the invariant, and a run that ends with it has done its part.
LEMMA TreeStep ==
    ASSUME TreeIInv, [TreeNext]_treeVars
    PROVE  \A s \in Runs : CreatorInv(s)' /\ RemoverInv(s)' /\ Part(s)
<1>0. /\ pc \in [Runs -> TreeStates] /\ disturbed \in [Runs -> BOOLEAN]
  BY DEF TreeIInv, TreeTypeOK, TreeStates
<1> TAKE s \in Runs
<1>1. CASE \E r \in Runs : directory_exists(r) \/ mkdir(r) \/ opendir(r) \/ readdir(r) \/ rmdir(r)
  <2>1. PICK r \in Runs : directory_exists(r) \/ mkdir(r) \/ opendir(r) \/ readdir(r) \/ rmdir(r)
    BY <1>1
  <2>2. CASE s = r
    BY <2>1, <2>2, ExistsStep, MkdirStep, OpenStep, ReadStep, RmdirStep
  <2>3. CASE s # r
    <3>1. CreatorInv(s)' /\ RemoverInv(s)' /\ pc'[s] = pc[s]
      BY <2>1, <2>3, OtherRuns
    <3> QED BY <3>1 DEF Part
  <2> QED BY <2>2, <2>3
<1>2. CASE \E r \in Runs : start_main(r) \/ killed(r)
  <2>1. PICK r \in Runs : start_main(r) \/ killed(r)
    BY <1>2
  <2>2. /\ UNCHANGED <<dirs, files, part, frames, disturbed>>
        /\ pc' = [pc EXCEPT ![r] = "stat"] \/ pc' = [pc EXCEPT ![r] = "killed"]
    BY <2>1 DEF start_main, killed
  <2>3. CASE s = r
    BY <1>0, <2>2, <2>3 DEF CreatorInv, RemoverInv, Part
  <2>4. CASE s # r
    <3>1. pc'[s] = pc[s]
      BY <1>0, <2>2, <2>4
    <3>2. CreatorInv(s)' /\ RemoverInv(s)'
      BY <2>2, <3>1, QuietRun
    <3> QED BY <3>1, <3>2 DEF Part
  <2> QED BY <2>3, <2>4
<1>3. CASE UserCreates
  <2>1. /\ UNCHANGED <<pc, part, frames>> /\ dirs \subseteq dirs' /\ files \subseteq files'
        /\ Disturb(Removers)
    BY <1>3 DEF UserCreates
  <2>2. (disturbed[s] => disturbed'[s]) /\ (pc[s] = "remove" => disturbed'[s])
    BY <1>0, <2>1 DEF Disturb, Removers
  <2>3. CreatorInv(s)' /\ RemoverInv(s)'
    BY <2>1, <2>2, QuietRun
  <2> QED BY <2>1, <2>3 DEF Part
<1>4. CASE UNCHANGED treeVars
  <2>1. UNCHANGED <<dirs, files, pc, part, frames, disturbed>>
    BY <1>4 DEF treeVars
  <2>2. CreatorInv(s)' /\ RemoverInv(s)'
    BY <2>1, QuietRun
  <2> QED BY <2>1, <2>2 DEF Part
<1> QED BY <1>1, <1>2, <1>3, <1>4 DEF TreeNext

\* The invariant of the directory program: what a creating run has come past is
\* there, and every call of rmdir_recursive still has before it, or below it, what
\* its directory holds.
THEOREM TreeInvariance == TreeSpec => []TreeIInv
<1>1. ASSUME TreeIInv, [TreeNext]_treeVars PROVE TreeIInv'
  <2>1. TreeTypeOK'
    BY <1>1, TreeTypeStep
  <2>2. \A s \in Runs : CreatorInv(s)' /\ RemoverInv(s)'
    BY <1>1, TreeStep
  <2>3. CreateInv' /\ RemoveInv'
    BY <2>2 DEF CreateInv, RemoveInv, CreatorInv, RemoverInv
  <2> QED BY <2>1, <2>3 DEF TreeIInv
<1> QED BY <1>1, InitTree, PTL DEF TreeSpec

\* dir.c, lines 38-61 and 68-98, for any number of runs at once, runs that are
\* killed and any number of files that a user creates: a removing run leaves
\* nothing of my_directory and a creating run has the whole path when it ends,
\* unless what it relies on was undone meanwhile.
THEOREM RunsDoTheirPartHolds == TreeSpec => RunsDoTheirPart
<1>1. ASSUME TreeIInv, [TreeNext]_treeVars
      PROVE  [\A r \in Runs : pc[r] # "ended" /\ pc'[r] = "ended" /\ ~disturbed'[r] =>
         /\ pc[r] = "remove" => ~Exists(top_path)'
         /\ pc[r] = "create" /\ (\A k \in 1..Len(create_path) : SubSeq(create_path, 1, k) \notin files')
              => ~failed'[r] /\ create_path \in dirs']_treeVars
  <2>1. \A r \in Runs : Part(r)
    BY <1>1, TreeStep
  <2> QED BY <2>1 DEF Part
<1> QED BY <1>1, TreeInvariance, PTL DEF TreeSpec, RunsDoTheirPart

-----------------------------------------------------------------------------
(***************************************************************************)
(* The expirations of the timers, however many there are.                  *)
(***************************************************************************)

\* When main starts nothing has expired.
LEMMA InitTimers == TimersInit => TimersIInv
<1> SUFFICES ASSUME TimersInit PROVE TimersIInv
  OBVIOUS
<1>1. TimersTypeOK
  <2>1. program \in {"timefd_create", "timer_create"} /\ pending \in BOOLEAN
    BY Zenon DEF TimersInit
  <2>2. max_exp \in 0..MaxExpired /\ expired = 0 /\ unread = 0 /\ tot_exp = 0
        /\ overrun = 0 /\ caught = <<>> /\ discarded = 0
    BY Zenon DEF TimersInit
  <2>3. max_exp \in Nat
    BY <2>2, TimersAssumption
  <2>4. caught \in Seq(Nat)
    BY <2>2
  <2> QED BY <2>1, <2>2, <2>3, <2>4 DEF TimersTypeOK
<1>2. ExpirationsAddUp
  BY DEF TimersInit, ExpirationsAddUp, Handled, Signalled
<1> QED BY <1>1, <1>2 DEF TimersInit, TimersIInv

\* Each variable keeps its type.
LEMMA TimersTypeStep == ASSUME TimersTypeOK, [TimersNext]_timerVars PROVE TimersTypeOK'
<1>1. CASE Expire
  <2>1. pending' \in BOOLEAN
    BY <1>1, Zenon DEF Expire, TimersTypeOK
  <2>2. expired' \in Nat /\ unread' \in Nat /\ overrun' \in Nat
    BY <1>1 DEF Expire, TimersTypeOK
  <2>3. UNCHANGED <<program, tot_exp, max_exp, caught>> /\ discarded' \in Nat
    BY <1>1 DEF Expire, ofTimer, TimersTypeOK
  <2> QED BY <2>1, <2>2, <2>3 DEF TimersTypeOK
<1>2. CASE StartFd \/ ReadFd
  BY <1>2 DEF StartFd, ReadFd, ofTimer, ofFd, ofSignal, TimersTypeOK
<1>3. CASE StartSignal \/ Unblock
  BY <1>3 DEF StartSignal, Unblock, ofTimer, ofFd, TimersTypeOK
<1>4. CASE Deliver
  <2>1. caught' = Append(caught, overrun) /\ caught \in Seq(Nat) /\ overrun \in Nat
    BY <1>4, Zenon DEF Deliver, TimersTypeOK
  <2>2. caught' \in Seq(Nat)
    BY <2>1
  <2>3. pending' = FALSE /\ overrun' = 0
        /\ UNCHANGED <<program, expired, unread, tot_exp, max_exp, discarded>>
    BY <1>4 DEF Deliver, ofTimer, ofFd
  <2> QED BY <2>2, <2>3 DEF TimersTypeOK
<1>5. CASE IgnoreFromNowOn
  <2>1. /\ pending' = FALSE /\ overrun' = 0
        /\ discarded' = (IF pending THEN discarded + 1 + overrun ELSE discarded)
        /\ UNCHANGED <<program, expired, unread, tot_exp, max_exp, caught>>
    BY <1>5, Zenon DEF IgnoreFromNowOn, ofTimer, ofFd
  <2>2. overrun \in Nat /\ discarded \in Nat
    BY Zenon DEF TimersTypeOK
  <2>3. discarded' \in Nat
    BY <2>1, <2>2
  <2> QED BY <2>1, <2>3 DEF TimersTypeOK
<1>6. CASE UNCHANGED timerVars
  BY <1>6 DEF timerVars, TimersTypeOK
<1> QED BY <1>1, <1>2, <1>3, <1>4, <1>5, <1>6 DEF TimersNext

\* timefd_create.c: an expiration goes to the descriptor, a read moves it on.
LEMMA FdStep ==
    ASSUME TimersIInv, program = "timefd_create", [TimersNext]_timerVars
    PROVE  TimersIInv'
<1>1. TimersTypeOK'
  BY TimersTypeStep DEF TimersIInv
<1>2. program' = program
  BY DEF TimersNext, timerVars, ofTimer, Expire, StartFd, ReadFd, StartSignal, Unblock,
         Deliver, IgnoreFromNowOn
<1>3. line \in {"start", "loop", "exit"} /\ TimersTypeOK
      /\ tot_exp + unread = expired /\ (line = "exit" => tot_exp >= max_exp)
  BY DEF TimersIInv, ExpirationsAddUp
<1>4. /\ line' \in {"start", "loop", "exit"}
      /\ tot_exp' + unread' = expired' /\ (line' = "exit" => tot_exp' >= max_exp')
  <2>1. CASE Expire
    BY <1>3, <2>1 DEF Expire, TimerRuns, ofTimer, TimersTypeOK
  <2>2. CASE StartFd
    BY <1>3, <2>2 DEF StartFd, Goto, ofTimer, ofFd
  <2>3. CASE ReadFd
    BY <1>3, <2>3 DEF ReadFd, Goto, ofTimer, ofFd, TimersTypeOK
  <2>4. ~(StartSignal \/ Unblock \/ Deliver \/ IgnoreFromNowOn)
    BY <1>3 DEF StartSignal, Unblock, Deliver, IgnoreFromNowOn
  <2>5. CASE UNCHANGED timerVars
    BY <1>3, <2>5 DEF timerVars
  <2> QED BY <2>1, <2>2, <2>3, <2>4, <2>5 DEF TimersNext
<1> QED BY <1>1, <1>2, <1>4 DEF TimersIInv, ExpirationsAddUp

\* timer_create.c: one pending signal stands for all expirations of the sleep.
LEMMA SignalStep ==
    ASSUME TimersIInv, program = "timer_create", [TimersNext]_timerVars
    PROVE  TimersIInv'
<1>1. TimersTypeOK' /\ TimersTypeOK
  BY TimersTypeStep DEF TimersIInv
<1>2. program' = program
  BY DEF TimersNext, timerVars, ofTimer, Expire, StartFd, ReadFd, StartSignal, Unblock,
         Deliver, IgnoreFromNowOn
<1> DEFINE TimerInv ==
      /\ line \in {"start", "masked", "sleep", "handler", "unblocked", "exit"}
      /\ line \in {"start", "masked", "sleep"} => caught = <<>>
      /\ line = "handler" => caught # <<>>
      /\ line = "unblocked" /\ disposition # "ignored" => caught = <<>>
      /\ ~pending => overrun = 0
      /\ disposition = "ignored" => ~pending /\ caught # <<>>
<1> DEFINE Sum ==
      /\ expired = Handled + Signalled + discarded
      /\ Len(caught) <= 1 /\ (caught = <<>> => discarded = 0)
      /\ line = "exit" => ~pending
<1>a. TimerInv /\ Sum /\ Handled \in Nat
  <2>0. program # "timefd_create"
    OBVIOUS
  <2>1. TimerInv /\ Sum
    <3>1. TimerInv
      BY DEF TimersIInv
    <3>2. ExpirationsAddUp
      BY Zenon DEF TimersIInv
    <3>3. Sum
      BY <2>0, <3>2, Zenon DEF ExpirationsAddUp
    <3> QED BY <3>1, <3>3
  <2>2. ASSUME caught # <<>> PROVE Len(caught) = 1
    <3> DEFINE n == Len(caught)
    <3>1. caught \in Seq(Nat) /\ n <= 1
      BY <1>1, <2>1, Zenon DEF TimersTypeOK
    <3>2. n \in Nat \ {0}
      BY <2>2, <3>1, EmptySeq
    <3> HIDE DEF n
    <3>3. n = 1
      BY <3>1, <3>2
    <3> QED BY <3>3 DEF n
  <2>3. Handled \in Nat
    BY <1>1, <2>2 DEF Handled, TimersTypeOK
  <2> QED BY <2>1, <2>3
<1>b. SUFFICES TimerInv' /\ Sum'
  BY <1>1, <1>2 DEF TimersIInv, ExpirationsAddUp
<1>3. CASE Expire
  <2>1. /\ UNCHANGED <<line, disposition, caught>> /\ line # "exit"
        /\ expired' = expired + 1 /\ expired \in Nat /\ overrun \in Nat /\ discarded \in Nat
        /\ overrun' = (IF pending THEN overrun + 1 ELSE overrun)
        /\ discarded' = (IF disposition = "ignored" THEN discarded + 1 ELSE discarded)
    BY <1>1, <1>3 DEF Expire, TimerRuns, ofTimer, TimersTypeOK
  <2>2. pending' <=> (pending \/ disposition # "ignored")
    BY <1>3, Zenon DEF Expire
  <2>3. Handled' = Handled
    BY <2>1 DEF Handled
  <2>4. expired' = Handled' + Signalled' + discarded'
    <3>1. CASE disposition = "ignored"
      BY <1>a, <2>1, <2>2, <2>3, <3>1 DEF Signalled
    <3>2. CASE disposition # "ignored"
      BY <1>a, <2>1, <2>2, <2>3, <3>2 DEF Signalled
    <3> QED BY <3>1, <3>2
  <2>5. TimerInv'
    BY <1>a, <2>1, <2>2
  <2>6. caught' = <<>> => discarded' = 0
    BY <1>a, <2>1
  <2> QED BY <1>a, <2>1, <2>4, <2>5, <2>6
<1>4. ~(StartFd \/ ReadFd)
  BY DEF StartFd, ReadFd
<1>5. CASE StartSignal \/ Unblock
  <2>1. /\ UNCHANGED <<expired, pending, overrun, caught, discarded>>
        /\ Handled' = Handled /\ Signalled' = Signalled
    BY <1>5 DEF StartSignal, Unblock, Handled, Signalled
  <2>2. \/ line = "start" /\ line' = "masked" /\ disposition' = "handler"
        \/ line = "masked" /\ line' = "sleep" /\ disposition' = disposition
        \/ line = "sleep" /\ line' = "unblocked" /\ disposition' = disposition
        \/ line = "unblocked" /\ ~pending /\ line' = "exit" /\ disposition' = disposition
    BY <1>5 DEF StartSignal, Unblock, Goto
  <2> QED BY <1>a, <2>1, <2>2
<1>6. CASE Deliver
  <2>1. /\ line = "unblocked" /\ pending /\ caught' = Append(caught, overrun)
        /\ line' = "handler" /\ ~pending' /\ overrun' = 0 /\ disposition = "handler"
        /\ disposition' = disposition /\ expired' = expired /\ discarded' = discarded
    BY <1>6, Zenon DEF Deliver, Goto, ofTimer, ofFd
  <2>2. caught = <<>> /\ overrun \in Nat /\ discarded \in Nat
    BY <1>1, <1>a, <2>1 DEF TimersTypeOK
  <2>3. caught' = <<overrun>> /\ Len(caught') = 1 /\ caught' # <<>> /\ caught'[1] = overrun
    BY <2>1, <2>2
  <2>4. Handled' = 1 + overrun /\ Signalled' = 0 /\ Handled = 0 /\ Signalled = 1 + overrun
    BY <2>1, <2>2, <2>3 DEF Handled, Signalled
  <2> QED BY <1>a, <2>1, <2>2, <2>3, <2>4
<1>7. CASE IgnoreFromNowOn
  <2>1. /\ line = "handler" /\ line' = "unblocked" /\ ~pending' /\ overrun' = 0
        /\ disposition' = "ignored" /\ expired' = expired /\ caught' = caught
        /\ discarded' = (IF pending THEN discarded + 1 + overrun ELSE discarded)
    BY <1>7, Zenon DEF IgnoreFromNowOn, Goto, ofTimer, ofFd
  <2>2. overrun \in Nat /\ discarded \in Nat /\ caught # <<>>
    BY <1>1, <1>a, <2>1 DEF TimersTypeOK
  <2>3. Handled' = Handled /\ Signalled' = 0
    BY <2>1 DEF Handled, Signalled
  <2>4. expired' = Handled' + Signalled' + discarded'
    BY <1>a, <2>1, <2>2, <2>3 DEF Signalled
  <2> QED BY <1>a, <2>1, <2>2, <2>4
<1>8. CASE UNCHANGED timerVars
  BY <1>a, <1>8 DEF timerVars, Handled, Signalled
<1> QED BY <1>3, <1>4, <1>5, <1>6, <1>7, <1>8 DEF TimersNext

\* No expiration is lost or counted twice: the descriptor's counts add up, and
\* the one pending signal carries the rest as its overrun (lines 137 to 147 of
\* timefd_create.c; 61 to 88 and 153 to 157 of timer_create.c).
THEOREM ExpirationsAddUpHolds == TimersSpec => []ExpirationsAddUp
<1>1. TimersIInv /\ [TimersNext]_timerVars => TimersIInv'
  BY FdStep, SignalStep DEF TimersIInv, TimersTypeOK
<1>2. TimersIInv => ExpirationsAddUp
  BY DEF TimersIInv
<1> QED BY InitTimers, <1>1, <1>2, PTL DEF TimersSpec

-----------------------------------------------------------------------------
(***************************************************************************)
(* The configuration file: the two pieces of code that take lines apart    *)
(* agree on each line of a plain file, and so on all of them.              *)
(***************************************************************************)

\* The smallest of a set of numbers is in it.
LEMMA SmallestOf ==
    ASSUME NEW S \in SUBSET Nat, S # {}
    PROVE  Min(S) \in S /\ \A y \in S : Min(S) <= y
<1> DEFINE R == OpToRel(<, Nat)
<1>1. \A x, y \in Nat : <<x, y>> \in R <=> x < y
  BY DEF OpToRel
<1>2. IsWellFoundedOn(R, Nat)
  BY NatLessThanWellFounded
<1> HIDE DEF R
<1>3. PICK x \in S : \A y \in S : ~(<<y, x>> \in R)
  BY <1>2, WFMin
<1>4. \A y \in S : ~(y < x)
  BY <1>1, <1>3
<1>5. \A y \in S : x <= y
  BY <1>4
<1> QED BY <1>5 DEF Min

\* The same, when one knows which it is.
LEMMA SmallestIs ==
    ASSUME NEW S \in SUBSET Nat, NEW x \in S, \A y \in S : x <= y
    PROVE  Min(S) = x
<1>1. Min(S) \in Nat /\ x \in Nat /\ Min(S) <= x /\ x <= Min(S)
  BY SmallestOf
<1> QED BY <1>1

\* So is the largest of a set of positions.
LEMMA LargestOf ==
    ASSUME NEW n \in Nat, NEW S \in SUBSET (0..n), S # {}
    PROVE  Max(S) \in S /\ \A y \in S : y <= Max(S)
<1> DEFINE R == {n - x : x \in S}
<1>0. \A x \in S : x \in 0..n /\ n - x \in Nat
  OBVIOUS
<1>1. R \in SUBSET Nat /\ R # {}
  BY <1>0
<1>2. Min(R) \in R /\ \A y \in R : Min(R) <= y
  BY <1>1, SmallestOf
<1>3. PICK x \in S : Min(R) = n - x
  BY <1>2
<1>4. \A y \in S : y <= x
  <2> TAKE y \in S
  <2>1. n - y \in R
    OBVIOUS
  <2>2. n - x <= n - y
    BY <1>2, <1>3, <2>1
  <2> QED BY <1>0, <2>2
<1> QED BY <1>4 DEF Max

LEMMA SpanOf ==
    ASSUME NEW n \in Nat, NEW S \in SUBSET (1..n), S # {}
    PROVE  Min(S) \in 1..n /\ Max(S) \in 1..n
<1>1. S \in SUBSET Nat /\ S \in SUBSET (0..n)
  OBVIOUS
<1>2. Min(S) \in S
  BY <1>1, SmallestOf
<1>3. Max(S) \in S
  BY <1>1, LargestOf
<1> QED BY <1>2, <1>3

\* A line is a beginning of the text, and has no newline before its end.
LEMMA LineRead ==
    ASSUME NEW s \in Strings, s # <<>>
    PROVE  /\ fgets(s) \in Strings /\ fgets(s) # <<>>
           /\ After(s, Len(fgets(s))) \in Strings
           /\ \A i \in 1..(Len(fgets(s)) - 1) : fgets(s)[i] # "\n"
<1> DEFINE ends == {Len(s), Room} \cup Where(s, "\n")
<1> DEFINE n == Min(ends)
<1>0. Len(s) \in Nat \ {0} /\ Room \in Nat \ {0} /\ DOMAIN s = 1..Len(s)
  BY ConfigAssumption DEF Strings
<1>1. ends \in SUBSET (Nat \ {0}) /\ Len(s) \in ends
  BY <1>0 DEF Where
<1>2. n \in ends /\ \A y \in ends : n <= y
  BY <1>1, SmallestOf
<1> HIDE DEF n
<1>3. n \in 1..Len(s) /\ \A i \in 1..(n - 1) : s[i] # "\n"
  <2>1. n \in Nat \ {0} /\ n <= Len(s)
    BY <1>1, <1>2
  <2>2. ASSUME NEW i \in 1..(n - 1) PROVE s[i] # "\n"
    <3>1. i < n /\ i \in 1..Len(s)
      BY <1>0, <2>1
    <3>2. \A y \in ends : y # i
      BY <1>2, <2>1, <3>1
    <3> HIDE DEF ends
    <3>3. i \notin ends
      BY <3>2
    <3> QED BY <1>0, <3>1, <3>3 DEF Where, ends
  <2> QED BY <1>0, <2>1, <2>2
<1>4. fgets(s) = SubSeq(s, 1, n)
  BY DEF fgets, n
<1>5. \A i \in 1..Len(s) : s[i] \in STRING
  BY <1>0 DEF Strings
<1>6. /\ SubSeq(s, 1, n) \in Strings /\ Len(SubSeq(s, 1, n)) = n
      /\ \A i \in 1..n : SubSeq(s, 1, n)[i] = s[i]
  <2>1. \A i \in 1..n : s[i] \in STRING
    BY <1>3, <1>5
  <2> QED BY <1>3, <2>1, SubSeqProperties DEF Strings
<1>7. SubSeq(s, n + 1, Len(s)) \in Strings
  <2>1. \A i \in (n + 1)..Len(s) : s[i] \in STRING
    BY <1>3, <1>5
  <2> QED BY <1>3, <1>0, <2>1, SubSeqProperties DEF Strings
<1>8. SubSeq(s, 1, n) # <<>>
  BY <1>3, <1>6
<1> QED BY <1>3, <1>4, <1>6, <1>7, <1>8 DEF After

\* The part of a text between two positions.
LEMMA PartOf ==
    ASSUME NEW s \in Strings, NEW m \in 1..(Len(s) + 1), NEW n \in 0..Len(s)
    PROVE  /\ SubSeq(s, m, n) \in Strings
           /\ Len(SubSeq(s, m, n)) = IF m <= n THEN n - m + 1 ELSE 0
           /\ \A i \in 1..(n - m + 1) : SubSeq(s, m, n)[i] = s[m + i - 1]
           /\ m > n => SubSeq(s, m, n) = <<>>
<1>1. \A i \in m..n : s[i] \in STRING
  BY DEF Strings
<1>2. Len(s) \in Nat
  BY DEF Strings
<1> QED BY <1>1, <1>2, SubSeqProperties, SubSeqEmpty DEF Strings

\* What is trimmed is a text, and a blank at the end makes no difference.
Solid(s) == {i \in DOMAIN s : ~isspace(s[i])}

LEMMA Trimmed ==
    ASSUME NEW s \in Strings
    PROVE  trim_string(s) \in Strings
<1>0. trim_string(s) = IF Solid(s) = {} THEN <<>> ELSE SubSeq(s, Min(Solid(s)), Max(Solid(s)))
  BY DEF trim_string, Solid
<1>1. Len(s) \in Nat /\ Solid(s) \in SUBSET (1..Len(s))
  BY DEF Solid, Strings
<1>2. CASE Solid(s) = {}
  BY <1>0, <1>2 DEF Strings
<1>3. CASE Solid(s) # {}
  <2>1. Min(Solid(s)) \in 1..Len(s) /\ Max(Solid(s)) \in 1..Len(s)
    BY <1>1, <1>3, SpanOf
  <2> QED BY <1>0, <1>1, <1>3, <2>1, PartOf
<1> QED BY <1>2, <1>3

LEMMA TrimBlank ==
    ASSUME NEW s \in Strings, s # <<>>, isspace(s[Len(s)])
    PROVE  trim_string(SubSeq(s, 1, Len(s) - 1)) = trim_string(s)
<1> DEFINE n == Len(s)
           t == SubSeq(s, 1, n - 1)
<1>0. n \in Nat \ {0} /\ DOMAIN s = 1..n
  BY DEF Strings
<1>1. t \in Strings /\ Len(t) = n - 1 /\ DOMAIN t = 1..(n - 1) /\ \A i \in 1..(n - 1) : t[i] = s[i]
  BY <1>0, PartOf DEF Strings
<1>2. Solid(t) = Solid(s)
  BY <1>0, <1>1 DEF Solid
<1>3. CASE Solid(s) = {}
  BY <1>2, <1>3 DEF trim_string, Solid
<1>4. CASE Solid(s) # {}
  <2>1. Solid(s) \in SUBSET (1..(n - 1))
    BY <1>0, <1>1, <1>2 DEF Solid
  <2>2. Min(Solid(s)) \in 1..(n - 1) /\ Max(Solid(s)) \in 1..(n - 1)
    <3>1. n - 1 \in Nat
      BY <1>0
    <3> QED BY <1>2, <1>4, <2>1, <3>1, SpanOf
  <2> DEFINE i == Min(Solid(s))
             j == Max(Solid(s))
  <2> HIDE DEF i, j, n
  <2>3. SubSeq(t, i, j) = SubSeq(s, 1 + i - 1, 1 + j - 1)
    <3>1. n - 1 \in 1..n /\ 1 \in 1..n /\ i \in 1..((n - 1) - 1 + 1) /\ j \in 1..((n - 1) - 1 + 1)
      BY <1>0, <2>2 DEF i, j
    <3> QED BY <3>1, SubSeqOfSubSeq DEF Strings, n
  <2>4. 1 + i - 1 = i /\ 1 + j - 1 = j
    BY <2>2 DEF i, j
  <2>5. SubSeq(t, i, j) = SubSeq(s, i, j)
    BY <2>3, <2>4
  <2> QED BY <1>2, <1>4, <2>5 DEF trim_string, Solid, i, j, n
<1> QED BY <1>3, <1>4

\* What strtok_r returns of a text without a '=', and of one with a single one.
LEMMA NoToken == strtok_r(<<>>) = NULL
  BY DEF strtok_r

Token(s, m, n, k) == [token |-> SubSeq(s, m, n), left |-> SubSeq(s, k, Len(s))]

LEMMA TokenIs ==
    ASSUME NEW s \in Strings,
           NEW first \in 1..Len(s), NEW end \in 1..(Len(s) + 1),
           s[first] # "=", \A i \in 1..(first - 1) : s[i] = "=", first < end,
           end = Len(s) + 1 \/ s[end] = "=",
           \A i \in first..(end - 1) : s[i] # "="
    PROVE  strtok_r(s) = Token(s, first, end - 1, end + 1)
<1> DEFINE others == DOMAIN s \ Where(s, "=")
           ends == {i \in Where(s, "=") : i > first} \cup {Len(s) + 1}
<1>0. Len(s) \in Nat /\ DOMAIN s = 1..Len(s)
  BY DEF Strings
<1>1. others \in SUBSET Nat /\ first \in others /\ \A i \in others : first <= i
  BY <1>0 DEF Where
<1>2. ends \in SUBSET Nat /\ end \in ends /\ \A i \in ends : end <= i
  BY <1>0 DEF Where
<1>3. Min(others) = first
  BY <1>1, SmallestIs
<1>4. Min(ends) = end
  BY <1>2, SmallestIs
<1>5. strtok_r(s) = IF others = {} THEN NULL
                    ELSE LET f == Min(others)
                             e == Min({i \in Where(s, "=") : i > f} \cup {Len(s) + 1})
                         IN [token |-> SubSeq(s, f, e - 1), left |-> After(s, e)]
  BY DEF strtok_r
<1> QED BY <1>1, <1>3, <1>4, <1>5 DEF Token, After

LEMMA WholeToken ==
    ASSUME NEW s \in Strings, s # <<>>, Where(s, "=") = {}
    PROVE  strtok_r(s) = [token |-> s, left |-> <<>>]
<1> DEFINE n == Len(s)
<1>0. n \in Nat \ {0} /\ DOMAIN s = 1..n
  BY DEF Strings
<1>1. \A i \in 1..n : s[i] # "="
  BY <1>0 DEF Where
<1>2. strtok_r(s) = Token(s, 1, n + 1 - 1, n + 1 + 1)
  BY <1>0, <1>1, TokenIs
<1>3. n + 1 - 1 = n /\ SubSeq(s, n + 1 + 1, n) = <<>>
  BY <1>0, SubSeqEmpty
<1>4. SubSeq(s, 1, n) = s
  BY SubSeqFull DEF Strings
<1> QED BY <1>2, <1>3, <1>4 DEF Token

LEMMA AtMostOne == ASSUME NEW S, NEW x \in S PROVE <<>> \in Seq(S) /\ <<x>> \in Seq(S)
  OBVIOUS

LEMMA TokenType ==
    ASSUME NEW s \in Strings
    PROVE  strtok_r(s).token \in Strings /\ strtok_r(s).left \in Strings
<1> DEFINE others == DOMAIN s \ Where(s, "=")
           first == Min(others)
           ends == {i \in Where(s, "=") : i > first} \cup {Len(s) + 1}
           end == Min(ends)
<1>0. Len(s) \in Nat /\ DOMAIN s = 1..Len(s) /\ <<>> \in Strings
  BY DEF Strings
<1>1. CASE others = {}
  BY <1>0, <1>1 DEF strtok_r, NULL
<1>2. CASE others # {}
  <2>1. others \in SUBSET (1..Len(s))
    BY <1>0
  <2>2. first \in 1..Len(s)
    BY <1>0, <1>2, <2>1, SpanOf
  <2>3. ends \in SUBSET (1..(Len(s) + 1)) /\ ends # {} /\ Len(s) + 1 \in Nat
    BY <1>0 DEF Where
  <2>4. end \in 1..(Len(s) + 1)
    BY <2>3, SpanOf
  <2>5. strtok_r(s) = [token |-> SubSeq(s, first, end - 1), left |-> SubSeq(s, end + 1, Len(s))]
    BY <1>2 DEF strtok_r, After
  <2> HIDE DEF first, end
  <2>6. first \in 1..(Len(s) + 1) /\ end - 1 \in 0..Len(s)
    BY <1>0, <2>2, <2>4
  <2>7. SubSeq(s, first, end - 1) \in Strings
    BY <2>6, PartOf
  <2>8. SubSeq(s, end + 1, Len(s)) \in Strings
    <3>1. CASE end = Len(s) + 1
      <4>1. end + 1 \in Int /\ Len(s) \in Int /\ Len(s) < end + 1
        BY <1>0, <3>1
      <4>2. SubSeq(s, end + 1, Len(s)) = <<>>
        BY <4>1, SubSeqEmpty
      <4> QED BY <1>0, <4>2
    <3>2. CASE end # Len(s) + 1
      <4>1. end + 1 \in 1..(Len(s) + 1) /\ Len(s) \in 0..Len(s)
        BY <1>0, <2>4, <3>2
      <4> QED BY <4>1, PartOf
    <3> QED BY <3>1, <3>2
  <2> QED BY <2>5, <2>7, <2>8
<1> QED BY <1>1, <1>2

\* One line: the search finds the value that was shown with the key, and nothing when
\* nothing or another key was shown.
FoundAsShown(piece) ==
    \/ Shown(piece) = <<>> /\ Found(piece) = <<>>
    \/ \E e \in Settings :
         /\ Shown(piece) = <<e>>
         /\ Found(piece) = IF e.key = search_key THEN <<e.value>> ELSE <<>>

LEMMA ShownOf ==
    ASSUME NEW piece \in Strings, piece # <<>>
    PROVE  Shown(piece) = <<>> \/ \E e \in Settings : Shown(piece) = <<e>>
<1> DEFINE n == Len(piece)
           l == Chomp(piece)
           equals == Where(l, "=")
           key == trim_string(Until(l, Min(equals)))
           value == trim_string(After(l, Min(equals)))
<1>0. n \in Nat \ {0} /\ DOMAIN piece = 1..n
  BY DEF Strings
<1>1. l \in Strings
  <2>1. CASE Where(piece, "\n") = {}
    BY <2>1 DEF Chomp
  <2>2. CASE Where(piece, "\n") # {}
    <3>1. Where(piece, "\n") \in SUBSET (1..n)
      BY <1>0 DEF Where
    <3>2. Min(Where(piece, "\n")) \in 1..n
      BY <1>0, <2>2, <3>1, SpanOf
    <3>3. SubSeq(piece, 1, Min(Where(piece, "\n")) - 1) \in Strings
      BY <1>0, <3>2, PartOf
    <3> QED BY <2>2, <3>3 DEF Chomp, Until
  <2> QED BY <2>1, <2>2
<1> HIDE DEF l
<1>2. CASE equals = {}
  BY <1>2 DEF Shown, l
<1>3. CASE equals # {}
  <2>1. equals \in SUBSET (1..Len(l)) /\ Len(l) \in Nat
    BY <1>1 DEF Where, Strings
  <2>2. Min(equals) \in 1..Len(l)
    BY <1>3, <2>1, SpanOf
  <2>3. Until(l, Min(equals)) \in Strings /\ After(l, Min(equals)) \in Strings
    BY <1>1, <2>1, <2>2, PartOf DEF Until, After
  <2>4. [key |-> key, value |-> value] \in Settings
    BY <2>3, Trimmed DEF Settings
  <2>5. Shown(piece) = <<>> \/ Shown(piece) = <<[key |-> key, value |-> value]>>
    BY DEF Shown, l
  <2> QED BY <2>4, <2>5
<1> QED BY <1>2, <1>3

\* Positions behind the '=' at e, in a line of n characters and without its last.
LEMMA Behind ==
    ASSUME NEW n \in Nat, NEW e \in 1..(n - 1)
    PROVE  /\ n - e \in Nat \ {0} /\ e + 1 + (n - e) - 1 = n
           /\ e # n - 1 =>
                /\ e + 1 \in 1..n /\ n \in 1..n /\ 1 \in 1..(n - (e + 1) + 1)
                /\ n - e - 1 \in 1..(n - (e + 1) + 1)
                /\ e + 1 + 1 - 1 = e + 1 /\ e + 1 + (n - e - 1) - 1 = n - 1
                /\ 1 \in 1..n /\ n - 1 \in 1..n /\ e + 1 \in 1..(n - 1 - 1 + 1)
                /\ n - 1 \in 1..(n - 1 - 1 + 1)
                /\ 1 + (e + 1) - 1 = e + 1 /\ 1 + (n - 1) - 1 = n - 1
  OBVIOUS

LEMMA LineFoundAsShown ==
    ASSUME NEW piece \in Strings, piece # <<>>, search_key # <<>>, Unambiguous(piece),
           \A i \in 1..(Len(piece) - 1) : piece[i] # "\n"
    PROVE  FoundAsShown(piece)
<1> DEFINE n == Len(piece)
           l == Chomp(piece)
           tok == strtok_r(piece)
<1>0. n \in Nat \ {0} /\ DOMAIN piece = 1..n
  BY DEF Strings
<1>1. CASE Skipped(piece)
  BY <1>1 DEF FoundAsShown, Shown, Found
<1>2. ASSUME ~Skipped(piece) PROVE FoundAsShown(piece)
  <2>0. Cardinality(Where(piece, "=")) <= 1 /\ piece[n] # "="
    BY <1>2 DEF Unambiguous, Last
  <2>1. l = IF piece[n] = "\n" THEN SubSeq(piece, 1, n - 1) ELSE piece
    <3>1. CASE piece[n] = "\n"
      <4>1. Where(piece, "\n") = {n}
        BY <1>0, <3>1 DEF Where
      <4>2. Min({n}) = n
        BY <1>0, SmallestIs
      <4> QED BY <3>1, <4>1, <4>2 DEF Chomp, Until
    <3>2. CASE piece[n] # "\n"
      <4>1. Where(piece, "\n") = {}
        BY <1>0, <3>2 DEF Where
      <4> QED BY <3>2, <4>1 DEF Chomp
    <3> QED BY <3>1, <3>2
  <2>2. /\ l \in Strings /\ Len(l) = (IF piece[n] = "\n" THEN n - 1 ELSE n)
        /\ \A i \in 1..Len(l) : l[i] = piece[i]
    BY <1>0, <2>1, PartOf
  <2>3. Where(l, "=") = Where(piece, "=")
    <3>1. DOMAIN l = 1..Len(l)
      BY <2>2 DEF Strings
    <3>2. CASE piece[n] = "\n"
      <4>1. DOMAIN l = 1..(n - 1) /\ \A i \in 1..(n - 1) : l[i] = piece[i]
        BY <2>2, <3>1, <3>2
      <4>2. 1..n = (1..(n - 1)) \cup {n}
        BY <1>0
      <4> HIDE DEF l
      <4> QED BY <1>0, <2>0, <4>1, <4>2 DEF Where
    <3>3. CASE piece[n] # "\n"
      BY <2>1, <3>3
    <3> QED BY <3>2, <3>3
  <2> HIDE DEF l, tok
  <2>4. CASE Where(piece, "=") = {}
    <3>1. Shown(piece) = <<>>
      BY <2>3, <2>4 DEF Shown, l
    <3>2. tok = [token |-> piece, left |-> <<>>]
      BY <2>4, WholeToken DEF tok
    <3>3. strtok_r(tok.left) = NULL
      BY <3>2, NoToken
    <3>4. Found(piece) = <<>>
      BY <3>3 DEF Found, tok
    <3> QED BY <3>1, <3>4 DEF FoundAsShown
  <2>5. CASE Where(piece, "=") # {}
    <3>1. PICK e \in 1..n : piece[e] = "="
      BY <1>0, <2>5 DEF Where
    <3>2. Where(piece, "=") = {e}
      <4>1. IsFiniteSet(Where(piece, "="))
        <5>1. IsFiniteSet(1..n) /\ Where(piece, "=") \subseteq 1..n
          BY <1>0, FS_Interval DEF Where
        <5> QED BY <5>1, FS_Subset
      <4>2. Cardinality(Where(piece, "=")) = 1
        BY <2>0, <2>5, <4>1, FS_EmptySet, FS_CardinalityType
      <4>3. PICK x : Where(piece, "=") = {x}
        BY <4>1, <4>2, FS_Singleton
      <4> QED BY <1>0, <3>1, <4>3 DEF Where
    <3>3. e \in 1..(n - 1) /\ \A i \in 1..n : piece[i] = "=" <=> i = e
      BY <1>0, <2>0, <3>1, <3>2 DEF Where
    <3>4. Min(Where(l, "=")) = e
      BY <2>3, <3>2, <3>3, SmallestIs
    <3>5. CASE e = 1
      <4>1. Until(l, e) = <<>>
        BY <2>2, <3>5, SubSeqEmpty DEF Until
      <4>2. trim_string(<<>>) = <<>>
        BY DEF trim_string
      <4>3. Shown(piece) = <<>>
        BY <3>4, <4>1, <4>2 DEF Shown, l
      <4>4. tok = Token(piece, 2, n + 1 - 1, n + 1 + 1)
        <5>1. 2 \in 1..n /\ n + 1 \in 1..(n + 1) /\ 2 < n + 1
          BY <1>0, <3>3, <3>5
        <5>2. piece[2] # "=" /\ (\A i \in 1..(2 - 1) : piece[i] = "=")
              /\ \A i \in 2..(n + 1 - 1) : piece[i] # "="
          BY <1>0, <3>3, <3>5
        <5> QED BY <5>1, <5>2, TokenIs DEF tok
      <4>5. tok.left = <<>>
        BY <1>0, <4>4, SubSeqEmpty DEF Token
      <4>6. Found(piece) = <<>>
        BY <4>5, NoToken DEF Found, tok
      <4> QED BY <4>3, <4>6 DEF FoundAsShown
    <3>6. CASE e # 1
      <4> DEFINE before == SubSeq(piece, 1, e - 1)
                 behind == SubSeq(piece, e + 1, n)
                 value == SubSeq(l, e + 1, Len(l))
      <4>1. /\ before \in Strings /\ before # <<>>
            /\ behind \in Strings /\ Len(behind) = n - e
            /\ \A i \in 1..(n - e) : behind[i] = piece[e + 1 + i - 1]
        <5>1. 1 \in 1..(n + 1) /\ e - 1 \in 1..n /\ e + 1 \in 1..(n + 1) /\ n \in 0..n
              /\ n - (e + 1) + 1 = n - e /\ e + 1 <= n /\ e - 1 - 1 + 1 = e - 1
          BY <1>0, <3>3, <3>6
        <5>2. before \in Strings /\ Len(before) = e - 1
          BY <5>1, PartOf
        <5>3. /\ behind \in Strings /\ Len(behind) = n - e
              /\ \A i \in 1..(n - e) : behind[i] = piece[e + 1 + i - 1]
          BY <5>1, PartOf
        <5> QED BY <5>1, <5>2, <5>3
      <4>2. tok = Token(piece, 1, e - 1, e + 1)
        <5>1. 1 \in 1..n /\ e \in 1..(n + 1) /\ 1 < e /\ 1..(1 - 1) = {}
          BY <1>0, <3>3, <3>6
        <5>2. piece[1] # "=" /\ piece[e] = "=" /\ \A i \in 1..(e - 1) : piece[i] # "="
          BY <1>0, <3>3, <3>6
        <5> QED BY <5>1, <5>2, TokenIs DEF tok
      <4>3. tok.token = before /\ tok.left = behind
        BY <4>2 DEF Token
      <4>4. strtok_r(behind) = [token |-> behind, left |-> <<>>] /\ behind # <<>>
        <5>1. behind # <<>>
          <6>1. Len(behind) # 0
            BY <1>0, <3>3, <4>1, Behind
          <6> QED BY <6>1
        <5>2. \A i \in 1..(n - e) : behind[i] # "="
          BY <1>0, <3>3, <4>1
        <5>3. Where(behind, "=") = {}
          BY <4>1, <5>2 DEF Where, Strings
        <5> QED BY <4>1, <5>1, <5>3, WholeToken
      <4>5. tok # NULL /\ strtok_r(tok.left) # NULL /\ strtok_r(tok.left).token = behind
        BY <4>1, <4>3, <4>4 DEF NULL
      <4>6. Until(l, e) = before
        BY <1>0, <2>1, <2>2, <3>3, PartOf DEF Until, Strings
      <4>7. trim_string(value) = trim_string(behind)
        <5>1. CASE piece[n] # "\n"
          BY <2>1, <5>1
        <5>2. CASE piece[n] = "\n"
          <6>1. l = SubSeq(piece, 1, n - 1) /\ Len(l) = n - 1
            BY <2>1, <2>2, <5>2
          <6>2. behind # <<>> /\ isspace(behind[Len(behind)])
            <7>1. n - e \in 1..(n - e) /\ e + 1 + (n - e) - 1 = n
              BY <1>0, <3>3, Behind
            <7>2. behind[Len(behind)] = piece[n]
              BY <4>1, <7>1
            <7> QED BY <4>4, <5>2, <7>2 DEF isspace
          <6>3. trim_string(SubSeq(behind, 1, n - e - 1)) = trim_string(behind)
            BY <4>1, <6>2, TrimBlank
          <6>4. SubSeq(behind, 1, n - e - 1) = SubSeq(l, e + 1, n - 1)
            <7>1. CASE e = n - 1
              BY <1>0, <7>1, SubSeqEmpty
            <7>2. CASE e # n - 1
              <8>1. /\ e + 1 \in 1..n /\ n \in 1..n /\ 1 \in 1..(n - (e + 1) + 1)
                    /\ n - e - 1 \in 1..(n - (e + 1) + 1)
                    /\ e + 1 + 1 - 1 = e + 1 /\ e + 1 + (n - e - 1) - 1 = n - 1
                BY <1>0, <3>3, <7>2, Behind
              <8>2. SubSeq(behind, 1, n - e - 1) = SubSeq(piece, e + 1 + 1 - 1, e + 1 + (n - e - 1) - 1)
                BY <8>1, SubSeqOfSubSeq DEF Strings
              <8>3. /\ 1 \in 1..n /\ n - 1 \in 1..n /\ e + 1 \in 1..(n - 1 - 1 + 1)
                    /\ n - 1 \in 1..(n - 1 - 1 + 1)
                    /\ 1 + (e + 1) - 1 = e + 1 /\ 1 + (n - 1) - 1 = n - 1
                BY <1>0, <3>3, <7>2, Behind
              <8>4. SubSeq(l, e + 1, n - 1) = SubSeq(piece, 1 + (e + 1) - 1, 1 + (n - 1) - 1)
                BY <6>1, <8>3, SubSeqOfSubSeq DEF Strings
              <8> QED BY <8>1, <8>2, <8>3, <8>4
            <7> QED BY <7>1, <7>2
          <6> QED BY <6>1, <6>3, <6>4
        <5> QED BY <5>1, <5>2
      <4>8. Shown(piece) = IF trim_string(before) = <<>> THEN <<>>
                          ELSE <<[key |-> trim_string(before), value |-> trim_string(behind)]>>
        BY <1>2, <2>3, <2>5, <3>4, <4>6, <4>7 DEF Shown, l, After
      <4>9. Found(piece) = IF trim_string(before) # search_key THEN <<>>
                          ELSE <<trim_string(behind)>>
        BY <1>2, <4>3, <4>5 DEF Found, tok
      <4>10. [key |-> trim_string(before), value |-> trim_string(behind)] \in Settings
        BY <4>1, Trimmed DEF Settings
      <4> QED BY <4>8, <4>9, <4>10 DEF FoundAsShown
    <3> QED BY <3>5, <3>6
  <2> QED BY <2>4, <2>5
<1> QED BY <1>1, <1>2

\* One entry more, and its value if it has the key.
LEMMA OneEntryMore ==
    ASSUME NEW key, NEW entries \in Seq(Settings), NEW values \in Seq(Strings),
           NEW e \in Settings, ValuesOf(key, entries, values)
    PROVE  ValuesOf(key, entries \o <<e>>,
                    values \o (IF e.key = key THEN <<e.value>> ELSE <<>>))
<1> DEFINE n == Len(entries)
           m == Len(values)
           more == entries \o <<e>>
<1>1. n \in Nat /\ m \in Nat /\ DOMAIN entries = 1..n /\ DOMAIN values = 1..m
  OBVIOUS
<1>2. PICK at \in [1..m -> 1..n] :
        /\ \A j, k \in 1..m : j < k => at[j] < at[k]
        /\ {at[j] : j \in 1..m} = {i \in 1..n : entries[i].key = key}
        /\ \A j \in 1..m : values[j] = entries[at[j]].value
  BY <1>1 DEF ValuesOf
<1>3. DOMAIN more = 1..(n + 1) /\ more[n + 1] = e /\ \A i \in 1..n : more[i] = entries[i]
  BY <1>1
<1> HIDE DEF n, m, more
<1>4. \A j \in 1..m : at[j] \in 1..n /\ entries[at[j]].key = key
  BY <1>2
<1>5. CASE e.key = key
  <2> DEFINE longer == values \o <<e.value>>
             to == [j \in 1..(m + 1) |-> IF j = m + 1 THEN n + 1 ELSE at[j]]
  <2>1. DOMAIN longer = 1..(m + 1) /\ longer[m + 1] = e.value
        /\ \A j \in 1..m : longer[j] = values[j]
    BY <1>1 DEF Settings, m
  <2>2. to \in [1..(m + 1) -> 1..(n + 1)] /\ to[m + 1] = n + 1 /\ \A j \in 1..m : to[j] = at[j]
    BY <1>1, <1>2
  <2>3. \A j \in 1..(m + 1) : j = m + 1 \/ j \in 1..m
    BY <1>1
  <2> HIDE DEF to, longer
  <2>4. ASSUME NEW j \in 1..(m + 1), NEW k \in 1..(m + 1), j < k PROVE to[j] < to[k]
    <3>1. j \in 1..m /\ to[j] = at[j] /\ at[j] \in 1..n
      BY <1>1, <1>4, <2>2, <2>3, <2>4
    <3>2. CASE k = m + 1
      BY <1>1, <2>2, <3>1, <3>2
    <3>3. CASE k \in 1..m
      BY <1>2, <2>2, <2>4, <3>1, <3>3
    <3> QED BY <2>3, <3>2, <3>3
  <2>5. {to[j] : j \in 1..(m + 1)} = {i \in 1..(n + 1) : more[i].key = key}
    <3>1. ASSUME NEW j \in 1..(m + 1) PROVE to[j] \in 1..(n + 1) /\ more[to[j]].key = key
      BY <1>1, <1>3, <1>4, <1>5, <2>2, <2>3
    <3>2. ASSUME NEW i \in 1..(n + 1), more[i].key = key PROVE \E j \in 1..(m + 1) : to[j] = i
      <4>1. CASE i = n + 1
        BY <1>1, <2>2, <4>1
      <4>2. CASE i \in 1..n
        <5>1. \E j \in 1..m : at[j] = i
          BY <1>2, <1>3, <3>2, <4>2
        <5> QED BY <1>1, <2>2, <5>1
      <4> QED BY <1>1, <4>1, <4>2
    <3> QED BY <3>1, <3>2
  <2>6. \A j \in 1..(m + 1) : longer[j] = more[to[j]].value
    BY <1>1, <1>2, <1>3, <1>4, <2>1, <2>2, <2>3
  <2>7. ValuesOf(key, more, longer)
    BY <1>3, <2>1, <2>2, <2>4, <2>5, <2>6 DEF ValuesOf
  <2> QED BY <1>5, <2>7 DEF more, longer
<1>6. CASE e.key # key
  <2>1. at \in [1..m -> 1..(n + 1)]
    BY <1>1, <1>2
  <2>2. {i \in 1..(n + 1) : more[i].key = key} = {i \in 1..n : entries[i].key = key}
    BY <1>1, <1>3, <1>6
  <2>3. \A j \in 1..m : values[j] = more[at[j]].value
    BY <1>2, <1>3
  <2>4. ValuesOf(key, more, values)
    BY <1>1, <1>2, <1>3, <2>1, <2>2, <2>3 DEF ValuesOf
  <2>5. values \o <<>> = values
    OBVIOUS
  <2> QED BY <1>6, <2>4, <2>5 DEF more
<1> QED BY <1>5, <1>6

LEMMA NoValues == ASSUME NEW key PROVE ValuesOf(key, <<>>, <<>>)
<1>1. <<>> \in [DOMAIN <<>> -> DOMAIN <<>>] /\ DOMAIN <<>> = {}
  OBVIOUS
<1> QED BY <1>1 DEF ValuesOf

\* The file is about to be read.
LEMMA InitConfig == ConfigInit => ConfigIInv
<1> SUFFICES ASSUME ConfigInit PROVE ConfigIInv
  OBVIOUS
<1>1. config \in Strings /\ <<>> \in Strings /\ <<>> \in Seq(Settings) /\ <<>> \in Seq(Strings)
  BY ConfigAssumption DEF ConfigInit, Strings
<1>2. Turn(config, <<>>) \in Turns
  BY <1>1 DEF Turn, Turns
<1>3. turns = <<Turn(config, <<>>)>> /\ turns # <<>> /\ Len(turns) = 1 /\ turns[1] = Turn(config, <<>>)
  BY DEF ConfigInit
<1>4. ConfigTypeOK
  BY <1>1, <1>2, <1>3 DEF ConfigInit, ConfigTypeOK
<1>5. TurnsInv
  BY <1>3 DEF ConfigInit, TurnsInv, Last, Turn
<1>6. SearchInv /\ SearchFindsWhatIsShown
  BY <1>3 DEF ConfigInit, SearchInv, SearchFindsWhatIsShown, Last, Turn
<1> QED BY <1>4, <1>5, <1>6 DEF ConfigIInv

\* A turn of the first loop.
LEMMA ReadConfigStep ==
    ASSUME ConfigIInv, read_config_file
    PROVE  ConfigIInv'
<1> DEFINE piece == fgets(rest)
           n == Len(turns)
<1>0. /\ rest \in Strings /\ rest # <<>> /\ turns \in Seq(Turns)
      /\ n \in Nat \ {0} /\ turns[n] = Turn(rest, shown) /\ found = <<>>
  <2>1. rest \in Strings /\ rest # <<>> /\ turns \in Seq(Turns)
        /\ turns # <<>> /\ found = <<>>
    BY DEF ConfigIInv, ConfigTypeOK, TurnsInv, SearchInv, read_config_file
  <2>2. n \in Nat \ {0} /\ turns[n] \in Turns
    BY <2>1, ElementOfSeq
  <2>3. turns[n].left = rest /\ turns[n].entries = shown
    BY DEF ConfigIInv, TurnsInv, SearchInv, read_config_file, Last
  <2> QED BY <2>1, <2>2, <2>3 DEF Turn, Turns
<1>1. /\ piece \in Strings /\ piece # <<>> /\ After(rest, Len(piece)) \in Strings
  BY <1>0, LineRead
<1>2. shown \in Seq(Settings) /\ shown \o Shown(piece) \in Seq(Settings)
  <2>1. shown \in Seq(Settings)
    <3>1. turns[n] \in Turns
      BY <1>0, ElementOfSeq
    <3> QED BY <1>0, <3>1 DEF Turn, Turns
  <2>2. Shown(piece) \in Seq(Settings)
    <3>1. Shown(piece) = <<>> \/ \E e \in Settings : Shown(piece) = <<e>>
      BY <1>1, ShownOf
    <3>2. CASE Shown(piece) = <<>>
      BY <3>2
    <3>3. ASSUME NEW e \in Settings, Shown(piece) = <<e>> PROVE Shown(piece) \in Seq(Settings)
      BY <3>3, AtMostOne
    <3> QED BY <3>1, <3>2, <3>3
  <2> QED BY <2>1, <2>2
<1>3. /\ rest' = After(rest, Len(piece)) /\ shown' = shown \o Shown(piece)
      /\ plain' = (plain /\ Unambiguous(piece)) /\ turns' = Append(turns, Turn(rest', shown'))
      /\ phase = "read" /\ phase' = "read" /\ UNCHANGED <<config, search_key, found>>
  BY DEF read_config_file
<1> HIDE DEF piece
<1>4. Turn(rest', shown') \in Turns
  BY <1>1, <1>2, <1>3 DEF Turn, Turns
<1>5. /\ turns' \in Seq(Turns) /\ Len(turns') = n + 1
      /\ turns' # <<>> /\ turns'[n + 1] = Turn(rest', shown') /\ \A i \in 1..n : turns'[i] = turns[i]
  BY <1>0, <1>3, <1>4, AppendProperties
<1> HIDE DEF n
<1>6. ConfigTypeOK'
  BY <1>1, <1>3, <1>5 DEF ConfigIInv, ConfigTypeOK
<1>7. TurnsInv'
  <2>1. turns'[1] = Turn(config', <<>>)
    BY <1>0, <1>3, <1>5 DEF ConfigIInv, TurnsInv
  <2>2. Last(turns').entries = shown'
    BY <1>5 DEF Last, Turn
  <2>3. ASSUME NEW i \in 1..(Len(turns') - 1)
        PROVE  /\ turns'[i].left # <<>> /\ turns'[i + 1] = NextTurn(turns'[i])
               /\ plain' => Unambiguous(fgets(turns'[i].left))
    <3>0. i \in 1..n
      BY <1>0, <1>5
    <3>1. CASE i = n
      <4>1. turns'[i] = Turn(rest, shown) /\ turns'[i + 1] = Turn(rest', shown')
        BY <1>0, <1>5, <3>0, <3>1
      <4>2. turns'[i].left = rest /\ turns'[i].entries = shown
        BY <4>1 DEF Turn
      <4> QED BY <1>0, <1>3, <4>1, <4>2 DEF piece, NextTurn
    <3>2. CASE i # n
      <4>1. i \in 1..(n - 1) /\ i + 1 \in 1..n
        BY <1>0, <3>0, <3>2
      <4>2. turns'[i] = turns[i] /\ turns'[i + 1] = turns[i + 1]
        BY <1>5, <3>0, <4>1
      <4>3. /\ turns[i].left # <<>> /\ turns[i + 1] = NextTurn(turns[i])
            /\ plain => Unambiguous(fgets(turns[i].left))
        BY <4>1 DEF ConfigIInv, TurnsInv, n
      <4> QED BY <1>3, <4>2, <4>3
    <3> QED BY <3>1, <3>2
  <2> QED BY <1>5, <2>1, <2>2, <2>3 DEF TurnsInv
<1>8. SearchInv' /\ SearchFindsWhatIsShown'
  BY <1>0, <1>3, <1>5 DEF SearchInv, SearchFindsWhatIsShown, Last, Turn
<1> QED BY <1>6, <1>7, <1>8 DEF ConfigIInv

\* The key is entered, and the file opened again.
LEMMA EnterKeyStep ==
    ASSUME ConfigIInv, enter_key
    PROVE  ConfigIInv'
<1>1. /\ phase = "read" /\ rest = <<>> /\ UNCHANGED <<config, shown, found, plain, turns>>
      /\ \/ search_key' = <<>> /\ phase' = "done" /\ rest' = rest
         \/ search_key' # <<>> /\ phase' = "search" /\ rest' = config
  BY DEF enter_key
<1>2. ConfigTypeOK'
  BY <1>1 DEF ConfigIInv, ConfigTypeOK
<1>3. TurnsInv'
  BY <1>1 DEF ConfigIInv, TurnsInv
<1>4. /\ Last(turns).left = <<>> /\ found = <<>> /\ turns # <<>> /\ turns[1] = Turn(config, <<>>)
      /\ 1 \in DOMAIN turns
  <2>1. turns # <<>> /\ turns \in Seq(Turns)
    BY DEF ConfigIInv, ConfigTypeOK, TurnsInv
  <2>2. 1 \in DOMAIN turns
    BY <2>1
  <2> QED BY <1>1, <2>1, <2>2 DEF ConfigIInv, TurnsInv, SearchInv
<1>5. SearchInv'
  <2>1. phase' = "search" => turns'[1].left = rest' /\ ValuesOf(search_key', turns'[1].entries, found')
    BY <1>1, <1>4, NoValues DEF Turn
  <2> QED BY <1>1, <1>4, <2>1 DEF SearchInv
<1>6. SearchFindsWhatIsShown'
  BY <1>1 DEF SearchFindsWhatIsShown
<1> QED BY <1>2, <1>3, <1>5, <1>6 DEF ConfigIInv

\* A turn of the second loop, and its end.
LEMMA SearchConfigStep ==
    ASSUME ConfigIInv, search_config
    PROVE  ConfigIInv'
<1> DEFINE n == Len(turns)
           piece == fgets(rest)
<1>0. /\ phase = "search" /\ UNCHANGED <<config, search_key, shown, plain, turns>>
      /\ turns \in Seq(Turns) /\ n \in Nat \ {0}
      /\ rest \in Strings /\ found \in Seq(Strings) /\ search_key # <<>>
      /\ turns[n].left = <<>> /\ turns[n].entries = shown /\ DOMAIN turns = 1..n
  <2>1. /\ turns \in Seq(Turns)
        /\ rest \in Strings /\ found \in Seq(Strings) /\ turns # <<>>
    BY DEF ConfigIInv, ConfigTypeOK, TurnsInv
  <2>2. n \in Nat \ {0} /\ DOMAIN turns = 1..n
    BY <2>1
  <2>3. phase = "search" /\ UNCHANGED <<config, search_key, shown, plain, turns>>
    BY DEF search_config
  <2>4. search_key # <<>> /\ turns[n].left = <<>> /\ turns[n].entries = shown
    BY <2>3 DEF ConfigIInv, TurnsInv, SearchInv, Last
  <2> QED BY <2>1, <2>2, <2>3, <2>4
<1>1. PICK i \in 1..n : turns[i].left = rest /\ (plain => ValuesOf(search_key, turns[i].entries, found))
  BY <1>0 DEF ConfigIInv, SearchInv
<1>2. TurnsInv'
  BY <1>0 DEF ConfigIInv, TurnsInv
<1> DEFINE next == turns[i + 1]
<1>3. ASSUME i # n
      PROVE  /\ rest # <<>> /\ (plain => Unambiguous(piece))
             /\ next = Turn(After(rest, Len(piece)), turns[i].entries \o Shown(piece))
  <2>0. n \in Nat
    BY <1>0
  <2> HIDE DEF n
  <2>1. i \in 1..(n - 1)
    BY <1>3, <2>0
  <2>2. /\ turns[i].left # <<>> /\ turns[i + 1] = NextTurn(turns[i])
        /\ plain => Unambiguous(fgets(turns[i].left))
    BY <2>1 DEF ConfigIInv, TurnsInv, n
  <2> QED BY <1>1, <2>2 DEF NextTurn
<1>4. CASE rest = <<>>
  <2>1. plain => ValuesOf(search_key, shown, found)
    BY <1>0, <1>1, <1>3, <1>4
  <2>2. phase' = "done" /\ UNCHANGED <<rest, found>>
    BY <1>4 DEF search_config
  <2>3. ConfigTypeOK'
    BY <1>0, <2>2 DEF ConfigIInv, ConfigTypeOK
  <2>4. SearchInv' /\ SearchFindsWhatIsShown'
    BY <1>0, <2>1, <2>2 DEF SearchInv, SearchFindsWhatIsShown, Last
  <2> QED BY <1>2, <2>3, <2>4 DEF ConfigIInv
<1>5. CASE rest # <<>>
  <2>0. i # n /\ i + 1 \in 1..n
    <3>1. i # n
      BY <1>0, <1>1, <1>5
    <3> HIDE DEF n
    <3> QED BY <1>0, <3>1
  <2>1. /\ piece \in Strings /\ piece # <<>> /\ After(rest, Len(piece)) \in Strings
        /\ \A k \in 1..(Len(piece) - 1) : piece[k] # "\n"
    BY <1>0, <1>5, LineRead
  <2>2. phase' = "search" /\ rest' = After(rest, Len(piece)) /\ found' = found \o Found(piece)
    BY <1>0, <1>5 DEF search_config
  <2>3. Found(piece) \in Seq(Strings)
    <3>1. trim_string(strtok_r(strtok_r(piece).left).token) \in Strings
      BY <2>1, TokenType, Trimmed
    <3>2. Found(piece) = <<>> \/ Found(piece) = <<trim_string(strtok_r(strtok_r(piece).left).token)>>
      BY DEF Found
    <3> QED BY <3>1, <3>2, AtMostOne
  <2>4. ConfigTypeOK'
    BY <1>0, <2>1, <2>2, <2>3 DEF ConfigIInv, ConfigTypeOK
  <2>5. next.left = rest' /\ next.entries = turns[i].entries \o Shown(piece)
    BY <1>3, <2>0, <2>2 DEF Turn
  <2>6. plain => ValuesOf(search_key, next.entries, found')
    <3> SUFFICES ASSUME plain PROVE ValuesOf(search_key, next.entries, found')
      OBVIOUS
    <3>1. turns[i] \in Turns
      BY <1>0, <1>1, ElementOfSeq
    <3>2. turns[i].entries \in Seq(Settings)
      BY <3>1 DEF Turns
    <3>3. ValuesOf(search_key, turns[i].entries, found)
      BY <1>1
    <3>4. FoundAsShown(piece)
      BY <1>0, <1>3, <2>0, <2>1, LineFoundAsShown
    <3>5. CASE Shown(piece) = <<>> /\ Found(piece) = <<>>
      <4>1. turns[i].entries \o <<>> = turns[i].entries /\ found \o <<>> = found
        BY <1>0, <3>2
      <4> QED BY <2>2, <2>5, <3>3, <3>5, <4>1
    <3>6. ASSUME NEW e \in Settings, Shown(piece) = <<e>>,
                 Found(piece) = IF e.key = search_key THEN <<e.value>> ELSE <<>>
          PROVE  ValuesOf(search_key, next.entries, found')
      BY <1>0, <2>2, <2>5, <3>2, <3>3, <3>6, OneEntryMore
    <3> QED BY <3>4, <3>5, <3>6 DEF FoundAsShown
  <2> HIDE DEF piece
  <2>7. SearchInv' /\ SearchFindsWhatIsShown'
    <3>1. i + 1 \in DOMAIN turns'
      BY <1>0, <2>0
    <3>2. turns'[i + 1].left = rest' /\ (plain' => ValuesOf(search_key', turns'[i + 1].entries, found'))
      BY <1>0, <2>5, <2>6
    <3>3. Last(turns').left = <<>>
      BY <1>0 DEF Last
    <3> QED BY <1>0, <2>2, <3>1, <3>2, <3>3 DEF SearchInv, SearchFindsWhatIsShown
  <2> QED BY <1>2, <2>4, <2>7 DEF ConfigIInv
<1> QED BY <1>4, <1>5

\* In a file without ambiguous lines search_config (lines 283 to 355) finds a key with
\* exactly the values that read_config_file (lines 152 to 258) showed it with, in
\* their order, and finds no key that was not shown.
THEOREM SearchFindsWhatIsShownHolds == ConfigSpec => []SearchFindsWhatIsShown
<1>1. ConfigIInv /\ [ConfigNext]_configVars => ConfigIInv'
  <2> SUFFICES ASSUME ConfigIInv, [ConfigNext]_configVars PROVE ConfigIInv'
    OBVIOUS
  <2>1. CASE UNCHANGED configVars
    BY <2>1 DEF configVars, ConfigIInv, ConfigTypeOK, TurnsInv, SearchInv, SearchFindsWhatIsShown
  <2> QED BY <2>1, ReadConfigStep, EnterKeyStep, SearchConfigStep DEF ConfigNext
<1>2. ConfigIInv => SearchFindsWhatIsShown
  BY DEF ConfigIInv
<1> QED BY InitConfig, <1>1, <1>2, PTL DEF ConfigSpec

-----------------------------------------------------------------------------
(***************************************************************************)
(* The collection: only the chosen program takes steps and the others      *)
(* rest, so that every behaviour of the collection is one of each program  *)
(* that has a module of its own, and keeps what was proved of it.          *)
(***************************************************************************)
LEMMA OneProgramRuns ==
    DemosNext => /\ [Next]_vars /\ [BoxNext]_boxVars /\ [TreeNext]_treeVars
                 /\ [TimersNext]_timerVars /\ [ConfigNext]_configVars
  BY DEF DemosNext, othersThanRing, othersThanBox, othersThanTree, othersThanConfig,
         othersThanTimers, othersThanMachine

\* In each behaviour of the collection there is one of each program.
LEMMA RunsEachProgram ==
    DemosSpec => Spec /\ BoxSpec /\ TreeSpec /\ TimersSpec /\ ConfigSpec
<1>1. DemosInit => Init /\ BoxInit /\ TreeInit /\ TimersInit /\ ConfigInit
  BY DEF DemosInit
<1>2. UNCHANGED <<vars, boxVars, treeVars, configVars, timerVars, machineVars>>
        => /\ UNCHANGED vars /\ UNCHANGED boxVars /\ UNCHANGED treeVars
           /\ UNCHANGED timerVars /\ UNCHANGED configVars
  OBVIOUS
<1> QED
  BY <1>1, <1>2, OneProgramRuns, PTL DEF DemosSpec, Spec, BoxSpec, TreeSpec, TimersSpec,
     ConfigSpec

\* Of the programs in the collection, whichever runs: the buffer is a bounded queue
\* until it is killed, and counts slots that it does not have only after kills between
\* its two calls of sem_unlink; the black box is a log that keeps its newest entries, a
\* run of the directory program that ends has done its part, each expiration of a timer
\* is in one count, and a key of a plain configuration file is found as it was shown.
THEOREM DemosKeepTheirPromises ==
    DemosSpec => /\ []SlotsConserved /\ []SavedWhenIdle /\ []ExpirationsAddUp
                 /\ []SearchFindsWhatIsShown
                 /\ ImplementsBoundedFifo /\ ImplementsBoundedLog /\ RunsDoTheirPart
  BY RunsEachProgram, SlotsConservedHolds, ImplementsBoundedFifoHolds, SavedWhenIdleHolds,
     ExpirationsAddUpHolds, SearchFindsWhatIsShownHolds, ImplementsBoundedLogHolds, RunsDoTheirPartHolds, PTL

-----------------------------------------------------------------------------
(***************************************************************************)
(* The demos of calls: nothing is used after it was destroyed.  First what *)
(* a program is made of: concatenations, loops, and the calls they use.    *)
(***************************************************************************)

\* A concatenation is a sequence, whose elements are those of its parts.
LEMMA Concatenation ==
    ASSUME NEW S, NEW T, NEW p \in Seq(S), NEW q \in Seq(T)
    PROVE  /\ p \o q \in Seq(S \cup T)
           /\ Len(p \o q) = Len(p) + Len(q)
           /\ \A k \in 1..Len(p) : (p \o q)[k] = p[k]
           /\ \A k \in 1..Len(q) : (p \o q)[Len(p) + k] = q[k]
           /\ \A k \in (Len(p) + 1)..(Len(p) + Len(q)) : (p \o q)[k] = q[k - Len(p)]
<1>1. p \in Seq(S \cup T) /\ q \in Seq(S \cup T)
  OBVIOUS
<1>2. p \o q \in Seq(S \cup T)
  BY <1>1
<1> QED BY <1>1, <1>2

\* p is a program, all of whose instructions are among the calls.
Instructions(p) == {p[k] : k \in 1..Len(p)}
Uses(p, calls) ==
    /\ Len(p) \in Nat /\ p = [k \in 1..Len(p) |-> p[k]]
    /\ \A k \in 1..Len(p) : p[k].call \in calls

LEMMA UsesIsSeq == ASSUME NEW p, NEW calls, Uses(p, calls) PROVE p \in Seq(Instructions(p))
<1>1. Len(p) \in Nat /\ p = [k \in 1..Len(p) |-> p[k]] /\ \A k \in 1..Len(p) : p[k] \in Instructions(p)
  BY DEF Uses, Instructions
<1> QED BY <1>1

LEMMA SeqUses ==
    ASSUME NEW S, NEW p \in Seq(S), NEW calls, \A k \in 1..Len(p) : p[k].call \in calls
    PROVE  Uses(p, calls)
BY DEF Uses

LEMMA OneCall ==
    ASSUME NEW i, NEW calls, i.call \in calls
    PROVE  Uses(<<i>>, calls)
<1>1. <<i>> \in Seq({i}) /\ Len(<<i>>) = 1 /\ <<i>>[1] = i
  BY AtMostOne
<1> QED BY <1>1 DEF Uses

LEMMA NoCall == ASSUME NEW calls PROVE Uses(<<>>, calls)
BY DEF Uses

LEMMA BothUse ==
    ASSUME NEW p, NEW q, NEW calls, Uses(p, calls), Uses(q, calls)
    PROVE  /\ Uses(p \o q, calls)
           /\ Len(p) \in Nat /\ Len(q) \in Nat /\ Len(p \o q) = Len(p) + Len(q)
           /\ \A k \in 1..Len(p) : (p \o q)[k] = p[k]
           /\ \A k \in 1..Len(q) : (p \o q)[Len(p) + k] = q[k]
<1>1. /\ p \in Seq(Instructions(p)) /\ q \in Seq(Instructions(q))
      /\ Len(p) \in Nat /\ Len(q) \in Nat
  BY UsesIsSeq DEF Uses
<1>2. /\ p \o q \in Seq(Instructions(p) \cup Instructions(q))
      /\ Len(p \o q) = Len(p) + Len(q)
      /\ \A k \in 1..Len(p) : (p \o q)[k] = p[k]
      /\ \A k \in 1..Len(q) : (p \o q)[Len(p) + k] = q[k]
      /\ \A k \in (Len(p) + 1)..(Len(p) + Len(q)) : (p \o q)[k] = q[k - Len(p)]
  BY <1>1, Concatenation
<1>3. ASSUME NEW k \in 1..Len(p \o q) PROVE (p \o q)[k].call \in calls
  <2>1. CASE k \in 1..Len(p)
    BY <1>2, <2>1 DEF Uses
  <2>2. CASE k \in (Len(p) + 1)..(Len(p) + Len(q))
    BY <1>1, <1>2, <2>2 DEF Uses
  <2> QED BY <1>1, <1>2, <2>1, <2>2
<1> QED BY <1>1, <1>2, <1>3, SeqUses

LEMMA UsesMore ==
    ASSUME NEW p, NEW few, NEW calls, Uses(p, few), few \subseteq calls
    PROVE  Uses(p, calls)
BY DEF Uses

\* Induction, for a set instead of a predicate.
LEMMA CountingUp ==
    ASSUME NEW S, 0 \in S, \A k \in Nat : k \in S => k + 1 \in S
    PROVE  Nat \subseteq S
<1> SUFFICES ASSUME Nat \ S # {} PROVE FALSE
  OBVIOUS
<1>1. PICK x \in Nat \ S : \A y \in Nat \ S : x <= y
  BY SmallestOf
<1>2. x # 0 /\ x - 1 \in Nat /\ x - 1 \in S
  BY <1>1
<1> QED BY <1>1, <1>2

\* f[k] is the concatenation of the first k rounds of a loop of n.
Flattens(f, s, n) == f = [i \in 1..n |-> IF i = 1 THEN s[i] ELSE f[i - 1] \o s[i]]

LEMMA FlattenExists == ASSUME NEW n \in Nat, NEW s PROVE \E f : Flattens(f, s, n)
<1> DEFINE S == {m \in Nat : \E f : Flattens(f, s, m)}
<1>1. 0 \in S
  <2> DEFINE e == [i \in 1..0 |-> IF i = 1 THEN s[i] ELSE <<>>]
  <2>1. Flattens(e, s, 0)
    BY DEF Flattens
  <2> QED BY <2>1
<1>2. ASSUME NEW m \in Nat, m \in S PROVE m + 1 \in S
  <2>1. PICK f : Flattens(f, s, m)
    BY <1>2
  <2> DEFINE g == [i \in 1..(m + 1) |-> IF i = 1 THEN s[i]
                                        ELSE IF i <= m THEN f[i] ELSE f[m] \o s[i]]
  <2>2. \A i \in 1..(m + 1) : i # 1 => g[i - 1] = f[i - 1]
    <3> SUFFICES ASSUME NEW i \in 1..(m + 1), i # 1 PROVE g[i - 1] = f[i - 1]
      OBVIOUS
    <3>1. i - 1 \in 1..m /\ i - 1 \in 1..(m + 1)
      OBVIOUS
    <3>2. f[i - 1] = IF i - 1 = 1 THEN s[i - 1] ELSE f[(i - 1) - 1] \o s[i - 1]
      BY <2>1, <3>1 DEF Flattens
    <3> QED BY <3>1, <3>2
  <2>3. \A i \in 1..m : i # 1 => f[i] = f[i - 1] \o s[i]
    BY <2>1 DEF Flattens
  <2>4. g = [i \in 1..(m + 1) |-> IF i = 1 THEN s[i] ELSE g[i - 1] \o s[i]]
    <3> DEFINE h == [i \in 1..(m + 1) |-> IF i = 1 THEN s[i] ELSE g[i - 1] \o s[i]]
    <3>1. \A i \in 1..(m + 1) : g[i] = h[i]
      <4> SUFFICES ASSUME NEW i \in 1..(m + 1), i # 1 PROVE g[i] = f[i - 1] \o s[i]
        BY <2>2
      <4>1. CASE i <= m
        <5>1. i \in 1..m /\ g[i] = f[i]
          BY <4>1
        <5> HIDE DEF g
        <5> QED BY <2>3, <5>1
      <4>2. CASE i = m + 1
        <5>1. i \in 1..(m + 1) /\ i # 1 /\ ~(i <= m) /\ m = i - 1
          BY <4>2
        <5>2. g[i] = f[m] \o s[i]
          BY <5>1
        <5> HIDE DEF g
        <5> QED BY <5>1, <5>2
      <4>3. i <= m \/ i = m + 1
        OBVIOUS
      <4> QED BY <4>1, <4>2, <4>3
    <3> QED BY <3>1
  <2> HIDE DEF g
  <2>5. Flattens(g, s, m + 1)
    BY <2>4 DEF Flattens
  <2> QED BY <2>5
<1> HIDE DEF S
<1>3. Nat \subseteq S
  BY <1>1, <1>2, CountingUp
<1> QED BY <1>3 DEF S

\* The rounds of a loop, one after the other: the recursion of FlattenSeq.
LEMMA FlattenUnfolds ==
    ASSUME NEW n \in Nat \ {0}, NEW s, s = [k \in 1..n |-> s[k]]
    PROVE  \E f : Flattens(f, s, n) /\ FlattenSeq(s) = f[n]
<1> DEFINE flatten == CHOOSE g : g = [i \in 1..n |-> IF i = 1 THEN s[i] ELSE g[i - 1] \o s[i]]
<1>1. Len(s) = n
  BY LenProperties
<1>2. FlattenSeq(s) = flatten[n]
  BY <1>1 DEF FlattenSeq
<1>3. \E f : Flattens(f, s, n)
  BY FlattenExists
<1>4. Flattens(flatten, s, n)
  BY <1>3 DEF Flattens
<1> QED BY <1>2, <1>4

\* The instructions of a loop are those of its rounds.
LEMMA FlattenUses ==
    ASSUME NEW n \in Nat, NEW s, s = [k \in 1..n |-> s[k]], NEW calls,
           \A k \in 1..n : Uses(s[k], calls)
    PROVE  Uses(FlattenSeq(s), calls)
<1>1. CASE n = 0
  <2>1. s = <<>> /\ Len(s) = 0
    BY <1>1
  <2> QED BY <2>1, NoCall DEF FlattenSeq
<1>2. CASE n # 0
  <2>1. PICK f : Flattens(f, s, n) /\ FlattenSeq(s) = f[n]
    BY <1>2, FlattenUnfolds
  <2>2. \A k \in 1..n : f[k] = IF k = 1 THEN s[k] ELSE f[k - 1] \o s[k]
    BY <2>1 DEF Flattens
  <2> DEFINE N == {k \in Nat : k \in 1..n => Uses(f[k], calls)}
  <2>3. 0 \in N
    OBVIOUS
  <2>4. ASSUME NEW k \in Nat, k \in N PROVE k + 1 \in N
    <3> SUFFICES ASSUME k + 1 \in 1..n PROVE Uses(f[k + 1], calls)
      OBVIOUS
    <3>1. Uses(s[k + 1], calls)
      OBVIOUS
    <3>2. CASE k = 0
      BY <2>2, <3>1, <3>2
    <3>3. CASE k # 0
      <4>1. k \in 1..n /\ (k + 1) - 1 = k /\ k + 1 # 1
        BY <3>3
      <4>2. Uses(f[k], calls)
        BY <2>4, <4>1
      <4>3. f[k + 1] = f[k] \o s[k + 1]
        BY <2>2, <4>1
      <4> QED BY <3>1, <4>2, <4>3, BothUse
    <3> QED BY <3>2, <3>3
  <2> HIDE DEF N
  <2>5. Nat \subseteq N
    BY <2>3, <2>4, CountingUp
  <2> QED BY <1>2, <2>1, <2>5 DEF N
<1> QED BY <1>1, <1>2

LEMMA Products ==
    /\ \A k, c \in Nat : k * c \in Nat /\ (k + 1) * c = k * c + c
    /\ \A i, k, c \in Nat : i <= k => i * c <= k * c
<1>1. \A k, c \in Nat : k * c \in Nat /\ (k + 1) * c = k * c + c
  OBVIOUS
<1>2. ASSUME NEW i \in Nat, NEW k \in Nat, NEW c \in Nat, i <= k PROVE i * c <= k * c
  <2>1. k - i \in Nat /\ (k - i) * c \in Nat /\ i * c \in Nat /\ k * c \in Nat
    BY <1>1, <1>2
  <2>2. k * c = i * c + (k - i) * c
    OBVIOUS
  <2> QED BY <2>1, <2>2
<1> QED BY <1>1, <1>2

\* The rounds of a loop that are equally long, c, come at equal distances.
Spaced(p, s, c, k) ==
    /\ Len(p) = k * c
    /\ \A i \in 1..k, j \in 1..c : p[(i - 1) * c + j] = s[i][j]

LEMMA OneRoundMore ==
    ASSUME NEW k \in Nat, NEW c \in Nat, NEW s, NEW p, NEW calls, Uses(p, calls), Spaced(p, s, c, k),
           Uses(s[k + 1], calls), Len(s[k + 1]) = c
    PROVE  Spaced(p \o s[k + 1], s, c, k + 1)
<1>2. Len(p) = k * c /\ k * c \in Nat /\ (k + 1) * c = k * c + c
  BY Products DEF Spaced
<1>3. /\ Len(p \o s[k + 1]) = k * c + c
      /\ \A i \in 1..(k * c) : (p \o s[k + 1])[i] = p[i]
      /\ \A j \in 1..c : (p \o s[k + 1])[k * c + j] = s[k + 1][j]
  <2> DEFINE l == k * c
  <2>1. Len(p) = l
    BY <1>2
  <2> HIDE DEF l
  <2>2. /\ Len(p \o s[k + 1]) = l + c
        /\ \A i \in 1..l : (p \o s[k + 1])[i] = p[i]
        /\ \A j \in 1..c : (p \o s[k + 1])[l + j] = s[k + 1][j]
    BY <2>1, BothUse
  <2> QED BY <2>2 DEF l
<1>4. ASSUME NEW i \in 1..(k + 1), NEW j \in 1..c
      PROVE  (p \o s[k + 1])[(i - 1) * c + j] = s[i][j]
  <2>1. CASE i = k + 1
    <3>1. (i - 1) * c = k * c
      BY <2>1
    <3> QED BY <1>3, <2>1, <3>1
  <2>2. CASE i # k + 1
    <3>1. i \in 1..k /\ i - 1 \in Nat /\ i \in Nat /\ i <= k
      BY <2>2
    <3> DEFINE a == (i - 1) * c
               b == i * c
               l == k * c
    <3>2. a \in Nat /\ b = a + c /\ b <= l /\ l \in Nat
      <4>1. ((i - 1) + 1) * c = (i - 1) * c + c /\ (i - 1) + 1 = i
        BY <3>1, Products
      <4> QED BY <3>1, <4>1, Products
    <3>3. p[a + j] = s[i][j] /\ (\A m \in 1..l : (p \o s[k + 1])[m] = p[m])
      BY <1>3, <3>1 DEF Spaced
    <3> HIDE DEF a, b, l
    <3>4. a + j \in 1..l
      BY <3>2
    <3>5. (p \o s[k + 1])[a + j] = s[i][j]
      BY <3>3, <3>4
    <3> QED BY <3>5 DEF a
  <2> QED BY <2>1, <2>2
<1> QED BY <1>2, <1>3, <1>4 DEF Spaced

LEMMA EqualRounds ==
    ASSUME NEW n \in Nat, NEW s, s = [k \in 1..n |-> s[k]], NEW c \in Nat, NEW calls,
           \A k \in 1..n : Uses(s[k], calls) /\ Len(s[k]) = c
    PROVE  Spaced(FlattenSeq(s), s, c, n)
<1>1. CASE n = 0
  <2>1. s = <<>> /\ Len(s) = 0 /\ n * c = 0
    BY <1>1
  <2> QED BY <1>1, <2>1 DEF FlattenSeq, Spaced
<1>2. CASE n # 0
  <2>1. PICK f : Flattens(f, s, n) /\ FlattenSeq(s) = f[n]
    BY <1>2, FlattenUnfolds
  <2>2. \A k \in 1..n : f[k] = IF k = 1 THEN s[k] ELSE f[k - 1] \o s[k]
    BY <2>1 DEF Flattens
  <2> DEFINE N == {k \in Nat : k \in 1..n => Uses(f[k], calls) /\ Spaced(f[k], s, c, k)}
  <2>3. 0 \in N
    OBVIOUS
  <2>4. ASSUME NEW k \in Nat, k \in N PROVE k + 1 \in N
    <3> SUFFICES ASSUME k + 1 \in 1..n
                 PROVE  Uses(f[k + 1], calls) /\ Spaced(f[k + 1], s, c, k + 1)
      OBVIOUS
    <3>1. Uses(s[k + 1], calls) /\ Len(s[k + 1]) = c
      OBVIOUS
    <3>2. CASE k = 0
      <4>1. f[1] = s[1] /\ k + 1 = 1 /\ 1 * c = c
        BY <2>2, <3>2
      <4>2. \A i \in 1..1, j \in 1..c : i = 1 /\ (i - 1) * c + j = j
        OBVIOUS
      <4> QED BY <3>1, <4>1, <4>2 DEF Spaced
    <3>3. CASE k # 0
      <4>1. k \in 1..n /\ (k + 1) - 1 = k /\ k + 1 # 1
        BY <3>3
      <4>2. Uses(f[k], calls) /\ Spaced(f[k], s, c, k)
        BY <2>4, <4>1
      <4>3. f[k + 1] = f[k] \o s[k + 1]
        BY <2>2, <4>1
      <4>4. Uses(f[k] \o s[k + 1], calls)
        BY <3>1, <4>2, BothUse
      <4>5. Spaced(f[k] \o s[k + 1], s, c, k + 1)
        BY <3>1, <4>2, OneRoundMore
      <4> QED BY <4>3, <4>4, <4>5
    <3> QED BY <3>2, <3>3
  <2> HIDE DEF N
  <2>5. Nat \subseteq N
    BY <2>3, <2>4, CountingUp
  <2> QED BY <1>2, <2>1, <2>5 DEF N
<1> QED BY <1>1, <1>2

\* The calls that do not destroy anything.
Tame == {"create", "fork", "join", "exit", "lock", "unlock", "sleep", "signal", "sem_init",
         "sem_open", "sem_wait", "sem_post", "store", "load", "storeReg", "add", "swap", "cas",
         "return", "compare", "listen", "connect", "accept", "pipe", "unlisten", "close",
         "send", "echo", "recv", "jump", "skipIf", "print", "printReg", "printVar", "printData",
         "overlay", "fputs"}

LEMMA CallsAreTame ==
    /\ \A u : Uses(create(u), Tame) /\ Uses(fork(u), Tame) /\ Uses(join(u), Tame)
    /\ Uses(exit, Tame)
    /\ \A m : Uses(lock(m), Tame) /\ Uses(unlock(m), Tame)
    /\ \A c, m : Uses(cond_wait(c, m), Tame) /\ Uses(cond_timedwait(c, m), Tame)
    /\ \A c : Uses(cond_signal(c), Tame)
    /\ \A s, n : Uses(sem_init(s, n), Tame) /\ Uses(sem_open(s, n), Tame)
    /\ \A s : Uses(sem_wait(s), Tame) /\ Uses(sem_post(s), Tame)
    /\ \A x, v : Uses(store(x, v), Tame) /\ Uses(storeReg(x, v), Tame)
    /\ \A x, v : Uses(fetch_add(x, v), Tame) /\ Uses(exchange(x, v), Tame)
    /\ \A x : Uses(load(x), Tame)
    /\ \A x, old, new : Uses(cas(x, old, new), Tame)
    /\ \A v : Uses(return(v), Tame) /\ Uses(compare(v), Tame)
    /\ \A x, n : Uses(increase(x, n), Tame)
<1> USE OneCall, BothUse DEF Tame
<1>1. /\ \A u : Uses(create(u), Tame) /\ Uses(fork(u), Tame) /\ Uses(join(u), Tame)
      /\ Uses(exit, Tame)
  BY DEF create, fork, join, exit
<1>2. /\ \A m : Uses(lock(m), Tame) /\ Uses(unlock(m), Tame)
      /\ \A c : Uses(cond_signal(c), Tame)
  BY DEF lock, unlock, cond_signal
<1>3. \A c, m : Uses(cond_wait(c, m), Tame) /\ Uses(cond_timedwait(c, m), Tame)
  <2>1. \A c, m : /\ Uses(<<[call |-> "sleep", on |-> c, mutex |-> m, timed |-> FALSE]>>, Tame)
                  /\ Uses(<<[call |-> "sleep", on |-> c, mutex |-> m, timed |-> TRUE]>>, Tame)
    OBVIOUS
  <2> QED BY <1>2, <2>1 DEF cond_wait, cond_timedwait
<1>4. /\ \A s, n : Uses(sem_init(s, n), Tame) /\ Uses(sem_open(s, n), Tame)
      /\ \A s : Uses(sem_wait(s), Tame) /\ Uses(sem_post(s), Tame)
  BY DEF sem_init, sem_open, sem_wait, sem_post
<1>5. /\ \A x, v : Uses(store(x, v), Tame) /\ Uses(storeReg(x, v), Tame)
      /\ \A x, v : Uses(fetch_add(x, v), Tame) /\ Uses(exchange(x, v), Tame)
      /\ \A x : Uses(load(x), Tame)
      /\ \A x, old, new : Uses(cas(x, old, new), Tame)
      /\ \A v : Uses(return(v), Tame) /\ Uses(compare(v), Tame)
  BY DEF store, storeReg, fetch_add, exchange, load, cas, return, compare
<1>6. \A x, n : Uses(increase(x, n), Tame)
  BY <1>5 DEF increase
<1> QED BY <1>1, <1>2, <1>3, <1>4, <1>5, <1>6

LEMMA MoreTameCalls ==
    /\ \A w : /\ Uses(listen(w), Tame) /\ Uses(accept(w), Tame) /\ Uses(pipe(w), Tame)
              /\ Uses(unlisten(w), Tame) /\ Uses(close(w), Tame) /\ Uses(echo(w), Tame)
    /\ \A w, b : Uses(connect(w, b), Tame) /\ Uses(send(w, b), Tame) /\ Uses(recv(w, b), Tame)
    /\ \A n : Uses(jump(n), Tame)
    /\ \A v, n : Uses(skipIf(v, n), Tame) /\ Uses(print(v, n), Tame) /\ Uses(printVar(v, n), Tame)
    /\ \A g : Uses(printReg(g), Tame) /\ Uses(printData(g), Tame) /\ Uses(overlay(g), Tame)
    /\ \A g, x : Uses(fputs(g, x), Tame)
    /\ \A p : Uses(p, Tame) => Uses(Forever(p), Tame)
<1> USE OneCall DEF Tame
<1>1. /\ \A w : /\ Uses(listen(w), Tame) /\ Uses(accept(w), Tame) /\ Uses(pipe(w), Tame)
                /\ Uses(unlisten(w), Tame) /\ Uses(close(w), Tame) /\ Uses(echo(w), Tame)
      /\ \A w, b : Uses(connect(w, b), Tame) /\ Uses(send(w, b), Tame) /\ Uses(recv(w, b), Tame)
  BY DEF listen, accept, pipe, unlisten, close, echo, connect, send, recv
<1>2. /\ \A n : Uses(jump(n), Tame)
      /\ \A v, n : Uses(skipIf(v, n), Tame) /\ Uses(print(v, n), Tame) /\ Uses(printVar(v, n), Tame)
      /\ \A g : Uses(printReg(g), Tame) /\ Uses(printData(g), Tame) /\ Uses(overlay(g), Tame)
      /\ \A g, x : Uses(fputs(g, x), Tame)
  BY DEF jump, skipIf, print, printVar, printReg, printData, overlay, fputs
<1>3. \A p : Uses(p, Tame) => Uses(Forever(p), Tame)
  BY <1>2, BothUse DEF Forever
<1> QED BY <1>1, <1>2, <1>3

LEMMA TameConcat == \A p, q : Uses(p, Tame) /\ Uses(q, Tame) => Uses(p \o q, Tame)
BY BothUse

LEMMA TameLoops ==
    /\ \A a, b \in Int : Uses(createAll(a, b), Tame) /\ Uses(joinAll(a, b), Tame)
    /\ \A n \in Int : Uses(Run(n), Tame)
<1>1. ASSUME NEW a \in Int, NEW b \in Int
      PROVE  Uses(createAll(a, b), Tame) /\ Uses(joinAll(a, b), Tame)
  <2> DEFINE n == IF b + 1 - a < 0 THEN 0 ELSE b + 1 - a
             c == [k \in 1..(b + 1 - a) |-> create(a + k - 1)]
             j == [k \in 1..(b + 1 - a) |-> join(a + k - 1)]
  <2>1. n \in Nat /\ 1..(b + 1 - a) = 1..n
    OBVIOUS
  <2>2. /\ c = [k \in 1..n |-> c[k]] /\ j = [k \in 1..n |-> j[k]]
        /\ \A k \in 1..n : Uses(c[k], Tame) /\ Uses(j[k], Tame)
    BY <2>1, CallsAreTame
  <2> HIDE DEF n, c, j
  <2>3. Uses(FlattenSeq(c), Tame) /\ Uses(FlattenSeq(j), Tame)
    BY <2>1, <2>2, FlattenUses
  <2> QED BY <2>3 DEF c, j, createAll, joinAll
<1> QED BY <1>1, TameConcat DEF Run

\* The programs of a demo none of whose tasks destroys anything.
TamePrograms(programs) ==
    /\ Len(programs) \in Nat /\ programs = [t \in 1..Len(programs) |-> programs[t]]
    /\ \A t \in 1..Len(programs) : Uses(programs[t], Tame)

LEMMA TameTuples ==
    /\ \A a : Uses(a, Tame) => TamePrograms(<<a>>)
    /\ \A a, b : Uses(a, Tame) /\ Uses(b, Tame) => TamePrograms(<<a, b>>)
    /\ \A a, b, c : Uses(a, Tame) /\ Uses(b, Tame) /\ Uses(c, Tame) => TamePrograms(<<a, b, c>>)
BY DEF TamePrograms

LEMMA TameCrowd ==
    ASSUME NEW n \in Nat, NEW f, f = [t \in 1..n |-> f[t]], \A t \in 1..n : Uses(f[t], Tame)
    PROVE  TamePrograms(f)
<1>1. Len(f) = n
  BY LenProperties
<1> QED BY <1>1 DEF TamePrograms

LEMMA TameUnion ==
    ASSUME NEW p, NEW q, TamePrograms(p), TamePrograms(q)
    PROVE  TamePrograms(p \o q)
<1> DEFINE m == Len(p)
           n == Len(q)
           S == {p[t] : t \in 1..m} \cup {q[t] : t \in 1..n}
<1>1. /\ m \in Nat /\ n \in Nat /\ p = [t \in 1..m |-> p[t]] /\ q = [t \in 1..n |-> q[t]]
      /\ \A t \in 1..m : Uses(p[t], Tame) /\ p[t] \in S
      /\ \A t \in 1..n : Uses(q[t], Tame) /\ q[t] \in S
  BY DEF TamePrograms
<1> HIDE DEF S, m, n
<1>2. p \in Seq(S) /\ q \in Seq(S)
  BY <1>1
<1>3. Len(p) = m /\ Len(q) = n
  BY DEF m, n
<1>4. p \o q \in Seq(S) /\ Len(p \o q) = m + n
  BY <1>2, <1>3, ConcatProperties
<1>5. \A t \in 1..(m + n) : Uses((p \o q)[t], Tame)
  <2> SUFFICES ASSUME NEW t \in 1..(m + n) PROVE Uses((p \o q)[t], Tame)
    OBVIOUS
  <2>1. CASE t <= m
    <3>1. (p \o q)[t] = p[t] /\ t \in 1..m
      BY <1>1, <1>2, <1>3, <2>1, Concatenation
    <3> QED BY <1>1, <3>1
  <2>2. CASE t > m
    <3>1. (p \o q)[t] = q[t - m] /\ t - m \in 1..n
      BY <1>1, <1>2, <1>3, <2>2, Concatenation
    <3> QED BY <1>1, <3>1
  <2> QED BY <1>1, <2>1, <2>2
<1>6. m + n \in Nat
  BY <1>1
<1> QED BY <1>4, <1>5, <1>6, LenProperties DEF TamePrograms

LEMMA TameThreads ==
    /\ TamePrograms(Test1) /\ TamePrograms(Test2)
    /\ TamePrograms(thread_join) /\ TamePrograms(thread_local_storage)
    /\ TamePrograms(gcc_demo) /\ TamePrograms(libc_demo)
    /\ TamePrograms(thread_create) /\ TamePrograms(thread_stop)
<1> USE CallsAreTame, MoreTameCalls, TameConcat, TameLoops, ThreadDemosAssumption
<1>1. TamePrograms(Test1)
  <2>1. Uses(Func1, Tame)
    BY DEF Func1
  <2>2. TamePrograms(<<Run(Crowd) \o exit>>)
    <3>1. Uses(Run(Crowd) \o exit, Tame)
      OBVIOUS
    <3> QED BY <3>1, TameTuples
  <2> DEFINE f == [t \in 1..Crowd |-> Func1]
  <2>3. TamePrograms(f)
    <3>1. f = [t \in 1..Crowd |-> f[t]] /\ \A t \in 1..Crowd : Uses(f[t], Tame)
      BY <2>1
    <3> HIDE DEF f
    <3> QED BY <3>1, TameCrowd
  <2> QED BY <2>2, <2>3, TameUnion DEF Test1
<1>2. TamePrograms(Test2)
  <2> DEFINE f == [i \in 1..Rounds |-> AddForTestRecursive]
  <2>1. Uses(AddForTestRecursive, Tame)
    BY DEF AddForTestRecursive, Add
  <2>2. f = [k \in 1..Rounds |-> f[k]] /\ \A k \in 1..Rounds : Uses(f[k], Tame)
    BY <2>1
  <2>3. Uses(FlattenSeq(f), Tame)
    <3> HIDE DEF f
    <3> QED BY <2>2, FlattenUses
  <2>4. Uses(Run(2) \o Dump \o exit, Tame)
    BY DEF Dump
  <2> QED BY <2>3, <2>4, TameTuples DEF Test2, Func2
<1>3. TamePrograms(thread_join)
  <2> DEFINE f == [i \in 1..(Rounds + 1) |-> print("loop", i)]
             g == [i \in 1..Rounds |-> print("loop", i)]
  <2>1. /\ f = [k \in 1..(Rounds + 1) |-> f[k]] /\ \A k \in 1..(Rounds + 1) : Uses(f[k], Tame)
        /\ g = [k \in 1..Rounds |-> g[k]] /\ \A k \in 1..Rounds : Uses(g[k], Tame)
    OBVIOUS
  <2>2. Uses(FlattenSeq(f), Tame) /\ Uses(FlattenSeq(g), Tame)
    <3> HIDE DEF f, g
    <3>1. Uses(FlattenSeq(f), Tame)
      BY <2>1, FlattenUses
    <3>2. Uses(FlattenSeq(g), Tame)
      BY <2>1, FlattenUses
    <3> QED BY <3>1, <3>2
  <2>3. Uses(joinBoth, Tame)
    BY DEF joinBoth
  <2>4. /\ Uses(createAll(2, 3) \o joinBoth \o exit, Tame)
        /\ Uses(FlattenSeq(f) \o return(1), Tame) /\ Uses(FlattenSeq(g) \o return(2), Tame)
    BY <2>2, <2>3
  <2> QED BY <2>4, TameTuples DEF thread_join
<1>4. TamePrograms(thread_local_storage)
  <2>1. \A n, v : Uses(ThreadN(n, v), Tame)
    BY DEF ThreadN
  <2>2. Uses(store("normalVar", 1) \o Run(2) \o exit, Tame)
    OBVIOUS
  <2> QED BY <2>1, <2>2, TameTuples DEF thread_local_storage
<1>5. TamePrograms(gcc_demo)
  <2> DEFINE f == [i \in 1..Rounds |->
        fetch_add("counter", 1) \o fetch_add("counter", -1)
          \o fetch_add("counter", 1) \o fetch_add("counter", -1)]
  <2>1. f = [k \in 1..Rounds |-> f[k]] /\ \A k \in 1..Rounds : Uses(f[k], Tame)
    OBVIOUS
  <2>2. Uses(FlattenSeq(f), Tame)
    <3> HIDE DEF f
    <3> QED BY <2>1, FlattenUses
  <2>3. Uses(thread_func_arithmetic, Tame)
    BY <2>2 DEF thread_func_arithmetic
  <2>4. Uses(cas_demo, Tame) /\ Uses(spinlock_demo, Tame)
    BY DEF cas_demo, spinlock_demo
  <2>5. Uses(Run(2) \o printVar("counter", "counter") \o print("bits", bit_operations)
               \o cas_demo \o spinlock_demo \o exit, Tame)
    BY <2>4
  <2> QED BY <2>3, <2>5, TameTuples DEF gcc_demo
<1>6. TamePrograms(libc_demo)
  <2> DEFINE f == [i \in 1..Rounds |-> fetch_add("counter", 1)]
             a == [i \in 1..Crowd |-> increment_counter]
             b == [i \in 1..Crowd |-> set_flag_once]
             c == [i \in 1..Crowd |-> exchange_pointer(100 + i)]
  <2>1. f = [k \in 1..Rounds |-> f[k]] /\ \A k \in 1..Rounds : Uses(f[k], Tame)
    OBVIOUS
  <2>2. Uses(FlattenSeq(f), Tame)
    <3> HIDE DEF f
    <3> QED BY <2>1, FlattenUses
  <2>3. /\ Uses(increment_counter, Tame) /\ Uses(set_flag_once, Tame)
        /\ \A i : Uses(exchange_pointer(100 + i), Tame)
    BY <2>2 DEF increment_counter, set_flag_once, exchange_pointer
  <2>4. /\ a = [t \in 1..Crowd |-> a[t]] /\ \A t \in 1..Crowd : Uses(a[t], Tame)
        /\ b = [t \in 1..Crowd |-> b[t]] /\ \A t \in 1..Crowd : Uses(b[t], Tame)
        /\ c = [t \in 1..Crowd |-> c[t]] /\ \A t \in 1..Crowd : Uses(c[t], Tame)
    BY <2>3
  <2>5. TamePrograms(a) /\ TamePrograms(b) /\ TamePrograms(c)
    <3> HIDE DEF a, b, c
    <3> QED BY <2>4, TameCrowd
  <2> DEFINE m == (createAll(2, 2 + Crowd - 1) \o joinAll(2, 2 + Crowd - 1))
                    \o printVar("counter", "counter")
                    \o (createAll(2 + Crowd, 2 + Crowd + Crowd - 1)
                          \o joinAll(2 + Crowd, 2 + Crowd + Crowd - 1))
                    \o (createAll(2 + 2 * Crowd, 2 + 2 * Crowd + Crowd - 1)
                          \o joinAll(2 + 2 * Crowd, 2 + 2 * Crowd + Crowd - 1)) \o exit
  <2>6. TamePrograms(<<m>>)
    <3>1. Uses(m, Tame)
      OBVIOUS
    <3> HIDE DEF m
    <3> QED BY <3>1, TameTuples
  <2>7. libc_demo = <<m>> \o a \o b \o c
    BY DEF libc_demo
  <2> HIDE DEF a, b, c, m
  <2> QED BY <2>5, <2>6, <2>7, TameUnion
<1>7. TamePrograms(thread_create) /\ TamePrograms(thread_stop)
  <2>1. Uses(createAll(2, 3) \o print("main", 0) \o exit, Tame)
    OBVIOUS
  <2>2. \A g, n : Uses(print(g, n), Tame)
    OBVIOUS
  <2> QED BY <2>1, <2>2, TameTuples DEF thread_create, thread_stop
<1> QED BY <1>1, <1>2, <1>3, <1>4, <1>5, <1>6, <1>7

LEMMA TameTogether ==
    ASSUME NEW programs, TamePrograms(programs)
    PROVE  TamePrograms(Together(programs))
<1> DEFINE n == Len(programs)
           f == [i \in 1..n |-> fork(1 + i)]
<1>1. n \in Nat /\ f = [k \in 1..n |-> f[k]] /\ \A k \in 1..n : Uses(f[k], Tame)
  BY CallsAreTame DEF TamePrograms
<1>2. Together(programs) = <<FlattenSeq(f) \o exit>> \o programs
  BY DEF Together
<1> HIDE DEF n, f
<1>3. Uses(FlattenSeq(f) \o exit, Tame)
  BY <1>1, FlattenUses, TameConcat, CallsAreTame
<1>4. TamePrograms(<<FlattenSeq(f) \o exit>>)
  BY <1>3, TameTuples
<1> QED BY <1>2, <1>4, TameUnion

\* The loops in which n messages are sent.
LEMMA TameRounds ==
    ASSUME NEW f, f = [k \in 1..Rounds |-> f[k]], \A k \in 1..Rounds : Uses(f[k], Tame)
    PROVE  Uses(FlattenSeq(f), Tame)
BY FlattenUses, ThreadDemosAssumption

LEMMA TameSends ==
    /\ \A w : Uses(FlattenSeq([i \in 1..Rounds |-> send(w, <<i>>)]), Tame)
    /\ Uses(broadcast_server, Tame)
    /\ Uses(multicast1_server, Tame)
    /\ Uses(multicast2_client, Tame)
<1>1. ASSUME NEW w PROVE Uses(FlattenSeq([i \in 1..Rounds |-> send(w, <<i>>)]), Tame)
  <2> DEFINE f == [i \in 1..Rounds |-> send(w, <<i>>)]
  <2>1. f = [k \in 1..Rounds |-> f[k]] /\ \A k \in 1..Rounds : Uses(f[k], Tame)
    BY MoreTameCalls
  <2> HIDE DEF f
  <2>2. Uses(FlattenSeq(f), Tame)
    BY <2>1, TameRounds
  <2> QED BY <2>2 DEF f
<1>2. Uses(broadcast_server, Tame)
  <2> DEFINE f == [i \in 1..Rounds |-> send("group", <<Piece(i)>>)]
  <2>1. f = [k \in 1..Rounds |-> f[k]] /\ \A k \in 1..Rounds : Uses(f[k], Tame)
    BY MoreTameCalls
  <2> HIDE DEF f
  <2>2. Uses(FlattenSeq(f) \o send("group", <<Piece(Rounds)>>) \o exit, Tame)
    BY <2>1, TameRounds, MoreTameCalls, CallsAreTame, TameConcat
  <2> QED BY <2>2 DEF f, broadcast_server
<1>3. Uses(multicast1_server, Tame)
  <2> DEFINE f == [i \in 1..Rounds |-> send("group", <<leftover(i)>>)]
  <2>1. f = [k \in 1..Rounds |-> f[k]] /\ \A k \in 1..Rounds : Uses(f[k], Tame)
    BY MoreTameCalls
  <2> HIDE DEF f
  <2>2. Uses(FlattenSeq([i \in 1..Rounds |-> send("group", <<i>>)])
               \o send("group", <<quit>>) \o FlattenSeq(f), Tame)
    BY <1>1, <2>1, TameRounds, MoreTameCalls, TameConcat
  <2> QED BY <2>2 DEF f, multicast1_server
<1>4. Uses(multicast2_client, Tame)
  <2> DEFINE f == [i \in 1..Rounds |-> send_line(i)]
             g == [i \in 1..Rounds |-> send_line(empty_line)]
  <2>1. \A text : Uses(send_line(text), Tame)
    BY MoreTameCalls, TameConcat DEF send_line
  <2>2. /\ f = [k \in 1..Rounds |-> f[k]] /\ \A k \in 1..Rounds : Uses(f[k], Tame)
        /\ g = [k \in 1..Rounds |-> g[k]] /\ \A k \in 1..Rounds : Uses(g[k], Tame)
    BY <2>1
  <2> HIDE DEF f, g
  <2>3. Uses(FlattenSeq(f) \o FlattenSeq(g), Tame)
    BY <2>2, TameRounds, TameConcat
  <2> QED BY <2>3 DEF f, g, multicast2_client
<1> QED BY <1>1, <1>2, <1>3, <1>4

LEMMA TameProcesses ==
    /\ TamePrograms(fork_demo) /\ TamePrograms(fork_2) /\ TamePrograms(exec)
    /\ TamePrograms(wait) /\ TamePrograms(wait_zombie) /\ TamePrograms(mmap)
    /\ TamePrograms(pipe_demo) /\ TamePrograms(pipe2) /\ TamePrograms(dup2)
<1> USE CallsAreTame, MoreTameCalls, TameConcat
<1>1. TamePrograms(fork_demo) /\ TamePrograms(exec)
  <2>1. Uses(fork(2) \o print("parent", 0) \o exit, Tame) /\ Uses(print("child", 0) \o exit, Tame)
    OBVIOUS
  <2>2. Uses(fork(2) \o print("done", 0) \o exit, Tame) /\ Uses(ls, Tame)
    BY DEF ls
  <2> QED BY <2>1, <2>2, TameTuples DEF fork_demo, exec
<1>2. TamePrograms(fork_2)
  <2>1. Uses(exit_handlers, Tame)
    BY DEF exit_handlers
  <2>2. Uses(store("glob", 10) \o store("local", 8) \o fork(2)
         \o increase("glob", 1) \o increase("local", -1)
         \o printVar("glob", "glob") \o printVar("local", "local") \o exit_handlers, Tame)
    BY <2>1
  <2>3. Uses(printVar("glob", "glob") \o printVar("local", "local") \o exit_handlers, Tame)
    BY <2>1
  <2> QED BY <2>2, <2>3, TameTuples DEF fork_2
<1>3. TamePrograms(wait) /\ TamePrograms(wait_zombie)
  <2>1. Uses(fork(2) \o join(2) \o printReg("exited") \o exit, Tame) /\ Uses(ls, Tame)
    BY DEF ls
  <2>2. Uses(fork(2) \o exit, Tame)
    OBVIOUS
  <2> QED BY <2>1, <2>2, TameTuples DEF wait, wait_zombie
<1>4. TamePrograms(mmap)
  <2>1. /\ Uses(fork(2) \o join(2) \o fork(3) \o join(3) \o exit, Tame)
        /\ Uses(mmap_write, Tame) /\ Uses(mmap_read, Tame)
    BY DEF mmap_write, mmap_read
  <2> QED BY <2>1, TameTuples DEF mmap
<1>5. Uses(writer, Tame) /\ Uses(reader, Tame) /\ Uses(sort, Tame)
  BY TameSends DEF writer, reader, sort
<1>6. TamePrograms(pipe_demo) /\ TamePrograms(pipe2)
  <2>1. /\ Uses(pipe("fds") \o fork(2) \o writer \o close("fds") \o exit, Tame)
        /\ Uses(close("fds") \o reader \o exit, Tame)
    BY <1>5
  <2>2. /\ Uses(pipe("fds") \o fork(2) \o send("fds", <<1>>) \o close("fds") \o exit, Tame)
        /\ Uses(close("fds") \o recv("fds", 1) \o printData("line") \o exit, Tame)
    OBVIOUS
  <2> QED BY <2>1, <2>2, TameTuples DEF pipe_demo, pipe2
<1>7. TamePrograms(dup2)
  <2>1. /\ Uses(pipe("fds") \o fork(2) \o writer \o close("fds") \o join(2) \o exit, Tame)
        /\ Uses(close("fds") \o sort, Tame)
    BY <1>5
  <2> QED BY <2>1, TameTuples DEF dup2
<1> QED BY <1>1, <1>2, <1>3, <1>4, <1>6, <1>7

LEMMA TameNet ==
    /\ TamePrograms(socket) /\ TamePrograms(local_socket) /\ TamePrograms(socket_inet)
    /\ TamePrograms(tcp) /\ TamePrograms(udp) /\ TamePrograms(broadcast)
    /\ TamePrograms(multicast1) /\ TamePrograms(multicast2)
<1> USE CallsAreTame, MoreTameCalls, TameConcat
<1>1. TamePrograms(<<socket_server, socket_client>>)
  <2>1. Uses(socket_server, Tame) /\ Uses(socket_client, Tame)
    BY DEF socket_server, socket_client
  <2> QED BY <2>1, TameTuples
<1>2. TamePrograms(<<local_server, local_client("c1", 1), local_client("c2", quit)>>)
  <2>1. Uses(local_server, Tame) /\ \A c, n : Uses(local_client(c, n), Tame)
    BY DEF local_server, server, local_client, write_text
  <2> QED BY <2>1, TameTuples
<1>3. TamePrograms(<<web_server, inet_client>>)
  <2>1. Uses(web_server, Tame) /\ Uses(get_home_page, Tame)
    BY DEF web_server, get_home_page
  <2>2. Uses(inet_client, Tame)
    BY <2>1 DEF inet_client
  <2> QED BY <2>1, <2>2, TameTuples
<1>4. TamePrograms(<<tcp_server, tcp_client>>)
  <2>1. Uses(tcp_server, Tame)
    BY DEF tcp_server
  <2> DEFINE f == [i \in 1..Rounds |->
               send("c1", Message(i)) \o recv("down", Fragments) \o printData("client")]
             talk == recv("down", Fragments) \o printData("client") \o FlattenSeq(f)
  <2>2. f = [k \in 1..Rounds |-> f[k]] /\ \A k \in 1..Rounds : Uses(f[k], Tame)
    OBVIOUS
  <2>3. Uses(talk, Tame)
    <3> HIDE DEF f
    <3>1. Uses(FlattenSeq(f), Tame)
      BY <2>2, FlattenUses, ThreadDemosAssumption
    <3> QED BY <3>1
  <2>4. tcp_client = connect("c1", "8000") \o skipIf(0, Len(talk)) \o talk \o close("c1") \o exit
    BY DEF tcp_client
  <2> HIDE DEF talk
  <2>5. Uses(tcp_client, Tame)
    BY <2>3, <2>4
  <2> QED BY <2>1, <2>5, TameTuples
<1>5. TamePrograms(<<udp_server, udp_client>>)
  <2>1. Uses(udp_server, Tame) /\ Uses(udp_client, Tame)
    BY DEF udp_server, udp_client
  <2> QED BY <2>1, TameTuples
<1>6. TamePrograms(<<broadcast_client, broadcast_server>>)
  <2>1. Uses(broadcast_client, Tame) /\ Uses(broadcast_server, Tame)
    BY TameSends DEF broadcast_client
  <2> QED BY <2>1, TameTuples
<1>7. TamePrograms(<<multicast1_client, multicast1_server>>)
  <2>1. Uses(multicast1_client, Tame) /\ Uses(multicast1_server, Tame)
    BY TameSends DEF multicast1_client
  <2> QED BY <2>1, TameTuples
<1>8. TamePrograms(<<multicast2_server, multicast2_client>>)
  <2>1. Uses(multicast2_server, Tame) /\ Uses(multicast2_client, Tame)
    BY TameSends DEF multicast2_server
  <2> QED BY <2>1, TameTuples
<1> QED
  BY <1>1, <1>2, <1>3, <1>4, <1>5, <1>6, <1>7, <1>8, TameTogether
  DEF socket, local_socket, socket_inet, tcp, udp, broadcast, multicast1, multicast2

\* The demos that destroy something.
Destroying == {"printVal", "thread_cond", "wait_time", "semaphore", "shm", "thread_sem",
               "system_v", "sem_demo", "sem_demo2"}

LEMMA NothingDestroyed == \A d \in DOMAIN Programs \ Destroying : TamePrograms(Programs[d])
BY TameThreads, TameProcesses, TameNet DEF Programs, Destroying

-----------------------------------------------------------------------------
(***************************************************************************)
(* The machine that runs the demos: what any step may do to the places of  *)
(* the tasks, the locks and the objects that were destroyed.               *)
(***************************************************************************)

\* The k-th instruction of task t of demo d, and how many t has.
Instr(d, t, k) == Programs[d][t][k]
Length(d, t) == Len(Programs[d][t])

Pc(t) == task[t].pc
Here(t) == Instr(demo, t, Pc(t))

TaskRecord(r) ==
    r = [pc |-> r.pc, space |-> r.space, reg |-> r.reg, data |-> r.data, conn |-> r.conn]

\* The tasks are those of the demo that was chosen.
TasksInv ==
    /\ demo \in DOMAIN Programs
    /\ task = [t \in DOMAIN Programs[demo] |-> task[t]]
    /\ \A t \in DOMAIN task : TaskRecord(task[t])

\* t is about to make a call, one of calls.
Calls(t, calls) ==
    /\ Pc(t) \in 1..Length(demo, t) /\ \A z \in asleep : z.task # t
    /\ Here(t).call \in calls

\* All tasks stay where they are; or t goes to place.
Stand == \A u \in DOMAIN task : task'[u].pc = task[u].pc /\ task'[u].space = task[u].space
Goes(t, place) ==
    \A u \in DOMAIN task :
        task'[u].pc = (IF u = t THEN place ELSE task[u].pc) /\ task'[u].space = task[u].space

Begins(t) ==
    /\ Calls(t, {"create", "fork"})
    /\ \A u \in DOMAIN task :
         /\ task'[u].pc = IF u = Here(t).task THEN 1
                          ELSE IF u = t THEN Pc(t) + 1 ELSE task[u].pc
         /\ task'[u].space = IF u # Here(t).task THEN task[u].space
                             ELSE IF Here(t).call = "create" THEN task[t].space ELSE u
    /\ UNCHANGED <<gone, owner, asleep>>
Joins(t) ==
    /\ Calls(t, {"join"}) /\ Pc(Here(t).task) > Length(demo, Here(t).task)
    /\ Goes(t, Pc(t) + 1) /\ UNCHANGED <<gone, owner, asleep>>
Exits(t) ==
    /\ Calls(t, {"exit"})
    /\ \A u \in DOMAIN task :
         /\ task'[u].pc = IF Pc(u) > 0 /\ task[u].space = task[t].space
                          THEN Length(demo, u) + 1 ELSE task[u].pc
         /\ task'[u].space = task[u].space
    /\ asleep' = {z \in asleep : ~(z.task \in DOMAIN task /\ Pc(z.task) > 0
                                     /\ task[z.task].space = task[t].space)}
    /\ UNCHANGED <<gone, owner>>
Locks(t) ==
    /\ Calls(t, {"lock"}) /\ Goes(t, Pc(t) + 1)
    /\ M!OwnerOf(Here(t).on).task = 0 \/ Here(t).on = "mutex_"
    /\ owner' = M!Put(owner, Here(t).on, [task |-> t, depth |-> M!OwnerOf(Here(t).on).depth + 1])
    /\ UNCHANGED <<gone, asleep>>
Unlocks(t) ==
    /\ Calls(t, {"unlock"}) /\ Goes(t, Pc(t) + 1)
    /\ owner' = M!Put(owner, Here(t).on, M!Released(Here(t).on))
    /\ UNCHANGED <<gone, asleep>>
Sleeps(t) ==
    /\ Calls(t, {"sleep"}) /\ Goes(t, Pc(t) + 1)
    /\ owner' = M!Put(owner, Here(t).mutex, M!Released(Here(t).mutex))
    /\ asleep' = asleep \cup {[task |-> t, on |-> Here(t).on, timed |-> Here(t).timed]}
    /\ UNCHANGED gone
Inits(t) ==
    /\ Calls(t, {"sem_init", "sem_open"}) /\ Goes(t, Pc(t) + 1)
    /\ gone' = gone \ {Here(t).on} /\ UNCHANGED <<owner, asleep>>
Destroys(t) ==
    /\ Calls(t, {"destroy"}) /\ Goes(t, Pc(t) + 1)
    /\ gone' = gone \cup {Here(t).on} /\ UNCHANGED <<owner, asleep>>
Jumps(t) ==
    /\ \/ Calls(t, {"jump"}) /\ Goes(t, Pc(t) + Here(t).by)
       \/ Calls(t, {"skipIf"}) /\ (Goes(t, Pc(t) + 1) \/ Goes(t, Pc(t) + 1 + Here(t).by))
    /\ UNCHANGED <<gone, owner, asleep>>

\* The calls that touch neither locks nor the lives of tasks and objects.
PlainCalls == {"signal", "sem_wait", "sem_post", "store", "load", "storeReg", "add", "swap", "cas",
               "return", "compare", "listen", "connect", "accept", "pipe", "unlisten", "close",
               "send", "echo", "recv", "print", "printReg", "printVar", "printData",
               "overlay", "fputs"}
Passes(t) ==
    /\ Calls(t, PlainCalls) /\ Goes(t, Pc(t) + 1)
    /\ asleep' \subseteq asleep /\ UNCHANGED <<gone, owner>>

\* A sleeper wakes by itself, a datagram is lost.
Stirs == Stand /\ asleep' \subseteq asleep /\ UNCHANGED <<gone, owner>>
Restarts ==
    /\ \A u \in DOMAIN task :
         task'[u].pc = (IF u = 1 THEN 1 ELSE 0) /\ task'[u].space = (IF u = 1 THEN 1 ELSE 0)
    /\ gone' = {} /\ asleep' = {} /\ owner' = [m \in {} |-> 0]

LEMMA AtCalls ==
    ASSUME NEW t \in DOMAIN task, NEW c, M!At(t, c)
    PROVE  /\ M!Ins(t) = Here(t) /\ Here(t).call = c
           /\ \A calls : c \in calls => Calls(t, calls)
BY DEF M!At, M!Ins, Calls, Here, Instr, Length, Pc, M!Length

\* What becomes of the tasks when t goes on, with or without a result.
LEMMA Onwards ==
    ASSUME TasksInv, NEW t \in DOMAIN task, demo' = demo,
           task' = M!Onward(t)
    PROVE  TasksInv' /\ Goes(t, Pc(t) + 1)
<1>1. TasksInv'
  BY DEF TasksInv, TaskRecord, M!Onward
<1>2. \A u \in DOMAIN task :
        task'[u].pc = (IF u = t THEN Pc(t) + 1 ELSE task[u].pc) /\ task'[u].space = task[u].space
  BY DEF TasksInv, TaskRecord, Pc, M!Onward
<1> QED BY <1>1, <1>2 DEF Goes

LEMMA Results ==
    ASSUME TasksInv, NEW t \in DOMAIN task, NEW v, demo' = demo,
           task' = M!Result(t, v)
    PROVE  TasksInv' /\ Goes(t, Pc(t) + 1)
<1>1. TasksInv'
  BY DEF TasksInv, TaskRecord, M!Result
<1>2. \A u \in DOMAIN task :
        task'[u].pc = (IF u = t THEN Pc(t) + 1 ELSE task[u].pc) /\ task'[u].space = task[u].space
  BY DEF TasksInv, TaskRecord, Pc, M!Result
<1> QED BY <1>1, <1>2 DEF Goes

LEMMA ResultsData ==
    ASSUME TasksInv, NEW t \in DOMAIN task, NEW v, NEW d, demo' = demo,
           task' = [M!Result(t, v) EXCEPT ![t].data = d]
    PROVE  TasksInv' /\ Goes(t, Pc(t) + 1)
<1>1. TasksInv'
  BY DEF TasksInv, TaskRecord, M!Result
<1>2. \A u \in DOMAIN task :
        task'[u].pc = (IF u = t THEN Pc(t) + 1 ELSE task[u].pc) /\ task'[u].space = task[u].space
  <2> SUFFICES ASSUME NEW u \in DOMAIN task
               PROVE  /\ task'[u].pc = (IF u = t THEN Pc(t) + 1 ELSE task[u].pc)
                      /\ task'[u].space = task[u].space
    OBVIOUS
  <2>1. CASE u = t
    BY <2>1 DEF TasksInv, TaskRecord, Pc, M!Result
  <2>2. CASE u # t
    BY <2>2 DEF TasksInv, TaskRecord, Pc, M!Result
  <2> QED BY <2>1, <2>2
<1> QED BY <1>1, <1>2 DEF Goes

LEMMA OnwardsConn ==
    ASSUME TasksInv, NEW t \in DOMAIN task, NEW c, demo' = demo,
           task' = [M!Onward(t) EXCEPT ![t].conn = c]
    PROVE  TasksInv' /\ Goes(t, Pc(t) + 1)
<1>1. TasksInv'
  BY DEF TasksInv, TaskRecord, M!Onward
<1>2. \A u \in DOMAIN task :
        task'[u].pc = (IF u = t THEN Pc(t) + 1 ELSE task[u].pc) /\ task'[u].space = task[u].space
  BY DEF TasksInv, TaskRecord, Pc, M!Onward
<1> QED BY <1>1, <1>2 DEF Goes

LEMMA Leaps ==
    ASSUME TasksInv, NEW t \in DOMAIN task, NEW x, demo' = demo,
           task' = [task EXCEPT ![t].pc = x]
    PROVE  TasksInv' /\ Goes(t, x)
<1>1. TasksInv'
  BY DEF TasksInv, TaskRecord
<1>2. \A u \in DOMAIN task :
        task'[u].pc = (IF u = t THEN x ELSE task[u].pc) /\ task'[u].space = task[u].space
  BY DEF TasksInv, TaskRecord, Pc
<1> QED BY <1>1, <1>2 DEF Goes

LEMMA BeginsStep ==
    ASSUME TasksInv, NEW t \in DOMAIN task, M!Start(t) \/ M!Fork(t)
    PROVE  TasksInv' /\ demo' = demo /\ Begins(t)
<1>1. CASE M!Start(t)
  <2>1. Calls(t, {"create", "fork"}) /\ M!Ins(t) = Here(t) /\ Here(t).call = "create"
    BY <1>1, AtCalls DEF M!Start
  <2>2. /\ task' = [M!Onward(t) EXCEPT ![Here(t).task] = M!Ready(task[t].space)]
        /\ UNCHANGED <<demo, gone, owner, asleep>>
    BY <1>1, <2>1 DEF M!Start, M!locks, M!history
  <2>3. TasksInv'
    BY <2>2 DEF TasksInv, TaskRecord, M!Onward, M!Ready
  <2>4. \A u \in DOMAIN task :
         /\ task'[u].pc = IF u = Here(t).task THEN 1
                          ELSE IF u = t THEN Pc(t) + 1 ELSE task[u].pc
         /\ task'[u].space = IF u # Here(t).task THEN task[u].space ELSE task[t].space
    BY <2>2 DEF TasksInv, TaskRecord, M!Onward, M!Ready, Pc
  <2> QED BY <2>1, <2>2, <2>3, <2>4 DEF Begins
<1>2. CASE M!Fork(t)
  <2>1. Calls(t, {"create", "fork"}) /\ M!Ins(t) = Here(t) /\ Here(t).call = "fork"
    BY <1>2, AtCalls DEF M!Fork
  <2>2. /\ task' = [M!Onward(t) EXCEPT
                      ![Here(t).task] = [M!Ready(Here(t).task) EXCEPT !.reg = task[t].reg]]
        /\ UNCHANGED <<demo, gone, owner, asleep>>
    BY <1>2, <2>1 DEF M!Fork, M!locks, M!history
  <2>3. TasksInv'
    BY <2>2 DEF TasksInv, TaskRecord, M!Onward, M!Ready
  <2>4. \A u \in DOMAIN task :
         /\ task'[u].pc = IF u = Here(t).task THEN 1
                          ELSE IF u = t THEN Pc(t) + 1 ELSE task[u].pc
         /\ task'[u].space = IF u # Here(t).task THEN task[u].space ELSE u
    BY <2>2 DEF TasksInv, TaskRecord, M!Onward, M!Ready, Pc
  <2> QED BY <2>1, <2>2, <2>3, <2>4 DEF Begins
<1> QED BY <1>1, <1>2

LEMMA JoinsStep ==
    ASSUME TasksInv, NEW t \in DOMAIN task, M!Join(t)
    PROVE  TasksInv' /\ demo' = demo /\ Joins(t)
<1>1. Calls(t, {"join"}) /\ M!Ins(t) = Here(t)
  BY AtCalls DEF M!Join
<1>2. /\ task' = M!Result(t, task[Here(t).task].reg)
      /\ UNCHANGED <<demo, gone, owner, asleep>>
      /\ Pc(Here(t).task) > Length(demo, Here(t).task)
  BY <1>1 DEF Pc, Length, M!Join, M!Ended, M!Length, M!locks, M!history
<1> QED BY <1>1, <1>2, Results DEF Joins

LEMMA ExitsStep ==
    ASSUME TasksInv, NEW t \in DOMAIN task, M!Exit(t)
    PROVE  TasksInv' /\ demo' = demo /\ Exits(t)
<1>1. Calls(t, {"exit"}) /\ demo' = demo
  BY AtCalls DEF M!Exit
<1>2. \A u \in DOMAIN task :
        task'[u] = IF Pc(u) > 0 /\ task[u].space = task[t].space
                   THEN [task[u] EXCEPT !.pc = Length(demo, u) + 1] ELSE task[u]
  BY DEF M!Exit, M!Tasks, M!Started, M!Length, Length, Pc
<1>3. TasksInv'
  BY <1>1, <1>2 DEF TasksInv, TaskRecord, M!Exit, M!Tasks
<1>4. \A u \in DOMAIN task :
         /\ task'[u].pc = IF Pc(u) > 0 /\ task[u].space = task[t].space
                          THEN Length(demo, u) + 1 ELSE task[u].pc
         /\ task'[u].space = task[u].space
  BY <1>2 DEF TasksInv, TaskRecord
<1>5. asleep' = {z \in asleep : ~(z.task \in DOMAIN task /\ Pc(z.task) > 0
                                     /\ task[z.task].space = task[t].space)}
  BY DEF M!Exit, M!Tasks, M!Started, Pc
<1> QED BY <1>1, <1>3, <1>4, <1>5 DEF Exits, M!Exit, M!history

LEMMA LocksStep ==
    ASSUME TasksInv, NEW t \in DOMAIN task, M!Lock(t) \/ M!Unlock(t) \/ M!Sleep(t)
    PROVE  TasksInv' /\ demo' = demo /\ (Locks(t) \/ Unlocks(t) \/ Sleeps(t))
<1>1. CASE M!Lock(t)
  <2>1. Calls(t, {"lock"}) /\ M!Ins(t) = Here(t)
    BY <1>1, AtCalls DEF M!Lock
  <2>2. /\ task' = M!Onward(t) /\ UNCHANGED <<demo, gone, asleep>>
        /\ M!OwnerOf(Here(t).on).task = 0 \/ Here(t).on \in {"mutex_"}
        /\ owner' = M!Put(owner, Here(t).on,
                          [task |-> t, depth |-> M!OwnerOf(Here(t).on).depth + 1])
    BY <1>1, <2>1 DEF M!Lock, M!history
  <2> QED BY <2>1, <2>2, Onwards DEF Locks
<1>2. CASE M!Unlock(t)
  <2>1. Calls(t, {"unlock"}) /\ M!Ins(t) = Here(t)
    BY <1>2, AtCalls DEF M!Unlock
  <2>2. /\ task' = M!Onward(t) /\ UNCHANGED <<demo, gone, asleep>>
        /\ owner' = M!Put(owner, Here(t).on, M!Released(Here(t).on))
    BY <1>2, <2>1 DEF M!Unlock, M!history
  <2> QED BY <2>1, <2>2, Onwards DEF Unlocks
<1>3. CASE M!Sleep(t)
  <2>1. Calls(t, {"sleep"}) /\ M!Ins(t) = Here(t)
    BY <1>3, AtCalls DEF M!Sleep
  <2>2. /\ task' = M!Result(t, 0) /\ UNCHANGED <<demo, gone>>
        /\ owner' = M!Put(owner, Here(t).mutex, M!Released(Here(t).mutex))
        /\ asleep' = asleep \cup {[task |-> t, on |-> Here(t).on, timed |-> Here(t).timed]}
    BY <1>3, <2>1 DEF M!Sleep, M!history
  <2> QED BY <2>1, <2>2, Results DEF Sleeps
<1> QED BY <1>1, <1>2, <1>3

LEMMA LivesStep ==
    ASSUME TasksInv, NEW t \in DOMAIN task, M!SemInit(t) \/ M!Destroy(t)
    PROVE  TasksInv' /\ demo' = demo /\ (Inits(t) \/ Destroys(t))
<1>1. CASE M!SemInit(t)
  <2>1. Calls(t, {"sem_init", "sem_open"}) /\ M!Ins(t) = Here(t)
    BY <1>1, AtCalls DEF M!SemInit
  <2> QED BY <1>1, <2>1, Onwards DEF Inits, M!SemInit
<1>2. CASE M!Destroy(t)
  <2>1. Calls(t, {"destroy"}) /\ M!Ins(t) = Here(t)
    BY <1>2, AtCalls DEF M!Destroy
  <2> QED BY <1>2, <2>1, Onwards DEF Destroys, M!Destroy
<1> QED BY <1>1, <1>2

LEMMA JumpsStep ==
    ASSUME TasksInv, NEW t \in DOMAIN task, M!Control(t)
    PROVE  TasksInv' /\ demo' = demo /\ (Jumps(t) \/ Passes(t))
<1>0. demo' = demo /\ UNCHANGED <<gone, owner, asleep>>
  BY DEF M!Control, M!locks, M!history
<1>1. CASE M!At(t, "jump") /\ task' = [task EXCEPT ![t].pc = @ + M!Ins(t).by]
  <2>1. Calls(t, {"jump"}) /\ M!Ins(t) = Here(t)
    BY <1>1, AtCalls
  <2>2. task' = [task EXCEPT ![t].pc = Pc(t) + Here(t).by]
    BY <1>1, <2>1 DEF Pc
  <2>3. TasksInv' /\ Goes(t, Pc(t) + Here(t).by)
    BY <1>0, <2>2, Leaps
  <2> QED BY <1>0, <2>1, <2>3 DEF Jumps
<1>2. CASE /\ M!At(t, "skipIf")
           /\ task' = IF task[t].reg = M!Ins(t).val
                      THEN [task EXCEPT ![t].pc = @ + 1 + M!Ins(t).by] ELSE M!Onward(t)
  <2>1. Calls(t, {"skipIf"}) /\ M!Ins(t) = Here(t)
    BY <1>2, AtCalls
  <2>2. CASE task' = M!Onward(t)
    BY <1>0, <2>1, <2>2, Onwards DEF Jumps
  <2>3. CASE task' = [task EXCEPT ![t].pc = @ + 1 + M!Ins(t).by]
    <3>1. task' = [task EXCEPT ![t].pc = Pc(t) + 1 + Here(t).by]
      BY <2>1, <2>3 DEF Pc
    <3>2. TasksInv' /\ Goes(t, Pc(t) + 1 + Here(t).by)
      BY <1>0, <3>1, Leaps
    <3> QED BY <1>0, <2>1, <3>2 DEF Jumps
  <2> QED BY <1>2, <2>2, <2>3
<1>3. CASE /\ M!At(t, "return") \/ M!At(t, "compare")
           /\ \E v : task' = M!Result(t, v)
  <2>1. Calls(t, PlainCalls)
    BY <1>3, AtCalls DEF PlainCalls
  <2> QED BY <1>0, <1>3, <2>1, Onwards, Results DEF Passes
<1> QED BY <1>1, <1>2, <1>3 DEF M!Control

LEMMA PassesStep ==
    ASSUME TasksInv, NEW t \in DOMAIN task,
           \/ M!Signal(t) \/ M!SemWait(t) \/ M!SemPost(t) \/ M!Access(t) \/ M!Printf(t)
           \/ M!Open(t) \/ M!Connect(t) \/ M!Accept(t) \/ M!Close(t) \/ M!Send(t) \/ M!Receive(t)
    PROVE  TasksInv' /\ demo' = demo /\ Passes(t)
<1>1. CASE M!Signal(t)
  <2>1. Calls(t, PlainCalls)
    BY <1>1, AtCalls DEF M!Signal, PlainCalls
  <2> QED BY <1>1, <2>1, Onwards DEF M!Signal, M!wires, M!history, Passes
<1>2. CASE M!SemWait(t) \/ M!SemPost(t)
  <2>1. Calls(t, PlainCalls)
    BY <1>2, AtCalls DEF M!SemWait, M!SemPost, PlainCalls
  <2> QED BY <1>2, <2>1, Onwards DEF M!SemWait, M!SemPost, M!wires, M!history, Passes
<1>3. CASE M!Access(t)
  <2>1. Calls(t, PlainCalls)
    BY <1>3, AtCalls DEF M!Access, PlainCalls
  <2>2. task' = M!Onward(t) \/ \E v : task' = M!Result(t, v)
    BY <1>3 DEF M!Access
  <2> QED BY <1>3, <2>1, <2>2, Onwards, Results DEF M!Access, M!locks, M!history, Passes
<1>4. CASE M!Printf(t)
  <2>1. Calls(t, PlainCalls)
    BY <1>4, AtCalls DEF M!Printf, PlainCalls
  <2> QED BY <1>4, <2>1, Onwards DEF M!Printf, M!locks, Passes
<1>5. CASE M!Open(t) \/ M!Close(t) \/ M!Send(t)
  <2>1. Calls(t, PlainCalls)
    BY <1>5, AtCalls DEF M!Open, M!Close, M!Send, PlainCalls
  <2> QED BY <1>5, <2>1, Onwards DEF M!Open, M!Close, M!Send, M!locks, M!history, Passes
<1>6. CASE M!Connect(t)
  <2>1. Calls(t, PlainCalls)
    BY <1>6, AtCalls DEF M!Connect, PlainCalls
  <2>2. \E v : task' = M!Result(t, v)
    BY <1>6 DEF M!Connect
  <2> QED BY <1>6, <2>1, <2>2, Onwards, Results DEF M!Connect, M!locks, M!history, Passes
<1>7. CASE M!Accept(t)
  <2>1. Calls(t, PlainCalls)
    BY <1>7, AtCalls DEF M!Accept, PlainCalls
  <2>2. \E c : task' = [M!Onward(t) EXCEPT ![t].conn = c]
    BY <1>7 DEF M!Accept
  <2> QED BY <1>7, <2>1, <2>2, OnwardsConn DEF M!Accept, M!locks, M!history, Passes
<1>8. CASE M!Receive(t)
  <2>1. Calls(t, PlainCalls)
    BY <1>8, AtCalls DEF M!Receive, PlainCalls
  <2>2. \E v, d : task' = [M!Result(t, v) EXCEPT ![t].data = d]
    BY <1>8 DEF M!Receive
  <2> QED BY <1>8, <2>1, <2>2, ResultsData DEF M!Receive, M!locks, M!history, Passes
<1> QED BY <1>1, <1>2, <1>3, <1>4, <1>5, <1>6, <1>7, <1>8

LEMMA StirsStep ==
    ASSUME TasksInv, \/ \E t \in DOMAIN task : M!Timeout(t) \/ M!SpuriousWakeup(t)
                     \/ \E w : M!Lose(w)
    PROVE  TasksInv' /\ demo' = demo /\ Stirs
<1>1. CASE \E t \in DOMAIN task : M!Timeout(t)
  <2>1. PICK t \in DOMAIN task : M!Timeout(t)
    BY <1>1
  <2>2. /\ task' = [task EXCEPT ![t].reg = M!ETIMEDOUT] /\ asleep' \subseteq asleep
        /\ UNCHANGED <<demo, gone, owner>>
    BY <2>1 DEF M!Timeout, M!history
  <2> QED BY <2>2 DEF TasksInv, TaskRecord, Stirs, Stand
<1>2. CASE \E t \in DOMAIN task : M!SpuriousWakeup(t)
  BY <1>2 DEF M!SpuriousWakeup, M!history, Stirs, Stand, TasksInv
<1>3. CASE \E w : M!Lose(w)
  BY <1>3 DEF M!Lose, M!history, M!locks, Stirs, Stand, TasksInv
<1> QED BY <1>1, <1>2, <1>3

LEMMA RestartsStep ==
    ASSUME TasksInv, M!Kill
    PROVE  TasksInv' /\ demo' = demo /\ demo \in {"shm", "system_v"} /\ Restarts
BY DEF TasksInv, TaskRecord, Restarts, M!Kill, M!Ready, M!Tasks, M!Main

LEMMA MachineSteps ==
    ASSUME TasksInv, M!MachineNext
    PROVE  /\ TasksInv' /\ demo' = demo
           /\ \/ \E t \in DOMAIN task :
                   \/ Begins(t) \/ Joins(t) \/ Exits(t) \/ Locks(t) \/ Unlocks(t) \/ Sleeps(t)
                   \/ Inits(t) \/ Destroys(t) \/ Jumps(t) \/ Passes(t)
              \/ Stirs \/ (demo \in {"shm", "system_v"} /\ Restarts)
<1>1. CASE \E t \in DOMAIN task : M!Step(t)
  BY <1>1, BeginsStep, JoinsStep, ExitsStep, LocksStep, LivesStep, JumpsStep, PassesStep
  DEF M!Step
<1>2. CASE \/ \E t \in DOMAIN task : M!Timeout(t) \/ M!SpuriousWakeup(t)
           \/ \E w : M!Lose(w)
  BY <1>2, StirsStep
<1>3. CASE M!Kill
  BY <1>3, RestartsStep
<1> QED BY <1>1, <1>2, <1>3 DEF M!MachineNext, M!Tasks

-----------------------------------------------------------------------------
(***************************************************************************)
(* Demos whose main starts the other tasks, joins all of them and then     *)
(* destroys what they shared: what is in their programs (ForkJoin), and    *)
(* why that keeps what is destroyed from being used (ForkJoinInv).         *)
(***************************************************************************)

Members(d) == DOMAIN Programs[d]
Others(d)  == Members(d) \ {1}
Steps(d, t) == 1..Length(d, t)

\* No jumps; the other tasks start and destroy nothing.
Straight(d) ==
    /\ Members(d) \subseteq Nat \ {0} /\ 1 \in Members(d)
    /\ \A t \in Members(d) :
         /\ Length(d, t) \in Nat \ {0}
         /\ \A k \in Steps(d, t) : Instr(d, t, k).call \notin {"jump", "skipIf"}
    /\ \A t \in Others(d) : \A k \in Steps(d, t) :
         Instr(d, t, k).call \notin {"create", "fork", "destroy"}

\* Main starts nobody it has joined, and its exit is its last call.
MainInOrder(d) == \A k \in Steps(d, 1) :
    /\ Instr(d, 1, k).call = "exit" => k = Length(d, 1)
    /\ Instr(d, 1, k).call # "sleep"
    /\ Instr(d, 1, k).call \in {"create", "fork", "join"} => Instr(d, 1, k).task \in Others(d)
    /\ Instr(d, 1, k).call \in {"create", "fork"} => \A j \in 1..(k - 1) :
         Instr(d, 1, j).call = "join" => Instr(d, 1, j).task # Instr(d, 1, k).task

\* It joins everybody before it destroys something, and does not use it again.
DestroysLast(d) == \A k \in Steps(d, 1) : Instr(d, 1, k).call = "destroy" =>
    /\ \A t \in Others(d) : \E j \in 1..(k - 1) :
         Instr(d, 1, j).call = "join" /\ Instr(d, 1, j).task = t
    /\ \A j \in (k + 1)..Length(d, 1) :
         "on" \in DOMAIN Instr(d, 1, j) => Instr(d, 1, j).on # Instr(d, 1, k).on
    /\ "on" \in DOMAIN Instr(d, 1, k)

\* Whoever locks a mutex unlocks it further on; a wait is not the last call.
LocksEnd(d) == \A t \in Members(d) : \A k \in Steps(d, t) :
    /\ Instr(d, t, k).call = "lock" =>
         /\ Instr(d, t, k).on # "mutex_"
         /\ \E j \in Steps(d, t) :
              j > k /\ Instr(d, t, j).call = "unlock" /\ Instr(d, t, j).on = Instr(d, t, k).on
    /\ Instr(d, t, k).call \in {"lock", "unlock", "sleep"} => "on" \in DOMAIN Instr(d, t, k)
    /\ Instr(d, t, k).call = "sleep" => k < Length(d, t)

\* An exit ends nobody else: others do not call it, or there are only processes.
NoThreads(d) == \A t \in Members(d) : \A k \in Steps(d, t) :
    Instr(d, t, k).call \notin {"create", "lock", "unlock", "sleep"}
EndsAlone(d) ==
    \/ \A t \in Others(d) : \A k \in Steps(d, t) : Instr(d, t, k).call # "exit"
    \/ NoThreads(d)

ForkJoin(d) ==
    Straight(d) /\ MainInOrder(d) /\ DestroysLast(d) /\ LocksEnd(d) /\ EndsAlone(d)

PcInv(d) ==
    /\ \A t \in Members(d) : Pc(t) \in 0..(Length(d, t) + 1)
    /\ Pc(1) > 0
SpacesInv(d) == NoThreads(d) => \A t \in Members(d) : Pc(t) > 0 => task[t].space = t
JoinedInv(d) == \A k \in 1..(Pc(1) - 1) :
    Instr(d, 1, k).call = "join" => Pc(Instr(d, 1, k).task) > Length(d, Instr(d, 1, k).task)
GoneInv(d) == \A o \in gone : \E k \in 1..(Pc(1) - 1) :
    Instr(d, 1, k).call = "destroy" /\ Instr(d, 1, k).on = o
Holding(d, m) ==
    \/ owner[m] = M!Nobody
    \/ /\ owner[m].depth = 1 /\ owner[m].task \in Members(d)
       /\ \/ Pc(1) > Length(d, 1)
          \/ \E k \in Steps(d, owner[m].task) :
               /\ k >= Pc(owner[m].task)
               /\ Instr(d, owner[m].task, k).call = "unlock"
               /\ Instr(d, owner[m].task, k).on = m
LockInv(d) == \A m \in DOMAIN owner : Holding(d, m)
SleepInv(d) == \A z \in asleep : z.task \in Others(d) /\ Pc(z.task) \in Steps(d, z.task)
AloneInv(d) == NoThreads(d) => DOMAIN owner = {} /\ asleep = {}
FreeInv(d) == \A o \in gone : M!OwnerOf(o) = M!Nobody /\ \A z \in asleep : z.on # o

ForkJoinInv(d) ==
    /\ PcInv(d) /\ SpacesInv(d) /\ JoinedInv(d) /\ GoneInv(d)
    /\ LockInv(d) /\ SleepInv(d) /\ AloneInv(d) /\ FreeInv(d)

\* Where the tasks may be after a step of t.
LEMMA ForkJoinGoes ==
    ASSUME NEW d, ForkJoin(d), ForkJoinInv(d), NEW t \in Members(d), DOMAIN task = Members(d),
           Pc(t) \in Steps(d, t), Goes(t, Pc(t) + 1),
           Instr(d, t, Pc(t)).call = "join" =>
             Pc(Instr(d, t, Pc(t)).task) > Length(d, Instr(d, t, Pc(t)).task)
    PROVE  PcInv(d)' /\ SpacesInv(d)' /\ JoinedInv(d)' /\ (gone' = gone => GoneInv(d)')
<1>1. PcInv(d)'
  BY DEF ForkJoin, Straight, ForkJoinInv, PcInv, Goes, Steps, Pc
<1>2. SpacesInv(d)'
  BY DEF ForkJoin, Straight, ForkJoinInv, PcInv, SpacesInv, Goes, Steps, Pc
<1>3. JoinedInv(d)'
  BY DEF ForkJoin, Straight, MainInOrder, ForkJoinInv, PcInv, JoinedInv, Goes, Steps, Pc, Others
<1>4. gone' = gone => GoneInv(d)'
  BY DEF ForkJoin, Straight, ForkJoinInv, PcInv, GoneInv, Goes, Steps, Pc
<1> QED BY <1>1, <1>2, <1>3, <1>4

\* When something was destroyed everybody but main has ended, and main is past it.
LEMMA Settled ==
    ASSUME NEW d, ForkJoin(d), ForkJoinInv(d), NEW o \in gone
    PROVE  /\ \A t \in Others(d) : Pc(t) > Length(d, t)
           /\ Pc(1) \in Steps(d, 1) /\ "on" \in DOMAIN Instr(d, 1, Pc(1))
                => Instr(d, 1, Pc(1)).on # o
<1>1. PICK k \in 1..(Pc(1) - 1) : Instr(d, 1, k).call = "destroy" /\ Instr(d, 1, k).on = o
  BY DEF ForkJoinInv, GoneInv
<1>2. k \in Steps(d, 1) /\ Pc(1) \in Nat /\ Length(d, 1) \in Nat
  BY <1>1 DEF ForkJoin, Straight, ForkJoinInv, PcInv, Steps
<1>3. ASSUME NEW t \in Others(d) PROVE Pc(t) > Length(d, t)
  <2>1. PICK j \in 1..(k - 1) : Instr(d, 1, j).call = "join" /\ Instr(d, 1, j).task = t
    BY <1>1, <1>2 DEF ForkJoin, DestroysLast
  <2>2. j \in 1..(Pc(1) - 1)
    BY <1>1, <1>2
  <2> QED BY <2>1, <2>2 DEF ForkJoinInv, JoinedInv
<1>4. ASSUME Pc(1) \in Steps(d, 1), "on" \in DOMAIN Instr(d, 1, Pc(1))
      PROVE  Instr(d, 1, Pc(1)).on # o
  <2>1. Pc(1) \in (k + 1)..Length(d, 1)
    BY <1>1, <1>2, <1>4 DEF Steps
  <2> QED BY <1>1, <1>2, <1>4, <2>1 DEF ForkJoin, DestroysLast
<1> QED BY <1>3, <1>4

\* Who holds m holds it still after a step that does not unlock it.
LEMMA StillHeld ==
    ASSUME NEW d, ForkJoin(d), ForkJoinInv(d), NEW t \in Members(d), DOMAIN task = Members(d),
           Pc(t) \in Steps(d, t), Goes(t, Pc(t) + 1), NEW m \in DOMAIN owner, owner'[m] = owner[m],
           ~(Instr(d, t, Pc(t)).call = "unlock" /\ Instr(d, t, Pc(t)).on = m)
    PROVE  Holding(d, m)'
<1>1. CASE owner[m] = M!Nobody
  BY <1>1 DEF Holding
<1>2. CASE owner[m] # M!Nobody
  <2> DEFINE u == owner[m].task
  <2>1. /\ owner[m].depth = 1 /\ u \in Members(d)
        /\ \/ Pc(1) > Length(d, 1)
           \/ \E k \in Steps(d, u) : /\ k >= Pc(u) /\ Instr(d, u, k).call = "unlock"
                                    /\ Instr(d, u, k).on = m
    BY <1>2 DEF ForkJoinInv, LockInv, Holding
  <2> HIDE DEF u
  <2>2. \A v \in Members(d) : Pc(v)' = IF v = t THEN Pc(t) + 1 ELSE Pc(v)
    BY DEF Goes, Pc
  <2>3. CASE Pc(1) > Length(d, 1)
    BY <2>1, <2>2, <2>3 DEF u, Holding, ForkJoin, Straight, ForkJoinInv, PcInv
  <2>4. ASSUME NEW k \in Steps(d, u), k >= Pc(u), Instr(d, u, k).call = "unlock",
               Instr(d, u, k).on = m
        PROVE  Holding(d, m)'
    <3>1. k >= task'[u].pc
      <4>1. k \in Nat /\ Pc(t) \in Nat /\ (u = t => k # Pc(t))
        BY <2>4 DEF ForkJoin, Straight, Steps
      <4> QED BY <2>1, <2>2, <2>4, <4>1 DEF Pc
    <3> QED BY <2>1, <2>4, <3>1 DEF u, Holding, Pc
  <2> QED BY <2>1, <2>3, <2>4
<1> QED BY <1>1, <1>2

\* A step that leaves the locks alone, wherever it takes the tasks.
LEMMA LocksKept ==
    ASSUME NEW d, ForkJoin(d), ForkJoinInv(d), NEW t \in Members(d), DOMAIN task = Members(d),
           Pc(t) \in Steps(d, t), Goes(t, Pc(t) + 1), Instr(d, t, Pc(t)).call # "unlock",
           \A z \in asleep : z.task # t, UNCHANGED owner, asleep' \subseteq asleep
    PROVE  LockInv(d)' /\ SleepInv(d)' /\ AloneInv(d)'
<1>1. LockInv(d)'
  BY StillHeld DEF LockInv
<1>2. SleepInv(d)'
  BY DEF ForkJoinInv, SleepInv, Goes, Pc, Others
<1>3. AloneInv(d)'
  BY DEF ForkJoinInv, AloneInv
<1> QED BY <1>1, <1>2, <1>3

LEMMA ForkJoinPasses ==
    ASSUME NEW d, demo = d, ForkJoin(d), ForkJoinInv(d), NEW t \in Members(d),
           DOMAIN task = Members(d), Joins(t) \/ Inits(t) \/ Passes(t)
    PROVE  ForkJoinInv(d)'
<1>1. /\ Pc(t) \in Steps(d, t) /\ Here(t) = Instr(d, t, Pc(t)) /\ Goes(t, Pc(t) + 1)
      /\ Here(t).call \in {"join", "sem_init", "sem_open"} \cup PlainCalls
      /\ \A z \in asleep : z.task # t
      /\ gone' \subseteq gone /\ UNCHANGED owner /\ asleep' \subseteq asleep
  BY DEF Joins, Inits, Passes, Calls, Here, Steps, Length
<1>2. Here(t).call # "unlock" /\ (Here(t).call = "join" => Joins(t))
  BY DEF Joins, Inits, Passes, Calls, PlainCalls
<1>3. Here(t).call = "join" => Pc(Here(t).task) > Length(d, Here(t).task)
  BY <1>2 DEF Joins
<1>4. PcInv(d)' /\ SpacesInv(d)' /\ JoinedInv(d)'
  BY <1>1, <1>3, ForkJoinGoes
<1>5. LockInv(d)' /\ SleepInv(d)' /\ AloneInv(d)'
  BY <1>1, <1>2, LocksKept
<1>6. GoneInv(d)'
  BY <1>1 DEF ForkJoin, Straight, ForkJoinInv, PcInv, GoneInv, Goes, Steps, Pc
<1>7. FreeInv(d)'
  BY <1>1 DEF ForkJoinInv, FreeInv, M!OwnerOf, M!Value
<1> QED BY <1>4, <1>5, <1>6, <1>7 DEF ForkJoinInv

LEMMA ForkJoinLocks ==
    ASSUME NEW d, demo = d, ForkJoin(d), ForkJoinInv(d), NEW t \in Members(d),
           DOMAIN task = Members(d), Locks(t) \/ Unlocks(t) \/ Sleeps(t)
    PROVE  ForkJoinInv(d)'
<1>1. /\ Pc(t) \in Steps(d, t) /\ Here(t) = Instr(d, t, Pc(t)) /\ Goes(t, Pc(t) + 1)
      /\ Here(t).call \in {"lock", "unlock", "sleep"} /\ gone' = gone
      /\ \A z \in asleep : z.task # t
  BY DEF Locks, Unlocks, Sleeps, Calls, Here, Steps
<1>2. PcInv(d)' /\ SpacesInv(d)' /\ JoinedInv(d)' /\ GoneInv(d)'
  BY <1>1, ForkJoinGoes
<1>3. AloneInv(d)'
  BY <1>1 DEF AloneInv, NoThreads
<1>4. LockInv(d)'
  <2>1. \A m \in DOMAIN owner : \/ owner[m].task = 0 /\ owner[m].depth = 0
                                \/ owner[m].depth = 1 /\ owner[m].task # 0
    BY DEF ForkJoin, Straight, ForkJoinInv, LockInv, Holding, M!Nobody
  <2>2. CASE Locks(t)
    <3>1. Here(t).call = "lock" /\ Here(t).on # "mutex_"
      BY <1>1, <2>2 DEF Locks, Calls, ForkJoin, LocksEnd
    <3>2. M!OwnerOf(Here(t).on).depth = 0
      BY <2>1, <2>2, <3>1 DEF Locks, M!OwnerOf, M!Value, M!Nobody
    <3>3. owner' = M!Put(owner, Here(t).on, [task |-> t, depth |-> 1])
      BY <2>2, <3>2 DEF Locks
    <3>4. PICK k \in Steps(d, t) : /\ k > Pc(t) /\ Instr(d, t, k).call = "unlock"
                                  /\ Instr(d, t, k).on = Here(t).on
      BY <1>1, <3>1 DEF ForkJoin, LocksEnd
    <3>5. task'[t].pc = Pc(t) + 1
      BY <1>1 DEF Goes, Pc
    <3>6. \A m : m = Here(t).on => Holding(d, m)'
      <4>1. owner'[Here(t).on] = [task |-> t, depth |-> 1]
        BY <3>3 DEF M!Put
      <4>2. k >= task'[t].pc
        BY <1>1, <3>4, <3>5 DEF Steps, ForkJoin, Straight
      <4> QED BY <3>4, <4>1, <4>2 DEF Holding, Pc
    <3>7. \A m \in DOMAIN owner' : m = Here(t).on \/ (m \in DOMAIN owner /\ owner'[m] = owner[m])
      BY <3>3 DEF M!Put
    <3> QED BY <1>1, <3>1, <3>6, <3>7, StillHeld DEF LockInv
  <2>3. CASE Unlocks(t)
    <3>1. M!Released(Here(t).on) = M!Nobody
      BY <2>1 DEF M!Released, M!OwnerOf, M!Value, M!Nobody
    <3>2. owner' = M!Put(owner, Here(t).on, M!Nobody)
      BY <2>3, <3>1 DEF Unlocks
    <3>3. \A m : m = Here(t).on => Holding(d, m)'
      BY <3>2 DEF Holding, M!Put
    <3>4. \A m \in DOMAIN owner' : m = Here(t).on \/ (m \in DOMAIN owner /\ owner'[m] = owner[m])
      BY <3>2 DEF M!Put
    <3> QED BY <1>1, <3>3, <3>4, StillHeld DEF LockInv
  <2>4. CASE Sleeps(t)
    <3>1. M!Released(Here(t).mutex) = M!Nobody /\ Here(t).call = "sleep"
      BY <2>1, <2>4 DEF Sleeps, Calls, M!Released, M!OwnerOf, M!Value, M!Nobody
    <3>2. owner' = M!Put(owner, Here(t).mutex, M!Nobody)
      BY <2>4, <3>1 DEF Sleeps
    <3>3. \A m : m = Here(t).mutex => Holding(d, m)'
      BY <3>2 DEF Holding, M!Put
    <3>4. \A m \in DOMAIN owner' : m = Here(t).mutex \/ (m \in DOMAIN owner /\ owner'[m] = owner[m])
      BY <3>2 DEF M!Put
    <3> QED BY <1>1, <3>1, <3>3, <3>4, StillHeld DEF LockInv
  <2> QED BY <2>2, <2>3, <2>4
<1>5. SleepInv(d)'
  <2>1. CASE asleep' = asleep
    BY <1>1, <2>1 DEF ForkJoinInv, SleepInv, Goes, Pc, Others
  <2>2. CASE Sleeps(t)
    <3>1. Here(t).call = "sleep" /\ t \in Others(d)
      BY <1>1, <2>2 DEF Sleeps, Calls, ForkJoin, MainInOrder, Others
    <3>2. Pc(t) + 1 \in Steps(d, t)
      BY <1>1, <3>1 DEF ForkJoin, Straight, LocksEnd, Steps
    <3> QED BY <1>1, <2>2, <3>1, <3>2 DEF Sleeps, ForkJoinInv, SleepInv, Goes, Pc, Others
  <2> QED BY <2>1, <2>2 DEF Locks, Unlocks
<1>6. FreeInv(d)'
  <2> SUFFICES ASSUME NEW o \in gone
               PROVE  M!OwnerOf(o)' = M!Nobody /\ \A z \in asleep' : z.on # o
    BY <1>1 DEF FreeInv, M!OwnerOf, M!Value, M!Nobody
  <2>1. t = 1 /\ Here(t).on # o
    BY <1>1, Settled DEF Steps, Others, ForkJoin, Straight, LocksEnd
  <2>2. Here(t).call # "sleep"
    BY <1>1, <2>1 DEF ForkJoin, MainInOrder
  <2>3. asleep' = asleep /\ \E r : owner' = M!Put(owner, Here(t).on, r)
    BY <2>2 DEF Locks, Unlocks, Sleeps, Calls
  <2> QED BY <2>1, <2>3 DEF ForkJoinInv, FreeInv, M!OwnerOf, M!Value, M!Put
<1> QED BY <1>2, <1>3, <1>4, <1>5, <1>6 DEF ForkJoinInv

LEMMA ForkJoinBegins ==
    ASSUME NEW d, demo = d, ForkJoin(d), ForkJoinInv(d), NEW t \in Members(d),
           DOMAIN task = Members(d), Begins(t)
    PROVE  ForkJoinInv(d)'
<1> DEFINE u == Here(t).task
<1>1. /\ Pc(t) \in Steps(d, t) /\ Here(t) = Instr(d, t, Pc(t))
      /\ Here(t).call \in {"create", "fork"} /\ \A z \in asleep : z.task # t
      /\ UNCHANGED <<gone, owner, asleep>>
  BY DEF Begins, Calls, Here, Steps
<1>2. t = 1 /\ u \in Others(d)
  BY <1>1 DEF ForkJoin, Straight, MainInOrder, Others
<1>3. \A v \in Members(d) :
        task'[v].pc = IF v = u THEN 1 ELSE IF v = 1 THEN Pc(1) + 1 ELSE Pc(v)
  BY <1>2 DEF Begins, Pc
<1>4. \A v \in Members(d) :
        task'[v].space = IF v # u THEN task[v].space
                         ELSE IF Here(t).call = "create" THEN task[t].space ELSE v
  BY DEF Begins
<1> HIDE DEF u
<1>5. PcInv(d)'
  BY <1>1, <1>2, <1>3 DEF ForkJoin, Straight, ForkJoinInv, PcInv, Steps, Pc, Others
<1>6. SpacesInv(d)'
  <2> SUFFICES ASSUME NoThreads(d), NEW v \in Members(d), task'[v].pc > 0
               PROVE  task'[v].space = v
    BY DEF SpacesInv, Pc
  <2>1. Here(t).call = "fork"
    BY <1>1 DEF NoThreads
  <2> QED BY <1>2, <1>3, <1>4, <2>1 DEF ForkJoinInv, PcInv, SpacesInv
<1>7. JoinedInv(d)'
  <2> SUFFICES ASSUME NEW k \in 1..(task'[1].pc - 1), Instr(d, 1, k).call = "join"
               PROVE  task'[Instr(d, 1, k).task].pc > Length(d, Instr(d, 1, k).task)
    BY DEF JoinedInv, Pc
  <2>1. task'[1].pc = Pc(1) + 1 /\ Pc(1) \in Nat
    BY <1>2, <1>3 DEF ForkJoinInv, PcInv, ForkJoin, Straight, Others
  <2>2. k \in 1..(Pc(1) - 1)
    BY <1>1, <1>2, <2>1
  <2>3. Instr(d, 1, k).task # u
    BY <1>1, <1>2, <2>2 DEF u, ForkJoin, MainInOrder
  <2>4. k \in Steps(d, 1) /\ Instr(d, 1, k).task \in Others(d)
    <3>1. k \in Steps(d, 1)
      BY <1>1, <1>2, <2>1, <2>2 DEF Steps, ForkJoin, Straight
    <3> QED BY <3>1 DEF ForkJoin, MainInOrder
  <2> QED BY <1>3, <2>2, <2>3, <2>4 DEF ForkJoinInv, JoinedInv, Others
<1>8. GoneInv(d)' /\ FreeInv(d)'
  <2>1. \A o \in gone : t # 1 \/ ~(Here(t).call \in {"create", "fork"})
    <3> SUFFICES ASSUME NEW o \in gone PROVE FALSE
      BY <1>1
    <3>1. PICK k \in 1..(Pc(1) - 1) : Instr(d, 1, k).call = "destroy"
      BY DEF ForkJoinInv, GoneInv
    <3>2. Pc(1) \in Steps(d, 1) /\ k \in Steps(d, 1) /\ k < Pc(1)
      BY <1>1, <1>2, <3>1 DEF Steps, ForkJoin, Straight
    <3>3. PICK j \in 1..(k - 1) : Instr(d, 1, j).call = "join" /\ Instr(d, 1, j).task = u
      BY <1>2, <3>1, <3>2 DEF ForkJoin, DestroysLast
    <3>4. j \in 1..(Pc(1) - 1)
      BY <3>2, <3>3 DEF Steps
    <3> QED BY <1>1, <1>2, <3>2, <3>3, <3>4 DEF u, ForkJoin, MainInOrder
  <2>2. gone' = {}
    BY <1>1, <1>2, <2>1
  <2> QED BY <2>2 DEF GoneInv, FreeInv
<1>9. LockInv(d)'
  <2> SUFFICES ASSUME NEW m \in DOMAIN owner PROVE Holding(d, m)'
    BY <1>1 DEF LockInv
  <2> DEFINE h == owner[m].task
  <2>1. CASE owner[m] = M!Nobody
    BY <1>1, <2>1 DEF Holding
  <2>2. CASE owner[m] # M!Nobody
    <3>1. PICK k \in Steps(d, h) : k >= Pc(h) /\ Instr(d, h, k).call = "unlock"
                                  /\ Instr(d, h, k).on = m
      BY <1>1, <1>2, <2>2 DEF ForkJoinInv, PcInv, LockInv, Holding, Steps, ForkJoin, Straight
    <3>2. owner[m].depth = 1 /\ h \in Members(d)
      BY <2>2 DEF ForkJoinInv, LockInv, Holding
    <3> HIDE DEF h
    <3>3. k >= task'[h].pc
      BY <1>1, <1>2, <1>3, <3>1, <3>2 DEF Steps, ForkJoin, Straight, ForkJoinInv, PcInv
    <3> QED BY <1>1, <3>1, <3>2, <3>3 DEF h, Holding, Pc
  <2> QED BY <2>1, <2>2
<1>10. SleepInv(d)' /\ AloneInv(d)'
  BY <1>1, <1>2, <1>3 DEF ForkJoinInv, SleepInv, AloneInv, Steps, Pc, ForkJoin, Straight, Others
<1> QED BY <1>5, <1>6, <1>7, <1>8, <1>9, <1>10 DEF ForkJoinInv

LEMMA ForkJoinDestroys ==
    ASSUME NEW d, demo = d, ForkJoin(d), ForkJoinInv(d), NEW t \in Members(d),
           DOMAIN task = Members(d), Destroys(t)
    PROVE  ForkJoinInv(d)'
<1>1. /\ Pc(t) \in Steps(d, t) /\ Here(t) = Instr(d, t, Pc(t)) /\ Goes(t, Pc(t) + 1)
      /\ Here(t).call = "destroy" /\ \A z \in asleep : z.task # t
      /\ gone' = gone \cup {Here(t).on} /\ UNCHANGED <<owner, asleep>>
  BY DEF Destroys, Calls, Here, Steps
<1>2. t = 1
  BY <1>1 DEF ForkJoin, Straight, Others
<1>3. PcInv(d)' /\ SpacesInv(d)' /\ JoinedInv(d)'
  BY <1>1, ForkJoinGoes
<1>4. LockInv(d)' /\ SleepInv(d)' /\ AloneInv(d)'
  BY <1>1, LocksKept
<1>5. \A v \in Others(d) : Pc(v) > Length(d, v)
  <2> SUFFICES ASSUME NEW v \in Others(d) PROVE Pc(v) > Length(d, v)
    OBVIOUS
  <2>1. PICK j \in 1..(Pc(1) - 1) : Instr(d, 1, j).call = "join" /\ Instr(d, 1, j).task = v
    BY <1>1, <1>2 DEF ForkJoin, DestroysLast
  <2> QED BY <2>1 DEF ForkJoinInv, JoinedInv
<1>6. GoneInv(d)'
  <2> SUFFICES ASSUME NEW o \in gone'
               PROVE  \E k \in 1..(task'[1].pc - 1) :
                         Instr(d, 1, k).call = "destroy" /\ Instr(d, 1, k).on = o
    BY DEF GoneInv, Pc
  <2>1. task'[1].pc = Pc(1) + 1 /\ Pc(1) \in Nat \ {0}
    BY <1>1, <1>2 DEF Goes, Steps, ForkJoin, Straight, Pc
  <2>2. CASE o \in gone
    BY <2>1, <2>2 DEF ForkJoinInv, GoneInv
  <2>3. CASE o = Here(t).on
    BY <1>1, <1>2, <2>1, <2>3
  <2> QED BY <1>1, <2>2, <2>3
<1>7. FreeInv(d)'
  <2>1. asleep = {}
    BY <1>5 DEF ForkJoinInv, SleepInv, Steps, ForkJoin, Straight, Others
  <2> SUFFICES ASSUME NEW o \in gone' PROVE M!OwnerOf(o) = M!Nobody
    BY <1>1, <2>1 DEF FreeInv, M!OwnerOf, M!Value, M!Nobody
  <2>2. CASE o \in gone
    BY <2>2 DEF ForkJoinInv, FreeInv
  <2>3. CASE o = Here(t).on /\ o \in DOMAIN owner
    <3> SUFFICES ASSUME owner[o] # M!Nobody PROVE FALSE
      BY <2>3 DEF M!OwnerOf, M!Value
    <3> DEFINE h == owner[o].task
    <3>1. PICK k \in Steps(d, h) : k >= Pc(h) /\ Instr(d, h, k).call = "unlock"
                                  /\ Instr(d, h, k).on = o
      BY <1>1, <1>2, <2>3 DEF ForkJoinInv, PcInv, LockInv, Holding, Steps, ForkJoin, Straight
    <3>2. h \in Members(d)
      BY <2>3 DEF ForkJoinInv, LockInv, Holding
    <3> HIDE DEF h
    <3>3. h = 1
      BY <1>5, <3>1, <3>2 DEF Steps, ForkJoin, Straight, ForkJoinInv, PcInv, Others
    <3>4. k # Pc(1)
      BY <1>1, <1>2, <3>1, <3>3
    <3>5. k \in (Pc(1) + 1)..Length(d, 1) /\ "on" \in DOMAIN Instr(d, 1, k)
      BY <1>1, <1>2, <3>1, <3>3, <3>4 DEF Steps, ForkJoin, Straight, LocksEnd
    <3> QED BY <1>1, <1>2, <2>3, <3>1, <3>3, <3>5 DEF ForkJoin, DestroysLast
  <2>4. CASE o \notin DOMAIN owner
    BY <2>4 DEF M!OwnerOf, M!Value
  <2> QED BY <1>1, <2>2, <2>3, <2>4
<1> QED BY <1>3, <1>4, <1>6, <1>7 DEF ForkJoinInv

LEMMA ForkJoinExits ==
    ASSUME NEW d, demo = d, ForkJoin(d), ForkJoinInv(d), NEW t \in Members(d),
           DOMAIN task = Members(d), Exits(t)
    PROVE  ForkJoinInv(d)'
<1>1. /\ Pc(t) \in Steps(d, t) /\ Here(t) = Instr(d, t, Pc(t)) /\ Here(t).call = "exit"
      /\ UNCHANGED <<gone, owner>> /\ asleep' \subseteq asleep
      /\ \A v \in Members(d) :
           /\ task'[v].pc = IF Pc(v) > 0 /\ task[v].space = task[t].space
                            THEN Length(d, v) + 1 ELSE Pc(v)
           /\ task'[v].space = task[v].space
      /\ \A z \in asleep' : ~(Pc(z.task) > 0 /\ task[z.task].space = task[t].space)
                            \/ z.task \notin Members(d)
  BY DEF Exits, Calls, Here, Steps, Pc
<1>2. \A v \in Members(d) :
        /\ Length(d, v) \in Nat \ {0} /\ Pc(v) \in 0..(Length(d, v) + 1)
        /\ task'[v].pc \in {Pc(v), Length(d, v) + 1}
        /\ Pc(v) > 0 => task'[v].pc > 0
  BY <1>1 DEF ForkJoin, Straight, ForkJoinInv, PcInv
<1>3. task'[t].pc = Length(d, t) + 1
  BY <1>1, <1>2 DEF Steps
<1>4. t = 1 \/ (NoThreads(d) /\ t \in Others(d))
  BY <1>1 DEF ForkJoin, EndsAlone, Others
<1>5. t # 1 => task'[1].pc = Pc(1)
  <2> SUFFICES ASSUME t # 1 PROVE ~(Pc(1) > 0 /\ task[1].space = task[t].space)
    BY <1>1, <1>4 DEF ForkJoin, Straight
  <2> QED BY <1>1, <1>2, <1>4 DEF ForkJoinInv, SpacesInv, PcInv, ForkJoin, Straight, Steps
<1>6. t = 1 => Pc(1) = Length(d, 1)
  BY <1>1 DEF ForkJoin, MainInOrder
<1>7. /\ task'[1].pc \in {Pc(1), Pc(1) + 1} /\ Pc(1) \in Nat \ {0}
      /\ task'[1].pc = Pc(1) + 1 => t = 1
  BY <1>2, <1>3, <1>4, <1>5, <1>6 DEF ForkJoin, Straight, ForkJoinInv, PcInv
<1>8. PcInv(d)' /\ SpacesInv(d)'
  BY <1>1, <1>2, <1>7 DEF ForkJoinInv, PcInv, SpacesInv, ForkJoin, Straight, Pc
<1>9. JoinedInv(d)'
  <2> SUFFICES ASSUME NEW k \in 1..(task'[1].pc - 1), Instr(d, 1, k).call = "join"
               PROVE  task'[Instr(d, 1, k).task].pc > Length(d, Instr(d, 1, k).task)
    BY DEF JoinedInv, Pc
  <2>1. k \in 1..(Pc(1) - 1) /\ k \in Steps(d, 1)
    BY <1>1, <1>2, <1>7 DEF Steps, ForkJoin, Straight
  <2>2. Instr(d, 1, k).task \in Members(d)
    BY <2>1 DEF ForkJoin, MainInOrder, Others
  <2> QED BY <1>2, <2>1, <2>2 DEF ForkJoinInv, JoinedInv
<1>10. GoneInv(d)'
  <2> SUFFICES ASSUME NEW o \in gone
               PROVE  \E k \in 1..(task'[1].pc - 1) :
                         Instr(d, 1, k).call = "destroy" /\ Instr(d, 1, k).on = o
    BY <1>1 DEF GoneInv, Pc
  <2>1. PICK k \in 1..(Pc(1) - 1) : Instr(d, 1, k).call = "destroy" /\ Instr(d, 1, k).on = o
    BY DEF ForkJoinInv, GoneInv
  <2> QED BY <1>7, <2>1
<1>11. LockInv(d)'
  <2>1. CASE t = 1
    <3>1. task'[1].pc > Length(d, 1)
      BY <1>2, <1>3, <2>1
    <3> QED BY <1>1, <3>1 DEF ForkJoinInv, LockInv, Holding, Pc
  <2>2. CASE NoThreads(d)
    BY <1>1, <2>2 DEF ForkJoinInv, AloneInv, LockInv
  <2> QED BY <1>4, <2>1, <2>2
<1>12. SleepInv(d)' /\ AloneInv(d)'
  <2>1. \A z \in asleep' : z.task \in Others(d) /\ Pc(z.task) \in Steps(d, z.task)
    BY <1>1 DEF ForkJoinInv, SleepInv
  <2>2. \A z \in asleep' : task'[z.task].pc = Pc(z.task)
    BY <1>1, <2>1 DEF Others
  <2> QED BY <1>1, <2>1, <2>2 DEF SleepInv, ForkJoinInv, AloneInv, Pc
<1>13. FreeInv(d)'
  BY <1>1 DEF ForkJoinInv, FreeInv, M!OwnerOf, M!Value
<1> QED BY <1>8, <1>9, <1>10, <1>11, <1>12, <1>13 DEF ForkJoinInv

\* Steps of nobody.
LEMMA ForkJoinStirs ==
    ASSUME NEW d, ForkJoin(d), ForkJoinInv(d), DOMAIN task = Members(d), Stirs \/ Restarts
    PROVE  ForkJoinInv(d)'
<1>1. CASE Stirs
  <2>1. \A v \in Members(d) : task'[v].pc = task[v].pc /\ task'[v].space = task[v].space
    BY <1>1 DEF Stirs, Stand
  <2>2. UNCHANGED <<gone, owner>> /\ asleep' \subseteq asleep
    BY <1>1 DEF Stirs
  <2>3. PcInv(d)' /\ SpacesInv(d)'
    BY <2>1 DEF ForkJoin, Straight, ForkJoinInv, PcInv, SpacesInv, Pc
  <2>4. JoinedInv(d)' /\ GoneInv(d)'
    BY <2>1, <2>2 DEF ForkJoin, Straight, MainInOrder, ForkJoinInv, PcInv, JoinedInv, GoneInv, Pc,
                      Steps, Others
  <2>5. LockInv(d)'
    BY <2>1, <2>2 DEF ForkJoin, Straight, ForkJoinInv, LockInv, Holding, Pc
  <2>6. SleepInv(d)' /\ AloneInv(d)' /\ FreeInv(d)'
    BY <2>1, <2>2 DEF ForkJoinInv, SleepInv, AloneInv, FreeInv, M!OwnerOf, M!Value, Pc, Others
  <2> QED BY <2>3, <2>4, <2>5, <2>6 DEF ForkJoinInv
<1>2. CASE Restarts
  <2>1. \A v \in Members(d) : task'[v].pc = (IF v = 1 THEN 1 ELSE 0)
                              /\ task'[v].space = (IF v = 1 THEN 1 ELSE 0)
    BY <1>2 DEF Restarts
  <2>2. gone' = {} /\ asleep' = {} /\ DOMAIN owner' = {}
    BY <1>2 DEF Restarts
  <2>3. PcInv(d)' /\ SpacesInv(d)'
    BY <2>1 DEF ForkJoin, Straight, PcInv, SpacesInv, Pc
  <2>4. task'[1].pc = 1
    BY <2>1 DEF ForkJoin, Straight
  <2>5. JoinedInv(d)' /\ GoneInv(d)'
    BY <2>2, <2>4 DEF JoinedInv, GoneInv, Pc
  <2>6. LockInv(d)' /\ SleepInv(d)' /\ AloneInv(d)' /\ FreeInv(d)'
    BY <2>2 DEF LockInv, SleepInv, AloneInv, FreeInv
  <2> QED BY <2>3, <2>5, <2>6 DEF ForkJoinInv
<1> QED BY <1>1, <1>2

LEMMA ForkJoinStep ==
    ASSUME NEW d, demo = d, ForkJoin(d), ForkJoinInv(d), TasksInv, M!MachineNext
    PROVE  ForkJoinInv(d)'
<1>1. DOMAIN task = Members(d)
  BY DEF TasksInv, Members
<1>2. CASE Stirs \/ Restarts
  BY <1>1, <1>2, ForkJoinStirs
<1>3. ASSUME NEW t \in DOMAIN task,
             \/ Begins(t) \/ Joins(t) \/ Exits(t) \/ Locks(t) \/ Unlocks(t) \/ Sleeps(t)
             \/ Inits(t) \/ Destroys(t) \/ Passes(t)
      PROVE  ForkJoinInv(d)'
  BY <1>1, <1>3, ForkJoinBegins, ForkJoinPasses, ForkJoinExits, ForkJoinLocks, ForkJoinDestroys
<1>4. ASSUME NEW t \in DOMAIN task, Jumps(t) PROVE FALSE
  <2>1. Pc(t) \in Steps(d, t) /\ Instr(d, t, Pc(t)).call \in {"jump", "skipIf"}
    BY <1>4 DEF Jumps, Calls, Here, Steps
  <2> QED BY <1>1, <2>1 DEF ForkJoin, Straight
<1> QED BY <1>2, <1>3, <1>4, MachineSteps

LEMMA ForkJoinStart ==
    ASSUME NEW d, demo = d, ForkJoin(d), M!MachineInit
    PROVE  ForkJoinInv(d)
<1>1. /\ task = [t \in Members(d) |-> IF t = 1 THEN M!Ready(1) ELSE [M!Ready(0) EXCEPT !.pc = 0]]
      /\ gone = {} /\ asleep = {} /\ DOMAIN owner = {}
  BY DEF M!MachineInit, M!Main, Members
<1>2. \A v \in Members(d) : Pc(v) = (IF v = 1 THEN 1 ELSE 0)
                           /\ task[v].space = (IF v = 1 THEN 1 ELSE 0)
  BY <1>1 DEF M!Ready, Pc
<1>3. PcInv(d) /\ SpacesInv(d)
  BY <1>2 DEF ForkJoin, Straight, PcInv, SpacesInv
<1>4. Pc(1) = 1
  BY <1>2 DEF ForkJoin, Straight
<1>5. JoinedInv(d) /\ GoneInv(d)
  BY <1>1, <1>4 DEF JoinedInv, GoneInv
<1>6. LockInv(d) /\ SleepInv(d) /\ AloneInv(d) /\ FreeInv(d)
  BY <1>1 DEF LockInv, SleepInv, AloneInv, FreeInv
<1> QED BY <1>3, <1>5, <1>6 DEF ForkJoinInv

LEMMA ForkJoinSafe ==
    ASSUME NEW d, demo = d, ForkJoin(d), ForkJoinInv(d), TasksInv
    PROVE  NothingUsedAfterDestroy
<1>1. DOMAIN task = Members(d)
  BY DEF TasksInv, Members
<1>2. ASSUME NEW t \in DOMAIN task, Running(t), "on" \in DOMAIN M!Ins(t), M!Ins(t).on \in gone
      PROVE  FALSE
  <2>1. Pc(t) \in Steps(d, t) /\ M!Ins(t) = Instr(d, t, Pc(t))
    BY <1>2 DEF Running, M!Ins, Pc, Instr, Steps, Length
  <2>2. t = 1
    BY <1>1, <1>2, <2>1, Settled DEF Steps, Others, ForkJoin, Straight
  <2> QED BY <1>2, <2>1, <2>2, Settled
<1>3. \A o \in gone : M!OwnerOf(o).task = 0 /\ \A z \in asleep : z.on # o
  BY DEF ForkJoinInv, FreeInv, M!Nobody
<1> QED BY <1>2, <1>3 DEF NothingUsedAfterDestroy

-----------------------------------------------------------------------------
(***************************************************************************)
(* Reading a program: which instruction stands where.  The operators are   *)
(* names for concatenation and length that the prover does not look into.  *)
(***************************************************************************)

AllCalls == Tame \cup {"destroy"}
Program(p) == Uses(p, AllCalls)
Then(p, q) == p \o q
Size(p) == Len(p)

\* c is a program of one instruction, i.
Single(c, i) == Program(c) /\ Size(c) = 1 /\ c[1] = i

LEMMA ThenMore ==
    \A p, q : Program(p) /\ Program(q) =>
        /\ Program(Then(p, q)) /\ Size(p) \in Nat /\ Size(q) \in Nat
        /\ Size(Then(p, q)) = Size(p) + Size(q)
        /\ \A k \in 1..Size(p) : Then(p, q)[k] = p[k]
        /\ \A k \in 1..Size(q) : Then(p, q)[Size(p) + k] = q[k]
<1> SUFFICES ASSUME NEW p, NEW q, Program(p), Program(q)
             PROVE  /\ Program(p \o q) /\ Len(p) \in Nat /\ Len(q) \in Nat
                    /\ Len(p \o q) = Len(p) + Len(q)
                    /\ \A k \in 1..Len(p) : (p \o q)[k] = p[k]
                    /\ \A k \in 1..Len(q) : (p \o q)[Len(p) + k] = q[k]
  BY DEF Then, Size
<1>1. Uses(p, AllCalls) /\ Uses(q, AllCalls)
  BY DEF Program
<1> QED BY <1>1, BothUse DEF Program

LEMMA ThenOne ==
    \A p, c, i : Program(p) /\ Single(c, i) =>
        /\ Program(Then(p, c)) /\ Size(p) \in Nat /\ Size(Then(p, c)) = Size(p) + 1
        /\ \A k \in 1..Size(p) : Then(p, c)[k] = p[k]
        /\ Then(p, c)[Size(p) + 1] = i
BY ThenMore DEF Single

LEMMA SingleCall == ASSUME NEW i, i.call \in AllCalls PROVE Single(<<i>>, i)
<1>1. Len(<<i>>) = 1 /\ <<i>>[1] = i
  OBVIOUS
<1> QED BY <1>1, OneCall DEF Single, Program, Size

LEMMA Singles ==
    /\ \A u : /\ Single(create(u), [call |-> "create", task |-> u])
              /\ Single(fork(u), [call |-> "fork", task |-> u])
              /\ Single(join(u), [call |-> "join", task |-> u])
    /\ Single(exit, [call |-> "exit"])
    /\ \A m : /\ Single(lock(m), [call |-> "lock", on |-> m])
              /\ Single(unlock(m), [call |-> "unlock", on |-> m])
              /\ Single(cond_signal(m), [call |-> "signal", on |-> m])
              /\ Single(sem_wait(m), [call |-> "sem_wait", on |-> m])
              /\ Single(sem_post(m), [call |-> "sem_post", on |-> m])
              /\ Single(destroy(m), [call |-> "destroy", on |-> m])
    /\ \A s, n : /\ Single(sem_init(s, n), [call |-> "sem_init", on |-> s, val |-> n])
                 /\ Single(sem_open(s, n), [call |-> "sem_open", on |-> s, val |-> n])
<1> USE SingleCall DEF AllCalls, Tame
<1>1. \A u : /\ Single(create(u), [call |-> "create", task |-> u])
             /\ Single(fork(u), [call |-> "fork", task |-> u])
             /\ Single(join(u), [call |-> "join", task |-> u])
  BY DEF create, fork, join
<1>2. Single(exit, [call |-> "exit"])
  BY DEF exit
<1>3. \A m : /\ Single(lock(m), [call |-> "lock", on |-> m])
             /\ Single(unlock(m), [call |-> "unlock", on |-> m])
             /\ Single(cond_signal(m), [call |-> "signal", on |-> m])
  BY DEF lock, unlock, cond_signal
<1>4. \A m : /\ Single(sem_wait(m), [call |-> "sem_wait", on |-> m])
             /\ Single(sem_post(m), [call |-> "sem_post", on |-> m])
             /\ Single(destroy(m), [call |-> "destroy", on |-> m])
  BY DEF sem_wait, sem_post, destroy
<1>5. \A s, n : /\ Single(sem_init(s, n), [call |-> "sem_init", on |-> s, val |-> n])
                /\ Single(sem_open(s, n), [call |-> "sem_open", on |-> s, val |-> n])
  BY DEF sem_init, sem_open
<1> QED BY <1>1, <1>2, <1>3, <1>4, <1>5

LEMMA MoreSingles ==
    /\ \A x, v : /\ Single(store(x, v), [call |-> "store", var |-> x, val |-> v])
                 /\ Single(storeReg(x, v), [call |-> "storeReg", var |-> x, val |-> v])
                 /\ Single(print(x, v), [call |-> "print", tag |-> x, val |-> v])
                 /\ Single(printVar(x, v), [call |-> "printVar", tag |-> x, var |-> v])
                 /\ Single(skipIf(x, v), [call |-> "skipIf", val |-> x, by |-> v])
    /\ \A x : /\ Single(load(x), [call |-> "load", var |-> x])
              /\ Single(printReg(x), [call |-> "printReg", tag |-> x])
              /\ Single(return(x), [call |-> "return", val |-> x])
              /\ Single(jump(x), [call |-> "jump", by |-> x])
<1> USE SingleCall DEF AllCalls, Tame
<1>1. \A x, v : /\ Single(store(x, v), [call |-> "store", var |-> x, val |-> v])
                /\ Single(storeReg(x, v), [call |-> "storeReg", var |-> x, val |-> v])
                /\ Single(print(x, v), [call |-> "print", tag |-> x, val |-> v])
                /\ Single(printVar(x, v), [call |-> "printVar", tag |-> x, var |-> v])
                /\ Single(skipIf(x, v), [call |-> "skipIf", val |-> x, by |-> v])
  BY DEF store, storeReg, print, printVar, skipIf
<1>2. \A x : /\ Single(load(x), [call |-> "load", var |-> x])
             /\ Single(printReg(x), [call |-> "printReg", tag |-> x])
             /\ Single(return(x), [call |-> "return", val |-> x])
             /\ Single(jump(x), [call |-> "jump", by |-> x])
  BY DEF load, printReg, return, jump
<1> QED BY <1>1, <1>2

LEMMA shmRead ==
    LET p == shm[1]  q == shm[2] IN
    /\ Size(p) = 9 /\ Size(q) = 3
    /\ p[1] = [call |-> "sem_init", on |-> "private", val |-> 0]
    /\ p[2] = [call |-> "fork", task |-> 2]
    /\ p[3] = [call |-> "store", var |-> "shared_memory", val |-> 1]
    /\ p[4] = [call |-> "print", tag |-> "written", val |-> 1]
    /\ p[5] = [call |-> "sem_post", on |-> "private"]
    /\ p[6] = [call |-> "join", task |-> 2]
    /\ p[7] = [call |-> "store", var |-> "shared_memory", val |-> 0]
    /\ p[8] = [call |-> "destroy", on |-> "private"]
    /\ p[9] = [call |-> "exit"]
    /\ q[1] = [call |-> "sem_wait", on |-> "private"]
    /\ q[2] = [call |-> "printVar", tag |-> "read", var |-> "shared_memory"]
    /\ q[3] = [call |-> "exit"]
<1>1. shm[1] = Then(Then(Then(Then(Then(Then(Then(Then(sem_init("private", 0), fork(2)),
         store("shared_memory", 1)), print("written", 1)),
         sem_post("private")), join(2)),
         store("shared_memory", 0)), destroy("private")), exit)
  BY DEF shm, Then
<1>2. shm[2] = Then(Then(sem_wait("private"), printVar("read", "shared_memory")), exit)
  BY DEF shm, Then
<1> QED BY <1>1, <1>2, Singles, MoreSingles, ThenOne DEF Single

LEMMA shmForkJoin == ForkJoin("shm")
<1>1. /\ Members("shm") = 1..2 /\ Length("shm", 1) = 9 /\ Length("shm", 2) = 3
      /\ \A k : Instr("shm", 1, k) = shm[1][k] /\ Instr("shm", 2, k) = shm[2][k]
  <2>1. Programs["shm"] = shm
    BY DEF Programs
  <2>2. DOMAIN shm = 1..2
    BY DEF shm
  <2> QED BY <2>1, <2>2, shmRead DEF Members, Length, Instr, Size
<1>2. Others("shm") = {2} /\ Steps("shm", 1) = 1..9 /\ Steps("shm", 2) = 1..3
  BY <1>1 DEF Others, Steps
<1>3. Straight("shm")
  BY <1>1, <1>2, shmRead DEF Straight
<1>4. MainInOrder("shm")
  BY <1>1, <1>2, shmRead DEF MainInOrder
<1>5. DestroysLast("shm")
  BY <1>1, <1>2, shmRead DEF DestroysLast
<1>6. LocksEnd("shm")
  BY <1>1, <1>2, shmRead DEF LocksEnd
<1>7. EndsAlone("shm")
  BY <1>1, <1>2, shmRead DEF EndsAlone, NoThreads
<1> QED BY <1>3, <1>4, <1>5, <1>6, <1>7 DEF ForkJoin

LEMMA systemRead ==
    LET p == system_v[1]  q == system_v[2] IN
    /\ Size(p) = 7 /\ Size(q) = 3
    /\ p[1] = [call |-> "sem_init", on |-> "semfile", val |-> 0]
    /\ p[2] = [call |-> "fork", task |-> 2]
    /\ p[3] = [call |-> "print", tag |-> "finished", val |-> 0]
    /\ p[4] = [call |-> "sem_post", on |-> "semfile"]
    /\ p[5] = [call |-> "join", task |-> 2]
    /\ p[6] = [call |-> "destroy", on |-> "semfile"]
    /\ p[7] = [call |-> "exit"]
    /\ q[1] = [call |-> "sem_wait", on |-> "semfile"]
    /\ q[2] = [call |-> "print", tag |-> "resumed", val |-> 0]
    /\ q[3] = [call |-> "exit"]
<1>1. system_v[1] = Then(Then(Then(Then(Then(Then(sem_init("semfile", 0), fork(2)),
         print("finished", 0)), sem_post("semfile")), join(2)), destroy("semfile")), exit)
  BY DEF system_v, Then
<1>2. system_v[2] = Then(Then(sem_wait("semfile"), print("resumed", 0)), exit)
  BY DEF system_v, Then
<1> QED BY <1>1, <1>2, Singles, MoreSingles, ThenOne DEF Single

LEMMA systemForkJoin == ForkJoin("system_v")
<1>1. /\ Members("system_v") = 1..2 /\ Length("system_v", 1) = 7 /\ Length("system_v", 2) = 3
      /\ \A k : Instr("system_v", 1, k) = system_v[1][k] /\ Instr("system_v", 2, k) = system_v[2][k]
  <2>1. Programs["system_v"] = system_v
    BY DEF Programs
  <2>2. DOMAIN system_v = 1..2
    BY DEF system_v
  <2> QED BY <2>1, <2>2, systemRead DEF Members, Length, Instr, Size
<1>2. /\ Others("system_v") = {2}
      /\ Steps("system_v", 1) = 1..7 /\ Steps("system_v", 2) = 1..3
  BY <1>1 DEF Others, Steps
<1>3. Straight("system_v")
  BY <1>1, <1>2, systemRead DEF Straight
<1>4. MainInOrder("system_v")
  BY <1>1, <1>2, systemRead DEF MainInOrder
<1>5. DestroysLast("system_v")
  BY <1>1, <1>2, systemRead DEF DestroysLast
<1>6. LocksEnd("system_v")
  BY <1>1, <1>2, systemRead DEF LocksEnd
<1>7. EndsAlone("system_v")
  BY <1>1, <1>2, systemRead DEF EndsAlone, NoThreads
<1> QED BY <1>3, <1>4, <1>5, <1>6, <1>7 DEF ForkJoin

LEMMA waitTimeRead ==
    LET p == thread_cond_wait_time[1]  q == thread_cond_wait_time[2] IN
    /\ Size(p) = 8 /\ Size(q) = 5
    /\ p[1] = [call |-> "create", task |-> 2]
    /\ p[2] = [call |-> "lock", on |-> "g_mutex"]
    /\ p[3] = [call |-> "signal", on |-> "g_cond"]
    /\ p[4] = [call |-> "unlock", on |-> "g_mutex"]
    /\ p[5] = [call |-> "join", task |-> 2]
    /\ p[6] = [call |-> "destroy", on |-> "g_cond"]
    /\ p[7] = [call |-> "destroy", on |-> "g_mutex"]
    /\ p[8] = [call |-> "exit"]
    /\ q[1] = [call |-> "lock", on |-> "g_mutex"]
    /\ q[2] = [call |-> "sleep", on |-> "g_cond", mutex |-> "g_mutex", timed |-> TRUE]
    /\ q[3] = [call |-> "lock", on |-> "g_mutex"]
    /\ q[4] = [call |-> "unlock", on |-> "g_mutex"]
    /\ q[5] = [call |-> "printReg", tag |-> "ret"]
<1> DEFINE i == [call |-> "sleep", on |-> "g_cond", mutex |-> "g_mutex", timed |-> TRUE]
           sleep == <<i>>
           wait_ == Then(sleep, lock("g_mutex"))
<1>1. thread_cond_wait_time[1] = Then(Then(Then(Then(Then(Then(Then(create(2), lock("g_mutex")),
         cond_signal("g_cond")), unlock("g_mutex")), join(2)), destroy("g_cond")),
         destroy("g_mutex")), exit)
  BY DEF thread_cond_wait_time, Then
<1>2. thread_cond_wait_time[2] = Then(Then(Then(lock("g_mutex"), wait_), unlock("g_mutex")),
                                      printReg("ret"))
  BY DEF thread_cond_wait_time, cond_timedwait, Then
<1>3. Single(sleep, i)
  <2>1. i.call = "sleep"
    OBVIOUS
  <2> HIDE DEF i
  <2>2. i.call \in AllCalls
    BY <2>1 DEF AllCalls, Tame
  <2> QED BY <2>2, SingleCall
<1>4. /\ Program(wait_) /\ Size(wait_) = 2
      /\ wait_[1] = i
      /\ wait_[2] = [call |-> "lock", on |-> "g_mutex"]
  <2> HIDE DEF i, sleep
  <2> QED BY <1>3, Singles, ThenOne DEF Single
<1> HIDE DEF wait_
<1>5. LET r == Then(lock("g_mutex"), wait_) IN
      /\ Program(r) /\ Size(r) = 3 /\ r[1] = [call |-> "lock", on |-> "g_mutex"]
      /\ r[2] = wait_[1] /\ r[3] = wait_[2]
  <2> DEFINE r == Then(lock("g_mutex"), wait_)
  <2>1. /\ Program(r) /\ Size(r) = 3
        /\ \A k \in 1..1 : r[k] = lock("g_mutex")[k]
        /\ \A k \in 1..2 : r[1 + k] = wait_[k]
    BY <1>4, Singles, ThenMore DEF Single
  <2> QED BY <2>1, Singles DEF Single
<1> QED BY <1>1, <1>2, <1>4, <1>5, Singles, MoreSingles, ThenOne DEF Single

LEMMA waitTimeForkJoin == ForkJoin("wait_time")
<1>1. /\ Members("wait_time") = 1..2
      /\ Length("wait_time", 1) = 8 /\ Length("wait_time", 2) = 5
      /\ \A k : /\ Instr("wait_time", 1, k) = thread_cond_wait_time[1][k]
                /\ Instr("wait_time", 2, k) = thread_cond_wait_time[2][k]
  <2>1. Programs["wait_time"] = thread_cond_wait_time
    BY DEF Programs
  <2>2. DOMAIN thread_cond_wait_time = 1..2
    BY DEF thread_cond_wait_time
  <2> QED BY <2>1, <2>2, waitTimeRead DEF Members, Length, Instr, Size
<1>2. /\ Others("wait_time") = {2}
      /\ Steps("wait_time", 1) = 1..8 /\ Steps("wait_time", 2) = 1..5
  BY <1>1 DEF Others, Steps
<1>3. Straight("wait_time")
  BY <1>1, <1>2, waitTimeRead DEF Straight
<1>4. MainInOrder("wait_time")
  BY <1>1, <1>2, waitTimeRead DEF MainInOrder
<1>5. DestroysLast("wait_time")
  BY <1>1, <1>2, waitTimeRead DEF DestroysLast
<1>6. LocksEnd("wait_time")
  BY <1>1, <1>2, waitTimeRead DEF LocksEnd
<1>7. EndsAlone("wait_time")
  BY <1>1, <1>2, waitTimeRead DEF EndsAlone
<1> QED BY <1>3, <1>4, <1>5, <1>6, <1>7 DEF ForkJoin

\* Two threads are created, and joined, one after the other.
LEMMA Rounds2 ==
    ASSUME NEW n \in Nat \ {0}, n = 2, NEW s, s = [k \in 1..n |-> s[k]]
    PROVE  FlattenSeq(s) = Then(s[1], s[2])
<1>1. PICK f : Flattens(f, s, n) /\ FlattenSeq(s) = f[n]
  BY FlattenUnfolds
<1>2. \A k \in 1..n : f[k] = IF k = 1 THEN s[k] ELSE f[k - 1] \o s[k]
  BY <1>1 DEF Flattens
<1>3. f[1] = s[1] /\ f[2] = f[1] \o s[2]
  <2>1. 1 \in 1..n /\ 2 \in 1..n /\ 2 - 1 = 1
    OBVIOUS
  <2> QED BY <1>2, <2>1
<1> QED BY <1>1, <1>3 DEF Then

LEMMA TwoRounds ==
    ASSUME NEW s, s = [k \in 1..2 |-> s[k]]
    PROVE  FlattenSeq(s) = Then(s[1], s[2])
<1> DEFINE n == 2
<1>1. n \in Nat \ {0} /\ n = 2 /\ s = [k \in 1..n |-> s[k]]
  OBVIOUS
<1> HIDE DEF n
<1> QED BY <1>1, Rounds2

LEMMA TwoThreads ==
    /\ createAll(2, 3) = Then(create(2), create(3))
    /\ joinAll(2, 3) = Then(join(2), join(3))
<1>1. createAll(2, 3) = Then(create(2), create(3))
  <2> DEFINE s == [k \in 1..2 |-> create(2 + k - 1)]
  <2>1. s = [k \in 1..2 |-> s[k]] /\ s[1] = create(2) /\ s[2] = create(3)
    OBVIOUS
  <2>2. createAll(2, 3) = FlattenSeq(s)
    BY DEF createAll
  <2> HIDE DEF s
  <2> QED BY <2>1, <2>2, TwoRounds
<1>2. joinAll(2, 3) = Then(join(2), join(3))
  <2> DEFINE s == [k \in 1..2 |-> join(2 + k - 1)]
  <2>1. s = [k \in 1..2 |-> s[k]] /\ s[1] = join(2) /\ s[2] = join(3)
    OBVIOUS
  <2>2. joinAll(2, 3) = FlattenSeq(s)
    BY DEF joinAll
  <2> HIDE DEF s
  <2> QED BY <2>1, <2>2, TwoRounds
<1> QED BY <1>1, <1>2

LEMMA semaphoreRead ==
    LET p == semaphore[1]  q == thread_sem IN
    /\ Size(p) = 7 /\ Size(q) = 4 /\ DOMAIN semaphore = 1..3
    /\ semaphore[2] = q /\ semaphore[3] = q
    /\ p[1] = [call |-> "sem_init", on |-> "m_sem", val |-> 1]
    /\ p[2] = [call |-> "create", task |-> 2]
    /\ p[3] = [call |-> "create", task |-> 3]
    /\ p[4] = [call |-> "join", task |-> 2]
    /\ p[5] = [call |-> "join", task |-> 3]
    /\ p[6] = [call |-> "destroy", on |-> "m_sem"]
    /\ p[7] = [call |-> "exit"]
    /\ q[1] = [call |-> "sem_wait", on |-> "m_sem"]
    /\ q[2] = [call |-> "print", tag |-> "Entered", val |-> 0]
    /\ q[3] = [call |-> "print", tag |-> "Exiting", val |-> 0]
    /\ q[4] = [call |-> "sem_post", on |-> "m_sem"]
<1> DEFINE run == Then(Then(create(2), create(3)), Then(join(2), join(3)))
<1>1. semaphore[1] = Then(Then(Then(sem_init("m_sem", 1), run), destroy("m_sem")), exit)
  <2>1. 2 + 1 = 3
    OBVIOUS
  <2>2. Run(2) = run
    BY <2>1, TwoThreads DEF Run, Then
  <2> QED BY <2>2 DEF semaphore, Then
<1>2. thread_sem = Then(Then(Then(sem_wait("m_sem"), print("Entered", 0)), print("Exiting", 0)),
                        sem_post("m_sem"))
  BY DEF thread_sem, Then
<1>3. /\ Program(run) /\ Size(run) = 4
      /\ run[1] = [call |-> "create", task |-> 2] /\ run[2] = [call |-> "create", task |-> 3]
      /\ run[3] = [call |-> "join", task |-> 2] /\ run[4] = [call |-> "join", task |-> 3]
  <2> DEFINE a == Then(create(2), create(3))
             b == Then(join(2), join(3))
  <2>1. /\ Program(a) /\ Size(a) = 2 /\ a[1] = [call |-> "create", task |-> 2]
        /\ a[2] = [call |-> "create", task |-> 3]
        /\ Program(b) /\ Size(b) = 2 /\ b[1] = [call |-> "join", task |-> 2]
        /\ b[2] = [call |-> "join", task |-> 3]
    BY Singles, ThenOne DEF Single
  <2> HIDE DEF a, b
  <2>2. /\ Program(Then(a, b)) /\ Size(Then(a, b)) = 4
        /\ \A k \in 1..2 : Then(a, b)[k] = a[k]
        /\ \A k \in 1..2 : Then(a, b)[2 + k] = b[k]
    BY <2>1, ThenMore
  <2>3. /\ Then(a, b)[1] = a[1] /\ Then(a, b)[2] = a[2]
        /\ Then(a, b)[3] = b[1] /\ Then(a, b)[4] = b[2]
    BY <2>2
  <2> QED BY <2>1, <2>2, <2>3 DEF a, b
<1> HIDE DEF run
<1>4. LET r == Then(sem_init("m_sem", 1), run) IN
      /\ Program(r) /\ Size(r) = 5
      /\ r[1] = [call |-> "sem_init", on |-> "m_sem", val |-> 1]
      /\ r[2] = run[1] /\ r[3] = run[2] /\ r[4] = run[3] /\ r[5] = run[4]
  <2> DEFINE r == Then(sem_init("m_sem", 1), run)
  <2>1. /\ Program(r) /\ Size(r) = 5
        /\ \A k \in 1..1 : r[k] = sem_init("m_sem", 1)[k]
        /\ \A k \in 1..4 : r[1 + k] = run[k]
    BY <1>3, Singles, ThenMore DEF Single
  <2> QED BY <2>1, Singles DEF Single
<1>5. DOMAIN semaphore = 1..3 /\ semaphore[2] = thread_sem /\ semaphore[3] = thread_sem
  BY DEF semaphore
<1> QED BY <1>1, <1>2, <1>3, <1>4, <1>5, Singles, MoreSingles, ThenOne DEF Single

LEMMA semaphoreForkJoin == ForkJoin("semaphore")
<1>1. /\ Members("semaphore") = 1..3
      /\ Length("semaphore", 1) = 7 /\ Length("semaphore", 2) = 4 /\ Length("semaphore", 3) = 4
      /\ \A k : /\ Instr("semaphore", 1, k) = semaphore[1][k]
                /\ Instr("semaphore", 2, k) = thread_sem[k]
                /\ Instr("semaphore", 3, k) = thread_sem[k]
  <2>1. Programs["semaphore"] = semaphore
    BY DEF Programs
  <2> QED BY <2>1, semaphoreRead DEF Members, Length, Instr, Size
<1>2. /\ Others("semaphore") = {2, 3} /\ Steps("semaphore", 1) = 1..7
      /\ Steps("semaphore", 2) = 1..4 /\ Steps("semaphore", 3) = 1..4
  BY <1>1 DEF Others, Steps
<1>3. Straight("semaphore")
  BY <1>1, <1>2, semaphoreRead DEF Straight
<1>4. MainInOrder("semaphore")
  BY <1>1, <1>2, semaphoreRead DEF MainInOrder
<1>5. DestroysLast("semaphore")
  BY <1>1, <1>2, semaphoreRead DEF DestroysLast
<1>6. LocksEnd("semaphore")
  BY <1>1, <1>2, semaphoreRead DEF LocksEnd
<1>7. EndsAlone("semaphore")
  BY <1>1, <1>2, semaphoreRead DEF EndsAlone
<1> QED BY <1>3, <1>4, <1>5, <1>6, <1>7 DEF ForkJoin

\* Threads that lock m_mutex around their lines, whatever they are.
LEMMA printValRead ==
    LET p == thread_mutex[1] IN
    /\ Size(p) = 10 /\ DOMAIN thread_mutex = 1..3
    /\ p[1] = [call |-> "create", task |-> 2]
    /\ p[2] = [call |-> "create", task |-> 3]
    /\ p[3] = [call |-> "join", task |-> 2]
    /\ p[4] = [call |-> "storeReg", var |-> "retval_1", val |-> 0]
    /\ p[5] = [call |-> "join", task |-> 3]
    /\ p[6] = [call |-> "storeReg", var |-> "retval_2", val |-> 0]
    /\ p[7] = [call |-> "printVar", tag |-> "retval", var |-> "retval_1"]
    /\ p[8] = [call |-> "printVar", tag |-> "retval", var |-> "retval_2"]
    /\ p[9] = [call |-> "destroy", on |-> "m_mutex"]
    /\ p[10] = [call |-> "exit"]
<1> DEFINE a == Then(create(2), create(3))
           b == Then(Then(Then(Then(Then(join(2), storeReg("retval_1", 0)), join(3)),
                  storeReg("retval_2", 0)), printVar("retval", "retval_1")),
                  printVar("retval", "retval_2"))
<1>1. thread_mutex[1] = Then(Then(Then(a, b), destroy("m_mutex")), exit)
  BY TwoThreads DEF thread_mutex, joinBoth, Then
<1>2. /\ Program(a) /\ Size(a) = 2 /\ a[1] = [call |-> "create", task |-> 2]
      /\ a[2] = [call |-> "create", task |-> 3]
  BY Singles, ThenOne DEF Single
<1>3. /\ Program(b) /\ Size(b) = 6
      /\ b[1] = [call |-> "join", task |-> 2]
      /\ b[2] = [call |-> "storeReg", var |-> "retval_1", val |-> 0]
      /\ b[3] = [call |-> "join", task |-> 3]
      /\ b[4] = [call |-> "storeReg", var |-> "retval_2", val |-> 0]
      /\ b[5] = [call |-> "printVar", tag |-> "retval", var |-> "retval_1"]
      /\ b[6] = [call |-> "printVar", tag |-> "retval", var |-> "retval_2"]
  BY Singles, MoreSingles, ThenOne DEF Single
<1> HIDE DEF a, b
<1>4. /\ Program(Then(a, b)) /\ Size(Then(a, b)) = 8
      /\ \A k \in 1..2 : Then(a, b)[k] = a[k]
      /\ \A k \in 1..6 : Then(a, b)[2 + k] = b[k]
  BY <1>2, <1>3, ThenMore
<1>5. /\ Then(a, b)[1] = a[1] /\ Then(a, b)[2] = a[2] /\ Then(a, b)[3] = b[1]
      /\ Then(a, b)[4] = b[2] /\ Then(a, b)[5] = b[3] /\ Then(a, b)[6] = b[4]
      /\ Then(a, b)[7] = b[5] /\ Then(a, b)[8] = b[6]
  BY <1>4
<1>6. DOMAIN thread_mutex = 1..3
  BY DEF thread_mutex
<1> QED BY <1>1, <1>2, <1>3, <1>4, <1>5, <1>6, Singles, ThenOne DEF Single

PrintsLocked(q, n) ==
    /\ Size(q) = n
    /\ q[1] = [call |-> "lock", on |-> "m_mutex"]
    /\ q[n - 1] = [call |-> "unlock", on |-> "m_mutex"]
    /\ \A k \in 1..n : k = 1 \/ k = n - 1 \/ q[k].call \in {"print", "return"}

LEMMA printValThread == \A num, v : PrintsLocked(printVal(num) \o return(v), Rounds + 4)
<1> SUFFICES ASSUME NEW num, NEW v PROVE PrintsLocked(printVal(num) \o return(v), Rounds + 4)
  OBVIOUS
<1> DEFINE f == [i \in 1..Rounds |-> print("tid", num)]
           loop == FlattenSeq(f)
           opening == Then(lock("m_mutex"), print("thread", num))
           body == Then(opening, loop)
           q == Then(Then(body, unlock("m_mutex")), return(v))
<1>1. q = printVal(num) \o return(v)
  BY DEF printVal, Then
<1>2. Rounds \in Nat
  BY ThreadDemosAssumption
<1>3. f = [k \in 1..Rounds |-> f[k]] /\ \A k \in 1..Rounds : f[k] = print("tid", num)
  OBVIOUS
<1>4. Single(print("tid", num), [call |-> "print", tag |-> "tid", val |-> num])
  BY MoreSingles
<1>5. Uses(print("tid", num), {"print"}) /\ Len(print("tid", num)) = 1
  BY <1>4 DEF Single, Program, Uses, Size
<1> HIDE DEF f
<1>6. Uses(loop, {"print"}) /\ Len(loop) = Rounds
  <2>1. Spaced(FlattenSeq(f), f, 1, Rounds)
    BY <1>2, <1>3, <1>5, EqualRounds
  <2> QED BY <1>2, <1>3, <1>5, <2>1, FlattenUses DEF Spaced
<1> HIDE DEF loop
<1>7. Program(loop) /\ Size(loop) = Rounds /\ \A k \in 1..Rounds : loop[k].call = "print"
  BY <1>6 DEF Program, Uses, AllCalls, Tame, Size
<1>8. /\ Program(opening) /\ Size(opening) = 2 /\ opening[1] = [call |-> "lock", on |-> "m_mutex"]
      /\ opening[2] = [call |-> "print", tag |-> "thread", val |-> num]
  BY Singles, MoreSingles, ThenOne DEF Single
<1> HIDE DEF opening
<1>9. /\ Program(body) /\ Size(body) = Rounds + 2
      /\ \A k \in 1..2 : body[k] = opening[k] /\ \A j \in 1..Rounds : body[2 + j] = loop[j]
  BY <1>7, <1>8, ThenMore
<1>10. /\ body[1] = [call |-> "lock", on |-> "m_mutex"]
       /\ \A k \in 2..(Rounds + 2) : body[k].call = "print"
  <2>1. body[1] = opening[1] /\ body[2] = opening[2]
    BY <1>9
  <2>2. ASSUME NEW k \in 3..(Rounds + 2) PROVE body[k].call = "print"
    <3>1. k - 2 \in 1..Rounds /\ 2 + (k - 2) = k
      BY <1>2
    <3> QED BY <1>7, <1>9, <3>1
  <2> QED BY <1>2, <1>8, <2>1, <2>2
<1> HIDE DEF body
<1>11. /\ Size(q) = Rounds + 4 /\ \A k \in 1..(Rounds + 2) : q[k] = body[k]
       /\ q[Rounds + 3] = [call |-> "unlock", on |-> "m_mutex"]
       /\ q[Rounds + 4] = [call |-> "return", val |-> v]
  <2> DEFINE r == Then(body, unlock("m_mutex"))
  <2>1. /\ Program(r) /\ Size(r) = Rounds + 3 /\ \A k \in 1..(Rounds + 2) : r[k] = body[k]
        /\ r[Rounds + 3] = [call |-> "unlock", on |-> "m_mutex"]
    <3>1. Single(unlock("m_mutex"), [call |-> "unlock", on |-> "m_mutex"])
      BY Singles
    <3>2. (Rounds + 2) + 1 = Rounds + 3
      BY <1>2
    <3> QED BY <1>9, <3>1, <3>2, ThenOne
  <2>2. Single(return(v), [call |-> "return", val |-> v])
    BY MoreSingles
  <2> HIDE DEF r
  <2>3. /\ Size(Then(r, return(v))) = Rounds + 4
        /\ \A k \in 1..(Rounds + 3) : Then(r, return(v))[k] = r[k]
        /\ Then(r, return(v))[Rounds + 4] = [call |-> "return", val |-> v]
    <3>1. (Rounds + 3) + 1 = Rounds + 4
      BY <1>2
    <3> QED BY <2>1, <2>2, <3>1, ThenOne
  <2> QED BY <1>2, <2>1, <2>3 DEF r
<1> HIDE DEF q
<1>12. \A k \in 1..(Rounds + 4) : k = 1 \/ k = Rounds + 3 \/ q[k].call \in {"print", "return"}
  <2> SUFFICES ASSUME NEW k \in 1..(Rounds + 4), k # Rounds + 3, k # 1
               PROVE  q[k].call \in {"print", "return"}
    OBVIOUS
  <2>1. k \in 2..(Rounds + 2) \/ k = Rounds + 4
    BY <1>2
  <2> QED BY <1>2, <1>10, <1>11, <2>1
<1>13. q[1] = [call |-> "lock", on |-> "m_mutex"]
  BY <1>2, <1>10, <1>11
<1>14. Rounds + 4 \in Nat \ {0} /\ (Rounds + 4) - 1 = Rounds + 3
  BY <1>2
<1> QED BY <1>1, <1>11, <1>12, <1>13, <1>14 DEF PrintsLocked

LEMMA printValForkJoin == ForkJoin("printVal")
<1> DEFINE d == "printVal"
           n == Rounds + 4
<1>1. n \in Nat \ {0} /\ n - 1 \in 3..n
  BY ThreadDemosAssumption
<1>2. PrintsLocked(thread_mutex[2], n) /\ PrintsLocked(thread_mutex[3], n)
  <2>1. thread_mutex[2] = printVal(1) \o return(1) /\ thread_mutex[3] = printVal(2) \o return(2)
    BY DEF thread_mutex
  <2> QED BY <2>1, printValThread
<1>3. /\ Members(d) = 1..3 /\ Length(d, 1) = 10
      /\ \A k : Instr(d, 1, k) = thread_mutex[1][k]
      /\ \A t \in {2, 3} : Size(thread_mutex[t]) = Length(d, t)
      /\ \A t \in {2, 3} : \A k : thread_mutex[t][k] = Instr(d, t, k)
  <2>1. Programs["printVal"] = thread_mutex
    BY DEF Programs
  <2> QED BY <2>1, printValRead DEF Members, Length, Instr, Size
<1> HIDE DEF n, d
<1>4. \A t \in {2, 3} :
        /\ Length(d, t) = n
        /\ Instr(d, t, 1) = [call |-> "lock", on |-> "m_mutex"]
        /\ Instr(d, t, n - 1) = [call |-> "unlock", on |-> "m_mutex"]
        /\ \A k \in 1..n : k = 1 \/ k = n - 1 \/ Instr(d, t, k).call \in {"print", "return"}
  BY <1>2, <1>3 DEF PrintsLocked
<1>5. /\ Others(d) = {2, 3} /\ Steps(d, 1) = 1..10
      /\ \A t \in {2, 3} : Steps(d, t) = 1..n
  BY <1>3, <1>4 DEF Others, Steps
<1>6. \A t \in {2, 3} : \A k \in 1..n :
         Instr(d, t, k).call \in {"lock", "unlock", "print", "return"}
  <2> SUFFICES ASSUME NEW t \in {2, 3}, NEW k \in 1..n
               PROVE  Instr(d, t, k).call \in {"lock", "unlock", "print", "return"}
    OBVIOUS
  <2> QED BY <1>4
<1>7. Straight(d)
  <2>1. \A k \in Steps(d, 1) : Instr(d, 1, k).call \notin {"jump", "skipIf"}
    BY <1>3, <1>5, printValRead
  <2>2. ASSUME NEW t \in {2, 3}, NEW k \in Steps(d, t)
        PROVE  Instr(d, t, k).call \notin {"jump", "skipIf", "create", "fork", "destroy"}
    BY <1>5, <1>6
  <2>3. Members(d) = {1, 2, 3}
    BY <1>3
  <2> QED BY <1>1, <1>3, <1>4, <1>5, <2>1, <2>2, <2>3 DEF Straight
<1>8. MainInOrder(d)
  BY <1>3, <1>5, printValRead DEF MainInOrder
<1>9. DestroysLast(d)
  BY <1>3, <1>5, printValRead DEF DestroysLast
<1>10. LocksEnd(d)
  <2>1. \A k \in Steps(d, 1) : Instr(d, 1, k).call \notin {"lock", "unlock", "sleep"}
    BY <1>3, <1>5, printValRead
  <2>2. ASSUME NEW t \in {2, 3}, NEW k \in Steps(d, t)
        PROVE  /\ Instr(d, t, k).call = "lock" =>
                   k = 1 /\ Instr(d, t, k).on = "m_mutex" /\ "on" \in DOMAIN Instr(d, t, k)
               /\ Instr(d, t, k).call = "unlock" => "on" \in DOMAIN Instr(d, t, k)
               /\ Instr(d, t, k).call # "sleep"
    <3>1. \/ Instr(d, t, k) = [call |-> "lock", on |-> "m_mutex"] /\ k = 1
          \/ Instr(d, t, k) = [call |-> "unlock", on |-> "m_mutex"]
          \/ Instr(d, t, k).call \in {"print", "return"}
      BY <1>4, <1>5
    <3> QED BY <3>1
  <2>3. \A t \in {2, 3} :
          /\ n - 1 \in Steps(d, t) /\ n - 1 > 1
          /\ Instr(d, t, n - 1).call = "unlock" /\ Instr(d, t, n - 1).on = "m_mutex"
    BY <1>1, <1>4, <1>5
  <2>4. Members(d) = {1, 2, 3}
    BY <1>3
  <2> QED BY <2>1, <2>2, <2>3, <2>4 DEF LocksEnd
<1>11. EndsAlone(d)
  <2>1. \A t \in {2, 3} : \A k \in 1..n : Instr(d, t, k).call # "exit"
    BY <1>6
  <2> QED BY <1>5, <2>1 DEF EndsAlone
<1> QED BY <1>7, <1>8, <1>9, <1>10, <1>11 DEF ForkJoin, d

\* Producer and consumer that take turns, whatever they do in a turn.
TurnCalls == {"store", "print", "printVar", "sem_post", "sem_wait"}

TakesTurns(p, q, n) ==
    /\ n \in Nat /\ Size(p) = n + 7 /\ Size(q) \in Nat \ {0}
    /\ p[1] = [call |-> "sem_open", on |-> "/sem_producer", val |-> 0]
    /\ p[2] = [call |-> "sem_open", on |-> "/sem_consumer", val |-> 0]
    /\ p[3] = [call |-> "fork", task |-> 2]
    /\ \A k \in 4..(n + 3) : p[k].call \in TurnCalls
    /\ p[n + 4] = [call |-> "join", task |-> 2]
    /\ p[n + 5] = [call |-> "destroy", on |-> "/sem_producer"]
    /\ p[n + 6] = [call |-> "destroy", on |-> "/sem_consumer"]
    /\ p[n + 7] = [call |-> "exit"]
    /\ \A k \in 1..Size(q) : q[k].call \in TurnCalls \cup {"exit"}

LEMMA pingPongRead ==
    ASSUME NEW producing, NEW consuming, Uses(producing, TurnCalls), Uses(consuming, TurnCalls)
    PROVE  \E n : TakesTurns(ping_pong(producing, consuming)[1],
                             ping_pong(producing, consuming)[2], n)
<1> DEFINE n == Size(producing)
           a == Then(Then(sem_open("/sem_producer", 0), sem_open("/sem_consumer", 0)), fork(2))
           b == Then(a, producing)
           c == Then(b, join(2))
           e == Then(c, destroy("/sem_producer"))
           f == Then(e, destroy("/sem_consumer"))
           p == Then(f, exit)
           q == Then(consuming, exit)
<1>1. ping_pong(producing, consuming)[1] = p /\ ping_pong(producing, consuming)[2] = q
  BY DEF ping_pong, Then
<1>2. /\ Program(producing) /\ Program(consuming) /\ n \in Nat
      /\ \A k \in 1..n : producing[k].call \in TurnCalls
      /\ \A k \in 1..Size(consuming) : consuming[k].call \in TurnCalls
  BY UsesMore DEF Program, Uses, TurnCalls, AllCalls, Tame, Size
<1> HIDE DEF n
<1>3. /\ Program(a) /\ Size(a) = 3
      /\ a[1] = [call |-> "sem_open", on |-> "/sem_producer", val |-> 0]
      /\ a[2] = [call |-> "sem_open", on |-> "/sem_consumer", val |-> 0]
      /\ a[3] = [call |-> "fork", task |-> 2]
  BY Singles, ThenOne DEF Single
<1> HIDE DEF a
<1>4. /\ Program(b) /\ Size(b) = n + 3
      /\ \A k \in 1..3 : b[k] = a[k]
      /\ \A k \in 1..n : b[3 + k] = producing[k]
  BY <1>2, <1>3, ThenMore DEF n
<1>5. \A k \in 4..(n + 3) : b[k].call \in TurnCalls
  <2> SUFFICES ASSUME NEW k \in 4..(n + 3) PROVE b[k].call \in TurnCalls
    OBVIOUS
  <2>1. k - 3 \in 1..n /\ 3 + (k - 3) = k
    BY <1>2
  <2> QED BY <1>2, <1>4, <2>1
<1>6. b[1] = a[1] /\ b[2] = a[2] /\ b[3] = a[3]
  BY <1>4
<1> HIDE DEF b
<1>7. /\ Program(c) /\ Size(c) = n + 4 /\ \A k \in 1..(n + 3) : c[k] = b[k]
      /\ c[n + 4] = [call |-> "join", task |-> 2]
  <2>1. (n + 3) + 1 = n + 4
    BY <1>2
  <2>2. Single(join(2), [call |-> "join", task |-> 2])
    BY Singles
  <2> QED BY <1>4, <2>1, <2>2, ThenOne
<1> HIDE DEF c
<1>8. /\ Program(e) /\ Size(e) = n + 5 /\ \A k \in 1..(n + 4) : e[k] = c[k]
      /\ e[n + 5] = [call |-> "destroy", on |-> "/sem_producer"]
  <2>1. (n + 4) + 1 = n + 5
    BY <1>2
  <2>2. Single(destroy("/sem_producer"), [call |-> "destroy", on |-> "/sem_producer"])
    BY Singles
  <2> QED BY <1>7, <2>1, <2>2, ThenOne
<1> HIDE DEF e
<1>9. /\ Program(f) /\ Size(f) = n + 6 /\ \A k \in 1..(n + 5) : f[k] = e[k]
      /\ f[n + 6] = [call |-> "destroy", on |-> "/sem_consumer"]
  <2>1. (n + 5) + 1 = n + 6
    BY <1>2
  <2>2. Single(destroy("/sem_consumer"), [call |-> "destroy", on |-> "/sem_consumer"])
    BY Singles
  <2> QED BY <1>8, <2>1, <2>2, ThenOne
<1> HIDE DEF f
<1>10. /\ Size(p) = n + 7 /\ \A k \in 1..(n + 6) : p[k] = f[k] /\ p[n + 7] = [call |-> "exit"]
  <2>1. (n + 6) + 1 = n + 7
    BY <1>2
  <2> QED BY <1>9, <2>1, ThenOne, Singles
<1> HIDE DEF p
<1>11. \A k \in 1..(n + 3) : p[k] = b[k]
  BY <1>2, <1>7, <1>8, <1>9, <1>10
<1>12. p[n + 4] = c[n + 4] /\ p[n + 5] = e[n + 5] /\ p[n + 6] = f[n + 6]
  BY <1>2, <1>8, <1>9, <1>10
<1>13. p[1] = a[1] /\ p[2] = a[2] /\ p[3] = a[3]
  BY <1>2, <1>6, <1>11
<1>14. \A k \in 4..(n + 3) : p[k].call \in TurnCalls
  BY <1>2, <1>5, <1>11
<1>15. /\ Size(q) \in Nat \ {0}
       /\ \A k \in 1..Size(q) : q[k].call \in TurnCalls \cup {"exit"}
  <2>1. /\ Size(consuming) \in Nat /\ Size(q) = Size(consuming) + 1
        /\ \A k \in 1..Size(consuming) : q[k] = consuming[k]
        /\ q[Size(consuming) + 1] = [call |-> "exit"]
    BY <1>2, ThenOne, Singles
  <2> HIDE DEF q
  <2>2. ASSUME NEW k \in 1..Size(q) PROVE q[k].call \in TurnCalls \cup {"exit"}
    <3>1. k \in 1..Size(consuming) \/ k = Size(consuming) + 1
      BY <2>1
    <3> QED BY <1>2, <2>1, <3>1
  <2> QED BY <2>1, <2>2
<1>16. TakesTurns(p, q, n)
  <2> HIDE DEF q
  <2> QED BY <1>2, <1>3, <1>7, <1>8, <1>9, <1>10, <1>12, <1>13, <1>14, <1>15 DEF TakesTurns
<1> QED BY <1>1, <1>16

LEMMA pingPongForkJoin ==
    ASSUME NEW d, NEW P, Programs[d] = P, DOMAIN P = 1..2, NEW n, TakesTurns(P[1], P[2], n)
    PROVE  ForkJoin(d)
<1>1. /\ Members(d) = 1..2 /\ Members(d) = {1, 2} /\ Others(d) = {2}
      /\ Size(P[1]) = Length(d, 1) /\ Size(P[2]) = Length(d, 2)
      /\ \A k : P[1][k] = Instr(d, 1, k) /\ P[2][k] = Instr(d, 2, k)
  BY DEF Members, Others, Length, Size, Instr
<1>2. /\ n \in Nat /\ Length(d, 1) = n + 7 /\ Length(d, 2) \in Nat \ {0}
      /\ Instr(d, 1, 1) = [call |-> "sem_open", on |-> "/sem_producer", val |-> 0]
      /\ Instr(d, 1, 2) = [call |-> "sem_open", on |-> "/sem_consumer", val |-> 0]
      /\ Instr(d, 1, 3) = [call |-> "fork", task |-> 2]
      /\ \A k \in 4..(n + 3) : Instr(d, 1, k).call \in TurnCalls
      /\ Instr(d, 1, n + 4) = [call |-> "join", task |-> 2]
      /\ Instr(d, 1, n + 5) = [call |-> "destroy", on |-> "/sem_producer"]
      /\ Instr(d, 1, n + 6) = [call |-> "destroy", on |-> "/sem_consumer"]
      /\ Instr(d, 1, n + 7) = [call |-> "exit"]
      /\ \A k \in 1..Length(d, 2) : Instr(d, 2, k).call \in TurnCalls \cup {"exit"}
  BY <1>1 DEF TakesTurns
<1>3. Steps(d, 1) = 1..(n + 7) /\ Steps(d, 2) = 1..Length(d, 2)
  BY <1>2 DEF Steps
<1>4. ASSUME NEW k \in Steps(d, 1)
      PROVE  \/ k \in {1, 2} /\ Instr(d, 1, k).call = "sem_open"
             \/ k = 3 /\ Instr(d, 1, k).call = "fork" /\ Instr(d, 1, k).task = 2
             \/ k \in 4..(n + 3) /\ Instr(d, 1, k).call \in TurnCalls
             \/ k = n + 4 /\ Instr(d, 1, k).call = "join" /\ Instr(d, 1, k).task = 2
             \/ k \in {n + 5, n + 6} /\ Instr(d, 1, k).call = "destroy"
             \/ k = n + 7 /\ Instr(d, 1, k).call = "exit"
  <2>1. \/ k = 1 \/ k = 2 \/ k = 3 \/ k \in 4..(n + 3) \/ k = n + 4 \/ k = n + 5 \/ k = n + 6
        \/ k = n + 7
    BY <1>2, <1>3
  <2> QED BY <1>2, <2>1
<1>5. \A k \in Steps(d, 1) :
        Instr(d, 1, k).call \in TurnCalls \cup {"sem_open", "fork", "join", "destroy", "exit"}
  BY <1>4
<1>6. \A k \in Steps(d, 2) : Instr(d, 2, k).call \in TurnCalls \cup {"exit"}
  BY <1>2, <1>3
<1>7. Straight(d)
  <2>1. \A c \in TurnCalls \cup {"sem_open", "fork", "join", "destroy", "exit"} :
          c \notin {"jump", "skipIf"}
    BY DEF TurnCalls
  <2>2. \A c \in TurnCalls \cup {"exit"} :
          c \notin {"jump", "skipIf"} /\ c \notin {"create", "fork", "destroy"}
    BY DEF TurnCalls
  <2> QED BY <1>1, <1>2, <1>3, <1>5, <1>6, <2>1, <2>2 DEF Straight
<1>8. MainInOrder(d)
  <2> SUFFICES ASSUME NEW k \in Steps(d, 1)
               PROVE  /\ Instr(d, 1, k).call = "exit" => k = Length(d, 1)
                      /\ Instr(d, 1, k).call # "sleep"
                      /\ Instr(d, 1, k).call \in {"create", "fork", "join"} => Instr(d, 1, k).task = 2
                      /\ Instr(d, 1, k).call \in {"create", "fork"} => \A j \in 1..(k - 1) :
                           Instr(d, 1, j).call = "join" => Instr(d, 1, j).task # Instr(d, 1, k).task
    BY <1>1 DEF MainInOrder
  <2>1. Instr(d, 1, 1).call # "join" /\ Instr(d, 1, 2).call # "join"
    BY <1>2
  <2>2. /\ Instr(d, 1, k).call = "exit" => k = n + 7
        /\ Instr(d, 1, k).call # "sleep" /\ Instr(d, 1, k).call # "create"
        /\ Instr(d, 1, k).call \in {"fork", "join"} => Instr(d, 1, k).task = 2
        /\ Instr(d, 1, k).call = "fork" => k = 3
    BY <1>4 DEF TurnCalls
  <2> QED BY <1>2, <2>1, <2>2
<1>9. DestroysLast(d)
  <2>1. \A k \in Steps(d, 1) : Instr(d, 1, k).call = "destroy" => k = n + 5 \/ k = n + 6
    BY <1>4 DEF TurnCalls
  <2>2. "on" \in DOMAIN Instr(d, 1, n + 5) /\ "on" \in DOMAIN Instr(d, 1, n + 6)
    BY <1>2
  <2>3. ~("on" \in DOMAIN Instr(d, 1, n + 7))
    BY <1>2
  <2>4. Instr(d, 1, n + 5).on # Instr(d, 1, n + 6).on
    BY <1>2
  <2>5. Instr(d, 1, n + 4).call = "join" /\ Instr(d, 1, n + 4).task = 2
    BY <1>2
  <2>6. \A j \in (n + 5 + 1)..Length(d, 1) : j = n + 6 \/ j = n + 7
    BY <1>2
  <2>7. \A j \in (n + 6 + 1)..Length(d, 1) : j = n + 7
    BY <1>2
  <2>8. ASSUME NEW k \in Steps(d, 1), Instr(d, 1, k).call = "destroy"
        PROVE  /\ \E j \in 1..(k - 1) : Instr(d, 1, j).call = "join" /\ Instr(d, 1, j).task = 2
               /\ \A j \in (k + 1)..Length(d, 1) :
                    "on" \in DOMAIN Instr(d, 1, j) => Instr(d, 1, j).on # Instr(d, 1, k).on
               /\ "on" \in DOMAIN Instr(d, 1, k)
    <3>1. CASE k = n + 5
      <4>1. \E j \in 1..(k - 1) : Instr(d, 1, j).call = "join" /\ Instr(d, 1, j).task = 2
        <5>1. n + 4 \in 1..(k - 1)
          BY <1>2, <3>1
        <5> QED BY <2>5, <5>1
      <4>2. ASSUME NEW j \in (k + 1)..Length(d, 1), "on" \in DOMAIN Instr(d, 1, j)
            PROVE  Instr(d, 1, j).on # Instr(d, 1, k).on
        BY <2>3, <2>4, <2>6, <3>1, <4>2
      <4>3. "on" \in DOMAIN Instr(d, 1, k)
        BY <2>2, <3>1
      <4> QED BY <4>1, <4>2, <4>3
    <3>2. CASE k = n + 6
      <4>1. \E j \in 1..(k - 1) : Instr(d, 1, j).call = "join" /\ Instr(d, 1, j).task = 2
        <5>1. n + 4 \in 1..(k - 1)
          BY <1>2, <3>2
        <5> QED BY <2>5, <5>1
      <4>2. ASSUME NEW j \in (k + 1)..Length(d, 1), "on" \in DOMAIN Instr(d, 1, j)
            PROVE  Instr(d, 1, j).on # Instr(d, 1, k).on
        BY <2>3, <2>7, <3>2, <4>2
      <4>3. "on" \in DOMAIN Instr(d, 1, k)
        BY <2>2, <3>2
      <4> QED BY <4>1, <4>2, <4>3
    <3> QED BY <2>1, <2>8, <3>1, <3>2
  <2> QED BY <1>1, <2>8 DEF DestroysLast
<1>10. NoThreads(d)
  BY <1>1, <1>5, <1>6 DEF NoThreads, TurnCalls
<1>11. LocksEnd(d)
  BY <1>10 DEF LocksEnd, NoThreads
<1> QED BY <1>7, <1>8, <1>9, <1>10, <1>11 DEF ForkJoin, EndsAlone

\* sem_demo and sem_demo2: what is done in the rounds.
LEMMA turnsUse ==
    /\ Uses(FlattenSeq([i \in 1..Rounds |-> sem_producer(i, <<>>)]), TurnCalls)
    /\ Uses(FlattenSeq([i \in 1..Rounds |-> sem_consumer(i, print("consumed", i))]), TurnCalls)
    /\ Uses(FlattenSeq([i \in 1..Rounds |-> sem_producer(i, store("shared_mem", i))]), TurnCalls)
    /\ Uses(FlattenSeq([i \in 1..Rounds |-> sem_consumer(i, printVar("consumed", "shared_mem"))]),
            TurnCalls)
<1>1. /\ Rounds \in Nat
      /\ \A s : Uses(sem_post(s), TurnCalls) /\ Uses(sem_wait(s), TurnCalls)
      /\ \A x, i : /\ Uses(print(x, i), TurnCalls) /\ Uses(store(x, i), TurnCalls)
                   /\ Uses(printVar(x, i), TurnCalls)
      /\ Uses(<<>>, TurnCalls)
  BY ThreadDemosAssumption, OneCall, NoCall
  DEF TurnCalls, sem_post, sem_wait, print, store, printVar
<1>2. ASSUME NEW i, NEW work, Uses(work, TurnCalls)
      PROVE  Uses(sem_producer(i, work), TurnCalls) /\ Uses(sem_consumer(i, work), TurnCalls)
  BY <1>1, <1>2, BothUse DEF sem_producer, sem_consumer
<1>3. ASSUME NEW f, f = [k \in 1..Rounds |-> f[k]], \A k \in 1..Rounds : Uses(f[k], TurnCalls)
      PROVE  Uses(FlattenSeq(f), TurnCalls)
  BY <1>1, <1>3, FlattenUses
<1>4. Uses(FlattenSeq([i \in 1..Rounds |-> sem_producer(i, <<>>)]), TurnCalls)
  <2> DEFINE f == [i \in 1..Rounds |-> sem_producer(i, <<>>)]
  <2>1. f = [k \in 1..Rounds |-> f[k]] /\ \A k \in 1..Rounds : Uses(f[k], TurnCalls)
    BY <1>1, <1>2
  <2> HIDE DEF f
  <2>2. Uses(FlattenSeq(f), TurnCalls)
    BY <1>3, <2>1
  <2> QED BY <2>2 DEF f
<1>5. Uses(FlattenSeq([i \in 1..Rounds |-> sem_consumer(i, print("consumed", i))]), TurnCalls)
  <2> DEFINE f == [i \in 1..Rounds |-> sem_consumer(i, print("consumed", i))]
  <2>1. f = [k \in 1..Rounds |-> f[k]] /\ \A k \in 1..Rounds : Uses(f[k], TurnCalls)
    BY <1>1, <1>2
  <2> HIDE DEF f
  <2>2. Uses(FlattenSeq(f), TurnCalls)
    BY <1>3, <2>1
  <2> QED BY <2>2 DEF f
<1>6. Uses(FlattenSeq([i \in 1..Rounds |-> sem_producer(i, store("shared_mem", i))]), TurnCalls)
  <2> DEFINE f == [i \in 1..Rounds |-> sem_producer(i, store("shared_mem", i))]
  <2>1. f = [k \in 1..Rounds |-> f[k]] /\ \A k \in 1..Rounds : Uses(f[k], TurnCalls)
    BY <1>1, <1>2
  <2> HIDE DEF f
  <2>2. Uses(FlattenSeq(f), TurnCalls)
    BY <1>3, <2>1
  <2> QED BY <2>2 DEF f
<1>7. Uses(FlattenSeq([i \in 1..Rounds |-> sem_consumer(i, printVar("consumed", "shared_mem"))]), TurnCalls)
  <2> DEFINE f == [i \in 1..Rounds |-> sem_consumer(i, printVar("consumed", "shared_mem"))]
  <2>1. f = [k \in 1..Rounds |-> f[k]] /\ \A k \in 1..Rounds : Uses(f[k], TurnCalls)
    BY <1>1, <1>2
  <2> HIDE DEF f
  <2>2. Uses(FlattenSeq(f), TurnCalls)
    BY <1>3, <2>1
  <2> QED BY <2>2 DEF f
<1> QED BY <1>4, <1>5, <1>6, <1>7

LEMMA turnsForkJoin == ForkJoin("sem_demo") /\ ForkJoin("sem_demo2")
<1>1. \A producing, consuming : DOMAIN ping_pong(producing, consuming) = 1..2
  BY DEF ping_pong
<1>2. ForkJoin("sem_demo")
  <2>1. Programs["sem_demo"] = sem_demo
    BY DEF Programs
  <2>2. PICK n : TakesTurns(sem_demo[1], sem_demo[2], n)
    BY turnsUse, pingPongRead DEF sem_demo
  <2>3. DOMAIN sem_demo = 1..2
    BY <1>1 DEF sem_demo
  <2> QED BY <2>1, <2>2, <2>3, pingPongForkJoin
<1>3. ForkJoin("sem_demo2")
  <2>1. Programs["sem_demo2"] = sem_demo2
    BY DEF Programs
  <2>2. PICK n : TakesTurns(sem_demo2[1], sem_demo2[2], n)
    BY turnsUse, pingPongRead DEF sem_demo2
  <2>3. DOMAIN sem_demo2 = 1..2
    BY <1>1 DEF sem_demo2
  <2> QED BY <2>1, <2>2, <2>3, pingPongForkJoin
<1> QED BY <1>2, <1>3

-----------------------------------------------------------------------------
(***************************************************************************)
(* The two programs that are not of that form.  In 8.thread_sem.c the      *)
(* child has a child of its own, and both destroy the semaphore they open. *)
(***************************************************************************)

PosixParent(p, u) ==
    /\ Program(p) /\ Size(p) = 6
    /\ p[1] = [call |-> "sem_open", on |-> "/posix_sem", val |-> 0]
    /\ p[2] = [call |-> "fork", task |-> u]
    /\ p[3] = [call |-> "print", tag |-> "finished", val |-> 1]
    /\ p[4] = [call |-> "sem_post", on |-> "/posix_sem"]
    /\ p[5] = [call |-> "join", task |-> u]
    /\ p[6] = [call |-> "destroy", on |-> "/posix_sem"]

LEMMA posixRead == \A u : PosixParent(posix_parent(u), u)
<1>1. \A u : posix_parent(u) = Then(Then(Then(Then(Then(sem_open("/posix_sem", 0), fork(u)),
               print("finished", 1)), sem_post("/posix_sem")), join(u)), destroy("/posix_sem"))
  BY DEF posix_parent, Then
<1>2. ASSUME NEW u PROVE PosixParent(posix_parent(u), u)
  BY <1>1, Singles, MoreSingles, ThenOne DEF Single, PosixParent
<1> QED BY <1>2

LEMMA posixChildRead ==
    /\ Size(posix_child) = 3
    /\ posix_child[1] = [call |-> "sem_wait", on |-> "/posix_sem"]
    /\ posix_child[2] = [call |-> "print", tag |-> "resumed", val |-> 1]
    /\ posix_child[3] = [call |-> "exit"]
<1>1. posix_child = Then(Then(sem_wait("/posix_sem"), print("resumed", 1)), exit)
  BY DEF posix_child, Then
<1> QED BY <1>1, Singles, MoreSingles, ThenOne DEF Single

\* What the child does after it, and main around it.
LEMMA threadSemRead ==
    LET p == thread_sem_demo[1]  q == thread_sem_demo[2] IN
    /\ DOMAIN thread_sem_demo = 1..4
    /\ thread_sem_demo[3] = posix_child /\ thread_sem_demo[4] = posix_child
    /\ Size(p) = 13 /\ Size(q) = 9
    /\ p[1] = [call |-> "sem_init", on |-> "semfile", val |-> 0]
    /\ p[2] = [call |-> "fork", task |-> 2]
    /\ p[3] = [call |-> "print", tag |-> "finished", val |-> 0]
    /\ p[4] = [call |-> "sem_post", on |-> "semfile"]
    /\ p[5] = [call |-> "join", task |-> 2]
    /\ p[6] = [call |-> "destroy", on |-> "semfile"]
    /\ \A k \in 1..6 : p[6 + k] = posix_parent(3)[k]
    /\ p[13] = [call |-> "exit"]
    /\ q[1] = [call |-> "sem_wait", on |-> "semfile"]
    /\ q[2] = [call |-> "print", tag |-> "resumed", val |-> 0]
    /\ \A k \in 1..6 : q[2 + k] = posix_parent(4)[k]
    /\ q[9] = [call |-> "exit"]
<1> DEFINE a == Then(Then(Then(Then(Then(sem_init("semfile", 0), fork(2)), print("finished", 0)),
                  sem_post("semfile")), join(2)), destroy("semfile"))
           b == Then(sem_wait("semfile"), print("resumed", 0))
<1>1. thread_sem_demo[1] = Then(Then(a, posix_parent(3)), exit)
  BY DEF thread_sem_demo, Then
<1>2. thread_sem_demo[2] = Then(Then(b, posix_parent(4)), exit)
  BY DEF thread_sem_demo, Then
<1>3. /\ Program(a) /\ Size(a) = 6
      /\ a[1] = [call |-> "sem_init", on |-> "semfile", val |-> 0]
      /\ a[2] = [call |-> "fork", task |-> 2]
      /\ a[3] = [call |-> "print", tag |-> "finished", val |-> 0]
      /\ a[4] = [call |-> "sem_post", on |-> "semfile"]
      /\ a[5] = [call |-> "join", task |-> 2]
      /\ a[6] = [call |-> "destroy", on |-> "semfile"]
  BY Singles, MoreSingles, ThenOne DEF Single
<1>4. /\ Program(b) /\ Size(b) = 2
      /\ b[1] = [call |-> "sem_wait", on |-> "semfile"]
      /\ b[2] = [call |-> "print", tag |-> "resumed", val |-> 0]
  BY Singles, MoreSingles, ThenOne DEF Single
<1> HIDE DEF a, b
<1>5. LET r == Then(a, posix_parent(3))  p == Then(r, exit) IN
      /\ Size(p) = 13 /\ \A k \in 1..6 : p[k] = a[k] /\ p[6 + k] = posix_parent(3)[k]
      /\ p[13] = [call |-> "exit"]
  <2> DEFINE r == Then(a, posix_parent(3))
  <2>1. /\ Program(r) /\ Size(r) = 12 /\ \A k \in 1..6 : r[k] = a[k]
        /\ \A k \in 1..6 : r[6 + k] = posix_parent(3)[k]
    <3>1. Program(posix_parent(3)) /\ Size(posix_parent(3)) = 6
      BY posixRead DEF PosixParent
    <3> HIDE DEF r
    <3>2. r = Then(a, posix_parent(3))
      BY DEF r
    <3> QED BY <1>3, <3>1, <3>2, ThenMore
  <2> HIDE DEF r
  <2>2. /\ Size(Then(r, exit)) = 13 /\ \A k \in 1..12 : Then(r, exit)[k] = r[k]
        /\ Then(r, exit)[13] = [call |-> "exit"]
    BY <2>1, Singles, ThenOne
  <2> QED BY <2>1, <2>2 DEF r
<1>6. LET r == Then(b, posix_parent(4))  p == Then(r, exit) IN
      /\ Size(p) = 9 /\ \A k \in 1..2 : p[k] = b[k]
      /\ \A k \in 1..6 : p[2 + k] = posix_parent(4)[k]
      /\ p[9] = [call |-> "exit"]
  <2> DEFINE r == Then(b, posix_parent(4))
  <2>1. /\ Program(r) /\ Size(r) = 8 /\ \A k \in 1..2 : r[k] = b[k]
        /\ \A k \in 1..6 : r[2 + k] = posix_parent(4)[k]
    <3>1. Program(posix_parent(4)) /\ Size(posix_parent(4)) = 6
      BY posixRead DEF PosixParent
    <3> HIDE DEF r
    <3>2. r = Then(b, posix_parent(4))
      BY DEF r
    <3> QED BY <1>4, <3>1, <3>2, ThenMore
  <2> HIDE DEF r
  <2>2. /\ Size(Then(r, exit)) = 9 /\ \A k \in 1..8 : Then(r, exit)[k] = r[k]
        /\ Then(r, exit)[9] = [call |-> "exit"]
    BY <2>1, Singles, ThenOne
  <2> QED BY <2>1, <2>2 DEF r
<1>7. DOMAIN thread_sem_demo = 1..4 /\ thread_sem_demo[3] = posix_child
      /\ thread_sem_demo[4] = posix_child
  BY DEF thread_sem_demo
<1> QED BY <1>1, <1>2, <1>3, <1>4, <1>5, <1>6, <1>7

LEMMA threadSemInstr ==
    LET I(t, k) == Instr("thread_sem", t, k) IN
    /\ Members("thread_sem") = {1, 2, 3, 4}
    /\ Length("thread_sem", 1) = 13 /\ Length("thread_sem", 2) = 9
    /\ Length("thread_sem", 3) = 3 /\ Length("thread_sem", 4) = 3
    /\ I(1, 1) = [call |-> "sem_init", on |-> "semfile", val |-> 0]
    /\ I(1, 2) = [call |-> "fork", task |-> 2]
    /\ I(1, 3) = [call |-> "print", tag |-> "finished", val |-> 0]
    /\ I(1, 4) = [call |-> "sem_post", on |-> "semfile"]
    /\ I(1, 5) = [call |-> "join", task |-> 2]
    /\ I(1, 6) = [call |-> "destroy", on |-> "semfile"]
    /\ I(1, 7) = [call |-> "sem_open", on |-> "/posix_sem", val |-> 0]
    /\ I(1, 8) = [call |-> "fork", task |-> 3]
    /\ I(1, 9) = [call |-> "print", tag |-> "finished", val |-> 1]
    /\ I(1, 10) = [call |-> "sem_post", on |-> "/posix_sem"]
    /\ I(1, 11) = [call |-> "join", task |-> 3]
    /\ I(1, 12) = [call |-> "destroy", on |-> "/posix_sem"]
    /\ I(1, 13) = [call |-> "exit"]
    /\ I(2, 1) = [call |-> "sem_wait", on |-> "semfile"]
    /\ I(2, 2) = [call |-> "print", tag |-> "resumed", val |-> 0]
    /\ I(2, 3) = [call |-> "sem_open", on |-> "/posix_sem", val |-> 0]
    /\ I(2, 4) = [call |-> "fork", task |-> 4]
    /\ I(2, 5) = [call |-> "print", tag |-> "finished", val |-> 1]
    /\ I(2, 6) = [call |-> "sem_post", on |-> "/posix_sem"]
    /\ I(2, 7) = [call |-> "join", task |-> 4]
    /\ I(2, 8) = [call |-> "destroy", on |-> "/posix_sem"]
    /\ I(2, 9) = [call |-> "exit"]
    /\ \A t \in {3, 4} :
         /\ I(t, 1) = [call |-> "sem_wait", on |-> "/posix_sem"]
         /\ I(t, 2) = [call |-> "print", tag |-> "resumed", val |-> 1]
         /\ I(t, 3) = [call |-> "exit"]
<1>1. Programs["thread_sem"] = thread_sem_demo
  BY DEF Programs
<1>2. /\ Members("thread_sem") = {1, 2, 3, 4}
      /\ Length("thread_sem", 1) = 13 /\ Length("thread_sem", 2) = 9
      /\ Length("thread_sem", 3) = 3 /\ Length("thread_sem", 4) = 3
  BY <1>1, threadSemRead, posixChildRead DEF Members, Length, Size
<1>3. \A k \in 1..6 : /\ Instr("thread_sem", 1, 6 + k) = posix_parent(3)[k]
                      /\ Instr("thread_sem", 2, 2 + k) = posix_parent(4)[k]
  BY <1>1, threadSemRead DEF Instr
<1>4. /\ Instr("thread_sem", 1, 7) = posix_parent(3)[1] /\ Instr("thread_sem", 2, 3) = posix_parent(4)[1]
      /\ Instr("thread_sem", 1, 8) = posix_parent(3)[2] /\ Instr("thread_sem", 2, 4) = posix_parent(4)[2]
      /\ Instr("thread_sem", 1, 9) = posix_parent(3)[3] /\ Instr("thread_sem", 2, 5) = posix_parent(4)[3]
      /\ Instr("thread_sem", 1, 10) = posix_parent(3)[4] /\ Instr("thread_sem", 2, 6) = posix_parent(4)[4]
      /\ Instr("thread_sem", 1, 11) = posix_parent(3)[5] /\ Instr("thread_sem", 2, 7) = posix_parent(4)[5]
      /\ Instr("thread_sem", 1, 12) = posix_parent(3)[6] /\ Instr("thread_sem", 2, 8) = posix_parent(4)[6]
  BY <1>3
<1>5. \A k : /\ Instr("thread_sem", 1, k) = thread_sem_demo[1][k]
             /\ Instr("thread_sem", 2, k) = thread_sem_demo[2][k]
             /\ Instr("thread_sem", 3, k) = posix_child[k]
             /\ Instr("thread_sem", 4, k) = posix_child[k]
  BY <1>1, threadSemRead DEF Instr
<1>9. PosixParent(posix_parent(3), 3) /\ PosixParent(posix_parent(4), 4)
  BY posixRead
<1>6. /\ Instr("thread_sem", 1, 1) = [call |-> "sem_init", on |-> "semfile", val |-> 0]
      /\ Instr("thread_sem", 1, 2) = [call |-> "fork", task |-> 2]
      /\ Instr("thread_sem", 1, 3) = [call |-> "print", tag |-> "finished", val |-> 0]
      /\ Instr("thread_sem", 1, 4) = [call |-> "sem_post", on |-> "semfile"]
      /\ Instr("thread_sem", 1, 5) = [call |-> "join", task |-> 2]
      /\ Instr("thread_sem", 1, 6) = [call |-> "destroy", on |-> "semfile"]
      /\ Instr("thread_sem", 1, 7) = [call |-> "sem_open", on |-> "/posix_sem", val |-> 0]
      /\ Instr("thread_sem", 1, 8) = [call |-> "fork", task |-> 3]
      /\ Instr("thread_sem", 1, 9) = [call |-> "print", tag |-> "finished", val |-> 1]
      /\ Instr("thread_sem", 1, 10) = [call |-> "sem_post", on |-> "/posix_sem"]
      /\ Instr("thread_sem", 1, 11) = [call |-> "join", task |-> 3]
      /\ Instr("thread_sem", 1, 12) = [call |-> "destroy", on |-> "/posix_sem"]
      /\ Instr("thread_sem", 1, 13) = [call |-> "exit"]
  BY <1>4, <1>5, <1>9, threadSemRead DEF PosixParent
<1>7. /\ Instr("thread_sem", 2, 1) = [call |-> "sem_wait", on |-> "semfile"]
      /\ Instr("thread_sem", 2, 2) = [call |-> "print", tag |-> "resumed", val |-> 0]
      /\ Instr("thread_sem", 2, 3) = [call |-> "sem_open", on |-> "/posix_sem", val |-> 0]
      /\ Instr("thread_sem", 2, 4) = [call |-> "fork", task |-> 4]
      /\ Instr("thread_sem", 2, 5) = [call |-> "print", tag |-> "finished", val |-> 1]
      /\ Instr("thread_sem", 2, 6) = [call |-> "sem_post", on |-> "/posix_sem"]
      /\ Instr("thread_sem", 2, 7) = [call |-> "join", task |-> 4]
      /\ Instr("thread_sem", 2, 8) = [call |-> "destroy", on |-> "/posix_sem"]
      /\ Instr("thread_sem", 2, 9) = [call |-> "exit"]
  BY <1>4, <1>5, <1>9, threadSemRead DEF PosixParent
<1>8. /\ \A t \in {3, 4} :
           /\ Instr("thread_sem", t, 1) = [call |-> "sem_wait", on |-> "/posix_sem"]
           /\ Instr("thread_sem", t, 2) = [call |-> "print", tag |-> "resumed", val |-> 1]
           /\ Instr("thread_sem", t, 3) = [call |-> "exit"]
  BY <1>5, posixChildRead
<1> QED BY <1>2, <1>6, <1>7, <1>8

\* Which call is made where.
ThreadSemCalls(t, k, i) ==
    /\ i.call \in {"sem_init", "sem_open", "fork", "print", "sem_post", "sem_wait", "join",
                   "destroy", "exit"}
    /\ i.call = "fork" => \/ t = 1 /\ k = 2 /\ i.task = 2
                          \/ t = 1 /\ k = 8 /\ i.task = 3
                          \/ t = 2 /\ k = 4 /\ i.task = 4
    /\ i.call = "join" => \/ t = 1 /\ k = 5 /\ i.task = 2
                          \/ t = 1 /\ k = 11 /\ i.task = 3
                          \/ t = 2 /\ k = 7 /\ i.task = 4
    /\ i.call = "exit" => \/ t = 1 /\ k = 13
                          \/ t = 2 /\ k = 9
                          \/ t \in {3, 4} /\ k = 3
    /\ i.call \in {"sem_init", "sem_open"} =>
                          \/ t = 1 /\ k = 1 /\ i.on = "semfile"
                          \/ t = 1 /\ k = 7 /\ i.on = "/posix_sem"
                          \/ t = 2 /\ k = 3 /\ i.on = "/posix_sem"
    /\ i.call = "destroy" => \/ t = 1 /\ k = 6 /\ i.on = "semfile"
                             \/ t = 1 /\ k = 12 /\ i.on = "/posix_sem"
                             \/ t = 2 /\ k = 8 /\ i.on = "/posix_sem"
    /\ i.call \in {"print", "sem_post", "sem_wait"} =>
                          \/ t = 1 /\ k \in {3, 4, 9, 10}
                          \/ t = 2 /\ k \in {1, 2, 5, 6}
                          \/ t \in {3, 4} /\ k \in {1, 2}
    /\ "on" \in DOMAIN i =>
         \/ i.on = "semfile" /\ t = 1 /\ k \in {1, 4, 6}
         \/ i.on = "semfile" /\ t = 2 /\ k = 1
         \/ /\ i.on = "/posix_sem"
            /\ \/ t = 1 /\ k \in {10, 12}
               \/ t = 1 /\ k = 7 /\ i.call = "sem_open"
               \/ t = 2 /\ k \in {3, 6, 8}
               \/ t \in {3, 4} /\ k = 1

LEMMA threadSemCalls ==
    \A t \in Members("thread_sem") : \A k \in 1..Length("thread_sem", t) :
      ThreadSemCalls(t, k, Instr("thread_sem", t, k))
<1>1. ASSUME NEW t, NEW k, NEW i,
             \/ t = 1 /\ k = 2 /\ i = [call |-> "fork", task |-> 2]
             \/ t = 1 /\ k = 8 /\ i = [call |-> "fork", task |-> 3]
             \/ t = 2 /\ k = 4 /\ i = [call |-> "fork", task |-> 4]
             \/ t = 1 /\ k = 5 /\ i = [call |-> "join", task |-> 2]
             \/ t = 1 /\ k = 11 /\ i = [call |-> "join", task |-> 3]
             \/ t = 2 /\ k = 7 /\ i = [call |-> "join", task |-> 4]
             \/ t = 1 /\ k = 13 /\ i = [call |-> "exit"]
             \/ t = 2 /\ k = 9 /\ i = [call |-> "exit"]
             \/ t \in {3, 4} /\ k = 3 /\ i = [call |-> "exit"]
      PROVE  ThreadSemCalls(t, k, i)
  BY <1>1 DEF ThreadSemCalls
<1>2. ASSUME NEW t, NEW k, NEW i,
             \/ t = 1 /\ k = 1 /\ i = [call |-> "sem_init", on |-> "semfile", val |-> 0]
             \/ t = 1 /\ k = 7 /\ i = [call |-> "sem_open", on |-> "/posix_sem", val |-> 0]
             \/ t = 2 /\ k = 3 /\ i = [call |-> "sem_open", on |-> "/posix_sem", val |-> 0]
             \/ t = 1 /\ k = 6 /\ i = [call |-> "destroy", on |-> "semfile"]
             \/ t = 1 /\ k = 12 /\ i = [call |-> "destroy", on |-> "/posix_sem"]
             \/ t = 2 /\ k = 8 /\ i = [call |-> "destroy", on |-> "/posix_sem"]
      PROVE  ThreadSemCalls(t, k, i)
  BY <1>2 DEF ThreadSemCalls
<1>3. ASSUME NEW t, NEW k, NEW i,
             \/ t = 1 /\ k = 4 /\ i = [call |-> "sem_post", on |-> "semfile"]
             \/ t = 1 /\ k = 10 /\ i = [call |-> "sem_post", on |-> "/posix_sem"]
             \/ t = 2 /\ k = 6 /\ i = [call |-> "sem_post", on |-> "/posix_sem"]
             \/ t = 2 /\ k = 1 /\ i = [call |-> "sem_wait", on |-> "semfile"]
             \/ t \in {3, 4} /\ k = 1 /\ i = [call |-> "sem_wait", on |-> "/posix_sem"]
      PROVE  ThreadSemCalls(t, k, i)
  BY <1>3 DEF ThreadSemCalls
<1>4. ASSUME NEW t, NEW k, NEW g, NEW v,
             \/ t = 1 /\ k \in {3, 9}
             \/ t = 2 /\ k \in {2, 5}
             \/ t \in {3, 4} /\ k = 2
      PROVE  ThreadSemCalls(t, k, [call |-> "print", tag |-> g, val |-> v])
  BY <1>4 DEF ThreadSemCalls
<1>5. \A k \in 1..Length("thread_sem", 1) : ThreadSemCalls(1, k, Instr("thread_sem", 1, k))
  <2> SUFFICES ASSUME NEW k \in 1..13 PROVE ThreadSemCalls(1, k, Instr("thread_sem", 1, k))
    BY threadSemInstr
  <2>1. k \in {2, 5, 8, 11, 13} \/ k \in {1, 6, 7, 12} \/ k \in {4, 10} \/ k \in {3, 9}
    OBVIOUS
  <2>2. k \in {2, 5, 8, 11, 13} => ThreadSemCalls(1, k, Instr("thread_sem", 1, k))
    BY <1>1, threadSemInstr
  <2>3. k \in {1, 6, 7, 12} => ThreadSemCalls(1, k, Instr("thread_sem", 1, k))
    BY <1>2, threadSemInstr
  <2>4. k \in {4, 10} => ThreadSemCalls(1, k, Instr("thread_sem", 1, k))
    BY <1>3, threadSemInstr
  <2>5. k \in {3, 9} => ThreadSemCalls(1, k, Instr("thread_sem", 1, k))
    BY <1>4, threadSemInstr
  <2> QED BY <2>1, <2>2, <2>3, <2>4, <2>5
<1>6. \A k \in 1..Length("thread_sem", 2) : ThreadSemCalls(2, k, Instr("thread_sem", 2, k))
  <2> SUFFICES ASSUME NEW k \in 1..9 PROVE ThreadSemCalls(2, k, Instr("thread_sem", 2, k))
    BY threadSemInstr
  <2>1. k \in {4, 7, 9} \/ k \in {3, 8} \/ k \in {1, 6} \/ k \in {2, 5}
    OBVIOUS
  <2>2. k \in {4, 7, 9} => ThreadSemCalls(2, k, Instr("thread_sem", 2, k))
    BY <1>1, threadSemInstr
  <2>3. k \in {3, 8} => ThreadSemCalls(2, k, Instr("thread_sem", 2, k))
    BY <1>2, threadSemInstr
  <2>4. k \in {1, 6} => ThreadSemCalls(2, k, Instr("thread_sem", 2, k))
    BY <1>3, threadSemInstr
  <2>5. k \in {2, 5} => ThreadSemCalls(2, k, Instr("thread_sem", 2, k))
    BY <1>4, threadSemInstr
  <2> QED BY <2>1, <2>2, <2>3, <2>4, <2>5
<1>7. \A t \in {3, 4} : \A k \in 1..Length("thread_sem", t) :
        ThreadSemCalls(t, k, Instr("thread_sem", t, k))
  <2> SUFFICES ASSUME NEW t \in {3, 4}, NEW k \in 1..3
               PROVE  ThreadSemCalls(t, k, Instr("thread_sem", t, k))
    BY threadSemInstr
  <2>1. k = 3 \/ k = 1 \/ k = 2
    OBVIOUS
  <2>2. k = 3 => ThreadSemCalls(t, k, Instr("thread_sem", t, k))
    BY <1>1, threadSemInstr
  <2>3. k = 1 => ThreadSemCalls(t, k, Instr("thread_sem", t, k))
    BY <1>3, threadSemInstr
  <2>4. k = 2 => ThreadSemCalls(t, k, Instr("thread_sem", t, k))
    BY <1>4, threadSemInstr
  <2> QED BY <2>1, <2>2, <2>3, <2>4
<1>8. Members("thread_sem") = {1, 2, 3, 4}
  BY threadSemInstr
<1> QED BY <1>5, <1>6, <1>7, <1>8

\* Where the four tasks may be.
ThreadSemInv ==
    /\ Pc(1) \in 1..14 /\ Pc(2) \in 0..10 /\ Pc(3) \in 0..4 /\ Pc(4) \in 0..4
    /\ \A t \in {1, 2, 3, 4} : Pc(t) > 0 => task[t].space = t
    /\ Pc(1) <= 2 => Pc(2) = 0
    /\ Pc(1) > 5 => Pc(2) = 10
    /\ Pc(1) <= 8 => Pc(3) = 0
    /\ Pc(1) > 11 => Pc(3) = 4
    /\ Pc(2) <= 4 => Pc(4) = 0
    /\ Pc(2) > 7 => Pc(4) = 4
    /\ DOMAIN owner = {} /\ asleep = {}
    /\ gone \subseteq {"semfile", "/posix_sem"}
    /\ "semfile" \in gone => Pc(1) > 6
    /\ "/posix_sem" \in gone => (Pc(2) > 8 /\ Pc(1) <= 7) \/ Pc(1) > 12

LEMMA ThreadSemStart == ASSUME demo = "thread_sem", M!MachineInit PROVE ThreadSemInv
<1>1. /\ \A t \in {1, 2, 3, 4} :
           task[t] = IF t = 1 THEN M!Ready(1) ELSE [M!Ready(0) EXCEPT !.pc = 0]
      /\ gone = {} /\ asleep = {} /\ owner = [m \in {} |-> 0]
  BY threadSemInstr DEF M!MachineInit, M!Main, Members
<1>2. /\ Pc(1) = 1 /\ task[1].space = 1
      /\ Pc(2) = 0 /\ Pc(3) = 0 /\ Pc(4) = 0
  BY <1>1 DEF M!Ready, Pc
<1> QED BY <1>1, <1>2 DEF ThreadSemInv

\* Task t goes to place, the others stay where they are.
FourGo(t, place) ==
    /\ task'[1].pc = (IF t = 1 THEN place ELSE Pc(1))
    /\ task'[2].pc = (IF t = 2 THEN place ELSE Pc(2))
    /\ task'[3].pc = (IF t = 3 THEN place ELSE Pc(3))
    /\ task'[4].pc = (IF t = 4 THEN place ELSE Pc(4))
    /\ task'[1].space = task[1].space /\ task'[2].space = task[2].space
    /\ task'[3].space = task[3].space /\ task'[4].space = task[4].space

LEMMA GoesFour ==
    ASSUME DOMAIN task = {1, 2, 3, 4}, NEW t, NEW place, Goes(t, place)
    PROVE  FourGo(t, place)
BY DEF Goes, FourGo, Pc

LEMMA ThreadSemStep ==
    ASSUME demo = "thread_sem", TasksInv, ThreadSemInv, M!MachineNext
    PROVE  ThreadSemInv'
<1>1. DOMAIN task = {1, 2, 3, 4}
  BY threadSemInstr DEF TasksInv, Members
<1>2. ASSUME NEW t \in DOMAIN task, NEW calls, Calls(t, calls)
      PROVE  /\ ThreadSemCalls(t, Pc(t), Here(t)) /\ Here(t).call \in calls
             /\ Length(demo, 1) = 13 /\ Length(demo, 2) = 9
             /\ Length(demo, 3) = 3 /\ Length(demo, 4) = 3
  BY <1>1, <1>2, threadSemCalls, threadSemInstr DEF Calls, Here
<1>3. ASSUME NEW t \in DOMAIN task, Begins(t) PROVE ThreadSemInv'
  <2>1. Calls(t, {"create", "fork"})
    BY <1>3 DEF Begins
  <2>2. Here(t).call = "fork" /\ ThreadSemCalls(t, Pc(t), Here(t))
    BY <1>2, <2>1 DEF ThreadSemCalls
  <2>3. \/ t = 1 /\ Pc(1) = 2 /\ Here(t).task = 2
        \/ t = 1 /\ Pc(1) = 8 /\ Here(t).task = 3
        \/ t = 2 /\ Pc(2) = 4 /\ Here(t).task = 4
    BY <2>2 DEF ThreadSemCalls
  <2> DEFINE u == Here(t).task
  <2>4. /\ \A v \in {1, 2, 3, 4} :
             /\ task'[v].pc = IF v = u THEN 1 ELSE IF v = t THEN Pc(t) + 1 ELSE Pc(v)
             /\ task'[v].space = IF v = u THEN u ELSE task[v].space
        /\ UNCHANGED <<gone, owner, asleep>>
    BY <1>1, <1>3, <2>2 DEF Begins, Pc
  <2> HIDE DEF u
  <2>8. /\ task'[1].pc = IF u = 1 THEN 1 ELSE IF t = 1 THEN Pc(t) + 1 ELSE Pc(1)
        /\ task'[2].pc = IF u = 2 THEN 1 ELSE IF t = 2 THEN Pc(t) + 1 ELSE Pc(2)
        /\ task'[3].pc = IF u = 3 THEN 1 ELSE IF t = 3 THEN Pc(t) + 1 ELSE Pc(3)
        /\ task'[4].pc = IF u = 4 THEN 1 ELSE IF t = 4 THEN Pc(t) + 1 ELSE Pc(4)
    BY <2>4
  <2>9. /\ \A v \in {1, 2, 3, 4} : task'[v].space = IF v = u THEN u ELSE task[v].space
        /\ UNCHANGED <<gone, owner, asleep>>
    BY <2>4
  <2>5. CASE t = 1 /\ Pc(1) = 2 /\ u = 2
    BY <2>5, <2>8, <2>9 DEF ThreadSemInv, Pc
  <2>6. CASE t = 1 /\ Pc(1) = 8 /\ u = 3
    BY <2>6, <2>8, <2>9 DEF ThreadSemInv, Pc
  <2>7. CASE t = 2 /\ Pc(2) = 4 /\ u = 4
    BY <2>7, <2>8, <2>9 DEF ThreadSemInv, Pc
  <2> QED BY <2>3, <2>5, <2>6, <2>7 DEF u
<1>4. ASSUME NEW t \in DOMAIN task, Joins(t) PROVE ThreadSemInv'
  <2>1. Calls(t, {"join"}) /\ Pc(Here(t).task) > Length(demo, Here(t).task)
        /\ Goes(t, Pc(t) + 1) /\ UNCHANGED <<gone, owner, asleep>>
    BY <1>4 DEF Joins
  <2>2. \/ t = 1 /\ Pc(1) = 5 /\ Pc(2) = 10
        \/ t = 1 /\ Pc(1) = 11 /\ Pc(3) = 4
        \/ t = 2 /\ Pc(2) = 7 /\ Pc(4) = 4
    BY <1>2, <2>1 DEF ThreadSemCalls, ThreadSemInv
  <2>3. FourGo(t, Pc(t) + 1)
    BY <1>1, <2>1, GoesFour
  <2> QED BY <2>1, <2>2, <2>3 DEF ThreadSemInv, FourGo, Pc
<1>5. ASSUME NEW t \in DOMAIN task, Exits(t) PROVE ThreadSemInv'
  <2>1. Calls(t, {"exit"}) /\ UNCHANGED <<gone, owner>> /\ asleep' \subseteq asleep
    BY <1>5 DEF Exits
  <2>2. \/ t = 1 /\ Pc(1) = 13
        \/ t = 2 /\ Pc(2) = 9
        \/ t \in {3, 4} /\ Pc(t) = 3
    BY <1>2, <2>1 DEF ThreadSemCalls
  <2>3. Pc(t) > 0 /\ task[t].space = t
    BY <1>1, <2>2 DEF ThreadSemInv
  <2>4. \A u \in {1, 2, 3, 4} : Pc(u) > 0 /\ task[u].space = task[t].space <=> u = t
    BY <1>1, <2>3 DEF ThreadSemInv
  <2>5. Length(demo, t) + 1 = Pc(t) + 1
    BY <1>2, <2>1, <2>2
  <2>6. Goes(t, Pc(t) + 1)
    BY <1>1, <1>5, <2>4, <2>5 DEF Exits, Goes
  <2>11. FourGo(t, Pc(t) + 1)
    BY <1>1, <2>6, GoesFour
  <2>7. CASE t = 1 /\ Pc(1) = 13
    BY <2>1, <2>11, <2>7 DEF ThreadSemInv, FourGo, Pc
  <2>8. CASE t = 2 /\ Pc(2) = 9
    BY <2>1, <2>11, <2>8 DEF ThreadSemInv, FourGo, Pc
  <2>9. CASE t = 3 /\ Pc(3) = 3
    BY <2>1, <2>11, <2>9 DEF ThreadSemInv, FourGo, Pc
  <2>10. CASE t = 4 /\ Pc(4) = 3
    BY <2>1, <2>11, <2>10 DEF ThreadSemInv, FourGo, Pc
  <2> QED BY <2>2, <2>7, <2>8, <2>9, <2>10
<1>6. ASSUME NEW t \in DOMAIN task, Inits(t) PROVE ThreadSemInv'
  <2>1. /\ Calls(t, {"sem_init", "sem_open"}) /\ Goes(t, Pc(t) + 1)
        /\ gone' = gone \ {Here(t).on} /\ UNCHANGED <<owner, asleep>>
    BY <1>6 DEF Inits
  <2>2. gone' \subseteq gone /\ UNCHANGED <<owner, asleep>> /\ FourGo(t, Pc(t) + 1)
    BY <1>1, <2>1, GoesFour
  <2>3. \/ t = 1 /\ Pc(1) = 1
        \/ t = 1 /\ Pc(1) = 7 /\ ~("/posix_sem" \in gone')
        \/ t = 2 /\ Pc(2) = 3
    BY <1>2, <2>1 DEF ThreadSemCalls
  <2>4. CASE t = 1 /\ Pc(1) = 1
    BY <2>2, <2>4 DEF ThreadSemInv, FourGo, Pc
  <2>5. CASE t = 1 /\ Pc(1) = 7 /\ ~("/posix_sem" \in gone')
    BY <2>2, <2>5 DEF ThreadSemInv, FourGo, Pc
  <2>6. CASE t = 2 /\ Pc(2) = 3
    BY <2>2, <2>6 DEF ThreadSemInv, FourGo, Pc
  <2> QED BY <2>3, <2>4, <2>5, <2>6
<1>7. ASSUME NEW t \in DOMAIN task, Destroys(t) PROVE ThreadSemInv'
  <2>1. /\ Calls(t, {"destroy"}) /\ Goes(t, Pc(t) + 1)
        /\ gone' = gone \cup {Here(t).on} /\ UNCHANGED <<owner, asleep>>
    BY <1>7 DEF Destroys
  <2>2. /\ \/ t = 1 /\ Pc(1) = 6 /\ Here(t).on = "semfile"
           \/ t = 1 /\ Pc(1) = 12 /\ Here(t).on = "/posix_sem"
           \/ t = 2 /\ Pc(2) = 8 /\ Here(t).on = "/posix_sem"
    BY <1>2, <2>1 DEF ThreadSemCalls
  <2>3. /\ gone' \subseteq {"semfile", "/posix_sem"}
        /\ Here(t).on = "semfile" => ("/posix_sem" \in gone' => "/posix_sem" \in gone)
        /\ Here(t).on = "/posix_sem" => ("semfile" \in gone' => "semfile" \in gone)
    BY <2>1, <2>2 DEF ThreadSemInv
  <2>4. FourGo(t, Pc(t) + 1) /\ UNCHANGED <<owner, asleep>>
    BY <1>1, <2>1, GoesFour
  <2>5. CASE t = 1 /\ Pc(1) = 6 /\ Here(t).on = "semfile"
    BY <2>3, <2>4, <2>5 DEF ThreadSemInv, FourGo, Pc
  <2>6. CASE t = 1 /\ Pc(1) = 12 /\ Here(t).on = "/posix_sem"
    BY <2>3, <2>4, <2>6 DEF ThreadSemInv, FourGo, Pc
  <2>7. CASE t = 2 /\ Pc(2) = 8 /\ Here(t).on = "/posix_sem"
    BY <2>3, <2>4, <2>7 DEF ThreadSemInv, FourGo, Pc
  <2> QED BY <2>2, <2>5, <2>6, <2>7
<1>8. ASSUME NEW t \in DOMAIN task, Passes(t) PROVE ThreadSemInv'
  <2>1. /\ Calls(t, PlainCalls) /\ Goes(t, Pc(t) + 1)
        /\ asleep' \subseteq asleep /\ UNCHANGED <<gone, owner>>
    BY <1>8 DEF Passes
  <2>2. Here(t).call \in {"print", "sem_post", "sem_wait"}
    BY <1>2, <2>1 DEF PlainCalls, ThreadSemCalls
  <2>3. \/ t = 1 /\ Pc(1) \in {3, 4, 9, 10}
        \/ t = 2 /\ Pc(2) \in {1, 2, 5, 6}
        \/ t \in {3, 4} /\ Pc(t) \in {1, 2}
    BY <1>2, <2>1, <2>2 DEF ThreadSemCalls
  <2>8. FourGo(t, Pc(t) + 1) /\ asleep' \subseteq asleep /\ UNCHANGED <<gone, owner>>
    BY <1>1, <2>1, GoesFour
  <2>4. CASE t = 1 /\ Pc(1) \in {3, 4, 9, 10}
    BY <2>8, <2>4 DEF ThreadSemInv, FourGo, Pc
  <2>5. CASE t = 2 /\ Pc(2) \in {1, 2, 5, 6}
    BY <2>8, <2>5 DEF ThreadSemInv, FourGo, Pc
  <2>6. CASE t = 3 /\ Pc(3) \in {1, 2}
    BY <2>8, <2>6 DEF ThreadSemInv, FourGo, Pc
  <2>7. CASE t = 4 /\ Pc(4) \in {1, 2}
    BY <2>8, <2>7 DEF ThreadSemInv, FourGo, Pc
  <2> QED BY <2>3, <2>4, <2>5, <2>6, <2>7
<1>9. ASSUME NEW t \in DOMAIN task, Locks(t) \/ Unlocks(t) \/ Sleeps(t) \/ Jumps(t) PROVE FALSE
  <2>1. Calls(t, {"lock", "unlock", "sleep", "jump", "skipIf"})
    BY <1>9 DEF Locks, Unlocks, Sleeps, Jumps, Calls
  <2> QED BY <1>2, <2>1 DEF ThreadSemCalls
<1>10. ASSUME Stirs PROVE ThreadSemInv'
  <2>1. /\ task'[1].pc = Pc(1) /\ task'[2].pc = Pc(2) /\ task'[3].pc = Pc(3)
        /\ task'[4].pc = Pc(4) /\ \A u \in {1, 2, 3, 4} : task'[u].space = task[u].space
    BY <1>1, <1>10 DEF Stirs, Stand, Pc
  <2>2. asleep' \subseteq asleep /\ UNCHANGED <<gone, owner>>
    BY <1>10 DEF Stirs
  <2> QED BY <2>1, <2>2 DEF ThreadSemInv, Pc
<1> QED BY <1>3, <1>4, <1>5, <1>6, <1>7, <1>8, <1>9, <1>10, MachineSteps

LEMMA ThreadSemSafe ==
    ASSUME demo = "thread_sem", TasksInv, ThreadSemInv
    PROVE  NothingUsedAfterDestroy
<1>1. DOMAIN task = {1, 2, 3, 4} /\ \A t \in {1, 2, 3, 4} : Pc(t) \in Nat
  BY threadSemInstr DEF TasksInv, Members, ThreadSemInv
<1>2. ASSUME NEW t \in DOMAIN task, Running(t), "on" \in DOMAIN M!Ins(t), M!Ins(t).on \in gone
      PROVE  M!Ins(t).call = "sem_open"
  <2>1. M!Ins(t) = Instr("thread_sem", t, Pc(t)) /\ ThreadSemCalls(t, Pc(t), M!Ins(t))
    BY <1>1, <1>2, threadSemCalls, threadSemInstr DEF Running, M!Ins, Pc, Instr, Length
  <2> DEFINE i == M!Ins(t)
             k == Pc(t)
  <2>2. \/ i.on = "semfile" /\ t = 1 /\ k \in {1, 4, 6}
        \/ i.on = "semfile" /\ t = 2 /\ k = 1
        \/ /\ i.on = "/posix_sem"
           /\ \/ t = 1 /\ k \in {10, 12}
              \/ t = 1 /\ k = 7 /\ i.call = "sem_open"
              \/ t = 2 /\ k \in {3, 6, 8}
              \/ t \in {3, 4} /\ k = 1
    BY <1>2, <2>1 DEF ThreadSemCalls
  <2> HIDE DEF i
  <2>3. i.on \in gone
    BY <1>2 DEF i
  <2> QED BY <1>1, <2>2, <2>3 DEF i, ThreadSemInv
<1>3. \A o \in gone : M!OwnerOf(o).task = 0 /\ \A z \in asleep : z.on # o
  BY DEF ThreadSemInv, M!OwnerOf, M!Value, M!Nobody
<1> QED BY <1>2, <1>3 DEF NothingUsedAfterDestroy

-----------------------------------------------------------------------------
(* In 1.thread_cond.c the consumers never end, so that main, which joins them, *)
(* does not come to its calls of destroy.                                       *)

LEMMA crowdRead ==
    ASSUME NEW n \in Nat, NEW m, m = n + 1
    PROVE  /\ Program(createAll(2, m)) /\ Size(createAll(2, m)) = n
           /\ \A k \in 1..n : createAll(2, m)[k] = [call |-> "create", task |-> k + 1]
           /\ Program(joinAll(2, m)) /\ Size(joinAll(2, m)) = n
           /\ \A k \in 1..n : joinAll(2, m)[k] = [call |-> "join", task |-> k + 1]
<1>1. m + 1 - 2 = n
  OBVIOUS
<1>2. ASSUME NEW f, f = [k \in 1..n |-> f[k]], NEW i, \A k \in 1..n : Single(f[k], i[k])
      PROVE  /\ Program(FlattenSeq(f)) /\ Size(FlattenSeq(f)) = n
             /\ \A k \in 1..n : FlattenSeq(f)[k] = i[k]
  <2>1. \A k \in 1..n : Uses(f[k], AllCalls) /\ Len(f[k]) = 1 /\ f[k][1] = i[k]
    BY <1>2 DEF Single, Program, Size
  <2>2. Uses(FlattenSeq(f), AllCalls) /\ Spaced(FlattenSeq(f), f, 1, n)
    BY <1>2, <2>1, FlattenUses, EqualRounds
  <2>3. ASSUME NEW k \in 1..n PROVE FlattenSeq(f)[k] = f[k][1]
    <3>1. (k - 1) * 1 + 1 = k /\ 1 \in 1..1
      OBVIOUS
    <3>2. FlattenSeq(f)[(k - 1) * 1 + 1] = f[k][1]
      BY <2>2, <3>1 DEF Spaced
    <3> QED BY <3>1, <3>2
  <2> QED BY <2>1, <2>2, <2>3 DEF Program, Size, Spaced
<1>3. /\ Program(createAll(2, m)) /\ Size(createAll(2, m)) = n
      /\ \A k \in 1..n : createAll(2, m)[k] = [call |-> "create", task |-> k + 1]
  <2> DEFINE f == [k \in 1..n |-> create(2 + k - 1)]
  <2>1. createAll(2, m) = FlattenSeq(f)
    BY <1>1 DEF createAll
  <2>2. f = [k \in 1..n |-> f[k]]
    OBVIOUS
  <2> DEFINE i == [k \in 1..n |-> [call |-> "create", task |-> k + 1]]
  <2>3. \A k \in 1..n : Single(f[k], i[k])
    <3>1. \A k \in 1..n : 2 + k - 1 = k + 1
      OBVIOUS
    <3> QED BY <3>1, Singles
  <2>4. \A k \in 1..n : i[k] = [call |-> "create", task |-> k + 1]
    OBVIOUS
  <2> HIDE DEF f, i
  <2>5. /\ Program(FlattenSeq(f)) /\ Size(FlattenSeq(f)) = n
        /\ \A k \in 1..n : FlattenSeq(f)[k] = i[k]
    BY <1>2, <2>2, <2>3
  <2> QED BY <2>1, <2>4, <2>5
<1>4. /\ Program(joinAll(2, m)) /\ Size(joinAll(2, m)) = n
      /\ \A k \in 1..n : joinAll(2, m)[k] = [call |-> "join", task |-> k + 1]
  <2> DEFINE f == [k \in 1..n |-> join(2 + k - 1)]
  <2>1. joinAll(2, m) = FlattenSeq(f)
    BY <1>1 DEF joinAll
  <2>2. f = [k \in 1..n |-> f[k]]
    OBVIOUS
  <2> DEFINE i == [k \in 1..n |-> [call |-> "join", task |-> k + 1]]
  <2>3. \A k \in 1..n : Single(f[k], i[k])
    <3>1. \A k \in 1..n : 2 + k - 1 = k + 1
      OBVIOUS
    <3> QED BY <3>1, Singles
  <2>4. \A k \in 1..n : i[k] = [call |-> "join", task |-> k + 1]
    OBVIOUS
  <2> HIDE DEF f, i
  <2>5. /\ Program(FlattenSeq(f)) /\ Size(FlattenSeq(f)) = n
        /\ \A k \in 1..n : FlattenSeq(f)[k] = i[k]
    BY <1>2, <2>2, <2>3
  <2> QED BY <2>1, <2>4, <2>5
<1> QED BY <1>3, <1>4

LEMMA consumerRead ==
    LET p == cond_consumer IN
    /\ Size(p) = 12
    /\ p[1] = [call |-> "lock", on |-> "g_mutex"]
    /\ p[2] = [call |-> "load", var |-> "share_variable"]
    /\ p[3] = [call |-> "skipIf", val |-> 0, by |-> 1]
    /\ p[4] = [call |-> "jump", by |-> 4]
    /\ p[5].call = "sleep"
    /\ p[6] = [call |-> "lock", on |-> "g_mutex"]
    /\ p[7] = [call |-> "jump", by |-> -5]
    /\ p[8] = [call |-> "printVar", tag |-> "consume", var |-> "share_variable"]
    /\ p[9] = [call |-> "load", var |-> "share_variable"]
    /\ p[10] = [call |-> "storeReg", var |-> "share_variable", val |-> -1]
    /\ p[11] = [call |-> "unlock", on |-> "g_mutex"]
    /\ p[12] = [call |-> "jump", by |-> -11]
<1> DEFINE i == [call |-> "sleep", on |-> "g_cond", mutex |-> "g_mutex", timed |-> FALSE]
           sleep == <<i>>
           wait_ == Then(sleep, lock("g_mutex"))
           increase_ == Then(load("share_variable"), storeReg("share_variable", -1))
           a == Then(Then(Then(lock("g_mutex"), load("share_variable")), skipIf(0, 1)), jump(4))
           b == Then(a, wait_)
           c == Then(Then(b, jump(-5)), printVar("consume", "share_variable"))
           e == Then(c, increase_)
           body == Then(e, unlock("g_mutex"))
<1>1. cond_consumer = Then(body, jump(-Size(body)))
  BY DEF cond_consumer, Forever, cond_wait, increase, Then, Size
<1>2. Single(sleep, i)
  <2>1. i.call = "sleep"
    OBVIOUS
  <2> HIDE DEF i
  <2>2. i.call \in AllCalls
    BY <2>1 DEF AllCalls, Tame
  <2> QED BY <2>2, SingleCall
<1>3. /\ Program(wait_) /\ Size(wait_) = 2 /\ wait_[1].call = "sleep"
      /\ wait_[2] = [call |-> "lock", on |-> "g_mutex"]
  <2>1. i.call = "sleep"
    OBVIOUS
  <2> HIDE DEF i, sleep
  <2> QED BY <1>2, <2>1, Singles, ThenOne DEF Single
<1>4. /\ Program(increase_) /\ Size(increase_) = 2
      /\ increase_[1] = [call |-> "load", var |-> "share_variable"]
      /\ increase_[2] = [call |-> "storeReg", var |-> "share_variable", val |-> -1]
  BY MoreSingles, ThenOne DEF Single
<1>5. /\ Program(a) /\ Size(a) = 4
      /\ a[1] = [call |-> "lock", on |-> "g_mutex"]
      /\ a[2] = [call |-> "load", var |-> "share_variable"]
      /\ a[3] = [call |-> "skipIf", val |-> 0, by |-> 1]
      /\ a[4] = [call |-> "jump", by |-> 4]
  BY Singles, MoreSingles, ThenOne DEF Single
<1> HIDE DEF i, sleep, wait_, increase_, a
<1>6. /\ Program(b) /\ Size(b) = 6 /\ \A k \in 1..4 : b[k] = a[k]
      /\ b[5] = wait_[1] /\ b[6] = wait_[2]
  <2>1. /\ Program(b) /\ Size(b) = 6 /\ \A k \in 1..4 : b[k] = a[k]
        /\ \A k \in 1..2 : b[4 + k] = wait_[k]
    BY <1>3, <1>5, ThenMore
  <2> QED BY <2>1
<1> HIDE DEF b
<1>7. /\ Program(c) /\ Size(c) = 8 /\ \A k \in 1..6 : c[k] = b[k]
      /\ c[7] = [call |-> "jump", by |-> -5]
      /\ c[8] = [call |-> "printVar", tag |-> "consume", var |-> "share_variable"]
  <2> DEFINE r == Then(b, jump(-5))
             l == printVar("consume", "share_variable")
  <2>1. Single(jump(-5), [call |-> "jump", by |-> -5])
    BY MoreSingles
  <2>2. Single(l, [call |-> "printVar", tag |-> "consume", var |-> "share_variable"])
    BY MoreSingles
  <2>3. /\ Program(r) /\ Size(r) = 7 /\ \A k \in 1..6 : r[k] = b[k]
        /\ r[7] = [call |-> "jump", by |-> -5]
    BY <1>6, <2>1, ThenOne
  <2>4. c = Then(r, l)
    OBVIOUS
  <2> HIDE DEF r, l, c
  <2>5. /\ Program(c) /\ Size(c) = 8 /\ \A k \in 1..7 : c[k] = r[k]
        /\ c[8] = [call |-> "printVar", tag |-> "consume", var |-> "share_variable"]
    BY <2>2, <2>3, <2>4, ThenOne
  <2> QED BY <2>3, <2>5
<1> HIDE DEF c
<1>8. /\ Program(e) /\ Size(e) = 10 /\ \A k \in 1..8 : e[k] = c[k]
      /\ e[9] = increase_[1] /\ e[10] = increase_[2]
  <2>1. /\ Program(e) /\ Size(e) = 10 /\ \A k \in 1..8 : e[k] = c[k]
        /\ \A k \in 1..2 : e[8 + k] = increase_[k]
    BY <1>4, <1>7, ThenMore
  <2> QED BY <2>1
<1> HIDE DEF e
<1>9. /\ Program(body) /\ Size(body) = 11 /\ \A k \in 1..10 : body[k] = e[k]
      /\ body[11] = [call |-> "unlock", on |-> "g_mutex"]
  <2>1. Single(unlock("g_mutex"), [call |-> "unlock", on |-> "g_mutex"])
    BY Singles
  <2> QED BY <1>8, <2>1, ThenOne
<1> HIDE DEF body
<1>10. /\ Size(cond_consumer) = 12 /\ \A k \in 1..11 : cond_consumer[k] = body[k]
       /\ cond_consumer[12] = [call |-> "jump", by |-> -11]
  <2>1. Single(jump(-11), [call |-> "jump", by |-> -11])
    BY MoreSingles
  <2> QED BY <1>1, <1>9, <2>1, ThenOne
<1>11. /\ \A k \in 1..10 : cond_consumer[k] = e[k]
       /\ \A k \in 1..8 : cond_consumer[k] = c[k]
       /\ \A k \in 1..6 : cond_consumer[k] = b[k]
       /\ \A k \in 1..4 : cond_consumer[k] = a[k]
  BY <1>6, <1>7, <1>8, <1>9, <1>10
<1>12. /\ cond_consumer[1] = a[1] /\ cond_consumer[2] = a[2] /\ cond_consumer[3] = a[3]
       /\ cond_consumer[4] = a[4] /\ cond_consumer[5] = b[5] /\ cond_consumer[6] = b[6]
       /\ cond_consumer[7] = c[7] /\ cond_consumer[8] = c[8] /\ cond_consumer[9] = e[9]
       /\ cond_consumer[10] = e[10] /\ cond_consumer[11] = body[11]
  BY <1>10, <1>11
<1> QED BY <1>3, <1>4, <1>5, <1>6, <1>7, <1>8, <1>9, <1>10, <1>12

\* Main creates and joins; nobody else ends, destroys or starts anything.
ThreadCondShape(d) ==
    /\ {1, 2} \subseteq Members(d)
    /\ Length(d, 2) = 12 /\ \A k : Instr(d, 2, k) = cond_consumer[k]
    /\ \A k \in 1..(Crowd + 1) : Instr(d, 1, k) = [call |-> "create", task |-> k + 1]
    /\ Instr(d, 1, Crowd + 2) = [call |-> "join", task |-> 2]
    /\ \A t \in Others(d) : \A k \in Steps(d, t) :
         Instr(d, t, k).call \notin {"create", "fork", "exit", "destroy"}

\* Calls that neither start nor end anything.
InsideCalls == AllCalls \ {"create", "fork", "exit", "destroy"}

LEMMA producerUse == Uses(cond_producer, InsideCalls)
<1> DEFINE f == [i \in 1..Rounds |->
                   lock("g_mutex") \o increase("share_variable", 1) \o print("produce", 0)
                     \o cond_signal("g_cond") \o unlock("g_mutex")]
<1>1. /\ \A m : Uses(lock(m), InsideCalls) /\ Uses(unlock(m), InsideCalls)
      /\ \A c : Uses(cond_signal(c), InsideCalls)
      /\ \A x, v : /\ Uses(load(x), InsideCalls) /\ Uses(storeReg(x, v), InsideCalls)
                   /\ Uses(print(x, v), InsideCalls)
  BY OneCall DEF InsideCalls, AllCalls, Tame, lock, unlock, cond_signal, load, storeReg, print
<1>2. f = [k \in 1..Rounds |-> f[k]] /\ \A k \in 1..Rounds : Uses(f[k], InsideCalls)
  BY <1>1, BothUse DEF increase
<1> HIDE DEF f
<1>3. Uses(FlattenSeq(f), InsideCalls)
  BY <1>2, FlattenUses, ThreadDemosAssumption
<1> QED BY <1>3 DEF f, cond_producer

LEMMA consumerCalls == \A k \in 1..12 : cond_consumer[k].call \in InsideCalls
<1>1. \A k \in 1..12 : \/ k \in {1, 2, 3} \/ k \in {4, 5, 6} \/ k \in {7, 8, 9}
                       \/ k \in {10, 11, 12}
  OBVIOUS
<1>2. \A k \in {1, 2, 3} : cond_consumer[k].call \in {"lock", "load", "skipIf"}
  BY consumerRead
<1>3. \A k \in {4, 5, 6} : cond_consumer[k].call \in {"jump", "sleep", "lock"}
  BY consumerRead
<1>4. \A k \in {7, 8, 9} : cond_consumer[k].call \in {"jump", "printVar", "load"}
  BY consumerRead
<1>5. \A k \in {10, 11, 12} : cond_consumer[k].call \in {"storeReg", "unlock", "jump"}
  BY consumerRead
<1>6. {"lock", "load", "skipIf", "jump", "sleep", "printVar", "storeReg", "unlock"}
        \subseteq InsideCalls
  BY DEF InsideCalls, AllCalls, Tame
<1> QED BY <1>1, <1>2, <1>3, <1>4, <1>5, <1>6

\* A list of n programs, and one list after another.
Listed(p, S, n) == p \in Seq(S) /\ Len(p) = n /\ n \in Nat
Leads(r, p, n) == \A k \in 1..n : r[k] = p[k]
Follows(r, m, q, n) == \A k \in 1..n : r[m + k] = q[k]

LEMMA ListedThen ==
    ASSUME NEW S, NEW p, NEW q, NEW m, NEW n, Listed(p, S, m), Listed(q, S, n)
    PROVE  /\ Listed(Then(p, q), S, m + n)
           /\ Leads(Then(p, q), p, m) /\ Follows(Then(p, q), m, q, n)
<1>1. p \in Seq(S) /\ q \in Seq(S) /\ Len(p) = m /\ Len(q) = n /\ m \in Nat /\ n \in Nat
  BY DEF Listed
<1>2. p \o q \in Seq(S) /\ Len(p \o q) = m + n
  BY <1>1, ConcatProperties
<1>3. \A k \in 1..m : (p \o q)[k] = p[k]
  BY <1>1, Concatenation
<1>4. \A k \in 1..n : (p \o q)[m + k] = q[k]
  BY <1>1, Concatenation
<1> QED BY <1>1, <1>2, <1>3, <1>4 DEF Listed, Leads, Follows, Then

LEMMA condMainRead ==
    LET p == thread_cond[1] IN
    /\ \A k \in 1..(Crowd + 1) : p[k] = [call |-> "create", task |-> k + 1]
    /\ p[Crowd + 2] = [call |-> "join", task |-> 2]
    /\ DOMAIN thread_cond = 1..(Crowd + 2)
    /\ \A t \in 2..(Crowd + 1) : thread_cond[t] = cond_consumer
    /\ thread_cond[Crowd + 2] = cond_producer
<1> DEFINE a == Then(createAll(2, Crowd + 1), create(Crowd + 2))
           b == Then(a, joinAll(2, Crowd + 2))
           p == Then(Then(Then(b, destroy("g_mutex")), destroy("g_cond")), exit)
           s == <<p>>
           c == [t \in 1..Crowd |-> cond_consumer]
           e == <<cond_producer>>
<1>0. Crowd \in Nat \ {0, 1}
  BY ThreadDemosAssumption
<1>1. thread_cond = (s \o c) \o e
  BY DEF thread_cond, Then
<1>2. /\ Program(a) /\ Size(a) = Crowd + 1
      /\ \A k \in 1..(Crowd + 1) : a[k] = [call |-> "create", task |-> k + 1]
  <2>1. Single(create(Crowd + 2), [call |-> "create", task |-> Crowd + 2])
    BY Singles
  <2>2. /\ Program(createAll(2, Crowd + 1)) /\ Size(createAll(2, Crowd + 1)) = Crowd
        /\ \A k \in 1..Crowd : createAll(2, Crowd + 1)[k] = [call |-> "create", task |-> k + 1]
    BY <1>0, crowdRead
  <2>3. /\ Program(a) /\ Size(a) = Crowd + 1
        /\ \A k \in 1..Crowd : a[k] = createAll(2, Crowd + 1)[k]
        /\ a[Crowd + 1] = [call |-> "create", task |-> Crowd + 2]
    BY <2>1, <2>2, ThenOne
  <2> HIDE DEF a
  <2> QED BY <1>0, <2>2, <2>3
<1> HIDE DEF a
<1>3. /\ Program(b) /\ Size(b) = 2 * Crowd + 2
      /\ \A k \in 1..(Crowd + 1) : b[k] = a[k]
      /\ b[Crowd + 2] = [call |-> "join", task |-> 2]
  <2>1. /\ Program(joinAll(2, Crowd + 2)) /\ Size(joinAll(2, Crowd + 2)) = Crowd + 1
        /\ \A k \in 1..(Crowd + 1) : joinAll(2, Crowd + 2)[k] = [call |-> "join", task |-> k + 1]
    <3>1. Crowd + 1 \in Nat /\ Crowd + 2 = (Crowd + 1) + 1
      BY <1>0
    <3> QED BY <3>1, crowdRead
  <2>2. joinAll(2, Crowd + 2)[1] = [call |-> "join", task |-> 2]
    <3>1. 1 \in 1..(Crowd + 1) /\ 1 + 1 = 2
      BY <1>0
    <3> QED BY <2>1, <3>1
  <2>3. /\ Program(b) /\ Size(b) = (Crowd + 1) + (Crowd + 1)
        /\ \A k \in 1..(Crowd + 1) : b[k] = a[k]
        /\ \A k \in 1..(Crowd + 1) : b[(Crowd + 1) + k] = joinAll(2, Crowd + 2)[k]
    BY <1>2, <2>1, ThenMore
  <2> HIDE DEF b
  <2>4. 1 \in 1..(Crowd + 1) /\ (Crowd + 1) + 1 = Crowd + 2
    BY <1>0
  <2> QED BY <1>0, <2>2, <2>3, <2>4
<1> HIDE DEF b
<1>4. \A k \in 1..(Crowd + 2) : p[k] = b[k]
  <2> DEFINE q == Then(b, destroy("g_mutex"))
             r == Then(q, destroy("g_cond"))
  <2>1. /\ Single(destroy("g_mutex"), [call |-> "destroy", on |-> "g_mutex"])
        /\ Single(destroy("g_cond"), [call |-> "destroy", on |-> "g_cond"])
        /\ Single(exit, [call |-> "exit"])
    BY Singles
  <2>2. Program(q) /\ Size(q) = 2 * Crowd + 3 /\ \A k \in 1..(2 * Crowd + 2) : q[k] = b[k]
    BY <1>0, <1>3, <2>1, ThenOne
  <2> HIDE DEF q
  <2>3. Program(r) /\ Size(r) = 2 * Crowd + 4 /\ \A k \in 1..(2 * Crowd + 3) : r[k] = q[k]
    BY <1>0, <2>1, <2>2, ThenOne
  <2> HIDE DEF r
  <2>4. \A k \in 1..(2 * Crowd + 4) : Then(r, exit)[k] = r[k]
    BY <2>1, <2>3, ThenOne
  <2>5. \A k \in 1..(Crowd + 2) : Then(r, exit)[k] = b[k]
    BY <1>0, <2>2, <2>3, <2>4
  <2> QED BY <2>5 DEF q, r
<1> HIDE DEF p
<1> DEFINE S == {p, cond_consumer, cond_producer}
<1>5. /\ Listed(s, S, 1) /\ s[1] = p
      /\ Listed(c, S, Crowd) /\ \A k \in 1..Crowd : c[k] = cond_consumer
      /\ Listed(e, S, 1) /\ e[1] = cond_producer
  <2>1. s \in Seq(S) /\ Len(s) = 1 /\ s[1] = p
    OBVIOUS
  <2>2. e \in Seq(S) /\ Len(e) = 1 /\ e[1] = cond_producer
    OBVIOUS
  <2>3. c \in Seq(S) /\ Len(c) = Crowd /\ \A k \in 1..Crowd : c[k] = cond_consumer
    BY <1>0
  <2> QED BY <1>0, <2>1, <2>2, <2>3 DEF Listed
<1> HIDE DEF s, c, e, S
<1> DEFINE h == Then(s, c)
<1>6. /\ Listed(h, S, 1 + Crowd) /\ \A k \in 1..1 : h[k] = s[k]
      /\ \A k \in 1..Crowd : h[1 + k] = c[k]
  <2>1. Listed(s, S, 1) /\ Listed(c, S, Crowd)
    BY <1>5
  <2>2. /\ Listed(Then(s, c), S, 1 + Crowd) /\ Leads(Then(s, c), s, 1)
        /\ Follows(Then(s, c), 1, c, Crowd)
    BY <2>1, ListedThen, Zenon
  <2> QED BY <2>2 DEF Leads, Follows
<1> HIDE DEF h
<1>7. /\ Listed(Then(h, e), S, (1 + Crowd) + 1)
      /\ \A k \in 1..(1 + Crowd) : Then(h, e)[k] = h[k]
      /\ \A k \in 1..1 : Then(h, e)[(1 + Crowd) + k] = e[k]
  <2>1. Listed(h, S, 1 + Crowd) /\ Listed(e, S, 1)
    BY <1>5, <1>6
  <2>2. /\ Listed(Then(h, e), S, (1 + Crowd) + 1) /\ Leads(Then(h, e), h, 1 + Crowd)
        /\ Follows(Then(h, e), 1 + Crowd, e, 1)
    BY <2>1, ListedThen, Zenon
  <2> QED BY <2>2 DEF Leads, Follows
<1>8. DOMAIN Then(h, e) = 1..(Crowd + 2)
  BY <1>0, <1>7 DEF Listed
<1>9. thread_cond = Then(h, e)
  BY <1>1 DEF h, Then
<1>10. Then(h, e)[1] = p
  BY <1>0, <1>5, <1>6, <1>7
<1>11. /\ \A t \in 2..(Crowd + 1) : Then(h, e)[t] = cond_consumer
       /\ Then(h, e)[Crowd + 2] = cond_producer
  <2>1. ASSUME NEW t \in 2..(Crowd + 1) PROVE Then(h, e)[t] = cond_consumer
    <3>1. t - 1 \in 1..Crowd /\ t \in 1..(1 + Crowd) /\ 1 + (t - 1) = t
      BY <1>0
    <3> QED BY <1>5, <1>6, <1>7, <3>1
  <2>2. 1 \in 1..1 /\ (1 + Crowd) + 1 = Crowd + 2
    BY <1>0
  <2> QED BY <1>5, <1>7, <2>1, <2>2
<1>12. \A k \in 1..(Crowd + 1) : p[k] = [call |-> "create", task |-> k + 1]
  <2> SUFFICES ASSUME NEW k \in 1..(Crowd + 1) PROVE p[k] = [call |-> "create", task |-> k + 1]
    OBVIOUS
  <2>1. k \in 1..(Crowd + 2)
    BY <1>0
  <2>2. p[k] = a[k]
    BY <1>3, <1>4, <2>1
  <2> QED BY <1>2, <2>2
<1>13. p[Crowd + 2] = [call |-> "join", task |-> 2]
  BY <1>0, <1>3, <1>4
<1> QED BY <1>8, <1>9, <1>10, <1>11, <1>12, <1>13

LEMMA condShape == ThreadCondShape("thread_cond")
<1> DEFINE d == "thread_cond"
<1>1. Programs[d] = thread_cond
  BY DEF Programs
<1>2. Crowd \in Nat \ {0, 1}
  BY ThreadDemosAssumption
<1>3. /\ Members(d) = 1..(Crowd + 2) /\ {1, 2} \subseteq Members(d)
      /\ \A k : Instr(d, 1, k) = thread_cond[1][k]
      /\ \A t \in 2..(Crowd + 1) : Length(d, t) = 12 /\ \A k : Instr(d, t, k) = cond_consumer[k]
      /\ Length(d, Crowd + 2) = Len(cond_producer)
      /\ \A k : Instr(d, Crowd + 2, k) = cond_producer[k]
  <2>1. Members(d) = 1..(Crowd + 2) /\ {1, 2} \subseteq Members(d)
    BY <1>1, <1>2, condMainRead DEF Members
  <2>2. \A k : Instr(d, 1, k) = thread_cond[1][k]
    BY <1>1 DEF Instr
  <2>3. ASSUME NEW t \in 2..(Crowd + 1)
        PROVE  Length(d, t) = 12 /\ \A k : Instr(d, t, k) = cond_consumer[k]
    BY <1>1, condMainRead, consumerRead DEF Length, Instr, Size
  <2>4. /\ Length(d, Crowd + 2) = Len(cond_producer)
        /\ \A k : Instr(d, Crowd + 2, k) = cond_producer[k]
    BY <1>1, condMainRead DEF Length, Instr
  <2> QED BY <2>1, <2>2, <2>3, <2>4
<1> HIDE DEF d
<1>4. ASSUME NEW t \in Others(d), NEW k \in Steps(d, t)
      PROVE  Instr(d, t, k).call \in InsideCalls
  <2>1. t \in 2..(Crowd + 1) \/ t = Crowd + 2
    BY <1>2, <1>3 DEF Others
  <2>2. CASE t \in 2..(Crowd + 1)
    <3>1. Length(d, t) = 12 /\ Instr(d, t, k) = cond_consumer[k]
      BY <1>3, <2>2
    <3> QED BY <3>1, consumerCalls DEF Steps
  <2>3. CASE t = Crowd + 2
    BY <1>3, <2>3, producerUse DEF Steps, Uses
  <2> QED BY <2>1, <2>2, <2>3
<1>5. 2 \in 2..(Crowd + 1)
  BY <1>2
<1>6. \A t \in Others(d) : \A k \in Steps(d, t) :
        Instr(d, t, k).call \notin {"create", "fork", "exit", "destroy"}
  BY <1>4 DEF InsideCalls
<1> QED BY <1>3, <1>5, <1>6, condMainRead DEF ThreadCondShape, d

ThreadCondInv == Pc(1) \in 1..(Crowd + 2) /\ Pc(2) \in 0..12 /\ gone = {}

LEMMA ThreadCondStart ==
    ASSUME demo = "thread_cond", M!MachineInit
    PROVE  ThreadCondInv
<1>1. /\ task = [t \in Members(demo) |-> IF t = 1 THEN M!Ready(1) ELSE [M!Ready(0) EXCEPT !.pc = 0]]
      /\ gone = {}
  BY DEF M!MachineInit, M!Main, Members
<1>2. 1 \in Members(demo) /\ 2 \in Members(demo)
  BY condShape DEF ThreadCondShape
<1>3. Pc(1) = 1 /\ Pc(2) = 0
  BY <1>1, <1>2 DEF M!Ready, Pc
<1> QED BY <1>1, <1>3, ThreadDemosAssumption DEF ThreadCondInv

\* Where the consumer that is task 2 goes next.
LEMMA consumerGoes ==
    ASSUME demo = "thread_cond", Pc(2) \in 1..12
    PROVE  /\ Pc(2) + 1 \in 1..13 /\ (Pc(2) = 12 => Here(2).call = "jump")
           /\ Here(2).call = "jump" => Pc(2) + Here(2).by \in 1..12
           /\ Here(2).call = "skipIf" => Pc(2) = 3 /\ Here(2).by = 1
<1>1. Here(2) = cond_consumer[Pc(2)]
  BY condShape DEF ThreadCondShape, Here
<1> DEFINE k == Pc(2)
<1>2. \/ k \in {1, 2, 3} \/ k \in {4, 5, 6} \/ k \in {7, 8, 9} \/ k \in {10, 11, 12}
  OBVIOUS
<1>3. CASE k \in {1, 2, 3}
  BY <1>1, <1>3, consumerRead
<1>4. CASE k \in {4, 5, 6}
  BY <1>1, <1>4, consumerRead
<1>5. CASE k \in {7, 8, 9}
  BY <1>1, <1>5, consumerRead
<1>6. CASE k \in {10, 11, 12}
  BY <1>1, <1>6, consumerRead
<1> QED BY <1>2, <1>3, <1>4, <1>5, <1>6

LEMMA ThreadCondStep ==
    ASSUME demo = "thread_cond", TasksInv, ThreadCondInv, M!MachineNext
    PROVE  ThreadCondInv'
<1> DEFINE d == "thread_cond"
<1>1. /\ DOMAIN task = Members(d) /\ 1 \in DOMAIN task /\ 2 \in DOMAIN task
      /\ Crowd \in Nat \ {0, 1} /\ Pc(1) \in 1..(Crowd + 2) /\ Pc(2) \in 0..12
  BY condShape, ThreadDemosAssumption DEF TasksInv, Members, ThreadCondShape, ThreadCondInv
<1>2. ASSUME NEW t \in DOMAIN task, NEW calls, Calls(t, calls)
      PROVE  /\ Here(t).call \in calls
             /\ t = 1 => \/ Pc(1) \in 1..(Crowd + 1) /\ Here(1) = [call |-> "create", task |-> Pc(1) + 1]
                         \/ Pc(1) = Crowd + 2 /\ Here(1) = [call |-> "join", task |-> 2]
             /\ t = 2 => Pc(2) \in 1..12
             /\ t # 1 => Here(t).call \notin {"create", "fork", "exit", "destroy"}
  <2>1. Here(t).call \in calls /\ Pc(t) \in Steps(d, t) /\ Here(t) = Instr(d, t, Pc(t))
    BY <1>2 DEF Calls, Steps, Here
  <2>2. CASE t = 1
    <3>1. Pc(1) \in 1..(Crowd + 1) \/ Pc(1) = Crowd + 2
      BY <1>1
    <3> QED BY <2>1, <2>2, <3>1, condShape DEF ThreadCondShape
  <2>3. CASE t # 1
    <3>1. t \in Others(d)
      BY <1>1, <2>3 DEF Others
    <3> QED BY <1>1, <2>1, <2>3, <3>1, condShape DEF ThreadCondShape, Steps
  <2> QED BY <2>1, <2>2, <2>3
<1>3. ASSUME NEW t \in DOMAIN task, Begins(t) PROVE ThreadCondInv'
  <2>1. Calls(t, {"create", "fork"})
    BY <1>3 DEF Begins
  <2>2. t = 1 /\ Pc(1) \in 1..(Crowd + 1) /\ Here(1).task = Pc(1) + 1
    BY <1>2, <2>1
  <2>3. /\ task'[1].pc = Pc(1) + 1 /\ task'[2].pc \in {1, Pc(2)} /\ gone' = gone
    BY <1>1, <1>3, <2>2 DEF Begins, Pc
  <2> QED BY <1>1, <2>2, <2>3 DEF ThreadCondInv, Pc
<1>4. ASSUME NEW t \in DOMAIN task, Exits(t) \/ Destroys(t) PROVE FALSE
  <2>1. Calls(t, {"exit", "destroy"})
    BY <1>4 DEF Exits, Destroys, Calls
  <2>2. Here(t).call \in {"exit", "destroy"}
    BY <1>2, <2>1
  <2> QED BY <1>2, <2>1, <2>2
<1>5. ASSUME NEW t \in DOMAIN task,
             Joins(t) \/ Locks(t) \/ Unlocks(t) \/ Sleeps(t) \/ Inits(t) \/ Jumps(t) \/ Passes(t)
      PROVE  ThreadCondInv'
  <2>1. gone' = {}
    BY <1>5 DEF ThreadCondInv, Joins, Locks, Unlocks, Sleeps, Inits, Jumps, Passes
  <2>2. CASE t = 1
    <3>1. Calls(1, {"join"}) /\ Pc(Here(1).task) > Length(d, Here(1).task)
      <4>1. Calls(1, {"join", "lock", "unlock", "sleep", "sem_init", "sem_open", "jump", "skipIf"}
                       \cup PlainCalls)
        BY <1>5, <2>2 DEF Joins, Locks, Unlocks, Sleeps, Inits, Jumps, Passes, Calls
      <4>2. Here(1).call = "join"
        BY <1>1, <1>2, <4>1 DEF PlainCalls
      <4> QED BY <1>5, <2>2, <4>2 DEF Joins, Locks, Unlocks, Sleeps, Inits, Jumps, Passes, Calls,
                                       PlainCalls
    <3>2. Here(1).task = 2
      BY <1>1, <1>2, <3>1
    <3> QED BY <1>1, <3>1, <3>2, condShape DEF ThreadCondShape
  <2>3. CASE t = 2
    <3>1. \E calls : Calls(2, calls)
      BY <1>5, <2>3 DEF Joins, Locks, Unlocks, Sleeps, Inits, Jumps, Passes
    <3>2. Pc(2) \in 1..12
      BY <1>1, <1>2, <3>1
    <3>3. \/ Goes(2, Pc(2) + 1) /\ Here(2).call # "jump"
          \/ Goes(2, Pc(2) + Here(2).by) /\ Here(2).call = "jump"
          \/ Goes(2, Pc(2) + 1 + Here(2).by) /\ Here(2).call = "skipIf"
      BY <1>5, <2>3 DEF Joins, Locks, Unlocks, Sleeps, Inits, Jumps, Passes, Calls, PlainCalls
    <3>4. /\ Pc(2) + 1 \in 1..13 /\ (Pc(2) = 12 => Here(2).call = "jump")
          /\ Here(2).call = "jump" => Pc(2) + Here(2).by \in 1..12
          /\ Here(2).call = "skipIf" => Pc(2) = 3 /\ Here(2).by = 1
      BY <3>2, consumerGoes
    <3>5. \E place \in 1..12 : Goes(2, place)
      <4>1. CASE Goes(2, Pc(2) + 1) /\ Here(2).call # "jump"
        <5>1. Pc(2) + 1 \in 1..12
          BY <3>2, <3>4, <4>1
        <5> QED BY <4>1, <5>1
      <4>2. CASE Goes(2, Pc(2) + Here(2).by) /\ Here(2).call = "jump"
        BY <3>4, <4>2
      <4>3. CASE Goes(2, Pc(2) + 1 + Here(2).by) /\ Here(2).call = "skipIf"
        <5>1. Pc(2) + 1 + Here(2).by \in 1..12
          BY <3>4, <4>3
        <5> QED BY <4>3, <5>1
      <4> QED BY <3>3, <4>1, <4>2, <4>3
    <3>6. PICK place \in 1..12 : Goes(2, place)
      BY <3>5
    <3>7. task'[1].pc = Pc(1) /\ task'[2].pc = place
      BY <1>1, <3>6 DEF Goes, Pc
    <3> QED BY <1>1, <2>1, <3>6, <3>7 DEF ThreadCondInv, Pc
  <2>4. CASE t \notin {1, 2}
    <3>1. \E place : Goes(t, place)
      BY <1>5 DEF Joins, Locks, Unlocks, Sleeps, Inits, Jumps, Passes
    <3>2. task'[1].pc = Pc(1) /\ task'[2].pc = Pc(2)
      BY <1>1, <2>4, <3>1 DEF Goes, Pc
    <3> QED BY <1>1, <2>1, <3>2 DEF ThreadCondInv, Pc
  <2> QED BY <2>2, <2>3, <2>4
<1>6. ASSUME Stirs PROVE ThreadCondInv'
  BY <1>1, <1>6 DEF ThreadCondInv, Stirs, Stand, Pc
<1> QED BY <1>3, <1>4, <1>5, <1>6, MachineSteps

-----------------------------------------------------------------------------
(***************************************************************************)
(* All demos together.  In the others nothing is ever destroyed.           *)
(***************************************************************************)
ForkJoinDemos == Destroying \ {"thread_sem", "thread_cond"}

\* What keeps the destroyed objects from being used, by demo.
DemoInv ==
    /\ demo \in ForkJoinDemos => ForkJoinInv(demo)
    /\ demo = "thread_sem" => ThreadSemInv
    /\ demo = "thread_cond" => ThreadCondInv
    /\ demo \notin Destroying => gone = {}
DestroyedInv ==
    \/ demo \in OwnModule /\ task = <<>> /\ gone = {}
    \/ TasksInv /\ DemoInv

LEMMA ForkJoins == \A d \in ForkJoinDemos : ForkJoin(d)
BY shmForkJoin, systemForkJoin, waitTimeForkJoin, semaphoreForkJoin, printValForkJoin,
   turnsForkJoin
DEF ForkJoinDemos, Destroying

LEMMA DestroyedStart == DemosInit => DestroyedInv
<1> SUFFICES ASSUME DemosInit PROVE DestroyedInv
  OBVIOUS
<1>1. M!MachineInit \/ (demo \in OwnModule /\ task = <<>> /\ gone = {})
  BY DEF DemosInit
<1>2. ASSUME M!MachineInit PROVE TasksInv /\ DemoInv
  <2>1. TasksInv
    BY <1>2 DEF M!MachineInit, TasksInv, TaskRecord, M!Ready
  <2>2. demo \in ForkJoinDemos => ForkJoinInv(demo)
    BY <1>2, ForkJoins, ForkJoinStart
  <2>3. gone = {}
    BY <1>2 DEF M!MachineInit
  <2> QED BY <1>2, <2>1, <2>2, <2>3, ThreadSemStart, ThreadCondStart DEF DemoInv
<1> QED BY <1>1, <1>2 DEF DestroyedInv

\* Whoever destroys nothing leaves nothing destroyed.
LEMMA TameStep ==
    ASSUME TasksInv, demo \notin Destroying, gone = {}, M!MachineNext
    PROVE  gone' = {}
<1>1. TamePrograms(Programs[demo])
  BY NothingDestroyed DEF TasksInv
<1>2. ASSUME NEW t \in DOMAIN task, Destroys(t) PROVE FALSE
  <2>1. Here(t).call = "destroy" /\ Pc(t) \in 1..Length(demo, t)
    BY <1>2 DEF Destroys, Calls
  <2>2. t \in DOMAIN Programs[demo]
    BY DEF TasksInv
  <2>3. Uses(Programs[demo][t], Tame)
    BY <1>1, <2>2 DEF TamePrograms
  <2>4. Here(t).call \in Tame
    BY <2>1, <2>3 DEF Uses, Here, Instr, Length
  <2> QED BY <2>1, <2>4 DEF Tame
<1>3. ASSUME NEW t \in DOMAIN task,
             \/ Begins(t) \/ Joins(t) \/ Exits(t) \/ Locks(t) \/ Unlocks(t) \/ Sleeps(t)
             \/ Inits(t) \/ Jumps(t) \/ Passes(t)
      PROVE  gone' = {}
  BY <1>3 DEF Begins, Joins, Exits, Locks, Unlocks, Sleeps, Inits, Jumps, Passes
<1>4. Stirs \/ Restarts => gone' = {}
  BY DEF Stirs, Restarts
<1> QED BY <1>2, <1>3, <1>4, MachineSteps

LEMMA DestroyedStands ==
    ASSUME DestroyedInv, UNCHANGED machineVars
    PROVE  DestroyedInv'
<1>1. UNCHANGED <<demo, task, owner, asleep, gone>>
  BY DEF machineVars
<1>2. TasksInv => TasksInv'
  BY <1>1 DEF TasksInv, TaskRecord
<1>3. \A d : ForkJoinInv(d) => ForkJoinInv(d)'
  <2> SUFFICES ASSUME NEW d, ForkJoinInv(d) PROVE ForkJoinInv(d)'
    OBVIOUS
  <2>1. PcInv(d)' /\ SpacesInv(d)' /\ JoinedInv(d)' /\ GoneInv(d)'
    BY <1>1 DEF ForkJoinInv, PcInv, SpacesInv, JoinedInv, GoneInv, Pc
  <2>2. LockInv(d)' /\ SleepInv(d)' /\ AloneInv(d)' /\ FreeInv(d)'
    BY <1>1 DEF ForkJoinInv, LockInv, Holding, SleepInv, AloneInv, FreeInv, M!OwnerOf, M!Value,
                Pc
  <2> QED BY <2>1, <2>2 DEF ForkJoinInv
<1>4. ThreadSemInv => ThreadSemInv'
  BY <1>1 DEF ThreadSemInv, Pc
<1>5. ThreadCondInv => ThreadCondInv'
  BY <1>1 DEF ThreadCondInv, Pc
<1> QED BY <1>1, <1>2, <1>3, <1>4, <1>5 DEF DestroyedInv, DemoInv

LEMMA DestroyedStep ==
    ASSUME DestroyedInv, DemosNext
    PROVE  DestroyedInv'
<1>1. UNCHANGED machineVars \/ (demo \notin OwnModule /\ M!MachineNext)
  BY Zenon DEF DemosNext, othersThanRing, othersThanBox, othersThanTree, othersThanConfig,
               othersThanTimers
<1>2. CASE demo \notin OwnModule /\ M!MachineNext
  <2>1. TasksInv /\ DemoInv
    BY <1>2 DEF DestroyedInv
  <2>2. TasksInv' /\ demo' = demo
    BY <1>2, <2>1, MachineSteps
  <2>3. demo \in ForkJoinDemos => ForkJoinInv(demo)'
    <3> SUFFICES ASSUME NEW d \in ForkJoinDemos, demo = d PROVE ForkJoinInv(demo)'
      OBVIOUS
    <3>1. ForkJoinInv(d)'
      BY <1>2, <2>1, ForkJoins, ForkJoinStep DEF DemoInv
    <3> QED BY <2>2, <3>1
  <2>4. demo = "thread_sem" => ThreadSemInv'
    BY <1>2, <2>1, ThreadSemStep DEF DemoInv
  <2>5. demo = "thread_cond" => ThreadCondInv'
    BY <1>2, <2>1, ThreadCondStep DEF DemoInv
  <2>6. demo \notin Destroying => gone' = {}
    BY <1>2, <2>1, TameStep DEF DemoInv
  <2> QED BY <2>2, <2>3, <2>4, <2>5, <2>6 DEF DestroyedInv, DemoInv
<1> QED BY <1>1, <1>2, DestroyedStands

LEMMA DestroyedSafe ==
    ASSUME DestroyedInv
    PROVE  NothingUsedAfterDestroy
<1>1. CASE gone = {}
  BY <1>1 DEF NothingUsedAfterDestroy
<1>2. CASE TasksInv /\ DemoInv
  <2>1. CASE demo \in ForkJoinDemos
    BY <1>2, <2>1, ForkJoins, ForkJoinSafe DEF DemoInv
  <2>2. CASE demo = "thread_sem"
    BY <1>2, <2>2, ThreadSemSafe DEF DemoInv
  <2>3. demo \in ForkJoinDemos \/ demo = "thread_sem" \/ gone = {}
    BY <1>2 DEF DemoInv, ForkJoinDemos, ThreadCondInv
  <2> QED BY <1>1, <2>1, <2>2, <2>3
<1> QED BY <1>1, <1>2 DEF DestroyedInv

\* No demo uses a semaphore, a mutex or a condition variable after it was destroyed,
\* nor destroys a mutex that is locked or a condition on which a thread waits: main
\* joins those who share them first, as before sem_destroy in
\* 3.Thread/4.semaphore/semaphore.c:91 and before sem_unlink in
\* 4.Process/9.semaphore/demo.c:105.
THEOREM NothingUsedAfterDestroyHolds == DemosSpec => []NothingUsedAfterDestroy
<1>1. DemosInit => DestroyedInv
  BY DestroyedStart
<1>2. DestroyedInv /\ [DemosNext]_<<vars, boxVars, treeVars, configVars, timerVars, machineVars>>
        => DestroyedInv'
  <2>1. UNCHANGED <<vars, boxVars, treeVars, configVars, timerVars, machineVars>>
          => UNCHANGED machineVars
    OBVIOUS
  <2> QED BY <2>1, DestroyedStep, DestroyedStands
<1>3. DestroyedInv => NothingUsedAfterDestroy
  BY DestroyedSafe
<1> QED BY <1>1, <1>2, <1>3, PTL DEF DemosSpec
=============================================================================
