----------------------------- MODULE ThreadDemos -----------------------------
(***************************************************************************)
(* The programs of 3.Thread and 8.atomic_ops that are not modelled in a    *)
(* module of their own, as calls of PosixCalls, and what each is to print. *)
(* A demo is the sequence of its tasks' programs, main's first.  A loop    *)
(* runs fewer rounds and fewer threads do the same work than in the code.  *)
(***************************************************************************)
EXTENDS PosixCalls, SequencesExt

CONSTANTS Rounds,       (* how often the loops of the threads run           *)
          Crowd         (* how many threads run the same function           *)

ASSUME ThreadDemosAssumption == Rounds \in Nat \ {0} /\ Crowd \in Nat \ {0, 1}

\* A loop is the concatenation of its rounds.  Main creates the threads first to
\* last, numbered as tasks, and waits for them.
createAll(first, last) == FlattenSeq([k \in 1..(last + 1 - first) |-> create(first + k - 1)])
joinAll(first, last)   == FlattenSeq([k \in 1..(last + 1 - first) |-> join(first + k - 1)])
Run(n) == createAll(2, n + 1) \o joinAll(2, n + 1)

\* pthread_join stores the value that the thread has returned.
joinBoth ==
    join(2) \o storeReg("retval_1", 0) \o join(3) \o storeReg("retval_2", 0)
        \o printVar("retval", "retval_1") \o printVar("retval", "retval_2")

\* What a demo printed: the lines of a task, and the lines of a kind.
By(o, t)     == SelectSeq(o, LAMBDA line : line[1] = t)
Tagged(o, g) == SelectSeq(o, LAMBDA line : line[2] = g)
Values(o)    == [k \in DOMAIN o |-> o[k][3]]
Counting(n)  == [k \in 1..n |-> k]

\* No line comes between the lines enter and leave of a thread.
Undisturbed(o, enter, leave) ==
    \A k \in DOMAIN o :
        /\ o[k][2] = leave => k > 1 /\ o[k - 1][2] = enter /\ o[k - 1][1] = o[k][1]
        /\ o[k][2] = enter /\ k < Len(o) => o[k + 1][2] = leave

-----------------------------------------------------------------------------
(* 2.mutex/1.thread_mutex.c *)

\* Mutant: the lines are printed without the mutex.
printValUnlocked(num) ==
    print("thread", num) \o FlattenSeq([i \in 1..Rounds |-> print("tid", num)])

printVal(num) ==
    lock("m_mutex") \o print("thread", num)
        \o FlattenSeq([i \in 1..Rounds |-> print("tid", num)]) \o unlock("m_mutex")

thread_mutex ==
    << createAll(2, 3) \o joinBoth \o destroy("m_mutex") \o exit,
       printVal(1) \o return(1),
       printVal(2) \o return(2) >>

\* The lines of a call of printVal come together, the return values last
\* (comment at line 70).
thread_mutex_promise(o) ==
    LET call(n) == <<<<n + 1, "thread", n>>>> \o [i \in 1..Rounds |-> <<n + 1, "tid", n>>]
        end == <<<<1, "retval", 1>>, <<1, "retval", 2>>>> IN
    \/ IsPrefix(o, call(1) \o call(2) \o end)
    \/ IsPrefix(o, call(2) \o call(1) \o end)

(* 2.mutex/2.thread_mutex_CXX.cpp; Func3 does with unique_lock what Func1 does. *)
Func1 ==
    lock("g_io_mutex") \o print("Enter", 0) \o print("Leave", 0) \o unlock("g_io_mutex")
Test1 == <<Run(Crowd) \o exit>> \o [t \in 1..Crowd |-> Func1]

\* push_back changes the list in more than one step.
Add == lock("mutex_") \o increase("elements_", 1) \o unlock("mutex_")
AddForTestRecursive == lock("mutex_") \o Add \o unlock("mutex_")
Dump == lock("mutex_") \o printVar("elements", "elements_") \o unlock("mutex_")

Func2 == FlattenSeq([i \in 1..Rounds |-> AddForTestRecursive])
Test2 == <<Run(2) \o Dump \o exit, Func2, Func2>>

Func1_promise(o) == Undisturbed(o, "Enter", "Leave")
Test2_promise(o) == \A k \in DOMAIN o : o[k][3] = 2 * Rounds

-----------------------------------------------------------------------------
(* 3.cond/1.thread_cond.c: one producer, Crowd consumers.  The loops of the *)
(* code never end; here the producer stops after Rounds products.           *)

\* Mutant: if instead of while.
cond_consumerTestsOnce ==
    Forever(lock("g_mutex")
            \o load("share_variable") \o skipIf(0, 1) \o jump(3)
            \o cond_wait("g_cond", "g_mutex")
            \o printVar("consume", "share_variable")
            \o increase("share_variable", -1) \o unlock("g_mutex"))

cond_consumer ==
    Forever(lock("g_mutex")
            \o load("share_variable") \o skipIf(0, 1) \o jump(4)
            \o cond_wait("g_cond", "g_mutex") \o jump(-5)
            \o printVar("consume", "share_variable")
            \o increase("share_variable", -1) \o unlock("g_mutex"))

cond_producer ==
    FlattenSeq([i \in 1..Rounds |->
        lock("g_mutex") \o increase("share_variable", 1) \o print("produce", 0)
            \o cond_signal("g_cond") \o unlock("g_mutex")])

thread_cond ==
    <<createAll(2, Crowd + 1) \o create(Crowd + 2) \o joinAll(2, Crowd + 2)
         \o destroy("g_mutex") \o destroy("g_cond") \o exit>>
        \o [t \in 1..Crowd |-> cond_consumer] \o <<cond_producer>>

\* A consumer consumes only what was produced, each product once.
thread_cond_promise(o) ==
    /\ \A k \in DOMAIN o : o[k][2] = "consume" => o[k][3] > 0
    /\ \A k \in DOMAIN o :
         LET before == SubSeq(o, 1, k) IN
         Len(Tagged(before, "consume")) <= Len(Tagged(before, "produce"))

(* 3.cond/3.thread_cond_wait_time.c *)
thread_cond_wait_time ==
    << create(2) \o lock("g_mutex") \o cond_signal("g_cond") \o unlock("g_mutex")
         \o join(2) \o destroy("g_cond") \o destroy("g_mutex") \o exit,
       lock("g_mutex") \o cond_timedwait("g_cond", "g_mutex") \o unlock("g_mutex")
         \o printReg("ret") >>

(* 4.semaphore/semaphore.c *)
thread_sem ==
    sem_wait("m_sem") \o print("Entered", 0) \o print("Exiting", 0) \o sem_post("m_sem")

\* Mutant: main does not join the threads before it destroys the semaphore.
semaphoreNotJoined ==
    << sem_init("m_sem", 1) \o createAll(2, 3) \o destroy("m_sem") \o exit,
       thread_sem, thread_sem >>

semaphore ==
    << sem_init("m_sem", 1) \o Run(2) \o destroy("m_sem") \o exit, thread_sem, thread_sem >>

semaphore_promise(o) == Undisturbed(o, "Entered", "Exiting")

-----------------------------------------------------------------------------
(* 1.create_stop: thread_create.c and thread_stop.c, whose main sleeps instead *)
(* of joining and may end before its threads, and thread_join.c.              *)
thread_create == << createAll(2, 3) \o print("main", 0) \o exit,
                    print("thread", 1), print("thread", 2) >>
thread_stop   == << createAll(2, 3) \o print("main", 0) \o exit,
                    print("alive", 1), print("alive", 2) >>

thread_join ==
    << createAll(2, 3) \o joinBoth \o exit,
       FlattenSeq([i \in 1..(Rounds + 1) |-> print("loop", i)]) \o return(1),
       FlattenSeq([i \in 1..Rounds |-> print("loop", i)]) \o return(2) >>

\* Both threads have done all their rounds when the return values are printed.
thread_join_promise(o) ==
    /\ IsPrefix(Values(By(o, 2)), Counting(Rounds + 1))
    /\ IsPrefix(Values(By(o, 3)), Counting(Rounds))
    /\ IsPrefix(Values(By(o, 1)), <<1, 2>>)
    /\ By(o, 1) # <<>> => Len(By(o, 2)) + Len(By(o, 3)) = 2 * Rounds + 1

(* 6.thread_local_storage.c: tlsVar is the thread's own, normalVar is not. *)
ThreadN(n, tlsVar) ==
    increase("normalVar", n) \o return(1) \o storeReg(tlsVar, n)
        \o printVar("tls", tlsVar) \o printVar("normal", "normalVar")

thread_local_storage ==
    <<store("normalVar", 1) \o Run(2) \o exit, ThreadN(1, "tlsVar1"), ThreadN(2, "tlsVar2")>>

\* normalVar may lose one of the two increments, tlsVar never.
thread_local_promise(o) ==
    /\ \A k \in DOMAIN o : o[k][2] = "tls" => o[k][3] = o[k][1]
    /\ \A k \in DOMAIN o : o[k][2] = "normal" => o[k][3] \in {2, 3, 4}

-----------------------------------------------------------------------------
(* 8.atomic_ops/gcc_demo/demo.c *)
thread_func_arithmetic ==
    FlattenSeq([i \in 1..Rounds |->
        fetch_add("counter", 1) \o fetch_add("counter", -1)
          \o fetch_add("counter", 1) \o fetch_add("counter", -1)])

\* A value of four bits is the set of the places of its ones.
bit_operations ==
    LET Ones(x) == {b \in 0..3 : (x \div 2^b) % 2 = 1}
        masked == (Ones(12) \cup Ones(3)) \cap Ones(14)
    IN SumSet({2^b : b \in SymDiff(masked, Ones(5))})

cas_demo == cas("counter", 0, 1) \o printReg("cas") \o printVar("counter", "counter")

spinlock_demo ==
    exchange("lock", 1) \o skipIf(0, 1) \o jump(-2)
        \o increase("counter", 1) \o store("lock", 0)

gcc_demo ==
    << Run(2) \o printVar("counter", "counter") \o print("bits", bit_operations)
         \o cas_demo \o spinlock_demo \o exit,
       thread_func_arithmetic, thread_func_arithmetic >>

\* The threads leave the counter at 0, so that the exchange succeeds.
gcc_promise(o) == IsPrefix(Values(o), <<0, 11, 1, 1>>)

(* 8.atomic_ops/libc_demo/demo.c: THREAD_COUNT threads for each function. *)
increment_counter == FlattenSeq([i \in 1..Rounds |-> fetch_add("counter", 1)])
set_flag_once == cas("flag", 0, 1) \o printReg("set")
exchange_pointer(arg) == exchange("shared_ptr", arg) \o printReg("from")

libc_demo ==
    LET RunFrom(u) == createAll(u, u + Crowd - 1) \o joinAll(u, u + Crowd - 1) IN
    << RunFrom(2) \o printVar("counter", "counter")
         \o RunFrom(2 + Crowd) \o RunFrom(2 + 2 * Crowd) \o exit >>
      \o [i \in 1..Crowd |-> increment_counter]
      \o [i \in 1..Crowd |-> set_flag_once]
      \o [i \in 1..Crowd |-> exchange_pointer(100 + i)]

\* No increment is lost, one thread sets the flag (comment at line 64), and no
\* pointer is taken out of the exchange twice.
libc_promise(o) ==
    /\ \A k \in DOMAIN o : o[k][2] = "counter" => o[k][3] = Rounds * Crowd
    /\ LET sets == Values(Tagged(o, "set")) IN
         /\ Len(SelectSeq(sets, LAMBDA v : v = 1)) <= 1
         /\ Len(sets) = Crowd => 1 \in Range(sets)
    /\ LET taken == Values(Tagged(o, "from")) IN
         Cardinality(Range(taken)) = Len(taken)
=============================================================================
