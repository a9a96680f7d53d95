---------------------------- MODULE CThreadPool ----------------------------
(***************************************************************************)
(* The pthread pool of 3.Thread/5.thread_pool/1.thread_pool.c: one mutex   *)
(* (queue_lock), one condition variable (queue_ready), a linked list of    *)
(* tasks, max_thread_num workers running thread_routine, and the main      *)
(* thread, which creates the pool, adds its tasks and destroys the pool.   *)
(*                                                                         *)
(* Every step that touches the shared state, or that another thread can    *)
(* come between, is an action of its own.  What happens between a lock and *)
(* the matching unlock on state that is only used under the lock is one    *)
(* step.  The field shutdown is read under the lock and written without    *)
(* it, so its reads (lines 144 and 149) are separate steps.                *)
(*                                                                         *)
(* A worker's control state is the line it is about to execute:            *)
(*   "unborn"  not created yet          "lock"  about to lock (141)        *)
(*   "test"    at the while (144)       "sleep" about to wait (146)        *)
(*   "wait"    blocked in the wait      "woken" to relock inside the wait  *)
(*   "check"   at if (shutdown) (149)   "pop"   about to dequeue (157)     *)
(*   "run"     executing a task (166)   "exit"  terminated                 *)
(* and so is the main thread's:                                            *)
(*   "create"  in pool_init             "add"   about to lock in add (89)  *)
(*   "append"  holding the lock in add  "signal" after the unlock (104)    *)
(*   "destroy" at line 111              "bcast" at line 115                *)
(*   "join"    at line 117              "free"  at line 119                *)
(*   "done"    pool_destroy returned                                       *)
(***************************************************************************)
EXTENDS Integers, Sequences, FiniteSets

CONSTANTS max_thread_num,   (* the argument of pool_init                    *)
          NumTasks          (* the number of tasks main adds                *)

ASSUME PoolAssumption ==
    /\ max_thread_num \in Nat \ {0}
    /\ NumTasks \in Nat

Workers == 1..max_thread_num
Tasks   == 1..NumTasks
Main    == 0
NoOne   == -1

VARIABLES queue_lock,       (* the thread that holds the mutex, or NoOne    *)
          queue,            (* the linked list from queue_head on           *)
          cur_queue_size,   (* the counter kept beside the list             *)
          shutdown,         (* the flag pool_destroy sets                   *)
          mpc,              (* control state of the main thread             *)
          num,              (* main: the loop variable of the current loop  *)
          wpc,              (* control state of each worker                 *)
          job,              (* each worker's local variable "worker"        *)
          order,            (* history: the tasks in the order dequeued     *)
          finished,         (* history: the tasks whose callback returned   *)
          late              (* history: tasks dequeued after shutdown = 1   *)

vars == <<queue_lock, queue, cur_queue_size, shutdown, mpc, num, wpc, job,
          order, finished, late>>

WorkerStates == {"unborn", "lock", "test", "sleep", "wait", "woken", "check",
                 "pop", "run", "exit"}
MainStates   == {"create", "add", "append", "signal", "destroy", "bcast",
                 "join", "free", "done"}

Waiting == {w \in Workers : wpc[w] = "wait"}

Init ==
    /\ queue_lock = NoOne
    /\ queue = <<>>
    /\ cur_queue_size = 0
    /\ shutdown = 0
    /\ mpc = "create"
    /\ num = 1
    /\ wpc = [w \in Workers |-> "unborn"]
    /\ job = [w \in Workers |-> 0]
    /\ order = <<>>
    /\ finished = {}
    /\ late = [w \in Workers |-> 0]

-----------------------------------------------------------------------------
(***************************************************************************)
(* The main thread.                                                        *)
(***************************************************************************)
\* main, line 188: the loop that adds the tasks, entered or left.
AddLoop(n) == IF n <= NumTasks THEN "add" ELSE "destroy"

\* pool_init, lines 76-78: the next thread is created, and runs at once.
pool_init ==
    /\ mpc = "create"
    /\ wpc' = [wpc EXCEPT ![num] = "lock"]
    /\ IF num < max_thread_num
         THEN num' = num + 1 /\ UNCHANGED mpc
         ELSE num' = 1 /\ mpc' = AddLoop(1)
    /\ UNCHANGED <<queue_lock, queue, cur_queue_size, shutdown, job, order,
                   finished, late>>

\* pool_add_worker: the node is built and the lock taken.
AddLock ==
    /\ mpc = "add"
    /\ queue_lock = NoOne
    /\ queue_lock' = Main
    /\ mpc' = "append"
    /\ UNCHANGED <<queue, cur_queue_size, shutdown, num, wpc, job, order,
                   finished, late>>

\* Mutant: the node is linked in at the head of the list.
AddAppendAtHead ==
    /\ mpc = "append"
    /\ queue' = <<num>> \o queue
    /\ cur_queue_size' = cur_queue_size + 1
    /\ queue_lock' = NoOne
    /\ mpc' = "signal"
    /\ UNCHANGED <<shutdown, num, wpc, job, order, finished, late>>

\* The node is linked in at the tail, counted, and the lock released.
AddAppend ==
    /\ mpc = "append"
    /\ queue' = Append(queue, num)
    /\ cur_queue_size' = cur_queue_size + 1
    /\ queue_lock' = NoOne
    /\ mpc' = "signal"
    /\ UNCHANGED <<shutdown, num, wpc, job, order, finished, late>>

\* Mutant: pool_add_worker does not signal.
AddWithoutSignal ==
    /\ mpc = "signal"
    /\ num' = num + 1
    /\ mpc' = AddLoop(num + 1)
    /\ UNCHANGED <<queue_lock, queue, cur_queue_size, shutdown, wpc, job, order,
                   finished, late>>

\* pthread_cond_signal: one waiting thread wakes up, if there is one.
AddSignal ==
    /\ mpc = "signal"
    /\ \/ Waiting = {} /\ UNCHANGED wpc
       \/ \E w \in Waiting : wpc' = [wpc EXCEPT ![w] = "woken"]
    /\ num' = num + 1
    /\ mpc' = AddLoop(num + 1)
    /\ UNCHANGED <<queue_lock, queue, cur_queue_size, shutdown, job, order,
                   finished, late>>

\* pool_destroy, lines 111-113: the flag is set without the lock.
DestroyFlag ==
    /\ mpc = "destroy"
    /\ shutdown = 0
    /\ shutdown' = 1
    /\ mpc' = "bcast"
    /\ UNCHANGED <<queue_lock, queue, cur_queue_size, num, wpc, job, order,
                   finished, late>>

\* Line 115: every thread that is waiting now wakes up.
DestroyBroadcast ==
    /\ mpc = "bcast"
    /\ wpc' = [w \in Workers |-> IF w \in Waiting THEN "woken" ELSE wpc[w]]
    /\ num' = 1
    /\ mpc' = "join"
    /\ UNCHANGED <<queue_lock, queue, cur_queue_size, shutdown, job, order,
                   finished, late>>

\* Mutant: the last thread is not joined.
DestroyJoinAllButOne ==
    /\ mpc = "join"
    /\ wpc[num] = "exit"
    /\ IF num < max_thread_num - 1
         THEN num' = num + 1 /\ UNCHANGED mpc
         ELSE mpc' = "free" /\ UNCHANGED num
    /\ UNCHANGED <<queue_lock, queue, cur_queue_size, shutdown, wpc, job, order,
                   finished, late>>

\* Lines 117-118: the threads are joined one after the other.
DestroyJoin ==
    /\ mpc = "join"
    /\ wpc[num] = "exit"
    /\ IF num < max_thread_num
         THEN num' = num + 1 /\ UNCHANGED mpc
         ELSE mpc' = "free" /\ UNCHANGED num
    /\ UNCHANGED <<queue_lock, queue, cur_queue_size, shutdown, wpc, job, order,
                   finished, late>>

\* Lines 119-134: the remaining nodes and the pool itself are freed.
DestroyFree ==
    /\ mpc = "free"
    /\ queue' = <<>>
    /\ mpc' = "done"
    /\ UNCHANGED <<queue_lock, cur_queue_size, shutdown, num, wpc, job, order,
                   finished, late>>

-----------------------------------------------------------------------------
(***************************************************************************)
(* A worker: thread_routine.                                               *)
(***************************************************************************)
\* Mutant: the wait is guarded by an if; a woken worker does not test again.
RoutineLockNoRetest(w) ==
    /\ wpc[w] \in {"lock", "woken"}
    /\ queue_lock = NoOne
    /\ queue_lock' = w
    /\ wpc' = [wpc EXCEPT ![w] = IF @ = "woken" THEN "check" ELSE "test"]
    /\ UNCHANGED <<queue, cur_queue_size, shutdown, mpc, num, job, order,
                   finished, late>>

\* Lines 141 and 146: the mutex is taken, at the top of the loop or on the way
\* out of pthread_cond_wait; either way the while condition comes next.
RoutineLock(w) ==
    /\ wpc[w] \in {"lock", "woken"}
    /\ queue_lock = NoOne
    /\ queue_lock' = w
    /\ wpc' = [wpc EXCEPT ![w] = "test"]
    /\ UNCHANGED <<queue, cur_queue_size, shutdown, mpc, num, job, order,
                   finished, late>>

\* Line 144.  The lock is held on both sides of the step.
RoutineTest(w) ==
    /\ wpc[w] = "test"
    /\ wpc' = [wpc EXCEPT ![w] = IF cur_queue_size = 0 /\ shutdown = 0
                                   THEN "sleep" ELSE "check"]
    /\ UNCHANGED <<queue_lock, queue, cur_queue_size, shutdown, mpc, num, job,
                   order, finished, late>>

\* Line 146: pthread_cond_wait unlocks and blocks in one step.
RoutineWait(w) ==
    /\ wpc[w] = "sleep"
    /\ queue_lock' = NoOne
    /\ wpc' = [wpc EXCEPT ![w] = "wait"]
    /\ UNCHANGED <<queue, cur_queue_size, shutdown, mpc, num, job, order,
                   finished, late>>

\* POSIX lets pthread_cond_wait return without a signal.
SpuriousWakeup(w) ==
    /\ wpc[w] = "wait"
    /\ wpc' = [wpc EXCEPT ![w] = "woken"]
    /\ UNCHANGED <<queue_lock, queue, cur_queue_size, shutdown, mpc, num, job,
                   order, finished, late>>

\* Mutant: a worker exits only when the list is empty too.
RoutineCheckDrains(w) ==
    /\ wpc[w] = "check"
    /\ IF shutdown = 1 /\ cur_queue_size = 0
         THEN wpc' = [wpc EXCEPT ![w] = "exit"] /\ queue_lock' = NoOne
         ELSE wpc' = [wpc EXCEPT ![w] = "pop"] /\ UNCHANGED queue_lock
    /\ UNCHANGED <<queue, cur_queue_size, shutdown, mpc, num, job, order,
                   finished, late>>

\* Lines 149-154.
RoutineCheck(w) ==
    /\ wpc[w] = "check"
    /\ IF shutdown = 1
         THEN wpc' = [wpc EXCEPT ![w] = "exit"] /\ queue_lock' = NoOne
         ELSE wpc' = [wpc EXCEPT ![w] = "pop"] /\ UNCHANGED queue_lock
    /\ UNCHANGED <<queue, cur_queue_size, shutdown, mpc, num, job, order,
                   finished, late>>

\* Mutant: the lock is released before the head is unlinked, so that the next
\* worker finds the same node.
RoutinePopKeepsHead(w) ==
    /\ wpc[w] = "pop"
    /\ cur_queue_size # 0 /\ queue # <<>>
    /\ cur_queue_size' = cur_queue_size - 1
    /\ job' = [job EXCEPT ![w] = Head(queue)]
    /\ order' = Append(order, Head(queue))
    /\ late' = [late EXCEPT ![w] = @ + shutdown]
    /\ queue_lock' = NoOne
    /\ wpc' = [wpc EXCEPT ![w] = "run"]
    /\ UNCHANGED <<queue, shutdown, mpc, num, finished>>

\* Lines 157-164: the head of the list is taken and the lock released.
RoutinePop(w) ==
    /\ wpc[w] = "pop"
    /\ cur_queue_size # 0 /\ queue # <<>>       \* the two assertions
    /\ cur_queue_size' = cur_queue_size - 1
    /\ job' = [job EXCEPT ![w] = Head(queue)]
    /\ queue' = Tail(queue)
    /\ order' = Append(order, Head(queue))
    /\ late' = [late EXCEPT ![w] = @ + shutdown]
    /\ queue_lock' = NoOne
    /\ wpc' = [wpc EXCEPT ![w] = "run"]
    /\ UNCHANGED <<shutdown, mpc, num, finished>>

\* Lines 166-168: the callback returns, the node is freed.
RoutineRun(w) ==
    /\ wpc[w] = "run"
    /\ finished' = finished \cup {job[w]}
    /\ job' = [job EXCEPT ![w] = 0]
    /\ wpc' = [wpc EXCEPT ![w] = "lock"]
    /\ UNCHANGED <<queue_lock, queue, cur_queue_size, shutdown, mpc, num, order,
                   late>>

-----------------------------------------------------------------------------
main == pool_init \/ AddLock \/ AddAppend \/ AddSignal

pool_destroy == DestroyBroadcast \/ DestroyJoin \/ DestroyFree

thread_routine(w) ==
    \/ RoutineLock(w) \/ RoutineTest(w) \/ RoutineWait(w)
    \/ RoutineCheck(w) \/ RoutinePop(w) \/ RoutineRun(w)

Next ==
    \/ main \/ DestroyFlag \/ pool_destroy
    \/ \E w \in Workers : thread_routine(w) \/ SpuriousWakeup(w)

Spec == Init /\ [][Next]_vars

(***************************************************************************)
(* A runnable thread eventually runs.  Nothing is assumed about who gets a *)
(* contended mutex, that a spurious wakeup ever happens, or when, if ever, *)
(* main gets from its sleep (line 193) to pool_destroy.                    *)
(***************************************************************************)
Fairness ==
    /\ WF_vars(main \/ pool_destroy)
    /\ \A w \in Workers : WF_vars(thread_routine(w))

FairSpec == Spec /\ Fairness
-----------------------------------------------------------------------------
(***************************************************************************)
(* Properties.                                                             *)
(***************************************************************************)
\* The variables hold values of their C types; the mutex has one owner.
TypeOK ==
    /\ queue_lock \in Workers \cup {Main, NoOne}
    /\ queue \in Seq(Tasks)
    /\ cur_queue_size \in Nat
    /\ shutdown \in {0, 1}
    /\ mpc \in MainStates
    /\ num \in Nat
    /\ wpc \in [Workers -> WorkerStates]
    /\ job \in [Workers -> 0..NumTasks]
    /\ order \in Seq(Tasks)
    /\ finished \in SUBSET Tasks
    /\ late \in [Workers -> Nat]

\* How many tasks pool_add_worker has linked into the list so far.
Added == IF mpc = "create" THEN 0
         ELSE IF mpc \in {"add", "append"} THEN num - 1
         ELSE IF mpc = "signal" THEN num
         ELSE NumTasks

\* Tasks leave the list in the order pool_add_worker put them in, each exactly
\* once, none is lost between the list and the workers, and cur_queue_size
\* counts the list (lines 91-100 and 161-163).
FifoExactlyOnce ==
    mpc # "done" =>
        /\ order \o queue = [i \in 1..Added |-> i]
        /\ cur_queue_size = Len(queue)

\* The assertions of lines 157 and 158 never fail: a worker that reaches them
\* finds a task, although it may have been woken spuriously, or beaten to the
\* task it was woken for by a thread that was not waiting.
AssertionsHold ==
    \A w \in Workers : wpc[w] = "pop" => cur_queue_size # 0 /\ queue # <<>>

\* Once pool_destroy has set shutdown, a worker dequeues at most one more task:
\* the one it was about to dequeue when the flag was set (lines 149-163).
AtMostOneLateTask == \A w \in Workers : late[w] <= 1

\* When pool_destroy has freed the pool, no thread can touch it any more and
\* every task that was dequeued has run to its end (comment at line 108).
DestroyWaitsForRunning ==
    mpc \in {"free", "done"} =>
        /\ \A w \in Workers : wpc[w] = "exit"
        /\ \A i \in 1..Len(order) : order[i] \in finished

(***************************************************************************)
(* The inductive invariant behind these properties, part by part.          *)
(***************************************************************************)
\* The mutex is held exactly between a lock and the next unlock or wait.
LockInv ==
    /\ (queue_lock = Main) <=> (mpc = "append")
    /\ \A w \in Workers :
         (queue_lock = w) <=> (wpc[w] \in {"test", "sleep", "check", "pop"})

\* The main thread's loops stay within their bounds; what they have passed is
\* done: threads are created, tasks added and threads joined in order.
MainInv ==
    /\ mpc = "create" =>
         num \in Workers /\ \A v \in num..max_thread_num : wpc[v] = "unborn"
    /\ mpc \in {"add", "append", "signal"} => num \in Tasks
    /\ mpc = "join" => num \in Workers /\ \A v \in 1..(num - 1) : wpc[v] = "exit"
    /\ mpc \in {"free", "done"} => \A w \in Workers : wpc[w] = "exit"
    /\ (shutdown = 1) <=> (mpc \in {"bcast", "join", "free", "done"})

\* The dequeued tasks are 1, 2, ... and the list continues them.
ListInv ==
    mpc # "done" =>
        /\ Len(order) + Len(queue) = Added
        /\ \A i \in 1..Len(order) : order[i] = i
        /\ \A i \in 1..Len(queue) : queue[i] = Len(order) + i
        /\ cur_queue_size = Len(queue)

\* What a worker knows after the tests of lines 144 and 149.
WorkerInv ==
    \A w \in Workers :
        /\ wpc[w] = "check" => cur_queue_size # 0 \/ shutdown = 1
        /\ wpc[w] = "pop" => cur_queue_size # 0
        /\ wpc[w] = "run" => job[w] \in Tasks
        /\ wpc[w] = "exit" => shutdown = 1
        /\ late[w] \in {0, 1}
        /\ late[w] = 1 => /\ shutdown = 1
                          /\ wpc[w] \in {"run", "lock", "test", "check", "exit"}

\* A dequeued task is finished or in the hands of a worker that runs it.
JobInv ==
    \A i \in 1..Len(order) :
        \/ order[i] \in finished
        \/ \E w \in Workers : wpc[w] = "run" /\ job[w] = order[i]

Running == {w \in Workers : wpc[w] = "run"}
RunningTasks == {job[w] : w \in Running}

\* No two workers run the same task.
RunInv ==
    \A v, w \in Running :
        job[w] \in 1..Len(order) /\ (v # w => job[v] # job[w])

IInv == TypeOK /\ LockInv /\ MainInv /\ ListInv /\ WorkerInv /\ JobInv

\* A task that was added is executed, unless the pool is destroyed first: the
\* signal of line 104, sent after the unlock, is never lost.
TaskRunsOrShutdown ==
    \A t \in Tasks : (Added >= t) ~> (t \in finished \/ shutdown = 1)

\* The list, the workers' jobs and the shutdown flag implement TaskPool, in
\* the variant that discards the waiting tasks.
TP == INSTANCE TaskPool WITH
        MaxRunning <- max_thread_num,
        Drains     <- FALSE,
        submitted  <- 1..Added,
        pending    <- queue,
        running    <- RunningTasks,
        phase      <- IF mpc = "done" THEN "closed"
                      ELSE IF shutdown = 1 THEN "closing" ELSE "open"

ImplementsTaskPool == TP!PoolSpec

\* pool_destroy returns once it has set the flag: the broadcast of line 115 wakes the
\* waiting threads, so that the joins of line 118 end.
DestroyReturns == (shutdown = 1) ~> (mpc = "done")
=============================================================================
