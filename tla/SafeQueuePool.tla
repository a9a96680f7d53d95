---------------------------- MODULE SafeQueuePool ----------------------------
(***************************************************************************)
(* The C++ pool of 3.Thread/5.thread_pool/2.thread_pool_CXX: a SafeQueue   *)
(* with a mutex of its own, a condition variable whose mutex only the      *)
(* workers take, and a plain flag m_shutdown that nothing protects.  The   *)
(* client is src/main.cpp: the main thread submits its tasks, waits for    *)
(* the futures it keeps, and calls shutdown.  Each operation of SafeQueue  *)
(* holds m_mutex from beginning to end and calls nothing else, so it is    *)
(* one step.  Control states:                                              *)
(*   main    "init" "submit" (63) "notify" (66) "get" "shutdown" (39)      *)
(*           "notifyall" (40) "join" (42) "done"                           *)
(*   worker  "unborn" "loop" (82) "lock" (84) "empty" (85) "sleep" (86)    *)
(*           "wait" "woken" "dequeue" (88) "run" (90) "exit"               *)
(* A worker at "empty", "sleep" or "dequeue" holds m_conditional_mutex.    *)
(***************************************************************************)
EXTENDS Integers, Sequences, FiniteSets

CONSTANTS n_threads,    (* the argument of the constructor                  *)
          NumTasks,     (* the number of tasks main submits                 *)
          Awaited       (* the tasks whose future main gets before going on *)

ASSUME SafeQueuePoolAssumption ==
    /\ n_threads \in Nat \ {0}
    /\ NumTasks \in Nat \ {0}
    /\ Awaited \subseteq 1..NumTasks

Workers == 1..n_threads
Tasks   == 1..NumTasks
NoOne   == 0

VARIABLES m_conditional_mutex,  (* the worker that holds it, or NoOne       *)
          m_queue, m_shutdown,
          mpc, num,             (* main's control state and loop variable   *)
          wpc, func,            (* each worker's control state and task     *)
          order, finished,      (* history: tasks dequeued, tasks executed  *)
          late                  (* history: tasks dequeued after shutdown   *)

vars == <<m_conditional_mutex, m_queue, m_shutdown, mpc, num, wpc, func, order,
          finished, late>>
history == <<order, finished, late>>

Waiting == {w \in Workers : wpc[w] = "wait"}
Goes(w, here, there) == wpc[w] = here /\ wpc' = [wpc EXCEPT ![w] = there]

Init ==
    /\ m_conditional_mutex = NoOne
    /\ m_queue = <<>>
    /\ m_shutdown = FALSE
    /\ mpc = "init"
    /\ num = 1
    /\ wpc = [w \in Workers |-> "unborn"]
    /\ func = [w \in Workers |-> 0]
    /\ order = <<>>
    /\ finished = {}
    /\ late = [w \in Workers |-> 0]

-----------------------------------------------------------------------------
\* init, lines 32-34.
init ==
    /\ mpc = "init"
    /\ Goes(num, "unborn", "loop")
    /\ IF num < n_threads THEN num' = num + 1 /\ UNCHANGED mpc
                          ELSE num' = 1 /\ mpc' = "submit"
    /\ UNCHANGED <<m_conditional_mutex, m_queue, m_shutdown, func, history>>

\* Mutant: SafeQueue hands out the newest task first.
SubmitOnTop ==
    /\ mpc = "submit"
    /\ m_queue' = <<num>> \o m_queue
    /\ mpc' = "notify"
    /\ UNCHANGED <<m_conditional_mutex, m_shutdown, num, wpc, func, history>>

\* submit, line 63: SafeQueue::enqueue.
SubmitEnqueue ==
    /\ mpc = "submit"
    /\ m_queue' = Append(m_queue, num)
    /\ mpc' = "notify"
    /\ UNCHANGED <<m_conditional_mutex, m_shutdown, num, wpc, func, history>>

\* Mutant: submit notifies nobody.
SubmitSilent ==
    /\ mpc = "notify"
    /\ mpc' = "get"
    /\ UNCHANGED <<m_conditional_mutex, m_queue, m_shutdown, num, wpc, func,
                   history>>

\* Line 66, with no mutex held: a worker that has seen the queue empty and has
\* not begun to wait does not hear it.
SubmitNotify ==
    /\ mpc = "notify"
    /\ \/ Waiting = {} /\ UNCHANGED wpc
       \/ \E w \in Waiting : Goes(w, "wait", "woken")
    /\ mpc' = "get"
    /\ UNCHANGED <<m_conditional_mutex, m_queue, m_shutdown, num, func, history>>

\* main.cpp, lines 58 and 65: future.get() blocks until the task has run.
FutureGet ==
    /\ mpc = "get"
    /\ num \in Awaited => num \in finished
    /\ num' = num + 1
    /\ mpc' = IF num < NumTasks THEN "submit" ELSE "shutdown"
    /\ UNCHANGED <<m_conditional_mutex, m_queue, m_shutdown, wpc, func, history>>

\* shutdown, line 39, with no mutex held.
ShutdownFlag ==
    /\ mpc = "shutdown"
    /\ m_shutdown' = TRUE
    /\ mpc' = "notifyall"
    /\ UNCHANGED <<m_conditional_mutex, m_queue, num, wpc, func, history>>

\* Line 40.
ShutdownNotify ==
    /\ mpc = "notifyall"
    /\ wpc' = [w \in Workers |-> IF w \in Waiting THEN "woken" ELSE wpc[w]]
    /\ num' = 1
    /\ mpc' = "join"
    /\ UNCHANGED <<m_conditional_mutex, m_queue, m_shutdown, func, history>>

\* Lines 42-46.
ShutdownJoin ==
    /\ mpc = "join"
    /\ wpc[num] = "exit"
    /\ IF num < n_threads THEN num' = num + 1 /\ UNCHANGED mpc
                          ELSE mpc' = "done" /\ UNCHANGED num
    /\ UNCHANGED <<m_conditional_mutex, m_queue, m_shutdown, wpc, func, history>>

-----------------------------------------------------------------------------
\* Mutant: a worker exits only when the queue is empty too.
WorkerLoopDrains(w) ==
    /\ Goes(w, "loop", IF m_shutdown /\ m_queue = <<>> THEN "exit" ELSE "lock")
    /\ UNCHANGED <<m_conditional_mutex, m_queue, m_shutdown, mpc, num, func,
                   history>>

\* Line 82: the flag is read with no mutex held.
WorkerLoop(w) ==
    /\ Goes(w, "loop", IF m_shutdown THEN "exit" ELSE "lock")
    /\ UNCHANGED <<m_conditional_mutex, m_queue, m_shutdown, mpc, num, func,
                   history>>

\* Line 84, and the way out of wait: there the queue is not tested again.
WorkerLock(w) ==
    /\ Goes(w, "lock", "empty") \/ Goes(w, "woken", "dequeue")
    /\ m_conditional_mutex = NoOne
    /\ m_conditional_mutex' = w
    /\ UNCHANGED <<m_queue, m_shutdown, mpc, num, func, history>>

\* Line 85: SafeQueue::empty; the answer may be stale at once.
WorkerEmpty(w) ==
    /\ Goes(w, "empty", IF m_queue = <<>> THEN "sleep" ELSE "dequeue")
    /\ UNCHANGED <<m_conditional_mutex, m_queue, m_shutdown, mpc, num, func,
                   history>>

\* Line 86: unlock and block in one step.
WorkerWait(w) ==
    /\ Goes(w, "sleep", "wait")
    /\ m_conditional_mutex' = NoOne
    /\ UNCHANGED <<m_queue, m_shutdown, mpc, num, func, history>>

SpuriousWakeup(w) ==
    /\ Goes(w, "wait", "woken")
    /\ UNCHANGED <<m_conditional_mutex, m_queue, m_shutdown, mpc, num, func,
                   history>>

\* Lines 88-89: SafeQueue::dequeue, then the mutex is released.
WorkerDequeue(w) ==
    /\ IF m_queue = <<>>
         THEN Goes(w, "dequeue", "loop") /\ UNCHANGED <<m_queue, func, history>>
         ELSE /\ Goes(w, "dequeue", "run")
              /\ func' = [func EXCEPT ![w] = Head(m_queue)]
              /\ m_queue' = Tail(m_queue)
              /\ order' = Append(order, Head(m_queue))
              /\ late' = [late EXCEPT ![w] = IF m_shutdown THEN @ + 1 ELSE @]
              /\ UNCHANGED finished
    /\ m_conditional_mutex' = NoOne
    /\ UNCHANGED <<m_shutdown, mpc, num>>

\* Lines 90-92.
WorkerRun(w) ==
    /\ Goes(w, "run", "loop")
    /\ finished' = finished \cup {func[w]}
    /\ func' = [func EXCEPT ![w] = 0]
    /\ UNCHANGED <<m_conditional_mutex, m_queue, m_shutdown, mpc, num, order,
                   late>>

-----------------------------------------------------------------------------
Client == init \/ SubmitEnqueue \/ SubmitNotify \/ FutureGet
Shutdown == ShutdownNotify \/ ShutdownJoin

ThreadWorker(w) ==
    \/ WorkerLoop(w) \/ WorkerLock(w) \/ WorkerEmpty(w) \/ WorkerWait(w)
    \/ WorkerDequeue(w) \/ WorkerRun(w)

Next ==
    \/ Client \/ ShutdownFlag \/ Shutdown
    \/ \E w \in Workers : ThreadWorker(w) \/ SpuriousWakeup(w)

Spec == Init /\ [][Next]_vars

\* Every thread that can run eventually does; the mutex need not be fair, and
\* nothing is assumed about when, or whether, the client calls shutdown.
FairSpec ==
    /\ Spec
    /\ WF_vars(Client \/ Shutdown)
    /\ \A w \in Workers : WF_vars(ThreadWorker(w))
-----------------------------------------------------------------------------
\* The variables keep their types.
TypeOK ==
    /\ m_conditional_mutex \in Workers \cup {NoOne}
    /\ m_queue \in Seq(Tasks)
    /\ m_shutdown \in BOOLEAN
    /\ mpc \in {"init", "submit", "notify", "get", "shutdown", "notifyall",
                "join", "done"}
    /\ num \in Nat
    /\ wpc \in [Workers -> {"unborn", "loop", "lock", "empty", "sleep", "wait",
                            "woken", "dequeue", "run", "exit"}]
    /\ func \in [Workers -> 0..NumTasks]
    /\ order \in Seq(Tasks)
    /\ finished \in SUBSET Tasks
    /\ late \in [Workers -> Nat]

\* Although a worker looks at the queue and takes from it in two separate
\* operations, tasks are taken in the order of submission and each one once.
FifoExactlyOnce ==
    LET enqueued == Len(order) + Len(m_queue) IN
    order \o m_queue = [i \in 1..enqueued |-> i]

\* After shutdown set the flag, which each worker reads before the lock, the wait
\* and the dequeue, it takes one more task at most (82-89); and shutdown returns
\* only when every worker has exited and no task is half done (42-46).
AtMostOneLateTask == \A w \in Workers : late[w] <= 1
NothingRunsOn ==
    /\ \A w \in Workers : wpc[w] = "exit"
    /\ \A i \in 1..Len(order) : order[i] \in finished
ShutdownEndsTheWork == AtMostOneLateTask /\ (mpc = "done" => NothingRunsOn)

\* A submitted task is executed unless the pool shuts down (line 49: "Submit a
\* function to be executed asynchronously by the pool").
SubmittedTaskRuns ==
    \A t \in Tasks : (t \in {m_queue[i] : i \in 1..Len(m_queue)})
                        ~> (t \in finished \/ m_shutdown)

(***************************************************************************)
(* The inductive invariant behind the first two, part by part.             *)
(***************************************************************************)
\* m_conditional_mutex is held from the lock or the end of a wait to the next
\* wait or the end of the block.
LockInv ==
    \A w \in Workers :
        (m_conditional_mutex = w) <=> (wpc[w] \in {"empty", "sleep", "dequeue"})

\* What main's loops have passed is done: threads are created, tasks submitted
\* and threads joined in order.
MainInv ==
    /\ mpc = "init" =>
         num \in Workers /\ \A v \in num..n_threads : wpc[v] = "unborn"
    /\ mpc \in {"submit", "notify", "get"} => num \in Tasks
    /\ mpc = "join" => num \in Workers /\ \A v \in 1..(num - 1) : wpc[v] = "exit"
    /\ mpc = "done" => \A w \in Workers : wpc[w] = "exit"
    /\ m_shutdown <=> (mpc \in {"notifyall", "join", "done"})

\* How many tasks submit has enqueued so far.
Submitted == CASE mpc = "init" -> 0
               [] mpc = "submit" -> num - 1
               [] mpc \in {"notify", "get"} -> num
               [] OTHER -> NumTasks

\* The dequeued tasks are 1, 2, ... and the queue continues them.
ListInv ==
    /\ Len(order) + Len(m_queue) = Submitted
    /\ \A i \in 1..Len(order) : order[i] = i
    /\ \A i \in 1..Len(m_queue) : m_queue[i] = Len(order) + i

\* A worker that took a task after shutdown meets the test of line 82 before it
\* can take another.
WorkerInv ==
    \A w \in Workers :
        /\ wpc[w] = "run" => func[w] \in Tasks
        /\ late[w] \in {0, 1}
        /\ late[w] = 1 => m_shutdown /\ wpc[w] \in {"run", "loop", "exit"}

\* A dequeued task is finished or in the hands of a worker that runs it.
JobInv ==
    \A i \in 1..Len(order) :
        \/ order[i] \in finished
        \/ \E w \in Workers : wpc[w] = "run" /\ func[w] = order[i]

IInv == TypeOK /\ LockInv /\ MainInv /\ ListInv /\ WorkerInv /\ JobInv
=============================================================================
