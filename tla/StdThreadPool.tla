---------------------------- MODULE StdThreadPool ----------------------------
(***************************************************************************)
(* The C++11 pool of 3.Thread/5.thread_pool/3.ThreadPool_CXX/ThreadPool.h  *)
(* under the client of example.cpp: the main thread constructs the pool,   *)
(* enqueues its tasks, waits for their futures in order, and destroys the  *)
(* pool.  It may also leave early (a future it never reads, an exception), *)
(* and a task may itself enqueue one task, its child: that is how enqueue  *)
(* can meet a pool that has stopped.                                       *)
(*                                                                         *)
(* tasks and stop are only used under queue_mutex, so what a thread does   *)
(* between taking and releasing it is one step.  Control states:           *)
(*   main    "create" "enq" "push" "notify" "get" "stop" "setstop"         *)
(*           "notifyall" "join" "done"                                     *)
(*   worker  "unborn" "lock" "held" "wait" "run" "enq" "push" "notify"     *)
(*           "end" "exit"                                                  *)
(* "enq", "push" and "notify" are the three steps of enqueue; "held" and   *)
(* "push" hold the mutex, and so does "setstop".                           *)
(***************************************************************************)
EXTENDS Integers, Sequences, FiniteSets

CONSTANTS threads,      (* the argument of the constructor                  *)
          NumTasks,     (* the tasks main enqueues are 1..NumTasks          *)
          Nested        (* those of them that enqueue a child               *)

ASSUME StdPoolAssumption ==
    /\ threads \in Nat \ {0}
    /\ NumTasks \in Nat \ {0}
    /\ Nested \subseteq 1..NumTasks

Main    == 0
NoOne   == -1
Workers == 1..threads
Threads == 0..threads
Child(t) == NumTasks + t
Tasks   == 1..NumTasks \cup {Child(t) : t \in Nested}

VARIABLES queue_mutex,  (* the thread that holds it, or NoOne               *)
          tasks,        (* the queue                                        *)
          stop,
          pc,           (* the control state of each thread                 *)
          num,          (* main's loop variable                             *)
          task,         (* each worker's local variable task, 0 if none     *)
          accepted,     (* history: the tasks enqueue put into the queue    *)
          finished      (* the tasks that ran: their futures are ready      *)

vars == <<queue_mutex, tasks, stop, pc, num, task, accepted, finished>>

Init ==
    /\ queue_mutex = NoOne
    /\ tasks = <<>>
    /\ stop = FALSE
    /\ pc = [t \in Threads |-> IF t = Main THEN "create" ELSE "unborn"]
    /\ num = 1
    /\ task = [w \in Workers |-> 0]
    /\ accepted = {}
    /\ finished = {}

Waiting == {w \in Workers : pc[w] = "wait"}
At(t, here, there) == pc[t] = here /\ pc' = [pc EXCEPT ![t] = there]
Acquire(t) == queue_mutex = NoOne /\ queue_mutex' = t
Release == queue_mutex' = NoOne

-----------------------------------------------------------------------------
\* The constructor, lines 44-45: the next worker is created and runs.
Create ==
    /\ pc[Main] = "create"
    /\ pc' = [pc EXCEPT ![num] = "lock",
                        ![Main] = IF num < threads THEN "create" ELSE "enq"]
    /\ num' = IF num < threads THEN num + 1 ELSE 1
    /\ UNCHANGED <<queue_mutex, tasks, stop, task, accepted, finished>>

\* The task that t enqueues: main those of its loop (example.cpp, line 14), a
\* worker the child of the task it runs.
Arg(t) == IF t = Main THEN num ELSE Child(task[t])
Resume(t) == IF t # Main THEN "end" ELSE IF num < NumTasks THEN "enq" ELSE "get"
NextNum(t) == IF t # Main THEN num ELSE IF num < NumTasks THEN num + 1 ELSE 1

\* enqueue, line 78.
EnqueueLock(t) ==
    /\ At(t, "enq", "push")
    /\ Acquire(t)
    /\ UNCHANGED <<tasks, stop, num, task, accepted, finished>>

\* Mutant: enqueue does not look at stop.
EnqueuePushAlways(t) ==
    /\ At(t, "push", "notify")
    /\ tasks' = Append(tasks, Arg(t))
    /\ accepted' = accepted \cup {Arg(t)}
    /\ Release
    /\ UNCHANGED <<stop, num, task, finished>>

\* Lines 84-87.
EnqueuePush(t) ==
    /\ ~stop
    /\ At(t, "push", "notify")
    /\ tasks' = Append(tasks, Arg(t))
    /\ accepted' = accepted \cup {Arg(t)}
    /\ Release
    /\ UNCHANGED <<stop, num, task, finished>>

\* Lines 81-82: the exception ends up in the calling task's own future.
EnqueueThrow(t) ==
    /\ stop
    /\ At(t, "push", "end")
    /\ Release
    /\ UNCHANGED <<tasks, stop, num, task, accepted, finished>>

\* Mutant: enqueue notifies nobody.
EnqueueSilent(t) ==
    /\ At(t, "notify", Resume(t))
    /\ num' = NextNum(t)
    /\ UNCHANGED <<queue_mutex, tasks, stop, task, accepted, finished>>

\* Line 88: notify_one wakes one waiting worker, if there is one.
EnqueueNotify(t) ==
    /\ pc[t] = "notify"
    /\ LET back == [pc EXCEPT ![t] = Resume(t)] IN
         \/ Waiting = {} /\ pc' = back
         \/ \E w \in Waiting : pc' = [back EXCEPT ![w] = "lock"]
    /\ num' = NextNum(t)
    /\ UNCHANGED <<queue_mutex, tasks, stop, task, accepted, finished>>

\* example.cpp, lines 24-25: result.get() blocks until the future is ready.
Get ==
    /\ pc[Main] = "get"
    /\ num \in finished
    /\ num' = num + 1
    /\ pc' = [pc EXCEPT ![Main] = IF num < NumTasks THEN "get" ELSE "stop"]
    /\ UNCHANGED <<queue_mutex, tasks, stop, task, accepted, finished>>

\* The client leaves the pool's scope without waiting any further.
Leave ==
    /\ At(Main, "get", "stop")
    /\ UNCHANGED <<queue_mutex, tasks, stop, num, task, accepted, finished>>

\* ~ThreadPool, line 96.
StopLock ==
    /\ At(Main, "stop", "setstop")
    /\ Acquire(Main)
    /\ UNCHANGED <<tasks, stop, num, task, accepted, finished>>

\* Lines 97-98.
StopSet ==
    /\ At(Main, "setstop", "notifyall")
    /\ stop' = TRUE
    /\ Release
    /\ UNCHANGED <<tasks, num, task, accepted, finished>>

\* Line 99.
NotifyAll ==
    /\ pc[Main] = "notifyall"
    /\ pc' = [t \in Threads |-> IF t = Main THEN "join"
                                ELSE IF t \in Waiting THEN "lock" ELSE pc[t]]
    /\ num' = 1
    /\ UNCHANGED <<queue_mutex, tasks, stop, task, accepted, finished>>

\* Lines 100-101.
Join ==
    /\ pc[Main] = "join"
    /\ pc[num] = "exit"
    /\ pc' = [pc EXCEPT ![Main] = IF num < threads THEN "join" ELSE "done"]
    /\ num' = num + 1
    /\ UNCHANGED <<queue_mutex, tasks, stop, task, accepted, finished>>

-----------------------------------------------------------------------------
\* A worker takes the mutex, at line 51 or on its way out of wait.
WorkerLock(w) ==
    /\ At(w, "lock", "held")
    /\ Acquire(w)
    /\ UNCHANGED <<tasks, stop, num, task, accepted, finished>>

\* Mutant: the predicate forgets stop.
WorkerWaitForTask(w) ==
    /\ tasks = <<>>
    /\ At(w, "held", "wait")
    /\ Release
    /\ UNCHANGED <<tasks, stop, num, task, accepted, finished>>

\* Lines 52-53: while the predicate is false, unlock and block in one step.
WorkerWait(w) ==
    /\ ~stop /\ tasks = <<>>
    /\ At(w, "held", "wait")
    /\ Release
    /\ UNCHANGED <<tasks, stop, num, task, accepted, finished>>

\* wait may return without a notification: the predicate is tested again.
SpuriousWakeup(w) ==
    /\ At(w, "wait", "lock")
    /\ UNCHANGED <<queue_mutex, tasks, stop, num, task, accepted, finished>>

\* Mutant: a worker returns as soon as the pool has stopped.
WorkerReturnAtOnce(w) ==
    /\ stop
    /\ At(w, "held", "exit")
    /\ Release
    /\ UNCHANGED <<tasks, stop, num, task, accepted, finished>>

\* Lines 54-55.
WorkerReturn(w) ==
    /\ stop /\ tasks = <<>>
    /\ At(w, "held", "exit")
    /\ Release
    /\ UNCHANGED <<tasks, stop, num, task, accepted, finished>>

\* Lines 56-58.
WorkerPop(w) ==
    /\ tasks # <<>>
    /\ At(w, "held", "run")
    /\ task' = [task EXCEPT ![w] = Head(tasks)]
    /\ tasks' = Tail(tasks)
    /\ Release
    /\ UNCHANGED <<stop, num, accepted, finished>>

\* Line 59: task() begins; one that enqueues a child calls enqueue first.
WorkerCall(w) ==
    /\ At(w, "run", IF task[w] \in Nested THEN "enq" ELSE "end")
    /\ UNCHANGED <<queue_mutex, tasks, stop, num, task, accepted, finished>>

\* task() returns or throws: either way its future becomes ready.
WorkerDone(w) ==
    /\ At(w, "end", "lock")
    /\ finished' = finished \cup {task[w]}
    /\ task' = [task EXCEPT ![w] = 0]
    /\ UNCHANGED <<queue_mutex, tasks, stop, num, accepted>>

-----------------------------------------------------------------------------
Enqueue(t) ==
    EnqueueLock(t) \/ EnqueuePush(t) \/ EnqueueThrow(t) \/ EnqueueNotify(t)

Destroy == StopLock \/ StopSet \/ NotifyAll \/ Join

Worker(w) ==
    \/ WorkerLock(w) \/ WorkerWait(w) \/ WorkerReturn(w) \/ WorkerPop(w)
    \/ WorkerCall(w) \/ WorkerDone(w) \/ Enqueue(w)

\* The pool is gone and every thread has exited.
Terminated == pc[Main] = "done" /\ UNCHANGED vars

Next ==
    \/ Create \/ Enqueue(Main) \/ Get \/ Leave \/ Destroy
    \/ \E w \in Workers : Worker(w) \/ SpuriousWakeup(w)
    \/ Terminated

Spec == Init /\ [][Next]_vars

(***************************************************************************)
(* Every thread that can run eventually does.  A thread that wants the     *)
(* mutex inside enqueue or the destructor gets it in the end, although     *)
(* spurious wakeups make other threads take it again and again.            *)
(***************************************************************************)
Fairness ==
    /\ WF_vars(Create \/ Enqueue(Main) \/ Get \/ Destroy)
    /\ SF_vars(EnqueueLock(Main)) /\ SF_vars(StopLock)
    /\ \A w \in Workers : WF_vars(Worker(w)) /\ SF_vars(EnqueueLock(w))

FairSpec == Spec /\ Fairness
-----------------------------------------------------------------------------
MainStates == {"create", "enq", "push", "notify", "get", "stop", "setstop",
               "notifyall", "join", "done"}
WorkerStates == {"unborn", "lock", "held", "wait", "run", "enq", "push",
                 "notify", "end", "exit"}

\* The variables keep their types.
TypeOK ==
    /\ queue_mutex \in Threads \cup {NoOne}
    /\ tasks \in Seq(Tasks)
    /\ stop \in BOOLEAN
    /\ pc \in [Threads -> MainStates \cup WorkerStates]
    /\ pc[Main] \in MainStates /\ \A w \in Workers : pc[w] \in WorkerStates
    /\ num \in Nat
    /\ task \in [Workers -> Tasks \cup {0}]
    /\ accepted \subseteq Tasks
    /\ finished \subseteq Tasks

\* When the destructor returns every task that enqueue accepted has run, those
\* still queued when it was called included; none can touch the pool any more.
DestructorDrains ==
    pc[Main] = "done" =>
        /\ tasks = <<>> /\ finished = accepted
        /\ \A w \in Workers : pc[w] = "exit"

\* Every future becomes ready: what enqueue accepted is executed in the end.
EveryFutureReady == \A t \in Tasks : (t \in accepted) ~> (t \in finished)

\* The destructor returns, wherever the workers are when it is called.
DestructorReturns == (pc[Main] = "stop") ~> (pc[Main] = "done")

\* The tasks some worker has taken and not finished.
RunningTasks == {task[w] : w \in Workers} \ {0}

\* The pool implements the abstract pool, in the variant that drains.
TP == INSTANCE TaskPool WITH
        MaxRunning <- threads,
        Drains     <- TRUE,
        submitted  <- accepted,
        pending    <- tasks,
        running    <- RunningTasks,
        phase      <- IF pc[Main] = "done" THEN "closed"
                      ELSE IF stop THEN "closing" ELSE "open"

ImplementsTaskPool == TP!PoolSpec

(***************************************************************************)
(* The inductive invariant behind DestructorDrains and the refinement.     *)
(***************************************************************************)
\* queue_mutex is held between taking it and the end of the critical section.
LockInv ==
    \A t \in Threads :
        (queue_mutex = t) <=> (pc[t] \in {"held", "push", "setstop"})

\* What main's loops have passed is done, and stop is set by the destructor.
MainInv ==
    /\ pc[Main] = "create" =>
         num \in Workers /\ \A v \in num..threads : pc[v] = "unborn"
    /\ pc[Main] \in {"enq", "push", "notify", "get"} => num \in 1..NumTasks
    /\ pc[Main] = "join" =>
         num \in Workers /\ \A v \in 1..(num - 1) : pc[v] = "exit"
    /\ pc[Main] = "done" => \A w \in Workers : pc[w] = "exit"
    /\ stop <=> (pc[Main] \in {"notifyall", "join", "done"})

\* A worker has a task from the pop to the end of the call, one with a child if
\* it calls enqueue, and leaves only a pool that is stopped and empty.
WorkerInv ==
    \A w \in Workers :
        /\ pc[w] \in {"run", "enq", "push", "notify", "end"} => task[w] \in Tasks
        /\ pc[w] \in {"enq", "push", "notify"} => task[w] \in Nested
        /\ pc[w] \in {"unborn", "lock", "held", "wait", "exit"} => task[w] = 0
        /\ pc[w] = "exit" => stop /\ tasks = <<>>

\* An accepted task is in one place: in the queue, with a worker, or finished.
PlaceInv ==
    /\ finished \subseteq accepted
    /\ \A w \in Workers : task[w] # 0 => task[w] \in accepted \ finished
    /\ \A v, w \in Workers : v # w /\ task[v] = task[w] => task[v] = 0
    /\ \A i \in 1..Len(tasks) :
          /\ tasks[i] \in accepted \ finished
          /\ \A w \in Workers : task[w] # tasks[i]
          /\ \A j \in 1..Len(tasks) : tasks[i] = tasks[j] => i = j
    /\ \A t \in accepted :
          \/ t \in finished
          \/ \E w \in Workers : task[w] = t
          \/ \E i \in 1..Len(tasks) : tasks[i] = t

\* What is yet to be enqueued is not accepted: main's next tasks, and the child
\* of a task that has not passed its call of enqueue.
FreshInv ==
    /\ pc[Main] = "create" => accepted = {}
    /\ \A i \in accepted \cap 1..NumTasks :
          /\ pc[Main] \in {"enq", "push"} => i < num
          /\ pc[Main] = "notify" => i <= num
    /\ \A t \in Nested : Child(t) \in accepted =>
          \/ t \in finished
          \/ \E w \in Workers : task[w] = t /\ pc[w] \in {"notify", "end"}

IInv ==
    TypeOK /\ LockInv /\ MainInv /\ WorkerInv /\ PlaceInv /\ FreshInv
=============================================================================
