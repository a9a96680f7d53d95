------------------------- MODULE StdThreadPool_proofs -------------------------
(***************************************************************************)
(* The destructor of the C++11 pool drains the queue and the pool is a     *)
(* TaskPool, for every number of threads and tasks and every set of tasks  *)
(* that enqueue another one.                                               *)
(***************************************************************************)
EXTENDS StdThreadPool, SequenceTheorems, FiniteSetTheorems, TLAPS

\* What the constants give: main is no worker, and a child no task of main's.
LEMMA Constants ==
    /\ threads \in Nat \ {0} /\ NumTasks \in Nat \ {0}
    /\ Main \in Threads /\ Main \notin Workers /\ NoOne \notin Threads
    /\ Threads = Workers \cup {Main} /\ 1 \in Workers
    /\ 1..NumTasks \subseteq Tasks /\ 0 \notin Tasks
    /\ \A t \in Nested : /\ t \in 1..NumTasks /\ Child(t) \in Tasks
                         /\ Child(t) \notin 1..NumTasks
    /\ \A s, t \in Nested : Child(s) = Child(t) => s = t
<1> USE StdPoolAssumption DEF Workers, Threads, Main, NoOne, Tasks, Child
<1>1. Threads = Workers \cup {Main}
  OBVIOUS
<1>2. \A t \in Nested : t \in 1..NumTasks /\ Child(t) \notin 1..NumTasks
  OBVIOUS
<1>3. 0 \notin Tasks
  OBVIOUS
<1>4. \A s, t \in Nested : Child(s) = Child(t) => s = t
  OBVIOUS
<1> QED BY <1>1, <1>2, <1>3, <1>4

\* Before the constructor has created a thread the invariant holds.
LEMMA InitIInv == Init => IInv
<1> SUFFICES ASSUME Init PROVE IInv
  OBVIOUS
<1> USE Constants DEF Init
<1>1. TypeOK
  <2>1. pc \in [Threads -> MainStates \cup WorkerStates]
    BY DEF MainStates, WorkerStates
  <2>2. pc[Main] \in MainStates /\ \A w \in Workers : pc[w] \in WorkerStates
    BY DEF MainStates, WorkerStates
  <2>3. tasks \in Seq(Tasks) /\ task \in [Workers -> Tasks \cup {0}] /\ num \in Nat
    OBVIOUS
  <2> QED BY <2>1, <2>2, <2>3 DEF TypeOK
<1>2. LockInv
  BY DEF LockInv
<1>3. MainInv
  BY DEF MainInv, Workers
<1>4. WorkerInv
  BY DEF WorkerInv
<1>5. PlaceInv
  BY DEF PlaceInv
<1>6. FreshInv
  BY DEF FreshInv
<1> QED BY <1>1, <1>2, <1>3, <1>4, <1>5, <1>6 DEF IInv

\* The task that a thread at its push enqueues is a task nobody enqueued yet.
LEMMA ArgIsFresh ==
    ASSUME IInv, NEW t \in Threads, pc[t] = "push"
    PROVE  /\ Arg(t) \in Tasks /\ Arg(t) \notin accepted
           /\ t = Main => Arg(t) = num /\ num \in 1..NumTasks
           /\ t # Main => /\ t \in Workers /\ task[t] \in Nested
                          /\ Arg(t) = Child(task[t])
<1> USE Constants
<1>1. CASE t = Main
  <2>1. num \in 1..NumTasks
    BY <1>1 DEF IInv, MainInv
  <2>2. num \notin accepted
    BY <1>1, <2>1 DEF IInv, FreshInv
  <2> QED BY <1>1, <2>1, <2>2 DEF Arg
<1>2. CASE t # Main
  <2>1. t \in Workers /\ task[t] \in Nested /\ task[t] # 0
    BY <1>2 DEF IInv, WorkerInv
  <2>2. task[t] \notin finished
    BY <2>1 DEF IInv, PlaceInv
  <2>3. \A w \in Workers : task[w] = task[t] => w = t
    BY <2>1 DEF IInv, PlaceInv
  <2>4. Child(task[t]) \notin accepted
    BY <2>1, <2>2, <2>3 DEF IInv, FreshInv
  <2> QED BY <1>2, <2>1, <2>4 DEF Arg
<1> QED BY <1>1, <1>2

\* Every step keeps the variables within their types.
LEMMA TypeStep == IInv /\ [Next]_vars => TypeOK'
<1> SUFFICES ASSUME IInv, [Next]_vars PROVE TypeOK'
  OBVIOUS
<1>0. TypeOK
  BY DEF IInv
<1>a. \A t \in Threads : /\ t = Main \/ t \in Workers
                         /\ t = Main => t \notin Workers
  BY Constants
<1> USE Constants, <1>0 DEF TypeOK, MainStates, WorkerStates, At, Acquire, Release
<1>1. CASE Create
  <2>1. num \in Workers
    BY <1>1 DEF Create, IInv, MainInv
  <2>2. pc' = [pc EXCEPT ![num] = "lock",
                        ![Main] = IF num < threads THEN "create" ELSE "enq"]
    BY <1>1 DEF Create
  <2>3. /\ pc' \in [Threads -> MainStates \cup WorkerStates]
        /\ pc'[Main] \in MainStates /\ \A w \in Workers : pc'[w] \in WorkerStates
    BY <2>1, <2>2
  <2>4. num' \in Nat
    BY <1>1, <2>1 DEF Create
  <2> QED BY <1>1, <2>3, <2>4 DEF Create
<1>2. ASSUME NEW t \in Threads, Enqueue(t) PROVE TypeOK'
  <2>1. CASE EnqueueLock(t)
    BY <1>a, <2>1 DEF EnqueueLock
  <2>2. CASE EnqueuePush(t)
    <3>1. Arg(t) \in Tasks
      BY <2>2, ArgIsFresh DEF EnqueuePush
    <3>2. tasks' \in Seq(Tasks) /\ accepted' \in SUBSET Tasks
      BY <2>2, <3>1 DEF EnqueuePush
    <3> QED BY <1>a, <2>2, <3>2 DEF EnqueuePush
  <2>3. CASE EnqueueThrow(t)
    <3>1. t \in Workers
      BY <1>a, <2>3 DEF EnqueueThrow, IInv, MainInv
    <3> QED BY <2>3, <3>1 DEF EnqueueThrow
  <2>4. CASE EnqueueNotify(t)
    <3>1. num' \in Nat
      BY <2>4 DEF EnqueueNotify, NextNum
    <3>2. DEFINE back == [pc EXCEPT ![t] = Resume(t)]
    <3>3. /\ back \in [Threads -> MainStates \cup WorkerStates]
          /\ back[Main] \in MainStates /\ \A w \in Workers : back[w] \in WorkerStates
      BY <1>a DEF Resume
    <3>4. /\ pc' \in [Threads -> MainStates \cup WorkerStates]
          /\ pc'[Main] \in MainStates /\ \A w \in Workers : pc'[w] \in WorkerStates
      <4>1. CASE pc' = back
        BY <3>3, <4>1
      <4>2. ASSUME NEW w \in Waiting, pc' = [back EXCEPT ![w] = "lock"]
            PROVE  /\ pc' \in [Threads -> MainStates \cup WorkerStates]
                   /\ pc'[Main] \in MainStates
                   /\ \A v \in Workers : pc'[v] \in WorkerStates
        <5> HIDE DEF back
        <5> QED BY <3>3, <4>2 DEF Waiting
      <4> QED BY <2>4, <4>1, <4>2 DEF EnqueueNotify
    <3> QED BY <2>4, <3>1, <3>4 DEF EnqueueNotify
  <2> QED BY <1>2, <2>1, <2>2, <2>3, <2>4 DEF Enqueue
<1>3. CASE Get \/ Leave
  BY <1>3 DEF Get, Leave
<1>4. CASE Destroy
  <2>1. CASE StopLock \/ StopSet
    BY <2>1 DEF StopLock, StopSet
  <2>2. CASE NotifyAll
    BY <2>2 DEF NotifyAll
  <2>3. CASE Join
    <3>1. num' \in Nat /\ pc' \in [Threads -> MainStates \cup WorkerStates]
      BY <2>3 DEF Join
    <3>2. pc'[Main] \in MainStates /\ \A w \in Workers : pc'[w] \in WorkerStates
      BY <2>3 DEF Join
    <3> QED BY <2>3, <3>1, <3>2 DEF Join
  <2> QED BY <1>4, <2>1, <2>2, <2>3 DEF Destroy
<1>5. ASSUME NEW w \in Workers,
             WorkerLock(w) \/ WorkerWait(w) \/ WorkerReturn(w) \/ WorkerCall(w)
             \/ SpuriousWakeup(w)
      PROVE  TypeOK'
  BY <1>5 DEF WorkerLock, WorkerWait, WorkerReturn, WorkerCall, SpuriousWakeup
<1>6. ASSUME NEW w \in Workers, WorkerPop(w) PROVE TypeOK'
  <2>1. Head(tasks) \in Tasks /\ Tail(tasks) \in Seq(Tasks)
    BY <1>6 DEF WorkerPop
  <2>2. task' \in [Workers -> Tasks \cup {0}]
    BY <1>6, <2>1 DEF WorkerPop
  <2>3. tasks' \in Seq(Tasks)
    BY <1>6, <2>1 DEF WorkerPop
  <2> QED BY <1>6, <2>2, <2>3 DEF WorkerPop
<1>7. ASSUME NEW w \in Workers, WorkerDone(w) PROVE TypeOK'
  <2>1. task[w] \in Tasks
    BY <1>7 DEF WorkerDone, IInv, WorkerInv
  <2>2. finished' \in SUBSET Tasks
    BY <1>7, <2>1 DEF WorkerDone
  <2> QED BY <1>7, <2>2 DEF WorkerDone
<1>8. CASE UNCHANGED vars
  BY <1>8 DEF vars
<1> QED
  BY <1>1, <1>2, <1>3, <1>4, <1>5, <1>6, <1>7, <1>8
  DEF Next, Worker, Terminated

\* Whatever a step does to the control states, this much is common to all.
LEMMA Facts ==
    IInv => /\ TypeOK /\ LockInv /\ MainInv /\ WorkerInv /\ PlaceInv /\ FreshInv
            /\ pc \in [Threads -> MainStates \cup WorkerStates]
            /\ task \in [Workers -> Tasks \cup {0}] /\ tasks \in Seq(Tasks)
            /\ Len(tasks) \in Nat /\ num \in Nat /\ stop \in BOOLEAN
            /\ pc[Main] \in MainStates /\ \A w \in Workers : pc[w] \in WorkerStates
            /\ pc[Main] = "create" => num \in Workers /\ pc[num] = "unborn"
BY Constants DEF IInv, TypeOK, MainInv, Workers

\* queue_mutex passes from holder to holder.
LEMMA LockStep == IInv /\ [Next]_vars => LockInv'
<1> SUFFICES ASSUME IInv, [Next]_vars PROVE LockInv'
  OBVIOUS
<1>0. /\ LockInv /\ pc \in [Threads -> MainStates \cup WorkerStates]
      /\ \A w \in Workers : pc[w] \in WorkerStates
      /\ pc[Main] = "create" => num \in Workers /\ pc[num] = "unborn"
  BY Facts
<1> USE <1>0, Constants DEF LockInv, At, Acquire, Release, WorkerStates
<1>1. CASE Create
  BY <1>1 DEF Create
<1>2. ASSUME NEW t \in Threads, EnqueueLock(t) PROVE LockInv'
  BY <1>2 DEF EnqueueLock
<1>3. ASSUME NEW t \in Threads, EnqueuePush(t) \/ EnqueueThrow(t) PROVE LockInv'
  BY <1>3 DEF EnqueuePush, EnqueueThrow
<1>4. ASSUME NEW t \in Threads, EnqueueNotify(t) PROVE LockInv'
  BY <1>4 DEF EnqueueNotify, Waiting, Resume
<1>5. CASE Get \/ Leave
  BY <1>5 DEF Get, Leave
<1>6. CASE StopLock
  BY <1>6 DEF StopLock
<1>7. CASE StopSet
  BY <1>7 DEF StopSet
<1>8. CASE NotifyAll
  BY <1>8 DEF NotifyAll, Waiting
<1>9. CASE Join
  BY <1>9 DEF Join
<1>10. ASSUME NEW w \in Workers, WorkerLock(w) PROVE LockInv'
  BY <1>10 DEF WorkerLock
<1>11. ASSUME NEW w \in Workers, WorkerWait(w) \/ WorkerReturn(w) PROVE LockInv'
  BY <1>11 DEF WorkerWait, WorkerReturn
<1>12. ASSUME NEW w \in Workers, WorkerPop(w) PROVE LockInv'
  BY <1>12 DEF WorkerPop
<1>13. ASSUME NEW w \in Workers, WorkerCall(w) \/ WorkerDone(w) \/ SpuriousWakeup(w)
       PROVE  LockInv'
  BY <1>13 DEF WorkerCall, WorkerDone, SpuriousWakeup
<1>14. CASE UNCHANGED vars
  BY <1>14 DEF vars
<1> QED
  BY <1>1, <1>2, <1>3, <1>4, <1>5, <1>6, <1>7, <1>8, <1>9, <1>10, <1>11, <1>12,
     <1>13, <1>14
  DEF Next, Enqueue, Destroy, Worker, Terminated

\* What a worker does is not seen by main's loops, except that it exits, and an
\* exited worker stays exited.
LEMMA MainStep == IInv /\ [Next]_vars => MainInv'
<1> SUFFICES ASSUME IInv, [Next]_vars PROVE MainInv'
  OBVIOUS
<1>0. /\ MainInv /\ pc \in [Threads -> MainStates \cup WorkerStates]
      /\ \A w \in Workers : pc[w] \in WorkerStates
      /\ num \in Nat /\ stop \in BOOLEAN /\ threads \in Nat \ {0}
      /\ NumTasks \in Nat \ {0}
  BY Facts, StdPoolAssumption
<1> USE <1>0, Constants DEF MainInv
<1>a. ASSUME /\ pc'[Main] = pc[Main] /\ num' = num /\ stop' = stop
             /\ \A v \in Workers : /\ pc[v] = "exit" => pc'[v] = "exit"
                                   /\ pc[v] = "unborn" => pc'[v] = "unborn"
      PROVE  MainInv'
  <2>1. pc'[Main] = "create" =>
          num' \in Workers /\ \A v \in num'..threads : pc'[v] = "unborn"
    BY <1>a DEF Workers
  <2>2. pc'[Main] = "join" =>
          num' \in Workers /\ \A v \in 1..(num' - 1) : pc'[v] = "exit"
    BY <1>a DEF Workers
  <2>3. pc'[Main] = "done" => \A w \in Workers : pc'[w] = "exit"
    BY <1>a
  <2>4. /\ pc'[Main] \in {"enq", "push", "notify", "get"} => num' \in 1..NumTasks
        /\ stop' <=> (pc'[Main] \in {"notifyall", "join", "done"})
    BY <1>a
  <2> QED BY <2>1, <2>2, <2>3, <2>4
<1>1. CASE Create
  BY <1>1 DEF Create, Workers, Main
<1>2. CASE Enqueue(Main)
  <2> USE DEF At, Workers
  <2>1. CASE EnqueueLock(Main) \/ EnqueuePush(Main)
    BY <2>1 DEF EnqueueLock, EnqueuePush
  <2>2. CASE EnqueueThrow(Main)
    BY <2>2 DEF EnqueueThrow
  <2>3. CASE EnqueueNotify(Main)
    <3>1. /\ pc'[Main] = IF num < NumTasks THEN "enq" ELSE "get"
          /\ num' = IF num < NumTasks THEN num + 1 ELSE 1
          /\ stop' = stop /\ num \in 1..NumTasks /\ ~stop
      BY <2>3 DEF EnqueueNotify, Resume, NextNum, Waiting
    <3> QED BY <3>1
  <2> QED BY <1>2, <2>1, <2>2, <2>3 DEF Enqueue
<1>3. CASE Get \/ Leave
  BY <1>3 DEF Get, Leave, At
<1>4. CASE StopLock \/ StopSet
  BY <1>4 DEF StopLock, StopSet, At
<1>5. CASE NotifyAll
  <2>1. pc'[Main] = "join" /\ num' = 1 /\ stop' = stop /\ stop
    BY <1>5 DEF NotifyAll
  <2> QED BY <2>1 DEF Workers
<1>6. CASE Join
  <2>1. \A v \in Workers : pc'[v] = pc[v]
    BY <1>6 DEF Join
  <2>2. /\ num \in Workers /\ pc[num] = "exit" /\ num' = num + 1
        /\ pc'[Main] = IF num < threads THEN "join" ELSE "done"
        /\ stop' = stop /\ stop
    BY <1>6 DEF Join
  <2>3. \A v \in 1..num : pc'[v] = "exit"
    BY <1>6, <2>1, <2>2 DEF Join, Workers
  <2> QED BY <2>2, <2>3 DEF Workers
<1>7. ASSUME NEW w \in Workers, Worker(w) \/ SpuriousWakeup(w) PROVE MainInv'
  <2> USE DEF At
  <2>1. w # Main /\ Waiting \subseteq Workers
    BY DEF Waiting
  <2>2. CASE \/ WorkerLock(w) \/ WorkerWait(w) \/ WorkerReturn(w) \/ WorkerPop(w)
             \/ WorkerCall(w) \/ WorkerDone(w) \/ SpuriousWakeup(w)
    BY <1>a, <2>1, <2>2
    DEF WorkerLock, WorkerWait, WorkerReturn, WorkerPop, WorkerCall, WorkerDone,
        SpuriousWakeup
  <2>3. CASE EnqueueLock(w) \/ EnqueuePush(w) \/ EnqueueThrow(w)
    BY <1>a, <2>1, <2>3 DEF EnqueueLock, EnqueuePush, EnqueueThrow
  <2>4. CASE EnqueueNotify(w)
    BY <1>a, <2>1, <2>4 DEF EnqueueNotify, NextNum, Resume, Waiting
  <2> QED BY <1>7, <2>2, <2>3, <2>4 DEF Worker, Enqueue
<1>8. CASE UNCHANGED vars
  BY <1>8 DEF vars
<1> QED
  BY <1>1, <1>2, <1>3, <1>4, <1>5, <1>6, <1>7, <1>8 DEF Next, Destroy, Terminated

\* A worker's task goes with its control state, and nothing is put into a queue
\* that is stopped.
LEMMA WorkerStep == IInv /\ [Next]_vars => WorkerInv'
<1> SUFFICES ASSUME IInv, [Next]_vars PROVE WorkerInv'
  OBVIOUS
<1>0. /\ WorkerInv /\ pc \in [Threads -> MainStates \cup WorkerStates]
      /\ \A w \in Workers : pc[w] \in WorkerStates
      /\ task \in [Workers -> Tasks \cup {0}] /\ tasks \in Seq(Tasks)
      /\ pc[Main] = "create" => num \in Workers /\ pc[num] = "unborn"
  BY Facts
<1> USE <1>0, Constants DEF WorkerInv, WorkerStates, At
<1>1. CASE Create
  BY <1>1 DEF Create
<1>2. ASSUME NEW t \in Threads, EnqueueLock(t) \/ EnqueueThrow(t) PROVE WorkerInv'
  BY <1>2 DEF EnqueueLock, EnqueueThrow
<1>3. ASSUME NEW t \in Threads, EnqueuePush(t) PROVE WorkerInv'
  <2>1. ~stop /\ \A w \in Workers : pc'[w] # "exit"
    BY <1>3 DEF EnqueuePush
  <2> QED BY <1>3, <2>1 DEF EnqueuePush
<1>4. ASSUME NEW t \in Threads, EnqueueNotify(t) PROVE WorkerInv'
  BY <1>4 DEF EnqueueNotify, Waiting, Resume
<1>5. CASE Get \/ Leave
  BY <1>5 DEF Get, Leave
<1>6. CASE Destroy
  BY <1>6 DEF Destroy, StopLock, StopSet, NotifyAll, Join, Waiting
<1>7. ASSUME NEW w \in Workers, WorkerLock(w) \/ WorkerWait(w) \/ WorkerReturn(w)
             \/ SpuriousWakeup(w)
      PROVE  WorkerInv'
  BY <1>7 DEF WorkerLock, WorkerWait, WorkerReturn, SpuriousWakeup
<1>8. ASSUME NEW w \in Workers, WorkerPop(w) PROVE WorkerInv'
  <2>1. Head(tasks) \in Tasks /\ tasks # <<>>
    BY <1>8 DEF WorkerPop
  <2>2. task' = [task EXCEPT ![w] = Head(tasks)] /\ stop' = stop
    BY <1>8 DEF WorkerPop
  <2>3. pc' = [pc EXCEPT ![w] = "run"]
    BY <1>8 DEF WorkerPop
  <2> QED BY <2>1, <2>2, <2>3
<1>9. ASSUME NEW w \in Workers, WorkerCall(w) \/ WorkerDone(w) PROVE WorkerInv'
  BY <1>9 DEF WorkerCall, WorkerDone
<1>10. CASE UNCHANGED vars
  BY <1>10 DEF vars
<1> QED
  BY <1>1, <1>2, <1>3, <1>4, <1>5, <1>6, <1>7, <1>8, <1>9, <1>10
  DEF Next, Worker, Enqueue, Terminated

\* While the tasks, their workers and the accepted ones stay as they are, each
\* task stays in its place.
LEMMA PlaceStep == IInv /\ [Next]_vars => PlaceInv'
<1> SUFFICES ASSUME IInv, [Next]_vars PROVE PlaceInv'
  OBVIOUS
<1>0. /\ PlaceInv /\ WorkerInv /\ task \in [Workers -> Tasks \cup {0}]
      /\ tasks \in Seq(Tasks) /\ Len(tasks) \in Nat
  BY Facts
<1>1. CASE UNCHANGED <<tasks, task, accepted, finished>>
  BY <1>0, <1>1 DEF PlaceInv
<1>2. CASE Create \/ Get \/ Leave \/ Destroy
  BY <1>1, <1>2 DEF Create, Get, Leave, Destroy, StopLock, StopSet, NotifyAll, Join
<1>3. ASSUME NEW t \in Threads, EnqueueLock(t) \/ EnqueueThrow(t) \/ EnqueueNotify(t)
      PROVE  PlaceInv'
  BY <1>1, <1>3 DEF EnqueueLock, EnqueueThrow, EnqueueNotify
<1>4. ASSUME NEW t \in Threads, EnqueuePush(t) PROVE PlaceInv'
  <2> DEFINE a == Arg(t)
             n == Len(tasks)
  <2>1. a \in Tasks /\ a \notin accepted
    BY <1>4, ArgIsFresh DEF EnqueuePush, At
  <2>2. /\ tasks' = Append(tasks, a) /\ accepted' = accepted \cup {a}
        /\ task' = task /\ finished' = finished
    BY <1>4 DEF EnqueuePush
  <2> HIDE DEF a
  <2>3. /\ Len(tasks') = n + 1 /\ tasks'[n + 1] = a
        /\ \A i \in 1..n : tasks'[i] = tasks[i]
    BY <1>0, <2>1, <2>2
  <2>4. a \notin finished /\ \A w \in Workers : task[w] # a
    BY <1>0, <2>1, Constants DEF PlaceInv
  <2>5. \A i \in 1..n : tasks[i] # a
    BY <1>0, <2>1 DEF PlaceInv
  <2>6. ASSUME NEW i \in 1..Len(tasks')
        PROVE  /\ tasks'[i] \in accepted' \ finished'
               /\ \A w \in Workers : task'[w] # tasks'[i]
               /\ \A j \in 1..Len(tasks') : tasks'[i] = tasks'[j] => i = j
    <3>1. CASE i = n + 1
      BY <1>0, <2>1, <2>2, <2>3, <2>4, <2>5, <3>1
    <3>2. CASE i \in 1..n
      BY <1>0, <2>2, <2>3, <2>5, <3>2 DEF PlaceInv
    <3> QED BY <1>0, <2>3, <3>1, <3>2
  <2>7. \A x \in accepted' : \/ x \in finished'
                             \/ \E w \in Workers : task'[w] = x
                             \/ \E i \in 1..Len(tasks') : tasks'[i] = x
    <3>1. \E i \in 1..Len(tasks') : tasks'[i] = a
      BY <1>0, <2>3
    <3>2. \A i \in 1..n : i \in 1..Len(tasks') /\ tasks'[i] = tasks[i]
      BY <1>0, <2>3
    <3> QED BY <1>0, <2>2, <3>1, <3>2 DEF PlaceInv
  <2> QED BY <1>0, <2>2, <2>6, <2>7 DEF PlaceInv
<1>5. ASSUME NEW w \in Workers,
             WorkerLock(w) \/ WorkerWait(w) \/ WorkerReturn(w) \/ WorkerCall(w)
             \/ SpuriousWakeup(w)
      PROVE  PlaceInv'
  BY <1>1, <1>5
  DEF WorkerLock, WorkerWait, WorkerReturn, WorkerCall, SpuriousWakeup
<1>6. ASSUME NEW w \in Workers, WorkerPop(w) PROVE PlaceInv'
  <2> DEFINE h == Head(tasks)
  <2>1. /\ tasks # <<>> /\ tasks' = Tail(tasks) /\ accepted' = accepted
        /\ task' = [task EXCEPT ![w] = h] /\ finished' = finished
    BY <1>6 DEF WorkerPop
  <2>2. task[w] = 0
    BY <1>0, <1>6 DEF WorkerPop, At, WorkerInv
  <2>3. /\ Len(tasks) >= 1 /\ h = tasks[1] /\ h \in Tasks /\ 1 \in 1..Len(tasks)
        /\ Len(tasks') = Len(tasks) - 1
        /\ \A i \in 1..Len(tasks') : /\ tasks'[i] = tasks[i + 1]
                                     /\ i + 1 \in 1..Len(tasks)
    BY <1>0, <2>1
  <2>4. h \in accepted \ finished /\ \A v \in Workers : task[v] # h
    BY <1>0, <2>3 DEF PlaceInv
  <2>5. task'[w] = h /\ \A v \in Workers \ {w} : task'[v] = task[v]
    BY <1>0, <2>1
  <2>6. \A j \in 1..Len(tasks') : tasks'[j] # h
    BY <1>0, <2>3 DEF PlaceInv
  <2>7. ASSUME NEW i \in 1..Len(tasks')
        PROVE  /\ tasks'[i] \in accepted' \ finished'
               /\ \A v \in Workers : task'[v] # tasks'[i]
               /\ \A j \in 1..Len(tasks') : tasks'[i] = tasks'[j] => i = j
    <3>1. tasks'[i] \in accepted \ finished /\ \A v \in Workers : task[v] # tasks'[i]
      BY <1>0, <2>3 DEF PlaceInv
    <3>2. \A j \in 1..Len(tasks') : tasks'[i] = tasks'[j] => i + 1 = j + 1
      BY <1>0, <2>3 DEF PlaceInv
    <3> QED BY <1>0, <2>1, <2>3, <2>5, <2>6, <3>1, <3>2
  <2>8. \A x \in accepted' : \/ x \in finished'
                             \/ \E v \in Workers : task'[v] = x
                             \/ \E i \in 1..Len(tasks') : tasks'[i] = x
    <3>1. ASSUME NEW i \in 1..Len(tasks)
          PROVE  \/ tasks[i] = h
                 \/ \E j \in 1..Len(tasks') : tasks'[j] = tasks[i]
      <4>1. CASE i = 1
        BY <2>3, <4>1
      <4>2. CASE i # 1
        <5>1. i - 1 \in 1..Len(tasks') /\ tasks'[i - 1] = tasks[i]
          BY <1>0, <2>3, <4>2
        <5> QED BY <5>1
      <4> QED BY <4>1, <4>2
    <3>2. \A v \in Workers : task[v] # 0 => task'[v] = task[v]
      BY <2>2, <2>5
    <3>3. \A x \in accepted : x # 0
      BY Facts, Constants DEF TypeOK
    <3> QED BY <1>0, <2>1, <2>5, <3>1, <3>2, <3>3 DEF PlaceInv
  <2> HIDE DEF h
  <2>9. /\ finished' \subseteq accepted'
        /\ \A v \in Workers : task'[v] # 0 => task'[v] \in accepted' \ finished'
        /\ \A v, u \in Workers : v # u /\ task'[v] = task'[u] => task'[v] = 0
    BY <1>0, <2>1, <2>4, <2>5 DEF PlaceInv
  <2> QED BY <2>7, <2>8, <2>9 DEF PlaceInv
<1>7. ASSUME NEW w \in Workers, WorkerDone(w) PROVE PlaceInv'
  <2>1. /\ tasks' = tasks /\ accepted' = accepted
        /\ finished' = finished \cup {task[w]}
        /\ task'[w] = 0 /\ \A v \in Workers \ {w} : task'[v] = task[v]
    BY <1>0, <1>7 DEF WorkerDone
  <2>2. task[w] # 0
    BY <1>0, <1>7, Constants DEF WorkerDone, At, WorkerInv
  <2> QED BY <1>0, <2>1, <2>2, Constants DEF PlaceInv
<1>8. CASE UNCHANGED vars
  BY <1>1, <1>8 DEF vars
<1> QED
  BY <1>2, <1>3, <1>4, <1>5, <1>6, <1>7, <1>8, Constants
  DEF Next, Worker, Enqueue, Terminated

\* A task is accepted when its caller passes its push, and not before.
LEMMA FreshStep == IInv /\ [Next]_vars => FreshInv'
<1> SUFFICES ASSUME IInv, [Next]_vars PROVE FreshInv'
  OBVIOUS
<1>0. /\ FreshInv /\ WorkerInv /\ MainInv
      /\ pc \in [Threads -> MainStates \cup WorkerStates]
      /\ task \in [Workers -> Tasks \cup {0}] /\ num \in Nat
      /\ \A w \in Workers : pc[w] \in WorkerStates
      /\ pc[Main] = "create" => num \in Workers /\ pc[num] = "unborn"
  BY Facts
<1> USE Constants DEF At
<1>a. ASSUME /\ accepted' = accepted /\ finished' = finished /\ task' = task
             /\ \/ pc'[Main] \notin {"create", "enq", "push", "notify"}
                \/ pc'[Main] = pc[Main] /\ num' = num
                \/ pc[Main] = "enq" /\ pc'[Main] = "push" /\ num' = num
             /\ \A v \in Workers :
                   pc[v] \in {"notify", "end"} => pc'[v] \in {"notify", "end"}
      PROVE  FreshInv'
  BY <1>0, <1>a DEF FreshInv
<1>1. CASE Create
  <2>1. /\ accepted = {} /\ accepted' = {}
    BY <1>0, <1>1 DEF Create, FreshInv
  <2> QED BY <2>1 DEF FreshInv
<1>2. ASSUME NEW t \in Threads, EnqueueLock(t) \/ EnqueueThrow(t) PROVE FreshInv'
  BY <1>0, <1>a, <1>2 DEF EnqueueLock, EnqueueThrow
<1>3. ASSUME NEW t \in Threads, EnqueuePush(t) PROVE FreshInv'
  <2>1. /\ accepted' = accepted \cup {Arg(t)} /\ finished' = finished /\ task' = task
        /\ num' = num /\ pc[t] = "push" /\ pc' = [pc EXCEPT ![t] = "notify"]
    BY <1>3 DEF EnqueuePush
  <2>2. CASE t = Main
    <3>1. Arg(t) = num /\ num \in 1..NumTasks
      BY <2>1, <2>2, ArgIsFresh
    <3>2. pc'[Main] = "notify" /\ \A w \in Workers : pc'[w] = pc[w]
      BY <1>0, <2>1, <2>2
    <3>3. \A i \in accepted' \cap 1..NumTasks : i <= num
      BY <1>0, <2>1, <2>2, <3>1 DEF FreshInv
    <3>4. \A x \in Nested : Child(x) \in accepted' => Child(x) \in accepted
      BY <2>1, <3>1
    <3> QED BY <1>0, <2>1, <3>2, <3>3, <3>4 DEF FreshInv
  <2>3. CASE t # Main
    <3>1. t \in Workers /\ task[t] \in Nested /\ Arg(t) = Child(task[t])
      BY <2>1, <2>3, ArgIsFresh
    <3>2. pc'[t] = "notify" /\ pc'[Main] = pc[Main]
          /\ \A v \in Workers \ {t} : pc'[v] = pc[v]
      BY <1>0, <2>1, <2>3, <3>1
    <3>3. accepted' \cap 1..NumTasks = accepted \cap 1..NumTasks
      BY <2>1, <3>1
    <3>4. \A x \in Nested : Child(x) \in accepted' => x = task[t] \/ Child(x) \in accepted
      BY <2>1, <3>1
    <3>5. pc[Main] # "create"
      BY <1>0, <2>1, <3>1 DEF IInv, PlaceInv, FreshInv
    <3>6. \A x \in Nested : Child(x) \in accepted' =>
            \/ x \in finished'
            \/ \E w \in Workers : task'[w] = x /\ pc'[w] \in {"notify", "end"}
      BY <1>0, <2>1, <3>1, <3>2, <3>4 DEF FreshInv
    <3> QED BY <1>0, <2>1, <3>2, <3>3, <3>5, <3>6 DEF FreshInv
  <2> QED BY <2>2, <2>3
<1>4. ASSUME NEW t \in Threads, EnqueueNotify(t) PROVE FreshInv'
  <2>1. /\ accepted' = accepted /\ finished' = finished /\ task' = task
        /\ num' = NextNum(t) /\ pc[t] = "notify"
    BY <1>4 DEF EnqueueNotify
  <2>2. CASE t = Main
    <3>1. /\ pc'[Main] = IF num < NumTasks THEN "enq" ELSE "get"
          /\ num' = IF num < NumTasks THEN num + 1 ELSE 1
      BY <1>0, <1>4, <2>1, <2>2 DEF EnqueueNotify, Resume, NextNum, Waiting
    <3>2. \A v \in Workers :
            pc[v] \in {"notify", "end"} => pc'[v] \in {"notify", "end"}
      BY <1>0, <1>4, <2>2 DEF EnqueueNotify, Waiting
    <3>3. pc'[Main] = "enq" => \A i \in accepted \cap 1..NumTasks : i < num'
      BY <1>0, <2>1, <2>2, <3>1 DEF FreshInv
    <3> QED BY <1>0, <2>1, <3>1, <3>2, <3>3 DEF FreshInv
  <2>3. CASE t # Main
    <3>1. num' = num /\ pc'[Main] = pc[Main]
      BY <1>0, <1>4, <2>1, <2>3 DEF EnqueueNotify, Resume, NextNum, Waiting
    <3>2. \A v \in Workers :
            pc[v] \in {"notify", "end"} => pc'[v] \in {"notify", "end"}
      BY <1>0, <1>4, <2>3 DEF EnqueueNotify, Waiting, Resume
    <3> QED BY <1>a, <2>1, <3>1, <3>2
  <2> QED BY <2>2, <2>3
<1>5. CASE Get \/ Leave
  BY <1>0, <1>a, <1>5 DEF Get, Leave
<1>6. CASE Destroy
  BY <1>0, <1>a, <1>6 DEF Destroy, StopLock, StopSet, NotifyAll, Join, Waiting
<1>7. ASSUME NEW w \in Workers, WorkerLock(w) \/ WorkerWait(w) \/ WorkerReturn(w)
             \/ SpuriousWakeup(w) \/ WorkerCall(w)
      PROVE  FreshInv'
  BY <1>0, <1>a, <1>7
  DEF WorkerLock, WorkerWait, WorkerReturn, SpuriousWakeup, WorkerCall
<1>8. ASSUME NEW w \in Workers, WorkerPop(w) PROVE FreshInv'
  <2>1. /\ accepted' = accepted /\ finished' = finished /\ num' = num
        /\ task[w] = 0 /\ \A v \in Workers \ {w} : task'[v] = task[v]
        /\ pc'[Main] = pc[Main] /\ \A v \in Workers \ {w} : pc'[v] = pc[v]
    BY <1>0, <1>8 DEF WorkerPop, WorkerInv
  <2>2. \A t \in Nested : t # 0
    OBVIOUS
  <2> QED BY <1>0, <2>1, <2>2 DEF FreshInv
<1>9. ASSUME NEW w \in Workers, WorkerDone(w) PROVE FreshInv'
  <2>1. /\ accepted' = accepted /\ finished' = finished \cup {task[w]} /\ num' = num
        /\ \A v \in Workers \ {w} : task'[v] = task[v]
        /\ pc'[Main] = pc[Main] /\ \A v \in Workers \ {w} : pc'[v] = pc[v]
    BY <1>0, <1>9 DEF WorkerDone
  <2> QED BY <1>0, <2>1 DEF FreshInv
<1>10. CASE UNCHANGED vars
  BY <1>0, <1>a, <1>10 DEF vars
<1> QED
  BY <1>1, <1>2, <1>3, <1>4, <1>5, <1>6, <1>7, <1>8, <1>9, <1>10
  DEF Next, Worker, Enqueue, Terminated

\* IInv holds in every state of every behaviour of the pool.
THEOREM Invariance == Spec => []IInv
<1>1. IInv /\ [Next]_vars => IInv'
  BY TypeStep, LockStep, MainStep, WorkerStep, PlaceStep, FreshStep DEF IInv
<1> QED BY InitIInv, <1>1, PTL DEF Spec

\* The variables of the pool keep their types.
THEOREM TypeCorrect == Spec => []TypeOK
<1>1. IInv => TypeOK
  BY DEF IInv
<1> QED BY Invariance, <1>1, PTL

\* When the destructor has returned, every accepted task has run and no worker
\* is left: a task that enqueues another keeps its own worker from leaving.
THEOREM DestructorDrainsHolds == Spec => []DestructorDrains
<1>1. IInv => DestructorDrains
  <2> SUFFICES ASSUME IInv, pc[Main] = "done"
               PROVE  /\ tasks = <<>> /\ finished = accepted
                      /\ \A w \in Workers : pc[w] = "exit"
    BY DEF DestructorDrains
  <2>1. \A w \in Workers : pc[w] = "exit"
    BY DEF IInv, MainInv
  <2>2. tasks = <<>> /\ \A w \in Workers : task[w] = 0
    BY <2>1, Constants DEF IInv, WorkerInv
  <2>3. 0 \notin accepted
    BY Constants DEF IInv, TypeOK
  <2>4. Len(tasks) = 0
    BY <2>2
  <2>5. accepted \subseteq finished
    BY <2>2, <2>3, <2>4 DEF IInv, PlaceInv
  <2> QED BY <2>1, <2>2, <2>5 DEF IInv, PlaceInv
<1> QED BY Invariance, <1>1, PTL

-----------------------------------------------------------------------------
\* A worker without a task leaves room for one more to run.
LEMMA RoomToRun ==
    ASSUME NEW w \in Workers, task[w] = 0
    PROVE  Cardinality(RunningTasks) < threads
<1>1. IsFiniteSet(Workers) /\ Cardinality(Workers) = threads
  BY Constants, FS_Interval DEF Workers
<1>2. /\ IsFiniteSet(Workers \ {w})
      /\ Cardinality(Workers \ {w}) = threads - 1
  BY <1>1, FS_RemoveElement
<1> DEFINE R == {task[v] : v \in Workers \ {w}}
           f == [v \in Workers \ {w} |-> task[v]]
<1>3. f \in Surjection(Workers \ {w}, R)
  BY DEF Surjection
<1>4. IsFiniteSet(R) /\ Cardinality(R) <= Cardinality(Workers \ {w})
  BY <1>2, <1>3, FS_Surjection
<1>5. RunningTasks \in SUBSET R
  BY DEF RunningTasks
<1>6. IsFiniteSet(RunningTasks) /\ Cardinality(RunningTasks) <= Cardinality(R)
  BY <1>4, <1>5, FS_Subset
<1>7. /\ Cardinality(R) \in Nat /\ Cardinality(RunningTasks) \in Nat
      /\ threads \in Nat
  BY <1>4, <1>6, FS_CardinalityType, Constants
<1> QED BY <1>2, <1>4, <1>6, <1>7

\* Every step of the pool is a step of TaskPool or changes nothing of it: a push
\* is a Submit, a pop a Start, the end of a call a Finish, setting stop a Close,
\* and the last join is Closed, with nothing left to run.
THEOREM ImplementsTaskPoolHolds == Spec => ImplementsTaskPool
<1>1. Init => TP!PoolInit
  BY Constants DEF Init, TP!PoolInit, RunningTasks
<1>2. IInv /\ IInv' /\ [Next]_vars => [TP!PoolNext]_(TP!poolVars)
  <2> SUFFICES ASSUME IInv, IInv', [Next]_vars
               PROVE  [TP!PoolNext]_(TP!poolVars)
    OBVIOUS
  <2> DEFINE phase == IF pc[Main] = "done" THEN "closed"
                      ELSE IF stop THEN "closing" ELSE "open"
  <2>0. /\ pc \in [Threads -> MainStates \cup WorkerStates]
        /\ task \in [Workers -> Tasks \cup {0}]
        /\ \A w \in Workers : pc[w] \in WorkerStates
        /\ pc[Main] = "create" => num \in Workers /\ pc[num] = "unborn"
        /\ stop <=> (pc[Main] \in {"notifyall", "join", "done"})
        /\ PlaceInv /\ WorkerInv /\ MainInv
    BY Facts DEF MainInv
  <2>a. ASSUME /\ tasks' = tasks /\ task' = task /\ accepted' = accepted
               /\ finished' = finished /\ stop' = stop
               /\ (pc[Main] = "done") <=> (pc'[Main] = "done")
        PROVE  [TP!PoolNext]_(TP!poolVars)
    BY <2>a DEF TP!poolVars, RunningTasks
  <2> USE Constants DEF At
  <2>1. CASE Create \/ Get \/ Leave
    BY <2>0, <2>1, <2>a DEF Create, Get, Leave
  <2>2. ASSUME NEW t \in Threads, EnqueueLock(t) \/ EnqueueThrow(t)
        PROVE  [TP!PoolNext]_(TP!poolVars)
    BY <2>0, <2>2, <2>a DEF EnqueueLock, EnqueueThrow
  <2>3. ASSUME NEW t \in Threads, EnqueuePush(t) PROVE TP!PoolNext
    <3>1. Arg(t) \in Tasks /\ Arg(t) \notin accepted
      BY <2>3, ArgIsFresh DEF EnqueuePush
    <3>2. phase = "open" /\ phase' = "open"
      BY <2>0, <2>3 DEF EnqueuePush
    <3>3. TP!Submit(Arg(t))
      BY <2>3, <3>1, <3>2 DEF EnqueuePush, TP!Submit, RunningTasks
    <3> QED BY <3>1, <3>3 DEF TP!PoolNext
  <2>4. ASSUME NEW t \in Threads, EnqueueNotify(t)
        PROVE  [TP!PoolNext]_(TP!poolVars)
    <3>1. (pc[Main] = "done") <=> (pc'[Main] = "done")
      BY <2>0, <2>4 DEF EnqueueNotify, Resume, Waiting
    <3> QED BY <2>4, <2>a, <3>1 DEF EnqueueNotify
  <2>5. CASE StopLock \/ NotifyAll
    BY <2>0, <2>5, <2>a DEF StopLock, NotifyAll
  <2>6. CASE StopSet
    <3>1. phase = "open" /\ phase' = "closing"
      BY <2>0, <2>6 DEF StopSet
    <3>2. TP!Close
      BY <2>6, <3>1 DEF StopSet, TP!Close, RunningTasks
    <3> QED BY <3>2 DEF TP!PoolNext
  <2>7. CASE Join
    <3>1. CASE pc'[Main] # "done"
      BY <2>0, <2>7, <2>a, <3>1 DEF Join
    <3>2. CASE pc'[Main] = "done"
      <4>1. phase = "closing" /\ phase' = "closed"
        BY <2>0, <2>7, <3>2 DEF Join
      <4>2. \A w \in Workers : pc'[w] = "exit"
        BY <3>2 DEF IInv, MainInv
      <4>3. tasks' = <<>> /\ \A w \in Workers : task'[w] = 0
        BY <4>2 DEF IInv, WorkerInv
      <4>4. /\ tasks' = tasks /\ task' = task /\ accepted' = accepted
            /\ finished' = finished
        BY <2>7 DEF Join
      <4>5. RunningTasks = {} /\ RunningTasks' = {}
        BY <4>3, <4>4 DEF RunningTasks
      <4>6. TP!Closed
        BY <4>1, <4>3, <4>4, <4>5 DEF TP!Closed
      <4> QED BY <4>6 DEF TP!PoolNext
    <3> QED BY <3>1, <3>2
  <2>8. ASSUME NEW w \in Workers,
               WorkerLock(w) \/ WorkerWait(w) \/ WorkerReturn(w) \/ WorkerCall(w)
               \/ SpuriousWakeup(w)
        PROVE  [TP!PoolNext]_(TP!poolVars)
    BY <2>0, <2>8, <2>a
    DEF WorkerLock, WorkerWait, WorkerReturn, WorkerCall, SpuriousWakeup
  <2>9. ASSUME NEW w \in Workers, WorkerPop(w) PROVE TP!PoolNext
    <3>1. /\ tasks # <<>> /\ tasks' = Tail(tasks) /\ stop' = stop
          /\ accepted' = accepted /\ finished' = finished /\ pc[w] = "held"
          /\ pc'[Main] = pc[Main]
      BY <2>0, <2>9 DEF WorkerPop
    <3>2. pc[Main] # "done" /\ task[w] = 0
      BY <2>0, <3>1 DEF MainInv, WorkerInv
    <3>3. Cardinality(RunningTasks) < threads
      BY <3>2, RoomToRun
    <3>4. RunningTasks' = RunningTasks \cup {Head(tasks)}
      <4>1. /\ task'[w] = Head(tasks)
            /\ \A v \in Workers \ {w} : task'[v] = task[v]
        BY <2>0, <2>9 DEF WorkerPop
      <4>2. Head(tasks) # 0
        BY <3>1, Facts
      <4> QED BY <3>2, <4>1, <4>2 DEF RunningTasks
    <3>5. phase # "closed" /\ phase' = phase
      BY <3>1, <3>2
    <3>6. TP!Start
      BY <3>1, <3>3, <3>4, <3>5 DEF TP!Start, TP!Cardinality, Cardinality
    <3> QED BY <3>6 DEF TP!PoolNext
  <2>10. ASSUME NEW w \in Workers, WorkerDone(w) PROVE TP!PoolNext
    <3>1. /\ tasks' = tasks /\ stop' = stop /\ accepted' = accepted
          /\ finished' = finished \cup {task[w]} /\ pc'[Main] = pc[Main]
          /\ task'[w] = 0 /\ \A v \in Workers \ {w} : task'[v] = task[v]
      BY <2>0, <2>10 DEF WorkerDone
    <3>2. task[w] # 0
      BY <2>0, <2>10 DEF WorkerDone, WorkerInv
    <3>3. \A v \in Workers \ {w} : task[v] # task[w]
      BY <2>0, <3>2 DEF PlaceInv
    <3>4. task[w] \in RunningTasks /\ RunningTasks' = RunningTasks \ {task[w]}
      BY <3>1, <3>2, <3>3 DEF RunningTasks
    <3>5. TP!Finish(task[w])
      BY <3>1, <3>4 DEF TP!Finish
    <3> QED BY <3>4, <3>5 DEF TP!PoolNext
  <2>11. CASE UNCHANGED vars
    BY <2>11, <2>a DEF vars
  <2> QED
    BY <2>1, <2>2, <2>3, <2>4, <2>5, <2>6, <2>7, <2>8, <2>9, <2>10, <2>11
    DEF Next, Worker, Enqueue, Destroy, Terminated
<1> QED
  BY <1>1, <1>2, Invariance, PTL DEF Spec, ImplementsTaskPool, TP!PoolSpec
=============================================================================
