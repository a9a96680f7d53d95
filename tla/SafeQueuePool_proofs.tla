------------------------ MODULE SafeQueuePool_proofs ------------------------
(***************************************************************************)
(* The order of the tasks and the promise of shutdown, for every number of *)
(* threads and tasks, and whichever futures main waits for.                *)
(***************************************************************************)
EXTENDS SafeQueuePool, SequenceTheorems, TLAPS

\* Before init has created a thread the invariant holds.
LEMMA InitIInv == Init => IInv
<1> SUFFICES ASSUME Init PROVE IInv
  OBVIOUS
<1> USE SafeQueuePoolAssumption DEF Init, Workers, Tasks, NoOne
<1>1. TypeOK
  <2>1. finished \subseteq Tasks /\ order \in Seq(Tasks) /\ m_queue \in Seq(Tasks)
    OBVIOUS
  <2>2. late \in [Workers -> Nat] /\ func \in [Workers -> 0..NumTasks]
    OBVIOUS
  <2> QED BY <2>1, <2>2 DEF TypeOK
<1>2. LockInv /\ WorkerInv /\ JobInv
  BY DEF LockInv, WorkerInv, JobInv
<1>3. MainInv
  BY DEF MainInv
<1>4. ListInv
  BY DEF ListInv, Submitted
<1> QED BY <1>1, <1>2, <1>3, <1>4 DEF IInv

\* Every step keeps the variables within their types.
LEMMA TypeStep == IInv /\ [Next]_vars => TypeOK'
<1> SUFFICES ASSUME IInv, [Next]_vars PROVE TypeOK'
  OBVIOUS
<1>0. TypeOK /\ MainInv /\ n_threads \in Nat \ {0} /\ NumTasks \in Nat \ {0}
  BY SafeQueuePoolAssumption DEF IInv
<1> USE <1>0 DEF TypeOK, Goes, history, Workers, Tasks, NoOne
<1>1. CASE init
  <2>1. num \in Workers
    BY <1>1 DEF init, MainInv
  <2>2. wpc' \in [Workers -> {"unborn", "loop", "lock", "empty", "sleep", "wait",
                              "woken", "dequeue", "run", "exit"}]
    BY <1>1, <2>1 DEF init
  <2>3. num' \in Nat /\ mpc' \in {"init", "submit"}
    BY <1>1 DEF init
  <2> QED BY <1>1, <2>2, <2>3 DEF init
<1>2. CASE SubmitEnqueue
  BY <1>2 DEF SubmitEnqueue, MainInv
<1>3. CASE SubmitNotify
  BY <1>3 DEF SubmitNotify, Waiting
<1>4. CASE FutureGet
  BY <1>4 DEF FutureGet
<1>5. CASE ShutdownFlag
  BY <1>5 DEF ShutdownFlag
<1>6. CASE ShutdownNotify
  BY <1>6 DEF ShutdownNotify
<1>7. CASE ShutdownJoin
  <2>1. num' \in Nat /\ mpc' \in {"join", "done"}
    BY <1>7 DEF ShutdownJoin
  <2> QED BY <1>7, <2>1 DEF ShutdownJoin
<1>8. ASSUME NEW w \in Workers,
             WorkerLoop(w) \/ WorkerLock(w) \/ WorkerEmpty(w) \/ WorkerWait(w)
             \/ SpuriousWakeup(w)
      PROVE  TypeOK'
  BY <1>8 DEF WorkerLoop, WorkerLock, WorkerEmpty, WorkerWait, SpuriousWakeup
<1>9. ASSUME NEW w \in Workers, WorkerDequeue(w) PROVE TypeOK'
  <2>1. CASE m_queue = <<>>
    BY <1>9, <2>1 DEF WorkerDequeue
  <2>2. CASE m_queue # <<>>
    <3>1. Head(m_queue) \in 1..NumTasks /\ Tail(m_queue) \in Seq(1..NumTasks)
      BY <2>2
    <3>2. Append(order, Head(m_queue)) \in Seq(1..NumTasks)
      BY <3>1
    <3>3. func' \in [Workers -> 0..NumTasks]
      <4>1. Head(m_queue) \in 0..NumTasks
        BY <3>1
      <4>2. func' = [func EXCEPT ![w] = Head(m_queue)]
        BY <1>9, <2>2 DEF WorkerDequeue
      <4> QED BY <4>1, <4>2
    <3>4. late' \in [Workers -> Nat]
      <4>1. late[w] + 1 \in Nat /\ late[w] \in Nat
        OBVIOUS
      <4>2. \/ late' = [late EXCEPT ![w] = late[w] + 1]
            \/ late' = [late EXCEPT ![w] = late[w]]
        BY <1>9, <2>2 DEF WorkerDequeue
      <4> QED BY <4>1, <4>2
    <3> QED BY <1>9, <2>2, <3>1, <3>2, <3>3, <3>4 DEF WorkerDequeue
  <2> QED BY <2>1, <2>2
<1>10. ASSUME NEW w \in Workers, WorkerRun(w) PROVE TypeOK'
  <2>1. func[w] \in 1..NumTasks
    BY <1>10 DEF WorkerRun, IInv, WorkerInv
  <2>2. finished' \in SUBSET (1..NumTasks)
    BY <1>10, <2>1 DEF WorkerRun
  <2>3. func' \in [Workers -> 0..NumTasks]
    BY <1>10 DEF WorkerRun
  <2> QED BY <1>10, <2>2, <2>3 DEF WorkerRun
<1>11. CASE UNCHANGED vars
  BY <1>11 DEF vars
<1> QED
  BY <1>1, <1>2, <1>3, <1>4, <1>5, <1>6, <1>7, <1>8, <1>9, <1>10, <1>11
  DEF Next, Client, Shutdown, ThreadWorker

\* The workers' mutex passes from holder to holder.
LEMMA LockStep == IInv /\ [Next]_vars => LockInv'
<1> SUFFICES ASSUME IInv, [Next]_vars PROVE LockInv'
  OBVIOUS
<1>0. /\ LockInv
      /\ wpc \in [Workers -> {"unborn", "loop", "lock", "empty", "sleep", "wait",
                              "woken", "dequeue", "run", "exit"}]
      /\ mpc = "init" => num \in Workers /\ wpc[num] = "unborn"
      /\ \A w \in Workers : w # NoOne
  BY SafeQueuePoolAssumption DEF IInv, TypeOK, MainInv, Workers, NoOne
<1> USE <1>0 DEF LockInv, Goes
<1>1. CASE init
  BY <1>1 DEF init
<1>2. CASE SubmitNotify
  BY <1>2 DEF SubmitNotify, Waiting
<1>3. CASE ShutdownNotify
  BY <1>3 DEF ShutdownNotify, Waiting
<1>4. CASE SubmitEnqueue \/ FutureGet \/ ShutdownFlag \/ ShutdownJoin
  BY <1>4 DEF SubmitEnqueue, FutureGet, ShutdownFlag, ShutdownJoin
<1>5. ASSUME NEW w \in Workers PROVE WorkerLoop(w) => LockInv'
  BY DEF WorkerLoop
<1>6. ASSUME NEW w \in Workers PROVE WorkerLock(w) => LockInv'
  BY DEF WorkerLock
<1>7. ASSUME NEW w \in Workers PROVE WorkerEmpty(w) => LockInv'
  BY DEF WorkerEmpty
<1>8. ASSUME NEW w \in Workers PROVE WorkerWait(w) => LockInv'
  BY DEF WorkerWait
<1>9. ASSUME NEW w \in Workers PROVE SpuriousWakeup(w) => LockInv'
  BY DEF SpuriousWakeup
<1>10. ASSUME NEW w \in Workers PROVE WorkerDequeue(w) => LockInv'
  BY DEF WorkerDequeue
<1>11. ASSUME NEW w \in Workers PROVE WorkerRun(w) => LockInv'
  BY DEF WorkerRun
<1>12. CASE UNCHANGED vars
  BY <1>12 DEF vars
<1> QED
  BY <1>1, <1>2, <1>3, <1>4, <1>5, <1>6, <1>7, <1>8, <1>9, <1>10, <1>11, <1>12
  DEF Next, Client, Shutdown, ThreadWorker

\* What a worker does is not seen by main's loops, except that it exits, and an
\* exited worker stays exited.
LEMMA MainStep == IInv /\ [Next]_vars => MainInv'
<1> SUFFICES ASSUME IInv, [Next]_vars PROVE MainInv'
  OBVIOUS
<1>0. /\ MainInv /\ num \in Nat /\ m_shutdown \in BOOLEAN
      /\ wpc \in [Workers -> {"unborn", "loop", "lock", "empty", "sleep", "wait",
                              "woken", "dequeue", "run", "exit"}]
      /\ n_threads \in Nat \ {0} /\ NumTasks \in Nat \ {0}
  BY SafeQueuePoolAssumption DEF IInv, TypeOK
<1> USE <1>0 DEF MainInv, Goes, Workers, Tasks
<1>1. CASE init
  BY <1>1 DEF init
<1>2. CASE SubmitEnqueue \/ SubmitNotify \/ FutureGet
  BY <1>2 DEF SubmitEnqueue, SubmitNotify, FutureGet
<1>3. CASE ShutdownFlag \/ ShutdownNotify
  BY <1>3 DEF ShutdownFlag, ShutdownNotify
<1>4. CASE ShutdownJoin
  BY <1>4 DEF ShutdownJoin
<1>5. ASSUME NEW w \in Workers, ThreadWorker(w) \/ SpuriousWakeup(w)
      PROVE  MainInv'
  <2> USE DEF ThreadWorker, WorkerLoop, WorkerLock, WorkerEmpty, WorkerWait,
              WorkerDequeue, WorkerRun, SpuriousWakeup
  <2>1. mpc' = mpc /\ num' = num /\ m_shutdown' = m_shutdown
    BY <1>5
  <2>2. \A v \in Workers : /\ wpc[v] = "exit" => wpc'[v] = "exit"
                           /\ wpc[v] = "unborn" => wpc'[v] = "unborn"
    BY <1>5
  <2> QED BY <2>1, <2>2
<1>6. CASE UNCHANGED vars
  BY <1>6 DEF vars
<1> QED
  BY <1>1, <1>2, <1>3, <1>4, <1>5, <1>6 DEF Next, Client, Shutdown

\* The queue grows at its tail by the task main is at and shrinks at its head by
\* the next task in order.
LEMMA ListStep == IInv /\ [Next]_vars => ListInv'
<1> SUFFICES ASSUME IInv, [Next]_vars PROVE ListInv'
  OBVIOUS
<1>0. /\ ListInv /\ m_queue \in Seq(Tasks) /\ order \in Seq(Tasks) /\ num \in Nat
      /\ mpc \in {"submit", "notify", "get"} => num \in Tasks
      /\ n_threads \in Nat \ {0} /\ NumTasks \in Nat \ {0}
  BY SafeQueuePoolAssumption DEF IInv, TypeOK, MainInv
<1>1. CASE m_queue' = m_queue /\ order' = order /\ Submitted' = Submitted
  BY <1>0, <1>1 DEF ListInv
<1>2. CASE init
  BY <1>0, <1>1, <1>2 DEF init, Submitted, history
<1>3. CASE SubmitEnqueue
  <2>1. /\ m_queue' = Append(m_queue, num) /\ order' = order
        /\ Submitted = num - 1 /\ Submitted' = num
    BY <1>3 DEF SubmitEnqueue, Submitted, history
  <2>2. num \in Tasks /\ Len(m_queue) \in Nat /\ Len(order) \in Nat
    BY <1>0, <1>3 DEF SubmitEnqueue
  <2>3. /\ Len(m_queue') = Len(m_queue) + 1
        /\ \A i \in 1..Len(m_queue) : m_queue'[i] = m_queue[i]
        /\ m_queue'[Len(m_queue) + 1] = num
    BY <1>0, <2>1, <2>2
  <2>4. Len(m_queue) + 1 + Len(order) = num
    BY <1>0, <2>1, <2>2 DEF ListInv
  <2>5. ASSUME NEW i \in 1..Len(m_queue') PROVE m_queue'[i] = Len(order) + i
    <3>1. CASE i = Len(m_queue) + 1
      BY <2>2, <2>3, <2>4, <3>1
    <3>2. CASE i \in 1..Len(m_queue)
      BY <1>0, <2>3, <3>2 DEF ListInv
    <3> QED BY <2>2, <2>3, <3>1, <3>2
  <2> QED BY <1>0, <2>1, <2>2, <2>3, <2>4, <2>5 DEF ListInv
<1>4. CASE SubmitNotify \/ FutureGet \/ ShutdownFlag \/ Shutdown
  <2>1. m_queue' = m_queue /\ order' = order
    BY <1>4 DEF SubmitNotify, FutureGet, ShutdownFlag, Shutdown, ShutdownNotify,
                ShutdownJoin, history
  <2>2. Submitted' = Submitted
    <3>1. CASE SubmitNotify
      BY <3>1 DEF SubmitNotify, Submitted
    <3>2. CASE FutureGet
      BY <1>0, <3>2 DEF FutureGet, Submitted, Tasks
    <3>3. CASE ShutdownFlag \/ Shutdown
      BY <3>3 DEF ShutdownFlag, Shutdown, ShutdownNotify, ShutdownJoin, Submitted
    <3> QED BY <1>4, <3>1, <3>2, <3>3
  <2> QED BY <1>1, <2>1, <2>2
<1>5. ASSUME NEW w \in Workers, WorkerDequeue(w) PROVE ListInv'
  <2>0. Submitted' = Submitted
    BY <1>5 DEF WorkerDequeue, Submitted
  <2>1. CASE m_queue = <<>>
    BY <1>1, <1>5, <2>0, <2>1 DEF WorkerDequeue, history
  <2>2. CASE m_queue # <<>>
    <3>1. m_queue' = Tail(m_queue) /\ order' = Append(order, Head(m_queue))
      BY <1>5, <2>2 DEF WorkerDequeue
    <3>2. /\ Len(m_queue) \in Nat /\ Len(m_queue) >= 1 /\ Len(order) \in Nat
          /\ Len(m_queue') = Len(m_queue) - 1
          /\ \A i \in 1..Len(m_queue') : m_queue'[i] = m_queue[i + 1]
      BY <1>0, <2>2, <3>1
    <3>3. Head(m_queue) \in Tasks /\ Head(m_queue) = m_queue[1]
      BY <1>0, <2>2
    <3>4. /\ Len(order') = Len(order) + 1
          /\ \A i \in 1..Len(order) : order'[i] = order[i]
          /\ order'[Len(order) + 1] = m_queue[1]
      BY <1>0, <3>1, <3>3
    <3>5. m_queue[1] = Len(order) + 1
      BY <1>0, <3>2 DEF ListInv
    <3>6. \A i \in 1..Len(m_queue') : m_queue'[i] = Len(order') + i
      BY <1>0, <3>2, <3>4 DEF ListInv
    <3>7. ASSUME NEW i \in 1..Len(order') PROVE order'[i] = i
      <4>1. CASE i = Len(order) + 1
        BY <3>4, <3>5, <4>1
      <4>2. CASE i \in 1..Len(order)
        BY <1>0, <3>4, <4>2 DEF ListInv
      <4> QED BY <3>2, <3>4, <4>1, <4>2
    <3>8. Len(order') + Len(m_queue') = Submitted'
      BY <1>0, <2>0, <3>2, <3>4 DEF ListInv
    <3> QED BY <3>6, <3>7, <3>8 DEF ListInv
  <2> QED BY <2>1, <2>2
<1>6. ASSUME NEW w \in Workers,
             WorkerLoop(w) \/ WorkerLock(w) \/ WorkerEmpty(w) \/ WorkerWait(w)
             \/ WorkerRun(w) \/ SpuriousWakeup(w)
      PROVE  ListInv'
  <2>1. m_queue' = m_queue /\ order' = order /\ mpc' = mpc /\ num' = num
    BY <1>6 DEF WorkerLoop, WorkerLock, WorkerEmpty, WorkerWait, WorkerRun,
                SpuriousWakeup, history
  <2> QED BY <1>1, <2>1 DEF Submitted
<1>7. CASE UNCHANGED vars
  BY <1>1, <1>7 DEF vars, Submitted
<1> QED
  BY <1>2, <1>3, <1>4, <1>5, <1>6, <1>7 DEF Next, Client, ThreadWorker

\* A worker counts a late task only when it has come from the queue after the
\* flag was set, and then its next test of the flag ends it.
LEMMA WorkerStep == IInv /\ [Next]_vars => WorkerInv'
<1> SUFFICES ASSUME IInv, [Next]_vars PROVE WorkerInv'
  OBVIOUS
<1>0. /\ WorkerInv /\ m_shutdown \in BOOLEAN
      /\ wpc \in [Workers -> {"unborn", "loop", "lock", "empty", "sleep", "wait",
                              "woken", "dequeue", "run", "exit"}]
      /\ func \in [Workers -> 0..NumTasks] /\ late \in [Workers -> Nat]
      /\ mpc = "init" => num \in Workers /\ wpc[num] = "unborn"
  BY SafeQueuePoolAssumption DEF IInv, TypeOK, MainInv, Workers
<1> USE <1>0 DEF WorkerInv, Goes, history
<1>1. CASE init
  BY <1>1 DEF init
<1>2. CASE SubmitNotify
  BY <1>2 DEF SubmitNotify, Waiting
<1>3. CASE ShutdownNotify
  BY <1>3 DEF ShutdownNotify, Waiting
<1>4. CASE SubmitEnqueue \/ FutureGet \/ ShutdownFlag \/ ShutdownJoin
  BY <1>4 DEF SubmitEnqueue, FutureGet, ShutdownFlag, ShutdownJoin
<1>5. ASSUME NEW w \in Workers PROVE WorkerLoop(w) => WorkerInv'
  BY DEF WorkerLoop
<1>6. ASSUME NEW w \in Workers PROVE WorkerLock(w) => WorkerInv'
  BY DEF WorkerLock
<1>7. ASSUME NEW w \in Workers PROVE WorkerEmpty(w) => WorkerInv'
  BY DEF WorkerEmpty
<1>8. ASSUME NEW w \in Workers PROVE WorkerWait(w) => WorkerInv'
  BY DEF WorkerWait
<1>9. ASSUME NEW w \in Workers PROVE SpuriousWakeup(w) => WorkerInv'
  BY DEF SpuriousWakeup
<1>10. ASSUME NEW w \in Workers, WorkerDequeue(w) PROVE WorkerInv'
  <2>1. CASE m_queue = <<>>
    BY <1>10, <2>1 DEF WorkerDequeue
  <2>2. CASE m_queue # <<>>
    <3>1. Head(m_queue) \in Tasks
      BY <2>2 DEF IInv, TypeOK
    <3>2. late[w] = 0
      BY <1>10, <2>2 DEF WorkerDequeue
    <3>3. /\ func' = [func EXCEPT ![w] = Head(m_queue)]
          /\ wpc' = [wpc EXCEPT ![w] = "run"]
          /\ late' = [late EXCEPT ![w] = IF m_shutdown THEN late[w] + 1 ELSE late[w]]
          /\ m_shutdown' = m_shutdown
      BY <1>10, <2>2 DEF WorkerDequeue
    <3> QED BY <3>1, <3>2, <3>3
  <2> QED BY <2>1, <2>2
<1>11. ASSUME NEW w \in Workers PROVE WorkerRun(w) => WorkerInv'
  BY DEF WorkerRun
<1>12. CASE UNCHANGED vars
  BY <1>12 DEF vars
<1> QED
  BY <1>1, <1>2, <1>3, <1>4, <1>5, <1>6, <1>7, <1>8, <1>9, <1>10, <1>11, <1>12
  DEF Next, Client, Shutdown, ThreadWorker

\* A task leaves the queue together with the worker that runs it.
LEMMA JobStep == IInv /\ [Next]_vars => JobInv'
<1> SUFFICES ASSUME IInv, [Next]_vars PROVE JobInv'
  OBVIOUS
<1>0. /\ JobInv
      /\ wpc \in [Workers -> {"unborn", "loop", "lock", "empty", "sleep", "wait",
                              "woken", "dequeue", "run", "exit"}]
      /\ func \in [Workers -> 0..NumTasks] /\ order \in Seq(Tasks)
      /\ mpc = "init" => num \in Workers /\ wpc[num] = "unborn"
  BY SafeQueuePoolAssumption DEF IInv, TypeOK, MainInv, Workers
<1>1. CASE /\ order' = order /\ finished' = finished /\ func' = func
           /\ \A v \in Workers : wpc[v] = "run" => wpc'[v] = "run"
  BY <1>0, <1>1 DEF JobInv
<1>2. CASE Client \/ ShutdownFlag \/ Shutdown
  BY <1>0, <1>1, <1>2
  DEF Client, Shutdown, init, SubmitEnqueue, SubmitNotify, FutureGet, ShutdownFlag,
      ShutdownNotify, ShutdownJoin, Waiting, Goes, history
<1>3. ASSUME NEW w \in Workers,
             WorkerLoop(w) \/ WorkerLock(w) \/ WorkerEmpty(w) \/ WorkerWait(w)
             \/ SpuriousWakeup(w)
      PROVE  JobInv'
  BY <1>0, <1>1, <1>3
  DEF WorkerLoop, WorkerLock, WorkerEmpty, WorkerWait, SpuriousWakeup, Goes, history
<1>4. ASSUME NEW w \in Workers, WorkerDequeue(w) PROVE JobInv'
  <2>1. CASE m_queue = <<>>
    BY <1>0, <1>1, <1>4, <2>1 DEF WorkerDequeue, Goes, history
  <2>2. CASE m_queue # <<>>
    <3>0. Head(m_queue) \in Tasks /\ order' = Append(order, Head(m_queue))
      BY <1>4, <2>2 DEF WorkerDequeue, IInv, TypeOK
    <3>1. /\ Len(order') = Len(order) + 1 /\ Len(order) \in Nat
          /\ \A i \in 1..Len(order) : order'[i] = order[i]
          /\ order'[Len(order) + 1] = Head(m_queue)
      BY <1>0, <3>0
    <3>2. \A v \in Workers : wpc[v] = "run" => wpc'[v] = "run" /\ func'[v] = func[v]
      BY <1>0, <1>4, <2>2 DEF WorkerDequeue, Goes
    <3>3. wpc'[w] = "run" /\ func'[w] = Head(m_queue) /\ finished' = finished
      BY <1>0, <1>4, <2>2 DEF WorkerDequeue, Goes
    <3>4. ASSUME NEW i \in 1..Len(order')
          PROVE  \/ order'[i] \in finished'
                 \/ \E v \in Workers : wpc'[v] = "run" /\ func'[v] = order'[i]
      <4>1. CASE i = Len(order) + 1
        BY <3>1, <3>3, <4>1
      <4>2. CASE i \in 1..Len(order)
        BY <1>0, <3>1, <3>2, <3>3, <4>2 DEF JobInv
      <4> QED BY <3>1, <4>1, <4>2
    <3> QED BY <3>4 DEF JobInv
  <2> QED BY <2>1, <2>2
<1>5. ASSUME NEW w \in Workers, WorkerRun(w) PROVE JobInv'
  <2>1. order' = order /\ finished' = finished \cup {func[w]}
    BY <1>5 DEF WorkerRun
  <2>2. \A v \in Workers \ {w} : wpc'[v] = wpc[v] /\ func'[v] = func[v]
    BY <1>0, <1>5 DEF WorkerRun, Goes
  <2> QED BY <1>0, <2>1, <2>2 DEF JobInv
<1>6. CASE UNCHANGED vars
  BY <1>0, <1>1, <1>6 DEF vars
<1> QED
  BY <1>2, <1>3, <1>4, <1>5, <1>6 DEF Next, ThreadWorker

\* IInv holds in every state of every behaviour of the pool.
THEOREM Invariance == Spec => []IInv
<1>1. IInv /\ [Next]_vars => IInv'
  BY TypeStep, LockStep, MainStep, ListStep, WorkerStep, JobStep DEF IInv
<1> QED BY InitIInv, <1>1, PTL DEF Spec

\* No task is lost, duplicated or overtaken between submit and the worker that
\* runs it, although empty and dequeue are two operations.
THEOREM FifoExactlyOnceHolds == Spec => []FifoExactlyOnce
<1>1. IInv => FifoExactlyOnce
  <2> SUFFICES ASSUME IInv
               PROVE  order \o m_queue = [i \in 1..(Len(order) + Len(m_queue)) |-> i]
    BY DEF FifoExactlyOnce
  <2>1. order \in Seq(Tasks) /\ m_queue \in Seq(Tasks) /\ ListInv
    BY DEF IInv, TypeOK
  <2>2. \A i \in 1..Len(order) + Len(m_queue) : (order \o m_queue)[i] = i
    <3>1. \A i \in 1..Len(order) + Len(m_queue) :
            (order \o m_queue)[i] = IF i <= Len(order) THEN order[i]
                                    ELSE m_queue[i - Len(order)]
      BY <2>1, ConcatProperties
    <3> QED BY <2>1, <3>1 DEF ListInv
  <2>3. order \o m_queue \in Seq(Tasks) /\ Len(order \o m_queue) = Len(order) + Len(m_queue)
    BY <2>1, ConcatProperties
  <2>4. order \o m_queue \in [1..(Len(order) + Len(m_queue)) -> Tasks]
    BY <2>3, LenProperties
  <2> QED BY <2>2, <2>4
<1> QED BY Invariance, <1>1, PTL

\* After shutdown set the flag each worker starts one more task at most, and
\* shutdown returns with every worker gone and no task half done.
THEOREM ShutdownIsSafe == Spec => []ShutdownEndsTheWork
<1>1. IInv => ShutdownEndsTheWork
  <2> SUFFICES ASSUME IInv PROVE ShutdownEndsTheWork
    OBVIOUS
  <2>1. AtMostOneLateTask
    BY DEF IInv, WorkerInv, AtMostOneLateTask
  <2>2. mpc = "done" => NothingRunsOn
    BY DEF IInv, MainInv, JobInv, NothingRunsOn
  <2> QED BY <2>1, <2>2 DEF ShutdownEndsTheWork
<1> QED BY Invariance, <1>1, PTL
=============================================================================
