------------------------- MODULE CThreadPool_proofs -------------------------
(***************************************************************************)
(* CThreadPool keeps its queue, its assertions and its shutdown promise    *)
(* for every number of threads and of tasks.  Each part of the inductive   *)
(* invariant IInv has a lemma of its own.                                  *)
(***************************************************************************)
EXTENDS CThreadPool, SequenceTheorems, FiniteSetTheorems, TLAPS

\* In the initial state, before pool_init has created a thread, the invariant
\* holds.
LEMMA InitIInv == Init => IInv
<1> SUFFICES ASSUME Init PROVE IInv
  OBVIOUS
<1> USE PoolAssumption DEF Init, Workers, Tasks, Main, NoOne
<1>1. TypeOK
  BY DEF TypeOK, MainStates, WorkerStates
<1>2. LockInv
  BY DEF LockInv
<1>3. MainInv
  BY DEF MainInv
<1>4. ListInv
  BY DEF ListInv, Added
<1>5. WorkerInv
  BY DEF WorkerInv
<1>6. JobInv
  BY DEF JobInv
<1> QED BY <1>1, <1>2, <1>3, <1>4, <1>5, <1>6 DEF IInv

\* Every step of main and of a worker keeps the variables within their types:
\* the list holds tasks main added and the counter never goes below zero.
LEMMA TypeStep == IInv /\ [Next]_vars => TypeOK'
<1> SUFFICES ASSUME IInv, [Next]_vars PROVE TypeOK'
  OBVIOUS
<1> USE PoolAssumption DEF IInv, TypeOK, MainStates, WorkerStates, Workers,
        Tasks, Main, NoOne
<1>1. CASE pool_init
  <2>1. num \in Workers
    BY <1>1 DEF pool_init, MainInv
  <2>2. wpc' \in [Workers -> WorkerStates]
    BY <1>1, <2>1 DEF pool_init
  <2>3. num' \in Nat /\ mpc' \in MainStates
    BY <1>1 DEF pool_init, AddLoop
  <2> QED BY <1>1, <2>2, <2>3 DEF pool_init
<1>2. CASE AddLock
  BY <1>2 DEF AddLock
<1>3. CASE AddAppend
  BY <1>3 DEF AddAppend, MainInv
<1>4. CASE AddSignal
  <2>1. wpc' \in [Workers -> WorkerStates]
    BY <1>4 DEF AddSignal, Waiting
  <2>2. mpc' \in MainStates /\ num' \in Nat
    BY <1>4 DEF AddSignal, AddLoop
  <2> QED BY <1>4, <2>1, <2>2 DEF AddSignal
<1>5. CASE DestroyFlag
  BY <1>5 DEF DestroyFlag
<1>6. CASE DestroyBroadcast
  BY <1>6 DEF DestroyBroadcast
<1>7. CASE DestroyJoin
  BY <1>7 DEF DestroyJoin
<1>8. CASE DestroyFree
  BY <1>8 DEF DestroyFree
<1>9. ASSUME NEW w \in Workers, RoutineLock(w) \/ RoutineTest(w)
             \/ RoutineWait(w) \/ RoutineCheck(w) \/ SpuriousWakeup(w)
      PROVE  TypeOK'
  BY <1>9 DEF RoutineLock, RoutineTest, RoutineWait, RoutineCheck, SpuriousWakeup
<1>10. ASSUME NEW w \in Workers, RoutinePop(w) PROVE TypeOK'
  <2>1. Head(queue) \in 1..NumTasks /\ Tail(queue) \in Seq(1..NumTasks)
    BY <1>10 DEF RoutinePop
  <2>2. Append(order, Head(queue)) \in Seq(1..NumTasks)
    BY <2>1
  <2>3. cur_queue_size' \in Nat
    BY <1>10 DEF RoutinePop
  <2>4. job' \in [Workers -> 0..NumTasks]
    <3>1. Head(queue) \in 0..NumTasks
      BY <2>1
    <3>2. job' = [job EXCEPT ![w] = Head(queue)]
      BY <1>10 DEF RoutinePop
    <3> QED BY <3>1, <3>2
  <2>5. late' \in [Workers -> Nat]
    <3>1. late[w] + shutdown \in Nat
      OBVIOUS
    <3> QED BY <1>10, <3>1 DEF RoutinePop
  <2> QED BY <1>10, <2>1, <2>2, <2>3, <2>4, <2>5 DEF RoutinePop
<1>11. ASSUME NEW w \in Workers, RoutineRun(w) PROVE TypeOK'
  <2>1. job[w] \in 1..NumTasks
    BY <1>11 DEF RoutineRun, WorkerInv
  <2>2. finished' \in SUBSET (1..NumTasks)
    BY <1>11, <2>1 DEF RoutineRun
  <2>3. job' \in [Workers -> 0..NumTasks]
    BY <1>11 DEF RoutineRun
  <2>4. wpc' \in [Workers -> WorkerStates]
    BY <1>11 DEF RoutineRun
  <2> QED BY <1>11, <2>2, <2>3, <2>4 DEF RoutineRun
<1>12. CASE UNCHANGED vars
  BY <1>12 DEF vars
<1> QED
  BY <1>1, <1>2, <1>3, <1>4, <1>5, <1>6, <1>7, <1>8, <1>9, <1>10, <1>11, <1>12
  DEF Next, main, pool_destroy, thread_routine

\* The mutex passes from holder to holder: a thread that takes it found it
\* free, and lets it go at the unlock or inside pthread_cond_wait.
LEMMA LockStep == IInv /\ [Next]_vars => LockInv'
<1> SUFFICES ASSUME IInv, [Next]_vars PROVE LockInv'
  OBVIOUS
<1>0. /\ LockInv
      /\ wpc \in [Workers -> WorkerStates]
      /\ mpc = "create" => num \in Workers /\ wpc[num] = "unborn"
      /\ \A w \in Workers : w # Main /\ w # NoOne
  BY PoolAssumption DEF IInv, TypeOK, MainInv, Workers, Main, NoOne
<1>a. Main # NoOne
  BY DEF Main, NoOne
<1>1. CASE pool_init
  BY <1>0, <1>1 DEF pool_init, AddLoop, LockInv
<1>2. CASE AddLock
  BY <1>0, <1>2, <1>a DEF AddLock, LockInv
<1>3. CASE AddAppend
  BY <1>0, <1>3, <1>a DEF AddAppend, LockInv
<1>4. CASE AddSignal
  <2>1. \A v \in Workers : wpc'[v] # wpc[v] => wpc[v] = "wait" /\ wpc'[v] = "woken"
    BY <1>0, <1>4 DEF AddSignal, Waiting
  <2> QED BY <1>0, <1>4, <2>1 DEF AddSignal, AddLoop, LockInv
<1>5. CASE DestroyFlag
  BY <1>0, <1>5 DEF DestroyFlag, LockInv
<1>6. CASE DestroyBroadcast
  BY <1>0, <1>6 DEF DestroyBroadcast, LockInv, Waiting
<1>7. CASE DestroyJoin
  BY <1>0, <1>7 DEF DestroyJoin, LockInv
<1>8. CASE DestroyFree
  BY <1>0, <1>8 DEF DestroyFree, LockInv
<1>9. ASSUME NEW w \in Workers PROVE RoutineLock(w) => LockInv'
  BY <1>0, <1>a DEF RoutineLock, LockInv
<1>10. ASSUME NEW w \in Workers PROVE RoutineTest(w) => LockInv'
  BY <1>0 DEF RoutineTest, LockInv
<1>11. ASSUME NEW w \in Workers PROVE RoutineWait(w) => LockInv'
  BY <1>0, <1>a DEF RoutineWait, LockInv
<1>12. ASSUME NEW w \in Workers PROVE SpuriousWakeup(w) => LockInv'
  BY <1>0 DEF SpuriousWakeup, LockInv
<1>13. ASSUME NEW w \in Workers PROVE RoutineCheck(w) => LockInv'
  BY <1>0, <1>a DEF RoutineCheck, LockInv
<1>14. ASSUME NEW w \in Workers PROVE RoutinePop(w) => LockInv'
  BY <1>0, <1>a DEF RoutinePop, LockInv
<1>15. ASSUME NEW w \in Workers PROVE RoutineRun(w) => LockInv'
  BY <1>0 DEF RoutineRun, LockInv
<1>16. CASE UNCHANGED vars
  BY <1>0, <1>16 DEF vars, LockInv
<1> QED
  BY <1>1, <1>2, <1>3, <1>4, <1>5, <1>6, <1>7, <1>8, <1>9, <1>10, <1>11,
     <1>12, <1>13, <1>14, <1>15, <1>16
  DEF Next, main, pool_destroy, thread_routine

\* The loops of main stay within their bounds, and pool_destroy leaves the join
\* loop only when every thread has exited: an exited thread stays exited.
LEMMA MainStep == IInv /\ [Next]_vars => MainInv'
<1> SUFFICES ASSUME IInv, [Next]_vars PROVE MainInv'
  OBVIOUS
<1>0. /\ MainInv
      /\ wpc \in [Workers -> WorkerStates]
      /\ num \in Nat
      /\ shutdown \in {0, 1}
      /\ max_thread_num \in Nat \ {0}
      /\ NumTasks \in Nat
  BY PoolAssumption DEF IInv, TypeOK
<1> USE <1>0 DEF MainInv, Workers, Tasks
<1>1. CASE pool_init
  BY <1>1 DEF pool_init, AddLoop
<1>2. CASE AddLock
  BY <1>2 DEF AddLock
<1>3. CASE AddAppend
  BY <1>3 DEF AddAppend
<1>4. CASE AddSignal
  BY <1>4 DEF AddSignal, AddLoop
<1>5. CASE DestroyFlag
  BY <1>5 DEF DestroyFlag
<1>6. CASE DestroyBroadcast
  BY <1>6 DEF DestroyBroadcast
<1>7. CASE DestroyJoin
  BY <1>7 DEF DestroyJoin
<1>8. CASE DestroyFree
  BY <1>8 DEF DestroyFree
<1>9. ASSUME NEW w \in Workers, thread_routine(w) \/ SpuriousWakeup(w)
      PROVE  MainInv'
  <2>1. mpc' = mpc /\ num' = num /\ shutdown' = shutdown
    BY <1>9 DEF thread_routine, RoutineLock, RoutineTest, RoutineWait,
                RoutineCheck, RoutinePop, RoutineRun, SpuriousWakeup
  <2>2. \A v \in Workers : wpc[v] = "exit" => wpc'[v] = "exit"
    BY <1>9 DEF thread_routine, RoutineLock, RoutineTest, RoutineWait,
                RoutineCheck, RoutinePop, RoutineRun, SpuriousWakeup
  <2>3. \A v \in Workers : wpc[v] = "unborn" => wpc'[v] = "unborn"
    BY <1>9 DEF thread_routine, RoutineLock, RoutineTest, RoutineWait,
                RoutineCheck, RoutinePop, RoutineRun, SpuriousWakeup
  <2>4. CASE mpc = "create"
    BY <2>1, <2>3, <2>4
  <2>5. CASE mpc # "create"
    BY <2>1, <2>2, <2>5
  <2> QED BY <2>4, <2>5
<1>10. CASE UNCHANGED vars
  BY <1>10 DEF vars
<1> QED
  BY <1>1, <1>2, <1>3, <1>4, <1>5, <1>6, <1>7, <1>8, <1>9, <1>10
  DEF Next, main, pool_destroy

\* Under the mutex the list grows at its tail by the task main is at and
\* shrinks at its head by the next task in order; the counter follows it.
LEMMA ListStep == IInv /\ [Next]_vars => ListInv'
<1> SUFFICES ASSUME IInv, [Next]_vars PROVE ListInv'
  OBVIOUS
<1>0. /\ ListInv
      /\ queue \in Seq(Tasks)
      /\ order \in Seq(Tasks)
      /\ num \in Nat
      /\ NumTasks \in Nat
      /\ mpc \in {"add", "append", "signal"} => num <= NumTasks
      /\ Added \in Nat
  BY PoolAssumption DEF IInv, TypeOK, MainInv, Tasks, Added
<1>1. CASE /\ queue' = queue /\ order' = order
           /\ cur_queue_size' = cur_queue_size
           /\ Added' = Added /\ mpc # "done"
  BY <1>0, <1>1 DEF ListInv
<1>2. CASE pool_init
  BY <1>0, <1>1, <1>2 DEF pool_init, AddLoop, Added
<1>3. CASE AddLock
  BY <1>0, <1>1, <1>3 DEF AddLock, Added
<1>4. CASE AddAppend
  <2>1. Added = num - 1 /\ Added' = num /\ mpc # "done"
    BY <1>4 DEF AddAppend, Added
  <2>2. Len(queue') = Len(queue) + 1 /\ cur_queue_size' = cur_queue_size + 1
    BY <1>0, <1>4 DEF AddAppend
  <2>3. \A i \in 1..Len(queue') :
          queue'[i] = IF i = Len(queue) + 1 THEN num ELSE queue[i]
    BY <1>0, <1>4, <2>2 DEF AddAppend
  <2>4. order' = order /\ Len(queue) \in Nat /\ Len(order) \in Nat
    BY <1>0, <1>4 DEF AddAppend
  <2>5. Len(order) + Len(queue) = num - 1 /\ cur_queue_size = Len(queue)
    BY <1>0, <2>1 DEF ListInv
  <2>6. \A i \in 1..Len(queue') : queue'[i] = Len(order) + i
    <3>1. \A i \in 1..Len(queue) : queue[i] = Len(order) + i
      BY <1>0, <2>1 DEF ListInv
    <3>2. Len(queue) + 1 + Len(order) = num
      BY <1>0, <2>4, <2>5
    <3>3. ASSUME NEW i \in 1..Len(queue') PROVE queue'[i] = Len(order) + i
      <4>1. CASE i = Len(queue) + 1
        BY <1>0, <2>3, <2>4, <3>2, <4>1
      <4>2. CASE i \in 1..Len(queue)
        <5>1. i # Len(queue) + 1
          BY <2>4, <4>2
        <5> QED BY <2>3, <3>1, <4>2, <5>1
      <4> QED BY <2>2, <2>4, <4>1, <4>2
    <3> QED BY <3>3
  <2>7. \A i \in 1..Len(order) : order[i] = i
    BY <1>0, <2>1 DEF ListInv
  <2>8. Len(order) + Len(queue') = Added' /\ cur_queue_size' = Len(queue')
    BY <1>0, <2>1, <2>2, <2>4, <2>5
  <2> QED BY <2>4, <2>6, <2>7, <2>8 DEF ListInv
<1>5. CASE AddSignal
  BY <1>0, <1>1, <1>5 DEF AddSignal, AddLoop, Added
<1>6. CASE DestroyFlag \/ DestroyBroadcast \/ DestroyJoin
  BY <1>0, <1>1, <1>6 DEF DestroyFlag, DestroyBroadcast, DestroyJoin, Added
<1>7. CASE DestroyFree
  BY <1>7 DEF DestroyFree, ListInv
<1>8. ASSUME NEW w \in Workers PROVE RoutinePop(w) => ListInv'
  <2> SUFFICES ASSUME RoutinePop(w), mpc # "done" PROVE ListInv'
    BY DEF ListInv, RoutinePop
  <2>1. Added' = Added /\ queue # <<>>
    BY DEF RoutinePop, Added
  <2>2. /\ Len(queue') = Len(queue) - 1
        /\ Len(queue) >= 1
        /\ Len(order') = Len(order) + 1
        /\ Len(queue) \in Nat /\ Len(order) \in Nat
    BY <1>0, <2>1 DEF RoutinePop
  <2>3. \A i \in 1..Len(queue') : queue'[i] = queue[i + 1]
    BY <1>0, <2>1, <2>2 DEF RoutinePop
  <2>4. \A i \in 1..Len(order') :
          order'[i] = IF i = Len(order) + 1 THEN queue[1] ELSE order[i]
    BY <1>0, <2>1, <2>2 DEF RoutinePop
  <2>5. queue[1] = Len(order) + 1 /\ cur_queue_size' = cur_queue_size - 1
    BY <1>0, <2>2 DEF ListInv, RoutinePop
  <2>6. /\ Len(order) + Len(queue) = Added /\ cur_queue_size = Len(queue)
        /\ \A i \in 1..Len(order) : order[i] = i
        /\ \A i \in 1..Len(queue) : queue[i] = Len(order) + i
    BY <1>0 DEF ListInv
  <2>7. \A i \in 1..Len(queue') : queue'[i] = Len(order') + i
    BY <2>2, <2>3, <2>6
  <2>8. \A i \in 1..Len(order') : order'[i] = i
    BY <2>2, <2>4, <2>5, <2>6
  <2>9. Len(order') + Len(queue') = Added' /\ cur_queue_size' = Len(queue')
    BY <2>1, <2>2, <2>5, <2>6
  <2> QED BY <2>7, <2>8, <2>9 DEF ListInv
<1>9. ASSUME NEW w \in Workers, RoutineLock(w) \/ RoutineTest(w)
             \/ RoutineWait(w) \/ RoutineCheck(w) \/ RoutineRun(w)
             \/ SpuriousWakeup(w)
      PROVE  ListInv'
  <2>1. /\ queue' = queue /\ order' = order
        /\ cur_queue_size' = cur_queue_size /\ num' = num /\ mpc' = mpc
    BY <1>9 DEF RoutineLock, RoutineTest, RoutineWait, RoutineCheck, RoutineRun,
                SpuriousWakeup
  <2> QED BY <1>0, <2>1 DEF ListInv, Added
<1>10. CASE UNCHANGED vars
  BY <1>0, <1>10 DEF vars, ListInv, Added
<1> QED
  BY <1>2, <1>3, <1>4, <1>5, <1>6, <1>7, <1>8, <1>9, <1>10
  DEF Next, main, pool_destroy, thread_routine

\* A worker between the test of line 144 and the dequeue holds the mutex, so
\* nobody else changes the counter it tested; a worker that dequeues after
\* shutdown = 1 meets the check of line 149 before it can dequeue again.
LEMMA WorkerStep == IInv /\ [Next]_vars => WorkerInv'
<1> SUFFICES ASSUME IInv, [Next]_vars PROVE WorkerInv'
  OBVIOUS
<1>0. /\ WorkerInv
      /\ LockInv
      /\ wpc \in [Workers -> WorkerStates]
      /\ late \in [Workers -> Nat]
      /\ job \in [Workers -> 0..NumTasks]
      /\ shutdown \in {0, 1}
      /\ cur_queue_size \in Nat
      /\ (shutdown = 1) <=> (mpc \in {"bcast", "join", "free", "done"})
      /\ mpc = "create" => num \in Workers /\ wpc[num] = "unborn"
      /\ \A w \in Workers : w # Main /\ w # NoOne
  BY PoolAssumption DEF IInv, TypeOK, MainInv, Workers, Main, NoOne
<1>a. queue # <<>> => Head(queue) \in Tasks
  BY DEF IInv, TypeOK
<1> USE <1>0
<1>1. CASE pool_init
  BY <1>1 DEF pool_init, WorkerInv
<1>2. CASE AddLock
  BY <1>2 DEF AddLock, WorkerInv
<1>3. CASE AddAppend
  BY <1>3 DEF AddAppend, WorkerInv
<1>4. CASE AddSignal
  <2>1. \A v \in Workers : wpc'[v] # wpc[v] => wpc[v] = "wait" /\ wpc'[v] = "woken"
    BY <1>4 DEF AddSignal, Waiting
  <2> QED BY <1>4, <2>1 DEF AddSignal, WorkerInv
<1>5. CASE DestroyFlag
  BY <1>5 DEF DestroyFlag, WorkerInv
<1>6. CASE DestroyBroadcast
  BY <1>6 DEF DestroyBroadcast, WorkerInv, Waiting
<1>7. CASE DestroyJoin
  BY <1>7 DEF DestroyJoin, WorkerInv
<1>8. CASE DestroyFree
  BY <1>8 DEF DestroyFree, WorkerInv
<1>9. ASSUME NEW w \in Workers PROVE RoutineLock(w) => WorkerInv'
  BY DEF RoutineLock, WorkerInv
<1>10. ASSUME NEW w \in Workers PROVE RoutineTest(w) => WorkerInv'
  BY DEF RoutineTest, WorkerInv
<1>11. ASSUME NEW w \in Workers PROVE RoutineWait(w) => WorkerInv'
  BY DEF RoutineWait, WorkerInv
<1>12. ASSUME NEW w \in Workers PROVE SpuriousWakeup(w) => WorkerInv'
  BY DEF SpuriousWakeup, WorkerInv
<1>13. ASSUME NEW w \in Workers PROVE RoutineCheck(w) => WorkerInv'
  BY DEF RoutineCheck, WorkerInv
<1>14. ASSUME NEW w \in Workers, RoutinePop(w) PROVE WorkerInv'
  <2>1. \A v \in Workers \ {w} : wpc[v] \notin {"check", "pop"}
    BY <1>14 DEF RoutinePop, LockInv
  <2>2. job'[w] \in Tasks /\ wpc'[w] = "run"
    BY <1>14, <1>a DEF RoutinePop
  <2>3. late[w] = 0 /\ late'[w] = shutdown /\ shutdown' = shutdown
    <3>1. late[w] = 0
      BY <1>14 DEF RoutinePop, WorkerInv
    <3>2. late'[w] = late[w] + shutdown /\ shutdown' = shutdown
      BY <1>14 DEF RoutinePop
    <3> QED BY <3>1, <3>2
  <2>4. \A v \in Workers \ {w} :
          wpc'[v] = wpc[v] /\ job'[v] = job[v] /\ late'[v] = late[v]
    BY <1>14 DEF RoutinePop
  <2>5. ASSUME NEW v \in Workers, v # w
        PROVE  /\ wpc'[v] = "check" => cur_queue_size' # 0 \/ shutdown' = 1
               /\ wpc'[v] = "pop" => cur_queue_size' # 0
               /\ wpc'[v] = "run" => job'[v] \in Tasks
               /\ wpc'[v] = "exit" => shutdown' = 1
               /\ late'[v] \in {0, 1}
               /\ late'[v] = 1 =>
                    shutdown' = 1 /\ wpc'[v] \in {"run", "lock", "test", "check", "exit"}
    BY <2>1, <2>3, <2>4, <2>5 DEF WorkerInv
  <2> QED BY <2>2, <2>3, <2>5 DEF WorkerInv
<1>15. ASSUME NEW w \in Workers PROVE RoutineRun(w) => WorkerInv'
  BY DEF RoutineRun, WorkerInv
<1>16. CASE UNCHANGED vars
  BY <1>16 DEF vars, WorkerInv
<1> QED
  BY <1>1, <1>2, <1>3, <1>4, <1>5, <1>6, <1>7, <1>8, <1>9, <1>10, <1>11,
     <1>12, <1>13, <1>14, <1>15, <1>16
  DEF Next, main, pool_destroy, thread_routine

\* A task leaves the list together with the worker that runs it, and that
\* worker gives it up only when its callback has returned.
LEMMA JobStep == IInv /\ [Next]_vars => JobInv'
<1> SUFFICES ASSUME IInv, [Next]_vars PROVE JobInv'
  OBVIOUS
<1>0. /\ JobInv
      /\ wpc \in [Workers -> WorkerStates]
      /\ job \in [Workers -> 0..NumTasks]
      /\ order \in Seq(Tasks)
      /\ mpc = "create" => num \in Workers /\ wpc[num] = "unborn"
  BY PoolAssumption DEF IInv, TypeOK, MainInv, Workers
<1>1. CASE /\ order' = order /\ finished' = finished /\ job' = job
           /\ \A v \in Workers : wpc[v] = "run" => wpc'[v] = "run"
  BY <1>0, <1>1 DEF JobInv
<1>2. CASE main \/ DestroyFlag \/ pool_destroy
  BY <1>0, <1>1, <1>2
  DEF main, pool_destroy, pool_init, AddLock, AddAppend, AddSignal, DestroyFlag,
      DestroyBroadcast, DestroyJoin, DestroyFree, Waiting
<1>3. ASSUME NEW w \in Workers, RoutineLock(w) \/ RoutineTest(w)
             \/ RoutineWait(w) \/ RoutineCheck(w) \/ SpuriousWakeup(w)
      PROVE  JobInv'
  BY <1>0, <1>1, <1>3
  DEF RoutineLock, RoutineTest, RoutineWait, RoutineCheck, SpuriousWakeup
<1>4. ASSUME NEW w \in Workers, RoutinePop(w) PROVE JobInv'
  <2>1. /\ Len(order') = Len(order) + 1 /\ Len(order) \in Nat
        /\ \A i \in 1..Len(order) : order'[i] = order[i]
        /\ order'[Len(order) + 1] = Head(queue)
    <3>1. order' = Append(order, Head(queue)) /\ Head(queue) \in Tasks
      BY <1>4 DEF RoutinePop, IInv, TypeOK
    <3> QED BY <1>0, <3>1
  <2>2. \A v \in Workers : wpc[v] = "run" => wpc'[v] = "run" /\ job'[v] = job[v]
    BY <1>0, <1>4 DEF RoutinePop
  <2>3. wpc'[w] = "run" /\ job'[w] = Head(queue) /\ finished' = finished
    BY <1>0, <1>4 DEF RoutinePop
  <2>4. ASSUME NEW i \in 1..Len(order')
        PROVE  \/ order'[i] \in finished'
               \/ \E v \in Workers : wpc'[v] = "run" /\ job'[v] = order'[i]
    <3>1. CASE i = Len(order) + 1
      BY <2>1, <2>3, <3>1
    <3>2. CASE i \in 1..Len(order)
      BY <1>0, <2>1, <2>2, <2>3, <3>2 DEF JobInv
    <3> QED BY <2>1, <3>1, <3>2
  <2> QED BY <2>4 DEF JobInv
<1>5. ASSUME NEW w \in Workers, RoutineRun(w) PROVE JobInv'
  <2>1. order' = order /\ finished' = finished \cup {job[w]}
    BY <1>5 DEF RoutineRun
  <2>2. \A v \in Workers \ {w} : wpc'[v] = wpc[v] /\ job'[v] = job[v]
    BY <1>0, <1>5 DEF RoutineRun
  <2> QED BY <1>0, <2>1, <2>2 DEF JobInv
<1>6. CASE UNCHANGED vars
  BY <1>0, <1>1, <1>6 DEF vars
<1> QED
  BY <1>2, <1>3, <1>4, <1>5, <1>6 DEF Next, thread_routine

\* IInv holds in every state of every behaviour of the pool.
THEOREM Invariance == Spec => []IInv
<1>1. IInv /\ [Next]_vars => IInv'
  BY TypeStep, LockStep, MainStep, ListStep, WorkerStep, JobStep DEF IInv
<1> QED BY InitIInv, <1>1, PTL DEF Spec

\* The variables of the pool keep their types (TypeOK), whatever the number of
\* threads and tasks.
THEOREM TypeCorrect == Spec => []TypeOK
<1>1. IInv => TypeOK
  BY DEF IInv
<1> QED BY Invariance, <1>1, PTL

\* No task is lost, duplicated or overtaken between pool_add_worker and
\* thread_routine, and cur_queue_size is the length of the list.
THEOREM FifoExactlyOnceHolds == Spec => []FifoExactlyOnce
<1>1. IInv => FifoExactlyOnce
  <2> SUFFICES ASSUME IInv, mpc # "done"
               PROVE  /\ order \o queue = [i \in 1..Added |-> i]
                      /\ cur_queue_size = Len(queue)
    BY DEF FifoExactlyOnce
  <2>1. order \in Seq(Tasks) /\ queue \in Seq(Tasks) /\ ListInv
    BY DEF IInv, TypeOK
  <2>2. Len(order) + Len(queue) = Added /\ cur_queue_size = Len(queue)
    BY <2>1 DEF ListInv
  <2>3. \A i \in 1..Len(order) + Len(queue) : (order \o queue)[i] = i
    <3>1. \A i \in 1..Len(order) + Len(queue) :
            (order \o queue)[i] = IF i <= Len(order) THEN order[i]
                                  ELSE queue[i - Len(order)]
      BY <2>1, ConcatProperties
    <3> QED BY <2>1, <3>1 DEF ListInv
  <2>4. order \o queue \in Seq(Tasks) /\ Len(order \o queue) = Added
    BY <2>1, <2>2, ConcatProperties
  <2>5. order \o queue \in [1..Added -> Tasks]
    BY <2>4, LenProperties
  <2>6. order \o queue = [i \in 1..Added |-> i]
    BY <2>2, <2>3, <2>5
  <2> QED BY <2>2, <2>6
<1> QED BY Invariance, <1>1, PTL

\* The assertions at lines 157 and 158 of thread_routine never fail.
THEOREM AssertionsNeverFail == Spec => []AssertionsHold
<1>1. IInv => AssertionsHold
  <2> SUFFICES ASSUME IInv, NEW w \in Workers, wpc[w] = "pop"
               PROVE  cur_queue_size # 0 /\ queue # <<>>
    BY DEF AssertionsHold
  <2>1. cur_queue_size # 0 /\ mpc # "done"
    BY DEF IInv, WorkerInv, MainInv
  <2>2. cur_queue_size = Len(queue)
    BY <2>1 DEF IInv, ListInv
  <2> QED BY <2>1, <2>2
<1> QED BY Invariance, <1>1, PTL

\* After pool_destroy sets shutdown, each worker dequeues one more task at most.
THEOREM LateTasksBounded == Spec => []AtMostOneLateTask
<1>1. IInv => AtMostOneLateTask
  BY DEF IInv, WorkerInv, AtMostOneLateTask
<1> QED BY Invariance, <1>1, PTL

\* pool_destroy frees the pool only when every thread has exited and every task
\* that was dequeued has run to its end.
THEOREM DestroyIsSafe == Spec => []DestroyWaitsForRunning
<1>1. IInv => DestroyWaitsForRunning
  BY DEF IInv, MainInv, JobInv, DestroyWaitsForRunning
<1> QED BY Invariance, <1>1, PTL

-----------------------------------------------------------------------------
\* A worker that dequeues runs the next task in order, and those that run are
\* behind it: no two workers run the same task.
LEMMA RunStep == IInv /\ RunInv /\ [Next]_vars => RunInv'
<1> SUFFICES ASSUME IInv, RunInv, [Next]_vars PROVE RunInv'
  OBVIOUS
<1>0. /\ wpc \in [Workers -> WorkerStates] /\ job \in [Workers -> 0..NumTasks]
      /\ order \in Seq(Tasks) /\ queue \in Seq(Tasks) /\ Len(order) \in Nat
      /\ mpc = "create" => num \in Workers /\ wpc[num] = "unborn"
  BY PoolAssumption DEF IInv, TypeOK, MainInv, Workers
<1>1. CASE /\ order' = order /\ job' = job
           /\ \A v \in Workers : wpc'[v] = "run" => wpc[v] = "run"
  BY <1>1 DEF RunInv, Running
<1>2. CASE main \/ DestroyFlag \/ pool_destroy
  BY <1>0, <1>1, <1>2
  DEF main, pool_destroy, pool_init, AddLock, AddAppend, AddSignal, DestroyFlag,
      DestroyBroadcast, DestroyJoin, DestroyFree, Waiting
<1>3. ASSUME NEW w \in Workers, RoutineLock(w) \/ RoutineTest(w)
             \/ RoutineWait(w) \/ RoutineCheck(w) \/ SpuriousWakeup(w)
      PROVE  RunInv'
  BY <1>0, <1>1, <1>3
  DEF RoutineLock, RoutineTest, RoutineWait, RoutineCheck, SpuriousWakeup
<1>4. ASSUME NEW w \in Workers, RoutinePop(w) PROVE RunInv'
  <2>1. Head(queue) \in Tasks /\ order' = Append(order, Head(queue))
    BY <1>0, <1>4 DEF RoutinePop
  <2>2. Len(order') = Len(order) + 1
    BY <1>0, <2>1
  <2>3. Head(queue) = Len(order) + 1
    <3>1. mpc # "done" /\ queue # <<>>
      BY <1>4 DEF RoutinePop, IInv, MainInv
    <3>2. queue[1] = Len(order) + 1
      BY <1>0, <3>1 DEF IInv, ListInv
    <3> QED BY <1>0, <3>1, <3>2
  <2>4. job'[w] = Len(order) + 1 /\ wpc'[w] = "run"
    BY <1>0, <1>4, <2>3 DEF RoutinePop
  <2>5. \A v \in Workers \ {w} : wpc'[v] = wpc[v] /\ job'[v] = job[v]
    BY <1>0, <1>4 DEF RoutinePop
  <2>6. \A v \in Workers : wpc[v] = "run" => job[v] \in 1..Len(order)
    BY DEF RunInv, Running
  <2> QED BY <1>0, <2>2, <2>4, <2>5, <2>6 DEF RunInv, Running
<1>5. ASSUME NEW w \in Workers, RoutineRun(w) PROVE RunInv'
  BY <1>0, <1>5 DEF RoutineRun, RunInv, Running
<1>6. CASE UNCHANGED vars
  BY <1>1, <1>6 DEF vars
<1> QED
  BY <1>2, <1>3, <1>4, <1>5, <1>6 DEF Next, thread_routine

\* While a worker is not running a task, fewer tasks run than there are workers.
LEMMA RoomToRun ==
    ASSUME TypeOK, NEW w \in Workers, wpc[w] # "run"
    PROVE  Cardinality(RunningTasks) < max_thread_num
<1>1. IsFiniteSet(Workers) /\ Cardinality(Workers) = max_thread_num
  BY PoolAssumption, FS_Interval DEF Workers
<1>2. /\ IsFiniteSet(Workers \ {w})
      /\ Cardinality(Workers \ {w}) = max_thread_num - 1
  BY <1>1, FS_RemoveElement
<1>3. IsFiniteSet(Running) /\ Cardinality(Running) <= max_thread_num - 1
  <2>1. Running \in SUBSET (Workers \ {w})
    BY DEF Running
  <2> QED BY <1>2, <2>1, FS_Subset
<1> DEFINE f == [v \in Running |-> job[v]]
<1>4. f \in Surjection(Running, RunningTasks)
  BY DEF Surjection, RunningTasks
<1>5. IsFiniteSet(RunningTasks) /\ Cardinality(RunningTasks) <= Cardinality(Running)
  BY <1>3, <1>4, FS_Surjection
<1>6. /\ Cardinality(Running) \in Nat /\ Cardinality(RunningTasks) \in Nat
      /\ max_thread_num \in Nat
  BY <1>3, <1>5, FS_CardinalityType, PoolAssumption
<1> QED BY <1>3, <1>5, <1>6

\* Every step of the pool is a step of TaskPool or changes nothing of it: an
\* append is a Submit, a dequeue a Start, the end of a callback a Finish, the
\* flag a Close, and the free of the list is Closed.
THEOREM ImplementsTaskPoolHolds == Spec => ImplementsTaskPool
<1>1. Init => TP!PoolInit
  BY PoolAssumption DEF Init, TP!PoolInit, Added, Workers, RunningTasks, Running
<1>2. IInv /\ RunInv /\ [Next]_vars => [TP!PoolNext]_(TP!poolVars)
  <2> SUFFICES ASSUME IInv, RunInv, [Next]_vars
               PROVE  [TP!PoolNext]_(TP!poolVars)
    OBVIOUS
  <2> DEFINE phase == IF mpc = "done" THEN "closed"
                      ELSE IF shutdown = 1 THEN "closing" ELSE "open"
  <2>0. /\ wpc \in [Workers -> WorkerStates] /\ job \in [Workers -> 0..NumTasks]
        /\ queue \in Seq(Tasks) /\ num \in Nat /\ NumTasks \in Nat
        /\ shutdown \in {0, 1} /\ TypeOK
        /\ mpc = "create" => num \in Workers /\ wpc[num] = "unborn"
        /\ mpc \in {"add", "append", "signal"} => num \in Tasks
        /\ (shutdown = 1) <=> (mpc \in {"bcast", "join", "free", "done"})
    BY PoolAssumption DEF IInv, TypeOK, MainInv, Workers
  <2>a. TP!poolVars = <<1..Added, queue, RunningTasks, finished, phase>>
    BY DEF TP!poolVars
  <2>b. CASE /\ queue' = queue /\ finished' = finished /\ job' = job
             /\ Added' = Added /\ Running' = Running /\ phase' = phase
    BY <2>b DEF TP!poolVars, RunningTasks
  <2>1. CASE pool_init
    <3>1. Running' = Running
      BY <2>0, <2>1 DEF pool_init, Running
    <3>2. Added' = Added /\ phase' = phase
      BY <2>0, <2>1 DEF pool_init, AddLoop, Added, Tasks
    <3> QED BY <2>1, <2>b, <3>1, <3>2 DEF pool_init
  <2>2. CASE AddLock
    BY <2>2, <2>b DEF AddLock, Running, Added
  <2>3. CASE AddAppend
    <3>1. /\ Added = num - 1 /\ Added' = num /\ num \in Tasks
          /\ phase = "open" /\ phase' = "open"
      BY <2>0, <2>3 DEF AddAppend, Added
    <3>2. num \notin 1..Added /\ 1..Added' = 1..Added \cup {num}
      BY <2>0, <3>1 DEF Tasks
    <3>3. RunningTasks' = RunningTasks
      BY <2>3 DEF AddAppend, RunningTasks, Running
    <3>4. TP!Submit(num)
      BY <2>3, <3>1, <3>2, <3>3 DEF AddAppend, TP!Submit
    <3> QED BY <3>1, <3>4 DEF TP!PoolNext
  <2>4. CASE AddSignal
    <3>1. Running' = Running
      BY <2>0, <2>4 DEF AddSignal, Running, Waiting
    <3>2. Added' = Added /\ phase' = phase
      BY <2>0, <2>4 DEF AddSignal, AddLoop, Added, Tasks
    <3> QED BY <2>4, <2>b, <3>1, <3>2 DEF AddSignal
  <2>5. CASE DestroyFlag
    <3>1. phase = "open" /\ phase' = "closing" /\ Added' = Added
      BY <2>0, <2>5 DEF DestroyFlag, Added
    <3>2. TP!Close
      <4>1. RunningTasks' = RunningTasks
        BY <2>5 DEF DestroyFlag, RunningTasks, Running
      <4> QED BY <2>5, <3>1, <4>1 DEF DestroyFlag, TP!Close
    <3> QED BY <3>2 DEF TP!PoolNext
  <2>6. CASE DestroyBroadcast \/ DestroyJoin
    <3>1. Running' = Running
      BY <2>0, <2>6 DEF DestroyBroadcast, DestroyJoin, Running, Waiting
    <3>2. Added' = Added /\ phase' = phase
      BY <2>0, <2>6 DEF DestroyBroadcast, DestroyJoin, Added
    <3> QED BY <2>6, <2>b, <3>1, <3>2 DEF DestroyBroadcast, DestroyJoin
  <2>7. CASE DestroyFree
    <3>1. phase = "closing" /\ phase' = "closed" /\ Added' = Added
      BY <2>0, <2>7 DEF DestroyFree, Added
    <3>2. RunningTasks = {} /\ RunningTasks' = RunningTasks
      BY <2>7 DEF DestroyFree, RunningTasks, Running, IInv, MainInv
    <3>3. TP!Closed
      BY <2>7, <3>1, <3>2 DEF DestroyFree, TP!Closed
    <3> QED BY <3>3 DEF TP!PoolNext
  <2>8. ASSUME NEW w \in Workers, RoutineLock(w) \/ RoutineTest(w)
               \/ RoutineWait(w) \/ RoutineCheck(w) \/ SpuriousWakeup(w)
        PROVE  [TP!PoolNext]_(TP!poolVars)
    <3> USE DEF RoutineLock, RoutineTest, RoutineWait, RoutineCheck, SpuriousWakeup
    <3>1. Running' = Running
      BY <2>0, <2>8 DEF Running
    <3>2. Added' = Added /\ phase' = phase
      BY <2>8 DEF Added
    <3> QED BY <2>8, <2>b, <3>1, <3>2
  <2>9. ASSUME NEW w \in Workers, RoutinePop(w) PROVE TP!PoolNext
    <3>1. phase # "closed" /\ phase' = phase /\ Added' = Added /\ queue # <<>>
      BY <2>9 DEF RoutinePop, Added, IInv, MainInv
    <3>2. Cardinality(RunningTasks) < max_thread_num
      BY <2>0, <2>9, RoomToRun DEF RoutinePop
    <3>3. RunningTasks' = RunningTasks \cup {Head(queue)}
      <4>1. /\ wpc'[w] = "run" /\ job'[w] = Head(queue) /\ wpc[w] # "run"
            /\ \A v \in Workers \ {w} : wpc'[v] = wpc[v] /\ job'[v] = job[v]
        BY <2>0, <2>9 DEF RoutinePop
      <4> QED BY <4>1 DEF RunningTasks, Running
    <3>4. queue' = Tail(queue) /\ finished' = finished
      BY <2>9 DEF RoutinePop
    <3>5. TP!Start
      BY <3>1, <3>2, <3>3, <3>4 DEF TP!Start, TP!Cardinality, Cardinality
    <3> QED BY <3>5 DEF TP!PoolNext
  <2>10. ASSUME NEW w \in Workers, RoutineRun(w)
         PROVE  TP!PoolNext
    <3>1. phase' = phase /\ Added' = Added
      BY <2>10 DEF RoutineRun, Added
    <3>2. RunningTasks' = RunningTasks \ {job[w]} /\ job[w] \in RunningTasks
      <4>1. /\ wpc'[w] # "run" /\ wpc[w] = "run"
            /\ \A v \in Workers \ {w} : wpc'[v] = wpc[v] /\ job'[v] = job[v]
        BY <2>0, <2>10 DEF RoutineRun
      <4>2. \A v \in Workers \ {w} : wpc[v] = "run" => job[v] # job[w]
        BY <4>1 DEF RunInv, Running
      <4> QED BY <4>1, <4>2 DEF RunningTasks, Running
    <3>3. queue' = queue /\ finished' = finished \cup {job[w]}
      BY <2>10 DEF RoutineRun
    <3>4. TP!Finish(job[w])
      BY <3>1, <3>2, <3>3 DEF TP!Finish
    <3> QED BY <3>2, <3>4 DEF TP!PoolNext
  <2>11. CASE UNCHANGED vars
    BY <2>11, <2>b DEF vars, Added, Running
  <2> QED
    BY <2>1, <2>2, <2>3, <2>4, <2>5, <2>6, <2>7, <2>8, <2>9, <2>10, <2>11
    DEF Next, main, pool_destroy, thread_routine
<1>3. Init => RunInv
  BY DEF Init, RunInv, Running
<1> QED
  BY <1>1, <1>2, <1>3, Invariance, RunStep, PTL
  DEF Spec, ImplementsTaskPool, TP!PoolSpec
=============================================================================
