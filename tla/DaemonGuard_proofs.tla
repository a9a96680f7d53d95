-------------------------- MODULE DaemonGuard_proofs --------------------------
(***************************************************************************)
(* The guard's table and its processes, for every number of workers, every *)
(* set of process ids the kernel gives out again, and every option on the  *)
(* command line.                                                           *)
(***************************************************************************)
EXTENDS DaemonGuard, SequenceTheorems, TLAPS

\* The constants, and the longest of the delays.
LEMMA Constants ==
    /\ MaxWorkers \in Nat \ {0} /\ MaxStreak \in Nat /\ Longest \in Nat
    /\ 1 \in 0..Longest /\ 0 \in 0..Longest
    /\ \A d \in Delays \cup {DEFAULT_DELAY} : d \in 0..Longest
    /\ Limits \subseteq Nat /\ Counts \subseteq Int
    /\ NoPid \notin Pids /\ 0 \notin Pids /\ NoPid # 0 /\ DEFAULT_MAX \in Nat
<1> DEFINE D == Delays \cup {DEFAULT_DELAY}
<1>1. D \subseteq Nat /\ 1 \in D
  BY GuardAssumption DEF DEFAULT_DELAY
<1>2. Longest \in D /\ \A e \in D : e <= Longest
  BY GuardAssumption DEF Longest
<1> HIDE DEF D
<1>3. Longest \in Nat /\ \A d \in D : d \in 0..Longest
  BY <1>1, <1>2
<1>4. NoPid \notin Pids /\ 0 \notin Pids /\ NoPid # 0 /\ DEFAULT_MAX \in Nat
  BY GuardAssumption DEF NoPid, DEFAULT_MAX
<1> QED BY <1>1, <1>3, <1>4, GuardAssumption DEF D

\* Before the arguments are parsed there are neither workers nor processes.
LEMMA InitIInv == Init => IInv
<1> SUFFICES ASSUME Init PROVE IInv
  OBVIOUS
<1> USE Constants DEF Init
<1>1. TypeOK
  <2>1. workers \in Seq(WorkerRecord) /\ streak \in Seq(Nat) /\ Len(workers) = 0
        /\ Len(streak) = 0
    OBVIOUS
  <2>2. i \in 1..MaxWorkers /\ child \in [Pids -> 0..MaxWorkers]
    OBVIOUS
  <2>3. wake \in 0..Longest /\ Len(workers) <= MaxWorkers /\ forkFailures \in Nat
    BY <2>1
  <2>4. signalled \subseteq Running /\ zombies \subseteq {p \in Pids : child[p] # 0}
    OBVIOUS
  <2> QED BY <2>1, <2>2, <2>3, <2>4 DEF TypeOK
<1>2. LoopInv /\ StartInv
  BY DEF LoopInv, StartInv, Looping
<1>3. PidInv
  <2>1. Index = {}
    BY DEF Index
  <2> QED BY <2>1 DEF PidInv
<1>4. EveryProcessIsRecorded /\ NoWorkerForgotten
  BY DEF EveryProcessIsRecorded, NoWorkerForgotten
<1> QED BY <1>1, <1>2, <1>3, <1>4 DEF IInv

\* Advancing stays within the array.
LEMMA AdvanceTypes ==
    ASSUME IInv, pc \in Looping, NEW here, NEW after, Advance(here, after)
    PROVE  /\ i' \in 1..MaxWorkers /\ wake' \in 0..Longest
           /\ \/ i < Len(workers) /\ i' = i + 1 /\ pc' = here
              \/ i = Len(workers) /\ i' = 1 /\ pc' = after
<1>1. /\ i \in 1..MaxWorkers /\ Len(workers) <= MaxWorkers /\ Len(workers) \in Nat
      /\ i \in 1..Len(workers)
  BY DEF IInv, TypeOK, LoopInv, Index
<1> QED BY <1>1, Constants DEF Advance

\* A step on one worker's record keeps the array one of records.
LEMMA RecordTypes ==
    ASSUME workers \in Seq(WorkerRecord), NEW k \in Index, NEW r \in WorkerRecord
    PROVE  LET ws == [workers EXCEPT ![k] = r] IN
           /\ ws \in Seq(WorkerRecord) /\ Len(ws) = Len(workers) /\ ws[k] = r
           /\ \A w \in Index : w # k => ws[w] = workers[w]
BY DEF Index

\* Time passes for each worker's entry.
LEMMA TickTypes ==
    ASSUME workers \in Seq(WorkerRecord), Tick
    PROVE  /\ workers' \in Seq(WorkerRecord) /\ Len(workers') = Len(workers)
           /\ \A w \in Index : /\ workers'[w].pid = workers[w].pid
                               /\ workers'[w].restart_count = workers[w].restart_count
                               /\ workers'[w].max_restarts = workers[w].max_restarts
<1>1. \A w \in Index : Capped(workers[w].age + 1, Longest) \in 0..Longest
  <2> TAKE w \in Index
  <2>1. workers[w] \in WorkerRecord
    BY DEF Index
  <2>2. workers[w].age \in 0..Longest
    BY <2>1 DEF WorkerRecord
  <2> QED BY <2>2, Constants DEF Capped
<1>2. workers' = [w \in 1..Len(workers) |->
                    [workers[w] EXCEPT !.age = Capped(workers[w].age + 1, Longest)]]
  BY DEF Tick, Index
<1>3. \A w \in Index : workers'[w] \in WorkerRecord
  <2> TAKE w \in Index
  <2>1. workers[w] \in WorkerRecord
    BY DEF Index
  <2>2. workers'[w] = [workers[w] EXCEPT !.age = Capped(workers[w].age + 1, Longest)]
    BY <1>2 DEF Index
  <2> QED BY <1>1, <2>1, <2>2 DEF WorkerRecord
<1>4. workers' \in [1..Len(workers) -> WorkerRecord] /\ Len(workers) \in Nat
  BY <1>2, <1>3 DEF Index
<1>5. workers' \in Seq(WorkerRecord) /\ Len(workers') = Len(workers)
  <2>1. workers' \in Seq(WorkerRecord)
    BY <1>4, SeqDef
  <2> QED BY <1>4, <2>1, LenProperties
<1>6. ASSUME NEW w \in Index
      PROVE  /\ workers'[w].pid = workers[w].pid
             /\ workers'[w].restart_count = workers[w].restart_count
             /\ workers'[w].max_restarts = workers[w].max_restarts
  <2>1. workers[w] \in WorkerRecord
    BY DEF Index
  <2>2. workers'[w] = [workers[w] EXCEPT !.age = Capped(workers[w].age + 1, Longest)]
    BY <1>2 DEF Index
  <2> QED BY <2>1, <2>2 DEF WorkerRecord
<1> QED BY <1>5, <1>6

\* What waitpid takes away is a process that had died.
LEMMA ReapEffect ==
    ASSUME TypeOK, NEW qs \in SUBSET zombies, Reap(qs)
    PROVE  /\ zombies' = zombies \ qs /\ child' \in [Pids -> 0..MaxWorkers]
           /\ zombies' \subseteq {p \in Pids : child'[p] # 0} /\ Running' = Running
           /\ \A p \in Pids : IF p \in qs THEN child'[p] = 0 ELSE child'[p] = child[p]
<1>1. /\ zombies' = zombies \ qs
      /\ \A p \in Pids : IF p \in qs THEN child'[p] = 0 ELSE child'[p] = child[p]
  BY DEF Reap
<1>2. child' \in [Pids -> 0..MaxWorkers]
  <2>1. \A p \in Pids : (IF p \in qs THEN 0 ELSE child[p]) \in 0..MaxWorkers
    BY Constants DEF TypeOK
  <2> QED BY <2>1 DEF Reap
<1>3. Running' = Running
  BY <1>1 DEF Running
<1>4. zombies' \subseteq {p \in Pids : child'[p] # 0}
  BY <1>1 DEF TypeOK
<1> QED BY <1>1, <1>2, <1>3, <1>4

\* A new count of deaths is an integer.
LEMMA CountTypes ==
    ASSUME TypeOK, NEW w \in Index
    PROVE  /\ NewCount(workers[w]) \in Int /\ workers[w] \in WorkerRecord
           /\ [workers[w] EXCEPT !.restart_count = NewCount(workers[w])] \in WorkerRecord
<1>1. workers[w] \in WorkerRecord
  BY DEF Index, TypeOK
<1>2. NewCount(workers[w]) \in Int
  BY <1>1 DEF NewCount, WorkerRecord
<1> QED BY <1>1, <1>2 DEF WorkerRecord

\* Recording the pid changes that worker's entry.
LEMMA RecordedEffect ==
    ASSUME IInv, start_worker, RecordPid
    PROVE  /\ workers' \in Seq(WorkerRecord) /\ Len(workers') = Len(workers)
           /\ i \in Index /\ workers'[i].pid = forked
           /\ \A w \in Index \ {i} : workers'[w] = workers[w]
           /\ \A w \in Index : /\ workers'[w].restart_count = workers[w].restart_count
                               /\ workers'[w].max_restarts = workers[w].max_restarts
<1>1. i \in Index /\ forked \in Pids /\ workers \in Seq(WorkerRecord)
  BY DEF IInv, TypeOK, LoopInv, Looping, start_worker, RecordPid
<1> DEFINE r == [workers[i] EXCEPT !.pid = forked, !.age = 0]
<1>2. workers[i] \in WorkerRecord
  BY <1>1 DEF Index
<1>3. /\ r \in WorkerRecord /\ r.pid = forked /\ r.restart_count = workers[i].restart_count
      /\ r.max_restarts = workers[i].max_restarts
  BY <1>1, <1>2, Constants DEF WorkerRecord
<1>4. workers' = [workers EXCEPT ![i] = r]
  BY <1>1 DEF RecordPid, Index
<1> HIDE DEF r
<1>5. /\ workers' \in Seq(WorkerRecord) /\ Len(workers') = Len(workers) /\ workers'[i] = r
      /\ \A w \in Index \ {i} : workers'[w] = workers[w]
  BY <1>1, <1>3, <1>4 DEF Index
<1> QED BY <1>1, <1>3, <1>5

\* The guard counts the death of a worker that has ended.
LEMMA EndedEffect ==
    ASSUME IInv, Ended
    PROVE  /\ workers' \in Seq(WorkerRecord) /\ Len(workers') = Len(workers)
           /\ i \in Index /\ workers'[i].restart_count = NewCount(workers[i])
           /\ \A w \in Index \ {i} : workers'[w] = workers[w]
           /\ \A w \in Index : /\ workers'[w].pid = workers[w].pid
                               /\ workers'[w].max_restarts = workers[w].max_restarts
<1>1. i \in Index /\ workers \in Seq(WorkerRecord)
  BY DEF IInv, TypeOK, LoopInv, Looping, Ended
<1> DEFINE r == [workers[i] EXCEPT !.restart_count = NewCount(workers[i])]
<1>2. r \in WorkerRecord /\ workers[i] \in WorkerRecord
  BY <1>1, CountTypes DEF IInv
<1>3. /\ r.pid = workers[i].pid /\ r.restart_count = NewCount(workers[i])
      /\ r.max_restarts = workers[i].max_restarts
  BY <1>2 DEF WorkerRecord
<1>4. workers' = [workers EXCEPT ![i] = r]
  BY <1>1 DEF Ended
<1> HIDE DEF r
<1>5. /\ workers' \in Seq(WorkerRecord) /\ Len(workers') = Len(workers) /\ workers'[i] = r
      /\ \A w \in Index \ {i} : workers'[w] = workers[w]
  BY <1>1, <1>2, <1>4 DEF Index
<1> QED BY <1>1, <1>3, <1>5

\* The variables keep their types.
LEMMA TypeStep == IInv /\ [Next]_vars => TypeOK'
<1> SUFFICES ASSUME IInv, [Next]_vars PROVE TypeOK'
  OBVIOUS
<1>t. TypeOK
  BY DEF IInv
<1> USE Constants
<1>1. CASE ParseCmd
  <2>1. PICK c \in Counts, a \in {0, Longest} :
          workers' = Append(workers, [max_restarts |-> DEFAULT_MAX,
                      restart_delay |-> DEFAULT_DELAY, restart_count |-> c,
                      pid |-> NoPid, age |-> a])
    BY <1>1 DEF ParseCmd
  <2>2. [max_restarts |-> DEFAULT_MAX, restart_delay |-> DEFAULT_DELAY,
         restart_count |-> c, pid |-> NoPid, age |-> a] \in WorkerRecord
    BY DEF WorkerRecord
  <2>3. workers' \in Seq(WorkerRecord) /\ Len(workers') = Len(workers) + 1
    BY <1>t, <2>1, <2>2 DEF TypeOK
  <2>4. streak' \in Seq(Nat) /\ Len(streak') = Len(streak) + 1
    BY <1>1, <1>t DEF ParseCmd, TypeOK
  <2>5. Len(workers') <= MaxWorkers
    BY <1>1, <2>3, <1>t DEF ParseCmd, TypeOK
  <2> QED BY <1>1, <1>t, <2>3, <2>4, <2>5 DEF ParseCmd, TypeOK, Running
<1>2. CASE ParseOption
  <2>1. workers' \in Seq(WorkerRecord) /\ Len(workers') = Len(workers)
    <3>1. CASE workers # <<>>
      <4> DEFINE k == Len(workers)
      <4>1. k \in Index /\ workers[k] \in WorkerRecord
        BY <1>t, <3>1 DEF Index, TypeOK
      <4> HIDE DEF k
      <4>2. CASE \E n \in Limits : workers' = [workers EXCEPT ![k].max_restarts = n]
        <5>1. PICK n \in Limits :
                workers' = [workers EXCEPT ![k] = [workers[k] EXCEPT !.max_restarts = n]]
          BY <4>2
        <5>2. [workers[k] EXCEPT !.max_restarts = n] \in WorkerRecord
          BY <4>1 DEF WorkerRecord
        <5> QED BY <5>1, <5>2, <4>1, <1>t DEF Index, TypeOK
      <4>3. CASE \E n \in Delays : workers' = [workers EXCEPT ![k].restart_delay = n]
        <5>1. PICK n \in Delays :
                workers' = [workers EXCEPT ![k] = [workers[k] EXCEPT !.restart_delay = n]]
          BY <4>3
        <5>2. [workers[k] EXCEPT !.restart_delay = n] \in WorkerRecord
          BY <4>1 DEF WorkerRecord
        <5> QED BY <5>1, <5>2, <4>1, <1>t DEF Index, TypeOK
      <4> QED BY <1>2, <3>1, <4>2, <4>3 DEF ParseOption, k
    <3>2. CASE workers = <<>>
      BY <1>2, <1>t, <3>2 DEF ParseOption, TypeOK
    <3> QED BY <3>1, <3>2
  <2>2. pc' \in {pc, "crashed"}
    BY <1>2 DEF ParseOption
  <2> QED BY <1>2, <1>t, <2>1, <2>2 DEF ParseOption, others, TypeOK, Running
<1>3. CASE ParseReject \/ ParseDone \/ UseAfterFree
  BY <1>3, <1>t DEF ParseReject, ParseDone, UseAfterFree, others, TypeOK, Running
<1>4. CASE start_worker /\ Fork
  <2>1. PICK p \in Pids : /\ child[p] = 0 /\ child' = [child EXCEPT ![p] = i] /\ forked' = p
                          /\ reused' = (reused \/ \E v \in Index \ {i} : workers[v].pid = p)
    BY <1>4 DEF Fork
  <2>2. child' \in [Pids -> 0..MaxWorkers] /\ child'[p] = i /\ i # 0
        /\ \A q \in Pids \ {p} : child'[q] = child[q]
    BY <2>1, <1>t DEF TypeOK
  <2>3. Running \subseteq Running' /\ zombies \subseteq {q \in Pids : child'[q] # 0}
    BY <2>1, <2>2, <1>4, <1>t DEF Running, Fork, TypeOK
  <2>4. reused' \in BOOLEAN
    BY <2>1
  <2> QED BY <1>4, <1>t, <2>1, <2>2, <2>3, <2>4 DEF Fork, TypeOK
<1>5. CASE start_worker /\ ForkFails
  <2>1. pc' \in {"start", "check", "rest"} /\ i' \in 1..MaxWorkers /\ wake' \in 0..Longest
    <3>1. CASE pc = "start"
      BY <1>5, <3>1, AdvanceTypes DEF ForkFails, Return, Looping
    <3>2. CASE pc # "start"
      BY <1>5, <3>2, AdvanceTypes DEF ForkFails, Return, Looping, start_worker
    <3> QED BY <3>1, <3>2
  <2> QED BY <1>5, <1>t, <2>1 DEF ForkFails, TypeOK, Running
<1>6. CASE start_worker /\ RecordPid
  <2>1. pc' \in {"start", "check", "rest"} /\ i' \in 1..MaxWorkers /\ wake' \in 0..Longest
    <3>1. CASE pc = "start"
      BY <1>6, <3>1, AdvanceTypes DEF RecordPid, Return, Looping
    <3>2. CASE pc # "start"
      BY <1>6, <3>2, AdvanceTypes DEF RecordPid, Return, Looping, start_worker
    <3> QED BY <3>1, <3>2
  <2>2. workers' \in Seq(WorkerRecord) /\ Len(workers') = Len(workers)
    BY <1>6, RecordedEffect
  <2> QED BY <1>6, <1>t, <2>1, <2>2 DEF RecordPid, TypeOK, Running
<1>7. CASE Check
  <2>1. PICK qs \in SUBSET zombies : Reap(qs)
    BY <1>7 DEF Check
  <2>2. pc' \in {"check", "rest"} /\ i' \in 1..MaxWorkers /\ wake' \in 0..Longest
    BY <1>7, AdvanceTypes DEF Check, Looping
  <2> QED BY <1>7, <1>t, <2>1, <2>2, ReapEffect DEF Check, others, TypeOK
<1>8. CASE EndedGiveUp \/ EndedRestart
  <2>1. PICK qs \in SUBSET zombies : Reap(qs)
    BY <1>8 DEF Ended, EndedGiveUp, EndedRestart
  <2>2. i \in Index
    BY <1>8 DEF IInv, LoopInv, Looping, Ended, EndedGiveUp, EndedRestart
  <2>3. workers' \in Seq(WorkerRecord) /\ Len(workers') = Len(workers)
    BY <1>8, EndedEffect DEF EndedGiveUp, EndedRestart
  <2>4. pc' \in {"check", "delay", "rest"} /\ i' \in 1..MaxWorkers /\ wake' \in 0..Longest
    <3>1. CASE EndedGiveUp
      BY <3>1, AdvanceTypes DEF EndedGiveUp, Ended, Looping
    <3>2. CASE EndedRestart
      <4>1. workers[i].restart_delay \in 0..Longest
        BY <1>t, <2>2, CountTypes DEF WorkerRecord
      <4> QED BY <3>2, <4>1, <1>t DEF EndedRestart, TypeOK
    <3> QED BY <1>8, <3>1, <3>2
  <2> QED BY <1>8, <1>t, <2>1, <2>3, <2>4, ReapEffect
          DEF Ended, EndedGiveUp, EndedRestart, others, TypeOK
<1>9. CASE Rest
  BY <1>9, <1>t DEF Rest, others, TypeOK, Running
<1>10. CASE cleanup
  <2>1. signalled' \subseteq Running /\ Running' = Running
    BY <1>10, <1>t DEF cleanup, Recorded, TypeOK, Running
  <2>2. pc' \in {pc, "crashed"} /\ wake' \in 0..Longest
    BY <1>10 DEF cleanup
  <2> QED BY <1>10, <1>t, <2>1, <2>2 DEF cleanup, TypeOK
<1>11. CASE Tick
  <2>1. workers' \in Seq(WorkerRecord) /\ Len(workers') = Len(workers)
    BY <1>11, <1>t, TickTypes DEF TypeOK
  <2>2. wake' \in 0..Longest
    BY <1>11, <1>t DEF Tick, TypeOK
  <2> QED BY <1>11, <1>t, <2>1, <2>2 DEF Tick, others, TypeOK, Running
<1>12. CASE \E p \in Pids : Die(p)
  <2>1. PICK p \in Pids : Die(p)
    BY <1>12
  <2>2. streak' \in Seq(Nat) /\ Len(streak') = Len(streak)
    <3>1. child[p] \in 1..Len(streak)
      BY <2>1, <1>t DEF Die, Running, TypeOK, IInv, LoopInv, Index
    <3>2. streak[child[p]] \in Nat
      BY <3>1, <1>t DEF TypeOK
    <3>3. Capped(streak[child[p]] + 1, MaxStreak) \in Nat
      BY <3>2 DEF Capped
    <3>4. PICK n \in Nat : streak' = [streak EXCEPT ![child[p]] = n]
      BY <2>1, <3>3 DEF Die
    <3> QED BY <3>1, <3>4, <1>t DEF TypeOK
  <2>3. zombies' \subseteq {q \in Pids : child[q] # 0} /\ signalled' \subseteq Running'
    BY <2>1, <1>t DEF Die, Running, TypeOK
  <2> QED BY <2>1, <1>t, <2>2, <2>3 DEF Die, TypeOK
<1>13. CASE UNCHANGED vars
  BY <1>13, <1>t DEF vars, TypeOK, Running
<1> QED BY <1>1, <1>2, <1>3, <1>4, <1>5, <1>6, <1>7, <1>8, <1>9, <1>10, <1>11, <1>12,
           <1>13 DEF Next, Parse, Guard, start_worker

-----------------------------------------------------------------------------
(***************************************************************************)
(* What each kind of step does to the processes and to their entries.      *)
(***************************************************************************)
\* While the arguments are parsed entries are added, and no process started.
LEMMA ParseEffect ==
    ASSUME IInv, Parse
    PROVE  /\ child' = child /\ \A p \in Pids : child[p] = 0
           /\ forked' = 0 /\ forked = 0 /\ i' = 1 /\ i = 1 /\ reused' = reused
           /\ pc' \in {"parse", "start", "exited", "crashed"}
           /\ pc' = "start" => 1 \in Index'
           /\ \A w \in Index' : \/ w \in Index /\ workers'[w].pid = workers[w].pid
                                \/ workers'[w].pid = NoPid
<1>1. pc = "parse"
  BY DEF Parse, ParseCmd, ParseOption, ParseReject, ParseDone
<1>2. /\ \A p \in Pids : child[p] = 0
      /\ forked = 0 /\ i = 1 /\ workers \in Seq(WorkerRecord)
  BY <1>1 DEF IInv, TypeOK, LoopInv
<1>3. CASE ParseCmd
  <2>1. PICK r : workers' = Append(workers, r) /\ r.pid = NoPid
    <3>1. PICK c \in Counts, a \in {0, Longest} :
            workers' = Append(workers, [max_restarts |-> DEFAULT_MAX,
                        restart_delay |-> DEFAULT_DELAY, restart_count |-> c,
                        pid |-> NoPid, age |-> a])
      BY <1>3 DEF ParseCmd
    <3> QED BY <3>1
  <2>2. \A w \in Index' : \/ w \in Index /\ workers'[w] = workers[w]
                          \/ workers'[w] = r
    BY <1>2, <2>1 DEF Index
  <2> QED BY <1>1, <1>2, <1>3, <2>1, <2>2 DEF ParseCmd
<1>4. CASE ParseOption
  <2>1. CASE workers # <<>>
    <3> DEFINE k == Len(workers)
    <3>1. k \in Index /\ workers[k] \in WorkerRecord
      BY <1>2, <2>1 DEF Index
    <3> HIDE DEF k
    <3>2. PICK r : workers' = [workers EXCEPT ![k] = r] /\ r.pid = workers[k].pid
      <4>1. CASE \E n \in Limits : workers' = [workers EXCEPT ![k].max_restarts = n]
        <5>1. PICK n \in Limits :
                workers' = [workers EXCEPT ![k] = [workers[k] EXCEPT !.max_restarts = n]]
          BY <4>1
        <5>2. [workers[k] EXCEPT !.max_restarts = n].pid = workers[k].pid
          BY <3>1 DEF WorkerRecord
        <5> QED BY <5>1, <5>2
      <4>2. CASE \E n \in Delays : workers' = [workers EXCEPT ![k].restart_delay = n]
        <5>1. PICK n \in Delays :
                workers' = [workers EXCEPT ![k] = [workers[k] EXCEPT !.restart_delay = n]]
          BY <4>2
        <5>2. [workers[k] EXCEPT !.restart_delay = n].pid = workers[k].pid
          BY <3>1 DEF WorkerRecord
        <5> QED BY <5>1, <5>2
      <4> QED BY <1>4, <2>1, <4>1, <4>2 DEF ParseOption, k
    <3>3. Index' = Index /\ \A w \in Index : workers'[w].pid = workers[w].pid
      BY <1>2, <3>1, <3>2 DEF Index
    <3> QED BY <1>1, <1>2, <1>4, <2>1, <3>3 DEF ParseOption, others
  <2>2. CASE workers = <<>>
    BY <1>1, <1>2, <1>4, <2>2 DEF ParseOption, others, Index
  <2> QED BY <2>1, <2>2
<1>5. CASE ParseReject
  BY <1>1, <1>2, <1>5 DEF ParseReject, others, Index
<1>6. CASE ParseDone
  <2>1. 1 \in Index
    BY <1>2, <1>6 DEF ParseDone, Index
  <2> QED BY <1>1, <1>2, <1>6, <2>1 DEF ParseDone, others, Index
<1> QED BY <1>3, <1>4, <1>5, <1>6 DEF Parse

\* The steps that leave the processes, their entries and the loop's place alone.
Quiet == Rest \/ cleanup \/ UseAfterFree \/ Tick \/ (\E p \in Pids : Die(p)) \/ UNCHANGED vars

LEMMA QuietEffect ==
    ASSUME IInv, Quiet
    PROVE  /\ child' = child /\ forked' = forked /\ i' = i /\ Index' = Index
           /\ forkFailures' = forkFailures /\ reused' = reused
           /\ pc' = pc \/ pc' = "crashed" \/ (pc = "rest" /\ pc' = "check" /\ forked = 0)
           /\ \A w \in Index : /\ workers'[w].pid = workers[w].pid
                               /\ workers'[w].restart_count = workers[w].restart_count
                               /\ workers'[w].max_restarts = workers[w].max_restarts
<1>1. CASE Rest
  BY <1>1 DEF Rest, others, IInv, LoopInv, Index
<1>2. CASE cleanup \/ UseAfterFree
  BY <1>2 DEF cleanup, UseAfterFree, others, Index
<1>3. CASE Tick
  BY <1>3, TickTypes DEF Tick, others, Index, IInv, TypeOK
<1>4. CASE \E p \in Pids : Die(p)
  BY <1>4 DEF Die, Index
<1>5. CASE UNCHANGED vars
  BY <1>5 DEF vars, Index
<1> QED BY <1>1, <1>2, <1>3, <1>4, <1>5 DEF Quiet

\* A fork adds a process of the worker at hand.
LEMMA ForkEffect ==
    ASSUME IInv, start_worker, Fork
    PROVE  /\ forked = 0 /\ forked' \in Pids /\ child[forked'] = 0 /\ child'[forked'] = i
           /\ \A q \in Pids \ {forked'} : child'[q] = child[q]
           /\ i \in Index /\ i' = i /\ pc' = pc /\ pc \in {"start", "delay"}
           /\ workers' = workers /\ Index' = Index /\ forkFailures' = forkFailures
           /\ reused' = (reused \/ \E v \in Index \ {i} : workers[v].pid = forked')
<1>1. pc \in {"start", "delay"} /\ i \in Index /\ child \in [Pids -> 0..MaxWorkers]
  BY DEF start_worker, IInv, LoopInv, Looping, TypeOK
<1> QED BY <1>1 DEF Fork, Index

\* With or without a process, the loop goes on with the next worker.
LEMMA ReturnEffect ==
    ASSUME IInv, start_worker, ForkFails \/ RecordPid
    PROVE  /\ pc \in {"start", "delay"} /\ i \in Index /\ Index = 1..Len(workers)
           /\ Len(workers) \in Nat /\ i \in Nat
           /\ child' = child /\ reused' = reused /\ forked' = 0
           /\ Len(workers') = Len(workers) /\ Index' = Index
           /\ \/ i < Len(workers) /\ i' = i + 1
                   /\ pc' = IF pc = "start" THEN "start" ELSE "check"
              \/ i = Len(workers) /\ i' = 1
                   /\ pc' = IF pc = "start" THEN "check" ELSE "rest"
<1>1. /\ pc \in {"start", "delay"} /\ i \in Index /\ i \in Nat
      /\ Len(workers) \in Nat /\ Index = 1..Len(workers)
  BY DEF start_worker, IInv, LoopInv, Looping, TypeOK, Index
<1>2. Len(workers') = Len(workers)
  BY RecordedEffect DEF ForkFails
<1>3. child' = child /\ reused' = reused /\ forked' = 0 /\ Return
  BY DEF ForkFails, RecordPid
<1>4. CASE pc = "start"
  BY <1>1, <1>2, <1>3, <1>4, AdvanceTypes DEF Return, Looping, Index
<1>5. CASE pc = "delay"
  BY <1>1, <1>2, <1>3, <1>5, AdvanceTypes DEF Return, Looping, Index
<1> QED BY <1>1, <1>4, <1>5

\* A worker that has not ended keeps its process, unless it has no pid: then
\* waitpid takes any child, and only a failed fork leaves a worker so.
LEMMA CheckEffect ==
    ASSUME IInv, Check
    PROVE  /\ pc = "check" /\ forked = 0 /\ forked' = 0 /\ workers' = workers /\ Index' = Index
           /\ forkFailures' = forkFailures /\ reused' = reused
           /\ \A q \in Pids : child'[q] \in {0, child[q]}
           /\ forkFailures > 0 \/ \A q \in Pids : child'[q] = child[q]
           /\ pc' \in {"check", "rest"} /\ i' \in Index
<1>1. /\ pc = "check" /\ forked = 0 /\ forked' = 0 /\ workers' = workers /\ Index' = Index
      /\ forkFailures' = forkFailures /\ reused' = reused /\ i \in Index
  BY DEF Check, others, IInv, LoopInv, Looping, Index
<1>2. pc' \in {"check", "rest"} /\ i' \in Index
  BY <1>1, AdvanceTypes DEF Check, Looping, Index, IInv, TypeOK
<1>3. PICK res \in Pids \cup {0, -1}, qs \in SUBSET zombies :
        Waitpid(workers[i].pid, res, qs) /\ res # workers[i].pid /\ Reap(qs)
  BY DEF Check
<1>4. \A q \in Pids : IF q \in qs THEN child'[q] = 0 ELSE child'[q] = child[q]
  BY <1>3, ReapEffect DEF IInv
<1>5. qs = {} \/ workers[i].pid = NoPid
  BY <1>3 DEF Waitpid
<1>6. workers[i].pid = NoPid => forkFailures > 0
  BY <1>1 DEF IInv, PidInv
<1> QED BY <1>1, <1>2, <1>4, <1>5, <1>6

\* A worker that has ended has no process left, and the others keep theirs,
\* unless the guard took one worker's end for another's.
LEMMA EndEffect ==
    ASSUME IInv, Ended
    PROVE  /\ pc = "check" /\ forked = 0 /\ forked' = 0 /\ i \in Index /\ Index' = Index
           /\ forkFailures' = forkFailures /\ reused' = reused
           /\ \A q \in Pids : child'[q] \in {0, child[q]} /\ child'[q] # i
           /\ \/ forkFailures > 0 \/ reused
              \/ \A q \in Pids : child[q] # i => child'[q] = child[q]
<1>1. /\ pc = "check" /\ forked = 0 /\ forked' = 0
      /\ forkFailures' = forkFailures /\ reused' = reused
  BY DEF Ended, others, IInv, LoopInv
<1>2. i \in Index /\ Index' = Index /\ workers[i].pid \in Pids \cup {NoPid} /\ i # 0
  <2>1. i \in Index /\ Len(workers') = Len(workers)
    BY EndedEffect
  <2>2. workers[i] \in WorkerRecord
    BY <2>1, CountTypes DEF IInv
  <2> QED BY <2>1, <2>2 DEF Index, WorkerRecord
<1>3. PICK res \in Pids \cup {-1}, qs \in SUBSET zombies :
        Waitpid(workers[i].pid, res, qs) /\ res = workers[i].pid /\ Reap(qs)
  BY DEF Ended
<1>4. \A q \in Pids : IF q \in qs THEN child'[q] = 0 ELSE child'[q] = child[q]
  BY <1>3, ReapEffect DEF IInv
<1>5. \A q \in Pids : child[q] # 0 => workers[child[q]].pid = q /\ child[q] \in Index
  BY <1>1, Constants DEF IInv, EveryProcessIsRecorded, LoopInv
<1>6. CASE workers[i].pid \in Pids /\ qs = {workers[i].pid} /\ child[workers[i].pid] # 0
  <2>1. \A q \in Pids : child'[q] \in {0, child[q]} /\ child'[q] # i
    BY <1>2, <1>4, <1>5, <1>6
  <2>2. reused \/ child[workers[i].pid] = i
    <3>1. workers[child[workers[i].pid]].pid = workers[i].pid /\ child[workers[i].pid] \in Index
      BY <1>5, <1>6
    <3>2. workers[child[workers[i].pid]].pid # NoPid
      BY <1>6, <3>1, Constants
    <3> QED BY <1>2, <3>1, <3>2 DEF IInv, PidInv
  <2> QED BY <1>1, <1>2, <1>4, <1>6, <2>1, <2>2
<1>7. CASE workers[i].pid = NoPid /\ qs = {} /\ \A q \in Pids : child[q] = 0
  BY <1>1, <1>2, <1>4, <1>7
<1>8. \/ workers[i].pid \in Pids /\ qs = {workers[i].pid} /\ child[workers[i].pid] # 0
      \/ workers[i].pid = NoPid /\ qs = {} /\ \A q \in Pids : child[q] = 0
      \/ workers[i].pid = NoPid /\ NoPid \in Pids
  BY <1>2, <1>3, Constants DEF Waitpid, NoPid
<1> QED BY <1>6, <1>7, <1>8, Constants

-----------------------------------------------------------------------------
(***************************************************************************)
(* Each part of the invariant is preserved by each kind of step.           *)
(***************************************************************************)
LEMMA StepKinds ==
    ASSUME [Next]_vars
    PROVE  \/ Parse \/ Quiet \/ Check \/ (Ended /\ (EndedGiveUp \/ EndedRestart))
           \/ start_worker /\ Fork
           \/ start_worker /\ (ForkFails \/ RecordPid)
BY DEF Next, Guard, Quiet, start_worker, EndedGiveUp, EndedRestart

\* After a worker has ended the guard goes on or waits to start it again.
LEMMA EndedPlace ==
    ASSUME IInv, EndedGiveUp \/ EndedRestart
    PROVE  \/ EndedGiveUp /\ pc' \in {"check", "rest"} /\ i' \in Index
           \/ EndedRestart /\ pc' = "delay" /\ i' = i
<1>1. CASE EndedGiveUp
  <2>1. pc \in Looping /\ Advance("check", "rest") /\ workers \in Seq(WorkerRecord)
    BY <1>1 DEF EndedGiveUp, Ended, Looping, IInv, TypeOK
  <2>2. \/ i < Len(workers) /\ i' = i + 1 /\ pc' = "check"
        \/ i = Len(workers) /\ i' = 1 /\ pc' = "rest"
    BY <2>1, AdvanceTypes
  <2>3. i \in Index
    BY <2>1 DEF IInv, LoopInv
  <2> QED BY <1>1, <2>1, <2>2, <2>3 DEF Index
<1> QED BY <1>1 DEF EndedRestart

LEMMA LoopStep == IInv /\ [Next]_vars => LoopInv'
<1> SUFFICES ASSUME IInv, [Next]_vars PROVE LoopInv'
  OBVIOUS
<1>l. LoopInv
  BY DEF IInv
<1>1. CASE Parse
  BY <1>1, <1>l, ParseEffect DEF LoopInv, Looping
<1>2. CASE Quiet
  BY <1>2, <1>l, QuietEffect DEF LoopInv, Looping
<1>3. CASE Check
  BY <1>3, <1>l, CheckEffect DEF LoopInv, Looping
<1>4. CASE Ended /\ (EndedGiveUp \/ EndedRestart)
  BY <1>4, <1>l, EndEffect, EndedPlace DEF LoopInv, Looping
<1>5. CASE start_worker /\ Fork
  BY <1>5, <1>l, ForkEffect DEF LoopInv, Looping
<1>6. CASE start_worker /\ (ForkFails \/ RecordPid)
  BY <1>6, <1>l, ReturnEffect DEF LoopInv, Looping
<1> QED BY <1>1, <1>2, <1>3, <1>4, <1>5, <1>6, StepKinds

LEMMA StartStep == IInv /\ [Next]_vars => StartInv'
<1> SUFFICES ASSUME IInv, [Next]_vars PROVE StartInv'
  OBVIOUS
<1>s. StartInv /\ LoopInv /\ i \in Nat \ {0}
  BY DEF IInv, TypeOK
<1>1. CASE Parse
  BY <1>1, <1>s, ParseEffect DEF StartInv
<1>2. CASE Quiet
  BY <1>2, <1>s, QuietEffect DEF StartInv
<1>3. CASE Check
  BY <1>3, <1>s, CheckEffect DEF StartInv
<1>4. CASE Ended /\ (EndedGiveUp \/ EndedRestart)
  BY <1>4, <1>s, EndEffect, EndedPlace DEF StartInv
<1>5. CASE start_worker /\ Fork
  BY <1>5, <1>s, ForkEffect, Constants DEF StartInv
<1>6. CASE start_worker /\ (ForkFails \/ RecordPid)
  <2>1. pc' = "start" => pc = "start" /\ i' = i + 1 /\ pc' # "delay"
    BY <1>6, ReturnEffect
  <2>2. pc' # "delay" /\ forked' = 0 /\ child' = child
    BY <1>6, ReturnEffect
  <2>3. \A p \in Pids : child[p] \in Nat
    BY <1>6, ReturnEffect, <1>s DEF LoopInv
  <2>4. ASSUME pc' = "start", NEW p \in Pids, child[p] # 0 PROVE child[p] < i + 1
    BY <2>1, <2>3, <2>4, <1>s DEF StartInv
  <2> QED BY <2>1, <2>2, <2>4 DEF StartInv
<1> QED BY <1>1, <1>2, <1>3, <1>4, <1>5, <1>6, StepKinds

LEMMA PidStep == IInv /\ [Next]_vars => PidInv'
<1> SUFFICES ASSUME IInv, [Next]_vars PROVE PidInv'
  OBVIOUS
<1>p. PidInv /\ StartInv /\ LoopInv /\ i \in Nat \ {0} /\ forkFailures \in Nat
  BY DEF IInv, TypeOK
<1>1. CASE Parse
  <2>1. ~reused' => \A v, w \in Index' :
          workers'[v].pid = workers'[w].pid => v = w \/ workers'[v].pid = NoPid
    BY <1>1, <1>p, ParseEffect DEF PidInv
  <2> QED BY <1>1, <2>1, ParseEffect DEF PidInv
<1>2. CASE Quiet
  <2>1. \A w \in 1..(i - 1) : pc = "start" => w \in Index
    BY <1>p DEF LoopInv, Looping, Index, IInv, TypeOK
  <2>2. HasProcess(0)' = HasProcess(0) /\ \A w : HasProcess(w)' = HasProcess(w)
    BY <1>2, QuietEffect DEF HasProcess
  <2> QED BY <1>2, <1>p, <2>1, <2>2, QuietEffect DEF PidInv
<1>3. CASE Check
  BY <1>3, <1>p, CheckEffect DEF PidInv
<1>4. CASE Ended /\ (EndedGiveUp \/ EndedRestart)
  BY <1>4, <1>p, EndEffect, EndedEffect, EndedPlace DEF PidInv
<1>5. CASE start_worker /\ Fork
  <2>1. \A w \in 1..(i - 1) : HasProcess(w) => HasProcess(w)'
    BY <1>5, ForkEffect DEF HasProcess
  <2>2. pc = "start" =>
          \A w \in 1..(i - 1) : forkFailures > 0 \/ (HasProcess(w)' /\ workers[w].pid # NoPid)
    BY <1>p, <2>1 DEF PidInv
  <2>3. ~reused' => /\ \A v, w \in Index :
                         workers[v].pid = workers[w].pid => v = w \/ workers[v].pid = NoPid
                    /\ \A v \in Index \ {i} : workers[v].pid # forked'
    BY <1>5, <1>p, ForkEffect DEF PidInv
  <2> QED BY <1>5, <1>p, <2>2, <2>3, ForkEffect DEF PidInv
<1>6. CASE start_worker /\ ForkFails
  <2>1. forkFailures' > 0 /\ workers' = workers
    BY <1>6, <1>p DEF ForkFails
  <2> QED BY <1>6, <1>p, <2>1, ReturnEffect DEF PidInv
<1>7. CASE start_worker /\ RecordPid
  <2>1. forked \in Pids /\ forked # 0 /\ forkFailures' = forkFailures
    BY <1>7 DEF RecordPid, IInv, TypeOK
  <2>2. (\E p \in Pids : child'[p] = i) /\ workers'[i].pid = forked /\ forked # NoPid
    BY <1>7, <1>p, <2>1, ReturnEffect, RecordedEffect, Constants DEF StartInv
  <2>3. \A w : HasProcess(w)' = HasProcess(w)
    BY <1>7, ReturnEffect DEF HasProcess
  <2>4. \A w \in Index \ {i} : workers'[w] = workers[w]
    BY <1>7, RecordedEffect
  <2>5. pc = "start" =>
          \A w \in 1..i : forkFailures > 0 \/ (HasProcess(w)' /\ workers'[w].pid # NoPid)
    <3> SUFFICES ASSUME pc = "start", NEW w \in 1..i, w # i
                 PROVE  forkFailures > 0 \/ (HasProcess(w)' /\ workers'[w].pid # NoPid)
      BY <2>2 DEF HasProcess
    <3>1. w \in 1..(i - 1) /\ w \in Index \ {i}
      BY <1>7, <1>p, ReturnEffect
    <3> QED BY <1>p, <2>3, <2>4, <3>1 DEF PidInv
  <2>6. \A w \in Index : workers'[w].pid = NoPid =>
          forkFailures' > 0 \/ pc' \in {"parse", "start", "exited", "crashed"}
    <3>1. CASE pc = "start"
      BY <1>7, <2>1, <2>5, <3>1, ReturnEffect
    <3>2. CASE pc = "delay"
      BY <1>7, <1>p, <2>1, <2>2, <2>4, <3>2, ReturnEffect DEF PidInv
    <3> QED BY <1>7, <3>1, <3>2, ReturnEffect
  <2>7. pc' = "start" => \A w \in 1..(i' - 1) :
          forkFailures' > 0 \/ (HasProcess(w)' /\ workers'[w].pid # NoPid)
    <3> SUFFICES ASSUME pc' = "start", NEW w \in 1..(i' - 1)
                 PROVE  forkFailures' > 0 \/ (HasProcess(w)' /\ workers'[w].pid # NoPid)
      OBVIOUS
    <3>1. pc = "start" /\ w \in 1..i
      BY <1>7, <1>p, ReturnEffect
    <3> QED BY <2>1, <2>5, <3>1
  <2>8. ~reused => \A v, w \in Index :
          workers'[v].pid = workers'[w].pid => v = w \/ workers'[v].pid = NoPid
    <3> SUFFICES ASSUME ~reused, NEW v \in Index, NEW w \in Index,
                        workers'[v].pid = workers'[w].pid
                 PROVE  v = w \/ workers'[v].pid = NoPid
      OBVIOUS
    <3>1. \A u \in Index \ {i} : workers'[u].pid # forked
      BY <1>p, <2>1, <2>4 DEF PidInv
    <3>2. CASE v = i \/ w = i
      BY <2>2, <3>1, <3>2
    <3>3. CASE v # i /\ w # i
      BY <1>p, <2>4, <3>3 DEF PidInv
    <3> QED BY <3>2, <3>3
  <2> QED BY <1>7, <2>6, <2>7, <2>8, ReturnEffect DEF PidInv
<1> QED BY <1>1, <1>2, <1>3, <1>4, <1>5, <1>6, <1>7, StepKinds

LEMMA RecordedStep == IInv /\ [Next]_vars => EveryProcessIsRecorded'
<1> SUFFICES ASSUME IInv, [Next]_vars PROVE EveryProcessIsRecorded'
  OBVIOUS
<1>e. EveryProcessIsRecorded /\ StartInv /\ LoopInv /\ i \in Nat \ {0}
  BY DEF IInv, TypeOK
<1>1. CASE Parse
  BY <1>1, ParseEffect DEF EveryProcessIsRecorded
<1>2. CASE Quiet
  BY <1>2, <1>e, QuietEffect DEF EveryProcessIsRecorded, LoopInv
<1>3. CASE Check
  BY <1>3, <1>e, CheckEffect DEF EveryProcessIsRecorded
<1>4. CASE Ended /\ (EndedGiveUp \/ EndedRestart)
  BY <1>4, <1>e, EndEffect, EndedEffect, Constants DEF EveryProcessIsRecorded, LoopInv
<1>5. CASE start_worker /\ Fork
  <2>1. \A q \in Pids \ {forked'} : child[q] # 0 => workers[child[q]].pid = q /\ child[q] # i
    BY <1>5, <1>e, ForkEffect, Constants DEF EveryProcessIsRecorded, StartInv
  <2> QED BY <1>5, <2>1, ForkEffect DEF EveryProcessIsRecorded
<1>6. CASE start_worker /\ ForkFails
  BY <1>6, <1>e, ReturnEffect DEF ForkFails, EveryProcessIsRecorded
<1>7. CASE start_worker /\ RecordPid
  <2>1. forked # 0 /\ child[forked] = i
    BY <1>7, <1>e DEF RecordPid, StartInv
  <2> SUFFICES ASSUME NEW p \in Pids, child[p] # 0
               PROVE  workers'[child[p]].pid = p
    BY <1>7, ReturnEffect DEF EveryProcessIsRecorded
  <2>2. CASE p = forked
    BY <1>7, <2>1, <2>2, RecordedEffect
  <2>3. CASE p # forked
    <3>1. workers[child[p]].pid = p /\ child[p] \in Index \ {i}
      BY <1>e, <2>1, <2>3 DEF EveryProcessIsRecorded, LoopInv
    <3> QED BY <1>7, <3>1, RecordedEffect
  <2> QED BY <2>2, <2>3
<1> QED BY <1>1, <1>2, <1>3, <1>4, <1>5, <1>6, <1>7, StepKinds

LEMMA ForgottenStep == IInv /\ [Next]_vars => NoWorkerForgotten'
<1> SUFFICES ASSUME IInv, [Next]_vars PROVE NoWorkerForgotten'
  OBVIOUS
<1>n. NoWorkerForgotten /\ PidInv /\ StartInv /\ LoopInv /\ i \in Nat \ {0}
      /\ forkFailures \in Nat
  BY DEF IInv, TypeOK
<1>1. CASE Parse
  BY <1>1, ParseEffect DEF NoWorkerForgotten
<1>2. CASE Quiet
  BY <1>2, <1>n, QuietEffect DEF NoWorkerForgotten
<1>3. CASE Check
  BY <1>3, <1>n, CheckEffect DEF NoWorkerForgotten
<1>4. CASE Ended /\ (EndedGiveUp \/ EndedRestart)
  <2>1. \A w \in Index \ {i} : workers'[w] = workers[w]
    BY <1>4, EndedEffect
  <2>2. ASSUME NEW w \in Index, w # i
        PROVE  \/ \E p \in Pids : child'[p] = w
               \/ workers'[w].restart_count >= workers'[w].max_restarts
               \/ forkFailures' > 0 \/ reused'
    BY <1>4, <1>n, <2>1, <2>2, EndEffect DEF NoWorkerForgotten
  <2>3. \/ pc' = "delay" /\ i' = i
        \/ workers'[i].restart_count >= workers'[i].max_restarts
    BY <1>4, EndedPlace, EndedEffect DEF EndedGiveUp
  <2> QED BY <1>4, <2>2, <2>3, EndEffect DEF NoWorkerForgotten
<1>5. CASE start_worker /\ Fork
  <2>1. \A w \in Index : (\E p \in Pids : child[p] = w) => \E p \in Pids : child'[p] = w
    <3>1. 0 \notin Index
      BY DEF Index
    <3> QED BY <1>5, <3>1, ForkEffect
  <2> QED BY <1>5, <1>n, <2>1, ForkEffect DEF NoWorkerForgotten
<1>6. CASE start_worker /\ ForkFails
  <2>1. forkFailures' > 0
    BY <1>6, <1>n DEF ForkFails
  <2> QED BY <2>1 DEF NoWorkerForgotten
<1>7. CASE start_worker /\ RecordPid
  <2>1. forked \in Pids /\ child[forked] = i /\ forkFailures' = forkFailures
    BY <1>7, <1>n DEF RecordPid, StartInv, IInv, TypeOK
  <2> SUFFICES ASSUME pc' \in {"check", "delay", "rest"}, NEW w \in Index, w # i
               PROVE  \/ \E p \in Pids : child[p] = w
                      \/ workers'[w].restart_count >= workers'[w].max_restarts
                      \/ forkFailures > 0 \/ reused
    BY <1>7, <2>1, ReturnEffect DEF NoWorkerForgotten
  <2>2. CASE pc = "start"
    <3>1. w \in 1..(i - 1)
      BY <1>7, <2>2, ReturnEffect
    <3> QED BY <1>n, <2>2, <3>1 DEF PidInv, HasProcess
  <2>3. CASE pc = "delay"
    BY <1>7, <1>n, <2>3, RecordedEffect DEF NoWorkerForgotten
  <2> QED BY <1>7, <2>2, <2>3, ReturnEffect
<1> QED BY <1>1, <1>2, <1>3, <1>4, <1>5, <1>6, <1>7, StepKinds

-----------------------------------------------------------------------------
\* The invariant holds of the guard.
THEOREM Invariance == FairSpec => []IInv
<1>1. IInv /\ [Next]_vars => IInv'
  BY TypeStep, LoopStep, StartStep, PidStep, RecordedStep, ForgottenStep DEF IInv
<1> QED BY InitIInv, <1>1, PTL DEF FairSpec

\* Every process that the guard has started and not waited for is recorded for
\* its worker (lines 98-130, 174).
THEOREM EveryProcessIsRecordedHolds == FairSpec => []EveryProcessIsRecorded
<1>1. IInv => EveryProcessIsRecorded
  BY DEF IInv
<1> QED BY Invariance, <1>1, PTL

\* A worker stays without a process only for the reasons the code gives it
\* (lines 174-194).
THEOREM NoWorkerForgottenHolds == FairSpec => []NoWorkerForgotten
<1>1. IInv => NoWorkerForgotten
  BY DEF IInv
<1> QED BY Invariance, <1>1, PTL

\* cleanup's SIGTERM reaches every worker process in the array (line 205).
THEOREM SigtermReachesWorkersHolds == FairSpec => SigtermReachesWorkers
<1>1. ASSUME IInv, [Next]_vars, ~freed, freed'
      PROVE  Running \ {forked} \subseteq signalled'
  <2>1. cleanup
    BY <1>1 DEF Next, Parse, Guard, start_worker, ParseCmd, ParseOption, ParseReject, ParseDone,
       Fork, ForkFails, RecordPid, Check, EndedGiveUp, EndedRestart, Ended, Rest, UseAfterFree,
       Tick, Die, others, vars
  <2>2. signalled' = Recorded(Index)
    BY <1>1, <2>1 DEF cleanup
  <2>3. ASSUME NEW p \in Running, p # forked PROVE p \in Recorded(Index)
    <3>1. p \in Pids /\ child[p] \in Index /\ workers[child[p]].pid = p
      BY <1>1, <2>3 DEF Running, IInv, LoopInv, EveryProcessIsRecorded
    <3> QED BY <2>3, <3>1 DEF Recorded
  <2> QED BY <2>2, <2>3
<1>2. IInv /\ [Next]_vars => [~freed /\ freed' => Running \ {forked} \subseteq signalled']_vars
  BY <1>1
<1> QED BY Invariance, <1>2, PTL DEF FairSpec, SigtermReachesWorkers
=============================================================================
