----------------------------- MODULE DaemonGuard -----------------------------
(***************************************************************************)
(* 3.tools/1.daemon/daemon/daemon_guard.c: a daemon that starts the worker *)
(* processes of its command line, polls them with waitpid(WNOHANG), and    *)
(* starts a dead one again after a delay unless it died too often.  The    *)
(* guard sleeps in two places, during which workers die and time passes.   *)
(* Time is counted in seconds, as time(NULL) and sleep count it: Tick is   *)
(* the moment time(NULL) changes.                                          *)
(***************************************************************************)
EXTENDS Integers, Sequences

CONSTANTS
    MaxWorkers,         (* bound: how many --cmd the command line has       *)
    Limits, Delays,     (* the values --max-restarts, --restart-delay take  *)
    Counts,             (* what malloc'd memory holds where restart_count,
                           which parse_args does not set, will be           *)
    Pids,               (* the process ids, which the kernel uses again     *)
    MaxForkFailures,    (* bound: how often fork returns -1                 *)
    MaxStreak           (* bound: how far streak counts                     *)

DEFAULT_MAX == 3
DEFAULT_DELAY == 1
NoPid == -1

ASSUME GuardAssumption ==
    /\ MaxWorkers \in Nat \ {0} /\ MaxForkFailures \in Nat /\ MaxStreak \in Nat
    /\ Limits \subseteq Nat /\ Delays \subseteq Nat /\ Counts \subseteq Int
    /\ Pids \subseteq Nat \ {0}
    \* atoi returns an int: one delay is the longest
    /\ \E d \in Delays \cup {DEFAULT_DELAY} :
         \A e \in Delays \cup {DEFAULT_DELAY} : e <= d

VARIABLES
    workers,            (* the array: a sequence of records                 *)
    pc,                 (* parse, start, check, delay (line 193), rest
                           (line 197), exited, or crashed                   *)
    i,                  (* the index of the loop, from 1                    *)
    wake,               (* the seconds that sleep has left                  *)
    child,              (* by pid: the index of the worker whose command
                           the process runs, 0 when there is no process     *)
    forked,             (* the process that fork has just returned, 0 when
                           the guard is not between lines 103 and 126       *)
    zombies,            (* the processes that have died, not yet waited for *)
    freed,              (* cleanup has freed the array                      *)
    signalled,          (* the processes with a SIGTERM of cleanup's pending *)
    forkFailures,
    streak,             (* history: deaths in a row within restart_delay    *)
    reused              (* history: a pid in use was that of two entries    *)

vars == <<workers, pc, i, wake, child, forked, zombies, freed, signalled, forkFailures,
          streak, reused>>
others == <<forked, freed, signalled, forkFailures, streak, reused>>

Index == 1..Len(workers)
Longest == CHOOSE d \in Delays \cup {DEFAULT_DELAY} :
              \A e \in Delays \cup {DEFAULT_DELAY} : e <= d

Init ==
    /\ workers = <<>> /\ streak = <<>>
    /\ pc = "parse" /\ i = 1 /\ wake = 0
    /\ child = [p \in Pids |-> 0] /\ zombies = {}
    /\ forked = 0 /\ freed = FALSE /\ signalled = {}
    /\ forkFailures = 0 /\ reused = FALSE

-----------------------------------------------------------------------------
\* parse_args takes the options one by one.  Lines 219-232: --cmd; last_restart
\* and restart_count keep what the memory held.
ParseCmd ==
    /\ pc = "parse" /\ Len(workers) < MaxWorkers
    /\ \E c \in Counts, a \in {0, Longest} :
         workers' = Append(workers, [max_restarts |-> DEFAULT_MAX,
                      restart_delay |-> DEFAULT_DELAY, restart_count |-> c,
                      pid |-> NoPid, age |-> a])
    /\ streak' = Append(streak, 0)
    /\ UNCHANGED <<pc, i, wake, child, forked, zombies, freed, signalled, forkFailures, reused>>

\* Lines 233-242: an option of the worker before it.  Without one the code
\* writes in front of the array.
ParseOption ==
    /\ pc = "parse"
    /\ \/ /\ workers = <<>> /\ pc' = "crashed"
          /\ UNCHANGED workers
       \/ /\ workers # <<>> /\ UNCHANGED pc
          /\ \/ \E n \in Limits : workers' = [workers EXCEPT ![Len(workers)].max_restarts = n]
             \/ \E n \in Delays : workers' = [workers EXCEPT ![Len(workers)].restart_delay = n]
    /\ UNCHANGED <<i, wake, child, zombies, others>>

\* Lines 245-247, and 254-265: an unknown option, or no --cmd at all.
ParseReject ==
    /\ pc = "parse" /\ pc' = "exited"
    /\ UNCHANGED <<workers, i, wake, child, zombies, others>>

\* Lines 262-267: daemonize.
ParseDone ==
    /\ pc = "parse" /\ workers # <<>>
    /\ pc' = "start"
    /\ UNCHANGED <<workers, i, wake, child, zombies, others>>

-----------------------------------------------------------------------------
\* The next worker of the loop, or what follows the loop.
Advance(here, after) ==
    IF i < Len(workers) THEN i' = i + 1 /\ pc' = here /\ wake' = 0
    ELSE i' = 1 /\ pc' = after /\ wake' = IF after = "rest" THEN 1 ELSE 0

\* start_worker returns to the loop of main (lines 270-272) or, with a worker
\* that had ended, to that of monitor_workers.
Return == IF pc = "start" THEN Advance("start", "check") ELSE Advance("check", "rest")

\* start_worker(&workers[i]), lines 98-130.  The process runs, and may end,
\* before the guard has written down its pid.
Fork ==
    /\ forked = 0
    /\ \E p \in Pids :
         /\ child[p] = 0
         /\ child' = [child EXCEPT ![p] = i]
         /\ forked' = p
         /\ reused' = (reused \/ \E v \in Index \ {i} : workers[v].pid = p)
    /\ UNCHANGED <<workers, pc, i, wake, zombies, freed, signalled, forkFailures, streak>>

\* A failing fork changes nothing.
ForkFails ==
    /\ forked = 0 /\ forkFailures < MaxForkFailures
    /\ forkFailures' = forkFailures + 1
    /\ Return
    /\ UNCHANGED <<workers, child, forked, zombies, freed, signalled, streak, reused>>

RecordPid ==
    /\ forked # 0 /\ forked' = 0
    /\ workers' = [workers EXCEPT ![i].pid = forked, ![i].age = 0]
    /\ Return
    /\ UNCHANGED <<child, zombies, freed, signalled, forkFailures, streak, reused>>

\* In main, or once the delay before a restart is over (line 194).
start_worker ==
    /\ pc \in {"start", "delay"} /\ wake = 0
    /\ Fork \/ ForkFails \/ RecordPid

\* Mutant: the guard waits for any child.
WaitpidAny(p, res, reaped) ==
    LET all == {q \in Pids : child[q] # 0} IN
    \/ \E q \in zombies : res = q /\ reaped = {q}
    \/ all # {} /\ zombies = {} /\ res = 0 /\ reaped = {}
    \/ all = {} /\ res = -1 /\ reaped = {}

\* waitpid(p, &status, WNOHANG): the pid it returns and the processes it reaps.
Waitpid(p, res, reaped) ==
    LET mine == {q \in Pids : child[q] # 0 /\ p \in {q, NoPid}} IN
    \/ \E q \in mine \cap zombies : res = q /\ reaped = {q}
    \/ mine # {} /\ mine \cap zombies = {} /\ res = 0 /\ reaped = {}
    \/ mine = {} /\ res = -1 /\ reaped = {}

Reap(qs) ==
    /\ zombies' = zombies \ qs
    /\ child' = [p \in Pids |-> IF p \in qs THEN 0 ELSE child[p]]

\* Mutant: any answer but an error counts as the worker's end.
CheckRunsAnyway ==
    /\ pc = "check"
    /\ \E res \in Pids \cup {0, -1}, qs \in SUBSET zombies :
         Waitpid(workers[i].pid, res, qs) /\ res # workers[i].pid /\ Reap(qs)
           /\ IF res = 0 THEN pc' = "delay" /\ wake' = 0 /\ UNCHANGED i
                         ELSE Advance("check", "rest")
    /\ UNCHANGED <<workers, others>>

\* Lines 174-178: the worker has not ended, as far as waitpid says.
Check ==
    /\ pc = "check"
    /\ \E res \in Pids \cup {0, -1}, qs \in SUBSET zombies :
         Waitpid(workers[i].pid, res, qs) /\ res # workers[i].pid /\ Reap(qs)
    /\ Advance("check", "rest")
    /\ UNCHANGED <<workers, others>>

\* Lines 181-185.
NewCount(w) == IF w.age < w.restart_delay THEN w.restart_count + 1 ELSE 0

\* The worker ended, or its pid is -1 and the guard has no child at all.
Ended ==
    /\ pc = "check"
    /\ \E res \in Pids \cup {-1}, qs \in SUBSET zombies :
         Waitpid(workers[i].pid, res, qs) /\ res = workers[i].pid /\ Reap(qs)
    /\ workers' = [workers EXCEPT ![i].restart_count = NewCount(workers[i])]
    /\ UNCHANGED others

\* Lines 187-189.
EndedGiveUp ==
    /\ Ended
    /\ NewCount(workers[i]) >= workers[i].max_restarts
    /\ Advance("check", "rest")

\* Lines 192-193.
EndedRestart ==
    /\ Ended
    /\ NewCount(workers[i]) < workers[i].max_restarts
    /\ pc' = "delay" /\ wake' = workers[i].restart_delay
    /\ UNCHANGED i

\* Mutant: the guard gives up on all when it has given up on one.
RestEnds ==
    /\ pc = "rest" /\ wake = 0
    /\ pc' = IF \E w \in Index : workers[w].restart_count >= workers[w].max_restarts
             THEN "exited" ELSE "check"
    /\ UNCHANGED <<workers, i, wake, child, zombies, others>>

\* Line 197.
Rest ==
    /\ pc = "rest" /\ wake = 0
    /\ pc' = "check"
    /\ UNCHANGED <<workers, i, wake, child, zombies, others>>

Running == {p \in Pids : child[p] # 0} \ zombies
Recorded(ws) == {workers[w].pid : w \in ws} \cap Running

\* Mutant: the loop ends at the first worker without a process.
cleanup_stops ==
    /\ pc \in {"start", "check", "delay", "rest"}
    /\ IF freed THEN pc' = "crashed" /\ UNCHANGED signalled
       ELSE /\ signalled' = Recorded({w \in Index : \A v \in 1..w : workers[v].pid # NoPid})
            /\ UNCHANGED pc
    /\ freed' = TRUE
    /\ wake' = 0
    /\ UNCHANGED <<workers, i, child, forked, zombies, forkFailures, streak, reused>>

\* SIGTERM: cleanup (lines 202-210) signals the processes, frees the array, and
\* returns to the loop, whose sleep it has cut short.
cleanup ==
    /\ pc \in {"start", "check", "delay", "rest"}
    /\ IF freed THEN pc' = "crashed" /\ UNCHANGED signalled
       ELSE signalled' = Recorded(Index) /\ UNCHANGED pc
    /\ freed' = TRUE
    /\ wake' = 0
    /\ UNCHANGED <<workers, i, child, forked, zombies, forkFailures, streak, reused>>

\* The loop goes on with the freed array: it finds the old values, or crashes.
UseAfterFree ==
    /\ freed /\ pc \in {"start", "check", "delay"}
    /\ pc' = "crashed"
    /\ UNCHANGED <<workers, i, wake, child, zombies, others>>

-----------------------------------------------------------------------------
Capped(n, cap) == IF n < cap THEN n ELSE cap

\* A worker process ends, by itself or by a signal.
Die(p) ==
    /\ p \in Running
    /\ zombies' = zombies \cup {p} /\ signalled' = signalled \ {p}
    /\ LET w == child[p] IN
         streak' = [streak EXCEPT ![w] =
                      IF p = forked \/ workers[w].age < workers[w].restart_delay
                      THEN Capped(@ + 1, MaxStreak) ELSE 0]
    /\ UNCHANGED <<workers, pc, i, wake, child, forked, freed, forkFailures, reused>>

\* time(NULL) - last_restart, up to the longest delay, and what sleep has left.
Tick ==
    /\ pc \in {"start", "check", "delay", "rest"}
    /\ workers' = [w \in Index |-> [workers[w] EXCEPT !.age = Capped(@ + 1, Longest)]]
    /\ wake' = IF wake > 0 THEN wake - 1 ELSE 0
    /\ UNCHANGED <<pc, i, child, zombies, others>>

Parse == ParseCmd \/ ParseOption \/ ParseReject \/ ParseDone
Guard == start_worker \/ Check \/ EndedGiveUp \/ EndedRestart \/ Rest

Next ==
    \/ Parse \/ Guard \/ cleanup \/ UseAfterFree \/ Tick
    \/ \E p \in Pids : Die(p)

\* Time passes and the guard runs; nothing says that a worker ever ends.
FairSpec ==
    Init /\ [][Next]_vars /\ WF_vars(Guard) /\ WF_vars(Tick)
-----------------------------------------------------------------------------
WorkerRecord == [max_restarts: Nat, restart_delay: Delays \cup {DEFAULT_DELAY},
                 restart_count: Int, pid: Pids \cup {NoPid}, age: 0..Longest]

\* The variables keep their types.
TypeOK ==
    /\ workers \in Seq(WorkerRecord) /\ streak \in Seq(Nat)
    /\ Len(workers) <= MaxWorkers /\ Len(streak) = Len(workers)
    /\ pc \in {"parse", "start", "check", "delay", "rest", "exited", "crashed"}
    /\ i \in 1..MaxWorkers /\ wake \in 0..Longest
    /\ child \in [Pids -> 0..MaxWorkers] /\ forked \in {0} \cup Pids
    /\ signalled \subseteq Running /\ zombies \subseteq {p \in Pids : child[p] # 0}
    /\ forkFailures \in Nat /\ freed \in BOOLEAN /\ reused \in BOOLEAN

\* Every process the guard has started and not waited for is the one recorded
\* for its worker, but for the one it is about to record: no worker runs twice,
\* and none runs unknown to the guard.
EveryProcessIsRecorded ==
    \A p \in Pids : child[p] # 0 /\ p # forked =>
        /\ workers[child[p]].pid = p
        /\ forked # 0 => child[p] # child[forked]

\* SIGTERM stops the workers with the guard: cleanup reaches every process that
\* runs, wherever the signal interrupts the guard (line 205), but for one that
\* fork has returned and whose pid is not yet in the array.
SigtermReachesWorkers ==
    [][~freed /\ freed' => Running \ {forked} \subseteq signalled']_vars

\* A worker is without a process only while the guard is about to start it, or
\* since it used up its restarts (line 188), or a fork failed, or a pid that
\* the kernel used again made the guard take one worker's end for another's.
NoWorkerForgotten ==
    pc \in {"check", "delay", "rest"} =>
        \A w \in Index :
            \/ \E p \in Pids : child[p] = w
            \/ pc = "delay" /\ i = w
            \/ workers[w].restart_count >= workers[w].max_restarts
            \/ forkFailures > 0 \/ reused

\* A dead worker does not stay a zombie: the guard gets to it however many
\* others die and are waited for in the meantime.
ZombiesAreReaped ==
    \A p \in Pids : (p \in zombies) ~> (p \notin zombies \/ pc = "crashed")

\* max_restarts is the largest number of restarts (line 27): a worker that dies
\* within restart_delay of its start every time is given up after that many.
RestartsBounded ==
    \A w \in Index : workers[w].max_restarts > 0 => streak[w] <= workers[w].max_restarts

(***************************************************************************)
(* The inductive invariant behind the three.                               *)
(***************************************************************************)
Looping == {"start", "check", "delay", "rest"}
HasProcess(w) == \E p \in Pids : child[p] = w

\* The loop stays within the array, and while the arguments are parsed there is
\* no process.
LoopInv ==
    /\ pc = "parse" => i = 1 /\ \A p \in Pids : child[p] = 0
    /\ pc \in Looping => i \in Index
    /\ \A p \in Pids : child[p] \in {0} \cup Index
    /\ forked # 0 => pc \in {"start", "delay", "crashed"}

\* A worker that is about to be started has no process yet.
StartInv ==
    /\ forked # 0 => child[forked] = i
    /\ \A p \in Pids : pc = "start" /\ child[p] # 0 =>
         child[p] < i \/ (p = forked /\ child[p] = i)
    /\ \A p \in Pids : pc = "delay" /\ child[p] = i => p = forked

\* Unless a fork has failed every started worker has a pid, and as long as no pid
\* in use was that of two entries no two workers have the same.
PidInv ==
    /\ \A w \in Index : workers[w].pid = NoPid =>
         forkFailures > 0 \/ pc \in {"parse", "start", "exited", "crashed"}
    /\ pc = "start" =>
         \A w \in 1..(i - 1) : forkFailures > 0 \/ (HasProcess(w) /\ workers[w].pid # NoPid)
    /\ ~reused => \A v, w \in Index :
         workers[v].pid = workers[w].pid => v = w \/ workers[v].pid = NoPid
    /\ ~reused /\ forked # 0 => \A v \in Index \ {i} : workers[v].pid # forked

IInv ==
    /\ TypeOK /\ LoopInv /\ StartInv /\ PidInv
    /\ EveryProcessIsRecorded /\ NoWorkerForgotten
=============================================================================
