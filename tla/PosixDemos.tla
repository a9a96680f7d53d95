----------------------------- MODULE PosixDemos -----------------------------
(***************************************************************************)
(* The small programs, one of which runs in each behaviour, chosen by the  *)
(* initial state: one of the demonstrations of threads and processes of    *)
(* ThreadDemos and ProcessDemos on the machine of PosixMachine, or one     *)
(* that has a module of its own: the bounded buffer, the black box, the    *)
(* directory tree, the configuration file or the timers.                   *)
(***************************************************************************)
EXTENDS BoundedBuffer, ProcessDemos, BlackBox, DirectoryTree, ConfigFile, Timers, FiniteSets, TLC

CONSTANT MaxKills

VARIABLES demo, task, image, owner, asleep, sem, wire, open, writers, gone,
          printed, kills

machineVars == <<demo, task, image, owner, asleep, sem, wire, open, writers,
                 gone, printed, kills>>

Programs ==
    [printVal |-> thread_mutex, Test1 |-> Test1, Test2 |-> Test2,
     thread_cond |-> thread_cond, wait_time |-> thread_cond_wait_time,
     semaphore |-> semaphore, join |-> thread_join,
     tls |-> thread_local_storage, gcc |-> gcc_demo, libc |-> libc_demo,
     fork |-> fork_demo, fork_2 |-> fork_2, exec |-> exec, wait |-> wait,
     zombie |-> wait_zombie, shm |-> shm, thread_sem |-> thread_sem_demo,
     system_v |-> system_v, sem_demo |-> sem_demo, sem_demo2 |-> sem_demo2,
     mmap |-> mmap, pipe |-> pipe_demo, pipe2 |-> pipe2, dup2 |-> dup2,
     socket |-> socket, local_socket |-> local_socket, inet |-> socket_inet,
     tcp |-> tcp, udp |-> udp, broadcast |-> broadcast,
     multicast1 |-> multicast1, multicast2 |-> multicast2,
     create |-> thread_create, stop |-> thread_stop]

Promise(o) ==
    CASE demo = "printVal" -> thread_mutex_promise(o)
      [] demo = "Test1" -> Func1_promise(o)
      [] demo = "Test2" -> Test2_promise(o)
      [] demo = "thread_cond" -> thread_cond_promise(o)
      [] demo = "semaphore" -> semaphore_promise(o)
      [] demo = "join" -> thread_join_promise(o)
      [] demo = "tls" -> thread_local_promise(o)
      [] demo = "gcc" -> gcc_promise(o)
      [] demo = "libc" -> libc_promise(o)
      [] demo = "fork_2" -> fork_2_promise(o)
      [] demo = "wait" -> wait_promise(o)
      [] demo = "shm" -> shm_promise(o)
      [] demo \in {"thread_sem", "system_v"} -> thread_sem_promise(o)
      [] demo \in {"sem_demo", "sem_demo2"} -> ping_pong_promise(o)
      [] demo = "mmap" -> mmap_promise(o)
      [] demo \in {"pipe", "pipe2"} -> pipe_promise(o)
      [] demo = "dup2" -> sort_promise(o)
      [] demo = "socket" -> socket_promise(o)
      [] demo = "local_socket" -> local_promise(o)
      [] demo = "inet" -> inet_promise(o)
      [] demo = "tcp" -> tcp_promise(o)
      [] demo = "broadcast" -> broadcast_promise(o)
      [] demo = "multicast1" -> multicast1_promise(o)
      [] demo = "multicast2" -> multicast2_promise(o)
      [] OTHER -> TRUE

M == INSTANCE PosixMachine WITH
       Code <- Programs,
       Recursive <- {"mutex_"},
       Shared <- {"shared_memory", "shared_mem", "mFile.txt"},
       Persistent <- {"semfile", "/posix_sem", "/sem_producer", "/sem_consumer"},
       Datagram <- {"udp8000", "group"},
       Killed <- {"shm", "system_v"}

Ring == "bounded buffer"
OwnModule == {Ring, "black box", "directories", "configuration", "timers"}

othersThanRing == <<boxVars, treeVars, configVars, timerVars, machineVars>>
othersThanBox  == <<vars, treeVars, configVars, timerVars, machineVars>>
othersThanTree == <<vars, boxVars, configVars, timerVars, machineVars>>
othersThanConfig == <<vars, boxVars, treeVars, timerVars, machineVars>>
othersThanTimers == <<vars, boxVars, treeVars, configVars, machineVars>>
othersThanMachine == <<vars, boxVars, treeVars, configVars, timerVars>>

\* The programs that were not chosen rest in one of their initial states.
DemosInit ==
    /\ Init /\ BoxInit /\ TreeInit
    /\ \/ M!MachineInit
       \/ demo \in OwnModule /\ kills = 0 /\ task = <<>> /\ image = <<>> /\ owner = <<>>
          /\ asleep = {} /\ sem = <<>> /\ wire = <<>> /\ open = {} /\ writers = {}
          /\ gone = {} /\ printed = <<>>
    /\ ConfigInit /\ (demo # "configuration" => config = <<"\n">>)
    /\ TimersInit /\ (demo # "timers" => program = "timer_create")

DemosNext ==
    \/ demo = Ring /\ Next /\ UNCHANGED othersThanRing
    \/ demo = "black box" /\ BoxNext /\ UNCHANGED othersThanBox
    \/ demo = "directories" /\ TreeNext /\ UNCHANGED othersThanTree
    \/ demo = "configuration" /\ ConfigNext /\ UNCHANGED othersThanConfig
    \/ demo = "timers" /\ TimersNext /\ UNCHANGED othersThanTimers
    \/ demo \notin OwnModule /\ M!MachineNext /\ UNCHANGED othersThanMachine

\* Every task that can go on does; a timeout comes.  Nobody is obliged to kill,
\* to lose a datagram or to wake without a reason.
MostTasks == 1..(1 + 3 * Crowd)
DemosSpec ==
    /\ DemosInit
    /\ [][DemosNext]_<<vars, boxVars, treeVars, configVars, timerVars, machineVars>>
    /\ WF_vars(demo = Ring /\ producer /\ UNCHANGED othersThanRing)
    /\ WF_vars(demo = Ring /\ consumer /\ UNCHANGED othersThanRing)
    /\ WF_vars(demo = Ring /\ Unlink /\ UNCHANGED othersThanRing)
    /\ \A t \in MostTasks :
         /\ WF_machineVars(t \in DOMAIN task /\ M!Step(t) /\ UNCHANGED othersThanMachine)
         /\ WF_machineVars(t \in DOMAIN task /\ M!Timeout(t) /\ UNCHANGED othersThanMachine)
-----------------------------------------------------------------------------
\* Whatever the interleaving, what a demo prints is what its source promises;
\* those whose semaphores start afresh promise it after a crash too.
OutputAsPromised == Promise(printed)

\* What a task is about to use has not been destroyed; what was destroyed is
\* neither locked nor waited for (the joins before sem_destroy and the like).
Running(t) == task[t].pc \in 1..Len(Programs[demo][t])
NothingUsedAfterDestroy ==
    /\ \A t \in DOMAIN task :
         Running(t) /\ "on" \in DOMAIN M!Ins(t) /\ M!Ins(t).on \in gone
           => M!Ins(t).call \in {"sem_init", "sem_open"}
    /\ \A o \in gone : M!OwnerOf(o).task = 0 /\ \A z \in asleep : z.on # o

\* A client that found nobody listening.
Refused ==
    \E t \in DOMAIN task : \E k \in 1..(task[t].pc - 1) :
        LET i == Programs[demo][t][k] IN i.call = "connect" /\ i.wire \notin open

\* The demos whose programs have loops without an end, or wait for a datagram.
Endless == {"thread_cond", "udp", "broadcast", "multicast1", "multicast2"}

\* Every other demo of threads and processes ends, unless a client came before
\* its server; a bounded buffer that nobody kills does, too.
EveryDemoEnds ==
    <>CASE demo = Ring -> crashes > 0 \/ MainDone
        [] demo \in OwnModule \ {Ring} -> TRUE
        [] OTHER -> demo \in Endless \/ M!AllEnded \/ Refused
=============================================================================
