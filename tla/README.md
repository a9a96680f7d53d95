# A TLA+ development of LearnC

LearnC is a collection of small C and C++ programs, each a demonstration of one
technique: thread pools, semaphores, memory allocators, processes, sockets, a
daemon that guards other processes. There is no single program; what the parts
have in common is that most of them share state between threads, between
processes or between a library and its client, and that their correctness rests
on an order of steps which no test of the repository exercises.

This directory holds one TLA+ module per component, TLC configurations that
check them on small instances, and proofs, for every instance, about the three
thread pools, the bounded buffer, the black box, the directory demo, the
configuration file, the timers, the slab pools with and without locks, the four
allocation strategies, the daemon guard, and what the demos of threads and
processes destroy. Paths below are relative to
`src/1.Demo/`; `SI` stands for `1.syntax_interface`. `PROJECT.json` gives for every
definition the lines of the source it is translated from.

Run, in this directory:

    tlc -workers 2 -config CThreadPool.cfg CThreadPool
    tlapm CThreadPool_proofs.tla

## Inventory

| Component | State | Operations | What is hard | What makes it correct |
|---|---|---|---|---|
| pthread pool (`SI/3.Thread/5.thread_pool/1.thread_pool.c`) | task list, its counter, shutdown flag, mutex, condition variable | init, add, destroy; worker loop | signal after unlock, spurious wakeups, shutdown set without the mutex | FIFO, each task once; assertions never fail; memory freed only when nobody uses it; destroy returns |
| C++11 pool (`.../3.ThreadPool_CXX/ThreadPool.h`) | task queue, stop flag | constructor, enqueue, destructor; worker loop | destructor against enqueue from a task | every accepted task runs, its future becomes ready, destructor returns |
| SafeQueue pool (`.../2.thread_pool_CXX/include`) | a queue with a mutex of its own, a second mutex for the condition | init, submit, shutdown; worker loop | check and wait under one lock, enqueue under another | FIFO, each once; no lost task; shutdown waits |
| bounded buffer (`SI/3.Thread/4.semaphore/demo*.c`) | ring, two indices, two semaphores, a mutex | produce, consume; crash and restart with named semaphores | order of semaphore and mutex; semaphores that outlive the process | a bounded FIFO channel; slots conserved; both loops end |
| slab pool with locks (`SI/15.memory_allocation/2.mem_pool_c/2.upgrade`, `3.m_mem_pool`) | free list per class, active list, a mutex for each, headers and guards | alloc, free, protection switch, dump, destroy | a block moves between lists under different locks | a block has one place and one owner; dumps are exact; no false abort |
| four allocation strategies (`SI/15.memory_allocation/1.allocation_strategy`) | a pool of bytes cut by headers; lists of free blocks | malloc, free (with a merging walk) | a walk that rewrites the sizes it walks by | blocks tile the pool; ranges handed out are disjoint and long enough; free returns |
| slab pools (`SI/15.../2.mem_pool_c/1.base`, `3.mem_pool_cxx`) | free list per slab, array or map of active blocks, counters | alloc, free, dump, destroy | stale data in reused blocks | reuse bounds the heap; nothing lost; a block fits its request |
| daemon guard (`3.tools/1.daemon/daemon/daemon_guard.c`) | array of workers: command, pid, restart count, time of the last start | parse_args, start, monitor, cleanup (signal handler) | processes end at any moment, pids are used again, fork fails, time passes between polls | each process is known; no worker forgotten; zombies reaped; restarts bounded |
| thread, mutex, condition, TLS demos (`SI/3.Thread/1..4, 6`) | a variable or the terminal | two to ten threads | interleaving, spurious wakeups, destroy against use | what they print |
| atomic demos (`SI/8.atomic_ops`) | counter, flag, pointer, spinlock | atomic read-modify-write | interleaving | no update is lost |
| process demos (`SI/4.Process`) | shared memory, pipes, semaphores, sockets | fork, exec, wait, exit handlers, IPC | descriptors that are inherited, objects that outlive a crash | the child sees what the parent wrote; everything ends |
| network demos (`SI/5.net`) | connections, datagrams | TCP echo, UDP unicast, broadcast, multicast | the stream is cut anywhere, datagrams are lost, the client comes first | order, completeness, an end |
| black box (`3.tools/8.blackbox`) | a ring of at most 100 entries, and the file it is saved to after each | init, log, save, load, export, clear | the ring at its limit; the file is emptied before it is written, in two parts | a restart reads what was exported; the newest entries in order, also after a torn save |
| directory demo (`SI/7.file_dir_opt/dir.c`) | a directory tree | create the path, remove the tree | other runs and a user between any two calls; a kill | each run does its part |
| configuration file (`SI/7.file_dir_opt/rw_cfg.c`) | a text file | show all entries, search for a key | two parsers for one file; lines longer than the buffer | a search finds what was shown |
| timer demos (`3.tools/5.time`) | a timer, a descriptor or a signal | arm, read; block, sleep, unblock, handle | expirations merge, before, during and after the handler | none lost or counted twice |
| file creation, conversion, clock demos, iterators, system queries, ASan, git scripts, getopt, signals, long jumps, arrays, compile and link demos, XML/JSON/YAML demos | none between calls, or the C library's | | | see "Not modelled" |

The components do not call each other, with these exceptions: the pool's
`main` and `example.cpp` are the clients of their pools, `main.c` of the memory
pool; the daemon starts arbitrary commands. Every client that the repository has
is part of the model it belongs to, generalised to any order of legal calls
where the component is a library.

## Modules

    CThreadPool --------+
    StdThreadPool ------+--> TaskPool        what a pool promises
    SafeQueuePool       (stands alone, see below)
    MPool -------------------> BlockAllocator  blocks with one owner
    BoundedBuffer -----------> BoundedFifo     a bounded channel
    BlackBox ----------------> BoundedLog      the newest entries, surviving restarts
    ImplicitFreeList --+
    ExplicitFreeList --+--> PoolTiling         headers that tile a pool
    SegregatedFits ----+
    FixedBins ---------+--> AllocationStrategies --> HeapPromise
    SlabPool           (both pools, C and C++)
    DaemonGuard
    PosixCalls --> PosixMachine  \
    ThreadDemos, ProcessDemos     |
    BoundedBuffer, BlackBox       +--> PosixDemos
    DirectoryTree, ConfigFile     |
    Timers                       /

`X_proofs` holds the theorems about `X`, for `CThreadPool`, `StdThreadPool`,
`SafeQueuePool`, `MPool`, `AllocationStrategies`, `SlabPool`, `DaemonGuard` and
`PosixDemos`, the last with those about `BoundedBuffer`, `BlackBox`, `DirectoryTree`,
`ConfigFile` and `Timers`.

An arrow to an abstract specification is a refinement that a run checks, with
the mapping beside the property (`TP`, `Abstract`, `Fifo`, `Log`, `Client`). `MC...`
modules only give values to constants.

### Correspondence with the code

*CThreadPool.* `mpc` is main's position, in `pool_init`, `pool_add_worker` or
`pool_destroy`; `wpc[w]` that of a worker in `thread_routine`. One action is the
stretch between two points at which another thread can come in: lock, test of
the `while`, wait, the test of shutdown, the dequeue up to the unlock, the call
of the task. `order`, `finished`, `late` are history. The unsynchronised write
and reads of `shutdown` are a data race; they are modelled as single accesses
that interleave, so that nothing is assumed about when a worker sees the flag
beyond the order of its own steps.

*StdThreadPool, SafeQueuePool.* The same, with the wait's predicate evaluated
under the lock, and for the second pool the two mutexes kept apart:
`SafeQueue`'s operations hold `m_mutex` from beginning to end and are atomic.
In `StdThreadPool` tasks of the set `Nested` enqueue a task themselves, also
while the destructor runs, which is where `enqueue` throws.

*BoundedBuffer.* Four actions per thread, the semaphore, the mutex, the access
and the post. In demo2.c `Unlink` then removes the two names, one call after the
other. `CrashAndRestart` may come anywhere, between these two as well; the next
process finds of the named semaphores those whose names are left and nothing
else. `torn` counts the kills between the two calls.

*MPool.* Lists are kept as links (`next`) as in the code, since the hazards are
in the links; an action is the stretch under one lock, or the unlocked writes of
the header and of each guard. `Chain(h)`, the blocks of the list at `h`, is the
smallest set that has `h` and is closed under the links. `freed`, `guard_head`, `tail_guard` are the header
and guards that a reused block still carries. `switched[b]` is history: protection
was switched since b was last allocated.

*Allocation strategies.* Headers are a function from addresses to sizes, so that
a wrong size makes a walk read where no header is (`PoolStaysTiled` would fail).
`my_free` of the merging programs is one step per iteration of its walk. Sizes
are those of a 64-bit build: a header of 16 bytes without links, 32 with. What the
assumptions ask of the constants is what the macros give: a header is a multiple of
4, the pool as one block is larger than every class limit but the last (256 bytes of
32 KB), and the chunks of `4.slab_style_fixed_size_bins.c` fit their pool (3520 of 4096 bytes).

*SlabPool.* `cxx` chooses between the two pools; each block has the room its
buffer was malloc'd with (`room`), the size in its header (`size`) and what its
client asked for (`asked`).

*DaemonGuard.* A worker is a process that may `Die` at any moment; `Tick`
advances the clock; the guard's `sleep`s wait for it. `start_worker` takes two
steps, `Fork` and `RecordPid`, since the process runs, and may end, before its pid
is in the array; `forked` is that process in between. `reused` and
`forkFailures` record that the kernel did what makes the guard confuse two
workers. They are kept for the guard as a whole, not by worker: once either happened,
`NoWorkerForgotten` excuses every worker. `cleanup` is the SIGTERM handler, between any two steps; `signalled` is
the set of processes it has sent a SIGTERM to.

*BlackBox.* An entry is its number. `written` and `held` are the file: the struct
as it was last handed to `fwrite`, and how many of its entries have reached the
file, since stdio writes the whole pages at once and the rest at `fclose`. Each of
`SaveOpen`, `SaveWrite` and `SaveClose` may fail, and `Stop` may come between any
two of them. `unsaved` records that a call of stdio failed.

*DirectoryTree.* `pc[r]` and `frames[r]` are the position of a run of `dir.c` and
its stack of calls of `rmdir_recursive`; one step per system call. `disturbed[r]`
records that something was created or removed which the run relies on.

*ConfigFile.* A character is a string of length one. `Shown` is what the loop of
`read_config_file` prints of a line, `Found` what that of `search_config`, which
takes the line apart with other calls, finds in it. `turns` is history: what was left
of the file, and what had been shown, at each turn of the first loop.

*Timers.* `expired` counts what the timer did, `unread` what the descriptor
still holds; `pending`, `blocked`, `disposition` and `overrun` are the signal. `caught` has
the counts that the handler printed, `discarded` the expirations that came when the
signal was ignored.

*PosixDemos.* The remaining thread, process and network demos are sequences of
calls. `PosixCalls` names the calls, `PosixMachine` says what the kernel and the
C library do, with an action per call, and `ThreadDemos` and `ProcessDemos` list
each program and the order of output that its source promises. One behaviour
runs one demo, chosen by the initial state, or one of `BoundedBuffer`, `BlackBox`,
`DirectoryTree`, `ConfigFile` and `Timers`, whose own next-state relations it
then takes while the variables of the others stand still. A wait on a
condition variable may end by a signal, by its timeout or for no reason; a
`recv` returns any non-empty beginning of what is there; a datagram may be lost,
or dropped when nobody has bound its port. A buffer that is received into and not
cleared is a sequence of cells, of which a shorter datagram leaves the last ones as
they were (`overlay`), and `fputs` prints up to a zero, which may stand in a cell that
was never written. `^C` may end 2.shm.c and
8.thread_sem.c's `system_v`, which are then started again on what outlived them.
`sleep` is not modelled: nothing may depend on it.

## Runs

| Run | What it asks | Bounds |
|---|---|---|
| `c_pool` | FIFO, assertions, shutdown, no lost signal, refinement of `TaskPool` without draining | 3 workers, 4 tasks |
| `c_pool_destroy` | does `pool_destroy` return? **No** | 1 worker, 1 task |
| `std_pool` | every accepted task runs, the destructor returns, no deadlock, refinement of `TaskPool` with draining | 2 workers, 3 tasks, 2 of them nested |
| `safequeue_pool` | FIFO, shutdown ends the work, every submitted task runs | 3 workers, 4 tasks, the client waits for one |
| `posix_demos` | the bounded buffer is a bounded channel, counts no slots that it does not have unless it is killed between its two `sem_unlink`, and ends (`ImplementsBoundedFifo`, `SlotsConserved`, `EveryDemoEnds`); the demos of calls print what they promise, use nothing destroyed, and end (`OutputAsPromised`, `NothingUsedAfterDestroy`, `EveryDemoEnds`); the black box is a log that survives restarts (`SavedWhenIdle`, `ImplementsBoundedLog`); runs of `dir.c` do their part side by side (`RunsDoTheirPart`); a key is found as it was shown (`SearchFindsWhatIsShown`); each expiration of a timer is accounted for (`ExpirationsAddUp`) | ring of 3, 7 items, 2 crashes; 2 rounds, 2 threads per function, 2 fragments per message, 1 kill; a log of 3 with 2 entries in whole pages, 6 logged; 3 runs of `dir.c` and 1 act of a user; files of up to 8 characters and a line buffer of 4; 4 expirations |
| `mpool` | lists disjoint and complete, dumps exact, aborts only for the two known causes, of which one is judged for the block in question, everything ends, refinement of `BlockAllocator` | 2 threads, 2 allocations each, 2 addresses, 2 switches of protection, 1 leak |
| `allocation_strategies` | tiling, lists, merging, `my_free` returns, refinement of `HeapPromise`, for all four programs | pools of 112, 180 and 228 bytes, requests of 5, 20 and 60 |
| `segregated_bins` | does each bin hold the free blocks of its class? **No** | pool of 240, requests of 4, 20 and 60 |
| `slab_pools` | no block lost or shared, reuse before malloc, the counters of the dump agree with the lists | 4 blocks, 2 slabs and the large requests |
| `slab_fit` | does a block fit its request? **No** | 2 blocks |
| `daemon_guard` | every process known, no worker forgotten, zombies reaped, SIGTERM reaches every recorded worker | 2 workers, 2 pids, 1 failing fork |
| `daemon_limit` | does `max_restarts` bound the restarts? **No** | 1 worker, limit 2 |

Why the bounds are enough to be of interest: with three workers one can wait,
one can hold the mutex and a third can overtake the woken one, and with four
tasks the list is emptied and refilled. The ring wraps more than twice. Two
threads and two addresses are the smallest instance in which a block can go to
the wrong owner, and both classes of `MPool` share a heap; with two switches a block
is allocated while protection is on and freed after it was off, or the other way round. The pools of bytes
hold three to four blocks, so that a block has free and used neighbours on both
sides, remainders smaller than a header occur (112 with requests of 5 and 20),
and a block can be split, merged and split at another place. Two pids for two
workers make the kernel use a pid again. Six entries turn a log of three twice over.
Three runs of `dir.c` are one that creates, one that removes and a third that
comes after either was killed. Counters of `SlabPool` wrap at 8 instead
of 2^32, so that they do wrap. Bounds on what is unbounded in the code:
`MaxCrashes`, `MaxKills`, `MaxToggles`, `MaxLeaks`, `MaxForkFailures`,
`MaxStreak` (a counter that stops at its cap), `MaxLogged`, `MaxEdits`,
`MaxExpired`, `Allocs`, `NumTasks`, `Items`. A module with a type invariant
(`TypeOK`, `BoxTypeOK`, `TreeTypeOK`, `ConfigTypeOK`, `TimersTypeOK`) has it as the first conjunct of its inductive invariant,
where there is a proof.

### Fairness

Weak fairness on each thread (or process): the scheduler runs every thread that
can run. In `StdThreadPool` strong fairness on taking the mutex inside `enqueue`
and the destructor, because spurious wakeups of other threads could otherwise
take it away each time; a pthread mutex makes no such promise formally, but a
lock that starves a thread for ever under finitely many contenders that sleep is
not one that occurs. Nothing is assumed about spurious wakeups, timeouts of
other threads, crashes, lost datagrams, the ends of workers, or whether and when
a client calls shutdown. In `PosixDemos` a timeout does come. In `DaemonGuard`
time passes and the guard runs.

### Disagreements with the source

Four runs are expected to find a violation, each of what a comment or readme of
the repository says:

1. `c_pool_destroy`: `shutdown` is set without the mutex
   (`1.thread_pool.c:113`); a worker between its test and its wait misses the
   broadcast and the join never ends.
2. `segregated_bins`: `3.segregated_fits.c:100` shrinks a block before it
   unlinks it, and so unlinks it from the wrong class.
3. `slab_fit`: `1.base/mem_pool.c:97` reuses a block whatever the size of its
   buffer.
4. `daemon_limit`: `daemon_guard.c:181` compares the age of a worker with
   `restart_delay` only after a sleep as long as the default delay, so that the
   restart count is always reset.

Met while modelling, and stated here rather than by a run of their own:

- SafeQueue pool: `submit` notifies without the mutex the workers wait with.
  With a single worker a task can stay queued for ever although nobody shuts
  down, and `shutdown` can wait for ever for a worker it did not wake.
- Named semaphores (`SI/3.Thread/4.semaphore/demo2.c`,
  `SI/4.Process/9.semaphore`, the POSIX half of `8.thread_sem.c`): `sem_open`
  with `O_CREAT` alone takes over the counts of a run that was killed; the next
  run may read what was not written, or wait for ever. When that run is killed
  between `demo2.c:129` and `130`, the one after it has all slots empty and still those
  filled that were left behind, more than the buffer has (`SlotsConserved` allows
  `BUFFER_SIZE` for each such kill, and none for any other).
- `1.thread_pool.c:108` says that after `pool_destroy` tasks in the queue are no longer
  executed. A worker that has tested `shutdown` before it was set still takes one from
  the list and runs it; `LateTasksBounded` says that it is one per worker.
- `3.m_mem_pool/mem_pool.c:132`: the tail guard lies inside a full block, so a
  client that uses all it asked for is aborted at free; a block allocated while
  protection is off and freed while it is on is aborted too. `NoUnprovokedAbort`
  says that there is no third cause.
- `1.base/mem_pool.c:149`: `in_use` is decremented for blocks that never
  incremented it and wraps; `CountersAddUp` says by how much it is off.
- `3.segregated_fits.c` never merges free blocks at all, and once its bins are wrong
  `my_malloc` can walk a cyclic list for ever (`hung` in the model);
  `FreeBlocksAreListed` says that until the head of a bin was misfiled the lists
  hold what they should and no search runs in circles.
- `daemon_guard.c`: the SIGTERM handler frees the array and the loop goes on
  with it; a process that `fork` has returned and whose pid is not yet in the array
  gets no SIGTERM; a worker given up keeps a pid that another may get; after a failed
  fork the pid is -1 and `waitpid` takes anybody's end.
- `5.pipe/2.pipe2.c:9` says that the writer is blocked until the reader has read;
  it is only while the pipe is full.
- `4.socket/Makefile` test1 starts server and client together. A client that
  comes first is refused and leaves the server waiting (`Refused`).
- `5.net/udp/broadcast/server.c:55` sends the last piece of its file twice, since
  `feof` is not yet true after it. `broadcast/client.c:52` puts the zero at
  `buff[BUFF_SIZE]`, behind the array, instead of `buff[str_len]`: a datagram that is
  shorter than an earlier one is printed with the rest of that one behind it, and the
  first ones with cells that nobody has written. word_file.txt gives pieces of 13, 29
  and 6 characters. `broadcast_promise` says exactly what is printed; that the
  write behind the array does no more than end the text is assumed.
- `5.net/udp/multicast/demo1/server.c:51` does not look at what `fgets` returns: when no
  more is typed it cuts one more character off its last line and sends the rest, for
  ever, and from the empty line on writes in front of its buffer (line 53). The model
  has `Rounds` of these `leftover`s, in which the line is not yet empty; what the write
  in front of the buffer does is not modelled.
- `5.net/udp/multicast/demo2/client.c:80` compares the result of `fgets` with
  `(char *)EOF`, which it never is: when no more is typed, empty datagrams are sent for
  ever. The model stops after `Rounds` of them.
- `8.blackbox/blackbox.c`: after a load that failed (or read a torn file) the next
  `blackbox_log` saves over the only copy of the log.
- `7.file_dir_opt/dir.c:94` says that the directory "should be empty now"; it need
  not be when somebody else creates a file, and nobody asks whether `rmdir` worked.
  Lines 43 and 56 accept EEXIST also when it is a file that exists.
- `7.file_dir_opt/rw_cfg.c`: a value with a '=' in it is shown whole and found cut
  off; an empty value of a line without a newline (the last one, or one that fills
  the buffer) is shown but not found. `plain` excludes both.
- `7.file_dir_opt/dir.c:84` takes what is no `DT_DIR` for a file. A file system that
  reports `DT_UNKNOWN` is not modelled; directories below the path would stay there.
- `5.time/timefd_create.c:121` takes an interval of 0 together with any `max-exp`: the
  timer then expires once, and for a larger `max-exp` the read at line 138 waits for
  ever. The model has these arguments. Negative ones for `max-exp`, which the unsigned
  comparison of line 137 makes huge, are not modelled.
- `5.time/timefd_create.c` keeps `max_exp` in an `int` and compares it with a
  64-bit total; only values that fit are modelled.
- `3.cond/1.thread_cond.c:149` passes the address of its loop variable, so that
  the numbers the threads print need not be their own.

## Proofs

Each theorem holds for every value of the constants that the named assumption of
its module allows. Nothing else is assumed.

| Module | Theorem | Says |
|---|---|---|
| `CThreadPool_proofs` (`PoolAssumption`) | `TypeCorrect` | `[]TypeOK` |
| | `FifoExactlyOnceHolds` | tasks leave the list in order, each once, and the counter is its length |
| | `AssertionsNeverFail` | the `assert`s of lines 157 and 158 hold |
| | `LateTasksBounded` | a worker starts at most one task after shutdown was set |
| | `DestroyIsSafe` | the pool is freed when all workers have exited and all dequeued tasks have finished |
| | `ImplementsTaskPoolHolds` | the pool implements `TaskPool` |
| `StdThreadPool_proofs` (`StdPoolAssumption`) | `TypeCorrect` | `[]TypeOK` |
| | `DestructorDrainsHolds` | when the destructor has returned every accepted task has run, nested ones too |
| | `ImplementsTaskPoolHolds` | the pool implements `TaskPool`, and drains |
| `SafeQueuePool_proofs` (`SafeQueuePoolAssumption`) | `FifoExactlyOnceHolds` | as above, although `empty` and `dequeue` are two operations |
| | `ShutdownIsSafe` | one late task per worker; `shutdown` returns when all have finished |
| `MPool_proofs` (`MPoolAssumption`) | `EachBlockInOnePlaceHolds` | no list has a circle and no two share a block; a block is in one list or in one thread's hands |
| | `DumpIsExactHolds` | a dump lists what was allocated and not freed, whoever asks and whenever |
| | `NoUnprovokedAbortHolds` | free aborts only for a block that its client filled, or between whose own alloc and free protection was switched |
| | `DestroyFreesEverything` | after the destructor nothing of the pool is left on the heap |
| | `ImplementsAllocatorHolds` | the pool implements `BlockAllocator` |
| `AllocationStrategies_proofs` (`PoolAssumption`, `RequestsAssumption`, `StrategiesAssumption`) | `PoolStaysTiledHolds` | headers cut the pool end to end, after any sequence of calls |
| | `FreeBlocksAreListedHolds` | the lists hold the free blocks, each once; those of the segregated program until a head is misfiled |
| | `FreeNeighboursMergedHolds` | no two neighbours are free when the walk of `my_free` has ended |
| | `StrategiesImplementHeapHolds` | all four programs implement `HeapPromise` |
| `PosixDemos_proofs` (`BufferAssumption`) | `RingTypeCorrect` | `in` and `out` stay in the ring |
| | `SlotsConservedHolds` | semaphores and threads account for the slots; after crashes they count no more than there are, but for kills between the two `sem_unlink`, each of which adds at most `BUFFER_SIZE` |
| | `ImplementsBoundedFifoHolds` | the buffer implements `BoundedFifo` |
| (`BlackBoxAssumption`) | `BoxTypeCorrect` | `start` and `count` stay in the ring, in memory and in the file |
| | `SavedWhenIdleHolds` | a restart reads what would be exported |
| | `ImplementsBoundedLogHolds` | ring and file implement `BoundedLog` |
| (`DirectoryAssumption`) | `RunsDoTheirPartHolds` | any number of runs of `dir.c`, killed anywhere, with a user beside them, do their part |
| (`ConfigAssumption`) | `SearchFindsWhatIsShownHolds` | in any plain file, any key is found with the values it was shown with |
| (`TimersAssumption`) | `ExpirationsAddUpHolds` | each expiration is in exactly one count: read, unread; or handled, pending, discarded |
| | `DemosKeepTheirPromises` | the collection keeps all of these, whichever program it runs |
| (`ThreadDemosAssumption`) | `NothingUsedAfterDestroyHolds` | for any number of rounds and threads, no demo uses a semaphore, mutex or condition after it was destroyed, nor destroys one that is held or waited on |
| `SlabPool_proofs` (`SlabAssumption`) | `EachBlockInOnePlaceHolds` | no block is lost, shared or filed under another slab |
| | `ReuseBoundsTheHeapHolds` | a slab has no more buffers than were once active together |
| | `CountersAddUpHolds` | `total` and `in_use`, both wrapped, add up to the active blocks |
| `DaemonGuard_proofs` (`GuardAssumption`) | `EveryProcessIsRecordedHolds` | no worker runs twice or unknown to the guard |
| | `NoWorkerForgottenHolds` | a worker is without a process only for the reasons the property lists |
| | `SigtermReachesWorkersHolds` | SIGTERM reaches every recorded worker |

Every proof has the same shape. The invariants that the runs check are not
inductive, so each module defines an inductive invariant (`IInv`, `BoxIInv`,
`TreeIInv`, `ConfigIInv`, `TimersIInv`, `StrategiesIInv`, `DestroyedInv`), checked by
TLC on the small instance first. Each part of it has a lemma that the
kinds of step preserve it; `Invariance` combines them, and the theorems follow.

- *`CThreadPool`.* `AssertionsHold`, for one, speaks of a worker that is about to
  dequeue; that it finds a task depends on its having tested the counter under the
  mutex and on nobody else's holding it since. `LockInv`: the threads' positions
  say who holds the mutex. `MainInv`: main's loops, and `shutdown` is set exactly
  from `pool_destroy` on. `ListInv`: dequeued tasks and list together are
  `1..Added`. `WorkerInv`: what a worker knows past each of its tests. `JobInv`: a
  dequeued task is finished or in the hands of a running worker.
- *`StdThreadPool`.* The same, with `PlaceInv` (a task is queued, or running in
  exactly one worker, or finished) and `FreshInv` (what has not been enqueued is in
  none of these). A worker leaves only with `stop` set and the queue empty; what a
  running task enqueues after that finds its own worker still there.
- *`SafeQueuePool`.* The workers' mutex covers `empty` up to `dequeue`, and only a
  worker takes from the queue, so that what `empty` said is still true at
  `dequeue`, although submitters come in between.
- *`MPool`.* A list being the smallest closed set, what an insertion or a removal
  does to it follows without induction: the new set is closed, and no smaller one
  is. `ListInv`: what follows a block does not lead back to it, so that unlinking a
  block takes just that one out. `OwnerInv`: the active blocks are those that
  somebody owns. `GuardInv`: while protection is on, a block between whose alloc and
  now it was not switched has its guards until its client fills it. `DestroyInv`:
  when the destructor runs no block is in anybody's hands, so that the lists it walks
  have them all.
- *`AllocationStrategies`.* `BlocksInv` says that the headers cut the pool end to end;
  the steps of three programs are a few kinds (a block is cut, given out, given back, two
  are joined), and it is enough to treat each kind. `WalkInv`: behind `curr` there are
  no two free neighbours. `Leads` says that links lead through all of a set, through
  nothing else and in no circle; `ListInv` and `BinsInv` say this of the free blocks,
  the latter until a head was misfiled, `ChunksInv` of the chunks no client has. A
  lemma on sets of numbers (`CountingUp`) stands for the induction that relates
  these to the walk and the search of the code.
- *`BoundedBuffer`.* `CountInv` counts the slots in the hands of each thread,
  `EndsInv` relates `in`, `out` and the numbers produced and consumed modulo
  `BUFFER_SIZE`. The refinement of the channel is by cases on the two accesses;
  an arithmetic lemma says when two indices of the ring are the same.
  `LoopInv` has the names removed only when both loops have ended, so that no thread
  holds a slot when main is killed between the two removals.
- *`BlackBox`.* `SaveInv` says that nothing changes the struct between `fwrite` and
  `fclose`. The refinement rests on lemmas about the ring: an append at
  `(start + count) % MAX_LOG_COUNT` appends to the exported sequence, or drops its
  oldest entry when the ring is full.
- *`DirectoryTree`.* Unless something was done that a run relies on (`disturbed`):
  the prefixes that a creating run has come past exist, and what there is in a
  directory that a call of `rmdir_recursive` has opened is yet to be read, or the
  next call on the stack is for it. So a call that has read all its entries finds the
  directory empty, and the outermost one leaves nothing.
- *`ConfigFile`.* The first loop leaves its turns as a history, and the second loop is at
  one of them: what it has found are the values, for the key, of what had been shown by
  then. So one line is all there is to argue about: with one '=' at most and none at
  its end, `strtok_r` and the search for the '=' cut it at the same places, and trimming
  makes up for the newline that only one of the two removes.
- *`Timers`.* For each of the two programs, what a line of it knows: that the handler
  has not run before the signal is let through, that nothing is discarded before it
  has, and that a signal that is ignored is not pending. Each expiration adds one to
  one of the counts, and each step moves a count as a whole.
- *`SlabPool`.* `BlockInv`: a block's buffer, the size in its header and what its
  client asked for belong to one slab, so that `free`, which goes by the header,
  files it where `alloc`, which goes by the request, looks for it. `PeakInv`: `peak`
  bounds the active blocks; when a block is malloc'd its slab has none free, so all
  its blocks are active. The counters rest on a lemma that it does not matter when
  the wrapping is done, the lists on what either end's insertion does to one.
- *`DaemonGuard`.* `LoopInv` and `StartInv` say that a worker about to be started
  has no process; `PidInv` that unless a fork has failed a started worker has a
  pid, and that no two have the same unless the kernel has used one again. From
  these, a `waitpid` that returns the worker's pid has reaped all that ran for it.
- *`PosixDemos`.* Only the program that the initial state chose takes steps, so that a
  behaviour of the collection is one of that program, and of the others one in which
  nothing happens.
- *Demos of calls.* A program is data, so `NothingUsedAfterDestroy` is argued in two
  halves: what the programs look like, and what the machine keeps of any program
  that looks so. Most demos destroy nothing (`NothingDestroyed`). Those that do,
  except two, are of one form, `ForkJoin`: main creates the other tasks, joins all of
  them, and only then destroys; whoever locks a mutex unlocks it later in the same
  program. For any program of that form `ForkJoinInv` is inductive: a task that main
  has joined has ended, what is gone was destroyed by main behind its joins, an owner
  of a lock still has its unlock ahead, and who sleeps has not ended. The two others
  have an invariant of their own. In `8.thread_sem.c` the child has a child, and both
  destroy the semaphore: `ThreadSemInv` says where its four processes are. In
  `1.thread_cond.c` the consumers loop for ever, so that main never gets past its
  joins to the destroying (`ThreadCondInv`); nothing is used afterwards because
  there is no afterwards. Programs are read off by lemmas on concatenation; a loop is
  the concatenation of its rounds, and `CountingUp` stands for the induction on their
  number.

The abstract state of each refinement is a function of the code's (`order`, the
queue and the finished set; the ring read from `out`; the exported sequence; the
blocks each thread owns; the ranges of the blocks in use): each step is shown to map to one abstract step or to leave the abstract state as it is.

Only model-checked:

- liveness (`TaskRunsOrShutdown`, `EveryFutureReady`, `DestructorReturns`,
  `SubmittedTaskRuns`, `Finishes`, `FreeAlwaysReturns`, `ZombiesAreReaped`,
  `EveryDemoEnds`), which rests on fairness and on what is enabled;
- `OutputAsPromised`: the thirty-odd demos of calls each promise an order of output of
  their own, and each would need an invariant of its own about what every task has
  printed at every place of its program;
- what `RestartsBounded`, `DestroyReturns`, `BlockFitsRequest` and
  `BinsHoldFreeBlocksOfTheirClass` say, which the code does not do.

## Not modelled

- Failing `malloc`, `realloc`, `pthread_create` and the like: the programs do not
  survive them, or print and exit.
- A second `pool_destroy`: the program calls it once.
- Weaker memory than interleaving for the racy flag of the pthread pool.
- The allocators of `1.allocation_strategy` with several threads: they have no locks
  and their programs one thread. Headers lie at multiples of 4, as requests are
  rounded to. (`1.base` has one lock around each of its operations, so that they are
  single steps however many threads there are.)
- Negative delays and limits on the daemon's command line.
- What the daemon does after `cleanup` has freed its array, beyond finding the old
  values or crashing.
- A black box whose file is changed by another program, and entries' texts.
- Numbers and booleans that `rw_cfg.c` shows values as, and the fixed file that its
  `write_config_file` writes.
- `timer_create2.c` and `settimer.c`, which print at each expiration for ever.
- `thread_detach.c`, which joins a detached thread: undefined.
- The reordering of datagrams, and sockets that fail otherwise than by a refused
  connection; the output is a terminal, so that a line appears when it is
  printed.
- Programs whose interest is the tool chain, a library that is not in the
  repository, or a straight line of calls (compile and link demos, XML, JSON and
  YAML, ASan, system and clock queries, `create_file.c`, `mkstemp.c`, getopt, long
  jumps, variable arguments, git scripts, iterators).
- `conv_str_hex.c`, which hands `strtol` a character without a terminator, so that
  its result depends on the byte that follows.
