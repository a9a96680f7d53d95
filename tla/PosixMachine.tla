---------------------------- MODULE PosixMachine ----------------------------
(***************************************************************************)
(* What the kernel and the C library do with the calls of PosixCalls.      *)
(* Each task is at an instruction of its program and has a register (the   *)
(* last result), the data it received last and the connection it accepted  *)
(* last.  Tasks of the same space are threads of one process and see the   *)
(* same variables; space 0 is the memory that processes share.             *)
(***************************************************************************)
EXTENDS PosixCalls, FiniteSets

CONSTANTS Code,         (* Code[d][t]: the program of task t of demo d      *)
          Recursive,    (* the mutexes a thread may lock more than once     *)
          Shared,       (* the variables in shared memory                   *)
          Persistent,   (* semaphores that outlive the processes            *)
          Datagram,     (* the wires that lose what they carry              *)
          Killed,       (* the demos that may be killed and started again   *)
          MaxKills      (* bound on how often                               *)

VARIABLES demo,         (* which program runs                               *)
          task,         (* by task: pc, space, reg, data, conn              *)
          image,        (* by space: the variables that were written        *)
          owner,        (* by mutex that was used: its owner and depth      *)
          asleep,       (* who waits on which condition, with a timeout or not *)
          sem,          (* by semaphore that exists: its value              *)
          wire, open,   (* by wire: what it carries; the wires that exist   *)
          writers,      (* who holds the writing end of which wire          *)
          gone,         (* history: the objects that were destroyed         *)
          printed,      (* history: what the tasks printed                  *)
          kills

machine == <<demo, task, image, owner, asleep, sem, wire, open, writers, gone,
             printed, kills>>
memory   == image
locks    == <<owner, asleep, sem>>
wires    == <<wire, open, writers>>
history  == <<printed, kills, gone>>

Tasks     == DOMAIN task
Length(t) == Len(Code[demo][t])
Started(t) == task[t].pc > 0
Ended(t)  == task[t].pc > Length(t)
Ins(t)    == Code[demo][t][task[t].pc]
At(t, call) ==
    /\ task[t].pc \in 1..Length(t) /\ Ins(t).call = call
    /\ \A z \in asleep : z.task # t

\* f[x], or d where f has no value; f with value v at x.
Value(f, x, d) == IF x \in DOMAIN f THEN f[x] ELSE d
Put(f, x, v) == [y \in DOMAIN f \cup {x} |-> IF y = x THEN v ELSE f[y]]

Ready(space) == [pc |-> 1, space |-> space, reg |-> 0, data |-> <<>>, conn |-> "none"]

\* Only main exists.
MachineInit ==
    /\ demo \in DOMAIN Code
    /\ task = [t \in DOMAIN Code[demo] |->
                 IF t = Main THEN Ready(Main) ELSE [Ready(0) EXCEPT !.pc = 0]]
    /\ image = [s \in {Main} |-> [x \in {} |-> 0]]
    /\ owner = [m \in {} |-> 0] /\ asleep = {} /\ sem = [s \in {} |-> 0]
    /\ wire = [w \in {} |-> <<>>] /\ open = {} /\ writers = {}
    /\ gone = {} /\ printed = <<>> /\ kills = 0

-----------------------------------------------------------------------------
Onward(t) == [task EXCEPT ![t].pc = @ + 1]
Result(t, v) == [task EXCEPT ![t].pc = @ + 1, ![t].reg = v]

Start(t) ==
    /\ At(t, "create")
    /\ task' = [Onward(t) EXCEPT ![Ins(t).task] = Ready(task[t].space)]
    /\ UNCHANGED <<demo, memory, locks, wires, history>>

\* The child gets a copy of the memory and of the descriptors.
Fork(t) ==
    LET u == Ins(t).task IN
    /\ At(t, "fork")
    /\ task' = [Onward(t) EXCEPT ![u] = [Ready(u) EXCEPT !.reg = task[t].reg]]
    /\ image' = Put(image, u, image[task[t].space])
    /\ writers' = writers \cup {[task |-> u, wire |-> h.wire] : h \in {g \in writers : g.task = t}}
    /\ UNCHANGED <<demo, locks, wire, open, history>>

Join(t) ==
    /\ At(t, "join") /\ Started(Ins(t).task) /\ Ended(Ins(t).task)
    /\ task' = Result(t, task[Ins(t).task].reg)
    /\ UNCHANGED <<demo, memory, locks, wires, history>>

\* All threads of the process end, its descriptors are closed.
Exit(t) ==
    LET mine == {u \in Tasks : Started(u) /\ task[u].space = task[t].space} IN
    /\ At(t, "exit")
    /\ task' = [u \in Tasks |-> IF u \in mine THEN [task[u] EXCEPT !.pc = Length(u) + 1] ELSE task[u]]
    /\ writers' = {h \in writers : h.task \notin mine}
    /\ asleep' = {z \in asleep : z.task \notin mine}
    /\ UNCHANGED <<demo, memory, owner, sem, wire, open, history>>

-----------------------------------------------------------------------------
Nobody == [task |-> 0, depth |-> 0]
OwnerOf(m) == Value(owner, m, Nobody)

Lock(t) ==
    LET m == Ins(t).on IN
    /\ At(t, "lock")
    /\ OwnerOf(m).task = 0 \/ (OwnerOf(m).task = t /\ m \in Recursive)
    /\ owner' = Put(owner, m, [task |-> t, depth |-> OwnerOf(m).depth + 1])
    /\ task' = Onward(t)
    /\ UNCHANGED <<demo, memory, asleep, sem, wires, history>>

Released(m) == IF OwnerOf(m).depth <= 1 THEN Nobody ELSE [OwnerOf(m) EXCEPT !.depth = @ - 1]

Unlock(t) ==
    /\ At(t, "unlock")
    /\ owner' = Put(owner, Ins(t).on, Released(Ins(t).on))
    /\ task' = Onward(t)
    /\ UNCHANGED <<demo, memory, asleep, sem, wires, history>>

Sleep(t) ==
    /\ At(t, "sleep")
    /\ owner' = Put(owner, Ins(t).mutex, Released(Ins(t).mutex))
    /\ asleep' = asleep \cup {[task |-> t, on |-> Ins(t).on, timed |-> Ins(t).timed]}
    /\ task' = Result(t, 0)
    /\ UNCHANGED <<demo, memory, sem, wires, history>>

\* A signal wakes one of the waiting threads, if there is one.
Signal(t) ==
    LET waiting == {z \in asleep : z.on = Ins(t).on} IN
    /\ At(t, "signal")
    /\ IF waiting = {} THEN UNCHANGED asleep
       ELSE \E z \in waiting : asleep' = asleep \ {z}
    /\ task' = Onward(t)
    /\ UNCHANGED <<demo, memory, owner, sem, wires, history>>

ETIMEDOUT == 110

Timeout(t) == \E z \in asleep :
    /\ z.task = t /\ z.timed
    /\ asleep' = asleep \ {z}
    /\ task' = [task EXCEPT ![t].reg = ETIMEDOUT]
    /\ UNCHANGED <<demo, memory, owner, sem, wires, history>>

SpuriousWakeup(t) == \E z \in asleep :
    /\ z.task = t
    /\ asleep' = asleep \ {z}
    /\ UNCHANGED <<demo, task, memory, owner, sem, wires, history>>

-----------------------------------------------------------------------------
SemInit(t) ==
    LET s == Ins(t).on IN
    /\ At(t, "sem_init") \/ At(t, "sem_open")
    /\ sem' = IF Ins(t).call = "sem_open" /\ s \in DOMAIN sem THEN sem
              ELSE Put(sem, s, Ins(t).val)
    /\ gone' = gone \ {s}
    /\ task' = Onward(t)
    /\ UNCHANGED <<demo, memory, owner, asleep, wires, printed, kills>>

SemWait(t) ==
    LET s == Ins(t).on IN
    /\ At(t, "sem_wait") /\ Value(sem, s, 0) > 0
    /\ sem' = [sem EXCEPT ![s] = @ - 1]
    /\ task' = Onward(t)
    /\ UNCHANGED <<demo, memory, owner, asleep, wires, history>>

SemPost(t) ==
    LET s == Ins(t).on IN
    /\ At(t, "sem_post")
    /\ sem' = [sem EXCEPT ![s] = @ + 1]
    /\ task' = Onward(t)
    /\ UNCHANGED <<demo, memory, owner, asleep, wires, history>>

Destroy(t) ==
    LET o == Ins(t).on IN
    /\ At(t, "destroy")
    /\ gone' = gone \cup {o}
    /\ sem' = [s \in DOMAIN sem \ {o} |-> sem[s]]
    /\ task' = Onward(t)
    /\ UNCHANGED <<demo, memory, owner, asleep, wires, printed, kills>>

-----------------------------------------------------------------------------
Space(t, x) == IF x \in Shared THEN 0 ELSE task[t].space
Read(t, x)  == Value(Value(image, Space(t, x), [y \in {} |-> 0]), x, 0)
Write(t, x, v) ==
    image' = Put(image, Space(t, x), Put(Value(image, Space(t, x), [y \in {} |-> 0]), x, v))

\* The cells after the received data keep what they held.
Overlaid(cells, data) == [c \in DOMAIN cells |-> IF c <= Len(data) THEN data[c] ELSE cells[c]]

\* Every access to memory is a step: what it writes, and what the register gets.
Access(t) ==
    LET i == Ins(t)  x == Ins(t).var  reg == task[t].reg IN
    /\ \/ At(t, "store") /\ Write(t, x, i.val) /\ task' = Onward(t)
       \/ At(t, "storeReg") /\ Write(t, x, reg + i.val) /\ task' = Onward(t)
       \/ At(t, "add") /\ Write(t, x, Read(t, x) + i.val) /\ task' = Result(t, Read(t, x))
       \/ At(t, "swap") /\ Write(t, x, i.val) /\ task' = Result(t, Read(t, x))
       \/ /\ At(t, "cas") /\ Read(t, x) = i.old
          /\ Write(t, x, i.val) /\ task' = Result(t, 1)
       \/ At(t, "cas") /\ Read(t, x) # i.old /\ UNCHANGED image /\ task' = Result(t, 0)
       \/ At(t, "load") /\ UNCHANGED image /\ task' = Result(t, Read(t, x))
       \/ /\ At(t, "overlay") /\ Write(t, x, Overlaid(Read(t, x), Head(task[t].data)))
          /\ task' = Onward(t)
    /\ UNCHANGED <<demo, locks, wires, history>>

\* Jumps, comparisons, and the value that a thread leaves for its join.
Control(t) ==
    /\ \/ At(t, "jump") /\ task' = [task EXCEPT ![t].pc = @ + Ins(t).by]
       \/ /\ At(t, "skipIf")
          /\ task' = IF task[t].reg = Ins(t).val
                     THEN [task EXCEPT ![t].pc = @ + 1 + Ins(t).by] ELSE Onward(t)
       \/ At(t, "return") /\ task' = Result(t, Ins(t).val)
       \/ At(t, "compare") /\ task' = Result(t, IF task[t].data = <<Ins(t).val>> THEN 1 ELSE 0)
    /\ UNCHANGED <<demo, memory, locks, wires, history>>

\* What is in the cells up to their zero: it stands behind them, unless one that
\* was never written happens to hold it.
CStrings(cells) ==
    {SubSeq(cells, 1, n) : n \in {m \in 0..Len(cells) : m = Len(cells) \/ cells[m + 1] = Unset}}

\* A printf to a terminal, whose lines come out at once.
Printf(t) ==
    LET i == Ins(t) IN
    /\ \/ At(t, "print") /\ printed' = Append(printed, <<t, i.tag, i.val>>)
       \/ At(t, "printReg") /\ printed' = Append(printed, <<t, i.tag, task[t].reg>>)
       \/ At(t, "printVar") /\ printed' = Append(printed, <<t, i.tag, Read(t, i.var)>>)
       \/ At(t, "printData") /\ printed' = printed \o
              [k \in DOMAIN task[t].data |-> <<t, i.tag, task[t].data[k]>>]
       \/ At(t, "fputs") /\ \E text \in CStrings(Read(t, i.var)) :
              printed' = Append(printed, <<t, i.tag, text>>)
    /\ task' = Onward(t)
    /\ UNCHANGED <<demo, memory, locks, wires, kills, gone>>

-----------------------------------------------------------------------------
WireOf(t) == IF Ins(t).wire = Accepted THEN task[t].conn ELSE Ins(t).wire
Carried(w) == Value(wire, w, <<>>)
Holder(t, w) == [task |-> t, wire |-> w]

\* pipe, or a socket bound to its address; and the end of that socket.
Open(t) ==
    /\ At(t, "pipe") \/ At(t, "listen") \/ At(t, "unlisten")
    /\ open' = IF Ins(t).call = "unlisten" THEN open \ {Ins(t).wire} ELSE open \cup {Ins(t).wire}
    /\ writers' = IF Ins(t).call = "pipe" THEN writers \cup {Holder(t, Ins(t).wire)} ELSE writers
    /\ task' = Onward(t)
    /\ UNCHANGED <<demo, memory, locks, wire, history>>

\* A connection is refused as long as nobody listens.
Connect(t) ==
    LET b == Ins(t).backlog  w == Ins(t).wire IN
    /\ At(t, "connect")
    /\ IF b \in open
       THEN /\ wire' = Put(wire, b, Append(Carried(b), w))
            /\ open' = open \cup {w}
            /\ writers' = writers \cup {Holder(t, w)}
            /\ task' = Result(t, 1)
       ELSE task' = Result(t, 0) /\ UNCHANGED wires
    /\ UNCHANGED <<demo, memory, locks, history>>

Accept(t) ==
    LET b == Ins(t).backlog IN
    /\ At(t, "accept") /\ Carried(b) # <<>>
    /\ wire' = Put(wire, b, Tail(Carried(b)))
    /\ task' = [Onward(t) EXCEPT ![t].conn = Head(Carried(b))]
    /\ UNCHANGED <<demo, memory, locks, open, writers, history>>

Close(t) ==
    /\ At(t, "close")
    /\ writers' = writers \ {Holder(t, WireOf(t))}
    /\ task' = Onward(t)
    /\ UNCHANGED <<demo, memory, locks, wire, open, history>>

\* A datagram to a port that nobody has bound is dropped.
Send(t) ==
    LET w == WireOf(t)
        items == IF Ins(t).call = "echo" THEN task[t].data ELSE Ins(t).items IN
    /\ At(t, "send") \/ At(t, "echo")
    /\ wire' = IF w \in open THEN Put(wire, w, Carried(w) \o items) ELSE wire
    /\ task' = Onward(t)
    /\ UNCHANGED <<demo, memory, locks, open, writers, history>>

Receive(t) ==
    LET w == WireOf(t)  have == Carried(WireOf(t)) IN
    /\ At(t, "recv")
    /\ \/ \E n \in 1..Len(have) :
            /\ n <= Ins(t).most
            /\ wire' = Put(wire, w, SubSeq(have, n + 1, Len(have)))
            /\ task' = [Result(t, n) EXCEPT ![t].data = SubSeq(have, 1, n)]
       \/ /\ have = <<>> /\ w \in open \ Datagram /\ \A h \in writers : h.wire # w
          /\ task' = [Result(t, 0) EXCEPT ![t].data = <<>>]
          /\ UNCHANGED wire
    /\ UNCHANGED <<demo, memory, locks, open, writers, history>>

Lose(w) ==
    /\ Carried(w) # <<>>
    /\ wire' = Put(wire, w, Tail(Carried(w)))
    /\ UNCHANGED <<demo, task, memory, locks, open, writers, history>>

-----------------------------------------------------------------------------
\* ^C ends all processes of the program, and it is started again: what outlives
\* them are the semaphores with a name or a key and the shared memory.
Kill ==
    /\ demo \in Killed /\ kills < MaxKills /\ ~Ended(Main)
    /\ kills' = kills + 1
    /\ task' = [t \in Tasks |-> IF t = Main THEN Ready(Main) ELSE [Ready(0) EXCEPT !.pc = 0]]
    /\ image' = [s \in {Main} \cup (DOMAIN image \cap {0}) |->
                   IF s = 0 THEN image[0] ELSE [x \in {} |-> 0]]
    /\ owner' = [m \in {} |-> 0] /\ asleep' = {}
    /\ sem' = [s \in DOMAIN sem \cap Persistent |-> sem[s]]
    /\ wire' = [w \in {} |-> <<>>] /\ open' = {} /\ writers' = {}
    /\ gone' = {} /\ printed' = <<>>
    /\ UNCHANGED demo

Step(t) ==
    \/ Start(t) \/ Fork(t) \/ Join(t) \/ Exit(t)
    \/ Lock(t) \/ Unlock(t) \/ Sleep(t) \/ Signal(t)
    \/ SemInit(t) \/ SemWait(t) \/ SemPost(t) \/ Destroy(t)
    \/ Access(t) \/ Control(t) \/ Printf(t)
    \/ Open(t) \/ Connect(t) \/ Accept(t) \/ Close(t) \/ Send(t) \/ Receive(t)

MachineNext ==
    \/ \E t \in Tasks : Step(t) \/ Timeout(t) \/ SpuriousWakeup(t)
    \/ \E w \in Datagram : Lose(w)
    \/ Kill

\* The demo has run to its end: no task that was started is still there.
AllEnded == Ended(Main) /\ \A t \in Tasks : Started(t) => Ended(t)
=============================================================================
