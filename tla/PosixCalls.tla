----------------------------- MODULE PosixCalls -----------------------------
(***************************************************************************)
(* The calls that the demonstrations of 3.Thread, 4.Process, 5.net and     *)
(* 8.atomic_ops make, and the few accesses to memory that matter to them.  *)
(* A program is a sequence of them; each operator is such a sequence, so   *)
(* that programs are put together with \o.  PosixMachine says what the     *)
(* calls do.  Tasks (threads and processes) are numbered, main is 1.       *)
(***************************************************************************)
EXTENDS Integers, Sequences

Main == 1

\* pthread_create; fork with everything the child runs; pthread_join or
\* waitpid, which return the child's register; exit of the whole process.
create(u) == <<[call |-> "create", task |-> u]>>
fork(u)   == <<[call |-> "fork", task |-> u]>>
join(u)   == <<[call |-> "join", task |-> u]>>
exit      == <<[call |-> "exit"]>>

\* Mutexes and condition variables.  A wait is a sleep, which releases the
\* mutex, and then a lock.
lock(m)             == <<[call |-> "lock", on |-> m]>>
unlock(m)           == <<[call |-> "unlock", on |-> m]>>
cond_wait(c, m)     == <<[call |-> "sleep", on |-> c, mutex |-> m, timed |-> FALSE]>> \o lock(m)
cond_timedwait(c, m) == <<[call |-> "sleep", on |-> c, mutex |-> m, timed |-> TRUE]>> \o lock(m)
cond_signal(c)      == <<[call |-> "signal", on |-> c]>>

\* Semaphores: sem_init and semctl's SETVAL write the value, sem_open with
\* O_CREAT only if there is no semaphore of that name.
sem_init(s, n) == <<[call |-> "sem_init", on |-> s, val |-> n]>>
sem_open(s, n) == <<[call |-> "sem_open", on |-> s, val |-> n]>>
sem_wait(s)    == <<[call |-> "sem_wait", on |-> s]>>
sem_post(s)    == <<[call |-> "sem_post", on |-> s]>>

\* sem_destroy, sem_unlink after the last close, IPC_RMID,
\* pthread_mutex_destroy, pthread_cond_destroy.
destroy(o) == <<[call |-> "destroy", on |-> o]>>

\* x = v;  the register takes x;  x = register + n;  and the atomic ones.
store(x, v)     == <<[call |-> "store", var |-> x, val |-> v]>>
load(x)         == <<[call |-> "load", var |-> x]>>
storeReg(x, n)  == <<[call |-> "storeReg", var |-> x, val |-> n]>>
fetch_add(x, n) == <<[call |-> "add", var |-> x, val |-> n]>>
exchange(x, v)  == <<[call |-> "swap", var |-> x, val |-> v]>>
cas(x, old, new) == <<[call |-> "cas", var |-> x, old |-> old, val |-> new]>>
return(v)       == <<[call |-> "return", val |-> v]>>

\* x += n as compiled: a load and a store.
increase(x, n) == load(x) \o storeReg(x, n)

\* Pipes, connections and datagrams are wires.  send appends, echo appends what
\* the task received last; recv takes at least one and at most most items, or
\* learns that all writers have closed (register 0).  accept takes a connection
\* from the backlog; the wires of a connection are numbered by it.
listen(w)      == <<[call |-> "listen", wire |-> w]>>
connect(w, b)  == <<[call |-> "connect", wire |-> w, backlog |-> b]>>
accept(b)      == <<[call |-> "accept", backlog |-> b]>>
pipe(w)        == <<[call |-> "pipe", wire |-> w]>>
unlisten(b)    == <<[call |-> "unlisten", wire |-> b]>>
close(w)       == <<[call |-> "close", wire |-> w]>>
send(w, items) == <<[call |-> "send", wire |-> w, items |-> items]>>
echo(w)        == <<[call |-> "echo", wire |-> w]>>
recv(w, most)  == <<[call |-> "recv", wire |-> w, most |-> most]>>
Accepted       == "accepted"        \* the wire of the connection accepted last

\* strcmp of what was received with text: the register is 1 if they are equal.
compare(text)  == <<[call |-> "compare", val |-> text]>>

\* Control: go on by instructions further, always or if the register is v.
jump(by)       == <<[call |-> "jump", by |-> by]>>
skipIf(v, by)  == <<[call |-> "skipIf", val |-> v, by |-> by]>>

\* printf of a constant, of the register, of a variable, of what was received.
print(tag, v)   == <<[call |-> "print", tag |-> tag, val |-> v]>>
printReg(tag)   == <<[call |-> "printReg", tag |-> tag]>>
printVar(tag, x) == <<[call |-> "printVar", tag |-> tag, var |-> x]>>
printData(tag)  == <<[call |-> "printData", tag |-> tag]>>

\* Where bytes count, a variable is a sequence of cells.  A datagram is received
\* into the first ones; fputs prints up to a zero.
Unset           == -1               \* a cell that was never written
overlay(x)      == <<[call |-> "overlay", var |-> x]>>
fputs(tag, x)   == <<[call |-> "fputs", tag |-> tag, var |-> x]>>

\* The body again and again: the jump leads back to its first instruction.
Forever(body) == body \o jump(-Len(body))
=============================================================================
