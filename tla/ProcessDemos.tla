---------------------------- MODULE ProcessDemos ----------------------------
(***************************************************************************)
(* The programs of 4.Process and 5.net, as calls of PosixCalls, and what   *)
(* each is to print.  Main is the process that the shell starts, or the    *)
(* shell itself where a demo is two programs.  A message is a number; what *)
(* a stream may cut in pieces is a sequence of them.                       *)
(***************************************************************************)
EXTENDS ThreadDemos

CONSTANTS Fragments     (* the pieces TCP may cut a message into            *)

ASSUME ProcessDemosAssumption == Fragments \in Nat \ {0}

\* The lines of the first kind come before those of the second.
Before(o, first, second) ==
    \A k \in DOMAIN o :
        o[k][2] = second => \E j \in 1..(k - 1) : o[j][2] = first

-----------------------------------------------------------------------------
(* 1.create_stop: fork.c, fork_2.c, exec.c, wait.c, wait_zombie.c *)
fork_demo == << fork(2) \o print("parent", 0) \o exit, print("child", 0) \o exit >>

exit_handlers == print("handler", 2) \o print("handler", 1) \o exit

fork_2 ==
    << store("glob", 10) \o store("local", 8) \o fork(2)
         \o increase("glob", 1) \o increase("local", -1)
         \o printVar("glob", "glob") \o printVar("local", "local") \o exit_handlers,
       printVar("glob", "glob") \o printVar("local", "local") \o exit_handlers >>

\* Each process has its own variables and runs the handlers, the last
\* registered first.
fork_2_promise(o) ==
    /\ IsPrefix(Values(By(o, 1)), <<11, 7, 2, 1>>)
    /\ IsPrefix(Values(By(o, 2)), <<10, 8, 2, 1>>)

ls == print("ls", 0) \o return(0) \o exit
exec == << fork(2) \o print("done", 0) \o exit, ls >>
\* Mutant: nobody waits.
waitNot == << fork(2) \o printReg("exited") \o exit, ls >>

wait == << fork(2) \o join(2) \o printReg("exited") \o exit, ls >>

wait_promise(o) == Before(o, "ls", "exited")

wait_zombie == << fork(2) \o exit, exit >>

-----------------------------------------------------------------------------
(* 2.shm.c: the semaphore is private, the memory is found by its key. *)
\* Mutant: the parent signals before it has written.
shmSignalsFirst ==
    << sem_init("private", 0) \o fork(2)
         \o sem_post("private")
         \o store("shared_memory", 1) \o print("written", 1) \o join(2)
         \o store("shared_memory", 0) \o destroy("private") \o exit,
       sem_wait("private") \o printVar("read", "shared_memory") \o exit >>

shm ==
    << sem_init("private", 0) \o fork(2)
         \o store("shared_memory", 1) \o print("written", 1)
         \o sem_post("private") \o join(2)
         \o store("shared_memory", 0) \o destroy("private") \o exit,
       sem_wait("private") \o printVar("read", "shared_memory") \o exit >>

\* The child reads what the parent wrote.
shm_promise(o) == IsPrefix(Values(Tagged(o, "read")), <<1>>)

(* 8.thread_sem.c: the child of system_v returns to main and runs posix too, *)
(* while its parent waits; the parent runs it again.                         *)
posix_parent(child) ==
    sem_open("/posix_sem", 0) \o fork(child) \o print("finished", 1)
        \o sem_post("/posix_sem") \o join(child) \o destroy("/posix_sem")
posix_child == sem_wait("/posix_sem") \o print("resumed", 1) \o exit

thread_sem_demo ==
    << sem_init("semfile", 0) \o fork(2) \o print("finished", 0)
         \o sem_post("semfile") \o join(2) \o destroy("semfile")
         \o posix_parent(3) \o exit,
       sem_wait("semfile") \o print("resumed", 0) \o posix_parent(4) \o exit,
       posix_child,
       posix_child >>

\* A child goes on only after its parent has finished its work.
thread_sem_promise(o) ==
    /\ IsPrefix(Values(o), <<0, 0, 1, 1, 1, 1>>)
    /\ \A k \in DOMAIN o : o[k][2] = IF k % 2 = 1 THEN "finished" ELSE "resumed"

\* The same with System V alone: SETVAL sets the semaphore whatever it was.
system_v ==
    << sem_init("semfile", 0) \o fork(2) \o print("finished", 0)
         \o sem_post("semfile") \o join(2) \o destroy("semfile") \o exit,
       sem_wait("semfile") \o print("resumed", 0) \o exit >>

(* 9.semaphore: demo.c without the data, demo2.c with it. *)
sem_producer(i, work) ==
    work \o print("produced", i) \o sem_post("/sem_consumer") \o sem_wait("/sem_producer")
sem_consumer(i, work) ==
    sem_wait("/sem_consumer") \o work \o sem_post("/sem_producer")

ping_pong(producing, consuming) ==
    << sem_open("/sem_producer", 0) \o sem_open("/sem_consumer", 0) \o fork(2)
         \o producing \o join(2)
         \o destroy("/sem_producer") \o destroy("/sem_consumer") \o exit,
       consuming \o exit >>

sem_demo  == ping_pong(
    FlattenSeq([i \in 1..Rounds |-> sem_producer(i, <<>>)]),
    FlattenSeq([i \in 1..Rounds |-> sem_consumer(i, print("consumed", i))]))
sem_demo2 == ping_pong(
    FlattenSeq([i \in 1..Rounds |-> sem_producer(i, store("shared_mem", i))]),
    FlattenSeq([i \in 1..Rounds |-> sem_consumer(i, printVar("consumed", "shared_mem"))]))

\* Producer and consumer take turns, and the consumer gets each item.
ping_pong_promise(o) ==
    \A k \in DOMAIN o :
        /\ o[k][2] = IF k % 2 = 1 THEN "produced" ELSE "consumed"
        /\ o[k][3] = (k + 1) \div 2

(* 3.mmap: the Makefile runs the two programs one after the other.  The     *)
(* reader prints the number and writes twice it.                            *)
mmap_write == store("mFile.txt", 7) \o exit
mmap_read == load("mFile.txt") \o printReg("value") \o storeReg("mFile.txt", 7) \o exit
mmap == << fork(2) \o join(2) \o fork(3) \o join(3) \o exit, mmap_write, mmap_read >>

mmap_promise(o) == IsPrefix(Values(o), <<7>>)
-----------------------------------------------------------------------------
(* 5.pipe, 6.dup2.c, 7.popen.c *)
reader == recv("fds", 1) \o skipIf(0, 2) \o printData("line") \o jump(-3)
writer == FlattenSeq([i \in 1..Rounds |-> send("fds", <<i>>)])

\* Mutant: the child keeps its writing end.
pipe_demoKeepsEnd ==
    << pipe("fds") \o fork(2) \o writer \o close("fds") \o exit, reader \o exit >>

pipe_demo ==
    << pipe("fds") \o fork(2) \o writer \o close("fds") \o exit,
       close("fds") \o reader \o exit >>

pipe2 ==
    << pipe("fds") \o fork(2) \o send("fds", <<1>>) \o close("fds") \o exit,
       close("fds") \o recv("fds", 1) \o printData("line") \o exit >>

pipe_promise(o) == IsPrefix(Values(o), Counting(Rounds))

\* sort reads to the end before it prints.
sort ==
    recv("fds", 1) \o skipIf(0, 3) \o increase("lines", 1) \o jump(-4)
        \o printVar("sorted", "lines") \o exit
dup2 ==
    << pipe("fds") \o fork(2) \o writer \o close("fds") \o join(2) \o exit,
       close("fds") \o sort >>

sort_promise(o) == IsPrefix(Values(o), <<Rounds>>)

-----------------------------------------------------------------------------
(* 4.socket/1.*: one message over TCP. *)
Message(m) == [f \in 1..Fragments |-> 10 * m + f]

\* The shell starts the server and the clients, in no order that counts.
Together(programs) == << FlattenSeq([i \in 1..Len(programs) |-> fork(1 + i)]) \o exit >> \o programs

socket_server == listen("8080") \o accept("8080") \o recv(Accepted, Fragments)
                   \o printData("received") \o unlisten("8080") \o exit
socket_client == connect("c1", "8080") \o skipIf(0, 1) \o send("c1", Message(1)) \o exit
socket == Together(<<socket_server, socket_client>>)

\* read is called once: the server may print the beginning of the message only.
socket_promise(o) == IsPrefix(Values(o), Message(1))

(* 4.socket/2.*: texts over a local socket, each in a connection of its own, *)
(* the length first; the server goes on until a text is quit.                *)
quit == 0
server ==
    recv(Accepted, 1) \o skipIf(0, 4) \o recv(Accepted, 1) \o printData("received")
        \o compare(quit) \o skipIf(1, 1)
local_server == listen("name") \o Forever(accept("name") \o server) \o unlisten("name") \o exit

write_text(c, text) == send(c, <<5>>) \o send(c, <<text>>)
local_client(c, text) == connect(c, "name") \o write_text(c, text) \o exit
local_socket == Together(<<local_server, local_client("c1", 1), local_client("c2", quit)>>)

\* Each text is printed at most once, and nothing after quit.
local_promise(o) == Values(o) \in {<<>>, <<1>>, <<quit>>, <<1, quit>>}

(* 4.socket/3.socket-inet.c, and a web server that sends a page and closes. *)
get_home_page == send("c1", <<1>>) \o recv("page", 2 * Fragments) \o skipIf(0, 2)
                   \o printData("page") \o jump(-3)
inet_client == connect("c1", "80") \o skipIf(0, Len(get_home_page)) \o get_home_page \o exit
web_server  == listen("80") \o accept("80") \o recv(Accepted, 1) \o pipe("page")
                 \o send("page", Message(1)) \o send("page", Message(2)) \o exit
socket_inet == Together(<<web_server, inet_client>>)

inet_promise(o) == IsPrefix(Values(o), Message(1) \o Message(2))

-----------------------------------------------------------------------------
(* 5.net/tcp: the server greets its client and sends back what it receives. *)
tcp_server ==
    listen("8000") \o accept("8000") \o pipe("down") \o send("down", Message(0))
        \o Forever(recv(Accepted, Fragments) \o skipIf(0, 3) \o printData("server") \o echo("down"))
        \o close("down") \o unlisten("8000") \o exit

tcp_client ==
    LET talk == recv("down", Fragments) \o printData("client")
                  \o FlattenSeq([i \in 1..Rounds |->
                       send("c1", Message(i)) \o recv("down", Fragments) \o printData("client")]) IN
    connect("c1", "8000") \o skipIf(0, Len(talk)) \o talk \o close("c1") \o exit

tcp == Together(<<tcp_server, tcp_client>>)

\* However TCP cuts the stream, both ends read it in order and without gaps: what
\* each prints is a beginning of what the other has sent.
Said(n) == Message(0) \o FlattenSeq([i \in 1..n |-> Message(i)])
tcp_promise(o) ==
    /\ IsPrefix(Values(Tagged(o, "server")), FlattenSeq([i \in 1..Rounds |-> Message(i)]))
    /\ IsPrefix(Values(Tagged(o, "client")), Said(Rounds))

(* 5.net/udp: unicast, the broadcast of the lines of a file, and the multicast *)
(* of the lines that are typed.  A broadcast or a group is one wire, bound by  *)
(* its receiver.                                                               *)
udp_server == listen("udp8000") \o recv("udp8000", 1) \o printData("received") \o exit
udp_client == send("udp8000", <<1>>) \o exit
udp == Together(<<udp_server, udp_client>>)

\* fgets reads pieces of the file: the last is shorter than those before it.
Piece(i) == [c \in 1..(IF i = Rounds THEN 1 ELSE Fragments) |-> 10 * i + c]

\* After the last piece feof is not yet true: it is sent once more.  The client
\* ends its buffer behind the last cell and not behind what it received.
broadcast_server ==
    FlattenSeq([i \in 1..Rounds |-> send("group", <<Piece(i)>>)])
        \o send("group", <<Piece(Rounds)>>) \o exit
broadcast_client ==
    listen("group") \o store("buff", [c \in 1..(Fragments + 1) |-> Unset])
        \o Forever(recv("group", 1) \o overlay("buff") \o fputs("received", "buff"))
broadcast == Together(<<broadcast_client, broadcast_server>>)

\* When no more lines come fgets leaves the buffer alone: the server cuts one
\* more character off the last line and sends that, in the code for ever.
leftover(i) == -i
multicast1_client ==
    listen("group") \o Forever(recv("group", 1) \o compare(quit) \o skipIf(1, 2)
                                 \o printData("received")) \o exit
multicast1_server ==
    FlattenSeq([i \in 1..Rounds |-> send("group", <<i>>)]) \o send("group", <<quit>>)
        \o FlattenSeq([i \in 1..Rounds |-> send("group", <<leftover(i)>>)])
multicast1 == Together(<<multicast1_client, multicast1_server>>)

\* Here the server receives and the client sends.  It takes the NULL of fgets for
\* one more line, which is empty because the buffer was cleared.
empty_line == 0
send_line(text) == send("group", <<text>>) \o print("send ok", text)
multicast2_server == listen("group") \o Forever(recv("group", 1) \o printData("received"))
multicast2_client ==
    FlattenSeq([i \in 1..Rounds |-> send_line(i)]) \o FlattenSeq([i \in 1..Rounds |-> send_line(empty_line)])
multicast2 == Together(<<multicast2_server, multicast2_client>>)

\* Lines may be missing; none comes twice and none is overtaken.
Received(o, sent) ==
    LET got == Values(Tagged(o, "received")) IN
    \E from \in [DOMAIN got -> DOMAIN sent] : \A k \in DOMAIN got :
        got[k] = sent[from[k]] /\ (k > 1 => from[k - 1] < from[k])

\* quit, which ends the receiver, is not printed; if it is lost, the leftovers are.
multicast1_promise(o) == Received(o, Counting(Rounds) \o [i \in 1..Rounds |-> leftover(i)])
multicast2_promise(o) == Received(o, Counting(Rounds) \o [i \in 1..Rounds |-> empty_line])

\* Pieces may be missing; those that arrive do so in order, and only the last
\* one twice.  A text begins with its piece; behind it come, in their places,
\* cells of pieces that were received before it, the later ones over the
\* earlier, and cells that never were written.
broadcast_promise(o) ==
    LET texts == Values(o)
        piece == [k \in DOMAIN texts |-> texts[k][1] \div 10]
        reaching(k, c) == {j \in 1..k : c <= Len(Piece(piece[j]))} IN
    /\ Len(texts) <= Rounds + 1
    /\ \A k \in DOMAIN texts :
         /\ piece[k] \in 1..Rounds /\ Len(Piece(piece[k])) <= Len(texts[k])
         /\ k > 1 => piece[k - 1] < piece[k] \/ piece[k - 1] = Rounds
         /\ \A c \in DOMAIN texts[k] :
              texts[k][c] = IF reaching(k, c) = {} THEN Unset
                            ELSE Piece(piece[Max(reaching(k, c))])[c]
=============================================================================
