------------------------------ MODULE TaskPool ------------------------------
(***************************************************************************)
(* What a thread pool promises its clients, whatever locks and condition   *)
(* variables it is built from.  A task that is submitted is pending, then  *)
(* running, then finished; tasks start in the order of submission, each    *)
(* one once, and never more than MaxRunning at a time.  A closing pool     *)
(* takes no new task, and is closed once nothing is running.  A pool that  *)
(* drains (Drains = TRUE) first runs every pending task; one that does not *)
(* discards them.                                                          *)
(***************************************************************************)
EXTENDS Naturals, Sequences, FiniteSets

CONSTANTS Tasks,        (* the tasks its clients may submit                 *)
          MaxRunning,   (* the number of worker threads                     *)
          Drains        (* TRUE: close runs what is pending; FALSE: drops it*)

VARIABLES submitted,    (* the tasks that were submitted                    *)
          pending,      (* the tasks submitted and not started, in order    *)
          running,      (* the tasks some worker is executing               *)
          finished,     (* the tasks executed to the end                    *)
          phase         (* "open", "closing" or "closed"                    *)

poolVars == <<submitted, pending, running, finished, phase>>

PoolInit ==
    /\ submitted = {}
    /\ pending = <<>>
    /\ running = {}
    /\ finished = {}
    /\ phase = "open"

\* A client hands a task over.
Submit(t) ==
    /\ phase = "open"
    /\ t \notin submitted
    /\ submitted' = submitted \cup {t}
    /\ pending' = Append(pending, t)
    /\ UNCHANGED <<running, finished, phase>>

\* A worker takes the oldest pending task.
Start ==
    /\ phase # "closed"
    /\ pending # <<>>
    /\ Cardinality(running) < MaxRunning
    /\ running' = running \cup {Head(pending)}
    /\ pending' = Tail(pending)
    /\ UNCHANGED <<submitted, finished, phase>>

Finish(t) ==
    /\ t \in running
    /\ running' = running \ {t}
    /\ finished' = finished \cup {t}
    /\ UNCHANGED <<submitted, pending, phase>>

Close ==
    /\ phase = "open"
    /\ phase' = "closing"
    /\ UNCHANGED <<submitted, pending, running, finished>>

\* Close returns: nothing runs any more and, in a draining pool, nothing waits.
Closed ==
    /\ phase = "closing"
    /\ running = {}
    /\ Drains => pending = <<>>
    /\ phase' = "closed"
    /\ pending' = <<>>
    /\ UNCHANGED <<submitted, running, finished>>

PoolNext ==
    \/ \E t \in Tasks : Submit(t)
    \/ Start
    \/ \E t \in running : Finish(t)
    \/ Close
    \/ Closed

PoolSpec == PoolInit /\ [][PoolNext]_poolVars
=============================================================================
