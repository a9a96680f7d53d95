------------------------------- MODULE Timers -------------------------------
(***************************************************************************)
(* 5.time: timefd_create.c, which reads how often a timer has expired from *)
(* a descriptor, and timer_create.c, which blocks the signal of its timer, *)
(* sleeps and then lets it through.  Both have a timer that expires when   *)
(* it pleases; neither of them sees every expiration as an event of its    *)
(* own.                                                                    *)
(***************************************************************************)
EXTENDS Integers, Sequences

CONSTANTS MaxExpired        (* bound: how often a timer expires             *)

ASSUME TimersAssumption == MaxExpired \in Nat

VARIABLES program,          (* timefd_create or timer_create                *)
          line,             (* where main is                                *)
          periodic,         (* the interval is not 0                        *)
          expired,          (* history: how often the timer has expired     *)
          unread,           (* of those, what the descriptor still has      *)
          max_exp, tot_exp,
          disposition,      (* of the signal: default, handler, ignored     *)
          blocked, pending,
          overrun,          (* what timer_getoverrun returns                *)
          caught,           (* history: the counts that the handler printed *)
          discarded         (* history: expirations nobody was told of      *)

timerVars == <<program, line, periodic, expired, unread, max_exp, tot_exp,
               disposition, blocked, pending, overrun, caught, discarded>>

\* The arguments of the command line; with an interval of 0 the timer expires once
\* whatever max_exp is.  timer_create.c takes one time for both.
TimersInit ==
    /\ program \in {"timefd_create", "timer_create"}
    /\ periodic \in BOOLEAN /\ max_exp \in 0..MaxExpired
    /\ program = "timer_create" => periodic /\ max_exp = 0
    /\ line = "start"
    /\ expired = 0 /\ unread = 0 /\ tot_exp = 0
    /\ disposition = "default" /\ blocked = FALSE /\ pending = FALSE
    /\ overrun = 0 /\ caught = <<>> /\ discarded = 0

Goto(l) == line' = l
ofTimer == <<program, periodic, max_exp>>
ofFd == <<unread, tot_exp>>
ofSignal == <<disposition, blocked, pending, overrun, caught, discarded>>
TimerRuns == line \in {"loop", "sleep", "handler", "unblocked"}

-----------------------------------------------------------------------------
\* The kernel: a count for the descriptor, or at most one pending signal; what
\* expires while it is pending is its overrun.  An ignored signal is discarded.
Expire ==
    /\ TimerRuns /\ expired < MaxExpired /\ (periodic \/ expired = 0)
    /\ expired' = expired + 1
    /\ IF program = "timefd_create"
         THEN unread' = unread + 1 /\ UNCHANGED <<pending, overrun, discarded>>
         ELSE /\ pending' = (pending \/ disposition # "ignored")
              /\ overrun' = IF pending THEN overrun + 1 ELSE overrun
              /\ discarded' = IF disposition = "ignored" THEN discarded + 1 ELSE discarded
              /\ UNCHANGED unread
    /\ UNCHANGED <<ofTimer, line, tot_exp, disposition, blocked, caught>>

\* timefd_create.c, lines 96-135.
StartFd ==
    /\ program = "timefd_create" /\ line = "start"
    /\ Goto("loop")
    /\ UNCHANGED <<ofTimer, expired, ofFd, ofSignal>>

\* Lines 137-147: read waits for an expiration and takes all there have been.
ReadFd ==
    /\ program = "timefd_create" /\ line = "loop"
    /\ IF tot_exp >= max_exp THEN Goto("exit") /\ UNCHANGED ofFd
       ELSE unread > 0 /\ tot_exp' = tot_exp + unread /\ unread' = 0 /\ UNCHANGED line
    /\ UNCHANGED <<ofTimer, expired, ofSignal>>

\* timer_create.c, lines 108-142: the handler is there and the signal blocked
\* before the timer is started.
StartSignal ==
    /\ program = "timer_create"
    /\ \/ line = "start" /\ Goto("masked") /\ disposition' = "handler" /\ UNCHANGED blocked
       \/ line = "masked" /\ Goto("sleep") /\ blocked' = TRUE /\ UNCHANGED disposition
    /\ UNCHANGED <<ofTimer, expired, ofFd, pending, overrun, caught, discarded>>

\* Lines 153-155, and 157.
Unblock ==
    /\ program = "timer_create"
    /\ \/ line = "sleep" /\ Goto("unblocked") /\ blocked' = FALSE
       \/ line = "unblocked" /\ ~pending /\ Goto("exit") /\ UNCHANGED blocked
    /\ UNCHANGED <<ofTimer, expired, ofFd, disposition, pending, overrun, caught, discarded>>

\* Mutant: the overruns are not those of the signal that is being handled.
DeliverUncounted ==
    /\ line = "unblocked" /\ pending /\ disposition = "handler"
    /\ Goto("handler") /\ blocked' = TRUE /\ pending' = FALSE
    /\ caught' = Append(caught, 0) /\ overrun' = 0
    /\ UNCHANGED <<ofTimer, expired, ofFd, disposition, discarded>>

\* The handler is entered with the signal blocked (line 78) and asks for the
\* overruns (lines 61-76).
Deliver ==
    /\ line = "unblocked" /\ pending /\ disposition = "handler"
    /\ Goto("handler") /\ blocked' = TRUE /\ pending' = FALSE
    /\ caught' = Append(caught, overrun) /\ overrun' = 0
    /\ UNCHANGED <<ofTimer, expired, ofFd, disposition, discarded>>

\* signal(sig, SIG_IGN), line 88, which also discards what is pending.
IgnoreFromNowOn ==
    /\ line = "handler"
    /\ Goto("unblocked") /\ blocked' = FALSE
    /\ disposition' = "ignored" /\ pending' = FALSE /\ overrun' = 0
    /\ discarded' = IF pending THEN discarded + 1 + overrun ELSE discarded
    /\ UNCHANGED <<ofTimer, expired, ofFd, caught>>

TimersNext ==
    \/ Expire \/ StartFd \/ ReadFd \/ StartSignal \/ Unblock \/ Deliver
    \/ IgnoreFromNowOn

TimersSpec == TimersInit /\ [][TimersNext]_timerVars
-----------------------------------------------------------------------------
\* No expiration is lost or counted twice, however many fall between two reads:
\* the totals add up, and the program stops at max_exp or above.  The handler
\* runs at most once, when the signal is let through: the count it prints is that
\* of the other expirations that this signal stands for, and what comes later is
\* pending or, once the signal is ignored, discarded.
Signalled == IF pending THEN 1 + overrun ELSE 0
Handled == IF caught = <<>> THEN 0 ELSE 1 + caught[1]
ExpirationsAddUp ==
    IF program = "timefd_create"
      THEN tot_exp + unread = expired /\ (line = "exit" => tot_exp >= max_exp)
      ELSE /\ expired = Handled + Signalled + discarded
           /\ Len(caught) <= 1 /\ (caught = <<>> => discarded = 0)
           /\ line = "exit" => ~pending

(***************************************************************************)
(* The inductive invariant behind it.                                      *)
(***************************************************************************)
TimersTypeOK ==
    /\ program \in {"timefd_create", "timer_create"}
    /\ expired \in Nat /\ unread \in Nat /\ tot_exp \in Nat /\ max_exp \in Nat
    /\ pending \in BOOLEAN /\ overrun \in Nat /\ caught \in Seq(Nat) /\ discarded \in Nat

\* The descriptor's program has no handler; the other's signal is ignored once it
\* was caught, and is then never pending.
TimersIInv ==
    /\ TimersTypeOK /\ ExpirationsAddUp
    /\ program = "timefd_create" => line \in {"start", "loop", "exit"}
    /\ program = "timer_create" =>
         /\ line \in {"start", "masked", "sleep", "handler", "unblocked", "exit"}
         /\ line \in {"start", "masked", "sleep"} => caught = <<>>
         /\ line = "handler" => caught # <<>>
         /\ line = "unblocked" /\ disposition # "ignored" => caught = <<>>
         /\ ~pending => overrun = 0
         /\ disposition = "ignored" => ~pending /\ caught # <<>>
=============================================================================
