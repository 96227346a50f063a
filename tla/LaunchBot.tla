----------------------------- MODULE LaunchBot -----------------------------
(***************************************************************************)
(* launch_async_bot and the timed waits of the program it runs.            *)
(*                                                                         *)
(* launch_async_bot runs a program on the threads of one io_context until  *)
(* the io_context has no work left, then asks what is left of the program  *)
(* to stop and waits for it.  The program makes calls of three kinds:      *)
(*   "wait"   wait_async: a timer with its strand                          *)
(*   "event"  next_event_async without a deadline                          *)
(*   "timed"  next_event_async with a deadline: both, joined by stop_when  *)
(* A call's handlers run on its strand one after the other; a stop request *)
(* only posts a handler there, and an expired timer posts another.  The    *)
(* awaiter is destroyed when the handler of the timer runs, so a           *)
(* cancellation behind it finds the awaiter gone: undefined behaviour,     *)
(* which either goes unnoticed or stops the process.                       *)
(*                                                                         *)
(* The filter queue appears by what FilterQueue shows of it: a waiting     *)
(* call is taken by one event or by one cancel task.                       *)
(***************************************************************************)
EXTENDS Naturals, Sequences, FiniteSets

CONSTANTS
  Calls,        \* calls the program makes
  Kind,         \* the kind of each call
  Deadline,     \* the time each call waits for, if it has a timer
  MaxTime,      \* bound of the clock
  ThreadCount,  \* thread_count, at least one
  Null          \* no call

ASSUME LaunchAssumption ==
  /\ Kind \in [Calls -> {"wait", "event", "timed"}]
  /\ MaxTime \in Nat
  /\ Deadline \in [Calls -> 0 .. MaxTime]
  /\ IsFiniteSet(Calls)
  /\ ThreadCount \in Nat \ {0}
  /\ Null \notin Calls

VARIABLES
  phase,   \* where launch_async_bot is
  busy,    \* the program has handlers or I/O of its own outstanding
  now,     \* the clock
  src,     \* the wait for an event of every call
  tmr,     \* the WaitUntilAwaiter of every call
  strand,  \* handlers queued on strand_ of every awaiter
  tres,    \* how wait_async ended
  stop,    \* stop has been requested of the call's token
  parent,  \* ... by the program or by launch_async_bot
  early,   \* history: ... before the timer was started
  fault    \* the call whose destroyed awaiter stopped the process

callVars == <<src, tmr, strand, tres, stop, parent, early>>
vars == <<phase, busy, now, callVars, fault>>

Init ==
  /\ phase = "running"
  /\ busy = TRUE
  /\ now = 0
  /\ src = [c \in Calls |-> "none"]
  /\ tmr = [c \in Calls |-> "none"]
  /\ strand = [c \in Calls |-> <<>>]
  /\ tres = [c \in Calls |-> "none"]
  /\ stop = [c \in Calls |-> FALSE]
  /\ parent = [c \in Calls |-> FALSE]
  /\ early = [c \in Calls |-> FALSE]
  /\ fault = Null

HasTimer(c)  == Kind[c] \in {"wait", "timed"}
HasSource(c) == Kind[c] \in {"event", "timed"}
Started(c)   == src[c] # "none" \/ tmr[c] # "none"

\* A thread is in the middle of starting the timer of these calls.
Starting == {c \in Calls : tmr[c] \in {"starting", "registered"}}

\* Some thread is in run() and free to execute a handler.
ThreadFree ==
  /\ fault = Null
  /\ phase = "running"
  /\ Cardinality(Starting) < ThreadCount

SourceEnded(c) == src[c] \in {"event", "done"}

\* stop_when delivers the result of the first task once both have ended.
Returned(c) ==
  /\ Started(c)
  /\ HasSource(c) => SourceEnded(c)
  /\ HasTimer(c) => tmr[c] = "gone"

\* Mutant: the deadline decides, whatever next_event_async returned.
Mut_DeadlineWins(c) ==
  IF ~ HasSource(c) THEN tres[c]
  ELSE IF Kind[c] = "timed" /\ now >= Deadline[c] THEN "empty"
  ELSE src[c]

\* What a call returns: an event, no event, "elapsed" or "done" (cancelled).
timeout_as_optional(c) ==
  IF ~ HasSource(c) THEN tres[c]
  ELSE IF Kind[c] = "timed" /\ src[c] = "done" THEN "empty"
  ELSE src[c]

(***************************************************************************)
(* Stop requests: the callback of the timer posts a cancellation to the    *)
(* strand, the one of next_event_async spawns a cancel task.  Callbacks    *)
(* run once, for those calls of C that had not been asked before.          *)
(***************************************************************************)
\* Mutant: the cancellation is lost.
Mut_CancelForgotten(C) == strand

cancel(C) ==
  [c \in Calls |-> IF c \in C THEN Append(strand[c], "cancel") ELSE strand[c]]

Asked(C) == {c \in C : ~ stop[c]}

Registered == {c \in Calls : tmr[c] \in {"registered", "armed", "expired", "aborted"}}

request_stop(C) ==
  /\ stop' = [c \in Calls |-> stop[c] \/ c \in C]
  /\ strand' = cancel(Asked(C) \cap Registered)
  /\ early' = [c \in Calls |->
       early[c] \/ (c \in Asked(C) /\ tmr[c] \in {"none", "starting", "registered"})]

request_cancel(C) ==
  src' = [c \in Calls |-> IF c \in Asked(C) /\ src[c] = "waiting" THEN "cancelling" ELSE src[c]]

(***************************************************************************)
(* A call starts; its timer is started in three steps, between which other *)
(* threads run.                                                            *)
(***************************************************************************)
Call(c) ==
  /\ ThreadFree
  /\ busy
  /\ ~ Started(c)
  /\ src' = [src EXCEPT ![c] = IF HasSource(c) THEN "waiting" ELSE "none"]
  /\ tmr' = [tmr EXCEPT ![c] = IF HasTimer(c) THEN "starting" ELSE "none"]
  /\ UNCHANGED <<phase, busy, now, strand, tres, stop, parent, early, fault>>

\* make_stop_callback runs the callback at once if stop was requested.
Register(c) ==
  /\ fault = Null
  /\ tmr[c] = "starting"
  /\ tmr' = [tmr EXCEPT ![c] = "registered"]
  /\ strand' = IF stop[c] THEN cancel({c}) ELSE strand
  /\ UNCHANGED <<phase, busy, now, src, tres, stop, parent, early, fault>>

\* Mutant: await_ready skips the wait if stop was requested.
Mut_SkipsIfStopped(c) ==
  /\ fault = Null
  /\ tmr[c] = "registered"
  /\ tmr' = [tmr EXCEPT ![c] = IF stop[c] THEN "gone" ELSE "armed"]
  /\ tres' = IF stop[c] THEN [tres EXCEPT ![c] = "done"] ELSE tres
  /\ UNCHANGED <<phase, busy, now, src, strand, stop, parent, early, fault>>

await_suspend(c) ==
  /\ fault = Null
  /\ tmr[c] = "registered"
  /\ tmr' = [tmr EXCEPT ![c] = "armed"]
  /\ UNCHANGED <<phase, busy, now, src, strand, tres, stop, parent, early, fault>>

Tick ==
  /\ now < MaxTime
  /\ now' = now + 1
  /\ UNCHANGED <<phase, busy, callVars, fault>>

Expire(c) ==
  /\ ThreadFree
  /\ tmr[c] = "armed"
  /\ now >= Deadline[c]
  /\ tmr' = [tmr EXCEPT ![c] = "expired"]
  /\ strand' = [strand EXCEPT ![c] = Append(@, "handler")]
  /\ UNCHANGED <<phase, busy, now, src, tres, stop, parent, early, fault>>

(***************************************************************************)
(* The strand.                                                             *)
(***************************************************************************)
NextOnStrand(c, h) == ThreadFree /\ strand[c] # <<>> /\ Head(strand[c]) = h

\* timer_.cancel() completes a pending wait with operation_aborted.
RunCancel(c) ==
  /\ NextOnStrand(c, "cancel")
  /\ tmr[c] # "gone"
  /\ tmr' = [tmr EXCEPT ![c] = IF @ = "armed" THEN "aborted" ELSE @]
  /\ strand' = [strand EXCEPT
       ![c] = IF tmr[c] = "armed" THEN Append(Tail(@), "handler") ELSE Tail(@)]
  /\ UNCHANGED <<phase, busy, now, src, tres, stop, parent, early, fault>>

\* The same handler when the awaiter has been destroyed.
RunDeadCancel(c) ==
  /\ NextOnStrand(c, "cancel")
  /\ tmr[c] = "gone"
  /\ strand' = [strand EXCEPT ![c] = Tail(@)]
  /\ fault' \in {Null, c}
  /\ UNCHANGED <<phase, busy, now, src, tmr, tres, stop, parent, early>>

\* Mutant: wait_async forgets to ask whether stop was requested.
Mut_NoStopCheck(c) == "elapsed"

\* Mutant: wait_async reports operation_aborted.
Mut_ReportsAbort(c) == IF tmr[c] = "aborted" THEN "aborted" ELSE "elapsed"

\* How wait_async ends: operation_aborted is no error, and then
\* stop_if_requested turns the end into a cancellation.
wait_async(c) == IF stop[c] THEN "done" ELSE "elapsed"

\* The handler of async_wait resumes wait_async, which runs to its end and
\* destroys the callback and the awaiter.  stop_when then stops the other task.
RunHandler(c) ==
  /\ NextOnStrand(c, "handler")
  /\ tmr' = [tmr EXCEPT ![c] = "gone"]
  /\ tres' = [tres EXCEPT ![c] = wait_async(c)]
  /\ strand' = [strand EXCEPT ![c] = Tail(@)]
  /\ IF Kind[c] = "timed"
     THEN stop' = [stop EXCEPT ![c] = TRUE] /\ request_cancel({c})
     ELSE UNCHANGED <<stop, src>>
  /\ UNCHANGED <<phase, busy, now, parent, early, fault>>

(***************************************************************************)
(* The wait for an event.                                                  *)
(***************************************************************************)
\* filter_event of a running monitor takes the call, cancelled or not.
EventArrives(c) ==
  /\ ThreadFree
  /\ busy
  /\ src[c] \in {"waiting", "cancelling"}
  /\ src' = [src EXCEPT ![c] = "posted"]
  /\ UNCHANGED <<phase, busy, now, tmr, strand, tres, stop, parent, early, fault>>

\* The posted resumption or the cancel task runs; stop_when stops the timer.
EndSource(c) ==
  /\ ThreadFree
  /\ src[c] \in {"posted", "cancelling"}
  /\ src' = [src EXCEPT ![c] = IF @ = "posted" THEN "event" ELSE "done"]
  /\ IF Kind[c] = "timed" THEN request_stop({c}) ELSE UNCHANGED <<stop, strand, early>>
  /\ UNCHANGED <<phase, busy, now, tmr, tres, parent, fault>>

(***************************************************************************)
(* The program and launch_async_bot.                                       *)
(***************************************************************************)
RequestStop(c) ==
  /\ ThreadFree
  /\ Started(c)
  /\ ~ Returned(c)
  /\ ~ parent[c]
  /\ parent' = [parent EXCEPT ![c] = TRUE]
  /\ request_stop({c})
  /\ request_cancel({c})
  /\ UNCHANGED <<phase, busy, now, tmr, tres, fault>>

ProgramIdles ==
  /\ ThreadFree
  /\ busy
  /\ busy' = FALSE
  /\ UNCHANGED <<phase, now, callVars, fault>>

\* Mutant: a pending timer does not keep run() going.
Mut_TimersNoWork ==
  \/ busy
  \/ Starting # {}
  \/ \E c \in Calls : strand[c] # <<>> \/ src[c] \in {"posted", "cancelling"}

\* What keeps io_context::run from returning: handlers and pending timers,
\* not a call that waits for an event.
HasWork ==
  \/ busy
  \/ Starting # {}
  \/ \E c \in Calls : strand[c] # <<>> \/ tmr[c] = "armed" \/ src[c] \in {"posted", "cancelling"}

\* bot.run() has returned; scope.cleanup() requests stop on this thread.
RunReturns ==
  /\ fault = Null
  /\ phase = "running"
  /\ ~ HasWork
  /\ phase' = "cleanup"
  /\ LET C == {c \in Calls : Started(c) /\ ~ Returned(c)}
     IN /\ parent' = [c \in Calls |-> parent[c] \/ c \in C]
        /\ request_stop(C)
        /\ request_cancel(C)
  /\ UNCHANGED <<busy, now, tmr, tres, fault>>

LaunchReturn ==
  /\ fault = Null
  /\ phase = "cleanup"
  /\ \A c \in Calls : Started(c) => Returned(c)
  /\ phase' = "returned"
  /\ UNCHANGED <<busy, now, callVars, fault>>

Step(c) ==
  \/ Register(c) \/ await_suspend(c)
  \/ Expire(c) \/ RunCancel(c) \/ RunDeadCancel(c) \/ RunHandler(c)
  \/ EndSource(c)

Next ==
  \/ \E c \in Calls : Call(c) \/ Step(c) \/ EventArrives(c) \/ RequestStop(c)
  \/ Tick \/ ProgramIdles \/ RunReturns \/ LaunchReturn

\* Time passes, and the threads in run() execute what is ready.
Fairness ==
  /\ WF_vars(Tick) /\ WF_vars(RunReturns) /\ WF_vars(LaunchReturn)
  /\ \A c \in Calls : WF_vars(Step(c))

Spec == Init /\ [][Next]_vars /\ Fairness

-----------------------------------------------------------------------------
(***************************************************************************)
(* Properties                                                              *)
(***************************************************************************)
\* Every variable has its type.
TypeOK ==
  /\ phase \in {"running", "cleanup", "returned"}
  /\ busy \in BOOLEAN
  /\ now \in 0 .. MaxTime
  /\ src \in [Calls -> {"none", "waiting", "cancelling", "posted", "event", "done"}]
  /\ tmr \in [Calls -> {"none", "starting", "registered", "armed", "expired", "aborted", "gone"}]
  /\ strand \in [Calls -> Seq({"cancel", "handler"})]
  /\ tres \in [Calls -> {"none", "elapsed", "done"}]
  /\ stop \in [Calls -> BOOLEAN]
  /\ parent \in [Calls -> BOOLEAN]
  /\ early \in [Calls -> BOOLEAN]
  /\ fault \in Calls \cup {Null}

\* No wait ends early: wait_async only reports that the time has come when it
\* has, and next_event_async only gives up on its event when its deadline is
\* past or its caller asked it to stop.
NoEarlyReturn ==
  \A c \in Calls : Returned(c) =>
    /\ timeout_as_optional(c) = "elapsed" => now >= Deadline[c]
    /\ timeout_as_optional(c) = "empty" => now >= Deadline[c] \/ parent[c]

\* WaitUntilAwaiter::cancel reaches a destroyed awaiter only in one race: the
\* timer expired by itself while the stop request was under way.
DeadCancelOnlyAfterExpiry ==
  \A c \in Calls :
    tmr[c] = "gone" /\ strand[c] # <<>> => now >= Deadline[c] /\ stop[c]

\* A stop request that comes once the timer runs is not lost: until the timer
\* is cancelled the cancellation is on its strand.  (One that comes earlier
\* finds no pending wait to cancel.)
StopReachesTimer ==
  \A c \in Calls :
    tmr[c] = "armed" /\ stop[c] /\ ~ early[c] =>
      \E i \in DOMAIN strand[c] : strand[c][i] = "cancel"

\* When bot.run() has returned, every timer and every handler of the program is
\* through, and all that scope.cleanup() can wait for is a next_event_async
\* without a deadline: one with a deadline never outlives its own timer, also
\* when a stop request was there first.
OnlyEventWaitsLeft ==
  phase # "running" =>
    \A c \in Calls : Started(c) /\ ~ Returned(c) => Kind[c] = "event" /\ src[c] = "cancelling"

\* An event that the filter queue gave to a call is what the call returns,
\* however the deadline and stop requests race it: nobody else will see it.
EventReturned ==
  \A c \in Calls :
    src[c] = "posted" ~> \/ Returned(c) /\ timeout_as_optional(c) = "event"
                         \/ fault # Null

\* launch_async_bot returns after the program has nothing more to do, unless a
\* call without a deadline is left waiting for an event: its cancel task is
\* posted to an io_context that nobody runs any more.
LaunchReturns ==
  ~ busy ~> \/ phase = "returned"
            \/ fault # Null
            \/ phase = "cleanup" /\ \E c \in Calls : Kind[c] = "event" /\ src[c] = "cancelling"
=============================================================================
