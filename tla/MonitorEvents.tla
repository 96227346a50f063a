--------------------------- MODULE MonitorEvents ---------------------------
(***************************************************************************)
(* Bot::monitor_events_async: the websocket session, the callbacks spawned *)
(* for its events, and the two scopes that are cleaned up when it ends.    *)
(*                                                                         *)
(* Every event read from the stream starts a task in the monitor's scope,  *)
(* which offers the event to the filter queue and, if no waiter takes it,  *)
(* runs the program's callback.  A callback may wait for another event     *)
(* with next_event_async; one that completes with done closes the stream,  *)
(* and so does a stop request.  When the stream has ended, the monitor's   *)
(* scope is asked to stop and joined, then the queue's scope.              *)
(*                                                                         *)
(* The filter queue appears by its interface (module FilterQueue): a set   *)
(* of waiting callbacks, cancel tasks, and a scope that belongs to the Bot *)
(* and outlives the monitor.  The stream is modelled as Beast and the      *)
(* scopes as unifex document them.                                         *)
(***************************************************************************)
EXTENDS Naturals

CONSTANTS
  Events,  \* the events the server sends
  Rounds,  \* bound: calls of monitor_events_async on this Bot, one at a time
  Stop,    \* the task that the stop callback spawns
  Nobody   \* no task

ASSUME MonitorAssumption ==
  /\ Rounds \in Nat
  /\ Stop \notin Events
  /\ Nobody \notin Events \cup {Stop}

Users == Events \cup {Stop}

VARIABLES
  round,     \* how many times monitor_events_async has been called
  pc,        \* where the latest call is
  stop,      \* whether stop has been requested of its token
  ws,        \* the state of the websocket
  closer,    \* the task whose close is performing the closing handshake
  delivered, \* whether the error that broke the stream has been delivered
  scope,     \* the monitor's async_scope
  qscope,    \* the queue's async_scope
  task,      \* the callback of each event, and the stop callback's close
  cancels,   \* callbacks with a cancel_task in the queue's scope
  fault      \* why the process stopped

streamVars == <<ws, closer, delivered>>
scopeVars  == <<scope, qscope>>
vars == <<round, pc, stop, streamVars, scopeVars, task, cancels, fault>>

Init ==
  /\ round = 0 /\ pc = "returned"
  /\ stop = FALSE
  /\ ws = "none" /\ closer = Nobody /\ delivered = FALSE
  /\ scope = "joined" /\ qscope = "open"
  /\ task = [u \in Users |-> "none"]
  /\ cancels = {}
  /\ fault = "none"

Running == fault = "none"
Goto(u, label) == task' = [task EXCEPT ![u] = label]

\* async_scope::spawn has no effect once the scope has been asked to stop.
spawn(u) == IF scope = "open" THEN Goto(u, "spawned") ELSE UNCHANGED task

(***************************************************************************)
(* The call: connect, register the stop callback, read.                    *)
(***************************************************************************)
Monitor ==
  /\ Running
  /\ pc = "returned" /\ round < Rounds
  /\ round' = round + 1
  /\ pc' = "connecting"
  /\ stop' = FALSE
  /\ ws' = "none" /\ closer' = Nobody /\ delivered' = FALSE
  /\ task' = [task EXCEPT ![Stop] = "none"]
  /\ UNCHANGED <<scopeVars, cancels, fault>>

\* Mutant: a stop request that came before is not looked at.
Mut_ConnectIgnoresStop ==
  /\ Running
  /\ pc = "connecting"
  /\ pc' = "reading"
  /\ ws' = "open"
  /\ scope' = "open"
  /\ UNCHANGED <<round, stop, closer, delivered, qscope, task, cancels, fault>>

\* A token that is already stopped runs the callback during registration.
Connect ==
  /\ Running
  /\ pc = "connecting"
  /\ pc' = "reading"
  /\ ws' = "open"
  /\ scope' = "open"
  /\ task' = IF stop THEN [task EXCEPT ![Stop] = "spawned"] ELSE task
  /\ UNCHANGED <<round, stop, closer, delivered, qscope, cancels, fault>>

\* connect_websocket_async throws out of the call.
ConnectFails ==
  /\ Running
  /\ pc = "connecting"
  /\ pc' = "returned"
  /\ UNCHANGED <<round, stop, streamVars, scopeVars, task, cancels, fault>>

RequestStop ==
  /\ Running
  /\ pc # "returned" /\ ~stop
  /\ stop' = TRUE
  /\ spawn(Stop)
  /\ UNCHANGED <<round, pc, streamVars, scopeVars, cancels, fault>>

\* A frame becomes an event; a malformed one only reaches exception_handler.
ReadEvent(e) ==
  /\ Running
  /\ pc = "reading" /\ ws \in {"open", "closing"}
  /\ task[e] = "none"
  /\ spawn(e)
  /\ UNCHANGED <<round, pc, stop, streamVars, scopeVars, cancels, fault>>

\* The error that broke the stream is thrown, handled, and the loop goes on.
ReadThrows ==
  /\ Running
  /\ pc = "reading" /\ ws = "failed" /\ ~delivered
  /\ delivered' = TRUE
  /\ UNCHANGED <<round, pc, stop, ws, closer, scopeVars, task, cancels, fault>>

\* Mutant: operation_canceled is thrown like any other error.
Mut_AbortThrows ==
  /\ Running
  /\ pc = "reading"
  /\ ws = "closed"
  /\ pc' = "finalizing"
  /\ UNCHANGED <<round, stop, streamVars, scopeVars, task, cancels, fault>>

\* closed or operation_canceled: read_async completes with done, and so does
\* the loop.
ReadDone ==
  /\ Running
  /\ pc = "reading"
  /\ ws = "closed" \/ (ws = "failed" /\ delivered)
  /\ pc' = "finalizing"
  /\ UNCHANGED <<round, stop, streamVars, scopeVars, task, cancels, fault>>

(***************************************************************************)
(* The stream.  A second close waits for the first and then fails, like    *)
(* any close of a stream that has ended.                                   *)
(***************************************************************************)
CloseHandshake ==
  /\ Running
  /\ ws = "closing"
  /\ ws' = "closed"
  /\ UNCHANGED <<round, pc, stop, closer, delivered, scopeVars, task, cancels, fault>>

PeerCloses ==
  /\ Running
  /\ ws = "open"
  /\ ws' = "closed"
  /\ UNCHANGED <<round, pc, stop, closer, delivered, scopeVars, task, cancels, fault>>

\* The error goes to the close in progress, or to the read.
Break ==
  /\ Running
  /\ ws \in {"open", "closing"}
  /\ ws' = "failed"
  /\ delivered' = (ws = "closing")
  /\ UNCHANGED <<round, pc, stop, closer, scopeVars, task, cancels, fault>>

Ended == ws \in {"closed", "failed"}
CloseOK(u)    == ws = "closed" /\ closer = u
CloseFails(u) == Ended /\ ~CloseOK(u)

\* Mutant: the close is awaited but its frame is never sent.
Mut_CloseNotSent(u) ==
  /\ Running
  /\ task[u] = "toclose"
  /\ Goto(u, "closing")
  /\ UNCHANGED <<round, pc, stop, streamVars, scopeVars, cancels, fault>>

\* close_async sends the close frame unless somebody has done so.
CloseAsync(u) ==
  /\ Running
  /\ task[u] = "toclose"
  /\ IF ws = "open"
       THEN ws' = "closing" /\ closer' = u
       ELSE UNCHANGED <<ws, closer>>
  /\ Goto(u, "closing")
  /\ UNCHANGED <<round, pc, stop, delivered, scopeVars, cancels, fault>>

(***************************************************************************)
(* The close spawned by the stop callback.  Nobody catches its exception:  *)
(* the scope calls std::terminate.                                         *)
(***************************************************************************)
StopStart ==
  /\ Running
  /\ task[Stop] = "spawned"
  /\ Goto(Stop, "toclose")
  /\ UNCHANGED <<round, pc, stop, streamVars, scopeVars, cancels, fault>>

StopClosed ==
  /\ Running
  /\ task[Stop] = "closing"
  /\ \/ CloseOK(Stop) /\ Goto(Stop, "finished") /\ UNCHANGED fault
     \/ CloseFails(Stop) /\ fault' = "terminate" /\ UNCHANGED task
  /\ UNCHANGED <<round, pc, stop, streamVars, scopeVars, cancels>>

(***************************************************************************)
(* The task of an event.                                                   *)
(***************************************************************************)
Waiting == {e \in Events : task[e] = "waiting"}

\* filter_event hands the event to a waiting call, which runs on with it ...
FilterTakes(e) ==
  /\ Running
  /\ task[e] = "spawned"
  /\ \E w \in Waiting : task' = [task EXCEPT ![e] = "finished", ![w] = "running"]
  /\ UNCHANGED <<round, pc, stop, streamVars, scopeVars, cancels, fault>>

\* ... or throws on behalf of the predicate of one ...
FilterThrows(e) ==
  /\ Running
  /\ task[e] = "spawned"
  /\ Waiting # {}
  /\ Goto(e, "finished")
  /\ UNCHANGED <<round, pc, stop, streamVars, scopeVars, cancels, fault>>

\* ... or leaves it to the callback.
CallbackStarts(e) ==
  /\ Running
  /\ task[e] = "spawned"
  /\ Goto(e, "running")
  /\ UNCHANGED <<round, pc, stop, streamVars, scopeVars, cancels, fault>>

\* The closure of the spawned coroutine is a temporary that is gone when the
\* coroutine starts: reading its captures may also stop the process.
CallbackDangles(e) ==
  /\ Running
  /\ task[e] = "spawned"
  /\ fault' = "dead_closure"
  /\ UNCHANGED <<round, pc, stop, streamVars, scopeVars, task, cancels>>

\* The callback returns, or throws into exception_handler.
CallbackEnds(e) ==
  /\ Running
  /\ task[e] = "running"
  /\ Goto(e, "finished")
  /\ UNCHANGED <<round, pc, stop, streamVars, scopeVars, cancels, fault>>

\* The callback completes with done: transform_done closes the stream.
CallbackDone(e) ==
  /\ Running
  /\ task[e] = "running"
  /\ Goto(e, "toclose")
  /\ UNCHANGED <<round, pc, stop, streamVars, scopeVars, cancels, fault>>

\* The callback calls next_event_async.  Its stop callback is registered
\* before the node knows its queue; a scope that has been asked to stop runs
\* it at once.
CallbackWaits(e) ==
  /\ Running
  /\ task[e] = "running"
  /\ \/ scope = "open" /\ Goto(e, "enrolling") /\ UNCHANGED fault
     \/ scope # "open" /\ fault' = "null_queue" /\ UNCHANGED task
  /\ UNCHANGED <<round, pc, stop, streamVars, scopeVars, cancels>>

Enroll(e) ==
  /\ Running
  /\ task[e] = "enrolling"
  /\ Goto(e, "waiting")
  /\ UNCHANGED <<round, pc, stop, streamVars, scopeVars, cancels, fault>>

\* The close succeeds, or its exception goes to exception_handler.
CallbackClosed(e) ==
  /\ Running
  /\ task[e] = "closing"
  /\ CloseOK(e) \/ CloseFails(e)
  /\ Goto(e, "finished")
  /\ UNCHANGED <<round, pc, stop, streamVars, scopeVars, cancels, fault>>

(***************************************************************************)
(* cancel_task: the call is still waiting and completes with done, or an   *)
(* event was faster.  Done ends the callback, unless the call had a        *)
(* deadline: timeout_as_optional turns done into an empty result.          *)
(***************************************************************************)
CancelTakes(e) ==
  /\ Running
  /\ e \in cancels /\ task[e] = "waiting"
  /\ cancels' = cancels \ {e}
  /\ \E label \in {"toclose", "running"} : Goto(e, label)
  /\ UNCHANGED <<round, pc, stop, streamVars, scopeVars, fault>>

CancelSkips(e) ==
  /\ Running
  /\ e \in cancels /\ task[e] # "waiting"
  /\ cancels' = cancels \ {e}
  /\ UNCHANGED <<round, pc, stop, streamVars, scopeVars, task, fault>>

(***************************************************************************)
(* finally: scope.cleanup(), then queue_.cleanup().                        *)
(***************************************************************************)
\* Mutants: every task of the scope is cancelled through the queue, also the
\* one that closes the stream; the queue's scope is cleaned up first.
Mut_CancelsEveryTask ==
  /\ Running
  /\ pc = "finalizing"
  /\ scope' = "closing"
  /\ pc' = "joining"
  /\ cancels' = {u \in Users : task[u] \notin {"none", "finished"}}
  /\ fault' = IF \E e \in Events : task[e] = "enrolling" THEN "null_queue" ELSE fault
  /\ UNCHANGED <<round, stop, streamVars, qscope, task>>

Mut_QueueFirst ==
  /\ Running
  /\ pc = "finalizing"
  /\ scope' = "closing"
  /\ qscope' = "closing"
  /\ pc' = "joining"
  /\ fault' = IF \E e \in Events : task[e] = "enrolling" THEN "null_queue" ELSE fault
  /\ UNCHANGED <<round, stop, streamVars, task, cancels>>

\* The stop request reaches every callback; one that waits spawns cancel_task
\* if the queue's scope still takes it.
ScopeCleanup ==
  /\ Running
  /\ pc = "finalizing"
  /\ scope' = "closing"
  /\ pc' = "joining"
  /\ cancels' = IF qscope = "open" THEN cancels \cup Waiting ELSE cancels
  /\ fault' = IF \E e \in Events : task[e] = "enrolling" THEN "null_queue" ELSE fault
  /\ UNCHANGED <<round, stop, streamVars, qscope, task>>

Idle(u) == task[u] \in {"none", "finished"}

\* Mutant: the close spawned by the stop callback is not joined.
Mut_JoinsOnlyCallbacks ==
  /\ Running
  /\ pc = "joining"
  /\ \A e \in Events : Idle(e)
  /\ scope' = "joined"
  /\ pc' = "scope_joined"
  /\ UNCHANGED <<round, stop, streamVars, qscope, task, cancels, fault>>

ScopeJoin ==
  /\ Running
  /\ pc = "joining"
  /\ \A u \in Users : Idle(u)
  /\ scope' = "joined"
  /\ pc' = "scope_joined"
  /\ UNCHANGED <<round, stop, streamVars, qscope, task, cancels, fault>>

QueueCleanup ==
  /\ Running
  /\ pc = "scope_joined"
  /\ qscope' = "closing"
  /\ pc' = "queue_joining"
  /\ UNCHANGED <<round, stop, streamVars, scope, task, cancels, fault>>

\* The call returns: with done if it was asked to stop.
QueueJoin ==
  /\ Running
  /\ pc = "queue_joining"
  /\ cancels = {}
  /\ qscope' = "joined"
  /\ pc' = "returned"
  /\ UNCHANGED <<round, stop, streamVars, scope, task, cancels, fault>>

(***************************************************************************)
(* Specification.  Fair: what the io_context runs, the server's answer to  *)
(* a close frame, and callbacks, which are assumed to end unless they wait.*)
(***************************************************************************)
Loop == Connect \/ ConnectFails \/ ReadThrows \/ ReadDone
Finally == ScopeCleanup \/ ScopeJoin \/ QueueCleanup \/ QueueJoin
StopTask == StopStart \/ CloseAsync(Stop) \/ StopClosed
Begin(e) == FilterTakes(e) \/ FilterThrows(e) \/ CallbackStarts(e)
Callback(e) ==
  \/ CallbackEnds(e) \/ CallbackDone(e) \/ CallbackWaits(e)
  \/ Enroll(e) \/ CloseAsync(e) \/ CallbackClosed(e)
CancelTask(e) == CancelTakes(e) \/ CancelSkips(e)

Next ==
  \/ Monitor \/ RequestStop \/ PeerCloses \/ Break \/ CloseHandshake
  \/ Loop \/ Finally \/ StopTask
  \/ \E e \in Events :
       ReadEvent(e) \/ Begin(e) \/ CallbackDangles(e) \/ Callback(e) \/ CancelTask(e)

Spec == Init /\ [][Next]_vars

Fairness ==
  /\ WF_vars(Loop) /\ WF_vars(Finally) /\ WF_vars(StopTask)
  /\ WF_vars(ws = "closing" /\ (CloseHandshake \/ Break))
  /\ \A e \in Events : WF_vars(Begin(e)) /\ WF_vars(Callback(e)) /\ WF_vars(CancelTask(e))

FairSpec == Spec /\ Fairness

-----------------------------------------------------------------------------
(***************************************************************************)
(* Properties.                                                             *)
(***************************************************************************)
TaskLabels ==
  {"none", "spawned", "running", "enrolling", "waiting", "toclose", "closing", "finished"}

\* The variables have their types, and only callbacks are ever cancelled.
TypeOK ==
  /\ round \in 0..Rounds
  /\ pc \in {"returned", "connecting", "reading", "finalizing", "joining",
             "scope_joined", "queue_joining"}
  /\ stop \in BOOLEAN
  /\ ws \in {"none", "open", "closing", "closed", "failed"}
  /\ closer \in Users \cup {Nobody}
  /\ delivered \in BOOLEAN
  /\ scope \in {"open", "closing", "joined"}
  /\ qscope \in {"open", "closing", "joined"}
  /\ task \in [Users -> TaskLabels]
  /\ cancels \subseteq Events
  /\ fault \in {"none", "terminate", "null_queue", "dead_closure"}

\* When the call has returned, which destroys the stream, the scope and the
\* references to the callback, no task that uses them is left.
NothingOutlivesMonitor ==
  pc = "returned" =>
    /\ scope = "joined"
    /\ cancels = {}
    /\ \A u \in Users : Idle(u)

\* The queue's scope outlives the callbacks of the first monitor: once they
\* have been asked to stop, whoever still waits has a cancel task on its way.
WaitersAreCancelled ==
  round = 1 /\ scope # "open" => Waiting \subseteq cancels

\* A stop request is not lost between the read loop and the close it needs,
\* also when it came before the stop callback was registered: while the call
\* reads from an open stream, the close that the request spawned is on its way.
StopClosesStream ==
  stop /\ pc = "reading" => ws # "open" \/ task[Stop] \in {"spawned", "toclose"}

\* Nobody waits for a closing handshake that nobody performs, however the stop
\* request, the done callbacks and the peer race to close the stream; whoever
\* performs it is there until it ends; and the cleanup, which waits for every
\* close, only begins when the stream has ended and each of them is answered.
ClosesAnswered ==
  /\ \A u \in Users : task[u] = "closing" => ws # "open"
  /\ ws = "closing" => closer \in Users /\ task[closer] = "closing"
  /\ scope = "closing" => Ended

\* Whoever ends the stream and however, the first monitor of a Bot returns: it
\* leaves the read loop, and every callback that waits is cancelled and joined.
EndedReturns == Ended ~> (pc = "returned" \/ ~Running)

\* A stop request ends the call, also one that comes while it connects.
StopReturns == stop ~> (pc = "returned" \/ ~Running)

\* bot.h, monitor_events_async: when the session is closed "an attempt is made
\* to cancel all callbacks in progress".  A callback that waits for an event
\* must not wait for ever on a session that has ended.
CallbacksCancelled ==
  \A e \in Events : (task[e] = "waiting" /\ Ended) ~> (task[e] # "waiting" \/ ~Running)
=============================================================================
