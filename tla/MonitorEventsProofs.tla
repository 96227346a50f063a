------------------------ MODULE MonitorEventsProofs ------------------------
(***************************************************************************)
(* Safety of monitor_events_async for any set of events and any number of  *)
(* calls.  What the call may rely on when it returns follows from where    *)
(* each scope is at each point of it, and from what can still be under way *)
(* in a scope that has been asked to stop.                                 *)
(***************************************************************************)
EXTENDS MonitorEvents, TLAPS

\* The monitor's scope exists from Connect to ScopeJoin.
ScopePhase ==
  /\ pc \in {"reading", "finalizing"} <=> scope = "open"
  /\ pc = "joining" <=> scope = "closing"

\* A scope that is joined has no tasks, and one that is closing accepts no new
\* waiters: a callback that was enrolling has met the stop request.
ScopeTasks ==
  /\ scope = "joined" => \A u \in Users : Idle(u)
  /\ scope = "closing" /\ Running => \A e \in Events : task[e] # "enrolling"

\* Cancel tasks are spawned by the cleanup only.
CancelPhase ==
  pc \in {"returned", "connecting", "reading", "finalizing"} => cancels = {}

\* Until the first call cleans the queue's scope up, that scope is open.
QueuePhase ==
  /\ round = 0 => pc = "returned" /\ qscope = "open"
  /\ round = 1 /\ pc \in {"connecting", "reading", "finalizing", "joining"} => qscope = "open"

MInv ==
  /\ TypeOK
  /\ ScopePhase
  /\ ScopeTasks
  /\ CancelPhase
  /\ QueuePhase
  /\ WaitersAreCancelled

LEMMA MInit == Init => MInv
<1> SUFFICES ASSUME Init PROVE MInv OBVIOUS
<1>1. TypeOK
  <2>1. stop \in BOOLEAN /\ delivered \in BOOLEAN BY Zenon DEF Init
  <2>2. task \in [Users -> TaskLabels] BY DEF Init, TaskLabels
  <2> QED BY <2>1, <2>2, MonitorAssumption DEF Init, TypeOK
<1>2. ScopePhase /\ ScopeTasks /\ CancelPhase
  BY DEF Init, ScopePhase, ScopeTasks, CancelPhase, Idle
<1>3. QueuePhase /\ WaitersAreCancelled
  BY DEF Init, QueuePhase, WaitersAreCancelled
<1> QED BY <1>1, <1>2, <1>3 DEF MInv

\* The call itself: connecting, reading and what happens to the stream.
LEMMA LoopSteps ==
  ASSUME MInv,
         \/ Monitor \/ RequestStop \/ PeerCloses \/ Break \/ CloseHandshake
         \/ Loop
  PROVE  MInv'
<1> USE MonitorAssumption DEF MInv, TypeOK, ScopePhase, ScopeTasks, CancelPhase, QueuePhase,
      Idle, Users, WaitersAreCancelled, Waiting, TaskLabels, Running,
      streamVars, scopeVars, spawn, Goto
<1>1. CASE Monitor
  <2>1. TypeOK'
    <3>1. stop' \in BOOLEAN /\ delivered' \in BOOLEAN BY <1>1, Zenon DEF Monitor
    <3>2. round' \in 0..Rounds BY <1>1 DEF Monitor
    <3> QED BY <1>1, <3>1, <3>2 DEF Monitor
  <2>2. ScopePhase' /\ CancelPhase' BY <1>1 DEF Monitor
  <2>3. ScopeTasks' BY <1>1 DEF Monitor
  <2>4. QueuePhase' BY <1>1 DEF Monitor
  <2>5. WaitersAreCancelled' BY <1>1 DEF Monitor
  <2> QED BY <2>1, <2>2, <2>3, <2>4, <2>5
<1>2. CASE RequestStop BY <1>2 DEF RequestStop
<1>3. CASE PeerCloses BY <1>3 DEF PeerCloses
<1>4. CASE Break BY <1>4 DEF Break
<1>5. CASE CloseHandshake BY <1>5 DEF CloseHandshake
<1>6. CASE Connect BY <1>6 DEF Connect
<1>7. CASE ConnectFails BY <1>7 DEF ConnectFails
<1>8. CASE ReadThrows BY <1>8 DEF ReadThrows
<1>9. CASE ReadDone BY <1>9 DEF ReadDone
<1> QED BY <1>1, <1>2, <1>3, <1>4, <1>5, <1>6, <1>7, <1>8, <1>9 DEF Loop

\* The cleanup of the two scopes.
LEMMA FinallySteps == ASSUME MInv, Finally PROVE MInv'
<1> USE MonitorAssumption DEF MInv, TypeOK, ScopePhase, ScopeTasks, CancelPhase, QueuePhase,
      Idle, Users, WaitersAreCancelled, Waiting, TaskLabels, Running,
      streamVars, scopeVars
<1>1. CASE ScopeCleanup BY <1>1 DEF ScopeCleanup
<1>2. CASE ScopeJoin BY <1>2 DEF ScopeJoin
<1>3. CASE QueueCleanup BY <1>3 DEF QueueCleanup
<1>4. CASE QueueJoin BY <1>4 DEF QueueJoin
<1> QED BY <1>1, <1>2, <1>3, <1>4 DEF Finally

\* The tasks of the monitor's scope that close the stream.
LEMMA CloseSteps ==
  ASSUME MInv, StopStart \/ StopClosed \/ (\E u \in Users : CloseAsync(u)) PROVE MInv'
<1> USE MonitorAssumption DEF MInv, TypeOK, ScopePhase, ScopeTasks, CancelPhase, QueuePhase,
      Idle, Users, WaitersAreCancelled, Waiting, TaskLabels, Running,
      streamVars, scopeVars, Goto
<1>1. CASE StopStart BY <1>1 DEF StopStart
<1>2. CASE StopClosed BY <1>2 DEF StopClosed, CloseOK, CloseFails, Ended
<1>3. ASSUME NEW u \in Users, CloseAsync(u) PROVE MInv' BY <1>3 DEF CloseAsync
<1> QED BY <1>1, <1>2, <1>3

\* The task of an event, from the spawn to its end.
LEMMA CallbackSteps ==
  ASSUME MInv, NEW e \in Events,
         \/ ReadEvent(e) \/ Begin(e) \/ CallbackDangles(e)
         \/ CallbackEnds(e) \/ CallbackDone(e) \/ CallbackWaits(e) \/ Enroll(e)
         \/ CallbackClosed(e) \/ CancelTask(e)
  PROVE  MInv'
<1> USE MonitorAssumption DEF MInv, TypeOK, ScopePhase, ScopeTasks, CancelPhase, QueuePhase,
      Idle, Users, WaitersAreCancelled, Waiting, TaskLabels, Running,
      streamVars, scopeVars, spawn, Goto
<1>1. CASE ReadEvent(e) BY <1>1 DEF ReadEvent
<1>2. CASE FilterTakes(e) BY <1>2 DEF FilterTakes
<1>3. CASE FilterThrows(e) BY <1>3 DEF FilterThrows
<1>4. CASE CallbackStarts(e) BY <1>4 DEF CallbackStarts
<1>5. CASE CallbackDangles(e) BY <1>5 DEF CallbackDangles
<1>6. CASE CallbackEnds(e) BY <1>6 DEF CallbackEnds
<1>7. CASE CallbackDone(e) BY <1>7 DEF CallbackDone
<1>8. CASE CallbackWaits(e) BY <1>8 DEF CallbackWaits
<1>9. CASE Enroll(e) BY <1>9 DEF Enroll
<1>10. CASE CallbackClosed(e) BY <1>10 DEF CallbackClosed
<1>11. CASE CancelTakes(e) BY <1>11 DEF CancelTakes
<1>12. CASE CancelSkips(e) BY <1>12 DEF CancelSkips
<1> QED
  BY <1>1, <1>2, <1>3, <1>4, <1>5, <1>6, <1>7, <1>8, <1>9, <1>10, <1>11, <1>12
  DEF Begin, CancelTask

LEMMA MStep == MInv /\ [Next]_vars => MInv'
<1> SUFFICES ASSUME MInv, [Next]_vars PROVE MInv' OBVIOUS
<1>1. CASE UNCHANGED vars
  BY <1>1 DEF vars, streamVars, scopeVars, MInv, TypeOK, ScopePhase, ScopeTasks, CancelPhase,
      QueuePhase, Idle, Users, WaitersAreCancelled, Waiting, Running
<1>2. CASE Next
  BY <1>2, LoopSteps, FinallySteps, CloseSteps, CallbackSteps
  DEF Next, StopTask, Callback, Users
<1> QED BY <1>1, <1>2

LEMMA MInvariant == Spec => []MInv
  BY MInit, MStep, PTL DEF Spec

\* The type invariant, for every set of events and number of calls.
THEOREM MonitorTypeCorrect == Spec => []TypeOK
<1>1. MInv => TypeOK BY DEF MInv
<1> QED BY <1>1, MInvariant, PTL

\* When monitor_events_async has returned no callback, close or cancel task
\* uses its stream, its scope or the program's callback.
THEOREM NothingOutlivesCorrect == Spec => []NothingOutlivesMonitor
<1>1. MInv => NothingOutlivesMonitor
  BY DEF MInv, TypeOK, NothingOutlivesMonitor, ScopePhase, ScopeTasks, CancelPhase
<1> QED BY <1>1, MInvariant, PTL

\* In the first call every callback that still waits when its scope has been
\* asked to stop has a cancel task.
THEOREM WaitersCorrect == Spec => []WaitersAreCancelled
<1>1. MInv => WaitersAreCancelled BY DEF MInv
<1> QED BY <1>1, MInvariant, PTL

-----------------------------------------------------------------------------
(***************************************************************************)
(* The closes.  Several tasks may close the stream, and the one that sends *)
(* the close frame performs the handshake for all.  That a stop request is *)
(* still on its way needs that the stop callback's task is spawned once,   *)
(* and never in a round in which no stop was requested (StopOnce).         *)
(***************************************************************************)
StopOnce == ~stop => task[Stop] = "none"

\* The read loop is left only when the stream has ended.
EndPhase == pc \in {"finalizing", "joining"} => Ended

CInv == StopOnce /\ EndPhase /\ StopClosesStream /\ ClosesAnswered

\* Steps that only move one task to a label: it had not sent the close frame.
LEMMA CloseFrame ==
  ASSUME MInv, CInv, NEW u \in Events, NEW label \in TaskLabels,
         task' = [task EXCEPT ![u] = label], label # "closing",
         task[u] # "closing" \/ Ended,
         UNCHANGED <<pc, stop, ws, closer, scope>>
  PROVE  CInv'
<1>1. u # Stop /\ u \in Users /\ Stop \in Users
  BY MonitorAssumption DEF Users
<1>2. task \in [Users -> TaskLabels] /\ ws \in {"none", "open", "closing", "closed", "failed"}
  BY DEF MInv, TypeOK
<1>3. task'[Stop] = task[Stop] /\ \A v \in Users : v # u => task'[v] = task[v]
  BY <1>1, <1>2
<1>4. StopOnce' /\ EndPhase' /\ StopClosesStream'
  BY <1>3 DEF CInv, StopOnce, EndPhase, StopClosesStream, Ended
<1>5. ClosesAnswered'
  BY <1>1, <1>2, <1>3 DEF CInv, ClosesAnswered, Ended
<1>6. QED
  BY <1>4, <1>5 DEF CInv

\* The call, the stream and the cleanup.
LEMMA CloseLoop ==
  ASSUME MInv, CInv,
         \/ Monitor \/ RequestStop \/ PeerCloses \/ Break \/ CloseHandshake
         \/ Loop \/ Finally
  PROVE  CInv'
<1> USE MonitorAssumption DEF CInv, StopOnce, EndPhase, StopClosesStream, ClosesAnswered, Ended,
      streamVars, scopeVars
<1>0. /\ task \in [Users -> TaskLabels] /\ Stop \in Users /\ stop \in BOOLEAN
      /\ ws \in {"none", "open", "closing", "closed", "failed"}
  BY DEF MInv, TypeOK, Users
<1>1. CASE Monitor
  <2>1. \A u \in Users : task'[u] # "closing"
    BY <1>0, <1>1 DEF Monitor, MInv, ScopePhase, ScopeTasks, Idle, TypeOK
  <2>2. scope' = "joined"
    BY <1>1 DEF Monitor, MInv, ScopePhase, TypeOK
  <2>3. QED
    BY <1>0, <1>1, <2>1, <2>2 DEF Monitor
<1>2. CASE RequestStop
  <2>1. /\ ~stop /\ UNCHANGED <<pc, ws, closer, scope>> /\ stop'
        /\ task[Stop] = "none"
    BY <1>0, <1>2 DEF RequestStop
  <2>2. /\ \A u \in Users : u # Stop => task'[u] = task[u]
        /\ task'[Stop] \in {"none", "spawned"}
        /\ scope = "open" => task'[Stop] = "spawned"
    BY <1>0, <1>2, <2>1 DEF RequestStop, spawn, Goto
  <2>3. pc = "reading" => scope = "open"
    BY DEF MInv, ScopePhase
  <2>4. StopOnce' /\ EndPhase' /\ StopClosesStream'
    BY <2>1, <2>2, <2>3
  <2>5. ClosesAnswered'
    BY <1>0, <2>1, <2>2
  <2>6. QED
    BY <2>4, <2>5
<1>3. CASE PeerCloses
  BY <1>0, <1>3 DEF PeerCloses
<1>4. CASE Break
  BY <1>0, <1>4 DEF Break
<1>5. CASE CloseHandshake
  BY <1>0, <1>5 DEF CloseHandshake
<1>6. CASE Connect
  <2>1. \A u \in Users : task[u] # "closing"
    BY <1>6 DEF Connect, MInv, ScopePhase, ScopeTasks, Idle, TypeOK
  <2>2. /\ \A u \in Users : task'[u] # "closing"
        /\ stop => task'[Stop] = "spawned"
        /\ ~stop => task' = task
    BY <1>0, <1>6, <2>1 DEF Connect
  <2>3. QED
    BY <1>6, <2>2 DEF Connect
<1>7. CASE ConnectFails
  BY <1>7 DEF ConnectFails
<1>8. CASE ReadThrows \/ ReadDone
  BY <1>8 DEF ReadThrows, ReadDone
<1>9. CASE Finally
  <2>1. UNCHANGED <<stop, task, ws, closer>>
    BY <1>9 DEF Finally, ScopeCleanup, ScopeJoin, QueueCleanup, QueueJoin
  <2>2. pc' # "reading"
    BY <1>9 DEF Finally, ScopeCleanup, ScopeJoin, QueueCleanup, QueueJoin
  <2>3. \/ pc \in {"finalizing", "joining"}
        \/ pc' \notin {"finalizing", "joining"} /\ scope' = scope
    BY <1>9 DEF Finally, ScopeCleanup, ScopeJoin, QueueCleanup, QueueJoin
  <2>4. QED
    BY <2>1, <2>2, <2>3
<1>10. QED
  BY <1>1, <1>2, <1>3, <1>4, <1>5, <1>6, <1>7, <1>8, <1>9 DEF Loop

\* The tasks that close: the first one that gets there sends the frame.
LEMMA CloseClosers ==
  ASSUME MInv, CInv, StopStart \/ StopClosed \/ (\E u \in Users : CloseAsync(u))
  PROVE  CInv'
<1> USE MonitorAssumption DEF CInv, StopOnce, EndPhase, StopClosesStream, ClosesAnswered, Ended,
      streamVars, scopeVars, Goto
<1>0. /\ task \in [Users -> TaskLabels] /\ Stop \in Users /\ stop \in BOOLEAN
      /\ ws \in {"none", "open", "closing", "closed", "failed"}
  BY DEF MInv, TypeOK, Users
<1>1. CASE StopStart
  BY <1>0, <1>1 DEF StopStart
<1>2. CASE StopClosed
  BY <1>0, <1>2 DEF StopClosed, CloseOK, CloseFails
<1>3. ASSUME NEW u \in Users, CloseAsync(u) PROVE CInv'
  <2>1. /\ task'[u] = "closing" /\ \A v \in Users : v # u => task'[v] = task[v]
        /\ task[u] = "toclose" /\ UNCHANGED <<pc, stop, scope>>
    BY <1>0, <1>3 DEF CloseAsync
  <2>2. \/ ws = "open" /\ ws' = "closing" /\ closer' = u
        \/ ws # "open" /\ UNCHANGED <<ws, closer>>
    BY <1>3 DEF CloseAsync
  <2>3. QED
    BY <1>0, <2>1, <2>2
<1>4. QED
  BY <1>1, <1>2, <1>3

\* The tasks of the events.
LEMMA CloseCallbacks ==
  ASSUME MInv, CInv, NEW e \in Events,
         \/ ReadEvent(e) \/ Begin(e) \/ CallbackDangles(e)
         \/ CallbackEnds(e) \/ CallbackDone(e) \/ CallbackWaits(e) \/ Enroll(e)
         \/ CallbackClosed(e) \/ CancelTask(e)
  PROVE  CInv'
<1>0. UNCHANGED <<pc, stop, ws, closer, scope>>
  BY DEF ReadEvent, Begin, FilterTakes, FilterThrows, CallbackStarts, CallbackDangles,
         CallbackEnds, CallbackDone, CallbackWaits, Enroll, CallbackClosed, CancelTask,
         CancelTakes, CancelSkips, streamVars, scopeVars
<1>1. CASE UNCHANGED task
  BY <1>0, <1>1 DEF CInv, StopOnce, EndPhase, StopClosesStream, ClosesAnswered, Ended
<1>2. ASSUME NEW label \in TaskLabels, label # "closing", Goto(e, label),
             task[e] # "closing" \/ Ended
      PROVE  CInv'
  BY <1>0, <1>2, CloseFrame DEF Goto
<1>3. CASE FilterTakes(e)
  <2>1. PICK w \in Waiting : task' = [task EXCEPT ![e] = "finished", ![w] = "running"]
    BY <1>3 DEF FilterTakes
  <2>2. /\ task \in [Users -> TaskLabels] /\ Stop \in Users /\ e \in Users /\ w \in Users
        /\ e # Stop /\ w # Stop /\ task[w] = "waiting" /\ task[e] = "spawned"
    BY <1>3, <2>1, MonitorAssumption DEF MInv, TypeOK, Users, Waiting, FilterTakes
  <2>3. /\ task'[Stop] = task[Stop]
        /\ \A u \in Users : task[u] = "closing" <=> task'[u] = "closing"
    BY <2>1, <2>2
  <2>4. StopOnce' /\ EndPhase' /\ StopClosesStream'
    BY <1>0, <2>3 DEF CInv, StopOnce, EndPhase, StopClosesStream, Ended
  <2>5. ClosesAnswered'
    BY <1>0, <2>3 DEF CInv, ClosesAnswered, Ended
  <2>6. QED
    BY <2>4, <2>5 DEF CInv
<1>4. CASE FilterThrows(e) \/ CallbackEnds(e)
  BY <1>2, <1>4 DEF FilterThrows, CallbackEnds, TaskLabels
<1>5. CASE CallbackClosed(e)
  <2>1. Ended /\ Goto(e, "finished")
    BY <1>5 DEF CallbackClosed, CloseOK, CloseFails, Ended
  <2>2. QED
    BY <1>2, <2>1 DEF TaskLabels
<1>6. CASE CallbackStarts(e) \/ CallbackDone(e) \/ Enroll(e) \/ CancelTakes(e)
  BY <1>2, <1>6 DEF CallbackStarts, CallbackDone, Enroll, CancelTakes, TaskLabels
<1>7. CASE ReadEvent(e)
  BY <1>1, <1>2, <1>7 DEF ReadEvent, spawn, TaskLabels
<1>8. CASE CallbackWaits(e)
  BY <1>1, <1>2, <1>8 DEF CallbackWaits, TaskLabels
<1>9. CASE CallbackDangles(e) \/ CancelSkips(e)
  BY <1>1, <1>9 DEF CallbackDangles, CancelSkips
<1>10. QED
  BY <1>3, <1>4, <1>5, <1>6, <1>7, <1>8, <1>9 DEF Begin, CancelTask

LEMMA CInvariant == Spec => []CInv
<1>1. Init => CInv
  BY DEF Init, CInv, StopOnce, EndPhase, StopClosesStream, ClosesAnswered, Ended, Users
<1>2. ASSUME MInv, CInv, [Next]_vars PROVE CInv'
  <2>1. CASE Next
    BY <1>2, <2>1, CloseLoop, CloseClosers, CloseCallbacks DEF Next, StopTask, Callback, Users
  <2>2. CASE UNCHANGED vars
    BY <1>2, <2>2
    DEF vars, streamVars, scopeVars, CInv, StopOnce, EndPhase, StopClosesStream, ClosesAnswered,
        Ended
  <2>3. QED
    BY <1>2, <2>1, <2>2
<1>3. QED
  BY <1>1, <1>2, MInvariant, PTL DEF Spec

\* A stop request that meets an open stream has a close on its way to it.
THEOREM StopClosesCorrect == Spec => []StopClosesStream
<1>1. CInv => StopClosesStream
  BY DEF CInv
<1>2. QED
  BY <1>1, CInvariant, PTL

\* Every close of the stream is performed by somebody who is there, and the
\* cleanup waits only for closes that have their answer.
THEOREM ClosesCorrect == Spec => []ClosesAnswered
<1>1. CInv => ClosesAnswered
  BY DEF CInv
<1>2. QED
  BY <1>1, CInvariant, PTL
=============================================================================
