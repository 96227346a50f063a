---------------------------- MODULE FilterQueue ----------------------------
(***************************************************************************)
(* The queue of event filters behind Bot::next_event_async.                *)
(*                                                                         *)
(* A call of next_event_async owns a node.  It registers a stop callback,  *)
(* takes the queue's asynchronous mutex, links its node at the tail and    *)
(* suspends.  Each incoming event runs filter_event, which walks the list  *)
(* under the mutex and hands the event to the first node whose predicate   *)
(* accepts it.  A stop request spawns cancel_task in the queue's scope;    *)
(* cancel_all unlinks everybody.  All of them run on the threads that call *)
(* Bot::run, so their steps interleave between any two suspension points.  *)
(*                                                                         *)
(* Undefined behaviour of the code is kept: a stop request that finds the  *)
(* node's queue_ pointer null stops the process, and a cancel_task that    *)
(* reads a destroyed node either sees the stale bytes or stops the process.*)
(***************************************************************************)
EXTENDS Naturals, Sequences

CONSTANTS
  Nodes,      \* calls of next_event_async, each with its own node
  Events,     \* events read from the websocket, one filter_event task each
  Sweepers,   \* callers of cancel_all
  Verdict,    \* what the predicate of a node does with an event
  Null        \* nullptr, and an optional that is empty

ASSUME ConstantAssumption ==
  /\ Null \notin Nodes
  /\ Null \notin Events
  /\ Verdict \in [Nodes -> [Events -> {"match", "miss", "throw"}]]

\* The tasks that compete for the mutex.
Wait(n)   == <<"wait", n>>
Cancel(n) == <<"cancel", n>>
Filter(e) == <<"filter", e>>
Sweep(s)  == <<"sweep", s>>
Tasks == ({"wait", "cancel"} \X Nodes) \cup ({"filter"} \X Events) \cup ({"sweep"} \X Sweepers)

VARIABLES
  head, tail,  \* head_ and tail_ of the queue
  prev, next,  \* prev_ and next_ of every node
  bound,       \* whether queue_ of the node's base class has been assigned
  active,      \* active_ of every node
  lockq,       \* the mutex: its owner, then those suspended in async_lock
  scope,       \* the async_scope that cancel tasks are spawned in
  stop,        \* whether stop has been requested of the call's stop token
  pc,          \* where each task is
  cursor,      \* ptr of every filter_event
  saved,       \* local variable next of every cancel_all
  posts,       \* resumptions posted to the io_context: <<node, optional event>>
  res,         \* res_ of every finished call
  fate,        \* what became of each event
  fault,       \* undefined behaviour that stopped the process
  arrival, arrivals  \* history: position in which a node was linked

listVars  == <<head, tail, prev, next>>
nodeVars  == <<bound, active, arrival, arrivals>>
taskVars  == <<cursor, saved>>
vars == <<listVars, nodeVars, taskVars, lockq, scope, stop, pc, posts, res, fate, fault>>

Init ==
  /\ head = Null /\ tail = Null
  /\ prev = [n \in Nodes |-> Null]
  /\ next = [n \in Nodes |-> Null]
  /\ bound = [n \in Nodes |-> FALSE]
  /\ active = [n \in Nodes |-> TRUE]
  /\ lockq = <<>>
  /\ scope = "open"
  /\ stop = [n \in Nodes |-> FALSE]
  /\ pc = [t \in Tasks |-> "idle"]
  /\ cursor = [e \in Events |-> Null]
  /\ saved = [s \in Sweepers |-> Null]
  /\ posts = {}
  /\ res = [n \in Nodes |-> Null]
  /\ fate = [e \in Events |-> "none"]
  /\ fault = "none"
  /\ arrival = [n \in Nodes |-> 0]
  /\ arrivals = 0

\* A fault has not stopped the process.
Running == fault = "none"

(***************************************************************************)
(* The mutex is handed over in first-in first-out order.                   *)
(***************************************************************************)
Owns(t) == lockq # <<>> /\ Head(lockq) = t

async_lock(t) == lockq' = Append(lockq, t)

unlock == lockq' = Tail(lockq)

Goto(t, label) == pc' = [pc EXCEPT ![t] = label]

(***************************************************************************)
(* List operations.                                                        *)
(***************************************************************************)
\* Mutant: the successor keeps its old prev_.
Mut_DequeueKeepsPrev(n) ==
  /\ head' = IF n = head THEN next[n] ELSE head
  /\ tail' = IF n = tail THEN prev[n] ELSE tail
  /\ next' = [m \in Nodes |-> IF m = prev[n] THEN next[n] ELSE next[m]]
  /\ prev' = prev

dequeue_with_lock(n) ==
  /\ head' = IF n = head THEN next[n] ELSE head
  /\ tail' = IF n = tail THEN prev[n] ELSE tail
  /\ next' = [m \in Nodes |-> IF m = prev[n] THEN next[n] ELSE next[m]]
  /\ prev' = [m \in Nodes |-> IF m = next[n] THEN prev[n] ELSE prev[m]]

enqueue_with_lock(n) ==
  /\ bound' = [bound EXCEPT ![n] = TRUE]
  /\ head' = IF head = Null THEN n ELSE head
  /\ prev' = IF tail = Null THEN prev ELSE [prev EXCEPT ![n] = tail]
  /\ next' = [m \in Nodes |-> IF m = tail THEN n ELSE next[m]]
  /\ tail' = n

\* Mutant: the event has been moved from before it is posted.
Mut_MovedFrom(n, ev) == posts' = posts \cup {<<n, "moved_from">>}

resume_on_scheduler_with(n, ev) == posts' = posts \cup {<<n, ev>>}

(***************************************************************************)
(* next_event_async: construct the node, register the stop callback, lock. *)
(* A token that is already stopped runs the callback during registration,  *)
(* before queue_ is assigned.                                              *)
(***************************************************************************)
NextEvent(n) ==
  /\ Running
  /\ pc[Wait(n)] = "idle"
  /\ ~stop[n]
  /\ async_lock(Wait(n))
  /\ Goto(Wait(n), "locking")
  /\ UNCHANGED <<listVars, nodeVars, taskVars, scope, stop, posts, res, fate, fault>>

NextEventStopped(n) ==
  /\ Running
  /\ pc[Wait(n)] = "idle"
  /\ stop[n]
  /\ fault' = "null_queue"
  /\ UNCHANGED <<listVars, nodeVars, taskVars, lockq, scope, stop, pc, posts, res, fate>>

\* The mutex is ours: link the node, unlock, suspend.
Enqueue(n) ==
  /\ Running
  /\ pc[Wait(n)] = "locking"
  /\ Owns(Wait(n))
  /\ enqueue_with_lock(n)
  /\ unlock
  /\ arrivals' = arrivals + 1
  /\ arrival' = [arrival EXCEPT ![n] = arrivals + 1]
  /\ Goto(Wait(n), "suspended")
  /\ UNCHANGED <<active, taskVars, scope, stop, posts, res, fate, fault>>

\* Mutant: a call that was asked to stop drops the event it is resumed with.
Mut_StopDropsEvent(n, ev) ==
  /\ pc[Wait(n)] = "suspended"
  /\ res' = [res EXCEPT ![n] = IF stop[n] THEN Null ELSE ev]

\* handle_.resume(): the call returns (an event, or done when it got none),
\* its frame and the node in it are destroyed.
resume_with(n, ev) ==
  /\ pc[Wait(n)] = "suspended"
  /\ res' = [res EXCEPT ![n] = ev]

\* A posted resumption runs.
Resume(n) ==
  /\ Running
  /\ \E p \in posts :
       /\ p[1] = n
       /\ resume_with(n, p[2])
       /\ posts' = posts \ {p}
  /\ Goto(Wait(n), "done")
  /\ UNCHANGED <<listVars, nodeVars, taskVars, lockq, scope, stop, fate, fault>>

(***************************************************************************)
(* Cancellation.  The stop callback is registered while the call is in     *)
(* progress; it spawns cancel_task unless the scope has been closed.       *)
(***************************************************************************)
Registered(n) == pc[Wait(n)] \in {"locking", "suspended"}

request_cancel(n) ==
  \/ /\ ~bound[n]
     /\ fault' = "null_queue"
     /\ UNCHANGED pc
  \/ /\ bound[n] /\ scope = "open"
     /\ Goto(Cancel(n), "spawned")
     /\ UNCHANGED fault
  \/ /\ bound[n] /\ scope # "open"
     /\ UNCHANGED <<pc, fault>>

RequestStop(n) ==
  /\ Running
  /\ ~stop[n]
  /\ stop' = [stop EXCEPT ![n] = TRUE]
  /\ IF Registered(n) THEN request_cancel(n) ELSE UNCHANGED <<pc, fault>>
  /\ UNCHANGED <<listVars, nodeVars, taskVars, lockq, scope, posts, res, fate>>

\* Mutant: try_lock instead of async_lock.
Mut_CancelTryLock(n) ==
  /\ Running
  /\ pc[Cancel(n)] = "spawned"
  /\ IF lockq = <<>>
       THEN async_lock(Cancel(n)) /\ Goto(Cancel(n), "locking")
       ELSE Goto(Cancel(n), "done") /\ UNCHANGED lockq
  /\ UNCHANGED <<listVars, nodeVars, taskVars, scope, stop, posts, res, fate, fault>>

CancelLock(n) ==
  /\ Running
  /\ pc[Cancel(n)] = "spawned"
  /\ async_lock(Cancel(n))
  /\ Goto(Cancel(n), "locking")
  /\ UNCHANGED <<listVars, nodeVars, taskVars, scope, stop, posts, res, fate, fault>>

\* Mutants: the node stays linked; the call is never resumed.
Mut_CancelKeepsLink(n) ==
  /\ Running
  /\ pc[Cancel(n)] = "locking"
  /\ Owns(Cancel(n))
  /\ active[n]
  /\ unlock
  /\ Goto(Cancel(n), "resuming")
  /\ UNCHANGED <<listVars, nodeVars, taskVars, scope, stop, posts, res, fate, fault>>

Mut_CancelNeverResumes(n) ==
  /\ Running
  /\ pc[Cancel(n)] = "locking"
  /\ Owns(Cancel(n))
  /\ active[n]
  /\ dequeue_with_lock(n)
  /\ unlock
  /\ Goto(Cancel(n), "done")
  /\ UNCHANGED <<nodeVars, taskVars, scope, stop, posts, res, fate, fault>>

\* Still active: unlink the node and unlock; the resumption comes after.
CancelTake(n) ==
  /\ Running
  /\ pc[Cancel(n)] = "locking"
  /\ Owns(Cancel(n))
  /\ active[n]
  /\ dequeue_with_lock(n)
  /\ unlock
  /\ Goto(Cancel(n), "resuming")
  /\ UNCHANGED <<nodeVars, taskVars, scope, stop, posts, res, fate, fault>>

\* Mutant: an early return that forgets the mutex.
Mut_SkipKeepsLock(n) ==
  /\ Running
  /\ pc[Cancel(n)] = "locking"
  /\ Owns(Cancel(n))
  /\ ~active[n]
  /\ Goto(Cancel(n), "done")
  /\ UNCHANGED <<listVars, nodeVars, taskVars, lockq, scope, stop, posts, res, fate, fault>>

CancelSkip(n) ==
  /\ Running
  /\ pc[Cancel(n)] = "locking"
  /\ Owns(Cancel(n))
  /\ ~active[n]
  /\ unlock
  /\ Goto(Cancel(n), "done")
  /\ UNCHANGED <<listVars, nodeVars, taskVars, scope, stop, posts, res, fate, fault>>

CancelResume(n) ==
  /\ Running
  /\ pc[Cancel(n)] = "resuming"
  /\ resume_with(n, Null)
  /\ pc' = [pc EXCEPT ![Cancel(n)] = "done", ![Wait(n)] = "done"]
  /\ UNCHANGED <<listVars, nodeVars, taskVars, lockq, scope, stop, posts, fate, fault>>

\* The task is about to read queue_ or active_ of a node whose call returned.
ReadsDead(n) ==
  /\ pc[Wait(n)] = "done"
  /\ \/ pc[Cancel(n)] = "spawned"
     \/ pc[Cancel(n)] = "locking" /\ Owns(Cancel(n))

CancelDead(n) ==
  /\ Running
  /\ ReadsDead(n)
  /\ fault' = "dead_node"
  /\ UNCHANGED <<listVars, nodeVars, taskVars, lockq, scope, stop, pc, posts, res, fate>>

(***************************************************************************)
(* filter_event.  The mutex is held from FilterLock to FilterReturn.       *)
(***************************************************************************)
FilterEvent(e) ==
  /\ Running
  /\ pc[Filter(e)] = "idle"
  /\ async_lock(Filter(e))
  /\ Goto(Filter(e), "locking")
  /\ UNCHANGED <<listVars, nodeVars, taskVars, scope, stop, posts, res, fate, fault>>

\* Mutants: async_lock is not awaited; the walk starts at the wrong end.
Mut_FilterUnlocked(e) ==
  /\ Running
  /\ pc[Filter(e)] = "locking"
  /\ cursor' = [cursor EXCEPT ![e] = head]
  /\ Goto(Filter(e), "scanning")
  /\ UNCHANGED <<listVars, nodeVars, saved, lockq, scope, stop, posts, res, fate, fault>>

Mut_FilterFromTail(e) ==
  /\ Running
  /\ pc[Filter(e)] = "locking"
  /\ Owns(Filter(e))
  /\ cursor' = [cursor EXCEPT ![e] = tail]
  /\ Goto(Filter(e), "scanning")
  /\ UNCHANGED <<listVars, nodeVars, saved, lockq, scope, stop, posts, res, fate, fault>>

FilterLock(e) ==
  /\ Running
  /\ pc[Filter(e)] = "locking"
  /\ Owns(Filter(e))
  /\ cursor' = [cursor EXCEPT ![e] = head]
  /\ Goto(Filter(e), "scanning")
  /\ UNCHANGED <<listVars, nodeVars, saved, lockq, scope, stop, posts, res, fate, fault>>

\* Mutant: active_ stays true after the match.
Mut_MatchStaysActive(e) ==
  /\ Running
  /\ pc[Filter(e)] = "scanning"
  /\ cursor[e] # Null
  /\ Verdict[cursor[e]][e] = "match"
  /\ dequeue_with_lock(cursor[e])
  /\ resume_on_scheduler_with(cursor[e], e)
  /\ fate' = [fate EXCEPT ![e] = "taken"]
  /\ Goto(Filter(e), "returning")
  /\ UNCHANGED <<nodeVars, taskVars, lockq, scope, stop, res, fault>>

FilterMatch(e) ==
  /\ Running
  /\ pc[Filter(e)] = "scanning"
  /\ cursor[e] # Null
  /\ Verdict[cursor[e]][e] = "match"
  /\ dequeue_with_lock(cursor[e])
  /\ active' = [active EXCEPT ![cursor[e]] = FALSE]
  /\ resume_on_scheduler_with(cursor[e], e)
  /\ fate' = [fate EXCEPT ![e] = "taken"]
  /\ Goto(Filter(e), "returning")
  /\ UNCHANGED <<bound, arrival, arrivals, taskVars, lockq, scope, stop, res, fault>>

FilterMiss(e) ==
  /\ Running
  /\ pc[Filter(e)] = "scanning"
  /\ cursor[e] # Null
  /\ Verdict[cursor[e]][e] = "miss"
  /\ cursor' = [cursor EXCEPT ![e] = next[cursor[e]]]
  /\ UNCHANGED <<listVars, nodeVars, saved, lockq, scope, stop, pc, posts, res, fate, fault>>

\* The predicate throws: the event goes to the exception handler only.
FilterThrow(e) ==
  /\ Running
  /\ pc[Filter(e)] = "scanning"
  /\ cursor[e] # Null
  /\ Verdict[cursor[e]][e] = "throw"
  /\ fate' = [fate EXCEPT ![e] = "thrown"]
  /\ Goto(Filter(e), "returning")
  /\ UNCHANGED <<listVars, nodeVars, taskVars, lockq, scope, stop, posts, res, fault>>

\* The end of the list: the event is left to the monitor's callback.
FilterPass(e) ==
  /\ Running
  /\ pc[Filter(e)] = "scanning"
  /\ cursor[e] = Null
  /\ fate' = [fate EXCEPT ![e] = "passed"]
  /\ Goto(Filter(e), "returning")
  /\ UNCHANGED <<listVars, nodeVars, taskVars, lockq, scope, stop, posts, res, fault>>

\* Mutant: no scope_exit guard, so an exception leaves the mutex locked.
Mut_ThrowKeepsLock(e) ==
  /\ Running
  /\ pc[Filter(e)] = "returning"
  /\ IF fate[e] = "thrown" THEN UNCHANGED lockq ELSE unlock
  /\ Goto(Filter(e), "done")
  /\ UNCHANGED <<listVars, nodeVars, taskVars, scope, stop, posts, res, fate, fault>>

\* The scope_exit guard unlocks on every way out.
FilterReturn(e) ==
  /\ Running
  /\ pc[Filter(e)] = "returning"
  /\ unlock
  /\ Goto(Filter(e), "done")
  /\ UNCHANGED <<listVars, nodeVars, taskVars, scope, stop, posts, res, fate, fault>>

(***************************************************************************)
(* cancel_all.  The node posted may be resumed, and destroyed, before      *)
(* head_ moves on: its next_ was saved before the post.                    *)
(***************************************************************************)
CancelAll(s) ==
  /\ Running
  /\ pc[Sweep(s)] = "idle"
  /\ async_lock(Sweep(s))
  /\ Goto(Sweep(s), "locking")
  /\ UNCHANGED <<listVars, nodeVars, taskVars, scope, stop, posts, res, fate, fault>>

SweepLock(s) ==
  /\ Running
  /\ pc[Sweep(s)] = "locking"
  /\ Owns(Sweep(s))
  /\ Goto(Sweep(s), "sweeping")
  /\ UNCHANGED <<listVars, nodeVars, taskVars, lockq, scope, stop, posts, res, fate, fault>>

SweepPost(s) ==
  /\ Running
  /\ pc[Sweep(s)] = "sweeping"
  /\ head # Null
  /\ saved' = [saved EXCEPT ![s] = next[head]]
  /\ active' = [active EXCEPT ![head] = FALSE]
  /\ resume_on_scheduler_with(head, Null)
  /\ Goto(Sweep(s), "advancing")
  /\ UNCHANGED <<listVars, bound, arrival, arrivals, cursor, lockq, scope, stop, res, fate, fault>>

SweepAdvance(s) ==
  /\ Running
  /\ pc[Sweep(s)] = "advancing"
  /\ head' = saved[s]
  /\ Goto(Sweep(s), "sweeping")
  /\ UNCHANGED <<tail, prev, next, nodeVars, taskVars, lockq, scope, stop, posts, res, fate, fault>>

SweepReturn(s) ==
  /\ Running
  /\ pc[Sweep(s)] = "sweeping"
  /\ head = Null
  /\ tail' = Null
  /\ unlock
  /\ Goto(Sweep(s), "done")
  /\ UNCHANGED <<head, prev, next, nodeVars, taskVars, scope, stop, posts, res, fate, fault>>

(***************************************************************************)
(* cleanup: close the scope, then wait for every cancel task.              *)
(***************************************************************************)
Cleanup ==
  /\ Running
  /\ scope = "open"
  /\ scope' = "closing"
  /\ UNCHANGED <<listVars, nodeVars, taskVars, lockq, stop, pc, posts, res, fate, fault>>

CleanupJoin ==
  /\ Running
  /\ scope = "closing"
  /\ \A n \in Nodes : pc[Cancel(n)] \in {"idle", "done"}
  /\ scope' = "joined"
  /\ UNCHANGED <<listVars, nodeVars, taskVars, lockq, stop, pc, posts, res, fate, fault>>

(***************************************************************************)
(* Specification.  The io_context runs every handler it has been given;    *)
(* calls, stop requests and events come from outside.                      *)
(***************************************************************************)
NodeStep(n) ==
  \/ Enqueue(n) \/ Resume(n)
  \/ CancelLock(n) \/ CancelTake(n) \/ CancelSkip(n) \/ CancelResume(n) \/ CancelDead(n)

EventStep(e) ==
  FilterLock(e) \/ FilterMatch(e) \/ FilterMiss(e) \/ FilterThrow(e) \/ FilterPass(e) \/ FilterReturn(e)

SweepStep(s) == SweepLock(s) \/ SweepPost(s) \/ SweepAdvance(s) \/ SweepReturn(s)

Environment ==
  \/ \E n \in Nodes : NextEvent(n) \/ NextEventStopped(n) \/ RequestStop(n)
  \/ \E e \in Events : FilterEvent(e)
  \/ \E s \in Sweepers : CancelAll(s)
  \/ Cleanup

Next ==
  \/ Environment
  \/ \E n \in Nodes : NodeStep(n)
  \/ \E e \in Events : EventStep(e)
  \/ \E s \in Sweepers : SweepStep(s)
  \/ CleanupJoin

Spec == Init /\ [][Next]_vars

Fairness ==
  /\ \A n \in Nodes :
       /\ WF_vars(Enqueue(n))
       /\ WF_vars(Resume(n))
       /\ WF_vars(CancelLock(n) \/ CancelTake(n) \/ CancelSkip(n) \/ CancelResume(n))
  /\ \A e \in Events : WF_vars(EventStep(e))
  /\ \A s \in Sweepers : WF_vars(SweepStep(s))
  /\ WF_vars(CleanupJoin)

FairSpec == Spec /\ Fairness

-----------------------------------------------------------------------------
(***************************************************************************)
(* Properties.                                                             *)
(***************************************************************************)
OptNode  == Nodes \cup {Null}
OptEvent == Events \cup {Null}
Labels   == {"idle", "locking", "suspended", "spawned", "resuming",
             "scanning", "returning", "sweeping", "advancing", "done"}

\* Every variable has its type; in particular the list never holds anything
\* but nodes, and a posted resumption names a node and an optional event.
TypeOK ==
  /\ head \in OptNode /\ tail \in OptNode
  /\ prev \in [Nodes -> OptNode]
  /\ next \in [Nodes -> OptNode]
  /\ bound \in [Nodes -> BOOLEAN]
  /\ active \in [Nodes -> BOOLEAN]
  /\ lockq \in Seq(Tasks)
  /\ scope \in {"open", "closing", "joined"}
  /\ stop \in [Nodes -> BOOLEAN]
  /\ pc \in [Tasks -> Labels]
  /\ cursor \in [Events -> OptNode]
  /\ saved \in [Sweepers -> OptNode]
  /\ posts \subseteq Nodes \X OptEvent
  /\ res \in [Nodes -> OptEvent]
  /\ fate \in [Events -> {"none", "taken", "passed", "thrown"}]
  /\ fault \in {"none", "null_queue", "dead_node"}
  /\ arrival \in [Nodes -> Nat]
  /\ arrivals \in Nat

\* The calls that are linked: suspended, and not yet picked by filter_event,
\* cancel_all (which clear active_) or cancel_task (which does not).
Waiting ==
  {n \in Nodes : pc[Wait(n)] = "suspended" /\ active[n] /\ pc[Cancel(n)] # "resuming"}

Scanning(e) == pc[Filter(e)] \in {"scanning", "returning"}
Sweeping(s) == pc[Sweep(s)] \in {"sweeping", "advancing"}

\* Whoever is between its async_lock and its unlock owns the mutex, so no two
\* tasks touch the list at once, and a task that waits for the mutex is
\* queued for it exactly once.
MutualExclusion ==
  /\ \A e \in Events : Scanning(e) => Owns(Filter(e))
  /\ \A s \in Sweepers : Sweeping(s) => Owns(Sweep(s))
  /\ \A i, j \in 1..Len(lockq) : lockq[i] = lockq[j] => i = j

\* Between two critical sections the doubly linked list is exactly the waiting
\* calls in the order in which they were linked: the links agree in both
\* directions, no waiting call is skipped and no other node is reachable.
ListIntact ==
  (\A s \in Sweepers : ~Sweeping(s)) =>
    /\ head # Null => head \in Waiting /\ prev[head] = Null
    /\ tail # Null => tail \in Waiting /\ next[tail] = Null
    /\ \A n \in Waiting :
         /\ prev[n] = Null => head = n
         /\ next[n] = Null => tail = n
         /\ prev[n] # Null => prev[n] \in Waiting /\ next[prev[n]] = n
         /\ next[n] # Null =>
              /\ next[n] \in Waiting
              /\ prev[next[n]] = n
              /\ arrival[n] < arrival[next[n]]
              /\ \A m \in Waiting : arrival[m] <= arrival[n] \/ arrival[next[n]] <= arrival[m]

\* A pointer that filter_event or cancel_all is about to follow leads to a call
\* that is still suspended, whatever was resumed meanwhile on other threads.
PointersLive ==
  /\ \A e \in Events : pc[Filter(e)] = "scanning" => cursor[e] \in Waiting \cup {Null}
  /\ \A s \in Sweepers :
       /\ pc[Sweep(s)] = "sweeping" => head \in Waiting \cup {Null}
       /\ pc[Sweep(s)] = "advancing" => saved[s] \in Waiting \cup {Null}

\* A suspended call is resumed at most once: filter_event, cancel_all and
\* cancel_task never both decide to call resume_with on the same handle.
SingleResume ==
  \A n \in Nodes :
    /\ \A p, q \in posts : p[1] = n /\ q[1] = n => p = q
    /\ (\E p \in posts : p[1] = n) =>
         pc[Wait(n)] = "suspended" /\ pc[Cancel(n)] # "resuming"
    /\ pc[Cancel(n)] = "resuming" => pc[Wait(n)] = "suspended"

\* head_ or the node before it points to the node.
Linked(n) == head = n \/ (prev[n] # Null /\ next[prev[n]] = n)

\* No wakeup is lost: between two critical sections a suspended call is linked
\* in the list, where events and cancellations find it, or whoever unlinked it
\* is about to resume it.
NoLostWakeup ==
  (\A s \in Sweepers : ~Sweeping(s)) =>
    \A n \in Nodes : pc[Wait(n)] = "suspended" =>
      Linked(n) \/ pc[Cancel(n)] = "resuming" \/ \E p \in posts : p[1] = n

\* A stop request is not lost while the queue takes cancel tasks: the call it
\* is for has left the list, or a cancel task is on its way to the mutex.
StopReachesWaiter ==
  \A n \in Waiting : stop[n] => scope # "open" \/ pc[Cancel(n)] \in {"spawned", "locking"}

\* The calls that have been, or are about to be, given event e.
Takers(e) == {n \in Nodes : <<n, e>> \in posts \/ (pc[Wait(n)] = "done" /\ res[n] = e)}

\* An event that filter_event takes out of the stream belongs to exactly one
\* call and is never lost to a cancellation; one it does not take is given to
\* nobody, so the callback and a waiter never see the same event.
EventConserved ==
  \A e \in Events :
    /\ fate[e] = "taken" => \E n \in Nodes : Takers(e) = {n}
    /\ fate[e] # "taken" => Takers(e) = {}

\* What the calls of next_event_async see, as a registry of waiters.
Registry == INSTANCE WaiterRegistry WITH
  Waiters   <- Nodes,
  waiting   <- Waiting,
  ticket    <- arrival,
  issued    <- arrivals,
  given     <- {p \in posts : p[2] # Null}
                 \cup {p \in Nodes \X Events : pc[Wait(p[1])] = "done" /\ res[p[1]] = p[2]},
  dismissed <- {n \in Nodes : \/ <<n, Null>> \in posts
                              \/ pc[Cancel(n)] = "resuming"
                              \/ pc[Wait(n)] = "done" /\ res[n] = Null},
  clearing  <- \E s \in Sweepers : pc[Sweep(s)] # "idle"

\* The linked list, its mutex and the posted resumptions implement the
\* registry: first waiter that matches, in order of arrival, atomically.
ImplementsRegistry == Registry!Spec

\* Once cancel_task has been spawned the call returns, with or without an
\* event, unless the process has stopped on a fault.
CancelCompletes ==
  \A n \in Nodes :
    pc[Cancel(n)] = "spawned" ~> (pc[Wait(n)] = "done" \/ ~Running)

\* Every filter_event gets the mutex and returns, and an event that was taken
\* reaches the call that matched it.
EventSettles ==
  \A e \in Events :
    pc[Filter(e)] = "locking" ~>
      \/ pc[Filter(e)] = "done" /\ fate[e] # "taken"
      \/ \E n \in Nodes : pc[Wait(n)] = "done" /\ res[n] = e
      \/ ~Running

\* cleanup of the queue's scope joins every cancel task.
CleanupJoins == scope = "closing" ~> (scope = "joined" \/ ~Running)

\* bot.h, monitor_events_async: callbacks in progress "will be attempted to be
\* cancelled".  A cancellation must not stop the process because the call that
\* is cancelled had not reached the queue yet.
CancelFindsQueue == fault # "null_queue"

\* filter_queue.cpp, cancel_task: the event loop may match the node "while we
\* are trying to acquire the lock".  The task that then reads active_ must
\* still find the node there.
CancelFindsNode == \A n \in Nodes : ~ReadsDead(n)
=============================================================================
