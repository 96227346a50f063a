------------------------- MODULE FilterQueueProofs -------------------------
(***************************************************************************)
(* Proofs about FilterQueue, for every set of calls, events and sweepers   *)
(* and every table of verdicts.                                            *)
(***************************************************************************)
EXTENDS FilterQueue, TLAPS

LEMMA TaskMembership ==
  /\ \A n \in Nodes : Wait(n) \in Tasks /\ Cancel(n) \in Tasks
  /\ \A e \in Events : Filter(e) \in Tasks
  /\ \A s \in Sweepers : Sweep(s) \in Tasks
BY DEF Tasks, Wait, Cancel, Filter, Sweep

LEMMA TaskDistinct ==
  /\ \A m, n : Wait(m) # Cancel(n) /\ Wait(m) # Filter(n) /\ Wait(m) # Sweep(n)
  /\ \A m, n : Cancel(m) # Filter(n) /\ Cancel(m) # Sweep(n) /\ Filter(m) # Sweep(n)
  /\ \A m, n : m # n => /\ Wait(m) # Wait(n) /\ Cancel(m) # Cancel(n)
                       /\ Filter(m) # Filter(n) /\ Sweep(m) # Sweep(n)
BY DEF Wait, Cancel, Filter, Sweep

(***************************************************************************)
(* The mutex.  Releasing it is only meaningful for the task that owns it,  *)
(* so types and the discipline of the mutex are proved together.           *)
(***************************************************************************)
Critical == {"scanning", "returning", "sweeping", "advancing"}
InLock(t) == \E i \in 1..Len(lockq) : lockq[i] = t

LockInv ==
  /\ \A t \in Tasks : InLock(t) <=> pc[t] \in Critical \cup {"locking"}
  /\ \A i, j \in 1..Len(lockq) : lockq[i] = lockq[j] => i = j
  /\ \A t \in Tasks : pc[t] \in Critical => Owns(t)

\* cancel_task runs only after a stop request, hence at most once per call.
StopInv == \A n \in Nodes : pc[Cancel(n)] # "idle" => stop[n]

\* A task that calls async_lock joins the queue of the mutex once.
LEMMA LockAppend ==
  ASSUME TypeOK, LockInv, NEW t \in Tasks, pc[t] \notin Critical \cup {"locking"},
         async_lock(t), Goto(t, "locking")
  PROVE  LockInv'
<1> DEFINE k == Len(lockq)
<1>1. lockq \in Seq(Tasks) /\ pc \in [Tasks -> Labels] /\ k \in Nat
  BY DEF TypeOK
<1>2. /\ Len(lockq') = k + 1
      /\ \A i \in 1..k : lockq'[i] = lockq[i]
      /\ lockq'[k + 1] = t
  BY <1>1 DEF async_lock
<1>3. pc' = [pc EXCEPT ![t] = "locking"]
  BY DEF Goto
<1>4. ~InLock(t)
  BY DEF LockInv
<1>5. \A u \in Tasks : InLock(u)' <=> InLock(u) \/ u = t
  BY <1>1, <1>2 DEF InLock
<1>6. \A u \in Tasks : InLock(u)' <=> pc'[u] \in Critical \cup {"locking"}
  BY <1>1, <1>3, <1>5 DEF LockInv
<1>7. \A i, j \in 1..Len(lockq') : lockq'[i] = lockq'[j] => i = j
  BY <1>1, <1>2, <1>4 DEF LockInv, InLock
<1>8. ASSUME NEW u \in Tasks, pc'[u] \in Critical PROVE Owns(u)'
  <2>1. Owns(u)
    BY <1>1, <1>3, <1>8 DEF LockInv, Critical
  <2>2. QED
    BY <1>1, <1>2, <2>1 DEF Owns
<1>9. QED
  BY <1>6, <1>7, <1>8 DEF LockInv

\* The owner leaves; the others keep their places.
LEMMA LockRelease ==
  ASSUME TypeOK, LockInv, NEW t \in Tasks, Owns(t), unlock,
         NEW label, label \notin Critical \cup {"locking"}, Goto(t, label)
  PROVE  LockInv'
<1> DEFINE k == Len(lockq)
<1>1. lockq \in Seq(Tasks) /\ k \in Nat \ {0} /\ lockq[1] = t
  BY DEF TypeOK, Owns
<1>1a. pc \in [Tasks -> Labels]
  BY DEF TypeOK
<1>2. /\ Len(lockq') = k - 1
      /\ \A i \in 1..(k - 1) : lockq'[i] = lockq[i + 1]
  BY <1>1 DEF unlock
<1>3. pc' = [pc EXCEPT ![t] = label]
  BY DEF Goto
<1>4. ASSUME NEW u \in Tasks PROVE InLock(u)' <=> InLock(u) /\ u # t
  <2>1. InLock(u)' => InLock(u) /\ u # t
    BY <1>1, <1>2 DEF InLock, LockInv
  <2>2. ASSUME InLock(u), u # t PROVE InLock(u)'
    <3>1. PICK i \in 1..k : lockq[i] = u
      BY <2>2 DEF InLock
    <3>2. i - 1 \in 1..(k - 1) /\ lockq'[i - 1] = u
      BY <1>1, <1>2, <2>2, <3>1
    <3>3. QED
      BY <1>2, <3>2 DEF InLock
  <2>3. QED
    BY <2>1, <2>2
<1>5. \A u \in Tasks : InLock(u)' <=> pc'[u] \in Critical \cup {"locking"}
  BY <1>1a, <1>3, <1>4 DEF LockInv
<1>6. \A i, j \in 1..Len(lockq') : lockq'[i] = lockq'[j] => i = j
  BY <1>1, <1>2 DEF LockInv
<1>7. \A u \in Tasks : pc'[u] \notin Critical
  BY <1>1, <1>1a, <1>3 DEF LockInv, Owns
<1>8. QED
  BY <1>5, <1>6, <1>7 DEF LockInv

\* Steps that leave the mutex alone: a task is in the same relation to it
\* before and after, or is the owner entering its critical section.
LEMMA LockStays ==
  ASSUME TypeOK, LockInv, lockq' = lockq,
         \A u \in Tasks :
           \/ pc'[u] = pc[u]
           \/ pc[u] \notin Critical \cup {"locking"} /\ pc'[u] \notin Critical \cup {"locking"}
           \/ pc[u] \in Critical \cup {"locking"} /\ pc'[u] \in Critical /\ Owns(u)
  PROVE  LockInv'
BY DEF LockInv, InLock, Owns

\* Every step of the queue keeps the type invariant.
LEMMA TypeStep == TypeOK /\ LockInv /\ [Next]_vars => TypeOK'
<1> SUFFICES ASSUME TypeOK, LockInv, [Next]_vars PROVE TypeOK'
  OBVIOUS
<1> USE TaskMembership DEF OptNode, OptEvent, Labels
<1>1. ASSUME NEW n \in Nodes, NextEvent(n) PROVE TypeOK'
  BY <1>1 DEF TypeOK, NextEvent, async_lock, Goto, listVars, nodeVars, taskVars
<1>2. ASSUME NEW n \in Nodes, NextEventStopped(n) PROVE TypeOK'
  BY <1>2 DEF TypeOK, NextEventStopped, listVars, nodeVars, taskVars
<1>3. ASSUME NEW n \in Nodes, RequestStop(n) PROVE TypeOK'
  BY <1>3 DEF TypeOK, RequestStop, request_cancel, Goto, listVars, nodeVars, taskVars
<1>4. ASSUME NEW e \in Events, FilterEvent(e) PROVE TypeOK'
  BY <1>4 DEF TypeOK, FilterEvent, async_lock, Goto, listVars, nodeVars, taskVars
<1>5. ASSUME NEW s \in Sweepers, CancelAll(s) PROVE TypeOK'
  BY <1>5 DEF TypeOK, CancelAll, async_lock, Goto, listVars, nodeVars, taskVars
<1>6. CASE Cleanup
  BY <1>6 DEF TypeOK, Cleanup, listVars, nodeVars, taskVars
<1>7. ASSUME NEW n \in Nodes, Enqueue(n) PROVE TypeOK'
  BY <1>7 DEF TypeOK, Enqueue, enqueue_with_lock, unlock, Owns, Goto, taskVars
<1>8. ASSUME NEW n \in Nodes, Resume(n) PROVE TypeOK'
  BY <1>8 DEF TypeOK, Resume, resume_with, Goto, listVars, nodeVars, taskVars
<1>9. ASSUME NEW n \in Nodes, CancelLock(n) PROVE TypeOK'
  BY <1>9 DEF TypeOK, CancelLock, async_lock, Goto, listVars, nodeVars, taskVars
<1>10. ASSUME NEW n \in Nodes, CancelTake(n) PROVE TypeOK'
  BY <1>10 DEF TypeOK, CancelTake, dequeue_with_lock, unlock, Owns, Goto, nodeVars, taskVars
<1>11. ASSUME NEW n \in Nodes, CancelSkip(n) PROVE TypeOK'
  BY <1>11 DEF TypeOK, CancelSkip, unlock, Owns, Goto, listVars, nodeVars, taskVars
<1>12. ASSUME NEW n \in Nodes, CancelResume(n) PROVE TypeOK'
  BY <1>12 DEF TypeOK, CancelResume, resume_with, listVars, nodeVars, taskVars
<1>13. ASSUME NEW n \in Nodes, CancelDead(n) PROVE TypeOK'
  BY <1>13 DEF TypeOK, CancelDead, listVars, nodeVars, taskVars
<1>14. ASSUME NEW e \in Events, FilterLock(e) PROVE TypeOK'
  BY <1>14 DEF TypeOK, FilterLock, Goto, listVars, nodeVars
<1>15. ASSUME NEW e \in Events, FilterMatch(e) PROVE TypeOK'
  BY <1>15 DEF TypeOK, FilterMatch, dequeue_with_lock, resume_on_scheduler_with, Goto, taskVars
<1>16. ASSUME NEW e \in Events, FilterMiss(e) PROVE TypeOK'
  BY <1>16 DEF TypeOK, FilterMiss, listVars, nodeVars
<1>17. ASSUME NEW e \in Events, FilterThrow(e) PROVE TypeOK'
  BY <1>17 DEF TypeOK, FilterThrow, Goto, listVars, nodeVars, taskVars
<1>18. ASSUME NEW e \in Events, FilterPass(e) PROVE TypeOK'
  BY <1>18 DEF TypeOK, FilterPass, Goto, listVars, nodeVars, taskVars
<1>19. ASSUME NEW e \in Events, FilterReturn(e) PROVE TypeOK'
  BY <1>19 DEF TypeOK, LockInv, Critical, Owns, FilterReturn, unlock, Goto, listVars, nodeVars, taskVars
<1>20. ASSUME NEW s \in Sweepers, SweepLock(s) PROVE TypeOK'
  BY <1>20 DEF TypeOK, SweepLock, Goto, listVars, nodeVars, taskVars
<1>21. ASSUME NEW s \in Sweepers, SweepPost(s) PROVE TypeOK'
  BY <1>21 DEF TypeOK, SweepPost, resume_on_scheduler_with, Goto, listVars
<1>22. ASSUME NEW s \in Sweepers, SweepAdvance(s) PROVE TypeOK'
  BY <1>22 DEF TypeOK, SweepAdvance, Goto, nodeVars, taskVars
<1>23. ASSUME NEW s \in Sweepers, SweepReturn(s) PROVE TypeOK'
  BY <1>23 DEF TypeOK, LockInv, Critical, Owns, SweepReturn, unlock, Goto, nodeVars, taskVars
<1>24. CASE CleanupJoin
  BY <1>24 DEF TypeOK, CleanupJoin, listVars, nodeVars, taskVars
<1>25. CASE UNCHANGED vars
  BY <1>25 DEF TypeOK, vars, listVars, nodeVars, taskVars
<1>26. QED
  BY <1>1, <1>2, <1>3, <1>4, <1>5, <1>6, <1>7, <1>8, <1>9, <1>10, <1>11, <1>12, <1>13,
     <1>14, <1>15, <1>16, <1>17, <1>18, <1>19, <1>20, <1>21, <1>22, <1>23, <1>24, <1>25
  DEF Next, Environment, NodeStep, EventStep, SweepStep

\* No step but RequestStop starts a cancel task, and stop requests are final.
LEMMA StopStep == TypeOK /\ StopInv /\ [Next]_vars => StopInv'
<1> SUFFICES ASSUME TypeOK, StopInv, [Next]_vars, NEW n \in Nodes,
                    pc'[Cancel(n)] # "idle"
             PROVE  stop'[n]
  BY DEF StopInv
<1> USE TaskMembership, TaskDistinct DEF Goto
<1>0. pc \in [Tasks -> Labels] /\ stop \in [Nodes -> BOOLEAN]
  BY DEF TypeOK
<1>1. CASE stop' = stop /\ pc[Cancel(n)] # "idle"
  BY <1>1 DEF StopInv
<1>2. ASSUME NEW m \in Nodes, RequestStop(m) PROVE stop'[n]
  BY <1>0, <1>2 DEF StopInv, RequestStop, request_cancel
<1>3. CASE Environment
  <2>1. ASSUME NEW m \in Nodes, NextEvent(m) \/ NextEventStopped(m) PROVE stop'[n]
    BY <1>0, <1>1, <2>1 DEF NextEvent, NextEventStopped
  <2>2. ASSUME NEW e \in Events, FilterEvent(e) PROVE stop'[n]
    BY <1>0, <1>1, <2>2 DEF FilterEvent
  <2>3. ASSUME NEW s \in Sweepers, CancelAll(s) PROVE stop'[n]
    BY <1>0, <1>1, <2>3 DEF CancelAll
  <2>4. CASE Cleanup
    BY <1>0, <1>1, <2>4 DEF Cleanup
  <2>5. QED
    BY <1>2, <1>3, <2>1, <2>2, <2>3, <2>4 DEF Environment
<1>4. ASSUME NEW m \in Nodes, NodeStep(m) PROVE stop'[n]
  BY <1>0, <1>1, <1>4
  DEF NodeStep, Enqueue, Resume, CancelLock, CancelTake, CancelSkip, CancelResume, CancelDead
<1>5. ASSUME NEW e \in Events, EventStep(e) PROVE stop'[n]
  BY <1>0, <1>1, <1>5
  DEF EventStep, FilterLock, FilterMatch, FilterMiss, FilterThrow, FilterPass, FilterReturn
<1>6. ASSUME NEW s \in Sweepers, SweepStep(s) PROVE stop'[n]
  BY <1>0, <1>1, <1>6 DEF SweepStep, SweepLock, SweepPost, SweepAdvance, SweepReturn
<1>7. CASE CleanupJoin \/ UNCHANGED vars
  BY <1>1, <1>7 DEF CleanupJoin, vars
<1>8. QED
  BY <1>3, <1>4, <1>5, <1>6, <1>7 DEF Next

\* Every step keeps the discipline of the mutex.
LEMMA LockStep == TypeOK /\ LockInv /\ StopInv /\ [Next]_vars => LockInv'
<1> SUFFICES ASSUME TypeOK, LockInv, StopInv, [Next]_vars PROVE LockInv'
  OBVIOUS
<1> USE TaskMembership
<1>0. pc \in [Tasks -> Labels]
  BY DEF TypeOK
<1>1. ASSUME NEW n \in Nodes, NextEvent(n) PROVE LockInv'
  BY <1>1, LockAppend DEF NextEvent, Critical
<1>2. ASSUME NEW n \in Nodes, RequestStop(n) PROVE LockInv'
  BY <1>0, <1>2, LockStays DEF RequestStop, request_cancel, Goto, StopInv, Critical, TypeOK
<1>3. ASSUME NEW e \in Events, FilterEvent(e) PROVE LockInv'
  BY <1>3, LockAppend DEF FilterEvent, Critical
<1>4. ASSUME NEW s \in Sweepers, CancelAll(s) PROVE LockInv'
  BY <1>4, LockAppend DEF CancelAll, Critical
<1>5. ASSUME NEW n \in Nodes, Enqueue(n) PROVE LockInv'
  BY <1>5, LockRelease DEF Enqueue, Critical
<1>6. ASSUME NEW n \in Nodes, Resume(n) PROVE LockInv'
  BY <1>0, <1>6, LockStays DEF Resume, resume_with, Goto, Critical
<1>7. ASSUME NEW n \in Nodes, CancelLock(n) PROVE LockInv'
  BY <1>7, LockAppend DEF CancelLock, Critical
<1>8. ASSUME NEW n \in Nodes, CancelTake(n) PROVE LockInv'
  BY <1>8, LockRelease DEF CancelTake, Critical
<1>9. ASSUME NEW n \in Nodes, CancelSkip(n) PROVE LockInv'
  BY <1>9, LockRelease DEF CancelSkip, Critical
<1>10. ASSUME NEW n \in Nodes, CancelResume(n) PROVE LockInv'
  BY <1>0, <1>10, LockStays, TaskDistinct DEF CancelResume, resume_with, Critical
<1>11. ASSUME NEW e \in Events, FilterLock(e) PROVE LockInv'
  BY <1>0, <1>11, LockStays DEF FilterLock, Goto, Critical
<1>12. ASSUME NEW e \in Events, FilterMatch(e) \/ FilterThrow(e) \/ FilterPass(e) PROVE LockInv'
  BY <1>0, <1>12, LockStays DEF FilterMatch, FilterThrow, FilterPass, Goto, Critical, LockInv
<1>13. ASSUME NEW e \in Events, FilterReturn(e) PROVE LockInv'
  <2>1. Owns(Filter(e))
    BY <1>13 DEF FilterReturn, LockInv, Critical
  <2>2. QED
    BY <1>13, <2>1, LockRelease DEF FilterReturn, Critical
<1>14. ASSUME NEW s \in Sweepers, SweepLock(s) \/ SweepPost(s) \/ SweepAdvance(s) PROVE LockInv'
  BY <1>0, <1>14, LockStays DEF SweepLock, SweepPost, SweepAdvance, Goto, Critical, LockInv
<1>15. ASSUME NEW s \in Sweepers, SweepReturn(s) PROVE LockInv'
  <2>1. Owns(Sweep(s))
    BY <1>15 DEF SweepReturn, LockInv, Critical
  <2>2. QED
    BY <1>15, <2>1, LockRelease DEF SweepReturn, Critical
<1>16. CASE lockq' = lockq /\ pc' = pc
  BY <1>16, LockStays
<1>17. QED
  BY <1>1, <1>2, <1>3, <1>4, <1>5, <1>6, <1>7, <1>8, <1>9, <1>10, <1>11, <1>12, <1>13,
     <1>14, <1>15, <1>16
  DEF Next, Environment, NodeStep, EventStep, SweepStep, vars,
      NextEventStopped, Cleanup, CancelDead, FilterMiss, CleanupJoin

LEMMA InitTyped == Init => TypeOK /\ LockInv /\ StopInv
<1> SUFFICES ASSUME Init PROVE TypeOK /\ LockInv /\ StopInv
  OBVIOUS
<1>1. TypeOK
  BY TaskMembership, ConstantAssumption DEF Init, TypeOK, OptNode, OptEvent, Labels
<1>2. LockInv
  BY DEF Init, LockInv, InLock, Critical
<1>3. StopInv
  BY TaskMembership DEF Init, StopInv
<1>4. QED
  BY <1>1, <1>2, <1>3

LEMMA TypedInvariant == Spec => [](TypeOK /\ LockInv /\ StopInv)
BY InitTyped, TypeStep, LockStep, StopStep, PTL DEF Spec

\* The variables of the queue keep their types in every behaviour.
THEOREM TypeCorrect == Spec => []TypeOK
BY TypedInvariant, PTL

\* No two of the tasks that share the mutex are in their critical sections at
\* once, and the mutex is never released by a task that does not own it.
THEOREM MutexCorrect == Spec => []MutualExclusion
<1>1. LockInv => MutualExclusion
  BY TaskMembership DEF LockInv, MutualExclusion, Critical, Scanning, Sweeping
<1>2. QED
  BY <1>1, TypedInvariant, PTL

-----------------------------------------------------------------------------
(***************************************************************************)
(* The linked list and the resumptions.                                    *)
(*                                                                         *)
(* SingleResume is not inductive by itself: that filter_event resumes only *)
(* suspended calls depends on where its cursor can lead, hence on the      *)
(* links, hence on who may change them.  The invariant below says what a   *)
(* node is at each point of its life (NodeInv), that a posted resumption   *)
(* belongs to a node that is out of the list (PostInv), and that the links *)
(* thread the waiting calls in the order of their arrival (ListInv).       *)
(***************************************************************************)
\* A node before it is linked, while it is suspended and after its call returned.
NodeOK(n) ==
  /\ pc[Wait(n)] \in {"idle", "locking"} =>
       /\ ~bound[n] /\ active[n] /\ pc[Cancel(n)] = "idle"
       /\ arrival[n] = 0 /\ prev[n] = Null /\ next[n] = Null
  /\ pc[Wait(n)] \notin {"idle", "locking"} => arrival[n] \in 1..arrivals
  /\ pc[Cancel(n)] = "resuming" => pc[Wait(n)] = "suspended" /\ active[n]
  /\ pc[Wait(n)] # "suspended" /\ active[n] => pc[Cancel(n)] \in {"idle", "done"}
  /\ \A m \in Nodes : arrival[m] = arrival[n] /\ arrival[n] # 0 => m = n

NodeInv == \A n \in Nodes : NodeOK(n)

PostInv ==
  \A p \in posts :
    /\ pc[Wait(p[1])] = "suspended" /\ ~active[p[1]]
    /\ \A q \in posts : p[1] = q[1] => p = q

\* p is the oldest waiting call, or null when nobody waits.
First(p) ==
  /\ p = Null => Waiting = {}
  /\ p # Null => p \in Waiting /\ \A m \in Waiting : arrival[p] <= arrival[m]

\* next_ leads from a waiting call to the one that arrived after it.
Forward ==
  \A n \in Waiting :
    /\ next[n] = Null => tail = n /\ \A m \in Waiting : arrival[m] <= arrival[n]
    /\ next[n] # Null =>
         /\ next[n] \in Waiting
         /\ prev[next[n]] = n
         /\ arrival[n] < arrival[next[n]]
         /\ \A m \in Waiting : arrival[m] <= arrival[n] \/ arrival[next[n]] <= arrival[m]

\* head_, tail_ and prev_ agree with next_.
Backward ==
  /\ First(head)
  /\ head # Null => prev[head] = Null
  /\ tail = Null => Waiting = {}
  /\ tail # Null => tail \in Waiting /\ next[tail] = Null
  /\ \A n \in Waiting :
       /\ prev[n] = Null => head = n
       /\ prev[n] # Null => prev[n] \in Waiting /\ next[prev[n]] = n

Quiet == \A s \in Sweepers : ~Sweeping(s)

\* While cancel_all unlinks from the front only next_ can be relied on.
ListInv ==
  /\ Forward
  /\ Quiet => Backward
  /\ \A s \in Sweepers :
       /\ pc[Sweep(s)] = "sweeping" => First(head)
       /\ pc[Sweep(s)] = "advancing" => First(saved[s])
  /\ \A e \in Events : pc[Filter(e)] = "scanning" => cursor[e] \in Waiting \cup {Null}

IInv == NodeInv /\ PostInv /\ ListInv

\* Only the owner of the mutex is in a critical section.
LEMMA OwnerAlone ==
  ASSUME LockInv, NEW t \in Tasks, Owns(t)
  PROVE  \A u \in Tasks : pc[u] \in Critical => u = t
BY DEF LockInv, Owns

LEMMA WaitingFacts ==
  ASSUME TypeOK, NodeInv
  PROVE  /\ Waiting \subseteq Nodes /\ Null \notin Waiting
         /\ \A n \in Waiting : arrival[n] \in 1..arrivals
         /\ \A m, n \in Waiting : arrival[m] = arrival[n] => m = n
<1>1. Waiting \subseteq Nodes /\ Null \notin Waiting
  BY ConstantAssumption DEF Waiting
<1>2. ASSUME NEW n \in Waiting PROVE arrival[n] \in 1..arrivals
  BY DEF Waiting, NodeInv, NodeOK
<1>3. ASSUME NEW m \in Waiting, NEW n \in Waiting, arrival[m] = arrival[n] PROVE m = n
  <2>1. arrival[n] # 0
    BY <1>2 DEF TypeOK
  <2>2. QED
    BY <1>1, <1>3, <2>1 DEF NodeInv, NodeOK
<1>4. QED
  BY <1>1, <1>2, <1>3

\* enqueue_with_lock puts a new node behind everybody.
LEMMA EnqueueList ==
  ASSUME TypeOK, NodeInv, Forward, Backward,
         NEW k \in Nodes, k \notin Waiting, prev[k] = Null, next[k] = Null,
         enqueue_with_lock(k), Waiting' = Waiting \cup {k},
         arrival' = [arrival EXCEPT ![k] = arrivals + 1]
  PROVE  Forward' /\ Backward'
<1> USE ConstantAssumption
<1>0. /\ prev \in [Nodes -> OptNode] /\ next \in [Nodes -> OptNode]
      /\ arrival \in [Nodes -> Nat] /\ arrivals \in Nat
  BY DEF TypeOK
<1>1. /\ Waiting \subseteq Nodes /\ Null \notin Waiting
      /\ \A n \in Waiting : arrival[n] \in 1..arrivals
      /\ \A m, n \in Waiting : arrival[m] = arrival[n] => m = n
  BY WaitingFacts
<1>2. /\ \A n \in Waiting : arrival'[n] = arrival[n] /\ arrival'[n] < arrival'[k]
      /\ arrival'[k] = arrivals + 1
  BY <1>0, <1>1
<1>3. CASE tail = Null
  <2>1. Waiting' = {k} /\ head' = k /\ tail' = k /\ prev' = prev
    BY <1>3 DEF Backward, First, enqueue_with_lock
  <2>2. next'[k] = Null /\ prev'[k] = Null
    BY <1>0, <1>3, <2>1 DEF enqueue_with_lock
  <2>3. QED
    BY <1>0, <1>2, <2>1, <2>2 DEF Forward, Backward, First
<1>4. CASE tail # Null
  <2>1. tail \in Waiting /\ next[tail] = Null /\ head # Null /\ head \in Waiting
    BY <1>4 DEF Backward, First
  <2>2. /\ head' = head /\ tail' = k /\ prev'[k] = tail /\ next'[k] = Null /\ next'[tail] = k
        /\ \A n \in Waiting : prev'[n] = prev[n]
        /\ \A n \in Waiting : n # tail => next'[n] = next[n]
    BY <1>0, <1>1, <1>4, <2>1 DEF enqueue_with_lock
  <2>3. \A m \in Waiting : arrival[m] <= arrival[tail]
    BY <2>1 DEF Forward
  <2>4. \A n \in Waiting : next[n] = Null => n = tail
    BY DEF Forward
  <2>5. ASSUME NEW n \in Waiting'
        PROVE  /\ next'[n] = Null => tail' = n /\ \A m \in Waiting' : arrival'[m] <= arrival'[n]
               /\ next'[n] # Null =>
                    /\ next'[n] \in Waiting'
                    /\ prev'[next'[n]] = n
                    /\ arrival'[n] < arrival'[next'[n]]
                    /\ \A m \in Waiting' : arrival'[m] <= arrival'[n] \/ arrival'[next'[n]] <= arrival'[m]
    <3>1. CASE n = k
      BY <1>0, <1>1, <1>2, <2>2, <3>1
    <3>2. CASE n = tail
      BY <1>0, <1>1, <1>2, <1>4, <2>1, <2>2, <2>3, <3>2
    <3>3. CASE n # k /\ n # tail
      <4>1. n \in Waiting /\ next'[n] = next[n] /\ next[n] # Null
        BY <2>2, <2>4, <3>3
      <4>2. QED
        BY <1>0, <1>1, <1>2, <2>2, <4>1 DEF Forward
    <3>4. QED
      BY <3>1, <3>2, <3>3
  <2>6. ASSUME NEW n \in Waiting'
        PROVE  /\ prev'[n] = Null => head' = n
               /\ prev'[n] # Null => prev'[n] \in Waiting' /\ next'[prev'[n]] = n
    BY <1>1, <1>4, <2>1, <2>2 DEF Backward
  <2>7. First(head)'
    BY <1>0, <1>1, <1>2, <2>1, <2>2 DEF Backward, First
  <2>8. (head # Null => prev[head] = Null)'
    BY <2>1, <2>2 DEF Backward
  <2>9. QED
    BY <2>2, <2>5, <2>6, <2>7, <2>8 DEF Forward, Backward
<1>5. QED
  BY <1>3, <1>4

\* dequeue_with_lock closes the gap that a waiting node leaves.
LEMMA DequeueList ==
  ASSUME TypeOK, NodeInv, Forward, Backward, NEW k \in Waiting,
         dequeue_with_lock(k), Waiting' = Waiting \ {k}, arrival' = arrival
  PROVE  Forward' /\ Backward'
<1> USE ConstantAssumption
<1>0. /\ prev \in [Nodes -> OptNode] /\ next \in [Nodes -> OptNode]
      /\ arrival \in [Nodes -> Nat]
  BY DEF TypeOK
<1>1. /\ Waiting \subseteq Nodes /\ Null \notin Waiting
      /\ \A m, n \in Waiting : arrival[m] = arrival[n] => m = n
  BY WaitingFacts
<1>2. /\ head' = IF k = head THEN next[k] ELSE head
      /\ tail' = IF k = tail THEN prev[k] ELSE tail
      /\ \A n \in Nodes : next'[n] = IF n = prev[k] THEN next[k] ELSE next[n]
      /\ \A n \in Nodes : prev'[n] = IF n = next[k] THEN prev[k] ELSE prev[n]
  BY DEF dequeue_with_lock
<1>3. /\ next[k] # Null => next[k] \in Waiting' /\ prev[next[k]] = k /\ arrival[k] < arrival[next[k]]
      /\ prev[k] # Null => prev[k] \in Waiting' /\ next[prev[k]] = k /\ arrival[prev[k]] < arrival[k]
  BY <1>0, <1>1 DEF Forward, Backward
<1>4. ASSUME NEW n \in Waiting'
      PROVE  /\ next'[n] = Null => tail' = n /\ \A m \in Waiting' : arrival'[m] <= arrival'[n]
             /\ next'[n] # Null =>
                  /\ next'[n] \in Waiting'
                  /\ prev'[next'[n]] = n
                  /\ arrival'[n] < arrival'[next'[n]]
                  /\ \A m \in Waiting' : arrival'[m] <= arrival'[n] \/ arrival'[next'[n]] <= arrival'[m]
  <2>1. CASE n = prev[k]
    <3>1. next[n] = k /\ next'[n] = next[k] /\ n # Null /\ n \in Waiting
      BY <1>1, <1>2, <1>3, <2>1
    <3>2. ASSUME NEW m \in Waiting' PROVE arrival[m] <= arrival[n] \/ arrival[k] < arrival[m]
      <4>1. m \in Waiting /\ m # k /\ arrival[m] \in Nat /\ arrival[k] \in Nat
        BY <1>0, <1>1
      <4>2. k # Null
        BY <1>1
      <4>3. arrival[m] <= arrival[n] \/ arrival[k] <= arrival[m]
        BY <3>1, <4>1, <4>2 DEF Forward
      <4>4. arrival[m] # arrival[k]
        BY <1>1, <4>1
      <4>5. QED
        BY <4>1, <4>3, <4>4
    <3>3. CASE next[k] = Null
      <4>1. tail = k /\ \A m \in Waiting : arrival[m] <= arrival[k]
        BY <3>3 DEF Forward
      <4>2. QED
        BY <1>0, <1>1, <1>2, <2>1, <3>1, <3>2, <3>3, <4>1
    <3>4. CASE next[k] # Null
      <4>1. \A m \in Waiting : arrival[m] <= arrival[k] \/ arrival[next[k]] <= arrival[m]
        BY <3>4 DEF Forward
      <4>2. prev'[next[k]] = n
        BY <1>1, <1>2, <1>3, <2>1, <3>4
      <4>3. QED
        BY <1>0, <1>1, <1>3, <2>1, <3>1, <3>2, <3>4, <4>1, <4>2
    <3>5. QED
      BY <3>3, <3>4
  <2>2. CASE n # prev[k]
    <3>1. n \in Waiting /\ n # k /\ next'[n] = next[n]
      BY <1>1, <1>2, <2>2
    <3>2. next[n] # k
      BY <1>1, <2>2, <3>1 DEF Forward
    <3>3. next[n] # Null => next[n] # next[k]
      BY <1>1, <3>1 DEF Forward
    <3>4. QED
      BY <1>0, <1>1, <1>2, <3>1, <3>2, <3>3 DEF Forward
  <2>3. QED
    BY <2>1, <2>2
<1>5. Forward'
  BY <1>4 DEF Forward
<1>6. First(head)' /\ (head # Null => prev[head] = Null)'
  <2>1. CASE k = head
    <3>1. head' = next[k] /\ prev[k] = Null
      BY <1>1, <1>2, <2>1 DEF Backward
    <3>2. CASE next[k] = Null
      <4>1. \A m \in Waiting : arrival[m] <= arrival[k] /\ arrival[k] <= arrival[m]
        BY <1>1, <2>1, <3>2 DEF Forward, Backward, First
      <4>2. Waiting' = {}
        <5>1. ASSUME NEW m \in Waiting PROVE arrival[m] = arrival[k]
          <6>1. arrival[m] \in Nat /\ arrival[k] \in Nat
            BY <1>0, <1>1
          <6>2. QED
            BY <4>1, <6>1
        <5>2. QED
          BY <1>1, <5>1
      <4>3. QED
        BY <3>1, <3>2, <4>2 DEF First
    <3>3. CASE next[k] # Null
      <4>1. \A m \in Waiting' : arrival[next[k]] <= arrival[m]
        BY <1>0, <1>1, <2>1, <3>3 DEF Forward, Backward, First
      <4>2. prev'[next[k]] = Null
        BY <1>1, <1>2, <1>3, <3>1, <3>3
      <4>3. QED
        BY <1>3, <3>1, <3>3, <4>1, <4>2 DEF First
    <3>4. QED
      BY <3>2, <3>3
  <2>2. CASE k # head
    <3>1. head' = head /\ head # Null /\ head \in Waiting'
      BY <1>2, <2>2 DEF Backward, First
    <3>2. head # next[k]
      BY <1>1, <1>3, <3>1 DEF Backward
    <3>3. QED
      BY <1>1, <1>2, <3>1, <3>2 DEF Backward, First
  <2>3. QED
    BY <2>1, <2>2
<1>7. (tail = Null => Waiting = {})' /\ (tail # Null => tail \in Waiting /\ next[tail] = Null)'
  <2>1. CASE k = tail
    <3>1. tail' = prev[k] /\ next[k] = Null
      BY <1>1, <1>2, <2>1 DEF Backward
    <3>2. CASE prev[k] = Null
      <4>1. head = k
        BY <3>2 DEF Backward
      <4>2. \A m \in Waiting : arrival[m] <= arrival[k] /\ arrival[k] <= arrival[m]
        BY <1>1, <3>1, <4>1 DEF Forward, Backward, First
      <4>3. Waiting' = {}
        <5>1. ASSUME NEW m \in Waiting PROVE arrival[m] = arrival[k]
          <6>1. arrival[m] \in Nat /\ arrival[k] \in Nat
            BY <1>0, <1>1
          <6>2. QED
            BY <4>2, <6>1
        <5>2. QED
          BY <1>1, <5>1
      <4>4. QED
        BY <3>1, <3>2, <4>3
    <3>3. CASE prev[k] # Null
      BY <1>1, <1>2, <1>3, <3>1, <3>3
    <3>4. QED
      BY <3>2, <3>3
  <2>2. CASE k # tail
    <3>1. tail' = tail /\ tail # Null /\ tail \in Waiting'
      BY <1>2, <2>2 DEF Backward
    <3>2. tail # prev[k]
      BY <1>1, <1>3, <3>1 DEF Backward
    <3>3. QED
      BY <1>1, <1>2, <3>1, <3>2 DEF Backward
  <2>3. QED
    BY <2>1, <2>2
<1>8. ASSUME NEW n \in Waiting'
      PROVE  /\ prev'[n] = Null => head' = n
             /\ prev'[n] # Null => prev'[n] \in Waiting' /\ next'[prev'[n]] = n
  <2>1. CASE n = next[k]
    <3>1. prev'[n] = prev[k] /\ n # Null
      BY <1>1, <1>2, <2>1
    <3>2. CASE prev[k] = Null
      BY <1>1, <1>2, <2>1, <3>1, <3>2 DEF Backward
    <3>3. CASE prev[k] # Null
      BY <1>1, <1>2, <1>3, <2>1, <3>1, <3>3
    <3>4. QED
      BY <3>2, <3>3
  <2>2. CASE n # next[k]
    <3>1. n \in Waiting /\ n # k /\ prev'[n] = prev[n]
      BY <1>1, <1>2, <2>2
    <3>2. prev[n] # k
      BY <1>1, <2>2, <3>1 DEF Backward
    <3>3. prev[n] # Null => prev[n] # prev[k]
      BY <1>1, <3>1 DEF Backward
    <3>4. QED
      BY <1>1, <1>2, <3>1, <3>2, <3>3 DEF Backward
  <2>3. QED
    BY <2>1, <2>2
<1>9. QED
  BY <1>5, <1>6, <1>7, <1>8 DEF Backward

\* Steps that leave the links and the waiting calls alone.
LEMMA ListFrame ==
  ASSUME ListInv, UNCHANGED <<head, tail, prev, next, arrival, cursor, saved>>,
         Waiting' = Waiting,
         \A s \in Sweepers :
           \/ pc'[Sweep(s)] = pc[Sweep(s)]
           \/ ~Sweeping(s) /\ ~Sweeping(s)',
         \A e \in Events : pc'[Filter(e)] = "scanning" => pc[Filter(e)] = "scanning"
  PROVE  ListInv'
<1>1. Forward' /\ (Backward => Backward') /\ (Quiet' => Quiet)
  BY DEF ListInv, Forward, Backward, First, Quiet, Sweeping
<1>2. \A s \in Sweepers :
        /\ pc'[Sweep(s)] = "sweeping" => First(head)'
        /\ pc'[Sweep(s)] = "advancing" => First(saved[s])'
  BY DEF ListInv, First, Sweeping
<1>3. QED
  BY <1>1, <1>2 DEF ListInv

\* The owner of the mutex finds the list whole, unless it is a sweeper.
LEMMA OwnerFindsList ==
  ASSUME LockInv, ListInv, NEW t \in Tasks, Owns(t),
         \A s \in Sweepers : t = Sweep(s) => pc[t] = "locking"
  PROVE  Backward /\ Forward
<1>1. Quiet
  BY TaskMembership, OwnerAlone DEF Quiet, Sweeping, Critical
<1>2. QED
  BY <1>1 DEF ListInv

LEMMA EnqueueStep ==
  ASSUME TypeOK, LockInv, IInv, NEW k \in Nodes, Enqueue(k)
  PROVE  IInv'
<1> USE TaskMembership, TaskDistinct
<1>0. /\ pc \in [Tasks -> Labels] /\ arrival \in [Nodes -> Nat] /\ arrivals \in Nat
      /\ prev \in [Nodes -> OptNode] /\ next \in [Nodes -> OptNode]
      /\ bound \in [Nodes -> BOOLEAN] /\ posts \subseteq Nodes \X OptEvent
  BY DEF TypeOK
<1>1. /\ pc[Wait(k)] = "locking" /\ pc' = [pc EXCEPT ![Wait(k)] = "suspended"]
      /\ Owns(Wait(k)) /\ enqueue_with_lock(k)
      /\ arrivals' = arrivals + 1 /\ arrival' = [arrival EXCEPT ![k] = arrivals + 1]
      /\ UNCHANGED <<active, cursor, saved, posts>>
  BY DEF Enqueue, Goto, taskVars
<1>2. NodeInv /\ PostInv /\ ListInv
  BY DEF IInv
<1>3. /\ k \notin Waiting /\ prev[k] = Null /\ next[k] = Null /\ active[k]
      /\ arrival[k] = 0 /\ pc[Cancel(k)] = "idle"
  BY <1>1, <1>2 DEF NodeInv, NodeOK, Waiting
<1>4. Waiting' = Waiting \cup {k}
  BY <1>0, <1>1, <1>3 DEF Waiting
<1>5. Forward /\ Backward
  BY <1>1, <1>2, OwnerFindsList
<1>6. Forward' /\ Backward'
  BY <1>1, <1>2, <1>3, <1>4, <1>5, EnqueueList
<1>7. \A e \in Events : pc'[Filter(e)] # "scanning"
  BY <1>0, <1>1, OwnerAlone DEF Critical
<1>8. \A s \in Sweepers : ~Sweeping(s)'
  BY <1>0, <1>1, OwnerAlone DEF Critical, Sweeping
<1>9. ListInv'
  BY <1>6, <1>7, <1>8 DEF ListInv, Sweeping
<1>10. PostInv'
  BY <1>0, <1>1, <1>2 DEF PostInv
<1>11. ASSUME NEW n \in Nodes, n # k
       PROVE  /\ pc'[Wait(n)] = pc[Wait(n)] /\ pc'[Cancel(n)] = pc[Cancel(n)]
              /\ arrival'[n] = arrival[n] /\ bound'[n] = bound[n] /\ prev'[n] = prev[n]
              /\ next'[n] = next[n] \/ n \in Waiting
  <2>1. pc'[Wait(n)] = pc[Wait(n)] /\ pc'[Cancel(n)] = pc[Cancel(n)] /\ arrival'[n] = arrival[n]
    BY <1>0, <1>1, <1>11
  <2>2. bound'[n] = bound[n] /\ prev'[n] = prev[n]
    BY <1>0, <1>1, <1>11 DEF enqueue_with_lock
  <2>3. next'[n] = next[n] \/ n \in Waiting
    BY <1>0, <1>1, <1>5, <1>11, ConstantAssumption DEF enqueue_with_lock, Backward
  <2>4. QED
    BY <2>1, <2>2, <2>3
<1>12. ASSUME NEW n \in Nodes PROVE NodeOK(n)'
  <2>1. CASE n = k
    BY <1>0, <1>1, <1>2, <1>3, <1>11, <2>1 DEF NodeInv, NodeOK
  <2>2. CASE n # k
    BY <1>0, <1>1, <1>2, <1>3, <1>11, <2>2 DEF NodeInv, NodeOK, Waiting
  <2>3. QED
    BY <2>1, <2>2
<1>13. QED
  BY <1>9, <1>10, <1>12 DEF IInv, NodeInv

\* What unlinking a waiting node leaves alone in all the others.
LEMMA DequeueFrame ==
  ASSUME TypeOK, NodeInv, Forward, Backward, NEW k \in Waiting, dequeue_with_lock(k),
         NEW n \in Nodes, n \notin Waiting
  PROVE  prev'[n] = prev[n] /\ next'[n] = next[n]
BY ConstantAssumption DEF dequeue_with_lock, Forward, Backward, TypeOK

LEMMA CancelTakeStep ==
  ASSUME TypeOK, LockInv, IInv, NEW k \in Nodes, CancelTake(k)
  PROVE  IInv'
<1> USE TaskMembership, TaskDistinct
<1>0. pc \in [Tasks -> Labels] /\ posts \subseteq Nodes \X OptEvent
  BY DEF TypeOK
<1>1. /\ pc[Cancel(k)] = "locking" /\ pc' = [pc EXCEPT ![Cancel(k)] = "resuming"]
      /\ Owns(Cancel(k)) /\ active[k] /\ dequeue_with_lock(k)
      /\ UNCHANGED <<bound, active, arrival, arrivals, cursor, saved, posts>>
  BY DEF CancelTake, Goto, nodeVars, taskVars
<1>2. NodeInv /\ PostInv /\ ListInv
  BY DEF IInv
<1>3. k \in Waiting
  BY <1>1, <1>2 DEF NodeInv, NodeOK, Waiting
<1>4. Waiting' = Waiting \ {k}
  BY <1>0, <1>1 DEF Waiting
<1>5. Forward /\ Backward
  BY <1>1, <1>2, OwnerFindsList
<1>6. Forward' /\ Backward'
  BY <1>1, <1>2, <1>3, <1>4, <1>5, DequeueList
<1>7. \A e \in Events : pc'[Filter(e)] # "scanning"
  BY <1>0, <1>1, OwnerAlone DEF Critical
<1>8. \A s \in Sweepers : ~Sweeping(s)'
  BY <1>0, <1>1, OwnerAlone DEF Critical, Sweeping
<1>9. ListInv'
  BY <1>6, <1>7, <1>8 DEF ListInv, Sweeping
<1>10. PostInv'
  BY <1>0, <1>1, <1>2 DEF PostInv
<1>11. ASSUME NEW n \in Nodes PROVE NodeOK(n)'
  <2>1. n \notin Waiting => prev'[n] = prev[n] /\ next'[n] = next[n]
    BY <1>1, <1>2, <1>3, <1>5, DequeueFrame
  <2>2. n \in Waiting => pc[Wait(n)] = "suspended"
    BY DEF Waiting
  <2>3. QED
    BY <1>0, <1>1, <1>2, <1>3, <2>1, <2>2 DEF NodeInv, NodeOK, Waiting
<1>12. QED
  BY <1>9, <1>10, <1>11 DEF IInv, NodeInv

LEMMA FilterMatchStep ==
  ASSUME TypeOK, LockInv, IInv, NEW e \in Events, FilterMatch(e)
  PROVE  IInv'
<1> USE TaskMembership, TaskDistinct
<1> DEFINE k == cursor[e]
<1>0. /\ pc \in [Tasks -> Labels] /\ posts \subseteq Nodes \X OptEvent
      /\ active \in [Nodes -> BOOLEAN]
  BY DEF TypeOK
<1>1. /\ pc[Filter(e)] = "scanning" /\ pc' = [pc EXCEPT ![Filter(e)] = "returning"]
      /\ k # Null /\ dequeue_with_lock(k) /\ active' = [active EXCEPT ![k] = FALSE]
      /\ posts' = posts \cup {<<k, e>>}
      /\ UNCHANGED <<bound, arrival, arrivals, cursor, saved>>
  BY DEF FilterMatch, Goto, resume_on_scheduler_with, taskVars
<1>2. NodeInv /\ PostInv /\ ListInv
  BY DEF IInv
<1>3. k \in Waiting /\ k \in Nodes
  BY <1>1, <1>2 DEF ListInv, Waiting
<1>3a. pc[Wait(k)] = "suspended" /\ active[k] /\ pc[Cancel(k)] # "resuming"
  BY <1>3 DEF Waiting
<1>4. Waiting' = Waiting \ {k}
  BY <1>0, <1>1, <1>3 DEF Waiting
<1>5. Owns(Filter(e))
  BY <1>1 DEF LockInv, Critical
<1>6. Forward /\ Backward
  BY <1>2, <1>5, OwnerFindsList
<1>7. Forward' /\ Backward'
  BY <1>1, <1>2, <1>3, <1>4, <1>6, DequeueList
<1>8. \A f \in Events : pc'[Filter(f)] # "scanning"
  BY <1>0, <1>1, <1>5, OwnerAlone DEF Critical
<1>9. \A s \in Sweepers : ~Sweeping(s)'
  BY <1>0, <1>1, <1>5, OwnerAlone DEF Critical, Sweeping
<1>10. ListInv'
  BY <1>7, <1>8, <1>9 DEF ListInv, Sweeping
<1>11. PostInv'
  <2>1. \A p \in posts : p[1] # k
    BY <1>2, <1>3a DEF PostInv
  <2>2. \A p \in posts' : p \in posts \/ p = <<k, e>>
    BY <1>1
  <2>3. QED
    BY <1>0, <1>1, <1>2, <1>3, <1>3a, <2>1, <2>2 DEF PostInv
<1>12. ASSUME NEW n \in Nodes PROVE NodeOK(n)'
  <2>1. n \notin Waiting => prev'[n] = prev[n] /\ next'[n] = next[n]
    BY <1>1, <1>2, <1>3, <1>6, DequeueFrame
  <2>2. n \in Waiting => pc[Wait(n)] = "suspended"
    BY DEF Waiting
  <2>3. pc'[Wait(n)] = pc[Wait(n)] /\ pc'[Cancel(n)] = pc[Cancel(n)]
    BY <1>0, <1>1
  <2>4. active'[n] = active[n] \/ n = k
    BY <1>0, <1>1
  <2>5. QED
    BY <1>0, <1>1, <1>2, <1>3, <1>3a, <2>1, <2>2, <2>3, <2>4 DEF NodeInv, NodeOK
<1>13. QED
  BY <1>10, <1>11, <1>12 DEF IInv, NodeInv

LEMMA SweepPostStep ==
  ASSUME TypeOK, LockInv, IInv, NEW s \in Sweepers, SweepPost(s)
  PROVE  IInv'
<1> USE TaskMembership, TaskDistinct
<1> DEFINE k == head
<1>0. /\ pc \in [Tasks -> Labels] /\ posts \subseteq Nodes \X OptEvent
      /\ active \in [Nodes -> BOOLEAN] /\ saved \in [Sweepers -> OptNode]
      /\ arrival \in [Nodes -> Nat]
  BY DEF TypeOK
<1>1. /\ pc[Sweep(s)] = "sweeping" /\ pc' = [pc EXCEPT ![Sweep(s)] = "advancing"]
      /\ k # Null /\ active' = [active EXCEPT ![k] = FALSE]
      /\ saved' = [saved EXCEPT ![s] = next[k]]
      /\ posts' = posts \cup {<<k, Null>>}
      /\ UNCHANGED <<head, tail, prev, next, bound, arrival, arrivals, cursor>>
  BY DEF SweepPost, Goto, resume_on_scheduler_with, listVars
<1>2. NodeInv /\ PostInv /\ ListInv
  BY DEF IInv
<1>3. k \in Waiting /\ k \in Nodes /\ \A m \in Waiting : arrival[k] <= arrival[m]
  BY <1>1, <1>2 DEF ListInv, First, Waiting
<1>3a. pc[Wait(k)] = "suspended" /\ active[k] /\ pc[Cancel(k)] # "resuming"
  BY <1>3 DEF Waiting
<1>4. Waiting' = Waiting \ {k}
  BY <1>0, <1>1, <1>3 DEF Waiting
<1>5. Owns(Sweep(s))
  BY <1>1 DEF LockInv, Critical
<1>6. /\ Waiting \subseteq Nodes /\ Null \notin Waiting
      /\ \A m, n \in Waiting : arrival[m] = arrival[n] => m = n
  BY <1>2, WaitingFacts
<1>7. Forward
  BY <1>2 DEF ListInv
<1>8. Forward'
  <2>1. ASSUME NEW n \in Waiting' PROVE next[n] # k
    <3>1. n \in Waiting /\ arrival[n] \in Nat /\ arrival[k] \in Nat /\ arrival[k] <= arrival[n]
      BY <1>0, <1>3, <1>4, <1>6
    <3>2. QED
      BY <1>1, <1>7, <3>1 DEF Forward
  <2>2. QED
    BY <1>1, <1>4, <1>7, <2>1 DEF Forward
<1>9. First(saved[s])'
  <2>1. saved'[s] = next[k]
    BY <1>0, <1>1
  <2>2. CASE next[k] = Null
    <3>1. ASSUME NEW m \in Waiting PROVE m = k
      <4>1. arrival[m] \in Nat /\ arrival[k] \in Nat /\ arrival[m] <= arrival[k] /\ arrival[k] <= arrival[m]
        BY <1>0, <1>3, <1>6, <1>7, <2>2 DEF Forward
      <4>2. QED
        BY <1>3, <1>6, <4>1
    <3>2. QED
      BY <1>4, <2>1, <2>2, <3>1 DEF First
  <2>3. CASE next[k] # Null
    <3>1. next[k] \in Waiting /\ arrival[k] < arrival[next[k]]
      BY <1>3, <1>7, <2>3 DEF Forward
    <3>2. ASSUME NEW m \in Waiting' PROVE arrival[next[k]] <= arrival[m]
      <4>1. m \in Waiting /\ m # k /\ arrival[m] \in Nat /\ arrival[k] \in Nat
        BY <1>0, <1>4, <1>3, <1>6
      <4>2. arrival[m] # arrival[k] /\ arrival[k] <= arrival[m]
        BY <1>3, <1>6, <4>1
      <4>3. arrival[m] <= arrival[k] \/ arrival[next[k]] <= arrival[m]
        BY <1>3, <1>7, <2>3, <4>1 DEF Forward
      <4>4. QED
        BY <4>1, <4>2, <4>3
    <3>3. next[k] # k
      BY <1>0, <1>3, <3>1
    <3>4. QED
      BY <1>1, <1>4, <2>1, <2>3, <3>1, <3>2, <3>3 DEF First
  <2>4. QED
    BY <2>2, <2>3
<1>10. \A f \in Events : pc'[Filter(f)] # "scanning"
  BY <1>0, <1>1, <1>5, OwnerAlone DEF Critical
<1>11. \A r \in Sweepers : r # s => ~Sweeping(r)'
  BY <1>0, <1>1, <1>5, OwnerAlone DEF Critical, Sweeping
<1>12. pc'[Sweep(s)] = "advancing"
  BY <1>0, <1>1
<1>13. ListInv'
  BY <1>8, <1>9, <1>10, <1>11, <1>12 DEF ListInv, Quiet, Sweeping
<1>14. PostInv'
  <2>1. \A p \in posts : p[1] # k
    BY <1>2, <1>3a DEF PostInv
  <2>2. \A p \in posts' : p \in posts \/ p = <<k, Null>>
    BY <1>1
  <2>3. QED
    BY <1>0, <1>1, <1>2, <1>3, <1>3a, <2>1, <2>2 DEF PostInv
<1>15. ASSUME NEW n \in Nodes PROVE NodeOK(n)'
  <2>1. pc'[Wait(n)] = pc[Wait(n)] /\ pc'[Cancel(n)] = pc[Cancel(n)]
    BY <1>0, <1>1
  <2>2. active'[n] = active[n] \/ n = k
    BY <1>0, <1>1
  <2>3. QED
    BY <1>0, <1>1, <1>2, <1>3, <1>3a, <2>1, <2>2 DEF NodeInv, NodeOK
<1>16. QED
  BY <1>13, <1>14, <1>15 DEF IInv, NodeInv

\* The steps of a call and of its cancel task that leave the links alone.
LEMMA NodeSteps ==
  ASSUME TypeOK, LockInv, StopInv, IInv, NEW k \in Nodes,
         \/ NextEvent(k) \/ NextEventStopped(k) \/ RequestStop(k) \/ Resume(k)
         \/ CancelLock(k) \/ CancelSkip(k) \/ CancelResume(k) \/ CancelDead(k)
  PROVE  IInv'
<1> USE TaskMembership, TaskDistinct
<1>0. /\ pc \in [Tasks -> Labels] /\ posts \subseteq Nodes \X OptEvent
      /\ active \in [Nodes -> BOOLEAN]
  BY DEF TypeOK
<1>1. NodeInv /\ PostInv /\ ListInv
  BY DEF IInv
<1>2. UNCHANGED <<head, tail, prev, next, bound, active, arrival, arrivals, cursor, saved>>
  BY DEF NextEvent, NextEventStopped, RequestStop, Resume, CancelLock, CancelSkip,
         CancelResume, CancelDead, listVars, nodeVars, taskVars
<1>3. \A t \in Tasks : t # Wait(k) /\ t # Cancel(k) => pc'[t] = pc[t]
  BY <1>0 DEF NextEvent, NextEventStopped, RequestStop, request_cancel, Resume, CancelLock,
         CancelSkip, CancelResume, CancelDead, Goto
<1>4. /\ NodeOK(k)' /\ posts' \subseteq posts
      /\ (k \in Waiting)' <=> k \in Waiting
      /\ \A p \in posts' : p[1] = k => pc'[Wait(k)] = "suspended"
  <2>1. CASE NextEvent(k)
    BY <1>0, <1>1, <1>2, <2>1 DEF NextEvent, Goto, NodeInv, NodeOK, PostInv, Waiting
  <2>2. CASE NextEventStopped(k) \/ CancelDead(k)
    BY <1>0, <1>1, <1>2, <2>2 DEF NextEventStopped, CancelDead, NodeInv, NodeOK, PostInv, Waiting
  <2>3. CASE RequestStop(k)
    <3>1. posts' = posts /\ pc'[Wait(k)] = pc[Wait(k)] /\ pc[Cancel(k)] = "idle"
      BY <1>0, <2>3 DEF RequestStop, request_cancel, Goto, StopInv
    <3>2. \/ pc'[Cancel(k)] = "idle"
          \/ pc'[Cancel(k)] = "spawned" /\ pc[Wait(k)] = "suspended"
      BY <1>0, <1>1, <2>3, <3>1
      DEF RequestStop, request_cancel, Registered, Goto, NodeInv, NodeOK
    <3>3. QED
      BY <1>0, <1>1, <1>2, <3>1, <3>2 DEF NodeInv, NodeOK, PostInv, Waiting
  <2>4. CASE Resume(k)
    <3>1. PICK p \in posts : p[1] = k /\ pc[Wait(k)] = "suspended" /\ posts' = posts \ {p}
      BY <2>4 DEF Resume, resume_with
    <3>2. ~active[k] /\ \A q \in posts' : q[1] # k
      BY <1>1, <3>1 DEF PostInv
    <3>3. pc'[Wait(k)] = "done" /\ pc'[Cancel(k)] = pc[Cancel(k)]
      BY <1>0, <2>4 DEF Resume, Goto
    <3>4. QED
      BY <1>0, <1>1, <1>2, <3>1, <3>2, <3>3 DEF NodeInv, NodeOK, Waiting
  <2>5. CASE CancelLock(k) \/ CancelSkip(k)
    <3>1. /\ posts' = posts /\ pc'[Wait(k)] = pc[Wait(k)]
          /\ pc[Cancel(k)] \in {"spawned", "locking"} /\ pc'[Cancel(k)] \in {"locking", "done"}
          /\ active[k] => pc'[Cancel(k)] = "locking"
      BY <1>0, <2>5 DEF CancelLock, CancelSkip, Goto
    <3>2. QED
      BY <1>0, <1>1, <1>2, <3>1 DEF NodeInv, NodeOK, PostInv, Waiting
  <2>6. CASE CancelResume(k)
    <3>1. /\ pc[Cancel(k)] = "resuming" /\ pc'[Wait(k)] = "done" /\ pc'[Cancel(k)] = "done"
          /\ posts' = posts /\ pc[Wait(k)] = "suspended"
      BY <1>0, <2>6 DEF CancelResume, resume_with
    <3>2. active[k] /\ \A q \in posts' : q[1] # k
      BY <1>1, <3>1 DEF NodeInv, NodeOK, PostInv
    <3>3. QED
      BY <1>0, <1>1, <1>2, <3>1, <3>2 DEF NodeInv, NodeOK, Waiting
  <2>7. QED
    BY <2>1, <2>2, <2>3, <2>4, <2>5, <2>6
<1>5. \A n \in Nodes : n # k => pc'[Wait(n)] = pc[Wait(n)] /\ pc'[Cancel(n)] = pc[Cancel(n)]
  BY <1>3
<1>6. Waiting' = Waiting
  <2>1. \A n \in Nodes : n \in Waiting' <=> n \in Waiting
    BY <1>2, <1>4, <1>5 DEF Waiting
  <2>2. QED
    BY <2>1 DEF Waiting
<1>7. NodeInv'
  <2>1. ASSUME NEW n \in Nodes, n # k PROVE NodeOK(n)'
    BY <1>1, <1>2, <1>5, <2>1 DEF NodeInv, NodeOK
  <2>2. QED
    BY <1>4, <2>1 DEF NodeInv
<1>8. PostInv'
  BY <1>0, <1>1, <1>2, <1>4, <1>5 DEF PostInv
<1>9. ListInv'
  BY <1>1, <1>2, <1>3, <1>6, ListFrame
<1>10. QED
  BY <1>7, <1>8, <1>9 DEF IInv

\* Steps of the other tasks that leave nodes and resumptions alone.
LEMMA NodesFrame ==
  ASSUME NodeInv, PostInv,
         UNCHANGED <<prev, next, bound, active, arrival, arrivals, posts>>,
         TypeOK,
         \A n \in Nodes : pc'[Wait(n)] = pc[Wait(n)] /\ pc'[Cancel(n)] = pc[Cancel(n)]
  PROVE  NodeInv' /\ PostInv' /\ Waiting' = Waiting
<1>1. NodeInv'
  BY DEF NodeInv, NodeOK
<1>2. PostInv'
  BY DEF PostInv, TypeOK
<1>3. Waiting' = Waiting
  BY DEF Waiting
<1>4. QED
  BY <1>1, <1>2, <1>3

LEMMA FilterSteps ==
  ASSUME TypeOK, LockInv, IInv, NEW e \in Events,
         \/ FilterEvent(e) \/ FilterLock(e) \/ FilterMiss(e)
         \/ FilterThrow(e) \/ FilterPass(e) \/ FilterReturn(e)
  PROVE  IInv'
<1> USE TaskMembership, TaskDistinct
<1>0. pc \in [Tasks -> Labels] /\ cursor \in [Events -> OptNode]
  BY DEF TypeOK
<1>1. NodeInv /\ PostInv /\ ListInv
  BY DEF IInv
<1>2. /\ UNCHANGED <<head, tail, prev, next, bound, active, arrival, arrivals, saved, posts>>
      /\ \A t \in Tasks : t # Filter(e) => pc'[t] = pc[t]
  BY <1>0 DEF FilterEvent, FilterLock, FilterMiss, FilterThrow, FilterPass, FilterReturn, Goto,
              listVars, nodeVars, taskVars
<1>3. NodeInv' /\ PostInv' /\ Waiting' = Waiting
  BY <1>1, <1>2, NodesFrame
<1>4. \A s \in Sweepers : pc'[Sweep(s)] = pc[Sweep(s)]
  BY <1>2
<1>5. CASE FilterEvent(e) \/ FilterThrow(e) \/ FilterPass(e) \/ FilterReturn(e)
  <2>1. cursor' = cursor /\ \A f \in Events : pc'[Filter(f)] = "scanning" => pc[Filter(f)] = "scanning"
    BY <1>0, <1>5 DEF FilterEvent, FilterThrow, FilterPass, FilterReturn, Goto, taskVars
  <2>2. ListInv'
    BY <1>1, <1>2, <1>3, <1>4, <2>1, ListFrame
  <2>3. QED
    BY <1>3, <2>2 DEF IInv
<1>6. CASE FilterLock(e) \/ FilterMiss(e)
  <2>1. cursor'[e] \in Waiting \cup {Null}
    <3>1. CASE FilterLock(e)
      <4>1. Backward
        BY <1>1, <3>1, OwnerFindsList DEF FilterLock
      <4>2. QED
        BY <1>0, <3>1, <4>1 DEF FilterLock, Backward, First
    <3>2. CASE FilterMiss(e)
      <4>1. cursor[e] \in Waiting
        BY <1>1, <3>2 DEF FilterMiss, ListInv
      <4>2. QED
        BY <1>0, <1>1, <3>2, <4>1 DEF FilterMiss, ListInv, Forward
    <3>3. QED
      BY <1>6, <3>1, <3>2
  <2>2. \A f \in Events : f # e => cursor'[f] = cursor[f] /\ pc'[Filter(f)] = pc[Filter(f)]
    BY <1>0, <1>2, <1>6 DEF FilterLock, FilterMiss
  <2>3. Forward' /\ (Backward => Backward') /\ (Quiet' <=> Quiet)
    BY <1>1, <1>2, <1>3, <1>4 DEF ListInv, Forward, Backward, First, Quiet, Sweeping
  <2>4. \A s \in Sweepers :
          /\ pc'[Sweep(s)] = "sweeping" => First(head)'
          /\ pc'[Sweep(s)] = "advancing" => First(saved[s])'
    BY <1>1, <1>2, <1>3, <1>4 DEF ListInv, First
  <2>5. \A f \in Events : pc'[Filter(f)] = "scanning" => cursor'[f] \in Waiting' \cup {Null}
    BY <1>1, <1>3, <2>1, <2>2 DEF ListInv
  <2>6. QED
    BY <1>1, <1>3, <2>3, <2>4, <2>5 DEF IInv, ListInv
<1>7. QED
  BY <1>5, <1>6

LEMMA SweepSteps ==
  ASSUME TypeOK, LockInv, IInv, NEW s \in Sweepers,
         CancelAll(s) \/ SweepLock(s) \/ SweepAdvance(s) \/ SweepReturn(s)
  PROVE  IInv'
<1> USE TaskMembership, TaskDistinct
<1>0. pc \in [Tasks -> Labels] /\ saved \in [Sweepers -> OptNode]
  BY DEF TypeOK
<1>1. NodeInv /\ PostInv /\ ListInv
  BY DEF IInv
<1>2. /\ UNCHANGED <<prev, next, bound, active, arrival, arrivals, cursor, saved, posts>>
      /\ \A t \in Tasks : t # Sweep(s) => pc'[t] = pc[t]
  BY <1>0 DEF CancelAll, SweepLock, SweepAdvance, SweepReturn, Goto, listVars, nodeVars, taskVars
<1>3. NodeInv' /\ PostInv' /\ Waiting' = Waiting
  BY <1>1, <1>2, NodesFrame
<1>4. \A e \in Events : pc'[Filter(e)] = pc[Filter(e)]
  BY <1>2
<1>5. \A r \in Sweepers : r # s => pc'[Sweep(r)] = pc[Sweep(r)]
  BY <1>2
<1>6. CASE CancelAll(s)
  <2>1. UNCHANGED <<head, tail>> /\ ~Sweeping(s) /\ ~Sweeping(s)'
    BY <1>0, <1>6 DEF CancelAll, Goto, Sweeping, listVars
  <2>2. ListInv'
    BY <1>1, <1>2, <1>3, <1>4, <1>5, <2>1, ListFrame
  <2>3. QED
    BY <1>3, <2>2 DEF IInv
<1>7. CASE SweepLock(s) \/ SweepAdvance(s) \/ SweepReturn(s)
  <2>1. Owns(Sweep(s))
    BY <1>7 DEF SweepLock, SweepAdvance, SweepReturn, LockInv, Critical
  <2>2. \A r \in Sweepers : r # s => ~Sweeping(r)'
    BY <1>5, <2>1, OwnerAlone DEF Sweeping, Critical
  <2>3. \A e \in Events : pc'[Filter(e)] # "scanning"
    BY <1>4, <2>1, OwnerAlone DEF Critical
  <2>4. CASE SweepLock(s) \/ SweepAdvance(s)
    <3>1. pc'[Sweep(s)] = "sweeping" /\ tail' = tail
      BY <1>0, <2>4 DEF SweepLock, SweepAdvance, Goto, listVars
    <3>2. First(head)'
      <4>1. CASE SweepLock(s)
        <5>1. Backward
          BY <1>1, <4>1, OwnerFindsList DEF SweepLock
        <5>2. QED
          BY <1>2, <1>3, <4>1, <5>1 DEF SweepLock, Backward, First, listVars
      <4>2. CASE SweepAdvance(s)
        BY <1>1, <1>2, <1>3, <4>2 DEF SweepAdvance, ListInv, First
      <4>3. QED
        BY <2>4, <4>1, <4>2
    <3>3. Forward'
      BY <1>1, <1>2, <1>3, <3>1 DEF ListInv, Forward
    <3>4. ListInv'
      BY <2>2, <2>3, <3>1, <3>2, <3>3 DEF ListInv, Quiet, Sweeping
    <3>5. QED
      BY <1>3, <3>4 DEF IInv
  <2>5. CASE SweepReturn(s)
    <3>1. head' = Null /\ tail' = Null /\ pc'[Sweep(s)] = "done" /\ Waiting' = {}
      BY <1>0, <1>1, <1>3, <2>5 DEF SweepReturn, Goto, ListInv, First
    <3>2. ListInv'
      BY <2>2, <2>3, <3>1 DEF ListInv, Forward, Backward, First, Sweeping
    <3>3. QED
      BY <1>3, <3>2 DEF IInv
  <2>6. QED
    BY <1>7, <2>4, <2>5
<1>8. QED
  BY <1>6, <1>7

LEMMA IdleSteps ==
  ASSUME TypeOK, IInv, Cleanup \/ CleanupJoin \/ UNCHANGED vars
  PROVE  IInv'
<1>1. UNCHANGED <<head, tail, prev, next, bound, active, arrival, arrivals, cursor, saved, posts, pc>>
  BY DEF Cleanup, CleanupJoin, vars, listVars, nodeVars, taskVars
<1>2. NodeInv' /\ PostInv' /\ Waiting' = Waiting
  BY <1>1, NodesFrame DEF IInv
<1>3. ListInv'
  BY <1>1, <1>2, ListFrame DEF IInv
<1>4. QED
  BY <1>2, <1>3 DEF IInv

LEMMA SafetyStep ==
  TypeOK /\ LockInv /\ StopInv /\ IInv /\ [Next]_vars => IInv'
<1> SUFFICES ASSUME TypeOK, LockInv, StopInv, IInv, [Next]_vars PROVE IInv'
  OBVIOUS
<1>1. ASSUME NEW n \in Nodes, NodeStep(n) \/ NextEvent(n) \/ NextEventStopped(n) \/ RequestStop(n)
      PROVE  IInv'
  BY <1>1, EnqueueStep, CancelTakeStep, NodeSteps DEF NodeStep
<1>2. ASSUME NEW e \in Events, EventStep(e) \/ FilterEvent(e) PROVE IInv'
  BY <1>2, FilterMatchStep, FilterSteps DEF EventStep
<1>3. ASSUME NEW s \in Sweepers, SweepStep(s) \/ CancelAll(s) PROVE IInv'
  BY <1>3, SweepPostStep, SweepSteps DEF SweepStep
<1>4. CASE Cleanup \/ CleanupJoin \/ UNCHANGED vars
  BY <1>4, IdleSteps
<1>5. QED
  BY <1>1, <1>2, <1>3, <1>4 DEF Next, Environment

LEMMA SafetyInit == Init => IInv
<1> SUFFICES ASSUME Init PROVE IInv
  OBVIOUS
<1>1. NodeInv /\ PostInv
  BY TaskMembership DEF Init, NodeInv, NodeOK, PostInv
<1>2. Waiting = {}
  BY TaskMembership DEF Init, Waiting
<1>3. ListInv
  BY <1>2, TaskMembership DEF Init, ListInv, Forward, Backward, First
<1>4. QED
  BY <1>1, <1>3 DEF IInv

LEMMA SafetyInvariant == Spec => [](TypeOK /\ LockInv /\ IInv)
<1>1. Init => TypeOK /\ LockInv /\ StopInv /\ IInv
  BY InitTyped, SafetyInit
<1>2. TypeOK /\ LockInv /\ StopInv /\ IInv /\ [Next]_vars
        => (TypeOK /\ LockInv /\ StopInv /\ IInv)'
  BY TypeStep, LockStep, StopStep, SafetyStep
<1>3. QED
  BY <1>1, <1>2, PTL DEF Spec

\* No suspended next_event_async is resumed twice, whatever the interleaving of
\* filter_event, cancel_task and cancel_all.
THEOREM SingleResumeCorrect == Spec => []SingleResume
<1>1. ASSUME TypeOK, IInv PROVE SingleResume
  <2>1. SUFFICES ASSUME NEW n \in Nodes
                 PROVE  /\ \A p, q \in posts : p[1] = n /\ q[1] = n => p = q
                        /\ \A p \in posts : p[1] = n =>
                             pc[Wait(n)] = "suspended" /\ pc[Cancel(n)] # "resuming"
                        /\ pc[Cancel(n)] = "resuming" => pc[Wait(n)] = "suspended"
    BY DEF SingleResume
  <2>2. \A p, q \in posts : p[1] = n /\ q[1] = n => p = q
    BY <1>1 DEF IInv, PostInv
  <2>3. pc[Cancel(n)] = "resuming" => pc[Wait(n)] = "suspended" /\ active[n]
    BY <1>1 DEF IInv, NodeInv, NodeOK
  <2>4. \A p \in posts : p[1] = n => pc[Wait(n)] = "suspended" /\ ~active[n]
    BY <1>1 DEF IInv, PostInv
  <2>5. QED
    BY <2>2, <2>3, <2>4
<1>2. QED
  BY <1>1, SafetyInvariant, PTL

\* Outside cancel_all the doubly linked list is the waiting calls in order.
THEOREM ListCorrect == Spec => []ListIntact
<1>1. IInv => ListIntact
  BY DEF IInv, ListInv, Forward, Backward, First, Quiet, ListIntact
<1>2. QED
  BY <1>1, SafetyInvariant, PTL

\* filter_event and cancel_all only follow pointers to suspended calls.
THEOREM PointersCorrect == Spec => []PointersLive
<1>1. IInv => PointersLive
  BY DEF IInv, ListInv, First, PointersLive
<1>2. QED
  BY <1>1, SafetyInvariant, PTL

(***************************************************************************)
(* Events.  What a call has been given changes only when an event is       *)
(* taken: a resumption turns a posted event into the result of the call.   *)
(***************************************************************************)
\* filter_event decides once.
FateInv == \A e \in Events : fate[e] # "none" => pc[Filter(e)] \in {"returning", "done"}

\* Steps of everybody but filter_event: the events keep their takers.
LEMMA TakersStay ==
  ASSUME FateInv, EventConserved, fate' = fate,
         \A e \in Events : pc'[Filter(e)] = pc[Filter(e)],
         \A e \in Events : Takers(e)' = Takers(e)
  PROVE  FateInv' /\ EventConserved'
<1>1. FateInv'
  BY DEF FateInv
<1>2. EventConserved'
  BY DEF EventConserved
<1>3. QED
  BY <1>1, <1>2

\* The event that a posted resumption carries becomes the result of the call.
LEMMA ResumeTakers ==
  ASSUME TypeOK, IInv, NEW n \in Nodes, Resume(n), NEW e \in Events
  PROVE  Takers(e)' = Takers(e)
<1>1. PICK p \in posts : p[1] = n /\ resume_with(n, p[2]) /\ posts' = posts \ {p}
  BY DEF Resume
<1>2. p = <<n, p[2]>> /\ p[2] \in OptEvent
  BY <1>1 DEF TypeOK
<1>3. \A q \in posts : q[1] = n => q = p
  BY <1>1 DEF IInv, PostInv
<1>4. /\ pc[Wait(n)] = "suspended" /\ pc'[Wait(n)] = "done"
      /\ \A m \in Nodes : m # n => pc'[Wait(m)] = pc[Wait(m)] /\ res'[m] = res[m]
      /\ res'[n] = p[2]
  BY <1>1, TaskMembership, TaskDistinct DEF Resume, Goto, resume_with, TypeOK
<1>5. ASSUME NEW m \in Nodes PROVE m \in Takers(e)' <=> m \in Takers(e)
  <2>1. CASE m = n
    <3>1. <<n, e>> \in posts <=> p[2] = e
      BY <1>1, <1>2, <1>3
    <3>2. <<n, e>> \notin posts'
      BY <1>1, <1>3
    <3>3. QED
      BY <1>4, <2>1, <3>1, <3>2 DEF Takers
  <2>2. CASE m # n
    <3>1. <<m, e>> \in posts' <=> <<m, e>> \in posts
      BY <1>1, <1>2, <2>2
    <3>2. QED
      BY <1>4, <2>2, <3>1 DEF Takers
  <2>3. QED
    BY <2>1, <2>2
<1>6. QED
  BY <1>5 DEF Takers

\* A call that cancel_task resumes gets nothing, and had been given nothing.
LEMMA CancelTakers ==
  ASSUME TypeOK, IInv, NEW n \in Nodes, CancelResume(n), NEW e \in Events
  PROVE  Takers(e)' = Takers(e)
<1>1. /\ pc[Wait(n)] = "suspended"
      /\ \A m \in Nodes : m # n => pc'[Wait(m)] = pc[Wait(m)] /\ res'[m] = res[m]
      /\ res'[n] = Null /\ posts' = posts
  BY TaskMembership, TaskDistinct DEF CancelResume, resume_with, TypeOK
<1>2. Null # e
  BY ConstantAssumption
<1>3. QED
  BY <1>1, <1>2 DEF Takers

\* The match: the event had no taker, and the call at the cursor is suspended.
LEMMA MatchConserves ==
  ASSUME TypeOK, IInv, FateInv, EventConserved, NEW e \in Events, FilterMatch(e)
  PROVE  FateInv' /\ EventConserved'
<1> DEFINE n == cursor[e]
<1>1. n \in Nodes
  BY DEF FilterMatch, TypeOK, OptNode
<1>2. /\ fate[e] = "none" /\ fate' = [fate EXCEPT ![e] = "taken"]
      /\ pc' = [pc EXCEPT ![Filter(e)] = "returning"]
      /\ posts' = posts \cup {<<n, e>>} /\ res' = res
  BY DEF FilterMatch, FateInv, Goto, resume_on_scheduler_with
<1>3. \A m \in Nodes : pc'[Wait(m)] = pc[Wait(m)]
  BY <1>2, TaskMembership, TaskDistinct DEF TypeOK
<1>4. Takers(e) = {} /\ Takers(e)' = {n}
  <2>1. Takers(e) = {}
    BY <1>2 DEF EventConserved
  <2>2. \A m \in Nodes : <<m, e>> \in posts' <=> <<m, e>> \in posts \/ m = n
    BY <1>2
  <2>3. QED
    BY <1>1, <1>2, <1>3, <2>1, <2>2 DEF Takers
<1>5. ASSUME NEW f \in Events, f # e PROVE Takers(f)' = Takers(f) /\ fate'[f] = fate[f]
  <2>1. \A m \in Nodes : <<m, f>> \in posts' <=> <<m, f>> \in posts
    BY <1>2, <1>5
  <2>2. QED
    BY <1>2, <1>3, <1>5, <2>1 DEF Takers, TypeOK
<1>6. fate'[e] = "taken"
  BY <1>2 DEF TypeOK
<1>7. EventConserved'
  BY <1>1, <1>4, <1>5, <1>6 DEF EventConserved
<1>8. FateInv'
  BY <1>2, <1>5, TaskMembership, TaskDistinct DEF FateInv, TypeOK
<1>9. QED
  BY <1>7, <1>8

\* The end of the list and an exception: the event still has no taker.
LEMMA RefusalConserves ==
  ASSUME TypeOK, FateInv, EventConserved, NEW e \in Events, FilterThrow(e) \/ FilterPass(e)
  PROVE  FateInv' /\ EventConserved'
<1>1. /\ fate[e] = "none" /\ posts' = posts /\ res' = res
      /\ pc' = [pc EXCEPT ![Filter(e)] = "returning"]
      /\ fate'[e] # "taken" /\ \A f \in Events : f # e => fate'[f] = fate[f]
  BY DEF FilterThrow, FilterPass, Goto, FateInv, TypeOK
<1>2. \A m \in Nodes : pc'[Wait(m)] = pc[Wait(m)]
  BY <1>1, TaskMembership, TaskDistinct DEF TypeOK
<1>3. \A f \in Events : Takers(f)' = Takers(f)
  BY <1>1, <1>2 DEF Takers
<1>4. FateInv'
  BY <1>1, TaskMembership, TaskDistinct DEF FateInv, TypeOK
<1>5. EventConserved'
  BY <1>1, <1>3 DEF EventConserved
<1>6. QED
  BY <1>4, <1>5

\* A step that gives no result and posts no event.
LEMMA OtherTakers ==
  ASSUME TypeOK, res' = res,
         \A m \in Nodes : pc'[Wait(m)] = "done" <=> pc[Wait(m)] = "done",
         \A m \in Nodes, e \in Events : <<m, e>> \in posts' <=> <<m, e>> \in posts
  PROVE  \A e \in Events : Takers(e)' = Takers(e)
BY DEF Takers

\* Steps of a call, of its cancellation and of its posted resumption.
LEMMA NodeConserves ==
  ASSUME TypeOK, IInv, FateInv, EventConserved, NEW n \in Nodes,
         NodeStep(n) \/ NextEvent(n) \/ NextEventStopped(n) \/ RequestStop(n)
  PROVE  FateInv' /\ EventConserved'
<1>1. fate' = fate /\ \A e \in Events : pc'[Filter(e)] = pc[Filter(e)]
  <2>1. fate' = fate
    BY DEF NodeStep, Enqueue, Resume, CancelLock, CancelTake, CancelSkip, CancelResume, CancelDead,
           NextEvent, NextEventStopped, RequestStop
  <2>2. \A e \in Events : pc'[Filter(e)] = pc[Filter(e)]
    BY TaskMembership, TaskDistinct
    DEF NodeStep, Enqueue, Resume, CancelLock, CancelTake, CancelSkip, CancelResume, CancelDead,
        NextEvent, NextEventStopped, RequestStop, request_cancel, Goto, TypeOK
  <2>3. QED
    BY <2>1, <2>2
<1>2. CASE Resume(n)
  BY <1>1, <1>2, ResumeTakers, TakersStay
<1>3. CASE CancelResume(n)
  BY <1>1, <1>3, CancelTakers, TakersStay
<1>4. CASE ~ Resume(n) /\ ~ CancelResume(n)
  <2>1. res' = res /\ posts' = posts
    BY <1>4 DEF NodeStep, Enqueue, CancelLock, CancelTake, CancelSkip, CancelDead,
                NextEvent, NextEventStopped, RequestStop
  <2>2. \A m \in Nodes : pc'[Wait(m)] = "done" <=> pc[Wait(m)] = "done"
    BY <1>4, TaskMembership, TaskDistinct
    DEF NodeStep, Enqueue, CancelLock, CancelTake, CancelSkip, CancelDead,
        NextEvent, NextEventStopped, RequestStop, request_cancel, Goto, TypeOK
  <2>3. QED
    BY <1>1, <2>1, <2>2, OtherTakers, TakersStay
<1>5. QED
  BY <1>2, <1>3, <1>4

\* Steps of filter_event.
LEMMA EventConserves ==
  ASSUME TypeOK, IInv, FateInv, EventConserved, NEW e \in Events, EventStep(e) \/ FilterEvent(e)
  PROVE  FateInv' /\ EventConserved'
<1>1. CASE FilterMatch(e)
  BY <1>1, MatchConserves
<1>2. CASE FilterThrow(e) \/ FilterPass(e)
  BY <1>2, RefusalConserves
<1>3. CASE FilterLock(e) \/ FilterMiss(e) \/ FilterReturn(e) \/ FilterEvent(e)
  <2>1. fate' = fate /\ res' = res /\ posts' = posts
    BY <1>3 DEF FilterLock, FilterMiss, FilterReturn, FilterEvent
  <2>2. pc' = pc \/ \E label \in Labels : pc' = [pc EXCEPT ![Filter(e)] = label]
    BY <1>3 DEF FilterLock, FilterMiss, FilterReturn, FilterEvent, Goto, Labels
  <2>3. /\ \A m \in Nodes : pc'[Wait(m)] = pc[Wait(m)]
        /\ \A f \in Events : f # e => pc'[Filter(f)] = pc[Filter(f)]
    BY <2>2, TaskMembership, TaskDistinct DEF TypeOK
  <2>4. EventConserved'
    <3>1. \A f \in Events : Takers(f)' = Takers(f)
      BY <2>1, <2>3, OtherTakers
    <3>2. QED
      BY <2>1, <3>1 DEF EventConserved
  <2>5. pc[Filter(e)] \in {"idle", "locking", "scanning"} \/ pc'[Filter(e)] = "done"
    BY <1>3, TaskMembership
    DEF FilterLock, FilterMiss, FilterReturn, FilterEvent, Goto, TypeOK
  <2>6. FateInv'
    BY <2>1, <2>3, <2>5 DEF FateInv
  <2>7. QED
    BY <2>4, <2>6
<1>4. QED
  BY <1>1, <1>2, <1>3 DEF EventStep

\* Steps of cancel_all, which posts nothing but empty results, and of the scope.
LEMMA SweepConserves ==
  ASSUME TypeOK, IInv, FateInv, EventConserved,
         \/ \E s \in Sweepers : SweepStep(s) \/ CancelAll(s)
         \/ Cleanup \/ CleanupJoin \/ UNCHANGED vars
  PROVE  FateInv' /\ EventConserved'
<1>1. fate' = fate /\ res' = res
  BY DEF SweepStep, SweepLock, SweepPost, SweepAdvance, SweepReturn, CancelAll, Cleanup,
         CleanupJoin, vars
<1>2. \A m \in Nodes, e \in Events : <<m, e>> \in posts' <=> <<m, e>> \in posts
  BY ConstantAssumption
  DEF SweepStep, SweepLock, SweepPost, SweepAdvance, SweepReturn, CancelAll, Cleanup,
      CleanupJoin, vars, resume_on_scheduler_with
<1>3. pc' = pc \/ \E s \in Sweepers, label \in Labels : pc' = [pc EXCEPT ![Sweep(s)] = label]
  BY DEF SweepStep, SweepLock, SweepPost, SweepAdvance, SweepReturn, CancelAll, Cleanup,
         CleanupJoin, vars, Goto, Labels
<1>4. /\ \A m \in Nodes : pc'[Wait(m)] = pc[Wait(m)]
      /\ \A e \in Events : pc'[Filter(e)] = pc[Filter(e)]
  BY <1>3, TaskMembership, TaskDistinct DEF TypeOK
<1>5. QED
  BY <1>1, <1>2, <1>4, OtherTakers, TakersStay

\* The fates and the takers agree, whatever the tasks do.
LEMMA ConservedInvariant == Spec => [](FateInv /\ EventConserved)
<1>1. Init => FateInv /\ EventConserved
  BY TaskMembership DEF Init, FateInv, EventConserved, Takers
<1>2. TypeOK /\ IInv /\ FateInv /\ EventConserved /\ [Next]_vars => FateInv' /\ EventConserved'
  BY NodeConserves, EventConserves, SweepConserves DEF Next, Environment
<1>3. QED
  BY <1>1, <1>2, SafetyInvariant, PTL DEF Spec

\* An event that filter_event takes is given to exactly one call and survives
\* every cancellation; one that it does not take is given to nobody.
THEOREM EventConservedCorrect == Spec => []EventConserved
BY ConservedInvariant, PTL

-----------------------------------------------------------------------------
(***************************************************************************)
(* Wakeups.  SingleResume bounds the resumptions of a call from above; the *)
(* invariants below bound them from below.                                 *)
(***************************************************************************)
\* Whoever clears active_ of a suspended call has posted its resumption.
WakeInv ==
  \A n \in Nodes : pc[Wait(n)] = "suspended" /\ ~active[n] => \E p \in posts : p[1] = n

\* Steps that take nobody out of the list and run no posted resumption.
LEMMA WakeStays ==
  ASSUME WakeInv, active' = active, posts' = posts,
         \A n \in Nodes : pc'[Wait(n)] = "suspended" => pc[Wait(n)] = "suspended"
  PROVE  WakeInv'
BY DEF WakeInv

\* A posted resumption is consumed by the call it belongs to.
LEMMA WakeResume ==
  ASSUME TypeOK, IInv, WakeInv, NEW n \in Nodes, Resume(n)
  PROVE  WakeInv'
<1>1. PICK p \in posts : p[1] = n /\ posts' = posts \ {p}
  BY DEF Resume
<1>2. /\ active' = active /\ pc'[Wait(n)] = "done"
      /\ \A m \in Nodes : m # n => pc'[Wait(m)] = pc[Wait(m)]
  BY TaskMembership, TaskDistinct DEF Resume, Goto, nodeVars, TypeOK
<1>3. SUFFICES ASSUME NEW m \in Nodes, pc'[Wait(m)] = "suspended", ~active'[m]
               PROVE  \E q \in posts' : q[1] = m
  BY DEF WakeInv
<1>4. m # n /\ pc[Wait(m)] = "suspended" /\ ~active[m]
  BY <1>2, <1>3
<1>5. PICK q \in posts : q[1] = m
  BY <1>4 DEF WakeInv
<1>6. q \in posts'
  BY <1>1, <1>4, <1>5
<1>7. QED
  BY <1>5, <1>6

\* filter_event and cancel_all post the resumption of the call they pick.
LEMMA WakePost ==
  ASSUME TypeOK, WakeInv, NEW k \in Nodes, NEW ev,
         active' = [active EXCEPT ![k] = FALSE], posts' = posts \cup {<<k, ev>>},
         \A n \in Nodes : pc'[Wait(n)] = pc[Wait(n)]
  PROVE  WakeInv'
<1>1. SUFFICES ASSUME NEW n \in Nodes, pc[Wait(n)] = "suspended", ~active'[n]
               PROVE  \E p \in posts' : p[1] = n
  BY DEF WakeInv
<1>2. CASE n = k
  <2>1. <<k, ev>> \in posts' /\ <<k, ev>>[1] = n
    BY <1>2
  <2>2. QED
    BY <2>1
<1>3. CASE n # k
  <2>1. ~active[n]
    BY <1>1, <1>3 DEF TypeOK
  <2>2. PICK p \in posts : p[1] = n
    BY <1>1, <2>1 DEF WakeInv
  <2>3. QED
    BY <2>2
<1>4. QED
  BY <1>2, <1>3

LEMMA WakeStep ==
  ASSUME TypeOK, IInv, WakeInv, [Next]_vars
  PROVE  WakeInv'
<1> USE TaskMembership, TaskDistinct
<1>0. pc \in [Tasks -> Labels] /\ active \in [Nodes -> BOOLEAN]
  BY DEF TypeOK
<1>1. ASSUME NEW n \in Nodes, Enqueue(n) PROVE WakeInv'
  <2>1. active[n] /\ active' = active /\ posts' = posts
    BY <1>1 DEF Enqueue, IInv, NodeInv, NodeOK
  <2>2. \A m \in Nodes : m # n => pc'[Wait(m)] = pc[Wait(m)]
    BY <1>0, <1>1 DEF Enqueue, Goto
  <2>3. QED
    BY <2>1, <2>2 DEF WakeInv
<1>2. ASSUME NEW n \in Nodes, Resume(n) PROVE WakeInv'
  BY <1>2, WakeResume
<1>3. ASSUME NEW n \in Nodes,
             \/ CancelLock(n) \/ CancelTake(n) \/ CancelSkip(n) \/ CancelResume(n) \/ CancelDead(n)
             \/ NextEvent(n) \/ NextEventStopped(n) \/ RequestStop(n)
      PROVE  WakeInv'
  <2>1. active' = active /\ posts' = posts
    BY <1>3 DEF CancelLock, CancelTake, CancelSkip, CancelResume, CancelDead,
                NextEvent, NextEventStopped, RequestStop, nodeVars
  <2>2. \A m \in Nodes : pc'[Wait(m)] = "suspended" => pc[Wait(m)] = "suspended"
    BY <1>0, <1>3 DEF CancelLock, CancelTake, CancelSkip, CancelResume, CancelDead,
                      NextEvent, NextEventStopped, RequestStop, request_cancel, Goto
  <2>3. QED
    BY <2>1, <2>2, WakeStays
<1>4. ASSUME NEW e \in Events, FilterMatch(e) PROVE WakeInv'
  <2>1. cursor[e] \in Nodes
    BY <1>4 DEF FilterMatch, TypeOK, OptNode
  <2>2. /\ active' = [active EXCEPT ![cursor[e]] = FALSE]
        /\ posts' = posts \cup {<<cursor[e], e>>}
    BY <1>4 DEF FilterMatch, resume_on_scheduler_with
  <2>3. \A n \in Nodes : pc'[Wait(n)] = pc[Wait(n)]
    BY <1>0, <1>4 DEF FilterMatch, Goto
  <2>4. QED
    BY <2>1, <2>2, <2>3, WakePost
<1>5. ASSUME NEW s \in Sweepers, SweepPost(s) PROVE WakeInv'
  <2>1. head \in Nodes
    BY <1>5 DEF SweepPost, TypeOK, OptNode
  <2>2. /\ active' = [active EXCEPT ![head] = FALSE]
        /\ posts' = posts \cup {<<head, Null>>}
    BY <1>5 DEF SweepPost, resume_on_scheduler_with
  <2>3. \A n \in Nodes : pc'[Wait(n)] = pc[Wait(n)]
    BY <1>0, <1>5 DEF SweepPost, Goto
  <2>4. QED
    BY <2>1, <2>2, <2>3, WakePost
<1>6. ASSUME NEW e \in Events,
             \/ FilterEvent(e) \/ FilterLock(e) \/ FilterMiss(e)
             \/ FilterThrow(e) \/ FilterPass(e) \/ FilterReturn(e)
      PROVE  WakeInv'
  BY <1>0, <1>6, WakeStays
  DEF FilterEvent, FilterLock, FilterMiss, FilterThrow, FilterPass, FilterReturn, Goto, nodeVars
<1>7. ASSUME NEW s \in Sweepers, CancelAll(s) \/ SweepLock(s) \/ SweepAdvance(s) \/ SweepReturn(s)
      PROVE  WakeInv'
  BY <1>0, <1>7, WakeStays DEF CancelAll, SweepLock, SweepAdvance, SweepReturn, Goto, nodeVars
<1>8. CASE Cleanup \/ CleanupJoin \/ UNCHANGED vars
  BY <1>8, WakeStays DEF Cleanup, CleanupJoin, vars, nodeVars
<1>9. QED
  BY <1>1, <1>2, <1>3, <1>4, <1>5, <1>6, <1>7, <1>8
  DEF Next, Environment, NodeStep, EventStep, SweepStep

\* A suspended call is linked in the list or about to be resumed.
THEOREM NoLostWakeupCorrect == Spec => []NoLostWakeup
<1>1. Init => WakeInv
  BY TaskMembership DEF Init, WakeInv
<1>2. WakeInv /\ IInv => NoLostWakeup
  <2>1. SUFFICES ASSUME WakeInv, IInv, Quiet, NEW n \in Nodes, pc[Wait(n)] = "suspended"
                 PROVE  Linked(n) \/ pc[Cancel(n)] = "resuming" \/ \E p \in posts : p[1] = n
    BY DEF NoLostWakeup, Quiet
  <2>2. CASE ~ active[n]
    BY <2>1, <2>2 DEF WakeInv
  <2>3. CASE n \in Waiting
    BY <2>1, <2>3 DEF IInv, ListInv, Backward, Linked
  <2>4. QED
    BY <2>1, <2>2, <2>3 DEF Waiting
<1>3. QED
  BY <1>1, <1>2, WakeStep, SafetyInvariant, PTL DEF Spec

(***************************************************************************)
(* Stop requests.  A call that was asked to stop before it was linked has  *)
(* stopped the process, so a call that is linked can still be asked, and   *)
(* then finds its queue; the cancel task that is spawned stays on its way  *)
(* to the mutex until the call has left the list.                          *)
(***************************************************************************)
StopOK(n) ==
  /\ pc[Wait(n)] = "suspended" => bound[n]
  /\ pc[Wait(n)] = "locking" /\ stop[n] => ~Running
  /\ n \in Waiting /\ stop[n] => scope # "open" \/ pc[Cancel(n)] \in {"spawned", "locking"}

ReachInv == \A n \in Nodes : StopOK(n)

\* Steps of other tasks do not disturb a call and its cancellation.
LEMMA ReachStays ==
  ASSUME ReachInv, NEW n \in Nodes,
         pc'[Wait(n)] = pc[Wait(n)], pc'[Cancel(n)] = pc[Cancel(n)],
         bound'[n] = bound[n], stop'[n] = stop[n], active'[n] => active[n],
         fault' = fault \/ fault' # "none", scope' = scope \/ scope' # "open"
  PROVE  StopOK(n)'
BY DEF ReachInv, StopOK, Waiting, Running

\* Steps of the call and of its cancellation themselves.
LEMMA ReachOwn ==
  ASSUME TypeOK, StopInv, IInv, ReachInv, NEW n \in Nodes,
         NodeStep(n) \/ NextEvent(n) \/ NextEventStopped(n) \/ RequestStop(n)
  PROVE  StopOK(n)'
<1> USE TaskMembership, TaskDistinct
<1>0. /\ pc \in [Tasks -> Labels] /\ bound \in [Nodes -> BOOLEAN] /\ stop \in [Nodes -> BOOLEAN]
      /\ active \in [Nodes -> BOOLEAN]
  BY DEF TypeOK
<1>1. /\ StopOK(n) /\ (pc[Cancel(n)] # "idle" => stop[n])
      /\ (pc[Wait(n)] = "locking" => ~bound[n])
  BY DEF ReachInv, StopInv, IInv, NodeInv, NodeOK
<1>2. CASE Enqueue(n)
  <2>1. pc'[Wait(n)] = "suspended" /\ bound'[n] /\ stop'[n] = stop[n] /\ ~stop[n]
    BY <1>0, <1>1, <1>2 DEF Enqueue, enqueue_with_lock, Goto, StopOK
  <2>2. QED
    BY <2>1 DEF StopOK
<1>3. CASE Resume(n) \/ CancelResume(n)
  <2>1. pc'[Wait(n)] = "done"
    BY <1>0, <1>3 DEF Resume, CancelResume, Goto
  <2>2. QED
    BY <2>1 DEF StopOK, Waiting
<1>4. CASE CancelLock(n) \/ CancelTake(n) \/ CancelSkip(n)
  <2>1. UNCHANGED <<bound, active, stop, fault, scope>> /\ pc'[Wait(n)] = pc[Wait(n)]
    BY <1>0, <1>4 DEF CancelLock, CancelTake, CancelSkip, Goto, nodeVars
  <2>2. \/ pc'[Cancel(n)] \in {"locking", "resuming"}
        \/ ~active[n]
    BY <1>0, <1>4 DEF CancelLock, CancelTake, CancelSkip, Goto
  <2>3. QED
    BY <1>1, <2>1, <2>2 DEF StopOK, Waiting, Running
<1>5. CASE CancelDead(n) \/ NextEventStopped(n)
  BY <1>5, ReachStays DEF CancelDead, NextEventStopped, nodeVars
<1>6. CASE NextEvent(n)
  <2>1. pc'[Wait(n)] = "locking" /\ ~stop'[n]
    BY <1>0, <1>6 DEF NextEvent, Goto
  <2>2. QED
    BY <2>1 DEF StopOK, Waiting
<1>7. CASE RequestStop(n)
  <2>1. /\ UNCHANGED <<bound, active, scope>> /\ pc'[Wait(n)] = pc[Wait(n)]
        /\ Running /\ pc[Cancel(n)] = "idle"
    BY <1>0, <1>1, <1>7 DEF RequestStop, request_cancel, Goto, nodeVars
  <2>2. pc[Wait(n)] = "locking" => fault' = "null_queue"
    BY <1>1, <1>7 DEF RequestStop, request_cancel, Registered
  <2>3. pc[Wait(n)] = "suspended" => scope # "open" \/ pc'[Cancel(n)] = "spawned"
    BY <1>0, <1>1, <1>7 DEF RequestStop, request_cancel, Registered, Goto, StopOK
  <2>4. QED
    BY <1>1, <2>1, <2>2, <2>3 DEF StopOK, Waiting, Running
<1>8. QED
  BY <1>2, <1>3, <1>4, <1>5, <1>6, <1>7 DEF NodeStep

LEMMA ReachStep ==
  ASSUME TypeOK, StopInv, IInv, ReachInv, [Next]_vars
  PROVE  ReachInv'
<1> USE TaskMembership, TaskDistinct
<1>0. /\ pc \in [Tasks -> Labels] /\ bound \in [Nodes -> BOOLEAN] /\ stop \in [Nodes -> BOOLEAN]
      /\ active \in [Nodes -> BOOLEAN]
  BY DEF TypeOK
<1>1. SUFFICES ASSUME NEW n \in Nodes PROVE StopOK(n)'
  BY DEF ReachInv
<1>2. ASSUME NEW m \in Nodes,
             NodeStep(m) \/ NextEvent(m) \/ NextEventStopped(m) \/ RequestStop(m)
      PROVE  StopOK(n)'
  <2>1. CASE m = n
    BY <1>2, <2>1, ReachOwn
  <2>2. CASE m # n
    <3>1. pc'[Wait(n)] = pc[Wait(n)] /\ pc'[Cancel(n)] = pc[Cancel(n)]
      BY <1>0, <1>2, <2>2
      DEF NodeStep, Enqueue, Resume, CancelLock, CancelTake, CancelSkip, CancelResume, CancelDead,
          NextEvent, NextEventStopped, RequestStop, request_cancel, Goto
    <3>2. bound'[n] = bound[n] /\ stop'[n] = stop[n] /\ active' = active /\ scope' = scope
      BY <1>0, <1>2, <2>2
      DEF NodeStep, Enqueue, Resume, CancelLock, CancelTake, CancelSkip, CancelResume, CancelDead,
          NextEvent, NextEventStopped, RequestStop, enqueue_with_lock, nodeVars
    <3>3. fault' = fault \/ fault' # "none"
      BY <1>2
      DEF NodeStep, Enqueue, Resume, CancelLock, CancelTake, CancelSkip, CancelResume, CancelDead,
          NextEvent, NextEventStopped, RequestStop, request_cancel
    <3>4. QED
      BY <3>1, <3>2, <3>3, ReachStays
  <2>3. QED
    BY <2>1, <2>2
<1>3. ASSUME NEW e \in Events, EventStep(e) \/ FilterEvent(e) PROVE StopOK(n)'
  <2>1. UNCHANGED <<bound, stop, fault, scope>>
    BY <1>3 DEF EventStep, FilterEvent, FilterLock, FilterMatch, FilterMiss, FilterThrow,
                FilterPass, FilterReturn, nodeVars
  <2>2. active'[n] => active[n]
    BY <1>0, <1>3 DEF EventStep, FilterEvent, FilterLock, FilterMatch, FilterMiss, FilterThrow,
                      FilterPass, FilterReturn, nodeVars
  <2>3. pc'[Wait(n)] = pc[Wait(n)] /\ pc'[Cancel(n)] = pc[Cancel(n)]
    <3>1. pc' = pc \/ \E label \in Labels : pc' = [pc EXCEPT ![Filter(e)] = label]
      BY <1>3 DEF EventStep, FilterEvent, FilterLock, FilterMatch, FilterMiss, FilterThrow,
                  FilterPass, FilterReturn, Goto, Labels
    <3>2. /\ Filter(e) # Wait(n) /\ Filter(e) # Cancel(n)
          /\ Filter(e) \in Tasks /\ Wait(n) \in Tasks /\ Cancel(n) \in Tasks
      OBVIOUS
    <3>3. QED
      BY <1>0, <3>1, <3>2
  <2>4. QED
    BY <2>1, <2>2, <2>3, ReachStays
<1>4. ASSUME NEW s \in Sweepers, SweepStep(s) \/ CancelAll(s) PROVE StopOK(n)'
  <2>1. UNCHANGED <<bound, stop, fault, scope>> /\ (active'[n] => active[n])
    BY <1>0, <1>4
    DEF SweepStep, CancelAll, SweepLock, SweepPost, SweepAdvance, SweepReturn, nodeVars
  <2>2. pc'[Wait(n)] = pc[Wait(n)] /\ pc'[Cancel(n)] = pc[Cancel(n)]
    BY <1>0, <1>4 DEF SweepStep, CancelAll, SweepLock, SweepPost, SweepAdvance, SweepReturn, Goto
  <2>3. QED
    BY <2>1, <2>2, ReachStays
<1>5. CASE Cleanup \/ CleanupJoin \/ UNCHANGED vars
  BY <1>5, ReachStays DEF Cleanup, CleanupJoin, vars, nodeVars
<1>6. QED
  BY <1>2, <1>3, <1>4, <1>5 DEF Next, Environment

\* While the queue's scope is open, a linked call that was asked to stop has a
\* cancel task that will find it.
THEOREM StopReachesWaiterCorrect == Spec => []StopReachesWaiter
<1>1. Init => ReachInv
  BY TaskMembership DEF Init, ReachInv, StopOK, Waiting
<1>2. ReachInv => StopReachesWaiter
  BY DEF ReachInv, StopOK, StopReachesWaiter, Waiting
<1>3. QED
  BY <1>1, <1>2, ReachStep, SafetyInvariant, TypedInvariant, PTL DEF Spec
=============================================================================
