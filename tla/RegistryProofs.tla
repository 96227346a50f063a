--------------------------- MODULE RegistryProofs ---------------------------
(***************************************************************************)
(* The filter queue implements the registry of waiters, for every set of   *)
(* calls, events and sweepers and every table of verdicts.                 *)
(*                                                                         *)
(* An event is given away at its match, a waiter is dismissed when         *)
(* cancel_task unlinks it or cancel_all posts to it; what happens to them  *)
(* afterwards is invisible in the registry.                                *)
(***************************************************************************)
EXTENDS FilterQueueProofs

\* The registry's view of the resumptions.
Given ==
  {p \in posts : p[2] # Null}
    \cup {p \in Nodes \X Events : pc[Wait(p[1])] = "done" /\ res[p[1]] = p[2]}

SentAway(n) ==
  \/ <<n, Null>> \in posts
  \/ pc[Cancel(n)] = "resuming"
  \/ pc[Wait(n)] = "done" /\ res[n] = Null

Dismissed == {n \in Nodes : SentAway(n)}

Clearing == \E s \in Sweepers : pc[Sweep(s)] # "idle"

\* The walk of filter_event has passed only waiters that rejected the event.
ScanInv ==
  \A e \in Events : pc[Filter(e)] = "scanning" =>
    \A m \in Waiting :
      cursor[e] = Null \/ arrival[m] < arrival[cursor[e]] => Verdict[m][e] = "miss"

\* What the registry sees, step by step.
RInv == TypeOK /\ LockInv /\ StopInv /\ IInv /\ FateInv /\ EventConserved /\ ScanInv

\* The variables of the registry in these terms.
LEMMA Mapping ==
  ASSUME Waiting' = Waiting, Given' = Given, Dismissed' = Dismissed, Clearing' = Clearing,
         arrival' = arrival, arrivals' = arrivals, fate' = fate, stop' = stop
  PROVE  UNCHANGED Registry!vars
BY DEF Registry!vars, Given, Dismissed, SentAway, Clearing

\* Events are given to their takers.
LEMMA GivenStays ==
  ASSUME TypeOK, TypeOK', \A e \in Events : Takers(e)' = Takers(e)
  PROVE  Given' = Given
<1>1. ASSUME NEW p \in Nodes \X Events PROVE p \in Given' <=> p \in Given
  <2>1. p = <<p[1], p[2]>> /\ p[1] \in Nodes /\ p[2] \in Events /\ p[2] # Null
    BY ConstantAssumption
  <2>2. p \in Given <=> p[1] \in Takers(p[2])
    BY <2>1 DEF Given, Takers
  <2>3. p \in Given' <=> p[1] \in Takers(p[2])'
    BY <2>1 DEF Given, Takers
  <2>4. QED
    BY <2>1, <2>2, <2>3
<1>2. Given \subseteq Nodes \X Events /\ Given' \subseteq Nodes \X Events
  BY DEF Given, TypeOK, OptEvent
<1>3. QED
  BY <1>1, <1>2

\* A new taker adds exactly one pair.
LEMMA GivenGrows ==
  ASSUME TypeOK, TypeOK', NEW n \in Nodes, NEW e \in Events,
         Takers(e)' = Takers(e) \cup {n}, \A f \in Events : f # e => Takers(f)' = Takers(f)
  PROVE  Given' = Given \cup {<<n, e>>}
<1>1. ASSUME NEW p \in Nodes \X Events PROVE p \in Given' <=> p \in Given \cup {<<n, e>>}
  <2>1. p = <<p[1], p[2]>> /\ p[1] \in Nodes /\ p[2] \in Events /\ p[2] # Null
    BY ConstantAssumption
  <2>2. p \in Given <=> p[1] \in Takers(p[2])
    BY <2>1 DEF Given, Takers
  <2>3. p \in Given' <=> p[1] \in Takers(p[2])'
    BY <2>1 DEF Given, Takers
  <2>4. p = <<n, e>> <=> p[1] = n /\ p[2] = e
    BY <2>1
  <2>5. QED
    BY <2>1, <2>2, <2>3, <2>4
<1>2. Given \subseteq Nodes \X Events /\ Given' \subseteq Nodes \X Events
  BY DEF Given, TypeOK, OptEvent
<1>3. QED
  BY <1>1, <1>2

\* A call takes its place in the line.
LEMMA EnqueueJoins ==
  ASSUME RInv, TypeOK', NEW k \in Nodes, Enqueue(k)
  PROVE  Registry!Join(k)
<1> USE TaskMembership, TaskDistinct
<1>0. TypeOK /\ IInv /\ pc \in [Tasks -> Labels]
  BY DEF RInv, TypeOK
<1>1. /\ pc[Wait(k)] = "locking" /\ pc' = [pc EXCEPT ![Wait(k)] = "suspended"]
      /\ arrivals' = arrivals + 1 /\ arrival' = [arrival EXCEPT ![k] = arrivals + 1]
      /\ UNCHANGED <<active, posts, res, fate, stop>>
  BY DEF Enqueue, Goto
<1>2. active[k] /\ arrival[k] = 0 /\ pc[Cancel(k)] = "idle"
  BY <1>0, <1>1 DEF IInv, NodeInv, NodeOK
<1>3. Waiting' = Waiting \cup {k}
  BY <1>0, <1>1, <1>2 DEF Waiting
<1>4. \A e \in Events : Takers(e)' = Takers(e)
  BY <1>0, <1>1, OtherTakers
<1>5. Given' = Given
  BY <1>0, <1>4, GivenStays
<1>6. Dismissed' = Dismissed
  BY <1>0, <1>1 DEF Dismissed, SentAway
<1>7. Clearing' = Clearing
  BY <1>0, <1>1 DEF Clearing
<1>8. QED
  BY <1>1, <1>2, <1>3, <1>5, <1>6, <1>7 DEF Registry!Join, Given, Dismissed, SentAway, Clearing

\* The list in front of the cursor belongs to waiters that rejected the event,
\* so the event goes to the first that accepts it.
LEMMA MatchDelivers ==
  ASSUME RInv, TypeOK', NEW e \in Events, FilterMatch(e)
  PROVE  Registry!Deliver(cursor[e], e)
<1> USE TaskMembership, TaskDistinct
<1> DEFINE k == cursor[e]
<1>0. TypeOK /\ IInv /\ pc \in [Tasks -> Labels] /\ active \in [Nodes -> BOOLEAN]
  BY DEF RInv, TypeOK
<1>1. /\ pc[Filter(e)] = "scanning" /\ pc' = [pc EXCEPT ![Filter(e)] = "returning"]
      /\ k # Null /\ Verdict[k][e] = "match"
      /\ active' = [active EXCEPT ![k] = FALSE] /\ posts' = posts \cup {<<k, e>>}
      /\ fate' = [fate EXCEPT ![e] = "taken"]
      /\ UNCHANGED <<res, arrival, arrivals, stop>>
  BY DEF FilterMatch, Goto, resume_on_scheduler_with
<1>2. k \in Waiting /\ k \in Nodes /\ fate[e] = "none"
  BY <1>0, <1>1 DEF IInv, ListInv, Waiting, RInv, FateInv
<1>3. \A v \in Waiting : arrival[v] < arrival[k] => Verdict[v][e] = "miss"
  BY <1>1 DEF RInv, ScanInv
<1>4. \A m \in Nodes : pc'[Wait(m)] = pc[Wait(m)] /\ pc'[Cancel(m)] = pc[Cancel(m)]
  BY <1>0, <1>1
<1>5. Waiting' = Waiting \ {k}
  BY <1>0, <1>1, <1>2, <1>4 DEF Waiting
<1>6. Given' = Given \cup {<<k, e>>}
  <2>1. Takers(e)' = Takers(e) \cup {k}
    <3>1. \A m \in Nodes : <<m, e>> \in posts' <=> <<m, e>> \in posts \/ m = k
      BY <1>1
    <3>2. QED
      BY <1>1, <1>2, <1>4, <3>1 DEF Takers
  <2>2. ASSUME NEW f \in Events, f # e PROVE Takers(f)' = Takers(f)
    <3>1. \A m \in Nodes : <<m, f>> \in posts' <=> <<m, f>> \in posts
      BY <1>1, <2>2
    <3>2. QED
      BY <1>1, <1>4, <3>1 DEF Takers
  <2>3. QED
    BY <1>0, <1>2, <2>1, <2>2, GivenGrows
<1>7. Dismissed' = Dismissed
  <2>1. \A m \in Nodes : <<m, Null>> \in posts' <=> <<m, Null>> \in posts
    BY <1>1, ConstantAssumption
  <2>2. QED
    BY <1>1, <1>4, <2>1 DEF Dismissed, SentAway
<1>8. Clearing' = Clearing
  BY <1>0, <1>1 DEF Clearing
<1>9. QED
  BY <1>1, <1>2, <1>3, <1>5, <1>6, <1>7, <1>8
  DEF Registry!Deliver, Registry!ReachesFirst, Given, Dismissed, SentAway, Clearing

\* The end of the walk, or an exception in it.
LEMMA RefusalPasses ==
  ASSUME RInv, TypeOK', NEW e \in Events, FilterPass(e) \/ FilterThrow(e)
  PROVE  Registry!PassOn(e) \/ \E n \in Nodes : Registry!Throw(n, e)
<1> USE TaskMembership, TaskDistinct
<1>0. TypeOK /\ IInv /\ pc \in [Tasks -> Labels]
  BY DEF RInv, TypeOK
<1>1. /\ pc[Filter(e)] = "scanning" /\ pc' = [pc EXCEPT ![Filter(e)] = "returning"]
      /\ UNCHANGED <<active, posts, res, arrival, arrivals, stop>>
  BY DEF FilterPass, FilterThrow, Goto, nodeVars
<1>2. fate[e] = "none"
  BY <1>1 DEF RInv, FateInv
<1>3. \A m \in Nodes : pc'[Wait(m)] = pc[Wait(m)] /\ pc'[Cancel(m)] = pc[Cancel(m)]
  BY <1>0, <1>1
<1>4. Waiting' = Waiting /\ Dismissed' = Dismissed
  BY <1>1, <1>3 DEF Waiting, Dismissed, SentAway
<1>5. Given' = Given
  <2>1. \A f \in Events : Takers(f)' = Takers(f)
    BY <1>0, <1>1, <1>3, OtherTakers
  <2>2. QED
    BY <1>0, <2>1, GivenStays
<1>6. Clearing' = Clearing
  BY <1>0, <1>1 DEF Clearing
<1>7. CASE FilterPass(e)
  <2>1. fate' = [fate EXCEPT ![e] = "passed"] /\ \A w \in Waiting : Verdict[w][e] = "miss"
    BY <1>1, <1>7 DEF FilterPass, RInv, ScanInv
  <2>2. QED
    BY <1>1, <1>2, <1>4, <1>5, <1>6, <2>1
    DEF Registry!PassOn, Given, Dismissed, SentAway, Clearing
<1>8. CASE FilterThrow(e)
  <2>1. /\ fate' = [fate EXCEPT ![e] = "thrown"] /\ Verdict[cursor[e]][e] = "throw"
        /\ cursor[e] \in Waiting /\ cursor[e] \in Nodes
    BY <1>0, <1>1, <1>8 DEF FilterThrow, IInv, ListInv, Waiting
  <2>2. \A v \in Waiting : arrival[v] < arrival[cursor[e]] => Verdict[v][e] = "miss"
    BY <1>1 DEF RInv, ScanInv
  <2>3. Registry!Throw(cursor[e], e)
    BY <1>1, <1>2, <1>4, <1>5, <1>6, <2>1, <2>2
    DEF Registry!Throw, Registry!ReachesFirst, Given, Dismissed, SentAway, Clearing
  <2>4. QED
    BY <2>1, <2>3
<1>9. QED
  BY <1>7, <1>8

\* cancel_task dismisses only who was asked to stop.
LEMMA CancelDismisses ==
  ASSUME RInv, TypeOK', NEW k \in Nodes, CancelTake(k)
  PROVE  Registry!Dismiss(k)
<1> USE TaskMembership, TaskDistinct
<1>0. TypeOK /\ IInv /\ pc \in [Tasks -> Labels]
  BY DEF RInv, TypeOK
<1>1. /\ pc[Cancel(k)] = "locking" /\ pc' = [pc EXCEPT ![Cancel(k)] = "resuming"] /\ active[k]
      /\ UNCHANGED <<active, posts, res, arrival, arrivals, fate, stop>>
  BY DEF CancelTake, Goto, nodeVars
<1>2. k \in Waiting /\ stop[k]
  BY <1>0, <1>1 DEF RInv, IInv, NodeInv, NodeOK, Waiting, StopInv
<1>3. Waiting' = Waiting \ {k}
  BY <1>0, <1>1 DEF Waiting
<1>4. Dismissed' = Dismissed \cup {k}
  BY <1>0, <1>1 DEF Dismissed, SentAway
<1>5. Given' = Given
  <2>1. \A f \in Events : Takers(f)' = Takers(f)
    BY <1>0, <1>1, OtherTakers
  <2>2. QED
    BY <1>0, <2>1, GivenStays
<1>6. Clearing' = Clearing
  BY <1>0, <1>1 DEF Clearing
<1>7. QED
  BY <1>1, <1>2, <1>3, <1>4, <1>5, <1>6 DEF Registry!Dismiss, Given, Dismissed, SentAway, Clearing

\* cancel_all dismisses from the front of the line.
LEMMA SweepDismisses ==
  ASSUME RInv, TypeOK', NEW s \in Sweepers, SweepPost(s)
  PROVE  head \in Nodes /\ Registry!Dismiss(head)
<1> USE TaskMembership, TaskDistinct
<1>0. /\ TypeOK /\ IInv /\ pc \in [Tasks -> Labels] /\ active \in [Nodes -> BOOLEAN]
      /\ head \in OptNode
  BY DEF RInv, TypeOK
<1>1. /\ pc[Sweep(s)] = "sweeping" /\ pc' = [pc EXCEPT ![Sweep(s)] = "advancing"]
      /\ head # Null /\ active' = [active EXCEPT ![head] = FALSE]
      /\ posts' = posts \cup {<<head, Null>>}
      /\ UNCHANGED <<res, arrival, arrivals, fate, stop>>
  BY DEF SweepPost, Goto, resume_on_scheduler_with
<1>2. head \in Waiting /\ head \in Nodes
  BY <1>0, <1>1 DEF IInv, ListInv, First, OptNode
<1>3. \A m \in Nodes : pc'[Wait(m)] = pc[Wait(m)] /\ pc'[Cancel(m)] = pc[Cancel(m)]
  BY <1>0, <1>1
<1>4. Waiting' = Waiting \ {head}
  BY <1>0, <1>1, <1>2, <1>3 DEF Waiting
<1>5. Dismissed' = Dismissed \cup {head}
  <2>1. \A m \in Nodes : <<m, Null>> \in posts' <=> <<m, Null>> \in posts \/ m = head
    BY <1>1
  <2>2. QED
    BY <1>1, <1>2, <1>3, <2>1 DEF Dismissed, SentAway
<1>6. Given' = Given
  <2>1. \A m \in Nodes, f \in Events : <<m, f>> \in posts' <=> <<m, f>> \in posts
    BY <1>1, ConstantAssumption
  <2>2. \A f \in Events : Takers(f)' = Takers(f)
    BY <1>0, <1>1, <1>3, <2>1, OtherTakers
  <2>3. QED
    BY <1>0, <2>2, GivenStays
<1>7. Clearing /\ Clearing'
  BY <1>0, <1>1 DEF Clearing
<1>8. QED
  BY <1>1, <1>2, <1>4, <1>5, <1>6, <1>7 DEF Registry!Dismiss, Given, Dismissed, SentAway, Clearing

\* Stop requests, also those that find the queue of the node null.
LEMMA StopAsks ==
  ASSUME RInv, TypeOK', NEW k \in Nodes, RequestStop(k)
  PROVE  Registry!AskStop(k)
<1> USE TaskMembership, TaskDistinct
<1>0. TypeOK /\ pc \in [Tasks -> Labels]
  BY DEF RInv, TypeOK
<1>1. /\ stop' = [stop EXCEPT ![k] = TRUE] /\ pc[Cancel(k)] = "idle"
      /\ pc' = pc \/ pc' = [pc EXCEPT ![Cancel(k)] = "spawned"]
      /\ UNCHANGED <<active, posts, res, arrival, arrivals, fate>>
  BY DEF RequestStop, request_cancel, Goto, nodeVars, RInv, StopInv
<1>2. /\ \A m \in Nodes : /\ pc'[Wait(m)] = pc[Wait(m)]
                          /\ pc'[Cancel(m)] = "resuming" <=> pc[Cancel(m)] = "resuming"
      /\ \A s \in Sweepers : pc'[Sweep(s)] = pc[Sweep(s)]
  <2>1. \A t \in Tasks : t # Cancel(k) => pc'[t] = pc[t]
    BY <1>0, <1>1
  <2>2. pc'[Cancel(k)] # "resuming"
    BY <1>0, <1>1
  <2>3. QED
    BY <1>1, <2>1, <2>2
<1>3. Waiting' = Waiting /\ Dismissed' = Dismissed /\ Clearing' = Clearing
  BY <1>1, <1>2 DEF Waiting, Dismissed, SentAway, Clearing
<1>4. Given' = Given
  <2>1. \A f \in Events : Takers(f)' = Takers(f)
    BY <1>0, <1>1, <1>2, OtherTakers
  <2>2. QED
    BY <1>0, <2>1, GivenStays
<1>5. QED
  BY <1>1, <1>3, <1>4 DEF Registry!AskStop, Given, Dismissed, SentAway, Clearing

\* A call of cancel_all.
LEMMA SweepAsks ==
  ASSUME RInv, TypeOK', NEW s \in Sweepers, CancelAll(s)
  PROVE  Registry!AskClear
<1> USE TaskMembership, TaskDistinct
<1>0. TypeOK /\ pc \in [Tasks -> Labels]
  BY DEF RInv, TypeOK
<1>1. /\ pc' = [pc EXCEPT ![Sweep(s)] = "locking"]
      /\ UNCHANGED <<active, posts, res, arrival, arrivals, fate, stop>>
  BY DEF CancelAll, Goto, nodeVars
<1>2. \A m \in Nodes : pc'[Wait(m)] = pc[Wait(m)] /\ pc'[Cancel(m)] = pc[Cancel(m)]
  BY <1>0, <1>1
<1>3. Waiting' = Waiting /\ Dismissed' = Dismissed
  BY <1>1, <1>2 DEF Waiting, Dismissed, SentAway
<1>4. Clearing'
  BY <1>0, <1>1 DEF Clearing
<1>5. Given' = Given
  <2>1. \A f \in Events : Takers(f)' = Takers(f)
    BY <1>0, <1>1, <1>2, OtherTakers
  <2>2. QED
    BY <1>0, <2>1, GivenStays
<1>6. QED
  BY <1>1, <1>3, <1>4, <1>5 DEF Registry!AskClear, Given, Dismissed, SentAway, Clearing

\* A resumption is not seen: the call had been given its event or dismissed.
LEMMA ResumptionHidden ==
  ASSUME RInv, TypeOK', NEW k \in Nodes, Resume(k) \/ CancelResume(k)
  PROVE  UNCHANGED Registry!vars
<1>0. TypeOK /\ IInv /\ pc \in [Tasks -> Labels]
  BY DEF RInv, TypeOK
<1>1. /\ UNCHANGED <<active, arrival, arrivals, fate, stop>>
      /\ pc[Wait(k)] = "suspended" /\ pc'[Wait(k)] = "done"
      /\ \/ pc'[Cancel(k)] = pc[Cancel(k)]
         \/ pc[Cancel(k)] = "resuming" /\ pc'[Cancel(k)] = "done"
      /\ \A m \in Nodes : m # k => /\ pc'[Wait(m)] = pc[Wait(m)] /\ pc'[Cancel(m)] = pc[Cancel(m)]
                                   /\ res'[m] = res[m]
      /\ \A s \in Sweepers : pc'[Sweep(s)] = pc[Sweep(s)]
  <2>1. /\ UNCHANGED <<active, arrival, arrivals, fate, stop>> /\ pc[Wait(k)] = "suspended"
        /\ \A m \in Nodes : m # k => res'[m] = res[m]
    BY <1>0 DEF Resume, CancelResume, resume_with, nodeVars, TypeOK
  <2>2. \/ pc' = [pc EXCEPT ![Wait(k)] = "done"]
        \/ /\ pc[Cancel(k)] = "resuming"
           /\ pc' = [pc EXCEPT ![Cancel(k)] = "done", ![Wait(k)] = "done"]
    BY DEF Resume, CancelResume, Goto
  <2>3. /\ \A t \in Tasks : t # Wait(k) /\ t # Cancel(k) => pc'[t] = pc[t]
        /\ pc'[Wait(k)] = "done"
        /\ \/ pc'[Cancel(k)] = pc[Cancel(k)]
           \/ pc[Cancel(k)] = "resuming" /\ pc'[Cancel(k)] = "done"
    <3>1. Wait(k) \in Tasks /\ Cancel(k) \in Tasks /\ Wait(k) # Cancel(k)
      BY TaskMembership, TaskDistinct
    <3>2. CASE pc' = [pc EXCEPT ![Wait(k)] = "done"]
      BY <1>0, <3>1, <3>2
    <3>3. CASE /\ pc[Cancel(k)] = "resuming"
               /\ pc' = [pc EXCEPT ![Cancel(k)] = "done", ![Wait(k)] = "done"]
      BY <1>0, <3>1, <3>3
    <3>4. QED
      BY <2>2, <3>2, <3>3
  <2>4. QED
    BY <2>1, <2>3, TaskMembership, TaskDistinct
<1>2. k \notin Waiting
  BY <1>0 DEF Resume, CancelResume, Waiting, IInv, PostInv
<1>3. Waiting' = Waiting
  BY <1>1, <1>2 DEF Waiting
<1>4. Clearing' = Clearing
  BY <1>1 DEF Clearing
<1>5. Given' = Given
  <2>1. \A e \in Events : Takers(e)' = Takers(e)
    BY <1>0, ResumeTakers, CancelTakers
  <2>2. QED
    BY <1>0, <2>1, GivenStays
<1>6. Dismissed' = Dismissed
  <2>1. CASE Resume(k)
    <3>1. PICK p \in posts : p[1] = k /\ res' = [res EXCEPT ![k] = p[2]] /\ posts' = posts \ {p}
      BY <2>1 DEF Resume, resume_with
    <3>2. /\ p = <<k, p[2]>> /\ ~active[k] /\ res'[k] = p[2]
          /\ \A q \in posts : q[1] = k => q = p
      BY <1>0, <3>1 DEF IInv, PostInv, TypeOK
    <3>3. pc[Cancel(k)] # "resuming"
      BY <1>0, <3>2 DEF IInv, NodeInv, NodeOK
    <3>4. SentAway(k)' <=> SentAway(k)
      BY <1>1, <3>1, <3>2, <3>3 DEF SentAway
    <3>5. ASSUME NEW m \in Nodes, m # k PROVE SentAway(m)' <=> SentAway(m)
      <4>1. <<m, Null>> \in posts' <=> <<m, Null>> \in posts
        BY <3>1, <3>2, <3>5
      <4>2. QED
        BY <1>1, <3>5, <4>1 DEF SentAway
    <3>6. QED
      BY <3>4, <3>5 DEF Dismissed
  <2>2. CASE CancelResume(k)
    <3>1. pc[Cancel(k)] = "resuming" /\ res'[k] = Null /\ posts' = posts
      BY <1>0, <2>2 DEF CancelResume, resume_with, TypeOK
    <3>2. \A m \in Nodes : SentAway(m)' <=> SentAway(m)
      BY <1>1, <3>1 DEF SentAway
    <3>3. QED
      BY <3>2 DEF Dismissed
  <2>3. QED
    BY <2>1, <2>2
<1>7. QED
  BY <1>1, <1>3, <1>4, <1>5, <1>6, Mapping

\* Nor is any step that moves tasks without linking, picking or resuming calls.
LEMMA TaskHidden ==
  ASSUME RInv, TypeOK', UNCHANGED <<active, arrival, arrivals, posts, res, fate, stop>>,
         NEW t \in Tasks, NEW label \in Labels, pc' = pc \/ pc' = [pc EXCEPT ![t] = label],
         \A n \in Nodes : t = Wait(n) => pc[t] = "idle" /\ label = "locking",
         \A n \in Nodes : t = Cancel(n) => pc[t] # "resuming" /\ label # "resuming",
         \A s \in Sweepers : t = Sweep(s) => pc[t] # "idle" /\ label # "idle"
  PROVE  UNCHANGED Registry!vars
<1> USE TaskMembership, TaskDistinct
<1>0. TypeOK /\ pc \in [Tasks -> Labels]
  BY DEF RInv, TypeOK
<1>1. /\ \A n \in Nodes : /\ pc'[Wait(n)] = "suspended" <=> pc[Wait(n)] = "suspended"
                          /\ pc'[Wait(n)] = "done" <=> pc[Wait(n)] = "done"
                          /\ pc'[Cancel(n)] = "resuming" <=> pc[Cancel(n)] = "resuming"
      /\ \A s \in Sweepers : pc'[Sweep(s)] = "idle" <=> pc[Sweep(s)] = "idle"
  BY <1>0
<1>2. Waiting' = Waiting /\ Dismissed' = Dismissed /\ Clearing' = Clearing
  BY <1>1 DEF Waiting, Dismissed, SentAway, Clearing
<1>3. Given' = Given
  <2>1. \A f \in Events : Takers(f)' = Takers(f)
    BY <1>0, <1>1, OtherTakers
  <2>2. QED
    BY <1>0, <2>1, GivenStays
<1>4. QED
  BY <1>2, <1>3, Mapping

(***************************************************************************)
(* Every step of the queue is a step of the registry or is not seen there. *)
(***************************************************************************)
\* The steps of a call and of its cancel_task.
LEMMA NodeRefines ==
  ASSUME RInv, TypeOK', NEW n \in Nodes,
         NodeStep(n) \/ NextEvent(n) \/ NextEventStopped(n) \/ RequestStop(n)
  PROVE  [Registry!Next]_(Registry!vars)
<1>1. CASE Enqueue(n)
  BY <1>1, EnqueueJoins DEF Registry!Next
<1>2. CASE CancelTake(n)
  BY <1>2, CancelDismisses DEF Registry!Next
<1>3. CASE RequestStop(n)
  BY <1>3, StopAsks DEF Registry!Next
<1>4. CASE Resume(n) \/ CancelResume(n)
  BY <1>4, ResumptionHidden
<1>5. CASE NextEvent(n)
  <2>1. /\ UNCHANGED <<active, arrival, arrivals, posts, res, fate, stop>>
        /\ pc[Wait(n)] = "idle" /\ pc' = [pc EXCEPT ![Wait(n)] = "locking"]
    BY <1>5 DEF NextEvent, Goto, nodeVars
  <2>2. /\ Wait(n) \in Tasks /\ \A m \in Nodes : Wait(n) # Cancel(m)
        /\ \A s \in Sweepers : Wait(n) # Sweep(s)
    BY TaskMembership, TaskDistinct
  <2>3. UNCHANGED Registry!vars
    BY <2>1, <2>2, TaskHidden DEF Labels
  <2>4. QED
    BY <2>3
<1>6. CASE CancelLock(n) \/ CancelSkip(n)
  <2>1. /\ UNCHANGED <<active, arrival, arrivals, posts, res, fate, stop>>
        /\ pc[Cancel(n)] # "resuming"
        /\ \E label \in {"locking", "done"} : pc' = [pc EXCEPT ![Cancel(n)] = label]
    BY <1>6 DEF CancelLock, CancelSkip, Goto, nodeVars
  <2>2. /\ Cancel(n) \in Tasks /\ \A m \in Nodes : Cancel(n) # Wait(m)
        /\ \A s \in Sweepers : Cancel(n) # Sweep(s)
    BY TaskMembership, TaskDistinct
  <2>3. PICK label \in {"locking", "done"} : pc' = [pc EXCEPT ![Cancel(n)] = label]
    BY <2>1
  <2>4. UNCHANGED Registry!vars
    BY <2>1, <2>2, <2>3, TaskHidden DEF Labels
  <2>5. QED
    BY <2>4
<1>7. CASE NextEventStopped(n) \/ CancelDead(n)
  <2>1. UNCHANGED <<active, arrival, arrivals, posts, res, fate, stop, pc>>
    BY <1>7 DEF NextEventStopped, CancelDead, nodeVars
  <2>2. UNCHANGED Registry!vars
    BY <2>1, Mapping DEF Waiting, Given, Dismissed, SentAway, Clearing
  <2>3. QED
    BY <2>2
<1>8. QED
  BY <1>1, <1>2, <1>3, <1>4, <1>5, <1>6, <1>7 DEF NodeStep

\* The steps of filter_event: only the verdict that ends the walk is seen.
LEMMA EventRefines ==
  ASSUME RInv, TypeOK', NEW e \in Events, EventStep(e) \/ FilterEvent(e)
  PROVE  [Registry!Next]_(Registry!vars)
<1>1. CASE FilterMatch(e)
  <2>1. cursor[e] \in Nodes
    BY <1>1 DEF FilterMatch, RInv, TypeOK, OptNode
  <2>2. QED
    BY <1>1, <2>1, MatchDelivers DEF Registry!Next
<1>2. CASE FilterPass(e) \/ FilterThrow(e)
  BY <1>2, RefusalPasses DEF Registry!Next
<1>3. CASE FilterLock(e) \/ FilterMiss(e) \/ FilterReturn(e) \/ FilterEvent(e)
  <2>1. /\ UNCHANGED <<active, arrival, arrivals, posts, res, fate, stop>>
        /\ pc' = pc \/ \E label \in Labels : pc' = [pc EXCEPT ![Filter(e)] = label]
    BY <1>3 DEF FilterLock, FilterMiss, FilterReturn, FilterEvent, Goto, nodeVars, Labels
  <2>2. UNCHANGED Registry!vars
    BY <2>1, TaskHidden, TaskMembership, TaskDistinct DEF Labels
  <2>3. QED
    BY <2>2
<1>4. QED
  BY <1>1, <1>2, <1>3 DEF EventStep

\* The steps of cancel_all: each post dismisses the waiter at the head.
LEMMA SweepRefines ==
  ASSUME RInv, TypeOK', NEW s \in Sweepers, SweepStep(s) \/ CancelAll(s)
  PROVE  [Registry!Next]_(Registry!vars)
<1>1. CASE CancelAll(s)
  BY <1>1, SweepAsks DEF Registry!Next
<1>2. CASE SweepPost(s)
  <2>1. head \in Nodes /\ Registry!Dismiss(head)
    BY <1>2, SweepDismisses
  <2>2. QED
    BY <2>1 DEF Registry!Next, Registry!Dismiss
<1>3. CASE SweepLock(s) \/ SweepAdvance(s) \/ SweepReturn(s)
  <2>1. /\ UNCHANGED <<active, arrival, arrivals, posts, res, fate, stop>>
        /\ pc[Sweep(s)] # "idle"
        /\ \E label \in {"sweeping", "done"} : pc' = [pc EXCEPT ![Sweep(s)] = label]
    BY <1>3 DEF SweepLock, SweepAdvance, SweepReturn, Goto, nodeVars
  <2>2. /\ Sweep(s) \in Tasks /\ \A m \in Nodes : Sweep(s) # Wait(m) /\ Sweep(s) # Cancel(m)
    BY TaskMembership, TaskDistinct
  <2>3. PICK label \in {"sweeping", "done"} : pc' = [pc EXCEPT ![Sweep(s)] = label]
    BY <2>1
  <2>4. UNCHANGED Registry!vars
    BY <2>1, <2>2, <2>3, TaskHidden DEF Labels
  <2>5. QED
    BY <2>4
<1>4. QED
  BY <1>1, <1>2, <1>3 DEF SweepStep

\* Closing the scope is not seen; all the other steps are those above.
LEMMA StepRefines ==
  ASSUME RInv, TypeOK', [Next]_vars
  PROVE  [Registry!Next]_(Registry!vars)
<1>1. CASE Cleanup \/ CleanupJoin \/ UNCHANGED vars
  <2>1. UNCHANGED <<active, arrival, arrivals, posts, res, fate, stop, pc>>
    BY <1>1 DEF Cleanup, CleanupJoin, vars, nodeVars
  <2>2. UNCHANGED Registry!vars
    BY <2>1, Mapping DEF Waiting, Given, Dismissed, SentAway, Clearing
  <2>3. QED
    BY <2>2
<1>2. QED
  BY <1>1, NodeRefines, EventRefines, SweepRefines DEF Next, Environment

(***************************************************************************)
(* The walk.                                                               *)
(***************************************************************************)
\* A walk passes nobody but waiters that rejected its event: those behind the
\* cursor stay where they are, and nobody joins while the mutex is held.
LEMMA ScanStep ==
  ASSUME RInv, [Next]_vars
  PROVE  ScanInv'
<1> USE TaskMembership, TaskDistinct
<1>0. /\ TypeOK /\ LockInv /\ IInv /\ ScanInv /\ pc \in [Tasks -> Labels]
      /\ active \in [Nodes -> BOOLEAN] /\ cursor \in [Events -> OptNode]
  BY DEF RInv, TypeOK
<1>1. ASSUME NEW k \in Nodes, Enqueue(k) PROVE ScanInv'
  BY <1>0, <1>1, OwnerAlone DEF Enqueue, Goto, Critical, ScanInv
<1>2. ASSUME arrival' = arrival, Waiting' \subseteq Waiting, cursor' = cursor,
             \A e \in Events : pc'[Filter(e)] = "scanning" => pc[Filter(e)] = "scanning"
      PROVE  ScanInv'
  BY <1>0, <1>2 DEF ScanInv
<1>3. ASSUME NEW k \in Nodes,
             \/ NextEvent(k) \/ NextEventStopped(k) \/ RequestStop(k) \/ Resume(k)
             \/ CancelLock(k) \/ CancelTake(k) \/ CancelSkip(k) \/ CancelResume(k) \/ CancelDead(k)
      PROVE  ScanInv'
  <2>1. UNCHANGED <<active, arrival, cursor>>
    BY <1>3 DEF NextEvent, NextEventStopped, RequestStop, Resume, CancelLock, CancelTake,
                CancelSkip, CancelResume, CancelDead, nodeVars, taskVars
  <2>2. \A t \in Tasks : t # Wait(k) /\ t # Cancel(k) => pc'[t] = pc[t]
    BY <1>0, <1>3 DEF NextEvent, NextEventStopped, RequestStop, request_cancel, Resume, CancelLock,
                CancelTake, CancelSkip, CancelResume, CancelDead, Goto
  <2>3. k \in Waiting' => k \in Waiting
    BY <1>0, <1>3 DEF NextEvent, NextEventStopped, RequestStop, request_cancel, Resume, CancelLock,
                CancelTake, CancelSkip, CancelResume, CancelDead, Goto, Waiting, nodeVars,
                RInv, StopInv
  <2>4. Waiting' \subseteq Waiting
    BY <2>1, <2>2, <2>3 DEF Waiting
  <2>5. QED
    BY <1>2, <2>1, <2>2, <2>4
<1>4. ASSUME NEW s \in Sweepers, SweepStep(s) \/ CancelAll(s) PROVE ScanInv'
  <2>1. /\ arrival' = arrival /\ cursor' = cursor
        /\ \A n \in Nodes : active'[n] => active[n]
        /\ \E label \in Labels : pc' = [pc EXCEPT ![Sweep(s)] = label]
    BY <1>0, <1>4 DEF SweepStep, SweepLock, SweepPost, SweepAdvance, SweepReturn, CancelAll, Goto,
                      nodeVars, taskVars, Labels
  <2>2. \A t \in Tasks : t # Sweep(s) => pc'[t] = pc[t]
    BY <1>0, <2>1
  <2>3. Waiting' \subseteq Waiting
    BY <2>1, <2>2 DEF Waiting
  <2>4. QED
    BY <1>2, <2>1, <2>2, <2>3
<1>5. ASSUME NEW e \in Events, EventStep(e) \/ FilterEvent(e) PROVE ScanInv'
  <2>1. /\ arrival' = arrival
        /\ \A n \in Nodes : active'[n] => active[n]
        /\ pc' = pc \/ \E label \in Labels : pc' = [pc EXCEPT ![Filter(e)] = label]
        /\ \A f \in Events : f # e => cursor'[f] = cursor[f]
    BY <1>0, <1>5 DEF EventStep, FilterEvent, FilterLock, FilterMatch, FilterMiss, FilterThrow,
                      FilterPass, FilterReturn, Goto, nodeVars, taskVars, Labels
  <2>2. \A t \in Tasks : t # Filter(e) => pc'[t] = pc[t]
    BY <1>0, <2>1
  <2>3. Waiting' \subseteq Waiting
    BY <2>1, <2>2 DEF Waiting
  <2>4. ASSUME pc'[Filter(e)] = "scanning", NEW m \in Waiting',
               cursor'[e] = Null \/ arrival[m] < arrival[cursor'[e]]
        PROVE  Verdict[m][e] = "miss"
    <3>1. FilterLock(e) \/ FilterMiss(e)
      BY <1>0, <1>5, <2>4 DEF EventStep, FilterEvent, FilterMatch, FilterThrow, FilterPass,
                              FilterReturn, Goto
    <3>2. CASE FilterLock(e)
      <4>1. cursor'[e] = head /\ First(head)
        BY <1>0, <3>2, OwnerFindsList DEF FilterLock, IInv, Backward
      <4>2. QED
        BY <1>0, <2>3, <2>4, <4>1 DEF First, TypeOK, Waiting
    <3>3. CASE FilterMiss(e)
      <4>1. /\ pc[Filter(e)] = "scanning" /\ cursor[e] \in Waiting
            /\ Verdict[cursor[e]][e] = "miss" /\ cursor'[e] = next[cursor[e]]
        BY <1>0, <3>3 DEF FilterMiss, IInv, ListInv
      <4>2. arrival[m] < arrival[cursor[e]] => Verdict[m][e] = "miss"
        BY <1>0, <2>3, <2>4, <4>1 DEF ScanInv
      <4>3. arrival[m] <= arrival[cursor[e]]
        BY <1>0, <2>3, <2>4, <4>1 DEF IInv, ListInv, Forward, TypeOK, Waiting
      <4>4. arrival[m] = arrival[cursor[e]] => m = cursor[e]
        BY <1>0, <2>3, <2>4, <4>1, WaitingFacts DEF IInv
      <4>5. QED
        BY <1>0, <2>3, <2>4, <4>1, <4>2, <4>3, <4>4 DEF TypeOK, Waiting
    <3>4. QED
      BY <3>1, <3>2, <3>3
  <2>5. ASSUME NEW f \in Events, f # e, pc'[Filter(f)] = "scanning", NEW m \in Waiting',
               cursor'[f] = Null \/ arrival[m] < arrival[cursor'[f]]
        PROVE  Verdict[m][f] = "miss"
    BY <1>0, <2>1, <2>2, <2>3, <2>5 DEF ScanInv
  <2>6. QED
    BY <2>1, <2>4, <2>5 DEF ScanInv
<1>6. CASE Cleanup \/ CleanupJoin \/ UNCHANGED vars
  <2>1. UNCHANGED <<active, arrival, cursor, pc>>
    BY <1>6 DEF Cleanup, CleanupJoin, vars, nodeVars, taskVars
  <2>2. QED
    BY <1>2, <2>1 DEF Waiting
<1>7. QED
  BY <1>1, <1>3, <1>4, <1>5, <1>6 DEF Next, Environment, NodeStep

\* The queue starts as an empty line.
LEMMA InitRefines == Init => Registry!Init
<1> SUFFICES ASSUME Init PROVE Registry!Init
  OBVIOUS
<1>1. Waiting = {} /\ Given = {} /\ Dismissed = {} /\ ~Clearing
  BY TaskMembership DEF Init, Waiting, Given, Dismissed, SentAway, Clearing
<1>2. QED
  BY <1>1 DEF Init, Registry!Init, Given, Dismissed, SentAway, Clearing

\* What the registry sees is an invariant of the queue.
LEMMA RegistryInvariant == Spec => []RInv
<1>1. Init => ScanInv
  BY TaskMembership DEF Init, ScanInv
<1>2. RInv /\ [Next]_vars => ScanInv'
  BY ScanStep
<1>3. RInv <=> /\ TypeOK /\ LockInv /\ StopInv
               /\ TypeOK /\ LockInv /\ IInv
               /\ FateInv /\ EventConserved
               /\ ScanInv
  BY DEF RInv
<1>4. QED
  BY <1>1, <1>2, <1>3, TypedInvariant, SafetyInvariant, ConservedInvariant, PTL DEF Spec

\* The linked list, its mutex, the stop callbacks and the posted resumptions
\* implement the registry: an event goes, in one step, to the first waiter that
\* accepts it, and only a waiter that was asked to stop or cleared leaves without.
THEOREM RegistryImplemented == Spec => ImplementsRegistry
<1>1. RInv /\ [Next]_vars => [Registry!Next]_(Registry!vars)
  BY StepRefines, TypeStep DEF RInv
<1>2. QED
  BY <1>1, InitRefines, RegistryInvariant, PTL DEF Spec, ImplementsRegistry, Registry!Spec
=============================================================================
