--------------------------- MODULE WaiterRegistry ---------------------------
(***************************************************************************)
(* What the filter queue promises to the callers of next_event_async.      *)
(*                                                                         *)
(* Waiters stand in line.  An event goes, in one atomic step, to the first *)
(* of them whose predicate accepts it, to the monitor's callback when none *)
(* does, or to the exception handler when a predicate throws before one    *)
(* accepts.  A waiter leaves without an event only when it was asked to    *)
(* stop or when the whole line is being cleared.                           *)
(***************************************************************************)
EXTENDS Naturals

CONSTANTS Waiters, Events, Verdict

VARIABLES
  waiting,    \* the waiters in line
  ticket,     \* the position at which a waiter joined; 0 before it does
  issued,     \* the last ticket issued
  given,      \* the events given away: pairs <<waiter, event>>
  dismissed,  \* the waiters sent away without an event
  fate,       \* what became of each event
  stop,       \* the waiters asked to stop
  clearing    \* whether clearing the line has been asked for

vars == <<waiting, ticket, issued, given, dismissed, fate, stop, clearing>>

Init ==
  /\ waiting = {}
  /\ ticket = [w \in Waiters |-> 0]
  /\ issued = 0
  /\ given = {}
  /\ dismissed = {}
  /\ fate = [e \in Events |-> "none"]
  /\ stop = [w \in Waiters |-> FALSE]
  /\ clearing = FALSE

Join(w) ==
  /\ ticket[w] = 0
  /\ issued' = issued + 1
  /\ ticket' = [ticket EXCEPT ![w] = issued + 1]
  /\ waiting' = waiting \cup {w}
  /\ UNCHANGED <<given, dismissed, fate, stop, clearing>>

\* The predicate of every waiter ahead of w has rejected the event.
ReachesFirst(w, e) == \A v \in waiting : ticket[v] < ticket[w] => Verdict[v][e] = "miss"

Deliver(w, e) ==
  /\ fate[e] = "none"
  /\ w \in waiting
  /\ Verdict[w][e] = "match"
  /\ ReachesFirst(w, e)
  /\ waiting' = waiting \ {w}
  /\ given' = given \cup {<<w, e>>}
  /\ fate' = [fate EXCEPT ![e] = "taken"]
  /\ UNCHANGED <<ticket, issued, dismissed, stop, clearing>>

PassOn(e) ==
  /\ fate[e] = "none"
  /\ \A w \in waiting : Verdict[w][e] = "miss"
  /\ fate' = [fate EXCEPT ![e] = "passed"]
  /\ UNCHANGED <<waiting, ticket, issued, given, dismissed, stop, clearing>>

Throw(w, e) ==
  /\ fate[e] = "none"
  /\ w \in waiting
  /\ Verdict[w][e] = "throw"
  /\ ReachesFirst(w, e)
  /\ fate' = [fate EXCEPT ![e] = "thrown"]
  /\ UNCHANGED <<waiting, ticket, issued, given, dismissed, stop, clearing>>

AskStop(w) ==
  /\ stop' = [stop EXCEPT ![w] = TRUE]
  /\ UNCHANGED <<waiting, ticket, issued, given, dismissed, fate, clearing>>

AskClear ==
  /\ clearing' = TRUE
  /\ UNCHANGED <<waiting, ticket, issued, given, dismissed, fate, stop>>

Dismiss(w) ==
  /\ w \in waiting
  /\ stop[w] \/ clearing
  /\ waiting' = waiting \ {w}
  /\ dismissed' = dismissed \cup {w}
  /\ UNCHANGED <<ticket, issued, given, fate, stop, clearing>>

Next ==
  \/ \E w \in Waiters : Join(w) \/ AskStop(w) \/ Dismiss(w)
  \/ \E w \in Waiters, e \in Events : Deliver(w, e) \/ Throw(w, e)
  \/ \E e \in Events : PassOn(e)
  \/ AskClear

Spec == Init /\ [][Next]_vars
=============================================================================
