---------------------------- MODULE ThreadParser ----------------------------
(***************************************************************************)
(* The JSON parsers of bot.cpp: one thread_local parser for each thread    *)
(* that calls Bot::run.  A parsed document lives in its parser until that  *)
(* parser parses again.                                                    *)
(*                                                                         *)
(* A request looks its parser up after its reply has come, on the thread   *)
(* it was resumed on, and is done with the document before it suspends.    *)
(* The read loop of monitor_events_async evaluates                         *)
(*     parser.parse(co_await ws.read_async())                              *)
(* in which the object expression comes before the argument: the parser is *)
(* that of the thread on which the loop suspends, whichever thread it is   *)
(* resumed on.                                                             *)
(***************************************************************************)
CONSTANTS
  Threads,   \* threads in Bot::run
  Requests,  \* requests in progress
  Monitor,   \* the read loop
  Null       \* no thread, no document

Tasks == Requests \cup {Monitor}

VARIABLES
  on,      \* the thread a task runs on; null while it is suspended
  parser,  \* the thread whose parser the task holds a reference to
  doc,     \* whose text each parser parsed last
  at       \* "suspended", "resumed" with a text, or "parsed"

vars == <<on, parser, doc, at>>

\* The read loop has just suspended for the first time.
Init ==
  /\ on = [k \in Tasks |-> Null]
  /\ \E t \in Threads : parser = [k \in Tasks |-> IF k = Monitor THEN t ELSE Null]
  /\ doc = [t \in Threads |-> Null]
  /\ at = [k \in Tasks |-> "suspended"]

FreeThread(t) == \A k \in Tasks : on[k] # t

\* get_checked_response_json is called once the reply is there.
ResumeRequest(r, t) ==
  /\ at[r] = "suspended"
  /\ FreeThread(t)
  /\ on' = [on EXCEPT ![r] = t]
  /\ at' = [at EXCEPT ![r] = "resumed"]
  /\ parser' = [parser EXCEPT ![r] = t]
  /\ UNCHANGED doc

ResumeMonitor(t) ==
  /\ at[Monitor] = "suspended"
  /\ FreeThread(t)
  /\ on' = [on EXCEPT ![Monitor] = t]
  /\ at' = [at EXCEPT ![Monitor] = "resumed"]
  /\ UNCHANGED <<parser, doc>>

Parse(k) ==
  /\ at[k] = "resumed"
  /\ doc' = [doc EXCEPT ![parser[k]] = k]
  /\ at' = [at EXCEPT ![k] = "parsed"]
  /\ UNCHANGED <<on, parser>>

\* The document has been read: results are copied out of it.
FinishRequest(r) ==
  /\ at[r] = "parsed"
  /\ at' = [at EXCEPT ![r] = "suspended"]
  /\ on' = [on EXCEPT ![r] = Null]
  /\ parser' = [parser EXCEPT ![r] = Null]
  /\ UNCHANGED doc

\* parse_event has copied the event; the loop comes round, looks up the parser
\* of the thread it is on and suspends in read_async.
LoopMonitor ==
  /\ at[Monitor] = "parsed"
  /\ parser' = [parser EXCEPT ![Monitor] = on[Monitor]]
  /\ at' = [at EXCEPT ![Monitor] = "suspended"]
  /\ on' = [on EXCEPT ![Monitor] = Null]
  /\ UNCHANGED doc

Next ==
  \/ \E r \in Requests : FinishRequest(r) \/ \E t \in Threads : ResumeRequest(r, t)
  \/ \E k \in Tasks : Parse(k)
  \/ \E t \in Threads : ResumeMonitor(t)
  \/ LoopMonitor

Spec == Init /\ [][Next]_vars

\* run() may be called from several threads: whatever a task reads from its
\* document is what it parsed, not the text of another task.
OwnDocument == \A k \in Tasks : at[k] = "parsed" => doc[parser[k]] = k
=============================================================================
