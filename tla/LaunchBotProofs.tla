-------------------------- MODULE LaunchBotProofs --------------------------
(***************************************************************************)
(* Proofs about LaunchBot, for any number of calls, threads and deadlines. *)
(***************************************************************************)
EXTENDS LaunchBot, SequenceTheorems, TLAPS

\* What is on the strand of a call, by the state of its timer.
StrandInv(c) ==
  /\ tmr[c] \in {"none", "starting"} => strand[c] = <<>>
  /\ tmr[c] \in {"registered", "armed", "gone"} => strand[c] \in {<<>>, <<"cancel">>}
  /\ tmr[c] = "expired" =>
       strand[c] \in {<<"handler">>, <<"cancel", "handler">>, <<"handler", "cancel">>}
  /\ tmr[c] = "aborted" => strand[c] = <<"handler">>

\* Who asked for the stop, and when.
StopInv(c) ==
  /\ strand[c] \notin {<<>>, <<"handler">>} \/ tmr[c] = "aborted" => stop[c]
  /\ tmr[c] \in {"none", "starting", "registered"} /\ stop[c] => early[c]
  /\ tmr[c] = "armed" /\ stop[c] /\ ~ early[c] => strand[c] = <<"cancel">>

\* A wait for an event that is given up has a reason.
GaveUp(c) ==
  Kind[c] = "timed" /\ src[c] \in {"cancelling", "done"} => now >= Deadline[c] \/ parent[c]

\* What has happened by the time a call ends.
TimeInv(c) ==
  /\ tmr[c] = "expired" => now >= Deadline[c]
  /\ tmr[c] = "gone" /\ strand[c] # <<>> => now >= Deadline[c]
  /\ tres[c] = "elapsed" => now >= Deadline[c]
  /\ GaveUp(c)

CallInv(c) == StrandInv(c) /\ StopInv(c) /\ TimeInv(c)

IndInv == TypeOK /\ \A c \in Calls : CallInv(c)

\* Append to a sequence of length one.
LEMMA AppendToOne ==
  ASSUME NEW S, NEW x \in S, NEW y \in S
  PROVE  Append(<<x>>, y) = <<x, y>>
<1> DEFINE s == Append(<<x>>, y)  t == <<x, y>>
<1>1. <<x>> \in Seq(S) /\ Len(<<x>>) = 1 /\ <<x>>[1] = x OBVIOUS
<1>2. t \in Seq(S) /\ Len(t) = 2 /\ t[1] = x /\ t[2] = y OBVIOUS
<1>3. s \in Seq(S) /\ Len(s) = 2 /\ s[1] = x /\ s[2] = y BY <1>1, AppendProperties
<1> HIDE DEF s, t
<1>4. s = t BY <1>2, <1>3, SeqEqual
<1> QED BY <1>4 DEF s, t

\* The few strands there are.
LEMMA Strands ==
  /\ Append(<<>>, "cancel") = <<"cancel">>
  /\ Append(<<>>, "handler") = <<"handler">>
  /\ Append(<<"handler">>, "cancel") = <<"handler", "cancel">>
  /\ Append(<<"cancel">>, "handler") = <<"cancel", "handler">>
  /\ Tail(<<"cancel">>) = <<>> /\ Tail(<<"handler">>) = <<>>
  /\ Tail(<<"cancel", "handler">>) = <<"handler">>
  /\ Tail(<<"handler", "cancel">>) = <<"cancel">>
  /\ Head(<<"cancel">>) = "cancel" /\ Head(<<"handler">>) = "handler"
  /\ Head(<<"cancel", "handler">>) = "cancel" /\ Head(<<"handler", "cancel">>) = "handler"
  /\ <<>> # <<"cancel">> /\ <<>> # <<"handler">> /\ <<"cancel">> # <<"handler">>
  /\ <<"handler", "cancel">> \notin {<<>>, <<"handler">>}
  /\ <<"cancel", "handler">> \notin {<<>>, <<"handler">>}
<1>1. Append(<<>>, "cancel") = <<"cancel">> OBVIOUS
<1>2. Append(<<>>, "handler") = <<"handler">> OBVIOUS
<1>3. Append(<<"handler">>, "cancel") = <<"handler", "cancel">>
  BY AppendToOne, "handler" \in {"handler", "cancel"}, "cancel" \in {"handler", "cancel"}, Zenon
<1>4. Append(<<"cancel">>, "handler") = <<"cancel", "handler">>
  BY AppendToOne, "cancel" \in {"cancel", "handler"}, "handler" \in {"cancel", "handler"}, Zenon
<1>5. Tail(<<"cancel">>) = <<>> OBVIOUS
<1>6. Tail(<<"handler">>) = <<>> OBVIOUS
<1>7. Tail(<<"cancel", "handler">>) = <<"handler">> OBVIOUS
<1>8. Tail(<<"handler", "cancel">>) = <<"cancel">> OBVIOUS
<1>9. Head(<<"cancel">>) = "cancel" OBVIOUS
<1>10. Head(<<"cancel", "handler">>) = "cancel" OBVIOUS
<1>11. <<>> # <<"cancel">> /\ <<>> # <<"handler">> /\ <<"cancel">> # <<"handler">> OBVIOUS
<1>12. <<"handler", "cancel">> \notin {<<>>, <<"handler">>} OBVIOUS
<1> QED BY <1>1, <1>2, <1>3, <1>4, <1>5, <1>6, <1>7, <1>8, <1>9, <1>10, <1>11, <1>12

\* The invariant holds at the start ...
LEMMA IndInit == Init => IndInv
<1> SUFFICES ASSUME Init PROVE IndInv OBVIOUS
<1>1. TypeOK BY LaunchAssumption DEF Init, TypeOK
<1>2. ASSUME NEW c \in Calls PROVE CallInv(c)
  BY <1>2 DEF Init, CallInv, StrandInv, StopInv, TimeInv, GaveUp
<1> QED BY <1>1, <1>2 DEF IndInv

\* A call that a step does not touch keeps its invariant: time only passes.
LEMMA Untouched ==
  ASSUME IndInv, NEW c \in Calls,
         src'[c] = src[c], tmr'[c] = tmr[c], strand'[c] = strand[c], tres'[c] = tres[c],
         stop'[c] = stop[c], parent'[c] = parent[c], early'[c] = early[c],
         now' \in Nat, now' >= now
  PROVE  CallInv(c)'
<1>1. CallInv(c) /\ now \in Nat /\ Deadline[c] \in Nat
  BY LaunchAssumption DEF IndInv, TypeOK
<1> QED BY <1>1 DEF CallInv, StrandInv, StopInv, TimeInv, GaveUp

\* A request for stop, of a call that was asked or of one that was not.
LEMMA StopStep ==
  ASSUME IndInv, NEW C \in SUBSET Calls, NEW c \in Calls, request_stop(C),
         tmr'[c] = tmr[c], tres'[c] = tres[c], now' = now, GaveUp(c)'
  PROVE  CallInv(c)'
<1> USE Strands DEF IndInv, TypeOK, CallInv, StrandInv, StopInv, TimeInv
<1>1. CASE c \in Asked(C) /\ c \in Registered
  BY <1>1 DEF request_stop, cancel, Asked, Registered
<1>2. CASE c \in Asked(C) /\ c \notin Registered
  BY <1>2 DEF request_stop, cancel, Asked, Registered
<1>3. CASE c \notin Asked(C)
  BY <1>3 DEF request_stop, cancel, Asked
<1> QED BY <1>1, <1>2, <1>3

\* Starting a timer.
LEMMA StartSteps ==
  ASSUME IndInv, NEW c \in Calls, Call(c) \/ Register(c) \/ await_suspend(c) \/ Expire(c)
  PROVE  \A d \in Calls : CallInv(d)'
<1>1. now' = now /\ now \in Nat
  BY LaunchAssumption DEF IndInv, TypeOK, Call, Register, await_suspend, Expire
<1>2. ASSUME NEW d \in Calls, d # c PROVE CallInv(d)'
  <2> USE DEF IndInv, TypeOK
  <2>1. src'[d] = src[d] /\ tmr'[d] = tmr[d] /\ strand'[d] = strand[d]
    BY <1>2 DEF Call, Register, await_suspend, Expire, cancel
  <2>2. tres'[d] = tres[d] /\ stop'[d] = stop[d] /\ parent'[d] = parent[d] /\ early'[d] = early[d]
    BY DEF Call, Register, await_suspend, Expire
  <2> QED BY <1>1, <2>1, <2>2, Untouched
<1>3. CallInv(c)'
  <2> USE Strands, <1>1 DEF IndInv, TypeOK, CallInv, StrandInv, StopInv, TimeInv, GaveUp
  <2>1. CASE Call(c) BY <2>1 DEF Call, Started, HasSource, HasTimer
  <2>2. CASE Register(c) BY <2>2 DEF Register, cancel
  <2>3. CASE await_suspend(c) BY <2>3 DEF await_suspend
  <2>4. CASE Expire(c) BY <2>4 DEF Expire
  <2> QED BY <2>1, <2>2, <2>3, <2>4
<1> QED BY <1>2, <1>3

\* The handlers of the strand.
LEMMA StrandSteps ==
  ASSUME IndInv, NEW c \in Calls, RunCancel(c) \/ RunDeadCancel(c) \/ RunHandler(c)
  PROVE  \A d \in Calls : CallInv(d)'
<1>1. now' = now /\ now \in Nat
  BY LaunchAssumption DEF IndInv, TypeOK, RunCancel, RunDeadCancel, RunHandler
<1>2. ASSUME NEW d \in Calls, d # c PROVE CallInv(d)'
  <2> USE DEF IndInv, TypeOK
  <2>1. src'[d] = src[d] /\ stop'[d] = stop[d]
    BY <1>2 DEF RunCancel, RunDeadCancel, RunHandler, request_cancel, Asked
  <2>2. tmr'[d] = tmr[d] /\ strand'[d] = strand[d] /\ tres'[d] = tres[d]
    BY <1>2 DEF RunCancel, RunDeadCancel, RunHandler
  <2>3. parent'[d] = parent[d] /\ early'[d] = early[d]
    BY DEF RunCancel, RunDeadCancel, RunHandler
  <2> QED BY <1>1, <2>1, <2>2, <2>3, Untouched
<1>3. CallInv(c)'
  <2> USE Strands, <1>1 DEF IndInv, TypeOK, CallInv, StrandInv, StopInv, TimeInv, GaveUp, NextOnStrand
  <2>1. CASE RunCancel(c) BY <2>1 DEF RunCancel
  <2>2. CASE RunDeadCancel(c) BY <2>2 DEF RunDeadCancel
  <2>3. CASE RunHandler(c)
    <3>1. tmr[c] = "expired" \/ tmr[c] = "aborted" BY <2>3 DEF RunHandler
    <3>2. StrandInv(c)' /\ StopInv(c)' BY <2>3, <3>1 DEF RunHandler
    <3>3. TimeInv(c)' BY <2>3, <3>1 DEF RunHandler, wait_async, request_cancel, Asked
    <3> QED BY <3>2, <3>3
  <2> QED BY <2>1, <2>2, <2>3
<1> QED BY <1>2, <1>3

\* The wait for an event, and the stop requests.
LEMMA SourceSteps ==
  ASSUME IndInv, NEW c \in Calls, EventArrives(c) \/ EndSource(c) \/ RequestStop(c)
  PROVE  \A d \in Calls : CallInv(d)'
<1>1. now' = now /\ now \in Nat /\ tmr' = tmr /\ tres' = tres
  BY LaunchAssumption DEF IndInv, TypeOK, EventArrives, EndSource, RequestStop
<1>2. ASSUME NEW d \in Calls PROVE GaveUp(d)'
  <2> USE <1>1 DEF IndInv, TypeOK, CallInv, TimeInv, GaveUp
  <2>1. CASE EventArrives(c) BY <2>1 DEF EventArrives
  <2>2. CASE EndSource(c) BY <2>2 DEF EndSource
  <2>3. CASE RequestStop(c) BY <2>3 DEF RequestStop, request_cancel, Asked
  <2> QED BY <2>1, <2>2, <2>3
<1>3. ASSUME NEW d \in Calls, UNCHANGED <<strand, stop, early>> PROVE CallInv(d)'
  BY <1>1, <1>2, <1>3 DEF IndInv, CallInv, StrandInv, StopInv, TimeInv
<1>4. ASSUME NEW d \in Calls, request_stop({c}) PROVE CallInv(d)'
  BY <1>1, <1>2, <1>4, StopStep
<1> QED BY <1>3, <1>4 DEF EventArrives, EndSource, RequestStop

\* launch_async_bot, and the clock.
LEMMA LaunchSteps ==
  ASSUME IndInv, Tick \/ ProgramIdles \/ RunReturns \/ LaunchReturn
  PROVE  \A d \in Calls : CallInv(d)'
<1>1. now \in Nat /\ now' \in Nat /\ now' >= now
  BY LaunchAssumption DEF IndInv, TypeOK, Tick, ProgramIdles, RunReturns, LaunchReturn
<1>2. CASE Tick \/ ProgramIdles \/ LaunchReturn
  BY <1>1, <1>2, Untouched DEF Tick, ProgramIdles, LaunchReturn, callVars
<1>3. CASE RunReturns
  <2> DEFINE C == {c \in Calls : Started(c) /\ ~ Returned(c)}
  <2>1. tmr' = tmr /\ tres' = tres /\ now' = now /\ request_stop(C)
    BY <1>3 DEF RunReturns
  <2>2. ASSUME NEW d \in Calls PROVE GaveUp(d)'
    BY <1>1, <1>3, <2>1 DEF RunReturns, request_cancel, Asked, GaveUp, IndInv, TypeOK, CallInv, TimeInv
  <2> QED BY <2>1, <2>2, StopStep
<1> QED BY <1>2, <1>3

\* Types; the strand is the only part whose type is not plain from the step.
LEMMA TypeStep == IndInv /\ [Next]_vars => TypeOK'
<1> SUFFICES ASSUME IndInv, [Next]_vars PROVE TypeOK' OBVIOUS
<1> USE LaunchAssumption DEF TypeOK, IndInv
<1>1. CASE UNCHANGED vars BY <1>1 DEF vars, callVars
<1>2. ASSUME NEW c \in Calls, Call(c) PROVE TypeOK' BY <1>2 DEF Call
<1>3. ASSUME NEW c \in Calls, Register(c) PROVE TypeOK' BY <1>3 DEF Register, cancel
<1>4. ASSUME NEW c \in Calls, await_suspend(c) PROVE TypeOK' BY <1>4 DEF await_suspend
<1>5. ASSUME NEW c \in Calls, Expire(c) PROVE TypeOK' BY <1>5 DEF Expire
<1>6. ASSUME NEW c \in Calls, RunCancel(c) PROVE TypeOK' BY <1>6 DEF RunCancel, NextOnStrand
<1>7. ASSUME NEW c \in Calls, RunDeadCancel(c) PROVE TypeOK' BY <1>7 DEF RunDeadCancel, NextOnStrand
<1>8. ASSUME NEW c \in Calls, RunHandler(c) PROVE TypeOK'
  <2>1. stop' \in [Calls -> BOOLEAN]
    BY <1>8 DEF RunHandler
  <2>2. src' \in [Calls -> {"none", "waiting", "cancelling", "posted", "event", "done"}]
    BY <1>8 DEF RunHandler, request_cancel
  <2>3. strand' \in [Calls -> Seq({"cancel", "handler"})]
    BY <1>8 DEF RunHandler, NextOnStrand
  <2> QED BY <1>8, <2>1, <2>2, <2>3 DEF RunHandler, wait_async
<1>9. ASSUME NEW c \in Calls, EndSource(c) PROVE TypeOK'
  <2>1. stop' \in [Calls -> BOOLEAN] /\ early' \in [Calls -> BOOLEAN]
    BY <1>9 DEF EndSource, request_stop
  <2>2. strand' \in [Calls -> Seq({"cancel", "handler"})]
    <3>1. CASE request_stop({c}) BY <3>1 DEF request_stop, cancel
    <3>2. CASE UNCHANGED strand BY <3>2
    <3> QED BY <1>9, <3>1, <3>2 DEF EndSource
  <2> QED BY <1>9, <2>1, <2>2 DEF EndSource
<1>10. ASSUME NEW c \in Calls, EventArrives(c) PROVE TypeOK' BY <1>10 DEF EventArrives
<1>11. ASSUME NEW c \in Calls, RequestStop(c) PROVE TypeOK'
  BY <1>11 DEF RequestStop, request_stop, request_cancel, cancel
<1>12. CASE Tick BY <1>12 DEF Tick, callVars
<1>13. CASE ProgramIdles \/ LaunchReturn BY <1>13 DEF ProgramIdles, LaunchReturn, callVars
<1>14. CASE RunReturns BY <1>14 DEF RunReturns, request_stop, request_cancel, cancel
<1> QED BY <1>1, <1>2, <1>3, <1>4, <1>5, <1>6, <1>7, <1>8, <1>9, <1>10, <1>11, <1>12, <1>13, <1>14
    DEF Next, Step

\* ... and every step preserves it.
LEMMA IndStep == IndInv /\ [Next]_vars => IndInv'
<1> SUFFICES ASSUME IndInv, [Next]_vars PROVE \A d \in Calls : CallInv(d)'
  BY TypeStep DEF IndInv
<1>1. CASE UNCHANGED vars
  BY <1>1 DEF IndInv, vars, callVars, CallInv, StrandInv, StopInv, TimeInv, GaveUp
<1>2. CASE Next
  BY <1>2, StartSteps, StrandSteps, SourceSteps, LaunchSteps DEF Next, Step
<1> QED BY <1>1, <1>2

\* The invariant behind the theorems below: the strand of a call and who asked
\* it to stop agree with the state of its timer at every moment.
THEOREM Inductive == Spec => []IndInv
  BY IndInit, IndStep, PTL DEF Spec

\* Every state of launch_async_bot and of the calls of its program is well typed.
THEOREM TypeCorrect == Spec => []TypeOK
<1>1. IndInv => TypeOK BY DEF IndInv
<1> QED BY <1>1, Inductive, PTL

\* wait_async never reports a time that has not come, and next_event_async
\* with a deadline gives up only after it or when asked to.
THEOREM NeverEarly == Spec => []NoEarlyReturn
<1>1. IndInv => NoEarlyReturn
  BY LaunchAssumption DEF IndInv, TypeOK, CallInv, TimeInv, GaveUp, NoEarlyReturn, timeout_as_optional, HasSource
<1> QED BY <1>1, Inductive, PTL

\* WaitUntilAwaiter::cancel meets a destroyed awaiter in one race only.
THEOREM OneDeadlyRace == Spec => []DeadCancelOnlyAfterExpiry
<1>1. IndInv => DeadCancelOnlyAfterExpiry
  BY Strands DEF IndInv, CallInv, StrandInv, StopInv, TimeInv, DeadCancelOnlyAfterExpiry
<1> QED BY <1>1, Inductive, PTL

\* A stop request of a running timer stays on the strand until it is carried out.
THEOREM StopNotLost == Spec => []StopReachesTimer
<1>1. IndInv => StopReachesTimer
  <2> SUFFICES ASSUME IndInv, NEW c \in Calls, tmr[c] = "armed", stop[c], ~ early[c]
               PROVE  \E i \in DOMAIN strand[c] : strand[c][i] = "cancel"
    BY DEF StopReachesTimer
  <2>1. strand[c] = <<"cancel">> BY DEF IndInv, CallInv, StopInv
  <2> QED BY <2>1
<1> QED BY <1>1, Inductive, PTL

-----------------------------------------------------------------------------
(***************************************************************************)
(* The end of the program.  io_context::run returns when no timer and no   *)
(* handler is left; that no next_event_async with a deadline is left then  *)
(* either needs that whoever asked it to stop also reached the wait for    *)
(* its event, and that the end of its timer is such a request (SourceInv). *)
(***************************************************************************)
SourceInv(c) ==
  /\ Kind[c] = "wait" => src[c] = "none"
  /\ Kind[c] = "event" => tmr[c] = "none"
  /\ Kind[c] = "timed" => (src[c] = "none" <=> tmr[c] = "none")
  /\ stop[c] => Started(c) /\ src[c] # "waiting"
  /\ Kind[c] = "timed" /\ tmr[c] = "gone" => stop[c]

\* What is left of a call when run() has returned.
LeftInv(c) ==
  /\ tmr[c] \in {"none", "gone"}
  /\ src[c] \in {"none", "event", "done"} \/ (Kind[c] = "event" /\ src[c] = "cancelling")

EndInv ==
  /\ \A c \in Calls : SourceInv(c)
  /\ phase # "running" => \A c \in Calls : LeftInv(c)

\* Steps of a running program: one call moves, the others stay as they are.
LEMMA SourceStep ==
  ASSUME IndInv, EndInv, NEW c \in Calls,
         \/ Call(c) \/ Expire(c) \/ RunCancel(c) \/ RunDeadCancel(c) \/ RunHandler(c)
         \/ EventArrives(c) \/ EndSource(c) \/ RequestStop(c)
  PROVE  EndInv'
<1> USE DEF IndInv, TypeOK
<1>1. phase = "running" /\ phase' = phase
  BY DEF Call, Expire, RunCancel, RunDeadCancel, RunHandler, EventArrives, EndSource, RequestStop,
         NextOnStrand, ThreadFree
<1>2. SUFFICES ASSUME NEW d \in Calls PROVE SourceInv(d)'
  BY <1>1 DEF EndInv
<1>3. SourceInv(d) /\ SourceInv(c) /\ Kind[d] \in {"wait", "event", "timed"}
  BY LaunchAssumption DEF EndInv
<1>4. CASE d # c
  <2>1. src'[d] = src[d] /\ tmr'[d] = tmr[d] /\ stop'[d] = stop[d]
    BY <1>4 DEF Call, Expire, RunCancel, RunDeadCancel, RunHandler, EventArrives, EndSource,
                RequestStop, request_stop, request_cancel, Asked
  <2>2. QED
    BY <1>3, <2>1 DEF SourceInv, Started
<1>5. CASE d = c
  <2> USE <1>3, <1>5 DEF SourceInv, Started
  <2>1. CASE Call(c)
    BY <2>1 DEF Call, HasSource, HasTimer
  <2>2. CASE Expire(c)
    BY <2>2 DEF Expire
  <2>3. CASE RunCancel(c) \/ RunDeadCancel(c)
    BY <2>3 DEF RunCancel, RunDeadCancel
  <2>4. CASE RunHandler(c)
    <3>1. tmr[c] \in {"expired", "aborted"}
      BY <2>4, Strands DEF RunHandler, NextOnStrand, CallInv, StrandInv
    <3>2. tmr'[c] = "gone" /\ Kind[c] # "event"
      BY <2>4, <3>1 DEF RunHandler
    <3>3. CASE Kind[c] = "timed"
      <4>1. stop'[c] /\ src'[c] = IF ~ stop[c] /\ src[c] = "waiting" THEN "cancelling" ELSE src[c]
        BY <2>4, <3>3 DEF RunHandler, request_cancel, Asked
      <4>2. src'[c] # "waiting" /\ src'[c] # "none"
        BY <3>1, <3>3, <4>1
      <4>3. QED
        BY <3>2, <3>3, <4>1, <4>2
    <3>4. CASE Kind[c] # "timed"
      BY <2>4, <3>2, <3>4 DEF RunHandler
    <3>5. QED
      BY <3>3, <3>4
  <2>5. CASE EventArrives(c)
    BY <2>5 DEF EventArrives
  <2>6. CASE EndSource(c)
    BY <2>6 DEF EndSource, request_stop
  <2>7. CASE RequestStop(c)
    BY <2>7 DEF RequestStop, request_stop, request_cancel, Asked
  <2>8. QED
    BY <2>1, <2>2, <2>3, <2>4, <2>5, <2>6, <2>7
<1>6. QED
  BY <1>4, <1>5

\* A timer is started by a thread that is still in run().
LEMMA StartStep ==
  ASSUME IndInv, EndInv, NEW c \in Calls, Register(c) \/ await_suspend(c)
  PROVE  EndInv'
<1>1. phase = "running"
  BY DEF Register, await_suspend, EndInv, LeftInv, IndInv, TypeOK
<1>2. phase' = phase /\ UNCHANGED <<src, stop>>
  BY DEF Register, await_suspend
<1>3. \A d \in Calls : tmr'[d] = tmr[d] \/ {tmr[d], tmr'[d]} \cap {"none", "gone"} = {}
  BY DEF Register, await_suspend, IndInv, TypeOK
<1>4. QED
  BY <1>1, <1>2, <1>3 DEF EndInv, SourceInv, Started

\* run() returns: nothing is pending, and what waits for an event is cancelled.
LEMMA ReturnStep ==
  ASSUME IndInv, EndInv, RunReturns
  PROVE  EndInv'
<1> DEFINE C == {c \in Calls : Started(c) /\ ~ Returned(c)}
<1>1. SUFFICES ASSUME NEW c \in Calls PROVE SourceInv(c)' /\ LeftInv(c)'
  BY DEF EndInv
<1>2. /\ tmr' = tmr /\ stop'[c] = (stop[c] \/ c \in C)
      /\ src'[c] = IF c \in C /\ ~ stop[c] /\ src[c] = "waiting" THEN "cancelling" ELSE src[c]
  BY DEF RunReturns, request_stop, request_cancel, Asked
<1>3. SourceInv(c) /\ StrandInv(c) /\ Kind[c] \in {"wait", "event", "timed"}
  BY LaunchAssumption DEF EndInv, IndInv, CallInv
<1>4. tmr[c] \in {"none", "gone"} /\ src[c] \notin {"posted", "cancelling"}
  <2>1. /\ tmr[c] \notin {"starting", "registered", "armed"} /\ strand[c] = <<>>
        /\ src[c] \notin {"posted", "cancelling"}
    BY DEF RunReturns, HasWork, Starting
  <2>2. tmr[c] \notin {"expired", "aborted"}
    BY <1>3, <2>1, Strands DEF StrandInv
  <2>3. QED
    BY <2>1, <2>2 DEF IndInv, TypeOK
<1>5. src[c] \in {"none", "waiting", "event", "done"}
  BY <1>4 DEF IndInv, TypeOK
<1>6. src[c] = "waiting" => Kind[c] = "event" /\ ~ stop[c] /\ c \in C
  BY <1>3, <1>4 DEF SourceInv, Started, Returned, HasSource, SourceEnded
<1>7. LeftInv(c)'
  BY <1>2, <1>4, <1>5, <1>6 DEF LeftInv
<1>8. c \in C => Started(c)
  OBVIOUS
<1>9. SourceInv(c)'
  BY <1>2, <1>3, <1>4, <1>5, <1>6, <1>8 DEF SourceInv, Started
<1>10. QED
  BY <1>7, <1>9

LEMMA EndStep == IndInv /\ EndInv /\ [Next]_vars => EndInv'
<1> SUFFICES ASSUME IndInv, EndInv, [Next]_vars PROVE EndInv'
  OBVIOUS
<1>1. CASE Tick \/ ProgramIdles \/ LaunchReturn \/ UNCHANGED vars
  <2>1. UNCHANGED <<src, tmr, stop>> /\ (phase' = phase \/ phase # "running")
    BY <1>1 DEF Tick, ProgramIdles, LaunchReturn, vars, callVars
  <2>2. QED
    BY <2>1 DEF EndInv, SourceInv, LeftInv, Started
<1>2. CASE Next
  BY <1>1, <1>2, SourceStep, StartStep, ReturnStep DEF Next, Step
<1>3. QED
  BY <1>1, <1>2

\* After run() has returned, only a wait for an event without a deadline can
\* keep launch_async_bot from returning.
THEOREM OnlyEventWaits == Spec => []OnlyEventWaitsLeft
<1>1. Init => EndInv
  BY DEF Init, EndInv, SourceInv, Started
<1>2. ASSUME IndInv, EndInv PROVE OnlyEventWaitsLeft
  <2>1. SUFFICES ASSUME phase # "running", NEW c \in Calls, Started(c), ~ Returned(c)
                 PROVE  Kind[c] = "event" /\ src[c] = "cancelling"
    BY DEF OnlyEventWaitsLeft
  <2>2. SourceInv(c) /\ LeftInv(c) /\ Kind[c] \in {"wait", "event", "timed"}
    BY <1>2, <2>1, LaunchAssumption DEF EndInv
  <2>3. QED
    BY <2>1, <2>2 DEF SourceInv, LeftInv, Started, Returned, HasSource, HasTimer, SourceEnded
<1>3. QED
  BY <1>1, <1>2, EndStep, Inductive, PTL DEF Spec
=============================================================================
