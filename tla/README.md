# Verification of Mirai++

Mirai++ (`src/lib`) is a C++20 client of mirai-api-http. A program creates a
`Bot`, authorizes it for one QQ account, sends requests over HTTP and receives
events over a websocket, with coroutines that run on the threads which call
`Bot::run`. This directory holds TLA+ models of its stateful parts, the TLC
configurations that check them and the proofs checked by TLAPS.

## 1. Inventory

| Component | State | Operations | Hard behaviour |
|---|---|---|---|
| Event filter queue (`detail/filter`, `Bot::next_event_async`) | doubly linked list of nodes that live in coroutine frames, asynchronous mutex, scope of cancel tasks, `active_` of each node, resumptions posted to the `io_context` | `wait`, `filter_event`, `cancel_task`, `request_cancel`, `cancel_all`, `cleanup` | the node disappears when its call returns; three tasks compete to resume a call; cancellation races the match; predicates throw under the mutex |
| Bot session (`core/bot.cpp`) | `bot_id_`, `sess_key_` | `authorize`, `release`, `~Bot` and some forty keyed requests, synchronous and asynchronous | members are read before a suspension and written after it; replies in any order; lost replies; destructor that terminates |
| HTTP client (`core/net_client.cpp`) | one connection per request | connect, write, read, shut down, check the status | failure before or after the server acted |
| Event monitor (`monitor_events`, `monitor_events_async`, `WebsocketSession`) | websocket, scope of callbacks | read loop, spawn a callback per event, close, cleanup of two scopes | stop during a read, close twice, read errors, order of the cleanups, a second session |
| Timer waits (`wait_async`, `WaitUntilAwaiter`) | timer, strand | wait, fire, cancel | cancel races expiry and destruction; stop before the timer is started |
| `launch_async_bot` | threads, scope | run, join, cleanup | who runs the cleanup after `run` returned |
| Thread parsers (`core/bot.cpp`) | one `thread_local` JSON parser per thread, each with its last document | parse, read the document | a task holds a parser across a suspension and is resumed on another thread |
| Message, segments | vector of segments | parse, format, append, collapse adjacent texts, compare, extract text | what was received, put together and sent again must read the same |
| Events | data of the event, pointer to its `Bot` | parse (some thirty types), send, quote, respond | fields that are missing, events without a `Bot`, one bad event in a batch |
| JSON, multipart, records, exceptions | none | conversions | characters that need escapes |

**Interaction.** The event monitor calls `FilterQueue::filter_event` for every
event and gives the event to the program's callback only if no waiter took it.
A callback may itself wait with `next_event_async`; the version with a deadline
races the call against a timer and requests stop when the timer wins. Requests
go through the HTTP client with the session key of the `Bot`. Everything shares
one `io_context`.

**What makes each part correct.** Filter queue: a call is resumed once, an event
goes to the first matching waiter and to nobody else, the list stays well formed,
no task follows a pointer to a dead node, every cancellation and every event
finishes. Session: the account a `Bot` reports is the one its key is bound to, a
session is forgotten only once the server closed it, and is closed when the `Bot`
goes away. Monitor: closing ends the loop, all callbacks are joined, and the next
session works like the first; a lost connection is reported. Waits: none ends
before its time, a stop request reaches its timer, and an event that was given to
a call is what the call returns, whatever its deadline does at that moment.
`launch_async_bot` returns when the program is done. Messages and events: a frame
becomes the event it stands for or an exception, and a message that is received,
put together and sent again says the same to the reader.

The hazards, each with the properties that would catch it, are in
`PROJECT.json`.

## 2. Modules

| Module | Models | Kind |
|---|---|---|
| `FilterQueue` | `filter_queue.{h,cpp}`, `next_event.h`, `next_event_async` and `timeout_as_optional` of `bot.h` | component |
| `WaiterRegistry` | what the filter queue promises | abstract specification |
| `BotSession` | session, requests and destructor of `bot.cpp`, exchanges of `net_client.cpp` | component |
| `MonitorEvents` | `monitor_events_async` of `bot.cpp`, the websocket parts of `net_client.cpp` | component, composed with the interface of `FilterQueue` |
| `LaunchBot` | `launch_async_bot`, `wait_async`, `WaitUntilAwaiter`, `next_event_async` with a deadline | component, composed with the interface of `FilterQueue` |
| `ThreadParser` | the `thread_local` parsers of `bot.cpp` | component |
| `Messages` | `message.{h,cpp}`, `segment_types.{h,cpp}`, the strings of `json.h` | operators |
| `Events` | `event.{h,cpp}`, `event_types.{h,cpp}`, `event_bases.{h,cpp}`, the records of `info_types` that events hold | operators, on top of `Messages` |
| `ApiServer` | how mirai-api-http reads a request (external) | operators, the reference for `Messages` |
| `SyncMonitor` | the synchronous `monitor_events` and what its callback may do | component, composes `Events` and `ApiServer` |
| `Loop` | a loop over a sequence, which is how the conversions go through messages and texts | helper |
| `FilterQueueProofs`, `RegistryProofs`, `MonitorEventsProofs`, `BotSessionProofs`, `LaunchBotProofs`, `LoopProofs`, `MessagesProofs`, `SyncMonitorProofs` | | proofs about these modules |
| `MCFilterQueue`, `MCMonitorEvents`, `MCBotSession`, `MCLaunchBot`, `MCSyncMonitor` | | constants of the runs |

### FilterQueue

Each variable is a member of the code: `head`, `tail` of the queue; `prev`,
`next`, `active` and `bound` (is `queue_` assigned?) of each node; `lockq` is the
`async_mutex` with its owner first and those suspended in `async_lock` behind it,
which unifex resumes in first-in first-out order; `scope` is the `async_scope`;
`posts` are the handlers given to the `io_context` by `resume_on_scheduler_with`;
`pc` is the place each task has reached. `arrival` and `arrivals` are history
variables. An action runs from one suspension point to the next, except inside
the critical sections of `filter_event` and `cancel_all`, which are split at each
predicate call, each post and each step of the walk: other threads resume calls
and destroy nodes in between. The number of a task's steps is bounded by the
constant sets only.

A predicate is a constant table `Verdict` (match, miss or throw for each event):
`match_filter` first tests the type of the event and then calls the program's
function; both are its verdict.

The build's undefined behaviour is kept as a choice. `request_cancel` on a node
whose `queue_` is null stops the process (`fault = "null_queue"`). A
`cancel_task` that reads a destroyed node may stop the process (`CancelDead`) or
see the bytes the node had, and then goes on as if it were there. Every safety
property holds along both branches. That is a fact about this choice of outcomes,
not a licence: a build that reuses the frame's memory can do worse, which is why
`CancelFindsNode` is a finding.

`cancel_all` has no caller in the repository (`filter_queue.h:45` announces one);
it is a public operation and is modelled as `Sweepers`.

### WaiterRegistry

A set of waiters with tickets. An event is given atomically to the waiting call
with the lowest ticket that matches it, provided no waiter before it throws on
it; a waiter can be dismissed; nobody is served twice. `FilterQueue!Registry` is the
refinement mapping: the waiters are the calls that are suspended and not picked; an event is given from the moment it is
posted; a call is dismissed from the moment `cancel_task` or `cancel_all` decides
to resume it with nothing.

### MonitorEvents

One call of `monitor_events_async` at a time, `Rounds` of them on the same `Bot`.
`pc` follows the call: connecting, reading, then the stages of `finally`.
`task[e]` is the coroutine spawned for event `e`; `task[Stop]` the close spawned
by the stop callback. `scope` is the local `async_scope`, new in every call;
`qscope` is the one in `FilterQueue`, a member of the `Bot`. The filter queue is
represented by what `FilterQueue` guarantees: a waiting callback is taken by one
event or by one cancel task. A callback whose wait is cancelled ends with done and
closes the stream, or runs on if the wait had a deadline, since
`timeout_as_optional` turns done into an empty result. The queue's order, its mutex
and reads of dead nodes are `FilterQueue`'s subject; that a stop request finds
`queue_` null is kept (`fault = "null_queue"`) because the cleanup's stop request can
meet it.

The close that the stop callback spawns (`bot.cpp:791`) has nobody to catch its
exception. It fails when the stream has ended otherwise, through a callback's close
too, and the process is then terminated (`StopClosed`, `fault = "terminate"`).

External, from how the code uses them: Beast serialises closes, so the second one
fails; after a local close the pending read reports `operation_canceled`; an
error that breaks the stream is reported once and `operation_canceled` from then
on. A unifex `async_scope` ignores what is spawned after its cleanup began, and
terminates the process when a spawned task ends with an exception. A malformed
frame only calls `exception_handler`, which is assumed not to throw.

The coroutine spawned for an event is created by a lambda that no longer exists
when the coroutine starts (`bot.cpp:801`), so that each use of its captures is
undefined; the model lets it work or stop the process (`CallbackDangles`).

### BotSession

`bot_id` and `sess_key` are the members. Each call is suspended at a label of
`pc` between a request and its reply, so calls overlap as coroutines, or as
threads that use the synchronous functions, do. The server is external:
`/auth` issues a fresh key, `/verify` binds it to an account, `/release` closes a
session bound to that account, everything else needs a bound key. `Failures`
says what can go wrong: a request the server never saw (`unsent`), a reply that
did not come back (`lost`: broken connection, HTTP error status, failed
shutdown), and a refusal (`rejected`). The some forty requests differ in path and
payload and are alike in what they do to the session: they read `sess_key_` when
the body is built and leave the members alone; they appear as the four groups in
which `bot.cpp` lists them. `~Bot` is taken only when no call is in progress: a
program that destroys a `Bot` in use breaks the language's rules, not this
library's.

### LaunchBot

A program on the threads of `launch_async_bot`, making calls of three kinds:
`wait_async`, `next_event_async`, and `next_event_async` with a deadline, which is
the other two joined by `stop_when`. `tmr[c]` is the awaiter of a call's timer
with the three steps of its start (the stop callback is registered before the
timer is started, and other threads run in between), `strand[c]` the handlers
queued on its `strand_`, `src[c]` its wait for an event, `stop[c]` its stop token,
`parent[c]` whether the program or the cleanup asked for the stop (as opposed to
`stop_when`). `now` is the clock. The wait for an event is linked in the queue as
soon as the call is made: that a stop request may find `queue_` still null is
`FilterQueue`'s subject (finding `cancel_finds_queue`) and left out here.

`WaitUntilAwaiter::cancel` posts a handler that holds `this`. When the timer has
expired by itself, its handler may be in front of the cancellation: it resumes the
coroutine, which destroys the awaiter, and the cancellation then finds it gone.
`RunDeadCancel` lets that go unnoticed or stop the process
(`DeadCancelOnlyAfterExpiry` says that this is the only way to get there). A stop
request that comes before the timer is started cancels nothing, because there is
no pending wait yet: the call then ends at its deadline. `early` marks those, and
`StopReachesTimer` speaks of all others.

`RunReturns` is the return of `bot.run()` on every thread: `HasWork` says what
keeps an `io_context` running. The cleanup of the scope follows on a thread that
runs nothing: a call that waits for an event without a deadline then gets a cancel
task that nobody executes, and `launch_async_bot` does not return. `LaunchReturns`
states that this is the only case.

### ThreadParser

`on` is the thread a task runs on, `parser` the thread whose parser it has looked
up, `doc` the text each parser parsed last. A request looks up its parser after
its reply came; the read loop evaluates `parser.parse(co_await ws.read_async())`,
whose object expression comes first. The synchronous functions never change
threads.

### Messages, Events, ApiServer

Texts are sequences of characters from an alphabet with one ordinary letter or
more, a newline, a quote and a backslash: those are the characters that JSON
treats differently. A JSON object is a function from keys to values; `Null` is
null, an empty optional, and the result of a conversion that throws.

`Messages!Layout` has for each type of segment the keys that `from_json` needs,
those it can do without, and those that `format_as_json` writes, in order.
`segment_from_json`, `message_from_json`, `sent_message_from_json` and
`message_as_json` are the conversions. `Merge` is what `collapse_adjacent_text`
and the parsing of forwarded messages do to neighbouring texts; concatenation
leaves them apart. `JsonQuoted` escapes what `json.h` escapes, which is not the
quote and not the backslash.

Forwarded and quoted messages nest, so the conversions of the code call
themselves. In the modules the conversion of an inner message is a constant
operator (`inner_as_json`, `inner_from_json`, `quoted_from_json`, and for the
server `InnerReadable`, `InnerDecoded` and `InnerReading`), and `SyncMonitor.cfg`
gives it the outer conversion, which ties the knot: TLC evaluates the recursive
functions of the code. The lemmas of `MessagesProofs` say what an outer conversion
does if the inner one does its part; `SyncMonitor` states the equations of the knot
as `NestedAssumption`, which TLC evaluates in the run and `SyncMonitorProofs` uses
for the induction. The loops of `collapse_adjacent_text`, of
`SentMessage::from_json`, of the formatter of strings and of the reader at the
server are instances of `Loop`, whose `Run` is the `FoldLeft` of the community
modules written as a function on the number of turns.

`Events!Fields` has for each class the fields its `from_json` reads with their
types, composed as the classes are composed of their bases; `ClassTable` and
`SubType` choose class and subtype by the `type` of the JSON.
`send_target`, `quoted`, `send_message_body` and `respond_body` are what an event
sends back and where. The `recall`, `mute` and `at_` shortcuts are left out.

`ApiServer` is external: it reads a request as a JSON parser and a user would.
`Unquote` undoes the escapes of JSON, `Readable` says whether every string of a
chain can be read (one that cannot spoils the request), `DecodedChain` is what was
read, and `Reading` is what is seen. It is independent of the code and serves as
the reference for it. `WellTyped` and `IsChain` describe what the server sends: a
member that is there is a number, a text over the alphabet, or an array of nodes.

### SyncMonitor

`pc` follows `monitor_events`: connecting, reading, in the callback, in the
exception handler, closing (normally, or `unwinding` because the handler threw).
`stream` is the websocket: open, closed by the server, broken, or `ended` once a
read has reported it. The callback is a program of the kind the tutorial shows:
it adds the content of the event's message or a text of its own to a draft,
collapses it, sends it (as a reply, with a quote), responds to a request, or looks
at another event, from `retrieve_message` or from a batch. `meant` records what
the draft should say, taken from the received JSON by `ApiServer!Reading` and
never from the parsed message (`Content` is what of the chain is no source and no
quote). `Expected` in `MCSyncMonitor` says what each frame means by the protocol
and where an answer to it belongs, independently of `Events`. `Nested` are the
messages inside forwarded ones, at any depth, and `Depth` says how deep each is.

The close in `scope_exit` may throw: during unwinding that ends the process, and
in a normal exit it depends on the exception specification of the destructor of
`clu::scope_exit`, which is not part of the repository, so both are possible. An
event of `retrieve_message` has no `Bot`: `parse_event` sets it, and
`retrieve_message` calls the conversion directly. A request through such an event
dereferences null and ends the process.

## 3. Runs

| Run | Bounds | Shows |
|---|---|---|
| `filter_queue` | 3 calls, 2 events, no sweeper; one predicate throws | `TypeOK`, `MutualExclusion`, `ListIntact`, `SingleResume`, `NoLostWakeup`, `StopReachesWaiter`, `EventConserved` |
| `filter_queue_sweep` | 2 calls, 2 events, 1 `cancel_all`, fair | `PointersLive`, `ImplementsRegistry` (refinement of `WaiterRegistry`), `CancelCompletes`, `EventSettles`, `CleanupJoins` |
| `cancel_finds_queue` | as above, violation | a stop request before the node is linked dereferences null |
| `cancel_finds_node` | as above, violation | `cancel_task` reads a node that is gone |
| `monitor_events` | 1 call, 3 events, fair | `TypeOK`, `NothingOutlivesMonitor`, `WaitersAreCancelled`, `StopClosesStream`, `ClosesAnswered`, `EndedReturns`, `StopReturns` |
| `monitor_twice` | 2 calls, 1 event, fair, violation | in the second call a waiting callback is never cancelled |
| `bot_session` | 4 calls, 2 accounts, 2 keys, all failures | `TypeOK`, `IdentityCoherent`, `SessionLive`, `ForgetsOnlyClosed`, `SessionStable`, `NoSessionLeaked`, `DestroyReleases`, `TerminatesOnlyOnFailure` |
| `one_account` | 2 calls that may overlap, no failure, violation | two accounts bound by one `Bot` |
| `destroy_ends_sessions` | rejected verification, violation | the session from `/auth` outlives the `Bot` |
| `launch` | one call of each kind, 2 threads, clock up to 2, fair | `TypeOK`, `NoEarlyReturn`, `DeadCancelOnlyAfterExpiry`, `StopReachesTimer`, `OnlyEventWaitsLeft`, `EventReturned`, `LaunchReturns` |
| `thread_parser` | 2 threads, 2 requests, violation | the read loop parses into the parser of a thread that uses it |
| `sync_monitor` | a frame of every type and the bad ones, drafts up to 4 characters and segments before each addition, one request per callback, fair | `TypeOK`, `EventsUnderstood`, `Repeated`, `ReceivedKnowsBot`, `LossReported` |

**Bounds.** Three calls are the least for which a node is removed from the middle
of the list, with a neighbour on each side; two events let one wait for the mutex
while the other walks; one sweeper meets every step of the others. Three events let one
callback wait while a second closes the stream and a third is offered to the
first; the second monitor needs one event only to go wrong. Four calls of
the session allow authorize, release, a second authorize and a request, or two
releases that overlap an authorization; two keys allow a second session. Calls
are interchangeable in `BotSession`, hence the symmetry sets, and no liveness
property is checked there. In `launch` the calls do not share anything but the
threads and the clock, so one of each kind is enough to let each be started,
stopped and timed out at every point of the others; two threads let one be in the
middle of starting a timer while another requests the stop; a clock of 2 has a
time before, at and after the deadlines. In `sync_monitor` the length bound
admits a received message, a text of the program and the message again, which is
what makes texts adjacent on both sides; requests do not affect each other, so one
in each callback suffices. One frame forwards a message that forwards another,
whose adjacent texts are merged and of which one has a quote. Deadlock checking is off where the system may rest:
nobody has to call anything, and a fault stops everything.

**What `sync_monitor` shows, and what it leaves out.** The tutorial
`docs/tutorials/sync_repeater.rst` promises three things that the code does not keep
in general. They are disagreements between document and code; the properties of this
run state the part that holds, and do not say that the rest is as intended.

- *The callback is called whatever event is received* (line 101: 不论接收何种事件都会调用这个回调函数).
  mirai-api-http sends a null `operator` for what the bot did itself; the structs
  have `std::optional` for it and `at_executor` (`event_bases.cpp:35`, `:71`) provides
  for its absence, but `from_json` (`:42`, `:78`) reads it as a mandatory record, so that
  such a frame is an exception and the callback is not called. `EventsUnderstood`
  speaks of all other frames and compares with the table `Expected`: the class and
  subtype that the callback is given, and the conversation that an answer goes to.
- *The repeater sends the same content* (line 118: 发送相同内容的消息). `JsonQuoted`
  (`json.h:54`) writes a quote or a backslash without the backslash in front, so a text
  that has one is sent as another text or as no JSON at all. `Repeated` says that
  everything else is read as it was meant, and the theorem `MisreadExactly` that those
  two characters are all that goes wrong.
- *Every event object refers to its `Bot`* (line 118: 每个事件对象都存储了对接收事件的 Bot 的引用;
  `event_base.h:34` says so of `bot()`). The event of `retrieve_message` (`bot.cpp:529`,
  `:536`) does not, and `bot()` dereferences null. `ReceivedKnowsBot` says that those of
  the monitor and of the fetches do.

**What `bot_session` assumes.** `Overlap = FALSE`: the program does not start an
`authorize` while another is in progress. Run `one_account` shows what happens
when it does. Everything else overlaps freely.

**Fairness.** Weak fairness of every step that an `io_context` thread performs
once it is ready: taking over the mutex, walking the list, a posted resumption, a
spawned cancel task, the end of `cleanup`. `io_context::run` executes every
handler posted to it, and unifex resumes the next owner on `unlock`. Calls, stop
requests, events, `cancel_all` and `cleanup` come from outside and are not fair.
`CancelDead` is not fair either: nothing forces undefined behaviour to stop the
process. In `MonitorEvents` also: the server answers a close frame or the connection
breaks, and a callback ends by itself unless it waits for an event. Both are
assumptions about the environment, and the weakest under which "the call returns"
can be true; that a waiting callback goes on is not assumed but shown. In
`LaunchBot`: time passes, and the threads in `run` execute what is ready, one
condition per call since each call has its own strand. In `SyncMonitor`: reading
from a stream that has ended returns with an error, the program's callback and
handler return or throw, and so does the close. No fairness is assumed of the
program's calls, of events, of frames or of stop requests anywhere.

**Findings.** The six violations are real disagreements between the code and
its own comments or documentation; `PROJECT.json` quotes them.

## 4. Proofs

`FilterQueueProofs` proves, for every set of calls, events and sweepers and
every table of verdicts:

| Theorem | States |
|---|---|
| `TypeCorrect` | `Spec => []TypeOK` |
| `MutexCorrect` | `Spec => []MutualExclusion` |
| `SingleResumeCorrect` | `Spec => []SingleResume` |
| `ListCorrect` | `Spec => []ListIntact` |
| `PointersCorrect` | `Spec => []PointersLive` |
| `EventConservedCorrect` | `Spec => []EventConserved` |
| `NoLostWakeupCorrect` | `Spec => []NoLostWakeup` |
| `StopReachesWaiterCorrect` | `Spec => []StopReachesWaiter` |

The only assumption is `ConstantAssumption`: null is neither a node nor an
event, and the verdicts are total.

None of these is inductive alone. The invariant that is has four layers, each
proved with the help of the ones before it:

1. `TypeOK`.
2. `LockInv`: the tasks in `lockq` are distinct, they are exactly the ones whose
   `pc` says they wait for or hold the mutex, and a task in a critical section is
   at the head. This gives `MutualExclusion`.
3. `StopInv`: a cancel task exists only for a call that was asked to stop.
4. `IInv`: `NodeInv` ties `pc`, `bound`, `active` and `arrival` of a node
   together; `PostInv` says that a posted resumption belongs to a suspended node
   that is no longer active and is the only one for it; `ListInv` describes
   the list, also in the middle of `cancel_all`, where the nodes before `head`
   have been posted and keep stale links: `Forward` and `Backward` (the links
   agree and follow the order of arrival), `First` (where the list starts) and
   `Quiet` (no sweep under way).

The interesting step is `CancelTake`: it unlinks a node without clearing
`active_`. `SingleResume` survives because `pc = "resuming"` takes the place of
the flag, and because the mutex makes the unlinked node invisible to everybody
else. `EventConserved` then needs one fact more, `FateInv` (an event is decided once, at
the end of its walk): the takers of an event change only at its match, when it had
none, and a resumption turns what was posted into the result of the call.

`NoLostWakeup` speaks of the list as it is in memory (`Linked`). It follows from
`WakeInv`, that a suspended call whose `active_` was cleared has a resumption among
the posts, together with `ListInv`, by which an active node is linked unless its
cancel task has just unlinked it. Neither `SingleResume` nor `ListIntact` excludes
a call that is in no list and that nobody resumes. `StopReachesWaiter` needs
`ReachInv`: a stop request that finds a call still waiting for the mutex stops the
process at the null `queue_` (the finding `cancel_finds_queue`), so every other one
has spawned its task, and a cancel task that ends without unlinking has found the
call gone from the line.

`RegistryProofs` proves the refinement, `RegistryImplemented`: `Spec =>
ImplementsRegistry`, for every set of calls, events and sweepers and every table of
verdicts. Each step maps to a step of `WaiterRegistry` or to a stutter: `Enqueue` is
`Join`, `FilterMatch` is `Deliver`, `FilterPass` and `FilterThrow` are `PassOn` and
`Throw`, `CancelTake` and `SweepPost` are `Dismiss`, and a resumption changes nothing
(the pair moves from `posts` to `res`). That the registry looks at the whole line in
one step while `filter_event` walks it is covered by `ScanInv`: everybody still
waiting before the cursor of a walk has rejected its event. It is kept because the
mutex stops anyone from joining during the walk, and those who leave only make the
set smaller. `RInv` is `ScanInv` with the invariants of `FilterQueueProofs`.

`MonitorEventsProofs` proves, for every set of events and any number of calls and
from `MonitorAssumption` (the names of tasks are distinct):

| Theorem | States |
|---|---|
| `MonitorTypeCorrect` | `Spec => []TypeOK` |
| `NothingOutlivesCorrect` | `Spec => []NothingOutlivesMonitor` |
| `WaitersCorrect` | `Spec => []WaitersAreCancelled` |
| `StopClosesCorrect` | `Spec => []StopClosesStream` |
| `ClosesCorrect` | `Spec => []ClosesAnswered` |

Its invariant `MInv` adds to the properties: in which state each scope is at each
point of the call (`ScopePhase`, `QueuePhase`), that a joined scope has no tasks
and a closing one nobody who is about to wait (`ScopeTasks`), and that cancel
tasks exist only between the cleanup of the first scope and that of the second
(`CancelPhase`). The last two need `CInv`: the task of the stop callback is spawned
once and only after a stop request (`StopOnce`), and the read loop is left only
when the stream has ended (`EndPhase`). `ClosesAnswered` is the safety half of "the
cleanup does not wait for ever": several closes may wait at once, and the one that
sent the close frame performs the handshake for all of them.

`LaunchBotProofs` proves, for any set of calls of any kinds with any deadlines and
any number of threads, from `LaunchAssumption`:

| Theorem | States |
|---|---|
| `TypeCorrect` | `Spec => []TypeOK` |
| `NeverEarly` | `Spec => []NoEarlyReturn` |
| `OneDeadlyRace` | `Spec => []DeadCancelOnlyAfterExpiry` |
| `StopNotLost` | `Spec => []StopReachesTimer` |
| `OnlyEventWaits` | `Spec => []OnlyEventWaitsLeft` |

The invariant is `IndInv`: `TypeOK` and for each call `StrandInv` (the few
sequences of handlers that each state of the timer allows), `StopInv` (a
cancellation on the strand means that stop was requested, and a stop requested of
a running timer has its cancellation there) and `TimeInv` (what has been reached
of the deadline, and `GaveUp`: a wait for an event is given up only after the
deadline or a stop). `DeadCancelOnlyAfterExpiry` needs the exact contents of the
strand: a timer that was cancelled has one handler left and nothing behind it, so
only an expired one can have its handler in front of a cancellation. A call that a
step does not touch keeps its invariant by `Untouched`, since time only passes.
`OnlyEventWaitsLeft` needs `EndInv`: `run` returns only when no timer and no handler
is left, and whoever asked a call with a deadline to stop also reached its wait for
an event, the end of its timer being such a request (`SourceInv`); what is left of
each call then stays as it is during the cleanup (`LeftInv`).

`BotSessionProofs` proves, for any calls, accounts, keys and failures, from
`SessionAssumption` and `~Overlap`:

| Theorem | States |
|---|---|
| `SessionTypeCorrect` | `Spec => []TypeOK` |
| `IdentityCorrect` | `Spec => []IdentityCoherent` |
| `LiveCorrect` | `Spec => []SessionLive` |
| `DestroyCorrect` | `Spec => []DestroyReleases` |
| `TerminationCorrect` | `Spec => []TerminatesOnlyOnFailure` |
| `ForgetsCorrect` | `Spec => ForgetsOnlyClosed` |
| `NoLeakCorrect` | `Spec => []NoSessionLeaked` |
| `StableCorrect` | `Spec => SessionStable` |

That two calls of `authorize` do not overlap is needed, and run `one_account`
shows why. The argument follows a key through its life. `Wire`: what a call has on
the wire belongs to the place where it is suspended, and it waits for one answer.
`AuthPhase`: one call authorizes at a time, only while the bot is not authorized,
and holds a fresh key. `VerifyPhase`: while it verifies, the key it sent is
`sess_key_`, and once accepted is bound to its account. `ReleasePhase` is the heart:
a release on the wire that the server can still accept is for the session that the
bot is in, so at most one release is ever accepted for it and nobody has changed
`sess_key_` when its reply comes. This is what keeps a late reply from wiping
the session of another authorization, although the code does not compare anything
when it resets the members. `BoundInv`: without lost replies the only bound key is
the current one. `LiveInv`: the session of an authorized bot is gone only if the
reply to its release is on the way. `DestroyInv` and `FailureInv` follow the
destructor: its release is for the current session, and fails only for a reason
that is in `failed`.

`SessionStable` is an action property: by `AuthPhase` no reply to `/auth` or
`/verify` is outstanding while the bot is authorized, and the reply to a release
leaves it without authorization.

`LoopProofs` and `MessagesProofs` prove what loops over sequences compute. The
induction theorems of the library take an operator as parameter, which the provers
cannot instantiate; `LoopProofs` therefore states induction about sets, derived
from the least element of a set of numbers (`SequenceInduction`: a set of sequences
that has the empty one and is closed under `Append` has them all). `RunEmpty` and
`RunAppend` are the two equations of `Loop!Run`. On these rest:

| Theorem | States |
|---|---|
| `CollapseCorrect` | for every message of texts and other segments, `collapse_adjacent_text` leaves no two texts next to each other and what is seen (`Seen`: the characters and the other segments, in order) as it was |
| `QuotedReadsBack` | for every text, `Unquote(JsonQuoted(text)) = text` exactly if the text has neither a quote nor a backslash |
| `SentReadsBack` | a message of any length and of every type of segment reads at the server as it was composed exactly if none of its texts, in forwarded messages too, has a quote or a backslash |
| `ReceivedReads` | a segment of any type that `segment_from_json` takes is a segment of the library and shows what its JSON shows |

In `QuotedReadsBack` the hard direction is that a text with one of the two
characters is never read back by accident: `ReadBack` says that the reader, after
any prefix of such a text, has failed or has read something that already differs
from it in length or at a position it will not revisit (`Differs`), although an
unescaped backslash may swallow the character behind it and even complete an escape.

`SentReadsBack` needs more than that of its parts. A message is seen as one sequence
of characters and marks, and two parts that are both misread could make up for each
other: what one loses the next could gain. They cannot, because what the server
reads is never longer than what was written. `Understood(got, meant)` therefore has
the length bound beside the equivalence, and with it passes through concatenation
(`UnderstoodConcat`, `UnderstoodJoined`): if the whole is the same although no part
is longer than it should be, every part is the same. `SentUnderstood` states it of
messages, `SpeltUnderstood` of texts. Both theorems go through the table `Layout`
type by type: the keys that identify a segment (`ApiServer!Identified`) are among
those read and those written, and of a medium the key that is written is the one
that is read first. Of the messages inside a forwarded one they suppose the same
(`Survives`, `ReceivedInner`), which is the step of the induction on the nesting.

`SyncMonitorProofs` proves for every set of frames, every batch, every alphabet and
every text of the program:

| Theorem | States |
|---|---|
| `TypeCorrect` | `Spec => []TypeOK` |
| `ReceivedKnowsCorrect` | `Spec => []ReceivedKnowsBot` |
| `RepeatedCorrect` | `Spec => []Repeated` |
| `MisreadExactly` | every request that is sent reads as it was meant exactly if it has no quote and no backslash |

from three assumptions. `FramesAssumption`: the `Bot` is not null, the alphabet has
the four characters that JSON treats differently, and the `messageChain` of a frame
is an array whose members have the types that the protocol gives them; unknown types
of segments, missing members and quoted messages of any form are not excluded.
`NestedAssumption`: forwarded messages nest to some finite depth, and the conversion
of an inner message is the conversion of a message. `ProgramAssumption`: stored
messages and batches consist of frames, and what the program adds is a text. TLC
evaluates all three on the frames of the run.

The argument has two inductions. `NestedAll` goes by the depth of a message: if
every message less deep reads as its JSON and survives being sent, then by
`MessageReads` and `SentUnderstood` so does one that contains them, and the equations
of `NestedAssumption` carry the result to the conversion of inner messages.
`ReceivedChain` goes along the chain of an event: after each element, what
`SentMessage::from_json` has collected reads as what `Content` has kept. The
invariant is then

- `EventInv`: the event at hand came from a frame, knows its `Bot` unless it came
  from `retrieve_message`, and its message reads as the content of that frame;
- `DraftInv`: the draft consists of segments of the library (`Segs`) and
  `Reading(draft) = meant`;
- `SentInv`: the request sent last reads as it was meant exactly if that is clean.

`SentInv` alone is not inductive, since it says nothing of the draft before it is
sent. Concatenation keeps `DraftInv` by `ReadingConcat`, `collapse_adjacent_text` by
`ReadingCollapse` (two texts that become one read the same), and a send turns it into
`SentInv` by `SentReadsBack`, a response by `SpeltUnderstood`. `ReceivedKnowsBot` is
part of `EventInv`; it needs that a batch of `pop_events` is parsed event by event.

Left to TLC:

- **Liveness** (`CancelCompletes`, `EventSettles`, `CleanupJoins`, `EndedReturns`,
  `StopReturns`, `EventReturned`, `LaunchReturns`, `LossReported`), which is out of
  the prover's reach. `NoLostWakeup`, `StopReachesWaiter`, `ClosesAnswered` and
  `OnlyEventWaitsLeft` are the safety facts these rest on.
- **`EventsUnderstood`**, which compares the conversion and the target of an answer
  with a table of what each frame of the run means: a statement about that table,
  for which there is no general form.
- `ThreadParser` has one property, which is violated.

## 5. Not modelled

- **Comparison and search of messages.** `operator==` of messages and segments,
  `starts_with`, `collect_text` and the formatting as text. They are pure and keep
  no state. Two things were met while reading: images without a path compare equal
  whatever their ids (`segment_types.cpp:75`), and the private helper
  `ends_with_sv` looks at the first segment and subtracts lengths without asking
  which is longer; nothing calls it.
- **Configuration records** of groups, members and sessions: plain data with one
  conversion each way.
- **Multipart bodies, HTTP headers and targets, wording of exceptions.** Strings
  that are put together once.
- **`get_version`** uses neither the session nor any member.
- **Shortcuts of events** (`recall`, `mute_sender`, `mute_member`, `at_sender`,
  `at_member`) are single requests of the kind `BotSession` has.
- **Data races** on `sess_key_` and `bot_id_` between threads that call the
  synchronous functions at once: `BotSession` treats the assignment of a member as
  one step. In `ThreadParser` an interleaving of two uses of one parser is
  already the violation.
- **The queue of events kept by the server**: `pop_events` throws away a batch when
  one of its events cannot be understood, which `SyncMonitor` has only as the
  exception.
- Program tasks that wait with `next_event_async` outside any callback are in
  `FilterQueue` and `LaunchBot` but not in `MonitorEvents`. The examples only use
  the library.

## 6. What could follow

1. Comparison, prefixes and suffixes of messages against reference definitions.
2. `LaunchBot` with the monitor of `MonitorEvents` as the program it runs.
