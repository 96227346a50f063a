---------------------------- MODULE SyncMonitor ----------------------------
(***************************************************************************)
(* The synchronous monitor_events and a program of the kind the tutorial   *)
(* builds on it: for each event the callback may compose a message from    *)
(* what it received, send it back or respond, look at other events, and    *)
(* end the loop.  The websocket may be closed by the server or break.      *)
(***************************************************************************)
EXTENDS Events, ApiServer

CONSTANTS
  Frames,     \* what the server may send: a function from names to JSON
  Expected,   \* what each frame means, or Null if it means nothing: its class,
              \* subtype and origin (where an answer belongs)
  Stored,     \* frames of messages that the server has kept
  Lists,      \* lists of frames that a fetch may find
  Extra,      \* a text segment of the program's own
  MaxLength,  \* bound of the message that the program adds to
  Alphabet,   \* the characters of texts
  Nested,     \* the messages in forwarded ones, at any depth,
  Depth       \* and how deep they are themselves

Names == DOMAIN Frames

\* The bot is no null pointer, null is no text, and the chain of a message is
\* an array of segments.
ASSUME FramesAssumption ==
  /\ Bot # Null
  /\ Null \notin Seq(Alphabet) /\ {"quote", "backslash", "n", "newline"} \subseteq Alphabet
  /\ \A n \in Names : "messageChain" \in DOMAIN Frames[n] =>
       IsChain(Frames[n].messageChain, Alphabet, Nested)

\* Messages are nested in finite depth, and the conversion of an inner message
\* is the conversion of a message.
ASSUME NestedAssumption ==
  /\ Depth \in [Nested -> Nat]
  /\ \A chain \in Nested :
       /\ IsChain(chain, Alphabet, {c \in Nested : Depth[c] < Depth[chain]})
       /\ inner_from_json(chain) = message_from_json(chain)
       /\ LET msg == message_from_json(chain)
              json == message_as_json(msg)
              there == DecodedChain(json)
          IN msg # Null =>
               /\ InnerReading(chain) = Reading(chain) /\ InnerReading(msg) = Reading(msg)
               /\ inner_as_json(msg) = json /\ InnerReadable(json) = Readable(json)
               /\ Readable(json) =>
                    InnerDecoded(json) = there /\ InnerReading(there) = Reading(there)

\* What the server has kept was sent once, and the program adds a text.
ASSUME ProgramAssumption ==
  /\ Stored \subseteq Names
  /\ \A list \in Lists : list \in Seq(Names)
  /\ Extra \in [type : {"Plain"}, text : Seq(Alphabet)]

VARIABLES
  pc,      \* where monitor_events is
  stream,  \* "open", "closed" by the server, "broken", or "ended": known to be
  ev,      \* the event at hand, how the program got it and from which frame
  draft,   \* the message being composed
  sent,    \* the request that this callback sent last
  frame,   \* history: the frame read last
  given,   \* history: what the callback was given for it
  meant    \* history: what the draft is meant to say

history == <<frame, given>>
vars == <<pc, stream, ev, draft, sent, meant, history>>

Nothing == [how |-> "none", of |-> Null, is |-> Null]

Init ==
  /\ pc = "connecting" /\ stream = "open" /\ ev = Nothing
  /\ draft = <<>> /\ meant = <<>> /\ sent = Null
  /\ frame = Null /\ given = Null

(***************************************************************************)
(* The stream.                                                             *)
(***************************************************************************)
connect_websocket ==
  /\ pc = "connecting"
  /\ pc' \in {"reading", "threw"}
  /\ UNCHANGED <<stream, ev, draft, sent, meant, history>>

Live == pc \in {"reading", "callback", "handling", "closing", "unwinding"}

StreamEnds ==
  /\ Live
  /\ stream = "open"
  /\ stream' \in {"closed", "broken"}
  /\ UNCHANGED <<pc, ev, draft, sent, meant, history>>

(***************************************************************************)
(* The loop.  Whatever throws inside the try block goes to the handler.    *)
(***************************************************************************)
Read(n) ==
  /\ pc = "reading"
  /\ stream = "open"
  /\ frame' = n
  /\ LET e == parse_event(Frames[n])
     IN IF check_json(Frames[n]) /\ e # Null
        THEN /\ pc' = "callback"
             /\ ev' = [how |-> "monitor", of |-> n, is |-> e]
             /\ given' = [class |-> e.class, subtype |-> e.subtype]
        ELSE /\ pc' = "handling"
             /\ given' = Null
             /\ UNCHANGED ev
  /\ UNCHANGED <<stream, draft, sent, meant>>

\* Mutant: the error code of the read is ignored.
Mut_ErrorIgnored ==
  /\ pc = "reading"
  /\ stream # "open"
  /\ UNCHANGED vars

\* Every read of a stream that has ended throws.
ReadFails ==
  /\ pc = "reading"
  /\ stream # "open"
  /\ pc' = "handling"
  /\ stream' = "ended"
  /\ UNCHANGED <<ev, draft, sent, meant, history>>

Leave(next) ==
  /\ pc' = next
  /\ ev' = Nothing
  /\ draft' = <<>> /\ meant' = <<>> /\ sent' = Null
  /\ UNCHANGED <<stream, history>>

CallbackReturns ==
  /\ pc = "callback"
  /\ Leave("reading") \/ Leave("closing")

CallbackThrows == pc = "callback" /\ Leave("handling")

ExceptionHandler ==
  /\ pc = "handling"
  /\ Leave("reading") \/ Leave("unwinding")

\* scope_exit: a normal close, also of a stream whose end nobody noticed.
Close ==
  /\ pc \in {"closing", "unwinding"}
  /\ stream \in {"open", "closed"}
  /\ pc' = IF pc = "closing" THEN "returned" ELSE "threw"
  /\ UNCHANGED <<stream, ev, draft, sent, meant, history>>

\* The close throws: in a destructor, which ends the process if an exception
\* is already on its way, and otherwise unless the destructor may throw.
CloseThrows ==
  /\ pc \in {"closing", "unwinding"}
  /\ stream \in {"broken", "ended"}
  /\ pc' = "terminated" \/ (pc = "closing" /\ pc' = "threw")
  /\ UNCHANGED <<stream, ev, draft, sent, meant, history>>

(***************************************************************************)
(* What the callback does before it returns.  It makes one request at most, *)
(* and nothing after it (a bound: requests do not affect each other).      *)
(***************************************************************************)
Working == pc = "callback" /\ sent = Null

Keep(content, json) == IF IsContent(json) THEN Append(content, json) ELSE content

Keeping == INSTANCE Loop WITH Start <- <<>>, Body <- Keep

Content(json) == Keeping!Run(json.messageChain)

AppendContent ==
  /\ Working
  /\ ev.is.class \in DOMAIN MessageEvents
  /\ Len(meant) <= MaxLength
  /\ draft' = draft \o ev.is.data.messageChain.content
  /\ meant' = meant \o Reading(Content(Frames[ev.of]))
  /\ UNCHANGED <<pc, stream, ev, sent, history>>

AppendSegment ==
  /\ Working
  /\ Len(meant) <= MaxLength
  /\ draft' = Append(draft, Extra)
  /\ meant' = meant \o Reading(<<Extra>>)
  /\ UNCHANGED <<pc, stream, ev, sent, history>>

Collapse ==
  /\ Working
  /\ draft' = collapse_adjacent_text(draft)
  /\ UNCHANGED <<pc, stream, ev, sent, meant, history>>

\* The server reports an error if it cannot read the request, and may for
\* other reasons; the null bot_ of an event is dereferenced first.
Post(body, says, readable) ==
  /\ IF ev.is.bot = Null
     THEN pc' = "terminated" /\ UNCHANGED sent
     ELSE /\ sent' = [of |-> ev.of, body |-> body, meant |-> says]
          /\ pc' = "handling" \/ (readable /\ pc' = "callback")
  /\ UNCHANGED <<stream, ev, draft, meant, history>>

SendMessage(quote) ==
  /\ Working
  /\ IF quote THEN CanQuote(ev.is) ELSE CanSend(ev.is)
  /\ LET body == send_message_body(ev.is, draft, quote)
     IN Post(body, meant, Readable(body.messageChain))

Respond(operate) ==
  /\ Working
  /\ CanRespond(ev.is)
  /\ LET body == respond_body(ev.is, operate, Extra.text)
     IN Post(body, Spell(Extra.text), Unquote(body.message) # Null)

\* Mutant: the exception is swallowed and the event used.
Mut_LookUnchecked(how, n, e) ==
  /\ ev.how = "monitor"
  /\ ev' = [how |-> how, of |-> n, is |-> e]
  /\ UNCHANGED <<pc, stream, draft, sent, meant, history>>

\* Look at another event: Null if the conversion throws.
Look(how, n, e) ==
  /\ ev.how = "monitor"
  /\ IF e = Null
     THEN pc' = "handling" /\ UNCHANGED ev
     ELSE pc' = pc /\ ev' = [how |-> how, of |-> n, is |-> e]
  /\ UNCHANGED <<stream, draft, sent, meant, history>>

retrieve_message(n) ==
  /\ Working
  /\ Look("retrieved", n, event_from_json(Frames[n]))

pop_events(list) ==
  /\ Working
  /\ LET evs == parse_events([i \in DOMAIN list |-> Frames[list[i]]])
     IN \E i \in DOMAIN list : Look("fetched", list[i], IF evs = Null THEN Null ELSE evs[i])

Next ==
  \/ connect_websocket \/ StreamEnds
  \/ (\E n \in Names : Read(n)) \/ ReadFails
  \/ CallbackReturns \/ CallbackThrows \/ ExceptionHandler
  \/ Close \/ CloseThrows
  \/ AppendContent \/ AppendSegment \/ Collapse
  \/ (\E quote \in BOOLEAN : SendMessage(quote)) \/ (\E operate \in 0 .. 1 : Respond(operate))
  \/ (\E n \in Stored : retrieve_message(n)) \/ (\E list \in Lists : pop_events(list))

\* Reads of an ended stream return, and so do the program's functions.
Fairness ==
  /\ WF_vars(ReadFails) /\ WF_vars(CallbackReturns) /\ WF_vars(ExceptionHandler)
  /\ WF_vars(Close \/ CloseThrows)

Spec == Init /\ [][Next]_vars /\ Fairness

-----------------------------------------------------------------------------
(***************************************************************************)
(* Properties                                                              *)
(***************************************************************************)
Over == {"returned", "threw", "terminated"}

\* Every variable has its type.
TypeOK ==
  /\ pc \in {"connecting", "reading", "callback", "handling", "closing", "unwinding"} \cup Over
  /\ stream \in {"open", "closed", "broken", "ended"}
  /\ ev.how \in {"none", "monitor", "retrieved", "fetched"} /\ ev.of \in Names \cup {Null}
  /\ pc = "callback" => ev.is # Null /\ ev.is.bot \in {Bot, Null}
  /\ \A i \in DOMAIN draft : draft[i].type \in DOMAIN Layout
  /\ sent = Null \/ sent.of \in Names
  /\ frame \in Names \cup {Null}

\* The bot acted itself, which mirai-api-http says by a null operator.
ActedItself(json) == "operator" \in DOMAIN json /\ json.operator = Null

\* The callback is given an event for a frame exactly if the frame means
\* something to the protocol, and then the class and subtype it means: a
\* frame that cannot be understood costs only itself.  Nothing is said of what
\* the bot did itself: the tutorial promises the callback for every event, and
\* from_json throws on these.  What is sent through an event goes to the
\* conversation the event came from.
EventsUnderstood ==
  /\ frame # Null /\ ~ ActedItself(Frames[frame]) =>
       given = IF Expected[frame] = Null THEN Null
               ELSE [class |-> Expected[frame].class, subtype |-> Expected[frame].subtype]
  /\ sent # Null => sent.body.to = Expected[sent.of].origin

\* What the server understands of a request is what the program meant.
ReadAsMeant(body, says) ==
  LET chain == body.messageChain
      text == Unquote(body.message)
  IN IF "messageChain" \in DOMAIN body
     THEN Readable(chain) /\ Reading(DecodedChain(chain)) = says
     ELSE text # Null /\ Spell(text) = says

\* What the program composed from received messages and sent reads at the
\* server as it was meant, through parsing, concatenation, collapsing and
\* formatting, as long as no text has a quote or a backslash.  The tutorial
\* promises "a message of the same content" for every text; JsonQuoted breaks
\* those two characters, and nothing else (theorem MisreadExactly).
Repeated == sent # Null /\ Clean(sent.meant) => ReadAsMeant(sent.body, sent.meant)

\* What the monitor gives to the callback and what the fetches return knows
\* its Bot, so that the program can answer through it.  The tutorial says so
\* of every event; those of retrieve_message do not.
ReceivedKnowsBot ==
  pc = "callback" /\ ev.how \in {"monitor", "fetched"} => ev.is.bot = Bot

\* A connection that is lost while the monitor runs is reported to the
\* exception handler, unless the program ends the monitor first.
LossReported == Live /\ stream # "open" ~> (stream = "ended" /\ pc = "handling") \/ pc \in Over
=============================================================================
