-------------------------- MODULE SyncMonitorProofs --------------------------
(***************************************************************************)
(* The synchronous monitor, for every set of frames that the server sends  *)
(* and every program of the kind SyncMonitor describes.                    *)
(***************************************************************************)
EXTENDS SyncMonitor, MessagesProofs

(***************************************************************************)
(* The messages in forwarded ones, by induction on their depth.            *)
(***************************************************************************)
Kept(Chains) == {inner_from_json(chain) : chain \in Chains} \ {Null}

\* The message that a chain becomes reads like the chain and, once it is sent
\* again, reads so at the server exactly if it is clean.
NestedReads(chain) ==
  LET msg == inner_from_json(chain)
  IN msg # Null => Survives(msg, Alphabet) /\ InnerReading(msg) = InnerReading(chain)

LEMMA Texts == Specials \subseteq Alphabet /\ Null \notin Seq(Alphabet)
BY FramesAssumption DEF Specials

LEMMA NestedInner ==
  ASSUME NEW Chains, \A chain \in Chains : NestedReads(chain)
  PROVE  ReceivedInner(Chains, Kept(Chains)) /\ \A m \in Kept(Chains) : Survives(m, Alphabet)
<1>1. ReceivedInner(Chains, Kept(Chains))
  BY Zenon DEF ReceivedInner, Kept, NestedReads
<1>2. ASSUME NEW m \in Kept(Chains) PROVE Survives(m, Alphabet)
  <2>1. PICK chain \in Chains : m = inner_from_json(chain) /\ m # Null
    BY Zenon DEF Kept
  <2>2. QED
    BY <2>1, Zenon DEF NestedReads
<1>3. QED
  BY <1>1, <1>2

LEMMA NestedStep ==
  ASSUME NEW chain \in Nested, \A c \in Nested : Depth[c] < Depth[chain] => NestedReads(c)
  PROVE  NestedReads(chain)
<1> DEFINE msg == message_from_json(chain)
           json == message_as_json(msg)
           there == DecodedChain(json)
           Chains == {c \in Nested : Depth[c] < Depth[chain]}
           Inner == Kept(Chains)
<1>1. /\ IsChain(chain, Alphabet, Chains) /\ inner_from_json(chain) = msg
      /\ msg # Null =>
           /\ InnerReading(chain) = Reading(chain) /\ InnerReading(msg) = Reading(msg)
           /\ inner_as_json(msg) = json /\ InnerReadable(json) = Readable(json)
           /\ Readable(json) => InnerDecoded(json) = there /\ InnerReading(there) = Reading(there)
  BY NestedAssumption, Zenon
<1>2. \A c \in Chains : NestedReads(c)
  OBVIOUS
<1> HIDE DEF Chains
<1>3. ReceivedInner(Chains, Inner) /\ \A m \in Inner : Survives(m, Alphabet)
  BY <1>2, NestedInner
<1> HIDE DEF Inner
<1> SUFFICES ASSUME msg # Null
             PROVE  Survives(msg, Alphabet) /\ InnerReading(msg) = InnerReading(chain)
  BY <1>1, Zenon DEF NestedReads
<1>4. /\ msg \in Seq(Segments(Alphabet, Inner))
      /\ Reading(msg) = Reading(chain)
  BY <1>1, <1>3, Texts, MessageReads
<1>5. /\ Reading(msg) \in Seq(Shown(Alphabet))
      /\ IF Readable(json)
         THEN Reading(there) \in Seq(Shown(Alphabet)) /\ Understood(Reading(there), Reading(msg))
         ELSE ~ Clean(Reading(msg))
  <2> HIDE DEF msg
  <2>1. QED
    BY <1>3, <1>4, Texts, SentUnderstood
<1> HIDE DEF msg, json, there
<1>6. InnerReadable(json) => InnerReading(InnerDecoded(json)) = Reading(there)
  BY <1>1
<1>7. Survives(msg, Alphabet)
  <2>1. CASE Readable(json)
    BY <1>1, <1>5, <1>6, <2>1, Zenon DEF Survives
  <2>2. CASE ~ Readable(json)
    BY <1>1, <1>5, <2>2, Zenon DEF Survives
  <2>3. QED
    BY <2>1, <2>2
<1>8. QED
  BY <1>1, <1>4, <1>7

LEMMA NestedAll == \A chain \in Nested : NestedReads(chain)
<1> DEFINE Bad == {chain \in Nested : ~ NestedReads(chain)}
           T == {Depth[chain] : chain \in Bad}
<1>1. SUFFICES ASSUME Bad # {} PROVE FALSE
  OBVIOUS
<1>2. T \in SUBSET Nat /\ T # {}
  BY <1>1, NestedAssumption
<1>3. PICK x \in T : \A y \in T : x <= y
  BY ONLY <1>2, CollapseLoop!Least
<1>4. PICK chain \in Bad : x = Depth[chain]
  OBVIOUS
<1>5. ASSUME NEW c \in Nested, Depth[c] < Depth[chain] PROVE NestedReads(c)
  <2>1. Depth[c] \in Nat /\ Depth[chain] \in Nat
    BY NestedAssumption
  <2>2. ~ NestedReads(c) => x <= Depth[c]
    BY <1>3
  <2>3. QED
    BY <1>4, <1>5, <2>1, <2>2
<1>6. QED
  BY <1>4, <1>5, NestedStep

\* What the program may hold: texts, and segments with messages received before.
Held == Kept(Nested)
Segs == Segments(Alphabet, Held)

LEMMA Known ==
  /\ Specials \subseteq Alphabet /\ Null \notin Seq(Alphabet)
  /\ ReceivedInner(Nested, Held) /\ \A m \in Held : Survives(m, Alphabet)
BY Texts, NestedAll, NestedInner DEF Held

-----------------------------------------------------------------------------
(***************************************************************************)
(* What the conversions of a frame return.                                 *)
(***************************************************************************)
ReceiveLoop == INSTANCE LoopProofs WITH Start <- [content |-> <<>>, source |-> 0], Body <- Receive

KeepLoop == INSTANCE LoopProofs WITH Start <- <<>>, Body <- Keep

\* A received message says what the segments in its chain say, unless the
\* conversion throws.
Received(msg, said) ==
  msg # Null => \E u, v : /\ msg = [content |-> u, source |-> v]
                          /\ u \in Seq(Segs) /\ Reading(u) = Reading(said)

LEMMA ReceiveStep ==
  ASSUME NEW S, NEW msg, NEW json \in S, NEW said \in Seq(S), Received(msg, said),
         WellTyped(json, Alphabet, Nested)
  PROVE  Received(Receive(msg, json), Keep(said, json))
<1> DEFINE source == Source_from_json(json)
           seg == segment_from_json(json)
           got == Receive(msg, json)
           now == Keep(said, json)
<1> SUFFICES ASSUME got # Null
             PROVE  \E u, v : /\ got = [content |-> u, source |-> v]
                              /\ u \in Seq(Segs) /\ Reading(u) = Reading(now)
  BY Zenon DEF Received
<1>1. /\ msg # Null
      /\ \/ ~ IsContent(json) /\ got = [msg EXCEPT !.source = source]
         \/ ~ IsContent(json) /\ got = msg
         \/ IsContent(json) /\ seg # Null /\ got = [msg EXCEPT !.content = Append(msg.content, seg)]
  <2>1. IsContent(json) <=> json.type # "Source" /\ json.type # "Quote"
    BY DEF IsContent
  <2>2. QED
    BY <2>1, Zenon DEF Receive
<1>2. PICK u, v : /\ msg = [content |-> u, source |-> v]
                  /\ u \in Seq(Segs) /\ Reading(u) = Reading(said)
  BY <1>1 DEF Received
<1>3. CASE ~ IsContent(json) /\ got = [msg EXCEPT !.source = source]
  <2>1. now = said
    BY <1>3 DEF Keep
  <2> HIDE DEF source, got, now
  <2>2. [msg EXCEPT !.source = source] = [content |-> u, source |-> source]
    BY <1>2
  <2>3. QED
    BY <1>2, <1>3, <2>1, <2>2
<1>4. CASE ~ IsContent(json) /\ got = msg
  <2>1. now = said
    BY <1>4 DEF Keep
  <2>2. QED
    BY <1>2, <1>4, <2>1
<1>5. CASE IsContent(json) /\ seg # Null /\ got = [msg EXCEPT !.content = Append(msg.content, seg)]
  <2>1. seg \in Segs /\ SegmentReading(seg) = SegmentReading(json)
    BY <1>5, Known, ReceivedReads DEF Segs
  <2>2. now = Append(said, json)
    BY <1>5 DEF Keep
  <2> HIDE DEF seg, got, now
  <2> DEFINE w == Append(msg.content, seg)
  <2>3. msg.content = u
    BY <1>2
  <2>4. Reading(w) = Reading(u) \o SegmentReading(seg)
    BY <1>2, <2>1, <2>3, ReadingAppend
  <2>5. Reading(now) = Reading(said) \o SegmentReading(json)
    BY <2>2, ReadingAppend
  <2>6. w \in Seq(Segs) /\ Reading(w) = Reading(now)
    BY <1>2, <2>1, <2>3, <2>4, <2>5
  <2> HIDE DEF w
  <2>7. [msg EXCEPT !.content = w] = [content |-> w, source |-> v]
    BY <1>2
  <2>8. got = [msg EXCEPT !.content = w]
    BY <1>5 DEF w
  <2>9. QED
    BY <2>6, <2>7, <2>8
<1>6. QED
  BY <1>1, <1>3, <1>4, <1>5

LEMMA ReceivedChain ==
  ASSUME NEW chain, IsChain(chain, Alphabet, Nested)
  PROVE  Received(sent_message_from_json(chain), Keeping!Run(chain))
<1> DEFINE S == {json \in ToSet(chain) : WellTyped(json, Alphabet, Nested)}
           Good(c) == Received(sent_message_from_json(c), Keeping!Run(c)) /\ Keeping!Run(c) \in Seq(S)
           G == {c \in Seq(S) : Good(c)}
<1>1. \A c : sent_message_from_json(c) = ReceiveLoop!Run(c)
  BY Zenon DEF sent_message_from_json, Receiving!Run, ReceiveLoop!Run
<1>2. \A c : Keeping!Run(c) = KeepLoop!Run(c)
  BY Zenon DEF Keeping!Run, KeepLoop!Run
<1>3. chain \in Seq(S)
  <2>1. /\ chain \in Seq(ToSet(chain))
        /\ \A i \in DOMAIN chain : WellTyped(chain[i], Alphabet, Nested)
    BY Zenon DEF IsChain
  <2>2. /\ Len(chain) \in Nat /\ DOMAIN chain = 1 .. Len(chain)
        /\ chain \in [1 .. Len(chain) -> ToSet(chain)]
    BY <2>1
  <2>3. \A i \in 1 .. Len(chain) : chain[i] \in S
    BY <2>1, <2>2
  <2> HIDE DEF S
  <2>4. chain \in [1 .. Len(chain) -> S]
    BY <2>2, <2>3
  <2>5. QED
    BY <2>2, <2>4
<1>4. \A json \in S : WellTyped(json, Alphabet, Nested)
  OBVIOUS
<1> HIDE DEF S
<1>5. <<>> \in G
  <2>1. sent_message_from_json(<<>>) = [content |-> <<>>, source |-> 0] /\ Keeping!Run(<<>>) = <<>>
    BY <1>1, <1>2, ReceiveLoop!RunEmpty, KeepLoop!RunEmpty
  <2>2. <<>> \in Seq(S) /\ <<>> \in Seq(Segs)
    OBVIOUS
  <2>3. Good(<<>>)
    BY <2>1, <2>2 DEF Received
  <2>4. QED
    BY <2>2, <2>3
<1>6. ASSUME NEW c \in G, NEW json \in S PROVE Append(c, json) \in G
  <2>1. c \in Seq(S) /\ Append(c, json) \in Seq(S) /\ Good(c)
    OBVIOUS
  <2>2. sent_message_from_json(Append(c, json)) = Receive(sent_message_from_json(c), json)
    BY <1>1, <2>1, ReceiveLoop!RunAppend
  <2>3. Keeping!Run(Append(c, json)) = Keep(Keeping!Run(c), json)
    BY <1>2, <2>1, KeepLoop!RunAppend
  <2>4. Received(Receive(sent_message_from_json(c), json), Keep(Keeping!Run(c), json))
    BY <1>4, <2>1, ReceiveStep
  <2>5. Keep(Keeping!Run(c), json) \in Seq(S)
    BY <2>1 DEF Keep
  <2>6. Good(Append(c, json))
    BY <2>2, <2>3, <2>4, <2>5
  <2>7. QED
    BY <2>1, <2>6
<1>7. G \in SUBSET Seq(S)
  OBVIOUS
<1> HIDE DEF G
<1>8. G = Seq(S)
  BY <1>5, <1>6, <1>7, ReceiveLoop!SequenceInduction
<1>9. QED
  BY <1>3, <1>8 DEF G

\* A message that says what the one in a frame says.
Says(msg, n) == msg \in Seq(Segs) /\ Reading(msg) = Reading(Content(Frames[n]))

\* An event of a Bot, or of none; if it has a message, it is that of its frame.
GoodEvent(e, bot, n) ==
  /\ e # Null /\ e.bot = bot
  /\ e.class \in DOMAIN MessageEvents => Says(e.data.messageChain.content, n)

LEMMA EventIs ==
  ASSUME NEW n \in Names, event_from_json(Frames[n]) # Null
  PROVE  \E class, subtype, data :
           /\ event_from_json(Frames[n]) =
                [class |-> class, subtype |-> subtype, bot |-> Null, data |-> data]
           /\ class \in DOMAIN MessageEvents => Says(data.messageChain.content, n)
<1> DEFINE json == Frames[n]
           class == ClassTable[json.type]
           subtype == SubType(json.type)
           field(k) == IF Has(json, k) THEN read(Fields(class)[k], json[k]) ELSE Null
           data == [k \in DOMAIN Fields(class) |-> field(k)]
<1>1. /\ \A k \in DOMAIN Fields(class) : field(k) # Null
      /\ event_from_json(json) =
           [class |-> class, subtype |-> subtype, bot |-> Null, data |-> data]
  BY Zenon DEF event_from_json
<1>2. ASSUME class \in DOMAIN MessageEvents
      PROVE  Says(data.messageChain.content, n)
  <2> HIDE DEF class, json
  <2>1. /\ Fields(class) = MessageEvents[class]
        /\ "messageChain" \in DOMAIN MessageEvents[class]
        /\ MessageEvents[class].messageChain = "SentMessage"
    BY <1>2 DEF Fields, MessageEvents, MessageEventBase
  <2>2. "messageChain" \in DOMAIN Fields(class) /\ Fields(class)["messageChain"] = "SentMessage"
    BY <2>1
  <2>3. data["messageChain"] = field("messageChain") /\ field("messageChain") # Null
    BY <1>1, <2>2
  <2>4. Has(json, "messageChain") /\ field("messageChain") = read("SentMessage", json["messageChain"])
    BY <2>2, <2>3, Zenon
  <2>5. read("SentMessage", json["messageChain"]) = sent_message_from_json(json["messageChain"])
    BY DEF read
  <2> DEFINE chain == json["messageChain"]
             got == sent_message_from_json(chain)
             said == Keeping!Run(chain)
  <2>6. "messageChain" \in DOMAIN json
    BY <2>4 DEF Has
  <2>7. IsChain(chain, Alphabet, Nested)
    BY <2>6, FramesAssumption, Zenon DEF json
  <2>8. said = Content(Frames[n])
    BY Zenon DEF Content, json
  <2> HIDE DEF chain
  <2>9. Received(got, said) /\ got # Null
    <3>1. Received(got, said)
      BY <2>7, ReceivedChain
    <3>2. QED
      BY <2>3, <2>4, <2>5, <3>1 DEF chain
  <2>10. data["messageChain"] = got
    BY <2>3, <2>4, <2>5, Zenon DEF chain
  <2> HIDE DEF got, data, said
  <2>11. PICK u, v : /\ got = [content |-> u, source |-> v]
                     /\ u \in Seq(Segs) /\ Reading(u) = Reading(said)
    BY <2>9 DEF Received
  <2>12. data.messageChain.content = u
    BY <2>10, <2>11
  <2>13. QED
    BY <2>8, <2>11, <2>12 DEF Says
<1> HIDE DEF class, subtype, data
<1>3. QED
  BY <1>1, <1>2 DEF json

LEMMA EventGood ==
  ASSUME NEW n \in Names, event_from_json(Frames[n]) # Null
  PROVE  GoodEvent(event_from_json(Frames[n]), Null, n)
<1> DEFINE e == event_from_json(Frames[n])
<1>1. PICK class, subtype, data :
        /\ e = [class |-> class, subtype |-> subtype, bot |-> Null, data |-> data]
        /\ class \in DOMAIN MessageEvents => Says(data.messageChain.content, n)
  BY EventIs
<1> HIDE DEF e
<1>2. e.class = class /\ e.data = data /\ e.bot = Null
  BY <1>1
<1>3. e # Null
  BY DEF e
<1>4. GoodEvent(e, Null, n)
  BY <1>1, <1>2, <1>3, Zenon DEF GoodEvent
<1>5. QED
  BY <1>4 DEF e

LEMMA ParsedGood ==
  ASSUME NEW n \in Names, parse_event(Frames[n]) # Null
  PROVE  GoodEvent(parse_event(Frames[n]), Bot, n)
<1> DEFINE e == event_from_json(Frames[n])
           p == parse_event(Frames[n])
<1>1. e # Null /\ p = [e EXCEPT !.bot = Bot]
  BY Zenon DEF parse_event
<1>2. PICK class, subtype, data :
        /\ e = [class |-> class, subtype |-> subtype, bot |-> Null, data |-> data]
        /\ class \in DOMAIN MessageEvents => Says(data.messageChain.content, n)
  BY <1>1, EventIs
<1> HIDE DEF e
<1>3. p # Null
  OBVIOUS
<1> HIDE DEF p
<1>4. p = [class |-> class, subtype |-> subtype, bot |-> Bot, data |-> data]
  BY <1>1, <1>2
<1>5. p.class = class /\ p.data = data /\ p.bot = Bot
  BY <1>4
<1>6. GoodEvent(p, Bot, n)
  BY <1>2, <1>3, <1>5, Zenon DEF GoodEvent
<1>7. QED
  BY <1>6 DEF p

-----------------------------------------------------------------------------
(***************************************************************************)
(* The inductive invariant: the event at hand came from a frame, knows its *)
(* Bot unless it was retrieved, and has the message of that frame; the     *)
(* draft reads as it is meant, and so does what was sent.                  *)
(***************************************************************************)
EventInv ==
  pc = "callback" =>
    /\ ev.of \in Names
    /\ \/ GoodEvent(ev.is, Bot, ev.of)
       \/ GoodEvent(ev.is, Null, ev.of) /\ ev.how = "retrieved"

DraftInv == draft \in Seq(Segs) /\ Reading(draft) = meant

\* The server understands a request as it is meant exactly if that is clean.
ReadsClean(body, says) == ReadAsMeant(body, says) <=> Clean(says)

SentInv == sent # Null => ReadsClean(sent.body, sent.meant)

SyncInv == TypeOK /\ EventInv /\ DraftInv /\ SentInv

LEMMA DraftTyped ==
  ASSUME NEW msg \in Seq(Segs)
  PROVE  \A i \in DOMAIN msg : msg[i].type \in DOMAIN Layout
<1> SUFFICES ASSUME NEW i \in DOMAIN msg PROVE msg[i].type \in DOMAIN Layout
  OBVIOUS
<1>1. msg[i] \in Segs
  OBVIOUS
<1>2. TypedSegment(msg[i], Alphabet, Held)
  BY <1>1, SegmentsTyped DEF Segs
<1>3. QED
  BY <1>2 DEF TypedSegment

LEMMA DraftEmpty == <<>> \in Seq(Segs) /\ Reading(<<>>) = <<>>
BY ReadingEmpty

\* Whether a request is understood depends on the request only.
LEMMA SentKept == ASSUME SentInv, UNCHANGED sent PROVE SentInv'
BY Zenon DEF SentInv

LEMMA SyncInvInit == Init => SyncInv
<1> SUFFICES ASSUME Init PROVE SyncInv
  OBVIOUS
<1>1. DraftInv /\ SentInv
  BY DraftEmpty DEF Init, DraftInv, SentInv
<1>2. TypeOK
  BY <1>1, DraftTyped DEF DraftInv, Init, Nothing, TypeOK, Over
<1>3. EventInv
  BY DEF Init, EventInv
<1>4. QED
  BY <1>1, <1>2, <1>3 DEF SyncInv

\* A step that leaves the program's data alone and does not go to the callback.
LEMMA SyncMove ==
  ASSUME SyncInv, UNCHANGED <<ev, draft, sent, meant, frame>>,
         pc' \in {"reading", "handling", "closing", "unwinding"} \cup Over,
         stream' \in {"open", "closed", "broken", "ended"}
  PROVE  SyncInv'
<1>1. TypeOK' /\ EventInv'
  BY DEF SyncInv, TypeOK, EventInv, Over
<1>2. DraftInv' /\ SentInv'
  BY SentKept DEF SyncInv, DraftInv
<1>3. QED
  BY <1>1, <1>2 DEF SyncInv

LEMMA SyncLeave ==
  ASSUME SyncInv, NEW next \in {"reading", "handling", "closing", "unwinding"}, Leave(next)
  PROVE  SyncInv'
<1>1. DraftInv' /\ SentInv'
  BY DraftEmpty DEF Leave, DraftInv, SentInv
<1>2. TypeOK'
  BY <1>1, DraftTyped DEF SyncInv, DraftInv, Leave, TypeOK, Nothing, history
<1>3. EventInv'
  BY DEF Leave, EventInv
<1>4. QED
  BY <1>1, <1>2, <1>3 DEF SyncInv

LEMMA SyncRead ==
  ASSUME SyncInv, NEW n \in Names, Read(n)
  PROVE  SyncInv'
<1> DEFINE e == parse_event(Frames[n])
<1>0. UNCHANGED <<stream, draft, sent, meant>>
  BY DEF Read
<1>1. DraftInv' /\ SentInv'
  BY <1>0, SentKept DEF SyncInv, DraftInv
<1>2. CASE check_json(Frames[n]) /\ e # Null
  <2>1. GoodEvent(e, Bot, n)
    BY <1>2, ParsedGood
  <2> HIDE DEF e
  <2>2. pc' = "callback" /\ ev' = [how |-> "monitor", of |-> n, is |-> e] /\ frame' = n
    BY <1>2, Zenon DEF Read, e
  <2>3. ev'.how = "monitor" /\ ev'.of = n /\ ev'.is = e
    BY <2>2
  <2>4. e # Null /\ e.bot = Bot
    BY <2>1 DEF GoodEvent
  <2>5. TypeOK'
    BY <1>0, <2>2, <2>3, <2>4 DEF SyncInv, TypeOK
  <2>6. EventInv'
    <3>1. GoodEvent(ev.is, Bot, ev.of)'
      BY <2>1, <2>3, Zenon DEF GoodEvent
    <3>2. QED
      BY <2>2, <2>3, <3>1 DEF EventInv
  <2>7. QED
    BY <1>1, <2>5, <2>6 DEF SyncInv
<1>3. CASE ~ (check_json(Frames[n]) /\ e # Null)
  <2>1. pc' = "handling" /\ frame' = n /\ UNCHANGED ev
    BY <1>3, Zenon DEF Read
  <2>2. TypeOK' /\ EventInv'
    BY <1>0, <2>1 DEF SyncInv, TypeOK, EventInv
  <2>3. QED
    BY <1>1, <2>2 DEF SyncInv
<1>4. QED
  BY <1>2, <1>3

-----------------------------------------------------------------------------
(***************************************************************************)
(* The program composes.                                                   *)
(***************************************************************************)
LEMMA SyncDraft ==
  ASSUME SyncInv, Working, UNCHANGED <<pc, stream, ev, sent, history>>, DraftInv'
  PROVE  SyncInv'
<1>1. \A i \in DOMAIN draft' : draft'[i].type \in DOMAIN Layout
  BY DraftTyped DEF DraftInv
<1>2. TypeOK'
  BY <1>1 DEF SyncInv, TypeOK, history
<1>3. EventInv' /\ SentInv'
  BY SentKept DEF SyncInv, Working, EventInv, GoodEvent
<1>4. QED
  BY <1>2, <1>3 DEF SyncInv

LEMMA SaysConcat ==
  ASSUME NEW s \in Seq(Segs), NEW t \in Seq(Segs)
  PROVE  s \o t \in Seq(Segs) /\ Reading(s \o t) = Reading(s) \o Reading(t)
<1>1. Reading(s \o t) = Reading(s) \o Reading(t)
  BY Known, ReadingConcat DEF Segs
<1>2. QED
  BY <1>1

LEMMA SyncAppendContent == ASSUME SyncInv, AppendContent PROVE SyncInv'
<1> DEFINE content == ev.is.data.messageChain.content
           said == Reading(Content(Frames[ev.of]))
<1>1. Working /\ pc = "callback" /\ ev.is.class \in DOMAIN MessageEvents
      /\ draft' = draft \o content /\ meant' = meant \o said
      /\ UNCHANGED <<pc, stream, ev, sent, history>>
  BY DEF AppendContent, Working
<1>2. content \in Seq(Segs) /\ Reading(content) = said
  BY <1>1 DEF SyncInv, EventInv, GoodEvent, Says
<1>3. draft \in Seq(Segs) /\ Reading(draft) = meant
  BY DEF SyncInv, DraftInv
<1> HIDE DEF content, said
<1>4. Reading(draft \o content) = Reading(draft) \o Reading(content)
  BY <1>2, <1>3, SaysConcat
<1>5. DraftInv'
  BY <1>1, <1>2, <1>3, <1>4 DEF DraftInv
<1>6. QED
  BY <1>1, <1>5, SyncDraft

LEMMA ExtraSays == Extra \in Segs /\ Reading(<<Extra>>) = SegmentReading(Extra)
<1>1. Extra \in PlainOf(Alphabet)
  BY ProgramAssumption DEF PlainOf
<1>2. Extra \in Segs
  BY <1>1 DEF Segs, Segments
<1>3. Reading(Append(<<>>, Extra)) = Reading(<<>>) \o SegmentReading(Extra)
  BY <1>2, DraftEmpty, ReadingAppend
<1>4. SegmentReading(Extra) \in Seq(Shown(Alphabet))
  BY <1>2, Known, SegmentShown DEF Segs
<1>5. Append(<<>>, Extra) = <<Extra>>
  OBVIOUS
<1> DEFINE part == SegmentReading(Extra)
           one == <<Extra>>
<1>6. Reading(one) = <<>> \o part
  BY <1>3, <1>5, DraftEmpty, Zenon
<1> HIDE DEF part, one
<1>7. Reading(one) = part
  BY <1>4, <1>6 DEF part
<1>8. QED
  BY <1>2, <1>7 DEF part, one

LEMMA SyncAppendSegment == ASSUME SyncInv, AppendSegment PROVE SyncInv'
<1>1. Working /\ draft' = Append(draft, Extra) /\ meant' = meant \o Reading(<<Extra>>)
      /\ UNCHANGED <<pc, stream, ev, sent, history>>
  BY DEF AppendSegment
<1>2. draft \in Seq(Segs) /\ Reading(draft) = meant
  BY DEF SyncInv, DraftInv
<1> DEFINE all == Append(draft, Extra)
           part == Reading(<<Extra>>)
<1>3. all \in Seq(Segs) /\ Reading(all) = Reading(draft) \o part
  <2>1. Reading(all) = Reading(draft) \o SegmentReading(Extra)
    BY <1>2, ExtraSays, ReadingAppend
  <2>2. Reading(all) = Reading(draft) \o part
    BY <2>1, ExtraSays, Zenon
  <2>3. QED
    BY <1>2, <2>2, ExtraSays
<1> HIDE DEF all, part
<1>4. draft' = all /\ meant' = meant \o part
  BY <1>1 DEF all, part
<1>5. DraftInv'
  BY <1>2, <1>3, <1>4 DEF DraftInv
<1>6. QED
  BY <1>1, <1>5, SyncDraft

LEMMA SyncCollapse == ASSUME SyncInv, Collapse PROVE SyncInv'
<1>1. Working /\ draft' = collapse_adjacent_text(draft)
      /\ UNCHANGED <<pc, stream, ev, sent, meant, history>>
  BY DEF Collapse
<1>2. draft \in Seq(Segs) /\ Reading(draft) = meant
  BY DEF SyncInv, DraftInv
<1>3. /\ collapse_adjacent_text(draft) \in Seq(Segs)
      /\ Reading(collapse_adjacent_text(draft)) = Reading(draft)
  BY <1>2, Known, ReadingCollapse DEF Segs
<1>4. DraftInv'
  BY <1>1, <1>2, <1>3 DEF DraftInv
<1>5. QED
  BY <1>1, <1>4, SyncDraft

-----------------------------------------------------------------------------
(***************************************************************************)
(* The program sends and responds.                                         *)
(***************************************************************************)
LEMMA SyncPost ==
  ASSUME SyncInv, Working, NEW body, NEW says, NEW readable \in BOOLEAN,
         ReadsClean(body, says), Post(body, says, readable)
  PROVE  SyncInv'
<1>0. pc = "callback" /\ UNCHANGED <<stream, ev, draft, meant, frame>>
  BY DEF Working, Post, history
<1>1. CASE ev.is.bot = Null
  <2>1. pc' = "terminated" /\ UNCHANGED sent
    BY <1>1 DEF Post
  <2>2. QED
    BY <1>0, <2>1, SyncMove DEF SyncInv, TypeOK, Over
<1>2. CASE ev.is.bot # Null
  <2>1. /\ sent' = [of |-> ev.of, body |-> body, meant |-> says]
        /\ pc' \in {"handling", "callback"}
    BY <1>2 DEF Post
  <2>2. sent'.of \in Names /\ sent'.body = body /\ sent'.meant = says
    BY <1>0, <2>1 DEF SyncInv, EventInv
  <2>3. TypeOK'
    BY <1>0, <2>1, <2>2 DEF SyncInv, TypeOK
  <2>4. EventInv'
    BY <1>0, <2>1 DEF SyncInv, EventInv, GoodEvent
  <2>5. DraftInv'
    BY <1>0 DEF SyncInv, DraftInv
  <2>6. SentInv'
    BY <2>2, Zenon DEF SentInv
  <2>7. QED
    BY <2>3, <2>4, <2>5, <2>6 DEF SyncInv
<1>3. QED
  BY <1>1, <1>2

LEMMA SyncSendMessage ==
  ASSUME SyncInv, NEW quote \in BOOLEAN, SendMessage(quote)
  PROVE  SyncInv'
<1> DEFINE body == send_message_body(ev.is, draft, quote)
           readable == Readable(body.messageChain)
           chain == message_as_json(draft)
<1>1. Working /\ Post(body, meant, readable) /\ readable \in BOOLEAN
  BY DEF SendMessage, Readable
<1>2. draft \in Seq(Segs) /\ Reading(draft) = meant
  BY DEF SyncInv, DraftInv
<1>3. Readable(chain) /\ Reading(DecodedChain(chain)) = Reading(draft) <=> Clean(Reading(draft))
  BY <1>2, Known, SentReadsBack DEF Segs
<1>4. "messageChain" \in DOMAIN body /\ body.messageChain = chain
  BY DEF send_message_body
<1> HIDE DEF body, chain
<1>5. ReadsClean(body, meant)
  BY <1>2, <1>3, <1>4, Zenon DEF ReadsClean, ReadAsMeant
<1> HIDE DEF readable
<1>6. QED
  BY <1>1, <1>5, SyncPost

LEMMA SyncRespond ==
  ASSUME SyncInv, NEW operate \in 0 .. 1, Respond(operate)
  PROVE  SyncInv'
<1> DEFINE body == respond_body(ev.is, operate, Extra.text)
           says == Spell(Extra.text)
           readable == Unquote(body.message) # Null
           got == Unquote(JsonQuoted(Extra.text))
<1>1. Working /\ Post(body, says, readable) /\ readable \in BOOLEAN
  BY DEF Respond
<1>2. Extra.text \in Seq(Alphabet)
  BY ProgramAssumption
<1>3. IF got = Null THEN ~ Clean(says) ELSE got \in Seq(Alphabet) /\ Understood(Spell(got), says)
  BY <1>2, Known, SpeltUnderstood
<1>4. "messageChain" \notin DOMAIN body /\ body.message = JsonQuoted(Extra.text)
  BY DEF respond_body
<1>5. Unquote(body.message) = got
  BY <1>4
<1> HIDE DEF body, says, got
<1>6. got # Null /\ Spell(got) = says <=> Clean(says)
  BY <1>3 DEF Understood
<1>7. ReadsClean(body, says)
  BY <1>4, <1>5, <1>6, Zenon DEF ReadsClean, ReadAsMeant
<1> HIDE DEF readable
<1>8. QED
  BY <1>1, <1>7, SyncPost

LEMMA SyncLook ==
  ASSUME SyncInv, Working, NEW how, NEW n \in Names, NEW e, Look(how, n, e),
         e # Null => \/ how = "retrieved" /\ GoodEvent(e, Null, n)
                     \/ how = "fetched" /\ GoodEvent(e, Bot, n)
  PROVE  SyncInv'
<1>0. UNCHANGED <<stream, draft, sent, meant, frame>>
  BY DEF Look, history
<1>1. CASE e = Null
  <2>1. pc' = "handling" /\ UNCHANGED ev
    BY <1>1 DEF Look
  <2>2. QED
    BY <1>0, <2>1, SyncMove DEF SyncInv, TypeOK
<1>2. CASE e # Null
  <2>1. pc = "callback" /\ pc' = pc /\ ev' = [how |-> how, of |-> n, is |-> e]
    BY <1>2 DEF Look, Working
  <2>2. ev'.how = how /\ ev'.of = n /\ ev'.is = e
    BY <2>1
  <2>3. e.bot \in {Bot, Null} /\ how \in {"retrieved", "fetched"}
    BY <1>2 DEF GoodEvent
  <2>4. TypeOK'
    BY <1>0, <1>2, <2>1, <2>2, <2>3 DEF SyncInv, TypeOK
  <2>5. EventInv'
    <3>1. \/ GoodEvent(ev.is, Bot, ev.of)'
          \/ (GoodEvent(ev.is, Null, ev.of) /\ ev.how = "retrieved")'
      BY <1>2, <2>2, Zenon DEF GoodEvent
    <3>2. QED
      BY <2>1, <2>2, <3>1 DEF EventInv
  <2>6. DraftInv' /\ SentInv'
    BY <1>0, SentKept DEF SyncInv, DraftInv
  <2>7. QED
    BY <2>4, <2>5, <2>6 DEF SyncInv
<1>3. QED
  BY <1>1, <1>2

LEMMA SyncRetrieve ==
  ASSUME SyncInv, NEW n \in Stored, retrieve_message(n)
  PROVE  SyncInv'
<1> DEFINE e == event_from_json(Frames[n])
<1>1. n \in Names /\ Working /\ Look("retrieved", n, e)
  BY ProgramAssumption DEF retrieve_message
<1>2. e # Null => GoodEvent(e, Null, n)
  BY <1>1, EventGood
<1> HIDE DEF e
<1>3. QED
  BY <1>1, <1>2, SyncLook

LEMMA SyncPop ==
  ASSUME SyncInv, NEW list \in Lists, pop_events(list)
  PROVE  SyncInv'
<1> DEFINE jsons == [i \in DOMAIN list |-> Frames[list[i]]]
           evs == parse_events(jsons)
<1>1. PICK i \in DOMAIN list : Look("fetched", list[i], IF evs = Null THEN Null ELSE evs[i])
  BY Zenon DEF pop_events
<1> DEFINE e == IF evs = Null THEN Null ELSE evs[i]
<1>2. Working
  BY DEF pop_events
<1>3. list[i] \in Names
  BY ProgramAssumption
<1>4. ASSUME e # Null PROVE GoodEvent(e, Bot, list[i])
  <2> DEFINE all == [j \in DOMAIN jsons |-> parse_event(jsons[j])]
  <2>1. evs # Null /\ e = evs[i]
    BY <1>4
  <2>2. evs = all
    BY <2>1, Zenon DEF parse_events
  <2>3. e = parse_event(Frames[list[i]])
    BY <2>1, <2>2
  <2>4. QED
    BY <1>3, <1>4, <2>3, ParsedGood, Zenon
<1> HIDE DEF e
<1>5. Look("fetched", list[i], e)
  BY <1>1 DEF e
<1>6. QED
  BY <1>2, <1>3, <1>4, <1>5, SyncLook

LEMMA SyncStream ==
  ASSUME SyncInv, connect_websocket \/ StreamEnds \/ ReadFails \/ Close \/ CloseThrows
  PROVE  SyncInv'
<1>1. UNCHANGED <<ev, draft, sent, meant, frame>>
  BY DEF connect_websocket, StreamEnds, ReadFails, Close, CloseThrows, history
<1>2. CASE StreamEnds
  <2>1. TypeOK' /\ EventInv'
    BY <1>2 DEF StreamEnds, Live, SyncInv, TypeOK, EventInv, GoodEvent, history
  <2>2. DraftInv' /\ SentInv'
    BY <1>1, SentKept DEF SyncInv, DraftInv
  <2>3. QED
    BY <2>1, <2>2 DEF SyncInv
<1>3. CASE connect_websocket \/ ReadFails \/ Close \/ CloseThrows
  <2>1. /\ pc' \in {"reading", "handling", "closing", "unwinding"} \cup Over
        /\ stream' \in {"open", "closed", "broken", "ended"}
    BY <1>3 DEF connect_websocket, ReadFails, Close, CloseThrows, SyncInv, TypeOK, Over, history
  <2>2. QED
    BY <1>1, <2>1, SyncMove
<1>4. QED
  BY <1>2, <1>3

LEMMA SyncStutter == ASSUME SyncInv, UNCHANGED vars PROVE SyncInv'
<1>1. UNCHANGED <<pc, stream, ev, draft, sent, meant, frame>>
  BY DEF vars, history
<1>2. TypeOK'
  BY <1>1 DEF SyncInv, TypeOK, Over
<1>3. EventInv'
  BY <1>1 DEF SyncInv, EventInv, GoodEvent
<1>4. DraftInv' /\ SentInv'
  BY <1>1, SentKept DEF SyncInv, DraftInv
<1>5. QED
  BY <1>2, <1>3, <1>4 DEF SyncInv

LEMMA SyncInvNext == SyncInv /\ [Next]_vars => SyncInv'
<1> SUFFICES ASSUME SyncInv, [Next]_vars PROVE SyncInv'
  OBVIOUS
<1>1. CASE connect_websocket \/ StreamEnds \/ ReadFails \/ Close \/ CloseThrows
  BY <1>1, SyncStream
<1>2. CASE \E n \in Names : Read(n)
  BY <1>2, SyncRead
<1>3. CASE CallbackReturns \/ CallbackThrows \/ ExceptionHandler
  BY <1>3, SyncLeave DEF CallbackReturns, CallbackThrows, ExceptionHandler
<1>4. CASE AppendContent
  BY <1>4, SyncAppendContent
<1>5. CASE AppendSegment
  BY <1>5, SyncAppendSegment
<1>6. CASE Collapse
  BY <1>6, SyncCollapse
<1>7. CASE \E quote \in BOOLEAN : SendMessage(quote)
  BY <1>7, SyncSendMessage
<1>8. CASE \E operate \in 0 .. 1 : Respond(operate)
  BY <1>8, SyncRespond
<1>9. CASE \E n \in Stored : retrieve_message(n)
  BY <1>9, SyncRetrieve
<1>10. CASE \E list \in Lists : pop_events(list)
  BY <1>10, SyncPop
<1>11. CASE UNCHANGED vars
  BY <1>11, SyncStutter
<1>12. QED
  BY <1>1, <1>2, <1>3, <1>4, <1>5, <1>6, <1>7, <1>8, <1>9, <1>10, <1>11, Zenon DEF Next

LEMMA SyncInvAlways == Spec => []SyncInv
BY SyncInvInit, SyncInvNext, PTL DEF Spec

\* Whatever frames the server sends and however long the program composes,
\* the event in the callback is one, and every segment of the draft has a type
\* of the library: from_json and the merging of texts let nothing else through.
THEOREM TypeCorrect == Spec => []TypeOK
<1>1. SyncInv => TypeOK
  BY DEF SyncInv
<1>2. QED
  BY <1>1, SyncInvAlways, PTL

\* Whatever the server sends: what monitor_events gives to the callback, and
\* what pop_events and its kin return, knows its Bot.
THEOREM ReceivedKnowsCorrect == Spec => []ReceivedKnowsBot
<1>1. SyncInv => ReceivedKnowsBot
  BY DEF SyncInv, EventInv, GoodEvent, ReceivedKnowsBot
<1>2. QED
  BY <1>1, SyncInvAlways, PTL

\* Whatever the server sends, however deep its forwarded messages, and however
\* the program puts together, merges and sends what it received: the server
\* reads what was meant if that has no quote and no backslash.
THEOREM RepeatedCorrect == Spec => []Repeated
<1>1. SyncInv => Repeated
  BY Zenon DEF SyncInv, SentInv, ReadsClean, Repeated
<1>2. QED
  BY <1>1, SyncInvAlways, PTL

\* The scope of the missing escapes of JsonQuoted: of the requests that any
\* such program sends, those that the server misreads or refuses are exactly
\* the ones with a quote or a backslash in a text, at any depth; nothing
\* else is lost, and two errors never make up for each other.
THEOREM MisreadExactly ==
  Spec => [](sent # Null => (ReadAsMeant(sent.body, sent.meant) <=> Clean(sent.meant)))
<1>1. SyncInv => (sent # Null => (ReadAsMeant(sent.body, sent.meant) <=> Clean(sent.meant)))
  BY Zenon DEF SyncInv, SentInv, ReadsClean
<1>2. QED
  BY <1>1, SyncInvAlways, PTL
=============================================================================
