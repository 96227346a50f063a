----------------------------- MODULE ApiServer -----------------------------
(***************************************************************************)
(* How mirai-api-http reads the messages in a request (external code).     *)
(* The reading of a chain is the sequence of what a user would see:        *)
(* characters, and for every other segment what identifies it.             *)
(***************************************************************************)
EXTENDS Messages

CONSTANTS
  InnerReadable(_),  \* Readable, DecodedChain and Reading
  InnerDecoded(_),   \* of a message in a forwarded one
  InnerReading(_)

\* A string is what lies between the first quote and the
\* next one that is not escaped, provided nothing follows it.
ReadChar(st, c) ==
  IF st.at = "closed" THEN [st EXCEPT !.at = "bad"]
  ELSE IF st.at = "escape"
    THEN IF c \in {"quote", "backslash", "n"}
         THEN [at |-> "open", text |-> Append(st.text, IF c = "n" THEN "newline" ELSE c)]
         ELSE [st EXCEPT !.at = "bad"]
  ELSE IF st.at = "bad" \/ c = "newline" THEN [st EXCEPT !.at = "bad"]
  ELSE IF c = "quote" THEN [st EXCEPT !.at = "closed"]
  ELSE IF c = "backslash" THEN [st EXCEPT !.at = "escape"]
  ELSE [st EXCEPT !.text = Append(@, c)]

Reads == INSTANCE Loop WITH Start <- [at |-> "open", text |-> <<>>], Body <- ReadChar

Unquote(s) ==
  LET end == Reads!Run(Tail(s))
  IN IF end.at = "closed" THEN end.text ELSE Null

DecodedNode(node) ==
  [node EXCEPT !.senderName = Unquote(@), !.messageChain = InnerDecoded(@)]

Decoded(json) ==
  [k \in DOMAIN json |->
     IF k = "nodeList" THEN [i \in DOMAIN json[k] |-> DecodedNode(json[k][i])]
     ELSE IF k \in Unquoted \/ json[k] = Null THEN json[k]
     ELSE Unquote(json[k])]

\* One string that cannot be read spoils the request.
ReadableNode(node) == Unquote(node.senderName) # Null /\ InnerReadable(node.messageChain)

ReadableSegment(json) ==
  /\ \A k \in DOMAIN json \ Unquoted : json[k] # Null /\ Unquote(json[k]) # Null
  /\ "nodeList" \in DOMAIN json =>
       \A i \in DOMAIN json["nodeList"] : ReadableNode(json["nodeList"][i])

Readable(chain) ==
  LET spoilt == {i \in DOMAIN chain : ~ ReadableSegment(chain[i])} IN spoilt = {}

DecodedChain(chain) ==
  LET elem(i) == Decoded(chain[i]) IN [i \in DOMAIN chain |-> elem(i)]

\* What identifies a segment: all of these keys, or the first that is there.
AllOf ==
  [At |-> <<"target">>, AtAll |-> <<>>, Face |-> <<"faceId", "name">>, Xml |-> <<"xml">>,
   Json |-> <<"json">>, App |-> <<"content">>, Poke |-> <<"name">>,
   Forward |-> <<"title", "brief", "source", "summary", "nodeList">>]
FirstOf ==
  [Image |-> <<"imageId", "url", "path">>, FlashImage |-> <<"imageId", "url", "path">>,
   Voice |-> <<"voiceId", "url", "path">>]

Identified(json) ==
  IF json.type \in DOMAIN AllOf THEN AllOf[json.type]
  ELSE LET ks == FirstOf[json.type]
           there == {i \in DOMAIN ks : Has(json, ks[i])}
       IN IF there = {} THEN <<>> ELSE <<ks[Min(there)]>>

Join(all, part) == all \o part

Joining == INSTANCE Loop WITH Start <- <<>>, Body <- Join

Joined(parts) == Joining!Run(parts)

Spell(text) == [i \in DOMAIN text |-> <<"char", text[i]>>]

NodeReading(node) ==
  <<<<"sender", node.senderId>>, <<"time", node.time>>>> \o Spell(node.senderName)
    \o <<<<"node", "chain">>>> \o InnerReading(node.messageChain) \o <<<<"node", "end">>>>

KeyReading(json, k) ==
  IF k = "nodeList" THEN Joined([i \in DOMAIN json[k] |-> NodeReading(json[k][i])])
  ELSE IF k \in Unquoted THEN <<<<"number", optional_from_json(json, k)>>>>
  ELSE Spell(json[k])

SegmentReading(json) ==
  IF json.type = "Plain" THEN Spell(json.text)
  ELSE LET ks == Identified(json)
       IN <<<<"segment", json.type>>>>
            \o Joined([i \in DOMAIN ks |-> <<<<"key", ks[i]>>>> \o KeyReading(json, ks[i])])

Reading(chain) ==
  LET segs == [i \in DOMAIN chain |-> SegmentReading(chain[i])] IN Joined(segs)

\* No character that JSON needs escaped and JsonQuoted does not escape.
Clean(reading) ==
  \A i \in DOMAIN reading : reading[i] \notin {<<"char", "quote">>, <<"char", "backslash">>}

(***************************************************************************)
(* What the server sends: a member of a segment, if it is there, is a      *)
(* text, a number or an array of nodes, whose messages are of a given set. *)
(***************************************************************************)
Node(Char, Inner) ==
  [senderId : Nat, time : Nat, senderName : Seq(Char), messageChain : Inner]

WellTypedMember(k, v, Char, Inner) ==
  IF k = "nodeList"
  THEN /\ v \in Seq(ToSet(v))
       /\ \A i \in DOMAIN v : HasAll(v[i], NodeKeys) => v[i] \in Node(Char, Inner)
  ELSE v \in IF k \in Unquoted THEN Nat ELSE Seq(Char)

WellTyped(json, Char, Inner) ==
  Has(json, "type") /\ json.type \in DOMAIN Layout =>
    \A k \in Layout[json.type].needs \cup Layout[json.type].may :
      Has(json, k) => WellTypedMember(k, json[k], Char, Inner)

IsChain(chain, Char, Inner) ==
  chain \in Seq(ToSet(chain)) /\ \A i \in DOMAIN chain : WellTyped(chain[i], Char, Inner)
=============================================================================
