------------------------------ MODULE Messages ------------------------------
(***************************************************************************)
(* Messages, their segments, and their conversion to and from JSON.        *)
(*                                                                         *)
(* A text is a sequence of characters.  A JSON object is a function from   *)
(* keys to values, without the keys it does not have; a segment is such a  *)
(* function with all the keys its struct has, Null for an empty optional.  *)
(* Null also stands for the result of a conversion that throws.            *)
(*                                                                         *)
(* Messages hold messages.  The conversion of the inner ones is a          *)
(* parameter, for which an instance gives the conversion itself.           *)
(***************************************************************************)
EXTENDS Naturals, Sequences, SequencesExt, FiniteSetsExt

CONSTANTS
  Null,
  inner_as_json(_),     \* message_as_json of a message in a forwarded one
  inner_from_json(_),   \* message_from_json of a message in a forwarded one
  quoted_from_json(_)   \* sent_message_from_json of the message that is quoted

(***************************************************************************)
(* JSON.                                                                   *)
(***************************************************************************)
Has(json, k) == k \in DOMAIN json /\ json[k] # Null

HasAll(json, ks) == \A k \in ks : Has(json, k)

\* An optional member: nullopt if the key is missing or null.
optional_from_json(json, k) == IF Has(json, k) THEN json[k] ELSE Null

\* How a character is written inside a JSON string: control characters
\* (here the newline) are escaped, the quote and the backslash are not.
Escape(c) == IF c = "newline" THEN <<"backslash", "n">> ELSE <<c>>

Write(out, c) == out \o Escape(c)

Writing == INSTANCE Loop WITH Start <- <<>>, Body <- Write

JsonQuoted(text) == <<"quote">> \o Writing!Run(text) \o <<"quote">>

(***************************************************************************)
(* The layout of each type of segment: the keys from_json cannot do        *)
(* without, those it can, and those that format_as_json writes; of a       *)
(* medium it writes the first that is there.                               *)
(***************************************************************************)
Keys(needs, may, writes) == [needs |-> needs, may |-> may, writes |-> writes]
Text(k) == Keys({k}, {}, <<k>>)
Medium(id) == Keys({}, {id, "url", "path"}, <<id, "url", "path">>)

At         == Keys({"target", "display"}, {}, <<"target">>)
AtAll      == Keys({}, {}, <<>>)
Face       == Keys({"name"}, {"faceId"}, <<"faceId", "name">>)
Plain      == Text("text")
Image      == Medium("imageId")
FlashImage == Medium("imageId")
Voice      == Medium("voiceId")
Xml        == Text("xml")
Json       == Text("json")
App        == Text("content")
Poke       == Text("name")
Forward    ==
  LET k == <<"title", "brief", "source", "summary", "nodeList">> IN Keys(ToSet(k), {}, k)

\* Every type that Segment::from_json knows.
Layout ==
  [At |-> At, AtAll |-> AtAll, Face |-> Face, Plain |-> Plain, Image |-> Image,
   FlashImage |-> FlashImage, Voice |-> Voice, Xml |-> Xml, Json |-> Json, App |-> App,
   Poke |-> Poke, Forward |-> Forward]

Media == {"Image", "FlashImage", "Voice"}

Written(seg) ==
  LET w == Layout[seg.type].writes
      there == {i \in DOMAIN w : seg[w[i]] # Null}
  IN IF seg.type \notin Media THEN ToSet(w)
     ELSE IF there = {} THEN {} ELSE {w[Min(there)]}

\* Keys whose value is no string: numbers, and the nodes of a forwarded message.
Unquoted == {"type", "target", "faceId", "nodeList"}

forwarded_as_json(node) ==
  [node EXCEPT !.senderName = JsonQuoted(@), !.messageChain = inner_as_json(@)]

\* An empty optional is written as null.
segment_as_json(seg) ==
  [k \in {"type"} \cup Written(seg) |->
     IF k = "nodeList" THEN [i \in DOMAIN seg[k] |-> forwarded_as_json(seg[k][i])]
     ELSE IF k \in Unquoted \/ seg[k] = Null THEN seg[k]
     ELSE JsonQuoted(seg[k])]

message_as_json(msg) ==
  LET elem(i) == segment_as_json(msg[i]) IN [i \in DOMAIN msg |-> elem(i)]

(***************************************************************************)
(* Messages.  Adjacent texts are merged on request and in the nodes of a   *)
(* forwarded message.                                                      *)
(***************************************************************************)
is_plain(seg) == seg.type = "Plain"

\* Mutant: the first segment of a run of texts is dropped.
Mut_MergeOverwrites(msg, seg) ==
  IF is_plain(seg) /\ msg # <<>> /\ is_plain(Last(msg))
  THEN [msg EXCEPT ![Len(msg)] = seg]
  ELSE Append(msg, seg)

Merge(msg, seg) ==
  IF is_plain(seg) /\ msg # <<>> /\ is_plain(Last(msg))
  THEN [msg EXCEPT ![Len(msg)].text = @ \o seg.text]
  ELSE Append(msg, seg)

Collapsing == INSTANCE Loop WITH Start <- <<>>, Body <- Merge

collapse_adjacent_text(msg) == Collapsing!Run(msg)

NodeKeys == {"senderId", "time", "senderName", "messageChain"}

forwarded_from_json(node) ==
  IF ~ HasAll(node, NodeKeys) \/ inner_from_json(node.messageChain) = Null THEN Null
  ELSE [node EXCEPT !.messageChain = inner_from_json(@)]

segment_from_json(json) ==
  LET nodes == [i \in DOMAIN json.nodeList |-> forwarded_from_json(json.nodeList[i])]
  IN IF ~ Has(json, "type") \/ json.type \notin DOMAIN Layout THEN Null
     ELSE IF ~ HasAll(json, Layout[json.type].needs) THEN Null
     ELSE IF json.type = "Forward" /\ Null \in ToSet(nodes) THEN Null
     ELSE [k \in {"type"} \cup Layout[json.type].needs \cup Layout[json.type].may |->
             IF k = "nodeList" THEN nodes ELSE optional_from_json(json, k)]

message_from_json(chain) ==
  LET segs == [i \in DOMAIN chain |-> segment_from_json(chain[i])]
  IN IF Null \in ToSet(segs) THEN Null ELSE collapse_adjacent_text(segs)

(***************************************************************************)
(* The chain of an event also has the source of the message and what it    *)
(* quotes; texts next to each other stay apart.                            *)
(***************************************************************************)
Source_from_json(json) == IF HasAll(json, {"id", "time"}) THEN json.id ELSE Null

Quote_from_json(json) ==
  IF HasAll(json, {"id", "senderId", "origin"}) /\ quoted_from_json(json.origin) # Null
  THEN json.id ELSE Null

IsContent(json) == json.type \notin {"Source", "Quote"}

\* One element of the chain; after an exception there is no next.
Receive(msg, json) ==
  LET source == Source_from_json(json)
      seg == segment_from_json(json)
  IN IF msg = Null \/ ~ Has(json, "type") THEN Null
     ELSE CASE json.type = "Source" -> IF source = Null THEN Null ELSE [msg EXCEPT !.source = source]
            [] json.type = "Quote" -> IF Quote_from_json(json) = Null THEN Null ELSE msg
            [] OTHER -> IF seg = Null THEN Null ELSE [msg EXCEPT !.content = Append(@, seg)]

Receiving == INSTANCE Loop WITH Start <- [content |-> <<>>, source |-> 0], Body <- Receive

sent_message_from_json(chain) == LET result == Receiving!Run(chain) IN result
=============================================================================
