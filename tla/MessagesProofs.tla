--------------------------- MODULE MessagesProofs ---------------------------
(***************************************************************************)
(* What the conversions of messages do, for every message and every text.  *)
(***************************************************************************)
EXTENDS ApiServer, SequenceTheorems, TLAPS

CollapseLoop == INSTANCE LoopProofs WITH Start <- <<>>, Body <- Merge

LEMMA CollapseEmpty == collapse_adjacent_text(<<>>) = <<>>
<1>1. collapse_adjacent_text(<<>>) = CollapseLoop!Run(<<>>)
  BY Zenon DEF collapse_adjacent_text, Collapsing!Run, CollapseLoop!Run
<1>2. QED
  BY <1>1, CollapseLoop!RunEmpty

LEMMA CollapseAppend ==
  ASSUME NEW S, NEW msg \in Seq(S), NEW seg \in S
  PROVE  collapse_adjacent_text(Append(msg, seg)) = Merge(collapse_adjacent_text(msg), seg)
<1>1. \A m : collapse_adjacent_text(m) = CollapseLoop!Run(m)
  BY Zenon DEF collapse_adjacent_text, Collapsing!Run, CollapseLoop!Run
<1>2. QED
  BY <1>1, CollapseLoop!RunAppend

\* The messages over a set of characters and one of other segments.
PlainOf(Char) == [type : {"Plain"}, text : Seq(Char)]

NoAdjacentText(msg) ==
  \A i \in 1 .. Len(msg) - 1 : ~ (is_plain(msg[i]) /\ is_plain(msg[i + 1]))

LEMMA TextReplaced ==
  ASSUME NEW Char, NEW seg \in PlainOf(Char), NEW text
  PROVE  [seg EXCEPT !.text = text] = [type |-> "Plain", text |-> text]
BY DEF PlainOf

LEMMA MergeIs ==
  ASSUME NEW Char, NEW Other, \A seg \in Other : ~ is_plain(seg),
         NEW msg \in Seq(PlainOf(Char) \cup Other), NEW seg \in PlainOf(Char) \cup Other
  PROVE  \/ /\ is_plain(seg) /\ msg # <<>> /\ is_plain(Last(msg))
            /\ \E text \in Seq(Char) :
                 /\ text = Last(msg).text \o seg.text
                 /\ Merge(msg, seg) = [msg EXCEPT ![Len(msg)] = [type |-> "Plain", text |-> text]]
         \/ /\ ~ (is_plain(seg) /\ msg # <<>> /\ is_plain(Last(msg)))
            /\ Merge(msg, seg) = Append(msg, seg)
<1>1. CASE is_plain(seg) /\ msg # <<>> /\ is_plain(Last(msg))
  <2>1. Last(msg) = msg[Len(msg)] /\ Len(msg) \in 1 .. Len(msg) /\ msg[Len(msg)] \in PlainOf(Char) \cup Other
    BY <1>1, EmptySeq DEF Last
  <2>2. seg \in PlainOf(Char) /\ msg[Len(msg)] \in PlainOf(Char)
    BY <1>1, <2>1
  <2> DEFINE text == Last(msg).text \o seg.text
  <2>3. text \in Seq(Char)
    BY <2>1, <2>2 DEF PlainOf
  <2>4. [msg[Len(msg)] EXCEPT !.text = text] = [type |-> "Plain", text |-> text]
    BY <2>2, TextReplaced
  <2>5. Merge(msg, seg) = [msg EXCEPT ![Len(msg)] = [msg[Len(msg)] EXCEPT !.text = text]]
    BY <1>1, <2>1, Zenon DEF Merge
  <2>6. QED
    BY <1>1, <2>3, <2>4, <2>5
<1>2. CASE ~ (is_plain(seg) /\ msg # <<>> /\ is_plain(Last(msg)))
  BY <1>2 DEF Merge
<1>3. QED
  BY <1>1, <1>2

LEMMA LastReplaced ==
  ASSUME NEW S, NEW msg \in Seq(S), NEW seg \in S, NEW new \in S
  PROVE  [Append(msg, seg) EXCEPT ![Len(Append(msg, seg))] = new] = Append(msg, new)
<1> DEFINE old == Append(msg, seg)
           rep == [old EXCEPT ![Len(old)] = new]
           app == Append(msg, new)
<1>1. /\ old \in Seq(S) /\ Len(msg) \in Nat /\ Len(old) = Len(msg) + 1
      /\ \A i \in 1 .. Len(msg) : old[i] = msg[i]
  BY AppendProperties
<1>2. /\ app \in Seq(S) /\ Len(app) = Len(msg) + 1 /\ app[Len(msg) + 1] = new
      /\ \A i \in 1 .. Len(msg) : app[i] = msg[i]
  BY AppendProperties
<1> HIDE DEF old, app
<1>3. /\ rep \in Seq(S) /\ Len(rep) = Len(msg) + 1
      /\ \A i \in 1 .. Len(msg) + 1 : rep[i] = IF i = Len(msg) + 1 THEN new ELSE old[i]
  BY <1>1, ExceptSeq
<1> HIDE DEF rep
<1>4. ASSUME NEW i \in 1 .. Len(msg) + 1 PROVE rep[i] = app[i]
  BY <1>1, <1>2, <1>3
<1>5. rep = app
  BY <1>2, <1>3, <1>4, SeqEqual
<1>6. QED
  BY <1>5 DEF old, rep, app

-----------------------------------------------------------------------------
(***************************************************************************)
(* What a user sees in a message: the characters of its texts, and its     *)
(* other segments.                                                         *)
(***************************************************************************)
Pieces(seg) == IF is_plain(seg) THEN Spell(seg.text) ELSE <<<<"segment", seg>>>>

See(seen, seg) == seen \o Pieces(seg)

Seeing == INSTANCE LoopProofs WITH Start <- <<>>, Body <- See

Seen(msg) == Seeing!Run(msg)

Visible(Char, Other) == ({"char"} \X Char) \cup ({"segment"} \X Other)

LEMMA SpellConcat ==
  ASSUME NEW Char, NEW s \in Seq(Char), NEW t \in Seq(Char)
  PROVE  /\ Spell(s) \in Seq({"char"} \X Char)
         /\ Spell(s \o t) = Spell(s) \o Spell(t)
<1> DEFINE V == {"char"} \X Char
<1>1. \A u \in Seq(Char) : Spell(u) \in Seq(V) /\ Len(Spell(u)) = Len(u)
                           /\ \A i \in 1 .. Len(u) : Spell(u)[i] = <<"char", u[i]>>
  BY DEF Spell
<1>2. /\ s \o t \in Seq(Char) /\ Len(s \o t) = Len(s) + Len(t) /\ Len(s) \in Nat /\ Len(t) \in Nat
      /\ \A i \in 1 .. Len(s) + Len(t) : (s \o t)[i] = IF i <= Len(s) THEN s[i] ELSE t[i - Len(s)]
  BY ConcatProperties, LenProperties
<1> DEFINE a == Spell(s)
           b == Spell(t)
           c == Spell(s \o t)
<1>3. a \in Seq(V) /\ b \in Seq(V) /\ c \in Seq(V)
  BY <1>1, <1>2
<1>4. /\ Len(a) = Len(s) /\ Len(b) = Len(t) /\ Len(c) = Len(s) + Len(t)
      /\ \A i \in 1 .. Len(s) : a[i] = <<"char", s[i]>>
      /\ \A i \in 1 .. Len(t) : b[i] = <<"char", t[i]>>
      /\ \A i \in 1 .. Len(s) + Len(t) : c[i] = <<"char", (s \o t)[i]>>
  BY <1>1, <1>2
<1> HIDE DEF V, a, b, c
<1>5. /\ a \o b \in Seq(V) /\ Len(a \o b) = Len(s) + Len(t)
      /\ \A i \in 1 .. Len(s) + Len(t) : (a \o b)[i] = IF i <= Len(s) THEN a[i] ELSE b[i - Len(s)]
  <2>1. /\ a \o b \in Seq(V) /\ Len(a \o b) = Len(a) + Len(b)
        /\ \A i \in 1 .. Len(a) + Len(b) : (a \o b)[i] = IF i <= Len(a) THEN a[i] ELSE b[i - Len(a)]
    BY <1>3, ConcatProperties
  <2>2. QED
    BY <1>4, <2>1, Zenon
<1>6. ASSUME NEW i \in 1 .. Len(s) + Len(t) PROVE c[i] = (a \o b)[i]
  <2>1. CASE i <= Len(s)
    <3>1. i \in 1 .. Len(s)
      BY <1>2, <2>1
    <3>2. QED
      BY <1>2, <1>4, <1>5, <2>1, <3>1
  <2>2. CASE ~ (i <= Len(s))
    <3>1. i - Len(s) \in 1 .. Len(t)
      BY <1>2, <2>2
    <3>2. QED
      BY <1>2, <1>4, <1>5, <2>2, <3>1
  <2>3. QED
    BY <2>1, <2>2
<1>7. c = a \o b
  BY <1>3, <1>4, <1>5, <1>6, SeqEqual
<1>8. QED
  BY <1>3, <1>7 DEF V, a, b, c

LEMMA PiecesVisible ==
  ASSUME NEW Char, NEW Other, NEW seg \in PlainOf(Char) \cup Other, \A o \in Other : ~ is_plain(o)
  PROVE  Pieces(seg) \in Seq(Visible(Char, Other))
<1>1. CASE is_plain(seg)
  <2>1. seg.text \in Seq(Char)
    BY <1>1 DEF PlainOf
  <2>2. Spell(seg.text) \in Seq({"char"} \X Char)
    BY <2>1, SpellConcat
  <2>3. QED
    BY <1>1, <2>2, SeqMonotonic DEF Pieces, Visible
<1>2. CASE ~ is_plain(seg)
  <2>1. seg \in Other
    BY <1>2 DEF PlainOf, is_plain
  <2>2. QED
    BY <1>2, <2>1 DEF Pieces, Visible
<1>3. QED
  BY <1>1, <1>2

LEMMA SeenEmpty == Seen(<<>>) = <<>>
BY Seeing!RunEmpty DEF Seen

LEMMA SeenAppend ==
  ASSUME NEW S, NEW msg \in Seq(S), NEW seg \in S
  PROVE  Seen(Append(msg, seg)) = Seen(msg) \o Pieces(seg)
<1>1. Seeing!Run(Append(msg, seg)) = See(Seeing!Run(msg), seg)
  BY Seeing!RunAppend
<1>2. QED
  BY <1>1 DEF Seen, See

LEMMA SeenVisible ==
  ASSUME NEW Char, NEW Other, \A o \in Other : ~ is_plain(o),
         NEW msg \in Seq(PlainOf(Char) \cup Other)
  PROVE  Seen(msg) \in Seq(Visible(Char, Other))
<1> DEFINE S == PlainOf(Char) \cup Other
           G == {m \in Seq(S) : Seen(m) \in Seq(Visible(Char, Other))}
<1>1. <<>> \in G
  <2>1. <<>> \in Seq(S) /\ <<>> \in Seq(Visible(Char, Other))
    BY EmptySeq
  <2>2. QED
    BY <2>1, SeenEmpty, Zenon
<1>2. ASSUME NEW m \in G, NEW seg \in S PROVE Append(m, seg) \in G
  <2>1. Append(m, seg) \in Seq(S) /\ Seen(Append(m, seg)) = Seen(m) \o Pieces(seg)
    BY SeenAppend
  <2>2. Pieces(seg) \in Seq(Visible(Char, Other))
    BY PiecesVisible
  <2>3. Seen(m) \o Pieces(seg) \in Seq(Visible(Char, Other))
    BY <2>2, ConcatProperties
  <2>4. QED
    BY <2>1, <2>3
<1> HIDE DEF S
<1>3. G \in SUBSET Seq(S)
  OBVIOUS
<1> HIDE DEF G
<1>4. G = Seq(S)
  BY <1>1, <1>2, <1>3, Seeing!SequenceInduction
<1>5. QED
  BY <1>4 DEF G, S

\* What Merge does to what is seen, and to texts next to each other.
LEMMA MergeStep ==
  ASSUME NEW Char, NEW Other, \A o \in Other : ~ is_plain(o),
         NEW msg \in Seq(PlainOf(Char) \cup Other), NEW seg \in PlainOf(Char) \cup Other
  PROVE  /\ Merge(msg, seg) \in Seq(PlainOf(Char) \cup Other)
         /\ Seen(Merge(msg, seg)) = Seen(msg) \o Pieces(seg)
         /\ NoAdjacentText(msg) => NoAdjacentText(Merge(msg, seg))
<1> DEFINE S == PlainOf(Char) \cup Other
           V == Visible(Char, Other)
<1>1. CASE is_plain(seg) /\ msg # <<>> /\ is_plain(Last(msg))
  <2>1. PICK text \in Seq(Char) :
          /\ text = Last(msg).text \o seg.text
          /\ Merge(msg, seg) = [msg EXCEPT ![Len(msg)] = [type |-> "Plain", text |-> text]]
    BY <1>1, MergeIs
  <2>2. PICK front \in Seq(S), last \in S : msg = Append(front, last)
    BY <1>1, SequenceEmptyOrAppend
  <2> DEFINE new == [type |-> "Plain", text |-> text]
  <2>3. new \in PlainOf(Char) /\ new \in S /\ is_plain(new) /\ new.text = text
    BY DEF PlainOf, is_plain
  <2>4. Last(msg) = last /\ Len(msg) = Len(front) + 1 /\ Len(front) \in Nat
    BY <2>2 DEF Last
  <2>5. last \in PlainOf(Char) /\ seg \in PlainOf(Char) /\ last.text \in Seq(Char) /\ seg.text \in Seq(Char)
    BY <1>1, <2>4 DEF PlainOf
  <2> HIDE DEF new
  <2>6. Merge(msg, seg) = Append(front, new)
    <3>1. [Append(front, last) EXCEPT ![Len(Append(front, last))] = new] = Append(front, new)
      BY <2>3, LastReplaced
    <3>2. QED
      BY <2>1, <2>2, <3>1, Zenon DEF new
  <2>7. Seen(Merge(msg, seg)) = Seen(msg) \o Pieces(seg)
    <3>1. Pieces(new) = Pieces(last) \o Pieces(seg)
      <4>1. text = last.text \o seg.text
        BY <2>1, <2>4
      <4>2. Spell(text) = Spell(last.text) \o Spell(seg.text)
        BY <2>5, <4>1, SpellConcat
      <4>3. QED
        BY <1>1, <2>3, <2>4, <4>2 DEF Pieces
    <3>2. Seen(Merge(msg, seg)) = Seen(front) \o Pieces(new) /\ Seen(msg) = Seen(front) \o Pieces(last)
      BY <2>2, <2>3, <2>6, SeenAppend
    <3>3. Seen(front) \in Seq(V) /\ Pieces(last) \in Seq(V) /\ Pieces(seg) \in Seq(V)
      BY SeenVisible, PiecesVisible
    <3> HIDE DEF V
    <3>4. (Seen(front) \o Pieces(last)) \o Pieces(seg) = Seen(front) \o (Pieces(last) \o Pieces(seg))
      BY <3>3, ConcatAssociative
    <3>5. QED
      BY <3>1, <3>2, <3>4
  <2>8. ASSUME NoAdjacentText(msg) PROVE NoAdjacentText(Append(front, new))
    <3>1. /\ Len(Append(front, new)) = Len(msg) /\ Len(msg) = Len(front) + 1
          /\ \A i \in 1 .. Len(front) : Append(front, new)[i] = msg[i]
          /\ msg[Len(front) + 1] = last
      BY <2>2, <2>3, <2>4
    <3>2. \A i \in 1 .. Len(front) + 1 : is_plain(Append(front, new)[i]) => is_plain(msg[i])
      BY <1>1, <2>4, <3>1
    <3>3. QED
      BY <2>4, <2>8, <3>1, <3>2 DEF NoAdjacentText
  <2>9. QED
    BY <2>3, <2>6, <2>7, <2>8
<1>2. CASE ~ (is_plain(seg) /\ msg # <<>> /\ is_plain(Last(msg)))
  <2>1. Merge(msg, seg) = Append(msg, seg)
    BY <1>2 DEF Merge
  <2>2. Seen(Append(msg, seg)) = Seen(msg) \o Pieces(seg)
    BY SeenAppend
  <2>3. ASSUME NoAdjacentText(msg) PROVE NoAdjacentText(Append(msg, seg))
    <3>1. /\ Len(Append(msg, seg)) = Len(msg) + 1 /\ Len(msg) \in Nat
          /\ \A i \in 1 .. Len(msg) : Append(msg, seg)[i] = msg[i]
          /\ Append(msg, seg)[Len(msg) + 1] = seg
      OBVIOUS
    <3>2. Len(msg) # 0 => msg # <<>>
      OBVIOUS
    <3>3. QED
      BY <1>2, <2>3, <3>1, <3>2 DEF NoAdjacentText, Last
  <2>4. QED
    BY <2>1, <2>2, <2>3
<1>3. QED
  BY <1>1, <1>2

\* collapse_adjacent_text leaves no text next to another, and what is seen in
\* the message stays as it was, whatever the message.
THEOREM CollapseCorrect ==
  ASSUME NEW Char, NEW Other, \A o \in Other : ~ is_plain(o),
         NEW msg \in Seq(PlainOf(Char) \cup Other)
  PROVE  /\ collapse_adjacent_text(msg) \in Seq(PlainOf(Char) \cup Other)
         /\ NoAdjacentText(collapse_adjacent_text(msg))
         /\ Seen(collapse_adjacent_text(msg)) = Seen(msg)
<1> DEFINE S == PlainOf(Char) \cup Other
           OK(m) == /\ collapse_adjacent_text(m) \in Seq(S)
                    /\ NoAdjacentText(collapse_adjacent_text(m))
                    /\ Seen(collapse_adjacent_text(m)) = Seen(m)
           G == {m \in Seq(S) : OK(m)}
<1>1. <<>> \in G
  <2>1. NoAdjacentText(<<>>)
    BY DEF NoAdjacentText
  <2>2. <<>> \in Seq(S)
    BY EmptySeq
  <2>3. QED
    BY <2>1, <2>2, CollapseEmpty, Zenon
<1>2. ASSUME NEW m \in G, NEW seg \in S PROVE Append(m, seg) \in G
  <2>1. m \in Seq(S) /\ OK(m) /\ Append(m, seg) \in Seq(S)
    OBVIOUS
  <2>2. collapse_adjacent_text(Append(m, seg)) = Merge(collapse_adjacent_text(m), seg)
    BY <2>1, CollapseAppend
  <2>3. Seen(Append(m, seg)) = Seen(m) \o Pieces(seg)
    BY <2>1, SeenAppend
  <2> DEFINE c == collapse_adjacent_text(m)
  <2>4. c \in Seq(S) /\ NoAdjacentText(c) /\ Seen(c) = Seen(m)
    BY <2>1
  <2> HIDE DEF c
  <2>5. /\ Merge(c, seg) \in Seq(S) /\ NoAdjacentText(Merge(c, seg))
        /\ Seen(Merge(c, seg)) = Seen(c) \o Pieces(seg)
    <3>1. c \in Seq(PlainOf(Char) \cup Other) /\ seg \in PlainOf(Char) \cup Other
      BY <2>4
    <3>2. /\ Merge(c, seg) \in Seq(PlainOf(Char) \cup Other)
          /\ Seen(Merge(c, seg)) = Seen(c) \o Pieces(seg)
          /\ NoAdjacentText(c) => NoAdjacentText(Merge(c, seg))
      BY <3>1, MergeStep
    <3>3. QED
      BY <2>4, <3>2
  <2>6. OK(Append(m, seg))
    BY <2>2, <2>3, <2>4, <2>5, Zenon DEF c
  <2>7. QED
    BY <2>1, <2>6, Zenon
<1> HIDE DEF S, OK
<1>3. G \in SUBSET Seq(S)
  OBVIOUS
<1> HIDE DEF G
<1>4. G = Seq(S)
  BY <1>1, <1>2, <1>3, Seeing!SequenceInduction
<1>5. QED
  BY <1>4 DEF G, S, OK

-----------------------------------------------------------------------------
(***************************************************************************)
(* What the parts of a message show, one after the other.  The server      *)
(* understands a part if it reads it as it was meant exactly if it is      *)
(* clean, and never reads more than was meant: only therefore a part read  *)
(* wrongly cannot be made good by another.                                 *)
(***************************************************************************)
JoinLoop == INSTANCE LoopProofs WITH Start <- <<>>, Body <- Join

Understood(got, meant) == Len(got) <= Len(meant) /\ (got = meant <=> Clean(meant))

LEMMA JoinedEmpty == Joined(<<>>) = <<>>
<1>1. Joined(<<>>) = JoinLoop!Run(<<>>)
  BY Zenon DEF Joined, Joining!Run, JoinLoop!Run
<1>2. QED
  BY <1>1, JoinLoop!RunEmpty

LEMMA JoinedAppend ==
  ASSUME NEW P, NEW parts \in Seq(P), NEW part \in P
  PROVE  Joined(Append(parts, part)) = Joined(parts) \o part
<1>1. \A p : Joined(p) = JoinLoop!Run(p)
  BY Zenon DEF Joined, Joining!Run, JoinLoop!Run
<1>2. JoinLoop!Run(Append(parts, part)) = Join(JoinLoop!Run(parts), part)
  BY JoinLoop!RunAppend
<1>3. QED
  BY <1>1, <1>2 DEF Join

LEMMA JoinedSeq ==
  ASSUME NEW V, NEW parts \in Seq(Seq(V))
  PROVE  Joined(parts) \in Seq(V)
<1> DEFINE P == Seq(V)
           G == {p \in Seq(P) : Joined(p) \in P}
<1>1. <<>> \in G
  <2>1. <<>> \in Seq(P) /\ <<>> \in P
    BY EmptySeq
  <2>2. QED
    BY <2>1, JoinedEmpty, Zenon
<1>2. ASSUME NEW p \in G, NEW part \in P PROVE Append(p, part) \in G
  <2>1. p \in Seq(P) /\ Joined(p) \in P
    OBVIOUS
  <2>2. Joined(p) \o part \in P
    BY <2>1, ConcatProperties
  <2> HIDE DEF P
  <2>3. Joined(Append(p, part)) = Joined(p) \o part /\ Append(p, part) \in Seq(P)
    BY <2>1, JoinedAppend
  <2>4. QED
    BY <2>2, <2>3
<1> HIDE DEF P
<1>3. G \in SUBSET Seq(P)
  OBVIOUS
<1> HIDE DEF G
<1>4. G = Seq(P)
  BY <1>1, <1>2, <1>3, JoinLoop!SequenceInduction
<1>5. QED
  BY <1>4 DEF G, P

LEMMA JoinedConcat ==
  ASSUME NEW V, NEW p \in Seq(Seq(V)), NEW q \in Seq(Seq(V))
  PROVE  Joined(p \o q) = Joined(p) \o Joined(q)
<1> DEFINE P == Seq(V)
           G == {r \in Seq(P) : Joined(p \o r) = Joined(p) \o Joined(r)}
<1>0. p \in Seq(P) /\ q \in Seq(P) /\ \A r \in Seq(P) : Joined(r) \in P
  BY JoinedSeq
<1>1. <<>> \in G
  <2>1. p \o <<>> = p /\ Joined(p) \o <<>> = Joined(p) /\ <<>> \in Seq(P)
    BY <1>0
  <2>2. QED
    BY <2>1, JoinedEmpty, Zenon
<1>2. ASSUME NEW r \in G, NEW part \in P PROVE Append(r, part) \in G
  <2>1. r \in Seq(P) /\ Append(r, part) \in Seq(P) /\ Joined(p \o r) = Joined(p) \o Joined(r)
    OBVIOUS
  <2> HIDE DEF P
  <2>2. p \o Append(r, part) = Append(p \o r, part) /\ p \o r \in Seq(P)
    BY <1>0, <2>1
  <2>3. Joined(Append(p \o r, part)) = Joined(p \o r) \o part
    BY <2>2, JoinedAppend
  <2>4. Joined(Append(r, part)) = Joined(r) \o part
    BY <2>1, JoinedAppend
  <2>5. (Joined(p) \o Joined(r)) \o part = Joined(p) \o (Joined(r) \o part)
    BY <1>0, <2>1, ConcatAssociative DEF P
  <2>6. QED
    BY <2>1, <2>2, <2>3, <2>4, <2>5, Zenon
<1> HIDE DEF P
<1>3. G \in SUBSET Seq(P)
  OBVIOUS
<1> HIDE DEF G
<1>4. G = Seq(P)
  BY <1>1, <1>2, <1>3, JoinLoop!SequenceInduction
<1>5. QED
  BY <1>0, <1>4 DEF G

LEMMA ConcatIs ==
  ASSUME NEW V, NEW s \in Seq(V), NEW t \in Seq(V)
  PROVE  /\ s \o t \in Seq(V) /\ Len(s) \in Nat /\ Len(t) \in Nat /\ Len(s \o t) = Len(s) + Len(t)
         /\ \A i \in 1 .. Len(s) : (s \o t)[i] = s[i]
         /\ \A i \in 1 .. Len(t) : (s \o t)[Len(s) + i] = t[i]
<1>1. /\ s \o t \in Seq(V) /\ Len(s) \in Nat /\ Len(t) \in Nat /\ Len(s \o t) = Len(s) + Len(t)
      /\ \A i \in 1 .. Len(s) + Len(t) : (s \o t)[i] = IF i <= Len(s) THEN s[i] ELSE t[i - Len(s)]
  BY ConcatProperties, LenProperties
<1> DEFINE c == s \o t
<1> HIDE DEF c
<1>2. ASSUME NEW i \in 1 .. Len(s) PROVE c[i] = s[i]
  BY <1>1 DEF c
<1>3. ASSUME NEW i \in 1 .. Len(t) PROVE c[Len(s) + i] = t[i]
  <2>1. /\ Len(s) + i \in 1 .. Len(s) + Len(t) /\ ~ (Len(s) + i <= Len(s))
        /\ (Len(s) + i) - Len(s) = i
    BY <1>1
  <2>2. QED
    BY <1>1, <2>1 DEF c
<1>4. QED
  BY <1>1, <1>2, <1>3 DEF c

LEMMA CleanConcat ==
  ASSUME NEW V, NEW s \in Seq(V), NEW t \in Seq(V)
  PROVE  Clean(s \o t) <=> Clean(s) /\ Clean(t)
<1> DEFINE c == s \o t
           Dirty == {<<"char", "quote">>, <<"char", "backslash">>}
<1>1. /\ c \in Seq(V) /\ Len(s) \in Nat /\ Len(t) \in Nat /\ Len(c) = Len(s) + Len(t)
      /\ \A i \in 1 .. Len(s) : c[i] = s[i]
      /\ \A i \in 1 .. Len(t) : c[Len(s) + i] = t[i]
  BY ConcatIs
<1> HIDE DEF c
<1>2. \A u \in Seq(V) : Clean(u) <=> \A i \in 1 .. Len(u) : u[i] \notin Dirty
  BY DEF Clean
<1> HIDE DEF Dirty
<1>3. ASSUME Clean(c) PROVE Clean(s) /\ Clean(t)
  <2>1. \A i \in 1 .. Len(s) : i \in 1 .. Len(c)
    BY <1>1
  <2>2. \A i \in 1 .. Len(t) : Len(s) + i \in 1 .. Len(c)
    BY <1>1
  <2>3. \A i \in 1 .. Len(c) : c[i] \notin Dirty
    BY <1>1, <1>2, <1>3
  <2>4. QED
    BY <1>1, <1>2, <2>1, <2>2, <2>3
<1>4. ASSUME Clean(s), Clean(t), NEW i \in 1 .. Len(c) PROVE c[i] \notin Dirty
  <2>1. CASE i <= Len(s)
    <3>1. i \in 1 .. Len(s)
      BY <1>1, <2>1
    <3>2. QED
      BY <1>1, <1>2, <1>4, <3>1
  <2>2. CASE ~ (i <= Len(s))
    <3>1. i - Len(s) \in 1 .. Len(t) /\ Len(s) + (i - Len(s)) = i
      BY <1>1, <2>2
    <3>2. c[i] = t[i - Len(s)]
      BY <1>1, <3>1
    <3>3. QED
      BY <1>2, <1>4, <3>1, <3>2
  <2>3. QED
    BY <2>1, <2>2
<1>5. QED
  BY <1>1, <1>2, <1>3, <1>4 DEF c

LEMMA UnderstoodConcat ==
  ASSUME NEW V, NEW p \in Seq(V), NEW q \in Seq(V), NEW r \in Seq(V), NEW s \in Seq(V),
         Understood(p, q), Understood(r, s)
  PROVE  Understood(p \o r, q \o s)
<1>1. /\ Len(p) \in Nat /\ Len(r) \in Nat /\ Len(p \o r) = Len(p) + Len(r)
      /\ \A i \in 1 .. Len(p) : (p \o r)[i] = p[i]
      /\ \A i \in 1 .. Len(r) : (p \o r)[Len(p) + i] = r[i]
  BY ConcatIs
<1>2. /\ Len(q) \in Nat /\ Len(s) \in Nat /\ Len(q \o s) = Len(q) + Len(s)
      /\ \A i \in 1 .. Len(q) : (q \o s)[i] = q[i]
      /\ \A i \in 1 .. Len(s) : (q \o s)[Len(q) + i] = s[i]
  BY ConcatIs
<1>3. Len(p) <= Len(q) /\ Len(r) <= Len(s)
  BY DEF Understood
<1>4. Clean(q \o s) <=> Clean(q) /\ Clean(s)
  BY CleanConcat
<1>5. ASSUME p \o r = q \o s PROVE p = q /\ r = s
  <2>1. Len(p) = Len(q) /\ Len(r) = Len(s)
    <3> DEFINE a == Len(p) + Len(r)
    <3>1. Len(p \o r) = Len(q \o s)
      BY <1>5
    <3>2. QED
      BY <1>1, <1>2, <1>3, <3>1
  <2>2. \A i \in 1 .. Len(p) : p[i] = q[i]
    BY <1>1, <1>2, <1>5, <2>1
  <2>3. \A i \in 1 .. Len(r) : r[i] = s[i]
    BY <1>1, <1>2, <1>5, <2>1
  <2>4. p = q
    BY <2>1, <2>2, SeqEqual
  <2>5. r = s
    BY <2>1, <2>3, SeqEqual
  <2>6. QED
    BY <2>4, <2>5
<1>6. Len(p \o r) <= Len(q \o s)
  BY <1>1, <1>2, <1>3
<1>7. p \o r = q \o s <=> Clean(q \o s)
  BY <1>4, <1>5 DEF Understood
<1>8. QED
  BY <1>6, <1>7 DEF Understood

LEMMA CleanJoined ==
  ASSUME NEW V, NEW parts \in Seq(Seq(V)), NEW i \in 1 .. Len(parts), ~ Clean(parts[i])
  PROVE  ~ Clean(Joined(parts))
<1> DEFINE P == Seq(V)
           OK(p) == \A j \in 1 .. Len(p) : ~ Clean(p[j]) => ~ Clean(Joined(p))
           G == {p \in Seq(P) : OK(p)}
<1>1. <<>> \in G
  OBVIOUS
<1>2. ASSUME NEW p \in G, NEW part \in P PROVE Append(p, part) \in G
  <2>1. p \in Seq(P) /\ OK(p) /\ Append(p, part) \in Seq(P)
    OBVIOUS
  <2>2. Joined(Append(p, part)) = Joined(p) \o part
    BY <2>1, JoinedAppend
  <2>3. Clean(Joined(p) \o part) <=> Clean(Joined(p)) /\ Clean(part)
    BY <2>1, JoinedSeq, CleanConcat
  <2> HIDE DEF P
  <2>4. /\ Len(p) \in Nat /\ Len(Append(p, part)) = Len(p) + 1 /\ Append(p, part)[Len(p) + 1] = part
        /\ \A j \in 1 .. Len(p) : Append(p, part)[j] = p[j]
    BY <2>1
  <2>5. ASSUME NEW j \in 1 .. Len(p) + 1, ~ Clean(Append(p, part)[j])
        PROVE  ~ Clean(Joined(p)) \/ ~ Clean(part)
    <3>1. CASE j \in 1 .. Len(p)
      BY <2>1, <2>4, <2>5, <3>1
    <3>2. CASE j = Len(p) + 1
      BY <2>4, <2>5, <3>2
    <3>3. QED
      BY <2>4, <3>1, <3>2
  <2>6. OK(Append(p, part))
    BY <2>2, <2>3, <2>4, <2>5
  <2>7. QED
    BY <2>1, <2>6
<1> HIDE DEF P
<1>3. G \in SUBSET Seq(P)
  OBVIOUS
<1> HIDE DEF G
<1>4. G = Seq(P)
  BY <1>1, <1>2, <1>3, JoinLoop!SequenceInduction
<1>5. OK(parts)
  BY <1>4 DEF G, P
<1>6. QED
  BY <1>5

LEMMA UnderstoodJoined ==
  ASSUME NEW V, NEW got \in Seq(Seq(V)), NEW meant \in Seq(Seq(V)), Len(got) = Len(meant),
         \A i \in 1 .. Len(meant) : Understood(got[i], meant[i])
  PROVE  Understood(Joined(got), Joined(meant))
<1> DEFINE P == Seq(V)
           OK(m) == \A g \in Seq(P) :
                      /\ Len(g) = Len(m)
                      /\ \A i \in 1 .. Len(m) : Understood(g[i], m[i])
                      => Understood(Joined(g), Joined(m))
           G == {m \in Seq(P) : OK(m)}
<1>1. <<>> \in G
  <2>1. ASSUME NEW g \in Seq(P), Len(g) = Len(<<>>) PROVE Understood(Joined(g), Joined(<<>>))
    <3>1. g = <<>> /\ Len(<<>>) = 0
      BY <2>1, EmptySeq
    <3>2. Clean(<<>>)
      BY DEF Clean
    <3>3. QED
      BY <3>1, <3>2, JoinedEmpty DEF Understood
  <2>2. <<>> \in Seq(P)
    BY EmptySeq
  <2>3. QED
    BY <2>1, <2>2, Zenon
<1>2. ASSUME NEW m \in G, NEW part \in P PROVE Append(m, part) \in G
  <2>1. m \in Seq(P) /\ OK(m) /\ Append(m, part) \in Seq(P)
    OBVIOUS
  <2>2. ASSUME NEW g \in Seq(P), Len(g) = Len(Append(m, part)),
               \A i \in 1 .. Len(Append(m, part)) : Understood(g[i], Append(m, part)[i])
        PROVE  Understood(Joined(g), Joined(Append(m, part)))
    <3> HIDE DEF P
    <3>0. /\ Len(m) \in Nat /\ Len(Append(m, part)) = Len(m) + 1
          /\ Append(m, part)[Len(m) + 1] = part
          /\ \A i \in 1 .. Len(m) : Append(m, part)[i] = m[i]
      BY <2>1
    <3>1. PICK h \in Seq(P), x \in P : g = Append(h, x)
      <4>1. g # <<>>
        BY <2>2, <3>0
      <4>2. QED
        BY <4>1, SequenceEmptyOrAppend
    <3>2. /\ Len(h) \in Nat /\ Len(g) = Len(h) + 1 /\ g[Len(h) + 1] = x
          /\ \A i \in 1 .. Len(h) : g[i] = h[i]
      BY <3>1
    <3>3. Len(h) = Len(m)
      BY <2>2, <3>0, <3>2
    <3>4. Understood(x, part)
      <4> DEFINE n == Len(m) + 1
      <4>1. n \in 1 .. Len(Append(m, part)) /\ g[n] = x /\ Append(m, part)[n] = part
        BY <3>0, <3>2, <3>3
      <4> HIDE DEF n
      <4>2. QED
        BY <2>2, <4>1, Zenon
    <3>5. \A i \in 1 .. Len(m) : Understood(h[i], m[i])
      <4>1. \A i \in 1 .. Len(m) : i \in 1 .. Len(m) + 1
        BY <3>0
      <4>2. QED
        BY <2>2, <3>0, <3>2, <3>3, <4>1
    <3>6. Understood(Joined(h), Joined(m))
      BY <2>1, <3>3, <3>5
    <3>7. Joined(g) = Joined(h) \o x /\ Joined(Append(m, part)) = Joined(m) \o part
      BY <2>1, <3>1, JoinedAppend
    <3>8. Joined(h) \in Seq(V) /\ Joined(m) \in Seq(V) /\ x \in Seq(V) /\ part \in Seq(V)
      <4>1. m \in Seq(Seq(V)) /\ h \in Seq(Seq(V)) /\ x \in Seq(V) /\ part \in Seq(V)
        BY <2>1 DEF P
      <4>2. QED
        BY <4>1, JoinedSeq
    <3>9. Understood(Joined(h) \o x, Joined(m) \o part)
      BY <3>4, <3>6, <3>8, UnderstoodConcat
    <3>10. QED
      BY <3>7, <3>9
  <2>3. QED
    BY <2>1, <2>2, Zenon
<1> HIDE DEF P, OK
<1>3. G \in SUBSET Seq(P)
  OBVIOUS
<1> HIDE DEF G
<1>4. G = Seq(P)
  BY <1>1, <1>2, <1>3, JoinLoop!SequenceInduction
<1>5. OK(meant)
  BY <1>4 DEF G, P
<1>6. QED
  BY <1>5 DEF OK, P

\* The same for parts of which the server can read those of R.
LEMMA PartsUnderstood ==
  ASSUME NEW V, NEW R, NEW meant \in Seq(Seq(V)), NEW got, got = [i \in DOMAIN meant |-> got[i]],
         \A i \in DOMAIN meant : IF i \in R THEN got[i] \in Seq(V) /\ Understood(got[i], meant[i])
                                 ELSE ~ Clean(meant[i])
  PROVE  /\ Joined(meant) \in Seq(V)
         /\ IF DOMAIN meant \subseteq R
            THEN Joined(got) \in Seq(V) /\ Understood(Joined(got), Joined(meant))
            ELSE ~ Clean(Joined(meant))
<1> DEFINE P == Seq(V)
<1>1. DOMAIN meant = 1 .. Len(meant) /\ Len(meant) \in Nat
  OBVIOUS
<1>2. CASE DOMAIN meant \subseteq R
  <2> HIDE DEF P
  <2>1. \A i \in 1 .. Len(meant) : got[i] \in P /\ Understood(got[i], meant[i])
    BY <1>1, <1>2 DEF P
  <2>2. got \in Seq(P) /\ Len(got) = Len(meant)
    BY <1>1, <2>1
  <2>3. QED
    BY <1>2, <2>1, <2>2, JoinedSeq, UnderstoodJoined DEF P
<1>3. CASE ~ DOMAIN meant \subseteq R
  BY <1>1, <1>3, JoinedSeq, CleanJoined
<1>4. QED
  BY <1>2, <1>3

-----------------------------------------------------------------------------
(***************************************************************************)
(* Texts in JSON.  What the server has read of a text so far is the text   *)
(* itself until a quote or a backslash; after it the server never reads    *)
(* the text that was meant: it fails, or what it has read is too short or  *)
(* differs.                                                                *)
(***************************************************************************)
WriteLoop == INSTANCE LoopProofs WITH Start <- <<>>, Body <- Write

ReadLoop == INSTANCE LoopProofs WITH Start <- [at |-> "open", text |-> <<>>], Body <- ReadChar

Specials == {"quote", "backslash", "n", "newline"}

ReadState(Char) == [at : {"open", "escape", "closed", "bad"}, text : Seq(Char)]

\* What the server makes of the character c as JsonQuoted writes it.
ReadEscaped(st, c) ==
  IF c = "newline" THEN ReadChar(ReadChar(st, "backslash"), "n") ELSE ReadChar(st, c)

CleanText(text) == \A i \in 1 .. Len(text) : text[i] # "quote" /\ text[i] # "backslash"

Differs(read, text) ==
  Len(read) < Len(text) \/ \E i \in 1 .. Len(text) : i <= Len(read) /\ read[i] # text[i]

LEMMA StateReplaced ==
  ASSUME NEW Char, Specials \subseteq Char, NEW st \in ReadState(Char), NEW v
  PROVE  /\ [st EXCEPT !.at = v] = [at |-> v, text |-> st.text]
         /\ [st EXCEPT !.text = v] = [at |-> st.at, text |-> v]
BY DEF ReadState, Specials

LEMMA ReadCharIs ==
  ASSUME NEW Char, Specials \subseteq Char, NEW st \in ReadState(Char), NEW c \in Char
  PROVE  /\ st.at \in {"closed", "bad"} => ReadChar(st, c) = [at |-> "bad", text |-> st.text]
         /\ st.at = "escape" /\ c \notin {"quote", "backslash", "n"} =>
              ReadChar(st, c) = [at |-> "bad", text |-> st.text]
         /\ st.at = "escape" /\ c = "n" =>
              ReadChar(st, c) = [at |-> "open", text |-> Append(st.text, "newline")]
         /\ st.at = "escape" /\ c \in {"quote", "backslash"} =>
              ReadChar(st, c) = [at |-> "open", text |-> Append(st.text, c)]
         /\ st.at = "open" /\ c = "newline" => ReadChar(st, c) = [at |-> "bad", text |-> st.text]
         /\ st.at = "open" /\ c = "quote" => ReadChar(st, c) = [at |-> "closed", text |-> st.text]
         /\ st.at = "open" /\ c = "backslash" =>
              ReadChar(st, c) = [at |-> "escape", text |-> st.text]
         /\ st.at = "open" /\ c \notin {"newline", "quote", "backslash"} =>
              ReadChar(st, c) = [at |-> "open", text |-> Append(st.text, c)]
<1>1. /\ [st EXCEPT !.at = "bad"] = [at |-> "bad", text |-> st.text]
      /\ [st EXCEPT !.at = "closed"] = [at |-> "closed", text |-> st.text]
      /\ [st EXCEPT !.at = "escape"] = [at |-> "escape", text |-> st.text]
      /\ [st EXCEPT !.text = Append(st.text, c)] = [at |-> st.at, text |-> Append(st.text, c)]
  BY StateReplaced
<1>2. CASE st.at \in {"closed", "bad"}
  BY <1>1, <1>2 DEF ReadChar
<1>3. CASE st.at = "escape"
  BY <1>1, <1>3 DEF ReadChar
<1>4. CASE st.at = "open"
  BY <1>1, <1>4 DEF ReadChar
<1>5. QED
  BY <1>2, <1>3, <1>4 DEF ReadState, Specials

LEMMA ReadCharTyped ==
  ASSUME NEW Char, Specials \subseteq Char, NEW st \in ReadState(Char), NEW c \in Char
  PROVE  ReadChar(st, c) \in ReadState(Char)
<1> DEFINE A == {"open", "escape", "closed", "bad"}
<1>1. /\ st.at \in A /\ st.text \in Seq(Char)
      /\ Append(st.text, c) \in Seq(Char) /\ Append(st.text, "newline") \in Seq(Char)
  BY DEF ReadState, Specials
<1>2. \A a \in A, t \in Seq(Char) : [at |-> a, text |-> t] \in ReadState(Char)
  BY DEF ReadState
<1>3. CASE st.at \in {"closed", "bad"}
  BY <1>1, <1>2, <1>3, ReadCharIs
<1>4. CASE st.at = "escape"
  BY <1>1, <1>2, <1>4, ReadCharIs
<1>5. CASE st.at = "open"
  <2>1. \/ ReadChar(st, c) = [at |-> "bad", text |-> st.text]
        \/ ReadChar(st, c) = [at |-> "closed", text |-> st.text]
        \/ ReadChar(st, c) = [at |-> "escape", text |-> st.text]
        \/ ReadChar(st, c) = [at |-> "open", text |-> Append(st.text, c)]
    BY <1>5, ReadCharIs
  <2>2. QED
    BY <1>1, <1>2, <2>1
<1>6. QED
  BY <1>1, <1>3, <1>4, <1>5

LEMMA ReadOpen ==
  ASSUME NEW Char, Specials \subseteq Char, NEW st \in ReadState(Char), st.at = "open", NEW c \in Char
  PROVE  /\ c = "quote" => ReadEscaped(st, c) = [at |-> "closed", text |-> st.text]
         /\ c = "backslash" => ReadEscaped(st, c) = [at |-> "escape", text |-> st.text]
         /\ c # "quote" /\ c # "backslash" =>
              ReadEscaped(st, c) = [at |-> "open", text |-> Append(st.text, c)]
<1>1. CASE c = "newline"
  <2> DEFINE mid == [at |-> "escape", text |-> st.text]
  <2>1. ReadChar(st, "backslash") = mid /\ mid \in ReadState(Char) /\ mid.at = "escape" /\ mid.text = st.text
    BY ReadCharIs DEF ReadState, Specials
  <2> HIDE DEF mid
  <2>2. ReadChar(mid, "n") = [at |-> "open", text |-> Append(st.text, "newline")]
    BY <2>1, ReadCharIs DEF Specials
  <2>3. QED
    BY <1>1, <2>1, <2>2 DEF ReadEscaped
<1>2. CASE c # "newline"
  BY <1>2, ReadCharIs DEF ReadEscaped
<1>3. QED
  BY <1>1, <1>2

LEMMA ReadEscape ==
  ASSUME NEW Char, Specials \subseteq Char, NEW st \in ReadState(Char), st.at = "escape", NEW c \in Char
  PROVE  /\ c = "newline" =>
              ReadEscaped(st, c) = [at |-> "open", text |-> Append(Append(st.text, "backslash"), "n")]
         /\ c # "newline" =>
              \/ ReadEscaped(st, c).at = "bad"
              \/ \E d \in Char : ReadEscaped(st, c) = [at |-> "open", text |-> Append(st.text, d)]
<1>1. CASE c = "newline"
  <2> DEFINE mid == [at |-> "open", text |-> Append(st.text, "backslash")]
  <2>1. /\ ReadChar(st, "backslash") = mid /\ mid \in ReadState(Char)
        /\ mid.at = "open" /\ mid.text = Append(st.text, "backslash")
    BY ReadCharIs DEF ReadState, Specials
  <2> HIDE DEF mid
  <2>2. ReadChar(mid, "n") = [at |-> "open", text |-> Append(mid.text, "n")]
    BY <2>1, ReadCharIs DEF Specials
  <2>3. QED
    BY <1>1, <2>1, <2>2 DEF ReadEscaped
<1>2. CASE c # "newline" /\ c \notin {"quote", "backslash", "n"}
  BY <1>2, ReadCharIs DEF ReadEscaped
<1>3. CASE c \in {"quote", "backslash", "n"}
  <2>1. ReadEscaped(st, c) = ReadChar(st, c) /\ c # "newline"
    BY <1>3 DEF ReadEscaped
  <2>2. c = "n" => ReadChar(st, c) = [at |-> "open", text |-> Append(st.text, "newline")]
    BY ReadCharIs
  <2>3. c # "n" => ReadChar(st, c) = [at |-> "open", text |-> Append(st.text, c)]
    BY <1>3, ReadCharIs
  <2>4. "newline" \in Char
    BY DEF Specials
  <2>5. QED
    BY <2>1, <2>2, <2>3, <2>4
<1>4. QED
  BY <1>1, <1>2, <1>3

LEMMA ReadFailed ==
  ASSUME NEW Char, Specials \subseteq Char, NEW st \in ReadState(Char), st.at \in {"closed", "bad"}, NEW c \in Char
  PROVE  ReadEscaped(st, c).at = "bad"
<1> DEFINE mid == [at |-> "bad", text |-> st.text]
<1>1. \A d \in Char : ReadChar(st, d) = mid
  BY ReadCharIs DEF Specials
<1>2. mid \in ReadState(Char) /\ mid.at = "bad"
  BY DEF ReadState, Specials
<1> HIDE DEF mid
<1>3. ReadChar(mid, "n").at = "bad"
  BY <1>2, ReadCharIs DEF Specials
<1>4. CASE c = "newline"
  <2>1. ReadChar(st, "backslash") = mid
    BY <1>1 DEF Specials
  <2>2. QED
    BY <1>3, <1>4, <2>1 DEF ReadEscaped
<1>5. CASE c # "newline"
  BY <1>1, <1>2, <1>5 DEF ReadEscaped
<1>6. QED
  BY <1>4, <1>5

LEMMA WriteEmpty == Writing!Run(<<>>) = <<>>
<1>1. Writing!Run(<<>>) = WriteLoop!Run(<<>>)
  BY Zenon DEF Writing!Run, WriteLoop!Run
<1>2. QED
  BY <1>1, WriteLoop!RunEmpty

LEMMA WriteAppend ==
  ASSUME NEW Char, NEW text \in Seq(Char), NEW c \in Char
  PROVE  Writing!Run(Append(text, c)) = Writing!Run(text) \o Escape(c)
<1>1. \A t : Writing!Run(t) = WriteLoop!Run(t)
  BY Zenon DEF Writing!Run, WriteLoop!Run
<1>2. WriteLoop!Run(Append(text, c)) = Write(WriteLoop!Run(text), c)
  BY WriteLoop!RunAppend
<1>3. QED
  BY <1>1, <1>2 DEF Write

LEMMA ReadEmpty == Reads!Run(<<>>) = [at |-> "open", text |-> <<>>]
<1>1. Reads!Run(<<>>) = ReadLoop!Run(<<>>)
  BY Zenon DEF Reads!Run, ReadLoop!Run
<1>2. QED
  BY <1>1, ReadLoop!RunEmpty

LEMMA ReadAppend ==
  ASSUME NEW Char, NEW text \in Seq(Char), NEW c \in Char
  PROVE  Reads!Run(Append(text, c)) = ReadChar(Reads!Run(text), c)
<1>1. \A t : Reads!Run(t) = ReadLoop!Run(t)
  BY Zenon DEF Reads!Run, ReadLoop!Run
<1>2. ReadLoop!Run(Append(text, c)) = ReadChar(ReadLoop!Run(text), c)
  BY ReadLoop!RunAppend
<1>3. QED
  BY <1>1, <1>2

LEMMA ReadWritten ==
  ASSUME NEW Char, Specials \subseteq Char, NEW s \in Seq(Char), NEW c \in Char
  PROVE  /\ s \o Escape(c) \in Seq(Char)
         /\ Reads!Run(s \o Escape(c)) = ReadEscaped(Reads!Run(s), c)
<1>1. CASE c = "newline"
  <2>1. "backslash" \in Char /\ "n" \in Char
    BY DEF Specials
  <2> DEFINE u == Append(s, "backslash")
  <2>2. u \in Seq(Char) /\ Append(u, "n") \in Seq(Char)
    BY <2>1
  <2>3. s \o Escape(c) = Append(u, "n")
    BY <1>1, <2>1 DEF Escape
  <2>4. Reads!Run(u) = ReadChar(Reads!Run(s), "backslash")
    BY <2>1, ReadAppend
  <2> HIDE DEF u
  <2>5. Reads!Run(Append(u, "n")) = ReadChar(Reads!Run(u), "n")
    BY <2>1, <2>2, ReadAppend
  <2>6. QED
    BY <1>1, <2>2, <2>3, <2>4, <2>5 DEF ReadEscaped
<1>2. CASE c # "newline"
  <2>1. s \o Escape(c) = Append(s, c)
    BY <1>2 DEF Escape
  <2>2. QED
    BY <1>2, <2>1, ReadAppend DEF ReadEscaped
<1>3. QED
  BY <1>1, <1>2

\* How far the server is after the text t: a backslash it has yet to complete
\* stands for a character.
ReadBack(st, t) ==
  /\ CleanText(t) => st = [at |-> "open", text |-> t]
  /\ ~ CleanText(t) /\ st.at \in {"open", "escape"} => Differs(st.text, t)

Shorter(st, t) ==
  /\ st.at = "open" => Len(st.text) <= Len(t)
  /\ st.at = "escape" => Len(st.text) < Len(t)

LEMMA DiffersGrows ==
  ASSUME NEW Char, NEW u \in Seq(Char), NEW t \in Seq(Char), NEW c \in Char, NEW d \in Char,
         Differs(u, t)
  PROVE  Differs(u, Append(t, c)) /\ Differs(Append(u, d), Append(t, c))
<1>1. /\ Len(u) \in Nat /\ Len(t) \in Nat
      /\ Len(Append(t, c)) = Len(t) + 1 /\ Len(Append(u, d)) = Len(u) + 1
      /\ \A i \in 1 .. Len(t) : Append(t, c)[i] = t[i]
      /\ \A i \in 1 .. Len(u) : Append(u, d)[i] = u[i]
  OBVIOUS
<1>2. CASE Len(u) < Len(t)
  BY <1>1, <1>2 DEF Differs
<1>3. CASE \E i \in 1 .. Len(t) : i <= Len(u) /\ u[i] # t[i]
  <2>1. PICK i \in 1 .. Len(t) : i <= Len(u) /\ u[i] # t[i]
    BY <1>3
  <2>2. /\ i \in 1 .. Len(t) + 1 /\ i \in 1 .. Len(u) /\ i <= Len(u) + 1
        /\ Append(t, c)[i] = t[i] /\ Append(u, d)[i] = u[i]
    BY <1>1, <2>1
  <2>3. QED
    BY <1>1, <2>1, <2>2 DEF Differs
<1>4. QED
  BY <1>2, <1>3 DEF Differs

\* A newline after a lone backslash is written \n, of which the server takes
\* the backslash for the escaped one and the n as it is.
LEMMA DiffersNewline ==
  ASSUME NEW Char, Specials \subseteq Char, NEW u \in Seq(Char), NEW t \in Seq(Char), Differs(u, t)
  PROVE  Differs(Append(Append(u, "backslash"), "n"), Append(t, "newline"))
<1> DEFINE v == Append(Append(u, "backslash"), "n")
           w == Append(t, "newline")
<1>0. "backslash" \in Char /\ "n" \in Char /\ "newline" \in Char /\ Append(u, "backslash") \in Seq(Char)
  BY DEF Specials
<1>1. /\ Len(u) \in Nat /\ Len(t) \in Nat /\ Len(w) = Len(t) + 1 /\ Len(v) = Len(u) + 2
      /\ w[Len(t) + 1] = "newline" /\ v[Len(u) + 2] = "n"
  BY <1>0
<1>2. /\ \A i \in 1 .. Len(t) : w[i] = t[i]
      /\ \A i \in 1 .. Len(u) : v[i] = u[i]
  BY <1>0, AppendProperties
<1> HIDE DEF v, w
<1>3. CASE Len(u) + 1 < Len(t)
  BY <1>1, <1>3 DEF Differs
<1>4. CASE Len(u) + 1 = Len(t)
  <2>1. Len(t) + 1 \in 1 .. Len(w) /\ Len(t) + 1 <= Len(v) /\ v[Len(t) + 1] # w[Len(t) + 1]
    BY <1>1, <1>4
  <2>2. QED
    BY <2>1 DEF Differs
<1>5. CASE \E i \in 1 .. Len(t) : i <= Len(u) /\ u[i] # t[i]
  <2>1. PICK i \in 1 .. Len(t) : i <= Len(u) /\ u[i] # t[i]
    BY <1>5
  <2>2. i \in 1 .. Len(w) /\ i <= Len(v) /\ v[i] # w[i]
    BY <1>1, <1>2, <2>1
  <2>3. QED
    BY <2>2 DEF Differs
<1>6. \/ Len(u) + 1 < Len(t) \/ Len(u) + 1 = Len(t)
      \/ \E i \in 1 .. Len(t) : i <= Len(u) /\ u[i] # t[i]
  BY <1>1 DEF Differs
<1>7. QED
  BY <1>3, <1>4, <1>5, <1>6

LEMMA CleanAppend ==
  ASSUME NEW Char, NEW t \in Seq(Char), NEW c \in Char
  PROVE  CleanText(Append(t, c)) <=> CleanText(t) /\ c # "quote" /\ c # "backslash"
<1>1. /\ Len(t) \in Nat /\ Len(Append(t, c)) = Len(t) + 1 /\ Append(t, c)[Len(t) + 1] = c
      /\ \A i \in 1 .. Len(t) : Append(t, c)[i] = t[i]
  OBVIOUS
<1>2. ASSUME CleanText(Append(t, c)) PROVE CleanText(t) /\ c # "quote" /\ c # "backslash"
  <2>1. Len(t) + 1 \in 1 .. Len(t) + 1 /\ \A i \in 1 .. Len(t) : i \in 1 .. Len(t) + 1
    BY <1>1
  <2>2. QED
    BY <1>1, <1>2, <2>1 DEF CleanText
<1>3. ASSUME CleanText(t), c # "quote", c # "backslash" PROVE CleanText(Append(t, c))
  <2>1. \A i \in 1 .. Len(t) + 1 : i \in 1 .. Len(t) \/ i = Len(t) + 1
    BY <1>1
  <2>2. QED
    BY <1>1, <1>3, <2>1 DEF CleanText
<1>4. QED
  BY <1>2, <1>3

LEMMA ReadBackStep ==
  ASSUME NEW Char, Specials \subseteq Char, NEW st \in ReadState(Char),
         NEW t \in Seq(Char), NEW c \in Char, ReadBack(st, t)
  PROVE  ReadBack(ReadEscaped(st, c), Append(t, c))
<1>0. st.text \in Seq(Char) /\ st.at \in {"open", "escape", "closed", "bad"}
  BY DEF ReadState
<1>1. CASE CleanText(t)
  <2>1. st.at = "open" /\ st.text = t
    BY <1>1 DEF ReadBack
  <2>2. CASE c # "quote" /\ c # "backslash"
    <3>1. ReadEscaped(st, c) = [at |-> "open", text |-> Append(t, c)]
      BY <2>1, <2>2, ReadOpen
    <3>2. QED
      BY <1>1, <2>2, <3>1, CleanAppend DEF ReadBack
  <2>3. CASE c = "quote" \/ c = "backslash"
    <3>1. ReadEscaped(st, c).at # "open" /\ ReadEscaped(st, c).text = t
      BY <2>1, <2>3, ReadOpen
    <3>2. Differs(t, Append(t, c))
      BY DEF Differs
    <3>3. QED
      BY <2>3, <3>1, <3>2, CleanAppend DEF ReadBack
  <2>4. QED
    BY <2>2, <2>3
<1>2. CASE ~ CleanText(t)
  <2>1. ~ CleanText(Append(t, c))
    BY <1>2, CleanAppend
  <2>2. CASE st.at = "open"
    <3>1. Differs(st.text, t)
      BY <1>2, <2>2 DEF ReadBack
    <3>2. Differs(st.text, Append(t, c)) /\ Differs(Append(st.text, c), Append(t, c))
      BY <1>0, <3>1, DiffersGrows
    <3>3. ReadEscaped(st, c).text \in {st.text, Append(st.text, c)}
      BY <2>2, ReadOpen
    <3>4. QED
      BY <2>1, <3>2, <3>3 DEF ReadBack
  <2>3. CASE st.at = "escape"
    <3>1. Differs(st.text, t)
      BY <1>2, <2>3 DEF ReadBack
    <3>2. CASE c = "newline"
      <4>1. ReadEscaped(st, c).text = Append(Append(st.text, "backslash"), "n")
        BY <2>3, <3>2, ReadEscape
      <4>2. Differs(Append(Append(st.text, "backslash"), "n"), Append(t, c))
        BY <1>0, <3>1, <3>2, DiffersNewline
      <4>3. QED
        BY <2>1, <4>1, <4>2 DEF ReadBack
    <3>3. CASE c # "newline" /\ ReadEscaped(st, c).at = "bad"
      BY <2>1, <3>3 DEF ReadBack
    <3>4. CASE c # "newline" /\ ReadEscaped(st, c).at # "bad"
      <4>1. PICK d \in Char : ReadEscaped(st, c) = [at |-> "open", text |-> Append(st.text, d)]
        BY <2>3, <3>4, ReadEscape
      <4>2. Differs(Append(st.text, d), Append(t, c))
        BY <1>0, <3>1, DiffersGrows
      <4>3. ReadEscaped(st, c).text = Append(st.text, d)
        BY <4>1
      <4>4. QED
        BY <2>1, <4>2, <4>3 DEF ReadBack
    <3>5. QED
      BY <3>2, <3>3, <3>4
  <2>4. CASE st.at \in {"closed", "bad"}
    <3>1. ReadEscaped(st, c).at = "bad"
      BY <2>4, ReadFailed
    <3>2. QED
      BY <2>1, <3>1 DEF ReadBack
  <2>5. QED
    BY <1>0, <2>2, <2>3, <2>4
<1>3. QED
  BY <1>1, <1>2

LEMMA ShorterStep ==
  ASSUME NEW Char, Specials \subseteq Char, NEW st \in ReadState(Char),
         NEW t \in Seq(Char), NEW c \in Char, Shorter(st, t)
  PROVE  Shorter(ReadEscaped(st, c), Append(t, c))
<1> DEFINE new == ReadEscaped(st, c)
<1>0. /\ st.text \in Seq(Char) /\ st.at \in {"open", "escape", "closed", "bad"}
      /\ Len(st.text) \in Nat /\ Len(t) \in Nat /\ Len(Append(t, c)) = Len(t) + 1
  BY DEF ReadState
<1>1. CASE st.at = "open"
  <2>1. \/ new.at \in {"closed", "escape"} /\ new.text = st.text
        \/ new.at = "open" /\ new.text = Append(st.text, c)
    BY <1>1, ReadOpen
  <2> HIDE DEF new
  <2>2. Len(Append(st.text, c)) = Len(st.text) + 1
    BY <1>0
  <2>3. Shorter(new, Append(t, c))
    BY <1>0, <1>1, <2>1, <2>2 DEF Shorter
  <2>4. QED
    BY <2>3 DEF new
<1>2. CASE st.at = "escape"
  <2>1. \/ new.at = "bad"
        \/ new.at = "open" /\ Len(new.text) \in {Len(st.text) + 1, Len(st.text) + 2}
    <3>1. CASE c = "newline"
      <4>1. new = [at |-> "open", text |-> Append(Append(st.text, "backslash"), "n")]
        BY <1>2, <3>1, ReadEscape
      <4>2. Len(Append(Append(st.text, "backslash"), "n")) = Len(st.text) + 2
        BY <1>0 DEF Specials
      <4>3. QED
        BY <4>1, <4>2
    <3>2. CASE c # "newline" /\ new.at # "bad"
      <4>1. PICK d \in Char : new = [at |-> "open", text |-> Append(st.text, d)]
        BY <1>2, <3>2, ReadEscape
      <4>2. Len(Append(st.text, d)) = Len(st.text) + 1
        BY <1>0
      <4>3. QED
        BY <4>1, <4>2
    <3>3. QED
      BY <3>1, <3>2
  <2> HIDE DEF new
  <2>2. Shorter(new, Append(t, c))
    BY <1>0, <1>2, <2>1 DEF Shorter
  <2>3. QED
    BY <2>2 DEF new
<1>3. CASE st.at \in {"closed", "bad"}
  BY <1>3, ReadFailed DEF Shorter
<1>4. QED
  BY <1>0, <1>1, <1>2, <1>3

LEMMA ReadBackCorrect ==
  ASSUME NEW Char, Specials \subseteq Char, NEW text \in Seq(Char)
  PROVE  /\ Writing!Run(text) \in Seq(Char)
         /\ Reads!Run(Writing!Run(text)) \in ReadState(Char)
         /\ ReadBack(Reads!Run(Writing!Run(text)), text)
         /\ Shorter(Reads!Run(Writing!Run(text)), text)
<1> DEFINE OK(t) == /\ Writing!Run(t) \in Seq(Char)
                    /\ Reads!Run(Writing!Run(t)) \in ReadState(Char)
                    /\ ReadBack(Reads!Run(Writing!Run(t)), t)
                    /\ Shorter(Reads!Run(Writing!Run(t)), t)
           G == {t \in Seq(Char) : OK(t)}
<1>1. <<>> \in G
  <2> DEFINE st == [at |-> "open", text |-> <<>>]
  <2>1. <<>> \in Seq(Char) /\ st \in ReadState(Char)
    BY DEF ReadState
  <2>2. ReadBack(st, <<>>) /\ Shorter(st, <<>>)
    <3>1. CleanText(<<>>)
      BY DEF CleanText
    <3>2. QED
      BY <3>1 DEF ReadBack, Shorter
  <2> HIDE DEF st
  <2>3. Reads!Run(Writing!Run(<<>>)) = st
    BY WriteEmpty, ReadEmpty, Zenon DEF st
  <2>4. OK(<<>>)
    BY <2>1, <2>2, <2>3, WriteEmpty, Zenon
  <2>5. QED
    BY <2>1, <2>4, Zenon
<1>2. ASSUME NEW t \in G, NEW c \in Char PROVE Append(t, c) \in G
  <2> DEFINE s == Writing!Run(t)
             st == Reads!Run(s)
  <2>1. t \in Seq(Char) /\ Append(t, c) \in Seq(Char) /\ s \in Seq(Char)
        /\ st \in ReadState(Char) /\ ReadBack(st, t) /\ Shorter(st, t)
    OBVIOUS
  <2>2. Writing!Run(Append(t, c)) = s \o Escape(c)
    BY <2>1, WriteAppend
  <2> HIDE DEF s
  <2>3. s \o Escape(c) \in Seq(Char) /\ Reads!Run(s \o Escape(c)) = ReadEscaped(st, c)
    BY <2>1, ReadWritten
  <2> HIDE DEF st
  <2>4. ReadEscaped(st, c) \in ReadState(Char)
    BY <2>1, ReadCharTyped DEF ReadEscaped, Specials
  <2>5. ReadBack(ReadEscaped(st, c), Append(t, c)) /\ Shorter(ReadEscaped(st, c), Append(t, c))
    BY <2>1, ReadBackStep, ShorterStep
  <2>6. OK(Append(t, c))
    BY <2>2, <2>3, <2>4, <2>5, Zenon
  <2>7. QED
    BY <2>1, <2>6, Zenon
<1> HIDE DEF OK
<1>3. G \in SUBSET Seq(Char)
  OBVIOUS
<1> HIDE DEF G
<1>4. G = Seq(Char)
  BY <1>1, <1>2, <1>3, ReadLoop!SequenceInduction
<1>5. QED
  BY <1>4 DEF G, OK

LEMMA CleanSpell ==
  ASSUME NEW Char, NEW text \in Seq(Char)
  PROVE  Clean(Spell(text)) <=> CleanText(text)
<1>1. DOMAIN text = 1 .. Len(text) /\ DOMAIN Spell(text) = 1 .. Len(text)
  BY DEF Spell
<1>2. \A i \in 1 .. Len(text) : Spell(text)[i] = <<"char", text[i]>>
  BY <1>1 DEF Spell
<1>3. \A c : <<"char", c>> \notin {<<"char", "quote">>, <<"char", "backslash">>}
             <=> c # "quote" /\ c # "backslash"
  OBVIOUS
<1>4. QED
  BY <1>1, <1>2, <1>3, Zenon DEF Clean, CleanText

LEMMA SpellIs ==
  ASSUME NEW Char, NEW text \in Seq(Char)
  PROVE  /\ Spell(text) \in Seq({"char"} \X Char) /\ Len(Spell(text)) = Len(text)
         /\ \A i \in 1 .. Len(text) : Spell(text)[i] = <<"char", text[i]>>
BY DEF Spell

LEMMA SpellInjective ==
  ASSUME NEW Char, NEW s \in Seq(Char), NEW t \in Seq(Char), Spell(s) = Spell(t)
  PROVE  s = t
<1>1. Len(s) = Len(t)
  BY SpellIs
<1>2. ASSUME NEW i \in 1 .. Len(s) PROVE s[i] = t[i]
  <2>1. Spell(s)[i] = <<"char", s[i]>> /\ Spell(t)[i] = <<"char", t[i]>>
    BY <1>1, SpellIs
  <2>2. <<"char", s[i]>> = <<"char", t[i]>>
    BY <2>1
  <2>3. QED
    BY <2>2
<1>3. QED
  BY <1>1, <1>2, SeqEqual

\* The server cannot read a text, which then is not clean, or understands it.
LEMMA QuotedUnderstood ==
  ASSUME NEW Char, Specials \subseteq Char, NEW text \in Seq(Char), text # Null
  PROVE  LET got == Unquote(JsonQuoted(text))
         IN /\ JsonQuoted(text) \in Seq(Char)
            /\ got # Null => got \in Seq(Char) /\ Len(got) <= Len(text)
            /\ got = text <=> CleanText(text)
<1> DEFINE s == Writing!Run(text)
           st == Reads!Run(s)
<1>1. "quote" \in Char
  BY DEF Specials
<1>2. s \in Seq(Char) /\ st \in ReadState(Char) /\ ReadBack(st, text) /\ Shorter(st, text)
  BY ReadBackCorrect
<1> HIDE DEF s
<1>3. /\ Tail(<<"quote">> \o s \o <<"quote">>) = Append(s, "quote")
      /\ <<"quote">> \o s \o <<"quote">> \in Seq(Char)
  BY <1>1, <1>2
<1>4. Reads!Run(Append(s, "quote")) = ReadChar(st, "quote")
  BY <1>1, <1>2, ReadAppend
<1> HIDE DEF st
<1> DEFINE end == ReadChar(st, "quote")
           got == Unquote(JsonQuoted(text))
<1>5. JsonQuoted(text) \in Seq(Char) /\ got = IF end.at = "closed" THEN end.text ELSE Null
  BY <1>3, <1>4, Zenon DEF Unquote, JsonQuoted, s
<1>6. st.at \in {"open", "escape", "closed", "bad"} /\ st.text \in Seq(Char)
  BY <1>2 DEF ReadState
<1> HIDE DEF got
<1>7. CASE st.at = "open"
  <2>1. end = [at |-> "closed", text |-> st.text]
    BY <1>1, <1>2, <1>7, ReadCharIs
  <2> HIDE DEF end
  <2>2. got = st.text /\ Len(st.text) <= Len(text)
    BY <1>2, <1>5, <1>7, <2>1 DEF Shorter
  <2>3. CleanText(text) => st.text = text
    BY <1>2 DEF ReadBack
  <2>4. ASSUME ~ CleanText(text) PROVE st.text # text
    <3>1. Differs(st.text, text)
      BY <1>2, <1>7, <2>4 DEF ReadBack
    <3>2. QED
      BY <3>1 DEF Differs
  <2>5. QED
    BY <1>5, <1>6, <2>2, <2>3, <2>4 DEF got
<1>8. CASE st.at # "open"
  <2>1. end.at # "closed"
    BY <1>1, <1>2, <1>6, <1>8, ReadCharIs
  <2>2. got = Null
    BY <1>5, <2>1
  <2>3. ~ CleanText(text)
    BY <1>2, <1>8 DEF ReadBack
  <2>4. QED
    BY <1>5, <2>2, <2>3 DEF got
<1>9. QED
  BY <1>7, <1>8

\* A text that is written by JsonQuoted and read by the server is the same
\* text again exactly if it has neither a quote nor a backslash, whatever its
\* length: the control characters survive, and no later character of the text
\* makes good for one of the two that JsonQuoted does not escape.
THEOREM QuotedReadsBack ==
  ASSUME NEW Char, NEW text \in Seq(Char), Null \notin Seq(Char)
  PROVE  Unquote(JsonQuoted(text)) = text <=> Clean(Spell(text))
<1> DEFINE A == Char \cup Specials
<1>1. text \in Seq(A) /\ Specials \subseteq A /\ text # Null
  BY SeqMonotonic
<1> HIDE DEF A
<1>2. QED
  BY <1>1, QuotedUnderstood, CleanSpell

LEMMA SpeltUnderstood ==
  ASSUME NEW Char, Specials \subseteq Char, NEW text \in Seq(Char), Null \notin Seq(Char)
  PROVE  LET got == Unquote(JsonQuoted(text))
         IN IF got = Null THEN ~ Clean(Spell(text))
            ELSE got \in Seq(Char) /\ Understood(Spell(got), Spell(text))
<1> DEFINE got == Unquote(JsonQuoted(text))
<1>1. /\ got # Null => got \in Seq(Char) /\ Len(got) <= Len(text)
      /\ got = text <=> Clean(Spell(text))
  BY QuotedUnderstood, CleanSpell
<1> HIDE DEF got
<1>2. CASE got = Null
  BY <1>1, <1>2 DEF got
<1>3. CASE got # Null
  <2>1. Len(Spell(got)) <= Len(Spell(text))
    BY <1>1, <1>3, SpellIs
  <2>2. Spell(got) = Spell(text) <=> got = text
    BY <1>1, <1>3, SpellInjective
  <2>3. QED
    BY <1>1, <1>3, <2>1, <2>2 DEF Understood, got
<1>4. QED
  BY <1>2, <1>3

-----------------------------------------------------------------------------
(***************************************************************************)
(* What is sent.  The segments as from_json and the program make them, of  *)
(* texts over the characters Char, with messages of Inner in the nodes of  *)
(* a forwarded one.                                                        *)
(***************************************************************************)
TypedMember(k, v, Char, Inner) ==
  v \in IF k = "nodeList" THEN Seq(Node(Char, Inner)) ELSE IF k \in Unquoted THEN Nat ELSE Seq(Char)

TypedSegment(seg, Char, Inner) ==
  /\ seg.type \in DOMAIN Layout
  /\ DOMAIN seg = {"type"} \cup Layout[seg.type].needs \cup Layout[seg.type].may
  /\ \A k \in Layout[seg.type].needs : TypedMember(k, seg[k], Char, Inner)
  /\ \A k \in Layout[seg.type].may : seg[k] # Null => TypedMember(k, seg[k], Char, Inner)

SegmentKeys == {"type"} \cup UNION {Layout[t].needs \cup Layout[t].may : t \in DOMAIN Layout}

\* What a reading is made of.
Shown(Char) ==
  ({"char"} \X Char) \cup ({"segment"} \X DOMAIN Layout) \cup ({"key"} \X SegmentKeys)
    \cup ({"number"} \X (Nat \cup {Null})) \cup ({"sender", "time"} \X Nat)
    \cup ({"node"} \X {"chain", "end"})

\* The server cannot read an inner message, which then is not clean, or
\* understands it.
Survives(msg, Char) ==
  LET json == inner_as_json(msg)
      got == InnerReading(InnerDecoded(json))
  IN /\ InnerReading(msg) \in Seq(Shown(Char))
     /\ IF InnerReadable(json) THEN got \in Seq(Shown(Char)) /\ Understood(got, InnerReading(msg))
        ELSE ~ Clean(InnerReading(msg))

TextTypes == {"Plain", "Xml", "Json", "App", "Poke"}

\* The table of segments, type by type.
LEMMA LayoutTypes ==
  DOMAIN Layout = {"At", "AtAll", "Face", "Forward"} \cup Media \cup TextTypes
BY DEF Layout, Media, TextTypes

LEMMA LayoutAt ==
  /\ Layout["At"].needs = {"target", "display"} /\ Layout["At"].writes = <<"target">>
  /\ Layout["At"].may = {} /\ Layout["AtAll"].needs = {} /\ Layout["AtAll"].may = {}
  /\ Layout["AtAll"].writes = <<>>
BY DEF Layout, Keys, At, AtAll

LEMMA LayoutFace ==
  /\ Layout["Face"].needs = {"name"} /\ Layout["Face"].may = {"faceId"}
  /\ Layout["Face"].writes = <<"faceId", "name">>
BY DEF Layout, Keys, Face

LEMMA LayoutForward ==
  LET w == <<"title", "brief", "source", "summary", "nodeList">>
  IN Layout["Forward"].needs = ToSet(w) /\ Layout["Forward"].may = {} /\ Layout["Forward"].writes = w
BY DEF Layout, Keys, Forward

LEMMA LayoutText ==
  ASSUME NEW type \in TextTypes
  PROVE  \E k \in {"text", "xml", "json", "content", "name"} :
           /\ Layout[type].needs = {k} /\ Layout[type].may = {} /\ Layout[type].writes = <<k>>
           /\ IF type = "Plain" THEN k = "text" ELSE AllOf[type] = <<k>>
<1>1. /\ Layout["Plain"] = Text("text") /\ Layout["Xml"] = Text("xml")
      /\ Layout["Json"] = Text("json") /\ Layout["App"] = Text("content")
      /\ Layout["Poke"] = Text("name")
  BY DEF Layout, Plain, Xml, Json, App, Poke
<1>2. \A k : Text(k).needs = {k} /\ Text(k).may = {} /\ Text(k).writes = <<k>>
  BY DEF Text, Keys
<1>3. /\ AllOf["Xml"] = <<"xml">> /\ AllOf["Json"] = <<"json">>
      /\ AllOf["App"] = <<"content">> /\ AllOf["Poke"] = <<"name">>
  BY DEF AllOf
<1>4. QED
  BY <1>1, <1>2, <1>3 DEF TextTypes

LEMMA LayoutMedia ==
  ASSUME NEW type \in Media
  PROVE  \E id \in {"imageId", "voiceId"} :
           /\ Layout[type].may = {id, "url", "path"} /\ Layout[type].writes = <<id, "url", "path">>
           /\ FirstOf[type] = <<id, "url", "path">>
BY DEF Media, Layout, Keys, Medium, Image, FlashImage, Voice, FirstOf

LEMMA WrittenIs ==
  ASSUME NEW seg, seg.type \in DOMAIN Layout
  PROVE  /\ seg.type \in Media => \E id \in {"imageId", "voiceId"} :
              LET w == <<id, "url", "path">>
                  there == {i \in 1 .. 3 : seg[w[i]] # Null}
              IN /\ FirstOf[seg.type] = w /\ Layout[seg.type].may = {w[1], w[2], w[3]}
                 /\ there = {} => Written(seg) = {}
                 /\ there # {} => Min(there) \in there /\ Written(seg) = {w[Min(there)]}
         /\ seg.type \notin Media => Written(seg) = ToSet(Layout[seg.type].writes)
<1>1. ASSUME seg.type \in Media
      PROVE  \E id \in {"imageId", "voiceId"} :
              LET w == <<id, "url", "path">>
                  there == {i \in 1 .. 3 : seg[w[i]] # Null}
              IN /\ FirstOf[seg.type] = w /\ Layout[seg.type].may = {w[1], w[2], w[3]}
                 /\ there = {} => Written(seg) = {}
                 /\ there # {} => Min(there) \in there /\ Written(seg) = {w[Min(there)]}
  <2>1. PICK id \in {"imageId", "voiceId"} :
          /\ Layout[seg.type].may = {id, "url", "path"}
          /\ Layout[seg.type].writes = <<id, "url", "path">> /\ FirstOf[seg.type] = <<id, "url", "path">>
    BY <1>1, LayoutMedia
  <2> DEFINE w == <<id, "url", "path">>
             there == {i \in 1 .. 3 : seg[w[i]] # Null}
  <2>2. DOMAIN w = 1 .. 3 /\ {w[1], w[2], w[3]} = {id, "url", "path"}
    OBVIOUS
  <2>3. Written(seg) = IF there = {} THEN {} ELSE {w[Min(there)]}
    BY <1>1, <2>1, <2>2 DEF Written
  <2>4. ASSUME there # {} PROVE Min(there) \in there
    <3>1. there \in SUBSET Nat
      OBVIOUS
    <3> HIDE DEF there
    <3>2. \E x \in there : \A y \in there : x =< y
      BY <2>4, <3>1, ReadLoop!Least
    <3>3. QED
      BY <3>2, Zenon DEF Min
  <2>5. QED
    BY <2>1, <2>2, <2>3, <2>4
<1>2. ASSUME seg.type \notin Media PROVE Written(seg) = ToSet(Layout[seg.type].writes)
  BY <1>2 DEF Written
<1>3. QED
  BY <1>1, <1>2

LEMMA WrittenThere ==
  ASSUME NEW Char, NEW Inner, Null \notin Seq(Char), NEW seg, TypedSegment(seg, Char, Inner)
  PROVE  /\ Written(seg) \subseteq DOMAIN seg /\ "type" \notin Written(seg)
         /\ \A k \in Written(seg) \ Unquoted : seg[k] # Null
         /\ "nodeList" \in Written(seg) => seg.type = "Forward"
<1> DEFINE L == Layout[seg.type]
<1>0. /\ seg.type \in {"At", "AtAll", "Face", "Forward"} \cup Media \cup TextTypes
      /\ DOMAIN seg = {"type"} \cup L.needs \cup L.may
      /\ \A k \in L.needs \ Unquoted : seg[k] # Null
      /\ seg.type \notin Media => Written(seg) = ToSet(L.writes)
  <2>1. seg.type \in DOMAIN Layout /\ DOMAIN seg = {"type"} \cup L.needs \cup L.may
        /\ \A k \in L.needs : TypedMember(k, seg[k], Char, Inner)
    BY DEF TypedSegment
  <2>2. ASSUME NEW k \in L.needs \ Unquoted PROVE seg[k] # Null
    BY <2>1 DEF TypedMember, Unquoted
  <2>3. QED
    BY <2>1, <2>2, LayoutTypes, WrittenIs
<1>1. CASE seg.type = "At"
  BY <1>0, <1>1, LayoutAt DEF ToSet, Media, Unquoted
<1>2. CASE seg.type = "AtAll"
  BY <1>0, <1>2, LayoutAt DEF ToSet, Media, Unquoted
<1>3. CASE seg.type = "Face"
  BY <1>0, <1>3, LayoutFace DEF ToSet, Media, Unquoted
<1>4. CASE seg.type = "Forward"
  <2> DEFINE w == <<"title", "brief", "source", "summary", "nodeList">>
  <2>1. L.needs = ToSet(w) /\ L.writes = w
    BY <1>4, LayoutForward
  <2>2. Written(seg) = ToSet(w)
    BY <1>0, <1>4, <2>1 DEF Media
  <2>3. "type" \notin ToSet(w)
    BY DEF ToSet
  <2>4. QED
    BY <1>0, <1>4, <2>1, <2>2, <2>3
<1>5. CASE seg.type \in TextTypes
  <2>1. PICK k \in {"text", "xml", "json", "content", "name"} : L.needs = {k} /\ L.writes = <<k>>
    BY <1>5, LayoutText
  <2>2. Written(seg) = {k}
    BY <1>0, <1>5, <2>1 DEF Media, TextTypes, ToSet
  <2>3. QED
    BY <1>0, <2>1, <2>2
<1>6. CASE seg.type \in Media
  <2>1. PICK id \in {"imageId", "voiceId"} :
          LET w == <<id, "url", "path">>
              there == {i \in 1 .. 3 : seg[w[i]] # Null}
          IN /\ FirstOf[seg.type] = w /\ L.may = {w[1], w[2], w[3]}
             /\ there = {} => Written(seg) = {}
             /\ there # {} => Min(there) \in there /\ Written(seg) = {w[Min(there)]}
    BY <1>0, <1>6, WrittenIs, LayoutTypes
  <2> DEFINE w == <<id, "url", "path">>
             there == {i \in 1 .. 3 : seg[w[i]] # Null}
             first == Min(there)
  <2>2. CASE there = {}
    BY <2>1, <2>2
  <2>3. CASE there # {}
    <3>1. first \in there /\ Written(seg) = {w[first]} /\ L.may = {w[1], w[2], w[3]}
      BY <2>1, <2>3
    <3> HIDE DEF first
    <3>2. first \in 1 .. 3 /\ seg[w[first]] # Null
      BY <3>1
    <3>3. w[first] \in L.may /\ w[first] \in {id, "url", "path"}
      BY <3>1, <3>2
    <3> HIDE DEF w, there
    <3>4. QED
      BY <1>0, <3>1, <3>2, <3>3
  <2>4. QED
    BY <2>2, <2>3
<1>7. QED
  BY <1>0, <1>1, <1>2, <1>3, <1>4, <1>5, <1>6

LEMMA WrittenAlways ==
  ASSUME NEW Char, NEW Inner, NEW seg, TypedSegment(seg, Char, Inner)
  PROVE  /\ seg.type = "Plain" => "text" \in Written(seg)
         /\ seg.type = "Forward" => "nodeList" \in Written(seg)
<1>1. seg.type \notin Media => Written(seg) = ToSet(Layout[seg.type].writes)
  BY WrittenIs DEF TypedSegment
<1>2. CASE seg.type = "Plain"
  <2>1. Layout["Plain"].writes = <<"text">>
    BY LayoutText DEF TextTypes
  <2>2. QED
    BY <1>1, <1>2, <2>1 DEF Media, ToSet
<1>3. CASE seg.type = "Forward"
  <2> DEFINE w == <<"title", "brief", "source", "summary", "nodeList">>
  <2>1. w[5] = "nodeList" /\ 5 \in DOMAIN w
    OBVIOUS
  <2>2. Written(seg) = ToSet(w)
    BY <1>1, <1>3, LayoutForward DEF Media
  <2> HIDE DEF w
  <2>3. QED
    BY <1>3, <2>1, <2>2 DEF ToSet
<1>4. QED
  BY <1>2, <1>3

LEMMA WrittenTyped ==
  ASSUME NEW Char, NEW Inner, Null \notin Seq(Char), NEW seg, TypedSegment(seg, Char, Inner),
         NEW k \in Written(seg)
  PROVE  /\ k \in SegmentKeys /\ k \in DOMAIN seg
         /\ k \notin Unquoted => seg[k] \in Seq(Char)
         /\ k = "nodeList" => seg[k] \in Seq(Node(Char, Inner))
         /\ k \in Unquoted \ {"nodeList"} => seg[k] \in Nat \cup {Null}
<1> DEFINE L == Layout[seg.type]
<1>1. /\ seg.type \in DOMAIN Layout /\ DOMAIN seg = {"type"} \cup L.needs \cup L.may
      /\ \A j \in L.needs : TypedMember(j, seg[j], Char, Inner)
      /\ \A j \in L.may : seg[j] # Null => TypedMember(j, seg[j], Char, Inner)
  BY DEF TypedSegment
<1>2. /\ k \in DOMAIN seg /\ k # "type" /\ (k \notin Unquoted => seg[k] # Null)
      /\ k = "nodeList" => seg.type = "Forward"
  BY WrittenThere
<1>3. k \in L.needs \cup L.may
  BY <1>1, <1>2
<1>4. k \in SegmentKeys
  BY <1>1, <1>3 DEF SegmentKeys
<1>5. k = "nodeList" => k \in L.needs
  <2>1. Layout["Forward"].may = {}
    BY LayoutForward
  <2>2. QED
    BY <1>2, <1>3, <2>1
<1> HIDE DEF L
<1>6. seg[k] = Null \/ TypedMember(k, seg[k], Char, Inner)
  BY <1>1, <1>3
<1>7. k = "nodeList" => TypedMember(k, seg[k], Char, Inner)
  BY <1>1, <1>5
<1>8. QED
  BY <1>2, <1>4, <1>6, <1>7 DEF TypedMember, Unquoted

\* What becomes of a segment on its way.
Wire(seg) == Decoded(segment_as_json(seg))

ReadableMember(seg, k) ==
  IF k = "nodeList" THEN \A i \in DOMAIN seg[k] : ReadableNode(forwarded_as_json(seg[k][i]))
  ELSE k \notin Unquoted => Unquote(JsonQuoted(seg[k])) # Null

LEMMA WireKeys ==
  ASSUME NEW Char, NEW Inner, Specials \subseteq Char, Null \notin Seq(Char),
         NEW seg, TypedSegment(seg, Char, Inner)
  PROVE  /\ DOMAIN Wire(seg) = {"type"} \cup Written(seg) /\ Wire(seg).type = seg.type
         /\ \A k \in Written(seg) \ {"nodeList"} :
              Wire(seg)[k] = IF k \in Unquoted THEN seg[k] ELSE Unquote(JsonQuoted(seg[k]))
         /\ "nodeList" \in Written(seg) =>
              Wire(seg)["nodeList"] =
                [i \in DOMAIN seg["nodeList"] |-> DecodedNode(forwarded_as_json(seg["nodeList"][i]))]
         /\ ReadableSegment(segment_as_json(seg)) <=> \A k \in Written(seg) : ReadableMember(seg, k)
<1> DEFINE W == {"type"} \cup Written(seg)
           json == segment_as_json(seg)
           raw(k) == [i \in DOMAIN seg[k] |-> forwarded_as_json(seg[k][i])]
<1>1. json = [k \in W |-> IF k = "nodeList" THEN raw(k)
                          ELSE IF k \in Unquoted \/ seg[k] = Null THEN seg[k] ELSE JsonQuoted(seg[k])]
  BY Zenon DEF segment_as_json
<1> HIDE DEF json
<1>2. /\ DOMAIN json = W
      /\ \A k \in W : json[k] = IF k = "nodeList" THEN raw(k)
                                ELSE IF k \in Unquoted \/ seg[k] = Null THEN seg[k]
                                ELSE JsonQuoted(seg[k])
  BY <1>1
<1>3. Wire(seg) = [k \in DOMAIN json |->
                     IF k = "nodeList" THEN [i \in DOMAIN json[k] |-> DecodedNode(json[k][i])]
                     ELSE IF k \in Unquoted \/ json[k] = Null THEN json[k] ELSE Unquote(json[k])]
  BY Zenon DEF Wire, Decoded, json
<1>4. /\ DOMAIN Wire(seg) = W
      /\ \A k \in W : Wire(seg)[k] =
                        IF k = "nodeList" THEN [i \in DOMAIN json[k] |-> DecodedNode(json[k][i])]
                        ELSE IF k \in Unquoted \/ json[k] = Null THEN json[k] ELSE Unquote(json[k])
  BY <1>2, <1>3
<1> HIDE DEF raw
<1>5. ASSUME NEW k \in W \ Unquoted
      PROVE  /\ json[k] = JsonQuoted(seg[k]) /\ json[k] # Null
             /\ Wire(seg)[k] = Unquote(JsonQuoted(seg[k]))
  <2>1. k \in Written(seg) /\ k # "nodeList"
    BY DEF Unquoted
  <2>2. seg[k] \in Seq(Char)
    BY <2>1, WrittenTyped
  <2>3. seg[k] # Null /\ JsonQuoted(seg[k]) \in Seq(Char)
    BY <2>2, QuotedUnderstood
  <2>4. json[k] = JsonQuoted(seg[k]) /\ json[k] # Null
    BY <1>2, <2>1, <2>3
  <2>5. QED
    BY <1>4, <2>1, <2>4
<1>6. ASSUME NEW k \in W \cap Unquoted, k # "nodeList" PROVE Wire(seg)[k] = seg[k]
  BY <1>2, <1>4, <1>6
<1>7. ASSUME "nodeList" \in Written(seg)
      PROVE  /\ json["nodeList"] = raw("nodeList")
             /\ Wire(seg)["nodeList"] =
                  [i \in DOMAIN seg["nodeList"] |-> DecodedNode(forwarded_as_json(seg["nodeList"][i]))]
  <2> DEFINE sent == raw("nodeList")
  <2>1. json["nodeList"] = sent /\ Wire(seg)["nodeList"] = [i \in DOMAIN sent |-> DecodedNode(sent[i])]
    BY <1>2, <1>4, <1>7
  <2>2. DOMAIN sent = DOMAIN seg["nodeList"]
        /\ \A i \in DOMAIN seg["nodeList"] : sent[i] = forwarded_as_json(seg["nodeList"][i])
    BY DEF raw
  <2> HIDE DEF sent
  <2>3. QED
    BY <2>1, <2>2 DEF sent
<1>8. "type" \in W \cap Unquoted /\ "type" # "nodeList" /\ "nodeList" \in Unquoted
  BY DEF Unquoted
<1>9. ReadableSegment(json) <=> \A k \in Written(seg) : ReadableMember(seg, k)
  <2>1. "nodeList" \in Written(seg) =>
          /\ DOMAIN json["nodeList"] = DOMAIN seg["nodeList"]
          /\ \A i \in DOMAIN seg["nodeList"] :
               json["nodeList"][i] = forwarded_as_json(seg["nodeList"][i])
    BY <1>7 DEF raw
  <2>2. "nodeList" \in DOMAIN json <=> "nodeList" \in Written(seg)
    BY <1>2
  <2>3. \A k \in DOMAIN json \ Unquoted : json[k] = JsonQuoted(seg[k]) /\ json[k] # Null
    BY <1>2, <1>5
  <2>4. ReadableSegment(json) <=>
          /\ \A k \in DOMAIN json \ Unquoted : Unquote(JsonQuoted(seg[k])) # Null
          /\ "nodeList" \in Written(seg) => \A i \in DOMAIN seg["nodeList"] :
               ReadableNode(forwarded_as_json(seg["nodeList"][i]))
    BY <2>1, <2>2, <2>3 DEF ReadableSegment
  <2>5. DOMAIN json \ Unquoted = Written(seg) \ Unquoted
    BY <1>2, <1>8
  <2> HIDE DEF W
  <2>6. QED
    BY <1>8, <2>4, <2>5, Zenon DEF ReadableMember
<1>10. ASSUME NEW k \in Written(seg) \ {"nodeList"}
       PROVE  Wire(seg)[k] = IF k \in Unquoted THEN seg[k] ELSE Unquote(JsonQuoted(seg[k]))
  BY <1>5, <1>6
<1>11. QED
  BY <1>4, <1>6, <1>7, <1>8, <1>9, <1>10 DEF json

LEMMA NodeReplaced ==
  ASSUME NEW id, NEW time, NEW n, NEW c, NEW m, NEW d
  PROVE  [[senderId |-> id, time |-> time, senderName |-> n, messageChain |-> c]
            EXCEPT !.senderName = m, !.messageChain = d]
         = [senderId |-> id, time |-> time, senderName |-> m, messageChain |-> d]
<1> DEFINE x == [senderId |-> id, time |-> time, senderName |-> n, messageChain |-> c]
           y == [x EXCEPT !.senderName = m]
<1>1. y = [senderId |-> id, time |-> time, senderName |-> m, messageChain |-> c]
  OBVIOUS
<1>2. [x EXCEPT !.senderName = m, !.messageChain = d] = [y EXCEPT !.messageChain = d]
  <2> HIDE DEF x
  <2>1. QED OBVIOUS
<1> HIDE DEF y
<1>3. [y EXCEPT !.messageChain = d]
        = [senderId |-> id, time |-> time, senderName |-> m, messageChain |-> d]
  BY <1>1
<1>4. QED
  BY <1>2, <1>3

LEMMA ShownParts ==
  ASSUME NEW Char
  PROVE  /\ \A text \in Seq(Char) : Spell(text) \in Seq(Shown(Char))
         /\ \A id, time \in Nat : LET s == <<<<"sender", id>>, <<"time", time>>>>
                                  IN s \in Seq(Shown(Char)) /\ Clean(s)
         /\ \A end \in {"chain", "end"} : LET s == <<<<"node", end>>>>
                                          IN s \in Seq(Shown(Char)) /\ Clean(s)
         /\ \A k \in SegmentKeys : LET s == <<<<"key", k>>>> IN s \in Seq(Shown(Char)) /\ Clean(s)
         /\ \A type \in DOMAIN Layout : LET s == <<<<"segment", type>>>>
                                        IN s \in Seq(Shown(Char)) /\ Clean(s)
         /\ \A v \in Nat \cup {Null} : LET s == <<<<"number", v>>>>
                                       IN s \in Seq(Shown(Char)) /\ Clean(s)
<1>1. ASSUME NEW text \in Seq(Char) PROVE Spell(text) \in Seq(Shown(Char))
  <2>1. {"char"} \X Char \subseteq Shown(Char)
    BY Zenon DEF Shown
  <2>2. QED
    BY <2>1, SpellIs, SeqMonotonic
<1>2. ASSUME NEW x \in Shown(Char), x[1] # "char" PROVE <<x>> \in Seq(Shown(Char)) /\ Clean(<<x>>)
  <2>1. x \notin {<<"char", "quote">>, <<"char", "backslash">>}
    BY <1>2
  <2>2. QED
    BY <2>1 DEF Clean
<1>3. ASSUME NEW id \in Nat, NEW time \in Nat
      PROVE  LET s == <<<<"sender", id>>, <<"time", time>>>> IN s \in Seq(Shown(Char)) /\ Clean(s)
  <2> DEFINE x == <<"sender", id>>
             y == <<"time", time>>
  <2>1. x \in {"sender", "time"} \X Nat /\ y \in {"sender", "time"} \X Nat
    OBVIOUS
  <2>2. x \in Shown(Char) /\ y \in Shown(Char)
    BY <2>1, Zenon DEF Shown
  <2>3. x[1] # "char" /\ y[1] # "char"
    OBVIOUS
  <2> HIDE DEF x, y
  <2>4. /\ x \notin {<<"char", "quote">>, <<"char", "backslash">>}
        /\ y \notin {<<"char", "quote">>, <<"char", "backslash">>}
    BY <2>3
  <2>5. <<x, y>> \in Seq(Shown(Char)) /\ Clean(<<x, y>>)
    BY <2>2, <2>4 DEF Clean
  <2>6. QED
    BY <2>5 DEF x, y
<1>4. /\ \A end \in {"chain", "end"} : <<"node", end>> \in {"node"} \X {"chain", "end"}
      /\ \A k \in SegmentKeys : <<"key", k>> \in {"key"} \X SegmentKeys
      /\ \A type \in DOMAIN Layout : <<"segment", type>> \in {"segment"} \X DOMAIN Layout
      /\ \A v \in Nat \cup {Null} : <<"number", v>> \in {"number"} \X (Nat \cup {Null})
  OBVIOUS
<1>5. /\ \A end \in {"chain", "end"} : <<"node", end>> \in Shown(Char)
      /\ \A k \in SegmentKeys : <<"key", k>> \in Shown(Char)
      /\ \A type \in DOMAIN Layout : <<"segment", type>> \in Shown(Char)
      /\ \A v \in Nat \cup {Null} : <<"number", v>> \in Shown(Char)
  BY <1>4, Zenon DEF Shown
<1>6. \A v : /\ <<"node", v>>[1] # "char" /\ <<"key", v>>[1] # "char"
             /\ <<"segment", v>>[1] # "char" /\ <<"number", v>>[1] # "char"
  OBVIOUS
<1>7. QED
  BY <1>1, <1>2, <1>3, <1>5, <1>6, Zenon

LEMMA UnderstoodSame ==
  ASSUME NEW V, NEW s \in Seq(V), Clean(s)
  PROVE  Understood(s, s)
BY DEF Understood

\* What a node shows, and what the server makes of it.
LEMMA NodeShown ==
  ASSUME NEW Char, NEW id \in Nat, NEW time \in Nat, NEW name \in Seq(Char), NEW chain,
         InnerReading(chain) \in Seq(Shown(Char))
  PROVE  LET node == [senderId |-> id, time |-> time, senderName |-> name, messageChain |-> chain]
             r == NodeReading(node)
         IN /\ r \in Seq(Shown(Char))
            /\ Clean(r) => Clean(Spell(name)) /\ Clean(InnerReading(chain))
            /\ \A name2 \in Seq(Char) : \A chain2 :
                 /\ InnerReading(chain2) \in Seq(Shown(Char))
                 /\ Understood(Spell(name2), Spell(name))
                 /\ Understood(InnerReading(chain2), InnerReading(chain))
                 => LET node2 == [senderId |-> id, time |-> time, senderName |-> name2,
                                  messageChain |-> chain2]
                    IN NodeReading(node2) \in Seq(Shown(Char)) /\ Understood(NodeReading(node2), r)
<1> DEFINE V == Shown(Char)
           a == <<<<"sender", id>>, <<"time", time>>>>
           b == <<<<"node", "chain">>>>
           c == <<<<"node", "end">>>>
           shows(n, i) == a \o n \o b \o i \o c
           NodeOf(n, i) == [senderId |-> id, time |-> time, senderName |-> n, messageChain |-> i]
<1>1. \A n, i : NodeReading(NodeOf(n, i)) = shows(Spell(n), InnerReading(i))
  <2>1. \A n, i : LET x == NodeOf(n, i)
                  IN x.senderId = id /\ x.time = time /\ x.senderName = n /\ x.messageChain = i
    OBVIOUS
  <2> HIDE DEF NodeOf
  <2>2. QED
    BY <2>1, Zenon DEF NodeReading
<1>2. /\ a \in Seq(V) /\ Clean(a) /\ b \in Seq(V) /\ Clean(b) /\ c \in Seq(V) /\ Clean(c)
      /\ \A text \in Seq(Char) : Spell(text) \in Seq(V)
  BY ShownParts
<1> HIDE DEF V, a, b, c
<1>3. ASSUME NEW n \in Seq(V), NEW i \in Seq(V)
      PROVE  shows(n, i) \in Seq(V) /\ (Clean(shows(n, i)) <=> Clean(n) /\ Clean(i))
  <2>1. a \o n \in Seq(V) /\ (Clean(a \o n) <=> Clean(n))
    BY <1>2, ConcatProperties, CleanConcat
  <2>2. a \o n \o b \in Seq(V) /\ (Clean(a \o n \o b) <=> Clean(n))
    BY <1>2, <2>1, ConcatProperties, CleanConcat
  <2>3. a \o n \o b \o i \in Seq(V) /\ (Clean(a \o n \o b \o i) <=> Clean(n) /\ Clean(i))
    BY <2>2, ConcatProperties, CleanConcat
  <2>4. QED
    BY <1>2, <2>3, ConcatProperties, CleanConcat
<1>4. ASSUME NEW n \in Seq(V), NEW i \in Seq(V), NEW n2 \in Seq(V), NEW i2 \in Seq(V),
             Understood(n2, n), Understood(i2, i)
      PROVE  Understood(shows(n2, i2), shows(n, i))
  <2>1. Understood(a, a) /\ Understood(b, b) /\ Understood(c, c)
    BY <1>2, UnderstoodSame
  <2>2. a \o n \in Seq(V) /\ a \o n2 \in Seq(V) /\ Understood(a \o n2, a \o n)
    BY <1>2, <1>4, <2>1, ConcatProperties, UnderstoodConcat
  <2>3. /\ a \o n \o b \in Seq(V) /\ a \o n2 \o b \in Seq(V)
        /\ Understood(a \o n2 \o b, a \o n \o b)
    BY <1>2, <2>1, <2>2, ConcatProperties, UnderstoodConcat
  <2>4. /\ a \o n \o b \o i \in Seq(V) /\ a \o n2 \o b \o i2 \in Seq(V)
        /\ Understood(a \o n2 \o b \o i2, a \o n \o b \o i)
    BY <1>4, <2>3, ConcatProperties, UnderstoodConcat
  <2>5. QED
    BY <1>2, <2>1, <2>4, UnderstoodConcat
<1> HIDE DEF shows
<1> DEFINE r == NodeReading(NodeOf(name, chain))
<1>5. r = shows(Spell(name), InnerReading(chain)) /\ Spell(name) \in Seq(V) /\ InnerReading(chain) \in Seq(V)
  BY <1>1, <1>2 DEF V
<1>6. r \in Seq(V) /\ (Clean(r) => Clean(Spell(name)) /\ Clean(InnerReading(chain)))
  BY <1>3, <1>5
<1>7. ASSUME NEW name2 \in Seq(Char), NEW chain2, InnerReading(chain2) \in Seq(V),
             Understood(Spell(name2), Spell(name)),
             Understood(InnerReading(chain2), InnerReading(chain))
      PROVE  /\ NodeReading(NodeOf(name2, chain2)) \in Seq(V)
             /\ Understood(NodeReading(NodeOf(name2, chain2)), r)
  <2> DEFINE r2 == NodeReading(NodeOf(name2, chain2))
  <2>1. r2 = shows(Spell(name2), InnerReading(chain2)) /\ Spell(name2) \in Seq(V)
    BY <1>1, <1>2
  <2> HIDE DEF r2, r
  <2>2. r2 \in Seq(V) /\ Understood(r2, r)
    BY <1>3, <1>4, <1>5, <1>7, <2>1
  <2>3. QED
    BY <2>2 DEF r2
<1>8. QED
  BY <1>6, <1>7, Zenon DEF V

LEMMA WireNode ==
  ASSUME NEW Char, NEW Inner, Specials \subseteq Char, Null \notin Seq(Char),
         \A m \in Inner : Survives(m, Char), NEW node \in Node(Char, Inner)
  PROVE  LET sent == forwarded_as_json(node)
             got == NodeReading(DecodedNode(sent))
         IN /\ NodeReading(node) \in Seq(Shown(Char))
            /\ IF ReadableNode(sent)
               THEN got \in Seq(Shown(Char)) /\ Understood(got, NodeReading(node))
               ELSE ~ Clean(NodeReading(node))
<1> DEFINE id == node.senderId
           time == node.time
           name == node.senderName
           chain == node.messageChain
           NodeOf(n, c) == [senderId |-> id, time |-> time, senderName |-> n, messageChain |-> c]
           there == inner_as_json(chain)
           back == InnerDecoded(there)
           written == JsonQuoted(name)
           read == Unquote(written)
           V == Shown(Char)
<1>1. /\ id \in Nat /\ time \in Nat /\ name \in Seq(Char) /\ chain \in Inner
      /\ node = NodeOf(name, chain)
  BY DEF Node
<1>2. /\ InnerReading(chain) \in Seq(V)
      /\ IF InnerReadable(there)
         THEN InnerReading(back) \in Seq(V) /\ Understood(InnerReading(back), InnerReading(chain))
         ELSE ~ Clean(InnerReading(chain))
  BY <1>1, Zenon DEF Survives
<1>3. IF read = Null THEN ~ Clean(Spell(name))
      ELSE read \in Seq(Char) /\ Understood(Spell(read), Spell(name))
  BY <1>1, SpeltUnderstood
<1>4. \A n, c, m, d : [NodeOf(n, c) EXCEPT !.senderName = m, !.messageChain = d] = NodeOf(m, d)
  BY NodeReplaced
<1> DEFINE sent == forwarded_as_json(node)
<1>5. sent = [node EXCEPT !.senderName = written, !.messageChain = there]
  BY Zenon DEF forwarded_as_json
<1> HIDE DEF id, time, name, chain, there, back, written, read, sent
<1>6. sent = NodeOf(written, there)
  BY <1>1, <1>4, <1>5, Zenon
<1>7. sent.senderName = written /\ sent.messageChain = there
  BY <1>6
<1>8. DecodedNode(sent) = [sent EXCEPT !.senderName = read, !.messageChain = back]
  BY <1>7, Zenon DEF DecodedNode, read, back
<1>9. DecodedNode(sent) = NodeOf(read, back)
  BY <1>4, <1>6, <1>8, Zenon
<1>10. ReadableNode(sent) <=> read # Null /\ InnerReadable(there)
  BY <1>7, Zenon DEF ReadableNode, read
<1> DEFINE r == NodeReading(NodeOf(name, chain))
           got == NodeReading(NodeOf(read, back))
<1>11. /\ r \in Seq(V)
       /\ Clean(r) => Clean(Spell(name)) /\ Clean(InnerReading(chain))
       /\ /\ read \in Seq(Char) /\ InnerReading(back) \in Seq(V)
          /\ Understood(Spell(read), Spell(name))
          /\ Understood(InnerReading(back), InnerReading(chain))
          => got \in Seq(V) /\ Understood(got, r)
  BY <1>1, <1>2, NodeShown, Zenon
<1>12. NodeReading(node) = r /\ NodeReading(DecodedNode(sent)) = got
  BY <1>1, <1>9, Zenon
<1> HIDE DEF r, got, V, NodeOf
<1>13. CASE ReadableNode(sent)
  BY <1>2, <1>3, <1>10, <1>11, <1>12, <1>13, Zenon DEF V, sent
<1>14. CASE ~ ReadableNode(sent)
  BY <1>2, <1>3, <1>10, <1>11, <1>12, <1>14, Zenon DEF V, sent
<1>15. QED
  BY <1>13, <1>14

LEMMA WireIdentified ==
  ASSUME NEW Char, NEW Inner, Specials \subseteq Char, Null \notin Seq(Char),
         NEW seg, TypedSegment(seg, Char, Inner), seg.type # "Plain"
  PROVE  /\ Identified(seg) \in Seq(Written(seg)) /\ ToSet(Identified(seg)) = Written(seg)
         /\ ReadableSegment(segment_as_json(seg)) => Identified(Wire(seg)) = Identified(seg)
<1> DEFINE d == Wire(seg)
           L == Layout[seg.type]
           readable == ReadableSegment(segment_as_json(seg))
<1>1. /\ DOMAIN d = {"type"} \cup Written(seg) /\ d.type = seg.type
      /\ \A k \in Written(seg) \ {"nodeList"} :
           d[k] = IF k \in Unquoted THEN seg[k] ELSE Unquote(JsonQuoted(seg[k]))
      /\ readable <=> \A k \in Written(seg) : ReadableMember(seg, k)
  BY WireKeys
<1> HIDE DEF d, readable
<1>2. /\ seg.type \in {"At", "AtAll", "Face", "Forward"} \cup Media \cup TextTypes
      /\ DOMAIN seg = {"type"} \cup L.needs \cup L.may
      /\ seg.type \notin Media => Written(seg) = ToSet(L.writes)
  BY LayoutTypes, WrittenIs DEF TypedSegment
<1>3. DOMAIN AllOf = {"At", "AtAll", "Face", "Forward"} \cup (TextTypes \ {"Plain"})
  BY DEF AllOf, TextTypes
<1>4. CASE seg.type \notin Media
  <2>1. seg.type \in DOMAIN AllOf
    BY <1>2, <1>3, <1>4
  <2>2. Identified(d) = AllOf[seg.type] /\ Identified(seg) = AllOf[seg.type]
    BY <1>1, <2>1 DEF Identified
  <2>3. AllOf[seg.type] = L.writes
    <3>1. CASE seg.type \in {"At", "AtAll"}
      BY <3>1, LayoutAt DEF AllOf
    <3>2. CASE seg.type = "Forward"
      BY <3>2, LayoutForward DEF AllOf
    <3>3. CASE seg.type = "Face"
      BY <3>3, LayoutFace DEF AllOf
    <3>4. CASE seg.type \in TextTypes
      BY <3>4, LayoutText
    <3>5. QED
      BY <1>2, <1>4, <3>1, <3>2, <3>3, <3>4
  <2>4. L.writes \in Seq(ToSet(L.writes))
    <3>1. <<>> \in Seq(ToSet(<<>>)) /\ \A k : <<k>> \in Seq(ToSet(<<k>>))
      BY DEF ToSet
    <3>2. CASE seg.type \in {"At", "AtAll"}
      <4>1. L.writes = <<>> \/ L.writes = <<"target">>
        BY <3>2, LayoutAt
      <4>2. QED
        BY <3>1, <4>1, Zenon
    <3>3. CASE seg.type = "Forward"
      BY <3>3, LayoutForward DEF ToSet
    <3>4. CASE seg.type = "Face"
      BY <3>4, LayoutFace DEF ToSet
    <3>5. CASE seg.type \in TextTypes
      <4>1. PICK k \in {"text", "xml", "json", "content", "name"} : L.writes = <<k>>
        BY <3>5, LayoutText
      <4>2. QED
        BY <3>1, <4>1, Zenon
    <3>6. QED
      BY <1>2, <1>4, <3>2, <3>3, <3>4, <3>5
  <2> HIDE DEF L
  <2>5. QED
    BY <1>2, <1>4, <2>2, <2>3, <2>4, Zenon DEF d
<1>5. CASE seg.type \in Media
  <2>1. PICK id \in {"imageId", "voiceId"} :
          LET w == <<id, "url", "path">>
              there == {i \in 1 .. 3 : seg[w[i]] # Null}
          IN /\ FirstOf[seg.type] = w /\ L.may = {w[1], w[2], w[3]}
             /\ there = {} => Written(seg) = {}
             /\ there # {} => Min(there) \in there /\ Written(seg) = {w[Min(there)]}
    BY <1>2, <1>5, WrittenIs, LayoutTypes
  <2> DEFINE w == <<id, "url", "path">>
             there == {i \in 1 .. 3 : seg[w[i]] # Null}
             first == Min(there)
             has(json) == {i \in DOMAIN w : Has(json, w[i])}
  <2>2. seg.type \notin DOMAIN AllOf /\ FirstOf[seg.type] = w
    BY <1>3, <1>5, <2>1 DEF Media, TextTypes
  <2>3. \A json : json.type = seg.type =>
          Identified(json) = IF has(json) = {} THEN <<>> ELSE <<w[Min(has(json))]>>
    BY <2>2, Zenon DEF Identified
  <2>4. DOMAIN w = 1 .. 3 /\ w[1] \in L.may /\ w[2] \in L.may /\ w[3] \in L.may
    BY <2>1
  <2>5. has(seg) = there
    BY <1>2, <2>4 DEF Has
  <2>6. CASE there = {}
    <3>1. Written(seg) = {}
      BY <2>1, <2>6
    <3>2. has(d) = {}
      BY <1>1, <2>4, <3>1 DEF Has
    <3>3. Identified(d) = <<>> /\ Identified(seg) = <<>>
      BY <1>1, <2>3, <2>5, <2>6, <3>2, Zenon
    <3>4. ToSet(<<>>) = {} /\ <<>> \in Seq({})
      BY DEF ToSet
    <3>5. QED
      BY <3>1, <3>3, <3>4 DEF d
  <2>7. CASE there # {}
    <3>1. first \in there /\ Written(seg) = {w[first]}
      BY <2>1, <2>7
    <3>2. Identified(seg) = <<w[first]>>
      BY <2>3, <2>5, <2>7
    <3> HIDE DEF first
    <3>3. first \in 1 .. 3 /\ seg[w[first]] # Null /\ w[first] \notin Unquoted
      BY <3>1 DEF Unquoted
    <3>4. ASSUME readable PROVE Identified(d) = <<w[first]>>
      <4> DEFINE key == w[first]
      <4>1. key \in Written(seg) /\ key \notin Unquoted /\ key # "nodeList"
        BY <3>1, <3>3 DEF Unquoted
      <4>2. \A i \in 1 .. 3 : w[i] # "type" /\ (w[i] = key => i = first)
        BY <3>3
      <4> HIDE DEF key
      <4>3. d[key] # Null
        BY <1>1, <3>4, <4>1 DEF ReadableMember
      <4>4. has(d) = {first}
        BY <1>1, <2>4, <3>1, <3>3, <4>1, <4>2, <4>3 DEF Has, key
      <4>5. Min({first}) = first
        BY <3>3 DEF Min
      <4>6. QED
        BY <1>1, <2>3, <4>4, <4>5
    <3>5. ToSet(<<w[first]>>) = {w[first]} /\ <<w[first]>> \in Seq({w[first]})
      BY DEF ToSet
    <3>6. QED
      BY <3>1, <3>2, <3>4, <3>5 DEF d, readable
  <2>8. QED
    BY <2>6, <2>7
<1>6. QED
  BY <1>4, <1>5

LEMMA WireNodes ==
  ASSUME NEW Char, NEW Inner, Specials \subseteq Char, Null \notin Seq(Char),
         \A m \in Inner : Survives(m, Char), NEW nodes \in Seq(Node(Char, Inner))
  PROVE  LET there == [i \in DOMAIN nodes |-> DecodedNode(forwarded_as_json(nodes[i]))]
             got == Joined([i \in DOMAIN there |-> NodeReading(there[i])])
             meant == Joined([i \in DOMAIN nodes |-> NodeReading(nodes[i])])
         IN /\ meant \in Seq(Shown(Char))
            /\ IF \A i \in DOMAIN nodes : ReadableNode(forwarded_as_json(nodes[i]))
               THEN got \in Seq(Shown(Char)) /\ Understood(got, meant)
               ELSE ~ Clean(meant)
<1> DEFINE V == Shown(Char)
           P == Seq(V)
           sent(i) == forwarded_as_json(nodes[i])
           there == [i \in DOMAIN nodes |-> DecodedNode(sent(i))]
           got == [i \in DOMAIN there |-> NodeReading(there[i])]
           meant == [i \in DOMAIN nodes |-> NodeReading(nodes[i])]
           R == {i \in DOMAIN nodes : ReadableNode(sent(i))}
<1>1. DOMAIN nodes = 1 .. Len(nodes) /\ Len(nodes) \in Nat
  OBVIOUS
<1>2. /\ DOMAIN meant = DOMAIN nodes /\ got = [i \in DOMAIN meant |-> got[i]]
      /\ \A i \in DOMAIN nodes : got[i] = NodeReading(DecodedNode(sent(i)))
  OBVIOUS
<1> HIDE DEF got
<1>3. ASSUME NEW i \in DOMAIN nodes
      PROVE  meant[i] \in P /\ IF i \in R THEN got[i] \in P /\ Understood(got[i], meant[i])
                               ELSE ~ Clean(meant[i])
  <2>1. nodes[i] \in Node(Char, Inner) /\ meant[i] = NodeReading(nodes[i])
        /\ (i \in R <=> ReadableNode(sent(i)))
    BY <1>1
  <2> HIDE DEF R, meant
  <2>2. QED
    BY <1>2, <2>1, WireNode, Zenon
<1>4. (\A i \in DOMAIN nodes : ReadableNode(sent(i))) <=> DOMAIN meant \subseteq R
  BY <1>2
<1> HIDE DEF V, P, sent, meant, R
<1>5. meant \in Seq(P)
  <2>1. meant \in [1 .. Len(nodes) -> P]
    BY <1>1, <1>3 DEF meant
  <2>2. QED
    BY <1>1, <2>1
<1>6. /\ Joined(meant) \in Seq(V)
      /\ IF DOMAIN meant \subseteq R THEN Joined(got) \in Seq(V) /\ Understood(Joined(got), Joined(meant))
         ELSE ~ Clean(Joined(meant))
  BY <1>2, <1>3, <1>5, PartsUnderstood DEF P
<1>7. QED
  BY <1>4, <1>6, Zenon DEF V, sent, got, meant

LEMMA WireMember ==
  ASSUME NEW Char, NEW Inner, Specials \subseteq Char, Null \notin Seq(Char),
         \A m \in Inner : Survives(m, Char), NEW seg, TypedSegment(seg, Char, Inner),
         NEW k \in Written(seg)
  PROVE  /\ KeyReading(seg, k) \in Seq(Shown(Char))
         /\ IF ReadableMember(seg, k)
            THEN /\ KeyReading(Wire(seg), k) \in Seq(Shown(Char))
                 /\ Understood(KeyReading(Wire(seg), k), KeyReading(seg, k))
            ELSE ~ Clean(KeyReading(seg, k))
<1> DEFINE d == Wire(seg)
<1>1. /\ k \in DOMAIN d /\ k \in DOMAIN seg
      /\ k # "nodeList" => d[k] = IF k \in Unquoted THEN seg[k] ELSE Unquote(JsonQuoted(seg[k]))
      /\ k = "nodeList" =>
           d[k] = [i \in DOMAIN seg[k] |-> DecodedNode(forwarded_as_json(seg[k][i]))]
      /\ k \notin Unquoted => seg[k] \in Seq(Char)
      /\ k = "nodeList" => seg[k] \in Seq(Node(Char, Inner))
      /\ k \in Unquoted \ {"nodeList"} => seg[k] \in Nat \cup {Null}
  <2>1. /\ DOMAIN d = {"type"} \cup Written(seg) /\ d.type = seg.type
        /\ \A j \in Written(seg) \ {"nodeList"} :
             d[j] = IF j \in Unquoted THEN seg[j] ELSE Unquote(JsonQuoted(seg[j]))
        /\ "nodeList" \in Written(seg) =>
             d["nodeList"] =
               [i \in DOMAIN seg["nodeList"] |-> DecodedNode(forwarded_as_json(seg["nodeList"][i]))]
        /\ ReadableSegment(segment_as_json(seg)) <=> \A j \in Written(seg) : ReadableMember(seg, j)
    BY WireKeys
  <2> HIDE DEF d
  <2>2. /\ k \in DOMAIN d
        /\ k # "nodeList" => d[k] = IF k \in Unquoted THEN seg[k] ELSE Unquote(JsonQuoted(seg[k]))
    BY <2>1
  <2>3. k = "nodeList" => d[k] = [i \in DOMAIN seg[k] |-> DecodedNode(forwarded_as_json(seg[k][i]))]
    BY <2>1, Zenon
  <2>4. QED
    BY <2>2, <2>3, WrittenTyped
<1> HIDE DEF d
<1>2. CASE k = "nodeList"
  <2> DEFINE nodes == seg[k]
             there == [i \in DOMAIN nodes |-> DecodedNode(forwarded_as_json(nodes[i]))]
             got == Joined([i \in DOMAIN there |-> NodeReading(there[i])])
             meant == Joined([i \in DOMAIN nodes |-> NodeReading(nodes[i])])
  <2>1. /\ meant \in Seq(Shown(Char))
        /\ IF \A i \in DOMAIN nodes : ReadableNode(forwarded_as_json(nodes[i]))
           THEN got \in Seq(Shown(Char)) /\ Understood(got, meant)
           ELSE ~ Clean(meant)
    BY <1>1, <1>2, WireNodes, Zenon
  <2>2. KeyReading(seg, k) = meant
    BY <1>2, Zenon DEF KeyReading
  <2>3. KeyReading(d, k) = got
    BY <1>1, <1>2, Zenon DEF KeyReading
  <2>4. ReadableMember(seg, k) <=> \A i \in DOMAIN nodes : ReadableNode(forwarded_as_json(nodes[i]))
    BY <1>2, Zenon DEF ReadableMember
  <2>5. QED
    BY <2>1, <2>2, <2>3, <2>4, Zenon DEF d
<1>3. CASE k \in Unquoted \ {"nodeList"}
  <2> DEFINE v == seg[k]
             s == <<<<"number", v>>>>
  <2>1. optional_from_json(seg, k) = v /\ optional_from_json(d, k) = v
    BY <1>1, <1>3 DEF optional_from_json, Has
  <2>2. s \in Seq(Shown(Char)) /\ Clean(s)
    BY <1>1, <1>3, ShownParts, Zenon
  <2>3. KeyReading(seg, k) = s /\ KeyReading(d, k) = s
    BY <1>3, <2>1, Zenon DEF KeyReading
  <2>4. ReadableMember(seg, k)
    BY <1>3 DEF ReadableMember
  <2> HIDE DEF s
  <2>5. Understood(s, s)
    BY <2>2, UnderstoodSame
  <2>6. QED
    BY <2>2, <2>3, <2>4, <2>5, Zenon DEF d
<1>4. CASE k \notin Unquoted
  <2> DEFINE text == seg[k]
             got == Unquote(JsonQuoted(text))
  <2>1. k # "nodeList" /\ d[k] = got /\ text \in Seq(Char)
    BY <1>1, <1>4 DEF Unquoted
  <2>2. IF got = Null THEN ~ Clean(Spell(text))
        ELSE got \in Seq(Char) /\ Understood(Spell(got), Spell(text))
    BY <2>1, SpeltUnderstood
  <2>3. KeyReading(seg, k) = Spell(text) /\ KeyReading(d, k) = Spell(got)
    BY <1>4, <2>1, Zenon DEF KeyReading
  <2>4. ReadableMember(seg, k) <=> got # Null
    BY <1>4, <2>1, Zenon DEF ReadableMember
  <2>5. Spell(text) \in Seq(Shown(Char)) /\ (got \in Seq(Char) => Spell(got) \in Seq(Shown(Char)))
    BY <2>1, ShownParts, Zenon
  <2>6. QED
    BY <2>2, <2>3, <2>4, <2>5, Zenon DEF d
<1>5. QED
  BY <1>2, <1>3, <1>4

LEMMA WireReading ==
  ASSUME NEW Char, NEW Inner, Specials \subseteq Char, Null \notin Seq(Char),
         \A m \in Inner : Survives(m, Char), NEW seg, TypedSegment(seg, Char, Inner)
  PROVE  /\ SegmentReading(seg) \in Seq(Shown(Char))
         /\ IF ReadableSegment(segment_as_json(seg))
            THEN /\ SegmentReading(Wire(seg)) \in Seq(Shown(Char))
                 /\ Understood(SegmentReading(Wire(seg)), SegmentReading(seg))
            ELSE ~ Clean(SegmentReading(seg))
<1> DEFINE d == Wire(seg)
           V == Shown(Char)
           readable == ReadableSegment(segment_as_json(seg))
           said(k) == KeyReading(seg, k)
           back(k) == KeyReading(d, k)
<1>1. /\ DOMAIN d = {"type"} \cup Written(seg) /\ d.type = seg.type
      /\ readable <=> \A k \in Written(seg) : ReadableMember(seg, k)
  BY WireKeys
<1>2. ASSUME NEW k \in Written(seg)
      PROVE  /\ k \in SegmentKeys /\ said(k) \in Seq(V)
             /\ IF ReadableMember(seg, k) THEN back(k) \in Seq(V) /\ Understood(back(k), said(k))
                ELSE ~ Clean(said(k))
  BY WireMember, WrittenTyped
<1> HIDE DEF d, V, readable, said, back
<1>3. CASE seg.type = "Plain"
  <2>1. Written(seg) = {"text"} /\ "text" \notin Unquoted
    <3>1. Layout["Plain"].writes = <<"text">> /\ "Plain" \notin Media
      BY LayoutText DEF TextTypes, Media
    <3>2. seg.type \notin Media => Written(seg) = ToSet(Layout[seg.type].writes)
      BY WrittenIs DEF TypedSegment
    <3>3. Written(seg) = ToSet(<<"text">>)
      BY <1>3, <3>1, <3>2, Zenon
    <3>4. QED
      BY <3>3 DEF ToSet, Unquoted
  <2>2. SegmentReading(seg) = said("text") /\ SegmentReading(d) = back("text")
    BY <1>1, <1>3, <2>1, Zenon DEF SegmentReading, KeyReading, said, back, Unquoted
  <2>3. readable <=> ReadableMember(seg, "text")
    BY <1>1, <2>1
  <2>4. QED
    BY <1>2, <2>1, <2>2, <2>3 DEF readable, d, V
<1>4. CASE seg.type # "Plain"
  <2> DEFINE ks == Identified(seg)
             a == <<<<"segment", seg.type>>>>
             b(k) == <<<<"key", k>>>>
             meant == [i \in DOMAIN ks |-> b(ks[i]) \o said(ks[i])]
             got == [i \in DOMAIN ks |-> b(ks[i]) \o back(ks[i])]
             R == {i \in DOMAIN ks : ReadableMember(seg, ks[i])}
  <2>1. /\ ks \in Seq(Written(seg)) /\ ToSet(ks) = Written(seg)
        /\ readable => Identified(d) = ks
    BY <1>4, WireIdentified DEF readable, d
  <2>2. SegmentReading(seg) = a \o Joined(meant)
    BY <1>4, Zenon DEF SegmentReading, said
  <2>3. readable => SegmentReading(d) = a \o Joined(got)
    BY <1>1, <1>4, <2>1, Zenon DEF SegmentReading, back
  <2>4. /\ a \in Seq(V) /\ Clean(a) /\ \A k \in Written(seg) : b(k) \in Seq(V) /\ Clean(b(k))
    BY <1>2, ShownParts, Zenon DEF TypedSegment, V
  <2> HIDE DEF ks, a, b
  <2>5. /\ DOMAIN ks = 1 .. Len(ks) /\ Len(ks) \in Nat /\ \A i \in 1 .. Len(ks) : ks[i] \in Written(seg)
    BY <2>1
  <2>6. ASSUME NEW i \in DOMAIN ks
        PROVE  /\ meant[i] \in Seq(V)
               /\ IF i \in R THEN got[i] \in Seq(V) /\ Understood(got[i], meant[i])
                  ELSE ~ Clean(meant[i])
    <3> DEFINE k == ks[i]
    <3>1. k \in Written(seg) /\ meant[i] = b(k) \o said(k) /\ got[i] = b(k) \o back(k)
          /\ (i \in R <=> ReadableMember(seg, k))
      BY <2>5
    <3> HIDE DEF k, meant, got, R
    <3>2. b(k) \in Seq(V) /\ Clean(b(k)) /\ said(k) \in Seq(V)
      BY <1>2, <2>4, <3>1
    <3>3. meant[i] \in Seq(V)
      BY <3>1, <3>2, ConcatProperties
    <3>4. CASE i \in R
      <4>1. back(k) \in Seq(V) /\ Understood(back(k), said(k)) /\ Understood(b(k), b(k))
        BY <1>2, <3>1, <3>2, <3>4, UnderstoodSame
      <4>2. b(k) \o back(k) \in Seq(V) /\ Understood(b(k) \o back(k), b(k) \o said(k))
        BY <3>2, <4>1, ConcatProperties, UnderstoodConcat
      <4>3. QED
        BY <3>1, <3>3, <3>4, <4>2
    <3>5. CASE i \notin R
      <4>1. ~ Clean(said(k))
        BY <1>2, <3>1, <3>5
      <4>2. ~ Clean(b(k) \o said(k))
        BY <3>2, <4>1, CleanConcat
      <4>3. QED
        BY <3>1, <3>3, <3>5, <4>2
    <3>6. QED
      BY <3>4, <3>5
  <2>7. DOMAIN meant = DOMAIN ks /\ got = [i \in DOMAIN meant |-> got[i]]
    OBVIOUS
  <2>8. readable <=> DOMAIN meant \subseteq R
    <3>1. \A k : k \in Written(seg) <=> \E i \in DOMAIN ks : k = ks[i]
      BY <2>1 DEF ToSet
    <3>2. DOMAIN meant \subseteq R <=> \A i \in DOMAIN ks : ReadableMember(seg, ks[i])
      BY <2>7
    <3>3. QED
      BY <1>1, <3>1, <3>2, Zenon
  <2>9. meant \in [1 .. Len(ks) -> Seq(V)]
    BY <2>5, <2>6, <2>7
  <2> HIDE DEF meant, got, R
  <2>10. meant \in Seq(Seq(V))
    BY <2>5, <2>9
  <2>11. \A i \in DOMAIN meant : IF i \in R THEN got[i] \in Seq(V) /\ Understood(got[i], meant[i])
                                 ELSE ~ Clean(meant[i])
    BY <2>6, <2>7
  <2>12. /\ Joined(meant) \in Seq(V)
         /\ IF DOMAIN meant \subseteq R
            THEN Joined(got) \in Seq(V) /\ Understood(Joined(got), Joined(meant))
            ELSE ~ Clean(Joined(meant))
    BY <2>7, <2>10, <2>11, PartsUnderstood
  <2>13. SegmentReading(seg) \in Seq(V)
    BY <2>2, <2>4, <2>12, ConcatProperties
  <2>14. CASE readable
    <3>1. Joined(got) \in Seq(V) /\ Understood(Joined(got), Joined(meant)) /\ Understood(a, a)
      BY <2>4, <2>8, <2>12, <2>14, UnderstoodSame
    <3>2. a \o Joined(got) \in Seq(V) /\ Understood(a \o Joined(got), a \o Joined(meant))
      BY <2>4, <2>12, <3>1, ConcatProperties, UnderstoodConcat
    <3>3. QED
      BY <2>2, <2>3, <2>13, <2>14, <3>2 DEF readable, d, V
  <2>15. CASE ~ readable
    <3>1. ~ Clean(Joined(meant))
      BY <2>8, <2>12, <2>15
    <3>2. ~ Clean(a \o Joined(meant))
      BY <2>4, <2>12, <3>1, CleanConcat
    <3>3. QED
      BY <2>2, <2>13, <2>15, <3>2 DEF readable, d, V
  <2>16. QED
    BY <2>14, <2>15
<1>5. QED
  BY <1>3, <1>4

\* The segments of a message, texts and others.
Values(Char, Inner) ==
  Seq(Char) \cup Nat \cup {Null} \cup Seq(Node(Char, Inner)) \cup DOMAIN Layout

Others(Char, Inner) ==
  {seg \in UNION {[D -> Values(Char, Inner)] : D \in SUBSET SegmentKeys} :
     TypedSegment(seg, Char, Inner) /\ ~ is_plain(seg)}

Segments(Char, Inner) == PlainOf(Char) \cup Others(Char, Inner)

LEMMA LayoutPlain ==
  /\ "Plain" \in DOMAIN Layout /\ Layout["Plain"].needs = {"text"} /\ Layout["Plain"].may = {}
  /\ "text" \notin Unquoted /\ "text" # "nodeList"
BY LayoutText, LayoutTypes DEF TextTypes, Unquoted

LEMMA SegmentsTyped ==
  ASSUME NEW Char, NEW Inner, NEW seg \in Segments(Char, Inner)
  PROVE  TypedSegment(seg, Char, Inner)
<1>1. CASE seg \in PlainOf(Char)
  <2>1. seg.type = "Plain" /\ DOMAIN seg = {"type", "text"} /\ seg["text"] \in Seq(Char)
    BY <1>1 DEF PlainOf
  <2>2. TypedMember("text", seg["text"], Char, Inner)
    BY <2>1, LayoutPlain DEF TypedMember
  <2>3. QED
    BY <2>1, <2>2, LayoutPlain DEF TypedSegment
<1>2. CASE seg \in Others(Char, Inner)
  BY <1>2, Zenon DEF Others
<1>3. QED
  BY <1>1, <1>2 DEF Segments

LEMMA TypedPlain ==
  ASSUME NEW Char, NEW Inner, NEW seg, TypedSegment(seg, Char, Inner), is_plain(seg),
         seg = [k \in DOMAIN seg |-> seg[k]]
  PROVE  seg \in PlainOf(Char)
<1>1. seg.type = "Plain" /\ DOMAIN seg = {"type", "text"} /\ TypedMember("text", seg["text"], Char, Inner)
  BY LayoutPlain DEF TypedSegment, is_plain
<1>2. seg["text"] \in Seq(Char)
  BY <1>1, LayoutPlain DEF TypedMember
<1>3. QED
  BY <1>1, <1>2 DEF PlainOf

LEMMA TypedIsSegment ==
  ASSUME NEW Char, NEW Inner, NEW seg, TypedSegment(seg, Char, Inner),
         seg = [k \in DOMAIN seg |-> seg[k]]
  PROVE  seg \in Segments(Char, Inner)
<1>1. CASE is_plain(seg)
  BY <1>1, TypedPlain DEF Segments
<1>2. CASE ~ is_plain(seg)
  <2> DEFINE D == DOMAIN seg
             L == Layout[seg.type]
  <2>1. /\ seg.type \in DOMAIN Layout /\ D = {"type"} \cup L.needs \cup L.may
        /\ \A k \in L.needs : TypedMember(k, seg[k], Char, Inner)
        /\ \A k \in L.may : seg[k] # Null => TypedMember(k, seg[k], Char, Inner)
    BY DEF TypedSegment
  <2>2. D \in SUBSET SegmentKeys
    BY <2>1 DEF SegmentKeys
  <2> HIDE DEF L
  <2>3. ASSUME NEW k, NEW v, TypedMember(k, v, Char, Inner) PROVE v \in Values(Char, Inner)
    BY <2>3, Zenon DEF TypedMember, Values
  <2>4. ASSUME NEW k \in D PROVE seg[k] \in Values(Char, Inner)
    <3>1. CASE k = "type"
      BY <2>1, <3>1 DEF Values
    <3>2. CASE seg[k] = Null
      BY <3>2 DEF Values
    <3>3. CASE k # "type" /\ seg[k] # Null
      BY <2>1, <2>3, <3>3
    <3>4. QED
      BY <3>1, <3>2, <3>3
  <2> HIDE DEF D
  <2>5. seg \in [D -> Values(Char, Inner)]
    BY <2>4 DEF D
  <2>6. seg \in Others(Char, Inner)
    BY <1>2, <2>2, <2>5, Zenon DEF Others
  <2>7. QED
    BY <2>6 DEF Segments
<1>3. QED
  BY <1>1, <1>2

\* What the server makes of a message.
LEMMA SentUnderstood ==
  ASSUME NEW Char, NEW Inner, Specials \subseteq Char, Null \notin Seq(Char),
         \A m \in Inner : Survives(m, Char), NEW msg \in Seq(Segments(Char, Inner))
  PROVE  LET chain == message_as_json(msg)
             got == Reading(DecodedChain(chain))
         IN /\ Reading(msg) \in Seq(Shown(Char))
            /\ IF Readable(chain) THEN got \in Seq(Shown(Char)) /\ Understood(got, Reading(msg))
               ELSE ~ Clean(Reading(msg))
<1> DEFINE V == Shown(Char)
           chain == message_as_json(msg)
           segs == DecodedChain(chain)
           sent(i) == segment_as_json(msg[i])
           said(i) == SegmentReading(msg[i])
           back(i) == SegmentReading(Wire(msg[i]))
           meant == [i \in DOMAIN msg |-> said(i)]
           got == [i \in DOMAIN msg |-> back(i)]
           R == {i \in DOMAIN msg : ReadableSegment(sent(i))}
<1>1. DOMAIN chain = DOMAIN msg /\ \A i \in DOMAIN msg : chain[i] = sent(i)
  BY DEF message_as_json
<1>2. Readable(chain) <=> DOMAIN msg \subseteq R
  <2> HIDE DEF chain, sent
  <2>1. Readable(chain) <=> {i \in DOMAIN chain : ~ ReadableSegment(chain[i])} = {}
    BY Zenon DEF Readable
  <2>2. QED
    BY <1>1, <2>1
<1>3. DOMAIN segs = DOMAIN msg /\ \A i \in DOMAIN msg : segs[i] = Wire(msg[i])
  <2> HIDE DEF chain
  <2>1. DOMAIN segs = DOMAIN chain /\ \A i \in DOMAIN chain : segs[i] = Decoded(chain[i])
    BY DEF DecodedChain
  <2> HIDE DEF segs
  <2>2. QED
    BY <1>1, <2>1 DEF Wire
<1>4. Reading(msg) = Joined(meant)
  BY Zenon DEF Reading
<1>5. Reading(segs) = Joined(got)
  <2> HIDE DEF segs
  <2>1. [i \in DOMAIN segs |-> SegmentReading(segs[i])] = got
    BY <1>3
  <2>2. QED
    BY <2>1, Zenon DEF Reading
<1>6. ASSUME NEW i \in DOMAIN msg
      PROVE  said(i) \in Seq(V) /\ IF i \in R THEN back(i) \in Seq(V) /\ Understood(back(i), said(i))
                                   ELSE ~ Clean(said(i))
  <2>1. TypedSegment(msg[i], Char, Inner)
    BY SegmentsTyped
  <2>2. i \in R <=> ReadableSegment(sent(i))
    OBVIOUS
  <2> HIDE DEF R
  <2>3. QED
    BY <2>1, <2>2, WireReading
<1> HIDE DEF V, chain, segs, sent, said, back, R
<1>7. DOMAIN msg = 1 .. Len(msg) /\ Len(msg) \in Nat
  OBVIOUS
<1>8. /\ meant \in [1 .. Len(msg) -> Seq(V)] /\ DOMAIN meant = DOMAIN msg
      /\ got = [i \in DOMAIN meant |-> got[i]]
      /\ \A i \in DOMAIN msg : meant[i] = said(i) /\ got[i] = back(i)
  BY <1>6, <1>7
<1> HIDE DEF meant, got
<1>9. meant \in Seq(Seq(V))
  BY <1>7, <1>8
<1>10. \A i \in DOMAIN meant : IF i \in R THEN got[i] \in Seq(V) /\ Understood(got[i], meant[i])
                               ELSE ~ Clean(meant[i])
  BY <1>6, <1>8
<1>11. /\ Joined(meant) \in Seq(V)
       /\ IF DOMAIN meant \subseteq R
          THEN Joined(got) \in Seq(V) /\ Understood(Joined(got), Joined(meant))
          ELSE ~ Clean(Joined(meant))
  BY <1>8, <1>9, <1>10, PartsUnderstood
<1>12. QED
  BY <1>2, <1>4, <1>5, <1>8, <1>11, Zenon DEF V, chain, segs

\* A message of any length and of every type of segment that is written by
\* format_as_json reads at the server as it was composed exactly if none of
\* the texts that are written has a quote or a backslash: all that identifies
\* a segment is written, of a medium the same key that is read, a text read
\* wrongly is not made good by another, and nothing else spoils the request.
THEOREM SentReadsBack ==
  ASSUME NEW Char, NEW Inner, Specials \subseteq Char, Null \notin Seq(Char),
         \A m \in Inner : Survives(m, Char), NEW msg \in Seq(Segments(Char, Inner))
  PROVE  LET chain == message_as_json(msg)
         IN Readable(chain) /\ Reading(DecodedChain(chain)) = Reading(msg) <=> Clean(Reading(msg))
<1> DEFINE chain == message_as_json(msg)
           got == Reading(DecodedChain(chain))
<1>1. IF Readable(chain) THEN Understood(got, Reading(msg)) ELSE ~ Clean(Reading(msg))
  BY SentUnderstood, Zenon
<1> HIDE DEF chain, got
<1>2. Readable(chain) /\ got = Reading(msg) <=> Clean(Reading(msg))
  BY <1>1 DEF Understood
<1>3. QED
  BY <1>2 DEF chain, got

-----------------------------------------------------------------------------
(***************************************************************************)
(* What is received, from JSON that is well typed.  The messages in nodes  *)
(* are of the set Chains and become messages of Inner that show the same.  *)
(***************************************************************************)
ReceivedInner(Chains, Inner) ==
  \A chain \in Chains : LET msg == inner_from_json(chain)
                        IN msg # Null => msg \in Inner /\ InnerReading(msg) = InnerReading(chain)

LEMMA ReceivedNode ==
  ASSUME NEW Char, NEW Inner, NEW Chains, ReceivedInner(Chains, Inner), NEW node,
         HasAll(node, NodeKeys) => node \in Node(Char, Chains), forwarded_from_json(node) # Null
  PROVE  /\ forwarded_from_json(node) \in Node(Char, Inner)
         /\ NodeReading(forwarded_from_json(node)) = NodeReading(node)
<1> DEFINE id == node.senderId
           time == node.time
           name == node.senderName
           chain == node.messageChain
           inner == inner_from_json(chain)
           got == forwarded_from_json(node)
<1>1. HasAll(node, NodeKeys) /\ inner # Null /\ got = [node EXCEPT !.messageChain = inner]
  BY Zenon DEF forwarded_from_json
<1>2. /\ node \in Node(Char, Chains) /\ id \in Nat /\ time \in Nat /\ name \in Seq(Char)
      /\ chain \in Chains
      /\ node = [senderId |-> id, time |-> time, senderName |-> name, messageChain |-> chain]
  BY <1>1 DEF Node
<1>3. inner \in Inner /\ InnerReading(inner) = InnerReading(chain)
  BY <1>1, <1>2, Zenon DEF ReceivedInner
<1> HIDE DEF inner, got
<1>4. got = [senderId |-> id, time |-> time, senderName |-> name, messageChain |-> inner]
  BY <1>1, <1>2
<1>5. got.senderId = id /\ got.time = time /\ got.senderName = name /\ got.messageChain = inner
  BY <1>4
<1>6. NodeReading(got) = NodeReading(node)
  BY <1>3, <1>5, Zenon DEF NodeReading
<1>7. got \in Node(Char, Inner)
  BY <1>2, <1>3, <1>4 DEF Node
<1>8. QED
  BY <1>6, <1>7 DEF got

LEMMA ReceivedNodes ==
  ASSUME NEW Char, NEW Inner, NEW Chains, ReceivedInner(Chains, Inner), NEW nodes,
         WellTypedMember("nodeList", nodes, Char, Chains),
         \A i \in DOMAIN nodes : forwarded_from_json(nodes[i]) # Null
  PROVE  /\ [i \in DOMAIN nodes |-> forwarded_from_json(nodes[i])] \in Seq(Node(Char, Inner))
         /\ \A i \in DOMAIN nodes : NodeReading(forwarded_from_json(nodes[i])) = NodeReading(nodes[i])
<1> DEFINE T == ToSet(nodes)
           got == [i \in DOMAIN nodes |-> forwarded_from_json(nodes[i])]
           N == Node(Char, Inner)
<1>1. /\ nodes \in Seq(T)
      /\ \A i \in DOMAIN nodes : HasAll(nodes[i], NodeKeys) => nodes[i] \in Node(Char, Chains)
  BY DEF WellTypedMember
<1>2. ASSUME NEW i \in DOMAIN nodes
      PROVE  /\ forwarded_from_json(nodes[i]) \in N
             /\ NodeReading(forwarded_from_json(nodes[i])) = NodeReading(nodes[i])
  BY <1>1, ReceivedNode
<1> HIDE DEF T, N
<1>3. DOMAIN nodes = 1 .. Len(nodes) /\ Len(nodes) \in Nat /\ DOMAIN got = DOMAIN nodes
  BY <1>1
<1>4. got \in [1 .. Len(nodes) -> N]
  BY <1>2, <1>3
<1> HIDE DEF got
<1>5. got \in Seq(N)
  BY <1>3, <1>4
<1>6. QED
  BY <1>2, <1>5 DEF got, N

LEMMA ReceivedIs ==
  ASSUME NEW json, segment_from_json(json) # Null
  PROVE  LET seg == segment_from_json(json)
             L == Layout[json.type]
         IN /\ Has(json, "type") /\ json.type \in DOMAIN Layout /\ seg.type = json.type
            /\ HasAll(json, L.needs)
            /\ DOMAIN seg = {"type"} \cup L.needs \cup L.may /\ seg = [k \in DOMAIN seg |-> seg[k]]
            /\ \A k \in DOMAIN seg \ {"nodeList"} : seg[k] = optional_from_json(json, k)
            /\ "nodeList" \in DOMAIN seg =>
                 seg["nodeList"] =
                   [i \in DOMAIN json["nodeList"] |-> forwarded_from_json(json["nodeList"][i])]
            /\ json.type = "Forward" => \A i \in DOMAIN json["nodeList"] :
                 forwarded_from_json(json["nodeList"][i]) # Null
<1> DEFINE nodes == [i \in DOMAIN json["nodeList"] |-> forwarded_from_json(json["nodeList"][i])]
           L == Layout[json.type]
           K == {"type"} \cup L.needs \cup L.may
           seg == segment_from_json(json)
<1>1. /\ Has(json, "type") /\ json.type \in DOMAIN Layout /\ HasAll(json, L.needs)
      /\ ~ (json.type = "Forward" /\ Null \in ToSet(nodes))
      /\ seg = [k \in K |-> IF k = "nodeList" THEN nodes ELSE optional_from_json(json, k)]
  BY Zenon DEF segment_from_json
<1>2. optional_from_json(json, "type") = json.type
  BY <1>1 DEF optional_from_json
<1>3. ASSUME json.type = "Forward", NEW i \in DOMAIN json["nodeList"]
      PROVE  forwarded_from_json(json["nodeList"][i]) # Null
  BY <1>1, <1>3 DEF ToSet
<1> HIDE DEF nodes, L, seg
<1>4. /\ DOMAIN seg = K /\ seg.type = json.type /\ seg = [k \in DOMAIN seg |-> seg[k]]
      /\ \A k \in K \ {"nodeList"} : seg[k] = optional_from_json(json, k)
      /\ "nodeList" \in K => seg["nodeList"] = nodes
  BY <1>1, <1>2
<1>5. QED
  BY <1>1, <1>3, <1>4, Zenon DEF L, seg, nodes

LEMMA LayoutNodeList ==
  ASSUME NEW type \in DOMAIN Layout
  PROVE  /\ "nodeList" \in Layout[type].needs \cup Layout[type].may <=> type = "Forward"
         /\ "nodeList" \notin Layout[type].may
         /\ "type" \notin Layout[type].needs \cup Layout[type].may
<1>0. type \in {"At", "AtAll", "Face", "Forward"} \cup Media \cup TextTypes
  BY LayoutTypes
<1>1. CASE type = "Forward"
  <2> DEFINE w == <<"title", "brief", "source", "summary", "nodeList">>
  <2>1. w[5] = "nodeList" /\ 5 \in DOMAIN w /\ "type" \notin ToSet(w)
    BY DEF ToSet
  <2>2. Layout[type].needs = ToSet(w) /\ Layout[type].may = {}
    BY <1>1, LayoutForward
  <2> HIDE DEF w
  <2>3. QED
    BY <1>1, <2>1, <2>2 DEF ToSet
<1>2. CASE type \in {"At", "AtAll", "Face"}
  BY <1>2, LayoutAt, LayoutFace
<1>3. CASE type \in TextTypes
  BY <1>3, LayoutText DEF TextTypes
<1>4. CASE type \in Media
  BY <1>4, LayoutMedia DEF Media, Layout, Keys, Medium, Image, FlashImage, Voice
<1>5. QED
  BY <1>0, <1>1, <1>2, <1>3, <1>4

LEMMA ReceivedTyped ==
  ASSUME NEW Char, NEW Inner, NEW Chains, ReceivedInner(Chains, Inner),
         NEW json, WellTyped(json, Char, Chains), segment_from_json(json) # Null
  PROVE  segment_from_json(json) \in Segments(Char, Inner)
<1> DEFINE seg == segment_from_json(json)
           L == Layout[json.type]
           nodes == json["nodeList"]
           got == [i \in DOMAIN nodes |-> forwarded_from_json(nodes[i])]
<1>1. /\ Has(json, "type") /\ json.type \in DOMAIN Layout /\ seg.type = json.type
      /\ HasAll(json, L.needs)
      /\ DOMAIN seg = {"type"} \cup L.needs \cup L.may /\ seg = [k \in DOMAIN seg |-> seg[k]]
      /\ \A k \in DOMAIN seg \ {"nodeList"} : seg[k] = optional_from_json(json, k)
      /\ "nodeList" \in DOMAIN seg => seg["nodeList"] = got
      /\ json.type = "Forward" => \A i \in DOMAIN nodes : forwarded_from_json(nodes[i]) # Null
  BY ReceivedIs
<1> HIDE DEF seg
<1>2. \A k \in L.needs \cup L.may : Has(json, k) => WellTypedMember(k, json[k], Char, Chains)
  BY <1>1 DEF WellTyped
<1>3. /\ "nodeList" \in L.needs \cup L.may <=> json.type = "Forward"
      /\ "nodeList" \notin L.may /\ "type" \notin L.needs \cup L.may
  BY <1>1, LayoutNodeList
<1> HIDE DEF L
<1>4. ASSUME NEW k \in L.needs \cup L.may, k # "nodeList", seg[k] # Null \/ k \in L.needs
      PROVE  TypedMember(k, seg[k], Char, Inner)
  <2>1. Has(json, k) /\ seg[k] = json[k]
    BY <1>1, <1>4 DEF optional_from_json, HasAll
  <2>2. WellTypedMember(k, json[k], Char, Chains)
    BY <1>2, <2>1
  <2>3. QED
    BY <1>4, <2>1, <2>2 DEF WellTypedMember, TypedMember
<1>5. ASSUME "nodeList" \in L.needs PROVE TypedMember("nodeList", seg["nodeList"], Char, Inner)
  <2>1. Has(json, "nodeList") /\ json.type = "Forward"
    BY <1>1, <1>3, <1>5 DEF HasAll
  <2>2. WellTypedMember("nodeList", nodes, Char, Chains)
    BY <1>2, <1>5, <2>1
  <2>3. \A i \in DOMAIN nodes : forwarded_from_json(nodes[i]) # Null
    BY <1>1, <2>1
  <2> HIDE DEF nodes
  <2>4. got \in Seq(Node(Char, Inner))
    BY <2>2, <2>3, ReceivedNodes, Zenon
  <2>5. seg["nodeList"] = got
    BY <1>1, <1>5
  <2>6. QED
    BY <2>4, <2>5, Zenon DEF TypedMember
<1>6. TypedSegment(seg, Char, Inner)
  <2>1. \A k \in L.needs : TypedMember(k, seg[k], Char, Inner)
    BY <1>4, <1>5
  <2>2. \A k \in L.may : seg[k] # Null => TypedMember(k, seg[k], Char, Inner)
    BY <1>3, <1>4
  <2>3. QED
    BY <1>1, <2>1, <2>2, Zenon DEF TypedSegment, L
<1>7. seg \in Segments(Char, Inner)
  BY <1>1, <1>6, TypedIsSegment
<1>8. QED
  BY <1>7 DEF seg

\* A segment of any type that from_json takes is one of the library's, and
\* shows what its JSON shows: the keys that identify it are read, of a medium
\* the same first one.
THEOREM ReceivedReads ==
  ASSUME NEW Char, NEW Inner, NEW Chains, ReceivedInner(Chains, Inner),
         NEW json, WellTyped(json, Char, Chains), segment_from_json(json) # Null
  PROVE  /\ segment_from_json(json) \in Segments(Char, Inner)
         /\ SegmentReading(segment_from_json(json)) = SegmentReading(json)
<1> DEFINE seg == segment_from_json(json)
           L == Layout[json.type]
           nodes == json["nodeList"]
           got == [i \in DOMAIN nodes |-> forwarded_from_json(nodes[i])]
           ks == Identified(json)
<1>1. /\ Has(json, "type") /\ seg.type = json.type /\ HasAll(json, L.needs)
      /\ json.type \in DOMAIN Layout
      /\ DOMAIN seg = {"type"} \cup L.needs \cup L.may
      /\ \A k \in DOMAIN seg \ {"nodeList"} : seg[k] = optional_from_json(json, k)
      /\ "nodeList" \in DOMAIN seg => seg["nodeList"] = got
      /\ json.type = "Forward" => \A i \in DOMAIN nodes : forwarded_from_json(nodes[i]) # Null
  BY ReceivedIs
<1>0. seg \in Segments(Char, Inner)
  BY ReceivedTyped
<1> HIDE DEF seg
<1>2. ASSUME NEW k \in DOMAIN seg \ {"nodeList"}
      PROVE  /\ Has(seg, k) <=> Has(json, k)
             /\ optional_from_json(seg, k) = optional_from_json(json, k)
             /\ Has(json, k) => seg[k] = json[k]
  BY <1>1, <1>2 DEF Has, optional_from_json
<1>3. ASSUME NEW k \in L.needs \cup L.may, k \in L.needs \/ k \in Unquoted \/ Has(json, k)
      PROVE  KeyReading(seg, k) = KeyReading(json, k)
  <2>1. CASE k = "nodeList"
    <3>1. json.type = "Forward" /\ k \in L.needs /\ k \in DOMAIN seg
      BY <1>1, <2>1, LayoutNodeList
    <3>2. WellTypedMember("nodeList", nodes, Char, Chains)
      BY <1>1, <2>1, <3>1 DEF WellTyped, HasAll
    <3>3. \A i \in DOMAIN nodes : forwarded_from_json(nodes[i]) # Null
      BY <1>1, <3>1
    <3>4. seg[k] = got /\ json[k] = nodes
      BY <1>1, <2>1, <3>1
    <3> HIDE DEF nodes
    <3>5. \A i \in DOMAIN nodes : NodeReading(forwarded_from_json(nodes[i])) = NodeReading(nodes[i])
      BY <3>2, <3>3, ReceivedNodes
    <3>6. [i \in DOMAIN got |-> NodeReading(got[i])] = [i \in DOMAIN nodes |-> NodeReading(nodes[i])]
      BY <3>5
    <3> HIDE DEF got
    <3>7. QED
      BY <2>1, <3>4, <3>6, Zenon DEF KeyReading
  <2>2. CASE k # "nodeList"
    <3>1. k \in DOMAIN seg \ {"nodeList"}
      BY <1>1, <2>2
    <3>2. CASE k \in Unquoted
      BY <1>2, <2>2, <3>1, <3>2, Zenon DEF KeyReading
    <3>3. CASE k \notin Unquoted
      <4>1. Has(json, k)
        BY <1>1, <1>3, <3>3 DEF HasAll
      <4>2. seg[k] = json[k]
        BY <1>2, <3>1, <4>1
      <4>3. QED
        BY <2>2, <3>3, <4>2, Zenon DEF KeyReading
    <3>4. QED
      BY <3>2, <3>3
  <2>3. QED
    BY <2>1, <2>2
<1>4. CASE json.type = "Plain"
  <2>1. "text" \in L.needs /\ "text" \in DOMAIN seg \ {"nodeList"}
    BY <1>1, <1>4, LayoutPlain
  <2>2. seg.text = json.text
    BY <1>1, <1>2, <2>1 DEF HasAll
  <2>3. SegmentReading(seg) = SegmentReading(json)
    BY <1>1, <1>4, <2>2, Zenon DEF SegmentReading
  <2>4. QED
    BY <1>0, <2>3 DEF seg
<1>5. ASSUME json.type # "Plain", Identified(seg) = ks,
             \A i \in DOMAIN ks : /\ ks[i] \in L.needs \cup L.may
                                  /\ ks[i] \in L.needs \/ ks[i] \in Unquoted \/ Has(json, ks[i])
      PROVE  SegmentReading(seg) = SegmentReading(json)
  <2> DEFINE parts(x) == [i \in DOMAIN ks |-> <<<<"key", ks[i]>>>> \o KeyReading(x, ks[i])]
  <2>1. SegmentReading(json) = <<<<"segment", json.type>>>> \o Joined(parts(json))
    BY <1>5, Zenon DEF SegmentReading
  <2>2. SegmentReading(seg) = <<<<"segment", json.type>>>> \o Joined(parts(seg))
    BY <1>1, <1>5, Zenon DEF SegmentReading
  <2> HIDE DEF ks
  <2>3. parts(seg) = parts(json)
    BY <1>3, <1>5
  <2>4. QED
    BY <2>1, <2>2, <2>3, Zenon
<1>6. DOMAIN AllOf = {"At", "AtAll", "Face", "Forward"} \cup (TextTypes \ {"Plain"})
  BY DEF AllOf, TextTypes
<1>7. CASE json.type \in DOMAIN AllOf
  <2>1. Identified(seg) = AllOf[json.type] /\ ks = AllOf[json.type]
    BY <1>1, <1>7 DEF Identified
  <2>2. \A i \in DOMAIN AllOf[json.type] :
          /\ AllOf[json.type][i] \in L.needs \cup L.may
          /\ AllOf[json.type][i] \in L.needs \/ AllOf[json.type][i] \in Unquoted
    <3>1. CASE json.type \in {"At", "AtAll"}
      BY <3>1, LayoutAt DEF AllOf
    <3>2. CASE json.type = "Forward"
      BY <3>2, LayoutForward DEF AllOf, ToSet
    <3>3. CASE json.type = "Face"
      BY <3>3, LayoutFace DEF AllOf, Unquoted
    <3>4. CASE json.type \in TextTypes \ {"Plain"}
      BY <3>4, LayoutText
    <3>5. QED
      BY <1>6, <1>7, <3>1, <3>2, <3>3, <3>4
  <2>3. json.type # "Plain"
    BY <1>6, <1>7 DEF TextTypes
  <2> HIDE DEF ks, L
  <2>4. \A i \in DOMAIN ks : /\ ks[i] \in L.needs \cup L.may
                             /\ ks[i] \in L.needs \/ ks[i] \in Unquoted \/ Has(json, ks[i])
    BY <2>1, <2>2, Zenon
  <2>5. QED
    BY <1>0, <1>5, <2>1, <2>3, <2>4 DEF seg
<1>8. CASE json.type \in Media
  <2> DEFINE w == FirstOf[json.type]
             has(x) == {i \in DOMAIN w : Has(x, w[i])}
  <2>1. json.type \notin DOMAIN AllOf /\ json.type # "Plain"
    BY <1>6, <1>8 DEF Media, TextTypes
  <2>2. DOMAIN w \in SUBSET Nat /\ \A i \in DOMAIN w : w[i] \in L.needs \cup L.may /\ w[i] # "nodeList"
    <3>1. PICK id \in {"imageId", "voiceId"} :
            L.may = {id, "url", "path"} /\ FirstOf[json.type] = <<id, "url", "path">>
      BY <1>8, LayoutMedia
    <3>2. QED
      BY <3>1
  <2>3. \A x : x.type = json.type =>
          Identified(x) = IF has(x) = {} THEN <<>> ELSE <<w[Min(has(x))]>>
    BY <2>1, Zenon DEF Identified
  <2> HIDE DEF w, L
  <2>4. \A i \in DOMAIN w : w[i] \in DOMAIN seg \ {"nodeList"}
    BY <1>1, <2>2
  <2>5. has(seg) = has(json)
    BY <1>2, <2>4
  <2> DEFINE there == has(json)
             key == w[Min(there)]
  <2>6. Identified(seg) = ks /\ ks = IF there = {} THEN <<>> ELSE <<key>>
    BY <1>1, <2>3, <2>5, Zenon
  <2>7. ASSUME there # {} PROVE key \in L.needs \cup L.may /\ Has(json, key)
    <3>1. there \in SUBSET Nat
      BY <2>2
    <3>2. \E x \in there : \A y \in there : x =< y
      BY <2>7, <3>1, ReadLoop!Least
    <3>3. Min(there) \in there
      BY <3>2, Zenon DEF Min
    <3>4. QED
      BY <2>2, <3>3
  <2> HIDE DEF there, key, ks
  <2>8. \A i \in DOMAIN ks : ks[i] \in L.needs \cup L.may /\ Has(json, ks[i])
    BY <2>6, <2>7
  <2>9. QED
    BY <1>0, <1>5, <2>1, <2>6, <2>8 DEF seg
<1>9. QED
  BY <1>1, <1>4, <1>6, <1>7, <1>8, LayoutTypes DEF TextTypes

-----------------------------------------------------------------------------
(***************************************************************************)
(* What messages show that are put together, collapsed and received.       *)
(***************************************************************************)
LEMMA ReadingEmpty == Reading(<<>>) = <<>>
<1> DEFINE segs == [i \in DOMAIN <<>> |-> SegmentReading(<<>>[i])]
<1>1. segs = <<>>
  OBVIOUS
<1>2. Reading(<<>>) = Joined(segs)
  BY Zenon DEF Reading
<1> HIDE DEF segs
<1>3. QED
  BY <1>1, <1>2, JoinedEmpty

LEMMA ReadingAppend ==
  ASSUME NEW S, NEW msg \in Seq(S), NEW seg \in S
  PROVE  Reading(Append(msg, seg)) = Reading(msg) \o SegmentReading(seg)
<1> DEFINE P == {SegmentReading(s) : s \in S}
           all == Append(msg, seg)
           said(m) == [i \in DOMAIN m |-> SegmentReading(m[i])]
           part == SegmentReading(seg)
<1>1. /\ Len(msg) \in Nat /\ DOMAIN msg = 1 .. Len(msg) /\ \A i \in 1 .. Len(msg) : msg[i] \in S
      /\ DOMAIN all = 1 .. Len(msg) + 1 /\ all[Len(msg) + 1] = seg
      /\ \A i \in 1 .. Len(msg) : all[i] = msg[i]
  OBVIOUS
<1>2. part \in P /\ \A i \in 1 .. Len(msg) : SegmentReading(msg[i]) \in P
  BY <1>1
<1> HIDE DEF all, P, part
<1>3. /\ said(msg) \in [1 .. Len(msg) -> P]
      /\ \A i \in 1 .. Len(msg) : said(msg)[i] = SegmentReading(msg[i])
  BY <1>1, <1>2
<1> DEFINE a == said(msg)
           b == said(all)
<1>4. /\ DOMAIN b = 1 .. Len(msg) + 1 /\ b = [i \in 1 .. Len(msg) + 1 |-> b[i]]
      /\ b[Len(msg) + 1] = part
      /\ \A i \in 1 .. Len(msg) : b[i] = SegmentReading(msg[i])
  BY <1>1 DEF part
<1> HIDE DEF a, b, said
<1>5. a \in Seq(P) /\ Len(a) = Len(msg) /\ \A i \in 1 .. Len(msg) : a[i] = SegmentReading(msg[i])
  BY <1>1, <1>3 DEF a
<1>6. Append(a, part) = b
  <2>1. /\ Append(a, part) \in Seq(P) /\ Len(Append(a, part)) = Len(msg) + 1
        /\ Append(a, part)[Len(msg) + 1] = part
        /\ \A i \in 1 .. Len(msg) : Append(a, part)[i] = a[i]
    BY <1>2, <1>5, AppendProperties
  <2>2. ASSUME NEW i \in 1 .. Len(msg) + 1 PROVE b[i] \in P /\ Append(a, part)[i] = b[i]
    <3>1. CASE i \in 1 .. Len(msg)
      BY <1>2, <1>4, <1>5, <2>1, <3>1
    <3>2. CASE i = Len(msg) + 1
      BY <1>2, <1>4, <2>1, <3>2
    <3>3. i \in 1 .. Len(msg) \/ i = Len(msg) + 1
      <4>1. Len(msg) \in Nat
        OBVIOUS
      <4>2. QED
        BY ONLY <4>1, i \in 1 .. Len(msg) + 1
    <3>4. QED
      BY <3>1, <3>2, <3>3
  <2>3. b \in Seq(P) /\ Len(b) = Len(msg) + 1
    BY <1>1, <1>4, <2>2
  <2>4. QED
    BY <2>1, <2>2, <2>3, SeqEqual
<1>7. Joined(Append(a, part)) = Joined(a) \o part
  BY <1>2, <1>5, JoinedAppend
<1>8. \A m : Reading(m) = Joined(said(m))
  BY Zenon DEF Reading, said
<1>9. QED
  BY <1>6, <1>7, <1>8, Zenon DEF a, b, all, part

LEMMA SegmentShown ==
  ASSUME NEW Char, NEW Inner, Specials \subseteq Char, Null \notin Seq(Char),
         \A m \in Inner : Survives(m, Char), NEW seg \in Segments(Char, Inner)
  PROVE  SegmentReading(seg) \in Seq(Shown(Char))
BY SegmentsTyped, WireReading

LEMMA ReadingConcat ==
  ASSUME NEW Char, NEW Inner, Specials \subseteq Char, Null \notin Seq(Char),
         \A m \in Inner : Survives(m, Char),
         NEW s \in Seq(Segments(Char, Inner)), NEW t \in Seq(Segments(Char, Inner))
  PROVE  Reading(s \o t) = Reading(s) \o Reading(t)
<1> DEFINE S == Segments(Char, Inner)
           G == {u \in Seq(S) : Reading(s \o u) = Reading(s) \o Reading(u)}
           V == Shown(Char)
<1>0. /\ s \in Seq(S) /\ t \in Seq(S) /\ \A u \in Seq(S) : Reading(u) \in Seq(V)
      /\ \A x \in S : SegmentReading(x) \in Seq(V)
  BY SentUnderstood, SegmentShown
<1> HIDE DEF S, V
<1>1. <<>> \in G
  <2>1. s \o <<>> = s /\ Reading(s) \o <<>> = Reading(s) /\ <<>> \in Seq(S)
    BY <1>0
  <2>2. QED
    BY <2>1, ReadingEmpty, Zenon
<1>2. ASSUME NEW u \in G, NEW x \in S PROVE Append(u, x) \in G
  <2>1. u \in Seq(S) /\ Append(u, x) \in Seq(S) /\ Reading(s \o u) = Reading(s) \o Reading(u)
    OBVIOUS
  <2>2. s \o Append(u, x) = Append(s \o u, x) /\ s \o u \in Seq(S)
    BY <1>0, <2>1
  <2>3. Reading(Append(s \o u, x)) = Reading(s \o u) \o SegmentReading(x)
    BY <2>2, ReadingAppend
  <2>4. Reading(Append(u, x)) = Reading(u) \o SegmentReading(x)
    BY <2>1, ReadingAppend
  <2>5. (Reading(s) \o Reading(u)) \o SegmentReading(x) = Reading(s) \o (Reading(u) \o SegmentReading(x))
    BY <1>0, <2>1, ConcatAssociative
  <2>6. QED
    BY <2>1, <2>2, <2>3, <2>4, <2>5, Zenon
<1>3. G \in SUBSET Seq(S)
  OBVIOUS
<1> HIDE DEF G
<1>4. G = Seq(S)
  BY <1>1, <1>2, <1>3, JoinLoop!SequenceInduction
<1>5. QED
  BY <1>0, <1>4 DEF G

LEMMA ReadingPlain ==
  ASSUME NEW Char, NEW seg \in PlainOf(Char)
  PROVE  SegmentReading(seg) = Spell(seg.text) /\ seg.text \in Seq(Char)
<1>1. seg.type = "Plain" /\ seg.text \in Seq(Char)
  BY DEF PlainOf
<1>2. QED
  BY <1>1, Zenon DEF SegmentReading

LEMMA ReadingMerge ==
  ASSUME NEW Char, NEW Inner, Specials \subseteq Char, Null \notin Seq(Char),
         \A m \in Inner : Survives(m, Char),
         NEW msg \in Seq(Segments(Char, Inner)), NEW seg \in Segments(Char, Inner)
  PROVE  Reading(Merge(msg, seg)) = Reading(msg) \o SegmentReading(seg)
<1> DEFINE S == Segments(Char, Inner)
           O == Others(Char, Inner)
           V == Shown(Char)
<1>0. /\ S = PlainOf(Char) \cup O /\ msg \in Seq(S) /\ seg \in S
      /\ \A o \in O : ~ is_plain(o)
      /\ \A u \in Seq(S) : Reading(u) \in Seq(V)
  BY SentUnderstood DEF Segments, Others
<1> HIDE DEF S, O
<1>1. CASE is_plain(seg) /\ msg # <<>> /\ is_plain(Last(msg))
  <2>1. PICK text \in Seq(Char) :
          /\ text = Last(msg).text \o seg.text
          /\ Merge(msg, seg) = [msg EXCEPT ![Len(msg)] = [type |-> "Plain", text |-> text]]
    BY <1>0, <1>1, MergeIs
  <2>2. PICK front \in Seq(S), last \in S : msg = Append(front, last)
    BY <1>0, <1>1, SequenceEmptyOrAppend
  <2> DEFINE new == [type |-> "Plain", text |-> text]
  <2>3. new \in PlainOf(Char) /\ new \in S /\ new.text = text
    BY <1>0 DEF PlainOf
  <2>4. Last(msg) = last
    BY <2>2 DEF Last
  <2>5. last \in PlainOf(Char) /\ seg \in PlainOf(Char)
    BY <1>0, <1>1, <2>4
  <2> HIDE DEF new
  <2>6. Merge(msg, seg) = Append(front, new)
    <3>1. [Append(front, last) EXCEPT ![Len(Append(front, last))] = new] = Append(front, new)
      BY <2>3, LastReplaced
    <3>2. QED
      BY <2>1, <2>2, <3>1, Zenon DEF new
  <2> DEFINE p == last.text
             q == seg.text
  <2>7. /\ SegmentReading(new) = Spell(text) /\ SegmentReading(last) = Spell(p)
        /\ SegmentReading(seg) = Spell(q) /\ p \in Seq(Char) /\ q \in Seq(Char)
        /\ text = p \o q
    BY <2>1, <2>3, <2>4, <2>5, ReadingPlain
  <2> HIDE DEF p, q
  <2>8. Spell(text) = Spell(p) \o Spell(q)
    BY <2>7, SpellConcat
  <2> DEFINE r == Reading(front)
             x == Spell(p)
             y == Spell(q)
  <2>9. Reading(Merge(msg, seg)) = r \o Spell(text) /\ Reading(msg) = r \o x
    BY <2>2, <2>3, <2>6, <2>7, ReadingAppend
  <2>10. r \in Seq(V) /\ x \in Seq(V) /\ y \in Seq(V)
    BY <1>0, <2>7, ShownParts
  <2> HIDE DEF V, r, x, y
  <2>11. (r \o x) \o y = r \o (x \o y)
    BY <2>10, ConcatAssociative
  <2>12. QED
    BY <2>7, <2>8, <2>9, <2>11 DEF x, y
<1>2. CASE ~ (is_plain(seg) /\ msg # <<>> /\ is_plain(Last(msg)))
  <2>1. Merge(msg, seg) = Append(msg, seg)
    BY <1>2 DEF Merge
  <2>2. QED
    BY <1>0, <2>1, ReadingAppend
<1>3. QED
  BY <1>1, <1>2

LEMMA ReadingCollapse ==
  ASSUME NEW Char, NEW Inner, Specials \subseteq Char, Null \notin Seq(Char),
         \A m \in Inner : Survives(m, Char), NEW msg \in Seq(Segments(Char, Inner))
  PROVE  /\ collapse_adjacent_text(msg) \in Seq(Segments(Char, Inner))
         /\ Reading(collapse_adjacent_text(msg)) = Reading(msg)
<1> DEFINE S == Segments(Char, Inner)
           OK(m) == Reading(collapse_adjacent_text(m)) = Reading(m)
           G == {m \in Seq(S) : OK(m)}
<1>0. \A m \in Seq(S) : collapse_adjacent_text(m) \in Seq(S)
  <2> DEFINE O == Others(Char, Inner)
  <2>1. S = PlainOf(Char) \cup O /\ \A o \in O : ~ is_plain(o)
    BY DEF Segments, Others
  <2> HIDE DEF S, O
  <2>2. QED
    BY <2>1, CollapseCorrect
<1>1. <<>> \in G
  <2>1. <<>> \in Seq(S)
    BY EmptySeq
  <2>2. QED
    BY <2>1, CollapseEmpty, Zenon
<1>2. ASSUME NEW m \in G, NEW seg \in S PROVE Append(m, seg) \in G
  <2> DEFINE c == collapse_adjacent_text(m)
  <2>1. m \in Seq(S) /\ c \in Seq(S) /\ Reading(c) = Reading(m) /\ Append(m, seg) \in Seq(S)
    BY <1>0
  <2> HIDE DEF c
  <2>2. Reading(Merge(c, seg)) = Reading(c) \o SegmentReading(seg)
    <3>1. c \in Seq(Segments(Char, Inner)) /\ seg \in Segments(Char, Inner)
      BY <2>1
    <3> HIDE DEF S, G
    <3>2. QED
      BY <3>1, ReadingMerge
  <2> HIDE DEF S
  <2>3. collapse_adjacent_text(Append(m, seg)) = Merge(c, seg)
    BY <2>1, CollapseAppend DEF c
  <2>4. Reading(Append(m, seg)) = Reading(m) \o SegmentReading(seg)
    BY <2>1, ReadingAppend
  <2>5. QED
    BY <2>1, <2>2, <2>3, <2>4
<1> HIDE DEF S, OK
<1>3. G \in SUBSET Seq(S)
  OBVIOUS
<1> HIDE DEF G
<1>4. G = Seq(S)
  BY <1>1, <1>2, <1>3, JoinLoop!SequenceInduction
<1>5. QED
  BY <1>0, <1>4 DEF G, S, OK

LEMMA MessageReads ==
  ASSUME NEW Char, NEW Inner, NEW Chains, Specials \subseteq Char, Null \notin Seq(Char),
         \A m \in Inner : Survives(m, Char), ReceivedInner(Chains, Inner),
         NEW chain, IsChain(chain, Char, Chains), message_from_json(chain) # Null
  PROVE  /\ message_from_json(chain) \in Seq(Segments(Char, Inner))
         /\ Reading(message_from_json(chain)) = Reading(chain)
<1> DEFINE segs == [i \in DOMAIN chain |-> segment_from_json(chain[i])]
           S == Segments(Char, Inner)
           T == ToSet(chain)
<1>1. Null \notin ToSet(segs) /\ message_from_json(chain) = collapse_adjacent_text(segs)
  BY Zenon DEF message_from_json
<1>2. chain \in Seq(T) /\ \A i \in DOMAIN chain : WellTyped(chain[i], Char, Chains)
  BY DEF IsChain
<1>3. ASSUME NEW i \in DOMAIN chain
      PROVE  /\ segment_from_json(chain[i]) \in S
             /\ SegmentReading(segment_from_json(chain[i])) = SegmentReading(chain[i])
  <2>1. segment_from_json(chain[i]) # Null
    BY <1>1 DEF ToSet
  <2>2. QED
    BY <1>2, <2>1, ReceivedReads
<1> HIDE DEF T, S
<1>4. Len(chain) \in Nat /\ DOMAIN chain = 1 .. Len(chain)
  BY <1>2
<1>5. segs \in [1 .. Len(chain) -> S] /\ DOMAIN segs = DOMAIN chain
  BY <1>3, <1>4
<1>6. [i \in DOMAIN segs |-> SegmentReading(segs[i])] = [i \in DOMAIN chain |-> SegmentReading(chain[i])]
  BY <1>3
<1> HIDE DEF segs
<1>7. segs \in Seq(S)
  BY <1>4, <1>5
<1>8. Reading(segs) = Reading(chain)
  BY <1>6, Zenon DEF Reading
<1>9. collapse_adjacent_text(segs) \in Seq(S) /\ Reading(collapse_adjacent_text(segs)) = Reading(segs)
  BY <1>7, ReadingCollapse DEF S
<1>10. QED
  BY <1>1, <1>8, <1>9 DEF S
=============================================================================
