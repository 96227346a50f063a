----------------------------- MODULE LoopProofs -----------------------------
(***************************************************************************)
(* What a loop computes.  Induction is on sets: a set of sequences that    *)
(* has the empty one and is closed under Append has them all.              *)
(***************************************************************************)
EXTENDS Loop, SequenceTheorems, WellFoundedInduction, NaturalsInduction, TLAPS

Below == {ss \in Nat \X Nat : ss[1] < ss[2]}

LEMMA BelowWellFounded == IsWellFoundedOn(Below, Nat)
BY NatLessThanWellFounded, Zenon DEF OpToRel, Below

LEMMA BelowIs == \A x, y \in Nat : <<x, y>> \in Below <=> x < y
BY DEF Below

LEMMA Least ==
  ASSUME NEW T \in SUBSET Nat, T # {}
  PROVE  \E x \in T : \A y \in T : x <= y
<1>1. PICK x \in T : \A y \in T : <<y, x>> \notin Below
  BY WFMin, BelowWellFounded
<1>2. ASSUME NEW y \in T PROVE x <= y
  <2>1. x \in Nat /\ y \in Nat
    OBVIOUS
  <2>2. ~ (y < x)
    BY <1>1, <2>1, BelowIs
  <2>3. QED
    BY <2>1, <2>2
<1>3. QED
  BY <1>2

LEMMA Induction ==
  ASSUME NEW T \in SUBSET Nat, 0 \in T, \A n \in T : n + 1 \in T
  PROVE  T = Nat
<1>1. SUFFICES ASSUME Nat \ T # {} PROVE FALSE
  OBVIOUS
<1>2. PICK x \in Nat \ T : \A y \in Nat \ T : x <= y
  <2>1. Nat \ T \in SUBSET Nat
    OBVIOUS
  <2>2. QED
    BY ONLY <1>1, <2>1, Least
<1>3. x - 1 \in Nat /\ x - 1 \notin Nat \ T
  BY <1>2
<1>4. QED
  BY <1>2, <1>3

LEMMA SequenceInduction ==
  ASSUME NEW S, NEW G \in SUBSET Seq(S),
         <<>> \in G, \A s \in G : \A x \in S : Append(s, x) \in G
  PROVE  G = Seq(S)
<1> DEFINE T == {n \in Nat : \A s \in Seq(S) : Len(s) = n => s \in G}
<1>1. 0 \in T
  <2>1. ASSUME NEW s \in Seq(S), Len(s) = 0 PROVE s = <<>>
    BY <2>1, EmptySeq
  <2>2. QED
    BY <2>1
<1>2. ASSUME NEW n \in T PROVE n + 1 \in T
  <2>1. ASSUME NEW s \in Seq(S), Len(s) = n + 1 PROVE s \in G
    <3>1. s # <<>>
      BY <2>1
    <3>2. PICK t \in Seq(S), x \in S : s = Append(t, x)
      BY <3>1, SequenceEmptyOrAppend
    <3>3. Len(t) = n
      BY <2>1, <3>2
    <3>4. t \in G
      BY <3>3
    <3>5. QED
      BY <3>2, <3>4
  <2>2. QED
    BY <2>1
<1> HIDE DEF T
<1>3. T = Nat
  <2>1. T \in SUBSET Nat
    BY DEF T
  <2>2. QED
    BY <1>1, <1>2, <2>1, Induction
<1>4. ASSUME NEW s \in Seq(S) PROVE s \in G
  <2>1. Len(s) \in T
    BY <1>3
  <2>2. QED
    BY <2>1 DEF T
<1>5. QED
  BY <1>4

-----------------------------------------------------------------------------
IsAfter(f, s, k) ==
  f = [i \in 0 .. k |-> IF i = 0 THEN Start ELSE Body(f[i - 1], s[i])]

LEMMA AfterExtends ==
  ASSUME NEW s, NEW k \in Nat, NEW f, IsAfter(f, s, k)
  PROVE  \E g : IsAfter(g, s, k + 1)
<1> DEFINE g == [i \in 0 .. (k + 1) |-> IF i <= k THEN f[i] ELSE Body(f[k], s[k + 1])]
<1>1. \A i \in 0 .. k : f[i] = IF i = 0 THEN Start ELSE Body(f[i - 1], s[i])
  BY DEF IsAfter
<1>2. ASSUME NEW i \in 0 .. (k + 1) PROVE g[i] = IF i = 0 THEN Start ELSE Body(g[i - 1], s[i])
  <2>1. CASE i <= k
    BY <1>1, <2>1
  <2>2. CASE i = k + 1
    BY <2>2
  <2>3. QED BY <2>1, <2>2
<1> HIDE DEF g
<1>3. g = [i \in 0 .. (k + 1) |-> g[i]]
  BY DEF g
<1>4. g = [i \in 0 .. (k + 1) |-> IF i = 0 THEN Start ELSE Body(g[i - 1], s[i])]
  BY <1>2, <1>3
<1>5. QED
  BY <1>4 DEF IsAfter

LEMMA AfterExists ==
  ASSUME NEW s, NEW n \in Nat
  PROVE  \E f : IsAfter(f, s, n)
<1> DEFINE T == {k \in Nat : \E f : IsAfter(f, s, k)}
<1>1. 0 \in T
  <2>1. IsAfter([i \in 0 .. 0 |-> Start], s, 0)
    BY DEF IsAfter
  <2>2. QED
    BY <2>1
<1>2. ASSUME NEW k \in T PROVE k + 1 \in T
  BY AfterExtends
<1> HIDE DEF T
<1>3. T = Nat
  <2>1. T \in SUBSET Nat
    BY DEF T
  <2>2. QED
    BY <1>1, <1>2, <2>1, Induction
<1>4. QED
  BY <1>3 DEF T

LEMMA RunIs ==
  ASSUME NEW s, Len(s) \in Nat
  PROVE  \E f : IsAfter(f, s, Len(s)) /\ Run(s) = f[Len(s)]
<1> DEFINE f == CHOOSE g : IsAfter(g, s, Len(s))
<1>1. \E g : IsAfter(g, s, Len(s))
  BY AfterExists
<1>2. IsAfter(f, s, Len(s))
  BY <1>1, Zenon
<1>3. Run(s) = f[Len(s)]
  BY Zenon DEF Run, IsAfter
<1>4. QED
  BY <1>2, <1>3

LEMMA AfterUnique ==
  ASSUME NEW S, NEW s \in Seq(S), NEW x \in S, NEW f, NEW g,
         IsAfter(f, s, Len(s)), IsAfter(g, Append(s, x), Len(s) + 1)
  PROVE  f[Len(s)] = g[Len(s)]
<1> DEFINE T == {k \in Nat : k <= Len(s) => f[k] = g[k]}
<1>0. Len(s) \in Nat /\ \A i \in 1 .. Len(s) : Append(s, x)[i] = s[i]
  OBVIOUS
<1>1. \A i \in 0 .. Len(s) : f[i] = IF i = 0 THEN Start ELSE Body(f[i - 1], s[i])
  BY DEF IsAfter
<1>2. \A i \in 0 .. Len(s) + 1 : g[i] = IF i = 0 THEN Start ELSE Body(g[i - 1], Append(s, x)[i])
  BY DEF IsAfter
<1>3. 0 \in T
  BY <1>0, <1>1, <1>2
<1>4. ASSUME NEW k \in T PROVE k + 1 \in T
  <2>1. CASE k + 1 <= Len(s)
    <3>1. k + 1 \in 0 .. Len(s) /\ k + 1 \in 1 .. Len(s) /\ k + 1 \in 0 .. Len(s) + 1 /\ k + 1 # 0
          /\ (k + 1) - 1 = k /\ k <= Len(s)
      BY <1>0, <2>1
    <3>2. f[k] = g[k]
      BY <3>1
    <3>3. f[k + 1] = Body(f[k], s[k + 1])
      BY <1>1, <3>1
    <3>4. g[k + 1] = Body(g[k], s[k + 1])
      BY <1>0, <1>2, <3>1
    <3>5. QED
      BY <3>2, <3>3, <3>4
  <2>2. QED
    BY <2>1
<1> HIDE DEF T
<1>5. T = Nat
  <2>1. T \in SUBSET Nat
    BY DEF T
  <2>2. QED
    BY <1>3, <1>4, <2>1, Induction
<1>6. QED
  BY <1>0, <1>5 DEF T

\* A loop over nothing leaves the value as it is.
THEOREM RunEmpty == Run(<<>>) = Start
<1>1. Len(<<>>) = 0
  OBVIOUS
<1>2. PICK f : IsAfter(f, <<>>, 0) /\ Run(<<>>) = f[0]
  BY <1>1, RunIs
<1>3. QED
  BY <1>2 DEF IsAfter

\* The last element makes one more turn.
THEOREM RunAppend ==
  ASSUME NEW S, NEW s \in Seq(S), NEW x \in S
  PROVE  Run(Append(s, x)) = Body(Run(s), x)
<1>1. Len(s) \in Nat /\ Len(Append(s, x)) = Len(s) + 1 /\ Append(s, x)[Len(s) + 1] = x
  OBVIOUS
<1>2. PICK f : IsAfter(f, s, Len(s)) /\ Run(s) = f[Len(s)]
  BY <1>1, RunIs
<1>3. PICK g : IsAfter(g, Append(s, x), Len(s) + 1) /\ Run(Append(s, x)) = g[Len(s) + 1]
  <2>1. Len(Append(s, x)) \in Nat
    BY <1>1
  <2>2. \E g : IsAfter(g, Append(s, x), Len(Append(s, x)))
               /\ Run(Append(s, x)) = g[Len(Append(s, x))]
    BY ONLY <2>1, RunIs
  <2>3. QED
    BY <1>1, <2>2
<1>4. f[Len(s)] = g[Len(s)]
  BY <1>2, <1>3, AfterUnique
<1>5. g[Len(s) + 1] = Body(g[Len(s)], Append(s, x)[Len(s) + 1])
  BY <1>1, <1>3 DEF IsAfter
<1>6. QED
  BY <1>1, <1>2, <1>3, <1>4, <1>5
=============================================================================
