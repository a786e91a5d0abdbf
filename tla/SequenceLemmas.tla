--------------------------- MODULE SequenceLemmas ---------------------------
(***************************************************************************)
(* Facts about the sequences that stand for Go channels and slices: what a *)
(* receive and a send leave in a channel, what the rest of a range loop    *)
(* and an append hold, and that neither makes an element occur twice.      *)
(***************************************************************************)
EXTENDS Naturals, Sequences, FiniteSets, Functions, TLAPS

\* What is in a sequence is at its head or in its tail, and stays when another
\* element is appended.
LEMMA TailAndAppend ==
  ASSUME NEW S, NEW q \in Seq(S), NEW x \in S, NEW y \in S,
         NEW i \in 1..Len(q), q[i] = x
  PROVE  /\ x = Head(q) \/ \E j \in 1..Len(Tail(q)) : Tail(q)[j] = x
         /\ \E j \in 1..Len(Append(q, y)) : Append(q, y)[j] = x
<1>1. x = Head(q) \/ \E j \in 1..Len(Tail(q)) : Tail(q)[j] = x
  <2>1. CASE i = 1
    BY <2>1
  <2>2. CASE i # 1
    <3>1. i - 1 \in 1..Len(Tail(q)) /\ Tail(q)[i - 1] = x
      BY <2>2
    <3>2. QED BY <3>1
  <2>3. QED BY <2>1, <2>2
<1>2. i \in 1..Len(Append(q, y)) /\ Append(q, y)[i] = x
  OBVIOUS
<1>3. QED BY <1>1, <1>2

\* The element appended to a sequence is in it.
LEMMA Appended ==
  ASSUME NEW S, NEW q \in Seq(S), NEW y \in S
  PROVE  \E j \in 1..Len(Append(q, y)) : Append(q, y)[j] = y
<1>1. Len(q) + 1 \in 1..Len(Append(q, y)) /\ Append(q, y)[Len(q) + 1] = y
  OBVIOUS
<1>2. QED BY <1>1

\* What is in a sequence that is not empty is its head or in its tail, and
\* nothing else is.
LEMMA HeadOrTail ==
  ASSUME NEW S, NEW q \in Seq(S), q # <<>>, NEW x
  PROVE  (\E i \in 1..Len(q) : q[i] = x) <=>
           (x = Head(q) \/ \E i \in 1..Len(Tail(q)) : Tail(q)[i] = x)
<1>1. ASSUME NEW i \in 1..Len(q), q[i] = x, x # Head(q)
      PROVE  i - 1 \in 1..Len(Tail(q)) /\ Tail(q)[i - 1] = x
  BY <1>1
<1>2. ASSUME NEW i \in 1..Len(Tail(q)), Tail(q)[i] = x
      PROVE  i + 1 \in 1..Len(q) /\ q[i + 1] = x
  BY <1>2
<1>3. 1 \in 1..Len(q) /\ q[1] = Head(q)
  OBVIOUS
<1>4. QED BY <1>1, <1>2, <1>3

\* What is in a sequence is its head or in its tail.
LEMMA RangeOfTail ==
  ASSUME NEW S, NEW q \in Seq(S), q # <<>>
  PROVE  /\ Head(q) \in S /\ Tail(q) \in Seq(S)
         /\ Head(q) \in Range(q)
         /\ Range(q) = {Head(q)} \cup Range(Tail(q))
<1>1. Head(q) \in S /\ Tail(q) \in Seq(S) /\ Head(q) = q[1] /\ 1 \in DOMAIN q
  OBVIOUS
<1>2. ASSUME NEW x \in Range(q)  PROVE x \in {Head(q)} \cup Range(Tail(q))
  <2>1. PICK i \in 1..Len(q) : x = q[i]
    BY DEF Range
  <2>2. CASE i = 1
    BY <1>1, <2>1, <2>2
  <2>3. CASE i # 1
    <3>1. i - 1 \in DOMAIN Tail(q) /\ Tail(q)[i - 1] = x
      BY <2>1, <2>3
    <3> QED BY <3>1, Zenon DEF Range
  <2> QED BY <2>2, <2>3
<1>3. ASSUME NEW x \in Range(Tail(q))  PROVE x \in Range(q)
  <2>1. PICK i \in 1..Len(Tail(q)) : x = Tail(q)[i]
    BY <1>1 DEF Range
  <2>2. i + 1 \in DOMAIN q /\ q[i + 1] = x
    BY <2>1
  <2> QED BY <2>2 DEF Range
<1>4. Head(q) \in Range(q)
  BY <1>1 DEF Range
<1> QED BY <1>1, <1>2, <1>3, <1>4

\* A concatenation holds what either of the two sequences holds.
LEMMA RangeOfConcat ==
  ASSUME NEW S, NEW q \in Seq(S), NEW r \in Seq(S)
  PROVE  q \o r \in Seq(S) /\ Range(q) \subseteq Range(q \o r) /\ Range(r) \subseteq Range(q \o r)
<1>1. q \o r \in Seq(S)
  OBVIOUS
<1>2. ASSUME NEW x \in Range(q)  PROVE x \in Range(q \o r)
  <2>1. PICK i \in 1..Len(q) : x = q[i]
    BY DEF Range
  <2>2. i \in DOMAIN (q \o r) /\ (q \o r)[i] = x
    BY <2>1
  <2> QED BY <2>2 DEF Range
<1>3. ASSUME NEW x \in Range(r)  PROVE x \in Range(q \o r)
  <2>1. PICK i \in 1..Len(r) : x = r[i]
    BY DEF Range
  <2>2. Len(q) + i \in DOMAIN (q \o r) /\ (q \o r)[Len(q) + i] = x
    BY <2>1
  <2> QED BY <2>2 DEF Range
<1> QED BY <1>1, <1>2, <1>3

\* Nothing is in the empty sequence.
LEMMA RangeOfEmpty == Range(<<>>) = {}
  BY DEF Range

\* An append adds one element.
LEMMA RangeOfAppend ==
  ASSUME NEW S, NEW q \in Seq(S), NEW y \in S
  PROVE  Append(q, y) \in Seq(S) /\ Range(Append(q, y)) = Range(q) \cup {y}
<1>1. ASSUME NEW x \in Range(q)  PROVE x \in Range(Append(q, y))
  <2>1. PICK i \in 1..Len(q) : x = q[i]
    BY DEF Range
  <2>2. i \in DOMAIN Append(q, y) /\ Append(q, y)[i] = x
    BY <2>1
  <2> QED BY <2>2 DEF Range
<1>2. y \in Range(Append(q, y))
  <2>1. Len(q) + 1 \in DOMAIN Append(q, y) /\ Append(q, y)[Len(q) + 1] = y
    OBVIOUS
  <2> QED BY <2>1 DEF Range
<1>3. ASSUME NEW x \in Range(Append(q, y)), x # y  PROVE x \in Range(q)
  <2>1. PICK i \in 1..(Len(q) + 1) : x = Append(q, y)[i]
    BY DEF Range
  <2>2. i \in DOMAIN q /\ q[i] = x
    BY <1>3, <2>1
  <2> QED BY <2>2 DEF Range
<1> QED BY <1>1, <1>2, <1>3

\* An append of a new element keeps a sequence without repetitions.
LEMMA InjectiveAppend ==
  ASSUME NEW S, NEW q \in Seq(S), IsInjective(q), NEW y \in S, y \notin Range(q)
  PROVE  IsInjective(Append(q, y))
<1>1. \A i \in 1..Len(q) : q[i] # y
  BY DEF Range
<1>2. \A i, j \in 1..Len(q) : q[i] = q[j] => i = j
  BY DEF IsInjective
<1>3. \A i, j \in 1..(Len(q) + 1) : Append(q, y)[i] = Append(q, y)[j] => i = j
  BY <1>1, <1>2
<1> QED BY <1>3 DEF IsInjective

\* The tail of a sequence without repetitions has none, and the head is not in it.
LEMMA InjectiveTail ==
  ASSUME NEW S, NEW q \in Seq(S), q # <<>>, IsInjective(q)
  PROVE  IsInjective(Tail(q)) /\ Head(q) \notin Range(Tail(q))
<1>1. \A i, j \in 1..Len(q) : q[i] = q[j] => i = j
  BY DEF IsInjective
<1>2. /\ 1 \in 1..Len(q) /\ Head(q) = q[1] /\ Len(Tail(q)) = Len(q) - 1 /\ Len(q) \in Nat
      /\ \A i \in 1..(Len(q) - 1) : Tail(q)[i] = q[i + 1]
  OBVIOUS
<1>3. \A i \in 1..(Len(q) - 1) : i + 1 \in 1..Len(q) /\ i + 1 # 1
  BY <1>2
<1>4. \A i, j \in 1..(Len(q) - 1) : Tail(q)[i] = Tail(q)[j] => i = j
  BY <1>1, <1>2, <1>3
<1>5. DOMAIN Tail(q) = 1..(Len(q) - 1)
  BY <1>2
<1>6. Head(q) \notin Range(Tail(q))
  BY <1>1, <1>2, <1>3, <1>5 DEF Range
<1> QED BY <1>4, <1>5, <1>6 DEF IsInjective

\* The empty sequence repeats nothing.
LEMMA InjectiveEmpty == IsInjective(<<>>)
  BY DEF IsInjective

\* A sequence of one element repeats nothing.
LEMMA InjectiveSingle == ASSUME NEW x  PROVE IsInjective(<<x>>)
<1>1. DOMAIN <<x>> = 1..1
  OBVIOUS
<1>2. \A i, j \in 1..1 : i = j
  OBVIOUS
<1> QED BY <1>1, <1>2, Zenon DEF IsInjective

\* A set without two different elements has at most one element.
LEMMA AtMostOneElement ==
  ASSUME NEW S, \A p, q \in S : p = q
  PROVE  Cardinality(S) <= 1
<1> DEFINE Count(f) == [T \in SUBSET S |-> IF T = {} THEN 0 ELSE 1 + f[T \ {CHOOSE x : x \in T}]]
           CS == CHOOSE f : f = Count(f)
           g == [T \in SUBSET S |-> IF T = {} THEN 0 ELSE 1]
<1>1. Cardinality(S) = CS[S]
  BY Zenon DEF Cardinality
<1>2. \A T \in SUBSET S : T # {} => T \ {CHOOSE x : x \in T} = {}
  <2> SUFFICES ASSUME NEW T \in SUBSET S, T # {} PROVE T \ {CHOOSE x : x \in T} = {}
    OBVIOUS
  <2>1. (CHOOSE x : x \in T) \in T
    BY Zenon
  <2>2. QED BY <2>1, Zenon
<1>3. {} \in SUBSET S /\ S \in SUBSET S
  OBVIOUS
<1>4. g = Count(g)
  BY <1>2, <1>3
<1>5. CS = Count(CS)
  <2> HIDE DEF Count, g
  <2>1. QED BY <1>4, Zenon
<1> HIDE DEF CS
<1>6. CS[{}] = 0
  BY <1>3, <1>5
<1>7. CASE S = {}
  BY <1>1, <1>6, <1>7
<1>8. CASE S # {}
  <2>1. CS[S] = 1 + CS[S \ {CHOOSE x : x \in S}]
    BY <1>3, <1>5, <1>8
  <2>2. CS[S] = 1
    BY <1>2, <1>3, <1>6, <1>8, <2>1
  <2>3. QED BY <1>1, <2>2
<1>9. QED BY <1>7, <1>8
=============================================================================
