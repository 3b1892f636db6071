----------------------------- MODULE DataLemmas -----------------------------
(* What the proofs need to know of the data the components work on: token  *)
(* sequences and KV contents (prefixes, concatenations and their lengths), *)
(* flattened sequences, least and greatest numbers, totals, and functions  *)
(* defined by recursion on an argument that gets smaller.                  *)
EXTENDS Totals, SequencesExt, SequenceTheorems, FiniteSetTheorems,
        NaturalsInduction, WellFoundedInduction, TLAPS

LEMMA SubSeqFacts ==
  ASSUME NEW S, NEW s \in Seq(S), NEW n \in 0..Len(s)
  PROVE  /\ SubSeq(s, 1, n) \in Seq(S) /\ Len(SubSeq(s, 1, n)) = n
         /\ \A i \in 1..n : SubSeq(s, 1, n)[i] = s[i]
OBVIOUS

LEMMA ConcatFacts ==
  ASSUME NEW S, NEW s \in Seq(S), NEW t \in Seq(S)
  PROVE  /\ s \o t \in Seq(S) /\ Len(s \o t) = Len(s) + Len(t)
         /\ \A i \in 1..Len(s) : (s \o t)[i] = s[i]
         /\ \A i \in 1..Len(t) : (s \o t)[Len(s) + i] = t[i]
OBVIOUS

LEMMA AppendFacts ==
  ASSUME NEW S, NEW s \in Seq(S), NEW x \in S
  PROVE  /\ Append(s, x) \in Seq(S) /\ Len(Append(s, x)) = Len(s) + 1
         /\ \A i \in 1..Len(s) : Append(s, x)[i] = s[i]
         /\ Append(s, x)[Len(s) + 1] = x
OBVIOUS

LEMMA TailFacts ==
  ASSUME NEW S, NEW s \in Seq(S), s # <<>>
  PROVE  /\ Tail(s) \in Seq(S) /\ Len(Tail(s)) = Len(s) - 1 /\ Len(s) >= 1
         /\ \A i \in 1..(Len(s) - 1) : Tail(s)[i] = s[i + 1]
         /\ Head(s) = s[1] /\ Head(s) \in S
<1>1. Len(s) >= 1 /\ Head(s) = s[1]
  OBVIOUS
<1>2. /\ Head(s) \in S /\ Tail(s) \in Seq(S) /\ Len(Tail(s)) = Len(s) - 1
      /\ \A i \in 1..Len(Tail(s)) : Tail(s)[i] = s[i + 1]
  BY HeadTailProperties, Zenon
<1> QED
  BY ONLY <1>1, <1>2, Zenon

LEMMA FrontFacts ==
  ASSUME NEW S, NEW s \in Seq(S), s # <<>>
  PROVE  /\ Front(s) \in Seq(S) /\ Len(Front(s)) = Len(s) - 1 /\ Len(s) >= 1
         /\ \A i \in 1..(Len(s) - 1) : Front(s)[i] = s[i]
         /\ Last(s) = s[Len(s)] /\ Last(s) \in S
<1> DEFINE n == Len(s) - 1
<1>0. Len(s) \in Nat /\ Len(s) >= 1
  OBVIOUS
<1>1. n \in 0..Len(s) /\ n = Len(s) - 1 /\ Len(s) >= 1
  BY <1>0
<1> HIDE DEF n
<1>2. Front(s) = SubSeq(s, 1, n) /\ Last(s) = s[Len(s)]
  BY <1>1 DEF Front, Last
<1>3. /\ SubSeq(s, 1, n) \in Seq(S) /\ Len(SubSeq(s, 1, n)) = n
      /\ \A i \in 1..n : SubSeq(s, 1, n)[i] = s[i]
  BY <1>1, SubSeqFacts
<1>4. s[Len(s)] \in S
  BY <1>1
<1> QED
  BY <1>1, <1>2, <1>3, <1>4

LEMMA EqualSeqs ==
  ASSUME NEW S, NEW s \in Seq(S), NEW t \in Seq(S), Len(s) = Len(t),
         \A i \in 1..Len(s) : s[i] = t[i]
  PROVE  s = t
BY SeqEqual

LEMMA NonEmptyLen ==
  ASSUME NEW S, NEW s \in Seq(S)
  PROVE  Len(s) \in Nat /\ (s = <<>> <=> Len(s) = 0)
OBVIOUS

\* The last element goes back where it came from.
LEMMA FrontLast ==
  ASSUME NEW S, NEW s \in Seq(S), s # <<>>
  PROVE  Append(Front(s), Last(s)) = s
<1> DEFINE t == Append(Front(s), Last(s))
<1>1. t \in Seq(S) /\ Len(t) = Len(s) /\ \A i \in 1..Len(s) : t[i] = s[i]
  BY FrontFacts, AppendFacts
<1> QED
  BY <1>1, EqualSeqs

\* A one-element concatenation is an Append.
LEMMA ConcatOne ==
  ASSUME NEW S, NEW s \in Seq(S), NEW x \in S
  PROVE  s \o <<x>> = Append(s, x)
BY AppendIsConcat

LEMMA FrontAppend ==
  ASSUME NEW S, NEW s \in Seq(S), NEW x \in S
  PROVE  Front(Append(s, x)) = s /\ Last(Append(s, x)) = x /\ Append(s, x) # <<>>
<1> DEFINE t == Append(s, x)
<1>1. /\ t \in Seq(S) /\ Len(t) = Len(s) + 1
      /\ \A i \in 1..Len(s) : t[i] = s[i]
      /\ t[Len(s) + 1] = x
  BY AppendFacts
<1> HIDE DEF t
<1>2. t # <<>> /\ Len(s) \in Nat
  BY <1>1
<1>3. /\ Front(t) \in Seq(S) /\ Len(Front(t)) = Len(t) - 1
      /\ \A i \in 1..(Len(t) - 1) : Front(t)[i] = t[i]
      /\ Last(t) = t[Len(t)]
  BY <1>1, <1>2, FrontFacts
<1>4. Front(t) = s
  BY <1>1, <1>2, <1>3, EqualSeqs
<1>5. Last(t) = x
  BY <1>1, <1>3
<1> QED
  BY <1>2, <1>4, <1>5 DEF t

\* A prefix of an extension is a prefix of what was extended.
LEMMA PrefixOfAppend ==
  ASSUME NEW S, NEW s \in Seq(S), NEW x \in S, NEW n \in 0..Len(s)
  PROVE  SubSeq(Append(s, x), 1, n) = SubSeq(s, 1, n)
<1> DEFINE t == Append(s, x)
<1>1. /\ t \in Seq(S) /\ Len(t) = Len(s) + 1
      /\ \A i \in 1..Len(s) : t[i] = s[i]
  BY AppendFacts
<1> HIDE DEF t
<1>2. n \in 0..Len(t)
  BY <1>1
<1>3. /\ SubSeq(t, 1, n) \in Seq(S) /\ Len(SubSeq(t, 1, n)) = n
      /\ \A i \in 1..n : SubSeq(t, 1, n)[i] = t[i]
  BY <1>1, <1>2, SubSeqFacts
<1>4. /\ SubSeq(s, 1, n) \in Seq(S) /\ Len(SubSeq(s, 1, n)) = n
      /\ \A i \in 1..n : SubSeq(s, 1, n)[i] = s[i]
  BY SubSeqFacts
<1>5. SubSeq(t, 1, n) = SubSeq(s, 1, n)
  BY <1>1, <1>3, <1>4, EqualSeqs
<1> QED
  BY <1>5 DEF t

LEMMA PrefixOfPrefix ==
  ASSUME NEW S, NEW s \in Seq(S), NEW m \in 0..Len(s), NEW n \in 0..m
  PROVE  SubSeq(SubSeq(s, 1, m), 1, n) = SubSeq(s, 1, n)
<1> DEFINE u == SubSeq(s, 1, m)
<1>1. u \in Seq(S) /\ Len(u) = m /\ \A i \in 1..m : u[i] = s[i]
  BY SubSeqFacts
<1> HIDE DEF u
<1>2. n \in 0..Len(u) /\ n \in 0..Len(s)
  BY <1>1
<1>3. /\ SubSeq(u, 1, n) \in Seq(S) /\ Len(SubSeq(u, 1, n)) = n
      /\ \A i \in 1..n : SubSeq(u, 1, n)[i] = u[i]
  BY <1>1, <1>2, SubSeqFacts
<1>4. /\ SubSeq(s, 1, n) \in Seq(S) /\ Len(SubSeq(s, 1, n)) = n
      /\ \A i \in 1..n : SubSeq(s, 1, n)[i] = s[i]
  BY <1>2, SubSeqFacts
<1>5. \A i \in 1..n : u[i] = s[i]
  BY <1>1
<1>6. SubSeq(u, 1, n) = SubSeq(s, 1, n)
  BY <1>3, <1>4, <1>5, EqualSeqs
<1> QED
  BY <1>6 DEF u

LEMMA WholePrefix ==
  ASSUME NEW S, NEW s \in Seq(S)
  PROVE  SubSeq(s, 1, Len(s)) = s
<1>1. Len(s) \in 0..Len(s)
  OBVIOUS
<1> QED
  BY <1>1, SubSeqFacts, EqualSeqs

\* What is left of two concatenated sequences when the second is cut.
LEMMA CutConcat ==
  ASSUME NEW S, NEW h \in Seq(S), NEW d \in Seq(S), NEW a \in 0..Len(d)
  PROVE  SubSeq(h \o d, 1, Len(h) + a) = h \o SubSeq(d, 1, a)
<1> DEFINE u == h \o d
           v == SubSeq(d, 1, a)
           w == h \o v
<1>1. /\ u \in Seq(S) /\ Len(u) = Len(h) + Len(d)
      /\ \A i \in 1..Len(h) : u[i] = h[i]
      /\ \A i \in 1..Len(d) : u[Len(h) + i] = d[i]
  BY ConcatFacts
<1>2. v \in Seq(S) /\ Len(v) = a /\ \A i \in 1..a : v[i] = d[i]
  BY SubSeqFacts
<1> HIDE DEF u, v
<1>3. /\ w \in Seq(S) /\ Len(w) = Len(h) + a
      /\ \A i \in 1..Len(h) : w[i] = h[i]
      /\ \A i \in 1..a : w[Len(h) + i] = v[i]
  <2>0. v \in Seq(S)
    BY <1>2
  <2>1. /\ w \in Seq(S) /\ Len(w) = Len(h) + Len(v)
        /\ \A i \in 1..Len(h) : w[i] = h[i]
        /\ \A i \in 1..Len(v) : w[Len(h) + i] = v[i]
    BY <2>0, ConcatFacts
  <2> HIDE DEF w
  <2> QED
    BY <1>2, <2>1
<1> HIDE DEF w
<1>4. PICK n \in 0..Len(u) : n = Len(h) + a
  BY <1>1
<1>5. /\ SubSeq(u, 1, n) \in Seq(S) /\ Len(SubSeq(u, 1, n)) = n
      /\ \A i \in 1..n : SubSeq(u, 1, n)[i] = u[i]
  BY <1>1, SubSeqFacts
<1>6. ASSUME NEW i \in 1..n PROVE SubSeq(u, 1, n)[i] = w[i]
  <2>1. CASE i <= Len(h)
    BY <1>1, <1>3, <1>5, <2>1
  <2>2. CASE i > Len(h)
    <3>1. PICK j \in 1..a : i = Len(h) + j
      <4>1. i - Len(h) \in 1..a /\ i = Len(h) + (i - Len(h))
        BY <1>4, <2>2
      <4> QED
        BY <4>1
    <3>2. u[i] = d[j] /\ w[i] = v[j] /\ v[j] = d[j]
      BY <1>1, <1>2, <1>3, <3>1
    <3> QED
      BY <1>5, <3>2
  <2> QED
    BY <2>1, <2>2
<1>7. SubSeq(u, 1, n) = w
  BY <1>3, <1>4, <1>5, <1>6, EqualSeqs
<1> QED
  BY <1>4, <1>7 DEF u, v, w

\* Moving the first of n tokens from the right operand to the left one.
LEMMA MoveHead ==
  ASSUME NEW S, NEW h \in Seq(S), NEW s \in Seq(S), s # <<>>
  PROVE  h \o s = Append(h, Head(s)) \o Tail(s)
<1>1. Head(s) \in S /\ Tail(s) \in Seq(S) /\ s = <<Head(s)>> \o Tail(s)
  <2>1. Head(s) \in S /\ Tail(s) \in Seq(S)
    BY TailFacts
  <2> DEFINE t == Tail(s)
             b == <<Head(s)>>
  <2>2. /\ t \in Seq(S) /\ Len(t) = Len(s) - 1 /\ Len(s) >= 1
        /\ \A i \in 1..(Len(s) - 1) : t[i] = s[i + 1]
        /\ b \in Seq(S) /\ Len(b) = 1 /\ b[1] = s[1]
    BY <2>1, TailFacts
  <2> HIDE DEF t, b
  <2>3. /\ b \o t \in Seq(S) /\ Len(b \o t) = 1 + Len(t)
        /\ (b \o t)[1] = b[1]
        /\ \A i \in 1..Len(t) : (b \o t)[1 + i] = t[i]
    <3> DEFINE w == b \o t
    <3>0. b \in Seq(S) /\ t \in Seq(S)
      BY <2>2
    <3>1. /\ w \in Seq(S) /\ Len(w) = Len(b) + Len(t)
          /\ \A i \in 1..Len(b) : w[i] = b[i]
          /\ \A i \in 1..Len(t) : w[Len(b) + i] = t[i]
      BY <3>0, ConcatFacts
    <3> HIDE DEF w
    <3>2. /\ w \in Seq(S) /\ Len(w) = 1 + Len(t) /\ w[1] = b[1]
          /\ \A i \in 1..Len(t) : w[1 + i] = t[i]
      BY <2>2, <3>1
    <3> QED
      BY <3>2 DEF w
  <2>4. ASSUME NEW i \in 1..Len(s) PROVE (b \o t)[i] = s[i]
    <3>1. CASE i = 1
      BY <2>2, <2>3, <3>1
    <3>2. CASE i # 1
      <4>1. PICK j \in 1..Len(t) : i = 1 + j
        <5>1. i - 1 \in 1..Len(t) /\ i = 1 + (i - 1)
          BY <2>2, <3>2
        <5> QED
          BY <5>1
      <4> QED
        BY <2>2, <2>3, <4>1
    <3> QED
      BY <3>1, <3>2
  <2>5. b \o t = s
    BY <2>2, <2>3, <2>4, EqualSeqs
  <2> QED
    BY <2>1, <2>5 DEF b, t
<1>2. <<Head(s)>> \in Seq(S)
  BY <1>1
<1>3. (h \o <<Head(s)>>) \o Tail(s) = h \o (<<Head(s)>> \o Tail(s))
  BY <1>1, <1>2, ConcatAssociative
<1>4. h \o <<Head(s)>> = Append(h, Head(s))
  BY <1>1, ConcatOne
<1> QED
  BY <1>1, <1>3, <1>4

\* Front and SubSeq of what is left after the first token.
LEMMA TailPrefix ==
  ASSUME NEW S, NEW s \in Seq(S), s # <<>>, NEW n \in 1..Len(s)
  PROVE  /\ SubSeq(s, 1, n) # <<>>
         /\ Head(SubSeq(s, 1, n)) = Head(s)
         /\ Tail(SubSeq(s, 1, n)) = SubSeq(Tail(s), 1, n - 1)
<1> DEFINE u == SubSeq(s, 1, n)
<1>0. n \in 0..Len(s)
  OBVIOUS
<1>1. u \in Seq(S) /\ Len(u) = n /\ \A i \in 1..n : u[i] = s[i]
  BY <1>0, SubSeqFacts
<1> HIDE DEF u
<1>2. u # <<>>
  BY <1>1
<1>3. /\ Tail(u) \in Seq(S) /\ Len(Tail(u)) = n - 1
      /\ \A i \in 1..(n - 1) : Tail(u)[i] = u[i + 1]
      /\ Head(u) = u[1]
  BY <1>1, <1>2, TailFacts
<1>4. /\ Tail(s) \in Seq(S) /\ Len(Tail(s)) = Len(s) - 1
      /\ \A i \in 1..(Len(s) - 1) : Tail(s)[i] = s[i + 1]
      /\ Head(s) = s[1]
  BY TailFacts
<1>5. PICK m \in 0..Len(Tail(s)) : m = n - 1
  BY <1>4
<1>6. /\ SubSeq(Tail(s), 1, m) \in Seq(S) /\ Len(SubSeq(Tail(s), 1, m)) = m
      /\ \A i \in 1..m : SubSeq(Tail(s), 1, m)[i] = Tail(s)[i]
  BY <1>4, SubSeqFacts
<1>7. Tail(u) = SubSeq(Tail(s), 1, m)
  BY <1>1, <1>3, <1>4, <1>5, <1>6, EqualSeqs
<1> QED
  BY <1>1, <1>2, <1>3, <1>4, <1>5, <1>7 DEF u

LEMMA MiddleFacts ==
  ASSUME NEW S, NEW s \in Seq(S), NEW m \in 1..(Len(s) + 1), NEW n \in (m - 1)..Len(s)
  PROVE  /\ SubSeq(s, m, n) \in Seq(S) /\ Len(SubSeq(s, m, n)) = n - m + 1
         /\ \A i \in 1..(n - m + 1) : SubSeq(s, m, n)[i] = s[m + i - 1]
OBVIOUS

LEMMA PrefixFacts ==
  ASSUME NEW S, NEW c \in Seq(S), NEW p \in Seq(S), IsPrefix(c, p)
  PROVE  Len(c) <= Len(p) /\ \A i \in 1..Len(c) : c[i] = p[i]
<1>1. Len(c) \in 0..Len(c) /\ Len(c) \in 0..Len(p)
  BY DEF IsPrefix
<1>2. SubSeq(c, 1, Len(c)) = SubSeq(p, 1, Len(c))
  BY DEF IsPrefix
<1>3. \A i \in 1..Len(c) : SubSeq(c, 1, Len(c))[i] = c[i]
  BY <1>1, SubSeqFacts
<1>4. \A i \in 1..Len(c) : SubSeq(p, 1, Len(c))[i] = p[i]
  BY <1>1, SubSeqFacts
<1> QED
  BY <1>1, <1>2, <1>3, <1>4

\* A prefix and the tokens that follow it make a longer prefix.
LEMMA ExtendPrefix ==
  ASSUME NEW S, NEW c \in Seq(S), NEW p \in Seq(S), IsPrefix(c, p), NEW n \in Len(c)..Len(p)
  PROVE  c \o SubSeq(p, Len(c) + 1, n) = SubSeq(p, 1, n)
<1>0. Len(c) <= Len(p) /\ \A i \in 1..Len(c) : c[i] = p[i]
  BY PrefixFacts
<1>1. PICK m \in 1..(Len(p) + 1) : m = Len(c) + 1 /\ n \in (m - 1)..Len(p)
  BY <1>0
<1> DEFINE b == SubSeq(p, m, n)
           w == c \o b
<1>2. b \in Seq(S) /\ Len(b) = n - m + 1 /\ \A i \in 1..(n - m + 1) : b[i] = p[m + i - 1]
  BY <1>1, MiddleFacts
<1> HIDE DEF b
<1>3. b \in Seq(S)
  BY <1>2
<1>4. /\ w \in Seq(S) /\ Len(w) = Len(c) + Len(b)
      /\ \A i \in 1..Len(c) : w[i] = c[i]
      /\ \A i \in 1..Len(b) : w[Len(c) + i] = b[i]
  BY <1>3, ConcatFacts
<1> HIDE DEF w
<1>5. Len(c) \in Nat /\ Len(p) \in Nat /\ Len(b) = n - Len(c) /\ Len(w) = n /\ n \in 0..Len(p)
  BY <1>0, <1>1, <1>2, <1>4
<1>6. /\ SubSeq(p, 1, n) \in Seq(S) /\ Len(SubSeq(p, 1, n)) = n
      /\ \A i \in 1..n : SubSeq(p, 1, n)[i] = p[i]
  BY <1>5, SubSeqFacts
<1>7. ASSUME NEW i \in 1..n PROVE w[i] = p[i]
  <2>1. CASE i <= Len(c)
    BY <1>0, <1>4, <1>5, <2>1
  <2>2. CASE i > Len(c)
    <3>1. PICK j \in 1..Len(b) : i = Len(c) + j
      <4>1. i - Len(c) \in 1..Len(b) /\ i = Len(c) + (i - Len(c))
        BY <1>5, <2>2
      <4> QED
        BY <4>1
    <3>2. w[i] = b[j]
      BY <1>4, <3>1
    <3>3. j \in 1..(n - m + 1) /\ m + j - 1 = i
      BY <1>1, <1>5, <3>1
    <3> QED
      BY <1>2, <3>2, <3>3
  <2> QED
    BY <1>5, <2>1, <2>2
<1>8. w = SubSeq(p, 1, n)
  BY <1>4, <1>5, <1>6, <1>7, EqualSeqs
<1> QED
  BY <1>1, <1>8 DEF b, w

-----------------------------------------------------------------------------
(* Extreme elements of sets of numbers                                     *)

\* A set of natural numbers with an upper bound has a greatest element.
LEMMA GreatestExists ==
  ASSUME NEW N \in Nat, NEW T \in SUBSET (0..N), T # {}
  PROVE  \E x \in T : \A y \in T : y <= x
<1> DEFINE D == {n \in 0..N : N - n \in T}
<1>1. D \in SUBSET Nat /\ D # {}
  <2>1. PICK x \in T : TRUE
    OBVIOUS
  <2>2. N - x \in 0..N /\ N - (N - x) = x
    BY <2>1
  <2>3. N - x \in D
    BY <2>1, <2>2
  <2>4. D \subseteq Nat
    OBVIOUS
  <2> HIDE DEF D
  <2> QED
    BY <2>3, <2>4
<1> HIDE DEF D
<1>2. PICK d \in D : \A e \in D : ~ (<<e, d>> \in OpToRel(<, Nat))
  BY <1>1, NatLessThanWellFounded, WFMin, Zenon
<1>3. \A e \in D : d <= e
  <2>1. d \in Nat /\ \A e \in D : e \in Nat /\ ~(e < d)
    BY <1>1, <1>2 DEF OpToRel
  <2> QED
    BY <2>1
<1>4. N - d \in T /\ d \in 0..N
  BY DEF D
<1>5. ASSUME NEW y \in T PROVE y <= N - d
  <2>1. y \in 0..N /\ N - y \in 0..N /\ N - (N - y) = y
    OBVIOUS
  <2>2. N - y \in D
    BY <2>1 DEF D
  <2>3. d <= N - y
    BY <1>3, <2>2
  <2> QED
    BY <1>4, <2>1, <2>3
<1> QED
  BY <1>4, <1>5

\* A set of natural numbers that is not empty has a least element.
LEMMA SmallestExists ==
  ASSUME NEW T \in SUBSET Nat, T # {}
  PROVE  \E x \in T : \A y \in T : x <= y
<1>1. PICK x \in T : \A y \in T : ~ (<<y, x>> \in OpToRel(<, Nat))
  BY NatLessThanWellFounded, WFMin, Zenon
<1>2. \A y \in T : ~ (y < x)
  BY <1>1 DEF OpToRel
<1> QED
  BY <1>2

\* A prefix and the block that follows it.
LEMMA ExtendBlock ==
  ASSUME NEW S, NEW p \in Seq(S), NEW m \in 0..Len(p), NEW n \in m..Len(p)
  PROVE  SubSeq(p, 1, m) \o SubSeq(p, m + 1, n) = SubSeq(p, 1, n)
<1> DEFINE c == SubSeq(p, 1, m)
<1>1. c \in Seq(S) /\ Len(c) = m
  BY SubSeqFacts
<1>2. IsPrefix(c, p)
  <2>1. SubSeq(c, 1, Len(c)) = c
    BY <1>1, WholePrefix
  <2>2. Len(c) <= Len(p)
    BY <1>1
  <2> QED
    BY <1>1, <2>1, <2>2 DEF IsPrefix
<1>3. n \in Len(c)..Len(p)
  BY <1>1
<1> HIDE DEF c
<1>4. c \o SubSeq(p, Len(c) + 1, n) = SubSeq(p, 1, n)
  BY <1>1, <1>2, <1>3, ExtendPrefix
<1> QED
  BY <1>1, <1>4 DEF c
-----------------------------------------------------------------------------
(* Totals *)

LEMMA CellOf ==
  ASSUME NEW s
  PROVE  /\ \A c : c \in Cells(s) <=> \E x \in DOMAIN s : \E b \in 1..s[x] : c = <<x, b>>
         /\ \A x, b : <<x, b>> \in Cells(s) <=> x \in DOMAIN s /\ b \in 1..s[x]
<1>1. \A c : c \in Cells(s) <=> \E x \in DOMAIN s : \E b \in 1..s[x] : c = <<x, b>>
  BY DEF Cells
<1> QED
  BY <1>1

LEMMA BlockFacts ==
  ASSUME NEW x, NEW n \in Nat
  PROVE  IsFiniteSet({x} \X (1..n)) /\ Cardinality({x} \X (1..n)) = n
<1>1. IsFiniteSet({x}) /\ Cardinality({x}) = 1
  BY FS_Singleton
<1>2. IsFiniteSet(1..n) /\ Cardinality(1..n) = n
  <2>1. \A a, b \in Int : IsFiniteSet(a..b) /\ Cardinality(a..b) = IF a > b THEN 0 ELSE b-a+1
    BY FS_Interval
  <2> QED
    BY <2>1
<1>3. /\ IsFiniteSet({x} \X (1..n))
      /\ Cardinality({x} \X (1..n)) = Cardinality({x}) * Cardinality(1..n)
  BY <1>1, <1>2, FS_Product
<1> QED
  BY <1>1, <1>2, <1>3

LEMMA TotalOfNothing ==
  ASSUME NEW s, DOMAIN s = {}
  PROVE  IsFiniteSet(Cells(s)) /\ Total(s) = 0
<1>1. Cells(s) = {}
  BY CellOf
<1> QED
  BY <1>1, FS_EmptySet DEF Total

LEMMA TotalIsNatural ==
  ASSUME NEW s, IsFiniteSet(Cells(s))
  PROVE  Total(s) \in Nat /\ Total(s) = Cardinality(Cells(s))
<1>1. Total(s) = Cardinality(Cells(s))
  BY DEF Total
<1> QED
  BY <1>1, FS_CardinalityType

\* Removing a member takes its value off the total.
LEMMA TotalWithout ==
  ASSUME NEW s, NEW x \in DOMAIN s, s[x] \in Nat, IsFiniteSet(Cells(s)),
         NEW t, DOMAIN t = DOMAIN s \ {x}, \A y \in DOMAIN t : t[y] = s[y]
  PROVE  IsFiniteSet(Cells(t)) /\ Total(t) = Total(s) - s[x] /\ Total(t) <= Total(s)
<1> DEFINE B == {x} \X (1..s[x])
<1>1. DOMAIN t = DOMAIN s \ {x} /\ \A y \in DOMAIN t : t[y] = s[y]
  OBVIOUS
<1>2. IsFiniteSet(B) /\ Cardinality(B) = s[x]
  BY BlockFacts
<1>3. Cells(t) = Cells(s) \ B
  <2>1. \A c : c \in Cells(t) => c \in Cells(s) \ B
    BY <1>1, CellOf
  <2>2. \A c : c \in Cells(s) \ B => c \in Cells(t)
    BY <1>1, CellOf
  <2> QED
    BY <2>1, <2>2
<1>4. Cells(s) \cap B = B
  BY CellOf
<1> HIDE DEF B
<1>5. IsFiniteSet(Cells(s) \ B) /\ Cardinality(Cells(s) \ B) = Cardinality(Cells(s)) - Cardinality(Cells(s) \cap B)
  BY FS_Difference
<1>6. IsFiniteSet(Cells(t)) /\ Cardinality(Cells(t)) = Cardinality(Cells(s)) - s[x]
  BY <1>2, <1>3, <1>4, <1>5
<1>7. Total(s) = Cardinality(Cells(s)) /\ Total(s) \in Nat /\ Total(t) = Cardinality(Cells(t))
  BY <1>6, TotalIsNatural
<1>8. Total(t) = Total(s) - s[x] /\ Total(t) <= Total(s)
  BY <1>6, <1>7
<1> QED
  BY <1>6, <1>8

\* A new member adds its value.
LEMMA TotalWith ==
  ASSUME NEW s, NEW x, x \notin DOMAIN s, NEW n \in Nat, IsFiniteSet(Cells(s)),
         NEW t, DOMAIN t = DOMAIN s \cup {x}, t[x] = n, \A y \in DOMAIN s : t[y] = s[y]
  PROVE  IsFiniteSet(Cells(t)) /\ Total(t) = Total(s) + n
<1> DEFINE B == {x} \X (1..n)
<1>1. DOMAIN t = DOMAIN s \cup {x} /\ t[x] = n /\ \A y \in DOMAIN s : t[y] = s[y]
  OBVIOUS
<1>2. IsFiniteSet(B) /\ Cardinality(B) = n
  BY BlockFacts
<1>3. Cells(t) = Cells(s) \cup B
  <2>1. \A c : c \in Cells(t) => c \in Cells(s) \cup B
    BY <1>1, CellOf
  <2>2. \A c : c \in Cells(s) \cup B => c \in Cells(t)
    BY <1>1, CellOf
  <2> QED
    BY <2>1, <2>2
<1>4. Cells(s) \cap B = {}
  BY CellOf
<1> HIDE DEF B
<1>5. /\ IsFiniteSet(Cells(s) \cup B)
      /\ Cardinality(Cells(s) \cup B)
           = Cardinality(Cells(s)) + Cardinality(B) - Cardinality(Cells(s) \cap B)
  BY <1>2, FS_Union
<1>6. Cardinality(Cells(s) \cap B) = 0
  BY <1>4, FS_EmptySet
<1>7. Total(s) = Cardinality(Cells(s)) /\ Total(s) \in Nat
  BY TotalIsNatural
<1>8. IsFiniteSet(Cells(t)) /\ Cardinality(Cells(t)) = Total(s) + n
  BY <1>2, <1>3, <1>5, <1>6, <1>7
<1>9. Total(t) = Cardinality(Cells(t))
  BY <1>8, TotalIsNatural
<1> QED
  BY <1>8, <1>9

\* Values that are each matched by one of their own add up to no more.
LEMMA TotalInto ==
  ASSUME NEW s, NEW t, IsFiniteSet(Cells(t)), NEW g \in [DOMAIN s -> DOMAIN t],
         \A x \in DOMAIN s : s[x] \in Nat /\ t[g[x]] \in Nat /\ s[x] <= t[g[x]],
         \A x, y \in DOMAIN s : g[x] = g[y] => x = y
  PROVE  IsFiniteSet(Cells(s)) /\ Total(s) <= Total(t)
<1> DEFINE h == [c \in Cells(s) |-> <<g[c[1]], c[2]>>]
<1>1. \A c \in Cells(s) : /\ c = <<c[1], c[2]>> /\ c[1] \in DOMAIN s /\ c[2] \in 1..s[c[1]]
  BY CellOf
<1>2. \A c \in Cells(s) : <<g[c[1]], c[2]>> \in Cells(t)
  <2>1. SUFFICES ASSUME NEW c \in Cells(s) PROVE <<g[c[1]], c[2]>> \in Cells(t)
    OBVIOUS
  <2>2. g[c[1]] \in DOMAIN t /\ c[2] \in 1..t[g[c[1]]]
    BY <1>1
  <2> QED
    BY <2>2, CellOf
<1>3. \A c, d \in Cells(s) : <<g[c[1]], c[2]>> = <<g[d[1]], d[2]>> => c = d
  <2>1. SUFFICES ASSUME NEW c \in Cells(s), NEW d \in Cells(s), g[c[1]] = g[d[1]], c[2] = d[2]
                 PROVE  c = d
    OBVIOUS
  <2>2. c[1] = d[1]
    BY <1>1, <2>1
  <2> QED
    BY <1>1, <2>1, <2>2
<1>4. h \in Injection(Cells(s), Cells(t))
  BY <1>2, <1>3 DEF Injection, IsInjective
<1> HIDE DEF h
<1>5. IsFiniteSet(Cells(s)) /\ Cardinality(Cells(s)) <= Cardinality(Cells(t))
  BY <1>4, FS_Injection
<1> QED
  BY <1>5, TotalIsNatural

LEMMA CellsFinite ==
  ASSUME NEW s, IsFiniteSet(DOMAIN s), \A x \in DOMAIN s : s[x] \in Nat
  PROVE  IsFiniteSet(Cells(s))
<1> DEFINE B == {{x} \X (1..s[x]) : x \in DOMAIN s}
           h == [x \in DOMAIN s |-> {x} \X (1..s[x])]
<1>1. h \in Surjection(DOMAIN s, B)
  <2>1. h \in [DOMAIN s -> B]
    OBVIOUS
  <2>2. \A T \in B : \E x \in DOMAIN s : T = {x} \X (1..s[x])
    OBVIOUS
  <2>3. \A x \in DOMAIN s : h[x] = {x} \X (1..s[x])
    OBVIOUS
  <2>4. \A T \in B : \E x \in DOMAIN s : h[x] = T
    BY <2>2, <2>3, Zenon
  <2> HIDE DEF h, B
  <2> QED
    BY <2>1, <2>4, Zenon DEF Surjection
<1>2. \A T \in B : IsFiniteSet(T)
  <2>1. \A x \in DOMAIN s : IsFiniteSet({x} \X (1..s[x]))
    BY BlockFacts
  <2> QED
    BY <2>1
<1>3. Cells(s) = UNION B
  BY DEF Cells
<1> HIDE DEF B, h
<1>4. IsFiniteSet(B)
  BY <1>1, FS_Surjection
<1> QED
  BY <1>2, <1>3, <1>4, FS_UNION

\* The total over a sequence's positions when each counts one
LEMMA TotalOfOnes ==
  ASSUME NEW n \in Nat, NEW s, DOMAIN s = 1..n, \A i \in 1..n : s[i] = 1
  PROVE  IsFiniteSet(Cells(s)) /\ Total(s) = n
<1>1. Cells(s) = (1..n) \X {1}
  <2>1. \A c : c \in Cells(s) => c \in (1..n) \X {1}
    BY CellOf
  <2>2. \A c : c \in (1..n) \X {1} => c \in Cells(s)
    BY CellOf
  <2> QED
    BY <2>1, <2>2
<1>2. IsFiniteSet({1}) /\ Cardinality({1}) = 1
  BY FS_Singleton
<1>3. IsFiniteSet(1..n) /\ Cardinality(1..n) = n
  <2>1. \A a, b \in Int : IsFiniteSet(a..b) /\ Cardinality(a..b) = IF a > b THEN 0 ELSE b-a+1
    BY FS_Interval
  <2> QED
    BY <2>1
<1>4. /\ IsFiniteSet((1..n) \X {1})
      /\ Cardinality((1..n) \X {1}) = Cardinality(1..n) * Cardinality({1})
  BY <1>2, <1>3, FS_Product
<1>5. Cardinality((1..n) \X {1}) = n
  BY <1>2, <1>3, <1>4
<1> QED
  BY <1>1, <1>4, <1>5 DEF Total

-----------------------------------------------------------------------------
(* Recursive functions                                                     *)

\* One step of a recursion on D whose argument gets smaller: at d the value
\* is joined from the value at next[d], or is base[d] when next[d] is no smaller.
RecursionStep(f, d, size, next, base, join) ==
  IF size[next[d]] < size[d] THEN join[d][f[next[d]]] ELSE base[d]

\* A function that follows the recursion below size n.
Approximates(g, n, D, size, next, base, join) ==
  \A d \in D : size[d] < n => g[d] = RecursionStep(g, d, size, next, base, join)

\* Two functions that follow the same recursion agree as far as both do.
LEMMA RecursionUnique ==
  ASSUME NEW D, NEW size \in [D -> Nat], NEW next \in [D -> D], NEW base, NEW join,
         NEW m \in Nat, NEW g, Approximates(g, m, D, size, next, base, join),
         NEW n \in Nat, NEW h, Approximates(h, n, D, size, next, base, join)
  PROVE  \A d \in D : size[d] < m /\ size[d] < n => g[d] = h[d]
<1> DEFINE Differ == {k \in Nat : \E d \in D : /\ size[d] = k /\ k < m /\ k < n
                                              /\ g[d] # h[d]}
<1>1. ASSUME Differ # {} PROVE FALSE
  <2>1. PICK k \in Differ : \A j \in Differ : k <= j
    BY <1>1, SmallestExists
  <2>2. PICK d \in D : size[d] = k /\ k < m /\ k < n /\ g[d] # h[d]
    OBVIOUS
  <2>3. g[d] = RecursionStep(g, d, size, next, base, join)
    BY <2>2 DEF Approximates
  <2>4. h[d] = RecursionStep(h, d, size, next, base, join)
    BY <2>2 DEF Approximates
  <2>5. CASE size[next[d]] < size[d]
    <3>1. next[d] \in D /\ size[next[d]] \in Nat
      OBVIOUS
    <3>2. size[next[d]] \notin Differ
      BY <2>1, <2>2, <2>5, <3>1
    <3>3. g[next[d]] = h[next[d]]
      BY <2>2, <2>5, <3>1, <3>2
    <3> QED
      BY <2>2, <2>3, <2>4, <3>3 DEF RecursionStep
  <2>6. CASE ~(size[next[d]] < size[d])
    BY <2>2, <2>3, <2>4, <2>6 DEF RecursionStep
  <2> QED
    BY <2>5, <2>6
<1> QED
  BY <1>1

Recursion(D, R, size, next, base, join) ==
  /\ size \in [D -> Nat] /\ next \in [D -> D]
  /\ base \in [D -> R] /\ join \in [D -> [R -> R]]

Solves(f, D, R, size, next, base, join) ==
  /\ f \in [D -> R]
  /\ \A d \in D : f[d] = RecursionStep(f, d, size, next, base, join)

\* The recursion has a solution.
LEMMA RecursionExists ==
  ASSUME NEW D, NEW R, NEW size, NEW next, NEW base, NEW join,
         Recursion(D, R, size, next, base, join)
  PROVE  \E f : Solves(f, D, R, size, next, base, join)
<1>0. /\ size \in [D -> Nat] /\ next \in [D -> D]
      /\ base \in [D -> R] /\ join \in [D -> [R -> R]]
  BY DEF Recursion
<1> USE <1>0
<1> DEFINE A(g, n) == Approximates(g, n, D, size, next, base, join)
           Step(f, d) == RecursionStep(f, d, size, next, base, join)
           None == {n \in Nat : ~ \E g \in [D -> R] : A(g, n)}
<1>1. ASSUME NEW g \in [D -> R], NEW d \in D PROVE Step(g, d) \in R
  BY DEF RecursionStep
<1>2. None = {}
  <2> SUFFICES ASSUME None # {} PROVE FALSE
    OBVIOUS
  <2>1. PICK n \in None : \A k \in None : n <= k
    <3>1. None \in SUBSET Nat
      OBVIOUS
    <3> HIDE DEF None
    <3> QED
      BY <3>1, SmallestExists
  <2>2. CASE n = 0
    <3>1. A(base, 0)
      BY DEF Approximates
    <3> QED
      BY <2>1, <2>2, <3>1
  <2>3. CASE n # 0
    <3>1. n - 1 \in Nat /\ n - 1 \notin None
      BY <2>1, <2>3
    <3>2. PICK g \in [D -> R] : A(g, n - 1)
      BY <3>1
    <3> DEFINE h == [d \in D |-> Step(g, d)]
    <3>3. h \in [D -> R]
      BY <1>1
    <3>4. ASSUME NEW d \in D, size[d] < n PROVE h[d] = Step(h, d)
      <4>1. h[d] = Step(g, d)
        OBVIOUS
      <4>2. CASE size[next[d]] < size[d]
        <5>1. next[d] \in D /\ size[next[d]] \in Nat /\ size[d] \in Nat
          OBVIOUS
        <5>2. size[next[d]] < n - 1
          BY <2>1, <3>4, <4>2, <5>1
        <5>3. g[next[d]] = Step(g, next[d])
          BY <3>2, <5>1, <5>2 DEF Approximates
        <5>4. h[next[d]] = g[next[d]]
          BY <5>1, <5>3
        <5> HIDE DEF h
        <5> QED
          BY <4>1, <5>4 DEF RecursionStep
      <4>3. CASE ~(size[next[d]] < size[d])
        <5> HIDE DEF h
        <5> QED
          BY <4>1, <4>3 DEF RecursionStep
      <4> QED
        BY <4>2, <4>3
    <3>5. A(h, n)
      <4> HIDE DEF h
      <4> QED
        BY <3>4 DEF Approximates
    <3> QED
      BY <2>1, <3>3, <3>5
  <2> QED
    BY <2>2, <2>3
<1> DEFINE G(n) == CHOOSE g \in [D -> R] : A(g, n)
<1>3. ASSUME NEW n \in Nat PROVE G(n) \in [D -> R] /\ A(G(n), n)
  BY <1>2
<1> DEFINE f == [d \in D |-> G(size[d] + 1)[d]]
<1>4. f \in [D -> R]
  <2>1. ASSUME NEW d \in D PROVE G(size[d] + 1)[d] \in R
    <3>1. size[d] + 1 \in Nat
      OBVIOUS
    <3> HIDE DEF G
    <3> QED
      BY <1>3, <3>1
  <2> HIDE DEF G
  <2> QED
    BY <2>1
<1>5. ASSUME NEW d \in D PROVE f[d] = Step(f, d)
  <2> DEFINE g == G(size[d] + 1)
  <2>0. size[d] \in Nat /\ size[d] + 1 \in Nat
    OBVIOUS
  <2>1. f[d] = g[d]
    OBVIOUS
  <2>2. g[d] = Step(g, d)
    <3>1. A(g, size[d] + 1)
      <4> HIDE DEF G
      <4> QED
        BY <1>3, <2>0
    <3> HIDE DEF g
    <3> QED
      BY <2>0, <3>1 DEF Approximates
  <2>3. CASE size[next[d]] < size[d]
    <3> DEFINE e == next[d]
               h == G(size[e] + 1)
    <3>1. e \in D /\ size[e] \in Nat /\ size[e] + 1 \in Nat
      OBVIOUS
    <3>2. f[e] = h[e]
      BY <3>1
    <3>3. A(g, size[d] + 1) /\ A(h, size[e] + 1)
      <4> HIDE DEF G, e
      <4> QED
        BY <1>3, <2>0, <3>1
    <3>4. g[e] = h[e]
      <4>1. \A m, n \in Nat : \A p, q :
              /\ Approximates(p, m, D, size, next, base, join)
              /\ Approximates(q, n, D, size, next, base, join)
              => \A x \in D : size[x] < m /\ size[x] < n => p[x] = q[x]
        <5> TAKE m, n \in Nat
        <5> TAKE p, q
        <5> HAVE /\ Approximates(p, m, D, size, next, base, join)
                 /\ Approximates(q, n, D, size, next, base, join)
        <5> QED
          BY RecursionUnique, SMTT(30)
      <4>2. size[e] < size[d] + 1 /\ size[e] < size[e] + 1
        BY <2>0, <2>3, <3>1
      <4> HIDE DEF g, h, e
      <4> QED
        BY <2>0, <3>1, <3>3, <4>1, <4>2
    <3>5. g[next[d]] = f[next[d]]
      BY <3>2, <3>4
    <3> HIDE DEF f, g
    <3> QED
      BY <2>1, <2>2, <3>5 DEF RecursionStep
  <2>4. CASE ~(size[next[d]] < size[d])
    <3> HIDE DEF f, g
    <3> QED
      BY <2>1, <2>2, <2>4 DEF RecursionStep
  <2> QED
    BY <2>3, <2>4
<1> HIDE DEF f
<1> QED
  BY <1>4, <1>5 DEF Solves

-----------------------------------------------------------------------------
(* Concatenations cut in two                                               *)

\* What follows the first k elements of a concatenation.
LEMMA RestOfConcat ==
  ASSUME NEW S, NEW a \in Seq(S), NEW b \in Seq(S), NEW k \in 0..Len(a)
  PROVE  SubSeq(a \o b, k + 1, Len(a \o b)) = SubSeq(a, k + 1, Len(a)) \o b
<1> DEFINE c == a \o b
           u == SubSeq(c, k + 1, Len(c))
           r == SubSeq(a, k + 1, Len(a))
           v == r \o b
<1>1. /\ c \in Seq(S) /\ Len(c) = Len(a) + Len(b)
      /\ \A i \in 1..Len(a) : c[i] = a[i]
      /\ \A i \in 1..Len(b) : c[Len(a) + i] = b[i]
  BY ConcatFacts
<1>2. Len(a) \in Nat /\ Len(b) \in Nat /\ k \in Nat /\ k <= Len(a)
  OBVIOUS
<1> HIDE DEF c
<1>3. /\ u \in Seq(S) /\ Len(u) = Len(c) - k
      /\ \A i \in 1..(Len(c) - k) : u[i] = c[k + i]
  <2>1. k + 1 \in 1..(Len(c) + 1) /\ Len(c) \in k..Len(c) /\ (k + 1) - 1 = k
    BY <1>1, <1>2
  <2>2. /\ u \in Seq(S) /\ Len(u) = Len(c) - (k + 1) + 1
        /\ \A i \in 1..(Len(c) - (k + 1) + 1) : u[i] = c[k + 1 + i - 1]
    BY <1>1, <2>1, MiddleFacts
  <2> HIDE DEF u
  <2>3. Len(c) \in Nat /\ k \in Nat
    BY <1>1, <1>2
  <2>4. Len(c) - (k + 1) + 1 = Len(c) - k /\ \A i \in 1..(Len(c) - k) : k + 1 + i - 1 = k + i
    BY ONLY <2>3
  <2> QED
    BY ONLY <2>2, <2>4
<1>4. /\ r \in Seq(S) /\ Len(r) = Len(a) - k
      /\ \A i \in 1..(Len(a) - k) : r[i] = a[k + i]
  <2>1. k + 1 \in 1..(Len(a) + 1) /\ Len(a) \in k..Len(a) /\ (k + 1) - 1 = k
    BY <1>2
  <2>2. /\ r \in Seq(S) /\ Len(r) = Len(a) - (k + 1) + 1
        /\ \A i \in 1..(Len(a) - (k + 1) + 1) : r[i] = a[k + 1 + i - 1]
    BY <2>1, MiddleFacts
  <2> HIDE DEF r
  <2> QED
    BY <1>2, <2>2
<1> HIDE DEF u, r
<1>5. /\ v \in Seq(S) /\ Len(v) = Len(r) + Len(b)
      /\ \A i \in 1..Len(r) : v[i] = r[i]
      /\ \A i \in 1..Len(b) : v[Len(r) + i] = b[i]
  <2>1. r \in Seq(S)
    BY <1>4
  <2> QED
    BY <2>1, ConcatFacts
<1> HIDE DEF v
<1>6. Len(u) = Len(v)
  BY <1>1, <1>2, <1>3, <1>4, <1>5
<1>7. ASSUME NEW i \in 1..Len(u) PROVE u[i] = v[i]
  <2>1. CASE i <= Len(r)
    <3>1. i \in 1..Len(r) /\ i \in 1..(Len(a) - k) /\ k + i \in 1..Len(a)
      BY <1>2, <1>4, <2>1
    <3>2. i \in 1..(Len(c) - k)
      BY <1>3
    <3> QED
      BY <1>1, <1>3, <1>4, <1>5, <3>1, <3>2
  <2>2. CASE i > Len(r)
    <3> DEFINE j == i - Len(r)
    <3>1. j \in 1..Len(b) /\ i = Len(r) + j /\ k + i = Len(a) + j
      BY <1>1, <1>2, <1>3, <1>4, <2>2
    <3> HIDE DEF j
    <3> QED
      BY <1>1, <1>2, <1>3, <1>5, <3>1
  <2> QED
    BY <1>2, <1>4, <2>1, <2>2
<1>8. u = v
  BY <1>3, <1>5, <1>6, <1>7, EqualSeqs
<1> QED
  BY <1>8 DEF u, v, c, r

\* A sequence is its first n elements and the rest.
LEMMA CutInTwo ==
  ASSUME NEW S, NEW s \in Seq(S), NEW n \in 0..Len(s)
  PROVE  /\ SubSeq(s, 1, n) \in Seq(S) /\ SubSeq(s, n + 1, Len(s)) \in Seq(S)
         /\ Len(SubSeq(s, n + 1, Len(s))) = Len(s) - n
         /\ s = SubSeq(s, 1, n) \o SubSeq(s, n + 1, Len(s))
<1>1. Len(s) \in n..Len(s) /\ n + 1 \in 1..(Len(s) + 1) /\ Len(s) \in (n + 1 - 1)..Len(s)
  OBVIOUS
<1>2. /\ SubSeq(s, n + 1, Len(s)) \in Seq(S)
      /\ Len(SubSeq(s, n + 1, Len(s))) = Len(s) - (n + 1) + 1
  BY <1>1, MiddleFacts
<1>3. SubSeq(s, 1, n) \o SubSeq(s, n + 1, Len(s)) = SubSeq(s, 1, Len(s))
  BY <1>1, ExtendBlock
<1>4. SubSeq(s, 1, n) \in Seq(S) /\ SubSeq(s, 1, Len(s)) = s
  BY SubSeqFacts, WholePrefix
<1>5. Len(s) - (n + 1) + 1 = Len(s) - n
  OBVIOUS
<1> QED
  BY <1>2, <1>3, <1>4, <1>5

\* Concatenation: the empty sequence and the order of evaluation.
LEMMA ConcatLaws ==
  ASSUME NEW S, NEW s \in Seq(S), NEW t \in Seq(S), NEW u \in Seq(S)
  PROVE  /\ <<>> \in Seq(S) /\ <<>> \o s = s /\ s \o <<>> = s
         /\ (s \o t) \o u = s \o (t \o u)
         /\ s \o t \in Seq(S)
<1>1. <<>> \o s = s /\ s \o <<>> = s
  BY ConcatEmptySeq
<1>2. (s \o t) \o u = s \o (t \o u)
  BY ConcatAssociative
<1>3. <<>> \in Seq(S) /\ s \o t \in Seq(S)
  OBVIOUS
<1> QED
  BY <1>1, <1>2, <1>3

\* A prefix stays one when more is appended.
LEMMA PrefixOfConcat ==
  ASSUME NEW S, NEW s \in Seq(S), NEW t \in Seq(S), NEW u \in Seq(S),
         t = s \o u
  PROVE  IsPrefix(s, t)
<1>1. Len(t) = Len(s) + Len(u) /\ \A i \in 1..Len(s) : t[i] = s[i]
  BY ConcatFacts
<1>2. Len(s) \in Nat /\ Len(u) \in Nat
  OBVIOUS
<1>3. Len(s) <= Len(t) /\ Len(s) \in 0..Len(t) /\ Len(s) \in 0..Len(s)
  BY <1>1, <1>2
<1>4. SubSeq(t, 1, Len(s)) = SubSeq(s, 1, Len(s))
  <2>1. /\ SubSeq(t, 1, Len(s)) \in Seq(S) /\ Len(SubSeq(t, 1, Len(s))) = Len(s)
        /\ \A i \in 1..Len(s) : SubSeq(t, 1, Len(s))[i] = t[i]
    BY <1>3, SubSeqFacts
  <2>2. SubSeq(s, 1, Len(s)) = s
    BY WholePrefix
  <2> QED
    BY <1>1, <2>1, <2>2, EqualSeqs
<1> QED
  BY <1>3, <1>4 DEF IsPrefix

\* The first part of a concatenation is a prefix of it of its own length.
LEMMA FirstPart ==
  ASSUME NEW S, NEW s \in Seq(S), NEW t \in Seq(S), NEW w, w = s \o t
  PROVE  /\ Len(s) \in 0..Len(w) /\ s = SubSeq(w, 1, Len(s))
         /\ Len(s) = Len(w) <=> t = <<>>
<1>1. w \in Seq(S) /\ Len(w) = Len(s) + Len(t) /\ \A i \in 1..Len(s) : w[i] = s[i]
  BY ConcatFacts
<1>2. Len(s) \in 0..Len(w) /\ Len(s) \in Nat /\ Len(t) \in Nat
  BY <1>1
<1>3. SubSeq(w, 1, Len(s)) \in Seq(S) /\ Len(SubSeq(w, 1, Len(s))) = Len(s)
      /\ \A i \in 1..Len(s) : SubSeq(w, 1, Len(s))[i] = w[i]
  <2> DEFINE n == Len(s)
  <2>1. n \in 0..Len(w)
    BY <1>2
  <2> HIDE DEF n
  <2> QED
    BY <1>1, <2>1 DEF n
<1> DEFINE p == SubSeq(w, 1, Len(s))
<1>4. p \in Seq(S) /\ Len(p) = Len(s) /\ \A i \in 1..Len(s) : p[i] = s[i]
  BY <1>1, <1>3
<1> HIDE DEF p
<1>5. p = s
  BY <1>4, SeqEqual
<1>6. t = <<>> <=> Len(t) = 0
  BY EmptySeq, Zenon
<1>7. Len(s) = Len(w) <=> t = <<>>
  BY <1>1, <1>2, <1>6
<1>8. s = SubSeq(w, 1, Len(s))
  BY <1>5 DEF p
<1> QED
  BY <1>2, <1>7, <1>8

-----------------------------------------------------------------------------
(* Flattened sequences *)

\* The partial results of FlattenSeq
LEMMA FlattenParts ==
  ASSUME NEW S, NEW ss \in Seq(Seq(S)), ss # <<>>
  PROVE  \E f \in [1..Len(ss) -> Seq(S)] :
            /\ FlattenSeq(ss) = f[Len(ss)]
            /\ \A i \in 1..Len(ss) : f[i] = IF i = 1 THEN ss[i] ELSE f[i - 1] \o ss[i]
<1> DEFINE L == Len(ss)
           D == 1..L
           R == Seq(S)
           Value(f, i) == IF i = 1 THEN ss[i] ELSE f[i - 1] \o ss[i]
           size == [i \in D |-> i]
           next == [i \in D |-> IF i = 1 THEN i ELSE i - 1]
           base == [i \in D |-> ss[i]]
           join == [i \in D |-> [r \in R |-> r \o ss[i]]]
<1>1. L \in Nat /\ L >= 1 /\ \A i \in D : ss[i] \in R
  OBVIOUS
<1>2. size \in [D -> Nat] /\ next \in [D -> D] /\ base \in [D -> R]
  BY <1>1
<1>3. join \in [D -> [R -> R]]
  <2>1. \A i \in D : \A r \in R : r \o ss[i] \in R
    BY <1>1
  <2> QED
    BY <2>1
<1>4. PICK f : Solves(f, D, R, size, next, base, join)
  <2>1. Recursion(D, R, size, next, base, join)
    <3> HIDE DEF D, R, size, next, base, join
    <3> QED
      BY <1>2, <1>3 DEF Recursion
  <2> HIDE DEF D, R, size, next, base, join
  <2> QED
    BY <2>1, RecursionExists
<1>5. /\ f \in [D -> R]
      /\ \A d \in D : f[d] = RecursionStep(f, d, size, next, base, join)
  <2> HIDE DEF D, R, size, next, base, join
  <2> QED
    BY <1>4 DEF Solves
<1>6. ASSUME NEW i \in D PROVE f[i] = Value(f, i)
  <2>1. CASE i = 1
    <3>1. ~(size[next[i]] < size[i])
      BY <2>1
    <3>2. f[i] = base[i]
      <4> HIDE DEF D, R, size, next, base, join
      <4> QED
        BY <1>5, <3>1 DEF RecursionStep
    <3> QED
      BY <2>1, <3>2
  <2>2. CASE i # 1
    <3>1. i - 1 \in D /\ next[i] = i - 1 /\ size[next[i]] < size[i]
      BY <1>1, <2>2
    <3>2. f[i] = join[i][f[i - 1]]
      <4> HIDE DEF D, R, size, next, base, join
      <4> QED
        BY <1>5, <3>1 DEF RecursionStep
    <3>3. f[i - 1] \in R
      BY <1>5, <3>1
    <3> QED
      BY <2>2, <3>2, <3>3
  <2> QED
    BY <2>1, <2>2
<1>7. f = [i \in D |-> Value(f, i)]
  <2> HIDE DEF D, Value
  <2> QED
    BY <1>5, <1>6
<1> DEFINE F == CHOOSE g : g = [i \in D |-> Value(g, i)]
<1>8. FlattenSeq(ss) = F[L]
  BY <1>1 DEF FlattenSeq
<1>9. F = [i \in D |-> Value(F, i)]
  BY <1>7, Zenon
<1> HIDE DEF F
<1>10. \A i \in D : F[i] = Value(F, i)
  BY <1>9, Zenon
<1>11. F \in [D -> R]
  <2> DEFINE Bad == {i \in D : F[i] \notin R}
  <2>1. ASSUME Bad # {} PROVE FALSE
    <3>1. Bad \in SUBSET Nat
      BY <1>1
    <3>2. PICK i \in Bad : \A j \in Bad : i <= j
      <4> HIDE DEF Bad
      <4> QED
        BY <2>1, <3>1, SmallestExists
    <3>3. CASE i = 1
      BY <1>1, <1>10, <3>2, <3>3
    <3>4. CASE i # 1
      <4>1. i - 1 \in D /\ i - 1 \notin Bad
        BY <1>1, <3>2, <3>4
      <4>2. F[i - 1] \in R /\ ss[i] \in R
        BY <1>1, <3>2, <4>1
      <4>3. F[i] = F[i - 1] \o ss[i]
        BY <1>10, <3>2, <3>4
      <4>4. F[i - 1] \o ss[i] \in R
        BY <4>2
      <4> HIDE DEF R
      <4> QED
        BY <3>2, <4>3, <4>4
    <3> QED
      BY <3>3, <3>4
  <2>2. \A i \in D : F[i] \in R
    BY <2>1
  <2>3. F = [i \in D |-> F[i]]
    BY <1>9, <1>10
  <2> QED
    BY <2>2, <2>3
<1> QED
  BY <1>8, <1>10, <1>11

LEMMA FlattenEmpty ==
  ASSUME NEW S, NEW ss \in Seq(Seq(S)), ss = <<>>
  PROVE  FlattenSeq(ss) = <<>>
<1>1. Len(ss) = 0
  OBVIOUS
<1> QED
  BY <1>1 DEF FlattenSeq

LEMMA FlattenType ==
  ASSUME NEW S, NEW ss \in Seq(Seq(S))
  PROVE  FlattenSeq(ss) \in Seq(S)
<1>1. CASE ss = <<>>
  <2>1. FlattenSeq(ss) = <<>>
    BY <1>1, FlattenEmpty, Zenon
  <2>2. <<>> \in Seq(S)
    OBVIOUS
  <2> QED
    BY <2>1, <2>2, Zenon
<1>2. CASE ss # <<>>
  <2>1. PICK f \in [1..Len(ss) -> Seq(S)] : FlattenSeq(ss) = f[Len(ss)]
    BY <1>2, FlattenParts
  <2>2. Len(ss) \in 1..Len(ss)
    BY <1>2
  <2> QED
    BY <2>1, <2>2
<1> QED
  BY <1>1, <1>2

\* One more sequence at the end
LEMMA FlattenAppend ==
  ASSUME NEW S, NEW ss \in Seq(Seq(S)), NEW x \in Seq(S)
  PROVE  FlattenSeq(Append(ss, x)) = FlattenSeq(ss) \o x
<1> DEFINE tt == Append(ss, x)
           L == Len(ss)
<1>1. /\ tt \in Seq(Seq(S)) /\ Len(tt) = L + 1 /\ L \in Nat
      /\ (\A i \in 1..L : tt[i] = ss[i]) /\ tt[L + 1] = x /\ tt # <<>>
  <2>1. /\ tt \in Seq(Seq(S)) /\ Len(tt) = L + 1 /\ L \in Nat
        /\ (\A i \in 1..L : tt[i] = ss[i]) /\ tt[L + 1] = x
    BY AppendFacts
  <2> QED
    BY <2>1, NonEmptyLen
<1> HIDE DEF tt
<1>2. PICK g \in [1..(L + 1) -> Seq(S)] :
         /\ FlattenSeq(tt) = g[L + 1]
         /\ \A i \in 1..(L + 1) : g[i] = IF i = 1 THEN tt[i] ELSE g[i - 1] \o tt[i]
  <2>1. \E g \in [1..Len(tt) -> Seq(S)] :
          /\ FlattenSeq(tt) = g[Len(tt)]
          /\ \A i \in 1..Len(tt) : g[i] = IF i = 1 THEN tt[i] ELSE g[i - 1] \o tt[i]
    BY ONLY <1>1, FlattenParts, ZenonT(30)
  <2>2. Len(tt) = L + 1
    BY <1>1
  <2> QED
    BY <2>1, <2>2, Zenon
<1>3. CASE L = 0
  <2>1. FlattenSeq(tt) = x
    BY <1>1, <1>2, <1>3
  <2>2. FlattenSeq(ss) = <<>>
    BY <1>3, FlattenEmpty, NonEmptyLen
  <2>3. <<>> \o x = x
    OBVIOUS
  <2> QED
    BY <2>1, <2>2, <2>3 DEF tt
<1>4. CASE L # 0
  <2>1. PICK f \in [1..L -> Seq(S)] :
           /\ FlattenSeq(ss) = f[L]
           /\ \A i \in 1..L : f[i] = IF i = 1 THEN ss[i] ELSE f[i - 1] \o ss[i]
    BY <1>4, FlattenParts, NonEmptyLen
  <2> DEFINE Bad == {i \in 1..L : f[i] # g[i]}
  <2>2. ASSUME Bad # {} PROVE FALSE
    <3>1. Bad \in SUBSET Nat
      OBVIOUS
    <3>2. PICK i \in Bad : \A j \in Bad : i <= j
      <4> HIDE DEF Bad
      <4> QED
        BY <2>2, <3>1, SmallestExists
    <3>3. i \in 1..L /\ i \in 1..(L + 1) /\ f[i] # g[i] /\ tt[i] = ss[i]
      BY <1>1, <3>2
    <3>4. CASE i = 1
      BY <1>2, <2>1, <3>3, <3>4
    <3>5. CASE i # 1
      <4>1. i - 1 \in 1..L /\ i - 1 \notin Bad
        <5> HIDE DEF L, Bad
        <5> QED
          BY <1>1, <3>2, <3>3, <3>5
      <4>2. f[i - 1] = g[i - 1]
        BY <4>1
      <4>3. f[i] = f[i - 1] \o ss[i] /\ g[i] = g[i - 1] \o tt[i]
        BY <1>2, <2>1, <3>3, <3>5
      <4> QED
        BY <3>3, <4>2, <4>3, Zenon
    <3> QED
      BY <3>4, <3>5
  <2>3. f[L] = g[L]
    <3>1. L \in 1..L
      BY <1>1, <1>4
    <3> QED
      BY <2>2, <3>1, Zenon
  <2>4. L + 1 \in 1..(L + 1) /\ (L + 1) - 1 = L /\ L + 1 # 1
    BY <1>1, <1>4
  <2>5. g[L + 1] = g[(L + 1) - 1] \o tt[L + 1]
    BY <1>2, <2>4, Zenon
  <2>6. g[L + 1] = g[L] \o x
    BY <1>1, <2>4, <2>5, Zenon
  <2>7. FlattenSeq(tt) = FlattenSeq(ss) \o x
    BY <1>2, <2>1, <2>3, <2>6, Zenon
  <2> QED
    BY <2>7 DEF tt
<1> QED
  BY <1>3, <1>4

\* Two sequences of sequences
LEMMA FlattenConcat ==
  ASSUME NEW S, NEW a \in Seq(Seq(S))
  PROVE  \A b \in Seq(Seq(S)) : FlattenSeq(a \o b) = FlattenSeq(a) \o FlattenSeq(b)
<1> DEFINE Q == Seq(Seq(S))
           Good(b) == FlattenSeq(a \o b) = FlattenSeq(a) \o FlattenSeq(b)
           Bad == {n \in Nat : \E b \in Q : Len(b) = n /\ ~Good(b)}
<1>0. FlattenSeq(a) \in Seq(S)
  BY FlattenType
<1>1. ASSUME NEW b \in Q, b = <<>> PROVE Good(b)
  <2>1. a \o b = a
    BY <1>1, ConcatEmptySeq, Zenon
  <2>0. FlattenSeq(b) = <<>>
    BY <1>1, FlattenEmpty, Zenon
  <2>2. FlattenSeq(a) \o <<>> = FlattenSeq(a)
    BY <1>0, ConcatEmptySeq, Zenon
  <2> QED
    BY <2>0, <2>1, <2>2, Zenon
<1>2. ASSUME NEW b \in Q, b # <<>>, Good(Front(b)) PROVE Good(b)
  <2> DEFINE f == Front(b)
             x == Last(b)
  <2>1. f \in Q /\ x \in Seq(S) /\ Append(f, x) = b
    BY <1>2, FrontFacts, FrontLast
  <2>2. FlattenSeq(a \o f) = FlattenSeq(a) \o FlattenSeq(f)
    BY <1>2
  <2> HIDE DEF f, x
  <2>3. a \o b = Append(a \o f, x) /\ a \o f \in Q
    <3> DEFINE o == <<x>>
    <3>1. o \in Q /\ a \o f \in Q
      BY <2>1
    <3>2. b = f \o o /\ (a \o f) \o o = Append(a \o f, x)
      <4> HIDE DEF Q
      <4> QED
        BY <2>1, <3>1, ConcatOne DEF Q
    <3> HIDE DEF o, Q
    <3>3. (a \o f) \o o = a \o (f \o o)
      <4> DEFINE R == Seq(S)
      <4>1. a \in Seq(R) /\ f \in Seq(R) /\ o \in Seq(R)
        BY <2>1, <3>1 DEF Q
      <4> HIDE DEF R
      <4> QED
        BY ONLY <4>1, ConcatLaws, SMTT(30)
    <3> QED
      BY <3>1, <3>2, <3>3, Zenon
  <2>4. FlattenSeq(a \o b) = FlattenSeq(a \o f) \o x
    BY <2>1, <2>3, FlattenAppend
  <2>5. FlattenSeq(b) = FlattenSeq(f) \o x /\ FlattenSeq(f) \in Seq(S)
    BY <2>1, FlattenAppend, FlattenType
  <2> DEFINE u == FlattenSeq(a)
             v == FlattenSeq(f)
  <2>6. (u \o v) \o x = u \o (v \o x)
    <3>1. u \in Seq(S) /\ v \in Seq(S)
      BY <1>0, <2>5
    <3>2. x \in Seq(S)
      BY <2>1
    <3> HIDE DEF u, v
    <3> QED
      BY ONLY <3>1, <3>2, ConcatLaws, SMTT(30)
  <2> QED
    BY <2>2, <2>4, <2>5, <2>6
<1>3. ASSUME Bad # {} PROVE FALSE
  <2>0. Bad \in SUBSET Nat
    OBVIOUS
  <2>1. PICK n \in Bad : \A m \in Bad : n <= m
    <3> HIDE DEF Bad
    <3> QED
      BY <1>3, <2>0, SmallestExists
  <2>2. PICK b \in Q : Len(b) = n /\ ~Good(b)
    OBVIOUS
  <2> HIDE DEF Good
  <2>3. b # <<>>
    BY <1>1, <2>2
  <2>4. Front(b) \in Q /\ Len(Front(b)) = Len(b) - 1 /\ Len(b) >= 1
    BY <2>3, FrontFacts
  <2>5. Len(Front(b)) \in Nat /\ Len(Front(b)) \notin Bad
    BY <2>0, <2>1, <2>2, <2>4
  <2>6. Good(Front(b))
    BY <2>4, <2>5
  <2> QED
    BY <1>2, <2>2, <2>3, <2>6
<1> SUFFICES ASSUME NEW b \in Q PROVE Good(b)
  OBVIOUS
<1> HIDE DEF Good
<1>4. Len(b) \in Nat
  OBVIOUS
<1> QED
  BY <1>3, <1>4

LEMMA FlattenFirst ==
  ASSUME NEW S, NEW x \in Seq(S), NEW ss \in Seq(Seq(S))
  PROVE  FlattenSeq(<<x>> \o ss) = x \o FlattenSeq(ss)
<1> DEFINE e == <<>>
           o == <<x>>
<1>1. o \in Seq(Seq(S)) /\ e \in Seq(Seq(S)) /\ o = Append(e, x)
  OBVIOUS
<1>2. FlattenSeq(e) = <<>>
  BY <1>1, FlattenEmpty
<1> HIDE DEF e, o
<1>3. FlattenSeq(o) = <<>> \o x
  BY <1>1, <1>2, FlattenAppend
<1>4. <<>> \o x = x
  OBVIOUS
<1>5. FlattenSeq(o \o ss) = FlattenSeq(o) \o FlattenSeq(ss)
  BY <1>1, FlattenConcat
<1> QED
  BY <1>3, <1>4, <1>5 DEF o
=============================================================================
