----------------------------- MODULE ArcaProofs -----------------------------
(* Safety of Arca for every number of connections, all keys and values, and *)
(* whatever other clients send.                                            *)
EXTENDS Arca, DataLemmas

-----------------------------------------------------------------------------
(* The parser                                                              *)

Parses == [found : {"command", "more", "error", "throws"}, cmd : Seq(Bulks), len : Nat]

Feeds == [ready : Seq(Seq(Bulks)), rest : Seq(Symbols), end : {"more", "error", "throws"}]

LEMMA ArityFacts ==
  ASSUME NEW h \in DOMAIN Arity
  PROVE  Arity[h] \in 0..3 /\ h \in Headers
BY DEF Arity, Headers

\* Parts without a header are bulk strings.
LEMMA PartsFacts ==
  ASSUME NEW s \in Seq(Symbols), ToSet(s) \cap Headers = {}
  PROVE  s \in Seq(Bulks)
<1>1. ASSUME NEW i \in 1..Len(s) PROVE s[i] \in Bulks
  BY DEF ToSet, Symbols
<1> QED
  BY <1>1

\* The bulks that have arrived of an array that announces n.
Parts(buf, n) == SubSeq(buf, 2, IF n < Len(buf) THEN n + 1 ELSE Len(buf))

LEMMA PartsOf ==
  ASSUME NEW buf \in Seq(Symbols), buf # <<>>, NEW n \in Nat
  PROVE  /\ Parts(buf, n) \in Seq(Symbols)
         /\ Len(Parts(buf, n)) = (IF n < Len(buf) THEN n ELSE Len(buf) - 1)
         /\ \A i \in 1..Len(Parts(buf, n)) : Parts(buf, n)[i] = buf[i + 1]
<1> DEFINE m == IF n < Len(buf) THEN n + 1 ELSE Len(buf)
<1>1. Len(buf) \in Nat /\ Len(buf) >= 1
  BY NonEmptyLen
<1>2. m \in 1..Len(buf) /\ 2 \in 1..(Len(buf) + 1) /\ m \in (2 - 1)..Len(buf)
  BY <1>1
<1>3. m - 1 = (IF n < Len(buf) THEN n ELSE Len(buf) - 1)
  BY <1>1
<1> HIDE DEF m
<1>4. /\ SubSeq(buf, 2, m) \in Seq(Symbols) /\ Len(SubSeq(buf, 2, m)) = m - 2 + 1
      /\ \A i \in 1..(m - 2 + 1) : SubSeq(buf, 2, m)[i] = buf[2 + i - 1]
  BY <1>2, MiddleFacts
<1>5. m - 2 + 1 = m - 1 /\ \A i \in 1..(m - 1) : 2 + i - 1 = i + 1
  BY <1>2
<1>6. Parts(buf, n) = SubSeq(buf, 2, m)
  BY DEF m, Parts
<1> QED
  BY <1>3, <1>4, <1>5, <1>6

LEMMA ParseType ==
  ASSUME NEW buf \in Seq(Symbols)
  PROVE  /\ parse_one(buf) \in Parses
         /\ parse_one(buf).found = "command" =>
              parse_one(buf).len \in 1..Len(buf)
<1>1. CASE buf = <<>>
  <2>1. parse_one(buf) = [found |-> "more", cmd |-> <<>>, len |-> 0]
    BY <1>1 DEF parse_one
  <2> QED
    BY <2>1 DEF Parses
<1>2. CASE buf # <<>> /\ buf[1] \notin Headers
  <2>1. parse_one(buf) = [found |-> "command", cmd |-> <<buf[1]>>, len |-> 1]
    BY <1>2 DEF parse_one
  <2>2. buf[1] \in Bulks /\ 1 \in 1..Len(buf)
    BY <1>2 DEF Symbols
  <2>3. <<buf[1]>> \in Seq(Bulks)
    BY <2>2
  <2> QED
    BY <2>1, <2>2, <2>3 DEF Parses
<1>3. CASE buf # <<>> /\ buf[1] \in Headers /\ buf[1] \notin DOMAIN Arity
  <2>1. \/ parse_one(buf) = [found |-> "throws", cmd |-> <<>>, len |-> 0]
        \/ parse_one(buf) = [found |-> "error", cmd |-> <<>>, len |-> 0]
    BY <1>3 DEF parse_one
  <2>2. <<>> \in Seq(Bulks) /\ 0 \in Nat
    OBVIOUS
  <2>3. CASE parse_one(buf) = [found |-> "throws", cmd |-> <<>>, len |-> 0]
    BY <2>2, <2>3 DEF Parses
  <2>4. CASE parse_one(buf) = [found |-> "error", cmd |-> <<>>, len |-> 0]
    BY <2>2, <2>4 DEF Parses
  <2> QED
    BY <2>1, <2>3, <2>4
<1>4. CASE buf # <<>> /\ buf[1] \in DOMAIN Arity
  <2> DEFINE n == Arity[buf[1]]
             parts == Parts(buf, n)
  <2>1. n \in Nat /\ buf[1] \in Headers
    BY <1>4, ArityFacts
  <2>2. parse_one(buf) = IF ToSet(parts) \cap Headers # {}
                         THEN [found |-> "error", cmd |-> <<>>, len |-> 0]
                         ELSE IF Len(parts) < n THEN [found |-> "more", cmd |-> <<>>, len |-> 0]
                         ELSE [found |-> "command", cmd |-> parts, len |-> n + 1]
    BY <1>4, <2>1 DEF parse_one, Parts
  <2>3. /\ parts \in Seq(Symbols)
        /\ Len(parts) = (IF n < Len(buf) THEN n ELSE Len(buf) - 1)
    BY <1>4, <2>1, PartsOf
  <2>4. Len(buf) \in Nat /\ Len(buf) >= 1
    BY <1>4, NonEmptyLen
  <2> HIDE DEF n, parts
  <2>5. CASE ToSet(parts) \cap Headers # {}
    BY <2>2, <2>5 DEF Parses
  <2>6. CASE ToSet(parts) \cap Headers = {}
    <3>1. parts \in Seq(Bulks)
      BY <2>3, <2>6, PartsFacts
    <3>2. CASE Len(parts) < n
      BY <2>2, <2>6, <3>2 DEF Parses
    <3>3. CASE ~(Len(parts) < n)
      <4>1. parse_one(buf) = [found |-> "command", cmd |-> parts, len |-> n + 1]
        BY <2>2, <2>6, <3>3
      <4>2. n + 1 \in 1..Len(buf) /\ n + 1 \in Nat
        BY <2>1, <2>3, <2>4, <3>3
      <4> QED
        BY <3>1, <4>1, <4>2 DEF Parses
    <3> QED
      BY <3>2, <3>3
  <2> QED
    BY <2>5, <2>6
<1> QED
  BY <1>1, <1>2, <1>3, <1>4

\* What is decided about the front of a buffer stays so when more arrives.
LEMMA ParseExtends ==
  ASSUME NEW a \in Seq(Symbols), NEW b \in Seq(Symbols), parse_one(a).found # "more"
  PROVE  parse_one(a \o b) = parse_one(a)
<1> DEFINE c == a \o b
<1>1. /\ c \in Seq(Symbols) /\ Len(c) = Len(a) + Len(b)
      /\ \A i \in 1..Len(a) : c[i] = a[i]
  BY ConcatFacts
<1>2. a # <<>>
  BY DEF parse_one
<1>3. Len(a) \in Nat /\ Len(a) >= 1 /\ Len(b) \in Nat
  BY <1>2, NonEmptyLen
<1>4. c # <<>> /\ c[1] = a[1]
  BY <1>1, <1>3
<1> HIDE DEF c
<1>5. CASE a[1] \notin DOMAIN Arity
  BY <1>2, <1>4, <1>5 DEF parse_one, Headers
<1>6. CASE a[1] \in DOMAIN Arity
  <2> DEFINE n == Arity[a[1]]
             p == Parts(a, n)
             q == Parts(c, n)
  <2>1. n \in Nat /\ a[1] \in Headers
    BY <1>6, ArityFacts
  <2>2. parse_one(a) = IF ToSet(p) \cap Headers # {}
                       THEN [found |-> "error", cmd |-> <<>>, len |-> 0]
                       ELSE IF Len(p) < n THEN [found |-> "more", cmd |-> <<>>, len |-> 0]
                       ELSE [found |-> "command", cmd |-> p, len |-> n + 1]
    BY <1>2, <1>6, <2>1 DEF parse_one, Parts
  <2>3. parse_one(c) = IF ToSet(q) \cap Headers # {}
                       THEN [found |-> "error", cmd |-> <<>>, len |-> 0]
                       ELSE IF Len(q) < n THEN [found |-> "more", cmd |-> <<>>, len |-> 0]
                       ELSE [found |-> "command", cmd |-> q, len |-> n + 1]
    BY <1>4, <1>6, <2>1 DEF parse_one, Parts
  <2>4. /\ p \in Seq(Symbols) /\ Len(p) = (IF n < Len(a) THEN n ELSE Len(a) - 1)
        /\ \A i \in 1..Len(p) : p[i] = a[i + 1]
    BY <1>2, <2>1, PartsOf
  <2>5. /\ q \in Seq(Symbols) /\ Len(q) = (IF n < Len(c) THEN n ELSE Len(c) - 1)
        /\ \A i \in 1..Len(q) : q[i] = c[i + 1]
    BY <1>1, <1>4, <2>1, PartsOf
  <2> HIDE DEF n, p, q
  <2>6. Len(p) <= Len(q) /\ \A i \in 1..Len(p) : q[i] = p[i]
    <3>1. Len(p) \in Nat /\ Len(q) \in Nat /\ Len(p) <= Len(q)
      BY <1>1, <1>3, <2>1, <2>4, <2>5
    <3>2. \A i \in 1..Len(p) : i \in 1..Len(q) /\ i + 1 \in 1..Len(a)
      BY <1>3, <2>1, <2>4, <3>1
    <3> QED
      BY <1>1, <2>4, <2>5, <3>1, <3>2
  <2>7. CASE ToSet(p) \cap Headers # {}
    <3>1. PICK i \in 1..Len(p) : p[i] \in Headers
      BY <2>4, <2>7 DEF ToSet
    <3>2. i \in 1..Len(q) /\ q[i] \in Headers
      BY <2>4, <2>5, <2>6, <3>1
    <3>3. ToSet(q) \cap Headers # {}
      BY <2>5, <3>2 DEF ToSet
    <3> QED
      BY <2>2, <2>3, <2>7, <3>3 DEF c
  <2>8. CASE ToSet(p) \cap Headers = {}
    <3>1. ~(Len(p) < n)
      BY <2>2, <2>8
    <3>2. Len(p) = n /\ Len(q) = n
      BY <1>1, <1>3, <2>1, <2>4, <2>5, <3>1
    <3>3. p = q
      BY <2>4, <2>5, <2>6, <3>2, EqualSeqs
    <3> QED
      BY <2>2, <2>3, <3>3 DEF c
  <2> QED
    BY <2>7, <2>8
<1> QED
  BY <1>5, <1>6 DEF c

\* What is left of a buffer after its first command
After(buf) == SubSeq(buf, parse_one(buf).len + 1, Len(buf))

\* The first command of a buffer in front of what was found in the rest
Joined(buf, f) == IF parse_one(buf).cmd = <<>> THEN f
                  ELSE [f EXCEPT !.ready = <<parse_one(buf).cmd>> \o @]

LEMMA AfterFacts ==
  ASSUME NEW buf \in Seq(Symbols), parse_one(buf).found = "command"
  PROVE  After(buf) \in Seq(Symbols) /\ Len(After(buf)) < Len(buf)
<1> DEFINE n == parse_one(buf).len
<1>1. n \in 1..Len(buf) /\ n \in 0..Len(buf)
  BY ParseType DEF Parses
<1> HIDE DEF n
<1>2. /\ SubSeq(buf, n + 1, Len(buf)) \in Seq(Symbols)
      /\ Len(SubSeq(buf, n + 1, Len(buf))) = Len(buf) - n
  BY <1>1, CutInTwo
<1>3. After(buf) = SubSeq(buf, n + 1, Len(buf))
  BY DEF n, After
<1> QED
  BY <1>1, <1>2, <1>3

LEMMA JoinedType ==
  ASSUME NEW buf \in Seq(Symbols), NEW f \in Feeds
  PROVE  /\ Joined(buf, f) \in Feeds
         /\ Joined(buf, f).rest = f.rest /\ Joined(buf, f).end = f.end
         /\ Joined(buf, f).ready = IF parse_one(buf).cmd = <<>> THEN f.ready
                                   ELSE <<parse_one(buf).cmd>> \o f.ready
<1>1. parse_one(buf).cmd \in Seq(Bulks)
  BY ParseType DEF Parses
<1>2. f.ready \in Seq(Seq(Bulks))
  BY DEF Feeds
<1>3. <<parse_one(buf).cmd>> \o f.ready \in Seq(Seq(Bulks))
  <2>1. <<parse_one(buf).cmd>> \in Seq(Seq(Bulks))
    BY <1>1
  <2> QED
    BY <1>2, <2>1, ConcatFacts
<1> QED
  BY <1>3 DEF Feeds, Joined

\* The recursive definition of feed() has a solution.
LEMMA FeedDef ==
  feed = [buf \in Seq(Symbols) |->
            IF parse_one(buf).found # "command"
            THEN [ready |-> <<>>, rest |-> buf, end |-> parse_one(buf).found]
            ELSE Joined(buf, feed[After(buf)])]
<1> DEFINE D == Seq(Symbols)
           Stops(buf) == [ready |-> <<>>, rest |-> buf, end |-> parse_one(buf).found]
           Value(f, buf) == IF parse_one(buf).found # "command" THEN Stops(buf)
                            ELSE Joined(buf, f[After(buf)])
           size == [d \in D |-> Len(d)]
           next == [d \in D |-> IF parse_one(d).found = "command" THEN After(d) ELSE d]
           base == [d \in D |-> IF parse_one(d).found = "command"
                                THEN [ready |-> <<>>, rest |-> d, end |-> "more"]
                                ELSE Stops(d)]
           join == [d \in D |-> [r \in Feeds |-> Joined(d, r)]]
<1>1. size \in [D -> Nat] /\ next \in [D -> D]
  BY AfterFacts
<1>2. base \in [D -> Feeds]
  <2> SUFFICES ASSUME NEW d \in D PROVE base[d] \in Feeds
    OBVIOUS
  <2>1. parse_one(d).found \in {"command", "more", "error", "throws"}
    BY ParseType DEF Parses
  <2>2. <<>> \in Seq(Seq(Bulks))
    OBVIOUS
  <2> QED
    BY <2>1, <2>2 DEF Feeds
<1>3. join \in [D -> [Feeds -> Feeds]]
  BY JoinedType
<1>4. PICK f : Solves(f, D, Feeds, size, next, base, join)
  <2>1. Recursion(D, Feeds, size, next, base, join)
    <3> HIDE DEF D, size, next, base, join
    <3> QED
      BY <1>1, <1>2, <1>3 DEF Recursion
  <2> HIDE DEF D, size, next, base, join
  <2> QED
    BY <2>1, RecursionExists
<1> USE DEF Solves
<1>5. ASSUME NEW d \in D PROVE f[d] = Value(f, d)
  <2>1. CASE parse_one(d).found = "command"
    <3>1. After(d) \in D /\ Len(After(d)) < Len(d)
      BY <2>1, AfterFacts
    <3>2. next[d] = After(d) /\ size[next[d]] < size[d]
      BY <2>1, <3>1
    <3>3. f[d] = join[d][f[After(d)]]
      <4> HIDE DEF size, next, base, join
      <4> QED
        BY <1>4, <3>2 DEF RecursionStep
    <3>4. f[After(d)] \in Feeds
      BY <1>4, <3>1
    <3> QED
      BY <2>1, <3>3, <3>4
  <2>2. CASE parse_one(d).found # "command"
    <3>1. next[d] = d /\ ~(size[next[d]] < size[d])
      BY <2>2
    <3>2. f[d] = base[d]
      <4> HIDE DEF size, next, base, join
      <4> QED
        BY <1>4, <3>1 DEF RecursionStep
    <3> QED
      BY <2>2, <3>2
  <2> QED
    BY <2>1, <2>2
<1>6. f = [buf \in D |-> Value(f, buf)]
  BY <1>4, <1>5
<1>7. feed = CHOOSE g : g = [buf \in D |-> Value(g, buf)]
  BY DEF feed, Joined, After
<1> HIDE DEF D, Value
<1>8. feed = [buf \in D |-> Value(feed, buf)]
  BY <1>6, <1>7
<1> QED
  BY <1>8 DEF D, Value

LEMMA FeedValue ==
  ASSUME NEW buf \in Seq(Symbols)
  PROVE  feed[buf] = IF parse_one(buf).found # "command"
                     THEN [ready |-> <<>>, rest |-> buf, end |-> parse_one(buf).found]
                     ELSE Joined(buf, feed[After(buf)])
BY FeedDef, Zenon

LEMMA FeedType == \A buf \in Seq(Symbols) : feed[buf] \in Feeds
<1> DEFINE Bad == {n \in Nat : \E b \in Seq(Symbols) : Len(b) = n /\ feed[b] \notin Feeds}
<1>1. ASSUME Bad # {} PROVE FALSE
  <2>0. Bad \in SUBSET Nat
    OBVIOUS
  <2>1. PICK n \in Bad : \A m \in Bad : n <= m
    <3> HIDE DEF Bad
    <3> QED
      BY <1>1, <2>0, SmallestExists
  <2>2. PICK b \in Seq(Symbols) : Len(b) = n /\ feed[b] \notin Feeds
    OBVIOUS
  <2>3. CASE parse_one(b).found # "command"
    <3>1. feed[b] = [ready |-> <<>>, rest |-> b, end |-> parse_one(b).found]
      BY <2>3, FeedValue
    <3>2. parse_one(b).found \in {"more", "error", "throws"}
      BY <2>3, ParseType DEF Parses
    <3>3. <<>> \in Seq(Seq(Bulks))
      OBVIOUS
    <3> QED
      BY <2>2, <3>1, <3>2, <3>3 DEF Feeds
  <2>4. CASE parse_one(b).found = "command"
    <3>1. After(b) \in Seq(Symbols) /\ Len(After(b)) < Len(b)
      BY <2>4, AfterFacts
    <3>2. Len(After(b)) \in Nat /\ Len(After(b)) \notin Bad
      BY <2>1, <2>2, <3>1
    <3>3. feed[After(b)] \in Feeds
      BY <3>1, <3>2
    <3>4. feed[b] = Joined(b, feed[After(b)])
      BY <2>4, FeedValue
    <3> QED
      BY <2>2, <3>3, <3>4, JoinedType
  <2> QED
    BY <2>3, <2>4
<1> SUFFICES ASSUME NEW b \in Seq(Symbols) PROVE feed[b] \in Feeds
  OBVIOUS
<1> QED
  BY <1>1

\* Parsing a stream whole, or first a part of it and then what was left over
\* with the rest, finds the same.
InTwoSlices(a, b) == LET g == feed[feed[a].rest \o b]
              IN  [ready |-> feed[a].ready \o g.ready, rest |-> g.rest, end |-> g.end]

LEMMA FeedSlices ==
  ASSUME NEW b \in Seq(Symbols)
  PROVE  \A a \in Seq(Symbols) : feed[a \o b] = InTwoSlices(a, b)
<1> DEFINE Bad == {n \in Nat : \E a \in Seq(Symbols) : Len(a) = n /\ feed[a \o b] # InTwoSlices(a, b)}
<1>1. ASSUME Bad # {} PROVE FALSE
  <2>0. Bad \in SUBSET Nat
    OBVIOUS
  <2>1. PICK n \in Bad : \A m \in Bad : n <= m
    <3> HIDE DEF Bad
    <3> QED
      BY <1>1, <2>0, SmallestExists
  <2>2. PICK a \in Seq(Symbols) : Len(a) = n /\ feed[a \o b] # InTwoSlices(a, b)
    OBVIOUS
  <2>3. a \o b \in Seq(Symbols) /\ feed[a \o b] \in Feeds
    BY FeedType, ConcatFacts
  <2>4. CASE parse_one(a).found # "command"
    <3>1. feed[a] = [ready |-> <<>>, rest |-> a, end |-> parse_one(a).found]
      BY <2>4, FeedValue
    <3>2. feed[a].rest \o b = a \o b /\ feed[a].ready = <<>>
      BY <3>1
    <3> DEFINE g == feed[a \o b]
    <3>3. InTwoSlices(a, b) = [ready |-> <<>> \o g.ready, rest |-> g.rest, end |-> g.end]
      BY <3>2 DEF InTwoSlices
    <3>4. g \in Feeds
      BY <2>3
    <3> HIDE DEF g
    <3>5. <<>> \o g.ready = g.ready
      BY <3>4, ConcatLaws DEF Feeds
    <3>6. g = [ready |-> g.ready, rest |-> g.rest, end |-> g.end]
      BY <3>4 DEF Feeds
    <3> QED
      BY <2>2, <3>3, <3>5, <3>6 DEF g
  <2>5. CASE parse_one(a).found = "command"
    <3> DEFINE r == After(a)
               h == feed[r]
               g == feed[h.rest \o b]
               cmd == parse_one(a).cmd
    <3>1. r \in Seq(Symbols) /\ Len(r) < Len(a)
      BY <2>5, AfterFacts
    <3>2. h \in Feeds
      BY <3>1, FeedType
    <3>3. feed[r \o b] = InTwoSlices(r, b)
      <4>1. Len(r) \in Nat /\ Len(r) \notin Bad
        BY <2>1, <2>2, <3>1
      <4> HIDE DEF r
      <4> QED
        BY <3>1, <4>1
    <3>4. parse_one(a \o b) = parse_one(a)
      BY <2>5, ParseExtends
    <3>5. After(a \o b) = r \o b
      <4> DEFINE k == parse_one(a).len
      <4>1. k \in 0..Len(a)
        BY <2>5, ParseType
      <4> HIDE DEF k
      <4>2. SubSeq(a \o b, k + 1, Len(a \o b)) = SubSeq(a, k + 1, Len(a)) \o b
        BY <4>1, RestOfConcat
      <4> QED
        BY <3>4, <4>2 DEF After, k
    <3>6. feed[a \o b] = Joined(a \o b, feed[r \o b])
      BY <2>3, <2>5, <3>4, <3>5, FeedValue
    <3>7. feed[a] = Joined(a, h)
      BY <2>5, FeedValue
    <3>8. /\ feed[a].rest = h.rest /\ h.rest \in Seq(Symbols)
          /\ feed[a].ready = IF cmd = <<>> THEN h.ready ELSE <<cmd>> \o h.ready
      BY <3>2, <3>7, JoinedType DEF Feeds
    <3>9. h.rest \o b \in Seq(Symbols) /\ g \in Feeds
      BY <3>8, ConcatFacts, FeedType
    <3>10. feed[r \o b] = [ready |-> h.ready \o g.ready, rest |-> g.rest, end |-> g.end]
      BY <3>3 DEF InTwoSlices
    <3>11. InTwoSlices(a, b) = [ready |-> feed[a].ready \o g.ready, rest |-> g.rest, end |-> g.end]
      BY <3>8 DEF InTwoSlices
    <3>12. cmd \in Seq(Bulks)
      BY ParseType DEF Parses
    <3> HIDE DEF r, h, g, cmd
    <3>13. CASE cmd = <<>>
      <4>1. feed[a \o b] = feed[r \o b]
        BY <3>4, <3>6, <3>13 DEF Joined, cmd
      <4> QED
        <5>1. feed[a].ready = h.ready
          BY <3>8, <3>13
        <5> QED
          BY <2>2, <3>10, <3>11, <4>1, <5>1, Zenon
    <3>14. CASE cmd # <<>>
      <4>1. feed[a \o b] = [feed[r \o b] EXCEPT !.ready = <<cmd>> \o @]
        BY <3>4, <3>6, <3>14 DEF Joined, cmd
      <4>2. feed[a \o b] = [ready |-> <<cmd>> \o (h.ready \o g.ready), rest |-> g.rest, end |-> g.end]
        <5> DEFINE x == h.ready \o g.ready
                   f == feed[r \o b]
        <5>1. feed[a \o b] = [f EXCEPT !.ready = <<cmd>> \o f.ready]
          BY <4>1
        <5>2. f = [ready |-> x, rest |-> g.rest, end |-> g.end]
          BY <3>10
        <5> HIDE DEF x, f
        <5>3. f.ready = x
          BY <5>2
        <5>4. feed[a \o b] = [f EXCEPT !.ready = <<cmd>> \o x]
          BY <5>1, <5>3
        <5>5. \A y : [f EXCEPT !.ready = y] = [ready |-> y, rest |-> g.rest, end |-> g.end]
          BY <5>2
        <5> QED
          BY <5>4, <5>5 DEF x
      <4>3. <<cmd>> \in Seq(Seq(Bulks)) /\ h.ready \in Seq(Seq(Bulks)) /\ g.ready \in Seq(Seq(Bulks))
        BY <3>2, <3>9, <3>12 DEF Feeds
      <4>4. <<cmd>> \o (h.ready \o g.ready) = (<<cmd>> \o h.ready) \o g.ready
        <5> DEFINE x == <<cmd>>
                   y == h.ready
                   z == g.ready
                   S == Seq(Bulks)
        <5>1. x \in Seq(S) /\ y \in Seq(S) /\ z \in Seq(S)
          BY <4>3
        <5> HIDE DEF x, y, z, S
        <5>2. x \o (y \o z) = (x \o y) \o z
          BY <5>1, ConcatAssociative, SMTT(30)
        <5> QED
          BY <5>2 DEF x, y, z
      <4> QED
        BY <2>2, <3>8, <3>11, <3>14, <4>2, <4>4
    <3> QED
      BY <3>13, <3>14
  <2> QED
    BY <2>4, <2>5
<1> SUFFICES ASSUME NEW a \in Seq(Symbols) PROVE feed[a \o b] = InTwoSlices(a, b)
  OBVIOUS
<1> QED
  BY <1>1

LEMMA FeedNothing == feed[<<>>] = [ready |-> <<>>, rest |-> <<>>, end |-> "more"]
<1>1. <<>> \in Seq(Symbols)
  OBVIOUS
<1>2. parse_one(<<>>) = [found |-> "more", cmd |-> <<>>, len |-> 0]
  BY DEF parse_one
<1> DEFINE b == <<>>
<1>3. b \in Seq(Symbols) /\ parse_one(b).found = "more"
  BY <1>1, <1>2
<1> HIDE DEF b
<1>4. feed[b] = [ready |-> <<>>, rest |-> b, end |-> parse_one(b).found]
  BY <1>3, FeedValue
<1> QED
  BY <1>3, <1>4 DEF b

\* The parts of a slice parsed in two goes
LEMMA FeedSlice ==
  ASSUME NEW a \in Seq(Symbols), NEW b \in Seq(Symbols)
  PROVE  /\ feed[a] \in Feeds /\ feed[feed[a].rest \o b] \in Feeds
         /\ feed[a \o b].ready = feed[a].ready \o feed[feed[a].rest \o b].ready
         /\ feed[a \o b].rest = feed[feed[a].rest \o b].rest
         /\ feed[a \o b].end = feed[feed[a].rest \o b].end
<1>1. feed[a] \in Feeds /\ feed[a].rest \in Seq(Symbols)
  BY FeedType DEF Feeds
<1>2. feed[a].rest \o b \in Seq(Symbols)
  BY <1>1, ConcatFacts
<1>3. feed[a \o b] = InTwoSlices(a, b)
  BY FeedSlices
<1>4. feed[feed[a].rest \o b] \in Feeds
  BY <1>2, FeedType
<1> DEFINE g == feed[feed[a].rest \o b]
<1>5. feed[a \o b] = [ready |-> feed[a].ready \o g.ready, rest |-> g.rest, end |-> g.end]
  BY <1>3 DEF InTwoSlices
<1> HIDE DEF g
<1>6. /\ feed[a \o b].ready = feed[a].ready \o g.ready
      /\ feed[a \o b].rest = g.rest /\ feed[a \o b].end = g.end
  <2> DEFINE f == feed[a \o b]
             x == feed[a].ready \o g.ready
  <2>1. f = [ready |-> x, rest |-> g.rest, end |-> g.end]
    BY <1>5
  <2> HIDE DEF f, x
  <2>2. f.ready = x /\ f.rest = g.rest /\ f.end = g.end
    BY <2>1
  <2> QED
    BY <2>2 DEF f, x
<1> QED
  BY <1>1, <1>4, <1>6 DEF g

-----------------------------------------------------------------------------
(* The inductive invariant                                                 *)

Replies == Bulks \cup {"+OK", "+PONG", "-ERR", "$-1", "$", ":"}

Commands == {<<"GET", k>> : k \in Keys} \cup {<<"SET", k, v>> : k \in Keys, v \in Values}

Busy == [pc : {"connect", "send", "reply"}, cmd : Commands, buf : Seq(Replies)]

Connections ==
  [client : {"none", "open", "closed"},
   worker : {"none", "start", "read", "dispatch", "write", "fail", "leave", "gone"},
   up : Seq(Symbols), down : Seq(Replies), buf : Seq(Symbols), ready : Seq(Seq(Bulks)),
   out : Seq(Replies), registered : BOOLEAN, shut : BOOLEAN,
   sent : Seq(Symbols), served : Seq(Seq(Bulks))]

\* A worker has commands left exactly while it dispatches; a connection that
\* nobody opened is untouched.
ConnShape(x) == /\ x.worker = "dispatch" <=> x.ready # <<>>
                /\ x.client = "none" => x = NoConn

Ended == {"fail", "leave", "gone"}

\* What was dispatched, is ready and is still to be parsed is what a parser of
\* the whole stream would have found and left.
StreamOK(x) ==
  LET whole == feed[x.sent]
      left == feed[x.buf \o x.up]
  IN  IF x.worker \in Ended THEN IsPrefix(x.served, whole.ready)
      ELSE /\ whole.ready = (x.served \o x.ready) \o left.ready
           /\ whole.rest = left.rest /\ whole.end = left.end

IsSet(cmd) == cmd[1] = "SET" /\ Len(cmd) = 3

\* Every pair that a command of the stream would store is one of P.
KnownIn(x, P) == \A i \in 1..Len(feed[x.sent].ready) :
                   LET cmd == feed[x.sent].ready[i]
                   IN  IsSet(cmd) => <<cmd[2], cmd[3]>> \in P

ConnOK(x, P) == x \in Connections /\ ConnShape(x) /\ StreamOK(x) /\ KnownIn(x, P)

\* A caller: what it is about to set was handed to a set().
CallOK(k, P) == /\ k \in {Idle} \cup Busy
                /\ k.pc # "reply" => k.buf = <<>>
                /\ k.pc # "idle" /\ k.cmd[1] = "SET" => <<k.cmd[2], k.cmd[3]>> \in P

\* The engine writes whole commands to an open connection.
Whole(x) == x.client = "open" /\ feed[x.sent].rest = <<>> /\ feed[x.sent].end = "more"

CallsOK == /\ DOMAIN call = Callers /\ DOMAIN got = Callers
           /\ call = [t \in Callers |-> call[t]]
           /\ \A t \in Callers : CallOK(call[t], puts) /\ (got[t] = <<>> \/ Len(got[t]) = 2)
           /\ puts \subseteq Bulks \X Bulks

ConnsOK == /\ conn = [c \in Conns |-> conn[c]]
           /\ \A c \in Conns : ConnOK(conn[c], puts)

SockOK == sock \in 0..MaxConns /\ (sock # 0 => Whole(conn[sock]))

StoreOK == /\ DOMAIN store \subseteq Bulks /\ store \in [DOMAIN store -> Bulks]
           /\ \A k \in DOMAIN store : <<k, store[k]>> \in puts

\* stop() and the accept loop, and the count of workers
Counted ==
  /\ active_connections = Cardinality(Alive)
  /\ accept_loop \in {"head", "accept", "exited"}
  /\ stopper \in {"none", "join", "shutdown", "wait", "stopped", "aborted"}
  /\ stopper \in {"shutdown", "wait", "stopped"} => accept_loop = "exited"
  /\ stopper = "stopped" => Alive = {}

Inv == CallsOK /\ ConnsOK /\ SockOK /\ StoreOK /\ Counted

\* The reply that a command may get: one line, and for a bulk its payload
Answers(cmd, r, P) ==
  IF cmd[1] = "SET" THEN r \in {<< "+OK" >>, << "-ERR" >>}
  ELSE r = << "$-1" >> \/ \E v \in Bulks : r = << "$", v >> /\ <<cmd[2], v>> \in P

Silent(x) == x.up = <<>> /\ x.buf = <<>> /\ x.ready = <<>> /\ x.out = <<>> /\ x.down = <<>>

\* Where the engine's one command is: there is none; on its way to the worker
\* or in its parser; taken; answered; on its way back; lost with the worker.
Resting(x) == Silent(x) /\ x.worker \in {"none", "start", "read", "leave", "gone"}

Sending(x, k) ==
  /\ x.buf \o x.up = Wire(k.cmd) /\ x.ready = <<>> /\ x.out = <<>> /\ x.down = <<>>
  /\ k.buf = <<>> /\ x.worker \in {"none", "start", "read", "leave"}

Taken(x, k) ==
  /\ x.up = <<>> /\ x.buf = <<>> /\ x.ready = << k.cmd >> /\ x.out = <<>> /\ x.down = <<>>
  /\ k.buf = <<>> /\ x.worker = "dispatch"

Answered(x, k, P) ==
  /\ x.up = <<>> /\ x.buf = <<>> /\ x.ready = <<>> /\ Answers(k.cmd, x.out, P) /\ x.down = <<>>
  /\ k.buf = <<>> /\ x.worker = "write"

Replying(x, k, P) ==
  /\ x.up = <<>> /\ x.buf = <<>> /\ x.ready = <<>> /\ x.out = <<>>
  /\ Answers(k.cmd, k.buf \o x.down, P) /\ k.buf \in {<<>>, << "$" >>}
  /\ x.worker \in {"read", "leave", "gone"}

Lost(x, k) == Silent(x) /\ k.buf = <<>> /\ x.worker \in {"leave", "gone"}

Exchange(x, k, P) ==
  IF k.pc # "reply" THEN Resting(x)
  ELSE Sending(x, k) \/ Taken(x, k) \/ Answered(x, k, P) \/ Replying(x, k, P) \/ Lost(x, k)

InStep == \A t \in Callers : sock # 0 => Exchange(conn[sock], call[t], puts)

-----------------------------------------------------------------------------
(* A stream and its parser                                                 *)

\* What the fields of a connection are
LEMMA ConnFields ==
  ASSUME NEW x \in Connections
  PROVE  /\ x.up \in Seq(Symbols) /\ x.buf \in Seq(Symbols) /\ x.sent \in Seq(Symbols)
         /\ x.buf \o x.up \in Seq(Symbols)
         /\ x.ready \in Seq(Seq(Bulks)) /\ x.served \in Seq(Seq(Bulks))
         /\ x.down \in Seq(Replies) /\ x.out \in Seq(Replies)
         /\ feed[x.sent] \in Feeds /\ feed[x.buf \o x.up] \in Feeds
<1>1. /\ x.up \in Seq(Symbols) /\ x.buf \in Seq(Symbols) /\ x.sent \in Seq(Symbols)
      /\ x.ready \in Seq(Seq(Bulks)) /\ x.served \in Seq(Seq(Bulks))
      /\ x.down \in Seq(Replies) /\ x.out \in Seq(Replies)
  BY DEF Connections
<1>2. x.buf \o x.up \in Seq(Symbols)
  BY <1>1, ConcatFacts
<1> QED
  BY <1>1, <1>2, FeedType

\* What was dispatched is a prefix of what the whole stream holds.
LEMMA ServedIsPrefix ==
  ASSUME NEW x \in Connections, StreamOK(x)
  PROVE  IsPrefix(x.served, feed[x.sent].ready)
<1>1. CASE x.worker \in Ended
  BY <1>1 DEF StreamOK
<1>2. CASE x.worker \notin Ended
  <2> DEFINE S == Seq(Bulks)
             p == x.served
             q == x.ready
             r == feed[x.buf \o x.up].ready
             w == feed[x.sent].ready
  <2>1. p \in Seq(S) /\ q \in Seq(S) /\ r \in Seq(S) /\ w \in Seq(S)
    BY ConnFields DEF Feeds
  <2>2. w = (p \o q) \o r
    BY <1>2 DEF StreamOK
  <2> HIDE DEF S, p, q, r, w
  <2>3. (p \o q) \o r = p \o (q \o r) /\ q \o r \in Seq(S)
    <3>1. (p \o q) \o r = p \o (q \o r)
      BY <2>1, ConcatAssociative, SMTT(30)
    <3>2. q \o r \in Seq(S)
      BY <2>1, ConcatFacts
    <3> QED
      BY <3>1, <3>2
  <2>4. IsPrefix(p, w)
    BY <2>1, <2>2, <2>3, PrefixOfConcat
  <2> QED
    BY <2>4 DEF p, w
<1> QED
  BY <1>1, <1>2

\* A step that leaves the stream and its parser alone.
LEMMA QuietStream ==
  ASSUME NEW x \in Connections, NEW y, StreamOK(x),
         y.sent = x.sent, y.served = x.served, y.ready = x.ready, y.buf = x.buf, y.up = x.up,
         y.worker \in Ended \/ x.worker \notin Ended
  PROVE  StreamOK(y)
<1>1. CASE y.worker \in Ended
  BY <1>1, ServedIsPrefix DEF StreamOK
<1>2. CASE y.worker \notin Ended
  BY <1>2 DEF StreamOK
<1> QED
  BY <1>1, <1>2

\* The client writes.
LEMMA PushStream ==
  ASSUME NEW x \in Connections, NEW y, NEW b \in Seq(Symbols), StreamOK(x),
         y.sent = x.sent \o b, y.up = x.up \o b, y.served = x.served, y.ready = x.ready,
         y.buf = x.buf, y.worker = x.worker
  PROVE  StreamOK(y)
<1> DEFINE S == Seq(Bulks)
           more == feed[feed[x.sent].rest \o b]
<1>1. /\ feed[y.sent].ready = feed[x.sent].ready \o more.ready
      /\ feed[y.sent].rest = more.rest /\ feed[y.sent].end = more.end
      /\ more \in Feeds /\ feed[x.sent] \in Feeds
  <2> DEFINE s == x.sent
  <2>1. s \in Seq(Symbols) /\ y.sent = s \o b
    BY ConnFields
  <2> HIDE DEF s
  <2>2. /\ feed[s] \in Feeds /\ feed[feed[s].rest \o b] \in Feeds
        /\ feed[s \o b].ready = feed[s].ready \o feed[feed[s].rest \o b].ready
        /\ feed[s \o b].rest = feed[feed[s].rest \o b].rest
        /\ feed[s \o b].end = feed[feed[s].rest \o b].end
    BY <2>1, FeedSlice
  <2> QED
    BY <2>1, <2>2 DEF s
<1>2. CASE x.worker \in Ended
  <2> DEFINE p == x.served
             w == feed[x.sent].ready
             m == more.ready
             v == w \o m
  <2>1. p \in Seq(S) /\ w \in Seq(S) /\ m \in Seq(S)
    BY <1>1, ConnFields DEF Feeds
  <2>2. IsPrefix(p, w)
    BY <1>2 DEF StreamOK
  <2> HIDE DEF p, w, m, S
  <2>3. /\ v \in Seq(S) /\ Len(v) = Len(w) + Len(m)
        /\ \A i \in 1..Len(w) : v[i] = w[i]
    BY <2>1, ConcatFacts
  <2>4. Len(p) <= Len(w) /\ \A i \in 1..Len(p) : p[i] = w[i]
    BY <2>1, <2>2, PrefixFacts
  <2>5. Len(p) \in Nat /\ Len(w) \in Nat /\ Len(m) \in Nat
    BY <2>1, NonEmptyLen
  <2> HIDE DEF v
  <2>6. Len(p) <= Len(v) /\ \A i \in 1..Len(p) : p[i] = v[i]
    BY <2>3, <2>4, <2>5
  <2>7. IsPrefix(p, v)
    <3> DEFINE u == SubSeq(v, 1, Len(p))
    <3>1. u \in Seq(S) /\ Len(u) = Len(p) /\ \A i \in 1..Len(p) : u[i] = v[i]
      <4>1. Len(p) \in 0..Len(v)
        BY <2>3, <2>5, <2>6
      <4> QED
        BY <2>3, <4>1, SubSeqFacts
    <3> HIDE DEF u
    <3>2. u = p
      BY <2>1, <2>6, <3>1, EqualSeqs
    <3>3. SubSeq(p, 1, Len(p)) = p
      BY <2>1, WholePrefix
    <3> QED
      BY <2>6, <3>2, <3>3 DEF u, IsPrefix
  <2> QED
    BY <1>1, <1>2, <2>7 DEF p, w, m, v, StreamOK
<1>3. CASE x.worker \notin Ended
  <2> DEFINE left == feed[x.buf \o x.up]
             o == x.served \o x.ready
  <2>1. /\ feed[x.sent].ready = o \o left.ready
        /\ feed[x.sent].rest = left.rest /\ feed[x.sent].end = left.end
    BY <1>3 DEF StreamOK
  <2>2. /\ feed[(x.buf \o x.up) \o b].ready = left.ready \o feed[left.rest \o b].ready
        /\ feed[(x.buf \o x.up) \o b].rest = feed[left.rest \o b].rest
        /\ feed[(x.buf \o x.up) \o b].end = feed[left.rest \o b].end
        /\ left \in Feeds
    <3> DEFINE s == x.buf \o x.up
    <3>1. s \in Seq(Symbols)
      BY ConnFields
    <3> HIDE DEF s
    <3>2. /\ feed[s] \in Feeds
          /\ feed[s \o b].ready = feed[s].ready \o feed[feed[s].rest \o b].ready
          /\ feed[s \o b].rest = feed[feed[s].rest \o b].rest
          /\ feed[s \o b].end = feed[feed[s].rest \o b].end
      BY <3>1, FeedSlice
    <3> QED
      BY <3>2 DEF s
  <2>3. y.buf \o y.up = (x.buf \o x.up) \o b
    <3> DEFINE s == x.buf
               u == x.up
    <3>1. s \in Seq(Symbols) /\ u \in Seq(Symbols)
      BY ConnFields
    <3> HIDE DEF s, u
    <3>2. (s \o u) \o b = s \o (u \o b)
      BY <3>1, ConcatAssociative
    <3> QED
      BY <3>2 DEF s, u
  <2>4. more = feed[left.rest \o b]
    BY <2>1
  <2>5. /\ o \in Seq(S) /\ left.ready \in Seq(S) /\ more.ready \in Seq(S)
    <3>1. x.served \in Seq(S) /\ x.ready \in Seq(S)
      BY ConnFields
    <3> HIDE DEF S
    <3>2. o \in Seq(S)
      BY <3>1, ConcatFacts
    <3> QED
      BY <1>1, <2>2, <3>2 DEF Feeds, S
  <2>6. (o \o left.ready) \o more.ready = o \o (left.ready \o more.ready)
    <3> DEFINE l == left.ready
               m == more.ready
    <3> HIDE DEF S, o, l, m
    <3>1. o \in Seq(S) /\ l \in Seq(S) /\ m \in Seq(S)
      BY <2>5 DEF l, m
    <3>2. (o \o l) \o m = o \o (l \o m)
      BY <3>1, ConcatAssociative, SMTT(30)
    <3> QED
      BY <3>2 DEF l, m
  <2>7. y.served \o y.ready = o /\ y.worker \notin Ended
    BY <1>3
  <2> DEFINE after == feed[y.buf \o y.up]
             whole == feed[y.sent]
  <2>8. /\ whole.ready = o \o after.ready
        /\ whole.rest = after.rest /\ whole.end = after.end
    <3> HIDE DEF o, more, left
    <3>1. after.ready = left.ready \o more.ready /\ after.rest = more.rest /\ after.end = more.end
      BY <2>2, <2>3, <2>4
    <3>2. whole.ready = (o \o left.ready) \o more.ready /\ whole.rest = more.rest /\ whole.end = more.end
      BY <1>1, <2>1
    <3> HIDE DEF after, whole
    <3> QED
      BY <2>6, <3>1, <3>2
  <2> QED
    BY <2>7, <2>8 DEF StreamOK
<1> QED
  BY <1>2, <1>3

\* The worker reads a slice: what a complete part of it held is ready.
LEMMA ReadStream ==
  ASSUME NEW x \in Connections, NEW y, NEW n \in 0..Len(x.up), StreamOK(x),
         x.worker = "read", x.ready = <<>>, y.worker \notin Ended,
         y.sent = x.sent, y.served = x.served,
         y.buf = feed[x.buf \o SubSeq(x.up, 1, n)].rest,
         y.ready = feed[x.buf \o SubSeq(x.up, 1, n)].ready,
         y.up = SubSeq(x.up, n + 1, Len(x.up))
  PROVE  StreamOK(y)
<1> DEFINE S == Seq(Bulks)
           b == x.buf
           u == SubSeq(x.up, 1, n)
           v == SubSeq(x.up, n + 1, Len(x.up))
           f == feed[b \o u]
           g == feed[f.rest \o v]
           p == x.served
<1>1. b \in Seq(Symbols) /\ x.up \in Seq(Symbols) /\ p \in Seq(S)
  BY ConnFields
<1>2. u \in Seq(Symbols) /\ v \in Seq(Symbols) /\ x.up = u \o v
  BY <1>1, CutInTwo
<1> HIDE DEF u, v, b
<1>3. b \o u \in Seq(Symbols) /\ b \o (u \o v) = (b \o u) \o v
  <2>1. b \o u \in Seq(Symbols)
    BY <1>1, <1>2, ConcatFacts
  <2>2. b \o (u \o v) = (b \o u) \o v
    BY <1>1, <1>2, ConcatAssociative, SMTT(30)
  <2> QED
    BY <2>1, <2>2
<1>4. /\ f \in Feeds /\ g \in Feeds
      /\ feed[(b \o u) \o v].ready = f.ready \o g.ready
      /\ feed[(b \o u) \o v].rest = g.rest
      /\ feed[(b \o u) \o v].end = g.end
  <2> DEFINE s == b \o u
  <2> HIDE DEF s
  <2>1. s \in Seq(Symbols)
    BY <1>3 DEF s
  <2>2. /\ feed[s] \in Feeds /\ feed[feed[s].rest \o v] \in Feeds
        /\ feed[s \o v].ready = feed[s].ready \o feed[feed[s].rest \o v].ready
        /\ feed[s \o v].rest = feed[feed[s].rest \o v].rest
        /\ feed[s \o v].end = feed[feed[s].rest \o v].end
    BY <1>2, <2>1, FeedSlice
  <2> QED
    BY <2>2 DEF s
<1>5. x.buf \o x.up = (b \o u) \o v
  BY <1>2, <1>3 DEF b
<1>6. /\ feed[x.sent].ready = (p \o <<>>) \o feed[(b \o u) \o v].ready
      /\ feed[x.sent].rest = feed[(b \o u) \o v].rest
      /\ feed[x.sent].end = feed[(b \o u) \o v].end
  BY <1>5 DEF StreamOK, Ended
<1>7. y.ready = f.ready /\ y.buf \o y.up = f.rest \o v /\ y.served = p /\ y.sent = x.sent
  BY DEF u, v, b
<1>8. (p \o <<>>) \o (f.ready \o g.ready) = (p \o f.ready) \o g.ready
  <2> DEFINE i == f.ready
             j == g.ready
  <2>1. i \in Seq(S) /\ j \in Seq(S)
    BY <1>4 DEF Feeds
  <2>2. p \in Seq(S)
    BY <1>1
  <2> HIDE DEF i, j, p, S, f, g
  <2>3. p \o <<>> = p /\ p \o (i \o j) = (p \o i) \o j
    <3>1. p \o (i \o j) = (p \o i) \o j
      BY <2>1, <2>2, ConcatAssociative, SMTT(30)
    <3>2. p \o <<>> = p
      BY <2>2, ConcatEmptySeq, Zenon
    <3> QED
      BY <3>1, <3>2
  <2> QED
    BY <2>3 DEF i, j
<1> DEFINE w == feed[x.sent]
<1> HIDE DEF f, p, w
<1>9. /\ w.ready = (p \o f.ready) \o g.ready /\ w.rest = g.rest /\ w.end = g.end
  <2> HIDE DEF g
  <2> QED
    BY <1>4, <1>6, <1>8 DEF w
<1> QED
  BY <1>7, <1>9 DEF w, StreamOK

\* The worker dispatches the next command.
LEMMA DispatchStream ==
  ASSUME NEW x \in Connections, NEW y, StreamOK(x),
         x.worker \notin Ended, x.ready # <<>>, y.worker \notin Ended,
         y.sent = x.sent, y.up = x.up, y.buf = x.buf,
         y.served = Append(x.served, Head(x.ready)), y.ready = Tail(x.ready)
  PROVE  StreamOK(y)
<1> DEFINE S == Seq(Bulks)
           p == x.served
           q == x.ready
<1>1. p \in Seq(S) /\ q \in Seq(S) /\ q # <<>>
  BY ConnFields
<1> HIDE DEF S, p, q
<1>2. p \o q = Append(p, Head(q)) \o Tail(q)
  BY <1>1, MoveHead
<1>3. x.served \o x.ready = y.served \o y.ready
  BY <1>2 DEF p, q
<1> QED
  BY <1>3 DEF StreamOK

\* A connection without a history
LEMMA FreshStream ==
  ASSUME NEW y, y.sent = <<>>, y.served = <<>>,
         y.worker \in Ended \/ (y.buf = <<>> /\ y.up = <<>> /\ y.ready = <<>>)
  PROVE  /\ StreamOK(y)
         /\ \A P : KnownIn(y, P)
         /\ feed[y.sent].rest = <<>> /\ feed[y.sent].end = "more"
<1> DEFINE e == <<>>
<1>1. /\ feed[e].ready = e /\ feed[e].rest = e /\ feed[e].end = "more"
      /\ e \o e = e /\ Len(e) = 0
  BY FeedNothing
<1>2. IsPrefix(e, e)
  BY DEF IsPrefix
<1>3. e \o feed[e].ready = e /\ feed[e \o e].ready = e
  BY <1>1
<1>4. CASE y.worker \in Ended
  BY <1>1, <1>2, <1>4 DEF StreamOK, KnownIn
<1>5. CASE y.worker \notin Ended
  <2>1. /\ feed[y.buf \o y.up] = feed[e] /\ feed[y.sent] = feed[e]
        /\ (y.served \o y.ready) \o feed[y.buf \o y.up].ready = e
    <3>1. y.buf = e /\ y.up = e /\ y.ready = e /\ y.served = e /\ y.sent = e
      BY <1>5
    <3> HIDE DEF e
    <3> QED
      BY <1>1, <3>1
  <2> HIDE DEF e
  <2>2. Len(feed[y.sent].ready) = 0
    BY <1>1, <2>1
  <2>3. \A P : KnownIn(y, P)
    BY <2>2 DEF KnownIn
  <2>4. StreamOK(y)
    BY <1>1, <1>5, <2>1 DEF StreamOK
  <2> QED
    BY <1>1, <2>1, <2>3, <2>4 DEF e
<1> QED
  BY <1>4, <1>5

LEMMA KnownMore ==
  ASSUME NEW x, NEW P, NEW Q, P \subseteq Q
  PROVE  /\ KnownIn(x, P) => KnownIn(x, Q)
         /\ ConnOK(x, P) => ConnOK(x, Q)
         /\ \A k : CallOK(k, P) => CallOK(k, Q)
<1>1. KnownIn(x, P) => KnownIn(x, Q)
  BY DEF KnownIn
<1>2. ConnOK(x, P) => ConnOK(x, Q)
  BY <1>1 DEF ConnOK
<1>3. \A k : CallOK(k, P) => CallOK(k, Q)
  BY DEF CallOK
<1> QED
  BY <1>1, <1>2, <1>3

LEMMA KnownSame ==
  ASSUME NEW x, NEW y, NEW P, KnownIn(x, P), y.sent = x.sent
  PROVE  KnownIn(y, P)
BY DEF KnownIn

\* The next command of a worker is one of its stream.
LEMMA HeadKnown ==
  ASSUME NEW x, NEW P, ConnOK(x, P), x.worker = "dispatch"
  PROVE  /\ x.ready # <<>> /\ Head(x.ready) \in Seq(Bulks)
         /\ IsSet(Head(x.ready)) => <<Head(x.ready)[2], Head(x.ready)[3]>> \in P
<1> DEFINE S == Seq(Bulks)
           p == x.served
           q == x.ready
           l == feed[x.buf \o x.up].ready
           w == feed[x.sent].ready
<1>0. x \in Connections
  BY DEF ConnOK
<1>1. p \in Seq(S) /\ q \in Seq(S) /\ q # <<>> /\ l \in Seq(S)
  BY <1>0, ConnFields DEF Feeds, ConnOK, ConnShape
<1>2. w = (p \o q) \o l
  BY DEF ConnOK, StreamOK, Ended
<1> DEFINE i == Len(p) + 1
           o == p \o q
<1> HIDE DEF S, p, q, l, w
<1>3. Len(p) \in Nat /\ Len(q) \in Nat /\ Len(l) \in Nat /\ Len(q) >= 1 /\ Head(q) = q[1] /\ Head(q) \in S
  BY <1>1, NonEmptyLen, TailFacts
<1>4. o \in Seq(S) /\ Len(o) = Len(p) + Len(q) /\ o[Len(p) + 1] = q[1]
  BY <1>1, <1>3, ConcatFacts
<1> HIDE DEF o
<1>5. i \in 1..Len(o) /\ i \in 1..Len(w) /\ w[i] = o[i]
  <2>0. o \in Seq(S) /\ l \in Seq(S)
    BY <1>1, <1>4
  <2>1. o \o l \in Seq(S) /\ Len(o \o l) = Len(o) + Len(l) /\ \A j \in 1..Len(o) : (o \o l)[j] = o[j]
    BY <2>0, ConcatFacts
  <2>2. i \in 1..Len(o) /\ i \in 1..(Len(o) + Len(l))
    BY <1>3, <1>4
  <2>3. w = o \o l
    BY <1>2 DEF o
  <2> QED
    BY <2>1, <2>2, <2>3
<1>6. w[i] = Head(q)
  BY <1>3, <1>4, <1>5
<1>7. IsSet(w[i]) => <<w[i][2], w[i][3]>> \in P
  BY <1>5 DEF ConnOK, KnownIn, w
<1> QED
  BY <1>1, <1>3, <1>6, <1>7 DEF q, S

-----------------------------------------------------------------------------
(* What the engine writes                                                  *)

LEMMA WireFacts ==
  ASSUME NEW cmd \in Commands
  PROVE  /\ cmd \in Seq(Bulks) /\ Len(cmd) \in {2, 3} /\ cmd # <<>>
         /\ cmd[1] \in {"GET", "SET"} /\ (cmd[1] = "SET" <=> Len(cmd) = 3)
         /\ cmd[2] \in Bulks
         /\ Wire(cmd) \in Seq(Symbols) /\ Len(Wire(cmd)) = Len(cmd) + 1
         /\ Wire(cmd)[1] \in DOMAIN Arity /\ Arity[Wire(cmd)[1]] = Len(cmd)
         /\ \A i \in 1..Len(cmd) : Wire(cmd)[i + 1] = cmd[i]
<1>1. /\ cmd \in Seq(Bulks) /\ Len(cmd) \in {2, 3} /\ cmd # <<>>
      /\ cmd[1] \in {"GET", "SET"} /\ (cmd[1] = "SET" <=> Len(cmd) = 3)
      /\ cmd[2] \in Bulks
  <2>1. CASE \E k \in Keys : cmd = <<"GET", k>>
    BY <2>1 DEF Bulks
  <2>2. CASE \E k \in Keys, v \in Values : cmd = <<"SET", k, v>>
    <3>1. PICK k \in Keys, v \in Values : cmd = <<"SET", k, v>>
      BY <2>2
    <3>2. "SET" \in Bulks /\ k \in Bulks /\ v \in Bulks
      BY DEF Bulks
    <3> QED
      BY <3>1, <3>2
  <2> QED
    BY <2>1, <2>2 DEF Commands
<1> DEFINE h == IF Len(cmd) = 2 THEN "*2" ELSE "*3"
<1>2. h \in DOMAIN Arity /\ Arity[h] = Len(cmd) /\ h \in Symbols
  BY <1>1 DEF Arity, Headers, Symbols
<1>3. <<h>> \in Seq(Symbols) /\ cmd \in Seq(Symbols) /\ Len(<<h>>) = 1 /\ <<h>>[1] = h
  BY <1>1, <1>2 DEF Symbols
<1>4. Wire(cmd) = <<h>> \o cmd
  BY DEF Wire
<1> DEFINE w == <<h>>
<1> HIDE DEF w
<1>5. /\ w \o cmd \in Seq(Symbols) /\ Len(w \o cmd) = Len(w) + Len(cmd)
      /\ \A i \in 1..Len(w) : (w \o cmd)[i] = w[i]
      /\ \A i \in 1..Len(cmd) : (w \o cmd)[Len(w) + i] = cmd[i]
  <2>1. w \in Seq(Symbols) /\ cmd \in Seq(Symbols)
    BY <1>3 DEF w
  <2> QED
    BY <2>1, ConcatFacts
<1>6. Len(w) = 1 /\ w[1] = h
  BY <1>3 DEF w
<1>7. Wire(cmd) = w \o cmd
  BY <1>4 DEF w
<1> HIDE DEF h
<1>8. Wire(cmd)[1] = h
  BY <1>5, <1>6, <1>7
<1>9. \A i \in 1..Len(cmd) : Wire(cmd)[i + 1] = cmd[i]
  <2> SUFFICES ASSUME NEW i \in 1..Len(cmd) PROVE Wire(cmd)[i + 1] = cmd[i]
    OBVIOUS
  <2>1. 1 + i = i + 1
    BY <1>1
  <2> QED
    BY <1>5, <1>6, <1>7, <2>1
<1>10. Len(Wire(cmd)) = Len(cmd) + 1 /\ Wire(cmd) \in Seq(Symbols)
  BY <1>1, <1>5, <1>6, <1>7
<1> QED
  BY <1>1, <1>2, <1>8, <1>9, <1>10

\* A part of a command is waited for; the whole of it is that command.
LEMMA WireParsed ==
  ASSUME NEW cmd \in Commands, NEW n \in 0..Len(Wire(cmd))
  PROVE  LET w == SubSeq(Wire(cmd), 1, n)
         IN  /\ w \in Seq(Symbols)
             /\ n < Len(Wire(cmd)) => feed[w] = [ready |-> <<>>, rest |-> w, end |-> "more"]
             /\ n = Len(Wire(cmd)) => /\ w = Wire(cmd)
                                      /\ feed[w] = [ready |-> << cmd >>, rest |-> <<>>, end |-> "more"]
<1> DEFINE W == Wire(cmd)
           w == SubSeq(W, 1, n)
           m == Len(cmd)
           h == W[1]
<1>1. /\ cmd \in Seq(Bulks) /\ m \in {2, 3} /\ cmd # <<>>
      /\ W \in Seq(Symbols) /\ Len(W) = m + 1
      /\ h \in DOMAIN Arity /\ Arity[h] = m
      /\ \A i \in 1..m : W[i + 1] = cmd[i]
  BY WireFacts
<1> HIDE DEF W
<1>2. w \in Seq(Symbols) /\ Len(w) = n /\ \A i \in 1..n : w[i] = W[i]
  <2>1. n \in 0..Len(W)
    BY DEF W
  <2> QED
    BY <1>1, <2>1, SubSeqFacts
<1>3. n \in Nat /\ n <= m + 1
  BY <1>1 DEF W
<1> HIDE DEF w, m, h
<1>4. CASE n = 0
  <2>1. w = <<>>
    BY <1>2, <1>4
  <2>2. feed[w] = [ready |-> <<>>, rest |-> w, end |-> "more"]
    BY <2>1, FeedNothing
  <2>3. n # Len(W)
    BY <1>1, <1>4
  <2> QED
    BY <1>2, <2>2, <2>3 DEF w, W
<1>5. CASE n > 0
  <2>1. w # <<>> /\ w[1] = h
    BY <1>2, <1>3, <1>5 DEF h
  <2> DEFINE parts == Parts(w, m)
  <2>2. /\ parts \in Seq(Symbols)
        /\ Len(parts) = (IF m < Len(w) THEN m ELSE Len(w) - 1)
        /\ \A i \in 1..Len(parts) : parts[i] = w[i + 1]
    <3>1. m \in Nat
      BY <1>1
    <3> QED
      BY <1>2, <2>1, <3>1, PartsOf
  <2>3. parse_one(w) = IF ToSet(parts) \cap Headers # {}
                       THEN [found |-> "error", cmd |-> <<>>, len |-> 0]
                       ELSE IF Len(parts) < m THEN [found |-> "more", cmd |-> <<>>, len |-> 0]
                       ELSE [found |-> "command", cmd |-> parts, len |-> m + 1]
    <3>1. h \in Headers
      BY <1>1, ArityFacts
    <3> QED
      BY <1>1, <2>1, <3>1 DEF parse_one, Parts
  <2> HIDE DEF parts
  <2>4. Len(parts) = n - 1 /\ Len(parts) \in Nat /\ Len(parts) <= m
    BY <1>1, <1>2, <1>3, <1>5, <2>2
  <2>5. \A i \in 1..Len(parts) : parts[i] = cmd[i] /\ cmd[i] \in Bulks
    <3> SUFFICES ASSUME NEW i \in 1..Len(parts) PROVE parts[i] = cmd[i] /\ cmd[i] \in Bulks
      OBVIOUS
    <3>1. i + 1 \in 1..n /\ i \in 1..m
      BY <1>1, <1>3, <1>5, <2>4
    <3>2. cmd[i] \in Bulks
      BY <1>1, <3>1 DEF m
    <3> QED
      BY <1>1, <1>2, <2>2, <3>1, <3>2
  <2>6. ToSet(parts) \cap Headers = {}
    <3>1. DOMAIN parts = 1..Len(parts)
      BY <2>2
    <3> QED
      BY <2>5, <3>1, ArcaAssumption DEF ToSet
  <2>7. CASE n < Len(W)
    <3>1. parse_one(w).found = "more"
      BY <1>1, <1>3, <2>3, <2>4, <2>6, <2>7
    <3>2. feed[w] = [ready |-> <<>>, rest |-> w, end |-> "more"]
      BY <1>2, <3>1, FeedValue
    <3> QED
      BY <1>2, <2>7, <3>2 DEF w, W
  <2>8. CASE n = Len(W)
    <3>1. Len(parts) = m
      BY <1>1, <1>3, <2>4, <2>8
    <3>2. parts = cmd
      <4>1. parts \in Seq(Bulks)
        BY <2>2, <2>6, PartsFacts
      <4>2. Len(cmd) = Len(parts)
        BY <3>1 DEF m
      <4> QED
        BY <1>1, <2>5, <4>1, <4>2, EqualSeqs
    <3>3. parse_one(w) = [found |-> "command", cmd |-> cmd, len |-> m + 1]
      BY <1>1, <2>3, <2>6, <3>1, <3>2
    <3>4. After(w) = <<>>
      <4>1. m + 1 = Len(w) /\ Len(w) \in Nat
        BY <1>1, <1>2, <2>8
      <4>2. After(w) = SubSeq(w, Len(w) + 1, Len(w))
        BY <3>3, <4>1 DEF After
      <4>3. /\ After(w) \in Seq(Symbols) /\ Len(After(w)) = 0
        BY <1>2, <4>1, <4>2, CutInTwo
      <4> QED
        BY <4>3, NonEmptyLen
    <3> DEFINE e == After(w)
               f == feed[e]
               g == feed[w]
    <3>5. g = Joined(w, f)
      <4>1. parse_one(w).found = "command"
        BY <3>3
      <4> QED
        BY <1>2, <4>1, FeedValue
    <3>6. f = [ready |-> <<>>, rest |-> <<>>, end |-> "more"]
      <4>1. f = feed[<<>>]
        BY <3>4
      <4> HIDE DEF f
      <4> QED
        BY <4>1, FeedNothing
    <3>7. e \in Seq(Symbols)
      BY <3>4
    <3> HIDE DEF e
    <3>8. f \in Feeds
      BY <3>7, FeedType
    <3>10. parse_one(w).cmd = cmd
      BY <3>3
    <3> HIDE DEF f, g
    <3>11. /\ g \in Feeds /\ g.rest = f.rest /\ g.end = f.end
           /\ g.ready = << cmd >> \o f.ready
      BY <1>1, <1>2, <3>5, <3>8, <3>10, JoinedType
    <3>12. << cmd >> \o <<>> = << cmd >>
      OBVIOUS
    <3>13. g = [ready |-> g.ready, rest |-> g.rest, end |-> g.end]
      BY <3>11 DEF Feeds
    <3>14. feed[w] = [ready |-> << cmd >>, rest |-> <<>>, end |-> "more"]
      BY <3>6, <3>11, <3>12, <3>13 DEF g
    <3>9. w = W
      BY <1>1, <2>8, WholePrefix DEF w
    <3> QED
      BY <1>2, <2>8, <3>9, <3>14 DEF w, W
  <2> QED
    BY <1>1, <1>3, <2>7, <2>8
<1> QED
  BY <1>3, <1>4, <1>5

\* After whole commands, a command or a part of it is written.
LEMMA WriteKnown ==
  ASSUME NEW x \in Connections, feed[x.sent].rest = <<>>, NEW P, KnownIn(x, P),
         NEW cmd \in Commands, NEW n \in 0..Len(Wire(cmd)),
         cmd[1] = "SET" => <<cmd[2], cmd[3]>> \in P,
         NEW y, y.sent = x.sent \o SubSeq(Wire(cmd), 1, n)
  PROVE  /\ KnownIn(y, P)
         /\ n = Len(Wire(cmd)) => feed[y.sent].rest = <<>> /\ feed[y.sent].end = "more"
<1> DEFINE b == SubSeq(Wire(cmd), 1, n)
           s == x.sent
           S == Seq(Bulks)
           r == feed[s].ready
           q == feed[b].ready
           o == r \o q
<1>1. b \in Seq(Symbols) /\ s \in Seq(Symbols)
  BY WireParsed, ConnFields
<1>2. /\ n < Len(Wire(cmd)) => feed[b] = [ready |-> <<>>, rest |-> b, end |-> "more"]
      /\ n = Len(Wire(cmd)) => feed[b] = [ready |-> << cmd >>, rest |-> <<>>, end |-> "more"]
  BY WireParsed
<1>3. feed[s].rest = <<>>
  OBVIOUS
<1>4. y.sent = s \o b
  OBVIOUS
<1> HIDE DEF b, s
<1>5. feed[s].rest \o b = b
  BY <1>1, <1>3, ConcatEmptySeq
<1>6. /\ feed[s] \in Feeds /\ feed[b] \in Feeds
      /\ feed[s \o b].ready = o /\ feed[s \o b].rest = feed[b].rest
      /\ feed[s \o b].end = feed[b].end
  <2>1. /\ feed[s] \in Feeds /\ feed[feed[s].rest \o b] \in Feeds
        /\ feed[s \o b].ready = feed[s].ready \o feed[feed[s].rest \o b].ready
        /\ feed[s \o b].rest = feed[feed[s].rest \o b].rest
        /\ feed[s \o b].end = feed[feed[s].rest \o b].end
    BY <1>1, FeedSlice
  <2> QED
    BY <1>5, <2>1
<1>7. n \in Nat /\ Len(Wire(cmd)) \in Nat /\ (n < Len(Wire(cmd)) \/ n = Len(Wire(cmd)))
  BY WireFacts
<1>8. q = <<>> \/ q = << cmd >>
  BY <1>2, <1>7
<1>9. r \in Seq(S) /\ q \in Seq(S)
  BY <1>6 DEF Feeds
<1> HIDE DEF q, r, S
<1>10. /\ o \in Seq(S) /\ Len(o) = Len(r) + Len(q)
       /\ \A i \in 1..Len(r) : o[i] = r[i]
       /\ \A i \in 1..Len(q) : o[Len(r) + i] = q[i]
  BY <1>9, ConcatFacts
<1> HIDE DEF o
<1>11. ASSUME NEW i \in 1..Len(o), IsSet(o[i]) PROVE <<o[i][2], o[i][3]>> \in P
  <2>1. Len(r) \in Nat /\ Len(q) \in Nat
    BY <1>9, NonEmptyLen
  <2>2. CASE i <= Len(r)
    <3>1. i \in 1..Len(r) /\ o[i] = r[i]
      BY <1>10, <2>1, <2>2
    <3>2. r = feed[x.sent].ready
      BY DEF r, s
    <3> QED
      BY <1>11, <3>1, <3>2 DEF KnownIn
  <2>3. CASE i > Len(r)
    <3>1. i - Len(r) \in 1..Len(q) /\ i = Len(r) + (i - Len(r))
      BY <1>10, <2>1, <2>3
    <3>2. q = << cmd >>
      BY <1>8, <3>1
    <3>3. o[i] = cmd
      BY <1>10, <3>1, <3>2
    <3> QED
      BY <1>11, <3>3 DEF IsSet
  <2> QED
    BY <2>1, <2>2, <2>3
<1>12. KnownIn(y, P)
  <2>1. feed[y.sent].ready = o
    BY <1>4, <1>6
  <2> QED
    BY <1>11, <2>1 DEF KnownIn
<1>13. n = Len(Wire(cmd)) => feed[y.sent].rest = <<>> /\ feed[y.sent].end = "more"
  <2> SUFFICES ASSUME n = Len(Wire(cmd))
               PROVE  feed[y.sent].rest = <<>> /\ feed[y.sent].end = "more"
    OBVIOUS
  <2> DEFINE f == feed[b]
  <2>1. f = [ready |-> << cmd >>, rest |-> <<>>, end |-> "more"]
    BY <1>2
  <2> HIDE DEF f
  <2>2. f.rest = <<>> /\ f.end = "more"
    BY <2>1
  <2> QED
    BY <1>4, <1>6, <2>2 DEF f
<1> QED
  BY <1>12, <1>13

-----------------------------------------------------------------------------
(* Kinds of steps                                                          *)

\* One connection changes.
LEMMA OneConn ==
  ASSUME ConnsOK, puts \subseteq puts', NEW c \in Conns, NEW y,
         conn' = [conn EXCEPT ![c] = y], ConnOK(y, puts')
  PROVE  /\ ConnsOK' /\ conn'[c] = y
         /\ \A d \in Conns : d # c => conn'[d] = conn[d]
<1>1. conn' = [d \in Conns |-> IF d = c THEN y ELSE conn[d]]
  BY DEF ConnsOK
<1>2. conn'[c] = y /\ \A d \in Conns : d # c => conn'[d] = conn[d]
  BY <1>1
<1>3. ASSUME NEW d \in Conns PROVE ConnOK(conn'[d], puts')
  <2>1. ConnOK(conn[d], puts')
    <3>1. ConnOK(conn[d], puts)
      BY DEF ConnsOK
    <3> QED
      BY <3>1, KnownMore
  <2> QED
    BY <1>2, <2>1
<1>4. conn' = [d \in Conns |-> conn'[d]]
  BY <1>1
<1> QED
  BY <1>2, <1>3, <1>4 DEF ConnsOK

LEMMA AliveSame ==
  ASSUME \A c \in Conns : conn'[c].worker \in {"none", "gone"} <=> conn[c].worker \in {"none", "gone"}
  PROVE  Alive' = Alive
BY DEF Alive

\* Nothing but the variables of stop() and the accept loop changes.
LEMMA DaemonStep ==
  ASSUME Inv, UNCHANGED <<clientVars, conn, store, active_connections>>,
         accept_loop' \in {"head", "accept", "exited"},
         stopper' \in {"none", "join", "shutdown", "wait", "stopped", "aborted"},
         stopper' \in {"shutdown", "wait", "stopped"} => accept_loop' = "exited",
         stopper' = "stopped" => Alive = {}
  PROVE  Inv'
<1>1. Alive' = Alive
  BY DEF Alive
<1>2. CallsOK' /\ ConnsOK' /\ SockOK' /\ StoreOK'
  BY DEF Inv, clientVars, CallsOK, ConnsOK, SockOK, StoreOK
<1>3. Counted'
  BY <1>1 DEF Inv, Counted
<1> QED
  BY <1>2, <1>3 DEF Inv

\* A worker goes on with its connection.
LEMMA WorkerStep ==
  ASSUME Inv, NEW c \in Conns, NEW y, conn' = [conn EXCEPT ![c] = y],
         ConnOK(y, puts), y.client = conn[c].client, y.sent = conn[c].sent,
         conn[c].worker \notin {"none", "gone"}, y.worker \notin {"none", "gone"},
         UNCHANGED <<clientVars, daemonVars>>, StoreOK'
  PROVE  Inv'
<1>0. puts' = puts /\ sock' = sock
  BY DEF clientVars
<1>1. /\ ConnsOK' /\ conn'[c] = y
      /\ \A d \in Conns : d # c => conn'[d] = conn[d]
  BY <1>0, OneConn DEF Inv
<1>2. CallsOK'
  BY DEF Inv, clientVars, CallsOK
<1>3. SockOK'
  <2>1. ASSUME sock # 0 PROVE sock \in Conns
    BY <2>1 DEF Inv, SockOK, Conns
  <2> QED
    BY <1>0, <1>1, <2>1 DEF Inv, SockOK, Whole
<1>4. Counted'
  <2>1. Alive' = Alive
    BY <1>1, AliveSame
  <2> QED
    BY <2>1 DEF Inv, Counted, daemonVars
<1> QED
  BY <1>1, <1>2, <1>3, <1>4 DEF Inv

\* A client opens, uses or closes a connection.
LEMMA ClientStep ==
  ASSUME Inv, NEW c \in Conns, NEW y, conn' = [conn EXCEPT ![c] = y],
         ConnOK(y, puts'), y.worker = conn[c].worker,
         UNCHANGED <<daemonVars, store>>, puts \subseteq puts', CallsOK',
         sock' \in 0..MaxConns, sock' # 0 => Whole(conn'[sock'])
  PROVE  Inv'
<1>1. /\ ConnsOK' /\ conn'[c] = y
      /\ \A d \in Conns : d # c => conn'[d] = conn[d]
  BY OneConn DEF Inv
<1>2. SockOK'
  BY DEF SockOK
<1>3. StoreOK'
  BY DEF Inv, StoreOK
<1>4. Counted'
  <2>1. Alive' = Alive
    BY <1>1, AliveSame
  <2> QED
    BY <2>1 DEF Inv, Counted, daemonVars
<1> QED
  BY <1>1, <1>2, <1>3, <1>4 DEF Inv

\* A caller goes on and the connections stay.
LEMMA CallerStep ==
  ASSUME Inv, UNCHANGED <<sock, conn, daemonVars, store>>, puts \subseteq puts', CallsOK'
  PROVE  Inv'
<1>1. ConnsOK'
  BY KnownMore DEF Inv, ConnsOK
<1>2. SockOK' /\ StoreOK'
  BY DEF Inv, SockOK, StoreOK
<1>3. Counted'
  <2>1. Alive' = Alive
    BY DEF Alive
  <2> QED
    BY <2>1 DEF Inv, Counted, daemonVars
<1> QED
  BY <1>1, <1>2, <1>3 DEF Inv

LEMMA QuietConn ==
  ASSUME NEW x, NEW P, ConnOK(x, P), NEW y \in Connections, ConnShape(y),
         y.sent = x.sent, y.served = x.served, y.ready = x.ready, y.buf = x.buf, y.up = x.up,
         y.worker \in Ended \/ x.worker \notin Ended
  PROVE  ConnOK(y, P)
BY QuietStream, KnownSame DEF ConnOK

LEMMA OneCall ==
  ASSUME CallsOK, NEW t \in Callers, NEW k, call' = [call EXCEPT ![t] = k], CallOK(k, puts'),
         puts \subseteq puts', puts' \subseteq Bulks \X Bulks, got' = got
  PROVE  CallsOK'
<1>1. call' = [u \in Callers |-> IF u = t THEN k ELSE call[u]]
  BY DEF CallsOK
<1>2. ASSUME NEW u \in Callers PROVE CallOK(call'[u], puts')
  <2>1. CallOK(call[u], puts')
    <3>1. CallOK(call[u], puts)
      BY DEF CallsOK
    <3> QED
      BY <3>1, KnownMore
  <2> QED
    BY <1>1, <2>1
<1> QED
  BY <1>1, <1>2 DEF CallsOK

LEMMA ReturnOK ==
  ASSUME CallsOK, NEW t \in Callers, NEW reply, Return(t, reply), puts' = puts
  PROVE  CallsOK'
<1>1. call' = [u \in Callers |-> IF u = t THEN Idle ELSE call[u]]
  BY DEF CallsOK, Return
<1>2. CallOK(Idle, puts)
  BY DEF CallOK, Idle
<1>3. ASSUME NEW u \in Callers PROVE CallOK(call'[u], puts')
  BY <1>1, <1>2 DEF CallsOK
<1>4. DOMAIN got' = Callers /\ \A u \in Callers : got'[u] = <<>> \/ Len(got'[u]) = 2
  <2> DEFINE r == IF reply = <<>> THEN <<>> ELSE <<call[t].cmd[2], reply[1]>>
  <2>1. r = <<>> \/ Len(r) = 2
    OBVIOUS
  <2>2. got' = got \/ got' = [got EXCEPT ![t] = r]
    BY DEF Return
  <2> HIDE DEF r
  <2>3. DOMAIN got = Callers /\ \A u \in Callers : got[u] = <<>> \/ Len(got[u]) = 2
    BY DEF CallsOK
  <2> QED
    BY <2>1, <2>2, <2>3
<1>5. DOMAIN call' = Callers /\ call' = [u \in Callers |-> call'[u]]
  BY <1>1
<1> QED
  BY <1>3, <1>4, <1>5 DEF CallsOK

\* What is known of a caller inside get() or set()
LEMMA CallFacts ==
  ASSUME CallsOK, NEW t \in Callers
  PROVE  /\ CallOK(call[t], puts)
         /\ call[t].pc # "idle" => call[t] \in Busy /\ call[t].cmd \in Commands
BY DEF CallsOK, CallOK, Busy, Idle

LEMMA ConnFacts ==
  ASSUME Inv, NEW c \in Conns
  PROVE  ConnOK(conn[c], puts) /\ conn[c] \in Connections /\ ConnShape(conn[c])
BY DEF Inv, ConnsOK, ConnOK

LEMMA SockFacts ==
  ASSUME Inv, sock # 0
  PROVE  sock \in Conns /\ Whole(conn[sock])
BY DEF Inv, SockOK, Conns

-----------------------------------------------------------------------------
(* The steps of the engine's threads                                       *)

LEMMA BeginStep ==
  ASSUME Inv, NEW t \in Callers, NEW cmd \in Commands, BeginCall(t, cmd),
         puts' = puts \/ puts' = puts \cup {<<cmd[2], cmd[3]>>},
         cmd[1] = "SET" => <<cmd[2], cmd[3]>> \in puts' /\ puts' \subseteq Bulks \X Bulks,
         cmd[1] = "GET" => puts' = puts
  PROVE  Inv'
<1> DEFINE k == [pc |-> "connect", cmd |-> cmd, buf |-> <<>>]
<1>1. puts \subseteq puts' /\ puts' \subseteq Bulks \X Bulks
  BY WireFacts DEF Inv, CallsOK
<1>2. CallOK(k, puts')
  BY DEF CallOK, Busy
<1>3. call' = [call EXCEPT ![t] = k] /\ got' = got /\ UNCHANGED <<sock, daemonVars, conn, store>>
  BY DEF BeginCall
<1> HIDE DEF k
<1>4. CallsOK'
  BY <1>1, <1>2, <1>3, OneCall DEF Inv
<1> QED
  BY <1>1, <1>3, <1>4, CallerStep

LEMMA GetStep ==
  ASSUME Inv, NEW t \in Callers, NEW k \in Keys, get(t, k)
  PROVE  Inv'
<1>1. <<"GET", k>> \in Commands /\ <<"GET", k>>[1] = "GET"
  BY DEF Commands
<1> DEFINE cmd == <<"GET", k>>
<1>2. BeginCall(t, cmd) /\ puts' = puts /\ cmd[1] = "GET" /\ cmd \in Commands
  BY <1>1 DEF get
<1> HIDE DEF cmd
<1> QED
  BY <1>2, BeginStep

LEMMA SetStep ==
  ASSUME Inv, NEW t \in Callers, NEW k \in Keys, NEW v \in Values, set(t, k, v)
  PROVE  Inv'
<1> DEFINE cmd == <<"SET", k, v>>
<1>1. cmd \in Commands /\ cmd[1] = "SET" /\ cmd[2] = k /\ cmd[3] = v
  BY DEF Commands
<1>2. BeginCall(t, cmd) /\ puts' = puts \cup {<<k, v>>}
  BY DEF set
<1>3. puts' \subseteq Bulks \X Bulks
  BY <1>2 DEF Inv, CallsOK, Bulks
<1> HIDE DEF cmd
<1> QED
  BY <1>1, <1>2, <1>3, BeginStep

LEMMA ConnectStep ==
  ASSUME Inv, NEW t \in Callers, connect(t)
  PROVE  Inv'
<1> DEFINE k == [call[t] EXCEPT !.pc = "send"]
<1>1. call[t] \in Busy /\ call[t].pc = "connect" /\ CallOK(call[t], puts)
  BY CallFacts DEF Inv, connect
<1>2. CallOK(k, puts)
  BY <1>1 DEF CallOK, Busy
<1>3. call' = [call EXCEPT ![t] = k] /\ puts' = puts /\ got' = got /\ UNCHANGED <<daemonVars, store>>
  BY DEF connect
<1> HIDE DEF k
<1>4. CallsOK' /\ puts \subseteq puts'
  BY <1>2, <1>3, OneCall DEF Inv, CallsOK
<1>5. CASE UNCHANGED <<sock, conn>>
  BY <1>3, <1>4, <1>5, CallerStep
<1>6. ASSUME NEW c \in Conns, Fresh(c), sock' = c, conn' = [conn EXCEPT ![c].client = "open"]
      PROVE  Inv'
  <2> DEFINE x == conn[c]
             y == [x EXCEPT !.client = "open"]
  <2>1. ConnOK(x, puts) /\ x = NoConn
    BY <1>6, ConnFacts DEF Fresh, ConnShape
  <2>2. y \in Connections /\ ConnShape(y) /\ y.sent = <<>> /\ y.served = <<>>
        /\ y.buf = <<>> /\ y.up = <<>> /\ y.ready = <<>> /\ y.client = "open" /\ y.worker = x.worker
    <3>1. x \in Connections
      BY <2>1 DEF ConnOK
    <3>2. /\ x.sent = <<>> /\ x.served = <<>> /\ x.buf = <<>> /\ x.up = <<>> /\ x.ready = <<>>
          /\ x.worker = "none"
      BY <2>1 DEF NoConn
    <3> HIDE DEF x
    <3>3. y \in Connections
      BY <3>1 DEF Connections
    <3>4. /\ y.sent = x.sent /\ y.served = x.served /\ y.buf = x.buf /\ y.up = x.up
          /\ y.ready = x.ready /\ y.client = "open" /\ y.worker = x.worker
      BY <3>1 DEF Connections
    <3> HIDE DEF y
    <3> QED
      BY <3>2, <3>3, <3>4 DEF ConnShape
  <2>3. ConnOK(y, puts') /\ Whole(y)
    BY <2>2, FreshStream DEF ConnOK, Whole
  <2>4. conn' = [conn EXCEPT ![c] = y]
    BY <1>6
  <2>5. conn'[c] = y
    BY <2>4 DEF Inv, ConnsOK
  <2>6. sock' \in 0..MaxConns
    BY <1>6 DEF Conns
  <2> HIDE DEF y
  <2> QED
    BY <1>3, <1>4, <1>6, <2>2, <2>3, <2>4, <2>5, <2>6, ClientStep
<1> QED
  BY <1>5, <1>6 DEF connect

LEMMA ConnectFailsStep ==
  ASSUME Inv, NEW t \in Callers, connectFails(t)
  PROVE  Inv'
<1>1. CallsOK' /\ UNCHANGED <<sock, conn, daemonVars, store>> /\ puts \subseteq puts'
  BY ReturnOK DEF Inv, connectFails
<1> QED
  BY <1>1, CallerStep

LEMMA PushConn ==
  ASSUME NEW x, NEW P, ConnOK(x, P), NEW Q, NEW b \in Seq(Symbols),
         NEW y \in Connections, KnownIn(y, Q), y.client # "none",
         y.sent = x.sent \o b, y.up = x.up \o b, y.served = x.served, y.ready = x.ready,
         y.buf = x.buf, y.worker = x.worker
  PROVE  ConnOK(y, Q)
<1>1. StreamOK(y)
  BY PushStream DEF ConnOK
<1>2. ConnShape(y)
  BY DEF ConnOK, ConnShape
<1> QED
  BY <1>1, <1>2 DEF ConnOK

\* A connection with bytes pushed
Push(x, b) == [x EXCEPT !.up = @ \o b, !.sent = @ \o b]

LEMMA PushedFields ==
  ASSUME NEW x \in Connections, NEW b \in Seq(Symbols), NEW y, y = Push(x, b)
  PROVE  /\ y \in Connections /\ y.sent = x.sent \o b /\ y.up = x.up \o b
         /\ y.served = x.served /\ y.ready = x.ready /\ y.buf = x.buf
         /\ y.worker = x.worker /\ y.client = x.client
         /\ y.down = x.down /\ y.out = x.out
<1> DEFINE u == x.up \o b
           v == x.sent \o b
<1>1. u \in Seq(Symbols) /\ v \in Seq(Symbols)
  BY ConnFields, ConcatFacts
<1>2. y = [x EXCEPT !.up = u, !.sent = v]
  BY DEF Push
<1> HIDE DEF u, v
<1>3. /\ y \in Connections /\ y.sent = v /\ y.up = u
      /\ y.served = x.served /\ y.ready = x.ready /\ y.buf = x.buf
      /\ y.worker = x.worker /\ y.client = x.client
      /\ y.down = x.down /\ y.out = x.out
  BY <1>1, <1>2 DEF Connections
<1> QED
  BY <1>3 DEF u, v

LEMMA ClosedFields ==
  ASSUME NEW x \in Connections
  PROVE  /\ Closed(x) \in Connections /\ Closed(x).client = "closed"
         /\ Closed(x).sent = x.sent /\ Closed(x).up = x.up /\ Closed(x).served = x.served
         /\ Closed(x).ready = x.ready /\ Closed(x).buf = x.buf /\ Closed(x).worker = x.worker
<1>1. <<>> \in Seq(Replies)
  OBVIOUS
<1> QED
  BY <1>1 DEF Closed, Connections

\* A connection that was used and is closed stays in order.
LEMMA ClosedOK ==
  ASSUME NEW x, NEW P, ConnOK(x, P)
  PROVE  ConnOK(Closed(x), P)
<1> DEFINE y == Closed(x)
<1>1. x \in Connections /\ ConnShape(x)
  BY DEF ConnOK
<1>2. /\ y \in Connections /\ y.client = "closed"
      /\ y.sent = x.sent /\ y.up = x.up /\ y.served = x.served
      /\ y.ready = x.ready /\ y.buf = x.buf /\ y.worker = x.worker
  BY <1>1, ClosedFields
<1> HIDE DEF y
<1>3. ConnShape(y)
  BY <1>1, <1>2 DEF ConnShape
<1>4. y.worker \in Ended \/ x.worker \notin Ended
  BY <1>2
<1>5. ConnOK(y, P)
  BY <1>2, <1>3, <1>4, QuietConn
<1> QED
  BY <1>5 DEF y

\* What the engine writes, whole or in part, keeps its connection in order.
LEMMA EngineWrites ==
  ASSUME Inv, NEW t \in Callers, call[t].pc = "send", sock # 0,
         NEW n \in 0..Len(Wire(call[t].cmd))
  PROVE  LET y == Pushed(sock, SubSeq(Wire(call[t].cmd), 1, n))
         IN  /\ ConnOK(y, puts) /\ y.worker = conn[sock].worker
             /\ n = Len(Wire(call[t].cmd)) => Whole(y)
<1> DEFINE x == conn[sock]
           cmd == call[t].cmd
           b == SubSeq(Wire(cmd), 1, n)
           y == Pushed(sock, b)
<1>1. sock \in Conns /\ Whole(x) /\ ConnOK(x, puts) /\ x \in Connections
  BY SockFacts, ConnFacts
<1>2. cmd \in Commands /\ (cmd[1] = "SET" => <<cmd[2], cmd[3]>> \in puts)
  BY CallFacts DEF Inv, CallOK
<1>3. b \in Seq(Symbols)
  BY <1>2, WireParsed
<1>4. CASE x.worker = "gone"
  BY <1>1, <1>4 DEF Pushed
<1>5. CASE x.worker # "gone"
  <2>1. y = Push(x, b)
    BY <1>5 DEF Pushed, Push
  <2>0. n \in 0..Len(Wire(cmd))
    OBVIOUS
  <2> HIDE DEF y, cmd
  <2>2. b \in Seq(Symbols) /\ x \in Connections
    BY <1>1, <1>3
  <2>3. /\ y \in Connections /\ y.sent = x.sent \o b /\ y.up = x.up \o b
        /\ y.served = x.served /\ y.ready = x.ready /\ y.buf = x.buf
        /\ y.worker = x.worker /\ y.client = x.client
    <3> HIDE DEF b, x
    <3> QED
      BY <2>1, <2>2, PushedFields
  <2>4. /\ KnownIn(y, puts)
        /\ n = Len(Wire(cmd)) => feed[y.sent].rest = <<>> /\ feed[y.sent].end = "more"
    <3>1. KnownIn(x, puts) /\ feed[x.sent].rest = <<>>
      BY <1>1 DEF ConnOK, Whole
    <3>2. y.sent = x.sent \o SubSeq(Wire(cmd), 1, n)
      BY <2>3
    <3> HIDE DEF x, b
    <3> QED
      BY <1>2, <2>0, <2>2, <3>1, <3>2, WriteKnown
  <2>5. y.client # "none" /\ y.client = "open"
    BY <1>1, <2>3 DEF Whole
  <2>6. ConnOK(y, puts)
    <3> HIDE DEF b, x
    <3> QED
      BY <1>1, <2>2, <2>3, <2>4, <2>5, PushConn
  <2> QED
    BY <2>3, <2>4, <2>5, <2>6 DEF Whole, y, cmd
<1> QED
  BY <1>4, <1>5

LEMMA WriteAllStep ==
  ASSUME Inv, NEW t \in Callers, write_all(t)
  PROVE  Inv'
<1> DEFINE k == [call[t] EXCEPT !.pc = "reply"]
           y == Pushed(sock, Wire(call[t].cmd))
           n == Len(Wire(call[t].cmd))
<1>1. call[t] \in Busy /\ call[t].pc = "send" /\ CallOK(call[t], puts) /\ call[t].cmd \in Commands
  BY CallFacts DEF Inv, write_all
<1>2. CallOK(k, puts)
  BY <1>1 DEF CallOK, Busy
<1>3. call' = [call EXCEPT ![t] = k] /\ puts' = puts /\ got' = got /\ sock' = sock
      /\ UNCHANGED <<daemonVars, store>> /\ sock # 0 /\ conn' = [conn EXCEPT ![sock] = y]
  BY DEF write_all
<1> HIDE DEF k
<1>4. CallsOK' /\ puts \subseteq puts'
  BY <1>2, <1>3, OneCall DEF Inv, CallsOK
<1>5. n \in 0..Len(Wire(call[t].cmd)) /\ SubSeq(Wire(call[t].cmd), 1, n) = Wire(call[t].cmd)
  BY <1>1, WireFacts, WholePrefix
<1>6. ConnOK(y, puts) /\ y.worker = conn[sock].worker /\ Whole(y)
  BY <1>1, <1>3, <1>5, EngineWrites
<1>7. sock \in Conns /\ sock \in 0..MaxConns
  BY <1>3, SockFacts DEF Conns
<1> HIDE DEF y
<1>8. conn'[sock'] = y
  BY <1>3, <1>7 DEF Inv, ConnsOK
<1> QED
  BY <1>3, <1>4, <1>6, <1>7, <1>8, ClientStep

LEMMA WriteAllFailsStep ==
  ASSUME Inv, NEW t \in Callers, write_allFails(t)
  PROVE  Inv'
<1>1. call[t].pc = "send" /\ call[t].cmd \in Commands /\ sock # 0
  BY CallFacts DEF Inv, write_allFails
<1>2. PICK n \in 0..Len(call[t].cmd) :
        conn' = [conn EXCEPT ![sock] = Closed(Pushed(sock, SubSeq(Wire(call[t].cmd), 1, n)))]
  BY DEF write_allFails
<1>3. n \in 0..Len(Wire(call[t].cmd))
  BY <1>1, WireFacts
<1> DEFINE x == Pushed(sock, SubSeq(Wire(call[t].cmd), 1, n))
<1>4. ConnOK(x, puts) /\ x.worker = conn[sock].worker
  BY <1>1, <1>3, EngineWrites
<1> HIDE DEF x
<1>5. ConnOK(Closed(x), puts) /\ Closed(x).worker = conn[sock].worker
  BY <1>4, ClosedOK, ClosedFields DEF ConnOK
<1>6. CallsOK' /\ puts' = puts /\ sock' = 0 /\ UNCHANGED <<daemonVars, store>>
  BY ReturnOK DEF Inv, write_allFails
<1>7. sock \in Conns /\ 0 \in 0..MaxConns
  BY <1>1, SockFacts, ArcaAssumption
<1>8. conn' = [conn EXCEPT ![sock] = Closed(x)]
  BY <1>2 DEF x
<1> QED
  BY <1>5, <1>6, <1>7, <1>8, ClientStep

\* Bytes are taken from what is in flight towards the client, or added to it.
LEMMA DownConn ==
  ASSUME NEW x, NEW P, ConnOK(x, P), x.client # "none", NEW d \in Seq(Replies),
         NEW y, y = [x EXCEPT !.down = d]
  PROVE  /\ ConnOK(y, P) /\ y.worker = x.worker /\ y.client = x.client /\ y.sent = x.sent
<1>1. x \in Connections /\ ConnShape(x)
  BY DEF ConnOK
<1>2. /\ y \in Connections /\ y.client = x.client
      /\ y.sent = x.sent /\ y.up = x.up /\ y.served = x.served
      /\ y.ready = x.ready /\ y.buf = x.buf /\ y.worker = x.worker
  BY <1>1 DEF Connections
<1>3. ConnShape(y)
  BY <1>1, <1>2 DEF ConnShape
<1> QED
  BY <1>2, <1>3, QuietConn

LEMMA ReadReplyStep ==
  ASSUME Inv, NEW t \in Callers, read_reply(t)
  PROVE  Inv'
<1> DEFINE x == conn[sock]
<1>1. sock # 0 /\ call[t].pc = "reply" /\ puts' = puts /\ sock' = sock
      /\ UNCHANGED <<daemonVars, store>>
  BY DEF read_reply
<1>2. /\ sock \in Conns /\ Whole(x) /\ ConnOK(x, puts) /\ x.down \in Seq(Replies)
      /\ call[t] \in Busy /\ CallOK(call[t], puts) /\ call[t].buf \in Seq(Replies)
  BY <1>1, SockFacts, ConnFacts, CallFacts DEF Inv, Connections, Busy
<1>3. PICK n \in 1..Len(x.down) :
        LET buf == call[t].buf \o SubSeq(x.down, 1, n) IN
        /\ conn' = [conn EXCEPT ![sock].down = SubSeq(@, n + 1, Len(@))]
        /\ IF Complete(buf) THEN Return(t, Reply(buf))
           ELSE call' = [call EXCEPT ![t].buf = buf] /\ UNCHANGED got
  BY DEF read_reply
<1> DEFINE u == SubSeq(x.down, 1, n)
           d == SubSeq(x.down, n + 1, Len(x.down))
           buf == call[t].buf \o u
           y == [x EXCEPT !.down = d]
<1>4. u \in Seq(Replies) /\ d \in Seq(Replies)
  BY <1>2, CutInTwo
<1>5. buf \in Seq(Replies)
  <2> HIDE DEF u
  <2> QED
    BY <1>2, <1>4, ConcatFacts
<1>6. CallsOK'
  <2>1. CASE Complete(buf)
    BY <1>1, <1>3, <2>1, ReturnOK DEF Inv
  <2>2. CASE ~Complete(buf)
    <3> DEFINE k == [call[t] EXCEPT !.buf = buf]
    <3>1. call' = [call EXCEPT ![t] = k] /\ got' = got
      BY <1>3, <2>2
    <3> HIDE DEF buf
    <3>2. CallOK(k, puts')
      BY <1>1, <1>2, <1>5 DEF CallOK, Busy
    <3> HIDE DEF k
    <3> QED
      BY <1>1, <3>1, <3>2, OneCall DEF Inv, CallsOK
  <2> QED
    BY <2>1, <2>2
<1>7. conn' = [conn EXCEPT ![sock] = y]
  BY <1>3
<1>8. x.client # "none"
  BY <1>2 DEF Whole
<1> HIDE DEF x, d
<1>9. ConnOK(y, puts) /\ y.worker = x.worker /\ y.client = x.client /\ y.sent = x.sent
  BY <1>2, <1>4, <1>8, DownConn
<1> HIDE DEF y
<1>10. Whole(y)
  BY <1>2, <1>9 DEF Whole
<1>11. conn'[sock'] = y
  BY <1>1, <1>2, <1>7 DEF Inv, ConnsOK
<1> QED
  BY <1>1, <1>2, <1>6, <1>7, <1>9, <1>10, <1>11, ClientStep DEF Inv, SockOK, x

LEMMA ReadReplyFailsStep ==
  ASSUME Inv, NEW t \in Callers, read_replyFails(t)
  PROVE  Inv'
<1>1. CallsOK' /\ puts' = puts /\ sock' = 0 /\ UNCHANGED <<daemonVars, store>>
  BY ReturnOK DEF Inv, read_replyFails, Drop
<1>2. CASE sock = 0
  BY <1>1, <1>2, CallerStep DEF read_replyFails, Drop
<1>3. CASE sock # 0
  <2> DEFINE x == conn[sock]
  <2>1. sock \in Conns /\ ConnOK(x, puts) /\ x \in Connections /\ 0 \in 0..MaxConns
    BY <1>3, SockFacts, ConnFacts, ArcaAssumption
  <2>2. conn' = [conn EXCEPT ![sock] = Closed(x)]
    BY <1>3 DEF read_replyFails, Drop
  <2> HIDE DEF x
  <2>3. ConnOK(Closed(x), puts) /\ Closed(x).worker = x.worker
    BY <2>1, ClosedOK, ClosedFields
  <2> DEFINE y == Closed(x)
  <2> HIDE DEF y
  <2> QED
    BY <1>1, <2>1, <2>2, <2>3, ClientStep DEF x, y
<1> QED
  BY <1>2, <1>3

-----------------------------------------------------------------------------
(* The steps of the other clients                                          *)

LEMMA OtherClosesStep ==
  ASSUME Inv, NEW c \in Others, OtherCloses(c)
  PROVE  Inv'
<1> DEFINE x == conn[c]
<1>1. c \in Conns /\ c # sock /\ ConnOK(x, puts) /\ x \in Connections
  BY ConnFacts DEF Others
<1>2. conn' = [conn EXCEPT ![c] = Closed(x)] /\ UNCHANGED <<clientVars, daemonVars, store>>
  BY DEF OtherCloses
<1>3. CallsOK' /\ puts' = puts /\ sock' = sock
  BY <1>2 DEF Inv, CallsOK, clientVars
<1>4. sock # 0 => sock \in Conns /\ conn'[sock] = conn[sock] /\ Whole(conn[sock])
  BY <1>1, <1>2, SockFacts DEF Inv, ConnsOK
<1> HIDE DEF x
<1>5. ConnOK(Closed(x), puts) /\ Closed(x).worker = x.worker
  BY <1>1, ClosedOK, ClosedFields
<1>6. sock' \in 0..MaxConns /\ (sock' # 0 => Whole(conn'[sock']))
  BY <1>3, <1>4 DEF Inv, SockOK
<1> DEFINE y == Closed(x)
<1> HIDE DEF y
<1> QED
  BY <1>1, <1>2, <1>3, <1>5, <1>6, ClientStep DEF x, y

\* The pairs that the SET commands of an input put
PairsOf(input) ==
  {<<cmd[2], cmd[3]>> : cmd \in {x \in ToSet(feed[input].ready) : x[1] = "SET" /\ Len(x) = 3}}

LEMMA PairsFacts ==
  ASSUME NEW input \in Seq(Symbols)
  PROVE  /\ PairsOf(input) \subseteq Bulks \X Bulks
         /\ \A y : \A P : y.sent = input /\ PairsOf(input) \subseteq P => KnownIn(y, P)
<1> DEFINE r == feed[input].ready
<1>1. r \in Seq(Seq(Bulks))
  BY FeedType DEF Feeds
<1>2. \A i \in 1..Len(r) : r[i] \in Seq(Bulks) /\ r[i] \in ToSet(r)
  BY <1>1 DEF ToSet
<1>3. \A x \in ToSet(r) : x \in Seq(Bulks)
  BY <1>1 DEF ToSet
<1>4. PairsOf(input) = {<<cmd[2], cmd[3]>> : cmd \in {x \in ToSet(r) : x[1] = "SET" /\ Len(x) = 3}}
  BY DEF PairsOf
<1>5. \A i \in 1..Len(r) : IsSet(r[i]) => <<r[i][2], r[i][3]>> \in PairsOf(input)
  BY <1>2, <1>4 DEF IsSet
<1>6. \A y : \A P : y.sent = input /\ PairsOf(input) \subseteq P => KnownIn(y, P)
  BY <1>5 DEF KnownIn
<1>7. PairsOf(input) \subseteq Bulks \X Bulks
  <2> SUFFICES ASSUME NEW x \in ToSet(r), x[1] = "SET", Len(x) = 3
               PROVE  x[2] \in Bulks /\ x[3] \in Bulks
    BY <1>4
  <2>1. x \in Seq(Bulks) /\ Len(x) = 3
    BY <1>3
  <2>2. \A s \in Seq(Bulks) : \A i \in 1..Len(s) : s[i] \in Bulks
    OBVIOUS
  <2>3. 2 \in 1..3 /\ 3 \in 1..3
    OBVIOUS
  <2> QED
    BY <2>1, <2>2, <2>3
<1> QED
  BY <1>6, <1>7

LEMMA OtherSendsStep ==
  ASSUME Inv, NEW input \in Inputs, OtherSends(input)
  PROVE  Inv'
<1>1. PICK c \in Conns :
        Fresh(c) /\ conn' = [conn EXCEPT ![c] = [Pushed(c, input) EXCEPT !.client = "open"]]
  BY DEF OtherSends
<1>2. input \in Seq(Symbols)
  BY ArcaAssumption
<1>3. /\ puts' = puts \cup PairsOf(input)
      /\ call' = call /\ got' = got /\ sock' = sock /\ UNCHANGED <<daemonVars, store>>
  BY DEF OtherSends, PairsOf
<1>4. PairsOf(input) \subseteq Bulks \X Bulks
  BY <1>2, PairsFacts
<1>5. puts \subseteq puts' /\ CallsOK'
  BY <1>3, <1>4, KnownMore DEF Inv, CallsOK
<1>6. conn[c] = NoConn /\ ConnOK(NoConn, puts)
  BY <1>1, ConnFacts DEF Fresh, ConnShape
<1> DEFINE y == [Pushed(c, input) EXCEPT !.client = "open"]
           m == Push(NoConn, input)
<1>7. y = [m EXCEPT !.client = "open"]
  BY <1>6 DEF Pushed, Push, NoConn
<1>8. /\ m \in Connections /\ m.sent = NoConn.sent \o input /\ m.up = NoConn.up \o input
      /\ m.served = NoConn.served /\ m.ready = NoConn.ready /\ m.buf = NoConn.buf
      /\ m.worker = NoConn.worker
  <2>1. NoConn \in Connections
    BY <1>6 DEF ConnOK
  <2> HIDE DEF m
  <2>2. m = Push(NoConn, input)
    BY DEF m
  <2> QED
    BY <1>2, <2>1, <2>2, PushedFields
<1> HIDE DEF m, y
<1>9. /\ y \in Connections /\ y.sent = m.sent /\ y.up = m.up /\ y.served = m.served
      /\ y.ready = m.ready /\ y.buf = m.buf /\ y.worker = m.worker /\ y.client = "open"
  BY <1>7, <1>8 DEF Connections
<1>10. NoConn.sent \o input = input
  <2>1. NoConn.sent = <<>>
    BY DEF NoConn
  <2> QED
    BY <1>2, <2>1
<1>11. KnownIn(y, puts')
  BY <1>2, <1>3, <1>8, <1>9, <1>10, PairsFacts
<1>12. ConnOK(y, puts')
  BY <1>2, <1>6, <1>8, <1>9, <1>11, PushConn
<1>13. conn' = [conn EXCEPT ![c] = y]
  BY <1>1 DEF y
<1>14. y.worker = conn[c].worker
  BY <1>6, <1>8, <1>9
<1>15. sock # 0 => sock \in Conns /\ Whole(conn[sock]) /\ conn[sock] = conn'[sock]
  <2>1. ASSUME sock # 0
        PROVE  sock \in Conns /\ Whole(conn[sock]) /\ conn[sock].client # conn[c].client
    BY <1>6, <2>1, SockFacts DEF Whole, NoConn
  <2> QED
    BY <1>13, <2>1 DEF Inv, ConnsOK
<1>16. sock' \in 0..MaxConns /\ (sock' # 0 => Whole(conn'[sock']))
  BY <1>3, <1>15 DEF Inv, SockOK
<1> QED
  BY <1>3, <1>5, <1>12, <1>13, <1>14, <1>16, ClientStep

-----------------------------------------------------------------------------
(* The steps of the daemon                                                 *)

LEMMA AcceptHeadStep ==
  ASSUME Inv, AcceptHead
  PROVE  Inv'
<1>1. accept_loop = "head" /\ accept_loop' \in {"accept", "exited"} /\ stopper' = stopper
      /\ UNCHANGED <<clientVars, conn, store, active_connections>>
  BY DEF AcceptHead
<1> QED
  BY <1>1, DaemonStep DEF Inv, Counted

LEMMA ReadAbortsStep ==
  ASSUME Inv, NEW c, ReadAborts(c)
  PROVE  Inv'
BY DaemonStep DEF Inv, Counted, ReadAborts

LEMMA StopFlagStep ==
  ASSUME Inv, StopFlag
  PROVE  Inv'
BY DaemonStep DEF Inv, Counted, StopFlag

LEMMA StopJoinStep ==
  ASSUME Inv, StopJoin
  PROVE  Inv'
BY DaemonStep DEF Inv, Counted, StopJoin

\* The workers are finitely many, and counted.
LEMMA AliveFinite == IsFiniteSet(Alive) /\ Cardinality(Alive) <= MaxConns
<1>1. IsFiniteSet(Conns) /\ Cardinality(Conns) = MaxConns
  BY FS_Interval, ArcaAssumption DEF Conns
<1>2. Alive \subseteq Conns
  BY DEF Alive
<1> QED
  BY <1>1, <1>2, FS_Subset

LEMMA StopWaitStep ==
  ASSUME Inv, StopWait
  PROVE  Inv'
<1>1. Alive = {}
  BY AliveFinite, FS_EmptySet DEF Inv, Counted, StopWait
<1> QED
  BY <1>1, DaemonStep DEF Inv, Counted, StopWait

\* The accept loop hands the oldest connection of the backlog to a new worker,
\* which counts from here on.
LEMMA AcceptStep ==
  ASSUME Inv, Accept
  PROVE  Inv'
<1> DEFINE backlog == {c \in Conns : conn[c].client # "none" /\ conn[c].worker = "none"}
<1>1. /\ accept_loop = "accept" /\ accept_loop' = "head"
      /\ UNCHANGED <<running, stopper, missed, clientVars, store>>
  BY DEF Accept
<1>2. CASE backlog = {}
  <2>1. UNCHANGED <<active_connections, conn>>
    BY <1>2 DEF Accept
  <2> QED
    BY <1>1, <2>1, DaemonStep DEF Inv, Counted
<1>3. CASE backlog # {}
  <2> DEFINE c == Min(backlog)
             x == conn[c]
             y == [x EXCEPT !.worker = "start"]
  <2>1. c \in backlog
    <3>1. backlog \in SUBSET Nat
      BY DEF Conns
    <3> HIDE DEF backlog
    <3>2. \E m \in backlog : \A n \in backlog : m =< n
      BY <1>3, <3>1, SmallestExists
    <3> QED
      BY <3>2 DEF Min
  <2>2. active_connections' = active_connections + 1 /\ conn' = [conn EXCEPT ![c].worker = "start"]
    BY <1>3 DEF Accept
  <2> HIDE DEF c
  <2>3. c \in Conns /\ x.client # "none" /\ x.worker = "none"
    BY <2>1
  <2>4. conn' = [conn EXCEPT ![c] = y]
    BY <2>2
  <2>5. ConnOK(x, puts) /\ x \in Connections /\ ConnShape(x)
    BY <2>3, ConnFacts
  <2> HIDE DEF x, backlog
  <2>6. /\ y \in Connections /\ y.client = x.client /\ y.worker = "start"
        /\ y.sent = x.sent /\ y.up = x.up /\ y.served = x.served
        /\ y.ready = x.ready /\ y.buf = x.buf
    BY <2>5 DEF Connections
  <2> HIDE DEF y
  <2>7. ConnOK(y, puts)
    <3>1. ConnShape(y)
      BY <2>3, <2>5, <2>6 DEF ConnShape
    <3> QED
      BY <2>3, <2>5, <2>6, <3>1, QuietConn DEF Ended
  <2>8. puts' = puts /\ sock' = sock
    BY <1>1 DEF clientVars
  <2>9. /\ ConnsOK' /\ conn'[c] = y
        /\ \A d \in Conns : d # c => conn'[d] = conn[d]
    BY <2>3, <2>4, <2>7, <2>8, OneConn DEF Inv
  <2>10. CallsOK' /\ StoreOK'
    BY <1>1 DEF Inv, clientVars, CallsOK, StoreOK
  <2>11. SockOK'
    BY <2>6, <2>8, <2>9, SockFacts DEF Inv, SockOK, Whole, x
  <2>12. Counted'
    <3>1. Alive' = Alive \cup {c} /\ c \notin Alive
      BY <2>3, <2>6, <2>9 DEF Alive, x
    <3>2. Cardinality(Alive') = Cardinality(Alive) + 1
      BY <3>1, AliveFinite, FS_AddElement
    <3> QED
      BY <1>1, <2>2, <3>2 DEF Inv, Counted
  <2> QED
    BY <2>9, <2>10, <2>11, <2>12 DEF Inv
<1> QED
  BY <1>2, <1>3

\* A worker moves on and its stream stays.
LEMMA QuietWorker ==
  ASSUME Inv, NEW c \in Conns, NEW y \in Connections, conn' = [conn EXCEPT ![c] = y],
         conn[c].worker \notin {"none", "gone"}, conn[c].worker \notin Ended \/ y.worker \in Ended,
         y.worker \notin {"none", "gone"}, y.worker = "dispatch" <=> conn[c].worker = "dispatch",
         y.client = conn[c].client, y.sent = conn[c].sent, y.up = conn[c].up,
         y.served = conn[c].served, y.ready = conn[c].ready, y.buf = conn[c].buf,
         UNCHANGED <<clientVars, daemonVars, store>>
  PROVE  Inv'
<1>1. ConnOK(conn[c], puts) /\ ConnShape(conn[c])
  BY ConnFacts
<1>2. ConnShape(y)
  BY <1>1 DEF ConnShape, NoConn
<1>3. ConnOK(y, puts)
  BY <1>1, <1>2, QuietConn
<1>4. StoreOK'
  BY DEF Inv, clientVars, StoreOK
<1> QED
  BY <1>3, <1>4, WorkerStep

LEMMA RegisterStep ==
  ASSUME Inv, NEW c \in Conns, Register(c)
  PROVE  Inv'
<1> DEFINE x == conn[c]
           y == [x EXCEPT !.worker = "read", !.registered = TRUE]
<1>1. /\ x.worker = "start" /\ conn' = [conn EXCEPT ![c] = y]
      /\ UNCHANGED <<clientVars, daemonVars, store>>
  BY DEF Register
<1>2. x \in Connections
  BY ConnFacts
<1>3. /\ y \in Connections /\ y.client = x.client /\ y.worker = "read"
      /\ y.sent = x.sent /\ y.up = x.up /\ y.served = x.served
      /\ y.ready = x.ready /\ y.buf = x.buf
  BY <1>2 DEF Connections
<1> HIDE DEF y
<1> QED
  BY <1>1, <1>3, QuietWorker DEF Ended

LEMMA ReadEndsStep ==
  ASSUME Inv, NEW c \in Conns, ReadEnds(c)
  PROVE  Inv'
<1> DEFINE x == conn[c]
           y == [x EXCEPT !.worker = "leave"]
<1>1. /\ x.worker = "read" /\ conn' = [conn EXCEPT ![c] = y]
      /\ UNCHANGED <<clientVars, daemonVars, store>>
  BY DEF ReadEnds
<1>2. x \in Connections
  BY ConnFacts
<1>3. /\ y \in Connections /\ y.client = x.client /\ y.worker = "leave"
      /\ y.sent = x.sent /\ y.up = x.up /\ y.served = x.served
      /\ y.ready = x.ready /\ y.buf = x.buf
  BY <1>2 DEF Connections
<1> HIDE DEF y
<1> QED
  BY <1>1, <1>3, QuietWorker DEF Ended

LEMMA WriteStep ==
  ASSUME Inv, NEW c \in Conns, Write(c)
  PROVE  Inv'
<1> DEFINE x == conn[c]
<1>1. PICK ok \in BOOLEAN :
        conn' = [conn EXCEPT
            ![c].down = IF ok /\ conn[c].client = "open" THEN @ \o conn[c].out ELSE @,
            ![c].out = <<>>,
            ![c].worker = IF ok /\ @ = "write" THEN "read" ELSE "leave"]
  BY DEF Write
<1> DEFINE d == IF ok /\ x.client = "open" THEN x.down \o x.out ELSE x.down
           w == IF ok /\ x.worker = "write" THEN "read" ELSE "leave"
           e == <<>>
           y == [x EXCEPT !.down = d, !.out = e, !.worker = w]
<1>2. x.worker \in {"write", "fail"} /\ UNCHANGED <<clientVars, daemonVars, store>>
  BY DEF Write
<1>3. conn' = [conn EXCEPT ![c] = y]
  BY <1>1
<1>4. x \in Connections
  BY ConnFacts
<1>5. d \in Seq(Replies) /\ e \in Seq(Replies)
  BY <1>4, ConnFields, ConcatFacts
<1>6. w \in {"read", "leave"} /\ (x.worker = "fail" => w = "leave")
  OBVIOUS
<1> HIDE DEF d, w, e
<1>7. /\ y \in Connections /\ y.client = x.client /\ y.worker = w
      /\ y.sent = x.sent /\ y.up = x.up /\ y.served = x.served
      /\ y.ready = x.ready /\ y.buf = x.buf
  BY <1>4, <1>5, <1>6 DEF Connections
<1> HIDE DEF y
<1> QED
  BY <1>2, <1>3, <1>6, <1>7, QuietWorker DEF Ended

LEMMA ReadStep ==
  ASSUME Inv, NEW c \in Conns, Read(c)
  PROVE  Inv'
<1> DEFINE x == conn[c]
<1>1. PICK n \in 1..Len(x.up) :
        LET w == [conn[c] EXCEPT !.up = SubSeq(@, n + 1, Len(@))]
        IN  conn' = [conn EXCEPT ![c] = Fed(w, feed[Slice(c, n)])]
  BY DEF Read
<1>2. x.worker = "read" /\ UNCHANGED <<clientVars, daemonVars, store>>
  BY DEF Read
<1>3. x \in Connections /\ ConnOK(x, puts) /\ StreamOK(x) /\ ConnShape(x) /\ x.ready = <<>>
  BY <1>2, ConnFacts DEF ConnOK, ConnShape
<1> DEFINE s == x.buf \o SubSeq(x.up, 1, n)
           f == feed[s]
           u == SubSeq(x.up, n + 1, Len(x.up))
           g == [x EXCEPT !.up = u]
           y == Fed(g, f)
<1>4. f \in Feeds /\ u \in Seq(Symbols)
  <2>1. x.up \in Seq(Symbols) /\ x.buf \in Seq(Symbols)
    BY <1>3, ConnFields
  <2>2. SubSeq(x.up, 1, n) \in Seq(Symbols) /\ u \in Seq(Symbols)
    BY <2>1, CutInTwo
  <2>3. s \in Seq(Symbols)
    BY <2>1, <2>2, ConcatFacts
  <2> HIDE DEF s
  <2> QED
    BY <2>2, <2>3, FeedType
<1>5. StoreOK'
  BY <1>2 DEF Inv, clientVars, StoreOK
<1>8. conn' = [conn EXCEPT ![c] = y]
  BY <1>1 DEF Slice
<1>9. /\ g \in Connections /\ g.client = x.client /\ g.worker = "read"
      /\ g.sent = x.sent /\ g.served = x.served /\ g.ready = x.ready /\ g.up = u
  <2> HIDE DEF u
  <2> QED
    BY <1>2, <1>3, <1>4 DEF Connections
<1>6. CASE f.end = "error"
  <2> DEFINE e == << "-ERR" >>
  <2>1. e \in Seq(Replies)
    BY DEF Replies
  <2>2. y = [g EXCEPT !.buf = f.rest, !.out = e, !.worker = "fail"]
    BY <1>6 DEF Fed
  <2> HIDE DEF f, g, e, y
  <2>4. /\ y \in Connections /\ y.client = x.client /\ y.worker = "fail"
        /\ y.sent = x.sent /\ y.served = x.served /\ y.ready = x.ready
    BY <1>4, <1>9, <2>1, <2>2 DEF Connections, Feeds
  <2> HIDE DEF y, x
  <2>5. StreamOK(y)
    BY <1>3, <2>4, ServedIsPrefix DEF StreamOK, Ended
  <2>6. ConnShape(y)
    BY <1>2, <1>3, <2>4 DEF ConnShape, NoConn
  <2>7. ConnOK(y, puts)
    BY <1>3, <2>4, <2>5, <2>6, KnownSame DEF ConnOK
  <2> QED
    BY <1>2, <1>5, <1>8, <2>4, <2>7, WorkerStep DEF x
<1>7. CASE f.end # "error"
  <2> DEFINE w == IF f.ready # <<>> THEN "dispatch" ELSE x.worker
  <2>2. y = [g EXCEPT !.buf = f.rest, !.ready = f.ready, !.worker = w]
    <3> HIDE DEF g
    <3> QED
      BY <1>2, <1>7, <1>9 DEF Fed
  <2>8. w \in {"read", "dispatch"} /\ (w = "dispatch" <=> f.ready # <<>>)
    BY <1>2
  <2> HIDE DEF f, g, w, y
  <2>4. /\ y \in Connections /\ y.client = x.client /\ y.worker = w
        /\ y.sent = x.sent /\ y.served = x.served /\ y.ready = f.ready
        /\ y.buf = f.rest /\ y.up = u
    <3> HIDE DEF u
    <3> QED
      BY <1>4, <1>9, <2>2, <2>8 DEF Connections, Feeds
  <2> HIDE DEF y, x
  <2>5. StreamOK(y)
    <3>1. n \in 0..Len(x.up) /\ y.worker \notin Ended
      BY <2>4, <2>8 DEF Ended
    <3> QED
      BY <1>2, <1>3, <2>4, <3>1, ReadStream DEF f, u
  <2>6. ConnShape(y)
    BY <1>2, <1>3, <2>4, <2>8 DEF ConnShape, NoConn
  <2>7. ConnOK(y, puts)
    BY <1>3, <2>4, <2>5, <2>6, KnownSame DEF ConnOK
  <2> QED
    BY <1>2, <1>5, <1>8, <2>4, <2>7, <2>8, WorkerStep DEF x
<1> QED
  BY <1>6, <1>7

\* The worker leaves; what its client may still send nobody reads.
LEMMA LeaveStep ==
  ASSUME Inv, NEW c \in Conns, Leave(c)
  PROVE  Inv'
<1> DEFINE x == conn[c]
           y == [NoConn EXCEPT !.client = x.client, !.worker = "gone", !.down = x.down]
<1>1. /\ x.worker = "leave" /\ conn' = [conn EXCEPT ![c] = y]
      /\ active_connections' = active_connections - 1
      /\ UNCHANGED <<running, accept_loop, stopper, missed, clientVars, store>>
  BY DEF Leave
<1>2. x \in Connections /\ ConnShape(x)
  BY ConnFacts
<1>3. x.client # "none"
  BY <1>1, <1>2 DEF ConnShape, NoConn
<1> HIDE DEF x
<1>4. /\ y \in Connections /\ y.client = x.client /\ y.worker = "gone"
      /\ y.sent = <<>> /\ y.served = <<>> /\ y.ready = <<>> /\ y.buf = <<>> /\ y.up = <<>>
  <2> DEFINE e == <<>>
  <2>1. e \in Seq(Symbols) /\ e \in Seq(Seq(Bulks)) /\ e \in Seq(Replies)
    OBVIOUS
  <2>6. NoConn = [client |-> "none", worker |-> "none", up |-> e, down |-> e,
                  buf |-> e, ready |-> e, out |-> e, registered |-> FALSE,
                  shut |-> FALSE, sent |-> e, served |-> e]
    BY DEF NoConn
  <2> HIDE DEF e
  <2>2. /\ NoConn \in Connections
        /\ NoConn.sent = e /\ NoConn.served = e /\ NoConn.ready = e
        /\ NoConn.buf = e /\ NoConn.up = e
    BY <2>1, <2>6 DEF Connections
  <2>3. x.down \in Seq(Replies) /\ x.client \in {"none", "open", "closed"}
    BY <1>2 DEF Connections
  <2>4. y \in Connections /\ y.client = x.client /\ y.worker = "gone"
    BY <2>2, <2>3 DEF Connections
  <2>5. y.sent = e /\ y.served = e /\ y.ready = e /\ y.buf = e /\ y.up = e
    BY <2>2 DEF Connections
  <2> QED
    BY <2>4, <2>5 DEF e
<1> HIDE DEF y
<1>5. StreamOK(y) /\ KnownIn(y, puts) /\ feed[y.sent].rest = <<>> /\ feed[y.sent].end = "more"
  BY <1>4, FreshStream
<1>6. ConnOK(y, puts)
  BY <1>3, <1>4, <1>5 DEF ConnOK, ConnShape
<1>7. puts' = puts /\ sock' = sock
  BY <1>1 DEF clientVars
<1>8. /\ ConnsOK' /\ conn'[c] = y
      /\ \A d \in Conns : d # c => conn'[d] = conn[d]
  BY <1>1, <1>6, <1>7, OneConn DEF Inv
<1>9. CallsOK' /\ StoreOK'
  BY <1>1 DEF Inv, clientVars, CallsOK, StoreOK
<1>10. SockOK'
  BY <1>4, <1>5, <1>7, <1>8, SockFacts DEF Inv, SockOK, Whole, x
<1>11. Counted'
  <2>1. Alive' = Alive \ {c} /\ c \in Alive
    BY <1>1, <1>4, <1>8 DEF Alive, x
  <2>2. Cardinality(Alive') = Cardinality(Alive) - 1
    BY <2>1, AliveFinite, FS_RemoveElement
  <2> QED
    BY <1>1, <2>1, <2>2 DEF Inv, Counted
<1> QED
  BY <1>8, <1>9, <1>10, <1>11 DEF Inv

\* stop() shuts down the sockets that are registered.
LEMMA StopShutdownStep ==
  ASSUME Inv, StopShutdown
  PROVE  Inv'
<1> DEFINE y(c) == [conn[c] EXCEPT !.shut = conn[c].registered]
<1>1. /\ stopper = "shutdown" /\ stopper' = "wait" /\ conn' = [c \in Conns |-> y(c)]
      /\ UNCHANGED <<running, active_connections, accept_loop, clientVars, store>>
  BY DEF StopShutdown
<1>2. ASSUME NEW c \in Conns
      PROVE  /\ ConnOK(y(c), puts) /\ y(c).client = conn[c].client
             /\ y(c).worker = conn[c].worker /\ y(c).sent = conn[c].sent
  <2> DEFINE x == conn[c]
             z == y(c)
  <2>1. x \in Connections /\ ConnOK(x, puts) /\ ConnShape(x)
    BY ConnFacts
  <2> HIDE DEF x
  <2>2. /\ z \in Connections /\ z.client = x.client /\ z.worker = x.worker
        /\ z.sent = x.sent /\ z.up = x.up /\ z.served = x.served
        /\ z.ready = x.ready /\ z.buf = x.buf
    BY <2>1 DEF Connections, x
  <2>6. x = NoConn => x.registered = x.shut
    BY DEF NoConn
  <2>3. x = NoConn => z = NoConn
    BY <2>1, <2>6 DEF Connections, x
  <2> HIDE DEF z
  <2>4. ConnShape(z)
    BY <2>1, <2>2, <2>3 DEF ConnShape
  <2>5. ConnOK(z, puts)
    BY <2>1, <2>2, <2>4, QuietConn
  <2> QED
    BY <2>2, <2>5 DEF z, x
<1>3. puts' = puts /\ sock' = sock
  BY <1>1 DEF clientVars
<1> HIDE DEF y
<1>4. \A c \in Conns : conn'[c] = y(c)
  BY <1>1
<1>5. ConnsOK'
  BY <1>1, <1>2, <1>3, <1>4 DEF ConnsOK
<1>6. CallsOK' /\ StoreOK'
  BY <1>1 DEF Inv, clientVars, CallsOK, StoreOK
<1>7. SockOK'
  BY <1>2, <1>3, <1>4, SockFacts DEF Inv, SockOK, Whole
<1>8. Counted'
  <2>1. Alive' = Alive
    BY <1>2, <1>4, AliveSame
  <2> QED
    BY <1>1, <2>1 DEF Inv, Counted
<1> QED
  BY <1>5, <1>6, <1>7, <1>8 DEF Inv

-----------------------------------------------------------------------------
(* What a command does to the archive                                      *)

\* An archive holds only pairs of P.
HoldsIn(s, P) == /\ DOMAIN s \subseteq Bulks /\ s \in [DOMAIN s -> Bulks]
                 /\ \A k \in DOMAIN s : <<k, s[k]>> \in P

LEMMA WithoutHolds ==
  ASSUME NEW s, NEW P, HoldsIn(s, P), NEW S
  PROVE  HoldsIn(Without(s, S), P)
BY DEF HoldsIn, Without

LEMMA WithHolds ==
  ASSUME NEW s, NEW P, HoldsIn(s, P), NEW k \in Bulks, NEW v \in Bulks, <<k, v>> \in P
  PROVE  HoldsIn(With(s, k, v), P)
BY DEF HoldsIn, With

\* Replies of one symbol
Lines == {"+OK", "+PONG", "-ERR", "$-1", ":"}

LEMMA LineReply ==
  /\ \A x \in Lines : << x >> \in Seq(Replies)
  /\ \A v \in Bulks : << "$", v >> \in Seq(Replies)
<1>1. Lines \subseteq Replies /\ Bulks \subseteq Replies /\ "$" \in Replies
  BY DEF Lines, Replies
<1>2. \A x \in Replies : << x >> \in Seq(Replies)
  OBVIOUS
<1>3. \A x, y \in Replies : << x, y >> \in Seq(Replies)
  OBVIOUS
<1> QED
  BY <1>1, <1>2, <1>3

LEMMA PutReply ==
  ASSUME NEW s, NEW k, NEW v, NEW o \in put(s, k, v)
  PROVE  o.reply \in {<< "+OK" >>, << "-ERR" >>}
<1>1. CASE \E old \in SUBSET (DOMAIN s \ {k}) :
             o = [store |-> With(Without(s, old), k, v), reply |-> << "+OK" >>]
  BY <1>1
<1>2. CASE \E old \in SUBSET (DOMAIN s \ {k}) :
             o = [store |-> Without(s, old \cup {k}), reply |-> << "-ERR" >>]
  BY <1>2
<1>3. CASE o = [store |-> s, reply |-> << "-ERR" >>]
  BY <1>3
<1> QED
  BY <1>1, <1>2, <1>3 DEF put

LEMMA PutOutcome ==
  ASSUME NEW s, NEW P, HoldsIn(s, P), NEW k \in Bulks, NEW v \in Bulks, <<k, v>> \in P,
         NEW o \in put(s, k, v)
  PROVE  HoldsIn(o.store, P) /\ o.reply \in {<< "+OK" >>, << "-ERR" >>}
<1>1. CASE \E old \in SUBSET (DOMAIN s \ {k}) :
             o = [store |-> With(Without(s, old), k, v), reply |-> << "+OK" >>]
  <2>1. PICK old \in SUBSET (DOMAIN s \ {k}) :
               o = [store |-> With(Without(s, old), k, v), reply |-> << "+OK" >>]
    BY <1>1
  <2> DEFINE w == Without(s, old)
  <2>2. HoldsIn(w, P)
    BY WithoutHolds
  <2> HIDE DEF w
  <2>3. HoldsIn(With(w, k, v), P)
    BY <2>2, WithHolds
  <2> QED
    BY <2>1, <2>3 DEF w
<1>2. CASE o = [store |-> s, reply |-> << "-ERR" >>]
  BY <1>2
<1>3. CASE \E old \in SUBSET (DOMAIN s \ {k}) :
             o = [store |-> Without(s, old \cup {k}), reply |-> << "-ERR" >>]
  BY <1>3, WithoutHolds
<1> QED
  BY <1>1, <1>2, <1>3 DEF put

\* A command that is no SET leaves the archive or drops one entry of it.
LEMMA OtherOutcome ==
  ASSUME NEW s, NEW cmd, ~IsSet(cmd), NEW o \in dispatch(cmd, s)
  PROVE  /\ o.store = s \/ o.store = Without(s, {cmd[2]})
         /\ \/ \E x \in Lines : o.reply = << x >>
            \/ cmd[1] = "GET" /\ cmd[2] \in DOMAIN s /\ o.reply = << "$", s[cmd[2]] >>
            \/ cmd[1] = "ARCA.DRAFT" /\ o.reply = << "$", "tokens" >>
<1>1. DOMAIN Words = {"SET", "GET", "DEL", "EXISTS", "DBSIZE", "ARCA.OBSERVE", "ARCA.DRAFT"}
      /\ Words["SET"] = 3
  BY DEF Words
<1> DEFINE Bare(r) == o = [store |-> s, reply |-> r]
           Less(r) == o = [store |-> Without(s, {cmd[2]}), reply |-> r]
<1>2. \/ \E x \in Lines : Bare(<< x >>) \/ Less(<< x >>)
      \/ cmd[1] = "GET" /\ cmd[2] \in DOMAIN s /\ Bare(<< "$", s[cmd[2]] >>)
      \/ cmd[1] = "ARCA.DRAFT" /\ Bare(<< "$", "tokens" >>)
  BY <1>1 DEF dispatch, IsSet, Lines
<1> QED
  BY <1>2

LEMMA GetOutcome ==
  ASSUME NEW s, NEW cmd, cmd[1] = "GET", Len(cmd) = 2, NEW o \in dispatch(cmd, s)
  PROVE  \/ o.reply = << "$-1" >>
         \/ cmd[2] \in DOMAIN s /\ o.reply = << "$", s[cmd[2]] >>
<1>1. "GET" \in DOMAIN Words /\ Words["GET"] = 2
  BY DEF Words
<1> QED
  BY <1>1 DEF dispatch

LEMMA DispatchOutcome ==
  ASSUME NEW s, NEW P, HoldsIn(s, P), NEW cmd \in Seq(Bulks),
         IsSet(cmd) => <<cmd[2], cmd[3]>> \in P, NEW o \in dispatch(cmd, s)
  PROVE  HoldsIn(o.store, P) /\ o.reply \in Seq(Replies)
<1>1. CASE IsSet(cmd)
  <2>1. o \in put(s, cmd[2], cmd[3])
    <3>1. "SET" \in DOMAIN Words /\ Words["SET"] = 3
      BY DEF Words
    <3> QED
      BY <1>1, <3>1, SMTT(30) DEF dispatch, IsSet
  <2>2. cmd[2] \in Bulks /\ cmd[3] \in Bulks
    BY <1>1, SMTT(30) DEF IsSet
  <2> DEFINE k == cmd[2]
             v == cmd[3]
  <2>3. k \in Bulks /\ v \in Bulks /\ <<k, v>> \in P /\ o \in put(s, k, v)
    BY <1>1, <2>1, <2>2
  <2> HIDE DEF k, v
  <2>4. HoldsIn(o.store, P) /\ o.reply \in {<< "+OK" >>, << "-ERR" >>}
    BY <2>3, PutOutcome
  <2> QED
    BY <2>4, LineReply DEF Lines
<1>2. CASE ~IsSet(cmd)
  <2>1. HoldsIn(o.store, P)
    <3>1. o.store = s \/ o.store = Without(s, {cmd[2]})
      BY <1>2, OtherOutcome
    <3>2. HoldsIn(Without(s, {cmd[2]}), P)
      BY WithoutHolds
    <3> QED
      BY <3>1, <3>2
  <2>2. "tokens" \in Bulks /\ \A k \in DOMAIN s : s[k] \in Bulks
    BY DEF Bulks, HoldsIn
  <2>3. o.reply \in Seq(Replies)
    <3>1. \/ \E x \in Lines : o.reply = << x >>
          \/ \E v \in Bulks : o.reply = << "$", v >>
      BY <1>2, <2>2, OtherOutcome
    <3>2. ASSUME NEW x \in Lines, o.reply = << x >> PROVE o.reply \in Seq(Replies)
      BY <3>2, LineReply
    <3>3. ASSUME NEW v \in Bulks, o.reply = << "$", v >> PROVE o.reply \in Seq(Replies)
      BY <3>3, LineReply
    <3> QED
      BY <3>1, <3>2, <3>3
  <2> QED
    BY <2>1, <2>3
<1> QED
  BY <1>1, <1>2

\* One command is dispatched.
LEMMA DispatchStep ==
  ASSUME Inv, NEW c \in Conns, Dispatch(c)
  PROVE  Inv'
<1> DEFINE x == conn[c]
           cmd == Head(x.ready)
<1>1. x.worker = "dispatch" /\ UNCHANGED <<clientVars, daemonVars>>
  BY DEF Dispatch
<1>2. PICK o \in dispatch(cmd, store) :
        /\ store' = o.store
        /\ conn' = [conn EXCEPT ![c].out = @ \o o.reply, ![c].ready = Tail(@),
                                ![c].served = Append(@, Head(conn[c].ready)),
                                ![c].worker = IF Len(conn[c].ready) = 1 THEN "write" ELSE @]
  BY DEF Dispatch
<1>3. x \in Connections /\ ConnOK(x, puts) /\ StreamOK(x) /\ ConnShape(x) /\ KnownIn(x, puts)
  BY ConnFacts DEF ConnOK
<1>4. /\ x.ready # <<>> /\ cmd \in Seq(Bulks)
      /\ IsSet(cmd) => <<cmd[2], cmd[3]>> \in puts
  <2> HIDE DEF x
  <2> QED
    BY <1>1, <1>3, HeadKnown
<1> DEFINE a == x.out \o o.reply
           r == Tail(x.ready)
           v == Append(x.served, cmd)
           w == IF Len(x.ready) = 1 THEN "write" ELSE "dispatch"
           y == [x EXCEPT !.out = a, !.ready = r, !.served = v, !.worker = w]
<1>5. conn' = [conn EXCEPT ![c] = y]
  BY <1>1, <1>2
<1>6. HoldsIn(store', puts) /\ o.reply \in Seq(Replies)
  <2>1. HoldsIn(store, puts)
    BY DEF Inv, StoreOK, HoldsIn
  <2> HIDE DEF cmd
  <2> QED
    BY <1>2, <1>4, <2>1, DispatchOutcome
<1>7. StoreOK'
  BY <1>1, <1>6 DEF StoreOK, HoldsIn, clientVars
<1>8. a \in Seq(Replies) /\ r \in Seq(Seq(Bulks)) /\ v \in Seq(Seq(Bulks))
  <2>1. x.out \in Seq(Replies) /\ x.ready \in Seq(Seq(Bulks)) /\ x.served \in Seq(Seq(Bulks))
    BY <1>3, ConnFields
  <2>2. a \in Seq(Replies)
    BY <1>6, <2>1, ConcatFacts
  <2>3. r \in Seq(Seq(Bulks)) /\ v \in Seq(Seq(Bulks))
    <3> DEFINE S == Seq(Bulks)
    <3>1. cmd \in S /\ x.ready \in Seq(S) /\ x.served \in Seq(S) /\ x.ready # <<>>
      BY <1>4, <2>1
    <3> HIDE DEF S, cmd, x
    <3>2. r \in Seq(S) /\ v \in Seq(S)
      BY <3>1
    <3> QED
      BY <3>2 DEF S
  <2> QED
    BY <2>2, <2>3
<1>9. /\ w \in {"write", "dispatch"} /\ (w = "dispatch" <=> r # <<>>)
  <2> DEFINE S == Seq(Bulks)
             q == x.ready
  <2>1. q \in Seq(S) /\ q # <<>>
    BY <1>3, <1>4, ConnFields
  <2> HIDE DEF S, q
  <2>2. Len(q) = 1 <=> Tail(q) = <<>>
    <3>1. Tail(q) \in Seq(S) /\ Len(Tail(q)) = Len(q) - 1 /\ Len(q) \in Nat
      BY <2>1, TailFacts
    <3>2. Tail(q) = <<>> <=> Len(Tail(q)) = 0
      BY <3>1, EmptySeq, Zenon
    <3> QED
      BY <3>1, <3>2
  <2> QED
    BY <2>2 DEF q
<1> HIDE DEF a, r, v, w, x
<1>10. /\ y \in Connections /\ y.client = x.client /\ y.sent = x.sent
       /\ y.up = x.up /\ y.buf = x.buf /\ y.ready = r /\ y.served = v /\ y.worker = w
  BY <1>3, <1>8, <1>9 DEF Connections
<1> HIDE DEF y
<1>11. StreamOK(y)
  <2>1. x.worker \notin Ended /\ y.worker \notin Ended
    BY <1>1, <1>9, <1>10 DEF Ended, x
  <2>2. y.served = Append(x.served, Head(x.ready)) /\ y.ready = Tail(x.ready)
    BY <1>10 DEF v, r
  <2> QED
    BY <1>3, <1>4, <1>10, <2>1, <2>2, DispatchStream
<1>12. ConnShape(y)
  <2>1. x.client # "none"
    BY <1>1, <1>3 DEF ConnShape, NoConn, x
  <2> QED
    BY <1>9, <1>10, <2>1 DEF ConnShape
<1>13. ConnOK(y, puts)
  BY <1>3, <1>10, <1>11, <1>12, KnownSame DEF ConnOK
<1> QED
  BY <1>1, <1>5, <1>7, <1>9, <1>10, <1>13, WorkerStep DEF x

-----------------------------------------------------------------------------
(* The invariant                                                           *)

LEMMA InitInv == Init => Inv
<1> SUFFICES ASSUME Init PROVE Inv
  OBVIOUS
<1>1. CallsOK
  <2>1. call = [t \in Callers |-> Idle] /\ got = [t \in Callers |-> <<>>] /\ puts = Archived
    BY DEF Init
  <2>2. CallOK(Idle, puts)
    BY DEF CallOK, Idle
  <2>3. \A t \in Callers : call[t] = Idle /\ got[t] = <<>>
    BY <2>1
  <2>4. DOMAIN call = Callers /\ DOMAIN got = Callers /\ call = [t \in Callers |-> call[t]]
    BY <2>1
  <2> QED
    BY <2>1, <2>2, <2>3, <2>4, ArcaAssumption DEF CallsOK
<1>2. ConnsOK
  <2>1. conn = [c \in Conns |-> NoConn]
    BY DEF Init
  <2>2. ConnOK(NoConn, puts)
    <3> DEFINE e == <<>>
    <3>1. e \in Seq(Symbols) /\ e \in Seq(Seq(Bulks)) /\ e \in Seq(Replies)
      OBVIOUS
    <3>2. NoConn = [client |-> "none", worker |-> "none", up |-> e, down |-> e,
                    buf |-> e, ready |-> e, out |-> e, registered |-> FALSE,
                    shut |-> FALSE, sent |-> e, served |-> e]
      BY DEF NoConn
    <3>3. /\ NoConn.sent = <<>> /\ NoConn.served = <<>> /\ NoConn.ready = <<>>
          /\ NoConn.buf = <<>> /\ NoConn.up = <<>> /\ NoConn.worker = "none"
      BY DEF NoConn
    <3> HIDE DEF e
    <3>4. NoConn \in Connections
      BY <3>1, <3>2 DEF Connections
    <3>5. StreamOK(NoConn) /\ KnownIn(NoConn, puts)
      BY <3>3, FreshStream
    <3> QED
      BY <3>3, <3>4, <3>5 DEF ConnOK, ConnShape
  <2> QED
    BY <2>1, <2>2 DEF ConnsOK
<1>3. SockOK
  BY ArcaAssumption DEF Init, SockOK
<1>4. StoreOK
  <2> DEFINE K == {p[1] : p \in Archived}
             V(k) == CHOOSE v \in Bulks : <<k, v>> \in Archived
  <2>1. store = [k \in K |-> V(k)] /\ puts = Archived
    BY DEF Init
  <2>2. ASSUME NEW k \in K
        PROVE  k \in Bulks /\ V(k) \in Bulks /\ <<k, V(k)>> \in Archived
    <3>1. PICK p \in Archived : k = p[1]
      OBVIOUS
    <3>2. p = <<p[1], p[2]>> /\ p[1] \in Bulks /\ p[2] \in Bulks
      BY ArcaAssumption
    <3>3. \E v \in Bulks : <<k, v>> \in Archived
      BY <3>1, <3>2
    <3> QED
      BY <3>1, <3>2, <3>3
  <2> HIDE DEF K, V
  <2> QED
    BY <2>1, <2>2 DEF StoreOK
<1>5. Counted
  <2>1. Alive = {}
    BY DEF Init, Alive, NoConn
  <2> QED
    BY <2>1, FS_EmptySet DEF Init, Counted
<1> QED
  BY <1>1, <1>2, <1>3, <1>4, <1>5 DEF Inv

LEMMA InvStep == Inv /\ [Next]_vars => Inv'
<1> SUFFICES ASSUME Inv, [Next]_vars PROVE Inv'
  OBVIOUS
<1>1. CASE UNCHANGED vars
  <2>1. UNCHANGED <<clientVars, daemonVars, conn, store>>
    BY <1>1 DEF vars
  <2>2. UNCHANGED <<clientVars, conn, store, active_connections, accept_loop, stopper>>
    BY <2>1 DEF daemonVars
  <2> QED
    BY <2>2, DaemonStep DEF Inv, Counted
<1>2. ASSUME NEW t \in Callers, Client(t) PROVE Inv'
  <2>1. ASSUME NEW k \in Keys, get(t, k) PROVE Inv'
    BY <2>1, GetStep
  <2>2. ASSUME NEW k \in Keys, NEW v \in Values, set(t, k, v) PROVE Inv'
    BY <2>2, SetStep
  <2>3. CASE connect(t)
    BY <2>3, ConnectStep
  <2>4. CASE connectFails(t)
    BY <2>4, ConnectFailsStep
  <2>5. CASE write_all(t)
    BY <2>5, WriteAllStep
  <2>6. CASE write_allFails(t)
    BY <2>6, WriteAllFailsStep
  <2>7. CASE read_reply(t)
    BY <2>7, ReadReplyStep
  <2>8. CASE read_replyFails(t)
    BY <2>8, ReadReplyFailsStep
  <2> QED
    BY <1>2, <2>1, <2>2, <2>3, <2>4, <2>5, <2>6, <2>7, <2>8 DEF Client
<1>3. CASE Other
  <2>1. ASSUME NEW input \in Inputs, OtherSends(input) PROVE Inv'
    BY <2>1, OtherSendsStep
  <2>2. ASSUME NEW c \in Others, OtherCloses(c) PROVE Inv'
    BY <2>2, OtherClosesStep
  <2> QED
    BY <1>3, <2>1, <2>2 DEF Other
<1>4. CASE AcceptThread
  BY <1>4, AcceptHeadStep, AcceptStep DEF AcceptThread
<1>5. CASE StopFlag
  BY <1>5, StopFlagStep
<1>6. CASE Stopping
  BY <1>6, StopJoinStep, StopShutdownStep, StopWaitStep DEF Stopping
<1>7. ASSUME NEW c \in Conns, Worker(c) PROVE Inv'
  <2>1. CASE Register(c)
    BY <2>1, RegisterStep
  <2>2. CASE Read(c)
    BY <2>2, ReadStep
  <2>3. CASE ReadAborts(c)
    BY <2>3, ReadAbortsStep
  <2>4. CASE ReadEnds(c)
    BY <2>4, ReadEndsStep
  <2>5. CASE Dispatch(c)
    BY <2>5, DispatchStep
  <2>6. CASE Write(c)
    BY <2>6, WriteStep
  <2>7. CASE Leave(c)
    BY <2>7, LeaveStep
  <2> QED
    BY <1>7, <2>1, <2>2, <2>3, <2>4, <2>5, <2>6, <2>7 DEF Worker
<1> QED
  BY <1>1, <1>2, <1>3, <1>4, <1>5, <1>6, <1>7 DEF Next

LEMMA SpecInv == Spec => []Inv
BY InitInv, InvStep, PTL DEF Spec

\* The daemon dispatches what a parser of the whole stream would find, however
\* the bytes of a connection are cut: read_some() and feed() of
\* src/arca/server.cpp and resp.cpp, for any input, any number of clients.
THEOREM CommandsCorrect == Spec => []CommandsAsSent
<1>1. Inv => CommandsAsSent
  <2> SUFFICES ASSUME Inv, NEW c \in Conns
               PROVE  /\ IsPrefix(conn[c].served, feed[conn[c].sent].ready)
                      /\ conn[c].worker \notin {"fail", "leave", "gone"} =>
                           conn[c].served \o conn[c].ready \o feed[conn[c].buf \o conn[c].up].ready
                             = feed[conn[c].sent].ready
    BY DEF CommandsAsSent
  <2>1. conn[c] \in Connections /\ StreamOK(conn[c])
    BY ConnFacts DEF ConnOK
  <2>2. IsPrefix(conn[c].served, feed[conn[c].sent].ready)
    BY <2>1, ServedIsPrefix
  <2> QED
    BY <2>1, <2>2 DEF StreamOK, Ended
<1> QED
  BY <1>1, SpecInv, PTL

\* When stop() of src/arca/server.cpp has returned no worker is left and none
\* can start, and the types of client and daemon hold throughout.
THEOREM StopCorrect == Spec => []NoWorkerOutlivesStop
<1>1. Inv => NoWorkerOutlivesStop
  <2> SUFFICES ASSUME Inv PROVE NoWorkerOutlivesStop
    OBVIOUS
  <2>5. \A k \in {Idle} \cup Busy : k.pc \in {"idle", "connect", "send", "reply"}
    BY DEF Busy, Idle
  <2>1. \A t \in Callers : /\ call[t].pc \in {"idle", "connect", "send", "reply"}
                           /\ got[t] = <<>> \/ Len(got[t]) = 2
    BY <2>5 DEF Inv, CallsOK, CallOK
  <2>2. \A c \in Conns : conn[c] \in Connections /\ ConnShape(conn[c])
    BY ConnFacts
  <2>3. active_connections \in 0..MaxConns
    BY AliveFinite, FS_CardinalityType, ArcaAssumption DEF Inv, Counted
  <2>4. TypeOK
    BY <2>1, <2>2, <2>3 DEF TypeOK, Inv, SockOK, StoreOK, Counted, Connections, ConnShape
  <2> QED
    BY <2>4 DEF NoWorkerOutlivesStop, Inv, Counted
<1> QED
  BY <1>1, SpecInv, PTL

-----------------------------------------------------------------------------
(* One calling thread: its command is in one place at a time               *)

LEMMA ExchangeMore ==
  ASSUME NEW x, NEW k, NEW P, NEW Q, P \subseteq Q, Exchange(x, k, P)
  PROVE  Exchange(x, k, Q)
<1>1. ASSUME NEW r, Answers(k.cmd, r, P) PROVE Answers(k.cmd, r, Q)
  BY <1>1 DEF Answers
<1>2. Answered(x, k, P) => Answered(x, k, Q)
  BY <1>1 DEF Answered
<1>3. Replying(x, k, P) => Replying(x, k, Q)
  <2> DEFINE r == k.buf \o x.down
  <2>1. Answers(k.cmd, r, P) => Answers(k.cmd, r, Q)
    BY <1>1
  <2> QED
    BY <2>1 DEF Replying
<1> QED
  BY <1>2, <1>3 DEF Exchange

\* The parts of a connection that Exchange is about
SameWire(x, y) == y.up = x.up /\ y.buf = x.buf /\ y.ready = x.ready /\ y.out = x.out
                  /\ y.down = x.down

LEMMA ExchangeSame ==
  ASSUME NEW x, NEW y, NEW k, NEW P, Exchange(x, k, P), SameWire(x, y),
         y.worker = x.worker \/ (x.worker = "none" /\ y.worker = "start")
         \/ (x.worker = "start" /\ y.worker = "read") \/ (x.worker = "read" /\ y.worker = "leave")
  PROVE  Exchange(y, k, P)
<1>1. Resting(x) => Resting(y)
  BY DEF Resting, Silent, SameWire
<1>2. Sending(x, k) => Sending(y, k)
  BY DEF Sending, SameWire
<1>3. Taken(x, k) => Taken(y, k)
  BY DEF Taken, SameWire
<1>4. Answered(x, k, P) => Answered(y, k, P)
  BY DEF Answered, SameWire
<1>5. Replying(x, k, P) => Replying(y, k, P)
  BY DEF Replying, SameWire
<1>6. Lost(x, k) => Lost(y, k)
  BY DEF Lost, Silent, SameWire
<1> QED
  BY <1>1, <1>2, <1>3, <1>4, <1>5, <1>6 DEF Exchange

\* A worker leaves.
LEMMA ExchangeLeave ==
  ASSUME NEW x, NEW y, NEW k, NEW P, Exchange(x, k, P), x.worker = "leave",
         y.worker = "gone", y.up = <<>>, y.buf = <<>>, y.ready = <<>>, y.out = <<>>,
         y.down = x.down
  PROVE  Exchange(y, k, P)
<1>1. Resting(x) => Resting(y)
  BY DEF Resting, Silent
<1>2. Sending(x, k) => Lost(y, k)
  BY DEF Sending, Lost, Silent
<1>3. Replying(x, k, P) => Replying(y, k, P)
  BY DEF Replying
<1>4. Lost(x, k) => Lost(y, k)
  BY DEF Lost, Silent
<1>5. ~Taken(x, k) /\ ~Answered(x, k, P)
  BY DEF Taken, Answered
<1> QED
  BY <1>1, <1>2, <1>3, <1>4, <1>5 DEF Exchange

\* A worker reads a slice: a part of the command, or the last part of it.
LEMMA ExchangeRead ==
  ASSUME NEW x \in Connections, NEW y, NEW k \in Busy, NEW P, Exchange(x, k, P),
         x.worker = "read", NEW n \in 1..Len(x.up),
         y = Fed([x EXCEPT !.up = SubSeq(@, n + 1, Len(@))], feed[x.buf \o SubSeq(x.up, 1, n)])
  PROVE  Exchange(y, k, P)
<1> DEFINE u == SubSeq(x.up, 1, n)
           d == SubSeq(x.up, n + 1, Len(x.up))
           s == x.buf \o u
           f == feed[s]
           W == Wire(k.cmd)
           g == [x EXCEPT !.up = d]
<1>1. x.up \in Seq(Symbols) /\ x.buf \in Seq(Symbols) /\ k.cmd \in Commands
  BY ConnFields DEF Busy
<1>2. x.up # <<>>
  BY <1>1
<1>3. k.pc = "reply" /\ Sending(x, k)
  BY <1>2 DEF Exchange, Resting, Silent, Taken, Answered, Replying, Lost
<1>4. u \in Seq(Symbols) /\ d \in Seq(Symbols) /\ x.up = u \o d
  <2> DEFINE p == x.up
  <2>1. p \in Seq(Symbols) /\ n \in 0..Len(p)
    BY <1>1
  <2> HIDE DEF p
  <2>2. /\ SubSeq(p, 1, n) \in Seq(Symbols) /\ SubSeq(p, n + 1, Len(p)) \in Seq(Symbols)
        /\ p = SubSeq(p, 1, n) \o SubSeq(p, n + 1, Len(p))
    BY <2>1, CutInTwo
  <2> QED
    BY <2>2 DEF p
<1> HIDE DEF u, d
<1>5. s \in Seq(Symbols) /\ s \o d = W
  <2> DEFINE b == x.buf
  <2>1. (b \o u) \o d = b \o (u \o d)
    <3>1. b \in Seq(Symbols)
      BY <1>1
    <3> HIDE DEF b
    <3> QED
      BY <1>4, <3>1, ConcatAssociative, SMTT(30)
  <2> QED
    BY <1>1, <1>3, <1>4, <2>1, ConcatFacts DEF Sending
<1> DEFINE m == Len(s)
<1> HIDE DEF s, W
<1>6. m \in 0..Len(W) /\ s = SubSeq(W, 1, m) /\ (m = Len(W) <=> d = <<>>)
  BY <1>4, <1>5, FirstPart
<1>7. /\ g.ready = <<>> /\ g.out = <<>> /\ g.down = <<>> /\ g.up = d /\ g.worker = "read"
      /\ g \in Connections
  BY <1>3, <1>4 DEF Sending, Connections
<1>8. y = Fed(g, f)
  BY DEF s, u, d
<1> HIDE DEF m, g, f
<1>9. CASE m < Len(W)
  <2>1. f = [ready |-> <<>>, rest |-> s, end |-> "more"]
    BY <1>1, <1>6, <1>9, WireParsed DEF W, f
  <2>2. f.ready = <<>> /\ f.rest = s /\ f.end = "more"
    BY <2>1
  <2>3. /\ y.buf = s /\ y.up = d /\ y.ready = <<>> /\ y.out = <<>> /\ y.down = <<>>
        /\ y.worker = "read"
    BY <1>7, <1>8, <2>2 DEF Fed, Connections
  <2> QED
    BY <1>3, <1>5, <2>3 DEF Exchange, Sending, W
<1>10. CASE m = Len(W)
  <2>1. f = [ready |-> << k.cmd >>, rest |-> <<>>, end |-> "more"]
    BY <1>1, <1>6, <1>10, WireParsed DEF W, f
  <2> DEFINE q == << k.cmd >>
  <2>2. f.ready = q /\ f.rest = <<>> /\ f.end = "more" /\ q # <<>>
    BY <2>1
  <2> HIDE DEF q
  <2>3. /\ y.buf = <<>> /\ y.up = <<>> /\ y.ready = q /\ y.out = <<>> /\ y.down = <<>>
        /\ y.worker = "dispatch"
    <3>1. y = [g EXCEPT !.buf = f.rest, !.ready = f.ready, !.worker = "dispatch"]
      BY <1>8, <2>2 DEF Fed
    <3>2. d = <<>>
      BY <1>6, <1>10
    <3>3. /\ y.buf = f.rest /\ y.ready = f.ready /\ y.worker = "dispatch"
          /\ y.up = g.up /\ y.out = g.out /\ y.down = g.down
      BY <1>7, <3>1 DEF Connections
    <3> QED
      BY <1>7, <2>2, <3>2, <3>3
  <2> QED
    BY <1>3, <2>3 DEF Exchange, Sending, Taken, q
<1>11. m < Len(W) \/ m = Len(W)
  <2>1. Len(W) \in Nat
    BY <1>1, WireFacts DEF W
  <2> QED
    BY <1>6, <2>1
<1> QED
  BY <1>9, <1>10, <1>11

\* The one command is dispatched and answered.
LEMMA CommandAnswered ==
  ASSUME NEW cmd \in Commands, NEW P, NEW s, HoldsIn(s, P), NEW o \in dispatch(cmd, s)
  PROVE  Answers(cmd, o.reply, P)
<1>1. Len(cmd) \in {2, 3} /\ cmd[1] \in {"GET", "SET"} /\ (cmd[1] = "SET" <=> Len(cmd) = 3)
  BY WireFacts
<1>2. CASE cmd[1] = "SET"
  <2>1. o \in put(s, cmd[2], cmd[3])
    <3>1. "SET" \in DOMAIN Words /\ Words["SET"] = 3
      BY DEF Words
    <3> QED
      BY <1>1, <1>2, <3>1 DEF dispatch
  <2>2. o.reply \in {<< "+OK" >>, << "-ERR" >>}
    BY <2>1, PutReply
  <2> QED
    BY <1>2, <2>2 DEF Answers
<1>3. CASE cmd[1] = "GET"
  <2>1. Len(cmd) = 2
    BY <1>1, <1>3
  <2>2. \/ o.reply = << "$-1" >>
        \/ cmd[2] \in DOMAIN s /\ o.reply = << "$", s[cmd[2]] >>
    BY <1>3, <2>1, GetOutcome
  <2>3. cmd[2] \in DOMAIN s => s[cmd[2]] \in Bulks /\ <<cmd[2], s[cmd[2]]>> \in P
    BY DEF HoldsIn
  <2> QED
    BY <1>3, <2>2, <2>3 DEF Answers
<1> QED
  BY <1>1, <1>2, <1>3

LEMMA ExchangeDispatch ==
  ASSUME NEW x \in Connections, NEW y, NEW k, k.pc = "reply" => k.cmd \in Commands,
         NEW P, Exchange(x, k, P), x.worker = "dispatch",
         NEW s, HoldsIn(s, P), NEW o \in dispatch(Head(x.ready), s),
         y.up = x.up, y.buf = x.buf, y.down = x.down,
         o.reply \in Seq(Replies), y.out = x.out \o o.reply, y.ready = Tail(x.ready),
         y.worker = IF Len(x.ready) = 1 THEN "write" ELSE x.worker
  PROVE  Exchange(y, k, P)
<1>1. k.pc = "reply" /\ Taken(x, k)
  BY DEF Exchange, Resting, Sending, Answered, Replying, Lost
<1> DEFINE cmd == k.cmd
           r == o.reply
<1>2. cmd \in Commands /\ x.ready = << cmd >> /\ x.out = <<>>
  BY <1>1 DEF Taken
<1> HIDE DEF cmd
<1>3. Head(x.ready) = cmd /\ Tail(x.ready) = <<>> /\ Len(x.ready) = 1
  BY <1>2
<1>4. Answers(cmd, o.reply, P)
  BY <1>2, <1>3, CommandAnswered
<1>5. y.out = o.reply
  <2>1. r \in Seq(Replies)
    OBVIOUS
  <2> HIDE DEF r
  <2>2. <<>> \o r = r
    BY <2>1
  <2> QED
    BY <1>2, <2>2 DEF r
<1>6. /\ y.up = <<>> /\ y.buf = <<>> /\ y.ready = <<>> /\ y.down = <<>>
      /\ k.buf = <<>> /\ y.worker = "write"
  BY <1>1, <1>3 DEF Taken
<1> QED
  BY <1>1, <1>4, <1>5, <1>6 DEF Exchange, Answered, cmd

\* The answer is written, or the connection is found shut.
LEMMA ExchangeWrite ==
  ASSUME NEW x \in Connections, NEW y, NEW k, NEW P, Exchange(x, k, P),
         x.worker \in {"write", "fail"}, x.client = "open", NEW ok \in BOOLEAN,
         y.up = x.up, y.buf = x.buf, y.ready = x.ready, y.out = <<>>,
         y.down = IF ok /\ x.client = "open" THEN x.down \o x.out ELSE x.down,
         y.worker = IF ok /\ x.worker = "write" THEN "read" ELSE "leave"
  PROVE  Exchange(y, k, P)
<1>1. k.pc = "reply" /\ Answered(x, k, P) /\ x.worker = "write"
  BY DEF Exchange, Resting, Sending, Taken, Answered, Replying, Lost
<1>2. /\ y.up = <<>> /\ y.buf = <<>> /\ y.ready = <<>> /\ x.down = <<>> /\ k.buf = <<>>
      /\ Answers(k.cmd, x.out, P)
  BY <1>1 DEF Answered
<1>3. CASE ok
  <2> DEFINE r == x.out
  <2>1. r \in Seq(Replies)
    BY ConnFields
  <2> HIDE DEF r
  <2>2. <<>> \o r = r
    BY <2>1
  <2>3. y.down = x.out /\ y.worker = "read"
    BY <1>1, <1>2, <1>3, <2>2 DEF r
  <2>4. k.buf \o y.down = x.out
    BY <1>2, <2>2, <2>3 DEF r
  <2> QED
    BY <1>1, <1>2, <2>3, <2>4 DEF Exchange, Replying
<1>4. CASE ~ok
  BY <1>1, <1>2, <1>4 DEF Exchange, Lost, Silent
<1> QED
  BY <1>3, <1>4

\* The engine writes its command.
LEMMA ExchangeSend ==
  ASSUME NEW x \in Connections, NEW y, NEW k, NEW l, NEW P, Exchange(x, k, P), k.pc # "reply",
         k.cmd \in Commands, l.pc = "reply", l.cmd = k.cmd, l.buf = <<>>,
         y = IF x.worker = "gone" THEN x ELSE Push(x, Wire(k.cmd))
  PROVE  Exchange(y, l, P)
<1>1. Resting(x)
  BY DEF Exchange
<1>2. CASE x.worker = "gone"
  BY <1>1, <1>2 DEF Exchange, Resting, Lost
<1>3. CASE x.worker # "gone"
  <2> DEFINE W == Wire(k.cmd)
  <2>1. W \in Seq(Symbols)
    BY WireFacts
  <2>2. y = Push(x, W)
    BY <1>3
  <2> HIDE DEF W
  <2>3. y.up = x.up \o W /\ y.buf = x.buf /\ y.ready = x.ready
        /\ y.worker = x.worker /\ y.down = x.down /\ y.out = x.out
    BY <2>1, <2>2, PushedFields, SMTT(30)
  <2>4. <<>> \o W = W
    BY <2>1
  <2>5. x.up = <<>> /\ x.buf = <<>> /\ x.ready = <<>> /\ x.out = <<>> /\ x.down = <<>>
    BY <1>1 DEF Resting, Silent
  <2>6. y.buf \o y.up = W
    BY <2>3, <2>4, <2>5
  <2> QED
    BY <1>1, <1>3, <2>3, <2>5, <2>6 DEF Exchange, Resting, Sending, W
<1> QED
  BY <1>2, <1>3

LEMMA AnswerShape ==
  ASSUME NEW cmd, NEW r, NEW P, Answers(cmd, r, P)
  PROVE  Complete(r) /\ Len(r) \in {1, 2} /\ (Len(r) = 2 => r[1] = "$")
<1>1. ASSUME NEW a \in Lines, r = << a >>
      PROVE  Complete(r) /\ Len(r) \in {1, 2} /\ (Len(r) = 2 => r[1] = "$")
  BY <1>1 DEF Complete, Lines
<1>2. ASSUME NEW v, r = << "$", v >>
      PROVE  Complete(r) /\ Len(r) \in {1, 2} /\ (Len(r) = 2 => r[1] = "$")
  <2>1. Len(r) = 2 /\ r[1] = "$"
    BY <1>2
  <2> QED
    BY <2>1 DEF Complete
<1>3. (\E a \in Lines : r = << a >>) \/ (\E v \in Bulks : r = << "$", v >>)
  BY DEF Answers, Lines
<1> QED
  BY <1>1, <1>2, <1>3

\* A first part of one or two symbols
LEMMA ShortParts ==
  ASSUME NEW S, NEW s \in Seq(S), NEW d \in Seq(S), NEW r, r = s \o d, Len(s) >= 1,
         Len(r) \in {1, 2}
  PROVE  (s = r /\ d = <<>>) \/ (Len(r) = 2 /\ s = << r[1] >>)
<1>1. r \in Seq(S) /\ Len(r) = Len(s) + Len(d) /\ \A i \in 1..Len(s) : r[i] = s[i]
  BY ConcatFacts
<1>2. /\ Len(s) \in 0..Len(r) /\ s = SubSeq(r, 1, Len(s))
      /\ Len(s) = Len(r) <=> d = <<>>
  BY FirstPart
<1>3. SubSeq(r, 1, Len(r)) = r
  BY <1>1, WholePrefix
<1>4. CASE Len(s) = Len(r)
  BY <1>2, <1>3, <1>4
<1>5. CASE Len(s) # Len(r)
  <2> DEFINE m == Len(s)
             n == Len(r)
  <2>3. m \in 0..n /\ m # n /\ m >= 1 /\ n \in {1, 2}
    BY <1>2, <1>5
  <2> HIDE DEF m, n
  <2>4. m = 1 /\ n = 2
    BY <2>3
  <2>1. Len(s) = 1 /\ Len(r) = 2
    BY <2>4 DEF m, n
  <2>2. s = << s[1] >> /\ s[1] = r[1]
    BY <1>1, <2>1
  <2> QED
    BY <2>1, <2>2
<1> QED
  BY <1>4, <1>5

\* The engine receives a part of the reply, or the last part of it.
LEMMA ExchangeReceive ==
  ASSUME NEW x \in Connections, NEW k \in Busy, NEW P, Exchange(x, k, P), k.pc = "reply",
         NEW n \in 1..Len(x.down), NEW buf, buf = k.buf \o SubSeq(x.down, 1, n),
         NEW y, y.up = x.up, y.buf = x.buf, y.ready = x.ready, y.out = x.out,
         y.worker = x.worker, y.down = SubSeq(x.down, n + 1, Len(x.down))
  PROVE  /\ Complete(buf) => Resting(y) /\ Answers(k.cmd, buf, P)
         /\ ~Complete(buf) =>
              \A l : l.pc = "reply" /\ l.cmd = k.cmd /\ l.buf = buf => Exchange(y, l, P)
<1> DEFINE u == SubSeq(x.down, 1, n)
           d == SubSeq(x.down, n + 1, Len(x.down))
           b == k.buf
           r == b \o x.down
<1>1. x.down \in Seq(Replies) /\ b \in Seq(Replies)
  BY ConnFields DEF Busy
<1>2. x.down # <<>>
  BY <1>1
<1>3. Replying(x, k, P)
  BY <1>2 DEF Exchange, Sending, Taken, Answered, Lost, Silent
<1>4. u \in Seq(Replies) /\ d \in Seq(Replies) /\ x.down = u \o d /\ Len(u) >= 1
  <2> DEFINE p == x.down
  <2>1. p \in Seq(Replies) /\ n \in 0..Len(p) /\ n >= 1
    BY <1>1
  <2> HIDE DEF p
  <2>2. /\ SubSeq(p, 1, n) \in Seq(Replies) /\ SubSeq(p, n + 1, Len(p)) \in Seq(Replies)
        /\ p = SubSeq(p, 1, n) \o SubSeq(p, n + 1, Len(p))
    BY <2>1, CutInTwo
  <2>3. Len(SubSeq(p, 1, n)) = n
    BY <2>1
  <2> QED
    BY <2>1, <2>2, <2>3 DEF p
<1>5. buf = b \o u /\ y.down = d /\ Answers(k.cmd, r, P)
  BY <1>3 DEF Replying
<1> HIDE DEF u, d, b
<1>6. r = buf \o d /\ buf \in Seq(Replies) /\ Len(buf) >= 1
  <2>1. (b \o u) \o d = b \o (u \o d)
    BY <1>1, <1>4, ConcatAssociative, SMTT(30)
  <2>2. b \o u \in Seq(Replies) /\ Len(b \o u) = Len(b) + Len(u) /\ Len(b) \in Nat /\ Len(u) \in Nat
    BY <1>1, <1>4
  <2>3. Len(b \o u) >= 1
    BY <1>4, <2>2
  <2> QED
    BY <1>4, <1>5, <2>1, <2>2, <2>3
<1> HIDE DEF r
<1>7. Complete(r) /\ Len(r) \in {1, 2} /\ (Len(r) = 2 => r[1] = "$")
  <2> DEFINE cmd == k.cmd
  <2>1. Answers(cmd, r, P)
    BY <1>5
  <2> HIDE DEF cmd
  <2> QED
    BY <2>1, AnswerShape
<1>8. (buf = r /\ d = <<>>) \/ (Len(r) = 2 /\ buf = << r[1] >>)
  <2> DEFINE s == buf
  <2>1. s \in Seq(Replies) /\ d \in Seq(Replies)
        /\ r = s \o d /\ Len(s) >= 1 /\ Len(r) \in {1, 2}
    BY <1>4, <1>6, <1>7
  <2> HIDE DEF s
  <2>2. (s = r /\ d = <<>>) \/ (Len(r) = 2 /\ s = << r[1] >>)
    BY <2>1, ShortParts, Zenon
  <2> QED
    BY <2>2 DEF s
<1>9. CASE buf = r /\ d = <<>>
  <2>1. Resting(y) /\ Answers(k.cmd, buf, P)
    BY <1>3, <1>5, <1>9 DEF Replying, Resting, Silent
  <2> QED
    BY <1>7, <1>9, <2>1
<1>10. CASE Len(r) = 2 /\ buf = << r[1] >>
  <2> DEFINE q == << "$" >>
  <2>1. buf = q
    BY <1>7, <1>10
  <2>2. ~Complete(buf)
    <3>1. q[1] = "$" /\ Len(q) = 1
      OBVIOUS
    <3>2. ~(1 >= 2)
      OBVIOUS
    <3> HIDE DEF q
    <3> QED
      BY <2>1, <3>1, <3>2 DEF Complete
  <2>3. ASSUME NEW l, l.pc = "reply", l.cmd = k.cmd, l.buf = buf PROVE Exchange(y, l, P)
    <3>1. Answers(l.cmd, l.buf \o y.down, P)
      BY <1>5, <1>6, <2>3
    <3>2. l.buf \in {<<>>, << "$" >>}
      BY <2>1, <2>3
    <3> QED
      BY <1>3, <2>3, <3>1, <3>2 DEF Exchange, Replying
  <2> QED
    BY <2>2, <2>3
<1> QED
  BY <1>8, <1>9, <1>10

\* What a complete reply means to get()
LEMMA ReplyMeans ==
  ASSUME NEW cmd, cmd[1] # "SET", NEW buf, NEW P, Answers(cmd, buf, P)
  PROVE  Reply(buf) = <<>> \/ \E v \in Bulks : Reply(buf) = << v >> /\ <<cmd[2], v>> \in P
<1>1. CASE buf = << "$-1" >>
  BY <1>1 DEF Reply
<1>2. ASSUME NEW v \in Bulks, buf = << "$", v >>, <<cmd[2], v>> \in P
      PROVE  Reply(buf) = << v >>
  BY <1>2 DEF Reply
<1> QED
  BY <1>1, <1>2 DEF Answers

-----------------------------------------------------------------------------
(* Steps while one thread calls                                            *)

OneCaller == \A t, u \in Callers : t = u

LEMMA SockSame ==
  ASSUME InStep, UNCHANGED <<sock, call>>, puts \subseteq puts',
         sock # 0 => /\ SameWire(conn[sock], conn'[sock])
                     /\ conn'[sock].worker = conn[sock].worker
  PROVE  InStep'
<1> SUFFICES ASSUME NEW t \in Callers, sock' # 0
             PROVE  Exchange(conn'[sock'], call'[t], puts')
  BY DEF InStep
<1>1. sock # 0 /\ Exchange(conn[sock], call[t], puts) /\ sock' = sock /\ call'[t] = call[t]
  BY DEF InStep
<1> DEFINE x == conn[sock]
           y == conn'[sock]
           k == call[t]
<1>2. Exchange(x, k, puts) /\ SameWire(x, y) /\ y.worker = x.worker
  BY <1>1
<1> HIDE DEF x, y, k
<1>3. Exchange(y, k, puts)
  BY <1>2, ExchangeSame
<1>4. Exchange(y, k, puts')
  BY <1>3, ExchangeMore
<1> QED
  BY <1>1, <1>4 DEF y, k

LEMMA SockWorker ==
  ASSUME Inv, InStep, NEW c \in Conns, NEW y, conn' = [conn EXCEPT ![c] = y],
         UNCHANGED <<sock, call, puts>>,
         \A t \in Callers : c = sock /\ Exchange(conn[c], call[t], puts)
                              => Exchange(y, call[t], puts)
  PROVE  InStep'
<1>1. conn'[c] = y /\ \A d \in Conns : d # c => conn'[d] = conn[d]
  BY DEF Inv, ConnsOK
<1>2. CASE c = sock
  BY <1>1, <1>2 DEF InStep
<1>3. CASE c # sock
  <2>1. sock # 0 => conn'[sock] = conn[sock]
    BY <1>1, <1>3, SockFacts
  <2> QED
    BY <2>1, SockSame DEF SameWire
<1> QED
  BY <1>2, <1>3

\* The state of its thread and socket changes, and its wire not.
LEMMA InStepMoved ==
  ASSUME Inv, InStep, NEW c \in Conns, NEW y, conn' = [conn EXCEPT ![c] = y],
         UNCHANGED <<sock, call, puts>>, SameWire(conn[c], y),
         \/ y.worker = conn[c].worker
         \/ conn[c].worker = "none" /\ y.worker = "start"
         \/ conn[c].worker = "start" /\ y.worker = "read"
         \/ conn[c].worker = "read" /\ y.worker = "leave"
  PROVE  InStep'
<1> DEFINE x == conn[c]
<1> HIDE DEF x
<1>1. ASSUME NEW t \in Callers, Exchange(x, call[t], puts) PROVE Exchange(y, call[t], puts)
  <2> DEFINE k == call[t]
  <2>1. Exchange(x, k, puts)
    BY <1>1
  <2> HIDE DEF k
  <2>2. Exchange(y, k, puts)
    BY <2>1, ExchangeSame DEF x
  <2> QED
    BY <2>2 DEF k
<1> QED
  BY <1>1, SockWorker DEF x

LEMMA OthersInStep ==
  ASSUME Inv, InStep, Other
  PROVE  InStep'
<1>1. UNCHANGED <<sock, call>> /\ puts \subseteq puts'
  BY DEF Other, OtherSends, OtherCloses, clientVars
<1>2. \E c \in Conns : /\ c # sock
                       /\ \E y : conn' = [conn EXCEPT ![c] = y]
  <2>1. ASSUME NEW input \in Inputs, OtherSends(input)
        PROVE  \E c \in Conns : c # sock /\ \E y : conn' = [conn EXCEPT ![c] = y]
    <3>1. PICK c \in Conns :
            Fresh(c) /\ conn' = [conn EXCEPT ![c] = [Pushed(c, input) EXCEPT !.client = "open"]]
      BY <2>1 DEF OtherSends
    <3>2. c # sock
      <4>1. conn[c].client = "none" /\ c # 0
        BY <3>1 DEF Fresh, Conns
      <4> QED
        BY <4>1, SockFacts DEF Whole
    <3> DEFINE y == [Pushed(c, input) EXCEPT !.client = "open"]
    <3>3. conn' = [conn EXCEPT ![c] = y]
      BY <3>1
    <3> HIDE DEF y
    <3> QED
      BY <3>2, <3>3
  <2>2. ASSUME NEW c \in Others, OtherCloses(c)
        PROVE  c \in Conns /\ c # sock /\ conn' = [conn EXCEPT ![c] = Closed(conn[c])]
    BY <2>2 DEF OtherCloses, Others
  <2> QED
    BY <2>1, <2>2 DEF Other
<1>3. sock # 0 => conn'[sock] = conn[sock]
  BY <1>2, SockFacts DEF Inv, ConnsOK
<1> QED
  BY <1>1, <1>3, SockSame DEF SameWire

LEMMA AcceptInStep ==
  ASSUME Inv, InStep, Accept
  PROVE  InStep'
<1> DEFINE backlog == {c \in Conns : conn[c].client # "none" /\ conn[c].worker = "none"}
<1>1. UNCHANGED <<sock, call, puts>>
  BY DEF Accept, clientVars
<1>2. CASE backlog = {}
  <2>1. conn' = conn
    BY <1>2 DEF Accept
  <2> QED
    BY <1>1, <2>1, SockSame DEF SameWire
<1>3. CASE backlog # {}
  <2> DEFINE c == Min(backlog)
             x == conn[c]
             y == [x EXCEPT !.worker = "start"]
  <2>1. c \in backlog
    <3>1. backlog \in SUBSET Nat
      BY DEF Conns
    <3> HIDE DEF backlog
    <3>2. \E m \in backlog : \A n \in backlog : m =< n
      BY <1>3, <3>1, SmallestExists
    <3> QED
      BY <3>2 DEF Min
  <2>2. conn' = [conn EXCEPT ![c].worker = "start"]
    BY <1>3 DEF Accept
  <2> HIDE DEF c
  <2>3. c \in Conns /\ x.worker = "none" /\ x \in Connections
    BY <2>1, ConnFacts
  <2>4. conn' = [conn EXCEPT ![c] = y]
    BY <2>2
  <2> HIDE DEF backlog
  <2>5. SameWire(x, y) /\ y.worker = "start"
    BY <2>3 DEF Connections, SameWire
  <2> HIDE DEF y
  <2> QED
    BY <1>1, <2>3, <2>4, <2>5, InStepMoved
<1> QED
  BY <1>2, <1>3

LEMMA DaemonInStep ==
  ASSUME Inv, InStep, AcceptHead \/ StopFlag \/ Stopping
  PROVE  InStep'
<1>1. UNCHANGED <<sock, call, puts>>
  BY DEF AcceptHead, StopFlag, Stopping, StopJoin, StopShutdown, StopWait, clientVars
<1>2. CASE conn' = conn
  BY <1>1, <1>2, SockSame DEF SameWire
<1>3. CASE StopShutdown
  <2>1. \A c \in Conns : conn'[c] = [conn[c] EXCEPT !.shut = conn[c].registered]
    BY <1>3 DEF StopShutdown
  <2>2. ASSUME NEW c \in Conns
        PROVE  SameWire(conn[c], conn'[c]) /\ conn'[c].worker = conn[c].worker
    <3>1. conn[c] \in Connections
      BY ConnFacts
    <3> QED
      BY <2>1, <3>1 DEF Connections, SameWire
  <2> QED
    BY <1>1, <2>2, SockFacts, SockSame
<1> QED
  BY <1>2, <1>3 DEF AcceptHead, StopFlag, Stopping, StopJoin, StopWait

LEMMA ReadInStep ==
  ASSUME Inv, InStep, NEW c \in Conns, Read(c)
  PROVE  InStep'
<1> DEFINE x == conn[c]
<1>1. PICK n \in 1..Len(x.up) :
        LET w == [conn[c] EXCEPT !.up = SubSeq(@, n + 1, Len(@))]
        IN  conn' = [conn EXCEPT ![c] = Fed(w, feed[Slice(c, n)])]
  BY DEF Read
<1>2. x.worker = "read" /\ UNCHANGED <<sock, call, puts>> /\ x \in Connections
  BY ConnFacts DEF Read, clientVars
<1> DEFINE y == Fed([x EXCEPT !.up = SubSeq(@, n + 1, Len(@))], feed[x.buf \o SubSeq(x.up, 1, n)])
<1>3. conn' = [conn EXCEPT ![c] = y]
  BY <1>1 DEF Slice
<1>4. ASSUME NEW t \in Callers, c = sock, Exchange(x, call[t], puts)
      PROVE  Exchange(y, call[t], puts)
  <2> DEFINE k == call[t]
  <2>1. x.up # <<>>
    BY <1>2 DEF Connections
  <2>2. k.pc = "reply"
    BY <1>4, <2>1 DEF Exchange, Resting, Silent
  <2>3. k \in Busy
    BY <2>2, CallFacts DEF Inv
  <2>4. Exchange(x, k, puts)
    BY <1>4
  <2> HIDE DEF k, x
  <2>5. Exchange(y, k, puts)
    BY <1>2, <2>3, <2>4, ExchangeRead DEF x
  <2> QED
    BY <2>5 DEF k
<1> HIDE DEF y
<1> QED
  BY <1>2, <1>3, <1>4, SockWorker

LEMMA DispatchInStep ==
  ASSUME Inv, InStep, NEW c \in Conns, Dispatch(c)
  PROVE  InStep'
<1> DEFINE x == conn[c]
<1>1. x.worker = "dispatch" /\ UNCHANGED <<sock, call, puts>> /\ x \in Connections
      /\ ConnOK(x, puts)
  BY ConnFacts DEF Dispatch, clientVars
<1>2. PICK o \in dispatch(Head(x.ready), store) :
        conn' = [conn EXCEPT ![c].out = @ \o o.reply, ![c].ready = Tail(@),
                             ![c].served = Append(@, Head(conn[c].ready)),
                             ![c].worker = IF Len(conn[c].ready) = 1 THEN "write" ELSE @]
  BY DEF Dispatch
<1> DEFINE a == x.out \o o.reply
           r == Tail(x.ready)
           v == Append(x.served, Head(x.ready))
           w == IF Len(x.ready) = 1 THEN "write" ELSE x.worker
           y == [x EXCEPT !.out = a, !.ready = r, !.served = v, !.worker = w]
<1>3. conn' = [conn EXCEPT ![c] = y]
  BY <1>2
<1>4. HoldsIn(store, puts)
  BY DEF Inv, StoreOK, HoldsIn
<1>5. o.reply \in Seq(Replies)
  <2> DEFINE cmd == Head(x.ready)
  <2>1. cmd \in Seq(Bulks) /\ (IsSet(cmd) => <<cmd[2], cmd[3]>> \in puts)
    <3> HIDE DEF x
    <3> QED
      BY <1>1, HeadKnown
  <2>2. o \in dispatch(cmd, store)
    OBVIOUS
  <2> HIDE DEF cmd
  <2> QED
    BY <1>4, <2>1, <2>2, DispatchOutcome
<1> HIDE DEF a, r, v, w
<1>6. /\ y.out = a /\ y.ready = r /\ y.worker = w
      /\ y.up = x.up /\ y.buf = x.buf /\ y.down = x.down
  BY <1>1 DEF Connections
<1> HIDE DEF y
<1>7. ASSUME NEW t \in Callers, Exchange(x, call[t], puts)
      PROVE  Exchange(y, call[t], puts)
  <2> DEFINE k == call[t]
  <2>1. k.pc = "reply" => k.cmd \in Commands
    BY CallFacts DEF Inv
  <2>2. Exchange(x, k, puts)
    BY <1>7
  <2> HIDE DEF k, x
  <2>3. Exchange(y, k, puts)
    BY <1>1, <1>4, <1>5, <1>6, <2>1, <2>2, ExchangeDispatch DEF a, r, w
  <2> QED
    BY <2>3 DEF k
<1> QED
  BY <1>1, <1>3, <1>7, SockWorker

LEMMA WriteInStep ==
  ASSUME Inv, InStep, NEW c \in Conns, Write(c)
  PROVE  InStep'
<1> DEFINE x == conn[c]
<1>1. PICK ok \in BOOLEAN :
        conn' = [conn EXCEPT
            ![c].down = IF ok /\ conn[c].client = "open" THEN @ \o conn[c].out ELSE @,
            ![c].out = <<>>,
            ![c].worker = IF ok /\ @ = "write" THEN "read" ELSE "leave"]
  BY DEF Write
<1> DEFINE d == IF ok /\ x.client = "open" THEN x.down \o x.out ELSE x.down
           w == IF ok /\ x.worker = "write" THEN "read" ELSE "leave"
           e == <<>>
           y == [x EXCEPT !.down = d, !.out = e, !.worker = w]
<1>2. x.worker \in {"write", "fail"} /\ UNCHANGED <<sock, call, puts>> /\ x \in Connections
  BY ConnFacts DEF Write, clientVars
<1>3. conn' = [conn EXCEPT ![c] = y]
  BY <1>1
<1> HIDE DEF d, w, e
<1>4. /\ y.down = d /\ y.out = e /\ y.worker = w
      /\ y.up = x.up /\ y.buf = x.buf /\ y.ready = x.ready
  BY <1>2 DEF Connections
<1> HIDE DEF y
<1>5. ASSUME NEW t \in Callers, c = sock, Exchange(x, call[t], puts)
      PROVE  Exchange(y, call[t], puts)
  <2> DEFINE k == call[t]
  <2>1. Exchange(x, k, puts)
    BY <1>5
  <2>2. x.client = "open"
    BY <1>5, SockFacts DEF Conns, Whole
  <2> HIDE DEF k, x
  <2>3. Exchange(y, k, puts)
    BY <1>2, <1>4, <2>1, <2>2, ExchangeWrite DEF d, w, e
  <2> QED
    BY <2>3 DEF k
<1> QED
  BY <1>2, <1>3, <1>5, SockWorker

LEMMA LeaveInStep ==
  ASSUME Inv, InStep, NEW c \in Conns, Leave(c)
  PROVE  InStep'
<1> DEFINE x == conn[c]
           y == [NoConn EXCEPT !.client = x.client, !.worker = "gone", !.down = x.down]
<1>1. /\ x.worker = "leave" /\ conn' = [conn EXCEPT ![c] = y]
      /\ UNCHANGED <<sock, call, puts>>
  BY DEF Leave, clientVars
<1> HIDE DEF x
<1>2. /\ y.worker = "gone" /\ y.up = <<>> /\ y.buf = <<>> /\ y.ready = <<>> /\ y.out = <<>>
      /\ y.down = x.down
  BY DEF NoConn
<1> HIDE DEF y
<1>3. ASSUME NEW t \in Callers, Exchange(x, call[t], puts)
      PROVE  Exchange(y, call[t], puts)
  <2> DEFINE k == call[t]
  <2>1. Exchange(x, k, puts)
    BY <1>3
  <2> HIDE DEF k
  <2>2. Exchange(y, k, puts)
    BY <1>1, <1>2, <2>1, ExchangeLeave
  <2> QED
    BY <2>2 DEF k
<1> QED
  BY <1>1, <1>3, SockWorker DEF x

LEMMA WorkerInStep ==
  ASSUME Inv, InStep, NEW c \in Conns, Worker(c)
  PROVE  InStep'
<1> DEFINE x == conn[c]
<1>1. x \in Connections
  BY ConnFacts
<1>2. CASE Register(c)
  <2> DEFINE y == [x EXCEPT !.worker = "read", !.registered = TRUE]
  <2>1. x.worker = "start" /\ conn' = [conn EXCEPT ![c] = y] /\ UNCHANGED <<sock, call, puts>>
    BY <1>2 DEF Register, clientVars
  <2>2. SameWire(x, y) /\ y.worker = "read"
    BY <1>1 DEF Connections, SameWire
  <2> HIDE DEF y
  <2> QED
    BY <2>1, <2>2, InStepMoved
<1>3. CASE ReadEnds(c)
  <2> DEFINE y == [x EXCEPT !.worker = "leave"]
  <2>1. x.worker = "read" /\ conn' = [conn EXCEPT ![c] = y] /\ UNCHANGED <<sock, call, puts>>
    BY <1>3 DEF ReadEnds, clientVars
  <2>2. SameWire(x, y) /\ y.worker = "leave"
    BY <1>1 DEF Connections, SameWire
  <2> HIDE DEF y
  <2> QED
    BY <2>1, <2>2, InStepMoved
<1>4. CASE ReadAborts(c)
  BY <1>4, SockSame DEF ReadAborts, clientVars, SameWire
<1> QED
  BY <1>2, <1>3, <1>4, ReadInStep, DispatchInStep, WriteInStep, LeaveInStep DEF Worker

-----------------------------------------------------------------------------
(* Every step is one of a response cache                                   *)

CacheSet == puts \subseteq puts' /\ got' = got

CacheGet == /\ puts' = puts
            /\ \E t \in Callers : \E k \in Bulks : \E r \in {<<>>} \cup {p \in puts : p[1] = k} :
                 got' = [got EXCEPT ![t] = r]

\* A call that returns what Return() is given, or with nothing
LEMMA ReturnsNothing ==
  ASSUME Inv, NEW t \in Callers, call[t].pc # "idle", Return(t, <<>>), puts' = puts
  PROVE  CacheSet \/ CacheGet
<1>1. call[t].cmd[2] \in Bulks
  BY CallFacts, WireFacts DEF Inv
<1>2. got' = got \/ got' = [got EXCEPT ![t] = <<>>]
  BY DEF Return
<1> QED
  BY <1>1, <1>2 DEF CacheSet, CacheGet

LEMMA ReturnsReply ==
  ASSUME Inv, NEW t \in Callers, call[t].pc # "idle", NEW buf, Return(t, Reply(buf)), puts' = puts,
         Answers(call[t].cmd, buf, puts)
  PROVE  CacheSet \/ CacheGet
<1> DEFINE cmd == call[t].cmd
           rep == Reply(buf)
<1>1. cmd[2] \in Bulks /\ cmd[1] \in {"GET", "SET"}
  BY CallFacts, WireFacts DEF Inv
<1>2. got' = IF cmd[1] # "GET" THEN got
             ELSE [got EXCEPT ![t] = IF rep = <<>> THEN <<>> ELSE <<cmd[2], rep[1]>>]
  BY DEF Return
<1>3. Answers(cmd, buf, puts)
  OBVIOUS
<1> HIDE DEF cmd
<1>4. CASE cmd[1] # "GET"
  BY <1>2, <1>4 DEF CacheSet
<1>5. CASE cmd[1] = "GET"
  <2>1. rep = <<>> \/ \E v \in Bulks : rep = << v >> /\ <<cmd[2], v>> \in puts
    BY <1>3, <1>5, ReplyMeans
  <2> HIDE DEF rep
  <2>2. CASE rep = <<>>
    <3>1. got' = [got EXCEPT ![t] = <<>>]
      BY <1>2, <1>5, <2>2
    <3> QED
      BY <1>1, <3>1 DEF CacheGet
  <2>3. ASSUME NEW v \in Bulks, rep = << v >>, <<cmd[2], v>> \in puts
        PROVE  CacheGet
    <3> DEFINE p == <<cmd[2], v>>
    <3>1. rep # <<>> /\ rep[1] = v
      BY <2>3
    <3>2. got' = [got EXCEPT ![t] = p]
      BY <1>2, <1>5, <3>1
    <3>3. p \in puts /\ p[1] = cmd[2]
      BY <2>3
    <3> HIDE DEF p
    <3> QED
      BY <1>1, <3>2, <3>3 DEF CacheGet
  <2> QED
    BY <2>1, <2>2, <2>3
<1> QED
  BY <1>4, <1>5

\* The one thread that calls is in step if its own exchange is.
LEMMA CallerInStep ==
  ASSUME OneCaller, NEW t \in Callers, sock' # 0 => Exchange(conn'[sock'], call'[t], puts')
  PROVE  InStep'
BY DEF InStep, OneCaller

LEMMA BeginInStep ==
  ASSUME Inv, InStep, OneCaller, NEW t \in Callers, NEW cmd, BeginCall(t, cmd), puts \subseteq puts'
  PROVE  InStep' /\ CacheSet
<1>1. call[t].pc = "idle" /\ UNCHANGED <<sock, conn, got>>
      /\ call' = [call EXCEPT ![t] = [pc |-> "connect", cmd |-> cmd, buf |-> <<>>]]
  BY DEF BeginCall
<1>2. call'[t].pc = "connect"
  BY <1>1 DEF Inv, CallsOK
<1>3. sock # 0 => Resting(conn[sock])
  BY <1>1 DEF InStep, Exchange
<1>4. InStep'
  BY <1>1, <1>2, <1>3, CallerInStep DEF Exchange
<1> QED
  BY <1>1, <1>4 DEF CacheSet

LEMMA ConnectInStep ==
  ASSUME Inv, InStep, OneCaller, NEW t \in Callers, connect(t)
  PROVE  InStep' /\ CacheSet
<1>1. /\ call[t].pc = "connect" /\ call' = [call EXCEPT ![t].pc = "send"]
      /\ UNCHANGED <<puts, got>>
  BY DEF connect
<1>2. call'[t].pc = "send"
  <2>1. call[t] \in Busy
    BY <1>1, CallFacts DEF Inv
  <2> QED
    BY <1>1, <2>1 DEF Inv, CallsOK, Busy
<1>3. CASE sock # 0 /\ UNCHANGED <<sock, conn>>
  <2>1. Resting(conn[sock])
    BY <1>1, <1>3 DEF InStep, Exchange
  <2>2. InStep'
    BY <1>2, <1>3, <2>1, CallerInStep DEF Exchange
  <2> QED
    BY <1>1, <2>2 DEF CacheSet
<1>4. ASSUME NEW c \in Conns, Fresh(c), sock' = c, conn' = [conn EXCEPT ![c].client = "open"]
      PROVE  InStep'
  <2> DEFINE y == [NoConn EXCEPT !.client = "open"]
  <2>1. conn[c] = NoConn
    BY <1>4, ConnFacts DEF Fresh, ConnShape
  <2>2. conn'[c] = y
    BY <1>4, <2>1 DEF Inv, ConnsOK
  <2>3. Resting(y)
    BY DEF NoConn, Resting, Silent
  <2> HIDE DEF y
  <2> QED
    BY <1>2, <1>4, <2>2, <2>3, CallerInStep DEF Exchange
<1> QED
  BY <1>1, <1>3, <1>4 DEF connect, CacheSet

LEMMA WriteAllInStep ==
  ASSUME Inv, InStep, OneCaller, NEW t \in Callers, write_all(t)
  PROVE  InStep' /\ CacheSet
<1> DEFINE x == conn[sock]
           k == call[t]
           l == [k EXCEPT !.pc = "reply"]
           y == Pushed(sock, Wire(k.cmd))
<1>1. /\ k.pc = "send" /\ sock # 0 /\ call' = [call EXCEPT ![t] = l]
      /\ conn' = [conn EXCEPT ![sock] = y] /\ UNCHANGED <<sock, puts, got>>
  BY DEF write_all
<1>2. k \in Busy /\ k.buf = <<>> /\ k.cmd \in Commands
  BY <1>1, CallFacts DEF Inv, CallOK
<1>3. sock \in Conns /\ x \in Connections /\ Exchange(x, k, puts)
  BY <1>1, SockFacts, ConnFacts DEF InStep
<1>4. y = IF x.worker = "gone" THEN x ELSE Push(x, Wire(k.cmd))
  BY DEF Pushed, Push
<1>5. conn'[sock] = y /\ call'[t] = l
  BY <1>1, <1>3 DEF Inv, ConnsOK, CallsOK
<1>6. l.pc = "reply" /\ l.cmd = k.cmd /\ l.buf = <<>>
  BY <1>2 DEF Busy
<1> HIDE DEF x, k, l, y
<1>7. Exchange(y, l, puts)
  BY <1>1, <1>2, <1>3, <1>4, <1>6, ExchangeSend
<1>8. InStep'
  BY <1>1, <1>5, <1>7, CallerInStep
<1> QED
  BY <1>1, <1>8 DEF CacheSet

LEMMA ReadReplyInStep ==
  ASSUME Inv, InStep, OneCaller, NEW t \in Callers, read_reply(t)
  PROVE  InStep' /\ (CacheSet \/ CacheGet)
<1> DEFINE x == conn[sock]
           k == call[t]
<1>1. k.pc = "reply" /\ sock # 0 /\ UNCHANGED <<sock, puts>>
  BY DEF read_reply
<1>2. k \in Busy /\ k.cmd \in Commands /\ sock \in Conns /\ x \in Connections
      /\ Exchange(x, k, puts)
  BY <1>1, CallFacts, SockFacts, ConnFacts DEF Inv, InStep
<1>3. PICK n \in 1..Len(x.down) :
        LET buf == call[t].buf \o SubSeq(x.down, 1, n) IN
        /\ conn' = [conn EXCEPT ![sock].down = SubSeq(@, n + 1, Len(@))]
        /\ IF Complete(buf) THEN Return(t, Reply(buf))
           ELSE call' = [call EXCEPT ![t].buf = buf] /\ UNCHANGED got
  BY DEF read_reply
<1> DEFINE buf == k.buf \o SubSeq(x.down, 1, n)
           d == SubSeq(x.down, n + 1, Len(x.down))
           y == [x EXCEPT !.down = d]
           l == [k EXCEPT !.buf = buf]
<1>4. conn'[sock] = y
  BY <1>2, <1>3 DEF Inv, ConnsOK
<1>5. IF Complete(buf) THEN Return(t, Reply(buf))
      ELSE call' = [call EXCEPT ![t] = l] /\ got' = got
  BY <1>3
<1> HIDE DEF d
<1>6. /\ y.up = x.up /\ y.buf = x.buf /\ y.ready = x.ready /\ y.out = x.out
      /\ y.worker = x.worker /\ y.down = d
  BY <1>2 DEF Connections
<1>9. buf = k.buf \o SubSeq(x.down, 1, n)
  OBVIOUS
<1>10. l.pc = "reply" /\ l.cmd = k.cmd /\ l.buf = buf
  <2> HIDE DEF buf
  <2> QED
    BY <1>1, <1>2 DEF Busy
<1> HIDE DEF y, buf, l
<1>7. /\ Complete(buf) => Resting(y) /\ Answers(k.cmd, buf, puts)
      /\ ~Complete(buf) => Exchange(y, l, puts)
  <2> HIDE DEF x, k
  <2> QED
    BY <1>1, <1>2, <1>6, <1>9, <1>10, ExchangeReceive DEF d
<1>8. CASE Complete(buf)
  <2>1. Return(t, Reply(buf)) /\ Resting(y) /\ Answers(k.cmd, buf, puts)
    BY <1>5, <1>7, <1>8
  <2>2. CacheSet \/ CacheGet
    BY <1>1, <2>1, ReturnsReply
  <2>3. call'[t].pc # "reply"
    BY <2>1 DEF Return, Idle, Inv, CallsOK
  <2>4. InStep'
    BY <1>1, <1>4, <2>1, <2>3, CallerInStep DEF Exchange
  <2> QED
    BY <2>2, <2>4
<1>11. CASE ~Complete(buf)
  <2>1. call'[t] = l /\ got' = got
    BY <1>5, <1>11 DEF Inv, CallsOK
  <2>2. InStep'
    BY <1>1, <1>4, <1>7, <1>11, <2>1, CallerInStep
  <2> QED
    BY <1>1, <2>1, <2>2 DEF CacheSet
<1> QED
  BY <1>8, <1>11

LEMMA ClientInStep ==
  ASSUME Inv, InStep, OneCaller, NEW t \in Callers, Client(t)
  PROVE  InStep' /\ (CacheSet \/ CacheGet)
<1>1. ASSUME NEW k \in Keys, get(t, k) PROVE InStep' /\ CacheSet
  <2> DEFINE cmd == <<"GET", k>>
  <2>1. BeginCall(t, cmd) /\ puts \subseteq puts'
    BY <1>1 DEF get
  <2> HIDE DEF cmd
  <2> QED
    BY <2>1, BeginInStep
<1>2. ASSUME NEW k \in Keys, NEW v \in Values, set(t, k, v) PROVE InStep' /\ CacheSet
  <2> DEFINE cmd == <<"SET", k, v>>
  <2>1. BeginCall(t, cmd) /\ puts \subseteq puts'
    BY <1>2 DEF set
  <2> HIDE DEF cmd
  <2> QED
    BY <2>1, BeginInStep
<1>3. CASE connectFails(t)
  <2>1. sock' = 0 /\ call[t].pc # "idle" /\ Return(t, <<>>) /\ puts' = puts
    BY <1>3 DEF connectFails
  <2> QED
    BY <2>1, ReturnsNothing, CallerInStep
<1>4. CASE write_allFails(t)
  <2>1. sock' = 0 /\ call[t].pc # "idle" /\ Return(t, <<>>) /\ puts' = puts
    BY <1>4 DEF write_allFails
  <2> QED
    BY <2>1, ReturnsNothing, CallerInStep
<1>5. CASE read_replyFails(t)
  <2>1. sock' = 0 /\ call[t].pc # "idle" /\ Return(t, <<>>) /\ puts' = puts
    BY <1>5 DEF read_replyFails, Drop
  <2> QED
    BY <2>1, ReturnsNothing, CallerInStep
<1>6. connect(t) \/ write_all(t) \/ read_reply(t) => InStep' /\ (CacheSet \/ CacheGet)
  BY ConnectInStep, WriteAllInStep, ReadReplyInStep
<1> QED
  BY <1>1, <1>2, <1>3, <1>4, <1>5, <1>6 DEF Client

LEMMA InitInStep == Init => InStep
BY DEF Init, InStep

LEMMA NextInStep ==
  ASSUME OneCaller, Inv, InStep, [Next]_vars
  PROVE  InStep' /\ (CacheSet \/ CacheGet)
<1>1. CASE UNCHANGED vars
  <2>1. UNCHANGED <<sock, call, puts, got, conn>>
    BY <1>1 DEF vars, clientVars
  <2> QED
    BY <2>1, SockSame DEF SameWire, CacheSet
<1>2. ASSUME NEW t \in Callers, Client(t) PROVE InStep' /\ (CacheSet \/ CacheGet)
  BY <1>2, ClientInStep
<1>3. CASE Other
  <2>1. got' = got /\ puts \subseteq puts'
    BY <1>3 DEF Other, OtherSends, OtherCloses, clientVars
  <2> QED
    BY <1>3, <2>1, OthersInStep DEF CacheSet
<1>4. CASE AcceptThread \/ StopFlag \/ Stopping
  <2>1. got' = got /\ puts' = puts
    BY <1>4 DEF AcceptThread, AcceptHead, Accept, StopFlag, Stopping, StopJoin, StopShutdown,
                StopWait, clientVars
  <2> QED
    BY <1>4, <2>1, AcceptInStep, DaemonInStep DEF AcceptThread, CacheSet
<1>5. ASSUME NEW c \in Conns, Worker(c) PROVE InStep' /\ (CacheSet \/ CacheGet)
  <2>1. got' = got /\ puts' = puts
    BY <1>5 DEF Worker, Register, Read, ReadAborts, ReadEnds, Dispatch, Write, Leave, clientVars
  <2> QED
    BY <1>5, <2>1, WorkerInStep DEF CacheSet
<1> QED
  BY <1>1, <1>2, <1>3, <1>4, <1>5 DEF Next

\* With one calling thread, client and daemon implement a response cache: a
\* get() returns nothing or what was once set under its own key, whatever the
\* other clients send and wherever a connection breaks (src/arca/client.cpp,
\* server.cpp).  With two threads that share the socket it does not hold.
THEOREM CacheCorrect == OneCaller => (Spec => CacheSpec)
<1>1. Init => ArcaCache!CacheInit
  BY DEF Init, ArcaCache!CacheInit
<1>2. ASSUME OneCaller, Inv, InStep, Inv', [Next]_vars
      PROVE  InStep' /\ [ArcaCache!CacheNext]_(ArcaCache!cacheVars)
  <2>1. InStep' /\ (CacheSet \/ CacheGet)
    BY <1>2, NextInStep
  <2>2. puts' \subseteq Bulks \X Bulks
    BY <1>2 DEF Inv, CallsOK
  <2>3. CacheSet => ArcaCache!set
    BY <2>2 DEF CacheSet, ArcaCache!set
  <2>4. CacheGet => \E t \in Callers, k \in Bulks : ArcaCache!get(t, k)
    BY DEF CacheGet, ArcaCache!get
  <2> QED
    BY <2>1, <2>3, <2>4 DEF ArcaCache!CacheNext
<1>3. OneCaller /\ Inv /\ InStep /\ Inv' /\ [Next]_vars
        => InStep' /\ [ArcaCache!CacheNext]_(ArcaCache!cacheVars)
  BY <1>2
<1>4. OneCaller => []OneCaller
  <2>1. OneCaller => OneCaller'
    BY DEF OneCaller
  <2> QED
    BY <2>1, PTL
<1> QED
  BY <1>1, <1>3, <1>4, InitInStep, SpecInv, PTL
    DEF Spec, CacheSpec, ArcaCache!CacheSpec
=============================================================================
