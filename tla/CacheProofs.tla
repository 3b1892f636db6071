----------------------------- MODULE CacheProofs -----------------------------
(* Safety of DiskCacheStore for any keys, values, sizes, colliding file    *)
(* names, byte budget and number of crashes, and of the staging area of    *)
(* CachePrefetch for any snapshots, sizes, budget and threads; and of the  *)
(* corpus index for any streams, hash, n-gram length and budgets, wherever *)
(* the process dies or a write is cut short.                               *)
EXTENDS DiskCacheStore, CachePrefetch, CorpusIndex, DataLemmas

\* A file is stored under the name of the key it carries.
FilesTrue ==
  \A f \in DOMAIN disk : /\ FileOf[disk[f].key] = f
                         /\ disk[f].len <= SizeOf[disk[f].val]

DiskFinite == IsFiniteSet(DOMAIN disk)

\* While the process runs, a file whose key is indexed is counted with no less
\* than it holds, and holds the newest value put under the key.
FilesIndexed ==
  running => \A f \in DOMAIN disk :
    disk[f].key \in DOMAIN entries => /\ sizesOnDisk[f] <= entries[disk[f].key]
                                      /\ revived \/ latest[disk[f].key] = <<disk[f].val>>

\* What put() has established before it writes.
PutShape ==
  putting # <<>> => /\ running
                    /\ putting[1] \notin DOMAIN entries
                    /\ latest[putting[1]] = <<putting[2]>>
                    /\ max_bytes # 0 => entry_size(putting[2]) <= max_bytes

\* A crash forgets the index.  Unless a file is left that should have been
\* deleted, the files are within the budget and hold the newest values.
LeftByCrash ==
  ~running => /\ DOMAIN entries = {}
              /\ ~revived => /\ \A f \in DOMAIN disk : latest[disk[f].key] = <<disk[f].val>>
                             /\ max_bytes # 0 => Total(sizesOnDisk) <= max_bytes

IndexFinite == IsFiniteSet(Cells(entries))

Inv == /\ TypeOK /\ FilesTrue /\ DiskFinite /\ FilesIndexed /\ PutShape /\ LeftByCrash
       /\ IndexFinite /\ IndexConsistent /\ GetsAreExact

-----------------------------------------------------------------------------
(* Orders *)

LEMMA ForgetKeepsOrder ==
  ASSUME NEW S, NEW order, InOrder(order, S), NEW G
  PROVE  InOrder(Forget(order, G), S \ G)
<1> DEFINE q == Forget(order, G)
<1>1. order \subseteq S \X S
  BY DEF InOrder
<1>2. \A x, y \in S \ G : <<x, y>> \in q <=> <<x, y>> \in order
  BY DEF Forget
<1>3. q \subseteq (S \ G) \X (S \ G)
  <2>1. \A p \in q : p \in S \X S /\ p[1] \notin G /\ p[2] \notin G
    BY <1>1 DEF Forget
  <2>2. \A p \in q : p \in (S \ G) \X (S \ G)
    BY <2>1
  <2> QED
    BY <2>2
<1> HIDE DEF q
<1>4. \A x, y \in S \ G : x # y => (<<x, y>> \in q <=> <<y, x>> \notin q)
  BY <1>2 DEF InOrder
<1>5. \A x \in S \ G : <<x, x>> \notin q
  BY <1>2 DEF InOrder
<1>6. \A x, y, z \in S \ G : <<x, y>> \in q /\ <<y, z>> \in q => <<x, z>> \in q
  BY <1>2 DEF InOrder
<1> QED
  BY <1>3, <1>4, <1>5, <1>6 DEF InOrder, q

LEMMA LatestKeepsOrder ==
  ASSUME NEW S, NEW order, InOrder(order, S), NEW e
  PROVE  InOrder(Latest(order, S, e), S \cup {e})
<1> DEFINE o == Forget(order, {e})
           q == Latest(order, S, e)
           R == S \ {e}
<1>1. InOrder(o, R)
  BY ForgetKeepsOrder
<1>2. q = o \cup {<<y, e>> : y \in R}
  BY DEF Latest
<1>3. e \notin R /\ S \cup {e} = R \cup {e}
  OBVIOUS
<1> HIDE DEF o, q, R
<1>4. o \subseteq R \X R
  BY <1>1 DEF InOrder
<1>5. /\ \A x, y \in R : <<x, y>> \in q <=> <<x, y>> \in o
      /\ \A x \in R : <<x, e>> \in q /\ <<e, x>> \notin q
      /\ <<e, e>> \notin q
  BY <1>2, <1>3, <1>4
<1>6. q \subseteq (R \cup {e}) \X (R \cup {e})
  <2>1. \A p \in q : p \in R \X R \/ \E y \in R : p = <<y, e>>
    BY <1>2, <1>4
  <2>2. \A p \in q : p \in (R \cup {e}) \X (R \cup {e})
    BY <2>1
  <2> QED
    BY <2>2
<1>7. \A x, y \in R \cup {e} : x # y => (<<x, y>> \in q <=> <<y, x>> \notin q)
  BY <1>1, <1>3, <1>5 DEF InOrder
<1>8. \A x \in R \cup {e} : <<x, x>> \notin q
  BY <1>1, <1>5 DEF InOrder
<1>9. \A x, y, z \in R \cup {e} : <<x, y>> \in q /\ <<y, z>> \in q => <<x, z>> \in q
  BY <1>1, <1>5 DEF InOrder
<1>10. InOrder(q, R \cup {e})
  BY <1>6, <1>7, <1>8, <1>9 DEF InOrder
<1> QED
  BY <1>3, <1>10 DEF q

\* Renaming the members, no two alike, keeps their order.
LEMMA ImageKeepsOrder ==
  ASSUME NEW S, NEW order, InOrder(order, S), NEW T, NEW g \in [S -> T],
         \A x, y \in S : g[x] = g[y] => x = y,
         \A z \in T : \E x \in S : z = g[x]
  PROVE  InOrder({<<g[p[1]], g[p[2]]>> : p \in order}, T)
<1> DEFINE q == {<<g[p[1]], g[p[2]]>> : p \in order}
<1>1. order \subseteq S \X S
  BY DEF InOrder
<1>2. \A p \in order : p[1] \in S /\ p[2] \in S /\ p = <<p[1], p[2]>>
  BY <1>1
<1>3. \A x, y \in S : <<g[x], g[y]>> \in q <=> <<x, y>> \in order
  <2>1. SUFFICES ASSUME NEW x \in S, NEW y \in S
                 PROVE  <<g[x], g[y]>> \in q <=> <<x, y>> \in order
    OBVIOUS
  <2>2. ASSUME <<x, y>> \in order PROVE <<g[x], g[y]>> \in q
    BY <2>2
  <2>3. ASSUME <<g[x], g[y]>> \in q PROVE <<x, y>> \in order
    <3>1. PICK p \in order : <<g[x], g[y]>> = <<g[p[1]], g[p[2]]>>
      BY <2>3
    <3>2. x = p[1] /\ y = p[2]
      BY <1>2, <3>1
    <3> QED
      BY <1>2, <3>2
  <2> QED
    BY <2>2, <2>3
<1>4. q \subseteq T \X T
  BY <1>2
<1> HIDE DEF q
<1>5. \A x, y \in T : x # y => (<<x, y>> \in q <=> <<y, x>> \notin q)
  <2>1. SUFFICES ASSUME NEW x \in T, NEW y \in T
                 PROVE  x # y => (<<x, y>> \in q <=> <<y, x>> \notin q)
    OBVIOUS
  <2>2. PICK a \in S, b \in S : x = g[a] /\ y = g[b]
    OBVIOUS
  <2>3. a # b => (<<a, b>> \in order <=> <<b, a>> \notin order)
    BY DEF InOrder
  <2> QED
    BY <1>3, <2>2, <2>3
<1>6. \A x \in T : <<x, x>> \notin q
  BY <1>3 DEF InOrder
<1>7. \A x, y, z \in T : <<x, y>> \in q /\ <<y, z>> \in q => <<x, z>> \in q
  <2>1. SUFFICES ASSUME NEW x \in T, NEW y \in T, NEW z \in T, <<x, y>> \in q, <<y, z>> \in q
                 PROVE  <<x, z>> \in q
    OBVIOUS
  <2>2. PICK a \in S, b \in S, c \in S : x = g[a] /\ y = g[b] /\ z = g[c]
    OBVIOUS
  <2>3. <<a, b>> \in order /\ <<b, c>> \in order
    BY <1>3, <2>1, <2>2
  <2>4. <<a, c>> \in order
    BY <2>3 DEF InOrder
  <2> QED
    BY <1>3, <2>2, <2>4
<1> QED
  BY <1>4, <1>5, <1>6, <1>7 DEF InOrder, q

LEMMA NothingInOrder == InOrder({}, {})
  BY DEF InOrder
-----------------------------------------------------------------------------
(* The steps *)

LEMMA SizeFacts ==
  /\ Overhead \in Nat /\ max_bytes \in Nat /\ MaxCrashes \in Nat
  /\ \A v \in Values : SizeOf[v] \in Nat /\ entry_size(v) \in Nat
  BY StoreAssumption DEF entry_size

LEMMA InitInv == Init => Inv
<1> SUFFICES ASSUME Init PROVE Inv
  OBVIOUS
<1> USE DEF Init
<1>1. DOMAIN disk = {} /\ DOMAIN entries = {}
  OBVIOUS
<1>2. TypeOK
  <2>1. running \in BOOLEAN /\ checked \in BOOLEAN /\ revived \in BOOLEAN
    BY Zenon
  <2> QED
    BY <1>1, <2>1, NothingInOrder, SizeFacts DEF TypeOK
<1>3. FilesTrue /\ FilesIndexed /\ PutShape /\ LeftByCrash /\ GetsAreExact
  BY <1>1 DEF FilesTrue, FilesIndexed, PutShape, LeftByCrash, GetsAreExact
<1>4. IsFiniteSet(Cells(entries)) /\ Total(entries) = 0
  BY <1>1, TotalOfNothing
<1>5. IndexFinite /\ IndexConsistent
  BY <1>1, <1>4, NothingInOrder, SizeFacts DEF IndexFinite, IndexConsistent
<1>6. DiskFinite
  BY <1>1, FS_EmptySet DEF DiskFinite
<1> QED
  BY <1>2, <1>3, <1>5, <1>6 DEF Inv

\* Some files go and the others stay as they are.
LEMMA DeletedFacts ==
  ASSUME Inv, NEW gone, Deleted(gone)
  PROVE  /\ DOMAIN disk' \subseteq DOMAIN disk
         /\ \A f \in DOMAIN disk' : disk'[f] = disk[f]
         /\ InOrder(mtimes', DOMAIN disk')
         /\ DiskFinite'
<1>1. DOMAIN disk' = DOMAIN disk \ gone /\ \A f \in DOMAIN disk' : disk'[f] = disk[f]
  BY DEF Deleted
<1>2. InOrder(mtimes, DOMAIN disk) /\ IsFiniteSet(DOMAIN disk)
  BY DEF Inv, TypeOK, DiskFinite
<1>3. InOrder(Forget(mtimes, gone), DOMAIN disk \ gone)
  BY <1>2, ForgetKeepsOrder
<1>4. InOrder(mtimes', DOMAIN disk')
  BY <1>1, <1>3 DEF Deleted
<1>5. DiskFinite'
  BY <1>1, <1>2, FS_Subset DEF DiskFinite
<1> QED
  BY <1>1, <1>4, <1>5

\* remove() takes the key's entry, its bytes off the count and, unless the
\* deletion fails, its file.
LEMMA RemoveFacts ==
  ASSUME Inv, running, NEW k \in Keys, RemoveEntry(k)
  PROVE  /\ DOMAIN disk' \subseteq DOMAIN disk
         /\ \A f \in DOMAIN disk' : disk'[f] = disk[f]
         /\ InOrder(mtimes', DOMAIN disk')
         /\ DiskFinite'
         /\ DOMAIN entries' = DOMAIN entries \ {k}
         /\ \A j \in DOMAIN entries' : entries'[j] = entries[j]
         /\ InOrder(recency', DOMAIN entries')
         /\ IsFiniteSet(Cells(entries'))
         /\ total_bytes' = Total(entries') /\ total_bytes' \in Nat
         /\ total_bytes' <= total_bytes
<1>1. /\ InOrder(mtimes, DOMAIN disk) /\ InOrder(recency, DOMAIN entries)
      /\ IsFiniteSet(Cells(entries)) /\ DiskFinite
  BY DEF Inv, TypeOK, IndexConsistent, IndexFinite
<1>2. total_bytes = Total(entries) /\ total_bytes \in Nat
  BY DEF Inv, TypeOK, IndexConsistent
<1>3. CASE k \notin DOMAIN entries
  <2>1. UNCHANGED <<disk, mtimes, entries, recency, total_bytes>>
    BY <1>3 DEF RemoveEntry, indexVars
  <2> QED
    BY <1>1, <1>2, <1>3, <2>1 DEF DiskFinite
<1>4. CASE k \in DOMAIN entries
  <2>1. PICK gone \in SUBSET {FileOf[k]} : Deleted(gone)
    BY <1>4 DEF RemoveEntry
  <2>2. /\ total_bytes' = total_bytes - entries[k]
        /\ entries' = Without(entries, k) /\ recency' = Forget(recency, {k})
    BY <1>4 DEF RemoveEntry
  <2>3. /\ DOMAIN disk' \subseteq DOMAIN disk
        /\ \A f \in DOMAIN disk' : disk'[f] = disk[f]
        /\ InOrder(mtimes', DOMAIN disk') /\ DiskFinite'
    BY <2>1, DeletedFacts
  <2>4. /\ DOMAIN entries' = DOMAIN entries \ {k}
        /\ \A j \in DOMAIN entries' : entries'[j] = entries[j]
    BY <2>2 DEF Without
  <2>5. InOrder(recency', DOMAIN entries')
    BY <1>1, <2>2, <2>4, ForgetKeepsOrder
  <2>6. entries[k] \in Nat
    BY <1>4 DEF Inv, TypeOK
  <2>7. /\ IsFiniteSet(Cells(entries')) /\ Total(entries') = Total(entries) - entries[k]
        /\ Total(entries') <= Total(entries)
    BY <1>1, <1>4, <2>4, <2>6, TotalWithout
  <2>8. Total(entries') \in Nat
    BY <2>7, TotalIsNatural
  <2> QED
    BY <1>2, <2>2, <2>3, <2>4, <2>5, <2>7, <2>8
<1> QED
  BY <1>3, <1>4

\* What the disk says stays true of the files that are as they were.
LEMMA FilesKept ==
  ASSUME Inv, DOMAIN disk' \subseteq DOMAIN disk, \A f \in DOMAIN disk' : disk'[f] = disk[f]
  PROVE  /\ DOMAIN disk' \subseteq Files
         /\ \A f \in DOMAIN disk' : disk'[f] \in [key : Keys, val : Values, len : Nat]
         /\ FilesTrue'
<1>1. /\ DOMAIN disk \subseteq Files
      /\ \A f \in DOMAIN disk : disk[f] \in [key : Keys, val : Values, len : Nat]
  BY DEF Inv, TypeOK
<1>2. FilesTrue'
  BY Zenon DEF Inv, FilesTrue
<1> QED
  BY <1>1, <1>2

\* Whoever calls remove(), the store stays consistent.
LEMMA RemoveKeeps ==
  ASSUME Inv, running, NEW k \in Keys, RemoveEntry(k),
         UNCHANGED <<running, crashes, checked, revived>>,
         (putting \in {<<>>} \cup (Keys \X Values))',
         (latest \in [Keys -> {<<>>} \cup {<<v>> : v \in Values}])',
         \A j \in Keys : j # k => latest'[j] = latest[j]
  PROVE  /\ TypeOK' /\ FilesTrue' /\ DiskFinite' /\ FilesIndexed' /\ LeftByCrash'
         /\ IndexFinite' /\ IndexConsistent'
<1>1. /\ DOMAIN disk' \subseteq DOMAIN disk
      /\ \A f \in DOMAIN disk' : disk'[f] = disk[f]
      /\ InOrder(mtimes', DOMAIN disk')
      /\ DiskFinite'
      /\ DOMAIN entries' = DOMAIN entries \ {k}
      /\ \A j \in DOMAIN entries' : entries'[j] = entries[j]
      /\ InOrder(recency', DOMAIN entries')
      /\ IsFiniteSet(Cells(entries'))
      /\ total_bytes' = Total(entries') /\ total_bytes' \in Nat
      /\ total_bytes' <= total_bytes
  BY RemoveFacts
<1>2. /\ DOMAIN disk' \subseteq Files /\ FilesTrue'
      /\ \A f \in DOMAIN disk' : disk'[f] \in [key : Keys, val : Values, len : Nat]
  BY <1>1, FilesKept
<1>3. TypeOK'
  BY <1>1, <1>2 DEF Inv, TypeOK
<1>4. FilesIndexed'
  <2>1. \A f \in DOMAIN disk : disk[f].key \in DOMAIN entries =>
           /\ Overhead + disk[f].len <= entries[disk[f].key]
           /\ revived \/ latest[disk[f].key] = <<disk[f].val>>
    BY DEF Inv, FilesIndexed, sizesOnDisk
  <2>2. ASSUME NEW f \in DOMAIN disk', disk'[f].key \in DOMAIN entries'
        PROVE  /\ Overhead + disk'[f].len <= entries'[disk'[f].key]
               /\ revived' \/ latest'[disk'[f].key] = <<disk'[f].val>>
    <3>1. f \in DOMAIN disk /\ disk'[f] = disk[f] /\ disk[f].key \in DOMAIN entries
          /\ disk[f].key # k /\ disk[f].key \in Keys
      BY <1>1, <1>2, <2>2
    <3>2. latest'[disk[f].key] = latest[disk[f].key] /\ entries'[disk[f].key] = entries[disk[f].key]
      BY <1>1, <2>2, <3>1
    <3>3. revived' = revived
      OBVIOUS
    <3> QED
      BY ONLY <2>1, <3>1, <3>2, <3>3, Zenon
  <2> QED
    BY <2>2 DEF FilesIndexed, sizesOnDisk
<1>5. LeftByCrash' /\ IndexFinite'
  BY <1>1 DEF LeftByCrash, IndexFinite
<1>6. IndexConsistent'
  <2>1. total_bytes \in Nat /\ (max_bytes # 0 /\ ~revived => total_bytes <= max_bytes)
    BY DEF Inv, TypeOK, IndexConsistent
  <2>2. max_bytes # 0 /\ ~revived' => total_bytes' <= max_bytes
    BY <1>1, <2>1, SizeFacts
  <2> QED
    BY <1>1, <2>2 DEF IndexConsistent
<1> QED
  BY <1>1, <1>2, <1>3, <1>4, <1>5, <1>6

LEMMA RemoveKeyInv ==
  ASSUME Inv, NEW k \in Keys, RemoveKey(k)
  PROVE  Inv'
<1> USE DEF RemoveKey, Free
<1>1. latest \in [Keys -> {<<>>} \cup {<<v>> : v \in Values}]
  BY DEF Inv, TypeOK
<1>2. /\ (latest \in [Keys -> {<<>>} \cup {<<v>> : v \in Values}])'
      /\ \A j \in Keys : j # k => latest'[j] = latest[j]
      /\ (putting \in {<<>>} \cup (Keys \X Values))'
  BY <1>1
<1>3. TypeOK' /\ FilesTrue' /\ DiskFinite' /\ FilesIndexed' /\ LeftByCrash' /\ IndexFinite'
      /\ IndexConsistent'
  BY <1>2, RemoveKeeps
<1>4. PutShape' /\ GetsAreExact'
  BY DEF PutShape, GetsAreExact
<1> QED
  BY <1>3, <1>4 DEF Inv

LEMMA PutBeginInv ==
  ASSUME Inv, NEW k \in Keys, NEW v \in Values, PutBegin(k, v)
  PROVE  Inv'
<1> USE DEF PutBegin, Free
<1>1. latest \in [Keys -> {<<>>} \cup {<<w>> : w \in Values}]
  BY DEF Inv, TypeOK
<1>2. /\ (latest \in [Keys -> {<<>>} \cup {<<w>> : w \in Values}])'
      /\ \A j \in Keys : j # k => latest'[j] = latest[j]
      /\ latest'[k] = <<v>>
  BY <1>1
<1>3. putting' = <<k, v>> /\ (putting \in {<<>>} \cup (Keys \X Values))'
  OBVIOUS
<1>4. TypeOK' /\ FilesTrue' /\ DiskFinite' /\ FilesIndexed' /\ LeftByCrash' /\ IndexFinite'
      /\ IndexConsistent'
  BY <1>2, <1>3, RemoveKeeps
<1>5. k \notin DOMAIN entries'
  <2>1. running /\ RemoveEntry(k)
    OBVIOUS
  <2>2. DOMAIN entries' = DOMAIN entries \ {k}
    BY <2>1, RemoveFacts
  <2> QED
    BY <2>2
<1>6. PutShape' /\ GetsAreExact'
  BY <1>2, <1>3, <1>5 DEF PutShape, GetsAreExact
<1> QED
  BY <1>4, <1>6 DEF Inv

LEMMA PutEvictInv ==
  ASSUME Inv, PutEvict
  PROVE  Inv'
<1> USE DEF PutEvict
<1>1. PICK k \in DOMAIN entries : RemoveEntry(k)
  OBVIOUS
<1>2. k \in Keys
  BY DEF Inv, TypeOK
<1>3. /\ (latest \in [Keys -> {<<>>} \cup {<<w>> : w \in Values}])'
      /\ (putting \in {<<>>} \cup (Keys \X Values))'
  BY DEF Inv, TypeOK
<1>4. TypeOK' /\ FilesTrue' /\ DiskFinite' /\ FilesIndexed' /\ LeftByCrash' /\ IndexFinite'
      /\ IndexConsistent'
  BY <1>1, <1>2, <1>3, RemoveKeeps
<1>5. DOMAIN entries' = DOMAIN entries \ {k}
  BY <1>1, <1>2, RemoveFacts
<1>6. PutShape'
  BY <1>5 DEF Inv, PutShape
<1>7. GetsAreExact'
  BY DEF Inv, GetsAreExact
<1> QED
  BY <1>4, <1>6, <1>7 DEF Inv

LEMMA GetDroppedInv ==
  ASSUME Inv, NEW k \in Keys, GetDropped(k)
  PROVE  Inv'
<1> USE DEF GetDropped, Free
<1>1. /\ (latest \in [Keys -> {<<>>} \cup {<<w>> : w \in Values}])'
      /\ (putting \in {<<>>} \cup (Keys \X Values))'
  BY DEF Inv, TypeOK
<1>2. TypeOK' /\ FilesTrue' /\ DiskFinite' /\ FilesIndexed' /\ LeftByCrash' /\ IndexFinite'
      /\ IndexConsistent'
  BY <1>1, RemoveKeeps
<1>3. PutShape' /\ GetsAreExact'
  BY DEF PutShape, GetsAreExact
<1> QED
  BY <1>2, <1>3 DEF Inv

LEMMA GetHitInv ==
  ASSUME Inv, NEW k \in Keys, GetHit(k)
  PROVE  Inv'
<1> USE DEF GetHit, Free
<1>1. /\ k \in DOMAIN entries /\ FileOf[k] \in DOMAIN disk /\ disk[FileOf[k]].key = k
      /\ disk[FileOf[k]].len >= entries[k] - Overhead
      /\ checked => entries[k] = Overhead + SizeOf[disk[FileOf[k]].val]
  BY DEF Accepted, Readable, ChecksumOk, entry_size
<1>2. /\ disk[FileOf[k]].len \in Nat /\ disk[FileOf[k]].val \in Values /\ entries[k] \in Nat
      /\ checked \in BOOLEAN
  BY <1>1 DEF Inv, TypeOK
<1>3. /\ revived \/ latest[k] = <<disk[FileOf[k]].val>>
      /\ disk[FileOf[k]].len <= SizeOf[disk[FileOf[k]].val]
  BY <1>1 DEF Inv, FilesTrue, FilesIndexed
<1>4. PICK r : r = [key |-> k, val |-> disk[FileOf[k]].val, len |-> entries[k] - Overhead]
  OBVIOUS
<1>5. r.key = k /\ r.val = disk[FileOf[k]].val /\ r.len = entries[k] - Overhead
  BY <1>4
<1>6. answer' = <<r>> /\ answer'[1] = r
  BY <1>4
<1>7. revived' \/ latest'[r.key] = <<r.val>>
  BY <1>3, <1>5
<1>8. r.len <= SizeOf[r.val]
  BY <1>1, <1>2, <1>3, <1>5, SizeFacts
<1>9. checked' => r.len = SizeOf[r.val]
  BY <1>1, <1>2, <1>5, SizeFacts
<1>10. GetsAreExact'
  BY <1>6, <1>7, <1>8, <1>9 DEF GetsAreExact
<1>11. UNCHANGED <<disk, mtimes, entries, total_bytes, putting, running, crashes, checked, latest,
                   revived>>
  OBVIOUS
<1>12. TypeOK'
  BY <1>11 DEF Inv, TypeOK
<1>13. FilesTrue' /\ DiskFinite' /\ FilesIndexed' /\ PutShape' /\ LeftByCrash' /\ IndexFinite'
  BY <1>11 DEF Inv, FilesTrue, DiskFinite, FilesIndexed, PutShape, LeftByCrash, IndexFinite,
               sizesOnDisk
<1>14. IndexConsistent'
  <2>1. InOrder(recency, DOMAIN entries)
    BY DEF Inv, IndexConsistent
  <2>2. DOMAIN entries \cup {k} = DOMAIN entries
    BY <1>1
  <2>3. InOrder(recency', DOMAIN entries')
    BY <1>11, <2>1, <2>2, LatestKeepsOrder
  <2> QED
    BY <1>11, <2>3 DEF Inv, IndexConsistent
<1> QED
  BY <1>10, <1>12, <1>13, <1>14 DEF Inv

LEMMA ClearInv ==
  ASSUME Inv, Clear
  PROVE  Inv'
<1> USE DEF Clear, Free
<1>1. PICK gone : Deleted(gone)
  OBVIOUS
<1>2. /\ DOMAIN disk' \subseteq DOMAIN disk
      /\ \A f \in DOMAIN disk' : disk'[f] = disk[f]
      /\ InOrder(mtimes', DOMAIN disk') /\ DiskFinite'
  BY <1>1, DeletedFacts
<1>3. /\ DOMAIN disk' \subseteq Files /\ FilesTrue'
      /\ \A f \in DOMAIN disk' : disk'[f] \in [key : Keys, val : Values, len : Nat]
  BY <1>2, FilesKept
<1>4. DOMAIN entries' = {}
  OBVIOUS
<1>5. TypeOK'
  BY <1>2, <1>3, <1>4 DEF Inv, TypeOK
<1>6. FilesIndexed' /\ PutShape' /\ LeftByCrash' /\ GetsAreExact'
  BY <1>4 DEF FilesIndexed, PutShape, LeftByCrash, GetsAreExact
<1>7. IsFiniteSet(Cells(entries')) /\ Total(entries') = 0
  BY <1>4, TotalOfNothing
<1>8. IndexFinite' /\ IndexConsistent'
  BY <1>4, <1>7, NothingInOrder, SizeFacts DEF IndexFinite, IndexConsistent
<1> QED
  BY <1>2, <1>3, <1>5, <1>6, <1>8 DEF Inv

\* What put() and the stores it interrupts rely on before they touch the file
LEMMA WritableFacts ==
  ASSUME Inv, Writable
  PROVE  /\ running /\ putting # <<>>
         /\ putting[1] \in Keys /\ putting[2] \in Values
         /\ FileOf[putting[1]] \in Files
         /\ putting[1] \notin DOMAIN entries
         /\ latest[putting[1]] = <<putting[2]>>
         /\ max_bytes # 0 => total_bytes + entry_size(putting[2]) <= max_bytes
<1> USE DEF Writable
<1>1. putting[1] \in Keys /\ putting[2] \in Values /\ total_bytes \in Nat
  BY DEF Inv, TypeOK
<1>2. /\ putting[1] \notin DOMAIN entries /\ latest[putting[1]] = <<putting[2]>>
      /\ max_bytes # 0 => entry_size(putting[2]) <= max_bytes
  BY DEF Inv, PutShape
<1>3. ASSUME max_bytes # 0 PROVE total_bytes + entry_size(putting[2]) <= max_bytes
  <2>1. CASE Fits(putting[2])
    BY <1>3, <2>1 DEF Fits
  <2>2. CASE DOMAIN entries = {}
    <3>1. total_bytes = 0
      BY <2>2, TotalOfNothing DEF Inv, IndexConsistent
    <3> QED
      BY <1>1, <1>2, <1>3, <3>1, SizeFacts
  <2> QED
    BY <2>1, <2>2
<1>4. FileOf[putting[1]] \in Files
  BY <1>1 DEF Files
<1> QED
  BY <1>1, <1>2, <1>3, <1>4

\* The file of the key being put, rewritten with n bytes of its value
LEMMA WrittenFacts ==
  ASSUME Inv, Writable, NEW n \in 0..SizeOf[putting[2]], Written(putting[1], putting[2], n)
  PROVE  /\ DOMAIN disk' = DOMAIN disk \cup {FileOf[putting[1]]}
         /\ disk'[FileOf[putting[1]]] = [key |-> putting[1], val |-> putting[2], len |-> n]
         /\ \A f \in DOMAIN disk' : f # FileOf[putting[1]] => disk'[f] = disk[f]
         /\ n \in Nat /\ n <= SizeOf[putting[2]]
         /\ DOMAIN disk' \subseteq Files
         /\ \A f \in DOMAIN disk' : disk'[f] \in [key : Keys, val : Values, len : Nat]
         /\ InOrder(mtimes', DOMAIN disk')
         /\ FilesTrue' /\ DiskFinite'
<1>1. PICK k \in Keys, v \in Values : k = putting[1] /\ v = putting[2]
  BY WritableFacts
<1>2. PICK F : F = FileOf[k]
  OBVIOUS
<1>3. /\ disk' = With(disk, F, [key |-> k, val |-> v, len |-> n])
      /\ mtimes' = Latest(mtimes, DOMAIN disk, F)
  BY <1>1, <1>2 DEF Written
<1>4. /\ DOMAIN disk' = DOMAIN disk \cup {F}
      /\ disk'[F] = [key |-> k, val |-> v, len |-> n]
      /\ \A f \in DOMAIN disk' : f # F => disk'[f] = disk[f]
  BY <1>3 DEF With
<1>5. n \in Nat /\ n <= SizeOf[v] /\ SizeOf[v] \in Nat
  BY <1>1, SizeFacts
<1>6. F \in Files
  BY <1>1, <1>2, WritableFacts
<1>7. DOMAIN disk' \subseteq Files
  BY <1>4, <1>6 DEF Inv, TypeOK
<1>8. \A f \in DOMAIN disk' : disk'[f] \in [key : Keys, val : Values, len : Nat]
  BY <1>4, <1>5 DEF Inv, TypeOK
<1>9. InOrder(mtimes', DOMAIN disk')
  <2>1. InOrder(mtimes, DOMAIN disk)
    BY DEF Inv, TypeOK
  <2>2. InOrder(Latest(mtimes, DOMAIN disk, F), DOMAIN disk \cup {F})
    BY <2>1, LatestKeepsOrder
  <2> QED
    BY <1>3, <1>4, <2>2
<1>10. ASSUME NEW f \in DOMAIN disk'
       PROVE  /\ FileOf[disk'[f].key] = f
              /\ disk'[f].len <= SizeOf[disk'[f].val]
  <2>1. CASE f = F
    <3>1. disk'[f].key = k /\ disk'[f].val = v /\ disk'[f].len = n
      BY <1>4, <2>1
    <3> QED
      BY <1>2, <1>5, <2>1, <3>1
  <2>2. CASE f # F
    <3>1. f \in DOMAIN disk /\ disk'[f] = disk[f]
      BY <1>4, <2>2
    <3> QED
      BY <3>1, Zenon DEF Inv, FilesTrue
  <2> QED
    BY <2>1, <2>2
<1>11. DiskFinite'
  BY <1>4, FS_AddElement DEF Inv, DiskFinite
<1> QED
  BY <1>1, <1>2, <1>4, <1>5, <1>7, <1>8, <1>9, <1>10, <1>11 DEF FilesTrue

LEMMA PutWriteInv ==
  ASSUME Inv, NEW n, PutWrite(n)
  PROVE  Inv'
<1>0. Writable /\ n \in 0..SizeOf[putting[2]] /\ Written(putting[1], putting[2], n)
  BY DEF PutWrite
<1>1. PICK k \in Keys, v \in Values : k = putting[1] /\ v = putting[2]
  BY <1>0, WritableFacts
<1>2. /\ running /\ k \notin DOMAIN entries /\ latest[k] = <<v>>
      /\ max_bytes # 0 => total_bytes + entry_size(v) <= max_bytes
  BY <1>0, <1>1, WritableFacts
<1>3. /\ DOMAIN disk' = DOMAIN disk \cup {FileOf[k]}
      /\ disk'[FileOf[k]] = [key |-> k, val |-> v, len |-> n]
      /\ \A f \in DOMAIN disk' : f # FileOf[k] => disk'[f] = disk[f]
      /\ n \in Nat /\ n <= SizeOf[v]
      /\ DOMAIN disk' \subseteq Files
      /\ \A f \in DOMAIN disk' : disk'[f] \in [key : Keys, val : Values, len : Nat]
      /\ InOrder(mtimes', DOMAIN disk')
      /\ FilesTrue' /\ DiskFinite'
  BY <1>0, <1>1, WrittenFacts
<1>4. /\ total_bytes' = total_bytes + entry_size(v)
      /\ entries' = With(entries, k, entry_size(v))
      /\ recency' = Latest(recency, DOMAIN entries, k)
      /\ putting' = <<>> /\ UNCHANGED <<running, crashes, checked, latest, revived, answer>>
  BY <1>1 DEF PutWrite
<1>5. entry_size(v) \in Nat /\ entry_size(v) = Overhead + SizeOf[v]
      /\ SizeOf[v] \in Nat /\ Overhead \in Nat
  BY SizeFacts DEF entry_size
<1>6. /\ DOMAIN entries' = DOMAIN entries \cup {k} /\ entries'[k] = entry_size(v)
      /\ \A j \in DOMAIN entries : entries'[j] = entries[j]
  BY <1>2, <1>4 DEF With
<1>7. total_bytes = Total(entries) /\ total_bytes \in Nat /\ IsFiniteSet(Cells(entries))
  BY DEF Inv, IndexConsistent, IndexFinite, TypeOK
<1>8. IsFiniteSet(Cells(entries')) /\ Total(entries') = Total(entries) + entry_size(v)
  <2>1. k \notin DOMAIN entries /\ entry_size(v) \in Nat /\ IsFiniteSet(Cells(entries))
    BY <1>2, <1>5, <1>7
  <2> QED
    BY ONLY <1>6, <2>1, TotalWith
<1>9. total_bytes' = Total(entries') /\ total_bytes' \in Nat
      /\ (max_bytes # 0 => total_bytes' <= max_bytes)
  BY <1>2, <1>4, <1>5, <1>7, <1>8
<1>10. TypeOK'
  <2>1. DOMAIN entries' \subseteq Keys /\ \A j \in DOMAIN entries' : entries'[j] \in Nat
    BY <1>5, <1>6 DEF Inv, TypeOK
  <2> QED
    BY <1>3, <1>4, <1>9, <2>1 DEF Inv, TypeOK
<1>11. FilesIndexed'
  <2>1. \A f \in DOMAIN disk : disk[f].key \in DOMAIN entries =>
           /\ Overhead + disk[f].len <= entries[disk[f].key]
           /\ revived \/ latest[disk[f].key] = <<disk[f].val>>
    BY <1>2 DEF Inv, FilesIndexed, sizesOnDisk
  <2>2. \A f \in DOMAIN disk : FileOf[disk[f].key] = f
    BY DEF Inv, FilesTrue
  <2>3. ASSUME NEW f \in DOMAIN disk', disk'[f].key \in DOMAIN entries'
        PROVE  /\ Overhead + disk'[f].len <= entries'[disk'[f].key]
               /\ revived' \/ latest'[disk'[f].key] = <<disk'[f].val>>
    <3>1. CASE f = FileOf[k]
      <4>1. disk'[f].key = k /\ disk'[f].len = n /\ disk'[f].val = v
        BY <1>3, <3>1
      <4> QED
        BY <1>2, <1>3, <1>4, <1>5, <1>6, <4>1
    <3>2. CASE f # FileOf[k]
      <4>1. f \in DOMAIN disk /\ disk'[f] = disk[f] /\ disk[f].key # k
        BY <1>3, <2>2, <3>2
      <4>2. disk[f].key \in DOMAIN entries /\ entries'[disk[f].key] = entries[disk[f].key]
        BY <1>6, <2>3, <4>1
      <4> QED
        BY ONLY <1>4, <2>1, <4>1, <4>2, Zenon
    <3> QED
      BY <3>1, <3>2
  <2> QED
    BY <2>3 DEF FilesIndexed, sizesOnDisk
<1>12. PutShape' /\ LeftByCrash' /\ IndexFinite'
  BY <1>2, <1>4, <1>8 DEF PutShape, LeftByCrash, IndexFinite
<1>13. IndexConsistent'
  <2>1. InOrder(recency, DOMAIN entries)
    BY DEF Inv, IndexConsistent
  <2>2. InOrder(recency', DOMAIN entries')
    BY <1>4, <1>6, <2>1, LatestKeepsOrder
  <2> QED
    BY <1>9, <2>2 DEF IndexConsistent
<1>14. GetsAreExact'
  BY <1>4 DEF Inv, GetsAreExact
<1> QED
  BY <1>3, <1>10, <1>11, <1>12, <1>13, <1>14 DEF Inv

\* A put() that fails enters nothing: a file it leaves is not indexed.
LEMMA PutFailsInv ==
  ASSUME Inv, PutFails
  PROVE  Inv'
<1>1. Writable /\ putting' = <<>> /\ running /\ putting[1] \notin DOMAIN entries
  BY WritableFacts DEF PutFails
<1>2. UNCHANGED <<entries, recency, total_bytes, running, crashes, checked, latest, revived, answer>>
  BY DEF PutFails, indexVars
<1> DEFINE Kept == /\ DOMAIN disk' \subseteq Files
                   /\ \A f \in DOMAIN disk' : disk'[f] \in [key : Keys, val : Values, len : Nat]
                   /\ InOrder(mtimes', DOMAIN disk')
                   /\ FilesTrue' /\ DiskFinite'
           Same == \A f \in DOMAIN disk' :
                     \/ f \in DOMAIN disk /\ disk'[f] = disk[f]
                     \/ disk'[f].key \notin DOMAIN entries
<1>3. Kept /\ Same
  <2>1. CASE Deleted({FileOf[putting[1]]})
    BY <2>1, DeletedFacts, FilesKept
  <2>2. CASE UNCHANGED <<disk, mtimes>>
    <3>1. InOrder(mtimes', DOMAIN disk') /\ DiskFinite'
      BY <2>2 DEF Inv, TypeOK, DiskFinite
    <3> QED
      BY <2>2, <3>1, FilesKept
  <2>3. ASSUME NEW n \in 0..SizeOf[putting[2]], Written(putting[1], putting[2], n)
        PROVE  Kept /\ Same
    <3>1. Kept
      BY <1>1, <2>3, WrittenFacts
    <3>2. /\ DOMAIN disk' = DOMAIN disk \cup {FileOf[putting[1]]}
          /\ disk'[FileOf[putting[1]]] = [key |-> putting[1], val |-> putting[2], len |-> n]
          /\ \A f \in DOMAIN disk' : f # FileOf[putting[1]] => disk'[f] = disk[f]
      BY <1>1, <2>3, WrittenFacts
    <3>3. disk'[FileOf[putting[1]]].key \notin DOMAIN entries
      BY <1>1, <3>2
    <3> QED
      BY <3>1, <3>2, <3>3
  <2> QED
    BY <2>1, <2>2, <2>3 DEF PutFails
<1>4. TypeOK' /\ FilesTrue' /\ DiskFinite'
  BY <1>1, <1>2, <1>3 DEF Inv, TypeOK
<1>5. FilesIndexed'
  <2>1. \A f \in DOMAIN disk : disk[f].key \in DOMAIN entries =>
           /\ Overhead + disk[f].len <= entries[disk[f].key]
           /\ revived \/ latest[disk[f].key] = <<disk[f].val>>
    BY <1>1 DEF Inv, FilesIndexed, sizesOnDisk
  <2>2. \A f \in DOMAIN disk' : disk'[f].key \in DOMAIN entries' =>
           /\ Overhead + disk'[f].len <= entries'[disk'[f].key]
           /\ revived' \/ latest'[disk'[f].key] = <<disk'[f].val>>
    <3> SUFFICES ASSUME NEW f \in DOMAIN disk', disk'[f].key \in DOMAIN entries'
                 PROVE  /\ Overhead + disk'[f].len <= entries'[disk'[f].key]
                        /\ revived' \/ latest'[disk'[f].key] = <<disk'[f].val>>
      OBVIOUS
    <3>1. f \in DOMAIN disk /\ disk'[f] = disk[f] /\ disk[f].key \in DOMAIN entries
      BY <1>2, <1>3
    <3> QED
      BY ONLY <1>2, <2>1, <3>1, Zenon
  <2> QED
    BY <2>2 DEF FilesIndexed, sizesOnDisk
<1>6. PutShape' /\ LeftByCrash' /\ IndexFinite' /\ IndexConsistent' /\ GetsAreExact'
  BY <1>1, <1>2 DEF Inv, PutShape, LeftByCrash, IndexFinite, IndexConsistent, GetsAreExact
<1> QED
  BY <1>4, <1>5, <1>6 DEF Inv

\* Files that the index has room for take no more bytes than it counts.
LEMMA FilesWithin ==
  ASSUME NEW d, NEW t, IsFiniteSet(Cells(t)),
         \A f \in DOMAIN d : d[f] \in [key : Keys, val : Values, len : Nat],
         \A f \in DOMAIN d : /\ FileOf[d[f].key] = f
                             /\ d[f].key \in DOMAIN t
                             /\ t[d[f].key] \in Nat
                             /\ Overhead + d[f].len <= t[d[f].key]
  PROVE  /\ IsFiniteSet(Cells([f \in DOMAIN d |-> Overhead + d[f].len]))
         /\ Total([f \in DOMAIN d |-> Overhead + d[f].len]) <= Total(t)
<1> DEFINE s == [f \in DOMAIN d |-> Overhead + d[f].len]
           g == [f \in DOMAIN d |-> d[f].key]
<1>1. DOMAIN s = DOMAIN d /\ g \in [DOMAIN s -> DOMAIN t]
  OBVIOUS
<1>2. \A f \in DOMAIN s : s[f] = Overhead + d[f].len /\ g[f] = d[f].key
  OBVIOUS
<1>3. \A f \in DOMAIN s : s[f] \in Nat /\ t[g[f]] \in Nat /\ s[f] <= t[g[f]]
  BY <1>1, <1>2, SizeFacts
<1>4. \A e, f \in DOMAIN s : g[e] = g[f] => e = f
  <2>1. \A f \in DOMAIN s : FileOf[g[f]] = f
    BY <1>1, <1>2
  <2> QED
    BY <2>1
<1> HIDE DEF s, g
<1>5. IsFiniteSet(Cells(s)) /\ Total(s) <= Total(t)
  BY <1>1, <1>3, <1>4, TotalInto
<1> QED
  BY <1>5 DEF s

LEMMA CrashInv ==
  ASSUME Inv, Crash
  PROVE  Inv'
<1>1. /\ running /\ crashes < MaxCrashes /\ ~running' /\ crashes' = crashes + 1
      /\ entries' = <<>> /\ recency' = {} /\ total_bytes' = 0 /\ putting' = <<>>
      /\ answer' = <<>> /\ UNCHANGED <<checked, latest>> /\ running' = FALSE
  BY DEF Crash
<1>2. \A f \in DOMAIN disk : disk[f].key \in DOMAIN entries =>
         /\ Overhead + disk[f].len <= entries[disk[f].key]
         /\ revived \/ latest[disk[f].key] = <<disk[f].val>>
  BY <1>1 DEF Inv, FilesIndexed, sizesOnDisk
<1>3. \A f \in DOMAIN disk : FileOf[disk[f].key] = f
  BY DEF Inv, FilesTrue
<1>4. /\ \A k \in DOMAIN entries : entries[k] \in Nat
      /\ IsFiniteSet(Cells(entries)) /\ total_bytes = Total(entries)
      /\ max_bytes # 0 /\ ~revived => total_bytes <= max_bytes
      /\ revived \in BOOLEAN
  BY DEF Inv, TypeOK, IndexFinite, IndexConsistent
<1> DEFINE Kept == /\ DOMAIN disk' \subseteq Files
                   /\ \A f \in DOMAIN disk' : disk'[f] \in [key : Keys, val : Values, len : Nat]
                   /\ InOrder(mtimes', DOMAIN disk')
                   /\ FilesTrue' /\ DiskFinite'
           Left == [f \in DOMAIN disk' |-> Overhead + disk'[f].len]
           TrueFiles == \A f \in DOMAIN disk' : latest[disk'[f].key] = <<disk'[f].val>>
           Small == max_bytes # 0 => Total(Left) <= max_bytes
           Good == /\ Kept
                   /\ revived' \in BOOLEAN
                   /\ ~revived' => TrueFiles /\ Small
\* A file whose key is indexed is as the index says.
<1>5. ASSUME NEW S, S \subseteq DOMAIN disk, ~revived, {f \in S : disk[f].key \notin DOMAIN entries} = {}
      PROVE  \A f \in S : /\ disk[f].key \in DOMAIN entries
                          /\ entries[disk[f].key] \in Nat
                          /\ Overhead + disk[f].len <= entries[disk[f].key]
                          /\ latest[disk[f].key] = <<disk[f].val>>
  <2> SUFFICES ASSUME NEW f \in S
               PROVE  /\ disk[f].key \in DOMAIN entries
                      /\ entries[disk[f].key] \in Nat
                      /\ Overhead + disk[f].len <= entries[disk[f].key]
                      /\ latest[disk[f].key] = <<disk[f].val>>
    OBVIOUS
  <2>1. f \in DOMAIN disk /\ disk[f].key \in DOMAIN entries
    BY <1>5
  <2> QED
    BY ONLY <1>2, <1>4, <1>5, <2>1, Zenon
<1>6. ASSUME DOMAIN disk' \subseteq DOMAIN disk, \A f \in DOMAIN disk' : disk'[f] = disk[f],
             InOrder(mtimes', DOMAIN disk'), DiskFinite', revived' \in BOOLEAN,
             ~revived' => ~revived /\ \A f \in DOMAIN disk' : disk[f].key \in DOMAIN entries
      PROVE  Good
  <2>1. Kept
    BY <1>6, FilesKept
  <2>2. ASSUME ~revived' PROVE TrueFiles /\ Small
    <3>1. \A f \in DOMAIN disk' : /\ disk[f].key \in DOMAIN entries
                                  /\ entries[disk[f].key] \in Nat
                                  /\ Overhead + disk[f].len <= entries[disk[f].key]
                                  /\ latest[disk[f].key] = <<disk[f].val>>
      BY <1>5, <1>6, <2>2
    <3>2. TrueFiles
      BY <1>6, <3>1
    <3>3. \A f \in DOMAIN disk' : /\ FileOf[disk'[f].key] = f
                                  /\ disk'[f].key \in DOMAIN entries
                                  /\ entries[disk'[f].key] \in Nat
                                  /\ Overhead + disk'[f].len <= entries[disk'[f].key]
      BY <1>3, <1>6, <3>1
    <3>4. IsFiniteSet(Cells(Left)) /\ Total(Left) <= Total(entries)
      BY <1>4, <2>1, <3>3, FilesWithin
    <3> HIDE DEF Left
    <3>5. Total(Left) \in Nat /\ Total(entries) \in Nat
      BY <1>4, <3>4, TotalIsNatural
    <3>6. Small
      BY <1>4, <1>6, <2>2, <3>4, <3>5, SizeFacts
    <3> QED
      BY <3>2, <3>6
  <2> QED
    BY <1>6, <2>1, <2>2
<1>7. ASSUME UNCHANGED <<disk, mtimes>>, revived' = (revived \/ Leftover # {})
      PROVE  Good
  <2>1. InOrder(mtimes', DOMAIN disk') /\ DiskFinite'
    BY <1>7 DEF Inv, TypeOK, DiskFinite
  <2>2. revived' \in BOOLEAN
        /\ (~revived' => ~revived /\ \A f \in DOMAIN disk : disk[f].key \in DOMAIN entries)
    BY <1>4, <1>7 DEF Leftover
  <2> QED
    BY <1>6, <1>7, <2>1, <2>2
<1>8. ASSUME Deleted({FileOf[putting[1]]}),
             revived' = (revived \/ Leftover \ {FileOf[putting[1]]} # {})
      PROVE  Good
  <2>1. /\ DOMAIN disk' \subseteq DOMAIN disk
        /\ \A f \in DOMAIN disk' : disk'[f] = disk[f]
        /\ InOrder(mtimes', DOMAIN disk') /\ DiskFinite'
    BY <1>8, DeletedFacts
  <2>2. FileOf[putting[1]] \notin DOMAIN disk'
    BY <1>8 DEF Deleted
  <2>3. revived' \in BOOLEAN
        /\ (~revived' => ~revived /\ \A f \in DOMAIN disk' : disk[f].key \in DOMAIN entries)
    BY <1>4, <1>8, <2>1, <2>2 DEF Leftover
  <2> QED
    BY <1>6, <2>1, <2>3
<1>9. ASSUME Writable, NEW n \in 0..SizeOf[putting[2]], Written(putting[1], putting[2], n),
             revived' = (revived \/ Leftover \ {FileOf[putting[1]]} # {})
      PROVE  Good
  <2>1. PICK k \in Keys, v \in Values : k = putting[1] /\ v = putting[2]
    BY <1>9, WritableFacts
  <2>2. /\ k \notin DOMAIN entries /\ latest[k] = <<v>>
        /\ max_bytes # 0 => total_bytes + entry_size(v) <= max_bytes
    BY <1>9, <2>1, WritableFacts
  <2>3. /\ DOMAIN disk' = DOMAIN disk \cup {FileOf[k]}
        /\ disk'[FileOf[k]] = [key |-> k, val |-> v, len |-> n]
        /\ \A f \in DOMAIN disk' : f # FileOf[k] => disk'[f] = disk[f]
        /\ n \in Nat /\ n <= SizeOf[v]
    BY <1>9, <2>1, WrittenFacts
  <2>4. Kept
    BY <1>9, WrittenFacts
  <2>5. revived' \in BOOLEAN
    BY <1>4, <1>9
  <2>6. ASSUME ~revived' PROVE TrueFiles /\ Small
    <3>1. PICK t : t = With(entries, k, entry_size(v))
      OBVIOUS
    <3>2. entry_size(v) \in Nat /\ entry_size(v) = Overhead + SizeOf[v]
          /\ SizeOf[v] \in Nat /\ Overhead \in Nat
      BY SizeFacts DEF entry_size
    <3>3. /\ DOMAIN t = DOMAIN entries \cup {k} /\ t[k] = entry_size(v)
          /\ \A j \in DOMAIN entries : t[j] = entries[j]
      BY <2>2, <3>1 DEF With
    <3>4. IsFiniteSet(Cells(t)) /\ Total(t) = Total(entries) + entry_size(v)
      <4>1. IsFiniteSet(Cells(entries)) /\ k \notin DOMAIN entries /\ entry_size(v) \in Nat
        BY <1>4, <2>2, <3>2
      <4> QED
        BY ONLY <3>3, <4>1, TotalWith
    <3>5. ~revived /\ Leftover \ {FileOf[k]} = {}
      BY <1>4, <1>9, <2>1, <2>6
    <3>6. \A f \in DOMAIN disk \ {FileOf[k]} : /\ disk[f].key \in DOMAIN entries
                                              /\ entries[disk[f].key] \in Nat
                                              /\ Overhead + disk[f].len <= entries[disk[f].key]
                                              /\ latest[disk[f].key] = <<disk[f].val>>
      <4>1. {f \in DOMAIN disk \ {FileOf[k]} : disk[f].key \notin DOMAIN entries} = {}
        BY <3>5 DEF Leftover
      <4> QED
        BY <1>5, <3>5, <4>1
    <3>7. ASSUME NEW f \in DOMAIN disk'
          PROVE  /\ disk'[f].key \in DOMAIN t /\ t[disk'[f].key] \in Nat
                 /\ Overhead + disk'[f].len <= t[disk'[f].key]
                 /\ latest[disk'[f].key] = <<disk'[f].val>>
      <4>1. CASE f = FileOf[k]
        <5>1. disk'[f].key = k /\ disk'[f].len = n /\ disk'[f].val = v
          BY <2>3, <4>1
        <5> QED
          BY <2>2, <2>3, <3>2, <3>3, <5>1
      <4>2. CASE f # FileOf[k]
        <5>1. f \in DOMAIN disk \ {FileOf[k]} /\ disk'[f] = disk[f]
          BY <2>3, <4>2
        <5>2. disk[f].key \in DOMAIN entries /\ t[disk[f].key] = entries[disk[f].key]
          BY <3>3, <3>6, <5>1
        <5> QED
          BY <3>3, <3>6, <5>1, <5>2
      <4> QED
        BY <4>1, <4>2
    <3>8. \A f \in DOMAIN disk' : FileOf[disk'[f].key] = f
      BY <2>4 DEF FilesTrue
    <3>9. IsFiniteSet(Cells(Left)) /\ Total(Left) <= Total(t)
      BY <2>4, <3>4, <3>7, <3>8, FilesWithin
    <3> HIDE DEF Left
    <3>10. Total(Left) \in Nat /\ Total(t) \in Nat
      BY <3>4, <3>9, TotalIsNatural
    <3>11. Small
      BY <1>4, <2>2, <3>4, <3>9, <3>10, SizeFacts
    <3> QED
      BY <3>7, <3>11
  <2> QED
    BY <2>4, <2>5, <2>6
<1>10. Good
  BY <1>7, <1>8, <1>9 DEF Crash
<1>11. DOMAIN entries' = {}
  BY <1>1
<1>12. TypeOK'
  <2>1. crashes' \in 0..MaxCrashes
    BY <1>1, SizeFacts DEF Inv, TypeOK
  <2> QED
    BY <1>1, <1>10, <1>11, <2>1 DEF Inv, TypeOK
<1>13. FilesTrue' /\ DiskFinite'
  BY <1>10
<1>14. FilesIndexed' /\ PutShape' /\ GetsAreExact'
  BY <1>1 DEF FilesIndexed, PutShape, GetsAreExact
<1>15. LeftByCrash'
  BY <1>1, <1>10, <1>11 DEF LeftByCrash, sizesOnDisk
<1>16. IsFiniteSet(Cells(entries')) /\ Total(entries') = 0
  BY <1>11, TotalOfNothing
<1>17. IndexFinite' /\ IndexConsistent'
  BY <1>1, <1>11, <1>16, NothingInOrder, SizeFacts DEF IndexFinite, IndexConsistent
<1> QED
  BY <1>12, <1>13, <1>14, <1>15, <1>17 DEF Inv

LEMMA RestartInv ==
  ASSUME Inv, Restart
  PROVE  Inv'
<1> DEFINE sz == sizesOnDisk
           g == [f \in DOMAIN disk |-> disk[f].key]
           K == {disk[f].key : f \in DOMAIN disk}
<1>1. /\ ~running /\ running' = TRUE
      /\ entries' = [k \in K |-> sz[FileOf[k]]]
      /\ recency' = {<<disk[p[1]].key, disk[p[2]].key>> : p \in mtimes}
      /\ total_bytes' = Total(sz)
      /\ UNCHANGED <<disk, mtimes, putting, crashes, checked, latest, revived, answer>>
  BY DEF Restart
<1>2. /\ InOrder(mtimes, DOMAIN disk)
      /\ \A f \in DOMAIN disk : disk[f] \in [key : Keys, val : Values, len : Nat]
  BY DEF Inv, TypeOK
<1>3. \A f \in DOMAIN disk : FileOf[disk[f].key] = f
  BY DEF Inv, FilesTrue
<1>4. DOMAIN sz = DOMAIN disk /\ \A f \in DOMAIN disk : sz[f] = Overhead + disk[f].len /\ sz[f] \in Nat
  BY <1>2, SizeFacts DEF sizesOnDisk
<1>5. /\ DOMAIN g = DOMAIN disk /\ g \in [DOMAIN disk -> K]
      /\ \A f \in DOMAIN disk : g[f] = disk[f].key /\ FileOf[g[f]] = f
  BY <1>3
<1>6. /\ \A k \in K : \E f \in DOMAIN disk : k = g[f]
      /\ \A k \in K : FileOf[k] \in DOMAIN disk /\ g[FileOf[k]] = k
  BY <1>3
<1>7. K \subseteq Keys
  BY <1>2
<1> HIDE DEF sz, g, K
<1>8. DOMAIN entries' = K /\ \A k \in K : entries'[k] = sz[FileOf[k]] /\ entries'[k] \in Nat
  BY <1>1, <1>4, <1>6
<1>9. IsFiniteSet(Cells(sz)) /\ (max_bytes # 0 /\ ~revived => Total(sz) <= max_bytes)
  <2>1. max_bytes # 0 /\ ~revived => Total(sz) <= max_bytes
    BY <1>1 DEF Inv, LeftByCrash, sz
  <2>2. IsFiniteSet(DOMAIN sz) /\ \A f \in DOMAIN sz : sz[f] \in Nat
    BY <1>4 DEF Inv, DiskFinite
  <2> QED
    BY <2>1, <2>2, CellsFinite
\* Every file has one entry of its size, and every entry one file.
<1>10. IsFiniteSet(Cells(entries')) /\ Total(entries') <= Total(sz)
  <2> DEFINE h == [k \in K |-> FileOf[k]]
  <2>1. h \in [DOMAIN entries' -> DOMAIN sz]
    BY <1>4, <1>6, <1>8
  <2>2. \A k \in DOMAIN entries' : h[k] = FileOf[k]
    BY <1>8
  <2> HIDE DEF h
  <2>3. \A k \in DOMAIN entries' : entries'[k] \in Nat /\ sz[h[k]] \in Nat /\ entries'[k] <= sz[h[k]]
    BY <1>8, <2>2
  <2>4. \A j, k \in DOMAIN entries' : h[j] = h[k] => j = k
    <3>1. \A k \in DOMAIN entries' : g[h[k]] = k
      BY <1>6, <1>8, <2>2
    <3> QED
      BY <3>1
  <2> QED
    BY <1>9, <2>1, <2>3, <2>4, TotalInto
<1>11. Total(sz) <= Total(entries')
  <2>1. g \in [DOMAIN sz -> DOMAIN entries']
    BY <1>4, <1>5, <1>8
  <2>2. \A f \in DOMAIN sz : sz[f] \in Nat /\ entries'[g[f]] \in Nat /\ sz[f] <= entries'[g[f]]
    <3>1. \A f \in DOMAIN sz : g[f] \in K /\ FileOf[g[f]] = f
      BY <1>4, <1>5
    <3>2. \A f \in DOMAIN sz : entries'[g[f]] = sz[f]
      BY <1>8, <3>1
    <3> QED
      BY <1>4, <3>2
  <2>3. \A e, f \in DOMAIN sz : g[e] = g[f] => e = f
    BY <1>4, <1>5
  <2> QED
    BY <1>10, <2>1, <2>2, <2>3, TotalInto
<1>12. total_bytes' = Total(entries') /\ total_bytes' \in Nat
  <2>1. Total(sz) \in Nat /\ Total(entries') \in Nat
    BY <1>9, <1>10, TotalIsNatural
  <2> QED
    BY <1>1, <1>10, <1>11, <2>1
<1>13. InOrder(recency', DOMAIN entries')
  <2>1. \A e, f \in DOMAIN disk : g[e] = g[f] => e = f
    BY <1>5
  <2>2. InOrder({<<g[p[1]], g[p[2]]>> : p \in mtimes}, K)
    BY <1>2, <1>5, <1>6, <2>1, ImageKeepsOrder
  <2>3. \A p \in mtimes : p[1] \in DOMAIN disk /\ p[2] \in DOMAIN disk
    BY <1>2 DEF InOrder
  <2>4. recency' = {<<g[p[1]], g[p[2]]>> : p \in mtimes}
    BY <1>1, <1>5, <2>3
  <2> QED
    BY <1>8, <2>2, <2>4
<1>14. TypeOK'
  BY <1>1, <1>7, <1>8, <1>12 DEF Inv, TypeOK
<1>15. FilesTrue' /\ DiskFinite' /\ GetsAreExact'
  BY <1>1 DEF Inv, FilesTrue, DiskFinite, GetsAreExact
<1>16. FilesIndexed'
  <2>1. sizesOnDisk' = sz
    BY <1>1 DEF sizesOnDisk, sz
  <2>2. \A f \in DOMAIN disk : disk[f].key \in K /\ FileOf[disk[f].key] = f
    BY <1>5
  <2>3. \A f \in DOMAIN disk : /\ disk[f].key \in DOMAIN entries'
                               /\ sz[f] <= entries'[disk[f].key]
    BY <1>4, <1>8, <2>2
  <2>4. \A f \in DOMAIN disk : revived \/ latest[disk[f].key] = <<disk[f].val>>
    BY <1>1 DEF Inv, LeftByCrash
  <2> QED
    BY <1>1, <2>1, <2>3, <2>4 DEF FilesIndexed
<1>17. PutShape'
  BY <1>1 DEF Inv, PutShape
<1>18. LeftByCrash' /\ IndexFinite'
  BY <1>1, <1>10 DEF LeftByCrash, IndexFinite
<1>19. IndexConsistent'
  BY <1>1, <1>9, <1>12, <1>13 DEF IndexConsistent
<1> QED
  BY <1>14, <1>15, <1>16, <1>17, <1>18, <1>19 DEF Inv

LEMMA NextInv == Inv /\ [Next]_vars => Inv'
<1> SUFFICES ASSUME Inv, [Next]_vars PROVE Inv'
  OBVIOUS
<1>1. ASSUME NEW k \in Keys, RemoveKey(k) PROVE Inv'
  BY <1>1, RemoveKeyInv
<1>2. ASSUME NEW k \in Keys, GetHit(k) PROVE Inv'
  BY <1>2, GetHitInv
<1>3. ASSUME NEW k \in Keys, GetDropped(k) PROVE Inv'
  BY <1>3, GetDroppedInv
<1>4. ASSUME NEW k \in Keys, NEW v \in Values, PutBegin(k, v) PROVE Inv'
  BY <1>4, PutBeginInv
<1>5. CASE Clear
  BY <1>5, ClearInv
<1>6. CASE PutEvict
  BY <1>6, PutEvictInv
<1>7. ASSUME NEW n, PutWrite(n) PROVE Inv'
  BY <1>7, PutWriteInv
<1>8. CASE PutFails
  BY <1>8, PutFailsInv
<1>9. CASE Crash
  BY <1>9, CrashInv
<1>10. CASE Restart
  BY <1>10, RestartInv
<1>11. CASE UNCHANGED vars
  <2>1. UNCHANGED <<disk, mtimes, entries, recency, total_bytes, putting, running, crashes,
                    checked, latest, revived, answer>>
    BY <1>11 DEF vars
  <2> QED
    BY <2>1 DEF Inv, TypeOK, FilesTrue, DiskFinite, FilesIndexed, PutShape, LeftByCrash,
                IndexFinite, IndexConsistent, GetsAreExact, sizesOnDisk
<1> QED
  BY <1>1, <1>2, <1>3, <1>4, <1>5, <1>6, <1>7, <1>8, <1>9, <1>10, <1>11 DEF Next

LEMMA Invariance == Spec => []Inv
  BY InitInv, NextInv, PTL DEF Spec

\* Whatever fails and whenever the process dies, files and index keep their
\* types and the unsigned total_bytes_ never wraps around.
THEOREM TypeCorrect == Spec => []TypeOK
<1>1. Inv => TypeOK
  BY DEF Inv
<1> QED
  BY <1>1, Invariance, PTL

\* total_bytes_ is the sum of the indexed sizes, the recency order covers the
\* index, and the budget is kept: also by the constructor, over what a crash
\* left on disk, as long as it finds no file that should have been deleted.
THEOREM IndexCorrect == Spec => []IndexConsistent
<1>1. Inv => IndexConsistent
  BY DEF Inv
<1> QED
  BY <1>1, Invariance, PTL

\* get() never returns another key's bytes, an older value or, to the caller
\* with the checksum, a part of a value: for all hashes, however they collide.
\* A file that could not be deleted is older only to a later process.
THEOREM GetsCorrect == Spec => []GetsAreExact
<1>1. Inv => GetsAreExact
  BY DEF Inv
<1> QED
  BY <1>1, Invariance, PTL

-----------------------------------------------------------------------------
(* The staging area *)

\* The keys of a list and how a new one, or a cut at the front, changes them.
LEMMA KeysOf ==
  ASSUME NEW S, NEW s \in Seq(S)
  PROVE  ToSet(s) = {s[i] : i \in 1..Len(s)} /\ IsFiniteSet(ToSet(s)) /\ ToSet(s) \in SUBSET S
<1> DEFINE h == [i \in 1..Len(s) |-> s[i]]
<1>1. DOMAIN s = 1..Len(s) /\ Len(s) \in Nat
  OBVIOUS
<1>2. ToSet(s) = {s[i] : i \in 1..Len(s)}
  BY <1>1 DEF ToSet
<1>3. ToSet(s) \in SUBSET S
  BY <1>2
<1>4. h \in Surjection(1..Len(s), ToSet(s))
  BY <1>1, <1>2 DEF Surjection
<1>5. IsFiniteSet(1..Len(s))
  <2>1. \A a, b \in Int : IsFiniteSet(a..b)
    BY FS_Interval
  <2> QED
    BY <1>1, <2>1
<1> HIDE DEF h
<1>6. IsFiniteSet(ToSet(s))
  BY <1>4, <1>5, FS_Surjection
<1> QED
  BY <1>2, <1>3, <1>6

\* No key twice in a list
LEMMA DistinctList ==
  ASSUME NEW S, NEW s \in Seq(S)
  PROVE  IsInjective(s) <=> \A i, j \in 1..Len(s) : s[i] = s[j] => i = j
<1>1. DOMAIN s = 1..Len(s)
  OBVIOUS
<1> QED
  BY <1>1 DEF IsInjective

LEMMA ListGrows ==
  ASSUME NEW S, NEW s \in Seq(S), NEW k \in S
  PROVE  /\ Append(s, k) \in Seq(S) /\ Len(Append(s, k)) = Len(s) + 1
         /\ Append(s, k)[Len(s) + 1] = k
         /\ ToSet(Append(s, k)) = ToSet(s) \cup {k}
         /\ IsInjective(s) /\ k \notin ToSet(s) => IsInjective(Append(s, k))
<1> DEFINE a == Append(s, k)
<1>1. /\ a \in Seq(S) /\ Len(a) = Len(s) + 1 /\ Len(s) \in Nat
      /\ \A i \in 1..Len(s) : a[i] = s[i]
      /\ a[Len(s) + 1] = k
  BY AppendFacts
<1> HIDE DEF a
<1>2. ToSet(a) = {a[i] : i \in 1..Len(a)} /\ ToSet(s) = {s[i] : i \in 1..Len(s)}
  BY <1>1, KeysOf
<1>3. ASSUME NEW x \in ToSet(a) PROVE x \in ToSet(s) \cup {k}
  BY <1>1, <1>2
<1>4. ASSUME NEW x \in ToSet(s) PROVE x \in ToSet(a)
  BY <1>1, <1>2
<1>5. k \in ToSet(a)
  BY <1>1, <1>2
<1>6. ToSet(a) = ToSet(s) \cup {k}
  BY <1>3, <1>4, <1>5
<1>7. ASSUME IsInjective(s), k \notin ToSet(s) PROVE IsInjective(a)
  <2>1. \A i, j \in 1..Len(s) : s[i] = s[j] => i = j
    BY <1>7, DistinctList
  <2>2. \A i \in 1..Len(s) : a[i] # k
    BY <1>1, <1>2, <1>7
  <2>3. \A i, j \in 1..Len(a) : a[i] = a[j] => i = j
    <3> SUFFICES ASSUME NEW i \in 1..Len(a), NEW j \in 1..Len(a), a[i] = a[j] PROVE i = j
      OBVIOUS
    <3>1. i \in 1..Len(s) \/ i = Len(s) + 1
      BY <1>1
    <3>2. j \in 1..Len(s) \/ j = Len(s) + 1
      BY <1>1
    <3> QED
      BY <1>1, <2>1, <2>2, <3>1, <3>2
  <2> QED
    BY <1>1, <2>3, DistinctList
<1> QED
  BY <1>1, <1>6, <1>7 DEF a

LEMMA ListCut ==
  ASSUME NEW S, NEW s \in Seq(S), NEW n \in 0..Len(s)
  PROVE  /\ SubSeq(s, n + 1, Len(s)) \in Seq(S)
         /\ ToSet(s) = ToSet(SubSeq(s, 1, n)) \cup ToSet(SubSeq(s, n + 1, Len(s)))
         /\ n = Len(s) - 1 => ToSet(SubSeq(s, n + 1, Len(s))) = {s[Len(s)]}
         /\ IsInjective(s) =>
              /\ IsInjective(SubSeq(s, n + 1, Len(s)))
              /\ ToSet(SubSeq(s, 1, n)) \cap ToSet(SubSeq(s, n + 1, Len(s))) = {}
<1> DEFINE a == SubSeq(s, 1, n)
           b == SubSeq(s, n + 1, Len(s))
<1>0. Len(s) \in Nat /\ n \in Nat /\ n <= Len(s)
  OBVIOUS
<1>1. a \in Seq(S) /\ Len(a) = n /\ \A i \in 1..n : a[i] = s[i]
  BY <1>0, SubSeqFacts
<1>2. /\ b \in Seq(S) /\ Len(b) = Len(s) - n
      /\ \A i \in 1..(Len(s) - n) : b[i] = s[n + i]
  BY <1>0, MiddleFacts
<1> HIDE DEF a, b
<1>3. /\ ToSet(a) = {a[i] : i \in 1..n} /\ ToSet(b) = {b[i] : i \in 1..(Len(s) - n)}
      /\ ToSet(s) = {s[i] : i \in 1..Len(s)}
  BY <1>1, <1>2, KeysOf
<1>4. ASSUME NEW x \in ToSet(s) PROVE x \in ToSet(a) \cup ToSet(b)
  <2>1. PICK i \in 1..Len(s) : x = s[i]
    BY <1>3
  <2>2. CASE i <= n
    BY <1>0, <1>1, <1>3, <2>1, <2>2
  <2>3. CASE i > n
    <3>1. i - n \in 1..(Len(s) - n) /\ n + (i - n) = i
      BY <1>0, <2>3
    <3>2. b[i - n] = x
      BY <1>2, <2>1, <3>1
    <3> QED
      BY <1>3, <3>1, <3>2
  <2> QED
    BY <1>0, <2>2, <2>3
<1>5. ASSUME NEW x \in ToSet(a) PROVE x \in ToSet(s)
  BY <1>0, <1>1, <1>3
<1>6. ASSUME NEW x \in ToSet(b) PROVE x \in ToSet(s)
  <2>1. PICK i \in 1..(Len(s) - n) : x = b[i]
    BY <1>3
  <2>2. n + i \in 1..Len(s) /\ x = s[n + i]
    BY <1>0, <1>2, <2>1
  <2> QED
    BY <1>3, <2>2
<1>7. ASSUME n = Len(s) - 1 PROVE ToSet(b) = {s[Len(s)]}
  <2>1. 1..(Len(s) - n) = {1} /\ b[1] = s[Len(s)]
    BY <1>0, <1>2, <1>7
  <2> QED
    BY <1>3, <2>1
<1>8. ToSet(s) = ToSet(a) \cup ToSet(b)
  BY <1>4, <1>5, <1>6
<1>9. ASSUME IsInjective(s) PROVE IsInjective(b) /\ ToSet(a) \cap ToSet(b) = {}
  <2>1. \A i, j \in 1..Len(s) : s[i] = s[j] => i = j
    BY <1>9, DistinctList
  <2>2. \A i, j \in 1..Len(b) : b[i] = b[j] => i = j
    <3> SUFFICES ASSUME NEW i \in 1..Len(b), NEW j \in 1..Len(b), b[i] = b[j] PROVE i = j
      OBVIOUS
    <3>1. /\ n + i \in 1..Len(s) /\ n + j \in 1..Len(s)
          /\ b[i] = s[n + i] /\ b[j] = s[n + j]
      BY <1>0, <1>2
    <3>2. n + i = n + j
      BY <2>1, <3>1
    <3> QED
      BY <1>0, <3>2
  <2>3. ASSUME NEW x \in ToSet(a), x \in ToSet(b) PROVE FALSE
    <3>1. PICK i \in 1..n : x = s[i]
      BY <1>1, <1>3, <2>3
    <3>2. PICK j \in 1..(Len(s) - n) : x = s[n + j]
      BY <1>2, <1>3, <2>3
    <3>3. i \in 1..Len(s) /\ n + j \in 1..Len(s) /\ i # n + j
      BY <1>0
    <3> QED
      BY <2>1, <3>1, <3>2, <3>3
  <2>4. IsInjective(b)
    BY <1>2, <2>2, DistinctList
  <2> QED
    BY <2>3, <2>4
<1> QED
  BY <1>2, <1>7, <1>8, <1>9 DEF a, b

\* The bytes of finitely many snapshots, with one more, with one less and
\* without some of them.
Sizes(S) == [k \in S |-> BytesOf[k]]

LEMMA BytesFacts ==
  ASSUME NEW S \in SUBSET Snapshots, IsFiniteSet(S)
  PROVE  /\ IsFiniteSet(Cells(Sizes(S))) /\ Bytes(S) = Total(Sizes(S)) /\ Bytes(S) \in Nat
<1> DEFINE s == Sizes(S)
<1>1. DOMAIN s = S /\ \A k \in S : s[k] \in Nat
  BY PrefetchAssumption DEF Sizes
<1>2. Bytes(S) = Total(s)
  BY DEF Bytes, Sizes
<1> HIDE DEF s
<1>3. IsFiniteSet(Cells(s))
  BY <1>1, CellsFinite
<1>4. Total(s) \in Nat
  BY <1>3, TotalIsNatural
<1> QED
  BY <1>2, <1>3, <1>4 DEF s

LEMMA BytesWith ==
  ASSUME NEW S \in SUBSET Snapshots, IsFiniteSet(S), NEW k \in Snapshots, k \notin S
  PROVE  Bytes(S \cup {k}) = Bytes(S) + BytesOf[k]
<1> DEFINE T == S \cup {k}
           s == Sizes(S)
           t == Sizes(T)
<1>1. T \in SUBSET Snapshots /\ IsFiniteSet(T)
  BY FS_AddElement
<1>2. /\ DOMAIN s = S /\ DOMAIN t = S \cup {k} /\ t[k] = BytesOf[k]
      /\ \A j \in S : t[j] = s[j]
  BY DEF Sizes
<1>3. BytesOf[k] \in Nat
  BY PrefetchAssumption
<1> HIDE DEF T
<1>4. IsFiniteSet(Cells(s)) /\ Bytes(S) = Total(s) /\ Bytes(T) = Total(t)
  BY <1>1, BytesFacts
<1> HIDE DEF s, t
<1>5. Total(t) = Total(s) + BytesOf[k]
  BY <1>2, <1>3, <1>4, TotalWith
<1> QED
  BY <1>4, <1>5 DEF T

LEMMA BytesWithout ==
  ASSUME NEW S \in SUBSET Snapshots, IsFiniteSet(S), NEW R
  PROVE  /\ Bytes(S \ R) = Bytes(S) - Bytes(S \cap R)
         /\ Bytes(S \ R) \in Nat /\ Bytes(S) \in Nat /\ Bytes(S \cap R) \in Nat
         /\ Bytes(S \cap R) <= Bytes(S) /\ Bytes(S \ R) <= Bytes(S)
<1> DEFINE A == S \ R
           B == S \cap R
           a == Cells(Sizes(A))
           b == Cells(Sizes(B))
           s == Cells(Sizes(S))
<1>1. /\ A \in SUBSET Snapshots /\ B \in SUBSET Snapshots
      /\ A \in SUBSET S /\ B \in SUBSET S
  OBVIOUS
<1>2. IsFiniteSet(A) /\ IsFiniteSet(B)
  BY <1>1, FS_Subset
<1>3. ASSUME NEW T \in SUBSET S
      PROVE  \A c : c \in Cells(Sizes(T)) <=> \E x \in T : \E n \in 1..BytesOf[x] : c = <<x, n>>
  <2>1. DOMAIN Sizes(T) = T /\ \A x \in T : Sizes(T)[x] = BytesOf[x]
    BY DEF Sizes
  <2> QED
    BY <2>1, CellOf
<1>4. s = a \cup b
  <2>1. \A c : c \in s <=> \E x \in S : \E n \in 1..BytesOf[x] : c = <<x, n>>
    BY <1>3
  <2>2. \A c : c \in a <=> \E x \in A : \E n \in 1..BytesOf[x] : c = <<x, n>>
    BY <1>1, <1>3
  <2>3. \A c : c \in b <=> \E x \in B : \E n \in 1..BytesOf[x] : c = <<x, n>>
    BY <1>1, <1>3
  <2> HIDE DEF a, b, s
  <2> QED
    BY <2>1, <2>2, <2>3
<1>5. a \cap b = {}
  <2>2. \A c : c \in a <=> \E x \in A : \E n \in 1..BytesOf[x] : c = <<x, n>>
    BY <1>1, <1>3
  <2>3. \A c : c \in b <=> \E x \in B : \E n \in 1..BytesOf[x] : c = <<x, n>>
    BY <1>1, <1>3
  <2> HIDE DEF a, b, s
  <2> QED
    BY <2>2, <2>3
<1>6. /\ IsFiniteSet(a) /\ Bytes(A) = Total(Sizes(A)) /\ Bytes(A) \in Nat
      /\ IsFiniteSet(b) /\ Bytes(B) = Total(Sizes(B)) /\ Bytes(B) \in Nat
      /\ Bytes(S) = Total(Sizes(S)) /\ Bytes(S) \in Nat
  <2> HIDE DEF A, B
  <2> QED
    BY <1>1, <1>2, BytesFacts
<1>7. Bytes(A) = Cardinality(a) /\ Bytes(B) = Cardinality(b) /\ Bytes(S) = Cardinality(s)
  BY <1>6 DEF Total
<1> HIDE DEF a, b, s
<1>8. Cardinality(a \cup b) = Cardinality(a) + Cardinality(b) - Cardinality(a \cap b)
  BY <1>6, FS_Union
<1>9. Cardinality(a \cap b) = 0
  BY <1>5, FS_EmptySet
<1>10. Bytes(S) = Bytes(A) + Bytes(B)
  <2> HIDE DEF A, B
  <2> QED
    BY <1>4, <1>6, <1>7, <1>8, <1>9
<1>11. Bytes(A) = Bytes(S) - Bytes(B) /\ Bytes(B) <= Bytes(S) /\ Bytes(A) <= Bytes(S)
  <2> HIDE DEF A, B
  <2> QED
    BY <1>6, <1>10
<1> QED
  BY <1>6, <1>11 DEF A, B

-----------------------------------------------------------------------------
(* What staging_lru_.remove() and the eviction loop do *)

LEMMA RemovingDef ==
  ASSUME NEW k \in Snapshots
  PROVE  Removing(k) = [lru \in Seq(Snapshots) |->
           IF lru = <<>> THEN <<>>
           ELSE IF Head(lru) = k THEN Removing(k)[Tail(lru)]
           ELSE <<Head(lru)>> \o Removing(k)[Tail(lru)]]
<1> DEFINE D == Seq(Snapshots)
           Value(f, d) == IF d = <<>> THEN <<>>
                          ELSE IF Head(d) = k THEN f[Tail(d)]
                          ELSE <<Head(d)>> \o f[Tail(d)]
           size == [d \in D |-> Len(d)]
           next == [d \in D |-> IF d = <<>> THEN d ELSE Tail(d)]
           base == [d \in D |-> <<>>]
           join == [d \in D |-> [r \in D |-> IF d = <<>> THEN r
                                             ELSE IF Head(d) = k THEN r ELSE <<Head(d)>> \o r]]
<1>1. \A d \in D : d # <<>> => Tail(d) \in D /\ Len(Tail(d)) < Len(d) /\ Head(d) \in Snapshots
  <2> SUFFICES ASSUME NEW d \in D, d # <<>>
               PROVE  Tail(d) \in D /\ Len(Tail(d)) < Len(d) /\ Head(d) \in Snapshots
    OBVIOUS
  <2>1. Tail(d) \in D /\ Len(Tail(d)) = Len(d) - 1 /\ Len(d) >= 1 /\ Head(d) \in Snapshots
    BY TailFacts
  <2>2. Len(d) \in Nat
    OBVIOUS
  <2> QED
    BY <2>1, <2>2
<1>2. size \in [D -> Nat] /\ next \in [D -> D] /\ base \in [D -> D]
  <2>1. <<>> \in D
    OBVIOUS
  <2> QED
    BY <1>1, <2>1
<1>3. join \in [D -> [D -> D]]
  <2>1. \A d \in D : \A r \in D : d # <<>> => <<Head(d)>> \o r \in D
    BY <1>1
  <2> QED
    BY <2>1
<1>4. PICK f : Solves(f, D, D, size, next, base, join)
  <2>1. Recursion(D, D, size, next, base, join)
    <3> HIDE DEF D, size, next, base, join
    <3> QED
      BY <1>2, <1>3 DEF Recursion
  <2> HIDE DEF D, size, next, base, join
  <2> QED
    BY <2>1, RecursionExists
<1>5. /\ f \in [D -> D]
      /\ \A d \in D : f[d] = RecursionStep(f, d, size, next, base, join)
  <2> HIDE DEF D, size, next, base, join
  <2> QED
    BY <1>4 DEF Solves
<1>6. ASSUME NEW d \in D PROVE f[d] = Value(f, d)
  <2>1. CASE d = <<>>
    <3>1. ~(size[next[d]] < size[d])
      BY <2>1
    <3>2. f[d] = base[d]
      <4> HIDE DEF D, size, next, base, join
      <4> QED
        BY <1>5, <3>1 DEF RecursionStep
    <3> QED
      BY <2>1, <3>2
  <2>2. CASE d # <<>>
    <3>1. next[d] = Tail(d) /\ size[next[d]] < size[d]
      BY <1>1, <2>2
    <3>2. f[d] = join[d][f[Tail(d)]]
      <4> HIDE DEF D, size, next, base, join
      <4> QED
        BY <1>5, <3>1 DEF RecursionStep
    <3>3. f[Tail(d)] \in D
      BY <1>1, <1>5, <2>2
    <3> QED
      BY <2>2, <3>2, <3>3
  <2> QED
    BY <2>1, <2>2
<1>7. f = [d \in D |-> Value(f, d)]
  <2> HIDE DEF D, Value
  <2> QED
    BY <1>5, <1>6
<1>8. Removing(k) = CHOOSE g : g = [d \in D |-> Value(g, d)]
  BY DEF Removing
<1> QED
  BY <1>7, <1>8, Zenon

LEMMA RemovingValue ==
  ASSUME NEW k \in Snapshots, NEW s \in Seq(Snapshots)
  PROVE  /\ s = <<>> => Removing(k)[s] = <<>>
         /\ s # <<>> /\ Head(s) = k => Removing(k)[s] = Removing(k)[Tail(s)]
         /\ s # <<>> /\ Head(s) # k => Removing(k)[s] = <<Head(s)>> \o Removing(k)[Tail(s)]
<1> DEFINE g == Removing(k)
<1>1. g = [lru \in Seq(Snapshots) |->
             IF lru = <<>> THEN <<>>
             ELSE IF Head(lru) = k THEN g[Tail(lru)]
             ELSE <<Head(lru)>> \o g[Tail(lru)]]
  BY RemovingDef
<1> HIDE DEF g
<1>2. g[s] = IF s = <<>> THEN <<>>
             ELSE IF Head(s) = k THEN g[Tail(s)]
             ELSE <<Head(s)>> \o g[Tail(s)]
  BY <1>1, Zenon
<1> QED
  BY <1>2, Zenon DEF g

\* remove() takes out every occurrence of the key and nothing else.
LEMMA RemovingFacts ==
  ASSUME NEW k \in Snapshots
  PROVE  \A s \in Seq(Snapshots) : /\ Removing(k)[s] \in Seq(Snapshots)
                                   /\ ToSet(Removing(k)[s]) = ToSet(s) \ {k}
                                   /\ IsInjective(s) => IsInjective(Removing(k)[s])
<1> DEFINE g == Removing(k)
           Good(s) == /\ g[s] \in Seq(Snapshots) /\ ToSet(g[s]) = ToSet(s) \ {k}
                      /\ IsInjective(s) => IsInjective(g[s])
           Bad == {n \in Nat : \E s \in Seq(Snapshots) : Len(s) = n /\ ~Good(s)}
<1>1. ASSUME NEW s \in Seq(Snapshots), s = <<>> PROVE Good(s)
  <2>1. g[s] = s
    BY <1>1, RemovingValue
  <2>2. ToSet(s) = {s[i] : i \in 1..Len(s)}
    BY KeysOf
  <2>3. Len(s) = 0
    BY <1>1
  <2> HIDE DEF g
  <2>4. ToSet(s) = {}
    BY <2>2, <2>3
  <2> QED
    BY <2>1, <2>4
<1>2. ASSUME NEW s \in Seq(Snapshots), s # <<>>, Good(Tail(s)) PROVE Good(s)
  <2> DEFINE h == Head(s)
             t == Tail(s)
             r == g[t]
  <2>1. /\ t \in Seq(Snapshots) /\ Len(t) = Len(s) - 1 /\ Len(s) >= 1
        /\ \A i \in 1..(Len(s) - 1) : t[i] = s[i + 1]
        /\ h = s[1] /\ h \in Snapshots
    BY <1>2, TailFacts
  <2>2. /\ r \in Seq(Snapshots) /\ ToSet(r) = ToSet(t) \ {k}
        /\ IsInjective(t) => IsInjective(r)
    BY <1>2
  <2>3. (h = k => g[s] = r) /\ (h # k => g[s] = <<h>> \o r)
    BY <1>2, RemovingValue
  <2>4. ToSet(s) = {h} \cup ToSet(t)
    <3> HIDE DEF h, t
    <3>1. /\ ToSet(s) = {s[i] : i \in 1..Len(s)} /\ Len(s) \in Nat
          /\ ToSet(t) = {t[i] : i \in 1..Len(t)}
      BY <2>1, KeysOf
    <3>2. ASSUME NEW x \in ToSet(s) PROVE x \in {h} \cup ToSet(t)
      <4>1. PICK i \in 1..Len(s) : x = s[i]
        BY <3>1
      <4>2. CASE i = 1
        BY <2>1, <4>1, <4>2
      <4>3. CASE i # 1
        <5>1. i - 1 \in 1..(Len(s) - 1) /\ (i - 1) + 1 = i
          BY <3>1, <4>3
        <5>2. t[i - 1] = x
          BY <2>1, <4>1, <5>1
        <5> QED
          BY <2>1, <3>1, <5>1, <5>2
      <4> QED
        BY <4>2, <4>3
    <3>3. ASSUME NEW x \in ToSet(t) PROVE x \in ToSet(s)
      <4>1. PICK i \in 1..(Len(s) - 1) : x = t[i]
        BY <2>1, <3>1
      <4>2. i + 1 \in 1..Len(s) /\ x = s[i + 1]
        BY <2>1, <3>1, <4>1
      <4> QED
        BY <3>1, <4>2
    <3>4. h \in ToSet(s)
      BY <2>1, <3>1
    <3> QED
      BY <3>2, <3>3, <3>4
  <2>5. IsInjective(s) => IsInjective(t) /\ h \notin ToSet(t)
    <3> HIDE DEF h, t
    <3> SUFFICES ASSUME IsInjective(s) PROVE IsInjective(t) /\ h \notin ToSet(t)
      OBVIOUS
    <3>1. \A i, j \in 1..Len(s) : s[i] = s[j] => i = j
      BY DistinctList
    <3>2. Len(s) \in Nat /\ ToSet(t) = {t[i] : i \in 1..Len(t)}
      BY <2>1, KeysOf
    <3>3. \A i \in 1..Len(t) : i + 1 \in 1..Len(s) /\ t[i] = s[i + 1]
      BY <2>1, <3>2
    <3>4. \A i, j \in 1..Len(t) : t[i] = t[j] => i = j
      <4> SUFFICES ASSUME NEW i \in 1..Len(t), NEW j \in 1..Len(t), t[i] = t[j] PROVE i = j
        OBVIOUS
      <4>1. i + 1 = j + 1
        BY <3>1, <3>3
      <4> QED
        BY <4>1
    <3>5. \A i \in 1..Len(t) : t[i] # h
      <4> SUFFICES ASSUME NEW i \in 1..Len(t) PROVE t[i] # h
        OBVIOUS
      <4>1. 1 \in 1..Len(s) /\ i + 1 # 1
        BY <2>1, <3>2
      <4> QED
        BY <2>1, <3>1, <3>3, <4>1
    <3>6. IsInjective(t)
      BY <2>1, <3>4, DistinctList
    <3> QED
      BY <3>2, <3>5, <3>6
  <2> HIDE DEF g, h, t, r
  <2>6. CASE h = k
    BY <2>2, <2>3, <2>4, <2>5, <2>6
  <2>7. CASE h # k
    <3> DEFINE a == <<h>> \o r
    <3>1. /\ a \in Seq(Snapshots) /\ Len(a) = Len(r) + 1 /\ Len(r) \in Nat
          /\ a[1] = h /\ \A i \in 1..Len(r) : a[i + 1] = r[i]
      BY <2>1, <2>2
    <3> HIDE DEF a
    <3>2. ToSet(a) = {a[i] : i \in 1..Len(a)} /\ ToSet(r) = {r[i] : i \in 1..Len(r)}
      BY <2>2, <3>1, KeysOf
    <3>3. ASSUME NEW x \in ToSet(a) PROVE x \in {h} \cup ToSet(r)
      <4>1. PICK i \in 1..Len(a) : x = a[i]
        BY <3>2
      <4>2. CASE i = 1
        BY <3>1, <4>1, <4>2
      <4>3. CASE i # 1
        <5>1. i - 1 \in 1..Len(r) /\ (i - 1) + 1 = i
          BY <3>1, <4>3
        <5>2. r[i - 1] = x
          BY <3>1, <4>1, <5>1
        <5> QED
          BY <3>2, <5>1, <5>2
      <4> QED
        BY <4>2, <4>3
    <3>4. ASSUME NEW x \in ToSet(r) PROVE x \in ToSet(a)
      <4>1. PICK i \in 1..Len(r) : x = r[i]
        BY <3>2
      <4>2. i + 1 \in 1..Len(a) /\ x = a[i + 1]
        BY <3>1, <4>1
      <4> QED
        BY <3>2, <4>2
    <3>5. h \in ToSet(a)
      BY <3>1, <3>2
    <3>6. ToSet(a) = {h} \cup ToSet(r)
      BY <3>3, <3>4, <3>5
    <3>7. g[s] = a
      BY <2>3, <2>7 DEF a
    <3>8. ASSUME IsInjective(s) PROVE IsInjective(a)
      <4>1. /\ h \notin ToSet(r)
            /\ \A i, j \in 1..Len(r) : r[i] = r[j] => i = j
        BY <2>2, <2>5, <3>8, DistinctList
      <4>2. ASSUME NEW i \in 1..Len(a)
            PROVE  i = 1 \/ (i - 1 \in 1..Len(r) /\ a[i] = r[i - 1])
        <5>1. CASE i # 1
          <6>1. i - 1 \in 1..Len(r) /\ (i - 1) + 1 = i
            BY <3>1, <5>1
          <6> QED
            BY <3>1, <6>1
        <5> QED
          BY <5>1
      <4>3. \A i, j \in 1..Len(a) : a[i] = a[j] => i = j
        <5> SUFFICES ASSUME NEW i \in 1..Len(a), NEW j \in 1..Len(a), a[i] = a[j] PROVE i = j
          OBVIOUS
        <5>1. \A m \in 1..Len(r) : r[m] # h
          BY <3>2, <4>1
        <5>2. CASE i = 1 \/ j = 1
          BY <3>1, <4>2, <5>1, <5>2
        <5>3. CASE i # 1 /\ j # 1
          <6>1. i - 1 = j - 1
            BY <4>1, <4>2, <5>3
          <6> QED
            BY <6>1
        <5> QED
          BY <5>2, <5>3
      <4> QED
        BY <3>1, <4>3, DistinctList
    <3> QED
      BY <2>2, <2>4, <2>7, <3>1, <3>6, <3>7, <3>8
  <2> QED
    BY <2>6, <2>7
<1>3. ASSUME Bad # {} PROVE FALSE
  <2>0. Bad \in SUBSET Nat
    OBVIOUS
  <2>1. PICK n \in Bad : \A m \in Bad : n <= m
    <3> HIDE DEF Bad
    <3> QED
      BY <1>3, <2>0, SmallestExists
  <2>2. PICK s \in Seq(Snapshots) : Len(s) = n /\ ~Good(s)
    OBVIOUS
  <2> HIDE DEF Good
  <2>3. s # <<>>
    BY <1>1, <2>2
  <2>4. Tail(s) \in Seq(Snapshots) /\ Len(Tail(s)) = Len(s) - 1 /\ Len(s) >= 1
    BY <2>3, TailFacts
  <2>5. Len(Tail(s)) \in Nat /\ Len(Tail(s)) \notin Bad
    BY <2>0, <2>1, <2>2, <2>4
  <2>6. Good(Tail(s))
    BY <2>4, <2>5
  <2> QED
    BY <1>2, <2>2, <2>3, <2>6
<1> SUFFICES ASSUME NEW s \in Seq(Snapshots) PROVE Good(s)
  OBVIOUS
<1> HIDE DEF Good
<1>4. Len(s) \in Nat
  OBVIOUS
<1> QED
  BY <1>3, <1>4

LEMMA FreedFacts ==
  ASSUME NEW S \in SUBSET Snapshots, IsFiniteSet(S), NEW lru, NEW n
  PROVE  /\ Freed(S, lru, n) \in Nat
         /\ Bytes(S \ ToSet(SubSeq(lru, 1, n))) = Bytes(S) - Freed(S, lru, n)
         /\ Bytes(S) \in Nat /\ Bytes(S \ ToSet(SubSeq(lru, 1, n))) \in Nat
<1> DEFINE R == ToSet(SubSeq(lru, 1, n))
<1>1. /\ Bytes(S \ R) = Bytes(S) - Bytes(S \cap R)
      /\ Bytes(S \ R) \in Nat /\ Bytes(S) \in Nat /\ Bytes(S \cap R) \in Nat
  <2> HIDE DEF R
  <2> QED
    BY BytesWithout
<1>2. Freed(S, lru, n) = Bytes(S \cap R)
  BY DEF Freed
<1> QED
  BY <1>1, <1>2

\* The eviction loop ends: within the budget, or with one key left in the list.
LEMMA EvictionsFacts ==
  ASSUME NEW S \in SUBSET Snapshots, IsFiniteSet(S), NEW lru \in Seq(Snapshots),
         Len(lru) >= 1, NEW usati \in Nat
  PROVE  LET n == Evictions(S, lru, usati)
         IN  /\ n \in 0..(Len(lru) - 1)
             /\ n = Len(lru) - 1 \/ usati - Freed(S, lru, n) <= staging_budget
<1> DEFINE L == Len(lru)
           F(n) == Freed(S, lru, n)
           Stop(n) == n = L - 1 \/ usati - F(n) <= staging_budget
           T == {n \in 0..(L - 1) : Stop(n)}
<1>1. L \in Nat /\ L >= 1 /\ staging_budget \in Nat
  BY PrefetchAssumption
<1>2. \A n : F(n) \in Nat
  BY FreedFacts
<1>3. Evictions(S, lru, usati) = CHOOSE n \in 0..(L - 1) :
        Stop(n) /\ \A m \in 0..(n - 1) : usati - F(m) > staging_budget
  BY DEF Evictions
<1> HIDE DEF L, F
<1>4. T \in SUBSET Nat /\ L - 1 \in T
  BY <1>1
<1>5. PICK x \in T : \A y \in T : x <= y
  <2> HIDE DEF T
  <2> QED
    BY <1>4, SmallestExists
<1>6. ASSUME NEW m \in 0..(x - 1) PROVE usati - F(m) > staging_budget
  <2>1. m \in 0..(L - 1) /\ ~(x <= m)
    BY <1>1, <1>5
  <2>2. ~Stop(m)
    BY <1>5, <2>1
  <2>3. ~(usati - F(m) <= staging_budget) /\ F(m) \in Nat
    BY <1>2, <2>2
  <2> QED
    BY <1>1, <2>3
<1>7. x \in 0..(L - 1) /\ Stop(x)
  BY <1>5
<1> HIDE DEF Stop, T
<1>8. \E n \in 0..(L - 1) : Stop(n) /\ \A m \in 0..(n - 1) : usati - F(m) > staging_budget
  BY <1>6, <1>7
<1>9. Evictions(S, lru, usati) \in 0..(L - 1) /\ Stop(Evictions(S, lru, usati))
  BY <1>3, <1>8, Zenon
<1> QED
  BY <1>9, Zenon DEF Stop, L, F

-----------------------------------------------------------------------------
(* The steps of the threads *)

\* A step that leaves the staging area alone
LEMMA StagingUntouched ==
  ASSUME StagingConsistent, UNCHANGED stagingVars,
         leaked' = leaked, PrefetchTypeOK'
  PROVE  StagingConsistent'
<1>1. staged' = staged /\ staging_lru' = staging_lru /\ staging_usati' = staging_usati
  BY DEF stagingVars
<1>2. CountMatchesStaged' /\ ListMatchesStaged' /\ StagingWithinBudget'
  BY <1>1 DEF StagingConsistent, CountMatchesStaged, ListMatchesStaged, StagingWithinBudget, Bytes
<1> QED
  BY <1>2 DEF StagingConsistent

LEMMA InsertStep ==
  ASSUME StagingConsistent, NEW t \in Threads, PrefetchInsert(t)
  PROVE  StagingConsistent'
<1> DEFINE k == prefetcher[t].key
           S == staged \cup {k}
           lru == Append(staging_lru, k)
           usati == staging_usati + BytesOf[k]
           n == Evictions(S, lru, usati)
           R == ToSet(SubSeq(lru, 1, n))
           rest == SubSeq(lru, n + 1, Len(lru))
<1>1. /\ prefetcher[t].at = "insert"
      /\ staged' = S \ R /\ staging_lru' = rest
      /\ staging_usati' = usati - Freed(S, lru, n)
      /\ prefetcher' = [prefetcher EXCEPT ![t] = Idle]
      /\ leaked' = leaked + (IF k \in staged THEN BytesOf[k] ELSE 0)
      /\ stored' = stored /\ engine' = engine /\ calls' = calls
  BY DEF PrefetchInsert
<1>2. PrefetchTypeOK /\ CountMatchesStaged /\ ListMatchesStaged
  BY DEF StagingConsistent
<1>3. /\ staged \in SUBSET Snapshots /\ staging_lru \in Seq(Snapshots) /\ staging_usati \in Nat
      /\ leaked \in Nat
  BY <1>2 DEF PrefetchTypeOK
<1>4. /\ staged \in SUBSET ToSet(staging_lru) /\ staging_usati = Bytes(staged) + leaked
      /\ leaked = 0 => ToSet(staging_lru) = staged /\ IsInjective(staging_lru)
  BY <1>2 DEF CountMatchesStaged, ListMatchesStaged
<1>5. k \in Snapshots
  <2>1. prefetcher[t] \in {Idle} \cup [at : {"get", "insert"}, key : Snapshots]
    BY <1>2 DEF PrefetchTypeOK
  <2>2. prefetcher[t] # Idle
    BY <1>1 DEF Idle
  <2> QED
    BY <2>1, <2>2
<1>6. BytesOf[k] \in Nat /\ BytesOf[k] > 0 /\ staging_budget \in Nat
  BY <1>5, PrefetchAssumption
<1>7. prefetcher' \in [Threads -> {Idle} \cup [at : {"get", "insert"}, key : Snapshots]]
  BY <1>1, <1>2 DEF PrefetchTypeOK
<1> HIDE DEF k
<1>8. IsFiniteSet(staged)
  <2>1. IsFiniteSet(ToSet(staging_lru))
    BY <1>3, KeysOf
  <2> QED
    BY <1>4, <2>1, FS_Subset
<1>9. S \in SUBSET Snapshots /\ IsFiniteSet(S)
  BY <1>3, <1>5, <1>8, FS_AddElement
<1>10. /\ lru \in Seq(Snapshots) /\ Len(lru) = Len(staging_lru) + 1 /\ Len(lru) >= 1
       /\ lru[Len(lru)] = k /\ ToSet(lru) = ToSet(staging_lru) \cup {k}
       /\ IsInjective(staging_lru) /\ k \notin ToSet(staging_lru) => IsInjective(lru)
  <2>1. Len(staging_lru) \in Nat
    BY <1>3
  <2>2. /\ lru \in Seq(Snapshots) /\ Len(lru) = Len(staging_lru) + 1
        /\ lru[Len(staging_lru) + 1] = k /\ ToSet(lru) = ToSet(staging_lru) \cup {k}
        /\ IsInjective(staging_lru) /\ k \notin ToSet(staging_lru) => IsInjective(lru)
    BY <1>3, <1>5, ListGrows
  <2> QED
    BY <2>1, <2>2
<1>11. /\ usati \in Nat /\ leaked' \in Nat /\ usati = Bytes(S) + leaked'
       /\ leaked' = 0 => ToSet(lru) = S /\ IsInjective(lru)
  <2>1. Bytes(staged) \in Nat
    BY <1>3, <1>8, BytesFacts
  <2>2. CASE k \in staged
    <3>1. Bytes(S) = Bytes(staged)
      <4>1. S = staged
        BY <2>2
      <4> QED
        BY <4>1
    <3>2. leaked' = leaked + BytesOf[k] /\ leaked' # 0
      BY <1>1, <1>3, <1>6, <2>2
    <3>3. usati \in Nat /\ usati = Bytes(staged) + (leaked + BytesOf[k])
      BY <1>3, <1>4, <1>6, <2>1
    <3> HIDE DEF S, usati
    <3> QED
      BY <1>3, <1>6, <3>1, <3>2, <3>3
  <2>3. CASE k \notin staged
    <3>1. Bytes(S) = Bytes(staged) + BytesOf[k]
      BY <1>3, <1>5, <1>8, <2>3, BytesWith
    <3>2. leaked' = leaked
      BY <1>1, <1>3, <2>3
    <3>3. usati \in Nat /\ usati = Bytes(S) + leaked
      BY <1>3, <1>4, <1>6, <2>1, <3>1
    <3>4. leaked = 0 => ToSet(lru) = S /\ IsInjective(lru)
      BY <1>4, <1>10, <2>3
    <3> QED
      BY <1>3, <3>2, <3>3, <3>4
  <2> QED
    BY <2>2, <2>3
<1> HIDE DEF S, lru, usati
<1>12. n \in 0..(Len(lru) - 1) /\ (n = Len(lru) - 1 \/ usati - Freed(S, lru, n) <= staging_budget)
  BY <1>9, <1>10, <1>11, EvictionsFacts
<1> HIDE DEF n
<1>13. /\ Freed(S, lru, n) \in Nat /\ Bytes(S) \in Nat /\ Bytes(S \ R) \in Nat
       /\ Bytes(S \ R) = Bytes(S) - Freed(S, lru, n)
  BY <1>9, FreedFacts
<1>14. /\ rest \in Seq(Snapshots) /\ ToSet(lru) = R \cup ToSet(rest)
       /\ n = Len(lru) - 1 => ToSet(rest) = {k}
       /\ IsInjective(lru) => IsInjective(rest) /\ R \cap ToSet(rest) = {}
  <2>1. n \in 0..Len(lru)
    BY <1>10, <1>12
  <2> QED
    BY <1>10, <2>1, ListCut
<1> HIDE DEF R, rest
<1>15. S \ R \in SUBSET ToSet(rest) /\ S \ R \in SUBSET Snapshots
  <2>1. S \in SUBSET ToSet(lru)
    BY <1>4, <1>10 DEF S
  <2> QED
    BY <1>9, <1>14, <2>1
<1>16. staging_usati' \in Nat /\ staging_usati' = Bytes(S \ R) + leaked'
  BY <1>1, <1>11, <1>13
<1>17. leaked' = 0 => ToSet(rest) = S \ R /\ IsInjective(rest)
  BY <1>11, <1>14
<1>18. PrefetchTypeOK'
  BY <1>1, <1>2, <1>7, <1>11, <1>14, <1>15, <1>16 DEF PrefetchTypeOK
<1>19. CountMatchesStaged' /\ ListMatchesStaged'
  <2>1. (Bytes(staged))' = Bytes(S \ R)
    BY <1>1 DEF Bytes
  <2>2. CountMatchesStaged'
    BY <1>16, <2>1 DEF CountMatchesStaged
  <2>3. ListMatchesStaged'
    BY <1>1, <1>15, <1>17 DEF ListMatchesStaged
  <2> QED
    BY <2>2, <2>3
<1>20. StagingWithinBudget'
  <2>1. CASE usati - Freed(S, lru, n) <= staging_budget
    BY <1>1, <2>1 DEF StagingWithinBudget
  <2>2. CASE n = Len(lru) - 1
    <3>1. S \ R \in SUBSET {k} /\ IsFiniteSet({k}) /\ Cardinality({k}) = 1
      BY <1>14, <1>15, <2>2, FS_Singleton
    <3>2. Cardinality(S \ R) <= 1
      BY <3>1, FS_Subset
    <3> QED
      BY <1>1, <3>2 DEF StagingWithinBudget
  <2> QED
    BY <1>12, <2>1, <2>2
<1> QED
  BY <1>18, <1>19, <1>20 DEF StagingConsistent

LEMMA LoadStagedStep ==
  ASSUME StagingConsistent, NEW k \in Snapshots, LoadStaged(k)
  PROVE  StagingConsistent'
<1>1. /\ k \in staged /\ staged' = staged \ {k}
      /\ staging_lru' = Removing(k)[staging_lru]
      /\ staging_usati' = staging_usati - BytesOf[k]
      /\ engine' \in {Idle, At("remove", k)}
      /\ stored' = stored /\ prefetcher' = prefetcher /\ calls' = calls /\ leaked' = leaked
  BY DEF LoadStaged, TakeStaged
<1>2. PrefetchTypeOK /\ CountMatchesStaged /\ ListMatchesStaged /\ StagingWithinBudget
  BY DEF StagingConsistent
<1>3. /\ staged \in SUBSET Snapshots /\ staging_lru \in Seq(Snapshots) /\ staging_usati \in Nat
      /\ leaked \in Nat
  BY <1>2 DEF PrefetchTypeOK
<1>4. /\ staged \in SUBSET ToSet(staging_lru) /\ staging_usati = Bytes(staged) + leaked
      /\ leaked = 0 => ToSet(staging_lru) = staged /\ IsInjective(staging_lru)
  BY <1>2 DEF CountMatchesStaged, ListMatchesStaged
<1>5. IsFiniteSet(staged)
  <2>1. IsFiniteSet(ToSet(staging_lru))
    BY <1>3, KeysOf
  <2> QED
    BY <1>4, <2>1, FS_Subset
<1> DEFINE T == staged \ {k}
<1>6. T \in SUBSET Snapshots /\ IsFiniteSet(T) /\ Cardinality(T) = Cardinality(staged) - 1
  <2>1. IsFiniteSet(T) /\ Cardinality(T) = IF k \in staged THEN Cardinality(staged) - 1 ELSE Cardinality(staged)
    BY <1>5, FS_RemoveElement
  <2> QED
    BY <1>1, <1>3, <2>1
<1>7. k \notin T /\ T \cup {k} = staged
  BY <1>1
<1> HIDE DEF T
<1>8. Bytes(staged) = Bytes(T) + BytesOf[k] /\ Bytes(T) \in Nat
  BY <1>6, <1>7, BytesWith, BytesFacts
<1>9. BytesOf[k] \in Nat /\ staging_budget \in Nat
  BY PrefetchAssumption
<1>10. /\ staging_usati' \in Nat /\ staging_usati' = Bytes(T) + leaked
       /\ staging_usati' <= staging_usati
  BY <1>1, <1>3, <1>4, <1>8, <1>9
<1>11. /\ staging_lru' \in Seq(Snapshots) /\ ToSet(staging_lru') = ToSet(staging_lru) \ {k}
       /\ IsInjective(staging_lru) => IsInjective(staging_lru')
  BY <1>1, <1>3, RemovingFacts
<1>12. /\ T \in SUBSET ToSet(staging_lru') /\ staged' = T
       /\ leaked = 0 => ToSet(staging_lru') = T /\ IsInjective(staging_lru')
  BY <1>1, <1>4, <1>11 DEF T
<1>13. (Bytes(staged))' = Bytes(T)
  BY <1>12 DEF Bytes
<1>14. PrefetchTypeOK'
  <2>1. engine' \in {Idle} \cup [at : {"get", "remove", "put"}, key : Snapshots]
    BY <1>1 DEF At
  <2> QED
    BY <1>1, <1>2, <1>6, <1>10, <1>11, <1>12, <2>1 DEF PrefetchTypeOK
<1>15. CountMatchesStaged' /\ ListMatchesStaged'
  BY <1>1, <1>10, <1>12, <1>13 DEF CountMatchesStaged, ListMatchesStaged
<1>16. StagingWithinBudget'
  <2>1. CASE staging_usati <= staging_budget
    BY <1>3, <1>9, <1>10, <2>1 DEF StagingWithinBudget
  <2>2. CASE Cardinality(staged) <= 1
    <3>1. Cardinality(staged) \in Nat
      BY <1>5, FS_CardinalityType
    <3> QED
      BY <1>6, <1>12, <2>2, <3>1 DEF StagingWithinBudget
  <2> QED
    BY <1>2, <2>1, <2>2 DEF StagingWithinBudget
<1> QED
  BY <1>14, <1>15, <1>16 DEF StagingConsistent

\* Every step of every thread
LEMMA StagingStep ==
  ASSUME StagingConsistent, PrefetchNext
  PROVE  StagingConsistent'
<1> DEFINE Places == {Idle} \cup [at : {"get", "insert"}, key : Snapshots]
           Calls == {Idle} \cup [at : {"get", "remove", "put"}, key : Snapshots]
<1>1. PrefetchTypeOK
  BY DEF StagingConsistent
<1>2. ASSUME NEW t \in Threads, NEW k \in Snapshots, PrefetchBegin(t, k)
      PROVE  StagingConsistent'
  <2>1. prefetcher' \in [Threads -> Places]
    <3>1. Idle \in Places /\ At("get", k) \in Places
      BY DEF At
    <3> HIDE DEF Places
    <3>2. prefetcher \in [Threads -> Places]
      BY <1>1 DEF PrefetchTypeOK, Places
    <3> QED
      BY <1>2, <3>1, <3>2 DEF PrefetchBegin
  <2>2. calls' \in 0..MaxPrefetches
    BY <1>1, <1>2, PrefetchAssumption DEF PrefetchTypeOK, PrefetchBegin
  <2>3. PrefetchTypeOK'
    BY <1>1, <1>2, <2>1, <2>2 DEF PrefetchTypeOK, PrefetchBegin, stagingVars
  <2> QED
    BY <1>2, <2>3, StagingUntouched DEF PrefetchBegin
<1>3. ASSUME NEW t \in Threads, PrefetchRead(t) PROVE StagingConsistent'
  <2>1. prefetcher' \in [Threads -> Places]
    <3>1. prefetcher \in [Threads -> Places]
      BY <1>1 DEF PrefetchTypeOK
    <3>2. prefetcher[t] \in Places /\ prefetcher[t] # Idle
      BY <1>3, <3>1 DEF PrefetchRead, Idle
    <3>3. [prefetcher[t] EXCEPT !.at = "insert"] \in Places
      BY <3>2
    <3>4. prefetcher' = [prefetcher EXCEPT ![t] = [prefetcher[t] EXCEPT !.at = "insert"]]
      BY <1>3 DEF PrefetchRead
    <3> HIDE DEF Places
    <3> QED
      BY <3>1, <3>3, <3>4
  <2>2. PrefetchTypeOK'
    BY <1>1, <1>3, <2>1 DEF PrefetchTypeOK, PrefetchRead, stagingVars
  <2> QED
    BY <1>3, <2>2, StagingUntouched DEF PrefetchRead
<1>4. ASSUME NEW t \in Threads, PrefetchMiss(t) PROVE StagingConsistent'
  <2>1. prefetcher' \in [Threads -> Places]
    BY <1>1, <1>4 DEF PrefetchTypeOK, PrefetchMiss
  <2>2. PrefetchTypeOK'
    BY <1>1, <1>4, <2>1 DEF PrefetchTypeOK, PrefetchMiss, stagingVars
  <2> QED
    BY <1>4, <2>2, StagingUntouched DEF PrefetchMiss
<1>5. ASSUME NEW k \in Snapshots, LoadFromStore(k) \/ StoreBegin(k) PROVE StagingConsistent'
  <2>1. engine' \in Calls
    BY <1>5 DEF LoadFromStore, StoreBegin, At
  <2>2. /\ UNCHANGED stagingVars /\ stored' = stored /\ prefetcher' = prefetcher
        /\ calls' = calls /\ leaked' = leaked
    BY <1>5 DEF LoadFromStore, StoreBegin
  <2>3. PrefetchTypeOK'
    BY <1>1, <2>1, <2>2 DEF PrefetchTypeOK, stagingVars
  <2> QED
    BY <2>2, <2>3, StagingUntouched
<1>6. ASSUME LoadEnd \/ StoreEnd PROVE StagingConsistent'
  <2>1. engine \in Calls /\ engine # Idle
    BY <1>1, <1>6 DEF PrefetchTypeOK, LoadEnd, StoreEnd, Idle
  <2>2. engine.key \in Snapshots
    BY <2>1
  <2>3. stored' \in SUBSET Snapshots
    BY <1>1, <1>6, <2>2 DEF PrefetchTypeOK, LoadEnd, StoreEnd
  <2>4. /\ UNCHANGED stagingVars /\ engine' = Idle /\ prefetcher' = prefetcher
        /\ calls' = calls /\ leaked' = leaked
    BY <1>6 DEF LoadEnd, StoreEnd
  <2>5. PrefetchTypeOK'
    BY <1>1, <2>3, <2>4 DEF PrefetchTypeOK, stagingVars
  <2> QED
    BY <2>4, <2>5, StagingUntouched
<1> QED
  BY <1>2, <1>3, <1>4, <1>5, <1>6, InsertStep, LoadStagedStep DEF PrefetchNext

LEMMA StagingStarts == PrefetchInit => StagingConsistent
<1> SUFFICES ASSUME PrefetchInit PROVE StagingConsistent
  OBVIOUS
<1>1. /\ stored = {} /\ staged = {} /\ staging_lru = <<>> /\ staging_usati = 0
      /\ prefetcher = [t \in Threads |-> Idle] /\ engine = Idle /\ calls = 0 /\ leaked = 0
  BY DEF PrefetchInit
<1>2. Bytes({}) = 0
  <2>1. DOMAIN Sizes({}) = {}
    BY DEF Sizes
  <2>2. Total(Sizes({})) = 0
    BY <2>1, TotalOfNothing
  <2> QED
    BY <2>2 DEF Bytes, Sizes
<1>3. PrefetchTypeOK
  <2>1. <<>> \in Seq(Snapshots) /\ 0 \in 0..MaxPrefetches /\ 0 \in Nat
    BY PrefetchAssumption
  <2>2. staging_lru \in Seq(Snapshots)
    BY <1>1, <2>1
  <2>3. prefetcher \in [Threads -> {Idle} \cup [at : {"get", "insert"}, key : Snapshots]]
    BY <1>1
  <2> QED
    BY <1>1, <2>1, <2>2, <2>3 DEF PrefetchTypeOK
<1>4. CountMatchesStaged /\ ListMatchesStaged
  <2>1. ToSet(staging_lru) = {} /\ IsInjective(staging_lru)
    <3>1. staging_lru \in Seq(Snapshots) /\ Len(staging_lru) = 0
      BY <1>1
    <3>2. ToSet(staging_lru) = {staging_lru[i] : i \in 1..Len(staging_lru)}
      BY <3>1, KeysOf
    <3>3. 1..Len(staging_lru) = {}
      BY <3>1
    <3> QED
      BY <3>1, <3>2, <3>3, DistinctList
  <2> QED
    BY <1>1, <1>2, <2>1 DEF CountMatchesStaged, ListMatchesStaged
<1>5. StagingWithinBudget
  BY <1>1, PrefetchAssumption DEF StagingWithinBudget
<1> QED
  BY <1>3, <1>4, <1>5 DEF StagingConsistent

\* For any snapshots, sizes, budget and number of threads, however prefetch()
\* and load_state() interleave: the byte count is what is staged and, to the
\* byte, what keys staged over themselves have leaked; map and list agree
\* until that happens; and the count, leaks included, keeps the budget unless
\* a single payload is left.
THEOREM StagingCorrect == PrefetchSpec => []StagingConsistent
<1>1. PrefetchInit => StagingConsistent
  BY StagingStarts
<1>2. StagingConsistent /\ [PrefetchNext]_prefetchVars => StagingConsistent'
  <2> SUFFICES ASSUME StagingConsistent, [PrefetchNext]_prefetchVars PROVE StagingConsistent'
    OBVIOUS
  <2>1. CASE PrefetchNext
    BY <2>1, StagingStep
  <2>2. CASE UNCHANGED prefetchVars
    <3>1. UNCHANGED stagingVars /\ leaked' = leaked
      BY <2>2 DEF prefetchVars, stagingVars
    <3>2. PrefetchTypeOK'
      BY <2>2 DEF StagingConsistent, PrefetchTypeOK, prefetchVars, stagingVars
    <3> QED
      BY <3>1, <3>2, StagingUntouched
  <2> QED
    BY <2>1, <2>2
<1> QED
  BY <1>1, <1>2, PTL DEF PrefetchSpec

-----------------------------------------------------------------------------
(* The corpus index: what the file says of the streams *)

NonEmpty == Seq(Nat) \ {<<>>}

Framed(ss) == [s \in 1..Len(ss) |-> <<Len(ss[s])>> \o ss[s]]

LEMMA FrameFacts ==
  ASSUME NEW x \in NonEmpty
  PROVE  /\ x \in Seq(Nat) /\ Len(x) \in Nat /\ Len(x) >= 1
         /\ <<Len(x)>> \o x \in Seq(Nat) /\ Len(<<Len(x)>> \o x) = Len(x) + 1
         /\ (<<Len(x)>> \o x)[1] = Len(x)
         /\ \A i \in 1..Len(x) : (<<Len(x)>> \o x)[i + 1] = x[i]
<1> DEFINE o == <<Len(x)>>
<1>1. x \in Seq(Nat) /\ x # <<>>
  BY DEF NonEmpty
<1>2. Len(x) \in Nat /\ Len(x) >= 1
  BY <1>1, NonEmptyLen
<1>3. o \in Seq(Nat) /\ Len(o) = 1 /\ o[1] = Len(x)
  BY <1>2
<1> HIDE DEF o
<1>4. /\ o \o x \in Seq(Nat) /\ Len(o \o x) = Len(o) + Len(x)
      /\ \A i \in 1..Len(o) : (o \o x)[i] = o[i]
      /\ \A i \in 1..Len(x) : (o \o x)[Len(o) + i] = x[i]
  <2>1. x \in Seq(Nat) /\ o \in Seq(Nat)
    BY <1>1, <1>3
  <2> QED
    BY <2>1, ConcatFacts
<1> DEFINE w == o \o x
<1>5. /\ w \in Seq(Nat) /\ Len(w) = Len(x) + 1 /\ w[1] = Len(x)
      /\ \A i \in 1..Len(x) : w[i + 1] = x[i]
  <2> HIDE DEF w
  <2>1. /\ w \in Seq(Nat) /\ Len(w) = Len(o) + Len(x)
        /\ \A i \in 1..Len(o) : w[i] = o[i]
        /\ \A i \in 1..Len(x) : w[Len(o) + i] = x[i]
    BY <1>4 DEF w
  <2> QED
    BY <1>2, <1>3, <2>1
<1> QED
  BY <1>1, <1>2, <1>5 DEF o

LEMMA FramedFacts ==
  ASSUME NEW ss \in Seq(NonEmpty)
  PROVE  /\ Framed(ss) \in Seq(Seq(Nat)) /\ Len(Framed(ss)) = Len(ss)
         /\ Frames(ss) = FlattenSeq(Framed(ss))
<1>1. \A s \in 1..Len(ss) : <<Len(ss[s])>> \o ss[s] \in Seq(Nat)
  <2> SUFFICES ASSUME NEW s \in 1..Len(ss) PROVE <<Len(ss[s])>> \o ss[s] \in Seq(Nat)
    OBVIOUS
  <2> DEFINE x == ss[s]
  <2>1. x \in NonEmpty
    OBVIOUS
  <2> HIDE DEF x
  <2>2. <<Len(x)>> \o x \in Seq(Nat)
    BY <2>1, FrameFacts
  <2> QED
    BY <2>2 DEF x
<1>2. Framed(ss) \in [1..Len(ss) -> Seq(Nat)]
  BY <1>1 DEF Framed
<1>3. Len(ss) \in Nat
  OBVIOUS
<1>4. Framed(ss) \in Seq(Seq(Nat)) /\ Len(Framed(ss)) = Len(ss)
  <2> DEFINE n == Len(ss)
             f == Framed(ss)
  <2>1. n \in Nat /\ f \in [1..n -> Seq(Nat)]
    BY <1>2, <1>3
  <2> HIDE DEF n, f
  <2>2. f \in Seq(Seq(Nat)) /\ Len(f) = n
    BY <2>1
  <2> QED
    BY <2>2 DEF n, f
<1>5. Frames(ss) = FlattenSeq(Framed(ss))
  BY DEF Frames, Framed
<1> QED
  BY <1>4, <1>5

LEMMA FramesType ==
  ASSUME NEW ss \in Seq(NonEmpty)
  PROVE  Frames(ss) \in Seq(Nat)
BY FramedFacts, FlattenType

\* Frames of two parts follow each other in the file.
LEMMA FramesConcat ==
  ASSUME NEW a \in Seq(NonEmpty), NEW b \in Seq(NonEmpty)
  PROVE  Frames(a \o b) = Frames(a) \o Frames(b)
<1> DEFINE c == a \o b
           fa == Framed(a)
           fb == Framed(b)
           fc == Framed(c)
           d == fa \o fb
<1>1. /\ c \in Seq(NonEmpty) /\ Len(c) = Len(a) + Len(b)
      /\ \A i \in 1..Len(a) : c[i] = a[i]
      /\ \A i \in 1..Len(b) : c[Len(a) + i] = b[i]
  BY ConcatFacts
<1> HIDE DEF c
<1>2. /\ fa \in Seq(Seq(Nat)) /\ Len(fa) = Len(a) /\ Frames(a) = FlattenSeq(fa)
      /\ fb \in Seq(Seq(Nat)) /\ Len(fb) = Len(b) /\ Frames(b) = FlattenSeq(fb)
      /\ fc \in Seq(Seq(Nat)) /\ Len(fc) = Len(c) /\ Frames(c) = FlattenSeq(fc)
  BY <1>1, FramedFacts
<1>3. /\ \A i \in 1..Len(a) : fa[i] = <<Len(a[i])>> \o a[i]
      /\ \A i \in 1..Len(b) : fb[i] = <<Len(b[i])>> \o b[i]
      /\ \A i \in 1..Len(c) : fc[i] = <<Len(c[i])>> \o c[i]
  BY DEF Framed
<1> HIDE DEF fa, fb, fc
<1>4. /\ d \in Seq(Seq(Nat)) /\ Len(d) = Len(fa) + Len(fb)
      /\ \A i \in 1..Len(fa) : d[i] = fa[i]
      /\ \A i \in 1..Len(fb) : d[Len(fa) + i] = fb[i]
  <2>1. fa \in Seq(Seq(Nat)) /\ fb \in Seq(Seq(Nat))
    BY <1>2
  <2> QED
    BY <2>1, ConcatFacts
<1> HIDE DEF d
<1>5. Len(a) \in Nat /\ Len(b) \in Nat
  OBVIOUS
<1>6. ASSUME NEW i \in 1..Len(c) PROVE fc[i] = d[i]
  <2>1. CASE i <= Len(a)
    <3>1. i \in 1..Len(a)
      BY <1>1, <1>5, <2>1
    <3>2. fc[i] = <<Len(c[i])>> \o c[i] /\ c[i] = a[i]
      BY <1>1, <1>3, <3>1
    <3>3. d[i] = fa[i] /\ fa[i] = <<Len(a[i])>> \o a[i]
      BY <1>2, <1>3, <1>4, <3>1
    <3> QED
      BY <3>2, <3>3, Zenon
  <2>2. CASE i > Len(a)
    <3> DEFINE j == i - Len(a)
    <3>1. j \in 1..Len(b) /\ Len(a) + j = i
      BY <1>1, <1>5, <2>2
    <3> HIDE DEF j
    <3>2. fc[i] = <<Len(c[i])>> \o c[i] /\ c[i] = b[j]
      BY <1>1, <1>3, <3>1
    <3>3. d[i] = fb[j] /\ fb[j] = <<Len(b[j])>> \o b[j]
      BY <1>2, <1>3, <1>4, <3>1
    <3> QED
      BY <3>2, <3>3, Zenon
  <2> QED
    BY <1>5, <2>1, <2>2
<1>7. Len(fc) = Len(d) /\ \A i \in 1..Len(fc) : fc[i] = d[i]
  BY <1>1, <1>2, <1>4, <1>6
<1>8. fc = d
  BY <1>2, <1>4, <1>7, EqualSeqs
<1>9. FlattenSeq(d) = FlattenSeq(fa) \o FlattenSeq(fb)
  BY <1>2, FlattenConcat DEF d
<1>10. Frames(c) = Frames(a) \o Frames(b)
  BY <1>2, <1>8, <1>9, Zenon
<1> QED
  BY <1>10 DEF c

LEMMA FramesOne ==
  ASSUME NEW x \in NonEmpty
  PROVE  Frames(<<x>>) = <<Len(x)>> \o x
<1> DEFINE o == <<x>>
           e == <<>>
           y == <<Len(x)>> \o x
<1>1. o \in Seq(NonEmpty) /\ Len(o) = 1 /\ o[1] = x
  OBVIOUS
<1>2. y \in Seq(Nat)
  BY FrameFacts
<1> HIDE DEF o
<1>3. Framed(o) = <<y>>
  <2>1. Framed(o) = [s \in 1..1 |-> <<Len(o[s])>> \o o[s]]
    BY <1>1, Zenon DEF Framed
  <2>2. \A s \in 1..1 : <<Len(o[s])>> \o o[s] = y
    <3>1. \A s \in 1..1 : s = 1
      OBVIOUS
    <3> QED
      BY <1>1, <3>1, Zenon
  <2> HIDE DEF y
  <2>3. Framed(o) = [s \in 1..1 |-> y]
    BY <2>1, <2>2, Zenon
  <2>4. [s \in 1..1 |-> y] = <<y>>
    BY <1>2
  <2> QED
    BY <2>3, <2>4, Zenon
<1> HIDE DEF y
<1>4. e \in Seq(Seq(Nat)) /\ <<y>> \o e = <<y>>
  BY <1>2
<1>5. FlattenSeq(<<y>> \o e) = y \o FlattenSeq(e) /\ FlattenSeq(e) = <<>>
  BY <1>2, <1>4, FlattenFirst, FlattenEmpty, Zenon
<1>6. y \o <<>> = y
  BY <1>2
<1>7. Frames(o) = FlattenSeq(<<y>>)
  BY <1>1, <1>3, FramedFacts, Zenon
<1>8. Frames(o) = y
  BY <1>4, <1>5, <1>6, <1>7, Zenon
<1> QED
  BY <1>8 DEF o, y

\* A whole frame at the start of the words, and what follows it
Whole(w) == ~(w = <<>> \/ w[1] = 0 \/ w[1] > max_stream \/ w[1] >= Len(w))

FirstFrame(w) == SubSeq(w, 2, w[1] + 1)

AfterFrame(w) == SubSeq(w, w[1] + 2, Len(w))

LEMMA FrameCut ==
  ASSUME NEW w \in Seq(Nat), Whole(w)
  PROVE  /\ FirstFrame(w) \in NonEmpty /\ Len(FirstFrame(w)) = w[1]
         /\ \A i \in 1..w[1] : FirstFrame(w)[i] = w[i + 1]
         /\ AfterFrame(w) \in Seq(Nat) /\ Len(AfterFrame(w)) = Len(w) - w[1] - 1
         /\ \A i \in 1..(Len(w) - w[1] - 1) : AfterFrame(w)[i] = w[w[1] + 1 + i]
         /\ Len(AfterFrame(w)) < Len(w) /\ w[1] \in Nat /\ w[1] >= 1 /\ w[1] < Len(w)
<1> DEFINE n == w[1]
           L == Len(w)
           f == SubSeq(w, 2, n + 1)
           r == SubSeq(w, n + 2, L)
<1>1. L \in Nat /\ L >= 1
  BY NonEmptyLen DEF Whole
<1>2. n \in Nat /\ n >= 1 /\ n < L
  <2>1. n \in Nat
    BY <1>1
  <2>2. n # 0 /\ ~(n >= L)
    BY DEF Whole
  <2> HIDE DEF n, L
  <2> QED
    BY <1>1, <2>1, <2>2
<1> HIDE DEF n, L
<1>3. /\ f \in Seq(Nat) /\ Len(f) = (n + 1) - 2 + 1
      /\ \A i \in 1..((n + 1) - 2 + 1) : f[i] = w[2 + i - 1]
  <2>1. 2 \in 1..(L + 1) /\ n + 1 \in (2 - 1)..L
    BY <1>1, <1>2
  <2> QED
    BY <2>1, MiddleFacts DEF L
<1>4. /\ r \in Seq(Nat) /\ Len(r) = L - (n + 2) + 1
      /\ \A i \in 1..(L - (n + 2) + 1) : r[i] = w[(n + 2) + i - 1]
  <2>1. n + 2 \in 1..(L + 1) /\ L \in ((n + 2) - 1)..L
    BY <1>1, <1>2
  <2> QED
    BY <2>1, MiddleFacts DEF L
<1> HIDE DEF f, r
<1>5. Len(f) = n /\ \A i \in 1..n : f[i] = w[i + 1]
  <2>1. (n + 1) - 2 + 1 = n /\ \A i \in 1..n : 2 + i - 1 = i + 1
    BY <1>2
  <2> QED
    BY <1>3, <2>1
<1>6. Len(r) = L - n - 1 /\ \A i \in 1..(L - n - 1) : r[i] = w[n + 1 + i]
  <2>1. L - (n + 2) + 1 = L - n - 1 /\ \A i \in 1..(L - n - 1) : (n + 2) + i - 1 = n + 1 + i
    BY <1>1, <1>2
  <2> QED
    BY <1>4, <2>1
<1>7. f # <<>>
  BY <1>2, <1>3, <1>5, NonEmptyLen
<1>8. Len(r) < L
  BY <1>1, <1>2, <1>6
<1>9. f = FirstFrame(w) /\ r = AfterFrame(w)
  BY DEF f, r, n, L, FirstFrame, AfterFrame
<1> QED
  BY <1>2, <1>3, <1>4, <1>5, <1>6, <1>7, <1>8, <1>9 DEF n, L, NonEmpty

LEMMA ParsedDef ==
  Parsed = [words \in Seq(Nat) |->
              IF words = <<>> \/ words[1] = 0 \/ words[1] > max_stream \/ words[1] >= Len(words) THEN <<>>
              ELSE <<FirstFrame(words)>> \o Parsed[AfterFrame(words)]]
<1> DEFINE D == Seq(Nat)
           R == Seq(NonEmpty)
           Value(f, w) == IF w = <<>> \/ w[1] = 0 \/ w[1] > max_stream \/ w[1] >= Len(w) THEN <<>>
                          ELSE <<FirstFrame(w)>> \o f[AfterFrame(w)]
           size == [w \in D |-> Len(w)]
           next == [w \in D |-> IF Whole(w) THEN AfterFrame(w) ELSE w]
           base == [w \in D |-> <<>>]
           join == [w \in D |-> [r \in R |-> IF Whole(w) THEN <<FirstFrame(w)>> \o r ELSE r]]
<1>1. \A w \in D : Whole(w) => /\ AfterFrame(w) \in D /\ Len(AfterFrame(w)) < Len(w)
                               /\ FirstFrame(w) \in NonEmpty
  BY FrameCut
<1>2. size \in [D -> Nat] /\ next \in [D -> D] /\ base \in [D -> R]
  <2>1. <<>> \in R
    OBVIOUS
  <2>2. base \in [D -> R]
    BY <2>1
  <2> QED
    BY <1>1, <2>2
<1>3. join \in [D -> [R -> R]]
  <2>1. ASSUME NEW w \in D, NEW r \in R, Whole(w) PROVE <<FirstFrame(w)>> \o r \in R
    <3> DEFINE x == FirstFrame(w)
    <3>1. x \in NonEmpty
      BY <1>1, <2>1
    <3> HIDE DEF x
    <3>2. <<x>> \o r \in R
      BY <3>1
    <3> QED
      BY <3>2 DEF x
  <2> HIDE DEF R
  <2> QED
    BY <2>1
<1>4. PICK f : Solves(f, D, R, size, next, base, join)
  <2>1. Recursion(D, R, size, next, base, join)
    <3> HIDE DEF D, R, size, next, base, join
    <3> QED
      BY <1>2, <1>3 DEF Recursion
  <2> HIDE DEF D, R, size, next, base, join
  <2> QED
    BY <2>1, RecursionExists
<1>5. /\ f \in [D -> R]
      /\ \A d \in D : f[d] = RecursionStep(f, d, size, next, base, join)
  <2> HIDE DEF D, R, size, next, base, join
  <2> QED
    BY <1>4 DEF Solves
<1>6. ASSUME NEW w \in D PROVE f[w] = Value(f, w)
  <2>1. CASE ~Whole(w)
    <3>1. ~(size[next[w]] < size[w])
      BY <2>1
    <3>2. f[w] = base[w]
      <4> HIDE DEF D, R, size, next, base, join
      <4> QED
        BY <1>5, <3>1 DEF RecursionStep
    <3>3. f[w] = <<>>
      BY <3>2
    <3> QED
      BY <2>1, <3>3, Zenon DEF Whole
  <2>2. CASE Whole(w)
    <3>1. AfterFrame(w) \in D /\ next[w] = AfterFrame(w) /\ size[next[w]] < size[w]
      BY <1>1, <2>2
    <3>2. f[w] = join[w][f[AfterFrame(w)]]
      <4> HIDE DEF D, R, size, next, base, join
      <4> QED
        BY <1>5, <3>1 DEF RecursionStep
    <3>3. f[AfterFrame(w)] \in R
      BY <1>5, <3>1
    <3>4. f[w] = <<FirstFrame(w)>> \o f[AfterFrame(w)]
      <4> HIDE DEF R
      <4> QED
        BY <2>2, <3>2, <3>3
    <3> QED
      BY <2>2, <3>4, Zenon DEF Whole
  <2> QED
    BY <2>1, <2>2
<1>7. f = [w \in D |-> Value(f, w)]
  <2> HIDE DEF D, Value
  <2> QED
    BY <1>5, <1>6
<1>8. Parsed = CHOOSE g : g = [w \in D |-> Value(g, w)]
  BY DEF Parsed, FirstFrame, AfterFrame
<1> QED
  BY <1>7, <1>8, Zenon

LEMMA ParsedValue ==
  ASSUME NEW w \in Seq(Nat)
  PROVE  /\ ~Whole(w) => Parsed[w] = <<>>
         /\ Whole(w) => Parsed[w] = <<FirstFrame(w)>> \o Parsed[AfterFrame(w)]
<1>1. Parsed[w] = IF w = <<>> \/ w[1] = 0 \/ w[1] > max_stream \/ w[1] >= Len(w) THEN <<>>
                  ELSE <<FirstFrame(w)>> \o Parsed[AfterFrame(w)]
  BY ParsedDef, Zenon
<1> QED
  BY <1>1, Zenon DEF Whole

\* What load() reads is always a sequence of streams, torn file or not.
LEMMA ParsedType == \A w \in Seq(Nat) : Parsed[w] \in Seq(NonEmpty)
<1> DEFINE R == Seq(NonEmpty)
           Bad == {n \in Nat : \E w \in Seq(Nat) : Len(w) = n /\ Parsed[w] \notin R}
<1>1. ASSUME Bad # {} PROVE FALSE
  <2>0. Bad \in SUBSET Nat
    OBVIOUS
  <2>1. PICK n \in Bad : \A m \in Bad : n <= m
    <3> HIDE DEF Bad
    <3> QED
      BY <1>1, <2>0, SmallestExists
  <2>2. PICK w \in Seq(Nat) : Len(w) = n /\ Parsed[w] \notin R
    OBVIOUS
  <2>3. <<>> \in R
    OBVIOUS
  <2>4. Whole(w)
    BY <2>2, <2>3, ParsedValue, Zenon
  <2>5. /\ FirstFrame(w) \in NonEmpty /\ AfterFrame(w) \in Seq(Nat)
        /\ Len(AfterFrame(w)) < Len(w)
    BY <2>4, FrameCut
  <2>6. Len(AfterFrame(w)) \in Nat /\ Len(w) \in Nat
    BY <2>5, NonEmptyLen
  <2>7. Len(AfterFrame(w)) \notin Bad
    <3> HIDE DEF Bad
    <3> QED
      BY <2>0, <2>1, <2>2, <2>5, <2>6
  <2>8. Parsed[AfterFrame(w)] \in R
    BY <2>5, <2>6, <2>7
  <2> DEFINE x == FirstFrame(w)
             r == Parsed[AfterFrame(w)]
  <2>9. x \in NonEmpty /\ r \in R
    BY <2>5, <2>8
  <2> HIDE DEF x, r
  <2>10. <<x>> \o r \in R
    BY <2>9
  <2> QED
    BY <2>2, <2>4, <2>10, ParsedValue, Zenon DEF x, r
<1> SUFFICES ASSUME NEW w \in Seq(Nat) PROVE Parsed[w] \in R
  OBVIOUS
<1>2. Len(w) \in Nat
  OBVIOUS
<1> QED
  BY <1>1, <1>2

\* Streams that load() reads back
Fitting == {x \in NonEmpty : Len(x) <= max_stream}

\* Words that start with a frame
LEMMA FrameThenRest ==
  ASSUME NEW x \in Fitting, NEW v \in Seq(Nat), NEW w, w = (<<Len(x)>> \o x) \o v
  PROVE  w \in Seq(Nat) /\ Whole(w) /\ FirstFrame(w) = x /\ AfterFrame(w) = v
<1> DEFINE y == <<Len(x)>> \o x
<1>0. x \in NonEmpty /\ Len(x) <= max_stream
  BY DEF Fitting
<1>1. /\ x \in Seq(Nat) /\ Len(x) \in Nat /\ Len(x) >= 1
      /\ y \in Seq(Nat) /\ Len(y) = Len(x) + 1 /\ y[1] = Len(x)
      /\ \A i \in 1..Len(x) : y[i + 1] = x[i]
  BY <1>0, FrameFacts
<1>2. w = y \o v
  OBVIOUS
<1> HIDE DEF y
<1>3. /\ w \in Seq(Nat) /\ Len(w) = Len(y) + Len(v)
      /\ \A i \in 1..Len(y) : w[i] = y[i]
      /\ \A i \in 1..Len(v) : w[Len(y) + i] = v[i]
  <2>1. y \in Seq(Nat)
    BY <1>1
  <2>2. /\ y \o v \in Seq(Nat) /\ Len(y \o v) = Len(y) + Len(v)
        /\ \A i \in 1..Len(y) : (y \o v)[i] = y[i]
        /\ \A i \in 1..Len(v) : (y \o v)[Len(y) + i] = v[i]
    BY ONLY <2>1, v \in Seq(Nat), ConcatFacts
  <2> QED
    BY <1>2, <2>2, Zenon
<1>4. Len(v) \in Nat
  OBVIOUS
<1>5. w[1] = Len(x) /\ Len(w) = Len(x) + 1 + Len(v) /\ 1 \in 1..Len(y)
  BY <1>1, <1>3
<1>6. Whole(w)
  <2>1. w # <<>>
    BY <1>1, <1>3, <1>4, <1>5, NonEmptyLen
  <2>2. w[1] # 0 /\ ~(w[1] > max_stream) /\ ~(w[1] >= Len(w))
    BY <1>0, <1>1, <1>4, <1>5, CorpusAssumption
  <2> QED
    BY <2>1, <2>2 DEF Whole
<1> DEFINE f == FirstFrame(w)
           r == AfterFrame(w)
<1>7. /\ f \in NonEmpty /\ Len(f) = w[1]
      /\ \A i \in 1..w[1] : f[i] = w[i + 1]
      /\ r \in Seq(Nat) /\ Len(r) = Len(w) - w[1] - 1
      /\ \A i \in 1..(Len(w) - w[1] - 1) : r[i] = w[w[1] + 1 + i]
  BY <1>3, <1>6, FrameCut
<1> HIDE DEF f, r
<1>8. f = x
  <2>1. f \in Seq(Nat) /\ Len(f) = Len(x)
    BY <1>5, <1>7 DEF NonEmpty
  <2>2. ASSUME NEW i \in 1..Len(x) PROVE f[i] = x[i]
    <3>1. f[i] = w[i + 1]
      BY <1>5, <1>7
    <3>2. i + 1 \in 1..Len(y)
      BY <1>1
    <3>3. w[i + 1] = y[i + 1]
      BY <1>3, <3>2
    <3> QED
      BY <1>1, <3>1, <3>3
  <2> QED
    BY <1>1, <2>1, <2>2, EqualSeqs
<1>9. r = v
  <2>1. Len(w) - w[1] - 1 = Len(v)
    BY <1>1, <1>4, <1>5
  <2>2. ASSUME NEW i \in 1..Len(v) PROVE r[i] = v[i]
    <3>1. r[i] = w[w[1] + 1 + i]
      BY <1>7, <2>1
    <3>2. w[Len(y) + i] = v[i] /\ Len(y) + i = w[1] + 1 + i
      BY <1>1, <1>3, <1>5
    <3> QED
      BY <3>1, <3>2
  <2> QED
    BY <1>7, <2>1, <2>2, EqualSeqs
<1> QED
  BY <1>3, <1>6, <1>8, <1>9 DEF f, r

LEMMA FittingStreams ==
  ASSUME NEW ss \in Seq(Fitting)
  PROVE  ss \in Seq(NonEmpty)
<1>1. Fitting \subseteq NonEmpty
  BY DEF Fitting
<1> HIDE DEF Fitting, NonEmpty
<1> QED
  BY <1>1

\* load() reads back what was written.
LEMMA ParsedFrames == \A ss \in Seq(Fitting) : Parsed[Frames(ss)] = ss
<1> DEFINE R == Seq(Fitting)
           Good(ss) == Parsed[Frames(ss)] = ss
           Bad == {n \in Nat : \E ss \in R : Len(ss) = n /\ ~Good(ss)}
<1>1. ASSUME NEW ss \in R, ss = <<>> PROVE Good(ss)
  <2> DEFINE f == Framed(ss)
  <2>1. f \in Seq(Seq(Nat)) /\ Len(f) = Len(ss) /\ Frames(ss) = FlattenSeq(f)
    BY FramedFacts, FittingStreams
  <2> HIDE DEF f
  <2>2. Len(ss) = 0
    BY <1>1
  <2>3. f = <<>>
    BY <2>1, <2>2
  <2>4. Frames(ss) = <<>>
    BY <2>1, <2>3, FlattenEmpty, Zenon
  <2> DEFINE e == <<>>
  <2>5. e \in Seq(Nat) /\ ~Whole(e)
    BY DEF Whole
  <2>6. Parsed[e] = <<>>
    BY <2>5, ParsedValue, Zenon
  <2> QED
    BY <1>1, <2>4, <2>6, Zenon
<1>2. ASSUME NEW ss \in R, ss # <<>>, Good(Tail(ss)) PROVE Good(ss)
  <2> DEFINE x == Head(ss)
             t == Tail(ss)
             o == <<x>>
  <2>1. x \in Fitting /\ t \in R
    BY <1>2, TailFacts
  <2>2. Parsed[Frames(t)] = t
    BY <1>2
  <2>3. ss = o \o t
    <3> DEFINE e == <<>>
    <3>1. e \o ss = Append(e, x) \o t
      <4>1. e \in R
        OBVIOUS
      <4> HIDE DEF e
      <4> QED
        BY <1>2, <4>1, MoveHead
    <3>2. Append(e, x) = o /\ e \o ss = ss
      BY <2>1
    <3> QED
      BY <3>1, <3>2, Zenon
  <2>4. o \in R
    BY <2>1
  <2> HIDE DEF x, t, o, R
  <2>5. Frames(ss) = Frames(o) \o Frames(t)
    BY <2>1, <2>3, <2>4, FramesConcat, FittingStreams DEF R
  <2>6. Frames(o) = <<Len(x)>> \o x
    BY <2>1, FramesOne DEF o, Fitting
  <2>7. Frames(t) \in Seq(Nat)
    BY <2>1, FramesType, FittingStreams DEF R
  <2> DEFINE w == Frames(ss)
             v == Frames(t)
  <2>8. w = (<<Len(x)>> \o x) \o v /\ v \in Seq(Nat)
    BY <2>5, <2>6, <2>7, Zenon
  <2> HIDE DEF w, v
  <2>9. w \in Seq(Nat) /\ Whole(w) /\ FirstFrame(w) = x /\ AfterFrame(w) = v
    BY <2>1, <2>8, FrameThenRest
  <2>10. Parsed[w] = <<x>> \o Parsed[v]
    BY <2>9, ParsedValue, Zenon
  <2> QED
    BY <2>2, <2>3, <2>10, Zenon DEF w, v, o
<1>3. ASSUME Bad # {} PROVE FALSE
  <2>0. Bad \in SUBSET Nat
    OBVIOUS
  <2>1. PICK n \in Bad : \A m \in Bad : n <= m
    <3> HIDE DEF Bad
    <3> QED
      BY <1>3, <2>0, SmallestExists
  <2>2. PICK ss \in R : Len(ss) = n /\ ~Good(ss)
    OBVIOUS
  <2> HIDE DEF Good
  <2>3. ss # <<>>
    BY <1>1, <2>2
  <2>4. Tail(ss) \in R /\ Len(Tail(ss)) = Len(ss) - 1 /\ Len(ss) >= 1
    BY <2>3, TailFacts
  <2>5. Len(Tail(ss)) \in Nat /\ Len(Tail(ss)) \notin Bad
    BY <2>0, <2>1, <2>2, <2>4
  <2>6. Good(Tail(ss))
    BY <2>4, <2>5
  <2> QED
    BY <1>2, <2>2, <2>3, <2>6
<1> SUFFICES ASSUME NEW ss \in R PROVE Good(ss)
  OBVIOUS
<1> HIDE DEF Good
<1>4. Len(ss) \in Nat
  OBVIOUS
<1> QED
  BY <1>3, <1>4

-----------------------------------------------------------------------------
(* The log and its boundaries *)

\* tokens in the first n streams
Upto(ends, n) == IF n = 0 THEN 0 ELSE ends[n]

\* Boundaries ascend and the last one is the end of the log.
Shape(l, ends) ==
  /\ l \in Seq(Nat) /\ ends \in Seq(Nat)
  /\ \A s \in 1..Len(ends) : Upto(ends, s - 1) < ends[s]
  /\ Len(l) = Upto(ends, Len(ends))

LEMMA BeginIsUpto ==
  ASSUME NEW ends, NEW s \in Nat \ {0}
  PROVE  BeginOf(ends, s) = Upto(ends, s - 1) /\ Upto(ends, s) = ends[s]
<1>1. s = 1 <=> s - 1 = 0
  OBVIOUS
<1>2. BeginOf(ends, s) = IF s = 1 THEN 0 ELSE ends[s - 1]
  BY DEF BeginOf
<1>3. Upto(ends, s - 1) = IF s - 1 = 0 THEN 0 ELSE ends[s - 1]
  BY DEF Upto
<1>4. Upto(ends, s) = ends[s]
  BY DEF Upto
<1> QED
  BY <1>1, <1>2, <1>3, <1>4, Zenon

LEMMA UptoAscends ==
  ASSUME NEW l, NEW ends, Shape(l, ends)
  PROVE  /\ \A n \in 0..Len(ends) : Upto(ends, n) \in Nat
         /\ \A n \in 0..Len(ends) : \A m \in 0..n : Upto(ends, m) <= Upto(ends, n)
         /\ \A n \in 0..Len(ends) : Upto(ends, n) <= Len(l)
<1> DEFINE L == Len(ends)
           U(n) == Upto(ends, n)
<1>1. L \in Nat /\ \A s \in 1..L : ends[s] \in Nat
  BY DEF Shape
<1>2. \A n \in 0..L : U(n) \in Nat
  BY <1>1 DEF Upto
<1>3. \A s \in 1..L : U(s - 1) < U(s)
  <2>1. \A s \in 1..L : U(s) = ends[s]
    BY DEF Upto
  <2> QED
    BY <2>1 DEF Shape
<1>4. Len(l) = U(L)
  BY DEF Shape
<1> HIDE DEF L, U
<1> DEFINE Bad == {n \in 0..L : \E m \in 0..n : ~(U(m) <= U(n))}
<1>5. ASSUME Bad # {} PROVE FALSE
  <2>1. Bad \in SUBSET Nat
    BY <1>1
  <2>2. PICK n \in Bad : \A j \in Bad : n <= j
    <3> HIDE DEF Bad
    <3> QED
      BY <1>5, <2>1, SmallestExists
  <2>3. PICK m \in 0..n : ~(U(m) <= U(n))
    OBVIOUS
  <2>4. n \in 0..L
    OBVIOUS
  <2>5. m # n
    BY <1>2, <2>3, <2>4
  <2>6. n - 1 \in 0..L /\ m \in 0..(n - 1) /\ n \in 1..L
    BY <1>1, <2>3, <2>4, <2>5
  <2>7. n - 1 \notin Bad
    <3> HIDE DEF Bad
    <3> QED
      BY <1>1, <2>2, <2>4, <2>6
  <2>8. U(m) <= U(n - 1) /\ U(n - 1) < U(n)
    BY <1>3, <2>6, <2>7
  <2>9. U(m) \in Nat /\ U(n - 1) \in Nat /\ U(n) \in Nat
    <3>1. m \in 0..L
      BY <1>1, <2>4, <2>6
    <3> QED
      BY <1>2, <2>4, <2>6, <3>1
  <2> QED
    BY <2>3, <2>8, <2>9
<1>6. \A n \in 0..L : \A m \in 0..n : U(m) <= U(n)
  BY <1>5
<1>7. \A n \in 0..L : U(n) <= Len(l)
  <2>1. \A n \in 0..L : n \in 0..L /\ L \in 0..L
    BY <1>1
  <2> QED
    BY <1>4, <1>6, <2>1
<1> QED
  BY <1>2, <1>6, <1>7 DEF L, U

\* One stream of the log
LEMMA StreamFacts ==
  ASSUME NEW l, NEW ends, Shape(l, ends), NEW s \in 1..Len(ends)
  PROVE  /\ BeginOf(ends, s) = Upto(ends, s - 1)
         /\ Upto(ends, s - 1) \in Nat /\ ends[s] \in Nat
         /\ Upto(ends, s - 1) < ends[s] /\ ends[s] <= Len(l)
         /\ StreamsOf(l, ends)[s] = SubSeq(l, Upto(ends, s - 1) + 1, ends[s])
         /\ StreamsOf(l, ends)[s] \in NonEmpty
         /\ Len(StreamsOf(l, ends)[s]) = ends[s] - Upto(ends, s - 1)
         /\ \A i \in 1..(ends[s] - Upto(ends, s - 1)) :
               StreamsOf(l, ends)[s][i] = l[Upto(ends, s - 1) + i]
<1> DEFINE b == Upto(ends, s - 1)
           e == ends[s]
           x == SubSeq(l, b + 1, e)
<1>1. s \in Nat \ {0} /\ s - 1 \in 0..Len(ends) /\ s \in 0..Len(ends)
  BY DEF Shape
<1>2. BeginOf(ends, s) = b /\ Upto(ends, s) = e
  BY <1>1, BeginIsUpto
<1>3. b \in Nat /\ e \in Nat /\ e <= Len(l) /\ b < e
  <2>1. Upto(ends, s - 1) \in Nat /\ Upto(ends, s) \in Nat /\ Upto(ends, s) <= Len(l)
    BY <1>1, UptoAscends
  <2>2. Upto(ends, s - 1) < ends[s]
    BY DEF Shape
  <2> QED
    BY <1>2, <2>1, <2>2
<1>4. StreamsOf(l, ends)[s] = x
  BY <1>2 DEF StreamsOf
<1> HIDE DEF b, e
<1>5. l \in Seq(Nat) /\ Len(l) \in Nat
  BY DEF Shape
<1>6. /\ x \in Seq(Nat) /\ Len(x) = e - (b + 1) + 1
      /\ \A i \in 1..(e - (b + 1) + 1) : x[i] = l[(b + 1) + i - 1]
  <2>1. b + 1 \in 1..(Len(l) + 1) /\ e \in ((b + 1) - 1)..Len(l)
    BY <1>3, <1>5
  <2> QED
    BY <1>5, <2>1, MiddleFacts
<1> HIDE DEF x
<1>7. Len(x) = e - b /\ \A i \in 1..(e - b) : x[i] = l[b + i]
  <2>1. e - (b + 1) + 1 = e - b /\ \A i \in 1..(e - b) : (b + 1) + i - 1 = b + i
    BY <1>3
  <2> QED
    BY <1>6, <2>1
<1>8. x \in NonEmpty
  <2>1. Len(x) # 0
    BY <1>3, <1>7
  <2> QED
    BY <1>6, <2>1, NonEmptyLen DEF NonEmpty
<1> QED
  BY <1>2, <1>3, <1>4, <1>7, <1>8 DEF b, e, x

LEMMA StreamsType ==
  ASSUME NEW l, NEW ends, Shape(l, ends)
  PROVE  /\ StreamsOf(l, ends) \in Seq(NonEmpty)
         /\ Len(StreamsOf(l, ends)) = Len(ends) /\ Len(ends) \in Nat
<1> DEFINE n == Len(ends)
           f == StreamsOf(l, ends)
<1>1. n \in Nat
  BY DEF Shape
<1>2. \A s \in 1..n : f[s] \in NonEmpty
  BY StreamFacts
<1>3. f = [s \in 1..n |-> f[s]]
  BY DEF StreamsOf
<1> HIDE DEF n, f
<1>4. f \in [1..n -> NonEmpty]
  BY <1>2, <1>3
<1>5. f \in Seq(NonEmpty) /\ Len(f) = n
  BY <1>1, <1>4
<1> QED
  BY <1>1, <1>5 DEF n, f

\* A new stream at the end of the log
LEMMA LogGrows ==
  ASSUME NEW l, NEW ends, Shape(l, ends), NEW x \in NonEmpty
  PROVE  /\ Shape(l \o x, Append(ends, Len(l) + Len(x)))
         /\ StreamsOf(l \o x, Append(ends, Len(l) + Len(x))) = Append(StreamsOf(l, ends), x)
         /\ \A n \in 0..Len(ends) :
               Upto(Append(ends, Len(l) + Len(x)), n) = Upto(ends, n)
<1> DEFINE m == Len(l) + Len(x)
           l2 == l \o x
           e2 == Append(ends, m)
           L == Len(ends)
<1>1. l \in Seq(Nat) /\ ends \in Seq(Nat) /\ L \in Nat /\ Len(l) \in Nat /\ Len(l) = Upto(ends, L)
  BY DEF Shape
<1>2. x \in Seq(Nat) /\ Len(x) \in Nat /\ Len(x) >= 1
  BY FrameFacts
<1>3. m \in Nat
  BY <1>1, <1>2
<1>4. /\ l2 \in Seq(Nat) /\ Len(l2) = m
      /\ \A i \in 1..Len(l) : l2[i] = l[i]
      /\ \A i \in 1..Len(x) : l2[Len(l) + i] = x[i]
  <2>1. l \in Seq(Nat) /\ x \in Seq(Nat)
    BY <1>1, <1>2
  <2> QED
    BY ONLY <2>1, ConcatFacts
<1> HIDE DEF l2, m
<1>5. /\ e2 \in Seq(Nat) /\ Len(e2) = L + 1
      /\ \A i \in 1..L : e2[i] = ends[i]
      /\ e2[L + 1] = m
  BY <1>1, <1>3, AppendFacts
<1> HIDE DEF e2
<1>6. /\ \A n \in 0..L : Upto(e2, n) = Upto(ends, n)
      /\ Upto(e2, L + 1) = m
  BY <1>1, <1>5 DEF Upto
<1>7. Shape(l2, e2)
  <2>1. ASSUME NEW s \in 1..(L + 1) PROVE Upto(e2, s - 1) < e2[s]
    <3>1. s - 1 \in 0..L
      BY <1>1
    <3>2. Upto(e2, s - 1) = Upto(ends, s - 1)
      BY <1>6, <3>1
    <3>3. CASE s \in 1..L
      <4>1. Upto(ends, s - 1) < ends[s]
        BY <3>3 DEF Shape
      <4> QED
        BY <1>5, <3>2, <3>3, <4>1
    <3>4. CASE s = L + 1
      <4>1. s - 1 = L
        BY <1>1, <3>4
      <4>2. Len(l) < m
        BY <1>1, <1>2 DEF m
      <4> QED
        BY <1>1, <1>5, <3>2, <3>4, <4>1, <4>2
    <3> QED
      BY <1>1, <3>3, <3>4
  <2> QED
    BY <1>4, <1>5, <1>6, <2>1 DEF Shape
<1> DEFINE a == StreamsOf(l, ends)
           c == StreamsOf(l2, e2)
           d == Append(a, x)
<1>8. a \in Seq(NonEmpty) /\ Len(a) = L
  BY StreamsType
<1>9. c \in Seq(NonEmpty) /\ Len(c) = L + 1
  BY <1>5, <1>7, StreamsType
<1>10. ASSUME NEW s \in 1..(L + 1)
       PROVE  /\ c[s] \in Seq(Nat) /\ Len(c[s]) = e2[s] - Upto(e2, s - 1)
              /\ \A i \in 1..(e2[s] - Upto(e2, s - 1)) : c[s][i] = l2[Upto(e2, s - 1) + i]
  <2>1. s \in 1..Len(e2)
    BY <1>5
  <2>2. c[s] \in NonEmpty
    BY <1>7, <2>1, StreamFacts
  <2> QED
    BY <1>7, <2>1, <2>2, StreamFacts DEF NonEmpty
<1>11. ASSUME NEW s \in 1..L
       PROVE  /\ a[s] \in Seq(Nat) /\ Len(a[s]) = ends[s] - Upto(ends, s - 1)
              /\ \A i \in 1..(ends[s] - Upto(ends, s - 1)) : a[s][i] = l[Upto(ends, s - 1) + i]
              /\ Upto(ends, s - 1) \in Nat /\ ends[s] \in Nat /\ ends[s] <= Len(l)
  <2>2. a[s] \in NonEmpty
    BY StreamFacts
  <2> QED
    BY <2>2, StreamFacts DEF NonEmpty
<1> HIDE DEF a, c
<1>12. /\ d \in Seq(NonEmpty) /\ Len(d) = L + 1
       /\ \A i \in 1..L : d[i] = a[i]
       /\ d[L + 1] = x
  BY <1>8, AppendFacts
<1> HIDE DEF d
<1>13. ASSUME NEW s \in 1..(L + 1) PROVE c[s] = d[s]
  <2>0. s - 1 \in 0..L
    BY <1>1
  <2>1. CASE s \in 1..L
    <3> DEFINE b == Upto(ends, s - 1)
               e == ends[s]
               u == c[s]
               v == a[s]
    <3>1. Upto(e2, s - 1) = b /\ e2[s] = e
      BY <1>5, <1>6, <2>0, <2>1
    <3>2. u \in Seq(Nat) /\ Len(u) = e - b /\ \A i \in 1..(e - b) : u[i] = l2[b + i]
      BY <1>10, <3>1
    <3>3. /\ v \in Seq(Nat) /\ Len(v) = e - b /\ \A i \in 1..(e - b) : v[i] = l[b + i]
          /\ b \in Nat /\ e \in Nat /\ e <= Len(l)
      BY <1>11, <2>1
    <3> HIDE DEF b, e, u, v
    <3>4. ASSUME NEW i \in 1..(e - b) PROVE u[i] = v[i]
      <4>0. /\ i \in 1..(e - b) /\ Len(l) \in Nat
            /\ b \in Nat /\ e \in Nat /\ e <= Len(l)
        BY <1>1, <3>3
      <4>1. b + i \in 1..Len(l)
        BY ONLY <4>0
      <4>2. l2[b + i] = l[b + i]
        BY <1>4, <4>1
      <4> QED
        BY <3>2, <3>3, <4>2
    <3>5. u = v
      BY <3>2, <3>3, <3>4, EqualSeqs
    <3> QED
      BY <1>12, <2>1, <3>5 DEF u, v
  <2>2. CASE s = L + 1
    <3> DEFINE u == c[s]
    <3>1. Upto(e2, s - 1) = Len(l) /\ e2[s] = m /\ m - Len(l) = Len(x)
      <4>1. s - 1 = L
        BY <1>1, <2>2
      <4>2. L \in 0..L
        BY <1>1
      <4>3. m - Len(l) = Len(x)
        BY <1>1, <1>2 DEF m
      <4> QED
        BY <1>1, <1>5, <1>6, <2>2, <4>1, <4>2, <4>3
    <3>2. u \in Seq(Nat) /\ Len(u) = Len(x) /\ \A i \in 1..Len(x) : u[i] = l2[Len(l) + i]
      BY <1>10, <3>1
    <3> HIDE DEF u
    <3>3. \A i \in 1..Len(u) : u[i] = x[i]
      BY <1>4, <3>2
    <3>4. u = x
      BY <1>2, <3>2, <3>3, EqualSeqs
    <3> QED
      BY <1>12, <2>2, <3>4 DEF u
  <2> QED
    BY <1>1, <2>1, <2>2
<1>14. c = d
  BY <1>9, <1>12, <1>13, EqualSeqs
<1> QED
  BY <1>6, <1>7, <1>14 DEF l2, e2, m, c, d, a

\* The log without its oldest streams, boundaries rebased
CutLog(l, ends, d) == SubSeq(l, Upto(ends, d) + 1, Len(l))

CutEnds(ends, d) == [s \in 1..(Len(ends) - d) |-> ends[s + d] - Upto(ends, d)]

LEMMA LogCut ==
  ASSUME NEW l, NEW ends, Shape(l, ends), NEW d \in 0..Len(ends)
  PROVE  /\ Shape(CutLog(l, ends, d), CutEnds(ends, d))
         /\ StreamsOf(CutLog(l, ends, d), CutEnds(ends, d))
              = SubSeq(StreamsOf(l, ends), d + 1, Len(ends))
         /\ Len(CutLog(l, ends, d)) = Len(l) - Upto(ends, d)
         /\ Len(CutEnds(ends, d)) = Len(ends) - d
<1> DEFINE L == Len(ends)
           k == L - d
           cut == Upto(ends, d)
           l2 == CutLog(l, ends, d)
           e2 == CutEnds(ends, d)
<1>1. /\ l \in Seq(Nat) /\ ends \in Seq(Nat) /\ L \in Nat /\ Len(l) \in Nat
      /\ Len(l) = Upto(ends, L) /\ d \in Nat /\ d <= L /\ k \in Nat
  BY DEF Shape
<1>2. cut \in Nat /\ cut <= Len(l)
  BY UptoAscends
<1>3. /\ l2 \in Seq(Nat) /\ Len(l2) = Len(l) - cut
      /\ \A i \in 1..(Len(l) - cut) : l2[i] = l[cut + i]
  <2> HIDE DEF cut
  <2>1. cut + 1 \in 1..(Len(l) + 1) /\ Len(l) \in ((cut + 1) - 1)..Len(l)
    BY <1>1, <1>2
  <2>2. l2 = SubSeq(l, cut + 1, Len(l))
    BY DEF CutLog, cut
  <2> HIDE DEF l2
  <2>3. /\ l2 \in Seq(Nat) /\ Len(l2) = Len(l) - (cut + 1) + 1
        /\ \A i \in 1..(Len(l) - (cut + 1) + 1) : l2[i] = l[(cut + 1) + i - 1]
    <3> DEFINE m == cut + 1
               n == Len(l)
    <3>1. l \in Seq(Nat) /\ m \in 1..(Len(l) + 1) /\ n \in (m - 1)..Len(l) /\ l2 = SubSeq(l, m, n)
      BY <1>1, <2>1, <2>2
    <3> HIDE DEF m, n
    <3>2. l2 \in Seq(Nat) /\ Len(l2) = n - m + 1 /\ \A i \in 1..(n - m + 1) : l2[i] = l[m + i - 1]
      BY ONLY <3>1, MiddleFacts
    <3> QED
      BY <3>2 DEF m, n
  <2>4. Len(l) - (cut + 1) + 1 = Len(l) - cut
        /\ \A i \in 1..(Len(l) - cut) : (cut + 1) + i - 1 = cut + i
    BY <1>1, <1>2
  <2> QED
    BY <2>3, <2>4
<1>4. ASSUME NEW n \in 0..k
      PROVE  n + d \in 0..L /\ Upto(ends, n + d) \in Nat /\ cut <= Upto(ends, n + d)
  <2>1. n + d \in 0..L /\ d \in 0..(n + d)
    BY <1>1
  <2> QED
    BY <2>1, UptoAscends
<1>5. /\ \A s \in 1..k : e2[s] = ends[s + d] - cut
      /\ e2 = [s \in 1..k |-> ends[s + d] - cut]
  BY DEF CutEnds
<1>6. ASSUME NEW s \in 1..k PROVE s + d \in 1..L /\ ends[s + d] = Upto(ends, s + d)
  <2>1. s + d \in 1..L /\ s + d # 0
    BY <1>1
  <2> QED
    BY <2>1 DEF Upto
<1> HIDE DEF cut, l2, e2, L, k
<1>7. e2 \in Seq(Nat) /\ Len(e2) = k
  <2>1. ASSUME NEW s \in 1..k PROVE ends[s + d] - cut \in Nat
    <3>1. s \in 0..k
      BY <1>1
    <3>2. ends[s + d] \in Nat /\ cut <= ends[s + d]
      BY <1>4, <1>6, <3>1
    <3> QED
      BY <1>2, <3>2
  <2>2. e2 \in [1..k -> Nat]
    BY <1>5, <2>1
  <2> QED
    BY <1>1, <2>2
<1>8. ASSUME NEW n \in 0..k PROVE Upto(e2, n) = Upto(ends, n + d) - cut
  <2>1. CASE n = 0
    <3>1. n + d = d
      BY <1>1, <2>1
    <3>2. Upto(ends, n + d) = cut
      BY <3>1 DEF cut
    <3>3. Upto(e2, n) = 0
      BY <2>1 DEF Upto
    <3> QED
      BY <1>2, <3>2, <3>3
  <2>2. CASE n # 0
    <3>1. n \in 1..k
      BY <1>1, <2>2
    <3>2. Upto(e2, n) = e2[n]
      BY <2>2 DEF Upto
    <3> QED
      BY <1>5, <1>6, <3>1, <3>2
  <2> QED
    BY <2>1, <2>2
<1>9. Shape(l2, e2)
  <2>1. ASSUME NEW s \in 1..k PROVE Upto(e2, s - 1) < e2[s]
    <3>1. s - 1 \in 0..k /\ s \in 0..k /\ (s - 1) + d = (s + d) - 1
      BY <1>1
    <3>2. Upto(e2, s - 1) = Upto(ends, (s + d) - 1) - cut
      BY <1>8, <3>1
    <3>3. Upto(ends, (s + d) - 1) < ends[s + d]
      BY <1>6 DEF Shape, L
    <3>4. e2[s] = ends[s + d] - cut
      BY <1>5
    <3>5. Upto(ends, (s + d) - 1) \in Nat /\ ends[s + d] \in Nat
      BY <1>4, <1>6, <3>1
    <3> QED
      BY <1>2, <3>2, <3>3, <3>4, <3>5
  <2>2. Len(l2) = Upto(e2, k)
    <3>1. k \in 0..k /\ k + d = L
      BY <1>1 DEF k
    <3>2. Upto(e2, k) = Upto(ends, L) - cut
      BY <1>8, <3>1
    <3> QED
      BY <1>1, <1>3, <3>2
  <2> QED
    BY <1>3, <1>7, <2>1, <2>2 DEF Shape
<1> DEFINE a == StreamsOf(l, ends)
           c == StreamsOf(l2, e2)
           r == SubSeq(a, d + 1, L)
<1>10. a \in Seq(NonEmpty) /\ Len(a) = L
  BY StreamsType DEF L
<1>11. c \in Seq(NonEmpty) /\ Len(c) = k
  BY <1>7, <1>9, StreamsType
<1>12. ASSUME NEW s \in 1..k
       PROVE  /\ c[s] \in Seq(Nat) /\ Len(c[s]) = e2[s] - Upto(e2, s - 1)
              /\ \A i \in 1..(e2[s] - Upto(e2, s - 1)) : c[s][i] = l2[Upto(e2, s - 1) + i]
  <2>1. s \in 1..Len(e2)
    BY <1>7
  <2>2. c[s] \in NonEmpty
    BY <1>9, <2>1, StreamFacts
  <2> QED
    BY <1>9, <2>1, <2>2, StreamFacts DEF NonEmpty
<1>13. ASSUME NEW s \in 1..L
       PROVE  /\ a[s] \in Seq(Nat) /\ Len(a[s]) = ends[s] - Upto(ends, s - 1)
              /\ \A i \in 1..(ends[s] - Upto(ends, s - 1)) : a[s][i] = l[Upto(ends, s - 1) + i]
              /\ Upto(ends, s - 1) \in Nat /\ ends[s] \in Nat /\ ends[s] <= Len(l)
  <2>1. s \in 1..Len(ends)
    BY DEF L
  <2>2. a[s] \in NonEmpty
    BY <2>1, StreamFacts
  <2> QED
    BY <2>1, <2>2, StreamFacts DEF NonEmpty
<1> HIDE DEF a, c
<1>14. r \in Seq(NonEmpty) /\ Len(r) = k /\ \A s \in 1..k : r[s] = a[s + d]
  <2>1. d + 1 \in 1..(Len(a) + 1) /\ L \in ((d + 1) - 1)..Len(a)
    BY <1>1, <1>10
  <2>2. /\ r \in Seq(NonEmpty) /\ Len(r) = L - (d + 1) + 1
        /\ \A s \in 1..(L - (d + 1) + 1) : r[s] = a[(d + 1) + s - 1]
    BY <1>10, <2>1, MiddleFacts
  <2> HIDE DEF r
  <2>3. L - (d + 1) + 1 = k /\ \A s \in 1..k : (d + 1) + s - 1 = s + d
    BY <1>1 DEF k
  <2> QED
    BY <2>2, <2>3
<1> HIDE DEF r
<1>15. ASSUME NEW s \in 1..k PROVE c[s] = r[s]
  <2> DEFINE t == s + d
             b == Upto(ends, t - 1)
             e == ends[t]
             u == c[s]
             v == a[t]
  <2>1. t \in 1..L /\ s - 1 \in 0..k /\ (s - 1) + d = t - 1
    <3>1. s + d \in 1..L
      BY <1>6
    <3>2. s - 1 \in 0..k /\ (s - 1) + d = (s + d) - 1
      BY <1>1
    <3> QED
      BY <3>1, <3>2, Zenon
  <2>2. Upto(e2, s - 1) = b - cut /\ e2[s] = e - cut
    BY <1>5, <1>8, <2>1
  <2>3. /\ v \in Seq(Nat) /\ Len(v) = e - b /\ \A i \in 1..(e - b) : v[i] = l[b + i]
        /\ b \in Nat /\ e \in Nat /\ e <= Len(l)
    BY <1>13, <2>1
  <2>4. /\ u \in Seq(Nat) /\ Len(u) = e2[s] - Upto(e2, s - 1)
        /\ \A i \in 1..(e2[s] - Upto(e2, s - 1)) : u[i] = l2[Upto(e2, s - 1) + i]
    BY <1>12
  <2>5. r[s] = v
    BY <1>14
  <2>6. cut <= b
    BY <1>4, <2>1
  <2> HIDE DEF t, b, e, u, v
  <2>7. e2[s] - Upto(e2, s - 1) = e - b
    BY <1>2, <2>2, <2>3
  <2>8. ASSUME NEW i \in 1..(e - b) PROVE u[i] = v[i]
    <3>1. u[i] = l2[(b - cut) + i]
      BY <2>2, <2>4, <2>7
    <3>2. (b - cut) + i \in 1..(Len(l) - cut) /\ cut + ((b - cut) + i) = b + i
      <4>1. /\ Len(l) \in Nat /\ cut \in Nat /\ b \in Nat /\ e \in Nat
            /\ e <= Len(l) /\ cut <= b /\ i \in 1..(e - b)
        BY <1>1, <1>2, <2>3, <2>6
      <4> QED
        BY ONLY <4>1
    <3>3. l2[(b - cut) + i] = l[b + i]
      BY <1>3, <3>2
    <3> QED
      BY <2>3, <3>1, <3>3
  <2>9. u = v
    BY <2>3, <2>4, <2>7, <2>8, EqualSeqs
  <2> QED
    BY <2>5, <2>9 DEF u
<1>16. c = r
  BY <1>11, <1>14, <1>15, EqualSeqs
<1>17. Len(l2) = Len(l) - Upto(ends, d)
  BY <1>3 DEF cut
<1> QED
  BY <1>7, <1>9, <1>16, <1>17 DEF l2, e2, c, r, a, L, k

\* How many streams evict_oldest() drops
LEMMA DroppedFacts ==
  ASSUME NEW l, NEW ends, Shape(l, ends)
  PROVE  /\ Dropped(l, ends) \in 0..Len(ends)
         /\ Len(l) - Upto(ends, Dropped(l, ends)) <= max_tokens
<1> DEFINE L == Len(ends)
           Left(n) == Len(l) - Upto(ends, n)
           Stop(n) == n = L \/ Left(n) <= max_tokens
           T == {n \in 0..L : Stop(n)}
<1>1. L \in Nat /\ max_tokens \in Nat /\ Len(l) \in Nat
  BY CorpusAssumption DEF Shape
<1>2. \A n \in 0..L : Left(n) \in Int
  <2>1. \A n \in 0..L : Upto(ends, n) \in Nat
    BY UptoAscends
  <2> QED
    BY <1>1, <2>1
<1>3. Left(L) = 0
  BY <1>1 DEF Shape
<1>4. Dropped(l, ends) = CHOOSE d \in 0..L :
        Stop(d) /\ \A n \in 0..(d - 1) : Left(n) > max_tokens
  BY DEF Dropped, Upto
<1> HIDE DEF L, Left
<1>5. T \in SUBSET Nat /\ L \in T
  BY <1>1
<1>6. PICK x \in T : \A y \in T : x <= y
  <2> HIDE DEF T
  <2> QED
    BY <1>5, SmallestExists
<1>7. ASSUME NEW m \in 0..(x - 1) PROVE Left(m) > max_tokens
  <2>1. m \in 0..L /\ ~(x <= m)
    BY <1>1, <1>6
  <2>2. ~Stop(m)
    BY <1>6, <2>1
  <2>3. ~(Left(m) <= max_tokens) /\ Left(m) \in Int
    BY <1>2, <2>1, <2>2
  <2> QED
    BY <1>1, <2>3
<1>8. x \in 0..L /\ Stop(x)
  BY <1>6
<1> DEFINE d == Dropped(l, ends)
<1>9. d \in 0..L /\ Stop(d)
  <2> HIDE DEF Stop, T
  <2>1. \E n \in 0..L : Stop(n) /\ \A m \in 0..(n - 1) : Left(m) > max_tokens
    BY <1>7, <1>8
  <2> QED
    BY <1>4, <2>1, Zenon
<1> HIDE DEF d
<1>10. Left(d) <= max_tokens
  BY <1>1, <1>3, <1>9
<1> QED
  BY <1>9, <1>10 DEF L, Left, d

LEMMA StreamsAreSequences ==
  ASSUME NEW ss \in Seq(NonEmpty)
  PROVE  ss \in Seq(Seq(Nat)) /\ FlattenSeq(ss) \in Seq(Nat) /\ Len(FlattenSeq(ss)) \in Nat
<1>1. Len(ss) \in Nat /\ ss \in [1..Len(ss) -> NonEmpty]
  OBVIOUS
<1>2. ss \in [1..Len(ss) -> Seq(Nat)]
  BY <1>1 DEF NonEmpty
<1>3. ss \in Seq(Seq(Nat))
  <2> DEFINE n == Len(ss)
  <2>1. n \in Nat /\ ss \in [1..n -> Seq(Nat)]
    BY <1>1, <1>2
  <2> HIDE DEF n
  <2> QED
    BY <2>1
<1>4. FlattenSeq(ss) \in Seq(Nat)
  BY <1>3, FlattenType
<1>5. Len(FlattenSeq(ss)) \in Nat
  BY <1>4, NonEmptyLen
<1> QED
  BY <1>3, <1>4, <1>5

LEMMA EndsFacts ==
  ASSUME NEW ss \in Seq(NonEmpty)
  PROVE  /\ EndsOf(ss) \in Seq(Nat) /\ Len(EndsOf(ss)) = Len(ss)
         /\ \A s \in 1..Len(ss) : EndsOf(ss)[s] = Len(FlattenSeq(SubSeq(ss, 1, s)))
<1> DEFINE n == Len(ss)
           e == EndsOf(ss)
<1>1. n \in Nat
  OBVIOUS
<1>2. e = [s \in 1..n |-> Len(FlattenSeq(SubSeq(ss, 1, s)))]
  BY DEF EndsOf
<1>3. ASSUME NEW s \in 1..n PROVE Len(FlattenSeq(SubSeq(ss, 1, s))) \in Nat
  <2>1. s \in 0..Len(ss)
    BY <1>1
  <2>2. SubSeq(ss, 1, s) \in Seq(NonEmpty)
    BY <2>1, SubSeqFacts
  <2> QED
    BY <2>2, StreamsAreSequences
<1> HIDE DEF n, e
<1>4. e \in [1..n -> Nat]
  BY <1>2, <1>3
<1>5. e \in Seq(Nat) /\ Len(e) = n
  BY <1>1, <1>4
<1>6. \A s \in 1..n : e[s] = Len(FlattenSeq(SubSeq(ss, 1, s)))
  BY <1>2
<1> QED
  BY <1>5, <1>6 DEF n, e

LEMMA EndsGrow ==
  ASSUME NEW f \in Seq(NonEmpty), NEW x \in NonEmpty
  PROVE  /\ FlattenSeq(Append(f, x)) = FlattenSeq(f) \o x
         /\ EndsOf(Append(f, x)) = Append(EndsOf(f), Len(FlattenSeq(f)) + Len(x))
<1> DEFINE ss == Append(f, x)
           L == Len(f)
           v == FlattenSeq(f)
           m == Len(v) + Len(x)
           a == EndsOf(f)
           c == EndsOf(ss)
           d == Append(a, m)
<1>1. ss \in Seq(NonEmpty) /\ Len(ss) = L + 1 /\ L \in Nat
  BY AppendFacts
<1>2. x \in Seq(Nat) /\ Len(x) \in Nat
  BY FrameFacts
<1>3. f \in Seq(Seq(Nat)) /\ v \in Seq(Nat) /\ Len(v) \in Nat
  BY StreamsAreSequences
<1>4. FlattenSeq(ss) = v \o x
  BY <1>2, <1>3, FlattenAppend
<1>5. m \in Nat /\ Len(v \o x) = m
  <2> HIDE DEF v
  <2> QED
    BY <1>2, <1>3, ConcatFacts
<1>6. ASSUME NEW s \in 1..L PROVE SubSeq(ss, 1, s) = SubSeq(f, 1, s)
  <2>1. s \in 0..Len(f)
    OBVIOUS
  <2> QED
    BY <2>1, PrefixOfAppend
<1>7. SubSeq(ss, 1, L + 1) = ss
  <2> HIDE DEF ss
  <2>1. SubSeq(ss, 1, Len(ss)) = ss
    BY <1>1, WholePrefix
  <2> QED
    BY <1>1, <2>1
<1> HIDE DEF ss, v, m
<1>8. /\ a \in Seq(Nat) /\ Len(a) = L
      /\ \A s \in 1..L : a[s] = Len(FlattenSeq(SubSeq(f, 1, s)))
  BY EndsFacts
<1>9. /\ c \in Seq(Nat) /\ Len(c) = L + 1
      /\ \A s \in 1..(L + 1) : c[s] = Len(FlattenSeq(SubSeq(ss, 1, s)))
  <2>1. /\ c \in Seq(Nat) /\ Len(c) = Len(ss)
        /\ \A s \in 1..Len(ss) : c[s] = Len(FlattenSeq(SubSeq(ss, 1, s)))
    BY <1>1, EndsFacts
  <2> QED
    BY <1>1, <2>1
<1> HIDE DEF a, c
<1>10. /\ d \in Seq(Nat) /\ Len(d) = L + 1
       /\ (\A i \in 1..L : d[i] = a[i]) /\ d[L + 1] = m
  BY <1>5, <1>8, AppendFacts
<1> HIDE DEF d, L
<1>11. ASSUME NEW s \in 1..(L + 1) PROVE c[s] = d[s]
  <2>1. CASE s \in 1..L
    <3>1. c[s] = Len(FlattenSeq(SubSeq(ss, 1, s)))
      BY <1>9
    <3>2. a[s] = Len(FlattenSeq(SubSeq(f, 1, s))) /\ d[s] = a[s]
      BY <1>8, <1>10, <2>1
    <3>3. SubSeq(ss, 1, s) = SubSeq(f, 1, s)
      BY <1>6, <2>1
    <3> QED
      BY <3>1, <3>2, <3>3, Zenon
  <2>2. CASE s = L + 1
    <3>1. c[s] = Len(FlattenSeq(SubSeq(ss, 1, s))) /\ SubSeq(ss, 1, s) = ss
      BY <1>7, <1>9, <2>2
    <3>2. c[s] = Len(v \o x)
      BY <1>4, <3>1, Zenon
    <3> QED
      BY <1>5, <1>10, <2>2, <3>2, Zenon
  <2> QED
    BY <1>1, <2>1, <2>2
<1>12. c = d
  BY <1>9, <1>10, <1>11, EqualSeqs
<1> QED
  BY <1>4, <1>12, Zenon DEF ss, v, m, c, d, a

\* The log load() builds is made of the streams it read.
LEMMA LogLoaded ==
  \A ss \in Seq(NonEmpty) : /\ Shape(FlattenSeq(ss), EndsOf(ss))
                            /\ StreamsOf(FlattenSeq(ss), EndsOf(ss)) = ss
<1> DEFINE R == Seq(NonEmpty)
           Good(ss) == /\ Shape(FlattenSeq(ss), EndsOf(ss))
                       /\ StreamsOf(FlattenSeq(ss), EndsOf(ss)) = ss
           Bad == {n \in Nat : \E ss \in R : Len(ss) = n /\ ~Good(ss)}
<1>1. ASSUME NEW ss \in R, ss = <<>> PROVE Good(ss)
  <2> DEFINE l == FlattenSeq(ss)
             e == EndsOf(ss)
             c == StreamsOf(l, e)
  <2>1. ss \in Seq(Seq(Nat)) /\ l \in Seq(Nat)
    BY StreamsAreSequences
  <2>2. l = <<>>
    BY <1>1, <2>1, FlattenEmpty, Zenon
  <2>3. e \in Seq(Nat) /\ Len(e) = Len(ss)
    BY EndsFacts
  <2>4. Len(ss) = 0
    BY <1>1
  <2>5. Len(l) = 0
    BY <2>1, <2>2, NonEmptyLen
  <2> HIDE DEF l, e
  <2>6. Shape(l, e)
    BY <2>1, <2>3, <2>4, <2>5 DEF Shape, Upto
  <2>7. c \in R /\ Len(c) = 0
    BY <2>3, <2>4, <2>6, StreamsType
  <2>8. c = ss
    BY <1>1, <2>7, NonEmptyLen
  <2> QED
    BY <2>6, <2>8 DEF l, e
<1>2. ASSUME NEW ss \in R, ss # <<>>, Good(Front(ss)) PROVE Good(ss)
  <2> DEFINE f == Front(ss)
             x == Last(ss)
             v == FlattenSeq(f)
             a == EndsOf(f)
  <2>1. f \in R /\ x \in NonEmpty /\ Append(f, x) = ss
    BY <1>2, FrontFacts, FrontLast
  <2>2. Shape(v, a) /\ StreamsOf(v, a) = f
    BY <1>2
  <2> HIDE DEF f, x
  <2>3. FlattenSeq(ss) = v \o x /\ EndsOf(ss) = Append(a, Len(v) + Len(x))
    BY <2>1, EndsGrow
  <2> HIDE DEF v, a
  <2>4. /\ Shape(v \o x, Append(a, Len(v) + Len(x)))
        /\ StreamsOf(v \o x, Append(a, Len(v) + Len(x))) = Append(StreamsOf(v, a), x)
    BY <2>1, <2>2, LogGrows
  <2> QED
    BY <2>1, <2>2, <2>3, <2>4, Zenon
<1>3. ASSUME Bad # {} PROVE FALSE
  <2>0. Bad \in SUBSET Nat
    OBVIOUS
  <2>1. PICK n \in Bad : \A m \in Bad : n <= m
    <3> HIDE DEF Bad
    <3> QED
      BY <1>3, <2>0, SmallestExists
  <2>2. PICK ss \in R : Len(ss) = n /\ ~Good(ss)
    OBVIOUS
  <2> HIDE DEF Good
  <2>3. ss # <<>>
    BY <1>1, <2>2
  <2>4. Front(ss) \in R /\ Len(Front(ss)) = Len(ss) - 1 /\ Len(ss) >= 1
    BY <2>3, FrontFacts
  <2>5. Len(Front(ss)) \in Nat /\ Len(Front(ss)) \notin Bad
    BY <2>0, <2>1, <2>2, <2>4
  <2>6. Good(Front(ss))
    BY <2>4, <2>5
  <2> QED
    BY <1>2, <2>2, <2>3, <2>6
<1> SUFFICES ASSUME NEW ss \in R PROVE Good(ss)
  OBVIOUS
<1> HIDE DEF Good
<1>4. Len(ss) \in Nat
  OBVIOUS
<1> QED
  BY <1>3, <1>4

-----------------------------------------------------------------------------
(* The index *)

\* Pushing newer sites to a full deque drops the same old ones as
\* pushing everything at once.
LEMMA NewestGrows ==
  ASSUME NEW A \in SUBSET Nat, NEW B \in SUBSET Nat, IsFiniteSet(A), IsFiniteSet(B),
         \A a \in A : \A b \in B : a < b
  PROVE  Newest(Newest(A) \cup B) = Newest(A \cup B)
<1> DEFINE U == A \cup B
           V == Newest(A) \cup B
           Above(S, x) == {r \in S : r >= x}
<1>1. max_sites \in Nat
  BY CorpusAssumption
<1>2. \A S, x : x \in Newest(S) <=> x \in S /\ Cardinality(Above(S, x)) <= max_sites
  BY DEF Newest
<1>3. IsFiniteSet(U) /\ V \subseteq U
  BY <1>2, FS_Union
<1> HIDE DEF Above
<1>4. ASSUME NEW S, IsFiniteSet(S), NEW T \in SUBSET S, Cardinality(S) <= max_sites
      PROVE  Cardinality(T) <= max_sites
  <2>1. Cardinality(S) \in Nat /\ Cardinality(T) \in Nat /\ Cardinality(T) <= Cardinality(S)
    <3>1. IsFiniteSet(T) /\ Cardinality(T) <= Cardinality(S)
      BY <1>4, FS_Subset
    <3> QED
      BY <1>4, <3>1, FS_CardinalityType
  <2> QED
    BY <1>1, <1>4, <2>1
<1>5. ASSUME NEW S \in SUBSET U, NEW x PROVE IsFiniteSet(Above(S, x))
  <2>1. Above(S, x) \in SUBSET U
    BY DEF Above
  <2> QED
    BY <1>3, <2>1, FS_Subset
<1>6. ASSUME NEW x \in Newest(U) PROVE x \in Newest(V)
  <2>1. x \in U /\ Cardinality(Above(U, x)) <= max_sites
    BY <1>2
  <2>2. x \in V
    <3>1. CASE x \in A
      <4>1. Above(A, x) \in SUBSET Above(U, x)
        BY DEF Above
      <4>2. Cardinality(Above(A, x)) <= max_sites
        BY <1>4, <1>5, <2>1, <4>1
      <4> QED
        BY <1>2, <3>1, <4>2
    <3> QED
      BY <2>1, <3>1
  <2>3. Above(V, x) \in SUBSET Above(U, x)
    BY <1>3 DEF Above
  <2>4. Cardinality(Above(V, x)) <= max_sites
    BY <1>4, <1>5, <2>1, <2>3
  <2> QED
    BY <1>2, <2>2, <2>4
<1>7. ASSUME NEW x \in Newest(V) PROVE x \in Newest(U)
  <2>1. x \in V /\ Cardinality(Above(V, x)) <= max_sites
    BY <1>2
  <2>2. ASSUME NEW r \in U, r >= x PROVE r \in V
    <3>1. CASE r \in B
      BY <3>1
    <3>2. CASE r \in A
      <4>1. x \in A
        <5>1. x \in A \/ x \in B
          BY <1>3, <2>1
        <5>2. ASSUME x \in B PROVE FALSE
          <6>1. r < x /\ r \in Nat /\ x \in Nat
            BY <3>2, <5>2
          <6> QED
            BY ONLY <2>2, <6>1
        <5> QED
          BY <5>1, <5>2
      <4>2. x \in Newest(A)
        <5>1. x \notin B
          BY <4>1
        <5> QED
          BY <2>1, <5>1
      <4>3. Above(A, r) \in SUBSET Above(A, x)
        <5>1. \A q \in A : q >= r => q >= x
          <6>1. r \in Nat /\ x \in Nat /\ \A q \in A : q \in Nat
            BY <3>2, <4>1
          <6> QED
            BY ONLY <2>2, <6>1
        <5> QED
          BY <5>1 DEF Above
      <4>4. Cardinality(Above(A, r)) <= max_sites
        <5>1. Cardinality(Above(A, x)) <= max_sites
          BY <1>2, <4>2
        <5>2. IsFiniteSet(Above(A, x))
          BY <1>5
        <5> QED
          BY <1>4, <4>3, <5>1, <5>2
      <4> QED
        BY <1>2, <3>2, <4>4
    <3> QED
      BY <3>1, <3>2
  <2>3. Above(U, x) = Above(V, x)
    BY <1>3, <2>2 DEF Above
  <2> QED
    BY <1>2, <1>3, <2>1, <2>3
<1> QED
  BY <1>6, <1>7

\* Where the n-grams of key k in the first n streams have their successors
SitesUpto(l, ends, n, k) ==
  {site \in 1..Len(l) : \E s \in 1..n : site \in Sites(l, BeginOf(ends, s), ends[s], k)}

LEMMA SiteBounds ==
  ASSUME NEW l, NEW ends, Shape(l, ends), NEW s \in 1..Len(ends), NEW k,
         NEW site
  PROVE  site \in Sites(l, BeginOf(ends, s), ends[s], k) <=>
           /\ site \in 1..Len(l)
           /\ Upto(ends, s - 1) + ngram <= site /\ site < ends[s]
           /\ Hash(SubSeq(l, site - ngram + 1, site)) = k
<1> DEFINE b == Upto(ends, s - 1)
           e == ends[s]
           H == Hash(SubSeq(l, site - ngram + 1, site))
<1>1. BeginOf(ends, s) = b /\ b \in Nat /\ e \in Nat /\ e <= Len(l)
  BY StreamFacts
<1>2. ngram \in Nat /\ ngram >= 1
  BY CorpusAssumption
<1>3. site \in Sites(l, BeginOf(ends, s), ends[s], k) <=> site \in (b + ngram)..(e - 1) /\ H = k
  BY <1>1 DEF Sites
<1>4. Len(l) \in Nat
  BY DEF Shape
<1> HIDE DEF b, e, H
<1>5. site \in (b + ngram)..(e - 1) <=>
        /\ site \in 1..Len(l)
        /\ b + ngram <= site /\ site < e
  BY <1>1, <1>2, <1>4
<1> QED
  BY <1>3, <1>5 DEF b, e, H

LEMMA SitesStep ==
  ASSUME NEW l, NEW ends, Shape(l, ends), NEW n \in 1..Len(ends), NEW k
  PROVE  /\ SitesUpto(l, ends, n, k)
              = SitesUpto(l, ends, n - 1, k) \cup Sites(l, BeginOf(ends, n), ends[n], k)
         /\ SitesUpto(l, ends, n - 1, k) \in SUBSET Nat
         /\ IsFiniteSet(SitesUpto(l, ends, n - 1, k))
         /\ Sites(l, BeginOf(ends, n), ends[n], k) \in SUBSET Nat
         /\ IsFiniteSet(Sites(l, BeginOf(ends, n), ends[n], k))
         /\ \A a \in SitesUpto(l, ends, n - 1, k) :
              \A b \in Sites(l, BeginOf(ends, n), ends[n], k) : a < b
<1> DEFINE L == Len(ends)
           S(s) == Sites(l, BeginOf(ends, s), ends[s], k)
           A == SitesUpto(l, ends, n - 1, k)
           B == S(n)
           C == SitesUpto(l, ends, n, k)
<1>1. L \in Nat /\ Len(l) \in Nat
  BY DEF Shape
<1>2. \A s \in 1..L : \A x \in S(s) : x \in 1..Len(l) /\ Upto(ends, s - 1) + ngram <= x /\ x < ends[s]
  BY SiteBounds
<1>3. /\ A = {x \in 1..Len(l) : \E s \in 1..(n - 1) : x \in S(s)}
      /\ C = {x \in 1..Len(l) : \E s \in 1..n : x \in S(s)}
  BY DEF SitesUpto
<1> HIDE DEF S, A, C
<1>4. n \in 1..L
  OBVIOUS
<1>5. C = A \cup B
  <2>1. ASSUME NEW x \in C PROVE x \in A \cup B
    <3>1. PICK s \in 1..n : x \in S(s)
      BY <1>3
    <3>2. s \in 1..(n - 1) \/ s = n
      BY <1>1, <1>4
    <3> QED
      BY <1>3, <3>1, <3>2
  <2>2. ASSUME NEW x \in A PROVE x \in C
    <3>1. PICK s \in 1..(n - 1) : x \in S(s)
      BY <1>3
    <3>2. s \in 1..n
      BY <1>1, <1>4
    <3> QED
      BY <1>3, <3>1, <3>2
  <2>3. ASSUME NEW x \in B PROVE x \in C
    <3>1. x \in 1..Len(l) /\ n \in 1..n
      BY <1>1, <1>2, <1>4, <2>3
    <3> QED
      BY <1>3, <2>3, <3>1
  <2> QED
    BY <2>1, <2>2, <2>3
<1>6. A \in SUBSET (1..Len(l)) /\ B \in SUBSET (1..Len(l))
  BY <1>2, <1>3, <1>4
<1>7. IsFiniteSet(A) /\ IsFiniteSet(B) /\ A \in SUBSET Nat /\ B \in SUBSET Nat
  <2>1. IsFiniteSet(1..Len(l))
    BY <1>1, FS_Interval
  <2>2. 1..Len(l) \subseteq Nat
    BY <1>1
  <2> HIDE DEF B
  <2> QED
    BY <1>6, <2>1, <2>2, FS_Subset
<1>8. ASSUME NEW a \in A, NEW b \in B PROVE a < b
  <2>1. PICK s \in 1..(n - 1) : a \in S(s)
    BY <1>3
  <2>2. s \in 1..L /\ s \in 0..(n - 1) /\ n - 1 \in 0..L /\ s \in Nat \ {0}
    BY <1>1, <1>4
  <2>3. a < ends[s] /\ Upto(ends, s) = ends[s]
    BY <1>2, <2>1, <2>2, BeginIsUpto
  <2>4. Upto(ends, s) <= Upto(ends, n - 1)
    BY <2>2, UptoAscends
  <2>5. Upto(ends, s) \in Nat /\ Upto(ends, n - 1) \in Nat
    <3>1. s \in 0..L
      BY <2>2
    <3> QED
      BY <2>2, <3>1, UptoAscends
  <2>6. Upto(ends, n - 1) + ngram <= b
    BY <1>2
  <2>7. ngram \in Nat /\ ngram >= 1 /\ a \in Nat /\ b \in Nat
    <3> HIDE DEF B
    <3> QED
      BY <1>7, CorpusAssumption
  <2> HIDE DEF B
  <2> QED
    BY <2>3, <2>4, <2>5, <2>6, <2>7
<1> QED
  BY <1>5, <1>7, <1>8 DEF S, A, C

\* What the index of a log holds
IndexOf(l, ends) == [k \in GramKeys |-> Newest(SitesUpto(l, ends, Len(ends), k))]

LEMMA NoStreamsNoSites ==
  ASSUME NEW l, NEW ends, NEW k
  PROVE  Newest(SitesUpto(l, ends, 0, k)) = {}
<1>1. \A s : s \notin 1..0
  OBVIOUS
<1>2. SitesUpto(l, ends, 0, k) = {}
  BY <1>1 DEF SitesUpto
<1> QED
  BY <1>2 DEF Newest

\* The index that is built stream by stream is the index of the whole log.
LEMMA RebuiltIndex ==
  ASSUME NEW l, NEW ends, Shape(l, ends)
  PROVE  rebuild_index(l, ends) = IndexOf(l, ends)
<1> DEFINE L == Len(ends)
           D == 0..L
           Value(f, s) == IF s = 0 THEN NoSites
                          ELSE index_stream(f[s - 1], l, BeginOf(ends, s), ends[s])
           g == [s \in D |-> [k \in GramKeys |-> Newest(SitesUpto(l, ends, s, k))]]
<1>1. L \in Nat
  BY DEF Shape
<1>2. rebuild_index(l, ends) = (CHOOSE f : f = [s \in D |-> Value(f, s)])[L]
  BY DEF rebuild_index
<1>3. ASSUME NEW f, NEW s \in D, s # 0 => f[s - 1] = g[s - 1] PROVE g[s] = Value(f, s)
  <2>1. CASE s = 0
    <3>1. g[0] = [k \in GramKeys |-> Newest(SitesUpto(l, ends, 0, k))]
      BY <1>1
    <3>2. g[0] = NoSites
      BY <3>1, NoStreamsNoSites DEF NoSites
    <3> QED
      BY <2>1, <3>2
  <2>2. CASE s # 0
    <3>1. s \in 1..Len(ends) /\ s - 1 \in D
      BY <1>1, <2>2
    <3> DEFINE A(k) == SitesUpto(l, ends, s - 1, k)
               B(k) == Sites(l, BeginOf(ends, s), ends[s], k)
    <3>2. \A k : /\ SitesUpto(l, ends, s, k) = A(k) \cup B(k)
                 /\ Newest(Newest(A(k)) \cup B(k)) = Newest(A(k) \cup B(k))
      <4> SUFFICES ASSUME NEW k
                   PROVE  /\ SitesUpto(l, ends, s, k) = A(k) \cup B(k)
                          /\ Newest(Newest(A(k)) \cup B(k)) = Newest(A(k) \cup B(k))
        OBVIOUS
      <4> DEFINE P == A(k)
                 Q == B(k)
      <4>1. /\ SitesUpto(l, ends, s, k) = P \cup Q
            /\ P \in SUBSET Nat /\ Q \in SUBSET Nat
            /\ IsFiniteSet(P) /\ IsFiniteSet(Q)
            /\ \A a \in P : \A b \in Q : a < b
        BY <3>1, SitesStep
      <4> HIDE DEF P, Q
      <4>2. Newest(Newest(P) \cup Q) = Newest(P \cup Q)
        BY <4>1, NewestGrows
      <4> QED
        BY <4>1, <4>2 DEF P, Q
    <3> HIDE DEF A, B
    <3>3. g[s] = [k \in GramKeys |-> Newest(A(k) \cup B(k))]
      BY <3>2
    <3>4. \A k \in GramKeys : g[s - 1][k] = Newest(A(k))
      BY <3>1 DEF A
    <3>5. index_stream(g[s - 1], l, BeginOf(ends, s), ends[s])
            = [k \in GramKeys |-> Newest(g[s - 1][k] \cup B(k))]
      BY DEF index_stream, B
    <3> HIDE DEF g
    <3>6. index_stream(g[s - 1], l, BeginOf(ends, s), ends[s])
            = [k \in GramKeys |-> Newest(Newest(A(k)) \cup B(k))]
      BY <3>4, <3>5
    <3>7. index_stream(g[s - 1], l, BeginOf(ends, s), ends[s]) = g[s]
      BY <3>2, <3>3, <3>6
    <3> QED
      BY <1>3, <2>2, <3>7
  <2> QED
    BY <2>1, <2>2
<1>4. \A s \in D : g[s] = Value(g, s)
  BY <1>3
<1>5. g = [s \in D |-> g[s]]
  OBVIOUS
<1>6. g[L] = IndexOf(l, ends)
  BY <1>1 DEF IndexOf
<1> HIDE DEF g, Value
<1>7. g = [s \in D |-> Value(g, s)]
  BY <1>4, <1>5
<1> DEFINE h == CHOOSE f : f = [s \in D |-> Value(f, s)]
<1>8. h = [s \in D |-> Value(h, s)]
  BY <1>7, Zenon
<1> HIDE DEF h
<1>9. \A s \in D : h[s] = Value(h, s)
  BY <1>8, Zenon
<1> DEFINE Bad == {s \in D : h[s] # g[s]}
<1>10. ASSUME Bad # {} PROVE FALSE
  <2>1. Bad \in SUBSET Nat
    BY <1>1
  <2>2. PICK s \in Bad : \A t \in Bad : s <= t
    <3> HIDE DEF Bad
    <3> QED
      BY <1>10, <2>1, SmallestExists
  <2>3. s \in D /\ h[s] # g[s]
    OBVIOUS
  <2>4. s # 0 => s - 1 \in D /\ ~(s <= s - 1)
    BY <1>1, <2>3
  <2>5. s # 0 => h[s - 1] = g[s - 1]
    BY <2>2, <2>4
  <2> HIDE DEF D
  <2>6. g[s] = Value(h, s)
    BY <1>3, <2>3, <2>5
  <2> QED
    BY <1>9, <2>3, <2>6
<1>11. L \in D
  BY <1>1
<1>12. h[L] = g[L]
  BY <1>10, <1>11
<1> QED
  BY <1>2, <1>6, <1>12 DEF h

\* Appending a stream leaves the sites of the earlier ones alone.
LEMMA SitesKept ==
  ASSUME NEW l, NEW ends, Shape(l, ends), NEW x \in NonEmpty, NEW k
  PROVE  SitesUpto(l \o x, Append(ends, Len(l) + Len(x)), Len(ends), k)
           = SitesUpto(l, ends, Len(ends), k)
<1> DEFINE m == Len(l) + Len(x)
           l2 == l \o x
           e2 == Append(ends, m)
           L == Len(ends)
<1>1. l \in Seq(Nat) /\ ends \in Seq(Nat) /\ L \in Nat /\ Len(l) \in Nat
  BY DEF Shape
<1>2. x \in Seq(Nat) /\ Len(x) \in Nat
  BY FrameFacts
<1>3. Shape(l2, e2) /\ \A n \in 0..L : Upto(e2, n) = Upto(ends, n)
  BY LogGrows
<1>4. /\ l2 \in Seq(Nat) /\ Len(l2) = m /\ m \in Nat /\ Len(l) <= m
      /\ \A i \in 1..Len(l) : l2[i] = l[i]
  <2>1. l \in Seq(Nat) /\ x \in Seq(Nat)
    BY <1>1, <1>2
  <2>2. /\ l2 \in Seq(Nat) /\ Len(l2) = m
        /\ \A i \in 1..Len(l) : l2[i] = l[i]
    BY ONLY <2>1, ConcatFacts
  <2> QED
    BY <1>1, <1>2, <2>2
<1>5. Len(e2) = L + 1 /\ \A i \in 1..L : e2[i] = ends[i]
  <2>1. m \in Nat
    BY <1>1, <1>2
  <2> HIDE DEF m
  <2> QED
    BY <1>1, <2>1, AppendFacts
<1> HIDE DEF m, l2, e2
<1>6. ASSUME NEW j \in Nat \ {0}, NEW i \in (j - 1)..Len(l)
      PROVE  SubSeq(l2, j, i) = SubSeq(l, j, i)
  <2> DEFINE u == SubSeq(l2, j, i)
             v == SubSeq(l, j, i)
  <2>1. /\ j \in 1..(Len(l) + 1) /\ i \in (j - 1)..Len(l)
        /\ j \in 1..(Len(l2) + 1) /\ i \in (j - 1)..Len(l2)
    BY <1>1, <1>4
  <2>2. u \in Seq(Nat) /\ Len(u) = i - j + 1 /\ \A n \in 1..(i - j + 1) : u[n] = l2[j + n - 1]
    BY <1>4, <2>1, MiddleFacts
  <2>3. v \in Seq(Nat) /\ Len(v) = i - j + 1 /\ \A n \in 1..(i - j + 1) : v[n] = l[j + n - 1]
    BY <1>1, <2>1, MiddleFacts
  <2> HIDE DEF u, v
  <2>4. \A n \in 1..(i - j + 1) : j + n - 1 \in 1..Len(l)
    BY <1>1
  <2>5. \A n \in 1..(i - j + 1) : u[n] = v[n]
    BY <1>4, <2>2, <2>3, <2>4
  <2>6. u = v
    BY <2>2, <2>3, <2>5, EqualSeqs
  <2> QED
    BY <2>6 DEF u, v
<1>7. ASSUME NEW s \in 1..L, NEW site
      PROVE  site \in Sites(l2, BeginOf(e2, s), e2[s], k)
               <=> site \in Sites(l, BeginOf(ends, s), ends[s], k)
  <2> DEFINE b == Upto(ends, s - 1)
             e == ends[s]
  <2>1. s \in 1..Len(e2) /\ s \in 1..Len(ends) /\ s - 1 \in 0..L
    BY <1>1, <1>5
  <2>2. Upto(e2, s - 1) = b /\ e2[s] = e
    BY <1>3, <1>5, <2>1
  <2>3. b \in Nat /\ e \in Nat /\ e <= Len(l)
    BY <2>1, StreamFacts
  <2>4. site \in Sites(l2, BeginOf(e2, s), e2[s], k) <=>
           /\ site \in 1..Len(l2)
           /\ b + ngram <= site /\ site < e
           /\ Hash(SubSeq(l2, site - ngram + 1, site)) = k
    <3>1. site \in Sites(l2, BeginOf(e2, s), e2[s], k) <=>
             /\ site \in 1..Len(l2)
             /\ Upto(e2, s - 1) + ngram <= site /\ site < e2[s]
             /\ Hash(SubSeq(l2, site - ngram + 1, site)) = k
      <4>1. Shape(l2, e2) /\ s \in 1..Len(e2)
        BY <1>3, <2>1
      <4> QED
        BY ONLY <4>1, SiteBounds
    <3> HIDE DEF b, e
    <3> QED
      BY ONLY <2>2, <3>1, Zenon
  <2>5. site \in Sites(l, BeginOf(ends, s), ends[s], k) <=>
           /\ site \in 1..Len(l)
           /\ b + ngram <= site /\ site < e
           /\ Hash(SubSeq(l, site - ngram + 1, site)) = k
    BY <2>1, SiteBounds
  <2> HIDE DEF b, e
  <2>6. ngram \in Nat \ {0}
    BY CorpusAssumption
  <2>7. ASSUME site \in Nat, b + ngram <= site, site < e
        PROVE  SubSeq(l2, site - ngram + 1, site) = SubSeq(l, site - ngram + 1, site)
    <3> DEFINE j == site - ngram + 1
    <3>1. j \in Nat \ {0} /\ site \in (j - 1)..Len(l)
      BY <1>1, <2>3, <2>6, <2>7
    <3> HIDE DEF j
    <3>2. SubSeq(l2, j, site) = SubSeq(l, j, site)
      BY <1>6, <3>1
    <3> QED
      BY <3>2 DEF j
  <2>8. b + ngram <= site /\ site < e => (site \in 1..Len(l2) <=> site \in 1..Len(l))
    BY <1>1, <1>4, <2>3
  <2>9. site \in 1..Len(l) => site \in Nat
    BY <1>1
  <2> QED
    BY <2>4, <2>5, <2>7, <2>8, <2>9
<1>8. ASSUME NEW s \in 1..L, NEW site \in Sites(l, BeginOf(ends, s), ends[s], k)
      PROVE  site \in 1..Len(l) /\ site \in 1..Len(l2)
  <2>1. site \in 1..Len(l)
    BY SiteBounds
  <2> QED
    BY <1>1, <1>4, <2>1
<1>9. SitesUpto(l2, e2, L, k) = SitesUpto(l, ends, L, k)
  <2> DEFINE P(site, s) == site \in Sites(l, BeginOf(ends, s), ends[s], k)
             Q(site, s) == site \in Sites(l2, BeginOf(e2, s), e2[s], k)
  <2>1. /\ SitesUpto(l2, e2, L, k) = {site \in 1..Len(l2) : \E s \in 1..L : Q(site, s)}
        /\ SitesUpto(l, ends, L, k) = {site \in 1..Len(l) : \E s \in 1..L : P(site, s)}
    BY DEF SitesUpto
  <2>2. \A s \in 1..L : \A site : (Q(site, s) <=> P(site, s))
                                  /\ (P(site, s) => site \in 1..Len(l) /\ site \in 1..Len(l2))
    BY <1>7, <1>8
  <2> HIDE DEF P, Q, L
  <2> QED
    BY <2>1, <2>2
<1> QED
  BY <1>9 DEF m, l2, e2

\* observe() without an eviction keeps the index that of the log.
LEMMA IndexGrows ==
  ASSUME NEW l, NEW ends, Shape(l, ends), NEW x \in NonEmpty
  PROVE  index_stream(IndexOf(l, ends), l \o x, Len(l), Len(l \o x))
           = IndexOf(l \o x, Append(ends, Len(l) + Len(x)))
<1> DEFINE m == Len(l) + Len(x)
           l2 == l \o x
           e2 == Append(ends, m)
           L == Len(ends)
           n == L + 1
           A(k) == SitesUpto(l, ends, L, k)
           B(k) == Sites(l2, Len(l), Len(l2), k)
<1>1. l \in Seq(Nat) /\ ends \in Seq(Nat) /\ L \in Nat /\ Len(l) \in Nat /\ Len(l) = Upto(ends, L)
  BY DEF Shape
<1>2. x \in Seq(Nat) /\ Len(x) \in Nat
  BY FrameFacts
<1>3. Shape(l2, e2) /\ \A i \in 0..L : Upto(e2, i) = Upto(ends, i)
  BY LogGrows
<1>4. Len(l2) = m /\ m \in Nat
  <2>1. l \in Seq(Nat) /\ x \in Seq(Nat)
    BY <1>1, <1>2
  <2>2. Len(l2) = m
    BY ONLY <2>1, ConcatFacts
  <2> QED
    BY <1>1, <1>2, <2>2
<1>5. \A k : SitesUpto(l2, e2, L, k) = A(k)
  BY SitesKept
<1> HIDE DEF m, l2
<1>6. Len(e2) = n /\ e2[n] = m
  BY <1>1, <1>4, AppendFacts
<1> HIDE DEF e2
<1>7. BeginOf(e2, n) = Len(l) /\ n \in 1..Len(e2) /\ n - 1 = L
  <2>1. n \in Nat \ {0} /\ n - 1 = L /\ L \in 0..L /\ n \in 1..n
    BY <1>1
  <2> HIDE DEF n
  <2>2. BeginOf(e2, n) = Upto(e2, n - 1)
    BY <2>1, BeginIsUpto
  <2> QED
    BY <1>1, <1>3, <1>6, <2>1, <2>2
<1> HIDE DEF n, L, A
<1>8. ASSUME NEW k
      PROVE  Newest(Newest(A(k)) \cup B(k)) = Newest(SitesUpto(l2, e2, Len(e2), k))
  <2> DEFINE P == A(k)
             Q == B(k)
  <2>1. Q = Sites(l2, BeginOf(e2, n), e2[n], k)
    BY <1>4, <1>6, <1>7
  <2>2. P = SitesUpto(l2, e2, n - 1, k)
    BY <1>5, <1>7
  <2>3. /\ SitesUpto(l2, e2, n, k) = P \cup Q
        /\ P \in SUBSET Nat /\ Q \in SUBSET Nat
        /\ IsFiniteSet(P) /\ IsFiniteSet(Q)
        /\ \A a \in P : \A b \in Q : a < b
    <3> HIDE DEF P, Q
    <3> QED
      BY <1>3, <1>7, <2>1, <2>2, SitesStep
  <2> HIDE DEF P, Q
  <2>4. Newest(Newest(P) \cup Q) = Newest(P \cup Q)
    BY <2>3, NewestGrows
  <2> QED
    BY <1>6, <2>3, <2>4 DEF P, Q
<1>9. \A k \in GramKeys : IndexOf(l, ends)[k] = Newest(A(k))
  BY DEF IndexOf, A, L
<1>10. index_stream(IndexOf(l, ends), l2, Len(l), Len(l2))
         = [k \in GramKeys |-> Newest(IndexOf(l, ends)[k] \cup B(k))]
  BY DEF index_stream
<1> HIDE DEF B
<1>11. index_stream(IndexOf(l, ends), l2, Len(l), Len(l2))
         = [k \in GramKeys |-> Newest(Newest(A(k)) \cup B(k))]
  BY <1>9, <1>10
<1>12. index_stream(IndexOf(l, ends), l2, Len(l), Len(l2)) = IndexOf(l2, e2)
  BY <1>8, <1>11 DEF IndexOf
<1> QED
  BY <1>12 DEF l2, e2, m

-----------------------------------------------------------------------------
(* The inductive invariant *)

\* The log is made of whole streams within its budget.
LogShaped ==
  /\ Shape(log, stream_ends) /\ Len(log) <= max_tokens
  /\ flushed_streams \in 0..Len(stream_ends)
  /\ file \in Seq(Nat)
  /\ events \in 0..MaxEvents
  /\ torn \in BOOLEAN
  /\ observed \in SUBSET Streams

\* The index is that of the log as it is now.
IndexCurrent == index = IndexOf(log, stream_ends)

\* Unless a write was cut short, the file is the frames of the flushed streams.
FileFramed == ~torn => file = Frames(SubSeq(StreamsOf(log, stream_ends), 1, flushed_streams))

\* Unless a write was cut short, the log holds nothing that was not observed.
LogObserved == ~torn => \A s \in 1..Len(stream_ends) : StreamsOf(log, stream_ends)[s] \in observed

CorpusInv == LogShaped /\ IndexCurrent /\ FileFramed /\ LogObserved

LEMMA StreamsNonEmpty == ASSUME NEW s \in Streams PROVE s \in NonEmpty
BY CorpusAssumption DEF NonEmpty

\* Every stream of a log that was never torn is one load() reads back.
LEMMA FlushedFit ==
  ASSUME CorpusInv, ~torn, NEW p \in Seq(NonEmpty), Len(p) = flushed_streams,
         \A s \in 1..flushed_streams : p[s] = StreamsOf(log, stream_ends)[s]
  PROVE  p \in Seq(Fitting)
<1>1. /\ flushed_streams \in 0..Len(stream_ends) /\ Len(stream_ends) \in Nat
      /\ observed \in SUBSET Streams
  BY DEF CorpusInv, LogShaped, Shape
<1>2. \A s \in 1..Len(stream_ends) : StreamsOf(log, stream_ends)[s] \in observed
  BY DEF CorpusInv, LogObserved
<1>3. ASSUME NEW s \in 1..Len(p) PROVE p[s] \in Fitting
  <2>1. s \in 1..flushed_streams /\ s \in 1..Len(stream_ends)
    BY <1>1
  <2>2. p[s] \in Streams
    BY <1>1, <1>2, <2>1
  <2> QED
    BY <2>2, StreamsNonEmpty, CorpusAssumption DEF Fitting
<1> HIDE DEF Fitting, NonEmpty
<1> QED
  BY <1>3

LEMMA CorpusInitInv == CorpusInit => CorpusInv
<1> SUFFICES ASSUME CorpusInit PROVE CorpusInv
  OBVIOUS
<1>1. log = <<>> /\ stream_ends = <<>> /\ flushed_streams = 0 /\ file = <<>> /\ events = 0
      /\ observed = {} /\ torn = FALSE
  BY DEF CorpusInit
<1>2. log \in Seq(Nat) /\ stream_ends \in Seq(Nat) /\ Len(log) = 0 /\ Len(stream_ends) = 0
  BY <1>1
<1>3. Shape(log, stream_ends)
  BY <1>2 DEF Shape, Upto
<1>4. LogShaped
  <2>1. 0 \in 0..MaxEvents /\ 0 <= max_tokens
    BY CorpusAssumption
  <2>2. file \in Seq(Nat)
    BY <1>1
  <2>3. Len(log) <= max_tokens /\ flushed_streams \in 0..Len(stream_ends) /\ events \in 0..MaxEvents
    BY <1>1, <1>2, <2>1
  <2>4. torn \in BOOLEAN /\ observed \in SUBSET Streams
    BY <1>1, Zenon
  <2> QED
    BY <1>3, <2>2, <2>3, <2>4, Zenon DEF LogShaped
<1>5. IndexCurrent
  <2>1. \A k : Newest(SitesUpto(log, stream_ends, 0, k)) = {}
    BY NoStreamsNoSites
  <2> QED
    BY <1>2, <2>1 DEF IndexCurrent, IndexOf, CorpusInit, NoSites
<1>6. FileFramed
  <2> DEFINE S == StreamsOf(log, stream_ends)
             p == SubSeq(S, 1, flushed_streams)
  <2>1. S \in Seq(NonEmpty) /\ Len(S) = 0
    BY <1>2, <1>3, StreamsType
  <2> HIDE DEF S
  <2>2. p \in Seq(NonEmpty) /\ Len(p) = 0
    <3>1. flushed_streams \in 0..Len(S) /\ flushed_streams = 0
      BY <1>1, <2>1
    <3> QED
      BY <2>1, <3>1, SubSeqFacts
  <2> HIDE DEF p
  <2>3. Framed(p) \in Seq(Seq(Nat)) /\ Len(Framed(p)) = 0
    BY <2>2, FramedFacts
  <2>4. Framed(p) = <<>>
    BY <2>3, NonEmptyLen
  <2>5. Frames(p) = FlattenSeq(Framed(p))
    BY DEF Frames, Framed
  <2>6. FlattenSeq(Framed(p)) = <<>>
    BY <2>3, <2>4, FlattenEmpty, Zenon
  <2> QED
    BY <1>1, <2>5, <2>6 DEF FileFramed, p, S
<1>7. LogObserved
  BY <1>2 DEF LogObserved
<1> QED
  BY <1>4, <1>5, <1>6, <1>7 DEF CorpusInv

LEMMA AppendedFile ==
  ASSUME NEW before \in Seq(Nat), NEW words \in Seq(Nat), torn \in BOOLEAN,
         AppendTo(before, words)
  PROVE  /\ file' \in Seq(Nat) /\ torn' \in BOOLEAN
         /\ ~torn' => ~torn /\ file' = before \o words
<1>1. CASE file' = before \o words /\ UNCHANGED torn
  BY <1>1, ConcatFacts
<1>2. CASE /\ \E n \in 0..(Len(words) - 1) : file' = before \o SubSeq(words, 1, n)
           /\ torn' = TRUE
  <2>1. PICK n \in 0..(Len(words) - 1) : file' = before \o SubSeq(words, 1, n)
    BY <1>2
  <2>2. n \in 0..Len(words)
    OBVIOUS
  <2> DEFINE p == SubSeq(words, 1, n)
  <2>3. p \in Seq(Nat)
    BY <2>2, SubSeqFacts
  <2> HIDE DEF p
  <2>4. before \o p \in Seq(Nat)
    BY <2>3, ConcatFacts
  <2> QED
    BY <1>2, <2>1, <2>4 DEF p
<1> QED
  BY <1>1, <1>2, Zenon DEF AppendTo

\* What evict_oldest() leaves, in memory and in the file
LEMMA EvictLeaves ==
  ASSUME NEW l, NEW ends, Shape(l, ends), torn \in BOOLEAN, evict_oldest(l, ends)
  PROVE  /\ Shape(log', stream_ends') /\ Len(log') <= max_tokens
         /\ index' = IndexOf(log', stream_ends')
         /\ flushed_streams' = Len(stream_ends') /\ Len(stream_ends') \in Nat
         /\ file' \in Seq(Nat) /\ torn' \in BOOLEAN
         /\ ~torn' => ~torn /\ file' = Frames(SubSeq(StreamsOf(log', stream_ends'), 1, Len(stream_ends')))
         /\ \A s \in 1..Len(stream_ends') : \E t \in 1..Len(ends) :
              StreamsOf(log', stream_ends')[s] = StreamsOf(l, ends)[t]
<1> DEFINE d == Dropped(l, ends)
           l2 == CutLog(l, ends, d)
           e2 == CutEnds(ends, d)
           S == StreamsOf(l, ends)
           T == StreamsOf(l2, e2)
           L == Len(ends)
<1>1. d \in 0..L /\ Len(l) - Upto(ends, d) <= max_tokens /\ L \in Nat
  BY DroppedFacts DEF Shape
<1>2. log' = l2 /\ stream_ends' = e2
  BY DEF evict_oldest, keep_newest, CutLog, CutEnds, Upto
<1> HIDE DEF d
<1>3. Shape(l2, e2) /\ T = SubSeq(S, d + 1, L) /\ Len(l2) <= max_tokens /\ Len(e2) = L - d
  BY <1>1, LogCut
<1>4. index' = rebuild_index(log', stream_ends') /\ flushed_streams' = Len(stream_ends')
      /\ AppendTo(<<>>, Frames(StreamsOf(log', stream_ends')))
  BY DEF evict_oldest
<1> HIDE DEF l2, e2
<1>5. index' = IndexOf(log', stream_ends')
  <2>1. rebuild_index(l2, e2) = IndexOf(l2, e2)
    BY <1>3, RebuiltIndex
  <2> QED
    BY <1>2, <1>4, <2>1
<1>6. T \in Seq(NonEmpty) /\ Len(T) = Len(e2) /\ Len(e2) \in Nat
  BY <1>3, StreamsType
<1>7. S \in Seq(NonEmpty) /\ Len(S) = L
  BY StreamsType
<1> HIDE DEF T, S
<1>8. /\ file' \in Seq(Nat) /\ torn' \in BOOLEAN
      /\ ~torn' => ~torn /\ file' = Frames(T)
  <2> DEFINE w == Frames(T)
             e == <<>>
  <2>1. w \in Seq(Nat)
    BY <1>6, FramesType
  <2>2. e \in Seq(Nat) /\ e \o w = w
    <3> HIDE DEF w
    <3> QED
      BY <2>1, ConcatLaws
  <2>3. AppendTo(e, w)
    BY <1>2, <1>4 DEF T
  <2> HIDE DEF e, w
  <2>4. /\ file' \in Seq(Nat) /\ torn' \in BOOLEAN
        /\ ~torn' => ~torn /\ file' = e \o w
    BY <2>1, <2>2, <2>3, AppendedFile
  <2> QED
    BY <2>2, <2>4 DEF w
<1>9. SubSeq(T, 1, Len(e2)) = T
  <2>1. SubSeq(T, 1, Len(T)) = T
    BY <1>6, WholePrefix
  <2> QED
    BY <1>6, <2>1
<1>10. ASSUME NEW s \in 1..Len(e2) PROVE \E t \in 1..L : T[s] = S[t]
  <2>1. d + 1 \in 1..(Len(S) + 1) /\ L \in ((d + 1) - 1)..Len(S)
    BY <1>1, <1>7
  <2>2. \A i \in 1..(L - (d + 1) + 1) : SubSeq(S, d + 1, L)[i] = S[(d + 1) + i - 1]
    BY <1>7, <2>1, MiddleFacts
  <2>3. s \in 1..(L - (d + 1) + 1) /\ (d + 1) + s - 1 \in 1..L
    BY <1>1, <1>3
  <2> QED
    BY <1>3, <2>2, <2>3
<1> QED
  BY <1>2, <1>3, <1>5, <1>4, <1>6, <1>8, <1>9, <1>10 DEF T, S

LEMMA ObserveInv ==
  ASSUME CorpusInv, NEW x \in Streams, observe(x)
  PROVE  CorpusInv'
<1> DEFINE m == Len(log) + Len(x)
           l == log \o x
           ends == Append(stream_ends, m)
           S == StreamsOf(log, stream_ends)
           T == StreamsOf(l, ends)
           L == Len(stream_ends)
<1>1. /\ Shape(log, stream_ends) /\ flushed_streams \in 0..L
      /\ file \in Seq(Nat) /\ events \in 0..MaxEvents /\ torn \in BOOLEAN
      /\ observed \in SUBSET Streams
  BY DEF CorpusInv, LogShaped
<1>2. x \in NonEmpty
  BY StreamsNonEmpty
<1>3. Shape(l, ends) /\ T = Append(S, x)
  BY <1>1, <1>2, LogGrows
<1>4. /\ events' = events + 1 /\ events < MaxEvents /\ observed' = observed \cup {x}
      /\ IF Len(l) > max_tokens
         THEN evict_oldest(l, ends)
         ELSE /\ log' = l
              /\ stream_ends' = ends
              /\ index' = index_stream(index, l, Len(log), Len(l))
              /\ UNCHANGED <<flushed_streams, file, torn>>
  BY DEF observe, Event
<1>5. events' \in 0..MaxEvents /\ observed' \in SUBSET Streams
  <2>1. events + 1 \in 0..MaxEvents
    BY <1>1, <1>4, CorpusAssumption
  <2> QED
    BY <1>1, <1>4, <2>1
<1>6. S \in Seq(NonEmpty) /\ Len(S) = L /\ L \in Nat
  BY <1>1, StreamsType
<1>7. Len(ends) = L + 1
  <2>1. m \in Nat
    BY <1>1, <1>2, FrameFacts DEF Shape
  <2> HIDE DEF m
  <2> QED
    BY <1>1, <2>1, AppendFacts DEF Shape
<1> HIDE DEF S
<1>8. ~torn => \A t \in 1..(L + 1) : Append(S, x)[t] \in observed'
  <2>1. (\A t \in 1..L : Append(S, x)[t] = S[t]) /\ Append(S, x)[L + 1] = x
    BY <1>2, <1>6, AppendFacts
  <2>2. \A t \in 1..(L + 1) : t \in 1..L \/ t = L + 1
    BY <1>6
  <2>3. ~torn => \A t \in 1..L : S[t] \in observed
    BY DEF CorpusInv, LogObserved, S
  <2> QED
    BY <1>4, <2>1, <2>2, <2>3
<1> HIDE DEF l, ends, T, L
<1>9. CASE Len(l) > max_tokens
  <2>1. evict_oldest(l, ends)
    BY <1>4, <1>9
  <2> DEFINE E == Len(stream_ends')
             V == StreamsOf(log', stream_ends')
  <2>2. /\ Shape(log', stream_ends') /\ Len(log') <= max_tokens
        /\ index' = IndexOf(log', stream_ends')
        /\ flushed_streams' = E /\ E \in Nat
        /\ file' \in Seq(Nat) /\ torn' \in BOOLEAN
        /\ ~torn' => ~torn /\ file' = Frames(SubSeq(V, 1, E))
        /\ \A s \in 1..E : \E t \in 1..Len(ends) : V[s] = T[t]
    <3>1. Shape(l, ends) /\ torn \in BOOLEAN
      BY <1>1, <1>3
    <3> QED
      BY ONLY <2>1, <3>1, EvictLeaves DEF T
  <2>3. LogShaped' /\ IndexCurrent' /\ FileFramed'
    BY <1>5, <2>2 DEF LogShaped, IndexCurrent, FileFramed
  <2>4. LogObserved'
    <3>1. ASSUME ~torn', NEW s \in 1..E PROVE V[s] \in observed'
      <4>1. PICK t \in 1..(L + 1) : V[s] = T[t]
        BY <1>7, <2>2
      <4>2. T[t] \in observed'
        BY <1>3, <1>8, <2>2, <3>1
      <4> QED
        BY <4>1, <4>2
    <3> QED
      BY <3>1 DEF LogObserved
  <2> QED
    BY <2>3, <2>4 DEF CorpusInv
<1>10. CASE ~(Len(l) > max_tokens)
  <2>1. log' = l /\ stream_ends' = ends /\ index' = index_stream(index, l, Len(log), Len(l))
        /\ flushed_streams' = flushed_streams /\ file' = file /\ torn' = torn
    BY <1>4, <1>10
  <2>2. LogShaped'
    <3>1. Len(l) <= max_tokens
      BY <1>3, <1>10, CorpusAssumption DEF Shape
    <3>2. flushed_streams \in 0..Len(ends)
      BY <1>1, <1>6, <1>7
    <3> QED
      BY <1>1, <1>3, <1>5, <2>1, <3>1, <3>2 DEF LogShaped
  <2>3. IndexCurrent'
    <3>1. index = IndexOf(log, stream_ends)
      BY DEF CorpusInv, IndexCurrent
    <3>2. index_stream(IndexOf(log, stream_ends), l, Len(log), Len(l)) = IndexOf(l, ends)
      BY <1>1, <1>2, IndexGrows DEF l, ends
    <3> QED
      BY <2>1, <3>1, <3>2 DEF IndexCurrent
  <2>4. FileFramed'
    <3>1. SubSeq(Append(S, x), 1, flushed_streams) = SubSeq(S, 1, flushed_streams)
      <4>1. flushed_streams \in 0..Len(S)
        BY <1>1, <1>6
      <4> QED
        BY <1>2, <1>6, <4>1, PrefixOfAppend
    <3>2. ~torn => file = Frames(SubSeq(S, 1, flushed_streams))
      BY DEF CorpusInv, FileFramed, S
    <3>3. StreamsOf(log', stream_ends') = Append(S, x)
      BY <1>3, <2>1 DEF T
    <3> QED
      BY <2>1, <3>1, <3>2, <3>3 DEF FileFramed
  <2>5. LogObserved'
    <3>1. StreamsOf(log', stream_ends') = Append(S, x) /\ Len(stream_ends') = L + 1
      BY <1>3, <1>7, <2>1 DEF T
    <3> QED
      BY <1>8, <2>1, <3>1 DEF LogObserved
  <2> QED
    BY <2>2, <2>3, <2>4, <2>5 DEF CorpusInv
<1> QED
  BY <1>9, <1>10

LEMMA FlushInv ==
  ASSUME CorpusInv, flush
  PROVE  CorpusInv'
<1> DEFINE S == StreamsOf(log, stream_ends)
           L == Len(stream_ends)
           f == flushed_streams
           p == SubSeq(S, 1, f)
           r == SubSeq(S, f + 1, L)
           w == Frames(r)
<1>1. /\ Shape(log, stream_ends) /\ f \in 0..L
      /\ file \in Seq(Nat) /\ torn \in BOOLEAN
  BY DEF CorpusInv, LogShaped
<1>2. S \in Seq(NonEmpty) /\ Len(S) = L /\ L \in Nat
  BY <1>1, StreamsType
<1>3. /\ AppendTo(file, w)
      /\ flushed_streams' = L
      /\ UNCHANGED <<log, stream_ends, index, events, observed>>
  BY DEF flush, Unflushed
<1> HIDE DEF S
<1>4. p \in Seq(NonEmpty) /\ r \in Seq(NonEmpty) /\ S = p \o r
  <2>1. f \in 0..Len(S)
    BY <1>1, <1>2
  <2>2. /\ SubSeq(S, 1, f) \in Seq(NonEmpty) /\ SubSeq(S, f + 1, Len(S)) \in Seq(NonEmpty)
        /\ S = SubSeq(S, 1, f) \o SubSeq(S, f + 1, Len(S))
    BY <1>2, <2>1, CutInTwo
  <2> QED
    BY <1>2, <2>2
<1> HIDE DEF p, r
<1>5. w \in Seq(Nat)
  BY <1>4, FramesType
<1>6. Frames(p \o r) = Frames(p) \o w
  BY <1>4, FramesConcat
<1> HIDE DEF w
<1>7. /\ file' \in Seq(Nat) /\ torn' \in BOOLEAN
      /\ ~torn' => ~torn /\ file' = file \o w
  BY <1>1, <1>3, <1>5, AppendedFile
<1>8. ~torn => file = Frames(p)
  BY DEF CorpusInv, FileFramed, p, S
<1>9. ~torn' => ~torn /\ file' = Frames(S)
  BY <1>4, <1>6, <1>7, <1>8, Zenon
<1>10. SubSeq(S, 1, L) = S
  BY <1>2, WholePrefix
<1>11. LogShaped'
  <2>1. L \in 0..L
    BY <1>2
  <2> QED
    BY <1>1, <1>3, <1>7, <2>1 DEF LogShaped, CorpusInv
<1>12. IndexCurrent'
  BY <1>3 DEF CorpusInv, IndexCurrent
<1>13. FileFramed'
  <2>1. SubSeq(StreamsOf(log', stream_ends'), 1, flushed_streams') = S
    BY <1>3, <1>10 DEF S
  <2> QED
    BY <1>9, <2>1 DEF FileFramed
<1>14. LogObserved'
  BY <1>3, <1>9 DEF CorpusInv, LogObserved
<1> QED
  BY <1>11, <1>12, <1>13, <1>14 DEF CorpusInv

LEMMA ReopenInv ==
  ASSUME CorpusInv, Reopen
  PROVE  CorpusInv'
<1> DEFINE S == StreamsOf(log, stream_ends)
           L == Len(stream_ends)
           f == flushed_streams
           p == SubSeq(S, 1, f)
           q == Parsed[file]
           l == FlattenSeq(q)
           ends == EndsOf(q)
<1>1. /\ Shape(log, stream_ends) /\ f \in 0..L
      /\ file \in Seq(Nat) /\ events \in 0..MaxEvents /\ torn \in BOOLEAN
      /\ observed \in SUBSET Streams
  BY DEF CorpusInv, LogShaped
<1>2. S \in Seq(NonEmpty) /\ Len(S) = L /\ L \in Nat
  BY <1>1, StreamsType
<1>3. /\ events' = events + 1 /\ events < MaxEvents /\ observed' = observed
      /\ IF Len(l) > max_tokens
         THEN evict_oldest(l, ends)
         ELSE /\ log' = l
              /\ stream_ends' = ends
              /\ index' = rebuild_index(l, ends)
              /\ flushed_streams' = Len(q)
              /\ UNCHANGED <<file, torn>>
  BY DEF Reopen, load, Event
<1>4. events' \in 0..MaxEvents
  <2>1. events + 1 \in 0..MaxEvents
    BY <1>1, <1>3, CorpusAssumption
  <2> QED
    BY <1>3, <2>1
<1>5. q \in Seq(NonEmpty)
  BY <1>1, ParsedType
<1> HIDE DEF S
<1>6. p \in Seq(NonEmpty) /\ Len(p) = f /\ \A s \in 1..f : p[s] = S[s]
  <2>1. f \in 0..Len(S)
    BY <1>1, <1>2
  <2> QED
    BY <1>2, <2>1, SubSeqFacts
<1>7. ~torn => file = Frames(p)
  BY DEF CorpusInv, FileFramed, S
<1> HIDE DEF p
<1>8. ~torn => q = p
  <2> SUFFICES ASSUME ~torn PROVE q = p
    OBVIOUS
  <2>1. p \in Seq(Fitting)
    BY <1>6, FlushedFit DEF S
  <2>2. Parsed[Frames(p)] = p
    BY <2>1, ParsedFrames
  <2> QED
    BY <1>7, <2>2
<1>9. ~torn => \A s \in 1..Len(q) : q[s] \in observed
  <2>1. ~torn => \A s \in 1..L : S[s] \in observed
    BY DEF CorpusInv, LogObserved, S
  <2>2. \A s \in 1..f : s \in 1..L
    BY <1>1, <1>2
  <2> HIDE DEF q
  <2> QED
    BY <1>6, <1>8, <2>1, <2>2
<1> HIDE DEF q
<1>10. Shape(l, ends) /\ StreamsOf(l, ends) = q
  BY <1>5, LogLoaded
<1>11. Len(ends) = Len(q) /\ Len(q) \in Nat
  BY <1>5, EndsFacts
<1> HIDE DEF l, ends
<1>12. CASE Len(l) > max_tokens
  <2>1. evict_oldest(l, ends)
    BY <1>3, <1>12
  <2> DEFINE E == Len(stream_ends')
             V == StreamsOf(log', stream_ends')
  <2>2. /\ Shape(log', stream_ends') /\ Len(log') <= max_tokens
        /\ index' = IndexOf(log', stream_ends')
        /\ flushed_streams' = E /\ E \in Nat
        /\ file' \in Seq(Nat) /\ torn' \in BOOLEAN
        /\ ~torn' => ~torn /\ file' = Frames(SubSeq(V, 1, E))
        /\ \A s \in 1..E : \E t \in 1..Len(ends) : V[s] = StreamsOf(l, ends)[t]
    <3>1. Shape(l, ends) /\ torn \in BOOLEAN
      BY <1>1, <1>10
    <3> QED
      BY ONLY <2>1, <3>1, EvictLeaves
  <2>3. LogShaped' /\ IndexCurrent' /\ FileFramed'
    BY <1>1, <1>3, <1>4, <2>2 DEF LogShaped, IndexCurrent, FileFramed
  <2>4. LogObserved'
    <3>1. ASSUME ~torn', NEW s \in 1..E PROVE V[s] \in observed'
      <4>1. PICK t \in 1..Len(q) : V[s] = q[t]
        BY <1>10, <1>11, <2>2
      <4>2. q[t] \in observed'
        BY <1>3, <1>9, <2>2, <3>1
      <4> QED
        BY <4>1, <4>2
    <3> QED
      BY <3>1 DEF LogObserved
  <2> QED
    BY <2>3, <2>4 DEF CorpusInv
<1>13. CASE ~(Len(l) > max_tokens)
  <2>1. log' = l /\ stream_ends' = ends /\ index' = rebuild_index(l, ends)
        /\ flushed_streams' = Len(q) /\ file' = file /\ torn' = torn
    BY <1>3, <1>13
  <2>2. LogShaped'
    <3>1. Len(l) <= max_tokens
      BY <1>10, <1>13, CorpusAssumption DEF Shape
    <3>2. Len(q) \in 0..Len(ends)
      BY <1>11
    <3> QED
      BY <1>1, <1>3, <1>4, <1>10, <2>1, <3>1, <3>2 DEF LogShaped
  <2>3. IndexCurrent'
    <3>1. rebuild_index(l, ends) = IndexOf(l, ends)
      BY <1>10, RebuiltIndex
    <3> QED
      BY <2>1, <3>1 DEF IndexCurrent
  <2>4. FileFramed'
    <3>1. SubSeq(q, 1, Len(q)) = q
      BY <1>5, WholePrefix
    <3> QED
      BY <1>7, <1>8, <1>10, <2>1, <3>1 DEF FileFramed
  <2>5. LogObserved'
    BY <1>3, <1>9, <1>10, <1>11, <2>1 DEF LogObserved
  <2> QED
    BY <2>2, <2>3, <2>4, <2>5 DEF CorpusInv
<1> QED
  BY <1>12, <1>13

LEMMA CorpusNextInv == CorpusInv /\ [CorpusNext]_corpusVars => CorpusInv'
<1> SUFFICES ASSUME CorpusInv, [CorpusNext]_corpusVars PROVE CorpusInv'
  OBVIOUS
<1>1. ASSUME NEW s \in Streams, observe(s) PROVE CorpusInv'
  BY <1>1, ObserveInv
<1>2. CASE flush
  BY <1>2, FlushInv
<1>3. CASE Reopen
  BY <1>3, ReopenInv
<1>4. CASE UNCHANGED corpusVars
  BY <1>4 DEF CorpusInv, LogShaped, IndexCurrent, FileFramed, LogObserved, corpusVars
<1> QED
  BY <1>1, <1>2, <1>3, <1>4 DEF CorpusNext, Quiet

\* The invariant holds through observe(), flush(), evictions and restarts.
LEMMA CorpusInvariant == CorpusSpec => []CorpusInv
BY CorpusInitInv, CorpusNextInv, PTL DEF CorpusSpec

\* What flush(), evict_oldest() and load() count as flushed is what load()
\* would read back from the file, until a write is cut short: for any streams
\* and whenever the process dies between two operations.
THEOREM FileCorrect == CorpusSpec => []FileHoldsFlushed
<1>1. CorpusInv => FileHoldsFlushed
  <2> SUFFICES ASSUME CorpusInv, ~torn
               PROVE  Parsed[file] = SubSeq(StreamsOf(log, stream_ends), 1, flushed_streams)
    BY DEF FileHoldsFlushed
  <2> DEFINE S == StreamsOf(log, stream_ends)
             p == SubSeq(S, 1, flushed_streams)
  <2>1. S \in Seq(NonEmpty) /\ Len(S) = Len(stream_ends)
    BY StreamsType DEF CorpusInv, LogShaped
  <2>2. flushed_streams \in 0..Len(S) /\ file = Frames(p)
    BY <2>1 DEF CorpusInv, LogShaped, FileFramed
  <2> HIDE DEF S
  <2>3. /\ p \in Seq(NonEmpty) /\ Len(p) = flushed_streams
        /\ \A s \in 1..flushed_streams : p[s] = S[s]
    BY <2>1, <2>2, SubSeqFacts
  <2> HIDE DEF p
  <2>4. p \in Seq(Fitting)
    BY <2>3, FlushedFit DEF S
  <2> QED
    BY <2>2, <2>4, ParsedFrames DEF p, S
<1> QED
  BY <1>1, CorpusInvariant, PTL

LEMMA TypeFromInv == CorpusInv => CorpusTypeOK
<1> SUFFICES ASSUME CorpusInv PROVE CorpusTypeOK
  OBVIOUS
<1> DEFINE L == Len(stream_ends)
<1>1. LogShaped /\ Shape(log, stream_ends) /\ Len(log) <= max_tokens
  BY DEF CorpusInv, LogShaped
<1>2. /\ log \in Seq(Nat) /\ stream_ends \in Seq(Nat) /\ L \in Nat /\ Len(log) \in Nat
      /\ Len(log) = Upto(stream_ends, L)
  BY <1>1 DEF Shape
<1>3. ASSUME NEW s \in 1..L
      PROVE  stream_ends[s] \in 1..Len(log) /\ BeginOf(stream_ends, s) < stream_ends[s]
  <2> DEFINE b == Upto(stream_ends, s - 1)
             e == stream_ends[s]
  <2>1. BeginOf(stream_ends, s) = b /\ b \in Nat /\ e \in Nat /\ b < e /\ e <= Len(log)
    BY <1>1, StreamFacts
  <2> HIDE DEF b, e
  <2>2. e \in 1..Len(log) /\ BeginOf(stream_ends, s) < e
    BY <1>2, <2>1
  <2> QED
    BY <2>2 DEF e
<1>4. stream_ends \in Seq(1..Len(log))
  <2> DEFINE R == 1..Len(log)
  <2>1. stream_ends \in [1..L -> R]
    BY <1>2, <1>3
  <2>2. L \in Nat
    BY <1>2
  <2> HIDE DEF L, R
  <2>3. stream_ends \in Seq(R)
    BY <2>1, <2>2
  <2> QED
    BY <2>3 DEF R
<1>5. Len(log) = (IF stream_ends = <<>> THEN 0 ELSE Last(stream_ends))
  <2>1. stream_ends = <<>> <=> L = 0
    BY <1>2, NonEmptyLen
  <2>2. Last(stream_ends) = stream_ends[L]
    BY DEF Last
  <2>3. Len(log) = IF L = 0 THEN 0 ELSE stream_ends[L]
    BY <1>2 DEF Upto
  <2> QED
    BY <2>1, <2>2, <2>3, Zenon
<1>6. index \in [GramKeys -> SUBSET (1..max_tokens)]
  <2>1. index = [k \in GramKeys |-> Newest(SitesUpto(log, stream_ends, Len(stream_ends), k))]
    BY DEF CorpusInv, IndexCurrent, IndexOf
  <2>2. 1..Len(log) \subseteq 1..max_tokens
    BY <1>1, <1>2, CorpusAssumption
  <2>3. \A k : Newest(SitesUpto(log, stream_ends, Len(stream_ends), k)) \subseteq 1..max_tokens
    BY <2>2 DEF Newest, SitesUpto
  <2> QED
    BY <2>1, <2>3
<1>7. \A s \in 1..L : BeginOf(stream_ends, s) < stream_ends[s]
  BY <1>3
<1> QED
  BY <1>1, <1>2, <1>4, <1>5, <1>6, <1>7 DEF CorpusTypeOK, LogShaped

\* The boundaries ascend and cover the log, the log stays within
\* max_log_bytes and every indexed site inside it, also over a torn file.
THEOREM CorpusTypeCorrect == CorpusSpec => []CorpusTypeOK
BY CorpusInvariant, TypeFromInv, PTL

-----------------------------------------------------------------------------
(* Drafts *)

\* stream_end_for() finds the end of the stream the offset is in.
LEMMA EndFound ==
  ASSUME Shape(log, stream_ends), NEW s \in 1..Len(stream_ends), NEW o \in Nat,
         Upto(stream_ends, s - 1) <= o, o < stream_ends[s]
  PROVE  stream_end_for(o) = stream_ends[s]
<1> DEFINE L == Len(stream_ends)
           after == {t \in 1..L : stream_ends[t] > o}
           c == CHOOSE t \in after : \A u \in after : t <= u
<1>1. L \in Nat /\ \A t \in 1..L : stream_ends[t] \in Nat
  BY DEF Shape
<1>2. s \in after
  BY <1>1
<1>3. ASSUME NEW t \in after PROVE s <= t
  <2>1. SUFFICES ASSUME ~(s <= t) PROVE FALSE
    OBVIOUS
  <2>2. t \in 1..L /\ stream_ends[t] > o
    OBVIOUS
  <2>3. t \in 0..(s - 1) /\ s - 1 \in 0..L /\ t \in Nat \ {0} /\ t \in 0..L
    BY <1>1, <2>1, <2>2
  <2>4. Upto(stream_ends, t) <= Upto(stream_ends, s - 1)
    BY <2>3, UptoAscends
  <2>5. Upto(stream_ends, t) = stream_ends[t]
    BY <2>3, BeginIsUpto
  <2>6. Upto(stream_ends, s - 1) \in Nat /\ stream_ends[t] \in Nat
    BY <1>1, <2>2, <2>3, UptoAscends
  <2> QED
    BY <2>2, <2>4, <2>5, <2>6
<1>4. stream_end_for(o) = stream_ends[c]
  <2>1. after # {}
    BY <1>2
  <2> QED
    BY <2>1 DEF stream_end_for
<1>5. after \subseteq Nat
  BY <1>1
<1> HIDE DEF after
<1>6. c \in after /\ \A u \in after : c <= u
  BY <1>2, <1>3
<1> HIDE DEF c
<1>7. c = s
  BY <1>2, <1>3, <1>5, <1>6
<1> QED
  BY <1>4, <1>7

LEMMA GramHashed ==
  ASSUME CorpusInv, NEW g \in Grams
  PROVE  Hash(g) \in GramKeys
<1>1. PICK s \in observed : \E i \in 1..(Len(s) - ngram + 1) : g = SubSeq(s, i, i + ngram - 1)
  BY DEF Grams
<1>2. s \in Streams
  BY DEF CorpusInv, LogShaped
<1> QED
  BY <1>1, <1>2, CorpusAssumption

\* A site of the index is in one stream of the log and has a successor there.
LEMMA IndexedSite ==
  ASSUME CorpusInv, NEW h \in GramKeys, NEW site \in SitesUpto(log, stream_ends, Len(stream_ends), h)
  PROVE  \E s \in 1..Len(stream_ends) :
           /\ site \in Nat
           /\ Upto(stream_ends, s - 1) + ngram <= site /\ site < stream_ends[s]
           /\ Hash(SubSeq(log, site - ngram + 1, site)) = h
           /\ stream_end_for(site - 1) = stream_ends[s]
<1>1. Shape(log, stream_ends) /\ Len(log) \in Nat
  BY DEF CorpusInv, LogShaped, Shape
<1>2. PICK s \in 1..Len(stream_ends) : site \in Sites(log, BeginOf(stream_ends, s), stream_ends[s], h)
  BY DEF SitesUpto
<1> DEFINE b == Upto(stream_ends, s - 1)
           e == stream_ends[s]
<1>3. /\ site \in 1..Len(log) /\ b + ngram <= site /\ site < e
      /\ Hash(SubSeq(log, site - ngram + 1, site)) = h
  <2>1. Shape(log, stream_ends) /\ s \in 1..Len(stream_ends)
    BY <1>1
  <2>2. site \in Sites(log, BeginOf(stream_ends, s), stream_ends[s], h) <=>
           /\ site \in 1..Len(log)
           /\ Upto(stream_ends, s - 1) + ngram <= site /\ site < stream_ends[s]
           /\ Hash(SubSeq(log, site - ngram + 1, site)) = h
    BY ONLY <2>1, SiteBounds
  <2> QED
    BY <1>2, <2>2, Zenon
<1>4. b \in Nat /\ e \in Nat
  BY <1>1, StreamFacts
<1>5. ngram \in Nat /\ ngram >= 1
  BY CorpusAssumption
<1>6. site - 1 \in Nat /\ b <= site - 1 /\ site - 1 < e /\ site \in Nat
  <2> HIDE DEF b, e
  <2> QED
    BY <1>1, <1>3, <1>4, <1>5
<1>7. stream_end_for(site - 1) = e
  BY <1>1, <1>6, EndFound
<1> QED
  BY <1>3, <1>6, <1>7

\* What draft() returns
LEMMA DraftFacts ==
  ASSUME CorpusInv, NEW g, Hash(g) \in GramKeys, NEW k \in Nat \ {0}
  PROVE  /\ draft(g, k) = <<>> <=>
              \A site \in index[Hash(g)] : SubSeq(log, site - ngram + 1, site) # g
         /\ draft(g, k) # <<>> =>
              \E s \in 1..Len(stream_ends) : \E site \in Nat : \E end \in Nat :
                /\ Upto(stream_ends, s - 1) + ngram <= site
                /\ site < end /\ end <= stream_ends[s]
                /\ SubSeq(log, site - ngram + 1, site) = g
                /\ draft(g, k) = SubSeq(log, site + 1, end)
<1> DEFINE h == Hash(g)
           A == SitesUpto(log, stream_ends, Len(stream_ends), h)
           U == {site \in index[h] : Usable(g, site)}
           c == CHOOSE site \in U : \A r \in U : r <= site
           e == stream_end_for(c - 1)
           z == IF e - c < k THEN e ELSE c + k
<1>1. Shape(log, stream_ends) /\ log \in Seq(Nat) /\ Len(log) \in Nat
  BY DEF CorpusInv, LogShaped, Shape
<1>2. index[h] \subseteq A
  BY DEF CorpusInv, IndexCurrent, IndexOf, Newest
<1>3. A \subseteq 0..Len(log)
  BY <1>1 DEF SitesUpto
<1>4. ASSUME NEW site \in A
      PROVE  \E s \in 1..Len(stream_ends) :
               /\ site \in Nat
               /\ Upto(stream_ends, s - 1) + ngram <= site /\ site < stream_ends[s]
               /\ stream_end_for(site - 1) = stream_ends[s]
  BY IndexedSite
<1>5. draft(g, k) = IF U = {} THEN <<>> ELSE SubSeq(log, c + 1, z)
  BY DEF draft
<1>6. ASSUME NEW site \in index[h]
      PROVE  site \in U <=> SubSeq(log, site - ngram + 1, site) = g
  <2>1. PICK s \in 1..Len(stream_ends) :
               site < stream_ends[s] /\ stream_end_for(site - 1) = stream_ends[s]
    BY <1>2, <1>4
  <2> QED
    BY <2>1 DEF Usable
<1>7. U = {} <=> \A site \in index[h] : SubSeq(log, site - ngram + 1, site) # g
  <2>1. U \subseteq index[h]
    OBVIOUS
  <2> HIDE DEF U, h
  <2> QED
    BY <1>6, <2>1
<1>8. U \subseteq index[h]
  OBVIOUS
<1> HIDE DEF U, A, h
<1>9. ASSUME U # {}
      PROVE  \E s \in 1..Len(stream_ends) :
                /\ c \in Nat /\ z \in Nat
                /\ Upto(stream_ends, s - 1) + ngram <= c
                /\ c < z /\ z <= stream_ends[s]
                /\ SubSeq(log, c - ngram + 1, c) = g
                /\ z <= Len(log)
  <2>1. U \in SUBSET (0..Len(log))
    BY <1>2, <1>3, <1>8
  <2>2. \E site \in U : \A r \in U : r <= site
    BY <1>1, <1>9, <2>1, GreatestExists
  <2>3. c \in U
    BY <2>2
  <2> HIDE DEF c
  <2>4. c \in index[h] /\ c \in A
    BY <1>2, <1>8, <2>3
  <2>5. PICK s \in 1..Len(stream_ends) :
               /\ c \in Nat
               /\ Upto(stream_ends, s - 1) + ngram <= c /\ c < stream_ends[s]
               /\ e = stream_ends[s]
    BY <1>4, <2>4
  <2>6. stream_ends[s] \in Nat /\ stream_ends[s] <= Len(log)
    BY <1>1, StreamFacts
  <2> HIDE DEF e
  <2>7. z \in Nat /\ c < z /\ z <= e
    BY <2>5, <2>6
  <2>8. SubSeq(log, c - ngram + 1, c) = g
    BY <1>6, <2>3, <2>4
  <2> HIDE DEF z
  <2>9. z <= Len(log)
    BY <1>1, <2>5, <2>6, <2>7
  <2> QED
    BY <2>5, <2>7, <2>8, <2>9
<1> HIDE DEF c, z
<1>10. ASSUME U # {} PROVE SubSeq(log, c + 1, z) # <<>>
  <2>1. c \in Nat /\ z \in Nat /\ c < z /\ z <= Len(log)
    BY <1>9, <1>10
  <2>2. c + 1 \in 1..(Len(log) + 1) /\ z \in ((c + 1) - 1)..Len(log)
    BY <1>1, <2>1
  <2> DEFINE q == SubSeq(log, c + 1, z)
  <2>3. q \in Seq(Nat) /\ Len(q) = z - (c + 1) + 1
    BY <1>1, <2>2, MiddleFacts
  <2> HIDE DEF q
  <2>4. Len(q) # 0
    BY <2>1, <2>3
  <2>5. q # <<>>
    BY <2>3, <2>4, NonEmptyLen
  <2> QED
    BY <2>5 DEF q
<1>11. draft(g, k) = <<>> <=> U = {}
  BY <1>5, <1>10
<1>12. ASSUME draft(g, k) # <<>>
       PROVE  \E s \in 1..Len(stream_ends) : \E site \in Nat : \E end \in Nat :
                /\ Upto(stream_ends, s - 1) + ngram <= site
                /\ site < end /\ end <= stream_ends[s]
                /\ SubSeq(log, site - ngram + 1, site) = g
                /\ draft(g, k) = SubSeq(log, site + 1, end)
  <2>1. U # {} /\ draft(g, k) = SubSeq(log, c + 1, z)
    BY <1>5, <1>12
  <2>2. PICK s \in 1..Len(stream_ends) :
                /\ c \in Nat /\ z \in Nat
                /\ Upto(stream_ends, s - 1) + ngram <= c
                /\ c < z /\ z <= stream_ends[s]
                /\ SubSeq(log, c - ngram + 1, c) = g
    BY <1>9, <2>1
  <2> QED
    BY <2>1, <2>2, Zenon
<1> QED
  BY <1>7, <1>11, <1>12 DEF h

\* The tokens of stream s are the same read from the stream and from the log.
SameTokens(l, ends, s) ==
  \A i \in Nat \ {0} : \A j \in (i - 1)..(ends[s] - Upto(ends, s - 1)) :
    SubSeq(StreamsOf(l, ends)[s], i, j) = SubSeq(l, Upto(ends, s - 1) + i, Upto(ends, s - 1) + j)

LEMMA StreamTokens ==
  ASSUME NEW l, NEW ends, Shape(l, ends), NEW s \in 1..Len(ends)
  PROVE  SameTokens(l, ends, s)
<1> SUFFICES ASSUME NEW i \in Nat \ {0}, NEW j \in (i - 1)..(ends[s] - Upto(ends, s - 1))
             PROVE  SubSeq(StreamsOf(l, ends)[s], i, j)
                      = SubSeq(l, Upto(ends, s - 1) + i, Upto(ends, s - 1) + j)
  BY DEF SameTokens
<1> DEFINE b == Upto(ends, s - 1)
           e == ends[s]
           x == StreamsOf(l, ends)[s]
           u == SubSeq(x, i, j)
           v == SubSeq(l, b + i, b + j)
<1>1. /\ b \in Nat /\ e \in Nat /\ b < e /\ e <= Len(l)
      /\ x \in NonEmpty /\ Len(x) = e - b
      /\ \A n \in 1..(e - b) : x[n] = l[b + n]
  BY StreamFacts
<1>2. x \in Seq(Nat) /\ l \in Seq(Nat) /\ Len(l) \in Nat
  BY <1>1 DEF NonEmpty, Shape
<1>3. j \in (i - 1)..(e - b)
  OBVIOUS
<1> HIDE DEF b, e, x
<1>4. i \in 1..(Len(x) + 1) /\ j \in (i - 1)..Len(x)
  BY <1>1, <1>3
<1>5. u \in Seq(Nat) /\ Len(u) = j - i + 1 /\ \A n \in 1..(j - i + 1) : u[n] = x[i + n - 1]
  BY <1>2, <1>4, MiddleFacts
<1> DEFINE p == b + i
           q == b + j
<1>6. /\ p \in 1..(Len(l) + 1) /\ q \in (p - 1)..Len(l) /\ q - p = j - i
      /\ \A n \in 1..(j - i + 1) : i + n - 1 \in 1..(e - b) /\ p + n - 1 = b + (i + n - 1)
  <2>1. /\ Len(l) \in Nat /\ b \in Nat /\ e \in Nat /\ e <= Len(l)
        /\ i \in Nat /\ i >= 1 /\ j \in (i - 1)..(e - b)
    BY <1>1, <1>2, <1>3
  <2>2. p \in 1..(Len(l) + 1) /\ q \in (p - 1)..Len(l) /\ q - p = j - i
    BY ONLY <2>1
  <2>3. \A n \in 1..(j - i + 1) : i + n - 1 \in 1..(e - b) /\ p + n - 1 = b + (i + n - 1)
    BY ONLY <2>1
  <2> QED
    BY <2>2, <2>3
<1> HIDE DEF p, q
<1>7. v \in Seq(Nat) /\ Len(v) = q - p + 1 /\ \A n \in 1..(q - p + 1) : v[n] = l[p + n - 1]
  <2>1. v = SubSeq(l, p, q)
    BY DEF p, q
  <2> HIDE DEF v
  <2>2. l \in Seq(Nat) /\ p \in 1..(Len(l) + 1) /\ q \in (p - 1)..Len(l)
    BY <1>2, <1>6
  <2> QED
    BY ONLY <2>1, <2>2, MiddleFacts
<1> HIDE DEF u, v
<1>8. ASSUME NEW n \in 1..(j - i + 1) PROVE u[n] = v[n]
  <2>1. u[n] = x[i + n - 1]
    BY <1>5
  <2>2. x[i + n - 1] = l[b + (i + n - 1)]
    BY <1>1, <1>6
  <2>3. v[n] = l[p + n - 1]
    BY <1>6, <1>7
  <2> QED
    BY <1>6, <2>1, <2>2, <2>3
<1>9. u = v
  BY <1>5, <1>6, <1>7, <1>8, EqualSeqs
<1> QED
  BY <1>9 DEF u, v, x, b, e

\* A part of a sequence continued
LEMMA Continued ==
  ASSUME NEW S, NEW l \in Seq(S), NEW i \in 1..(Len(l) + 1), NEW j \in (i - 1)..Len(l),
         NEW n \in j..Len(l)
  PROVE  SubSeq(l, i, j) \o SubSeq(l, j + 1, n) = SubSeq(l, i, n)
<1> DEFINE a == SubSeq(l, i, j)
           c == SubSeq(l, j + 1, n)
           u == a \o c
           v == SubSeq(l, i, n)
<1>1. a \in Seq(S) /\ Len(a) = j - i + 1 /\ \A t \in 1..(j - i + 1) : a[t] = l[i + t - 1]
  BY MiddleFacts
<1>2. c \in Seq(S) /\ Len(c) = n - j /\ \A t \in 1..(n - j) : c[t] = l[j + t]
  <2>1. j + 1 \in 1..(Len(l) + 1) /\ n \in ((j + 1) - 1)..Len(l)
    OBVIOUS
  <2>2. /\ c \in Seq(S) /\ Len(c) = n - (j + 1) + 1
        /\ \A t \in 1..(n - (j + 1) + 1) : c[t] = l[(j + 1) + t - 1]
    BY <2>1, MiddleFacts
  <2> HIDE DEF c
  <2>3. n - (j + 1) + 1 = n - j /\ \A t \in 1..(n - j) : (j + 1) + t - 1 = j + t
    OBVIOUS
  <2> QED
    BY <2>2, <2>3
<1>3. v \in Seq(S) /\ Len(v) = n - i + 1 /\ \A t \in 1..(n - i + 1) : v[t] = l[i + t - 1]
  <2>1. n \in (i - 1)..Len(l)
    OBVIOUS
  <2> QED
    BY <2>1, MiddleFacts
<1> HIDE DEF a, c, v
<1>4. /\ u \in Seq(S) /\ Len(u) = Len(a) + Len(c)
      /\ \A t \in 1..Len(a) : u[t] = a[t]
      /\ \A t \in 1..Len(c) : u[Len(a) + t] = c[t]
  <2>1. a \in Seq(S) /\ c \in Seq(S)
    BY <1>1, <1>2
  <2> QED
    BY ONLY <2>1, ConcatFacts
<1> HIDE DEF u
<1>5. Len(u) = n - i + 1
  BY <1>1, <1>2, <1>4
<1>6. ASSUME NEW t \in 1..(n - i + 1) PROVE u[t] = v[t]
  <2>1. CASE t \in 1..(j - i + 1)
    <3>1. u[t] = a[t] /\ a[t] = l[i + t - 1]
      BY <1>1, <1>4, <2>1
    <3> QED
      BY <1>3, <3>1
  <2>2. CASE t \notin 1..(j - i + 1)
    <3> DEFINE r == t - (j - i + 1)
    <3>1. r \in 1..(n - j) /\ Len(a) + r = t /\ j + r = i + t - 1
      BY <1>1, <2>2
    <3> HIDE DEF r
    <3>2. u[Len(a) + r] = c[r]
      BY <1>2, <1>4, <3>1
    <3>3. c[r] = l[j + r]
      BY <1>2, <3>1
    <3> QED
      BY <1>3, <3>1, <3>2, <3>3
  <2> QED
    BY <2>1, <2>2
<1>7. u = v
  BY <1>3, <1>4, <1>5, <1>6, EqualSeqs
<1> QED
  BY <1>7 DEF u, v, a, c

LEMMA DraftInHistory ==
  ASSUME CorpusInv, ~torn, NEW g \in Grams, NEW k \in Nat \ {0}, draft(g, k) # <<>>
  PROVE  \E s \in observed : \E i \in 0..Len(s) :
           IsPrefix(g \o draft(g, k), SubSeq(s, i + 1, Len(s)))
<1> DEFINE ends == stream_ends
           d == draft(g, k)
<1>1. Shape(log, ends) /\ log \in Seq(Nat) /\ Len(log) \in Nat
  BY DEF CorpusInv, LogShaped, Shape
<1>2. Hash(g) \in GramKeys
  BY GramHashed
<1>3. PICK s \in 1..Len(ends) : \E site \in Nat : \E end \in Nat :
                /\ Upto(ends, s - 1) + ngram <= site
                /\ site < end /\ end <= ends[s]
                /\ SubSeq(log, site - ngram + 1, site) = g
                /\ d = SubSeq(log, site + 1, end)
  BY <1>2, DraftFacts
<1>4. PICK site \in Nat : \E end \in Nat :
                /\ Upto(ends, s - 1) + ngram <= site
                /\ site < end /\ end <= ends[s]
                /\ SubSeq(log, site - ngram + 1, site) = g
                /\ d = SubSeq(log, site + 1, end)
  BY <1>3
<1>5. PICK end \in Nat :
                /\ Upto(ends, s - 1) + ngram <= site
                /\ site < end /\ end <= ends[s]
                /\ SubSeq(log, site - ngram + 1, site) = g
                /\ d = SubSeq(log, site + 1, end)
  BY <1>4
<1> DEFINE b == Upto(ends, s - 1)
           e == ends[s]
           x == StreamsOf(log, ends)[s]
           i == site - ngram - b
           y == SubSeq(x, i + 1, Len(x))
           u == SubSeq(y, end - site + ngram + 1, Len(y))
           w == g \o d
           p == site - ngram + 1
<1>6. /\ b \in Nat /\ e \in Nat /\ b < e /\ e <= Len(log)
      /\ x \in NonEmpty /\ Len(x) = e - b
  BY <1>1, StreamFacts
<1>7. ngram \in Nat /\ ngram >= 1
  BY CorpusAssumption
<1>8. b + ngram <= site /\ site < end /\ end <= e
  BY <1>5
<1>9. x \in observed
  BY DEF CorpusInv, LogObserved
<1>10. x \in Seq(Nat)
  BY <1>6 DEF NonEmpty
<1>11. \A m \in Nat \ {0} : \A n \in (m - 1)..(e - b) :
         SubSeq(x, m, n) = SubSeq(log, b + m, b + n)
  <2>1. SameTokens(log, ends, s)
    BY <1>1, StreamTokens
  <2> QED
    BY <2>1, Zenon DEF SameTokens
<1> HIDE DEF d, b, e, x
<1>12. /\ p \in 1..(Len(log) + 1) /\ site \in (p - 1)..Len(log) /\ end \in site..Len(log)
       /\ e \in end..Len(log) /\ end \in (p - 1)..Len(log)
       /\ i + 1 \in Nat \ {0} /\ e - b \in ((i + 1) - 1)..(e - b)
       /\ b + (i + 1) = p /\ b + (e - b) = e /\ i \in 0..Len(x)
  BY <1>1, <1>6, <1>7, <1>8
<1> HIDE DEF p, i
<1>13. w = SubSeq(log, p, end)
  <2>1. g = SubSeq(log, p, site) /\ d = SubSeq(log, site + 1, end)
    BY <1>5 DEF p, d
  <2>2. SubSeq(log, p, site) \o SubSeq(log, site + 1, end) = SubSeq(log, p, end)
    <3>1. /\ log \in Seq(Nat) /\ p \in 1..(Len(log) + 1) /\ site \in (p - 1)..Len(log)
          /\ end \in site..Len(log)
      BY <1>1, <1>12
    <3> QED
      BY ONLY <3>1, Continued
  <2> QED
    BY <2>1, <2>2
<1>14. y = SubSeq(log, p, e)
  <2>1. SubSeq(x, i + 1, e - b) = SubSeq(log, b + (i + 1), b + (e - b))
    BY <1>11, <1>12
  <2> QED
    BY <1>6, <1>12, <2>1
<1>15. w \o SubSeq(log, end + 1, e) = y
  <2>1. SubSeq(log, p, end) \o SubSeq(log, end + 1, e) = SubSeq(log, p, e)
    <3>1. /\ log \in Seq(Nat) /\ p \in 1..(Len(log) + 1) /\ end \in (p - 1)..Len(log)
          /\ e \in end..Len(log)
      BY <1>1, <1>12
    <3> QED
      BY ONLY <3>1, Continued
  <2> QED
    BY <1>13, <1>14, <2>1
<1>16. IsPrefix(w, y)
  <2> DEFINE r == SubSeq(log, end + 1, e)
  <2>1. w \in Seq(Nat)
    <3>1. SubSeq(log, p, end) \in Seq(Nat)
      BY <1>1, <1>12, MiddleFacts
    <3> QED
      BY <1>13, <3>1
  <2>2. y \in Seq(Nat)
    <3>1. e \in (p - 1)..Len(log)
      BY <1>12
    <3>2. SubSeq(log, p, e) \in Seq(Nat)
      BY <1>1, <1>12, <3>1, MiddleFacts
    <3> QED
      BY <1>14, <3>2
  <2>3. r \in Seq(Nat)
    <3>1. end + 1 \in 1..(Len(log) + 1) /\ e \in ((end + 1) - 1)..Len(log)
      BY <1>1, <1>12
    <3> QED
      BY <1>1, <3>1, MiddleFacts
  <2>4. y = w \o r
    BY <1>15
  <2> HIDE DEF w, y, r
  <2> QED
    BY ONLY <2>1, <2>2, <2>3, <2>4, PrefixOfConcat
<1> QED
  BY <1>9, <1>12, <1>16 DEF d

\* What draft() returns really followed the n-gram in one observed stream,
\* for any hash, however it collides, and any history of evictions and
\* restarts, until a write is cut short.
THEOREM DraftsCorrect == CorpusSpec => []DraftsFollowHistory
<1>1. CorpusInv => DraftsFollowHistory
  <2> SUFFICES ASSUME CorpusInv, ~torn, NEW g \in Grams, NEW k \in 1..2, draft(g, k) # <<>>
               PROVE  \E s \in observed : \E i \in 0..Len(s) :
                        IsPrefix(g \o draft(g, k), SubSeq(s, i + 1, Len(s)))
    BY DEF DraftsFollowHistory
  <2>1. k \in Nat \ {0}
    OBVIOUS
  <2> QED
    BY <2>1, DraftInHistory
<1> QED
  BY <1>1, CorpusInvariant, PTL

\* An n-gram of a stream and the site where its successor is in the log
LEMMA SiteOfGram ==
  ASSUME Shape(log, stream_ends), NEW h, NEW at \in Followed(h)
  PROVE  LET site == Upto(stream_ends, at[1] - 1) + at[2] + ngram - 1 IN
         /\ site \in SitesUpto(log, stream_ends, Len(stream_ends), h)
         /\ SubSeq(log, site - ngram + 1, site)
              = SubSeq(StreamsOf(log, stream_ends)[at[1]], at[2], at[2] + ngram - 1)
<1> DEFINE ends == stream_ends
           S == StreamsOf(log, ends)
           s == at[1]
           i == at[2]
           b == Upto(ends, s - 1)
           e == ends[s]
           site == b + i + ngram - 1
           x == S[s]
<1>1. log \in Seq(Nat) /\ Len(log) \in Nat /\ Len(ends) \in Nat
  BY DEF Shape
<1>2. Len(S) = Len(ends)
  BY StreamsType
<1>3. /\ s \in 1..Len(ends) /\ i \in 1..Len(log)
      /\ i + ngram <= Len(x) /\ Hash(SubSeq(x, i, i + ngram - 1)) = h
  BY <1>2 DEF Followed
<1> HIDE DEF s, i, S
<1>4. b \in Nat /\ e \in Nat /\ e <= Len(log) /\ Len(x) = e - b
  BY <1>3, StreamFacts DEF S
<1>5. ngram \in Nat /\ ngram >= 1
  BY CorpusAssumption
<1> HIDE DEF b, e
<1>6. /\ i \in Nat \ {0} /\ i + ngram - 1 \in (i - 1)..(e - b)
      /\ b + i = site - ngram + 1 /\ b + (i + ngram - 1) = site
      /\ site \in 1..Len(log) /\ b + ngram <= site /\ site < e
  BY <1>1, <1>3, <1>4, <1>5
<1> HIDE DEF site
<1>7. SubSeq(x, i, i + ngram - 1) = SubSeq(log, b + i, b + (i + ngram - 1))
  <2> DEFINE j == i + ngram - 1
  <2>1. SameTokens(log, ends, s)
    BY <1>3, StreamTokens
  <2>2. i \in Nat \ {0} /\ j \in (i - 1)..(e - b)
    BY <1>6
  <2> HIDE DEF j
  <2>3. SubSeq(x, i, j) = SubSeq(log, b + i, b + j)
    BY <2>1, <2>2, Zenon DEF SameTokens, x, S, b, e
  <2> QED
    BY <2>3, Zenon DEF j
<1>8. SubSeq(x, i, i + ngram - 1) = SubSeq(log, site - ngram + 1, site)
  BY <1>6, <1>7
<1>9. site \in Sites(log, BeginOf(ends, s), ends[s], h)
  <2>1. site \in Sites(log, BeginOf(ends, s), ends[s], h) <=>
           /\ site \in 1..Len(log)
           /\ Upto(ends, s - 1) + ngram <= site /\ site < ends[s]
           /\ Hash(SubSeq(log, site - ngram + 1, site)) = h
    <3>1. Shape(log, stream_ends) /\ s \in 1..Len(ends)
      BY <1>3
    <3> QED
      BY ONLY <3>1, SiteBounds
  <2>2. Upto(ends, s - 1) + ngram <= site /\ site < ends[s]
    BY <1>6 DEF b, e
  <2> QED
    BY <1>3, <1>6, <1>8, <2>1, <2>2
<1>10. site \in SitesUpto(log, ends, Len(ends), h)
  BY <1>3, <1>6, <1>9 DEF SitesUpto
<1> QED
  BY <1>8, <1>10 DEF site, b, s, i, x, S

\* Every site is that of an n-gram of a stream.
LEMMA GramOfSite ==
  ASSUME Shape(log, stream_ends), NEW h,
         NEW site \in SitesUpto(log, stream_ends, Len(stream_ends), h)
  PROVE  \E at \in Followed(h) : Upto(stream_ends, at[1] - 1) + at[2] + ngram - 1 = site
<1> DEFINE ends == stream_ends
           S == StreamsOf(log, ends)
<1>1. log \in Seq(Nat) /\ Len(log) \in Nat /\ Len(ends) \in Nat
  BY DEF Shape
<1>2. PICK s \in 1..Len(ends) : site \in Sites(log, BeginOf(ends, s), ends[s], h)
  BY DEF SitesUpto
<1> DEFINE b == Upto(ends, s - 1)
           e == ends[s]
           x == S[s]
           i == site - ngram - b + 1
           at == <<s, i>>
<1>3. /\ site \in 1..Len(log) /\ b + ngram <= site /\ site < e
      /\ Hash(SubSeq(log, site - ngram + 1, site)) = h
  <2>1. site \in Sites(log, BeginOf(ends, s), ends[s], h) <=>
           /\ site \in 1..Len(log)
           /\ Upto(ends, s - 1) + ngram <= site /\ site < ends[s]
           /\ Hash(SubSeq(log, site - ngram + 1, site)) = h
    <3>1. Shape(log, stream_ends) /\ s \in 1..Len(ends)
      OBVIOUS
    <3> QED
      BY ONLY <3>1, SiteBounds
  <2> QED
    BY <1>2, <2>1, Zenon
<1>4. b \in Nat /\ e \in Nat /\ e <= Len(log) /\ Len(x) = e - b
  BY StreamFacts
<1>5. ngram \in Nat /\ ngram >= 1
  BY CorpusAssumption
<1>6. Len(S) = Len(ends)
  BY StreamsType
<1> HIDE DEF b, e, x
<1>7. /\ i \in Nat \ {0} /\ i \in 1..Len(log)
      /\ i + ngram - 1 \in (i - 1)..(e - b)
      /\ b + i = site - ngram + 1 /\ b + (i + ngram - 1) = site
      /\ i + ngram <= Len(x) /\ b + i + ngram - 1 = site
  BY <1>1, <1>3, <1>4, <1>5
<1> HIDE DEF i
<1>8. SubSeq(x, i, i + ngram - 1) = SubSeq(log, b + i, b + (i + ngram - 1))
  <2> DEFINE j == i + ngram - 1
  <2>1. SameTokens(log, ends, s)
    BY <1>3, StreamTokens
  <2>2. i \in Nat \ {0} /\ j \in (i - 1)..(e - b)
    BY <1>7
  <2> HIDE DEF j
  <2>3. SubSeq(x, i, j) = SubSeq(log, b + i, b + j)
    BY <2>1, <2>2, Zenon DEF SameTokens, x, S, b, e
  <2> QED
    BY <2>3, Zenon DEF j
<1>9. Hash(SubSeq(x, i, i + ngram - 1)) = h
  BY <1>3, <1>7, <1>8
<1>10. at[1] = s /\ at[2] = i
  OBVIOUS
<1>11. at \in Followed(h)
  <2>1. at \in (1..Len(S)) \X (1..Len(log))
    BY <1>6, <1>7
  <2>2. at[2] + ngram <= Len(S[at[1]]) /\ Hash(SubSeq(S[at[1]], at[2], at[2] + ngram - 1)) = h
    BY <1>7, <1>9, <1>10 DEF x
  <2> HIDE DEF at, S
  <2> QED
    BY <2>1, <2>2 DEF Followed, S
<1>12. Upto(ends, at[1] - 1) + at[2] + ngram - 1 = site
  BY <1>7, <1>10 DEF b
<1> HIDE DEF at
<1> QED
  BY <1>11, <1>12

\* While a hash has no more sites than are kept, the index holds all of them.
LEMMA AllSitesKept ==
  ASSUME CorpusInv, NEW h \in GramKeys, Cardinality(Followed(h)) <= max_sites
  PROVE  index[h] = SitesUpto(log, stream_ends, Len(stream_ends), h)
<1> DEFINE A == SitesUpto(log, stream_ends, Len(stream_ends), h)
           F == Followed(h)
           f == [at \in F |-> Upto(stream_ends, at[1] - 1) + at[2] + ngram - 1]
<1>1. Shape(log, stream_ends) /\ Len(log) \in Nat /\ Len(stream_ends) \in Nat
  BY DEF CorpusInv, LogShaped, Shape
<1>2. \A at \in F : Upto(stream_ends, at[1] - 1) + at[2] + ngram - 1 \in A
  BY <1>1, SiteOfGram
<1>3. \A site \in A : \E at \in F : Upto(stream_ends, at[1] - 1) + at[2] + ngram - 1 = site
  BY <1>1, GramOfSite
<1>4. IsFiniteSet(F)
  <2> DEFINE P == 1..Len(StreamsOf(log, stream_ends))
             Q == 1..Len(log)
  <2>1. IsFiniteSet(P) /\ IsFiniteSet(Q)
    <3>1. Len(StreamsOf(log, stream_ends)) \in Nat
      BY <1>1, StreamsType
    <3> QED
      BY <1>1, <3>1, FS_Interval
  <2>2. F \in SUBSET (P \X Q)
    BY DEF Followed
  <2> HIDE DEF F, P, Q
  <2>3. IsFiniteSet(P \X Q)
    BY <2>1, FS_Product
  <2> QED
    BY <2>2, <2>3, FS_Subset
<1>5. index[h] = Newest(A)
  BY DEF CorpusInv, IndexCurrent, IndexOf
<1> HIDE DEF A, F
<1>6. f \in Surjection(F, A)
  <2>1. f \in [F -> A]
    BY <1>2
  <2>2. \A t \in A : \E at \in F : f[at] = t
    BY <1>3
  <2> HIDE DEF f
  <2> QED
    BY <2>1, <2>2 DEF Surjection
<1> HIDE DEF f
<1>7. IsFiniteSet(A) /\ Cardinality(A) <= Cardinality(F)
  BY <1>4, <1>6, FS_Surjection
<1>8. Cardinality(F) <= max_sites /\ Cardinality(F) \in Nat /\ Cardinality(A) \in Nat /\ max_sites \in Nat
  BY <1>4, <1>7, FS_CardinalityType, CorpusAssumption DEF F
<1>9. ASSUME NEW site \in A PROVE Cardinality({r \in A : r >= site}) <= max_sites
  <2> DEFINE B == {r \in A : r >= site}
  <2>1. B \in SUBSET A
    OBVIOUS
  <2> HIDE DEF B
  <2>2. IsFiniteSet(B) /\ Cardinality(B) <= Cardinality(A)
    BY <1>7, <2>1, FS_Subset
  <2>3. Cardinality(B) \in Nat
    BY <2>2, FS_CardinalityType
  <2>4. Cardinality(B) <= max_sites
    BY <1>7, <1>8, <2>2, <2>3
  <2> QED
    BY <2>4 DEF B
<1>10. Newest(A) = A
  BY <1>9 DEF Newest
<1> QED
  BY <1>5, <1>10 DEF A

\* While a hash has no more sites in the log than max_sites_per_ngram, draft()
\* finds a continuation exactly when the log holds one: index_stream() on top
\* of the old index and rebuild_index() after an eviction agree with the log.
THEOREM DraftsComplete == CorpusSpec => []DraftsFound
<1>1. CorpusInv => DraftsFound
  <2> SUFFICES ASSUME CorpusInv, NEW g \in Grams, Cardinality(Followed(Hash(g))) <= max_sites
               PROVE  draft(g, 1) = <<>> <=>
                        \A at \in Followed(Hash(g)) :
                          SubSeq(StreamsOf(log, stream_ends)[at[1]], at[2], at[2] + ngram - 1) # g
    BY DEF DraftsFound
  <2> DEFINE h == Hash(g)
             A == SitesUpto(log, stream_ends, Len(stream_ends), h)
             F == Followed(h)
             InLog(site) == SubSeq(log, site - ngram + 1, site)
             InStream(at) == SubSeq(StreamsOf(log, stream_ends)[at[1]], at[2], at[2] + ngram - 1)
             Site(at) == Upto(stream_ends, at[1] - 1) + at[2] + ngram - 1
  <2>1. h \in GramKeys
    BY GramHashed
  <2>2. index[h] = A
    BY <2>1, AllSitesKept
  <2>3. draft(g, 1) = <<>> <=> \A site \in index[h] : InLog(site) # g
    <3>1. 1 \in Nat \ {0}
      OBVIOUS
    <3> QED
      BY <2>1, <3>1, DraftFacts
  <2>4. Shape(log, stream_ends)
    BY DEF CorpusInv, LogShaped
  <2>5. \A at \in F : Site(at) \in A /\ InLog(Site(at)) = InStream(at)
    BY <2>4, SiteOfGram
  <2>6. \A site \in A : \E at \in F : Site(at) = site
    BY <2>4, GramOfSite
  <2> HIDE DEF h, A, F, InLog, InStream, Site
  <2>7. draft(g, 1) = <<>> <=> \A at \in F : InStream(at) # g
    BY <2>2, <2>3, <2>5, <2>6
  <2> QED
    BY <2>7 DEF F, InStream, h
<1> QED
  BY <1>1, CorpusInvariant, PTL
=============================================================================
