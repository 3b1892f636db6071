--------------------------- MODULE DiskCacheStore ---------------------------
(***************************************************************************)
(* The LRU byte store on disk (src/cache/disk_cache_store.cpp), through    *)
(* writes and deletions that fail, crashes in the middle of a put() and    *)
(* restarts.                                                               *)
(*                                                                         *)
(* A payload is a value with its size in bytes; a file keeps the key, the  *)
(* value and how many payload bytes reached the disk.  Header and key      *)
(* together take Overhead bytes.  The recency counters and the file times  *)
(* only matter by their order: recency and mtimes are the sets of pairs    *)
(* <<x, y>> with x used, or written, before y.                             *)
(*                                                                         *)
(* Two callers: the ARCA archive hands the bytes out as they are, the      *)
(* KV-snapshot manager verifies a checksum of its own first (checked).     *)
(***************************************************************************)
EXTENDS Naturals, FiniteSetsExt, Totals

CONSTANTS Keys, Values,
          SizeOf,       \* payload bytes of each value
          FileOf,       \* file name (hash) of each key: may collide
          Overhead,     \* kHeaderLen + key.size()
          max_bytes,    \* Config::max_bytes, 0 for no limit
          MaxCrashes    \* bound: crashes in one behaviour

ASSUME StoreAssumption ==
  /\ SizeOf \in [Values -> Nat \ {0}]
  /\ DOMAIN FileOf = Keys
  /\ Overhead \in Nat \ {0}
  /\ max_bytes \in Nat
  /\ MaxCrashes \in Nat

VARIABLES disk,         \* file name -> content, for the files that exist
          mtimes,       \* pairs of files: the first was written before the second
          entries,      \* the index: key -> recorded size
          recency,      \* pairs of indexed keys: the first was used before the second
          total_bytes,
          putting,      \* the put() in progress: <<>> or <<key, value>>
          running,      \* is the process up?
          crashes,
          checked,      \* does the caller verify a checksum?  fixed at the start
          latest,       \* history: <<>> or <<value>> of the newest put() per key
          revived,      \* history: did a dying process leave a file that it had
                        \* dropped from the index and failed to delete?
          answer        \* history: what the last get() returned, <<>> for nullopt

vars == <<disk, mtimes, entries, recency, total_bytes, putting, running, crashes,
          checked, latest, revived, answer>>

indexVars == <<entries, recency, total_bytes>>

Files == {FileOf[k] : k \in Keys}

\* f with x removed from its domain
Without(f, x) == [y \in DOMAIN f \ {x} |-> f[y]]

With(f, x, v) == [y \in DOMAIN f \cup {x} |-> IF y = x THEN v ELSE f[y]]

\* An order without the members of G, and with x moved to its end
Forget(order, G) == {p \in order : p[1] \notin G /\ p[2] \notin G}

Latest(order, S, x) == Forget(order, {x}) \cup {<<y, x>> : y \in S \ {x}}

entry_size(v) == Overhead + SizeOf[v]

Init == /\ disk = <<>> /\ mtimes = {}
        /\ entries = <<>> /\ recency = {} /\ total_bytes = 0
        /\ putting = <<>>
        /\ running = TRUE
        /\ crashes = 0
        /\ checked \in BOOLEAN
        /\ latest = [k \in Keys |-> <<>>]
        /\ revived = FALSE
        /\ answer = <<>>

\* an operation may begin: one thread at a time uses the store
Free == running /\ putting = <<>>

-----------------------------------------------------------------------------
(* remove(): delete the file, whoever wrote it last, and the index entry.  *)

Deleted(gone) == /\ disk' = [f \in DOMAIN disk \ gone |-> disk[f]]
                 /\ mtimes' = Forget(mtimes, gone)

\* Mutant: the byte count is not given back.
RemoveKeepsBytes(k) ==
  IF k \notin DOMAIN entries THEN UNCHANGED <<disk, mtimes, indexVars>>
  ELSE /\ \E gone \in SUBSET {FileOf[k]} : Deleted(gone)
       /\ total_bytes' = total_bytes
       /\ entries' = Without(entries, k)
       /\ recency' = Forget(recency, {k})

\* The error code of fs::remove() is not looked at: the file may stay.
RemoveEntry(k) ==
  IF k \notin DOMAIN entries THEN UNCHANGED <<disk, mtimes, indexVars>>
  ELSE /\ \E gone \in SUBSET {FileOf[k]} : Deleted(gone)
       /\ total_bytes' = total_bytes - entries[k]
       /\ entries' = Without(entries, k)
       /\ recency' = Forget(recency, {k})

\* remove() as its callers use it (DEL)
RemoveKey(k) ==
  /\ Free
  /\ RemoveEntry(k)
  /\ latest' = [latest EXCEPT ![k] = <<>>]
  /\ answer' = <<>>
  /\ UNCHANGED <<putting, running, crashes, checked, revived>>

\* clear(): remove() until the index is empty
Clear ==
  /\ Free
  /\ \E gone \in SUBSET {FileOf[k] : k \in DOMAIN entries} : Deleted(gone)
  /\ entries' = <<>> /\ recency' = {} /\ total_bytes' = 0
  /\ latest' = [k \in Keys |-> <<>>]
  /\ answer' = <<>>
  /\ UNCHANGED <<putting, running, crashes, checked, revived>>

-----------------------------------------------------------------------------
(* put()                                                                   *)

Fits(v) == max_bytes = 0 \/ total_bytes + entry_size(v) <= max_bytes

\* The old entry goes first.  A value larger than the budget is refused
\* before anything changes.
PutBegin(k, v) ==
  /\ Free
  /\ max_bytes = 0 \/ entry_size(v) <= max_bytes
  /\ RemoveEntry(k)
  /\ putting' = <<k, v>>
  /\ latest' = [latest EXCEPT ![k] = <<v>>]
  /\ answer' = <<>>
  /\ UNCHANGED <<running, crashes, checked, revived>>

\* evict_until_fits(): one round of the loop, over the least recent entry
PutEvict ==
  /\ running /\ putting # <<>>
  /\ ~Fits(putting[2])
  /\ \E k \in DOMAIN entries : /\ \A j \in DOMAIN entries : <<j, k>> \notin recency
                               /\ RemoveEntry(k)
  /\ UNCHANGED <<putting, running, crashes, checked, latest, revived, answer>>

\* The file is (re)created with the header, the key and n payload bytes.
Written(k, v, n) ==
  /\ disk' = With(disk, FileOf[k], [key |-> k, val |-> v, len |-> n])
  /\ mtimes' = Latest(mtimes, DOMAIN disk, FileOf[k])

\* evict_until_fits() has returned
Writable == /\ running /\ putting # <<>>
            /\ DOMAIN entries = {} \/ Fits(putting[2])

\* Mutant: the new file is not counted.
PutWriteUncounted(n) ==
  /\ Writable
  /\ LET k == putting[1]
         v == putting[2]
     IN /\ n \in 0..SizeOf[v]
        /\ Written(k, v, n)
        /\ entries' = With(entries, k, entry_size(v))
        /\ recency' = Latest(recency, DOMAIN entries, k)
  /\ putting' = <<>>
  /\ UNCHANGED <<total_bytes, running, crashes, checked, latest, revived, answer>>

\* The write is reported good.  Short of the full payload (n less than the
\* size) it is the disk filling up while the stream's destructor flushes,
\* after the only check of the stream's state.
PutWrite(n) ==
  /\ Writable
  /\ LET k == putting[1]
         v == putting[2]
     IN /\ n \in 0..SizeOf[v]
        /\ Written(k, v, n)
        /\ total_bytes' = total_bytes + entry_size(v)
        /\ entries' = With(entries, k, entry_size(v))
        /\ recency' = Latest(recency, DOMAIN entries, k)
  /\ putting' = <<>>
  /\ UNCHANGED <<running, crashes, checked, latest, revived, answer>>

\* The stream reports a failure.  The file is deleted and put() returns
\* false; or fs::remove(), here without an error code, throws, and the file
\* stays as the failed open or the failed write left it.
PutFails ==
  /\ Writable
  /\ \/ Deleted({FileOf[putting[1]]})
     \/ UNCHANGED <<disk, mtimes>>
     \/ \E n \in 0..SizeOf[putting[2]] : Written(putting[1], putting[2], n)
  /\ putting' = <<>>
  /\ UNCHANGED <<indexVars, running, crashes, checked, latest, revived, answer>>

-----------------------------------------------------------------------------
(* get()                                                                   *)

\* Mutant: the stored key is not compared.
ReadableAnyKey(k) == /\ FileOf[k] \in DOMAIN disk
                     /\ disk[FileOf[k]].len >= entries[k] - Overhead

\* The file is there, carries this key and as many bytes as the index says.
Readable(k) == /\ FileOf[k] \in DOMAIN disk
               /\ disk[FileOf[k]].key = k
               /\ disk[FileOf[k]].len >= entries[k] - Overhead

\* CacheManager's checksum over the payload it was given
ChecksumOk(k) == entries[k] = entry_size(disk[FileOf[k]].val)

Accepted(k) == Readable(k) /\ (checked => ChecksumOk(k))

GetHit(k) ==
  /\ Free
  /\ k \in DOMAIN entries
  /\ Accepted(k)
  /\ answer' = <<[key |-> k, val |-> disk[FileOf[k]].val,
                  len |-> entries[k] - Overhead]>>
  /\ recency' = Latest(recency, DOMAIN entries, k)
  /\ UNCHANGED <<disk, mtimes, entries, total_bytes, putting, running,
                 crashes, checked, latest, revived>>

\* Unreadable, of another key, or refused by the caller's checksum: dropped.
GetDropped(k) ==
  /\ Free
  /\ k \in DOMAIN entries
  /\ ~Accepted(k)
  /\ RemoveEntry(k)
  /\ answer' = <<>>
  /\ UNCHANGED <<putting, running, crashes, checked, latest, revived>>

-----------------------------------------------------------------------------
(* Crashes and the constructor                                             *)

\* files on disk that the index has dropped
Leftover == {f \in DOMAIN disk : disk[f].key \notin DOMAIN entries}

\* The process dies.  A put() that was writing leaves the file with any
\* part of its payload, or with a torn header: such a file is ignored ever
\* after and counts as absent.
Crash ==
  /\ running
  /\ crashes < MaxCrashes
  /\ \/ /\ UNCHANGED <<disk, mtimes>>
        /\ revived' = (revived \/ Leftover # {})
     \/ /\ Writable
        /\ \/ \E n \in 0..SizeOf[putting[2]] : Written(putting[1], putting[2], n)
           \/ Deleted({FileOf[putting[1]]})
        /\ revived' = (revived \/ Leftover \ {FileOf[putting[1]]} # {})
  /\ running' = FALSE
  /\ crashes' = crashes + 1
  /\ entries' = <<>> /\ recency' = {} /\ total_bytes' = 0
  /\ putting' = <<>>
  /\ answer' = <<>>
  /\ UNCHANGED <<checked, latest>>

\* fs::file_size() of every file
sizesOnDisk == [f \in DOMAIN disk |-> Overhead + disk[f].len]

\* The constructor indexes every file under the key it carries, with the
\* size found on disk; modification times seed the recency order.
Restart ==
  /\ ~running
  /\ entries' = [k \in {disk[f].key : f \in DOMAIN disk} |-> sizesOnDisk[FileOf[k]]]
  /\ recency' = {<<disk[p[1]].key, disk[p[2]].key>> : p \in mtimes}
  /\ total_bytes' = Total(sizesOnDisk)
  /\ running' = TRUE
  /\ UNCHANGED <<disk, mtimes, putting, crashes, checked, latest, revived, answer>>

-----------------------------------------------------------------------------
Next == \/ \E k \in Keys : \/ RemoveKey(k)
                           \/ GetHit(k)
                           \/ GetDropped(k)
                           \/ \E v \in Values : PutBegin(k, v)
        \/ Clear
        \/ PutEvict
        \/ \E n \in 0..Max({SizeOf[v] : v \in Values}) : PutWrite(n)
        \/ PutFails
        \/ Crash
        \/ Restart

Spec == Init /\ [][Next]_vars

-----------------------------------------------------------------------------
(* Properties *)

\* the pairs put the members of S in one row
InOrder(order, S) ==
  /\ order \subseteq S \X S
  /\ \A x, y \in S : x # y => (<<x, y>> \in order <=> <<y, x>> \notin order)
  /\ \A x \in S : <<x, x>> \notin order
  /\ \A x, y, z \in S : <<x, y>> \in order /\ <<y, z>> \in order => <<x, z>> \in order

\* Types of index and disk; the unsigned byte count stays a natural number.
TypeOK ==
  /\ DOMAIN disk \subseteq Files
  /\ \A f \in DOMAIN disk : disk[f] \in [key : Keys, val : Values, len : Nat]
  /\ InOrder(mtimes, DOMAIN disk)
  /\ DOMAIN entries \subseteq Keys
  /\ \A k \in DOMAIN entries : entries[k] \in Nat
  /\ total_bytes \in Nat
  /\ putting \in {<<>>} \cup (Keys \X Values)
  /\ running \in BOOLEAN
  /\ crashes \in 0..MaxCrashes
  /\ checked \in BOOLEAN
  /\ latest \in [Keys -> {<<>>} \cup {<<v>> : v \in Values}]
  /\ revived \in BOOLEAN

\* The byte count and the recency order describe exactly the index, through
\* overwrites, evictions, dropped entries, collisions and restarts: the
\* unsigned total never wraps.  What it accounts for is within the budget,
\* unless a start has indexed files that an earlier process had dropped and
\* failed to delete.
IndexConsistent ==
  /\ total_bytes = Total(entries)
  /\ InOrder(recency, DOMAIN entries)
  /\ max_bytes # 0 /\ ~revived => total_bytes <= max_bytes

\* A get() returns nothing or bytes of the newest value put under the key,
\* and all of them for the caller that verifies its checksum: never another
\* key's bytes when file names collide, also after crashes, failed writes and
\* restarts.  A file that remove() could not delete is never read by the
\* process that dropped it; once a later start has indexed one, get() may
\* return a value that was deleted or overwritten, and only its length is
\* claimed.
GetsAreExact ==
  answer # <<>> =>
    LET a == answer[1] IN /\ revived \/ latest[a.key] = <<a.val>>
                          /\ a.len <= SizeOf[a.val]
                          /\ checked => a.len = SizeOf[a.val]
=============================================================================
