---------------------------- MODULE CorpusIndex ----------------------------
(***************************************************************************)
(* The Palimpsest corpus index (src/palimpsest/corpus_index.cpp): the      *)
(* server's memory of past generations, kept as one flat token log with    *)
(* stream boundaries, an n-gram index over it and an append-only file.     *)
(* Only the generation thread calls it.                                    *)
(*                                                                         *)
(* Offsets count from zero as in the code: the token at offset o is        *)
(* log[o + 1].  The file is external: a sequence of 32-bit words, for each *)
(* stream its length and then its tokens.  A crash or a full disk leaves   *)
(* any prefix of what was being written.                                   *)
(***************************************************************************)
EXTENDS Integers, Sequences, FiniteSets, SequencesExt

CONSTANTS Streams,       \* token streams callers observe
          Hash(_),       \* ngram_key(): n-grams may collide
          GramKeys,      \* its values
          ngram,         \* Config::ngram
          max_tokens,    \* Config::max_log_bytes / sizeof(TokenId)
          max_sites,     \* Config::max_sites_per_ngram
          max_stream,    \* the longest frame load() accepts (2^26 tokens)
          MaxEvents,     \* bound: observations, failures and restarts
          Faults         \* may a write be cut short?

ASSUME CorpusAssumption ==
  /\ Streams \subseteq Seq(Nat) \ {<<>>}
  /\ \A s \in Streams : \A i \in 1..(Len(s) - ngram + 1) :
       Hash(SubSeq(s, i, i + ngram - 1)) \in GramKeys
  /\ ngram \in Nat \ {0}
  /\ max_tokens \in Nat
  /\ max_sites \in Nat \ {0}
  /\ max_stream \in Nat
  /\ \A s \in Streams : Len(s) <= max_stream
  /\ MaxEvents \in Nat
  /\ Faults \in BOOLEAN

VARIABLES log, stream_ends, flushed_streams, index,
          file,          \* external: corpus.log
          events,        \* observations, failures and restarts so far
          observed,      \* history: every stream ever observed
          torn           \* history: was a write cut short?

corpusVars == <<log, stream_ends, flushed_streams, index, file, events, observed, torn>>

-----------------------------------------------------------------------------
(* The log and its index                                                   *)

\* Of the sites S of one key, the ones its deque holds: they are pushed in
\* ascending order and the front is popped while there are too many.
Newest(S) == {site \in S : Cardinality({r \in S : r >= site}) <= max_sites}

\* Mutant: the last n-gram that has a successor is skipped.
index_short(idx, l, begin, end) ==
  [k \in GramKeys |->
     Newest(idx[k] \cup {site \in (begin + ngram)..(end - 2) :
                           Hash(SubSeq(l, site - ngram + 1, site)) = k})]

\* Where the n-grams of key k in the stream begin..end have their successors
Sites(l, begin, end, k) ==
  {site \in (begin + ngram)..(end - 1) : Hash(SubSeq(l, site - ngram + 1, site)) = k}

\* index_stream(): only the newest sites of a key are kept.
index_stream(idx, l, begin, end) ==
  [k \in GramKeys |-> Newest(idx[k] \cup Sites(l, begin, end, k))]

NoSites == [k \in GramKeys |-> {}]

\* where stream number s of `ends` begins
BeginOf(ends, s) == IF s = 1 THEN 0 ELSE ends[s - 1]

rebuild_index(l, ends) ==
  LET indexed[s \in 0..Len(ends)] ==
        IF s = 0 THEN NoSites
        ELSE index_stream(indexed[s - 1], l, BeginOf(ends, s), ends[s])
  IN indexed[Len(ends)]

\* The streams the log is made of.
StreamsOf(l, ends) == [s \in 1..Len(ends) |-> SubSeq(l, BeginOf(ends, s) + 1, ends[s])]

EndsOf(streams) == [s \in 1..Len(streams) |-> Len(FlattenSeq(SubSeq(streams, 1, s)))]

\* Mutant: the stream that makes the log fit is kept.
DroppedTooFew(l, ends) ==
  CHOOSE d \in 0..Len(ends) :
    LET left(n) == Len(l) - (IF n = 0 THEN 0 ELSE ends[n]) IN
    /\ left(d) > max_tokens
    /\ left(d + 1) <= max_tokens

\* how many of the oldest streams evict_oldest() drops
Dropped(l, ends) ==
  CHOOSE d \in 0..Len(ends) :
    LET left(n) == Len(l) - (IF n = 0 THEN 0 ELSE ends[n]) IN
    /\ d = Len(ends) \/ left(d) <= max_tokens
    /\ \A n \in 0..(d - 1) : left(n) > max_tokens

-----------------------------------------------------------------------------
(* The file                                                                *)

\* one frame for each stream
Frames(streams) == FlattenSeq([s \in 1..Len(streams) |-> <<Len(streams[s])>> \o streams[s]])

\* load()'s reading loop: it ends at the first frame that is empty, longer
\* than any stream or not all there.
Parsed[words \in Seq(Nat)] ==
  IF words = <<>> \/ words[1] = 0 \/ words[1] > max_stream \/ words[1] >= Len(words) THEN <<>>
  ELSE <<SubSeq(words, 2, words[1] + 1)>> \o Parsed[SubSeq(words, words[1] + 2, Len(words))]

\* A stream of writes that start from `before` either reaches the file whole
\* or, with a fault, only in part.
AppendTo(before, words) ==
  \/ file' = before \o words /\ UNCHANGED torn
  \/ /\ Faults
     /\ \E n \in 0..(Len(words) - 1) : file' = before \o SubSeq(words, 1, n)
     /\ torn' = TRUE

\* The log without the streams evict_oldest() drops, boundaries rebased.
keep_newest(l, ends) ==
  LET d == Dropped(l, ends)
      cut == IF d = 0 THEN 0 ELSE ends[d] IN
    /\ log' = SubSeq(l, cut + 1, Len(l))
    /\ stream_ends' = [s \in 1..(Len(ends) - d) |-> ends[s + d] - cut]

\* Mutant: the file is left to a later flush().
evict_without_rewrite(l, ends) ==
  /\ keep_newest(l, ends)
  /\ index' = rebuild_index(log', stream_ends')
  /\ UNCHANGED <<file, torn>>
  /\ flushed_streams' = Len(stream_ends')

\* evict_oldest(), with rewrite_file() at its end.
evict_oldest(l, ends) ==
  /\ keep_newest(l, ends)
  /\ index' = rebuild_index(log', stream_ends')
  /\ AppendTo(<<>>, Frames(StreamsOf(log', stream_ends')))
  /\ flushed_streams' = Len(stream_ends')

\* load(): the process starts with what the file holds.
load ==
  LET streams == Parsed[file]
      l == FlattenSeq(streams) IN
  IF Len(l) > max_tokens
  THEN evict_oldest(l, EndsOf(streams))
  ELSE /\ log' = l
       /\ stream_ends' = EndsOf(streams)
       /\ index' = rebuild_index(l, EndsOf(streams))
       /\ flushed_streams' = Len(streams)
       /\ UNCHANGED <<file, torn>>

-----------------------------------------------------------------------------
(* Operations                                                              *)

CorpusInit ==
  /\ log = <<>> /\ stream_ends = <<>>
  /\ flushed_streams = 0
  /\ index = NoSites
  /\ file = <<>>
  /\ events = 0
  /\ observed = {}
  /\ torn = FALSE

Event == events < MaxEvents /\ events' = events + 1

observe(tokens) ==
  LET l == log \o tokens
      ends == Append(stream_ends, Len(log) + Len(tokens)) IN
  /\ Event
  /\ observed' = observed \cup {tokens}
  /\ IF Len(l) > max_tokens
     THEN evict_oldest(l, ends)
     ELSE /\ log' = l
          /\ stream_ends' = ends
          /\ index' = index_stream(index, l, Len(log), Len(l))
          /\ UNCHANGED <<flushed_streams, file, torn>>

\* The streams not yet in the file.
Unflushed == SubSeq(StreamsOf(log, stream_ends), flushed_streams + 1, Len(stream_ends))

\* flush(): the streams count as flushed whether or not the writes succeed.
flush ==
  /\ flushed_streams < Len(stream_ends)
  /\ AppendTo(file, Frames(Unflushed))
  /\ flushed_streams' = Len(stream_ends)
  /\ UNCHANGED <<log, stream_ends, index, events, observed>>

\* The process ends without its destructors, between two operations or,
\* after a write that was cut short, in the middle of one; then it starts
\* again.  A start after the destructor's flush() is a flush and a Reopen.
Reopen ==
  /\ Event
  /\ load
  /\ UNCHANGED observed

Quiet == events = MaxEvents /\ UNCHANGED corpusVars

CorpusNext == \/ \E s \in Streams : observe(s)
              \/ flush
              \/ Reopen
              \/ Quiet

CorpusSpec == CorpusInit /\ [][CorpusNext]_corpusVars

-----------------------------------------------------------------------------
(* draft()                                                                 *)

\* First stream end after the offset, or the end of the log.
stream_end_for(offset) ==
  LET after == {s \in 1..Len(stream_ends) : stream_ends[s] > offset} IN
  IF after = {} THEN Len(log)
  ELSE stream_ends[CHOOSE s \in after : \A t \in after : s <= t]

\* Mutant: a site is trusted without comparing the n-gram.
Usable_unchecked(gram, start) == start < stream_end_for(start - 1)

\* A site of the index that really follows the n-gram and has a successor.
Usable(gram, start) ==
  /\ start < stream_end_for(start - 1)
  /\ SubSeq(log, start - ngram + 1, start) = gram

\* draft(): the continuation at the newest usable site.
draft(gram, k) ==
  LET usable == {site \in index[Hash(gram)] : Usable(gram, site)}
      start == CHOOSE site \in usable : \A r \in usable : r <= site
      end == stream_end_for(start - 1)
  IN IF usable = {} THEN <<>>
     ELSE SubSeq(log, start + 1, IF end - start < k THEN end ELSE start + k)

-----------------------------------------------------------------------------
(* Properties *)

\* Boundaries ascend and cover the log, which stays within its budget.
CorpusTypeOK ==
  /\ log \in Seq(Nat) /\ Len(log) <= max_tokens
  /\ stream_ends \in Seq(1..Len(log))
  /\ \A s \in 1..Len(stream_ends) : BeginOf(stream_ends, s) < stream_ends[s]
  /\ Len(log) = (IF stream_ends = <<>> THEN 0 ELSE Last(stream_ends))
  /\ flushed_streams \in 0..Len(stream_ends)
  /\ index \in [GramKeys -> SUBSET (1..max_tokens)]
  /\ file \in Seq(Nat)
  /\ events \in 0..MaxEvents
  /\ torn \in BOOLEAN

\* n-grams that occur in what was observed
Grams == UNION {{SubSeq(s, i, i + ngram - 1) : i \in 1..(Len(s) - ngram + 1)} : s \in observed}

\* A draft is what really followed the n-gram in one stream that was
\* observed: never a continuation across a stream boundary, of another
\* n-gram with the same hash, or at an offset from before an eviction.
DraftsFollowHistory ==
  ~torn => \A g \in Grams, k \in 1..2 :
    draft(g, k) # <<>> => \E s \in observed : \E i \in 0..Len(s) :
                             IsPrefix(g \o draft(g, k), SubSeq(s, i + 1, Len(s)))

\* Stream number and position of each n-gram of the log that has a
\* successor in its stream and the hash h
Followed(h) ==
  LET S == StreamsOf(log, stream_ends) IN
  {at \in (1..Len(S)) \X (1..Len(log)) :
     /\ at[2] + ngram <= Len(S[at[1]])
     /\ Hash(SubSeq(S[at[1]], at[2], at[2] + ngram - 1)) = h}

\* When the log holds a continuation of an n-gram, draft() finds one, while
\* the hash has no more sites than are kept: neither an eviction nor a
\* restart leaves the incremental index poorer than the log.  (Which one is
\* found, the newest, is not stated here.)
DraftsFound ==
  \A g \in Grams :
    Cardinality(Followed(Hash(g))) <= max_sites =>
      (draft(g, 1) = <<>> <=>
         \A at \in Followed(Hash(g)) :
           SubSeq(StreamsOf(log, stream_ends)[at[1]], at[2], at[2] + ngram - 1) # g)

\* What counts as flushed is what the file holds, so a crash between
\* operations loses exactly the unflushed tail, unless a write was cut short.
FileHoldsFlushed ==
  ~torn => Parsed[file] = SubSeq(StreamsOf(log, stream_ends), 1, flushed_streams)
=============================================================================
