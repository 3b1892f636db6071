# Reame: TLA+ models, checks and proofs

Reame (`src/`) is an LLM server for ordinary CPUs: an HTTP API over an inference
engine that serves many requests from one model context, keeps what it computed
on disk, and tries to guess tokens before it computes them. This directory models
its core logic in TLA+, checks the models with TLC on small instances, and proves
the most important properties with TLAPS for every instance.

`PROJECT.json` lists the components, the runs, the source lines behind every
definition (`map`), the hazards the properties are aimed at, one mutation of the
code per property that the property catches, the disagreements between code and
comments, and the theorems. A definition keeps the name of the code it stands for
wherever TLA+ allows it.

- [Inventory](#inventory)
- [Modules and how they correspond to the code](#modules-and-how-they-correspond-to-the-code)
- [Runs: what is checked, bounds, fairness](#runs)
- [Proofs](#proofs)
- [Where code and comments disagree](#where-code-and-comments-disagree)
- [Not modelled](#not-modelled)
- [Plan](#plan)

## Inventory

| Component | State it keeps | Operations | Talks to |
|---|---|---|---|
| Interleaved scheduler (`core/scheduler.cpp`) | queue, requests in flight, slot occupancy, completion map; one mutex | `submit`, `step` (admit, clone a prompt, one batch, sample), `finished`, `idle` | backend sequences; callbacks of the callers |
| Parallel serving (`core/engine.cpp` 112-148, 405-427) | worker thread, `work_mutex`, `work_cv`, `done_cv`, `stopping` | worker loop, blocking `generate_stream`, destructor | scheduler |
| Single-sequence engine (`core/engine.cpp`) | the backend's KV and position, `context_tokens`, sessions | generate (hot or cold), `warm`, create/save/load/delete session | prefix cache, snapshot manager, speculative decoder |
| Speculative decoder (`speculative/`) | two KV caches, history, adaptive draft length, acceptance counters | draft, verify, roll back, deliver, auto-disable | engine, corpus index, draft model |
| Prefix cache and snapshot manager (`cache/prefix_cache.cpp`, `cache/cache_manager.cpp`) | snapshots by key, RAM staging area with budget; one mutex for the staging area | `prefill`, `prefetch`, `load_state`, `store_state` | disk store; called by HTTP threads and by the engine's thread |
| Disk store (`cache/disk_cache_store.cpp`) | files, index with sizes and recency, byte total | `put`, `get`, `remove`, `clear`, index rebuild at start | file system |
| Palimpsest corpus index (`palimpsest/corpus_index.cpp`) | token log, stream boundaries, n-gram index, append-only file | `observe`, `evict_oldest`, `flush`, `rewrite_file`, `load`, `draft` | speculative decoder |
| Conclave (`core/conclave.cpp`, `generate_best`) | candidate texts, tally, stop flag | run candidates, early verdict, numeric and text election | engine, response cache |
| ARCA client and codec (`arca/client.cpp`, `arca/resp.cpp`) | one socket, the bytes of a reply; the parser's buffer | `connect`, `get`, `set`; `feed`, `take` | the daemon, over TCP; called by the engine |
| ARCA daemon and archive (`arca/server.cpp`, `arca/archive.cpp`) | running flag, registered sockets, connection count; the archive's mutex | accept, serve, dispatch, stop | disk store, corpus index |
| HTTP server (`server/http_server.cpp`) | running flag, acceptor, connection count | accept, read, write, start, stop with a bounded drain | API handler; main thread |
| API handler and escalation (`server/api_handler.cpp`, `server/escalation.cpp`) | concurrency gate, `engine_mutex`, request and error counts | route, generate, warm, sessions, metrics, relay to the deep lane | engine |
| Process (`main.cpp`) | shutdown flag, its mutex and condition variable | wait, signal handler, stop | HTTP server, ARCA daemon |
| Sampler, backends, serializer, configuration | - | - | - |

What is hard here, and what correctness means:

* **Concurrency.** HTTP threads, the worker and the destructor meet on two
  condition variables; candidates of a conclave race to a verdict; prefetching
  threads and the engine share the disk store; connection workers race with the
  accept threads and `stop()`. Correct: no wakeup that shutdown needs is lost, a
  verdict stands, counters and maps agree, no worker outlives what it uses.
* **The wire.** Commands arrive in slices, replies late, cut or never, connections
  break. Correct: a reply belongs to its command, a command is parsed once.
* **Two records of one fact.** The backend's KV against `history`, `n_past`,
  `context_tokens` or a snapshot's key; the log against its index and file; the
  index of the disk store against the files. Correct: they agree whenever the code
  relies on it.
* **Partial failure.** A batch, a copy, a sampler, a callback, a write or the
  process may fail between two assignments. Correct: nobody else's request, slot
  or data is lost.
* **Limits.** Context, batch, KV budget, byte budgets, log size, draft length.
* **Liveness.** A submitted request completes, a blocked caller returns, the
  destructor ends, a routed request is answered, a signal ends the process.

`hazards` in `PROJECT.json` names the line where each of these bites.

## Modules and how they correspond to the code

**`SchedulerService`** is the abstract specification of the scheduler: `submit`
hands out consecutive ids, and each id is completed at most once, alone or with
others. `Scheduler` implements it; `ParallelServing` is built on it.

**`Scheduler`** models `step()` as the actions between two moments at which the
scheduler's mutex is free: `StepBegin`, one action per request that `admit()`
looks at (admission, cloning the KV of a donor, waiting for a donor or for room,
refusal of what never fits), one `decode_seqs()` that succeeds or fails for the
whole batch, and one `SampleOne` per request in flight (a token, an end token, a
limit, an exception). `kv` is the external backend: what each sequence holds.

**`ParallelServing`** has one action per step a thread takes between two
synchronisation points. `cv.wait(lock, pred)` is split where the code can be
interrupted: predicate, entry into the wait set, wakeup. `missed` records that a
notify fell between a predicate and its wait.

**`EngineContext`** models the engine without a scheduler. One operation runs at a
time (the API holds `engine_mutex`), but it is several actions, because a backend
or a callback may throw between any two. The backend's KV and its position counter
are separate variables, since restoring a snapshot sets the counter to what the
caller says. `in_doubt` records that something else than the owner of
`context_tokens` touched the KV.

**`SpeculativeDecoder`** models the engine's speculative branch with the decoder:
both KV caches, drafts from a model or from prompt lookup (`find_draft` is an
operator), verification, rollback of the rejected tail, delivery one token at a
time, adaptation and auto-disable. `Support` stands for the target model: the
tokens it may emit after a sequence. The acceptance arithmetic is reduced to the
verdicts it permits. Either vocabulary may have tokens the other lacks, as the constructor
allows; a drafted token that the target lacks indexes its distribution out of range, so the
verifier may accept it whatever the target says (`Misread`, recorded in `in_doubt`). A rollback
may throw after the batch was decoded (`RollbackThrows`).

**`DiskCacheStore`** splits `put()` where a crash or a failed write leaves
something behind, keeps what a file really holds (including fewer bytes than it
should), lets keys collide on a file name and rebuilds the index at a restart. Wherever the
code ignores the error code of `fs::remove()` the file may stay (`Deleted`); `revived` records
that a process died and left such a file for the next start to index. The
code's recency numbers and file times only matter by their order, which the module keeps
as a set of pairs; sums of sizes are those of `Totals`, a small module of its own.

**`CachePrefetch`** takes calls into the unlocked disk store as intervals that
overlap, and the locked sections of the staging area as atomic actions. Budget,
list, map and byte count are those of `cache_manager.cpp`; the byte count is a counter that each
step adds to and takes from, and the property compares it with the payloads. `leaked` records
the bytes of a payload that a second copy of the same key replaced in the map.

**`CorpusIndex`** keeps the log with the code's offsets, the incremental index
with its cap per n-gram, and the file as 32-bit words, so that a write cut short
leaves a torn frame which `load` parses as the code would (`Parsed`, a recursive
function), up to the first length over its limit (`max_stream`). A key's deque is filled in ascending order and cut at the front, so the index
keeps it as the set of the newest sites (`Newest`).

**`Conclave`** runs the candidates of `generate_best()` on threads or in sequence,
with the callback's relaxed load of the stop flag, the locked deposit, both
elections, and the response cache that `generate_stream()` puts in front of the
first candidate. A text is a sequence of words and numbers.

**`HttpServing`** puts three kinds of threads together: the accept thread and the
detached connection workers of the HTTP server, each of which runs a whole request
through `route()`, and the main thread with its signal handler. A worker's program
counter stops wherever another thread can tell: before the gate and between its two
atomic operations, at `engine_mutex`, inside the engine, before each status line it
writes and at the end of each scope that gives something back. A request is reduced to
the fields the code branches on; a body may also have a field of another type where the
code reads it without a check, and the exception then leaves the worker (`aborted`). The process
also ends that way when the deep lane closes its socket while `http_post()` sends (`SIGPIPE`).
The engine is a call that returns or throws. `lock_scoped` tells `main()`, which
releases the mutex before it stops the server, from `run_zeroconfig()`, which does not.

**`ResponseCache`** is the abstract specification of `core::ArcaCache`, the interface the
engine programs against: a `get()` returns a value once set under its key, or nothing.

**`Arca`** is the implementation: the client's `get()` and `set()` step by step over one
socket, TCP connections that deliver in order and in any slices and may break, the
daemon's accept thread, its workers (register, read and parse, dispatch, write, leave)
and `stop()` in its four steps, and the archive's `dispatch()`. The wire carries symbols
(array headers, bulks, reply lines) instead of characters; the parser `feed` is a recursive
function of what has arrived. What the disk store answers
is a choice among what `DiskCacheStore` allows, the entries that a failed write has already
evicted included. `CacheSpec` maps the history of the
calls to `ResponseCache` (`INSTANCE ... WITH`); `missed` records the workers that
`stop()` did not find registered.

How the modules compose: `Scheduler` refines `SchedulerService`, which `ParallelServing`
extends; `HttpServing` is the caller of the engine operations in `EngineContext` and
`ParallelServing` and shows that the first runs one at a time, which that module assumes,
and that `CachePrefetch` is entered from several threads, which that one assumes; `Arca`
refines `ResponseCache`, which `Conclave` uses as the cache in front of the first candidate.

Each `MC...` module gives constants their values for TLC and defines nothing else. The
specifications of `ParallelServing`, `CachePrefetch` and `CorpusIndex` are called `ServingSpec`,
`PrefetchSpec` and `CorpusSpec`, since a proof module extends several components.

## Runs

What each passing run checks; most check a type invariant too. The number is that of the
distinct states TLC visits. Several properties have an exception that a history variable names
(`missed`, `in_doubt`, `replayed`, `torn`, `timed_out`, `stuck`, `leaked`, `revived`): there the
code really does not keep the promise, the property says that there is no other way, and the
note of the hazard says what is not covered.

| Run | What is checked | Bounds and why they are enough |
|---|---|---|
| `scheduler` (228 k) | slots and requests in flight match (`SlotsMatchActive`); each KV is its request's history, unowned ones are empty (`KVHoldsHistory`); no request is lost; batch size; a fault stays with its request (`FaultsAreIsolated`); the service is implemented; every request completes | 2 slots, 4 requests: every slot is reused and a queue forms behind a full batch; 5 cells with prompts of 1, 2, 5 and 6 tokens and budgets 1 and 3: requests that fit together, exclude each other, outgrow the context while in flight or never fit; two equal-length prompts that differ, so that cloning could confuse them; faults of batches and copies on |
| `parallel_serving` (164 k) | the destructor's wakeup is not lost (`StopWakeupNotLost`) and it terminates; callers return only completed or at shutdown; a call that hangs needs a missed notify (`CallsReturn`) | 2 callers, 3 requests: one caller comes back while the other waits, and shutdown falls anywhere |
| `engine_context` (1.07 M) | prefix snapshots are what their key says; tokens are sampled from the right KV; agreeing lengths mean agreeing contents, unless in doubt | 6 operations: two turns, a warm, save, load and a further turn; context 4 and blocks of 2: snapshots of part of a prompt and of all of it, prompts that extend each other, that rival each other, that do not fit; eviction at 3 snapshots; exceptions at every step |
| `speculative` (289 k) | both KV caches follow the history (`KVInSync`); output is the target's own (`Lossless`); agreeing lengths mean agreeing contents | 2 calls, context 5, drafts of 1 to 3 tokens: acceptance of none, some and all, drafts that overshoot the budget, two end tokens inside drafts, only one of which ends the drafting, a draft token the target does not have, a target token the draft model does not have, a rollback that throws, auto-disable, the last cells of the context; the target's support depends on the whole sequence, so a shifted position shows |
| `disk_store` (465 k) | byte count, order and index agree; budget; `get` returns the newest value of its own key | 3 keys, two of which share a file, values of 1 and 2 bytes, a budget for two entries, 2 crashes: overwriting, evicting, files that could not be deleted and are found again, a crash while recovering from a crash |
| `prefetch` (258 k) | the byte count is what is staged and what double staging has leaked; list and map agree while nothing has; the budget (`StagingConsistent`) | 2 threads and the engine's thread, sizes 1, 2 and 4 against a budget of 3: a payload that fits beside another, one that never fits; 6 prefetches: two threads stage one key over each other and staging goes on |
| `corpus` (188 k) | drafts continue what was observed; the index is not poorer than the log; the file holds what counts as flushed | 5 observations, failures and restarts over a log of 9 tokens with streams of 1 to 5: eviction of one and of several streams, unflushed streams across an eviction, two n-grams with one hash, a cap of 3 sites that is reached, a token that is no frame length when a torn file makes `load()` read it as one |
| `conclave` (2.3 M) | an early verdict is final and rests on a majority of whole answers; the elected answer is whole and no more frequent number exists | 4 candidates: two votes are a plurality without being a majority; 2 calls: the cache filled by the first answers in the second; the greedy answer contains a number before its last one, so that a cut changes its vote; 1 piece for the sampled answers, which is enough to be cut |
| `http_serving` (353 k) | one operation at a time in a single-sequence engine, session operations always, and no mutex left behind (`EngineExclusive`); the gate's counter is exact and its limit kept (`GateExact`); each routed request is answered, once but for a stream that fails after its headers, and the metrics count that (`AnswersAddUp`); `stop()` sees every worker (`DrainIsComplete`); a signal ends the process (`ShutdownCompletes`); a routed request is answered (`RequestsAnswered`) | 2 connections and one place in the gate: admission, refusal and waiting for the mutex; 7 requests: every handler, streaming and not, unauthorized, and the inputs whose exceptions are not caught; both kinds of engine; failing generations and every outcome of the deep lane; a signal at any point and again |
| `arca` (526 k) | the client and the daemon implement `ResponseCache` (`CacheSpec`); commands are dispatched as sent, however they are cut (`CommandsAsSent`); no worker outlives `stop()`; `stop()` returns, except for a worker it missed (`StopReturns`) | 2 connections and 2 calls: a call after a reply that came too late, over a new connection, or beside another client that pipelines a deletion, a `PING` and a malformed header; 2 keys and an archive that already holds one: a reply taken for another command's shows; partial writes and slices of every length; `stop()` at any time |

Two runs show a property violated; see below.

**Deadlock** is checked everywhere except in the `parallel_serving` runs, `http_serving`
and `arca`, where the system comes to rest when the engine is destroyed, the process
has ended, or no client does anything any more. Where the other modules may come to rest, they name that state (`Quiet`,
`Exhausted`, `Dead`).

**Fairness.** `Scheduler`: the worker calls `step()` again while it reports work,
and a `step()` that has begun reaches its end (weak fairness of `StepBegin` with
work outstanding and of the rest of the step). `ParallelServing`: threads that can
run do run (weak fairness for the worker, for callers inside a call and for the
destructor once it has set `stopping`); the locks are taken by weak fairness only.
A request for which `step()` is called again and again completes
(strong fairness of `WorkerComplete` and `WorkerStepEnd`): that is what
`EveryRequestCompletes` shows of `Scheduler`. Nobody has to submit or to destroy.
`HttpServing`: the accept thread, the workers and the main thread run, calls of the
engine and writes to a client return; no client has to
connect or send, no signal has to come. That writes return is an assumption about clients (they
read or hang up), not something the code ensures: see the observation on send timeouts below. Weak fairness is enough for a worker at
`engine_mutex`: each of the others takes it at most once. `Arca`: the daemon's threads
run; nothing is asked of clients, and no call of the engine's client has to time out:
whether the socket options of `arm_timeouts()` bound a read is up to the socket library,
so giving up is something a call may do at any time and no property needs it.
The other modules state no liveness: what they model is called, not running.

**Symmetry** is not used: the order of keys, callers and candidates matters to the
code (ids, first of equals) or TLC checks liveness.

## Proofs

`tlapm` checks eight modules to the last leaf. Every theorem has the form `Spec => []P` (or
`Spec => A` for an action property or a refinement), `Spec` being the component's specification,
and holds for all values of the constants that satisfy the assumption named in the component's
module, in particular for any number of slots, cells, tokens, requests, callers, connections,
candidates, keys or crashes; where `P` is a property some run checks, the run shows it on a small
instance and the theorem in general.
In each proof `Inv` (or `ServingInv`, `CorpusInv`) is the inductive invariant; TLC checked it on the instance of the
component's run before it was proved. There is one lemma per action, and under it one step per
conjunct the action can disturb.

| Module | Assumption | Theorems (property) |
|---|---|---|
| `ServingProofs` | `SchedulerAssumption`, `MaxRequestsAssumption`, `CallersAssumption` | of `Scheduler`: `TypeCorrect`, `SlotsCorrect` (`SlotsMatchActive`), `KVCorrect` (`KVHoldsHistory`), `SlicesCorrect`, `OrderCorrect`, `NothingLost` (`NoRequestLost`), `FaultsIsolated` (`FaultsAreIsolated`), `BatchesFit` (`BatchFits`), `ImplementsService` (`ServiceSpec`); of `ParallelServing`: `ServingTypeCorrect`, `MutexCorrect`, `StopWakeupCorrect` (`StopWakeupNotLost`), `ReturnsCorrect` (`ReturnsCompletedOrStopping`) |
| `HttpServingProofs` | `HttpAssumption` | `EngineIsExclusive`, `GateIsExact`, `AnswersCorrect` (`AnswersAddUp`), `DrainCorrect` |
| `EngineContextProofs` | `EngineAssumption` | `TypeCorrect`, `SnapshotsCorrect`, `GenerationsCorrect`, `LengthTestIsSound` (`GuardImpliesContext`) |
| `SpeculativeDecoderProofs` | `DecoderAssumption` | `TypeCorrect`, `ModelsInSync` (`KVInSync`), `SpeculationIsLossless` (`Lossless`), `LengthTestIsSound` |
| `ConclaveProofs` | `ConclaveAssumption` | `VerdictCorrect` (`VerdictStands`), `ElectionCorrect` (`ElectedIsWhole`) |
| `CacheProofs` | `StoreAssumption`, `PrefetchAssumption`, `CorpusAssumption` | of `DiskCacheStore`: `TypeCorrect`, `IndexCorrect` (`IndexConsistent`), `GetsCorrect` (`GetsAreExact`); of `CachePrefetch`: `StagingCorrect` (`StagingConsistent`); of `CorpusIndex`: `CorpusTypeCorrect`, `FileCorrect` (`FileHoldsFlushed`), `DraftsCorrect` (`DraftsFollowHistory`), `DraftsComplete` (`DraftsFound`) |
| `ArcaProofs` | `ArcaAssumption` | `CommandsCorrect` (`CommandsAsSent`), `StopCorrect` (`NoWorkerOutlivesStop`), `CacheCorrect` (`CacheSpec`, with one caller) |
| `DataLemmas` | - | lemmas on sequences, prefixes, smallest and greatest members, sums, concatenation, flattening and recursive functions, which the others cite |

The assumptions give the constants their types and the ranges the configuration enforces.
`ConclaveAssumption` also bounds the number of different pieces of a text by three: a text score
is a ratio of counts, which the module writes in sixths. The proofs do not use that bound.
`CorpusAssumption` says that the observed streams are not empty, since `observe()` returns at once
on an empty one, that they are no longer than the frame limit of `load()` (2^26 tokens, far more
than a context), and that the hash of each of their n-grams is a key.
`ArcaAssumption` says that a bulk is never taken for an array header, because a bulk carries its
length, and that the archive has one value per key at the start. `CacheCorrect` has a hypothesis of
its own, `OneCaller`: with two threads on the one socket the refinement does not hold, as the
`ArcaClient` entry below says.

Sums (cells of a batch, bytes of an index) are written in `Totals` as the size of a set with one
member per unit. What adding or removing an entry does to a sum is then a fact about
cardinalities, proved in `DataLemmas`, and no induction over the summed function is needed.

Recursive functions (`Parsed`, `feed`, `Removing`) and flattened sequences do need induction over
data, and the library's induction theorems cannot be instantiated with the provers at hand.
`DataLemmas` takes another way: a nonempty set of naturals has a smallest member
(`SmallestExists`), so a statement about sequences is proved from a shortest
counterexample. `RecursionExists` and `RecursionUnique` show in the same manner that a function
defined by recursion on the length of a sequence exists, which licenses to unfold its
definition once.

**Scheduler.**

* That the KV of a request is its history up to `n_past` survives a batch only if
  the slice is exactly what is missing, hence `Shape`: between batches a request
  has nothing in the KV or everything but its newest token (`QueueShape`,
  `ActiveShape`);
* that admission finds a free slot needs `SlotsMatchActive` and the number of
  requests in flight (`FreeSlotFound`, a counting argument);
* that a clone holds the right tokens needs that the donor is not prefilling and
  has the same prompt (`DonorFound`);
* that nothing is lost or completed twice needs that ids in the queue are the
  newest, ids in flight are older and distinct, and both are owed a completion
  (`AdmissionInOrder`, `IdsInFlight`, `NoneForgotten`);
* that a batch fits (`BatchesFit`) is a second invariant on top of the first, `BatchRoom`:
  `admit()` compares histories with the context once, at admission, and histories outgrow it
  later. Batches still fit, because after that a request contributes one token and no more
  requests are in flight than cells were needed to admit them.

The refinement then needs only that completed ids were outstanding (`InFlightOutstanding`).

**Parallel serving.** The strengthening is `NoWaitAfterStop`: the worker decides to wait
with the mutex held and `~Impl()` sets `stopping` under the same mutex, so no
decision to wait is pending once `stopping` is set; and `WaitsForOwnRequest`.

**HTTP serving.** `EngineExclusive` needs that the owner of `engine_mutex` is at a place from
which it unlocks it (`MutexOwned`). The gate's counter and its limit need the places a worker
passes between increment and decrement (`GatePlaces`); the counter is exact although refusal is
two atomic operations. The drain needs that the one connection that is accepted and not
yet counted is the accept thread's, which `stop()` has joined by then (`AcceptShape`). The
answers need what has been written, and why, at each place of a worker (`RequestShape`,
`AnswerShape`); the metrics are cardinalities of sets of connections that each step changes by
at most one member.

**Engine.** `OpSync` says what the backend holds at each point between two calls that may
throw: nothing, a part of the prompt, all but its last token. `ZeroMeansEmpty` is needed for
`load_session()` of a session without tokens: it empties `context_tokens` and leaves the
backend alone, so the length test is sound only because a position counter at zero means an
empty sequence, also after a snapshot was restored whose counter disagrees with its contents.
`OpShape` keeps the locals in range.

**Speculative decoder.** Losslessness rests on the survivors of a verification being tokens the
target could have emitted one after the other (`SurvivorsEarned`), which rests on what the two
KV caches hold at each point of a round (`TargetSync`, `DraftSync`): after verification the
survivors too, all but the last. `TargetLength` is kept apart, because positions stay right even
when contents are in doubt, which they also are once a token was accepted that the target
does not have. `RoundShape` bounds the draft by the room that is left;
`FoundDraftFits` shows it of prompt lookup.

**Conclave.** Until the verdict the tally counts exactly the finished voters of each number and
none has a majority (`TallyExact`), so at the verdict the majority is over all candidates, not
over those that happen to have finished, and two majorities share a candidate. That the winner
is whole needs that nothing is cut before the verdict (`NothingCut`) and that every candidate
gets its turn (`InTurn`).

**Disk store.** While the process runs, a file whose key is indexed has no more bytes than the
index counts for it and, until `revived`, holds bytes of the key's newest value (`FilesIndexed`);
this survives because `put()` removes the old entry before it writes (`PutShape`), and it makes
`get()` exact, whichever of two colliding keys wrote last. A crash therefore leaves files of newest
values within the budget (`LeftByCrash`), unless one of them had left the index and could not be
deleted. The constructor's index is then within the budget too: a file lies under the name of the
key it carries (`FilesTrue`), so file names to keys is an injection and the sum over the files is
at most the sum over the entries.

**Staging area.** `StagingConsistent` is inductive as it stands: the byte count is exactly the
bytes of the staged payloads (a `Total`) and what has leaked. Each removal subtracts what the
removed payload contributes (`BytesWithout`), so the unsigned count never wraps. The eviction loop
pops keys that may be in the list twice; a popped key gives its bytes back once (`FreedFacts`), and
the loop ends within the budget or with one key left (`EvictionsFacts`). While nothing has leaked
the list is the staged keys, each once, because `prefetch()` enters no key that is staged.

**Corpus index.** The invariant `CorpusInv` relates the four representations of one history.
`LogShaped`: boundaries ascend and end with the log, within the budget. `IndexCurrent`: the index
holds, for each key, the newest sites of the whole log. `observe()` maintains this incrementally
(`NewestGrows`: the newest of the newest and the new are the newest of all), eviction and
`load()` by replaying the log (`RebuiltIndex`); both give the same index. `FileFramed`: until a write
is cut short, the file is the framing of the flushed streams, and `load()` inverts the framing
(`ParsedFrames`) of streams within its limit, which those of the log are (`FlushedFit`). `LogObserved`: a stream of the log is one that was observed. A draft stays in its
stream because `stream_end_for()` finds the first boundary beyond the site (`EndFound`), and no
n-gram is indexed across a boundary (`IndexedSite`); that the index is not poorer than the log needs
that no site is dropped while its key has at most `max_sites` of them (`AllSitesKept`), and that the
occurrences of an n-gram cover its sites unless hashes collide (`GramOfSite`).

**ARCA.** What a worker has dispatched, what it has ready and what feeding the rest would give make
up what a parser of the whole stream finds (`StreamOK`). This survives a slice cut anywhere because
feeding two slices one after the other is feeding their concatenation (`FeedSlices`). `Counted`
says that `active_connections` is the number of workers alive and that the accept loop is over by
the time `stop()` waits for them, so none is left when it returns. `StoreOK`: what is in the archive
was there at the start or was handed to a `set()`. For the refinement, `InStep` says where the one
command of the engine's thread is (on its way, taken by the worker, answered, on its way back, or
lost with its connection), so that the next reply on the socket is the reply to the command the
client waits for: a client that gives up drops its socket, and a late reply is never read.

**Model-checked only:**

* the liveness properties (`EveryRequestCompletes`, `StopTerminates`, `CallsReturn`,
  `ShutdownCompletes`, `RequestsAnswered`, `StopReturns`): the prover does not handle fairness
  and `ENABLED`.

Every other property of a passing run is stated by a theorem.

## Where code and comments disagree

Each has a run in which TLC exhibits it and an entry under `findings`.

* `parallel_serving_lost_wakeup`: `submit()` and its notify run without `work_mutex`
  and may fall between the worker's predicate and its wait, which the comment at
  `engine.cpp:143` rules out. The worker sleeps on a non-empty queue until
  somebody notifies again. The same window exists for callers and `done_cv`
  (`engine.cpp:140`); `CallsReturn` shows that there is no other.
* `engine_hot_continuation`: `warm()` changes the KV and not `context_tokens`. If
  both happen to have the same length the next turn continues the wrong sequence,
  although the comment at `engine.cpp:433` calls the check a guard against this.

Further observations made while modelling; the properties are stated so that they
hold up to these points:

* The scheduler compares the KV budget only at admission (`scheduler.cpp:87`); when
  histories outgrow the context a batch fails, and with it every request in flight.
* `copy_seq()` is outside the `try` of `step()` (`scheduler.cpp:111`); the nucleo
  backend's throws (`nucleo_backend.cpp:139`), and the exception leaves the worker thread.
* A caller woken by shutdown returns without a completion (`engine.cpp:423`) and
  the partial text is stored in the response cache (`engine.cpp:392`).
* A candidate that the verdict cuts off is stored there too, under the key of the
  exact response; in the next call it counts as a whole answer and votes, against the
  comment at `engine.cpp:309`. `VerdictStands` and `ElectedIsWhole` hold until the
  cache replays such a text (`replayed`). `votes_for` counts cut texts although its
  comment speaks of finished answers (`engine.cpp:338`).
* `cache_key` leaves out `repeat_penalty`, while its comment says it folds in
  everything that changes a greedy output (`engine.cpp:249`).
* `save_session()` labels the KV with the length of `context_tokens`, whatever the KV
  holds (`engine.cpp:531`).
* Once disabled, speculation stays off for the decoder's life; the comment at
  `speculative_decoder.cpp:164` speaks of the rest of the generation.
* Corpus index: a crash or short write during a rewrite loses flushed streams, and an
  append after a torn frame is misread at the next start; `corpus_index.hpp:57` says that
  a crash loses at most the unflushed tail.
* Disk store: a file cut short by a crash is indexed as a shorter value
  (`disk_cache_store.cpp:50`); the snapshot manager's checksum rejects it, the archive has
  none and returns it. `GetsAreExact` asks for the whole value only where it is `checked`.
* Disk store: `remove()` ignores the error code of `fs::remove()` (`disk_cache_store.cpp:126`). A
  file that could not be deleted is not read again by this process, but the next start indexes
  it: a deleted or overwritten value may be returned, and the budget may be exceeded.
  `GetsAreExact` and `IndexConsistent` say so (`revived`).
* Disk store: after a failed write `put()` calls the throwing `fs::remove()`
  (`disk_cache_store.cpp:79`). The exception leaves the daemon's worker, which does not catch it
  (`server.cpp:87`), and ends the daemon; `DiskCacheStore` has this outcome, `Arca` leaves it out.
* Prefetch: a key is looked up under one lock and entered under another (`cache_manager.cpp:91`,
  119). Two threads that stage one key at the same time replace one payload by the other: its bytes
  stay in `staging_usati_` for ever, so the budget shrinks for good. The key's second place in the
  list lets the eviction loop take the payload that has just entered, against the comment at
  `cache_manager.cpp:123` ("si sfratta il piu' vecchio, mai l'appena entrato").
  `StagingConsistent` counts the lost bytes (`leaked`) and shows that nothing else loses any.
* Speculation: the constructor admits a draft vocabulary up to 128 tokens larger than the target's
  (`speculative_decoder.cpp:43`) and guards the other direction only; a draft token beyond the
  target's vocabulary indexes `target_probs` out of range (`batch_verifier.cpp:50`).
* Prefetching threads are inside the unlocked disk store together with each other and with
  the engine's thread (`cache_manager.cpp:96`, `api_handler.cpp:196`), and `get()` writes its
  index: a data race, so `CachePrefetch` says what holds apart from it.
* `ArcaClient` has one socket and no lock. With one calling thread `CacheSpec` holds; with two
  in `Callers`, as in parallel mode, TLC finds a `get()` that returns the other's reply.
* `ArcaServer::stop()`: a worker that was counted and had not registered when the sockets were
  shut down blocks in its read for as long as its client stays, and `stop()` with it
  (`server.cpp:130`); `StopReturns` shows that there is no other way.
* A RESP length with more digits than a `long` raises `out_of_range`, which `serve()` does not
  catch (`resp.cpp:26`, `server.cpp:79`): the daemon ends. Commands that precede a malformed
  one in the same slice are not dispatched (`resp.cpp:37`).
* API handler: exceptions of `m.value()`, `gen_config_from()`, `body.value("stream")` and of the
  404 for a path that is not UTF-8 are outside any `try` (`api_handler.cpp:179-207`, 485), as is
  anything but `EngineError` in the session operations (377): they leave the detached worker
  and end the process. `AnswersAddUp` and `RequestsAnswered` hold up to that point.
* Nothing ignores `SIGPIPE`, and `http_post()` sends without `MSG_NOSIGNAL` (`escalation.cpp:96`): a
  deep lane that closes the connection early ends the process.
* Writes to clients have no send timeout (`http_server.cpp:58`), and a stream is written inside the
  generation, with `engine_mutex` held in a single-sequence engine (`api_handler.cpp:139`): a
  client that stops reading holds up all others. `RequestsAnswered` holds as long as clients read.
* A stream that fails after its headers gets a second status line (`api_handler.cpp:284`).
* "every engine call is serialized" (`api_handler.cpp:65`) holds for generation, warm and
  sessions of a single-sequence engine (`EngineExclusive`), not for `format_chat`,
  `prefetch_prefix` and the metrics.
* "Any failure on that road keeps the fast answer" (`api_handler.cpp:238`): a configured port that
  is no `int` makes `stoi` throw (`escalation.cpp:49`) and the answer is a 500.
* The signal handler locks a mutex (`main.cpp:53`). A signal in the moment the main thread holds
  it blocks for ever; in `run_zeroconfig()` and `run_arca()` that is the whole of `stop()`, so that a
  second Ctrl-C hangs the process. `ShutdownCompletes` names exactly these cases. The model
  delivers signals to the main thread.

## Not modelled

* **Sampler, acceptance probabilities**: floating-point arithmetic and randomness;
  their results are free choices among what they permit.
* **Backends** (llama.cpp, nucleo): not part of the repository beyond wrappers. What the
  code relies on (sequences, positions, copy, clear, failure) is part of the modules
  that use them and marked external.
* **KV serializer**: compression and checksums of opaque bytes; a checksum matches or not.
* **Form prompter**: text matching; its drafts are free proposals in `SpeculativeDecoder`.
* **Configuration, logging, command line, benchmarks, widget**: no state of their own. Of
  `main.cpp` only the wait for a signal and the shutdown are modelled.
* **Construction of the engine**: `validate()` and the choice of the parts for a
  configuration. The modules take the parts as given; `parallel_capable` is either.
* **Characters**: of HTTP headers, JSON and RESP only what decides a path is kept. The HTTP
  parser is reduced to its outcomes, because a request is parsed after all of it has arrived;
  the RESP parser is modelled on symbols, because it is fed in slices.
* **Memory after `stop()` gave up**: when the drain runs out of time the server object is
  destroyed under its workers; the model stops there (`timed_out`).

Bounds of the data: tokens are two to five values, texts are sequences of up to two
pieces, hashes are small functions with a deliberate collision.

## Plan

Order of work, most important behaviour first. Modelled and checked: all of it.

1. `SchedulerService`, `Scheduler`: the heart of serving.
2. `ParallelServing`: threads around it, over the same service.
3. `EngineContext`: the single-sequence engine and its caches.
4. `DiskCacheStore`: what survives a crash.
5. `CachePrefetch`: the threads in front of it.
6. `SpeculativeDecoder`: losslessness.
7. `CorpusIndex`: memory of past generations.
8. `Conclave`: elections and the response cache.
9. `HttpServing`: the server around the engine, and its shutdown.
10. `ResponseCache`, `Arca`: the shared archive.

Proved: every safety property the runs check, and both refinements (`ServingProofs` for 1 and 2,
`EngineContextProofs` for 3, `CacheProofs` for 4, 5 and 7, `SpeculativeDecoderProofs` for 6,
`ConclaveProofs` for 8, `HttpServingProofs` for 9, `ArcaProofs` for 10).

What stays with TLC is liveness. What no property covers is the data race of the prefetching threads
in the disk store (`cache_manager.cpp:96`): undefined behaviour of a map has no outcome to state.
