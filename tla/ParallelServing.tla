--------------------------- MODULE ParallelServing ---------------------------
(***************************************************************************)
(* Parallel serving in the engine (src/core/engine.cpp): one worker thread *)
(* drives the scheduler, callers of generate_stream() submit a request and *)
(* block until it completes, and the engine's destructor stops the worker. *)
(* The three meet on work_mutex, work_cv and done_cv.                      *)
(*                                                                         *)
(* The scheduler is its service specification: a step() completes any      *)
(* requests it owes.  step() holds the scheduler's own mutex, so a         *)
(* submit() never lands inside one.                                        *)
(*                                                                         *)
(* cv.wait(lock, pred) is three actions: pred is evaluated with the mutex  *)
(* held; if it is false the thread joins the wait set and releases the     *)
(* mutex in one action; a notify empties the wait set and the thread takes *)
(* the mutex again before it re-evaluates pred.                            *)
(***************************************************************************)
EXTENDS SchedulerService

CONSTANT Callers        \* HTTP connection threads inside generate_stream()

ASSUME CallersAssumption == "free" \notin Callers /\ "worker" \notin Callers

VARIABLES work_mutex,   \* the thread that holds it, or "free"
          stopping,
          worker,       \* where worker_loop() is
          more,         \* worker_loop()'s local: what the last step() returned
          caller,       \* where each caller is in generate_stream_impl()
          id,           \* the request each caller submitted last, 0 before
          stopper,      \* where ~Impl() is
          work_waits,   \* is the worker in work_cv's wait set?
          done_waits,   \* callers in done_cv's wait set
          missed        \* history: did a notify fall between a thread's
                        \* predicate and its wait?

servingVars == <<next_id, done, work_mutex, stopping, worker, more, caller, id,
                stopper, work_waits, done_waits, missed>>

schedulerState == <<next_id, done>>

Init == /\ ServiceInit
        /\ work_mutex = "free"
        /\ stopping = FALSE
        /\ worker = "start"
        /\ more = TRUE
        /\ caller = [c \in Callers |-> "start"]
        /\ id = [c \in Callers |-> 0]
        /\ stopper = "running"
        /\ work_waits = FALSE
        /\ done_waits = {}
        /\ missed = FALSE

-----------------------------------------------------------------------------
(* worker_loop() *)

\* lock() on entry, and lock() after the inner loop
WorkerLock ==
  /\ worker \in {"start", "relock"}
  /\ work_mutex = "free"
  /\ work_mutex' = "worker"
  /\ worker' = IF worker = "start" THEN "head" ELSE "pred"
  /\ UNCHANGED <<schedulerState, stopping, more, caller, id, stopper,
                 work_waits, done_waits, missed>>

\* while (!stopping): leave the function, or unlock and run the inner loop
WorkerHead ==
  /\ worker = "head"
  /\ work_mutex' = "free"
  /\ worker' = IF stopping THEN "exited" ELSE "step"
  /\ UNCHANGED <<schedulerState, stopping, more, caller, id, stopper,
                 work_waits, done_waits, missed>>

WorkerStepBegin ==
  /\ worker = "step"
  /\ worker' = "stepping"
  /\ UNCHANGED <<schedulerState, work_mutex, stopping, more, caller, id,
                 stopper, work_waits, done_waits, missed>>

\* inside step(): request i gets its completion entry
WorkerComplete(i) ==
  /\ worker = "stepping"
  /\ i \in Outstanding
  /\ \E res \in Outcomes : Complete({i}, res)
  /\ UNCHANGED <<work_mutex, stopping, worker, more, caller, id, stopper,
                 work_waits, done_waits, missed>>

WorkerStepEnd ==
  /\ worker = "stepping"
  /\ more' = (Outstanding # {})
  /\ worker' = "notify"
  /\ UNCHANGED <<schedulerState, work_mutex, stopping, caller, id, stopper,
                 work_waits, done_waits, missed>>

\* Mutant: completions are not announced.
WorkerNotifySkipped ==
  /\ worker = "notify"
  /\ UNCHANGED done_waits
  /\ missed' = (missed \/ \E c \in Callers : caller[c] = "block")
  /\ worker' = IF more THEN "step" ELSE "relock"
  /\ UNCHANGED <<schedulerState, work_mutex, stopping, more, caller, id,
                 stopper, work_waits>>

\* done_cv.notify_all(), without work_mutex
WorkerNotify ==
  /\ worker = "notify"
  /\ done_waits' = {}
  /\ missed' = (missed \/ \E c \in Callers : caller[c] = "block")
  /\ worker' = IF more THEN "step" ELSE "relock"
  /\ UNCHANGED <<schedulerState, work_mutex, stopping, more, caller, id,
                 stopper, work_waits>>

\* Mutant: the wait only looks for work.
WorkerPredForgetsStop ==
  /\ worker = "pred"
  /\ worker' = IF Outstanding # {} THEN "head" ELSE "block"
  /\ UNCHANGED <<schedulerState, work_mutex, stopping, more, caller, id,
                 stopper, work_waits, done_waits, missed>>

\* the predicate of work_cv.wait(): stopping || !scheduler->idle()
WorkerPred ==
  /\ worker = "pred"
  /\ worker' = IF stopping \/ Outstanding # {} THEN "head" ELSE "block"
  /\ UNCHANGED <<schedulerState, work_mutex, stopping, more, caller, id,
                 stopper, work_waits, done_waits, missed>>

WorkerBlock ==
  /\ worker = "block"
  /\ work_mutex' = "free"
  /\ work_waits' = TRUE
  /\ worker' = "asleep"
  /\ UNCHANGED <<schedulerState, stopping, more, caller, id, stopper,
                 done_waits, missed>>

WorkerWake ==
  /\ worker = "asleep"
  /\ ~work_waits
  /\ work_mutex = "free"
  /\ work_mutex' = "worker"
  /\ worker' = "pred"
  /\ UNCHANGED <<schedulerState, stopping, more, caller, id, stopper,
                 work_waits, done_waits, missed>>

-----------------------------------------------------------------------------
(* generate_stream_impl(), parallel mode *)

\* scheduler->submit(); a caller may come back with another request
CallerSubmit(c) ==
  /\ caller[c] \in {"start", "returned"}
  /\ worker # "stepping"
  /\ ServiceSubmit
  /\ id' = [id EXCEPT ![c] = next_id]
  /\ caller' = [caller EXCEPT ![c] = "notify"]
  /\ UNCHANGED <<work_mutex, stopping, worker, more, stopper, work_waits,
                 done_waits, missed>>

\* work_cv.notify_all(), without work_mutex
CallerNotify(c) ==
  /\ caller[c] = "notify"
  /\ work_waits' = FALSE
  /\ missed' = (missed \/ worker = "block")
  /\ caller' = [caller EXCEPT ![c] = "lock"]
  /\ UNCHANGED <<schedulerState, work_mutex, stopping, worker, more, id,
                 stopper, done_waits>>

CallerLock(c) ==
  /\ caller[c] = "lock"
  /\ work_mutex = "free"
  /\ work_mutex' = c
  /\ caller' = [caller EXCEPT ![c] = "pred"]
  /\ UNCHANGED <<schedulerState, stopping, worker, more, id, stopper,
                 work_waits, done_waits, missed>>

\* the predicate of done_cv.wait(): scheduler->finished(id) || stopping.
\* When it holds the caller reads error(id), unlocks and returns.
CallerPred(c) ==
  /\ caller[c] = "pred"
  /\ IF done[id[c]] # "absent" \/ stopping
     THEN /\ caller' = [caller EXCEPT ![c] = "returned"]
          /\ work_mutex' = "free"
     ELSE /\ caller' = [caller EXCEPT ![c] = "block"]
          /\ UNCHANGED work_mutex
  /\ UNCHANGED <<schedulerState, stopping, worker, more, id, stopper,
                 work_waits, done_waits, missed>>

CallerBlock(c) ==
  /\ caller[c] = "block"
  /\ work_mutex' = "free"
  /\ done_waits' = done_waits \cup {c}
  /\ caller' = [caller EXCEPT ![c] = "asleep"]
  /\ UNCHANGED <<schedulerState, stopping, worker, more, id, stopper,
                 work_waits, missed>>

\* Mutant: a wakeup is taken for a completion.
CallerWakeReturns(c) ==
  /\ caller[c] = "asleep"
  /\ c \notin done_waits
  /\ work_mutex = "free"
  /\ caller' = [caller EXCEPT ![c] = "returned"]
  /\ UNCHANGED <<schedulerState, work_mutex, stopping, worker, more, id,
                 stopper, work_waits, done_waits, missed>>

CallerWake(c) ==
  /\ caller[c] = "asleep"
  /\ c \notin done_waits
  /\ work_mutex = "free"
  /\ work_mutex' = c
  /\ caller' = [caller EXCEPT ![c] = "pred"]
  /\ UNCHANGED <<schedulerState, stopping, worker, more, id, stopper,
                 work_waits, done_waits, missed>>

-----------------------------------------------------------------------------
(* ~Impl() *)

\* Mutant: the flag is set without the lock_guard.
StopSetUnlocked ==
  /\ stopper = "running"
  /\ stopping' = TRUE
  /\ stopper' = "notify"
  /\ UNCHANGED <<schedulerState, work_mutex, worker, more, caller, id,
                 work_waits, done_waits, missed>>

\* { lock_guard lock(work_mutex); stopping = true; }
StopSet ==
  /\ stopper = "running"
  /\ work_mutex = "free"
  /\ stopping' = TRUE
  /\ stopper' = "notify"
  /\ UNCHANGED <<schedulerState, work_mutex, worker, more, caller, id,
                 work_waits, done_waits, missed>>

\* work_cv.notify_all()
StopNotify ==
  /\ stopper = "notify"
  /\ work_waits' = FALSE
  /\ stopper' = "join"
  /\ UNCHANGED <<schedulerState, work_mutex, stopping, worker, more, caller,
                 id, done_waits, missed>>

StopJoin ==
  /\ stopper = "join"
  /\ worker = "exited"
  /\ stopper' = "joined"
  /\ UNCHANGED <<schedulerState, work_mutex, stopping, worker, more, caller,
                 id, work_waits, done_waits, missed>>

-----------------------------------------------------------------------------
WorkerNext == \/ WorkerLock
              \/ WorkerHead
              \/ WorkerStepBegin
              \/ \E i \in Ids : WorkerComplete(i)
              \/ WorkerStepEnd
              \/ WorkerNotify
              \/ WorkerPred
              \/ WorkerBlock
              \/ WorkerWake

\* everything a caller does once it has submitted
CallerRest(c) == \/ CallerNotify(c)
                 \/ CallerLock(c)
                 \/ CallerPred(c)
                 \/ CallerBlock(c)
                 \/ CallerWake(c)

ServingNext == \/ WorkerNext
               \/ \E c \in Callers : CallerSubmit(c) \/ CallerRest(c)
               \/ StopSet
               \/ StopNotify
               \/ StopJoin

ServingSpec == Init /\ [][ServingNext]_servingVars

\* The scheduler runs every thread that can run.  A request the scheduler
\* is stepped for again and again completes: that is EveryRequestCompletes
\* of the Scheduler module.  Nobody is obliged to submit or to stop.
Fairness == /\ WF_servingVars(WorkerNext)
            /\ \A i \in Ids : SF_servingVars(WorkerComplete(i))
            /\ SF_servingVars(WorkerStepEnd)
            /\ \A c \in Callers : WF_servingVars(CallerRest(c))
            /\ WF_servingVars(StopNotify)
            /\ WF_servingVars(StopJoin)

ServingFairSpec == ServingSpec /\ Fairness

-----------------------------------------------------------------------------
(* Properties *)

\* Where each thread is, and the state the three kinds of thread share.
ServingTypeOK ==
  /\ ServiceTypeOK
  /\ work_mutex \in Callers \cup {"free", "worker"}
  /\ stopping \in BOOLEAN
  /\ worker \in {"start", "head", "step", "stepping", "notify", "relock",
                 "pred", "block", "asleep", "exited"}
  /\ more \in BOOLEAN
  /\ caller \in [Callers -> {"start", "notify", "lock", "pred", "block",
                             "asleep", "returned"}]
  /\ id \in [Callers -> 0..MaxRequests]
  /\ stopper \in {"running", "notify", "join", "joined"}
  /\ work_waits \in BOOLEAN
  /\ done_waits \subseteq Callers
  /\ missed \in BOOLEAN

\* work_mutex is held by exactly the thread that is between its lock and
\* its unlock or wait: no two threads evaluate their predicates at once and
\* no thread sleeps with the mutex.
MutexHeldInside ==
  /\ worker \in {"head", "pred", "block"} <=> work_mutex = "worker"
  /\ \A c \in Callers : caller[c] \in {"pred", "block"} <=> work_mutex = c

\* The destructor's wakeup cannot be lost: once ~Impl() has notified, the
\* worker is not, and never again will be, in work_cv's wait set.
StopWakeupNotLost == stopper \in {"join", "joined"} => ~work_waits

\* Why: the worker decides to wait with the mutex held, and ~Impl() sets
\* stopping under the same mutex, so no decision is pending when it is set.
NoWaitAfterStop ==
  /\ stopper # "running" <=> stopping
  /\ stopping => worker # "block"
  /\ work_waits => worker = "asleep"

\* A caller waits for an id that submit() handed out.
WaitsForOwnRequest ==
  \A c \in Callers : caller[c] # "start" => id[c] \in 1..(next_id - 1)

\* generate_stream() returns only with its request completed, or when the
\* engine is being destroyed.
ReturnsCompletedOrStopping ==
  \A c \in Callers :
    caller[c] = "returned" => done[id[c]] # "absent" \/ stopping

\* worker.join() in the destructor returns: the worker drains what it owes
\* and leaves its loop.
StopTerminates == (stopper = "notify") ~> (stopper = "joined")

\* Every call returns with its request done, unless the engine is being
\* destroyed or a notify fell between a predicate and its wait: that window,
\* open because both notifies are sent without work_mutex, is the only way
\* for a request to be queued, or done, with everybody asleep.
CallsReturn ==
  \A c \in Callers :
    (caller[c] = "notify") ~> (caller[c] = "returned" \/ stopping \/ missed)

-----------------------------------------------------------------------------
(* What the comments of the code claim *)

\* The wait's predicate guards against a submit that lands between the last
\* step() and the wait: a worker asleep with work queued wakes up.
WorkerSeesWork ==
  (worker = "asleep" /\ Outstanding # {}) ~> (worker # "asleep")
=============================================================================
