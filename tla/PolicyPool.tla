----------------------------- MODULE PolicyPool -----------------------------
(***************************************************************************)
(* PolicyPool and the DaemonThreadPools it owns one after the other        *)
(* (_pool.py), with the callers that evaluate policies on them under a     *)
(* deadline (guard.py _run_policy, stream.py _evaluate, langchain.py       *)
(* _run_policy).                                                           *)
(*                                                                         *)
(* Callers run on any thread or event loop, workers on their own threads.  *)
(* A step is what one thread does under one lock, or one call of a queue   *)
(* or of a semaphore.  A pool is known by the generation it was created    *)
(* in.  A timed-out run cannot be interrupted: it keeps its worker, or its *)
(* place in the queue.                                                     *)
(***************************************************************************)
EXTENDS Naturals, Sequences, SequencesExt

CONSTANTS
    Runs,             \* policy runs, each submitted at most once
    MaxWorkers,       \* max_workers
    MaxGenerations,   \* bound: pools created
    Sentinel          \* the queue item that ends a worker

ASSUME PoolAssumption ==
    /\ IsFiniteSet(Runs) /\ Sentinel \notin Runs
    /\ MaxWorkers \in Nat \ {0}
    /\ MaxGenerations \in Nat

Generations == 0 .. MaxGenerations

VARIABLES
    live,         \* PolicyPool._pool is not None
    generation,   \* PolicyPool._generation
    orphans,      \* PolicyPool._orphans
    retiring,     \* pools taken out of service whose shutdown() is still to be called
    closed,       \* DaemonThreadPool._is_shutdown of each generation's pool
    queue,        \* DaemonThreadPool._queue: runs, then sentinels
    threads,      \* len(DaemonThreadPool._threads)
    permits,      \* DaemonThreadPool._idle
    waiting,      \* workers blocked in queue.get
    finishing,    \* workers between a result and idle.release
    stage,        \* what has become of each run
    caller,       \* what the caller of each run is doing
    origin        \* the generation each run was scheduled against

registry == <<live, generation, orphans, retiring>>
workers == <<threads, permits, waiting, finishing>>
vars == <<registry, closed, queue, workers, stage, caller, origin>>

Stages == {"new", "acquired", "refused", "queued", "running", "done"}
Callers == {"none", "waiting", "late", "noted", "over"}

At(g, s) == {r \in Runs : stage[r] = s /\ origin[r] = g}
Noted(g) == {r \in Runs : caller[r] = "noted" /\ origin[r] = g}
Backlog(g) == Cardinality(At(g, "queued"))

Init ==
    /\ live = FALSE /\ generation = 0 /\ orphans = 0 /\ retiring = {}
    /\ closed = [g \in Generations |-> FALSE]
    /\ queue = [g \in Generations |-> <<>>]
    /\ threads = [g \in Generations |-> 0]
    /\ permits = [g \in Generations |-> 0]
    /\ waiting = [g \in Generations |-> 0]
    /\ finishing = [g \in Generations |-> 0]
    /\ stage = [r \in Runs |-> "new"]
    /\ caller = [r \in Runs |-> "none"]
    /\ origin = [r \in Runs |-> 0]

-----------------------------------------------------------------------------
(* A caller starts a run *)

\* PolicyPool.acquire.
Acquire(r) ==
    /\ stage[r] = "new"
    /\ live \/ generation < MaxGenerations
    /\ live' = TRUE
    /\ orphans' = IF live THEN orphans ELSE 0
    /\ stage' = [stage EXCEPT ![r] = "acquired"]
    /\ origin' = [origin EXCEPT ![r] = generation]
    /\ UNCHANGED <<generation, retiring, closed, queue, workers, caller>>

\* _ensure_worker: an idle permit, a new thread, or neither at capacity.  Mutants:
\* the capacity is not looked at; the semaphore is looked at and not acquired.
Mut_NoCapacity(g) ==
    /\ IF permits[g] > 0
       THEN permits' = [permits EXCEPT ![g] = @ - 1] /\ UNCHANGED <<threads, waiting>>
       ELSE /\ threads' = [threads EXCEPT ![g] = @ + 1]
            /\ waiting' = [waiting EXCEPT ![g] = @ + 1]
            /\ UNCHANGED permits
    /\ UNCHANGED finishing
Mut_PeekPermit(g) ==
    /\ IF permits[g] = 0 /\ threads[g] < MaxWorkers
       THEN /\ threads' = [threads EXCEPT ![g] = @ + 1]
            /\ waiting' = [waiting EXCEPT ![g] = @ + 1]
       ELSE UNCHANGED <<threads, waiting>>
    /\ UNCHANGED <<permits, finishing>>
EnsureWorker(g) ==
    /\ \/ /\ permits[g] > 0
          /\ permits' = [permits EXCEPT ![g] = @ - 1]
          /\ UNCHANGED <<threads, waiting>>
       \/ /\ permits[g] = 0 /\ threads[g] < MaxWorkers
          /\ threads' = [threads EXCEPT ![g] = @ + 1]
          /\ waiting' = [waiting EXCEPT ![g] = @ + 1]
          /\ UNCHANGED permits
       \/ /\ permits[g] = 0 /\ threads[g] = MaxWorkers
          /\ UNCHANGED <<permits, threads, waiting>>
    /\ UNCHANGED finishing

\* The mutant of Accepts takes jobs after shutdown().
Mut_AcceptAlways(g) == g \in Generations
Accepts(g) == ~closed[g]

\* DaemonThreadPool.submit.  It raises when another thread has retired and shut the
\* pool since the caller acquired it.
Submit(r) ==
    /\ stage[r] = "acquired"
    /\ LET g == origin[r] IN
       \/ /\ Accepts(g)
          /\ queue' = [queue EXCEPT ![g] = Append(@, r)]
          /\ EnsureWorker(g)
          /\ stage' = [stage EXCEPT ![r] = "queued"]
          /\ caller' = [caller EXCEPT ![r] = "waiting"]
       \/ /\ ~Accepts(g)
          /\ stage' = [stage EXCEPT ![r] = "refused"]
          /\ caller' = [caller EXCEPT ![r] = "over"]
          /\ UNCHANGED <<queue, workers>>
    /\ UNCHANGED <<registry, closed, origin>>

-----------------------------------------------------------------------------
(* _worker *)

\* queue.get returns: a run, or the sentinel on which the worker exits.
Take(g) ==
    /\ waiting[g] > 0 /\ queue[g] # <<>>
    /\ LET item == Head(queue[g]) IN
       stage' = IF item = Sentinel THEN stage ELSE [stage EXCEPT ![item] = "running"]
    /\ queue' = [queue EXCEPT ![g] = Tail(@)]
    /\ waiting' = [waiting EXCEPT ![g] = @ - 1]
    /\ UNCHANGED <<registry, closed, threads, permits, finishing, caller, origin>>

\* The policy returns or raises; the future has its result.
Return(r) ==
    /\ stage[r] = "running"
    /\ stage' = [stage EXCEPT ![r] = "done"]
    /\ finishing' = [finishing EXCEPT ![origin[r]] = @ + 1]
    /\ UNCHANGED <<registry, closed, queue, threads, permits, waiting, caller, origin>>

\* idle.release, and back to queue.get.
Release(g) ==
    /\ finishing[g] > 0
    /\ finishing' = [finishing EXCEPT ![g] = @ - 1]
    /\ permits' = [permits EXCEPT ![g] = @ + 1]
    /\ waiting' = [waiting EXCEPT ![g] = @ + 1]
    /\ UNCHANGED <<registry, closed, queue, threads, stage, caller, origin>>

-----------------------------------------------------------------------------
(* How a caller's wait ends *)

Answer(r) ==
    /\ caller[r] = "waiting" /\ stage[r] = "done"
    /\ caller' = [caller EXCEPT ![r] = "over"]
    /\ UNCHANGED <<registry, closed, queue, workers, stage, origin>>

\* The deadline passes.  The run may be queued still, running, or done without
\* the caller having seen it yet.
TimeOut(r) ==
    /\ caller[r] = "waiting"
    /\ caller' = [caller EXCEPT ![r] = "late"]
    /\ UNCHANGED <<registry, closed, queue, workers, stage, origin>>

\* The caller's task is cancelled in its await: nobody notes the run.
Abandon(r) ==
    /\ caller[r] = "waiting"
    /\ caller' = [caller EXCEPT ![r] = "over"]
    /\ UNCHANGED <<registry, closed, queue, workers, stage, origin>>

\* Taking the pool out of service, as note_orphan and shutdown do under the lock.
Retire ==
    /\ live' = FALSE
    /\ generation' = generation + 1
    /\ orphans' = 0
    /\ retiring' = retiring \cup {generation}

\* The mutant counts the orphans of every generation.
Mut_CountsAll(r) == r \in Runs
Counts(r) == origin[r] = generation
AllLost == orphans + 1 >= MaxWorkers

\* note_orphan under its lock.
NoteOrphan(r) ==
    /\ caller[r] = "late"
    /\ caller' = [caller EXCEPT ![r] = "noted"]
    /\ \/ /\ Counts(r) /\ live /\ AllLost
          /\ Retire
       \/ /\ Counts(r) /\ ~(live /\ AllLost)
          /\ orphans' = orphans + 1
          /\ UNCHANGED <<live, generation, retiring>>
       \/ ~Counts(r) /\ UNCHANGED registry
    /\ UNCHANGED <<closed, queue, workers, stage, origin>>

\* _done, when the future completes or has completed already.  The mutant forgets
\* to give the orphan back.
Mut_Settle(r) ==
    /\ caller[r] = "noted" /\ stage[r] = "done"
    /\ caller' = [caller EXCEPT ![r] = "over"]
    /\ UNCHANGED <<registry, closed, queue, workers, stage, origin>>
Settle(r) ==
    /\ caller[r] = "noted" /\ stage[r] = "done"
    /\ caller' = [caller EXCEPT ![r] = "over"]
    /\ orphans' = IF origin[r] = generation /\ orphans > 0 THEN orphans - 1 ELSE orphans
    /\ UNCHANGED <<live, generation, retiring, closed, queue, workers, stage, origin>>

-----------------------------------------------------------------------------
(* Shutting down *)

\* PolicyPool.shutdown under its lock.
Shutdown ==
    /\ live
    /\ Retire
    /\ UNCHANGED <<closed, queue, workers, stage, caller, origin>>

\* DaemonThreadPool.shutdown(wait=False).  Nobody else puts after the flag is set,
\* so the flag and the sentinels, one for each thread, are one step.  Mutants:
\* one sentinel short; sentinels that overtake the queued runs.
Mut_OneShort(g) == queue[g] \o [i \in 1 .. (threads[g] - 1) |-> Sentinel]
Mut_Overtake(g) == [i \in 1 .. threads[g] |-> Sentinel] \o queue[g]
WithSentinels(g) == queue[g] \o [i \in 1 .. threads[g] |-> Sentinel]

Close(g) ==
    /\ g \in retiring
    /\ retiring' = retiring \ {g}
    /\ closed' = [closed EXCEPT ![g] = TRUE]
    /\ queue' = [queue EXCEPT ![g] = WithSentinels(g)]
    /\ UNCHANGED <<live, generation, orphans, workers, stage, caller, origin>>

-----------------------------------------------------------------------------
Call(r) == Acquire(r) \/ Submit(r) \/ Answer(r) \/ TimeOut(r) \/ Abandon(r) \/ NoteOrphan(r)
           \/ Settle(r)
Work(g) == Take(g) \/ Release(g) \/ Close(g)

Next ==
    \/ \E r \in Runs : Call(r) \/ Return(r)
    \/ \E g \in Generations : Work(g)
    \/ Shutdown

Spec == Init /\ [][Next]_vars

\* Threads are scheduled, and every policy returns some day (a policy that never
\* returns is a run for which only safety is claimed).
FairSpec ==
    /\ Spec
    /\ \A g \in Generations : WF_vars(Take(g)) /\ WF_vars(Release(g)) /\ WF_vars(Close(g))
    /\ \A r \in Runs : WF_vars(Return(r))

-----------------------------------------------------------------------------
RegistryOK ==
    /\ live \in BOOLEAN /\ generation \in Generations /\ orphans \in Nat
    /\ retiring \subseteq Generations
    /\ live => generation < MaxGenerations
PoolsOK ==
    /\ closed \in [Generations -> BOOLEAN]
    /\ queue \in [Generations -> Seq(Runs \cup {Sentinel})]
    /\ threads \in [Generations -> 0 .. MaxWorkers]
    /\ permits \in [Generations -> Nat] /\ waiting \in [Generations -> Nat]
    /\ finishing \in [Generations -> Nat]
RunsOK ==
    /\ stage \in [Runs -> Stages] /\ caller \in [Runs -> Callers]
    /\ origin \in [Runs -> Generations]

\* Types and limits: a pool never has more than max_workers threads.
TypeOK == RegistryOK /\ PoolsOK /\ RunsOK

\* "an idle worker is reused rather than growing the pool": while a pool may still
\* grow, no queued run has to wait for a worker that is busy: the workers blocked
\* in queue.get are at least as many as the queued runs, although permits are
\* released before, and independently of, the next queue.get.
NoRunWaitsBelowCapacity ==
    \A g \in Generations :
        threads[g] < MaxWorkers => Backlog(g) <= waiting[g]

\* The orphan counter is exact: it counts the runs of the current generation that
\* were noted and have not completed since, and a pool in service never has as
\* many of them as workers.  Runs whose caller was cancelled are never noted: a pool
\* that has lost its workers to those is not known to be stuck.
OrphansExact ==
    /\ orphans = Cardinality(Noted(generation))
    /\ live => orphans < MaxWorkers

\* Retirement does not strand a run it had accepted: the queue of a pool is its queued
\* runs, and behind them, once it is closed, one sentinel for each worker that is
\* still there; runs are queued only where a worker is left to take them.
Alive(g) == waiting[g] + finishing[g] + Cardinality(At(g, "running"))
NothingStranded ==
    \A g \in Generations :
        /\ Backlog(g) <= Len(queue[g])
        /\ {queue[g][i] : i \in 1 .. Backlog(g)} = At(g, "queued")
        /\ \A i \in Backlog(g) + 1 .. Len(queue[g]) : queue[g][i] = Sentinel
        /\ closed[g] => Len(queue[g]) = Backlog(g) + Alive(g)
        /\ Backlog(g) > 0 => Alive(g) > 0

\* "orphans belonging to the retired pool no longer count against - or retire -
\* the fresh one": a pool is retired for timeouts only when as many of its own
\* runs as it has workers are noted.
RetiredByItsOwn ==
    [][\A r \in Runs :
          (caller[r] = "late" /\ caller'[r] = "noted" /\ generation' # generation)
              => Cardinality(Noted(generation) \cup {r}) = MaxWorkers]_vars

\* What submit() accepted is run, across retirement and shutdown, when policies
\* return.
AcceptedRuns == \A r \in Runs : stage[r] = "queued" ~> stage[r] = "done"

\* The threads of a retired pool come to an end.
WorkersLeave == \A g \in Generations : closed[g] ~> Alive(g) = 0
=============================================================================
