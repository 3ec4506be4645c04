------------------------------ MODULE Reporter ------------------------------
(***************************************************************************)
(* EventReporter (transport/reporter.py) with its DeadLetterQueue          *)
(* (transport/dead_letter.py) and the process that owns them.              *)
(*                                                                         *)
(* All the coroutines of a reporter run on one event loop, so a stretch of *)
(* code without an await is one step.  Three tasks may be inside _flush:   *)
(* the background loop, stop() with its final attempts, and a caller that  *)
(* flushes by hand (README.md:187).  They meet at _flush_lock and share    *)
(* the buffer, the circuit breaker and the counters.                       *)
(*                                                                         *)
(* An event is its rank in the order of production.  Its "__retry_count"   *)
(* key travels with it while it is in memory, so it is one function        *)
(* `tries` of the event.  HeldOnce makes that exact, but for the events a  *)
(* failing recover() has copied: their keys are left open.                 *)
(***************************************************************************)
EXTENDS Naturals, Sequences, SequencesExt

CONSTANTS
    Capacity,     \* buffer_max_size
    BatchSize,    \* batch_size
    MaxRetries,   \* max_retries
    Threshold,    \* circuit_break_threshold
    MaxEvents,    \* bound: events produced over all processes
    MaxStarts,    \* bound: calls of start() over all processes
    Faults        \* which faults and uses the environment may show

AllFaults == {"external_flush", "runtime_error", "other_error",
              "partial_accept", "disk_full", "recovery_failure", "crash"}

\* models/config.py bounds the configuration (max_retries may be 0); the
\* buffer size is EventReporter's default and is never 0.
ASSUME ConstantsAssumption ==
    /\ Capacity \in Nat \ {0}
    /\ BatchSize \in Nat \ {0}
    /\ MaxRetries \in Nat
    /\ Threshold \in Nat \ {0}
    /\ MaxEvents \in Nat
    /\ MaxStarts \in Nat
    /\ Faults \subseteq AllFaults

Events == 1 .. MaxEvents
Flushers == {"loop", "stop", "caller"}
NoFlusher == "nobody"

VARIABLES
    running,      \* self._running
    client,       \* self._client is not None
    stopPc,       \* where stop() is: none, flushing, closing, stopped, raised
    attempts,     \* iterations of stop()'s flush loop so far
    before,       \* pending_before of the current iteration
    buffer,       \* self._buffer
    tries,        \* the retry key of each event, 0 when it is absent
    lock,         \* holder of self._flush_lock
    pc,           \* where each task is in _flush
    batch,        \* the batch each task has popped and not yet disposed of
    failures,     \* self._consecutive_failures
    circuit,      \* closed, open, or cooled: open with the cooldown elapsed
    sent, dropped, overflows,   \* the counters behind `metrics`
    dlq,          \* dead_letter.jsonl, oldest line first
    rejected      \* rejected.jsonl

VARIABLES         \* the environment, and history used only by the properties
    produced,     \* events produced so far
    starts,       \* calls of start() so far
    trial,        \* the breaker was reset by an elapsed cooldown, no POST has ended since
    verdict,      \* the platform's last word on each event
    lost,         \* events that are nowhere any more
    stopMark,     \* events produced before the latest stop()
    taken,        \* events this process was handed: enqueued or recovered
    drained,      \* events stop() moved from the buffer to the file
    forgone,      \* events this process lost without counting them
    copied,       \* events a failing recover() handed over and left in the file
    late          \* POSTs begun since the breaker opened, 0 while it is not open

life == <<running, client, stopPc, attempts, before, stopMark>>
flushing == <<lock, pc, batch>>
breaker == <<failures, circuit, trial, late>>
metrics == <<sent, dropped, overflows>>
disk == <<dlq, rejected>>
history == <<starts, verdict, lost, taken, drained, forgone, copied>>
vars == <<life, buffer, tries, flushing, breaker, metrics, disk, produced, history>>

-----------------------------------------------------------------------------
(* Helpers *)

Lesser(m, n) == IF m < n THEN m ELSE n

\* How many entries deque(maxlen=Capacity) sheds at its old end to hold s.
Excess(s) == IF Len(s) > Capacity THEN Len(s) - Capacity ELSE 0

\* Mutants of KeepNewest: an unbounded deque; one that sheds the new entries.
Mut_KeepAll(s) == s
Mut_KeepOldest(s) == SubSeq(s, 1, Lesser(Capacity, Len(s)))
KeepNewest(s) == SubSeq(s, Excess(s) + 1, Len(s))

\* _append_bounded, for the events that turn the buffer into s.  The mutant is
\* the plain deque append its docstring recalls: nothing is counted.
Mut_AppendSilently(s) ==
    /\ buffer' = KeepNewest(s)
    /\ UNCHANGED <<dropped, overflows>>
    /\ lost' = lost \cup ToSet(SubSeq(s, 1, Excess(s)))
AppendBounded(s) ==
    /\ buffer' = KeepNewest(s)
    /\ dropped' = dropped + Excess(s)
    /\ overflows' = overflows + Excess(s)
    /\ lost' = lost \cup ToSet(SubSeq(s, 1, Excess(s)))

\* One DeadLetterQueue.write per event of s; a failing write is swallowed.
Writes == IF "disk_full" \in Faults THEN BOOLEAN ELSE {TRUE}
WriteDlq(s, ok) ==
    /\ dlq' = IF ok THEN dlq \o s ELSE dlq
    /\ lost' = IF ok THEN lost ELSE lost \cup ToSet(s)

Started == running \/ stopPc # "none"

\* No task is between two awaits: any task may run.
Yielded == /\ \A f \in Flushers : pc[f] # "requeue"
           /\ ~(stopPc = "flushing" /\ pc["stop"] = "idle")

LockFree == lock = NoFlusher
Waiting == \E f \in Flushers : pc[f] = "waiting"

InFlight == UNION {ToSet(batch[f]) : f \in Flushers}
Held == ToSet(buffer) \cup InFlight

-----------------------------------------------------------------------------
Init ==
    /\ running = FALSE /\ client = FALSE
    /\ stopPc = "none" /\ attempts = 0 /\ before = 0 /\ stopMark = 0
    /\ buffer = <<>>
    /\ tries = [e \in Events |-> 0]
    /\ lock = NoFlusher
    /\ pc = [f \in Flushers |-> IF f = "loop" THEN "off" ELSE "idle"]
    /\ batch = [f \in Flushers |-> <<>>]
    /\ failures = 0 /\ circuit = "closed" /\ trial = FALSE
    /\ sent = 0 /\ dropped = 0 /\ overflows = 0
    /\ dlq = <<>> /\ rejected = {}
    /\ produced = 0 /\ starts = 0
    /\ verdict = [e \in Events |-> "none"]
    /\ lost = {}
    /\ taken = 0 /\ drained = 0 /\ forgone = 0
    /\ copied = {} /\ late = 0

-----------------------------------------------------------------------------
(* start, enqueue *)

\* The lines recover() reads: dead_letter.jsonl.  The mutant also reads rejected.jsonl.
Mut_RecoverRejected == dlq \o SetToSeq(rejected)
Recoverable == dlq

\* The recovered events go behind whatever the buffer still holds, shedding the
\* oldest of both.
Recovered(events) ==
    /\ AppendBounded(buffer \o events)
    /\ taken' = taken + Len(events)

\* recover() reads every line and unlinks the file.
RecoverAll ==
    /\ Recovered(Recoverable)
    /\ dlq' = <<>> /\ UNCHANGED copied

\* Reading fails after n lines, or unlink() does after the last one: recover()
\* hands over what it has read and the file stays as it is.
RecoverFailing ==
    /\ "recovery_failure" \in Faults
    /\ \E n \in 0 .. Len(Recoverable) :
       /\ Recovered(SubSeq(Recoverable, 1, n))
       /\ copied' = copied \cup ToSet(SubSeq(Recoverable, 1, n))
    /\ UNCHANGED dlq

\* start()
Start ==
    /\ ~running /\ stopPc \in {"none", "stopped", "raised"} /\ Yielded /\ ~Waiting
    /\ starts < MaxStarts
    /\ running' = TRUE /\ client' = TRUE /\ stopPc' = "none"
    /\ lock' = NoFlusher
    /\ pc' = [pc EXCEPT !["loop"] = "idle"]
    /\ RecoverAll \/ RecoverFailing
    /\ starts' = starts + 1
    /\ UNCHANGED <<attempts, before, stopMark, tries, batch, breaker, sent, rejected,
                   produced, verdict, drained, forgone>>

\* enqueue() through _append_bounded.
Enqueue ==
    /\ Started /\ Yielded /\ produced < MaxEvents
    /\ produced' = produced + 1
    /\ taken' = taken + 1
    /\ AppendBounded(Append(buffer, produced + 1))
    /\ UNCHANGED <<life, tries, flushing, breaker, sent, disk, starts, verdict,
                   drained, forgone, copied>>

\* enqueue() when serialize() raises.
EnqueueUnserialisable ==
    /\ Started /\ Yielded /\ produced < MaxEvents
    /\ produced' = produced + 1
    /\ taken' = taken + 1
    /\ dropped' = dropped + 1
    /\ lost' = lost \cup {produced + 1}
    /\ UNCHANGED <<life, buffer, tries, flushing, breaker, sent, overflows, disk,
                   starts, verdict, drained, forgone, copied>>

-----------------------------------------------------------------------------
(* _flush *)

\* The batch is the oldest BatchSize events; the POST starts.  The mutant peeks.
Mut_PeekBatch(f) ==
    /\ batch' = [batch EXCEPT ![f] = SubSeq(buffer, 1, Lesser(BatchSize, Len(buffer)))]
    /\ UNCHANGED buffer
PopBatch(f) ==
    LET n == Lesser(BatchSize, Len(buffer)) IN
    /\ batch' = [batch EXCEPT ![f] = SubSeq(buffer, 1, n)]
    /\ buffer' = SubSeq(buffer, n + 1, Len(buffer))

\* A POST begins, late when the breaker is open.
BeginPost(f) ==
    /\ lock' = f
    /\ pc' = [pc EXCEPT ![f] = "posting"]
    /\ PopBatch(f)
    /\ late' = IF circuit = "open" THEN late + 1 ELSE late

\* The early returns of _flush.  Mutants: no look at the breaker; a breaker that
\* is never half-open.
Mut_IgnoreBreaker == buffer # <<>> /\ client
Mut_NeverHalfOpen == buffer # <<>> /\ client /\ circuit = "closed"
MayFlush == buffer # <<>> /\ client /\ circuit # "open"

\* _flush up to its first await.  A cooled breaker is reset on the way in.  An
\* asyncio.Lock is taken at once when it is free and nobody waits for it.
EnterFlush(f) ==
    /\ MayFlush
    /\ circuit' = IF circuit = "cooled" THEN "closed" ELSE circuit
    /\ failures' = IF circuit = "cooled" THEN 0 ELSE failures
    /\ trial' = (trial \/ circuit = "cooled")
    /\ IF LockFree /\ ~Waiting
       THEN BeginPost(f)
       ELSE /\ pc' = [pc EXCEPT ![f] = "waiting"]
            /\ UNCHANGED <<lock, buffer, batch, late>>
    /\ UNCHANGED <<tries, metrics, disk, produced, history>>

\* _flush_loop after its sleep.
LoopTick ==
    /\ pc["loop"] = "idle" /\ Yielded
    /\ EnterFlush("loop")
    /\ UNCHANGED life

CallerFlush ==
    /\ "external_flush" \in Faults
    /\ pc["caller"] = "idle" /\ Yielded
    /\ EnterFlush("caller")
    /\ UNCHANGED life

\* A waiter is woken with the lock.  The buffer may have been emptied meanwhile.
Acquire(f) ==
    /\ pc[f] = "waiting" /\ LockFree /\ Yielded
    /\ \/ /\ buffer = <<>>
          /\ pc' = [pc EXCEPT ![f] = "idle"]
          /\ UNCHANGED <<lock, buffer, batch, late>>
       \/ buffer # <<>> /\ client /\ BeginPost(f)
    /\ UNCHANGED <<life, tries, failures, circuit, trial, metrics, disk, produced, history>>

\* stop() has closed the client since: None.post raises out of _flush and the
\* popped batch goes with it.
AcquireClosed(f) ==
    /\ pc[f] = "waiting" /\ LockFree /\ Yielded
    /\ buffer # <<>> /\ ~client
    /\ LET n == Lesser(BatchSize, Len(buffer)) IN
       /\ buffer' = SubSeq(buffer, n + 1, Len(buffer))
       /\ lost' = lost \cup ToSet(SubSeq(buffer, 1, n))
       /\ forgone' = forgone + n
    /\ pc' = [pc EXCEPT ![f] = "idle"]
    /\ UNCHANGED <<life, tries, lock, batch, breaker, metrics, disk, produced,
                   starts, verdict, taken, drained, copied>>

\* Leaving `async with self._flush_lock`.  The lock may be that of an earlier start().
\* The mutant leaves it locked.
Mut_NotReleased(f) == IF f = NoFlusher THEN NoFlusher ELSE lock
Released(f) == IF lock = f THEN NoFlusher ELSE lock

\* 2xx.  The platform takes the first k events of the batch and says how many.
PostAccepted(f, k) ==
    /\ pc[f] = "posting" /\ Yielded
    /\ k \in 0 .. Len(batch[f])
    /\ "partial_accept" \in Faults \/ k = Len(batch[f])
    /\ failures' = 0 /\ trial' = FALSE
    /\ sent' = sent + k
    /\ verdict' = [e \in Events |-> IF e \in ToSet(SubSeq(batch[f], 1, k))
                                    THEN "accepted" ELSE verdict[e]]
    /\ lost' = lost \cup ToSet(SubSeq(batch[f], k + 1, Len(batch[f])))
    /\ forgone' = forgone + (Len(batch[f]) - k)
    /\ batch' = [batch EXCEPT ![f] = <<>>]
    /\ lock' = Released(f)
    /\ pc' = [pc EXCEPT ![f] = "idle"]
    /\ UNCHANGED <<life, buffer, tries, circuit, late, dropped, overflows, disk, produced,
                   starts, taken, drained, copied>>

\* 400, 401, 403, 422: to rejected.jsonl, without a retry and without the breaker.
PostRejected(f) ==
    /\ pc[f] = "posting" /\ Yielded
    /\ trial' = FALSE
    /\ tries' = [e \in Events |-> IF e \in ToSet(batch[f]) THEN 0 ELSE tries[e]]
    /\ dropped' = dropped + Len(batch[f])
    /\ \E ok \in Writes :
       /\ rejected' = IF ok THEN rejected \cup ToSet(batch[f]) ELSE rejected
       /\ lost' = IF ok THEN lost ELSE lost \cup ToSet(batch[f])
    /\ verdict' = [e \in Events |-> IF e \in ToSet(batch[f]) THEN "refused" ELSE verdict[e]]
    /\ batch' = [batch EXCEPT ![f] = <<>>]
    /\ lock' = Released(f)
    /\ pc' = [pc EXCEPT ![f] = "idle"]
    /\ UNCHANGED <<life, buffer, failures, circuit, late, sent, overflows, dlq, produced,
                   starts, taken, drained, forgone, copied>>

\* 429, any other status, or a network error: _handle_transient_failure up to
\* the call of _requeue_or_dead_letter, whose iterations follow at once.
PostFailed(f) ==
    /\ pc[f] = "posting" /\ Yielded
    /\ failures' = failures + 1
    /\ circuit' = IF failures + 1 >= Threshold THEN "open" ELSE circuit
    /\ trial' = FALSE
    /\ pc' = [pc EXCEPT ![f] = "requeue"]
    /\ UNCHANGED <<life, buffer, tries, lock, batch, late, metrics, disk, produced, history>>

\* appendleft; the mutant appends.
Mut_PutBehind(e) == Append(buffer, e)
PutBack(e) == <<e>> \o buffer

\* The retry key of the copy of e in a batch.
Keys(e) == IF e \in copied THEN 0 .. MaxRetries ELSE {tries[e]}

\* One iteration of _requeue_or_dead_letter, on the youngest event of the batch;
\* the last one returns from _flush, through the backoff unless stop() has begun.
Requeue(f) ==
    /\ pc[f] = "requeue"
    /\ LET e == Last(batch[f]) IN \E key \in Keys(e) :
       /\ tries' = [tries EXCEPT ![e] = IF key < MaxRetries THEN key + 1 ELSE 0]
       /\ IF key < MaxRetries /\ Len(buffer) < Capacity
          THEN /\ buffer' = PutBack(e)
               /\ UNCHANGED <<dropped, dlq, lost>>
          ELSE /\ dropped' = dropped + 1
               /\ \E ok \in Writes : WriteDlq(<<e>>, ok)
               /\ UNCHANGED buffer
    /\ batch' = [batch EXCEPT ![f] = Front(@)]
    /\ IF Len(batch[f]) = 1
       THEN /\ lock' = Released(f)
            /\ pc' = [pc EXCEPT ![f] = IF running THEN "backoff" ELSE "idle"]
       ELSE UNCHANGED <<lock, pc>>
    /\ UNCHANGED <<life, breaker, sent, overflows, rejected, produced, starts, verdict,
                   taken, drained, forgone, copied>>

BackoffOver(f) ==
    /\ pc[f] = "backoff" /\ Yielded
    /\ pc' = [pc EXCEPT ![f] = "idle"]
    /\ UNCHANGED <<life, buffer, tries, lock, batch, breaker, metrics, disk, produced,
                   history>>

\* post() raises something that is not an httpx error.  Nobody catches it in
\* _flush: it ends the background task, and stop() treats its own attempts as over.
PostBroken(f, kind) ==
    /\ pc[f] = "posting" /\ Yielded
    /\ kind \in Faults \cap {"runtime_error", "other_error"}
    /\ lost' = lost \cup ToSet(batch[f])
    /\ forgone' = forgone + Len(batch[f])
    /\ batch' = [batch EXCEPT ![f] = <<>>]
    /\ lock' = Released(f)
    /\ pc' = [pc EXCEPT ![f] = IF f # "loop" THEN "idle"
                               ELSE IF kind = "other_error" THEN "crashed" ELSE "off"]
    /\ attempts' = IF f = "stop" THEN 3 ELSE attempts
    /\ trial' = FALSE
    /\ UNCHANGED <<running, client, stopPc, before, stopMark, buffer, tries, failures, circuit,
                   late, metrics, disk, produced, starts, verdict, taken, drained, copied>>

\* The cooldown elapses.
Cooldown ==
    /\ circuit = "open" /\ Yielded
    /\ circuit' = "cooled" /\ late' = 0
    /\ UNCHANGED <<life, buffer, tries, flushing, failures, trial, metrics, disk, produced,
                   history>>

-----------------------------------------------------------------------------
(* stop *)

\* stop() until its flush loop: the background task is cancelled wherever it
\* waits, in the middle of a POST too, and awaited.  Awaiting a task that died of
\* anything but a RuntimeError raises that error out of stop().
StopBegin ==
    /\ Started /\ stopPc \notin {"flushing", "closing"} /\ Yielded
    /\ running' = FALSE
    /\ stopMark' = produced
    /\ attempts' = 0
    /\ stopPc' = IF pc["loop"] = "crashed" THEN "raised" ELSE "flushing"
    /\ pc' = [pc EXCEPT !["loop"] = "off"]
    /\ lock' = Released("loop")
    /\ lost' = lost \cup ToSet(batch["loop"])
    /\ forgone' = forgone + Len(batch["loop"])
    /\ batch' = [batch EXCEPT !["loop"] = <<>>]
    /\ trial' = (trial /\ batch["loop"] = <<>>)
    /\ UNCHANGED <<client, before, buffer, tries, failures, circuit, late, metrics, disk, produced,
                   starts, verdict, taken, drained, copied>>

StopMayTry == /\ attempts < 3 /\ buffer # <<>>
              /\ attempts > 0 => Len(buffer) < before

\* One iteration of the final flush loop.  A _flush that returns early changes
\* nothing, and the next look at the buffer sees no progress.
StopTry ==
    /\ stopPc = "flushing" /\ pc["stop"] = "idle"
    /\ \A f \in Flushers : pc[f] # "requeue"
    /\ StopMayTry
    /\ attempts' = attempts + 1
    /\ before' = Len(buffer)
    /\ IF MayFlush THEN EnterFlush("stop")
       ELSE UNCHANGED <<buffer, tries, flushing, breaker, metrics, disk, produced, history>>
    /\ UNCHANGED <<running, client, stopPc, stopMark>>

\* The rest of the buffer goes to the dead-letter file, without the retry key,
\* and the client is detached.  The mutant gives up when no attempt was left.
Mut_StopNoDrain ==
    /\ stopPc = "flushing" /\ pc["stop"] = "idle" /\ ~StopMayTry
    /\ \A f \in Flushers : pc[f] # "requeue"
    /\ stopPc' = "closing" /\ client' = FALSE
    /\ UNCHANGED <<running, attempts, before, stopMark, buffer, tries, flushing, breaker,
                   metrics, disk, produced, history>>
StopDrain ==
    /\ stopPc = "flushing" /\ pc["stop"] = "idle"
    /\ \A f \in Flushers : pc[f] # "requeue"
    /\ ~StopMayTry
    /\ stopPc' = "closing" /\ client' = FALSE
    /\ tries' = [e \in Events |-> IF e \in ToSet(buffer) THEN 0 ELSE tries[e]]
    /\ \E ok \in Writes : WriteDlq(buffer, ok)
    /\ drained' = drained + Len(buffer)
    /\ buffer' = <<>>
    /\ attempts' = 0 /\ before' = 0
    /\ UNCHANGED <<running, stopMark, flushing, breaker, metrics,
                   rejected, produced, starts, verdict, taken, forgone, copied>>

\* `await client.aclose()` returns.
StopEnd ==
    /\ stopPc = "closing" /\ Yielded
    /\ stopPc' = "stopped"
    /\ UNCHANGED <<running, client, attempts, before, stopMark, buffer, tries, flushing,
                   breaker, metrics, disk, produced, history>>

\* The process dies; the next one builds a fresh reporter over the same files.
Crash ==
    /\ "crash" \in Faults /\ Started
    /\ running' = FALSE /\ client' = FALSE
    /\ stopPc' = "none" /\ attempts' = 0 /\ before' = 0 /\ stopMark' = 0
    /\ buffer' = <<>>
    /\ lock' = NoFlusher
    /\ pc' = [f \in Flushers |-> IF f = "loop" THEN "off" ELSE "idle"]
    /\ batch' = [f \in Flushers |-> <<>>]
    /\ failures' = 0 /\ circuit' = "closed" /\ trial' = FALSE /\ late' = 0
    /\ sent' = 0 /\ dropped' = 0 /\ overflows' = 0
    /\ lost' = lost \cup Held
    /\ tries' = [e \in Events |-> IF e \in Held THEN 0 ELSE tries[e]]
    /\ taken' = 0 /\ drained' = 0 /\ forgone' = 0
    /\ UNCHANGED <<disk, produced, starts, verdict, copied>>

-----------------------------------------------------------------------------
Flush(f) ==
    \/ Acquire(f) \/ AcquireClosed(f)
    \/ \E k \in 0 .. BatchSize : PostAccepted(f, k)
    \/ PostRejected(f) \/ PostFailed(f) \/ Requeue(f) \/ BackoffOver(f)
    \/ \E kind \in Faults : PostBroken(f, kind)

Stop == StopBegin \/ StopTry \/ StopDrain \/ StopEnd

Next ==
    \/ Start \/ Enqueue \/ EnqueueUnserialisable
    \/ LoopTick \/ CallerFlush \/ \E f \in Flushers : Flush(f)
    \/ Cooldown \/ Stop \/ Crash

Spec == Init /\ [][Next]_vars
-----------------------------------------------------------------------------
(* Safety *)

Increasing(s) == \A i, j \in 1 .. Len(s) : i < j => s[i] < s[j]

StagesOK ==
    /\ running \in BOOLEAN /\ client \in BOOLEAN
    /\ stopPc \in {"none", "flushing", "closing", "stopped", "raised"}
    /\ attempts \in 0 .. 3 /\ before \in 0 .. Capacity
    /\ failures \in Nat /\ circuit \in {"closed", "open", "cooled"} /\ trial \in BOOLEAN
    /\ late \in Nat

QueueOK ==
    /\ buffer \in Seq(Events) /\ Len(buffer) <= Capacity
    /\ tries \in [Events -> 0 .. MaxRetries]
    /\ dlq \in Seq(Events) /\ rejected \subseteq Events

TasksOK ==
    /\ lock \in Flushers \cup {NoFlusher}
    /\ pc \in [Flushers -> {"off", "idle", "waiting", "posting", "requeue", "backoff",
                            "crashed"}]
    /\ batch \in [Flushers -> Seq(Events)]
    /\ \A f \in Flushers : /\ Len(batch[f]) <= BatchSize
                           /\ batch[f] # <<>> <=> pc[f] \in {"posting", "requeue"}

CountersOK ==
    /\ sent \in Nat /\ dropped \in Nat /\ overflows \in Nat
    /\ taken \in Nat /\ drained \in Nat /\ forgone \in Nat
    /\ produced \in 0 .. MaxEvents /\ starts \in 0 .. MaxStarts
    /\ stopMark \in 0 .. produced

HistoryOK ==
    /\ verdict \in [Events -> {"none", "accepted", "refused"}]
    /\ lost \subseteq Events /\ copied \subseteq Events

\* Types and limits: the buffer never outgrows its deque, a batch its size, a
\* retry key its budget, and a task in _flush holds a batch exactly when it
\* posts or requeues.
TypeOK == StagesOK /\ QueueOK /\ TasksOK /\ CountersOK /\ HistoryOK

\* An event that was produced is in memory, in a file, accepted by the platform,
\* or gone by a way the model names; no interleaving of flushes, stops, restarts
\* and failures makes it disappear on the way (buffer, batch, deque, files).
Kept ==
    \A e \in 1 .. produced :
        e \in Held \cup ToSet(dlq) \cup rejected \cup lost \/ verdict[e] = "accepted"

\* In s, no event twice but those of C.
OnceBut(s, C) == \A i, j \in DOMAIN s : s[i] = s[j] /\ s[i] \notin C => i = j

\* An event is in one place at most: once in one batch, the buffer or the
\* dead-letter file, and in none of them once it is lost.  Two tasks never post
\* the same event and a recovered event is never still in memory.  Only what a
\* recovery has handed over without clearing the file may be in several places.
HeldOnce ==
    /\ OnceBut(buffer, copied) /\ OnceBut(dlq, copied)
    /\ \A f \in Flushers : /\ OnceBut(batch[f], copied)
                           /\ ToSet(batch[f]) \cap ToSet(buffer) \subseteq copied
                           /\ ToSet(batch[f]) \cap ToSet(dlq) \subseteq copied
    /\ \A f, g \in Flushers : f # g => ToSet(batch[f]) \cap ToSet(batch[g]) \subseteq copied
    /\ ToSet(buffer) \cap ToSet(dlq) \subseteq copied
    /\ lost \cap (Held \cup ToSet(dlq)) \subseteq copied

\* Reporter docstring: a permanent rejection "cannot become a poison pill that is
\* re-POSTed forever".  Once the platform has accepted or refused an event, no
\* retry, shutdown, restart or recovery makes it a candidate for sending again,
\* unless a recovery that handed it over could not clear the file.
FinalVerdict ==
    \A e \in Events \ copied : verdict[e] # "none" => e \notin Held \cup ToSet(dlq)

InMemory == Len(buffer) + Len(batch["loop"]) + Len(batch["stop"]) + Len(batch["caller"])

\* The counters account for every event the process was handed: sent, counted as
\* dropped, still in memory, moved to disk by stop(), or one of the losses no
\* counter sees (a cancelled or broken POST, events the platform did not take).
Accounting == taken = sent + dropped + InMemory + drained + forgone

\* Requeueing keeps the order of production: until something has been recovered
\* from disk, every batch is older than the buffer, and both are in order.
OldestFirst ==
    starts <= 1 => \A f \in Flushers : Increasing(batch[f] \o buffer)

\* stop(): "Anything still buffered after the final flush attempt is written to
\* the dead-letter queue": what was produced before a stop() is not left in
\* memory by it, whatever the platform answered to the final attempts.
StopPersists ==
    stopPc \in {"closing", "stopped"} => \A e \in Held : e > stopMark

\* "Circuit breaker pauses reporting".  _flush looks at the breaker before it waits
\* for the lock, so a POST may begin while the breaker is open.  From the opening to
\* the end of the cooldown one does at most, that of the task that was past the check:
\* not a second one through the retries, through stop(), which takes the background
\* task's place, or through a start() that finds the breaker open.
OneLatePost == circuit = "open" => late <= 1

-----------------------------------------------------------------------------
(* What the module implements, and liveness *)

Standing(e) ==
    CASE e \in copied -> "copied"
      [] e \notin copied /\ verdict[e] # "none" -> verdict[e]
      [] e \notin copied /\ verdict[e] = "none" /\ e \in Held -> "pending"
      [] e \notin copied /\ verdict[e] = "none" /\ e \in ToSet(dlq) -> "saved"
      [] e \notin copied /\ verdict[e] = "none" /\ e \in lost -> "lost"
      [] OTHER -> "unborn"

Ledger == INSTANCE EventLedger WITH standing <- [e \in Events |-> Standing(e)]

\* The reporter moves every event only along the edges of EventLedger.
ImplementsLedger == Ledger!Spec

\* The event loop runs every ready task, every POST and close returns (the client
\* has timeouts), sleeps end.  Nobody is obliged to enqueue, to stop or to start.
Fairness ==
    /\ WF_vars(LoopTick) /\ WF_vars(Cooldown)
    /\ WF_vars(StopTry) /\ WF_vars(StopDrain) /\ WF_vars(StopEnd)
    /\ \A f \in Flushers :
        /\ WF_vars(Acquire(f) \/ AcquireClosed(f))
        /\ WF_vars(\/ \E k \in 0 .. BatchSize : PostAccepted(f, k)
                   \/ PostRejected(f) \/ PostFailed(f)
                   \/ \E kind \in Faults : PostBroken(f, kind))
        /\ WF_vars(Requeue(f)) /\ WF_vars(BackoffOver(f))

FairSpec == Spec /\ Fairness

\* However often POSTs fail and the breaker opens, an event that is buffered while
\* the reporter runs does not stay in memory for ever: it is sent, refused, or
\* written to disk after its retries.
EventuallyLeaves ==
    \A e \in Events : (running /\ e \in ToSet(buffer)) ~> (e \notin Held)

\* stop() returns or raises, even with the breaker open, the lock taken and
\* producers that keep enqueueing.
StopTerminates == stopPc = "flushing" ~> stopPc \in {"stopped", "raised"}

-----------------------------------------------------------------------------
(* What the repository's texts claim and the code does not do *)

\* "Every event-loss path is counted in metrics" (reporter.py:64-66).
EveryLossCounted == forgone = 0

\* "Cooldown expired, half-open: allow one attempt" (reporter.py:523): when the
\* first POST after a cooldown fails, the breaker opens again.
HalfOpenAllowsOne ==
    [][\A f \in Flushers :
          pc[f] = "posting" /\ pc'[f] = "requeue" /\ trial => circuit' = "open"]_vars

\* stop() leaves nothing of what was buffered before it in memory, also when it
\* raises (reporter.py:140-142, 166-168).
StopNeverStrands ==
    stopPc \in {"closing", "stopped", "raised"} => \A e \in Held : e > stopMark
=============================================================================
