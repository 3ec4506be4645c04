# Overrule SDK: a TLA+ model

This directory specifies the concurrent core of the Overrule Python SDK
(`overrule/`): what its components do, step by step, as TLA+ modules; what must
hold of them, checked by TLC on small instances; and the properties that matter
most, proved by TLAPS for every size of the instance.

File and line numbers below are those of the repository's `overrule/` package.

- [1. The system](#1-the-system)
- [2. What is modelled, and how it corresponds to the code](#2-what-is-modelled-and-how-it-corresponds-to-the-code)
- [3. What the runs check](#3-what-the-runs-check)
- [4. What is proved](#4-what-is-proved)
- [5. Where the code and its texts disagree](#5-where-the-code-and-its-texts-disagree)
- [6. What is not modelled](#6-what-is-not-modelled)
- [7. Plan](#7-plan)

Running it:

    tlc -config ReporterFaults.cfg Reporter.tla
    tlc -config PolicyPoolSafety.cfg MCPolicyPool.tla
    tlc -config LifecycleSafety.cfg MCGuardLifecycle.tla
    tlapm ReporterProofs.tla

## 1. The system

The SDK stands between an application and an LLM provider. It evaluates policies
on the text that goes in and comes out, blocks, redacts, flags or passes it, and
ships one governance event per interaction to a platform.

| component | state it keeps | operations | talks to |
|---|---|---|---|
| `transport/reporter.py` `EventReporter` | the bounded buffer, the flush task and its lock, the circuit breaker, counters | `start`, `stop`, `enqueue`, `_flush` and its error paths | platform (HTTP), dead-letter queue |
| `transport/dead_letter.py` `DeadLetterQueue` | `dead_letter.jsonl`, `rejected.jsonl` | `write`, `recover`, `_trim` | file system |
| `_pool.py` `DaemonThreadPool`, `PolicyPool` | the live pool, its threads, job queue and idle semaphore; generation and orphan counter | `acquire`, `submit`, `_worker`, `note_orphan`, `shutdown` | called by guard, stream, LangChain handler |
| `guard.py` `Guard` | configuration, reporter, pool, initialised flag; module-wide registries of active guards and orphaned reporters | `evaluate`, `chat`, `stream`, `protect`, `shutdown`, the exit hook | provider, pool, reporter, registry |
| `stream.py` `StreamGuard` | retained buffer, scan tail, held-back text, findings | iteration, incremental and final evaluation | provider's stream, pool, reporter |
| `sync.py` `SyncGuard` | a loop in a thread | blocking forms of the above | guard |
| `integrations/langchain.py` `OverruleCallback` | its own pool and reporter, a loop and thread of its own or the application's loop | `_ensure_started`, the LLM callbacks, `shutdown` | pool, reporter, LangChain |
| `policies/registry.py` `PolicyRegistry` | classes and cached instances | `register`, `get`, `unregister`, `reload` | policies |
| `policies/*.py` | compiled patterns, report caps | `evaluate` on one window of the text | none |

Coroutines interleave at awaits in the reporter, the guard and the stream;
threads interleave in the pool, the registry and the LangChain handler; the
process may die or be restarted over the same dead-letter files.

What makes each of them correct, and what is hard about it:

- **Reporter and dead-letter queue.** No event is duplicated, forgotten or sent
  again after a final answer; the loss counters add up; order is kept across
  requeueing; the breaker holds; `stop()` terminates and leaves nothing behind.
  Hard: three tasks in `_flush` around one lock, cancellation in a POST, retries,
  the breaker, a full buffer, failing writes, crashes.
- **Pool.** An accepted run is run, whatever retires its pool; a pool with every
  worker lost is replaced; a retired pool's late runs never count against its
  successor; `max_workers` is respected and a run never waits below it. Hard:
  semaphore permits that drift from idle workers, completions after retirement,
  `acquire`/`submit` as two critical sections.
- **Guard.** Blocked text is never returned; every interaction leaves one event;
  what fails open is recorded as degraded. Hard: errors between the provider's
  answer and the output check, second provider calls.
- **Life of guards.** The exit hook knows every guard that still holds events, and
  returns. Hard: guards are collected at any moment, in the middle of a `shutdown()`
  and of a POST too; a guard's flush task lives on a loop that ends before the hook,
  with each synchronous call, or not at all (`SyncGuard`).
- **Stream.** Text is released only after it was scanned, except the part before
  the hold-back; the final evaluation precedes the tail; one event. Hard: errors
  in the provider's stream, bounded retention, pool retirement mid-stream.
- **Scan windows, redaction.** Windows cover the content and overlap; matches are
  counted once; redaction hides every match. Hard: boundaries, overlaps.
- **LangChain handler.** A blocking finding stops the prompt or the answer; what
  passed and what was blocked leaves one event; the reporter is started once, on a
  loop that lives, and flushed by `shutdown()`. Hard: hooks of the application that
  raise, handlers called from several threads and from a loop without any lock.
- **Registry.** One instance per evaluation, none that a reload had let go.

Every hazard found in the code is listed at its line in `PROJECT.json`, with the
properties that cover it, or the reason why none does.

## 2. What is modelled, and how it corresponds to the code

| module | what it is |
|---|---|
| `EventLedger` | the abstract promise: an event's standing and the edges it may follow |
| `Reporter` | `EventReporter` + `DeadLetterQueue` + the process owning them |
| `PolicyPool` | `PolicyPool` + `DaemonThreadPool` + their callers |
| `MCPolicyPool` | adds the symmetry set used by TLC |
| `ReporterProofs` | theorems about `Reporter`, among them that it implements `EventLedger` |
| `PolicyPoolProofs` | theorems about `PolicyPool` |
| `StreamGuard` | one iteration of a `StreamGuard` |
| `MCStreamGuard` | the texts and policies of its small instance |
| `StreamProofs` | theorems about `StreamGuard` |
| `GuardCalls` | one call of `evaluate`, `chat`, `protect`, or the opening of `stream` |
| `MCGuardCalls` | the texts, policies and configurations of its small instance |
| `GuardProofs` | theorems about `GuardCalls` |
| `GuardLifecycle` | guards, their registry, `shutdown()`, garbage collection, the exit hook, `SyncGuard`'s loop |
| `MCGuardLifecycle` | the uses of the guards in its small instances, and their symmetry |
| `LifecycleProofs` | theorems about `GuardLifecycle` |
| `LangChainCalls` | one LLM call watched by the LangChain callback |
| `MCLangChainCalls` | its policies, texts and configurations |
| `LangChainProofs` | theorems about `LangChainCalls` |
| `LangChainLife` | the reporter of a callback and the loop it runs on |
| `MCLangChainLife` | adds the symmetry set used by TLC |
| `LifeProofs` | theorems about `LangChainLife` |
| `ContentScan` | one evaluation of a text, character by character: registry, windows, de-duplication, redaction |
| `MCContentScan` | all the texts of its small instance, its words and look-alikes |
| `ScanProofs` | theorems about `ContentScan` |

### Reporter

One step is the code between two awaits of one task. A task in `_flush` is at a
`pc`: `idle` (not in it), `waiting` (for the lock), `posting`, `requeue`, `backoff`;
the background task may also be `off` or `crashed`. The tasks are `loop`
(`_flush_loop`), `stop` (the final attempts of `stop()`) and `caller` (an
application that calls `_flush` by hand, as the repository's README shows). `batch[f]`
is the local variable of that name: what was popped and not yet disposed of.

| code | action |
|---|---|
| `start` (112) with `recover` (dead_letter.py:70) | `Start`, with `RecoverAll`, or `RecoverFailing` when reading or unlinking the file fails |
| `enqueue` (190), `_append_bounded` (198) | `Enqueue`, `EnqueueUnserialisable`, `AppendBounded` |
| `_flush` (344) up to its await | `EnterFlush`, `PopBatch`, by `LoopTick`, `CallerFlush`, `StopTry` |
| obtaining `_flush_lock` (360) | `Acquire`, `AcquireClosed` (the client is gone) |
| outcome of the POST | `PostAccepted`, `PostRejected` (`_handle_status_error`), `PostFailed` (`_handle_transient_failure`), `PostBroken` (an exception nobody handles) |
| `_requeue_or_dead_letter` (452) | `Requeue`, one event at a time: nothing else runs in between |
| backoff sleep (384) | `BackoffOver` |
| `_is_circuit_open` (518) | `circuit` = closed, open, cooled; `Cooldown` is the clock |
| `stop` (137) | `StopBegin`, `StopTry`, `StopDrain`, `StopEnd` |
| the process dies | `Crash` |

Abstractions. An event is its rank of production; its `__retry_count` key, which
travels with it through buffer and file, is the function `tries`. `HeldOnce` (an
event is in one place at most) is what makes that exact, and it is checked; of an event
that a recovery has copied the two copies share the key, which for these understates how
often they are tried.
Serialisation succeeds or fails. `cooled` is "open, with the cooldown over".
`enqueue` does not flush: the class docstring says a flush happens on the interval
"or when the batch threshold is reached", but the code only has the interval.
`StopBegin` merges `task.cancel()` with awaiting the task, since a cancelled task
does not run any further await. `start()` is modelled when no `stop()` is in
progress and nobody waits for the lock it replaces. One flush by hand is under way at a
time, a bound of the model: of several, each may be past the check of the breaker.

`recover()` swallows every exception: what it has read it returns, and a file it could
not read to its end or unlink stays as it is. Those events are then in memory and in the
file (`copied`), and the next start may recover them again.

Environment. `Faults` is the set of things the environment may do: hand flushes,
exceptions that are not httpx errors (a `RuntimeError`, which `stop()` swallows, or
another), partial acceptance, failing dead-letter writes, recoveries that fail half-way,
crashes. `lost`, `verdict`, `taken`, `drained`, `forgone`, `copied`, `late`, `trial`,
`stopMark` are history: they influence no action.

### PolicyPool

A step is what one thread does under one lock, or one call of the job queue or the
semaphore. A pool is identified by the generation it was created in.

| code | action |
|---|---|
| `PolicyPool.acquire` (175) | `Acquire` |
| `DaemonThreadPool.submit` (61), `_ensure_worker` (70) | `Submit`, `EnsureWorker` |
| `_worker` (84): `get`, the call, `_idle.release` | `Take`, `Return`, `Release` |
| the wait of `Guard._run_policy` (guard.py:855), `StreamGuard._evaluate`, the handler's `_run_policy` | `Answer`, `TimeOut`, `Abandon` (task cancelled while waiting) |
| `note_orphan` (185) under its lock | `NoteOrphan`; then `Close` |
| `_done` (192) | `Settle` |
| `PolicyPool.shutdown` (222) | `Shutdown`; then `Close` |
| `DaemonThreadPool.shutdown` (99) | `Close` |

`asyncio.wait` cancels nothing, so a run that timed out in the queue stays there and
is run later; a cancelled caller leaves its run unnoted. `Retire` and `Close` are two
steps because the pool's `shutdown` is called after the lock of `PolicyPool` is
released; that gap is where `submit` may still succeed. Setting the flag and putting
the sentinels is one step: nobody puts into the queue once the flag is set, and a
worker that gets one sentinel is not affected by the others still missing. The
options `wait=True` and `cancel_futures=True` are used by nothing in the package.
`_done` may never be called when the loop of an asyncio future is closed: `Settle`
is not under fairness.

### StreamGuard

One iteration of the generator. A step is the code between two awaits or yields.
The object is used by one coroutine, so what interleaves is what may happen at each
of them: chunks, the end or failure of the provider's stream, policy runs that
answer, are late or crash, a consumer that closes the generator, a cancelled task.

| code | action |
|---|---|
| body of the loop in `__aiter__` (164), `_append`, `_should_evaluate`, `_release` | `Receive`, `Release`; after an evaluation `AfterChunk` |
| end of the stream, `except`, `finally` (182-210) | `End`, `ProviderFails`, `Close`, `Cancel`, all into `Finalize` |
| `_evaluate` (313): its two loops, at policy `turn` and window `window` | `Begin`, `NextRun`, `NextPolicy`, `Evaluated`; `RunAnswers`, `RunTimesOut`, `RunCrashes` |
| `_merge` (290) and what follows it | `Merge`, with `AfterChunk` or `AfterFinal` |
| `_report_event` (367) | `Report` |
| `iter_scan_windows` (guard.py:53) | `Windows` |

Text is counted in characters. `text` holds the occurrences in the answer of the one
word each policy looks for, chosen at the start. An occurrence has a first and a last
character, is `verbatim` or there in a normalised variant only, and counts where what
must be `near` it is shown too (a keyword; 0 is an occurrence that is refused, a card
number with a wrong checksum). A run on a window has as violations those that lie wholly
inside with what they need. `Assigned` is `_locate_match` (guard.py:1009): it gives the
n-th violation the n-th place where the word stands in the window, which is the place of
another occurrence when an earlier one was refused, or was found in a variant only. The
violations for which no place is left share the offset of their window. `_pending` is
what lies between `emitted` and `received`; the retained buffer and the scan tail are
lengths. `_violations` is the set of its de-duplication keys. `outcome` is what the
consumer sees; `cut` is a provider error under `fail_open`, which yields the held-back
tail, finalises and ends normally. A consumer that leaves at that yield, or at the last
one, is not told apart from one that stays. The pool appears by its promise only: a run
ends in an answer, a timeout, or an exception (its own or the pool's refusal).

### GuardCalls

Calls share the pool and the reporter and nothing else, so the module has one call.
A step is the code between two awaits: `Begin` up to the first policy run, one step
per policy, one from the last run to the next await or the end. `op` is the entry
point.

| code | action |
|---|---|
| `_extract_input_checked` (1336), the REDACT check of `stream` (616) | `Begin` |
| `_resolve_policies` (876) raising | `ResolveFails` |
| the loop of `_evaluate_content` (937) | `RunAnswers`, `RunFails` (late or crashed), `RunRaises` (an error of the SDK's own) |
| the exception handlers of `chat` (430) and `_execute_protected` (759) | `ChatFails`, `ProtectFails`, by `EvaluationFails` |
| the block decisions (371, 485, 634, 781) | `EvaluateReturns`, `InputBlocked`, `InputPasses` |
| provider or function answers, raises | `Answers`, `AnswersUnguarded`, `CallRaises` |
| output check, redaction, usage (512-568) | `AnswerBlocked`, `AnswerPasses`, `UsageFails` |
| a cancelled task | `Cancel` |

A text is the set of matches policies would find in it. All windows of one policy
are one step, and a run that fails keeps any part of what that policy finds, since
the windows before the failing one were collected. The text of an answer is what
`_extract_output_parts` extracts, `message.content` of the choices; for the input,
`readable` says whether `_extract_input` found anything. Matches are disjoint: what
overlapping replacements leave behind is not modelled. An event is what is handed
to `_safe_report`. `call_state["violations"]` is `inFound` with `outFound`, and
`call_state["called"]` is `direction = "output"`. With `strict`, the decorator's
action is BLOCK. `seen` is history: what any run has found in the input, whether or not
it was published.

### GuardLifecycle

A step is the code between two awaits of one guard, one iteration of the list
comprehension in `shutdown()`, or the collection of one guard. `mode[g]` is how a
guard is used: on the application's loop, by synchronous calls of a function under
`protect()`, each of which runs a loop, or behind `SyncGuard`, whose loop runs on a
daemon thread. A weak reference is named after its guard.

| code | action |
|---|---|
| `Guard.__init__` (290) | `Create` |
| `_ensure_initialized` (299) | `Start`, also after a shutdown |
| `enqueue`, the flush task (reporter.py:344) | `Report`, `FlushBegins`, `FlushEnds`, `FlushCrashes` (an exception nobody handles) |
| the end of `asyncio.run` in the wrapper of `protect()` (728, 735) | `CallEnds` |
| `_guard_collected` (127) | `Collect`, with `Prune` and `Rescue`: at any moment, in a sweep too |
| `shutdown` (307): `reporter.stop()` | `StopBegins`, `StopPosts`, `StopPosted`, `StopDrains`; or `StopRaises` what the flush task died of |
| ... closing the clients raises (312, 315) | `ShutdownRaises` |
| ... `_active_guards[:] = [...]` (319) | `SweepBegins`, `SweepStep` per element, `SweepEnds` |
| `SyncGuard.shutdown` (sync.py:148) giving up | `Freeze` |
| `_atexit_flush` (183) | `Exit`, `Exited` |
| `_drain_reporter` (171) | `Drain`, `DrainFails` (`stop()` raises, which is logged), or `DrainBlocks` |

Of the reporter there is whether events are pending, where the flush task is or whether
it has died, and who holds the flush lock; what a POST puts back is free. A task that is
cancelled in a POST lets go of the lock. `looped[g]` says whether the loop of the flush
task runs: for a wrapped guard that of the call that started the reporter, which ends with
that call, after which nobody flushes until the hook does. A call on a `SyncGuard`'s loop
may report while the process exits, since the timeout of `SyncGuard` does not cancel it
(sync.py:66). `Drain` posts or writes down all there is in one step. A
flush task of a loop on another thread that is asleep ends when the hook cancels it
(`task.cancel()` does not arrive before that loop wakes, and `_running` is false by
then); one that is posting goes on, and may put events back behind the hook (`torn`).
The registry's lock is held by a sweep (`LockedRegistry`); it is re-entrant, so the
collector, which runs on the same thread, is not kept out. `_init_lock` is not
modelled.

### LangChainCalls

One call: `on_llm_start` or `on_chat_model_start`, the LLM, `on_llm_end` or
`on_llm_error`. A handler blocks its thread; a step is the code between two waits
for the pool. LangChain is external: an exception that leaves a start handler stops
the call, one that leaves `on_llm_end` keeps the answer back.

| code | action |
|---|---|
| `on_llm_start` (363), `on_chat_model_start` (380) | `Start` |
| `_evaluate` (234), one policy | `RunAnswers`, `RunFails` |
| the rest of `_handle_input` (329) and of `on_llm_end` (429) | `Decide`, which is `HookFails` when the application's hook raises and `Enforce` when not |
| `on_llm_end` (405) up to its evaluation | `Answer`, with no text: "silent" |
| `on_llm_error` (465) | `LLMFails` |

`hook` is what `on_violation` does: it may return, raise, or raise a `ViolationError`.
LOG, WARN and REDACT do not differ here, since the callback cannot change a text.
`judged` is history.

### LangChainLife

Handlers are called from threads or from the application's loop, without a lock;
each is named by the event it reports. Loop 0 is the application's, the others the
callback's own.

| code | action |
|---|---|
| `_ensure_started` (128): reads `_started` | `Enter` |
| ... on the application's loop (143) | `StartHosted`: the start is only scheduled |
| ... on a thread (145) | `StartOwn`, then `Opened` |
| `_safe_enqueue` (286) | `Report` |
| `EventReporter.start` (reporter.py:112) | `StartChecks`, `StartOpens`: another loop may pass the check between them |
| `EventReporter.stop` (137) | `StopBegins`, `StopEnds`; `StopRaises` what the flush task died of, suppressed at langchain.py:161 |
| `_flush_loop`, one on each loop that started one | `FlushBegins`, `FlushEnds` (which may put the batch back), `FlusherDies` of an exception, `FlusherEnds` |
| `shutdown` (156) | `Shutdown`, `LoopStops` with an own loop; `ShutdownHosted` without; `Closed` |
| the application's `asyncio.run` | `AppCloses`, `AppOpens` |

A loop does one thing at a time (`Free`): a handler called on the application's loop
keeps its coroutines waiting, a coroutine that was scheduled first starts first. The
timeouts of 5 and 10 seconds may elapse at any moment: `Opened` and `LoopStops` do
not ask whether the coroutine they wait for is done. A flush takes the whole buffer;
`posting` has the batch of each flush loop, of which racing starts leave several, and
only the one in `_flush_task` (`task`) is cancelled by `stop()`. The flush lock is left
out, so batches may overlap more than in the code.

### ContentScan

One `_evaluate_content` with `_resolve_policies` before it and `_apply_redaction`
behind it, while the registry changes. A text is a sequence of characters, a policy
looks for one word whose characters differ.

| code | definition |
|---|---|
| `iter_scan_windows` (53) | `Bases`, `Cut` |
| `PIIPolicy.evaluate`, `_refine_ssn`, `_refine_phone_us` (pii.py) | `RefinedCount`, `Near` |
| `normalize_variants`, `collect_matches` (_normalize.py) | `Folded`, `VariantCount` |
| the report caps | `Count` |
| `_locate_match` (1009), the keys of the loop (971) | `Located`, `Keys` |
| the evaluation returns (994) | `Return` |
| `_apply_redaction` (1117), the violations of one policy | `Redact`, `Replace` |
| `PolicyRegistry` | `Resolve` (get), `Reload` (register too), `Unregister` |
| the loop of `_evaluate_content` (937) | `RunAnswers`, `RunFails` |

A run of a policy on a window is one step; between two of them the registry may
change. A variant differs from the text by its look-alikes only, so a place in one is
a place in the other; what is found in a variant only cannot be located, and gets an
ordinal. A redaction token is a row of one character that is in no word.

### How the modules fit

`GuardCalls`, `StreamGuard` and `LangChainCalls` use `PolicyPool` by what it proves or
checks about a run, and `Reporter` by `enqueue`, which never raises; a call that opens a
stream (`outcome = "opened"`) ends where `StreamGuard` begins. `ContentScan` opens up
the evaluation that `GuardCalls` takes as a set of findings, and `GuardLifecycle` and
`LangChainLife` the loops on which the reporter's tasks of `Reporter` live. They share
no variable with the others, so no module composes them: the interleavings that matter,
of several runs on a pool and of several tasks in a reporter, are in those two modules.

## 3. What the runs check

| run | instance | checks |
|---|---|---|
| `reporter_faults` | capacity 2, batch 2, 1 retry, threshold 2, 3 events, 2 starts, hand flushes, broken POSTs, partial acceptance, failing recoveries, crashes | `TypeOK`, `Kept`, `HeldOnce`, `FinalVerdict`, `Accounting`, `OldestFirst`, `OneLatePost`, `ImplementsLedger` |
| `reporter_live` | same sizes, failing POSTs and writes, fairness | `StopPersists`, `EventuallyLeaves`, `StopTerminates` |
| `pool_safety` | 4 runs, 2 workers, generations 0 to 2, symmetry in the runs | `TypeOK`, `NoRunWaitsBelowCapacity`, `OrphansExact`, `NothingStranded`, `RetiredByItsOwn` |
| `pool_live` | 3 runs, 2 workers, generations 0 and 1, fairness | `AcceptedRuns`, `WorkersLeave` |
| `langchain_calls` | 2 policies, all 4 configurations of their actions, 2 possible matches, 4 hooks | `BlockedStays`, `Traced` |
| `langchain_life` | 3 handler calls, 2 own loops, 2 shutdowns, symmetry in the calls | `OneLoop`, `NothingLeftBehind`, `StartedCanSend` |
| `lifecycle_safety` | 3 guards, all used in one of the three ways, 1 place for orphans, symmetry | `TypeOK`, `Registered`, `NothingForgotten`, `OnlyForeignLoopsBlock` |
| `scan_safety` | all texts of at most 6 of 5 characters, 2 words that may overlap, windows of 4 overlapping by 2, caps 1 and 2, 2 changes of the registry | `NothingMissed`, `CountedOnce`, `NothingLegible`, `OneFreshInstance` |
| `stream_safety` | 6 characters in chunks of 1 to 3, 2 policies, 6 possible occurrences, evaluation every 2 chunks, window 4, hold-back 2, cap 5, scan windows of 3 overlapping by 1 | `TailHeld`, `RetainedScanned`, `FoundWhereItIs`, `OneTrueEvent`, `NothingAfterBlock` |
| `guard_safety` | 2 policies, all 9 configurations of their actions, 3 possible matches, all entry points | `BlockedInputStays`, `PaidOnce`, `OneTrueEvent`, `BypassesAreEvents` |

Two more runs, each expected to end in a violation, are the subject of section 5.

What they show. `Kept`: an event that was produced is somewhere, or it left by a
way the model names. `HeldOnce`: never in two places, so never posted twice by two
tasks. `FinalVerdict`: an accepted or refused event is never a candidate for sending
again. Both except the events that a failing recovery handed over and left in the file,
and no others. `Accounting`: sent + dropped + in memory + drained + the losses no counter
sees = what the process was handed. `OldestFirst`: requeueing restores the order of
production. `OneLatePost`: `_flush` checks the breaker before it waits for the lock, so
a POST may begin while the breaker is open; from its opening to the end of the cooldown
one does at most.
`ImplementsLedger`: every step of the reporter is a step of `EventLedger`, or a
stutter. `NoRunWaitsBelowCapacity`: although permits and idle workers are released
and taken at different moments, a run never waits for a busy worker while the pool
may still grow. `NothingStranded`: the queue of a pool is its accepted runs and
behind them, once it is closed, a sentinel for each remaining worker; where a run is
queued a worker is left. `RetiredByItsOwn`: only
a pool's own lost runs retire it.

`NothingAfterBlock`: from the step that learns of a blocking finding on nothing more is
yielded, on any way out. `TailHeld`: a `ViolationError` finds the last hold-back still
withheld. `RetainedScanned`: a stream that completes has had its retained text scanned
by each policy that did not fail, and found what is no longer than the overlap.
`FoundWhereItIs`: a located finding is at a place where its word stands, in whichever
window it was found; a word that is never refused or disguised is always located, so for
it the offsets of all evaluations agree and de-duplication works. Of the others the run
does not exclude that one is listed twice. `OneTrueEvent` (stream): one event, with the
status of all that was found. `BlockedInputStays`: an input in which any run found what
blocks, also one that failed after it, reaches neither provider nor function; but
`protect()` may run the function after an exception of the SDK's own, with a `fail_open`
event. `PaidOnce`: no second call after an answer. `OneTrueEvent` (guard): one event
with all findings and their status, or `fail_open`. `BypassesAreEvents`: a call that
returned and is not marked `fail_open` was enforced in full, but for the policies its
event lists as degraded.

`BlockedStays`: a prompt or an answer in which a blocking finding was made does not
get past the callback, whatever the other policies did. `Traced`: what got past it
and what it blocked left one event, with all findings and all policies that could not
run. The exceptions are in the properties: a hook of the application that raises under
`fail_open` lets the text pass, with an event that lists nothing for a prompt, and none
for an answer; one that raises `ViolationError` blocks without a record.
`OneLoop`: no own loop and thread is left running, except by handlers that raced.
`NothingLeftBehind`: after a shutdown the buffer holds only what was reported or put back
later, unless its `stop()` was not run to its end. `StartedCanSend`: a callback that is
started has a reporter that runs, a client, and a flush task that lives, for the second
time too, with the exceptions of section 5. `Registered`: the
registry has every live guard not shut down, and no dead reference, but for what a
collection in a sweep does to it. `NothingForgotten`: at exit nothing is in memory but
in the ways it lists. `OnlyForeignLoopsBlock`: the exit hook hangs only on a reporter
whose loop still runs. `NothingMissed`: a word that is whole in the text, plain, in
disguise or near its keyword, is reported by a policy that was not given up, wherever
the windows fall. `CountedOnce`: when all its windows agree about a word, each
occurrence has one finding, at its place. `NothingLegible`: redaction leaves nothing of
a word but the rest of one that overlaps a word replaced before it. `OneFreshInstance`:
an evaluation uses one instance of a policy, not older than the last reload before it.

Bounds. Capacity and batch of 2 with 3 events reach: a full buffer, an overflow on
enqueue and on recovery, a batch smaller than the buffer, two tasks holding batches with
a third waiting, requeueing into a full buffer. A full disk is in `reporter_live` only,
for the size of the other run; the theorems have every set of faults. One retry reaches
first failure, retry, and exhaustion; threshold 2 distinguishes the first failure from
the one that opens the breaker; 2 starts reach recovery and restart after stop and
crash. In the pool, 2 workers is the least number for which "all lost" differs from "one
lost", 4 runs fill two workers with two more waiting, and a retirement by two timeouts
leaves two runs for the next pool. In the stream, 6 characters exceed the cap by one and
the window by two and take two scan windows; occurrences lie at the start, across the
boundary of two windows, at the cap, and beyond it; one policy blocks and one does not.
In a call, one match blocks whatever the configuration, one can be redacted and one
cannot. Three guards are a sweep with one guard collected behind it and one before it,
and one orphan more than there is place for; the ways a guard is used meet in the
registry only, and which way it is does not matter there, so the three guards are used
alike (`Alike`; the proofs take any mixture). Three handler calls are two that race and
one that comes after a shutdown; two own loops and two shutdowns are a second life.
Texts of six characters have three windows of four, words at each boundary and in each
overlap, keywords on the other side of it, and two words that overlap; the registry
changes (`MaxChanges`) during two texts only (`ChangedTexts`), which the others would
not tell apart. `MaxLoops`, `MaxShutdowns`, `MaxEvents`, `MaxStarts`, `MaxGenerations`,
`MaxChars` and `ChunkSizes` are bounds of the model only, in the guards of `Enqueue`,
`Start`, `Acquire`, `Receive`, `StartOwn`, `Shutdown` and `Reload` and in `Next`.
`MaxOrphans` is `_MAX_ORPHANED_REPORTERS`, 256 in the code.

`CHECK_DEADLOCK FALSE` everywhere: an application may stop, and with every event
produced, every start used or every run done there is nothing left to do.

Fairness. Reporter: the event loop runs every ready task (`LoopTick`, `Requeue`,
`Acquire`, the steps of `stop`), a POST ends one way or another (the client has
timeouts), sleeps and the cooldown end. Nobody has to enqueue, start, stop or
accept anything. Pool: threads are scheduled and policies return. A policy that
never returns is covered by the safety runs only. Streams, calls and evaluations are
sequential and bounded, the lives of guards and callbacks have nothing that must
happen: only safety is asked of them. `StopPersists` is checked without
hand flushes: a hand flush in flight when `stop()` drains may requeue afterwards
(reporter.py:174).

Every property is paired with a mutant of the model (in `PROJECT.json`) for which
the same run finds a violation; the mutants sit beside the definitions they mutate,
named `Mut_...`.

## 4. What is proved

All constants are arbitrary within the assumptions of their modules, which TLC
evaluates on every run:

| assumption | says |
|---|---|
| `ConstantsAssumption` | capacity, batch size and threshold at least 1, any retry budget, any set of faults |
| `PoolAssumption` | finitely many runs, at least one worker |
| `StreamAssumption` | different policies; windows, chunks, cap and interval positive; the scan overlap smaller than a scan window |
| `GuardAssumption`, `CallbackAssumption` | any list of policies, any matches, any configuration of actions |
| `BoundsAssumption`, `LifecycleAssumption` | finitely many guards; any limit of orphans, loops and shutdowns |
| `ScanAssumption` | different policies; words that are not empty, whose characters differ and in which no redaction token occurs; the overlap smaller than a window; a cap of at least 1 |

The bounds that only the models have are arbitrary naturals.

| theorem | says |
|---|---|
| `ReporterProofs!TypeCorrect` | `Spec => []TypeOK` |
| `ReporterProofs!AccountingHolds` | `Spec => []Accounting` |
| `ReporterProofs!NeverInTwoPlaces` | `Spec => []HeldOnce` |
| `ReporterProofs!VerdictIsFinal` | `Spec => []FinalVerdict` |
| `ReporterProofs!NothingVanishes` | `Spec => []Kept` |
| `ReporterProofs!ReporterImplementsLedger` | `Spec => ImplementsLedger`, the refinement of `EventLedger` |
| `ReporterProofs!OrderKept` | `Spec => []OldestFirst` |
| `ReporterProofs!StopLeavesNothing` | `Spec => []StopPersists`, where `Faults` has no hand flushes |
| `ReporterProofs!BreakerPauses` | `Spec => []OneLatePost` |
| `PolicyPoolProofs!PoolTypeCorrect` | `Spec => []TypeOK` |
| `PolicyPoolProofs!OrphanCountExact` | `Spec => []OrphansExact` |
| `PolicyPoolProofs!RetiresItsOwn` | `Spec => RetiredByItsOwn` |
| `PolicyPoolProofs!IdleWorkersServe` | `Spec => []NoRunWaitsBelowCapacity` |
| `PolicyPoolProofs!RetirementStrandsNothing` | `Spec => []NothingStranded` |
| `StreamProofs!TailIsHeld` | `Spec => []TailHeld` |
| `StreamProofs!BlockIsFinal` | `Spec => NothingAfterBlock` |
| `StreamProofs!FindingsInPlace` | `Spec => []FoundWhereItIs` |
| `StreamProofs!OneEventIsTrue` | `Spec => []OneTrueEvent` |
| `StreamProofs!KeptIsScanned` | `Spec => []RetainedScanned` |
| `GuardProofs!CallTypes` | `Spec => []TypeOK` |
| `GuardProofs!BlockIsCommitted` | `Spec => []BlockedInputStays` |
| `GuardProofs!ProviderPaidOnce` | `Spec => []PaidOnce` |
| `GuardProofs!EventIsTrue` | `Spec => []OneTrueEvent` |
| `GuardProofs!NoSilentBypass` | `Spec => []BypassesAreEvents` |
| `LangChainProofs!CallbackTypes` | `Spec => []TypeOK` |
| `LangChainProofs!BlockedNeverPasses` | `Spec => []BlockedStays` |
| `LangChainProofs!EveryCallTraced` | `Spec => []Traced` |
| `LifeProofs!LifeTypes` | `Spec => []TypeOK` |
| `LifeProofs!AtMostOneLoop` | `Spec => []OneLoop` |
| `LifeProofs!ShutdownFlushes` | `Spec => []NothingLeftBehind` |
| `LifeProofs!StartedReporterSends` | `Spec => []StartedCanSend` |
| `LifecycleProofs!TypeCorrect` | `Spec => []TypeOK` |
| `LifecycleProofs!RegistryComplete` | `Spec => []Registered` |
| `LifecycleProofs!ExitForgetsNothing` | `Spec => []NothingForgotten` |
| `LifecycleProofs!LocksComeBack` | `Spec => []OnlyForeignLoopsBlock` |
| `ScanProofs!NothingIsMissed` | `Spec => []NothingMissed`, under `Fitting` |
| `ScanProofs!NothingIsCountedTwice` | `Spec => []CountedOnce`, under `Fitting` |
| `ScanProofs!NothingStaysLegible` | `Spec => []NothingLegible`, under `Fitting` |
| `ScanProofs!InstancesAreFresh` | `Spec => []OneFreshInstance` |

**Reporter.** `TypeOK` is inductive: it contains that a batch is non-empty exactly
at `posting` and `requeue`, without which `Requeue` could take the last element of
an empty sequence, and the limits of buffer, batch and retry key, which is what the
configuration promises. `Accounting` is inductive together with it: each action moves
events between the terms of the sum, and the proof shows for each how the length of the
buffer and of one batch change.

The fate of events is one invariant, `EventInv`: `HeldOnce`, `FinalVerdict` and `Kept`
need each other, and `Born` (what has a place or a verdict was produced, so a new event
is in no place yet) and `Refusals` (what is kept for inspection was refused).
What a failing recovery has copied is exempt from `HeldOnce`, `FinalVerdict` and
`Refusals`; a recovery can copy only what is in the file.
A step is shown to be one of a task `f` that `Conserves(f)`: it keeps apart what is
in the buffer, the batch of `f` and the file, adds nothing to them but what it produces
and gives verdicts only on the batch of `f`; from there the invariant follows once for
all actions. The refinement of `EventLedger` rests on `EventInv`: the standing of an
event is defined by cases, by the place it is found in, which do not exclude each other
unless it is in one place at most. That a step of a whole
batch, of `stop()` or of a crash is one step of the ledger is shown event by event.

`OldestFirst` needs `OrderInv`: batches are older than the buffer, and who has a batch
holds the lock (`Tenure`), so that two tasks never requeue into the same buffer at
once. This ends with the first `stop()`, as `start()` makes a new lock; so does the
property. `StopPersists` needs `StopAlone`: once `stop()` is past its attempts, no task
is in `_flush`. The theorem has the hypothesis that nobody flushes by hand; a hand
flush in a POST puts its batch back into a buffer that was already drained (reporter.py:174). `OneLatePost` needs to know who can still begin a POST behind the
breaker: the tasks waiting for the lock. Beside the one that held it, of the background
task, `stop()` and a flush by hand, one can wait at most, as `stop()` takes the background
task's place; and a POST that begins late was waiting, so late POSTs and waiting tasks
together are one at most while the breaker is open.

**Pool.** `OrphansExact` needs `PoolInv`, with `Scheduled` (a submitted run
belongs to a generation no later than the current one, strictly earlier when no pool
is in service; who waits has submitted) and `QueuedKnown` (what is queued has been
submitted). Then at a retirement no run can be noted yet in the generation that
begins, so resetting the counter to 0 is right; at `acquire` with no live pool the
counter is 0 already; at any other note or completion it moves by exactly one with
the set it counts. `RetiresItsOwn` follows: a live pool has fewer orphans than
workers, and retires when one more makes them equal.

`FlowInv` says of each pool how its queue, its semaphore and its workers go together.
`Lined`: the queue is the queued runs, each once, and sentinels behind them. `Staffed`:
an open pool has all the workers it made, a closed one a sentinel for each of them, and
no run is queued where no worker is. `Served`: as long as the pool may grow, permits
and queued runs together are no more than the workers in `queue.get`. This is
what makes `EnsureWorker` right although it looks at the semaphore after the run is in
the queue: it either takes a permit, and with it a waiting worker, or makes one.
`Replaced` says that a pool is closed once, and not while it is in service.

**Stream.** `TailHeld` and `NothingAfterBlock` need to know where the coroutine is.
`StreamInv` has four parts: `Counts`; `Stage` (while it reads, yields or evaluates
incrementally it is not ending, so there is no outcome yet); `Clean` (in those places no
finding blocks); `Withheld` (unless the stream completed or was cut, the hold-back is
withheld). Text is yielded in two places only: by `Release`, where the findings just
merged do not block, and by the final evaluation, where `ending` is `none` and they do
not either.

`FindingsInPlace` adds where the evaluation is (`Position`), since the offset of a
finding is that of its window plus the place in it; a run gives out as many places as it
has violations, so of a word of which all that is shown is verbatim and counts, every
violation gets its own. `OneEventIsTrue` adds `Told`: before
the end there is no event, but the one of an incremental evaluation that found what
blocks. `KeptIsScanned` adds `Looked`: in a final evaluation the runs made so far, of
policies that did not fail, have found what their windows show. Its other half is
`WindowsCover`: what is no longer than the overlap lies whole in one of the windows, for
every length, window size and overlap; without it `Looked` says nothing about the text.

**Calls.** The theorems about a call share one induction. `GuardInv` says what is known at
each point (`Stage`: before the provider is called there is no event, and nothing
published blocks; in the fallback there is one, `fail_open`, with the findings
published so far), what the evaluation still owes (`Searched`: a match in the text was
found, or its policy is degraded, or is still to run), and for a call that is over the
promises themselves. When the last policy is done the third case of `Searched` is
empty, which is `BypassesAreEvents`. Each action has its lemma; all exceptions under
`fail_open` go through `ChatFailsStep`. `CallTypes` rests on the same invariant: that a
provider is called twice at most follows from where a call may still be.

The two theorems about a watched call share an invariant too: it says for each
direction, before, during and after its evaluation, which event there is and what was
judged, so that at the decision the event that is appended is the first of its
direction and has the findings just judged.

**The callback's life.** `AtMostOneLoop` needs to know who may make a loop: `LoopInv`
adds `Claim`, that without a race at most one handler is between its look at `_started`
and the end of its start, and that none is while the callback is started; so when it
makes a loop there is no other. `ShutdownFlushes` needs to know what is still owed:
`DebtInv` adds `Owed`: the callback is started and nobody is closing it, or a `stop()`
that will empty the buffer is scheduled or under way, or one was not heard (one that
raises included), or all that is in the buffer was reported or put back late. Both need
`TypeOK`, by which what is under way is on a loop that runs.

`StartedReporterSends` needs to know who sees to it that the reporter runs, at every
moment of a start and of a shutdown. Outside the exceptions of the property, `SendInv`
says: a callback that is started and owes a `stop()` has a `start()` scheduled behind it
(`Promised`); one that owes none has a `start()` scheduled or under way, or a reporter
that runs (`Served`); a `stop()` under way meets none that starts (`Quiet`); a reporter
that runs has a client and its flush task lives, has died of an exception, or its
`stop()` was not heard (`Sends`); and on the loop a shutdown waits for, its `stop()` is
the last coroutine (`LastWord`), so the loop does not end with a `start()` left on it.

**Life of guards.** A step of one guard leaves the others alone (`Elsewhere`), so each
invariant is shown at the guard that moves and framed for the others. `RegistryInv` is
about the registry while it is rewritten: a live guard that was not shut down is in the
list or was skipped; a sweep that nothing disturbed has kept what it should, as far as
it has come (`Swept`); so what it writes back has them all. `MemoryInv` says of each
guard with events, or with a batch that a POST may put back, who will find them: before
the exit the registry or the orphans, during the hook its list, or it is one of the
exceptions; a guard whose flush task has died is found like the others, and it is the
`stop()` of the hook that raises. `LockInv` says who holds a flush lock: a flush task
that posts, or a `stop()` that does; on a loop that has ended there is neither, which
leaves the loops on other threads.

**Scanning.** `Fitting` is the hypothesis of three theorems: a word, with the reach of
its keyword, is no longer than the overlap and one. That is what the overlap is for ("a
pattern spanning a boundary is still seen whole by at least one window", guard.py:60); the
instance of `scan_safety` meets it with nothing to spare. By `SliceCovers` what fits lies
in one window, by `PlacesInPiece` a window shows a word where the text has it, and by
`FoldedPiece` a variant of a window is a window of the variant; so a word in the text is
counted in a window (`Seen`), and the places in the windows are those in the text, no
more and no fewer (`Tiled`). The invariants carry this through the loop. `Searched`: a
policy not given up has a finding if a window it passed counts something. `Exact`: while
all windows agree, its findings are the places that the windows passed show, and none was
unlocated. `Masked` follows the redaction: a character is the text's or hides one of a
word of a policy applied, and each word of a policy applied is hidden, or crossed by an
earlier one; since no word has the character of a token, replacing never makes a word
appear. `InstancesAreFresh` needs `Fresh`: a cached instance is none that was let go
before the evaluation, and what a run used is what was taken.

Only model-checked: liveness (`EventuallyLeaves`, `StopTerminates`, `AcceptedRuns`,
`WorkersLeave`), which rests on fairness and `ENABLED`, out of the prover's reach. All
other properties of the passing runs are proved. The violations of section 5 are TLC's
counterexamples.

## 5. Where the code and its texts disagree

| run | what TLC finds |
|---|---|
| `guard_leaks` | a token count that is not a number, under `fail_open`, makes `chat` return an answer it had decided to block: "`guard.chat()` (input and output)", blocking violations enforced: "Yes" (README.md:560) |
| `exit_hangs` | the process exits while the flush task of a `SyncGuard` posts, with more to send: `stop()` on the hook's own loop waits for the flush lock, whose release on another thread does not wake it, and the hook never returns: "Flush every live and orphaned reporter on process exit" (guard.py:184) |

Six more claims are refuted in the same way. They stay as definitions with a
configuration beside them:

| configuration | definition | what TLC finds |
|---|---|---|
| `ReporterLossCounted.cfg` | `EveryLossCounted` | `stop()` cancels the flush task during a POST: the popped batch is neither sent, counted nor written, though "every event-loss path is counted in metrics" (reporter.py:64) |
| `ReporterHalfOpen.cfg` | `HalfOpenAllowsOne` | after a cooldown the failure counter restarts at 0, so the breaker does not reopen when the trial POST fails: "half-open: allow one attempt" (reporter.py:523) |
| `ReporterStrands.cfg` | `StopNeverStrands` | a flush task that died of an unexpected exception makes `stop()` raise before its drain (reporter.py:154) |
| `GuardFailsOpen.cfg` | `ProtectEnforces` | a policy that raises one of the SDK's own exceptions makes `protect()` drop what the policies before it had found and run the function under `fail_open`: "`@guard.protect()` / `SyncGuard.protect()`: Yes" (README.md:562) |
| `StreamUnscanned.cfg` | `CapIsNotForScanning` | text beyond the cap that arrives after the last incremental evaluation is yielded unscanned: "a cap on how much content is stored and reported, not on what is scanned" (README.md:748) |
| `StreamCrash.cfg` | `OthersStillEnforce` | a policy that crashes takes the findings of the policies before it and the runs of those after it along: "every other policy still runs and still enforces" (README.md:704) |

Some properties hold only with exceptions, each of which TLC showed to be needed:

- `HeldOnce`, `FinalVerdict`, `ImplementsLedger`: a recovery that cannot read its file to
  the end, or cannot unlink it, hands events over and leaves them in the file. They are
  recovered, and sent, again by each start that follows, although `recover()` says "Clears
  the file after reading" (dead_letter.py:73).
- `BlockedInputStays`: `protect()` drops the findings of an evaluation that raises and
  goes on under `fail_open`; the event says so, without the findings.
- `FoundWhereItIs` promises a place where the word stands, and that of its own only for
  words that are never refused or disguised. The comment that the offsets of windows "stay
  comparable" (stream.py:323) does not hold for the others: an occurrence behind a refused
  one may be listed at two offsets, and one that is not located once for each window.
- `StartedCanSend`: a start that overtakes the `stop()` a hosted shutdown has
  scheduled finds the reporter running, or gets its client closed; a loop of the
  application that closes, or a flush task that dies of an exception, leaves a callback
  that is "started" without a flush loop; handlers that race leave flush loops on several
  loops; a `stop()` that did not end leaves its reporter as it is.
- `OneLoop`: two handlers that both find the reporter not started make two loops, and
  `shutdown()` closes one.
- `NothingLeftBehind`: `shutdown()` of a callback that was started on the application's
  loop, called where no loop runs, does not call `stop()`; one that is called with a flush
  task that died gets that exception, and suppresses it, before anything is drained; a
  flush loop of another loop puts its batch back behind the drain.
- `NothingForgotten`: a guard collected while its flush task posts the last batch
  looks empty to the callback, so a batch put back by that POST is forgotten; `stop()` of
  a reporter whose flush task died of an exception raises in the hook before it drains, and
  the hook logs "some events may be lost"; a call, or a POST, on the loop of a `SyncGuard`
  goes on behind the hook.
- `Registered`: a guard collected in the middle of the sweep of `shutdown()` shifts the
  list under the iteration, and the next guard is dropped from the registry.
- `BlockedStays`: "blocking violations always block", but not one the application's
  own hook raised about, under `fail_open` (langchain.py:344).
- `NothingMissed` counts one finding as found: with more matches in a window than the
  report cap, the rest is not listed, whereas "Nothing is sampled or skipped"
  (guard.py:904) is about the scanning.
- `CountedOnce` needs windows that agree. `_locate_match` takes the n-th violation of a
  word for its n-th occurrence, which is another one when an earlier one was refused.

## 6. What is not modelled

- The policies' regular expressions, which have no behaviour over time: words stand
  for them. The limit of examined candidates (pii.py), minimum severities, checksums.
- The blocking forms of `SyncGuard`'s calls, which wait for the loop with a timeout;
  calling them from that loop's own thread.
- `Guard._init_lock`, which tasks of several loops may contend for when a guard is
  first used by synchronous calls from several threads: an `asyncio.Lock` of one loop
  does not wake another, as with the flush lock in `exit_hangs`.
- Data classes, logging, compatibility shims: single-field validation, formatting.
- The dead-letter file's size limit (`_trim`), which rewrites the file in place, and
  several instances on one file.
- `submit` refused between `acquire` and itself is in `PolicyPool` and ends a run;
  that it should not happen is promised nowhere.
- Tool calls in an answer, which `_extract_output_parts` does not extract; a finding
  without a matched text.
- The callback's table of start times, which only feeds a latency; LangChain's other
  callbacks, which do nothing.
- Time: deadlines, cooldowns and backoffs may elapse at any moment.

## 7. Plan

| | module | about | next |
|---|---|---|---|
| A | `EventLedger`, `Reporter` | modelled, all safety properties and the refinement proved | |
| B | `PolicyPool` | modelled, all safety properties proved | |
| C | `StreamGuard` | modelled, all properties proved | |
| D | `GuardCalls` | modelled, all properties proved | the opening of a stream composed with `StreamGuard`, whose event drops the findings of the input |
| E | `LangChainCalls`, `LangChainLife` | modelled, all properties proved | |
| F | `GuardLifecycle` | modelled, all properties proved | `_init_lock` |
| G | `ContentScan` | modelled, all properties proved | |
| H | `Reporter` on a shared file | | several instances and processes on one dead-letter file, trimming: what one recovers is not what another writes |
| I | checksums | | Luhn and IBAN against their definitions over bounded inputs |
