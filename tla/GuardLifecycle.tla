--------------------------- MODULE GuardLifecycle ---------------------------
(***************************************************************************)
(* The life of guards in a process (guard.py): the registry of active      *)
(* guards, the weak-reference callback, shutdown(), and the hook that      *)
(* flushes what is left when the process exits.                            *)
(*                                                                         *)
(* A guard is used on the application's loop ("loop"), through the         *)
(* synchronous wrapper of protect(), which runs a loop per call            *)
(* ("wrapped"), or through SyncGuard, with a loop on a daemon thread       *)
(* ("sync").  A weak reference is named after its guard.  Of the reporter, *)
(* which Reporter has in full, there is whether events wait, what its      *)
(* flush task does or died of, and who holds the flush lock.               *)
(***************************************************************************)
EXTENDS Naturals, FiniteSets, Sequences, SequencesExt

CONSTANTS
    Guards,
    NoGuard,      \* no guard: there is no sweep
    Modes,        \* configurations: how each guard is used
    MaxOrphans    \* _MAX_ORPHANED_REPORTERS

ASSUME LifecycleAssumption ==
    /\ IsFiniteSet(Guards) /\ NoGuard \notin Guards
    /\ Modes \subseteq [Guards -> {"loop", "wrapped", "sync"}]
    /\ MaxOrphans \in Nat

VARIABLES
    mode,       \* how each guard is used
    life,       \* unborn, live, gone
    ready,      \* _initialized
    looped,     \* the loop the flush task lives on runs
    flusher,    \* _flush_task: none (or cancelled), asleep, posting, crashed
    lock,       \* the holder of the flush lock: free, flusher, stop
    pending,    \* whether its buffer holds events
    stage,      \* shutdown(): none, stopping, posting, drained, sweeping, frozen
    active,     \* _active_guards
    orphans,    \* _orphaned_reporters
    sweep,      \* the list comprehension of shutdown(): by, next, kept
    phase,      \* the process: running, exiting, stuck, exited
    todo,       \* reporters the exit hook has to drain
    retired,    \* history: a shutdown() has begun
    late,       \* history: events reported since one, or the exit, had begun are pending
    disturbed,  \* history: a guard was collected while the sweep ran
    overlooked, \* history: skipped by a sweep that was disturbed
    ghosts,     \* history: collected after the sweep had kept its reference
    dropped,    \* history: collected when no place was left for its reporter
    unseen,     \* history: collected while its flush task was posting all it had
    torn,       \* history: drained by the exit hook while its flush task was posting
    failed      \* history: the exit hook's stop() raised before its drain

guards == <<mode, life, ready, looped>>
reporter == <<flusher, lock, pending>>
registry == <<active, orphans, sweep>>
process == <<phase, todo>>
history == <<retired, late, disturbed, overlooked, ghosts, dropped, unseen, torn, failed>>
vars == <<guards, reporter, stage, registry, process, history>>

Set(f, g, x) == [f EXCEPT ![g] = x]
NoSweep == [by |-> NoGuard, next |-> 1, kept |-> <<>>]
Running == phase = "running"
LockedRegistry == sweep.by # NoGuard
\* No wrapped call that started the reporter is under way; any other loop runs.
Free(g) == looped[g] <=> mode[g] # "wrapped"

-----------------------------------------------------------------------------
Init ==
    /\ mode \in Modes
    /\ life = [g \in Guards |-> "unborn"] /\ ready = [g \in Guards |-> FALSE]
    /\ looped = [g \in Guards |-> mode[g] # "wrapped"]
    /\ flusher = [g \in Guards |-> "none"] /\ lock = [g \in Guards |-> "free"]
    /\ pending = [g \in Guards |-> FALSE] /\ stage = [g \in Guards |-> "none"]
    /\ active = <<>> /\ orphans = {} /\ sweep = NoSweep
    /\ phase = "running" /\ todo = {}
    /\ retired = {} /\ late = {} /\ disturbed = FALSE /\ overlooked = {} /\ ghosts = {}
    /\ dropped = {} /\ unseen = {} /\ torn = {} /\ failed = {}

\* Guard.__init__ adds its reference under the lock.
Create(g) ==
    /\ Running /\ life[g] = "unborn" /\ ~LockedRegistry
    /\ life' = Set(life, g, "live") /\ active' = Append(active, g)
    /\ UNCHANGED <<mode, ready, looped, reporter, stage, orphans, sweep, process, history>>

\* _ensure_initialized, which starts the reporter: the first time, or again after
\* shutdown().  The flush task of a wrapped guard lives on the loop of that call.
Start(g) ==
    /\ Running /\ life[g] = "live" /\ ~ready[g] /\ stage[g] = "none" /\ Free(g)
    /\ ready' = Set(ready, g, TRUE) /\ lock' = Set(lock, g, "free")
    /\ flusher' = Set(flusher, g, "asleep") /\ looped' = Set(looped, g, TRUE)
    /\ UNCHANGED <<mode, life, pending, stage, registry, process, history>>

\* A call reports; one that began before a shutdown() may do so after it, and one on a
\* daemon thread while the process exits.
Report(g) ==
    /\ Running \/ mode[g] = "sync"
    /\ looped[g] \/ mode[g] = "wrapped"
    /\ life[g] = "live" /\ (ready[g] \/ g \in retired)
    /\ pending' = Set(pending, g, TRUE)
    /\ late' = IF g \in retired \/ ~Running THEN late \cup {g} ELSE late
    /\ UNCHANGED <<guards, flusher, lock, stage, registry, process,
                   retired, disturbed, overlooked, ghosts, dropped, unseen, torn, failed>>

\* The flush task takes a batch, and it is sent, kept on disk or put back.
FlushBegins(g) ==
    /\ phase # "exited" /\ looped[g]
    /\ flusher[g] = "asleep" /\ pending[g] /\ lock[g] = "free"
    /\ flusher' = Set(flusher, g, "posting") /\ lock' = Set(lock, g, "flusher")
    /\ \E rest \in BOOLEAN : pending' = Set(pending, g, rest)
    /\ UNCHANGED <<guards, stage, registry, process, history>>

FlushEnds(g) ==
    /\ phase # "exited" /\ looped[g]
    /\ flusher[g] = "posting"
    /\ flusher' = Set(flusher, g, IF g \in torn THEN "none" ELSE "asleep")
    /\ lock' = Set(lock, g, "free")
    /\ \E back \in BOOLEAN : pending' = Set(pending, g, pending[g] \/ back)
    /\ UNCHANGED <<guards, stage, registry, process, history>>

\* Anything but an HTTP error ends the task, and the batch with it.
FlushCrashes(g) ==
    /\ phase # "exited" /\ looped[g]
    /\ flusher[g] = "posting"
    /\ flusher' = Set(flusher, g, IF g \in torn THEN "none" ELSE "crashed")
    /\ lock' = Set(lock, g, "free")
    /\ UNCHANGED <<guards, pending, stage, registry, process, history>>

\* What is left of a task, and of its lock (async with), when it is cancelled; a task
\* that is done stays as it is.  The mutant keeps the lock.
Mut_KeepsLock(g) == lock[g]
LockAfterCancel(g) == IF flusher[g] = "posting" THEN "free" ELSE lock[g]
Cancelled(g) == IF flusher[g] = "crashed" THEN "crashed" ELSE "none"

\* asyncio.run cancels what still runs when the wrapped call is over.
CallEnds(g) ==
    /\ Running /\ mode[g] = "wrapped" /\ looped[g]
    /\ looped' = Set(looped, g, FALSE)
    /\ flusher' = Set(flusher, g, Cancelled(g)) /\ lock' = Set(lock, g, LockAfterCancel(g))
    /\ UNCHANGED <<mode, life, ready, pending, stage, registry, process, history>>

-----------------------------------------------------------------------------
\* A guard nothing refers to any more is collected, and the callback of its reference,
\* if the reference still exists, prunes the registry and rescues the reporter.
\* The lock is re-entrant: this may happen in the middle of a sweep of the same thread.
Referenced(g) == g \in ToSet(active) \/ g \in ToSet(sweep.kept)

\* The mutants rescue no reporter, and any number of them.
Mut_NoRescue(g) == UNCHANGED <<orphans, dropped, unseen>>
Mut_NoCap(g) ==
    /\ orphans' = IF pending[g] THEN orphans \cup {g} ELSE orphans
    /\ unseen' = IF ~pending[g] /\ flusher[g] = "posting" THEN unseen \cup {g} ELSE unseen
    /\ UNCHANGED dropped
Rescue(g) ==
    IF ~pending[g]
    THEN /\ unseen' = IF flusher[g] = "posting" THEN unseen \cup {g} ELSE unseen
         /\ UNCHANGED <<orphans, dropped>>
    ELSE /\ IF Cardinality(orphans) < MaxOrphans
            THEN orphans' = orphans \cup {g} /\ UNCHANGED dropped
            ELSE dropped' = dropped \cup {g} /\ UNCHANGED orphans
         /\ UNCHANGED unseen

\* _active_guards.remove(ref); the mutant leaves the dead reference.
Mut_NoPrune(g) == UNCHANGED active
Prune(g) ==
    \/ \E i \in 1 .. Len(active) : active[i] = g /\ active' = RemoveAt(active, i)
    \/ g \notin ToSet(active) /\ UNCHANGED active

Collect(g) ==
    /\ Running /\ life[g] = "live" /\ stage[g] \in {"none", "frozen"}
    /\ ~(mode[g] = "wrapped" /\ looped[g])
    /\ life' = Set(life, g, "gone")
    /\ IF Referenced(g) THEN Prune(g) /\ Rescue(g) ELSE UNCHANGED <<active, orphans, dropped, unseen>>
    /\ disturbed' = (disturbed \/ LockedRegistry)
    /\ ghosts' = IF g \in ToSet(sweep.kept) THEN ghosts \cup {g} ELSE ghosts
    /\ UNCHANGED <<mode, ready, looped, reporter, stage, sweep, process,
                   retired, late, overlooked, torn, failed>>

-----------------------------------------------------------------------------
\* shutdown(): reporter.stop() cancels the flush task, or swallows the RuntimeError it
\* died of, ...
StopBegins(g) ==
    /\ Running /\ life[g] = "live" /\ stage[g] = "none" /\ Free(g)
    /\ stage' = Set(stage, g, "stopping") /\ retired' = retired \cup {g}
    /\ flusher' = Set(flusher, g, "none")
    /\ lock' = Set(lock, g, LockAfterCancel(g))
    /\ UNCHANGED <<guards, pending, registry, process,
                   late, disturbed, overlooked, ghosts, dropped, unseen, torn, failed>>

\* ... or raises what else the task died of, before anything else: the guard stays
\* initialized and registered, and SyncGuard.shutdown suppresses it and stops its loop, ...
StopRaises(g) ==
    /\ Running /\ life[g] = "live" /\ stage[g] = "none" /\ Free(g)
    /\ flusher[g] = "crashed"
    /\ flusher' = Set(flusher, g, "none") /\ retired' = retired \cup {g}
    /\ looped' = IF mode[g] = "sync" THEN Set(looped, g, FALSE) ELSE looped
    /\ UNCHANGED <<mode, life, ready, lock, pending, stage, registry, process,
                   late, disturbed, overlooked, ghosts, dropped, unseen, torn, failed>>

\* ... posts batches itself, ...
StopPosts(g) ==
    /\ Running /\ stage[g] = "stopping" /\ pending[g] /\ lock[g] = "free"
    /\ stage' = Set(stage, g, "posting") /\ lock' = Set(lock, g, "stop")
    /\ \E rest \in BOOLEAN : pending' = Set(pending, g, rest)
    /\ UNCHANGED <<guards, flusher, registry, process, history>>

StopPosted(g) ==
    /\ Running /\ stage[g] = "posting"
    /\ stage' = Set(stage, g, "stopping") /\ lock' = Set(lock, g, "free")
    /\ \E back \in BOOLEAN : pending' = Set(pending, g, pending[g] \/ back)
    /\ UNCHANGED <<guards, flusher, registry, process, history>>

\* ... and writes what is left to the dead-letter queue.
StopDrains(g) ==
    /\ Running /\ stage[g] = "stopping" /\ stage' = Set(stage, g, "drained")
    /\ pending' = Set(pending, g, FALSE) /\ late' = late \ {g}
    /\ UNCHANGED <<guards, flusher, lock, registry, process,
                   retired, disturbed, overlooked, ghosts, dropped, unseen, torn, failed>>

\* The guard is no longer initialized; closing the provider's client may raise, and
\* then the pool and the registry are left as they are.
ShutdownRaises(g) ==
    /\ Running /\ stage[g] = "drained" /\ stage' = Set(stage, g, "none")
    /\ ready' = Set(ready, g, FALSE)
    /\ looped' = IF mode[g] = "sync" THEN Set(looped, g, FALSE) ELSE looped
    /\ UNCHANGED <<mode, life, reporter, registry, process, history>>

SweepBegins(g) ==
    /\ Running /\ stage[g] = "drained" /\ ~LockedRegistry
    /\ stage' = Set(stage, g, "sweeping") /\ ready' = Set(ready, g, FALSE)
    /\ sweep' = [NoSweep EXCEPT !.by = g]
    /\ UNCHANGED <<mode, life, looped, reporter, active, orphans, process, history>>

\* [r for r in _active_guards if r() is not None and r() is not self], by index, as a
\* list is iterated.
Keep(h) == life[h] = "live" /\ h # sweep.by

SweepStep ==
    /\ Running /\ LockedRegistry /\ sweep.next <= Len(active)
    /\ LET h == active[sweep.next] IN
       sweep' = [sweep EXCEPT !.next = @ + 1, !.kept = IF Keep(h) THEN Append(@, h) ELSE @]
    /\ UNCHANGED <<guards, reporter, stage, active, orphans, process, history>>

\* SyncGuard.shutdown stops its loop when this is done.
SweepEnds ==
    /\ Running /\ LockedRegistry /\ sweep.next > Len(active)
    /\ active' = sweep.kept /\ orphans' = orphans \ {sweep.by} /\ sweep' = NoSweep
    /\ overlooked' = IF disturbed
                     THEN overlooked \cup (ToSet(active) \ (ToSet(sweep.kept) \cup {sweep.by}))
                     ELSE overlooked
    /\ stage' = Set(stage, sweep.by, "none") /\ disturbed' = FALSE
    /\ looped' = IF mode[sweep.by] = "sync" THEN Set(looped, sweep.by, FALSE) ELSE looped
    /\ UNCHANGED <<mode, life, ready, reporter, process,
                   retired, late, ghosts, dropped, unseen, torn, failed>>

\* SyncGuard.shutdown has waited 10 seconds: it stops the loop under the shutdown of
\* the guard, which never goes on, and keeps the lock if it was posting.
Freeze(g) ==
    /\ Running /\ mode[g] = "sync" /\ stage[g] \in {"stopping", "posting"}
    /\ stage' = Set(stage, g, "frozen") /\ looped' = Set(looped, g, FALSE)
    /\ UNCHANGED <<mode, life, ready, reporter, registry, process, history>>

-----------------------------------------------------------------------------
\* The program ends, when the threads of wrapped calls are done: asyncio.run cancels the
\* flush tasks of its loop, then the exit hook takes the guards and the reporters it
\* knows.  Daemon threads still run.
OnAppLoop(g) == mode[g] = "loop"

\* The mutant forgets the orphans.
Mut_LiveOnly == {g \in ToSet(active) : life[g] = "live" /\ ready[g]}
Known == {g \in ToSet(active) : life[g] = "live" /\ ready[g]} \cup orphans

Exit ==
    /\ Running
    /\ \A g \in Guards :
           stage[g] \in {"none", "frozen"} /\ ~(mode[g] = "wrapped" /\ looped[g])
    /\ phase' = "exiting" /\ todo' = Known /\ orphans' = {}
    /\ looped' = [g \in Guards |-> looped[g] /\ ~OnAppLoop(g)]
    /\ flusher' = [g \in Guards |-> IF OnAppLoop(g) THEN Cancelled(g) ELSE flusher[g]]
    /\ lock' = [g \in Guards |-> IF OnAppLoop(g) THEN LockAfterCancel(g) ELSE lock[g]]
    /\ UNCHANGED <<mode, life, ready, pending, stage, active, sweep, history>>

\* _drain_reporter: stop() on a loop of its own.  A task of a loop that runs on another
\* thread cannot be awaited there; its cancellation has not arrived.  Nothing to post, or
\* the lock is free: what is there is posted or written down.
Drain(g) ==
    /\ phase = "exiting" /\ g \in todo
    /\ pending[g] => lock[g] = "free"
    /\ pending' = Set(pending, g, FALSE) /\ todo' = todo \ {g}
    /\ late' = late \ {g}
    /\ torn' = IF flusher[g] = "posting" THEN torn \cup {g} ELSE torn
    /\ flusher' = IF flusher[g] # "posting" THEN Set(flusher, g, "none") ELSE flusher
    /\ UNCHANGED <<guards, lock, stage, registry, phase,
                   retired, disturbed, overlooked, ghosts, dropped, unseen, failed>>

\* stop() raises what the flush task died of, if that is no RuntimeError, before it drains,
\* and the hook logs it.
DrainFails(g) ==
    /\ phase = "exiting" /\ g \in todo /\ flusher[g] = "crashed"
    /\ flusher' = Set(flusher, g, "none") /\ todo' = todo \ {g} /\ failed' = failed \cup {g}
    /\ UNCHANGED <<guards, lock, pending, stage, registry, phase,
                   retired, late, disturbed, overlooked, ghosts, dropped, unseen, torn>>

\* The lock is held by a task of another loop: whoever lets go of it does not wake
\* this one.
DrainBlocks(g) ==
    /\ phase = "exiting" /\ g \in todo
    /\ pending[g] /\ lock[g] # "free"
    /\ phase' = "stuck"
    /\ UNCHANGED <<guards, reporter, stage, registry, todo, history>>

Exited ==
    /\ phase = "exiting" /\ todo = {} /\ phase' = "exited"
    /\ UNCHANGED <<guards, reporter, stage, registry, todo, history>>

-----------------------------------------------------------------------------
Use(g) ==
    \/ Create(g) \/ Start(g) \/ Report(g) \/ CallEnds(g) \/ Collect(g)
    \/ FlushBegins(g) \/ FlushEnds(g) \/ FlushCrashes(g)
ShutdownSteps(g) ==
    \/ StopBegins(g) \/ StopRaises(g) \/ StopPosts(g) \/ StopPosted(g) \/ StopDrains(g)
    \/ ShutdownRaises(g) \/ SweepBegins(g) \/ Freeze(g)
ExitSteps == Exit \/ Exited \/ \E g \in Guards : Drain(g) \/ DrainFails(g) \/ DrainBlocks(g)

Next ==
    \/ \E g \in Guards : Use(g) \/ ShutdownSteps(g)
    \/ SweepStep \/ SweepEnds
    \/ ExitSteps

Spec == Init /\ [][Next]_vars

-----------------------------------------------------------------------------
GuardsOK ==
    /\ mode \in Modes /\ life \in [Guards -> {"unborn", "live", "gone"}]
    /\ ready \in [Guards -> BOOLEAN] /\ looped \in [Guards -> BOOLEAN]
    /\ stage \in [Guards ->
           {"none", "stopping", "posting", "drained", "sweeping", "frozen"}]
ReportersOK ==
    /\ flusher \in [Guards -> {"none", "asleep", "posting", "crashed"}]
    /\ lock \in [Guards -> {"free", "flusher", "stop"}] /\ pending \in [Guards -> BOOLEAN]
RegistryOK ==
    /\ active \in Seq(Guards) /\ IsInjective(active)
    /\ orphans \subseteq Guards /\ Cardinality(orphans) <= MaxOrphans
    /\ sweep \in [by : Guards \cup {NoGuard}, next : 1 .. Cardinality(Guards) + 1,
                  kept : Seq(Guards)]
ProcessOK ==
    /\ phase \in {"running", "exiting", "stuck", "exited"} /\ todo \subseteq Guards
    /\ retired \cup late \cup overlooked \cup ghosts \subseteq Guards
    /\ dropped \cup unseen \cup torn \cup failed \subseteq Guards
    /\ disturbed \in BOOLEAN

\* One type invariant; a reference is in the registry once, and the orphans keep to
\* their limit.
TypeOK == GuardsOK /\ ReportersOK /\ RegistryOK /\ ProcessOK

\* The registry has every live guard that was never shut down, and no dead reference;
\* except that a collection in the middle of a sweep of the same thread makes it skip
\* the next guard, or keep the dead reference (guard.py:319, the callback at 143).
Registered ==
    ~LockedRegistry =>
        /\ \A g \in Guards :
               life[g] = "live" /\ g \notin retired => g \in ToSet(active) \cup overlooked
        /\ \A g \in ToSet(active) : life[g] = "live" \/ g \in ghosts

\* "Flush every live and orphaned reporter on process exit" (guard.py:184): no event is
\* in memory when the process ends, except those reported after a shutdown() or the exit had
\* begun, of a guard collected beyond the cap, of one a disturbed sweep skipped, those put
\* back by a POST under way when the guard was collected or when the hook passed, and those
\* of a reporter whose flush task had died of an exception that stop() raises again.
NothingForgotten ==
    phase = "exited" =>
        \A g \in Guards :
            pending[g] => g \in late \cup dropped \cup unseen \cup overlooked \cup torn \cup failed

\* The exit hook returns when every guard lives on a loop that ends before it: no lock
\* is left held, whatever was cut short.
OnlyForeignLoopsBlock == phase = "stuck" => \E g \in todo : mode[g] = "sync"

\* The hook returns, whichever way guards are used ("Never raises", "Flush every live and
\* orphaned reporter on process exit", guard.py:172, 184).
HookReturns == phase # "stuck"
=============================================================================
