---------------------------- MODULE LangChainLife ---------------------------
(***************************************************************************)
(* The reporter of a LangChain callback and the event loop it runs on      *)
(* (integrations/langchain.py: _ensure_started, shutdown).                 *)
(*                                                                         *)
(* Handlers are called without a lock from threads of the application or   *)
(* from its event loop.  The first one starts the reporter: on the         *)
(* application's loop if it is called there, on a loop and a thread of the *)
(* callback's own if not.  What the handlers decide is in LangChainCalls;  *)
(* here each reports one event.  Of the reporter, which Reporter has in    *)
(* full, there are its flush loops, more than one when starts raced, with  *)
(* the batch each has taken, which may come back.  The flush lock, which   *)
(* every start() replaces, is left out: more flushes may overlap here.     *)
(***************************************************************************)
EXTENDS Naturals, FiniteSets, Sequences, SequencesExt

CONSTANTS
    Runs,          \* handler calls; each reports one event, named after it
    MaxLoops,      \* bound on the own loops ever made
    MaxShutdowns   \* bound on the calls of shutdown()

ASSUME BoundsAssumption == MaxLoops \in Nat /\ MaxShutdowns \in Nat

App == 0                      \* the application's loop
Own == 1 .. MaxLoops          \* the callback's own loops, as they are made
Loops == {App} \cup Own
NoLoop == MaxLoops + 1        \* None

VARIABLES
    started,     \* _started
    own,         \* _loop
    alive,       \* loops that run
    made,        \* how many own loops were made
    pc,          \* per run: idle, entering, starting, waiting, ready, over
    hosted,      \* runs that are called on the application's loop
    queue,       \* coroutines scheduled on each loop
    opening,     \* loops on which start() is past its check of _running
    stopping,    \* loops on which stop() waits for a flush
    running,     \* the reporter's _running
    client,      \* whether it has a client
    task,        \* the loop of its _flush_task
    crashed,     \* whether that task has died of an exception
    flushers,    \* loops on which a flush loop lives
    posting,     \* the batch each of them has taken
    buffer,      \* events not handed over
    closer,      \* shutdown(): idle, waiting, closing
    shutdowns,   \* calls of it
    late,        \* history: reported after a shutdown had begun
    returned,    \* history: put back by a flush loop after a shutdown had begun
    raced,       \* history: two handlers started the reporter at once
    unheard,     \* history: a shutdown that gave up waiting for stop(), had no loop for it, or
                 \* whose stop() raised
    overtaken,   \* history: start() ran before a stop() that was asked for earlier had ended
    deserted     \* history: the application's loop closed under the reporter

handlers == <<pc, hosted>>
loops == <<own, alive, made>>
coroutines == <<queue, opening, stopping>>
reporter == <<running, client, task, crashed, flushers, posting>>
shutdown == <<closer, shutdowns>>
history == <<late, returned, raced, unheard, overtaken, deserted>>
vars == <<started, handlers, loops, coroutines, reporter, buffer, shutdown, history>>

-----------------------------------------------------------------------------
Init ==
    /\ started = FALSE /\ own = NoLoop /\ alive = {App} /\ made = 0
    /\ pc = [r \in Runs |-> "idle"] /\ hosted = {}
    /\ queue = [l \in Loops |-> <<>>] /\ opening = {} /\ stopping = {}
    /\ running = FALSE /\ client = FALSE /\ task = NoLoop /\ crashed = FALSE
    /\ flushers = {} /\ posting = [l \in Loops |-> {}]
    /\ buffer = {} /\ closer = "idle" /\ shutdowns = 0
    /\ late = {} /\ returned = {} /\ raced = FALSE /\ unheard = FALSE
    /\ overtaken = FALSE /\ deserted = FALSE

Goto(r, l) == pc' = [pc EXCEPT ![r] = l]
Schedule(l, coroutine) == queue' = [queue EXCEPT ![l] = Append(@, coroutine)]

\* A loop does one thing at a time: a handler called on it, a start(), which does not
\* suspend, or the next of its coroutines.
Free(l) ==
    /\ l \in alive /\ l \notin opening
    /\ l = App => hosted = {}
Runs1st(l, coroutine) == Free(l) /\ queue[l] # <<>> /\ Head(queue[l]) = coroutine

Starting == {r \in Runs : pc[r] \in {"starting", "waiting"}}

\* A handler is called and reads _started, with no lock.
Enter(r) ==
    /\ pc[r] = "idle"
    /\ \/ UNCHANGED hosted
       \/ Free(App) /\ hosted' = hosted \cup {r}
    /\ Goto(r, IF started THEN "ready" ELSE "starting")
    /\ raced' = (raced \/ (~started /\ Starting # {}))
    /\ UNCHANGED <<started, loops, coroutines, reporter, buffer, shutdown,
                   late, returned, unheard, overtaken, deserted>>

\* On the application's loop: the start is only scheduled.
StartHosted(r) ==
    /\ pc[r] = "starting" /\ r \in hosted
    /\ Schedule(App, "start") /\ started' = TRUE /\ Goto(r, "ready")
    /\ UNCHANGED <<hosted, loops, opening, stopping, reporter, buffer, shutdown, history>>

\* On a thread: a loop is made, and replaces the one another handler may have made.
StartOwn(r) ==
    /\ pc[r] = "starting" /\ r \notin hosted /\ made < MaxLoops
    /\ made' = made + 1 /\ own' = made' /\ alive' = alive \cup {made'}
    /\ Schedule(made', "start") /\ Goto(r, "waiting")
    /\ UNCHANGED <<started, hosted, opening, stopping, reporter, buffer, shutdown, history>>

\* The start is over, has failed or has taken 5 seconds: all the same.  The mutant
\* believes in a start it has seen succeed.
Mut_OnlyIfRunning(r) ==
    /\ pc[r] = "waiting" /\ Goto(r, "ready") /\ started' = running
    /\ UNCHANGED <<hosted, loops, coroutines, reporter, buffer, shutdown, history>>
Opened(r) ==
    /\ pc[r] = "waiting" /\ Goto(r, "ready") /\ started' = TRUE
    /\ UNCHANGED <<hosted, loops, coroutines, reporter, buffer, shutdown, history>>

\* _safe_enqueue, at the end of the evaluation.
Report(r) ==
    /\ pc[r] = "ready" /\ Goto(r, "over") /\ hosted' = hosted \ {r}
    /\ buffer' = buffer \cup {r}
    /\ late' = IF closer # "idle" \/ ~started THEN late \cup {r} ELSE late
    /\ UNCHANGED <<started, loops, coroutines, reporter, shutdown,
                   returned, raced, unheard, overtaken, deserted>>

-----------------------------------------------------------------------------
StopPending(ls) == \E l \in ls : l \in stopping \/ Contains(queue[l], "stop")
Dequeue(l) == queue' = [queue EXCEPT ![l] = Tail(@)]

\* EventReporter.start: the check, then the client and the task; between the two
\* another thread's loop may pass the check.
StartChecks(l) ==
    /\ Runs1st(l, "start") /\ Dequeue(l)
    /\ opening' = IF running THEN opening ELSE opening \cup {l}
    /\ overtaken' = (overtaken \/ StopPending(Loops))
    /\ UNCHANGED <<started, handlers, loops, stopping, reporter, buffer, shutdown,
                   late, returned, raced, unheard, deserted>>

StartOpens(l) ==
    /\ l \in opening /\ opening' = opening \ {l}
    /\ running' = TRUE /\ client' = TRUE /\ task' = l /\ crashed' = FALSE
    /\ flushers' = flushers \cup {l}
    /\ UNCHANGED <<started, handlers, loops, queue, stopping, posting, buffer, shutdown, history>>

\* The flush loop on a loop is no more, and neither is the batch it had taken.
Ends(l) == flushers' = flushers \ {l} /\ posting' = [posting EXCEPT ![l] = {}]

\* EventReporter.stop: the flush task is cancelled and awaited, if it lives on the same
\* loop (if not, it is left to end by itself; a RuntimeError it died of is swallowed), ...
StopBegins(l) ==
    /\ Runs1st(l, "stop") /\ Dequeue(l)
    /\ running' = FALSE /\ task' = NoLoop /\ crashed' = FALSE
    /\ IF task = l THEN Ends(l) ELSE UNCHANGED <<flushers, posting>>
    /\ stopping' = stopping \cup {l}
    /\ overtaken' = (overtaken \/ opening # {})
    /\ UNCHANGED <<started, handlers, loops, opening, client, buffer, shutdown,
                   late, returned, raced, unheard, deserted>>

\* ... or what else it died of is raised, and suppressed by shutdown() ...
StopRaises(l) ==
    /\ Runs1st(l, "stop") /\ crashed /\ Dequeue(l)
    /\ running' = FALSE /\ task' = NoLoop /\ crashed' = FALSE
    /\ unheard' = TRUE /\ overtaken' = (overtaken \/ opening # {})
    /\ UNCHANGED <<started, handlers, loops, opening, stopping, client, flushers, posting,
                   buffer, shutdown, late, returned, raced, deserted>>

\* ... before the buffer is flushed as far as it can be, the rest written to the
\* dead-letter queue, and the client closed.
StopEnds(l) ==
    /\ l \in stopping /\ Free(l) /\ stopping' = stopping \ {l}
    /\ buffer' = {} /\ client' = FALSE
    /\ late' = {} /\ returned' = {} /\ unheard' = FALSE
    /\ UNCHANGED <<started, handlers, loops, queue, opening, running, task, crashed, flushers,
                   posting, shutdown, raced, overtaken, deserted>>

\* A flush loop takes what there is, ...
FlushBegins(l) ==
    /\ l \in flushers /\ Free(l) /\ posting[l] = {} /\ client /\ buffer # {}
    /\ posting' = [posting EXCEPT ![l] = buffer] /\ buffer' = {}
    /\ UNCHANGED <<started, handlers, loops, coroutines, running, client, task, crashed,
                   flushers, shutdown, history>>

\* ... sends it, or puts it back for another attempt, ...
FlushEnds(l) ==
    /\ l \in flushers /\ Free(l) /\ posting[l] # {}
    /\ posting' = [posting EXCEPT ![l] = {}]
    /\ \/ UNCHANGED <<buffer, returned>>
       \/ /\ buffer' = buffer \cup posting[l]
          /\ returned' = IF closer # "idle" \/ ~started THEN returned \cup posting[l] ELSE returned
    /\ UNCHANGED <<started, handlers, loops, coroutines, running, client, task, crashed,
                   flushers, shutdown, late, raced, unheard, overtaken, deserted>>

\* ... or dies of anything but an HTTP error.
FlusherDies(l) ==
    /\ l \in flushers /\ Free(l) /\ posting[l] # {} /\ Ends(l)
    /\ crashed' = (crashed \/ l = task)
    /\ UNCHANGED <<started, handlers, loops, coroutines, running, client, task, buffer,
                   shutdown, history>>

\* One that stop() did not wait for sees that the reporter is stopped, or is cancelled.
FlusherEnds(l) ==
    /\ l \in flushers /\ Free(l) /\ ~running /\ Ends(l)
    /\ UNCHANGED <<started, handlers, loops, coroutines, running, client, task, crashed, buffer,
                   shutdown, history>>

\* asyncio.run ends: what is scheduled or under way on the application's loop is
\* cancelled.
AppCloses ==
    /\ Free(App) /\ alive' = alive \ {App}
    /\ queue' = [queue EXCEPT ![App] = <<>>]
    /\ stopping' = stopping \ {App} /\ Ends(App)
    /\ unheard' = (unheard \/ StopPending({App}))
    /\ deserted' = (deserted \/ App \in flushers \/ Contains(queue[App], "start"))
    /\ UNCHANGED <<started, handlers, own, made, opening, running, client, task, crashed, buffer,
                   shutdown, late, returned, raced, overtaken>>

AppOpens ==
    /\ App \notin alive /\ alive' = alive \cup {App}
    /\ UNCHANGED <<started, handlers, own, made, coroutines, reporter, buffer, shutdown, history>>

-----------------------------------------------------------------------------
\* shutdown() with an own loop: stop() is submitted to it and waited for.
Shutdown ==
    /\ closer = "idle" /\ shutdowns < MaxShutdowns /\ shutdowns' = shutdowns + 1
    /\ started /\ own # NoLoop
    /\ Schedule(own, "stop") /\ closer' = "waiting"
    /\ UNCHANGED <<started, handlers, loops, opening, stopping, reporter, buffer, history>>

\* Without one: stop() is scheduled if shutdown() is called on a loop, and not called if not.
ShutdownHosted ==
    /\ closer = "idle" /\ shutdowns < MaxShutdowns /\ shutdowns' = shutdowns + 1
    /\ started /\ own = NoLoop
    /\ \/ Free(App) /\ Schedule(App, "stop") /\ UNCHANGED unheard
       \/ unheard' = TRUE /\ UNCHANGED queue
    /\ closer' = "closing"
    /\ UNCHANGED <<started, handlers, loops, opening, stopping, reporter, buffer,
                   late, returned, raced, overtaken, deserted>>

\* stop() is over, or has taken 10 seconds: the loop is stopped, joined and closed,
\* with what is under way on it.  The mutant does not wait.
Mut_DoesNotWait ==
    /\ closer = "waiting" /\ closer' = "closing"
    /\ own \notin opening
    /\ alive' = alive \ {own} /\ own' = NoLoop
    /\ queue' = [queue EXCEPT ![own] = <<>>]
    /\ stopping' = stopping \ {own} /\ Ends(own)
    /\ UNCHANGED <<started, handlers, made, opening, running, client, task, crashed, buffer,
                   shutdowns, history>>
LoopStops ==
    /\ closer = "waiting" /\ closer' = "closing"
    /\ own \notin opening
    /\ unheard' = (unheard \/ StopPending(Own))
    /\ alive' = alive \ {own} /\ own' = NoLoop
    /\ queue' = [queue EXCEPT ![own] = <<>>]
    /\ stopping' = stopping \ {own} /\ Ends(own)
    /\ UNCHANGED <<started, handlers, made, opening, running, client, task, crashed, buffer,
                   shutdowns, late, returned, raced, overtaken, deserted>>

\* The mutant leaves the flag.
Mut_StaysStarted ==
    /\ closer = "closing" /\ closer' = "idle"
    /\ UNCHANGED <<started, handlers, loops, coroutines, reporter, buffer, shutdowns, history>>
Closed ==
    /\ closer = "closing" /\ closer' = "idle" /\ started' = FALSE
    /\ UNCHANGED <<handlers, loops, coroutines, reporter, buffer, shutdowns, history>>

-----------------------------------------------------------------------------
Handler(r) == Enter(r) \/ StartHosted(r) \/ StartOwn(r) \/ Opened(r) \/ Report(r)
Coroutine(l) ==
    \/ StartChecks(l) \/ StartOpens(l) \/ StopBegins(l) \/ StopRaises(l) \/ StopEnds(l)
    \/ FlushBegins(l) \/ FlushEnds(l) \/ FlusherDies(l) \/ FlusherEnds(l)

Next ==
    \/ \E r \in Runs : Handler(r)
    \/ \E l \in Loops : Coroutine(l)
    \/ AppCloses \/ AppOpens
    \/ Shutdown \/ ShutdownHosted \/ LoopStops \/ Closed

Spec == Init /\ [][Next]_vars

-----------------------------------------------------------------------------
\* One type invariant.
TypeOK ==
    /\ started \in BOOLEAN /\ own \in Own \cup {NoLoop} /\ alive \subseteq Loops
    /\ made \in 0 .. MaxLoops
    /\ pc \in [Runs -> {"idle", "starting", "waiting", "ready", "over"}]
    /\ hosted \subseteq Runs
    /\ queue \in [Loops -> Seq({"start", "stop"})]
    /\ opening \subseteq alive /\ stopping \subseteq alive /\ flushers \subseteq alive
    /\ running \in BOOLEAN /\ client \in BOOLEAN /\ task \in Loops \cup {NoLoop}
    /\ crashed \in BOOLEAN /\ posting \in [Loops -> SUBSET Runs]
    /\ late \subseteq Runs /\ returned \subseteq Runs /\ buffer \subseteq Runs
    /\ closer \in {"idle", "waiting", "closing"} /\ shutdowns \in 0 .. MaxShutdowns
    /\ {raced, unheard, overtaken, deserted} \subseteq BOOLEAN

\* However often the callback is started and shut down, it owns at most one loop, the
\* one it knows, so no thread is left behind; only handlers that found the reporter not
\* started at the same time make more (_ensure_started takes no lock).
OneLoop == ~raced => alive \cap Own = {own} \ {NoLoop}

Settled == closer = "idle" /\ opening = {} /\ stopping = {} /\ \A l \in Loops : queue[l] = <<>>

\* "Flush pending events and release resources": after a shutdown nothing is left in the
\* buffer but what was reported after it had begun, and what was put back after that by a
\* flush loop stop() does not wait for (of racing starts, or on another loop); unless stop()
\* timed out, was cancelled with the application's loop, was called on no loop at all, or
\* raised what the flush task had died of.
NothingLeftBehind == ~started /\ Settled => buffer \subseteq late \cup returned \/ unheard

\* A callback that is started, for the first time or again, has a reporter that can
\* send: a client and its flush task on a loop that runs.  Known exceptions: handlers that
\* raced, a loop of the application that closed under the reporter, a stop() that never
\* ended or raised, a start that overtook the stop() scheduled before it, whose end closes
\* the client of the new start, and a flush task that died of an exception.
StartedCanSend ==
    started /\ Settled /\ ~(raced \/ deserted \/ unheard \/ overtaken \/ crashed)
        => running /\ client /\ task \in flushers
=============================================================================
