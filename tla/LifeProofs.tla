----------------------------- MODULE LifeProofs -----------------------------
(***************************************************************************)
(* Theorems about LangChainLife, for every number of handlers, of own      *)
(* loops and of shutdowns.                                                 *)
(***************************************************************************)
EXTENDS LangChainLife, SequenceTheorems, TLAPS

Coroutines == {"start", "stop"}

LEMMA LoopFacts ==
    /\ Own \subseteq Loops /\ App \in Loops /\ NoLoop \notin Loops /\ App \notin Own
    /\ made \in 0 .. MaxLoops /\ made < MaxLoops => made + 1 \in Own
BY BoundsAssumption DEF Own, App, Loops, NoLoop

-----------------------------------------------------------------------------
\* What scheduling a coroutine and taking the next one do to the queues.
LEMMA ScheduleQueues ==
    ASSUME queue \in [Loops -> Seq(Coroutines)], NEW l \in Loops, NEW c \in Coroutines,
           Schedule(l, c)
    PROVE  /\ queue' \in [Loops -> Seq(Coroutines)]
           /\ Contains(queue'[l], c) /\ queue'[l] # <<>> /\ Last(queue'[l]) = c
           /\ \A k \in Loops : k # l => queue'[k] = queue[k]
           /\ \A k \in Loops, d \in Coroutines : Contains(queue[k], d) => Contains(queue'[k], d)
<1> DEFINE s == queue[l]
           t == Append(s, c)
<1>1. s \in Seq(Coroutines) /\ Len(s) \in Nat
  BY LenProperties
<1>2. t \in Seq(Coroutines) /\ Len(t) = Len(s) + 1 /\ t[Len(s) + 1] = c
      /\ \A i \in 1 .. Len(s) : t[i] = s[i]
  BY <1>1, AppendProperties
<1>3. queue' = [queue EXCEPT ![l] = t]
  BY DEF Schedule
<1>4. queue'[l] = t /\ \A k \in Loops : k # l => queue'[k] = queue[k]
  BY <1>3
<1>5. queue' \in [Loops -> Seq(Coroutines)]
  BY <1>2, <1>3
<1> HIDE DEF s, t
<1>6. Len(s) + 1 \in 1 .. Len(t) /\ \A i \in 1 .. Len(s) : i \in 1 .. Len(t)
  BY <1>1, <1>2
<1>7. Contains(t, c) /\ \A d \in Coroutines : Contains(s, d) => Contains(t, d)
  BY <1>2, <1>6 DEF Contains
<1>8. t # <<>> /\ Last(t) = c
  BY <1>1, <1>2 DEF Last
<1> QED BY <1>4, <1>5, <1>7, <1>8 DEF s

LEMMA DequeueQueues ==
    ASSUME queue \in [Loops -> Seq(Coroutines)], NEW l \in Loops, queue[l] # <<>>, Dequeue(l)
    PROVE  /\ queue' \in [Loops -> Seq(Coroutines)]
           /\ \A k \in Loops : k # l => queue'[k] = queue[k]
           /\ \A d \in Coroutines :
                  Head(queue[l]) # d /\ Contains(queue[l], d) => Contains(queue'[l], d)
           /\ queue'[l] # <<>> => Last(queue'[l]) = Last(queue[l])
           /\ Head(queue[l]) # Last(queue[l]) => queue'[l] # <<>>
<1> DEFINE s == queue[l]
           t == Tail(s)
<1>1. s \in Seq(Coroutines) /\ Len(s) \in Nat /\ s # <<>>
  BY LenProperties
<1>2. t \in Seq(Coroutines) /\ Len(t) = Len(s) - 1 /\ \A i \in 1 .. Len(t) : t[i] = s[i + 1]
  BY <1>1, HeadTailProperties
<1>3. Head(s) = s[1]
  BY <1>1
<1>4. queue' = [queue EXCEPT ![l] = t]
  BY DEF Dequeue
<1>5. queue' \in [Loops -> Seq(Coroutines)] /\ queue'[l] = t
      /\ \A k \in Loops : k # l => queue'[k] = queue[k]
  BY <1>2, <1>4
<1>6. ASSUME NEW d \in Coroutines, s[1] # d, Contains(s, d) PROVE Contains(t, d)
  <2>1. PICK i \in 1 .. Len(s) : s[i] = d
    BY <1>6 DEF Contains
  <2> HIDE DEF s, t
  <2>2. i # 1
    BY <1>6, <2>1
  <2>3. i - 1 \in 1 .. Len(t) /\ (i - 1) + 1 = i
    BY <1>1, <1>2, <2>1, <2>2
  <2>4. t[i - 1] = d
    BY <1>2, <2>1, <2>3
  <2> QED BY <2>3, <2>4 DEF Contains
<1> HIDE DEF s, t
<1>7. t # <<>> => Last(t) = Last(s)
  <2>1. ASSUME t # <<>> PROVE Len(t) \in 1 .. Len(t) /\ Len(t) + 1 = Len(s)
    BY <1>1, <1>2, <2>1, EmptySeq
  <2> QED BY <1>2, <2>1 DEF Last
<1>8. s[1] # Last(s) => t # <<>>
  <2>1. ASSUME t = <<>> PROVE s[1] = Last(s)
    <3>1. Len(s) = 1
      BY <1>1, <1>2, <2>1
    <3> QED BY <3>1 DEF Last
  <2> QED BY <2>1
<1> QED BY <1>3, <1>5, <1>6, <1>7, <1>8 DEF s

-----------------------------------------------------------------------------
LEMMA InitLife == Init => TypeOK
<1> SUFFICES ASSUME Init PROVE TypeOK
  OBVIOUS
<1>1. made \in 0 .. MaxLoops /\ shutdowns \in 0 .. MaxShutdowns
  BY BoundsAssumption DEF Init
<1>2. queue \in [Loops -> Seq({"start", "stop"})]
  BY DEF Init
<1> QED BY <1>1, <1>2, LoopFacts DEF Init, TypeOK

\* The steps of a handler.
LEMMA HandlerTypes == ASSUME TypeOK, NEW r \in Runs, Handler(r) PROVE TypeOK'
<1>1. CASE Enter(r)
  <2>1. raced' \in BOOLEAN /\ UNCHANGED <<late, returned, unheard, overtaken, deserted>>
    BY <1>1 DEF Enter
  <2>2. hosted' \subseteq Runs /\ pc' \in [Runs -> {"idle", "starting", "waiting", "ready", "over"}]
    BY <1>1 DEF Enter, Goto, TypeOK
  <2> QED BY <1>1, <2>1, <2>2 DEF Enter, TypeOK, loops, coroutines, reporter, shutdown
<1>2. CASE StartHosted(r)
  <2>1. queue' \in [Loops -> Seq({"start", "stop"})]
    BY <1>2, ScheduleQueues, LoopFacts DEF StartHosted, TypeOK, Coroutines
  <2>2. pc' \in [Runs -> {"idle", "starting", "waiting", "ready", "over"}]
    BY <1>2 DEF StartHosted, Goto, TypeOK
  <2> QED BY <1>2, <2>1, <2>2 DEF StartHosted, TypeOK, loops, reporter, shutdown, history
<1>3. CASE StartOwn(r)
  <2>1. made' \in Own /\ made' \in 0 .. MaxLoops /\ own' = made' /\ alive' = alive \cup {made'}
    BY <1>3, BoundsAssumption DEF StartOwn, TypeOK, Own
  <2>2. queue' \in [Loops -> Seq({"start", "stop"})]
    <3> DEFINE l == made'
    <3>1. l \in Loops /\ Schedule(l, "start")
      BY <1>3, <2>1, LoopFacts DEF StartOwn
    <3> HIDE DEF l
    <3> QED BY <3>1, ScheduleQueues DEF TypeOK, Coroutines
  <2>3. pc' \in [Runs -> {"idle", "starting", "waiting", "ready", "over"}]
    BY <1>3 DEF StartOwn, Goto, TypeOK
  <2> QED BY <1>3, <2>1, <2>2, <2>3, LoopFacts DEF StartOwn, TypeOK, reporter, shutdown, history
<1>4. CASE Opened(r)
  <2>1. pc' \in [Runs -> {"idle", "starting", "waiting", "ready", "over"}]
    BY <1>4 DEF Opened, Goto, TypeOK
  <2> QED BY <1>4, <2>1 DEF Opened, TypeOK, loops, coroutines, reporter, shutdown, history
<1>5. CASE Report(r)
  <2>1. pc' \in [Runs -> {"idle", "starting", "waiting", "ready", "over"}]
    BY <1>5 DEF Report, Goto, TypeOK
  <2>2. late' \subseteq Runs /\ buffer' \subseteq Runs /\ hosted' \subseteq Runs
    BY <1>5 DEF Report, TypeOK
  <2> QED BY <1>5, <2>1, <2>2 DEF Report, TypeOK, loops, coroutines, reporter, shutdown
<1> QED BY <1>1, <1>2, <1>3, <1>4, <1>5 DEF Handler

\* A flush loop that is no more.
LEMMA EndsTypes ==
    ASSUME NEW S, NEW T, flushers \subseteq S, posting \in [Loops -> SUBSET T], NEW l, Ends(l)
    PROVE  flushers' \subseteq S \ {l} /\ posting' \in [Loops -> SUBSET T]
BY DEF Ends

\* The steps of a coroutine and of a flush loop.
LEMMA CoroutineTypes == ASSUME TypeOK, NEW l \in Loops, Coroutine(l) PROVE TypeOK'
<1>1. CASE StartChecks(l)
  <2>1. l \in alive /\ queue[l] # <<>>
    BY <1>1 DEF StartChecks, Runs1st, Free
  <2>2. queue' \in [Loops -> Seq({"start", "stop"})]
    BY <1>1, <2>1, DequeueQueues DEF StartChecks, TypeOK, Coroutines
  <2>3. overtaken' \in BOOLEAN /\ opening' \subseteq alive
    BY <1>1, <2>1 DEF StartChecks, TypeOK
  <2> QED BY <1>1, <2>2, <2>3 DEF StartChecks, TypeOK, handlers, loops, reporter, shutdown
<1>2. CASE StartOpens(l)
  BY <1>2 DEF StartOpens, TypeOK, handlers, loops, shutdown, history
<1>3. CASE StopBegins(l)
  <2>1. l \in alive /\ queue[l] # <<>>
    BY <1>3 DEF StopBegins, Runs1st, Free
  <2>2. queue' \in [Loops -> Seq({"start", "stop"})]
    BY <1>3, <2>1, DequeueQueues DEF StopBegins, TypeOK, Coroutines
  <2>3. overtaken' \in BOOLEAN /\ stopping' \subseteq alive
    BY <1>3, <2>1 DEF StopBegins, TypeOK
  <2>4. flushers' \subseteq alive /\ posting' \in [Loops -> SUBSET Runs]
    BY <1>3, EndsTypes DEF StopBegins, TypeOK
  <2> QED BY <1>3, <2>2, <2>3, <2>4 DEF StopBegins, TypeOK, handlers, loops, shutdown
<1>4. CASE StopRaises(l)
  <2>1. queue[l] # <<>>
    BY <1>4 DEF StopRaises, Runs1st
  <2>2. queue' \in [Loops -> Seq({"start", "stop"})]
    BY <1>4, <2>1, DequeueQueues DEF StopRaises, TypeOK, Coroutines
  <2>3. overtaken' \in BOOLEAN
    BY <1>4 DEF StopRaises, TypeOK
  <2> QED BY <1>4, <2>2, <2>3 DEF StopRaises, TypeOK, handlers, loops, shutdown
<1>5. CASE StopEnds(l)
  BY <1>5 DEF StopEnds, TypeOK, handlers, loops, shutdown
<1>6. CASE FlushBegins(l)
  <2>1. posting' \in [Loops -> SUBSET Runs] /\ buffer' \subseteq Runs
    BY <1>6 DEF FlushBegins, TypeOK
  <2> QED BY <1>6, <2>1 DEF FlushBegins, TypeOK, handlers, loops, coroutines, shutdown, history
<1>7. CASE FlushEnds(l)
  <2>1. posting' \in [Loops -> SUBSET Runs]
    BY <1>7 DEF FlushEnds, TypeOK
  <2>2. buffer' \subseteq Runs /\ returned' \subseteq Runs
    BY <1>7 DEF FlushEnds, TypeOK
  <2> QED BY <1>7, <2>1, <2>2 DEF FlushEnds, TypeOK, handlers, loops, coroutines, shutdown
<1>8. CASE FlusherDies(l) \/ FlusherEnds(l)
  <2>1. flushers' \subseteq alive /\ posting' \in [Loops -> SUBSET Runs]
    BY <1>8, EndsTypes DEF FlusherDies, FlusherEnds, TypeOK
  <2>2. crashed' \in BOOLEAN
    BY <1>8 DEF FlusherDies, FlusherEnds, TypeOK
  <2> QED BY <1>8, <2>1, <2>2
          DEF FlusherDies, FlusherEnds, TypeOK, handlers, loops, coroutines, shutdown, history
<1> QED BY <1>1, <1>2, <1>3, <1>4, <1>5, <1>6, <1>7, <1>8 DEF Coroutine

\* A loop that closes takes what was scheduled on it with it.
LEMMA ClosedQueue ==
    ASSUME queue \in [Loops -> Seq(Coroutines)], NEW l, queue' = [queue EXCEPT ![l] = <<>>]
    PROVE  /\ queue' \in [Loops -> Seq(Coroutines)]
           /\ \A k \in Loops : k # l => queue'[k] = queue[k]
<1>1. <<>> \in Seq(Coroutines)
  OBVIOUS
<1> QED BY <1>1

LEMMA CloseTypes ==
    ASSUME TypeOK, AppCloses \/ AppOpens \/ Shutdown \/ ShutdownHosted \/ LoopStops \/ Closed
    PROVE  TypeOK'
<1>1. CASE AppCloses
  <2>1. queue' \in [Loops -> Seq({"start", "stop"})]
    BY <1>1, ClosedQueue DEF AppCloses, TypeOK, Coroutines
  <2>2. opening \subseteq alive' /\ stopping' \subseteq alive' /\ flushers' \subseteq alive'
        /\ posting' \in [Loops -> SUBSET Runs]
    BY <1>1, EndsTypes DEF AppCloses, TypeOK, Free
  <2>3. unheard' \in BOOLEAN /\ deserted' \in BOOLEAN
    BY <1>1 DEF AppCloses
  <2> QED BY <1>1, <2>1, <2>2, <2>3 DEF AppCloses, TypeOK, handlers, shutdown
<1>2. CASE AppOpens
  BY <1>2, LoopFacts DEF AppOpens, TypeOK, handlers, coroutines, reporter, shutdown, history
<1>3. CASE Shutdown
  <2>1. own \in Loops
    BY <1>3, LoopFacts DEF Shutdown, TypeOK
  <2>2. queue' \in [Loops -> Seq({"start", "stop"})]
    BY <1>3, <2>1, ScheduleQueues DEF Shutdown, TypeOK, Coroutines
  <2>3. shutdowns' \in 0 .. MaxShutdowns
    BY <1>3, BoundsAssumption DEF Shutdown, TypeOK
  <2> QED BY <1>3, <2>2, <2>3 DEF Shutdown, TypeOK, handlers, loops, reporter, history
<1>4. CASE ShutdownHosted
  <2>1. queue' \in [Loops -> Seq({"start", "stop"})]
    BY <1>4, ScheduleQueues, LoopFacts DEF ShutdownHosted, TypeOK, Coroutines
  <2>2. shutdowns' \in 0 .. MaxShutdowns
    BY <1>4, BoundsAssumption DEF ShutdownHosted, TypeOK
  <2>3. unheard' \in BOOLEAN
    BY <1>4 DEF ShutdownHosted, TypeOK
  <2> QED BY <1>4, <2>1, <2>2, <2>3 DEF ShutdownHosted, TypeOK, handlers, loops, reporter
<1>5. CASE LoopStops
  <2>1. queue' \in [Loops -> Seq({"start", "stop"})]
    BY <1>5, ClosedQueue DEF LoopStops, TypeOK, Coroutines
  <2>2. opening \subseteq alive' /\ stopping' \subseteq alive' /\ flushers' \subseteq alive'
        /\ posting' \in [Loops -> SUBSET Runs]
    BY <1>5, EndsTypes DEF LoopStops, TypeOK
  <2>3. unheard' \in BOOLEAN
    BY <1>5 DEF LoopStops
  <2> QED BY <1>5, <2>1, <2>2, <2>3 DEF LoopStops, TypeOK, handlers
<1>6. CASE Closed
  BY <1>6 DEF Closed, TypeOK, handlers, loops, coroutines, reporter, history
<1> QED BY <1>1, <1>2, <1>3, <1>4, <1>5, <1>6

LEMMA StutterTypes == ASSUME TypeOK, UNCHANGED vars PROVE TypeOK'
BY DEF TypeOK, vars, handlers, loops, coroutines, reporter, shutdown, history

\* The state of a callback's reporter and loops has its type.
THEOREM LifeTypes == Spec => []TypeOK
<1>1. TypeOK /\ [Next]_vars => TypeOK'
  BY HandlerTypes, CoroutineTypes, CloseTypes, StutterTypes DEF Next
<1> QED BY InitLife, <1>1, PTL DEF Spec

-----------------------------------------------------------------------------
\* Who may make a loop: one handler at a time, when there is none and nobody shuts down.
Alone == \A r, s \in Starting : r = s
Waiting == \E r \in Runs : pc[r] = "waiting"

Claim ==
    /\ closer # "idle" => started
    /\ ~raced =>
          /\ Alone
          /\ Starting # {} => ~started
          /\ ~started /\ ~Waiting => own = NoLoop
          /\ closer = "closing" => own = NoLoop

LoopInv == TypeOK /\ Claim /\ OneLoop

\* What a handler's move does to the set of those that start the reporter.
LEMMA StartingMoves ==
    ASSUME TypeOK, NEW r \in Runs, NEW p, Goto(r, p)
    PROVE  /\ p \in {"starting", "waiting"} => Starting' = Starting \cup {r}
           /\ p \notin {"starting", "waiting"} => Starting' = Starting \ {r}
           /\ p = "waiting" => Waiting'
           /\ \A s \in Runs : s # r => pc'[s] = pc[s]
           /\ pc'[r] = p
BY DEF TypeOK, Goto, Starting, Waiting

LEMMA HandlerStep == ASSUME LoopInv, NEW r \in Runs, Handler(r) PROVE LoopInv'
<1>1. TypeOK' /\ TypeOK
  BY HandlerTypes DEF LoopInv
<1>2. CASE Enter(r)
  <2>1. UNCHANGED <<started, own, alive, closer>> /\ raced' = (raced \/ (~started /\ Starting # {}))
    BY <1>2 DEF Enter, loops, shutdown
  <2>2. pc[r] = "idle" /\ Goto(r, IF started THEN "ready" ELSE "starting")
    BY <1>2 DEF Enter
  <2>3. Waiting' <=> Waiting
    BY <1>1, <2>2, StartingMoves DEF Waiting
  <2>4. CASE started
    <3>1. Starting' = Starting
      BY <1>1, <2>2, <2>4, StartingMoves DEF Starting
    <3> QED BY <1>1, <2>1, <2>3, <3>1 DEF LoopInv, Claim, Alone, OneLoop
  <2>5. CASE ~started
    <3>1. Starting' = Starting \cup {r}
      BY <1>1, <2>2, <2>5, StartingMoves
    <3>2. ~raced' => Alone'
      BY <2>1, <2>5, <3>1 DEF Alone
    <3> QED BY <1>1, <2>1, <2>3, <2>5, <3>1, <3>2 DEF LoopInv, Claim, OneLoop
  <2> QED BY <2>4, <2>5
<1>3. CASE StartHosted(r) \/ Opened(r)
  <2>1. UNCHANGED <<own, alive, closer, raced>> /\ started' /\ Goto(r, "ready") /\ r \in Starting
    BY <1>3 DEF StartHosted, Opened, loops, shutdown, history, Starting
  <2>2. Starting' = Starting \ {r}
    BY <1>1, <2>1, StartingMoves
  <2>3. ~raced => Starting' = {}
    BY <2>1, <2>2 DEF LoopInv, Claim, Alone
  <2> QED BY <1>1, <2>1, <2>3 DEF LoopInv, Claim, Alone, OneLoop
<1>4. CASE StartOwn(r)
  <2>1. UNCHANGED <<started, closer, raced>> /\ Goto(r, "waiting") /\ r \in Starting /\ pc[r] = "starting"
    BY <1>4 DEF StartOwn, shutdown, history, Starting
  <2>2. own' \in Own /\ own' # NoLoop /\ alive' = alive \cup {own'}
    BY <1>1, <1>4, BoundsAssumption DEF StartOwn, TypeOK, Own, NoLoop
  <2>3. Starting' = Starting /\ Waiting'
    BY <1>1, <2>1, StartingMoves
  <2>4. CASE raced
    BY <1>1, <2>1, <2>4 DEF LoopInv, Claim, OneLoop
  <2>5. CASE ~raced
    <3>1. ~Waiting
      BY <2>1, <2>5 DEF LoopInv, Claim, Alone, Starting, Waiting
    <3>2. own = NoLoop /\ ~started /\ closer = "idle"
      BY <2>1, <2>5, <3>1 DEF LoopInv, Claim
    <3>3. alive \cap Own = {}
      BY <2>5, <3>2 DEF LoopInv, OneLoop
    <3>4. alive' \cap Own = {own'} \ {NoLoop}
      BY <2>2, <3>3
    <3> QED BY <1>1, <2>1, <2>3, <2>5, <3>2, <3>4 DEF LoopInv, Claim, Alone, OneLoop
  <2> QED BY <2>4, <2>5
<1>5. CASE Report(r)
  <2>1. UNCHANGED <<started, own, alive, closer, raced>> /\ Goto(r, "over") /\ pc[r] = "ready"
    BY <1>5 DEF Report, loops, shutdown
  <2>2. Starting' = Starting /\ (Waiting' <=> Waiting)
    BY <1>1, <2>1, StartingMoves DEF Starting, Waiting
  <2> QED BY <1>1, <2>1, <2>2 DEF LoopInv, Claim, Alone, OneLoop
<1> QED BY <1>2, <1>3, <1>4, <1>5 DEF Handler

\* Most steps touch neither the loops nor the handlers.
LEMMA LoopsKept ==
    ASSUME LoopInv, TypeOK', UNCHANGED <<started, own, pc, closer, raced>>,
           alive' \cap Own = alive \cap Own
    PROVE  LoopInv'
<1>1. Starting' = Starting /\ (Waiting' <=> Waiting)
  BY DEF Starting, Waiting
<1> QED BY <1>1 DEF LoopInv, Claim, Alone, OneLoop

LEMMA CoroutineStep == ASSUME LoopInv, NEW l \in Loops, Coroutine(l) PROVE LoopInv'
<1>1. TypeOK'
  BY CoroutineTypes DEF LoopInv
<1>2. UNCHANGED <<started, own, alive, pc, closer, raced>>
  BY DEF Coroutine, StartChecks, StartOpens, StopBegins, StopRaises, StopEnds, FlushBegins,
         FlushEnds, FlusherDies, FlusherEnds, handlers, loops, shutdown, history
<1> QED BY <1>1, <1>2, LoopsKept

LEMMA CloseStep ==
    ASSUME LoopInv, AppCloses \/ AppOpens \/ Shutdown \/ ShutdownHosted \/ LoopStops \/ Closed
    PROVE  LoopInv'
<1>1. TypeOK' /\ UNCHANGED <<pc, raced>>
  BY CloseTypes DEF LoopInv, AppCloses, AppOpens, Shutdown, ShutdownHosted, LoopStops, Closed,
                    handlers, history
<1>2. Starting' = Starting /\ (Waiting' <=> Waiting)
  BY <1>1 DEF Starting, Waiting
<1>3. CASE AppCloses \/ AppOpens
  <2>1. UNCHANGED <<started, own, closer>> /\ alive' \cap Own = alive \cap Own
    BY <1>3, LoopFacts DEF AppCloses, AppOpens, shutdown
  <2> QED BY <1>1, <2>1, LoopsKept
<1>4. CASE Shutdown \/ ShutdownHosted
  <2>1. /\ started /\ UNCHANGED <<started, own, alive>>
        /\ closer' = "waiting" \/ (closer' = "closing" /\ own = NoLoop)
    BY <1>4 DEF Shutdown, ShutdownHosted, loops
  <2> QED BY <1>1, <1>2, <2>1 DEF LoopInv, Claim, Alone, OneLoop
<1>5. CASE LoopStops
  <2>1. /\ closer = "waiting" /\ UNCHANGED started
        /\ own' = NoLoop /\ alive' = alive \ {own}
    BY <1>5 DEF LoopStops
  <2>2. OneLoop'
    BY <1>1, <2>1 DEF LoopInv, OneLoop
  <2> QED BY <1>1, <1>2, <2>1, <2>2 DEF LoopInv, Claim, Alone
<1>6. CASE Closed
  <2>1. closer = "closing" /\ closer' = "idle" /\ started' = FALSE /\ UNCHANGED <<own, alive>>
    BY <1>6 DEF Closed, loops
  <2> QED BY <1>1, <1>2, <2>1 DEF LoopInv, Claim, Alone, OneLoop
<1> QED BY <1>3, <1>4, <1>5, <1>6

\* A callback owns at most one loop, the one it knows, unless handlers raced.
THEOREM AtMostOneLoop == Spec => []OneLoop
<1>1. Init => LoopInv
  <2> SUFFICES ASSUME Init PROVE LoopInv
    OBVIOUS
  <2>1. Starting = {} /\ alive \cap Own = {} /\ own = NoLoop /\ closer = "idle"
    BY LoopFacts DEF Init, Starting
  <2> QED BY <2>1, InitLife DEF LoopInv, Claim, Alone, OneLoop
<1>2. LoopInv /\ UNCHANGED vars => LoopInv'
  BY StutterTypes, LoopsKept DEF LoopInv, vars, handlers, loops, shutdown, history
<1>3. LoopInv /\ [Next]_vars => LoopInv'
  BY HandlerStep, CoroutineStep, CloseStep, <1>2 DEF Next
<1>4. LoopInv => OneLoop
  BY DEF LoopInv
<1> QED BY <1>1, <1>3, <1>4, PTL DEF Spec

-----------------------------------------------------------------------------
\* What is in the buffer is owed to a later shutdown, to a stop() under way or to
\* nobody: it was reported or put back too late, or a stop() was lost or raised.
Owed ==
    \/ unheard \/ (started /\ closer = "idle") \/ StopPending(Loops)
    \/ buffer \subseteq late \cup returned
DebtInv == TypeOK /\ Owed

LEMMA HandlerDebt == ASSUME DebtInv, NEW r \in Runs, Handler(r) PROVE DebtInv'
<1>1. TypeOK' /\ TypeOK
  BY HandlerTypes DEF DebtInv
<1>2. StopPending(Loops) => StopPending(Loops)'
  <2>1. CASE StartHosted(r)
    BY <1>1, <2>1, ScheduleQueues, LoopFacts DEF StartHosted, StopPending, TypeOK, Coroutines
  <2>2. CASE StartOwn(r)
    <3> DEFINE l == made'
    <3>1. l \in Loops /\ Schedule(l, "start") /\ UNCHANGED stopping
      BY <1>1, <2>2, BoundsAssumption DEF StartOwn, TypeOK, Loops, Own
    <3> HIDE DEF l
    <3> QED BY <1>1, <3>1, ScheduleQueues DEF StopPending, TypeOK, Coroutines
  <2>3. CASE Enter(r) \/ Opened(r) \/ Report(r)
    BY <2>3 DEF Enter, Opened, Report, coroutines, StopPending
  <2> QED BY <2>1, <2>2, <2>3 DEF Handler
<1>3. CASE Report(r)
  BY <1>1, <1>2, <1>3 DEF Report, shutdown, DebtInv, Owed
<1>4. CASE ~Report(r)
  <2>1. UNCHANGED <<unheard, closer, buffer, late, returned>> /\ (started => started')
    BY <1>4 DEF Handler, Enter, StartHosted, StartOwn, Opened, shutdown, history
  <2> QED BY <1>1, <1>2, <2>1 DEF DebtInv, Owed
<1> QED BY <1>3, <1>4

LEMMA CoroutineDebt == ASSUME DebtInv, NEW l \in Loops, Coroutine(l) PROVE DebtInv'
<1>1. TypeOK' /\ TypeOK
  BY CoroutineTypes DEF DebtInv
<1>2. CASE StartChecks(l)
  <2>1. queue[l] # <<>> /\ Head(queue[l]) = "start" /\ Dequeue(l) /\ UNCHANGED stopping
    BY <1>2 DEF StartChecks, Runs1st
  <2>2. StopPending(Loops) => StopPending(Loops)'
    BY <1>1, <2>1, DequeueQueues DEF StopPending, TypeOK, Coroutines
  <2>3. UNCHANGED <<unheard, started, closer, buffer, late, returned>>
    BY <1>2 DEF StartChecks, shutdown
  <2> QED BY <1>1, <2>2, <2>3 DEF DebtInv, Owed
<1>3. CASE StopBegins(l)
  BY <1>1, <1>3 DEF StopBegins, DebtInv, Owed, StopPending
<1>4. CASE StopRaises(l) \/ StopEnds(l) \/ FlushBegins(l)
  BY <1>1, <1>4 DEF StopRaises, StopEnds, FlushBegins, DebtInv, Owed
<1>5. CASE FlushEnds(l)
  <2>1. UNCHANGED <<unheard, started, closer, queue, stopping, late>>
    BY <1>5 DEF FlushEnds, coroutines, shutdown
  <2>2. CASE started /\ closer = "idle"
    BY <1>1, <2>1, <2>2 DEF DebtInv, Owed
  <2>3. CASE ~(started /\ closer = "idle")
    <3>1. UNCHANGED <<buffer, returned>>
          \/ (buffer' = buffer \cup posting[l] /\ returned' = returned \cup posting[l])
      BY <1>5, <2>3 DEF FlushEnds
    <3> QED BY <1>1, <2>1, <3>1 DEF DebtInv, Owed, StopPending
  <2> QED BY <2>2, <2>3
<1>6. CASE StartOpens(l) \/ FlusherDies(l) \/ FlusherEnds(l)
  <2>1. UNCHANGED <<unheard, started, closer, buffer, late, returned, queue, stopping>>
    BY <1>6 DEF StartOpens, FlusherDies, FlusherEnds, coroutines, shutdown, history
  <2> QED BY <1>1, <2>1 DEF DebtInv, Owed, StopPending
<1> QED BY <1>2, <1>3, <1>4, <1>5, <1>6 DEF Coroutine

LEMMA CloseDebt ==
    ASSUME DebtInv, AppCloses \/ AppOpens \/ Shutdown \/ ShutdownHosted \/ LoopStops \/ Closed
    PROVE  DebtInv'
<1>1. TypeOK' /\ TypeOK
  BY CloseTypes DEF DebtInv
<1>2. CASE AppCloses
  <2>1. \A k \in Loops : k # App => queue'[k] = queue[k] /\ (k \in stopping => k \in stopping')
    BY <1>1, <1>2, ClosedQueue DEF AppCloses, TypeOK, Coroutines
  <2>2. StopPending(Loops) => StopPending(Loops)' \/ unheard'
    BY <1>2, <2>1 DEF AppCloses, StopPending
  <2>3. (unheard => unheard') /\ UNCHANGED <<started, closer, buffer, late, returned>>
    BY <1>2 DEF AppCloses, shutdown
  <2> QED BY <1>1, <2>2, <2>3 DEF DebtInv, Owed
<1>3. CASE AppOpens
  BY <1>1, <1>3 DEF AppOpens, coroutines, shutdown, history, DebtInv, Owed, StopPending
<1>4. CASE Shutdown
  <2>1. own \in Loops /\ Schedule(own, "stop")
    BY <1>1, <1>4, LoopFacts DEF Shutdown, TypeOK
  <2>2. StopPending(Loops)'
    BY <1>1, <2>1, ScheduleQueues DEF StopPending, TypeOK, Coroutines
  <2> QED BY <1>1, <2>2 DEF DebtInv, Owed
<1>5. CASE ShutdownHosted
  <2>1. CASE unheard'
    BY <1>1, <2>1 DEF DebtInv, Owed
  <2>2. CASE Schedule(App, "stop")
    <3>1. StopPending(Loops)'
      BY <1>1, <2>2, LoopFacts, ScheduleQueues DEF StopPending, TypeOK, Coroutines
    <3> QED BY <1>1, <3>1 DEF DebtInv, Owed
  <2> QED BY <1>5, <2>1, <2>2 DEF ShutdownHosted
<1>6. CASE LoopStops
  <2>1. \A k \in Loops : k # own => queue'[k] = queue[k] /\ (k \in stopping => k \in stopping')
    BY <1>1, <1>6, ClosedQueue DEF LoopStops, TypeOK, Coroutines
  <2>2. own # App
    BY <1>1, LoopFacts DEF TypeOK, NoLoop, App
  <2>3. StopPending(Loops) => StopPending(Loops)' \/ unheard'
    BY <1>6, <2>1, <2>2 DEF LoopStops, StopPending, Loops
  <2>4. (unheard => unheard') /\ closer = "waiting" /\ UNCHANGED <<buffer, late, returned>>
    BY <1>6 DEF LoopStops
  <2> QED BY <1>1, <2>3, <2>4 DEF DebtInv, Owed
<1>7. CASE Closed
  BY <1>1, <1>7 DEF Closed, coroutines, history, DebtInv, Owed, StopPending
<1> QED BY <1>2, <1>3, <1>4, <1>5, <1>6, <1>7

\* After a shutdown nothing is left in the buffer but what was reported or put back too
\* late, or a stop() was lost or raised.
THEOREM ShutdownFlushes == Spec => []NothingLeftBehind
<1>1. Init => DebtInv
  BY InitLife DEF Init, DebtInv, Owed
<1>2. DebtInv /\ UNCHANGED vars => DebtInv'
  BY StutterTypes DEF DebtInv, Owed, StopPending, vars, coroutines, shutdown, history
<1>3. DebtInv /\ [Next]_vars => DebtInv'
  BY HandlerDebt, CoroutineDebt, CloseDebt, <1>2 DEF Next
<1>4. DebtInv => NothingLeftBehind
  <2> SUFFICES ASSUME DebtInv, ~started, Settled PROVE buffer \subseteq late \cup returned \/ unheard
    BY DEF NothingLeftBehind
  <2>1. ~StopPending(Loops)
    BY DEF Settled, StopPending, Contains
  <2> QED BY <2>1 DEF DebtInv, Owed
<1> QED BY <1>1, <1>3, <1>4, PTL DEF Spec

-----------------------------------------------------------------------------
\* Who sees to it that a callback that is started can send: a start() still scheduled
\* or under way, or a reporter that runs.  A stop() that was asked for before the
\* callback was started again has a start() behind it.
Up == closer = "idle" /\ (started \/ Waiting)
StartQueued == \E l \in Loops : Contains(queue[l], "start")
Promised == Up /\ StopPending(Loops) => StartQueued
Served == Up /\ ~StopPending(Loops) => StartQueued \/ opening # {} \/ running
Quiet == stopping # {} => ~running /\ opening = {}
Sends == running => client /\ (unheard \/ crashed \/ task \in flushers)
LastWord ==
    closer = "waiting" =>
        /\ own # NoLoop
        /\ queue[own] # <<>> => Last(queue[own]) = "stop"
        /\ queue[own] = <<>> =>
               own \notin opening /\ (~running \/ unheard \/ crashed \/ task \in flushers \ {own})

Exempt == raced \/ deserted \/ overtaken
SendInv == LoopInv /\ (~Exempt => Promised /\ Served /\ Quiet /\ Sends /\ LastWord)

\* A handler that moves leaves the coroutines under way and the reporter alone.
LEMMA HandlerSends == ASSUME SendInv, NEW r \in Runs, Handler(r) PROVE SendInv'
<1>1. LoopInv /\ LoopInv' /\ TypeOK
  BY HandlerStep DEF SendInv, LoopInv
<1>2. SUFFICES ASSUME ~Exempt' PROVE (Promised /\ Served /\ Quiet /\ Sends /\ LastWord)'
  BY <1>1 DEF SendInv
<1>3. /\ UNCHANGED <<opening, stopping, running, client, task, crashed, flushers, unheard, deserted,
                   overtaken, closer>>
      /\ raced => raced'
  <2>1. CASE Enter(r)
    BY <1>1, <2>1 DEF Enter, coroutines, reporter, shutdown
  <2>2. CASE StartHosted(r) \/ StartOwn(r) \/ Opened(r)
    BY <2>2 DEF StartHosted, StartOwn, Opened, coroutines, reporter, shutdown, history
  <2>3. CASE Report(r)
    BY <2>3 DEF Report, coroutines, reporter, shutdown
  <2> QED BY <2>1, <2>2, <2>3 DEF Handler
<1>4. Promised /\ Served /\ Quiet /\ Sends /\ LastWord /\ ~raced /\ ~raced'
  BY <1>2, <1>3 DEF SendInv, Exempt
<1>5. Quiet' /\ Sends'
  BY <1>3, <1>4 DEF Quiet, Sends
<1>6. CASE Enter(r) \/ Opened(r) \/ Report(r)
  <2>1. UNCHANGED <<own, queue>>
    BY <1>6 DEF Enter, Opened, Report, loops, coroutines
  <2>2. LastWord'
    BY <1>3, <1>4, <2>1 DEF LastWord
  <2>3. Up' => Up
    <3>1. CASE Enter(r)
      <4>1. Waiting' <=> Waiting
        <5>1. Goto(r, IF started THEN "ready" ELSE "starting") /\ pc[r] = "idle"
          BY <3>1 DEF Enter
        <5> QED BY <1>1, <5>1, StartingMoves DEF Waiting
      <4> QED BY <1>3, <3>1, <4>1 DEF Enter, Up
    <3>2. CASE Opened(r)
      BY <1>3, <3>2 DEF Opened, Up, Waiting
    <3>3. CASE Report(r)
      <4>1. Waiting' <=> Waiting
        <5>1. Goto(r, "over") /\ pc[r] = "ready"
          BY <3>3 DEF Report
        <5> QED BY <1>1, <5>1, StartingMoves DEF Waiting
      <4> QED BY <1>3, <3>3, <4>1 DEF Report, Up
    <3> QED BY <1>6, <3>1, <3>2, <3>3
  <2>4. (StopPending(Loops)' <=> StopPending(Loops)) /\ (StartQueued' <=> StartQueued)
    BY <1>3, <2>1 DEF StopPending, StartQueued
  <2> QED BY <1>3, <1>4, <1>5, <2>2, <2>3, <2>4 DEF Promised, Served
<1>7. CASE StartHosted(r) \/ StartOwn(r)
  <2>1. pc[r] = "starting" /\ r \in Starting
    BY <1>7 DEF StartHosted, StartOwn, Starting
  <2>2. closer = "idle"
    BY <1>1, <1>4, <2>1 DEF LoopInv, Claim
  <2>3. StartQueued'
    <3>1. CASE StartHosted(r)
      BY <1>1, <3>1, LoopFacts, ScheduleQueues DEF StartHosted, StartQueued, TypeOK, Coroutines
    <3>2. CASE StartOwn(r)
      <4> DEFINE l == made'
      <4>1. l \in Loops /\ Schedule(l, "start")
        BY <1>1, <3>2, BoundsAssumption DEF StartOwn, TypeOK, Loops, Own
      <4> HIDE DEF l
      <4> QED BY <1>1, <4>1, ScheduleQueues DEF StartQueued, TypeOK, Coroutines
    <3> QED BY <1>7, <3>1, <3>2
  <2> QED BY <1>3, <1>5, <2>2, <2>3 DEF Promised, Served, LastWord
<1> QED BY <1>6, <1>7 DEF Handler

LEMMA CoroutineSends == ASSUME SendInv, NEW l \in Loops, Coroutine(l) PROVE SendInv'
<1>1. LoopInv /\ LoopInv' /\ TypeOK
  BY CoroutineStep DEF SendInv, LoopInv
<1>2. SUFFICES ASSUME ~Exempt' PROVE (Promised /\ Served /\ Quiet /\ Sends /\ LastWord)'
  BY <1>1 DEF SendInv
<1>3. /\ UNCHANGED <<started, pc, own, closer, raced, deserted>>
      /\ overtaken => overtaken'
  <2>1. CASE StartChecks(l) \/ StopBegins(l) \/ StopRaises(l)
    BY <2>1 DEF StartChecks, StopBegins, StopRaises, handlers, loops, shutdown
  <2>2. CASE StopEnds(l)
    BY <2>2 DEF StopEnds, handlers, loops, shutdown
  <2>3. CASE StartOpens(l) \/ FlushBegins(l) \/ FlushEnds(l) \/ FlusherDies(l) \/ FlusherEnds(l)
    BY <2>3 DEF StartOpens, FlushBegins, FlushEnds, FlusherDies, FlusherEnds, handlers, loops,
                shutdown, history
  <2> QED BY <2>1, <2>2, <2>3 DEF Coroutine
<1>4. Promised /\ Served /\ Quiet /\ Sends /\ LastWord
  BY <1>2, <1>3 DEF SendInv, Exempt
<1>5. (Up' <=> Up) /\ ~overtaken'
  BY <1>2, <1>3 DEF Up, Waiting, Exempt
<1>6. own # NoLoop => own \in Loops
  BY <1>1, LoopFacts DEF TypeOK
<1>7. CASE StartChecks(l)
  <2>1. /\ queue[l] # <<>> /\ Head(queue[l]) = "start" /\ Dequeue(l)
        /\ opening' = IF running THEN opening ELSE opening \cup {l}
        /\ UNCHANGED <<stopping, running, client, task, crashed, flushers, unheard>>
    BY <1>7 DEF StartChecks, Runs1st, reporter
  <2>2. ~StopPending(Loops) /\ stopping = {}
    BY <1>1, <1>5, <1>7 DEF StartChecks, StopPending, TypeOK
  <2>3. /\ \A k \in Loops : k # l => queue'[k] = queue[k]
        /\ queue'[l] # <<>> => Last(queue'[l]) = Last(queue[l])
        /\ Last(queue[l]) = "stop" => queue'[l] # <<>>
    BY <1>1, <2>1, DequeueQueues DEF TypeOK, Coroutines
  <2>4. ~StopPending(Loops)'
    <3>1. \A k \in Loops : Contains(queue'[k], "stop") => Contains(queue[k], "stop")
      <4>1. Contains(Tail(queue[l]), "stop") => Contains(queue[l], "stop")
        <5> DEFINE s == queue[l]
        <5>1. s \in Seq(Coroutines) /\ s # <<>>
          BY <1>1, <2>1 DEF TypeOK, Coroutines
        <5> HIDE DEF s
        <5>2. Len(Tail(s)) = Len(s) - 1 /\ Len(s) \in Nat
              /\ \A i \in 1 .. Len(Tail(s)) : Tail(s)[i] = s[i + 1]
          BY <5>1, HeadTailProperties, LenProperties
        <5>3. \A i \in 1 .. Len(Tail(s)) : i + 1 \in 1 .. Len(s)
          BY <5>2
        <5>4. Contains(Tail(s), "stop") => Contains(s, "stop")
          BY <5>2, <5>3 DEF Contains
        <5> QED BY <5>4 DEF s
      <4>2. queue'[l] = Tail(queue[l])
        BY <1>1, <2>1 DEF Dequeue, TypeOK
      <4> QED BY <2>3, <4>1, <4>2
    <3> QED BY <2>1, <2>2, <3>1 DEF StopPending
  <2>5. opening' # {} \/ running'
    BY <2>1
  <2>6. LastWord'
    BY <1>3, <1>4, <1>6, <2>1, <2>3 DEF LastWord
  <2> QED BY <1>4, <2>1, <2>2, <2>4, <2>5, <2>6 DEF Promised, Served, Quiet, Sends
<1>8. CASE StartOpens(l)
  <2>1. /\ l \in opening /\ running' /\ client' /\ task' = l /\ flushers' = flushers \cup {l}
        /\ opening' = opening \ {l} /\ UNCHANGED <<queue, stopping, unheard>>
    BY <1>8 DEF StartOpens, history
  <2>2. stopping = {}
    BY <1>4, <2>1 DEF Quiet
  <2>3. (StopPending(Loops)' <=> StopPending(Loops)) /\ (StartQueued' <=> StartQueued)
    BY <2>1 DEF StopPending, StartQueued
  <2>4. LastWord'
    BY <1>3, <1>4, <2>1 DEF LastWord
  <2> QED BY <1>4, <1>5, <2>1, <2>2, <2>3, <2>4 DEF Promised, Served, Quiet, Sends
<1>9. CASE StopBegins(l) \/ StopRaises(l)
  <2>1. /\ queue[l] # <<>> /\ Head(queue[l]) = "stop" /\ Dequeue(l)
        /\ ~running' /\ UNCHANGED opening /\ opening = {}
        /\ (stopping' = stopping \cup {l} /\ UNCHANGED unheard) \/ (UNCHANGED stopping /\ unheard')
    BY <1>5, <1>9 DEF StopBegins, StopRaises, Runs1st
  <2>2. /\ \A k \in Loops : k # l => queue'[k] = queue[k]
        /\ Contains(queue[l], "start") => Contains(queue'[l], "start")
        /\ queue'[l] # <<>> => Last(queue'[l]) = Last(queue[l])
    BY <1>1, <2>1, DequeueQueues DEF TypeOK, Coroutines
  <2>3. StartQueued => StartQueued'
    BY <2>1, <2>2 DEF StartQueued
  <2>4. StopPending(Loops)
    <3>1. Contains(queue[l], "stop")
      <4> DEFINE s == queue[l]
      <4>1. s \in Seq(Coroutines) /\ s # <<>> /\ Head(s) = "stop"
        BY <1>1, <2>1 DEF TypeOK, Coroutines
      <4> HIDE DEF s
      <4>2. 1 \in 1 .. Len(s) /\ s[1] = "stop"
        BY <4>1, LenProperties, EmptySeq
      <4>3. Contains(s, "stop")
        BY <4>2 DEF Contains
      <4> QED BY <4>3 DEF s
    <3> QED BY <3>1 DEF StopPending
  <2>5. LastWord'
    BY <1>3, <1>4, <1>6, <2>1, <2>2 DEF LastWord
  <2>6. Promised' /\ Served'
    BY <1>4, <1>5, <2>3, <2>4 DEF Promised, Served
  <2> QED BY <2>1, <2>5, <2>6 DEF Quiet, Sends
<1>10. CASE StopEnds(l)
  <2>1. l \in stopping /\ stopping' = stopping \ {l} /\ UNCHANGED <<queue, opening, running>>
    BY <1>10 DEF StopEnds
  <2>2. ~running /\ opening = {} /\ StopPending(Loops)
    BY <1>4, <2>1 DEF Quiet, StopPending
  <2>3. StartQueued' <=> StartQueued
    BY <2>1 DEF StartQueued
  <2> QED BY <1>3, <1>4, <1>5, <2>1, <2>2, <2>3 DEF Promised, Served, Quiet, Sends, LastWord
<1>11. CASE FlushBegins(l) \/ FlushEnds(l) \/ FlusherDies(l) \/ FlusherEnds(l)
  <2>1. UNCHANGED <<queue, opening, stopping, running, client, task, unheard>>
    BY <1>11 DEF FlushBegins, FlushEnds, FlusherDies, FlusherEnds, coroutines, history
  <2>2. running => (crashed => crashed') /\ (task \in flushers => crashed' \/ task \in flushers')
    BY <1>11 DEF FlushBegins, FlushEnds, FlusherDies, FlusherEnds, Ends
  <2>3. running => \A k \in Loops : task \in flushers \ {k} => crashed' \/ task \in flushers' \ {k}
    BY <2>2
  <2>4. (StopPending(Loops)' <=> StopPending(Loops)) /\ (StartQueued' <=> StartQueued)
    BY <2>1 DEF StopPending, StartQueued
  <2>5. LastWord'
    BY <1>3, <1>4, <1>6, <2>1, <2>2, <2>3 DEF LastWord
  <2> QED BY <1>4, <1>5, <2>1, <2>2, <2>4, <2>5 DEF Promised, Served, Quiet, Sends
<1> QED BY <1>7, <1>8, <1>9, <1>10, <1>11 DEF Coroutine

\* While a callback is shut down no handler starts its reporter.
LEMMA NobodyStarts == ASSUME LoopInv, ~raced, closer # "idle" PROVE ~Waiting
BY DEF LoopInv, Claim, Starting, Waiting

LEMMA CloseSends ==
    ASSUME SendInv, AppCloses \/ AppOpens \/ Shutdown \/ ShutdownHosted \/ LoopStops \/ Closed
    PROVE  SendInv'
<1>1. LoopInv /\ LoopInv' /\ TypeOK
  BY CloseStep DEF SendInv, LoopInv
<1>2. SUFFICES ASSUME ~Exempt' PROVE (Promised /\ Served /\ Quiet /\ Sends /\ LastWord)'
  BY <1>1 DEF SendInv
<1>3. /\ UNCHANGED <<pc, opening, running, client, task, crashed, raced, overtaken>>
      /\ deserted => deserted'
  <2>1. CASE AppCloses
    BY <2>1 DEF AppCloses, handlers
  <2>2. CASE ShutdownHosted \/ LoopStops
    BY <2>2 DEF ShutdownHosted, LoopStops, handlers, reporter
  <2>3. CASE AppOpens \/ Shutdown \/ Closed
    BY <2>3 DEF AppOpens, Shutdown, Closed, handlers, coroutines, reporter, history
  <2> QED BY <2>1, <2>2, <2>3
<1>4. Promised /\ Served /\ Quiet /\ Sends /\ LastWord /\ ~raced /\ ~deserted'
  BY <1>2, <1>3 DEF SendInv, Exempt
<1>5. Waiting' <=> Waiting
  BY <1>3 DEF Waiting
<1>6. own # NoLoop => own \in Loops /\ own # App
  BY <1>1, LoopFacts DEF TypeOK
<1>7. CASE AppCloses
  <2>1. /\ UNCHANGED <<started, own, closer>> /\ stopping' = stopping \ {App}
        /\ unheard => unheard'
        /\ App \notin flushers /\ flushers' = flushers \ {App}
        /\ ~Contains(queue[App], "start")
    BY <1>4, <1>7 DEF AppCloses, Ends, shutdown
  <2>2. \A k \in Loops : k # App => queue'[k] = queue[k]
    BY <1>1, <1>7, ClosedQueue DEF AppCloses, TypeOK, Coroutines
  <2>3. (StartQueued => StartQueued') /\ flushers' = flushers /\ (Up' <=> Up)
    BY <1>5, <2>1, <2>2 DEF StartQueued, Up
  <2>4. LastWord'
    BY <1>3, <1>4, <1>6, <2>1, <2>2, <2>3 DEF LastWord
  <2>5. Quiet' /\ Sends'
    BY <1>3, <1>4, <2>1, <2>3 DEF Quiet, Sends
  <2>6. StopPending(Loops)' => StopPending(Loops)
    <3>1. ~Contains(queue'[App], "stop")
      <4>1. queue'[App] = <<>>
        BY <1>1, <1>7, LoopFacts DEF AppCloses, TypeOK
      <4> QED BY <4>1 DEF Contains
    <3> QED BY <2>1, <2>2, <3>1 DEF StopPending
  <2>7. Promised'
    BY <1>4, <2>3, <2>6 DEF Promised
  <2>8. Served'
    BY <1>3, <1>4, <2>3 DEF Served, Promised
  <2> QED BY <2>4, <2>5, <2>7, <2>8
<1>8. CASE AppOpens
  <2>1. UNCHANGED <<started, own, closer, queue, stopping, flushers, unheard>>
    BY <1>8 DEF AppOpens, coroutines, reporter, shutdown, history
  <2>2. (StopPending(Loops)' <=> StopPending(Loops)) /\ (StartQueued' <=> StartQueued) /\ (Up' <=> Up)
    BY <1>5, <2>1 DEF StopPending, StartQueued, Up
  <2> QED BY <1>3, <1>4, <2>1, <2>2 DEF Promised, Served, Quiet, Sends, LastWord
<1>9. CASE Shutdown
  <2>1. /\ closer' = "waiting" /\ own \in Loops /\ own # NoLoop /\ Schedule(own, "stop")
        /\ UNCHANGED <<own, stopping, flushers, unheard>>
    BY <1>6, <1>9 DEF Shutdown, loops, reporter, history
  <2>2. queue'[own] # <<>> /\ Last(queue'[own]) = "stop"
    BY <1>1, <2>1, ScheduleQueues DEF TypeOK, Coroutines
  <2>3. LastWord' /\ ~Up'
    BY <2>1, <2>2 DEF LastWord, Up
  <2> QED BY <1>3, <1>4, <2>1, <2>3 DEF Promised, Served, Quiet, Sends
<1>10. CASE ShutdownHosted
  <2>1. closer' = "closing" /\ UNCHANGED <<stopping, flushers>> /\ (unheard => unheard')
    BY <1>10 DEF ShutdownHosted, reporter
  <2> QED BY <1>3, <1>4, <2>1 DEF Promised, Served, Quiet, Sends, LastWord, Up
<1>11. CASE LoopStops
  <2>1. /\ closer = "waiting" /\ closer' = "closing"
        /\ stopping' = stopping \ {own} /\ flushers' = flushers \ {own}
        /\ unheard' = (unheard \/ StopPending(Own))
    BY <1>11 DEF LoopStops, Ends
  <2>2. running /\ ~unheard' => crashed \/ task \in flushers'
    <3> SUFFICES ASSUME running, ~unheard, ~StopPending(Own) PROVE crashed \/ task \in flushers \ {own}
      BY <2>1
    <3>1. own \in Own /\ ~Contains(queue[own], "stop")
      BY <1>1, <1>4, <2>1 DEF LastWord, StopPending, TypeOK
    <3>2. queue[own] = <<>>
      <4> DEFINE s == queue[own]
      <4>1. s \in Seq(Coroutines) /\ ~Contains(s, "stop") /\ (s # <<>> => Last(s) = "stop")
        BY <1>1, <1>4, <2>1, <3>1, LoopFacts DEF TypeOK, Coroutines, LastWord
      <4> HIDE DEF s
      <4>2. s # <<>> => Len(s) \in 1 .. Len(s)
        BY <4>1, LenProperties, EmptySeq
      <4>3. s = <<>>
        BY <4>1, <4>2 DEF Last, Contains
      <4> QED BY <4>3 DEF s
    <3> QED BY <1>4, <2>1, <3>2 DEF LastWord
  <2> QED BY <1>3, <1>4, <2>1, <2>2 DEF Promised, Served, Quiet, Sends, LastWord, Up
<1>12. CASE Closed
  <2>1. /\ closer = "closing" /\ closer' = "idle" /\ started' = FALSE
        /\ UNCHANGED <<stopping, flushers, unheard>>
    BY <1>12 DEF Closed, coroutines, reporter, history
  <2>2. ~Up'
    BY <1>1, <1>4, <1>5, <2>1, NobodyStarts DEF Up
  <2> QED BY <1>3, <1>4, <2>1, <2>2 DEF Promised, Served, Quiet, Sends, LastWord
<1> QED BY <1>7, <1>8, <1>9, <1>10, <1>11, <1>12

LEMMA StutterSends == ASSUME SendInv, UNCHANGED vars PROVE SendInv'
<1>1. LoopInv'
  BY StutterTypes, LoopsKept DEF SendInv, LoopInv, vars, handlers, loops, shutdown, history
<1>2. /\ UNCHANGED <<opening, stopping, running, client, task, crashed, flushers, unheard, closer, own, queue>>
      /\ UNCHANGED <<started, pc, raced, deserted, overtaken>>
  BY DEF vars, handlers, loops, coroutines, reporter, shutdown, history
<1>3. /\ (StopPending(Loops)' <=> StopPending(Loops)) /\ (StartQueued' <=> StartQueued)
      /\ (Up' <=> Up) /\ (Exempt' <=> Exempt)
  BY <1>2 DEF StopPending, StartQueued, Up, Waiting, Exempt
<1> QED BY <1>1, <1>2, <1>3 DEF SendInv, Promised, Served, Quiet, Sends, LastWord

\* A callback that is started, for the first time or again, has a reporter that can
\* send, but for the exceptions that StartedCanSend names (_ensure_started, shutdown).
THEOREM StartedReporterSends == Spec => []StartedCanSend
<1>1. Init => SendInv
  <2> SUFFICES ASSUME Init PROVE SendInv
    OBVIOUS
  <2>1. Starting = {} /\ alive \cap Own = {} /\ own = NoLoop /\ closer = "idle"
    BY LoopFacts DEF Init, Starting
  <2>2. LoopInv
    BY <2>1, InitLife DEF Init, LoopInv, Claim, Alone, OneLoop
  <2>3. ~Up
    BY DEF Init, Up, Waiting
  <2> QED BY <2>1, <2>2, <2>3 DEF Init, SendInv, Promised, Served, Quiet, Sends, LastWord
<1>2. SendInv /\ [Next]_vars => SendInv'
  BY HandlerSends, CoroutineSends, CloseSends, StutterSends DEF Next
<1>3. SendInv => StartedCanSend
  <2> SUFFICES ASSUME SendInv, started, Settled,
                      ~(raced \/ deserted \/ unheard \/ overtaken \/ crashed)
               PROVE  running /\ client /\ task \in flushers
    BY DEF StartedCanSend
  <2>1. ~StopPending(Loops) /\ ~StartQueued
    BY DEF Settled, StopPending, StartQueued, Contains
  <2> QED BY <2>1 DEF SendInv, Exempt, Served, Sends, Up, Settled
<1> QED BY <1>1, <1>2, <1>3, PTL DEF Spec
=============================================================================
