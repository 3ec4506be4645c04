-------------------------- MODULE PolicyPoolProofs --------------------------
(***************************************************************************)
(* Theorems about PolicyPool, for any number of runs, workers and pools.   *)
(***************************************************************************)
EXTENDS PolicyPool, FiniteSetTheorems, TLAPS

\* A run that was not submitted.
Pending == {"new", "acquired"}

\* Runs are scheduled against generations up to the current one, and against it
\* only while its pool is in service; a run with a caller has been submitted.
Scheduled ==
    \A r \in Runs :
        /\ caller[r] # "none" => stage[r] \notin Pending
        /\ stage[r] # "new" => origin[r] <= generation
        /\ ~live /\ stage[r] # "new" => origin[r] < generation

\* What is in a queue has been submitted.
QueuedKnown ==
    \A g \in Generations : \A i \in 1 .. Len(queue[g]) :
        queue[g][i] \in Runs => stage[queue[g][i]] \notin Pending

PoolInv == TypeOK /\ Scheduled /\ QueuedKnown /\ OrphansExact

-----------------------------------------------------------------------------
(* Types *)

LEMMA InitPoolTypes == Init => TypeOK
<1> SUFFICES ASSUME Init PROVE TypeOK
  OBVIOUS
<1>1. live \in BOOLEAN /\ ~live /\ closed \in [Generations -> BOOLEAN]
  BY Zenon DEF Init
<1>2. 0 \in Generations /\ 0 \in Nat /\ 0 \in 0 .. MaxWorkers
  BY PoolAssumption DEF Generations
<1>3. <<>> \in Seq(Runs \cup {Sentinel})
  OBVIOUS
<1>4. RegistryOK
  BY <1>1, <1>2 DEF Init, RegistryOK
<1>5. PoolsOK
  BY <1>1, <1>2, <1>3 DEF Init, PoolsOK
<1>6. RunsOK
  BY <1>2 DEF Init, RunsOK, Stages, Callers
<1> QED BY <1>4, <1>5, <1>6 DEF TypeOK

LEMMA EnsureWorkerTypes ==
    ASSUME PoolsOK, NEW g \in Generations, EnsureWorker(g)
    PROVE  /\ threads' \in [Generations -> 0 .. MaxWorkers]
           /\ permits' \in [Generations -> Nat] /\ waiting' \in [Generations -> Nat]
           /\ finishing' \in [Generations -> Nat]
<1>1. permits[g] \in Nat /\ threads[g] \in 0 .. MaxWorkers /\ waiting[g] \in Nat
  BY DEF PoolsOK
<1>2. permits[g] > 0 => permits[g] - 1 \in Nat
  BY <1>1
<1>3. threads[g] < MaxWorkers => threads[g] + 1 \in 0 .. MaxWorkers
  BY <1>1, PoolAssumption
<1>4. waiting[g] + 1 \in Nat
  BY <1>1
<1> QED BY <1>2, <1>3, <1>4 DEF PoolsOK, EnsureWorker

LEMMA AcquireTypes == ASSUME TypeOK, NEW r \in Runs, Acquire(r) PROVE TypeOK'
<1>1. live' \in BOOLEAN /\ generation < MaxGenerations
  BY Zenon DEF Acquire, TypeOK, RegistryOK
<1>2. RegistryOK'
  BY <1>1 DEF Acquire, TypeOK, RegistryOK
<1>3. PoolsOK'
  BY DEF Acquire, TypeOK, PoolsOK, workers
<1>4. RunsOK'
  BY DEF Acquire, TypeOK, RunsOK, RegistryOK, Stages
<1> QED BY <1>2, <1>3, <1>4 DEF TypeOK

LEMMA SubmitTypes == ASSUME TypeOK, NEW r \in Runs, Submit(r) PROVE TypeOK'
<1> DEFINE g == origin[r]
<1>1. g \in Generations
  BY DEF TypeOK, RunsOK
<1>2. RegistryOK'
  BY DEF Submit, TypeOK, RegistryOK, registry
<1>3. RunsOK'
  BY DEF Submit, TypeOK, RunsOK, Stages, Callers
<1>4. CASE queue' = [queue EXCEPT ![g] = Append(@, r)] /\ EnsureWorker(g)
  <2>1. queue' \in [Generations -> Seq(Runs \cup {Sentinel})]
    BY <1>1, <1>4 DEF TypeOK, PoolsOK
  <2>2. /\ threads' \in [Generations -> 0 .. MaxWorkers]
        /\ permits' \in [Generations -> Nat] /\ waiting' \in [Generations -> Nat]
        /\ finishing' \in [Generations -> Nat]
    BY <1>1, <1>4, EnsureWorkerTypes DEF TypeOK
  <2>3. PoolsOK'
    BY <2>1, <2>2 DEF Submit, TypeOK, PoolsOK
  <2> QED BY <1>2, <1>3, <2>3 DEF TypeOK
<1>5. CASE UNCHANGED <<queue, workers>>
  <2>1. PoolsOK'
    BY <1>5 DEF Submit, TypeOK, PoolsOK, workers
  <2> QED BY <1>2, <1>3, <2>1 DEF TypeOK
<1> QED BY <1>4, <1>5 DEF Submit

LEMMA TakeTypes == ASSUME TypeOK, NEW g \in Generations, Take(g) PROVE TypeOK'
<1> DEFINE item == Head(queue[g])
<1>1. item \in Runs \cup {Sentinel} /\ Tail(queue[g]) \in Seq(Runs \cup {Sentinel})
  BY DEF Take, TypeOK, PoolsOK
<1>2. /\ stage' = IF item = Sentinel THEN stage ELSE [stage EXCEPT ![item] = "running"]
      /\ queue' = [queue EXCEPT ![g] = Tail(@)]
  BY DEF Take
<1> HIDE DEF item
<1>3. RegistryOK'
  BY DEF Take, TypeOK, RegistryOK, registry
<1>4. RunsOK'
  BY <1>1, <1>2 DEF Take, TypeOK, RunsOK, Stages
<1>5. PoolsOK'
  <2>1. queue' \in [Generations -> Seq(Runs \cup {Sentinel})]
    BY <1>1, <1>2 DEF TypeOK, PoolsOK
  <2>2. waiting[g] - 1 \in Nat
    BY DEF Take, TypeOK, PoolsOK
  <2> QED BY <2>1, <2>2 DEF Take, TypeOK, PoolsOK
<1> QED BY <1>3, <1>4, <1>5 DEF TypeOK

LEMMA ReturnTypes == ASSUME TypeOK, NEW r \in Runs, Return(r) PROVE TypeOK'
<1>1. RegistryOK'
  BY DEF Return, TypeOK, RegistryOK, registry
<1>2. PoolsOK'
  <2>1. origin[r] \in Generations /\ finishing[origin[r]] + 1 \in Nat
    BY DEF TypeOK, PoolsOK, RunsOK
  <2> QED BY <2>1 DEF Return, TypeOK, PoolsOK
<1>3. RunsOK'
  BY DEF Return, TypeOK, RunsOK, Stages
<1> QED BY <1>1, <1>2, <1>3 DEF TypeOK

LEMMA ReleaseTypes == ASSUME TypeOK, NEW g \in Generations, Release(g) PROVE TypeOK'
<1>1. RegistryOK' /\ RunsOK'
  BY DEF Release, TypeOK, RegistryOK, RunsOK, registry
<1>2. finishing[g] - 1 \in Nat /\ permits[g] + 1 \in Nat /\ waiting[g] + 1 \in Nat
  BY DEF Release, TypeOK, PoolsOK
<1>3. PoolsOK'
  BY <1>2 DEF Release, TypeOK, PoolsOK
<1> QED BY <1>1, <1>3 DEF TypeOK

LEMMA CallerTypes ==
    ASSUME TypeOK, NEW r \in Runs, Answer(r) \/ TimeOut(r) \/ Abandon(r)
    PROVE  TypeOK'
<1>1. RegistryOK' /\ PoolsOK'
  BY DEF Answer, TimeOut, Abandon, TypeOK, RegistryOK, PoolsOK, registry, workers
<1>2. RunsOK'
  BY DEF Answer, TimeOut, Abandon, TypeOK, RunsOK, Callers
<1> QED BY <1>1, <1>2 DEF TypeOK

LEMMA RetireTypes == ASSUME TypeOK, live, Retire PROVE RegistryOK'
<1>1. live' \in BOOLEAN /\ ~live'
  BY Zenon DEF Retire
<1>2. generation' \in Generations
  BY PoolAssumption DEF Retire, TypeOK, RegistryOK, Generations
<1> QED BY <1>1, <1>2 DEF Retire, TypeOK, RegistryOK

LEMMA NoteOrphanTypes == ASSUME TypeOK, NEW r \in Runs, NoteOrphan(r) PROVE TypeOK'
<1>1. PoolsOK' /\ RunsOK'
  BY DEF NoteOrphan, TypeOK, PoolsOK, RunsOK, Callers, workers
<1>2. CASE live /\ Retire
  BY <1>1, <1>2, RetireTypes DEF TypeOK
<1>3. CASE orphans' = orphans + 1 /\ UNCHANGED <<live, generation, retiring>>
  BY <1>1, <1>3 DEF TypeOK, RegistryOK
<1>4. CASE UNCHANGED registry
  BY <1>1, <1>4 DEF TypeOK, RegistryOK, registry
<1> QED BY <1>2, <1>3, <1>4 DEF NoteOrphan

LEMMA SettleTypes == ASSUME TypeOK, NEW r \in Runs, Settle(r) PROVE TypeOK'
<1>1. orphans' \in Nat
  BY DEF Settle, TypeOK, RegistryOK
<1>2. RegistryOK'
  BY <1>1 DEF Settle, TypeOK, RegistryOK
<1>3. PoolsOK' /\ RunsOK'
  BY DEF Settle, TypeOK, PoolsOK, RunsOK, Callers, workers
<1> QED BY <1>2, <1>3 DEF TypeOK

LEMMA CloseTypes == ASSUME TypeOK, NEW g \in Generations, Close(g) PROVE TypeOK'
<1>1. WithSentinels(g) \in Seq(Runs \cup {Sentinel})
  <2>1. threads[g] \in Nat
    BY PoolAssumption DEF TypeOK, PoolsOK
  <2>2. [i \in 1 .. threads[g] |-> Sentinel] \in Seq(Runs \cup {Sentinel})
    BY <2>1
  <2> QED BY <2>2 DEF WithSentinels, TypeOK, PoolsOK
<1>2. queue' \in [Generations -> Seq(Runs \cup {Sentinel})]
  BY <1>1 DEF Close, TypeOK, PoolsOK
<1>3. closed' \in [Generations -> BOOLEAN]
  BY Zenon DEF Close, TypeOK, PoolsOK
<1>4. PoolsOK'
  BY <1>2, <1>3 DEF Close, TypeOK, PoolsOK, workers
<1>5. RegistryOK' /\ RunsOK'
  BY DEF Close, TypeOK, RegistryOK, RunsOK
<1> QED BY <1>4, <1>5 DEF TypeOK

LEMMA ShutdownTypes == ASSUME TypeOK, Shutdown PROVE TypeOK'
<1>1. PoolsOK' /\ RunsOK'
  BY DEF Shutdown, TypeOK, PoolsOK, RunsOK, workers
<1> QED BY <1>1, RetireTypes DEF Shutdown, TypeOK

LEMMA PoolStepTypes == TypeOK /\ [Next]_vars => TypeOK'
<1> SUFFICES ASSUME TypeOK, [Next]_vars PROVE TypeOK'
  OBVIOUS
<1>1. ASSUME NEW r \in Runs, Call(r) \/ Return(r) PROVE TypeOK'
  BY <1>1, AcquireTypes, SubmitTypes, CallerTypes, NoteOrphanTypes, SettleTypes, ReturnTypes
     DEF Call
<1>2. ASSUME NEW g \in Generations, Work(g) PROVE TypeOK'
  BY <1>2, TakeTypes, ReleaseTypes, CloseTypes DEF Work
<1>3. CASE UNCHANGED vars
  BY <1>3 DEF vars, TypeOK, RegistryOK, PoolsOK, RunsOK, registry, workers
<1> QED BY <1>1, <1>2, <1>3, ShutdownTypes DEF Next

-----------------------------------------------------------------------------
(* Generations *)

\* The worker that takes a run does not make it new, nor another one.
LEMMA TakeKeepsKnown ==
    ASSUME TypeOK, QueuedKnown, NEW g \in Generations, Take(g)
    PROVE  \A q \in Runs : /\ stage'[q] = "new" <=> stage[q] = "new"
                           /\ stage'[q] \in Pending => stage[q] \in Pending
<1> DEFINE item == Head(queue[g])
<1>1. queue[g] \in Seq(Runs \cup {Sentinel}) /\ queue[g] # <<>>
  BY DEF Take, TypeOK, PoolsOK
<1>2. 1 \in 1 .. Len(queue[g]) /\ item = queue[g][1] /\ item \in Runs \cup {Sentinel}
  BY <1>1
<1>3. item \in Runs => stage[item] \notin Pending
  BY <1>2 DEF QueuedKnown
<1>4. stage' = IF item = Sentinel THEN stage ELSE [stage EXCEPT ![item] = "running"]
  BY DEF Take
<1> HIDE DEF item
<1> QED BY <1>2, <1>3, <1>4 DEF TypeOK, RunsOK, Pending

\* What a step does to the runs: one is scheduled against the current generation
\* of a live pool, or none is.
LEMMA StepScheduled == ASSUME TypeOK, Scheduled, QueuedKnown, [Next]_vars PROVE Scheduled'
<1>1. /\ generation \in Nat
      /\ \A r \in Runs : origin[r] \in Nat
  BY PoolAssumption DEF TypeOK, RegistryOK, RunsOK, Generations
<1>2. ASSUME NEW r \in Runs, Acquire(r) PROVE Scheduled'
  <2>1. /\ live' /\ generation' = generation /\ caller' = caller
        /\ \A q \in Runs : q # r => stage'[q] = stage[q] /\ origin'[q] = origin[q]
        /\ stage[r] = "new" /\ stage'[r] = "acquired" /\ origin'[r] = generation
    BY <1>2 DEF Acquire, TypeOK, RunsOK
  <2> QED BY <1>1, <2>1 DEF Scheduled, Pending
<1>3. CASE /\ UNCHANGED <<live, generation, origin>>
           /\ \A q \in Runs : /\ stage'[q] = "new" <=> stage[q] = "new"
                              /\ caller'[q] # "none" => stage'[q] \notin Pending
  BY <1>3 DEF Scheduled
<1>4. CASE /\ UNCHANGED <<stage, origin>> /\ ~live' /\ generation' = generation + 1
           /\ \A q \in Runs : caller'[q] # "none" => caller[q] # "none"
  BY <1>1, <1>4 DEF Scheduled
<1>5. ASSUME NEW r \in Runs, Submit(r) PROVE Scheduled'
  <2>1. /\ stage[r] = "acquired" /\ UNCHANGED <<live, generation, origin>>
        /\ \A q \in Runs : q # r => stage'[q] = stage[q] /\ caller'[q] = caller[q]
        /\ stage'[r] \in {"queued", "refused"}
    BY <1>5 DEF Submit, registry, TypeOK, RunsOK
  <2> QED BY <1>3, <2>1 DEF Scheduled, Pending
<1>6. ASSUME NEW g \in Generations, Take(g) PROVE Scheduled'
  <2>1. /\ UNCHANGED <<live, generation, origin, caller>>
    BY <1>6 DEF Take, registry
  <2>2. ASSUME NEW q \in Runs
        PROVE  /\ stage'[q] = "new" <=> stage[q] = "new"
               /\ stage'[q] \in Pending => stage[q] \in Pending
    BY <1>6, TakeKeepsKnown
  <2>3. \A q \in Runs : caller'[q] # "none" => stage'[q] \notin Pending
    BY <2>1, <2>2 DEF Scheduled
  <2> QED BY <1>3, <2>1, <2>2, <2>3
<1>7. ASSUME NEW r \in Runs, Return(r) PROVE Scheduled'
  <2>1. /\ stage[r] = "running" /\ UNCHANGED <<live, generation, origin, caller>>
        /\ \A q \in Runs : /\ stage'[q] = "new" <=> stage[q] = "new"
                           /\ stage'[q] \in Pending => stage[q] \in Pending
    BY <1>7 DEF Return, registry, TypeOK, RunsOK, Pending
  <2> QED BY <1>3, <2>1 DEF Scheduled, Pending
<1>8. ASSUME NEW g \in Generations, Release(g) \/ Close(g) PROVE Scheduled'
  BY <1>3, <1>8 DEF Release, Close, registry, Scheduled
<1>9. ASSUME NEW r \in Runs, Answer(r) \/ TimeOut(r) \/ Abandon(r) \/ Settle(r)
      PROVE  Scheduled'
  <2>1. /\ caller[r] # "none" /\ UNCHANGED <<live, generation, origin, stage>>
        /\ \A q \in Runs : q # r => caller'[q] = caller[q]
    BY <1>9 DEF Answer, TimeOut, Abandon, Settle, registry, TypeOK, RunsOK
  <2> QED BY <1>3, <2>1 DEF Scheduled, Pending
<1>10. ASSUME NEW r \in Runs, NoteOrphan(r) PROVE Scheduled'
  <2>1. /\ caller[r] # "none" /\ UNCHANGED <<origin, stage>>
        /\ \A q \in Runs : q # r => caller'[q] = caller[q]
    BY <1>10 DEF NoteOrphan, TypeOK, RunsOK
  <2>2. CASE Retire
    BY <1>4, <2>1, <2>2 DEF Retire
  <2>3. CASE UNCHANGED <<live, generation>>
    BY <1>3, <2>1, <2>3 DEF Scheduled
  <2> QED BY <1>10, <2>2, <2>3 DEF NoteOrphan, registry
<1>11. CASE Shutdown
  BY <1>4, <1>11 DEF Shutdown, Retire
<1>12. CASE UNCHANGED vars
  BY <1>3, <1>12 DEF vars, registry, Scheduled
<1> QED BY <1>2, <1>5, <1>6, <1>7, <1>8, <1>9, <1>10, <1>11, <1>12 DEF Next, Call, Work

\* Only submit puts runs into a queue, and no run becomes new again.
LEMMA StepQueuedKnown == ASSUME TypeOK, QueuedKnown, [Next]_vars PROVE QueuedKnown'
<1> USE DEF Pending
<1>1. CASE /\ UNCHANGED queue
           /\ \A q \in Runs : stage'[q] \in Pending => stage[q] \in Pending
  BY <1>1 DEF QueuedKnown
<1>2. ASSUME NEW r \in Runs, Submit(r) PROVE QueuedKnown'
  <2> DEFINE g == origin[r]
  <2>1. g \in Generations /\ queue[g] \in Seq(Runs \cup {Sentinel})
    BY DEF TypeOK, RunsOK, PoolsOK
  <2>2. \A q \in Runs : stage'[q] \in Pending => stage[q] \in Pending /\ q # r
    BY <1>2 DEF Submit, TypeOK, RunsOK
  <2>3. CASE queue' = [queue EXCEPT ![g] = Append(@, r)]
    <3>1. ASSUME NEW h \in Generations, NEW i \in 1 .. Len(queue'[h]), queue'[h][i] \in Runs
          PROVE  stage'[queue'[h][i]] \notin Pending
      <4>1. CASE h # g
        BY <2>2, <2>3, <3>1, <4>1 DEF QueuedKnown, TypeOK, PoolsOK
      <4>2. CASE h = g
        <5>1. queue'[g] = Append(queue[g], r) /\ Len(queue'[g]) = Len(queue[g]) + 1
          BY <2>1, <2>3 DEF TypeOK, PoolsOK
        <5>2. \/ i \in 1 .. Len(queue[g]) /\ queue'[g][i] = queue[g][i]
              \/ queue'[g][i] = r
          BY <2>1, <3>1, <4>2, <5>1
        <5> QED BY <2>1, <2>2, <3>1, <4>2, <5>2 DEF QueuedKnown
      <4> QED BY <4>1, <4>2
    <3> QED BY <3>1 DEF QueuedKnown
  <2>4. CASE UNCHANGED queue
    BY <1>1, <2>2, <2>4
  <2> QED BY <1>2, <2>3, <2>4 DEF Submit
<1>3. ASSUME NEW g \in Generations, Take(g) PROVE QueuedKnown'
  <2>1. queue[g] \in Seq(Runs \cup {Sentinel}) /\ queue[g] # <<>>
    BY <1>3 DEF Take, TypeOK, PoolsOK
  <2>2. queue' = [queue EXCEPT ![g] = Tail(@)]
    BY <1>3 DEF Take
  <2>3. \A q \in Runs : stage'[q] \in Pending => stage[q] \in Pending
    BY <1>3, TakeKeepsKnown
  <2>4. ASSUME NEW h \in Generations, NEW i \in 1 .. Len(queue'[h]), queue'[h][i] \in Runs
        PROVE  stage'[queue'[h][i]] \notin Pending
    <3>1. CASE h # g
      BY <2>2, <2>3, <2>4, <3>1 DEF QueuedKnown, TypeOK, PoolsOK
    <3>2. CASE h = g
      <4>1. queue'[g] = Tail(queue[g])
        BY <2>2 DEF TypeOK, PoolsOK
      <4>2. i + 1 \in 1 .. Len(queue[g]) /\ queue'[g][i] = queue[g][i + 1]
        BY <2>1, <2>4, <3>2, <4>1
      <4> QED BY <2>3, <2>4, <3>2, <4>2 DEF QueuedKnown
    <3> QED BY <3>1, <3>2
  <2> QED BY <2>4 DEF QueuedKnown
<1>4. ASSUME NEW g \in Generations, Close(g) PROVE QueuedKnown'
  <2> DEFINE t == [i \in 1 .. threads[g] |-> Sentinel]
  <2>1. queue[g] \in Seq(Runs \cup {Sentinel}) /\ threads[g] \in Nat
    BY PoolAssumption DEF TypeOK, PoolsOK
  <2>2. t \in Seq({Sentinel}) /\ Len(t) = threads[g] /\ \A i \in 1 .. Len(t) : t[i] = Sentinel
    BY <2>1
  <2>3. queue' = [queue EXCEPT ![g] = queue[g] \o t] /\ stage' = stage
    BY <1>4 DEF Close, WithSentinels
  <2> HIDE DEF t
  <2>4. ASSUME NEW h \in Generations, NEW i \in 1 .. Len(queue'[h]), queue'[h][i] \in Runs
        PROVE  stage'[queue'[h][i]] \notin Pending
    <3>1. CASE h # g
      BY <2>3, <2>4, <3>1 DEF QueuedKnown, TypeOK, PoolsOK
    <3>2. CASE h = g
      <4>1. queue'[g] = queue[g] \o t
        BY <2>3 DEF TypeOK, PoolsOK
      <4>2. \/ i \in 1 .. Len(queue[g]) /\ queue'[g][i] = queue[g][i]
            \/ queue'[g][i] = Sentinel
        BY <2>1, <2>2, <2>4, <3>2, <4>1
      <4> QED BY <2>3, <2>4, <3>2, <4>2, PoolAssumption DEF QueuedKnown
    <3> QED BY <3>1, <3>2
  <2> QED BY <2>4 DEF QueuedKnown
<1>5. ASSUME NEW r \in Runs, Call(r) \/ Return(r), ~Submit(r) PROVE QueuedKnown'
  BY <1>1, <1>5 DEF Call, Acquire, Answer, TimeOut, Abandon, NoteOrphan, Settle, Return,
                    TypeOK, RunsOK
<1>6. ASSUME NEW g \in Generations, Release(g) PROVE QueuedKnown'
  BY <1>1, <1>6 DEF Release
<1>7. CASE Shutdown \/ UNCHANGED vars
  BY <1>1, <1>7 DEF Shutdown, vars
<1> QED BY <1>2, <1>3, <1>4, <1>5, <1>6, <1>7 DEF Next, Work

-----------------------------------------------------------------------------
(* The orphan counter *)

LEMMA NotedFinite ==
    ASSUME NEW g
    PROVE  IsFiniteSet(Noted(g)) /\ Cardinality(Noted(g)) \in Nat
<1>1. Noted(g) \subseteq Runs
  BY DEF Noted
<1> QED BY <1>1, PoolAssumption, FS_Subset, FS_CardinalityType

\* Nobody is noted in the generation that follows the current one, and, while no
\* pool is in service, nobody in the current one.
LEMMA NoneNoted ==
    ASSUME TypeOK, Scheduled
    PROVE  /\ Noted(generation + 1) = {}
           /\ ~live => Noted(generation) = {}
BY PoolAssumption DEF TypeOK, RegistryOK, RunsOK, Generations, Scheduled, Pending, Noted

LEMMA StepOrphans == ASSUME PoolInv, [Next]_vars PROVE OrphansExact'
<1> USE DEF PoolInv
<1>1. /\ generation \in Nat /\ orphans \in Nat /\ orphans = Cardinality(Noted(generation))
      /\ live => orphans < MaxWorkers
      /\ MaxWorkers \in Nat \ {0}
  BY PoolAssumption DEF TypeOK, RegistryOK, Generations, OrphansExact
<1>2. CASE /\ UNCHANGED <<live, generation, orphans>>
           /\ \A q \in Runs : caller'[q] = "noted" <=> caller[q] = "noted"
           /\ \A q \in Runs : caller[q] = "noted" => origin'[q] = origin[q]
  <2>1. Noted(generation)' = Noted(generation)
    BY <1>2 DEF Noted
  <2> QED BY <1>2, <2>1 DEF OrphansExact
<1>3. ASSUME NEW r \in Runs, Acquire(r) PROVE OrphansExact'
  <2>1. /\ caller[r] # "noted" /\ caller' = caller /\ generation' = generation /\ live'
        /\ orphans' = IF live THEN orphans ELSE 0
        /\ \A q \in Runs : q # r => origin'[q] = origin[q]
    BY <1>3 DEF Acquire, Scheduled, Pending, TypeOK, RunsOK
  <2>2. Noted(generation)' = Noted(generation)
    BY <2>1 DEF Noted
  <2>3. CASE live
    BY <1>1, <2>1, <2>2, <2>3 DEF OrphansExact
  <2>4. CASE ~live
    <3>1. Cardinality(Noted(generation)) = 0
      BY <2>4, NoneNoted, FS_EmptySet
    <3> QED BY <1>1, <2>1, <2>2, <2>4, <3>1 DEF OrphansExact
  <2> QED BY <2>3, <2>4
<1>4. ASSUME Retire, (\E r \in Runs : NoteOrphan(r)) \/ Shutdown PROVE OrphansExact'
  <2>1. ~live' /\ generation' = generation + 1 /\ orphans' = 0
    BY <1>4 DEF Retire
  <2>2. Noted(generation)' = {}
    <3>1. ASSUME NEW q \in Runs PROVE origin'[q] # generation + 1 \/ caller'[q] # "noted"
      <4>1. origin' = origin /\ (caller'[q] = "noted" => caller[q] # "none")
        BY <1>4 DEF NoteOrphan, Shutdown, TypeOK, RunsOK
      <4>2. caller[q] # "none" => origin[q] <= generation
        BY DEF Scheduled, Pending
      <4>3. origin[q] \in Nat
        BY PoolAssumption DEF TypeOK, RunsOK, Generations
      <4> QED BY <1>1, <4>1, <4>2, <4>3
    <3> QED BY <2>1, <3>1 DEF Noted
  <2> QED BY <1>1, <2>1, <2>2, FS_EmptySet DEF OrphansExact
<1>5. ASSUME NEW r \in Runs, NoteOrphan(r) PROVE OrphansExact'
  <2>1. /\ caller[r] = "late" /\ caller'[r] = "noted" /\ origin' = origin
        /\ \A q \in Runs : q # r => caller'[q] = caller[q]
    BY <1>5 DEF NoteOrphan, TypeOK, RunsOK
  <2>2. CASE Retire
    BY <1>4, <1>5, <2>2
  <2>3. CASE Counts(r) /\ ~(live /\ AllLost) /\ orphans' = orphans + 1
             /\ UNCHANGED <<live, generation, retiring>>
    <3>1. Noted(generation)' = Noted(generation) \cup {r} /\ r \notin Noted(generation)
      BY <2>1, <2>3 DEF Noted, Counts
    <3>2. Cardinality(Noted(generation)') = orphans + 1
      BY <1>1, <3>1, NotedFinite, FS_AddElement
    <3> QED BY <1>1, <2>3, <3>2 DEF OrphansExact, AllLost
  <2>4. CASE ~Counts(r) /\ UNCHANGED registry
    <3>1. Noted(generation)' = Noted(generation)
      BY <2>1, <2>4 DEF Noted, Counts, registry
    <3> QED BY <2>4, <3>1 DEF OrphansExact, registry
  <2> QED BY <1>5, <2>2, <2>3, <2>4 DEF NoteOrphan
<1>6. ASSUME NEW r \in Runs, Settle(r) PROVE OrphansExact'
  <2>1. /\ caller[r] = "noted" /\ caller'[r] = "over" /\ origin' = origin
        /\ \A q \in Runs : q # r => caller'[q] = caller[q]
        /\ generation' = generation /\ live' = live
        /\ orphans' = IF origin[r] = generation /\ orphans > 0 THEN orphans - 1 ELSE orphans
    BY <1>6 DEF Settle, TypeOK, RunsOK
  <2>2. CASE origin[r] = generation
    <3>1. Noted(generation)' = Noted(generation) \ {r} /\ r \in Noted(generation)
      BY <2>1, <2>2 DEF Noted
    <3>2. Cardinality(Noted(generation)') = orphans - 1
      BY <1>1, <3>1, NotedFinite, FS_RemoveElement
    <3>3. orphans > 0
      <4>1. Noted(generation) # {}
        BY <3>1
      <4> QED BY <1>1, <4>1, NotedFinite, FS_EmptySet
    <3> QED BY <1>1, <2>1, <2>2, <3>2, <3>3 DEF OrphansExact
  <2>3. CASE origin[r] # generation
    <3>1. Noted(generation)' = Noted(generation)
      BY <2>1, <2>3 DEF Noted
    <3> QED BY <1>1, <2>1, <2>3, <3>1 DEF OrphansExact
  <2> QED BY <2>2, <2>3
<1>7. ASSUME NEW r \in Runs, Submit(r) PROVE OrphansExact'
  <2>1. caller[r] = "none" /\ caller'[r] \in {"waiting", "over"}
    BY <1>7 DEF Submit, Scheduled, Pending, TypeOK, RunsOK
  <2>2. /\ UNCHANGED <<live, generation, orphans, origin>>
        /\ \A q \in Runs : q # r => caller'[q] = caller[q]
    BY <1>7 DEF Submit, registry, TypeOK, RunsOK
  <2> QED BY <1>2, <2>1, <2>2
<1>8. ASSUME NEW r \in Runs, Answer(r) \/ TimeOut(r) \/ Abandon(r) PROVE OrphansExact'
  <2>1. /\ UNCHANGED <<live, generation, orphans, origin>>
        /\ \A q \in Runs : caller'[q] = "noted" <=> caller[q] = "noted"
    BY <1>8 DEF Answer, TimeOut, Abandon, registry, TypeOK, RunsOK
  <2> QED BY <1>2, <2>1
<1>9. ASSUME NEW r \in Runs, Return(r) PROVE OrphansExact'
  BY <1>2, <1>9 DEF Return, registry
<1>10. ASSUME NEW g \in Generations, Work(g) PROVE OrphansExact'
  BY <1>2, <1>10 DEF Work, Take, Release, Close, registry
<1>11. CASE Shutdown
  BY <1>4, <1>11 DEF Shutdown
<1>12. CASE UNCHANGED vars
  BY <1>2, <1>12 DEF vars, registry
<1> QED BY <1>3, <1>5, <1>6, <1>7, <1>8, <1>9, <1>10, <1>11, <1>12 DEF Next, Call

LEMMA InitPoolInv == Init => PoolInv
<1> SUFFICES ASSUME Init PROVE PoolInv
  OBVIOUS
<1>1. Scheduled /\ QueuedKnown
  BY DEF Init, Scheduled, QueuedKnown
<1>2. Noted(generation) = {}
  BY DEF Init, Noted
<1>3. OrphansExact
  BY <1>2, FS_EmptySet DEF Init, OrphansExact
<1> QED BY <1>1, <1>3, InitPoolTypes DEF PoolInv

LEMMA StepPoolInv == PoolInv /\ [Next]_vars => PoolInv'
<1> SUFFICES ASSUME PoolInv, [Next]_vars PROVE PoolInv'
  OBVIOUS
<1> QED BY PoolStepTypes, StepScheduled, StepQueuedKnown, StepOrphans DEF PoolInv

LEMMA PoolInvHolds == Spec => []PoolInv
BY InitPoolInv, StepPoolInv, PTL DEF Spec

\* The types and limits of every pool hold for any number of runs, workers and pools.
THEOREM PoolTypeCorrect == Spec => []TypeOK
<1>1. PoolInv => TypeOK
  BY DEF PoolInv
<1> QED BY <1>1, PoolInvHolds, PTL

\* The orphan counter equals the runs of the current pool that were noted and have
\* not completed, and a pool in service is never full of them, whatever the order
\* in which timeouts, completions, retirements and submissions interleave.
THEOREM OrphanCountExact == Spec => []OrphansExact
<1>1. PoolInv => OrphansExact
  BY DEF PoolInv
<1> QED BY <1>1, PoolInvHolds, PTL

\* Only a note_orphan that finds all the workers of its own pool lost retires it.
LEMMA RetireNeedsAll ==
    ASSUME PoolInv, [Next]_vars, NEW r \in Runs,
           caller[r] = "late", caller'[r] = "noted", generation' # generation
    PROVE  Cardinality(Noted(generation) \cup {r}) = MaxWorkers
<1>1. NoteOrphan(r)
  <2>1. ASSUME NEW q \in Runs, Call(q) \/ Return(q) PROVE NoteOrphan(r)
    <3>1. CASE q = r
      BY <2>1, <3>1 DEF Call, Acquire, Submit, Answer, TimeOut, Abandon, Settle, Return,
                        PoolInv, TypeOK, RunsOK
    <3>2. CASE q # r
      BY <2>1, <3>2 DEF Call, Acquire, Submit, Answer, TimeOut, Abandon, NoteOrphan, Settle,
                        Return, PoolInv, TypeOK, RunsOK
    <3> QED BY <3>1, <3>2
  <2>2. ~Shutdown /\ \A g \in Generations : ~Work(g)
    BY DEF Shutdown, Work, Take, Release, Close
  <2>3. ~(UNCHANGED vars)
    BY DEF vars
  <2> QED BY <2>1, <2>2, <2>3 DEF Next
<1>2. origin[r] = generation /\ live /\ orphans + 1 >= MaxWorkers
  <2>1. CASE Counts(r) /\ live /\ AllLost
    BY <2>1 DEF Counts, AllLost
  <2>2. CASE UNCHANGED generation
    BY <2>2
  <2> QED BY <1>1, <2>1, <2>2 DEF NoteOrphan, registry
<1>3. /\ orphans \in Nat /\ MaxWorkers \in Nat /\ orphans < MaxWorkers
      /\ orphans = Cardinality(Noted(generation))
  BY <1>2, PoolAssumption DEF PoolInv, TypeOK, RegistryOK, OrphansExact
<1>4. r \notin Noted(generation)
  BY DEF Noted
<1>5. Cardinality(Noted(generation) \cup {r}) = orphans + 1
  BY <1>3, <1>4, NotedFinite, FS_AddElement
<1> QED BY <1>2, <1>3, <1>5

\* A pool is retired for timeouts by its own lost runs only: late runs of a pool
\* that was retired before never add up to the retirement of the fresh one.
THEOREM RetiresItsOwn == Spec => RetiredByItsOwn
<1> DEFINE A == \A r \in Runs :
                 (caller[r] = "late" /\ caller'[r] = "noted" /\ generation' # generation)
                     => Cardinality(Noted(generation) \cup {r}) = MaxWorkers
<1>1. PoolInv /\ [Next]_vars => [A]_vars
  BY RetireNeedsAll
<1> QED BY <1>1, PoolInvHolds, PTL DEF Spec, RetiredByItsOwn

-----------------------------------------------------------------------------
(* The queue of a pool and its workers *)

\* The queued runs are in the queue once each, and only sentinels are behind them.
Lined(g) ==
    /\ Backlog(g) <= Len(queue[g])
    /\ {queue[g][i] : i \in 1 .. Backlog(g)} = At(g, "queued")
    /\ \A i, j \in 1 .. Backlog(g) : queue[g][i] = queue[g][j] => i = j
    /\ \A i \in Backlog(g) + 1 .. Len(queue[g]) : queue[g][i] = Sentinel

\* The workers of an open pool are all there; a closed one has a sentinel for each.
Staffed(g) ==
    /\ closed[g] => Len(queue[g]) = Backlog(g) + Alive(g)
    /\ ~closed[g] => Len(queue[g]) = Backlog(g) /\ threads[g] = Alive(g)
    /\ Backlog(g) > 0 => Alive(g) > 0

\* Below capacity a permit or a queued run stands for a worker in queue.get.
Served(g) ==
    threads[g] < MaxWorkers => /\ Backlog(g) <= waiting[g]
                               /\ ~closed[g] => Backlog(g) + permits[g] <= waiting[g]

Flowing(g) == Lined(g) /\ Staffed(g) /\ Served(g)

\* A pool is closed once, and after it was replaced.
Replaced ==
    \A g \in Generations : /\ g \in retiring => ~closed[g]
                           /\ closed[g] \/ g \in retiring => g < generation

FlowInv == Replaced /\ \A g \in Generations : Flowing(g)

\* A step that leaves the pool of generation g alone.
Untouched(g) ==
    /\ queue'[g] = queue[g] /\ closed'[g] = closed[g] /\ threads'[g] = threads[g]
    /\ permits'[g] = permits[g] /\ waiting'[g] = waiting[g] /\ finishing'[g] = finishing[g]
    /\ At(g, "queued")' = At(g, "queued") /\ At(g, "running")' = At(g, "running")

LEMMA StillFlowing ==
    ASSUME NEW g \in Generations, Flowing(g), Untouched(g)
    PROVE  Flowing(g)'
<1>1. Backlog(g)' = Backlog(g) /\ Alive(g)' = Alive(g)
  BY DEF Untouched, Backlog, Alive
<1>2. Lined(g)'
  BY <1>1 DEF Flowing, Lined, Untouched
<1>3. Staffed(g)'
  BY <1>1 DEF Flowing, Staffed, Untouched
<1>4. Served(g)'
  BY <1>1 DEF Flowing, Served, Untouched
<1> QED BY <1>2, <1>3, <1>4 DEF Flowing

\* What the counts are about.
LEMMA PoolNumbers ==
    ASSUME TypeOK, NEW g \in Generations
    PROVE  /\ queue[g] \in Seq(Runs \cup {Sentinel}) /\ Len(queue[g]) \in Nat
           /\ threads[g] \in 0 .. MaxWorkers /\ permits[g] \in Nat
           /\ waiting[g] \in Nat /\ finishing[g] \in Nat
           /\ MaxWorkers \in Nat \ {0} /\ Sentinel \notin Runs
           /\ \A s \in Stages : /\ IsFiniteSet(At(g, s)) /\ Cardinality(At(g, s)) \in Nat
                                /\ At(g, s) \subseteq Runs
           /\ Backlog(g) \in Nat /\ Alive(g) \in Nat
           /\ Backlog(g) = 0 <=> At(g, "queued") = {}
<1>1. /\ queue[g] \in Seq(Runs \cup {Sentinel}) /\ Len(queue[g]) \in Nat
      /\ threads[g] \in 0 .. MaxWorkers /\ permits[g] \in Nat
      /\ waiting[g] \in Nat /\ finishing[g] \in Nat
      /\ MaxWorkers \in Nat \ {0} /\ Sentinel \notin Runs
  BY PoolAssumption DEF TypeOK, PoolsOK
<1>2. ASSUME NEW s PROVE /\ IsFiniteSet(At(g, s)) /\ Cardinality(At(g, s)) \in Nat
                         /\ At(g, s) \subseteq Runs
  <2>1. At(g, s) \subseteq Runs
    BY DEF At
  <2> QED BY <2>1, PoolAssumption, FS_Subset, FS_CardinalityType
<1>3. Backlog(g) \in Nat /\ Cardinality(At(g, "running")) \in Nat
  BY <1>2 DEF Backlog
<1>4. Alive(g) \in Nat
  BY <1>1, <1>3 DEF Alive
<1>5. Backlog(g) = 0 <=> At(g, "queued") = {}
  BY <1>2, FS_EmptySet DEF Backlog
<1> QED BY <1>1, <1>2, <1>3, <1>4, <1>5

\* A run that changes its stage, and nothing else, moves between two sets.
LEMMA OneMoves ==
    ASSUME TypeOK, NEW r \in Runs, NEW s \in Stages, stage[r] # s, origin' = origin,
           stage' = [stage EXCEPT ![r] = s]
    PROVE  /\ \A g \in Generations, x \in Stages :
                 /\ g # origin[r] \/ x \notin {s, stage[r]} => At(g, x)' = At(g, x)
                 /\ g = origin[r] /\ x = s => At(g, x)' = At(g, x) \cup {r} /\ r \notin At(g, x)
                 /\ g = origin[r] /\ x = stage[r] => At(g, x)' = At(g, x) \ {r} /\ r \in At(g, x)
BY DEF At, TypeOK, RunsOK

LEMMA OneIn ==
    ASSUME NEW S, NEW T, NEW r, IsFiniteSet(S), r \notin S, T = S \cup {r}
    PROVE  Cardinality(T) = Cardinality(S) + 1
BY FS_AddElement

LEMMA OneOut ==
    ASSUME NEW S, NEW T, NEW r, IsFiniteSet(S), r \in S, T = S \ {r}
    PROVE  Cardinality(T) = Cardinality(S) - 1 /\ Cardinality(T) \in Nat
BY FS_RemoveElement, FS_CardinalityType

\* Acquire schedules a run that is in no queue yet.
LEMMA AcquireFlows ==
    ASSUME TypeOK, NEW r \in Runs, Acquire(r), NEW g \in Generations
    PROVE  Untouched(g)
<1>1. At(g, "queued")' = At(g, "queued") /\ At(g, "running")' = At(g, "running")
  BY DEF Acquire, At, TypeOK, RunsOK
<1> QED BY <1>1 DEF Acquire, Untouched, workers

LEMMA SubmitFlows ==
    ASSUME TypeOK, NEW r \in Runs, Submit(r), NEW g \in Generations, Flowing(g)
    PROVE  Flowing(g)'
<1>0. origin[r] \in Generations /\ stage[r] = "acquired"
  BY DEF Submit, TypeOK, RunsOK
<1>1. CASE ~Accepts(origin[r])
  <2>1. At(g, "queued")' = At(g, "queued") /\ At(g, "running")' = At(g, "running")
    BY <1>0, <1>1, OneMoves DEF Submit, Stages
  <2> QED BY <1>1, <2>1, StillFlowing DEF Submit, Untouched, workers
<1>2. CASE Accepts(origin[r]) /\ g # origin[r]
  <2>1. At(g, "queued")' = At(g, "queued") /\ At(g, "running")' = At(g, "running")
    BY <1>0, <1>2, OneMoves DEF Submit, Stages
  <2>2. queue'[g] = queue[g] /\ closed'[g] = closed[g]
    BY <1>2 DEF Submit, TypeOK, PoolsOK
  <2>3. /\ threads'[g] = threads[g] /\ permits'[g] = permits[g]
        /\ waiting'[g] = waiting[g] /\ finishing'[g] = finishing[g]
    BY <1>2 DEF Submit, EnsureWorker, TypeOK, PoolsOK
  <2> QED BY <2>1, <2>2, <2>3, StillFlowing DEF Untouched
<1>3. CASE Accepts(origin[r]) /\ g = origin[r]
  <2>0. /\ Len(queue[g]) \in Nat /\ Backlog(g) \in Nat /\ Alive(g) \in Nat
        /\ threads[g] \in Nat /\ threads[g] <= MaxWorkers /\ MaxWorkers \in Nat /\ MaxWorkers > 0
        /\ permits[g] \in Nat /\ waiting[g] \in Nat
    BY PoolNumbers
  <2>1. /\ At(g, "queued")' = At(g, "queued") \cup {r} /\ r \notin At(g, "queued")
        /\ At(g, "running")' = At(g, "running")
    BY <1>0, <1>3, OneMoves DEF Submit, Stages
  <2>2. /\ queue' = [queue EXCEPT ![g] = Append(@, r)] /\ EnsureWorker(g) /\ closed' = closed
        /\ ~closed[g]
    BY <1>3 DEF Submit, Accepts
  <2>3. Backlog(g)' = Backlog(g) + 1
    BY <2>1, PoolNumbers, OneIn DEF Backlog, Stages
  <2>4. Len(queue[g]) = Backlog(g) /\ threads[g] = Alive(g)
    BY <2>2 DEF Flowing, Staffed
  <2>5. /\ Len(queue'[g]) = Len(queue[g]) + 1
        /\ \A i \in 1 .. Len(queue[g]) : queue'[g][i] = queue[g][i]
        /\ queue'[g][Len(queue[g]) + 1] = r
    <3>1. queue'[g] = Append(queue[g], r)
      BY <2>2 DEF TypeOK, PoolsOK
    <3> QED BY <3>1, PoolNumbers
  <2>6. Lined(g)'
    <3> DEFINE n == Backlog(g)
               q == queue[g]
               z == queue'[g]
    <3>1. /\ n \in Nat /\ Backlog(g)' = n + 1 /\ Len(z) = n + 1
          /\ \A i \in 1 .. n : z[i] = q[i]
          /\ z[n + 1] = r
      BY <2>3, <2>4, <2>5, PoolNumbers
    <3>2. /\ {q[i] : i \in 1 .. n} = At(g, "queued")
          /\ \A i, j \in 1 .. n : q[i] = q[j] => i = j
      BY DEF Flowing, Lined
    <3> HIDE DEF n, q, z
    <3>3. {z[i] : i \in 1 .. n + 1} = {q[i] : i \in 1 .. n} \cup {r}
      BY <3>1
    <3>4. \A i, j \in 1 .. n + 1 : z[i] = z[j] => i = j
      <4>1. \A i \in 1 .. n : q[i] # r
        BY <2>1, <3>2
      <4> QED BY <3>1, <3>2, <4>1
    <3>5. n + 1 <= n + 1 /\ (n + 1) + 1 .. n + 1 = {}
      BY <3>1
    <3>6. queue'[g] = z
      BY DEF z
    <3> QED BY <2>1, <3>1, <3>2, <3>3, <3>4, <3>5, <3>6 DEF Lined
  <2>7. CASE /\ permits[g] > 0 /\ permits' = [permits EXCEPT ![g] = @ - 1]
             /\ UNCHANGED <<threads, waiting, finishing>>
    <3>1. /\ permits'[g] = permits[g] - 1 /\ threads'[g] = threads[g]
          /\ waiting'[g] = waiting[g] /\ Alive(g)' = Alive(g) /\ ~closed'[g]
      BY <2>1, <2>2, <2>7 DEF Alive, TypeOK, PoolsOK
    <3>2. Alive(g) > 0
      <4>1. CASE threads[g] < MaxWorkers
        <5>1. Backlog(g) + permits[g] <= waiting[g]
          BY <2>2, <4>1 DEF Flowing, Served
        <5>2. waiting[g] <= Alive(g)
          <6>1. waiting[g] \in Nat /\ finishing[g] \in Nat
                /\ Cardinality(At(g, "running")) \in Nat
            BY PoolNumbers DEF Stages
          <6> QED BY <6>1 DEF Alive
        <5> QED BY <2>7, <5>1, <5>2, <2>0
      <4>2. CASE ~(threads[g] < MaxWorkers)
        BY <2>4, <4>2, <2>0
      <4> QED BY <4>1, <4>2
    <3>3. Staffed(g)'
      BY <2>3, <2>4, <2>5, <3>1, <3>2, <2>0 DEF Staffed
    <3>4. Served(g)'
      BY <2>2, <2>3, <2>7, <3>1, <2>0 DEF Served, Flowing
    <3> QED BY <2>6, <3>3, <3>4 DEF Flowing
  <2>8. CASE /\ permits[g] = 0 /\ threads[g] < MaxWorkers
             /\ threads' = [threads EXCEPT ![g] = @ + 1]
             /\ waiting' = [waiting EXCEPT ![g] = @ + 1]
             /\ UNCHANGED <<permits, finishing>>
    <3>1. /\ permits'[g] = permits[g] /\ threads'[g] = threads[g] + 1
          /\ waiting'[g] = waiting[g] + 1 /\ finishing'[g] = finishing[g] /\ ~closed'[g]
      BY <2>2, <2>8 DEF TypeOK, PoolsOK
    <3>2. Alive(g)' = Alive(g) + 1
      <4>1. waiting[g] \in Nat /\ finishing[g] \in Nat /\ Cardinality(At(g, "running")) \in Nat
        BY PoolNumbers DEF Stages
      <4>2. Alive(g)' = (waiting[g] + 1) + finishing[g] + Cardinality(At(g, "running"))
        BY <2>1, <3>1 DEF Alive
      <4> QED BY <4>1, <4>2 DEF Alive
    <3>3. Staffed(g)'
      BY <2>3, <2>4, <2>5, <3>1, <3>2, <2>0 DEF Staffed
    <3>4. Served(g)'
      BY <2>2, <2>3, <2>8, <3>1, <2>0 DEF Served, Flowing
    <3> QED BY <2>6, <3>3, <3>4 DEF Flowing
  <2>9. CASE /\ permits[g] = 0 /\ threads[g] = MaxWorkers
             /\ UNCHANGED <<permits, threads, waiting, finishing>>
    <3>1. Alive(g)' = Alive(g) /\ threads'[g] = threads[g] /\ ~closed'[g]
      BY <2>1, <2>2, <2>9 DEF Alive
    <3>2. Staffed(g)'
      <4>1. Alive(g) > 0
        BY <2>4, <2>9, <2>0
      <4> QED BY <2>3, <2>4, <2>5, <3>1, <4>1, <2>0 DEF Staffed
    <3>3. Served(g)'
      BY <2>9, <3>1, <2>0 DEF Served
    <3> QED BY <2>6, <3>2, <3>3 DEF Flowing
  <2> QED BY <2>2, <2>7, <2>8, <2>9 DEF EnsureWorker
<1> QED BY <1>1, <1>2, <1>3

\* The head of the queue is a queued run as long as there is one.
LEMMA TakeFlows ==
    ASSUME TypeOK, NEW h \in Generations, Take(h), Flowing(h),
           NEW g \in Generations, Flowing(g)
    PROVE  Flowing(g)'
<1> DEFINE q == queue[h]
           z == queue'[h]
           n == Backlog(h)
           item == Head(q)
<1>1. /\ q \in Seq(Runs \cup {Sentinel}) /\ q # <<>> /\ n \in Nat /\ Len(q) \in Nat
  BY PoolNumbers DEF Take
<1>2. /\ Len(q) >= 1 /\ item = q[1] /\ Len(z) = Len(q) - 1
      /\ \A i \in 1 .. Len(q) - 1 : z[i] = q[i + 1]
  <2>1. z = Tail(q)
    BY DEF Take, TypeOK, PoolsOK
  <2> HIDE DEF q, z
  <2> QED BY <1>1, <2>1
<1>3. /\ n <= Len(q) /\ {q[i] : i \in 1 .. n} = At(h, "queued")
      /\ \A i, j \in 1 .. n : q[i] = q[j] => i = j
      /\ \A i \in n + 1 .. Len(q) : q[i] = Sentinel
  BY DEF Flowing, Lined
<1>4. /\ stage' = IF item = Sentinel THEN stage ELSE [stage EXCEPT ![item] = "running"]
      /\ origin' = origin /\ UNCHANGED <<closed, threads, permits, finishing>>
      /\ \A x \in Generations : x # h => queue'[x] = queue[x] /\ waiting'[x] = waiting[x]
      /\ waiting'[h] = waiting[h] - 1 /\ waiting[h] > 0
  BY DEF Take, TypeOK, PoolsOK
<1>5. /\ waiting[h] \in Nat /\ finishing[h] \in Nat /\ permits[h] \in Nat
      /\ Cardinality(At(h, "running")) \in Nat /\ Sentinel \notin Runs
      /\ At(h, "queued") \subseteq Runs
      /\ n = 0 <=> At(h, "queued") = {}
  BY PoolNumbers DEF Stages
<1>6. CASE n = 0
  <2>1. item = Sentinel
    <3> HIDE DEF n, q, item, z
    <3> QED BY <1>1, <1>2, <1>3, <1>6
  <2>2. \A x \in Generations : /\ At(x, "queued")' = At(x, "queued")
                               /\ At(x, "running")' = At(x, "running")
    BY <1>4, <2>1 DEF At
  <2>3. CASE g # h
    BY <1>4, <2>2, <2>3, StillFlowing DEF Untouched
  <2>4. CASE g = h
    <3>1. Backlog(h)' = 0 /\ Alive(h)' = Alive(h) - 1 /\ Alive(h) \in Nat
      <4>1. Backlog(h)' = 0
        BY <1>6, <2>2 DEF Backlog
      <4>2. Alive(h)' = waiting'[h] + finishing[h] + Cardinality(At(h, "running"))
        BY <1>4, <2>2 DEF Alive
      <4> QED BY <1>4, <1>5, <4>1, <4>2 DEF Alive
    <3>2. Lined(h)'
      <4>1. \A i \in 1 .. Len(z) : z[i] = Sentinel
        <5> HIDE DEF n, q, z
        <5> QED BY <1>1, <1>2, <1>3, <1>6
      <4>2. Len(z) \in Nat /\ At(h, "queued")' = {}
        <5>1. At(h, "queued")' = {}
          BY <1>5, <1>6, <2>2
        <5> HIDE DEF n, q, z
        <5> QED BY <1>1, <1>2, <5>1
      <4>3. 1 .. 0 = {} /\ 0 + 1 = 1
        OBVIOUS
      <4> HIDE DEF n, q
      <4> QED BY <3>1, <4>1, <4>2, <4>3 DEF Lined
    <3>3. closed[h]
      <4>1. ~closed[h] => Len(q) = n
        BY DEF Flowing, Staffed
      <4> HIDE DEF n, q
      <4> QED BY <1>2, <1>6, <4>1
    <3>4. Staffed(h)'
      <4>1. Len(q) = Alive(h)
        <5>1. Len(q) = n + Alive(h)
          BY <3>3 DEF Flowing, Staffed
        <5> HIDE DEF n, q
        <5> QED BY <1>6, <3>1, <5>1
      <4> HIDE DEF n, q
      <4> QED BY <1>1, <1>2, <1>4, <3>1, <3>3, <4>1 DEF Staffed, z
    <3>5. Served(h)'
      BY <1>4, <1>5, <3>1, <3>3 DEF Served
    <3> QED BY <2>4, <3>2, <3>4, <3>5 DEF Flowing
  <2> QED BY <2>3, <2>4
<1>7. CASE n > 0
  <2>1. item \in At(h, "queued") /\ item \in Runs /\ item # Sentinel
    <3>1. item \in {q[i] : i \in 1 .. n}
      <4> HIDE DEF n, q, item
      <4> QED BY <1>1, <1>2, <1>7
    <3> QED BY <1>3, <1>5, <3>1
  <2>2. stage[item] = "queued" /\ origin[item] = h /\ stage' = [stage EXCEPT ![item] = "running"]
    BY <1>4, <2>1 DEF At
  <2>3. /\ \A x \in Generations : x # h => /\ At(x, "queued")' = At(x, "queued")
                                          /\ At(x, "running")' = At(x, "running")
        /\ At(h, "queued")' = At(h, "queued") \ {item}
        /\ At(h, "running")' = At(h, "running") \cup {item} /\ item \notin At(h, "running")
    <3> HIDE DEF item
    <3>1. origin' = origin
      BY <1>4
    <3> QED BY <2>1, <2>2, <3>1 DEF At, TypeOK, RunsOK
  <2>4. CASE g # h
    BY <1>4, <2>3, <2>4, StillFlowing DEF Untouched
  <2>5. CASE g = h
    <3>1. Backlog(h)' = n - 1 /\ Backlog(h)' \in Nat
      BY <2>1, <2>3, PoolNumbers, OneOut DEF Backlog, Stages
    <3>2. Alive(h)' = Alive(h) /\ Alive(h) > 0
      <4>1. Cardinality(At(h, "running"))' = Cardinality(At(h, "running")) + 1
        BY <2>3, PoolNumbers, OneIn DEF Stages
      <4>2. Alive(h)' = waiting'[h] + finishing[h] + Cardinality(At(h, "running"))'
        BY <1>4 DEF Alive
      <4> QED BY <1>4, <1>5, <4>1, <4>2 DEF Alive
    <3>3. Lined(h)'
      <4> DEFINE m == n - 1
      <4> HIDE DEF n, q, z, item
      <4>1. m \in Nat /\ n = m + 1 /\ Len(z) \in Nat /\ m <= Len(z)
        BY <1>1, <1>2, <1>3, <1>7
      <4>2. \A i \in 1 .. Len(z) : i + 1 \in 1 .. Len(q) /\ z[i] = q[i + 1]
        BY <1>1, <1>2
      <4> HIDE DEF m
      <4>3. {z[i] : i \in 1 .. m} = At(h, "queued") \ {item}
        <5>1. ASSUME NEW i \in 1 .. m PROVE z[i] \in At(h, "queued") \ {item}
          <6>1. i + 1 \in 1 .. n /\ 1 \in 1 .. n /\ i + 1 # 1 /\ i \in 1 .. Len(z)
            BY <4>1
          <6> QED BY <1>2, <1>3, <4>2, <6>1
        <5>2. ASSUME NEW x \in At(h, "queued"), x # item PROVE x \in {z[i] : i \in 1 .. m}
          <6>1. PICK k \in 1 .. n : x = q[k]
            BY <1>3, <5>2
          <6>2. k # 1
            BY <1>2, <5>2, <6>1
          <6>3. k - 1 \in 1 .. m /\ k - 1 \in 1 .. Len(z) /\ (k - 1) + 1 = k
            BY <4>1, <6>2
          <6>4. z[k - 1] = x
            BY <4>2, <6>1, <6>3
          <6> QED BY <6>3, <6>4
        <5> QED BY <5>1, <5>2
      <4>4. \A i, j \in 1 .. m : z[i] = z[j] => i = j
        <5> SUFFICES ASSUME NEW i \in 1 .. m, NEW j \in 1 .. m, z[i] = z[j] PROVE i = j
          OBVIOUS
        <5>1. /\ i + 1 \in 1 .. n /\ j + 1 \in 1 .. n
              /\ i \in 1 .. Len(z) /\ j \in 1 .. Len(z)
          BY <4>1
        <5>2. i + 1 = j + 1
          BY <1>3, <4>2, <5>1
        <5> QED BY <4>1, <5>2
      <4>5. \A i \in m + 1 .. Len(z) : z[i] = Sentinel
        <5> SUFFICES ASSUME NEW i \in m + 1 .. Len(z) PROVE z[i] = Sentinel
          OBVIOUS
        <5>1. i \in 1 .. Len(z) /\ i + 1 \in n + 1 .. Len(q)
          BY <1>1, <1>2, <4>1
        <5> QED BY <1>3, <4>2, <5>1
      <4>6. Backlog(h)' = m /\ queue'[h] = z /\ At(h, "queued")' = At(h, "queued") \ {item}
        BY <2>3, <3>1 DEF m, z
      <4> QED BY <4>1, <4>3, <4>4, <4>5, <4>6 DEF Lined
    <3>4. Staffed(h)'
      <4>1. /\ closed[h] => Len(q) = n + Alive(h)
            /\ ~closed[h] => Len(q) = n /\ threads[h] = Alive(h)
        BY DEF Flowing, Staffed
      <4>2. Alive(h) \in Nat
        BY PoolNumbers
      <4> HIDE DEF n, q
      <4> QED BY <1>1, <1>2, <1>4, <3>1, <3>2, <4>1, <4>2 DEF Staffed, z
    <3>5. Served(h)'
      <4>1. threads[h] < MaxWorkers => /\ n <= waiting[h]
                                       /\ ~closed[h] => n + permits[h] <= waiting[h]
        BY DEF Flowing, Served
      <4> HIDE DEF n
      <4> QED BY <1>1, <1>4, <1>5, <3>1, <4>1 DEF Served
    <3> QED BY <2>5, <3>3, <3>4, <3>5 DEF Flowing
  <2> QED BY <2>4, <2>5
<1> QED BY <1>1, <1>6, <1>7

LEMMA ReturnFlows ==
    ASSUME TypeOK, NEW r \in Runs, Return(r), NEW g \in Generations, Flowing(g)
    PROVE  Flowing(g)'
<1>1. /\ stage[r] = "running" /\ stage' = [stage EXCEPT ![r] = "done"] /\ origin' = origin
      /\ UNCHANGED <<queue, closed, threads, permits, waiting>> /\ origin[r] \in Generations
      /\ \A x \in Generations : x # origin[r] => finishing'[x] = finishing[x]
      /\ finishing'[origin[r]] = finishing[origin[r]] + 1
  <2>1. origin[r] \in Generations
    BY DEF TypeOK, RunsOK
  <2> QED BY <2>1 DEF Return, TypeOK, PoolsOK
<1>2. At(g, "queued")' = At(g, "queued")
  BY <1>1 DEF At, TypeOK, RunsOK
<1>3. CASE g # origin[r]
  <2>1. At(g, "running")' = At(g, "running")
    BY <1>1, <1>3 DEF At, TypeOK, RunsOK
  <2> QED BY <1>1, <1>2, <1>3, <2>1, StillFlowing DEF Untouched
<1>4. CASE g = origin[r]
  <2>1. At(g, "running")' = At(g, "running") \ {r} /\ r \in At(g, "running")
    BY <1>1, <1>4, OneMoves DEF Stages
  <2>2. /\ Cardinality(At(g, "running"))' = Cardinality(At(g, "running")) - 1
        /\ Cardinality(At(g, "running")) \in Nat
    BY <2>1, PoolNumbers, OneOut DEF Stages
  <2>3. Alive(g)' = Alive(g) /\ Backlog(g)' = Backlog(g)
    <3>1. Alive(g)' = waiting[g] + (finishing[g] + 1) + Cardinality(At(g, "running"))'
      BY <1>1, <1>4 DEF Alive
    <3>2. waiting[g] \in Nat /\ finishing[g] \in Nat
      BY PoolNumbers
    <3>3. Alive(g)' = Alive(g)
      BY <2>2, <3>1, <3>2 DEF Alive
    <3> QED BY <1>2, <3>3 DEF Backlog
  <2>4. Lined(g)' /\ Staffed(g)' /\ Served(g)'
    BY <1>1, <1>2, <2>3 DEF Flowing, Lined, Staffed, Served
  <2> QED BY <2>4 DEF Flowing
<1> QED BY <1>3, <1>4

LEMMA ReleaseFlows ==
    ASSUME TypeOK, NEW h \in Generations, Release(h), NEW g \in Generations, Flowing(g)
    PROVE  Flowing(g)'
<1>1. /\ UNCHANGED <<queue, closed, threads, stage, origin>> /\ finishing[h] > 0
      /\ \A x \in Generations : x # h => /\ finishing'[x] = finishing[x]
                                         /\ permits'[x] = permits[x] /\ waiting'[x] = waiting[x]
      /\ finishing'[h] = finishing[h] - 1 /\ permits'[h] = permits[h] + 1
      /\ waiting'[h] = waiting[h] + 1
  BY DEF Release, TypeOK, PoolsOK
<1>2. At(g, "queued")' = At(g, "queued") /\ At(g, "running")' = At(g, "running")
  BY <1>1 DEF At
<1>3. CASE g # h
  BY <1>1, <1>2, <1>3, StillFlowing DEF Untouched
<1>4. CASE g = h
  <2>1. /\ waiting[g] \in Nat /\ finishing[g] \in Nat /\ permits[g] \in Nat
        /\ Cardinality(At(g, "running")) \in Nat /\ Backlog(g) \in Nat
    BY PoolNumbers DEF Stages
  <2>2. Alive(g)' = Alive(g) /\ Backlog(g)' = Backlog(g)
    <3>1. Alive(g)' = (waiting[g] + 1) + (finishing[g] - 1) + Cardinality(At(g, "running"))
      BY <1>1, <1>2, <1>4 DEF Alive
    <3> QED BY <1>2, <2>1, <3>1 DEF Alive, Backlog
  <2>3. Lined(g)' /\ Staffed(g)'
    BY <1>1, <1>2, <2>2 DEF Flowing, Lined, Staffed
  <2>4. Served(g)'
    BY <1>1, <1>4, <2>1, <2>2 DEF Flowing, Served
  <2> QED BY <2>3, <2>4 DEF Flowing
<1> QED BY <1>3, <1>4

\* One sentinel for each thread goes behind the queued runs.
LEMMA CloseFlows ==
    ASSUME TypeOK, Replaced, NEW h \in Generations, Close(h), NEW g \in Generations, Flowing(g)
    PROVE  Flowing(g)'
<1>1. /\ UNCHANGED <<threads, permits, waiting, finishing, stage, origin>> /\ ~closed[h]
      /\ \A x \in Generations : x # h => queue'[x] = queue[x] /\ closed'[x] = closed[x]
      /\ queue'[h] = WithSentinels(h) /\ closed'[h]
  BY DEF Close, Replaced, TypeOK, PoolsOK, workers
<1>2. At(g, "queued")' = At(g, "queued") /\ At(g, "running")' = At(g, "running")
  BY <1>1 DEF At
<1>3. CASE g # h
  BY <1>1, <1>2, <1>3, StillFlowing DEF Untouched
<1>4. CASE g = h
  <2> DEFINE q == queue[g]
             t == [i \in 1 .. threads[g] |-> Sentinel]
             z == queue'[g]
  <2>1. /\ threads[g] \in Nat /\ Len(q) \in Nat /\ Backlog(g) \in Nat /\ Alive(g) \in Nat
        /\ q \in Seq(Runs \cup {Sentinel})
    BY PoolNumbers
  <2>2. Alive(g)' = Alive(g) /\ Backlog(g)' = Backlog(g)
    BY <1>1, <1>2 DEF Alive, Backlog
  <2>3. Len(q) = Backlog(g) /\ threads[g] = Alive(g)
    BY <1>1, <1>4 DEF Flowing, Staffed
  <2>4. /\ Len(z) = Len(q) + threads[g]
        /\ \A i \in 1 .. Len(q) : z[i] = q[i]
        /\ \A i \in Len(q) + 1 .. Len(z) : z[i] = Sentinel
    <3>1. t \in Seq(Runs \cup {Sentinel}) /\ Len(t) = threads[g]
          /\ \A i \in 1 .. threads[g] : t[i] = Sentinel
      BY <2>1
    <3>2. z = q \o t
      BY <1>1, <1>4 DEF WithSentinels
    <3> HIDE DEF q, t, z
    <3>3. /\ Len(z) = Len(q) + Len(t)
          /\ \A i \in 1 .. Len(q) + Len(t) : z[i] = IF i <= Len(q) THEN q[i] ELSE t[i - Len(q)]
      BY <2>1, <3>1, <3>2
    <3>4. ASSUME NEW i \in Len(q) + 1 .. Len(z) PROVE z[i] = Sentinel
      <4>1. i \in 1 .. Len(q) + Len(t) /\ ~(i <= Len(q)) /\ i - Len(q) \in 1 .. threads[g]
        BY <2>1, <3>1, <3>3
      <4> QED BY <3>1, <3>3, <4>1
    <3>5. ASSUME NEW i \in 1 .. Len(q) PROVE z[i] = q[i]
      <4>1. i \in 1 .. Len(q) + Len(t) /\ i <= Len(q)
        BY <2>1, <3>1
      <4> QED BY <3>3, <4>1
    <3> QED BY <3>1, <3>3, <3>4, <3>5
  <2>5. /\ {q[i] : i \in 1 .. Backlog(g)} = At(g, "queued")
        /\ \A i, j \in 1 .. Backlog(g) : q[i] = q[j] => i = j
    BY DEF Flowing, Lined
  <2>6. Lined(g)'
    <3>1. Backlog(g) <= Len(z)
      <4> HIDE DEF q, z
      <4> QED BY <2>1, <2>3, <2>4
    <3>2. {z[i] : i \in 1 .. Backlog(g)} = At(g, "queued")
      <4> HIDE DEF q, z
      <4> QED BY <2>3, <2>4, <2>5
    <3>3. \A i, j \in 1 .. Backlog(g) : z[i] = z[j] => i = j
      <4> HIDE DEF q, z
      <4> QED BY <2>3, <2>4, <2>5
    <3>4. \A i \in Backlog(g) + 1 .. Len(z) : z[i] = Sentinel
      <4> HIDE DEF q, z
      <4> QED BY <2>3, <2>4
    <3> QED BY <1>2, <2>2, <3>1, <3>2, <3>3, <3>4 DEF Lined
  <2>7. Staffed(g)'
    <3>1. Backlog(g) > 0 => Alive(g) > 0
      BY DEF Flowing, Staffed
    <3> HIDE DEF q
    <3> QED BY <1>1, <1>4, <2>2, <2>3, <2>4, <3>1 DEF Staffed, z
  <2>8. Served(g)'
    BY <1>1, <1>4, <2>2 DEF Flowing, Served
  <2> QED BY <2>6, <2>7, <2>8 DEF Flowing
<1> QED BY <1>3, <1>4

\* What the callers do with their answers touches no pool.
LEMMA CallerFlows ==
    ASSUME NEW r \in Runs,
           Answer(r) \/ TimeOut(r) \/ Abandon(r) \/ NoteOrphan(r) \/ Settle(r) \/ Shutdown
             \/ UNCHANGED vars,
           NEW g \in Generations
    PROVE  Untouched(g)
<1>1. UNCHANGED <<closed, queue, workers, stage, origin>>
  BY DEF Answer, TimeOut, Abandon, NoteOrphan, Settle, Shutdown, vars
<1>2. At(g, "queued")' = At(g, "queued") /\ At(g, "running")' = At(g, "running")
  BY <1>1 DEF At
<1> QED BY <1>1, <1>2 DEF Untouched, workers

LEMMA StepReplaced == ASSUME TypeOK, Replaced, [Next]_vars PROVE Replaced'
<1>1. /\ generation \in Nat /\ Generations \subseteq Nat
      /\ closed \in [Generations -> BOOLEAN] /\ retiring \subseteq Generations
  BY PoolAssumption DEF TypeOK, RegistryOK, PoolsOK, Generations
<1>2. CASE UNCHANGED <<closed, retiring, generation>>
  BY <1>2 DEF Replaced
<1>3. CASE live /\ Retire /\ closed' = closed
  BY <1>1, <1>3 DEF Retire, Replaced
<1>4. ASSUME NEW r \in Runs, Call(r) \/ Return(r) PROVE Replaced'
  BY <1>2, <1>3, <1>4 DEF Call, Acquire, Submit, Answer, TimeOut, Abandon, NoteOrphan, Settle,
                          Return, registry
<1>5. ASSUME NEW g \in Generations, Work(g) PROVE Replaced'
  <2>1. CASE Close(g)
    BY <1>1, <2>1 DEF Close, Replaced
  <2> QED BY <1>2, <1>5, <2>1 DEF Work, Take, Release, registry
<1>6. CASE Shutdown
  BY <1>3, <1>6 DEF Shutdown
<1> QED BY <1>2, <1>4, <1>5, <1>6 DEF Next, vars, registry

LEMMA StepFlowing ==
    ASSUME TypeOK, FlowInv, [Next]_vars, NEW g \in Generations
    PROVE  Flowing(g)'
<1> USE DEF FlowInv
<1>1. ASSUME NEW r \in Runs, Call(r) \/ Return(r) PROVE Flowing(g)'
  BY <1>1, AcquireFlows, SubmitFlows, ReturnFlows, CallerFlows, StillFlowing DEF Call
<1>2. ASSUME NEW h \in Generations, Work(h) PROVE Flowing(g)'
  BY <1>2, TakeFlows, ReleaseFlows, CloseFlows DEF Work
<1>3. CASE Shutdown \/ UNCHANGED vars
  <2>1. UNCHANGED <<closed, queue, workers, stage, origin>>
    BY <1>3 DEF Shutdown, vars
  <2>2. At(g, "queued")' = At(g, "queued") /\ At(g, "running")' = At(g, "running")
    BY <2>1 DEF At
  <2> QED BY <2>1, <2>2, StillFlowing DEF Untouched, workers
<1> QED BY <1>1, <1>2, <1>3 DEF Next

LEMMA InitFlow == Init => FlowInv
<1> SUFFICES ASSUME Init PROVE FlowInv
  OBVIOUS
<1>1. Replaced
  BY DEF Init, Replaced
<1>2. ASSUME NEW g \in Generations PROVE Flowing(g)
  <2>1. At(g, "queued") = {} /\ At(g, "running") = {}
    BY DEF Init, At
  <2>2. Backlog(g) = 0 /\ Cardinality(At(g, "running")) = 0
    BY <2>1, FS_EmptySet DEF Backlog
  <2>3. /\ queue[g] = <<>> /\ Len(queue[g]) = 0 /\ ~closed[g] /\ threads[g] = 0
        /\ permits[g] = 0 /\ waiting[g] = 0 /\ finishing[g] = 0
    BY DEF Init
  <2>4. Alive(g) = 0
    BY <2>2, <2>3 DEF Alive
  <2>5. Lined(g)
    BY <2>1, <2>2, <2>3 DEF Lined
  <2>6. Staffed(g) /\ Served(g)
    BY <2>2, <2>3, <2>4 DEF Staffed, Served
  <2> QED BY <2>5, <2>6 DEF Flowing
<1> QED BY <1>1, <1>2 DEF FlowInv

LEMMA FlowHolds == Spec => [](TypeOK /\ FlowInv)
<1>1. TypeOK /\ FlowInv /\ [Next]_vars => (TypeOK /\ FlowInv)'
  BY PoolStepTypes, StepReplaced, StepFlowing DEF FlowInv
<1> QED BY <1>1, InitPoolTypes, InitFlow, PTL DEF Spec

\* _ensure_worker reuses idle workers without ever counting on a busy one: while a
\* pool may still grow, every queued run has a worker blocked in queue.get, for any
\* interleaving of submissions, releases and queue reads.
THEOREM IdleWorkersServe == Spec => []NoRunWaitsBelowCapacity
<1>1. FlowInv => NoRunWaitsBelowCapacity
  BY DEF FlowInv, Flowing, Served, NoRunWaitsBelowCapacity
<1> QED BY <1>1, FlowHolds, PTL

\* shutdown(wait=False) puts the sentinels behind the runs the pool had accepted, as
\* many as workers are left: none of these runs, and no worker, is stranded by a
\* retirement, however submissions, timeouts and other pools interleave with it.
THEOREM RetirementStrandsNothing == Spec => []NothingStranded
<1>1. FlowInv => NothingStranded
  BY DEF FlowInv, Flowing, Lined, Staffed, NothingStranded
<1> QED BY <1>1, FlowHolds, PTL
=============================================================================
