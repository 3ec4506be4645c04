--------------------------- MODULE LifecycleProofs ---------------------------
(***************************************************************************)
(* Proofs about GuardLifecycle, for any finite set of guards, any way of   *)
(* using them and any cap on the orphans.                                  *)
(*                                                                         *)
(* TypeInv adds to the types what a sweep has seen and kept; RegistryInv   *)
(* relates the registry to the lives of guards while a sweep runs;         *)
(* MemoryInv says of each guard with events who will find them, before the *)
(* exit hook has looked and after; LockInv says who holds a flush lock.    *)
(* Each of the last three is inductive given the ones before it.  A step   *)
(* of one guard leaves the others alone (Elsewhere), so each invariant of  *)
(* guards is shown at the guard that moves and framed for the others.      *)
(***************************************************************************)
EXTENDS GuardLifecycle, SequenceTheorems, FiniteSetTheorems, TLAPS

-----------------------------------------------------------------------------
(* Sequences without repetitions *)

\* The empty sequence.
LEMMA Empty ==
    ASSUME NEW S
    PROVE  /\ <<>> \in Seq(S) /\ Len(<<>>) = 0
           /\ ToSet(<<>>) = {} /\ IsInjective(<<>>)
BY DEF ToSet, IsInjective

\* Typing facts of one sequence.
LEMMA NonEmpty ==
    ASSUME NEW S, NEW s \in Seq(S)
    PROVE  /\ Len(s) \in Nat
           /\ ToSet(s) \subseteq S
           /\ s = <<>> <=> Len(s) = 0
BY EmptySeq, LenProperties, ElementOfSeq DEF ToSet

\* An element at the end.
LEMMA Appended ==
    ASSUME NEW S, NEW s \in Seq(S), NEW e \in S
    PROVE  /\ Append(s, e) \in Seq(S) /\ Len(Append(s, e)) = Len(s) + 1
           /\ \A i \in 1 .. Len(s) : Append(s, e)[i] = s[i]
           /\ Append(s, e)[Len(s) + 1] = e
           /\ ToSet(Append(s, e)) = ToSet(s) \cup {e}
           /\ IsInjective(s) /\ e \notin ToSet(s) => IsInjective(Append(s, e))
<1> DEFINE t == Append(s, e)
<1>1. /\ t \in Seq(S) /\ Len(t) = Len(s) + 1
      /\ \A i \in 1 .. Len(s) : t[i] = s[i]
      /\ t[Len(s) + 1] = e
  BY AppendProperties
<1>2. Len(s) \in Nat /\ DOMAIN s = 1 .. Len(s)
  BY LenProperties
<1> HIDE DEF t
<1>3. DOMAIN t = 1 .. Len(s) + 1
  BY <1>1, LenProperties
<1>4. DOMAIN t = DOMAIN s \cup {Len(s) + 1}
  BY <1>2, <1>3
<1>5. ToSet(t) = ToSet(s) \cup {e}
  <2>1. \A i \in DOMAIN s : t[i] = s[i]
    BY <1>1, <1>2
  <2> QED BY <1>1, <1>4, <2>1 DEF ToSet
<1>6. ASSUME IsInjective(s), e \notin ToSet(s) PROVE IsInjective(t)
  <2>1. \A i \in DOMAIN s : t[i] = s[i] /\ s[i] # e
    BY <1>1, <1>2, <1>6 DEF ToSet
  <2> QED BY <1>1, <1>4, <1>6, <2>1 DEF IsInjective
<1> QED BY <1>1, <1>5, <1>6 DEF t

\* Taking one element out.
LEMMA TakenOut ==
    ASSUME NEW S, NEW s \in Seq(S), NEW i \in 1 .. Len(s), IsInjective(s)
    PROVE  /\ RemoveAt(s, i) \in Seq(S) /\ Len(RemoveAt(s, i)) = Len(s) - 1
           /\ IsInjective(RemoveAt(s, i))
           /\ ToSet(RemoveAt(s, i)) = ToSet(s) \ {s[i]}
           /\ \A j \in 1 .. Len(s) - 1 :
                 RemoveAt(s, i)[j] = IF j < i THEN s[j] ELSE s[j + 1]
<1> DEFINE n == Len(s)
           t == RemoveAt(s, i)
<1>1. n \in Nat /\ DOMAIN s = 1 .. n /\ \A j \in 1 .. n : s[j] \in S
  BY LenProperties, ElementOfSeq
<1> DEFINE a == SubSeq(s, 1, i - 1)
           b == SubSeq(s, i + 1, n)
<1>2. a \in Seq(S) /\ Len(a) = i - 1 /\ \A j \in 1 .. i - 1 : a[j] = s[j]
  BY <1>1, SubSeqProperties
<1>3. b \in Seq(S) /\ Len(b) = n - i /\ \A j \in 1 .. n - i : b[j] = s[i + j]
  <2>1. \A j \in i + 1 .. n : s[j] \in S
    BY <1>1
  <2>2. /\ b \in Seq(S) /\ Len(b) = IF i + 1 <= n THEN n - (i + 1) + 1 ELSE 0
        /\ \A j \in 1 .. n - (i + 1) + 1 : b[j] = s[i + 1 + j - 1]
    BY <1>1, <2>1, SubSeqProperties
  <2> HIDE DEF b, n
  <2>3. i \in 1 .. n
    BY DEF n
  <2>4. ASSUME NEW j \in 1 .. n - i PROVE b[j] = s[i + j]
    <3>1. j \in 1 .. n - (i + 1) + 1 /\ i + 1 + j - 1 = i + j
      BY <1>1, <2>3
    <3> QED BY <2>2, <3>1
  <2> QED BY <1>1, <2>2, <2>3, <2>4
<1>4. t = a \o b
  BY DEF RemoveAt
<1> HIDE DEF a, b, t
<1>5. /\ t \in Seq(S) /\ Len(t) = n - 1
      /\ \A j \in 1 .. n - 1 : t[j] = IF j <= i - 1 THEN a[j] ELSE b[j - (i - 1)]
  <2>1. /\ t \in Seq(S) /\ Len(t) = Len(a) + Len(b)
        /\ \A j \in 1 .. Len(a) + Len(b) :
              t[j] = IF j <= Len(a) THEN a[j] ELSE b[j - Len(a)]
    BY <1>2, <1>3, <1>4, ConcatProperties
  <2> HIDE DEF n
  <2>2. Len(a) + Len(b) = n - 1
    BY <1>1, <1>2, <1>3
  <2> QED BY <1>2, <2>1, <2>2
<1> HIDE DEF n
<1>6. ASSUME NEW j \in 1 .. n - 1
      PROVE  t[j] = IF j < i THEN s[j] ELSE s[j + 1]
  <2>1. CASE j < i
    <3>1. j \in 1 .. i - 1
      BY <1>1, <2>1
    <3> QED BY <1>1, <1>2, <1>5, <2>1, <3>1
  <2>2. CASE ~(j < i)
    <3> DEFINE k == j - (i - 1)
    <3>1. k \in 1 .. n - i /\ i + k = j + 1 /\ ~(j <= i - 1)
      BY <1>1, <2>2 DEF n
    <3> QED BY <1>3, <1>5, <2>2, <3>1
  <2> QED BY <2>1, <2>2
<1>7. DOMAIN t = 1 .. n - 1
  BY <1>5, LenProperties
<1>8. i \in 1 .. n
  BY DEF n
<1>9. \A j, k \in 1 .. n : s[j] = s[k] => j = k
  BY <1>1 DEF IsInjective
<1>10. IsInjective(t)
  <2> SUFFICES ASSUME NEW j \in 1 .. n - 1, NEW k \in 1 .. n - 1, t[j] = t[k] PROVE j = k
    BY <1>7 DEF IsInjective
  <2>1. /\ t[j] = IF j < i THEN s[j] ELSE s[j + 1]
        /\ t[k] = IF k < i THEN s[k] ELSE s[k + 1]
    BY <1>6
  <2>2. j \in 1 .. n /\ j + 1 \in 1 .. n /\ k \in 1 .. n /\ k + 1 \in 1 .. n
    BY <1>1
  <2>3. (IF j < i THEN j ELSE j + 1) = (IF k < i THEN k ELSE k + 1)
    BY <1>8, <1>9, <2>1, <2>2
  <2> QED BY <1>1, <1>8, <2>2, <2>3
<1>11. ToSet(t) = ToSet(s) \ {s[i]}
  <2>1. ASSUME NEW j \in 1 .. n - 1 PROVE t[j] \in ToSet(s) \ {s[i]}
    <3> DEFINE k == IF j < i THEN j ELSE j + 1
    <3>1. k \in 1 .. n /\ k # i
      BY <1>1, <1>8
    <3>2. t[j] = s[k]
      BY <1>6
    <3> HIDE DEF k
    <3>3. s[k] # s[i] /\ s[k] \in ToSet(s)
      BY <1>1, <1>8, <1>9, <3>1 DEF ToSet
    <3> QED BY <3>2, <3>3
  <2>2. ASSUME NEW j \in 1 .. n, j # i PROVE s[j] \in ToSet(t)
    <3>1. CASE j < i
      <4>1. j \in 1 .. n - 1
        BY <1>1, <1>8, <3>1
      <4> QED BY <1>6, <1>7, <3>1, <4>1 DEF ToSet
    <3>2. CASE ~(j < i)
      <4> DEFINE k == j - 1
      <4>1. k \in 1 .. n - 1 /\ ~(k < i) /\ k + 1 = j
        BY <1>1, <1>8, <2>2, <3>2
      <4> HIDE DEF k
      <4>2. t[k] = s[j]
        BY <1>6, <4>1
      <4> QED BY <1>7, <4>1, <4>2 DEF ToSet
    <3> QED BY <3>1, <3>2
  <2>3. ToSet(t) \subseteq ToSet(s) \ {s[i]}
    BY <1>7, <2>1 DEF ToSet
  <2>4. ToSet(s) \ {s[i]} \subseteq ToSet(t)
    BY <1>1, <2>2 DEF ToSet
  <2> QED BY <2>3, <2>4
<1> QED BY <1>5, <1>6, <1>10, <1>11 DEF t, n

\* A sequence without repetitions over a finite set is no longer than the set is large.
LEMMA Fits ==
    ASSUME NEW S, IsFiniteSet(S), NEW s \in Seq(S), IsInjective(s)
    PROVE  Len(s) \in Nat /\ Cardinality(S) \in Nat /\ Len(s) <= Cardinality(S)
<1>1. Len(s) \in Nat /\ DOMAIN s = 1 .. Len(s) /\ s \in [1 .. Len(s) -> S]
  BY LenProperties
<1>2. s \in Injection(1 .. Len(s), S)
  BY <1>1 DEF IsInjective, Injection
<1>3. Cardinality(1 .. Len(s)) <= Cardinality(S)
  BY <1>2, FS_Injection
<1>4. Cardinality(1 .. Len(s)) = Len(s)
  BY <1>1, FS_Interval
<1> QED BY <1>1, <1>3, <1>4, FS_CardinalityType

-----------------------------------------------------------------------------
\* Replacing one value of a function; the set of values is kept closed.

LEMMA Typed ==
    ASSUME NEW S, NEW T, NEW f \in [S -> T], NEW g \in S, NEW x \in T
    PROVE  /\ Set(f, g, x) \in [S -> T]
           /\ \A h \in S : Set(f, g, x)[h] = IF h = g THEN x ELSE f[h]
BY DEF Set

Steps(g) == Use(g) \/ ShutdownSteps(g) \/ Drain(g) \/ DrainFails(g) \/ DrainBlocks(g)

\* The next-state relation, one step of one guard or a step of the process.
LEMMA Actions == Next => (\E g \in Guards : Steps(g)) \/ SweepStep \/ SweepEnds \/ Exit \/ Exited
BY Zenon DEF Next, ExitSteps, Steps

\* The values of the functions, to be kept closed in the proofs of types.
Lives == {"unborn", "live", "gone"}
Stages == {"none", "stopping", "posting", "drained", "sweeping", "frozen"}

LEMMA Values ==
    /\ "live" \in Lives /\ "gone" \in Lives
    /\ "none" \in Stages /\ "stopping" \in Stages /\ "posting" \in Stages
    /\ "drained" \in Stages /\ "sweeping" \in Stages /\ "frozen" \in Stages
    /\ TRUE \in BOOLEAN /\ FALSE \in BOOLEAN
BY DEF Lives, Stages

LEMMA GuardsTyped ==
    GuardsOK <=> /\ mode \in Modes /\ life \in [Guards -> Lives]
                 /\ ready \in [Guards -> BOOLEAN] /\ looped \in [Guards -> BOOLEAN]
                 /\ stage \in [Guards -> Stages]
BY Zenon DEF GuardsOK, Lives, Stages

LEMMA GuardsTypedNext ==
    GuardsOK' <=> /\ mode' \in Modes /\ life' \in [Guards -> Lives]
                  /\ ready' \in [Guards -> BOOLEAN] /\ looped' \in [Guards -> BOOLEAN]
                  /\ stage' \in [Guards -> Stages]
BY Zenon DEF GuardsOK, Lives, Stages

\* The types, one part at a time.
LEMMA GuardsStep ==
    ASSUME GuardsOK, RegistryOK, Next
    PROVE  GuardsOK'
<1> SUFFICES /\ mode' \in Modes /\ life' \in [Guards -> Lives]
             /\ ready' \in [Guards -> BOOLEAN] /\ looped' \in [Guards -> BOOLEAN]
             /\ stage' \in [Guards -> Stages]
  BY GuardsTypedNext
<1> DEFINE Goal == /\ mode' \in Modes /\ life' \in [Guards -> Lives]
                   /\ ready' \in [Guards -> BOOLEAN] /\ looped' \in [Guards -> BOOLEAN]
                   /\ stage' \in [Guards -> Stages]
<1>0. /\ mode \in Modes /\ life \in [Guards -> Lives]
      /\ ready \in [Guards -> BOOLEAN] /\ looped \in [Guards -> BOOLEAN]
      /\ stage \in [Guards -> Stages]
  BY GuardsTyped
<1>1. ASSUME NEW g \in Guards, Steps(g) PROVE Goal
  <2>1. CASE Create(g)
    BY <1>0, <2>1, Values, Typed, Zenon DEF Create, guards
  <2>2. CASE Start(g)
    BY <1>0, <2>2, Values, Typed, Zenon DEF Start, guards
  <2>3. CASE Report(g)
    BY <1>0, <2>3, Values, Typed, Zenon DEF Report, guards
  <2>4. CASE FlushBegins(g)
    BY <1>0, <2>4, Values, Typed, Zenon DEF FlushBegins, guards
  <2>5. CASE FlushEnds(g)
    BY <1>0, <2>5, Values, Typed, Zenon DEF FlushEnds, guards
  <2>6. CASE Collect(g)
    BY <1>0, <2>6, Values, Typed, Zenon DEF Collect, guards
  <2>7. CASE StopBegins(g)
    BY <1>0, <2>7, Values, Typed, Zenon DEF StopBegins, guards
  <2>8. CASE StopPosts(g)
    BY <1>0, <2>8, Values, Typed, Zenon DEF StopPosts, guards
  <2>9. CASE StopPosted(g)
    BY <1>0, <2>9, Values, Typed, Zenon DEF StopPosted, guards
  <2>10. CASE StopDrains(g)
    BY <1>0, <2>10, Values, Typed, Zenon DEF StopDrains, guards
  <2>11. CASE ShutdownRaises(g)
    BY <1>0, <2>11, Values, Typed, Zenon DEF ShutdownRaises, guards
  <2>12. CASE SweepBegins(g)
    BY <1>0, <2>12, Values, Typed, Zenon DEF SweepBegins, guards
  <2>13. CASE Freeze(g)
    BY <1>0, <2>13, Values, Typed, Zenon DEF Freeze, guards
  <2>14. CASE Drain(g)
    BY <1>0, <2>14, Values, Typed, Zenon DEF Drain, guards
  <2>15. CASE DrainBlocks(g)
    BY <1>0, <2>15, Values, Typed, Zenon DEF DrainBlocks, guards
  <2>16. CASE CallEnds(g)
    BY <1>0, <2>16, Values, Typed, Zenon DEF CallEnds, guards
  <2>17. CASE FlushCrashes(g)
    BY <1>0, <2>17, Values, Typed, Zenon DEF FlushCrashes, guards
  <2>18. CASE StopRaises(g)
    BY <1>0, <2>18, Values, Typed, Zenon DEF StopRaises, guards
  <2>19. CASE DrainFails(g)
    BY <1>0, <2>19, Values, Typed, Zenon DEF DrainFails, guards
  <2> QED BY <1>1, <2>1, <2>2, <2>3, <2>4, <2>5, <2>6, <2>7, <2>8, <2>9, <2>10,
             <2>11, <2>12, <2>13, <2>14, <2>15, <2>16, <2>17, <2>18, <2>19 DEF Steps, Use, ShutdownSteps
<1>2. CASE SweepStep
  BY <1>0, <1>2 DEF SweepStep, guards
<1>3. CASE SweepEnds
  <2>1. sweep.by \in Guards
    BY <1>3 DEF SweepEnds, LockedRegistry, RegistryOK
  <2> QED BY <1>0, <1>3, <2>1, Values, Typed, Zenon DEF SweepEnds
<1>4. CASE Exit
  BY <1>0, <1>4, Zenon DEF Exit
<1>5. CASE Exited
  BY <1>0, <1>5 DEF Exited, guards
<1> HIDE DEF Goal
<1> QED BY <1>1, <1>2, <1>3, <1>4, <1>5, Actions DEF Goal

Flushers == {"none", "asleep", "posting", "crashed"}
Locks == {"free", "flusher", "stop"}

LEMMA ReportersTyped ==
    /\ "none" \in Flushers /\ "asleep" \in Flushers /\ "posting" \in Flushers /\ "crashed" \in Flushers
    /\ "free" \in Locks /\ "flusher" \in Locks /\ "stop" \in Locks
    /\ ReportersOK <=> /\ flusher \in [Guards -> Flushers] /\ lock \in [Guards -> Locks]
                       /\ pending \in [Guards -> BOOLEAN]
<1>1. /\ "none" \in Flushers /\ "asleep" \in Flushers /\ "posting" \in Flushers /\ "crashed" \in Flushers
      /\ "free" \in Locks /\ "flusher" \in Locks /\ "stop" \in Locks
  BY DEF Flushers, Locks
<1> QED BY <1>1, Zenon DEF ReportersOK, Flushers, Locks

LEMMA ReportersTypedNext ==
    ReportersOK' <=> /\ flusher' \in [Guards -> Flushers] /\ lock' \in [Guards -> Locks]
                     /\ pending' \in [Guards -> BOOLEAN]
BY Zenon DEF ReportersOK, Flushers, Locks

LEMMA ReportersStep ==
    ASSUME ReportersOK, Next
    PROVE  ReportersOK'
<1> DEFINE Goal == /\ flusher' \in [Guards -> Flushers] /\ lock' \in [Guards -> Locks]
                   /\ pending' \in [Guards -> BOOLEAN]
<1> SUFFICES Goal
  BY ReportersTypedNext
<1>0. /\ flusher \in [Guards -> Flushers] /\ lock \in [Guards -> Locks]
      /\ pending \in [Guards -> BOOLEAN]
      /\ "none" \in Flushers /\ "asleep" \in Flushers /\ "posting" \in Flushers /\ "crashed" \in Flushers
      /\ "free" \in Locks /\ "flusher" \in Locks /\ "stop" \in Locks
      /\ TRUE \in BOOLEAN /\ FALSE \in BOOLEAN
  BY ReportersTyped
<1>1. ASSUME NEW g \in Guards, Steps(g) PROVE Goal
  <2>1. CASE Create(g)
    BY <1>0, <2>1, Typed, Zenon DEF Create, reporter
  <2>2. CASE Start(g)
    BY <1>0, <2>2, Typed, Zenon DEF Start, reporter
  <2>3. CASE Report(g)
    BY <1>0, <2>3, Typed, Zenon DEF Report, reporter
  <2>4. CASE FlushBegins(g)
    <3> PICK rest \in BOOLEAN : pending' = Set(pending, g, rest)
      BY <2>4 DEF FlushBegins
    <3>1. (rest) \in BOOLEAN
      OBVIOUS
    <3>2. pending' \in [Guards -> BOOLEAN]
      BY <1>0, <3>1, Typed, Zenon
    <3>3. flusher' \in [Guards -> Flushers] /\ lock' \in [Guards -> Locks]
      BY <1>0, <2>4, Typed, Zenon DEF FlushBegins
    <3> QED BY <3>2, <3>3
  <2>5. CASE FlushEnds(g)
    <3> PICK back \in BOOLEAN : pending' = Set(pending, g, pending[g] \/ back)
      BY <2>5 DEF FlushEnds
    <3>1. (pending[g] \/ back) \in BOOLEAN
      OBVIOUS
    <3>2. pending' \in [Guards -> BOOLEAN]
      BY <1>0, <3>1, Typed, Zenon
    <3>3. flusher' \in [Guards -> Flushers] /\ lock' \in [Guards -> Locks]
      BY <1>0, <2>5, Typed, Zenon DEF FlushEnds
    <3> QED BY <3>2, <3>3
  <2>6. CASE Collect(g)
    BY <1>0, <2>6, Typed, Zenon DEF Collect, reporter
  <2>7. CASE StopBegins(g)
    BY <1>0, <2>7, Typed, Zenon DEF StopBegins, reporter, LockAfterCancel
  <2>8. CASE StopPosts(g)
    <3> PICK rest \in BOOLEAN : pending' = Set(pending, g, rest)
      BY <2>8 DEF StopPosts
    <3>1. (rest) \in BOOLEAN
      OBVIOUS
    <3>2. pending' \in [Guards -> BOOLEAN]
      BY <1>0, <3>1, Typed, Zenon
    <3>3. flusher' \in [Guards -> Flushers] /\ lock' \in [Guards -> Locks]
      BY <1>0, <2>8, Typed, Zenon DEF StopPosts
    <3> QED BY <3>2, <3>3
  <2>9. CASE StopPosted(g)
    <3> PICK back \in BOOLEAN : pending' = Set(pending, g, pending[g] \/ back)
      BY <2>9 DEF StopPosted
    <3>1. (pending[g] \/ back) \in BOOLEAN
      OBVIOUS
    <3>2. pending' \in [Guards -> BOOLEAN]
      BY <1>0, <3>1, Typed, Zenon
    <3>3. flusher' \in [Guards -> Flushers] /\ lock' \in [Guards -> Locks]
      BY <1>0, <2>9, Typed, Zenon DEF StopPosted
    <3> QED BY <3>2, <3>3
  <2>10. CASE StopDrains(g)
    BY <1>0, <2>10, Typed, Zenon DEF StopDrains, reporter
  <2>11. CASE ShutdownRaises(g)
    BY <1>0, <2>11, Typed, Zenon DEF ShutdownRaises, reporter
  <2>12. CASE SweepBegins(g)
    BY <1>0, <2>12, Typed, Zenon DEF SweepBegins, reporter
  <2>13. CASE Freeze(g)
    BY <1>0, <2>13, Typed, Zenon DEF Freeze, reporter
  <2>14. CASE Drain(g)
    BY <1>0, <2>14, Typed, Zenon DEF Drain, reporter
  <2>15. CASE DrainBlocks(g)
    BY <1>0, <2>15, Typed, Zenon DEF DrainBlocks, reporter
  <2>16. CASE CallEnds(g)
    BY <1>0, <2>16, Typed, Zenon DEF CallEnds, reporter, LockAfterCancel, Cancelled
  <2>17. CASE FlushCrashes(g)
    BY <1>0, <2>17, Typed, Zenon DEF FlushCrashes, reporter
  <2>18. CASE StopRaises(g)
    BY <1>0, <2>18, Typed, Zenon DEF StopRaises, reporter
  <2>19. CASE DrainFails(g)
    BY <1>0, <2>19, Typed, Zenon DEF DrainFails, reporter
  <2> QED BY <1>1, <2>1, <2>2, <2>3, <2>4, <2>5, <2>6, <2>7, <2>8, <2>9, <2>10,
             <2>11, <2>12, <2>13, <2>14, <2>15, <2>16, <2>17, <2>18, <2>19 DEF Steps, Use, ShutdownSteps
<1>2. CASE SweepStep
  BY <1>0, <1>2 DEF SweepStep, reporter
<1>3. CASE SweepEnds
  BY <1>0, <1>3 DEF SweepEnds, reporter
<1>4. CASE Exit
  BY <1>0, <1>4, Zenon DEF Exit, LockAfterCancel, Cancelled
<1>5. CASE Exited
  BY <1>0, <1>5 DEF Exited, reporter
<1> HIDE DEF Goal
<1> QED BY <1>1, <1>2, <1>3, <1>4, <1>5, Actions DEF Goal

-----------------------------------------------------------------------------
\* No reference is to a guard not yet born; a sweep has kept each guard once, and none that
\* it has yet to reach.
Shape ==
    /\ \A g \in ToSet(active) \cup ToSet(sweep.kept) : life[g] # "unborn"
    /\ LockedRegistry \/ sweep = NoSweep
    /\ IsInjective(sweep.kept)
    /\ \A i \in 1 .. Len(active) : i >= sweep.next => active[i] \notin ToSet(sweep.kept)

TypeInv == TypeOK /\ Shape

\* Steps that leave the registry, and the lives of guards, as they are.
LEMMA RegistryAlone ==
    ASSUME NEW g, Steps(g)
    PROVE  Create(g) \/ Collect(g) \/ SweepBegins(g) \/ UNCHANGED <<life, active, orphans, sweep>>
<1> USE DEF guards, registry
<1>1. CASE Start(g)
  BY <1>1 DEF Start
<1>2. CASE Report(g)
  BY <1>2 DEF Report
<1>3. CASE FlushBegins(g)
  BY <1>3 DEF FlushBegins
<1>4. CASE FlushEnds(g)
  BY <1>4 DEF FlushEnds
<1>5. CASE StopBegins(g)
  BY <1>5 DEF StopBegins
<1>6. CASE StopPosts(g)
  BY <1>6 DEF StopPosts
<1>7. CASE StopPosted(g)
  BY <1>7 DEF StopPosted
<1>8. CASE StopDrains(g)
  BY <1>8 DEF StopDrains
<1>9. CASE ShutdownRaises(g)
  BY <1>9 DEF ShutdownRaises
<1>10. CASE Freeze(g)
  BY <1>10 DEF Freeze
<1>11. CASE Drain(g)
  BY <1>11 DEF Drain
<1>12. CASE DrainBlocks(g)
  BY <1>12 DEF DrainBlocks
<1>13. CASE CallEnds(g)
  BY <1>13 DEF CallEnds
<1>14. CASE FlushCrashes(g)
  BY <1>14 DEF FlushCrashes
<1>15. CASE StopRaises(g)
  BY <1>15 DEF StopRaises
<1>16. CASE DrainFails(g)
  BY <1>16 DEF DrainFails
<1> QED BY <1>1, <1>2, <1>3, <1>4, <1>5, <1>6, <1>7, <1>8, <1>9, <1>10, <1>11, <1>12, <1>13,
           <1>14, <1>15, <1>16
        DEF Steps, Use, ShutdownSteps

\* What taking a reference out of the list does to it.
LEMMA Pruned ==
    ASSUME NEW g \in Guards, active \in Seq(Guards), IsInjective(active), Prune(g)
    PROVE  /\ active' \in Seq(Guards) /\ IsInjective(active')
           /\ ToSet(active') = ToSet(active) \ {g}
           /\ \A j \in 1 .. Len(active') :
                 \E k \in 1 .. Len(active) : j <= k /\ active'[j] = active[k]
<1>1. CASE g \notin ToSet(active) /\ UNCHANGED active
  BY <1>1, LenProperties
<1>2. ASSUME NEW i \in 1 .. Len(active), active[i] = g, active' = RemoveAt(active, i)
      PROVE  /\ active' \in Seq(Guards) /\ IsInjective(active')
             /\ ToSet(active') = ToSet(active) \ {g}
             /\ \A j \in 1 .. Len(active') :
                   \E k \in 1 .. Len(active) : j <= k /\ active'[j] = active[k]
  <2>1. /\ active' \in Seq(Guards) /\ Len(active') = Len(active) - 1
        /\ IsInjective(active') /\ ToSet(active') = ToSet(active) \ {g}
        /\ \A j \in 1 .. Len(active) - 1 :
              active'[j] = IF j < i THEN active[j] ELSE active[j + 1]
    BY <1>2, TakenOut
  <2>2. Len(active) \in Nat
    BY LenProperties
  <2>3. ASSUME NEW j \in 1 .. Len(active')
        PROVE  \E k \in 1 .. Len(active) : j <= k /\ active'[j] = active[k]
    <3>1. j \in 1 .. Len(active) /\ j + 1 \in 1 .. Len(active) /\ j \in 1 .. Len(active) - 1
      BY <2>1, <2>2
    <3>2. CASE j < i
      <4>1. active'[j] = active[j]
        BY <2>1, <3>1, <3>2
      <4> QED BY <3>1, <4>1
    <3>3. CASE ~(j < i)
      <4>1. active'[j] = active[j + 1]
        BY <2>1, <3>1, <3>3
      <4>2. j <= j + 1
        BY <2>2, <3>1
      <4> QED BY <3>1, <4>1, <4>2
    <3> QED BY <3>2, <3>3
  <2> QED BY <2>1, <2>3
<1> QED BY <1>1, <1>2 DEF Prune

\* A rescue keeps to the cap.
LEMMA OrphansStep ==
    ASSUME NEW g \in Guards, orphans \subseteq Guards, Cardinality(orphans) <= MaxOrphans, Rescue(g)
    PROVE  orphans' \subseteq Guards /\ Cardinality(orphans') <= MaxOrphans
<1>0. IsFiniteSet(orphans) /\ Cardinality(orphans) \in Nat /\ MaxOrphans \in Nat
  BY LifecycleAssumption, FS_Subset, FS_CardinalityType
<1>1. CASE UNCHANGED orphans
  BY <1>1
<1>2. CASE orphans' = orphans \cup {g} /\ Cardinality(orphans) < MaxOrphans
  <2>1. Cardinality(orphans') = IF g \in orphans THEN Cardinality(orphans) ELSE Cardinality(orphans) + 1
    BY <1>0, <1>2, FS_AddElement
  <2> QED BY <1>0, <1>2, <2>1
<1> QED BY <1>1, <1>2 DEF Rescue

LEMMA RegistryStep ==
    ASSUME TypeInv, Next
    PROVE  RegistryOK' /\ Shape'
<1> DEFINE Goal == RegistryOK' /\ Shape'
<1>0. /\ active \in Seq(Guards) /\ IsInjective(active) /\ Len(active) \in Nat
      /\ orphans \subseteq Guards /\ Cardinality(orphans) <= MaxOrphans
      /\ Cardinality(Guards) \in Nat /\ Len(active) <= Cardinality(Guards)
      /\ life \in [Guards -> Lives] /\ ToSet(active) \subseteq Guards
      /\ NoGuard \notin Guards
  BY Fits, GuardsTyped, NonEmpty, LifecycleAssumption DEF TypeInv, TypeOK, RegistryOK
<1>s. /\ sweep.by \in Guards \cup {NoGuard} /\ sweep.next \in 1 .. Cardinality(Guards) + 1
      /\ sweep.kept \in Seq(Guards) /\ ToSet(sweep.kept) \subseteq Guards
      /\ sweep = [by |-> sweep.by, next |-> sweep.next, kept |-> sweep.kept]
      /\ IsInjective(sweep.kept)
  <2>1. sweep \in [by : Guards \cup {NoGuard}, next : 1 .. Cardinality(Guards) + 1, kept : Seq(Guards)]
    BY DEF TypeInv, TypeOK, RegistryOK
  <2>2. sweep.kept \in Seq(Guards)
    BY <2>1
  <2> QED BY <2>1, <2>2, NonEmpty DEF TypeInv, Shape
<1>1. ASSUME UNCHANGED <<active, sweep, life>>,
             orphans' \subseteq Guards, Cardinality(orphans') <= MaxOrphans
      PROVE  Goal
  <2>1. RegistryOK'
    BY <1>1 DEF TypeInv, TypeOK, RegistryOK
  <2>2. Shape'
    BY <1>1 DEF TypeInv, Shape, LockedRegistry
  <2> QED BY <2>1, <2>2
<1>2. ASSUME NEW g \in Guards, Create(g) PROVE Goal
  <2>1. /\ sweep = NoSweep /\ g \notin ToSet(active) /\ active' = Append(active, g)
        /\ UNCHANGED <<orphans, sweep>> /\ life[g] = "unborn" /\ life' = Set(life, g, "live")
    BY <1>2 DEF Create, TypeInv, Shape, registry
  <2>2. /\ active' \in Seq(Guards) /\ IsInjective(active') /\ ToSet(active') = ToSet(active) \cup {g}
    BY <1>0, <2>1, Appended
  <2>3. \A h \in ToSet(active') : life'[h] # "unborn"
    BY <1>0, <2>1, <2>2 DEF TypeInv, Shape, Set
  <2>4. ToSet(sweep.kept) = {}
    BY <2>1 DEF NoSweep, ToSet
  <2>5. RegistryOK'
    BY <2>1, <2>2 DEF TypeInv, TypeOK, RegistryOK
  <2>6. Shape'
    BY <1>s, <2>1, <2>3, <2>4 DEF Shape, NoSweep
  <2> QED BY <2>5, <2>6
<1>3. ASSUME NEW g \in Guards, Collect(g) PROVE Goal
  <2>1. UNCHANGED sweep /\ life' = Set(life, g, "gone")
    BY <1>3 DEF Collect
  <2>2. /\ orphans' \subseteq Guards /\ Cardinality(orphans') <= MaxOrphans
        /\ active' \in Seq(Guards) /\ IsInjective(active') /\ ToSet(active') \subseteq ToSet(active)
        /\ \A j \in 1 .. Len(active') :
              \E k \in 1 .. Len(active) : j <= k /\ active'[j] = active[k]
    <3>1. CASE Referenced(g)
      BY <1>0, <1>3, <3>1, Pruned, OrphansStep DEF Collect
    <3>2. CASE ~Referenced(g)
      BY <1>0, <1>3, <3>2 DEF Collect
    <3> QED BY <3>1, <3>2
  <2>3. RegistryOK'
    BY <2>1, <2>2 DEF TypeInv, TypeOK, RegistryOK
  <2>4. \A h \in ToSet(active') \cup ToSet(sweep.kept) : life'[h] # "unborn"
    BY <1>0, <1>s, <2>1, <2>2 DEF TypeInv, Shape, Set
  <2>5. ASSUME NEW j \in 1 .. Len(active'), j >= sweep.next
        PROVE  active'[j] \notin ToSet(sweep.kept)
    <3> PICK k \in 1 .. Len(active) : j <= k /\ active'[j] = active[k]
      BY <2>2
    <3>0. Len(active') \in Nat
      BY <2>2, LenProperties
    <3>1. k >= sweep.next
      BY <1>0, <1>s, <2>5, <3>0
    <3> QED BY <3>1 DEF TypeInv, Shape
  <2>6. (LockedRegistry \/ sweep = NoSweep) /\ LockedRegistry' = LockedRegistry
    BY <2>1 DEF TypeInv, Shape, LockedRegistry
  <2>7. Shape'
    BY <1>s, <2>1, <2>4, <2>5, <2>6 DEF Shape, NoSweep
  <2> QED BY <2>3, <2>7
<1>4. ASSUME NEW g \in Guards, SweepBegins(g) PROVE Goal
  <2>1. UNCHANGED <<active, orphans, life>> /\ sweep' = [by |-> g, next |-> 1, kept |-> <<>>]
    BY <1>4 DEF SweepBegins, NoSweep
  <2>2. ToSet(sweep'.kept) = {} /\ IsInjective(sweep'.kept) /\ sweep'.kept \in Seq(Guards)
    BY <2>1, Empty
  <2>3. RegistryOK'
    BY <1>0, <2>1, <2>2 DEF TypeInv, TypeOK, RegistryOK
  <2>4. Shape'
    BY <1>0, <2>1, <2>2 DEF TypeInv, Shape, LockedRegistry
  <2> QED BY <2>3, <2>4
<1>5. ASSUME SweepStep PROVE Goal
  <2> DEFINE n == sweep.next
             h == active[n]
             k == IF Keep(h) THEN Append(sweep.kept, h) ELSE sweep.kept
  <2>1. /\ UNCHANGED <<active, orphans, life>> /\ n <= Len(active) /\ LockedRegistry
        /\ sweep' = [by |-> sweep.by, next |-> n + 1, kept |-> k]
    BY <1>s, <1>5 DEF SweepStep, guards
  <2>2. n \in 1 .. Len(active) /\ h \in Guards /\ h \notin ToSet(sweep.kept)
    BY <1>0, <1>s, <2>1, ElementOfSeq DEF TypeInv, Shape
  <2>3. /\ k \in Seq(Guards) /\ IsInjective(k) /\ ToSet(k) \subseteq ToSet(sweep.kept) \cup {h}
        /\ Keep(h) \/ ToSet(k) = ToSet(sweep.kept)
    BY <1>s, <2>2, Appended
  <2>4. \A i \in 1 .. Len(active) : i >= n + 1 => active[i] # h /\ active[i] \notin ToSet(sweep.kept)
    <3> SUFFICES ASSUME NEW i \in 1 .. Len(active), i >= n + 1
                 PROVE  active[i] # h /\ active[i] \notin ToSet(sweep.kept)
      OBVIOUS
    <3>1. i >= n /\ i # n /\ DOMAIN active = 1 .. Len(active)
      BY <1>0, <1>s, LenProperties
    <3> QED BY <1>0, <2>2, <3>1 DEF TypeInv, Shape, IsInjective
  <2> HIDE DEF k
  <2>5. RegistryOK'
    <3>1. n + 1 \in 1 .. Cardinality(Guards) + 1
      BY <1>0, <1>s, <2>1
    <3> QED BY <1>0, <1>s, <2>1, <2>3, <3>1 DEF TypeInv, TypeOK, RegistryOK
  <2>6. \A x \in ToSet(active) \cup ToSet(k) : life[x] # "unborn"
    <3>1. Keep(h) => life[h] # "unborn"
      BY DEF Keep
    <3> QED BY <2>3, <3>1 DEF TypeInv, Shape
  <2>7. LockedRegistry'
    BY <2>1 DEF LockedRegistry
  <2>8. Shape'
    BY <2>1, <2>3, <2>4, <2>6, <2>7 DEF Shape
  <2> QED BY <2>5, <2>8
<1>6. ASSUME SweepEnds PROVE Goal
  <2>1. /\ UNCHANGED life /\ active' = sweep.kept /\ orphans' = orphans \ {sweep.by}
        /\ sweep' = NoSweep
    BY <1>6 DEF SweepEnds
  <2>2. Cardinality(orphans') <= MaxOrphans
    <3>1. IsFiniteSet(orphans) /\ orphans' \in SUBSET orphans /\ MaxOrphans \in Nat
      BY <1>0, <2>1, FS_Subset, LifecycleAssumption
    <3>2. /\ Cardinality(orphans') <= Cardinality(orphans)
          /\ Cardinality(orphans) \in Nat /\ Cardinality(orphans') \in Nat
      BY <3>1, FS_Subset, FS_CardinalityType
    <3> QED BY <1>0, <3>1, <3>2
  <2>3. sweep'.kept = <<>> /\ sweep' = [by |-> NoGuard, next |-> 1, kept |-> <<>>]
    BY <2>1 DEF NoSweep
  <2>4. ToSet(sweep'.kept) = {} /\ IsInjective(sweep'.kept) /\ sweep'.kept \in Seq(Guards)
    BY <2>3, Empty
  <2>5. RegistryOK'
    BY <1>0, <1>s, <2>1, <2>2, <2>3, <2>4 DEF TypeInv, TypeOK, RegistryOK
  <2>6. Shape'
    BY <2>1, <2>3, <2>4 DEF TypeInv, Shape, NoSweep
  <2> QED BY <2>5, <2>6
<1>7. ASSUME Exit PROVE Goal
  <2>1. Cardinality({}) = 0 /\ MaxOrphans \in Nat
    BY FS_EmptySet, LifecycleAssumption
  <2>2. UNCHANGED <<active, sweep, life>> /\ orphans' = {}
    BY <1>7 DEF Exit
  <2> HIDE DEF Goal
  <2> QED BY <1>1, <2>1, <2>2
<1>8. ASSUME Exited PROVE Goal
  BY <1>0, <1>1, <1>8 DEF Exited, guards, registry
<1>9. ASSUME NEW g \in Guards, Steps(g) PROVE Goal
  BY <1>0, <1>1, <1>2, <1>3, <1>4, <1>9, RegistryAlone
<1> HIDE DEF Goal
<1>10. Goal
  BY <1>5, <1>6, <1>7, <1>8, <1>9, Actions
<1> QED BY <1>10 DEF Goal

LEMMA ProcessStep ==
    ASSUME TypeOK, Next
    PROVE  ProcessOK'
<1> DEFINE Phases == {"running", "exiting", "stuck", "exited"}
           Events == retired \cup late \cup overlooked \cup ghosts \cup dropped \cup unseen \cup torn \cup failed
<1>0. /\ phase \in Phases /\ todo \subseteq Guards /\ Events \subseteq Guards
      /\ disturbed \in BOOLEAN /\ orphans \subseteq Guards /\ ToSet(active) \subseteq Guards
      /\ "exiting" \in Phases /\ "stuck" \in Phases /\ "exited" \in Phases
  BY NonEmpty DEF TypeOK, ProcessOK, RegistryOK
<1> DEFINE Goal == phase' \in Phases /\ todo' \subseteq Guards /\ Events' \subseteq Guards
<1>1. ASSUME NEW g \in Guards, Steps(g) PROVE Goal
  <2>1. CASE Create(g)
    BY <1>0, <2>1 DEF Create, process, history
  <2>2. CASE Start(g)
    BY <1>0, <2>2 DEF Start, process, history
  <2>3. CASE Report(g)
    BY <1>0, <2>3 DEF Report, process, history
  <2>4. CASE FlushBegins(g)
    BY <1>0, <2>4 DEF FlushBegins, process, history
  <2>5. CASE FlushEnds(g)
    BY <1>0, <2>5 DEF FlushEnds, process, history
  <2>6. CASE Collect(g)
    BY <1>0, <2>6 DEF Collect, process, history, Rescue
  <2>7. CASE StopBegins(g)
    BY <1>0, <2>7 DEF StopBegins, process, history
  <2>8. CASE StopPosts(g)
    BY <1>0, <2>8 DEF StopPosts, process, history
  <2>9. CASE StopPosted(g)
    BY <1>0, <2>9 DEF StopPosted, process, history
  <2>10. CASE StopDrains(g)
    BY <1>0, <2>10 DEF StopDrains, process, history
  <2>11. CASE ShutdownRaises(g)
    BY <1>0, <2>11 DEF ShutdownRaises, process, history
  <2>12. CASE SweepBegins(g)
    BY <1>0, <2>12 DEF SweepBegins, process, history
  <2>13. CASE Freeze(g)
    BY <1>0, <2>13 DEF Freeze, process, history
  <2>14. CASE Drain(g)
    BY <1>0, <2>14 DEF Drain, process, history
  <2>15. CASE DrainBlocks(g)
    BY <1>0, <2>15 DEF DrainBlocks, process, history
  <2>16. CASE CallEnds(g)
    BY <1>0, <2>16 DEF CallEnds, process, history
  <2>17. CASE FlushCrashes(g)
    BY <1>0, <2>17 DEF FlushCrashes, process, history
  <2>18. CASE StopRaises(g)
    BY <1>0, <2>18 DEF StopRaises, process, history
  <2>19. CASE DrainFails(g)
    BY <1>0, <2>19 DEF DrainFails, process, history
  <2> QED BY <1>1, <2>1, <2>2, <2>3, <2>4, <2>5, <2>6, <2>7, <2>8, <2>9, <2>10,
             <2>11, <2>12, <2>13, <2>14, <2>15, <2>16, <2>17, <2>18, <2>19 DEF Steps, Use, ShutdownSteps
<1>2. ASSUME SweepStep PROVE Goal
  BY <1>0, <1>2 DEF SweepStep, process, history
<1>3. ASSUME SweepEnds PROVE Goal
  BY <1>0, <1>3 DEF SweepEnds, process
<1>4. ASSUME Exit PROVE Goal
  BY <1>0, <1>4 DEF Exit, Known, history
<1>5. ASSUME Exited PROVE Goal
  BY <1>0, <1>5 DEF Exited, history
<1> HIDE DEF Goal
<1>6. Goal
  BY <1>1, <1>2, <1>3, <1>4, <1>5, Actions
<1>7. disturbed' \in BOOLEAN
  <2> USE DEF history
  <2>1. ASSUME NEW g \in Guards, Steps(g), ~Collect(g) PROVE UNCHANGED disturbed
    <3>1. CASE Create(g)
      BY <3>1 DEF Create
    <3>2. CASE Start(g)
      BY <3>2 DEF Start
    <3>3. CASE Report(g)
      BY <3>3 DEF Report
    <3>4. CASE FlushBegins(g)
      BY <3>4 DEF FlushBegins
    <3>5. CASE FlushEnds(g)
      BY <3>5 DEF FlushEnds
    <3>6. CASE StopBegins(g)
      BY <3>6 DEF StopBegins
    <3>7. CASE StopPosts(g)
      BY <3>7 DEF StopPosts
    <3>8. CASE StopPosted(g)
      BY <3>8 DEF StopPosted
    <3>9. CASE StopDrains(g)
      BY <3>9 DEF StopDrains
    <3>10. CASE ShutdownRaises(g)
      BY <3>10 DEF ShutdownRaises
    <3>11. CASE SweepBegins(g)
      BY <3>11 DEF SweepBegins
    <3>12. CASE Freeze(g)
      BY <3>12 DEF Freeze
    <3>13. CASE Drain(g)
      BY <3>13 DEF Drain
    <3>14. CASE DrainBlocks(g)
      BY <3>14 DEF DrainBlocks
    <3>15. CASE CallEnds(g)
      BY <3>15 DEF CallEnds
    <3>16. CASE FlushCrashes(g)
      BY <3>16 DEF FlushCrashes
    <3>17. CASE StopRaises(g)
      BY <3>17 DEF StopRaises
    <3>18. CASE DrainFails(g)
      BY <3>18 DEF DrainFails
    <3> QED BY <2>1, <3>1, <3>2, <3>3, <3>4, <3>5, <3>6, <3>7, <3>8, <3>9, <3>10,
               <3>11, <3>12, <3>13, <3>14, <3>15, <3>16, <3>17, <3>18 DEF Steps, Use, ShutdownSteps
  <2>2. ASSUME NEW g \in Guards, Collect(g) PROVE disturbed' \in BOOLEAN
    BY <2>2, Zenon DEF Collect
  <2>3. CASE SweepEnds
    BY <2>3, Zenon DEF SweepEnds
  <2>4. CASE SweepStep \/ Exit \/ Exited
    BY <1>0, <2>4 DEF SweepStep, Exit, Exited
  <2> QED BY <1>0, <2>1, <2>2, <2>3, <2>4, Actions
<1> QED BY <1>6, <1>7 DEF Goal, ProcessOK

-----------------------------------------------------------------------------
LEMMA TypeInit == Init => TypeInv
<1> SUFFICES ASSUME Init PROVE TypeInv
  OBVIOUS
<1> USE LifecycleAssumption DEF Init
<1>1. GuardsOK
  <2>1. life \in [Guards -> Lives] /\ stage \in [Guards -> Stages]
    BY DEF Lives, Stages
  <2>2. ready \in [Guards -> BOOLEAN] /\ looped \in [Guards -> BOOLEAN]
    BY Zenon
  <2> QED BY <2>1, <2>2, GuardsTyped
<1>2. ReportersOK
  <2>1. flusher \in [Guards -> Flushers] /\ lock \in [Guards -> Locks]
    BY DEF Flushers, Locks
  <2>2. pending \in [Guards -> BOOLEAN]
    BY Zenon
  <2> QED BY <2>1, <2>2, ReportersTyped
<1>3. active \in Seq(Guards) /\ IsInjective(active) /\ ToSet(active) = {} /\ Len(active) = 0
  BY Empty
<1>4. Cardinality({}) = 0 /\ Cardinality(Guards) \in Nat
  BY FS_EmptySet, FS_CardinalityType
<1>5. RegistryOK
  BY <1>3, <1>4 DEF RegistryOK, NoSweep
<1>6. ProcessOK
  BY DEF ProcessOK
<1>7. Shape
  BY <1>3 DEF Shape, NoSweep
<1> QED BY <1>1, <1>2, <1>5, <1>6, <1>7 DEF TypeInv, TypeOK

LEMMA TypeStep == TypeInv /\ [Next]_vars => TypeInv'
<1> SUFFICES ASSUME TypeInv, [Next]_vars PROVE TypeInv'
  OBVIOUS
<1>1. CASE Next
  BY <1>1, GuardsStep, ReportersStep, RegistryStep, ProcessStep DEF TypeInv, TypeOK
<1>2. CASE UNCHANGED vars
  <2> USE <1>2 DEF vars, guards, reporter, registry, process, history
  <2>1. GuardsOK'
    BY Zenon DEF TypeInv, TypeOK, GuardsOK
  <2>2. ReportersOK'
    BY Zenon DEF TypeInv, TypeOK, ReportersOK
  <2>3. RegistryOK' /\ Shape'
    BY DEF TypeInv, TypeOK, RegistryOK, Shape, LockedRegistry
  <2>4. ProcessOK'
    BY Zenon DEF TypeInv, TypeOK, ProcessOK
  <2> QED BY <2>1, <2>2, <2>3, <2>4 DEF TypeInv, TypeOK
<1> QED BY <1>1, <1>2

LEMMA TypeAlways == Spec => []TypeInv
BY TypeInit, TypeStep, PTL DEF Spec

\* The registry names each guard at most once, the orphans keep to their limit, and the
\* index of a sweep keeps to the list, for any number of guards (guard.py:319).
THEOREM TypeCorrect == Spec => []TypeOK
BY TypeAlways, PTL DEF TypeInv

-----------------------------------------------------------------------------
\* Every live guard that was not shut down is in the list, or was skipped; ...
Listed(g) == life[g] = "live" /\ g \notin retired => g \in ToSet(active) \cup overlooked
\* ... an undisturbed sweep has kept every guard it should have, as far as it has come; ...
Swept ==
    LockedRegistry /\ ~disturbed =>
        \A i \in 1 .. Len(active) :
            i < sweep.next /\ Keep(active[i]) => active[i] \in ToSet(sweep.kept)
\* ... and it is the sweep of a guard whose shutdown() waits for it.
Sweeper == LockedRegistry => stage[sweep.by] = "sweeping"
RegistryInv ==
    /\ \A g \in Guards : Listed(g) /\ (stage[g] # "none" => g \in retired)
    /\ \A g \in ToSet(active) \cup ToSet(sweep.kept) : life[g] = "live" \/ g \in ghosts
    /\ Swept /\ Sweeper

LEMMA RegistryInit == Init => RegistryInv
<1> SUFFICES ASSUME Init PROVE RegistryInv
  OBVIOUS
<1>1. ToSet(active) = {} /\ ToSet(sweep.kept) = {} /\ ~LockedRegistry
  BY Empty DEF Init, NoSweep, LockedRegistry
<1> QED BY <1>1 DEF Init, RegistryInv, Listed, Swept, Sweeper

\* Steps that change nothing the invariant is about, or only that a shutdown() has begun, ...
LEMMA RegistryQuiet ==
    ASSUME RegistryInv, retired \subseteq retired',
           UNCHANGED <<life, stage, active, sweep, overlooked, ghosts, disturbed>>
    PROVE  RegistryInv'
BY DEF RegistryInv, Listed, Swept, Sweeper, Keep, LockedRegistry

\* ... and the steps of a shutdown() that has begun and does not sweep.
LEMMA RegistryStages ==
    ASSUME TypeInv, RegistryInv, NEW g \in Guards, NEW x, stage' = Set(stage, g, x),
           stage[g] \notin {"none", "sweeping"},
           UNCHANGED <<life, active, sweep, retired, overlooked, ghosts, disturbed>>
    PROVE  RegistryInv'
<1>0. stage \in [Guards -> Stages] /\ sweep.by \in Guards \cup {NoGuard}
  BY GuardsTyped DEF TypeInv, TypeOK, RegistryOK
<1>1. \A h \in Guards : stage'[h] = IF h = g THEN x ELSE stage[h]
  BY <1>0 DEF Set
<1>2. Sweeper'
  BY <1>0, <1>1 DEF RegistryInv, Sweeper, LockedRegistry
<1>3. Swept'
  BY DEF RegistryInv, Swept, Keep, LockedRegistry
<1> QED BY <1>1, <1>2, <1>3 DEF RegistryInv, Listed

LEMMA RegistryCreate ==
    ASSUME TypeInv, RegistryInv, NEW g \in Guards, Create(g)
    PROVE  RegistryInv'
<1>0. life \in [Guards -> Lives] /\ active \in Seq(Guards) /\ ToSet(active) \subseteq Guards
  BY GuardsTyped, NonEmpty DEF TypeInv, TypeOK, RegistryOK
<1>1. /\ ToSet(active') = ToSet(active) \cup {g} /\ life' = Set(life, g, "live") /\ ~LockedRegistry
      /\ UNCHANGED <<stage, sweep, retired, overlooked, ghosts, disturbed>>
  BY <1>0, Appended DEF Create, history
<1>2. ~LockedRegistry' /\ sweep = NoSweep /\ ToSet(sweep.kept) = {}
  BY <1>1, Empty DEF LockedRegistry, TypeInv, Shape, NoSweep
<1>3. \A h \in Guards : life'[h] = IF h = g THEN "live" ELSE life[h]
  BY <1>0, <1>1 DEF Set
<1> QED BY <1>0, <1>1, <1>2, <1>3 DEF RegistryInv, Listed, Swept, Sweeper

LEMMA RegistryCollect ==
    ASSUME TypeInv, RegistryInv, NEW g \in Guards, Collect(g)
    PROVE  RegistryInv'
<1>0. /\ life \in [Guards -> Lives] /\ active \in Seq(Guards) /\ IsInjective(active)
      /\ ToSet(active) \subseteq Guards /\ ToSet(sweep.kept) \subseteq Guards
      /\ sweep.by \in Guards \cup {NoGuard}
  <2>1. sweep.kept \in Seq(Guards) /\ sweep.by \in Guards \cup {NoGuard}
    BY DEF TypeInv, TypeOK, RegistryOK
  <2> QED BY <2>1, GuardsTyped, NonEmpty DEF TypeInv, TypeOK, RegistryOK
<1>1. /\ ToSet(active') = ToSet(active) \ {g}
      /\ UNCHANGED <<stage, sweep, retired, overlooked>>
      /\ ghosts' = IF g \in ToSet(sweep.kept) THEN ghosts \cup {g} ELSE ghosts
      /\ \A h \in Guards : life'[h] = IF h = g THEN "gone" ELSE life[h]
  <2>1. CASE Referenced(g)
    BY <1>0, <2>1, Pruned DEF Collect, Set
  <2>2. CASE ~Referenced(g)
    BY <1>0, <2>2 DEF Collect, Referenced, Set
  <2> QED BY <2>1, <2>2
<1>2. Sweeper' /\ LockedRegistry' = LockedRegistry
  BY <1>1 DEF RegistryInv, Sweeper, LockedRegistry
<1>3. Swept'
  <2>1. disturbed' <=> disturbed \/ LockedRegistry
    BY DEF Collect
  <2> QED BY <1>2, <2>1 DEF Swept
<1>4. \A h \in Guards : Listed(h)' /\ (stage'[h] # "none" => h \in retired')
  BY <1>1 DEF RegistryInv, Listed
<1>5. \A h \in ToSet(active') \cup ToSet(sweep'.kept) : life'[h] = "live" \/ h \in ghosts'
  BY <1>0, <1>1 DEF RegistryInv
<1> QED BY <1>2, <1>3, <1>4, <1>5 DEF RegistryInv

LEMMA RegistryStop ==
    ASSUME TypeInv, RegistryInv, NEW g \in Guards, StopBegins(g)
    PROVE  RegistryInv'
<1>0. stage \in [Guards -> Stages] /\ sweep.by \in Guards \cup {NoGuard}
  BY GuardsTyped DEF TypeInv, TypeOK, RegistryOK
<1>1. /\ \A h \in Guards : stage'[h] = IF h = g THEN "stopping" ELSE stage[h]
      /\ stage[g] = "none" /\ retired' = retired \cup {g}
      /\ UNCHANGED <<life, active, sweep, overlooked, ghosts, disturbed>>
  BY <1>0 DEF StopBegins, guards, registry, Set
<1>2. Sweeper'
  BY <1>0, <1>1 DEF RegistryInv, Sweeper, LockedRegistry
<1>3. Swept'
  BY <1>1 DEF RegistryInv, Swept, Keep, LockedRegistry
<1> QED BY <1>1, <1>2, <1>3 DEF RegistryInv, Listed

LEMMA RegistrySweepBegins ==
    ASSUME TypeInv, RegistryInv, NEW g \in Guards, SweepBegins(g)
    PROVE  RegistryInv'
<1>0. stage \in [Guards -> Stages] /\ NoGuard \notin Guards /\ Len(active) \in Nat
  BY GuardsTyped, LifecycleAssumption, LenProperties DEF TypeInv, TypeOK, RegistryOK
<1>1. /\ sweep' = [by |-> g, next |-> 1, kept |-> <<>>]
      /\ \A h \in Guards : stage'[h] = IF h = g THEN "sweeping" ELSE stage[h]
      /\ stage[g] = "drained"
      /\ UNCHANGED <<life, active, retired, overlooked, ghosts, disturbed>>
  BY <1>0 DEF SweepBegins, NoSweep, history, Set
<1>2. ToSet(sweep'.kept) = {} /\ sweep'.next = 1 /\ sweep'.by = g
  BY <1>1, Empty
<1>3. Sweeper' /\ Swept'
  BY <1>0, <1>1, <1>2 DEF Sweeper, Swept
<1> QED BY <1>1, <1>2, <1>3 DEF RegistryInv, Listed

LEMMA RegistrySweepStep ==
    ASSUME TypeInv, RegistryInv, SweepStep
    PROVE  RegistryInv'
<1> DEFINE n == sweep.next
           h == active[n]
           k == IF Keep(h) THEN Append(sweep.kept, h) ELSE sweep.kept
<1>0. /\ active \in Seq(Guards) /\ Len(active) \in Nat /\ Cardinality(Guards) \in Nat
      /\ n \in 1 .. Cardinality(Guards) + 1 /\ sweep.kept \in Seq(Guards)
      /\ sweep = [by |-> sweep.by, next |-> n, kept |-> sweep.kept]
  <2>1. sweep \in [by : Guards \cup {NoGuard}, next : 1 .. Cardinality(Guards) + 1, kept : Seq(Guards)]
    BY DEF TypeInv, TypeOK, RegistryOK
  <2> QED BY <2>1, LenProperties, FS_CardinalityType, LifecycleAssumption DEF TypeInv, TypeOK, RegistryOK
<1>1. /\ UNCHANGED <<life, stage, active, retired, overlooked, ghosts, disturbed>>
      /\ n <= Len(active) /\ sweep' = [by |-> sweep.by, next |-> n + 1, kept |-> k]
  BY <1>0 DEF SweepStep, guards, history
<1>2. h \in Guards
  BY <1>0, <1>1, ElementOfSeq
<1>3. /\ Keep(h) => ToSet(k) = ToSet(sweep.kept) \cup {h}
      /\ ~Keep(h) => ToSet(k) = ToSet(sweep.kept)
  <2>1. ToSet(Append(sweep.kept, h)) = ToSet(sweep.kept) \cup {h}
    BY <1>0, <1>2, Appended
  <2> QED BY <2>1
<1> HIDE DEF k
<1>4. sweep'.by = sweep.by /\ sweep'.next = n + 1 /\ sweep'.kept = k
  BY <1>1
<1>5. Sweeper' /\ LockedRegistry' = LockedRegistry
  BY <1>1, <1>4 DEF RegistryInv, Sweeper, LockedRegistry
<1>6. Swept'
  <2> SUFFICES ASSUME LockedRegistry, ~disturbed, NEW i \in 1 .. Len(active), i < n + 1, Keep(active[i])
               PROVE  active[i] \in ToSet(k)
    BY <1>1, <1>4, <1>5 DEF Swept, Keep
  <2>1. CASE i = n
    BY <1>3, <2>1
  <2>2. CASE i # n
    <3>1. i < n
      BY <1>0, <2>2
    <3> QED BY <1>3, <3>1 DEF RegistryInv, Swept
  <2> QED BY <2>1, <2>2
<1>7. \A x \in ToSet(active) \cup ToSet(k) : life[x] = "live" \/ x \in ghosts
  BY <1>3 DEF RegistryInv, Keep
<1> QED BY <1>1, <1>4, <1>5, <1>6, <1>7 DEF RegistryInv, Listed

\* At its end the sweep has seen the whole list.
LEMMA SweepComplete ==
    ASSUME TypeInv, RegistryInv, SweepEnds
    PROVE  /\ sweep.by \in Guards /\ sweep.by \in retired /\ stage[sweep.by] = "sweeping"
           /\ \A h \in ToSet(active) :
                 life[h] = "live" /\ h # sweep.by => h \in ToSet(active') \cup overlooked'
           /\ overlooked \subseteq overlooked'
<1>0. /\ active \in Seq(Guards) /\ Len(active) \in Nat /\ Cardinality(Guards) \in Nat
      /\ sweep.next \in 1 .. Cardinality(Guards) + 1 /\ LockedRegistry
      /\ sweep.by \in Guards
  BY LenProperties, FS_CardinalityType, LifecycleAssumption
     DEF TypeInv, TypeOK, RegistryOK, SweepEnds, LockedRegistry
<1>1. sweep.by \in retired /\ stage[sweep.by] = "sweeping"
  BY <1>0 DEF RegistryInv, Sweeper
<1>2. CASE disturbed
  BY <1>0, <1>1, <1>2 DEF SweepEnds
<1>3. CASE ~disturbed
  <2>1. ASSUME NEW h \in ToSet(active), life[h] = "live", h # sweep.by
        PROVE  h \in ToSet(sweep.kept)
    <3> PICK i \in 1 .. Len(active) : h = active[i]
      BY <1>0, LenProperties DEF ToSet
    <3>1. i < sweep.next
      BY <1>0 DEF SweepEnds
    <3> QED BY <1>0, <1>3, <2>1, <3>1 DEF RegistryInv, Swept, Keep
  <2> QED BY <1>0, <1>1, <1>3, <2>1 DEF SweepEnds
<1> QED BY <1>2, <1>3

LEMMA RegistrySweepEnds ==
    ASSUME TypeInv, RegistryInv, SweepEnds
    PROVE  RegistryInv'
<1>0. stage \in [Guards -> Stages] /\ sweep.by \in Guards
  BY GuardsTyped, SweepComplete DEF TypeInv, TypeOK
<1>1. /\ active' = sweep.kept /\ sweep' = NoSweep
      /\ \A h \in Guards : stage'[h] = IF h = sweep.by THEN "none" ELSE stage[h]
      /\ UNCHANGED <<life, retired, ghosts>>
  BY <1>0 DEF SweepEnds, Set
<1>2. ~LockedRegistry' /\ ToSet(sweep'.kept) = {}
  BY <1>1, Empty DEF LockedRegistry, NoSweep
<1>3. \A h \in Guards : Listed(h)'
  <2> SUFFICES ASSUME NEW h \in Guards, life[h] = "live", h \notin retired
               PROVE  h \in ToSet(active') \cup overlooked'
    BY <1>1 DEF Listed
  <2> QED BY SweepComplete DEF RegistryInv, Listed
<1> QED BY <1>1, <1>2, <1>3 DEF RegistryInv, Swept, Sweeper

LEMMA RegistryNext == TypeInv /\ RegistryInv /\ [Next]_vars => RegistryInv'
<1> SUFFICES ASSUME TypeInv, RegistryInv, [Next]_vars PROVE RegistryInv'
  OBVIOUS
<1> USE DEF guards, registry, process, history
<1>1. ASSUME NEW g \in Guards, Steps(g) PROVE RegistryInv'
  <2>1. CASE Create(g)
    BY <2>1, RegistryCreate
  <2>2. CASE Start(g)
    BY <2>2, RegistryQuiet DEF Start
  <2>3. CASE Report(g)
    BY <2>3, RegistryQuiet DEF Report
  <2>4. CASE FlushBegins(g)
    BY <2>4, RegistryQuiet DEF FlushBegins
  <2>5. CASE FlushEnds(g)
    BY <2>5, RegistryQuiet DEF FlushEnds
  <2>6. CASE Collect(g)
    BY <2>6, RegistryCollect
  <2>7. CASE StopBegins(g)
    BY <2>7, RegistryStop
  <2>8. CASE StopPosts(g)
    BY <2>8, RegistryStages DEF StopPosts
  <2>9. CASE StopPosted(g)
    BY <2>9, RegistryStages DEF StopPosted
  <2>10. CASE StopDrains(g)
    BY <2>10, RegistryStages DEF StopDrains
  <2>11. CASE ShutdownRaises(g)
    BY <2>11, RegistryStages DEF ShutdownRaises
  <2>12. CASE SweepBegins(g)
    BY <2>12, RegistrySweepBegins
  <2>13. CASE Freeze(g)
    BY <2>13, RegistryStages DEF Freeze
  <2>14. CASE Drain(g)
    BY <2>14, RegistryQuiet DEF Drain
  <2>15. CASE DrainBlocks(g)
    BY <2>15, RegistryQuiet DEF DrainBlocks
  <2>16. CASE CallEnds(g)
    BY <2>16, RegistryQuiet DEF CallEnds
  <2>17. CASE FlushCrashes(g)
    BY <2>17, RegistryQuiet DEF FlushCrashes
  <2>18. CASE StopRaises(g)
    BY <2>18, RegistryQuiet DEF StopRaises
  <2>19. CASE DrainFails(g)
    BY <2>19, RegistryQuiet DEF DrainFails
  <2> QED BY <1>1, <2>1, <2>2, <2>3, <2>4, <2>5, <2>6, <2>7, <2>8, <2>9, <2>10,
             <2>11, <2>12, <2>13, <2>14, <2>15, <2>16, <2>17, <2>18, <2>19 DEF Steps, Use, ShutdownSteps
<1>2. CASE SweepStep
  BY <1>2, RegistrySweepStep
<1>3. CASE SweepEnds
  BY <1>3, RegistrySweepEnds
<1>4. CASE Exit \/ Exited \/ UNCHANGED vars
  BY <1>4, RegistryQuiet DEF Exit, Exited, vars
<1> QED BY <1>1, <1>2, <1>3, <1>4, Actions

LEMMA RegistryAlways == Spec => []RegistryInv
BY RegistryInit, RegistryNext, TypeAlways, PTL DEF Spec

\* The registry has every live guard that was never shut down, unless a collection in the
\* middle of a sweep made the sweep skip it, and names no collected guard but those
\* collected after the sweep had kept them (guard.py:143, 319).
THEOREM RegistryComplete == Spec => []Registered
<1>1. RegistryInv => Registered
  BY DEF RegistryInv, Registered, Listed
<1> QED BY <1>1, RegistryAlways, PTL

-----------------------------------------------------------------------------
\* What is typed, of the variables the invariants below are about.
LEMMA TypesHere ==
    TypeInv => /\ life \in [Guards -> Lives] /\ stage \in [Guards -> Stages]
               /\ ready \in [Guards -> BOOLEAN] /\ looped \in [Guards -> BOOLEAN]
               /\ flusher \in [Guards -> Flushers] /\ lock \in [Guards -> Locks]
               /\ pending \in [Guards -> BOOLEAN]
               /\ active \in Seq(Guards) /\ IsInjective(active) /\ ToSet(active) \subseteq Guards
BY GuardsTyped, ReportersTyped, NonEmpty DEF TypeInv, TypeOK, RegistryOK

\* A step of one guard changes nothing of another, but for the whole process.
Same(h) ==
    /\ mode'[h] = mode[h] /\ life'[h] = life[h] /\ ready'[h] = ready[h] /\ stage'[h] = stage[h]
    /\ looped'[h] = looped[h]
    /\ flusher'[h] = flusher[h] /\ lock'[h] = lock[h] /\ pending'[h] = pending[h]
    /\ h \in orphans' <=> h \in orphans
    /\ h \in ToSet(active') <=> h \in ToSet(active)
    /\ h \in late' <=> h \in late
    /\ h \in dropped' \cup unseen' \cup overlooked' \cup torn' \cup failed'
        <=> h \in dropped \cup unseen \cup overlooked \cup torn \cup failed
    /\ h \in todo' <=> h \in todo

LEMMA Elsewhere ==
    ASSUME TypeInv, NEW g \in Guards, Steps(g), NEW h \in Guards, h # g
    PROVE  Same(h)
<1>0. /\ life \in [Guards -> Lives] /\ stage \in [Guards -> Stages] /\ ready \in [Guards -> BOOLEAN]
      /\ looped \in [Guards -> BOOLEAN]
      /\ flusher \in [Guards -> Flushers] /\ lock \in [Guards -> Locks] /\ pending \in [Guards -> BOOLEAN]
  BY TypesHere
<1>1. \A x : /\ Set(life, g, x)[h] = life[h] /\ Set(stage, g, x)[h] = stage[h]
             /\ Set(flusher, g, x)[h] = flusher[h] /\ Set(lock, g, x)[h] = lock[h]
             /\ Set(ready, g, x)[h] = ready[h] /\ Set(looped, g, x)[h] = looped[h]
             /\ Set(pending, g, x)[h] = pending[h]
  BY <1>0, Zenon DEF Set
<1>a. active \in Seq(Guards) /\ IsInjective(active)
  BY TypesHere
<1> USE DEF guards, reporter, registry, process, history
<1>2. CASE Create(g)
  <2>1. ToSet(active') = ToSet(active) \cup {g}
    BY <1>a, <1>2, Appended DEF Create
  <2> QED BY <1>0, <1>1, <1>2, <2>1, Zenon DEF Create, Same
<1>3. CASE Start(g)
  BY <1>0, <1>1, <1>3, Zenon DEF Start, Same
<1>4. CASE Report(g)
  <2>1. /\ mode'[h] = mode[h] /\ life'[h] = life[h] /\ ready'[h] = ready[h] /\ stage'[h] = stage[h]
        /\ looped'[h] = looped[h] /\ flusher'[h] = flusher[h] /\ lock'[h] = lock[h] /\ pending'[h] = pending[h]
    BY <1>1, <1>4, Zenon DEF Report
  <2>2. /\ h \in orphans' <=> h \in orphans
        /\ h \in ToSet(active') <=> h \in ToSet(active)
        /\ h \in late' <=> h \in late
        /\ h \in dropped' \cup unseen' \cup overlooked' \cup torn' \cup failed'
            <=> h \in dropped \cup unseen \cup overlooked \cup torn \cup failed
        /\ h \in todo' <=> h \in todo
    BY <1>4 DEF Report
  <2> QED BY <2>1, <2>2 DEF Same
<1>5. CASE FlushBegins(g)
  <2>1. /\ mode'[h] = mode[h] /\ life'[h] = life[h] /\ ready'[h] = ready[h] /\ stage'[h] = stage[h]
        /\ looped'[h] = looped[h] /\ flusher'[h] = flusher[h] /\ lock'[h] = lock[h] /\ pending'[h] = pending[h]
    BY <1>1, <1>5, Zenon DEF FlushBegins
  <2>2. /\ h \in orphans' <=> h \in orphans
        /\ h \in ToSet(active') <=> h \in ToSet(active)
        /\ h \in late' <=> h \in late
        /\ h \in dropped' \cup unseen' \cup overlooked' \cup torn' \cup failed'
            <=> h \in dropped \cup unseen \cup overlooked \cup torn \cup failed
        /\ h \in todo' <=> h \in todo
    BY <1>5 DEF FlushBegins
  <2> QED BY <2>1, <2>2 DEF Same
<1>6. CASE FlushEnds(g)
  <2>1. /\ mode'[h] = mode[h] /\ life'[h] = life[h] /\ ready'[h] = ready[h] /\ stage'[h] = stage[h]
        /\ looped'[h] = looped[h] /\ flusher'[h] = flusher[h] /\ lock'[h] = lock[h] /\ pending'[h] = pending[h]
    BY <1>1, <1>6, Zenon DEF FlushEnds
  <2>2. /\ h \in orphans' <=> h \in orphans
        /\ h \in ToSet(active') <=> h \in ToSet(active)
        /\ h \in late' <=> h \in late
        /\ h \in dropped' \cup unseen' \cup overlooked' \cup torn' \cup failed'
            <=> h \in dropped \cup unseen \cup overlooked \cup torn \cup failed
        /\ h \in todo' <=> h \in todo
    BY <1>6 DEF FlushEnds
  <2> QED BY <2>1, <2>2 DEF Same
<1>7. CASE Collect(g)
  <2>1. ToSet(active') = ToSet(active) \/ ToSet(active') = ToSet(active) \ {g}
    BY <1>a, <1>7, Pruned DEF Collect
  <2>2. /\ UNCHANGED <<mode, ready, looped, flusher, lock, pending, stage, late, overlooked, torn, failed, todo>>
        /\ life'[h] = life[h]
    BY <1>0, <1>1, <1>7, Zenon DEF Collect
  <2>3. /\ h \in orphans' <=> h \in orphans
        /\ h \in dropped' \cup unseen' <=> h \in dropped \cup unseen
    BY <1>7 DEF Collect, Rescue
  <2>4. h \in ToSet(active') <=> h \in ToSet(active)
    BY <2>1
  <2> QED BY <2>2, <2>3, <2>4, Zenon DEF Same
<1>8. CASE StopBegins(g)
  BY <1>0, <1>1, <1>8, Zenon DEF StopBegins, Same
<1>9. CASE StopPosts(g)
  <2>1. /\ mode'[h] = mode[h] /\ life'[h] = life[h] /\ ready'[h] = ready[h] /\ stage'[h] = stage[h]
        /\ looped'[h] = looped[h] /\ flusher'[h] = flusher[h] /\ lock'[h] = lock[h] /\ pending'[h] = pending[h]
    BY <1>1, <1>9, Zenon DEF StopPosts
  <2>2. /\ h \in orphans' <=> h \in orphans
        /\ h \in ToSet(active') <=> h \in ToSet(active)
        /\ h \in late' <=> h \in late
        /\ h \in dropped' \cup unseen' \cup overlooked' \cup torn' \cup failed'
            <=> h \in dropped \cup unseen \cup overlooked \cup torn \cup failed
        /\ h \in todo' <=> h \in todo
    BY <1>9 DEF StopPosts
  <2> QED BY <2>1, <2>2 DEF Same
<1>10. CASE StopPosted(g)
  <2>1. /\ mode'[h] = mode[h] /\ life'[h] = life[h] /\ ready'[h] = ready[h] /\ stage'[h] = stage[h]
        /\ looped'[h] = looped[h] /\ flusher'[h] = flusher[h] /\ lock'[h] = lock[h] /\ pending'[h] = pending[h]
    BY <1>1, <1>10, Zenon DEF StopPosted
  <2>2. /\ h \in orphans' <=> h \in orphans
        /\ h \in ToSet(active') <=> h \in ToSet(active)
        /\ h \in late' <=> h \in late
        /\ h \in dropped' \cup unseen' \cup overlooked' \cup torn' \cup failed'
            <=> h \in dropped \cup unseen \cup overlooked \cup torn \cup failed
        /\ h \in todo' <=> h \in todo
    BY <1>10 DEF StopPosted
  <2> QED BY <2>1, <2>2 DEF Same
<1>11. CASE StopDrains(g)
  <2>1. /\ mode'[h] = mode[h] /\ life'[h] = life[h] /\ ready'[h] = ready[h] /\ stage'[h] = stage[h]
        /\ looped'[h] = looped[h] /\ flusher'[h] = flusher[h] /\ lock'[h] = lock[h] /\ pending'[h] = pending[h]
    BY <1>1, <1>11, Zenon DEF StopDrains
  <2>2. /\ h \in orphans' <=> h \in orphans
        /\ h \in ToSet(active') <=> h \in ToSet(active)
        /\ h \in late' <=> h \in late
        /\ h \in dropped' \cup unseen' \cup overlooked' \cup torn' \cup failed'
            <=> h \in dropped \cup unseen \cup overlooked \cup torn \cup failed
        /\ h \in todo' <=> h \in todo
    BY <1>11 DEF StopDrains
  <2> QED BY <2>1, <2>2 DEF Same
<1>12. CASE ShutdownRaises(g)
  BY <1>0, <1>1, <1>12, Zenon DEF ShutdownRaises, Same
<1>13. CASE SweepBegins(g)
  <2>1. /\ mode'[h] = mode[h] /\ life'[h] = life[h] /\ ready'[h] = ready[h] /\ stage'[h] = stage[h]
        /\ looped'[h] = looped[h] /\ flusher'[h] = flusher[h] /\ lock'[h] = lock[h] /\ pending'[h] = pending[h]
    BY <1>1, <1>13, Zenon DEF SweepBegins
  <2>2. /\ h \in orphans' <=> h \in orphans
        /\ h \in ToSet(active') <=> h \in ToSet(active)
        /\ h \in late' <=> h \in late
        /\ h \in dropped' \cup unseen' \cup overlooked' \cup torn' \cup failed'
            <=> h \in dropped \cup unseen \cup overlooked \cup torn \cup failed
        /\ h \in todo' <=> h \in todo
    BY <1>13 DEF SweepBegins
  <2> QED BY <2>1, <2>2 DEF Same
<1>14. CASE Freeze(g)
  BY <1>0, <1>1, <1>14, Zenon DEF Freeze, Same
<1>15. CASE Drain(g)
  <2>1. /\ mode'[h] = mode[h] /\ life'[h] = life[h] /\ ready'[h] = ready[h] /\ stage'[h] = stage[h]
        /\ looped'[h] = looped[h] /\ flusher'[h] = flusher[h] /\ lock'[h] = lock[h] /\ pending'[h] = pending[h]
    BY <1>1, <1>15, Zenon DEF Drain
  <2>2. /\ h \in orphans' <=> h \in orphans
        /\ h \in ToSet(active') <=> h \in ToSet(active)
        /\ h \in late' <=> h \in late
        /\ h \in dropped' \cup unseen' \cup overlooked' \cup torn' \cup failed'
            <=> h \in dropped \cup unseen \cup overlooked \cup torn \cup failed
        /\ h \in todo' <=> h \in todo
    BY <1>15 DEF Drain
  <2> QED BY <2>1, <2>2 DEF Same
<1>16. CASE DrainBlocks(g)
  BY <1>0, <1>1, <1>16, Zenon DEF DrainBlocks, Same
<1>17. CASE CallEnds(g)
  BY <1>0, <1>1, <1>17, Zenon DEF CallEnds, Same
<1>18. CASE FlushCrashes(g)
  BY <1>0, <1>1, <1>18, Zenon DEF FlushCrashes, Same
<1>19. CASE StopRaises(g)
  BY <1>0, <1>1, <1>19, Zenon DEF StopRaises, Same
<1>20. CASE DrainFails(g)
  BY <1>0, <1>1, <1>20, Zenon DEF DrainFails, Same
<1> QED BY <1>2, <1>3, <1>4, <1>5, <1>6, <1>7, <1>8, <1>9, <1>10, <1>11, <1>12,
           <1>13, <1>14, <1>15, <1>16, <1>17, <1>18, <1>19, <1>20 DEF Steps, Use, ShutdownSteps

-----------------------------------------------------------------------------
\* The guard has events: in its buffer, or in a batch that a POST has yet to settle.
Carries(g) == pending[g] \/ flusher[g] = "posting" \/ stage[g] = "posting"
\* One of the exceptions of NothingForgotten.
Excused(g) == g \in late \cup dropped \cup unseen \cup overlooked \cup torn \cup failed
\* The exit hook will find the reporter of the guard.
Reachable(g) == g \in orphans \/ (life[g] = "live" /\ ready[g] /\ g \in ToSet(active))
Owed(g) == Carries(g) => Excused(g) \/ IF Running THEN Reachable(g) ELSE g \in todo

\* What shutdown() has done to the reporter, by its stages.
Settled(g) ==
    /\ g \in orphans => life[g] = "gone"
    /\ stage[g] # "none" => flusher[g] = "none"
    /\ stage[g] \in {"drained", "sweeping"} /\ pending[g] => g \in late
    /\ ~Running => stage[g] \in {"none", "frozen"}
MemoryInv ==
    /\ \A g \in Guards : Settled(g) /\ Owed(g)
    /\ phase = "exited" => todo = {}

LEMMA MemoryInit == Init => MemoryInv
BY DEF Init, MemoryInv, Settled, Owed, Carries, Running

\* What the steps of a guard do not change.
LEMMA RunningAlone ==
    ASSUME NEW g, Steps(g)
    PROVE  /\ Running' <=> Running
           /\ phase' # phase => phase = "exiting" /\ phase' = "stuck" /\ DrainBlocks(g)
<1> USE DEF process, Running
<1>1. CASE Create(g)
  BY <1>1 DEF Create
<1>2. CASE Start(g)
  BY <1>2 DEF Start
<1>3. CASE Report(g)
  BY <1>3 DEF Report
<1>4. CASE FlushBegins(g)
  BY <1>4 DEF FlushBegins
<1>5. CASE FlushEnds(g)
  BY <1>5 DEF FlushEnds
<1>6. CASE Collect(g)
  BY <1>6 DEF Collect
<1>7. CASE StopBegins(g)
  BY <1>7 DEF StopBegins
<1>8. CASE StopPosts(g)
  BY <1>8 DEF StopPosts
<1>9. CASE StopPosted(g)
  BY <1>9 DEF StopPosted
<1>10. CASE StopDrains(g)
  BY <1>10 DEF StopDrains
<1>11. CASE ShutdownRaises(g)
  BY <1>11 DEF ShutdownRaises
<1>12. CASE SweepBegins(g)
  BY <1>12 DEF SweepBegins
<1>13. CASE Freeze(g)
  BY <1>13 DEF Freeze
<1>14. CASE Drain(g)
  BY <1>14 DEF Drain
<1>15. CASE DrainBlocks(g)
  BY <1>15 DEF DrainBlocks
<1>16. CASE CallEnds(g)
  BY <1>16 DEF CallEnds
<1>17. CASE FlushCrashes(g)
  BY <1>17 DEF FlushCrashes
<1>18. CASE StopRaises(g)
  BY <1>18 DEF StopRaises
<1>19. CASE DrainFails(g)
  BY <1>19 DEF DrainFails
<1> QED BY <1>1, <1>2, <1>3, <1>4, <1>5, <1>6, <1>7, <1>8, <1>9, <1>10, <1>11, <1>12,
           <1>13, <1>14, <1>15, <1>16, <1>17, <1>18, <1>19 DEF Steps, Use, ShutdownSteps

LEMMA TodoAlone == ASSUME NEW g, Steps(g), ~Drain(g), ~DrainFails(g) PROVE UNCHANGED <<mode, todo>>
<1> USE DEF guards, process
<1>1. CASE Create(g)
  BY <1>1 DEF Create
<1>2. CASE Start(g)
  BY <1>2 DEF Start
<1>3. CASE Report(g)
  BY <1>3 DEF Report
<1>4. CASE FlushBegins(g)
  BY <1>4 DEF FlushBegins
<1>5. CASE FlushEnds(g)
  BY <1>5 DEF FlushEnds
<1>6. CASE Collect(g)
  BY <1>6 DEF Collect
<1>7. CASE StopBegins(g)
  BY <1>7 DEF StopBegins
<1>8. CASE StopPosts(g)
  BY <1>8 DEF StopPosts
<1>9. CASE StopPosted(g)
  BY <1>9 DEF StopPosted
<1>10. CASE StopDrains(g)
  BY <1>10 DEF StopDrains
<1>11. CASE ShutdownRaises(g)
  BY <1>11 DEF ShutdownRaises
<1>12. CASE SweepBegins(g)
  BY <1>12 DEF SweepBegins
<1>13. CASE Freeze(g)
  BY <1>13 DEF Freeze
<1>14. CASE DrainBlocks(g)
  BY <1>14 DEF DrainBlocks
<1>15. CASE CallEnds(g)
  BY <1>15 DEF CallEnds
<1>16. CASE FlushCrashes(g)
  BY <1>16 DEF FlushCrashes
<1>17. CASE StopRaises(g)
  BY <1>17 DEF StopRaises
<1> QED BY <1>1, <1>2, <1>3, <1>4, <1>5, <1>6, <1>7, <1>8, <1>9, <1>10, <1>11, <1>12,
           <1>13, <1>14, <1>15, <1>16, <1>17 DEF Steps, Use, ShutdownSteps

LEMMA MemoryElsewhere ==
    ASSUME TypeInv, NEW g \in Guards, Steps(g), NEW h \in Guards, h # g, Settled(h), Owed(h)
    PROVE  Settled(h)' /\ Owed(h)'
<1>1. Same(h) /\ (Running' <=> Running)
  <2>1. Same(h)
    BY Elsewhere
  <2>2. Running' <=> Running
    BY RunningAlone, Zenon
  <2> QED BY <2>1, <2>2
<1>2. (Carries(h)' <=> Carries(h)) /\ (Reachable(h)' <=> Reachable(h))
  BY <1>1, Zenon DEF Same, Carries, Reachable
<1>3. Excused(h)' <=> Excused(h)
  BY <1>1 DEF Same, Excused
<1>4. Owed(h)'
  BY <1>1, <1>2, <1>3, Zenon DEF Owed, Same
<1>5. Settled(h)'
  BY <1>1, Zenon DEF Settled, Same
<1> QED BY <1>4, <1>5

\* The guard that moves: no step takes events out of reach unnamed.
LEMMA MemoryHere ==
    ASSUME TypeInv, RegistryInv, NEW g \in Guards, Steps(g), Settled(g), Owed(g)
    PROVE  Settled(g)' /\ Owed(g)'
<1>0. /\ life \in [Guards -> Lives] /\ stage \in [Guards -> Stages] /\ ready \in [Guards -> BOOLEAN]
      /\ flusher \in [Guards -> Flushers] /\ lock \in [Guards -> Locks] /\ pending \in [Guards -> BOOLEAN]
  BY TypesHere
<1>1. \A x : /\ Set(life, g, x)[g] = x /\ Set(stage, g, x)[g] = x
             /\ Set(flusher, g, x)[g] = x /\ Set(lock, g, x)[g] = x
             /\ Set(ready, g, x)[g] = x /\ Set(pending, g, x)[g] = x
  BY <1>0, Zenon DEF Set
<1>a. active \in Seq(Guards) /\ IsInjective(active)
  BY TypesHere
<1> USE DEF guards, reporter, registry, process, history,
            Settled, Owed, Carries, Excused, Reachable, Running
<1>2. CASE Create(g)
  BY <1>1, <1>2 DEF Create
<1>3. CASE Start(g)
  BY <1>1, <1>3 DEF Start
<1>4. CASE Report(g)
  <2>1. /\ life[g] = "live" /\ (ready[g] \/ g \in retired)
        /\ late' = IF g \in retired \/ ~Running THEN late \cup {g} ELSE late
        /\ UNCHANGED <<life, ready, flusher, stage, active, orphans, phase, todo,
                       retired, overlooked, dropped, unseen, torn, failed>>
    BY <1>4 DEF Report
  <2>2. g \in retired \/ g \in ToSet(active) \cup overlooked
    BY <2>1 DEF RegistryInv, Listed
  <2>3. Owed(g)'
    <3>1. CASE g \in retired \/ ~Running
      BY <2>1, <3>1
    <3>2. CASE ~(g \in retired \/ ~Running)
      BY <2>1, <2>2, <3>2
    <3> QED BY <3>1, <3>2
  <2>4. Settled(g)'
    <3>1. stage[g] # "none" => g \in late'
      BY <2>1 DEF RegistryInv
    <3> QED BY <2>1, <3>1
  <2> QED BY <2>3, <2>4
<1>5. CASE FlushBegins(g)
  BY <1>1, <1>5 DEF FlushBegins
<1>6. CASE FlushEnds(g)
  BY <1>1, <1>6 DEF FlushEnds
<1>7. CASE Collect(g)
  <2>1. /\ Running /\ life[g] = "live" /\ life'[g] = "gone" /\ stage[g] \in {"none", "frozen"}
        /\ UNCHANGED <<ready, flusher, pending, stage, late, overlooked, torn, failed, phase, todo>>
    BY <1>1, <1>7 DEF Collect
  <2>2. Settled(g)'
    BY <2>1
  <2>3. CASE Referenced(g)
    <3>1. Rescue(g)
      BY <1>7, <2>3 DEF Collect
    <3>2. /\ pending[g] => g \in orphans' \cup dropped'
          /\ ~pending[g] /\ flusher[g] = "posting" => g \in unseen'
          /\ dropped \subseteq dropped' /\ unseen \subseteq unseen'
      BY <3>1 DEF Rescue
    <3>3. Owed(g)'
      BY <2>1, <3>2
    <3> QED BY <2>2, <3>3
  <2>4. CASE ~Referenced(g)
    <3>1. UNCHANGED <<orphans, dropped, unseen>> /\ ~Reachable(g)
      BY <1>7, <2>1, <2>4 DEF Collect, Referenced
    <3>2. Owed(g)'
      BY <2>1, <3>1
    <3> QED BY <2>2, <3>2
  <2> QED BY <2>3, <2>4
<1>8. CASE StopBegins(g)
  BY <1>1, <1>8 DEF StopBegins
<1>9. CASE StopPosts(g)
  BY <1>1, <1>9 DEF StopPosts
<1>10. CASE StopPosted(g)
  BY <1>1, <1>10 DEF StopPosted
<1>11. CASE StopDrains(g)
  BY <1>1, <1>11 DEF StopDrains
<1>12. CASE ShutdownRaises(g)
  BY <1>1, <1>12 DEF ShutdownRaises
<1>13. CASE SweepBegins(g)
  BY <1>1, <1>13 DEF SweepBegins
<1>14. CASE Freeze(g)
  BY <1>1, <1>14 DEF Freeze
<1>15. CASE Drain(g)
  BY <1>1, <1>15 DEF Drain
<1>16. CASE DrainBlocks(g)
  BY <1>1, <1>16 DEF DrainBlocks
<1>17. CASE CallEnds(g)
  BY <1>1, <1>17 DEF CallEnds, Cancelled
<1>18. CASE FlushCrashes(g)
  BY <1>1, <1>18 DEF FlushCrashes
<1>19. CASE StopRaises(g)
  BY <1>1, <1>19 DEF StopRaises
<1>20. CASE DrainFails(g)
  BY <1>1, <1>20 DEF DrainFails
<1> QED BY <1>2, <1>3, <1>4, <1>5, <1>6, <1>7, <1>8, <1>9, <1>10, <1>11, <1>12,
           <1>13, <1>14, <1>15, <1>16, <1>17, <1>18, <1>19, <1>20 DEF Steps, Use, ShutdownSteps

\* A sweep drops from the list only its own guard, whose reporter is drained, and those it
\* names as skipped.
LEMMA MemorySweepEnds ==
    ASSUME TypeInv, RegistryInv, NEW g \in Guards, Settled(g), Owed(g), SweepEnds
    PROVE  Settled(g)' /\ Owed(g)'
<1>0. stage \in [Guards -> Stages] /\ sweep.by \in Guards
  BY TypesHere, SweepComplete
<1>1. /\ stage'[g] = (IF g = sweep.by THEN "none" ELSE stage[g])
      /\ orphans' = orphans \ {sweep.by} /\ overlooked \subseteq overlooked' /\ Running
      /\ UNCHANGED <<life, ready, flusher, pending, late, torn, failed, dropped, unseen, phase, todo>>
  BY <1>0, SweepComplete DEF SweepEnds, Set, reporter, process
<1>2. Settled(g)'
  BY <1>1 DEF Settled, Running
<1>3. Owed(g)'
  <2>1. CASE g = sweep.by
    BY <1>1, <2>1, SweepComplete DEF Settled, Owed, Carries, Excused, Running
  <2>2. CASE g # sweep.by
    <3>1. Reachable(g) => Reachable(g)' \/ g \in overlooked'
      BY <1>1, <2>2, SweepComplete DEF Reachable
    <3> QED BY <1>1, <2>2, <3>1 DEF Owed, Carries, Excused, Running
  <2> QED BY <2>1, <2>2
<1> QED BY <1>2, <1>3

\* The exit hook takes exactly the reporters that can be reached.
LEMMA MemoryExit ==
    ASSUME TypeInv, NEW g \in Guards, Settled(g), Owed(g), Exit
    PROVE  Settled(g)' /\ Owed(g)'
<1>1. /\ flusher'[g] = "posting" => flusher[g] = "posting"
      /\ flusher[g] = "none" => flusher'[g] = "none"
      /\ orphans' = {} /\ stage[g] \in {"none", "frozen"}
      /\ todo' = Known /\ Running /\ ~Running'
      /\ UNCHANGED <<life, ready, pending, stage, active, late, torn, failed, dropped, unseen, overlooked>>
  BY DEF Exit, history, Running, Cancelled
<1>2. g \in Known <=> Reachable(g)
  BY TypesHere DEF Known, Reachable
<1> QED BY <1>1, <1>2 DEF Settled, Owed, Carries, Excused

LEMMA MemoryQuiet ==
    ASSUME NEW g, Settled(g), Owed(g), Running' <=> Running,
           UNCHANGED <<life, ready, flusher, pending, stage, active, orphans, todo, late, torn, failed,
                       dropped, unseen, overlooked>>
    PROVE  Settled(g)' /\ Owed(g)'
BY Zenon DEF Settled, Owed, Carries, Excused, Reachable

LEMMA MemoryNext == TypeInv /\ RegistryInv /\ MemoryInv /\ [Next]_vars => MemoryInv'
<1> SUFFICES ASSUME TypeInv, RegistryInv, MemoryInv, [Next]_vars PROVE MemoryInv'
  OBVIOUS
<1>0. \A g \in Guards : Settled(g) /\ Owed(g)
  BY DEF MemoryInv
<1> DEFINE Goal == \A g \in Guards : Settled(g)' /\ Owed(g)'
<1>1. ASSUME NEW g \in Guards, Steps(g) PROVE Goal /\ (phase' = "exited" => todo' = {})
  <2>1. Goal
    BY <1>0, <1>1, MemoryElsewhere, MemoryHere
  <2>2. ASSUME phase' = "exited" PROVE todo' = {}
    <3>1. phase = "exited"
      BY <1>1, <2>2, RunningAlone
    <3>2. todo = {}
      BY <3>1 DEF MemoryInv
    <3>3. ~Drain(g) /\ ~DrainFails(g)
      BY <3>1 DEF Drain, DrainFails
    <3>4. todo' = todo
      BY <1>1, <3>3, TodoAlone
    <3> QED BY <3>2, <3>4
  <2> QED BY <2>1, <2>2
<1>2. ASSUME SweepStep PROVE Goal /\ UNCHANGED <<phase, todo>>
  BY <1>0, <1>2, MemoryQuiet DEF SweepStep, guards, reporter, process, history, Running
<1>3. ASSUME SweepEnds PROVE Goal /\ UNCHANGED <<phase, todo>>
  <2>1. UNCHANGED <<phase, todo>>
    BY <1>3 DEF SweepEnds, process
  <2> QED BY <1>0, <1>3, <2>1, MemorySweepEnds
<1>4. ASSUME Exit PROVE Goal /\ phase' # "exited"
  <2>1. phase' # "exited"
    BY <1>4 DEF Exit
  <2> QED BY <1>0, <1>4, <2>1, MemoryExit
<1>5. ASSUME Exited PROVE Goal /\ todo' = {}
  BY <1>0, <1>5, MemoryQuiet DEF Exited, guards, reporter, registry, history, Running
<1>6. ASSUME UNCHANGED vars PROVE Goal /\ UNCHANGED <<phase, todo>>
  BY <1>0, <1>6, MemoryQuiet DEF vars, guards, reporter, registry, process, history, Running
<1> HIDE DEF Goal
<1>7. Goal /\ (phase' = "exited" => todo' = {})
  BY <1>1, <1>2, <1>3, <1>4, <1>5, <1>6, Actions DEF MemoryInv
<1> QED BY <1>7 DEF Goal, MemoryInv

LEMMA MemoryAlways == Spec => []MemoryInv
BY MemoryInit, MemoryNext, TypeAlways, RegistryAlways, PTL DEF Spec

\* When the exit hook has returned, no reporter has events in memory but those of the
\* named exceptions (guard.py:184).
THEOREM ExitForgetsNothing == Spec => []NothingForgotten
<1>1. TypeInv /\ MemoryInv => NothingForgotten
  <2> SUFFICES ASSUME MemoryInv, phase = "exited", NEW g \in Guards, pending[g] PROVE Excused(g)
    BY DEF NothingForgotten, Excused
  <2> QED BY DEF MemoryInv, Owed, Carries, Running
<1> QED BY <1>1, TypeAlways, MemoryAlways, PTL

-----------------------------------------------------------------------------
\* Who holds the flush lock of a reporter, and which loops outlive the program.
Held(g) ==
    /\ lock[g] = "flusher" => flusher[g] = "posting"
    /\ lock[g] = "stop" => stage[g] \in {"posting", "frozen"}
    /\ stage[g] = "frozen" => mode[g] = "sync"
    /\ mode[g] = "wrapped" /\ ~looped[g] => flusher[g] \in {"none", "crashed"}
    /\ mode[g] = "wrapped" /\ ~Running => ~looped[g]
    /\ mode[g] = "loop" /\ ~Running => flusher[g] \in {"none", "crashed"}
LockInv ==
    /\ \A g \in Guards : Held(g)
    /\ OnlyForeignLoopsBlock

LEMMA LockInit == Init => LockInv
BY DEF Init, LockInv, Held, Running, OnlyForeignLoopsBlock

LEMMA LockHere ==
    ASSUME TypeInv, NEW g \in Guards, Steps(g), Held(g)
    PROVE  Held(g)'
<1>0. /\ stage \in [Guards -> Stages] /\ flusher \in [Guards -> Flushers] /\ lock \in [Guards -> Locks]
      /\ looped \in [Guards -> BOOLEAN]
  BY TypesHere
<1>1. \A x : /\ Set(stage, g, x)[g] = x /\ Set(flusher, g, x)[g] = x /\ Set(lock, g, x)[g] = x
             /\ Set(looped, g, x)[g] = x
  BY <1>0, Zenon DEF Set
<1> USE DEF guards, reporter, process, history, Held, Running
<1>2. CASE Create(g)
  BY <1>1, <1>2 DEF Create
<1>3. CASE Start(g)
  <2>1. looped'[g] /\ Running
    BY <1>1, <1>3, Zenon DEF Start
  <2>2. /\ flusher'[g] = "asleep" /\ lock'[g] = "free" /\ stage[g] = "none"
        /\ UNCHANGED <<mode, stage, phase>>
    BY <1>1, <1>3 DEF Start
  <2> QED BY <2>1, <2>2
<1>4. CASE Report(g)
  BY <1>1, <1>4 DEF Report
<1>5. CASE FlushBegins(g)
  BY <1>1, <1>5 DEF FlushBegins
<1>6. CASE FlushEnds(g)
  BY <1>1, <1>6 DEF FlushEnds
<1>7. CASE Collect(g)
  BY <1>1, <1>7 DEF Collect
<1>8. CASE StopBegins(g)
  BY <1>1, <1>8 DEF StopBegins, LockAfterCancel
<1>9. CASE StopPosts(g)
  BY <1>1, <1>9 DEF StopPosts
<1>10. CASE StopPosted(g)
  BY <1>1, <1>10 DEF StopPosted
<1>11. CASE StopDrains(g)
  BY <1>1, <1>11 DEF StopDrains
<1>12. CASE ShutdownRaises(g)
  BY <1>1, <1>12 DEF ShutdownRaises
<1>13. CASE SweepBegins(g)
  BY <1>1, <1>13 DEF SweepBegins
<1>14. CASE Freeze(g)
  BY <1>1, <1>14 DEF Freeze
<1>15. CASE Drain(g)
  BY <1>1, <1>15 DEF Drain
<1>16. CASE DrainBlocks(g)
  BY <1>1, <1>16 DEF DrainBlocks
<1>17. CASE CallEnds(g)
  BY <1>1, <1>17 DEF CallEnds, LockAfterCancel, Cancelled
<1>18. CASE FlushCrashes(g)
  BY <1>1, <1>18 DEF FlushCrashes
<1>19. CASE StopRaises(g)
  BY <1>1, <1>19 DEF StopRaises
<1>20. CASE DrainFails(g)
  BY <1>1, <1>20 DEF DrainFails
<1> QED BY <1>2, <1>3, <1>4, <1>5, <1>6, <1>7, <1>8, <1>9, <1>10, <1>11, <1>12,
           <1>13, <1>14, <1>15, <1>16, <1>17, <1>18, <1>19, <1>20 DEF Steps, Use, ShutdownSteps

LEMMA LockElsewhere ==
    ASSUME TypeInv, NEW g \in Guards, Steps(g), NEW h \in Guards, h # g, Held(h)
    PROVE  Held(h)'
<1>1. Same(h)
  BY Elsewhere
<1>2. Running' <=> Running
  BY RunningAlone, Zenon
<1> QED BY <1>1, <1>2, Zenon DEF Same, Held

\* Whoever blocks the hook holds a lock that only a loop on another thread can hold.
LEMMA BlockedByForeignLoop ==
    ASSUME TypeInv, MemoryInv, LockInv, NEW g \in Guards, DrainBlocks(g)
    PROVE  g \in todo /\ mode[g] = "sync"
<1>1. g \in todo /\ lock[g] # "free" /\ ~Running
  BY DEF DrainBlocks, Running
<1>2. /\ lock[g] \in {"flusher", "stop"} /\ mode[g] \in {"loop", "wrapped", "sync"}
  BY <1>1, TypesHere, LifecycleAssumption DEF Locks, TypeInv, TypeOK, GuardsOK
<1>3. stage[g] \in {"none", "frozen"} /\ Held(g)
  BY <1>1 DEF MemoryInv, Settled, LockInv
<1> QED BY <1>1, <1>2, <1>3 DEF Held

LEMMA LockNext == TypeInv /\ RegistryInv /\ MemoryInv /\ LockInv /\ [Next]_vars => LockInv'
<1> SUFFICES ASSUME TypeInv, RegistryInv, MemoryInv, LockInv, [Next]_vars PROVE LockInv'
  OBVIOUS
<1>0. \A g \in Guards : Held(g)
  BY DEF LockInv
<1> DEFINE Goal == \A g \in Guards : Held(g)'
<1>1. ASSUME NEW g \in Guards, Steps(g) PROVE LockInv'
  <2>1. Goal
    BY <1>0, <1>1, LockElsewhere, LockHere
  <2>2. CASE DrainBlocks(g)
    <3>1. g \in todo' /\ mode'[g] = "sync"
      BY <2>2, BlockedByForeignLoop DEF DrainBlocks, guards
    <3> QED BY <2>1, <3>1 DEF LockInv, OnlyForeignLoopsBlock
  <2>3. CASE ~DrainBlocks(g)
    <3>1. phase' = phase
      BY <1>1, <2>3, RunningAlone
    <3>2. CASE Drain(g)
      BY <2>1, <3>1, <3>2 DEF Drain, LockInv, OnlyForeignLoopsBlock
    <3>3. CASE DrainFails(g)
      BY <2>1, <3>1, <3>3 DEF DrainFails, LockInv, OnlyForeignLoopsBlock
    <3>4. CASE ~Drain(g) /\ ~DrainFails(g)
      <4>1. UNCHANGED <<mode, todo>>
        BY <1>1, <3>4, TodoAlone
      <4> QED BY <2>1, <3>1, <4>1 DEF LockInv, OnlyForeignLoopsBlock
    <3> QED BY <3>2, <3>3, <3>4
  <2> QED BY <2>2, <2>3
<1>2. CASE SweepStep
  BY <1>0, <1>2 DEF SweepStep, LockInv, Held, Running, OnlyForeignLoopsBlock, guards, reporter, process
<1>3. CASE SweepEnds
  <2>1. \A h \in Guards : stage'[h] = IF h = sweep.by THEN "none" ELSE stage[h]
    BY <1>3, TypesHere, SweepComplete DEF SweepEnds, Set
  <2>2. stage[sweep.by] = "sweeping"
    BY <1>3, SweepComplete
  <2>3. \A h \in Guards : mode[h] = "wrapped" => looped'[h] = looped[h]
    BY <1>3, TypesHere, SweepComplete DEF SweepEnds, Set
  <2> QED BY <1>0, <1>3, <2>1, <2>2, <2>3
          DEF SweepEnds, LockInv, Held, Running, OnlyForeignLoopsBlock, reporter, process
<1>4. CASE Exit
  <2>1. phase' # "stuck" /\ ~Running' /\ UNCHANGED <<mode, stage>>
    BY <1>4 DEF Exit, Running
  <2>2. ASSUME NEW h \in Guards PROVE Held(h)'
    <3>1. /\ flusher'[h] = (IF OnAppLoop(h) THEN Cancelled(h) ELSE flusher[h])
          /\ looped'[h] = (looped[h] /\ ~OnAppLoop(h))
          /\ mode[h] = "wrapped" => ~looped[h]
          /\ lock'[h] = (IF OnAppLoop(h) THEN LockAfterCancel(h) ELSE lock[h])
      BY <1>4 DEF Exit
    <3> QED BY <1>0, <2>1, <3>1 DEF Held, OnAppLoop, LockAfterCancel, Cancelled
  <2> QED BY <2>1, <2>2 DEF LockInv, OnlyForeignLoopsBlock
<1>5. CASE Exited
  BY <1>0, <1>5 DEF Exited, LockInv, Held, Running, OnlyForeignLoopsBlock, guards, reporter
<1>6. CASE UNCHANGED vars
  BY <1>6 DEF vars, LockInv, Held, Running, OnlyForeignLoopsBlock, guards, reporter, process
<1> QED BY <1>1, <1>2, <1>3, <1>4, <1>5, <1>6, Actions

LEMMA LockAlways == Spec => []LockInv
BY LockInit, LockNext, TypeAlways, RegistryAlways, MemoryAlways, PTL DEF Spec

\* The exit hook can only block on the flush lock of a guard behind the synchronous
\* facade, whose loop runs on a thread of its own (sync.py, guard.py:172).
THEOREM LocksComeBack == Spec => []OnlyForeignLoopsBlock
BY LockAlways, PTL DEF LockInv

=============================================================================
