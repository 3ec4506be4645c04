--------------------------- MODULE ReporterProofs ---------------------------
(***************************************************************************)
(* Theorems about Reporter, for every value of its constants: types and    *)
(* limits, the counters, what becomes of every event and that it follows   *)
(* EventLedger, the order of the batches, what stop() leaves, the breaker. *)
(***************************************************************************)
EXTENDS Reporter, SequenceTheorems, FiniteSetTheorems, TLAPS

-----------------------------------------------------------------------------
(* The elements of a sequence that is cut in two, joined or shortened *)

\* A sequence is its first n elements followed by the others.
LEMMA Cut ==
    ASSUME NEW S, NEW s \in Seq(S), NEW n \in 0 .. Len(s)
    PROVE  /\ SubSeq(s, 1, n) \in Seq(S) /\ SubSeq(s, n + 1, Len(s)) \in Seq(S)
           /\ Len(SubSeq(s, 1, n)) = n /\ Len(SubSeq(s, n + 1, Len(s))) = Len(s) - n
           /\ ToSet(s) = ToSet(SubSeq(s, 1, n)) \cup ToSet(SubSeq(s, n + 1, Len(s)))
           /\ \A C : OnceBut(s, C) =>
                /\ OnceBut(SubSeq(s, 1, n), C) /\ OnceBut(SubSeq(s, n + 1, Len(s)), C)
                /\ ToSet(SubSeq(s, 1, n)) \cap ToSet(SubSeq(s, n + 1, Len(s))) \subseteq C
<1> DEFINE a == SubSeq(s, 1, n)
           b == SubSeq(s, n + 1, Len(s))
<1>1. Len(s) \in Nat /\ \A i \in 1 .. Len(s) : s[i] \in S
  BY LenProperties, ElementOfSeq
<1>2. a \in Seq(S) /\ Len(a) = n /\ \A i \in 1 .. n : a[i] = s[i]
  BY <1>1, SubSeqProperties
<1>3. b \in Seq(S) /\ Len(b) = Len(s) - n /\ \A i \in 1 .. Len(s) - n : b[i] = s[n + i]
  BY <1>1, SubSeqProperties
<1> HIDE DEF a, b
<1>4. DOMAIN s = 1 .. Len(s) /\ DOMAIN a = 1 .. n /\ DOMAIN b = 1 .. Len(s) - n
  BY <1>2, <1>3, LenProperties
<1>5. ToSet(s) \subseteq ToSet(a) \cup ToSet(b)
  <2> SUFFICES ASSUME NEW i \in 1 .. Len(s) PROVE s[i] \in ToSet(a) \cup ToSet(b)
    BY <1>4 DEF ToSet
  <2>1. CASE i <= n
    BY <1>1, <1>2, <1>4, <2>1 DEF ToSet
  <2>2. CASE i > n
    <3>1. i - n \in 1 .. Len(s) - n /\ b[i - n] = s[i]
      BY <1>1, <1>3, <2>2
    <3> QED BY <1>4, <3>1 DEF ToSet
  <2> QED BY <1>1, <2>1, <2>2
<1>6. ToSet(a) \cup ToSet(b) \subseteq ToSet(s)
  <2>1. \A i \in 1 .. n : a[i] \in ToSet(s)
    BY <1>1, <1>2, <1>4 DEF ToSet
  <2>2. \A i \in 1 .. Len(s) - n : b[i] \in ToSet(s)
    <3> SUFFICES ASSUME NEW i \in 1 .. Len(s) - n PROVE b[i] \in ToSet(s)
      OBVIOUS
    <3>1. n + i \in 1 .. Len(s) /\ b[i] = s[n + i]
      BY <1>1, <1>3
    <3> QED BY <1>4, <3>1 DEF ToSet
  <2> QED BY <1>4, <2>1, <2>2 DEF ToSet
<1>7. ASSUME NEW C, OnceBut(s, C)
      PROVE  OnceBut(a, C) /\ OnceBut(b, C) /\ ToSet(a) \cap ToSet(b) \subseteq C
  <2>1. OnceBut(a, C)
    BY <1>1, <1>2, <1>4, <1>7 DEF OnceBut
  <2>2. OnceBut(b, C)
    <3> SUFFICES ASSUME NEW i \in 1 .. Len(s) - n, NEW j \in 1 .. Len(s) - n, i # j,
                        b[i] \notin C
                 PROVE  b[i] # b[j]
      BY <1>4 DEF OnceBut
    <3>1. n + i \in 1 .. Len(s) /\ n + j \in 1 .. Len(s) /\ n + i # n + j
      BY <1>1, <1>3
    <3> QED BY <1>3, <1>4, <1>7, <3>1 DEF OnceBut
  <2>3. \A i \in 1 .. n, j \in 1 .. Len(s) - n : a[i] \notin C => a[i] # b[j]
    <3> SUFFICES ASSUME NEW i \in 1 .. n, NEW j \in 1 .. Len(s) - n, a[i] \notin C
                 PROVE  a[i] # b[j]
      OBVIOUS
    <3>1. n + j \in 1 .. Len(s) /\ i \in 1 .. Len(s) /\ i # n + j
      BY <1>1
    <3> QED BY <1>2, <1>3, <1>4, <1>7, <3>1 DEF OnceBut
  <2> QED BY <1>4, <2>1, <2>2, <2>3 DEF ToSet
<1> QED BY <1>2, <1>3, <1>5, <1>6, <1>7 DEF a, b

\* A concatenation has the elements of both parts.
LEMMA Joined ==
    ASSUME NEW S, NEW s \in Seq(S), NEW t \in Seq(S)
    PROVE  /\ s \o t \in Seq(S) /\ Len(s \o t) = Len(s) + Len(t)
           /\ ToSet(s \o t) = ToSet(s) \cup ToSet(t)
           /\ \A C : (OnceBut(s, C) /\ OnceBut(t, C) /\ ToSet(s) \cap ToSet(t) \subseteq C)
                      => OnceBut(s \o t, C)
<1> DEFINE st == s \o t
<1>1. /\ st \in Seq(S) /\ Len(st) = Len(s) + Len(t)
      /\ \A i \in 1 .. Len(s) + Len(t) :
            st[i] = IF i <= Len(s) THEN s[i] ELSE t[i - Len(s)]
  BY ConcatProperties
<1>2. Len(s) \in Nat /\ Len(t) \in Nat /\ DOMAIN s = 1 .. Len(s) /\ DOMAIN t = 1 .. Len(t)
  BY LenProperties
<1>3. DOMAIN st = 1 .. Len(s) + Len(t)
  BY <1>1, LenProperties
<1> HIDE DEF st
<1>4. ToSet(st) \subseteq ToSet(s) \cup ToSet(t)
  <2> SUFFICES ASSUME NEW i \in 1 .. Len(s) + Len(t) PROVE st[i] \in ToSet(s) \cup ToSet(t)
    BY <1>3 DEF ToSet
  <2>1. CASE i <= Len(s)
    <3>1. i \in 1 .. Len(s) /\ st[i] = s[i]
      BY <1>1, <1>2, <2>1
    <3> QED BY <1>2, <3>1 DEF ToSet
  <2>2. CASE i > Len(s)
    <3>1. i - Len(s) \in 1 .. Len(t) /\ st[i] = t[i - Len(s)]
      BY <1>1, <1>2, <2>2
    <3> QED BY <1>2, <3>1 DEF ToSet
  <2> QED BY <1>2, <2>1, <2>2
<1>5. ToSet(s) \cup ToSet(t) \subseteq ToSet(st)
  <2>1. \A i \in 1 .. Len(s) : s[i] \in ToSet(st)
    BY <1>1, <1>2, <1>3 DEF ToSet
  <2>2. ASSUME NEW i \in 1 .. Len(t) PROVE t[i] \in ToSet(st)
    <3> DEFINE k == Len(s) + i
    <3>1. k \in 1 .. Len(s) + Len(t) /\ ~(k <= Len(s)) /\ k - Len(s) = i
      BY <1>2
    <3> HIDE DEF k
    <3>2. st[k] = t[i]
      BY <1>1, <3>1
    <3> QED BY <1>3, <3>1, <3>2 DEF ToSet
  <2> QED BY <1>2, <2>1, <2>2 DEF ToSet
<1>6. ASSUME NEW C, OnceBut(s, C), OnceBut(t, C), ToSet(s) \cap ToSet(t) \subseteq C
      PROVE  OnceBut(st, C)
  <2> SUFFICES ASSUME NEW i \in DOMAIN st, NEW j \in DOMAIN st, i < j, st[i] \notin C
               PROVE  st[i] # st[j]
    BY <1>2, <1>3 DEF OnceBut
  <2>1. CASE j <= Len(s)
    BY <1>1, <1>2, <1>3, <1>6, <2>1 DEF OnceBut
  <2>2. CASE i > Len(s)
    <3>1. /\ i - Len(s) \in 1 .. Len(t) /\ j - Len(s) \in 1 .. Len(t)
          /\ i - Len(s) # j - Len(s)
          /\ st[i] = t[i - Len(s)] /\ st[j] = t[j - Len(s)]
      BY <1>1, <1>2, <1>3, <2>2
    <3> QED BY <1>2, <1>6, <3>1 DEF OnceBut
  <2>3. CASE i <= Len(s) /\ j > Len(s)
    <3>1. /\ i \in 1 .. Len(s) /\ j - Len(s) \in 1 .. Len(t)
          /\ st[i] = s[i] /\ st[j] = t[j - Len(s)]
      BY <1>1, <1>2, <1>3, <2>3
    <3>2. s[i] \in ToSet(s) /\ t[j - Len(s)] \in ToSet(t)
      BY <1>2, <3>1 DEF ToSet
    <3> QED BY <1>6, <3>1, <3>2
  <2> QED BY <1>1, <1>2, <1>3, <2>1, <2>2, <2>3
<1> QED BY <1>1, <1>4, <1>5, <1>6 DEF st

\* Singletons.
LEMMA One ==
    ASSUME NEW S, NEW e \in S
    PROVE  /\ <<e>> \in Seq(S) /\ Len(<<e>>) = 1
           /\ ToSet(<<e>>) = {e} /\ \A C : OnceBut(<<e>>, C)
BY DEF ToSet, OnceBut

\* The empty sequence.
LEMMA Empty ==
    ASSUME NEW S
    PROVE  /\ <<>> \in Seq(S) /\ Len(<<>>) = 0
           /\ ToSet(<<>>) = {} /\ \A C : OnceBut(<<>>, C)
BY DEF ToSet, OnceBut

\* Typing facts of one sequence.
LEMMA NonEmpty ==
    ASSUME NEW S, NEW s \in Seq(S)
    PROVE  /\ Len(s) \in Nat
           /\ ToSet(s) \subseteq S
           /\ s = <<>> <=> Len(s) = 0
BY EmptySeq, LenProperties, ElementOfSeq DEF ToSet

\* Taking the last element off.
LEMMA LastOff ==
    ASSUME NEW S, NEW s \in Seq(S), s # <<>>
    PROVE  /\ Last(s) \in S /\ Front(s) \in Seq(S) /\ Len(Front(s)) = Len(s) - 1
           /\ Last(s) \in ToSet(s)
           /\ ToSet(s) = ToSet(Front(s)) \cup {Last(s)}
           /\ \A C : OnceBut(s, C) => /\ OnceBut(Front(s), C)
                                      /\ Last(s) \in ToSet(Front(s)) => Last(s) \in C
<1>1. Len(s) \in Nat \ {0} /\ s[Len(s)] \in S
  BY NonEmpty, ElementOfSeq
<1> DEFINE n == Len(s) - 1
           b == SubSeq(s, n + 1, Len(s))
<1>2. n \in 0 .. Len(s) /\ n + 1 = Len(s)
  BY <1>1
<1>3. b = <<s[Len(s)]>>
  <2>1. /\ b \in Seq(S) /\ Len(b) = 1 /\ b[1] = s[Len(s)]
    BY <1>1, <1>2, SubSeqProperties
  <2>2. <<s[Len(s)]>> \in Seq(S) /\ Len(<<s[Len(s)]>>) = 1
    BY <1>1
  <2> HIDE DEF b
  <2> QED BY <1>1, <2>1, <2>2, SeqEqual
<1>4. ToSet(b) = {s[Len(s)]}
  BY <1>1, <1>3, One
<1>5. /\ SubSeq(s, 1, n) \in Seq(S)
      /\ Len(SubSeq(s, 1, n)) = n
      /\ ToSet(s) = ToSet(SubSeq(s, 1, n)) \cup ToSet(b)
      /\ \A C : OnceBut(s, C) => /\ OnceBut(SubSeq(s, 1, n), C)
                           /\ ToSet(SubSeq(s, 1, n)) \cap ToSet(b) \subseteq C
  BY <1>2, Cut
<1> QED BY <1>1, <1>4, <1>5 DEF Front, Last

-----------------------------------------------------------------------------
(* Types *)

\* The background task exists only while the reporter runs.
LoopOff == ~running => pc["loop"] = "off"
TypeInv == TypeOK /\ LoopOff

-----------------------------------------------------------------------------
(* What the operators on the buffer do *)

\* A deque with a maximum length sheds from its old end exactly what is too much.
LEMMA ShedOldest ==
    ASSUME NEW s \in Seq(Events)
    PROVE  /\ KeepNewest(s) \in Seq(Events) /\ Len(KeepNewest(s)) <= Capacity
           /\ Excess(s) \in 0 .. Len(s) /\ Len(s) \in Nat
           /\ Len(KeepNewest(s)) + Excess(s) = Len(s)
           /\ ToSet(s) = ToSet(SubSeq(s, 1, Excess(s))) \cup ToSet(KeepNewest(s))
           /\ \A C : OnceBut(s, C) =>
                /\ OnceBut(KeepNewest(s), C)
                /\ ToSet(SubSeq(s, 1, Excess(s))) \cap ToSet(KeepNewest(s)) \subseteq C
<1>1. Len(s) \in Nat
  BY NonEmpty
<1>2. Excess(s) \in 0 .. Len(s) /\ Len(s) - Excess(s) <= Capacity
  BY <1>1, ConstantsAssumption DEF Excess
<1> DEFINE x == Excess(s)
           old == SubSeq(s, 1, x)
           new == SubSeq(s, x + 1, Len(s))
<1> HIDE DEF x
<1>3. x \in 0 .. Len(s) /\ Len(s) - x <= Capacity
  BY <1>2 DEF x
<1>4. /\ new \in Seq(Events) /\ Len(new) = Len(s) - x
      /\ ToSet(s) = ToSet(old) \cup ToSet(new)
      /\ \A C : OnceBut(s, C) => OnceBut(new, C) /\ ToSet(old) \cap ToSet(new) \subseteq C
  BY <1>3, Cut
<1>5. KeepNewest(s) = new /\ SubSeq(s, 1, Excess(s)) = old
  BY DEF KeepNewest, x
<1> HIDE DEF old, new
<1>6. Len(new) <= Capacity /\ Len(new) + x = Len(s)
  BY <1>1, <1>3, <1>4, ConstantsAssumption
<1>7. Excess(s) = x
  BY DEF x
<1> QED BY <1>1, <1>3, <1>4, <1>5, <1>6, <1>7

\* Popping a batch moves the oldest events of a buffer that is not empty.
LEMMA PopMoves ==
    ASSUME TypeOK, NEW f \in Flushers, buffer # <<>>, PopBatch(f)
    PROVE  /\ buffer' \in Seq(Events) /\ batch' \in [Flushers -> Seq(Events)]
           /\ Len(batch'[f]) \in 1 .. BatchSize
           /\ Len(buffer') \in Nat /\ Len(buffer') + Len(batch'[f]) = Len(buffer)
           /\ ToSet(buffer) = ToSet(batch'[f]) \cup ToSet(buffer')
           /\ \A C : OnceBut(buffer, C) => /\ OnceBut(batch'[f], C) /\ OnceBut(buffer', C)
                                     /\ ToSet(batch'[f]) \cap ToSet(buffer') \subseteq C
           /\ \A g \in Flushers : g # f => batch'[g] = batch[g]
<1> DEFINE n == Lesser(BatchSize, Len(buffer))
<1>1. buffer \in Seq(Events) /\ Len(buffer) \in Nat \ {0}
  BY NonEmpty DEF TypeOK, QueueOK
<1>2. n \in 0 .. Len(buffer) /\ n \in 1 .. BatchSize
  BY <1>1, ConstantsAssumption DEF Lesser
<1>3. /\ batch'[f] = SubSeq(buffer, 1, n)
      /\ buffer' = SubSeq(buffer, n + 1, Len(buffer))
      /\ batch' = [batch EXCEPT ![f] = SubSeq(buffer, 1, n)]
  BY DEF PopBatch, TypeOK, TasksOK
<1> HIDE DEF n
<1>4. /\ SubSeq(buffer, 1, n) \in Seq(Events)
      /\ SubSeq(buffer, n + 1, Len(buffer)) \in Seq(Events)
      /\ Len(SubSeq(buffer, 1, n)) = n
      /\ Len(SubSeq(buffer, n + 1, Len(buffer))) = Len(buffer) - n
      /\ ToSet(buffer) = ToSet(SubSeq(buffer, 1, n))
                         \cup ToSet(SubSeq(buffer, n + 1, Len(buffer)))
      /\ \A C : OnceBut(buffer, C) =>
           /\ OnceBut(SubSeq(buffer, 1, n), C)
           /\ OnceBut(SubSeq(buffer, n + 1, Len(buffer)), C)
           /\ ToSet(SubSeq(buffer, 1, n)) \cap ToSet(SubSeq(buffer, n + 1, Len(buffer))) \subseteq C
  BY <1>1, <1>2, Cut
<1>5. batch' \in [Flushers -> Seq(Events)] /\ \A g \in Flushers : g # f => batch'[g] = batch[g]
  BY <1>3, <1>4 DEF TypeOK, TasksOK
<1> QED BY <1>1, <1>2, <1>3, <1>4, <1>5

-----------------------------------------------------------------------------
(* Types *)

LEMMA InitTypes == Init => TypeInv
<1> SUFFICES ASSUME Init PROVE TypeInv
  OBVIOUS
<1>1. StagesOK
  <2>1. running \in BOOLEAN /\ client \in BOOLEAN /\ trial \in BOOLEAN
    BY Zenon DEF Init
  <2> QED BY <2>1, ConstantsAssumption DEF Init, StagesOK
<1>2. QueueOK
  BY ConstantsAssumption, Empty DEF Init, QueueOK
<1>3. TasksOK
  BY ConstantsAssumption, Empty DEF Init, TasksOK, Flushers, NoFlusher
<1>4. CountersOK
  BY ConstantsAssumption DEF Init, CountersOK
<1>5. HistoryOK /\ LoopOff
  BY DEF Init, HistoryOK, LoopOff, Flushers
<1> QED BY <1>1, <1>2, <1>3, <1>4, <1>5 DEF TypeInv, TypeOK

\* What recover() hands over: the whole file, which it clears, or the part it could
\* read, which stays in the file as well.
LEMMA WhatIsRecovered ==
    ASSUME TypeInv, Start
    PROVE  \E read \in Seq(Events) :
             /\ ToSet(read) \subseteq ToSet(dlq)
             /\ \/ read = dlq /\ dlq' = <<>> /\ copied' = copied
                \/ dlq' = dlq /\ copied' = copied \cup ToSet(read)
             /\ buffer' = KeepNewest(buffer \o read)
             /\ dropped' = dropped + Excess(buffer \o read)
             /\ overflows' = overflows + Excess(buffer \o read)
             /\ lost' = lost \cup ToSet(SubSeq(buffer \o read, 1, Excess(buffer \o read)))
             /\ taken' = taken + Len(read)
<1>0. dlq \in Seq(Events)
  BY DEF TypeInv, TypeOK, QueueOK
<1>1. CASE RecoverAll
  <2> WITNESS dlq \in Seq(Events)
  <2> QED BY <1>1 DEF RecoverAll, Recovered, AppendBounded, Recoverable
<1>2. CASE RecoverFailing
  <2>1. PICK n \in 0 .. Len(dlq) : /\ Recovered(SubSeq(dlq, 1, n))
                                  /\ copied' = copied \cup ToSet(SubSeq(dlq, 1, n))
    BY <1>2 DEF RecoverFailing, Recoverable
  <2> DEFINE part == SubSeq(dlq, 1, n)
  <2>2. part \in Seq(Events) /\ ToSet(part) \subseteq ToSet(dlq)
    BY <1>0, Cut
  <2>3. Recovered(part) /\ copied' = copied \cup ToSet(part) /\ dlq' = dlq
    BY <1>2, <2>1 DEF RecoverFailing
  <2> HIDE DEF part
  <2>4. part \in Seq(Events)
    BY <2>2
  <2> WITNESS part \in Seq(Events)
  <2> QED BY <2>2, <2>3 DEF Recovered, AppendBounded
<1> QED BY <1>1, <1>2 DEF Start

LEMMA StartTypes == TypeInv /\ Start => TypeInv'
<1> SUFFICES ASSUME TypeInv, Start PROVE TypeInv'
  OBVIOUS
<1> USE DEF TypeInv, TypeOK
<1>0. PICK read \in Seq(Events) :
        /\ \/ read = dlq /\ dlq' = <<>> /\ copied' = copied
           \/ dlq' = dlq /\ copied' = copied \cup ToSet(read)
        /\ buffer' = KeepNewest(buffer \o read)
        /\ dropped' = dropped + Excess(buffer \o read)
        /\ overflows' = overflows + Excess(buffer \o read)
        /\ lost' = lost \cup ToSet(SubSeq(buffer \o read, 1, Excess(buffer \o read)))
        /\ taken' = taken + Len(read)
  BY WhatIsRecovered
<1> DEFINE s == buffer \o read
<1>1. /\ read \in Seq(Events) /\ Len(read) \in Nat /\ ToSet(read) \subseteq Events
      /\ dlq' \in Seq(Events)
  <2>1. dlq' = dlq \/ dlq' = <<>>
    BY <1>0
  <2>2. dlq' \in Seq(Events)
    BY <2>1, Empty DEF QueueOK
  <2> QED BY <2>2, NonEmpty
<1>2. s \in Seq(Events)
  BY <1>1, Joined DEF QueueOK
<1>3. /\ buffer' = KeepNewest(s) /\ dropped' = dropped + Excess(s)
      /\ overflows' = overflows + Excess(s)
      /\ lost' = lost \cup ToSet(SubSeq(s, 1, Excess(s)))
  BY <1>0
<1> HIDE DEF s
<1>4. /\ buffer' \in Seq(Events) /\ Len(buffer') <= Capacity
      /\ Excess(s) \in Nat /\ ToSet(SubSeq(s, 1, Excess(s))) \subseteq Events
  BY <1>2, <1>3, ShedOldest, NonEmpty
<1>5. batch["loop"] = <<>>
  BY DEF Start, TasksOK, LoopOff, Flushers
<1>6. StagesOK'
  BY DEF Start, StagesOK, breaker
<1>7. QueueOK'
  BY <1>1, <1>4 DEF Start, QueueOK
<1>8. TasksOK'
  BY <1>5 DEF Start, TasksOK, Flushers
<1>9. CountersOK'
  BY <1>0, <1>1, <1>3, <1>4, ConstantsAssumption DEF Start, CountersOK
<1>10. HistoryOK' /\ LoopOff'
  <2>1. copied' \subseteq Events
    BY <1>0, <1>1 DEF HistoryOK
  <2> QED BY <1>3, <1>4, <2>1 DEF Start, HistoryOK, LoopOff
<1> QED BY <1>6, <1>7, <1>8, <1>9, <1>10

LEMMA EnqueueTypes == TypeInv /\ Enqueue => TypeInv'
<1> SUFFICES ASSUME TypeInv, Enqueue PROVE TypeInv'
  OBVIOUS
<1> USE DEF TypeInv, TypeOK
<1> DEFINE s == Append(buffer, produced + 1)
<1>1. produced + 1 \in Events /\ produced' = produced + 1 /\ produced' \in 0 .. MaxEvents
  BY ConstantsAssumption DEF Enqueue, CountersOK, Events
<1>2. s \in Seq(Events)
  BY <1>1 DEF QueueOK
<1>3. /\ buffer' = KeepNewest(s) /\ dropped' = dropped + Excess(s)
      /\ overflows' = overflows + Excess(s) /\ taken' = taken + 1
      /\ lost' = lost \cup ToSet(SubSeq(s, 1, Excess(s)))
  BY DEF Enqueue, AppendBounded
<1> HIDE DEF s
<1>4. /\ buffer' \in Seq(Events) /\ Len(buffer') <= Capacity
      /\ Excess(s) \in Nat /\ ToSet(SubSeq(s, 1, Excess(s))) \subseteq Events
  BY <1>2, <1>3, ShedOldest, NonEmpty
<1>5. StagesOK'
  BY DEF Enqueue, StagesOK, breaker, life
<1>6. QueueOK'
  BY <1>4 DEF Enqueue, QueueOK, disk
<1>7. TasksOK'
  BY DEF Enqueue, TasksOK, flushing
<1>8. CountersOK'
  BY <1>1, <1>3, <1>4 DEF Enqueue, CountersOK, life
<1>9. HistoryOK' /\ LoopOff'
  BY <1>3, <1>4 DEF Enqueue, HistoryOK, LoopOff, life, flushing
<1> QED BY <1>5, <1>6, <1>7, <1>8, <1>9

LEMMA UnserialisableTypes == TypeInv /\ EnqueueUnserialisable => TypeInv'
<1> SUFFICES ASSUME TypeInv, EnqueueUnserialisable PROVE TypeInv'
  OBVIOUS
<1> USE DEF TypeInv, TypeOK, EnqueueUnserialisable
<1>1. produced + 1 \in Events /\ produced' = produced + 1 /\ produced' \in 0 .. MaxEvents
  BY ConstantsAssumption DEF CountersOK, Events
<1>2. StagesOK' /\ QueueOK' /\ TasksOK'
  BY DEF StagesOK, QueueOK, TasksOK, breaker, life, disk, flushing
<1>3. CountersOK'
  BY <1>1 DEF CountersOK, life
<1>4. HistoryOK' /\ LoopOff'
  BY <1>1 DEF HistoryOK, LoopOff, life, flushing
<1> QED BY <1>2, <1>3, <1>4

\* What entering _flush changes, whoever enters.
LEMMA EnterTypes ==
    ASSUME TypeInv, NEW f \in Flushers, EnterFlush(f), pc[f] = "idle"
    PROVE  /\ QueueOK' /\ TasksOK' /\ HistoryOK'
           /\ failures' \in Nat /\ circuit' \in {"closed", "open", "cooled"}
           /\ trial' \in BOOLEAN /\ late' \in Nat
           /\ f # "loop" => pc'["loop"] = pc["loop"]
<1> USE DEF TypeInv, TypeOK
<1>1. /\ HistoryOK' /\ failures' \in Nat /\ circuit' \in {"closed", "open", "cooled"}
      /\ late' \in Nat
  BY DEF EnterFlush, BeginPost, HistoryOK, history, StagesOK
<1>2. trial' \in BOOLEAN
  BY Zenon DEF EnterFlush, StagesOK
<1>3. f # "loop" => pc'["loop"] = pc["loop"]
  BY DEF EnterFlush, BeginPost, TasksOK, Flushers
<1>4. CASE LockFree /\ ~Waiting
  <2>1. /\ lock' = f /\ pc' = [pc EXCEPT ![f] = "posting"] /\ PopBatch(f)
        /\ buffer # <<>>
    BY <1>4 DEF EnterFlush, MayFlush, BeginPost
  <2>2. /\ buffer' \in Seq(Events) /\ batch' \in [Flushers -> Seq(Events)]
        /\ Len(batch'[f]) \in 1 .. BatchSize
        /\ Len(buffer') \in Nat /\ Len(buffer') + Len(batch'[f]) = Len(buffer)
        /\ \A g \in Flushers : g # f => batch'[g] = batch[g]
    BY <2>1, PopMoves
  <2>3. batch'[f] # <<>>
    BY <2>2, NonEmpty
  <2>4. QueueOK'
    <3>1. Len(buffer') <= Capacity
      BY <2>2, ConstantsAssumption DEF QueueOK
    <3> QED BY <2>2, <3>1 DEF EnterFlush, QueueOK, disk
  <2>5. TasksOK'
    <3>1. /\ Len(batch'[f]) <= BatchSize
          /\ pc'[f] = "posting"
      BY <2>1, <2>2, ConstantsAssumption DEF TasksOK
    <3>2. \A g \in Flushers : g # f => pc'[g] = pc[g]
      BY <2>1 DEF TasksOK
    <3>3. /\ lock' \in Flushers \cup {NoFlusher}
          /\ pc' \in [Flushers -> {"off", "idle", "waiting", "posting", "requeue",
                                   "backoff", "crashed"}]
      BY <2>1 DEF TasksOK
    <3> QED BY <2>2, <2>3, <3>1, <3>2, <3>3 DEF TasksOK
  <2> QED BY <1>1, <1>2, <1>3, <2>4, <2>5
<1>5. CASE ~(LockFree /\ ~Waiting)
  <2>1. pc' = [pc EXCEPT ![f] = "waiting"] /\ UNCHANGED <<lock, buffer, batch>>
    BY <1>5 DEF EnterFlush
  <2>2. QueueOK'
    BY <2>1 DEF EnterFlush, QueueOK, disk
  <2>3. TasksOK'
    BY <2>1 DEF TasksOK
  <2> QED BY <1>1, <1>2, <1>3, <2>2, <2>3
<1> QED BY <1>4, <1>5

LEMMA LoopTickTypes == TypeInv /\ LoopTick => TypeInv'
<1> SUFFICES ASSUME TypeInv, LoopTick PROVE TypeInv'
  OBVIOUS
<1> USE DEF TypeInv, TypeOK, LoopTick
<1>1. /\ QueueOK' /\ TasksOK' /\ HistoryOK' /\ failures' \in Nat
      /\ circuit' \in {"closed", "open", "cooled"} /\ trial' \in BOOLEAN /\ late' \in Nat
  BY EnterTypes DEF Flushers
<1>2. StagesOK'
  BY <1>1 DEF StagesOK, life
<1>3. CountersOK'
  BY DEF EnterFlush, CountersOK, life, metrics, history
<1>4. LoopOff'
  BY DEF LoopOff, life
<1> QED BY <1>1, <1>2, <1>3, <1>4

LEMMA CallerFlushTypes == TypeInv /\ CallerFlush => TypeInv'
<1> SUFFICES ASSUME TypeInv, CallerFlush PROVE TypeInv'
  OBVIOUS
<1> USE DEF TypeInv, TypeOK, CallerFlush
<1>1. /\ QueueOK' /\ TasksOK' /\ HistoryOK' /\ failures' \in Nat
      /\ circuit' \in {"closed", "open", "cooled"} /\ trial' \in BOOLEAN /\ late' \in Nat
      /\ pc'["loop"] = pc["loop"]
  BY EnterTypes DEF Flushers
<1>2. StagesOK'
  BY <1>1 DEF StagesOK, life
<1>3. CountersOK'
  BY DEF EnterFlush, CountersOK, life, metrics, history
<1>4. LoopOff'
  BY <1>1 DEF LoopOff, life
<1> QED BY <1>1, <1>2, <1>3, <1>4

\* A task that waited for the lock either finds nothing or pops its batch.
LEMMA AcquireTypes == ASSUME TypeInv, NEW f \in Flushers, Acquire(f) PROVE TypeInv'
<1> USE DEF TypeInv, TypeOK
<1>1. StagesOK' /\ CountersOK' /\ HistoryOK'
  <2>1. late' \in Nat
    BY DEF Acquire, BeginPost, StagesOK
  <2> QED BY <2>1 DEF Acquire, StagesOK, CountersOK, HistoryOK, life, metrics, history
<1>2. LoopOff'
  <2>1. running' = running /\ pc[f] = "waiting"
    BY DEF Acquire, life
  <2>2. running \/ pc'["loop"] = pc["loop"]
    BY <2>1 DEF Acquire, BeginPost, LoopOff, TasksOK, Flushers
  <2> QED BY <2>1, <2>2 DEF LoopOff
<1>3. CASE buffer = <<>> /\ pc' = [pc EXCEPT ![f] = "idle"]
           /\ UNCHANGED <<lock, buffer, batch>>
  <2>1. QueueOK' /\ TasksOK'
    BY <1>3 DEF Acquire, QueueOK, TasksOK, disk
  <2> QED BY <1>1, <1>2, <2>1
<1>4. CASE buffer # <<>> /\ lock' = f /\ pc' = [pc EXCEPT ![f] = "posting"] /\ PopBatch(f)
  <2>1. /\ buffer' \in Seq(Events) /\ batch' \in [Flushers -> Seq(Events)]
        /\ Len(batch'[f]) \in 1 .. BatchSize
        /\ Len(buffer') \in Nat /\ Len(buffer') + Len(batch'[f]) = Len(buffer)
        /\ \A g \in Flushers : g # f => batch'[g] = batch[g]
    BY <1>4, PopMoves
  <2>2. Len(buffer') <= Capacity
    BY <2>1, ConstantsAssumption DEF QueueOK
  <2>3. QueueOK'
    BY <2>1, <2>2 DEF Acquire, QueueOK, disk
  <2>4. batch'[f] # <<>> /\ Len(batch'[f]) <= BatchSize
    BY <2>1, NonEmpty, ConstantsAssumption
  <2>5. \A g \in Flushers : g # f => pc'[g] = pc[g]
    BY <1>4 DEF TasksOK
  <2>6. /\ lock' \in Flushers \cup {NoFlusher} /\ pc'[f] = "posting"
        /\ pc' \in [Flushers -> {"off", "idle", "waiting", "posting", "requeue",
                                 "backoff", "crashed"}]
    BY <1>4 DEF TasksOK
  <2>7. TasksOK'
    BY <2>1, <2>4, <2>5, <2>6 DEF TasksOK
  <2> QED BY <1>1, <1>2, <2>3, <2>7
<1> QED BY <1>3, <1>4 DEF Acquire, BeginPost

LEMMA AcquireClosedTypes ==
    ASSUME TypeInv, NEW f \in Flushers, AcquireClosed(f) PROVE TypeInv'
<1> USE DEF TypeInv, TypeOK
<1> DEFINE n == Lesser(BatchSize, Len(buffer))
<1>1. Len(buffer) \in Nat /\ n \in 0 .. Len(buffer)
  BY NonEmpty, ConstantsAssumption DEF QueueOK, Lesser
<1>2. /\ buffer' = SubSeq(buffer, n + 1, Len(buffer))
      /\ lost' = lost \cup ToSet(SubSeq(buffer, 1, n)) /\ forgone' = forgone + n
  BY DEF AcquireClosed
<1> HIDE DEF n
<1>3. /\ buffer' \in Seq(Events) /\ Len(buffer') = Len(buffer) - n
      /\ ToSet(SubSeq(buffer, 1, n)) \subseteq Events
  BY <1>1, <1>2, Cut, NonEmpty DEF QueueOK
<1>4. StagesOK'
  BY DEF AcquireClosed, StagesOK, life, breaker
<1>5. QueueOK'
  <2>1. Len(buffer') <= Capacity
    BY <1>1, <1>3, ConstantsAssumption DEF QueueOK
  <2> QED BY <1>3, <2>1 DEF AcquireClosed, QueueOK, disk
<1>6. TasksOK'
  BY DEF AcquireClosed, TasksOK
<1>7. CountersOK'
  BY <1>1, <1>2 DEF AcquireClosed, CountersOK, life, metrics
<1>8. HistoryOK'
  BY <1>2, <1>3 DEF AcquireClosed, HistoryOK
<1>9. LoopOff'
  <2>1. running' = running /\ pc' = [pc EXCEPT ![f] = "idle"] /\ pc[f] = "waiting"
    BY DEF AcquireClosed, life
  <2> QED BY <2>1 DEF LoopOff, TasksOK, Flushers
<1> QED BY <1>4, <1>5, <1>6, <1>7, <1>8, <1>9

\* Leaving the POST of a batch that is not requeued: the task is idle (or gone).
LEMMA BatchOver ==
    ASSUME TypeInv, NEW f \in Flushers, pc[f] = "posting",
           NEW p \in {"off", "idle", "crashed"},
           batch' = [batch EXCEPT ![f] = <<>>], lock' = Released(f),
           pc' = [pc EXCEPT ![f] = p], running' = running
    PROVE  TasksOK' /\ LoopOff' /\ Len(batch[f]) \in Nat /\ ToSet(batch[f]) \subseteq Events
<1> USE DEF TypeInv, TypeOK
<1>1. Len(batch[f]) \in Nat /\ ToSet(batch[f]) \subseteq Events
  BY NonEmpty DEF TasksOK
<1>2. <<>> \in Seq(Events) /\ Len(<<>>) <= BatchSize
  BY Empty, ConstantsAssumption
<1>3. TasksOK'
  BY <1>2 DEF TasksOK, Released
<1>4. LoopOff'
  BY DEF LoopOff, TasksOK, Flushers
<1> QED BY <1>1, <1>3, <1>4

LEMMA AcceptedTypes ==
    ASSUME TypeInv, NEW f \in Flushers, NEW k \in 0 .. BatchSize, PostAccepted(f, k)
    PROVE  TypeInv'
<1> USE DEF TypeInv, TypeOK
<1>1. TasksOK' /\ LoopOff' /\ Len(batch[f]) \in Nat /\ ToSet(batch[f]) \subseteq Events
  BY BatchOver DEF PostAccepted, life
<1>2. /\ k \in 0 .. Len(batch[f]) /\ batch[f] \in Seq(Events)
      /\ ToSet(SubSeq(batch[f], k + 1, Len(batch[f]))) \subseteq Events
  BY Cut, NonEmpty DEF PostAccepted, TasksOK
<1>3. StagesOK'
  <2>1. trial' \in BOOLEAN
    BY Zenon DEF PostAccepted
  <2> QED BY <2>1 DEF PostAccepted, StagesOK, life
<1>4. QueueOK'
  BY DEF PostAccepted, QueueOK, disk
<1>5. CountersOK'
  BY <1>1, <1>2 DEF PostAccepted, CountersOK, life
<1>6. HistoryOK'
  BY <1>2 DEF PostAccepted, HistoryOK
<1> QED BY <1>1, <1>3, <1>4, <1>5, <1>6

LEMMA RejectedTypes ==
    ASSUME TypeInv, NEW f \in Flushers, PostRejected(f) PROVE TypeInv'
<1> USE DEF TypeInv, TypeOK
<1>1. TasksOK' /\ LoopOff' /\ Len(batch[f]) \in Nat /\ ToSet(batch[f]) \subseteq Events
  BY BatchOver DEF PostRejected, life
<1>2. PICK ok \in Writes :
        /\ rejected' = IF ok THEN rejected \cup ToSet(batch[f]) ELSE rejected
        /\ lost' = IF ok THEN lost ELSE lost \cup ToSet(batch[f])
  BY DEF PostRejected
<1>3. StagesOK'
  <2>1. trial' \in BOOLEAN
    BY Zenon DEF PostRejected
  <2> QED BY <2>1 DEF PostRejected, StagesOK, life
<1>4. rejected' \subseteq Events /\ lost' \subseteq Events
  BY <1>1, <1>2, Zenon DEF QueueOK, HistoryOK
<1>5. QueueOK'
  <2>1. tries' \in [Events -> 0 .. MaxRetries]
    BY ConstantsAssumption DEF PostRejected, QueueOK
  <2> QED BY <1>4, <2>1 DEF PostRejected, QueueOK
<1>6. CountersOK'
  BY <1>1 DEF PostRejected, CountersOK, life
<1>7. HistoryOK'
  BY <1>4 DEF PostRejected, HistoryOK
<1> QED BY <1>1, <1>3, <1>5, <1>6, <1>7

LEMMA FailedTypes ==
    ASSUME TypeInv, NEW f \in Flushers, PostFailed(f) PROVE TypeInv'
<1> USE DEF TypeInv, TypeOK
<1>1. StagesOK'
  <2>1. trial' \in BOOLEAN
    BY Zenon DEF PostFailed
  <2> QED BY <2>1 DEF PostFailed, StagesOK, life
<1>2. QueueOK' /\ CountersOK' /\ HistoryOK'
  BY DEF PostFailed, QueueOK, CountersOK, HistoryOK, disk, life, metrics, history
<1>3. TasksOK'
  BY DEF PostFailed, TasksOK
<1>4. LoopOff'
  BY DEF PostFailed, LoopOff, TasksOK, Flushers, life
<1> QED BY <1>1, <1>2, <1>3, <1>4

LEMMA BackoffTypes ==
    ASSUME TypeInv, NEW f \in Flushers, BackoffOver(f) PROVE TypeInv'
<1> USE DEF TypeInv, TypeOK
<1>1. StagesOK' /\ QueueOK' /\ CountersOK' /\ HistoryOK'
  BY DEF BackoffOver, StagesOK, QueueOK, CountersOK, HistoryOK, breaker, disk, life,
         metrics, history
<1>2. TasksOK'
  BY DEF BackoffOver, TasksOK
<1>3. LoopOff'
  BY DEF BackoffOver, LoopOff, TasksOK, Flushers, life
<1> QED BY <1>1, <1>2, <1>3

LEMMA BrokenTypes ==
    ASSUME TypeInv, NEW f \in Flushers, NEW kind, PostBroken(f, kind) PROVE TypeInv'
<1> USE DEF TypeInv, TypeOK
<1>1. TasksOK' /\ LoopOff' /\ Len(batch[f]) \in Nat /\ ToSet(batch[f]) \subseteq Events
  <2> DEFINE p == IF f # "loop" THEN "idle" ELSE IF kind = "other_error" THEN "crashed" ELSE "off"
  <2>1. p \in {"off", "idle", "crashed"}
    OBVIOUS
  <2>2. /\ pc[f] = "posting" /\ batch' = [batch EXCEPT ![f] = <<>>] /\ lock' = Released(f)
        /\ pc' = [pc EXCEPT ![f] = p] /\ running' = running
    BY DEF PostBroken
  <2> HIDE DEF p
  <2> QED BY <2>1, <2>2, BatchOver
<1>2. StagesOK'
  <2>1. trial' \in BOOLEAN
    BY Zenon DEF PostBroken
  <2> QED BY <2>1 DEF PostBroken, StagesOK
<1>3. QueueOK'
  BY DEF PostBroken, QueueOK, disk
<1>4. CountersOK'
  BY <1>1 DEF PostBroken, CountersOK, metrics
<1>5. HistoryOK'
  BY <1>1 DEF PostBroken, HistoryOK
<1> QED BY <1>1, <1>2, <1>3, <1>4, <1>5

\* One iteration of _requeue_or_dead_letter.
LEMMA RequeueTypes ==
    ASSUME TypeInv, NEW f \in Flushers, Requeue(f) PROVE TypeInv'
<1> USE DEF TypeInv, TypeOK
<1> DEFINE e == Last(batch[f])
<1>1. batch[f] \in Seq(Events) /\ batch[f] # <<>> /\ pc[f] = "requeue"
  BY DEF Requeue, TasksOK
<1>2. /\ e \in Events /\ Front(batch[f]) \in Seq(Events)
      /\ Len(Front(batch[f])) = Len(batch[f]) - 1 /\ Len(batch[f]) \in Nat \ {0}
  BY <1>1, LastOff, NonEmpty
<1>3. PICK key \in Keys(e) :
      /\ tries' = [tries EXCEPT ![e] = IF key < MaxRetries THEN key + 1 ELSE 0]
      /\ \/ /\ Len(buffer) < Capacity
            /\ buffer' = <<e>> \o buffer /\ UNCHANGED <<dropped, dlq, lost>>
         \/ /\ dropped' = dropped + 1 /\ UNCHANGED buffer
            /\ \E ok \in Writes : WriteDlq(<<e>>, ok)
      /\ batch' = [batch EXCEPT ![f] = Front(@)]
  BY DEF Requeue, PutBack
<1> HIDE DEF e
<1>4. <<e>> \in Seq(Events) /\ Len(<<e>>) = 1 /\ ToSet(<<e>>) \subseteq Events
  BY <1>2, One
<1>5. StagesOK'
  BY DEF Requeue, StagesOK, breaker, life
<1>6. dlq' \in Seq(Events) /\ lost' \subseteq Events
  <2>1. CASE UNCHANGED <<dlq, lost>>
    BY <2>1 DEF QueueOK, HistoryOK
  <2>2. CASE \E ok \in Writes : WriteDlq(<<e>>, ok)
    <3>1. PICK ok \in Writes : WriteDlq(<<e>>, ok)
      BY <2>2
    <3>2. dlq \o <<e>> \in Seq(Events)
      BY <1>4, Joined DEF QueueOK
    <3> QED BY <1>4, <3>1, <3>2, Zenon DEF WriteDlq, QueueOK, HistoryOK
  <2> QED BY <1>3, <2>1, <2>2
<1>7. QueueOK'
  <2>1. tries' \in [Events -> 0 .. MaxRetries]
    <3>1. key \in 0 .. MaxRetries
      BY <1>2, Zenon DEF Keys, QueueOK
    <3> QED BY <1>2, <1>3, <3>1, ConstantsAssumption DEF QueueOK
  <2>2. buffer' \in Seq(Events) /\ Len(buffer') <= Capacity
    <3> DEFINE b == <<e>> \o buffer
    <3>1. b \in Seq(Events) /\ Len(b) = Len(<<e>>) + Len(buffer)
      BY <1>4, Joined DEF QueueOK
    <3>2. Len(buffer) \in Nat
      BY NonEmpty DEF QueueOK
    <3>3. buffer' = buffer \/ (Len(buffer) < Capacity /\ buffer' = b)
      BY <1>3
    <3> HIDE DEF b
    <3> QED BY <1>4, <3>1, <3>2, <3>3, ConstantsAssumption DEF QueueOK
  <2> QED BY <1>6, <2>1, <2>2 DEF Requeue, QueueOK
<1>8. TasksOK'
  <2>1. batch' \in [Flushers -> Seq(Events)] /\ batch'[f] = Front(batch[f])
    BY <1>2, <1>3 DEF TasksOK
  <2>2. Len(batch'[f]) <= BatchSize
    BY <1>2, <2>1, ConstantsAssumption DEF TasksOK
  <2>3. CASE Len(batch[f]) = 1
    <3>1. batch'[f] = <<>>
      BY <1>2, <2>1, <2>3, NonEmpty
    <3>2. PICK p \in {"backoff", "idle"} : pc' = [pc EXCEPT ![f] = p]
      BY <2>3 DEF Requeue
    <3>3. lock' \in Flushers \cup {NoFlusher}
      BY <2>3 DEF Requeue, Released, TasksOK
    <3> QED BY <1>3, <2>1, <2>2, <3>1, <3>2, <3>3 DEF TasksOK
  <2>4. CASE Len(batch[f]) # 1
    <3>1. batch'[f] # <<>>
      <4>1. Len(batch'[f]) = Len(batch[f]) - 1
        BY <1>2, <2>1
      <4>2. Len(batch'[f]) # 0
        BY ONLY <1>2, <2>4, <4>1
      <4> QED BY <2>1, <4>2, NonEmpty
    <3>2. UNCHANGED <<lock, pc>>
      BY <2>4 DEF Requeue
    <3> QED BY <1>1, <1>3, <2>1, <2>2, <3>1, <3>2 DEF TasksOK
  <2> QED BY <2>3, <2>4
<1>9. CountersOK'
  <2>1. dropped' \in Nat
    BY <1>3 DEF CountersOK
  <2> QED BY <2>1 DEF Requeue, CountersOK, life
<1>10. HistoryOK'
  BY <1>6 DEF Requeue, HistoryOK
<1>11. LoopOff'
  <2>1. running' = running /\ (running \/ pc["loop"] # "requeue")
    BY DEF Requeue, LoopOff, life
  <2> QED BY <1>1, <2>1 DEF Requeue, LoopOff, TasksOK, Flushers
<1> QED BY <1>5, <1>7, <1>8, <1>9, <1>10, <1>11

LEMMA CooldownTypes == TypeInv /\ Cooldown => TypeInv'
BY DEF TypeInv, TypeOK, Cooldown, StagesOK, QueueOK, TasksOK, CountersOK, HistoryOK, LoopOff,
       life, flushing, metrics, disk, history

\* stop(): the background task is cancelled and its batch goes with it.
LEMMA StopBeginTypes == TypeInv /\ StopBegin => TypeInv'
<1> SUFFICES ASSUME TypeInv, StopBegin PROVE TypeInv'
  OBVIOUS
<1> USE DEF TypeInv, TypeOK
<1>1. /\ batch["loop"] \in Seq(Events) /\ Len(batch["loop"]) \in Nat
      /\ ToSet(batch["loop"]) \subseteq Events
  BY NonEmpty DEF TasksOK, Flushers
<1>2. StagesOK'
  <2>1. trial' \in BOOLEAN /\ running' \in BOOLEAN
    BY Zenon DEF StopBegin
  <2>2. stopPc' \in {"none", "flushing", "closing", "stopped", "raised"}
    BY DEF StopBegin
  <2> QED BY <2>1, <2>2 DEF StopBegin, StagesOK
<1>3. QueueOK'
  BY DEF StopBegin, QueueOK, disk
<1>4. TasksOK'
  <2>1. <<>> \in Seq(Events) /\ Len(<<>>) <= BatchSize
    BY Empty, ConstantsAssumption
  <2> QED BY <2>1 DEF StopBegin, TasksOK, Released, Flushers
<1>5. CountersOK'
  BY <1>1, ConstantsAssumption DEF StopBegin, CountersOK, metrics
<1>6. HistoryOK'
  BY <1>1 DEF StopBegin, HistoryOK
<1>7. LoopOff'
  BY DEF StopBegin, LoopOff, TasksOK, Flushers
<1> QED BY <1>2, <1>3, <1>4, <1>5, <1>6, <1>7

LEMMA StopTryTypes == TypeInv /\ StopTry => TypeInv'
<1> SUFFICES ASSUME TypeInv, StopTry PROVE TypeInv'
  OBVIOUS
<1> USE DEF TypeInv, TypeOK
<1>1. attempts' \in 0 .. 3 /\ before' \in 0 .. Capacity
  BY NonEmpty, ConstantsAssumption DEF StopTry, StopMayTry, StagesOK, QueueOK
<1>2. CASE MayFlush
  <2>1. EnterFlush("stop") /\ "stop" \in Flushers /\ pc["stop"] = "idle"
    BY <1>2 DEF StopTry, Flushers
  <2>2. /\ QueueOK' /\ TasksOK' /\ HistoryOK' /\ failures' \in Nat
        /\ circuit' \in {"closed", "open", "cooled"} /\ trial' \in BOOLEAN /\ late' \in Nat
        /\ pc'["loop"] = pc["loop"]
    BY <2>1, EnterTypes
  <2>3. StagesOK'
    BY <1>1, <2>2 DEF StopTry, StagesOK
  <2>4. CountersOK'
    BY <2>1 DEF StopTry, EnterFlush, CountersOK, metrics, history
  <2>5. LoopOff'
    BY <2>2 DEF StopTry, LoopOff
  <2> QED BY <2>2, <2>3, <2>4, <2>5
<1>3. CASE ~MayFlush
  <2>1. UNCHANGED <<buffer, tries, flushing, breaker, metrics, disk, produced, history>>
    BY <1>3 DEF StopTry
  <2>2. StagesOK'
    BY <1>1, <2>1 DEF StopTry, StagesOK, breaker
  <2>3. QueueOK' /\ TasksOK' /\ CountersOK' /\ HistoryOK' /\ LoopOff'
    BY <2>1 DEF StopTry, QueueOK, TasksOK, CountersOK, HistoryOK, LoopOff, flushing, metrics,
                disk, history
  <2> QED BY <2>2, <2>3
<1> QED BY <1>2, <1>3

LEMMA StopDrainTypes == TypeInv /\ StopDrain => TypeInv'
<1> SUFFICES ASSUME TypeInv, StopDrain PROVE TypeInv'
  OBVIOUS
<1> USE DEF TypeInv, TypeOK
<1>1. PICK ok \in Writes : WriteDlq(buffer, ok)
  BY DEF StopDrain
<1>2. /\ dlq \o buffer \in Seq(Events) /\ ToSet(buffer) \subseteq Events
      /\ Len(buffer) \in Nat
  BY Joined, NonEmpty DEF QueueOK
<1>3. dlq' \in Seq(Events) /\ lost' \subseteq Events
  BY <1>1, <1>2, Zenon DEF WriteDlq, QueueOK, HistoryOK
<1>4. StagesOK'
  <2>1. client' \in BOOLEAN
    BY Zenon DEF StopDrain
  <2> QED BY <2>1, ConstantsAssumption DEF StopDrain, StagesOK, breaker
<1>5. QueueOK'
  <2>1. tries' \in [Events -> 0 .. MaxRetries]
    BY ConstantsAssumption DEF StopDrain, QueueOK
  <2>2. buffer' \in Seq(Events) /\ Len(buffer') <= Capacity
    BY Empty, ConstantsAssumption DEF StopDrain
  <2> QED BY <1>3, <2>1, <2>2 DEF StopDrain, QueueOK
<1>6. TasksOK' /\ LoopOff'
  BY DEF StopDrain, TasksOK, LoopOff, flushing
<1>7. CountersOK'
  BY <1>2 DEF StopDrain, CountersOK, metrics
<1>8. HistoryOK'
  BY <1>3 DEF StopDrain, HistoryOK
<1> QED BY <1>4, <1>5, <1>6, <1>7, <1>8

LEMMA StopEndTypes == TypeInv /\ StopEnd => TypeInv'
BY DEF TypeInv, TypeOK, StopEnd, StagesOK, QueueOK, TasksOK, CountersOK, HistoryOK, LoopOff,
       flushing, breaker, metrics, disk, history

LEMMA CrashTypes == TypeInv /\ Crash => TypeInv'
<1> SUFFICES ASSUME TypeInv, Crash PROVE TypeInv'
  OBVIOUS
<1> USE DEF TypeInv, TypeOK
<1>1. Held \subseteq Events
  BY NonEmpty DEF Held, InFlight, QueueOK, TasksOK
<1>2. <<>> \in Seq(Events) /\ Len(<<>>) = 0
  BY Empty
<1>3. StagesOK'
  <2>1. running' \in BOOLEAN /\ client' \in BOOLEAN /\ trial' \in BOOLEAN
    BY Zenon DEF Crash
  <2> QED BY <2>1, ConstantsAssumption DEF Crash, StagesOK
<1>4. QueueOK'
  <2>1. tries' \in [Events -> 0 .. MaxRetries]
    BY ConstantsAssumption DEF Crash, QueueOK
  <2>2. buffer' \in Seq(Events) /\ Len(buffer') <= Capacity
    BY <1>2, ConstantsAssumption DEF Crash
  <2> QED BY <2>1, <2>2 DEF Crash, QueueOK, disk
<1>5. TasksOK'
  BY <1>2, ConstantsAssumption DEF Crash, TasksOK, Flushers
<1>6. CountersOK'
  BY DEF Crash, CountersOK
<1>7. HistoryOK'
  BY <1>1 DEF Crash, HistoryOK
<1>8. LoopOff'
  BY DEF Crash, LoopOff, Flushers
<1> QED BY <1>3, <1>4, <1>5, <1>6, <1>7, <1>8

\* Every step keeps the types.
LEMMA StepTypes == TypeInv /\ [Next]_vars => TypeInv'
<1> SUFFICES ASSUME TypeInv, [Next]_vars PROVE TypeInv'
  OBVIOUS
<1>1. CASE Start \/ Enqueue \/ EnqueueUnserialisable
  BY <1>1, StartTypes, EnqueueTypes, UnserialisableTypes
<1>2. CASE LoopTick \/ CallerFlush \/ Cooldown \/ Crash
  BY <1>2, LoopTickTypes, CallerFlushTypes, CooldownTypes, CrashTypes
<1>3. ASSUME NEW f \in Flushers, Flush(f) PROVE TypeInv'
  BY <1>3, AcquireTypes, AcquireClosedTypes, AcceptedTypes, RejectedTypes, FailedTypes,
     RequeueTypes, BackoffTypes, BrokenTypes DEF Flush
<1>4. CASE Stop
  BY <1>4, StopBeginTypes, StopTryTypes, StopDrainTypes, StopEndTypes DEF Stop
<1>5. CASE UNCHANGED vars
  BY <1>5 DEF vars, TypeInv, TypeOK, StagesOK, QueueOK, TasksOK, CountersOK, HistoryOK,
              LoopOff, life, flushing, breaker, metrics, disk, history
<1> QED BY <1>1, <1>2, <1>3, <1>4, <1>5 DEF Next

\* The limits hold in every reachable state, whatever the capacity, the batch
\* size, the retry budget and the faults: the deque never outgrows its maximum,
\* a batch its size or a retry key its budget (EventReporter, DeadLetterQueue).
THEOREM TypeCorrect == Spec => []TypeOK
<1>1. Spec => []TypeInv
  BY InitTypes, StepTypes, PTL DEF Spec
<1> QED BY <1>1, PTL DEF TypeInv

-----------------------------------------------------------------------------
(* The counters *)

\* The lengths are numbers.
LEMMA Lengths ==
    ASSUME TypeInv
    PROVE  /\ Len(buffer) \in Nat /\ Len(batch["loop"]) \in Nat /\ Len(batch["stop"]) \in Nat
           /\ Len(batch["caller"]) \in Nat /\ InMemory \in Nat
<1> DEFINE b == Len(buffer)
           x == Len(batch["loop"])
           y == Len(batch["stop"])
           z == Len(batch["caller"])
<1>1. /\ buffer \in Seq(Events) /\ batch["loop"] \in Seq(Events)
      /\ batch["stop"] \in Seq(Events) /\ batch["caller"] \in Seq(Events)
  BY DEF TypeInv, TypeOK, QueueOK, TasksOK, Flushers
<1>2. b \in Nat /\ x \in Nat /\ y \in Nat /\ z \in Nat
  BY <1>1, NonEmpty
<1>3. InMemory = b + x + y + z
  BY DEF InMemory
<1> HIDE DEF b, x, y, z
<1>4. InMemory \in Nat
  BY <1>2, <1>3
<1> QED BY <1>2, <1>4 DEF b, x, y, z

\* When only the buffer and one batch change, so does the sum, by as much.
LEMMA Recount ==
    ASSUME TypeInv, TypeInv', NEW f \in Flushers,
           \A g \in Flushers : g # f => batch'[g] = batch[g]
    PROVE  /\ InMemory \in Nat /\ InMemory' \in Nat
           /\ Len(buffer) \in Nat /\ Len(buffer') \in Nat
           /\ Len(batch[f]) \in Nat /\ Len(batch'[f]) \in Nat
           /\ InMemory' + Len(buffer) + Len(batch[f])
                = InMemory + Len(buffer') + Len(batch'[f])
<1> DEFINE b == Len(buffer)
           x == Len(batch["loop"])
           y == Len(batch["stop"])
           z == Len(batch["caller"])
           b1 == Len(buffer')
           x1 == Len(batch'["loop"])
           y1 == Len(batch'["stop"])
           z1 == Len(batch'["caller"])
<1>1. b \in Nat /\ x \in Nat /\ y \in Nat /\ z \in Nat /\ InMemory \in Nat
  BY Lengths
<1>2. b1 \in Nat /\ x1 \in Nat /\ y1 \in Nat /\ z1 \in Nat /\ InMemory' \in Nat
  <2>1. /\ buffer' \in Seq(Events) /\ batch'["loop"] \in Seq(Events)
        /\ batch'["stop"] \in Seq(Events) /\ batch'["caller"] \in Seq(Events)
    BY DEF TypeInv, TypeOK, QueueOK, TasksOK, Flushers
  <2>2. b1 \in Nat /\ x1 \in Nat /\ y1 \in Nat /\ z1 \in Nat
    BY <2>1, NonEmpty
  <2>3. InMemory' = b1 + x1 + y1 + z1
    BY DEF InMemory
  <2> HIDE DEF b1, x1, y1, z1
  <2> QED BY <2>2, <2>3
<1>3. InMemory = b + x + y + z /\ InMemory' = b1 + x1 + y1 + z1
  BY DEF InMemory
<1>4. \/ f = "loop" /\ y1 = y /\ z1 = z
      \/ f = "stop" /\ x1 = x /\ z1 = z
      \/ f = "caller" /\ x1 = x /\ y1 = y
  BY DEF Flushers
<1> HIDE DEF b, x, y, z, b1, x1, y1, z1
<1>5. CASE f = "loop" /\ y1 = y /\ z1 = z
  <2>1. InMemory' + b + x = InMemory + b1 + x1
    BY <1>1, <1>2, <1>3, <1>5
  <2> QED BY <1>1, <1>2, <1>5, <2>1 DEF b, x, b1, x1
<1>6. CASE f = "stop" /\ x1 = x /\ z1 = z
  <2>1. InMemory' + b + y = InMemory + b1 + y1
    BY <1>1, <1>2, <1>3, <1>6
  <2> QED BY <1>1, <1>2, <1>6, <2>1 DEF b, y, b1, y1
<1>7. CASE f = "caller" /\ x1 = x /\ y1 = y
  <2>1. InMemory' + b + z = InMemory + b1 + z1
    BY <1>1, <1>2, <1>3, <1>7
  <2> QED BY <1>1, <1>2, <1>7, <2>1 DEF b, z, b1, z1
<1> QED BY <1>4, <1>5, <1>6, <1>7

\* The counters are numbers.
LEMMA Counts ==
    ASSUME TypeInv
    PROVE  /\ taken \in Nat /\ sent \in Nat /\ dropped \in Nat /\ drained \in Nat
           /\ forgone \in Nat
BY DEF TypeInv, TypeOK, CountersOK

\* Steps that leave the buffer and the batches alone, and all five counters.
LEMMA NothingMoves ==
    ASSUME Accounting, UNCHANGED <<buffer, batch, taken, sent, dropped, drained, forgone>>
    PROVE  Accounting'
BY DEF Accounting, InMemory
-----------------------------------------------------------------------------
LEMMA StartCounts == ASSUME TypeInv, TypeInv', Accounting, Start PROVE Accounting'
<1>a. PICK read \in Seq(Events) :
        /\ buffer' = KeepNewest(buffer \o read)
        /\ dropped' = dropped + Excess(buffer \o read)
        /\ taken' = taken + Len(read)
  BY WhatIsRecovered
<1>b. read \in Seq(Events) /\ buffer \in Seq(Events)
  BY DEF TypeInv, TypeOK, QueueOK
<1> DEFINE m == InMemory
           m1 == InMemory'
           s == buffer \o read
           x == Len(batch["loop"])
           ex == Excess(s)
           b == Len(buffer)
           b1 == Len(buffer')
           d == Len(read)
<1>0. /\ taken = sent + dropped + m + drained + forgone
      /\ taken \in Nat /\ sent \in Nat /\ dropped \in Nat /\ drained \in Nat
      /\ forgone \in Nat
  BY Counts DEF Accounting
<1>1. s \in Seq(Events) /\ d \in Nat
  BY <1>b, Joined, NonEmpty
<1>2. Len(s) = b + d
  BY <1>b, Joined
<1>3. /\ buffer' = KeepNewest(s) /\ dropped' = dropped + ex
      /\ taken' = taken + d /\ batch' = batch
      /\ sent' = sent /\ drained' = drained /\ forgone' = forgone
  BY <1>a DEF Start
<1> HIDE DEF s
<1>4. ex \in Nat /\ b1 + ex = Len(s) /\ Len(s) \in Nat
  BY <1>1, <1>3, ShedOldest
<1>5. /\ m \in Nat /\ m1 \in Nat /\ b \in Nat /\ b1 \in Nat /\ x \in Nat
      /\ m1 + b + x = m + b1 + x
  BY <1>3, Recount DEF Flushers
<1> HIDE DEF m, m1, ex, x, b, b1, d
<1>6. m1 + ex = m + d
  BY <1>1, <1>2, <1>4, <1>5
<1>7. taken + d = sent + (dropped + ex) + m1 + drained + forgone
  BY <1>0, <1>1, <1>4, <1>5, <1>6
<1> QED BY <1>3, <1>7 DEF Accounting, m1

LEMMA EnqueueCounts == ASSUME TypeInv, TypeInv', Accounting, Enqueue PROVE Accounting'
<1> DEFINE m == InMemory
           m1 == InMemory'
           s == Append(buffer, produced + 1)
           x == Len(batch["loop"])
           ex == Excess(s)
           b == Len(buffer)
           b1 == Len(buffer')
<1>0. /\ taken = sent + dropped + m + drained + forgone
      /\ taken \in Nat /\ sent \in Nat /\ dropped \in Nat /\ drained \in Nat
      /\ forgone \in Nat
  BY Counts DEF Accounting
<1>1. s \in Seq(Events) /\ Len(s) = b + 1
  BY ConstantsAssumption DEF TypeInv, TypeOK, QueueOK, CountersOK, Enqueue, Events
<1>2. /\ buffer' = KeepNewest(s) /\ dropped' = dropped + ex
      /\ taken' = taken + 1 /\ batch' = batch
      /\ sent' = sent /\ drained' = drained /\ forgone' = forgone
  BY DEF Enqueue, AppendBounded, flushing
<1> HIDE DEF s
<1>3. ex \in Nat /\ b1 + ex = Len(s)
  BY <1>1, <1>2, ShedOldest
<1>4. /\ m \in Nat /\ m1 \in Nat /\ b \in Nat /\ b1 \in Nat /\ x \in Nat
      /\ m1 + b + x = m + b1 + x
  BY <1>2, Recount DEF Flushers
<1> HIDE DEF m, m1, ex, x, b, b1
<1>5. m1 + ex = m + 1
  BY <1>1, <1>3, <1>4
<1>6. taken + 1 = sent + (dropped + ex) + m1 + drained + forgone
  BY <1>0, <1>3, <1>4, <1>5
<1> QED BY <1>2, <1>6 DEF Accounting, m1

LEMMA UnserialisableCounts ==
    ASSUME TypeInv, Accounting, EnqueueUnserialisable PROVE Accounting'
<1>1. /\ taken' = taken + 1 /\ dropped' = dropped + 1 /\ InMemory' = InMemory
      /\ sent' = sent /\ drained' = drained /\ forgone' = forgone
  BY DEF EnqueueUnserialisable, InMemory, flushing
<1>2. InMemory \in Nat
  BY Lengths
<1> QED BY <1>1, <1>2, Counts DEF Accounting

\* A batch is popped or the task waits: nothing leaves the memory.
LEMMA EnterCounts ==
    ASSUME TypeInv, TypeInv', Accounting, NEW f \in Flushers, EnterFlush(f), pc[f] = "idle"
    PROVE  Accounting'
<1>1. UNCHANGED <<taken, sent, dropped, drained, forgone>>
  BY DEF EnterFlush, metrics, history
<1>2. CASE UNCHANGED <<buffer, batch>>
  BY <1>1, <1>2, NothingMoves
<1>3. CASE PopBatch(f)
  <2>1. /\ Len(buffer') + Len(batch'[f]) = Len(buffer)
        /\ \A g \in Flushers : g # f => batch'[g] = batch[g]
    BY <1>3, PopMoves DEF TypeInv, EnterFlush, MayFlush
  <2>2. Len(batch[f]) = 0
    BY Empty DEF TypeInv, TypeOK, TasksOK
  <2>3. InMemory' = InMemory
    BY <2>1, <2>2, Recount
  <2> QED BY <1>1, <2>3 DEF Accounting
<1> QED BY <1>2, <1>3 DEF EnterFlush, BeginPost

LEMMA AcquireCounts ==
    ASSUME TypeInv, TypeInv', Accounting, NEW f \in Flushers, Acquire(f) PROVE Accounting'
<1>1. UNCHANGED <<taken, sent, dropped, drained, forgone>> /\ pc[f] = "waiting"
  BY DEF Acquire, metrics, history
<1>2. CASE UNCHANGED <<buffer, batch>>
  BY <1>1, <1>2, NothingMoves
<1>3. CASE PopBatch(f) /\ buffer # <<>>
  <2>1. /\ Len(buffer') + Len(batch'[f]) = Len(buffer)
        /\ \A g \in Flushers : g # f => batch'[g] = batch[g]
    BY <1>3, PopMoves DEF TypeInv
  <2>2. Len(batch[f]) = 0
    BY <1>1, Empty DEF TypeInv, TypeOK, TasksOK
  <2>3. InMemory' = InMemory
    BY <2>1, <2>2, Recount
  <2> QED BY <1>1, <2>3 DEF Accounting
<1> QED BY <1>2, <1>3 DEF Acquire, BeginPost

LEMMA AcquireClosedCounts ==
    ASSUME TypeInv, TypeInv', Accounting, NEW f \in Flushers, AcquireClosed(f)
    PROVE  Accounting'
<1> DEFINE m == InMemory
           m1 == InMemory'
           n == Lesser(BatchSize, Len(buffer))
           x == Len(batch[f])
           b == Len(buffer)
           b1 == Len(buffer')
<1>0. /\ taken = sent + dropped + m + drained + forgone
      /\ taken \in Nat /\ sent \in Nat /\ dropped \in Nat /\ drained \in Nat
      /\ forgone \in Nat
  BY Counts DEF Accounting
<1>1. b \in Nat /\ n \in 0 .. b
  BY NonEmpty, ConstantsAssumption DEF TypeInv, TypeOK, QueueOK, Lesser
<1>2. /\ buffer' = SubSeq(buffer, n + 1, b) /\ batch' = batch
      /\ forgone' = forgone + n /\ UNCHANGED <<taken, sent, dropped, drained>>
  BY DEF AcquireClosed, metrics
<1> HIDE DEF n
<1>3. b1 = b - n
  BY <1>1, <1>2, Cut DEF TypeInv, TypeOK, QueueOK
<1>4. /\ m \in Nat /\ m1 \in Nat /\ b1 \in Nat /\ x \in Nat
      /\ m1 + b + x = m + b1 + x
  BY <1>2, Recount
<1> HIDE DEF m, m1, x, b, b1
<1>5. m1 + n = m
  BY <1>1, <1>3, <1>4
<1>6. taken = sent + dropped + m1 + drained + (forgone + n)
  BY <1>0, <1>1, <1>4, <1>5
<1> QED BY <1>2, <1>6 DEF Accounting, m1

\* The batch of one task leaves the memory for one of the counters.
LEMMA BatchCounts ==
    ASSUME TypeInv, TypeInv', Accounting, NEW f \in Flushers, NEW k \in 0 .. Len(batch[f]),
           batch' = [batch EXCEPT ![f] = <<>>], UNCHANGED <<buffer, taken, drained>>,
           sent' = sent + k,
           \/ dropped' = dropped /\ forgone' = forgone + (Len(batch[f]) - k)
           \/ forgone' = forgone /\ dropped' = dropped + (Len(batch[f]) - k)
    PROVE  Accounting'
<1> DEFINE m == InMemory
           m1 == InMemory'
           x == Len(batch[f])
           x1 == Len(batch'[f])
           b == Len(buffer)
           r == x - k
<1>0. /\ taken = sent + dropped + m + drained + forgone
      /\ taken \in Nat /\ sent \in Nat /\ dropped \in Nat /\ drained \in Nat
      /\ forgone \in Nat
  BY Counts DEF Accounting
<1>1. (\A g \in Flushers : g # f => batch'[g] = batch[g]) /\ x1 = 0
  BY Empty DEF TypeInv, TypeOK, TasksOK
<1>2. /\ m \in Nat /\ m1 \in Nat /\ b \in Nat /\ x \in Nat
      /\ m1 + b + x = m + b + x1
  BY <1>1, Recount
<1>3. /\ k \in 0 .. x /\ sent' = sent + k /\ taken' = taken /\ drained' = drained
      /\ \/ dropped' = dropped /\ forgone' = forgone + r
         \/ forgone' = forgone /\ dropped' = dropped + r
  OBVIOUS
<1> HIDE DEF m, m1, x, x1, b
<1>4. m1 + x = m /\ k \in Nat /\ r \in Nat /\ r + k = x
  BY <1>1, <1>2, <1>3
<1> HIDE DEF r
<1>5. /\ taken = (sent + k) + dropped + m1 + drained + (forgone + r)
      /\ taken = (sent + k) + (dropped + r) + m1 + drained + forgone
  BY <1>0, <1>2, <1>4
<1> QED BY <1>3, <1>5 DEF Accounting, m1

LEMMA PostCounts ==
    ASSUME TypeInv, TypeInv', Accounting, NEW f \in Flushers,
           \/ \E k \in 0 .. BatchSize : PostAccepted(f, k)
           \/ PostRejected(f)
           \/ \E kind \in Faults : PostBroken(f, kind)
    PROVE  Accounting'
<1>1. Len(batch[f]) \in Nat /\ sent \in Nat
  BY NonEmpty, Counts DEF TypeInv, TypeOK, TasksOK
<1>2. ASSUME NEW k \in 0 .. BatchSize, PostAccepted(f, k) PROVE Accounting'
  <2>1. /\ k \in 0 .. Len(batch[f]) /\ sent' = sent + k /\ dropped' = dropped
        /\ forgone' = forgone + (Len(batch[f]) - k)
        /\ batch' = [batch EXCEPT ![f] = <<>>] /\ UNCHANGED <<buffer, taken, drained>>
    BY <1>2 DEF PostAccepted
  <2> QED BY <2>1, BatchCounts
<1>3. CASE PostRejected(f)
  <2>1. /\ 0 \in 0 .. Len(batch[f]) /\ sent' = sent + 0 /\ forgone' = forgone
        /\ dropped' = dropped + (Len(batch[f]) - 0)
        /\ batch' = [batch EXCEPT ![f] = <<>>] /\ UNCHANGED <<buffer, taken, drained>>
    BY <1>1, <1>3, Counts DEF PostRejected
  <2> QED BY <2>1, BatchCounts
<1>4. ASSUME NEW kind \in Faults, PostBroken(f, kind) PROVE Accounting'
  <2>1. /\ 0 \in 0 .. Len(batch[f]) /\ sent' = sent + 0 /\ dropped' = dropped
        /\ forgone' = forgone + (Len(batch[f]) - 0)
        /\ batch' = [batch EXCEPT ![f] = <<>>] /\ UNCHANGED <<buffer, taken, drained>>
    BY <1>1, <1>4, Counts DEF PostBroken, metrics
  <2> QED BY <2>1, BatchCounts
<1> QED BY <1>2, <1>3, <1>4

\* The youngest event of the batch goes back to the buffer or is counted dropped.
LEMMA RequeueCounts ==
    ASSUME TypeInv, TypeInv', Accounting, NEW f \in Flushers, Requeue(f) PROVE Accounting'
<1> DEFINE m == InMemory
           m1 == InMemory'
           e == Last(batch[f])
           x == Len(batch[f])
           x1 == Len(batch'[f])
           b == Len(buffer)
           b1 == Len(buffer')
<1>0. /\ taken = sent + dropped + m + drained + forgone
      /\ taken \in Nat /\ sent \in Nat /\ dropped \in Nat /\ drained \in Nat
      /\ forgone \in Nat
  BY Counts DEF Accounting
<1>1. /\ batch[f] \in Seq(Events) /\ batch[f] # <<>> /\ buffer \in Seq(Events)
      /\ batch' = [batch EXCEPT ![f] = Front(@)]
      /\ UNCHANGED <<taken, sent, drained, forgone>>
  BY DEF Requeue, TypeInv, TypeOK, TasksOK, QueueOK
<1>2. e \in Events /\ x1 = x - 1
  BY <1>1, LastOff DEF TypeInv, TypeOK, TasksOK
<1>3. \A g \in Flushers : g # f => batch'[g] = batch[g]
  BY <1>1 DEF TypeInv, TypeOK, TasksOK
<1>4. \/ dropped' = dropped /\ buffer' = <<e>> \o buffer
      \/ dropped' = dropped + 1 /\ buffer' = buffer
  BY DEF Requeue, PutBack
<1> HIDE DEF e
<1>5. Len(<<e>> \o buffer) = Len(<<e>>) + b /\ Len(<<e>>) = 1
  BY <1>1, <1>2, One, Joined
<1>6. /\ m \in Nat /\ m1 \in Nat
      /\ b \in Nat /\ b1 \in Nat /\ x \in Nat
      /\ m1 + b + x = m + b1 + x1
  BY <1>3, Recount
<1>7. \/ dropped' = dropped /\ b1 = 1 + b
      \/ dropped' = dropped + 1 /\ b1 = b
  BY <1>4, <1>5
<1> HIDE DEF m, m1, x, x1, b, b1
<1>8. CASE dropped' = dropped /\ b1 = 1 + b
  <2>1. m1 = m
    BY <1>2, <1>6, <1>8
  <2> QED BY <1>0, <1>1, <1>8, <2>1 DEF Accounting, m1
<1>9. CASE dropped' = dropped + 1 /\ b1 = b
  <2>1. m1 + 1 = m
    BY <1>2, <1>6, <1>9
  <2>2. taken = sent + (dropped + 1) + m1 + drained + forgone
    BY <1>0, <1>6, <2>1
  <2> QED BY <1>1, <1>9, <2>2 DEF Accounting, m1
<1> QED BY <1>7, <1>8, <1>9

\* The batch of the cancelled task is gone, uncounted.
LEMMA StopBeginCounts ==
    ASSUME TypeInv, TypeInv', Accounting, StopBegin PROVE Accounting'
<1>1. /\ Len(batch["loop"]) \in Nat /\ "loop" \in Flushers /\ sent \in Nat
  BY NonEmpty, Counts DEF TypeInv, TypeOK, TasksOK, Flushers
<1>2. /\ 0 \in 0 .. Len(batch["loop"]) /\ sent' = sent + 0 /\ dropped' = dropped
      /\ forgone' = forgone + (Len(batch["loop"]) - 0)
      /\ batch' = [batch EXCEPT !["loop"] = <<>>] /\ UNCHANGED <<buffer, taken, drained>>
  BY <1>1, Counts DEF StopBegin, metrics
<1> QED BY <1>1, <1>2, BatchCounts

LEMMA StopDrainCounts ==
    ASSUME TypeInv, TypeInv', Accounting, StopDrain PROVE Accounting'
<1> DEFINE m == InMemory
           m1 == InMemory'
           x == Len(batch["loop"])
           b == Len(buffer)
           b1 == Len(buffer')
<1>0. /\ taken = sent + dropped + m + drained + forgone
      /\ taken \in Nat /\ sent \in Nat /\ dropped \in Nat /\ drained \in Nat
      /\ forgone \in Nat
  BY Counts DEF Accounting
<1>1. /\ drained' = drained + b /\ buffer' = <<>> /\ batch' = batch
      /\ UNCHANGED <<taken, sent, dropped, forgone>>
  BY DEF StopDrain, flushing, metrics
<1>2. b1 = 0
  BY <1>1, Empty
<1>3. /\ m \in Nat /\ m1 \in Nat /\ b \in Nat /\ x \in Nat
      /\ m1 + b + x = m + b1 + x
  BY <1>1, Recount DEF Flushers
<1> HIDE DEF m, m1, x, b, b1
<1>4. m1 + b = m
  BY <1>2, <1>3
<1>5. taken = sent + dropped + m1 + (drained + b) + forgone
  BY <1>0, <1>3, <1>4
<1> QED BY <1>1, <1>5 DEF Accounting, m1

\* A new process starts its counters, and its memory, from nothing.
LEMMA CrashCounts == ASSUME Crash PROVE Accounting'
<1>1. /\ buffer' = <<>> /\ batch'["loop"] = <<>> /\ batch'["stop"] = <<>>
      /\ batch'["caller"] = <<>> /\ sent' = 0 /\ dropped' = 0 /\ taken' = 0 /\ drained' = 0
      /\ forgone' = 0
  BY DEF Crash, Flushers
<1>2. InMemory' = 0
  BY <1>1, Empty DEF InMemory
<1> QED BY <1>1, <1>2 DEF Accounting

LEMMA StepCounts == ASSUME TypeInv, TypeInv', Accounting, [Next]_vars PROVE Accounting'
<1>1. CASE Start \/ Enqueue \/ EnqueueUnserialisable \/ Crash
  BY <1>1, StartCounts, EnqueueCounts, UnserialisableCounts, CrashCounts
<1>2. CASE LoopTick \/ CallerFlush
  BY <1>2, EnterCounts DEF LoopTick, CallerFlush, Flushers
<1>3. ASSUME NEW f \in Flushers, Flush(f) PROVE Accounting'
  <2>1. CASE PostFailed(f) \/ BackoffOver(f)
    BY <2>1, NothingMoves DEF PostFailed, BackoffOver, metrics, history
  <2> QED BY <1>3, <2>1, AcquireCounts, AcquireClosedCounts, PostCounts, RequeueCounts DEF Flush
<1>4. CASE StopTry
  <2>1. CASE MayFlush
    BY <1>4, <2>1, EnterCounts DEF StopTry, Flushers
  <2>2. CASE ~MayFlush
    BY <1>4, <2>2, NothingMoves DEF StopTry, flushing, metrics, history
  <2> QED BY <2>1, <2>2
<1>5. CASE Cooldown \/ StopEnd \/ UNCHANGED vars
  BY <1>5, NothingMoves DEF Cooldown, StopEnd, vars, flushing, metrics, history
<1> QED BY <1>1, <1>2, <1>3, <1>4, <1>5, StopBeginCounts, StopDrainCounts DEF Next, Stop

LEMMA InitCounts == ASSUME Init PROVE Accounting
<1>1. /\ buffer = <<>> /\ batch["loop"] = <<>> /\ batch["stop"] = <<>>
      /\ batch["caller"] = <<>> /\ sent = 0 /\ dropped = 0 /\ taken = 0 /\ drained = 0
      /\ forgone = 0
  BY DEF Init, Flushers
<1>2. InMemory = 0
  BY <1>1, Empty DEF InMemory
<1> QED BY <1>1, <1>2 DEF Accounting

\* `metrics` and the memory account for every event a process was handed: what
\* is neither sent, dropped, buffered nor saved by stop() is exactly what the code
\* loses uncounted (a cancelled or broken POST, events the platform left out).
THEOREM AccountingHolds == Spec => []Accounting
<1>1. Spec => []TypeInv
  BY InitTypes, StepTypes, PTL DEF Spec
<1>2. TypeInv /\ TypeInv' /\ Accounting /\ [Next]_vars => Accounting'
  BY StepCounts
<1>3. Init => Accounting
  BY InitCounts
<1> QED BY <1>1, <1>2, <1>3, PTL DEF Spec

\* Every event with a place or a verdict has been produced.
Placed == Held \cup ToSet(dlq) \cup rejected \cup lost \cup copied
Born ==
    /\ \A e \in Placed : e <= produced
    /\ \A e \in Events : verdict[e] # "none" => e <= produced

\* What is kept for inspection was refused.
Refusals == \A e \in rejected \ copied : verdict[e] = "refused"

EventInv == HeldOnce /\ FinalVerdict /\ Kept /\ Born /\ Refusals

\* The places a step of task f may move events between, and the events it produces.
Here(f) == ToSet(buffer) \cup ToSet(batch[f]) \cup ToSet(dlq)
Fresh == (produced + 1) .. produced'

\* A step of task f keeps events apart that no recovery has copied ...
Separates(f) ==
    /\ OnceBut(buffer', copied') /\ OnceBut(dlq', copied') /\ OnceBut(batch'[f], copied')
    /\ ToSet(buffer') \cap ToSet(batch'[f]) \subseteq copied'
    /\ ToSet(buffer') \cap ToSet(dlq') \subseteq copied'
    /\ ToSet(batch'[f]) \cap ToSet(dlq') \subseteq copied'
    /\ lost' \cap Here(f)' \subseteq copied'

\* ... moves them between the places of f, out of them, or, when it produces them,
\* into them, ...
Moves(f) ==
    /\ produced <= produced'
    /\ \A g \in Flushers : g # f => batch'[g] = batch[g]
    /\ Here(f)' \subseteq Here(f) \cup Fresh
    /\ ToSet(dlq') \subseteq Here(f)
    /\ lost \subseteq lost' /\ lost' \subseteq lost \cup Here(f) \cup Fresh
    /\ rejected \subseteq rejected' /\ rejected' \subseteq rejected \cup ToSet(batch[f])
    /\ copied \subseteq copied' /\ copied' \subseteq copied \cup ToSet(dlq)

\* ... and passes a verdict only on those that leave them with it.
Judges(f) ==
    /\ \A e \in Events :
          \/ verdict'[e] = verdict[e]
          \/ /\ e \in ToSet(batch[f]) /\ verdict'[e] # "none"
             /\ e \in Here(f)' => e \in copied'
    /\ \A e \in rejected' \ rejected : verdict'[e] = "refused"
    /\ \A e \in Here(f) \cup Fresh :
          e \in Here(f)' \cup lost' \cup rejected' \/ verdict'[e] = "accepted"

Conserves(f) == Separates(f) /\ Moves(f) /\ Judges(f)

\* What the events of a step may meet with.
Fates ==
    /\ produced <= produced'
    /\ lost \subseteq lost' /\ ToSet(dlq') \subseteq ToSet(dlq) \cup Held
    /\ copied \subseteq copied' /\ copied' \subseteq copied \cup ToSet(dlq)
    /\ \A e \in Events \ copied :
          verdict'[e] # verdict[e] => e \in Held /\ verdict[e] = "none"

LEMMA HeldWhere ==
    ASSUME NEW e
    PROVE  e \in Held <=> e \in ToSet(buffer) \/ \E f \in Flushers : e \in ToSet(batch[f])
BY DEF Held, InFlight

LEMMA HeldWhereNext ==
    ASSUME NEW e
    PROVE  e \in Held' <=> e \in ToSet(buffer') \/ \E f \in Flushers : e \in ToSet(batch'[f])
BY DEF Held, InFlight

\* More events that may be anywhere.
LEMMA Weaker ==
    ASSUME NEW s, NEW C, NEW D, OnceBut(s, C), C \subseteq D
    PROVE  OnceBut(s, D)
BY DEF OnceBut

LEMMA Conserved ==
    ASSUME TypeInv, TypeInv', EventInv, NEW f \in Flushers, Conserves(f)
    PROVE  EventInv' /\ Fates
<1>1. /\ produced \in Nat /\ produced' \in Nat /\ produced' <= MaxEvents
      /\ ToSet(buffer) \subseteq Events /\ ToSet(dlq) \subseteq Events
      /\ lost \subseteq Events /\ rejected \subseteq Events
      /\ lost' \subseteq Events /\ rejected' \subseteq Events
      /\ \A g \in Flushers : ToSet(batch[g]) \subseteq Events
  <2>1. /\ produced \in 0 .. MaxEvents /\ produced' \in 0 .. MaxEvents /\ MaxEvents \in Nat
        /\ lost \subseteq Events /\ lost' \subseteq Events
        /\ rejected \subseteq Events /\ rejected' \subseteq Events
    BY ConstantsAssumption DEF TypeInv, TypeOK, CountersOK, HistoryOK, QueueOK
  <2>2. /\ ToSet(buffer) \subseteq Events /\ ToSet(dlq) \subseteq Events
        /\ \A g \in Flushers : ToSet(batch[g]) \subseteq Events
    BY NonEmpty DEF TypeInv, TypeOK, QueueOK, TasksOK
  <2> QED BY <2>1, <2>2
<1>2. \A e \in Fresh : /\ e > produced /\ e <= produced' /\ e \in Events
                       /\ e \notin Placed /\ verdict[e] = "none"
  BY <1>1, ConstantsAssumption DEF Fresh, EventInv, Born, Events
<1>3. /\ \A g \in Flushers : g # f => batch'[g] = batch[g]
      /\ \A e : e \in Here(f)' => e \in Here(f) \/ e \in Fresh
      /\ copied \subseteq copied'
  BY DEF Conserves, Moves
<1>4. \A e : e \in Here(f) => e \in Held \/ e \in ToSet(dlq)
  BY HeldWhere DEF Here
<1>5. \A e : e \in Held' \cup ToSet(dlq') =>
          e \in Here(f)' \/ \E g \in Flushers : g # f /\ e \in ToSet(batch[g])
  BY <1>3, HeldWhereNext DEF Here
<1>6. \A g \in Flushers : g # f =>
          /\ ToSet(batch[g]) \cap Here(f) \subseteq copied /\ ToSet(batch[g]) \cap Fresh = {}
          /\ ToSet(batch[g]) \cap lost \subseteq copied
          /\ ToSet(batch[g]) \cap lost' \subseteq copied
  <2> SUFFICES ASSUME NEW g \in Flushers, g # f
               PROVE  /\ ToSet(batch[g]) \cap Here(f) \subseteq copied
                      /\ ToSet(batch[g]) \cap Fresh = {}
                      /\ ToSet(batch[g]) \cap lost \subseteq copied
                      /\ ToSet(batch[g]) \cap lost' \subseteq copied
    OBVIOUS
  <2>1. ToSet(batch[g]) \cap Here(f) \subseteq copied
    BY DEF EventInv, HeldOnce, Here
  <2>2. ToSet(batch[g]) \cap Fresh = {}
    BY <1>2, HeldWhere DEF Placed
  <2>3. ToSet(batch[g]) \cap lost \subseteq copied
    BY HeldWhere DEF EventInv, HeldOnce
  <2> QED BY <2>1, <2>2, <2>3 DEF Conserves, Moves
<1>7. HeldOnce'
  <2>0. \A g \in Flushers : g # f => OnceBut(batch'[g], copied')
    BY <1>3, Weaker DEF EventInv, HeldOnce
  <2>1. \A g \in Flushers : g # f => /\ ToSet(batch'[g]) \cap ToSet(buffer') \subseteq copied'
                                     /\ ToSet(batch'[g]) \cap ToSet(dlq') \subseteq copied'
                                     /\ ToSet(batch'[g]) \cap ToSet(batch'[f]) \subseteq copied'
                                     /\ ToSet(batch'[g]) \cap lost' \subseteq copied'
    BY <1>3, <1>6 DEF Here
  <2>2. \A g, h \in Flushers : g # h => ToSet(batch'[g]) \cap ToSet(batch'[h]) \subseteq copied'
    <3> SUFFICES ASSUME NEW g \in Flushers, NEW h \in Flushers, g # h
                 PROVE  ToSet(batch'[g]) \cap ToSet(batch'[h]) \subseteq copied'
      OBVIOUS
    <3>1. CASE g = f \/ h = f
      BY <2>1, <3>1
    <3>2. CASE g # f /\ h # f
      BY <1>3, <3>2 DEF EventInv, HeldOnce
    <3> QED BY <3>1, <3>2
  <2>3. lost' \cap (Held' \cup ToSet(dlq')) \subseteq copied'
    BY <1>3, <1>5, <1>6 DEF Conserves, Separates
  <2>4. \A g \in Flushers : /\ OnceBut(batch'[g], copied')
                            /\ ToSet(batch'[g]) \cap ToSet(buffer') \subseteq copied'
                            /\ ToSet(batch'[g]) \cap ToSet(dlq') \subseteq copied'
    BY <2>0, <2>1 DEF Conserves, Separates
  <2> QED BY <2>2, <2>3, <2>4 DEF Conserves, Separates, HeldOnce
<1>8. FinalVerdict'
  <2> SUFFICES ASSUME NEW e \in Events, e \notin copied', verdict'[e] # "none",
                      e \in Held' \cup ToSet(dlq')
               PROVE  FALSE
    BY DEF FinalVerdict
  <2>0. e \notin copied
    BY <1>3
  <2>1. CASE verdict'[e] = verdict[e]
    <3>1. e \notin Held \cup ToSet(dlq) /\ e \notin Fresh
      BY <1>2, <2>0, <2>1 DEF EventInv, FinalVerdict
    <3>2. e \notin Here(f)
      BY <1>4, <3>1
    <3> QED BY <1>3, <1>5, <3>1, <3>2, HeldWhere
  <2>2. CASE e \in ToSet(batch[f]) /\ e \notin Here(f)'
    BY <1>5, <1>6, <2>0, <2>2 DEF Here
  <2> QED BY <2>1, <2>2 DEF Conserves, Judges
<1>9. Kept'
  <2> SUFFICES ASSUME NEW e \in 1 .. produced', verdict'[e] # "accepted"
               PROVE  e \in Held' \cup ToSet(dlq') \cup rejected' \cup lost'
    BY DEF Kept
  <2>0. e \in Events
    BY <1>1, ConstantsAssumption DEF Events
  <2>1. \A x : x \in Here(f)' => x \in Held' \cup ToSet(dlq')
    BY HeldWhereNext DEF Here
  <2>2. CASE e \in Here(f) \cup Fresh
    BY <2>1, <2>2 DEF Conserves, Judges
  <2>3. CASE e \in rejected \cup lost
    BY <2>3 DEF Conserves, Moves
  <2>4. CASE \E g \in Flushers : g # f /\ e \in ToSet(batch[g])
    BY <1>3, <2>4, HeldWhereNext
  <2>5. CASE verdict[e] = "accepted"
    <3>1. verdict'[e] # verdict[e]
      BY <2>5
    <3>2. e \in ToSet(batch[f])
      BY <2>0, <3>1 DEF Conserves, Judges
    <3> QED BY <2>2, <3>2 DEF Here
  <2>6. e <= produced \/ e \in Fresh
    BY <1>1 DEF Fresh
  <2>7. CASE e <= produced
    <3>1. e \in Held \cup ToSet(dlq) \cup rejected \cup lost \/ verdict[e] = "accepted"
      BY <1>1, <2>7 DEF EventInv, Kept
    <3>2. e \in Held => e \in Here(f) \/ \E g \in Flushers : g # f /\ e \in ToSet(batch[g])
      BY HeldWhere DEF Here
    <3>3. e \in ToSet(dlq) => e \in Here(f)
      BY DEF Here
    <3> QED BY <2>2, <2>3, <2>4, <2>5, <3>1, <3>2, <3>3
  <2> QED BY <2>2, <2>6, <2>7
<1>10. Born'
  <2>1. ASSUME NEW e \in Placed' PROVE e <= produced'
    <3>1. e \in Placed \cup Fresh
      <4>1. CASE e \in Held' \cup ToSet(dlq')
        BY <1>3, <1>4, <1>5, <4>1, HeldWhere DEF Placed
      <4>2. CASE e \in rejected' \cup lost'
        BY <1>4, <4>2, HeldWhere DEF Conserves, Moves, Placed
      <4>3. CASE e \in copied'
        BY <4>3 DEF Conserves, Moves, Placed
      <4> QED BY <4>1, <4>2, <4>3 DEF Placed
    <3>2. CASE e \in Fresh
      BY <1>2, <3>2
    <3>3. CASE e \in Placed
      <4>1. e <= produced
        BY <3>3 DEF EventInv, Born
      <4>2. Placed \subseteq Events
        BY <1>1, HeldWhere DEF Placed, TypeInv, TypeOK, HistoryOK
      <4>3. e \in Nat
        BY <3>3, <4>2 DEF Events
      <4> QED BY <1>1, <4>1, <4>3 DEF Conserves, Moves
    <3> QED BY <3>1, <3>2, <3>3
  <2>2. ASSUME NEW e \in Events, verdict'[e] # "none" PROVE e <= produced'
    <3>1. e \in ToSet(batch[f]) \/ verdict[e] # "none"
      BY <2>2 DEF Conserves, Judges
    <3>2. e <= produced
      BY <3>1, HeldWhere DEF EventInv, Born, Placed
    <3> QED BY <1>1, <3>2 DEF Events, Conserves, Moves
  <2> QED BY <2>1, <2>2 DEF Born
<1>11. Refusals'
  <2> SUFFICES ASSUME NEW e \in rejected', e \notin copied' PROVE verdict'[e] = "refused"
    BY DEF Refusals
  <2>0. e \notin copied
    BY <1>3
  <2>1. CASE e \in rejected
    <3>1. verdict[e] = "refused" /\ e \in Events
      BY <1>1, <2>0, <2>1 DEF EventInv, Refusals
    <3>2. e \notin ToSet(batch[f])
      BY <2>0, <3>1, HeldWhere DEF EventInv, FinalVerdict
    <3> QED BY <3>1, <3>2 DEF Conserves, Judges
  <2> QED BY <2>1 DEF Conserves, Judges
<1>12. Fates
  <2>1. ToSet(dlq') \subseteq ToSet(dlq) \cup Held
    BY <1>4 DEF Conserves, Moves
  <2>2. \A e \in Events \ copied :
             verdict'[e] # verdict[e] => e \in Held /\ verdict[e] = "none"
    BY HeldWhere DEF Conserves, Judges, EventInv, FinalVerdict
  <2> QED BY <2>1, <2>2 DEF Fates, Conserves, Moves
<1> QED BY <1>7, <1>8, <1>9, <1>10, <1>11, <1>12 DEF EventInv

\* Steps that leave every event where it is.
LEMMA StillConserves ==
    ASSUME TypeInv, EventInv, UNCHANGED <<buffer, batch, dlq, lost, rejected, verdict, produced,
                                          copied>>,
           NEW f \in Flushers
    PROVE  Conserves(f)
<1>1. produced \in Nat /\ Fresh = {}
  BY ConstantsAssumption DEF TypeInv, TypeOK, CountersOK, Fresh
<1>2. /\ OnceBut(buffer, copied) /\ OnceBut(dlq, copied) /\ OnceBut(batch[f], copied)
      /\ ToSet(buffer) \cap ToSet(batch[f]) \subseteq copied
      /\ ToSet(buffer) \cap ToSet(dlq) \subseteq copied
      /\ ToSet(batch[f]) \cap ToSet(dlq) \subseteq copied /\ lost \cap Here(f) \subseteq copied
  BY HeldWhere DEF EventInv, HeldOnce, Here
<1>3. Here(f)' = Here(f)
  BY DEF Here
<1> QED BY <1>1, <1>2, <1>3 DEF Conserves, Separates, Moves, Judges, Here

\* A step of task f starts from places that share no event but the copied ones.
LEMMA Apart ==
    ASSUME TypeInv, EventInv, NEW f \in Flushers
    PROVE  /\ buffer \in Seq(Events) /\ dlq \in Seq(Events) /\ batch[f] \in Seq(Events)
           /\ OnceBut(buffer, copied) /\ OnceBut(dlq, copied) /\ OnceBut(batch[f], copied)
           /\ ToSet(buffer) \cap ToSet(batch[f]) \subseteq copied
           /\ ToSet(buffer) \cap ToSet(dlq) \subseteq copied
           /\ ToSet(batch[f]) \cap ToSet(dlq) \subseteq copied
           /\ lost \cap Here(f) \subseteq copied
           /\ ToSet(batch[f]) \subseteq Events /\ produced \in Nat
<1>1. /\ buffer \in Seq(Events) /\ dlq \in Seq(Events) /\ batch[f] \in Seq(Events)
      /\ produced \in Nat
  BY ConstantsAssumption DEF TypeInv, TypeOK, QueueOK, TasksOK, CountersOK
<1>2. /\ OnceBut(buffer, copied) /\ OnceBut(dlq, copied) /\ OnceBut(batch[f], copied)
      /\ ToSet(buffer) \cap ToSet(batch[f]) \subseteq copied
      /\ ToSet(buffer) \cap ToSet(dlq) \subseteq copied
      /\ ToSet(batch[f]) \cap ToSet(dlq) \subseteq copied /\ lost \cap Here(f) \subseteq copied
  BY HeldWhere DEF EventInv, HeldOnce, Here
<1>3. ToSet(batch[f]) \subseteq Events
  BY <1>1, NonEmpty
<1> QED BY <1>1, <1>2, <1>3

\* What recovery hands over leaves the file, or is copied.
LEMMA StartEvents == ASSUME TypeInv, TypeInv', EventInv, Start PROVE Conserves("loop")
<1>0. "loop" \in Flushers
  BY DEF Flushers
<1>a. PICK read \in Seq(Events) :
        /\ ToSet(read) \subseteq ToSet(dlq)
        /\ \/ read = dlq /\ dlq' = <<>> /\ copied' = copied
           \/ dlq' = dlq /\ copied' = copied \cup ToSet(read)
        /\ buffer' = KeepNewest(buffer \o read)
        /\ lost' = lost \cup ToSet(SubSeq(buffer \o read, 1, Excess(buffer \o read)))
  BY WhatIsRecovered
<1> DEFINE s == buffer \o read
           old == ToSet(SubSeq(s, 1, Excess(s)))
<1>b. /\ OnceBut(read, copied') /\ OnceBut(buffer, copied') /\ OnceBut(dlq', copied')
      /\ ToSet(buffer) \cap ToSet(read) \subseteq copied'
      /\ ToSet(dlq') \cap ToSet(read) \subseteq copied'
      /\ ToSet(dlq') \subseteq ToSet(dlq) /\ ToSet(dlq) \subseteq ToSet(dlq') \cup ToSet(read)
      /\ copied \subseteq copied' /\ copied' \subseteq copied \cup ToSet(dlq)
  <2>1. CASE read = dlq /\ dlq' = <<>> /\ copied' = copied
    <3>1. ToSet(dlq') = {} /\ OnceBut(dlq', copied')
      BY <2>1, Empty
    <3> QED BY <1>0, <2>1, <3>1, Apart
  <2>2. CASE dlq' = dlq /\ copied' = copied \cup ToSet(read)
    <3>1. OnceBut(read, copied')
      BY <1>a, <2>2 DEF OnceBut, ToSet
    <3>2. OnceBut(buffer, copied') /\ OnceBut(dlq', copied')
      BY <1>0, <2>2, Apart, Weaker
    <3> QED BY <1>a, <2>2, <3>1, <3>2
  <2> QED BY <1>a, <2>1, <2>2
<1>1. s \in Seq(Events) /\ ToSet(s) = ToSet(buffer) \cup ToSet(read) /\ OnceBut(s, copied')
  BY <1>0, <1>b, Apart, Joined
<1>2. /\ buffer' = KeepNewest(s) /\ lost' = lost \cup old
      /\ UNCHANGED <<batch, rejected, verdict, produced>>
  BY <1>a DEF Start
<1> HIDE DEF s
<1>3. /\ ToSet(s) = old \cup ToSet(buffer')
      /\ OnceBut(buffer', copied') /\ old \cap ToSet(buffer') \subseteq copied'
  BY <1>1, <1>2, ShedOldest
<1> HIDE DEF old
<1>5. Fresh = {}
  BY <1>0, <1>2, Apart DEF Fresh
<1>6. Separates("loop")
  <2>1. OnceBut(batch'["loop"], copied')
    BY <1>0, <1>b, <1>2, Apart, Weaker
  <2>2. /\ ToSet(buffer') \cap ToSet(batch'["loop"]) \subseteq copied'
        /\ ToSet(batch'["loop"]) \cap ToSet(dlq') \subseteq copied'
    BY <1>0, <1>a, <1>b, <1>1, <1>2, <1>3, Apart
  <2>3. ToSet(buffer') \cap ToSet(dlq') \subseteq copied'
    BY <1>0, <1>a, <1>b, <1>1, <1>2, <1>3, Apart
  <2>4. lost' \cap Here("loop")' \subseteq copied'
    <3>1. lost \cap Here("loop")' \subseteq copied'
      BY <1>0, <1>a, <1>b, <1>1, <1>2, <1>3, Apart DEF Here
    <3>2. old \cap Here("loop")' \subseteq copied'
      BY <1>0, <1>a, <1>b, <1>1, <1>2, <1>3, Apart DEF Here
    <3> QED BY <1>2, <3>1, <3>2
  <2> QED BY <1>b, <1>3, <2>1, <2>2, <2>3, <2>4 DEF Separates
<1>7. Moves("loop")
  BY <1>0, <1>a, <1>b, <1>1, <1>2, <1>3, <1>5, Apart DEF Moves, Here
<1>8. Judges("loop")
  BY <1>0, <1>a, <1>b, <1>1, <1>2, <1>3, <1>5, Apart DEF Judges, Here
<1> QED BY <1>6, <1>7, <1>8 DEF Conserves

\* An event that has just been produced is nowhere yet.
LEMMA FreshNowhere ==
    ASSUME TypeInv, EventInv, produced' = produced + 1, produced < MaxEvents
    PROVE  /\ Fresh = {produced + 1} /\ produced + 1 \in Events /\ produced + 1 \notin Placed
           /\ \A f \in Flushers : produced + 1 \notin Here(f)
<1>1. produced \in Nat /\ Fresh = {produced + 1} /\ produced + 1 \in Events
  BY ConstantsAssumption DEF TypeInv, TypeOK, CountersOK, Fresh, Events
<1>2. produced + 1 \notin Placed
  BY <1>1 DEF EventInv, Born
<1> QED BY <1>1, <1>2, HeldWhere DEF Placed, Here

LEMMA EnqueueEvents == ASSUME TypeInv, TypeInv', EventInv, Enqueue PROVE Conserves("loop")
<1>0. "loop" \in Flushers
  BY DEF Flushers
<1> DEFINE e == produced + 1
           s == Append(buffer, e)
           old == ToSet(SubSeq(s, 1, Excess(s)))
<1>1. /\ Fresh = {e} /\ e \in Events /\ e \notin Placed /\ e \notin Here("loop")
      /\ produced' = produced + 1
  BY <1>0, FreshNowhere DEF Enqueue
<1>2. /\ buffer' = KeepNewest(s) /\ lost' = lost \cup old
      /\ UNCHANGED <<batch, dlq, rejected, verdict, copied>>
  BY DEF Enqueue, AppendBounded, flushing, disk
<1> HIDE DEF e
<1>3. s \in Seq(Events) /\ ToSet(s) = ToSet(buffer) \cup {e} /\ OnceBut(s, copied)
  <2> DEFINE t == <<e>>
  <2>1. s = buffer \o t
    BY <1>0, <1>1, Apart, AppendIsConcat
  <2>2. t \in Seq(Events) /\ ToSet(t) = {e} /\ \A C : OnceBut(t, C)
    BY <1>1, One
  <2> HIDE DEF s, t
  <2>3. ToSet(buffer) \cap ToSet(t) \subseteq copied
    BY <1>1, <2>2 DEF Here
  <2> QED BY <1>0, <2>1, <2>2, <2>3, Apart, Joined
<1> HIDE DEF s
<1>4. /\ ToSet(s) = old \cup ToSet(buffer')
      /\ OnceBut(buffer', copied) /\ old \cap ToSet(buffer') \subseteq copied
  BY <1>2, <1>3, ShedOldest
<1> HIDE DEF old
<1>5. Separates("loop")
  BY <1>0, <1>1, <1>2, <1>3, <1>4, Apart DEF Separates, Here, Placed
<1>6. Moves("loop")
  BY <1>0, <1>1, <1>2, <1>3, <1>4, Apart DEF Moves, Here
<1>7. Judges("loop")
  BY <1>0, <1>1, <1>2, <1>3, <1>4, Apart DEF Judges, Here
<1> QED BY <1>5, <1>6, <1>7 DEF Conserves

LEMMA UnserialisableEvents ==
    ASSUME TypeInv, TypeInv', EventInv, EnqueueUnserialisable PROVE Conserves("loop")
<1>0. "loop" \in Flushers
  BY DEF Flushers
<1>1. /\ Fresh = {produced + 1} /\ produced + 1 \notin Here("loop")
      /\ produced' = produced + 1
  BY <1>0, FreshNowhere DEF EnqueueUnserialisable
<1>2. /\ lost' = lost \cup {produced + 1}
      /\ UNCHANGED <<buffer, batch, dlq, rejected, verdict, copied>>
  BY DEF EnqueueUnserialisable, flushing, disk
<1>3. Separates("loop")
  BY <1>0, <1>1, <1>2, Apart DEF Separates, Here
<1>4. Moves("loop") /\ Judges("loop")
  BY <1>0, <1>1, <1>2, Apart DEF Moves, Judges, Here
<1> QED BY <1>3, <1>4 DEF Conserves

\* A popped batch is in the task's hands.
LEMMA PopEvents ==
    ASSUME TypeInv, TypeInv', EventInv, NEW f \in Flushers, buffer # <<>>, PopBatch(f),
           pc[f] \in {"idle", "waiting"},
           UNCHANGED <<dlq, lost, rejected, verdict, produced, copied>>
    PROVE  Conserves(f)
<1>1. /\ ToSet(buffer) = ToSet(batch'[f]) \cup ToSet(buffer')
      /\ OnceBut(batch'[f], copied) /\ OnceBut(buffer', copied)
      /\ ToSet(batch'[f]) \cap ToSet(buffer') \subseteq copied
      /\ \A g \in Flushers : g # f => batch'[g] = batch[g]
  BY PopMoves, Apart DEF TypeInv
<1>2. ToSet(batch[f]) = {}
  BY Empty DEF TypeInv, TypeOK, TasksOK
<1>3. Fresh = {}
  BY Apart DEF Fresh
<1>4. Separates(f)
  BY <1>1, Apart DEF Separates, Here
<1>5. Moves(f) /\ Judges(f)
  BY <1>1, <1>2, <1>3, Apart DEF Moves, Judges, Here
<1> QED BY <1>4, <1>5 DEF Conserves

LEMMA EnterEvents ==
    ASSUME TypeInv, TypeInv', EventInv, NEW f \in Flushers, EnterFlush(f), pc[f] = "idle"
    PROVE  Conserves(f)
<1>1. buffer # <<>> /\ UNCHANGED <<dlq, lost, rejected, verdict, produced, copied>>
  BY DEF EnterFlush, MayFlush, disk, history
<1>2. CASE PopBatch(f)
  BY <1>1, <1>2, PopEvents
<1>3. CASE UNCHANGED <<buffer, batch>>
  BY <1>1, <1>3, StillConserves
<1> QED BY <1>2, <1>3 DEF EnterFlush, BeginPost

LEMMA AcquireEvents ==
    ASSUME TypeInv, TypeInv', EventInv, NEW f \in Flushers, Acquire(f) PROVE Conserves(f)
<1>1. pc[f] = "waiting" /\ UNCHANGED <<dlq, lost, rejected, verdict, produced, copied>>
  BY DEF Acquire, disk, history
<1>2. CASE PopBatch(f) /\ buffer # <<>>
  BY <1>1, <1>2, PopEvents
<1>3. CASE UNCHANGED <<buffer, batch>>
  BY <1>1, <1>3, StillConserves
<1> QED BY <1>2, <1>3 DEF Acquire, BeginPost

LEMMA AcquireClosedEvents ==
    ASSUME TypeInv, TypeInv', EventInv, NEW f \in Flushers, AcquireClosed(f)
    PROVE  Conserves(f)
<1> DEFINE n == Lesser(BatchSize, Len(buffer))
           old == ToSet(SubSeq(buffer, 1, n))
<1>1. Len(buffer) \in Nat /\ n \in 0 .. Len(buffer)
  BY NonEmpty, ConstantsAssumption DEF TypeInv, TypeOK, QueueOK, Lesser
<1>2. /\ buffer' = SubSeq(buffer, n + 1, Len(buffer)) /\ lost' = lost \cup old
      /\ UNCHANGED <<batch, dlq, rejected, verdict, produced, copied>>
  BY DEF AcquireClosed, disk
<1> HIDE DEF n
<1>3. /\ ToSet(buffer) = old \cup ToSet(buffer')
      /\ OnceBut(buffer', copied) /\ old \cap ToSet(buffer') \subseteq copied
  BY <1>1, <1>2, Cut, Apart
<1> HIDE DEF old
<1>4. Fresh = {}
  BY <1>2, Apart DEF Fresh
<1>5. Separates(f)
  BY <1>2, <1>3, Apart DEF Separates, Here
<1>6. Moves(f) /\ Judges(f)
  BY <1>2, <1>3, <1>4, Apart DEF Moves, Judges, Here
<1> QED BY <1>5, <1>6 DEF Conserves

\* A batch that is not put back: its events are lost, refused or accepted.
LEMMA DisposedEvents ==
    ASSUME TypeInv, TypeInv', EventInv, NEW f \in Flushers,
           batch' = [batch EXCEPT ![f] = <<>>], UNCHANGED <<buffer, dlq, produced, copied>>,
           lost \subseteq lost', lost' \subseteq lost \cup ToSet(batch[f]),
           rejected \subseteq rejected', rejected' \subseteq rejected \cup ToSet(batch[f]),
           Judges(f)
    PROVE  Conserves(f)
<1>1. /\ ToSet(batch'[f]) = {} /\ OnceBut(batch'[f], copied)
      /\ \A g \in Flushers : g # f => batch'[g] = batch[g]
  BY Empty DEF TypeInv, TypeOK, TasksOK
<1>2. Separates(f)
  BY <1>1, Apart DEF Separates, Here
<1>3. Moves(f)
  BY <1>1, Apart DEF Moves, Here
<1> QED BY <1>2, <1>3 DEF Conserves

LEMMA AcceptedEvents ==
    ASSUME TypeInv, TypeInv', EventInv, NEW f \in Flushers, NEW k \in 0 .. BatchSize,
           PostAccepted(f, k)
    PROVE  Conserves(f)
<1> DEFINE yes == ToSet(SubSeq(batch[f], 1, k))
           no == ToSet(SubSeq(batch[f], k + 1, Len(batch[f])))
<1>1. /\ k \in 0 .. Len(batch[f]) /\ lost' = lost \cup no
      /\ verdict' = [e \in Events |-> IF e \in yes THEN "accepted" ELSE verdict[e]]
      /\ batch' = [batch EXCEPT ![f] = <<>>]
      /\ UNCHANGED <<buffer, dlq, rejected, produced, copied>>
  BY DEF PostAccepted, disk
<1>2. ToSet(batch[f]) = yes \cup no
  BY <1>1, Cut, Apart
<1> HIDE DEF yes, no
<1>3. Judges(f)
  <2>1. ToSet(batch'[f]) = {} /\ Fresh = {}
    BY <1>1, Empty, Apart DEF TypeInv, TypeOK, TasksOK, Fresh
  <2> QED BY <1>1, <1>2, <2>1, Apart DEF Judges, Here
<1> QED BY <1>1, <1>2, <1>3, DisposedEvents

LEMMA RejectedEvents ==
    ASSUME TypeInv, TypeInv', EventInv, NEW f \in Flushers, PostRejected(f)
    PROVE  Conserves(f)
<1>1. PICK ok \in Writes :
        /\ rejected' = IF ok THEN rejected \cup ToSet(batch[f]) ELSE rejected
        /\ lost' = IF ok THEN lost ELSE lost \cup ToSet(batch[f])
  BY DEF PostRejected
<1>2. /\ verdict' = [e \in Events |-> IF e \in ToSet(batch[f]) THEN "refused" ELSE verdict[e]]
      /\ batch' = [batch EXCEPT ![f] = <<>>] /\ UNCHANGED <<buffer, dlq, produced, copied>>
  BY DEF PostRejected
<1>3. \/ rejected' = rejected \cup ToSet(batch[f]) /\ lost' = lost
      \/ rejected' = rejected /\ lost' = lost \cup ToSet(batch[f])
  BY <1>1, Zenon
<1>4. Judges(f)
  <2>1. ToSet(batch'[f]) = {} /\ Fresh = {}
    BY <1>2, Empty, Apart DEF TypeInv, TypeOK, TasksOK, Fresh
  <2> QED BY <1>2, <1>3, <2>1, Apart DEF Judges, Here
<1> QED BY <1>2, <1>3, <1>4, DisposedEvents

\* The batch of a broken POST, or of the cancelled background task, is lost.
LEMMA LostEvents ==
    ASSUME TypeInv, TypeInv', EventInv, NEW f \in Flushers,
           lost' = lost \cup ToSet(batch[f]), batch' = [batch EXCEPT ![f] = <<>>],
           UNCHANGED <<buffer, dlq, rejected, verdict, produced, copied>>
    PROVE  Conserves(f)
<1>1. Judges(f)
  <2>1. ToSet(batch'[f]) = {} /\ Fresh = {}
    BY Empty, Apart DEF TypeInv, TypeOK, TasksOK, Fresh
  <2> QED BY <2>1, Apart DEF Judges, Here
<1> QED BY <1>1, DisposedEvents

\* The youngest event of the batch goes to the head of the buffer, to the file, or is lost.
LEMMA RequeueEvents ==
    ASSUME TypeInv, TypeInv', EventInv, NEW f \in Flushers, Requeue(f) PROVE Conserves(f)
<1> DEFINE e == Last(batch[f])
           t == <<e>>
<1>1. batch[f] # <<>>
  BY DEF Requeue, TypeInv, TypeOK, TasksOK
<1>2. /\ batch'[f] = Front(batch[f]) /\ \A g \in Flushers : g # f => batch'[g] = batch[g]
      /\ UNCHANGED <<rejected, verdict, produced, copied>>
      /\ \/ buffer' = t \o buffer /\ UNCHANGED <<dlq, lost>>
         \/ UNCHANGED <<buffer, lost>> /\ dlq' = dlq \o t
         \/ UNCHANGED <<buffer, dlq>> /\ lost' = lost \cup ToSet(t)
  <2>1. /\ batch' = [batch EXCEPT ![f] = Front(@)]
        /\ UNCHANGED <<rejected, verdict, produced, copied>>
    BY DEF Requeue
  <2>2. \/ buffer' = t \o buffer /\ UNCHANGED <<dlq, lost>>
        \/ UNCHANGED buffer /\ \E ok \in Writes : WriteDlq(t, ok)
    BY DEF Requeue, PutBack
  <2> HIDE DEF t
  <2>3. \A ok : WriteDlq(t, ok) => \/ lost' = lost /\ dlq' = dlq \o t
                                   \/ dlq' = dlq /\ lost' = lost \cup ToSet(t)
    BY Zenon DEF WriteDlq
  <2> QED BY <2>1, <2>2, <2>3 DEF TypeInv, TypeOK, TasksOK
<1>3. /\ ToSet(batch[f]) = ToSet(batch'[f]) \cup {e} /\ OnceBut(batch'[f], copied)
      /\ e \in ToSet(batch'[f]) => e \in copied
      /\ e \in Events
  <2>1. batch[f] \in Seq(Events) /\ OnceBut(batch[f], copied) /\ batch'[f] = Front(batch[f])
    BY <1>2, Apart
  <2> QED BY <1>1, <2>1, LastOff
<1>4. t \in Seq(Events) /\ ToSet(t) = {e} /\ \A C : OnceBut(t, C)
  BY <1>3, One
<1>5. Fresh = {}
  BY <1>2, Apart DEF Fresh
<1> HIDE DEF e, t
<1>6. /\ e \in ToSet(batch[f])
      /\ e \in ToSet(buffer) \cup ToSet(dlq) \cup lost => e \in copied
  BY <1>3, Apart DEF Here
<1>7. CASE buffer' = t \o buffer /\ UNCHANGED <<dlq, lost>>
  <2>1. ToSet(buffer') = {e} \cup ToSet(buffer) /\ OnceBut(buffer', copied)
    <3>1. ToSet(t) \cap ToSet(buffer) \subseteq copied
      BY <1>4, <1>6
    <3> QED BY <1>4, <1>7, <3>1, Apart, Joined
  <2>2. Separates(f)
    BY <1>2, <1>3, <1>6, <1>7, <2>1, Apart DEF Separates, Here
  <2>3. Moves(f) /\ Judges(f)
    BY <1>2, <1>3, <1>5, <1>6, <1>7, <2>1, Apart DEF Moves, Judges, Here
  <2> QED BY <2>2, <2>3 DEF Conserves
<1>8. CASE UNCHANGED <<buffer, lost>> /\ dlq' = dlq \o t
  <2>1. ToSet(dlq') = ToSet(dlq) \cup {e} /\ OnceBut(dlq', copied)
    <3>1. ToSet(dlq) \cap ToSet(t) \subseteq copied
      BY <1>4, <1>6
    <3> QED BY <1>4, <1>8, <3>1, Apart, Joined
  <2>2. Separates(f)
    BY <1>2, <1>3, <1>6, <1>8, <2>1, Apart DEF Separates, Here
  <2>3. Moves(f) /\ Judges(f)
    BY <1>2, <1>3, <1>5, <1>6, <1>8, <2>1, Apart DEF Moves, Judges, Here
  <2> QED BY <2>2, <2>3 DEF Conserves
<1>9. CASE UNCHANGED <<buffer, dlq>> /\ lost' = lost \cup ToSet(t)
  <2>1. Separates(f)
    BY <1>2, <1>3, <1>4, <1>6, <1>9, Apart DEF Separates, Here
  <2>2. Moves(f) /\ Judges(f)
    BY <1>2, <1>3, <1>4, <1>5, <1>6, <1>9, Apart DEF Moves, Judges, Here
  <2> QED BY <2>1, <2>2 DEF Conserves
<1> QED BY <1>2, <1>7, <1>8, <1>9

LEMMA StopDrainEvents ==
    ASSUME TypeInv, TypeInv', EventInv, StopDrain PROVE Conserves("loop")
<1>0. "loop" \in Flushers
  BY DEF Flushers
<1>1. /\ ToSet(buffer') = {} /\ OnceBut(buffer', copied)
      /\ UNCHANGED <<batch, rejected, verdict, produced, copied>>
  BY Empty DEF StopDrain, flushing
<1>2. \/ lost' = lost /\ dlq' = dlq \o buffer
      \/ dlq' = dlq /\ lost' = lost \cup ToSet(buffer)
  <2>1. \A ok : WriteDlq(buffer, ok) => \/ lost' = lost /\ dlq' = dlq \o buffer
                                        \/ dlq' = dlq /\ lost' = lost \cup ToSet(buffer)
    BY Zenon DEF WriteDlq
  <2> QED BY <2>1 DEF StopDrain
<1>3. Fresh = {}
  BY <1>0, <1>1, Apart DEF Fresh
<1>4. CASE lost' = lost /\ dlq' = dlq \o buffer
  <2>1. ToSet(dlq') = ToSet(dlq) \cup ToSet(buffer) /\ OnceBut(dlq', copied)
    BY <1>0, <1>4, Apart, Joined
  <2>2. Separates("loop")
    BY <1>0, <1>1, <1>4, <2>1, Apart DEF Separates, Here
  <2>3. Moves("loop") /\ Judges("loop")
    BY <1>0, <1>1, <1>3, <1>4, <2>1, Apart DEF Moves, Judges, Here
  <2> QED BY <2>2, <2>3 DEF Conserves
<1>5. CASE dlq' = dlq /\ lost' = lost \cup ToSet(buffer)
  <2>1. Separates("loop")
    BY <1>0, <1>1, <1>5, Apart DEF Separates, Here
  <2>2. Moves("loop") /\ Judges("loop")
    BY <1>0, <1>1, <1>3, <1>5, Apart DEF Moves, Judges, Here
  <2> QED BY <2>1, <2>2 DEF Conserves
<1> QED BY <1>2, <1>4, <1>5

\* A crash takes everything in memory along and nothing else.
LEMMA CrashEvents ==
    ASSUME TypeInv, TypeInv', EventInv, Crash PROVE EventInv' /\ Fates
<1>1. /\ buffer' = <<>> /\ \A f \in Flushers : batch'[f] = <<>>
      /\ lost' = lost \cup Held /\ UNCHANGED <<dlq, rejected, produced, verdict, copied>>
  BY DEF Crash, disk
<1>2. Held' = {}
  BY <1>1, Empty, HeldWhereNext
<1>3. HeldOnce'
  <2>1. /\ OnceBut(buffer', copied) /\ ToSet(buffer') = {}
        /\ \A f \in Flushers : OnceBut(batch'[f], copied) /\ ToSet(batch'[f]) = {}
    BY <1>1, Empty
  <2>2. ToSet(dlq) \cap Held \subseteq copied
    BY HeldWhere DEF EventInv, HeldOnce
  <2>3. lost' \cap (Held' \cup ToSet(dlq')) \subseteq copied
    BY <1>1, <1>2, <2>2 DEF EventInv, HeldOnce
  <2> QED BY <1>1, <2>1, <2>3 DEF EventInv, HeldOnce
<1>4. FinalVerdict' /\ Kept' /\ Refusals'
  BY <1>1, <1>2 DEF EventInv, FinalVerdict, Kept, Refusals
<1>5. Born'
  BY <1>1, <1>2 DEF EventInv, Born, Placed
<1>6. Fates
  BY <1>1 DEF Fates, TypeInv, TypeOK, CountersOK
<1> QED BY <1>3, <1>4, <1>5, <1>6 DEF EventInv

\* Every step conserves the events.
LEMMA StepEvents ==
    ASSUME TypeInv, TypeInv', EventInv, [Next]_vars PROVE EventInv' /\ Fates
<1>0. "loop" \in Flushers /\ "stop" \in Flushers /\ "caller" \in Flushers
  BY DEF Flushers
<1>1. CASE Start \/ Enqueue \/ EnqueueUnserialisable \/ StopDrain
  BY <1>0, <1>1, StartEvents, EnqueueEvents, UnserialisableEvents, StopDrainEvents, Conserved
<1>2. CASE LoopTick \/ CallerFlush
  BY <1>0, <1>2, EnterEvents, Conserved DEF LoopTick, CallerFlush
<1>3. ASSUME NEW f \in Flushers, Flush(f) PROVE EventInv' /\ Fates
  <2>1. CASE PostFailed(f) \/ BackoffOver(f)
    BY <2>1, StillConserves, Conserved DEF PostFailed, BackoffOver, disk, history
  <2>2. ASSUME NEW kind, PostBroken(f, kind) PROVE EventInv' /\ Fates
    BY <2>2, LostEvents, Conserved DEF PostBroken, disk
  <2>3. CASE Acquire(f) \/ AcquireClosed(f)
    BY <2>3, AcquireEvents, AcquireClosedEvents, Conserved
  <2>4. CASE PostRejected(f) \/ Requeue(f) \/ \E k \in 0 .. BatchSize : PostAccepted(f, k)
    BY <2>4, AcceptedEvents, RejectedEvents, RequeueEvents, Conserved
  <2> QED BY <1>3, <2>1, <2>2, <2>3, <2>4 DEF Flush
<1>4. CASE StopBegin
  BY <1>0, <1>4, LostEvents, Conserved DEF StopBegin, disk
<1>5. CASE StopTry
  <2>1. CASE MayFlush
    BY <1>0, <1>5, <2>1, EnterEvents, Conserved DEF StopTry
  <2>2. CASE ~MayFlush
    BY <1>0, <1>5, <2>2, StillConserves, Conserved DEF StopTry, flushing, disk, history
  <2> QED BY <2>1, <2>2
<1>6. CASE Cooldown \/ StopEnd \/ UNCHANGED vars
  BY <1>0, <1>6, StillConserves, Conserved
     DEF Cooldown, StopEnd, vars, flushing, disk, history
<1> QED BY <1>1, <1>2, <1>3, <1>4, <1>5, <1>6, CrashEvents DEF Next, Stop

LEMMA InitEvents == Init => EventInv
<1> SUFFICES ASSUME Init PROVE EventInv
  OBVIOUS
<1>1. /\ buffer = <<>> /\ dlq = <<>> /\ \A f \in Flushers : batch[f] = <<>>
      /\ lost = {} /\ rejected = {} /\ copied = {} /\ produced = 0
      /\ \A e \in Events : verdict[e] = "none"
  BY DEF Init
<1>2. /\ ToSet(buffer) = {} /\ ToSet(dlq) = {} /\ Held = {}
      /\ OnceBut(buffer, copied) /\ OnceBut(dlq, copied)
      /\ \A f \in Flushers : OnceBut(batch[f], copied) /\ ToSet(batch[f]) = {}
  BY <1>1, Empty, HeldWhere
<1> QED BY <1>1, <1>2
   DEF EventInv, HeldOnce, FinalVerdict, Kept, Born, Refusals, Placed

LEMMA EventInvHolds == Spec => [](TypeInv /\ EventInv)
<1>1. Init => TypeInv /\ EventInv
  BY InitTypes, InitEvents
<1>2. TypeInv /\ EventInv /\ [Next]_vars => (TypeInv /\ EventInv)'
  BY StepTypes, StepEvents
<1> QED BY <1>1, <1>2, PTL DEF Spec

\* Whatever tasks meet in _flush, and across stop(), recover() and crashes, an event
\* is once in one batch, the deque or the dead-letter file, and in none of them once
\* it is lost: nothing is posted by two tasks or recovered while still in memory, but
\* what a recover() that could not clear the file has handed over (dead_letter.py:82-96).
THEOREM NeverInTwoPlaces == Spec => []HeldOnce
BY EventInvHolds, PTL DEF EventInv

\* An event the platform has accepted or refused is never a candidate for another
\* POST: no requeue, drain, restart or recovery brings it back (_flush, _dead_letter_batch,
\* recover), unless a failing recover() had left it in the file before it was sent.
THEOREM VerdictIsFinal == Spec => []FinalVerdict
BY EventInvHolds, PTL DEF EventInv

\* An event that was produced is in memory, in a file, accepted, or gone by one of the
\* ways the model names: none disappears between deque, batch and files.
THEOREM NothingVanishes == Spec => []Kept
BY EventInvHolds, PTL DEF EventInv

-----------------------------------------------------------------------------
\* An event has no standing until it is produced, and always one afterwards.
BornStands == \A e \in Events : Standing(e) = "unborn" <=> ~(e <= produced)

\* What the standing of an event is, as a chain of alternatives.
StandingIs ==
    \A e \in Events :
        /\ Standing(e) \in Ledger!Standings
        /\ e \in copied => Standing(e) = "copied"
        /\ e \notin copied /\ verdict[e] # "none" => Standing(e) = verdict[e]
        /\ e \notin copied /\ verdict[e] = "none" =>
             Standing(e) = IF e \in Held THEN "pending"
                           ELSE IF e \in ToSet(dlq) THEN "saved"
                           ELSE IF e \in lost THEN "lost" ELSE "unborn"

LEMMA ChainOfStandings == TypeInv /\ EventInv => StandingIs
<1> SUFFICES ASSUME TypeInv, EventInv, NEW e \in Events
             PROVE  /\ Standing(e) \in Ledger!Standings
                    /\ e \in copied => Standing(e) = "copied"
                    /\ e \notin copied /\ verdict[e] # "none" => Standing(e) = verdict[e]
                    /\ e \notin copied /\ verdict[e] = "none" =>
                         Standing(e) = IF e \in Held THEN "pending"
                                       ELSE IF e \in ToSet(dlq) THEN "saved"
                                       ELSE IF e \in lost THEN "lost" ELSE "unborn"
  BY Zenon DEF StandingIs
<1>1. verdict[e] \in {"none", "accepted", "refused"}
  BY DEF TypeInv, TypeOK, HistoryOK
<1>a. CASE e \in copied
  <2>1. Standing(e) = "copied"
    BY <1>a, Zenon DEF Standing
  <2> QED BY <1>a, <2>1 DEF Ledger!Standings
<1>2. CASE e \notin copied /\ verdict[e] # "none"
  <2>1. Standing(e) = verdict[e]
    BY <1>2, Zenon DEF Standing
  <2> QED BY <1>1, <1>2, <2>1 DEF Ledger!Standings
<1>3. CASE e \notin copied /\ verdict[e] = "none"
  <2>0. /\ e \in Held => e \notin ToSet(dlq) /\ e \notin lost
        /\ e \in ToSet(dlq) => e \notin lost
    BY <1>3, HeldWhere DEF EventInv, HeldOnce
  <2>1. CASE e \in Held
    <3>1. Standing(e) = "pending"
      BY <1>3, <2>0, <2>1, Zenon DEF Standing
    <3> QED BY <1>3, <2>1, <3>1 DEF Ledger!Standings
  <2>2. CASE e \notin Held /\ e \in ToSet(dlq)
    <3>1. Standing(e) = "saved"
      BY <1>3, <2>0, <2>2, Zenon DEF Standing
    <3> QED BY <1>3, <2>2, <3>1 DEF Ledger!Standings
  <2>3. CASE e \notin Held /\ e \notin ToSet(dlq) /\ e \in lost
    <3>1. Standing(e) = "lost"
      BY <1>3, <2>3 DEF Standing
    <3> QED BY <1>3, <2>3, <3>1 DEF Ledger!Standings
  <2>4. CASE e \notin Held /\ e \notin ToSet(dlq) /\ e \notin lost
    <3>1. Standing(e) = "unborn"
      BY <1>3, <2>4 DEF Standing
    <3> QED BY <1>3, <2>4, <3>1 DEF Ledger!Standings
  <2> QED BY <2>1, <2>2, <2>3, <2>4
<1> QED BY <1>a, <1>2, <1>3

LEMMA ChainOfStandingsNext == TypeInv' /\ EventInv' => StandingIs'
BY ChainOfStandings, PTL

LEMMA BirthGivesStanding == TypeInv /\ EventInv => BornStands
<1> SUFFICES ASSUME TypeInv, EventInv, NEW e \in Events
             PROVE  Standing(e) = "unborn" <=> ~(e <= produced)
  BY DEF BornStands
<1>1. /\ verdict[e] \in {"none", "accepted", "refused"}
      /\ produced \in Nat /\ e \in 1 .. MaxEvents
  BY ConstantsAssumption DEF TypeInv, TypeOK, HistoryOK, CountersOK, Events
<1>2. CASE e <= produced
  <2>1. e \in 1 .. produced
    BY <1>1, <1>2, ConstantsAssumption
  <2>2. verdict[e] # "none" \/ e \in Held \cup ToSet(dlq) \cup lost \cup copied
    BY <2>1 DEF EventInv, Kept, Refusals
  <2> QED BY <1>1, <1>2, <2>2, ChainOfStandings DEF StandingIs
<1>3. CASE ~(e <= produced)
  <2>1. /\ verdict[e] = "none" /\ e \notin Held /\ e \notin ToSet(dlq) /\ e \notin lost
        /\ e \notin copied
    BY <1>3 DEF EventInv, Born, Placed
  <2> QED BY <1>3, <2>1, ChainOfStandings DEF StandingIs
<1> QED BY <1>2, <1>3

LEMMA BirthGivesStandingNext == TypeInv' /\ EventInv' => BornStands'
BY BirthGivesStanding, PTL

\* A step follows an edge of EventLedger for every event.
LEMMA StepEdges ==
    ASSUME TypeInv, TypeInv', EventInv, EventInv', Fates, NEW e \in Events
    PROVE  Ledger!Edge(Standing(e), Standing(e)')
<1> DEFINE x == Standing(e)
           y == Standing(e)'
<1>1. /\ x \in Ledger!Standings /\ y \in Ledger!Standings
      /\ verdict[e] \in {"none", "accepted", "refused"}
      /\ verdict'[e] \in {"none", "accepted", "refused"}
  BY ChainOfStandings, ChainOfStandingsNext DEF StandingIs, TypeInv, TypeOK, HistoryOK
<1>2. /\ e \in copied => x = "copied"
      /\ e \notin copied /\ verdict[e] # "none" => x = verdict[e]
      /\ e \notin copied /\ verdict[e] = "none" =>
           x = IF e \in Held THEN "pending"
               ELSE IF e \in ToSet(dlq) THEN "saved"
               ELSE IF e \in lost THEN "lost" ELSE "unborn"
  BY ChainOfStandings DEF StandingIs
<1>3. /\ e \in copied' => y = "copied"
      /\ e \notin copied' /\ verdict'[e] # "none" => y = verdict'[e]
      /\ e \notin copied' /\ verdict'[e] = "none" =>
           y = IF e \in Held' THEN "pending"
               ELSE IF e \in ToSet(dlq') THEN "saved"
               ELSE IF e \in lost' THEN "lost" ELSE "unborn"
  BY ChainOfStandingsNext DEF StandingIs
<1>4. x # "unborn" => y # "unborn"
  <2>1. x = "unborn" <=> ~(e <= produced)
    BY BirthGivesStanding DEF BornStands
  <2>2. y = "unborn" <=> ~(e <= produced')
    BY BirthGivesStandingNext DEF BornStands
  <2>3. e \in Nat /\ produced \in Nat /\ produced' \in Nat /\ produced <= produced'
    BY ConstantsAssumption DEF Events, TypeInv, TypeOK, CountersOK, Fates
  <2> HIDE DEF x, y
  <2> QED BY <2>1, <2>2, <2>3
<1>5. /\ e \in lost /\ e \notin copied => e \notin Held /\ e \notin ToSet(dlq)
      /\ e \in lost /\ e \notin copied' => e \notin Held' /\ e \notin ToSet(dlq')
      /\ e \in lost => e \in lost'
      /\ e \in ToSet(dlq') => e \in ToSet(dlq) \cup Held
      /\ e \in copied => e \in copied'
      /\ e \in copied' => e \in copied \cup ToSet(dlq)
      /\ e \in ToSet(dlq) /\ e \notin copied => e \notin Held /\ verdict[e] = "none"
      /\ verdict'[e] # verdict[e] /\ e \notin copied => e \in Held /\ verdict[e] = "none"
  <2>1. /\ lost \cap (Held \cup ToSet(dlq)) \subseteq copied
        /\ lost' \cap (Held' \cup ToSet(dlq')) \subseteq copied'
        /\ ToSet(dlq) \cap Held \subseteq copied
    BY HeldWhere DEF EventInv, HeldOnce
  <2>2. e \notin copied /\ verdict[e] # "none" => e \notin ToSet(dlq)
    BY DEF EventInv, FinalVerdict
  <2> QED BY <2>1, <2>2 DEF Fates
<1> HIDE DEF x, y
<1>6. Ledger!Edge(x, y)
  BY <1>1, <1>2, <1>3, <1>4, <1>5 DEF Ledger!Edge, Ledger!Standings
<1> QED BY <1>6 DEF x, y

\* Standings in the initial states.
LEMMA InitLedger == Init => Ledger!Init
<1> SUFFICES ASSUME Init, NEW e \in Events PROVE Standing(e) = "unborn"
  BY DEF Ledger!Init
<1>1. TypeInv /\ EventInv /\ produced = 0 /\ e \in Nat \ {0}
  BY InitTypes, InitEvents, ConstantsAssumption DEF Init, Events
<1> QED BY <1>1, BirthGivesStanding DEF BornStands

\* Init and every step of the reporter, the flushes of whole batches, stop(), start()
\* and crashes included, map to those of EventLedger: accepted, refused and lost are
\* final, and no event comes back from them.
THEOREM ReporterImplementsLedger == Spec => ImplementsLedger
<1> DEFINE Inv == TypeInv /\ EventInv
           st == [e \in Events |-> Standing(e)]
<1>1. Inv /\ Inv' /\ [Next]_vars => [Ledger!Next]_st
  <2> SUFFICES ASSUME TypeInv, EventInv, TypeInv', EventInv', [Next]_vars
               PROVE  Ledger!Next
    OBVIOUS
  <2>1. Fates
    BY StepEvents
  <2>2. \A e \in Events : Ledger!Edge(Standing(e), Standing(e)')
    BY <2>1, StepEdges
  <2>3. \A e \in Events : Standing(e)' \in Ledger!Standings
    BY ChainOfStandingsNext DEF StandingIs
  <2> QED BY <2>2, <2>3 DEF Ledger!Next
<1>2. Init => Ledger!Init
  BY InitLedger
<1> QED BY <1>1, <1>2, EventInvHolds, PTL DEF Spec, ImplementsLedger, Ledger!Spec

-----------------------------------------------------------------------------
(* Order *)

\* Everything in s is older than everything in t.
Before(s, t) == \A x \in ToSet(s), y \in ToSet(t) : x < y

\* A concatenation is in order when its parts are and the first is the older one.
LEMMA SortedJoin ==
    ASSUME NEW s \in Seq(Nat), NEW t \in Seq(Nat)
    PROVE  Increasing(s \o t) <=> Increasing(s) /\ Increasing(t) /\ Before(s, t)
<1> DEFINE st == s \o t
           m == Len(s)
           n == Len(t)
<1>1. /\ Len(st) = m + n /\ m \in Nat /\ n \in Nat
      /\ \A i \in 1 .. m + n : st[i] = IF i <= m THEN s[i] ELSE t[i - m]
      /\ \A i \in 1 .. m : s[i] \in Nat
      /\ \A i \in 1 .. n : t[i] \in Nat
      /\ ToSet(s) = {s[i] : i \in 1 .. m} /\ ToSet(t) = {t[i] : i \in 1 .. n}
  BY ConcatProperties, LenProperties, ElementOfSeq DEF ToSet
<1> HIDE DEF st, m, n
<1>2. ASSUME \A i, j \in 1 .. m + n : i < j => st[i] < st[j]
      PROVE  /\ \A i, j \in 1 .. m : i < j => s[i] < s[j]
             /\ \A i, j \in 1 .. n : i < j => t[i] < t[j]
             /\ \A i \in 1 .. m, j \in 1 .. n : s[i] < t[j]
  <2>1. ASSUME NEW i \in 1 .. m, NEW j \in 1 .. m, i < j PROVE s[i] < s[j]
    <3>1. i \in 1 .. m + n /\ j \in 1 .. m + n /\ st[i] = s[i] /\ st[j] = s[j]
      BY <1>1
    <3> QED BY <1>2, <2>1, <3>1
  <2>2. ASSUME NEW j \in 1 .. n
        PROVE  m + j \in 1 .. m + n /\ st[m + j] = t[j]
    <3> DEFINE k == m + j
    <3>1. k \in 1 .. m + n /\ ~(k <= m) /\ k - m = j
      BY <1>1
    <3> HIDE DEF k
    <3>2. st[k] = t[j]
      BY <1>1, <3>1
    <3> QED BY <3>1, <3>2 DEF k
  <2>3. ASSUME NEW i \in 1 .. n, NEW j \in 1 .. n, i < j PROVE t[i] < t[j]
    <3>1. m + i < m + j
      BY <1>1, <2>3
    <3> QED BY <1>2, <2>2, <3>1
  <2>4. ASSUME NEW i \in 1 .. m, NEW j \in 1 .. n PROVE s[i] < t[j]
    <3>1. i \in 1 .. m + n /\ st[i] = s[i] /\ i < m + j
      BY <1>1
    <3> QED BY <1>2, <2>2, <3>1
  <2> QED BY <2>1, <2>3, <2>4
<1>3. ASSUME \A i, j \in 1 .. m : i < j => s[i] < s[j],
             \A i, j \in 1 .. n : i < j => t[i] < t[j],
             \A i \in 1 .. m, j \in 1 .. n : s[i] < t[j],
             NEW i \in 1 .. m + n, NEW j \in 1 .. m + n, i < j
      PROVE  st[i] < st[j]
  <2>1. CASE j <= m
    <3>1. i \in 1 .. m /\ j \in 1 .. m /\ st[i] = s[i] /\ st[j] = s[j]
      BY <1>1, <1>3, <2>1
    <3> QED BY <1>3, <3>1
  <2>2. CASE i > m
    <3>1. /\ i - m \in 1 .. n /\ j - m \in 1 .. n /\ i - m < j - m
          /\ st[i] = t[i - m] /\ st[j] = t[j - m]
      BY <1>1, <1>3, <2>2
    <3> QED BY <1>3, <3>1
  <2>3. CASE i <= m /\ j > m
    <3>1. i \in 1 .. m /\ j - m \in 1 .. n /\ st[i] = s[i] /\ st[j] = t[j - m]
      BY <1>1, <2>3
    <3> QED BY <1>3, <3>1
  <2> QED BY <1>1, <2>1, <2>2, <2>3
<1>4. /\ Increasing(s \o t) <=> \A i, j \in 1 .. m + n : i < j => st[i] < st[j]
      /\ Increasing(s) <=> \A i, j \in 1 .. m : i < j => s[i] < s[j]
      /\ Increasing(t) <=> \A i, j \in 1 .. n : i < j => t[i] < t[j]
  <2>1. s \o t = st /\ Len(st) = m + n /\ Len(s) = m /\ Len(t) = n
    BY <1>1 DEF st, m, n
  <2> QED BY <2>1, Zenon DEF Increasing
<1>5. Before(s, t) <=> \A i \in 1 .. m, j \in 1 .. n : s[i] < t[j]
  BY <1>1 DEF Before
<1> QED BY <1>2, <1>3, <1>4, <1>5

\* Cutting a sequence that is in order.
LEMMA SortedCut ==
    ASSUME NEW s \in Seq(Nat), NEW n \in 0 .. Len(s), Increasing(s)
    PROVE  /\ Increasing(SubSeq(s, 1, n)) /\ Increasing(SubSeq(s, n + 1, Len(s)))
           /\ Before(SubSeq(s, 1, n), SubSeq(s, n + 1, Len(s)))
<1> DEFINE a == SubSeq(s, 1, n)
           b == SubSeq(s, n + 1, Len(s))
<1>1. Len(s) \in Nat /\ \A i \in 1 .. Len(s) : s[i] \in Nat
  BY LenProperties, ElementOfSeq
<1>2. a \in Seq(Nat) /\ Len(a) = n /\ \A i \in 1 .. n : a[i] = s[i]
  BY <1>1, SubSeqProperties
<1>3. b \in Seq(Nat) /\ Len(b) = Len(s) - n /\ \A i \in 1 .. Len(s) - n : b[i] = s[n + i]
  BY <1>1, SubSeqProperties
<1> HIDE DEF a, b
<1>4. DOMAIN a = 1 .. n /\ DOMAIN b = 1 .. Len(s) - n
  BY <1>2, <1>3, LenProperties
<1>5. Increasing(a)
  <2> SUFFICES ASSUME NEW i \in 1 .. n, NEW j \in 1 .. n, i < j PROVE a[i] < a[j]
    BY <1>2 DEF Increasing
  <2>1. i \in 1 .. Len(s) /\ j \in 1 .. Len(s)
    BY <1>1
  <2> QED BY <1>2, <2>1 DEF Increasing
<1>6. Increasing(b)
  <2> SUFFICES ASSUME NEW i \in 1 .. Len(s) - n, NEW j \in 1 .. Len(s) - n, i < j
               PROVE  b[i] < b[j]
    BY <1>3 DEF Increasing
  <2>1. n + i \in 1 .. Len(s) /\ n + j \in 1 .. Len(s) /\ n + i < n + j
    BY <1>1
  <2> QED BY <1>3, <2>1 DEF Increasing
<1>7. Before(a, b)
  <2>1. ASSUME NEW i \in 1 .. n, NEW j \in 1 .. Len(s) - n PROVE a[i] < b[j]
    <3>1. n + j \in 1 .. Len(s) /\ i \in 1 .. Len(s) /\ i < n + j
      BY <1>1
    <3> QED BY <1>2, <1>3, <3>1 DEF Increasing
  <2> QED BY <1>4, <2>1 DEF Before, ToSet
<1> QED BY <1>5, <1>6, <1>7 DEF a, b

\* Sequences of events are sequences of numbers.
LEMMA EventsAreNumbers ==
    ASSUME NEW s \in Seq(Events)
    PROVE  s \in Seq(Nat)
<1>1. Events \subseteq Nat
  BY ConstantsAssumption DEF Events
<1> QED BY <1>1, SeqMonotonic

\* A sequence without elements.
LEMMA NoElements ==
    ASSUME NEW S, NEW s \in Seq(S), ToSet(s) = {}
    PROVE  s = <<>>
<1>1. Len(s) \in Nat /\ \A i \in 1 .. Len(s) : s[i] \in ToSet(s)
  BY LenProperties DEF ToSet
<1> QED BY <1>1, NonEmpty

\* Short sequences are in order.
LEMMA ShortSorted ==
    ASSUME NEW e \in Nat
    PROVE  Increasing(<<>>) /\ Increasing(<<e>>) /\ ToSet(<<e>>) = {e} /\ <<e>> \in Seq(Nat)
BY DEF Increasing, ToSet

LEMMA EmptyIsOlder ==
    ASSUME NEW t
    PROVE  Increasing(<<>>) /\ Before(<<>>, t)
BY DEF Increasing, Before, ToSet

\* The tasks' batches and the buffer are in order, every batch older than the buffer.
Ordered == /\ Increasing(buffer)
           /\ \A f \in Flushers : Increasing(batch[f]) /\ Before(batch[f], buffer)

\* Within one life of the lock, who has a batch holds it.
Tenure == \A f \in Flushers : batch[f] # <<>> => lock = f

\* The file is read by start(), which takes effect before anything else does.
Virgin == starts = 0 => ~Started /\ produced = 0

OrderInv == (starts <= 1 => Ordered /\ Tenure) /\ Virgin

LEMMA OrderedMeans == ASSUME TypeInv, OrderInv PROVE OldestFirst
<1> SUFFICES ASSUME starts <= 1, NEW f \in Flushers PROVE Increasing(batch[f] \o buffer)
  BY DEF OldestFirst
<1>1. batch[f] \in Seq(Nat) /\ buffer \in Seq(Nat)
  BY EventsAreNumbers DEF TypeInv, TypeOK, QueueOK, TasksOK
<1> QED BY <1>1, SortedJoin DEF OrderInv, Ordered

\* Events that leave leave the others in order.
LEMMA StillOrdered ==
    ASSUME Ordered, \A f \in Flushers : batch'[f] \in {batch[f], <<>>},
           Increasing(buffer'), ToSet(buffer') \subseteq ToSet(buffer)
    PROVE  Ordered'
<1> SUFFICES ASSUME NEW f \in Flushers PROVE Increasing(batch'[f]) /\ Before(batch'[f], buffer')
  BY DEF Ordered
<1>1. CASE batch'[f] = batch[f]
  BY <1>1 DEF Ordered, Before
<1>2. CASE batch'[f] = <<>>
  BY <1>2, ShortSorted, Empty DEF Before
<1> QED BY <1>1, <1>2

\* The end of a POST, or of a task: the batch is gone and the lock released.
LEMMA BatchGone ==
    ASSUME TypeInv, Ordered, Tenure, NEW f \in Flushers, UNCHANGED buffer,
           batch' = [batch EXCEPT ![f] = <<>>], lock' = Released(f)
    PROVE  Ordered' /\ Tenure'
<1>1. batch'[f] = <<>> /\ \A g \in Flushers : g # f => batch'[g] = batch[g]
  BY DEF TypeInv, TypeOK, TasksOK
<1>2. Ordered'
  BY <1>1, StillOrdered DEF Ordered
<1>3. Tenure'
  BY <1>1 DEF Tenure, Released
<1> QED BY <1>2, <1>3

\* A batch is popped only while nobody else has one.
LEMMA PopOrdered ==
    ASSUME TypeInv, Ordered, Tenure, NEW f \in Flushers,
           LockFree, buffer # <<>>, PopBatch(f), lock' = f
    PROVE  Ordered' /\ Tenure'
<1> DEFINE n == Lesser(BatchSize, Len(buffer))
<1>1. \A g \in Flushers : batch[g] = <<>>
  BY DEF Tenure, LockFree, NoFlusher, Flushers
<1>2. buffer \in Seq(Events) /\ buffer \in Seq(Nat) /\ Len(buffer) \in Nat
  BY EventsAreNumbers, NonEmpty DEF TypeInv, TypeOK, QueueOK
<1>3. n \in 0 .. Len(buffer)
  BY <1>2, ConstantsAssumption DEF Lesser
<1>4. /\ batch'[f] = SubSeq(buffer, 1, n) /\ buffer' = SubSeq(buffer, n + 1, Len(buffer))
      /\ \A g \in Flushers : g # f => batch'[g] = <<>>
  BY <1>1 DEF PopBatch, TypeInv, TypeOK, TasksOK
<1> HIDE DEF n
<1>5. Increasing(batch'[f]) /\ Increasing(buffer') /\ Before(batch'[f], buffer')
  BY <1>2, <1>3, <1>4, SortedCut DEF Ordered
<1>6. Ordered'
  BY <1>4, <1>5, ShortSorted, Empty DEF Ordered, Before
<1>7. Tenure'
  BY <1>4 DEF Tenure
<1> QED BY <1>6, <1>7

LEMMA EnterOrdered ==
    ASSUME TypeInv, Ordered, Tenure, NEW f \in Flushers, EnterFlush(f)
    PROVE  Ordered' /\ Tenure'
<1>1. CASE LockFree /\ ~Waiting
  BY <1>1, PopOrdered DEF EnterFlush, BeginPost, MayFlush
<1>2. CASE ~(LockFree /\ ~Waiting)
  BY <1>2 DEF EnterFlush, Ordered, Tenure
<1> QED BY <1>1, <1>2

LEMMA AcquireOrdered ==
    ASSUME TypeInv, Ordered, Tenure, NEW f \in Flushers, Acquire(f) \/ AcquireClosed(f)
    PROVE  Ordered' /\ Tenure'
<1>1. CASE Acquire(f)
  <2>1. CASE buffer = <<>> /\ UNCHANGED <<lock, buffer, batch>>
    BY <2>1 DEF Ordered, Tenure
  <2>2. CASE buffer # <<>> /\ lock' = f /\ PopBatch(f)
    BY <1>1, <2>2, PopOrdered DEF Acquire
  <2> QED BY <1>1, <2>1, <2>2 DEF Acquire, BeginPost
<1>2. CASE AcquireClosed(f)
  <2> DEFINE n == Lesser(BatchSize, Len(buffer))
  <2>1. buffer \in Seq(Events) /\ buffer \in Seq(Nat) /\ Len(buffer) \in Nat
    BY EventsAreNumbers, NonEmpty DEF TypeInv, TypeOK, QueueOK
  <2>2. n \in 0 .. Len(buffer)
    BY <2>1, ConstantsAssumption DEF Lesser
  <2>3. buffer' = SubSeq(buffer, n + 1, Len(buffer)) /\ UNCHANGED <<batch, lock>>
    BY <1>2 DEF AcquireClosed
  <2> HIDE DEF n
  <2>4. Increasing(buffer') /\ ToSet(buffer') \subseteq ToSet(buffer)
    BY <2>1, <2>2, <2>3, SortedCut, Cut DEF Ordered
  <2>5. Ordered'
    BY <2>3, <2>4, StillOrdered
  <2> QED BY <2>3, <2>5 DEF Tenure
<1> QED BY <1>1, <1>2

\* A new event is younger than everything in memory.
LEMMA EnqueueOrdered ==
    ASSUME TypeInv, EventInv, Ordered, Tenure, Enqueue
    PROVE  Ordered' /\ Tenure'
<1> DEFINE e == produced + 1
           s == Append(buffer, e)
           x == Excess(s)
<1>1. e \in Events /\ e \in Nat /\ produced \in Nat
  BY ConstantsAssumption DEF Enqueue, TypeInv, TypeOK, CountersOK, Events
<1>2. /\ buffer' = SubSeq(s, x + 1, Len(s)) /\ UNCHANGED <<batch, lock>>
  BY DEF Enqueue, AppendBounded, KeepNewest, flushing
<1>3. buffer \in Seq(Events) /\ \A f \in Flushers : batch[f] \in Seq(Events)
  BY DEF TypeInv, TypeOK, QueueOK, TasksOK
<1>4. /\ \A y \in ToSet(buffer) : y < e
      /\ \A f \in Flushers : \A y \in ToSet(batch[f]) : y < e
  <2>1. \A y \in Held : y <= produced /\ y \in Nat
    <3>1. \A y \in Held : y \in Events
      BY <1>3, NonEmpty, HeldWhere
    <3> QED BY <3>1, ConstantsAssumption DEF EventInv, Born, Placed, Events
  <2> QED BY <1>1, <2>1, HeldWhere
<1> HIDE DEF e
<1>5. s = buffer \o <<e>>
  BY <1>1, <1>3, AppendIsConcat
<1>6. s \in Seq(Events) /\ ToSet(s) = ToSet(buffer) \cup {e}
  <2> DEFINE t == <<e>>
  <2>1. t \in Seq(Events) /\ ToSet(t) = {e} /\ s = buffer \o t
    BY <1>1, <1>5, One
  <2> HIDE DEF t, s
  <2> QED BY <1>3, <2>1, Joined
<1>7. Increasing(s)
  <2>1. buffer \in Seq(Nat)
    BY <1>3, EventsAreNumbers
  <2>2. Before(buffer, <<e>>)
    BY <1>1, <1>4, ShortSorted DEF Before
  <2> QED BY <1>1, <1>5, <2>1, <2>2, SortedJoin, ShortSorted DEF Ordered
<1> HIDE DEF s
<1>8. x \in 0 .. Len(s)
  BY <1>6, ShedOldest
<1> HIDE DEF x
<1>9. Increasing(buffer') /\ ToSet(buffer') \subseteq ToSet(buffer) \cup {e}
  <2>1. s \in Seq(Nat)
    BY <1>6, EventsAreNumbers
  <2>2. Increasing(buffer')
    BY <1>2, <1>7, <1>8, <2>1, SortedCut
  <2>3. ToSet(buffer') \subseteq ToSet(s)
    BY <1>2, <1>6, <1>8, Cut
  <2> QED BY <1>6, <2>2, <2>3
<1>10. Ordered'
  BY <1>2, <1>4, <1>9 DEF Ordered, Before
<1> QED BY <1>2, <1>10 DEF Tenure

\* The youngest event of the batch is older than the buffer it goes back to.
LEMMA RequeueOrdered ==
    ASSUME TypeInv, TypeInv', Ordered, Tenure, NEW f \in Flushers, Requeue(f)
    PROVE  Ordered' /\ Tenure'
<1> DEFINE e == Last(batch[f])
           b == Front(batch[f])
<1>1. batch[f] # <<>> /\ batch[f] \in Seq(Events) /\ buffer \in Seq(Events)
  BY DEF Requeue, TypeInv, TypeOK, QueueOK, TasksOK
<1>2. lock = f /\ \A g \in Flushers : g # f => batch[g] = <<>>
  BY <1>1 DEF Tenure
<1>3. /\ batch'[f] = b /\ \A g \in Flushers : g # f => batch'[g] = <<>>
      /\ buffer' = <<e>> \o buffer \/ buffer' = buffer
  BY <1>2 DEF Requeue, PutBack, TypeInv, TypeOK, TasksOK
<1>4. Len(batch[f]) \in Nat \ {0}
  BY <1>1, NonEmpty
<1>5. b \in Seq(Events) /\ e \in Events /\ Len(b) = Len(batch[f]) - 1
      /\ ToSet(batch[f]) = ToSet(b) \cup {e} /\ e \in Nat
  <2>1. b \in Seq(Events) /\ e \in Events /\ Len(b) = Len(batch[f]) - 1
        /\ ToSet(batch[f]) = ToSet(b) \cup {e}
    BY <1>1, LastOff
  <2>2. e \in Nat
    <3> HIDE DEF e, b
    <3> QED BY <2>1, ConstantsAssumption DEF Events
  <2> QED BY <2>1, <2>2
<1>6. Increasing(b) /\ Before(b, <<e>>)
  <2> DEFINE n == Len(batch[f]) - 1
  <2>1. batch[f] \in Seq(Nat) /\ n \in 0 .. Len(batch[f]) /\ n + 1 = Len(batch[f])
    BY <1>1, <1>4, EventsAreNumbers
  <2>2. SubSeq(batch[f], 1, n) = b
    BY DEF Front
  <2>3. Increasing(b)
    BY <2>1, <2>2, SortedCut DEF Ordered
  <2>4. \A y \in ToSet(b) : y < e
    <3>1. \A i \in 1 .. n : b[i] = batch[f][i]
      BY <1>4, <2>1, <2>2, SubSeqProperties
    <3>2. DOMAIN b = 1 .. n
      BY <1>5, LenProperties
    <3>3. e = batch[f][n + 1]
      BY <2>1 DEF Last
    <3>4. ASSUME NEW i \in 1 .. n PROVE batch[f][i] < batch[f][n + 1]
      BY <1>4, <2>1 DEF Ordered, Increasing
    <3> QED BY <3>1, <3>2, <3>3, <3>4 DEF ToSet
  <2> QED BY <1>5, <2>3, <2>4, ShortSorted DEF Before
<1> HIDE DEF e, b
<1>9. Tenure'
  <2>1. CASE Len(batch[f]) = 1
    <3>1. b = <<>>
      BY <1>5, <2>1, NonEmpty
    <3> QED BY <1>3, <3>1 DEF Tenure
  <2>2. CASE Len(batch[f]) # 1
    BY <1>2, <1>3, <2>2 DEF Requeue, Tenure
  <2> QED BY <2>1, <2>2
<1>7. CASE buffer' = <<e>> \o buffer
  <2>1. buffer \in Seq(Nat) /\ Before(<<e>>, buffer)
    BY <1>1, <1>5, EventsAreNumbers, ShortSorted DEF Ordered, Before
  <2>2. Increasing(buffer')
    BY <1>5, <1>7, <2>1, SortedJoin, ShortSorted DEF Ordered
  <2>3. ToSet(buffer') = {e} \cup ToSet(buffer)
    <3> DEFINE t == <<e>>
    <3>1. t \in Seq(Events) /\ ToSet(t) = {e} /\ buffer' = t \o buffer
      BY <1>5, <1>7, One
    <3> HIDE DEF t
    <3> QED BY <1>1, <3>1, Joined
  <2>4. Before(b, buffer')
    BY <1>5, <1>6, <2>3, ShortSorted DEF Ordered, Before
  <2> QED BY <1>3, <1>6, <1>9, <2>2, <2>4, EmptyIsOlder DEF Ordered
<1>8. CASE buffer' = buffer
  <2>1. Before(b, buffer')
    BY <1>5, <1>8 DEF Ordered, Before
  <2> QED BY <1>3, <1>6, <1>8, <1>9, <2>1, EmptyIsOlder DEF Ordered
<1> QED BY <1>3, <1>7, <1>8

LEMMA StepOrdered ==
    ASSUME TypeInv, TypeInv', EventInv, Ordered, Tenure, [Next]_vars, ~Start
    PROVE  Ordered' /\ Tenure'
<1>0. "loop" \in Flushers /\ "stop" \in Flushers /\ "caller" \in Flushers
  BY DEF Flushers
<1>1. CASE UNCHANGED <<buffer, batch, lock>>
  BY <1>1 DEF Ordered, Tenure
<1>2. CASE LoopTick \/ CallerFlush
  BY <1>0, <1>2, EnterOrdered DEF LoopTick, CallerFlush
<1>3. ASSUME NEW f \in Flushers, Flush(f) PROVE Ordered' /\ Tenure'
  <2>1. CASE PostFailed(f) \/ BackoffOver(f)
    BY <1>1, <2>1 DEF PostFailed, BackoffOver
  <2>2. ASSUME NEW kind, PostBroken(f, kind) PROVE Ordered' /\ Tenure'
    BY <2>2, BatchGone DEF PostBroken
  <2>3. CASE PostRejected(f) \/ \E k \in 0 .. BatchSize : PostAccepted(f, k)
    BY <2>3, BatchGone DEF PostRejected, PostAccepted
  <2> QED BY <1>3, <2>1, <2>2, <2>3, AcquireOrdered, RequeueOrdered DEF Flush
<1>4. CASE StopBegin
  BY <1>0, <1>4, BatchGone DEF StopBegin
<1>5. CASE StopTry
  BY <1>0, <1>1, <1>5, EnterOrdered DEF StopTry, flushing
<1>6. CASE StopDrain
  <2>1. buffer' = <<>> /\ UNCHANGED <<batch, lock>>
    BY <1>6 DEF StopDrain, flushing
  <2> QED BY <2>1, StillOrdered, ShortSorted, Empty DEF Tenure
<1>7. CASE Crash
  <2>1. buffer' = <<>> /\ \A f \in Flushers : batch'[f] = <<>>
    BY <1>7 DEF Crash
  <2> QED BY <2>1, StillOrdered, ShortSorted, Empty DEF Tenure
<1>8. CASE EnqueueUnserialisable \/ Cooldown \/ StopEnd \/ UNCHANGED vars
  BY <1>1, <1>8 DEF EnqueueUnserialisable, Cooldown, StopEnd, flushing, vars
<1> QED BY <1>2, <1>3, <1>4, <1>5, <1>6, <1>7, <1>8, EnqueueOrdered DEF Next, Stop

\* Nothing but start() begins a process's first life.
LEMMA OnlyStartCounts ==
    ASSUME [Next]_vars, ~Start
    PROVE  starts' = starts
<1>1. ASSUME NEW f \in Flushers, Flush(f) PROVE starts' = starts
  BY <1>1 DEF Flush, Acquire, AcquireClosed, PostAccepted, PostRejected, PostFailed, Requeue,
              BackoffOver, PostBroken, history
<1>2. CASE LoopTick \/ CallerFlush \/ StopTry
  BY <1>2 DEF LoopTick, CallerFlush, StopTry, EnterFlush, history
<1>3. CASE Enqueue \/ EnqueueUnserialisable \/ Cooldown \/ Crash
  BY <1>3 DEF Enqueue, EnqueueUnserialisable, Cooldown, Crash, history
<1>4. CASE StopBegin \/ StopDrain \/ StopEnd \/ UNCHANGED vars
  BY <1>4 DEF StopBegin, StopDrain, StopEnd, history, vars
<1> QED BY <1>1, <1>2, <1>3, <1>4 DEF Next, Stop

LEMMA StillVirgin ==
    ASSUME [Next]_vars, ~Start, Virgin
    PROVE  Virgin'
<1>0. starts' = starts
  BY OnlyStartCounts
<1>1. ASSUME NEW f \in Flushers, Flush(f) PROVE UNCHANGED <<running, stopPc, produced>>
  BY <1>1 DEF Flush, Acquire, AcquireClosed, PostAccepted, PostRejected, PostFailed, Requeue,
              BackoffOver, PostBroken, life
<1>2. CASE LoopTick \/ CallerFlush \/ StopTry
  BY <1>0, <1>2 DEF LoopTick, CallerFlush, StopTry, EnterFlush, life, Virgin, Started
<1>3. CASE Enqueue \/ EnqueueUnserialisable \/ StopBegin
  BY <1>0, <1>3 DEF Enqueue, EnqueueUnserialisable, StopBegin, Virgin
<1>4. CASE StopDrain \/ StopEnd
  BY <1>0, <1>4 DEF StopDrain, StopEnd, Virgin, Started
<1>5. CASE Crash
  BY <1>0, <1>5 DEF Crash, Virgin, Started
<1>6. CASE Cooldown \/ UNCHANGED vars
  BY <1>0, <1>6 DEF Cooldown, vars, life, Virgin, Started
<1> QED BY <1>0, <1>1, <1>2, <1>3, <1>4, <1>5, <1>6 DEF Next, Stop, Virgin, Started

LEMMA StepOrder ==
    ASSUME TypeInv, TypeInv', EventInv, OrderInv, [Next]_vars PROVE OrderInv'
<1>1. CASE Start
  <2>1. starts' = starts + 1 /\ starts \in Nat /\ UNCHANGED batch
    BY <1>1, ConstantsAssumption DEF Start, TypeInv, TypeOK, CountersOK
  <2>2. ASSUME starts = 0 PROVE Ordered' /\ Tenure'
    <3>1. produced = 0 /\ buffer \in Seq(Events) /\ dlq \in Seq(Events)
          /\ \A f \in Flushers : batch[f] \in Seq(Events)
      BY <2>2 DEF OrderInv, Virgin, TypeInv, TypeOK, QueueOK, TasksOK
    <3>2. Placed = {}
      <4>1. \A e \in Placed : e \in Events
        <5>1. /\ ToSet(buffer) \subseteq Events /\ ToSet(dlq) \subseteq Events
              /\ \A f \in Flushers : ToSet(batch[f]) \subseteq Events
          BY <3>1, NonEmpty
        <5>2. rejected \subseteq Events /\ lost \subseteq Events /\ copied \subseteq Events
          BY DEF TypeInv, TypeOK, QueueOK, HistoryOK
        <5> QED BY <5>1, <5>2, HeldWhere DEF Placed
      <4> QED BY <3>1, <4>1, ConstantsAssumption DEF EventInv, Born, Events
    <3>3. buffer = <<>> /\ dlq = <<>> /\ \A f \in Flushers : batch[f] = <<>>
      <4>1. /\ ToSet(buffer) = {} /\ ToSet(dlq) = {}
            /\ \A f \in Flushers : ToSet(batch[f]) = {}
        BY <3>2, HeldWhere DEF Placed
      <4>2. \A t \in Seq(Events) : ToSet(t) = {} => t = <<>>
        BY NoElements
      <4> QED BY <3>1, <4>1, <4>2
    <3>4. buffer' = <<>>
      <4>0. PICK read \in Seq(Events) : /\ ToSet(read) \subseteq ToSet(dlq)
                                        /\ buffer' = KeepNewest(buffer \o read)
        BY <1>1, WhatIsRecovered
      <4> DEFINE s == buffer \o read
      <4>1. s \in Seq(Events) /\ ToSet(s) = {}
        BY <3>1, <3>3, <4>0, Joined, Empty
      <4>2. s = <<>> /\ Len(s) = 0
        <5> HIDE DEF s
        <5> QED BY <4>1, NoElements, NonEmpty
      <4>3. buffer' = KeepNewest(s)
        BY <4>0
      <4> HIDE DEF s
      <4>4. Excess(s) = 0
        BY <4>2, ConstantsAssumption DEF Excess
      <4> QED BY <4>2, <4>3, <4>4 DEF KeepNewest
    <3> QED BY <2>1, <3>3, <3>4, EmptyIsOlder DEF Ordered, Tenure
  <2> QED BY <1>1, <2>1, <2>2 DEF OrderInv, Virgin, Start
<1>2. CASE ~Start
  <2>1. starts' = starts
    BY <1>2, OnlyStartCounts
  <2>2. Virgin'
    BY <1>2, <2>1, StillVirgin DEF OrderInv
  <2> QED BY <1>2, <2>1, <2>2, StepOrdered DEF OrderInv
<1> QED BY <1>1, <1>2

LEMMA OrderHolds == Spec => [](TypeInv /\ EventInv /\ OrderInv)
<1>1. Init => OrderInv
  BY EmptyIsOlder DEF Init, OrderInv, Ordered, Tenure, Virgin, Started
<1>2. TypeInv /\ EventInv /\ OrderInv /\ [Next]_vars => (TypeInv /\ EventInv /\ OrderInv)'
  BY StepTypes, StepEvents, StepOrder
<1> QED BY <1>1, <1>2, InitTypes, InitEvents, PTL DEF Spec

\* _requeue_or_dead_letter puts a failed batch back in the order of production: in the
\* first life of the reporter every batch is in order and older than the buffer.
THEOREM OrderKept == Spec => []OldestFirst
BY OrderHolds, OrderedMeans, PTL

-----------------------------------------------------------------------------
(* Shutdown *)

Stages == {"off", "idle", "waiting", "posting", "requeue", "backoff", "crashed"}

LEMMA Tasks ==
    ASSUME TypeInv
    PROVE  pc \in [Flushers -> Stages] /\ Flushers = {"loop", "stop", "caller"}
BY DEF TypeInv, TypeOK, TasksOK, Flushers, Stages

\* stop() takes the place of the background task in _flush, and it is done with it
\* when it returns.
Alone ==
    /\ stopPc # "flushing" => pc["stop"] = "idle"
    /\ stopPc # "none" => ~running

\* When nobody flushes by hand, it has _flush to itself.
StopAlone == pc["caller"] = "idle" /\ Alone

StopInv == StopAlone /\ StopPersists

\* Between its drain and the next start(), stop() leaves no batch in flight.
LEMMA NobodyFlushes ==
    ASSUME TypeInv, StopAlone, stopPc \in {"closing", "stopped", "raised"}
    PROVE  \A f \in Flushers : pc[f] \in {"idle", "off"} /\ batch[f] = <<>>
BY DEF TypeInv, TypeOK, TasksOK, LoopOff, StopAlone, Alone, Flushers

LEMMA StepAlone ==
    ASSUME TypeInv, Alone, [Next]_vars
    PROVE  Alone'
<1> USE DEF Alone
<1>0. /\ pc \in [Flushers -> Stages] /\ Flushers = {"loop", "stop", "caller"}
  BY Tasks
<1>1. CASE Start \/ StopBegin \/ Crash
  <2>1. CASE Start
    BY <1>0, <2>1 DEF Start
  <2>2. CASE StopBegin
    BY <1>0, <2>2 DEF StopBegin
  <2>3. CASE Crash
    BY <1>0, <2>3 DEF Crash
  <2> QED BY <1>1, <2>1, <2>2, <2>3
<1>2. CASE Enqueue \/ EnqueueUnserialisable \/ Cooldown \/ UNCHANGED vars
  BY <1>2 DEF Enqueue, EnqueueUnserialisable, Cooldown, vars, life, flushing
<1>3. CASE LoopTick \/ CallerFlush
  <2>1. pc'["stop"] = pc["stop"]
    BY <1>0, <1>3 DEF LoopTick, CallerFlush, EnterFlush, BeginPost
  <2> QED BY <1>3, <2>1 DEF LoopTick, CallerFlush, life
<1>5. CASE StopTry
  <2>1. UNCHANGED <<running, stopPc>> /\ stopPc = "flushing"
    BY <1>5 DEF StopTry
  <2> QED BY <2>1
<1>6. CASE StopDrain \/ StopEnd
  BY <1>6 DEF StopDrain, StopEnd, flushing
<1>7. ASSUME NEW f \in Flushers, Flush(f) PROVE Alone'
  <2>1. pc[f] \notin {"idle", "off"}
    BY <1>7 DEF Flush, Acquire, AcquireClosed, PostAccepted, PostRejected, PostFailed, Requeue,
                BackoffOver, PostBroken
  <2>2. UNCHANGED <<running, stopPc>> /\ \A g \in Flushers : g # f => pc'[g] = pc[g]
    BY <1>0, <1>7 DEF Flush, Acquire, BeginPost, AcquireClosed, PostAccepted, PostRejected,
                      PostFailed, Requeue, BackoffOver, PostBroken, life
  <2> QED BY <1>0, <2>1, <2>2
<1> QED BY <1>1, <1>2, <1>3, <1>5, <1>6, <1>7 DEF Next, Stop

LEMMA CallerStays ==
    ASSUME "external_flush" \notin Faults, TypeInv, pc["caller"] = "idle", [Next]_vars
    PROVE  pc'["caller"] = "idle"
<1>0. /\ pc \in [Flushers -> Stages] /\ Flushers = {"loop", "stop", "caller"}
  BY Tasks
<1>1. CASE Start \/ StopBegin \/ Crash
  BY <1>0, <1>1 DEF Start, StopBegin, Crash
<1>2. CASE Enqueue \/ EnqueueUnserialisable \/ Cooldown \/ StopDrain \/ StopEnd \/ UNCHANGED vars
  BY <1>2 DEF Enqueue, EnqueueUnserialisable, Cooldown, StopDrain, StopEnd, vars, flushing
<1>3. CASE LoopTick \/ StopTry
  BY <1>0, <1>3 DEF LoopTick, StopTry, EnterFlush, BeginPost, flushing
<1>4. ~CallerFlush
  BY DEF CallerFlush
<1>5. ASSUME NEW f \in Flushers, Flush(f) PROVE pc'["caller"] = "idle"
  <2>1. pc[f] # "idle" /\ \A g \in Flushers : g # f => pc'[g] = pc[g]
    BY <1>0, <1>5 DEF Flush, Acquire, BeginPost, AcquireClosed, PostAccepted, PostRejected,
                      PostFailed, Requeue, BackoffOver, PostBroken
  <2> QED BY <1>0, <2>1
<1> QED BY <1>1, <1>2, <1>3, <1>4, <1>5 DEF Next, Stop

\* Only what is produced after the call comes into memory behind the drain.
LEMMA StepPersists ==
    ASSUME "external_flush" \notin Faults, TypeInv, StopAlone, StopPersists, [Next]_vars
    PROVE  StopPersists'
<1>0. /\ pc \in [Flushers -> Stages] /\ Flushers = {"loop", "stop", "caller"}
  BY Tasks
<1>1. CASE Start \/ StopBegin \/ StopTry \/ Crash
  BY <1>1 DEF Start, StopBegin, StopTry, Crash, StopPersists
<1>2. CASE StopDrain
  <2>1. \A f \in Flushers : batch[f] = <<>>
    BY <1>0, <1>2 DEF StopDrain, StopAlone, Alone, TypeInv, TypeOK, TasksOK, LoopOff
  <2>2. Held' = {}
    BY <1>2, <2>1, Empty, HeldWhereNext DEF StopDrain, flushing
  <2> QED BY <2>2 DEF StopPersists
<1>3. CASE Enqueue
  <2> DEFINE e == produced + 1
             s == Append(buffer, e)
             x == Excess(s)
  <2>1. stopPc' = stopPc /\ stopMark' = stopMark /\ batch' = batch
        /\ buffer' = SubSeq(s, x + 1, Len(s))
    BY <1>3 DEF Enqueue, life, flushing, AppendBounded, KeepNewest
  <2>2. e \in Events /\ e > stopMark
    BY <1>3, ConstantsAssumption DEF Enqueue, TypeInv, TypeOK, CountersOK, Events
  <2>3. buffer \in Seq(Events)
    BY DEF TypeInv, TypeOK, QueueOK
  <2> HIDE DEF e
  <2>4. s = buffer \o <<e>>
    BY <2>2, <2>3, AppendIsConcat
  <2>5. s \in Seq(Events) /\ ToSet(s) = ToSet(buffer) \cup {e}
    <3> DEFINE t == <<e>>
    <3>1. t \in Seq(Events) /\ ToSet(t) = {e} /\ s = buffer \o t
      BY <2>2, <2>4, One
    <3> HIDE DEF t, s
    <3> QED BY <2>3, <3>1, Joined
  <2> HIDE DEF s
  <2>6. x \in 0 .. Len(s)
    BY <2>5, ShedOldest
  <2> HIDE DEF x
  <2>7. ToSet(buffer') \subseteq ToSet(buffer) \cup {e}
    BY <2>1, <2>5, <2>6, Cut
  <2>8. Held' \subseteq Held \cup {e}
    BY <2>1, <2>7, HeldWhere, HeldWhereNext
  <2> QED BY <2>1, <2>2, <2>8 DEF StopPersists
<1>4. CASE EnqueueUnserialisable \/ Cooldown \/ StopEnd \/ UNCHANGED vars
  <2>1. UNCHANGED <<buffer, batch, stopMark>>
    BY <1>4 DEF EnqueueUnserialisable, Cooldown, StopEnd, vars, life, flushing
  <2>2. stopPc' \in {"closing", "stopped"} => stopPc \in {"closing", "stopped"}
    BY <1>4 DEF EnqueueUnserialisable, Cooldown, StopEnd, vars, life
  <2>3. Held' = Held
    BY <2>1 DEF Held, InFlight
  <2> QED BY <2>1, <2>2, <2>3 DEF StopPersists
<1>5. CASE LoopTick
  <2>1. stopPc' = stopPc /\ stopPc = "none"
    BY <1>5 DEF LoopTick, life, StopAlone, Alone, TypeInv, LoopOff
  <2> QED BY <2>1 DEF StopPersists
<1>6. ~CallerFlush
  BY DEF CallerFlush
<1>7. ASSUME NEW f \in Flushers, Flush(f) PROVE StopPersists'
  <2>1. pc[f] \notin {"idle", "off"}
    BY <1>7 DEF Flush, Acquire, AcquireClosed, PostAccepted, PostRejected, PostFailed, Requeue,
                BackoffOver, PostBroken
  <2>2. stopPc' = stopPc
    BY <1>7 DEF Flush, Acquire, AcquireClosed, PostAccepted, PostRejected, PostFailed, Requeue,
                BackoffOver, PostBroken, life
  <2> QED BY <2>1, <2>2, NobodyFlushes DEF StopPersists
<1> QED BY <1>1, <1>2, <1>3, <1>4, <1>5, <1>6, <1>7 DEF Next, Stop

\* When nobody else flushes, what was produced before stop() is not in memory once
\* stop() has drained the buffer, whatever became of its final attempts.
THEOREM StopLeavesNothing ==
    ASSUME "external_flush" \notin Faults
    PROVE  Spec => []StopPersists
<1>1. Init => StopInv
  BY DEF Init, StopInv, StopAlone, Alone, StopPersists, Flushers
<1>2. TypeInv /\ StopInv /\ [Next]_vars => (TypeInv /\ StopInv)'
  BY StepTypes, StepAlone, CallerStays, StepPersists DEF StopInv, StopAlone
<1>3. StopInv => StopPersists
  BY DEF StopInv
<1> QED BY <1>1, <1>2, <1>3, InitTypes, PTL DEF Spec

-----------------------------------------------------------------------------
(* The breaker *)

\* What has begun since the breaker opened and what may still begin is one POST.
AtMostOne ==
    /\ circuit # "open" => late = 0
    /\ circuit = "open" =>
         /\ late <= 1
         /\ \A f, g \in Flushers : pc[f] = "waiting" /\ pc[g] = "waiting" => f = g
         /\ late = 1 => \A f \in Flushers : pc[f] # "waiting"

LateInv == Alone /\ AtMostOne

\* Steps that open nothing, begin no POST and make nobody wait.
LEMMA NoneLater ==
    ASSUME AtMostOne, UNCHANGED <<circuit, late>>,
           \A f \in Flushers : pc'[f] = "waiting" => pc[f] = "waiting"
    PROVE  AtMostOne'
BY DEF AtMostOne

\* _flush begins a POST or makes a task wait only when the breaker is not open.
LEMMA EnterLate == ASSUME TypeInv, AtMostOne, NEW f \in Flushers, EnterFlush(f) PROVE AtMostOne'
<1>1. circuit # "open" /\ circuit' # "open" /\ late' = late
  BY DEF EnterFlush, MayFlush, BeginPost
<1> QED BY <1>1 DEF AtMostOne

\* The waiting task that begins a POST was the only one.
LEMMA AcquireLate == ASSUME TypeInv, AtMostOne, NEW f \in Flushers, Acquire(f) PROVE AtMostOne'
<1>0. pc \in [Flushers -> Stages] /\ late \in Nat /\ circuit' = circuit /\ pc[f] = "waiting"
  BY Tasks DEF TypeInv, TypeOK, StagesOK, Acquire
<1>1. \A g \in Flushers : pc'[g] = "waiting" => g # f /\ pc[g] = "waiting"
  BY <1>0 DEF Acquire, BeginPost
<1>2. late' = late \/ (circuit = "open" /\ late' = late + 1)
  BY DEF Acquire, BeginPost
<1>3. CASE circuit # "open"
  BY <1>0, <1>2, <1>3 DEF AtMostOne
<1>4. CASE circuit = "open"
  <2>1. late = 0 /\ \A g \in Flushers : pc'[g] # "waiting"
    BY <1>0, <1>1, <1>4 DEF AtMostOne
  <2> QED BY <1>0, <1>2, <1>4, <2>1 DEF AtMostOne
<1> QED BY <1>3, <1>4

\* When a failing POST opens the breaker, at most one other task waits: stop() and
\* the background task never flush at the same time.
LEMMA FailedLate ==
    ASSUME TypeInv, Alone, AtMostOne, NEW f \in Flushers, PostFailed(f) PROVE AtMostOne'
<1>0. /\ pc \in [Flushers -> Stages] /\ Flushers = {"loop", "stop", "caller"}
      /\ late' = late /\ circuit' \in {circuit, "open"}
      /\ pc[f] = "posting" /\ pc' = [pc EXCEPT ![f] = "requeue"]
  BY Tasks DEF PostFailed
<1>1. \A g \in Flushers : pc'[g] = "waiting" => g # f /\ pc[g] = "waiting"
  BY <1>0
<1>2. CASE circuit = "open"
  BY <1>0, <1>1, <1>2 DEF AtMostOne
<1>3. CASE circuit # "open"
  <2>1. late' = 0
    BY <1>0, <1>3 DEF AtMostOne
  <2>2. pc["stop"] = "idle" \/ pc["loop"] = "off"
    BY DEF Alone, TypeInv, LoopOff
  <2>3. \A g, h \in Flushers : pc'[g] = "waiting" /\ pc'[h] = "waiting" => g = h
    BY <1>0, <1>1, <2>2
  <2> QED BY <2>1, <2>3 DEF AtMostOne
<1> QED BY <1>2, <1>3

LEMMA StepLate ==
    ASSUME TypeInv, Alone, AtMostOne, [Next]_vars PROVE AtMostOne'
<1>0. /\ pc \in [Flushers -> Stages] /\ Flushers = {"loop", "stop", "caller"}
  BY Tasks
<1>1. CASE Start \/ StopBegin
  <2>1. CASE Start
    BY <1>0, <2>1, NoneLater DEF Start, breaker
  <2>2. CASE StopBegin
    BY <1>0, <2>2, NoneLater DEF StopBegin
  <2> QED BY <1>1, <2>1, <2>2
<1>2. CASE Crash \/ Cooldown
  BY <1>2 DEF Crash, Cooldown, AtMostOne
<1>3. CASE Enqueue \/ EnqueueUnserialisable \/ StopDrain \/ StopEnd \/ UNCHANGED vars
  BY <1>3, NoneLater
     DEF Enqueue, EnqueueUnserialisable, StopDrain, StopEnd, vars, flushing, breaker
<1>4. CASE LoopTick \/ CallerFlush \/ StopTry
  <2>1. CASE LoopTick \/ CallerFlush
    BY <1>0, <2>1, EnterLate DEF LoopTick, CallerFlush
  <2>2. CASE StopTry
    BY <1>0, <2>2, EnterLate, NoneLater DEF StopTry, flushing, breaker
  <2> QED BY <1>4, <2>1, <2>2
<1>5. ASSUME NEW f \in Flushers, Flush(f) PROVE AtMostOne'
  <2>1. CASE AcquireClosed(f)
    BY <1>0, <2>1, NoneLater DEF AcquireClosed, breaker
  <2>2. CASE PostRejected(f) \/ BackoffOver(f) \/ \E k \in 0 .. BatchSize : PostAccepted(f, k)
    BY <1>0, <2>2, NoneLater DEF PostRejected, BackoffOver, PostAccepted, breaker
  <2>3. CASE Requeue(f)
    BY <1>0, <2>3, NoneLater DEF Requeue, breaker
  <2>4. ASSUME NEW kind, PostBroken(f, kind) PROVE AtMostOne'
    <3>1. PICK stage \in {"idle", "crashed", "off"} : pc' = [pc EXCEPT ![f] = stage]
      BY <2>4 DEF PostBroken
    <3> QED BY <1>0, <2>4, <3>1, NoneLater DEF PostBroken
  <2> QED BY <1>5, <2>1, <2>2, <2>3, <2>4, AcquireLate, FailedLate DEF Flush
<1> QED BY <1>1, <1>2, <1>3, <1>4, <1>5 DEF Next, Stop

\* _flush checks the breaker before it waits for _flush_lock.  All the same one POST at
\* most begins while the breaker is open, for every threshold, retry budget and set of
\* faults, through stop() and start().
THEOREM BreakerPauses == Spec => []OneLatePost
<1>1. Init => TypeInv /\ LateInv
  BY InitTypes DEF Init, LateInv, Alone, AtMostOne, Flushers
<1>2. TypeInv /\ LateInv /\ [Next]_vars => (TypeInv /\ LateInv)'
  BY StepTypes, StepAlone, StepLate DEF LateInv
<1>3. LateInv => OneLatePost
  BY DEF LateInv, AtMostOne, OneLatePost
<1> QED BY <1>1, <1>2, <1>3, PTL DEF Spec
=============================================================================
