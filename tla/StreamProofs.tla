---------------------------- MODULE StreamProofs ----------------------------
(***************************************************************************)
(* Theorems about StreamGuard, for every text, chunking, interval, window, *)
(* hold-back and cap.                                                      *)
(***************************************************************************)
EXTENDS StreamGuard, FiniteSetTheorems, TLAPS

\* What was yielded leaves the held-back characters out.
Held == emitted = 0 \/ emitted + Holdback <= received

Counts == received \in Nat /\ emitted \in Nat /\ emitted <= received

\* Where the coroutine is, and how the iteration is ending.
Stage ==
    /\ pc \in {"reading", "scanning", "yielded", "over"} /\ mode \in {"incremental", "final"}
    /\ ending \in Endings
    /\ pc \in {"reading", "yielded"} => ending = "none" /\ outcome = "none"
    /\ pc = "scanning" => outcome = "none"
    /\ pc = "scanning" /\ mode = "incremental" => ending = "none"

\* While text may still be yielded no finding blocks.
Clean ==
    /\ pc \in {"reading", "yielded"} => ~Blocks(findings)
    /\ pc = "scanning" /\ mode = "incremental" => ~Blocks(findings)

\* Only a stream that completed, or was cut, has yielded its tail.
Withheld ==
    /\ ending # "cut" /\ outcome # "done" => Held
    /\ outcome = "violation" => ending # "cut"

StreamInv == Counts /\ Stage /\ Clean /\ Withheld

-----------------------------------------------------------------------------
LEMMA InitStream == Init => StreamInv
BY DEF Init, StreamInv, Counts, Stage, Clean, Withheld, Held, Blocks, Endings

\* Releasing yields neither what is held back nor what was yielded before.
LEMMA ReleaseHolds ==
    ASSUME NEW n \in Nat, emitted \in Nat, emitted <= n,
           emitted = 0 \/ emitted + Holdback <= n, Release(n)
    PROVE  /\ emitted' \in Nat /\ emitted' <= n
           /\ emitted' = 0 \/ emitted' + Holdback <= n
           /\ pc' \in {"reading", "yielded"}
BY StreamAssumption DEF Release

\* Beginning the final evaluation leaves text and findings alone.
LEMMA FinalizeStage ==
    ASSUME NEW e \in Endings, e # "violation", Finalize(e)
    PROVE  /\ ending' = e
           /\ pc' \in {"scanning", "over"}
           /\ pc' = "scanning" => mode' = "final" /\ outcome' = outcome
           /\ pc' = "over" => outcome' = (IF e = "none" THEN "done" ELSE e) /\ mode' = mode
BY DEF Finalize, Begin, evaluation

LEMMA ReceiveStep ==
    ASSUME StreamInv, NEW n \in ChunkSizes, Receive(n)
    PROVE  StreamInv' /\ ~Blocks(findings')
<1>1. /\ n \in Nat /\ received + n \in Nat /\ received' = received + n
      /\ received \in Nat /\ emitted \in Nat /\ emitted <= received + n
  BY StreamAssumption DEF StreamInv, Counts, Receive
<1>2. /\ pc = "reading" /\ UNCHANGED <<findings, ending, outcome>>
      /\ ending = "none" /\ outcome = "none" /\ ~Blocks(findings) /\ Held
      /\ mode \in {"incremental", "final"}
  BY DEF Receive, StreamInv, Stage, Clean, Withheld
<1>3. Holdback \in Nat
  BY StreamAssumption
<1>4. emitted = 0 \/ emitted + Holdback <= received + n
  BY <1>1, <1>2, <1>3 DEF Held
<1>5. CASE pc' = "scanning" /\ mode' = "incremental" /\ UNCHANGED emitted
  BY <1>1, <1>2, <1>4, <1>5
     DEF StreamInv, Counts, Stage, Clean, Withheld, Held, Endings, Blocks
<1>6. CASE Release(received') /\ UNCHANGED evaluation
  <2>1. /\ emitted' \in Nat /\ emitted' <= received'
        /\ emitted' = 0 \/ emitted' + Holdback <= received'
        /\ pc' \in {"reading", "yielded"}
    BY <1>1, <1>4, <1>6, ReleaseHolds
  <2> QED BY <1>1, <1>2, <1>6, <2>1
     DEF StreamInv, Counts, Stage, Clean, Withheld, Held, Endings, Blocks, evaluation
<1> QED BY <1>5, <1>6 DEF Receive, Begin

LEMMA EndStep ==
    ASSUME StreamInv, End \/ ProviderFails \/ Close
    PROVE  StreamInv' /\ (Blocks(findings') => emitted' = emitted)
<1>1. /\ pc \in {"reading", "yielded"} /\ UNCHANGED <<received, findings>>
      /\ ~Blocks(findings) /\ Held /\ outcome = "none" /\ mode \in {"incremental", "final"}
      /\ received \in Nat /\ emitted \in Nat /\ emitted <= received
  BY DEF End, ProviderFails, Close, arrival, StreamInv, Counts, Stage, Clean, Withheld
<1>2. PICK e \in {"none", "cut", "error", "closed"} :
         /\ Finalize(e)
         /\ emitted' = IF e = "cut" THEN received ELSE emitted
  BY DEF End, ProviderFails, Close
<1>3. /\ ending' = e /\ e \in Endings /\ e # "violation"
      /\ pc' \in {"scanning", "over"}
      /\ pc' = "scanning" => mode' = "final" /\ outcome' = outcome
      /\ pc' = "over" => outcome' = (IF e = "none" THEN "done" ELSE e) /\ mode' = mode
  BY <1>2, FinalizeStage DEF Endings
<1>4. Counts'
  BY <1>1, <1>2 DEF Counts
<1>5. Stage' /\ Clean'
  BY <1>1, <1>3 DEF Stage, Clean, Endings
<1>6. Withheld'
  BY <1>1, <1>2, <1>3 DEF Withheld, Held
<1>7. ~Blocks(findings')
  BY <1>1 DEF Blocks
<1> QED BY <1>4, <1>5, <1>6, <1>7 DEF StreamInv

\* Leaving an evaluation by an exception.
LEMMA LeaveStep ==
    ASSUME StreamInv, pc = "scanning", UNCHANGED <<received, emitted, findings>>,
           NEW e \in {"error", "cancelled"},
           \/ mode = "incremental" /\ Finalize(e)
           \/ mode = "final" /\ pc' = "over" /\ outcome' = e /\ UNCHANGED <<mode, ending>>
    PROVE  StreamInv'
<1>1. e \in Endings /\ e # "violation" /\ e # "none"
  BY DEF Endings
<1>2. CASE mode = "incremental" /\ Finalize(e)
  <2>1. /\ ending' = e /\ pc' \in {"scanning", "over"}
        /\ pc' = "scanning" => mode' = "final" /\ outcome' = outcome
        /\ pc' = "over" => outcome' = e /\ mode' = mode
    BY <1>1, <1>2, FinalizeStage
  <2> QED BY <1>1, <1>2, <2>1 DEF StreamInv, Counts, Stage, Clean, Withheld, Held
<1>3. CASE mode = "final" /\ pc' = "over" /\ outcome' = e /\ UNCHANGED <<mode, ending>>
  BY <1>1, <1>3 DEF StreamInv, Counts, Stage, Clean, Withheld, Held
<1> QED BY <1>2, <1>3

LEMMA CancelStep == ASSUME StreamInv, Cancel PROVE StreamInv' /\ emitted' = emitted
<1>1. UNCHANGED <<received, emitted, findings>>
  BY DEF Cancel, arrival
<1>2. CASE pc = "reading" /\ Finalize("cancelled")
  <2>1. "cancelled" \in Endings
    BY DEF Endings
  <2>2. /\ ending' = "cancelled" /\ pc' \in {"scanning", "over"}
        /\ pc' = "scanning" => mode' = "final" /\ outcome' = outcome
        /\ pc' = "over" => outcome' = "cancelled" /\ mode' = mode
    BY <1>2, <2>1, FinalizeStage
  <2> QED BY <1>1, <1>2, <2>1, <2>2 DEF StreamInv, Counts, Stage, Clean, Withheld, Held
<1>3. CASE pc = "scanning"
  BY <1>1, <1>3, LeaveStep DEF Cancel, Scanning, evaluation
<1> QED BY <1>1, <1>2, <1>3 DEF Cancel, Scanning

LEMMA RunStep ==
    ASSUME StreamInv, RunAnswers \/ RunTimesOut \/ RunCrashes
    PROVE  StreamInv' /\ emitted' = emitted
<1>1. pc = "scanning" /\ UNCHANGED <<received, emitted, findings>>
  BY DEF RunAnswers, RunTimesOut, RunCrashes, Raise, Scanning, arrival
<1>2. CASE Raise
  BY <1>1, <1>2, LeaveStep DEF Raise, evaluation, StreamInv, Stage
<1>3. CASE UNCHANGED <<pc, mode, ending, outcome>>
  BY <1>1, <1>3 DEF StreamInv, Counts, Stage, Clean, Withheld, Held, Endings, Blocks
<1> QED BY <1>1, <1>2, <1>3 DEF RunAnswers, RunTimesOut, RunCrashes

LEMMA MergeStep ==
    ASSUME StreamInv, Merge
    PROVE  StreamInv' /\ (Blocks(findings') => emitted' = emitted)
<1>1. /\ pc = "scanning" /\ received' = received /\ outcome = "none"
      /\ received \in Nat /\ emitted \in Nat /\ emitted <= received
  BY DEF Merge, arrival, StreamInv, Stage, Counts
<1>2. CASE mode = "incremental" /\ AfterChunk(findings')
  <2>1. ending = "none" /\ Held
    BY <1>1, <1>2 DEF StreamInv, Stage, Withheld
  <2>2. CASE Blocks(findings')
    <3>1. /\ ending' = "violation" /\ pc' = "scanning" /\ mode' = "final"
          /\ UNCHANGED <<emitted, outcome>>
      BY <1>2, <2>2 DEF AfterChunk, Begin
    <3> QED BY <1>1, <2>1, <3>1 DEF StreamInv, Counts, Stage, Clean, Withheld, Held, Endings
  <2>3. CASE ~Blocks(findings')
    <3>1. Release(received) /\ UNCHANGED <<mode, ending, outcome>>
      BY <1>2, <2>3 DEF AfterChunk
    <3>2. /\ emitted' \in Nat /\ emitted' <= received
          /\ emitted' = 0 \/ emitted' + Holdback <= received
          /\ pc' \in {"reading", "yielded"}
      BY <1>1, <2>1, <3>1, ReleaseHolds DEF Held
    <3>3. ~(Blocks(findings))'
      BY <2>3 DEF Blocks
    <3> QED BY <1>1, <1>2, <2>1, <2>3, <3>1, <3>2, <3>3
       DEF StreamInv, Counts, Stage, Clean, Withheld, Held, Endings
  <2> QED BY <2>2, <2>3
<1>3. CASE mode = "final" /\ AfterFinal(findings') /\ pc' = "over" /\ UNCHANGED <<mode, ending>>
  <2>1. ending \in Endings /\ (ending # "cut" => Held)
    BY <1>1 DEF StreamInv, Stage, Withheld
  <2>2. emitted' = IF ending = "none" /\ ~Blocks(findings') THEN received ELSE emitted
    BY <1>3 DEF AfterFinal
  <2>3. /\ ending = "none" /\ ~Blocks(findings') => outcome' = "done"
        /\ ending = "cut" => outcome' = "cut"
    BY <1>3 DEF AfterFinal
  <2>4. Counts' /\ Stage' /\ Clean'
    BY <1>1, <1>3, <2>1, <2>2 DEF Counts, Stage, Clean
  <2>5. Withheld'
    BY <1>1, <1>3, <2>1, <2>2, <2>3 DEF Withheld, Held
  <2> QED BY <2>2, <2>4, <2>5 DEF StreamInv
<1> QED BY <1>2, <1>3 DEF Merge

LEMMA StepStream ==
    ASSUME StreamInv, [Next]_vars
    PROVE  StreamInv' /\ (Blocks(findings') => emitted' = emitted)
<1>1. CASE UNCHANGED vars
  BY <1>1 DEF vars, arrival, evaluation, StreamInv, Counts, Stage, Clean, Withheld, Held,
              Endings, Blocks
<1>2. CASE Resume
  BY <1>2 DEF Resume, arrival, evaluation, StreamInv, Counts, Stage, Clean, Withheld, Held,
              Endings, Blocks
<1> QED BY <1>1, <1>2, ReceiveStep, EndStep, CancelStep, RunStep, MergeStep DEF Next

-----------------------------------------------------------------------------
\* However the stream is chunked and whatever its policies, its provider and its
\* consumer do, a ViolationError is raised with the last Holdback characters unyielded.
THEOREM TailIsHeld == Spec => []TailHeld
<1>1. StreamInv /\ [Next]_vars => StreamInv'
  BY StepStream
<1>2. StreamInv => TailHeld
  BY DEF StreamInv, Withheld, TailHeld, Held
<1> QED BY InitStream, <1>1, <1>2, PTL DEF Spec

\* From the step on that learns of a blocking finding, no step yields anything.
THEOREM BlockIsFinal == Spec => NothingAfterBlock
<1>1. StreamInv /\ [Next]_vars => StreamInv'
  BY StepStream
<1>2. StreamInv /\ [Next]_vars => [Blocks(findings') => emitted' = emitted]_vars
  BY StepStream
<1> QED BY InitStream, <1>1, <1>2, PTL DEF Spec, NothingAfterBlock

-----------------------------------------------------------------------------
(* The windows of a content *)

LEMMA Division ==
    ASSUME NEW a \in Nat, NEW b \in Nat \ {0}
    PROVE  a \div b \in Nat /\ (a \div b) * b <= a /\ a < (a \div b) * b + b
OBVIOUS

LEMMA Least ==
    ASSUME NEW m \in Nat, NEW n \in Nat
    PROVE  Lesser(m, n) \in Nat /\ Lesser(m, n) <= m /\ Lesser(m, n) <= n
           /\ Lesser(m, n) \in {m, n}
BY DEF Lesser

Step == ScanChunk - ScanOverlap
Count(n) == IF n <= ScanChunk THEN 1 ELSE 1 + (n - ScanChunk + Step - 1) \div Step

LEMMA Counted ==
    ASSUME NEW n \in Nat
    PROVE  /\ Step \in Nat \ {0} /\ Count(n) \in Nat \ {0} /\ Len(Windows(n)) = Count(n)
           /\ \A w \in 1 .. Count(n) :
                 /\ Windows(n)[w].from = (w - 1) * Step /\ (w - 1) * Step \in Nat
                 /\ Windows(n)[w].to = Lesser((w - 1) * Step + ScanChunk, n)
           /\ n <= (Count(n) - 1) * Step + ScanChunk
<1>1. Step \in Nat \ {0} /\ ScanChunk \in Nat \ {0} /\ ScanOverlap \in Nat /\ Step + ScanOverlap = ScanChunk
  BY StreamAssumption DEF Step
<1>2. Count(n) \in Nat \ {0} /\ n <= (Count(n) - 1) * Step + ScanChunk
  <2>1. CASE n <= ScanChunk
    BY <1>1, <2>1 DEF Count
  <2>2. CASE ~(n <= ScanChunk)
    <3> DEFINE a == n - ScanChunk + Step - 1
    <3> DEFINE q == a \div Step
    <3>1. a \in Nat
      BY <1>1, <2>2
    <3> HIDE DEF a
    <3>2. q \in Nat /\ a < q * Step + Step
      BY <1>1, <3>1, Division
    <3> HIDE DEF q
    <3>3. Count(n) = 1 + q
      BY <2>2 DEF Count, q, a
    <3>4. Count(n) - 1 = q /\ q * Step \in Nat
      BY <1>1, <3>2, <3>3
    <3> DEFINE m == q * Step
    <3> HIDE DEF m
    <3>5. n <= m + ScanChunk
      <4>1. n - ScanChunk + Step - 1 < m + Step /\ m \in Nat
        BY <3>2, <3>4 DEF a, m
      <4> QED BY <1>1, <2>2, <4>1
    <3> QED BY <3>2, <3>3, <3>4, <3>5 DEF m
  <2> QED BY <2>1, <2>2
<1>3. Windows(n) = [w \in 1 .. Count(n) |->
                       [from |-> (w - 1) * Step, to |-> Lesser((w - 1) * Step + ScanChunk, n)]]
  BY DEF Windows, Count, Step
<1>4. Len(Windows(n)) = Count(n)
  BY <1>2, <1>3
<1>5. ASSUME NEW w \in 1 .. Count(n) PROVE (w - 1) * Step \in Nat
  <2>1. w - 1 \in Nat
    BY <1>2
  <2> QED BY <1>1, <2>1
<1> QED BY <1>1, <1>2, <1>3, <1>4, <1>5

\* What is no longer than the overlap lies within one window.
LEMMA WindowsCover ==
    ASSUME NEW n \in Nat, NEW f \in Nat \ {0}, NEW l \in Nat, f <= l, l <= n, l - f <= ScanOverlap
    PROVE  \E w \in 1 .. Len(Windows(n)) : Windows(n)[w].from < f /\ l <= Windows(n)[w].to
<1>1. Step \in Nat \ {0} /\ ScanChunk \in Nat \ {0} /\ ScanOverlap \in Nat /\ Step + ScanOverlap = ScanChunk
  BY StreamAssumption DEF Step
<1>2. Count(n) \in Nat \ {0} /\ Len(Windows(n)) = Count(n) /\ n <= (Count(n) - 1) * Step + ScanChunk
  BY Counted
<1> SUFFICES \E w \in 1 .. Count(n) : (w - 1) * Step < f /\ l <= Lesser((w - 1) * Step + ScanChunk, n)
  <2> PICK w \in 1 .. Count(n) : (w - 1) * Step < f /\ l <= Lesser((w - 1) * Step + ScanChunk, n)
    OBVIOUS
  <2>1. Windows(n)[w].from = (w - 1) * Step /\ Windows(n)[w].to = Lesser((w - 1) * Step + ScanChunk, n)
    BY Counted
  <2> QED BY <1>2, <2>1
<1> DEFINE q == (f - 1) \div Step
<1>3. q \in Nat /\ q * Step <= f - 1 /\ f - 1 < q * Step + Step /\ q * Step \in Nat
  BY <1>1, Division
<1> HIDE DEF q
<1>4. CASE q + 1 <= Count(n)
  <2> DEFINE m == q * Step
  <2>1. m \in Nat /\ m <= f - 1 /\ f - 1 < m + Step
    BY <1>3
  <2> HIDE DEF m
  <2>2. m < f /\ l <= m + ScanChunk /\ m + ScanChunk \in Nat
    BY <1>1, <2>1
  <2>3. l <= Lesser(m + ScanChunk, n)
    BY <2>2, Least
  <2> DEFINE w == q + 1
  <2>4. w \in 1 .. Count(n) /\ w - 1 = q
    BY <1>2, <1>3, <1>4
  <2> HIDE DEF w
  <2>5. (w - 1) * Step = m
    BY <2>4 DEF m
  <2> QED BY <2>2, <2>3, <2>4, <2>5
<1>5. CASE ~(q + 1 <= Count(n))
  <2> DEFINE c == Count(n) - 1
  <2>1. c \in Nat /\ c <= q /\ c + 1 = Count(n)
    BY <1>2, <1>3, <1>5
  <2> HIDE DEF c
  <2>2. c * Step \in Nat /\ c * Step <= q * Step
    BY <1>1, <1>3, <2>1
  <2>3. c * Step < f /\ l <= c * Step + ScanChunk /\ c * Step + ScanChunk \in Nat
    <3> DEFINE m == c * Step
    <3> DEFINE k == q * Step
    <3>1. m \in Nat /\ k \in Nat /\ m <= k /\ k <= f - 1 /\ n <= m + ScanChunk
      BY <1>2, <1>3, <2>2 DEF c
    <3> HIDE DEF m, k
    <3>2. m < f /\ l <= m + ScanChunk /\ m + ScanChunk \in Nat
      BY <1>1, <3>1
    <3> QED BY <3>2 DEF m
  <2>4. l <= Lesser(c * Step + ScanChunk, n)
    BY <2>3, Least
  <2>5. Count(n) \in 1 .. Count(n) /\ Count(n) - 1 = c
    BY <1>2, <2>1
  <2> QED BY <2>3, <2>4, <2>5
<1> QED BY <1>2, <1>3, <1>4, <1>5

-----------------------------------------------------------------------------
(* Where findings are said to be *)

Placed(k) ==
    /\ k[3] => \E o \in text : o.policy = k[1] /\ o.verbatim /\ o.first - 1 = k[2]
    /\ Plain(k[1]) => k[3]

\* The evaluation under way has a policy to run, or none left, and a window to run it on.
Position ==
    /\ received \in Nat /\ text \subseteq Occurrences
    /\ pc = "scanning" =>
          /\ turn \in Nat \ {0} /\ mode \in {"incremental", "final"}
          /\ window \in 1 .. Len(Windows(Scanned(mode)))
Places == \A k \in found \cup findings : Placed(k)
PlaceInv == Position /\ Places

\* The windows of every evaluation.
LEMMA Extent ==
    ASSUME received \in Nat, NEW m \in {"incremental", "final"}
    PROVE  /\ Scanned(m) \in Nat /\ Scanned(m) <= received /\ Start(m) \in Nat /\ Origin(m) = Start(m)
           /\ Scanned("final") = Retained /\ Start("final") = 0
           /\ Len(Windows(Scanned(m))) \in Nat \ {0}
<1>1. Scanned(m) \in Nat /\ Scanned(m) <= received
  BY StreamAssumption, Least DEF Scanned, Retained
<1>2. Start(m) \in Nat /\ Origin(m) = Start(m)
  BY <1>1 DEF Start, Origin
<1>3. Len(Windows(Scanned(m))) \in Nat \ {0}
  BY <1>1, Counted
<1> QED BY <1>1, <1>2, <1>3 DEF Scanned, Start

\* The violations of a plain word and the places where it stands in the window are the same.
LEMMA AssignedAre ==
    ASSUME PlaceInv
    PROVE  /\ Assigned \subseteq {o \in text : o.policy = Policies[turn] /\ o.verbatim}
           /\ Cardinality(Violations) \in Nat /\ Violations \subseteq Shown
           /\ Violations # {} => Cardinality(Violations) > 0
           /\ Plain(Policies[turn]) => Assigned = Violations
<1> DEFINE Verbatim == {o \in Shown : o.verbatim}
           Upto(o) == {v \in Verbatim : v.first <= o.first}
<1>1. text \subseteq Occurrences /\ IsFiniteSet(Occurrences)
  BY StreamAssumption DEF PlaceInv, Position
<1>2. Shown \subseteq Occurrences /\ Violations \subseteq Shown /\ Verbatim \subseteq Shown
  BY <1>1 DEF Shown, Violations
<1>3. IsFiniteSet(Shown) /\ IsFiniteSet(Violations) /\ IsFiniteSet(Verbatim)
  BY <1>1, <1>2, FS_Subset
<1>4. Cardinality(Violations) \in Nat /\ (Violations # {} => Cardinality(Violations) > 0)
  BY <1>3, FS_CardinalityType, FS_EmptySet
<1>5. Assigned = {o \in Verbatim : Cardinality(Upto(o)) <= Cardinality(Violations)}
  BY DEF Assigned
<1>6. ASSUME Plain(Policies[turn]) PROVE Assigned = Violations
  <2>1. \A o \in Shown : o.verbatim /\ Within(o.near)
    BY <1>6 DEF Plain, Shown
  <2>2. Verbatim = Violations
    BY <2>1 DEF Violations
  <2>3. ASSUME NEW o \in Verbatim PROVE Cardinality(Upto(o)) <= Cardinality(Violations)
    <3>1. Upto(o) \subseteq Violations
      BY <2>2
    <3> QED BY <1>3, <3>1, FS_Subset
  <2> QED BY <1>5, <2>2, <2>3
<1> QED BY <1>2, <1>4, <1>5, <1>6 DEF Shown

\* A run finds its word where it stands, and of a word its window shows something.
LEMMA Found ==
    ASSUME PlaceInv, Scanning
    PROVE  /\ \A k \in Finds : Placed(k)
           /\ \A o \in text :
                 o.policy = Policies[turn] /\ Within(o.first) /\ Within(o.last) /\ Within(o.near)
                 => \E k \in Finds : k[1] = o.policy /\ (Plain(o.policy) => k[2] = o.first - 1)
<1> DEFINE Place(o) == <<Policies[turn], Origin(mode) + (o.first - 1 - Start(mode)), TRUE>>
           Nowhere == <<Policies[turn], Origin(mode) + Slice.from, FALSE>>
           Few == Cardinality(Assigned) < Cardinality(Violations)
<1>1. Finds = {Place(o) : o \in Assigned} \cup IF Few THEN {Nowhere} ELSE {}
  BY DEF Finds
<1>2. mode \in {"incremental", "final"} /\ received \in Nat /\ text \subseteq Occurrences
  BY DEF PlaceInv, Position, Scanning
<1>3. Start(mode) \in Nat /\ Origin(mode) = Start(mode)
  BY <1>2, Extent
<1>4. ASSUME NEW o \in text PROVE Place(o) = <<Policies[turn], o.first - 1, TRUE>>
  <2>1. o.first \in Nat
    BY <1>2, StreamAssumption DEF Occurrence
  <2>2. Origin(mode) + (o.first - 1 - Start(mode)) = o.first - 1
    BY <1>3, <2>1
  <2> QED BY <2>2
<1>5. Plain(Policies[turn]) => ~Few
  BY AssignedAre
<1> HIDE DEF Place
<1>6. ASSUME NEW k \in Finds PROVE Placed(k)
  <2>1. CASE \E o \in Assigned : k = Place(o)
    <3> PICK o \in Assigned : k = Place(o)
      BY <2>1
    <3>1. o \in text /\ o.policy = Policies[turn] /\ o.verbatim
      BY AssignedAre
    <3>2. k = <<Policies[turn], o.first - 1, TRUE>>
      BY <1>4, <3>1
    <3>3. k[1] = Policies[turn] /\ k[2] = o.first - 1 /\ k[3]
      BY <3>2
    <3> QED BY <3>1, <3>3, Zenon DEF Placed
  <2>2. CASE Few /\ k = Nowhere
    <3>1. k[1] = Policies[turn] /\ ~k[3]
      BY <2>2
    <3> QED BY <1>5, <2>2, <3>1 DEF Placed
  <2> HIDE DEF Few, Nowhere
  <2> QED BY <1>1, <2>1, <2>2
<1>7. ASSUME NEW o \in text, o.policy = Policies[turn], Within(o.first), Within(o.last), Within(o.near)
      PROVE  \E k \in Finds : k[1] = o.policy /\ (Plain(o.policy) => k[2] = o.first - 1)
  <2>1. o \in Violations
    BY <1>7 DEF Violations, Shown
  <2>2. CASE Plain(o.policy)
    <3> DEFINE k == <<Policies[turn], o.first - 1, TRUE>>
    <3>1. k \in Finds
      BY <1>1, <1>4, <1>7, <2>1, <2>2, AssignedAre
    <3>2. k[1] = Policies[turn] /\ k[2] = o.first - 1
      OBVIOUS
    <3> HIDE DEF k
    <3> QED BY <1>7, <3>1, <3>2
  <2>3. CASE ~Plain(o.policy) /\ Assigned # {}
    <3> PICK v \in Assigned : TRUE
      BY <2>3
    <3> DEFINE k == <<Policies[turn], v.first - 1, TRUE>>
    <3>1. k \in Finds
      BY <1>1, <1>4, AssignedAre
    <3>2. k[1] = Policies[turn]
      OBVIOUS
    <3> HIDE DEF k
    <3> QED BY <1>7, <2>3, <3>1, <3>2
  <2>4. CASE ~Plain(o.policy) /\ Assigned = {}
    <3>1. Cardinality(Assigned) = 0 /\ Cardinality(Violations) > 0
      BY <2>1, <2>4, AssignedAre, FS_EmptySet
    <3>2. Nowhere \in Finds
      BY <1>1, <3>1
    <3>3. Nowhere[1] = o.policy
      BY <1>7
    <3> QED BY <2>4, <3>2, <3>3
  <2> QED BY <2>2, <2>3, <2>4
<1> QED BY <1>6, <1>7

LEMMA PlaceInit == Init => PlaceInv
BY DEF Init, PlaceInv, Position, Places

HasWindow == 1 \in 1 .. Len(Windows(Scanned(mode))) /\ Len(Windows(Scanned(mode))) \in Nat \ {0}
Sizes == received \in Nat /\ mode \in {"incremental", "final"}
LEMMA SomeWindow == Sizes => HasWindow
<1> SUFFICES ASSUME Sizes PROVE HasWindow
  OBVIOUS
<1>1. Len(Windows(Scanned(mode))) \in Nat \ {0}
  BY Extent DEF Sizes
<1> QED BY <1>1 DEF HasWindow
LEMMA SomeWindowNext == Sizes' => HasWindow'
BY SomeWindow, PTL

\* An evaluation that begins is at its first run.
LEMMA BeginsPlaced ==
    ASSUME Position, received' \in Nat, text' = text, NEW m \in {"incremental", "final"}, Begin(m)
    PROVE  Position'
<1>1. Sizes'
  BY DEF Sizes, Begin
<1>2. HasWindow'
  BY <1>1, SomeWindowNext
<1> QED BY <1>1, <1>2 DEF Position, Begin, HasWindow, Sizes

LEMMA FinalizePlaced ==
    ASSUME PlaceInv, NEW e, Finalize(e), UNCHANGED <<text, received, findings>>
    PROVE  PlaceInv'
<1>1. Position'
  <2>1. CASE pc' = "over"
    BY <2>1 DEF PlaceInv, Position
  <2>2. CASE Begin("final")
    BY <2>2, BeginsPlaced DEF PlaceInv, Position
  <2> QED BY <2>1, <2>2 DEF Finalize
<1>2. found' \in {found, {}}
  BY DEF Finalize, Begin, evaluation
<1> QED BY <1>1, <1>2 DEF PlaceInv, Places, Placed, Plain

LEMMA PlaceRun ==
    ASSUME PlaceInv, RunAnswers \/ RunTimesOut \/ RunCrashes
    PROVE  PlaceInv'
<1>1. /\ Scanning /\ pc = "scanning" /\ received \in Nat /\ UNCHANGED <<text, received, findings>>
      /\ turn \in Nat \ {0} /\ mode \in {"incremental", "final"}
      /\ window \in 1 .. Len(Windows(Scanned(mode)))
      /\ Len(Windows(Scanned(mode))) \in Nat \ {0}
  BY SomeWindow DEF RunAnswers, RunTimesOut, RunCrashes, Raise, arrival, config, Scanning,
                    PlaceInv, Position, HasWindow, Sizes
<1>2. CASE Raise
  <2>1. CASE Finalize("error")
    BY <1>1, <2>1, FinalizePlaced
  <2>2. CASE pc' = "over" /\ UNCHANGED evaluation
    BY <1>1, <2>2 DEF PlaceInv, Position, Places, Placed, Plain, evaluation
  <2> QED BY <1>2, <2>1, <2>2 DEF Raise
<1>3. CASE /\ UNCHANGED <<pc, mode>>
           /\ NextRun \/ NextPolicy \/ (turn' = Len(Policies) + 1 /\ window' = 1)
           /\ found' \in {found, {}} \/ found' = found \cup Finds
  <2>1. Scanned(mode)' = Scanned(mode) /\ Windows(Scanned(mode))' = Windows(Scanned(mode))
    BY <1>1, <1>3 DEF Scanned, Retained, Windows
  <2>2. Len(Policies) + 1 \in Nat \ {0}
    BY StreamAssumption
  <2>3. turn' \in Nat \ {0} /\ window' \in 1 .. Len(Windows(Scanned(mode)))
    <3> DEFINE c == Len(Windows(Scanned(mode)))
    <3>1. c \in Nat \ {0} /\ window \in 1 .. c
      BY <1>1
    <3>2. \/ turn' = turn /\ window' = window + 1 /\ window < c
          \/ turn' = turn + 1 /\ window' = 1
          \/ turn' = Len(Policies) + 1 /\ window' = 1
      BY <1>3 DEF NextRun, NextPolicy
    <3> HIDE DEF c
    <3>3. turn' \in Nat \ {0} /\ window' \in 1 .. c
      BY <1>1, <2>2, <3>1, <3>2
    <3> QED BY <3>3 DEF c
  <2>4. Position'
    BY <1>1, <1>3, <2>1, <2>3 DEF PlaceInv, Position
  <2>5. \A k \in found' \cup findings' : Placed(k)
    BY <1>1, <1>3, Found DEF PlaceInv, Places
  <2> QED BY <1>1, <2>4, <2>5 DEF PlaceInv, Places, Placed, Plain
<1> QED BY <1>2, <1>3 DEF RunAnswers, RunTimesOut, RunCrashes

LEMMA PlaceNext == PlaceInv /\ [Next]_vars => PlaceInv'
<1> SUFFICES ASSUME PlaceInv, [Next]_vars PROVE PlaceInv'
  OBVIOUS
<1>0. received \in Nat
  BY DEF PlaceInv, Position
<1>1. ASSUME NEW n \in ChunkSizes, Receive(n) PROVE PlaceInv'
  <2>1. received' \in Nat /\ UNCHANGED <<text, findings>> /\ found' \in {found, {}}
    BY <1>0, <1>1, StreamAssumption DEF Receive, config, evaluation, Begin
  <2>2. CASE Begin("incremental")
    BY <2>1, <2>2, BeginsPlaced DEF PlaceInv, Places, Placed, Plain
  <2>3. CASE Release(received')
    BY <2>1, <2>3 DEF Release, PlaceInv, Position, Places, Placed, Plain
  <2> QED BY <1>1, <2>2, <2>3 DEF Receive
<1>2. CASE End \/ ProviderFails \/ Close
  <2>1. UNCHANGED <<text, received, findings>> /\ \E e \in Endings : Finalize(e)
    BY <1>2 DEF End, ProviderFails, Close, config, arrival, Endings
  <2> QED BY <2>1, FinalizePlaced
<1>3. CASE Cancel
  <2>1. UNCHANGED <<text, received, findings>>
    BY <1>3 DEF Cancel, config, arrival
  <2>2. CASE Finalize("cancelled")
    BY <2>1, <2>2, FinalizePlaced
  <2>3. CASE pc' = "over" /\ UNCHANGED evaluation
    BY <2>1, <2>3 DEF PlaceInv, Position, Places, Placed, Plain, evaluation
  <2> QED BY <1>3, <2>2, <2>3 DEF Cancel
<1>4. CASE Merge
  <2>1. UNCHANGED <<text, received>> /\ findings' = findings \cup found /\ found' = {}
    BY <1>4 DEF Merge, AfterChunk, Begin, config, arrival
  <2>2. Places'
    BY <2>1 DEF PlaceInv, Places, Placed, Plain
  <2>3. CASE Begin("final")
    BY <1>0, <2>1, <2>2, <2>3, BeginsPlaced DEF PlaceInv
  <2>4. CASE pc' # "scanning"
    BY <2>1, <2>2, <2>4 DEF PlaceInv, Position
  <2> QED BY <1>4, <2>3, <2>4 DEF Merge, AfterChunk, Release
<1>5. CASE Resume \/ UNCHANGED vars
  <2>1. UNCHANGED <<text, received, findings, mode, turn, window, found>> /\ (pc' = pc \/ pc' = "reading")
    BY <1>5 DEF Resume, vars, config, arrival, evaluation
  <2> QED BY <2>1 DEF PlaceInv, Position, Places, Placed, Plain, Windows, Scanned, Retained
<1> QED BY <1>1, <1>2, <1>3, <1>4, <1>5, PlaceRun DEF Next

LEMMA PlaceAlways == Spec => []PlaceInv
BY PlaceInit, PlaceNext, PTL DEF Spec

\* For every text, interval, window, cap and overlap: what is said to be located is at a place where
\* its word stands in the stream, and of a word that is never disguised or refused all is located,
\* whichever evaluation and window found it (stream.py:278-281, 355-363, guard.py:1009-1037).
THEOREM FindingsInPlace == Spec => []FoundWhereItIs
<1>1. PlaceInv => FoundWhereItIs
  BY DEF PlaceInv, Places, Placed, FoundWhereItIs
<1> QED BY <1>1, PlaceAlways, PTL

-----------------------------------------------------------------------------
(* The event *)

\* No event before the end but that of an incremental evaluation that found what blocks,
\* and nothing is found in an empty stream.
Told ==
    /\ outcome = "none" /\ ending # "violation" => events = <<>>
    /\ ending = "violation" => Blocks(findings)
    /\ outcome = "none" /\ ending = "violation" => events = <<"blocked">>
    /\ received = 0 => findings = {} /\ pc # "scanning"
    /\ OneTrueEvent
EventInv == StreamInv /\ Told

LEMMA EventInit == Init => Told
BY DEF Init, Told, OneTrueEvent

LEMMA NoBlock == Status({}) = "passed"
BY DEF Status, Blocks

\* The final evaluation that begins has told nothing; without text it tells the end.
LEMMA FinalizeTold ==
    ASSUME EventInv, NEW e \in Endings, e # "violation", Finalize(e), UNCHANGED <<received, findings>>,
           ending = "none", outcome = "none"
    PROVE  Told'
<1>1. events = <<>> /\ ending' = e /\ e # "violation" /\ (received = 0 => findings = {})
  BY DEF EventInv, Told, Finalize
<1>2. CASE received = 0
  <2>1. events' = <<"passed">> /\ Status(findings') = "passed" /\ outcome' # "none" /\ pc' = "over"
    BY <1>1, <1>2, NoBlock DEF Finalize, Report, Endings
  <2> QED BY <1>1, <2>1 DEF Told, OneTrueEvent
<1>3. CASE received # 0
  <2>1. events' = events /\ outcome' = outcome
    BY <1>3 DEF Finalize
  <2> QED BY <1>1, <1>3, <2>1 DEF Told, OneTrueEvent
<1> QED BY <1>2, <1>3

LEMMA RaiseTold ==
    ASSUME EventInv, pc = "scanning", Raise
    PROVE  Told'
<1>1. UNCHANGED <<received, findings>> /\ outcome = "none"
  BY DEF Raise, arrival, EventInv, StreamInv, Stage
<1>2. CASE mode = "incremental" /\ Finalize("error")
  BY <1>1, <1>2, FinalizeTold DEF EventInv, StreamInv, Stage, Endings
<1>3. CASE pc' = "over" /\ outcome' = "error" /\ UNCHANGED <<ending, events>>
  BY <1>1, <1>3 DEF EventInv, Told, OneTrueEvent
<1> QED BY <1>2, <1>3 DEF Raise

LEMMA MergeTold ==
    ASSUME EventInv, Merge
    PROVE  Told'
<1>1. /\ pc = "scanning" /\ outcome = "none" /\ received' = received /\ received # 0
      /\ findings \subseteq findings' /\ ending \in Endings
      /\ mode = "incremental" => ending = "none"
  BY DEF Merge, arrival, EventInv, StreamInv, Stage, Told
<1>2. Blocks(findings) => Blocks(findings')
  BY <1>1 DEF Blocks
<1>3. CASE mode = "incremental" /\ AfterChunk(findings')
  <2>1. events = <<>> /\ ending = "none"
    BY <1>1, <1>3 DEF EventInv, Told
  <2>2. CASE Blocks(findings')
    <3>1. events' = <<"blocked">> /\ ending' = "violation" /\ outcome' = "none"
      BY <1>1, <1>3, <2>1, <2>2 DEF AfterChunk, Report
    <3>2. Blocks(findings)'
      BY <2>2 DEF Blocks
    <3> QED BY <1>1, <3>1, <3>2 DEF Told, OneTrueEvent
  <2>3. CASE ~Blocks(findings')
    <3>1. UNCHANGED <<events, ending, outcome>>
      BY <1>3, <2>3 DEF AfterChunk
    <3> QED BY <1>1, <2>1, <3>1 DEF Told, OneTrueEvent
  <2> QED BY <2>2, <2>3
<1>4. CASE mode = "final" /\ AfterFinal(findings') /\ pc' = "over" /\ UNCHANGED ending
  <2>1. events' = <<Status(findings')>>
    <3>1. CASE ending = "violation"
      <4>1. events = <<"blocked">> /\ Blocks(findings')
        BY <1>1, <1>2, <3>1 DEF EventInv, Told
      <4> QED BY <1>4, <4>1 DEF AfterFinal, Report, Status
    <3>2. CASE ending # "violation"
      BY <1>1, <1>4, <3>2 DEF EventInv, Told, AfterFinal, Report
    <3> QED BY <3>1, <3>2
  <2>2. outcome' # "none"
    BY <1>1, <1>4 DEF AfterFinal, Endings
  <2>3. ending' = "violation" => Blocks(findings)'
    BY <1>2, <1>4 DEF EventInv, Told, Blocks
  <2>4. OneTrueEvent'
    BY <2>1 DEF OneTrueEvent, Status, Blocks
  <2> QED BY <1>1, <2>2, <2>3, <2>4 DEF Told
<1> QED BY <1>3, <1>4 DEF Merge

LEMMA EventNext == EventInv /\ [Next]_vars => EventInv'
<1> SUFFICES ASSUME EventInv, [Next]_vars PROVE Told'
  BY StepStream DEF EventInv
<1>0. StreamInv /\ Told
  BY DEF EventInv
<1>1. ASSUME NEW n \in ChunkSizes, Receive(n) PROVE Told'
  <2>1. /\ received' \in Nat \ {0} /\ UNCHANGED <<findings, ending, outcome, events>>
    BY <1>0, <1>1, StreamAssumption DEF Receive, StreamInv, Counts
  <2> QED BY <1>0, <2>1 DEF Told, OneTrueEvent
<1>2. CASE End \/ ProviderFails \/ Close
  <2>1. /\ UNCHANGED <<received, findings>> /\ ending = "none" /\ outcome = "none"
        /\ \E e \in {"none", "cut", "error", "closed"} : Finalize(e)
    BY <1>0, <1>2 DEF End, ProviderFails, Close, arrival, StreamInv, Stage
  <2>2. "none" \in Endings /\ "cut" \in Endings /\ "error" \in Endings /\ "closed" \in Endings
    BY DEF Endings
  <2> QED BY <2>1, <2>2, FinalizeTold
<1>3. CASE Cancel
  <2>1. UNCHANGED <<received, findings>> /\ outcome = "none" /\ "cancelled" \in Endings
    BY <1>0, <1>3 DEF Cancel, Scanning, arrival, StreamInv, Stage, Endings
  <2>2. CASE Finalize("cancelled") /\ ending = "none"
    BY <2>1, <2>2, FinalizeTold
  <2>3. CASE pc' = "over" /\ outcome' = "cancelled" /\ UNCHANGED <<ending, events>>
    BY <1>0, <2>1, <2>3 DEF Told, OneTrueEvent
  <2> QED BY <1>0, <1>3, <2>2, <2>3 DEF Cancel, Scanning, StreamInv, Stage
<1>4. CASE RunAnswers \/ RunTimesOut \/ RunCrashes
  <2>1. CASE Raise
    BY <1>4, <2>1, RaiseTold DEF RunTimesOut, RunCrashes, RunAnswers, Scanning
  <2>2. CASE UNCHANGED <<received, findings, ending, outcome, events, pc>>
    BY <1>0, <2>2 DEF Told, OneTrueEvent
  <2> QED BY <1>4, <2>1, <2>2 DEF RunAnswers, RunTimesOut, RunCrashes, arrival
<1>5. CASE Resume \/ UNCHANGED vars
  <2>1. UNCHANGED <<received, findings, ending, outcome, events>> /\ (pc' = pc \/ pc' = "reading")
    BY <1>5 DEF Resume, vars, arrival
  <2> QED BY <1>0, <2>1 DEF Told, OneTrueEvent, Blocks
<1> QED BY <1>1, <1>2, <1>3, <1>4, <1>5, MergeTold DEF Next

LEMMA EventAlways == Spec => []EventInv
<1>1. Init => EventInv
  BY InitStream, EventInit DEF EventInv
<1> QED BY <1>1, EventNext, PTL DEF Spec

\* For every text and configuration: a stream that is not cancelled and does not fail closed leaves
\* exactly one event, with the status of all that was found in it (stream.py:254-276, 367).
THEOREM OneEventIsTrue == Spec => []OneTrueEvent
BY EventAlways, PTL DEF EventInv, Told

-----------------------------------------------------------------------------
(* What the final evaluation has looked at *)

Sees(w, o) == Windows(Retained)[w].from < Begins(o) /\ Ends(o) <= Windows(Retained)[w].to
Known(f, o) == \E k \in f : k[1] = o.policy /\ (Plain(o.policy) => k[2] = o.first - 1)
\* The runs made so far, of policies that did not fail, have found what their windows show.
Past(i, w) == i < turn \/ (i = turn /\ w < window)
Looked ==
    pc = "scanning" /\ mode = "final" /\ ~aborted =>
        \A i \in 1 .. Len(Policies), o \in text :
            o.policy = Policies[i] /\ o.policy \notin skipped =>
                \A w \in 1 .. Len(Windows(Retained)) : Past(i, w) /\ Sees(w, o) => Known(found, o)
LookInv == Looked /\ RetainedScanned

\* An occurrence lies between the ends of what the policy must be shown.
LEMMA Reach ==
    ASSUME PlaceInv, NEW o \in text
    PROVE  /\ Begins(o) \in Nat /\ Ends(o) \in Nat \ {0} /\ Begins(o) <= Ends(o)
           /\ o.near # 0 => Begins(o) # 0
           /\ \A n \in {o.first, o.last, o.near} : n \in Nat /\ Begins(o) <= n /\ n <= Ends(o)
<1>1. /\ o.first \in Nat \ {0} /\ o.last \in Nat \ {0} /\ o.near \in Nat /\ o.first <= o.last
  BY StreamAssumption DEF PlaceInv, Position, Occurrence
<1> QED BY <1>1 DEF Begins, Ends, Lesser

LEMMA LookInit == Init => LookInv
BY DEF Init, LookInv, Looked, RetainedScanned

LookedInv == EventInv /\ PlaceInv /\ LookInv

\* Neither a stream that is being read nor an evaluation that begins has looked at anything.
LEMMA NotLooked ==
    ASSUME LookedInv, outcome' # "done",
           pc' # "scanning" \/ Begin("incremental") \/ Begin("final")
    PROVE  LookInv'
<1>1. RetainedScanned'
  BY DEF RetainedScanned
<1>2. Looked'
  <2>1. CASE pc' # "scanning" \/ Begin("incremental")
    BY <2>1 DEF Looked, Begin
  <2>2. CASE Begin("final")
    <3>1. turn' = 1 /\ window' = 1
      BY <2>2 DEF Begin
    <3>2. \A i, w \in Nat \ {0} : ~Past(i, w)'
      BY <3>1 DEF Past
    <3>3. \A x : \A i \in 1 .. x : i \in Nat \ {0}
      OBVIOUS
    <3> QED BY <3>2, <3>3 DEF Looked
  <2> QED BY <2>1, <2>2
<1> QED BY <1>1, <1>2 DEF LookInv

LEMMA FinalizeLooked ==
    ASSUME LookedInv, NEW e \in Endings, Finalize(e), UNCHANGED <<received, text, findings>>,
           outcome = "none", ending = "none"
    PROVE  LookInv'
<1>1. CASE received = 0
  <2>1. pc' = "over" /\ findings' = {} /\ Retained' = 0
    BY <1>1, StreamAssumption DEF Finalize, Retained, Lesser, LookedInv, EventInv, Told
  <2>2. \A o \in text : ~(Ends(o) <= 0)
    BY Reach DEF LookedInv
  <2>3. ~Blocks(findings)'
    BY <2>1 DEF Blocks
  <2> QED BY <2>1, <2>2, <2>3 DEF LookInv, Looked, RetainedScanned
<1>2. CASE received # 0
  BY <1>2, NotLooked DEF Finalize
<1> QED BY <1>1, <1>2

\* A run that answers has found what it could see.
LEMMA AnswerLooked ==
    ASSUME LookedInv, RunAnswers
    PROVE  LookInv'
<1>1. /\ Scanning /\ pc = "scanning" /\ received \in Nat /\ found' = found \cup Finds
      /\ UNCHANGED <<text, received, pc, mode, skipped, aborted, outcome>> /\ outcome = "none"
      /\ turn \in Nat \ {0} /\ window \in 1 .. Len(Windows(Scanned(mode)))
  BY DEF RunAnswers, Scanning, arrival, config, LookedInv, EventInv, StreamInv, Stage, PlaceInv, Position
<1>2. RetainedScanned'
  BY <1>1 DEF RetainedScanned
<1>3. Retained' = Retained /\ Retained \in Nat
  BY <1>1, StreamAssumption, Least DEF Retained
<1>4. Looked'
  <2> SUFFICES ASSUME mode = "final", ~aborted, NEW i \in 1 .. Len(Policies), NEW o \in text,
                      o.policy = Policies[i], o.policy \notin skipped,
                      NEW w \in 1 .. Len(Windows(Retained)), Past(i, w)', Sees(w, o)
               PROVE  Known(found', o)
    BY <1>1, <1>3 DEF Looked, Sees, Known, Plain, Windows
  <2>1. Scanned(mode) = Retained /\ Start(mode) = 0
    BY DEF Scanned, Start
  <2>2. Past(i, w) \/ (i = turn /\ w = window)
    <3> DEFINE c == Len(Windows(Retained))
    <3>1. c \in Nat \ {0} /\ window \in 1 .. c /\ w \in 1 .. c
      BY <1>1, <1>3, <2>1, Counted
    <3>2. IF window < c THEN window' = window + 1 /\ turn' = turn ELSE turn' = turn + 1 /\ window' = 1
      BY <2>1 DEF RunAnswers, NextRun, NextPolicy
    <3> HIDE DEF c
    <3> QED BY <1>1, <3>1, <3>2 DEF Past
  <2>3. CASE Past(i, w)
    <3>1. Known(found, o)
      BY <1>1, <2>3 DEF LookedInv, LookInv, Looked
    <3> QED BY <1>1, <3>1 DEF Known
  <2>4. CASE i = turn /\ w = window
    <3>1. Windows(Retained)[w].from \in Nat /\ Windows(Retained)[w].to \in Nat
      <4>1. Len(Windows(Retained)) = Count(Retained)
        BY <1>3, Counted
      <4>2. /\ Windows(Retained)[w].from = (w - 1) * Step /\ (w - 1) * Step \in Nat
            /\ Windows(Retained)[w].to = Lesser((w - 1) * Step + ScanChunk, Retained)
        BY <1>3, <4>1, Counted
      <4>3. (w - 1) * Step + ScanChunk \in Nat
        BY <4>2, StreamAssumption
      <4> QED BY <1>3, <4>2, <4>3, Least
    <3>2. /\ \A n \in Nat : Begins(o) <= n /\ n <= Ends(o) => Within(n)
          /\ Begins(o) \in Nat /\ Ends(o) \in Nat
      <4>1. Start(mode) = 0 /\ Slice = Windows(Retained)[w] /\ Begins(o) \in Nat /\ Ends(o) \in Nat
        BY <2>1, <2>4, Reach DEF Slice, LookedInv
      <4> QED BY <3>1, <4>1 DEF Sees, Within
    <3>3. Known(Finds, o)
      BY <1>1, <2>4, <3>2, Found, Reach DEF LookedInv, Known
    <3> QED BY <1>1, <3>3 DEF Known
  <2> QED BY <2>2, <2>3, <2>4
<1> QED BY <1>2, <1>4 DEF LookInv

\* A policy that is left early is named as one that failed.
LEMMA FailureLooked ==
    ASSUME LookedInv, RunTimesOut \/ RunCrashes
    PROVE  LookInv'
<1>1. /\ Scanning /\ pc = "scanning" /\ received \in Nat /\ UNCHANGED <<text, received, findings>>
      /\ skipped' = skipped \cup {Policies[turn]} /\ outcome = "none" /\ turn \in Nat \ {0}
      /\ mode = "incremental" => ending = "none"
  BY DEF RunTimesOut, RunCrashes, Raise, Scanning, arrival, config,
         LookedInv, EventInv, StreamInv, Stage, PlaceInv, Position
<1>2. CASE Raise
  <2>1. CASE mode = "incremental" /\ Finalize("error")
    BY <1>1, <2>1, FinalizeLooked DEF Endings
  <2>2. CASE pc' = "over" /\ outcome' = "error"
    BY <2>2, NotLooked
  <2> QED BY <1>2, <2>1, <2>2 DEF Raise
<1>3. CASE NextPolicy /\ UNCHANGED <<pc, mode, found, outcome, aborted>>
  <2>1. RetainedScanned'
    BY <1>1, <1>3 DEF RetainedScanned
  <2>2. Retained' = Retained
    BY <1>1 DEF Retained
  <2>3. Looked'
    <3> SUFFICES ASSUME mode = "final", ~aborted, NEW i \in 1 .. Len(Policies), NEW o \in text,
                        o.policy = Policies[i], o.policy \notin skipped',
                        NEW w \in 1 .. Len(Windows(Retained)), Past(i, w)', Sees(w, o)
                 PROVE  Known(found, o)
      BY <1>1, <1>3, <2>2 DEF Looked, Sees, Known, Plain, Windows
    <3>1. i # turn /\ o.policy \notin skipped
      BY <1>1
    <3>2. Past(i, w)
      BY <1>1, <1>3, <3>1 DEF Past, NextPolicy
    <3> QED BY <1>1, <3>1, <3>2 DEF LookedInv, LookInv, Looked
  <2> QED BY <2>1, <2>3 DEF LookInv
<1>4. CASE aborted' /\ UNCHANGED outcome
  BY <1>1, <1>4 DEF LookInv, Looked, RetainedScanned
<1> QED BY <1>2, <1>3, <1>4 DEF RunTimesOut, RunCrashes

\* What completes has looked at all there was.
LEMMA MergeLooked ==
    ASSUME LookedInv, Merge
    PROVE  LookInv'
<1>1. /\ pc = "scanning" /\ Evaluated /\ received \in Nat /\ UNCHANGED <<text, received, skipped, aborted>>
      /\ findings' = findings \cup found /\ outcome = "none"
  BY DEF Merge, arrival, config, LookedInv, EventInv, StreamInv, Stage, PlaceInv, Position
<1>2. CASE mode = "incremental" /\ AfterChunk(findings')
  <2>1. outcome' = "none" /\ (pc' # "scanning" \/ Begin("final"))
    BY <1>1, <1>2 DEF AfterChunk, Release
  <2> QED BY <2>1, NotLooked
<1>3. CASE mode = "final" /\ AfterFinal(findings') /\ pc' = "over"
  <2>1. outcome' = "done" => ~Blocks(findings')
    BY <1>3 DEF AfterFinal, LookedInv, EventInv, StreamInv, Stage, Endings
  <2>2. ASSUME ~aborted, NEW o \in text, Ends(o) <= Retained, Short(o), o.policy \notin skipped
        PROVE  Known(found, o)
    <3>1. /\ o \in Occurrence /\ o.first \in Nat \ {0} /\ o.last \in Nat /\ o.first <= o.last
          /\ o.policy \in ToSet(Policies)
      BY StreamAssumption DEF LookedInv, PlaceInv, Position, Occurrence
    <3>2. PICK i \in 1 .. Len(Policies) : Policies[i] = o.policy
      BY <3>1, StreamAssumption DEF ToSet
    <3>3. Retained \in Nat
      BY <1>1, StreamAssumption, Least DEF Retained
    <3>4. PICK w \in 1 .. Len(Windows(Retained)) : Sees(w, o)
      <4> DEFINE b == Begins(o)
                 e == Ends(o)
      <4>1. b \in Nat \ {0} /\ e \in Nat /\ b <= e /\ e - b <= ScanOverlap /\ e <= Retained
        BY <2>2, Reach DEF LookedInv, Short
      <4>2. \E w \in 1 .. Len(Windows(Retained)) : Windows(Retained)[w].from < b /\ e <= Windows(Retained)[w].to
        <5> HIDE DEF b, e
        <5> QED BY <3>3, <4>1, WindowsCover
      <4> QED BY <4>2 DEF Sees
    <3>5. Past(i, w)
      BY <1>1, StreamAssumption DEF Past, Evaluated, LookedInv, PlaceInv, Position
    <3> QED BY <1>1, <1>3, <2>2, <3>2, <3>4, <3>5 DEF LookedInv, LookInv, Looked
  <2>3. RetainedScanned'
    <3> SUFFICES ASSUME outcome' = "done"
                 PROVE  /\ ~Blocks(findings)'
                        /\ ~aborted => \A o \in text :
                              (Ends(o) <= Retained /\ Short(o) /\ o.policy \notin skipped) => Reported(o)'
      BY <1>1 DEF RetainedScanned, Retained
    <3>1. ~Blocks(findings)'
      BY <2>1 DEF Blocks
    <3>2. ASSUME NEW o, Known(found, o) PROVE Reported(o)'
      BY <1>1, <3>2 DEF Known, Reported, Plain
    <3> QED BY <2>2, <3>1, <3>2
  <2> QED BY <1>3, <2>3 DEF LookInv, Looked
<1> QED BY <1>2, <1>3 DEF Merge

LEMMA LookNext == LookedInv /\ [Next]_vars => LookInv'
<1> SUFFICES ASSUME LookedInv, [Next]_vars PROVE LookInv'
  OBVIOUS
<1>0. StreamInv
  BY DEF LookedInv, EventInv
<1>1. ASSUME NEW n \in ChunkSizes, Receive(n) PROVE LookInv'
  <2>1. outcome' # "done" /\ (pc' # "scanning" \/ Begin("incremental"))
    BY <1>0, <1>1 DEF Receive, Release, StreamInv, Stage
  <2> QED BY <2>1, NotLooked
<1>2. CASE End \/ ProviderFails \/ Close
  <2>1. /\ UNCHANGED <<received, text, findings>> /\ ending = "none" /\ outcome = "none"
        /\ \E e \in Endings : Finalize(e)
    BY <1>0, <1>2 DEF End, ProviderFails, Close, arrival, config, StreamInv, Stage, Endings
  <2> QED BY <2>1, FinalizeLooked
<1>3. CASE Cancel
  <2>1. UNCHANGED <<received, text, findings>> /\ outcome = "none" /\ "cancelled" \in Endings
    BY <1>0, <1>3 DEF Cancel, Scanning, arrival, config, StreamInv, Stage, Endings
  <2>2. CASE Finalize("cancelled") /\ ending = "none"
    BY <2>1, <2>2, FinalizeLooked
  <2>3. CASE pc' = "over" /\ outcome' = "cancelled"
    BY <2>3, NotLooked
  <2> QED BY <1>0, <1>3, <2>2, <2>3 DEF Cancel, Scanning, StreamInv, Stage
<1>4. CASE Resume
  BY <1>0, <1>4, NotLooked DEF Resume, StreamInv, Stage
<1>5. CASE UNCHANGED vars
  <2>1. /\ UNCHANGED <<text, received, pc, mode, turn, window, found, findings, outcome, skipped, aborted>>
        /\ Retained' = Retained
    BY <1>5 DEF vars, arrival, config, evaluation, Retained
  <2>2. Looked'
    BY <2>1 DEF LookedInv, LookInv, Looked, Sees, Past, Known, Plain, Windows
  <2>3. RetainedScanned'
    BY <2>1 DEF LookedInv, LookInv, RetainedScanned, Reported, Plain, Blocks
  <2> QED BY <2>2, <2>3 DEF LookInv
<1> QED BY <1>1, <1>2, <1>3, <1>4, <1>5, AnswerLooked, FailureLooked, MergeLooked DEF Next

\* For every text, policies, window, overlap and cap: a stream that completes has found, of what
\* it kept, all that is no longer than the overlap, but for policies that failed, unless an evaluation
\* was given up; and nothing it found blocks (stream.py:254-276, guard.py:53-73).
THEOREM KeptIsScanned == Spec => []RetainedScanned
<1>1. Spec => []LookedInv
  <2>1. LookedInv /\ [Next]_vars => LookedInv'
    BY EventNext, PlaceNext, LookNext DEF LookedInv
  <2>2. Init => LookedInv
    BY InitStream, EventInit, PlaceInit, LookInit DEF LookedInv, EventInv
  <2> QED BY <2>1, <2>2, PTL DEF Spec
<1> QED BY <1>1, PTL DEF LookedInv, LookInv
=============================================================================
