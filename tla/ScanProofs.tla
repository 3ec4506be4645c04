----------------------------- MODULE ScanProofs -----------------------------
(***************************************************************************)
(* Theorems about ContentScan, for all texts, policies, words, windows and *)
(* caps.                                                                   *)
(***************************************************************************)
EXTENDS ContentScan, FiniteSetTheorems, SequenceTheorems, TLAPS

\* "A pattern spanning a boundary is still seen whole by at least one window" (guard.py:60):
\* what a policy has to see at once is not longer than the overlap, plus one.
Fitting ==
    \A p \in PolicySet : Len(Word[p]) + (IF p \in Refined THEN Reach ELSE 0) <= Overlap + 1

-----------------------------------------------------------------------------
(* Windows *)

LEMMA Division ==
    ASSUME NEW a \in Nat, NEW b \in Nat \ {0}
    PROVE  a \div b \in Nat /\ (a \div b) * b <= a /\ a < (a \div b) * b + b
OBVIOUS

LEMMA Least ==
    ASSUME NEW m \in Nat, NEW n \in Nat
    PROVE  Lesser(m, n) \in Nat /\ Lesser(m, n) <= m /\ Lesser(m, n) <= n
           /\ Lesser(m, n) \in {m, n}
BY DEF Lesser

Step == Chunk - Overlap
Amount(n) == IF n <= Chunk THEN 1 ELSE 1 + (n - Chunk + Step - 1) \div Step

LEMMA Counted ==
    ASSUME NEW n \in Nat
    PROVE  /\ Step \in Nat \ {0} /\ Amount(n) \in Nat \ {0}
           /\ DOMAIN Bases(n) = 1 .. Amount(n) /\ Len(Bases(n)) = Amount(n)
           /\ \A w \in 1 .. Amount(n) : Bases(n)[w] = (w - 1) * Step /\ Bases(n)[w] \in Nat
           /\ n <= (Amount(n) - 1) * Step + Chunk
<1>1. Step \in Nat \ {0} /\ Chunk \in Nat \ {0} /\ Overlap \in Nat /\ Step + Overlap = Chunk
  BY ScanAssumption DEF Step
<1>2. Amount(n) \in Nat \ {0} /\ n <= (Amount(n) - 1) * Step + Chunk
  <2>1. CASE n <= Chunk
    BY <1>1, <2>1 DEF Amount
  <2>2. CASE ~(n <= Chunk)
    <3> DEFINE a == n - Chunk + Step - 1
    <3> DEFINE q == a \div Step
    <3>1. a \in Nat
      BY <1>1, <2>2
    <3> HIDE DEF a
    <3>2. q \in Nat /\ a < q * Step + Step
      BY <1>1, <3>1, Division
    <3> HIDE DEF q
    <3>3. Amount(n) = 1 + q
      BY <2>2 DEF Amount, q, a
    <3>4. Amount(n) - 1 = q /\ q * Step \in Nat
      BY <1>1, <3>2, <3>3
    <3> DEFINE m == q * Step
    <3> HIDE DEF m
    <3>5. n <= m + Chunk
      <4>1. n - Chunk + Step - 1 < m + Step /\ m \in Nat
        BY <3>2, <3>4 DEF a, m
      <4> QED BY <1>1, <2>2, <4>1
    <3> QED BY <3>2, <3>3, <3>4, <3>5 DEF m
  <2> QED BY <2>1, <2>2
<1>3. Bases(n) = [w \in 1 .. Amount(n) |-> (w - 1) * Step]
  BY DEF Bases, Amount, Step
<1>4. DOMAIN Bases(n) = 1 .. Amount(n) /\ Len(Bases(n)) = Amount(n)
  BY <1>2, <1>3
<1>5. ASSUME NEW w \in 1 .. Amount(n) PROVE (w - 1) * Step \in Nat
  <2>1. w - 1 \in Nat
    BY <1>2
  <2> QED BY <1>1, <2>1
<1> QED BY <1>1, <1>2, <1>3, <1>4, <1>5

\* What is no longer than the overlap, plus one, lies within one window.
LEMMA WindowsCover ==
    ASSUME NEW n \in Nat, NEW f \in Nat \ {0}, NEW l \in Nat, f <= l, l <= n, l - f <= Overlap
    PROVE  \E w \in DOMAIN Bases(n) :
               Bases(n)[w] \in Nat /\ Bases(n)[w] < f /\ l <= Lesser(Bases(n)[w] + Chunk, n)
<1>1. Step \in Nat \ {0} /\ Chunk \in Nat \ {0} /\ Overlap \in Nat /\ Step + Overlap = Chunk
  BY ScanAssumption DEF Step
<1>2. Amount(n) \in Nat \ {0} /\ n <= (Amount(n) - 1) * Step + Chunk
  BY Counted
<1> SUFFICES \E w \in 1 .. Amount(n) : (w - 1) * Step < f /\ l <= Lesser((w - 1) * Step + Chunk, n)
  BY Counted
<1> DEFINE q == (f - 1) \div Step
<1>3. q \in Nat /\ q * Step <= f - 1 /\ f - 1 < q * Step + Step /\ q * Step \in Nat
  BY <1>1, Division
<1> HIDE DEF q
<1>4. CASE q + 1 <= Amount(n)
  <2> DEFINE m == q * Step
  <2>1. m \in Nat /\ m <= f - 1 /\ f - 1 < m + Step
    BY <1>3
  <2> HIDE DEF m
  <2>2. m < f /\ l <= m + Chunk /\ m + Chunk \in Nat
    BY <1>1, <2>1
  <2>3. l <= Lesser(m + Chunk, n)
    BY <2>2, Least
  <2> DEFINE w == q + 1
  <2>4. w \in 1 .. Amount(n) /\ w - 1 = q
    BY <1>2, <1>3, <1>4
  <2> HIDE DEF w
  <2>5. (w - 1) * Step = m
    BY <2>4 DEF m
  <2> QED BY <2>2, <2>3, <2>4, <2>5
<1>5. CASE ~(q + 1 <= Amount(n))
  <2> DEFINE c == Amount(n) - 1
  <2>1. c \in Nat /\ c <= q /\ c + 1 = Amount(n)
    BY <1>2, <1>3, <1>5
  <2> HIDE DEF c
  <2>2. c * Step \in Nat /\ c * Step <= q * Step
    BY <1>1, <1>3, <2>1
  <2>3. c * Step < f /\ l <= c * Step + Chunk /\ c * Step + Chunk \in Nat
    <3> DEFINE m == c * Step
    <3> DEFINE k == q * Step
    <3>1. m \in Nat /\ k \in Nat /\ m <= k /\ k <= f - 1 /\ n <= m + Chunk
      BY <1>2, <1>3, <2>2 DEF c
    <3> HIDE DEF m, k
    <3>2. m < f /\ l <= m + Chunk /\ m + Chunk \in Nat
      BY <1>1, <3>1
    <3> QED BY <3>2 DEF m
  <2>4. l <= Lesser(c * Step + Chunk, n)
    BY <2>3, Least
  <2>5. Amount(n) \in 1 .. Amount(n) /\ Amount(n) - 1 = c
    BY <1>2, <2>1
  <2> QED BY <2>3, <2>4, <2>5
<1> QED BY <1>4, <1>5

-----------------------------------------------------------------------------
(* Words in a text and in a piece of it *)

TextChars == UNION {ToSet(t) : t \in Texts}
WordChars == UNION {ToSet(Word[p]) : p \in PolicySet}
FoldChars == {Fold[c] : c \in Confusables}
Chars == TextChars \cup WordChars \cup FoldChars \cup {Hidden}

LEMMA Typed ==
    /\ \A t \in Texts : t \in Seq(Chars)
    /\ \A p \in PolicySet :
          Word[p] \in Seq(Chars) /\ Len(Word[p]) \in Nat \ {0} /\ Hidden \notin ToSet(Word[p])
<1>1. ASSUME NEW t \in Texts PROVE t \in Seq(Chars)
  <2> DEFINE S == ToSet(t)
  <2>1. t \in Seq(S)
    BY ScanAssumption
  <2> HIDE DEF S
  <2>2. S \subseteq TextChars
    BY DEF TextChars, S
  <2> QED BY <2>1, <2>2 DEF Chars
<1>2. ASSUME NEW p \in PolicySet PROVE Word[p] \in Seq(Chars)
  <2> DEFINE S == ToSet(Word[p])
  <2>1. Word[p] \in Seq(S)
    BY ScanAssumption
  <2>2. S \in {ToSet(Word[q]) : q \in PolicySet}
    OBVIOUS
  <2> HIDE DEF S
  <2>3. S \subseteq WordChars
    BY <2>2 DEF WordChars
  <2> QED BY <2>1, <2>3 DEF Chars
<1>3. ASSUME NEW p \in PolicySet
      PROVE  Len(Word[p]) \in Nat \ {0} /\ Hidden \notin ToSet(Word[p])
  BY <1>2, ScanAssumption, LenProperties
<1> QED BY <1>1, <1>2, <1>3

\* A word stands where its characters do.
LEMMA PlacesAre ==
    ASSUME NEW s \in Seq(Chars), NEW w \in Seq(Chars), Len(w) > 0, NEW i
    PROVE  i \in Places(s, w) <=>
               /\ i \in 1 .. Len(s) - Len(w) + 1
               /\ \A k \in 1 .. Len(w) : s[i + k - 1] = w[k]
<1>1. Len(s) \in Nat /\ Len(w) \in Nat \ {0} /\ \A k \in 1 .. Len(s) : s[k] \in Chars
  BY LenProperties, ElementOfSeq
<1> SUFFICES ASSUME i \in 1 .. Len(s) - Len(w) + 1
             PROVE  SubSeq(s, i, i + Len(w) - 1) = w
                        <=> \A k \in 1 .. Len(w) : s[i + k - 1] = w[k]
  BY DEF Places
<1> DEFINE last == i + Len(w) - 1
           u == SubSeq(s, i, last)
<1>2. i \in Int /\ last \in Int /\ i <= last /\ last - i + 1 = Len(w) /\ i .. last \subseteq 1 .. Len(s)
  BY <1>1
<1> HIDE DEF last
<1>3. u \in Seq(Chars) /\ Len(u) = Len(w) /\ \A k \in 1 .. Len(w) : u[k] = s[i + k - 1]
  BY <1>1, <1>2, SubSeqProperties
<1> HIDE DEF u
<1>4. (\A k \in 1 .. Len(w) : u[k] = w[k]) => u = w
  BY <1>3, SeqEqual
<1> QED BY <1>3, <1>4 DEF u, last

\* s is what stands in t behind its first b characters.
Piece(s, t, b) ==
    \A i \in 1 .. Len(s) : b + i \in 1 .. Len(t) /\ s[i] = t[b + i]

LEMMA PlacesInPiece ==
    ASSUME NEW s \in Seq(Chars), NEW t \in Seq(Chars), NEW w \in Seq(Chars), Len(w) > 0,
           NEW b \in Nat, Piece(s, t, b)
    PROVE  /\ \A i \in Places(s, w) : b + i \in Places(t, w)
           /\ \A j \in Places(t, w) :
                 b < j /\ j + Len(w) - 1 <= b + Len(s) => j - b \in Places(s, w)
<1>1. Len(s) \in Nat /\ Len(t) \in Nat /\ Len(w) \in Nat \ {0}
  BY LenProperties
<1>2. ASSUME NEW i \in Places(s, w) PROVE b + i \in Places(t, w)
  <2>1. i \in 1 .. Len(s) - Len(w) + 1 /\ \A k \in 1 .. Len(w) : s[i + k - 1] = w[k]
    BY <1>2, PlacesAre
  <2>2. ASSUME NEW k \in 1 .. Len(w) PROVE t[b + i + k - 1] = w[k]
    <3>1. i + k - 1 \in 1 .. Len(s) /\ b + (i + k - 1) = b + i + k - 1
      BY <1>1, <2>1
    <3>2. s[i + k - 1] = t[b + (i + k - 1)]
      BY <3>1 DEF Piece
    <3> QED BY <2>1, <3>1, <3>2
  <2>3. b + i \in 1 .. Len(t) - Len(w) + 1
    <3> DEFINE k == i + Len(w) - 1
    <3>1. k \in 1 .. Len(s)
      BY <1>1, <2>1
    <3>2. b + k \in 1 .. Len(t)
      BY <3>1 DEF Piece
    <3> QED BY <1>1, <2>1, <3>2
  <2> QED BY <2>2, <2>3, PlacesAre
<1>3. ASSUME NEW j \in Places(t, w), b < j, j + Len(w) - 1 <= b + Len(s)
      PROVE  j - b \in Places(s, w)
  <2>1. j \in 1 .. Len(t) - Len(w) + 1 /\ \A k \in 1 .. Len(w) : t[j + k - 1] = w[k]
    BY PlacesAre
  <2>2. ASSUME NEW k \in 1 .. Len(w) PROVE s[j - b + k - 1] = w[k]
    <3>1. j - b + k - 1 \in 1 .. Len(s) /\ b + (j - b + k - 1) = j + k - 1
      BY <1>1, <1>3, <2>1
    <3> QED BY <2>1, <3>1 DEF Piece
  <2>3. j - b \in 1 .. Len(s) - Len(w) + 1
    BY <1>1, <1>3, <2>1
  <2> QED BY <2>2, <2>3, PlacesAre
<1> QED BY <1>2, <1>3

\* A window is a piece of the text, and so is its variant of the text's.
LEMMA CutIsPiece ==
    ASSUME NEW t \in Seq(Chars), NEW b \in Nat
    PROVE  /\ Cut(t, b) \in Seq(Chars) /\ Piece(Cut(t, b), t, b)
           /\ Len(Cut(t, b)) \in Nat
           /\ b < Lesser(b + Chunk, Len(t)) => b + Len(Cut(t, b)) = Lesser(b + Chunk, Len(t))
<1> DEFINE e == Lesser(b + Chunk, Len(t))
           s == SubSeq(t, b + 1, e)
<1>1. Len(t) \in Nat /\ \A k \in 1 .. Len(t) : t[k] \in Chars
  BY LenProperties, ElementOfSeq
<1>2. e \in Nat /\ e <= Len(t)
  <2>1. b + Chunk \in Nat
    BY ScanAssumption
  <2> QED BY <1>1, <2>1, Least
<1> HIDE DEF e
<1>3. b + 1 \in Int /\ e \in Int /\ \A k \in b + 1 .. e : t[k] \in Chars
  BY <1>1, <1>2
<1>4. /\ s \in Seq(Chars) /\ Len(s) = IF b + 1 <= e THEN e - (b + 1) + 1 ELSE 0
      /\ \A i \in 1 .. e - (b + 1) + 1 : s[i] = t[b + 1 + i - 1]
  BY <1>3, SubSeqProperties
<1> HIDE DEF s
<1>5. Len(s) \in Nat /\ (b < e => b + Len(s) = e)
  BY <1>2, <1>4
<1>6. ASSUME NEW i \in 1 .. Len(s) PROVE b + i \in 1 .. Len(t) /\ s[i] = t[b + i]
  <2>1. b + 1 <= e /\ i \in 1 .. e - (b + 1) + 1 /\ b + 1 + i - 1 = b + i
    BY <1>2, <1>4
  <2>2. s[i] = t[b + i]
    BY <1>4, <2>1
  <2> QED BY <1>1, <1>2, <2>1, <2>2
<1>7. s = Cut(t, b)
  BY DEF s, e, Cut
<1> QED BY <1>4, <1>5, <1>6, <1>7 DEF Piece, e

LEMMA FoldedIs ==
    ASSUME NEW s \in Seq(Chars)
    PROVE  /\ Folded(s) \in Seq(Chars) /\ Len(Folded(s)) = Len(s)
           /\ \A i \in 1 .. Len(s) :
                 Folded(s)[i] = IF s[i] \in Confusables THEN Fold[s[i]] ELSE s[i]
<1>1. Len(s) \in Nat /\ DOMAIN s = 1 .. Len(s) /\ \A k \in 1 .. Len(s) : s[k] \in Chars
  BY LenProperties, ElementOfSeq
<1>2. ASSUME NEW c \in Confusables PROVE Fold[c] \in Chars
  <2>1. Fold[c] \in FoldChars
    BY DEF FoldChars
  <2> QED BY <2>1 DEF Chars
<1>3. Folded(s) \in [1 .. Len(s) -> Chars]
  BY <1>1, <1>2 DEF Folded
<1>4. Folded(s) \in Seq(Chars) /\ Len(Folded(s)) = Len(s)
  BY <1>1, <1>3
<1> QED BY <1>1, <1>4 DEF Folded

LEMMA FoldedPiece ==
    ASSUME NEW s \in Seq(Chars), NEW t \in Seq(Chars), NEW b \in Nat, Piece(s, t, b)
    PROVE  Piece(Folded(s), Folded(t), b)
<1>1. Len(Folded(s)) = Len(s) /\ Len(Folded(t)) = Len(t)
  BY FoldedIs
<1> SUFFICES ASSUME NEW i \in 1 .. Len(s)
             PROVE  b + i \in 1 .. Len(t) /\ Folded(s)[i] = Folded(t)[b + i]
  BY <1>1 DEF Piece
<1>2. b + i \in 1 .. Len(t) /\ s[i] = t[b + i]
  BY DEF Piece
<1> QED BY <1>2, FoldedIs

-----------------------------------------------------------------------------
(* What a window shows of a word *)

LEMMA SomePlaces ==
    ASSUME NEW s \in Seq(Chars), NEW w \in Seq(Chars), NEW T \in SUBSET Places(s, w)
    PROVE  IsFiniteSet(T) /\ Cardinality(T) \in Nat /\ (T = {} <=> Cardinality(T) = 0)
<1>1. Len(s) \in Nat /\ Len(w) \in Nat
  BY LenProperties
<1> DEFINE n == Len(s) - Len(w) + 1
<1>2. n \in Int
  BY <1>1
<1>3. T \subseteq 1 .. n
  BY DEF Places
<1> HIDE DEF n
<1>4. IsFiniteSet(1 .. n)
  BY <1>2, FS_Interval
<1> QED BY <1>3, <1>4, FS_Subset, FS_CardinalityType, FS_EmptySet

\* A policy counts a word that stands in the window, near a keyword or in a variant.
LEMMA Counts ==
    ASSUME NEW s \in Seq(Chars), NEW p \in PolicySet, cap \in Nat \ {0}
    PROVE  /\ Count(p, s) \in Nat
           /\ p \in Refined /\ (\E i \in Places(s, Word[p]) : Near(s, i, Word[p])) => Count(p, s) >= 1
           /\ p \notin Refined /\ Places(Folded(s), Word[p]) # {} => Count(p, s) >= 1
<1> DEFINE w == Word[p]
<1>1. w \in Seq(Chars) /\ Folded(s) \in Seq(Chars)
  BY Typed, FoldedIs
<1> HIDE DEF w
<1>2. CASE p \in Refined
  <2> DEFINE T == {i \in Places(s, w) : Near(s, i, w)}
  <2>1. Cardinality(T) \in Nat /\ (T = {} <=> Cardinality(T) = 0)
    BY <1>1, SomePlaces
  <2>2. Count(p, s) = Lesser(Cardinality(T), cap)
    BY <1>2 DEF Count, RefinedCount, w
  <2> QED BY <1>2, <2>1, <2>2 DEF Lesser, w
<1>3. CASE p \notin Refined
  <2> DEFINE a == Cardinality(Places(s, w))
             b == Cardinality(Places(Folded(s), w))
  <2>1. a \in Nat /\ b \in Nat /\ (Places(Folded(s), w) # {} => b >= 1)
    BY <1>1, SomePlaces
  <2>2. VariantCount(p, s) = Max({a, b})
    <3>1. {Cardinality(Places(v, Word[p])) : v \in {s, Folded(s)}} = {a, b}
      BY DEF w
    <3> QED BY <3>1 DEF VariantCount
  <2> HIDE DEF a
  <2>3. Max({a, b}) \in Nat /\ Max({a, b}) >= b
    <3> HIDE DEF b
    <3>1. \E x \in {a, b} : \A y \in {a, b} : x >= y
      BY <2>1
    <3>2. Max({a, b}) \in {a, b} /\ \A y \in {a, b} : Max({a, b}) >= y
      BY <3>1 DEF Max
    <3> QED BY <2>1, <3>2
  <2>4. Count(p, s) = Lesser(Max({a, b}), cap)
    BY <1>3, <2>2 DEF Count
  <2> HIDE DEF b
  <2>5. Lesser(Max({a, b}), cap) \in Nat /\ (b >= 1 => Lesser(Max({a, b}), cap) >= 1)
    BY <2>1, <2>3 DEF Lesser
  <2> QED BY <1>3, <2>1, <2>4, <2>5 DEF w
<1> QED BY <1>2, <1>3

TextInv == text \in Texts /\ cap \in Caps
Bound == DOMAIN Bases(Len(text))
Base(w) == Bases(Len(text))[w]
Slice(w) == Cut(text, Base(w))

LEMMA SliceIs ==
    ASSUME TextInv, NEW w \in Bound
    PROVE  /\ text \in Seq(Chars) /\ Len(text) \in Nat /\ Base(w) \in Nat
           /\ Slice(w) \in Seq(Chars) /\ Piece(Slice(w), text, Base(w)) /\ Len(Slice(w)) \in Nat
           /\ Base(w) < Lesser(Base(w) + Chunk, Len(text))
                  => Base(w) + Len(Slice(w)) = Lesser(Base(w) + Chunk, Len(text))
<1>1. text \in Seq(Chars) /\ Len(text) \in Nat
  BY Typed, LenProperties DEF TextInv
<1>2. Base(w) \in Nat
  BY <1>1, Counted DEF Base, Bound
<1> QED BY <1>1, <1>2, CutIsPiece DEF Slice

\* What spans no more than the overlap, plus one, lies in one slice.
LEMMA SliceCovers ==
    ASSUME TextInv, NEW f \in 1 .. Len(text), NEW l \in 1 .. Len(text), f <= l, l - f <= Overlap
    PROVE  \E w \in Bound : Base(w) < f /\ l <= Base(w) + Len(Slice(w))
<1>1. text \in Seq(Chars) /\ Len(text) \in Nat
  BY Typed, LenProperties DEF TextInv
<1> DEFINE n == Len(text)
<1>2. n \in Nat /\ f \in Nat \ {0} /\ l \in Nat /\ l <= n
  BY <1>1
<1> HIDE DEF n
<1>3. PICK w \in DOMAIN Bases(n) :
          Bases(n)[w] \in Nat /\ Bases(n)[w] < f /\ l <= Lesser(Bases(n)[w] + Chunk, n)
  BY <1>2, WindowsCover
<1>4. w \in Bound /\ Base(w) \in Nat /\ Base(w) < f /\ l <= Lesser(Base(w) + Chunk, Len(text))
  BY <1>3 DEF Bound, Base, n
<1>5. Base(w) < Lesser(Base(w) + Chunk, Len(text))
  <2> DEFINE e == Lesser(Base(w) + Chunk, Len(text))
  <2>1. e \in Nat
    <3>1. Base(w) + Chunk \in Nat
      BY <1>4, ScanAssumption
    <3> QED BY <1>1, <3>1, Least
  <2> HIDE DEF e
  <2>2. Base(w) < f /\ l <= e
    BY <1>4 DEF e
  <2>3. Base(w) < e
    BY <1>2, <1>4, <2>1, <2>2
  <2> QED BY <2>3 DEF e
<1> QED BY <1>4, <1>5, SliceIs

\* Every place of a word is one of a slice, and there are no others.
LEMMA Tiled ==
    ASSUME TextInv, Fitting, NEW p \in PolicySet
    PROVE  /\ \A w \in Bound : \A i \in Places(Slice(w), Word[p]) :
                 Base(w) + i \in Places(text, Word[p])
           /\ \A j \in Places(text, Word[p]) :
                 \E w \in Bound : j - Base(w) \in Places(Slice(w), Word[p])
<1> DEFINE u == Word[p]
<1>1. u \in Seq(Chars) /\ Len(u) \in Nat \ {0} /\ Len(u) <= Overlap + 1 /\ Overlap \in Nat
  <2>1. Reach \in Nat /\ Overlap \in Nat
    BY ScanAssumption
  <2>2. u \in Seq(Chars) /\ Len(u) \in Nat \ {0}
    BY Typed
  <2>3. Len(u) + (IF p \in Refined THEN Reach ELSE 0) <= Overlap + 1
    BY DEF Fitting
  <2> HIDE DEF u
  <2> QED BY <2>1, <2>2, <2>3
<1>2. text \in Seq(Chars) /\ Len(text) \in Nat
  BY Typed, LenProperties DEF TextInv
<1> HIDE DEF u
<1>3. ASSUME NEW w \in Bound, NEW i \in Places(Slice(w), u) PROVE Base(w) + i \in Places(text, u)
  BY <1>1, SliceIs, PlacesInPiece
<1>4. ASSUME NEW j \in Places(text, u) PROVE \E w \in Bound : j - Base(w) \in Places(Slice(w), u)
  <2>1. j \in 1 .. Len(text) - Len(u) + 1
    BY DEF Places
  <2> DEFINE l == j + Len(u) - 1
  <2>2. j \in 1 .. Len(text) /\ l \in 1 .. Len(text) /\ j <= l /\ l - j <= Overlap
    BY <1>1, <1>2, <2>1
  <2> HIDE DEF l
  <2>3. PICK w \in Bound : Base(w) < j /\ l <= Base(w) + Len(Slice(w))
    BY <2>2, SliceCovers
  <2>4. j - Base(w) \in Places(Slice(w), u)
    BY <1>1, <2>3, SliceIs, PlacesInPiece DEF l
  <2> QED BY <2>4
<1> QED BY <1>3, <1>4 DEF u

\* A word that is there to be found is counted in a slice.
LEMMA Seen ==
    ASSUME TextInv, Fitting, NEW p \in PolicySet, True(p) # {}
    PROVE  \E w \in Bound : Count(p, Slice(w)) >= 1
<1> DEFINE u == Word[p]
<1>1. u \in Seq(Chars) /\ Len(u) \in Nat \ {0} /\ Overlap \in Nat /\ Reach \in Nat
  BY Typed, ScanAssumption
<1>2. text \in Seq(Chars) /\ Len(text) \in Nat /\ DOMAIN text = 1 .. Len(text) /\ cap \in Nat \ {0}
  BY Typed, LenProperties, ScanAssumption DEF TextInv
<1>3. Len(u) + (IF p \in Refined THEN Reach ELSE 0) <= Overlap + 1
  BY DEF Fitting
<1> HIDE DEF u
<1>4. CASE p \in Refined
  <2>1. PICK i \in Places(text, u) : Near(text, i, u)
    BY <1>4 DEF True, u
  <2>2. PICK j \in 1 .. Len(text) :
            text[j] = Keyword /\ (j \in i - Reach .. i - 1 \/ j \in i + Len(u) .. i + Len(u) + Reach - 1)
    BY <1>2, <2>1 DEF Near
  <2>3. i \in 1 .. Len(text) - Len(u) + 1
    BY DEF Places
  <2> DEFINE last == i + Len(u) - 1
             f == IF j < i THEN j ELSE i
             l == IF j < i THEN last ELSE j
  <2>4. /\ f \in 1 .. Len(text) /\ l \in 1 .. Len(text) /\ f <= l /\ l - f <= Overlap
        /\ f <= i /\ f <= j /\ last <= l /\ j <= l
    BY <1>1, <1>2, <1>3, <1>4, <2>2, <2>3
  <2> HIDE DEF f, l
  <2>5. PICK w \in Bound : Base(w) < f /\ l <= Base(w) + Len(Slice(w))
    BY <2>4, SliceCovers
  <2> DEFINE b == Base(w)
             s == Slice(w)
  <2>6. b \in Nat /\ s \in Seq(Chars) /\ Len(s) \in Nat /\ Piece(s, text, b)
    BY SliceIs
  <2>7. b < f /\ l <= b + Len(s)
    BY <2>5
  <2> HIDE DEF b, s
  <2>8. i \in Int /\ last \in Int /\ b < i /\ last <= b + Len(s) /\ j - b \in 1 .. Len(s)
    BY <1>1, <1>2, <2>2, <2>3, <2>4, <2>6, <2>7
  <2>9. i - b \in Places(s, u)
    BY <1>1, <1>2, <2>6, <2>8, PlacesInPiece
  <2>10. s[j - b] = Keyword
    <3>1. b + (j - b) = j
      BY <2>6
    <3> QED BY <2>2, <2>6, <2>8, <3>1 DEF Piece
  <2>11. j - b \in i - b - Reach .. i - b - 1
         \/ j - b \in i - b + Len(u) .. i - b + Len(u) + Reach - 1
    BY <1>1, <2>2, <2>3, <2>6
  <2>12. Near(s, i - b, u)
    <3>1. j - b \in DOMAIN s
      BY <2>6, <2>8, LenProperties
    <3> QED BY <2>10, <2>11, <3>1 DEF Near
  <2>13. Count(p, s) >= 1
    BY <1>2, <1>4, <2>6, <2>9, <2>12, Counts DEF u
  <2> QED BY <2>13 DEF s
<1>5. CASE p \notin Refined
  <2> DEFINE t == Folded(text)
  <2>1. t \in Seq(Chars) /\ Len(t) = Len(text)
    BY <1>2, FoldedIs
  <2>2. PICK i : i \in Places(t, u)
    BY <1>5 DEF True, u
  <2> HIDE DEF t
  <2>3. i \in 1 .. Len(text) - Len(u) + 1
    BY <2>1, <2>2 DEF Places
  <2> DEFINE l == i + Len(u) - 1
  <2>4. i \in 1 .. Len(text) /\ l \in 1 .. Len(text) /\ i <= l /\ l - i <= Overlap
    BY <1>1, <1>2, <1>3, <1>5, <2>3
  <2> HIDE DEF l
  <2>5. PICK w \in Bound : Base(w) < i /\ l <= Base(w) + Len(Slice(w))
    BY <2>4, SliceCovers
  <2> DEFINE v == Folded(Slice(w))
  <2>6. /\ Base(w) \in Nat /\ Slice(w) \in Seq(Chars)
        /\ v \in Seq(Chars) /\ Len(v) = Len(Slice(w)) /\ Piece(v, t, Base(w))
    BY <1>2, SliceIs, FoldedIs, FoldedPiece DEF t
  <2> HIDE DEF v
  <2>7. i - Base(w) \in Places(v, u)
    BY <1>1, <2>1, <2>2, <2>5, <2>6, PlacesInPiece DEF l
  <2>8. Count(p, Slice(w)) >= 1
    BY <1>2, <1>5, <2>6, <2>7, Counts DEF u, v
  <2> QED BY <2>8
<1> QED BY <1>4, <1>5

-----------------------------------------------------------------------------
(* How far the evaluation is *)

LEMMA PoliciesAre ==
    /\ Len(Policies) \in Nat /\ DOMAIN Policies = 1 .. Len(Policies)
    /\ \A n \in 1 .. Len(Policies) : Policies[n] \in PolicySet
    /\ \A p \in PolicySet : \E n \in 1 .. Len(Policies) : Policies[n] = p
    /\ \A m, n \in 1 .. Len(Policies) : Policies[m] = Policies[n] => m = n
<1>1. Len(Policies) \in Nat /\ DOMAIN Policies = 1 .. Len(Policies)
  <2> DEFINE S == PolicySet
  <2>1. Policies \in Seq(S)
    BY ScanAssumption
  <2> HIDE DEF S
  <2> QED BY <2>1, LenProperties
<1>2. PolicySet = {Policies[n] : n \in DOMAIN Policies}
  BY DEF PolicySet, ToSet
<1>3. \A m, n \in DOMAIN Policies : Policies[m] = Policies[n] => m = n
  BY ScanAssumption DEF IsInjective
<1> QED BY <1>1, <1>2, <1>3

Where ==
    /\ at \in 1 .. Len(Policies) + 1 /\ window \in Bound
    /\ pc \in {"ready", "scanning", "redacting", "error"}
    /\ pc = "ready" => at = 1 /\ window = 1 /\ found = {}
Totals == unlocated \in [PolicySet -> Int] /\ degraded \subseteq PolicySet
TypeInv == TextInv /\ Where /\ Totals

LEMMA BoundIs ==
    ASSUME TextInv
    PROVE  /\ Len(Bases(Len(text))) \in Nat \ {0}
           /\ Bound = 1 .. Len(Bases(Len(text))) /\ 1 \in Bound
<1>1. Len(text) \in Nat
  BY Typed, LenProperties DEF TextInv
<1> DEFINE n == Len(text)
<1> HIDE DEF n
<1>2. /\ Amount(n) \in Nat \ {0} /\ DOMAIN Bases(n) = 1 .. Amount(n)
      /\ Len(Bases(n)) = Amount(n)
  BY <1>1, Counted DEF n
<1> QED BY <1>2 DEF Bound, n

\* What a run leaves behind it.
Passed(n, w) == pc = "redacting" \/ n < at \/ (n = at /\ w < window)

LEMMA Advanced ==
    ASSUME TextInv, Where, Scanning, Advance(window), UNCHANGED pc, UNCHANGED text
    PROVE  /\ Where'
           /\ \A n \in DOMAIN Policies : \A w \in Bound :
                 Passed(n, w)' <=> Passed(n, w) \/ (n = at /\ w = window)
<1> DEFINE last == Len(Bases(Len(text)))
<1>1. last \in Nat \ {0} /\ Bound = 1 .. last /\ 1 \in Bound /\ Bound' = Bound
  BY BoundIs DEF Bound
<1>2. (window < last /\ window' = window + 1 /\ at' = at)
      \/ (~(window < last) /\ window' = 1 /\ at' = at + 1)
  BY DEF Advance
<1> HIDE DEF last
<1>3. at \in 1 .. Len(Policies) /\ window \in 1 .. last /\ DOMAIN Policies = 1 .. Len(Policies)
      /\ Len(Policies) \in Nat /\ pc = "scanning" /\ pc' = "scanning"
  BY <1>1, PoliciesAre DEF Where, Scanning
<1>4. at' \in 1 .. Len(Policies) + 1 /\ window' \in 1 .. last
  BY <1>1, <1>2, <1>3
<1>5. Where'
  BY <1>1, <1>3, <1>4 DEF Where
<1>6. ASSUME NEW n \in DOMAIN Policies, NEW w \in Bound
      PROVE  Passed(n, w)' <=> Passed(n, w) \/ (n = at /\ w = window)
  BY <1>1, <1>2, <1>3 DEF Passed
<1> QED BY <1>5, <1>6

\* What a run adds of a window.
Extra(w) == Count(Current, Slice(w)) - Cardinality(Located(Current, Slice(w)))

LEMMA ExtraIs ==
    ASSUME TextInv, Where, Scanning
    PROVE  /\ Current \in PolicySet /\ at \in DOMAIN Policies
           /\ Count(Current, Slice(window)) \in Nat
           /\ Cardinality(Located(Current, Slice(window))) \in Nat
           /\ Located(Current, Slice(window)) = {}
                  <=> Cardinality(Located(Current, Slice(window))) = 0
           /\ Extra(window) \in Int
<1>1. at \in DOMAIN Policies /\ Current \in PolicySet
  BY PoliciesAre DEF Where, Scanning, Current
<1>2. cap \in Nat \ {0} /\ window \in Bound /\ Slice(window) \in Seq(Chars)
  BY ScanAssumption, SliceIs DEF TextInv, Where
<1> DEFINE s == Slice(window)
           T == Located(Current, s)
<1>3. Count(Current, s) \in Nat
  BY <1>1, <1>2, Counts
<1>4. Word[Current] \in Seq(Chars)
  BY <1>1, Typed
<1>5. T \in SUBSET Places(s, Word[Current])
  BY DEF Located
<1>6. Cardinality(T) \in Nat /\ (T = {} <=> Cardinality(T) = 0)
  <2> HIDE DEF s, T
  <2>1. s \in Seq(Chars)
    BY <1>2 DEF s
  <2> QED BY <1>4, <1>5, <2>1, SomePlaces
<1> QED BY <1>1, <1>3, <1>6 DEF Extra

LEMMA RunIs ==
    ASSUME RunAnswers
    PROVE  /\ Scanning /\ Advance(window) /\ pc' = pc
           /\ found' = found \cup Keys(Current, Slice(window), Base(window))
           /\ unlocated' = [unlocated EXCEPT ![Current] = @ + Extra(window)]
           /\ degraded' = degraded /\ text' = text /\ cap' = cap
<1>1. unlocated' = [unlocated EXCEPT ![Current] =
            @ + Count(Current, Slice(window)) - Cardinality(Located(Current, Slice(window)))]
  BY DEF RunAnswers, Slice, Base
<1> QED BY <1>1 DEF RunAnswers, Slice, Base, Extra, input

LEMMA TypeStep == TypeInv /\ [Next]_vars => TypeInv'
<1> SUFFICES ASSUME TypeInv, [Next]_vars PROVE TypeInv'
  OBVIOUS
<1>1. CASE RunAnswers
  <2>1. TextInv' /\ Where'
    BY <1>1, RunIs, Advanced DEF TypeInv, TextInv
  <2>2. Totals'
    BY <1>1, RunIs, ExtraIs DEF TypeInv, Totals
  <2> QED BY <2>1, <2>2 DEF TypeInv
<1>2. CASE RunFails
  <2>1. TextInv' /\ Bound' = Bound
    BY <1>2 DEF TypeInv, TextInv, RunFails, input, Bound
  <2>2. 1 \in Bound /\ Current \in PolicySet /\ Len(Policies) \in Nat
    BY <1>2, BoundIs, ExtraIs, PoliciesAre DEF TypeInv, RunFails
  <2>3. Where'
    BY <1>2, <2>1, <2>2 DEF TypeInv, Where, RunFails, Scanning
  <2>4. Totals'
    BY <1>2, <2>2 DEF TypeInv, Totals, RunFails
  <2> QED BY <2>1, <2>3, <2>4 DEF TypeInv
<1>3. CASE Resolve
  <2>1. TextInv' /\ Bound' = Bound /\ Totals'
    BY <1>3 DEF TypeInv, TextInv, Totals, Resolve, input, results, Bound
  <2>2. Where'
    BY <1>3, <2>1 DEF TypeInv, Where, Resolve, results
  <2> QED BY <2>1, <2>2 DEF TypeInv
<1>4. CASE Return
  <2>1. TextInv' /\ Bound' = Bound /\ Totals'
    BY <1>4 DEF TypeInv, TextInv, Totals, Return, input, results, Bound
  <2>2. Where'
    BY <1>4, <2>1, PoliciesAre DEF TypeInv, Where, Return, results
  <2> QED BY <2>1, <2>2 DEF TypeInv
<1>5. CASE Redact
  <2>1. TextInv' /\ Bound' = Bound /\ Totals'
    BY <1>5 DEF TypeInv, TextInv, Totals, Redact, input, Bound
  <2>2. Where'
    BY <1>5, <2>1, PoliciesAre DEF TypeInv, Where, Redact
  <2> QED BY <2>1, <2>2 DEF TypeInv
<1>6. ASSUME UNCHANGED <<input, progress, results>> PROVE TypeInv'
  BY <1>6 DEF TypeInv, TextInv, Totals, Where, Bound, input, progress, results
<1>7. CASE \E ps : Reload(ps)
  BY <1>6, <1>7 DEF Reload
<1>8. CASE \E p \in PolicySet : Unregister(p)
  BY <1>6, <1>8 DEF Unregister
<1>9. CASE UNCHANGED vars
  BY <1>6, <1>9 DEF vars
<1> QED BY <1>1, <1>2, <1>3, <1>4, <1>5, <1>7, <1>8, <1>9 DEF Next

LEMMA TypeStart == Init => TypeInv
<1> SUFFICES ASSUME Init PROVE TypeInv
  OBVIOUS
<1>1. TextInv
  BY DEF Init, TextInv
<1>2. 1 \in Bound /\ Len(Policies) \in Nat
  BY <1>1, BoundIs, PoliciesAre
<1> QED BY <1>1, <1>2 DEF Init, TypeInv, Where, Totals

LEMMA AlwaysTyped == Spec => []TypeInv
BY TypeStart, TypeStep, PTL DEF Spec

-----------------------------------------------------------------------------
(* What the windows show is found *)

Searched ==
    \A n \in DOMAIN Policies : \A w \in Bound :
        Passed(n, w) /\ Policies[n] \notin degraded /\ Count(Policies[n], Slice(w)) >= 1
            => Findings(Policies[n]) # {}

\* A run that counts anything leaves a key.
LEMMA KeysAre ==
    ASSUME TextInv, Where, Scanning, Count(Current, Slice(window)) >= 1
    PROVE  \E f \in Keys(Current, Slice(window), Base(window)) : f.policy = Current
<1> DEFINE T == Located(Current, Slice(window))
<1>1. CASE T # {}
  <2>1. PICK i : i \in T
    BY <1>1
  <2>2. Key(Current, Base(window) + i, 0) \in Keys(Current, Slice(window), Base(window))
    BY <2>1 DEF Keys
  <2> QED BY <2>2 DEF Key
<1>2. CASE T = {}
  <2>1. 1 \in 1 .. Count(Current, Slice(window)) - Cardinality(Located(Current, Slice(window)))
    BY <1>2, ExtraIs
  <2>2. Key(Current, 0, unlocated[Current] + 1) \in Keys(Current, Slice(window), Base(window))
    BY <2>1 DEF Keys
  <2> QED BY <2>2 DEF Key
<1> QED BY <1>1, <1>2

\* Reading of the text that no action changes.
LEMMA Steady ==
    ASSUME text' = text, cap' = cap
    PROVE  /\ Bound' = Bound /\ \A w : Base(w)' = Base(w) /\ Slice(w)' = Slice(w)
           /\ \A p, s : Count(p, s)' = Count(p, s)
BY DEF Bound, Base, Slice, Cut, Count, RefinedCount, VariantCount, Places, Near, Folded

\* Passing on without a run.
LEMMA Skipped ==
    ASSUME TypeInv, [Next]_vars, ~RunAnswers
    PROVE  /\ text' = text /\ cap' = cap /\ found' = found /\ unlocated' = unlocated
           /\ degraded \subseteq degraded'
           /\ \A n \in DOMAIN Policies : \A w \in Bound :
                 Policies[n] \notin degraded' => (Passed(n, w)' <=> Passed(n, w))
<1> DEFINE Goal ==
           /\ text' = text /\ cap' = cap /\ found' = found /\ unlocated' = unlocated
           /\ degraded \subseteq degraded'
           /\ \A n \in DOMAIN Policies : \A w \in Bound :
                 Policies[n] \notin degraded' => (Passed(n, w)' <=> Passed(n, w))
<1> SUFFICES Goal
  OBVIOUS
<1>0. DOMAIN Policies = 1 .. Len(Policies) /\ Len(Policies) \in Nat /\ Where
      /\ Bound = 1 .. Len(Bases(Len(text))) /\ Len(Bases(Len(text))) \in Nat
  BY PoliciesAre, BoundIs DEF TypeInv
<1>1. ASSUME RunFails PROVE Goal
  <2>1. text' = text /\ cap' = cap /\ found' = found /\ unlocated' = unlocated
        /\ degraded \subseteq degraded'
    BY <1>1 DEF RunFails, input
  <2>2. CASE degraded' = degraded \cup {Current} /\ at' = at + 1 /\ window' = 1 /\ UNCHANGED pc
    <3>1. ASSUME NEW n \in DOMAIN Policies, NEW w \in Bound, Policies[n] \notin degraded'
          PROVE  Passed(n, w)' <=> Passed(n, w)
      <4>1. n # at
        BY <2>2, <3>1 DEF Current
      <4>2. w \in Int /\ w >= 1 /\ n \in Int /\ at \in Int /\ pc = "scanning"
        BY <1>0, <1>1 DEF Where, RunFails, Scanning
      <4> QED BY <2>2, <4>1, <4>2 DEF Passed
    <3> QED BY <2>1, <3>1
  <2>3. CASE pc' = "error" /\ UNCHANGED <<degraded, at, window>>
    BY <1>1, <2>1, <2>3 DEF Passed, RunFails, Scanning
  <2> QED BY <1>1, <2>2, <2>3 DEF RunFails
<1>2. ASSUME Resolve PROVE Goal
  BY <1>2 DEF Resolve, input, results, Passed
<1>3. ASSUME Return PROVE Goal
  BY <1>0, <1>3 DEF Return, input, results, Passed, Where
<1>4. ASSUME Redact PROVE Goal
  BY <1>4 DEF Redact, input, Passed
<1>5. ASSUME UNCHANGED <<input, progress, results>> PROVE Goal
  BY <1>5 DEF input, progress, results, Passed
<1>6. ASSUME \E ps : Reload(ps) PROVE Goal
  BY <1>5, <1>6 DEF Reload
<1>7. ASSUME \E p \in PolicySet : Unregister(p) PROVE Goal
  BY <1>5, <1>7 DEF Unregister
<1>8. ASSUME UNCHANGED vars PROVE Goal
  BY <1>5, <1>8 DEF vars
<1> QED BY <1>1, <1>2, <1>3, <1>4, <1>6, <1>7, <1>8 DEF Next

LEMMA SearchedStep == TypeInv /\ Searched /\ [Next]_vars => Searched'
<1> SUFFICES ASSUME TypeInv, Searched, [Next]_vars PROVE Searched'
  OBVIOUS
<1>1. text' = text /\ cap' = cap
  BY RunIs, Skipped
<1>2. ASSUME NEW n \in DOMAIN Policies, NEW w \in Bound,
             (Passed(n, w) \/ (RunAnswers /\ n = at /\ w = window)),
             Policies[n] \notin degraded, Count(Policies[n], Slice(w)) >= 1
      PROVE  Findings(Policies[n])' # {}
  <2>1. Findings(Policies[n]) \subseteq Findings(Policies[n])'
    BY RunIs, Skipped DEF Findings
  <2>2. CASE Passed(n, w)
    BY <1>2, <2>1, <2>2 DEF Searched
  <2>3. CASE RunAnswers /\ n = at /\ w = window
    <3>1. \E f \in Keys(Current, Slice(window), Base(window)) : f.policy = Current
      BY <1>2, <2>3, RunIs, KeysAre DEF TypeInv, Current
    <3> QED BY <2>3, <3>1, RunIs DEF Findings, Current
  <2> QED BY <1>2, <2>2, <2>3
<1>3. ASSUME NEW n \in DOMAIN Policies, NEW w \in Bound
      PROVE  Policies[n] \notin degraded' =>
                 /\ Policies[n] \notin degraded
                 /\ Passed(n, w)' => Passed(n, w) \/ (RunAnswers /\ n = at /\ w = window)
  BY <1>3, RunIs, Advanced, Skipped DEF TypeInv
<1> QED BY <1>1, <1>2, <1>3, Steady DEF Searched

LEMMA AlwaysSearched == Spec => []Searched
<1>1. Init => Searched
  <2> SUFFICES ASSUME Init, NEW n \in DOMAIN Policies, NEW w \in Bound PROVE ~Passed(n, w)
    BY DEF Searched
  <2>1. n \in Nat \ {0} /\ w \in Nat \ {0}
    BY TypeStart, PoliciesAre, BoundIs DEF TypeInv
  <2> QED BY <2>1 DEF Init, Passed
<1> QED BY <1>1, AlwaysTyped, SearchedStep, PTL DEF Spec

\* "Nothing is sampled or skipped" (guard.py:904): a policy that ran over the whole text
\* without failing has reported what is there, wherever the window boundaries are.
THEOREM NothingIsMissed == ASSUME Fitting PROVE Spec => []NothingMissed
<1>1. TypeInv /\ Searched => NothingMissed
  <2> SUFFICES ASSUME TypeInv, Searched, NEW p \in PolicySet, Evaluated(p), True(p) # {}
               PROVE  Findings(p) # {}
    BY DEF NothingMissed
  <2>1. PICK w \in Bound : Count(p, Slice(w)) >= 1
    BY Seen DEF TypeInv
  <2>2. PICK n \in DOMAIN Policies : Policies[n] = p
    BY PoliciesAre
  <2> QED BY <2>1, <2>2 DEF Searched, Passed, Evaluated, Done
<1> QED BY <1>1, AlwaysTyped, AlwaysSearched, PTL

-----------------------------------------------------------------------------
(* What is found is counted once *)

Shows(n, w, f) ==
    \E i \in Places(Slice(w), Word[Policies[n]]) : f = Key(Policies[n], Base(w) + i, 0)

\* While all windows agree, the findings are the places the windows passed have shown.
Exact ==
    \A n \in DOMAIN Policies :
        Policies[n] \notin degraded /\ Plain(Policies[n]) =>
            /\ unlocated[Policies[n]] = 0
            /\ \A f : f \in Findings(Policies[n]) <=>
                         \E w \in Bound : Passed(n, w) /\ Shows(n, w, f)

LEMMA PlainIs ==
    ASSUME TextInv, NEW p \in PolicySet, Plain(p), NEW w \in Bound
    PROVE  /\ Located(p, Slice(w)) = Places(Slice(w), Word[p])
           /\ Count(p, Slice(w)) - Cardinality(Located(p, Slice(w))) = 0
<1> DEFINE s == Slice(w)
           P == Places(s, Word[p])
<1>1. Cardinality(P) = Count(p, s)
  BY DEF Plain, Bound, Base, Slice
<1>2. s \in Seq(Chars) /\ Word[p] \in Seq(Chars)
  BY SliceIs, Typed
<1> HIDE DEF s
<1>3. IsFiniteSet(P) /\ Cardinality(P) \in Nat
  BY <1>2, SomePlaces
<1>4. Located(p, s) = {i \in P : Cardinality({j \in P : j <= i}) <= Count(p, s)}
  BY DEF Located
<1> HIDE DEF P
<1>5. ASSUME NEW i \in P PROVE Cardinality({j \in P : j <= i}) <= Count(p, s)
  <2> DEFINE T == {j \in P : j <= i}
  <2>1. T \in SUBSET P
    OBVIOUS
  <2> HIDE DEF T
  <2>2. Cardinality(T) <= Cardinality(P)
    BY <1>3, <2>1, FS_Subset
  <2> QED BY <1>1, <2>2 DEF T
<1>6. Located(p, s) = P
  BY <1>4, <1>5
<1>7. Count(p, s) - Cardinality(P) = 0
  BY <1>1, <1>3
<1> QED BY <1>6, <1>7 DEF s, P

LEMMA ExactStep == TypeInv /\ Exact /\ [Next]_vars => Exact'
<1> SUFFICES ASSUME TypeInv, Exact, [Next]_vars PROVE Exact'
  OBVIOUS
<1>1. text' = text /\ cap' = cap /\ Bound' = Bound /\ TextInv
  BY RunIs, Skipped, Steady DEF TypeInv
<1>2. /\ \A p : Plain(p)' = Plain(p)
      /\ \A n, w, f : Shows(n, w, f)' = Shows(n, w, f)
  <2>1. ASSUME NEW p PROVE Plain(p)' = Plain(p)
    BY <1>1, Steady DEF Plain
  <2>2. ASSUME NEW n, NEW w, NEW f PROVE Shows(n, w, f)' = Shows(n, w, f)
    BY <1>1, Steady DEF Shows, Places, Key
  <2> QED BY <2>1, <2>2
<1> DEFINE Goal(n) ==
           /\ unlocated'[Policies[n]] = 0
           /\ \A f : f \in Findings(Policies[n])' <=>
                        \E w \in Bound : Passed(n, w)' /\ Shows(n, w, f)
<1> SUFFICES ASSUME NEW n \in DOMAIN Policies, Policies[n] \notin degraded', Plain(Policies[n])
             PROVE  Goal(n)
  <2> SUFFICES ASSUME NEW n \in DOMAIN Policies, Policies[n] \notin degraded', Plain(Policies[n])'
               PROVE  /\ unlocated'[Policies[n]] = 0
                      /\ \A f : f \in Findings(Policies[n])' <=>
                                   \E w \in Bound' : Passed(n, w)' /\ Shows(n, w, f)'
    BY DEF Exact
  <2>1. Goal(n)
    BY <1>2
  <2> QED BY <1>1, <1>2, <2>1
<1>3. Policies[n] \in PolicySet /\ Policies[n] \notin degraded
  BY PoliciesAre, RunIs, Skipped
<1>4. /\ unlocated[Policies[n]] = 0
      /\ \A f : f \in Findings(Policies[n]) <=> \E w \in Bound : Passed(n, w) /\ Shows(n, w, f)
  BY <1>3 DEF Exact
<1>5. CASE ~RunAnswers
  BY <1>4, <1>5, Skipped DEF Findings
<1>6. CASE RunAnswers
  <2>1. /\ found' = found \cup Keys(Current, Slice(window), Base(window))
        /\ unlocated' = [unlocated EXCEPT ![Current] = @ + Extra(window)]
        /\ \A w \in Bound : Passed(n, w)' <=> Passed(n, w) \/ (n = at /\ w = window)
        /\ window \in Bound /\ at \in DOMAIN Policies
    BY <1>6, RunIs, Advanced, ExtraIs DEF TypeInv, Where
  <2>2. CASE n = at
    <3>1. Policies[n] = Current
      BY <2>2 DEF Current
    <3>2. /\ Located(Current, Slice(window)) = Places(Slice(window), Word[Current])
          /\ Extra(window) = 0
      BY <1>1, <1>3, <2>1, <3>1, PlainIs DEF Extra
    <3>3. \A f : f \in Keys(Current, Slice(window), Base(window)) <=> Shows(n, window, f)
      <4>1. \A k : k \notin 1 .. 0
        OBVIOUS
      <4>2. Count(Current, Slice(window)) - Cardinality(Located(Current, Slice(window))) = 0
        BY <3>2 DEF Extra
      <4> QED BY <3>1, <3>2, <4>1, <4>2 DEF Keys, Shows
    <3>4. \A f : Shows(n, window, f) => f.policy = Policies[n]
      BY DEF Shows, Key
    <3>5. \A f : f \in Findings(Policies[n])' <=>
                    f \in Findings(Policies[n]) \/ Shows(n, window, f)
      BY <2>1, <3>3, <3>4 DEF Findings
    <3>6. unlocated'[Policies[n]] = 0
      BY <1>3, <1>4, <2>1, <3>1, <3>2 DEF TypeInv, Totals
    <3> QED BY <1>4, <2>1, <2>2, <3>5, <3>6
  <2>3. CASE n # at
    <3>1. Policies[n] # Current
      BY <2>1, <2>3, PoliciesAre DEF Current
    <3>2. \A f \in Keys(Current, Slice(window), Base(window)) : f.policy = Current
      BY DEF Keys, Key
    <3>3. Findings(Policies[n])' = Findings(Policies[n])
      BY <2>1, <3>1, <3>2 DEF Findings
    <3>4. unlocated'[Policies[n]] = 0
      BY <1>3, <1>4, <2>1, <3>1 DEF TypeInv, Totals
    <3> QED BY <1>4, <2>1, <2>3, <3>3, <3>4
  <2> QED BY <2>2, <2>3
<1> QED BY <1>5, <1>6

LEMMA AlwaysExact == Spec => []Exact
<1>1. Init => Exact
  <2> SUFFICES ASSUME Init, NEW n \in DOMAIN Policies
               PROVE  /\ unlocated[Policies[n]] = 0 /\ Findings(Policies[n]) = {}
                      /\ \A w \in Bound : ~Passed(n, w)
    BY DEF Exact
  <2>1. n \in Nat \ {0} /\ Policies[n] \in PolicySet /\ \A w \in Bound : w \in Nat \ {0}
    BY TypeStart, PoliciesAre, BoundIs DEF TypeInv
  <2> QED BY <2>1 DEF Init, Passed, Findings
<1> QED BY <1>1, AlwaysTyped, ExactStep, PTL DEF Spec

\* A word that stands in the overlap of two windows is seen twice and counted once, at its
\* place in the text (guard.py:990).
THEOREM NothingIsCountedTwice == ASSUME Fitting PROVE Spec => []CountedOnce
<1>1. TypeInv /\ Exact => CountedOnce
  <2> SUFFICES ASSUME TypeInv, Exact, NEW p \in PolicySet, Evaluated(p), Plain(p)
               PROVE  Findings(p) = {Key(p, j, 0) : j \in Places(text, Word[p])}
    BY DEF CountedOnce
  <2>1. PICK n \in DOMAIN Policies : Policies[n] = p
    BY PoliciesAre
  <2>2. \A f : f \in Findings(p) <=> \E w \in Bound : Shows(n, w, f)
    BY <2>1 DEF Exact, Evaluated, Done, Passed
  <2>3. ASSUME NEW f, NEW w \in Bound, Shows(n, w, f)
        PROVE  \E j \in Places(text, Word[p]) : f = Key(p, j, 0)
    BY <2>1, <2>3, Tiled DEF Shows, TypeInv
  <2>4. ASSUME NEW j \in Places(text, Word[p])
        PROVE  \E w \in Bound : Shows(n, w, Key(p, j, 0))
    <3>1. PICK w \in Bound : j - Base(w) \in Places(Slice(w), Word[p])
      BY Tiled DEF TypeInv
    <3>2. Base(w) \in Nat /\ j \in Int
      BY SliceIs DEF TypeInv, Places
    <3>3. Base(w) + (j - Base(w)) = j
      BY <3>2
    <3> QED BY <2>1, <3>1, <3>3 DEF Shows
  <2> QED BY <2>2, <2>3, <2>4
<1> QED BY <1>1, AlwaysTyped, AlwaysExact, PTL

-----------------------------------------------------------------------------
(* What is found is hidden *)

Seeks(n) == Word[Policies[n]]
Holds(n, i) == i \in Places(text, Seeks(n))
Covers(n, k) == \E j : Holds(n, j) /\ k \in Span(j, Seeks(n))

Applied(n) == pc = "redacting" /\ n < at /\ Findings(Policies[n]) # {}
Masks(k) == \E m \in DOMAIN Policies : Applied(m) /\ Covers(m, k)
Earlier(n, i) ==
    \E m \in 1 .. n - 1 : \E k \in Span(i, Seeks(n)) : Findings(Policies[m]) # {} /\ Covers(m, k)

\* A character is the text's own, or hides one of a word of a policy applied.
Masked ==
    /\ redacted \in Seq(Chars) /\ Len(redacted) = Len(text)
    /\ \A k \in 1 .. Len(text) :
          redacted[k] = text[k] \/ (redacted[k] = Hidden /\ Masks(k))
    /\ \A n \in DOMAIN Policies : Applied(n) =>
          \A i : Holds(n, i) =>
              Earlier(n, i) \/ \A k \in Span(i, Seeks(n)) : redacted[k] = Hidden

LEMMA SpanIs ==
    ASSUME NEW s \in Seq(Chars), NEW w \in Seq(Chars), Len(w) > 0, NEW i \in Places(s, w)
    PROVE  \A k \in Span(i, w) :
               /\ k \in 1 .. Len(s) /\ k - i + 1 \in 1 .. Len(w)
               /\ s[k] = w[k - i + 1] /\ w[k - i + 1] \in ToSet(w)
<1>1. i \in 1 .. Len(s) - Len(w) + 1 /\ \A k \in 1 .. Len(w) : s[i + k - 1] = w[k]
  BY PlacesAre
<1>2. Len(s) \in Nat /\ Len(w) \in Nat /\ DOMAIN w = 1 .. Len(w)
  BY LenProperties
<1> SUFFICES ASSUME NEW k \in Span(i, w)
             PROVE  /\ k \in 1 .. Len(s) /\ k - i + 1 \in 1 .. Len(w)
                    /\ s[k] = w[k - i + 1] /\ w[k - i + 1] \in ToSet(w)
  OBVIOUS
<1>3. k \in 1 .. Len(s) /\ k - i + 1 \in 1 .. Len(w) /\ i + (k - i + 1) - 1 = k
  BY <1>1, <1>2 DEF Span
<1>4. s[i + (k - i + 1) - 1] = w[k - i + 1]
  BY <1>1, <1>3
<1> QED BY <1>2, <1>3, <1>4 DEF ToSet

\* Replacing hides the words that stand there, and nothing else.
LEMMA ReplaceIs ==
    ASSUME NEW s \in Seq(Chars), NEW w \in Seq(Chars), Len(w) > 0
    PROVE  /\ Replace(s, w) \in Seq(Chars) /\ Len(Replace(s, w)) = Len(s)
           /\ \A k \in 1 .. Len(s) :
                 \/ Replace(s, w)[k] = s[k]
                 \/ Replace(s, w)[k] = Hidden /\ \E j \in Places(s, w) : k \in Span(j, w)
           /\ \A k \in 1 .. Len(s) : s[k] = Hidden => Replace(s, w)[k] = Hidden
           /\ \A j \in Places(s, w) : \A k \in Span(j, w) : Replace(s, w)[k] = Hidden
<1>1. Len(s) \in Nat /\ DOMAIN s = 1 .. Len(s) /\ \A k \in 1 .. Len(s) : s[k] \in Chars
  BY LenProperties, ElementOfSeq
<1>2. Hidden \in Chars
  BY DEF Chars
<1>3. \A k \in 1 .. Len(s) :
          Replace(s, w)[k] = IF \E j \in Places(s, w) : k \in Span(j, w) THEN Hidden ELSE s[k]
  BY <1>1 DEF Replace
<1>4. Replace(s, w) \in [1 .. Len(s) -> Chars]
  BY <1>1, <1>2 DEF Replace
<1>5. Replace(s, w) \in Seq(Chars) /\ Len(Replace(s, w)) = Len(s)
  BY <1>1, <1>4
<1>6. ASSUME NEW j \in Places(s, w), NEW k \in Span(j, w) PROVE k \in 1 .. Len(s)
  BY SpanIs
<1> QED BY <1>3, <1>5, <1>6

LEMMA SeeksIs ==
    ASSUME NEW n \in DOMAIN Policies
    PROVE  Seeks(n) \in Seq(Chars) /\ Len(Seeks(n)) > 0 /\ Hidden \notin ToSet(Seeks(n))
BY PoliciesAre, Typed DEF Seeks

\* Where a word still stands it always stood.
LEMMA StillStands ==
    ASSUME TextInv, Masked, NEW n \in DOMAIN Policies, NEW i \in Places(redacted, Seeks(n))
    PROVE  Holds(n, i)
<1>1. /\ redacted \in Seq(Chars) /\ text \in Seq(Chars) /\ Len(redacted) = Len(text)
      /\ Seeks(n) \in Seq(Chars) /\ Len(Seeks(n)) > 0 /\ Hidden \notin ToSet(Seeks(n))
  BY Typed, SeeksIs DEF TextInv, Masked
<1>2. i \in 1 .. Len(text) - Len(Seeks(n)) + 1 /\ Len(text) \in Nat /\ Len(Seeks(n)) \in Nat
  BY <1>1, PlacesAre, LenProperties
<1>3. ASSUME NEW k \in 1 .. Len(Seeks(n)) PROVE text[i + k - 1] = Seeks(n)[k]
  <2>1. i + k - 1 \in Span(i, Seeks(n)) /\ (i + k - 1) - i + 1 = k
    BY <1>2 DEF Span
  <2>2. redacted[i + k - 1] = Seeks(n)[k] /\ Seeks(n)[k] # Hidden /\ i + k - 1 \in 1 .. Len(text)
    BY <1>1, <2>1, SpanIs
  <2> QED BY <2>2 DEF Masked
<1> QED BY <1>1, <1>2, <1>3, PlacesAre DEF Holds

\* Where nothing has been hidden yet a word still stands.
LEMMA StandsStill ==
    ASSUME TextInv, Masked, NEW n \in DOMAIN Policies, NEW i, Holds(n, i),
           \A k \in Span(i, Seeks(n)) : redacted[k] = text[k]
    PROVE  i \in Places(redacted, Seeks(n))
<1>1. /\ redacted \in Seq(Chars) /\ text \in Seq(Chars) /\ Len(redacted) = Len(text)
      /\ Seeks(n) \in Seq(Chars) /\ Len(Seeks(n)) > 0
  BY Typed, SeeksIs DEF TextInv, Masked
<1>2. /\ i \in 1 .. Len(text) - Len(Seeks(n)) + 1 /\ Len(text) \in Nat /\ Len(Seeks(n)) \in Nat
      /\ \A k \in 1 .. Len(Seeks(n)) : text[i + k - 1] = Seeks(n)[k]
  BY <1>1, PlacesAre, LenProperties DEF Holds
<1>3. ASSUME NEW k \in 1 .. Len(Seeks(n)) PROVE redacted[i + k - 1] = Seeks(n)[k]
  <2>1. i + k - 1 \in Span(i, Seeks(n))
    BY <1>2 DEF Span
  <2> QED BY <1>2, <2>1
<1> QED BY <1>1, <1>2, <1>3, PlacesAre

LEMMA SameReading ==
    ASSUME text' = text, found' = found
    PROVE  /\ \A n, i : Holds(n, i)' = Holds(n, i)
           /\ \A n, k : Covers(n, k)' = Covers(n, k)
           /\ \A n, i : Earlier(n, i)' = Earlier(n, i)
           /\ \A p : Findings(p)' = Findings(p)
<1>1. \A n, i : Holds(n, i)' = Holds(n, i)
  BY DEF Holds
<1>2. \A n, k : Covers(n, k)' = Covers(n, k)
  BY <1>1 DEF Covers
<1>3. \A p : Findings(p)' = Findings(p)
  BY DEF Findings
<1>4. \A n, i : Earlier(n, i)' = Earlier(n, i)
  BY <1>2, <1>3 DEF Earlier
<1> QED BY <1>1, <1>2, <1>3, <1>4

LEMMA MaskedRedact == TypeInv /\ Masked /\ Redact => Masked'
<1> SUFFICES ASSUME TypeInv, Masked, Redact PROVE Masked'
  OBVIOUS
<1>1. /\ text' = text /\ found' = found /\ pc = "redacting" /\ pc' = pc /\ at' = at + 1
      /\ at \in DOMAIN Policies /\ TextInv /\ Current = Policies[at]
      /\ redacted' = IF Findings(Current) # {} THEN Replace(redacted, Seeks(at)) ELSE redacted
  BY PoliciesAre DEF Redact, input, TypeInv, Where, Current, Seeks
<1>2. /\ \A n, i : Holds(n, i)' = Holds(n, i)
      /\ \A n, k : Covers(n, k)' = Covers(n, k)
      /\ \A n, i : Earlier(n, i)' = Earlier(n, i)
  BY <1>1, SameReading
<1>3. ASSUME NEW n \in DOMAIN Policies
      PROVE  Applied(n)' <=> Applied(n) \/ (n = at /\ Findings(Current) # {})
  BY <1>1, PoliciesAre, SameReading DEF Applied
<1>4. \A k : Masks(k) => Masks(k)'
  BY <1>2, <1>3 DEF Masks
<1>5. redacted \in Seq(Chars) /\ Len(redacted) = Len(text) /\ Len(text) \in Nat
  BY <1>1, Typed, LenProperties DEF Masked, TextInv
<1> DEFINE Hides == \A k \in 1 .. Len(text) :
                        redacted'[k] = text[k] \/ (redacted'[k] = Hidden /\ Masks(k)')
           Treated(n) == \A i : Holds(n, i) =>
                          Earlier(n, i) \/ \A k \in Span(i, Seeks(n)) : redacted'[k] = Hidden
<1>6. CASE Findings(Current) = {}
  <2>1. redacted' = redacted
    BY <1>1, <1>6
  <2>2. Hides
    BY <1>4, <2>1 DEF Masked
  <2>3. \A n \in DOMAIN Policies : Applied(n)' => Treated(n)
    BY <1>3, <1>6, <2>1 DEF Masked
  <2> QED BY <1>1, <1>2, <1>5, <2>1, <2>2, <2>3 DEF Masked
<1>7. CASE Findings(Current) # {}
  <2>1. Seeks(at) \in Seq(Chars) /\ Len(Seeks(at)) > 0 /\ redacted' = Replace(redacted, Seeks(at))
    BY <1>1, <1>7, SeeksIs
  <2>2. /\ redacted' \in Seq(Chars) /\ Len(redacted') = Len(text)
        /\ \A k \in 1 .. Len(text) :
              \/ redacted'[k] = redacted[k]
              \/ redacted'[k] = Hidden /\ \E j \in Places(redacted, Seeks(at)) : k \in Span(j, Seeks(at))
        /\ \A k \in 1 .. Len(text) : redacted[k] = Hidden => redacted'[k] = Hidden
        /\ \A j \in Places(redacted, Seeks(at)) : \A k \in Span(j, Seeks(at)) : redacted'[k] = Hidden
    BY <1>5, <2>1, ReplaceIs
  <2>3. Hides
    <3> SUFFICES ASSUME NEW k \in 1 .. Len(text)
                 PROVE  redacted'[k] = text[k] \/ (redacted'[k] = Hidden /\ Masks(k)')
      OBVIOUS
    <3>1. CASE redacted'[k] = redacted[k]
      BY <1>4, <3>1 DEF Masked
    <3>2. CASE redacted'[k] = Hidden /\ \E j \in Places(redacted, Seeks(at)) : k \in Span(j, Seeks(at))
      <4>1. Covers(at, k)
        BY <1>1, <3>2, StillStands DEF Covers
      <4> QED BY <1>1, <1>2, <1>3, <1>7, <3>2, <4>1 DEF Masks
    <3> QED BY <2>2, <3>1, <3>2
  <2>4. ASSUME NEW n \in DOMAIN Policies, Applied(n), NEW i, Holds(n, i)
        PROVE  Earlier(n, i) \/ \A k \in Span(i, Seeks(n)) : redacted'[k] = Hidden
    <3>1. \A k \in Span(i, Seeks(n)) : k \in 1 .. Len(text)
      BY <1>1, <2>4, SeeksIs, SpanIs, Typed DEF Holds, TextInv
    <3> QED BY <2>2, <2>4, <3>1 DEF Masked
  <2>5. ASSUME NEW i, Holds(at, i)
        PROVE  Earlier(at, i) \/ \A k \in Span(i, Seeks(at)) : redacted'[k] = Hidden
    <3>1. CASE \A k \in Span(i, Seeks(at)) : redacted[k] = text[k]
      BY <1>1, <2>2, <2>5, <3>1, StandsStill
    <3>2. CASE \E k \in Span(i, Seeks(at)) : redacted[k] # text[k]
      <4>1. PICK k \in Span(i, Seeks(at)) : redacted[k] # text[k]
        BY <3>2
      <4>2. k \in 1 .. Len(text)
        BY <1>1, <2>5, SeeksIs, SpanIs, Typed DEF Holds, TextInv
      <4>3. PICK m \in DOMAIN Policies : Applied(m) /\ Covers(m, k)
        BY <4>1, <4>2 DEF Masked, Masks
      <4>4. m \in 1 .. at - 1 /\ Findings(Policies[m]) # {}
        BY <1>1, <4>3, PoliciesAre DEF Applied
      <4> QED BY <4>1, <4>3, <4>4 DEF Earlier
    <3> QED BY <3>1, <3>2
  <2>6. \A n \in DOMAIN Policies : Applied(n)' => Treated(n)
    BY <1>3, <2>4, <2>5
  <2> QED BY <1>1, <1>2, <2>2, <2>3, <2>6 DEF Masked
<1> QED BY <1>6, <1>7

LEMMA MaskedElse == TypeInv /\ Masked /\ [Next]_vars /\ ~Redact => Masked'
<1> SUFFICES ASSUME TypeInv, Masked, [Next]_vars, ~Redact PROVE Masked'
  OBVIOUS
<1> DEFINE Goal ==
           /\ text' = text /\ redacted' = redacted
           /\ \/ found' = found /\ \A n \in DOMAIN Policies : Applied(n)' <=> Applied(n)
              \/ \A n \in DOMAIN Policies : ~Applied(n) /\ ~Applied(n)'
<1>1. ASSUME RunAnswers PROVE Goal
  BY <1>1 DEF RunAnswers, Scanning, input, Applied
<1>2. ASSUME RunFails PROVE Goal
  <2>1. pc' = pc \/ pc' = "error"
    BY <1>2 DEF RunFails
  <2> QED BY <1>2, <2>1 DEF RunFails, Scanning, input, Applied
<1>3. ASSUME Resolve PROVE Goal
  <2>1. pc' = "scanning" \/ pc' = "error"
    BY <1>3 DEF Resolve
  <2> QED BY <1>3, <2>1 DEF Resolve, input, results, Applied
<1>4. ASSUME Return PROVE Goal
  BY <1>4, PoliciesAre DEF Return, input, results, Applied
<1>5. ASSUME UNCHANGED <<input, progress, results>> PROVE Goal
  BY <1>5 DEF input, progress, results, Applied, Findings
<1>6. ASSUME \E ps : Reload(ps) PROVE Goal
  BY <1>5, <1>6 DEF Reload
<1>7. ASSUME \E p \in PolicySet : Unregister(p) PROVE Goal
  BY <1>5, <1>7 DEF Unregister
<1>8. ASSUME UNCHANGED vars PROVE Goal
  BY <1>5, <1>8 DEF vars
<1>9. Goal
  BY <1>1, <1>2, <1>3, <1>4, <1>6, <1>7, <1>8 DEF Next
<1> HIDE DEF Goal
<1>10. text' = text /\ redacted' = redacted
  BY <1>9 DEF Goal
<1>11. CASE found' = found /\ \A n \in DOMAIN Policies : Applied(n)' <=> Applied(n)
  <2>1. /\ \A n, i : Holds(n, i)' = Holds(n, i)
        /\ \A n, k : Covers(n, k)' = Covers(n, k)
        /\ \A n, i : Earlier(n, i)' = Earlier(n, i)
    BY <1>10, <1>11, SameReading
  <2>2. \A k : Masks(k) => Masks(k)'
    BY <1>11, <2>1 DEF Masks
  <2> QED BY <1>10, <1>11, <2>1, <2>2 DEF Masked
<1>12. CASE \A n \in DOMAIN Policies : ~Applied(n) /\ ~Applied(n)'
  <2>1. \A k \in 1 .. Len(text) : redacted[k] = text[k]
    BY <1>12 DEF Masked, Masks
  <2> QED BY <1>10, <1>12, <2>1 DEF Masked
<1> QED BY <1>9, <1>11, <1>12 DEF Goal

LEMMA AlwaysMasked == Spec => []Masked
<1>1. Init => Masked
  <2> SUFFICES ASSUME Init PROVE Masked
    OBVIOUS
  <2>1. redacted = text /\ text \in Seq(Chars) /\ \A n : ~Applied(n)
    BY Typed DEF Init, Applied
  <2> QED BY <2>1 DEF Masked
<1>2. TypeInv /\ Masked /\ [Next]_vars => Masked'
  BY MaskedRedact, MaskedElse
<1> QED BY <1>1, <1>2, AlwaysTyped, PTL DEF Spec

\* What a policy that ran to its end looks for is hidden, in every place it stands in the
\* text, unless a word of an earlier policy was replaced across it (guard.py:1117,
\* _apply_redaction).
THEOREM NothingStaysLegible == ASSUME Fitting PROVE Spec => []NothingLegible
<1>1. TypeInv /\ NothingMissed /\ Masked => NothingLegible
  <2> DEFINE Replaced(n, i) ==
             \E m \in 1 .. n - 1 : \E j \in Places(text, Word[Policies[m]]) :
                 /\ Findings(Policies[m]) # {}
                 /\ Span(i, Word[Policies[n]]) \cap Span(j, Word[Policies[m]]) # {}
  <2> SUFFICES ASSUME TypeInv, NothingMissed, Masked,
                      NEW n \in DOMAIN Policies, Evaluated(Policies[n]),
                      NEW i \in True(Policies[n]) \cap Places(text, Word[Policies[n]])
               PROVE  \/ Replaced(n, i)
                      \/ \A k \in Span(i, Word[Policies[n]]) : redacted[k] = Hidden
    BY DEF NothingLegible
  <2>1. Findings(Policies[n]) # {}
    BY PoliciesAre DEF NothingMissed
  <2>2. Applied(n)
    BY <2>1, PoliciesAre DEF Applied, Evaluated, Done, TypeInv, Where
  <2>3. Earlier(n, i) \/ \A k \in Span(i, Seeks(n)) : redacted[k] = Hidden
    BY <2>2 DEF Masked, Holds, Seeks
  <2>4. ASSUME Earlier(n, i) PROVE Replaced(n, i)
    <3>1. PICK m \in 1 .. n - 1 : \E k \in Span(i, Seeks(n)) :
                                      Findings(Policies[m]) # {} /\ Covers(m, k)
      BY <2>4 DEF Earlier
    <3>2. PICK k \in Span(i, Seeks(n)) : Findings(Policies[m]) # {} /\ Covers(m, k)
      BY <3>1
    <3>3. PICK j : j \in Places(text, Seeks(m)) /\ k \in Span(j, Seeks(m))
      BY <3>2 DEF Covers, Holds
    <3>4. k \in Span(i, Word[Policies[n]]) \cap Span(j, Word[Policies[m]])
      BY <3>2, <3>3 DEF Seeks
    <3> QED BY <3>2, <3>3, <3>4 DEF Seeks
  <2> QED BY <2>3, <2>4 DEF Seeks
<1> QED BY <1>1, AlwaysTyped, AlwaysMasked, NothingIsMissed, PTL

-----------------------------------------------------------------------------
(* Instances *)

Numbers ==
    /\ instances \in [PolicySet -> Nat] /\ oldest \in [PolicySet -> Nat] /\ made \in Nat
    /\ taken \in [PolicySet -> Nat]

\* No instance that was let go before the evaluation is cached or taken.
Fresh ==
    /\ pc = "ready" => used = {}
    /\ \A p \in PolicySet :
          (instances[p] = 0 \/ instances[p] >= oldest[p]) /\ oldest[p] <= made + 1
    /\ pc = "scanning" => \A p \in PolicySet : taken[p] >= oldest[p]
    /\ \A u \in used : u[1] \in PolicySet /\ u = <<u[1], taken[u[1]]>> /\ u[2] >= oldest[u[1]]
InstanceInv == Numbers /\ Fresh

LEMMA InstanceStep == TypeInv /\ InstanceInv /\ [Next]_vars => InstanceInv'
<1> SUFFICES ASSUME TypeInv, InstanceInv, [Next]_vars PROVE InstanceInv'
  OBVIOUS
<1> USE DEF InstanceInv, Numbers, Fresh
<1>1. CASE Resolve
  <2>1. CASE PolicySet \subseteq classes
    <3>1. /\ instances' = [p \in PolicySet |-> IF instances[p] = 0 THEN made + 1 ELSE instances[p]]
          /\ taken' = instances' /\ made' = made + 1 /\ pc' = "scanning"
          /\ oldest' = oldest /\ used' = used /\ used = {}
      BY <1>1, <2>1 DEF Resolve
    <3>2. instances' \in [PolicySet -> Nat]
      BY <3>1
    <3>3. \A p \in PolicySet : instances'[p] >= oldest[p]
      BY <3>1
    <3> QED BY <3>1, <3>2, <3>3
  <2>2. CASE ~(PolicySet \subseteq classes)
    BY <1>1, <2>2 DEF Resolve
  <2> QED BY <2>1, <2>2
<1>2. CASE RunAnswers
  <2>1. /\ Current \in PolicySet /\ taken[Current] >= oldest[Current] /\ pc = "scanning" /\ pc' = pc
        /\ used' = used \cup {<<Current, taken[Current]>>}
        /\ UNCHANGED <<taken, registry, oldest>>
    BY <1>2, ExtraIs DEF RunAnswers, Scanning, Instance, TypeInv
  <2> QED BY <2>1 DEF registry
<1>3. CASE RunFails
  BY <1>3 DEF RunFails, Scanning, registry
<1>4. CASE Return
  BY <1>4 DEF Return, registry
<1>5. CASE Redact
  BY <1>5 DEF Redact, registry
<1>6. ASSUME NEW ps, Forget(ps), UNCHANGED <<pc, taken, made, used>>,
             oldest' = IF pc = "ready"
                       THEN [p \in PolicySet |-> IF p \in ps THEN made + 1 ELSE oldest[p]]
                       ELSE oldest
      PROVE  InstanceInv'
  <2>1. instances' = [p \in PolicySet |-> IF p \in ps THEN 0 ELSE instances[p]]
    BY <1>6 DEF Forget
  <2>2. instances' \in [PolicySet -> Nat] /\ oldest' \in [PolicySet -> Nat]
    BY <1>6, <2>1
  <2>3. \A p \in PolicySet : (instances'[p] = 0 \/ instances'[p] >= oldest'[p])
                             /\ oldest'[p] <= made + 1
    BY <1>6, <2>1
  <2> QED BY <1>6, <2>2, <2>3
<1>7. ASSUME NEW p, Forget({p}), UNCHANGED <<pc, taken, made, oldest, used>> PROVE InstanceInv'
  BY <1>7 DEF Forget
<1>8. CASE \E ps : Reload(ps)
  BY <1>6, <1>8 DEF Reload, progress
<1>9. CASE \E p \in PolicySet : Unregister(p)
  BY <1>7, <1>9 DEF Unregister, progress
<1>10. CASE UNCHANGED vars
  BY <1>10 DEF vars, registry, progress
<1> QED BY <1>1, <1>2, <1>3, <1>4, <1>5, <1>8, <1>9, <1>10 DEF Next

\* An evaluation scans all windows for a policy with one instance, taken after the last
\* reload before it (guard.py:876, _resolve_policies; registry.py, get and reload).
THEOREM InstancesAreFresh == Spec => []OneFreshInstance
<1>1. Init => InstanceInv
  BY DEF Init, InstanceInv, Numbers, Fresh
<1>2. InstanceInv => OneFreshInstance
  BY DEF InstanceInv, Numbers, Fresh, OneFreshInstance
<1> QED BY <1>1, <1>2, AlwaysTyped, InstanceStep, PTL DEF Spec
=============================================================================
