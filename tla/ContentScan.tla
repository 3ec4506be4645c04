---------------------------- MODULE ContentScan -----------------------------
(***************************************************************************)
(* One evaluation of a text (guard.py: _resolve_policies,                  *)
(* _evaluate_content, _apply_redaction): the instances of the policies are *)
(* taken from the registry (policies/registry.py), each is run on the      *)
(* overlapping windows of the text, what the windows show is located,      *)
(* de-duplicated and united, and what was found is replaced.  The registry *)
(* may change while a policy runs.                                         *)
(*                                                                         *)
(* A text is a sequence of characters.  A policy looks for one word.  A    *)
(* "refined" policy (pii.py) takes a word only near a keyword; any other   *)
(* (injection.py, jailbreak.py) reads the window in normalised variants    *)
(* too (_normalize.py).  The characters of a word are all different, so    *)
(* its occurrences do not overlap.                                         *)
(***************************************************************************)
EXTENDS Naturals, Integers, FiniteSets, FiniteSetsExt, Sequences, SequencesExt

CONSTANTS
    Texts,      \* the texts considered
    Policies,   \* the enabled policies, in order
    Word,       \* what each looks for
    Refined,    \* the policies that take a word near the keyword only
    Keyword, Reach,    \* the keyword, and how near is near
    Confusables, Fold, \* characters that look like another, and which
    Chunk,      \* SCAN_CHUNK_SIZE
    Overlap,    \* SCAN_OVERLAP
    Caps,       \* values of MAX_MATCHES_PER_PATTERN considered
    MaxChanges, \* bound on the changes of the registry
    ChangedTexts \* bound: the texts during whose evaluation it changes

PolicySet == ToSet(Policies)

\* What a redaction token consists of: a token hides what it replaces, its length does
\* not matter.
Hidden == "*"

ASSUME ScanAssumption ==
    /\ \A t \in Texts : t \in Seq(ToSet(t))
    /\ Policies \in Seq(PolicySet) /\ IsInjective(Policies)
    /\ Refined \subseteq PolicySet
    /\ \A p \in PolicySet :
          /\ Word[p] \in Seq(ToSet(Word[p])) /\ IsInjective(Word[p]) /\ Len(Word[p]) > 0
          /\ Hidden \notin ToSet(Word[p])
    /\ Chunk \in Nat \ {0} /\ Overlap \in 0 .. Chunk - 1
    /\ Reach \in Nat /\ Caps \subseteq Nat \ {0} /\ MaxChanges \in Nat
    /\ ChangedTexts \subseteq Texts

VARIABLES
    text, cap,
    failOpen,    \* config.fail_open
    pc,          \* ready, scanning, redacting, error
    at, window,  \* the next policy and its next window
    taken,       \* the instance of each policy this evaluation uses
    unlocated,   \* per policy: matches that could not be located so far
    found,       \* findings, as de-duplication keys
    degraded,    \* policies that could not be evaluated
    redacted,    \* the text after _apply_redaction
    classes,     \* registry: the policies registered
    instances,   \* registry: the cached instance of each policy, 0 for none
    made,        \* registry: instances made so far
    changes,     \* changes of the registry so far
    oldest,      \* history: instances older than this were let go before the evaluation
    used         \* history: which instance scanned for which policy

input == <<text, cap, failOpen>>
progress == <<pc, at, window>>
results == <<unlocated, found, degraded, redacted>>
registry == <<classes, instances, made>>
vars == <<input, progress, taken, results, registry, changes, oldest, used>>

-----------------------------------------------------------------------------
(* Windows *)

Lesser(a, b) == IF a < b THEN a ELSE b

\* iter_scan_windows: where the windows of n characters begin, less one.  The mutant
\* takes the chunk for the step.
Mut_Abutting(n) == [w \in 1 .. IF n <= Chunk THEN 1 ELSE (n + Chunk - 1) \div Chunk |->
                        (w - 1) * Chunk]
Bases(n) ==
    LET step == Chunk - Overlap
    IN [w \in 1 .. IF n <= Chunk THEN 1 ELSE 1 + (n - Chunk + step - 1) \div step |->
            (w - 1) * step]

Cut(t, base) == SubSeq(t, base + 1, Lesser(base + Chunk, Len(t)))

-----------------------------------------------------------------------------
(* What a policy reports of a window *)

\* Where the word w stands in s.
Places(s, w) == {i \in 1 .. Len(s) - Len(w) + 1 : SubSeq(s, i, i + Len(w) - 1) = w}
Span(i, w) == i .. i + Len(w) - 1

\* _refine_ssn, _refine_phone_us and the like: a keyword stands near.
Near(s, i, w) ==
    \E j \in DOMAIN s : s[j] = Keyword /\ (j \in i - Reach .. i - 1
                                           \/ j \in i + Len(w) .. i + Len(w) + Reach - 1)

\* normalize_variants
Folded(s) == [i \in DOMAIN s |-> IF s[i] \in Confusables THEN Fold[s[i]] ELSE s[i]]

\* PIIPolicy.evaluate counts the candidates that are not refused, ...
RefinedCount(p, s) == Cardinality({i \in Places(s, Word[p]) : Near(s, i, Word[p])})

\* ... collect_matches the matches in the variant that has most, ...
VariantCount(p, s) ==
    Max({Cardinality(Places(v, Word[p])) : v \in {s, Folded(s)}})

\* ... and no policy reports more than the cap.
Count(p, s) == Lesser(IF p \in Refined THEN RefinedCount(p, s) ELSE VariantCount(p, s), cap)

\* _locate_match finds the nth violation of a word at its nth occurrence in the window,
\* and cannot locate the ones that exceed its occurrences.
Located(p, s) ==
    LET places == Places(s, Word[p])
    IN {i \in places : Cardinality({j \in places : j <= i}) <= Count(p, s)}

\* The keys of the violations of one window; the ordinals of those that cannot be located
\* run on over all windows.  The mutant forgets where the window begins.
Key(p, offset, ordinal) == [policy |-> p, offset |-> offset, ordinal |-> ordinal]
Mut_NoBase(p, s, base) ==
    {Key(p, i, 0) : i \in Located(p, s)}
    \cup {Key(p, 0, unlocated[p] + k) : k \in 1 .. Count(p, s) - Cardinality(Located(p, s))}
Keys(p, s, base) ==
    {Key(p, base + i, 0) : i \in Located(p, s)}
    \cup {Key(p, 0, unlocated[p] + k) : k \in 1 .. Count(p, s) - Cardinality(Located(p, s))}

-----------------------------------------------------------------------------
(* Redaction *)

Mut_FirstOnly(s, w) ==
    [i \in DOMAIN s |-> IF Places(s, w) # {} /\ i \in Span(Min(Places(s, w)), w)
                        THEN Hidden ELSE s[i]]
Replace(s, w) ==
    [i \in DOMAIN s |-> IF \E j \in Places(s, w) : i \in Span(j, w) THEN Hidden ELSE s[i]]

-----------------------------------------------------------------------------
Init ==
    /\ text \in Texts /\ cap \in Caps /\ failOpen \in BOOLEAN
    /\ pc = "ready" /\ at = 1 /\ window = 1
    /\ taken = [p \in PolicySet |-> 0]
    /\ unlocated = [p \in PolicySet |-> 0]
    /\ found = {} /\ degraded = {} /\ redacted = text
    /\ classes = PolicySet
    /\ instances \in {[p \in PolicySet |-> 0], [p \in PolicySet |-> 1]} /\ made = 1
    /\ changes = 0 /\ oldest = [p \in PolicySet |-> 0] /\ used = {}

\* register and reload drop the cached instance; unregister the class too.
\* The mutant of the first keeps it.
Mut_KeepInstances(ps) == UNCHANGED instances
Forget(ps) == instances' = [p \in PolicySet |-> IF p \in ps THEN 0 ELSE instances[p]]

Changeable == changes < MaxChanges /\ text \in ChangedTexts

Reload(ps) ==
    /\ Changeable /\ changes' = changes + 1
    /\ Forget(ps)
    /\ oldest' = IF pc = "ready"
                 THEN [p \in PolicySet |-> IF p \in ps THEN made + 1 ELSE oldest[p]] ELSE oldest
    /\ UNCHANGED <<input, progress, taken, results, classes, made, used>>

Unregister(p) ==
    /\ Changeable /\ changes' = changes + 1
    /\ Forget({p}) /\ classes' = classes \ {p}
    /\ UNCHANGED <<input, progress, taken, results, made, oldest, used>>

\* _resolve_policies: every instance is taken before the first run.  PolicyRegistry.get
\* makes the ones that are not cached; an unknown policy is an error whatever fail_open is.
Resolve ==
    /\ pc = "ready"
    /\ IF PolicySet \subseteq classes
       THEN /\ instances' = [p \in PolicySet |->
                                IF instances[p] = 0 THEN made + 1 ELSE instances[p]]
            /\ taken' = instances' /\ made' = made + 1 /\ pc' = "scanning"
       ELSE pc' = "error" /\ UNCHANGED <<instances, taken, made>>
    /\ UNCHANGED <<input, at, window, results, classes, changes, oldest, used>>

Scanning == pc = "scanning" /\ at <= Len(Policies)
Current == Policies[at]

Advance(w) ==
    IF w < Len(Bases(Len(text)))
    THEN window' = w + 1 /\ UNCHANGED at
    ELSE window' = 1 /\ at' = at + 1

\* The mutant asks the registry for the instance at each run.
Mut_FromRegistry == IF instances[Current] # 0 THEN instances[Current] ELSE made + 1
Instance == taken[Current]

RunAnswers ==
    /\ Scanning
    /\ LET base == Bases(Len(text))[window]
           s == Cut(text, base)
       IN /\ found' = found \cup Keys(Current, s, base)
          /\ unlocated' = [unlocated EXCEPT ![Current] =
                               @ + Count(Current, s) - Cardinality(Located(Current, s))]
    /\ used' = used \cup {<<Current, Instance>>}
    /\ Advance(window)
    /\ UNCHANGED <<input, pc, taken, degraded, redacted, registry, changes, oldest>>

\* A run times out or crashes: under fail_open the policy is left, with what its
\* earlier windows showed; its own error always ends the evaluation.
RunFails ==
    /\ Scanning
    /\ \/ /\ failOpen /\ degraded' = degraded \cup {Current}
          /\ at' = at + 1 /\ window' = 1 /\ UNCHANGED pc
       \/ pc' = "error" /\ UNCHANGED <<degraded, at, window>>
    /\ UNCHANGED <<input, taken, unlocated, found, redacted, registry, changes, oldest, used>>

Findings(p) == {f \in found : f.policy = p}

\* The evaluation returns; _apply_redaction then replaces, one policy after the other,
\* what each has found.
Return ==
    /\ pc = "scanning" /\ at > Len(Policies)
    /\ pc' = "redacting" /\ at' = 1
    /\ UNCHANGED <<input, window, taken, results, registry, changes, oldest, used>>

Redact ==
    /\ pc = "redacting" /\ at <= Len(Policies) /\ at' = at + 1
    /\ redacted' = IF Findings(Current) # {} THEN Replace(redacted, Word[Current]) ELSE redacted
    /\ UNCHANGED <<input, pc, window, taken, unlocated, found, degraded, registry,
                   changes, oldest, used>>
Done == pc = "redacting" /\ at > Len(Policies)

Next ==
    \/ Resolve \/ RunAnswers \/ RunFails \/ Return \/ Redact
    \/ Reload(PolicySet) \/ \E p \in PolicySet : Reload({p}) \/ Unregister(p)

Spec == Init /\ [][Next]_vars

-----------------------------------------------------------------------------
\* What there is to find: the words of p that stand near a keyword, or in some variant.
True(p) ==
    IF p \in Refined THEN {i \in Places(text, Word[p]) : Near(text, i, Word[p])}
                     ELSE Places(Folded(text), Word[p])

Evaluated(p) == Done /\ p \notin degraded

\* "Nothing is sampled or skipped": a policy that ran to its end on a text that holds
\* its word, over a window boundary, in a variant or near a keyword, reports it.
NothingMissed == \A p \in PolicySet : Evaluated(p) /\ True(p) # {} => Findings(p) # {}

\* All windows agree about p, and about where its words are: none is disguised, none is
\* refused, no window is full.
Plain(p) ==
    \A w \in DOMAIN Bases(Len(text)) :
        LET s == Cut(text, Bases(Len(text))[w])
        IN /\ Cardinality(Places(s, Word[p])) = Count(p, s)
           /\ Places(Folded(s), Word[p]) = Places(s, Word[p])

\* Then every occurrence is counted once, the ones in the overlap of two windows too,
\* at its place in the text.
CountedOnce ==
    \A p \in PolicySet :
        Evaluated(p) /\ Plain(p) => Findings(p) = {Key(p, i, 0) : i \in Places(text, Word[p])}

\* After redaction nothing is legible of a word a policy looks for, except what is left
\* of one that overlaps a word of another policy that was replaced before it.
NothingLegible ==
    \A n \in DOMAIN Policies :
        LET p == Policies[n]
            Replaced(i) == \E m \in 1 .. n - 1 : \E j \in Places(text, Word[Policies[m]]) :
                               Findings(Policies[m]) # {}
                               /\ Span(i, Word[p]) \cap Span(j, Word[Policies[m]]) # {}
        IN Evaluated(p) =>
               \A i \in True(p) \cap Places(text, Word[p]) :
                   Replaced(i) \/ \A k \in Span(i, Word[p]) : redacted[k] = Hidden

\* A policy is one instance for a whole evaluation, whatever happens to the registry
\* meanwhile, and none that was let go by a reload before it.
OneFreshInstance ==
    \A u \in used : u[2] >= oldest[u[1]] /\ \A v \in used : u[1] = v[1] => u = v
=============================================================================
