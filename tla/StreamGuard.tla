---------------------------- MODULE StreamGuard ----------------------------
(***************************************************************************)
(* One iteration of a StreamGuard (stream.py): the text a provider streams *)
(* is scanned as it arrives, part of it is withheld, and a final           *)
(* evaluation decides about the rest.                                      *)
(*                                                                         *)
(* The coroutine runs alone on its object, so a step is the code between   *)
(* two awaits or yields; what interleaves is the outcome of every await:   *)
(* the provider, the policy runs and the consumer of the generator.        *)
(*                                                                         *)
(* Text is counted in characters.  What policies would find in it is the   *)
(* set `text`, chosen at the start: occurrences of the one word each       *)
(* policy looks for.  An occurrence has a policy, a first and a last       *)
(* character, and is verbatim when the word stands there as it is and not  *)
(* only in a normalised variant.  The policy takes it when what must be    *)
(* near is shown too: `near` is the place of that, the occurrence's own    *)
(* when nothing must be, and 0 when the policy refuses it in any case.     *)
(***************************************************************************)
EXTENDS Naturals, FiniteSets, Sequences, SequencesExt

CONSTANTS
    Policies,      \* the enabled policies, in order
    Blocking,      \* those whose violations block (Violation.blocked or action BLOCK)
    Occurrences,   \* what the answer may contain
    MaxChars,      \* bound: characters the provider streams
    ChunkSizes,    \* bound: characters of one chunk
    EvalInterval,  \* eval_interval
    EvalWindow,    \* eval_window_chars
    Holdback,      \* holdback_chars
    Retain,        \* max_buffer_chars
    ScanChunk,     \* SCAN_CHUNK_SIZE
    ScanOverlap    \* SCAN_OVERLAP

Occurrence == [policy : ToSet(Policies), first : 1 .. MaxChars, last : 1 .. MaxChars,
               verbatim : BOOLEAN, near : 0 .. MaxChars]

ASSUME StreamAssumption ==
    /\ Policies \in Seq(ToSet(Policies)) /\ IsInjective(Policies)
    /\ Blocking \subseteq ToSet(Policies)
    /\ Occurrences \subseteq Occurrence /\ IsFiniteSet(Occurrences)
    /\ \A o \in Occurrences : o.first <= o.last
    /\ \A o, p \in Occurrences : o.policy = p.policy /\ o.first = p.first => o = p
    /\ MaxChars \in Nat /\ ChunkSizes \subseteq Nat \ {0}
    /\ EvalInterval \in Nat \ {0} /\ EvalWindow \in Nat \ {0}
    /\ Holdback \in Nat /\ Retain \in Nat \ {0}
    /\ ScanChunk \in Nat \ {0} /\ ScanOverlap \in Nat /\ ScanOverlap < ScanChunk

VARIABLES
    text,        \* the occurrences in the provider's answer
    failOpen,    \* self._fail_open
    received,    \* self._accumulated_length
    chunks,      \* self._chunk_count
    sinceEval,   \* self._chars_since_eval
    emitted,     \* characters yielded; what was received after them is _pending
    pc,          \* reading, scanning, yielded, over
    mode,        \* which evaluation is running: incremental, final
    turn,        \* the index in Policies of the policy it runs, past the last when it is done
    window,      \* the index of the window that policy is given
    found,       \* its findings so far
    findings,    \* self._violations, as its de-duplication keys: policy and offset (the
                 \* word is the policy's); history: whether the match was located
    ending,      \* the exception with which `finally` was entered
    outcome,     \* how the iteration ended for the consumer
    events,      \* the status of each event reported

    skipped,     \* history: policies with a run that timed out or crashed
    aborted      \* history: an evaluation was given up

arrival == <<received, chunks, sinceEval>>
evaluation == <<mode, turn, window, found>>
config == <<text, failOpen>>
vars == <<config, arrival, emitted, pc, evaluation, findings, ending, outcome, events,
          skipped, aborted>>

Endings == {"none", "violation", "error", "closed", "cancelled", "cut"}

Lesser(m, n) == IF m < n THEN m ELSE n

Retained == Lesser(received, Retain)

-----------------------------------------------------------------------------
(* The runs of one evaluation *)

\* The windows of a content of n characters, as [from, to).  The mutant does not
\* overlap them.
Mut_NoOverlap(n) ==
    [i \in 1 .. IF n <= ScanChunk THEN 1 ELSE (n + ScanChunk - 1) \div ScanChunk |->
        [from |-> (i - 1) * ScanChunk, to |-> Lesser(i * ScanChunk, n)]]
Windows(n) ==
    LET step == ScanChunk - ScanOverlap
        count == IF n <= ScanChunk THEN 1 ELSE 1 + (n - ScanChunk + step - 1) \div step
    IN [i \in 1 .. count |->
           [from |-> (i - 1) * step, to |-> Lesser((i - 1) * step + ScanChunk, n)]]

\* The length of the scanned content, where it starts in the stream, and the
\* origin _evaluate is told.  The mutant of Origin is one that forgets the start.
Scanned(m) == IF m = "incremental" THEN Lesser(received, EvalWindow) ELSE Retained
Start(m) == IF m = "incremental" THEN received - Scanned(m) ELSE 0
Mut_Origin(m) == Start(m) - Start(m)
Origin(m) == IF m = "incremental" THEN received - Scanned(m) ELSE 0

\* What the window of the run under way shows of the word of its policy, and what of
\* that the policy reports.
Slice == Windows(Scanned(mode))[window]
Within(n) == Start(mode) + Slice.from < n /\ n <= Start(mode) + Slice.to
Shown == {o \in text : o.policy = Policies[turn] /\ Within(o.first) /\ Within(o.last)}
Violations == {o \in Shown : Within(o.near)}

\* _locate_match gives the nth violation the nth place where its word stands in the
\* window, whichever occurrence it was.
Assigned ==
    LET Verbatim == {o \in Shown : o.verbatim}
    IN {o \in Verbatim :
           Cardinality({v \in Verbatim : v.first <= o.first}) <= Cardinality(Violations)}

\* What the run finds: the violations beyond the last place share the offset of the window.
Finds ==
    {<<Policies[turn], Origin(mode) + (o.first - 1 - Start(mode)), TRUE>> : o \in Assigned}
    \cup IF Cardinality(Assigned) < Cardinality(Violations)
         THEN {<<Policies[turn], Origin(mode) + Slice.from, FALSE>>} ELSE {}

\* An evaluation runs every policy on every window: one starts, and the loops of
\* _evaluate go on to the next policy, or to the next run.
Begin(m) == pc' = "scanning" /\ mode' = m /\ turn' = 1 /\ window' = 1 /\ found' = {}
NextPolicy == turn' = turn + 1 /\ window' = 1
NextRun ==
    IF window < Len(Windows(Scanned(mode))) THEN window' = window + 1 /\ UNCHANGED turn
    ELSE NextPolicy
Evaluated == turn > Len(Policies)

Blocks(f) == \E k \in f : k[1] \in Blocking

-----------------------------------------------------------------------------
Init ==
    /\ text \in SUBSET Occurrences /\ failOpen \in BOOLEAN
    /\ received = 0 /\ chunks = 0 /\ sinceEval = 0 /\ emitted = 0
    /\ pc = "reading"
    /\ mode = "incremental" /\ turn = 1 /\ window = 1 /\ found = {}
    /\ findings = {} /\ ending = "none" /\ outcome = "none"
    /\ events = <<>>
    /\ skipped = {} /\ aborted = FALSE

\* _report_event.  The mutant reports again.
Mut_ReportAgain(status) == events' = Append(events, status)
Report(status) == events' = IF events = <<>> THEN <<status>> ELSE events

\* The status _finalize reports for the findings f.
Status(f) == IF Blocks(f) THEN "blocked" ELSE IF f # {} THEN "flagged" ELSE "passed"

\* _finalize begins, from the end of the stream ("none") or from `finally`.
Finalize(e) ==
    /\ ending' = e
    /\ IF received = 0
       THEN /\ Report("passed")
            /\ pc' = "over" /\ outcome' = IF e = "none" THEN "done" ELSE e
            /\ UNCHANGED evaluation
       ELSE Begin("final") /\ UNCHANGED <<events, outcome>>

\* _release: all but the held-back characters.
Release(n) ==
    IF n - emitted <= Holdback THEN UNCHANGED emitted /\ pc' = "reading"
    ELSE emitted' = n - Holdback /\ pc' = "yielded"

-----------------------------------------------------------------------------
(* The provider and the consumer *)

\* A chunk with n characters of text.
Receive(n) ==
    /\ pc = "reading" /\ received + n <= MaxChars
    /\ received' = received + n
    /\ chunks' = chunks + 1
    /\ IF chunks' % EvalInterval = 0 \/ sinceEval + n >= EvalWindow \div 2
       THEN Begin("incremental") /\ sinceEval' = 0 /\ UNCHANGED emitted
       ELSE /\ sinceEval' = sinceEval + n
            /\ Release(received')
            /\ UNCHANGED evaluation
    /\ UNCHANGED <<config, findings, ending, outcome, events, skipped, aborted>>

\* The provider's stream is exhausted.
End ==
    /\ pc = "reading"
    /\ Finalize("none")
    /\ UNCHANGED <<config, arrival, emitted, findings, skipped, aborted>>

\* The provider's stream raises.  Failing open yields the tail first and ends the
\* iteration without an exception, whatever `finally` finds.
ProviderFails ==
    /\ pc = "reading"
    /\ emitted' = IF failOpen THEN received ELSE emitted
    /\ Finalize(IF failOpen THEN "cut" ELSE "error")
    /\ UNCHANGED <<config, arrival, findings, skipped, aborted>>

Scanning == pc = "scanning" /\ ~Evaluated

Resume ==
    /\ pc = "yielded" /\ pc' = "reading"
    /\ UNCHANGED <<config, arrival, emitted, evaluation, findings, ending, outcome, events,
                   skipped, aborted>>

\* GeneratorExit at a yield.
Close ==
    /\ pc = "yielded"
    /\ Finalize("closed")
    /\ UNCHANGED <<config, arrival, emitted, findings, skipped, aborted>>

\* CancelledError at an await.  In the final evaluation it leaves at once.
Cancel ==
    /\ \/ /\ pc = "reading" \/ (Scanning /\ mode = "incremental")
          /\ Finalize("cancelled")
       \/ /\ Scanning /\ mode = "final"
          /\ pc' = "over" /\ outcome' = "cancelled"
          /\ UNCHANGED <<evaluation, ending, events>>
    /\ UNCHANGED <<config, arrival, emitted, findings, skipped, aborted>>

-----------------------------------------------------------------------------
(* An evaluation *)

RunAnswers ==
    /\ Scanning
    /\ found' = found \cup Finds /\ NextRun
    /\ UNCHANGED <<config, arrival, emitted, pc, mode, findings, ending, outcome, events,
                   skipped, aborted>>

\* Failing closed: the exception leaves the evaluation.
Raise ==
    /\ IF mode = "incremental" THEN Finalize("error")
       ELSE /\ pc' = "over" /\ outcome' = "error"
            /\ UNCHANGED <<evaluation, ending, events>>
    /\ UNCHANGED <<config, arrival, emitted, findings>>

\* A run blows its deadline: the rest of that policy's windows is skipped.
RunTimesOut ==
    /\ Scanning
    /\ skipped' = skipped \cup {Policies[turn]}
    /\ \/ /\ failOpen /\ NextPolicy
          /\ UNCHANGED <<config, arrival, emitted, pc, mode, found, findings, ending, outcome,
                         events, aborted>>
       \/ ~failOpen /\ Raise /\ UNCHANGED aborted

\* A policy raises, or the pool refuses the run: the evaluation is given up with
\* all it has found.
RunCrashes ==
    /\ Scanning
    /\ skipped' = skipped \cup {Policies[turn]}
    /\ aborted' = TRUE
    /\ \/ /\ failOpen
          /\ turn' = Len(Policies) + 1 /\ window' = 1 /\ found' = {}
          /\ UNCHANGED <<config, arrival, emitted, pc, mode, findings, ending, outcome, events>>
       \/ ~failOpen /\ Raise

\* The rest of the loop body after an incremental evaluation.  The mutant releases
\* before it looks at the findings.
Mut_ReleaseFirst(f) ==
    IF Blocks(f)
    THEN /\ emitted' = IF received - emitted <= Holdback THEN emitted ELSE received - Holdback
         /\ events' = IF events = <<>> THEN <<"blocked">> ELSE events
         /\ Begin("final") /\ ending' = "violation" /\ UNCHANGED outcome
    ELSE /\ Release(received) /\ found' = {}
         /\ UNCHANGED <<mode, turn, window, events, ending, outcome>>
AfterChunk(f) ==
    IF Blocks(f)
    THEN /\ Report("blocked")
         /\ ending' = "violation" /\ Begin("final")
         /\ UNCHANGED <<emitted, outcome>>
    ELSE /\ Release(received) /\ found' = {}
         /\ UNCHANGED <<mode, turn, window, events, ending, outcome>>

\* The rest of _finalize and what follows it: a ViolationError is suppressed in
\* `finally` after another exception.  The mutant yields the tail in any case.
Mut_TailAnyway(f) ==
    /\ Report(Status(f))
    /\ outcome' = CASE ending = "none" -> IF Blocks(f) THEN "violation" ELSE "done"
                    [] ending \in {"closed", "cancelled"} /\ Blocks(f) -> "violation"
                    [] OTHER -> ending
    /\ emitted' = IF ending = "none" THEN received ELSE emitted
AfterFinal(f) ==
    /\ Report(Status(f))
    /\ outcome' = CASE ending = "none" -> IF Blocks(f) THEN "violation" ELSE "done"
                    [] ending \in {"closed", "cancelled"} /\ Blocks(f) -> "violation"
                    [] OTHER -> ending
    /\ emitted' = IF ending = "none" /\ ~Blocks(f) THEN received ELSE emitted

\* The evaluation returns and _merge unites its findings with the earlier ones.
Merge ==
    /\ pc = "scanning" /\ Evaluated
    /\ findings' = findings \cup found
    /\ \/ mode = "incremental" /\ AfterChunk(findings')
       \/ /\ mode = "final" /\ AfterFinal(findings')
          /\ pc' = "over" /\ found' = {}
          /\ UNCHANGED <<mode, turn, window, ending>>
    /\ UNCHANGED <<config, arrival, skipped, aborted>>

-----------------------------------------------------------------------------
Next ==
    \/ \E n \in ChunkSizes : Receive(n)
    \/ End \/ ProviderFails \/ Resume \/ Close \/ Cancel
    \/ RunAnswers \/ RunTimesOut \/ RunCrashes \/ Merge

Spec == Init /\ [][Next]_vars

-----------------------------------------------------------------------------
\* From the step that learns of a blocking finding on, nothing more is yielded, in
\* whichever way the iteration ends and whatever the evaluations that follow do.
NothingAfterBlock == [][Blocks(findings') => emitted' = emitted]_vars

\* "withheld from the caller until the stream ends, so a violation in the final
\* tokens can still be blocked": a ViolationError finds the last Holdback
\* characters still unyielded.
TailHeld == outcome = "violation" => emitted = 0 \/ emitted + Holdback <= received

\* All windows that show the word of p agree about it: it is never disguised or refused.
Plain(p) == \A o \in text : o.policy = p => o.verbatim /\ o.near = o.first

\* What a policy must be shown of an occurrence, and the room it takes.
Begins(o) == Lesser(o.near, o.first)
Ends(o) == IF o.near <= o.last THEN o.last ELSE o.near
Short(o) == o.near # 0 /\ Ends(o) - Begins(o) <= ScanOverlap

\* A stream that completes was scanned: what a policy that never failed would find
\* in the retained text, with what must be near not longer than the overlap of the
\* windows, was found, at its place when the word is plain, and nothing found blocks;
\* unless an evaluation was given up after a crash.
Reported(o) == \E k \in findings : k[1] = o.policy /\ (Plain(o.policy) => k[2] = o.first - 1)
RetainedScanned ==
    outcome = "done" =>
        /\ ~Blocks(findings)
        /\ ~aborted => \A o \in text :
              (Ends(o) <= Retained /\ Short(o) /\ o.policy \notin skipped) => Reported(o)

\* What is said to be located is at a place where the word stands in the stream.  Of a
\* plain word all is located: incremental and final evaluations agree about it, and no
\* occurrence of it is reported twice, at two offsets.  Refused and disguised ones
\* shift the violations of a window to other places, and then one may be.
FoundWhereItIs ==
    \A k \in findings :
        /\ k[3] => \E o \in text : o.policy = k[1] /\ o.verbatim /\ o.first - 1 = k[2]
        /\ Plain(k[1]) => k[3]

\* Every stream that is not cancelled and does not fail closed leaves one event, and
\* its status is that of all that was ever found.
OneTrueEvent ==
    outcome \in {"done", "violation", "closed", "cut"} => events = <<Status(findings)>>

-----------------------------------------------------------------------------
(* What the repository's texts claim and the code does not do *)

\* "max_content_length is a cap on how much content is stored and reported, not on
\* what is scanned" (README.md:748): without failures, what the text contains beyond
\* the cap is found as well.
CapIsNotForScanning ==
    outcome = "done" /\ skipped = {} =>
        \A o \in text : Ends(o) <= received /\ Short(o) => Reported(o)

\* "every other policy still runs and still enforces" (README.md:704) when one
\* policy crashes.
OthersStillEnforce ==
    outcome = "done" =>
        \A o \in text :
            (Ends(o) <= Retained /\ Short(o) /\ o.policy \notin skipped) => Reported(o)
=============================================================================
