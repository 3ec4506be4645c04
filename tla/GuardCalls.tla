----------------------------- MODULE GuardCalls -----------------------------
(***************************************************************************)
(* One governed call (guard.py): `evaluate`, `chat`, `protect` or the      *)
(* opening of `stream`, from its first step to the event it reports.       *)
(*                                                                         *)
(* A call shares nothing with another but the pool and the reporter, so    *)
(* one call is modelled.  A step is the code between two awaits.  What     *)
(* happens at an await is the environment's: policy runs answer, fail or   *)
(* raise, the provider answers or raises, the task is cancelled.           *)
(*                                                                         *)
(* A text is the set of matches policies would find in it.  A match is     *)
(* `blocked` when its violation blocks under every action, and `verbatim`  *)
(* when the text of one choice contains it as it stands, so that it can be *)
(* replaced.  LOG and WARN do not differ here.                             *)
(***************************************************************************)
EXTENDS Naturals, Sequences, SequencesExt

CONSTANTS
    Policies,    \* the active policies, in order
    Matches,     \* what texts may contain
    Actions      \* configurations: the effective action of each policy

Match == [policy : ToSet(Policies), blocked : BOOLEAN, verbatim : BOOLEAN]

ASSUME GuardAssumption ==
    /\ Policies \in Seq(ToSet(Policies))
    /\ Matches \subseteq Match
    /\ Actions \subseteq [ToSet(Policies) -> {"block", "redact", "warn"}]

VARIABLES
    op,          \* which entry point
    failOpen,    \* config.fail_open
    action,      \* _effective_action
    strict,      \* protect(action=BLOCK)
    pc,          \* ready, scanning, calling, fallback, over
    prompt,      \* the text of the messages or arguments
    readable,    \* whether _extract_input found it
    direction,   \* of the current evaluation
    at,          \* its next policy
    found,       \* its findings
    inFound,     \* input_result, once published
    outFound,    \* output_result, once published
    degraded,    \* policies not fully evaluated
    calls,       \* calls of the provider or of the protected function
    response,    \* what it answered
    shown,       \* what the caller gets to see of it
    outcome,     \* how the call ended
    events,      \* what was reported
    seen         \* history: all that any run found in the input

config == <<op, failOpen, action, strict>>
source == <<prompt, readable>>
evaluation == <<direction, at, found, degraded>>
results == <<inFound, outFound, seen>>
vars == <<config, pc, source, evaluation, results, calls, response, shown, outcome, events>>

Ops == {"evaluate", "chat", "protect", "stream"}
Outcomes == {"none", "returned", "opened", "violation", "error", "cancelled"}
Statuses == {"passed", "flagged", "blocked", "fail_open"}

-----------------------------------------------------------------------------
\* _should_block, and the action of the decorator.
Blocks(f) ==
    \E m \in f : m.blocked \/ action[m.policy] = "block" \/ (op = "protect" /\ strict)

Status(f) == IF Blocks(f) THEN "blocked" ELSE IF f # {} THEN "flagged" ELSE "passed"

\* What is left of the answer r after _apply_redaction of the redactable findings.
Redact(r, f) == {m \in r : ~(m \in f /\ m.verbatim /\ action[m.policy] = "redact")}

\* The text under evaluation, and what the next policy would find in it.
Content == IF direction = "output" THEN response ELSE IF readable THEN prompt ELSE {}
Hits == {m \in Content : m.policy = Policies[at]}

\* What is handed to _safe_report, which never raises; the events of failing open do not
\* list the degraded policies.
Report(status, violations) ==
    events' = Append(events, [status |-> status, violations |-> violations,
                              degraded |-> IF status = "fail_open" THEN {} ELSE degraded])

\* The call returns, or an exception leaves it.
End(how) == pc' = "over" /\ outcome' = how

-----------------------------------------------------------------------------
Init ==
    /\ op \in Ops /\ failOpen \in BOOLEAN /\ action \in Actions
    /\ strict \in BOOLEAN /\ (strict => op = "protect")
    /\ pc = "ready"
    /\ prompt \in SUBSET Matches /\ readable = TRUE
    /\ direction = "input" /\ at = 1 /\ found = {} /\ degraded = {}
    /\ inFound = {} /\ outFound = {} /\ seen = {}
    /\ calls = 0 /\ response = {} /\ shown = {}
    /\ outcome = "none" /\ events = <<>>

\* REDACT cannot be streamed.
Unstreamable == op = "stream" /\ \E p \in ToSet(Policies) : action[p] = "redact"

\* The evaluation of the input begins.  Messages of an unknown shape are an error,
\* or under fail_open an empty text.
Begin ==
    /\ pc = "ready"
    /\ \/ Unstreamable /\ End("error") /\ UNCHANGED readable
       \/ ~Unstreamable /\ pc' = "scanning" /\ UNCHANGED <<readable, outcome>>
       \/ /\ ~Unstreamable /\ op \in {"chat", "stream"}
          /\ readable' = FALSE
          /\ IF failOpen THEN pc' = "scanning" /\ UNCHANGED outcome ELSE End("error")
    /\ UNCHANGED <<config, prompt, evaluation, results, calls, response, shown, events>>

\* The handler around chat for an exception that is not the SDK's own, with all that
\* was found, f: under fail_open the answer at hand, or else a call without a guard.
\* The mutants forget that there is an answer, and what was found.
Mut_CallAgain(f) ==
    IF failOpen
    THEN /\ Report("fail_open", f)
         /\ pc' = "fallback" /\ calls' = calls + 1 /\ UNCHANGED <<outcome, shown>>
    ELSE End("error") /\ UNCHANGED <<calls, events, shown>>
Mut_SayNothing(f) ==
    IF failOpen
    THEN /\ Report("fail_open", {})
         /\ IF direction = "output"
            THEN End("returned") /\ shown' = response /\ UNCHANGED calls
            ELSE pc' = "fallback" /\ calls' = calls + 1 /\ UNCHANGED <<outcome, shown>>
    ELSE End("error") /\ UNCHANGED <<calls, events, shown>>
ChatFails(f) ==
    IF failOpen
    THEN /\ Report("fail_open", f)
         /\ IF direction = "output"
            THEN End("returned") /\ shown' = response /\ UNCHANGED calls
            ELSE pc' = "fallback" /\ calls' = calls + 1 /\ UNCHANGED <<outcome, shown>>
    ELSE End("error") /\ UNCHANGED <<calls, events, shown>>

\* protect goes on without a guard after any exception of the evaluation.
ProtectFails ==
    IF failOpen
    THEN Report("fail_open", {}) /\ pc' = "fallback" /\ calls' = calls + 1 /\ UNCHANGED outcome
    ELSE End("error") /\ UNCHANGED <<calls, events>>

\* An exception leaves the evaluation; what it had found is lost.
EvaluationFails(ownError) ==
    /\ CASE op = "chat" /\ ~ownError -> ChatFails(inFound)
         [] op = "protect" -> ProtectFails /\ UNCHANGED shown
         [] OTHER -> End("error") /\ UNCHANGED <<calls, events, shown>>
    /\ UNCHANGED <<config, source, evaluation, results, response>>

-----------------------------------------------------------------------------
(* An evaluation *)

Running == pc = "scanning" /\ at <= Len(Policies)

\* _resolve_policies raises before the first run: a policy was unregistered, or its
\* constructor fails after a reload.
ResolveFails == Running /\ at = 1 /\ EvaluationFails(FALSE)

\* What a run has found, the findings of the evaluation with it.
Find(hits) ==
    /\ found' = found \cup hits
    /\ seen' = IF direction = "input" THEN seen \cup hits ELSE seen

RunAnswers ==
    /\ Running
    /\ Find(Hits) /\ at' = at + 1
    /\ UNCHANGED <<config, pc, source, direction, degraded, inFound, outFound, calls, response,
                   shown, outcome, events>>

\* A run is late or crashes: what the earlier windows showed that policy stays, the rest
\* of it is skipped, or failing closed it is a PolicyEvaluationError.  The mutants do not
\* remember that it was skipped, or what it had found.
Mut_RunFailsQuietly ==
    /\ Running
    /\ \/ /\ failOpen
          /\ \E hits \in SUBSET Hits : Find(hits)
          /\ at' = at + 1 /\ UNCHANGED degraded
          /\ UNCHANGED <<config, pc, source, direction, inFound, outFound, calls, response,
                         shown, outcome, events>>
       \/ ~failOpen /\ EvaluationFails(TRUE)
Mut_RunFailsEmpty ==
    /\ Running
    /\ \/ /\ failOpen
          /\ seen' \in {seen \cup IF direction = "input" THEN hits ELSE {} : hits \in SUBSET Hits}
          /\ degraded' = degraded \cup {Policies[at]} /\ at' = at + 1
          /\ UNCHANGED <<config, pc, source, direction, found, inFound, outFound, calls,
                         response, shown, outcome, events>>
       \/ ~failOpen /\ EvaluationFails(TRUE)
RunFails ==
    /\ Running
    /\ \/ /\ failOpen
          /\ \E hits \in SUBSET Hits : Find(hits)
          /\ degraded' = degraded \cup {Policies[at]} /\ at' = at + 1
          /\ UNCHANGED <<config, pc, source, direction, inFound, outFound, calls, response,
                         shown, outcome, events>>
       \/ ~failOpen /\ EvaluationFails(TRUE)

\* A policy raises one of the SDK's own exceptions, which are never skipped.
RunRaises == Running /\ EvaluationFails(TRUE)

Evaluated(d) == pc = "scanning" /\ at > Len(Policies) /\ direction = d

-----------------------------------------------------------------------------
(* What follows the evaluation of the input *)

EvaluateReturns ==
    /\ Evaluated("input") /\ op = "evaluate"
    /\ inFound' = found
    /\ Report(Status(found), found)
    /\ End("returned")
    /\ UNCHANGED <<config, source, evaluation, outFound, seen, calls, response, shown>>

InputBlocked ==
    /\ Evaluated("input") /\ op # "evaluate" /\ Blocks(found)
    /\ inFound' = found
    /\ Report("blocked", found)
    /\ End("violation")
    /\ UNCHANGED <<config, source, evaluation, outFound, seen, calls, response, shown>>

\* The provider, or the protected function, is called.
InputPasses ==
    /\ Evaluated("input") /\ op # "evaluate" /\ ~Blocks(found)
    /\ inFound' = found
    /\ pc' = "calling" /\ calls' = calls + 1
    /\ UNCHANGED <<config, source, evaluation, outFound, seen, response, shown, outcome, events>>

-----------------------------------------------------------------------------
(* The provider or the function *)

Answers(text) ==
    /\ pc = "calling"
    /\ response' = text
    /\ \/ /\ op = "chat"
          /\ direction' = "output" /\ at' = 1 /\ found' = {} /\ pc' = "scanning"
          /\ UNCHANGED <<degraded, shown, outcome, events>>
       \/ /\ op = "protect"
          /\ Report(Status(inFound), inFound)
          /\ End("returned") /\ shown' = text
          /\ UNCHANGED evaluation
       \/ /\ op = "stream"
          /\ End("opened")
          /\ UNCHANGED <<evaluation, shown, events>>
    /\ UNCHANGED <<config, source, results, calls>>

AnswersUnguarded(text) ==
    /\ pc = "fallback"
    /\ response' = text /\ shown' = text
    /\ End("returned")
    /\ UNCHANGED <<config, source, evaluation, results, calls, events>>

\* An exception of the provider or of the function.
CallRaises ==
    /\ \/ pc = "calling" /\ op = "chat" /\ ChatFails(inFound)
       \/ pc = "calling" /\ op # "chat" /\ End("error") /\ UNCHANGED <<calls, shown, events>>
       \/ pc = "fallback" /\ End("error") /\ UNCHANGED <<calls, shown, events>>
    /\ UNCHANGED <<config, source, evaluation, results, response>>

Cancel ==
    /\ pc \in {"ready", "calling", "fallback"} \/ Running
    /\ End("cancelled")
    /\ UNCHANGED <<config, source, evaluation, results, calls, response, shown, events>>

-----------------------------------------------------------------------------
(* What follows the evaluation of the answer *)

AnswerBlocked ==
    /\ Evaluated("output") /\ Blocks(found)
    /\ outFound' = found
    /\ Report("blocked", inFound \cup found)
    /\ End("violation")
    /\ UNCHANGED <<config, source, evaluation, inFound, seen, calls, response, shown>>

AnswerPasses ==
    /\ Evaluated("output") /\ ~Blocks(found)
    /\ outFound' = found
    /\ shown' = Redact(response, found)
    /\ Report(Status(inFound \cup found), inFound \cup found)
    /\ End("returned")
    /\ UNCHANGED <<config, source, evaluation, inFound, seen, calls, response>>

\* _extract_usage meets a token count that is not a number, before either of them.
UsageFails ==
    /\ Evaluated("output")
    /\ outFound' = found
    /\ ChatFails(inFound \cup found)
    /\ UNCHANGED <<config, source, evaluation, inFound, seen, response>>

-----------------------------------------------------------------------------
Next ==
    \/ Begin \/ Cancel
    \/ ResolveFails \/ RunAnswers \/ RunFails \/ RunRaises
    \/ EvaluateReturns \/ InputBlocked \/ InputPasses
    \/ \E text \in SUBSET Matches : Answers(text) \/ AnswersUnguarded(text)
    \/ CallRaises
    \/ AnswerBlocked \/ AnswerPasses \/ UsageFails

Spec == Init /\ [][Next]_vars

-----------------------------------------------------------------------------
TypeOK ==
    /\ op \in Ops /\ failOpen \in BOOLEAN /\ action \in Actions /\ strict \in BOOLEAN
    /\ pc \in {"ready", "scanning", "calling", "fallback", "over"}
    /\ prompt \subseteq Matches /\ readable \in BOOLEAN
    /\ direction \in {"input", "output"} /\ at \in 1 .. Len(Policies) + 1
    /\ found \subseteq Matches /\ seen \subseteq Matches
    /\ inFound \subseteq Matches /\ outFound \subseteq Matches
    /\ degraded \subseteq ToSet(Policies)
    /\ calls \in 0 .. 2
    /\ response \subseteq Matches /\ shown \subseteq Matches
    /\ outcome \in Outcomes /\ (pc = "over" <=> outcome # "none")
    /\ events \in Seq([status : Statuses, violations : SUBSET Matches,
                       degraded : SUBSET ToSet(Policies)])

\* "a detected block is committed before reporting is attempted": an input in which any
\* run found what blocks reaches neither provider nor function, though that policy or a
\* later one fails; unless protect() went on without a guard after an exception of the
\* SDK's own, and said so.
BlockedInputStays ==
    op # "evaluate" /\ Blocks(seen) =>
        calls = 0 \/ (op = "protect" /\ events # <<>> /\ events[1].status = "fail_open")

\* "fail-open must not re-invoke the provider": an answer once received is the one
\* that is used, and only a chat whose call failed calls again.
PaidOnce ==
    /\ direction = "output" => calls = 1
    /\ calls = 2 => op = "chat" /\ failOpen /\ events # <<>> /\ events[1].status = "fail_open"

\* One event per call at most, one for each that returned or was blocked, with all
\* that was found until then and the status that follows from it, or fail_open.
OneTrueEvent ==
    /\ Len(events) <= 1
    /\ outcome \in {"returned", "violation"} => events # <<>>
    /\ events # <<>> =>
          /\ events[1].violations = inFound \cup outFound
          /\ events[1].status \in {"fail_open", Status(inFound \cup outFound)}

\* "not enforcing is visible in the audit trail": when a call returned and its event
\* is not fail_open, then what a policy would have found was found or the policy is
\* listed as degraded, nothing found blocks, and what is to be redacted is.
Enforced ==
    LET event == events[1]
    IN /\ op # "evaluate" => ~Blocks(inFound \cup outFound)
       /\ readable => \A m \in prompt : m \in inFound \/ m.policy \in event.degraded
       /\ op = "chat" => \A m \in response :
             \/ m \in outFound /\ (action[m.policy] = "redact" /\ m.verbatim => m \notin shown)
             \/ m.policy \in event.degraded
BypassesAreEvents ==
    outcome = "returned" /\ events # <<>> /\ events[1].status # "fail_open" => Enforced

-----------------------------------------------------------------------------
(* What the repository's texts claim and the code does not do *)

\* "guard.chat() (input and output): blocking violations enforced? Yes" (README.md:560):
\* an answer found to block is not returned.
BlockedAnswerStays == op = "chat" /\ outcome = "returned" => ~Blocks(outFound)

\* "@guard.protect() / SyncGuard.protect(): Yes" (README.md:562): a function is not run
\* on arguments in which a run found what blocks.
ProtectEnforces == op = "protect" /\ Blocks(seen) => calls = 0
=============================================================================
