--------------------------- MODULE LangChainCalls ---------------------------
(***************************************************************************)
(* One LLM call watched by the LangChain callback (integrations/           *)
(* langchain.py): on_llm_start or on_chat_model_start, the call itself,    *)
(* on_llm_end or on_llm_error.                                             *)
(*                                                                         *)
(* Two runs of one callback share the reporter, its loop (LangChainLife)   *)
(* and the pool, never a finding, so one run is modelled.  A handler       *)
(* blocks its thread while a policy runs on the pool: a step is the code   *)
(* between two such waits.  A text is the set of matches policies would    *)
(* find in it.  LangChain is external: an exception that leaves            *)
(* on_llm_start stops the call, one that leaves on_llm_end its answer.     *)
(***************************************************************************)
EXTENDS Naturals, Sequences, SequencesExt

CONSTANTS
    Policies,    \* the enabled policies, in order
    Matches,     \* what texts may contain
    Actions      \* configurations: the effective action of each policy

ASSUME CallbackAssumption ==
    /\ Policies \in Seq(ToSet(Policies))
    /\ Matches \subseteq [policy : ToSet(Policies), blocked : BOOLEAN]
    /\ Actions \subseteq [ToSet(Policies) -> {"block", "log"}]

VARIABLES
    failOpen,    \* config.fail_open
    hook,        \* on_violation: none, returns, raises, or raises a ViolationError
    action,      \* _effective_action
    pc,          \* ready, scanning, calling, over
    direction,   \* of the current evaluation
    text,        \* its content
    at,          \* its next policy
    found,       \* its findings
    degraded,    \* its policies that could not be evaluated
    judged,      \* findings and degraded policies of the evaluations that ended
    outcome,     \* how the run ended
    events       \* what was reported

config == <<failOpen, hook, action>>
evaluation == <<direction, text, at, found, degraded>>
vars == <<config, pc, evaluation, judged, outcome, events>>

Hooks == {"none", "returns", "raises", "vetoes"}
Directions == {"input", "output"}
Unjudged == [findings |-> {}, degraded |-> {}]

-----------------------------------------------------------------------------
\* _should_block; the mutant looks at the configured action only.
Mut_OnlyByAction(f) == \E m \in f : action[m.policy] = "block"
Blocks(f) == \E m \in f : m.blocked \/ action[m.policy] = "block"

Status(f) == IF Blocks(f) THEN "blocked" ELSE IF f # {} THEN "flagged" ELSE "passed"

Hits == {m \in text : m.policy = Policies[at]}

\* _safe_enqueue, which never raises.
Report(status, f, d) ==
    events' = Append(events, [direction |-> direction, status |-> status,
                              violations |-> f, degraded |-> d])

End(how) == pc' = "over" /\ outcome' = how

-----------------------------------------------------------------------------
Init ==
    /\ failOpen \in BOOLEAN /\ hook \in Hooks /\ action \in Actions
    /\ pc = "ready" /\ direction = "input"
    /\ text = {} /\ at = 1 /\ found = {} /\ degraded = {}
    /\ judged = [d \in Directions |-> Unjudged]
    /\ outcome = "none" /\ events = <<>>

Evaluate(d, t) ==
    /\ pc' = "scanning" /\ direction' = d /\ text' = t
    /\ at' = 1 /\ found' = {} /\ degraded' = {}

\* on_llm_start, on_chat_model_start: the prompts joined.
Start ==
    /\ pc = "ready"
    /\ \E t \in SUBSET Matches : Evaluate("input", t)
    /\ UNCHANGED <<config, judged, outcome, events>>

RunAnswers ==
    /\ pc = "scanning" /\ at <= Len(Policies)
    /\ found' = found \cup Hits
    /\ at' = at + 1
    /\ UNCHANGED <<config, pc, direction, text, degraded, judged, outcome, events>>

\* The policy is unknown, crashes, or exceeds its budget.  Outside fail_open the
\* error leaves the handler and nothing is reported.
RunFails ==
    /\ pc = "scanning" /\ at <= Len(Policies)
    /\ IF failOpen
       THEN at' = at + 1 /\ degraded' = degraded \cup {Policies[at]} /\ UNCHANGED <<pc, outcome>>
       ELSE End("error") /\ UNCHANGED <<at, degraded>>
    /\ UNCHANGED <<config, direction, text, found, judged, events>>

\* What follows an evaluation that let the text through.
GoOn == IF direction = "input" THEN pc' = "calling" /\ UNCHANGED outcome ELSE End("answered")

\* The hook is told of the findings before they are reported.
HookRaises == found # {} /\ hook \in {"raises", "vetoes"}

\* _handle_input and on_llm_end once every policy has run.  An exception of the hook
\* is an error of the SDK: under fail_open the input goes on with an event that lists
\* no finding, and the answer goes on with no event.
HookFails ==
    /\ HookRaises
    /\ CASE hook = "vetoes" -> End("violation") /\ UNCHANGED events
         [] hook = "raises" /\ ~failOpen -> End("error") /\ UNCHANGED events
         [] hook = "raises" /\ failOpen ->
              /\ GoOn
              /\ IF direction = "input" THEN Report("fail_open", {}, {}) ELSE UNCHANGED events

\* The mutant raises before it reports, as if the record could follow the block.
Mut_RaiseFirst ==
    /\ ~HookRaises
    /\ IF Blocks(found)
       THEN End("violation") /\ UNCHANGED events
       ELSE GoOn /\ Report(Status(found), found, degraded)
Enforce ==
    /\ ~HookRaises
    /\ Report(Status(found), found, degraded)
    /\ IF Blocks(found) THEN End("violation") ELSE GoOn

Decide ==
    /\ pc = "scanning" /\ at > Len(Policies)
    /\ judged' = [judged EXCEPT ![direction] = [findings |-> found, degraded |-> degraded]]
    /\ HookFails \/ Enforce
    /\ UNCHANGED <<config, evaluation>>

\* on_llm_end: an answer without text is not evaluated.
Answer ==
    /\ pc = "calling"
    /\ \/ \E t \in SUBSET Matches : Evaluate("output", t) /\ UNCHANGED outcome
       \/ End("silent") /\ UNCHANGED evaluation
    /\ UNCHANGED <<config, judged, events>>

\* on_llm_error
LLMFails ==
    /\ pc = "calling" /\ End("llm_error")
    /\ UNCHANGED <<config, evaluation, judged, events>>

Next == Start \/ RunAnswers \/ RunFails \/ Decide \/ Answer \/ LLMFails

Spec == Init /\ [][Next]_vars

-----------------------------------------------------------------------------
\* One type invariant.  An event is one of a list short enough to be enumerated.
Judgement == [findings : SUBSET Matches, degraded : SUBSET ToSet(Policies)]
Event == [direction : Directions, status : {"passed", "flagged", "blocked", "fail_open"},
          violations : SUBSET Matches, degraded : SUBSET ToSet(Policies)]

TypeOK ==
    /\ failOpen \in BOOLEAN /\ hook \in Hooks /\ action \in Actions
    /\ pc \in {"ready", "scanning", "calling", "over"} /\ direction \in Directions
    /\ text \subseteq Matches /\ at \in 1 .. Len(Policies) + 1
    /\ found \subseteq Matches /\ degraded \subseteq ToSet(Policies)
    /\ judged \in [Directions -> Judgement]
    /\ outcome \in {"none", "answered", "silent", "violation", "error", "llm_error"}
    /\ events \in Seq(Event)

-----------------------------------------------------------------------------
\* What got past the callback: the prompt reached the LLM, the answer the caller.
Passed(d) == IF d = "input" THEN pc = "calling" \/ direction = "output"
                                 \/ outcome \in {"silent", "llm_error"}
             ELSE outcome = "answered"

\* A prompt or an answer in which a blocking finding was made never gets past the
\* callback, whatever the other policies did, unless the application's own hook
\* raised under fail_open (_handle_input and on_llm_end, langchain.py:324-361, 405-463).
BlockedStays ==
    \A d \in Directions : \A m \in judged[d].findings :
        Passed(d) /\ (m.blocked \/ action[m.policy] = "block") => failOpen /\ hook = "raises"

EventsOf(d) == {i \in 1 .. Len(events) : events[i].direction = d}

\* An event of a direction, if any, is the only one, and tells what was found and what
\* could not be looked at; only a bypass of the hook tells less, and says fail_open.
Truthful(d) ==
    \A i \in EventsOf(d) :
        /\ EventsOf(d) = {i}
        /\ IF events[i].status = "fail_open"
           THEN d = "input" /\ hook = "raises" /\ judged[d].findings # {} /\ Passed(d)
           ELSE /\ events[i].violations = judged[d].findings
                /\ events[i].degraded = judged[d].degraded
                /\ events[i].status = "blocked" <=> ~Passed(d)

\* Every prompt that reached the LLM and every text a policy blocked left an event,
\* one that tells the truth; so did every answer that was read, except under a hook
\* that raised ("Audit record first: a blocked input must leave a trace", langchain.py:337).
Traced ==
    \A d \in Directions :
        /\ Truthful(d)
        /\ d = "input" /\ Passed(d) => EventsOf(d) # {}
        /\ d = "output" /\ Passed(d) /\ hook # "raises" => EventsOf(d) # {}
        /\ outcome = "violation" /\ direction = d /\ hook # "vetoes" => EventsOf(d) # {}
=============================================================================
