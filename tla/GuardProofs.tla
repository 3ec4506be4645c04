----------------------------- MODULE GuardProofs -----------------------------
(***************************************************************************)
(* Theorems about GuardCalls, for every list of policies, every            *)
(* configuration of their actions and all texts.                           *)
(***************************************************************************)
EXTENDS GuardCalls, TLAPS

Bypass(f) == [status |-> "fail_open", violations |-> f, degraded |-> {}]

Scan ==
    pc = "scanning" =>
        /\ outcome = "none" /\ events = <<>> /\ outFound = {}
        /\ direction = "input" => calls = 0 /\ inFound = {}
        /\ direction = "output" => op = "chat" /\ calls = 1 /\ ~Blocks(inFound)

\* What is known at each point of a call that is not over.
Stage ==
    /\ pc \in {"ready", "scanning", "calling", "fallback", "over"}
    /\ direction \in {"input", "output"} /\ at \in Nat \ {0}
    /\ pc = "ready" =>
          /\ outcome = "none" /\ events = <<>> /\ direction = "input" /\ at = 1
          /\ calls = 0 /\ inFound = {} /\ outFound = {}
    /\ Scan
    /\ pc = "calling" =>
          /\ outcome = "none" /\ events = <<>> /\ direction = "input"
          /\ op # "evaluate" /\ calls = 1 /\ outFound = {} /\ ~Blocks(inFound)
    /\ pc = "fallback" =>
          /\ outcome = "none" /\ events = <<Bypass(inFound)>> /\ direction = "input"
          /\ op \in {"chat", "protect"} /\ failOpen /\ outFound = {} /\ ~Blocks(inFound)
          /\ calls = 1 \/ (calls = 2 /\ op = "chat")

\* What the policies that ran, or run later, leave nothing of.
Searched ==
    /\ pc = "scanning" => \A m \in Content :
          \/ m \in found \/ m.policy \in degraded
          \/ \E j \in at .. Len(Policies) : m.policy = Policies[j]
    /\ pc = "calling" \/ (pc = "scanning" /\ direction = "output") =>
          (readable => \A m \in prompt : m \in inFound \/ m.policy \in degraded)

Kept == /\ prompt \subseteq Matches /\ response \subseteq Matches

Promise == PaidOnce /\ OneTrueEvent /\ BypassesAreEvents

GuardInv == Stage /\ Searched /\ Kept /\ (pc = "over" => Promise)

-----------------------------------------------------------------------------
LEMMA FirstOf ==
    ASSUME NEW e
    PROVE  Append(<<>>, e) = <<e>> /\ <<e>>[1] = e /\ Len(<<e>>) = 1 /\ <<e>> # <<>>
OBVIOUS

\* Before a call is over its promises hold for want of anything to break them.
LEMMA PromiseEarly == ASSUME GuardInv PROVE Promise
<1>1. CASE pc = "over"
  BY <1>1 DEF GuardInv
<1>2. CASE pc \in {"ready", "scanning", "calling"}
  BY <1>2 DEF GuardInv, Stage, Scan, Promise, PaidOnce, OneTrueEvent,
              BypassesAreEvents, Blocks
<1>3. CASE pc = "fallback"
  <2>1. events[1] = Bypass(inFound) /\ Len(events) = 1 /\ events # <<>>
    BY <1>3, FirstOf DEF GuardInv, Stage
  <2>2. events[1].status = "fail_open" /\ events[1].violations = inFound \cup outFound
    BY <1>3, <2>1 DEF Bypass, GuardInv, Stage
  <2> QED BY <1>3, <2>1, <2>2 DEF GuardInv, Stage, Promise, PaidOnce,
              OneTrueEvent, BypassesAreEvents
<1> QED BY <1>1, <1>2, <1>3 DEF GuardInv, Stage

LEMMA InitGuard == Init => GuardInv
<1> SUFFICES ASSUME Init PROVE GuardInv
  OBVIOUS
<1>1. Stage
  BY DEF Init, Stage, Scan
<1>2. Searched /\ Kept /\ pc # "over"
  BY DEF Init, Searched, Kept
<1> QED BY <1>1, <1>2 DEF GuardInv

\* Every policy that may find anything is one that will run.
LEMMA AllRun ==
    ASSUME NEW m \in Matches
    PROVE  \E j \in 1 .. Len(Policies) : m.policy = Policies[j]
BY GuardAssumption DEF Match, ToSet

LEMMA BeginStep == ASSUME GuardInv, Begin PROVE GuardInv'
<1>1. /\ pc = "ready" /\ outcome = "none" /\ events = <<>> /\ direction = "input" /\ at = 1
      /\ calls = 0 /\ inFound = {} /\ outFound = {} /\ prompt \subseteq Matches
      /\ response \subseteq Matches
  BY DEF Begin, GuardInv, Stage, Kept
<1>2. UNCHANGED <<op, failOpen, action, strict, prompt, direction, at, found, degraded, inFound,
                  outFound, calls, response, shown, events>>
  BY DEF Begin, config, evaluation, results
<1>3. CASE pc' = "over"
  <2>1. outcome' = "error"
    BY <1>3, <1>1 DEF Begin, End
  <2>2. Promise'
    BY <2>1, <1>1, <1>2 DEF Promise, PaidOnce, OneTrueEvent,
                            BypassesAreEvents, Blocks
  <2>3. Stage' /\ Searched' /\ Kept'
    BY <1>1, <1>2, <1>3 DEF Stage, Scan, Searched, Kept
  <2> QED BY <2>2, <2>3 DEF GuardInv
<1>4. CASE pc' = "scanning"
  <2>1. outcome' = "none"
    BY <1>1, <1>4 DEF Begin, End
  <2>2. Stage' /\ Kept'
    BY <1>1, <1>2, <1>4, <2>1 DEF Stage, Scan, Kept
  <2>3. Content' \subseteq Matches
    BY <1>1, <1>2 DEF Content
  <2>4. Searched'
    BY <1>1, <1>2, <1>4, <2>3, AllRun DEF Searched
  <2> QED BY <1>4, <2>2, <2>4 DEF GuardInv
<1> QED BY <1>3, <1>4 DEF Begin, End

\* A call that is over is at no other point.
LEMMA OverStage ==
    ASSUME GuardInv, pc' = "over", UNCHANGED <<direction, at>> PROVE Stage' /\ Searched'
<1>1. direction' \in {"input", "output"} /\ at' \in Nat \ {0}
  BY DEF GuardInv, Stage
<1>2. Stage'
  BY <1>1 DEF Stage, Scan
<1>3. Searched'
  BY DEF Searched
<1> QED BY <1>2, <1>3

\* A call that ends without an event and without having returned keeps its promises.
LEMMA QuietEnd ==
    ASSUME GuardInv, pc' = "over", outcome' \in {"error", "cancelled", "opened"},
           UNCHANGED <<op, failOpen, action, strict, prompt, direction, at, inFound, outFound,
                       calls, events>>,
           response' \subseteq Matches
    PROVE  GuardInv'
<1>1. Promise
  BY PromiseEarly
<1>2. Promise'
  BY <1>1 DEF Promise, PaidOnce, OneTrueEvent, BypassesAreEvents, Blocks,
              Status
<1>3. Stage' /\ Searched' /\ Kept'
  BY DEF GuardInv, Stage, Scan, Searched, Kept
<1> QED BY <1>2, <1>3 DEF GuardInv

LEMMA CancelStep == ASSUME GuardInv, Cancel PROVE GuardInv'
BY QuietEnd DEF Cancel, End, config, source, evaluation, results, GuardInv, Kept

\* What follows an event that says fail_open: the answer at hand, or a second try.
LEMMA FailOpenEvent ==
    ASSUME events = <<>>, NEW f, Report("fail_open", f)
    PROVE  /\ events' = <<Bypass(f)>> /\ events' # <<>> /\ Len(events') = 1
           /\ events'[1].status = "fail_open" /\ events'[1].violations = f
BY FirstOf DEF Report, Bypass

\* The three ways ChatFails ends.
LEMMA ChatFailsStep ==
    ASSUME GuardInv, op = "chat", pc = "scanning" \/ pc = "calling",
           NEW f, ChatFails(f), f = inFound \cup outFound',
           direction = "input" => outFound' = {} /\ calls \in {0, 1},
           UNCHANGED <<config, source, evaluation, inFound, response>>
    PROVE  GuardInv'
<1>1. /\ outcome = "none" /\ events = <<>> /\ ~Blocks(inFound)
      /\ direction \in {"input", "output"}
      /\ direction = "output" => calls = 1
      /\ pc = "calling" => calls = 1
      /\ pc = "scanning" /\ direction = "input" => calls = 0
  BY DEF GuardInv, Stage, Scan, Blocks
<1>2. UNCHANGED <<op, failOpen, action, strict, prompt, readable, direction, at, inFound,
                  response>>
  BY DEF config, source, evaluation
<1>3. Kept' /\ at' \in Nat \ {0} /\ ~Blocks(inFound)'
  BY <1>1, <1>2 DEF GuardInv, Stage, Kept, Blocks
<1>4. CASE ~failOpen
  <2>1. pc' = "over" /\ outcome' = "error" /\ UNCHANGED <<calls, events>>
    BY <1>4 DEF ChatFails, End
  <2>2. Stage' /\ Searched'
    BY <1>2, <2>1, OverStage
  <2>3. BypassesAreEvents'
    BY <1>3, <2>1 DEF BypassesAreEvents
  <2>4. calls' = 0 \/ calls' = 1
    BY <1>1, <2>1
  <2>5. PaidOnce'
    BY <1>1, <1>2, <2>1, <2>4 DEF PaidOnce
  <2>6. OneTrueEvent'
    BY <1>1, <2>1 DEF OneTrueEvent
  <2> QED BY <1>3, <2>2, <2>3, <2>5, <2>6 DEF GuardInv, Promise
<1>5. CASE failOpen /\ direction = "output"
  <2>1. pc' = "over" /\ outcome' = "returned" /\ UNCHANGED calls /\ Report("fail_open", f)
    BY <1>5 DEF ChatFails, End
  <2>2. /\ events' # <<>> /\ Len(events') = 1
        /\ events'[1].status = "fail_open" /\ events'[1].violations = f
    BY <1>1, <2>1, FailOpenEvent
  <2>3. Stage' /\ Searched'
    BY <1>2, <2>1, OverStage
  <2>4. Promise'
    BY <1>1, <1>2, <1>3, <1>5, <2>1, <2>2 DEF Promise, PaidOnce,
                                              OneTrueEvent, BypassesAreEvents
  <2> QED BY <1>3, <2>3, <2>4 DEF GuardInv
<1>6. CASE failOpen /\ direction = "input"
  <2>1. /\ pc' = "fallback" /\ calls' = calls + 1 /\ UNCHANGED outcome
        /\ Report("fail_open", f)
    BY <1>6 DEF ChatFails
  <2>2. events' = <<Bypass(f)>> /\ f = inFound' /\ outFound' = {}
    BY <1>1, <1>2, <1>6, <2>1, FailOpenEvent
  <2>3. calls' = 1 \/ calls' = 2
    BY <1>6, <2>1
  <2>4. Stage'
    BY <1>1, <1>2, <1>3, <1>6, <2>1, <2>2, <2>3 DEF Stage, Scan
  <2>5. Searched' /\ pc' # "over"
    BY <2>1 DEF Searched
  <2> QED BY <1>3, <2>4, <2>5 DEF GuardInv
<1>7. direction = "input" \/ direction = "output"
  BY <1>1
<1> QED BY <1>4, <1>5, <1>6, <1>7

LEMMA EvaluationFailsStep ==
    ASSUME GuardInv, Running, NEW own \in BOOLEAN, EvaluationFails(own) PROVE GuardInv'
<1>1. /\ pc = "scanning" /\ outcome = "none" /\ events = <<>> /\ outFound = {}
      /\ direction \in {"input", "output"} /\ ~Blocks(inFound)
      /\ direction = "input" => calls = 0 /\ inFound = {}
      /\ direction = "output" => op = "chat" /\ calls = 1
  BY DEF GuardInv, Stage, Scan, Running, Blocks
<1>2. /\ UNCHANGED <<config, source, evaluation, results, response>>
      /\ UNCHANGED <<op, failOpen, action, strict, prompt, readable, direction, at, inFound,
                     outFound, response>>
  BY DEF EvaluationFails, config, source, evaluation, results
<1>3. CASE op = "chat" /\ ~own
  <2>1. ChatFails(inFound)
    BY <1>3 DEF EvaluationFails
  <2> QED BY <1>1, <1>2, <1>3, <2>1, ChatFailsStep
<1>4. CASE op = "protect" /\ failOpen
  <2>1. /\ Report("fail_open", {}) /\ pc' = "fallback" /\ calls' = calls + 1
        /\ UNCHANGED outcome
    BY <1>4 DEF EvaluationFails, ProtectFails
  <2>2. direction = "input" /\ inFound' = {} /\ calls' = 1
    BY <1>1, <1>2, <1>4, <2>1
  <2>3. events' = <<Bypass({})>>
    BY <1>1, <2>1, FailOpenEvent
  <2>4. ~Blocks(inFound)'
    BY <2>2 DEF Blocks
  <2>5. events' = <<Bypass(inFound')>>
    BY <2>2, <2>3
  <2>6. at' \in Nat \ {0}
    BY <1>2 DEF GuardInv, Stage
  <2>7. /\ outcome' = "none" /\ direction' = "input" /\ outFound' = {}
        /\ op' = "protect" /\ failOpen'
    BY <1>1, <1>2, <1>4, <2>1, <2>2
  <2>8. Stage'
    BY <2>1, <2>2, <2>4, <2>5, <2>6, <2>7 DEF Stage, Scan
  <2>9. Searched' /\ Kept' /\ pc' # "over"
    BY <1>2, <2>1 DEF Searched, GuardInv, Kept
  <2> QED BY <2>8, <2>9 DEF GuardInv
<1>5. CASE ~(op = "chat" /\ ~own) /\ ~(op = "protect" /\ failOpen)
  <2>1. pc' = "over" /\ outcome' = "error" /\ UNCHANGED <<calls, events>>
    BY <1>5 DEF EvaluationFails, ProtectFails, End
  <2> QED BY <1>2, <2>1, QuietEnd DEF GuardInv, Kept
<1> QED BY <1>3, <1>4, <1>5

\* One policy is done with: its findings are in, or it is listed as degraded.
LEMMA RunStep ==
    ASSUME GuardInv, Running, NEW more \in SUBSET Hits,
           found' = found \cup more, at' = at + 1,
           \/ more = Hits /\ UNCHANGED degraded
           \/ degraded' = degraded \cup {Policies[at]},
           UNCHANGED <<config, pc, source, direction, inFound, outFound, calls, response, shown,
                       outcome, events>>
    PROVE  GuardInv'
<1>1. /\ pc = "scanning" /\ pc' = "scanning" /\ at \in Nat \ {0} /\ Stage /\ Scan /\ Kept
      /\ Searched
  BY DEF Running, GuardInv, Stage
<1>2. UNCHANGED <<op, failOpen, action, strict, prompt, readable, direction, inFound, outFound,
                  response, calls, outcome, events>>
  BY DEF config, source
<1>3. at' \in Nat \ {0}
  BY <1>1
<1>4. Stage' /\ Kept'
  BY <1>1, <1>2, <1>3 DEF Stage, Scan, Kept, Blocks
<1>5. Content' = Content
  BY <1>2 DEF Content
<1>6. ASSUME NEW m \in Content
      PROVE  \/ m \in found' \/ m.policy \in degraded'
             \/ \E j \in at' .. Len(Policies) : m.policy = Policies[j]
  <2>1. CASE m \in found \/ m.policy \in degraded
    BY <2>1
  <2>2. CASE m.policy = Policies[at]
    BY <2>2 DEF Hits
  <2>3. ASSUME NEW j \in at .. Len(Policies), m.policy = Policies[j], j # at
        PROVE  j \in at' .. Len(Policies)
    <3> DEFINE n == Len(Policies)
    <3>1. n \in Nat
      BY GuardAssumption
    <3> HIDE DEF n
    <3>2. j \in at .. n /\ j \in at' .. n
      BY <1>1, <2>3, <3>1 DEF n
    <3> QED BY <3>2 DEF n
  <2> QED BY <1>1, <2>1, <2>2, <2>3 DEF Searched
<1>7. Searched'
  BY <1>1, <1>2, <1>5, <1>6 DEF Searched
<1> QED BY <1>1, <1>4, <1>7 DEF GuardInv

LEMMA RunsStep ==
    ASSUME GuardInv, ResolveFails \/ RunAnswers \/ RunFails \/ RunRaises PROVE GuardInv'
<1>1. CASE ResolveFails
  BY <1>1, EvaluationFailsStep DEF ResolveFails
<1>2. CASE RunAnswers
  BY <1>2, RunStep DEF RunAnswers, Find
<1>3. CASE RunFails
  <2>1. CASE ~failOpen /\ EvaluationFails(TRUE)
    BY <1>3, <2>1, EvaluationFailsStep DEF RunFails
  <2>2. CASE failOpen
    <3>1. PICK hits \in SUBSET Hits : found' = found \cup hits
      BY <1>3, <2>2 DEF RunFails, Find
    <3> QED BY <1>3, <2>2, <3>1, RunStep DEF RunFails
  <2> QED BY <1>3, <2>1, <2>2 DEF RunFails
<1>4. CASE RunRaises
  BY <1>4, EvaluationFailsStep DEF RunRaises
<1> QED BY <1>1, <1>2, <1>3, <1>4

\* When no run is left, a policy has found what there is or is degraded.
LEMMA AllSearched ==
    ASSUME GuardInv, NEW d, Evaluated(d)
    PROVE  \A m \in Content : m \in found \/ m.policy \in degraded
<1> DEFINE n == Len(Policies)
<1>1. n \in Nat
  BY GuardAssumption
<1>2. at > n /\ at \in Nat /\ pc = "scanning"
  BY DEF Evaluated, GuardInv, Stage
<1>3. \A m \in Content : \/ m \in found \/ m.policy \in degraded
                         \/ \E j \in at .. n : m.policy = Policies[j]
  BY <1>2 DEF GuardInv, Searched
<1> HIDE DEF n
<1>4. at .. n = {}
  BY <1>1, <1>2
<1> QED BY <1>3, <1>4

LEMMA EventOf ==
    ASSUME events = <<>>, NEW s, s # "fail_open", NEW f, Report(s, f)
    PROVE  /\ events' # <<>> /\ Len(events') = 1
           /\ events'[1].status = s /\ events'[1].violations = f
           /\ events'[1].degraded = degraded
<1> DEFINE e == [status |-> s, violations |-> f, degraded |-> degraded]
<1>1. events' = <<e>>
  BY FirstOf DEF Report
<1>2. events'[1] = e /\ Len(events') = 1 /\ events' # <<>>
  BY <1>1, FirstOf
<1> QED BY <1>2

\* evaluate, an input that blocks, an input that passes.
LEMMA InputStep ==
    ASSUME GuardInv, EvaluateReturns \/ InputBlocked \/ InputPasses PROVE GuardInv'
<1>1. /\ Evaluated("input") /\ pc = "scanning" /\ direction = "input" /\ calls = 0
      /\ outcome = "none" /\ events = <<>> /\ outFound = {} /\ inFound' = found
  BY DEF EvaluateReturns, InputBlocked, InputPasses, Evaluated, GuardInv, Stage, Scan
<1>2. UNCHANGED <<op, failOpen, action, strict, prompt, readable, direction, at, found, degraded,
                  outFound, response, shown>>
  BY DEF EvaluateReturns, InputBlocked, InputPasses, config, source, evaluation
<1>3. readable => \A m \in prompt : m \in found \/ m.policy \in degraded
  BY <1>1, AllSearched DEF Content
<1>4. Kept' /\ at' \in Nat \ {0}
  BY <1>2 DEF GuardInv, Kept, Stage
<1>5. Blocks(found)' = Blocks(found) /\ Blocks(inFound)' = Blocks(found)
  BY <1>1, <1>2 DEF Blocks
<1>6. CASE InputPasses
  <2>1. pc' = "calling" /\ calls' = 1 /\ UNCHANGED <<outcome, events>> /\ op # "evaluate"
        /\ ~Blocks(found)
    BY <1>1, <1>6 DEF InputPasses
  <2>2. Stage'
    BY <1>1, <1>2, <1>4, <1>5, <2>1 DEF Stage, Scan
  <2>3. Searched'
    BY <1>1, <1>2, <1>3, <2>1 DEF Searched
  <2> QED BY <1>4, <2>1, <2>2, <2>3 DEF GuardInv
<1>7. CASE InputBlocked \/ EvaluateReturns
  <2>1. /\ pc' = "over" /\ UNCHANGED calls /\ Report(Status(found), found)
        /\ \/ op # "evaluate" /\ outcome' = "violation"
           \/ op = "evaluate" /\ outcome' = "returned"
    BY <1>7 DEF InputBlocked, EvaluateReturns, End, Status
  <2>2. Status(found) # "fail_open"
    BY DEF Status
  <2>3. /\ events' # <<>> /\ Len(events') = 1
        /\ events'[1].status = Status(found) /\ events'[1].violations = found
        /\ events'[1].degraded = degraded
    BY <1>1, <2>1, <2>2, EventOf
  <2>4. (inFound \cup outFound)' = found
    BY <1>1, <1>2
  <2>5. Status(inFound \cup outFound)' = Status(found)
    BY <1>2, <2>4 DEF Status, Blocks
  <2>6. PaidOnce'
    BY <1>1, <1>2, <2>1 DEF PaidOnce
  <2>7. OneTrueEvent'
    BY <2>3, <2>4, <2>5 DEF OneTrueEvent
  <2>8. BypassesAreEvents'
    BY <1>1, <1>2, <1>3, <2>1, <2>3 DEF BypassesAreEvents, Enforced
  <2>9. Stage' /\ Searched'
    BY <1>2, <2>1, OverStage
  <2> QED BY <1>4, <2>6, <2>7, <2>8, <2>9 DEF GuardInv, Promise
<1> QED BY <1>6, <1>7

LEMMA AnswersStep ==
    ASSUME GuardInv, NEW text \in SUBSET Matches, Answers(text) PROVE GuardInv'
<1>1. /\ pc = "calling" /\ direction = "input" /\ calls = 1 /\ op # "evaluate"
      /\ outcome = "none" /\ events = <<>> /\ outFound = {} /\ ~Blocks(inFound)
      /\ readable => \A m \in prompt : m \in inFound \/ m.policy \in degraded
  BY DEF Answers, GuardInv, Stage, Searched
<1>2. /\ UNCHANGED <<op, failOpen, action, strict, prompt, readable, inFound, outFound, calls>>
      /\ response' = text
  BY DEF Answers, config, source, results
<1>3. Kept' /\ Blocks(inFound)' = Blocks(inFound)
  BY <1>2 DEF GuardInv, Kept, Blocks
<1>4. CASE op = "chat"
  <2>1. /\ direction' = "output" /\ at' = 1 /\ pc' = "scanning"
        /\ UNCHANGED <<degraded, outcome, events>>
    BY <1>4 DEF Answers
  <2>2. Stage'
    BY <1>1, <1>2, <1>3, <1>4, <2>1 DEF Stage, Scan
  <2>3. Content' \subseteq Matches
    BY <1>2, <2>1 DEF Content
  <2>4. Searched'
    BY <1>1, <1>2, <2>1, <2>3, AllRun DEF Searched
  <2> QED BY <1>3, <2>1, <2>2, <2>4 DEF GuardInv
<1>5. CASE op = "protect"
  <2>1. /\ pc' = "over" /\ outcome' = "returned" /\ Report(Status(inFound), inFound)
        /\ UNCHANGED <<direction, at, degraded>>
    BY <1>5 DEF Answers, End, evaluation
  <2>2. Status(inFound) # "fail_open" /\ Status(inFound \cup outFound)' = Status(inFound)
    BY <1>1, <1>2, <1>3 DEF Status
  <2>3. /\ events' # <<>> /\ Len(events') = 1
        /\ events'[1].status = Status(inFound) /\ events'[1].violations = inFound
        /\ events'[1].degraded = degraded
    BY <1>1, <2>1, <2>2, EventOf
  <2>4. PaidOnce'
    BY <1>1, <1>2, <1>3, <2>1 DEF PaidOnce
  <2>5. OneTrueEvent'
    BY <1>1, <1>2, <2>2, <2>3 DEF OneTrueEvent
  <2>6. ~Blocks(inFound \cup outFound)'
    BY <1>1, <1>2, <1>3 DEF Blocks
  <2>7. BypassesAreEvents'
    BY <1>1, <1>2, <1>5, <2>1, <2>3, <2>6 DEF BypassesAreEvents, Enforced
  <2>8. Stage' /\ Searched'
    BY <2>1, OverStage
  <2> QED BY <1>3, <2>4, <2>5, <2>7, <2>8 DEF GuardInv, Promise
<1>6. CASE op = "stream"
  BY <1>2, <1>6, QuietEnd DEF Answers, End, evaluation
<1> QED BY <1>4, <1>5, <1>6 DEF Answers

LEMMA UnguardedStep ==
    ASSUME GuardInv, NEW text \in SUBSET Matches, AnswersUnguarded(text) PROVE GuardInv'
<1>1. Promise /\ pc = "fallback" /\ outFound = {} /\ ~Blocks(inFound)
      /\ events = <<Bypass(inFound)>>
  BY PromiseEarly DEF AnswersUnguarded, GuardInv, Stage
<1>2. /\ UNCHANGED <<op, failOpen, action, strict, prompt, direction, at, inFound, outFound,
                     calls, events>>
      /\ pc' = "over" /\ outcome' = "returned" /\ response' = text
  BY DEF AnswersUnguarded, End, config, source, evaluation, results
<1>3. /\ events' # <<>> /\ Len(events') = 1
      /\ events'[1].status = "fail_open" /\ events'[1].violations = inFound
  BY <1>1, <1>2, FirstOf DEF Bypass
<1>4. PaidOnce'
  BY <1>1, <1>2 DEF Promise, PaidOnce, Blocks
<1>5. OneTrueEvent' /\ BypassesAreEvents'
  BY <1>1, <1>2, <1>3 DEF OneTrueEvent, BypassesAreEvents
<1>6. Stage' /\ Searched' /\ Kept'
  BY <1>2, OverStage DEF GuardInv, Kept
<1> QED BY <1>4, <1>5, <1>6 DEF GuardInv, Promise

LEMMA CallRaisesStep == ASSUME GuardInv, CallRaises PROVE GuardInv'
<1>1. /\ UNCHANGED <<config, source, evaluation, results, response>>
      /\ UNCHANGED <<op, failOpen, action, strict, prompt, direction, at, inFound, outFound,
                     response>>
  BY DEF CallRaises, config, source, evaluation, results
<1>2. CASE pc = "calling" /\ op = "chat" /\ ChatFails(inFound)
  <2>1. calls = 1 /\ outFound = {} /\ direction = "input"
    BY <1>2 DEF GuardInv, Stage
  <2> QED BY <1>1, <1>2, <2>1, ChatFailsStep
<1>3. CASE End("error") /\ UNCHANGED <<calls, shown, events>>
  BY <1>1, <1>3, QuietEnd DEF End, GuardInv, Kept
<1> QED BY <1>2, <1>3 DEF CallRaises

\* The three ends of a chat whose answer was evaluated.
LEMMA OutputStep ==
    ASSUME GuardInv, AnswerBlocked \/ AnswerPasses \/ UsageFails PROVE GuardInv'
<1>1. /\ Evaluated("output") /\ pc = "scanning" /\ direction = "output" /\ calls = 1
      /\ op = "chat" /\ outcome = "none" /\ events = <<>> /\ ~Blocks(inFound)
      /\ outFound' = found
      /\ readable => \A m \in prompt : m \in inFound \/ m.policy \in degraded
  BY DEF AnswerBlocked, AnswerPasses, UsageFails, Evaluated, GuardInv, Stage, Scan, Searched
<1>2. /\ UNCHANGED <<op, failOpen, action, strict, prompt, readable, direction, at, found,
                     degraded, inFound, response>>
      /\ UNCHANGED <<config, source, evaluation>>
  BY DEF AnswerBlocked, AnswerPasses, UsageFails, config, source, evaluation
<1>3. CASE UsageFails
  BY <1>1, <1>2, <1>3, ChatFailsStep DEF UsageFails
<1>4. CASE AnswerBlocked \/ AnswerPasses
  <2> DEFINE all == inFound \cup found
  <2>1. Blocks(all) = Blocks(found)
    BY <1>1 DEF Blocks
  <2>2. /\ pc' = "over" /\ UNCHANGED calls /\ Report(Status(all), all)
        /\ \/ outcome' = "violation"
           \/ /\ outcome' = "returned" /\ ~Blocks(found)
              /\ shown' = Redact(response, found)
    BY <1>4, <2>1 DEF AnswerBlocked, AnswerPasses, End, Status
  <2>3. Status(all) # "fail_open"
    BY DEF Status
  <2>4. /\ events' # <<>> /\ Len(events') = 1
        /\ events'[1].status = Status(all) /\ events'[1].violations = all
        /\ events'[1].degraded = degraded
    BY <1>1, <2>2, <2>3, EventOf
  <2>5. (inFound \cup outFound)' = all /\ Blocks(all)' = Blocks(all)
    BY <1>1, <1>2 DEF Blocks
  <2>6. Status(inFound \cup outFound)' = Status(all)
    BY <1>1, <1>2 DEF Status, Blocks
  <2>7. PaidOnce'
    BY <1>1, <1>2, <2>2 DEF PaidOnce, Blocks
  <2>8. OneTrueEvent'
    BY <2>4, <2>5, <2>6 DEF OneTrueEvent
  <2>9. BypassesAreEvents'
    <3> SUFFICES ASSUME outcome' = "returned" PROVE Enforced'
      BY DEF BypassesAreEvents
    <3>1. ~Blocks(inFound \cup outFound)'
      BY <1>1, <1>2, <2>1, <2>2 DEF Blocks
    <3>2. \A m \in response : m \in found \/ m.policy \in degraded
      BY <1>1, AllSearched DEF Content
    <3>3. \A m \in response : \/ /\ m \in found
                                 /\ action[m.policy] = "redact" /\ m.verbatim => m \notin shown'
                              \/ m.policy \in degraded
      BY <2>2, <3>2 DEF Redact
    <3> QED BY <1>1, <1>2, <2>4, <3>1, <3>3 DEF Enforced
  <2>10. Stage' /\ Searched' /\ Kept'
    BY <1>2, <2>2, OverStage DEF GuardInv, Kept
  <2> QED BY <2>7, <2>8, <2>9, <2>10 DEF GuardInv, Promise
<1> QED BY <1>3, <1>4

LEMMA StutterStep == ASSUME GuardInv, UNCHANGED vars PROVE GuardInv'
<1>1. /\ UNCHANGED <<op, failOpen, action, strict, prompt, readable, direction, at, found,
                     degraded, inFound, outFound, pc>>
      /\ UNCHANGED <<calls, response, shown, outcome, events>>
  BY DEF vars, config, source, evaluation, results
<1>2. Stage' /\ Searched' /\ Kept'
  BY <1>1 DEF GuardInv, Stage, Scan, Searched, Kept, Content, Blocks
<1>3. Promise => Promise'
  BY <1>1 DEF Promise, PaidOnce, OneTrueEvent, BypassesAreEvents, Enforced,
              Blocks, Status
<1> QED BY <1>1, <1>2, <1>3 DEF GuardInv

-----------------------------------------------------------------------------
\* All that is promised of a call holds at each of its steps.
THEOREM GuardKept == Spec => [](GuardInv /\ Promise)
<1>1. GuardInv /\ [Next]_vars => GuardInv'
  BY BeginStep, CancelStep, RunsStep, InputStep, AnswersStep, UnguardedStep, CallRaisesStep,
     OutputStep, StutterStep DEF Next
<1>2. GuardInv => Promise
  BY PromiseEarly
<1> QED BY InitGuard, <1>1, <1>2, PTL DEF Spec

-----------------------------------------------------------------------------
(* What blocks in the input *)

\* Up to the call nothing was found but what the evaluation holds, and after it only
\* protect() may have found what blocks.
Noticed ==
    /\ pc = "ready" => seen = {} /\ calls = 0
    /\ pc = "scanning" /\ direction = "input" =>
          seen \subseteq found /\ (at = 1 => seen = {}) /\ calls = 0
    /\ pc = "calling" \/ (pc = "scanning" /\ direction = "output") => ~Blocks(seen)
    /\ pc = "fallback" => ~Blocks(seen) \/ op = "protect"
BlockInv == Noticed /\ BlockedInputStays

\* What does not block so far does not block at any later point.
LEMMA Harmless ==
    ASSUME ~Blocks(seen), UNCHANGED <<op, action, strict, seen>>, pc' \in {"calling", "fallback", "over"}
    PROVE  BlockInv'
<1>1. ~Blocks(seen)'
  BY DEF Blocks
<1> QED BY <1>1 DEF BlockInv, Noticed, BlockedInputStays

\* A call that ends without another call, or an event, keeps the promise.
LEMMA QuietlyBlocked ==
    ASSUME BlockInv, pc' = "over", UNCHANGED <<op, action, strict, seen, calls>>,
           calls = 0 \/ UNCHANGED events
    PROVE  BlockInv'
<1>1. Blocks(seen)' = Blocks(seen)
  BY DEF Blocks
<1> QED BY <1>1 DEF BlockInv, Noticed, BlockedInputStays

LEMMA EvaluationFailsBlock ==
    ASSUME GuardInv, BlockInv, Running, NEW own \in BOOLEAN, own \/ at = 1, EvaluationFails(own)
    PROVE  BlockInv'
<1>1. /\ pc = "scanning" /\ events = <<>> /\ direction \in {"input", "output"}
      /\ direction = "input" => calls = 0
      /\ direction = "output" => op = "chat"
  BY DEF GuardInv, Stage, Scan, Running
<1>2. UNCHANGED <<op, action, strict, seen>>
  BY DEF EvaluationFails, config, results
<1>3. CASE op = "chat" /\ ~own
  <2>1. ~Blocks(seen)
    BY <1>1, <1>3 DEF BlockInv, Noticed, Blocks
  <2>2. pc' \in {"fallback", "over"}
    BY <1>3 DEF EvaluationFails, ChatFails, End
  <2> QED BY <1>2, <2>1, <2>2, Harmless
<1>4. CASE op = "protect" /\ failOpen
  <2>1. Report("fail_open", {}) /\ pc' = "fallback"
    BY <1>4 DEF EvaluationFails, ProtectFails
  <2>2. events' # <<>> /\ events'[1].status = "fail_open"
    BY <1>1, <2>1, FailOpenEvent
  <2> QED BY <1>2, <1>4, <2>1, <2>2 DEF BlockInv, Noticed, BlockedInputStays
<1>5. CASE ~(op = "chat" /\ ~own) /\ ~(op = "protect" /\ failOpen)
  <2>1. pc' = "over" /\ UNCHANGED <<calls, events>>
    BY <1>5 DEF EvaluationFails, ProtectFails, End
  <2> QED BY <1>2, <2>1, QuietlyBlocked
<1> QED BY <1>3, <1>4, <1>5

LEMMA RunsBlock ==
    ASSUME GuardInv, BlockInv, ResolveFails \/ RunAnswers \/ RunFails \/ RunRaises
    PROVE  BlockInv'
<1>1. CASE ResolveFails \/ RunRaises \/ (RunFails /\ ~failOpen)
  BY <1>1, EvaluationFailsBlock DEF ResolveFails, RunRaises, RunFails
<1>2. CASE RunAnswers \/ (RunFails /\ failOpen)
  <2>1. PICK hits \in SUBSET Hits : Find(hits)
    BY <1>2 DEF RunAnswers, RunFails
  <2>2. /\ pc = "scanning" /\ direction \in {"input", "output"} /\ at \in Nat \ {0} /\ at' = at + 1
        /\ UNCHANGED <<op, action, strict, pc, direction, calls>>
    BY <1>2 DEF RunAnswers, RunFails, Running, GuardInv, Stage, config
  <2>3. CASE direction = "input"
    <3>1. at' # 1 /\ calls' = 0 /\ seen' \subseteq found'
      BY <2>1, <2>2, <2>3 DEF Find, BlockInv, Noticed
    <3> QED BY <2>2, <2>3, <3>1 DEF BlockInv, Noticed, BlockedInputStays
  <2>4. CASE direction = "output"
    <3>1. seen' = seen /\ ~Blocks(seen)
      BY <2>1, <2>2, <2>4 DEF Find, BlockInv, Noticed
    <3>2. ~Blocks(seen)'
      BY <2>2, <3>1 DEF Blocks
    <3> QED BY <2>2, <2>4, <3>2 DEF BlockInv, Noticed, BlockedInputStays
  <2> QED BY <2>2, <2>3, <2>4
<1> QED BY <1>1, <1>2

LEMMA InputBlocks ==
    ASSUME GuardInv, BlockInv, EvaluateReturns \/ InputBlocked \/ InputPasses
    PROVE  BlockInv'
<1>1. /\ UNCHANGED <<op, action, strict, seen>> /\ seen \subseteq found /\ calls = 0
  BY DEF EvaluateReturns, InputBlocked, InputPasses, Evaluated, config, BlockInv, Noticed
<1>2. CASE InputPasses
  <2>1. ~Blocks(seen) /\ pc' = "calling"
    BY <1>1, <1>2 DEF InputPasses, Blocks
  <2> QED BY <1>1, <2>1, Harmless
<1>3. CASE EvaluateReturns \/ InputBlocked
  <2>1. pc' = "over" /\ UNCHANGED calls
    BY <1>3 DEF EvaluateReturns, InputBlocked, End
  <2> QED BY <1>1, <2>1, QuietlyBlocked
<1> QED BY <1>2, <1>3

LEMMA AnswersBlock ==
    ASSUME GuardInv, BlockInv,
           \/ \E text \in SUBSET Matches : Answers(text)
           \/ CallRaises \/ AnswerBlocked \/ AnswerPasses \/ UsageFails
    PROVE  BlockInv'
<1>1. UNCHANGED <<op, action, strict, seen>>
  BY DEF Answers, CallRaises, AnswerBlocked, AnswerPasses, UsageFails, config, results
<1>2. CASE pc = "fallback"
  <2>1. pc' = "over" /\ UNCHANGED <<calls, events>>
    BY <1>2 DEF Answers, CallRaises, AnswerBlocked, AnswerPasses, UsageFails, Evaluated, End
  <2> QED BY <1>1, <2>1, QuietlyBlocked
<1>3. CASE pc # "fallback"
  <2>1. ~Blocks(seen)
    BY <1>3 DEF Answers, CallRaises, AnswerBlocked, AnswerPasses, UsageFails, Evaluated,
                BlockInv, Noticed
  <2>2. pc' \in {"calling", "fallback", "over"} \/ (pc' = "scanning" /\ direction' = "output")
    BY DEF Answers, CallRaises, AnswerBlocked, AnswerPasses, UsageFails, ChatFails, End
  <2>3. CASE pc' = "scanning" /\ direction' = "output"
    <3>1. ~Blocks(seen)'
      BY <1>1, <2>1 DEF Blocks
    <3> QED BY <2>3, <3>1 DEF BlockInv, Noticed, BlockedInputStays
  <2> QED BY <1>1, <2>1, <2>2, <2>3, Harmless
<1> QED BY <1>2, <1>3

LEMMA BlockNext == GuardInv /\ BlockInv /\ [Next]_vars => BlockInv'
<1> SUFFICES ASSUME GuardInv, BlockInv, [Next]_vars PROVE BlockInv'
  OBVIOUS
<1>1. CASE Begin
  <2>1. /\ pc = "ready" /\ direction = "input" /\ seen = {} /\ calls = 0
        /\ UNCHANGED <<op, action, strict, seen, calls, direction>> /\ pc' \in {"scanning", "over"}
    BY <1>1 DEF Begin, End, GuardInv, Stage, BlockInv, Noticed, config, results, evaluation
  <2> QED BY <2>1 DEF BlockInv, Noticed, BlockedInputStays
<1>2. CASE Cancel
  BY <1>2, QuietlyBlocked DEF Cancel, End, config, results
<1>3. CASE \E text \in SUBSET Matches : AnswersUnguarded(text)
  BY <1>3, QuietlyBlocked DEF AnswersUnguarded, End, config, results
<1>4. CASE UNCHANGED vars
  <2>1. UNCHANGED <<op, action, strict, pc, direction, at, found, seen, calls, events>>
    BY <1>4 DEF vars, config, results, evaluation
  <2>2. Blocks(seen)' = Blocks(seen)
    BY <2>1 DEF Blocks
  <2> QED BY <2>1, <2>2 DEF BlockInv, Noticed, BlockedInputStays
<1> QED BY <1>1, <1>2, <1>3, <1>4, RunsBlock, InputBlocks, AnswersBlock DEF Next

\* What any run found in the input that blocks reaches neither the provider nor the protected
\* function, whatever policy fails afterwards, but for a protect() that went on without a guard
\* after an exception of the SDK's own and has said so (guard.py:485-510, 755-796, 939-962).
THEOREM BlockIsCommitted == Spec => []BlockedInputStays
<1>1. Init => BlockInv
  BY DEF Init, BlockInv, Noticed, BlockedInputStays
<1>2. BlockInv => BlockedInputStays
  BY DEF BlockInv
<1> QED BY GuardKept, BlockNext, <1>1, <1>2, PTL DEF Spec

-----------------------------------------------------------------------------
(* What is paid, reported and enforced *)

\* The provider is not called again for an answer that was received.
THEOREM ProviderPaidOnce == Spec => []PaidOnce
<1>1. GuardInv /\ Promise => PaidOnce
  BY DEF Promise
<1> QED BY GuardKept, <1>1, PTL

\* A call leaves one event, with all its findings and their status, or fail_open.
THEOREM EventIsTrue == Spec => []OneTrueEvent
<1>1. GuardInv /\ Promise => OneTrueEvent
  BY DEF Promise
<1> QED BY GuardKept, <1>1, PTL

\* A call that returned without a fail_open event was enforced in full, up to the
\* policies its event lists.
THEOREM NoSilentBypass == Spec => []BypassesAreEvents
<1>1. GuardInv /\ Promise => BypassesAreEvents
  BY DEF Promise
<1> QED BY GuardKept, <1>1, PTL
-----------------------------------------------------------------------------
(* Types, which need to know how often the provider was called. *)

EventType == [status : Statuses, violations : SUBSET Matches, degraded : SUBSET ToSet(Policies)]
FixedOK ==
    /\ op \in Ops /\ failOpen \in BOOLEAN /\ action \in Actions /\ strict \in BOOLEAN
    /\ prompt \subseteq Matches /\ readable \in BOOLEAN
ScanOK ==
    /\ direction \in {"input", "output"} /\ at \in 1 .. Len(Policies) + 1
    /\ found \subseteq Matches /\ seen \subseteq Matches
    /\ inFound \subseteq Matches /\ outFound \subseteq Matches
    /\ degraded \subseteq ToSet(Policies)
AnswerOK == calls \in 0 .. 2 /\ response \subseteq Matches /\ shown \subseteq Matches
PlaceOK ==
    /\ pc \in {"ready", "scanning", "calling", "fallback", "over"}
    /\ outcome \in Outcomes /\ (pc = "over" <=> outcome # "none")

LEMMA TypeParts ==
    TypeOK <=> FixedOK /\ ScanOK /\ AnswerOK /\ PlaceOK /\ events \in Seq(EventType)
BY DEF TypeOK, FixedOK, ScanOK, AnswerOK, PlaceOK, EventType

LEMMA PartsNext ==
    ASSUME FixedOK', ScanOK', AnswerOK', PlaceOK', events' \in Seq(EventType)
    PROVE  TypeOK'
BY DEF TypeOK, FixedOK, ScanOK, AnswerOK, PlaceOK, EventType

LEMMA EndPlace == ASSUME NEW how \in Outcomes \ {"none"}, End(how) PROVE PlaceOK'
BY DEF End, PlaceOK

LEMMA ReportType ==
    ASSUME TypeOK, NEW s \in Statuses, NEW f \in SUBSET Matches, Report(s, f)
    PROVE  events' \in Seq(EventType)
<1> DEFINE e == [status |-> s, violations |-> f,
                 degraded |-> IF s = "fail_open" THEN {} ELSE degraded]
<1>1. e \in EventType
  BY DEF TypeOK, EventType
<1>2. events \in Seq(EventType) /\ events' = Append(events, e)
  BY TypeParts DEF Report
<1> QED BY <1>1, <1>2

LEMMA StatusType == ASSUME NEW f PROVE Status(f) \in Statuses
BY DEF Status, Statuses

\* A handler that fails open calls the provider once more, and none has answered.
LEMMA ChatFailsTypes ==
    ASSUME TypeOK, GuardInv, pc \in {"scanning", "calling"}, NEW f \in SUBSET Matches,
           ChatFails(f), UNCHANGED response
    PROVE  AnswerOK' /\ PlaceOK' /\ events' \in Seq(EventType)
<1>0. "fail_open" \in Statuses /\ "returned" \in Outcomes \ {"none"} /\ "error" \in Outcomes \ {"none"}
  BY DEF Statuses, Outcomes
<1>1. outcome = "none" /\ (direction = "input" => calls \in {0, 1})
  BY DEF GuardInv, Stage, Scan
<1>2. CASE ~failOpen
  <2>1. End("error") /\ UNCHANGED <<calls, events, shown>>
    BY <1>2 DEF ChatFails
  <2> QED BY <1>0, <2>1, EndPlace, TypeParts DEF AnswerOK
<1>3. CASE failOpen /\ direction = "output"
  <2>1. Report("fail_open", f) /\ End("returned") /\ shown' = response /\ UNCHANGED calls
    BY <1>3 DEF ChatFails
  <2> QED BY <1>0, <2>1, EndPlace, ReportType, TypeParts DEF AnswerOK
<1>4. CASE failOpen /\ direction # "output"
  <2>1. Report("fail_open", f) /\ pc' = "fallback" /\ calls' = calls + 1 /\ UNCHANGED <<outcome, shown>>
    BY <1>4 DEF ChatFails
  <2>2. PlaceOK'
    BY <1>1, <2>1 DEF PlaceOK, Outcomes
  <2>3. calls' \in 0 .. 2
    BY <1>1, <1>4, <2>1 DEF TypeOK
  <2> QED BY <1>0, <2>1, <2>2, <2>3, ReportType, TypeParts DEF AnswerOK
<1> QED BY <1>2, <1>3, <1>4

LEMMA EvaluationFailsTypes ==
    ASSUME TypeOK, GuardInv, pc = "scanning", NEW own, EvaluationFails(own)
    PROVE  TypeOK'
<1>1. UNCHANGED <<op, failOpen, action, strict, prompt, readable, direction, at, found, degraded,
                  inFound, outFound, seen, response>>
  BY DEF EvaluationFails, config, source, evaluation, results
<1>2. FixedOK' /\ ScanOK'
  BY <1>1, TypeParts DEF FixedOK, ScanOK
<1>3. "error" \in Outcomes \ {"none"} /\ "fail_open" \in Statuses
  BY DEF Outcomes, Statuses
<1>4. CASE ChatFails(inFound)
  <2>1. inFound \in SUBSET Matches
    BY DEF TypeOK
  <2> QED BY <1>1, <1>2, <1>4, <2>1, ChatFailsTypes, TypeParts, PartsNext
<1>5. CASE End("error") /\ UNCHANGED <<calls, events, shown>>
  <2>1. AnswerOK' /\ events' \in Seq(EventType)
    BY <1>1, <1>5, TypeParts DEF AnswerOK
  <2> QED BY <1>2, <1>3, <1>5, <2>1, EndPlace, TypeParts, PartsNext
<1>6. CASE op = "protect" /\ failOpen /\ ProtectFails /\ UNCHANGED shown
  <2>1. outcome = "none" /\ calls = 0
    BY <1>6 DEF GuardInv, Stage, Scan
  <2>2. Report("fail_open", {}) /\ pc' = "fallback" /\ calls' = 1 /\ UNCHANGED <<outcome, shown>>
    BY <1>6, <2>1 DEF ProtectFails
  <2>3. PlaceOK' /\ AnswerOK'
    BY <1>1, <2>1, <2>2, TypeParts DEF PlaceOK, AnswerOK, Outcomes
  <2> QED BY <1>2, <1>3, <2>2, <2>3, ReportType, TypeParts, PartsNext
<1> QED BY <1>4, <1>5, <1>6 DEF EvaluationFails, ProtectFails

LEMMA EvaluationTypes ==
    ASSUME TypeOK, GuardInv, Begin \/ Cancel \/ ResolveFails \/ RunAnswers \/ RunFails \/ RunRaises
    PROVE  TypeOK'
<1>1. CASE Begin
  <2>1. UNCHANGED <<op, failOpen, action, strict, prompt, direction, at, found, degraded,
                    inFound, outFound, seen, calls, response, shown, events>>
    BY <1>1 DEF Begin, config, evaluation, results
  <2>2. FixedOK' /\ ScanOK' /\ AnswerOK' /\ events' \in Seq(EventType)
    BY <1>1, <2>1, TypeParts DEF Begin, FixedOK, ScanOK, AnswerOK
  <2>3. PlaceOK'
    BY <1>1 DEF Begin, End, GuardInv, Stage, PlaceOK, Outcomes
  <2> QED BY <2>2, <2>3, TypeParts, PartsNext
<1>2. CASE Cancel
  <2>1. UNCHANGED <<op, failOpen, action, strict, prompt, readable, direction, at, found, degraded,
                    inFound, outFound, seen, calls, response, shown, events>>
    BY <1>2 DEF Cancel, config, source, evaluation, results
  <2>2. PlaceOK'
    BY <1>2 DEF Cancel, End, PlaceOK, Outcomes
  <2> QED BY <2>1, <2>2, TypeParts, PartsNext DEF FixedOK, ScanOK, AnswerOK
<1>3. CASE ResolveFails \/ RunRaises \/ (RunFails /\ ~failOpen)
  BY <1>3, EvaluationFailsTypes DEF ResolveFails, RunRaises, RunFails, Running
<1>4. CASE RunAnswers \/ (RunFails /\ failOpen)
  <2>1. /\ UNCHANGED <<op, failOpen, action, strict, pc, prompt, readable, direction,
                        inFound, outFound, calls, response, shown, outcome, events>>
        /\ at' = at + 1 /\ at <= Len(Policies) /\ at \in 1 .. Len(Policies) + 1
    BY <1>4 DEF RunAnswers, RunFails, Find, Running, config, source, TypeOK
  <2>2. at' \in 1 .. Len(Policies) + 1
    BY <2>1, GuardAssumption
  <2>3. Hits \subseteq Matches
    BY DEF Hits, Content, TypeOK
  <2>4. found' \subseteq Matches /\ seen' \subseteq Matches
    BY <1>4, <2>3 DEF RunAnswers, RunFails, Find, TypeOK
  <2>5. degraded' \subseteq ToSet(Policies)
    <3>1. Policies[at] \in ToSet(Policies)
      BY <2>1, GuardAssumption DEF ToSet
    <3> QED BY <1>4, <3>1 DEF RunAnswers, RunFails, TypeOK
  <2> QED BY <2>1, <2>2, <2>4, <2>5 DEF TypeOK
<1> QED BY <1>3, <1>1, <1>2, <1>4

LEMMA InputTypes ==
    ASSUME TypeOK, GuardInv, EvaluateReturns \/ InputBlocked \/ InputPasses
    PROVE  TypeOK'
<1>1. UNCHANGED <<op, failOpen, action, strict, prompt, readable, direction, at, found, degraded,
                  outFound, seen, response, shown>> /\ inFound' = found /\ found \in SUBSET Matches
  BY DEF EvaluateReturns, InputBlocked, InputPasses, config, source, evaluation, TypeOK
<1>2. FixedOK' /\ ScanOK'
  BY <1>1, TypeParts DEF FixedOK, ScanOK
<1>3. CASE EvaluateReturns \/ InputBlocked
  <2>1. PlaceOK' /\ UNCHANGED calls
    BY <1>3 DEF EvaluateReturns, InputBlocked, End, PlaceOK, Outcomes
  <2>2. AnswerOK'
    BY <1>1, <2>1, TypeParts DEF AnswerOK
  <2>3. events' \in Seq(EventType)
    <3>1. "blocked" \in Statuses /\ Status(found) \in Statuses
      BY StatusType DEF Statuses
    <3> QED BY <1>1, <1>3, <3>1, ReportType DEF EvaluateReturns, InputBlocked
  <2> QED BY <1>2, <2>1, <2>2, <2>3, TypeParts, PartsNext
<1>4. CASE InputPasses
  <2>1. outcome = "none" /\ calls = 0
    BY <1>4 DEF InputPasses, Evaluated, GuardInv, Stage, Scan
  <2>2. pc' = "calling" /\ calls' = 1 /\ UNCHANGED <<outcome, events>>
    BY <1>4, <2>1 DEF InputPasses
  <2>3. PlaceOK' /\ AnswerOK' /\ events' \in Seq(EventType)
    BY <1>1, <2>1, <2>2, TypeParts DEF PlaceOK, AnswerOK, Outcomes
  <2> QED BY <1>2, <2>3, TypeParts, PartsNext
<1> QED BY <1>3, <1>4

LEMMA AnswerTypes ==
    ASSUME TypeOK, GuardInv, NEW text \in SUBSET Matches, Answers(text) \/ AnswersUnguarded(text)
    PROVE  TypeOK'
<1>1. UNCHANGED <<op, failOpen, action, strict, prompt, readable, inFound, outFound, seen>>
  BY DEF Answers, AnswersUnguarded, config, source, results
<1>2. FixedOK'
  BY <1>1, TypeParts DEF FixedOK
<1>3. CASE Answers(text) /\ op = "chat"
  <2>1. /\ direction' = "output" /\ at' = 1 /\ found' = {} /\ pc' = "scanning"
        /\ response' = text /\ UNCHANGED <<degraded, shown, outcome, events, calls>>
    BY <1>3 DEF Answers
  <2>2. ScanOK'
    BY <1>1, <2>1, GuardAssumption, TypeParts DEF ScanOK
  <2>3. PlaceOK'
    BY <1>3, <2>1 DEF Answers, GuardInv, Stage, PlaceOK, Outcomes
  <2> QED BY <1>2, <2>1, <2>2, <2>3, TypeParts, PartsNext DEF AnswerOK
<1>4. CASE (Answers(text) /\ op # "chat") \/ AnswersUnguarded(text)
  <2>1. UNCHANGED <<direction, at, found, degraded, calls>> /\ response' = text
        /\ (shown' = text \/ UNCHANGED shown)
    BY <1>4 DEF Answers, AnswersUnguarded, evaluation
  <2>2. ScanOK' /\ AnswerOK'
    BY <1>1, <2>1, TypeParts DEF ScanOK, AnswerOK
  <2>3. PlaceOK'
    BY <1>4 DEF Answers, AnswersUnguarded, End, PlaceOK, Outcomes
  <2>4. events' \in Seq(EventType)
    <3>1. inFound \in SUBSET Matches /\ Status(inFound) \in Statuses
      BY StatusType DEF TypeOK
    <3>2. CASE Report(Status(inFound), inFound)
      BY <3>1, <3>2, ReportType
    <3>3. CASE UNCHANGED events
      BY <3>3, TypeParts
    <3> QED BY <1>4, <3>2, <3>3 DEF Answers, AnswersUnguarded
  <2> QED BY <1>2, <2>2, <2>3, <2>4, TypeParts, PartsNext
<1> QED BY <1>3, <1>4

LEMMA CallRaisesTypes == ASSUME TypeOK, GuardInv, CallRaises PROVE TypeOK'
<1>1. UNCHANGED <<op, failOpen, action, strict, prompt, readable, direction, at, found, degraded,
                  inFound, outFound, seen, response>>
  BY DEF CallRaises, config, source, evaluation, results
<1>2. FixedOK' /\ ScanOK'
  BY <1>1, TypeParts DEF FixedOK, ScanOK
<1>3. CASE pc = "calling" /\ ChatFails(inFound)
  <2>1. inFound \in SUBSET Matches
    BY DEF TypeOK
  <2> QED BY <1>1, <1>2, <1>3, <2>1, ChatFailsTypes, TypeParts, PartsNext
<1>4. CASE End("error") /\ UNCHANGED <<calls, events, shown>>
  <2>1. AnswerOK' /\ events' \in Seq(EventType) /\ PlaceOK'
    BY <1>1, <1>4, TypeParts DEF AnswerOK, End, PlaceOK, Outcomes
  <2> QED BY <1>2, <2>1, TypeParts, PartsNext
<1> QED BY <1>3, <1>4 DEF CallRaises

LEMMA OutputTypes ==
    ASSUME TypeOK, GuardInv, AnswerBlocked \/ AnswerPasses \/ UsageFails
    PROVE  TypeOK'
<1>1. UNCHANGED <<op, failOpen, action, strict, prompt, readable, direction, at, found, degraded,
                  inFound, seen, response>> /\ outFound' = found /\ pc = "scanning"
  BY DEF AnswerBlocked, AnswerPasses, UsageFails, Evaluated, config, source, evaluation
<1>2. FixedOK' /\ ScanOK' /\ inFound \cup found \in SUBSET Matches
  BY <1>1, TypeParts DEF FixedOK, ScanOK
<1>3. CASE UsageFails
  BY <1>1, <1>2, <1>3, ChatFailsTypes, TypeParts, PartsNext DEF UsageFails
<1>4. CASE AnswerBlocked \/ AnswerPasses
  <2>1. PlaceOK' /\ UNCHANGED calls
    BY <1>4 DEF AnswerBlocked, AnswerPasses, End, PlaceOK, Outcomes
  <2>2. AnswerOK'
    BY <1>1, <1>4, <2>1, TypeParts DEF AnswerBlocked, AnswerPasses, AnswerOK, Redact
  <2>3. events' \in Seq(EventType)
    <3>1. "blocked" \in Statuses /\ Status(inFound \cup found) \in Statuses
      BY StatusType DEF Statuses
    <3> QED BY <1>2, <1>4, <3>1, ReportType DEF AnswerBlocked, AnswerPasses
  <2> QED BY <1>2, <2>1, <2>2, <2>3, TypeParts, PartsNext
<1> QED BY <1>3, <1>4

\* The state of a call has its type; a provider is called twice at most.
THEOREM CallTypes == Spec => []TypeOK
<1>1. Init => TypeOK
  <2> SUFFICES ASSUME Init PROVE TypeOK
    OBVIOUS
  <2>1. at \in 1 .. Len(Policies) + 1 /\ events \in Seq(EventType)
    BY GuardAssumption DEF Init
  <2> QED BY <2>1, TypeParts DEF Init, FixedOK, ScanOK, AnswerOK, PlaceOK, Outcomes
<1>2. TypeOK /\ UNCHANGED vars => TypeOK'
  BY DEF TypeOK, vars, config, source, evaluation, results
<1>3. TypeOK /\ GuardInv /\ [Next]_vars => TypeOK'
  BY EvaluationTypes, InputTypes, AnswerTypes, CallRaisesTypes, OutputTypes, <1>2 DEF Next
<1> QED BY GuardKept, <1>1, <1>3, PTL DEF Spec
=============================================================================
