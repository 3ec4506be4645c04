--------------------------- MODULE LangChainProofs ---------------------------
(***************************************************************************)
(* Theorems about LangChainCalls, for every list of policies, every        *)
(* configuration of their actions, every hook and all texts.               *)
(***************************************************************************)
EXTENDS LangChainCalls, SequenceTheorems, TLAPS

LEMMA InitTypes == Init => TypeOK
<1> SUFFICES ASSUME Init PROVE TypeOK
  OBVIOUS
<1>1. judged \in [Directions -> Judgement]
  BY DEF Init, Judgement, Unjudged
<1>2. at \in 1 .. Len(Policies) + 1
  BY CallbackAssumption DEF Init
<1>3. events \in Seq(Event)
  BY DEF Init
<1> QED BY <1>1, <1>2, <1>3 DEF Init, TypeOK, Directions

\* What a step leaves alone keeps its type.
LEMMA StartTypes == ASSUME TypeOK, Start PROVE TypeOK'
<1>1. PICK t \in SUBSET Matches : Evaluate("input", t)
  BY DEF Start
<1>2. at' \in 1 .. Len(Policies) + 1
  BY <1>1, CallbackAssumption DEF Evaluate
<1>3. UNCHANGED <<failOpen, hook, action, judged, outcome, events>>
  BY DEF Start, config
<1> QED BY <1>1, <1>2, <1>3 DEF TypeOK, Evaluate, Directions

LEMMA RunAnswersTypes == ASSUME TypeOK, RunAnswers PROVE TypeOK'
<1>1. UNCHANGED <<failOpen, hook, action, pc, direction, text, degraded, judged, outcome, events>>
  BY DEF RunAnswers, config
<1>2. at' \in 1 .. Len(Policies) + 1
  BY CallbackAssumption DEF TypeOK, RunAnswers
<1>3. found' \subseteq Matches
  BY DEF TypeOK, RunAnswers, Hits
<1> QED BY <1>1, <1>2, <1>3 DEF TypeOK

LEMMA RunFailsTypes == ASSUME TypeOK, RunFails PROVE TypeOK'
<1>1. UNCHANGED <<failOpen, hook, action, direction, text, found, judged, events>>
  BY DEF RunFails, config
<1>2. at' \in 1 .. Len(Policies) + 1
  BY CallbackAssumption DEF TypeOK, RunFails
<1>3. degraded' \subseteq ToSet(Policies)
  <2>1. at \in 1 .. Len(Policies)
    BY CallbackAssumption DEF TypeOK, RunFails
  <2>2. Policies[at] \in ToSet(Policies)
    BY <2>1, CallbackAssumption DEF ToSet
  <2> QED BY <2>2 DEF TypeOK, RunFails
<1>4. pc' \in {"ready", "scanning", "calling", "over"} /\
      outcome' \in {"none", "answered", "silent", "violation", "error", "llm_error"}
  BY DEF TypeOK, RunFails, End
<1> QED BY <1>1, <1>2, <1>3, <1>4 DEF TypeOK

\* One more event of a known kind.
LEMMA ReportTypes ==
    ASSUME TypeOK, NEW s \in {"passed", "flagged", "blocked", "fail_open"},
           NEW f \in SUBSET Matches, NEW d \in SUBSET ToSet(Policies), Report(s, f, d)
    PROVE  events' \in Seq(Event)
<1> DEFINE e == [direction |-> direction, status |-> s, violations |-> f, degraded |-> d]
<1>1. e \in Event
  BY DEF TypeOK, Event
<1>2. events \in Seq(Event)
  BY DEF TypeOK
<1>3. events' = Append(events, e)
  BY DEF Report
<1> QED BY <1>1, <1>2, <1>3

LEMMA DecideTypes == ASSUME TypeOK, Decide PROVE TypeOK'
<1>1. UNCHANGED <<failOpen, hook, action, direction, text, at, found, degraded>>
  BY DEF Decide, config, evaluation
<1>2. judged' \in [Directions -> Judgement]
  <2>1. [findings |-> found, degraded |-> degraded] \in Judgement
    BY DEF TypeOK, Judgement
  <2> QED BY <2>1 DEF Decide, TypeOK
<1>3. pc' \in {"ready", "scanning", "calling", "over"} /\
      outcome' \in {"none", "answered", "silent", "violation", "error", "llm_error"}
  BY DEF TypeOK, Decide, HookFails, HookRaises, Hooks, Enforce, GoOn, End
<1>4. events' \in Seq(Event)
  <2>1. CASE UNCHANGED events
    BY <2>1 DEF TypeOK
  <2>2. CASE Report("fail_open", {}, {})
    BY <2>2, ReportTypes
  <2>3. CASE Report(Status(found), found, degraded)
    <3>1. Status(found) \in {"passed", "flagged", "blocked", "fail_open"}
      BY DEF Status
    <3>2. found \in SUBSET Matches /\ degraded \in SUBSET ToSet(Policies)
      BY DEF TypeOK
    <3> QED BY <2>3, <3>1, <3>2, ReportTypes
  <2> QED BY <2>1, <2>2, <2>3 DEF Decide, HookFails, HookRaises, Hooks, Enforce
<1> QED BY <1>1, <1>2, <1>3, <1>4 DEF TypeOK

LEMMA AnswerTypes == ASSUME TypeOK, Answer PROVE TypeOK'
<1>1. UNCHANGED <<failOpen, hook, action, judged, events>>
  BY DEF Answer, config
<1>2. CASE \E t \in SUBSET Matches : Evaluate("output", t) /\ UNCHANGED outcome
  <2>1. PICK t \in SUBSET Matches : Evaluate("output", t) /\ UNCHANGED outcome
    BY <1>2
  <2>2. at' \in 1 .. Len(Policies) + 1
    BY <2>1, CallbackAssumption DEF Evaluate
  <2> QED BY <1>1, <2>1, <2>2 DEF TypeOK, Evaluate, Directions
<1>3. CASE End("silent") /\ UNCHANGED evaluation
  BY <1>1, <1>3 DEF TypeOK, End, evaluation
<1> QED BY <1>2, <1>3 DEF Answer

LEMMA LLMFailsTypes == ASSUME TypeOK, LLMFails PROVE TypeOK'
BY DEF TypeOK, LLMFails, End, config, evaluation

LEMMA StutterTypes == ASSUME TypeOK, UNCHANGED vars PROVE TypeOK'
BY DEF TypeOK, vars, config, evaluation

\* The state of a callback's run has its type.
THEOREM CallbackTypes == Spec => []TypeOK
<1>1. TypeOK /\ [Next]_vars => TypeOK'
  BY StartTypes, RunAnswersTypes, RunFailsTypes, DecideTypes, AnswerTypes, LLMFailsTypes,
     StutterTypes DEF Next
<1> QED BY InitTypes, <1>1, PTL DEF Spec

-----------------------------------------------------------------------------
\* The event of an evaluation that got past its hook, and of one the hook cut short.
Bypass == [direction |-> "input", status |-> "fail_open", violations |-> {}, degraded |-> {}]
Full(d) == [direction |-> d, status |-> Status(judged[d].findings),
            violations |-> judged[d].findings, degraded |-> judged[d].degraded]
CutShort(d) == hook = "raises" /\ judged[d].findings # {}
InputEvent == IF CutShort("input") THEN Bypass ELSE Full("input")

\* What was found in a direction did not forbid to go on.
Allowed(d) == ~Blocks(judged[d].findings) \/ (failOpen /\ hook = "raises")

\* The input went on, and was reported; nothing is known of the output yet.
InputOut == Allowed("input") /\ judged["output"] = Unjudged /\ events = <<InputEvent>>

Early ==
    /\ pc = "ready" => outcome = "none" /\ direction = "input" /\ events = <<>>
                       /\ judged["input"] = Unjudged /\ judged["output"] = Unjudged
    /\ pc = "scanning" => outcome = "none"
    /\ pc = "scanning" /\ direction = "input" =>
          events = <<>> /\ judged["input"] = Unjudged /\ judged["output"] = Unjudged
    /\ pc = "scanning" /\ direction = "output" => InputOut
    /\ pc = "calling" => outcome = "none" /\ direction = "input" /\ InputOut

\* How a run ends: on its input, between the two, or on its output.
OverInput ==
    /\ direction = "input" /\ judged["output"] = Unjudged
    /\ \/ outcome = "error" /\ events = <<>>
       \/ outcome = "violation" /\ events = <<>> /\ hook = "vetoes"
       \/ outcome = "violation" /\ events = <<Full("input")>> /\ Blocks(judged["input"].findings)
OverBetween == direction = "input" /\ outcome \in {"silent", "llm_error"} /\ InputOut
OverOutput ==
    /\ direction = "output" /\ Allowed("input")
    /\ \/ outcome = "error" /\ events = <<InputEvent>>
       \/ outcome = "violation" /\ events = <<InputEvent>> /\ hook = "vetoes"
       \/ outcome = "violation" /\ events = <<InputEvent, Full("output")>>
          /\ Blocks(judged["output"].findings)
       \/ outcome = "answered" /\ events = <<InputEvent>> /\ CutShort("output") /\ failOpen
       \/ outcome = "answered" /\ events = <<InputEvent, Full("output")>>
          /\ ~Blocks(judged["output"].findings)

CallbackInv == TypeOK /\ Early /\ (pc = "over" => OverInput \/ OverBetween \/ OverOutput)

-----------------------------------------------------------------------------
LEMMA AppendOne == ASSUME NEW e, NEW f PROVE Append(<<>>, e) = <<e>> /\ Append(<<e>>, f) = <<e, f>>
<1>1. Append(<<>>, e) = <<e>>
  OBVIOUS
<1>2. Append(<<e>>, f) = <<e, f>>
  <2> DEFINE S == {e, f}
             s == Append(<<e>>, f)
  <2>1. <<e>> \in Seq(S) /\ Len(<<e>>) = 1 /\ <<e>>[1] = e
    OBVIOUS
  <2>2. s \in Seq(S) /\ Len(s) = 2 /\ s[1] = e /\ s[2] = f
    BY <2>1, AppendProperties
  <2>3. <<e, f>> \in Seq(S) /\ Len(<<e, f>>) = 2 /\ <<e, f>>[1] = e /\ <<e, f>>[2] = f
    OBVIOUS
  <2>4. \A i \in 1 .. 2 : s[i] = <<e, f>>[i]
    BY <2>2, <2>3
  <2> QED BY <2>2, <2>3, <2>4, SeqEqual
<1> QED BY <1>1, <1>2

LEMMA UnjudgedAllowed == ~Blocks(Unjudged.findings)
BY DEF Blocks, Unjudged

\* A step of the policies changes nothing that has been settled.
LEMMA KeepsPast ==
    ASSUME UNCHANGED <<failOpen, hook, action, judged, events>>
    PROVE  /\ InputOut => InputOut' /\ InputEvent' = InputEvent /\ Allowed("input")'
           /\ Allowed("input") => Allowed("input")'
           /\ InputEvent' = InputEvent
BY DEF InputOut, InputEvent, CutShort, Allowed, Blocks, Bypass, Full, Status

LEMMA InitCallback == Init => CallbackInv
<1> SUFFICES ASSUME Init PROVE CallbackInv
  OBVIOUS
<1>1. judged["input"] = Unjudged /\ judged["output"] = Unjudged
  BY DEF Init, Directions
<1> QED BY <1>1, InitTypes DEF Init, CallbackInv, Early

LEMMA StartStep == ASSUME CallbackInv, Start PROVE CallbackInv'
<1>1. TypeOK'
  BY StartTypes DEF CallbackInv
<1>2. pc' = "scanning" /\ direction' = "input" /\ UNCHANGED <<judged, outcome, events>>
  BY DEF Start, Evaluate
<1>3. pc = "ready"
  BY DEF Start
<1> QED BY <1>1, <1>2, <1>3 DEF CallbackInv, Early

LEMMA RunAnswersStep == ASSUME CallbackInv, RunAnswers PROVE CallbackInv'
<1>1. TypeOK'
  BY RunAnswersTypes DEF CallbackInv
<1>2. pc = "scanning" /\ UNCHANGED <<failOpen, hook, action, pc, direction, judged, outcome, events>>
  BY DEF RunAnswers, config
<1>3. Early'
  BY <1>2, KeepsPast DEF CallbackInv, Early
<1> QED BY <1>1, <1>2, <1>3 DEF CallbackInv

LEMMA RunFailsStep == ASSUME CallbackInv, RunFails PROVE CallbackInv'
<1>1. TypeOK'
  BY RunFailsTypes DEF CallbackInv
<1>2. pc = "scanning" /\ UNCHANGED <<failOpen, hook, action, direction, judged, events>>
  BY DEF RunFails, config
<1>3. CASE failOpen
  <2>1. UNCHANGED <<pc, outcome>>
    BY <1>3 DEF RunFails
  <2>2. Early'
    BY <1>2, <2>1, KeepsPast DEF CallbackInv, Early
  <2> QED BY <1>1, <1>2, <2>1, <2>2 DEF CallbackInv
<1>4. CASE ~failOpen
  <2>1. pc' = "over" /\ outcome' = "error"
    BY <1>4 DEF RunFails, End
  <2>2. CASE direction = "input"
    BY <1>1, <1>2, <2>1, <2>2 DEF CallbackInv, Early, OverInput
  <2>3. CASE direction = "output"
    <3>1. Allowed("input")' /\ events' = <<InputEvent'>>
      BY <1>2, <2>3, KeepsPast DEF CallbackInv, Early, InputOut
    <3> QED BY <1>1, <1>2, <2>1, <2>3, <3>1 DEF CallbackInv, Early, OverOutput
  <2> QED BY <2>2, <2>3 DEF CallbackInv, TypeOK, Directions
<1> QED BY <1>3, <1>4

\* What a decision records of its direction, and what it leaves of the other.
LEMMA DecideRecords ==
    ASSUME CallbackInv, Decide
    PROVE  /\ pc = "scanning" /\ outcome = "none"
           /\ UNCHANGED <<failOpen, hook, action, direction>>
           /\ judged'[direction] = [findings |-> found, degraded |-> degraded]
           /\ \A d \in Directions : d # direction => judged'[d] = judged[d]
<1>1. judged' = [judged EXCEPT ![direction] = [findings |-> found, degraded |-> degraded]]
  BY DEF Decide
<1>2. judged \in [Directions -> Judgement] /\ direction \in Directions
  BY DEF CallbackInv, TypeOK
<1> QED BY <1>1, <1>2 DEF Decide, config, evaluation, CallbackInv, Early

LEMMA DecideInput == ASSUME CallbackInv, Decide, direction = "input" PROVE CallbackInv'
<1>1. TypeOK'
  BY DecideTypes DEF CallbackInv
<1>2. judged'["input"].findings = found /\ judged'["input"].degraded = degraded
      /\ judged'["output"] = Unjudged /\ direction' = "input" /\ events = <<>>
      /\ UNCHANGED <<failOpen, hook, action>> /\ outcome = "none"
  BY DecideRecords DEF CallbackInv, Early, Directions
<1>3. Blocks(found)' = Blocks(found) /\ Blocks(judged["input"].findings)' = Blocks(found)
  BY <1>2 DEF Blocks, Decide, evaluation
<1>4. Full("input")' = [direction |-> "input", status |-> Status(found),
                        violations |-> found, degraded |-> degraded]
  BY <1>2, <1>3 DEF Full, Status
<1>5. Blocks(found) => found # {}
  BY DEF Blocks
<1>6. CASE HookFails
  <2>1. found # {} /\ hook \in {"raises", "vetoes"}
    BY <1>6 DEF HookFails, HookRaises
  <2>2. CASE hook = "vetoes"
    <3>1. pc' = "over" /\ outcome' = "violation" /\ events' = <<>>
      BY <1>2, <1>6, <2>2 DEF HookFails, End
    <3> QED BY <1>1, <1>2, <2>2, <3>1 DEF CallbackInv, Early, OverInput
  <2>3. CASE hook = "raises" /\ ~failOpen
    <3>1. pc' = "over" /\ outcome' = "error" /\ events' = <<>>
      BY <1>2, <1>6, <2>3 DEF HookFails, End
    <3> QED BY <1>1, <1>2, <3>1 DEF CallbackInv, Early, OverInput
  <2>4. CASE hook = "raises" /\ failOpen
    <3>1. pc' = "calling" /\ outcome' = "none" /\ Report("fail_open", {}, {})
      BY <1>2, <1>6, <2>4 DEF HookFails, GoOn
    <3>2. events' = <<Bypass>>
      BY <1>2, <3>1, AppendOne DEF Report, Bypass
    <3>3. InputEvent' = Bypass /\ Allowed("input")'
      BY <1>2, <2>1, <2>4 DEF InputEvent, CutShort, Allowed, Bypass
    <3>4. InputOut'
      BY <1>2, <3>2, <3>3 DEF InputOut, Unjudged
    <3> QED BY <1>1, <1>2, <3>1, <3>4 DEF CallbackInv, Early
  <2> QED BY <2>1, <2>2, <2>3, <2>4 DEF CallbackInv, TypeOK
<1>7. CASE Enforce
  <2>1. ~(found # {} /\ hook = "raises")
    BY <1>7 DEF Enforce, HookRaises
  <2>2. events' = <<Full("input")'>>
    BY <1>2, <1>4, <1>7, AppendOne DEF Enforce, Report
  <2>3. CASE Blocks(found)
    <3>1. pc' = "over" /\ outcome' = "violation"
      BY <1>7, <2>3 DEF Enforce, End
    <3> QED BY <1>1, <1>2, <1>3, <2>2, <2>3, <3>1 DEF CallbackInv, Early, OverInput
  <2>4. CASE ~Blocks(found)
    <3>1. pc' = "calling" /\ outcome' = "none"
      BY <1>2, <1>7, <2>4 DEF Enforce, GoOn
    <3>2. InputEvent' = Full("input")' /\ Allowed("input")'
      BY <1>2, <1>3, <2>1, <2>4 DEF InputEvent, CutShort, Allowed
    <3>3. InputOut'
      BY <1>2, <2>2, <3>2 DEF InputOut, Unjudged
    <3> QED BY <1>1, <1>2, <3>1, <3>3 DEF CallbackInv, Early
  <2> QED BY <2>3, <2>4
<1> QED BY <1>6, <1>7 DEF Decide

LEMMA DecideOutput == ASSUME CallbackInv, Decide, direction = "output" PROVE CallbackInv'
<1>1. TypeOK'
  BY DecideTypes DEF CallbackInv
<1>2. judged'["output"].findings = found /\ judged'["output"].degraded = degraded
      /\ judged'["input"] = judged["input"] /\ direction' = "output"
      /\ UNCHANGED <<failOpen, hook, action>> /\ outcome = "none" /\ InputOut
  BY DecideRecords DEF CallbackInv, Early, Directions
<1>3. Blocks(found)' = Blocks(found) /\ Blocks(judged["output"].findings)' = Blocks(found)
  BY <1>2 DEF Blocks, Decide, evaluation
<1>4. Full("output")' = [direction |-> "output", status |-> Status(found),
                         violations |-> found, degraded |-> degraded]
  BY <1>2, <1>3 DEF Full, Status
<1>5. InputEvent' = InputEvent /\ Allowed("input")' /\ events = <<InputEvent>>
  BY <1>2 DEF InputOut, InputEvent, CutShort, Allowed, Blocks, Bypass, Full, Status
<1>6. CASE HookFails
  <2>1. found # {} /\ hook \in {"raises", "vetoes"}
    BY <1>6 DEF HookFails, HookRaises
  <2>2. UNCHANGED events /\ pc' = "over"
    BY <1>2, <1>6, <2>1 DEF HookFails, End, GoOn
  <2>3. CASE hook = "vetoes"
    <3>1. outcome' = "violation"
      BY <1>6, <2>3 DEF HookFails, End
    <3> QED BY <1>1, <1>2, <1>5, <2>2, <2>3, <3>1 DEF CallbackInv, Early, OverOutput
  <2>4. CASE hook = "raises" /\ ~failOpen
    <3>1. outcome' = "error"
      BY <1>6, <2>4 DEF HookFails, End
    <3> QED BY <1>1, <1>2, <1>5, <2>2, <3>1 DEF CallbackInv, Early, OverOutput
  <2>5. CASE hook = "raises" /\ failOpen
    <3>1. outcome' = "answered"
      BY <1>2, <1>6, <2>5 DEF HookFails, End, GoOn
    <3>2. CutShort("output")'
      BY <1>2, <2>1, <2>5 DEF CutShort
    <3> QED BY <1>1, <1>2, <1>5, <2>2, <2>5, <3>1, <3>2 DEF CallbackInv, Early, OverOutput
  <2> QED BY <2>1, <2>3, <2>4, <2>5 DEF CallbackInv, TypeOK
<1>7. CASE Enforce
  <2>1. events' = <<InputEvent', Full("output")'>>
    BY <1>2, <1>4, <1>5, <1>7, AppendOne DEF Enforce, Report
  <2>2. pc' = "over"
    BY <1>2, <1>7 DEF Enforce, End, GoOn
  <2>3. CASE Blocks(found)
    <3>1. outcome' = "violation"
      BY <1>7, <2>3 DEF Enforce, End
    <3> QED BY <1>1, <1>2, <1>3, <1>5, <2>1, <2>2, <2>3, <3>1 DEF CallbackInv, Early, OverOutput
  <2>4. CASE ~Blocks(found)
    <3>1. outcome' = "answered"
      BY <1>2, <1>7, <2>4 DEF Enforce, End, GoOn
    <3> QED BY <1>1, <1>2, <1>3, <1>5, <2>1, <2>2, <2>4, <3>1 DEF CallbackInv, Early, OverOutput
  <2> QED BY <2>3, <2>4
<1> QED BY <1>6, <1>7 DEF Decide

LEMMA AnswerStep == ASSUME CallbackInv, Answer PROVE CallbackInv'
<1>1. TypeOK'
  BY AnswerTypes DEF CallbackInv
<1>2. pc = "calling" /\ UNCHANGED <<failOpen, hook, action, judged, events>>
  BY DEF Answer, config
<1>3. InputOut' /\ outcome = "none" /\ direction = "input"
  BY <1>2, KeepsPast DEF CallbackInv, Early, InputOut
<1>4. CASE pc' = "scanning" /\ direction' = "output" /\ UNCHANGED outcome
  BY <1>1, <1>3, <1>4 DEF CallbackInv, Early
<1>5. CASE pc' = "over" /\ outcome' = "silent" /\ UNCHANGED direction
  BY <1>1, <1>3, <1>5 DEF CallbackInv, Early, OverBetween
<1> QED BY <1>4, <1>5 DEF Answer, Evaluate, End, evaluation

LEMMA LLMFailsStep == ASSUME CallbackInv, LLMFails PROVE CallbackInv'
<1>1. TypeOK'
  BY LLMFailsTypes DEF CallbackInv
<1>2. pc = "calling" /\ UNCHANGED <<failOpen, hook, action, direction, judged, events>>
  BY DEF LLMFails, config, evaluation
<1>3. InputOut' /\ direction' = "input"
  BY <1>2, KeepsPast DEF CallbackInv, Early, InputOut
<1>4. pc' = "over" /\ outcome' = "llm_error"
  BY DEF LLMFails, End
<1> QED BY <1>1, <1>3, <1>4 DEF CallbackInv, Early, OverBetween

LEMMA StutterStep == ASSUME CallbackInv, UNCHANGED vars PROVE CallbackInv'
<1>1. TypeOK'
  BY StutterTypes DEF CallbackInv
<1>2. UNCHANGED <<failOpen, hook, action, pc, direction, judged, outcome, events>>
  BY DEF vars, config, evaluation
<1> QED BY <1>1, <1>2 DEF CallbackInv, Early, OverInput, OverBetween, OverOutput, InputOut,
          InputEvent, CutShort, Allowed, Blocks, Bypass, Full, Status

THEOREM CallbackInvariant == Spec => []CallbackInv
<1>1. CallbackInv /\ Decide => CallbackInv'
  BY DecideInput, DecideOutput DEF CallbackInv, TypeOK, Directions
<1>2. CallbackInv /\ [Next]_vars => CallbackInv'
  BY StartStep, RunAnswersStep, RunFailsStep, <1>1, AnswerStep, LLMFailsStep, StutterStep DEF Next
<1> QED BY InitCallback, <1>2, PTL DEF Spec

-----------------------------------------------------------------------------
LEMMA Blocking ==
    ASSUME NEW f, ~Blocks(f), NEW m \in f PROVE ~(m.blocked \/ action[m.policy] = "block")
BY DEF Blocks

\* Only what is allowed gets past.
LEMMA PassedAllowed ==
    ASSUME CallbackInv, NEW d \in Directions, Passed(d)
    PROVE  Allowed(d)
<1>1. CASE d = "input"
  BY <1>1 DEF CallbackInv, TypeOK, Early, OverInput, OverBetween, OverOutput, InputOut, Passed
<1>2. CASE d = "output"
  BY <1>2 DEF CallbackInv, TypeOK, Early, OverInput, OverBetween, OverOutput, Passed, Allowed,
              CutShort
<1> QED BY <1>1, <1>2 DEF Directions

\* No prompt and no answer with a blocking finding gets past the callback, unless the
\* hook of the application raised under fail_open.
THEOREM BlockedNeverPasses == Spec => []BlockedStays
<1>1. CallbackInv => BlockedStays
  <2> SUFFICES ASSUME CallbackInv, NEW d \in Directions, NEW m \in judged[d].findings,
                      Passed(d), m.blocked \/ action[m.policy] = "block"
               PROVE  failOpen /\ hook = "raises"
    BY DEF BlockedStays
  <2>1. Allowed(d)
    BY PassedAllowed
  <2> QED BY <2>1, Blocking DEF Allowed
<1> QED BY CallbackInvariant, <1>1, PTL

-----------------------------------------------------------------------------
\* The places of each direction in the events a run may have left.
LEMMA NoEvents == ASSUME events = <<>>, NEW d PROVE EventsOf(d) = {}
BY DEF EventsOf

LEMMA OneEvent ==
    ASSUME NEW e, events = <<e>>, e.direction = "input"
    PROVE  EventsOf("input") = {1} /\ EventsOf("output") = {} /\ events[1] = e
<1>1. Len(events) = 1 /\ events[1] = e
  OBVIOUS
<1>2. 1 .. Len(events) = {1}
  BY <1>1
<1> QED BY <1>1, <1>2 DEF EventsOf

LEMMA TwoEvents ==
    ASSUME NEW e, NEW f, events = <<e, f>>, e.direction = "input", f.direction = "output"
    PROVE  /\ EventsOf("input") = {1} /\ EventsOf("output") = {2}
           /\ events[1] = e /\ events[2] = f
<1>1. Len(events) = 2 /\ events[1] = e /\ events[2] = f
  OBVIOUS
<1>2. 1 .. Len(events) = {1, 2}
  BY <1>1
<1> QED BY <1>1, <1>2 DEF EventsOf

LEMMA InputEventDirection == InputEvent.direction = "input"
BY DEF InputEvent, Bypass, Full

LEMMA FullBlocked ==
    ASSUME NEW d PROVE /\ Full(d).direction = d
                       /\ Full(d).status = "blocked" <=> Blocks(judged[d].findings)
                       /\ Full(d).status # "fail_open"
                       /\ Full(d).violations = judged[d].findings
                       /\ Full(d).degraded = judged[d].degraded
BY DEF Full, Status

\* An input that went on left an event that tells the truth.
LEMMA InputTruthful ==
    ASSUME EventsOf("input") = {1}, events[1] = InputEvent, Allowed("input"), Passed("input")
    PROVE  Truthful("input")
<1>1. CASE CutShort("input")
  BY <1>1 DEF Truthful, InputEvent, CutShort, Bypass
<1>2. CASE ~CutShort("input")
  <2>1. ~Blocks(judged["input"].findings)
    BY <1>2 DEF CutShort, Allowed, Blocks
  <2>2. events[1] = Full("input")
    BY <1>2 DEF InputEvent
  <2> QED BY <2>1, <2>2, FullBlocked DEF Truthful
<1> QED BY <1>1, <1>2

LEMMA InputOutTraced ==
    ASSUME InputOut, Passed("input"), outcome \notin {"violation", "answered"}
    PROVE  Traced
<1>1. EventsOf("input") = {1} /\ EventsOf("output") = {} /\ events[1] = InputEvent
  BY OneEvent, InputEventDirection DEF InputOut
<1>2. Truthful("input") /\ Truthful("output")
  BY <1>1, InputTruthful DEF InputOut, Truthful
<1> QED BY <1>1, <1>2 DEF Traced, Directions, Passed

LEMMA SilentTraced ==
    ASSUME events = <<>>, ~Passed("input"), ~Passed("output"),
           outcome = "violation" => hook = "vetoes"
    PROVE  Traced
<1>1. \A d \in Directions : EventsOf(d) = {}
  BY NoEvents
<1> QED BY <1>1 DEF Traced, Truthful, Directions

LEMMA OverInputTraced == ASSUME pc = "over", OverInput PROVE Traced
<1>1. ~Passed("input") /\ ~Passed("output")
  BY DEF OverInput, Passed
<1>2. CASE events = <<>> /\ (outcome = "violation" => hook = "vetoes")
  BY <1>1, <1>2, SilentTraced
<1>3. CASE events = <<Full("input")>> /\ Blocks(judged["input"].findings)
  <2>1. EventsOf("input") = {1} /\ EventsOf("output") = {} /\ events[1] = Full("input")
    BY <1>3, OneEvent, FullBlocked
  <2>2. Truthful("input") /\ Truthful("output")
    BY <1>1, <1>3, <2>1, FullBlocked DEF Truthful
  <2> QED BY <1>1, <2>1, <2>2 DEF Traced, Directions, OverInput
<1> QED BY <1>2, <1>3 DEF OverInput

LEMMA OverOutputTraced == ASSUME pc = "over", OverOutput PROVE Traced
<1>1. Passed("input") /\ Allowed("input") /\ direction = "output"
  BY DEF OverOutput, Passed
<1>2. CASE events = <<InputEvent>>
  <2>1. EventsOf("input") = {1} /\ EventsOf("output") = {} /\ events[1] = InputEvent
    BY <1>2, OneEvent, InputEventDirection
  <2>2. Truthful("input") /\ Truthful("output")
    BY <1>1, <2>1, InputTruthful DEF Truthful
  <2>3. (outcome = "answered" => hook = "raises") /\ (outcome = "violation" => hook = "vetoes")
    <3>1. InputEvent # Full("output")
      BY InputEventDirection, FullBlocked
    <3>2. <<InputEvent>> # <<InputEvent, Full("output")>>
      <4>1. Len(<<InputEvent>>) = 1 /\ Len(<<InputEvent, Full("output")>>) = 2
        OBVIOUS
      <4> QED BY <4>1
    <3> QED BY <1>2, <3>2 DEF OverOutput, CutShort
  <2> QED BY <1>1, <2>1, <2>2, <2>3 DEF Traced, Directions, Passed
<1>3. CASE /\ events = <<InputEvent, Full("output")>>
           /\ outcome = "answered" <=> ~Blocks(judged["output"].findings)
  <2>1. EventsOf("input") = {1} /\ EventsOf("output") = {2} /\ events[1] = InputEvent
        /\ events[2] = Full("output")
    BY <1>3, TwoEvents, InputEventDirection, FullBlocked
  <2>2. Truthful("input")
    BY <1>1, <2>1, InputTruthful
  <2>3. Truthful("output")
    BY <1>3, <2>1, FullBlocked DEF Truthful, Passed
  <2> QED BY <1>1, <2>1, <2>2, <2>3 DEF Traced, Directions
<1> QED BY <1>2, <1>3 DEF OverOutput

\* Every prompt that reached the LLM, every text a policy blocked and every answer
\* that was read left one event, which says what was found, except under a hook that
\* raised.
THEOREM EveryCallTraced == Spec => []Traced
<1>1. CallbackInv => Traced
  <2> SUFFICES ASSUME CallbackInv PROVE Traced
    OBVIOUS
  <2>1. CASE pc = "over" /\ OverInput
    BY <2>1, OverInputTraced
  <2>2. CASE pc = "over" /\ OverOutput
    BY <2>2, OverOutputTraced
  <2>3. CASE pc = "over" /\ OverBetween
    BY <2>3, InputOutTraced DEF OverBetween, Passed
  <2>4. CASE pc = "calling" \/ (pc = "scanning" /\ direction = "output")
    <3>1. InputOut /\ Passed("input") /\ outcome = "none"
      BY <2>4 DEF CallbackInv, Early, Passed
    <3> QED BY <3>1, InputOutTraced
  <2>5. CASE pc = "ready" \/ (pc = "scanning" /\ direction = "input")
    <3>1. events = <<>> /\ ~Passed("input") /\ ~Passed("output") /\ outcome = "none"
      BY <2>5 DEF CallbackInv, Early, Passed
    <3> QED BY <3>1, SilentTraced
  <2> QED BY <2>1, <2>2, <2>3, <2>4, <2>5 DEF CallbackInv, TypeOK, Directions
<1> QED BY CallbackInvariant, <1>1, PTL
=============================================================================
