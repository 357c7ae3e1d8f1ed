------------------------- MODULE OrchestratorProofs -------------------------
(***************************************************************************)
(* For any tools, budget of turns and number of calls in a reply: each     *)
(* executed call points back at its own step of the trace, and a finished  *)
(* run leaves nothing but its answer on the client's screen.               *)
(***************************************************************************)
EXTENDS Orchestrator, TLAPS, SequenceTheorems

Names == Tools \union {Invented, "", "web_search"}
StepRecord == [type : {"thought", "final", "action", "observation"}, tool : Names,
               intent : Intents \union {NoIntent}]
CallRecord == [step : Nat, tool : Names, intent : Intents \union {NoIntent}, ok : BOOLEAN]

Types ==
    /\ turns \in Nat /\ turnBase \in Nat /\ offset \in Nat
    /\ reply \in Seq(StepRecord) /\ steps \in Seq(StepRecord)
    /\ executed \in Seq(CallRecord)

\* The reply at work is in the trace from `base` on.
InTrace(base) ==
    /\ base + Len(reply) <= Len(steps)
    /\ \A k \in 1..Len(reply) : steps[base + k] = reply[k]
Below(n) == \A i \in DOMAIN executed : executed[i].step < n
TurnStart == Len(steps) - Len(reply)

\* Where the calls made so far point, and where the next one will.
Indices ==
    /\ StepIndexPointsAtAction
    /\ pc = "judge" => TurnStart \in Nat /\ InTrace(TurnStart) /\ Below(TurnStart) /\ offset = 0
    /\ pc = "act" => offset <= Len(reply) /\ InTrace(turnBase) /\ Below(turnBase + offset)

\* A reply with neither an answer nor a call has no text: it has shown nothing.
ShownByTurn ==
    /\ pc \in {"ask", "act"} => shown = <<>>
    /\ pc = "judge" =>
        /\ reply \in Replies
        /\ streamed \in {FALSE, HasText(reply)}
        /\ shown = IF streamed THEN <<turns>> ELSE <<>>
    /\ ShownIsAnswer

\* The inductive invariant.
IInv == Types /\ Indices /\ ShownByTurn

-----------------------------------------------------------------------------
(* Replies.                                                                *)

LEMMA CallsAreSteps ==
    ASSUME NEW call \in Calls
    PROVE  call \in StepRecord /\ call.type = "action"
<1>1. ASSUME NEW tool \in Tools \union {Invented, "web_search"}, NEW intent \in Intents \union {NoIntent}
      PROVE  Call(tool, intent) \in StepRecord /\ Call(tool, intent).type = "action"
  BY DEF Call, Step, StepRecord, Names
<1>2. CASE \E tool \in (Tools \union {Invented}) \ {"web_search"} : call = Call(tool, NoIntent)
  BY <1>1, <1>2
<1>3. CASE \E intent \in Intents : call = Call("web_search", intent)
  BY <1>1, <1>3
<1> QED
  BY <1>2, <1>3 DEF Calls

LEMMA FunctionIsSeq ==
    ASSUME NEW S, NEW n \in Nat, NEW f \in [1..n -> S]
    PROVE  f \in Seq(S) /\ Len(f) = n
<1>1. f = [i \in 1..n |-> f[i]]
  OBVIOUS
<1> QED
  BY <1>1

LEMMA CallReplies ==
    ASSUME NEW r \in Replies, r # <<>>, r # <<Final>>
    PROVE  \E narration \in {<<>>, <<Thought>>}, calls \in Seq(Calls) :
              calls # <<>> /\ r = narration \o calls
<1>1. r \in {narration \o calls : narration \in {<<>>, <<Thought>>},
                  calls \in UNION {[1..n -> Calls] : n \in 1..MaxCalls}}
  BY DEF Replies
<1>2. PICK narration \in {<<>>, <<Thought>>}, calls \in UNION {[1..n -> Calls] : n \in 1..MaxCalls} :
        r = narration \o calls
  BY <1>1
<1>3. PICK n \in 1..MaxCalls : calls \in [1..n -> Calls]
  OBVIOUS
<1>4. MaxCalls \in Nat
  BY ConstantsAssumption
<1>5. n \in Nat
  BY <1>3, <1>4
<1>6. n # 0
  BY <1>3, <1>4
<1>7. calls \in Seq(Calls) /\ Len(calls) = n
  BY <1>3, <1>5, FunctionIsSeq
<1>8. calls # <<>>
  BY <1>6, <1>7
<1> QED
  BY <1>2, <1>7, <1>8

LEMMA StepsOfReplies ==
    Final \in StepRecord /\ Thought \in StepRecord
BY DEF Final, Thought, Step, StepRecord, Names

LEMMA OneStep ==
    ASSUME NEW s \in {<<>>, <<Final>>, <<Thought>>}
    PROVE  s \in Seq(StepRecord)
<1>1. <<Final>> \in Seq(StepRecord) /\ <<Thought>> \in Seq(StepRecord)
  BY StepsOfReplies
<1>2. <<>> \in Seq(StepRecord)
  OBVIOUS
<1> QED
  BY <1>1, <1>2

LEMMA RepliesAreSteps == Replies \subseteq Seq(StepRecord)
<1> SUFFICES ASSUME NEW r \in Replies PROVE r \in Seq(StepRecord)
  OBVIOUS
<1>1. CASE r = <<>> \/ r = <<Final>>
  BY <1>1, OneStep
<1>2. CASE r # <<>> /\ r # <<Final>>
  <2>1. PICK narration \in {<<>>, <<Thought>>}, calls \in Seq(Calls) : r = narration \o calls
    BY <1>2, CallReplies
  <2>2. calls \in Seq(StepRecord)
    <3>1. Calls \subseteq StepRecord
      BY CallsAreSteps
    <3> QED
      BY <3>1, SeqMonotonic
  <2>3. narration \in Seq(StepRecord)
    BY <2>1, OneStep
  <2> QED
    BY <2>1, <2>2, <2>3, ConcatProperties
<1> QED
  BY <1>1, <1>2

\* A reply with neither an answer nor a call has no text.
LEMMA SilentReply ==
    ASSUME NEW r \in Replies, ~IsAnswer(r), ~HasCalls(r)
    PROVE  ~HasText(r)
<1>1. CASE r = <<>>
  BY <1>1 DEF HasText
<1>2. CASE r = <<Final>>
  <2>1. 1 \in DOMAIN r /\ r[1] = Final
    BY <1>2
  <2> QED
    BY <2>1 DEF IsAnswer
<1>3. CASE r # <<>> /\ r # <<Final>>
  <2>1. PICK narration \in {<<>>, <<Thought>>}, calls \in Seq(Calls) :
          calls # <<>> /\ r = narration \o calls
    BY <1>3, CallReplies
  <2>2. calls[1] \in Calls /\ Len(calls) \in Nat \ {0}
    BY <2>1, EmptySeq, ElementOfSeq
  <2>3. calls[1].type = "action"
    BY <2>2, CallsAreSteps
  <2>4. Calls \subseteq StepRecord
    BY CallsAreSteps
  <2>5. calls \in Seq(StepRecord) /\ narration \in Seq(StepRecord)
    BY <2>1, <2>4, SeqMonotonic, OneStep
  <2>6. DOMAIN r = 1..(Len(narration) + Len(calls)) /\ r[Len(narration) + 1] = calls[1]
    BY <2>1, <2>2, <2>5
  <2> QED
    BY <2>2, <2>3, <2>5, <2>6 DEF HasCalls
<1> QED
  BY <1>1, <1>2, <1>3

-----------------------------------------------------------------------------
(* Types and indices.                                                      *)

LEMMA InitHolds == Init => IInv
<1> SUFFICES ASSUME Init PROVE IInv
  OBVIOUS
<1>1. Types
  BY DEF Init, Types
<1>2. Indices
  BY DEF Init, Indices, StepIndexPointsAtAction
<1>3. ShownByTurn
  BY DEF Init, ShownByTurn, ShownIsAnswer
<1> QED
  BY <1>1, <1>2, <1>3 DEF IInv

LEMMA IndicesAreNat ==
    ASSUME Types
    PROVE  \A i \in DOMAIN executed : executed[i].step \in Nat
<1> SUFFICES ASSUME NEW i \in DOMAIN executed PROVE executed[i].step \in Nat
  OBVIOUS
<1>1. executed[i] \in CallRecord
  BY DEF Types
<1> QED
  BY <1>1 DEF CallRecord

\* What a call leaves in the list of executed calls and in the trace.
LEMMA CallMade ==
    ASSUME Types, ExecuteCall
    PROVE  /\ offset + 1 \in 1..Len(reply)
           /\ reply[offset + 1] = Call(reply[offset + 1].tool, reply[offset + 1].intent)
           /\ \E call \in CallRecord :
                /\ call.step = turnBase + offset
                /\ call.tool = reply[offset + 1].tool /\ call.intent = reply[offset + 1].intent
                /\ executed' = Append(executed, call)
           /\ \E step \in StepRecord : steps' = Append(steps, step)
<1>1. offset + 1 \in 1..Len(reply)
  BY DEF Types, ExecuteCall
<1>2. reply[offset + 1] \in StepRecord
  BY <1>1, ElementOfSeq DEF Types
<1>3. reply[offset + 1].type = "action"
  BY DEF ExecuteCall
<1>4. reply[offset + 1] = Call(reply[offset + 1].tool, reply[offset + 1].intent)
  BY <1>2, <1>3 DEF StepRecord, Call, Step
<1>5. PICK ok \in BOOLEAN :
        executed' = Append(executed, [step |-> StepIndex, tool |-> reply[offset + 1].tool,
                                      intent |-> reply[offset + 1].intent, ok |-> ok])
  BY DEF ExecuteCall
<1>6. [step |-> StepIndex, tool |-> reply[offset + 1].tool,
       intent |-> reply[offset + 1].intent, ok |-> ok] \in CallRecord
  BY <1>2 DEF StepRecord, CallRecord, StepIndex, Types
<1>7. Observation(reply[offset + 1].tool) \in StepRecord
  BY <1>2 DEF StepRecord, Observation, Step
<1>8. steps' = Append(steps, Observation(reply[offset + 1].tool))
  BY DEF ExecuteCall
<1> QED
  BY <1>1, <1>4, <1>5, <1>6, <1>7, <1>8 DEF StepIndex

LEMMA TypesStep ==
    ASSUME Types, Indices, [Next]_vars
    PROVE  Types'
<1>1. CASE ModelReplies
  <2>1. reply' \in Seq(StepRecord)
    BY <1>1, RepliesAreSteps DEF ModelReplies
  <2> QED
    BY <1>1, <2>1 DEF Types, ModelReplies
<1>2. CASE ModelFails
  BY <1>2 DEF Types, ModelFails, trace
<1>3. CASE ExhaustBudget \/ RefuseCalls
  <2>1. steps' = Append(steps, Final)
    BY <1>3 DEF ExhaustBudget, RefuseCalls
  <2>2. steps' \in Seq(StepRecord)
    BY <2>1, StepsOfReplies DEF Types
  <2>3. UNCHANGED <<turns, turnBase, offset, reply, executed>>
    BY <1>3 DEF ExhaustBudget, RefuseCalls
  <2> QED
    BY <2>2, <2>3 DEF Types
<1>4. CASE AcceptAnswer \/ RejectAnswer \/ RecoverEmpty \/ GiveUpEmpty
  BY <1>4 DEF Types, AcceptAnswer, RejectAnswer, RecoverEmpty, GiveUpEmpty, trace
<1>5. CASE StartCalls
  BY <1>5 DEF Types, StartCalls, Indices, TurnStart
<1>6. CASE SkipStep \/ FinishCalls
  BY <1>6 DEF Types, SkipStep, FinishCalls, trace
<1>7. CASE ExecuteCall
  <2>1. PICK call \in CallRecord : executed' = Append(executed, call)
    BY <1>7, CallMade
  <2>2. PICK step \in StepRecord : steps' = Append(steps, step)
    BY <1>7, CallMade
  <2>3. executed' \in Seq(CallRecord) /\ steps' \in Seq(StepRecord)
    BY <2>1, <2>2 DEF Types
  <2>4. offset' = offset + 1 /\ UNCHANGED <<turns, turnBase, reply>>
    BY <1>7 DEF ExecuteCall
  <2> QED
    BY <2>3, <2>4 DEF Types
<1>8. CASE UNCHANGED vars
  BY <1>8 DEF Types, vars, trace
<1> QED
  BY <1>1, <1>2, <1>3, <1>4, <1>5, <1>6, <1>7, <1>8 DEF Next, Work, Finished

\* What is added to the trace leaves the indices into it alone.
LEMMA TraceGrows ==
    ASSUME Types, StepIndexPointsAtAction, NEW more \in Seq(StepRecord),
           steps' = steps \o more, executed' = executed
    PROVE  StepIndexPointsAtAction'
<1>1. /\ Len(steps') = Len(steps) + Len(more) /\ steps' \in Seq(StepRecord)
      /\ \A k \in 1..Len(steps) : steps'[k] = steps[k]
  BY DEF Types
<1>2. ASSUME NEW i \in DOMAIN executed
      PROVE  /\ executed[i].step + 1 \in 1..Len(steps)
             /\ steps[executed[i].step + 1] = Call(executed[i].tool, executed[i].intent)
  BY DEF StepIndexPointsAtAction, Types
<1>3. ASSUME NEW i \in DOMAIN executed
      PROVE  /\ executed[i].step + 1 \in DOMAIN steps'
             /\ steps'[executed[i].step + 1] = Call(executed[i].tool, executed[i].intent)
  BY <1>1, <1>2 DEF Types
<1> QED
  BY <1>3 DEF StepIndexPointsAtAction

\* The new reply stands at the end of the trace, behind every call that was made.
LEMMA ReplyIndices ==
    ASSUME Types, Indices, ModelReplies
    PROVE  Indices'
<1>1. /\ steps' = steps \o reply' /\ executed' = executed /\ reply' \in Seq(StepRecord)
      /\ pc' = "judge" /\ offset' = 0
  BY RepliesAreSteps DEF ModelReplies
<1>2. StepIndexPointsAtAction'
  BY <1>1, TraceGrows DEF Indices
<1>3. /\ Len(steps') = Len(steps) + Len(reply')
      /\ \A k \in 1..Len(reply') : steps'[Len(steps) + k] = reply'[k]
  BY <1>1 DEF Types
<1>4. TurnStart' = Len(steps)
  BY <1>1, <1>3 DEF TurnStart, Types
<1>5. InTrace(TurnStart)'
  BY <1>3, <1>4, <1>1 DEF InTrace, Types
<1>6. Below(Len(steps))
  <2> SUFFICES ASSUME NEW i \in DOMAIN executed PROVE executed[i].step < Len(steps)
    BY DEF Below
  <2>1. executed[i].step + 1 \in DOMAIN steps /\ executed[i].step \in Nat
    BY IndicesAreNat DEF Indices, StepIndexPointsAtAction
  <2> QED
    BY <2>1 DEF Types
<1>7. Below(TurnStart)'
  BY <1>1, <1>4, <1>6 DEF Below
<1> QED
  BY <1>1, <1>2, <1>4, <1>5, <1>7 DEF Indices, Types

LEMMA CallIndices ==
    ASSUME Types, Indices, ExecuteCall
    PROVE  Indices'
<1>1. /\ pc = "act" /\ pc' = "act" /\ offset' = offset + 1 /\ turnBase' = turnBase
      /\ reply' = reply
  BY DEF ExecuteCall
<1>2. PICK call \in CallRecord, step \in StepRecord :
        /\ call.step = turnBase + offset
        /\ call.tool = reply[offset + 1].tool /\ call.intent = reply[offset + 1].intent
        /\ executed' = Append(executed, call) /\ steps' = Append(steps, step)
  BY CallMade
<1>3. /\ offset + 1 \in 1..Len(reply)
      /\ reply[offset + 1] = Call(call.tool, call.intent)
  BY <1>2, CallMade
<1>4. /\ InTrace(turnBase) /\ Below(turnBase + offset) /\ StepIndexPointsAtAction
  BY <1>1 DEF Indices
<1>5. /\ Len(steps') = Len(steps) + 1 /\ DOMAIN steps' = 1..(Len(steps) + 1)
      /\ \A k \in 1..Len(steps) : steps'[k] = steps[k]
  BY <1>2 DEF Types
<1>6. /\ DOMAIN executed = 1..Len(executed) /\ Len(executed) \in Nat
      /\ DOMAIN executed' = 1..(Len(executed) + 1)
      /\ \A i \in 1..Len(executed) : executed'[i] = executed[i]
      /\ executed'[Len(executed) + 1] = call
  BY <1>2 DEF Types
<1>7. /\ turnBase + offset + 1 \in 1..Len(steps)
      /\ steps[turnBase + offset + 1] = Call(call.tool, call.intent)
  BY <1>3, <1>4 DEF InTrace, Types
<1>8. ASSUME NEW i \in 1..Len(executed)
      PROVE  /\ executed[i].step < turnBase + offset /\ executed[i].step \in Nat
             /\ executed[i].step + 1 \in 1..Len(steps)
             /\ steps[executed[i].step + 1] = Call(executed[i].tool, executed[i].intent)
  <2>1. i \in DOMAIN executed
    BY <1>6
  <2>2. executed[i].step \in Nat /\ DOMAIN steps = 1..Len(steps)
    BY <2>1, IndicesAreNat DEF Types
  <2> QED
    BY <2>1, <2>2, <1>4 DEF Below, StepIndexPointsAtAction
<1>9. ASSUME NEW i \in DOMAIN executed'
      PROVE  /\ executed'[i].step + 1 \in DOMAIN steps'
             /\ steps'[executed'[i].step + 1] = Call(executed'[i].tool, executed'[i].intent)
  <2>1. CASE i \in 1..Len(executed)
    <3>1. executed'[i] = executed[i]
      BY <2>1, <1>6
    <3>2. /\ executed[i].step + 1 \in 1..Len(steps)
          /\ steps[executed[i].step + 1] = Call(executed[i].tool, executed[i].intent)
      BY <2>1, <1>8
    <3> QED
      BY <3>1, <3>2, <1>5 DEF Types
  <2>2. CASE i = Len(executed) + 1
    BY <2>2, <1>2, <1>5, <1>6, <1>7 DEF Types
  <2> QED
    BY <1>6, <2>1, <2>2
<1>10. ASSUME NEW i \in DOMAIN executed', NEW j \in DOMAIN executed',
              executed'[i].step = executed'[j].step
       PROVE  i = j
  <2>1. CASE i \in 1..Len(executed) /\ j \in 1..Len(executed)
    BY <2>1, <1>4, <1>6, <1>10 DEF StepIndexPointsAtAction
  <2>2. CASE i = Len(executed) + 1 /\ j = Len(executed) + 1
    BY <2>2
  <2>3. CASE \/ i \in 1..Len(executed) /\ j = Len(executed) + 1
             \/ j \in 1..Len(executed) /\ i = Len(executed) + 1
    BY <2>3, <1>2, <1>6, <1>8, <1>10 DEF Types
  <2> QED
    BY <1>6, <2>1, <2>2, <2>3
<1>11. InTrace(turnBase)'
  <2>1. turnBase + Len(reply) <= Len(steps) /\ Len(reply) \in Nat /\ Len(steps) \in Nat
    BY <1>4 DEF InTrace, Types
  <2>2. ASSUME NEW k \in 1..Len(reply) PROVE steps'[turnBase + k] = reply[k]
    <3>1. turnBase + k \in 1..Len(steps) /\ steps[turnBase + k] = reply[k]
      BY <2>1, <1>4 DEF InTrace, Types
    <3> QED
      BY <3>1, <1>5
  <2>3. turnBase + Len(reply) <= Len(steps')
    BY <2>1, <1>5 DEF Types
  <2> QED
    BY <1>1, <2>2, <2>3 DEF InTrace
<1>12. Below(turnBase + offset)'
  <2> SUFFICES ASSUME NEW i \in DOMAIN executed' PROVE executed'[i].step < turnBase + (offset + 1)
    BY <1>1 DEF Below
  <2>1. CASE i \in 1..Len(executed)
    BY <2>1, <1>6, <1>8 DEF Types
  <2>2. CASE i = Len(executed) + 1
    BY <2>2, <1>2, <1>6 DEF Types
  <2> QED
    BY <1>6, <2>1, <2>2
<1>13. offset' <= Len(reply')
  BY <1>1, <1>3
<1> QED
  BY <1>1, <1>9, <1>10, <1>11, <1>12, <1>13 DEF Indices, StepIndexPointsAtAction

LEMMA IndicesStep ==
    ASSUME Types, Indices, [Next]_vars
    PROVE  Indices'
<1>1. CASE ModelReplies
  BY <1>1, ReplyIndices
<1>2. CASE ModelFails \/ AcceptAnswer \/ RejectAnswer \/ RecoverEmpty \/ GiveUpEmpty \/ FinishCalls
  <2>1. steps' = steps /\ executed' = executed /\ pc' \notin {"judge", "act"}
    BY <1>2 DEF ModelFails, AcceptAnswer, RejectAnswer, RecoverEmpty, GiveUpEmpty, FinishCalls, trace
  <2> QED
    BY <2>1 DEF Indices, StepIndexPointsAtAction
<1>3. CASE ExhaustBudget \/ RefuseCalls
  <2>1. steps' = Append(steps, Final) /\ executed' = executed /\ pc' = "done"
    BY <1>3 DEF ExhaustBudget, RefuseCalls
  <2>2. steps' = steps \o <<Final>> /\ <<Final>> \in Seq(StepRecord)
    BY <2>1, StepsOfReplies DEF Types
  <2>3. StepIndexPointsAtAction'
    BY <2>1, <2>2, TraceGrows DEF Indices
  <2> QED
    BY <2>1, <2>3 DEF Indices
<1>4. CASE StartCalls
  <2>1. /\ pc = "judge" /\ pc' = "act" /\ turnBase' = TurnStart
        /\ UNCHANGED <<steps, executed, reply, offset>>
    BY <1>4 DEF StartCalls, TurnStart
  <2>2. StepIndexPointsAtAction /\ InTrace(TurnStart) /\ Below(TurnStart) /\ offset = 0
        /\ TurnStart \in Nat
    BY <2>1 DEF Indices
  <2>3. StepIndexPointsAtAction' /\ InTrace(turnBase)' /\ Below(turnBase + offset)'
    BY <2>1, <2>2 DEF StepIndexPointsAtAction, InTrace, Below
  <2> QED
    BY <2>1, <2>2, <2>3 DEF Indices, Types
<1>5. CASE SkipStep
  <2>1. /\ pc = "act" /\ pc' = "act" /\ offset < Len(reply) /\ offset' = offset + 1
        /\ UNCHANGED <<steps, executed, reply, turnBase>>
    BY <1>5 DEF SkipStep
  <2>2. StepIndexPointsAtAction /\ InTrace(turnBase) /\ Below(turnBase + offset)
    BY <2>1 DEF Indices
  <2>3. StepIndexPointsAtAction' /\ InTrace(turnBase)'
    BY <2>1, <2>2 DEF StepIndexPointsAtAction, InTrace
  <2>4. \A i \in DOMAIN executed : executed[i].step \in Nat
    BY IndicesAreNat
  <2>5. Below(turnBase + offset)'
    BY <2>1, <2>2, <2>4 DEF Below, Types
  <2> QED
    BY <2>1, <2>3, <2>5 DEF Indices, Types
<1>6. CASE ExecuteCall
  BY <1>6, CallIndices
<1>7. CASE UNCHANGED vars
  BY <1>7 DEF vars, trace, Indices, StepIndexPointsAtAction, InTrace, Below, TurnStart
<1> QED
  BY <1>1, <1>2, <1>3, <1>4, <1>5, <1>6, <1>7 DEF Next, Work, Finished

-----------------------------------------------------------------------------
(* The screen.                                                             *)

LEMMA ShownStep ==
    ASSUME Types, ShownByTurn, [Next]_vars
    PROVE  ShownByTurn'
<1>1. CASE ModelReplies
  <2>1. /\ pc = "ask" /\ pc' = "judge" /\ turns' = turns + 1 /\ reply' \in Replies
        /\ streamed' \in {FALSE, HasText(reply')}
        /\ shown' = IF streamed' THEN Append(shown, turns + 1) ELSE shown
    BY <1>1 DEF ModelReplies
  <2>2. shown = <<>>
    BY <2>1 DEF ShownByTurn
  <2>3. Append(shown, turns + 1) = <<turns'>>
    BY <2>1, <2>2
  <2>4. shown' = IF streamed' THEN <<turns'>> ELSE <<>>
    BY <2>1, <2>2, <2>3
  <2> QED
    BY <2>1, <2>4 DEF ShownByTurn, ShownIsAnswer
<1>2. CASE ModelFails
  BY <1>2 DEF ModelFails, ShownByTurn, ShownIsAnswer
<1>3. CASE ExhaustBudget
  BY <1>3 DEF ExhaustBudget, ShownByTurn, ShownIsAnswer
<1>4. CASE AcceptAnswer
  BY <1>4 DEF AcceptAnswer, ShownByTurn, ShownIsAnswer, ModelAnswer
<1>5. CASE RejectAnswer
  BY <1>5 DEF RejectAnswer, AfterReset, ShownByTurn, ShownIsAnswer
<1>6. CASE RecoverEmpty \/ GiveUpEmpty
  <2>1. pc = "judge" /\ ~IsAnswer(reply) /\ ~HasCalls(reply) /\ shown' = shown /\ pc' # "judge"
    BY <1>6 DEF RecoverEmpty, GiveUpEmpty
  <2>2. ~HasText(reply)
    BY <2>1, SilentReply DEF ShownByTurn
  <2>3. shown = <<>>
    BY <2>1, <2>2 DEF ShownByTurn
  <2> QED
    BY <2>1, <2>3 DEF ShownByTurn, ShownIsAnswer
<1>7. CASE RefuseCalls \/ StartCalls
  <2>1. pc = "judge" /\ pc' # "judge" /\ shown' = AfterReset
    BY <1>7 DEF RefuseCalls, StartCalls
  <2>2. shown' = <<>>
    BY <2>1 DEF AfterReset, ShownByTurn
  <2> QED
    BY <2>1, <2>2 DEF ShownByTurn, ShownIsAnswer
<1>8. CASE SkipStep \/ ExecuteCall \/ FinishCalls
  <2>1. pc = "act" /\ pc' \in {"act", "ask"} /\ shown' = shown
    BY <1>8 DEF SkipStep, ExecuteCall, FinishCalls
  <2> QED
    BY <2>1 DEF ShownByTurn, ShownIsAnswer
<1>9. CASE UNCHANGED vars
  BY <1>9 DEF vars, trace, ShownByTurn, ShownIsAnswer
<1> QED
  BY <1>1, <1>2, <1>3, <1>4, <1>5, <1>6, <1>7, <1>8, <1>9 DEF Next, Work, Finished

LEMMA Invariance == Spec => []IInv
<1>1. IInv /\ [Next]_vars => IInv'
  BY TypesStep, IndicesStep, ShownStep DEF IInv
<1> QED
  BY InitHolds, <1>1, PTL DEF Spec

\* Each recorded call (_execute_and_record's step index) names the step of the trace that asked
\* for it, and no two calls the same one, for any tools, budget and number of calls in a reply.
THEOREM StepIndexPointsAtActionAlways == Spec => []StepIndexPointsAtAction
<1>1. IInv => StepIndexPointsAtAction
  BY DEF IInv, Indices
<1> QED
  BY Invariance, <1>1, PTL

\* Narration, rejected drafts and refused calls leave nothing on the screen of a stream: a
\* finished run shows its answer or, yet, nothing.
THEOREM ShownIsAnswerAlways == Spec => []ShownIsAnswer
<1>1. IInv => ShownIsAnswer
  BY DEF IInv, ShownByTurn
<1> QED
  BY Invariance, <1>1, PTL
=============================================================================
