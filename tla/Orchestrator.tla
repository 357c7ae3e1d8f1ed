---------------------------- MODULE Orchestrator ----------------------------
(***************************************************************************)
(* One run of the agent loop: Orchestrator.run of                          *)
(* backend/app/services/orchestrator.py.  The model is asked at most       *)
(* MaxSteps times; a reply is a final answer, a batch of tool calls or     *)
(* nothing at all.  Texts and tool results are left out, down to what the  *)
(* control flow distinguishes: which tool, which web-search intent, whether *)
(* a call succeeded, whether the validator objects.  What the client of a  *)
(* stream has on its screen is kept, as the turns whose text it shows.     *)
(***************************************************************************)
EXTENDS Naturals, Sequences

CONSTANTS
    Tools,              \* names of the tools that exist
    Invented,           \* a tool name that does not exist
    Intents,            \* web-search intents: equivalent arguments are one intent
    NoIntent,           \* the intent of any other call
    MaxSteps,           \* max_steps
    MaxRegenerations,   \* max_regenerations
    MaxCalls            \* bound: tool calls in one reply

ASSUME ConstantsAssumption ==
    /\ Invented \notin Tools
    /\ "" \notin Tools \union {Invented}
    /\ NoIntent \notin Intents
    /\ MaxSteps \in Nat \ {0}
    /\ MaxRegenerations \in Nat
    /\ MaxCalls \in Nat

VARIABLES
    pc,                 \* "ask", "judge", "act", "done" or "failed"
    turns,              \* model turns so far
    reply,              \* the steps of the last reply
    streamed,           \* its text has reached the client
    turnBase,           \* turn_base: where its steps begin in the trace
    offset,             \* how many of its steps have been worked off
    steps,              \* the accumulated trace
    executed,           \* the executed tool calls
    messages,           \* what was added to the dialogue with the model
    regenerations,
    validationRetries,
    emptyRetries,
    retryPending,       \* empty_retry_instruction_pending
    emptyResponse,
    answer,             \* the final answer
    shown               \* the turns whose text is on the client's screen

counters == <<regenerations, validationRetries, emptyRetries>>
trace    == <<reply, streamed, turnBase, offset, steps>>
vars == <<pc, turns, trace, executed, messages, counters, retryPending, emptyResponse,
          answer, shown>>

-----------------------------------------------------------------------------
(* Replies, the trace and the dialogue.                                    *)

Step(type, tool, intent) == [type |-> type, tool |-> tool, intent |-> intent]

Thought  == Step("thought", "", NoIntent)
Final    == Step("final", "", NoIntent)
Call(tool, intent) == Step("action", tool, intent)
Observation(tool)  == Step("observation", tool, NoIntent)

Calls == {Call(tool, NoIntent) : tool \in (Tools \union {Invented}) \ {"web_search"}}
         \union {Call("web_search", intent) : intent \in Intents}

\* What _message_to_trace of the vLLM client makes of a completion: an answer,
\* calls with or without narration, or nothing.
Replies ==
    {<<>>, <<Final>>}
    \union {narration \o calls : narration \in {<<>>, <<Thought>>},
                calls \in UNION {[1..n -> Calls] : n \in 1..MaxCalls}}

IsAnswer(r) == \E i \in DOMAIN r : r[i] = Final
HasCalls(r) == \E i \in DOMAIN r : r[i].type = "action"
HasText(r)  == \E i \in DOMAIN r : r[i].type \in {"final", "thought"}

NoAnswer         == [by |-> "none", turn |-> 0]
ModelAnswer(t)   == [by |-> "model", turn |-> t]
Fallback(reason) == [by |-> reason, turn |-> 0]

\* A message for the model: an instruction, a reply's calls, or one result.
Instruction(what) == [role |-> "user", what |-> what, turn |-> turns]
CallsMessage      == [role |-> "assistant", what |-> "calls", turn |-> turns]
ResultMessage     == [role |-> "tool", what |-> "result", turn |-> turns]

Init ==
    /\ pc = "ask"
    /\ turns = 0
    /\ reply = <<>>
    /\ streamed = FALSE
    /\ turnBase = 0
    /\ offset = 0
    /\ steps = <<>>
    /\ executed = <<>>
    /\ messages = <<>>
    /\ regenerations = 0
    /\ validationRetries = 0
    /\ emptyRetries = 0
    /\ retryPending = FALSE
    /\ emptyResponse = FALSE
    /\ answer = NoAnswer
    /\ shown = <<>>

-----------------------------------------------------------------------------
(* The model's turn.                                                       *)

\* The last turn is reserved for the answer: it is offered no tools.
ToolsForTurn == IF turns < MaxSteps - 1 THEN Tools ELSE {}

\* The model is told when its tools are gone, unless it was just told to recover.
BudgetNotice ==
    IF ToolsForTurn = {} /\ Tools # {} /\ ~retryPending
    THEN <<Instruction("budget")>> ELSE <<>>

ModelReplies ==
    /\ pc = "ask"
    /\ turns < MaxSteps
    /\ messages' = messages \o BudgetNotice
    /\ reply' \in Replies
    /\ streamed' \in {FALSE, HasText(reply')}
    /\ shown' = IF streamed' THEN Append(shown, turns + 1) ELSE shown
    /\ turns' = turns + 1
    /\ steps' = steps \o reply'
    /\ offset' = 0
    /\ retryPending' = FALSE
    /\ pc' = "judge"
    /\ UNCHANGED <<turnBase, executed, counters, emptyResponse, answer>>

\* The client raises, perhaps after some text: OrchestratorExecutionError carries
\* the calls made so far.
ModelFails ==
    /\ pc = "ask"
    /\ turns < MaxSteps
    /\ messages' = messages \o BudgetNotice
    /\ shown' \in {shown, Append(shown, turns + 1)}
    /\ turns' = turns + 1
    /\ pc' = "failed"
    /\ UNCHANGED <<trace, executed, counters, retryPending,
                   emptyResponse, answer>>

\* The for loop's else branch.
ExhaustBudget ==
    /\ pc = "ask"
    /\ turns = MaxSteps
    /\ answer' = Fallback("budget")
    /\ steps' = Append(steps, Final)
    /\ pc' = "done"
    /\ UNCHANGED <<turns, reply, streamed, turnBase, offset, executed, messages, counters,
                   retryPending, emptyResponse, shown>>

-----------------------------------------------------------------------------
(* The reply is judged.                                                    *)

\* Variation, to test the properties: the client is not told to drop the text.
AfterReset_Kept == shown

\* answer_reset tells the client to drop what this run has streamed.
AfterReset == IF streamed THEN <<>> ELSE shown

\* The validator has no objection, or none that may still be acted on.
AcceptAnswer ==
    /\ pc = "judge"
    /\ IsAnswer(reply)
    /\ answer' = ModelAnswer(turns)
    /\ pc' = "done"
    /\ UNCHANGED <<turns, trace, executed, messages, counters,
                   retryPending, emptyResponse, shown>>

RejectionAllowed == validationRetries < MaxRegenerations

\* The validator names a problem and the model is asked again.
RejectAnswer ==
    /\ pc = "judge"
    /\ IsAnswer(reply)
    /\ RejectionAllowed
    /\ validationRetries' = validationRetries + 1
    /\ regenerations' = regenerations + 1
    /\ messages' = Append(messages, Instruction("problem"))
    /\ shown' = AfterReset
    /\ pc' = "ask"
    /\ UNCHANGED <<turns, trace, executed, emptyRetries,
                   retryPending, emptyResponse, answer>>

\* Neither text nor a call: one recovery turn, if a turn is left ...
RecoverEmpty ==
    /\ pc = "judge"
    /\ ~IsAnswer(reply)
    /\ ~HasCalls(reply)
    /\ emptyRetries = 0
    /\ turns < MaxSteps
    /\ emptyRetries' = 1
    /\ regenerations' = regenerations + 1
    /\ retryPending' = TRUE
    /\ messages' = Append(messages, Instruction("recovery"))
    /\ pc' = "ask"
    /\ UNCHANGED <<turns, trace, executed, validationRetries,
                   emptyResponse, answer, shown>>

\* ... otherwise the run ends without an answer and says so.
GiveUpEmpty ==
    /\ pc = "judge"
    /\ ~IsAnswer(reply)
    /\ ~HasCalls(reply)
    /\ emptyRetries > 0 \/ turns = MaxSteps
    /\ emptyResponse' = TRUE
    /\ pc' = "done"
    /\ UNCHANGED <<turns, trace, executed, messages, counters,
                   retryPending, answer, shown>>

\* Whether the turn that was just played had been offered tools.
HadTools == Tools # {} /\ turns < MaxSteps

\* Calls although no tools were offered: none is made.
RefuseCalls ==
    /\ pc = "judge"
    /\ ~IsAnswer(reply)
    /\ HasCalls(reply)
    /\ ~HadTools
    /\ shown' = AfterReset
    /\ answer' = Fallback("no_tools")
    /\ steps' = Append(steps, Final)
    /\ pc' = "done"
    /\ UNCHANGED <<turns, reply, streamed, turnBase, offset, executed, messages, counters,
                   retryPending, emptyResponse>>

\* The calls are made in order; the text beside them was narration.
StartCalls ==
    /\ pc = "judge"
    /\ ~IsAnswer(reply)
    /\ HasCalls(reply)
    /\ HadTools
    /\ shown' = AfterReset
    /\ turnBase' = Len(steps) - Len(reply)
    /\ pc' = "act"
    /\ UNCHANGED <<turns, reply, streamed, offset, steps, executed, messages, counters,
                   retryPending, emptyResponse, answer>>

-----------------------------------------------------------------------------
(* The tool calls of one reply.                                            *)

\* _completed_equivalent_web_search.
Repeated(call) ==
    /\ call.tool = "web_search"
    /\ \E i \in DOMAIN executed :
        executed[i].tool = "web_search" /\ executed[i].ok /\ executed[i].intent = call.intent

\* Variation, to test the properties: taken again after each observation.
StepIndex_Moving == Len(steps) - Len(reply) + offset

\* turn_base + offset, an index from 0: turn_base was taken before the turn's
\* observations went into the trace.
StepIndex == turnBase + offset

\* A step of the reply that is not a call.
SkipStep ==
    /\ pc = "act"
    /\ offset < Len(reply)
    /\ reply[offset + 1].type # "action"
    /\ offset' = offset + 1
    /\ UNCHANGED <<pc, turns, reply, streamed, turnBase, steps, executed, messages, counters,
                   retryPending, emptyResponse, answer, shown>>

\* One call: an unknown name and a repeated search get an error without running.
ExecuteCall ==
    /\ pc = "act"
    /\ offset < Len(reply)
    /\ LET call == reply[offset + 1]
           runs == call.tool \in Tools /\ ~Repeated(call)
       IN  /\ call.type = "action"
           /\ \E ok \in BOOLEAN :
                /\ ok => runs
                /\ executed' = Append(executed,
                        [step |-> StepIndex, tool |-> call.tool, intent |-> call.intent,
                         ok |-> ok])
           /\ steps' = Append(steps, Observation(call.tool))
    /\ offset' = offset + 1
    /\ UNCHANGED <<pc, turns, reply, streamed, turnBase, messages, counters,
                   retryPending, emptyResponse, answer, shown>>

\* How many of a reply's steps get a result message.
Answered(r) == Len(SelectSeq(r, LAMBDA s : s.type = "action"))

\* The calls and their results are replayed to the model together.
FinishCalls ==
    /\ pc = "act"
    /\ offset = Len(reply)
    /\ messages' = messages \o <<CallsMessage>> \o [i \in 1..Answered(reply) |-> ResultMessage]
    /\ pc' = "ask"
    /\ UNCHANGED <<turns, trace, executed, counters,
                   retryPending, emptyResponse, answer, shown>>

Finished == pc \in {"done", "failed"} /\ UNCHANGED vars

Work ==
    \/ ModelReplies \/ ModelFails \/ ExhaustBudget
    \/ AcceptAnswer \/ RejectAnswer \/ RecoverEmpty \/ GiveUpEmpty
    \/ RefuseCalls \/ StartCalls
    \/ SkipStep \/ ExecuteCall \/ FinishCalls

Next == Work \/ Finished

Spec == Init /\ [][Next]_vars

-----------------------------------------------------------------------------
(* Properties.                                                             *)

\* "each executed call can point back at its own ACTION step": the recorded index
\* names the step of the trace that asked for the call, and no two calls name the
\* same step, though observations go into the trace in between (turn_base + offset).
StepIndexPointsAtAction ==
    /\ \A i \in DOMAIN executed :
        /\ executed[i].step + 1 \in DOMAIN steps
        /\ steps[executed[i].step + 1] = Call(executed[i].tool, executed[i].intent)
    /\ \A i, j \in DOMAIN executed : executed[i].step = executed[j].step => i = j

\* What a finished run leaves on the screen of a streaming client is its answer
\* and nothing else: narration and rejected drafts have been reset.
ShownIsAnswer ==
    pc = "done" => shown \in {<<>>, <<answer.turn>>}

=============================================================================
