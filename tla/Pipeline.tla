------------------------------ MODULE Pipeline ------------------------------
(***************************************************************************)
(* One request through run_pipeline (backend/app/services/pipeline.py):    *)
(* context, input gates, at most two attempts of the agent loop, answer    *)
(* checks, the durable record, and what the handler of an exception still  *)
(* records.  An attempt is a run of Orchestrator, kept as its outcome, the *)
(* length of its trace, the steps its tool calls were made at and the      *)
(* number of its model turns.  What a streaming client has on its screen   *)
(* is kept as the texts shown there.  The sources and pins of an answer    *)
(* are left to References; a blocked answer loses them.                    *)
(***************************************************************************)
EXTENDS Naturals, Sequences, FiniteSets

CONSTANTS
    MaxTurns,       \* the step budget of one attempt, in model turns
    MaxTrace        \* bound: the steps of one attempt's trace

ASSUME ConstantsAssumption == MaxTurns \in Nat \ {0} /\ MaxTrace \in Nat \ {0}

VARIABLES
    pc,             \* the next stage
    streaming,      \* there is a progress callback (POST /chat/stream)
    gates,          \* the verdicts: scope, censorship, output
    runs,           \* orchestration_runs
    failedRun,      \* the OrchestratorExecutionError that was raised, if any
    streamed,       \* text of the attempt at work is on the screen
    screen,         \* the texts on the screen of the client
    noticeVisible,  \* retry_notice_visible
    assigned,       \* the try block has assigned a value to `orchestration`
    answer,         \* the answer, by where it comes from
    dbDown,         \* the database failed in the exception handler as well
    record          \* what the request leaves in the database

output == <<streamed, screen, noticeVisible>>
vars == <<pc, streaming, gates, runs, failedRun, output, assigned, answer, dbDown, record>>

Texts       == <<"first", "second">>    \* the texts the two attempts produce
Attempt     == Len(runs) + 1

\* A call was made at step `own` of its attempt; `step` is what is recorded.
CallsOf(attempt, steps) == {[attempt |-> attempt, own |-> i, step |-> i] : i \in steps}
TurnsOf(attempt, n)     == {[attempt |-> attempt, own |-> t, index |-> t] : t \in 1..n}

Run(attempt, trace, steps, turns) ==
    [trace |-> trace, calls |-> CallsOf(attempt, steps), turns |-> TurnsOf(attempt, turns),
     count |-> turns]

NoRun == Run(0, 0, {}, 0)

NoRecord == [kind |-> "none", reason |-> "none", answer |-> "",
             trace |-> <<>>, calls |-> {}, turns |-> {}]

-----------------------------------------------------------------------------
(* The attempts put together.                                              *)

\* Variation, to test the properties: the second attempt is not renumbered.
TurnsBefore_None(rs, i) == 0
TurnsBefore(rs, i) == IF i = 1 THEN 0 ELSE rs[1].count
StepsBefore(rs, i) == IF i = 1 THEN 0 ELSE rs[1].trace

\* Variation, to test the properties: the calls keep the numbers of their own attempt.
Shift_Not(calls, by) == calls
Shift(calls, by) == {[c EXCEPT !.step = @ + by] : c \in calls}
ShiftTurns(turns, by) == {[t EXCEPT !.index = @ + by] : t \in turns}

\* _combine_orchestrator_runs: one trace, the calls and turns renumbered behind
\* those of the earlier attempt.
CombinedTrace(rs) ==
    [k \in 1..(StepsBefore(rs, Len(rs)) + rs[Len(rs)].trace) |->
        IF k <= StepsBefore(rs, Len(rs)) THEN [attempt |-> 1, own |-> k - 1]
        ELSE [attempt |-> Len(rs), own |-> k - 1 - StepsBefore(rs, Len(rs))]]

CombinedCalls(rs) == UNION {Shift(rs[i].calls, StepsBefore(rs, i)) : i \in DOMAIN rs}
CombinedTurns(rs) == UNION {ShiftTurns(rs[i].turns, TurnsBefore(rs, i)) : i \in DOMAIN rs}

\* What the exception carries: its own turns behind those of the earlier attempt.
FailureTurns(rs, failed) ==
    IF rs = <<>> THEN failed.turns
    ELSE CombinedTurns(rs) \union ShiftTurns(failed.turns, rs[Len(rs)].count)

FailureCalls(rs, failed) ==
    IF rs = <<>> THEN failed.calls
    ELSE LET earlier == CombinedCalls(rs)
             used    == {c.step + 1 : c \in earlier} \union {0}
         IN  earlier \union Shift(failed.calls, CHOOSE n \in used : \A m \in used : m <= n)

-----------------------------------------------------------------------------

Init ==
    /\ pc = "context"
    /\ streaming \in BOOLEAN
    /\ gates = [g \in {"scope", "censorship", "output"} |-> "unknown"]
    /\ runs = <<>>
    /\ failedRun = NoRun
    /\ streamed = FALSE
    /\ screen = {}
    /\ noticeVisible = FALSE
    /\ assigned = FALSE
    /\ answer = ""
    /\ dbDown = FALSE
    /\ record = NoRecord

-----------------------------------------------------------------------------
(* Before the model.                                                       *)

\* recent_history, the user context and the unlock flag.
ReadContext ==
    /\ pc = "context"
    /\ pc' = "gates"
    /\ UNCHANGED <<streaming, gates, runs, failedRun, output, assigned, answer, dbDown, record>>

\* _outcome: both gates must let the message pass.
Admitted(scope, censorship) == scope = "pass" /\ censorship = "pass"

\* Both gates are asked; a gate that fails rejects.  `orchestration` and the
\* answer get their first values after the gates.
RunPreflightGates ==
    /\ pc = "gates"
    /\ \E scope, censorship \in {"pass", "reject"} :
        /\ gates' = [gates EXCEPT !["scope"] = scope, !["censorship"] = censorship]
        /\ IF Admitted(scope, censorship)
           THEN pc' = "run" /\ UNCHANGED answer
           ELSE pc' = "save" /\ answer' = "refusal"
    /\ assigned' = TRUE
    /\ UNCHANGED <<streaming, runs, failedRun, output, dbDown, record>>

\* The rejection recorded with the request: censorship wins over scope.
RejectionReason ==
    CASE gates["censorship"] = "reject" -> "censorship"
      [] gates["scope"] = "reject"      -> "out_of_scope"
      [] gates["output"] = "reject"     -> "output_censorship"
      [] OTHER                          -> "none"

-----------------------------------------------------------------------------
(* The attempts of the agent loop.                                         *)

\* Variation, to test the properties: the waiting notice is left standing.
OnScreenBeforeChunk_Kept == screen

\* report_retry_answer_chunk: the first text of the second attempt replaces the notice.
OnScreenBeforeChunk == IF noticeVisible THEN {} ELSE screen

StreamText ==
    /\ pc = "run"
    /\ streaming
    /\ screen' = OnScreenBeforeChunk \union {Texts[Attempt]}
    /\ noticeVisible' = FALSE
    /\ streamed' = TRUE
    /\ UNCHANGED <<pc, streaming, gates, runs, failedRun, assigned, answer, dbDown, record>>

\* answer_reset of the agent loop: narration and rejected drafts go.
ResetStreamedText ==
    /\ pc = "run"
    /\ streamed
    /\ screen' = {}
    /\ streamed' = FALSE
    /\ UNCHANGED <<pc, streaming, gates, runs, failedRun, noticeVisible, assigned, answer,
                   dbDown, record>>

\* The answer of an attempt, streamed or not.
RunAnswers ==
    /\ pc = "run"
    /\ \E trace \in 1..MaxTrace, n \in 1..MaxTurns : \E steps \in SUBSET (0..(trace - 2)) :
        runs' = Append(runs, Run(Attempt, trace, steps, n))
    /\ answer' = Texts[Attempt]
    /\ pc' = "check"
    /\ UNCHANGED <<streaming, gates, failedRun, output, assigned, dbDown, record>>

\* The client is told that there will be another attempt.
ShowNotice ==
    /\ screen' = IF streaming THEN {"notice"} ELSE screen
    /\ noticeVisible' = streaming
    /\ streamed' = FALSE

\* A first attempt without an answer: start again with a clean agent loop.
FirstRunIsEmpty ==
    /\ pc = "run"
    /\ Attempt = 1
    /\ ~streamed
    /\ \E trace \in 0..MaxTrace, n \in 1..MaxTurns : \E steps \in SUBSET (0..(trace - 1)) :
        runs' = Append(runs, Run(Attempt, trace, steps, n))
    /\ ShowNotice
    /\ UNCHANGED <<pc, streaming, gates, failedRun, assigned, answer, dbDown, record>>

\* _failed_orchestrator_run: the calls and turns of a timed-out attempt, its trace lost.
TimedOut(steps, n) == Run(Attempt, 0, steps, n)

\* The model timed out in the first attempt: the same clean restart.
FirstRunTimesOut ==
    /\ pc = "run"
    /\ Attempt = 1
    /\ \E n \in 1..MaxTurns : \E steps \in SUBSET (0..(MaxTrace - 1)) :
        runs' = Append(runs, TimedOut(steps, n))
    /\ ShowNotice
    /\ UNCHANGED <<pc, streaming, gates, failedRun, assigned, answer, dbDown, record>>

\* A second attempt without an answer: the failure message is the answer.
SecondRunIsEmpty ==
    /\ pc = "run"
    /\ Attempt = 2
    /\ ~streamed
    /\ \E trace \in 0..(MaxTrace - 1), n \in 1..MaxTurns : \E steps \in SUBSET (0..(trace - 1)) :
        runs' = Append(runs, Run(Attempt, trace + 1, steps, n))
    /\ answer' = "failure"
    /\ screen' = IF noticeVisible THEN {"failure"} ELSE screen
    /\ noticeVisible' = FALSE
    /\ pc' = "check"
    /\ UNCHANGED <<streaming, gates, failedRun, streamed, assigned, dbDown, record>>

\* Any other failure of the model, and a second timeout, ends the request.
RunFails ==
    /\ pc = "run"
    /\ \E n \in 1..MaxTurns : \E steps \in SUBSET (0..(MaxTrace - 1)) :
        failedRun' = Run(Attempt, 0, steps, n)
    /\ pc' = "handler"
    /\ UNCHANGED <<streaming, gates, runs, output, assigned, answer, dbDown, record>>

-----------------------------------------------------------------------------
(* After the model.                                                        *)

\* Grounding, sources, pins and areas; then the censorship gate on the answer.
CheckAnswer ==
    /\ pc = "check"
    /\ \E verdict \in {"pass", "reject"} :
        /\ gates' = [gates EXCEPT !["output"] = verdict]
        /\ answer' = IF verdict = "reject" THEN "refusal" ELSE answer
        /\ screen' = IF verdict = "reject" THEN {} ELSE screen
    /\ pc' = "save"
    /\ UNCHANGED <<streaming, runs, failedRun, streamed, noticeVisible, assigned, dbDown, record>>

\* The trace, the calls, the exchange and the metrics are written, then committed.
SaveExchange ==
    /\ pc = "save"
    /\ record' = [kind |-> "exchange", reason |-> RejectionReason, answer |-> answer,
                  trace |-> IF runs = <<>> THEN <<>> ELSE CombinedTrace(runs),
                  calls |-> CombinedCalls(runs),
                  turns |-> CombinedTurns(runs)]
    /\ pc' = "done"
    /\ UNCHANGED <<streaming, gates, runs, failedRun, output, assigned, answer, dbDown>>

\* The database, or another dependency, fails outside the agent loop.
StageFails ==
    /\ pc \in {"context", "gates", "check", "save"}
    /\ pc' = "handler"
    /\ UNCHANGED <<streaming, gates, runs, failedRun, output, assigned, answer, dbDown, record>>

\* What the handler finds to record: the exception's own calls, or those of the
\* finished attempts, which it reads from `orchestration`.
Diagnostics ==
    [kind |-> "failure", reason |-> "none", answer |-> "", trace |-> <<>>,
     calls |-> IF failedRun # NoRun THEN FailureCalls(runs, failedRun) ELSE CombinedCalls(runs),
     turns |-> IF failedRun # NoRun THEN FailureTurns(runs, failedRun) ELSE CombinedTurns(runs)]

\* The except clause, after its rollback.  A database that is still down, and a
\* read of `orchestration` before its assignment, end it without a record.
RecordFailure ==
    /\ pc = "handler"
    /\ dbDown' \in BOOLEAN
    /\ record' = IF ~dbDown' /\ (failedRun # NoRun \/ assigned) THEN Diagnostics ELSE record
    /\ pc' = "failed"
    /\ UNCHANGED <<streaming, gates, runs, failedRun, output, assigned, answer>>

Finished == pc \in {"done", "failed"} /\ UNCHANGED vars

Next ==
    \/ ReadContext \/ RunPreflightGates
    \/ StreamText \/ ResetStreamedText
    \/ RunAnswers \/ FirstRunIsEmpty \/ FirstRunTimesOut \/ SecondRunIsEmpty \/ RunFails
    \/ CheckAnswer \/ SaveExchange
    \/ StageFails \/ RecordFailure
    \/ Finished

Spec == Init /\ [][Next]_vars

-----------------------------------------------------------------------------
(* Properties.                                                             *)

TurnsMade ==
    (IF runs = <<>> THEN 0 ELSE runs[1].count)
      + (IF Len(runs) = 2 THEN runs[2].count ELSE 0) + failedRun.count

\* No model turn is lost or recorded twice, whether the request succeeds or fails,
\* in one attempt or two: the recorded turns are numbered 1..n, as the unique key
\* (trace_id, turn_index) of llm_call_metric needs them to be.
TurnsAreNumbered ==
    record.kind # "none" =>
        /\ {t.index : t \in record.turns} = 1..TurnsMade
        /\ Cardinality(record.turns) = TurnsMade

\* When the result arrives, the screen shows nothing that the result takes back: no
\* text of an abandoned attempt, none of a blocked answer, and the waiting notice
\* only when the second attempt answered without streaming.
ScreenAgreesWithResult ==
    pc = "done" =>
        \/ screen = {}
        \/ screen = {answer}
        \/ screen = {"notice"} /\ answer = "second"

\* "Each executed call can point back at its own ACTION step", also behind the steps of an
\* earlier attempt and with the step of a failure message added, as long as its attempt has
\* kept its trace: one that timed out has lost it.
CallsPointAtTheirSteps ==
    record.kind = "exchange" =>
        \A c \in record.calls : runs[c.attempt].trace > 0 =>
            /\ c.step < Len(record.trace)
            /\ record.trace[c.step + 1] = [attempt |-> c.attempt, own |-> c.own]

=============================================================================
