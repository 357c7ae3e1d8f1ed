--------------------------- MODULE PipelineProofs ---------------------------
(***************************************************************************)
(* For any step budget and any length of a trace: a client's screen agrees *)
(* with the result that ends the request, the model turns that were made   *)
(* are recorded, each once and under its own number, and the calls of an   *)
(* attempt that has kept its trace point at their own steps of it.         *)
(*                                                                         *)
(* References, the evidence of an answer: for any number of places, pages, *)
(* searches, attempts and regenerations, what a validated answer owes is   *)
(* shown, and what nobody has minted is reported.                          *)
(***************************************************************************)
EXTENDS Pipeline, References, FiniteSetTheorems, SequenceTheorems, TLAPS

\* The text that may be on the screen while an attempt is at work.
OnScreen ==
    IF streamed THEN {Texts[Attempt]} ELSE IF noticeVisible THEN {"notice"} ELSE {}

Agrees == screen = {} \/ screen = {answer} \/ (screen = {"notice"} /\ answer = "second")

Screen ==
    /\ pc \in {"context", "gates"} => runs = <<>> /\ ~streamed /\ ~noticeVisible /\ screen = {}
    /\ pc = "run" =>
        /\ \/ runs = <<>> /\ ~noticeVisible
           \/ Len(runs) = 1
        /\ streamed => streaming /\ ~noticeVisible
        /\ screen = OnScreen
    /\ pc \in {"check", "save", "done"} => Agrees

LEMMA ScreenInit == Init => Screen
  BY DEF Init, Screen

LEMMA FirstAppended ==
    ASSUME NEW s, s = <<>>, NEW x
    PROVE  Len(Append(s, x)) = 1
OBVIOUS

LEMMA ScreenStep ==
    ASSUME Screen, [Next]_vars
    PROVE  Screen'
<1> USE DEF Screen, Agrees, OnScreen, Attempt, Texts, output
<1>1. CASE ReadContext \/ StageFails \/ RecordFailure \/ RunFails \/ SaveExchange
  BY <1>1 DEF ReadContext, StageFails, RecordFailure, RunFails, SaveExchange
<1>2. CASE RunPreflightGates
  BY <1>2 DEF RunPreflightGates
\* The first text of the second attempt replaces the notice.
<1>3. CASE StreamText
  BY <1>3 DEF StreamText, OnScreenBeforeChunk
<1>4. CASE ResetStreamedText
  BY <1>4 DEF ResetStreamedText
\* The notice stands only beside the second attempt.
<1>5. CASE RunAnswers
  <2>1. /\ answer' = Texts[Attempt] /\ pc' = "check" /\ screen' = screen
        /\ pc = "run" /\ screen = OnScreen
    BY <1>5 DEF RunAnswers
  <2>2. ASSUME noticeVisible PROVE Texts[Attempt] = "second"
    <3>1. Len(runs) = 1
      BY <2>1, <2>2, Zenon
    <3> QED
      BY <3>1
  <2>3. Agrees'
    BY <2>1, <2>2
  <2> QED
    BY <2>1, <2>3
<1>6. CASE FirstRunIsEmpty \/ FirstRunTimesOut
  <2>1. pc = "run" /\ pc' = "run" /\ ShowNotice /\ UNCHANGED streaming /\ runs = <<>>
    BY <1>6 DEF FirstRunIsEmpty, FirstRunTimesOut
  <2>2. Len(runs') = 1
    BY <1>6, <2>1, FirstAppended DEF FirstRunIsEmpty, FirstRunTimesOut
  <2> QED
    BY <2>1, <2>2 DEF ShowNotice
<1>7. CASE SecondRunIsEmpty
  BY <1>7 DEF SecondRunIsEmpty
<1>8. CASE CheckAnswer
  BY <1>8 DEF CheckAnswer
<1>9. CASE UNCHANGED vars
  BY <1>9 DEF vars
<1> QED
  BY <1>1, <1>2, <1>3, <1>4, <1>5, <1>6, <1>7, <1>8, <1>9 DEF Next, Finished

\* Drafts, resets, the waiting notice and the second attempt leave no text on the screen that the
\* result does not confirm (pipeline.py, the callbacks of the attempts).
THEOREM ScreenAgreesWithResultAlways == Spec => []ScreenAgreesWithResult
<1>1. Screen => ScreenAgreesWithResult
  BY DEF Screen, Agrees, ScreenAgreesWithResult
<1> QED
  BY ScreenInit, ScreenStep, <1>1, PTL DEF Spec

-----------------------------------------------------------------------------
(* The numbers of the model turns.                                         *)

\* A run has the turns of its own attempt and has counted them.
Made(run, number) == run.count \in Nat /\ run.turns = TurnsOf(number, run.count)

\* The attempts that have ended, and the one that was broken off, if any.
Attempts ==
    /\ \/ runs = <<>>
       \/ \E a : runs = <<a>> /\ Made(a, 1)
       \/ \E a, b : runs = <<a, b>> /\ Made(a, 1) /\ Made(b, 2)
    /\ failedRun # NoRun => Len(runs) < 2 /\ Made(failedRun, Len(runs) + 1)
    /\ pc \in {"context", "gates"} => runs = <<>>
    /\ pc = "run" => Len(runs) < 2
    /\ pc \in {"context", "gates", "run", "check", "save", "done"} => failedRun = NoRun
    /\ pc \notin {"done", "failed"} => record = NoRecord

Numbering == Attempts /\ TurnsAreNumbered

LEMMA Indexed ==
    ASSUME NEW n \in Nat, NEW S, NEW f \in [1..n -> S],
           \A i, j \in 1..n : f[i] = f[j] => i = j,
           \A x \in S : \E i \in 1..n : f[i] = x
    PROVE  Cardinality(S) = n
<1>1. f \in Injection(1..n, S)
  BY DEF Injection, IsInjective
<1>2. f \in Surjection(1..n, S)
  BY DEF Surjection
<1>3. ExistsBijection(1..n, S)
  BY <1>1, <1>2 DEF ExistsBijection, Bijection
<1> QED
  BY <1>3, FS_CountingElements

LEMMA ShiftedTurns ==
    ASSUME NEW number, NEW n \in Nat, NEW by \in Nat
    PROVE  ShiftTurns(TurnsOf(number, n), by)
               = {[attempt |-> number, own |-> t, index |-> t + by] : t \in 1..n}
<1>1. ASSUME NEW t \in 1..n
      PROVE  [[attempt |-> number, own |-> t, index |-> t] EXCEPT !.index = @ + by]
                 = [attempt |-> number, own |-> t, index |-> t + by]
  OBVIOUS
<1>2. TurnsOf(number, n) = {[attempt |-> number, own |-> t, index |-> t] : t \in 1..n}
  BY DEF TurnsOf
<1>3. ShiftTurns(TurnsOf(number, n), by)
          = {[t EXCEPT !.index = @ + by] : t \in TurnsOf(number, n)}
  BY DEF ShiftTurns
<1>4. ASSUME NEW x \in ShiftTurns(TurnsOf(number, n), by)
      PROVE  \E t \in 1..n : x = [attempt |-> number, own |-> t, index |-> t + by]
  <2>1. PICK u \in TurnsOf(number, n) : x = [u EXCEPT !.index = @ + by]
    BY <1>3
  <2>2. PICK t \in 1..n : u = [attempt |-> number, own |-> t, index |-> t]
    BY <1>2
  <2> QED
    BY <1>1, <2>1, <2>2
<1>5. ASSUME NEW t \in 1..n
      PROVE  [attempt |-> number, own |-> t, index |-> t + by]
                 \in ShiftTurns(TurnsOf(number, n), by)
  <2>1. [attempt |-> number, own |-> t, index |-> t] \in TurnsOf(number, n)
    BY <1>2
  <2> QED
    BY <1>1, <1>3, <2>1
<1> QED
  BY <1>4, <1>5

\* The turns of two attempts, the second's numbers behind the first's.
LEMMA TwoAttempts ==
    ASSUME NEW m \in Nat, NEW n \in Nat, NEW S,
           S = ShiftTurns(TurnsOf(1, m), 0) \union ShiftTurns(TurnsOf(2, n), m)
    PROVE  {t.index : t \in S} = 1..(m + n) /\ Cardinality(S) = m + n
<1> DEFINE turn(k) == IF k <= m THEN [attempt |-> 1, own |-> k, index |-> k]
                      ELSE [attempt |-> 2, own |-> k - m, index |-> k]
           f == [k \in 1..(m + n) |-> turn(k)]
<1>1. \A k \in 1..(m + n) : turn(k).index = k
  OBVIOUS
<1>2. ASSUME NEW x \in S PROVE \E k \in 1..(m + n) : x = turn(k)
  <2>1. ASSUME NEW t \in 1..m, x = [attempt |-> 1, own |-> t, index |-> t + 0]
        PROVE  t \in 1..(m + n) /\ x = turn(t)
    BY <2>1
  <2>2. ASSUME NEW t \in 1..n, x = [attempt |-> 2, own |-> t, index |-> t + m]
        PROVE  t + m \in 1..(m + n) /\ x = turn(t + m)
    BY <2>2
  <2> HIDE DEF turn
  <2> QED
    BY <2>1, <2>2, ShiftedTurns
<1>3. ASSUME NEW k \in 1..(m + n) PROVE turn(k) \in S
  <2>1. CASE k <= m
    <3>1. k \in 1..m /\ turn(k) = [attempt |-> 1, own |-> k, index |-> k + 0]
      BY <2>1
    <3> QED
      BY <3>1, ShiftedTurns
  <2>2. CASE ~(k <= m)
    <3>1. k - m \in 1..n /\ turn(k) = [attempt |-> 2, own |-> k - m, index |-> (k - m) + m]
      BY <2>2
    <3> QED
      BY <3>1, ShiftedTurns
  <2> QED
    BY <2>1, <2>2
<1> HIDE DEF turn
<1>4. {t.index : t \in S} = 1..(m + n)
  BY <1>1, <1>2, <1>3
<1>5. f \in [1..(m + n) -> S] /\ \A x \in S : \E k \in 1..(m + n) : f[k] = x
  BY <1>2, <1>3
<1>6. \A i, j \in 1..(m + n) : f[i] = f[j] => i = j
  BY <1>1
<1>7. m + n \in Nat
  OBVIOUS
<1> HIDE DEF f
<1> QED
  BY <1>4, <1>5, <1>6, <1>7, Indexed

LEMMA OneAttempt ==
    ASSUME NEW number, NEW n \in Nat
    PROVE  ShiftTurns(TurnsOf(number, n), 0) = TurnsOf(number, n)
<1>1. \A t \in 1..n : t + 0 = t
  OBVIOUS
<1>2. ShiftTurns(TurnsOf(number, n), 0)
          = {[attempt |-> number, own |-> t, index |-> t + 0] : t \in 1..n}
  BY ShiftedTurns
<1> QED
  BY <1>1, <1>2 DEF TurnsOf

LEMMA NoTurns == TurnsOf(2, 0) = {} /\ \A by : ShiftTurns({}, by) = {}
BY DEF TurnsOf, ShiftTurns

\* The turns of the attempts that have ended, put together.
LEMMA CombinedRuns ==
    /\ CombinedTurns(<<>>) = {}
    /\ \A a : Made(a, 1) => CombinedTurns(<<a>>) = ShiftTurns(TurnsOf(1, a.count), 0)
    /\ \A a, b : Made(a, 1) /\ Made(b, 2) =>
         CombinedTurns(<<a, b>>) = ShiftTurns(TurnsOf(1, a.count), 0)
                                     \union ShiftTurns(TurnsOf(2, b.count), a.count)
<1>1. CombinedTurns(<<>>) = {}
  BY DEF CombinedTurns
<1>2. ASSUME NEW a, Made(a, 1)
      PROVE  CombinedTurns(<<a>>) = ShiftTurns(TurnsOf(1, a.count), 0)
  <2>1. DOMAIN <<a>> = {1} /\ <<a>>[1] = a /\ TurnsBefore(<<a>>, 1) = 0
    BY DEF TurnsBefore
  <2> QED
    BY <1>2, <2>1 DEF CombinedTurns, Made
<1>3. ASSUME NEW a, NEW b, Made(a, 1), Made(b, 2)
      PROVE  CombinedTurns(<<a, b>>) = ShiftTurns(TurnsOf(1, a.count), 0)
                                         \union ShiftTurns(TurnsOf(2, b.count), a.count)
  <2>1. /\ DOMAIN <<a, b>> = {1, 2} /\ <<a, b>>[1] = a /\ <<a, b>>[2] = b
        /\ TurnsBefore(<<a, b>>, 1) = 0 /\ TurnsBefore(<<a, b>>, 2) = a.count
    BY DEF TurnsBefore
  <2> QED
    BY <1>3, <2>1 DEF CombinedTurns, Made
<1> QED
  BY <1>1, <1>2, <1>3

LEMMA NoRunFacts == NoRun.count = 0 /\ NoRun.turns = {}
BY DEF NoRun, Run, TurnsOf

\* The numbering of whatever is recorded, finished attempts or a broken one with them.
RecordsTurns(turns) ==
    {t.index : t \in turns} = 1..TurnsMade /\ Cardinality(turns) = TurnsMade

LEMMA FinishedAttempts ==
    ASSUME Attempts, failedRun = NoRun
    PROVE  RecordsTurns(CombinedTurns(runs))
<1>1. CASE runs = <<>>
  <2>1. CombinedTurns(runs) = ShiftTurns(TurnsOf(1, 0), 0) \union ShiftTurns(TurnsOf(2, 0), 0)
    BY <1>1, CombinedRuns, NoTurns, OneAttempt DEF TurnsOf
  <2>2. TurnsMade = 0 + 0
    BY <1>1, NoRunFacts DEF TurnsMade
  <2> QED
    BY <2>1, <2>2, TwoAttempts DEF RecordsTurns
<1>2. ASSUME NEW a, runs = <<a>>, Made(a, 1) PROVE RecordsTurns(CombinedTurns(runs))
  <2>1. CombinedTurns(runs)
            = ShiftTurns(TurnsOf(1, a.count), 0) \union ShiftTurns(TurnsOf(2, 0), a.count)
    BY <1>2, CombinedRuns, NoTurns
  <2>2. TurnsMade = a.count + 0 /\ a.count \in Nat
    BY <1>2, NoRunFacts DEF TurnsMade, Made
  <2> QED
    BY <2>1, <2>2, TwoAttempts DEF RecordsTurns
<1>3. ASSUME NEW a, NEW b, runs = <<a, b>>, Made(a, 1), Made(b, 2)
      PROVE  RecordsTurns(CombinedTurns(runs))
  <2>1. CombinedTurns(runs)
            = ShiftTurns(TurnsOf(1, a.count), 0) \union ShiftTurns(TurnsOf(2, b.count), a.count)
    BY <1>3, CombinedRuns
  <2>2. TurnsMade = a.count + b.count /\ a.count \in Nat /\ b.count \in Nat
    BY <1>3, NoRunFacts DEF TurnsMade, Made
  <2> QED
    BY <2>1, <2>2, TwoAttempts DEF RecordsTurns
<1> QED
  BY <1>1, <1>2, <1>3 DEF Attempts

LEMMA BrokenAttempt ==
    ASSUME Attempts, failedRun # NoRun
    PROVE  RecordsTurns(FailureTurns(runs, failedRun))
<1>1. Len(runs) < 2 /\ Made(failedRun, Len(runs) + 1)
  BY DEF Attempts
<1>2. CASE runs = <<>>
  <2>1. Made(failedRun, 1)
    BY <1>1, <1>2
  <2>2. FailureTurns(runs, failedRun)
            = ShiftTurns(TurnsOf(1, failedRun.count), 0) \union ShiftTurns(TurnsOf(2, 0), failedRun.count)
    BY <1>2, <2>1, NoTurns, OneAttempt DEF FailureTurns, Made
  <2>3. TurnsMade = failedRun.count + 0 /\ failedRun.count \in Nat
    BY <1>2, <2>1 DEF TurnsMade, Made
  <2> QED
    BY <2>2, <2>3, TwoAttempts DEF RecordsTurns
<1>3. ASSUME NEW a, runs = <<a>>, Made(a, 1)
      PROVE  RecordsTurns(FailureTurns(runs, failedRun))
  <2>1. Made(failedRun, 2)
    BY <1>1, <1>3
  <2>2. FailureTurns(runs, failedRun)
            = ShiftTurns(TurnsOf(1, a.count), 0) \union ShiftTurns(TurnsOf(2, failedRun.count), a.count)
    <3>1. runs # <<>> /\ runs[Len(runs)] = a
      BY <1>3
    <3> QED
      BY <1>3, <2>1, <3>1, CombinedRuns DEF FailureTurns, Made
  <2>3. /\ TurnsMade = a.count + failedRun.count
        /\ a.count \in Nat /\ failedRun.count \in Nat
    BY <1>3, <2>1 DEF TurnsMade, Made
  <2> QED
    BY <2>2, <2>3, TwoAttempts DEF RecordsTurns
<1>4. ~\E a, b : runs = <<a, b>>
  BY <1>1
<1> QED
  BY <1>2, <1>3, <1>4 DEF Attempts

LEMMA NothingRecorded ==
    ASSUME Attempts, pc \notin {"done", "failed"}
    PROVE  record.kind = "none"
<1>1. record = NoRecord
  BY Zenon DEF Attempts
<1> QED
  BY <1>1 DEF NoRecord

LEMMA NumberingInit == Init => Numbering
<1> SUFFICES ASSUME Init PROVE Numbering
  OBVIOUS
<1>1. pc = "context" /\ runs = <<>> /\ failedRun = NoRun /\ record = NoRecord
  BY DEF Init
<1>2. Attempts
  BY <1>1 DEF Attempts
<1>3. record.kind = "none"
  BY <1>1 DEF NoRecord
<1> QED
  BY <1>2, <1>3 DEF Numbering, TurnsAreNumbered

LEMMA RunIsMade ==
    ASSUME NEW number, NEW trace, NEW steps, NEW n \in Nat
    PROVE  Made(Run(number, trace, steps, n), number)
BY DEF Made, Run

\* An attempt that ends joins those before it.
LEMMA AttemptEnds ==
    ASSUME Attempts, pc = "run", NEW run, Made(run, Attempt), runs' = Append(runs, run),
           UNCHANGED <<failedRun, record>>,
           \/ pc' = "check"
           \/ pc' = "run" /\ Attempt = 1
    PROVE  Attempts'
<1>1. CASE runs = <<>>
  <2>1. runs' = <<run>> /\ Made(run, 1) /\ Len(runs') < 2
    BY <1>1 DEF Attempt
  <2> QED
    BY <2>1 DEF Attempts
<1>2. ASSUME NEW a, runs = <<a>>, Made(a, 1) PROVE Attempts'
  <2>1. Append(<<a>>, run) = <<a, run>> /\ Len(<<a>>) + 1 = 2
    <3>1. <<a>> \in Seq({a, run}) /\ run \in {a, run}
      OBVIOUS
    <3>2. /\ Append(<<a>>, run) \in Seq({a, run})
          /\ Len(Append(<<a>>, run)) = 2
          /\ Append(<<a>>, run)[1] = a /\ Append(<<a>>, run)[2] = run
      BY <3>1
    <3>3. <<a, run>> \in Seq({a, run}) /\ Len(<<a, run>>) = 2
      OBVIOUS
    <3>4. \A i \in 1..2 : Append(<<a>>, run)[i] = <<a, run>>[i]
      BY <3>2
    <3>5. Append(<<a>>, run) = <<a, run>>
      BY <3>2, <3>3, <3>4, SeqEqual
    <3> QED
      BY <3>5
  <2>2. runs' = <<a, run>> /\ Attempt = 2
    BY <1>2, <2>1 DEF Attempt
  <2> QED
    BY <1>2, <2>2 DEF Attempts
<1>3. ~\E a, b : runs = <<a, b>>
  BY DEF Attempts
<1> QED
  BY <1>1, <1>2, <1>3 DEF Attempts

LEMMA NumberingStep ==
    ASSUME Numbering, [Next]_vars
    PROVE  Numbering'
<1> USE ConstantsAssumption DEF output
<1>1. CASE ReadContext \/ RunPreflightGates \/ StreamText \/ ResetStreamedText \/ CheckAnswer
           \/ StageFails
  <2>1. UNCHANGED <<runs, failedRun, record>>
    BY <1>1 DEF ReadContext, RunPreflightGates, StreamText, ResetStreamedText, CheckAnswer,
                StageFails
  <2>2. /\ pc \in {"context", "gates", "run", "check", "save"}
        /\ pc' \notin {"done", "failed"}
        /\ pc' \in {"context", "gates"} => pc \in {"context", "gates"}
        /\ pc' = "run" => pc \in {"gates", "run"}
    BY <1>1 DEF ReadContext, RunPreflightGates, StreamText, ResetStreamedText, CheckAnswer,
                StageFails
  <2>3. runs = <<>> => Len(runs) < 2
    OBVIOUS
  <2>4. Attempts'
    BY <2>1, <2>2, <2>3 DEF Numbering, Attempts
  <2> QED
    BY <2>1, <2>4 DEF Numbering, TurnsAreNumbered, TurnsMade
\* While attempts are made nothing is recorded yet.
<1>2. ASSUME NEW run, Made(run, Attempt), pc = "run", runs' = Append(runs, run),
             UNCHANGED <<failedRun, record>>,
             \/ pc' = "check"
             \/ pc' = "run" /\ Attempt = 1
      PROVE  Numbering'
  <2>1. Attempts'
    BY <1>2, AttemptEnds DEF Numbering
  <2>2. record'.kind = "none"
    BY <1>2, NothingRecorded DEF Numbering
  <2> QED
    BY <2>1, <2>2 DEF Numbering, TurnsAreNumbered
<1>3. CASE RunAnswers
  <2>1. PICK trace \in 1..MaxTrace, n \in 1..MaxTurns :
               \E steps \in SUBSET (0..(trace - 2)) :
                  runs' = Append(runs, Run(Attempt, trace, steps, n))
    BY <1>3 DEF RunAnswers
  <2>2. PICK steps : runs' = Append(runs, Run(Attempt, trace, steps, n))
    BY <2>1
  <2>3. Made(Run(Attempt, trace, steps, n), Attempt)
    BY RunIsMade
  <2>4. pc = "run" /\ pc' = "check" /\ UNCHANGED <<failedRun, record>>
    BY <1>3 DEF RunAnswers
  <2> QED
    BY <1>2, <2>2, <2>3, <2>4
<1>4. CASE FirstRunIsEmpty
  <2>1. PICK trace \in 0..MaxTrace, n \in 1..MaxTurns :
               \E steps \in SUBSET (0..(trace - 1)) :
                  runs' = Append(runs, Run(Attempt, trace, steps, n))
    BY <1>4 DEF FirstRunIsEmpty
  <2>2. PICK steps : runs' = Append(runs, Run(Attempt, trace, steps, n))
    BY <2>1
  <2>3. Made(Run(Attempt, trace, steps, n), Attempt)
    BY RunIsMade
  <2>4. pc = "run" /\ pc' = "run" /\ Attempt = 1 /\ UNCHANGED <<failedRun, record>>
    BY <1>4 DEF FirstRunIsEmpty
  <2> QED
    BY <1>2, <2>2, <2>3, <2>4
<1>5. CASE FirstRunTimesOut
  <2>1. PICK n \in 1..MaxTurns : \E steps \in SUBSET (0..(MaxTrace - 1)) :
               runs' = Append(runs, TimedOut(steps, n))
    BY <1>5 DEF FirstRunTimesOut
  <2>2. PICK steps : runs' = Append(runs, TimedOut(steps, n))
    BY <2>1
  <2>3. Made(TimedOut(steps, n), Attempt)
    BY RunIsMade DEF TimedOut
  <2>4. pc = "run" /\ pc' = "run" /\ Attempt = 1 /\ UNCHANGED <<failedRun, record>>
    BY <1>5 DEF FirstRunTimesOut
  <2> QED
    BY <1>2, <2>2, <2>3, <2>4
<1>6. CASE SecondRunIsEmpty
  <2>1. PICK trace \in 0..(MaxTrace - 1), n \in 1..MaxTurns :
               \E steps \in SUBSET (0..(trace - 1)) :
                  runs' = Append(runs, Run(Attempt, trace + 1, steps, n))
    BY <1>6 DEF SecondRunIsEmpty
  <2>2. PICK steps : runs' = Append(runs, Run(Attempt, trace + 1, steps, n))
    BY <2>1
  <2>3. Made(Run(Attempt, trace + 1, steps, n), Attempt)
    BY RunIsMade
  <2>4. pc = "run" /\ pc' = "check" /\ UNCHANGED <<failedRun, record>>
    BY <1>6 DEF SecondRunIsEmpty
  <2> QED
    BY <1>2, <2>2, <2>3, <2>4
<1>7. CASE RunFails
  <2>1. PICK n \in 1..MaxTurns : \E steps \in SUBSET (0..(MaxTrace - 1)) :
               failedRun' = Run(Attempt, 0, steps, n)
    BY <1>7 DEF RunFails
  <2>2. PICK steps : failedRun' = Run(Attempt, 0, steps, n)
    BY <2>1
  <2>3. Made(failedRun', Attempt)
    BY <2>2, RunIsMade
  <2>4. pc = "run" /\ pc' = "handler" /\ UNCHANGED <<runs, record>>
    BY <1>7 DEF RunFails
  <2>5. Attempts'
    BY <2>3, <2>4 DEF Numbering, Attempts, Attempt
  <2>6. record'.kind = "none"
    BY <2>4, NothingRecorded DEF Numbering
  <2> QED
    BY <2>5, <2>6 DEF Numbering, TurnsAreNumbered
<1>8. CASE SaveExchange
  <2>1. /\ record'.turns = CombinedTurns(runs)
        /\ pc = "save" /\ pc' = "done" /\ UNCHANGED <<runs, failedRun>>
    BY <1>8 DEF SaveExchange
  <2>2. Attempts /\ failedRun = NoRun
    BY <2>1 DEF Numbering, Attempts
  <2>3. RecordsTurns(CombinedTurns(runs))
    BY <2>2, FinishedAttempts
  <2>4. Attempts'
    BY <2>1, <2>2 DEF Attempts
  <2>5. TurnsMade' = TurnsMade
    BY <2>1 DEF TurnsMade
  <2> QED
    BY <2>1, <2>3, <2>4, <2>5 DEF Numbering, TurnsAreNumbered, RecordsTurns
<1>9. CASE RecordFailure
  <2>1. /\ pc = "handler" /\ pc' = "failed" /\ UNCHANGED <<runs, failedRun>>
        /\ record' \in {Diagnostics, record}
    BY <1>9 DEF RecordFailure
  <2>2. Attempts'
    BY <2>1 DEF Numbering, Attempts
  <2>3. RecordsTurns(Diagnostics.turns)
    <3>1. CASE failedRun = NoRun
      <4>1. Diagnostics.turns = CombinedTurns(runs)
        BY <3>1 DEF Diagnostics
      <4> QED
        BY <3>1, <4>1, FinishedAttempts DEF Numbering
    <3>2. CASE failedRun # NoRun
      <4>1. Diagnostics.turns = FailureTurns(runs, failedRun)
        BY <3>2 DEF Diagnostics
      <4> QED
        BY <3>2, <4>1, BrokenAttempt DEF Numbering
    <3> QED
      BY <3>1, <3>2
  <2>4. record.kind = "none"
    BY <2>1, NothingRecorded DEF Numbering
  <2>5. TurnsMade' = TurnsMade
    BY <2>1 DEF TurnsMade
  <2> QED
    BY <2>1, <2>2, <2>3, <2>4, <2>5 DEF Numbering, TurnsAreNumbered, RecordsTurns
<1>10. CASE UNCHANGED vars
  <2>1. UNCHANGED <<pc, runs, failedRun, record>>
    BY <1>10 DEF vars
  <2>2. TurnsMade' = TurnsMade
    BY <2>1 DEF TurnsMade
  <2> QED
    BY <2>1, <2>2 DEF Numbering, Attempts, TurnsAreNumbered
<1> QED
  BY <1>1, <1>3, <1>4, <1>5, <1>6, <1>7, <1>8, <1>9, <1>10 DEF Next, Finished

\* Whether the request succeeds or fails, in one attempt or two, each model turn that was made
\* is recorded once, under a number of its own (_combine_orchestrator_runs and the handler of
\* OrchestratorExecutionError).
THEOREM TurnsAreNumberedAlways == Spec => []TurnsAreNumbered
<1>1. Numbering => TurnsAreNumbered
  BY DEF Numbering
<1> QED
  BY NumberingInit, NumberingStep, <1>1, PTL DEF Spec

-----------------------------------------------------------------------------
(* The steps that the calls point at.                                      *)

\* The calls of an attempt are numbered by the steps of its own trace, if it has kept it.
Placed(run, number) ==
    /\ run.trace \in Nat
    /\ \A c \in run.calls : \E i \in Nat :
         /\ c = [attempt |-> number, own |-> i, step |-> i]
         /\ run.trace > 0 => i < run.trace

Traces == \A i \in DOMAIN runs : Placed(runs[i], i)

LEMMA RunIsPlaced ==
    ASSUME NEW number, NEW trace \in Nat, NEW steps, NEW n,
           steps \in SUBSET Nat, trace > 0 => \A i \in steps : i < trace
    PROVE  Placed(Run(number, trace, steps, n), number)
BY DEF Placed, Run, CallsOf

LEMMA ShiftedCall ==
    ASSUME NEW number, NEW run, Placed(run, number), NEW by \in Nat, NEW c \in Shift(run.calls, by)
    PROVE  \E i \in Nat : /\ c = [attempt |-> number, own |-> i, step |-> i + by]
                          /\ run.trace > 0 => i < run.trace
<1>1. PICK d \in run.calls : c = [d EXCEPT !.step = @ + by]
  BY DEF Shift
<1>2. PICK i \in Nat : /\ d = [attempt |-> number, own |-> i, step |-> i]
                       /\ run.trace > 0 => i < run.trace
  BY DEF Placed
<1> QED
  BY <1>1, <1>2

\* What is said of a call that is recorded with a trace.
Points(c, trace) ==
    /\ c.step < Len(trace)
    /\ trace[c.step + 1] = [attempt |-> c.attempt, own |-> c.own]

LEMMA CombinedPoints ==
    ASSUME Attempts, Traces, NEW c \in CombinedCalls(runs), runs[c.attempt].trace > 0
    PROVE  runs # <<>> /\ Points(c, CombinedTrace(runs))
<1>1. PICK at \in DOMAIN runs : c \in Shift(runs[at].calls, StepsBefore(runs, at))
  BY DEF CombinedCalls
<1>2. ASSUME NEW a, runs = <<a>> PROVE runs # <<>> /\ Points(c, CombinedTrace(runs))
  <2>1. at = 1 /\ runs[1] = a /\ Len(runs) = 1 /\ DOMAIN runs = {1} /\ StepsBefore(runs, 1) = 0
    BY <1>1, <1>2 DEF StepsBefore
  <2>2. Placed(a, 1)
    BY <2>1 DEF Traces
  <2>3. PICK i \in Nat : /\ c = [attempt |-> 1, own |-> i, step |-> i + 0]
                         /\ a.trace > 0 => i < a.trace
    BY <1>1, <2>1, <2>2, ShiftedCall
  <2>4. a.trace \in Nat /\ i < a.trace /\ c.step = i /\ c.own = i /\ c.attempt = 1
    BY <2>1, <2>2, <2>3 DEF Placed
  <2>5. CombinedTrace(runs) = [k \in 1..(0 + a.trace) |->
            IF k <= 0 THEN [attempt |-> 1, own |-> k - 1] ELSE [attempt |-> 1, own |-> k - 1 - 0]]
    BY <2>1 DEF CombinedTrace
  <2>6. Len(CombinedTrace(runs)) = a.trace
    BY <2>4, <2>5
  <2>7. i + 1 \in 1..(0 + a.trace) /\ ~(i + 1 <= 0) /\ (i + 1) - 1 - 0 = i
    BY <2>4
  <2>8. CombinedTrace(runs)[i + 1] = [attempt |-> 1, own |-> i]
    BY <2>5, <2>7
  <2> QED
    BY <1>2, <2>4, <2>6, <2>8 DEF Points
<1>3. ASSUME NEW a, NEW b, runs = <<a, b>> PROVE runs # <<>> /\ Points(c, CombinedTrace(runs))
  <2>1. /\ at \in {1, 2} /\ runs[1] = a /\ runs[2] = b /\ Len(runs) = 2 /\ DOMAIN runs = {1, 2}
        /\ StepsBefore(runs, 1) = 0 /\ StepsBefore(runs, 2) = a.trace
    BY <1>1, <1>3 DEF StepsBefore
  <2>2. Placed(a, 1) /\ Placed(b, 2)
    BY <2>1 DEF Traces
  <2>3. a.trace \in Nat /\ b.trace \in Nat
    BY <2>2 DEF Placed
  <2> DEFINE step(k) == IF k <= a.trace THEN [attempt |-> 1, own |-> k - 1]
                        ELSE [attempt |-> 2, own |-> k - 1 - a.trace]
  <2>4. CombinedTrace(runs) = [k \in 1..(a.trace + b.trace) |-> step(k)]
    BY <2>1 DEF CombinedTrace
  <2>5. ASSUME NEW k \in 1..(a.trace + b.trace)
        PROVE  k - 1 < Len(CombinedTrace(runs)) /\ CombinedTrace(runs)[k] = step(k)
    <3> HIDE DEF step
    <3>1. Len(CombinedTrace(runs)) = a.trace + b.trace
      BY <2>3, <2>4
    <3> QED
      BY <2>3, <2>4, <3>1
  <2>6. CASE at = 1
    <3>1. PICK i \in Nat : /\ c = [attempt |-> 1, own |-> i, step |-> i + 0]
                           /\ a.trace > 0 => i < a.trace
      BY <1>1, <2>1, <2>2, <2>6, ShiftedCall
    <3>2. i < a.trace /\ c.step = i /\ c.own = i /\ c.attempt = 1
      BY <2>1, <3>1
    <3>3. i + 1 \in 1..(a.trace + b.trace) /\ i + 1 <= a.trace /\ (i + 1) - 1 = i
      BY <2>3, <3>2
    <3>4. step(i + 1) = [attempt |-> 1, own |-> i]
      BY <3>3
    <3> QED
      BY <1>3, <2>1, <2>5, <3>2, <3>3, <3>4 DEF Points
  <2>7. CASE at = 2
    <3>1. PICK i \in Nat : /\ c = [attempt |-> 2, own |-> i, step |-> i + a.trace]
                           /\ b.trace > 0 => i < b.trace
      BY <1>1, <2>1, <2>2, <2>3, <2>7, ShiftedCall
    <3>2. i < b.trace /\ c.step = i + a.trace /\ c.own = i /\ c.attempt = 2
      BY <2>1, <3>1
    <3> DEFINE k == i + a.trace + 1
    <3>3. k \in 1..(a.trace + b.trace) /\ ~(k <= a.trace) /\ k - 1 - a.trace = i /\ k - 1 = c.step
      BY <2>3, <3>2
    <3>4. step(k) = [attempt |-> 2, own |-> i]
      BY <3>3
    <3>5. k = c.step + 1
      BY <3>2, <2>3
    <3> HIDE DEF k, step
    <3> QED
      BY <1>3, <2>1, <2>5, <3>2, <3>3, <3>4, <3>5 DEF Points
  <2> QED
    BY <2>1, <2>6, <2>7
<1>4. runs # <<>>
  BY <1>1
<1> QED
  BY <1>2, <1>3, <1>4 DEF Attempts

Placing == Traces /\ CallsPointAtTheirSteps

LEMMA TracesGrow ==
    ASSUME Attempts, Len(runs) < 2, Traces, NEW run, Placed(run, Attempt), runs' = Append(runs, run)
    PROVE  Traces'
<1>1. CASE runs = <<>>
  <2>1. runs' = <<run>> /\ Placed(run, 1)
    BY <1>1 DEF Attempt
  <2> QED
    BY <2>1 DEF Traces
<1>2. ASSUME NEW a, runs = <<a>> PROVE Traces'
  <2>1. Placed(a, 1) /\ Placed(run, 2)
    BY <1>2 DEF Traces, Attempt
  <2>2. <<a>> \in Seq({a, run}) /\ run \in {a, run}
    OBVIOUS
  <2>3. /\ DOMAIN Append(<<a>>, run) = {1, 2}
        /\ Append(<<a>>, run)[1] = a /\ Append(<<a>>, run)[2] = run
    BY <2>2
  <2> QED
    BY <1>2, <2>1, <2>3 DEF Traces
<1>3. ~\E a, b : runs = <<a, b>>
  OBVIOUS
<1> QED
  BY <1>1, <1>2, <1>3 DEF Attempts

LEMMA PlacingInit == Init => Placing
<1> SUFFICES ASSUME Init PROVE Placing
  OBVIOUS
<1>1. runs = <<>> /\ record = NoRecord
  BY DEF Init
<1>2. record.kind = "none"
  BY <1>1 DEF NoRecord
<1> QED
  BY <1>1, <1>2 DEF Placing, Traces, CallsPointAtTheirSteps

LEMMA PlacingStep ==
    ASSUME Numbering, Placing, [Next]_vars
    PROVE  Placing'
<1> USE ConstantsAssumption DEF output
\* An attempt ends: nothing is recorded yet.
<1>1. ASSUME NEW run, Placed(run, Attempt), pc = "run", runs' = Append(runs, run), record' = record
      PROVE  Placing'
  <2>1. Len(runs) < 2 /\ record.kind = "none"
    BY <1>1, NothingRecorded DEF Numbering, Attempts
  <2>2. Traces'
    BY <1>1, <2>1, TracesGrow DEF Numbering, Placing
  <2> QED
    BY <1>1, <2>1, <2>2 DEF Placing, CallsPointAtTheirSteps
<1>2. CASE RunAnswers
  <2>1. PICK trace \in 1..MaxTrace, n \in 1..MaxTurns :
               \E steps \in SUBSET (0..(trace - 2)) :
                  runs' = Append(runs, Run(Attempt, trace, steps, n))
    BY <1>2 DEF RunAnswers
  <2>2. PICK steps \in SUBSET (0..(trace - 2)) : runs' = Append(runs, Run(Attempt, trace, steps, n))
    BY <2>1
  <2>3. trace \in Nat /\ steps \in SUBSET Nat /\ \A i \in steps : i < trace
    OBVIOUS
  <2> QED
    BY <1>1, <1>2, <2>2, <2>3, RunIsPlaced DEF RunAnswers
<1>3. CASE FirstRunIsEmpty
  <2>1. PICK trace \in 0..MaxTrace, n \in 1..MaxTurns :
               \E steps \in SUBSET (0..(trace - 1)) :
                  runs' = Append(runs, Run(Attempt, trace, steps, n))
    BY <1>3 DEF FirstRunIsEmpty
  <2>2. PICK steps \in SUBSET (0..(trace - 1)) : runs' = Append(runs, Run(Attempt, trace, steps, n))
    BY <2>1
  <2>3. trace \in Nat /\ steps \in SUBSET Nat /\ \A i \in steps : i < trace
    OBVIOUS
  <2> QED
    BY <1>1, <1>3, <2>2, <2>3, RunIsPlaced DEF FirstRunIsEmpty
<1>4. CASE FirstRunTimesOut
  <2>1. PICK n \in 1..MaxTurns : \E steps \in SUBSET (0..(MaxTrace - 1)) :
               runs' = Append(runs, TimedOut(steps, n))
    BY <1>4 DEF FirstRunTimesOut
  <2>2. PICK steps \in SUBSET (0..(MaxTrace - 1)) : runs' = Append(runs, Run(Attempt, 0, steps, n))
    BY <2>1 DEF TimedOut
  <2>3. Placed(Run(Attempt, 0, steps, n), Attempt)
    <3>1. 0 \in Nat /\ steps \in SUBSET Nat /\ (0 > 0 => \A i \in steps : i < 0)
      OBVIOUS
    <3> QED
      BY <3>1, RunIsPlaced
  <2> QED
    BY <1>1, <1>4, <2>2, <2>3 DEF FirstRunTimesOut
\* The failure message is one more step of the trace.
<1>5. CASE SecondRunIsEmpty
  <2>1. PICK trace \in 0..(MaxTrace - 1), n \in 1..MaxTurns :
               \E steps \in SUBSET (0..(trace - 1)) :
                  runs' = Append(runs, Run(Attempt, trace + 1, steps, n))
    BY <1>5 DEF SecondRunIsEmpty
  <2>2. PICK steps \in SUBSET (0..(trace - 1)) :
               runs' = Append(runs, Run(Attempt, trace + 1, steps, n))
    BY <2>1
  <2>3. trace + 1 \in Nat /\ steps \in SUBSET Nat /\ \A i \in steps : i < trace + 1
    OBVIOUS
  <2> QED
    BY <1>1, <1>5, <2>2, <2>3, RunIsPlaced DEF SecondRunIsEmpty
<1>6. CASE SaveExchange
  <2>1. /\ record'.calls = CombinedCalls(runs)
        /\ runs # <<>> => record'.trace = CombinedTrace(runs)
        /\ runs' = runs
    BY <1>6 DEF SaveExchange
  <2>2. Traces'
    BY <2>1 DEF Placing, Traces
  <2>3. ASSUME NEW c \in record'.calls, runs'[c.attempt].trace > 0 PROVE Points(c, record'.trace)
    <3>1. runs # <<>> /\ Points(c, CombinedTrace(runs))
      BY <2>1, <2>3, CombinedPoints DEF Numbering, Placing
    <3> QED
      BY <2>1, <3>1
  <2> QED
    BY <2>2, <2>3 DEF Placing, CallsPointAtTheirSteps, Points
<1>7. CASE RecordFailure
  <2>1. record.kind = "none" /\ Diagnostics.kind = "failure"
    BY <1>7, NothingRecorded DEF Numbering, RecordFailure, Diagnostics
  <2>2. record'.kind # "exchange" /\ runs' = runs
    BY <1>7, <2>1 DEF RecordFailure
  <2> QED
    BY <2>2 DEF Placing, Traces, CallsPointAtTheirSteps
<1>8. CASE ReadContext \/ RunPreflightGates \/ StreamText \/ ResetStreamedText \/ CheckAnswer
           \/ StageFails \/ RunFails \/ UNCHANGED vars
  <2>1. UNCHANGED <<runs, record>>
    BY <1>8 DEF ReadContext, RunPreflightGates, StreamText, ResetStreamedText, CheckAnswer,
                StageFails, RunFails, vars
  <2> QED
    BY <2>1 DEF Placing, Traces, CallsPointAtTheirSteps
<1> QED
  BY <1>2, <1>3, <1>4, <1>5, <1>6, <1>7, <1>8 DEF Next, Finished

\* Behind the steps of an earlier attempt, and before a failure message, a call that is recorded
\* points at its own step of the recorded trace, unless its attempt timed out and lost its trace
\* (_combine_orchestrator_runs).
THEOREM CallsPointAtTheirStepsAlways == Spec => []CallsPointAtTheirSteps
<1>1. Placing => CallsPointAtTheirSteps
  BY DEF Placing
<1> QED
  BY NumberingInit, NumberingStep, PlacingInit, PlacingStep, <1>1, PTL DEF Spec

------------------------------------------------------------------------------
(* References: the evidence of the answer.                                  *)

Accepted == {"verifying", "sources", "pins", "done", "failed"}

\* What the validator has seen to stays true: nothing is searched or written any more.
ValidIsChecked ==
  how = "valid" =>
    /\ stage \in Accepted
    /\ draft.cited \cap Invented = {}
    /\ ~MissingCitation(Executed) /\ ~MissingNames(Executed)

ReportNamesInvented ==
  stage \in {"sources", "pins", "done"} => draft.cited \cap Invented \subseteq unknown

\* What is to be shown, and is not, was not in Redis any more.
PagesAreShown ==
  stage \in {"pins", "done"} => \A r \in results : r.pages \subseteq sources \cup missed
SelectedAreShown ==
  stage = "done" => Selected \subseteq pins \cup missed

\* The inductive invariant.
EvidenceInv == ValidIsChecked /\ ReportNamesInvented /\ PagesAreShown /\ SelectedAreShown

LEMMA EvidenceInitially == EvidenceInit => EvidenceInv
BY DEF EvidenceInit, EvidenceInv, ValidIsChecked, ReportNamesInvented, PagesAreShown,
       SelectedAreShown

\* The validator reads every ref: without an absent one there is no invented one.
LEMMA NothingInvented ==
    ASSUME NEW refs, NEW absent \in Absent(refs)
    PROVE  /\ absent \subseteq refs /\ refs \cap Invented \subseteq absent
BY DEF Absent

\* The agent at work: nothing is accepted, nothing shown.
LEMMA AgentWorks ==
    ASSUME EvidenceInv, stage \in {"agent", "validating"}, stage' \in {"agent", "validating"},
           UNCHANGED <<how, Shown>>
    PROVE  EvidenceInv'
BY DEF EvidenceInv, Shown, Accepted, ValidIsChecked, ReportNamesInvented, PagesAreShown,
       SelectedAreShown

\* Once accepted, neither the answer nor the results change.
LEMMA AcceptedStays ==
    ASSUME ValidIsChecked, stage' \in Accepted, UNCHANGED <<attempt, results, draft, how>>
    PROVE  ValidIsChecked'
BY DEF ValidIsChecked, MissingCitation, MissingNames, Named, Executed

LEMMA ValidateStep ==
    ASSUME EvidenceInv, Validate
    PROVE  EvidenceInv'
<1> PICK absent \in Absent(draft.cited), exposed \in BOOLEAN :
      LET problem == \/ exposed \/ absent # {}
                     \/ MissingCitation(Executed) \/ MissingNames(Executed)
      IN IF problem /\ retries < MaxRegenerations
         THEN retries' = retries + 1 /\ stage' = "agent" /\ draft' = NoDraft /\ UNCHANGED how
         ELSE Accept(Judged(problem))
  BY DEF Validate
<1> DEFINE problem == \/ exposed \/ absent # {}
                      \/ MissingCitation(Executed)
                      \/ MissingNames(Executed)
<1>1. CASE problem /\ retries < MaxRegenerations
  BY <1>1, AgentWorks DEF Validate
<1>2. CASE ~(problem /\ retries < MaxRegenerations)
  <2>1. /\ how' = Judged(problem) /\ stage' = "verifying"
        /\ UNCHANGED <<draft, attempt, results, unknown, sources, pins, missed>>
    BY <1>2 DEF Accept, Validate, Shown
  <2>2. ValidIsChecked'
    <3> SUFFICES ASSUME ~problem PROVE ValidIsChecked'
      BY <2>1 DEF Judged, ValidIsChecked
    <3>1. draft.cited \cap Invented = {}
      BY NothingInvented
    <3>2. ~MissingCitation(Executed)' /\ ~MissingNames(Executed)'
      BY <2>1 DEF MissingCitation, MissingNames, Named, Executed
    <3> QED
      BY <2>1, <3>1, <3>2 DEF ValidIsChecked, Accepted
  <2> QED
    BY <2>1, <2>2 DEF EvidenceInv, Validate, ReportNamesInvented, PagesAreShown,
                      SelectedAreShown
<1> QED
  BY <1>1, <1>2

LEMMA LoadPinsStep ==
    ASSUME EvidenceInv, LoadPins
    PROVE  EvidenceInv'
<1> DEFINE Refs == Selected \cup SelectedAnchors
<1> PICK absent \in Absent(Refs) : pins' = Refs \ absent /\ missed' = missed \cup absent
  BY DEF LoadPins
<1>1. /\ stage = "pins" /\ stage' = "done"
      /\ UNCHANGED <<attempt, results, draft, how, unknown, sources>>
  BY DEF LoadPins
<1>2. Selected' = Selected /\ SelectedAnchors' = SelectedAnchors
  BY <1>1 DEF Selected, SelectedAnchors
<1>3. ValidIsChecked' /\ ReportNamesInvented' /\ PagesAreShown'
  BY <1>1, AcceptedStays
  DEF EvidenceInv, Accepted, ReportNamesInvented, PagesAreShown
<1>4. SelectedAreShown'
  BY <1>1, <1>2 DEF SelectedAreShown
<1> QED
  BY <1>3, <1>4 DEF EvidenceInv

LEMMA EvidenceStep ==
    ASSUME EvidenceInv, [EvidenceNext]_evidenceVars
    PROVE  EvidenceInv'
<1> USE DEF EvidenceInv, Shown
<1>1. CASE SearchPlaces \/ SearchWeb \/ WriteAnswer \/ AttemptFails
  BY <1>1, AgentWorks DEF SearchPlaces, SearchWeb, Found,
                          WriteAnswer, AttemptFails
<1>2. CASE Validate
  BY <1>2, ValidateStep
<1>3. CASE ValidatorBreaks \/ GiveUp
  BY <1>3 DEF ValidatorBreaks, GiveUp, Accept, ValidIsChecked,
              ReportNamesInvented, PagesAreShown, SelectedAreShown
<1>4. CASE Verify
  BY <1>4, AcceptedStays, NothingInvented
  DEF Verify, Accepted, ReportNamesInvented, PagesAreShown, SelectedAreShown
<1>5. CASE LoadSources
  <2> DEFINE refs == (draft.cited \cap Pages) \cup UNION {r.pages : r \in results}
  <2> PICK absent \in Absent(refs) : sources' = refs \ absent /\ missed' = absent
    BY <1>5 DEF LoadSources
  <2>1. PagesAreShown'
    BY <1>5 DEF LoadSources, PagesAreShown
  <2> QED
    BY <1>5, <2>1, AcceptedStays
    DEF LoadSources, Accepted, ReportNamesInvented, SelectedAreShown
<1>6. CASE LoadPins
  BY <1>6, LoadPinsStep
<1>7. CASE RequestFails
  BY <1>7, AcceptedStays
  DEF RequestFails, Accepted, ReportNamesInvented, PagesAreShown, SelectedAreShown
<1>8. CASE UNCHANGED evidenceVars
  BY <1>8 DEF evidenceVars, ValidIsChecked, ReportNamesInvented, PagesAreShown,
              SelectedAreShown, MissingCitation,
              MissingNames, Named, Executed, Selected
<1> QED
  BY <1>1, <1>2, <1>3, <1>4, <1>5, <1>6, <1>7, <1>8 DEF EvidenceNext, AgentStep,
     Done

LEMMA EvidenceInvariance == EvidenceSpec => []EvidenceInv
BY EvidenceInitially, EvidenceStep, PTL DEF EvidenceSpec

\* The validator judges the last attempt, the pins are made from all attempts, and records expire
\* in between: still a validated answer shows what it names, names of one or two characters apart,
\* or its record is gone (map_places.py, missing_listed_place_names).
THEOREM ValidAnswersAreCompleteAlways == EvidenceSpec => []ValidAnswersAreComplete
<1>1. EvidenceInv => ValidAnswersAreComplete
  <2> SUFFICES ASSUME EvidenceInv, stage = "done", how = "valid" PROVE ValidAnswersAreComplete
    BY DEF ValidAnswersAreComplete
  <2>1. \A r \in Executed : Named(r.places) \subseteq pins \cup missed
    BY DEF EvidenceInv, ValidIsChecked, MissingNames, Named, SelectedAreShown,
           Selected, Executed
  <2>2. \A r \in Executed : r.pages \subseteq sources \cup missed
    BY DEF EvidenceInv, PagesAreShown, Executed
  <2>3. LET pages == UNION {r.pages : r \in Executed}
        IN pages # {} => pages \cap draft.cited # {}
    BY DEF EvidenceInv, ValidIsChecked, MissingCitation
  <2> QED
    BY <2>1, <2>2, <2>3 DEF ValidAnswersAreComplete, Named
<1> QED
  BY EvidenceInvariance, <1>1, PTL

\* A ref that no tool has minted does not pass for a grounded one (grounding.py).
THEOREM InventedIsReportedAlways == EvidenceSpec => []InventedIsReported
<1>1. EvidenceInv => InventedIsReported
  BY DEF EvidenceInv, ValidIsChecked, ReportNamesInvented, InventedIsReported
<1> QED
  BY EvidenceInvariance, <1>1, PTL
=============================================================================
