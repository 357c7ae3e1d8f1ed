------------------------------- MODULE Gates -------------------------------
(***************************************************************************)
(* The gates of one conversation, turn after turn: the scope and the       *)
(* censorship gate on the message, side by side, and the censorship gate   *)
(* on the answer.  A gate is a chain of evaluators: the classifier defers  *)
(* to the LLM scoper, a model that fails or says nothing readable to the   *)
(* regex rules.  A session that has passed scope once may skip it.         *)
(***************************************************************************)
EXTENDS Integers, Sequences, FiniteSets, SequencesExt

CONSTANTS
  MaxTurns,          \* bound on the turns of the conversation
  Deployments,       \* the settings: a set of records, see Settings
  Top,               \* probabilities and similarities are 0..Top, in units of 1/Top
  Calibrated,        \* calibrate: the temperature applied to a softmax probability
  GreyLow, GreyHigh, \* scope_classifier_grey_low, _high
  Neighbours,        \* k of the OOD index
  Rows,              \* rows of the training corpus in the index
  Reference,         \* sorted similarities of the training rows to their neighbours
  QNum, QDen         \* scope_ood_quantile = QNum / QDen

Settings == [scope : {"rule_based", "llm", "classifier", "no_scoper"},
             censorship : {"rule_based", "model", "guardian"},
             unlock : BOOLEAN, confirm : BOOLEAN, ood : {"off", "shadow", "enforce"}]

ASSUME DeploymentsAreSettings ==
  /\ Deployments \subseteq Settings
  /\ \A d \in Deployments : d.ood # "off" => d.scope = "classifier"

\* Calibration keeps the order and both ends; it is not the identity.
ASSUME CalibrationIsMonotone ==
  /\ Calibrated \in [0..Top -> 0..Top] /\ Calibrated[0] = 0 /\ Calibrated[Top] = Top
  /\ \A p, q \in 0..Top : p <= q => Calibrated[p] <= Calibrated[q]
ASSUME GreyZone == 0 <= GreyLow /\ GreyLow <= GreyHigh /\ GreyHigh <= Top
ASSUME IndexIsUsable ==
  /\ Reference \in Seq(0..Top) /\ Len(Reference) > 0 /\ Neighbours > 0 /\ Rows > 0
  /\ 0 < QNum /\ QNum < QDen

VARIABLES
  settings,   \* fixed for the life of the process
  detector,   \* the OOD index was loaded at startup
  turn,       \* turns begun
  phase,      \* "idle" | "input" | "answering" | "output"
  text,       \* what the regex rules say of the message: [travel, prohibited]
  foul,       \* the answer matches a prohibited-content rule
  asking,     \* gate -> the evaluator that is to judge next, "done" when none is
  asked,      \* gate -> the evaluations so far, in order
  score,      \* the classifier's probability in this turn, -1 if it gave none
  far,        \* the OOD verdict in this turn: "unknown" | "near" | "far"
  unlocked,   \* scope_unlocked in the Redis hash of the session
  inScope,    \* turns that an evaluator of the scope gate has found in scope
  outcome     \* how the last turn ended

vars == <<settings, detector, turn, phase, text, foul, asking, asked, score, far,
          unlocked, inScope, outcome>>

Gate == {"scope", "censorship", "output"}
Evaluators == {"rules", "llm", "classifier", "guardian", "no_scoper", "session_unlocked", "broken"}
\* "allow" and "reject" decide; "deferred" and "failed" (success = False) fall back.
Attempt == [by : Evaluators, verdict : {"allow", "reject", "deferred", "failed"}]
Texts == [travel : BOOLEAN, prohibited : BOOLEAN]

------------------------------------------------------------------------------
(* The verdict in a model's reply: its last word.                           *)

Words == {"yes", "no", "safe", "unsafe", "other"}
Replies == UNION {[1..n -> Words] : n \in 0..2}
LastWordIn(reply, vocabulary) == reply # <<>> /\ Last(reply) \in vocabulary
ScopeVerdict(reply) ==
  IF ~LastWordIn(reply, {"yes", "no"}) THEN "failed"
  ELSE IF Last(reply) = "yes" THEN "allow" ELSE "reject"
CensorVerdict(reply) ==
  IF ~LastWordIn(reply, {"safe", "unsafe"}) THEN "failed"
  ELSE IF Last(reply) = "safe" THEN "allow" ELSE "reject"
\* Guardian names the risk: yes is not safe.
GuardianVerdict(reply) ==
  IF ~LastWordIn(reply, {"yes", "no"}) THEN "failed"
  ELSE IF Last(reply) = "no" THEN "allow" ELSE "reject"

------------------------------------------------------------------------------
(* The distance of a request to the training corpus.                        *)

Ascending(similarities) == SortSeq(similarities, LAMBDA a, b : a < b)
\* k times the mean similarity to the k nearest rows.
Nearest(similarities) ==
  LET n == Len(similarities)
      k == IF Neighbours < n THEN Neighbours ELSE n
      s == Ascending(similarities)
  IN [k |-> k, sum |-> FoldSeq(LAMBDA x, y : x + y, 0, SubSeq(s, n - k + 1, n))]
\* QDen times numpy's linearly interpolated quantile of the reference distribution.
Threshold ==
  LET h  == QNum * (Len(Reference) - 1)
      lo == h \div QDen + 1
  IN IF lo = Len(Reference) THEN QDen * Reference[lo]
     ELSE QDen * Reference[lo] + (h % QDen) * (Reference[lo + 1] - Reference[lo])
IsFar(similarities) ==
  LET near == Nearest(similarities) IN near.sum * QDen <= near.k * Threshold

\* What the embedding endpoint and the index make of a message: nothing, when the
\* request fails or the vector is missing, of another size or zero; or its distance.
Distances == {"unknown"} \cup {IF IsFar(s) THEN "far" ELSE "near" : s \in [1..Rows -> 0..Top]}

------------------------------------------------------------------------------
(* The chains.                                                              *)

ScopeChain(s) == CASE s.scope = "rule_based" -> "rules"
                   [] OTHER -> s.scope
CensorshipChain(s) == CASE s.censorship = "rule_based" -> "rules"
                        [] s.censorship = "model" -> "llm"
                        [] OTHER -> s.censorship
Fallback(e) == CASE e = "classifier" -> "llm"
                 [] e \in {"llm", "guardian"} -> "rules"
                 [] OTHER -> "done"

\* The unlock exists for the classifier, which sees no dialogue.
UnlockApplies(s) == s.unlock /\ s.scope = "classifier"

Init ==
  /\ settings \in Deployments
  \* A missing or unreadable index leaves the gate without the distance.
  /\ detector \in (IF settings.ood = "off" THEN {FALSE} ELSE BOOLEAN)
  /\ turn = 0 /\ phase = "idle" /\ text = [travel |-> FALSE, prohibited |-> FALSE]
  /\ foul = FALSE
  /\ asking = [g \in Gate |-> "done"] /\ asked = [g \in Gate |-> <<>>]
  /\ score = -1 /\ far = "unknown" /\ unlocked = FALSE /\ inScope = {} /\ outcome = "none"

\* _scope_is_unlocked: a Redis that cannot be read leaves the check in place.
\* Variation, to test the properties: an unreadable flag skips it.
SkipsScope_FailOpen(readable) == UnlockApplies(settings) /\ (~readable \/ unlocked)
SkipsScope(readable) == UnlockApplies(settings) /\ readable /\ unlocked

BeginTurn ==
  /\ phase = "idle" /\ turn < MaxTurns
  /\ turn' = turn + 1 /\ phase' = "input"
  /\ text' \in Texts
  /\ \E readable \in BOOLEAN :
       asking' = [scope |-> IF SkipsScope(readable) THEN "session_unlocked" ELSE ScopeChain(settings),
                  censorship |-> CensorshipChain(settings), output |-> "done"]
  /\ asked' = [g \in Gate |-> <<>>]
  /\ score' = -1 /\ far' = "unknown" /\ outcome' = "none"
  /\ UNCHANGED <<settings, detector, foul, unlocked, inScope>>

\* An evaluator answers; only a verdict that decides ends the gate.
Evaluated(g, e, verdict) ==
  /\ asked' = [asked EXCEPT ![g] = Append(@, [by |-> e, verdict |-> verdict])]
  /\ asking' = [asking EXCEPT ![g] = IF verdict \in {"allow", "reject"} THEN "done" ELSE Fallback(e)]

Steady == <<settings, detector, turn, phase, text, foul, unlocked, inScope, outcome>>

\* A rule that matches lets a message into scope, and keeps a text from passing censorship.
RulesVerdict(g) ==
  LET passed == CASE g = "scope" -> text.travel
                  [] g = "censorship" -> ~text.prohibited
                  [] g = "output" -> ~foul
  IN IF passed THEN "allow" ELSE "reject"
AskRules(g) ==
  /\ asking[g] = "rules"
  /\ Evaluated(g, "rules", RulesVerdict(g))
  /\ UNCHANGED <<Steady, score, far>>

AskNobody(g) ==
  /\ asking[g] \in {"no_scoper", "session_unlocked"}
  /\ Evaluated(g, asking[g], "allow")
  /\ UNCHANGED <<Steady, score, far>>

\* A chat completion: it fails, or its reply is parsed into one of these verdicts.
AskModel(g, e, verdicts) ==
  /\ asking[g] = e
  /\ \E verdict \in {"failed"} \cup verdicts : Evaluated(g, e, verdict)
  /\ UNCHANGED <<Steady, score, far>>
AskScoper == AskModel("scope", "llm", {ScopeVerdict(r) : r \in Replies})
AskCensor(g) == g # "scope" /\ AskModel(g, "llm", {CensorVerdict(r) : r \in Replies})
AskGuardian(g) == AskModel(g, "guardian", {GuardianVerdict(r) : r \in Replies})

\* /classify: a failed request or a payload of another shape falls back.
ScoreMessage ==
  /\ asking["scope"] = "classifier" /\ score = -1
  /\ \/ Evaluated("scope", "classifier", "failed") /\ UNCHANGED score
     \/ score' \in {Calibrated[raw] : raw \in 0..Top} /\ UNCHANGED <<asking, asked>>
  /\ UNCHANGED <<Steady, far>>

\* What the classifier makes of its own score.
AloneVerdict(p) == CASE p >= GreyHigh -> "allow"
                     [] p < GreyHigh /\ p <= GreyLow /\ ~settings.confirm -> "reject"
                     [] OTHER -> "deferred"

\* The distance to the corpus, when there is an index and the embedding arrives: it
\* can only turn a verdict into a deferral, and in shadow mode it changes nothing.
JudgeMessage ==
  /\ asking["scope"] = "classifier" /\ score # -1
  /\ far' \in (IF detector THEN Distances ELSE {"unknown"})
  /\ Evaluated("scope", "classifier",
               IF far' = "far" /\ settings.ood = "enforce" THEN "deferred" ELSE AloneVerdict(score))
  /\ UNCHANGED <<Steady, score>>

\* Any exception that leaves an evaluator, whichever is plugged in: a failed decision
\* that rejects (_measured, and the except clause of evaluate_output_censorship).
OnException_Open == "allow"   \* variation, to test the properties
OnException == "reject"
GateBreaks(g) ==
  /\ asking[g] # "done"
  /\ asked' = [asked EXCEPT ![g] = Append(@, [by |-> "broken", verdict |-> OnException])]
  /\ asking' = [asking EXCEPT ![g] = "done"]
  /\ UNCHANGED <<Steady, score, far>>

Decision(g) == Last(asked[g])
Passed(g) == Decision(g).verdict = "allow"

\* _remember_scope_verdict: written for every turn in scope, whatever censorship says;
\* the write may fail.
Remember ==
  IF Passed("scope") /\ UnlockApplies(settings) THEN unlocked' \in {unlocked, TRUE}
  ELSE UNCHANGED unlocked

\* _outcome: censorship comes first.
Outcome == CASE ~Passed("censorship") -> "censorship"
             [] Passed("censorship") /\ ~Passed("scope") -> "out_of_scope"
             [] OTHER -> "completed"

GatesComplete ==
  /\ phase = "input" /\ asking["scope"] = "done" /\ asking["censorship"] = "done"
  /\ Remember
  /\ inScope' = IF Passed("scope") /\ Decision("scope").by # "session_unlocked"
                THEN inScope \cup {turn} ELSE inScope
  /\ IF Outcome = "completed" THEN phase' = "answering" /\ UNCHANGED outcome
     ELSE phase' = "idle" /\ outcome' = Outcome
  /\ UNCHANGED <<settings, detector, turn, text, foul, asking, asked, score, far>>

\* The agent loop has an answer; it goes through the censorship gate of the input.
Answer ==
  /\ phase = "answering"
  /\ phase' = "output" /\ foul' \in BOOLEAN
  /\ asking' = [asking EXCEPT !["output"] = CensorshipChain(settings)]
  /\ UNCHANGED <<settings, detector, turn, text, asked, score, far, unlocked, inScope, outcome>>

FinishTurn ==
  /\ phase = "output" /\ asking["output"] = "done"
  /\ phase' = "idle" /\ outcome' = IF Passed("output") THEN "completed" ELSE "output_censorship"
  /\ UNCHANGED <<settings, detector, turn, text, foul, asking, asked, score, far, unlocked, inScope>>

Done == phase = "idle" /\ turn = MaxTurns /\ UNCHANGED vars

EvaluationStep ==
  \/ AskScoper \/ ScoreMessage \/ JudgeMessage
  \/ \E g \in Gate : AskRules(g) \/ AskNobody(g) \/ AskCensor(g) \/ AskGuardian(g) \/ GateBreaks(g)

Next == BeginTurn \/ EvaluationStep \/ GatesComplete \/ Answer \/ FinishTurn \/ Done

Spec == Init /\ [][Next]_vars

------------------------------------------------------------------------------
(* PROPERTIES                                                               *)

\* "A dead classifier must not turn into a blanket allow": a prohibited message reaches the
\* agent, and a prohibited answer the reply of a completed turn, only if a model read it and
\* said that it is safe; a message without travel intent only if a model, the classifier or
\* the deployment admits it. No failed evaluator lets anything pass.  (The reply text and what
\* is stored of it: what was streamed before the output gate was asked is past its reach, see
\* the Pipeline, and so is the record of the model's calls.)
NothingPassesByFailure ==
  LET vouched(g) == Passed(g) /\ Decision(g).by \notin {"rules", "broken"}
  IN /\ (phase \in {"answering", "output"} \/ outcome \in {"completed", "output_censorship"}) =>
          /\ text.prohibited => vouched("censorship")
          /\ ~text.travel => vouched("scope")
     /\ outcome = "completed" /\ foul => vouched("output")

\* Scope goes unchecked only in a session of which an evaluator has found an earlier turn
\* in scope, whatever becomes of Redis in between.
SkippedScopeWasEarned ==
  asked["scope"] # <<>> /\ Decision("scope").by = "session_unlocked" =>
    UnlockApplies(settings) /\ \E t \in inScope : t < turn

=============================================================================
