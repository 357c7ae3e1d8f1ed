---------------------------- MODULE GatesProofs ----------------------------
(***************************************************************************)
(* For every deployment, dictionary of verdicts, corpus and number of      *)
(* turns: no failure of an evaluator lets anything pass, and a session     *)
(* that skips the scope gate has earned it.                                *)
(***************************************************************************)
EXTENDS Gates, TLAPS

Verdicts == {"allow", "reject", "deferred", "failed"}

Types ==
  /\ settings \in Settings /\ turn \in Nat /\ inScope \subseteq 1..turn
  /\ phase \in {"idle", "input", "answering", "output"}
  /\ text \in Texts /\ foul \in BOOLEAN /\ unlocked \in BOOLEAN
  /\ asking \in [Gate -> Evaluators \cup {"done"}] /\ asked \in [Gate -> Seq(Attempt)]

Judged(g) == asked[g] # <<>>

\* Whoever has let something pass is not a broken gate, nor rules that do not match.
AllowedKnowingly ==
  \A g \in Gate : Judged(g) /\ Passed(g) =>
    /\ Decision(g).by # "broken"
    /\ Decision(g).by = "rules" => RulesVerdict(g) = "allow"

\* Where the turn stands, and what the gates have said by then.
InputPassed ==
  \A g \in {"scope", "censorship"} : Judged(g) /\ Passed(g) /\ asking[g] = "done"
Phases ==
  /\ phase # "idle" => outcome = "none"
  /\ phase = "input" => \A g \in {"scope", "censorship"} : asking[g] = "done" => Judged(g)
  /\ phase # "input" => asking["scope"] = "done" /\ asking["censorship"] = "done"
  /\ phase \in {"input", "answering"} => ~Judged("output")
  /\ phase # "output" => asking["output"] = "done"
  /\ phase = "output" /\ asking["output"] = "done" => Judged("output")
  /\ phase \in {"answering", "output"} \/ outcome \in {"completed", "output_censorship"} =>
       InputPassed
  /\ outcome = "completed" => Judged("output") /\ Passed("output")

Earned == UnlockApplies(settings) /\ \E t \in inScope : t < turn
Unlocking ==
  /\ phase = "input" => turn # 0 /\ turn \notin inScope
  /\ unlocked => inScope # {}
  /\ asking["scope"] = "session_unlocked" => Earned
  /\ \A g \in Gate \ {"scope"} : asking[g] # "session_unlocked"
  /\ Judged("scope") /\ Decision("scope").by = "session_unlocked" => Earned

\* The inductive invariant.
IInv == Types /\ AllowedKnowingly /\ Phases /\ Unlocking

LEMMA InitHolds == Init => IInv
<1> SUFFICES ASSUME Init PROVE IInv
  OBVIOUS
<1>1. Types
  <2>1. settings \in Settings
    BY DeploymentsAreSettings DEF Init
  <2>2. asked \in [Gate -> Seq(Attempt)]
    BY DEF Init
  <2> QED
    BY <2>1, <2>2 DEF Init, Types, Texts
<1>2. AllowedKnowingly /\ Phases /\ Unlocking
  BY DEF Init, AllowedKnowingly, Phases, Unlocking, Judged, Gate
<1> QED
  BY <1>1, <1>2 DEF IInv

------------------------------------------------------------------------------
(* One evaluation.                                                          *)

\* What is true of a gate's last decision after one more evaluation.
LEMMA LastAppended ==
    ASSUME NEW s \in Seq(Attempt), NEW x \in Attempt
    PROVE  /\ Append(s, x) \in Seq(Attempt) /\ Append(s, x) # <<>>
           /\ Last(Append(s, x)) = x
BY DEF Last

\* An evaluator has its say: an "allow" comes from no broken gate, nor from rules that do not
\* match, and that of an unlocked session from one that was asked.
LEMMA EvaluationStepHolds ==
    ASSUME IInv, NEW g \in Gate, asking[g] # "done",
           NEW e \in Evaluators, NEW verdict \in Verdicts,
           NEW next \in Evaluators \cup {"done"}, next # "session_unlocked",
           asked' = [asked EXCEPT ![g] = Append(@, [by |-> e, verdict |-> verdict])],
           asking' = [asking EXCEPT ![g] = next],
           verdict = "allow" => e # "broken" /\ (e = "rules" => RulesVerdict(g) = "allow"),
           e = "session_unlocked" => g = "scope" /\ asking["scope"] = "session_unlocked",
           UNCHANGED Steady
    PROVE  IInv'
<1> DEFINE x == [by |-> e, verdict |-> verdict]
<1>1. x \in Attempt
  BY DEF Attempt, Verdicts
<1>2. /\ asked'[g] \in Seq(Attempt) /\ Judged(g)' /\ Decision(g)' = x
      /\ \A h \in Gate \ {g} : asked'[h] = asked[h] /\ asking'[h] = asking[h]
  BY <1>1, LastAppended DEF IInv, Types, Judged, Decision
<1>3. Types'
  BY <1>2 DEF IInv, Types, Steady
<1>4. AllowedKnowingly'
  <2> SUFFICES ASSUME NEW h \in Gate, Judged(h)', Passed(h)'
               PROVE  /\ Decision(h)'.by # "broken"
                      /\ Decision(h)'.by = "rules" => RulesVerdict(h)' = "allow"
    BY DEF AllowedKnowingly
  <2>1. RulesVerdict(h)' = RulesVerdict(h)
    BY DEF RulesVerdict, Steady
  <2>2. CASE h = g
    BY <1>2, <2>1, <2>2 DEF Passed
  <2>3. CASE h # g
    BY <1>2, <2>1, <2>3 DEF IInv, AllowedKnowingly, Passed, Decision, Judged
  <2> QED
    BY <2>2, <2>3
<1>5. Phases'
  <2>1. CASE g = "output"
    <3>1. phase = "output"
      BY <2>1 DEF IInv, Phases
    <3>2. InputPassed'
      BY <1>2, <2>1, <3>1 DEF IInv, Phases, InputPassed, Judged, Passed, Decision, Gate
    <3> QED
      BY <1>2, <2>1, <3>1, <3>2 DEF IInv, Phases, Steady, Judged, Gate
  <2>2. CASE g \in {"scope", "censorship"}
    <3>1. phase = "input" /\ outcome = "none"
      BY <2>2 DEF IInv, Phases
    <3> QED
      BY <1>2, <2>2, <3>1 DEF IInv, Phases, Steady, Judged, Gate
  <2> QED
    BY <2>1, <2>2 DEF Gate
<1>6. Unlocking'
  <2>1. Earned' = Earned
    BY DEF Earned, Steady, UnlockApplies
  <2>2. CASE g = "scope"
    BY <1>2, <2>1, <2>2 DEF IInv, Unlocking, Steady, Types
  <2>3. CASE g # "scope"
    BY <1>2, <2>1, <2>3 DEF IInv, Unlocking, Steady, Judged, Decision, Gate
  <2> QED
    BY <2>2, <2>3
<1> QED
  BY <1>3, <1>4, <1>5, <1>6 DEF IInv

LEMMA EvaluatedStep ==
    ASSUME IInv, NEW g \in Gate, asking[g] # "done",
           NEW e \in Evaluators, NEW verdict \in Verdicts, Evaluated(g, e, verdict),
           verdict = "allow" => e # "broken" /\ (e = "rules" => RulesVerdict(g) = "allow"),
           e = "session_unlocked" => g = "scope" /\ asking["scope"] = "session_unlocked",
           UNCHANGED Steady
    PROVE  IInv'
<1> DEFINE next == IF verdict \in {"allow", "reject"} THEN "done" ELSE Fallback(e)
<1>1. next \in Evaluators \cup {"done"} /\ next # "session_unlocked"
  BY DEF Fallback, Evaluators
<1>2. /\ asked' = [asked EXCEPT ![g] = Append(@, [by |-> e, verdict |-> verdict])]
      /\ asking' = [asking EXCEPT ![g] = next]
  BY DEF Evaluated
<1> HIDE DEF next
<1> QED
  BY <1>1, <1>2, EvaluationStepHolds

LEMMA ModelStep ==
    ASSUME IInv, NEW g \in Gate, NEW e \in {"llm", "guardian"}, NEW verdicts \in SUBSET Verdicts,
           AskModel(g, e, verdicts)
    PROVE  IInv'
<1> PICK verdict \in {"failed"} \cup verdicts : Evaluated(g, e, verdict)
  BY DEF AskModel
<1>1. verdict \in Verdicts
  BY DEF Verdicts
<1>2. asking[g] # "done" /\ UNCHANGED Steady /\ e \in Evaluators
  BY DEF AskModel, Evaluators
<1> QED
  BY <1>1, <1>2, EvaluatedStep

LEMMA EvaluationsHold ==
    ASSUME IInv, EvaluationStep
    PROVE  IInv'
<1>1. CASE AskScoper
  <2>1. {ScopeVerdict(r) : r \in Replies} \in SUBSET Verdicts
    BY DEF ScopeVerdict, Verdicts
  <2> QED
    BY <1>1, <2>1, ModelStep DEF AskScoper, Gate
<1>2. CASE ScoreMessage
  <2>1. CASE Evaluated("scope", "classifier", "failed")
    BY <1>2, <2>1, EvaluatedStep DEF ScoreMessage, Gate, Evaluators, Verdicts
  <2>2. CASE UNCHANGED <<asking, asked>>
    BY <1>2, <2>2
    DEF ScoreMessage, Steady, IInv, Types, AllowedKnowingly, Phases, Unlocking, Judged, Passed,
        Decision, RulesVerdict, InputPassed, Earned, UnlockApplies
  <2> QED
    BY <1>2, <2>1, <2>2 DEF ScoreMessage
<1>3. CASE JudgeMessage
  <2> PICK verdict \in Verdicts : Evaluated("scope", "classifier", verdict)
    BY <1>3 DEF JudgeMessage, AloneVerdict, Verdicts
  <2> QED
    BY <1>3, EvaluatedStep DEF JudgeMessage, Gate, Evaluators
<1>4. ASSUME NEW g \in Gate, AskRules(g) PROVE IInv'
  <2>1. RulesVerdict(g) \in Verdicts
    BY DEF RulesVerdict, Verdicts
  <2> QED
    BY <1>4, <2>1, EvaluatedStep DEF AskRules, Evaluators
\* Only the scope gate is ever asked of nobody.
<1>5. ASSUME NEW g \in Gate, AskNobody(g) PROVE IInv'
  <2>1. asking[g] = "session_unlocked" => g = "scope"
    BY <1>5 DEF AskNobody, IInv, Phases, Gate, Unlocking
  <2> QED
    BY <1>5, <2>1, EvaluatedStep DEF AskNobody, Evaluators, Verdicts
<1>6. ASSUME NEW g \in Gate, AskCensor(g) PROVE IInv'
  <2>1. {CensorVerdict(r) : r \in Replies} \in SUBSET Verdicts
    BY DEF CensorVerdict, Verdicts
  <2> QED
    BY <1>6, <2>1, ModelStep DEF AskCensor
<1>7. ASSUME NEW g \in Gate, AskGuardian(g) PROVE IInv'
  <2>1. {GuardianVerdict(r) : r \in Replies} \in SUBSET Verdicts
    BY DEF GuardianVerdict, Verdicts
  <2> QED
    BY <1>7, <2>1, ModelStep DEF AskGuardian
<1>8. ASSUME NEW g \in Gate, GateBreaks(g) PROVE IInv'
  <2>1. "broken" \in Evaluators /\ "reject" \in Verdicts
    BY DEF Evaluators, Verdicts
  <2>2. /\ asking[g] # "done" /\ UNCHANGED Steady
        /\ asked' = [asked EXCEPT ![g] = Append(@, [by |-> "broken", verdict |-> "reject"])]
        /\ asking' = [asking EXCEPT ![g] = "done"]
    BY <1>8 DEF GateBreaks, OnException
  <2> QED
    BY <2>1, <2>2, EvaluationStepHolds
<1> QED
  BY <1>1, <1>2, <1>3, <1>4, <1>5, <1>6, <1>7, <1>8 DEF EvaluationStep

------------------------------------------------------------------------------
(* The turn.                                                                *)

LEMMA Chains ==
    ASSUME NEW s \in Settings
    PROVE  /\ ScopeChain(s) \in Evaluators \ {"session_unlocked"}
           /\ CensorshipChain(s) \in Evaluators \ {"session_unlocked"}
BY DEF Settings, ScopeChain, CensorshipChain, Evaluators

LEMMA BeginHolds ==
    ASSUME IInv, BeginTurn
    PROVE  IInv'
<1> PICK readable \in BOOLEAN :
      asking' = [scope |-> IF SkipsScope(readable) THEN "session_unlocked" ELSE ScopeChain(settings),
                 censorship |-> CensorshipChain(settings), output |-> "done"]
  BY DEF BeginTurn
<1>1. /\ settings \in Settings /\ \A g \in Gate : asked'[g] = <<>>
      /\ asked' = [g \in Gate |-> <<>>]
      /\ phase' = "input" /\ outcome' = "none" /\ turn' = turn + 1
      /\ UNCHANGED <<settings, foul, unlocked, inScope>> /\ text' \in Texts
  BY DEF BeginTurn, IInv, Types
<1>2. asking' \in [Gate -> Evaluators \cup {"done"}]
  <2>1. "session_unlocked" \in Evaluators
    BY DEF Evaluators
  <2> QED
    BY <1>1, <2>1, Chains DEF Gate
<1>3. Types'
  BY <1>1, <1>2 DEF IInv, Types
<1>4. asking'["scope"] # "done" /\ asking'["censorship"] # "done" /\ asking'["output"] = "done"
  BY <1>1, Chains DEF Evaluators
<1>5. AllowedKnowingly' /\ Phases'
  BY <1>1, <1>4 DEF AllowedKnowingly, Phases, Judged, Gate
<1>6. Unlocking'
  <2>1. turn' # 0 /\ turn' \notin inScope'
    BY <1>1 DEF IInv, Types
  <2>2. ASSUME SkipsScope(readable) PROVE Earned'
    <3>1. UnlockApplies(settings)' /\ unlocked
      BY <1>1, <2>2 DEF SkipsScope, UnlockApplies
    <3>2. PICK t \in inScope : TRUE
      BY <3>1 DEF IInv, Unlocking
    <3>3. t < turn + 1
      BY <3>2 DEF IInv, Types
    <3> QED
      BY <1>1, <3>1, <3>2, <3>3 DEF Earned
  <2>3. \A g \in Gate \ {"scope"} : asking'[g] # "session_unlocked"
    BY <1>1, Chains DEF Gate
  <2>4. asking'["scope"] = "session_unlocked" => SkipsScope(readable)
    BY <1>1, Chains
  <2> QED
    BY <1>1, <2>1, <2>2, <2>3, <2>4 DEF IInv, Unlocking, Judged, Gate
<1> QED
  BY <1>3, <1>5, <1>6 DEF IInv

LEMMA CompleteHolds ==
    ASSUME IInv, GatesComplete
    PROVE  IInv'
<1>1. /\ phase = "input" /\ asking["scope"] = "done" /\ asking["censorship"] = "done"
      /\ asking["output"] = "done" /\ Judged("scope") /\ Judged("censorship") /\ ~Judged("output")
      /\ UNCHANGED <<settings, turn, text, foul, asking, asked>> /\ turn \in Nat \ {0}
      /\ turn \notin inScope
  BY DEF GatesComplete, IInv, Phases, Types, Unlocking
<1>2. \/ /\ phase' = "answering" /\ outcome' = "none" /\ Passed("scope") /\ Passed("censorship")
      \/ phase' = "idle" /\ outcome' \in {"censorship", "out_of_scope"}
  BY <1>1 DEF GatesComplete, Outcome, IInv, Phases
<1>3. /\ inScope \subseteq inScope' /\ inScope' \subseteq inScope \cup {turn}
      /\ Passed("scope") /\ Decision("scope").by # "session_unlocked" => turn \in inScope'
  BY DEF GatesComplete
<1>4. unlocked' \in BOOLEAN /\ (unlocked' => unlocked \/ Passed("scope"))
  BY DEF GatesComplete, Remember, IInv, Types
<1>5. Types'
  BY <1>1, <1>2, <1>3, <1>4 DEF IInv, Types
<1>6. AllowedKnowingly'
  BY <1>1 DEF IInv, AllowedKnowingly, Judged, Passed, Decision, RulesVerdict
<1>7. Phases'
  BY <1>1, <1>2 DEF Phases, InputPassed, Judged, Passed, Decision, Gate
<1>8. Unlocking'
  <2>1. Earned => Earned'
    BY <1>1, <1>3 DEF Earned, UnlockApplies
  <2>2. unlocked' => inScope' # {}
    BY <1>1, <1>3, <1>4 DEF IInv, Unlocking, Earned
  <2> QED
    BY <1>1, <1>2, <2>1, <2>2 DEF IInv, Unlocking, Judged, Decision
<1> QED
  BY <1>5, <1>6, <1>7, <1>8 DEF IInv

LEMMA AnswerHolds ==
    ASSUME IInv, Answer
    PROVE  IInv'
<1>1. /\ phase = "answering" /\ phase' = "output" /\ foul' \in BOOLEAN /\ ~Judged("output")
      /\ asking' = [asking EXCEPT !["output"] = CensorshipChain(settings)]
      /\ UNCHANGED <<settings, turn, text, asked, unlocked, inScope, outcome>>
      /\ outcome = "none" /\ InputPassed
  BY DEF Answer, IInv, Phases
<1>2. CensorshipChain(settings) \in Evaluators \ {"session_unlocked"}
  BY Chains DEF IInv, Types
<1>3. Types'
  BY <1>1, <1>2 DEF IInv, Types
<1>4. AllowedKnowingly'
  <2>1. \A g \in {"scope", "censorship"} : RulesVerdict(g)' = RulesVerdict(g)
    BY <1>1 DEF RulesVerdict
  <2> QED
    BY <1>1, <2>1 DEF IInv, AllowedKnowingly, Judged, Passed, Decision, Gate
<1>5. "output" \in Gate /\ asking'["output"] # "done"
  BY <1>1, <1>2 DEF Gate, Evaluators, IInv, Types
<1>6. asking'["scope"] = asking["scope"] /\ asking'["censorship"] = asking["censorship"]
  BY <1>1 DEF IInv, Types, Gate
<1>7. InputPassed'
  BY <1>1, <1>6 DEF InputPassed, Judged, Passed, Decision
<1>8. Phases'
  BY <1>1, <1>5, <1>6, <1>7 DEF IInv, Phases
<1>9. Unlocking'
  BY <1>1, <1>2, <1>6, <1>3
  DEF IInv, Unlocking, Earned, UnlockApplies, Judged, Decision, Types, Gate
<1> QED
  BY <1>3, <1>4, <1>8, <1>9 DEF IInv

LEMMA FinishHolds ==
    ASSUME IInv, FinishTurn
    PROVE  IInv'
<1>1. /\ phase = "output" /\ asking["output"] = "done" /\ phase' = "idle" /\ Judged("output")
      /\ outcome' = IF Passed("output") THEN "completed" ELSE "output_censorship"
      /\ UNCHANGED <<settings, turn, text, foul, asking, asked, unlocked, inScope>> /\ InputPassed
  BY DEF FinishTurn, IInv, Phases
<1>2. Types' /\ AllowedKnowingly'
  BY <1>1 DEF IInv, Types, AllowedKnowingly, Judged, Passed, Decision, RulesVerdict
<1>3. Phases'
  BY <1>1 DEF IInv, Phases, InputPassed, Judged, Passed, Decision
<1>4. Unlocking'
  BY <1>1 DEF IInv, Unlocking, Earned, UnlockApplies, Judged, Decision
<1> QED
  BY <1>2, <1>3, <1>4 DEF IInv

LEMMA Invariance == Spec => []IInv
<1>1. ASSUME IInv, UNCHANGED vars PROVE IInv'
  <2>1. Types' /\ AllowedKnowingly'
    BY <1>1 DEF vars, IInv, Types, AllowedKnowingly, Judged, Passed, Decision, RulesVerdict
  <2>2. Phases'
    BY <1>1 DEF vars, IInv, Phases, InputPassed, Judged, Passed, Decision
  <2>3. Unlocking'
    BY <1>1 DEF vars, IInv, Unlocking, Earned, UnlockApplies, Judged, Decision
  <2> QED
    BY <2>1, <2>2, <2>3 DEF IInv
<1>2. IInv /\ [Next]_vars => IInv'
  BY <1>1, EvaluationsHold, BeginHolds, CompleteHolds, AnswerHolds, FinishHolds DEF Next, Done
<1> QED
  BY InitHolds, <1>2, PTL DEF Spec

\* "A dead classifier must not turn into a blanket allow": whatever chain of evaluators is
\* configured, and whichever of them fail, no message that the rules would stop reaches the agent,
\* and no such answer becomes the reply of a completed turn, on less than a verdict (gates.py,
\* _measured and the chains built by build_gates).
THEOREM NothingPassesByFailureAlways == Spec => []NothingPassesByFailure
<1>1. IInv => NothingPassesByFailure
  <2> SUFFICES ASSUME IInv PROVE NothingPassesByFailure
    OBVIOUS
  <2>1. \A g \in Gate : Judged(g) /\ Passed(g) =>
          \/ Decision(g).by \notin {"rules", "broken"}
          \/ RulesVerdict(g) = "allow"
    BY DEF IInv, AllowedKnowingly
  <2>2. /\ RulesVerdict("scope") = "allow" => text.travel
        /\ RulesVerdict("censorship") = "allow" => ~text.prohibited
        /\ RulesVerdict("output") = "allow" => ~foul
    BY DEF RulesVerdict
  <2> QED
    BY <2>1, <2>2 DEF IInv, Phases, InputPassed, NothingPassesByFailure, Gate
<1> QED
  BY Invariance, <1>1, PTL

\* A turn whose scope nobody has checked comes after one that an evaluator has found in scope,
\* whatever Redis forgets or cannot read in between (pipeline.py, _scope_is_unlocked).
THEOREM SkippedScopeWasEarnedAlways == Spec => []SkippedScopeWasEarned
<1>1. IInv => SkippedScopeWasEarned
  BY DEF IInv, Unlocking, Earned, Judged, SkippedScopeWasEarned
<1> QED
  BY Invariance, <1>1, PTL
=============================================================================
