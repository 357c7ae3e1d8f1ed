----------------------------- MODULE References -----------------------------
(***************************************************************************)
(* The references of one answer, from the searches that mint them to the   *)
(* pins and sources the user sees.  The model writes them into its answer; *)
(* the validator of the agent loop and, later, the pipeline read each one  *)
(* from Redis.  Records expire, and other chats save them again, at any    *)
(* moment: what a read finds is chosen anew at every read, except that a   *)
(* ref nobody has minted is never found.                                   *)
(***************************************************************************)
EXTENDS Naturals, FiniteSets

CONSTANTS
  Places,            \* refs of the places that searches find
  Anchors,           \* refs of textual anchors
  Pages,             \* refs of web pages
  Invented,          \* place refs that nobody has minted
  Names, Name,       \* the name of each place
  TooShort,          \* names of fewer than three characters, which any text may contain
  MaxAttempts,       \* attempts of the pipeline
  MaxSearches,       \* bound on the successful searches of the request
  MaxRegenerations   \* rejected answers in one attempt

ASSUME NamesAreNames == Name \in [Places -> Names] /\ TooShort \subseteq Names

VARIABLES
  stage,    \* "agent", "validating", "verifying", "sources", "pins", "done", "failed"
  attempt,  \* of the pipeline
  results,  \* of the successful searches: [attempt, places, anchor, pages]
  draft,    \* the answer: the refs it cites and the places' names it mentions
  retries,  \* rejected answers of this attempt
  how,      \* how the answer got past the validator
  unknown,  \* the pipeline's grounding report: refs without a record
  sources, pins,  \* the refs of what is shown with the answer
  missed    \* refs without a record when the sources and pins were made

evidenceVars == <<stage, attempt, results, draft, retries, how, unknown, sources, pins, missed>>

PlaceRefs == Places \cup Anchors \cup Invented
NoAnchor == "none"
NoDraft == [cited |-> {}, named |-> {}]

EvidenceInit ==
  /\ stage = "agent" /\ attempt = 1 /\ results = {} /\ draft = NoDraft /\ retries = 0
  /\ how = "none" /\ unknown = {} /\ sources = {} /\ pins = {} /\ missed = {}

Shown == <<unknown, sources, pins, missed>>
Executed == {r \in results : r.attempt = attempt}
\* The refs that a reading of `refs` does not find.
Absent(refs) == {absent \in SUBSET refs : refs \cap Invented \subseteq absent}

------------------------------------------------------------------------------
(* The agent loop.                                                          *)

Found(r) ==
  /\ stage = "agent" /\ Cardinality(results) < MaxSearches
  /\ results' = results \cup {r}
  /\ UNCHANGED <<stage, attempt, draft, retries, how, Shown>>

\* A search around an anchor, of its own or a place known from before, or none.
SearchPlaces ==
  \E places \in SUBSET Places, anchor \in {NoAnchor} \cup Anchors \cup Places :
    Found([attempt |-> attempt, places |-> places, anchor |-> anchor, pages |-> {}])
SearchWeb ==
  \E pages \in SUBSET Pages :
    Found([attempt |-> attempt, places |-> {}, anchor |-> NoAnchor, pages |-> pages])

\* The model may write any ref: returned now, remembered from the dialogue, or made up.
WriteAnswer ==
  /\ stage = "agent"
  /\ \E cited \in SUBSET (PlaceRefs \cup Pages), named \in SUBSET Names :
       draft' = [cited |-> cited, named |-> named]
  /\ stage' = "validating"
  /\ UNCHANGED <<attempt, results, retries, how, Shown>>

\* No answer, or a model that is too slow: the pipeline tries once more, from the beginning.
AttemptFails ==
  /\ stage = "agent" /\ attempt < MaxAttempts
  /\ attempt' = attempt + 1 /\ retries' = 0
  /\ UNCHANGED <<stage, results, draft, how, Shown>>

\* _missing_required_web_citation, missing_listed_place_names.
Named(places) == {p \in places : Name[p] \in draft.named \ TooShort}
\* Variation, to test the properties: one place of a search stands for all of them.
MissingNames_Any(executed) ==
  \E r \in executed : r.places \cap draft.cited = {} /\ Named(r.places) # {}
MissingNames(executed) == \E r \in executed : ~(Named(r.places) \subseteq draft.cited)
MissingCitation(executed) ==
  LET pages == UNION {r.pages : r \in executed} IN pages # {} /\ pages \cap draft.cited = {}

Accept(reason) ==
  how' = reason /\ stage' = "verifying" /\ UNCHANGED <<draft, retries>>
\* Reasoning exposed in the answer is a problem of its own.  An answer that may not be rejected
\* any more is accepted with its problem.
\* Variation, to test the properties: it counts as valid.
Judged_Never(problem) == "valid"
Judged(problem) == IF problem THEN "exhausted" ELSE "valid"
Validate ==
  /\ stage = "validating"
  /\ \E absent \in Absent(draft.cited), exposed \in BOOLEAN :
       LET problem == exposed \/ absent # {} \/ MissingCitation(Executed) \/ MissingNames(Executed)
       IN IF problem /\ retries < MaxRegenerations
          THEN retries' = retries + 1 /\ stage' = "agent" /\ draft' = NoDraft /\ UNCHANGED how
          ELSE Accept(Judged(problem))
  /\ UNCHANGED <<attempt, results, Shown>>

\* No answer after all turns or attempts: a fixed text, which cites nothing and is not validated.
GiveUp ==
  /\ stage = "agent"
  /\ draft' = NoDraft /\ how' = "fallback" /\ stage' = "verifying"
  /\ UNCHANGED <<attempt, results, retries, Shown>>

\* Redis fails: the validator must not cost the answer.
ValidatorBreaks ==
  /\ stage = "validating" /\ draft.cited # {}
  /\ Accept("unvalidated")
  /\ UNCHANGED <<attempt, results, Shown>>

------------------------------------------------------------------------------
(* What is shown, from the searches of all attempts.                        *)

Verify ==
  /\ stage = "verifying" /\ stage' = "sources"
  /\ unknown' \in Absent(draft.cited)
  /\ UNCHANGED <<attempt, results, draft, retries, how, sources, pins, missed>>

\* _cited_web_sources: what is cited, and all that a web search returned.
LoadSources ==
  /\ stage = "sources" /\ stage' = "pins"
  /\ LET refs == (draft.cited \cap Pages) \cup UNION {r.pages : r \in results}
     IN \E absent \in Absent(refs) : sources' = refs \ absent /\ missed' = absent
  /\ UNCHANGED <<attempt, results, draft, retries, how, unknown, pins>>

\* selected_eligible_place_refs: cited, and returned by a search of this request.
Selected == draft.cited \cap UNION {r.places : r \in results}
\* selected_search_anchor_refs.
SelectedAnchors ==
  {r.anchor : r \in {x \in results : x.places \cap Selected # {}}} \ {NoAnchor}

LoadPins ==
  /\ stage = "pins" /\ stage' = "done"
  /\ LET refs == Selected \cup SelectedAnchors
     IN \E absent \in Absent(refs) : pins' = refs \ absent /\ missed' = missed \cup absent
  /\ UNCHANGED <<attempt, results, draft, retries, how, unknown, sources>>

\* The model is too slow again, or Redis fails after the answer was accepted.
RequestFails ==
  /\ stage \notin {"validating", "done", "failed"} /\ stage' = "failed"
  /\ UNCHANGED <<attempt, results, draft, retries, how, Shown>>

Done == stage \in {"done", "failed"} /\ UNCHANGED evidenceVars

AgentStep == \/ SearchPlaces \/ SearchWeb \/ WriteAnswer \/ AttemptFails \/ GiveUp
             \/ Validate \/ ValidatorBreaks
EvidenceNext == AgentStep \/ Verify \/ LoadSources \/ LoadPins \/ RequestFails \/ Done
EvidenceSpec == EvidenceInit /\ [][EvidenceNext]_evidenceVars

------------------------------------------------------------------------------
(* PROPERTIES                                                               *)

\* A validated answer has a pin for each place that it names by more than two characters and
\* the attempt's searches returned, and a cited source if they searched the web, unless the
\* record was gone by the time it was shown.
ValidAnswersAreComplete ==
  stage = "done" /\ how = "valid" =>
    LET pages == UNION {r.pages : r \in Executed}
    IN /\ Named(UNION {r.places : r \in Executed}) \subseteq pins \cup missed
       /\ pages # {} => pages \cap draft.cited \cap (sources \cup missed) # {}

\* The grounding report of a delivered answer names every invented ref in it, and a validated
\* answer has none: what its report names did exist and has expired since.
InventedIsReported ==
  stage \in {"sources", "pins", "done"} =>
    /\ draft.cited \cap Invented \subseteq unknown
    /\ how = "valid" => draft.cited \cap Invented = {}
=============================================================================
