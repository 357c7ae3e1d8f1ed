# geo-agent: specifications, model checks and proofs

The TLA+ modules in this directory model the parts of geo-agent whose
correctness depends on the order in which things happen, on failures, or on data
that a unit test samples thinly: requests that meet on one conversation, the
browser that reads their events, the agent loop, the pipeline with its retry and
its gates, the filter on the streamed answer, the routing and place tools with
their providers, and the references that tie an answer to what the tools found.
`PROJECT.json` lists the runs, which source lines every definition stands for,
the mutations each property is known to catch, and the hazards of the code.

Source paths below are relative to `src/`; `services/` and so on are under
`src/backend/app/`.

## The system

A request is a chat turn: `POST /api/v1/chat`, or `POST /api/v1/chat/stream`
with progress and text as it comes. A conversation id is chosen by the caller,
so several requests, of several clients, may name the same one.

    browser tab (ui/app.py)
       |  ^ events
       v  |
    main.py --(request lock)--> Redis
       |
       +--> ConversationStore --(row lock, transcript)--> Postgres
       |
       +--> run_pipeline --> gates (scope, censorship)
                |
                +--> Orchestrator.run, at most two attempts
                |        +--> VLLMClient --> stream filter --> events
                |        +--> ToolExecutor --> routing, places, web search
                |                 +--> scope resolution, geocoding --(records)--> Redis
                |
                +--> output gate, grounding, sources, map places
                +--> transcript, trace, metrics; commit; cache

| Component | State | Operations | What makes it correct | Hard behaviour |
|---|---|---|---|---|
| Conversation access (`main.py`, `services/conversations.py`, `redis/client.py`) | request lock with TTL, conversation row and its lock, messages, cache keys | chat, stream, delete; lock expiry, disconnect, crash | turns are serial, the transcript is numbered and of one client, replies are true, locks end with their request | two locks, one of which expires; transactions; cancellation; Redis failing |
| Event stream and user interface (`main.py`, `ui/app.py`) | event queue; per tab a session, a transcript, a prompt | post, events, end mark, 404 and 409, loading, switching, deleting, interrupting | a prompt is stored once, the screen shows the conversation, the input comes back | broken connections, reruns, retries in a new conversation |
| Request pipeline (`services/pipeline.py`) | attempts, gate verdicts, answer and attachments, durable record | context, gates, attempts, checks, commit, failure record | the record is complete and consistent, the screen agrees with the result | an exception in any stage; two attempts recorded as one |
| Gates (`services/gates.py`, `scope_classifier.py`, `scope_ood.py`) | verdicts of a turn, `scope_unlocked` | evaluate, defer, fall back, unlock | nothing passes because something failed | fallback chains, unreadable verdicts, a flag that outlives its turn |
| Agent loop (`services/orchestrator.py`) | trace, executed calls, dialogue, retry counters | model turn, validation, tool calls, fallback | every call is answered and indexed; nothing but the answer stays on the screen | bounded budget with three kinds of retry |
| Model stream (`llm/vllm.py`, `services/final_answer_stream.py`) | received content, pending text | chunk, tool delta, retry, finish, fail | private markers are never shown; the streamed text is the answer | markers split over chunks, retries |
| Tool framework (`tools/base.py`, `tools/observability.py`) | observation context | run with deadline | one outcome per call, upstream calls recorded | deadline against late answers |
| Routing (`tools/geo/routing`) | attempts, requests in flight, permits, the walking lock | resolve text points, try providers in order | the first able provider answers, a refusal is not hidden, warnings and metrics tell what was done | parallel requests of which one fails, a deadline, permits and a lock shared by all chats |
| Places search (`tools/geo/places_search`) | attempts, shared scope, per-key locks and caches | resolve the scope, try providers, filter, deduplicate, sort, cut | fallback only where the failure allows it; no result vanishes silently; hours claimed only when published | partial failure, deadline, shared lookups, competing cards |
| Geocoding and place resolution (`tools/geo/geocoding`, `text_place_resolution.py`) | records of places in Redis | geocode, localize, load by ref, expire | a call finds what it saved; an area stays an area | whole-record writes by concurrent chats |
| Grounding, references, map places (`services/grounding.py`, `services/map_places.py`, `tools/refs.py`) | records behind refs | mint, validate, verify, expand | only what this request found and this answer cites becomes a pin or a source | records that expire between two reads, two attempts |
| Web search (`tools/web`) | source records | search | - | one provider, no fallback |
| User context, schema, configuration, prompts, scripts, evaluation | - | - | - | presentation, constants or offline |

## Modules

| Module | Models | Uses |
|---|---|---|
| `Transcript` | what a durable conversation promises, independent of locks and sessions | - |
| `ChatSession` | the requests on one conversation id | instantiates `Transcript` |
| `ChatClient` | browser tabs and the streams they read | - |
| `Pipeline` | one request through `run_pipeline`; an attempt is the outcome of an `Orchestrator` run | - |
| `Gates` | the gates of one conversation, turn after turn | - |
| `Orchestrator` | one run of the agent loop | - |
| `References` | the references of one answer, from search to pin | - |
| `AnswerStream` | one streamed model turn: client retry and marker filter | - |
| `RoutingErrors` | how routing replies become successes or classified errors, and which errors let the next provider be tried | - |
| `RoutingTool` | the executions of `routing_tool` in one process | extends `RoutingErrors` |
| `PlaceErrors` | the same for the place services | - |
| `PlacesSearch` | one call of `places_search`: scope, providers, organisations | extends `PlaceErrors` |
| `TwogisLookups` | concurrent calls that share one 2GIS client's cached lookups | - |
| `PlaceMatching`, `OpeningHours` | when a card is what the query names; what published hours say | - |
| `PlaceResults` | from a provider's cards to the tool's result | extends the two above |
| `PlaceRecords` | the records of cities in Redis, shared by all calls | - |
| `*Proofs` | theorems about the module they are named after; `PipelineProofs` also about `References`, `ChatClientProofs` also about `AnswerStream`, `PlacesSearchProofs` also about `PlaceResults` and `PlaceRecords` | extend them, whence the names `EvidenceSpec`, `StreamSpec` and `ResultsSpec` (with `...Init` and `...Next`) in `References`, `AnswerStream` and `PlaceResults`; `PlacesSearchProofs` instantiates `PlaceRecords` |
| `MC*` | the small instances the runs check | extend the above |

Operators named `X_Something` stand next to `X` under the comment "Variation, to
test the properties". They are plausible bugs: dropped guards, wrong resets,
off-by-ones. No action uses them; each is substituted for `X` to see that a
property notices.


### ChatSession

A request is a process; `pc` names its next step, and each SQL statement, commit
and Redis command is one step, because other requests interleave there. `row`
and `messages` are what is committed; `draft[r]` is what r's transaction has
written and not committed; `rowLock` is the Postgres row lock. A row is
identified by the request that inserted it (`creator`), so that a statement that
waited for a lock can tell the row it found from one that was deleted and created
again: that is how READ COMMITTED behaves. `snapshot[r]` is the version a
statement started on. The steps of a turn are, in order,

    AcquireRequestLock, InsertConversation, SelectConversation, LockConversation,
    ReadHistory, RunGates, PersistExchange, CommitTurn, CacheMessage, CacheAnswer,
    ReleaseRequestLock, CloseSession

with `FailTurn` (the pipeline's except clause), `Disconnect` (the stream's task is
cancelled), `CloseBeforeRelease` (the shielded release outlives it) and `Crash`
beside them. Redis may fail at any of its commands. One that sets or deletes the
lock may have been carried out although it failed, and its exception becomes the
reply (`ReplyOfFailedRelease`): a 500 for `POST /chat` whatever it has stored, while
a stream has put its result in the queue by then. `stranded` remembers the requests
whose lock is left to the TTL for such a reason. A deletion is `FindOwned, TargetRow, RemoveRow, CommitDelete,
DeleteSession`; it takes no request lock. `ExpireRequestLock` is Redis's.

Simplifications: one conversation id (ids do not interact); two of the four cache
keys; `HistoryLimit` stands for the limit of 10 messages; the TTL of the cache
keys and of `scope_unlocked` is not modelled, since nothing but the request lock
is waited for; the deletion of loaded message rows by SQLAlchemy before their
conversation is part of `CommitDelete`, with the cascade. Read-only endpoints
change nothing and are left out. What Postgres does is external to the
repository and modelled from how the code uses it.

### Transcript

The abstract specification: turns are appended one at a time, each once, all of
one client, each computed from the newest turns that precede it. A deletion is admitted while the
conversation is its client's, and removes later what is there then: the code checks
the owner in one statement and deletes by id in another (`conversations.py:213`), so
no stronger promise is kept. `ChatSession` implements it under the mapping at the end
of that module (`Abstract`): `owner` is `row.client`, `turns` is read off the
committed messages and `history`, `admitted` are the deletions between their check
and their commit.

### Orchestrator

`Orchestrator.run`'s loop. A reply of the model is one of the shapes that
`_trace_from_message` produces: empty, a final answer, calls with or without
narration. Texts are left out; a web search keeps its intent, because equivalent
searches are refused, and a call keeps whether it succeeded. The validator's
verdict is a choice. `shown` lists the turns whose text a streaming client has on
its screen. Left out: prompts, follow-up wording, token counts, and a text
without a final step (line 1038), which neither client produces.

### Pipeline

`run_pipeline` from the history to the reply. An attempt is kept as the length of
its trace, the steps its calls were made at, and its number of turns, which is
all that `_combine_orchestrator_runs` looks at; `own` is what a call or a turn
was, `step` and `index` what is recorded of it. `screen` is what the client of a
stream shows (`ui/app.py:590-602`). `assigned` says whether `orchestration` has a
value, because the failure handler reads it. Left out: latencies and token sums,
log lines, failures of the attempt loop that are not
`OrchestratorExecutionError`, and what becomes of the sources, pins and areas, which
`CheckAnswer` clears when it rejects (`pipeline.py:846-856`). The record of the
model's calls keeps a rejected answer's text (`pipeline.py:860-900`, 817, 1148).

### AnswerStream

The text of one model turn, symbol by symbol, since the property is about where
chunks are cut. `Feed`, `FeedTool`, `RetryRateLimited` and `Fail` are the
client's loop; `DropRef`, `Settle` and `Finish` are the filter's. The markers'
prefixes and the ten digits are shortened by constants; the alphabet of the run
keeps one symbol for each class the code distinguishes. The proofs hold for any
alphabet and any kinds of marker that contain no bracket and of which none is the
beginning of another.

### RoutingErrors and RoutingTool

`RoutingErrors` has the parsers of the four clients over statuses and classes of
body, `request_routing_json` around them (`ReplyError`), what an adapter may
still raise, and `_fallback_action` (`MayTryNext`). `RoutingTool` uses them: a
request may end with any member of `Outcomes`, and what is kept of an error is
what the coordinator does with it.

A call goes through stages: 0 resolves the text points, i is the attempt with
`Chain[i]`. `task[c][i][k]` is the k-th lookup or request of a stage. `raised`
is set when a stage's gather raises: the tasks beside it keep going, awaited by
nobody, and may end after the call. `AttemptFails` is the coordinator's except
clause, `Adapt` the provider's work on a complete payload, `Deadline` the timeout
around the handler, which cancels what is awaited and nothing else. `Geocodes` and
the walking lock are shared by all calls of the process; `LegPermits` belong to
one attempt. `cooling` is the second after a walking request has started.

Simplifications: the lookup of one text point is one step (its own chain is in
`PlacesSearch`); the size of a request is its number of legs or of matrix chunks;
toll options and scooters, which behave like options that are modelled, are left
out; the validators' limits on the number of points are met by every scenario.
The numbers that an adapter computes are not modelled.

### ChatClient

Tabs of `ui/app.py` and the streams they read. A tab loads a conversation, takes
a prompt, posts it, reads events until the end mark, tries again in a new
conversation after a 404, switches and deletes. A rerun of the Streamlit script,
which may come at any event, is external and modelled from what the script
relies on. The server's side is `chat_stream`: lock, access check, the pipeline as one commit or
failure, the result queued before the lock is released, the end mark after it,
and the cancelled task's clean-up. Connections break at any point; a deletion
that its tab has given up on may still be carried out. Redis may fail when
the lock is taken or released (`RedisFails`). Then the request is a 500 before the
stream begins; behind it `run` still queues its end mark (`main.py:516-519`), but the
generator's own clause meets the exception again and breaks the response off. The
lock stays to its TTL, and the next prompt may get a 409. Heartbeats, text deltas
and the map preview are left out: they change nothing that is kept. The request
lock does not expire under a request at work; `ChatSession` is about that.

### Gates

A conversation of `MaxTurns` turns. On a message the scope and the censorship
gate work side by side (`asyncio.gather`), on an answer the censorship gate
alone. `asking[g]` is the evaluator a gate is at, `asked[g]` what the earlier ones
said; classifier, LLM scoper, guardian and rules hand over to each other as the
settings build them, and each may answer, answer unreadably or fail. What a model
or a regular expression makes of a text is a choice, fixed per message where the
code would get the same answer twice. Probabilities and similarities are whole
numbers `0..Top`; calibration, the grey zone and the OOD threshold (a quantile
with the code's index arithmetic) are computed on them. `unlocked` is
`scope_unlocked` in Redis, which fails or expires at will. `NothingPassesByFailure`
speaks of the message that reaches the agent and of the answer of a completed turn. Two
ways out of the code lie beyond the output gate: the text is streamed before the gate
judges it (`pipeline.py:644-647` against 827; `ScreenAgreesWithResult` says that the
screen ends without it), and `AgentResponse.llm` keeps it (`pipeline.py:817`, 1148).

### References

The refs of one answer: a search mints them, the model writes them into its
text, the validator of the loop reads each from Redis, the pipeline verifies
them, makes the sources, and makes the pins. Between any two of these reads a
record may expire or be written again by another chat, so what a read finds is
chosen anew, except that a ref nobody has minted is never found. `exposed` in
`Validate` stands for reasoning that shows in the answer; `GiveUp` for the fixed
text when the attempts end without an answer. Names in `TooShort`, of less than three
characters, need no ref (`map_places.py:95`). How
refs are read off a text is a regular expression and not modelled.

### PlaceErrors and PlacesSearch

`PlaceErrors` is for the place services what `RoutingErrors` is for routing: the
classes of reply of TomTom, 2GIS and Yandex, what becomes of them in the clients,
the wrapped errors of geocoder and named-place resolvers, and `_may_try_next`.
`PlacesSearch` is one call: validation, the scope turned into refs of stored
places once, the providers able to serve the request in priority order, the
organisations of `mode=resolve` one after the other, the deadline. An attempt
makes up to `MaxCalls` requests of which any may fail; whether it then raises or
returns what it has is the provider's code.

### TwogisLookups

Calls in one process that share a 2GIS client: region, city and rubrics are
looked up under a lock per key and remembered for good. `queue[k]` has the
holder and the waiters of a lock; a call is cancelled anywhere, also while it
holds one. The service's answer to a key is fixed, a failure is not an answer.
`_select` functions (exact name, qualified name, the only item) work on short
lists of items with the attributes that the code compares.

### PlaceMatching, OpeningHours and PlaceResults

Pure code as operators: which card is what the query names, what published hours
say, and from a list of cards to the tool's result, for the three search
providers and both named-place resolvers. Each question is answered in one step,
as nothing in this code awaits. The properties compare the answer with definitions written
independently of the algorithm: a result that is missing was refused by a named
condition, a claim about hours holds minute by minute. `Linked` is "the same place"
closed under chains, since neither the merge nor the grouping compares every two
cards.

The loops of the code are functions over the number of cards seen so far: `Only` is
a filter, `Distinct` a filter with a set of what was seen, `DeduplicateMatches`,
`Groups` and `MergeSorted` repeat `Placed`, `Joining` and `Merged`; `InOrder` is
sorting. `WellFormed` says what a question is: points and scores are numbers, TomTom's
responses are ranked, hours are what the schemas of the providers admit. It is an
assumption on the constants, evaluated on every run.

Abstractions: a name is a sequence of words; inflected and misspelt words are
pairs given by constants, in place of stemming and similarity; one table of type
hints serves both resolvers; points lie on a line; the locality's adjective is
compared as a whole word, in place of `startswith`; the house number is derived
from the address; the semantic kind of a 2GIS card is an attribute. The library
that reads OSM opening hours is external: what it makes of a 2GIS night before a day
with a rule of its own is a choice (`kept`). TomTom's responses arrive ranked by
score. A week has `Days` days of `Minutes` minutes.

### PlaceRecords

The records of cities that all calls share: every geocoding saves each of its
candidates whole, a label is added to the copy read earlier and the copy saved,
searches offer their area for later turns, records expire. Which candidate is
taken is a choice. Left out: `near` with a textual city, and routing's loading of
refs, which is in `RoutingTool`. No run checks this module; its properties are
proved for any number of calls and places.

## Runs

| Run | Bounds | Shows |
|---|---|---|
| `session_safety` | 2 chats, 1 stream, 1 deletion, 2 clients, history of 2 messages, expiry | a turn's context is fresh (`FreshContext`), the transcript numbered and of one client (`WellNumbered`, `OneClientPerTranscript`), locks released by their owner (`ReleasesOnlyOwnLock`), and `Transcript` implemented (`ImplementsTranscript`) |
| `session_live` | 1 chat, 1 stream, 1 deletion, every fault | every request ends (`EveryRequestEnds`), replies are true but for a `POST /chat` whose release failed (`ReplyMatchesDatabase`), and a lock ends with its request unless that died or Redis failed at the lock (`LockDiesWithRequest`) |
| `chat_client` | 2 tabs of different browsers, 2 conversations, 2 prompts, 3 requests, 1 click, broken connection or failure of Redis | no 409 caused by the tab's own finished turn, unless Redis failed under it (`NoConflictWithOneself`), no prompt stored twice (`PromptIsStoredOnce`), the screen shows what is stored (`ScreenShowsTheConversation`), the input field comes back (`InputComesBack`) |
| `orchestrator_loop` | 3 turns, 2 calls a reply, 2 tools, 1 invented name, 2 intents, 1 regeneration | calls point at their own steps (`StepIndexPointsAtAction`), the stream shows the answer (`ShownIsAnswer`) |
| `pipeline_request` | attempts of 2 turns and 3 trace steps | the turns of both attempts have their own numbers (`TurnsAreNumbered`), calls point at their own steps of the common trace (`CallsPointAtTheirSteps`), the stream has shown nothing that the result takes back (`ScreenAgreesWithResult`) |
| `gates_chain` | 2 turns, 21 deployments, probabilities in quarters | what passes was judged and admitted, never by failing (`NothingPassesByFailure`); a skipped scope gate was passed in an earlier turn (`SkippedScopeWasEarned`) |
| `references_answer` | 2 places of one name, 1 name of two letters, 1 anchor, 1 page, 1 invented ref, 2 attempts, 2 searches, 1 regeneration | a valid answer shows what it owes or its record is gone (`ValidAnswersAreComplete`), invented refs are reported (`InventedIsReported`) |
| `stream_chunks` | a marker of either kind or the beginning of one, between 5 pieces before and 4 behind; 2 digits | `ShowsOnlyPublicText`, `ShownIsContent` |
| `routing_calls` | 3 providers, up to 3 legs or chunks, 2 leg permits, 1 geocoding permit, 2 text points; one call alone in 7 kinds of request, or two calls together in 2 | `FirstAbleAnswers`, `RefusalEndsCall`, `WarningsTellThePath`, `MetricsAddUp`, `WalkingIsPaced`, `AllCallsEnd` |
| `places_call` | 5 deployments, every valid input without `open_now`, up to 2 organisations, 2 requests an attempt | a provider is passed over only for a reason that allows it (`PassedOverForAReason`), "not found" is said only by those who looked (`NotFoundIsAnAnswer`) |
| `twogis_lookups` | 3 calls, 2 scopes, 2 regions, 4 services | a key is asked for only while unknown and by one call (`AskedOnlyWhileUnknown`), a call gets what it would get alone (`SharingIsInvisible`), every call ends (`EveryCallEnds`) |
| `place_results` | some 162,000 questions: responses of up to 3 cards against each kind of request, scores of either sign, weeks of 3 days of 3 minutes | `NothingVanishesSilently`, `ReliablePointsOnly`, `AnchorIsNeverGuessed`, `HoursAreExact` |

Why the bounds are enough. In `ChatSession` a violation needs a turn that outlives
its lock, one that overtakes it, and a third request that changes what they
share: three turns and a deletion give every such triple, and the second client is
needed for ownership. Two deletions, of which one frees the id for somebody else
before the other removes it, are beyond TLC; the proofs are about any number. What
`session_live` asks of replies and locks is of one request and its faults, with
somebody else to take the lock. A history of two messages is shorter than the transcript of
two turns, so the window slides. In `ChatClient` three requests are a prompt, its
retry after a 404 and another prompt; one click is what interrupts them. In
`Orchestrator` three turns are an ordinary one, one that follows a retry, and the
reserved last one; two calls a reply give repeated searches within a reply and
across replies. In `Pipeline` two is the code's own bound on attempts; the third
trace step lets a call's shifted index collide. In `Gates` one turn earns the
unlock and the next uses it; four steps of probability have a value on each side
of, and on, both ends of the grey zone. In `References` two searches are of one
attempt or of two, two places of one name make naming and citing differ, one short name is exempt. In
`AnswerStream` the pieces put text on both sides of a marker, and markers beside
each other or inside a broken one. In `RoutingTool` three legs with two permits
leave one waiting while two fail; one geocoding permit makes two calls wait for
each other and cuts two text points into two batches; three providers give a
first, a middle and a last one, and the requests are chosen so that each of them
is, for one of them, unable to serve. In `PlacesSearch` the statuses have one
member of each class a client tells apart. In `TwogisLookups` the third call
waits behind a waiter. In `PlaceResults` three cards give merges in a chain of
two, a cut behind a merge, and a tie; a day of three minutes has a first, a middle
and a last one, a week of three days a day between its ends.

Deadlock is checked in all runs but two. In `ChatClient` the user may stop
using the client, and in `PlaceResults` a question is answered once. In the others
whatever has come to its end stutters by `Finished` (`Done`), so any other state
without a step is an error.

Fairness. `ChatSession`: weak fairness of each request's own steps, since the
server's event loop and Postgres carry on what can be carried on. Nothing is
assumed of the TTL: a request that does not get the request lock ends with a 409. Locks are
granted in any order; weak fairness is enough because no request can be
overtaken for ever: each makes a bounded number of steps. `RoutingTool` and
`TwogisLookups`: weak fairness of the calls' own steps, of each lookup and each
request, since the event loop runs what can run and the HTTP client's timeout ends every
exchange. Nothing is assumed of the deadline. `ChatClient`: the server's steps
and the tab's sending and receiving go on; nothing is assumed of the user. No
fault, cancellation or disconnect is assumed to happen anywhere.

## Proofs

`ChatSessionProofs` proves, for any sets of requests and clients, any history
limit and any subset of the faults:

| Theorem | States | Assumes |
|---|---|---|
| `InductiveInvariant` | `Spec => []IInv` | - |
| `TypeCorrectness` | `[]TypeOK` | - |
| `ContextStaysFresh` | `[]FreshContext` | - |
| `TranscriptIsNumbered` | `[]WellNumbered` | - |
| `TranscriptHasOneClient` | `[]OneClientPerTranscript` | - |
| `OnlyOwnLockReleased` | `ReleasesOnlyOwnLock` | - |
| `LockDies` | `[]LockDiesWithRequest` | - |
| `ReplyIsTrue` | `[]ReplyMatchesDatabase` | - |
| `ConversationIsATranscript` | `ImplementsTranscript` | - |

The argument. None of the properties is inductive alone. `Locking` says who may
hold the row lock: whoever has uncommitted writes, and every turn between
`LockConversation` and its commit. Given that, nobody else can commit a change of
the messages while a turn works, which makes `FreshContext` inductive. `Numbering`
adds what a transaction about to commit carries (`CommitsNextExchange`): exactly
the exchange that follows the committed transcript, so that `1..n` extends to
`1..n+2`. `Ownership` adds that a transcript without a row is empty, that an
uncommitted insertion implies that there is no committed row, and that a turn at
work owns the row it sees; with it `OneClientPerTranscript` survives a deletion
and a new creation of the id. Redis does not occur in any of this: the request
lock is an optimisation, and the row lock alone makes turns serial. Each part has
one lemma per step that disturbs it and a frame lemma for the others. `LockDies`
and `ReplyIsTrue` have invariants of their own, since neither needs the row lock: where
a request holds the lock or has its reply, step by step. Both properties except the
requests in `stranded`, the only ones for which the code does not keep them.

The refinement. `ConversationIsATranscript` is for the mapping `Abstract` of
`ChatSession`: the turns are the exchanges among the committed messages, in the
order of their numbers, each with the turns whose messages it has read. `CommitTurn`
maps to `AppendTurn`, `FindOwned` of the owner to `Admit`, `CommitDelete` to `Remove`
or, where it has removed nothing, to `Withdraw`, to which a deletion that fails maps,
too; every other step stutters. `RefinementInv` adds to `IInv` what the mapping
needs: the committed messages are the questions and answers of distinct turns, one
pair after the other (`TurnsInOrder`); a turn that is still at work is not durable
(`NotYetDurable`). The lemmas before it say what the mapping makes of a
transcript of n exchanges: the i-th turn is the one whose question has number
2i - 1 (`OrderOfExchanges`), one exchange more appends one turn (`NextExchange`), and
the newest `HistoryLimit` messages are the newest `HistoryLimit \div 2` turns
(`OrderOfNewest`). There is no assumption about deletions: that a second
deletion of the same client may remove the row in between, that another client may
then create a conversation under the id, and that the first deletion removes that one,
is a behaviour of `Transcript` too, because the first was admitted.

The other modules of proofs, each for every value of the constants that satisfies
the named assumptions of the module it extends:

| Module | Theorems | Inductive invariant, and why it is needed |
|---|---|---|
| `GatesProofs` | `NothingPassesByFailureAlways`, `SkippedScopeWasEarnedAlways` | `Types`; `AllowedKnowingly`: whoever let something pass is not a broken gate, nor rules that do not match; `Phases`: what has been judged by when, since an answer is only reached past both input gates; `Unlocking`: the flag, a skip under way and a skip recorded all go back to an earlier turn in scope |
| `PipelineProofs` | `ScreenAgreesWithResultAlways`, `TurnsAreNumberedAlways`, `CallsPointAtTheirStepsAlways` | `Screen`: what each stage may have put on the screen, in particular that the notice is gone once the second attempt streams; `Attempts`: at most two, each with the turns it has made, one that is broken off last, and nothing recorded before the end; with it the numbers of the second attempt, which start where the first one ended, leave no gap and take no number twice (`Numbering`); `Traces`: each run's own trace with its calls, from which the steps of the common trace follow (`Placing`) |
| the same, on `References` | `ValidAnswersAreCompleteAlways`, `InventedIsReportedAlways` | `ValidIsChecked`: what the validator saw is still so, because nothing is searched or written after it; `ReportNamesInvented`; `PagesAreShown`, `SelectedAreShown`: what is owed is shown or was missing at the read |
| `OrchestratorProofs` | `StepIndexPointsAtActionAlways`, `ShownIsAnswerAlways` | `Types`; `Indices`: the reply at work stands in the trace from where its turn began, and every earlier call points below the next one; `ShownByTurn`: between turns the screen is empty, and a reply with neither an answer nor a call has no text |
| `PlacesSearchProofs` | `PassedOverForAReasonAlways`, `NotFoundIsAnAnswerAlways` | `Asked`: the request was validated; `Order`: each provider before the current one has its one entry among the tries; `Batch`: each organisation before the current one has its one fitting outcome. They rest on lemmas on the errors: every client error names its source, and what 2GIS blames on its backend may be retried |
| the same, on `PlaceRecords` | `LabelsStandOnCitiesAlways`, `OnlyOthersDisturbAlways` | `Types`; `CopiesAreCities`: the copy that a label is added to is of a city; `Undisturbed`: what a call that nobody disturbs may count on, step by step |
| the same, on `PlaceResults` | `NothingVanishesSilentlyAlways`, `ReliablePointsOnlyAlways`, `AnchorIsNeverGuessedAlways`, `HoursAreExactAlways` | `ResultsInv`: the question is well-formed, which never changes, and what is answered is right. Each answer is one step; that it is right follows from what the operators do, see below |
| `TwogisLookupsProofs` | `AskedOnlyWhileUnknownAlways`, `SharingIsInvisibleAlways` | `Remembers`: what is remembered is the service's answer; `Ways`: a call has come to its lookup by the lookups, and with the region, it would have come by alone; `Queueing`: who waits or asks stands once in the queue of its key and in no other, so that a lock let go of anywhere leaves the others their places; `Asking`: who asks is the holder, and the answer is not known |
| `ChatClientProofs` | `NoConflictWithOneselfAlways`, `PromptIsStoredOnceAlways`, `ScreenShowsTheConversationAlways` | `Types`; `RequestOK`: a request holds its lock from `Acquire` to `Release`, a stream that ends or refuses has let go of it unless Redis failed, and until then the tab that sent the request reads it or has cut it off; `TabOK`: the prompt in flight is that of the request the tab reads, and what it has read as a result is stored; `Apart`: a prompt is in one place, about to be sent, in a request that may still store it or was refused, stored, or deleted |
| the same, on `AnswerStream` | `StreamInvAlways`, `ShowsOnlyPublicTextAlways`, `ShownIsContentAlways` | `StreamInv`: the text splits where the filter stands; what has been shown is the public text of the part before, without the one space that may go with a marker, what is pending is the rest of what was sent, and no marker lies across the split. The lemmas say which markers of a text a piece of it has (`RefsOfPiece`), and that the filter's two steps keep such a split: dropping the first marker of what is pending (`Dropped`), and showing what no marker can begin in (`Settled`) |
| `RoutingToolProofs` | `FirstAbleAnswersAlways`, `RefusalEndsCallAlways`, `WarningsTellThePathAlways`, `MetricsAddUpAlways`, `WalkingIsPacedAlways` | `Types`; for each call `CallInv`: which requests it has under way or behind it (`Asked`), that each provider before the current one was passed over for a reason (`PathTaken`), that a refusal it has heard is the last thing it hears (`RefusalHeard`), that its warnings are those of the providers passed over (`StoryTold`), and that what its result counts is what it has seen end (`Metrics`); `OneWalker`: of all calls at most one holds the walking lock, waiting for its turn or with its request under way |

What the provers cannot do by themselves is induction over data: the induction
theorems of the library take an operator as a parameter. Where the filter of the
stream and the loops over cards and intervals need one, it is done by hand. A set of
numbers has a least one (`LeastNat`), so what holds of 0 and passes from n - 1 to n holds
up to any N (`EachUpTo`). A recursive function stands for a CHOOSE; `Iterated` shows that
there is such a function, and from it `OnlySteps`, `DistinctSteps`, `MergingSteps`,
`GroupingSteps` and `IntervalsSteps` give the sequence of intermediate results of each
loop. About that sequence there is one lemma for a step (`DeduplicateStep`, `GroupStep`,
`MergeStep`), whose invariant says what has become of the first n cards:

- `DeduplicatedUpTo`: each has one that stands for it, at least as rich and linked to it, and
  a card that is the same as no other stands for itself.
- `GroupedUpTo`: each is in a group, a group is a chain, and the first card of a group is
  not at the spot of the first card of an earlier one. `RankedAfter`: no card of the later
  groups has a better score than the second group's first, which makes the comparison
  of two scores enough for all.
- `MergedUpTo`: the intervals cover what the first n cover, and there are gaps between them.

Model-checked only: the liveness properties under fairness (`EveryRequestEnds`,
`AllCallsEnd`, `EveryCallEnds`, `InputComesBack`), which are out of
the prover's reach. Every invariant and every action property of the runs is proved.

## Not modelled

- The OSM provider of places: no deployment builds it. Web search has one provider
  and no fallback; of it only what it stores is modelled, in `References`.
- Which of a geocoder's candidates is taken; it is a choice in `PlaceRecords`.
- What the routing adapters compute from a payload: ranking, grouping by street,
  matrix re-indexing, rounding.
- User context, configuration, prompts, scripts, evaluation, the map preview and
  the layout: presentation, constants, or offline.
- Model inference and scores, request and response formats, migrations.

## Seen while modelling

The models have the following behaviours, and the properties are stated so as not
to claim otherwise.

Against what the repository says of itself:

- A failing Redis turns a committed answer into an HTTP 500: the release of the
  lock at `main.py:428` raises, although `pipeline.py:1108` says that a cache
  loss must not do so. `ReplyMatchesDatabase` excepts a `POST /chat` whose release
  failed, and nothing else.
- `conversations.py:213` checks the owner and deletes by id in two statements; the
  row may have become somebody else's in between.
- An answer rejected in the last turn has no turn left to be written again in
  (`orchestrator.py:1008`).
- The failure handler reads `orchestration`, which may be unassigned, and its
  record is lost (`pipeline.py:1207`).
- Calls of a timed-out attempt are recorded at another attempt's steps
  (`pipeline.py:252`); `CallsPointAtTheirSteps` is about attempts that have a trace.
- An unfinished marker behind a space is shown (`final_answer_stream.py:61`).
- `near` with an `area_ref` whose record has expired is refused as invalid input
  (`places_search/resolution.py:138`); `tools/refs.py:46` asks for `UNKNOWN_REF`.
- Geocoding an address writes a `CountrySecondarySubdivision` again without its
  kind (`geocoding/tomtom/service.py:140`); an area that was offered for reuse
  (`map_places.py:22`) is none any more.
- `docs/architecture.md:196-197` has nearby results sorted by distance; the TomTom
  provider puts a richer card in the place of its duplicate and keeps the
  duplicate's position (`places_search/tomtom/provider.py:574-604`). The same document
  (lines 176 and 192) lists an OpenStreetMap provider that is not built.
- A pin of a textual anchor is shown alone when the selected record has expired,
  against the docstring at `map_places.py:128`.
- With `asyncio.gather` without `return_exceptions` in the routing clients, the legs
  beside a failed one run on beside the next provider's attempt and survive the
  deadline, whereas `tools/base.py:562-563` says that the deadline "prevents
  their combined work from running on". When one leg meets a rate limit and another
  a refusal, the one that comes first decides, in spite of
  `routing/coordinator.py:143-144`.

Not contradicted by any document, but worth knowing:

- A stream whose release fails is broken off behind its result, with the lock still
  held (`main.py:516-519`, 540-544): the turn is stored, and the tab's next prompt
  is refused until the TTL.
- A blocked answer has been on the screen while it was streamed (`pipeline.py:644-647`
  against 827); the refusal takes its place at the end.
- A prompt that the user sends again after a lost connection is a new prompt: the
  first may be stored as well.
- A deferred verdict loses the scoper's call from the log (`gates.py:631`).
- A request that the deadline cancels is recorded in its attempt's context, which
  is not merged then (`observability.py:160`).
- `scope_unlocked` survives the deletion of its conversation (`redis/client.py:30`).
- A label may be overwritten by another chat's geocoding of the same city.
- Of two cited places of one name, citing only one is rejected as incomplete.
- A cited result that is also another search's anchor gets the role of an anchor
  and is left out of the follow-up's context (`conversations.py:85`).
- "Same place" by aliases is not transitive, so which cards merge depends on their
  order. 2GIS merges before it filters, TomTom after. TomTom may replace a
  reliable card by a richer one whose coordinates are in conflict, and then leaves
  that one out with a warning.
- Yandex hours can be open around the clock for one question and contradictory for
  the other; a day split at noon, by 2GIS or in two Yandex intervals, is told not
  to be open around the clock though every minute is published.
- 2GIS's nights are one rule per day (`twogis/opening_hours.py:54-67`, "Fr
  22:00-03:00; Sa 10:00-18:00"), and the rule of the next day may replace their second
  half in the library; Yandex's code splits them at midnight, and only Yandex has a
  test of it. `HoursAreExact` lets 2GIS be told closed in such a night, and never open
  wrongly.
- A 403 for a used-up quota, which `places_search/tomtom/client.py:272-274` wants to hand
  to the next provider, ends the search in the coordinator of places;
  `PassedOverForAReason` says who may be passed over, not who must be.

## Plan

1. The pure parts of the routing adapters (ranking, re-indexing of matrices, rounding)
   against reference definitions, and the choice among a geocoder's candidates.
2. `PlaceRecords` in a run of its own, with the hazards that only its proofs cover today.
3. The OSM provider, should a deployment build it.
