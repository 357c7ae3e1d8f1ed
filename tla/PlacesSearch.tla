---------------------------- MODULE PlacesSearch ----------------------------
(***************************************************************************)
(* One call of the places_search tool: the textual scope is turned into    *)
(* refs of stored places, once, by the geocoder and the chain of           *)
(* named-place resolvers; then the search providers are asked in priority  *)
(* order until one finds something.  mode=resolve does so for each         *)
(* organisation.  The tool's deadline may cut the call at any point, and   *)
(* other calls geocode the same city meanwhile.                            *)
(***************************************************************************)
EXTENDS PlaceErrors, Sequences, FiniteSets, SequencesExt

CONSTANTS
  Deployments,    \* the settings: [providers, named], see DeploymentsAreSettings
  Requests,       \* validated inputs of the tool, a subset of Request
  MaxNames,       \* bound on the organisations of one call
  MaxCalls        \* bound on the requests of one attempt of a provider

PLACES_SEARCH_PROVIDER_PRIORITY == <<"twogis", "tomtom", "yandex">>
SupportsMinRating == {"twogis"}
SupportsOpenNow == {"twogis", "tomtom", "yandex"}
RequiresCityBounds == {"tomtom"}

ASSUME DeploymentsAreSettings ==
  \A d \in Deployments : /\ d.providers # {}
                         /\ d.providers \subseteq Range(PLACES_SEARCH_PROVIDER_PRIORITY)
                         /\ d.named \in Seq({"twogis", "tomtom"}) /\ IsInjective(d.named)

\* area and near: absent, text, or the ref of a stored place; near may be the city itself.
Request == [mode : {"area", "near", "resolve"}, area : {"none", "text", "ref"},
            near : {"none", "text", "city", "ref"}, names : 0..MaxNames,
            rating : BOOLEAN, openNow : BOOLEAN]
\* PlacesSearchInput._check_mode.
Valid(r) ==
  CASE r.mode = "resolve" -> r.area # "none" /\ r.names > 0 /\ r.near = "none"
    [] r.mode = "area"    -> r.area # "none" /\ r.names = 0 /\ r.near = "none"
    [] r.mode = "near"    -> r.names = 0 /\ r.near # "none" /\ (r.near = "ref" <=> r.area = "none")
ASSUME RequestsAreValid == Requests \subseteq {r \in Request : Valid(r)}

VARIABLES
  deployment, request,
  stage,      \* what the call is doing, see Stage
  item,       \* the organisation being resolved, 0 when there is none
  areaRef,    \* the shared area ref of a batch exists
  at,         \* index of the provider in Able
  scoped,     \* the scope of this search is resolved
  nth,        \* index in the chain of named-place resolvers
  bounds,     \* the city's bounds for that chain: "unknown" | "known" | "none"
  pending,    \* calls recorded in the context of the running attempt only
  tries,      \* this search: [provider, verdict] of each attempt
  notes,      \* warnings of the call: [about, what]
  outcomes,   \* of the organisations so far
  result      \* how the call ended

vars == <<deployment, request, stage, item, areaRef, at, scoped, nth, bounds,
          pending, tries, notes, outcomes, result>>

NoResult == [kind |-> "none"]
Stage == {"start", "seed", "begin", "locality", "named", "geocode", "area", "localize",
          "attempt", "request", "done"}
Verdicts == {"places", "empty", "no_match", "garbled", "transient", "refused", "shared"}

AbleFor(d, r) ==
  SelectSeq(PLACES_SEARCH_PROVIDER_PRIORITY,
            LAMBDA p : /\ p \in d.providers
                       /\ r.rating => p \in SupportsMinRating
                       /\ r.openNow => p \in SupportsOpenNow)
Able == AbleFor(deployment, request)
Provider == Able[at]
IsLast == at = Len(Able)
\* What is searched in: mode=resolve searches an area, the shared one when there is one.
AreaGiven == IF item > 0 /\ areaRef THEN "ref" ELSE request.area
NearGiven == request.near

Init ==
  /\ deployment \in Deployments /\ request \in Requests
  /\ stage = "start" /\ item = 0 /\ areaRef = FALSE /\ at = 1
  /\ scoped = FALSE /\ nth = 1 /\ bounds = "unknown"
  /\ pending = 0 /\ tries = <<>> /\ notes = {} /\ outcomes = <<>>
  /\ result = NoResult

Note(about, what) == [about |-> about, what |-> what]
\* ToolExecutionContext.add_warning: each warning once.
WithNote(ns, n) == ns \cup {n}

------------------------------------------------------------------------------
(* Ends of the call and of one search.                                      *)

Finish(r) == stage' = "done" /\ result' = r
Fails(e) == Finish([kind |-> "error", source |-> e.source, code |-> e.code])

NewSearch ==
  /\ at' = 1 /\ scoped' = FALSE /\ tries' = <<>>
  /\ nth' = 1 /\ bounds' = "unknown"
SameSearch == UNCHANGED <<at, scoped, tries, nth, bounds>>

\* The outcome of one organisation: the batch goes on to the next, or is complete.
Outcome(status, verdict) ==
  /\ outcomes' = Append(outcomes, [status |-> status, verdict |-> verdict])
  /\ IF item < request.names
     THEN item' = item + 1 /\ stage' = "begin" /\ NewSearch /\ UNCHANGED result
     ELSE Finish([kind |-> "resolved"]) /\ UNCHANGED item /\ SameSearch

SearchFound(verdict) ==
  IF request.mode = "resolve" THEN Outcome(IF verdict = "places" THEN "resolved" ELSE "not_found", verdict)
  ELSE Finish([kind |-> verdict, verdict |-> verdict]) /\ SameSearch /\ UNCHANGED <<item, outcomes>>

\* What an attempt's failure says of the provider, by what went over the wire.
Verdict(e) ==
  CASE e.source # Provider -> "shared"
    [] e.source = Provider /\ (e.code = "NOT_FOUND" \/ e.kind = "COVERAGE_MISS") -> "no_match"
    [] e.source = Provider /\ e.kind \in {"INVALID_JSON", "INVALID_SCHEMA"} -> "garbled"
    [] e.source = Provider /\ e.retryable -> "transient"
    [] OTHER -> "refused"
Tried(verdict) == [provider |-> Provider, verdict |-> verdict]

\* A failure of the shared scope ends the whole batch, one of a provider its own item.
\* Variation, to test the properties: every failure of an item ends the batch.
SharedFailure_Any(e) == TRUE
SharedFailure(e) == e.source \in {"nobody", "geocoder"}
SearchRaises(e) ==
  IF request.mode = "resolve" /\ item > 0 /\ ~SharedFailure(e) THEN Outcome("error", Verdict(e))
  ELSE Fails(e) /\ SameSearch /\ UNCHANGED <<item, outcomes>>

FallbackReason(e) ==
  CASE e.kind = "COVERAGE_MISS" -> "does_not_cover"
    [] e.kind # "COVERAGE_MISS" /\ e.code = "NOT_FOUND" -> "no_matches"
    [] e.kind # "COVERAGE_MISS" /\ e.code = "TIMEOUT" -> "timed_out"
    [] OTHER -> "failed"

\* The except clause of _search_with_fallback; it also catches what the scope resolver raises.
AttemptFails(e) ==
  /\ IF IsLast \/ FallbackAction(e, Provider) = "stop"
     THEN SearchRaises(e) /\ UNCHANGED notes
     ELSE /\ at' = at + 1 /\ stage' = "begin" /\ nth' = 1 /\ bounds' = "unknown"
          /\ tries' = Append(tries, Tried(Verdict(e)))
          /\ notes' = WithNote(notes, Note(Provider, FallbackReason(e)))
          /\ UNCHANGED <<scoped, item, outcomes, result>>
  /\ pending' = 0

AttemptReturns(verdict, ownNotes) ==
  /\ pending' = 0
  /\ LET own == IF ownNotes THEN WithNote(notes, Note(Provider, "own")) ELSE notes
     IN IF verdict = "places" \/ IsLast
        THEN SearchFound(verdict) /\ notes' = own
        ELSE /\ at' = at + 1 /\ stage' = "begin"
             /\ tries' = Append(tries, Tried(verdict))
             /\ notes' = WithNote(own, Note(Provider, "no_matches"))
             /\ UNCHANGED <<scoped, nth, bounds, item, outcomes, result>>

------------------------------------------------------------------------------
(* The call begins.                                                         *)

\* search, _resolve_organisations: no provider for the filters, the scope of a batch, or a search.
Start ==
  /\ stage = "start"
  /\ IF Able = <<>> THEN Fails(OwnError("UNSUPPORTED_FILTER")) /\ UNCHANGED <<item, areaRef>>
     ELSE /\ item' = IF request.mode = "resolve" /\ request.area = "ref" THEN 1 ELSE 0
          /\ areaRef' = (request.area = "ref")
          /\ stage' = IF request.mode = "resolve" /\ request.area = "text" THEN "seed" ELSE "begin"
          /\ UNCHANGED result
  /\ UNCHANGED <<deployment, request, at, scoped, nth, bounds, pending,
                 tries, notes, outcomes>>

\* A failure of the scope: raised at once while the batch's scope is prepared, otherwise caught
\* with the attempt that needed it.
ScopeFails(e) ==
  IF stage = "seed" THEN Fails(e) /\ SameSearch /\ UNCHANGED <<item, notes, outcomes, pending>>
  ELSE AttemptFails(e)

ScopeResolved == scoped' = TRUE /\ stage' = "attempt"

\* The scope is resolved once per search: a second provider takes what the first one used.
\* resolve_scope: its first step depends on what the input gives.
BeginAttempt ==
  /\ stage = "begin"
  /\ IF scoped \/ NearGiven = "ref" THEN ScopeResolved
     ELSE /\ UNCHANGED scoped
          /\ stage' = CASE NearGiven = "none" /\ AreaGiven = "ref"  -> "localize"
                        [] NearGiven = "none" /\ AreaGiven = "text" -> "area"
                        [] NearGiven = "city" -> "locality"
                        [] NearGiven = "text" -> "named"
  /\ UNCHANGED <<deployment, request, item, areaRef, at, nth, bounds, pending,
                 tries, notes, outcomes, result>>

\* A stored ref that a textual anchor is scoped by may be gone, or not be a bounded locality.
AreaRefIsNoLocality ==
  /\ stage \in {"locality", "named"} /\ AreaGiven = "ref" /\ nth = 1 /\ bounds = "unknown"
  /\ ScopeFails(OwnError("INVALID_INPUT"))
  /\ UNCHANGED <<deployment, request, areaRef>>

------------------------------------------------------------------------------
(* The geocoder.                                                            *)

\* geocode_bounded_locality for the area itself; the scope of a batch is localized at once, and
\* goes on to the first organisation.
AreaFound ==
  /\ IF stage = "seed"
     THEN /\ areaRef' = TRUE /\ item' = 1 /\ stage' = "begin" /\ UNCHANGED scoped
     ELSE /\ UNCHANGED <<areaRef, item>>
          /\ \/ stage' = "localize" /\ UNCHANGED scoped   \* a name in another script
             \/ ScopeResolved
  /\ UNCHANGED <<at, nth, bounds, pending, tries, notes, outcomes, result>>

GeocoderFailures == GeocoderErrors \cup {ContractError("geocoder"), OwnError("NOT_FOUND")}

\* An area that accompanies an anchor may stay unresolved, whatever the reason.
GeocodeArea ==
  /\ stage \in {"area", "seed"}
  /\ \/ AreaFound
     \/ \E e \in GeocoderFailures :
          /\ IF NearGiven = "none" THEN ScopeFails(e)
             ELSE ScopeResolved /\ UNCHANGED <<item, at, nth, bounds, pending,
                                               tries, notes, outcomes, result>>
          /\ UNCHANGED areaRef
  /\ UNCHANGED <<deployment, request>>

\* localize_bounded_locality: the Russian label is there, is fetched by reverse geocoding and
\* stored, or is not to be had, which costs a warning at most.
LocalizeArea ==
  /\ stage = "localize"
  /\ ScopeResolved
  /\ notes' \in {notes, WithNote(notes, Note("geocoder", "not_localized"))}
  /\ UNCHANGED <<deployment, request, item, areaRef, at, nth, bounds, pending, tries,
                 outcomes, result>>

\* The anchor is the city itself; without an area of its own it is the area too.
GeocodeLocality ==
  /\ stage = "locality"
  /\ \/ ScopeResolved
        /\ UNCHANGED <<item, at, nth, bounds, pending, tries, notes, outcomes, result>>
     \/ \E e \in GeocoderFailures : ScopeFails(e)
  /\ UNCHANGED <<deployment, request, areaRef>>

AnchorFound ==
  IF AreaGiven = "text" THEN stage' = "area" /\ UNCHANGED scoped ELSE ScopeResolved

\* TextPlaceResolver.resolve, after the named-place chain has found nothing: the geocoder;
\* several matches are a question to the user, none is an anchor that does not exist.
GeocodeAnchor ==
  /\ stage = "geocode"
  /\ \/ AnchorFound
        /\ UNCHANGED <<item, at, nth, bounds, pending, tries, notes, outcomes, result>>
     \/ \E e \in GeocoderFailures \cup {OwnError("INVALID_INPUT")} : ScopeFails(e)
  /\ UNCHANGED <<deployment, request, areaRef>>

------------------------------------------------------------------------------
(* The named-place chain.                                                   *)

Named == deployment.named[nth]
InChain == stage = "named" /\ nth <= Len(deployment.named)

ChainExhausted ==
  /\ stage = "named" /\ nth > Len(deployment.named)
  /\ stage' = "geocode"
  /\ UNCHANGED <<deployment, request, item, areaRef, at, scoped, nth, bounds,
                 pending, tries, notes, outcomes, result>>

\* TomTom needs the bounds of the city, asked for when its turn comes; no city is no bounds.
ResolveCityBounds ==
  /\ InChain /\ Named \in RequiresCityBounds /\ bounds = "unknown"
  /\ \/ bounds' \in {"known", "none"}
        /\ UNCHANGED <<stage, item, at, scoped, nth, pending, tries, notes,
                       outcomes, result>>
     \/ \E e \in GeocoderErrors \cup {ContractError("geocoder")} : ScopeFails(e)
  /\ UNCHANGED <<deployment, request, areaRef>>

NamedErrors(p) ==
  ClientErrors(p) \cup (IF p = "twogis" THEN TwoGisCoverageErrors \cup {TwoGisAmbiguousCity} ELSE {})

AskNamed ==
  /\ InChain /\ (Named \in RequiresCityBounds => bounds # "unknown")
  /\ \/ AnchorFound   \* one place
        /\ UNCHANGED <<item, at, nth, bounds, pending, tries, notes, outcomes, result>>
     \/ nth' = nth + 1   \* nothing: the next one
        /\ UNCHANGED <<stage, item, at, scoped, bounds, pending, tries, notes, outcomes, result>>
     \/ ScopeFails(OwnError("INVALID_INPUT"))   \* several places: a question
     \/ \E e \in NamedErrors(Named) :
          IF CanTryNextNamed(e, Named)
          THEN /\ nth' = nth + 1 /\ notes' = WithNote(notes, Note(Named, "named_lookup_failed"))
               /\ UNCHANGED <<stage, item, at, scoped, bounds, pending, tries,
                              outcomes, result>>
          ELSE ScopeFails(e)
  /\ UNCHANGED <<deployment, request, areaRef>>

------------------------------------------------------------------------------
(* The provider.                                                            *)

\* The provider loads the scope's records, which may be gone or of another kind, before its
\* first request, and makes one or more.
LoadScopeFails ==
  /\ stage = "attempt" /\ pending = 0
  /\ \E c \in {"UNKNOWN_REF", "INVALID_INPUT"} : AttemptFails(OwnError(c))
  /\ UNCHANGED <<deployment, request, areaRef>>

SendRequest ==
  /\ stage = "attempt" /\ pending < MaxCalls
  /\ stage' = "request" /\ pending' = pending + 1
  /\ UNCHANGED <<deployment, request, item, areaRef, at, scoped, nth, bounds,
                 tries, notes, outcomes, result>>

ProviderErrors(p) ==
  ClientErrors(p) \cup {ContractError(p)}
    \cup (IF p # "twogis" THEN {}
          ELSE {TwoGisAmbiguousCity} \cup
               IF request.rating
               THEN {RatingCoverageError(e.status) : e \in {x \in TwoGisCoverageErrors : x.kind = "COVERAGE_MISS"}}
                      \cup {RatingCoverageError(0)}
               ELSE TwoGisCoverageErrors)

RequestEnds ==
  /\ stage = "request"
  /\ \/ stage' = "attempt" /\ pending < MaxCalls
        /\ UNCHANGED <<item, at, scoped, nth, bounds, pending, tries, notes,
                       outcomes, result>>
     \/ \E v \in {"places", "empty"}, own \in BOOLEAN : AttemptReturns(v, own)
     \/ \E e \in ProviderErrors(Provider) : AttemptFails(e)
  /\ UNCHANGED <<deployment, request, areaRef>>

------------------------------------------------------------------------------
(* The world around the call.                                               *)

\* asyncio.timeout in Tool.run cancels the call: a request in flight records itself in the
\* context it was given, and no handler of the coordinator runs.
Deadline ==
  /\ stage # "done"
  /\ Finish([kind |-> "timeout"])
  /\ UNCHANGED <<deployment, request, item, areaRef, at, scoped, nth, bounds,
                 pending, tries, notes, outcomes>>

Done == stage = "done" /\ UNCHANGED vars

ScopeStep == \/ AreaRefIsNoLocality \/ GeocodeArea \/ LocalizeArea \/ GeocodeLocality \/ GeocodeAnchor
             \/ ChainExhausted \/ ResolveCityBounds \/ AskNamed
Next == \/ Start \/ BeginAttempt \/ ScopeStep \/ LoadScopeFails \/ SendRequest \/ RequestEnds \/ Deadline \/ Done

Spec == Init /\ [][Next]_vars

------------------------------------------------------------------------------
(* PROPERTIES                                                               *)

\* "Search providers in priority order without mixing their result sets": the providers that
\* were passed over are the first ones of the order, none was passed over with places in hand,
\* and none after a refusal, a broken contract or a failure that was not its own.
PassedOverForAReason ==
  \A i \in DOMAIN tries :
    /\ tries[i].provider = Able[i] /\ i < at
    /\ tries[i].verdict \in {"empty", "no_match", "garbled", "transient"}

\* "Nothing found" is what the last provider answered, never what is left after a failure;
\* one organisation's provider failure leaves the others their outcomes, and a batch fails as a
\* whole only with its shared scope.
NotFoundIsAnAnswer ==
  LET found(o) == CASE o.verdict = "places" -> "resolved" [] o.verdict = "empty" -> "not_found"
                    [] OTHER -> "error"
  IN /\ \A i \in DOMAIN outcomes : outcomes[i].status = found(outcomes[i]) /\ outcomes[i].verdict # "shared"
     /\ result.kind = "resolved" => Len(outcomes) = request.names
     /\ result.kind = "error" /\ item > 0 => result.source \in {"nobody", "geocoder"}

=============================================================================
