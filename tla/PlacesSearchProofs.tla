-------------------------- MODULE PlacesSearchProofs --------------------------
(*************************************************************************************)
(* For any deployment and any valid request of a place search: the providers passed  *)
(* over come first in the order and each gave a reason to go on, and an organisation *)
(* is reported as not found only on a provider's answer.                             *)
(*                                                                                   *)
(* The invariant IInv has three parts: the request was validated (Asked), each       *)
(* provider before the current one has its one entry among the tries (Order), and    *)
(* each organisation before the current one has its one fitting outcome (Batch).     *)
(* The lemmas on errors come first: every client error names its source, and what    *)
(* 2GIS blames on its backend may be retried.                                        *)
(*                                                                                   *)
(* PlaceRecords, the records behind the references of cities: for any number of tool *)
(* calls and places, labels stand in the records of cities only, and a call whose    *)
(* records nobody else touches finds them as it has left them.                       *)
(*                                                                                   *)
(* PlaceResults, what a response comes to: for any cards, requests and published     *)
(* hours the question stays well-formed and what is answered is right (ResultsInv).  *)
(* Every answer is one step, so the work is in what the operators do.  Filters,      *)
(* deduplication, grouping and merging go over the cards one by one: each has its    *)
(* sequence of intermediate results (OnlyRun and its like), a lemma about one step   *)
(* (PlacedFacts, JoiningFacts, MergedFacts), and what holds after n steps (...UpTo). *)
(*************************************************************************************)
EXTENDS PlacesSearch, PlaceResults, FiniteSetTheorems, FunctionTheorems, SequenceTheorems, TLAPS

\* An error that a client made, or its provider.
Sound(e) == e.backend = FALSE \/ (e.backend = TRUE /\ e.retryable = TRUE)

LEMMA ErrIsSound ==
    ASSUME NEW source, NEW code, NEW kind, NEW status, NEW retryable
    PROVE  /\ Sound(Err(source, code, kind, status, retryable))
           /\ Err(source, code, kind, status, retryable).source = source
           /\ Err(source, code, kind, status, retryable).code = code
           /\ Err(source, code, kind, status, retryable).kind = kind
BY DEF Err, Sound

LEMMA CommonErrors ==
    ASSUME NEW source, NEW e \in NoResponse(source) \cup UnreadableBodies(source)
    PROVE  Sound(e) /\ e.source = source
BY DEF NoResponse, UnreadableBodies, Unreadable, Err, Sound

LEMMA PlainErrors ==
    ASSUME NEW source, NEW status
    PROVE  /\ Sound(PlainStatusError(source, status))
           /\ PlainStatusError(source, status).source = source
BY SMTT(60) DEF PlainStatusError, Err, Sound

LEMMA TomTomSound ==
    ASSUME NEW e \in TomTomErrors
    PROVE  Sound(e) /\ e.source = "tomtom"
<1>1. ASSUME NEW s, NEW q \in BOOLEAN, TomTomStatusError(s, q) # NoError
      PROVE  Sound(TomTomStatusError(s, q)) /\ TomTomStatusError(s, q).source = "tomtom"
  <2>1. \/ TomTomStatusError(s, q) = PlainStatusError("tomtom", s)
        \/ \E code, kind, retryable : TomTomStatusError(s, q) = Err("tomtom", code, kind, s, retryable)
    BY <1>1 DEF TomTomStatusError
  <2> QED
    BY <2>1, ErrIsSound, PlainErrors
<1>2. CASE e \in NoResponse("tomtom") \cup UnreadableBodies("tomtom")
  BY <1>2, CommonErrors
<1>3. CASE e \in {TomTomStatusError(s, q) : s \in HttpStatuses, q \in BOOLEAN} \ {NoError}
  BY <1>1, <1>3
<1> QED
  BY <1>2, <1>3 DEF TomTomErrors

LEMMA GeocoderSound ==
    ASSUME NEW e \in GeocoderErrors
    PROVE  Sound(e) /\ e.source = "geocoder"
<1>1. ASSUME NEW s, GeocoderStatusError(s) # NoError
      PROVE  Sound(GeocoderStatusError(s)) /\ GeocoderStatusError(s).source = "geocoder"
  <2>1. \/ GeocoderStatusError(s) = PlainStatusError("geocoder", s)
        \/ \E code, kind, retryable : GeocoderStatusError(s) = Err("geocoder", code, kind, s, retryable)
    BY <1>1 DEF GeocoderStatusError
  <2> QED
    BY <2>1, ErrIsSound, PlainErrors
<1>2. CASE e \in NoResponse("geocoder") \cup UnreadableBodies("geocoder")
  BY <1>2, CommonErrors
<1>3. CASE e \in {GeocoderStatusError(s) : s \in HttpStatuses} \ {NoError}
  BY <1>1, <1>3
<1> QED
  BY <1>2, <1>3 DEF GeocoderErrors

LEMMA YandexSound ==
    ASSUME NEW e \in YandexErrors
    PROVE  Sound(e) /\ e.source = "yandex"
<1>1. ASSUME NEW s, YandexStatusError(s) # NoError
      PROVE  Sound(YandexStatusError(s)) /\ YandexStatusError(s).source = "yandex"
  BY <1>1, ErrIsSound, PlainErrors DEF YandexStatusError
<1>2. CASE e \in NoResponse("yandex") \cup UnreadableBodies("yandex")
  BY <1>2, CommonErrors
<1>3. CASE e \in {YandexStatusError(s) : s \in HttpStatuses} \ {NoError}
  BY <1>1, <1>3
<1> QED
  BY <1>2, <1>3 DEF YandexErrors

LEMMA TwoGisSound ==
    ASSUME NEW e \in TwoGisErrors
    PROVE  /\ Sound(e) /\ e.source = "twogis"
           /\ DOMAIN e = {"source", "code", "kind", "status", "backend", "retryable"}
<1>1. ASSUME NEW h, NEW m, NEW b \in BOOLEAN, TwoGisStatusError(h, m, b) # NoError
      PROVE  /\ Sound(TwoGisStatusError(h, m, b)) /\ TwoGisStatusError(h, m, b).source = "twogis"
             /\ DOMAIN TwoGisStatusError(h, m, b) = {"source", "code", "kind", "status", "backend", "retryable"}
  BY <1>1 DEF TwoGisStatusError, Err, Sound
<1>2. CASE e \in NoResponse("twogis") \cup UnreadableBodies("twogis")
  <2>1. DOMAIN e = {"source", "code", "kind", "status", "backend", "retryable"}
    BY <1>2 DEF NoResponse, UnreadableBodies, Unreadable, Err
  <2> QED
    BY <1>2, <2>1, CommonErrors
<1>3. CASE e \in {TwoGisStatusError(h, m, b) : h \in HttpStatuses, m \in HttpStatuses \cup {0}, b \in BOOLEAN} \ {NoError}
  BY <1>1, <1>3
<1> QED
  BY <1>2, <1>3 DEF TwoGisErrors

LEMMA CoverageSound ==
    ASSUME NEW e \in TwoGisCoverageErrors
    PROVE  Sound(e) /\ e.source = "twogis"
<1>1. PICK e0 \in TwoGisErrors : e = CoverageError(e0)
  BY DEF TwoGisCoverageErrors
<1>2. CASE e = e0
  BY <1>2, TwoGisSound
<1>3. CASE e = [e0 EXCEPT !.kind = "COVERAGE_MISS"]
  <2>1. e.source = e0.source /\ e.backend = e0.backend /\ e.retryable = e0.retryable
    BY <1>3, TwoGisSound
  <2> QED
    BY <2>1, TwoGisSound DEF Sound
<1> QED
  BY <1>1, <1>2, <1>3 DEF CoverageError

LEMMA ClientErrorsSound ==
    ASSUME NEW provider, NEW e \in ClientErrors(provider)
    PROVE  Sound(e) /\ e.source = provider
BY TwoGisSound, TomTomSound, YandexSound DEF ClientErrors

LEMMA OwnErrorSound ==
    ASSUME NEW code
    PROVE  Sound(OwnError(code)) /\ OwnError(code).source = "nobody"
BY DEF OwnError, Err, Sound

LEMMA ContractErrorSound ==
    ASSUME NEW source
    PROVE  Sound(ContractError(source)) /\ ContractError(source).source = source
BY DEF ContractError, Err, Sound

LEMMA AmbiguousCitySound == Sound(TwoGisAmbiguousCity) /\ TwoGisAmbiguousCity.source = "twogis"
BY DEF TwoGisAmbiguousCity, Err, Sound

LEMMA ScopeErrorsSound ==
    ASSUME NEW e \in GeocoderFailures
    PROVE  Sound(e) /\ e.source \in {"geocoder", "nobody"}
BY GeocoderSound, ContractErrorSound, OwnErrorSound DEF GeocoderFailures

LEMMA NamedErrorsSound ==
    ASSUME NEW provider, NEW e \in NamedErrors(provider)
    PROVE  Sound(e)
BY ClientErrorsSound, CoverageSound, AmbiguousCitySound DEF NamedErrors

LEMMA ProviderErrorsSound ==
    ASSUME NEW provider, NEW e \in ProviderErrors(provider)
    PROVE  Sound(e) /\ e.source = provider
<1>1. ASSUME NEW status PROVE Sound(RatingCoverageError(status)) /\ RatingCoverageError(status).source = "twogis"
  BY DEF RatingCoverageError, Err, Sound
<1>2. CASE e \in ClientErrors(provider) \cup {ContractError(provider)}
  BY <1>2, ClientErrorsSound, ContractErrorSound
<1>3. CASE e \notin ClientErrors(provider) \cup {ContractError(provider)}
  <2>1. provider = "twogis"
    BY <1>3 DEF ProviderErrors
  <2>2. \/ e \in TwoGisCoverageErrors \/ e = TwoGisAmbiguousCity
        \/ \E status : e = RatingCoverageError(status)
    BY <1>3, <2>1 DEF ProviderErrors
  <2> QED
    BY <1>1, <2>1, <2>2, CoverageSound, AmbiguousCitySound
<1> QED
  BY <1>2, <1>3

\* No attempt goes on to the next provider but for a failure of its own.
LEMMA FallbackHasReason ==
    ASSUME NEW e, Sound(e), FallbackAction(e, Provider) # "stop"
    PROVE  Verdict(e) \in {"no_match", "garbled", "transient"}
BY DEF Sound, FallbackAction, Verdict, Garbled, Refused, Transient

LEMMA OwnVerdict ==
    ASSUME NEW e, e.source = Provider
    PROVE  Verdict(e) \in {"no_match", "garbled", "transient", "refused"}
BY DEF Verdict

LEMMA ChainStays ==
    ASSUME UNCHANGED <<deployment, request>>
    PROVE  Able' = Able
BY DEF Able

------------------------------------------------------------------------------
(* The invariant.                                                           *)

Try == [provider : {Able[i] : i \in Nat}, verdict : Verdicts]
OutcomeOf == [status : {"resolved", "not_found", "error"}, verdict : Verdicts]
Passing == {"empty", "no_match", "garbled", "transient"}

\* One entry for each provider before the one whose turn it is.
Order ==
  /\ at \in Nat \ {0} /\ tries \in Seq(Try) /\ Len(tries) = at - 1
  /\ \A i \in 1..Len(tries) : tries[i].provider = Able[i] /\ tries[i].verdict \in Passing

\* One outcome for each organisation before the one that is searched.
Resolving == request.mode = "resolve"
StatusOf(o) == CASE o.verdict = "places" -> "resolved" [] o.verdict = "empty" -> "not_found" [] OTHER -> "error"
Fitting(o) == o \in OutcomeOf /\ o.status = StatusOf(o) /\ o.verdict # "shared"
Batch ==
  /\ item \in Nat /\ outcomes \in Seq(OutcomeOf)
  /\ \A i \in 1..Len(outcomes) : Fitting(outcomes[i])
  /\ item > 0 => Resolving
  /\ stage \in {"start", "seed"} => item = 0 /\ outcomes = <<>>
  /\ stage = "seed" => Resolving
  /\ Resolving /\ stage \notin {"start", "seed", "done"} =>
       item \in 1..request.names /\ Len(outcomes) = item - 1
  /\ stage = "named" => ~Resolving
  /\ stage # "done" => result.kind = "none"
  /\ result.kind = "resolved" => Len(outcomes) = request.names
  /\ result.kind = "error" /\ item > 0 => result.source \in {"nobody", "geocoder"}

Asked == request \in Request /\ Valid(request)

\* The inductive invariant.
IInv == Asked /\ Order /\ Batch

LEMMA InitHolds == Init => IInv
<1> SUFFICES ASSUME Init PROVE IInv
  OBVIOUS
<1>1. Asked
  BY RequestsAreValid DEF Init, Asked
<1>2. Order
  BY DEF Init, Order
<1>3. Batch
  BY DEF Init, Batch, NoResult
<1> QED
  BY <1>1, <1>2, <1>3 DEF IInv

\* An attempt that goes on to the next provider leaves its reason.
LEMMA NextProvider ==
    ASSUME Order, UNCHANGED <<deployment, request>>, NEW verdict \in Passing,
           at' = at + 1, tries' = Append(tries, Tried(verdict))
    PROVE  Order'
<1>1. Able' = Able
  BY ChainStays
<1>2. Tried(verdict) \in Try
  BY DEF Order, Tried, Try, Provider, Verdicts, Passing
<1>3. tries' \in Seq(Try) /\ Len(tries') = at' - 1 /\ at' \in Nat \ {0}
  BY <1>2 DEF Order
<1>4. ASSUME NEW i \in 1..Len(tries')
      PROVE  tries'[i].provider = Able[i] /\ tries'[i].verdict \in Passing
  <2>1. CASE i \in 1..Len(tries)
    BY <2>1 DEF Order
  <2>2. CASE i = Len(tries) + 1
    <3>1. tries'[i] = Tried(verdict) /\ i = at
      BY <2>2 DEF Order
    <3> QED
      BY <3>1 DEF Tried, Provider
  <2> QED
    BY <1>3, <2>1, <2>2 DEF Order
<1> QED
  BY <1>1, <1>3, <1>4 DEF Order, Try

LEMMA SameOrder ==
    ASSUME Order, UNCHANGED <<deployment, request, at, tries>>
    PROVE  Order'
BY ChainStays DEF Order, Try

LEMMA NewOrder ==
    ASSUME at' = 1, tries' = <<>>
    PROVE  Order'
BY DEF Order

\* Nothing of the batch changes but the stage.
LEMMA SameBatch ==
    ASSUME Batch, UNCHANGED <<request, item, outcomes, result>>,
           stage \notin {"start", "seed", "done"}, stage' \notin {"start", "seed", "done"},
           stage' = "named" => stage = "named" \/ ~Resolving
    PROVE  Batch'
BY DEF Batch, Resolving, Fitting, StatusOf, OutcomeOf

LEMMA OutcomeStep ==
    ASSUME Asked, Order, Batch, UNCHANGED <<deployment, request>>, Resolving,
           stage \notin {"start", "seed", "done"},
           NEW status, NEW verdict, Fitting([status |-> status, verdict |-> verdict]),
           Outcome(status, verdict)
    PROVE  Order' /\ Batch'
<1> DEFINE o == [status |-> status, verdict |-> verdict]
<1>1. outcomes' = Append(outcomes, o) /\ o \in OutcomeOf
  BY DEF Outcome, Fitting
<1>2. item \in 1..request.names /\ Len(outcomes) = item - 1 /\ item \in Nat /\ outcomes \in Seq(OutcomeOf)
  BY DEF Batch
<1>0. request.names \in Int
  BY DEF Asked, Request
<1>3. outcomes' \in Seq(OutcomeOf) /\ Len(outcomes') = item
  BY <1>1, <1>2
<1>4. \A i \in 1..Len(outcomes') : Fitting(outcomes'[i])
  <2> SUFFICES ASSUME NEW i \in 1..Len(outcomes') PROVE Fitting(outcomes'[i])
    OBVIOUS
  <2>1. CASE i \in 1..Len(outcomes)
    <3>1. outcomes'[i] = outcomes[i]
      BY <1>1, <1>2, <2>1
    <3> QED
      BY <2>1, <3>1 DEF Batch
  <2>2. CASE i = Len(outcomes) + 1
    <3>1. outcomes'[i] = o
      BY <1>1, <1>2, <2>2
    <3> QED
      BY <3>1
  <2> QED
    BY <1>2, <1>3, <2>1, <2>2
<1>5. CASE item < request.names
  <2>1. item' = item + 1 /\ stage' = "begin" /\ at' = 1 /\ tries' = <<>> /\ result' = result
    BY <1>5 DEF Outcome, NewSearch
  <2>2. result.kind = "none"
    BY DEF Batch
  <2>3. item' \in 1..request.names
    BY <1>0, <1>2, <1>5, <2>1
  <2> QED
    BY <1>2, <1>3, <1>4, <2>1, <2>2, <2>3, NewOrder DEF Batch, Resolving, Fitting, StatusOf,
       OutcomeOf
<1>6. CASE ~(item < request.names)
  <2>1. /\ item' = item /\ stage' = "done" /\ result' = [kind |-> "resolved"]
        /\ at' = at /\ tries' = tries
    BY <1>6 DEF Outcome, Finish, SameSearch
  <2>2. item = request.names
    BY <1>0, <1>2, <1>6
  <2> QED
    BY <1>2, <1>3, <1>4, <2>1, <2>2, SameOrder DEF Batch, Resolving, Fitting, StatusOf, OutcomeOf
<1> QED
  BY <1>5, <1>6

\* The call ends with a result of its own.
LEMMA EndStep ==
    ASSUME Batch, UNCHANGED <<request, item, outcomes>>, stage' = "done",
           result'.kind # "resolved",
           result'.kind = "error" /\ item > 0 => result'.source \in {"nobody", "geocoder"}
    PROVE  Batch'
BY DEF Batch, Resolving, Fitting, StatusOf, OutcomeOf

Working == stage \notin {"start", "seed", "done"}
\* What an error may be by the stage it comes from: the provider's own, or shared.
Attributed(e) == Sound(e) /\ (Resolving => e.source \in {Provider, "nobody", "geocoder"})

LEMMA SearchRaisesStep ==
    ASSUME Asked, Order, Batch, UNCHANGED <<deployment, request>>, Working,
           NEW e, Attributed(e), SearchRaises(e)
    PROVE  Order' /\ Batch'
<1>1. CASE Resolving /\ item > 0 /\ ~SharedFailure(e)
  <2>1. Outcome("error", Verdict(e))
    BY <1>1 DEF SearchRaises, Resolving
  <2>2. e.source = Provider
    BY <1>1 DEF Attributed, SharedFailure
  <2>3. Fitting([status |-> "error", verdict |-> Verdict(e)])
    BY <2>2, OwnVerdict DEF Fitting, StatusOf, OutcomeOf, Verdicts
  <2> QED
    BY <1>1, <2>1, <2>3, OutcomeStep DEF Working
<1>2. CASE ~(Resolving /\ item > 0 /\ ~SharedFailure(e))
  <2>1. /\ stage' = "done" /\ result' = [kind |-> "error", source |-> e.source, code |-> e.code]
        /\ UNCHANGED <<at, tries, item, outcomes>>
    BY <1>2 DEF SearchRaises, Resolving, Fails, Finish, SameSearch
  <2>2. item > 0 => SharedFailure(e)
    BY <1>2 DEF Batch
  <2>3. Batch'
    BY <2>1, <2>2, EndStep DEF SharedFailure
  <2> QED
    BY <2>1, <2>3, SameOrder
<1> QED
  BY <1>1, <1>2

LEMMA AttemptFailsStep ==
    ASSUME Asked, Order, Batch, UNCHANGED <<deployment, request>>, Working,
           NEW e, Attributed(e), AttemptFails(e)
    PROVE  Order' /\ Batch'
<1>1. CASE IsLast \/ FallbackAction(e, Provider) = "stop"
  BY <1>1, SearchRaisesStep DEF AttemptFails
<1>2. CASE ~(IsLast \/ FallbackAction(e, Provider) = "stop")
  <2>1. /\ at' = at + 1 /\ stage' = "begin" /\ tries' = Append(tries, Tried(Verdict(e)))
        /\ UNCHANGED <<item, outcomes, result>>
    BY <1>2 DEF AttemptFails
  <2>2. Verdict(e) \in Passing
    BY <1>2, FallbackHasReason DEF Attributed, Passing
  <2> QED
    BY <2>1, <2>2, NextProvider, SameBatch DEF Working
<1> QED
  BY <1>1, <1>2

LEMMA ScopeFailsStep ==
    ASSUME Asked, Order, Batch, UNCHANGED <<deployment, request>>, Working \/ stage = "seed",
           NEW e, Attributed(e), ScopeFails(e)
    PROVE  Order' /\ Batch'
<1>1. CASE stage = "seed"
  <2>1. /\ stage' = "done" /\ result' = [kind |-> "error", source |-> e.source, code |-> e.code]
        /\ UNCHANGED <<at, tries, item, outcomes>>
    BY <1>1 DEF ScopeFails, Fails, Finish, SameSearch
  <2>2. item = 0
    BY <1>1 DEF Batch
  <2>3. Batch'
    BY <2>1, <2>2, EndStep
  <2> QED
    BY <2>1, <2>3, SameOrder
<1>2. CASE stage # "seed"
  BY <1>2, AttemptFailsStep DEF ScopeFails, Working
<1> QED
  BY <1>1, <1>2

LEMMA AttemptReturnsStep ==
    ASSUME Asked, Order, Batch, UNCHANGED <<deployment, request>>, Working,
           NEW verdict \in {"places", "empty"}, NEW own \in BOOLEAN, AttemptReturns(verdict, own)
    PROVE  Order' /\ Batch'
<1>1. CASE verdict = "places" \/ IsLast
  <2>1. SearchFound(verdict)
    BY <1>1 DEF AttemptReturns
  <2>2. CASE Resolving
    <3>1. Outcome(IF verdict = "places" THEN "resolved" ELSE "not_found", verdict)
      BY <2>1, <2>2 DEF SearchFound, Resolving
    <3>2. Fitting([status |-> IF verdict = "places" THEN "resolved" ELSE "not_found",
                   verdict |-> verdict])
      BY DEF Fitting, StatusOf, OutcomeOf, Verdicts
    <3> QED
      BY <2>2, <3>1, <3>2, OutcomeStep DEF Working
  <2>3. CASE ~Resolving
    <3>1. /\ stage' = "done" /\ result' = [kind |-> verdict, verdict |-> verdict]
          /\ UNCHANGED <<at, tries, item, outcomes>>
      BY <2>1, <2>3 DEF SearchFound, Resolving, Finish, SameSearch
    <3>2. Batch'
      BY <3>1, EndStep
    <3> QED
      BY <3>1, <3>2, SameOrder
  <2> QED
    BY <2>2, <2>3
<1>2. CASE ~(verdict = "places" \/ IsLast)
  <2>1. /\ at' = at + 1 /\ stage' = "begin" /\ tries' = Append(tries, Tried(verdict))
        /\ UNCHANGED <<item, outcomes, result>>
    BY <1>2 DEF AttemptReturns
  <2>2. verdict \in Passing
    BY <1>2 DEF Passing
  <2> QED
    BY <2>1, <2>2, NextProvider, SameBatch DEF Working
<1> QED
  BY <1>1, <1>2

------------------------------------------------------------------------------
(* The actions.                                                             *)

LEMMA StartStep ==
    ASSUME IInv, Start
    PROVE  Order' /\ Batch'
<1>1. /\ Asked /\ Order /\ Batch /\ stage = "start" /\ item = 0 /\ outcomes = <<>>
      /\ result.kind = "none"
  BY DEF IInv, Batch, Start
<1>2. UNCHANGED <<deployment, request, at, tries, outcomes>>
  BY DEF Start
<1>3. Order'
  BY <1>1, <1>2, SameOrder
<1>4. CASE Able = <<>>
  <2>1. stage' = "done" /\ item' = 0 /\ result'.kind = "error"
    BY <1>1, <1>4 DEF Start, Fails, Finish
  <2> QED
    BY <1>1, <1>2, <1>3, <2>1, EndStep
<1>5. CASE Able # <<>>
  <2>1. /\ item' = IF Resolving /\ request.area = "ref" THEN 1 ELSE 0
        /\ stage' = IF Resolving /\ request.area = "text" THEN "seed" ELSE "begin"
        /\ result' = result
    BY <1>5 DEF Start, Resolving
  <2>2. Resolving => request.area \in {"text", "ref"} /\ 1 \in 1..request.names
    BY <1>1 DEF Asked, Resolving, Request, Valid
  <2> QED
    BY <1>1, <1>2, <1>3, <2>1, <2>2 DEF Batch, Resolving, Fitting, StatusOf, OutcomeOf
<1> QED
  BY <1>4, <1>5

LEMMA BeginStep ==
    ASSUME IInv, BeginAttempt
    PROVE  Order' /\ Batch'
<1>1. /\ Asked /\ Order /\ Batch /\ stage = "begin"
      /\ UNCHANGED <<deployment, request, at, tries, item, outcomes, result>>
  BY DEF IInv, BeginAttempt
<1>2. CASE scoped \/ NearGiven = "ref"
  <2>1. stage' = "attempt"
    BY <1>2 DEF BeginAttempt, ScopeResolved
  <2> QED
    BY <1>1, <2>1, SameOrder, SameBatch
<1>3. CASE ~(scoped \/ NearGiven = "ref")
  <2>1. stage' = CASE NearGiven = "none" /\ AreaGiven = "ref"  -> "localize"
                   [] NearGiven = "none" /\ AreaGiven = "text" -> "area"
                   [] NearGiven = "city" -> "locality"
                   [] NearGiven = "text" -> "named"
    BY <1>3 DEF BeginAttempt
  <2>2. NearGiven \in {"none", "text", "city"}
    BY <1>1, <1>3 DEF NearGiven, Asked, Request
  <2>3. NearGiven = "none" => AreaGiven \in {"text", "ref"}
    BY <1>1 DEF NearGiven, AreaGiven, Asked, Request, Valid
  <2>4. NearGiven = "text" => ~Resolving
    BY <1>1 DEF NearGiven, Asked, Resolving, Request, Valid
  <2>5. stage' \in {"localize", "area", "locality", "named"} /\ (stage' = "named" => ~Resolving)
    BY <2>1, <2>2, <2>3, <2>4
  <2> QED
    BY <1>1, <2>5, SameOrder, SameBatch
<1> QED
  BY <1>2, <1>3

\* The scope is had; the search goes on.
LEMMA GoesOn ==
    ASSUME Order, Batch, UNCHANGED <<deployment, request, at, tries, item, outcomes, result>>,
           Working, stage' \in {"begin", "locality", "named", "geocode", "area", "localize",
                               "attempt", "request"},
           stage' = "named" => stage = "named"
    PROVE  Order' /\ Batch'
BY SameOrder, SameBatch DEF Working

LEMMA SharedIsAttributed ==
    ASSUME NEW e, Sound(e), e.source \in {"geocoder", "nobody"}
    PROVE  Attributed(e)
BY DEF Attributed

LEMMA GeocodeAreaStep ==
    ASSUME IInv, GeocodeArea
    PROVE  Order' /\ Batch'
<1>1. /\ Asked /\ Order /\ Batch /\ stage \in {"area", "seed"} /\ UNCHANGED <<deployment, request>>
      /\ (stage = "seed" => Resolving /\ NearGiven = "none" /\ 1 \in 1..request.names)
  <2>1. /\ Asked /\ Order /\ Batch /\ stage \in {"area", "seed"}
        /\ UNCHANGED <<deployment, request>>
    BY DEF IInv, GeocodeArea
  <2>2. stage = "seed" => Resolving
    BY <2>1 DEF Batch
  <2>3. Resolving => NearGiven = "none"
    BY <2>1 DEF Asked, Resolving, NearGiven, Request, Valid
  <2>4. Resolving => 1 \in 1..request.names
    BY <2>1 DEF Asked, Resolving, Request, Valid
  <2> QED
    BY <2>1, <2>2, <2>3, <2>4
<1>2. CASE AreaFound /\ stage = "seed"
  <2>1. /\ item' = 1 /\ stage' = "begin" /\ UNCHANGED <<at, tries, outcomes, result>>
    BY <1>2 DEF AreaFound
  <2> QED
    BY <1>1, <1>2, <2>1, SameOrder DEF Batch, Resolving, Fitting, StatusOf, OutcomeOf
<1>3. CASE AreaFound /\ stage # "seed"
  <2>1. stage' \in {"localize", "attempt"} /\ UNCHANGED <<at, tries, item, outcomes, result>>
    BY <1>3 DEF AreaFound, ScopeResolved
  <2> QED
    BY <1>1, <1>3, <2>1, GoesOn DEF Working
<1>4. ASSUME NEW e \in GeocoderFailures, NearGiven = "none", ScopeFails(e)
      PROVE  Order' /\ Batch'
  BY <1>1, <1>4, ScopeErrorsSound, SharedIsAttributed, ScopeFailsStep DEF Working
<1>5. CASE /\ NearGiven # "none" /\ ScopeResolved
           /\ UNCHANGED <<item, at, nth, bounds, pending, tries, notes, outcomes, result>>
  BY <1>1, <1>5, GoesOn DEF ScopeResolved, Working
<1> QED
  BY <1>2, <1>3, <1>4, <1>5 DEF GeocodeArea

LEMMA ScopeStepsHold ==
    ASSUME IInv, ScopeStep
    PROVE  Order' /\ Batch'
<1>1. Asked /\ Order /\ Batch
  BY DEF IInv
<1>2. CASE AreaRefIsNoLocality
  <2>1. Working /\ ScopeFails(OwnError("INVALID_INPUT")) /\ UNCHANGED <<deployment, request>>
    BY <1>2 DEF AreaRefIsNoLocality, Working
  <2> QED
    BY <1>1, <2>1, OwnErrorSound, SharedIsAttributed, ScopeFailsStep
<1>3. CASE GeocodeArea
  BY <1>3, GeocodeAreaStep
<1>4. CASE LocalizeArea
  <2>1. /\ stage = "localize" /\ stage' = "attempt"
        /\ UNCHANGED <<deployment, request, at, tries, item, outcomes, result>>
    BY <1>4 DEF LocalizeArea, ScopeResolved
  <2> QED
    BY <1>1, <2>1, GoesOn DEF Working
<1>5. CASE GeocodeLocality
  <2>1. stage = "locality" /\ UNCHANGED <<deployment, request>>
    BY <1>5 DEF GeocodeLocality
  <2>2. CASE ScopeResolved /\ UNCHANGED <<item, at, nth, bounds, pending, tries, notes, outcomes, result>>
    BY <1>1, <2>1, <2>2, GoesOn DEF ScopeResolved, Working
  <2>3. ASSUME NEW e \in GeocoderFailures, ScopeFails(e)
        PROVE  Order' /\ Batch'
    BY <1>1, <2>1, <2>3, ScopeErrorsSound, SharedIsAttributed, ScopeFailsStep DEF Working
  <2> QED
    BY <1>5, <2>2, <2>3 DEF GeocodeLocality
<1>6. CASE GeocodeAnchor
  <2>1. stage = "geocode" /\ UNCHANGED <<deployment, request>>
    BY <1>6 DEF GeocodeAnchor
  <2>2. CASE AnchorFound /\ UNCHANGED <<item, at, nth, bounds, pending, tries, notes, outcomes, result>>
    <3>1. stage' \in {"area", "attempt"}
      BY <2>2 DEF AnchorFound, ScopeResolved
    <3> QED
      BY <1>1, <2>1, <2>2, <3>1, GoesOn DEF Working
  <2>3. ASSUME NEW e \in GeocoderFailures \cup {OwnError("INVALID_INPUT")}, ScopeFails(e)
        PROVE  Order' /\ Batch'
    <3>1. Sound(e) /\ e.source \in {"geocoder", "nobody"}
      BY <2>3, ScopeErrorsSound, OwnErrorSound
    <3> QED
      BY <1>1, <2>1, <2>3, <3>1, SharedIsAttributed, ScopeFailsStep DEF Working
  <2> QED
    BY <1>6, <2>2, <2>3 DEF GeocodeAnchor
<1>7. CASE ChainExhausted
  <2>1. /\ stage = "named" /\ stage' = "geocode"
        /\ UNCHANGED <<deployment, request, at, tries, item, outcomes, result>>
    BY <1>7 DEF ChainExhausted
  <2> QED
    BY <1>1, <2>1, GoesOn DEF Working
<1>8. CASE ResolveCityBounds
  <2>1. stage = "named" /\ UNCHANGED <<deployment, request>>
    BY <1>8 DEF ResolveCityBounds, InChain
  <2>2. CASE UNCHANGED <<stage, item, at, scoped, nth, pending, tries, notes, outcomes, result>>
    BY <1>1, <2>1, <2>2, GoesOn DEF Working
  <2>3. ASSUME NEW e \in GeocoderErrors \cup {ContractError("geocoder")}, ScopeFails(e)
        PROVE  Order' /\ Batch'
    <3>1. Sound(e) /\ e.source \in {"geocoder", "nobody"}
      BY <2>3, GeocoderSound, ContractErrorSound
    <3> QED
      BY <1>1, <2>1, <2>3, <3>1, SharedIsAttributed, ScopeFailsStep DEF Working
  <2> QED
    BY <1>8, <2>2, <2>3 DEF ResolveCityBounds
\* A named-place resolver's error is nobody's here: organisations are not looked up by it.
<1>9. CASE AskNamed
  <2>1. stage = "named" /\ UNCHANGED <<deployment, request>>
    BY <1>9 DEF AskNamed, InChain
  <2>2. ~Resolving
    BY <1>1, <2>1 DEF Batch
  <2>3. CASE AnchorFound /\ UNCHANGED <<item, at, nth, bounds, pending, tries, notes, outcomes, result>>
    <3>1. stage' \in {"area", "attempt"}
      BY <2>3 DEF AnchorFound, ScopeResolved
    <3> QED
      BY <1>1, <2>1, <2>3, <3>1, GoesOn DEF Working
  <2>4. CASE UNCHANGED <<stage, item, at, tries, outcomes, result>>
    BY <1>1, <2>1, <2>4, GoesOn DEF Working
  <2>5. CASE ScopeFails(OwnError("INVALID_INPUT"))
    BY <1>1, <2>1, <2>5, OwnErrorSound, SharedIsAttributed, ScopeFailsStep DEF Working
  <2>6. ASSUME NEW e \in NamedErrors(Named), ScopeFails(e)
        PROVE  Order' /\ Batch'
    <3>1. Attributed(e)
      BY <2>2, NamedErrorsSound DEF Attributed
    <3> QED
      BY <1>1, <2>1, <2>6, <3>1, ScopeFailsStep DEF Working
  <2> QED
    BY <1>9, <2>3, <2>4, <2>5, <2>6 DEF AskNamed
<1> QED
  BY <1>2, <1>3, <1>4, <1>5, <1>6, <1>7, <1>8, <1>9 DEF ScopeStep

LEMMA ProviderSteps ==
    ASSUME IInv, LoadScopeFails \/ SendRequest \/ RequestEnds
    PROVE  Order' /\ Batch'
<1>1. /\ Asked /\ Order /\ Batch /\ stage \in {"attempt", "request"} /\ Working
      /\ UNCHANGED <<deployment, request>>
  BY DEF IInv, LoadScopeFails, SendRequest, RequestEnds, Working
<1>2. CASE LoadScopeFails
  <2>1. PICK c \in {"UNKNOWN_REF", "INVALID_INPUT"} : AttemptFails(OwnError(c))
    BY <1>2 DEF LoadScopeFails
  <2> QED
    BY <1>1, <2>1, OwnErrorSound, SharedIsAttributed, AttemptFailsStep
<1>3. CASE SendRequest
  BY <1>1, <1>3, GoesOn DEF SendRequest
<1>4. CASE RequestEnds
  <2>1. CASE stage' = "attempt" /\ UNCHANGED <<item, at, scoped, nth, bounds, pending, tries, notes, outcomes, result>>
    BY <1>1, <2>1, GoesOn
  <2>2. ASSUME NEW v \in {"places", "empty"}, NEW own \in BOOLEAN, AttemptReturns(v, own)
        PROVE  Order' /\ Batch'
    BY <1>1, <2>2, AttemptReturnsStep
  <2>3. ASSUME NEW e \in ProviderErrors(Provider), AttemptFails(e)
        PROVE  Order' /\ Batch'
    <3>1. Attributed(e)
      BY ProviderErrorsSound DEF Attributed
    <3> QED
      BY <1>1, <2>3, <3>1, AttemptFailsStep
  <2> QED
    BY <1>4, <2>1, <2>2, <2>3 DEF RequestEnds
<1> QED
  BY <1>2, <1>3, <1>4

LEMMA Invariance == Spec => []IInv
<1>1. ASSUME IInv, [Next]_vars PROVE IInv'
  <2>1. Asked'
    <3>1. request' = request
      BY <1>1 DEF Next, Start, BeginAttempt, ScopeStep, AreaRefIsNoLocality, GeocodeArea,
                  LocalizeArea, GeocodeLocality, GeocodeAnchor, ChainExhausted,
                  ResolveCityBounds, AskNamed, LoadScopeFails, SendRequest, RequestEnds,
                  Deadline, Done, vars
    <3>2. Asked
      BY <1>1 DEF IInv
    <3> QED
      BY <3>1, <3>2 DEF Asked, Valid
  <2>2. CASE Start \/ BeginAttempt
    BY <1>1, <2>1, <2>2, StartStep, BeginStep DEF IInv
  <2>3. CASE ScopeStep
    BY <1>1, <2>1, <2>3, ScopeStepsHold DEF IInv
  <2>4. CASE LoadScopeFails \/ SendRequest \/ RequestEnds
    BY <1>1, <2>1, <2>4, ProviderSteps DEF IInv
  <2>5. CASE Deadline
    <3>1. /\ stage' = "done" /\ result' = [kind |-> "timeout"]
          /\ UNCHANGED <<deployment, request, item, at, tries, outcomes>>
      BY <2>5 DEF Deadline, Finish
    <3>2. Order /\ Batch
      BY <1>1 DEF IInv
    <3> QED
      BY <2>1, <3>1, <3>2, SameOrder, EndStep DEF IInv
  <2>6. CASE UNCHANGED vars
    <3>1. UNCHANGED <<deployment, request, stage, at, tries, item, outcomes, result>>
      BY <2>6 DEF vars
    <3>2. Order /\ Batch
      BY <1>1 DEF IInv
    <3>3. Batch'
      BY <3>1, <3>2 DEF Batch, Resolving, Fitting, StatusOf, OutcomeOf
    <3> QED
      BY <2>1, <3>1, <3>2, <3>3, SameOrder DEF IInv
  <2> QED
    BY <1>1, <2>2, <2>3, <2>4, <2>5, <2>6 DEF Next, Done
<1> QED
  BY InitHolds, <1>1, PTL DEF Spec

\* Whatever the deployment, the request and the failures: a provider is only passed over with
\* nothing in hand, or after a failure of its own that another provider may make good
\* (_fallback_action).
THEOREM PassedOverForAReasonAlways == Spec => []PassedOverForAReason
<1>1. IInv => PassedOverForAReason
  BY DEF IInv, Order, PassedOverForAReason, Passing
<1> QED
  BY Invariance, <1>1, PTL

\* For any number of organisations: "not found" is an answer, one organisation's failure leaves
\* the others theirs, and only a shared failure ends the batch (_resolve_organisations).
THEOREM NotFoundIsAnAnswerAlways == Spec => []NotFoundIsAnAnswer
<1>1. IInv => NotFoundIsAnAnswer
  BY DEF IInv, Batch, NotFoundIsAnAnswer, Fitting, StatusOf
<1> QED
  BY Invariance, <1>1, PTL

------------------------------------------------------------------------------
(* PlaceRecords: the records behind the references of cities.               *)

CONSTANTS Calls, Entities, Municipalities, Bounded, MaxLoads
VARIABLES record, offered, need, pc, saves, reads, place, held, labelled, loads, ended, disturbed

Records == INSTANCE PlaceRecords WITH Places <- Entities, result <- ended

Record == [kind : {"none", "locality", "other"}, label : BOOLEAN]
Steps == {"idle", "saving", "reading", "localizing", "storing", "loading", "searching", "done"}
Results == {"none", "resolved", "not_found", "contract_error", "unknown_ref", "invalid_ref",
            "searched", "failed"}

Types ==
  /\ record \in [Entities -> Record] /\ held \in [Calls -> Record]
  /\ need \in [Calls -> Records!Need] /\ place \in [Calls -> Entities]
  /\ pc \in [Calls -> Steps]
  /\ saves \in [Calls -> SUBSET Entities] /\ reads \in [Calls -> SUBSET Entities]
  /\ labelled \in [Calls -> BOOLEAN] /\ loads \in [Calls -> Nat]
  /\ ended \in [Calls -> Results]

\* A copy, which is what gets a label, is one of a city.
CopiesAreCities ==
  \A c \in Calls :
    /\ held[c].label => held[c].kind = "locality"
    /\ pc[c] \in {"localizing", "storing"} => held[c].kind = "locality"

\* What call c has left in the record of p.
Expected(c, p) ==
  /\ record[p].kind # "none"
  /\ Records!Searches(c) => record[p].kind = "locality"

\* What a call that nobody disturbs may count on at each of its steps.
Own(c) ==
  /\ pc[c] \in {"idle", "saving", "reading", "localizing"} => ~labelled[c]
  /\ pc[c] = "saving" => place[c] \in reads[c] /\ \A p \in reads[c] \ saves[c] : Expected(c, p)
  /\ pc[c] = "reading" =>
       /\ \A p \in reads[c] : Expected(c, p)
       /\ place[c] \in reads[c] \/ (held[c] = record[place[c]] /\ Expected(c, place[c]))
  /\ pc[c] \in {"localizing", "searching"} => held[c] = record[place[c]]
  /\ pc[c] \in {"loading", "searching"} /\ labelled[c] => record[place[c]].label
  /\ pc[c] \in {"localizing", "storing", "loading", "searching"} /\ need[c].kind = "text" =>
       Expected(c, place[c]) /\ place[c] \in Bounded
  /\ ended[c] # "contract_error"
  /\ need[c].kind = "text" => ended[c] \notin {"unknown_ref", "invalid_ref"}
Undisturbed == \A c \in Calls \ disturbed : Own(c)

\* The inductive invariant.
RecordsInv == Types /\ Records!LabelsStandOnCities /\ CopiesAreCities /\ Undisturbed

LEMMA RecordsInitially == Records!Init => RecordsInv
<1> SUFFICES ASSUME Records!Init PROVE RecordsInv
  OBVIOUS
<1> USE DEF Records!Init, Records!NoRecord
<1>1. Types
  <2>1. need \in [Calls -> Records!Need]
    OBVIOUS
  <2>2. record \in [Entities -> Record] /\ held \in [Calls -> Record]
    BY DEF Record
  <2> QED
    BY <2>1, <2>2 DEF Types, Steps, Results
<1>2. Records!LabelsStandOnCities /\ CopiesAreCities
  BY DEF Records!LabelsStandOnCities, CopiesAreCities
<1>3. Undisturbed
  BY DEF Undisturbed, Own
<1> QED
  BY <1>1, <1>2, <1>3 DEF RecordsInv

------------------------------------------------------------------------------
(* Types.                                                                   *)

LEMMA KindIsKind == \A p, b : Records!Kind(p, b) \in {"locality", "other"}
BY DEF Records!Kind

LEMMA TypesStep ==
    ASSUME Types, [Records!Next]_Records!vars
    PROVE  Types'
<1> USE DEF Types, Records!Goes, Records!Ends, Records!Quiet, Records!Hold, Records!Write,
            Records!NoRecord
<1>1. ASSUME NEW c \in Calls, Records!Geocode(c) PROVE Types'
  BY <1>1 DEF Records!Geocode, Steps, Results
<1>2. ASSUME NEW c \in Calls, Records!SaveCandidate(c) PROVE Types'
  BY <1>2, KindIsKind DEF Records!SaveCandidate, Steps, Record
<1>3. ASSUME NEW c \in Calls, Records!ReadBack(c) PROVE Types'
  BY <1>3 DEF Records!ReadBack, Steps, Results
<1>4. ASSUME NEW c \in Calls, Records!BeginWithRef(c) \/ Records!BeginNear(c) PROVE Types'
  BY <1>4 DEF Records!BeginWithRef, Records!BeginNear, Steps, Results
<1>5. ASSUME NEW c \in Calls, Records!Localize(c) PROVE Types'
  BY <1>5 DEF Records!Localize, Steps, Results
<1>6. ASSUME NEW c \in Calls, Records!StoreLabel(c) PROVE Types'
  BY <1>6 DEF Records!StoreLabel, Records!Localized, Steps, Record
<1>7. ASSUME NEW c \in Calls, Records!Load(c) PROVE Types'
  BY <1>7 DEF Records!Load, Steps, Results
<1>8. ASSUME NEW c \in Calls, Records!Search(c) PROVE Types'
  BY <1>8 DEF Records!Search, Steps, Results
<1>9. ASSUME NEW p \in Entities, Records!Expire(p) PROVE Types'
  BY <1>9 DEF Records!Expire, Record
<1>10. CASE UNCHANGED Records!vars
  BY <1>10 DEF Records!vars
<1> QED
  BY <1>1, <1>2, <1>3, <1>4, <1>5, <1>6, <1>7, <1>8, <1>9, <1>10 DEF Records!Next,
     Records!CallStep, Records!Done

------------------------------------------------------------------------------
(* Labels.                                                                  *)

LEMMA CitiesStep ==
    ASSUME Types, Records!LabelsStandOnCities, CopiesAreCities, [Records!Next]_Records!vars
    PROVE  Records!LabelsStandOnCities' /\ CopiesAreCities'
<1> USE DEF Types, Records!LabelsStandOnCities, CopiesAreCities, Records!Goes, Records!Ends,
            Records!Quiet, Records!Hold, Records!Write, Records!NoRecord
<1> DEFINE Goal == Records!LabelsStandOnCities' /\ CopiesAreCities'
<1>1. ASSUME NEW c \in Calls, Records!Geocode(c) PROVE Goal
  BY <1>1 DEF Records!Geocode
<1>2. ASSUME NEW c \in Calls, Records!SaveCandidate(c) PROVE Goal
  BY <1>2 DEF Records!SaveCandidate
\* A call has its place localized only when the copy it takes is one of a city.
<1>3. ASSUME NEW c \in Calls, Records!ReadBack(c) PROVE Goal
  BY <1>3 DEF Records!ReadBack
<1>4. ASSUME NEW c \in Calls, Records!BeginWithRef(c) \/ Records!BeginNear(c) PROVE Goal
  BY <1>4 DEF Records!BeginWithRef, Records!BeginNear, Records!Usable
<1>5. ASSUME NEW c \in Calls, Records!Localize(c) PROVE Goal
  BY <1>5 DEF Records!Localize
\* The whole copy is written: its kind comes with the label.
<1>6. ASSUME NEW c \in Calls, Records!StoreLabel(c) PROVE Goal
  BY <1>6 DEF Records!StoreLabel, Records!Localized, Record
<1>7. ASSUME NEW c \in Calls, Records!Load(c) PROVE Goal
  BY <1>7 DEF Records!Load
<1>8. ASSUME NEW c \in Calls, Records!Search(c) PROVE Goal
  BY <1>8 DEF Records!Search
<1>9. ASSUME NEW p \in Entities, Records!Expire(p) PROVE Goal
  BY <1>9 DEF Records!Expire
<1>10. CASE UNCHANGED Records!vars
  BY <1>10 DEF Records!vars
<1> QED
  BY <1>1, <1>2, <1>3, <1>4, <1>5, <1>6, <1>7, <1>8, <1>9, <1>10 DEF Records!Next,
     Records!CallStep, Records!Done
------------------------------------------------------------------------------
(* Calls that nobody disturbs.                                              *)

\* What call d counts on does not change while it does not move, unless a record of its own does.
LEMMA Frame ==
    ASSUME Types, NEW d \in Calls, Own(d),
           pc'[d] = pc[d], need' = need, place'[d] = place[d], reads'[d] = reads[d],
           saves'[d] = saves[d], held'[d] = held[d], labelled'[d] = labelled[d],
           ended'[d] = ended[d],
           \A p \in Entities : Records!Concerns(d, p) => record'[p] = record[p]
    PROVE  Own(d)'
<1>1. place[d] \in Entities /\ reads[d] \subseteq Entities
  BY DEF Types
<1>2. CASE pc[d] \in {"idle", "done"}
  BY <1>2 DEF Own
<1>3. CASE pc[d] \notin {"idle", "done"}
  <2>1. record'[place[d]] = record[place[d]] /\ \A p \in reads[d] : record'[p] = record[p]
    BY <1>1, <1>3 DEF Records!Concerns
  <2> QED
    BY <2>1 DEF Own, Expected, Records!Searches
<1> QED
  BY <1>2, <1>3

\* A step of call c leaves the others what they count on, or disturbs them.
LEMMA OthersFrame ==
    ASSUME Types, Undisturbed, NEW c \in Calls, Records!CallStep(c)
    PROVE  \A d \in Calls \ (disturbed' \cup {c}) : Own(d)'
<1> SUFFICES ASSUME NEW d \in Calls, d \notin disturbed', d # c PROVE Own(d)'
  OBVIOUS
<1> USE DEF Records!Goes, Records!Ends, Records!Quiet, Records!Hold, Records!Write
<1>1. /\ pc'[d] = pc[d] /\ need' = need /\ place'[d] = place[d] /\ reads'[d] = reads[d]
      /\ saves'[d] = saves[d] /\ held'[d] = held[d] /\ labelled'[d] = labelled[d]
      /\ ended'[d] = ended[d]
  BY DEF Types, Records!CallStep, Records!Geocode, Records!SaveCandidate, Records!ReadBack,
         Records!BeginWithRef, Records!BeginNear, Records!Localize, Records!StoreLabel,
         Records!Load, Records!Search
<1>2. /\ disturbed \subseteq disturbed'
      /\ \A p \in Entities : Records!Concerns(d, p) => record'[p] = record[p]
  BY DEF Types, Records!CallStep, Records!Geocode, Records!SaveCandidate, Records!ReadBack,
         Records!BeginWithRef, Records!BeginNear, Records!Localize, Records!StoreLabel,
         Records!Load, Records!Search
<1> QED
  BY <1>1, <1>2, Frame DEF Undisturbed

\* The call itself.
LEMMA OwnStep ==
    ASSUME RecordsInv, NEW c \in Calls \ disturbed, Records!CallStep(c)
    PROVE  Own(c)'
<1> USE DEF RecordsInv, Types, Undisturbed, Own, Expected, Records!Searches, Records!Goes,
            Records!Ends, Records!Quiet, Records!Hold, Records!Write
<1>0. Own(c)
  OBVIOUS
<1>1. ASSUME Records!Geocode(c) PROVE Own(c)'
  BY <1>1 DEF Records!Geocode
<1>2. ASSUME Records!SaveCandidate(c) PROVE Own(c)'
  <2> PICK p \in saves[c] :
        /\ record' = [record EXCEPT ![p] =
                        [kind |-> Records!Kind(p, Records!Searches(c)), label |-> FALSE]]
        /\ saves' = [saves EXCEPT ![c] = @ \ {p}]
        /\ pc' = [pc EXCEPT ![c] = IF saves[c] = {p} THEN "reading" ELSE "saving"]
    BY <1>2 DEF Records!SaveCandidate
  <2>1. p \in Entities /\ reads[c] \subseteq Entities
    OBVIOUS
  <2>2. record'[p].kind # "none" /\ (Records!Searches(c) => record'[p].kind = "locality")
    BY <2>1 DEF Records!Kind
  <2>3. \A q \in reads[c] \ saves'[c] : Expected(c, q)'
    BY <1>2, <2>1, <2>2 DEF Records!SaveCandidate
  <2>4. pc'[c] = "reading" => saves'[c] = {}
    OBVIOUS
  <2> QED
    BY <1>2, <2>3, <2>4 DEF Records!SaveCandidate
<1>3. ASSUME Records!ReadBack(c) PROVE Own(c)'
  BY <1>3 DEF Records!ReadBack
<1>4. ASSUME Records!BeginWithRef(c) \/ Records!BeginNear(c) PROVE Own(c)'
  BY <1>4 DEF Records!BeginWithRef, Records!BeginNear, Records!Usable
<1>5. ASSUME Records!Localize(c) PROVE Own(c)'
  BY <1>5 DEF Records!Localize
<1>6. ASSUME Records!StoreLabel(c) PROVE Own(c)'
  <2>1. record' = [record EXCEPT ![place[c]] = [held[c] EXCEPT !.label = TRUE]]
    BY <1>6 DEF Records!StoreLabel, Records!Localized
  <2>2. record'[place[c]].label /\ record'[place[c]].kind = "locality"
    BY <1>6, <2>1 DEF Records!StoreLabel, CopiesAreCities, Record
  <2> QED
    BY <1>6, <2>2 DEF Records!StoreLabel
<1>7. ASSUME Records!Load(c) PROVE Own(c)'
  BY <1>7 DEF Records!Load, Records!Usable
<1>8. ASSUME Records!Search(c) PROVE Own(c)'
  BY <1>8 DEF Records!Search
<1> QED
  BY <1>1, <1>2, <1>3, <1>4, <1>5, <1>6, <1>7, <1>8 DEF Records!CallStep

LEMMA UndisturbedStep ==
    ASSUME RecordsInv, [Records!Next]_Records!vars
    PROVE  Undisturbed'
<1>1. ASSUME NEW c \in Calls, Records!CallStep(c) PROVE Undisturbed'
  <2>1. disturbed \subseteq disturbed'
    BY <1>1 DEF Records!CallStep, Records!Geocode, Records!SaveCandidate, Records!ReadBack,
                Records!BeginWithRef, Records!BeginNear, Records!Localize, Records!StoreLabel,
                Records!Load, Records!Search, Records!Quiet, Records!Write
  <2> QED
    BY <1>1, <2>1, OthersFrame, OwnStep DEF RecordsInv, Undisturbed
<1>2. ASSUME NEW p \in Entities, Records!Expire(p) PROVE Undisturbed'
  <2> SUFFICES ASSUME NEW d \in Calls, d \notin disturbed' PROVE Own(d)'
    BY DEF Undisturbed
  <2>1. d \notin disturbed /\ \A q \in Entities : Records!Concerns(d, q) => record'[q] = record[q]
    BY <1>2 DEF Records!Expire, RecordsInv, Types
  <2> QED
    BY <1>2, <2>1, Frame DEF Records!Expire, RecordsInv, Undisturbed
<1>3. CASE UNCHANGED Records!vars
  BY <1>3 DEF Records!vars, RecordsInv, Undisturbed, Own, Expected, Records!Searches
<1> QED
  BY <1>1, <1>2, <1>3 DEF Records!Next, Records!Done

------------------------------------------------------------------------------

LEMMA RecordsInvariance == Records!Spec => []RecordsInv
<1>1. RecordsInv /\ [Records!Next]_Records!vars => RecordsInv'
  BY TypesStep, CitiesStep, UndisturbedStep DEF RecordsInv
<1> QED
  BY RecordsInitially, <1>1, PTL DEF Records!Spec

\* However many calls geocode, localize and store whole records over each other's: a Russian label
\* never stands in the record of anything but a city (resolver.py, _save_localized_locality).
THEOREM LabelsStandOnCitiesAlways == Records!Spec => []Records!LabelsStandOnCities
<1>1. RecordsInv => Records!LabelsStandOnCities
  BY DEF RecordsInv
<1> QED
  BY RecordsInvariance, <1>1, PTL

\* A broken contract, an area that is unknown or no area, or a label that is lost again takes
\* another writer, or the TTL, between the steps of the call it happens to.
THEOREM OnlyOthersDisturbAlways == Records!Spec => []Records!OnlyOthersDisturb
<1>1. RecordsInv => Records!OnlyOthersDisturb
  BY DEF RecordsInv, Undisturbed, Own, Records!OnlyOthersDisturb
<1> QED
  BY RecordsInvariance, <1>1, PTL

------------------------------------------------------------------------------
(* Sequences that are built step by step, and what holds after each step.  *)

\* A set of numbers has a least one; what holds of 0 and is passed on holds up to any number.
LEMMA LeastNat ==
    ASSUME NEW T, T \subseteq Nat, T # {}
    PROVE  \E n \in T : \A k \in T : n <= k
<1> DEFINE R == {ss \in Nat \X Nat : ss[1] < ss[2]}
<1>1. IsWellFoundedOn(R, Nat)
  BY NatLessThanWellFounded, Zenon DEF OpToRel
<1>2. PICK n \in T : \A k \in T : ~ (<<k, n>> \in R)
  <2> HIDE DEF R
  <2> QED
    BY <1>1, WFMin
<1>3. ASSUME NEW k \in T, k < n
      PROVE  FALSE
  <2>1. <<k, n>> \in Nat \X Nat
    OBVIOUS
  <2>2. <<k, n>>[1] < <<k, n>>[2]
    BY <1>3
  <2>3. <<k, n>> \in R
    BY <2>1, <2>2
  <2> QED
    BY <2>3, <1>2
<1>4. n \in T /\ n \in Nat /\ \A k \in T : k \in Nat
  OBVIOUS
<1> QED
  BY <1>3, <1>4

LEMMA EachUpTo ==
    ASSUME NEW N \in Nat, NEW Good, 0 \in Good, \A n \in 1..N : n - 1 \in Good => n \in Good
    PROVE  \A n \in 0..N : n \in Good
<1> DEFINE T == {n \in 0..N : n \notin Good}
<1>1. SUFFICES T = {}
  OBVIOUS
<1>2. SUFFICES ASSUME T # {} PROVE FALSE
  BY <1>1
<1>3. PICK n \in T : \A k \in T : n <= k
  <2>1. T \subseteq Nat
    OBVIOUS
  <2> QED
    BY <1>2, <2>1, LeastNat
<1>4. n \in 1..N /\ n - 1 \in 0..N
  OBVIOUS
<1>5. n - 1 \notin T
  BY <1>3, <1>4
<1> QED
  BY <1>4, <1>5

LEMMA StaysIn ==
    ASSUME NEW N \in Nat, NEW X, NEW f, f = [n \in 0..N |-> f[n]],
           f[0] \in X, \A n \in 1..N : f[n - 1] \in X => f[n] \in X
    PROVE  f \in [0..N -> X]
<1> DEFINE Good == {n \in 0..N : f[n] \in X}
<1>1. 0 \in Good
  OBVIOUS
<1>2. ASSUME NEW n \in 1..N, n - 1 \in Good PROVE n \in Good
  BY <1>2
<1>3. \A n \in 0..N : n \in Good
  <2> HIDE DEF Good
  <2> QED
    BY <1>1, <1>2, EachUpTo
<1> QED
  BY <1>3

\* A function that is defined by a first value and a step.
Iterates(f, N, X, first, step) ==
    f \in [0..N -> X] /\ f[0] = first /\ \A n \in 1..N : f[n] = step[<<n, f[n - 1]>>]

\* There is such a function: the provers expand CHOOSE, but must be given what is chosen.
LEMMA Iterated ==
    ASSUME NEW N \in Nat, NEW X, NEW first \in X, NEW step \in [(1..N) \X X -> X]
    PROVE  \E f : Iterates(f, N, X, first, step)
<1> DEFINE Good == {n \in 0..N : \E f \in [0..n -> X] :
                      f[0] = first /\ \A k \in 1..n : f[k] = step[<<k, f[k - 1]>>]}
<1>1. 0 \in Good
  <2> DEFINE f == [k \in 0..0 |-> first]
  <2>1. f \in [0..0 -> X] /\ f[0] = first /\ \A k \in 1..0 : f[k] = step[<<k, f[k - 1]>>]
    OBVIOUS
  <2> HIDE DEF f
  <2> QED
    BY <2>1
<1>2. ASSUME NEW n \in 1..N, n - 1 \in Good
      PROVE  n \in Good
  <2>1. PICK f \in [0..(n - 1) -> X] : f[0] = first /\ \A k \in 1..(n - 1) : f[k] = step[<<k, f[k - 1]>>]
    BY <1>2
  <2> DEFINE g == [k \in 0..n |-> IF k = n THEN step[<<n, f[n - 1]>>] ELSE f[k]]
  <2>2. n - 1 \in 0..(n - 1) /\ n \in Nat
    OBVIOUS
  <2>3. g \in [0..n -> X]
    <3>1. f[n - 1] \in X
      BY <2>2
    <3>2. <<n, f[n - 1]>> \in (1..N) \X X
      BY <3>1
    <3>3. step[<<n, f[n - 1]>>] \in X
      BY <3>2
    <3> QED
      BY <3>3
  <2>4. g[0] = first
    BY <2>1
  <2>5. ASSUME NEW k \in 1..n PROVE g[k] = step[<<k, g[k - 1]>>]
    <3>1. k - 1 \in 0..(n - 1) /\ k - 1 # n
      OBVIOUS
    <3>2. g[k - 1] = f[k - 1]
      BY <3>1
    <3>3. CASE k = n
      <4>1. n \in 0..n
        BY <2>2
      <4>2. g[n] = step[<<n, f[n - 1]>>]
        BY <4>1
      <4>3. g[n - 1] = f[n - 1]
        BY <3>2, <3>3
      <4> HIDE DEF g
      <4> QED
        BY <3>3, <4>2, <4>3
    <3>4. CASE k # n
      <4>1. k \in 1..(n - 1) /\ k \in 0..n
        BY <3>4
      <4>2. g[k] = f[k] /\ f[k] = step[<<k, f[k - 1]>>]
        BY <2>1, <3>4, <4>1
      <4> QED
        BY <3>2, <4>2
    <3> QED
      BY <3>3, <3>4
  <2> HIDE DEF g
  <2> QED
    BY <2>3, <2>4, <2>5
<1>3. N \in Good
  <2> HIDE DEF Good
  <2> QED
    BY <1>1, <1>2, EachUpTo
<1>4. PICK f \in [0..N -> X] : f[0] = first /\ \A k \in 1..N : f[k] = step[<<k, f[k - 1]>>]
  BY <1>3
<1> QED
  BY <1>4 DEF Iterates

\* The cards of a sequence that stand at some of its places, in order.
Picks(some, cards, pos, n) ==
    /\ pos \in [1..Len(some) -> 1..n]
    /\ \A m \in 1..Len(some) : some[m] = cards[pos[m]]
    /\ \A m, k \in 1..Len(some) : m < k => pos[m] < pos[k]

\* One more place can be added to those.
OneMorePick(some, cards, pos, n) ==
    \E new : /\ Picks(Append(some, cards[n]), cards, new, n)
             /\ \A m \in 1..Len(some) : new[m] = pos[m]
             /\ new[Len(some) + 1] = n

\* The next card, appended to those that are picked, is picked too.
LEMMA PickOneMore ==
    ASSUME NEW S, NEW cards \in Seq(S), NEW n \in 1..Len(cards), NEW some \in Seq(S), NEW pos,
           Picks(some, cards, pos, n - 1)
    PROVE  Picks(some, cards, pos, n) /\ OneMorePick(some, cards, pos, n)
<1> DEFINE more == Append(some, cards[n])
           new == [m \in 1..(Len(some) + 1) |-> IF m = Len(some) + 1 THEN n ELSE pos[m]]
<1>1. /\ Len(some) \in Nat /\ Len(more) = Len(some) + 1 /\ more \in Seq(S)
      /\ more[Len(some) + 1] = cards[n] /\ \A m \in 1..Len(some) : more[m] = some[m]
  OBVIOUS
<1>2. /\ pos \in [1..Len(some) -> 1..(n - 1)]
      /\ \A m \in 1..Len(some) : some[m] = cards[pos[m]]
      /\ \A m, k \in 1..Len(some) : m < k => pos[m] < pos[k]
  BY DEF Picks
<1>3. Picks(some, cards, pos, n)
  BY <1>2 DEF Picks
<1>4. /\ \A m \in 1..Len(some) : new[m] = pos[m] /\ new[m] \in 1..(n - 1)
      /\ new[Len(some) + 1] = n
  BY <1>1, <1>2
<1>5. DOMAIN new = 1..Len(more) /\ new \in [1..Len(more) -> 1..n]
  <2>1. ASSUME NEW m \in 1..(Len(some) + 1)
        PROVE  (IF m = Len(some) + 1 THEN n ELSE pos[m]) \in 1..n
    <3>1. n \in 1..n /\ 1..(n - 1) \subseteq 1..n
      OBVIOUS
    <3>2. m # Len(some) + 1 => m \in 1..Len(some)
      BY <1>1
    <3> QED
      BY <1>2, <3>1, <3>2
  <2>2. new \in [1..(Len(some) + 1) -> 1..n]
    BY <2>1
  <2> QED
    BY <1>1, <2>2
<1> HIDE DEF new, more
<1>6. \A m \in 1..Len(more) : more[m] = cards[new[m]]
  BY <1>1, <1>2, <1>4
<1>7. ASSUME NEW m \in 1..Len(more), NEW k \in 1..Len(more), m < k
      PROVE  new[m] < new[k]
  <2>1. m \in 1..Len(some) /\ (k \in 1..Len(some) \/ k = Len(some) + 1)
    BY <1>1, <1>7
  <2>2. new[m] = pos[m] /\ pos[m] \in 1..(n - 1)
    BY <1>2, <1>4, <2>1
  <2>3. CASE k \in 1..Len(some)
    BY <1>2, <1>4, <1>7, <2>1, <2>3
  <2>4. CASE k = Len(some) + 1
    BY <1>4, <2>2, <2>4
  <2> QED
    BY <2>1, <2>3, <2>4
<1>8. Picks(more, cards, new, n)
  BY <1>5, <1>6, <1>7 DEF Picks
<1> QED
  BY <1>3, <1>4, <1>8 DEF more, OneMorePick

\* The sequences that Only passes through.
OnlyRun(kept, cards, good) ==
    /\ kept[0] = <<>> /\ Only(cards, good) = kept[Len(cards)]
    /\ \A n \in 1..Len(cards) : kept[n] = IF cards[n] \in good THEN Append(kept[n - 1], cards[n]) ELSE kept[n - 1]

LEMMA OnlySteps ==
    ASSUME NEW S, NEW cards \in Seq(S), NEW good
    PROVE  \E kept : kept \in [0..Len(cards) -> Seq(S)] /\ OnlyRun(kept, cards, good)
<1> DEFINE N == Len(cards)
           X == Seq(S)
           step == [p \in (1..N) \X X |-> IF cards[p[1]] \in good THEN Append(p[2], cards[p[1]]) ELSE p[2]]
           body(g) == [n \in 0..N |-> IF n = 0 THEN <<>> ELSE IF cards[n] \in good THEN Append(g[n - 1], cards[n]) ELSE g[n - 1]]
           kept == CHOOSE g : g = body(g)
<1>1. N \in Nat /\ <<>> \in X
  OBVIOUS
<1>2. ASSUME NEW n \in 1..N, NEW x \in X
      PROVE  (IF cards[n] \in good THEN Append(x, cards[n]) ELSE x) \in X
  OBVIOUS
<1>3. step \in [(1..N) \X X -> X]
  <2>1. ASSUME NEW p \in (1..N) \X X
        PROVE  (IF cards[p[1]] \in good THEN Append(p[2], cards[p[1]]) ELSE p[2]) \in X
    <3>1. p[1] \in 1..N /\ p[2] \in X
      OBVIOUS
    <3> HIDE DEF N, X
    <3> QED
      BY <1>2, <3>1
  <2> HIDE DEF N, X
  <2> QED
    BY <2>1
<1>4. PICK f : Iterates(f, N, X, <<>>, step)
  <2> HIDE DEF N, X, step
  <2> QED
    BY <1>1, <1>3, Iterated
<1>5. f \in [0..N -> X] /\ f[0] = <<>> /\ \A n \in 1..N : f[n] = step[<<n, f[n - 1]>>]
  <2> HIDE DEF N, X, step
  <2> QED
    BY <1>4 DEF Iterates
<1>6. f = body(f)
  <2>1. ASSUME NEW n \in 1..N
        PROVE  f[n] = IF cards[n] \in good THEN Append(f[n - 1], cards[n]) ELSE f[n - 1]
    <3>1. n - 1 \in 0..N
      BY <1>1
    <3>2. <<n, f[n - 1]>> \in (1..N) \X X
      BY <1>5, <3>1
    <3>3. step[<<n, f[n - 1]>>] = IF cards[n] \in good THEN Append(f[n - 1], cards[n]) ELSE f[n - 1]
      <4> HIDE DEF N, X
      <4> QED
        BY <3>2
    <3> QED
      BY <1>5, <3>3
  <2>2. \A n \in 0..N : f[n] = IF n = 0 THEN <<>> ELSE IF cards[n] \in good THEN Append(f[n - 1], cards[n]) ELSE f[n - 1]
    <3>1. \A n \in 0..N : n = 0 \/ n \in 1..N
      BY <1>1
    <3> HIDE DEF N
    <3> QED
      BY <1>5, <2>1, <3>1
  <2>3. f = [n \in 0..N |-> f[n]]
    BY <1>5
  <2> HIDE DEF N, X
  <2> QED
    BY <2>2, <2>3
<1>7. kept = body(kept)
  <2> HIDE DEF body
  <2> QED
    BY <1>6
<1>8. Only(cards, good) = kept[N]
  BY DEF Only
<1> HIDE DEF kept
<1>9. kept[0] = <<>>
  <2>1. 0 \in 0..N
    BY <1>1
  <2> QED
    BY <1>7, <2>1
<1>10. ASSUME NEW n \in 1..N
      PROVE  kept[n] = IF cards[n] \in good THEN Append(kept[n - 1], cards[n]) ELSE kept[n - 1]
  <2>1. n \in 0..N /\ n # 0
    BY <1>1
  <2> QED
    BY <1>7, <2>1
<1>11. kept \in [0..N -> X]
  <2>1. kept = [n \in 0..N |-> kept[n]]
    <3>1. DOMAIN kept = 0..N
      BY <1>7
    <3>2. body(kept) = [n \in 0..N |-> body(kept)[n]]
      OBVIOUS
    <3> HIDE DEF body
    <3> QED
      BY <1>7, <3>2
  <2>2. kept[0] \in X /\ \A n \in 1..N : kept[n - 1] \in X => kept[n] \in X
    <3> HIDE DEF N, X
    <3> QED
      BY <1>1, <1>2, <1>9, <1>10
  <2> HIDE DEF N, X, body
  <2> QED
    BY <1>1, <2>1, <2>2, StaysIn
<1> QED
  BY <1>8, <1>9, <1>10, <1>11 DEF OnlyRun

\* The sequences that Distinct passes through.
DistinctRun(kept, cards, same) ==
    /\ kept[0] = <<>> /\ Distinct(cards, same) = kept[Len(cards)]
    /\ \A n \in 1..Len(cards) : kept[n] = IF \E k \in Range(kept[n - 1]) : <<k, cards[n]>> \in same THEN kept[n - 1] ELSE Append(kept[n - 1], cards[n])

LEMMA DistinctSteps ==
    ASSUME NEW S, NEW cards \in Seq(S), NEW same
    PROVE  \E kept : kept \in [0..Len(cards) -> Seq(S)] /\ DistinctRun(kept, cards, same)
<1> DEFINE N == Len(cards)
           X == Seq(S)
           step == [p \in (1..N) \X X |-> IF \E k \in Range(p[2]) : <<k, cards[p[1]]>> \in same THEN p[2] ELSE Append(p[2], cards[p[1]])]
           body(g) == [n \in 0..N |-> IF n = 0 THEN <<>> ELSE IF \E k \in Range(g[n - 1]) : <<k, cards[n]>> \in same THEN g[n - 1] ELSE Append(g[n - 1], cards[n])]
           kept == CHOOSE g : g = body(g)
<1>1. N \in Nat /\ <<>> \in X
  OBVIOUS
<1>2. ASSUME NEW n \in 1..N, NEW x \in X
      PROVE  (IF \E k \in Range(x) : <<k, cards[n]>> \in same THEN x ELSE Append(x, cards[n])) \in X
  OBVIOUS
<1>3. step \in [(1..N) \X X -> X]
  <2>1. ASSUME NEW p \in (1..N) \X X
        PROVE  (IF \E k \in Range(p[2]) : <<k, cards[p[1]]>> \in same THEN p[2] ELSE Append(p[2], cards[p[1]])) \in X
    <3>1. p[1] \in 1..N /\ p[2] \in X
      OBVIOUS
    <3> HIDE DEF N, X
    <3> QED
      BY <1>2, <3>1
  <2> HIDE DEF N, X
  <2> QED
    BY <2>1
<1>4. PICK f : Iterates(f, N, X, <<>>, step)
  <2> HIDE DEF N, X, step
  <2> QED
    BY <1>1, <1>3, Iterated
<1>5. f \in [0..N -> X] /\ f[0] = <<>> /\ \A n \in 1..N : f[n] = step[<<n, f[n - 1]>>]
  <2> HIDE DEF N, X, step
  <2> QED
    BY <1>4 DEF Iterates
<1>6. f = body(f)
  <2>1. ASSUME NEW n \in 1..N
        PROVE  f[n] = IF \E k \in Range(f[n - 1]) : <<k, cards[n]>> \in same THEN f[n - 1] ELSE Append(f[n - 1], cards[n])
    <3>1. n - 1 \in 0..N
      BY <1>1
    <3>2. <<n, f[n - 1]>> \in (1..N) \X X
      BY <1>5, <3>1
    <3>3. step[<<n, f[n - 1]>>] = IF \E k \in Range(f[n - 1]) : <<k, cards[n]>> \in same THEN f[n - 1] ELSE Append(f[n - 1], cards[n])
      <4> HIDE DEF N, X
      <4> QED
        BY <3>2
    <3> QED
      BY <1>5, <3>3
  <2>2. \A n \in 0..N : f[n] = IF n = 0 THEN <<>> ELSE IF \E k \in Range(f[n - 1]) : <<k, cards[n]>> \in same THEN f[n - 1] ELSE Append(f[n - 1], cards[n])
    <3>1. \A n \in 0..N : n = 0 \/ n \in 1..N
      BY <1>1
    <3> HIDE DEF N
    <3> QED
      BY <1>5, <2>1, <3>1
  <2>3. f = [n \in 0..N |-> f[n]]
    BY <1>5
  <2> HIDE DEF N, X
  <2> QED
    BY <2>2, <2>3
<1>7. kept = body(kept)
  <2> HIDE DEF body
  <2> QED
    BY <1>6
<1>8. Distinct(cards, same) = kept[N]
  BY DEF Distinct
<1> HIDE DEF kept
<1>9. kept[0] = <<>>
  <2>1. 0 \in 0..N
    BY <1>1
  <2> QED
    BY <1>7, <2>1
<1>10. ASSUME NEW n \in 1..N
      PROVE  kept[n] = IF \E k \in Range(kept[n - 1]) : <<k, cards[n]>> \in same THEN kept[n - 1] ELSE Append(kept[n - 1], cards[n])
  <2>1. n \in 0..N /\ n # 0
    BY <1>1
  <2> QED
    BY <1>7, <2>1
<1>11. kept \in [0..N -> X]
  <2>1. kept = [n \in 0..N |-> kept[n]]
    <3>1. DOMAIN kept = 0..N
      BY <1>7
    <3>2. body(kept) = [n \in 0..N |-> body(kept)[n]]
      OBVIOUS
    <3> HIDE DEF body
    <3> QED
      BY <1>7, <3>2
  <2>2. kept[0] \in X /\ \A n \in 1..N : kept[n - 1] \in X => kept[n] \in X
    <3> HIDE DEF N, X
    <3> QED
      BY <1>1, <1>2, <1>9, <1>10
  <2> HIDE DEF N, X, body
  <2> QED
    BY <1>1, <2>1, <2>2, StaysIn
<1> QED
  BY <1>8, <1>9, <1>10, <1>11 DEF DistinctRun

\* What a sequence holds stands at one of its places.
LEMMA RangeFacts ==
    ASSUME NEW S, NEW s \in Seq(S)
    PROVE  /\ Range(s) \subseteq S /\ Len(s) \in Nat /\ DOMAIN s = 1..Len(s)
           /\ \A c : c \in Range(s) <=> \E i \in 1..Len(s) : c = s[i]
           /\ \A i \in 1..Len(s) : s[i] \in Range(s) /\ s[i] \in S
BY DEF Range

\* Of the first n cards, `some` are those that are good.
OnlyUpTo(cards, good, some, n) ==
    /\ Len(some) <= n /\ (Len(some) = n => \A i \in 1..n : cards[i] \in good)
    /\ \E pos : /\ Picks(some, cards, pos, n)
                /\ \A i \in 1..n : cards[i] \in good <=> \E m \in 1..Len(some) : pos[m] = i

LEMMA OnlyStep ==
    ASSUME NEW S, NEW cards \in Seq(S), NEW good, NEW n \in 1..Len(cards), NEW some \in Seq(S),
           OnlyUpTo(cards, good, some, n - 1)
    PROVE  OnlyUpTo(cards, good, IF cards[n] \in good THEN Append(some, cards[n]) ELSE some, n)
<1>1. /\ Len(some) \in Nat /\ n \in Nat /\ Len(some) <= n - 1
      /\ Len(some) = n - 1 => \A i \in 1..(n - 1) : cards[i] \in good
  BY DEF OnlyUpTo
<1>2. PICK pos : /\ Picks(some, cards, pos, n - 1)
                 /\ \A i \in 1..(n - 1) : cards[i] \in good <=> \E m \in 1..Len(some) : pos[m] = i
  BY DEF OnlyUpTo
<1>3. \A m \in 1..Len(some) : pos[m] \in 1..(n - 1)
  BY <1>2 DEF Picks
<1>4. CASE cards[n] \in good
  <2> DEFINE more == Append(some, cards[n])
  <2>1. PICK new : /\ Picks(more, cards, new, n)
                   /\ \A m \in 1..Len(some) : new[m] = pos[m]
                   /\ new[Len(some) + 1] = n
    <3>1. OneMorePick(some, cards, pos, n)
      BY <1>2, PickOneMore
    <3> QED
      BY <3>1, Zenon DEF OneMorePick
  <2>2. Len(more) = Len(some) + 1
    OBVIOUS
  <2> HIDE DEF more
  <2>3. Len(more) <= n /\ (Len(more) = n => \A i \in 1..n : cards[i] \in good)
    BY <1>1, <1>4, <2>2
  <2>4. ASSUME NEW i \in 1..n
        PROVE  cards[i] \in good <=> \E m \in 1..Len(more) : new[m] = i
    <3>1. CASE i = n
      BY <1>1, <1>4, <2>1, <2>2, <3>1
    <3>2. CASE i \in 1..(n - 1)
      <4>1. cards[i] \in good <=> \E m \in 1..Len(some) : pos[m] = i
        BY <1>2, <3>2
      <4>2. i # n
        BY <3>2
      <4>3. \A m \in 1..Len(more) : m \in 1..Len(some) \/ m = Len(some) + 1
        BY <1>1, <2>2
      <4>4. \A m \in 1..Len(some) : m \in 1..Len(more)
        BY <1>1, <2>2
      <4> QED
        BY <2>1, <4>1, <4>2, <4>3, <4>4
    <3> QED
      BY <1>1, <3>1, <3>2
  <2> QED
    BY <1>4, <2>1, <2>3, <2>4 DEF OnlyUpTo, more
<1>5. CASE cards[n] \notin good
  <2>1. Picks(some, cards, pos, n)
    BY <1>2, PickOneMore
  <2>2. Len(some) <= n /\ Len(some) # n
    BY <1>1
  <2>3. ASSUME NEW i \in 1..n
        PROVE  cards[i] \in good <=> \E m \in 1..Len(some) : pos[m] = i
    <3>1. CASE i = n
      <4>1. \A m \in 1..Len(some) : pos[m] # n
        BY <1>1, <1>3
      <4> QED
        BY <1>5, <3>1, <4>1
    <3>2. CASE i \in 1..(n - 1)
      BY <1>2, <3>2
    <3> QED
      BY <1>1, <3>1, <3>2
  <2> QED
    BY <1>5, <2>1, <2>2, <2>3 DEF OnlyUpTo
<1> QED
  BY <1>4, <1>5

\* Only keeps the cards of the set, all of them, in their order.
LEMMA OnlyFacts ==
    ASSUME NEW S, NEW cards \in Seq(S), NEW good
    PROVE  Only(cards, good) \in Seq(S) /\ OnlyUpTo(cards, good, Only(cards, good), Len(cards))
<1>1. PICK kept : kept \in [0..Len(cards) -> Seq(S)] /\ OnlyRun(kept, cards, good)
  BY OnlySteps
<1> DEFINE N == Len(cards)
<1>2. N \in Nat
  OBVIOUS
<1>6. /\ kept \in [0..N -> Seq(S)] /\ kept[0] = <<>> /\ Only(cards, good) = kept[N]
      /\ \A n \in 1..N : kept[n] = IF cards[n] \in good THEN Append(kept[n - 1], cards[n])
                                    ELSE kept[n - 1]
  BY <1>1, Zenon DEF OnlyRun
<1> DEFINE Good == {n \in 0..N : OnlyUpTo(cards, good, kept[n], n)}
<1>3. 0 \in Good
  <2>1. Picks(<<>>, cards, <<>>, 0)
    BY DEF Picks
  <2>2. OnlyUpTo(cards, good, <<>>, 0)
    BY <2>1 DEF OnlyUpTo
  <2> QED
    BY <1>6, <1>2, <2>2
<1>4. ASSUME NEW n \in 1..N, n - 1 \in Good
      PROVE  n \in Good
  <2>1. n - 1 \in 0..N /\ n \in 0..N /\ kept[n - 1] \in Seq(S) /\ OnlyUpTo(cards, good, kept[n - 1], n - 1)
    BY <1>6, <1>4
  <2>2. OnlyUpTo(cards, good, IF cards[n] \in good THEN Append(kept[n - 1], cards[n]) ELSE kept[n - 1], n)
    BY <2>1, OnlyStep
  <2> QED
    BY <1>6, <2>1, <2>2
<1>5. N \in Good
  <2>1. N \in 0..N
    BY <1>2
  <2> HIDE DEF Good, N
  <2> QED
    BY <1>2, <1>3, <1>4, <2>1, EachUpTo
<1> QED
  BY <1>6, <1>2, <1>5

\* The cards that are left, as a set, and how many they are.
LEMMA OnlyThose ==
    ASSUME NEW S, NEW cards \in Seq(S), NEW good
    PROVE  /\ Only(cards, good) \in Seq(S)
           /\ \A c : c \in Range(Only(cards, good)) <=> c \in Range(cards) /\ c \in good
           /\ Len(Only(cards, good)) <= Len(cards)
           /\ \A c \in Range(cards) : c \notin good => Len(Only(cards, good)) < Len(cards)
<1> DEFINE some == Only(cards, good)
           N == Len(cards)
<1>1. some \in Seq(S) /\ OnlyUpTo(cards, good, some, N)
  BY OnlyFacts
<1> HIDE DEF some
<1>2. /\ Len(some) \in Nat /\ N \in Nat /\ Len(some) <= N
      /\ Len(some) = N => \A i \in 1..N : cards[i] \in good
  BY <1>1 DEF OnlyUpTo
<1>3. PICK pos : /\ Picks(some, cards, pos, N)
                 /\ \A i \in 1..N : cards[i] \in good <=> \E m \in 1..Len(some) : pos[m] = i
  BY <1>1 DEF OnlyUpTo
<1>4. \A m \in 1..Len(some) : pos[m] \in 1..N /\ some[m] = cards[pos[m]]
  BY <1>3 DEF Picks
<1> HIDE DEF N
<1>5. ASSUME NEW c
      PROVE  c \in Range(some) <=> c \in Range(cards) /\ c \in good
  <2>1. ASSUME c \in Range(some) PROVE c \in Range(cards) /\ c \in good
    <3>1. PICK m \in 1..Len(some) : c = some[m]
      BY <1>1, <2>1, RangeFacts
    <3>2. c = cards[pos[m]] /\ pos[m] \in 1..N /\ cards[pos[m]] \in good
      BY <1>3, <1>4, <3>1
    <3> QED
      BY <3>2, RangeFacts DEF N
  <2>2. ASSUME c \in Range(cards), c \in good PROVE c \in Range(some)
    <3>1. PICK i \in 1..N : c = cards[i]
      BY <2>2, RangeFacts DEF N
    <3>2. PICK m \in 1..Len(some) : pos[m] = i
      BY <1>3, <2>2, <3>1
    <3>3. c = some[m]
      BY <1>4, <3>1, <3>2
    <3> QED
      BY <1>1, <3>3, RangeFacts
  <2> QED
    BY <2>1, <2>2
<1>6. ASSUME NEW c \in Range(cards), c \notin good
      PROVE  Len(some) < N
  <2>1. PICK i \in 1..N : c = cards[i]
    BY RangeFacts DEF N
  <2> QED
    BY <1>2, <1>6, <2>1
<1> QED
  BY <1>1, <1>2, <1>5, <1>6 DEF some, N

\* Every one of the first n cards is among `some`, or a card before it that is related to it.
DistinctUpTo(cards, same, some, n) ==
    \E pos : /\ Picks(some, cards, pos, n)
             /\ \A i \in 1..n : \E m \in 1..Len(some) :
                  pos[m] = i \/ (pos[m] < i /\ <<some[m], cards[i]>> \in same)

LEMMA DistinctStep ==
    ASSUME NEW S, NEW cards \in Seq(S), NEW same, NEW n \in 1..Len(cards), NEW some \in Seq(S),
           DistinctUpTo(cards, same, some, n - 1)
    PROVE  DistinctUpTo(cards, same, IF \E k \in Range(some) : <<k, cards[n]>> \in same THEN some
                                     ELSE Append(some, cards[n]), n)
<1>1. PICK pos : /\ Picks(some, cards, pos, n - 1)
                 /\ \A i \in 1..(n - 1) : \E m \in 1..Len(some) :
                      pos[m] = i \/ (pos[m] < i /\ <<some[m], cards[i]>> \in same)
  BY DEF DistinctUpTo
<1>2. Len(some) \in Nat /\ n \in Nat /\ \A m \in 1..Len(some) : pos[m] \in 1..(n - 1)
  <2>1. Len(some) \in Nat /\ Len(cards) \in Nat
    OBVIOUS
  <2>2. n \in Nat
    BY <2>1
  <2>3. pos \in [1..Len(some) -> 1..(n - 1)]
    BY <1>1 DEF Picks
  <2> QED
    BY <2>1, <2>2, <2>3
<1>5. ASSUME NEW i \in 1..n PROVE i = n \/ i \in 1..(n - 1)
  BY <1>2
<1>3. CASE \E k \in Range(some) : <<k, cards[n]>> \in same
  <2>1. PICK k \in 1..Len(some) : <<some[k], cards[n]>> \in same
    BY <1>3, RangeFacts
  <2>2. Picks(some, cards, pos, n)
    <3>1. Picks(some, cards, pos, n - 1)
      BY <1>1
    <3> QED
      BY <3>1, PickOneMore
  <2>3. ASSUME NEW i \in 1..n
        PROVE  \E m \in 1..Len(some) : pos[m] = i \/ (pos[m] < i /\ <<some[m], cards[i]>> \in same)
    <3>1. CASE i = n
      <4>1. pos[k] < n
        BY <1>2
      <4> QED
        BY <2>1, <3>1, <4>1
    <3>2. CASE i \in 1..(n - 1)
      BY <1>1, <3>2
    <3> QED
      BY <1>5, <3>1, <3>2
  <2> QED
    BY <1>3, <2>2, <2>3 DEF DistinctUpTo
<1>4. CASE ~ \E k \in Range(some) : <<k, cards[n]>> \in same
  <2> DEFINE more == Append(some, cards[n])
  <2>1. PICK new : /\ Picks(more, cards, new, n)
                   /\ \A m \in 1..Len(some) : new[m] = pos[m]
                   /\ new[Len(some) + 1] = n
    <3>1. Picks(some, cards, pos, n - 1)
      BY <1>1
    <3>2. OneMorePick(some, cards, pos, n)
      BY <3>1, PickOneMore
    <3> QED
      BY <3>2, Zenon DEF OneMorePick
  <2>2. Len(more) = Len(some) + 1 /\ \A m \in 1..Len(some) : more[m] = some[m]
    OBVIOUS
  <2>3. Len(some) + 1 \in 1..Len(more) /\ \A m \in 1..Len(some) : m \in 1..Len(more)
    BY <1>2, <2>2
  <2> HIDE DEF more
  <2>4. ASSUME NEW i \in 1..n
        PROVE  \E m \in 1..Len(more) : new[m] = i \/ (new[m] < i /\ <<more[m], cards[i]>> \in same)
    <3>1. CASE i = n
      BY <2>1, <2>3, <3>1
    <3>2. CASE i \in 1..(n - 1)
      <4>1. PICK m \in 1..Len(some) : pos[m] = i \/ (pos[m] < i /\ <<some[m], cards[i]>> \in same)
        BY <1>1, <3>2
      <4>2. new[m] = pos[m] /\ more[m] = some[m] /\ m \in 1..Len(more)
        BY <2>1, <2>2, <2>3
      <4> QED
        BY <4>1, <4>2
    <3> QED
      BY <1>5, <3>1, <3>2
  <2>5. DistinctUpTo(cards, same, more, n)
    BY <2>1, <2>4 DEF DistinctUpTo
  <2> QED
    BY <1>4, <2>5 DEF more
<1> QED
  BY <1>3, <1>4

\* Distinct keeps cards in order, and of each card itself or an earlier one it is related to.
LEMMA DistinctFacts ==
    ASSUME NEW S, NEW cards \in Seq(S), NEW same
    PROVE  /\ Distinct(cards, same) \in Seq(S)
           /\ DistinctUpTo(cards, same, Distinct(cards, same), Len(cards))
<1>1. PICK kept : kept \in [0..Len(cards) -> Seq(S)] /\ DistinctRun(kept, cards, same)
  BY DistinctSteps
<1> DEFINE N == Len(cards)
<1>2. N \in Nat
  OBVIOUS
<1>6. /\ kept \in [0..N -> Seq(S)] /\ kept[0] = <<>> /\ Distinct(cards, same) = kept[N]
      /\ \A n \in 1..N : kept[n] = IF \E k \in Range(kept[n - 1]) : <<k, cards[n]>> \in same
                                    THEN kept[n - 1] ELSE Append(kept[n - 1], cards[n])
  BY <1>1, Zenon DEF DistinctRun
<1> DEFINE Good == {n \in 0..N : DistinctUpTo(cards, same, kept[n], n)}
<1>3. 0 \in Good
  <2>1. Picks(<<>>, cards, <<>>, 0)
    BY DEF Picks
  <2>2. DistinctUpTo(cards, same, <<>>, 0)
    BY <2>1 DEF DistinctUpTo
  <2> QED
    BY <1>6, <1>2, <2>2
<1>4. ASSUME NEW n \in 1..N, n - 1 \in Good
      PROVE  n \in Good
  <2>1. /\ n - 1 \in 0..N /\ n \in 0..N /\ kept[n - 1] \in Seq(S)
        /\ DistinctUpTo(cards, same, kept[n - 1], n - 1)
    BY <1>6, <1>4
  <2>2. DistinctUpTo(cards, same, IF \E k \in Range(kept[n - 1]) : <<k, cards[n]>> \in same
                                  THEN kept[n - 1] ELSE Append(kept[n - 1], cards[n]), n)
    BY <2>1, DistinctStep
  <2> QED
    BY <1>6, <2>1, <2>2
<1>5. N \in Good
  <2>1. N \in 0..N
    BY <1>2
  <2> HIDE DEF Good, N
  <2> QED
    BY <1>2, <1>3, <1>4, <2>1, EachUpTo
<1> QED
  BY <1>6, <1>2, <1>5

\* The cards that are left, and why a card is not.
LEMMA DistinctThose ==
    ASSUME NEW S, NEW cards \in Seq(S), NEW same
    PROVE  /\ Distinct(cards, same) \in Seq(S)
           /\ Range(Distinct(cards, same)) \subseteq Range(cards)
           /\ \A c \in Range(cards) : \/ c \in Range(Distinct(cards, same))
                                      \/ \E k \in Range(Distinct(cards, same)) : <<k, c>> \in same
<1> DEFINE some == Distinct(cards, same)
           N == Len(cards)
<1>1. some \in Seq(S) /\ DistinctUpTo(cards, same, some, N)
  BY DistinctFacts
<1> HIDE DEF some
<1>2. PICK pos : /\ Picks(some, cards, pos, N)
                 /\ \A i \in 1..N : \E m \in 1..Len(some) :
                      pos[m] = i \/ (pos[m] < i /\ <<some[m], cards[i]>> \in same)
  BY <1>1 DEF DistinctUpTo
<1>3. \A m \in 1..Len(some) : pos[m] \in 1..N /\ some[m] = cards[pos[m]]
  BY <1>2 DEF Picks
<1>4. ASSUME NEW c \in Range(some) PROVE c \in Range(cards)
  BY <1>1, <1>3, RangeFacts
<1>5. ASSUME NEW c \in Range(cards) PROVE c \in Range(some) \/ \E k \in Range(some) : <<k, c>> \in same
  <2>1. PICK i \in 1..N : c = cards[i]
    BY RangeFacts
  <2>2. PICK m \in 1..Len(some) : pos[m] = i \/ (pos[m] < i /\ <<some[m], cards[i]>> \in same)
    BY <1>2, <2>1
  <2>3. some[m] \in Range(some)
    BY <1>1, RangeFacts
  <2>4. some[m] = cards[pos[m]]
    BY <1>3
  <2> QED
    BY <2>1, <2>2, <2>3, <2>4
<1> QED
  BY <1>1, <1>4, <1>5 DEF some

LEMMA PickedRanked ==
    ASSUME NEW S, NEW cards \in Seq(S), NEW some \in Seq(S), NEW pos,
           Picks(some, cards, pos, Len(cards)), Ranked(cards)
    PROVE  Ranked(some)
<1>1. /\ \A m \in 1..Len(some) : pos[m] \in 1..Len(cards) /\ some[m] = cards[pos[m]]
      /\ \A m, k \in 1..Len(some) : m < k => pos[m] < pos[k]
      /\ DOMAIN some = 1..Len(some) /\ DOMAIN cards = 1..Len(cards)
      /\ Len(some) \in Nat /\ Len(cards) \in Nat
  BY DEF Picks
<1>2. ASSUME NEW i \in 1..Len(some), NEW j \in 1..Len(some), i <= j
      PROVE  some[j].score <= some[i].score
  <2>1. pos[i] <= pos[j]
    BY <1>1, <1>2
  <2>2. cards[pos[j]].score <= cards[pos[i]].score
    BY <1>1, <2>1 DEF Ranked
  <2> QED
    BY <1>1, <2>2
<1> QED
  BY <1>1, <1>2 DEF Ranked

\* What Only and Distinct leave of ranked cards is ranked.
LEMMA StillRanked ==
    ASSUME NEW S, NEW cards \in Seq(S), NEW good, NEW same, Ranked(cards)
    PROVE  Ranked(Only(cards, good)) /\ Ranked(Distinct(cards, same))
<1>1. Ranked(Only(cards, good))
  <2>1. Only(cards, good) \in Seq(S) /\ OnlyUpTo(cards, good, Only(cards, good), Len(cards))
    BY OnlyFacts
  <2>2. PICK pos : Picks(Only(cards, good), cards, pos, Len(cards))
    BY <2>1 DEF OnlyUpTo
  <2> QED
    BY <2>1, <2>2, PickedRanked
<1>2. Ranked(Distinct(cards, same))
  <2>1. /\ Distinct(cards, same) \in Seq(S)
        /\ DistinctUpTo(cards, same, Distinct(cards, same), Len(cards))
    BY DistinctFacts
  <2>2. PICK pos : Picks(Distinct(cards, same), cards, pos, Len(cards))
    BY <2>1 DEF DistinctUpTo
  <2> QED
    BY <2>1, <2>2, PickedRanked
<1> QED
  BY <1>1, <1>2

\* R relates any two elements of S one way, and the same way along a chain.
Linear(S, R) ==
    /\ \A x, y \in S : <<x, y>> \in R \/ <<y, x>> \in R
    /\ \A x, y \in S : <<x, y>> \in R /\ <<y, x>> \in R => x = y
    /\ \A x, y, z \in S : <<x, y>> \in R /\ <<y, z>> \in R => <<x, z>> \in R

\* All of S, each once, in the order R.
Sorted(s, S, R) ==
    /\ s \in [1..Cardinality(S) -> S] /\ Cardinality(S) \in Nat
    /\ \A x \in S : \E n \in 1..Cardinality(S) : s[n] = x
    /\ \A i, j \in 1..Cardinality(S) : i <= j => <<s[i], s[j]>> \in R

\* InOrder lists the set, each member once, in its order: members have different numbers of
\* predecessors, as many as there are members, so each number is taken.
LEMMA InOrderFacts ==
    ASSUME NEW S, IsFiniteSet(S), NEW R, Linear(S, R)
    PROVE  Sorted(InOrder(S, R), S, R)
<1> DEFINE N == Cardinality(S)
           upto(x) == {y \in S : <<y, x>> \in R}
           rank == [x \in S |-> Cardinality(upto(x))]
           s == InOrder(S, R)
<1>1. N \in Nat /\ \A T \in SUBSET S : IsFiniteSet(T) /\ Cardinality(T) \in Nat /\ Cardinality(T) <= N
  BY FS_CardinalityType, FS_Subset
<1>2. ASSUME NEW x \in S
      PROVE  rank[x] \in 1..N
  <2>1. upto(x) \in SUBSET S /\ x \in upto(x)
    BY DEF Linear
  <2>2. Cardinality(upto(x)) # 0
    <3> HIDE DEF upto
    <3> QED
      BY <1>1, <2>1, FS_EmptySet
  <2>3. Cardinality(upto(x)) \in Nat /\ Cardinality(upto(x)) <= N
    BY <1>1, <2>1
  <2> HIDE DEF N, upto
  <2> QED
    BY <1>1, <2>2, <2>3
<1>3. ASSUME NEW x \in S, NEW y \in S, x # y, <<x, y>> \in R
      PROVE  rank[x] < rank[y]
  <2>1. upto(x) \subseteq upto(y) /\ y \in upto(y) /\ y \notin upto(x) /\ upto(y) \in SUBSET S
    BY <1>3 DEF Linear
  <2>2. IsFiniteSet(upto(y)) /\ Cardinality(upto(y)) \in Nat /\ Cardinality(upto(x)) \in Nat
    BY <1>1, <2>1
  <2>3. Cardinality(upto(x)) <= Cardinality(upto(y)) /\ Cardinality(upto(x)) # Cardinality(upto(y))
    <3> HIDE DEF upto
    <3>1. upto(x) \in SUBSET upto(y)
      BY <2>1
    <3> QED
      BY <2>1, <2>2, <3>1, FS_Subset
  <2> HIDE DEF upto
  <2> QED
    BY <2>2, <2>3
<1>4. \A n \in 1..N : \E x \in S : rank[x] = n
  <2>1. rank \in [S -> 1..N]
    BY <1>2
  <2>2. ASSUME NEW x \in S, NEW y \in S, rank[x] = rank[y]
        PROVE  x = y
    <3>1. rank[x] \in Nat
      BY <1>1, <1>2
    <3>2. <<x, y>> \in R \/ <<y, x>> \in R
      BY DEF Linear
    <3> HIDE DEF rank
    <3> QED
      BY <1>3, <2>2, <3>1, <3>2
  <2> HIDE DEF rank
  <2>3. rank \in Injection(S, 1..N)
    BY <2>1, <2>2 DEF Injection, IsInjective
  <2>4. IsFiniteSet(1..N) /\ Cardinality(1..N) = N
    <3> HIDE DEF N
    <3> QED
      BY <1>1, FS_Interval
  <2>5. rank \in Surjection(S, 1..N)
    BY <2>3, <2>4, FS_Injection
  <2> QED
    BY <2>5 DEF Surjection
<1>5. ASSUME NEW n \in 1..N
      PROVE  s[n] \in S /\ rank[s[n]] = n
  <2>1. s[n] = CHOOSE x \in S : Cardinality(upto(x)) = n
    BY DEF InOrder
  <2>2. \E x \in S : Cardinality(upto(x)) = n
    BY <1>4
  <2>3. s[n] \in S /\ Cardinality(upto(s[n])) = n
    <3> HIDE DEF upto, s
    <3> QED
      BY <2>1, <2>2
  <2> QED
    BY <2>3
<1>6. s \in [1..N -> S]
  <2> DEFINE pick(n) == CHOOSE x \in S : Cardinality(upto(x)) = n
  <2>2. s = [n \in 1..N |-> pick(n)]
    BY DEF InOrder
  <2>1. s = [n \in 1..N |-> s[n]]
    <3> HIDE DEF pick, s, N
    <3> QED
      BY <2>2
  <2> HIDE DEF s, N, rank
  <2> QED
    BY <1>5, <2>1
<1> HIDE DEF s, rank
<1>7. ASSUME NEW x \in S
      PROVE  \E n \in 1..N : s[n] = x
  <2>1. rank[x] \in 1..N
    BY <1>2
  <2>2. s[rank[x]] \in S /\ rank[s[rank[x]]] = rank[x]
    BY <1>5, <2>1
  <2>3. s[rank[x]] = x
    <3> DEFINE y == s[rank[x]]
    <3>1. <<x, y>> \in R \/ <<y, x>> \in R
      BY <2>2 DEF Linear
    <3>2. rank[y] = rank[x] /\ rank[x] \in Nat /\ y \in S
      BY <1>1, <2>1, <2>2
    <3> HIDE DEF y
    <3>3. y = x
      BY <1>3, <3>1, <3>2
    <3> QED
      BY <3>3 DEF y
  <2> QED
    BY <2>1, <2>3
<1>8. ASSUME NEW i \in 1..N, NEW j \in 1..N, i <= j
      PROVE  <<s[i], s[j]>> \in R
  <2>1. SUFFICES ASSUME <<s[i], s[j]>> \notin R PROVE FALSE
    OBVIOUS
  <2>2. s[i] \in S /\ s[j] \in S /\ rank[s[i]] = i /\ rank[s[j]] = j
    BY <1>5
  <2>3. <<s[j], s[i]>> \in R /\ s[i] # s[j]
    BY <2>1, <2>2 DEF Linear
  <2>4. rank[s[j]] < rank[s[i]]
    BY <1>3, <2>2, <2>3
  <2> QED
    BY <1>1, <1>8, <2>2, <2>4
<1> QED
  BY <1>1, <1>6, <1>7, <1>8 DEF Sorted, s

------------------------------------------------------------------------------
(* From the cards to what a search says.                                   *)

\* Sorting loses no card and adds none.
LEMMA ByDistanceFacts ==
    ASSUME NEW S, NEW cards \in Seq(S), NEW q, q.anchor \in Int, \A c \in Range(cards) : c.point \in Int
    PROVE  /\ ByDistance(q, cards) \in Seq(S) /\ Len(ByDistance(q, cards)) = Len(cards)
           /\ Range(ByDistance(q, cards)) = Range(cards)
<1> DEFINE D == DOMAIN cards
           far(i) == Distance(q.anchor, cards[i].point)
           nearer(i, j) == far(i) < far(j) \/ (far(i) = far(j) /\ i <= j)
           R == {p \in D \X D : nearer(p[1], p[2])}
           order == InOrder(D, R)
<1>1. D = 1..Len(cards) /\ Len(cards) \in Nat
  OBVIOUS
<1>2. \A i \in D : far(i) \in Int
  <2>1. ASSUME NEW i \in D PROVE cards[i].point \in Int
    BY RangeFacts
  <2> QED
    BY <2>1 DEF Distance
<1>3. ASSUME Near(q)
      PROVE  Sorted(order, D, R)
  <2>1. IsFiniteSet(D)
    BY <1>1, FS_Interval
  <2> HIDE DEF D, far
  <2>6. \A i, j \in D : <<i, j>> \in R <=> nearer(i, j)
    OBVIOUS
  <2>7. \A i, j \in D : i \in Nat /\ j \in Nat /\ far(i) \in Int /\ far(j) \in Int
    BY <1>1, <1>2
  <2> HIDE DEF R
  <2>2. ASSUME NEW i \in D, NEW j \in D PROVE <<i, j>> \in R \/ <<j, i>> \in R
    BY <2>6, <2>7
  <2>3. ASSUME NEW i \in D, NEW j \in D, <<i, j>> \in R, <<j, i>> \in R PROVE i = j
    <3>1. nearer(i, j) /\ nearer(j, i)
      BY <2>3, <2>6
    <3> QED
      BY <2>7, <3>1
  <2>4. ASSUME NEW i \in D, NEW j \in D, NEW k \in D, <<i, j>> \in R, <<j, k>> \in R PROVE <<i, k>> \in R
    <3>1. nearer(i, j) /\ nearer(j, k)
      BY <2>4, <2>6
    <3>2. nearer(i, k)
      BY <2>7, <3>1
    <3> QED
      BY <2>6, <3>2
  <2>5. Linear(D, R)
    BY <2>2, <2>3, <2>4 DEF Linear
  <2> QED
    BY <2>1, <2>5, InOrderFacts
<1>4. CASE ~ Near(q)
  BY <1>4 DEF ByDistance
<1>5. CASE Near(q)
  <2> DEFINE s == [i \in D |-> cards[order[i]]]
  <2>1. ByDistance(q, cards) = s
    BY <1>5 DEF ByDistance
  <2>2. Cardinality(D) = Len(cards)
    <3> DEFINE n == Len(cards)
    <3>1. n \in Nat /\ D = 1..n
      BY <1>1
    <3> HIDE DEF n, D
    <3>2. Cardinality(1..n) = IF 1 > n THEN 0 ELSE n - 1 + 1
      BY <3>1, FS_Interval
    <3>3. Cardinality(D) = n
      BY <3>1, <3>2
    <3> QED
      BY <3>3 DEF n
  <2>3. order \in [D -> D] /\ \A x \in D : \E n \in D : order[n] = x
    BY <1>1, <1>3, <1>5, <2>2 DEF Sorted
  <2> HIDE DEF order, R
  <2>4. \A i \in D : s[i] = cards[order[i]] /\ order[i] \in D
    BY <2>3
  <2>5. s \in Seq(S) /\ Len(s) = Len(cards) /\ DOMAIN s = D
    <3>1. \A i \in D : cards[order[i]] \in S
      BY <1>1, <2>4, RangeFacts
    <3> QED
      BY <1>1, <3>1
  <2> HIDE DEF s
  <2>6. ASSUME NEW c PROVE c \in Range(s) <=> c \in Range(cards)
    <3>1. c \in Range(s) <=> \E i \in D : c = s[i]
      BY <2>5 DEF Range
    <3>2. c \in Range(cards) <=> \E i \in D : c = cards[i]
      BY DEF Range
    <3> HIDE DEF D
    <3> QED
      BY <2>3, <2>4, <3>1, <3>2
  <2> QED
    BY <2>1, <2>5, <2>6
<1> QED
  BY <1>4, <1>5

\* What the cut leaves, and what it means that a card is not left.
LEMMA CutFacts ==
    ASSUME NEW S, NEW cards \in Seq(S), NEW q, q.limit \in Nat
    PROVE  /\ Cut(q, cards) \in Seq(S) /\ Range(Cut(q, cards)) \subseteq Range(cards)
           /\ \A c \in Range(cards) : \/ c \in Range(Cut(q, cards))
                                      \/ Len(Cut(q, cards)) = q.limit /\ Len(cards) > q.limit /\ cards # <<>>
<1> DEFINE n == IF Len(cards) < q.limit THEN Len(cards) ELSE q.limit
           s == SubSeq(cards, 1, n)
<1>1. n \in Nat /\ n <= Len(cards) /\ Len(cards) \in Nat
  OBVIOUS
<1>2. s \in Seq(S) /\ Len(s) = n /\ \A i \in 1..n : s[i] = cards[i]
  <2> HIDE DEF n
  <2> QED
    BY <1>1
<1>3. Cut(q, cards) = s
  BY DEF Cut
<1> HIDE DEF s
<1>4. ASSUME NEW c \in Range(s) PROVE c \in Range(cards)
  <2>1. PICK i \in 1..Len(s) : c = s[i]
    BY <1>2, RangeFacts
  <2>2. i \in 1..Len(cards) /\ s[i] = cards[i]
    BY <1>1, <1>2
  <2> QED
    BY <2>1, <2>2, RangeFacts
<1>5. ASSUME NEW c \in Range(cards)
      PROVE  c \in Range(s) \/ (Len(s) = q.limit /\ Len(cards) > q.limit /\ cards # <<>>)
  <2>1. PICK i \in 1..Len(cards) : c = cards[i]
    BY RangeFacts
  <2>2. CASE i <= n
    <3>1. i \in 1..Len(s) /\ s[i] = c
      BY <1>1, <1>2, <2>1, <2>2
    <3> QED
      BY <1>2, <3>1, RangeFacts
  <2>3. CASE ~ (i <= n)
    <3>1. n = q.limit /\ Len(cards) > n /\ Len(cards) # 0
      BY <1>1, <2>3
    <3> QED
      BY <1>2, <3>1
  <2> QED
    BY <2>2, <2>3
<1> QED
  BY <1>2, <1>3, <1>4, <1>5

\* Min, which is a CHOOSE, of a set of places.
LEMMA LeastIsIn ==
    ASSUME NEW T, T \subseteq Nat, T # {}
    PROVE  Min(T) \in T /\ \A k \in T : Min(T) <= k
<1>1. \E n \in T : \A k \in T : n <= k
  BY LeastNat
<1>2. Min(T) = CHOOSE n \in T : \A k \in T : n <= k
  BY DEF Min
<1> QED
  BY <1>1, <1>2

\* What becomes of the cards that are kept when c comes: it is added, it replaces one that tells
\* less, or one stands for it.
PlacedAs(new, kept, c) ==
    \/ /\ Range(new) = Range(kept) \cup {c}
       /\ \A k \in Range(kept) : ~MatchesSameProviderPlace(k, c)
    \/ \E k \in Range(kept) :
         /\ MatchesSameProviderPlace(k, c) /\ c.rich > k.rich /\ c \in Range(new)
         /\ Range(new) \subseteq Range(kept) \cup {c} /\ Range(kept) \ {k} \subseteq Range(new)
    \/ /\ Range(new) = Range(kept)
       /\ \E k \in Range(kept) : MatchesSameProviderPlace(k, c) /\ ~(c.rich > k.rich)

\* A card is appended, or takes the place of a poorer one, or is dropped for one at least as rich.
LEMMA PlacedFacts ==
    ASSUME NEW S, NEW kept \in Seq(S), NEW c \in S
    PROVE  Placed(kept, c) \in Seq(S) /\ PlacedAs(Placed(kept, c), kept, c)
<1> DEFINE same == {i \in DOMAIN kept : MatchesSameProviderPlace(kept[i], c)}
           i == Min(same)
           new == [kept EXCEPT ![i] = c]
<1>1. DOMAIN kept = 1..Len(kept) /\ Len(kept) \in Nat
  OBVIOUS
<1>2. CASE same = {}
  <2>1. Placed(kept, c) = Append(kept, c)
    BY <1>2 DEF Placed
  <2> DEFINE more == Append(kept, c)
  <2>2. /\ more \in Seq(S) /\ Len(more) = Len(kept) + 1 /\ more[Len(kept) + 1] = c
        /\ \A j \in 1..Len(kept) : more[j] = kept[j]
    OBVIOUS
  <2> HIDE DEF more
  <2>3. ASSUME NEW k PROVE k \in Range(more) <=> k \in Range(kept) \cup {c}
    <3>1. k \in Range(more) <=> \E j \in 1..Len(more) : k = more[j]
      BY <2>2, RangeFacts
    <3>2. k \in Range(kept) <=> \E j \in 1..Len(kept) : k = kept[j]
      BY RangeFacts
    <3>3. \A j : j \in 1..Len(more) <=> (j \in 1..Len(kept) \/ j = Len(kept) + 1)
      BY <1>1, <2>2
    <3> QED
      BY <2>2, <3>1, <3>2, <3>3
  <2>4. \A k \in Range(kept) : ~MatchesSameProviderPlace(k, c)
    BY <1>1, <1>2, RangeFacts
  <2>5. Range(more) = Range(kept) \cup {c}
    BY <2>3
  <2> QED
    BY <2>1, <2>2, <2>4, <2>5 DEF PlacedAs, more
<1>3. CASE same # {}
  <2>1. i \in 1..Len(kept) /\ MatchesSameProviderPlace(kept[i], c)
    <3>1. same \subseteq Nat
      BY <1>1
    <3>2. i \in same
      <4> HIDE DEF same
      <4> QED
        BY <1>3, <3>1, LeastIsIn
    <3> HIDE DEF i
    <3> QED
      BY <1>1, <3>2
  <2>2. Placed(kept, c) = IF c.rich > kept[i].rich THEN new ELSE kept
    <3>1. Placed(kept, c) = IF same = {} THEN Append(kept, c)
                            ELSE IF c.rich > kept[Min(same)].rich THEN [kept EXCEPT ![Min(same)] = c] ELSE kept
      BY DEF Placed
    <3> HIDE DEF same
    <3> QED
      BY <1>3, <3>1
  <2> HIDE DEF i
  <2>3. kept[i] \in Range(kept)
    BY <2>1, RangeFacts
  <2>4. CASE ~(c.rich > kept[i].rich)
    BY <2>1, <2>2, <2>3, <2>4 DEF PlacedAs
  <2>5. CASE c.rich > kept[i].rich
    <3>1. /\ new \in Seq(S) /\ Len(new) = Len(kept) /\ new[i] = c
          /\ \A j \in 1..Len(kept) : j # i => new[j] = kept[j]
      BY <1>1, <2>1
    <3> HIDE DEF new
    <3>2. c \in Range(new)
      BY <2>1, <3>1, RangeFacts
    <3>3. ASSUME NEW k \in Range(new) PROVE k \in Range(kept) \cup {c}
      <4>1. PICK j \in 1..Len(kept) : k = new[j]
        BY <3>1, RangeFacts
      <4> QED
        BY <3>1, <4>1, RangeFacts
    <3>4. ASSUME NEW k \in Range(kept) \ {kept[i]} PROVE k \in Range(new)
      <4>1. PICK j \in 1..Len(kept) : k = kept[j]
        BY RangeFacts
      <4> QED
        BY <3>1, <4>1, RangeFacts
    <3>5. Range(new) \subseteq Range(kept) \cup {c} /\ Range(kept) \ {kept[i]} \subseteq Range(new)
      BY <3>3, <3>4
    <3>6. PlacedAs(new, kept, c)
      BY <2>1, <2>3, <2>5, <3>2, <3>5 DEF PlacedAs
    <3> QED
      BY <2>2, <2>5, <3>1, <3>6
  <2> QED
    BY <2>4, <2>5
<1> QED
  BY <1>2, <1>3

\* The sequences that DeduplicateMatches passes through.
MergingRun(kept, cards) ==
    /\ kept[0] = <<>> /\ DeduplicateMatches(cards) = kept[Len(cards)]
    /\ \A n \in 1..Len(cards) : kept[n] = Placed(kept[n - 1], cards[n])

LEMMA MergingSteps ==
    ASSUME NEW S, NEW cards \in Seq(S)
    PROVE  \E kept : kept \in [0..Len(cards) -> Seq(S)] /\ MergingRun(kept, cards)
<1> DEFINE N == Len(cards)
           X == Seq(S)
           step == [p \in (1..N) \X X |-> Placed(p[2], cards[p[1]])]
           body(g) == [n \in 0..N |-> IF n = 0 THEN <<>> ELSE Placed(g[n - 1], cards[n])]
           kept == CHOOSE g : g = body(g)
<1>1. N \in Nat /\ <<>> \in X
  OBVIOUS
<1>2. ASSUME NEW n \in 1..N, NEW x \in X
      PROVE  Placed(x, cards[n]) \in X
  BY PlacedFacts
<1>3. step \in [(1..N) \X X -> X]
  <2>1. ASSUME NEW p \in (1..N) \X X
        PROVE  Placed(p[2], cards[p[1]]) \in X
    <3>1. p[1] \in 1..N /\ p[2] \in X
      OBVIOUS
    <3> HIDE DEF N, X
    <3> QED
      BY <1>2, <3>1
  <2> HIDE DEF N, X
  <2> QED
    BY <2>1
<1>4. PICK f : Iterates(f, N, X, <<>>, step)
  <2> HIDE DEF N, X, step
  <2> QED
    BY <1>1, <1>3, Iterated
<1>5. f \in [0..N -> X] /\ f[0] = <<>> /\ \A n \in 1..N : f[n] = step[<<n, f[n - 1]>>]
  <2> HIDE DEF N, X, step
  <2> QED
    BY <1>4 DEF Iterates
<1>6. f = body(f)
  <2>1. ASSUME NEW n \in 1..N
        PROVE  f[n] = Placed(f[n - 1], cards[n])
    <3>1. n - 1 \in 0..N
      BY <1>1
    <3>2. <<n, f[n - 1]>> \in (1..N) \X X
      BY <1>5, <3>1
    <3>3. step[<<n, f[n - 1]>>] = Placed(f[n - 1], cards[n])
      <4> HIDE DEF N, X
      <4> QED
        BY <3>2
    <3> QED
      BY <1>5, <3>3
  <2>2. \A n \in 0..N : f[n] = IF n = 0 THEN <<>> ELSE Placed(f[n - 1], cards[n])
    <3>1. \A n \in 0..N : n = 0 \/ n \in 1..N
      BY <1>1
    <3> HIDE DEF N
    <3> QED
      BY <1>5, <2>1, <3>1
  <2>3. f = [n \in 0..N |-> f[n]]
    BY <1>5
  <2> HIDE DEF N, X
  <2> QED
    BY <2>2, <2>3
<1>7. kept = body(kept)
  <2> HIDE DEF body
  <2> QED
    BY <1>6
<1>8. DeduplicateMatches(cards) = kept[N]
  BY DEF DeduplicateMatches
<1> HIDE DEF kept
<1>9. kept[0] = <<>>
  <2>1. 0 \in 0..N
    BY <1>1
  <2> QED
    BY <1>7, <2>1
<1>10. ASSUME NEW n \in 1..N
      PROVE  kept[n] = Placed(kept[n - 1], cards[n])
  <2>1. n \in 0..N /\ n # 0
    BY <1>1
  <2> QED
    BY <1>7, <2>1
<1>11. kept \in [0..N -> X]
  <2>1. kept = [n \in 0..N |-> kept[n]]
    <3>1. DOMAIN kept = 0..N
      BY <1>7
    <3>2. body(kept) = [n \in 0..N |-> body(kept)[n]]
      OBVIOUS
    <3> HIDE DEF body
    <3> QED
      BY <1>7, <3>2
  <2>2. kept[0] \in X /\ \A n \in 1..N : kept[n - 1] \in X => kept[n] \in X
    <3> HIDE DEF N, X
    <3> QED
      BY <1>1, <1>2, <1>9, <1>10
  <2> HIDE DEF N, X, body
  <2> QED
    BY <1>1, <2>1, <2>2, StaysIn
<1> QED
  BY <1>8, <1>9, <1>10, <1>11 DEF MergingRun

\* Linked, in a set of cards.
SamePlaceChain(a, b, X) ==
    \A side \in SUBSET X :
      a \in side /\ (\A c \in side, d \in X : MatchesSameProviderPlace(c, d) => d \in side) => b \in side

\* The relation of the merge works both ways, so chains can be reversed.
LEMMA SamePlaceIsMutual ==
    ASSUME NEW a, NEW b, MatchesSameProviderPlace(a, b)
    PROVE  MatchesSameProviderPlace(b, a)
BY DEF MatchesSameProviderPlace, NamedResultIdentity, AliasNames

\* Of the first n cards each has one that stands for it, and itself unless it is related to another.
DeduplicatedUpTo(cards, kept, n) ==
    /\ Range(kept) \subseteq Range(cards)
    /\ \A i \in 1..n : \E k \in Range(kept) :
         k.rich >= cards[i].rich /\ SamePlaceChain(cards[i], k, Range(cards))
    /\ \A i \in 1..n : (\A e \in Range(cards) \ {cards[i]} : ~MatchesSameProviderPlace(cards[i], e))
                         => cards[i] \in Range(kept)

\* Placing one more card keeps it that each card so far has one that stands for it.
LEMMA DeduplicateStep ==
    ASSUME NEW S, NEW cards \in Seq(S), \A c \in Range(cards) : c.rich \in Nat,
           NEW n \in 1..Len(cards), NEW kept, DeduplicatedUpTo(cards, kept, n - 1),
           NEW new, PlacedAs(new, kept, cards[n])
    PROVE  DeduplicatedUpTo(cards, new, n)
<1> DEFINE X == Range(cards)
           c == cards[n]
           old == Range(kept)
           now == Range(new)
<1>1. /\ old \subseteq X
      /\ \A i \in 1..(n - 1) : \E k \in old : k.rich >= cards[i].rich /\ SamePlaceChain(cards[i], k, X)
      /\ \A i \in 1..(n - 1) : (\A e \in X \ {cards[i]} : ~MatchesSameProviderPlace(cards[i], e))
                                 => cards[i] \in old
  BY DEF DeduplicatedUpTo
<1>2. c \in X /\ (\A x \in X : x.rich \in Nat) /\ \A i \in 1..n : cards[i] \in X
  <2>1. Len(cards) \in Nat
    OBVIOUS
  <2>2. \A i \in 1..n : i \in 1..Len(cards)
    BY <2>1
  <2> QED
    BY <2>2, RangeFacts
<1>3. ASSUME NEW i \in 1..n PROVE i = n \/ i \in 1..(n - 1)
  <2>1. Len(cards) \in Nat
    OBVIOUS
  <2> QED
    BY <2>1
<1>4. SamePlaceChain(c, c, X)
  BY DEF SamePlaceChain
<1>5. \/ /\ now = old \cup {c}
         /\ \A k \in old : ~MatchesSameProviderPlace(k, c)
      \/ \E k \in old : /\ MatchesSameProviderPlace(k, c) /\ c.rich > k.rich /\ c \in now
                        /\ now \subseteq old \cup {c} /\ old \ {k} \subseteq now
      \/ now = old /\ \E k \in old : MatchesSameProviderPlace(k, c) /\ ~(c.rich > k.rich)
  BY DEF PlacedAs
<1> SUFFICES /\ now \subseteq X
             /\ \A i \in 1..n : \E k \in now : k.rich >= cards[i].rich /\ SamePlaceChain(cards[i], k, X)
             /\ \A i \in 1..n : (\A e \in X \ {cards[i]} : ~MatchesSameProviderPlace(cards[i], e))
                                  => cards[i] \in now
  BY DEF DeduplicatedUpTo
<1> HIDE DEF X, old, now
<1>6. CASE /\ now = old \cup {c}
           /\ \A k \in old : ~MatchesSameProviderPlace(k, c)
  <2>1. now \subseteq X
    BY <1>1, <1>2, <1>6
  <2>2. ASSUME NEW i \in 1..n
        PROVE  \E k \in now : k.rich >= cards[i].rich /\ SamePlaceChain(cards[i], k, X)
    <3>1. CASE i = n
      <4>1. c.rich >= c.rich
        BY <1>2
      <4> QED
        BY <1>4, <1>6, <3>1, <4>1
    <3>2. CASE i \in 1..(n - 1)
      BY <1>1, <1>6, <3>2
    <3> QED
      BY <1>3, <3>1, <3>2
  <2>3. ASSUME NEW i \in 1..n, \A e \in X \ {cards[i]} : ~MatchesSameProviderPlace(cards[i], e)
        PROVE  cards[i] \in now
    BY <1>1, <1>3, <1>6, <2>3
  <2> QED
    BY <2>1, <2>2, <2>3
<1>7. ASSUME NEW k \in old, MatchesSameProviderPlace(k, c), c.rich > k.rich, c \in now,
             now \subseteq old \cup {c}, old \ {k} \subseteq now
      PROVE  /\ now \subseteq X
             /\ \A i \in 1..n : \E x \in now : x.rich >= cards[i].rich /\ SamePlaceChain(cards[i], x, X)
             /\ \A i \in 1..n : (\A e \in X \ {cards[i]} : ~MatchesSameProviderPlace(cards[i], e))
                                  => cards[i] \in now
  <2>1. now \subseteq X
    BY <1>1, <1>2, <1>7
  <2>2. ASSUME NEW i \in 1..n
        PROVE  \E x \in now : x.rich >= cards[i].rich /\ SamePlaceChain(cards[i], x, X)
    <3>1. CASE i = n
      <4>1. c.rich >= c.rich
        BY <1>2
      <4> QED
        BY <1>4, <1>7, <3>1, <4>1
    <3>2. CASE i \in 1..(n - 1)
      <4>1. PICK x \in old : x.rich >= cards[i].rich /\ SamePlaceChain(cards[i], x, X)
        BY <1>1, <3>2
      <4>2. CASE x = k
        <5>1. c.rich >= cards[i].rich
          <6>1. c.rich \in Nat /\ k.rich \in Nat /\ cards[i].rich \in Nat
            BY <1>1, <1>2
          <6>2. c.rich > k.rich /\ k.rich >= cards[i].rich
            BY <1>7, <4>1, <4>2
          <6> QED
            BY <6>1, <6>2
        <5>2. SamePlaceChain(cards[i], c, X)
          BY <1>2, <1>7, <4>1, <4>2 DEF SamePlaceChain
        <5> QED
          BY <1>7, <5>1, <5>2
      <4>3. CASE x # k
        BY <1>7, <4>1, <4>3
      <4> QED
        BY <4>2, <4>3
    <3> QED
      BY <1>3, <3>1, <3>2
  <2>3. ASSUME NEW i \in 1..n, \A e \in X \ {cards[i]} : ~MatchesSameProviderPlace(cards[i], e)
        PROVE  cards[i] \in now
    <3>1. CASE i = n
      BY <1>7, <3>1
    <3>2. CASE i \in 1..(n - 1)
      <4>1. cards[i] \in old
        BY <1>1, <2>3, <3>2
      <4>2. ASSUME cards[i] = k PROVE FALSE
        <5>1. c # k
          <6>1. c.rich \in Nat /\ k.rich \in Nat
            BY <1>1, <1>2
          <6>2. c.rich # k.rich
            BY <1>7, <6>1
          <6> QED
            BY <6>2
        <5> QED
          BY <1>2, <1>7, <2>3, <4>2, <5>1
      <4> QED
        BY <1>7, <4>1, <4>2
    <3> QED
      BY <1>3, <3>1, <3>2
  <2> QED
    BY <2>1, <2>2, <2>3
<1>8. ASSUME now = old, NEW k \in old, MatchesSameProviderPlace(k, c), ~(c.rich > k.rich)
      PROVE  /\ now \subseteq X
             /\ \A i \in 1..n : \E x \in now : x.rich >= cards[i].rich /\ SamePlaceChain(cards[i], x, X)
             /\ \A i \in 1..n : (\A e \in X \ {cards[i]} : ~MatchesSameProviderPlace(cards[i], e))
                                  => cards[i] \in now
  <2>1. now \subseteq X
    BY <1>1, <1>8
  <2>4. MatchesSameProviderPlace(c, k) /\ k \in X
    BY <1>1, <1>8, SamePlaceIsMutual
  <2>2. ASSUME NEW i \in 1..n
        PROVE  \E x \in now : x.rich >= cards[i].rich /\ SamePlaceChain(cards[i], x, X)
    <3>1. CASE i = n
      <4>1. k.rich >= c.rich
        <5>1. c.rich \in Nat /\ k.rich \in Nat
          BY <1>2, <2>4
        <5> QED
          BY <1>8, <5>1
      <4>2. SamePlaceChain(c, k, X)
        BY <1>2, <2>4 DEF SamePlaceChain
      <4> QED
        BY <1>8, <3>1, <4>1, <4>2
    <3>2. CASE i \in 1..(n - 1)
      BY <1>1, <1>8, <3>2
    <3> QED
      BY <1>3, <3>1, <3>2
  <2>3. ASSUME NEW i \in 1..n, \A e \in X \ {cards[i]} : ~MatchesSameProviderPlace(cards[i], e)
        PROVE  cards[i] \in now
    <3>1. CASE i = n
      <4>1. k = c
        BY <2>3, <2>4, <3>1
      <4> QED
        BY <1>8, <3>1, <4>1
    <3>2. CASE i \in 1..(n - 1)
      BY <1>1, <1>8, <2>3, <3>2
    <3> QED
      BY <1>3, <3>1, <3>2
  <2> QED
    BY <2>1, <2>2, <2>3
<1> QED
  BY <1>5, <1>6, <1>7, <1>8

\* Each card has one that stands for it, and itself unless it is related to another.
LEMMA DeduplicateMatchesFacts ==
    ASSUME NEW S, NEW cards \in Seq(S), \A c \in Range(cards) : c.rich \in Nat
    PROVE  /\ DeduplicateMatches(cards) \in Seq(S)
           /\ DeduplicatedUpTo(cards, DeduplicateMatches(cards), Len(cards))
<1>1. PICK kept : kept \in [0..Len(cards) -> Seq(S)] /\ MergingRun(kept, cards)
  BY MergingSteps
<1> DEFINE N == Len(cards)
<1>2. N \in Nat
  OBVIOUS
<1>6. /\ kept \in [0..N -> Seq(S)] /\ kept[0] = <<>> /\ DeduplicateMatches(cards) = kept[N]
      /\ \A n \in 1..N : kept[n] = Placed(kept[n - 1], cards[n])
  BY <1>1, Zenon DEF MergingRun
<1> DEFINE Good == {n \in 0..N : DeduplicatedUpTo(cards, kept[n], n)}
<1>3. 0 \in Good
  <2>1. Range(<<>>) = {}
    BY DEF Range
  <2>2. DeduplicatedUpTo(cards, <<>>, 0)
    BY <2>1 DEF DeduplicatedUpTo
  <2> QED
    BY <1>6, <1>2, <2>2
<1>4. ASSUME NEW n \in 1..N, n - 1 \in Good
      PROVE  n \in Good
  <2>1. /\ n - 1 \in 0..N /\ n \in 0..N /\ kept[n - 1] \in Seq(S) /\ cards[n] \in S
        /\ DeduplicatedUpTo(cards, kept[n - 1], n - 1)
    BY <1>6, <1>4
  <2>2. PlacedAs(Placed(kept[n - 1], cards[n]), kept[n - 1], cards[n])
    BY <2>1, PlacedFacts
  <2>3. DeduplicatedUpTo(cards, Placed(kept[n - 1], cards[n]), n)
    BY <2>1, <2>2, DeduplicateStep
  <2> QED
    BY <1>6, <2>1, <2>3
<1>5. N \in Good
  <2>1. N \in 0..N
    BY <1>2
  <2> HIDE DEF Good, N
  <2> QED
    BY <1>2, <1>3, <1>4, <2>1, EachUpTo
<1> QED
  BY <1>6, <1>2, <1>5

LEMMA SearchFacts ==
    ASSUME NEW q, WellFormed(q), q.op \in Searching
    PROVE  /\ q.cards \in Seq(Range(q.cards)) /\ \A c \in Range(q.cards) : c.point \in Int
           /\ q.limit \in Nat /\ q.anchor \in Int
           /\ q.op = "tomtom_search" => \A c \in Range(q.cards) : c.rich \in Nat
BY DEF WellFormed

\* The steps of TomTomSearch.
SearchDistinct(q) == DeduplicateMatches(ByDistance(q, TomTomMatches(q)))
SearchExact(q) ==
    {c \in Range(SearchDistinct(q)) : q.first \/ NameMatchScore(c.name, q.query, q.locality) = Exact}
SearchPrimary(q) == IF q.named THEN ExcludeAuxiliary(SearchDistinct(q), SearchExact(q)) ELSE SearchDistinct(q)
SearchReliable(q) == ExcludeCoordinateConflicts(SearchPrimary(q))

\* The best match score means that the query is the name.
LEMMA ExactIsTheName ==
    ASSUME NEW name, NEW query, NEW locality, NameMatchScore(name, query, locality) = Exact
    PROVE  name = query
<1> DEFINE a == <<1, Len(name) - Len(query)>>
           b == <<2, Len(name)>>
<1>1. SUFFICES ASSUME name # query PROVE FALSE
  OBVIOUS
<1>2. NameMatchScore(name, query, locality) \in {a, b, NoScore}
  BY <1>1 DEF NameMatchScore
<1>3. a[1] # Exact[1] /\ b[1] # Exact[1] /\ NoScore[1] # Exact[1]
  BY DEF Exact, NoScore
<1> HIDE DEF a, b
<1> QED
  BY <1>2, <1>3

LEMMA TomTomMatchesFacts ==
    ASSUME NEW q, WellFormed(q), q.op = "tomtom_search", ~q.first
    PROVE  /\ TomTomMatches(q) = TomTomEligible(q, UniqueIds(q.cards))
           /\ TomTomMatches(q) \in Seq(Range(q.cards))
<1> DEFINE S == Range(q.cards)
           cards == UniqueIds(q.cards)
<1>1. q.cards \in Seq(S)
  BY SearchFacts DEF Searching
<1> HIDE DEF S
<1>2. cards \in Seq(S)
  BY <1>1, DistinctThose DEF UniqueIds
<1>3. TomTomEligible(q, cards) \in Seq(S)
  <2> HIDE DEF cards
  <2> QED
    BY <1>2, OnlyThose DEF TomTomEligible
<1>4. TomTomMatches(q) = TomTomEligible(q, cards)
  BY DEF TomTomMatches
<1> QED
  BY <1>3, <1>4 DEF S

\* What becomes of a card of the area that a request asks for.
Excused(q, k, matches, cards) ==
    \/ k \in Range(matches)
    \/ k.point \in ConflictedPoints(cards) /\ Len(matches) < Len(SearchPrimary(q))
    \/ q.named /\ k.aux /\ \E c \in Range(cards) : ~c.aux /\ c.name = q.query

\* From the cards that meet a TomTom search to the matches: every one is kept, has one that
\* stands for it, or is excused.
LEMMA TomTomSearchFacts ==
    ASSUME NEW q, WellFormed(q), q.op = "tomtom_search", ~q.first,
           NEW cards, cards = TomTomEligible(q, UniqueIds(q.cards)),
           NEW matches, matches = SearchReliable(q)
    PROVE  /\ matches \in Seq(Range(q.cards)) /\ Range(matches) \subseteq Range(cards)
           /\ \A c \in Range(cards) : \E k \in Range(cards) :
                /\ k.rich >= c.rich /\ SamePlaceChain(c, k, Range(cards))
                /\ Excused(q, k, matches, cards)
           /\ \A c \in Range(matches), d \in Range(cards) :
                /\ c.point = d.point /\ (q.named => ~d.aux)
                /\ \A e \in Range(cards) \ {d} : ~MatchesSameProviderPlace(d, e)
                => 0 \in {c.house, d.house} \/ c.house = d.house
<1> DEFINE S == Range(q.cards)
           sorted == ByDistance(q, cards)
           distinct == DeduplicateMatches(sorted)
           primary == SearchPrimary(q)
           exact == SearchExact(q)
<1>1. /\ q.anchor \in Int /\ (\A c \in S : c.point \in Int /\ c.rich \in Nat)
      /\ cards \in Seq(S) /\ TomTomMatches(q) = cards
  BY SearchFacts, TomTomMatchesFacts DEF Searching
<1> HIDE DEF S
<1>2. \A c \in Range(cards) : c.point \in Int
  BY <1>1, RangeFacts
<1>3. sorted \in Seq(S) /\ Range(sorted) = Range(cards)
  BY <1>1, <1>2, ByDistanceFacts
<1> HIDE DEF sorted
<1>4. \A c \in Range(sorted) : c.rich \in Nat
  BY <1>1, <1>3, RangeFacts
<1>5. distinct \in Seq(S) /\ DeduplicatedUpTo(sorted, distinct, Len(sorted))
  BY <1>3, <1>4, DeduplicateMatchesFacts
<1>6. SearchDistinct(q) = distinct
  BY <1>1 DEF SearchDistinct, sorted
<1> HIDE DEF distinct
<1>7. /\ Range(distinct) \subseteq Range(cards)
      /\ \A c \in Range(cards) : \E k \in Range(distinct) :
           k.rich >= c.rich /\ SamePlaceChain(c, k, Range(cards))
      /\ \A d \in Range(cards) : (\A e \in Range(cards) \ {d} : ~MatchesSameProviderPlace(d, e))
                                   => d \in Range(distinct)
  <2>1. \A c \in Range(sorted) : \E i \in 1..Len(sorted) : c = sorted[i]
    BY <1>3, RangeFacts
  <2>2. /\ Range(distinct) \subseteq Range(sorted)
        /\ \A i \in 1..Len(sorted) : \E k \in Range(distinct) :
             k.rich >= sorted[i].rich /\ SamePlaceChain(sorted[i], k, Range(sorted))
        /\ \A i \in 1..Len(sorted) :
             (\A e \in Range(sorted) \ {sorted[i]} : ~MatchesSameProviderPlace(sorted[i], e))
                => sorted[i] \in Range(distinct)
    BY <1>5, Zenon DEF DeduplicatedUpTo
  <2>3. ASSUME NEW c \in Range(cards)
        PROVE  \E k \in Range(distinct) : k.rich >= c.rich /\ SamePlaceChain(c, k, Range(cards))
    <3>1. PICK i \in 1..Len(sorted) : c = sorted[i]
      BY <1>3, <2>1
    <3>2. PICK k \in Range(distinct) : k.rich >= sorted[i].rich /\ SamePlaceChain(sorted[i], k, Range(sorted))
      BY <2>2
    <3> QED
      BY <1>3, <3>1, <3>2
  <2>4. ASSUME NEW d \in Range(cards), \A e \in Range(cards) \ {d} : ~MatchesSameProviderPlace(d, e)
        PROVE  d \in Range(distinct)
    <3>1. PICK i \in 1..Len(sorted) : d = sorted[i]
      BY <1>3, <2>1
    <3>2. \A e \in Range(sorted) \ {sorted[i]} : ~MatchesSameProviderPlace(sorted[i], e)
      BY <1>3, <2>4, <3>1
    <3>3. sorted[i] \in Range(distinct)
      BY <2>2, <3>2
    <3> QED
      BY <3>1, <3>3
  <2> QED
    BY <1>3, <2>2, <2>3, <2>4
<1>8. exact = {c \in Range(distinct) : NameMatchScore(c.name, q.query, q.locality) = Exact}
  BY <1>6 DEF SearchExact
<1> HIDE DEF exact
<1>9. /\ primary \in Seq(S)
      /\ \A k : k \in Range(primary) => k \in Range(distinct)
      /\ \A k \in Range(distinct) : \/ k \in Range(primary)
                                    \/ q.named /\ k.aux /\ \E c \in exact : ~c.aux
  <2> DEFINE plain == Only(distinct, {c \in Range(distinct) : ~c.aux})
  <2>1. plain \in Seq(S) /\ \A k : k \in Range(plain) <=> k \in Range(distinct) /\ ~k.aux
    BY <1>5, OnlyThose
  <2>2. primary = IF q.named /\ \E c \in exact : ~c.aux THEN plain ELSE distinct
    BY <1>6 DEF SearchPrimary, ExcludeAuxiliary, exact
  <2> HIDE DEF plain, primary
  <2> QED
    BY <1>5, <2>1, <2>2
<1>10. /\ matches \in Seq(S) /\ Len(matches) <= Len(primary)
       /\ \A k : k \in Range(matches) <=> k \in Range(primary) /\ k.point \notin ConflictedPoints(primary)
       /\ \A k \in Range(primary) : k.point \in ConflictedPoints(primary) => Len(matches) < Len(primary)
  <2> DEFINE good == {c \in Range(primary) : c.point \notin ConflictedPoints(primary)}
  <2>1. matches = Only(primary, good)
    BY DEF SearchReliable, ExcludeCoordinateConflicts
  <2>2. /\ Only(primary, good) \in Seq(S)
        /\ \A c : c \in Range(Only(primary, good)) <=> c \in Range(primary) /\ c \in good
        /\ Len(Only(primary, good)) <= Len(primary)
        /\ \A c \in Range(primary) : c \notin good => Len(Only(primary, good)) < Len(primary)
    <3> HIDE DEF primary, good
    <3> QED
      BY <1>9, OnlyThose
  <2> HIDE DEF primary
  <2> QED
    BY <2>1, <2>2
<1> HIDE DEF primary
<1>11. Range(primary) \subseteq Range(cards) /\ Range(matches) \subseteq Range(cards)
  BY <1>7, <1>9, <1>10
<1>12. ConflictedPoints(primary) \subseteq ConflictedPoints(cards)
  BY <1>11 DEF ConflictedPoints
<1>13. ASSUME NEW c \in Range(cards)
       PROVE  \E k \in Range(cards) : /\ k.rich >= c.rich /\ SamePlaceChain(c, k, Range(cards))
                                      /\ Excused(q, k, matches, cards)
  <2>1. PICK k \in Range(distinct) : k.rich >= c.rich /\ SamePlaceChain(c, k, Range(cards))
    BY <1>7
  <2>2. k \in Range(cards)
    BY <1>7
  <2>3. CASE k \in Range(matches)
    BY <2>1, <2>2, <2>3 DEF Excused
  <2>4. CASE k \in Range(primary) /\ k \notin Range(matches)
    <3>1. k.point \in ConflictedPoints(primary) /\ Len(matches) < Len(primary)
      BY <1>10, <2>4
    <3> QED
      BY <1>12, <2>1, <2>2, <3>1 DEF Excused, primary
  <2>5. CASE k \notin Range(primary)
    <3>1. q.named /\ k.aux /\ \E x \in exact : ~x.aux
      BY <1>9, <2>5
    <3>2. PICK x \in exact : ~x.aux
      BY <3>1
    <3>3. x \in Range(cards) /\ x.name = q.query
      BY <1>7, <1>8, ExactIsTheName
    <3> QED
      BY <2>1, <2>2, <3>1, <3>2, <3>3 DEF Excused
  <2> QED
    BY <2>3, <2>4, <2>5
<1>14. ASSUME NEW c \in Range(matches), NEW d \in Range(cards), c.point = d.point,
              q.named => ~d.aux, \A e \in Range(cards) \ {d} : ~MatchesSameProviderPlace(d, e)
       PROVE  0 \in {c.house, d.house} \/ c.house = d.house
  <2>1. d \in Range(primary)
    BY <1>7, <1>9, <1>14
  <2>2. c \in Range(primary) /\ c.point \notin ConflictedPoints(primary)
    BY <1>10
  <2>3. c.house # 0 /\ d.house \notin {0, c.house} => c.point \in ConflictedPoints(primary)
    BY <1>14, <2>1, <2>2 DEF ConflictedPoints
  <2> QED
    BY <2>2, <2>3
<1> QED
  BY <1>10, <1>11, <1>13, <1>14 DEF S

\* What an answer of places says.
LEMMA FoundFacts ==
    ASSUME NEW q, NEW matches, NEW warned
    PROVE  /\ Found(q, matches, warned).shown = Cut(q, matches)
           /\ Found(q, matches, warned).warned = warned
           /\ Found(q, matches, warned).truncated = (matches # <<>> /\ (q.more \/ Len(matches) > q.limit))
BY DEF Found

\* Each answer to a TomTom search is right.
LEMMA TomTomSearchTells ==
    ASSUME WellFormed(question), TomTomSearch
    PROVE  NothingVanishesSilently' /\ ReliablePointsOnly'
<1> DEFINE q == question
           cards == TomTomEligible(q, UniqueIds(q.cards))
           matches == SearchReliable(q)
           primary == SearchPrimary(q)
           shown == Cut(q, matches)
           doubts == \/ \E c \in Range(UniqueIds(q.cards)) :
                          ~q.first /\ TomTomInScope(q, c) /\ InCircle(q, c) /\ Unverified(q, c)
                     \/ Len(matches) < Len(primary)
                     \/ \E c \in Range(shown) : ~c.reachable
<1>1. question' = q /\ q.op = "tomtom_search" /\ answer' = Found(q, matches, doubts)
  <2>1. question' = question /\ question.op = "tomtom_search"
    BY DEF TomTomSearch, Reply
  <2>2. answer' = Found(q, matches, doubts)
    BY Zenon DEF TomTomSearch, Reply, SearchReliable, SearchPrimary, SearchExact, SearchDistinct, Reliable
  <2> QED
    BY <2>1, <2>2
<1>2. /\ answer'.shown = shown /\ answer'.warned = doubts
      /\ answer'.truncated = (matches # <<>> /\ (q.more \/ Len(matches) > q.limit))
  <2> HIDE DEF matches, doubts, q
  <2> QED
    BY <1>1, FoundFacts
<1>3. \A op : Answered(op)' => op = "tomtom_search"
  BY <1>1 DEF Answered
<1>4. CASE q.first
  BY <1>1, <1>3, <1>4 DEF NothingVanishesSilently, ReliablePointsOnly
<1>5. CASE ~q.first
  <2>1. /\ matches \in Seq(Range(q.cards)) /\ Range(matches) \subseteq Range(cards)
        /\ \A c \in Range(cards) : \E k \in Range(cards) :
             /\ k.rich >= c.rich /\ SamePlaceChain(c, k, Range(cards))
             /\ Excused(q, k, matches, cards)
        /\ \A c \in Range(matches), d \in Range(cards) :
             /\ c.point = d.point /\ (q.named => ~d.aux)
             /\ \A e \in Range(cards) \ {d} : ~MatchesSameProviderPlace(d, e)
             => 0 \in {c.house, d.house} \/ c.house = d.house
    <3> HIDE DEF cards, matches
    <3>1. cards = TomTomEligible(q, UniqueIds(q.cards)) /\ matches = SearchReliable(q)
      BY DEF cards, matches
    <3> HIDE DEF q
    <3> QED
      BY <1>1, <1>5, <3>1, TomTomSearchFacts DEF q
  <2>2. q.limit \in Nat
    BY <1>1, SearchFacts DEF Searching
  <2> HIDE DEF matches
  <2>3. /\ Range(shown) \subseteq Range(matches)
        /\ \A c \in Range(matches) : c \in Range(shown) \/ CutOff'
    <3>1. \A c \in Range(matches) :
            c \in Range(shown) \/ (Len(shown) = q.limit /\ Len(matches) > q.limit /\ matches # <<>>)
      BY <2>1, <2>2, CutFacts
    <3>2. Range(shown) \subseteq Range(matches)
      BY <2>1, <2>2, CutFacts
    <3> HIDE DEF shown
    <3> QED
      BY <1>1, <1>2, <3>1, <3>2 DEF CutOff
  <2> HIDE DEF shown, cards, primary, doubts
  <2>4. ASSUME NEW c \in Range(cards)
        PROVE  \E k \in Range(cards) :
                 /\ k.rich >= c.rich /\ Linked(c, k, cards, MatchesSameProviderPlace)
                 /\ \/ k \in Range(shown) \/ CutOff'
                    \/ k.point \in ConflictedPoints(cards) /\ doubts
                    \/ q.named /\ k.aux /\ \E x \in Range(cards) : ~x.aux /\ x.name = q.query
    <3>1. PICK k \in Range(cards) : /\ k.rich >= c.rich /\ SamePlaceChain(c, k, Range(cards))
                                    /\ Excused(q, k, matches, cards)
      BY <2>1
    <3>2. Linked(c, k, cards, MatchesSameProviderPlace)
      BY <3>1 DEF Linked, SamePlaceChain
    <3>3. \/ k \in Range(matches)
          \/ k.point \in ConflictedPoints(cards) /\ Len(matches) < Len(primary)
          \/ q.named /\ k.aux /\ \E x \in Range(cards) : ~x.aux /\ x.name = q.query
      BY <3>1 DEF Excused, primary
    <3>4. Len(matches) < Len(primary) => doubts
      BY DEF doubts
    <3> QED
      BY <2>3, <3>1, <3>2, <3>3, <3>4
  <2>5. NothingVanishesSilently'
    <3> HIDE DEF q
    <3>1. question' = q
      BY <1>1
    <3>2. ~Answered("twogis_search")' /\ ~Answered("yandex_search")'
      BY <1>3
    <3>3. TomTomEligible(question', UniqueIds(question'.cards)) = cards
      BY <3>1 DEF cards
    <3> QED
      BY <1>2, <2>4, <3>1, <3>2, <3>3 DEF NothingVanishesSilently
  <2>6. ReliablePointsOnly'
    <3>1. TomTomEligible(question', UniqueIds(question'.cards)) = cards
      BY <1>1 DEF cards
    <3>2. ASSUME NEW c \in Range(shown), NEW d \in Range(cards), c.point = d.point,
                 q.named => ~d.aux, \A e \in Range(cards) \ {d} : ~MatchesSameProviderPlace(d, e)
          PROVE  0 \in {c.house, d.house} \/ c.house = d.house
      BY <2>1, <2>3, <3>2
    <3> HIDE DEF q
    <3> QED
      BY <1>1, <1>2, <3>1, <3>2 DEF ReliablePointsOnly
  <2> QED
    BY <2>5, <2>6
<1> QED
  BY <1>4, <1>5

\* Whether a card meets a 2GIS search by category, in whatever order the cards come.
TwogisListed(q, c) == c.point # NoPoint /\ c.rubric /\ (Near(q) => c.localities = {}) /\ TwogisFits(q, c)

LEMMA TwogisSearchFacts ==
    ASSUME NEW q, WellFormed(q), q.op = "twogis_search", ~q.first, ~q.named,
           NEW matches, matches = Only(TwogisCandidates(q), {c \in Range(TwogisCandidates(q)) : TwogisFits(q, c)})
    PROVE  /\ ByDistance(q, matches) \in Seq(Range(q.cards))
           /\ \A i \in DOMAIN q.cards : TwogisListed(q, q.cards[i]) =>
                \/ q.cards[i] \in Range(ByDistance(q, matches))
                \/ \E j \in 1..(i - 1) : SameNamedObject(q.cards[j], q.cards[i], FALSE)
<1> DEFINE S == Range(q.cards)
           N == Len(q.cards)
           good == {c \in Range(q.cards) :
                      /\ c.point # NoPoint /\ c.rubric
                      /\ Near(q) /\ q.locality # <<>> /\ c.localities # {} =>
                           \E l \in c.localities : SameLocality(q.locality, l)}
           some == Only(q.cards, good)
           same == {p \in Range(some) \X Range(some) : SameNamedObject(p[1], p[2], FALSE)}
           candidates == Distinct(some, same)
<1>1. q.cards \in Seq(S) /\ q.anchor \in Int /\ \A c \in S : c.point \in Int
  BY SearchFacts DEF Searching
<1>2. TwogisCandidates(q) = candidates
  BY Zenon DEF TwogisCandidates, DeduplicateCandidates
<1>3. some \in Seq(S) /\ OnlyUpTo(q.cards, good, some, N)
  <2> HIDE DEF S, good
  <2> QED
    BY <1>1, OnlyFacts
<1>4. /\ candidates \in Seq(S) /\ DistinctUpTo(some, same, candidates, Len(some))
      /\ Range(candidates) \subseteq Range(some)
  <2> HIDE DEF S, some, same
  <2> QED
    BY <1>3, DistinctFacts, DistinctThose
<1>5. PICK pos : /\ Picks(some, q.cards, pos, N)
                 /\ \A i \in 1..N : q.cards[i] \in good <=> \E m \in 1..Len(some) : pos[m] = i
  <2> HIDE DEF S, good, some
  <2> QED
    BY <1>3 DEF OnlyUpTo
<1>6. PICK to : /\ Picks(candidates, some, to, Len(some))
                /\ \A i \in 1..Len(some) : \E m \in 1..Len(candidates) :
                     to[m] = i \/ (to[m] < i /\ <<candidates[m], some[i]>> \in same)
  <2> HIDE DEF S, some, same, candidates
  <2> QED
    BY <1>4 DEF DistinctUpTo
<1> DEFINE fits == {c \in Range(candidates) : TwogisFits(q, c)}
<1>7. /\ matches \in Seq(S) /\ \A c : c \in Range(matches) <=> c \in Range(candidates) /\ TwogisFits(q, c)
  <2>1. matches = Only(candidates, fits)
    BY <1>2
  <2> HIDE DEF S, candidates, fits
  <2>2. /\ Only(candidates, fits) \in Seq(S)
        /\ \A c : c \in Range(Only(candidates, fits)) <=> c \in Range(candidates) /\ c \in fits
    BY <1>4, OnlyThose
  <2> QED
    BY <2>1, <2>2 DEF fits
<1>8. ByDistance(q, matches) \in Seq(S) /\ Range(ByDistance(q, matches)) = Range(matches)
  <2> HIDE DEF S
  <2>1. \A c \in Range(matches) : c.point \in Int
    BY <1>1, <1>7, RangeFacts
  <2> QED
    BY <1>1, <1>7, <2>1, ByDistanceFacts
<1>9. ASSUME NEW i \in 1..N, TwogisListed(q, q.cards[i])
      PROVE  \/ q.cards[i] \in Range(matches)
             \/ \E j \in 1..(i - 1) : SameNamedObject(q.cards[j], q.cards[i], FALSE)
  <2>1. q.cards[i] \in good /\ TwogisFits(q, q.cards[i])
    <3>1. q.cards[i] \in Range(q.cards)
      BY <1>1, RangeFacts
    <3> QED
      BY <1>9, <3>1 DEF TwogisListed
  <2> HIDE DEF good, some, same, candidates, S
  <2>2. PICK n \in 1..Len(some) : pos[n] = i
    BY <1>5, <2>1
  <2>3. PICK m \in 1..Len(candidates) : to[m] = n \/ (to[m] < n /\ <<candidates[m], some[n]>> \in same)
    BY <1>6, <2>2
  <2>4. some[n] = q.cards[i]
    BY <1>5, <2>2 DEF Picks
  <2>5. to[m] \in 1..Len(some) /\ candidates[m] = some[to[m]]
    BY <1>6 DEF Picks
  <2>6. candidates[m] \in Range(candidates)
    BY <1>4, RangeFacts
  <2>7. CASE to[m] = n
    BY <1>7, <2>1, <2>4, <2>5, <2>6, <2>7
  <2>8. CASE to[m] < n /\ <<candidates[m], some[n]>> \in same
    <3>1. SameNamedObject(candidates[m], q.cards[i], FALSE)
      BY <2>4, <2>8 DEF same
    <3>2. pos[to[m]] < pos[n] /\ pos[to[m]] \in 1..N /\ some[to[m]] = q.cards[pos[to[m]]]
      BY <1>5, <2>5, <2>8 DEF Picks
    <3>3. pos[to[m]] \in 1..(i - 1)
      <4>1. pos[to[m]] \in Nat /\ pos[to[m]] >= 1 /\ i \in Nat
        BY <3>2
      <4> QED
        BY <2>2, <3>2, <4>1
    <3> QED
      BY <2>5, <3>1, <3>2, <3>3
  <2> QED
    BY <2>3, <2>7, <2>8
<1>10. DOMAIN q.cards = 1..N
  BY <1>1
<1> QED
  BY <1>8, <1>9, <1>10

\* Each answer to a 2GIS search is right.
LEMMA TwogisSearchTells ==
    ASSUME WellFormed(question), TwogisSearch
    PROVE  NothingVanishesSilently'
<1> DEFINE q == question
           candidates == TwogisCandidates(q)
           matches == Only(candidates, {c \in Range(candidates) : TwogisFits(q, c)})
           sorted == ByDistance(q, matches)
           unknown == \E c \in Range(candidates) : (q.rating > 0 => c.rating >= q.rating) /\ Unverified(q, c)
<1>1. question' = q /\ q.op = "twogis_search" /\ answer' = Found(q, sorted, unknown)
  BY Zenon DEF TwogisSearch, Reply
<1>2. answer'.shown = Cut(q, sorted)
      /\ answer'.truncated = (sorted # <<>> /\ (q.more \/ Len(sorted) > q.limit))
  <2> HIDE DEF sorted, unknown, q
  <2> QED
    BY <1>1, FoundFacts
<1>3. ~Answered("tomtom_search")' /\ ~Answered("yandex_search")'
  BY <1>1 DEF Answered
<1>4. SUFFICES ASSUME ~q.first, ~q.named, NEW i \in DOMAIN q.cards, TwogisListed(q, q.cards[i])
               PROVE  \/ q.cards[i] \in Range(answer'.shown) \/ CutOff'
                      \/ \E j \in 1..(i - 1) : SameNamedObject(q.cards[j], q.cards[i], FALSE)
  <2> HIDE DEF q
  <2> QED
    BY <1>1, <1>3, Zenon DEF NothingVanishesSilently, TwogisListed
<1>5. /\ sorted \in Seq(Range(q.cards))
      /\ \/ q.cards[i] \in Range(sorted)
         \/ \E j \in 1..(i - 1) : SameNamedObject(q.cards[j], q.cards[i], FALSE)
  <2>1. matches = Only(TwogisCandidates(q), {c \in Range(TwogisCandidates(q)) : TwogisFits(q, c)})
    OBVIOUS
  <2> HIDE DEF matches, candidates
  <2>2. WellFormed(q)
    OBVIOUS
  <2> HIDE DEF q
  <2> QED
    BY <1>1, <1>4, <2>1, <2>2, TwogisSearchFacts
<1>6. q.limit \in Nat
  BY <1>1, SearchFacts DEF Searching
<1> HIDE DEF sorted, q, unknown
<1>7. \A c \in Range(sorted) :
        \/ c \in Range(Cut(q, sorted))
        \/ Len(Cut(q, sorted)) = q.limit /\ Len(sorted) > q.limit /\ sorted # <<>>
  BY <1>5, <1>6, CutFacts
<1>8. \A c \in Range(sorted) : c \in Range(answer'.shown) \/ CutOff'
  BY <1>1, <1>2, <1>7 DEF CutOff
<1> QED
  BY <1>5, <1>8

\* Each answer to a Yandex search is right.
LEMMA YandexSearchTells ==
    ASSUME WellFormed(question), YandexSearch
    PROVE  NothingVanishesSilently'
<1> DEFINE q == question
           cards == UniqueIds(q.cards)
           good == {c \in Range(cards) : YandexFits(q, c)}
           matches == Only(cards, good)
           sorted == ByDistance(q, matches)
           unknown == \E c \in Range(cards) : Unverified(q, c) /\ InCircle(q, c)
           S == Range(q.cards)
<1>1. question' = q /\ q.op = "yandex_search" /\ answer' = Found(q, sorted, unknown)
  BY Zenon DEF YandexSearch, Reply
<1>2. answer'.shown = Cut(q, sorted)
      /\ answer'.truncated = (sorted # <<>> /\ (q.more \/ Len(sorted) > q.limit))
  <2> HIDE DEF sorted, unknown, q
  <2> QED
    BY <1>1, FoundFacts
<1>3. ~Answered("tomtom_search")' /\ ~Answered("twogis_search")'
  BY <1>1 DEF Answered
<1>4. /\ q.limit \in Nat /\ q.cards \in Seq(S) /\ q.anchor \in Int /\ \A c \in S : c.point \in Int
  BY <1>1, SearchFacts DEF Searching
<1> HIDE DEF S, unknown
<1>5. cards \in Seq(S)
  BY <1>4, DistinctThose DEF UniqueIds
<1> HIDE DEF cards
<1>6. /\ matches \in Seq(S) /\ \A c : c \in Range(matches) <=> c \in Range(cards) /\ c \in good
  <2> HIDE DEF good
  <2> QED
    BY <1>5, OnlyThose
<1> HIDE DEF matches
<1>7. sorted \in Seq(S) /\ Range(sorted) = Range(matches)
  <2>1. \A c \in Range(matches) : c.point \in Int
    BY <1>4, <1>6, RangeFacts
  <2> QED
    BY <1>4, <1>6, <2>1, ByDistanceFacts
<1> HIDE DEF sorted
<1>8. \A c \in Range(sorted) :
        \/ c \in Range(Cut(q, sorted))
        \/ Len(Cut(q, sorted)) = q.limit /\ Len(sorted) > q.limit /\ sorted # <<>>
  BY <1>4, <1>7, CutFacts
<1>9. \A c \in Range(sorted) : c \in Range(answer'.shown) \/ CutOff'
  BY <1>1, <1>2, <1>8 DEF CutOff
<1>10. ASSUME NEW c \in Range(cards), YandexFits(q, c)
       PROVE  c \in Range(answer'.shown) \/ CutOff'
  <2>1. c \in Range(sorted)
    BY <1>6, <1>7, <1>10
  <2> QED
    BY <1>9, <2>1
<1>11. UniqueIds(question'.cards) = cards
  BY <1>1 DEF cards
<1> HIDE DEF q
<1> QED
  BY <1>1, <1>3, <1>10, <1>11 DEF NothingVanishesSilently

------------------------------------------------------------------------------
(* From the cards to a named place, or a question.                         *)

\* What becomes of the groups when c comes: it joins one, or stands alone.
JoinedAs(new, groups, c, together) ==
    \/ /\ new = Append(groups, <<c>>)
       /\ \A i \in 1..Len(groups) : \A m \in Range(groups[i]) : <<c, m>> \notin together
    \/ \E i \in 1..Len(groups) :
         /\ \E m \in Range(groups[i]) : <<c, m>> \in together
         /\ new = [groups EXCEPT ![i] = Append(groups[i], c)]

\* A card joins one group or opens a new one; the other groups stay.
LEMMA JoiningFacts ==
    ASSUME NEW S, NEW groups \in Seq(Seq(S)), NEW c \in S, NEW together
    PROVE  /\ Joining(groups, c, together) \in Seq(Seq(S))
           /\ JoinedAs(Joining(groups, c, together), groups, c, together)
<1> DEFINE near == {i \in DOMAIN groups : \E m \in Range(groups[i]) : <<c, m>> \in together}
           i == Min(near)
<1>1. DOMAIN groups = 1..Len(groups) /\ Len(groups) \in Nat /\ \A j \in 1..Len(groups) : groups[j] \in Seq(S)
  OBVIOUS
<1>2. CASE near = {}
  <2>1. Joining(groups, c, together) = Append(groups, <<c>>)
    BY <1>2 DEF Joining
  <2>2. \A j \in 1..Len(groups) : \A m \in Range(groups[j]) : <<c, m>> \notin together
    BY <1>1, <1>2
  <2>3. <<c>> \in Seq(S)
    OBVIOUS
  <2>4. Append(groups, <<c>>) \in Seq(Seq(S))
    BY <2>3
  <2> QED
    BY <2>1, <2>2, <2>4 DEF JoinedAs
<1>3. CASE near # {}
  <2>1. i \in 1..Len(groups) /\ \E m \in Range(groups[i]) : <<c, m>> \in together
    <3>1. near \subseteq Nat
      BY <1>1
    <3>2. i \in near
      <4> HIDE DEF near
      <4> QED
        BY <1>3, <3>1, LeastIsIn
    <3> HIDE DEF i
    <3> QED
      BY <1>1, <3>2
  <2>2. Joining(groups, c, together) = [groups EXCEPT ![i] = Append(groups[i], c)]
    <3>1. Joining(groups, c, together) = IF near = {} THEN Append(groups, <<c>>)
                                         ELSE [groups EXCEPT ![Min(near)] = Append(groups[Min(near)], c)]
      BY DEF Joining
    <3> HIDE DEF near
    <3> QED
      BY <1>3, <3>1
  <2> HIDE DEF i
  <2>3. Append(groups[i], c) \in Seq(S)
    BY <1>1, <2>1
  <2>4. [groups EXCEPT ![i] = Append(groups[i], c)] \in Seq(Seq(S))
    BY <2>1, <2>3
  <2> QED
    BY <2>1, <2>2, <2>4 DEF JoinedAs
<1> QED
  BY <1>2, <1>3

\* The sequences that Groups passes through.
GroupingRun(kept, cards, together) ==
    /\ kept[0] = <<>> /\ Groups(cards, together) = kept[Len(cards)]
    /\ \A n \in 1..Len(cards) : kept[n] = Joining(kept[n - 1], cards[n], together)

LEMMA GroupingSteps ==
    ASSUME NEW S, NEW cards \in Seq(S), NEW together
    PROVE  \E kept : kept \in [0..Len(cards) -> Seq(Seq(S))] /\ GroupingRun(kept, cards, together)
<1> DEFINE N == Len(cards)
           X == Seq(Seq(S))
           step == [p \in (1..N) \X X |-> Joining(p[2], cards[p[1]], together)]
           body(g) == [n \in 0..N |-> IF n = 0 THEN <<>> ELSE Joining(g[n - 1], cards[n], together)]
           kept == CHOOSE g : g = body(g)
<1>1. N \in Nat /\ <<>> \in X
  OBVIOUS
<1>2. ASSUME NEW n \in 1..N, NEW x \in X
      PROVE  Joining(x, cards[n], together) \in X
  BY JoiningFacts
<1>3. step \in [(1..N) \X X -> X]
  <2>1. ASSUME NEW p \in (1..N) \X X
        PROVE  Joining(p[2], cards[p[1]], together) \in X
    <3>1. p[1] \in 1..N /\ p[2] \in X
      OBVIOUS
    <3> HIDE DEF N, X
    <3> QED
      BY <1>2, <3>1
  <2> HIDE DEF N, X
  <2> QED
    BY <2>1
<1>4. PICK f : Iterates(f, N, X, <<>>, step)
  <2> HIDE DEF N, X, step
  <2> QED
    BY <1>1, <1>3, Iterated
<1>5. f \in [0..N -> X] /\ f[0] = <<>> /\ \A n \in 1..N : f[n] = step[<<n, f[n - 1]>>]
  <2> HIDE DEF N, X, step
  <2> QED
    BY <1>4 DEF Iterates
<1>6. f = body(f)
  <2>1. ASSUME NEW n \in 1..N
        PROVE  f[n] = Joining(f[n - 1], cards[n], together)
    <3>1. n - 1 \in 0..N
      BY <1>1
    <3>2. <<n, f[n - 1]>> \in (1..N) \X X
      BY <1>5, <3>1
    <3>3. step[<<n, f[n - 1]>>] = Joining(f[n - 1], cards[n], together)
      <4> HIDE DEF N, X
      <4> QED
        BY <3>2
    <3> QED
      BY <1>5, <3>3
  <2>2. \A n \in 0..N : f[n] = IF n = 0 THEN <<>> ELSE Joining(f[n - 1], cards[n], together)
    <3>1. \A n \in 0..N : n = 0 \/ n \in 1..N
      BY <1>1
    <3> HIDE DEF N
    <3> QED
      BY <1>5, <2>1, <3>1
  <2>3. f = [n \in 0..N |-> f[n]]
    BY <1>5
  <2> HIDE DEF N, X
  <2> QED
    BY <2>2, <2>3
<1>7. kept = body(kept)
  <2> HIDE DEF body
  <2> QED
    BY <1>6
<1>8. Groups(cards, together) = kept[N]
  BY DEF Groups
<1> HIDE DEF kept
<1>9. kept[0] = <<>>
  <2>1. 0 \in 0..N
    BY <1>1
  <2> QED
    BY <1>7, <2>1
<1>10. ASSUME NEW n \in 1..N
      PROVE  kept[n] = Joining(kept[n - 1], cards[n], together)
  <2>1. n \in 0..N /\ n # 0
    BY <1>1
  <2> QED
    BY <1>7, <2>1
<1>11. kept \in [0..N -> X]
  <2>1. kept = [n \in 0..N |-> kept[n]]
    <3>1. DOMAIN kept = 0..N
      BY <1>7
    <3>2. body(kept) = [n \in 0..N |-> body(kept)[n]]
      OBVIOUS
    <3> HIDE DEF body
    <3> QED
      BY <1>7, <3>2
  <2>2. kept[0] \in X /\ \A n \in 1..N : kept[n - 1] \in X => kept[n] \in X
    <3> HIDE DEF N, X
    <3> QED
      BY <1>1, <1>2, <1>9, <1>10
  <2> HIDE DEF N, X, body
  <2> QED
    BY <1>1, <2>1, <2>2, StaysIn
<1> QED
  BY <1>8, <1>9, <1>10, <1>11 DEF GroupingRun

\* Linked, in a set of cards.
ChainedIn(a, b, X, together) ==
    \A side \in SUBSET X :
      a \in side /\ (\A c \in side, d \in X : <<c, d>> \in together => d \in side) => b \in side

\* The first n cards are in the groups, each linked with the first of its group, and the first
\* ones of two groups are not at one spot.
GroupedUpTo(cards, together, groups, n) ==
    /\ \A j \in 1..Len(groups) : Len(groups[j]) >= 1
    /\ n >= 1 => Len(groups) >= 1 /\ groups[1][1] = cards[1]
    /\ \A i \in 1..n : \E j \in 1..Len(groups) : cards[i] \in Range(groups[j])
    /\ \A j \in 1..Len(groups) : \A m \in Range(groups[j]) :
         (\E i \in 1..n : m = cards[i]) /\ ChainedIn(groups[j][1], m, Range(cards), together)
    /\ \A i, j \in 1..Len(groups) : i < j => <<groups[j][1], groups[i][1]>> \notin together

\* No card of the later groups is ranked before the first one of the second group.
RankedAfter(groups) == \A j \in 2..Len(groups) : \A m \in Range(groups[j]) : m.score <= groups[2][1].score

\* Append, with the length as a number.
LEMMA AppendFacts ==
    ASSUME NEW S, NEW s \in Seq(S), NEW c \in S
    PROVE  /\ Append(s, c) \in Seq(S) /\ Len(Append(s, c)) = Len(s) + 1 /\ Append(s, c)[Len(s) + 1] = c
           /\ \A i \in 1..Len(s) : Append(s, c)[i] = s[i]
           /\ Range(Append(s, c)) = Range(s) \cup {c}
<1> DEFINE more == Append(s, c)
<1>1. /\ more \in Seq(S) /\ Len(more) = Len(s) + 1 /\ more[Len(s) + 1] = c
      /\ Len(s) \in Nat /\ \A i \in 1..Len(s) : more[i] = s[i]
  OBVIOUS
<1> HIDE DEF more
<1>2. ASSUME NEW k PROVE k \in Range(more) <=> k \in Range(s) \cup {c}
  <2>1. k \in Range(more) <=> \E j \in 1..Len(more) : k = more[j]
    BY <1>1, RangeFacts
  <2>2. k \in Range(s) <=> \E j \in 1..Len(s) : k = s[j]
    BY RangeFacts
  <2>3. \A j : j \in 1..Len(more) <=> (j \in 1..Len(s) \/ j = Len(s) + 1)
    BY <1>1
  <2> QED
    BY <1>1, <2>1, <2>2, <2>3
<1>3. Range(more) = Range(s) \cup {c}
  BY <1>2
<1> QED
  BY <1>1, <1>3 DEF more

\* One more card keeps the groups chained within and apart between their first members.
LEMMA GroupStep ==
    ASSUME NEW S, NEW cards \in Seq(S), NEW together,
           \A a, b \in Range(cards) : <<a, b>> \in together => <<b, a>> \in together,
           NEW n \in 1..Len(cards), NEW groups \in Seq(Seq(S)), GroupedUpTo(cards, together, groups, n - 1),
           NEW new \in Seq(Seq(S)), JoinedAs(new, groups, cards[n], together)
    PROVE  /\ GroupedUpTo(cards, together, new, n)
           /\ Ranked(cards) /\ (\A c \in Range(cards) : c.score \in Int) /\ RankedAfter(groups) => RankedAfter(new)
<1> DEFINE X == Range(cards)
           c == cards[n]
           L == Len(groups)
<1>1. /\ \A j \in 1..L : Len(groups[j]) >= 1
      /\ n - 1 >= 1 => L >= 1 /\ groups[1][1] = cards[1]
      /\ \A i \in 1..(n - 1) : \E j \in 1..L : cards[i] \in Range(groups[j])
      /\ \A j \in 1..L : \A m \in Range(groups[j]) :
           (\E i \in 1..(n - 1) : m = cards[i]) /\ ChainedIn(groups[j][1], m, X, together)
      /\ \A i, j \in 1..L : i < j => <<groups[j][1], groups[i][1]>> \notin together
  BY Zenon DEF GroupedUpTo
<1>2. /\ c \in X /\ c \in S /\ n \in Nat /\ n >= 1 /\ L \in Nat /\ n \in 1..n
      /\ \A i \in 1..(n - 1) : i \in 1..n /\ cards[i] \in X /\ i \in DOMAIN cards /\ i <= n
      /\ n \in DOMAIN cards
  <2>1. Len(cards) \in Nat /\ L \in Nat /\ DOMAIN cards = 1..Len(cards)
    OBVIOUS
  <2>2. n \in Nat /\ n >= 1 /\ \A i \in 1..(n - 1) : i \in 1..Len(cards) /\ i \in 1..n /\ i <= n
    BY <2>1
  <2> QED
    BY <2>1, <2>2, RangeFacts
<1>3. ASSUME NEW i \in 1..n PROVE i = n \/ i \in 1..(n - 1)
  BY <1>2
<1>4. /\ \A j \in 1..L : groups[j] \in Seq(S) /\ 1 \in 1..Len(groups[j]) /\ groups[j][1] \in Range(groups[j])
  <2>1. ASSUME NEW j \in 1..L
        PROVE  groups[j] \in Seq(S) /\ 1 \in 1..Len(groups[j]) /\ groups[j][1] \in Range(groups[j])
    <3>1. groups[j] \in Seq(S) /\ Len(groups[j]) >= 1
      BY <1>1
    <3>2. 1 \in 1..Len(groups[j])
      BY <3>1
    <3> QED
      BY <3>1, <3>2, RangeFacts
  <2> QED
    BY <2>1
<1>5. ASSUME L >= 1 PROVE n - 1 >= 1
  <2>1. 1 \in 1..L
    BY <1>2, <1>5
  <2>2. PICK i \in 1..(n - 1) : groups[1][1] = cards[i]
    BY <1>1, <1>4, <2>1
  <2> QED
    BY <1>2, <2>2
<1>9. \A j \in 1..L : \A m \in Range(groups[j]) : \E i \in 1..(n - 1) : m = cards[i]
  BY <1>1
<1>10. \A j \in 1..L : \A m \in Range(groups[j]) : ChainedIn(groups[j][1], m, X, together)
  BY <1>1
<1>11. \A j \in 1..L : \A m \in Range(groups[j]) : m \in X /\ \E i \in 1..n : m = cards[i]
  <2>1. \A i \in 1..(n - 1) : i \in 1..n /\ cards[i] \in X
    BY <1>2
  <2> HIDE DEF X, L
  <2> QED
    BY <1>9, <2>1
<1> HIDE DEF X, L, c
<1>6. CASE /\ new = Append(groups, <<c>>)
           /\ \A i \in 1..L : \A m \in Range(groups[i]) : <<c, m>> \notin together
  <2>1. /\ Len(new) = L + 1 /\ new[L + 1] = <<c>> /\ \A j \in 1..L : new[j] = groups[j]
    <3>1. <<c>> \in Seq(S)
      BY <1>2
    <3> QED
      BY <1>6, <3>1, AppendFacts DEF L
  <2>2. Len(<<c>>) = 1 /\ <<c>>[1] = c /\ Range(<<c>>) = {c}
    BY DEF Range
  <2>3. \A j \in 1..Len(new) : (j \in 1..L /\ new[j] = groups[j]) \/ (j = L + 1 /\ new[j] = <<c>>)
    BY <1>2, <2>1
  <2>4. \A j \in 1..L : j \in 1..Len(new)
    BY <1>2, <2>1
  <2>5. L + 1 \in 1..Len(new)
    BY <1>2, <2>1
  <2>6. ASSUME NEW j \in 1..Len(new) PROVE Len(new[j]) >= 1
    <3>1. CASE j \in 1..L /\ new[j] = groups[j]
      <4>1. \A k \in 1..L : Len(groups[k]) >= 1
        BY <1>1
      <4> QED
        BY <3>1, <4>1
    <3>2. CASE j = L + 1 /\ new[j] = <<c>>
      BY <2>2, <3>2
    <3> QED
      BY <2>3, <3>1, <3>2
  <2>7. Len(new) >= 1 /\ new[1][1] = cards[1]
    <3>1. CASE L >= 1
      <4>1. 1 \in 1..L /\ groups[1][1] = cards[1]
        BY <1>1, <1>2, <1>5, <3>1
      <4> QED
        BY <1>2, <2>1, <4>1
    <3>2. CASE ~(L >= 1)
      <4>1. L = 0
        BY <1>2, <3>2
      <4>2. n = 1
        <5>1. ASSUME n - 1 >= 1 PROVE FALSE
          BY <1>1, <4>1, <5>1
        <5> QED
          BY <1>2, <5>1
      <4> QED
        BY <2>1, <2>2, <4>1, <4>2 DEF c
    <3> QED
      BY <3>1, <3>2
  <2>8. ASSUME NEW i \in 1..n
        PROVE  \E j \in 1..Len(new) : cards[i] \in Range(new[j])
    <3>1. CASE i = n
      BY <2>1, <2>2, <2>5, <3>1 DEF c
    <3>2. CASE i \in 1..(n - 1)
      <4>1. PICK j \in 1..L : cards[i] \in Range(groups[j])
        BY <1>1, <3>2
      <4> QED
        BY <2>1, <2>4, <4>1
    <3> QED
      BY <1>3, <3>1, <3>2
  <2>9. ASSUME NEW j \in 1..Len(new), NEW m \in Range(new[j])
        PROVE  (\E i \in 1..n : m = cards[i]) /\ ChainedIn(new[j][1], m, X, together)
    <3>1. CASE j \in 1..L /\ new[j] = groups[j]
      BY <1>10, <1>11, <3>1
    <3>2. CASE j = L + 1 /\ new[j] = <<c>>
      <4>1. m = c /\ new[j][1] = c
        <5>1. Range(new[j]) = {c} /\ new[j][1] = c
          BY <2>2, <3>2
        <5> QED
          BY <5>1
      <4> QED
        BY <1>2, <4>1 DEF ChainedIn, c
    <3> QED
      BY <2>3, <3>1, <3>2
  <2>10. ASSUME NEW i \in 1..Len(new), NEW j \in 1..Len(new), i < j
         PROVE  <<new[j][1], new[i][1]>> \notin together
    <3>1. i \in 1..L /\ new[i] = groups[i]
      BY <1>2, <2>1, <2>10
    <3>2. CASE j \in 1..L /\ new[j] = groups[j]
      BY <1>1, <2>10, <3>1, <3>2
    <3>3. CASE j = L + 1 /\ new[j] = <<c>>
      BY <1>4, <1>6, <2>2, <3>1, <3>3
    <3> QED
      BY <2>3, <3>2, <3>3
  <2>11. GroupedUpTo(cards, together, new, n)
    BY <2>6, <2>7, <2>8, <2>9, <2>10 DEF GroupedUpTo, X
  <2>12. ASSUME Ranked(cards), \A x \in Range(cards) : x.score \in Int, RankedAfter(groups)
         PROVE  RankedAfter(new)
    <3>1. SUFFICES ASSUME NEW j \in 2..Len(new), NEW m \in Range(new[j])
                   PROVE  m.score <= new[2][1].score
      BY DEF RankedAfter
    <3>2. c.score \in Int
      BY <1>2, <2>12 DEF X
    <3>3. CASE L >= 2
      <4>1. 2 \in 1..L /\ new[2] = groups[2]
        BY <1>2, <2>1, <3>3
      <4>2. CASE j \in 1..L
        <5>1. j \in 2..L /\ new[j] = groups[j]
          BY <2>1, <4>2
        <5> QED
          BY <2>12, <4>1, <5>1 DEF RankedAfter, L
      <4>3. CASE j = L + 1
        <5>1. m = c
          BY <2>1, <2>2, <4>3
        <5>2. PICK i \in 1..(n - 1) : groups[2][1] = cards[i]
          BY <1>9, <1>4, <4>1
        <5>3. c.score <= cards[i].score
          BY <1>2, <2>12 DEF Ranked, c
        <5> QED
          BY <4>1, <5>1, <5>2, <5>3
      <4> QED
        BY <1>2, <2>1, <4>2, <4>3
    <3>4. CASE ~(L >= 2)
      <4>1. j = L + 1 /\ j = 2
        BY <1>2, <2>1, <3>4
      <4>2. m = c /\ new[2][1] = c
        <5>1. new[2] = <<c>> /\ new[j] = <<c>>
          BY <2>1, <4>1
        <5>2. Range(new[j]) = {c} /\ new[2][1] = c
          BY <2>2, <5>1
        <5> QED
          BY <5>2
      <4> QED
        BY <3>2, <4>2
    <3> QED
      BY <3>3, <3>4
  <2> QED
    BY <2>11, <2>12
<1>7. ASSUME NEW g \in 1..L, NEW p \in Range(groups[g]), <<c, p>> \in together,
             new = [groups EXCEPT ![g] = Append(groups[g], c)]
      PROVE  /\ GroupedUpTo(cards, together, new, n)
             /\ Ranked(cards) /\ (\A x \in Range(cards) : x.score \in Int) /\ RankedAfter(groups)
                  => RankedAfter(new)
  <2> DEFINE grown == Append(groups[g], c)
  <2>1. /\ Len(new) = L /\ new[g] = grown /\ \A j \in 1..L : j # g => new[j] = groups[j]
    BY <1>7 DEF L
  <2>2. /\ Len(grown) >= 1 /\ grown[1] = groups[g][1] /\ Range(grown) = Range(groups[g]) \cup {c}
    <3>1. /\ Len(grown) = Len(groups[g]) + 1 /\ grown[1] = groups[g][1]
          /\ Range(grown) = Range(groups[g]) \cup {c}
      BY <1>2, <1>4, AppendFacts
    <3>2. Len(groups[g]) \in Nat
      BY <1>4
    <3> HIDE DEF grown
    <3> QED
      BY <3>1, <3>2
  <2> HIDE DEF grown
  <2>3. /\ \A j \in 1..L : Len(new[j]) >= 1 /\ new[j][1] = groups[j][1]
                             /\ \A m \in Range(groups[j]) : m \in Range(new[j])
        /\ \A j \in 1..L : \A m \in Range(new[j]) : m \in Range(groups[j]) \/ (j = g /\ m = c)
    BY <1>1, <2>1, <2>2
  <2>4. Len(new) >= 1 /\ new[1][1] = cards[1]
    <3>1. L >= 1 /\ 1 \in 1..L
      BY <1>2
    <3>2. groups[1][1] = cards[1]
      BY <1>1, <1>5, <3>1
    <3> QED
      BY <2>1, <2>3, <3>1, <3>2
  <2>5. ASSUME NEW i \in 1..n
        PROVE  \E j \in 1..Len(new) : cards[i] \in Range(new[j])
    <3>1. CASE i = n
      BY <2>1, <2>2, <3>1 DEF c
    <3>2. CASE i \in 1..(n - 1)
      <4>1. PICK j \in 1..L : cards[i] \in Range(groups[j])
        BY <1>1, <3>2
      <4> QED
        BY <2>1, <2>3, <4>1
    <3> QED
      BY <1>3, <3>1, <3>2
  <2>6. ASSUME NEW j \in 1..Len(new), NEW m \in Range(new[j])
        PROVE  (\E i \in 1..n : m = cards[i]) /\ ChainedIn(new[j][1], m, X, together)
    <3>1. CASE m \in Range(groups[j])
      <4>1. j \in 1..L /\ new[j][1] = groups[j][1]
        BY <2>1, <2>3
      <4> QED
        BY <1>10, <1>11, <3>1, <4>1
    <3>2. CASE j = g /\ m = c
      <4>1. \E i \in 1..n : m = cards[i]
        BY <1>2, <3>2 DEF c
      <4>2. p \in X /\ <<p, c>> \in together
        <5>1. p \in X
          BY <1>11
        <5> QED
          BY <1>2, <1>7, <5>1 DEF X
      <4>3. ChainedIn(groups[g][1], p, X, together)
        BY <1>1
      <4>4. ChainedIn(groups[g][1], c, X, together)
        BY <1>2, <4>2, <4>3 DEF ChainedIn
      <4> QED
        BY <2>3, <3>2, <4>1, <4>4
    <3> QED
      BY <2>1, <2>3, <3>1, <3>2
  <2>7. ASSUME NEW i \in 1..Len(new), NEW j \in 1..Len(new), i < j
        PROVE  <<new[j][1], new[i][1]>> \notin together
    BY <1>1, <2>1, <2>3, <2>7
  <2>8. GroupedUpTo(cards, together, new, n)
    BY <2>1, <2>3, <2>4, <2>5, <2>6, <2>7 DEF GroupedUpTo, X
  <2>9. ASSUME Ranked(cards), \A x \in Range(cards) : x.score \in Int, RankedAfter(groups)
        PROVE  RankedAfter(new)
    <3>1. SUFFICES ASSUME NEW j \in 2..Len(new), NEW m \in Range(new[j])
                   PROVE  m.score <= new[2][1].score
      BY DEF RankedAfter
    <3>2. j \in 1..L /\ j \in 2..L /\ 2 \in 1..L
      BY <1>2, <2>1
    <3>3. CASE m \in Range(groups[j])
      BY <2>3, <2>9, <3>2, <3>3 DEF RankedAfter, L
    <3>4. CASE m = c
      <4>1. PICK i \in 1..(n - 1) : groups[2][1] = cards[i]
        BY <1>9, <1>4, <3>2
      <4>2. c.score <= cards[i].score
        BY <1>2, <2>9 DEF Ranked, c
      <4> QED
        BY <2>3, <3>2, <3>4, <4>1, <4>2
    <3> QED
      BY <2>3, <3>2, <3>3, <3>4
  <2> QED
    BY <2>8, <2>9
<1>8. \/ /\ new = Append(groups, <<c>>)
         /\ \A i \in 1..L : \A m \in Range(groups[i]) : <<c, m>> \notin together
      \/ \E i \in 1..L : /\ \E m \in Range(groups[i]) : <<c, m>> \in together
                         /\ new = [groups EXCEPT ![i] = Append(groups[i], c)]
  BY Zenon DEF JoinedAs, L, c
<1> QED
  <2>1. CASE /\ new = Append(groups, <<c>>)
             /\ \A i \in 1..L : \A m \in Range(groups[i]) : <<c, m>> \notin together
    BY <1>6, <2>1
  <2>2. CASE \E i \in 1..L : /\ \E m \in Range(groups[i]) : <<c, m>> \in together
                             /\ new = [groups EXCEPT ![i] = Append(groups[i], c)]
    BY <1>7, <2>2, Zenon
  <2> QED
    BY <1>8, <2>1, <2>2

\* Groups are not empty, hold every card, are chained within, and their first cards lie apart.
LEMMA GroupsFacts ==
    ASSUME NEW S, NEW cards \in Seq(S), NEW together,
           \A a, b \in Range(cards) : <<a, b>> \in together => <<b, a>> \in together
    PROVE  /\ Groups(cards, together) \in Seq(Seq(S))
           /\ GroupedUpTo(cards, together, Groups(cards, together), Len(cards))
           /\ Ranked(cards) /\ (\A c \in Range(cards) : c.score \in Int) => RankedAfter(Groups(cards, together))
<1>1. PICK groups : groups \in [0..Len(cards) -> Seq(Seq(S))] /\ GroupingRun(groups, cards, together)
  BY GroupingSteps
<1> DEFINE N == Len(cards)
           Scored == Ranked(cards) /\ \A c \in Range(cards) : c.score \in Int
<1>2. N \in Nat
  OBVIOUS
<1>3. /\ groups \in [0..N -> Seq(Seq(S))] /\ groups[0] = <<>> /\ Groups(cards, together) = groups[N]
      /\ \A n \in 1..N : groups[n] = Joining(groups[n - 1], cards[n], together)
  BY <1>1, Zenon DEF GroupingRun
<1> HIDE DEF Scored
<1> DEFINE Good == {n \in 0..N : /\ GroupedUpTo(cards, together, groups[n], n)
                                 /\ Scored => RankedAfter(groups[n])}
<1>4. 0 \in Good
  <2>1. GroupedUpTo(cards, together, <<>>, 0)
    BY DEF GroupedUpTo
  <2>2. RankedAfter(<<>>)
    BY DEF RankedAfter
  <2> QED
    BY <1>2, <1>3, <2>1, <2>2
<1>5. ASSUME NEW n \in 1..N, n - 1 \in Good
      PROVE  n \in Good
  <2> DEFINE old == groups[n - 1]
             new == Joining(old, cards[n], together)
  <2>1. /\ n - 1 \in 0..N /\ n \in 0..N /\ old \in Seq(Seq(S)) /\ cards[n] \in S
        /\ GroupedUpTo(cards, together, old, n - 1) /\ (Scored => RankedAfter(old))
        /\ groups[n] = new
    BY <1>3, <1>5
  <2> HIDE DEF old
  <2>2. new \in Seq(Seq(S)) /\ JoinedAs(new, old, cards[n], together)
    BY <2>1, JoiningFacts
  <2> HIDE DEF new, N
  <2>3. n \in 1..Len(cards)
    BY DEF N
  <2>4. /\ GroupedUpTo(cards, together, new, n)
        /\ Ranked(cards) /\ (\A c \in Range(cards) : c.score \in Int) /\ RankedAfter(old) => RankedAfter(new)
    BY <2>1, <2>2, <2>3, GroupStep
  <2> QED
    BY <2>1, <2>4 DEF Scored
<1>6. N \in Good
  <2>1. N \in 0..N
    BY <1>2
  <2> HIDE DEF Good, N
  <2> QED
    BY <1>2, <1>4, <1>5, <2>1, EachUpTo
<1> QED
  BY <1>2, <1>3, <1>6 DEF Scored

\* The options of a question are not at one spot, and there are two or more.
LEMMA HeadsFacts ==
    ASSUME NEW cards, NEW together, NEW groups, NEW n, GroupedUpTo(cards, together, groups, n),
           Len(groups) \in Nat, Len(groups) > 1
    PROVE  /\ Len(Heads(groups)) \in 2..MaxOptions /\ DOMAIN Heads(groups) = 1..Len(Heads(groups))
           /\ \A i \in DOMAIN Heads(groups) :
                i \in 1..Len(groups) /\ Heads(groups)[i] = groups[i][1]
           /\ \A i, j \in DOMAIN Heads(groups) : i < j => <<Heads(groups)[j], Heads(groups)[i]>> \notin together
<1> DEFINE m == IF Len(groups) < MaxOptions THEN Len(groups) ELSE MaxOptions
           heads == [i \in 1..m |-> groups[i][1]]
<1>1. m \in 2..MaxOptions /\ m <= Len(groups) /\ m \in Nat
  BY BoundsAreNumbers
<1>2. Heads(groups) = heads
  BY DEF Heads
<1>3. \A i, j \in 1..Len(groups) : i < j => <<groups[j][1], groups[i][1]>> \notin together
  BY DEF GroupedUpTo
<1> HIDE DEF m
<1>4. Len(heads) = m /\ DOMAIN heads = 1..m /\ \A i \in 1..m : heads[i] = groups[i][1] /\ i \in 1..Len(groups)
  BY <1>1
<1> HIDE DEF heads
<1> QED
  BY <1>1, <1>2, <1>3, <1>4

\* Each preference of the 2GIS matching returns cards that it was given.
LEMMA PreferencesStay ==
    ASSUME NEW S, NEW cards \in Seq(S), NEW query
    PROVE  /\ \A merge : DeduplicateCandidates(cards, merge) \in Seq(S)
           /\ PreferExplicitExtension(cards, query) \in Seq(S)
           /\ PreferExactNonTransit(cards, query) \in Seq(S)
           /\ PreferAddressableLandmark(cards) \in Seq(S)
           /\ PreferExactTypeHintName(cards, query) \in Seq(S)
<1>1. \A good : Only(cards, good) \in Seq(S)
  BY OnlyThose
<1>2. \A same : Distinct(cards, same) \in Seq(S)
  BY DistinctThose
<1>3. \A merge : DeduplicateCandidates(cards, merge) \in Seq(S)
  BY <1>2 DEF DeduplicateCandidates
<1>4. PreferExplicitExtension(cards, query) \in Seq(S)
  <2> DEFINE a == Only(cards, {c \in Range(cards) : RequestsExtension(c, query)})
             b == Only(cards, {c \in Range(cards) : c.extension = <<>>})
  <2>1. PreferExplicitExtension(cards, query) \in {a, b, cards}
    BY Zenon DEF PreferExplicitExtension, OrElse
  <2>2. a \in Seq(S) /\ b \in Seq(S)
    BY <1>1
  <2> HIDE DEF a, b
  <2> QED
    BY <2>1, <2>2
<1>5. PreferExactNonTransit(cards, query) \in Seq(S)
  <2> DEFINE a == Only(cards, {c \in Range(cards) : c.kind # "transit_stop"})
  <2>1. PreferExactNonTransit(cards, query) \in {a, cards}
    BY Zenon DEF PreferExactNonTransit
  <2>2. a \in Seq(S)
    BY <1>1
  <2> HIDE DEF a
  <2> QED
    BY <2>1, <2>2
<1>6. PreferAddressableLandmark(cards) \in Seq(S)
  <2> DEFINE a == Only(cards, {c \in Range(cards) : c.kind \notin {"transit_stop", "park"} \/ HasAddressIdentity(c)})
  <2>1. PreferAddressableLandmark(cards) \in {a, cards}
    BY Zenon DEF PreferAddressableLandmark
  <2>2. a \in Seq(S)
    BY <1>1
  <2> HIDE DEF a
  <2> QED
    BY <2>1, <2>2
<1>7. PreferExactTypeHintName(cards, query) \in Seq(S)
  <2> DEFINE a == Only(cards, {c \in Range(cards) : IsCalled(c, CoreQuery(query))})
  <2>1. PreferExactTypeHintName(cards, query) \in {a, cards}
    BY Zenon DEF PreferExactTypeHintName, OrElse
  <2>2. a \in Seq(S)
    BY <1>1
  <2> HIDE DEF a
  <2> QED
    BY <2>1, <2>2
<1> QED
  BY <1>3, <1>4, <1>5, <1>6, <1>7

\* So what BuildNamedCandidates returns are cards of the response.
LEMMA NamedCandidatesStay ==
    ASSUME NEW S, NEW items \in Seq(S), NEW query, NEW city
    PROVE  BuildNamedCandidates(items, query, city) \in Seq(S)
<1> DEFINE hint == TypeHint(query)
           inScope == Only(items, {c \in Range(items) :
                       /\ c.point # NoPoint
                       /\ city # <<>> => MatchesLocality(c, city)
                       /\ hint # NoHint => c.kind \in hint.kinds})
           named == Only(inScope, {c \in Range(inScope) : MatchesName(c, query)})
           explicit == Only(inScope, {c \in Range(inScope) : ExplicitlyMatchesLocality(c, city)})
           strict == DeduplicateCandidates(explicit, TRUE)
           found == IF named = <<>> /\ hint # NoHint /\ city # <<>> /\ Len(strict) = 1
                    THEN strict ELSE named
           asked == PreferExplicitExtension(found, query)
           direct == PreferExactNonTransit(asked, query)
           placed == PreferAddressableLandmark(direct)
           called == PreferExactTypeHintName(placed, query)
<1>1. BuildNamedCandidates(items, query, city) = DeduplicateCandidates(called, TRUE)
  BY Zenon DEF BuildNamedCandidates
<1>2. inScope \in Seq(S)
  BY OnlyThose
<1> HIDE DEF inScope
<1>3. named \in Seq(S) /\ explicit \in Seq(S)
  BY <1>2, OnlyThose
<1> HIDE DEF named, explicit
<1>4. strict \in Seq(S)
  BY <1>3, PreferencesStay
<1> HIDE DEF strict
<1>5. found \in Seq(S)
  BY <1>3, <1>4
<1> HIDE DEF found
<1>6. asked \in Seq(S)
  BY <1>5, PreferencesStay
<1> HIDE DEF asked
<1>7. direct \in Seq(S)
  BY <1>6, PreferencesStay
<1> HIDE DEF direct
<1>8. placed \in Seq(S)
  BY <1>7, PreferencesStay
<1> HIDE DEF placed
<1>9. called \in Seq(S)
  BY <1>8, PreferencesStay
<1> HIDE DEF called
<1> QED
  BY <1>1, <1>9, PreferencesStay

LEMMA NamedFacts ==
    ASSUME NEW q, WellFormed(q), q.op \in Naming
    PROVE  /\ q.cards \in Seq(Range(q.cards)) /\ \A c \in Range(q.cards) : c.point \in Int
           /\ q.op = "tomtom_named" => Ranked(q.cards) /\ \A c \in Range(q.cards) : c.score \in Int
BY DEF WellFormed

\* Distance is the same both ways.
LEMMA DistanceIsMutual ==
    ASSUME NEW a \in Int, NEW b \in Int
    PROVE  Distance(a, b) = Distance(b, a)
BY DEF Distance

LEMMA SameAnchorIsMutual ==
    ASSUME NEW a, NEW b, a.point \in Int, b.point \in Int
    PROVE  /\ SameAnchorTwogis(a, b) => SameAnchorTwogis(b, a)
           /\ SameAnchorTomTom(a, b) => SameAnchorTomTom(b, a)
BY DistanceIsMutual DEF SameAnchorTwogis, SameAnchorTomTom

\* The card that PreferUniqueName settles on is the only one the query spells out.
LEMMA UniqueNameFacts ==
    ASSUME NEW S, NEW cards \in Seq(S), NEW query, cards # <<>>
    PROVE  \/ PreferUniqueName(cards, query) = cards
           \/ /\ PreferUniqueName(cards, query) = <<cards[1]>>
              /\ \A c \in Range(cards) : AllSaidIn(c.aliases[1], query) <=> c = cards[1]
<1> DEFINE good == {c \in Range(cards) : AllSaidIn(c.aliases[1], query)}
<1>1. PreferUniqueName(cards, query) = IF Only(cards, good) = <<cards[1]>> THEN <<cards[1]>> ELSE cards
  BY DEF PreferUniqueName
<1>2. ASSUME Only(cards, good) = <<cards[1]>>, NEW c \in Range(cards)
      PROVE  AllSaidIn(c.aliases[1], query) <=> c = cards[1]
  <2>1. c \in Range(<<cards[1]>>) <=> c \in Range(cards) /\ c \in good
    <3> HIDE DEF good
    <3>1. c \in Range(Only(cards, good)) <=> c \in Range(cards) /\ c \in good
      BY OnlyThose
    <3> QED
      BY <1>2, <3>1
  <2>2. Range(<<cards[1]>>) = {cards[1]}
    BY DEF Range
  <2> QED
    BY <2>1, <2>2
<1> HIDE DEF good
<1> QED
  BY <1>1, <1>2

\* Each answer about a named place of 2GIS is right.
LEMMA TwogisNamedTells ==
    ASSUME WellFormed(question), TwogisNamed
    PROVE  AnchorIsNeverGuessed'
<1> DEFINE q == question
           items == BuildNamedCandidates(q.cards, q.query, q.locality)
           anchors == PreferUniqueName(items, q.query)
           together == {p \in Range(anchors) \X Range(anchors) : SameAnchorTwogis(p[1], p[2])}
           groups == Groups(anchors, together)
           S == Range(q.cards)
           reply == IF items = <<>> THEN [kind |-> "no place"]
                    ELSE IF Len(groups) > 1 THEN Ask(groups) ELSE Take(groups[1][1])
<1>1. question' = q /\ q.op = "twogis_named" /\ answer' = reply
  BY Zenon DEF TwogisNamed, Reply
<1>2. q.cards \in Seq(S) /\ \A c \in S : c.point \in Int
  BY <1>1, NamedFacts DEF Naming
<1> HIDE DEF S
<1>3. items \in Seq(S)
  BY <1>2, NamedCandidatesStay
<1>4. BuildNamedCandidates(question'.cards, question'.query, question'.locality) = items
  BY <1>1
<1>5. ~Answered("tomtom_named")'
  BY <1>1 DEF Answered
<1> DEFINE Apart == answer'.kind = "question" =>
                      /\ Len(answer'.options) \in 2..MaxOptions
                      /\ \A i, j \in DOMAIN answer'.options :
                           i < j => ~SameAnchorTwogis(answer'.options[i], answer'.options[j])
           Settled == answer'.kind = "place" =>
                        \/ \A c \in Range(items) : Linked(answer'.place, c, items, SameAnchorTwogis)
                        \/ \A c \in Range(items) : AllSaidIn(c.aliases[1], q.query) <=> c = answer'.place
<1>6. SUFFICES Apart /\ Settled
  <2> HIDE DEF items
  <2>1. question'.query = q.query
    BY <1>1
  <2> HIDE DEF q
  <2> QED
    BY <1>4, <1>5, <2>1 DEF AnchorIsNeverGuessed
<1> HIDE DEF items
<1>7. CASE items = <<>>
  <2>1. answer' = [kind |-> "no place"]
    BY <1>1, <1>7
  <2>2. answer'.kind # "question" /\ answer'.kind # "place"
    BY <2>1
  <2> QED
    BY <2>2
<1>8. CASE items # <<>>
  <2>1. \/ anchors = items
        \/ anchors = <<items[1]>> /\ \A c \in Range(items) : AllSaidIn(c.aliases[1], q.query) <=> c = items[1]
    BY <1>3, <1>8, UniqueNameFacts
  <2>2. items[1] \in S
    BY <1>3, <1>8
  <2>3. anchors \in Seq(S) /\ anchors # <<>>
    <3>1. <<items[1]>> \in Seq(S) /\ <<items[1]>> # <<>>
      BY <2>2
    <3> HIDE DEF anchors
    <3> QED
      BY <1>3, <1>8, <2>1, <3>1
  <2> HIDE DEF anchors, q
  <2>4. \A c \in Range(anchors) : c \in S /\ c.point \in Int
    BY <1>2, <2>3, RangeFacts
  <2>5. \A a, b \in Range(anchors) : <<a, b>> \in together <=> SameAnchorTwogis(a, b)
    OBVIOUS
  <2> HIDE DEF together
  <2>6. \A a, b \in Range(anchors) : <<a, b>> \in together => <<b, a>> \in together
    BY <2>4, <2>5, SameAnchorIsMutual
  <2>7. groups \in Seq(Seq(S)) /\ GroupedUpTo(anchors, together, groups, Len(anchors))
    BY <2>3, <2>6, GroupsFacts
  <2> HIDE DEF groups
  <2>8. Len(anchors) \in Nat /\ Len(anchors) >= 1 /\ 1 \in 1..Len(anchors) /\ Len(groups) \in Nat
    BY <2>3, <2>7
  <2>9. /\ Len(groups) >= 1 /\ groups[1][1] = anchors[1]
        /\ \A i \in 1..Len(anchors) : \E j \in 1..Len(groups) : anchors[i] \in Range(groups[j])
        /\ \A j \in 1..Len(groups) : \A m \in Range(groups[j]) :
             /\ \E i \in 1..Len(anchors) : m = anchors[i]
             /\ ChainedIn(groups[j][1], m, Range(anchors), together)
    BY <2>7, <2>8, Zenon DEF GroupedUpTo
  <2>10. CASE Len(groups) > 1
    <3>1. answer' = Ask(groups)
      BY <1>1, <1>8, <2>10
    <3>2. answer'.kind = "question" /\ answer'.options = Heads(groups)
      BY <3>1 DEF Ask
    <3>3. Settled
      BY <3>2
    <3>4. /\ Len(Heads(groups)) \in 2..MaxOptions /\ DOMAIN Heads(groups) = 1..Len(Heads(groups))
          /\ \A i \in DOMAIN Heads(groups) :
               i \in 1..Len(groups) /\ Heads(groups)[i] = groups[i][1]
          /\ \A i, j \in DOMAIN Heads(groups) : i < j => <<Heads(groups)[j], Heads(groups)[i]>> \notin together
      BY <2>7, <2>8, <2>10, HeadsFacts
    <3>5. ASSUME NEW i \in DOMAIN Heads(groups)
          PROVE  Heads(groups)[i] \in Range(anchors)
      <4>1. i \in 1..Len(groups) /\ Heads(groups)[i] = groups[i][1]
        BY <3>4
      <4>2. groups[i] \in Seq(S) /\ Len(groups[i]) >= 1
        BY <2>7, <4>1 DEF GroupedUpTo
      <4>3. groups[i][1] \in Range(groups[i])
        BY <4>2, RangeFacts
      <4>4. PICK k \in 1..Len(anchors) : groups[i][1] = anchors[k]
        BY <2>9, <4>1, <4>3
      <4> QED
        BY <2>3, <4>1, <4>4, RangeFacts
    <3>6. ASSUME NEW i \in DOMAIN Heads(groups), NEW j \in DOMAIN Heads(groups), i < j
          PROVE  ~SameAnchorTwogis(Heads(groups)[i], Heads(groups)[j])
      BY <2>5, <2>6, <3>4, <3>5, <3>6
    <3>7. Apart
      BY <3>2, <3>4, <3>6
    <3> QED
      BY <3>3, <3>7
  <2>11. CASE ~(Len(groups) > 1)
    <3>1. answer' = Take(groups[1][1])
      BY <1>1, <1>8, <2>11
    <3>2. answer'.kind = "place" /\ answer'.place = anchors[1]
      BY <2>9, <3>1 DEF Take
    <3>3. Apart
      BY <3>2
    <3>4. CASE anchors = items
      <4>1. ASSUME NEW c \in Range(items) PROVE Linked(anchors[1], c, items, SameAnchorTwogis)
        <5>1. PICK i \in 1..Len(anchors) : c = anchors[i]
          BY <2>3, <3>4, RangeFacts
        <5>2. PICK j \in 1..Len(groups) : c \in Range(groups[j])
          BY <2>9, <5>1
        <5>3. j = 1
          BY <2>8, <2>9, <2>11
        <5>4. ChainedIn(anchors[1], c, Range(anchors), together)
          BY <2>9, <5>2, <5>3
        <5> QED
          BY <2>5, <3>4, <5>4 DEF ChainedIn, Linked
      <4> QED
        BY <3>2, <3>3, <4>1
    <3>5. CASE /\ anchors = <<items[1]>>
               /\ \A c \in Range(items) : AllSaidIn(c.aliases[1], q.query) <=> c = items[1]
      <4>1. answer'.place = items[1]
        BY <3>2, <3>5
      <4> QED
        BY <3>3, <3>5, <4>1
    <3> QED
      BY <2>1, <3>4, <3>5
  <2> QED
    BY <2>10, <2>11
<1> QED
  BY <1>7, <1>8

\* A score that is not within the gap of the first is beyond it, and so is every lower one.
LEMMA BeyondTheGap ==
    ASSUME NEW first \in Int, NEW second \in Int, NEW score \in Int, second <= first, score <= second,
           ~ScoresRequireClarification(first, second)
    PROVE  100 * (first - score) >= AmbiguityGap * first
<1>1. AmbiguityGap \in Nat
  BY BoundsAreNumbers
<1>2. CASE first <= 0
  <2>1. AmbiguityGap * first <= 0
    BY <1>1, <1>2
  <2>2. 100 * (first - score) >= 0
    OBVIOUS
  <2> DEFINE g == AmbiguityGap * first
  <2>3. g \in Int
    BY <1>1
  <2> HIDE DEF g
  <2>4. 100 * (first - score) >= g
    BY <2>1, <2>2, <2>3 DEF g
  <2> QED
    BY <2>4 DEF g
<1>3. CASE first > 0
  <2> DEFINE g == AmbiguityGap * first
  <2>1. g \in Int /\ ~(100 * (first - second) < g)
    BY <1>1, <1>3 DEF ScoresRequireClarification
  <2> HIDE DEF g
  <2>2. 100 * (first - score) >= g
    BY <2>1
  <2> QED
    BY <2>2 DEF g
<1> QED
  BY <1>2, <1>3

\* Each answer about a named place of TomTom is right.
LEMMA TomTomNamedTells ==
    ASSUME WellFormed(question), TomTomNamed
    PROVE  AnchorIsNeverGuessed'
<1> DEFINE q == question
           results == TomTomCandidates(q)
           cards == UniqueIdentities(results)
           exact == {c \in Range(cards) : TomTomScore(c, q.query, q.locality) = Exact}
           anchors == ExcludeAuxiliary(cards, exact)
           together == {p \in Range(anchors) \X Range(anchors) : SameAnchorTomTom(p[1], p[2])}
           groups == Groups(anchors, together)
           unsure == Len(groups) > 1 /\ ScoresRequireClarification(groups[1][1].score, groups[2][1].score)
           reply == IF groups = <<>> THEN [kind |-> "no place"]
                    ELSE IF unsure THEN Ask(groups) ELSE Take(groups[1][1])
           S == Range(q.cards)
           renamed(c) == \E k \in Range(results) : k # c /\ NamedResultIdentity(k) = NamedResultIdentity(c)
<1>1. question' = q /\ q.op = "tomtom_named" /\ answer' = reply
  BY Zenon DEF TomTomNamed, Reply
<1>2. q.cards \in Seq(S) /\ Ranked(q.cards) /\ \A c \in S : c.point \in Int /\ c.score \in Int
  BY <1>1, NamedFacts DEF Naming
<1> HIDE DEF S
<1>3. TomTomCandidates(question') = results
  BY <1>1
<1>4. ~Answered("twogis_named")'
  BY <1>1 DEF Answered
<1> DEFINE Apart == answer'.kind = "question" =>
                      /\ Len(answer'.options) \in 2..MaxOptions
                      /\ \A i, j \in DOMAIN answer'.options :
                           i < j => ~SameAnchorTomTom(answer'.options[i], answer'.options[j])
           Settled == answer'.kind = "place" =>
                        \A c \in Range(results) :
                          \/ Linked(answer'.place, c, results, SameAnchorTomTom)
                          \/ c.aux
                          \/ \E k \in Range(results) : k # c /\ NamedResultIdentity(k) = NamedResultIdentity(c)
                          \/ 100 * (answer'.place.score - c.score) >= AmbiguityGap * answer'.place.score
<1>5. SUFFICES Apart /\ Settled
  <2> HIDE DEF results
  <2> QED
    BY <1>3, <1>4 DEF AnchorIsNeverGuessed
<1>6. results \in Seq(S) /\ Ranked(results)
  BY <1>2, OnlyThose, StillRanked DEF TomTomCandidates
<1> HIDE DEF results
<1> DEFINE alike == {p \in Range(results) \X Range(results) :
                       NamedResultIdentity(p[1]) = NamedResultIdentity(p[2])}
<1>7. /\ cards \in Seq(S) /\ Range(cards) \subseteq Range(results) /\ Ranked(cards)
      /\ \A c \in Range(results) : c \in Range(cards) \/ renamed(c)
  <2>1. cards = Distinct(results, alike)
    BY DEF UniqueIdentities
  <2>2. \A k, c : <<k, c>> \in alike =>
          NamedResultIdentity(k) = NamedResultIdentity(c)
    OBVIOUS
  <2> HIDE DEF alike, cards
  <2>3. /\ cards \in Seq(S) /\ Range(cards) \subseteq Range(results)
        /\ \A c \in Range(results) : c \in Range(cards) \/ \E k \in Range(cards) : <<k, c>> \in alike
    BY <1>6, <2>1, DistinctThose
  <2>4. Ranked(cards)
    BY <1>6, <2>1, StillRanked
  <2>5. ASSUME NEW c \in Range(results), c \notin Range(cards) PROVE renamed(c)
    <3>1. PICK k \in Range(cards) : <<k, c>> \in alike
      BY <2>3, <2>5
    <3>2. k \in Range(results) /\ k # c
      BY <2>3, <2>5
    <3> QED
      BY <2>2, <3>1, <3>2
  <2> QED
    BY <2>3, <2>4, <2>5
<1> HIDE DEF alike, cards, exact
<1>8. /\ anchors \in Seq(S) /\ Range(anchors) \subseteq Range(cards) /\ Ranked(anchors)
      /\ \A c \in Range(cards) : c \in Range(anchors) \/ c.aux
  <2> DEFINE plain == {c \in Range(cards) : ~c.aux}
             some == Only(cards, plain)
  <2>1. anchors = some \/ anchors = cards
    BY Zenon DEF ExcludeAuxiliary
  <2>2. some \in Seq(S) /\ (\A c : c \in Range(some) <=> c \in Range(cards) /\ c \in plain) /\ Ranked(some)
    <3> HIDE DEF plain
    <3> QED
      BY <1>7, OnlyThose, StillRanked
  <2>3. some \in Seq(S) /\ Range(some) \subseteq Range(cards) /\ Ranked(some)
        /\ \A c \in Range(cards) : c \in Range(some) \/ c.aux
    <3> HIDE DEF some
    <3> QED
      BY <2>2
  <2> HIDE DEF some, anchors
  <2> QED
    BY <1>7, <2>1, <2>3
<1> HIDE DEF anchors
<1>9. \A c \in Range(anchors) : c \in S /\ c.point \in Int /\ c.score \in Int
  BY <1>2, <1>8, RangeFacts
<1>10. \A a, b \in Range(anchors) : <<a, b>> \in together <=> SameAnchorTomTom(a, b)
  OBVIOUS
<1> HIDE DEF together
<1>11. \A a, b \in Range(anchors) : <<a, b>> \in together => <<b, a>> \in together
  BY <1>9, <1>10, SameAnchorIsMutual
<1>12. /\ groups \in Seq(Seq(S)) /\ GroupedUpTo(anchors, together, groups, Len(anchors)) /\ RankedAfter(groups)
  <2>1. \A c \in Range(anchors) : c.score \in Int
    BY <1>9
  <2> HIDE DEF groups
  <2>2. groups = Groups(anchors, together)
    BY DEF groups
  <2> QED
    BY <1>8, <1>11, <2>1, <2>2, GroupsFacts
<1>13. Len(anchors) \in Nat /\ Len(groups) \in Nat
  BY <1>8, <1>12
<1> HIDE DEF groups
<1>14. /\ Len(anchors) >= 1 => Len(groups) >= 1 /\ groups[1][1] = anchors[1]
       /\ \A i \in 1..Len(anchors) : \E j \in 1..Len(groups) : anchors[i] \in Range(groups[j])
       /\ \A j \in 1..Len(groups) : \A m \in Range(groups[j]) :
            /\ \E i \in 1..Len(anchors) : m = anchors[i]
            /\ ChainedIn(groups[j][1], m, Range(anchors), together)
  BY <1>12, Zenon DEF GroupedUpTo
<1>15. ASSUME NEW j \in 1..Len(groups)
       PROVE  groups[j][1] \in Range(groups[j]) /\ groups[j][1] \in Range(anchors)
  <2>1. groups[j] \in Seq(S) /\ Len(groups[j]) >= 1
    BY <1>12 DEF GroupedUpTo
  <2>2. groups[j][1] \in Range(groups[j])
    BY <2>1, RangeFacts
  <2>3. PICK k \in 1..Len(anchors) : groups[j][1] = anchors[k]
    BY <1>14, <2>2
  <2> QED
    BY <1>8, <2>2, <2>3, RangeFacts
<1>16. CASE groups = <<>>
  <2>1. answer' = [kind |-> "no place"]
    BY <1>1, <1>16
  <2>2. answer'.kind # "question" /\ answer'.kind # "place"
    BY <2>1
  <2> QED
    BY <2>2
<1>17. CASE groups # <<>> /\ unsure
  <2>1. answer' = Ask(groups) /\ Len(groups) > 1
    BY <1>1, <1>17
  <2>2. answer'.kind = "question" /\ answer'.options = Heads(groups)
    BY <2>1 DEF Ask
  <2>3. Settled
    BY <2>2
  <2>4. /\ Len(Heads(groups)) \in 2..MaxOptions /\ DOMAIN Heads(groups) = 1..Len(Heads(groups))
        /\ \A i \in DOMAIN Heads(groups) : i \in 1..Len(groups) /\ Heads(groups)[i] = groups[i][1]
        /\ \A i, j \in DOMAIN Heads(groups) : i < j => <<Heads(groups)[j], Heads(groups)[i]>> \notin together
    BY <1>12, <1>13, <2>1, HeadsFacts
  <2>5. \A i \in DOMAIN Heads(groups) : Heads(groups)[i] \in Range(anchors)
    BY <1>15, <2>4
  <2>6. ASSUME NEW i \in DOMAIN Heads(groups), NEW j \in DOMAIN Heads(groups), i < j
        PROVE  ~SameAnchorTomTom(Heads(groups)[i], Heads(groups)[j])
    BY <1>10, <1>11, <2>4, <2>5, <2>6
  <2>7. Apart
    BY <2>2, <2>4, <2>6
  <2> QED
    BY <2>3, <2>7
<1>18. CASE groups # <<>> /\ ~unsure
  <2> DEFINE taken == groups[1][1]
  <2>1. answer' = Take(taken)
    BY <1>1, <1>18
  <2>2. answer'.kind = "place" /\ answer'.place = taken
    BY <2>1 DEF Take
  <2>3. Apart
    BY <2>2
  <2>4. Len(groups) >= 1 /\ 1 \in 1..Len(groups)
    BY <1>12, <1>18
  <2>5. taken \in Range(anchors) /\ taken.score \in Int
    BY <1>9, <1>15, <2>4
  <2>6. Len(anchors) >= 1 /\ taken = anchors[1]
    <3>1. PICK k \in 1..Len(anchors) : taken = anchors[k]
      BY <1>14, <1>15, <2>4
    <3>2. Len(anchors) >= 1
      BY <1>13, <3>1
    <3> QED
      BY <1>14, <3>2
  <2> HIDE DEF taken
  <2>7. ASSUME NEW c \in Range(results)
        PROVE  \/ Linked(taken, c, results, SameAnchorTomTom)
               \/ c.aux \/ renamed(c)
               \/ 100 * (taken.score - c.score) >= AmbiguityGap * taken.score
    <3>1. SUFFICES ASSUME c \in Range(anchors)
                   PROVE  \/ Linked(taken, c, results, SameAnchorTomTom)
                          \/ 100 * (taken.score - c.score) >= AmbiguityGap * taken.score
      BY <1>7, <1>8
    <3>2. PICK i \in 1..Len(anchors) : c = anchors[i]
      BY <1>8, <3>1, RangeFacts
    <3>3. PICK j \in 1..Len(groups) : c \in Range(groups[j])
      BY <1>14, <3>2
    <3>4. CASE j = 1
      <4>1. ChainedIn(taken, c, Range(anchors), together)
        BY <1>14, <3>3, <3>4 DEF taken
      <4>2. ASSUME NEW side \in SUBSET Range(results), taken \in side,
                   \A x \in side, d \in Range(results) : SameAnchorTomTom(x, d) => d \in side
            PROVE  c \in side
        <5> DEFINE part == side \cap Range(anchors)
        <5>1. part \in SUBSET Range(anchors) /\ taken \in part
          BY <2>5, <4>2
        <5>2. \A x \in part, d \in Range(anchors) : <<x, d>> \in together => d \in part
          BY <1>7, <1>8, <1>10, <4>2
        <5> HIDE DEF part
        <5>3. c \in part
          BY <4>1, <5>1, <5>2 DEF ChainedIn
        <5> QED
          BY <5>3 DEF part
      <4>3. Linked(taken, c, results, SameAnchorTomTom)
        BY <4>2 DEF Linked
      <4> QED
        BY <4>3
    <3>5. CASE j # 1
      <4>1. j \in 2..Len(groups) /\ 2 \in 1..Len(groups) /\ Len(groups) > 1
        BY <1>13, <3>5
      <4> DEFINE second == groups[2][1]
      <4>2. c.score <= second.score
        BY <1>12, <3>3, <4>1 DEF RankedAfter
      <4>3. second \in Range(anchors) /\ second.score \in Int /\ c.score \in Int
        BY <1>9, <1>15, <3>1, <4>1
      <4>4. second.score <= taken.score
        <5>1. PICK k \in 1..Len(anchors) : second = anchors[k]
          BY <1>8, <4>3, RangeFacts
        <5>2. k \in DOMAIN anchors /\ 1 \in DOMAIN anchors /\ 1 <= k
          BY <1>8, <2>6, <5>1
        <5> QED
          BY <1>8, <2>6, <5>1, <5>2 DEF Ranked
      <4>5. ~ScoresRequireClarification(taken.score, second.score)
        BY <1>18, <4>1 DEF taken
      <4> HIDE DEF second
      <4>6. 100 * (taken.score - c.score) >= AmbiguityGap * taken.score
        BY <2>5, <4>2, <4>3, <4>4, <4>5, BeyondTheGap
      <4> QED
        BY <4>6
    <3> QED
      BY <3>4, <3>5
  <2>8. Settled
    BY <2>2, <2>7
  <2> QED
    BY <2>3, <2>8
<1> QED
  BY <1>16, <1>17, <1>18

------------------------------------------------------------------------------
(* From published hours to what is told of them.                           *)

\* The piece of the week that lies some days after a day.
LEMMA DaysAfter ==
    ASSUME NEW d \in Day, NEW e \in Day, NEW off, off = (d + Days - e) % Days
    PROVE  /\ off \in 0..Days - 1
           /\ off = 0 <=> TargetDay(e, 0) = d
           /\ off = 1 <=> TargetDay(e, 1) = d
           /\ off = 0 <=> d = e
<1>1. Days \in Nat /\ Days >= 2 /\ d \in 0..Days - 1 /\ e \in 0..Days - 1
  BY ClockAssumption DEF Day
<1>2. off = IF d >= e THEN d - e ELSE d + Days - e
  <2>1. CASE d >= e
    <3> DEFINE x == d - e
    <3>1. x \in 0..Days - 1 /\ d + Days - e = x + Days
      BY <1>1, <2>1
    <3> HIDE DEF x
    <3>2. (x + Days) % Days = x
      BY <1>1, <3>1
    <3> QED
      BY <2>1, <3>1, <3>2 DEF x
  <2>2. CASE ~(d >= e)
    <3> DEFINE x == d + Days - e
    <3>1. x \in 0..Days - 1
      BY <1>1, <2>2
    <3> HIDE DEF x
    <3>2. x % Days = x
      BY <1>1, <3>1
    <3> QED
      BY <2>2, <3>2 DEF x
  <2> QED
    BY <2>1, <2>2
<1>3. TargetDay(e, 0) = e
  <2>1. e % Days = e
    BY <1>1
  <2>2. e + 0 = e
    BY <1>1
  <2> QED
    BY <2>1, <2>2 DEF TargetDay
<1>4. TargetDay(e, 1) = IF e + 1 = Days THEN 0 ELSE e + 1
  <2>1. CASE e + 1 = Days
    <3>1. (0 + Days) % Days = 0
      BY <1>1
    <3> QED
      BY <1>1, <2>1, <3>1 DEF TargetDay
  <2>2. CASE e + 1 # Days
    <3> DEFINE x == e + 1
    <3>1. x \in 0..Days - 1
      BY <1>1, <2>2
    <3> HIDE DEF x
    <3>2. x % Days = x
      BY <1>1, <3>1
    <3> QED
      BY <2>2, <3>2 DEF TargetDay, x
  <2> QED
    BY <2>1, <2>2
<1>5. off \in 0..Days - 1
  BY <1>1, <1>2
<1> QED
  BY <1>1, <1>2, <1>3, <1>4, <1>5

\* An interval covers the minutes its pieces cover, over midnight too.
LEMMA SplitCovers ==
    ASSUME NEW i \in [from : Minute, to : Minute, whole : BOOLEAN], SplitInterval(i) # {},
           NEW d \in Day, NEW e \in Day, NEW m \in Minute
    PROVE  (\E p \in SplitInterval(i) : TargetDay(e, p[1]) = d /\ p[2] <= m /\ m < p[3])
             <=> LET since == ((d + Days - e) % Days) * Minutes + m
                 IN i.from <= since /\ since < IF i.to > i.from THEN i.to ELSE i.to + Minutes
<1> DEFINE off == (d + Days - e) % Days
           shift == off * Minutes
           since == shift + m
           end == IF i.to > i.from THEN i.to ELSE i.to + Minutes
           met == \E p \in SplitInterval(i) : TargetDay(e, p[1]) = d /\ p[2] <= m /\ m < p[3]
<1>1. /\ Minutes \in Nat /\ Minutes >= 2 /\ m \in 0..Minutes - 1
      /\ i.from \in 0..Minutes - 1 /\ i.to \in 0..Minutes - 1
  BY ClockAssumption DEF Minute
<1>2. /\ off \in Nat
      /\ off = 0 <=> TargetDay(e, 0) = d
      /\ off = 1 <=> TargetDay(e, 1) = d
  <2>1. off = (d + Days - e) % Days
    OBVIOUS
  <2> HIDE DEF off
  <2>2. /\ off \in 0..Days - 1
        /\ off = 0 <=> TargetDay(e, 0) = d
        /\ off = 1 <=> TargetDay(e, 1) = d
    BY <2>1, DaysAfter
  <2>3. Days \in Nat
    BY ClockAssumption
  <2> QED
    BY <2>2, <2>3
<1> HIDE DEF off
<1>3. /\ shift \in Nat /\ (off = 0 => shift = 0) /\ (off = 1 => shift = Minutes)
      /\ (off # 0 /\ off # 1 => shift >= Minutes + Minutes)
  <2>1. off = 0 \/ off = 1 \/ off >= 2
    BY <1>2
  <2>2. CASE off >= 2
    <3>1. off * Minutes >= 2 * Minutes
      BY <1>1, <1>2, <2>2
    <3>2. off * Minutes \in Nat
      BY <1>1, <1>2
    <3> DEFINE x == off * Minutes
    <3>3. x \in Nat /\ x >= 2 * Minutes
      BY <3>1, <3>2
    <3> HIDE DEF x
    <3>4. x >= Minutes + Minutes
      BY <1>1, <3>3
    <3> QED
      BY <2>2, <3>3, <3>4 DEF x
  <2>3. CASE off = 0
    BY <1>1, <2>3
  <2>4. CASE off = 1
    BY <1>1, <2>4
  <2> QED
    BY <2>1, <2>2, <2>3, <2>4
<1> HIDE DEF shift
<1>4. i.whole /\ i.from # i.to
  BY DEF SplitInterval
<1>5. met <=> i.from <= since /\ since < end
  <2>1. CASE i.to = 0
    <3>1. SplitInterval(i) = {<<0, i.from, Minutes>>}
      BY <1>4, <2>1 DEF SplitInterval
    <3>2. met <=> TargetDay(e, 0) = d /\ i.from <= m /\ m < Minutes
      BY <3>1
    <3> HIDE DEF met
    <3> QED
      BY <1>1, <1>2, <1>3, <1>4, <2>1, <3>2
  <2>2. CASE i.to # 0 /\ i.from < i.to
    <3>1. SplitInterval(i) = {<<0, i.from, i.to>>}
      BY <1>4, <2>2 DEF SplitInterval
    <3>2. met <=> TargetDay(e, 0) = d /\ i.from <= m /\ m < i.to
      BY <3>1
    <3> HIDE DEF met
    <3> QED
      BY <1>1, <1>2, <1>3, <1>4, <2>2, <3>2
  <2>3. CASE i.to # 0 /\ ~(i.from < i.to)
    <3>1. SplitInterval(i) = {<<0, i.from, Minutes>>, <<1, 0, i.to>>}
      BY <1>4, <2>3 DEF SplitInterval
    <3>2. met <=> \/ TargetDay(e, 0) = d /\ i.from <= m /\ m < Minutes
                  \/ TargetDay(e, 1) = d /\ 0 <= m /\ m < i.to
      BY <3>1
    <3> HIDE DEF met
    <3> QED
      BY <1>1, <1>2, <1>3, <1>4, <2>3, <3>2
  <2> QED
    BY <2>1, <2>2, <2>3
<1> QED
  BY <1>5 DEF off, shift

\* The pieces of an availability cover on a day what the availability says of it.
LEMMA AvailabilityCovers ==
    ASSUME NEW a \in Availability, Usable(a), NEW d \in Day, NEW m \in Minute
    PROVE  (\E p \in Pieces(a) : (\E e \in a.days : TargetDay(e, p[1]) = d) /\ p[2] <= m /\ m < p[3])
             <=> \E e \in a.days :
                   \/ a.allDay /\ d = e
                   \/ \E i \in a.intervals :
                        LET since == ((d + Days - e) % Days) * Minutes + m
                        IN i.from <= since /\ since < IF i.to > i.from THEN i.to ELSE i.to + Minutes
<1> DEFINE open(e, i) == LET since == ((d + Days - e) % Days) * Minutes + m
                         IN i.from <= since /\ since < IF i.to > i.from THEN i.to ELSE i.to + Minutes
<1>1. a.days \subseteq Day /\ \A i \in a.intervals : i \in [from : Minute, to : Minute, whole : BOOLEAN]
  BY DEF Availability
<1>2. m \in 0..Minutes - 1 /\ Minutes \in Nat
  BY ClockAssumption DEF Minute
<1>3. CASE a.allDay
  <2>1. a.intervals = {} /\ Pieces(a) = {<<0, 0, Minutes>>}
    BY <1>3 DEF Usable, Pieces
  <2>2. \A e \in a.days : TargetDay(e, 0) = d <=> d = e
    <3>1. ASSUME NEW e \in Day PROVE TargetDay(e, 0) = d <=> d = e
      <4> DEFINE off == (d + Days - e) % Days
      <4>1. off = (d + Days - e) % Days
        OBVIOUS
      <4> HIDE DEF off
      <4> QED
        BY <4>1, DaysAfter
    <3> QED
      BY <1>1, <3>1
  <2> HIDE DEF open
  <2>3. (\E p \in Pieces(a) : (\E e \in a.days : TargetDay(e, p[1]) = d) /\ p[2] <= m /\ m < p[3])
          <=> \E e \in a.days : TargetDay(e, 0) = d
    BY <1>2, <2>1
  <2>4. (\E p \in Pieces(a) : (\E e \in a.days : TargetDay(e, p[1]) = d) /\ p[2] <= m /\ m < p[3])
          <=> \E e \in a.days : a.allDay /\ d = e
    BY <1>3, <2>2, <2>3
  <2>5. ~ \E i \in a.intervals : TRUE
    BY <2>1
  <2> QED
    BY <2>4, <2>5
<1>4. CASE ~a.allDay
  <2>1. (\A i \in a.intervals : SplitInterval(i) # {}) /\ Pieces(a) = UNION {SplitInterval(i) : i \in a.intervals}
    BY <1>4 DEF Usable, Pieces
  <2>2. \A e \in a.days, i \in a.intervals :
          (\E p \in SplitInterval(i) : TargetDay(e, p[1]) = d /\ p[2] <= m /\ m < p[3]) <=> open(e, i)
    BY <1>1, <2>1, SplitCovers
  <2> HIDE DEF open
  <2>3. (\E p \in Pieces(a) : (\E e \in a.days : TargetDay(e, p[1]) = d) /\ p[2] <= m /\ m < p[3])
          <=> \E e \in a.days, i \in a.intervals :
                \E p \in SplitInterval(i) : TargetDay(e, p[1]) = d /\ p[2] <= m /\ m < p[3]
    BY <2>1
  <2>4. (\E e \in a.days, i \in a.intervals :
           \E p \in SplitInterval(i) : TargetDay(e, p[1]) = d /\ p[2] <= m /\ m < p[3])
          <=> \E e \in a.days : \E i \in a.intervals : open(e, i)
    BY <2>2
  <2>5. (\E p \in Pieces(a) : (\E e \in a.days : TargetDay(e, p[1]) = d) /\ p[2] <= m /\ m < p[3])
          <=> \E e \in a.days : (a.allDay /\ d = e) \/ \E i \in a.intervals : open(e, i)
    BY <1>4, <2>3, <2>4
  <2> QED
    BY <2>5 DEF open
<1> QED
  BY <1>3, <1>4

\* The week says of every minute what the availabilities say.
LEMMA YandexWeekIsExact ==
    ASSUME NEW hours \in SUBSET Availability, YandexWeek(hours) # Unknown, NEW d \in Day, NEW m \in Minute
    PROVE  IsOpenAt(YandexWeek(hours), d, m) = Answer(PublishedYandex(hours, d, m))
<1> DEFINE pieces(a) == {q \in Pieces(a) : \E e \in a.days : TargetDay(e, q[1]) = d}
           stated == UNION {{<<p[2], p[3]>> : p \in pieces(a)} : a \in hours}
           week == YandexWeek(hours)
<1>1. (\A a \in hours : Usable(a)) /\ week.on[d] = IF FullDay \in stated THEN {FullDay} ELSE stated
  BY DEF YandexWeek
<1>2. m \in 0..Minutes - 1 /\ Minutes \in Nat /\ Within(m, FullDay)
  BY ClockAssumption DEF Minute, Within, FullDay
<1> DEFINE met(a) == \E p \in Pieces(a) :
                       (\E e \in a.days : TargetDay(e, p[1]) = d) /\ p[2] <= m /\ m < p[3]
<1>3. (\E i \in stated : Within(m, i)) <=> \E a \in hours : met(a)
  <2>1. ASSUME NEW i \in stated, Within(m, i) PROVE \E a \in hours : met(a)
    <3>1. PICK a \in hours : \E p \in pieces(a) : i = <<p[2], p[3]>>
      OBVIOUS
    <3>2. PICK p \in Pieces(a) : (\E e \in a.days : TargetDay(e, p[1]) = d) /\ i = <<p[2], p[3]>>
      BY <3>1
    <3>3. p[2] <= m /\ m < p[3]
      BY <2>1, <3>2 DEF Within
    <3> QED
      BY <3>2, <3>3
  <2>2. ASSUME NEW a \in hours, met(a) PROVE \E i \in stated : Within(m, i)
    <3>1. PICK p \in Pieces(a) : (\E e \in a.days : TargetDay(e, p[1]) = d) /\ p[2] <= m /\ m < p[3]
      BY <2>2
    <3>2. <<p[2], p[3]>> \in stated
      BY <3>1
    <3>3. Within(m, <<p[2], p[3]>>)
      BY <3>1 DEF Within
    <3> HIDE DEF stated
    <3> QED
      BY <3>2, <3>3
  <2> HIDE DEF stated, met
  <2> QED
    BY <2>1, <2>2
<1>4. \A a \in hours : met(a) <=> PublishedYandex({a}, d, m)
  <2>1. ASSUME NEW a \in hours PROVE met(a) <=> PublishedYandex({a}, d, m)
    <3> DEFINE published == \E e \in a.days :
                              \/ a.allDay /\ d = e
                              \/ \E i \in a.intervals :
                                   LET since == ((d + Days - e) % Days) * Minutes + m
                                   IN i.from <= since /\ since < IF i.to > i.from THEN i.to ELSE i.to + Minutes
    <3>1. met(a) <=> published
      BY <1>1, AvailabilityCovers
    <3>2. PublishedYandex({a}, d, m) <=> published
      BY Zenon DEF PublishedYandex
    <3> HIDE DEF met, published
    <3> QED
      BY <3>1, <3>2
  <2> HIDE DEF met
  <2> QED
    BY <2>1
<1>5. PublishedYandex(hours, d, m) <=> \E a \in hours : PublishedYandex({a}, d, m)
  BY Zenon DEF PublishedYandex
<1> HIDE DEF met, stated
<1>6. (\E i \in week.on[d] : Within(m, i)) <=> PublishedYandex(hours, d, m)
  <2>1. (\E i \in week.on[d] : Within(m, i)) <=> \E i \in stated : Within(m, i)
    BY <1>1, <1>2
  <2> HIDE DEF week
  <2> QED
    BY <1>3, <1>4, <1>5, <2>1
<1> HIDE DEF week
<1>7. IsOpenAt(week, d, m) = Answer(\E i \in week.on[d] : Within(m, i))
  BY DEF IsOpenAt, week
<1> QED
  BY <1>6, <1>7 DEF Answer, week

\* Yandex's week and its claims are right.
LEMMA YandexHoursTells ==
    ASSUME WellFormed(question), YandexHours
    PROVE  HoursAreExact'
<1> DEFINE hours == question.hours
           week == YandexWeek(hours)
           allDay == YandexAllDay(hours)
<1>1. question' = question /\ question.op = "yandex_hours"
      /\ answer' = [kind |-> "hours", week |-> week, allDay |-> allDay]
  BY Zenon DEF YandexHours, Reply
<1>2. answer'.week = week /\ answer'.allDay = allDay /\ question'.hours = hours
  <2> HIDE DEF week, allDay
  <2> QED
    BY <1>1
<1>3. hours \in SUBSET Availability
  BY <1>1 DEF WellFormed, Telling
<1>4. ~Answered("twogis_hours")' /\ ~Answered("tomtom_hours")'
  BY <1>1 DEF Answered
<1> HIDE DEF hours
<1>5. ASSUME week # Unknown, NEW d \in Day, NEW m \in Minute
      PROVE  IsOpenAt(week, d, m) = Answer(PublishedYandex(hours, d, m))
  BY <1>3, <1>5, YandexWeekIsExact
<1>6. ASSUME allDay = "yes", NEW d \in Day, NEW m \in Minute
      PROVE  PublishedYandex(hours, d, m)
  <2>1. UNION {a.days : a \in {b \in hours : b.allDay}} = Day
    BY <1>6 DEF YandexAllDay, Answer
  <2>2. PICK a \in hours : a.allDay /\ d \in a.days
    BY <2>1
  <2> QED
    BY <2>2, Zenon DEF PublishedYandex
<1> HIDE DEF week, allDay
<1> QED
  BY <1>2, <1>4, <1>5, <1>6 DEF HoursAreExact

\* The minutes that a period covers on its own day and on the next one.
LEMMA PeriodFacts ==
    ASSUME NEW p \in (0..Minutes) \X (0..Minutes), NEW m \in Minute
    PROVE  /\ Within(m, OnDay(p)) <=> UnderWay({p}, m)
           /\ Within(m, AfterMidnight(p)) <=> UnderWay({p}, m + Minutes)
<1>1. p[1] \in 0..Minutes /\ p[2] \in 0..Minutes /\ m \in 0..Minutes - 1 /\ Minutes \in Nat
  BY ClockAssumption DEF Minute
<1>2. CASE p[1] < p[2]
  <2>1. OnDay(p) = p /\ AfterMidnight(p) = <<0, 0>>
    BY <1>2 DEF OnDay, AfterMidnight
  <2> QED
    BY <1>1, <1>2, <2>1 DEF Within, UnderWay
<1>3. CASE ~(p[1] < p[2])
  <2>1. OnDay(p) = <<p[1], Minutes>> /\ AfterMidnight(p) = <<0, p[2]>>
    BY <1>3 DEF OnDay, AfterMidnight
  <2> QED
    BY <1>1, <1>3, <2>1 DEF Within, UnderWay
<1> QED
  BY <1>2, <1>3

\* What 2GIS's week says of a minute of a day.
LEMMA TwogisWeekTells ==
    ASSUME NEW s \in Schedule, NEW kept \in BOOLEAN, NEW d \in Day, NEW m \in Minute,
           TwogisWeek(s, kept) # Unknown
    PROVE  IsOpenAt(TwogisWeek(s, kept), d, m)
             = Answer(\/ UnderWay(s.periods[d], m)
                      \/ (kept \/ s.periods[d] = {}) /\ UnderWay(s.periods[DayBefore(d)], m + Minutes))
<1> DEFINE nights == IF kept \/ s.periods[d] = {} THEN s.periods[DayBefore(d)] ELSE {}
           intervals == {OnDay(p) : p \in s.periods[d]} \cup {AfterMidnight(p) : p \in nights}
           week == TwogisWeek(s, kept)
           Times == (0..Minutes) \X (0..Minutes)
<1>1. week.on[d] = intervals
  BY DEF TwogisWeek
<1>2. DayBefore(d) \in Day
  BY ClockAssumption DEF DayBefore, Day
<1>3. s.periods[d] \subseteq Times /\ nights \subseteq Times
  BY <1>2 DEF Schedule
<1>4. ASSUME NEW P, P \subseteq Times
      PROVE  /\ UnderWay(P, m) <=> \E p \in P : UnderWay({p}, m)
             /\ UnderWay(P, m + Minutes) <=> \E p \in P : UnderWay({p}, m + Minutes)
  BY DEF UnderWay
<1>5. (\E i \in intervals : Within(m, i))
        <=> (\E p \in s.periods[d] : Within(m, OnDay(p))) \/ (\E p \in nights : Within(m, AfterMidnight(p)))
  <2> HIDE DEF nights
  <2> QED
    OBVIOUS
<1> HIDE DEF intervals
<1>6. (\E i \in intervals : Within(m, i)) <=> UnderWay(s.periods[d], m) \/ UnderWay(nights, m + Minutes)
  <2> HIDE DEF nights
  <2>1. ASSUME NEW p \in Times
        PROVE  /\ Within(m, OnDay(p)) <=> UnderWay({p}, m)
               /\ Within(m, AfterMidnight(p)) <=> UnderWay({p}, m + Minutes)
    BY PeriodFacts
  <2> HIDE DEF Times
  <2>2. (\E p \in s.periods[d] : Within(m, OnDay(p))) <=> UnderWay(s.periods[d], m)
    BY <1>3, <1>4, <2>1
  <2>3. (\E p \in nights : Within(m, AfterMidnight(p))) <=> UnderWay(nights, m + Minutes)
    BY <1>3, <1>4, <2>1
  <2> QED
    BY <1>5, <2>2, <2>3
<1>7. UnderWay(nights, m + Minutes)
        <=> (kept \/ s.periods[d] = {}) /\ UnderWay(s.periods[DayBefore(d)], m + Minutes)
  <2>1. ~UnderWay({}, m + Minutes)
    BY DEF UnderWay
  <2> QED
    BY <2>1
<1>8. IsOpenAt(week, d, m) = Answer(\E i \in intervals : Within(m, i))
  <2> HIDE DEF week
  <2> QED
    BY <1>1 DEF IsOpenAt, week
<1> HIDE DEF nights, week
<1> QED
  BY <1>6, <1>7, <1>8 DEF Answer, week

\* The claims about 2GIS's hours, as HoursAreExact states them.
TwogisClaims(s, allDay, now, minute) ==
  LET own(d, m) == UnderWay(s.periods[d], m)
      night(d, m) == UnderWay(s.periods[DayBefore(d)], m + Minutes)
      published(d, m) == s.always \/ own(d, m) \/ night(d, m)
  IN /\ allDay = "yes" => \A d \in Day, m \in Minute : published(d, m)
     /\ now = "yes" => published(0, minute)
     /\ now = "no" => /\ ~s.always /\ ~own(0, minute)
                      /\ night(0, minute) => s.periods[0] # {}

LEMMA TwogisClaimsHold ==
    ASSUME NEW s \in Schedule, NEW kept \in BOOLEAN, NEW minute \in Minute
    PROVE  TwogisClaims(s, TwogisAllDay(s), TwogisOpenNow(s, kept, 0, minute), minute)
<1> DEFINE allDay == TwogisAllDay(s)
           now == TwogisOpenNow(s, kept, 0, minute)
           own(d, m) == UnderWay(s.periods[d], m)
           night(d, m) == UnderWay(s.periods[DayBefore(d)], m + Minutes)
<1>1. 0 \in Day
  BY ClockAssumption DEF Day
<1>2. ASSUME allDay = "yes", ~s.always, NEW d \in Day, NEW m \in Minute
      PROVE  own(d, m)
  <2>1. FullWeek(s)
    BY <1>2 DEF TwogisAllDay
  <2>2. Cardinality(s.periods[d]) = 1 /\ s.periods[d] \subseteq FullDayPeriods
    BY <2>1 DEF FullWeek
  <2>3. s.periods[d] # {}
    BY <2>2, FS_EmptySet
  <2>4. PICK p \in s.periods[d] : p = FullDay \/ p = <<0, 0>>
    BY <2>2, <2>3 DEF FullDayPeriods
  <2>5. m \in 0..Minutes - 1 /\ Minutes \in Nat \ {0, 1}
    BY ClockAssumption DEF Minute
  <2>6. p[1] = 0 /\ (p[2] = Minutes \/ p[2] = 0)
    BY <2>4 DEF FullDay
  <2>7. p[1] <= m /\ m < IF p[2] > p[1] THEN p[2] ELSE p[2] + Minutes
    BY <2>5, <2>6
  <2> QED
    BY <2>7 DEF UnderWay
<1>3. s.always => allDay = "yes"
  BY DEF TwogisAllDay
<1>4. ASSUME allDay # "yes", now # "unknown"
      PROVE  now = Answer(own(0, minute) \/ ((kept \/ s.periods[0] = {}) /\ night(0, minute)))
  <2> DEFINE week == TwogisWeek(s, kept)
             said == Answer(own(0, minute) \/ ((kept \/ s.periods[0] = {}) /\ night(0, minute)))
  <2>1. now = IsOpenAt(week, 0, minute)
    BY <1>4 DEF TwogisOpenNow
  <2>2. week # Unknown => IsOpenAt(week, 0, minute) = said
    BY <1>1, TwogisWeekTells
  <2> HIDE DEF week, said, now
  <2>3. week # Unknown
    BY <1>4, <2>1 DEF IsOpenAt
  <2>4. now = said
    BY <2>1, <2>2, <2>3
  <2> QED
    BY <2>4 DEF said
<1>5. allDay = "yes" => now = "yes"
  BY DEF TwogisOpenNow
<1> HIDE DEF allDay, now, own, night
<1>6. now = "yes" => s.always \/ own(0, minute) \/ night(0, minute)
  BY <1>1, <1>2, <1>4 DEF Answer
<1>7. now = "no" => ~s.always /\ ~own(0, minute) /\ (night(0, minute) => s.periods[0] # {})
  BY <1>3, <1>4, <1>5 DEF Answer
<1>8. allDay = "yes" => \A d \in Day, m \in Minute : s.always \/ own(d, m) \/ night(d, m)
  BY <1>2
<1>9. TwogisClaims(s, allDay, now, minute)
  BY <1>6, <1>7, <1>8 DEF TwogisClaims, own, night
<1> QED
  BY <1>9 DEF allDay, now

\* The claims about 2GIS's hours are right.
LEMMA TwogisHoursTells ==
    ASSUME WellFormed(question), TwogisHours
    PROVE  HoursAreExact'
<1> DEFINE s == question.hours
           allDay == TwogisAllDay(s)
<1>1. PICK kept \in BOOLEAN :
        Reply("twogis_hours", [kind |-> "hours", allDay |-> allDay,
                               now |-> TwogisOpenNow(s, kept, 0, question.now)])
  BY Zenon DEF TwogisHours
<1> DEFINE now == TwogisOpenNow(s, kept, 0, question.now)
<1>2. question' = question /\ question.op = "twogis_hours"
      /\ answer' = [kind |-> "hours", allDay |-> allDay, now |-> now]
  BY <1>1, Zenon DEF Reply
<1>3. answer'.allDay = allDay /\ answer'.now = now /\ question'.hours = s
  <2> HIDE DEF allDay, now
  <2> QED
    BY <1>2
<1>4. s \in Schedule /\ question.now \in Minute
  BY <1>2 DEF WellFormed, Telling
<1>5. ~Answered("yandex_hours")' /\ ~Answered("tomtom_hours")'
  BY <1>2 DEF Answered
<1>6. TwogisClaims(s, allDay, now, question.now)
  BY <1>4, TwogisClaimsHold
<1> HIDE DEF s, allDay, now
<1>7. TwogisClaims(question'.hours, answer'.allDay, answer'.now, question'.now)
  BY <1>2, <1>3, <1>6
<1> QED
  BY <1>5, <1>7, Zenon DEF HoursAreExact, TwogisClaims

\* What becomes of the intervals when the next one comes: it is added, or joins the last one.
MergedAs(new, kept, next) ==
    \/ /\ new = Append(kept, next)
       /\ kept # <<>> => next[1] > kept[Len(kept)][2]
    \/ /\ kept # <<>> /\ next[1] <= kept[Len(kept)][2]
       /\ Len(new) = Len(kept) /\ \A i \in 1..(Len(kept) - 1) : new[i] = kept[i]
       /\ new[Len(kept)] = Joined(kept[Len(kept)], next)

\* A set of intervals in which two can be joined.
Intervals(S) ==
    /\ \A x \in S : x[1] \in Int /\ x[2] \in Int
    /\ \A x, y \in S : Joined(x, y) \in S

\* Adding one interval: it is appended behind a gap, or widens the last one.
LEMMA MergedFacts ==
    ASSUME NEW S, Intervals(S), NEW kept \in Seq(S), NEW next \in S
    PROVE  Merged(kept, next) \in Seq(S) /\ MergedAs(Merged(kept, next), kept, next)
<1> DEFINE L == Len(kept)
           last == kept[L]
           joined == Joined(last, next)
           more == Append(kept, next)
<1>3. more \in Seq(S)
  OBVIOUS
<1> HIDE DEF more
<1>1. CASE kept = <<>>
  <2>1. Merged(kept, next) = more
    BY <1>1 DEF Merged, more
  <2>2. MergedAs(more, kept, next)
    BY <1>1 DEF MergedAs, more
  <2> QED
    BY <1>3, <2>1, <2>2
<1>2. CASE kept # <<>>
  <2>1. L \in Nat /\ L >= 1 /\ last \in S /\ Last(kept) = last
    BY <1>2 DEF Last
  <2>2. last[1] \in Int /\ last[2] \in Int /\ next[1] \in Int /\ next[2] \in Int
    BY <2>1 DEF Intervals
  <2>3. CASE next[1] > last[2]
    <3>1. Merged(kept, next) = more
      BY <2>1, <2>3 DEF Merged, more
    <3>2. MergedAs(more, kept, next)
      BY <2>3 DEF MergedAs, more
    <3> QED
      BY <1>3, <3>1, <3>2
  <2>4. CASE ~(next[1] > last[2])
    <3>1. Merged(kept, next) = Append(Front(kept), joined)
      BY <1>2, <2>1, <2>4 DEF Merged
    <3>2. joined \in S
      BY <2>1 DEF Intervals
    <3> HIDE DEF joined
    <3> DEFINE front == SubSeq(kept, 1, L - 1)
               new == Append(front, joined)
    <3>3. Front(kept) = front
      BY DEF Front
    <3>4. front \in Seq(S) /\ Len(front) = L - 1 /\ \A i \in 1..(L - 1) : front[i] = kept[i]
      <4> DEFINE k == L - 1
      <4>1. k \in Nat /\ k <= Len(kept)
        BY <2>1
      <4> HIDE DEF k
      <4>2. SubSeq(kept, 1, k) \in Seq(S) /\ Len(SubSeq(kept, 1, k)) = k
            /\ \A i \in 1..k : SubSeq(kept, 1, k)[i] = kept[i]
        BY <4>1
      <4> QED
        BY <4>2 DEF k
    <3> HIDE DEF front
    <3>5. new \in Seq(S) /\ Len(new) = L - 1 + 1 /\ new[L - 1 + 1] = joined
          /\ \A i \in 1..(L - 1) : new[i] = front[i]
      BY <3>2, <3>4, AppendFacts
    <3>6. L - 1 + 1 = L
      BY <2>1
    <3>7. Merged(kept, next) = new
      BY <3>1, <3>3
    <3> HIDE DEF new
    <3>8. next[1] <= last[2]
      BY <2>2, <2>4
    <3>9. MergedAs(new, kept, next)
      BY <1>2, <3>4, <3>5, <3>6, <3>8 DEF MergedAs, joined
    <3> QED
      BY <3>5, <3>7, <3>9
  <2> QED
    BY <2>3, <2>4
<1> QED
  BY <1>1, <1>2

\* The sequences that MergeSorted passes through.
IntervalsRun(kept, sorted) ==
    /\ kept[0] = <<>> /\ MergeSorted(sorted) = kept[Len(sorted)]
    /\ \A n \in 1..Len(sorted) : kept[n] = Merged(kept[n - 1], sorted[n])

LEMMA IntervalsSteps ==
    ASSUME NEW S, Intervals(S), NEW sorted \in Seq(S)
    PROVE  \E kept : kept \in [0..Len(sorted) -> Seq(S)] /\ IntervalsRun(kept, sorted)
<1> DEFINE N == Len(sorted)
           X == Seq(S)
           step == [p \in (1..N) \X X |-> Merged(p[2], sorted[p[1]])]
           body(g) == [n \in 0..N |-> IF n = 0 THEN <<>> ELSE Merged(g[n - 1], sorted[n])]
           kept == CHOOSE g : g = body(g)
<1>1. N \in Nat /\ <<>> \in X
  OBVIOUS
<1>2. ASSUME NEW n \in 1..N, NEW x \in X
      PROVE  Merged(x, sorted[n]) \in X
  <2>1. sorted[n] \in S
    OBVIOUS
  <2> QED
    BY <2>1, MergedFacts
<1>3. step \in [(1..N) \X X -> X]
  <2>1. ASSUME NEW p \in (1..N) \X X
        PROVE  Merged(p[2], sorted[p[1]]) \in X
    <3>1. p[1] \in 1..N /\ p[2] \in X
      OBVIOUS
    <3> HIDE DEF N, X
    <3> QED
      BY <1>2, <3>1
  <2> HIDE DEF N, X
  <2> QED
    BY <2>1
<1>4. PICK f : Iterates(f, N, X, <<>>, step)
  <2> HIDE DEF N, X, step
  <2> QED
    BY <1>1, <1>3, Iterated
<1>5. f \in [0..N -> X] /\ f[0] = <<>> /\ \A n \in 1..N : f[n] = step[<<n, f[n - 1]>>]
  <2> HIDE DEF N, X, step
  <2> QED
    BY <1>4 DEF Iterates
<1>6. f = body(f)
  <2>1. ASSUME NEW n \in 1..N
        PROVE  f[n] = Merged(f[n - 1], sorted[n])
    <3>1. n - 1 \in 0..N
      BY <1>1
    <3>2. <<n, f[n - 1]>> \in (1..N) \X X
      BY <1>5, <3>1
    <3>3. step[<<n, f[n - 1]>>] = Merged(f[n - 1], sorted[n])
      <4> HIDE DEF N, X
      <4> QED
        BY <3>2
    <3> QED
      BY <1>5, <3>3
  <2>2. \A n \in 0..N : f[n] = IF n = 0 THEN <<>> ELSE Merged(f[n - 1], sorted[n])
    <3>1. \A n \in 0..N : n = 0 \/ n \in 1..N
      BY <1>1
    <3> HIDE DEF N
    <3> QED
      BY <1>5, <2>1, <3>1
  <2>3. f = [n \in 0..N |-> f[n]]
    BY <1>5
  <2> HIDE DEF N, X
  <2> QED
    BY <2>2, <2>3
<1>7. kept = body(kept)
  <2> HIDE DEF body
  <2> QED
    BY <1>6
<1>8. MergeSorted(sorted) = kept[N]
  BY DEF MergeSorted
<1> HIDE DEF kept
<1>9. kept[0] = <<>>
  <2>1. 0 \in 0..N
    BY <1>1
  <2> QED
    BY <1>7, <2>1
<1>10. ASSUME NEW n \in 1..N
      PROVE  kept[n] = Merged(kept[n - 1], sorted[n])
  <2>1. n \in 0..N /\ n # 0
    BY <1>1
  <2> QED
    BY <1>7, <2>1
<1>11. kept \in [0..N -> X]
  <2>1. kept = [n \in 0..N |-> kept[n]]
    <3>1. DOMAIN kept = 0..N
      BY <1>7
    <3>2. body(kept) = [n \in 0..N |-> body(kept)[n]]
      OBVIOUS
    <3> HIDE DEF body
    <3> QED
      BY <1>7, <3>2
  <2>2. kept[0] \in X /\ \A n \in 1..N : kept[n - 1] \in X => kept[n] \in X
    <3> HIDE DEF N, X
    <3> QED
      BY <1>1, <1>2, <1>9, <1>10
  <2> HIDE DEF N, X, body
  <2> QED
    BY <1>1, <2>1, <2>2, StaysIn
<1> QED
  BY <1>8, <1>9, <1>10, <1>11 DEF IntervalsRun

\* The intervals cover what the first n cover, apart from each other, and the last one starts
\* no later than the n-th.
MergedUpTo(sorted, kept, n) ==
    /\ n >= 1 => kept # <<>>
    /\ kept # <<>> => n >= 1 /\ kept[Len(kept)][1] <= sorted[n][1]
    /\ \A m \in Int : (\E i \in 1..Len(kept) : Within(m, kept[i])) <=> \E j \in 1..n : Within(m, sorted[j])
    /\ \A i \in 2..Len(kept) : kept[i - 1][2] < kept[i][1]

\* Adding one that starts no earlier keeps what is covered, and the gaps.
LEMMA MergeStep ==
    ASSUME NEW S, Intervals(S), NEW sorted \in Seq(S), NEW n \in 1..Len(sorted),
           n >= 2 => sorted[n - 1][1] <= sorted[n][1],
           NEW kept \in Seq(S), MergedUpTo(sorted, kept, n - 1),
           NEW new \in Seq(S), MergedAs(new, kept, sorted[n])
    PROVE  MergedUpTo(sorted, new, n)
<1> DEFINE L == Len(kept)
           next == sorted[n]
           last == kept[L]
           before(m) == \E j \in 1..(n - 1) : Within(m, sorted[j])
           now(m) == \E j \in 1..n : Within(m, sorted[j])
<1>1. n \in Nat /\ n >= 1 /\ L \in Nat /\ next \in S /\ (kept # <<>> <=> L >= 1) /\ n - 1 \in Nat
  OBVIOUS
<1>2. /\ n - 1 >= 1 => kept # <<>>
      /\ kept # <<>> => n - 1 >= 1 /\ last[1] <= sorted[n - 1][1]
      /\ \A m \in Int : (\E i \in 1..L : Within(m, kept[i])) <=> before(m)
      /\ \A i \in 2..L : kept[i - 1][2] < kept[i][1]
  BY Zenon DEF MergedUpTo
<1>3. ASSUME NEW m PROVE now(m) <=> before(m) \/ Within(m, next)
  <2>1. \A j : j \in 1..n <=> j \in 1..(n - 1) \/ j = n
    BY <1>1
  <2> QED
    BY <2>1
<1> HIDE DEF before, now
<1>4. next[1] \in Int /\ next[2] \in Int
  BY <1>1 DEF Intervals
<1>5. CASE kept = <<>>
  <2>1. new = <<next>> /\ L = 0
    BY <1>5 DEF MergedAs
  <2>2. Len(new) = 1 /\ new[1] = next /\ new # <<>>
    BY <2>1
  <2>3. n - 1 = 0 /\ n = 1
    <3>1. ~(n - 1 >= 1)
      BY <1>2, <1>5
    <3> QED
      BY <1>1, <3>1
  <2>4. ASSUME NEW m \in Int PROVE (\E i \in 1..Len(new) : Within(m, new[i])) <=> now(m)
    <3>1. ~before(m)
      BY <2>3 DEF before
    <3> QED
      BY <1>3, <2>2, <3>1
  <2>5. new[Len(new)][1] <= sorted[n][1]
    BY <1>4, <2>2
  <2>6. \A i \in 2..Len(new) : new[i - 1][2] < new[i][1]
    BY <2>2
  <2> QED
    BY <1>1, <2>2, <2>4, <2>5, <2>6 DEF MergedUpTo, now
<1>6. CASE kept # <<>>
  <2>1. L \in 1..L /\ last \in S /\ last[1] \in Int /\ last[2] \in Int
    BY <1>1, <1>6 DEF Intervals
  <2>2. last[1] <= next[1]
    <3>1. n - 1 >= 1 /\ last[1] <= sorted[n - 1][1] /\ n - 1 \in 1..Len(sorted)
      BY <1>1, <1>2, <1>6
    <3>2. sorted[n - 1][1] \in Int
      BY <3>1 DEF Intervals
    <3>3. sorted[n - 1][1] <= next[1]
      BY <1>1, <3>1
    <3> QED
      BY <1>4, <2>1, <3>1, <3>2, <3>3
  <2>3. CASE new = Append(kept, next) /\ next[1] > last[2]
    <3>1. /\ Len(new) = L + 1 /\ new[L + 1] = next /\ new # <<>>
          /\ \A i \in 1..L : new[i] = kept[i]
      BY <1>1, <2>3
    <3>2. ASSUME NEW m \in Int PROVE (\E i \in 1..Len(new) : Within(m, new[i])) <=> now(m)
      <4>1. \A i : i \in 1..Len(new) <=> i \in 1..L \/ i = L + 1
        BY <1>1, <3>1
      <4>2. (\E i \in 1..Len(new) : Within(m, new[i])) <=> (\E i \in 1..L : Within(m, kept[i])) \/ Within(m, next)
        BY <3>1, <4>1
      <4> QED
        BY <1>2, <1>3, <4>2
    <3>3. ASSUME NEW i \in 2..Len(new) PROVE new[i - 1][2] < new[i][1]
      <4>1. CASE i = L + 1
        <5>1. i - 1 = L /\ new[i - 1] = last /\ new[i] = next
          BY <1>1, <2>1, <3>1, <4>1
        <5> QED
          BY <1>4, <2>1, <2>3, <5>1
      <4>2. CASE i # L + 1
        <5>1. i \in 2..L /\ i \in 1..L /\ i - 1 \in 1..L
          BY <1>1, <3>1, <4>2
        <5> QED
          BY <1>2, <3>1, <5>1
      <4> QED
        BY <4>1, <4>2
    <3>4. new[Len(new)][1] <= sorted[n][1]
      BY <1>4, <3>1
    <3> QED
      BY <1>1, <3>1, <3>2, <3>3, <3>4 DEF MergedUpTo, now
  <2>4. CASE /\ next[1] <= last[2] /\ Len(new) = L
             /\ \A i \in 1..(L - 1) : new[i] = kept[i]
             /\ new[L] = Joined(last, next)
    <3>1. new # <<>>
      BY <1>1, <1>6, <2>4
    <3>2. new[L][1] = last[1] /\ new[L][2] = IF next[2] > last[2] THEN next[2] ELSE last[2]
      BY <2>4 DEF Joined
    <3>3. ASSUME NEW m \in Int PROVE Within(m, new[L]) <=> Within(m, last) \/ Within(m, next)
      BY <1>4, <2>1, <2>2, <2>4, <3>2 DEF Within
    <3>4. ASSUME NEW m \in Int PROVE (\E i \in 1..Len(new) : Within(m, new[i])) <=> now(m)
      <4>1. \A i : i \in 1..L <=> i \in 1..(L - 1) \/ i = L
        BY <2>1, <1>1
      <4>2. (\E i \in 1..Len(new) : Within(m, new[i])) <=> (\E i \in 1..L : Within(m, kept[i])) \/ Within(m, next)
        BY <2>4, <3>3, <4>1
      <4> QED
        BY <1>2, <1>3, <4>2
    <3>5. ASSUME NEW i \in 2..Len(new) PROVE new[i - 1][2] < new[i][1]
      <4>1. i \in 2..L /\ i - 1 \in 1..(L - 1) /\ new[i - 1] = kept[i - 1] /\ kept[i - 1][2] < kept[i][1]
        BY <1>1, <1>2, <2>4
      <4>2. new[i][1] = kept[i][1]
        <5>1. i = L \/ i \in 1..(L - 1)
          BY <1>1, <4>1
        <5> QED
          BY <2>4, <3>2, <5>1
      <4> QED
        BY <4>1, <4>2
    <3>6. new[Len(new)][1] <= sorted[n][1]
      BY <2>2, <2>4, <3>2
    <3> QED
      BY <1>1, <3>1, <3>4, <3>5, <3>6 DEF MergedUpTo, now
  <2>5. \/ new = Append(kept, next) /\ next[1] > last[2]
        \/ /\ next[1] <= last[2] /\ Len(new) = L
           /\ \A i \in 1..(L - 1) : new[i] = kept[i]
           /\ new[L] = Joined(last, next)
    BY <1>6, Zenon DEF MergedAs
  <2> QED
    BY <2>3, <2>4, <2>5
<1> QED
  BY <1>5, <1>6

\* So merging sorted intervals keeps what they cover and leaves gaps between them.
LEMMA MergeSortedFacts ==
    ASSUME NEW S, Intervals(S), NEW sorted \in Seq(S),
           \A n \in 2..Len(sorted) : sorted[n - 1][1] <= sorted[n][1]
    PROVE  MergeSorted(sorted) \in Seq(S) /\ MergedUpTo(sorted, MergeSorted(sorted), Len(sorted))
<1>1. PICK kept : kept \in [0..Len(sorted) -> Seq(S)] /\ IntervalsRun(kept, sorted)
  BY IntervalsSteps
<1> DEFINE N == Len(sorted)
<1>2. N \in Nat
  OBVIOUS
<1>3. /\ kept \in [0..N -> Seq(S)] /\ kept[0] = <<>> /\ MergeSorted(sorted) = kept[N]
      /\ \A n \in 1..N : kept[n] = Merged(kept[n - 1], sorted[n])
  BY <1>1, Zenon DEF IntervalsRun
<1> DEFINE Good == {n \in 0..N : MergedUpTo(sorted, kept[n], n)}
<1>4. 0 \in Good
  <2>1. MergedUpTo(sorted, <<>>, 0)
    BY DEF MergedUpTo
  <2> QED
    BY <1>2, <1>3, <2>1
<1>5. ASSUME NEW n \in 1..N, n - 1 \in Good
      PROVE  n \in Good
  <2> DEFINE old == kept[n - 1]
             new == Merged(old, sorted[n])
  <2>1. /\ n - 1 \in 0..N /\ n \in 0..N /\ old \in Seq(S) /\ sorted[n] \in S
        /\ MergedUpTo(sorted, old, n - 1) /\ kept[n] = new
    BY <1>3, <1>5
  <2> HIDE DEF old
  <2>2. new \in Seq(S) /\ MergedAs(new, old, sorted[n])
    BY <2>1, MergedFacts
  <2> HIDE DEF new
  <2>3. n >= 2 => sorted[n - 1][1] <= sorted[n][1]
    BY <1>2
  <2>4. MergedUpTo(sorted, new, n)
    BY <2>1, <2>2, <2>3, MergeStep
  <2> QED
    BY <2>1, <2>4
<1>6. N \in Good
  <2>1. N \in 0..N
    BY <1>2
  <2> HIDE DEF Good, N
  <2> QED
    BY <1>2, <1>4, <1>5, <2>1, EachUpTo
<1> QED
  BY <1>2, <1>3, <1>6

LEMMA PairsAreIntervals == Intervals(Int \X Int)
<1>1. ASSUME NEW x \in Int \X Int, NEW y \in Int \X Int
      PROVE  Joined(x, y) \in Int \X Int
  <2>1. x[1] \in Int /\ x[2] \in Int /\ y[2] \in Int
    OBVIOUS
  <2> QED
    BY <2>1 DEF Joined
<1> QED
  BY <1>1 DEF Intervals

\* Merging keeps what is covered, and what it returns lies apart.
LEMMA MergeIntervalsFacts ==
    ASSUME NEW S, S \subseteq Int \X Int, Intervals(S), NEW T, T \subseteq S, IsFiniteSet(T)
    PROVE  /\ MergeIntervals(T) \in Seq(S)
           /\ \A m \in Int : Covers(MergeIntervals(T), m) <=> \E i \in T : Within(m, i)
           /\ \A i \in 2..Len(MergeIntervals(T)) : MergeIntervals(T)[i - 1][2] < MergeIntervals(T)[i][1]
<1> DEFINE R == {p \in T \X T : Earlier(p[1], p[2])}
           sorted == InOrder(T, R)
           merged == MergeSorted(sorted)
           N == Cardinality(T)
<1>1. \A x \in T : x[1] \in Int /\ x[2] \in Int /\ x = <<x[1], x[2]>>
  OBVIOUS
<1>2. Linear(T, R)
  <2>1. \A x, y \in T : <<x, y>> \in R <=> Earlier(x, y)
    OBVIOUS
  <2> HIDE DEF R
  <2>2. ASSUME NEW x \in T, NEW y \in T PROVE <<x, y>> \in R \/ <<y, x>> \in R
    BY <1>1, <2>1 DEF Earlier
  <2>3. ASSUME NEW x \in T, NEW y \in T, <<x, y>> \in R, <<y, x>> \in R PROVE x = y
    <3>1. Earlier(x, y) /\ Earlier(y, x)
      BY <2>1, <2>3
    <3>2. x[1] \in Int /\ x[2] \in Int /\ y[1] \in Int /\ y[2] \in Int
      BY <1>1
    <3>3. x[1] = y[1] /\ x[2] = y[2]
      BY <3>1, <3>2 DEF Earlier
    <3>4. x = <<x[1], x[2]>> /\ y = <<y[1], y[2]>>
      BY <1>1
    <3> QED
      BY <3>3, <3>4
  <2>4. ASSUME NEW x \in T, NEW y \in T, NEW z \in T, <<x, y>> \in R, <<y, z>> \in R PROVE <<x, z>> \in R
    <3>1. Earlier(x, y) /\ Earlier(y, z)
      BY <2>1, <2>4
    <3>2. Earlier(x, z)
      BY <1>1, <3>1 DEF Earlier
    <3> QED
      BY <2>1, <3>2
  <2> QED
    BY <2>2, <2>3, <2>4 DEF Linear
<1>3. Sorted(sorted, T, R)
  <2> HIDE DEF R
  <2> QED
    BY <1>2, InOrderFacts
<1> HIDE DEF sorted
<1>4. /\ N \in Nat /\ sorted \in [1..N -> T]
      /\ \A x \in T : \E n \in 1..N : sorted[n] = x
      /\ \A i, j \in 1..N : i <= j => Earlier(sorted[i], sorted[j])
  <2>1. /\ N \in Nat /\ sorted \in [1..N -> T]
        /\ \A x \in T : \E n \in 1..N : sorted[n] = x
        /\ \A i, j \in 1..N : i <= j => <<sorted[i], sorted[j]>> \in R
    BY <1>3, Zenon DEF Sorted
  <2>2. \A x, y : <<x, y>> \in R => Earlier(x, y)
    OBVIOUS
  <2> HIDE DEF R, N
  <2> QED
    BY <2>1, <2>2
<1> HIDE DEF N
<1>5. sorted \in Seq(S) /\ Len(sorted) = N
  <2>1. \A n \in 1..N : sorted[n] \in S
    BY <1>4
  <2> QED
    BY <1>4, <2>1
<1>6. ASSUME NEW n \in 2..Len(sorted) PROVE sorted[n - 1][1] <= sorted[n][1]
  <2>1. n - 1 \in 1..N /\ n \in 1..N /\ n - 1 <= n
    BY <1>4, <1>5
  <2>2. Earlier(sorted[n - 1], sorted[n]) /\ sorted[n - 1] \in T /\ sorted[n] \in T
    BY <1>4, <2>1
  <2> QED
    BY <1>1, <2>2 DEF Earlier
<1>8. merged \in Seq(S) /\ MergedUpTo(sorted, merged, N)
  BY <1>5, <1>6, MergeSortedFacts
<1>9. MergeIntervals(T) = merged
  BY DEF MergeIntervals, sorted
<1> HIDE DEF merged
<1>10. /\ \A m \in Int : (\E i \in 1..Len(merged) : Within(m, merged[i])) <=> \E j \in 1..N : Within(m, sorted[j])
       /\ \A i \in 2..Len(merged) : merged[i - 1][2] < merged[i][1]
  BY <1>8, Zenon DEF MergedUpTo
<1>11. ASSUME NEW m \in Int PROVE Covers(merged, m) <=> \E i \in T : Within(m, i)
  <2>1. Covers(merged, m) <=> \E i \in 1..Len(merged) : Within(m, merged[i])
    BY <1>8, RangeFacts DEF Covers
  <2>2. (\E j \in 1..N : Within(m, sorted[j])) <=> \E i \in T : Within(m, i)
    BY <1>4
  <2> QED
    BY <1>10, <2>1, <2>2
<1> QED
  BY <1>8, <1>9, <1>10, <1>11

\* Numbers in and around a day.
LEMMA DayFacts ==
    /\ Minutes \in Nat /\ Minutes >= 2 /\ WindowEnd \in Nat
    /\ \A d \in Int : d * Minutes \in Int
    /\ \A d \in Day : d * Minutes \in Nat /\ d * Minutes + Minutes <= WindowEnd
<1>1. Minutes \in Nat /\ Minutes >= 2 /\ Days \in Nat /\ WindowEnd \in Nat
  <2>1. Minutes \in Nat /\ Minutes >= 2 /\ Days \in Nat
    BY ClockAssumption
  <2>2. Days * Minutes \in Nat
    BY <2>1
  <2> QED
    BY <2>1, <2>2 DEF WindowEnd
<1>2. ASSUME NEW d \in Int PROVE d * Minutes \in Int
  BY <1>1
<1>3. ASSUME NEW d \in Day PROVE d * Minutes \in Nat /\ d * Minutes + Minutes <= WindowEnd
  <2>1. d \in Nat /\ d \in Int /\ Days \in Int /\ d < Days
    BY <1>1 DEF Day
  <2>2. d * Minutes \in Nat
    BY <1>1, <2>1
  <2>3. d * Minutes + Minutes <= Days * Minutes
    BY <1>1, <2>1
  <2> QED
    BY <2>2, <2>3 DEF WindowEnd
<1> QED
  BY <1>1, <1>2, <1>3

\* Every instant of the window is a minute of one of its days.
LEMMA InstantsAreMinutes ==
    ASSUME NEW t \in 0..WindowEnd - 1
    PROVE  \E d \in Day, m \in Minute : t = d * Minutes + m
<1> DEFINE last == WindowEnd - 1
           Good == {n \in 0..last : \E d \in Nat, m \in Minute : n = d * Minutes + m}
<1>1. last \in Nat /\ t \in 0..last /\ t \in Nat /\ WindowEnd \in Nat /\ t < WindowEnd
  BY DayFacts
<1>2. Minute = 0..Minutes - 1 /\ Minutes \in Nat /\ Minutes >= 2
  BY DayFacts DEF Minute
<1> HIDE DEF last
<1>3. 0 \in Good
  <2>1. 0 \in Minute /\ 0 * Minutes + 0 = 0 /\ 0 \in 0..last
    BY <1>1, <1>2
  <2> QED
    BY <2>1
<1>4. ASSUME NEW n \in 1..last, n - 1 \in Good PROVE n \in Good
  <2>1. PICK d \in Nat, m \in Minute : n - 1 = d * Minutes + m
    BY <1>4
  <2> DEFINE first == d * Minutes
             second == (d + 1) * Minutes
  <2>2. first \in Nat /\ second = first + Minutes /\ d + 1 \in Nat
    <3>1. d * Minutes \in Nat /\ (d + 1) * Minutes = d * Minutes + Minutes
      BY <1>2
    <3> QED
      BY <3>1
  <2>3. n - 1 = first + m /\ n \in Nat
    BY <1>1, <2>1
  <2> HIDE DEF first, second
  <2>4. CASE m + 1 = Minutes
    <3>1. n = second + 0 /\ 0 \in Minute
      BY <1>2, <2>2, <2>3, <2>4
    <3>2. n = (d + 1) * Minutes + 0
      BY <3>1 DEF second
    <3> QED
      BY <1>1, <2>2, <3>1, <3>2
  <2>5. CASE m + 1 # Minutes
    <3>1. n = first + (m + 1) /\ m + 1 \in Minute
      BY <1>2, <2>2, <2>3, <2>5
    <3>2. n = d * Minutes + (m + 1)
      BY <3>1 DEF first
    <3> QED
      BY <1>1, <3>1, <3>2
  <2> QED
    BY <2>4, <2>5
<1>5. t \in Good
  <2>1. \A n \in 0..last : n \in Good
    <3> HIDE DEF Good
    <3> QED
      BY <1>1, <1>3, <1>4, EachUpTo
  <2> QED
    BY <1>1, <2>1
<1>6. PICK d \in Nat, m \in Minute : t = d * Minutes + m
  BY <1>5
<1>7. d \in Day
  <2>1. Days \in Nat
    BY ClockAssumption
  <2>2. SUFFICES ASSUME Days <= d PROVE FALSE
    BY <2>1 DEF Day
  <2>3. Days * Minutes <= d * Minutes
    BY <1>2, <2>1, <2>2
  <2> DEFINE first == d * Minutes
  <2>4. first \in Nat /\ t = first + m /\ WindowEnd <= first
    <3>1. d * Minutes \in Nat
      BY <1>2
    <3> QED
      BY <1>6, <2>3, <3>1 DEF WindowEnd
  <2> HIDE DEF first
  <2> QED
    BY <1>1, <1>2, <2>4
<1> QED
  BY <1>6, <1>7

\* The image of a finite set under a function is finite.
LEMMA ImageIsFinite ==
    ASSUME NEW S, IsFiniteSet(S), NEW f, f \in [S -> Int \X Int]
    PROVE  IsFiniteSet({f[x] : x \in S})
<1> DEFINE T == {f[x] : x \in S}
<1>1. f \in Surjection(S, T)
  BY DEF Surjection
<1> QED
  BY <1>1, FS_Surjection

\* What lies on a date are the minutes of that date that the ranges cover.
LEMMA OnDateFacts ==
    ASSUME NEW ranges, ranges \subseteq Int \X Int, IsFiniteSet(ranges), NEW d \in Int
    PROVE  /\ OnDate(ranges, d) \subseteq Int \X Int /\ IsFiniteSet(OnDate(ranges, d))
           /\ \A m \in Minute : (\E i \in OnDate(ranges, d) : Within(m, i))
                                  <=> \E r \in ranges : r[1] <= d * Minutes + m /\ d * Minutes + m < r[2]
<1> DEFINE first == d * Minutes
           overlapping == {r \in ranges : r[1] < first + Minutes /\ r[2] > first}
           from(r) == IF r[1] < first THEN 0 ELSE r[1] - first
           to(r) == IF r[2] >= first + Minutes THEN Minutes ELSE r[2] - first
           piece == [r \in overlapping |-> <<from(r), to(r)>>]
<1>1. first \in Int /\ Minutes \in Nat /\ Minute = 0..Minutes - 1
  BY DayFacts DEF Minute
<1>2. OnDate(ranges, d) = {<<from(r), to(r)>> : r \in overlapping}
  BY DEF OnDate
<1> HIDE DEF first
<1>3. \A r \in ranges : r[1] \in Int /\ r[2] \in Int
  OBVIOUS
<1>4. \A r \in ranges : from(r) \in Int /\ to(r) \in Int
  BY <1>1, <1>3
<1>5. OnDate(ranges, d) = {piece[r] : r \in overlapping} /\ piece \in [overlapping -> Int \X Int]
  <2> HIDE DEF from, to
  <2> QED
    BY <1>2, <1>4
<1>6. IsFiniteSet(overlapping)
  BY FS_Subset
<1>7. OnDate(ranges, d) \subseteq Int \X Int /\ IsFiniteSet(OnDate(ranges, d))
  <2> HIDE DEF piece, overlapping
  <2> QED
    BY <1>5, <1>6, ImageIsFinite
<1>8. ASSUME NEW m \in Minute
      PROVE  (\E i \in OnDate(ranges, d) : Within(m, i)) <=> \E r \in ranges : r[1] <= first + m /\ first + m < r[2]
  <2>1. (\E i \in OnDate(ranges, d) : Within(m, i)) <=> \E r \in overlapping : from(r) <= m /\ m < to(r)
    <3>1. \A r \in overlapping : Within(m, <<from(r), to(r)>>) <=> from(r) <= m /\ m < to(r)
      BY DEF Within
    <3> HIDE DEF overlapping, from, to
    <3> QED
      BY <1>2, <3>1
  <2>2. \A r \in ranges : (r \in overlapping /\ from(r) <= m /\ m < to(r)) <=> r[1] <= first + m /\ first + m < r[2]
    BY <1>1, <1>3
  <2>3. overlapping \subseteq ranges
    OBVIOUS
  <2> HIDE DEF overlapping, from, to
  <2> QED
    BY <2>1, <2>2, <2>3
<1> QED
  BY <1>7, <1>8 DEF first

\* Clipping loses nothing of the window.
LEMMA ClippedFacts ==
    ASSUME NEW ranges, ranges \subseteq Int \X Int, IsFiniteSet(ranges)
    PROVE  /\ Clipped(ranges) \subseteq Int \X Int /\ IsFiniteSet(Clipped(ranges))
           /\ ~Malformed(ranges) => ~Malformed(Clipped(ranges))
           /\ \A t \in 0..WindowEnd - 1 :
                (\E r \in Clipped(ranges) : r[1] <= t /\ t < r[2]) <=> \E r \in ranges : r[1] <= t /\ t < r[2]
<1> DEFINE inside == {r \in ranges : r[1] < WindowEnd /\ r[2] > 0}
           from(r) == IF r[1] < 0 THEN 0 ELSE r[1]
           to(r) == IF r[2] > WindowEnd THEN WindowEnd ELSE r[2]
           piece == [r \in inside |-> <<from(r), to(r)>>]
<1>1. WindowEnd \in Nat
  BY DayFacts
<1>2. Clipped(ranges) = {<<from(r), to(r)>> : r \in inside}
  BY DEF Clipped
<1>3. \A r \in ranges : r[1] \in Int /\ r[2] \in Int
  OBVIOUS
<1>4. \A r \in ranges : from(r) \in Int /\ to(r) \in Int
  BY <1>1, <1>3
<1>5. Clipped(ranges) = {piece[r] : r \in inside} /\ piece \in [inside -> Int \X Int]
  <2> HIDE DEF from, to
  <2> QED
    BY <1>2, <1>4
<1>6. IsFiniteSet(inside)
  BY FS_Subset
<1>7. Clipped(ranges) \subseteq Int \X Int /\ IsFiniteSet(Clipped(ranges))
  <2> HIDE DEF piece, inside
  <2> QED
    BY <1>5, <1>6, ImageIsFinite
<1>9. ASSUME ~Malformed(ranges)
      PROVE  ~Malformed(Clipped(ranges))
  <2>1. 0 \in Day
    BY ClockAssumption DEF Day
  <2>2. WindowEnd > 0
    <3> DEFINE first == 0 * Minutes
    <3>1. first \in Nat /\ first + Minutes <= WindowEnd /\ Minutes \in Nat /\ Minutes >= 2
      BY <2>1, DayFacts
    <3> HIDE DEF first
    <3> QED
      BY <1>1, <3>1
  <2>3. \A r \in ranges : r[1] < r[2]
    BY <1>3, <1>9 DEF Malformed
  <2>4. \A r \in inside : from(r) < to(r) /\ from(r) \in Int /\ to(r) \in Int
    BY <1>1, <1>3, <2>2, <2>3
  <2>5. ASSUME NEW x \in Clipped(ranges) PROVE ~(x[2] <= x[1])
    <3>1. PICK r \in inside : x = <<from(r), to(r)>>
      BY <1>2, Zenon
    <3>2. x[1] = from(r) /\ x[2] = to(r)
      BY <3>1
    <3> HIDE DEF from, to, inside
    <3> QED
      BY <2>4, <3>2
  <2> QED
    BY <2>5 DEF Malformed
<1>8. ASSUME NEW t \in 0..WindowEnd - 1
      PROVE  (\E r \in Clipped(ranges) : r[1] <= t /\ t < r[2]) <=> \E r \in ranges : r[1] <= t /\ t < r[2]
  <2>1. (\E r \in Clipped(ranges) : r[1] <= t /\ t < r[2]) <=> \E r \in inside : from(r) <= t /\ t < to(r)
    <3> DEFINE met(p) == p[1] <= t /\ t < p[2]
    <3>1. \A r \in inside : met(<<from(r), to(r)>>) <=> from(r) <= t /\ t < to(r)
      OBVIOUS
    <3> HIDE DEF met, inside, from, to
    <3>2. (\E r \in Clipped(ranges) : met(r)) <=> \E r \in inside : from(r) <= t /\ t < to(r)
      BY <1>2, <3>1
    <3> QED
      BY <3>2 DEF met
  <2>2. \A r \in ranges : (r \in inside /\ from(r) <= t /\ t < to(r)) <=> r[1] <= t /\ t < r[2]
    BY <1>1, <1>3
  <2>3. inside \subseteq ranges
    OBVIOUS
  <2> HIDE DEF inside, from, to
  <2> QED
    BY <2>1, <2>2, <2>3
<1> QED
  BY <1>7, <1>8, <1>9

\* The text of a date.
LEMMA DailyFacts ==
    ASSUME NEW ranges, ranges \subseteq Int \X Int, IsFiniteSet(ranges), NEW d \in Int
    PROVE  LET text == MergeIntervals(OnDate(ranges, d))
           IN /\ \A m \in Minute :
                   Covers(text, m) <=> \E r \in ranges : r[1] <= d * Minutes + m /\ d * Minutes + m < r[2]
              /\ \A i \in 2..Len(text) : text[i - 1][2] < text[i][1]
<1> DEFINE T == OnDate(ranges, d)
<1>1. T \subseteq Int \X Int /\ IsFiniteSet(T)
  BY OnDateFacts
<1>2. \A m \in Minute : (\E i \in T : Within(m, i)) <=> \E r \in ranges : r[1] <= d * Minutes + m /\ d * Minutes + m < r[2]
  BY OnDateFacts
<1>3. Minute \subseteq Int
  BY DayFacts DEF Minute
<1> HIDE DEF T
<1>4. /\ \A m \in Int : Covers(MergeIntervals(T), m) <=> \E i \in T : Within(m, i)
      /\ \A i \in 2..Len(MergeIntervals(T)) : MergeIntervals(T)[i - 1][2] < MergeIntervals(T)[i][1]
  BY <1>1, PairsAreIntervals, MergeIntervalsFacts
<1>5. ASSUME NEW m \in Minute
      PROVE  Covers(MergeIntervals(T), m) <=> \E r \in ranges : r[1] <= d * Minutes + m /\ d * Minutes + m < r[2]
  BY <1>2, <1>3, <1>4
<1> QED
  BY <1>4, <1>5 DEF T

\* Intervals of a day that cover something.
DayPieces == {x \in Int \X Int : 0 <= x[1] /\ x[1] < x[2] /\ x[2] <= Minutes}

LEMMA DayPiecesAreIntervals == Intervals(DayPieces)
<1>1. ASSUME NEW x \in DayPieces, NEW y \in DayPieces
      PROVE  Joined(x, y) \in DayPieces
  <2>1. /\ x[1] \in Int /\ x[2] \in Int /\ y[2] \in Int
        /\ 0 <= x[1] /\ x[1] < x[2] /\ x[2] <= Minutes /\ y[2] <= Minutes
    BY DEF DayPieces
  <2> DEFINE to == IF y[2] > x[2] THEN y[2] ELSE x[2]
  <2>2. to \in Int /\ x[1] < to /\ to <= Minutes
    BY <2>1, DayFacts
  <2>3. Joined(x, y) = <<x[1], to>>
    BY DEF Joined
  <2> HIDE DEF to
  <2> QED
    BY <2>1, <2>2, <2>3 DEF DayPieces
<1> QED
  BY <1>1 DEF Intervals, DayPieces

\* Intervals that lie apart and cover the day are the one full day.
LEMMA OnlyTheFullDayCovers ==
    ASSUME NEW text \in Seq(DayPieces),
           \A i \in 2..Len(text) : text[i - 1][2] < text[i][1],
           \A m \in Minute : Covers(text, m)
    PROVE  text = <<FullDay>>
<1> DEFINE L == Len(text)
           end == text[1][2]
           Good == {n \in 0..L : n >= 2 => end < text[n][1]}
<1>1. L \in Nat /\ Minutes \in Nat /\ Minutes >= 2 /\ Minute = 0..Minutes - 1
  BY DayFacts DEF Minute
<1>2. \A i \in 1..L : /\ text[i] \in DayPieces /\ text[i][1] \in Int /\ text[i][2] \in Int
                      /\ 0 <= text[i][1] /\ text[i][1] < text[i][2] /\ text[i][2] <= Minutes
  BY DEF DayPieces
<1>3. ASSUME NEW m \in Minute
      PROVE  \E i \in 1..L : text[i][1] <= m /\ m < text[i][2]
  BY RangeFacts DEF Covers, Within
<1>4. 0 \in Minute /\ Minutes - 1 \in Minute
  BY <1>1
<1>5. L >= 1
  BY <1>1, <1>3, <1>4
<1>6. ASSUME L >= 2 PROVE FALSE
  <2>1. 1 \in 1..L /\ 2 \in 1..L
    BY <1>1, <1>6
  <2>2. end < text[2][1]
    <3>1. 2 \in 2..L /\ 2 - 1 = 1
      BY <1>1, <1>6
    <3> QED
      BY <3>1
  <2>3. end \in Minute /\ end \in Int
    <3> DEFINE first == text[1][1]
               next == text[2][1]
               last == text[2][2]
    <3>1. /\ first \in Int /\ end \in Int /\ next \in Int /\ last \in Int
          /\ 0 <= first /\ first < end /\ next < last /\ last <= Minutes
      BY <1>2, <2>1
    <3> HIDE DEF first, end, next, last
    <3>2. end < next
      BY <2>2 DEF end, next
    <3> QED
      BY <1>1, <3>1, <3>2
  <2>4. 0 \in Good
    BY <1>1
  <2>5. ASSUME NEW n \in 1..L, n - 1 \in Good
        PROVE  n \in Good
    <3>1. n = 1 \/ n = 2 \/ (n >= 3 /\ n - 1 \in 1..L /\ n \in 2..L /\ n - 1 >= 2)
      BY <1>1
    <3>2. n >= 3 => end < text[n - 1][1] /\ text[n - 1][1] < text[n - 1][2] /\ text[n - 1][2] < text[n][1]
      BY <1>2, <2>5, <3>1
    <3>3. n >= 3 => end < text[n][1]
      <4> SUFFICES ASSUME n >= 3 PROVE end < text[n][1]
        OBVIOUS
      <4> DEFINE a == text[n - 1][1]
                 b == text[n - 1][2]
                 c == text[n][1]
      <4>1. a \in Int /\ b \in Int /\ c \in Int
        BY <1>2, <3>1
      <4>2. end < a /\ a < b /\ b < c
        BY <3>2
      <4> HIDE DEF a, b, c, end
      <4>3. end < c
        BY <2>3, <4>1, <4>2
      <4> QED
        BY <4>3 DEF c
    <3> QED
      BY <1>1, <2>2, <3>1, <3>3
  <2>6. \A n \in 0..L : n \in Good
    <3> HIDE DEF Good, L
    <3> QED
      BY <1>1, <2>4, <2>5, EachUpTo
  <2>7. PICK j \in 1..L : text[j][1] <= end /\ end < text[j][2]
    BY <1>3, <2>3
  <2>8. j >= 2
    BY <2>1, <2>7, <1>2
  <2>9. end < text[j][1]
    BY <1>1, <2>6, <2>8
  <2> QED
    BY <1>2, <2>1, <2>7, <2>9
<1>7. L = 1
  <2> HIDE DEF L
  <2> QED
    BY <1>1, <1>5, <1>6
<1>8. text[1] \in DayPieces /\ text[1][1] = 0 /\ text[1][2] = Minutes
  <2>1. text[1][1] <= 0 /\ Minutes - 1 < text[1][2]
    BY <1>3, <1>4, <1>7
  <2> QED
    BY <1>1, <1>2, <1>7, <2>1
<1>9. text[1] = FullDay
  BY <1>8 DEF FullDay, DayPieces
<1> QED
  BY <1>7, <1>9

\* A date whose text is not the full day has a minute that was not published.
LEMMA NotFullDayTells ==
    ASSUME NEW ranges, ranges \subseteq Int \X Int, IsFiniteSet(ranges), ~Malformed(ranges),
           NEW d \in Int, MergeIntervals(OnDate(ranges, d)) # <<FullDay>>
    PROVE  \E m \in Minute : ~Covers(MergeIntervals(OnDate(ranges, d)), m)
<1> DEFINE T == OnDate(ranges, d)
           first == d * Minutes
           overlapping == {r \in ranges : r[1] < first + Minutes /\ r[2] > first}
           from(r) == IF r[1] < first THEN 0 ELSE r[1] - first
           to(r) == IF r[2] >= first + Minutes THEN Minutes ELSE r[2] - first
<1>1. T = {<<from(r), to(r)>> : r \in overlapping}
  BY DEF OnDate
<1>2. first \in Int /\ Minutes \in Nat /\ Minutes >= 2
  BY DayFacts
<1> HIDE DEF first
<1>3. \A r \in ranges : r[1] \in Int /\ r[2] \in Int /\ r[1] < r[2]
  BY DEF Malformed
<1>4. ASSUME NEW r \in overlapping
      PROVE  <<from(r), to(r)>> \in DayPieces
  <2>1. from(r) \in Int /\ to(r) \in Int /\ 0 <= from(r) /\ from(r) < to(r) /\ to(r) <= Minutes
    BY <1>2, <1>3
  <2> HIDE DEF from, to
  <2> QED
    BY <2>1 DEF DayPieces
<1>5. T \subseteq DayPieces
  <2> HIDE DEF from, to, overlapping
  <2> QED
    BY <1>1, <1>4
<1>6. IsFiniteSet(T)
  BY OnDateFacts
<1> DEFINE text == MergeIntervals(T)
<1> HIDE DEF T
<1>7. text \in Seq(DayPieces) /\ \A i \in 2..Len(text) : text[i - 1][2] < text[i][1]
  <2>1. DayPieces \subseteq Int \X Int
    BY DEF DayPieces
  <2> QED
    BY <1>5, <1>6, <2>1, DayPiecesAreIntervals, MergeIntervalsFacts
<1>8. text # <<FullDay>>
  BY DEF T
<1> HIDE DEF text
<1>9. \E m \in Minute : ~Covers(text, m)
  BY <1>7, <1>8, OnlyTheFullDayCovers
<1> QED
  BY <1>9 DEF text, T

\* A text that is made date by date is right on each of its dates.
LEMMA SummaryTells ==
    ASSUME NEW ranges, ranges \subseteq Int \X Int, IsFiniteSet(ranges),
           NEW dates, dates \subseteq Int, NEW text,
           text = [d \in dates |-> MergeIntervals(OnDate(ranges, d))]
    PROVE  \A d \in DOMAIN text :
             /\ \A m \in Minute : Covers(text[d], m)
                                    <=> \E r \in ranges : r[1] <= d * Minutes + m /\ d * Minutes + m < r[2]
             /\ \A i \in 2..Len(text[d]) : text[d][i - 1][2] < text[d][i][1]
<1>1. ASSUME NEW d \in dates
      PROVE  /\ \A m \in Minute : Covers(text[d], m)
                                    <=> \E r \in ranges : r[1] <= d * Minutes + m /\ d * Minutes + m < r[2]
             /\ \A i \in 2..Len(text[d]) : text[d][i - 1][2] < text[d][i][1]
  <2> DEFINE daily == MergeIntervals(OnDate(ranges, d))
  <2>1. d \in Int /\ text[d] = daily
    OBVIOUS
  <2>2. /\ \A m \in Minute : Covers(daily, m)
                               <=> \E r \in ranges : r[1] <= d * Minutes + m /\ d * Minutes + m < r[2]
        /\ \A i \in 2..Len(daily) : daily[i - 1][2] < daily[i][1]
    BY <2>1, DailyFacts
  <2> HIDE DEF daily
  <2> QED
    BY <2>1, <2>2
<1>2. DOMAIN text = dates
  OBVIOUS
<1> QED
  BY <1>1, <1>2

\* What is shown and claimed of TomTom's hours, as HoursAreExact states it.
HoursAreTold(text, allDay, now, ranges, minute) ==
  LET published(t) == \E r \in ranges : r[1] <= t /\ t < r[2]
  IN /\ \A d \in DOMAIN text :
          /\ \A m \in Minute : Covers(text[d], m) <=> published(d * Minutes + m)
          /\ \A i \in 2..Len(text[d]) : text[d][i - 1][2] < text[d][i][1]
     /\ allDay = "yes" => \A t \in 0..WindowEnd - 1 : published(t)
     /\ allDay = "no" => \E d \in DOMAIN text, m \in Minute : ~published(d * Minutes + m)
     /\ now # "unknown" => now = Answer(published(minute))

\* The summary of hours that cannot be laid over the week is right.
LEMMA PublishedSummaryTells ==
    ASSUME NEW ranges, ranges \subseteq Int \X Int, IsFiniteSet(ranges), ~Malformed(ranges),
           NEW minute, NEW s, s = PublishedSummary(ranges)
    PROVE  HoursAreTold(s.text, s.allDay, s.now, ranges, minute)
<1>1. CASE ranges = {}
  <2>1. s.text = <<>> /\ s.allDay = "unknown" /\ s.now = "unknown"
    BY <1>1 DEF PublishedSummary
  <2> QED
    BY <2>1 DEF HoursAreTold
<1>2. CASE ranges # {}
  <2> DEFINE dates == UNION {DateOf(r[1])..DateOf(r[2] - 1) : r \in ranges}
             text == [d \in dates |-> MergeIntervals(OnDate(ranges, d))]
             allDay == IF \E d \in dates : text[d] # <<FullDay>> THEN "no" ELSE "unknown"
  <2>1. s = [text |-> text, now |-> "unknown", allDay |-> allDay]
    BY <1>2 DEF PublishedSummary
  <2>2. dates \subseteq Int
    OBVIOUS
  <2> HIDE DEF dates
  <2>3. allDay # "yes"
    OBVIOUS
  <2>6. ASSUME allDay = "no"
        PROVE  \E d \in dates : text[d] # <<FullDay>>
    BY <2>6
  <2>7. ASSUME NEW d \in dates, text[d] # <<FullDay>>
        PROVE  \E m \in Minute : ~Covers(text[d], m)
    <3>1. text[d] = MergeIntervals(OnDate(ranges, d)) /\ d \in Int
      BY <2>2
    <3> HIDE DEF text
    <3> QED
      BY <2>7, <3>1, NotFullDayTells
  <2>8. DOMAIN text = dates
    OBVIOUS
  <2>4. \A d \in DOMAIN text :
             /\ \A m \in Minute : Covers(text[d], m)
                                    <=> \E r \in ranges : r[1] <= d * Minutes + m /\ d * Minutes + m < r[2]
             /\ \A i \in 2..Len(text[d]) : text[d][i - 1][2] < text[d][i][1]
    BY <2>2, SummaryTells
  <2> HIDE DEF text, allDay
  <2>5. s.text = text /\ s.now = "unknown" /\ s.allDay = allDay
    BY <2>1
  <2>9. ASSUME allDay = "no"
        PROVE  \E d \in DOMAIN text, m \in Minute :
                 ~ \E r \in ranges : r[1] <= d * Minutes + m /\ d * Minutes + m < r[2]
    <3>1. PICK d \in dates : text[d] # <<FullDay>>
      BY <2>6, <2>9
    <3>2. PICK m \in Minute : ~Covers(text[d], m)
      BY <2>7, <3>1
    <3>3. ~ \E r \in ranges : r[1] <= d * Minutes + m /\ d * Minutes + m < r[2]
      BY <2>4, <2>8, <3>2
    <3> QED
      BY <2>8, <3>3
  <2>10. HoursAreTold(text, allDay, "unknown", ranges, minute)
    BY <2>3, <2>4, <2>9, Zenon DEF HoursAreTold
  <2> QED
    BY <2>5, <2>10
<1> QED
  BY <1>1, <1>2

\* The summary of TomTom's hours is right in each of its three cases.
LEMMA TomTomSummaryTells ==
    ASSUME NEW ranges, ranges \subseteq Int \X Int, IsFiniteSet(ranges), NEW placed, NEW minute, NEW s,
           s = TomTomSummary(ranges, placed, minute)
    PROVE  HoursAreTold(s.text, s.allDay, s.now, ranges, minute)
<1>1. CASE Malformed(ranges)
  <2>1. s.text = <<>> /\ s.allDay = "unknown" /\ s.now = "unknown"
    BY <1>1 DEF TomTomSummary
  <2> QED
    BY <2>1 DEF HoursAreTold
<1> DEFINE astray == ~placed \/ (ranges # {} /\ Clipped(ranges) = {})
<1>2. CASE ~Malformed(ranges) /\ astray
  <2>1. s = PublishedSummary(ranges)
    BY <1>2 DEF TomTomSummary
  <2> QED
    BY <1>2, <2>1, PublishedSummaryTells
<1>3. CASE ~Malformed(ranges) /\ ~astray
  <2> DEFINE inside == Clipped(ranges)
             text == [d \in Day |-> MergeIntervals(OnDate(inside, d))]
             allDay == Answer(\A d \in Day : text[d] = <<FullDay>>)
             now == Answer(\E r \in ranges : r[1] <= minute /\ minute < r[2])
             published(t) == \E r \in ranges : r[1] <= t /\ t < r[2]
  <2>1. s = [text |-> text, allDay |-> allDay, now |-> now]
    BY <1>3 DEF TomTomSummary
  <2>2. /\ inside \subseteq Int \X Int /\ IsFiniteSet(inside)
        /\ \A t \in 0..WindowEnd - 1 : (\E r \in inside : r[1] <= t /\ t < r[2]) <=> published(t)
    BY ClippedFacts
  <2>12. ~Malformed(inside)
    BY <1>3, ClippedFacts
  <2> HIDE DEF inside
  <2>3. Day \subseteq Int /\ DOMAIN text = Day
    BY ClockAssumption DEF Day
  <2>4. \A d \in DOMAIN text :
             /\ \A m \in Minute : Covers(text[d], m)
                                    <=> \E r \in inside : r[1] <= d * Minutes + m /\ d * Minutes + m < r[2]
             /\ \A i \in 2..Len(text[d]) : text[d][i - 1][2] < text[d][i][1]
    BY <2>2, <2>3, SummaryTells
  <2>13. ASSUME NEW d \in Day, text[d] # <<FullDay>>
         PROVE  \E m \in Minute : ~Covers(text[d], m)
    <3>1. text[d] = MergeIntervals(OnDate(inside, d)) /\ d \in Int
      BY <2>3
    <3> HIDE DEF text
    <3> QED
      BY <2>2, <2>12, <2>13, <3>1, NotFullDayTells
  <2> HIDE DEF text
  <2>5. \A d \in Day, m \in Minute : d * Minutes + m \in 0..WindowEnd - 1
    <3>1. ASSUME NEW d \in Day, NEW m \in Minute PROVE d * Minutes + m \in 0..WindowEnd - 1
      <4> DEFINE first == d * Minutes
      <4>1. first \in Nat /\ first + Minutes <= WindowEnd /\ WindowEnd \in Nat /\ Minutes \in Nat
        BY DayFacts
      <4>2. m \in 0..Minutes - 1
        BY DEF Minute
      <4> HIDE DEF first
      <4>3. first + m \in 0..WindowEnd - 1
        BY <4>1, <4>2
      <4> QED
        BY <4>3 DEF first
    <3> QED
      BY <3>1
  <2>6. ASSUME NEW d \in Day, NEW m \in Minute
        PROVE  Covers(text[d], m) <=> published(d * Minutes + m)
    <3> DEFINE t == d * Minutes + m
    <3>1. Covers(text[d], m) <=> \E r \in inside : r[1] <= t /\ t < r[2]
      BY <2>3, <2>4
    <3>2. t \in 0..WindowEnd - 1
      BY <2>5
    <3> HIDE DEF t
    <3>3. (\E r \in inside : r[1] <= t /\ t < r[2]) <=> published(t)
      BY <2>2, <3>2
    <3> QED
      BY <3>1, <3>3 DEF t
  <2>7. ASSUME allDay = "yes", NEW t \in 0..WindowEnd - 1 PROVE published(t)
    <3>1. PICK d \in Day, m \in Minute : t = d * Minutes + m
      BY InstantsAreMinutes
    <3>2. text[d] = <<FullDay>>
      BY <2>7 DEF Answer
    <3>3. Within(m, FullDay)
      BY ClockAssumption DEF Within, FullDay, Minute
    <3>4. Covers(text[d], m)
      <4>1. FullDay \in Range(<<FullDay>>)
        BY DEF Range
      <4> QED
        BY <3>2, <3>3, <4>1 DEF Covers
    <3>5. published(d * Minutes + m)
      BY <2>6, <3>4
    <3> HIDE DEF published
    <3> QED
      BY <3>1, <3>5
  <2>14. ASSUME allDay = "no"
         PROVE  \E d \in Day, m \in Minute : ~published(d * Minutes + m)
    <3>1. PICK d \in Day : text[d] # <<FullDay>>
      BY <2>14 DEF Answer
    <3>2. PICK m \in Minute : ~Covers(text[d], m)
      BY <2>13, <3>1
    <3>3. ~published(d * Minutes + m)
      BY <2>6, <3>2
    <3> HIDE DEF published
    <3> QED
      BY <3>3
  <2>8. now = Answer(published(minute))
    OBVIOUS
  <2>9. \A i \in Day : \A k \in 2..Len(text[i]) : text[i][k - 1][2] < text[i][k][1]
    BY <2>3, <2>4
  <2> HIDE DEF published, allDay, now
  <2>10. s.text = text /\ s.allDay = allDay /\ s.now = now
    BY <2>1
  <2>11. HoursAreTold(text, allDay, now, ranges, minute)
    BY <2>3, <2>6, <2>7, <2>8, <2>9, <2>14, Zenon DEF HoursAreTold, published
  <2> QED
    BY <2>10, <2>11
<1> QED
  BY <1>1, <1>2, <1>3

\* So TomTom's text and claims are right.
LEMMA TomTomHoursTells ==
    ASSUME WellFormed(question), TomTomHours
    PROVE  HoursAreExact'
<1> DEFINE ranges == question.hours
           s == TomTomSummary(ranges, question.placed, question.now)
<1>1. question' = question /\ question.op = "tomtom_hours"
      /\ answer' = [kind |-> "hours", text |-> s.text, allDay |-> s.allDay, now |-> s.now]
  BY Zenon DEF TomTomHours, Reply
<1>2. ranges \subseteq Int \X Int /\ IsFiniteSet(ranges)
  BY <1>1 DEF WellFormed
<1>3. ~Answered("twogis_hours")' /\ ~Answered("yandex_hours")'
  BY <1>1 DEF Answered
<1> HIDE DEF ranges
<1>4. HoursAreTold(s.text, s.allDay, s.now, ranges, question.now)
  BY <1>2, TomTomSummaryTells
<1> HIDE DEF s
<1>5. answer'.text = s.text /\ answer'.allDay = s.allDay /\ answer'.now = s.now
  BY <1>1
<1>6. HoursAreTold(answer'.text, answer'.allDay, answer'.now, question'.hours, question'.now)
  BY <1>1, <1>4, <1>5 DEF ranges
<1> QED
  BY <1>3, <1>6, Zenon DEF HoursAreExact, HoursAreTold

------------------------------------------------------------------------------

\* The question is one the code can be asked, and what has been answered is right.
Right == NothingVanishesSilently /\ ReliablePointsOnly /\ AnchorIsNeverGuessed /\ HoursAreExact
ResultsInv == WellFormed(question) /\ Right

\* Before it is answered, every question is well-formed and nothing is wrong.
LEMMA ResultsInitially == ResultsInit => ResultsInv
<1> SUFFICES ASSUME ResultsInit PROVE ResultsInv
  OBVIOUS
<1>1. WellFormed(question)
  <2>1. question \in Schedules \/ \E i \in DOMAIN Searches :
          \E asked \in Searches[i].requests, response \in Searches[i].responses :
            question = Question(asked, response)
    BY DEF ResultsInit
  <2> QED
    BY <2>1, QuestionsAreWellFormed
<1>2. answer = NoAnswer
  BY DEF ResultsInit
<1>3. \A op : ~Answered(op)
  BY <1>2 DEF Answered
<1>4. NothingVanishesSilently
  BY <1>3, Zenon DEF NothingVanishesSilently
<1>5. ReliablePointsOnly
  BY <1>3, Zenon DEF ReliablePointsOnly
<1>6. AnchorIsNeverGuessed
  BY <1>3, Zenon DEF AnchorIsNeverGuessed
<1>7. HoursAreExact
  BY <1>3, Zenon DEF HoursAreExact
<1> QED
  BY <1>1, <1>4, <1>5, <1>6, <1>7 DEF ResultsInv, Right

\* A property of other questions says nothing of this one.
LEMMA OtherQuestions ==
    /\ question'.op \notin Searching => NothingVanishesSilently'
    /\ question'.op # "tomtom_search" => ReliablePointsOnly'
    /\ question'.op \notin Naming => AnchorIsNeverGuessed'
    /\ question'.op \notin Telling => HoursAreExact'
<1>1. ASSUME question'.op \notin Searching PROVE NothingVanishesSilently'
  <2>1. ~Answered("twogis_search")' /\ ~Answered("tomtom_search")' /\ ~Answered("yandex_search")'
    BY <1>1 DEF Answered, Searching
  <2> QED
    BY <2>1, Zenon DEF NothingVanishesSilently
<1>2. ASSUME question'.op # "tomtom_search" PROVE ReliablePointsOnly'
  <2>1. ~Answered("tomtom_search")'
    BY <1>2 DEF Answered
  <2> QED
    BY <2>1, Zenon DEF ReliablePointsOnly
<1>3. ASSUME question'.op \notin Naming PROVE AnchorIsNeverGuessed'
  <2>1. ~Answered("twogis_named")' /\ ~Answered("tomtom_named")'
    BY <1>3 DEF Answered, Naming
  <2> QED
    BY <2>1, Zenon DEF AnchorIsNeverGuessed
<1>4. ASSUME question'.op \notin Telling PROVE HoursAreExact'
  <2>1. ~Answered("twogis_hours")' /\ ~Answered("tomtom_hours")' /\ ~Answered("yandex_hours")'
    BY <1>4 DEF Answered, Telling
  <2> QED
    BY <2>1, Zenon DEF HoursAreExact
<1> QED
  BY <1>1, <1>2, <1>3, <1>4

\* Every action answers its own kind of question, rightly.
LEMMA EachAnswerIsRight ==
    ASSUME WellFormed(question), ResultsNext
    PROVE  Right' /\ question' = question
<1>1. CASE TwogisSearch
  <2>1. question' = question /\ question'.op = "twogis_search"
    BY <1>1, Zenon DEF TwogisSearch, Reply
  <2>2. question'.op # "tomtom_search" /\ question'.op \notin Naming \cup Telling
    BY <2>1 DEF Naming, Telling
  <2> QED
    BY <1>1, <2>1, <2>2, TwogisSearchTells, OtherQuestions DEF Right
<1>2. CASE TomTomSearch
  <2>1. question' = question /\ question'.op = "tomtom_search"
    BY <1>2, Zenon DEF TomTomSearch, Reply
  <2>2. question'.op \notin Naming \cup Telling
    BY <2>1 DEF Naming, Telling
  <2> QED
    BY <1>2, <2>1, <2>2, TomTomSearchTells, OtherQuestions DEF Right
<1>3. CASE YandexSearch
  <2>1. question' = question /\ question'.op = "yandex_search"
    BY <1>3, Zenon DEF YandexSearch, Reply
  <2>2. question'.op # "tomtom_search" /\ question'.op \notin Naming \cup Telling
    BY <2>1 DEF Naming, Telling
  <2> QED
    BY <1>3, <2>1, <2>2, YandexSearchTells, OtherQuestions DEF Right
<1>4. CASE TwogisNamed \/ TomTomNamed
  <2>1. question' = question /\ question'.op \in Naming
    <3>1. question' = question /\ (question'.op = "twogis_named" \/ question'.op = "tomtom_named")
      BY <1>4, Zenon DEF TwogisNamed, TomTomNamed, Reply
    <3> QED
      BY <3>1 DEF Naming
  <2>2. question'.op # "tomtom_search" /\ question'.op \notin Searching \cup Telling
    BY <2>1 DEF Naming, Searching, Telling
  <2> QED
    BY <1>4, <2>1, <2>2, TwogisNamedTells, TomTomNamedTells, OtherQuestions DEF Right
<1>5. CASE YandexHours \/ TwogisHours \/ TomTomHours
  <2>1. question' = question /\ question'.op \in Telling
    <3>1. /\ question' = question
          /\ question'.op = "yandex_hours" \/ question'.op = "twogis_hours" \/ question'.op = "tomtom_hours"
      BY <1>5, Zenon DEF YandexHours, TwogisHours, TomTomHours, Reply
    <3> QED
      BY <3>1 DEF Telling
  <2>2. question'.op # "tomtom_search" /\ question'.op \notin Searching \cup Naming
    BY <2>1 DEF Naming, Searching, Telling
  <2> QED
    BY <1>5, <2>1, <2>2, YandexHoursTells, TwogisHoursTells, TomTomHoursTells, OtherQuestions DEF Right
<1> QED
  BY <1>1, <1>2, <1>3, <1>4, <1>5 DEF ResultsNext

\* The invariant.
LEMMA ResultsInvariance == ResultsSpec => []ResultsInv
<1>1. ASSUME ResultsInv, ResultsNext PROVE ResultsInv'
  <2>1. WellFormed(question)
    BY <1>1 DEF ResultsInv
  <2>2. Right' /\ question' = question
    BY <1>1, <2>1, EachAnswerIsRight
  <2> QED
    BY <2>1, <2>2 DEF ResultsInv
<1>2. ASSUME ResultsInv, UNCHANGED resultsVars PROVE ResultsInv'
  <2>1. question' = question /\ answer' = answer
    BY <1>2 DEF resultsVars
  <2>2. NothingVanishesSilently' /\ ReliablePointsOnly'
    BY <1>2, <2>1 DEF ResultsInv, Right, NothingVanishesSilently, ReliablePointsOnly, Answered, CutOff
  <2>3. AnchorIsNeverGuessed'
    BY <1>2, <2>1 DEF ResultsInv, Right, AnchorIsNeverGuessed, Answered
  <2>4. HoursAreExact
    BY <1>2 DEF ResultsInv, Right
  <2>5. HoursAreExact'
    BY <2>1, <2>4, Zenon DEF HoursAreExact, Answered
  <2> QED
    BY <1>2, <2>1, <2>2, <2>3, <2>5 DEF ResultsInv, Right
<1>3. ResultsInv /\ [ResultsNext]_resultsVars => ResultsInv'
  BY <1>1, <1>2
<1> QED
  BY ResultsInitially, <1>3, PTL DEF ResultsSpec

\* Whatever cards a provider returns and whatever the request asks: a card that meets it is shown,
\* or a card that tells as much of the same place is, or its absence shows.
THEOREM NothingVanishesSilentlyAlways == ResultsSpec => []NothingVanishesSilently
<1>1. ResultsInv => NothingVanishesSilently
  BY DEF ResultsInv, Right
<1> QED
  BY ResultsInvariance, <1>1, PTL

\* For any response of TomTom, no place is shown at a point that a card of another house claims,
\* not even when that card is cut off (_exclude_coordinate_conflicts).
THEOREM ReliablePointsOnlyAlways == ResultsSpec => []ReliablePointsOnly
<1>1. ResultsInv => ReliablePointsOnly
  BY DEF ResultsInv, Right
<1> QED
  BY ResultsInvariance, <1>1, PTL

\* For any cards of a named place, of 2GIS or of TomTom: the one that is taken has no rival elsewhere
\* but a clearly worse one, and what the user is asked to choose from lies apart.
THEOREM AnchorIsNeverGuessedAlways == ResultsSpec => []AnchorIsNeverGuessed
<1>1. ResultsInv => AnchorIsNeverGuessed
  BY DEF ResultsInv, Right
<1> QED
  BY ResultsInvariance, <1>1, PTL

\* For a day and a week of any length and any published hours: the week and the text that come of
\* them cover the minutes that were published and no others; what is claimed of "open now" and
\* "around the clock" agrees with them, within the two limits that HoursAreExact names.
THEOREM HoursAreExactAlways == ResultsSpec => []HoursAreExact
<1>1. ResultsInv => HoursAreExact
  BY DEF ResultsInv, Right
<1> QED
  BY ResultsInvariance, <1>1, PTL
==============================================================================
