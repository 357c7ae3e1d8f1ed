----------------------------- MODULE PlaceErrors -----------------------------
(***************************************************************************)
(* What the clients of the place services make of a response, and what the *)
(* two fallback chains make of the error.  An error names its source: a    *)
(* search provider ("twogis_search" and "twogis" are both 2GIS), the       *)
(* geocoder, or nobody (the tool's own errors about scopes and filters).   *)
(***************************************************************************)
EXTENDS Integers

CONSTANT HttpStatuses   \* the statuses that responses carry

Ok == 200
ASSUME StatusesAreHttp == Ok \in HttpStatuses /\ HttpStatuses \subseteq 200..599

Sources == {"twogis", "tomtom", "yandex", "geocoder", "nobody"}
Codes == {"NOT_FOUND", "TIMEOUT", "RATE_LIMITED", "UPSTREAM_ERROR", "UNSUPPORTED_FILTER",
          "INVALID_INPUT", "UNKNOWN_REF"}
Kinds == {"TIMEOUT", "NETWORK", "INVALID_JSON", "INVALID_SCHEMA", "HTTP_STATUS", "AUTHENTICATION",
          "INTERNAL_CONTRACT", "COVERAGE_MISS", "none"}
\* status 0: None.  backend: the provider code is 2GIS's BackendException.
Error == [source : Sources, code : Codes, kind : Kinds, status : HttpStatuses \cup {0},
          backend : BOOLEAN, retryable : BOOLEAN]
NoError == [source |-> "nobody", code |-> "none"]

Err(source, code, kind, status, retryable) ==
  [source |-> source, code |-> code, kind |-> kind, status |-> status, backend |-> FALSE,
   retryable |-> retryable]

------------------------------------------------------------------------------
(* Failures of a request that every client translates alike.                *)

NoResponse(source) ==
  {Err(source, "TIMEOUT", "TIMEOUT", 0, TRUE), Err(source, "UPSTREAM_ERROR", "NETWORK", 0, TRUE)}
Unreadable(source, kind, status) == Err(source, "UPSTREAM_ERROR", kind, status, FALSE)
BelowError(status) == status < 400

\* The error of an HTTP status that is neither authentication nor "not found".
PlainStatusError(source, status) ==
  CASE status \in {408, 504} -> Err(source, "TIMEOUT", "HTTP_STATUS", status, TRUE)
    [] status = 429          -> Err(source, "RATE_LIMITED", "HTTP_STATUS", status, TRUE)
    [] OTHER                 -> Err(source, "UPSTREAM_ERROR", "HTTP_STATUS", status, status >= 500)

TomTomStatusError(status, quotaExceeded) ==
  IF BelowError(status) THEN NoError
  ELSE IF status = 403 /\ quotaExceeded THEN Err("tomtom", "RATE_LIMITED", "HTTP_STATUS", status, TRUE)
  ELSE IF status \in {401, 403} THEN Err("tomtom", "UPSTREAM_ERROR", "AUTHENTICATION", status, FALSE)
  ELSE PlainStatusError("tomtom", status)

GeocoderStatusError(status) ==
  IF BelowError(status) THEN NoError
  ELSE IF status \in {401, 403} THEN Err("geocoder", "UPSTREAM_ERROR", "AUTHENTICATION", status, FALSE)
  ELSE PlainStatusError("geocoder", status)

YandexStatusError(status) ==
  IF BelowError(status) THEN NoError ELSE PlainStatusError("yandex", status)

Larger(a, b) == IF a > b THEN a ELSE b

\* 2GIS puts a status of its own into the body: either of the two makes an error, and the
\* larger one is reported. meta = 0: the body has none, the HTTP status stands in.
TwoGisStatusError(http, meta, backend) ==
  LET effective == IF meta = 0 THEN http ELSE meta
      either == {effective, http}
      status == Larger(effective, http)
      some(statuses) == either \cap statuses # {}
  IN IF BelowError(status) THEN NoError
     ELSE IF backend /\ some({403}) THEN
       [Err("twogis", "UPSTREAM_ERROR", "HTTP_STATUS", status, TRUE) EXCEPT !.backend = TRUE]
     ELSE IF some({401, 403}) THEN Err("twogis", "UPSTREAM_ERROR", "AUTHENTICATION", status, FALSE)
     ELSE IF some({404}) THEN Err("twogis", "NOT_FOUND", "HTTP_STATUS", status, FALSE)
     ELSE IF some({408, 504}) THEN Err("twogis", "TIMEOUT", "HTTP_STATUS", status, TRUE)
     ELSE IF some({429}) THEN Err("twogis", "RATE_LIMITED", "HTTP_STATUS", status, TRUE)
     ELSE Err("twogis", "UPSTREAM_ERROR", "HTTP_STATUS", status, status >= 500)

\* A region lookup that finds nothing has found that 2GIS does not cover the place.
CoverageError(e) == IF e.code = "NOT_FOUND" THEN [e EXCEPT !.kind = "COVERAGE_MISS"] ELSE e

------------------------------------------------------------------------------
(* Everything a client can raise, and everything its provider adds.         *)

UnreadableBodies(source) == {Unreadable(source, k, Ok) : k \in {"INVALID_JSON", "INVALID_SCHEMA"}}

TomTomErrors ==
  NoResponse("tomtom") \cup UnreadableBodies("tomtom")
    \cup ({TomTomStatusError(s, q) : s \in HttpStatuses, q \in BOOLEAN} \ {NoError})
GeocoderErrors ==
  NoResponse("geocoder") \cup UnreadableBodies("geocoder") \cup ({GeocoderStatusError(s) : s \in HttpStatuses} \ {NoError})
YandexErrors ==
  NoResponse("yandex") \cup UnreadableBodies("yandex") \cup ({YandexStatusError(s) : s \in HttpStatuses} \ {NoError})
TwoGisErrors ==
  NoResponse("twogis") \cup UnreadableBodies("twogis")
    \cup ({TwoGisStatusError(h, m, b) : h \in HttpStatuses, m \in HttpStatuses \cup {0}, b \in BOOLEAN}
            \ {NoError})
TwoGisCoverageErrors == {CoverageError(e) : e \in TwoGisErrors}
\* "City is ambiguous in 2GIS coverage": several regions have a city of that name.
TwoGisAmbiguousCity == Err("twogis", "INVALID_INPUT", "none", 0, FALSE)

\* "2GIS provider could not build a valid tool result", and its like.
ContractError(source) == Err(source, "UPSTREAM_ERROR", "INTERNAL_CONTRACT", 0, FALSE)
\* A minimum rating is asked for where 2GIS covers nothing.
RatingCoverageError(status) == Err("twogis", "UNSUPPORTED_FILTER", "COVERAGE_MISS", status, FALSE)
\* The tool's own errors: the scope is gone, is no bounded locality, is ambiguous, is not found;
\* a filter that no configured provider supports.
OwnError(code) == Err("nobody", code, "none", 0, FALSE)

ClientErrors(provider) == {e \in TwoGisErrors \cup TomTomErrors \cup YandexErrors : e.source = provider}

------------------------------------------------------------------------------
(* What to do about an error.                                               *)

Garbled(e) == e.kind \in {"INVALID_JSON", "INVALID_SCHEMA"}
Refused(e) == e.status \in {401, 403} \/ e.kind \in {"AUTHENTICATION", "INTERNAL_CONTRACT"}
Transient(e) ==
  \/ e.code \in {"RATE_LIMITED", "TIMEOUT"}
  \/ e.kind \in {"NETWORK", "TIMEOUT"}
  \/ e.kind = "HTTP_STATUS" /\ (e.status = 429 \/ e.status >= 500)

\* PlacesSearchCoordinator._fallback_action.
\* Variation, to test the properties: every other failure is worth another provider.
FallbackAction_Lenient(e, provider) == IF e.source # provider THEN "stop" ELSE "try_next"
FallbackAction(e, provider) ==
  LET hiccup == provider = "twogis" /\ e.status = 403 /\ e.backend
  IN IF e.source # provider \/ (Refused(e) /\ ~hiccup) THEN "stop"
     ELSE IF hiccup \/ (e.code # "NOT_FOUND" /\ Garbled(e)) THEN "try_next_and_alert"
     ELSE IF e.code = "NOT_FOUND" \/ (e.retryable /\ Transient(e)) THEN "try_next"
     ELSE "stop"

\* _can_try_next_named_provider: the same, without the exception for 2GIS.
CanTryNextNamed(e, provider) ==
  /\ e.source = provider
  /\ ~Refused(e)
  /\ e.code = "NOT_FOUND" \/ Garbled(e) \/ (e.retryable /\ Transient(e))
=============================================================================
