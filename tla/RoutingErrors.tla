--------------------------- MODULE RoutingErrors ---------------------------
(***************************************************************************)
(* How the four routing clients (2GIS, GraphHopper, OSRM, Yandex) turn an  *)
(* HTTP exchange into a success or a classified ToolExecutionError, what   *)
(* the response adapters may still raise afterwards, and which errors let  *)
(* the coordinator go on to the next provider.                             *)
(*                                                                         *)
(* A reply is a status and a class of body:                                *)
(*   good        decodes and passes the provider's schema                  *)
(*   mismatch    decodes to the right JSON type, fails the schema          *)
(*   wrongtype   JSON of a type the endpoint never returns                 *)
(*   unreadable  not JSON                                                  *)
(*   noroute     the provider's own code or hint for a missing route       *)
(*   toobig, disabled, badquery   OSRM's codes for a limit, a service it   *)
(*               does not offer, and a request it rejects                  *)
(***************************************************************************)
EXTENDS Naturals

Names == {"twogis", "graphhopper", "osrm", "yandex"}

Statuses == {200, 204, 400, 401, 404, 408, 422, 429, 500}
Bodies == {"good", "mismatch", "wrongtype", "unreadable",
           "noroute", "toobig", "disabled", "badquery"}

\* "from" is the provider named by the error; an error of the place store or of
\* place resolution names none.
ToolError(from, code, kind, status, retryable) ==
  [from |-> from, code |-> code, kind |-> kind, status |-> status, retryable |-> retryable]

NoError == ToolError("-", "-", "-", 0, FALSE)
UnknownRef == ToolError("-", "unknown_ref", "-", 0, FALSE)
Unsupported(p) == ToolError(p, "unsupported_filter", "-", 0, FALSE)
NotFound(p, kind, s) == ToolError(p, "not_found", kind, s, FALSE)
InvalidSchema(p, s) == ToolError(p, "upstream_error", "invalid_schema", s, FALSE)
InternalContract(p, s) == ToolError(p, "upstream_error", "internal_contract", s, FALSE)
Rejected(p, s) == ToolError(p, "upstream_error", "http_status", s, FALSE)

------------------------------------------------------------------------------
\* The statuses every provider shares.
HttpError(p, s) ==
  CASE s \in {401, 403} -> ToolError(p, "upstream_error", "authentication", s, FALSE)
    [] s \in {408, 504} -> ToolError(p, "timeout", "timeout", s, TRUE)
    [] s = 429          -> ToolError(p, "rate_limited", "http_status", s, TRUE)
    [] s >= 500 /\ s # 504 -> ToolError(p, "upstream_error", "http_status", s, TRUE)
    [] OTHER -> NoError

OrElse(e, other) == IF e # NoError THEN e ELSE other

\* A body that is not good where the provider has no code of its own for it.
SchemaError(p, s, body) == IF body = "good" THEN NoError ELSE InvalidSchema(p, s)

\* A missing route is a good 2GIS body: its status says so and the adapter reads it.
TwoGisError(s, body) ==
  CASE s = 204 -> NotFound("twogis", "provider_response", s)
    [] s \in {400, 422} -> InternalContract("twogis", s)
    [] s >= 400 /\ s \notin {400, 422} -> Rejected("twogis", s)
    [] OTHER -> IF body = "noroute" THEN NoError ELSE SchemaError("twogis", s, body)

GraphHopperError(s, body) ==
  CASE s >= 400 /\ body = "noroute" -> NotFound("graphhopper", "provider_response", s)
    [] s >= 400 /\ body # "noroute" -> Rejected("graphhopper", s)
    [] OTHER -> SchemaError("graphhopper", s, body)

\* OSRM's code is read before the status: it reports failures with any of them.
OsrmError(s, body) ==
  CASE body = "noroute"  -> NotFound("osrm", "provider_response", s)
    [] body = "toobig"   -> ToolError("osrm", "invalid_input", "http_status", s, FALSE)
    [] body = "disabled" ->
         ToolError("osrm", "unsupported_filter", "provider_response", s, FALSE)
    [] body = "badquery" -> InternalContract("osrm", s)
    [] OTHER -> IF s >= 400 THEN InvalidSchema("osrm", s) ELSE SchemaError("osrm", s, body)

YandexError(s, body) ==
  CASE s = 400 -> InternalContract("yandex", s)
    [] s > 400 -> Rejected("yandex", s)
    [] OTHER -> SchemaError("yandex", s, body)

ProviderError(p, s, body) ==
  CASE p = "twogis"      -> TwoGisError(s, body)
    [] p = "graphhopper" -> GraphHopperError(s, body)
    [] p = "osrm"        -> OsrmError(s, body)
    [] p = "yandex"      -> YandexError(s, body)

\* request_routing_json: an undecodable body of a 204 is an empty one; otherwise
\* the shared statuses come first, then the decoding, then the provider's parser.
ReplyError(p, s, body) ==
  OrElse(HttpError(p, s),
    CASE body = "unreadable" /\ s # 204 ->
           ToolError(p, "upstream_error", "invalid_json", s, FALSE)
      [] body = "wrongtype" -> InvalidSchema(p, s)
      [] body = "unreadable" /\ s = 204 -> ProviderError(p, s, "mismatch")
      [] OTHER -> ProviderError(p, s, body))

\* Everything that can come back from one request to p, NoError for a success.
Outcomes == [p \in Names |->
     {ReplyError(p, s, body) : s \in Statuses, body \in Bodies}
  \cup {ToolError(p, "timeout", "timeout", 0, TRUE),
        ToolError(p, "upstream_error", "network", 0, TRUE)}]

\* What the adapter raises once every exchange of the attempt has succeeded: no
\* usable route, a payload that contradicts itself, or a result it cannot build.
AdapterErrors == [p \in Names |->
     {NotFound(p, "-", 0), InvalidSchema(p, 0), InternalContract(p, 0)}
  \cup IF p = "twogis"
       THEN {ToolError(p, "upstream_error", "provider_response", 0, TRUE)} ELSE {}]

------------------------------------------------------------------------------
Transient(e) ==
  \/ e.code \in {"rate_limited", "timeout"}
  \/ e.kind \in {"network", "timeout", "provider_response"}
  \/ e.kind = "http_status" /\ (e.status = 429 \/ e.status >= 500)

\* An operator has to look at it: no other provider may cover it up.
NeedsOperator(e) ==
  e.status \in {401, 403} \/ e.kind \in {"authentication", "internal_contract"}

\* _fallback_action of the coordinator, whether it is provider p's error that the
\* next provider may be tried after. The first is a variation, to test the properties.
MayTryNextAlways(e, p) == e.from = p
MayTryNext(e, p) ==
  /\ e.from = p
  /\ ~NeedsOperator(e)
  /\ \/ e.code \in {"not_found", "unsupported_filter"}
     \/ e.kind \in {"invalid_json", "invalid_schema"}
     \/ e.retryable /\ Transient(e)
=============================================================================
