---------------------------- MODULE TwogisLookups ----------------------------
(***************************************************************************)
(* Concurrent tool calls that share one 2GIS client.  Before it searches   *)
(* the catalog a call asks which region covers its scope, which city that  *)
(* is, and which rubrics a category has there; the client remembers the    *)
(* answers for good and lets one call ask for each key while the others    *)
(* wait at the key's lock.  Requests fail, calls are cancelled.            *)
(* The service's own answer to a key is fixed, a failure is not an answer. *)
(***************************************************************************)
EXTENDS Sequences, FiniteSets, SequencesExt, Integers

CONSTANTS
  Calls,           \* tool calls in flight
  Scopes,          \* places that are searched in
  TextScopes,      \* those of them that are known by their name only
  Needs,           \* what a call may want, a subset of Need
  Regions,         \* regions of the 2GIS catalog
  CatalogRegions,  \* those whose country has the reviewed rubric catalog
  Services         \* what the service knows, a subset of Service(...)

\* area: a search in a city; near: around an anchor; poi: an anchor by name; address: the first
\* card with an address.
Need == [scope : Scopes, kind : {"area", "near", "poi", "address"}, category : BOOLEAN, rating : BOOLEAN]
ASSUME ServicesNameRegions ==
  \A v \in Services, s \in Scopes :
    v.coverage[s].missing
      \/ \A i \in DOMAIN v.coverage[s].items : v.coverage[s].items[i].id \in Regions
ASSUME NeedsAreNeeds ==
  /\ TextScopes \subseteq Scopes /\ CatalogRegions \subseteq Regions
  /\ Needs \subseteq {n \in Need : /\ n.kind \in {"poi", "address"} => ~n.category /\ ~n.rating
                                   /\ n.kind = "near" => n.scope \notin TextScopes}

VARIABLES
  service,  \* the answers of the service
  cache,    \* per key: Unknown, or the set of the answer that the client remembers
  queue,    \* per key: the holder of its lock and those who wait, in order
  need,     \* per call
  stage,    \* per call: "idle", the lookup it is at, "search", "done"
  phase,    \* per call: "looking", "queued" or "asking"
  region,   \* per call: the region that covers its scope
  result    \* per call

vars == <<service, cache, queue, need, stage, phase, region, result>>

------------------------------------------------------------------------------
(* Selecting one answer from a response.                                    *)

Nothing == "nothing"        \* None
NotCovered == "not_covered" \* _CachedCoverageNotFound
Ambiguous == "ambiguous"    \* a question to the user, raised
Unknown == {}               \* _CACHE_MISS; what is known is the set of one answer

\* The items at some positions of a list, when there has to be only one.
Single(at) == \E i \in at : at = {i}
TheOnly(items, at) == IF Single(at) THEN items[CHOOSE i \in at : TRUE].id ELSE Nothing

\* Region search by text: [id, label, exact, qualified] per region, exact when the region, a
\* settlement or a satellite of it has the requested name, qualified when it also has the rest
\* of "city, region, country".
SelectRegion(response) ==
  LET exact == {i \in DOMAIN response.items : response.items[i].exact}
      both == {i \in exact : response.items[i].qualified}
  IN TheOnly(response.items, IF response.qualifier /\ Single(both) THEN both ELSE exact)
\* Several regions have the name, and their labels differ: the user chooses.
IsAmbiguous(response) ==
  Cardinality({r.label : r \in {x \in Range(response.items) : x.exact}}) > 1
SelectRegionAtPoint(response) ==
  IF response.total = 1 THEN TheOnly(response.items, DOMAIN response.items) ELSE Nothing

\* Cities by text: [id, region, exact]; the name is not needed when the region has one city only.
InRegion(response, r) == {i \in DOMAIN response.items : response.items[i].region = r}
SelectCity(response, r) ==
  LET exact == {i \in InRegion(response, r) : response.items[i].exact}
  IN TheOnly(response.items, IF Single(exact) THEN exact ELSE InRegion(response, r))
SelectCityAtPoint(response, r) == TheOnly(response.items, InRegion(response, r))

\* Rubrics: [id, alias]; the mapped aliases that the region has, in their order, each rubric once.
SelectRubrics(response, aliases) ==
  LET withAlias(a) == SelectSeq(response.items, LAMBDA x : x.alias = a)
      present == SelectSeq(aliases, LAMBDA a : withAlias(a) # <<>>)
      ids == [i \in DOMAIN present |-> Last(withAlias(present[i])).id]
  IN [i \in {j \in DOMAIN ids : \A k \in 1..(j - 1) : ids[k] # ids[j]} |-> ids[i]]

------------------------------------------------------------------------------
(* Keys, answers, and what follows from an answer.                          *)

Lookups == {"coverage", "city", "rubrics"}
Key == {<<"coverage", s>> : s \in Scopes} \cup {<<"city", s, r>> : s \in Scopes, r \in Regions}
         \cup {<<"rubrics", r>> : r \in Regions}
KeyOf(n, s, r) ==
  CASE s = "coverage" -> <<"coverage", n.scope>>
    [] s = "city"     -> <<"city", n.scope, r>>
    [] s = "rubrics"  -> <<"rubrics", r>>
KeyAt(c) == KeyOf(need[c], stage[c], region[c])

\* The scope of a text is found by its name, any other by its point.
Answer(key) ==
  CASE key[1] = "coverage" ->
         LET response == service.coverage[key[2]]
         IN IF response.missing THEN NotCovered
            ELSE IF key[2] \notin TextScopes THEN SelectRegionAtPoint(response)
            ELSE IF SelectRegion(response) = Nothing /\ IsAmbiguous(response) THEN Ambiguous
            ELSE SelectRegion(response)
    [] key[1] = "city" ->
         IF key[2] \in TextScopes THEN SelectCity(service.city[key[2]], key[3])
         ELSE SelectCityAtPoint(service.city[key[2]], key[3])
    [] key[1] = "rubrics" -> SelectRubrics(service.rubrics, service.aliases)

Ends(r) == [stage |-> "done", result |-> r]
GoesOn(s) == [stage |-> s, result |-> "none"]
Uncovered(n, r) == Ends(IF n.rating THEN "rating_error" ELSE r)
AfterCity(n, r) ==
  IF ~n.category THEN GoesOn("search")
  ELSE IF r \in CatalogRegions THEN GoesOn("rubrics") ELSE Ends("nothing")

\* TwoGisPlacesSearchProvider._search and TwoGisNamedPoiResolver._search, between two lookups.
After(n, s, r, answer) ==
  CASE s = "coverage" ->
         (CASE answer = Ambiguous  -> Ends("ambiguous")
            [] answer = NotCovered -> Uncovered(n, "not_covered")
            [] answer = Nothing    -> Uncovered(n, "nothing")
            [] OTHER               -> GoesOn(IF n.kind = "poi" THEN "search" ELSE "city"))
    [] s = "city" ->
         IF answer = Nothing /\ n.kind # "near" THEN Uncovered(n, "nothing") ELSE AfterCity(n, r)
    [] s = "rubrics" -> IF DOMAIN answer = {} THEN Ends("nothing") ELSE GoesOn("search")

------------------------------------------------------------------------------
Init ==
  /\ service \in Services
  /\ cache = [k \in Key |-> Unknown] /\ queue = [k \in Key |-> <<>>]
  /\ need \in [Calls -> Needs]
  /\ stage = [c \in Calls |-> "idle"] /\ phase = [c \in Calls |-> "looking"]
  /\ region = [c \in Calls |-> Nothing] /\ result = [c \in Calls |-> "none"]

\* The call goes on with an answer.
Use(c, answer) ==
  LET next == After(need[c], stage[c], region[c], answer)
  IN /\ stage' = [stage EXCEPT ![c] = next.stage]
     /\ result' = [result EXCEPT ![c] = next.result]
     /\ region' = IF stage[c] = "coverage" /\ next.stage # "done"
                  THEN [region EXCEPT ![c] = answer] ELSE region
     /\ phase' = [phase EXCEPT ![c] = "looking"]
Stays(c) == UNCHANGED <<stage, result, region>>

Known(k) == cache[k] # Unknown
Cached(k) == CHOOSE answer \in cache[k] : TRUE
Release(k) == queue' = [queue EXCEPT ![k] = Tail(@)]

\* A rating is asked for near an anchor whose locality nobody knows: no coverage to rely on.
Begin(c) ==
  /\ stage[c] = "idle"
  /\ \/ stage' = [stage EXCEPT ![c] = "coverage"] /\ UNCHANGED result
     \/ /\ need[c].kind = "near" /\ need[c].rating
        /\ stage' = [stage EXCEPT ![c] = "done"] /\ result' = [result EXCEPT ![c] = "rating_error"]
  /\ UNCHANGED <<service, cache, queue, need, phase, region>>

\* The first look is outside of the lock; a free lock is taken at once.
Look(c) ==
  /\ stage[c] \in Lookups /\ phase[c] = "looking"
  /\ IF Known(KeyAt(c)) THEN Use(c, Cached(KeyAt(c))) /\ UNCHANGED queue
     ELSE /\ queue' = [queue EXCEPT ![KeyAt(c)] = Append(@, c)]
          /\ phase' = [phase EXCEPT ![c] = IF queue[KeyAt(c)] = <<>> THEN "asking" ELSE "queued"]
          /\ Stays(c)
  /\ UNCHANGED <<service, cache, need>>

\* Who gets the lock looks again.
\* Variation, to test the properties: who gets the lock asks.
KnownToHolder_Never(k) == FALSE
KnownToHolder(k) == Known(k)
Wake(c) ==
  /\ stage[c] \in Lookups /\ phase[c] = "queued" /\ Head(queue[KeyAt(c)]) = c
  /\ IF KnownToHolder(KeyAt(c)) THEN Use(c, Cached(KeyAt(c))) /\ Release(KeyAt(c))
     ELSE phase' = [phase EXCEPT ![c] = "asking"] /\ Stays(c) /\ UNCHANGED queue
  /\ UNCHANGED <<service, cache, need>>

\* The question to the user is not remembered, everything else that was answered is.
Remembered(k, answer) ==
  IF k[1] = "coverage" /\ answer = Ambiguous THEN cache ELSE [cache EXCEPT ![k] = {answer}]
Replied(c) ==
  /\ stage[c] \in Lookups /\ phase[c] = "asking"
  /\ cache' = Remembered(KeyAt(c), Answer(KeyAt(c)))
  /\ Use(c, Answer(KeyAt(c))) /\ Release(KeyAt(c))
  /\ UNCHANGED <<service, need>>

\* A timeout, a refusal, a reply that cannot be read; for a city or rubrics "not found" as well.
\* Variation, to test the properties: a failed coverage lookup is remembered as no coverage.
AfterFailure_Remembered(k) == IF k[1] = "coverage" THEN [cache EXCEPT ![k] = {NotCovered}] ELSE cache
AfterFailure(k) == cache
RequestFails(c) ==
  /\ stage[c] \in Lookups /\ phase[c] = "asking"
  /\ cache' = AfterFailure(KeyAt(c)) /\ Release(KeyAt(c))
  /\ stage' = [stage EXCEPT ![c] = "done"] /\ result' = [result EXCEPT ![c] = "error"]
  /\ phase' = [phase EXCEPT ![c] = "looking"]
  /\ UNCHANGED <<service, need, region>>

\* search_places: nothing of it is shared.
Search(c) ==
  /\ stage[c] = "search"
  /\ stage' = [stage EXCEPT ![c] = "done"]
  /\ \E r \in {"searched", "error"} : result' = [result EXCEPT ![c] = r]
  /\ UNCHANGED <<service, cache, queue, need, phase, region>>

\* The tool's deadline or the client of the request goes away: the task is cancelled where it is,
\* the holder of a lock lets go of it, a waiter leaves the queue.
\* Variation, to test the properties: the holder's lock is not let go of.
Standing(q, c) == {i \in DOMAIN q : q[i] = c}
Without_Holder(q, c) ==
  IF Standing(q, c) \in {{}, {1}} THEN q ELSE RemoveAt(q, CHOOSE i \in Standing(q, c) : TRUE)
Without(q, c) == IF Standing(q, c) = {} THEN q ELSE RemoveAt(q, CHOOSE i \in Standing(q, c) : TRUE)
Cancel(c) ==
  /\ stage[c] \notin {"idle", "done"}
  /\ queue' = [k \in Key |-> Without(queue[k], c)]
  /\ stage' = [stage EXCEPT ![c] = "done"] /\ result' = [result EXCEPT ![c] = "cancelled"]
  /\ phase' = [phase EXCEPT ![c] = "looking"]
  /\ UNCHANGED <<service, cache, need, region>>

Proceed(c) == Look(c) \/ Wake(c) \/ Replied(c) \/ RequestFails(c) \/ Search(c)
AllDone == (\A c \in Calls : stage[c] = "done") /\ UNCHANGED vars
Next == (\E c \in Calls : Begin(c) \/ Proceed(c) \/ Cancel(c)) \/ AllDone

\* The event loop runs every task that can run, and each request has a timeout of its own.
Spec == Init /\ [][Next]_vars /\ \A c \in Calls : WF_vars(Proceed(c))

------------------------------------------------------------------------------
(* PROPERTIES                                                               *)

\* A key is asked for by one call at a time, by the one whose turn it is, and only while nobody
\* knows the answer: the second look after the lock keeps the waiters from asking again.
AskedOnlyWhileUnknown ==
  \A c \in Calls : phase[c] = "asking" => /\ ~Known(KeyAt(c)) /\ Head(queue[KeyAt(c)]) = c
                                          /\ \A d \in Calls \ {c} :
                                             phase[d] = "asking" => KeyAt(d) # KeyAt(c)

\* What a call gets when it is alone, nothing is remembered and no request fails.
Alone(n) ==
  LET ask(s, r) == After(n, s, r, Answer(KeyOf(n, s, r)))
      covering == Answer(KeyOf(n, "coverage", Nothing))
      first == ask("coverage", Nothing)
      second == IF first.stage = "city" THEN ask("city", covering) ELSE first
      third == IF second.stage = "rubrics" THEN ask("rubrics", covering) ELSE second
  IN IF third.stage = "search" THEN "searched" ELSE third.result

\* Sharing is invisible: a call fails by its own request, is cancelled, or gets what it would get
\* alone; a failed or cancelled request of another call is not taken for an answer.  In
\* particular a rating filter never falls silent for want of coverage.
SharingIsInvisible ==
  \A c \in Calls : \/ result[c] \in {"none", "error", "cancelled", Alone(need[c])}
                   \/ result[c] = "rating_error" /\ need[c].kind = "near" /\ need[c].rating

\* A call that has begun ends, though others fail or are cancelled with the lock in hand.
EveryCallEnds == \A c \in Calls : stage[c] # "idle" ~> stage[c] = "done"
=============================================================================
