---------------------------- MODULE PlaceRecords ----------------------------
(***************************************************************************)
(* The records behind the refs of cities, in Redis, shared by the tool     *)
(* calls of all conversations.  Every geocoding writes a record for each   *)
(* candidate, whole and without looking at the one that is there; a search *)
(* adds the Russian label of its city the same way.  A search that         *)
(* succeeds offers its city for reuse in later turns.  Records expire.     *)
(***************************************************************************)
EXTENDS Naturals

CONSTANTS
  Calls,           \* tool calls
  Places,          \* entities of the geocoder, by ref
  Municipalities,  \* the others are CountrySecondarySubdivisions
  Bounded,         \* those with a bounding box
  MaxLoads         \* bound on the providers of one search

\* text, ref: a search in an area; near: around a text in an area given by its ref;
\* address: a place or a routing point.  cyrillic: the query is, the name of the city is not.
Need == [kind : {"text", "ref", "near", "address"}, cyrillic : BOOLEAN]

VARIABLES
  record,     \* place -> [kind, label] in Redis; label: localized_localities has "ru-RU"
  offered,    \* areas of successful searches: refs that later turns may give
  need,       \* per call
  pc,         \* per call: the step it is at
  saves, reads,  \* per call: the geocoder's candidates that are yet to be saved, to be read back
  place,      \* per call: the place it is about
  held,       \* per call: its copy of the place's record
  labelled,   \* per call: it has had a label for its place
  loads,      \* per call: providers that have loaded the area
  result,     \* per call
  disturbed   \* calls whose place somebody else has written, or has expired, under their hands

vars == <<record, offered, need, pc, saves, reads, place, held, labelled, loads, result, disturbed>>

NoRecord == [kind |-> "none", label |-> FALSE]
Usable(p, r) == r.kind = "locality" /\ p \in Bounded
Searches(c) == need[c].kind # "address"

Init ==
  /\ record = [p \in Places |-> NoRecord] /\ offered = {}
  /\ need \in [Calls -> Need]
  /\ pc = [c \in Calls |-> "idle"] /\ saves = [c \in Calls |-> {}] /\ reads = [c \in Calls |-> {}]
  /\ place \in [Calls -> Places] /\ held = [c \in Calls |-> NoRecord]
  /\ labelled = [c \in Calls |-> FALSE] /\ loads = [c \in Calls |-> 0]
  /\ result = [c \in Calls |-> "none"] /\ disturbed = {}

Goes(c, step) == pc' = [pc EXCEPT ![c] = step] /\ UNCHANGED result
Ends(c, r) == pc' = [pc EXCEPT ![c] = "done"] /\ result' = [result EXCEPT ![c] = r]
Concerns(d, p) == pc[d] \notin {"idle", "done"} /\ (place[d] = p \/ p \in reads[d])
Write(c, p, r) ==
  record' = [record EXCEPT ![p] = r] /\ disturbed' = disturbed \cup {d \in Calls \ {c} : Concerns(d, p)}
Quiet == UNCHANGED <<record, disturbed>>
Hold(c, p) == held' = [held EXCEPT ![c] = record[p]]

------------------------------------------------------------------------------
(* Geocoding.                                                               *)

\* A text goes to the geocoder; its candidates include the place it is about, in the end.
Geocode(c) ==
  /\ pc[c] = "idle" /\ need[c].kind \in {"text", "address"}
  /\ \E candidates \in SUBSET Places :
       /\ place[c] \in candidates
       /\ saves' = [saves EXCEPT ![c] = candidates]
       /\ reads' = [reads EXCEPT ![c] = IF Searches(c) THEN candidates ELSE {place[c]}]
  /\ Goes(c, "saving") /\ Quiet
  /\ UNCHANGED <<offered, need, place, held, labelled, loads>>

\* TomTomGeocoderService._kind: a subdivision passes for a city where only cities are looked for.
Kind(p, localityOnly) ==
  IF p \in Municipalities \/ localityOnly THEN "locality" ELSE "other"
\* save_many: one record after the other.
SaveCandidate(c) ==
  /\ pc[c] = "saving"
  /\ \E p \in saves[c] :
       /\ Write(c, p, [kind |-> Kind(p, Searches(c)), label |-> FALSE])
       /\ saves' = [saves EXCEPT ![c] = @ \ {p}]
       /\ Goes(c, IF saves[c] = {p} THEN "reading" ELSE "saving")
  /\ UNCHANGED <<offered, need, reads, place, held, labelled, loads>>

\* The resolver reads back what the geocoder has saved, for a search all of it.  That a record is
\* gone, or the chosen one of another kind, is a broken contract; without bounds it is no city.
ReadBack(c) ==
  /\ pc[c] = "reading"
  /\ \E p \in reads[c] :
       /\ reads' = [reads EXCEPT ![c] = @ \ {p}]
       /\ held' = IF p = place[c] THEN [held EXCEPT ![c] = record[p]] ELSE held
       /\ IF record[p].kind = "none" THEN Ends(c, "contract_error")
          ELSE IF reads[c] # {p} THEN Goes(c, "reading")
          ELSE IF ~Searches(c) THEN Ends(c, "resolved")
          ELSE IF held'[c].kind # "locality" THEN Ends(c, "contract_error")
          ELSE IF place[c] \notin Bounded THEN Ends(c, "not_found")
          ELSE Goes(c, IF need[c].cyrillic THEN "localizing" ELSE "loading")
  /\ Quiet /\ UNCHANGED <<offered, need, saves, place, labelled, loads>>

------------------------------------------------------------------------------
(* A ref that an earlier turn was offered.                                  *)

\* A Cyrillic query has the area localized, when its record is of use; whether it is, the
\* provider finds out.
BeginWithRef(c) ==
  /\ pc[c] = "idle" /\ need[c].kind = "ref" /\ place[c] \in offered
  /\ Hold(c, place[c])
  /\ Goes(c, IF need[c].cyrillic /\ Usable(place[c], record[place[c]]) THEN "localizing" ELSE "loading")
  /\ Quiet /\ UNCHANGED <<offered, need, saves, reads, place, labelled, loads>>

\* The anchor is resolved in the area; what that writes is a call of its own.
BeginNear(c) ==
  /\ pc[c] = "idle" /\ need[c].kind = "near" /\ place[c] \in offered
  /\ Hold(c, place[c])
  /\ IF Usable(place[c], record[place[c]]) THEN Goes(c, "loading") ELSE Ends(c, "invalid_ref")
  /\ Quiet /\ UNCHANGED <<offered, need, saves, reads, place, labelled, loads>>

------------------------------------------------------------------------------
(* The Russian label.                                                       *)

\* There already, or in the record's own names, or asked for; it may not be had, at the cost of a
\* warning.
Localize(c) ==
  /\ pc[c] = "localizing"
  /\ IF held[c].label
     THEN labelled' = [labelled EXCEPT ![c] = TRUE] /\ Goes(c, "loading")
     ELSE \/ labelled' = [labelled EXCEPT ![c] = TRUE] /\ Goes(c, "storing")
          \/ UNCHANGED labelled /\ Goes(c, "loading")
  /\ Quiet /\ UNCHANGED <<offered, need, saves, reads, place, held, loads>>

\* _save_localized_locality: the whole record, as it was read.
Localized(c) == [held[c] EXCEPT !.label = TRUE]
StoreLabel(c) ==
  /\ pc[c] = "storing"
  /\ Write(c, place[c], Localized(c)) /\ Goes(c, "loading")
  /\ UNCHANGED <<offered, need, saves, reads, place, held, labelled, loads>>

------------------------------------------------------------------------------
(* The providers.                                                           *)

\* PlacesSearchScopeLoader.load_area: each provider reads the record for itself.
Load(c) ==
  /\ pc[c] = "loading"
  /\ Hold(c, place[c])
  /\ loads' = [loads EXCEPT ![c] = @ + 1]
  /\ IF record[place[c]].kind = "none" THEN Ends(c, "unknown_ref")
     ELSE IF ~Usable(place[c], record[place[c]]) THEN Ends(c, "invalid_ref")
     ELSE Goes(c, "searching")
  /\ Quiet /\ UNCHANGED <<offered, need, saves, reads, place, labelled>>

\* A result names its area, be it empty; or another provider is tried, or the call fails.
Search(c) ==
  /\ pc[c] = "searching"
  /\ \/ Ends(c, "searched") /\ offered' = offered \cup {place[c]}
     \/ loads[c] < MaxLoads /\ Goes(c, "loading") /\ UNCHANGED offered
     \/ Ends(c, "failed") /\ UNCHANGED offered
  /\ Quiet /\ UNCHANGED <<need, saves, reads, place, held, labelled, loads>>

\* The TTL of a ref runs out.
Expire(p) ==
  /\ record[p] # NoRecord
  /\ record' = [record EXCEPT ![p] = NoRecord]
  /\ disturbed' = disturbed \cup {d \in Calls : Concerns(d, p)}
  /\ UNCHANGED <<offered, need, pc, saves, reads, place, held, labelled, loads, result>>

\* A call may never come: nothing is offered that it could ask for.
Done ==
  /\ \A c \in Calls : pc[c] = "done" \/ (pc[c] = "idle" /\ need[c].kind \in {"ref", "near"})
  /\ UNCHANGED vars

CallStep(c) == \/ Geocode(c) \/ SaveCandidate(c) \/ ReadBack(c) \/ BeginWithRef(c) \/ BeginNear(c)
               \/ Localize(c) \/ StoreLabel(c) \/ Load(c) \/ Search(c)
Next == (\E c \in Calls : CallStep(c)) \/ (\E p \in Places : Expire(p)) \/ Done
Spec == Init /\ [][Next]_vars

------------------------------------------------------------------------------
(* PROPERTIES                                                               *)

\* Whoever writes, and whatever copy he writes: a label only ever stands in the record of a
\* city, so that what it is compared with is a municipality.
LabelsStandOnCities == \A p \in Places : record[p].label => record[p].kind = "locality"

\* A call whose place nobody touches finds what it has saved itself: no broken contract, no
\* unknown or unusable area, and the label it has had is there when a provider searches.
OnlyOthersDisturb ==
  \A c \in Calls \ disturbed :
    /\ result[c] # "contract_error"
    /\ need[c].kind = "text" => result[c] \notin {"unknown_ref", "invalid_ref"}
    /\ labelled[c] /\ pc[c] = "searching" => held[c].label
=============================================================================
