--------------------------- MODULE PlaceMatching ---------------------------
(***************************************************************************)
(* When a card of 2GIS or TomTom is what the query names, and when two     *)
(* cards are the same place.  Names, queries and localities are sequences  *)
(* of words; a point is a place on a line, and so are distances.           *)
(***************************************************************************)
EXTENDS Integers, Sequences, FiniteSets, SequencesExt

CONSTANTS
  Inflections,    \* sets {a, b} of two words, one of which only extends the other
  Misspellings,   \* sets {a, b} of two long words that are one edit apart
  TypeHints,      \* sequence of [words, kinds]: type words and what they allow
  SameSpot        \* how far apart two cards of one object may be

NoPoint == -1
Distance(a, b) == IF a > b THEN a - b ELSE b - a
NoHint == [words |-> <<>>, kinds |-> {}]

OrElse(preferred, cards) == IF preferred = <<>> THEN cards ELSE preferred
\* SelectSeq, by a function that proofs can expand.
Only(cards, good) ==
  LET kept[n \in 0..Len(cards)] ==
        IF n = 0 THEN <<>>
        ELSE IF cards[n] \in good THEN Append(kept[n - 1], cards[n])
        ELSE kept[n - 1]
  IN kept[Len(cards)]
\* Without the cards to which an earlier one that is kept is related: the first one stays.
Distinct(cards, same) ==
  LET kept[n \in 0..Len(cards)] ==
        IF n = 0 THEN <<>>
        ELSE IF \E k \in Range(kept[n - 1]) : <<k, cards[n]>> \in same THEN kept[n - 1]
        ELSE Append(kept[n - 1], cards[n])
  IN kept[Len(cards)]
SameLexeme(a, b) == a = b \/ {a, b} \in Inflections
AllSaidIn(name, query) == \A w \in Range(name) : \E v \in Range(query) : SameLexeme(w, v)

SameLocality(a, b) == a # <<>> /\ Range(a) = Range(b)
CompatibleLocality(a, b) ==
  LET shortens(s, t) == Range(s) \subseteq Range(t) /\ (Cardinality(Range(s)) >= 2 \/ s[1] = t[1])
  IN a # <<>> /\ b # <<>> /\ (Range(a) = Range(b) \/ shortens(a, b) \/ shortens(b, a))

------------------------------------------------------------------------------
(* 2GIS.  A card: [id, point, aliases, kind, extension, rubric, localities, *)
(* address, building, placeholder, rating, allDay, now]; aliases[1] is its  *)
(* name, building 0 says there is none.                                     *)

\* The hints whose words stand together in the query, with other words beside them.
Hints(query) ==
  {f \in (DOMAIN TypeHints) \X (DOMAIN query) :
     LET words == TypeHints[f[1]].words
         end == f[2] + Len(words) - 1
     IN end <= Len(query) /\ Len(words) < Len(query) /\ SubSeq(query, f[2], end) = words}
\* TomTom wants them at one of its ends.
EndHints(query) ==
  {f \in Hints(query) : f[2] \in {1, Len(query) - Len(TypeHints[f[1]].words) + 1}}
FirstHint(hints) == CHOOSE f \in hints : \A g \in hints : f[1] < g[1] \/ (f[1] = g[1] /\ f[2] <= g[2])
HintAmong(hints) == IF hints = {} THEN NoHint ELSE TypeHints[FirstHint(hints)[1]]
Without(hints, query) ==
  IF hints = {} THEN query
  ELSE LET first == FirstHint(hints)
       IN SubSeq(query, 1, first[2] - 1)
          \o SubSeq(query, first[2] + Len(TypeHints[first[1]].words), Len(query))
TypeHint(query) == HintAmong(Hints(query))
CoreQuery(query) == Without(Hints(query), query)

HasExplicitAddress(c) == c.address
MatchesLocality(c, city) ==
  c.localities = {} \/ \E l \in c.localities : CompatibleLocality(city, l)
ExplicitlyMatchesLocality(c, city) == \E l \in c.localities : CompatibleLocality(city, l)
MatchesName(c, query) ==
  \E alias \in Range(c.aliases) :
    \/ alias = query
    \/ alias # <<>> /\ AllSaidIn(alias, query)
    \/ TypeHint(query) # NoHint /\ Range(CoreQuery(query)) \subseteq Range(alias)
    \/ Range(query) \subseteq Range(alias)
IsCalled(c, words) == \E alias \in Range(c.aliases) : alias = words

SameNamedObject(left, right, mergeNearby) ==
  \/ left.id = right.id
  \/ mergeNearby /\ left.building # 0 /\ left.building = right.building
  \/ /\ Distance(left.point, right.point) <= SameSpot
     /\ \/ mergeNearby
        \/ LET l == Range(left.aliases[1])
               r == Range(right.aliases[1])
           IN left.kind = right.kind /\ (l \subseteq r \/ r \subseteq l)
\* Later cards of an object go, the first one stays.
DeduplicateCandidates(cards, mergeNearby) ==
  Distinct(cards, {p \in Range(cards) \X Range(cards) : SameNamedObject(p[1], p[2], mergeNearby)})

RequestsExtension(c, query) ==
  \E w \in Range(c.extension) : \E v \in Range(query) : SameLexeme(w, v)
PreferExplicitExtension(cards, query) ==
  IF \E c \in Range(cards) : RequestsExtension(c, query)
  THEN Only(cards, {c \in Range(cards) : RequestsExtension(c, query)})
  ELSE OrElse(Only(cards, {c \in Range(cards) : c.extension = <<>>}), cards)
PreferExactNonTransit(cards, query) ==
  IF \E c \in Range(cards) : c.kind # "transit_stop" /\ IsCalled(c, query)
  THEN Only(cards, {c \in Range(cards) : c.kind # "transit_stop"}) ELSE cards
HasAddressIdentity(c) == c.address \/ (c.building # 0 /\ ~c.placeholder)
PreferAddressableLandmark(cards) ==
  IF cards = <<>> \/ ~HasAddressIdentity(cards[1]) THEN cards
  ELSE Only(cards, {c \in Range(cards) : c.kind \notin {"transit_stop", "park"} \/ HasAddressIdentity(c)})
PreferExactTypeHintName(cards, query) ==
  IF TypeHint(query) = NoHint THEN cards
  ELSE OrElse(Only(cards, {c \in Range(cards) : IsCalled(c, CoreQuery(query))}), cards)

\* city <<>>: the search is not bound to one.
BuildNamedCandidates(items, query, city) ==
  LET hint == TypeHint(query)
      scoped == Only(items, {c \in Range(items) :
                  /\ c.point # NoPoint
                  /\ city # <<>> => MatchesLocality(c, city)
                  /\ hint # NoHint => c.kind \in hint.kinds})
      named == Only(scoped, {c \in Range(scoped) : MatchesName(c, query)})
      strict == DeduplicateCandidates(
                  Only(scoped, {c \in Range(scoped) : ExplicitlyMatchesLocality(c, city)}), TRUE)
      found == IF named = <<>> /\ hint # NoHint /\ city # <<>> /\ Len(strict) = 1
               THEN strict ELSE named
      asked == PreferExplicitExtension(found, query)
      placed == PreferAddressableLandmark(PreferExactNonTransit(asked, query))
  IN DeduplicateCandidates(PreferExactTypeHintName(placed, query), TRUE)

------------------------------------------------------------------------------
(* TomTom.  A card: [id, point, name, address, house, inside, city, ids,    *)
(* codes, label, aux, rich, score, allDay, now]; address "" says there is   *)
(* none, house 0 that it names none; rich counts what the card tells.       *)

Exact == <<0, 0>>
NoScore == <<9, 9>>
MatchesLocalityQualifier(name, query, locality) ==
  name \in {locality \o query, query \o locality}
NameMatchScore(name, query, locality) ==
  LET extra == Len(name) - Len(query)
      misspelt == \E w \in Range(name) : {w, query[1]} \in Misspellings
  IN CASE name = query -> Exact
       [] name # query /\ Range(query) \subseteq Range(name)
            /\ (extra <= 1 \/ (extra = 2 /\ MatchesLocalityQualifier(name, query, locality)))
            -> <<1, extra>>
       [] OTHER -> IF Len(query) = 1 /\ Len(name) <= 2 /\ misspelt THEN <<2, Len(name)>> ELSE NoScore

NamedResultIdentity(c) == <<c.name, c.address>>
AliasNames(a, b) == Range(a) \subseteq Range(b) \/ Range(b) \subseteq Range(a)
MatchesSameProviderPlace(left, right) ==
  \/ NamedResultIdentity(left) = NamedResultIdentity(right)
  \/ left.point = right.point /\ left.address = right.address /\ AliasNames(left.name, right.name)

\* A richer card of the place takes the position of the one that stood for it.
Placed(kept, c) ==
  LET same == {i \in DOMAIN kept : MatchesSameProviderPlace(kept[i], c)}
  IN IF same = {} THEN Append(kept, c)
     ELSE IF c.rich > kept[Min(same)].rich THEN [kept EXCEPT ![Min(same)] = c] ELSE kept
DeduplicateMatches(cards) ==
  LET kept[n \in 0..Len(cards)] == IF n = 0 THEN <<>> ELSE Placed(kept[n - 1], cards[n])
  IN kept[Len(cards)]

\* exact: the cards whose name is the query's.
ExcludeAuxiliary(cards, exact) ==
  IF \E c \in exact : ~c.aux
  THEN Only(cards, {c \in Range(cards) : ~c.aux}) ELSE cards

ConflictedPoints(cards) ==
  {c.point : c \in {d \in Range(cards) : d.house # 0 /\ \E e \in Range(cards) :
                      e.point = d.point /\ e.house \notin {0, d.house}}}
ExcludeCoordinateConflicts(cards) ==
  Only(cards, {c \in Range(cards) : c.point \notin ConflictedPoints(cards)})

\* Numeric categories first, the classification where the card or the category has none.
MatchesCategory(c, spec) ==
  /\ IF c.ids # "none" /\ spec.ids THEN c.ids = "match" ELSE c.codes # "other"
  /\ spec.labels => c.label
==============================================================================
