---------------------------- MODULE PlaceResults ----------------------------
(***************************************************************************)
(* From the cards of a provider's response to what the places tool says:   *)
(* the search providers filter, deduplicate, sort and cut them, the named- *)
(* place resolvers pick one or ask, published hours become claims.  Each   *)
(* question is answered in one step: none of this code awaits anything.    *)
(***************************************************************************)
EXTENDS OpeningHours, PlaceMatching

CONSTANTS
  Searches,           \* a sequence of [requests, responses]: each request meets each response
  Schedules,          \* questions about hours, see below
  MaxOptions,         \* _MAX_CLARIFICATION_OPTIONS
  AmbiguityGap        \* _AMBIGUITY_SCORE_GAP_RATIO, in percent

Searching == {"twogis_search", "tomtom_search", "yandex_search"}
Naming == {"twogis_named", "tomtom_named"}
Telling == {"yandex_hours", "tomtom_hours", "twogis_hours"}

\* TomTom ranks its results.
Ranked(cards) == \A i, j \in DOMAIN cards : i <= j => cards[j].score <= cards[i].score
WellFormed(q) ==
  /\ q.op \in Searching \cup Naming \cup Telling
  /\ q.op \in Searching \cup Naming =>
       q.cards \in Seq(Range(q.cards)) /\ \A c \in Range(q.cards) : c.point \in Int
  /\ q.op \in Searching => q.limit \in Nat /\ q.anchor \in Int
  /\ q.op = "tomtom_search" => \A c \in Range(q.cards) : c.rich \in Nat
  /\ q.op = "tomtom_named" => Ranked(q.cards) /\ \A c \in Range(q.cards) : c.score \in Int
  /\ q.op = "yandex_hours" => q.hours \in SUBSET Availability
  /\ q.op = "twogis_hours" => q.hours \in Schedule /\ q.now \in Minute
  /\ q.op = "tomtom_hours" => q.hours \in SUBSET (Int \X Int) /\ IsFiniteSet(q.hours)

Question(request, response) == [cards |-> response] @@ request
ASSUME BoundsAreNumbers == MaxOptions \in Nat \ {0, 1} /\ AmbiguityGap \in Nat /\ SameSpot \in Nat
ASSUME QuestionsAreWellFormed ==
  /\ \A q \in Schedules : WellFormed(q)
  /\ \A i \in DOMAIN Searches :
       \A request \in Searches[i].requests, response \in Searches[i].responses :
         WellFormed(Question(request, response))

VARIABLES question, answer
resultsVars == <<question, answer>>
NoAnswer == [kind |-> "none"]
NoAnchor == -1

ResultsInit ==
  /\ answer = NoAnswer
  /\ \/ question \in Schedules
     \/ \E i \in DOMAIN Searches :
          \E request \in Searches[i].requests, response \in Searches[i].responses :
            question = Question(request, response)

Reply(op, reply) ==
  /\ question.op = op /\ answer = NoAnswer
  /\ answer' = reply
  /\ UNCHANGED question

------------------------------------------------------------------------------
(* A search: [op, query, named, locality, anchor, radius, allDay, now,      *)
(* rating, limit, more, first, cards, category].  named: no category asked  *)
(* for; more: the provider has more than it returned; first: mode=resolve   *)
(* wants the first card with an address.                                    *)

Near(q) == q.anchor # NoAnchor
FirstOf(cards) == SubSeq(cards, 1, IF cards = <<>> THEN 0 ELSE 1)
HoursFit(q, c) == (q.allDay => c.allDay = "yes") /\ (q.now => c.now = "yes")
InCircle(q, c) == Near(q) => Distance(q.anchor, c.point) <= q.radius
\* Fits but for hours nobody can vouch for.
Unverified(q, c) == q.now /\ c.now = "unknown" /\ (q.allDay => c.allDay = "yes")

\* Stable, as list.sort is.
ByDistance(q, cards) ==
  LET nearer(i, j) == LET a == Distance(q.anchor, cards[i].point)
                          b == Distance(q.anchor, cards[j].point)
                      IN a < b \/ (a = b /\ i <= j)
      order == InOrder(DOMAIN cards, {p \in (DOMAIN cards) \X (DOMAIN cards) : nearer(p[1], p[2])})
  IN IF Near(q) THEN [i \in DOMAIN cards |-> cards[order[i]]] ELSE cards
Cut(q, cards) == SubSeq(cards, 1, IF Len(cards) < q.limit THEN Len(cards) ELSE q.limit)
\* Variation, to test the properties: only the provider's own count is looked at.
Found_Silent(q, matches, warned) ==
  [kind |-> "places", shown |-> Cut(q, matches), warned |-> warned,
   truncated |-> matches # <<>> /\ q.more]
Found(q, matches, warned) ==
  [kind |-> "places", shown |-> Cut(q, matches), warned |-> warned,
   truncated |-> matches # <<>> /\ (q.more \/ Len(matches) > q.limit)]

UniqueIds(cards) == Distinct(cards, {p \in Range(cards) \X Range(cards) : p[1].id = p[2].id})

TwogisCandidates(q) ==
  IF q.first THEN FirstOf(Only(q.cards, {c \in Range(q.cards) : c.point # NoPoint /\ HasExplicitAddress(c)}))
  ELSE IF q.named THEN BuildNamedCandidates(q.cards, q.query, IF Near(q) THEN q.locality ELSE <<>>)
  ELSE DeduplicateCandidates(
         Only(q.cards, {c \in Range(q.cards) :
           /\ c.point # NoPoint /\ c.rubric
           /\ Near(q) /\ q.locality # <<>> /\ c.localities # {} =>
                \E l \in c.localities : SameLocality(q.locality, l)}), FALSE)
TwogisFits(q, c) == (q.rating > 0 => c.rating >= q.rating) /\ HoursFit(q, c) /\ InCircle(q, c)
TwogisSearch ==
  LET q == question
      candidates == TwogisCandidates(q)
      matches == Only(candidates, {c \in Range(candidates) : TwogisFits(q, c)})
      unknown == \E c \in Range(candidates) : /\ q.rating > 0 => c.rating >= q.rating
                                              /\ Unverified(q, c)
  IN Reply("twogis_search", Found(q, ByDistance(q, matches), unknown))

\* With an address; in an area also inside its box and its municipality.
TomTomInScope(q, c) ==
  /\ c.address # ""
  /\ ~Near(q) => c.inside /\ (c.city # <<>> /\ q.locality # <<>> => CompatibleLocality(q.locality, c.city))
  /\ ~q.named => MatchesCategory(c, q.category)
  /\ q.named => NameMatchScore(c.name, q.query, q.locality) # NoScore
TomTomEligible(q, cards) ==
  Only(cards, {c \in Range(cards) : TomTomInScope(q, c) /\ InCircle(q, c) /\ HoursFit(q, c)})
TomTomMatches(q) ==
  LET cards == UniqueIds(q.cards)
  IN IF q.first THEN FirstOf(Only(cards, {c \in Range(cards) : c.address # ""}))
     ELSE TomTomEligible(q, cards)
\* Variation, to test the properties: among those that would be shown.
Reliable_AfterCut(q, matches) ==
  LET bad == ConflictedPoints(Cut(q, matches)) IN Only(matches, {c \in Range(matches) : c.point \notin bad})
\* The conflicts are looked for among all matches, before the cut.
Reliable(q, matches) == ExcludeCoordinateConflicts(matches)
TomTomSearch ==
  LET q == question
      distinct == DeduplicateMatches(ByDistance(q, TomTomMatches(q)))
      exact == {c \in Range(distinct) : q.first \/ NameMatchScore(c.name, q.query, q.locality) = Exact}
      primary == IF q.named THEN ExcludeAuxiliary(distinct, exact) ELSE distinct
      matches == Reliable(q, primary)
      unknown == \E c \in Range(UniqueIds(q.cards)) :
                    ~q.first /\ TomTomInScope(q, c) /\ InCircle(q, c) /\ Unverified(q, c)
      unverifiable == \E c \in Range(Cut(q, matches)) : ~c.reachable
  IN Reply("tomtom_search",
           Found(q, matches, unknown \/ Len(matches) < Len(primary) \/ unverifiable))

YandexFits(q, c) == HoursFit(q, c) /\ InCircle(q, c)
YandexSearch ==
  LET q == question
      cards == UniqueIds(q.cards)
      matches == Only(cards, {c \in Range(cards) : YandexFits(q, c)})
      unknown == \E c \in Range(cards) : Unverified(q, c) /\ InCircle(q, c)
  IN Reply("yandex_search", Found(q, ByDistance(q, matches), unknown))

------------------------------------------------------------------------------
(* A named place: [op, query, locality, cards].                             *)

\* Cards at one spot: each joins the first group that has a member at its spot.
Joining(groups, c, together) ==
  LET near == {i \in DOMAIN groups : \E m \in Range(groups[i]) : <<c, m>> \in together}
  IN IF near = {} THEN Append(groups, <<c>>) ELSE [groups EXCEPT ![Min(near)] = Append(@, c)]
Groups(cards, together) ==
  LET groups[n \in 0..Len(cards)] ==
        IF n = 0 THEN <<>> ELSE Joining(groups[n - 1], cards[n], together)
  IN groups[Len(cards)]
SameAnchorTwogis(a, b) ==
  (a.building # 0 /\ a.building = b.building) \/ Distance(a.point, b.point) <= SameSpot
SameAnchorTomTom(a, b) == Distance(a.point, b.point) <= SameSpot

Heads(groups) ==
  [i \in 1..(IF Len(groups) < MaxOptions THEN Len(groups) ELSE MaxOptions) |-> groups[i][1]]
Ask(groups) == [kind |-> "question", options |-> Heads(groups)]
Take(card) == [kind |-> "place", place |-> card]

\* Only the first card has a name that the query spells out.
PreferUniqueName(cards, query) ==
  IF Only(cards, {c \in Range(cards) : AllSaidIn(c.aliases[1], query)}) = <<cards[1]>>
  THEN <<cards[1]>> ELSE cards
TwogisNamed ==
  LET items == BuildNamedCandidates(question.cards, question.query, question.locality)
      anchors == PreferUniqueName(items, question.query)
      groups == Groups(anchors, {p \in Range(anchors) \X Range(anchors) : SameAnchorTwogis(p[1], p[2])})
  IN Reply("twogis_named", IF items = <<>> THEN [kind |-> "no place"]
                           ELSE IF Len(groups) > 1 THEN Ask(groups) ELSE Take(groups[1][1]))

TomTomScore(c, query, locality) ==
  LET hints == EndHints(query)
      score == NameMatchScore(c.name, query, locality)
  IN IF hints = {} THEN score
     ELSE IF score # Exact /\ c.kind \notin HintAmong(hints).kinds THEN NoScore
     ELSE IF score = NoScore THEN NameMatchScore(c.name, Without(hints, query), locality) ELSE score
TomTomCandidates(q) ==
  Only(q.cards, {c \in Range(q.cards) :
    /\ c.address # "" /\ c.city # <<>>
    /\ SameLocality(q.locality, c.city) \/ c.inside
    /\ TomTomScore(c, q.query, q.locality) # NoScore})
UniqueIdentities(cards) ==
  Distinct(cards, {p \in Range(cards) \X Range(cards) :
                     NamedResultIdentity(p[1]) = NamedResultIdentity(p[2])})
\* Variation, to test the properties: the gap in points, not in proportion to the score.
ScoresRequireClarification_Points(first, second) == 100 * (first - second) < AmbiguityGap
\* Within the gap of the first score, or both are worthless alike.
ScoresRequireClarification(first, second) ==
  IF first <= 0 THEN first = second ELSE 100 * (first - second) < AmbiguityGap * first
TomTomNamed ==
  LET q == question
      cards == UniqueIdentities(TomTomCandidates(q))
      exact == {c \in Range(cards) : TomTomScore(c, q.query, q.locality) = Exact}
      anchors == ExcludeAuxiliary(cards, exact)
      groups == Groups(anchors, {p \in Range(anchors) \X Range(anchors) : SameAnchorTomTom(p[1], p[2])})
      unsure == Len(groups) > 1 /\ ScoresRequireClarification(groups[1][1].score, groups[2][1].score)
  IN Reply("tomtom_named", IF groups = <<>> THEN [kind |-> "no place"]
                           ELSE IF unsure THEN Ask(groups) ELSE Take(groups[1][1]))

------------------------------------------------------------------------------
(* Published hours: [op, hours] and, for TomTom, [op, hours, placed, now].  *)

YandexHours ==
  Reply("yandex_hours", [kind |-> "hours", week |-> YandexWeek(question.hours),
                         allDay |-> YandexAllDay(question.hours)])
TwogisHours ==
  \E kept \in BOOLEAN :
    Reply("twogis_hours", [kind |-> "hours", allDay |-> TwogisAllDay(question.hours),
                           now |-> TwogisOpenNow(question.hours, kept, 0, question.now)])
TomTomHours ==
  LET s == TomTomSummary(question.hours, question.placed, question.now)
  IN Reply("tomtom_hours", [kind |-> "hours", text |-> s.text, allDay |-> s.allDay, now |-> s.now])

ResultsNext == \/ TwogisSearch \/ TomTomSearch \/ YandexSearch
        \/ TwogisNamed \/ TomTomNamed
        \/ YandexHours \/ TwogisHours \/ TomTomHours
ResultsSpec == ResultsInit /\ [][ResultsNext]_resultsVars

------------------------------------------------------------------------------
(* Properties.                                                              *)

Answered(op) == question.op = op /\ answer # NoAnswer
\* A chain of cards, each the same as the next: b is in every set that is closed and has a.
Linked(a, b, cards, same(_, _)) ==
  \A side \in SUBSET Range(cards) :
    a \in side /\ (\A c \in side, d \in Range(cards) : same(c, d) => d \in side) => b \in side

\* A card that meets the request is shown, or stands behind one that tells at least as much
\* about the same place, or its absence shows: the list is full and marked as truncated, or a
\* warning speaks of the contradictory points.  Of 2GIS cards an earlier one of the object
\* stands for the later ones, whatever becomes of it.  Not looked at: 2GIS's searches for a
\* name, its nearby cards that carry a locality, and mode=resolve.  (Deduplication, which
\* replaces cards in place, between filters and cut.)
CutOff == Len(answer.shown) = question.limit /\ answer.truncated
NothingVanishesSilently ==
  /\ Answered("tomtom_search") /\ ~question.first =>
       LET cards == TomTomEligible(question, UniqueIds(question.cards))
           exact == \E c \in Range(cards) : ~c.aux /\ c.name = question.query
           excused(c) == \/ c \in Range(answer.shown) \/ CutOff
                         \/ c.point \in ConflictedPoints(cards) /\ answer.warned
                         \/ question.named /\ c.aux /\ exact
       IN \A c \in Range(cards) : \E k \in Range(cards) :
            /\ k.rich >= c.rich /\ Linked(c, k, cards, MatchesSameProviderPlace)
            /\ excused(k)
  /\ Answered("twogis_search") /\ ~question.first /\ ~question.named =>
       \A i \in DOMAIN question.cards :
         LET c == question.cards[i]
         IN c.point # NoPoint /\ c.rubric /\ (Near(question) => c.localities = {})
            /\ TwogisFits(question, c) =>
              \/ c \in Range(answer.shown) \/ CutOff
              \/ \E j \in 1..i - 1 : SameNamedObject(question.cards[j], c, FALSE)
  /\ Answered("yandex_search") =>
       \A c \in Range(UniqueIds(question.cards)) :
         YandexFits(question, c) => c \in Range(answer.shown) \/ CutOff

\* No shown place lies at a point that a card of another house claims too, be that card shown
\* or cut off; only a card that itself stands behind another one is no witness any more.
\* (_exclude_coordinate_conflicts comes after deduplication and before the cut.)
ReliablePointsOnly ==
  Answered("tomtom_search") /\ ~question.first =>
    LET cards == TomTomEligible(question, UniqueIds(question.cards))
        witness(d) == /\ question.named => ~d.aux
                      /\ \A e \in Range(cards) \ {d} : ~MatchesSameProviderPlace(d, e)
    IN \A c \in Range(answer.shown), d \in Range(cards) :
         c.point = d.point /\ witness(d) => 0 \in {c.house, d.house} \/ c.house = d.house

\* A named place is taken only when no other candidate lies elsewhere, but for 2GIS's only
\* card whose name the query spells out and for TomTom's clearly best score; otherwise the
\* user chooses among places that do not lie at one spot.  TomTom's auxiliary cards and repeated
\* identities do not count as candidates.  (Greedy grouping of candidates.)
AnchorIsNeverGuessed ==
  LET apart(same(_, _)) ==
        answer.kind = "question" =>
          /\ Len(answer.options) \in 2..MaxOptions
          /\ \A i, j \in DOMAIN answer.options : i < j => ~same(answer.options[i], answer.options[j])
      items == BuildNamedCandidates(question.cards, question.query, question.locality)
      results == TomTomCandidates(question)
  IN /\ Answered("twogis_named") =>
          /\ apart(SameAnchorTwogis)
          /\ answer.kind = "place" =>
               \/ \A c \in Range(items) : Linked(answer.place, c, items, SameAnchorTwogis)
               \/ \A c \in Range(items) : AllSaidIn(c.aliases[1], question.query) <=> c = answer.place
     /\ Answered("tomtom_named") =>
          /\ apart(SameAnchorTomTom)
          /\ answer.kind = "place" =>
               \A c \in Range(results) :
                 \/ Linked(answer.place, c, results, SameAnchorTomTom)
                 \/ c.aux
                 \/ \E k \in Range(results) : k # c /\ NamedResultIdentity(k) = NamedResultIdentity(c)
                 \/ 100 * (answer.place.score - c.score) >= AmbiguityGap * answer.place.score

\* The hours that are evaluated and shown are those that were published, minute by minute:
\* nothing is lost at midnight or at the ends of the window, where ranges overlap nothing is
\* counted twice; "open now" is said of the minutes that were published and "around the clock"
\* only if all of them were.  Two limits: 2GIS may be told closed in a night that ends on a day
\* with hours of its own, and that hours are not around the clock says something of the minutes
\* for TomTom only, the others look at how a day is written down.
\* (_opening_hours_expression, summarize_schedule, summarize_opening_hours.)
Covers(intervals, m) == \E i \in Range(intervals) : Within(m, i)
PublishedYandex(hours, d, m) ==
  \E a \in hours : \E e \in a.days :
    \/ a.allDay /\ d = e
    \/ \E i \in a.intervals :
         LET since == ((d + Days - e) % Days) * Minutes + m
         IN i.from <= since /\ since < IF i.to > i.from THEN i.to ELSE i.to + Minutes
\* periods of a day are under way so many minutes after its midnight.
UnderWay(periods, since) ==
  \E p \in periods : p[1] <= since /\ since < IF p[2] > p[1] THEN p[2] ELSE p[2] + Minutes
HoursAreExact ==
  /\ Answered("yandex_hours") =>
       /\ answer.week # Unknown =>
            \A d \in Day, m \in Minute :
              IsOpenAt(answer.week, d, m) = Answer(PublishedYandex(question.hours, d, m))
       /\ answer.allDay = "yes" => \A d \in Day, m \in Minute : PublishedYandex(question.hours, d, m)
  /\ Answered("twogis_hours") =>
       LET s == question.hours
           own(d, m) == UnderWay(s.periods[d], m)
           night(d, m) == UnderWay(s.periods[DayBefore(d)], m + Minutes)
           published(d, m) == s.always \/ own(d, m) \/ night(d, m)
       IN /\ answer.allDay = "yes" => \A d \in Day, m \in Minute : published(d, m)
          /\ answer.now = "yes" => published(0, question.now)
          /\ answer.now = "no" => /\ ~s.always /\ ~own(0, question.now)
                                  /\ night(0, question.now) => s.periods[0] # {}
  /\ Answered("tomtom_hours") =>
       LET published(t) == \E r \in question.hours : r[1] <= t /\ t < r[2]
       IN /\ \A d \in DOMAIN answer.text :
               /\ \A m \in Minute : Covers(answer.text[d], m) <=> published(d * Minutes + m)
               /\ \A i \in 2..Len(answer.text[d]) : answer.text[d][i - 1][2] < answer.text[d][i][1]
          /\ answer.allDay = "yes" => \A t \in 0..WindowEnd - 1 : published(t)
          /\ answer.allDay = "no" =>
               \E d \in DOMAIN answer.text, m \in Minute : ~published(d * Minutes + m)
          /\ answer.now # "unknown" => answer.now = Answer(published(question.now))
==============================================================================
