--------------------------- MODULE MCPlaceResults ---------------------------
(* Questions for PlaceResults: short responses of cards that compete, with  *)
(* each kind of request, and hours for a week of three days of three        *)
(* minutes.                                                                 *)
EXTENDS PlaceResults

MCDays == 3
MCMinutes == 3
MCSameSpot == 1
MCMaxOptions == 2
MCAmbiguityGap == 3
MCInflections == {{"sun", "suns"}}
MCMisspellings == {{"sun", "son"}}
MCTypeHints == <<[words |-> <<"shopping", "centre">>, kinds |-> {"centre"}],
                 [words |-> <<"centre">>, kinds |-> {"centre", "branch"}],
                 [words |-> <<"stop">>, kinds |-> {"transit_stop"}]>>

City == <<"old", "town">>
\* Responses of n cards; the id of a card is its place, unless the ids repeat one.
Fresh == <<1, 2, 3>>
Repeated == <<1, 2, 1>>
Responses(cards, n, ids) == {[i \in 1..n |-> [id |-> ids[i]] @@ s[i]] : s \in [1..n -> cards]}
Family(op, requests, responses) ==
  <<[requests |-> {[op |-> op] @@ r : r \in requests}, responses |-> responses]>>
Upto(n, op, requests, cards) ==
  FlattenSeq([i \in 1..n |-> Family(op, requests, Responses(cards, i, Fresh))])

Request == [query |-> <<"sun">>, named |-> FALSE, locality |-> City, anchor |-> NoAnchor, radius |-> 3,
            allDay |-> FALSE, now |-> FALSE, rating |-> 0, limit |-> 2, more |-> FALSE, first |-> FALSE,
            category |-> [ids |-> TRUE, labels |-> TRUE]]
Requests ==
  {Request, [Request EXCEPT !.named = TRUE, !.limit = 1], [Request EXCEPT !.anchor = 0, !.limit = 1],
   [Request EXCEPT !.anchor = 0, !.named = TRUE], [Request EXCEPT !.now = TRUE],
   [Request EXCEPT !.allDay = TRUE, !.now = TRUE, !.anchor = 2],
   [Request EXCEPT !.category = [ids |-> FALSE, labels |-> FALSE], !.more = TRUE]}
ResolveRequest == [Request EXCEPT !.named = TRUE, !.limit = 1, !.first = TRUE]

HouseOf(address) == CASE address = "47" -> 47 [] address = "136" -> 136 [] OTHER -> 0
TomTomCard(name, address, point, rich) ==
  [name |-> name, address |-> address, house |-> HouseOf(address), point |-> point, rich |-> rich,
   inside |-> TRUE, city |-> City, ids |-> "match", codes |-> "match", label |-> TRUE, aux |-> FALSE,
   kind |-> "branch", score |-> 0, allDay |-> "yes", now |-> "yes", reachable |-> TRUE]
Competing ==
  {TomTomCard(n, a, p, r) : n \in {<<"sun">>, <<"sun", "bar">>, <<"bar">>}, a \in {"47", "136"},
                            p \in {0, 2}, r \in {1, 2}}
Plain == TomTomCard(<<"sun">>, "47", 0, 1)
Varied ==
  {Plain, [Plain EXCEPT !.address = ""], [Plain EXCEPT !.address = "park", !.house = 0],
   [Plain EXCEPT !.inside = FALSE], [Plain EXCEPT !.city = <<"town">>], [Plain EXCEPT !.city = <<"old">>],
   [Plain EXCEPT !.city = <<>>], [Plain EXCEPT !.ids = "other"], [Plain EXCEPT !.ids = "none"],
   [Plain EXCEPT !.ids = "none", !.codes = "other"], [Plain EXCEPT !.label = FALSE],
   [Plain EXCEPT !.aux = TRUE, !.address = "136", !.house = 136], [Plain EXCEPT !.now = "no"],
   [Plain EXCEPT !.now = "unknown"], [Plain EXCEPT !.allDay = "unknown"], [Plain EXCEPT !.reachable = FALSE],
   [Plain EXCEPT !.name = <<"son">>, !.point = 2], [Plain EXCEPT !.name = <<"old", "town", "sun">>],
   [Plain EXCEPT !.name = <<"sun", "old", "town">>, !.rich = 2], [Plain EXCEPT !.name = <<"a", "b", "sun">>],
   [Plain EXCEPT !.point = 5, !.address = "136", !.house = 136]}

TwogisCard(aliases, kind, point) ==
  [aliases |-> aliases, kind |-> kind, point |-> point, extension |-> <<>>, rubric |-> TRUE,
   localities |-> {}, address |-> TRUE, building |-> 0, placeholder |-> FALSE, rating |-> 5,
   allDay |-> "yes", now |-> "yes"]
Item == TwogisCard(<<<<"sun">>>>, "branch", 0)
Items ==
  {Item, [Item EXCEPT !.point = NoPoint], [Item EXCEPT !.aliases = <<<<"sun", "bar">>>>, !.point = 1],
   [Item EXCEPT !.point = 3], [Item EXCEPT !.point = 5, !.localities = {<<"town">>}],
   [Item EXCEPT !.point = 3, !.localities = {<<"old">>, <<"x">>}, !.kind = "centre"],
   [Item EXCEPT !.kind = "transit_stop", !.address = FALSE], [Item EXCEPT !.rubric = FALSE],
   [Item EXCEPT !.kind = "park", !.address = FALSE, !.building = 1, !.point = 3],
   [Item EXCEPT !.kind = "park", !.address = FALSE, !.building = 1, !.placeholder = TRUE],
   [Item EXCEPT !.aliases = <<<<"bar">>, <<"centre">>>>, !.point = 5, !.building = 1],
   [Item EXCEPT !.extension = <<"roof">>, !.point = 3], [Item EXCEPT !.rating = 0],
   [Item EXCEPT !.now = "unknown"], [Item EXCEPT !.allDay = "no", !.now = "no"]}
Rated == {[Request EXCEPT !.rating = 4], [Request EXCEPT !.rating = 4, !.now = TRUE, !.limit = 1]}

Company(point, allDay, now) == [point |-> point, allDay |-> allDay, now |-> now]
Companies == {Company(p, a, "yes") : p \in {0, 2, 5}, a \in {"yes", "unknown"}}
             \cup {Company(0, "yes", n) : n \in {"no", "unknown"}}

Asking(queries) == {[query |-> q, locality |-> City] : q \in queries}
Queries == {<<"sun">>, <<"suns", "roof">>, <<"sun", "centre">>, <<"sun", "centre", "roof">>,
            <<"shopping", "centre", "moon">>}
Scored(name, score, point) == [TomTomCard(name, "47", point, 1) EXCEPT !.score = score]
Hits ==
  {Scored(n, s, p) : n \in {<<"sun">>, <<"sun", "bar">>}, s \in {100, 98, 90}, p \in {0, 1, 2}}
  \cup {[Scored(<<"sun", "centre">>, 98, 4) EXCEPT !.address = "136", !.house = 136, !.kind = k] :
           k \in {"centre", "branch"}}
  \cup {[Scored(<<"sun">>, 98, 2) EXCEPT !.aux = TRUE], [Scored(<<"sun">>, 0, 5) EXCEPT !.address = ""],
         [Scored(<<"sun">>, 0, 5) EXCEPT !.city = <<"x">>]}
  \cup {Scored(<<"son">>, s, p) : s \in {0, -1}, p \in {4, 7}}

YandexIntervals == [from : Minute, to : Minute, whole : {TRUE}]
                   \cup {[from |-> 0, to |-> 1, whole |-> FALSE]}
Availabilities ==
  [days : SUBSET Day, allDay : {FALSE}, intervals : {{}} \cup {{i} : i \in YandexIntervals}]
  \cup [days : SUBSET Day, allDay : {TRUE},
        intervals : {{}, {[from |-> 0, to |-> 1, whole |-> TRUE]}}]
YandexQuestions == {[op |-> "yandex_hours", hours |-> {a, b}] : a, b \in Availabilities}
                   \cup {[op |-> "yandex_hours", hours |-> {}]}
Periods == {{}, {FullDay}, {<<0, 0>>}, {<<1, 2>>}, {<<2, 1>>}, {<<0, 2>>, <<2, 3>>}}
TwogisQuestions ==
  {[op |-> "twogis_hours", hours |-> [always |-> a, periods |-> p], now |-> m] :
     a \in BOOLEAN, p \in [Day -> Periods], m \in {0, 1}}
Ranges == {<<s, s + n>> : s \in -2..10, n \in {0, 1, 2, 5, 9}}
TomTomQuestions ==
  {[op |-> "tomtom_hours", hours |-> h, placed |-> p, now |-> m] :
     h \in {{}} \cup {{r, s} : r, s \in Ranges}, p \in BOOLEAN, m \in {0, 2}}

MCSearches ==
  Upto(2, "tomtom_search", Requests, Competing) \o Upto(2, "tomtom_search", Requests, Varied)
  \o Family("tomtom_search", Requests, Responses(Varied, 3, Repeated))
  \o Family("tomtom_search", {Request, [Request EXCEPT !.anchor = 0, !.limit = 1]},
            Responses(Competing, 3, Fresh))
  \o Upto(2, "tomtom_search", {ResolveRequest}, Varied)
  \o Upto(2, "twogis_search", Requests \cup Rated, Items)
  \o Family("twogis_search", {Request, [Request EXCEPT !.anchor = 0]}, Responses(Items, 3, Fresh))
  \o Upto(2, "twogis_search", {ResolveRequest}, Items)
  \o Upto(3, "yandex_search", Requests, Companies)
  \o Family("yandex_search", Requests, Responses(Companies, 3, Repeated))
  \o Upto(3, "twogis_named", Asking(Queries), Items)
  \o Family("tomtom_named", Asking({<<"sun">>, <<"sun", "centre">>}),
            {cards \in Responses(Hits, 3, Fresh) : Ranked(cards)})
MCSchedules == YandexQuestions \cup TwogisQuestions \cup TomTomQuestions
=============================================================================
