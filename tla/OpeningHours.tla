---------------------------- MODULE OpeningHours ----------------------------
(***************************************************************************)
(* What the three search providers make of published opening hours: is the *)
(* place open now, and open around the clock?  "yes" and "no" are claims,  *)
(* "unknown" is None.  A day has Minutes minutes, a week Days days.        *)
(***************************************************************************)
EXTENDS Integers, Sequences, FiniteSets, SequencesExt

CONSTANTS Days, Minutes

ASSUME ClockAssumption == Days \in Nat \ {0, 1} /\ Minutes \in Nat \ {0, 1}

Day == 0..Days - 1
Minute == 0..Minutes - 1
\* Half-open intervals <<from, to>> of one day.
FullDay == <<0, Minutes>>
Within(minute, interval) == interval[1] <= minute /\ minute < interval[2]
Answer(claim) == IF claim THEN "yes" ELSE "no"
Unknown == [kind |-> "unknown"]
\* A finite set in a linear order, which is a set of pairs.
InOrder(S, order) ==
  [n \in 1..Cardinality(S) |-> CHOOSE x \in S : Cardinality({y \in S : <<y, x>> \in order}) = n]

------------------------------------------------------------------------------
(* Yandex: availabilities, each for some days: [days, allDay, intervals].   *)
(* An interval [from, to, whole] may end the next day; whole: no seconds.   *)

Availability == [days : SUBSET Day, allDay : BOOLEAN,
                 intervals : SUBSET [from : Minute, to : Minute, whole : BOOLEAN]]

\* Every interval of an availability as pieces <<day offset, from, to>>, {} when it means nothing.
SplitInterval(i) ==
  IF ~i.whole \/ i.from = i.to THEN {}
  ELSE IF i.to = 0 THEN {<<0, i.from, Minutes>>}
  ELSE IF i.from < i.to THEN {<<0, i.from, i.to>>}
  ELSE {<<0, i.from, Minutes>>, <<1, 0, i.to>>}

Usable(a) == /\ a.days # {}
             /\ IF a.allDay THEN a.intervals = {}
                ELSE a.intervals # {} /\ \A i \in a.intervals : SplitInterval(i) # {}
Pieces(a) == IF a.allDay THEN {<<0, 0, Minutes>>} ELSE UNION {SplitInterval(i) : i \in a.intervals}

\* Variation, to test the properties: the night after the last day is lost.
TargetDay_NoWrap(day, offset) == day + offset
TargetDay(day, offset) == (day + offset) % Days

\* hours: a set of availabilities. The day's intervals; a full day swallows the others.
YandexWeek(hours) ==
  IF hours = {} \/ \E a \in hours : ~Usable(a) THEN Unknown
  ELSE [kind |-> "week",
        on |-> [d \in Day |->
                 LET stated == UNION {{<<p[2], p[3]>> : p \in {q \in Pieces(a) :
                                         \E e \in a.days : TargetDay(e, q[1]) = d}} : a \in hours}
                 IN IF FullDay \in stated THEN {FullDay} ELSE stated]]

\* YandexCompanyMetaData.open_24h looks at nothing but the days that are marked as full.
YandexAllDay(hours) ==
  IF \A a \in hours : a.days = {} THEN "unknown"
  ELSE Answer(UNION {a.days : a \in {b \in hours : b.allDay}} = Day)

\* The evaluator of opening_hours expressions, a library: a week states all there is to know.
IsOpenAt(week, day, minute) ==
  IF week = Unknown THEN "unknown" ELSE Answer(\E i \in week.on[day] : Within(minute, i))

------------------------------------------------------------------------------
(* 2GIS: [always, periods], the periods <<from, to>> of each day, which may *)
(* run over midnight; no periods: the day is missing.                       *)

Schedule == [always : BOOLEAN, periods : [Day -> SUBSET ((0..Minutes) \X (0..Minutes))]]
FullDayPeriods == {FullDay, <<0, 0>>}
CompleteWeek(s) == \A d \in Day : s.periods[d] # {}
FullWeek(s) == \A d \in Day : Cardinality(s.periods[d]) = 1 /\ s.periods[d] \subseteq FullDayPeriods
TwogisAllDay(s) ==
  IF s.always \/ FullWeek(s) THEN "yes" ELSE IF CompleteWeek(s) THEN "no" ELSE "unknown"
\* The expression has one rule per day, periods over midnight included. Where the next day has a
\* rule of its own, it is the library's affair whether the night survives it: kept.
OnDay(period) == IF period[1] < period[2] THEN period ELSE <<period[1], Minutes>>
AfterMidnight(period) == IF period[1] < period[2] THEN <<0, 0>> ELSE <<0, period[2]>>
DayBefore(d) == (d + Days - 1) % Days
TwogisWeek(s, kept) ==
  IF \A d \in Day : s.periods[d] = {} THEN Unknown
  ELSE [kind |-> "week",
        on |-> [d \in Day |->
                 {OnDay(p) : p \in s.periods[d]}
                 \cup {AfterMidnight(p) : p \in IF kept \/ s.periods[d] = {}
                                               THEN s.periods[DayBefore(d)] ELSE {}}]]
TwogisOpenNow(s, kept, day, minute) ==
  IF TwogisAllDay(s) = "yes" THEN "yes" ELSE IsOpenAt(TwogisWeek(s, kept), day, minute)

------------------------------------------------------------------------------
(* TomTom: dated ranges <<start, end>> in minutes from the first midnight   *)
(* of the window, which is today's; they may reach over both its ends.      *)

WindowEnd == Days * Minutes
Malformed(ranges) == \E r \in ranges : r[2] <= r[1]
Clipped(ranges) ==
  {<<IF r[1] < 0 THEN 0 ELSE r[1], IF r[2] > WindowEnd THEN WindowEnd ELSE r[2]>> :
     r \in {q \in ranges : q[1] < WindowEnd /\ q[2] > 0}}
DateOf(instant) == instant \div Minutes
\* The pieces of the ranges on a date: what _split_ranges_by_date collects for it.
OnDate(ranges, date) ==
  LET first == date * Minutes
      overlapping == {r \in ranges : r[1] < first + Minutes /\ r[2] > first}
  IN {<<IF r[1] < first THEN 0 ELSE r[1] - first,
        IF r[2] >= first + Minutes THEN Minutes ELSE r[2] - first>> : r \in overlapping}

\* Joins intervals in the order of their starts, each with the last one so far.
Earlier(a, b) == a[1] < b[1] \/ (a[1] = b[1] /\ a[2] <= b[2])
Joined(last, next) == <<last[1], IF next[2] > last[2] THEN next[2] ELSE last[2]>>
Merged(so_far, next) ==
  IF so_far = <<>> \/ next[1] > Last(so_far)[2] THEN Append(so_far, next)
  ELSE Append(Front(so_far), Joined(Last(so_far), next))
MergeSorted(sorted) ==
  LET merged[n \in 0..Len(sorted)] == IF n = 0 THEN <<>> ELSE Merged(merged[n - 1], sorted[n])
  IN merged[Len(sorted)]
MergeIntervals(intervals) ==
  MergeSorted(InOrder(intervals, {p \in intervals \X intervals : Earlier(p[1], p[2])}))

\* Hours that cannot be laid over the seven days: some text, few claims, no status.
PublishedSummary(ranges) ==
  LET dates == UNION {DateOf(r[1])..DateOf(r[2] - 1) : r \in ranges}
      daily == [d \in dates |-> MergeIntervals(OnDate(ranges, d))]
  IN IF ranges = {} THEN [text |-> <<>>, allDay |-> "unknown", now |-> "unknown"]
     ELSE [text |-> daily, now |-> "unknown",
           allDay |-> IF \E d \in dates : daily[d] # <<FullDay>> THEN "no" ELSE "unknown"]

\* placed: the mode is nextSevenDays and the time zone is known to the host.
TomTomSummary(ranges, placed, minute) ==
  LET daily == [d \in Day |-> MergeIntervals(OnDate(Clipped(ranges), d))]
  IN IF Malformed(ranges) THEN [text |-> <<>>, allDay |-> "unknown", now |-> "unknown"]
     ELSE IF ~placed \/ (ranges # {} /\ Clipped(ranges) = {}) THEN PublishedSummary(ranges)
     ELSE [text |-> daily,
           allDay |-> Answer(\A d \in Day : daily[d] = <<FullDay>>),
           now |-> Answer(\E r \in ranges : r[1] <= minute /\ minute < r[2])]
==============================================================================
