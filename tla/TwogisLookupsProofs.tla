------------------------ MODULE TwogisLookupsProofs ------------------------
(***************************************************************************)
(* For any number of tool calls, scopes and regions, and whatever the      *)
(* service answers: a key is asked for by one call at a time and only      *)
(* while nobody knows the answer, and a call cannot tell that it shares    *)
(* the lookups with others.                                                *)
(*                                                                         *)
(* The invariant IInv: what is remembered is the service's answer          *)
(* (Remembers), a call has come to where it is the way it would have come  *)
(* alone (Ways), a call that waits or asks stands once in the queue of its *)
(* key and in no other (Queueing), and who asks holds the lock (Asking).   *)
(***************************************************************************)
EXTENDS TwogisLookups, SequenceTheorems, TLAPS

Stages == {"idle", "coverage", "city", "rubrics", "search", "done"}
Results == {"none", "ambiguous", "not_covered", "nothing", "rating_error", "searched", "error",
            "cancelled"}

\* A key is unknown, or the client remembers the service's answer.
Remembers == \A k \in Key : cache[k] \in {Unknown, {Answer(k)}}

Types ==
  /\ service \in Services /\ need \in [Calls -> Needs]
  /\ cache = [k \in Key |-> cache[k]] /\ queue \in [Key -> Seq(Calls)]
  /\ stage \in [Calls -> Stages] /\ phase \in [Calls -> {"looking", "queued", "asking"}]
  /\ region \in [Calls -> Regions \cup {Nothing}] /\ result \in [Calls -> Results]

\* What lookup s of a call with need n leads to.
Covering(n) == Answer(KeyOf(n, "coverage", Nothing))
Outcome(n, s) == After(n, s, Covering(n), Answer(KeyOf(n, s, Covering(n))))

\* A call has come to its lookup the way it would have come alone.
OnItsWay(c) ==
  /\ stage[c] # "done" => result[c] = "none"
  /\ stage[c] \in {"city", "rubrics"} =>
       /\ region[c] = Covering(need[c]) /\ region[c] \in Regions
       /\ Outcome(need[c], "coverage").stage = "city"
  /\ stage[c] = "rubrics" => Outcome(need[c], "city").stage = "rubrics"
  /\ stage[c] = "search" => Alone(need[c]) = "searched"
Ways == \A c \in Calls : OnItsWay(c)

\* Who queues at a lock stands there once and at no other; who asks is its holder.
Once(q) == \A i, j \in DOMAIN q : q[i] = q[j] => i = j
Queueing ==
  /\ \A c \in Calls : phase[c] # "looking" => stage[c] \in Lookups
  /\ \A k \in Key, c \in Calls : Standing(queue[k], c) # {} <=> phase[c] # "looking" /\ KeyAt(c) = k
  /\ \A k \in Key : Once(queue[k])
Asking ==
  \A c \in Calls : phase[c] = "asking" => ~Known(KeyAt(c)) /\ Head(queue[KeyAt(c)]) = c

\* The inductive invariant.
IInv == Types /\ Remembers /\ Ways /\ Queueing /\ Asking /\ SharingIsInvisible

------------------------------------------------------------------------------
(* A lock's queue.                                                          *)

\* What becomes of queue q when c leaves it.
Leaves(q, w, c) ==
  /\ Once(w)
  /\ \A d \in Calls : Standing(w, d) # {} <=> Standing(q, d) # {} /\ d # c
  /\ q # <<>> /\ Head(q) # c => Head(w) = Head(q)

LEMMA AppendJoins ==
    ASSUME NEW q \in Seq(Calls), Once(q), NEW c \in Calls, Standing(q, c) = {}
    PROVE  /\ Once(Append(q, c)) /\ Append(q, c) \in Seq(Calls)
           /\ \A d \in Calls : Standing(Append(q, c), d) # {} <=> Standing(q, d) # {} \/ d = c
           /\ Head(Append(q, c)) = IF q = <<>> THEN c ELSE Head(q)
<1> DEFINE w == Append(q, c)
<1>1. /\ w \in Seq(Calls) /\ Len(w) = Len(q) + 1
      /\ DOMAIN w = 1..(Len(q) + 1) /\ DOMAIN q = 1..Len(q)
      /\ \A i \in 1..Len(q) : w[i] = q[i]
      /\ w[Len(q) + 1] = c /\ Len(q) \in Nat
  OBVIOUS
<1> HIDE DEF w
<1>2. \A i \in DOMAIN q : q[i] # c
  BY DEF Standing
<1>3. Once(w)
  BY <1>1, <1>2 DEF Once
<1>4. ASSUME NEW d \in Calls PROVE Standing(w, d) # {} <=> Standing(q, d) # {} \/ d = c
  <2>1. Standing(q, d) # {} => Standing(w, d) # {}
    BY <1>1 DEF Standing
  <2>2. d = c => Standing(w, d) # {}
    BY <1>1 DEF Standing
  <2>3. Standing(w, d) # {} => Standing(q, d) # {} \/ d = c
    BY <1>1 DEF Standing
  <2> QED
    BY <2>1, <2>2, <2>3
<1>5. Head(w) = IF q = <<>> THEN c ELSE Head(q)
  BY <1>1
<1> QED
  BY <1>1, <1>3, <1>4, <1>5 DEF w

LEMMA RemovalLeaves ==
    ASSUME NEW q \in Seq(Calls), Once(q), NEW c \in Calls, NEW w \in Seq(Calls),
           NEW at \in DOMAIN q, q[at] = c,
           Len(w) = Len(q) - 1, \A i \in DOMAIN w : w[i] = IF i < at THEN q[i] ELSE q[i + 1]
    PROVE  Leaves(q, w, c)
<1>1. /\ DOMAIN w = 1..(Len(q) - 1) /\ DOMAIN q = 1..Len(q) /\ Len(q) \in Nat /\ Len(w) \in Nat
      /\ at \in Nat
  OBVIOUS
<1>2. Once(w)
  <2> SUFFICES ASSUME NEW i \in DOMAIN w, NEW j \in DOMAIN w, w[i] = w[j] PROVE i = j
    BY DEF Once
  <2> DEFINE I(x) == IF x < at THEN x ELSE x + 1
  <2>1. I(i) \in DOMAIN q /\ I(j) \in DOMAIN q /\ q[I(i)] = q[I(j)]
    BY <1>1
  <2>2. I(i) = I(j)
    BY <2>1 DEF Once
  <2> QED
    BY <2>2, <1>1
<1>3. ASSUME NEW d \in Calls PROVE Standing(w, d) # {} <=> Standing(q, d) # {} /\ d # c
  <2>1. ASSUME NEW i \in DOMAIN w, w[i] = d PROVE Standing(q, d) # {} /\ d # c
    <3> DEFINE j == IF i < at THEN i ELSE i + 1
    <3>1. j \in DOMAIN q /\ q[j] = d /\ j # at
      BY <1>1, <2>1
    <3> QED
      BY <3>1 DEF Standing, Once
  <2>2. ASSUME NEW i \in DOMAIN q, q[i] = d, d # c PROVE Standing(w, d) # {}
    <3> DEFINE j == IF i < at THEN i ELSE i - 1
    <3>1. i # at
      BY <2>2
    <3>2. j \in DOMAIN w /\ w[j] = d
      BY <1>1, <2>2, <3>1
    <3> QED
      BY <3>2 DEF Standing
  <2> QED
    BY <2>1, <2>2 DEF Standing
<1>4. ASSUME q # <<>>, Head(q) # c PROVE Head(w) = Head(q)
  <2>1. at # 1 /\ Head(q) = q[1]
    BY <1>4
  <2>2. 1 \in DOMAIN w /\ w[1] = q[1] /\ w # <<>>
    BY <1>1, <2>1
  <2> QED
    BY <2>1, <2>2
<1> QED
  BY <1>2, <1>3, <1>4 DEF Leaves

LEMMA TailLeaves ==
    ASSUME NEW q \in Seq(Calls), Once(q), q # <<>>
    PROVE  Tail(q) \in Seq(Calls) /\ Leaves(q, Tail(q), Head(q))
<1>1. /\ Tail(q) \in Seq(Calls) /\ Len(Tail(q)) = Len(q) - 1 /\ Head(q) = q[1] /\ 1 \in DOMAIN q
      /\ Head(q) \in Calls
  OBVIOUS
<1>2. \A i \in DOMAIN Tail(q) : Tail(q)[i] = IF i < 1 THEN q[i] ELSE q[i + 1]
  OBVIOUS
<1> QED
  BY <1>1, <1>2, RemovalLeaves

LEMMA WithoutLeaves ==
    ASSUME NEW q \in Seq(Calls), Once(q), NEW c \in Calls
    PROVE  Without(q, c) \in Seq(Calls) /\ Leaves(q, Without(q, c), c)
<1>1. CASE Standing(q, c) = {}
  BY <1>1 DEF Without, Leaves
<1>2. CASE Standing(q, c) # {}
  <2> DEFINE at == CHOOSE i \in Standing(q, c) : TRUE
  <2>1. at \in DOMAIN q /\ q[at] = c /\ at \in 1..Len(q) /\ Len(q) \in Nat
    BY <1>2 DEF Standing
  <2>2. Without(q, c) = SubSeq(q, 1, at - 1) \o SubSeq(q, at + 1, Len(q))
    BY <1>2 DEF Without, RemoveAt
  <2> HIDE DEF at
  <2> DEFINE before == SubSeq(q, 1, at - 1)
             after == SubSeq(q, at + 1, Len(q))
  <2>3. /\ before \in Seq(Calls) /\ Len(before) = at - 1
        /\ \A i \in 1..(at - 1) : before[i] = q[i]
    BY <2>1
  <2>4. /\ after \in Seq(Calls) /\ Len(after) = Len(q) - at
        /\ \A i \in 1..(Len(q) - at) : after[i] = q[i + at]
    BY <2>1
  <2>6. Without(q, c) = before \o after
    BY <2>2
  <2> HIDE DEF before, after
  <2>7. /\ Without(q, c) \in Seq(Calls) /\ Len(Without(q, c)) = Len(before) + Len(after)
        /\ \A i \in 1..(Len(before) + Len(after)) :
             Without(q, c)[i] = IF i <= Len(before) THEN before[i] ELSE after[i - Len(before)]
    <3>1. before \in Seq(Calls) /\ after \in Seq(Calls)
      BY <2>3, <2>4
    <3>2. before \o after \in Seq(Calls) /\ Len(before \o after) = Len(before) + Len(after)
      BY <3>1
    <3>3. \A i \in 1..(Len(before) + Len(after)) :
            (before \o after)[i] = IF i <= Len(before) THEN before[i] ELSE after[i - Len(before)]
      BY <3>1
    <3> QED
      BY <2>6, <3>2, <3>3, Zenon
  <2>8. Len(Without(q, c)) = Len(q) - 1
    BY <2>1, <2>3, <2>4, <2>7
  <2>5. ASSUME NEW i \in DOMAIN Without(q, c)
        PROVE  Without(q, c)[i] = IF i < at THEN q[i] ELSE q[i + 1]
    <3>1. i \in 1..(Len(q) - 1) /\ i \in 1..(Len(before) + Len(after)) /\ i \in Nat
      BY <2>1, <2>7, <2>8
    <3>2. CASE i < at
      <4>1. i \in 1..(at - 1) /\ i <= Len(before)
        BY <3>1, <3>2, <2>1, <2>3
      <4> QED
        BY <4>1, <3>1, <3>2, <2>3, <2>7
    <3>3. CASE ~(i < at)
      <4> DEFINE j == i - Len(before)
      <4>1. j \in 1..(Len(q) - at) /\ ~(i <= Len(before)) /\ j + at = i + 1
        BY <3>1, <3>3, <2>1, <2>3
      <4>2. Without(q, c)[i] = after[j]
        BY <4>1, <3>1, <2>7
      <4> QED
        BY <4>1, <4>2, <3>3, <2>4
    <3> QED
      BY <3>2, <3>3
  <2> QED
    BY <2>1, <2>5, <2>7, <2>8, RemovalLeaves
<1> QED
  BY <1>1, <1>2

------------------------------------------------------------------------------
(* Answers, and the way of a call that is alone.                            *)

LEMMA OneOfThem ==
    ASSUME NEW items, NEW at, at \subseteq DOMAIN items
    PROVE  TheOnly(items, at) = Nothing \/ \E i \in DOMAIN items : TheOnly(items, at) = items[i].id
BY DEF TheOnly, Single

LEMMA CoverageIsRegion ==
    ASSUME service \in Services, NEW s \in Scopes
    PROVE  Answer(<<"coverage", s>>) \in {NotCovered, Ambiguous, Nothing} \cup Regions
<1> DEFINE response == service.coverage[s]
           items == response.items
<1>1. Answer(<<"coverage", s>>) =
        IF response.missing THEN NotCovered
        ELSE IF s \notin TextScopes THEN SelectRegionAtPoint(response)
        ELSE IF SelectRegion(response) = Nothing /\ IsAmbiguous(response) THEN Ambiguous
        ELSE SelectRegion(response)
  BY DEF Answer
<1>2. CASE response.missing
  BY <1>1, <1>2
<1>3. CASE ~response.missing
  <2>1. \A i \in DOMAIN items : items[i].id \in Regions
    BY <1>3, ServicesNameRegions
  <2> HIDE DEF response
  <2>2. \A at : at \subseteq DOMAIN items => TheOnly(items, at) \in {Nothing} \cup Regions
    BY <2>1, OneOfThem
  <2>3. SelectRegionAtPoint(response) \in {Nothing} \cup Regions
    BY <2>2 DEF SelectRegionAtPoint
  <2>4. SelectRegion(response) \in {Nothing} \cup Regions
    <3> DEFINE exact == {i \in DOMAIN response.items : response.items[i].exact}
               both == {i \in exact : response.items[i].qualified}
               at == IF response.qualifier /\ Single(both) THEN both ELSE exact
    <3>1. at \subseteq DOMAIN items
      OBVIOUS
    <3>2. SelectRegion(response) = TheOnly(items, at)
      BY DEF SelectRegion
    <3> HIDE DEF at
    <3> QED
      BY <2>2, <3>1, <3>2
  <2> QED
    BY <1>1, <1>3, <2>3, <2>4
<1> QED
  BY <1>2, <1>3

\* What a lookup may lead to.
Onward(s) == CASE s = "coverage" -> {"city", "search"}
               [] s = "city"     -> {"rubrics", "search"}
               [] s = "rubrics"  -> {"search"}

LEMMA WhatFollows ==
    ASSUME NEW n, NEW s \in Lookups, NEW r, NEW answer
    PROVE  LET next == After(n, s, r, answer) IN
           /\ next.stage \in {"done"} \cup Onward(s)
           /\ next.result \in Results
           /\ next.stage # "done" => next.result = "none"
           /\ next.stage # "done" /\ s = "coverage" =>
                answer \notin {Ambiguous, NotCovered, Nothing}
<1>1. \A x \in {"ambiguous", "rating_error", "not_covered", "nothing"} :
        Ends(x).stage = "done" /\ Ends(x).result = x
  BY DEF Ends
<1>2. \A x : GoesOn(x).stage = x /\ GoesOn(x).result = "none"
  BY DEF GoesOn
<1>3. \A x \in {"not_covered", "nothing"} :
        Uncovered(n, x).stage = "done" /\ Uncovered(n, x).result \in {"rating_error", x}
  BY <1>1 DEF Uncovered
<1>4. CASE s = "coverage"
  BY <1>1, <1>2, <1>3, <1>4 DEF After, Onward, Results
<1>5. CASE s = "city"
  BY <1>1, <1>2, <1>3, <1>5 DEF After, AfterCity, Onward, Results
<1>6. CASE s = "rubrics"
  BY <1>1, <1>2, <1>6 DEF After, Onward, Results
<1> QED
  BY <1>4, <1>5, <1>6 DEF Lookups

\* A call that is alone: one lookup after the other.
LEMMA AloneByLookups ==
    ASSUME NEW n
    PROVE  LET first == Outcome(n, "coverage")
               second == Outcome(n, "city")
               third == Outcome(n, "rubrics")
           IN /\ first.stage = "done" => Alone(n) = first.result
              /\ first.stage = "search" => Alone(n) = "searched"
              /\ first.stage = "city" /\ second.stage = "done" => Alone(n) = second.result
              /\ first.stage = "city" /\ second.stage = "search" => Alone(n) = "searched"
              /\ first.stage = "city" /\ second.stage = "rubrics" =>
                   /\ third.stage = "done" => Alone(n) = third.result
                   /\ third.stage = "search" => Alone(n) = "searched"
<1> DEFINE covering == Answer(KeyOf(n, "coverage", Nothing))
           Ask(s, r) == After(n, s, r, Answer(KeyOf(n, s, r)))
           first == Ask("coverage", Nothing)
           second == IF first.stage = "city" THEN Ask("city", covering) ELSE first
           third == IF second.stage = "rubrics" THEN Ask("rubrics", covering) ELSE second
<1>1. Alone(n) = IF third.stage = "search" THEN "searched" ELSE third.result
  BY DEF Alone
<1>2. Outcome(n, "coverage") = first
  BY DEF Outcome, KeyOf, After
<1>3. Outcome(n, "city") = Ask("city", covering) /\ Outcome(n, "rubrics") = Ask("rubrics", covering)
  BY DEF Outcome, Covering
<1> HIDE DEF covering, Ask
<1> QED
  BY <1>1, <1>2, <1>3

LEMMA CallsAsk ==
    ASSUME Types, Ways, NEW c \in Calls, stage[c] \in Lookups
    PROVE  /\ KeyAt(c) \in Key
           /\ After(need[c], stage[c], region[c], Answer(KeyAt(c))) = Outcome(need[c], stage[c])
<1>1. need[c].scope \in Scopes
  BY NeedsAreNeeds DEF Types, Need
<1>2. CASE stage[c] = "coverage"
  BY <1>1, <1>2 DEF KeyAt, KeyOf, Key, Outcome, After
<1>3. CASE stage[c] \in {"city", "rubrics"}
  <2>1. region[c] = Covering(need[c]) /\ region[c] \in Regions
    BY <1>3 DEF Ways, OnItsWay
  <2>2. KeyAt(c) \in Key
    BY <1>1, <1>3, <2>1 DEF KeyAt, KeyOf, Key
  <2> QED
    BY <2>1, <2>2 DEF KeyAt, Outcome
<1> QED
  BY <1>2, <1>3 DEF Lookups

\* The service does not change its answers.
LEMMA AnswersStay ==
    ASSUME service' = service
    PROVE  /\ \A k : Answer(k)' = Answer(k)
           /\ \A n : Covering(n)' = Covering(n) /\ Alone(n)' = Alone(n)
           /\ \A n, s : Outcome(n, s)' = Outcome(n, s)
<1>1. ASSUME NEW k PROVE Answer(k)' = Answer(k)
  BY DEF Answer
<1>2. ASSUME NEW n PROVE Covering(n)' = Covering(n)
  BY <1>1 DEF Covering
<1>3. ASSUME NEW n, NEW s PROVE Outcome(n, s)' = Outcome(n, s)
  BY <1>1, <1>2 DEF Outcome
<1>4. ASSUME NEW n PROVE Alone(n)' = Alone(n)
  BY <1>1 DEF Alone
<1> QED
  BY <1>1, <1>2, <1>3, <1>4

------------------------------------------------------------------------------
(* The steps.                                                               *)

LEMMA InitHolds == Init => IInv
<1> SUFFICES ASSUME Init PROVE IInv
  OBVIOUS
<1> USE DEF Init
<1>1. Types
  BY DEF Types, Stages, Results
<1>2. Queueing
  BY DEF Queueing, Standing, Once
<1>3. Remembers /\ Ways /\ Asking /\ SharingIsInvisible
  BY DEF Remembers, Ways, OnItsWay, Asking, SharingIsInvisible
<1> QED
  BY <1>1, <1>2, <1>3 DEF IInv

\* Of the calls only c makes the step.
Moves(c) ==
  /\ service' = service /\ need' = need
  /\ \A d \in Calls \ {c} : /\ stage'[d] = stage[d] /\ region'[d] = region[d]
                            /\ phase'[d] = phase[d] /\ result'[d] = result[d]

LEMMA OthersAsk ==
    ASSUME NEW c \in Calls, Moves(c)
    PROVE  \A d \in Calls \ {c} : KeyAt(d)' = KeyAt(d)
BY DEF Moves, KeyAt, KeyOf

\* Their way and their result are not touched.
LEMMA OthersGoOn ==
    ASSUME Ways, SharingIsInvisible, NEW c \in Calls, Moves(c), OnItsWay(c)',
           \/ result'[c] \in {"none", "error", "cancelled", Alone(need[c])}
           \/ result'[c] = "rating_error" /\ need[c].kind = "near" /\ need[c].rating
    PROVE  Ways' /\ SharingIsInvisible'
<1>1. ASSUME NEW d \in Calls \ {c} PROVE OnItsWay(d)'
  BY <1>1, AnswersStay DEF Ways, OnItsWay, Moves
<1>2. \A d \in Calls : Alone(need[d])' = Alone(need[d])
  BY AnswersStay DEF Moves
<1> QED
  BY <1>1, <1>2 DEF Ways, SharingIsInvisible, Moves

\* A call that has queued nowhere, or leaves where it has.
LEMMA CallLeaves ==
    ASSUME Types, Queueing, NEW c \in Calls, Moves(c), phase'[c] = "looking",
           \A k \in Key : queue'[k] \in Seq(Calls) /\ Leaves(queue[k], queue'[k], c)
    PROVE  Queueing'
<1>1. \A d \in Calls \ {c} : KeyAt(d)' = KeyAt(d)
  BY OthersAsk
<1>2. ASSUME NEW d \in Calls, phase'[d] # "looking" PROVE stage'[d] \in Lookups
  BY <1>2 DEF Queueing, Moves
<1>3. ASSUME NEW k \in Key, NEW d \in Calls
      PROVE  Standing(queue'[k], d) # {} <=> phase'[d] # "looking" /\ KeyAt(d)' = k
  BY <1>1 DEF Queueing, Moves, Leaves
<1> QED
  BY <1>2, <1>3 DEF Queueing, Leaves, Standing

LEMMA Unqueued ==
    ASSUME Types, Queueing, NEW c \in Calls, phase[c] = "looking", NEW k \in Key
    PROVE  queue[k] \in Seq(Calls) /\ Leaves(queue[k], queue[k], c)
BY DEF Types, Queueing, Leaves

\* Who holds the lock at its key, and releases it.
LEMMA HolderLeaves ==
    ASSUME Types, Queueing, NEW c \in Calls, phase[c] # "looking", KeyAt(c) \in Key,
           Head(queue[KeyAt(c)]) = c, Release(KeyAt(c))
    PROVE  queue' \in [Key -> Seq(Calls)] /\ \A k \in Key : Leaves(queue[k], queue'[k], c)
<1> DEFINE q == queue[KeyAt(c)]
<1>1. q \in Seq(Calls) /\ Once(q) /\ q # <<>>
  BY DEF Types, Queueing, Standing
<1>2. Tail(q) \in Seq(Calls) /\ Leaves(q, Tail(q), c)
  BY <1>1, TailLeaves
<1>3. queue' = [queue EXCEPT ![KeyAt(c)] = Tail(q)]
  BY DEF Release
<1>4. ASSUME NEW k \in Key, k # KeyAt(c) PROVE Leaves(queue[k], queue[k], c)
  BY <1>4 DEF Queueing, Leaves
<1> HIDE DEF q
<1>5. queue' \in [Key -> Seq(Calls)]
  BY <1>2, <1>3 DEF Types
<1> QED
  BY <1>2, <1>3, <1>4, <1>5 DEF q, Types

\* The others that ask go on asking: their key has not become known.
LEMMA OthersKeepAsking ==
    ASSUME Types, Asking, Queueing, NEW c \in Calls, Moves(c), phase'[c] # "asking",
           \A k \in Key : Leaves(queue[k], queue'[k], c) \/ Head(queue'[k]) = Head(queue[k]),
           \A k \in Key : cache'[k] = cache[k] \/ Head(queue[k]) = c,
           \A d \in Calls : phase[d] = "asking" => KeyAt(d) \in Key
    PROVE  Asking'
<1> SUFFICES ASSUME NEW d \in Calls, phase'[d] = "asking"
             PROVE  ~Known(KeyAt(d))' /\ Head(queue[KeyAt(d)])' = d
  BY DEF Asking
<1>1. d # c /\ phase[d] = "asking" /\ KeyAt(d)' = KeyAt(d)
  BY OthersAsk DEF Moves
<1>2. Head(queue[KeyAt(d)]) = d /\ ~Known(KeyAt(d)) /\ KeyAt(d) \in Key
  BY <1>1 DEF Asking
<1>3. queue[KeyAt(d)] # <<>>
  BY <1>1, <1>2 DEF Queueing, Standing
<1>4. Head(queue'[KeyAt(d)]) = d
  BY <1>1, <1>2, <1>3 DEF Leaves
<1>5. cache'[KeyAt(d)] = cache[KeyAt(d)]
  BY <1>1, <1>2
<1> QED
  BY <1>1, <1>2, <1>4, <1>5 DEF Known

Moved ==
  /\ stage' \in [Calls -> Stages] /\ phase' \in [Calls -> {"looking", "queued", "asking"}]
  /\ region' \in [Calls -> Regions \cup {Nothing}] /\ result' \in [Calls -> Results]

\* A call goes on with the service's answer, whoever asked for it.
LEMMA AnswerIsUsed ==
    ASSUME Types, Ways, SharingIsInvisible, NEW c \in Calls, stage[c] \in Lookups,
           Use(c, Answer(KeyAt(c))), service' = service, need' = need
    PROVE  Moves(c) /\ phase'[c] = "looking" /\ Moved /\ Ways' /\ SharingIsInvisible'
<1> DEFINE answer == Answer(KeyAt(c))
           next == After(need[c], stage[c], region[c], answer)
<1>1. /\ stage' = [stage EXCEPT ![c] = next.stage] /\ result' = [result EXCEPT ![c] = next.result]
      /\ phase' = [phase EXCEPT ![c] = "looking"]
      /\ region' = IF stage[c] = "coverage" /\ next.stage # "done"
                   THEN [region EXCEPT ![c] = answer] ELSE region
  BY DEF Use
<1>2. next = Outcome(need[c], stage[c]) /\ need[c].scope \in Scopes
  BY CallsAsk, NeedsAreNeeds DEF Types, Need
<1>3. /\ next.stage \in {"done"} \cup Onward(stage[c]) /\ next.result \in Results
      /\ next.stage # "done" => next.result = "none"
      /\ next.stage # "done" /\ stage[c] = "coverage" =>
           answer \notin {Ambiguous, NotCovered, Nothing}
  BY WhatFollows
<1>4. stage[c] = "coverage" => answer = Covering(need[c])
  BY DEF KeyAt, KeyOf, Covering
<1>5. stage[c] = "coverage" /\ next.stage # "done" => answer \in Regions
  BY <1>2, <1>3, CoverageIsRegion DEF Types, KeyAt, KeyOf
<1>6. next.stage \in {"done", "city", "rubrics", "search"}
  BY <1>3 DEF Onward, Lookups
<1> HIDE DEF next, answer
<1>7. Moved
  BY <1>1, <1>3, <1>5, <1>6 DEF Moved, Types, Stages
<1>8. Moves(c) /\ phase'[c] = "looking"
  BY <1>1 DEF Moves, Types
<1>9. stage'[c] = next.stage /\ result'[c] = next.result
  BY <1>1 DEF Types
<1>10. stage[c] # "coverage" => /\ region'[c] = Covering(need[c]) /\ region[c] \in Regions
                                /\ Outcome(need[c], "coverage").stage = "city"
                                /\ region'[c] = region[c]
  BY <1>1 DEF Ways, OnItsWay, Lookups
<1>11. stage[c] = "coverage" /\ next.stage # "done" =>
         region'[c] = Covering(need[c]) /\ region'[c] \in Regions
  BY <1>1, <1>4, <1>5 DEF Types
<1>12. stage[c] = "rubrics" => Outcome(need[c], "city").stage = "rubrics"
  BY DEF Ways, OnItsWay
<1>13. /\ next.stage = "done" => Alone(need[c]) = next.result
       /\ next.stage = "search" => Alone(need[c]) = "searched"
  <2>1. CASE stage[c] = "coverage"
    BY <2>1, <1>2, AloneByLookups
  <2>2. CASE stage[c] = "city"
    BY <2>2, <1>2, <1>10, AloneByLookups
  <2>3. CASE stage[c] = "rubrics"
    BY <2>3, <1>2, <1>10, <1>12, AloneByLookups
  <2> QED
    BY <2>1, <2>2, <2>3 DEF Lookups
<1>14. OnItsWay(c)'
  <2>1. /\ need'[c] = need[c]
        /\ Covering(need[c])' = Covering(need[c]) /\ Alone(need[c])' = Alone(need[c])
        /\ \A s : Outcome(need[c], s)' = Outcome(need[c], s)
    BY AnswersStay
  <2>2. stage'[c] = "city" => stage[c] = "coverage" /\ Outcome(need[c], "coverage").stage = "city"
    BY <1>2, <1>3, <1>9 DEF Onward, Lookups
  <2>3. stage'[c] = "rubrics" => stage[c] = "city" /\ Outcome(need[c], "city").stage = "rubrics"
    BY <1>2, <1>3, <1>9 DEF Onward, Lookups
  <2> QED
    BY <2>1, <2>2, <2>3, <1>3, <1>9, <1>10, <1>11, <1>13 DEF OnItsWay
<1>15. result'[c] \in {"none", Alone(need[c])}
  BY <1>3, <1>9, <1>13
<1> QED
  BY <1>7, <1>8, <1>14, <1>15, OthersGoOn

LEMMA StandingsAreKeys ==
    ASSUME Types, Ways, Queueing
    PROVE  \A d \in Calls : phase[d] = "asking" => KeyAt(d) \in Key
BY CallsAsk DEF Queueing

LEMMA CachedIsAnswer ==
    ASSUME Remembers, NEW k \in Key, Known(k)
    PROVE  Cached(k) = Answer(k)
BY DEF Remembers, Known, Cached, Unknown

LEMMA MemoryStays ==
    ASSUME Types, Remembers, service' = service, cache' = cache
    PROVE  Remembers' /\ cache' = [k \in Key |-> cache'[k]]
BY AnswersStay DEF Remembers, Types

LEMMA BeginStep == ASSUME IInv, NEW c \in Calls, Begin(c) PROVE IInv'
<1> USE DEF IInv
<1>1. /\ stage[c] = "idle" /\ stage'[c] \in {"coverage", "done"}
      /\ phase' = phase /\ region' = region
      /\ service' = service /\ need' = need /\ cache' = cache /\ queue' = queue
      /\ stage' \in [Calls -> Stages] /\ result' \in [Calls -> Results]
      /\ \A d \in Calls \ {c} : stage'[d] = stage[d] /\ result'[d] = result[d]
      /\ \/ result'[c] = "none" /\ stage'[c] = "coverage"
         \/ /\ result'[c] = "rating_error" /\ stage'[c] = "done"
            /\ need[c].kind = "near" /\ need[c].rating
  <2>1. stage[c] = "idle" /\ result[c] = "none"
    BY DEF Begin, Ways, OnItsWay
  <2>2. CASE stage' = [stage EXCEPT ![c] = "coverage"] /\ result' = result
    BY <2>1, <2>2 DEF Begin, Types, Stages
  <2>3. CASE /\ need[c].kind = "near" /\ need[c].rating
             /\ stage' = [stage EXCEPT ![c] = "done"]
             /\ result' = [result EXCEPT ![c] = "rating_error"]
    BY <2>1, <2>3 DEF Begin, Types, Stages, Results
  <2> QED
    BY <2>2, <2>3 DEF Begin
<1>2. Moves(c)
  BY <1>1 DEF Moves
<1>3. phase[c] = "looking"
  BY <1>1 DEF Queueing, Lookups, Types
<1>4. Remembers' /\ Types'
  BY <1>1, MemoryStays DEF Types
<1>5. Queueing'
  BY <1>1, <1>2, <1>3, Unqueued, CallLeaves
<1>6. Asking'
  BY <1>1, <1>2, <1>3, StandingsAreKeys, OthersKeepAsking
<1>7. OnItsWay(c)'
  BY <1>1 DEF OnItsWay
<1>8. Ways' /\ SharingIsInvisible'
  BY <1>1, <1>2, <1>7, OthersGoOn
<1> QED
  BY <1>4, <1>5, <1>6, <1>8

LEMMA UseKnownStep ==
    ASSUME IInv, NEW c \in Calls, stage[c] \in Lookups, Known(KeyAt(c)), Use(c, Cached(KeyAt(c))),
           UNCHANGED <<service, cache, need>>, queue' \in [Key -> Seq(Calls)],
           \A k \in Key : Leaves(queue[k], queue'[k], c)
    PROVE  IInv'
<1> USE DEF IInv
<1>1. KeyAt(c) \in Key
  BY CallsAsk
<1>2. Use(c, Answer(KeyAt(c)))
  BY <1>1, CachedIsAnswer
<1>3. Moves(c) /\ phase'[c] = "looking" /\ Moved /\ Ways' /\ SharingIsInvisible'
  BY <1>2, AnswerIsUsed
<1>4. Remembers' /\ Types'
  BY <1>3, MemoryStays DEF Types, Moved
<1>5. Queueing'
  BY <1>3, CallLeaves
<1>6. Asking'
  BY <1>3, StandingsAreKeys, OthersKeepAsking
<1> QED
  BY <1>3, <1>4, <1>5, <1>6

LEMMA LookStep == ASSUME IInv, NEW c \in Calls, Look(c) PROVE IInv'
<1> USE DEF IInv
<1> DEFINE k == KeyAt(c)
           q == queue[k]
<1>1. stage[c] \in Lookups /\ phase[c] = "looking" /\ UNCHANGED <<service, cache, need>>
  BY DEF Look
<1>2. k \in Key
  BY <1>1, CallsAsk
<1>3. CASE Known(k)
  <2>1. Use(c, Cached(k)) /\ queue' = queue
    BY <1>3 DEF Look
  <2> QED
    BY <1>1, <1>3, <2>1, Unqueued, UseKnownStep DEF Types
<1>4. CASE ~Known(k)
  <2>1. /\ queue' = [queue EXCEPT ![k] = Append(q, c)]
        /\ phase' = [phase EXCEPT ![c] = IF q = <<>> THEN "asking" ELSE "queued"]
        /\ stage' = stage /\ region' = region /\ result' = result
    BY <1>4 DEF Look, Stays
  <2>2. Moves(c)
    BY <1>1, <2>1 DEF Moves, Types
  <2>3. q \in Seq(Calls) /\ Once(q) /\ Standing(q, c) = {}
    BY <1>1, <1>2 DEF Types, Queueing
  <2>4. /\ Once(Append(q, c)) /\ Append(q, c) \in Seq(Calls)
        /\ \A d \in Calls : Standing(Append(q, c), d) # {} <=> Standing(q, d) # {} \/ d = c
        /\ Head(Append(q, c)) = IF q = <<>> THEN c ELSE Head(q)
    BY <2>3, AppendJoins
  <2>5. \A d \in Calls : KeyAt(d)' = KeyAt(d)
    BY <1>1, <2>1 DEF KeyAt, KeyOf
  <2> HIDE DEF k
  <2>6. /\ queue' \in [Key -> Seq(Calls)] /\ queue'[k] = Append(q, c)
        /\ \A x \in Key \ {k} : queue'[x] = queue[x]
    BY <1>2, <2>1, <2>4 DEF Types
  <2>7. /\ phase' \in [Calls -> {"looking", "queued", "asking"}]
        /\ phase'[c] \in {"asking", "queued"}
        /\ phase'[c] = "asking" => q = <<>>
        /\ \A d \in Calls \ {c} : phase'[d] = phase[d]
    BY <2>1 DEF Types
  <2>8. Types' /\ Remembers'
    BY <1>1, <2>1, <2>6, <2>7, MemoryStays DEF Types
  <2>9. Ways' /\ SharingIsInvisible'
    <3>1. OnItsWay(c)'
      BY <1>1, <2>1, AnswersStay DEF Ways, OnItsWay
    <3> QED
      BY <2>1, <2>2, <3>1, OthersGoOn DEF SharingIsInvisible
  <2>10. Queueing'
    <3>1. ASSUME NEW d \in Calls, phase'[d] # "looking" PROVE stage'[d] \in Lookups
      BY <1>1, <2>1, <2>7, <3>1 DEF Queueing
    <3>2. ASSUME NEW x \in Key, NEW d \in Calls
          PROVE  Standing(queue'[x], d) # {} <=> phase'[d] # "looking" /\ KeyAt(d)' = x
      <4>1. Standing(queue[x], d) # {} <=> phase[d] # "looking" /\ KeyAt(d) = x
        BY DEF Queueing
      <4>2. CASE d = c
        BY <4>1, <4>2, <1>1, <2>4, <2>5, <2>6, <2>7 DEF k
      <4>3. CASE d # c
        BY <4>1, <4>3, <2>4, <2>5, <2>6, <2>7
      <4> QED
        BY <4>2, <4>3
    <3>3. ASSUME NEW x \in Key PROVE Once(queue'[x])
      BY <2>4, <2>6 DEF Queueing
    <3> QED
      BY <3>1, <3>2, <3>3 DEF Queueing, Standing, Once
  <2>11. Asking'
    <3> SUFFICES ASSUME NEW d \in Calls, phase'[d] = "asking"
                 PROVE  ~Known(KeyAt(d))' /\ Head(queue'[KeyAt(d)]) = d
      BY <2>5 DEF Asking
    <3>1. CASE d = c
      BY <3>1, <1>1, <1>4, <2>4, <2>5, <2>6, <2>7 DEF k, Known
    <3>2. CASE d # c
      <4>1. phase[d] = "asking" /\ ~Known(KeyAt(d)) /\ Head(queue[KeyAt(d)]) = d /\ KeyAt(d) \in Key
        BY <3>2, <2>7, StandingsAreKeys DEF Asking
      <4>2. queue[KeyAt(d)] # <<>>
        BY <4>1 DEF Queueing, Standing
      <4>3. Head(queue'[KeyAt(d)]) = d
        BY <4>1, <4>2, <2>4, <2>6
      <4> QED
        BY <4>1, <4>3, <1>1, <2>5 DEF Known
    <3> QED
      BY <3>1, <3>2
  <2> QED
    BY <2>8, <2>9, <2>10, <2>11
<1> QED
  BY <1>3, <1>4

LEMMA WakeStep == ASSUME IInv, NEW c \in Calls, Wake(c) PROVE IInv'
<1> USE DEF IInv
<1>1. /\ stage[c] \in Lookups /\ phase[c] = "queued" /\ Head(queue[KeyAt(c)]) = c
      /\ UNCHANGED <<service, cache, need>>
  BY DEF Wake
<1>2. KeyAt(c) \in Key
  BY <1>1, CallsAsk
<1>3. CASE Known(KeyAt(c))
  <2>1. Use(c, Cached(KeyAt(c))) /\ Release(KeyAt(c))
    BY <1>3 DEF Wake, KnownToHolder
  <2>2. queue' \in [Key -> Seq(Calls)] /\ \A k \in Key : Leaves(queue[k], queue'[k], c)
    BY <1>1, <1>2, <2>1, HolderLeaves
  <2> QED
    BY <1>1, <1>3, <2>1, <2>2, UseKnownStep
<1>4. CASE ~Known(KeyAt(c))
  <2>1. /\ phase' = [phase EXCEPT ![c] = "asking"] /\ queue' = queue
        /\ stage' = stage /\ region' = region /\ result' = result
    BY <1>4 DEF Wake, KnownToHolder, Stays
  <2>2. Moves(c)
    BY <1>1, <2>1 DEF Moves, Types
  <2>3. \A d \in Calls : KeyAt(d)' = KeyAt(d)
    BY <1>1, <2>1 DEF KeyAt, KeyOf
  <2>4. Types' /\ Remembers'
    BY <1>1, <2>1, MemoryStays DEF Types
  <2>5. Ways' /\ SharingIsInvisible'
    <3>1. OnItsWay(c)'
      BY <1>1, <2>1, AnswersStay DEF Ways, OnItsWay
    <3> QED
      BY <2>1, <2>2, <3>1, OthersGoOn DEF SharingIsInvisible
  <2>6. /\ phase'[c] = "asking" /\ \A d \in Calls \ {c} : phase'[d] = phase[d]
    BY <2>1 DEF Types
  <2>7. Queueing'
    BY <1>1, <2>1, <2>3, <2>6 DEF Queueing, Standing, Once
  <2>8. Asking'
    BY <1>1, <1>4, <2>1, <2>3, <2>6 DEF Asking, Known
  <2> QED
    BY <2>4, <2>5, <2>7, <2>8
<1> QED
  BY <1>3, <1>4

\* The holder of a lock is the only one to ask for its key.
LEMMA HolderAsks ==
    ASSUME IInv, NEW c \in Calls, stage[c] \in Lookups, phase[c] = "asking"
    PROVE  KeyAt(c) \in Key /\ Head(queue[KeyAt(c)]) = c /\ phase[c] # "looking"
BY CallsAsk DEF IInv, Asking

LEMMA RepliedStep == ASSUME IInv, NEW c \in Calls, Replied(c) PROVE IInv'
<1> USE DEF IInv
<1> DEFINE k == KeyAt(c)
<1>1. /\ stage[c] \in Lookups /\ phase[c] = "asking" /\ UNCHANGED <<service, need>>
      /\ cache' = Remembered(k, Answer(k)) /\ Use(c, Answer(k)) /\ Release(k)
  BY DEF Replied
<1>2. k \in Key /\ Head(queue[k]) = c /\ phase[c] # "looking"
  BY <1>1, HolderAsks
<1>3. Moves(c) /\ phase'[c] = "looking" /\ Moved /\ Ways' /\ SharingIsInvisible'
  BY <1>1, AnswerIsUsed
<1>4. queue' \in [Key -> Seq(Calls)] /\ \A x \in Key : Leaves(queue[x], queue'[x], c)
  BY <1>1, <1>2, HolderLeaves
<1>5. /\ cache' = [x \in Key |-> cache'[x]] /\ cache'[k] \in {cache[k], {Answer(k)}}
      /\ \A x \in Key \ {k} : cache'[x] = cache[x]
  <2> HIDE DEF k
  <2> QED
    BY <1>1, <1>2 DEF Remembered, Types
<1>6. Types'
  BY <1>1, <1>3, <1>4, <1>5 DEF Types, Moved
<1>7. Remembers'
  BY <1>1, <1>2, <1>5, AnswersStay DEF Remembers
<1>8. Queueing'
  BY <1>3, <1>4, CallLeaves
<1>9. Asking'
  BY <1>2, <1>3, <1>4, <1>5, StandingsAreKeys, OthersKeepAsking
<1> QED
  BY <1>3, <1>6, <1>7, <1>8, <1>9

\* A call ends with an error, cancelled, or with its search, at whatever it was.
LEMMA EndStep ==
    ASSUME IInv, NEW c \in Calls, UNCHANGED <<service, need, cache, region>>,
           stage' = [stage EXCEPT ![c] = "done"], phase' = [phase EXCEPT ![c] = "looking"],
           NEW r \in {"error", "cancelled", Alone(need[c])}, r \in Results,
           result' = [result EXCEPT ![c] = r],
           queue' \in [Key -> Seq(Calls)], \A k \in Key : Leaves(queue[k], queue'[k], c)
    PROVE  IInv'
<1> USE DEF IInv
<1>1. /\ Moves(c) /\ phase'[c] = "looking" /\ stage'[c] = "done" /\ result'[c] = r
  BY DEF Moves, Types
<1>2. Types' /\ Remembers'
  BY MemoryStays DEF Types, Stages
<1>3. Ways' /\ SharingIsInvisible'
  <2>1. OnItsWay(c)'
    BY <1>1 DEF OnItsWay
  <2> QED
    BY <1>1, <2>1, OthersGoOn
<1>4. Queueing'
  BY <1>1, CallLeaves
<1>5. Asking'
  BY <1>1, StandingsAreKeys, OthersKeepAsking
<1> QED
  BY <1>2, <1>3, <1>4, <1>5

LEMMA FailureStep == ASSUME IInv, NEW c \in Calls, RequestFails(c) PROVE IInv'
<1>1. KeyAt(c) \in Key /\ Head(queue[KeyAt(c)]) = c /\ phase[c] # "looking"
  BY HolderAsks DEF RequestFails
<1>2. queue' \in [Key -> Seq(Calls)] /\ \A x \in Key : Leaves(queue[x], queue'[x], c)
  BY <1>1, HolderLeaves DEF RequestFails, IInv
<1> QED
  BY <1>2, EndStep DEF RequestFails, AfterFailure, Results

LEMMA SearchStep == ASSUME IInv, NEW c \in Calls, Search(c) PROVE IInv'
<1>1. phase[c] = "looking" /\ Alone(need[c]) = "searched"
  BY DEF Search, IInv, Queueing, Lookups, Ways, OnItsWay
<1>2. queue' \in [Key -> Seq(Calls)] /\ \A x \in Key : Leaves(queue[x], queue'[x], c)
  BY <1>1, Unqueued DEF IInv, Types, Search
<1>3. phase' = [phase EXCEPT ![c] = "looking"]
  BY <1>1 DEF Search, IInv, Types
<1>4. PICK r \in {"searched", "error"} : result' = [result EXCEPT ![c] = r]
  BY DEF Search
<1> QED
  BY <1>1, <1>2, <1>3, <1>4, EndStep DEF Search, Results

LEMMA CancelStep == ASSUME IInv, NEW c \in Calls, Cancel(c) PROVE IInv'
<1>1. ASSUME NEW k \in Key
      PROVE  queue'[k] = Without(queue[k], c) /\ Without(queue[k], c) \in Seq(Calls)
             /\ Leaves(queue[k], Without(queue[k], c), c)
  BY WithoutLeaves DEF IInv, Types, Queueing, Cancel
<1>2. queue' \in [Key -> Seq(Calls)] /\ \A x \in Key : Leaves(queue[x], queue'[x], c)
  BY <1>1 DEF Cancel
<1> QED
  BY <1>2, EndStep DEF Cancel, Results

LEMMA StepHolds == IInv /\ [Next]_vars => IInv'
<1> SUFFICES ASSUME IInv, [Next]_vars PROVE IInv'
  OBVIOUS
<1>1. CASE UNCHANGED vars
  <2>1. Remembers' /\ Ways' /\ SharingIsInvisible'
    BY <1>1, AnswersStay DEF vars, IInv, Remembers, Ways, OnItsWay, SharingIsInvisible
  <2>2. \A c \in Calls : KeyAt(c)' = KeyAt(c)
    BY <1>1 DEF vars, KeyAt, KeyOf
  <2>3. Types'
    BY <1>1 DEF vars, IInv, Types
  <2>4. Queueing'
    BY <1>1, <2>2 DEF vars, IInv, Queueing, Standing, Once
  <2>5. Asking'
    BY <1>1, <2>2 DEF vars, IInv, Asking, Known
  <2> QED
    BY <2>1, <2>3, <2>4, <2>5 DEF IInv
<1>2. ASSUME NEW c \in Calls, Begin(c) \/ Proceed(c) \/ Cancel(c) PROVE IInv'
  BY <1>2, BeginStep, LookStep, WakeStep, RepliedStep, FailureStep, SearchStep, CancelStep
  DEF Proceed
<1> QED
  BY <1>1, <1>2 DEF Next, AllDone

\* The holder of a lock is one call, and it stands first in one queue.
LEMMA InvariantExcludes == IInv => AskedOnlyWhileUnknown
<1> SUFFICES ASSUME IInv, NEW c \in Calls, phase[c] = "asking"
             PROVE  /\ ~Known(KeyAt(c)) /\ Head(queue[KeyAt(c)]) = c
                    /\ \A d \in Calls \ {c} : phase[d] = "asking" => KeyAt(d) # KeyAt(c)
  BY DEF AskedOnlyWhileUnknown
<1> QED
  BY DEF IInv, Asking

LEMMA Invariance == Spec => []IInv
<1>1. Init => IInv
  BY InitHolds
<1>2. IInv /\ [Next]_vars => IInv'
  BY StepHolds
<1> QED
  BY <1>1, <1>2, PTL DEF Spec

\* However many calls wait at a lock, are cancelled there or fail with it in hand: a key is asked
\* for by its holder alone, and not when the second look finds the answer (client.py, find_region).
THEOREM AskedOnlyWhileUnknownAlways == Spec => []AskedOnlyWhileUnknown
BY Invariance, InvariantExcludes, PTL

\* What a call gets is what it would get alone, or its own failure or cancellation: nobody else's
\* failure becomes an answer, and no answer of another key is used (client.py, find_rubrics).
THEOREM SharingIsInvisibleAlways == Spec => []SharingIsInvisible
<1>1. IInv => SharingIsInvisible
  BY DEF IInv
<1> QED
  BY <1>1, Invariance, PTL
=============================================================================
