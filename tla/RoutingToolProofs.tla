------------------------- MODULE RoutingToolProofs -------------------------
(***************************************************************************)
(* For any chain of providers, any requests, any number of concurrent      *)
(* calls and any limits: an answer comes from the first provider able to   *)
(* give one, a refusal is never covered up, the warnings and the metrics   *)
(* of a result tell what happened, and walking requests are paced.         *)
(*                                                                         *)
(* CallInv is the inductive invariant of each call: what is asked of whom  *)
(* (Asked), that each provider passed over failed or could not serve the   *)
(* request (PathTaken), where a refusal leaves the call (RefusalHeard),    *)
(* what the collected warnings say (StoryTold) and what the merged metrics *)
(* count (Metrics). OneWalker is the lock of OSRM's client, which is all   *)
(* that ties the calls to each other.                                      *)
(***************************************************************************)
EXTENDS RoutingTool, FiniteSetTheorems, TLAPS

Phases == {"new", "resolving", "attempting", "done"}
Tasks == 1..MaxTasks

Kinds == {"static times", "failed", "timed out"}
Notes == ({"ambiguous"} \X Tasks) \cup (Kinds \X Names)
Results == [how : {"none", "invalid", "error", "crash", "deadline", "ok"},
            metrics : SUBSET (Stages \X Tasks), warnings : SUBSET Notes]
TaskTypes == task \in [Calls -> [Stages -> [Tasks -> TaskStates]]]
Types ==
  /\ TaskTypes
  /\ request \in [Calls -> Requests]
  /\ phase \in [Calls -> Phases]
  /\ at \in [Calls -> Stages]
  /\ raised \in [Calls -> {"nothing", "error", "failed", "timed out"}]
  /\ merged \in [Calls -> SUBSET (Stages \X Tasks)]
  /\ warnings \in [Calls -> SUBSET Notes]
  /\ result \in [Calls -> Results]
  /\ cooling \in BOOLEAN

\* Nothing of a stage has been asked for; all of it succeeded; some of it failed.
Untouched(c, i) == \A k \in Tasks : task[c][i][k] = "none"
Complete(c, i) == In(c, i, {"ok"}) = Wanted(Chain[i], request[c])
Broken(c, i) == In(c, i, {"failed", "refused"}) # {}

\* What is asked of whom, and when.
Asked(c) ==
  /\ phase[c] \in {"new", "resolving"} => at[c] = 0
  /\ phase[c] = "new" => Untouched(c, 0)
  /\ phase[c] = "attempting" => at[c] > 0
  /\ phase[c] \in {"resolving", "attempting"} => Valid(request[c])
  /\ phase[c] = "done" <=> result[c].how # "none"
  /\ In(c, 0, TaskStates \ {"none"}) \subseteq 1..request[c].texts
  /\ phase[c] = "attempting" \/ result[c].how = "ok" => In(c, 0, {"ok"}) = 1..request[c].texts
  /\ \A i \in Stages \ {0} : In(c, i, TaskStates \ {"none"}) \subseteq Wanted(Chain[i], request[c])
  /\ \A i \in Stages \ {0} : i > at[c] => Untouched(c, i)
  /\ phase[c] = "attempting" /\ ~Untouched(c, at[c]) => Supports(Chain[at[c]], request[c])
  /\ phase[c] \in {"new", "done"} => raised[c] = "nothing"

\* Who was passed over was not able to answer, or did not.
Passed(c, i) == Supports(Chain[i], request[c]) => Broken(c, i) \/ Complete(c, i)
PathTaken(c) ==
  /\ \A j \in Stages \ {0} : j < at[c] => Passed(c, j)
  /\ phase[c] = "resolving" => raised[c] \in {"nothing", "error"}
  /\ phase[c] = "attempting" /\ raised[c] \in {"failed", "timed out"} => Passed(c, at[c])
  /\ result[c].how = "ok" => at[c] > 0 /\ Supports(Chain[at[c]], request[c]) /\ Complete(c, at[c])

\* A provider that is asked one request at a time.
OneByOne(c, i) == AtOnce(Chain[i], request[c]) = {1}
Heard(c, i) ==
  /\ In(c, i, InFlight) # {} =>
       /\ at[c] = i /\ phase[c] = "attempting" /\ raised[c] = "nothing" /\ ~Broken(c, i)
       /\ \A k, n \in In(c, i, InFlight) : k = n
  /\ In(c, i, {"refused"}) # {} =>
       /\ at[c] = i
       /\ \/ phase[c] = "attempting" /\ raised[c] = "error"
          \/ phase[c] = "done" /\ result[c].how # "ok"
RefusalHeard(c) == \A i \in Stages \ {0} : OneByOne(c, i) => Heard(c, i)

\* The warnings of a provider.
Of(p, ws) == {w \in ws : w[1] # "ambiguous" /\ w[2] = p}
StoryTold(c) ==
  /\ phase[c] = "attempting" =>
       \A j \in Stages \ {0} :
         /\ j < at[c] => \E how \in {"failed", "timed out"} : Of(Chain[j], warnings[c]) = {<<how, Chain[j]>>}
         /\ j >= at[c] => Of(Chain[j], warnings[c]) = {}
  /\ phase[c] \in {"new", "resolving"} => \A w \in warnings[c] : w[1] = "ambiguous"
  /\ result[c].how = "ok" =>
       \A j \in Stages \ {0} :
         /\ j < at[c] => \E how \in {"failed", "timed out"} : Of(Chain[j], result[c].warnings) = {<<how, Chain[j]>>}
         /\ j = at[c] => Of(Chain[j], result[c].warnings) = OwnWarnings(Chain[j], request[c])
         /\ j > at[c] => Of(Chain[j], result[c].warnings) = {}

\* What is counted of a stage is the end of it.
Counted(ts, i) == {t \in ts : t[1] = i}
Told(c, i, ts) ==
  \/ Untouched(c, i)
  \/ Counted(ts, i) = {i} \X Wanted(Chain[i], request[c])
  \/ \E k \in In(c, i, {"failed", "refused"}) : <<i, k>> \in ts
Metrics(c) ==
  /\ \A t \in merged[c] : t \in Recorded(c, t[1]) /\ 0 < t[1] /\ (phase[c] # "done" => t[1] < at[c])
  /\ phase[c] = "attempting" => \A j \in Stages \ {0} : j < at[c] => Told(c, j, merged[c])
  /\ phase[c] = "attempting" /\ raised[c] # "nothing" => Untouched(c, at[c]) \/ Complete(c, at[c]) \/ Broken(c, at[c])
  /\ \A t \in result[c].metrics : t \in Recorded(c, t[1])
  /\ result[c].how \in {"ok", "error"} => \A j \in Stages \ {0} : j <= at[c] => Told(c, j, result[c].metrics)
  /\ result[c].how = "ok" => /\ Counted(result[c].metrics, 0) = {0} \X (1..request[c].texts)
                             /\ Counted(result[c].metrics, at[c]) = {at[c]} \X Wanted(Chain[at[c]], request[c])

OneWalker == \A c, d \in WalkingHolders : c = d

CallInv == \A c \in Calls : Asked(c) /\ PathTaken(c) /\ RefusalHeard(c) /\ StoryTold(c) /\ Metrics(c)
IInv == Types /\ CallInv /\ OneWalker

------------------------------------------------------------------------------
(* The chain and the sizes.                                                 *)

Distinct(s) == \A i, j \in DOMAIN s : s[i] = s[j] => i = j

LEMMA OneMore ==
  ASSUME NEW s \in Seq(Names), Distinct(s), NEW p \in Names, \A i \in DOMAIN s : s[i] # p
  PROVE  /\ s \o IfConfigured(p) \in Seq(Names) /\ Distinct(s \o IfConfigured(p))
         /\ \A i \in DOMAIN (s \o IfConfigured(p)) : (s \o IfConfigured(p))[i] = p \/ \E j \in DOMAIN s : (s \o IfConfigured(p))[i] = s[j]
         /\ Len(s) <= Len(s \o IfConfigured(p))
         /\ p \in Configured => Len(s \o IfConfigured(p)) > 0
<1>1. CASE p \in Configured
  <2>1. IfConfigured(p) = <<p>>
    BY <1>1 DEF IfConfigured
  <2> QED
    BY <2>1 DEF Distinct
<1>2. CASE p \notin Configured
  <2>1. IfConfigured(p) = <<>>
    BY <1>2 DEF IfConfigured
  <2>2. s \o <<>> = s
    OBVIOUS
  <2> QED
    BY <1>2, <2>1, <2>2 DEF Distinct
<1> QED
  BY <1>1, <1>2

LEMMA ChainFacts ==
  /\ Chain \in Seq(Names) /\ Distinct(Chain) /\ Last \in Nat /\ Last > 0
<1> DEFINE a == IfConfigured("twogis")
           b == a \o IfConfigured("graphhopper")
           d == b \o IfConfigured("osrm")
           e == d \o IfConfigured("yandex")
<1>0. {"twogis", "graphhopper", "osrm", "yandex"} = Names
  BY DEF Names
<1>1. a \in Seq(Names) /\ Distinct(a) /\ (\A i \in DOMAIN a : a[i] = "twogis") /\ ("twogis" \in Configured => Len(a) > 0)
  BY <1>0 DEF IfConfigured, Distinct
<1> HIDE DEF a
<1>2. b \in Seq(Names) /\ Distinct(b) /\ (\A i \in DOMAIN b : b[i] \in {"twogis", "graphhopper"}) /\ Len(a) <= Len(b) /\ ("graphhopper" \in Configured => Len(b) > 0)
  BY <1>0, <1>1, OneMore
<1> HIDE DEF b
<1>3. d \in Seq(Names) /\ Distinct(d) /\ (\A i \in DOMAIN d : d[i] \in {"twogis", "graphhopper", "osrm"}) /\ Len(b) <= Len(d) /\ ("osrm" \in Configured => Len(d) > 0)
  BY <1>0, <1>2, OneMore
<1> HIDE DEF d
<1>4. e \in Seq(Names) /\ Distinct(e) /\ Len(d) <= Len(e) /\ ("yandex" \in Configured => Len(e) > 0)
  BY <1>0, <1>3, OneMore
<1>5. Chain = e
  BY DEF Chain, a, b, d
<1> HIDE DEF e
<1>6. /\ Len(a) \in Nat /\ Len(b) \in Nat /\ Len(d) \in Nat /\ Len(e) \in Nat
  BY <1>1, <1>2, <1>3, <1>4
<1>7. Len(e) > 0
  BY <1>0, <1>1, <1>2, <1>3, <1>4, <1>6, RoutingConstants
<1> QED
  BY <1>4, <1>5, <1>6, <1>7 DEF Last

LEMMA Sizes ==
  /\ MaxTasks \in Nat \ {0} /\ MaxSize <= MaxTasks /\ TextBudget <= MaxTasks
  /\ Stages = 0..Last /\ Last \in Nat /\ 1 \in Stages
BY RoutingConstants, ChainFacts DEF MaxTasks, Stages

LEMMA InChain ==
  ASSUME NEW i \in Stages \ {0}
  PROVE  i \in 1..Last /\ Chain[i] \in Names
BY ChainFacts, Sizes DEF Last

LEMMA WantedFacts ==
  ASSUME NEW p, NEW r \in Requests
  PROVE  /\ Wanted(p, r) \subseteq Tasks /\ 1 \in Wanted(p, r)
         /\ AtOnce(p, r) \subseteq Wanted(p, r) /\ 1 \in AtOnce(p, r)
<1>1. r.size \in 1..MaxSize
  BY DEF Requests
<1>2. 1..r.size \subseteq Tasks /\ 1 \in 1..r.size
  BY <1>1, Sizes, RoutingConstants DEF Tasks
<1> QED
  BY <1>2 DEF Wanted, AtOnce

------------------------------------------------------------------------------
(* Steps.                                                                   *)

\* A step leaves call d alone.
Same(d) ==
  /\ request'[d] = request[d] /\ phase'[d] = phase[d] /\ at'[d] = at[d] /\ task'[d] = task[d]
  /\ raised'[d] = raised[d] /\ merged'[d] = merged[d] /\ warnings'[d] = warnings[d]
  /\ result'[d] = result[d]

\* Everything a call, its lookups and its requests do.
Acts(c) ==
  \/ Start(c) \/ AreaFails(c) \/ LookUpBatch(c) \/ ResolutionFails(c) \/ BeginRouting(c)
  \/ EnterProvider(c) \/ Adapt(c) \/ AttemptFails(c) \/ Deadline(c)
  \/ \E k \in Tasks : StartLookup(c, k) \/ FinishLookup(c, k)
  \/ \E i \in Stages, k \in Tasks : StartRequest(c, i, k) \/ StartWalking(c, i, k) \/ FinishRequest(c, i, k)

\* No call acts.
Idle == /\ UNCHANGED <<request, phase, at, task, raised, merged, warnings, result>>
        /\ cooling' \in {cooling, FALSE}

LEMMA OneCallActs ==
  ASSUME [Next]_vars
  PROVE  \/ Idle
         \/ \E c \in Calls : Acts(c)
<1>1. CASE SecondPasses \/ Done \/ UNCHANGED vars
  BY <1>1 DEF SecondPasses, Done, vars, Idle
<1>2. CASE \E c \in Calls : \/ CallStep(c) \/ AreaFails(c) \/ Deadline(c)
                            \/ \E k \in 1..MaxTasks : LookupStep(c, k)
                            \/ \E i \in Stages, k \in 1..MaxTasks : RequestStep(c, i, k)
  BY <1>2 DEF CallStep, LookupStep, RequestStep, Acts, Tasks
<1> QED
  BY <1>1, <1>2 DEF Next

\* What the steps of a call do to its tasks.
LEMMA SettleEffect ==
  ASSUME TaskTypes, NEW c \in Calls, NEW i \in Stages, NEW k \in Tasks, NEW s \in TaskStates, Settle(c, i, k, s)
  PROVE  /\ \A d \in Calls \ {c} : task'[d] = task[d]
         /\ \A j \in Stages \ {i} : task'[c][j] = task[c][j]
         /\ task'[c][i] = [task[c][i] EXCEPT ![k] = s]
         /\ TaskTypes'
BY DEF TaskTypes, Settle

LEMMA LookUpBatchEffect ==
  ASSUME TaskTypes, NEW c \in Calls, LookUpBatch(c)
  PROVE  /\ \A d \in Calls \ {c} : task'[d] = task[d]
         /\ \A j \in Stages \ {0} : task'[c][j] = task[c][j]
         /\ \A k \in Tasks : \/ task'[c][0][k] = task[c][0][k]
                             \/ k \in 1..request[c].texts /\ task'[c][0][k] = "wait" /\ task[c][0][k] = "none"
         /\ TaskTypes'
<1> DEFINE begun == In(c, 0, TaskStates \ {"none"})
           next == {k \in (1..request[c].texts) \ begun : k <= Cardinality(begun) + Geocodes}
           new == [k \in Tasks |-> IF k \in next THEN "wait" ELSE task[c][0][k]]
<1>1. 0 \in Stages
  BY Sizes
<1>2. DOMAIN task[c][0] = Tasks /\ \A k \in Tasks : task[c][0][k] \in TaskStates
  BY <1>1 DEF TaskTypes
<1>3. task' = [task EXCEPT ![c][0] = [k \in DOMAIN task[c][0] |-> IF k \in next THEN "wait" ELSE task[c][0][k]]]
  BY <1>1 DEF LookUpBatch, TaskTypes
<1>4. new \in [Tasks -> TaskStates]
  BY <1>2 DEF TaskStates
<1>5. \A k \in Tasks : \/ new[k] = task[c][0][k]
                       \/ k \in 1..request[c].texts /\ new[k] = "wait" /\ task[c][0][k] = "none"
  BY <1>2 DEF In, Tasks
<1>6. task' = [task EXCEPT ![c][0] = new]
  BY <1>2, <1>3
<1> HIDE DEF new
<1>7. /\ \A d \in Calls \ {c} : task'[d] = task[d]
      /\ \A j \in Stages \ {0} : task'[c][j] = task[c][j]
      /\ task'[c][0] = new
      /\ TaskTypes'
  BY <1>1, <1>4, <1>6 DEF TaskTypes
<1> QED
  BY <1>5, <1>7

LEMMA EnterEffect ==
  ASSUME TaskTypes, NEW c \in Calls, at[c] \in Stages, NEW on \in SUBSET Tasks, Untouched(c, at[c]),
         task' = [task EXCEPT ![c][at[c]] = [k \in DOMAIN @ |-> IF k \in on THEN "wait" ELSE @[k]]]
  PROVE  /\ \A d \in Calls \ {c} : task'[d] = task[d]
         /\ \A j \in Stages \ {at[c]} : task'[c][j] = task[c][j]
         /\ \A k \in Tasks : task'[c][at[c]][k] = IF k \in on THEN "wait" ELSE "none"
         /\ TaskTypes'
<1> DEFINE new == [k \in Tasks |-> IF k \in on THEN "wait" ELSE task[c][at[c]][k]]
<1>1. DOMAIN task[c][at[c]] = Tasks /\ \A k \in Tasks : task[c][at[c]][k] = "none"
  BY DEF TaskTypes, Untouched
<1>2. new \in [Tasks -> TaskStates] /\ \A k \in Tasks : new[k] = IF k \in on THEN "wait" ELSE "none"
  BY <1>1 DEF TaskStates
<1>3. task' = [task EXCEPT ![c][at[c]] = new]
  BY <1>1
<1> HIDE DEF new
<1> QED
  BY <1>2, <1>3 DEF TaskTypes

\* A request succeeds; the next batch of a matrix follows.
Succeeds(c, i, k) ==
  task' = [task EXCEPT ![c][i] = [n \in DOMAIN @ |->
             CASE n = k -> "ok"
               [] n = k + 1 /\ n \in Wanted(Chain[i], request[c]) /\ @[n] = "none" -> "wait"
               [] OTHER -> @[n]]]
Follows(c, i, k, n) == n = k + 1 /\ n \in Wanted(Chain[i], request[c]) /\ task[c][i][n] = "none"

LEMMA SuccessEffect ==
  ASSUME TaskTypes, NEW c \in Calls, NEW i \in Stages, NEW k \in Tasks, Succeeds(c, i, k)
  PROVE  /\ \A d \in Calls \ {c} : task'[d] = task[d]
         /\ \A j \in Stages \ {i} : task'[c][j] = task[c][j]
         /\ task'[c][i][k] = "ok"
         /\ \A n \in Tasks \ {k} : task'[c][i][n] = IF Follows(c, i, k, n) THEN "wait" ELSE task[c][i][n]
         /\ TaskTypes'
<1> DEFINE new == [n \in Tasks |-> IF n = k THEN "ok" ELSE IF Follows(c, i, k, n) THEN "wait" ELSE task[c][i][n]]
<1>1. DOMAIN task[c][i] = Tasks /\ \A n \in Tasks : task[c][i][n] \in TaskStates
  BY DEF TaskTypes
<1>2. new \in [Tasks -> TaskStates]
  BY <1>1 DEF TaskStates
<1>3. new[k] = "ok" /\ \A n \in Tasks \ {k} : new[n] = IF Follows(c, i, k, n) THEN "wait" ELSE task[c][i][n]
  OBVIOUS
<1>4. ASSUME NEW n \in Tasks
      PROVE  (CASE n = k -> "ok"
                [] n = k + 1 /\ n \in Wanted(Chain[i], request[c]) /\ task[c][i][n] = "none" -> "wait"
                [] OTHER -> task[c][i][n]) = new[n]
  <2>1. Tasks \subseteq Nat
    BY DEF Tasks
  <2>2. k # k + 1
    BY <2>1
  <2> QED
    BY <2>2 DEF Follows
<1>5. task' = [task EXCEPT ![c][i] = new]
  <2>1. [n \in Tasks |-> CASE n = k -> "ok"
                           [] n = k + 1 /\ n \in Wanted(Chain[i], request[c]) /\ task[c][i][n] = "none" -> "wait"
                           [] OTHER -> task[c][i][n]] = new
    BY <1>4, Zenon
  <2> QED
    BY <1>1, <2>1, Zenon DEF Succeeds
<1> HIDE DEF new
<1> QED
  BY <1>2, <1>3, <1>5 DEF TaskTypes

LEMMA DeadlineEffect ==
  ASSUME TaskTypes, NEW c \in Calls, at[c] \in Stages, Deadline(c)
  PROVE  /\ \A d \in Calls \ {c} : task'[d] = task[d]
         /\ \A j \in Stages \ {at[c]} : task'[c][j] = task[c][j]
         /\ raised[c] # "nothing" => task'[c] = task[c]
         /\ raised[c] = "nothing" =>
              \A k \in Tasks : task'[c][at[c]][k] =
                IF task[c][at[c]][k] = "sent" THEN "cancelled"
                ELSE IF task[c][at[c]][k] \in {"wait", "paced"} THEN "dropped" ELSE task[c][at[c]][k]
         /\ TaskTypes'
<1> DEFINE new == [k \in Tasks |->
                     IF task[c][at[c]][k] = "sent" THEN "cancelled"
                     ELSE IF task[c][at[c]][k] \in {"wait", "paced"} THEN "dropped" ELSE task[c][at[c]][k]]
<1>1. DOMAIN task[c][at[c]] = Tasks /\ \A n \in Tasks : task[c][at[c]][n] \in TaskStates
  BY DEF TaskTypes
<1>2. new \in [Tasks -> TaskStates]
  BY <1>1 DEF TaskStates
<1>3. task' = [task EXCEPT ![c] = Cancelled(c)]
  BY DEF Deadline
<1>4. CASE raised[c] # "nothing"
  BY <1>3, <1>4 DEF Cancelled, TaskTypes
<1>5. CASE raised[c] = "nothing"
  <2>1. \A k \in Tasks : (CASE task[c][at[c]][k] = "sent" -> "cancelled"
                            [] task[c][at[c]][k] \in {"wait", "paced"} -> "dropped"
                            [] OTHER -> task[c][at[c]][k]) = new[k]
    OBVIOUS
  <2>2. [k \in Tasks |-> CASE task[c][at[c]][k] = "sent" -> "cancelled"
                           [] task[c][at[c]][k] \in {"wait", "paced"} -> "dropped"
                           [] OTHER -> task[c][at[c]][k]] = new
    BY <2>1, Zenon
  <2>3. Cancelled(c) = [task[c] EXCEPT ![at[c]] = new]
    BY <1>1, <1>5, <2>2, Zenon DEF Cancelled
  <2>4. \A k \in Tasks : new[k] =
                IF task[c][at[c]][k] = "sent" THEN "cancelled"
                ELSE IF task[c][at[c]][k] \in {"wait", "paced"} THEN "dropped" ELSE task[c][at[c]][k]
    OBVIOUS
  <2> HIDE DEF new
  <2> QED
    BY <1>2, <1>3, <1>5, <2>3, <2>4 DEF TaskTypes
<1> QED
  BY <1>4, <1>5

------------------------------------------------------------------------------
\* Why a request or a lookup begins, and how it goes on.
Begins(c, i, k) ==
  \/ i = 0 /\ phase[c] = "resolving" /\ k \in 1..request[c].texts
  \/ /\ i > 0 /\ k \in Wanted(Chain[i], request[c])
     /\ \/ In(c, i, InFlight) # {}
        \/ i = at[c] /\ phase[c] = "attempting" /\ raised[c] = "nothing" /\ Supports(Chain[i], request[c])
Moves(c, i, k) ==
  \/ task'[c][i][k] = task[c][i][k]
  \/ task[c][i][k] \in InFlight /\ task'[c][i][k] # "none"
  \/ task[c][i][k] = "none" /\ task'[c][i][k] = "wait" /\ Begins(c, i, k)

LEMMA ActsOnTasks ==
  ASSUME Types, NEW c \in Calls, Asked(c), Acts(c)
  PROVE  /\ TaskTypes'
         /\ \A d \in Calls \ {c} : task'[d] = task[d]
         /\ \A i \in Stages, k \in Tasks : Moves(c, i, k)
<1> DEFINE Goal == /\ TaskTypes'
                   /\ \A d \in Calls \ {c} : task'[d] = task[d]
                   /\ \A i \in Stages, k \in Tasks : Moves(c, i, k)
<1>1. /\ TaskTypes /\ at[c] \in Stages /\ request[c] \in Requests /\ 0 \in Stages
      /\ phase[c] = "attempting" => at[c] > 0
  <2>1. TaskTypes /\ at \in [Calls -> Stages] /\ request \in [Calls -> Requests]
    BY DEF Types
  <2>2. 0 \in Stages
    BY Sizes
  <2>3. phase[c] = "attempting" => at[c] > 0
    BY DEF Asked
  <2> QED
    BY <2>1, <2>2, <2>3
<1>2. ASSUME task' = task PROVE Goal
  BY <1>1, <1>2 DEF TaskTypes, Moves
<1>3. ASSUME NEW i \in Stages, NEW k \in Tasks, NEW s \in TaskStates \ {"none"}, task[c][i][k] \in InFlight, Settle(c, i, k, s)
      PROVE  Goal
  <2>1. /\ \A d \in Calls \ {c} : task'[d] = task[d]
        /\ \A j \in Stages \ {i} : task'[c][j] = task[c][j]
        /\ task'[c][i] = [task[c][i] EXCEPT ![k] = s]
        /\ TaskTypes'
    BY <1>1, <1>3, SettleEffect
  <2>2. DOMAIN task[c][i] = Tasks
    BY <1>1 DEF TaskTypes
  <2>3. ASSUME NEW j \in Stages, NEW n \in Tasks PROVE Moves(c, j, n)
    BY <1>3, <2>1, <2>2 DEF Moves
  <2> QED
    BY <2>1, <2>3
<1>4. CASE LookUpBatch(c)
  <2>1. phase[c] = "resolving"
    BY <1>4 DEF LookUpBatch
  <2> QED
    BY <1>1, <1>4, <2>1, LookUpBatchEffect DEF Moves, Begins
<1>5. CASE EnterProvider(c)
  <2> DEFINE on == AtOnce(Chain[at[c]], request[c])
  <2>1. /\ phase[c] = "attempting" /\ Fresh(c)
        /\ \/ task' = task
           \/ /\ Supports(Chain[at[c]], request[c])
              /\ task' = [task EXCEPT ![c][at[c]] = [k \in DOMAIN @ |-> IF k \in on THEN "wait" ELSE @[k]]]
    BY <1>5, Zenon DEF EnterProvider, EnterProviderIf
  <2>2. Untouched(c, at[c]) /\ raised[c] = "nothing"
    <3>1. In(c, at[c], TaskStates \ {"none"}) = {} /\ raised[c] = "nothing"
      BY <2>1 DEF Fresh
    <3>2. \A k \in Tasks : task[c][at[c]][k] \in TaskStates
      BY <1>1 DEF TaskTypes
    <3> QED
      BY <3>1, <3>2 DEF Untouched, In, Tasks
  <2>3. on \in SUBSET Tasks /\ on \subseteq Wanted(Chain[at[c]], request[c])
    BY <1>1, WantedFacts
  <2> HIDE DEF on
  <2>4. CASE /\ Supports(Chain[at[c]], request[c])
             /\ task' = [task EXCEPT ![c][at[c]] = [k \in DOMAIN @ |-> IF k \in on THEN "wait" ELSE @[k]]]
    <3>1. /\ \A d \in Calls \ {c} : task'[d] = task[d]
          /\ \A j \in Stages \ {at[c]} : task'[c][j] = task[c][j]
          /\ \A k \in Tasks : task'[c][at[c]][k] = IF k \in on THEN "wait" ELSE "none"
          /\ TaskTypes'
      BY <1>1, <2>2, <2>3, <2>4, EnterEffect
    <3> QED
      BY <1>1, <2>1, <2>2, <2>3, <2>4, <3>1 DEF Moves, Begins, Untouched
  <2> QED
    BY <1>2, <2>1, <2>4
<1>6. ASSUME NEW i \in Stages, NEW k \in Tasks, FinishRequest(c, i, k) PROVE Goal
  <2>1. i > 0 /\ task[c][i][k] = "sent"
    BY <1>6 DEF FinishRequest
  <2>2. PICK s : s \in {"refused", "failed"} /\ (Succeeds(c, i, k) \/ Settle(c, i, k, s))
    BY <1>6 DEF FinishRequest, Succeeds
  <2>3. CASE Succeeds(c, i, k)
    <3>1. In(c, i, InFlight) # {}
      BY <2>1 DEF In, InFlight, Tasks
    <3> QED
      BY <1>1, <2>1, <2>3, <3>1, SuccessEffect DEF Moves, Begins, Follows, InFlight
  <2>4. CASE Settle(c, i, k, s)
    BY <1>3, <2>1, <2>2, <2>4 DEF InFlight, TaskStates
  <2> QED
    BY <2>2, <2>3, <2>4
<1>7. CASE Deadline(c)
  BY <1>1, <1>7, DeadlineEffect DEF Moves, InFlight
<1>8. ASSUME NEW k \in Tasks, StartLookup(c, k) \/ FinishLookup(c, k) PROVE Goal
  <2>1. PICK s \in {"sent", "ok", "failed"} : task[c][0][k] \in InFlight /\ Settle(c, 0, k, s)
    BY <1>8 DEF StartLookup, FinishLookup, InFlight
  <2> QED
    BY <1>1, <1>3, <2>1 DEF TaskStates
<1>9. ASSUME NEW i \in Stages, NEW k \in Tasks, StartRequest(c, i, k) \/ StartWalking(c, i, k) PROVE Goal
  <2>1. PICK s \in {"paced", "sent"} : task[c][i][k] \in InFlight /\ Settle(c, i, k, s)
    BY <1>9 DEF StartRequest, StartRequestIf, StartWalking, InFlight
  <2> QED
    BY <1>3, <2>1 DEF TaskStates
<1>10. CASE Start(c) \/ AreaFails(c) \/ ResolutionFails(c) \/ BeginRouting(c) \/ Adapt(c) \/ AttemptFails(c)
  <2>1. task' = task
    BY <1>10 DEF Start, AreaFails, ResolutionFails, BeginRouting, Adapt, AttemptFails, AttemptFailsWith
  <2> QED
    BY <1>2, <2>1
<1> QED
  BY <1>4, <1>5, <1>6, <1>7, <1>8, <1>9, <1>10 DEF Acts

------------------------------------------------------------------------------
\* What the steps do to their own call, field by field.
Ends(c, how, upstream, notes) ==
  /\ phase'[c] = "done" /\ raised'[c] = "nothing"
  /\ result'[c] = [how |-> how, metrics |-> upstream, warnings |-> notes]
Keeps(c) == at'[c] = at[c] /\ merged'[c] = merged[c] /\ warnings'[c] = warnings[c]
GoesOn(c) == phase'[c] = phase[c] /\ result'[c] = result[c]
Ours(c) == Chain[at[c]]

Accepted(c) ==
  /\ phase[c] = "new" /\ Valid(request[c]) /\ phase'[c] = "resolving"
  /\ Keeps(c) /\ result'[c] = result[c] /\ raised'[c] = raised[c] /\ task'[c] = task[c]
EndsEarly(c) ==
  /\ phase[c] \in {"new", "resolving"} /\ Keeps(c) /\ task'[c] = task[c]
  /\ \E how \in {"invalid", "error", "crash"}, m \in SUBSET Context(c) : Ends(c, how, m, {})
LooksUp(c) ==
  /\ GoesOn(c) /\ at'[c] = at[c] /\ merged'[c] = merged[c]
  /\ \E n \in SUBSET ({"ambiguous"} \X Tasks) : warnings'[c] = warnings[c] \cup n
  /\ \/ raised'[c] = raised[c]
     \/ phase[c] = "resolving" /\ raised'[c] = "error"
  /\ \A j \in Stages \ {0} : task'[c][j] = task[c][j]
Requesting(c) ==
  /\ GoesOn(c) /\ Keeps(c) /\ raised'[c] = raised[c]
  /\ \E i \in Stages \ {0}, k \in Tasks, s \in InFlight :
       task[c][i][k] \in InFlight /\ Settle(c, i, k, s)
Succeeding(c) ==
  /\ GoesOn(c) /\ Keeps(c) /\ raised'[c] = raised[c]
  /\ \E i \in Stages \ {0}, k \in Tasks : task[c][i][k] = "sent" /\ Succeeds(c, i, k)
Failing(c) ==
  /\ GoesOn(c) /\ Keeps(c)
  /\ \E i \in Stages \ {0}, k \in Tasks, s \in {"failed", "refused"} :
       /\ task[c][i][k] = "sent" /\ Settle(c, i, k, s)
       /\ IF Awaits(c, i) /\ raised[c] = "nothing"
          THEN raised'[c] \in {"error", "failed", "timed out"} /\ (s = "refused" => raised'[c] = "error")
          ELSE raised'[c] = raised[c]
Sets(c) ==
  /\ phase[c] = "resolving" /\ In(c, 0, {"ok"}) = 1..request[c].texts
  /\ phase'[c] = "attempting" /\ at'[c] = 1
  /\ merged'[c] = merged[c] /\ warnings'[c] = warnings[c]
  /\ result'[c] = result[c] /\ raised'[c] = raised[c] /\ task'[c] = task[c]
Unable(c) ==
  /\ phase[c] = "attempting" /\ Fresh(c) /\ GoesOn(c) /\ Keeps(c) /\ task'[c] = task[c]
  /\ raised'[c] \in {"error", "failed", "timed out"}
  /\ Supports(Ours(c), request[c]) => raised'[c] = "error"
Crashes(c) ==
  /\ phase[c] = "attempting" /\ Fresh(c) /\ Keeps(c) /\ task'[c] = task[c]
  /\ Ends(c, "crash", Context(c), {})
Asks(c) ==
  /\ phase[c] = "attempting" /\ Fresh(c) /\ GoesOn(c) /\ Keeps(c) /\ raised'[c] = raised[c]
  /\ Supports(Ours(c), request[c])
  /\ task' = [task EXCEPT ![c][at[c]] =
        [k \in DOMAIN @ |-> IF k \in AtOnce(Ours(c), request[c]) THEN "wait" ELSE @[k]]]
Answers(c) ==
  /\ phase[c] = "attempting" /\ raised[c] = "nothing" /\ Complete(c, at[c])
  /\ at'[c] = at[c] /\ task'[c] = task[c]
  /\ merged'[c] = merged[c] \cup Recorded(c, at[c])
  /\ warnings'[c] = warnings[c] \cup OwnWarnings(Ours(c), request[c])
  /\ Ends(c, "ok", Context(c) \cup Recorded(c, at[c]), warnings'[c])
Rejects(c) ==
  /\ phase[c] = "attempting" /\ raised[c] = "nothing" /\ Complete(c, at[c])
  /\ GoesOn(c) /\ Keeps(c) /\ task'[c] = task[c]
  /\ raised'[c] \in {"error", "failed", "timed out"}
PassesOn(c) ==
  /\ phase[c] = "attempting" /\ raised[c] \in {"failed", "timed out"} /\ at[c] < Last
  /\ GoesOn(c) /\ task'[c] = task[c]
  /\ at'[c] = at[c] + 1 /\ raised'[c] = "nothing"
  /\ merged'[c] = merged[c] \cup Recorded(c, at[c])
  /\ warnings'[c] = warnings[c] \cup {<<raised[c], Ours(c)>>}
GivesUp(c) ==
  /\ phase[c] = "attempting" /\ raised[c] # "nothing"
  /\ at'[c] = at[c] /\ warnings'[c] = warnings[c] /\ task'[c] = task[c]
  /\ merged'[c] = merged[c] \cup Recorded(c, at[c])
  /\ Ends(c, "error", Context(c) \cup Recorded(c, at[c]), {})
Expires(c) ==
  /\ phase[c] \in {"resolving", "attempting"} /\ Keeps(c) /\ Deadline(c)
  /\ Ends(c, "deadline", merged[c] \cup Recorded(c, 0)', {})

Moved(c) ==
  \/ Accepted(c) \/ EndsEarly(c) \/ LooksUp(c) \/ Requesting(c) \/ Succeeding(c) \/ Failing(c)
  \/ Sets(c) \/ Unable(c) \/ Crashes(c) \/ Asks(c) \/ Answers(c) \/ Rejects(c)
  \/ PassesOn(c) \/ GivesUp(c) \/ Expires(c)

LEMMA RaisingFacts ==
  ASSUME NEW p \in Names
  PROVE  /\ \A e : Raising(e, p) \in {"error", "failed", "timed out"}
         /\ Raising(UnknownRef, p) = "error"
         /\ \A e : NeedsOperator(e) => Raising(e, p) = "error"
<1>1. p # "-"
  BY DEF Names
<1> QED
  BY <1>1 DEF Raising, UnknownRef, ToolError, MayTryNext

LEMMA Functions ==
  ASSUME Types
  PROVE  /\ DOMAIN request = Calls /\ DOMAIN phase = Calls /\ DOMAIN at = Calls /\ DOMAIN raised = Calls
         /\ DOMAIN merged = Calls /\ DOMAIN warnings = Calls /\ DOMAIN result = Calls
BY DEF Types

\* An action writes no entry of a variable but c's.
Only(c, old, new) == new = old \/ \E e : new = [old EXCEPT ![c] = e]

WritesOwn(c) == /\ request' = request /\ Only(c, phase, phase') /\ Only(c, at, at') /\ Only(c, raised, raised')
            /\ Only(c, merged, merged') /\ Only(c, warnings, warnings') /\ Only(c, result, result')

LEMMA OwnWrites ==
  ASSUME NEW c \in Calls, Acts(c)
  PROVE  WritesOwn(c) /\ (cooling' = cooling \/ cooling' = TRUE)
<1>10. ASSUME Start(c) PROVE WritesOwn(c)
  BY <1>10, Zenon DEF Start, Finish, Only, WritesOwn
<1>11. ASSUME AreaFails(c) PROVE WritesOwn(c)
  BY <1>11, Zenon DEF AreaFails, Finish, Only, WritesOwn
<1>12. ASSUME LookUpBatch(c) PROVE WritesOwn(c)
  BY <1>12, Zenon DEF LookUpBatch, Only, WritesOwn
<1>13. ASSUME ResolutionFails(c) \/ BeginRouting(c) PROVE WritesOwn(c)
  BY <1>13, Zenon DEF ResolutionFails, BeginRouting, Finish, Only, WritesOwn
<1>14. ASSUME EnterProvider(c) PROVE WritesOwn(c)
  BY <1>14, Zenon DEF EnterProvider, EnterProviderIf, Finish, Only, WritesOwn
<1>15. ASSUME Adapt(c) PROVE WritesOwn(c)
  BY <1>15, Zenon DEF Adapt, Finish, Only, WritesOwn
<1>16. ASSUME AttemptFails(c) PROVE WritesOwn(c)
  BY <1>16, Zenon DEF AttemptFails, AttemptFailsWith, Finish, Only, WritesOwn
<1>17. ASSUME Deadline(c) PROVE WritesOwn(c)
  BY <1>17, Zenon DEF Deadline, Finish, Only, WritesOwn
<1>20. ASSUME NEW k \in Tasks, StartLookup(c, k) \/ FinishLookup(c, k) PROVE WritesOwn(c)
  BY <1>20, Zenon DEF StartLookup, FinishLookup, Only, WritesOwn
<1>21. ASSUME NEW i \in Stages, NEW k \in Tasks, StartRequest(c, i, k) \/ StartWalking(c, i, k) PROVE WritesOwn(c)
  BY <1>21, Zenon DEF StartRequest, StartRequestIf, StartWalking, Only, WritesOwn
<1>22. ASSUME NEW i \in Stages, NEW k \in Tasks, FinishRequest(c, i, k) PROVE WritesOwn(c)
  BY <1>22, Zenon DEF FinishRequest, Only, WritesOwn
<1>7. WritesOwn(c)
  BY <1>10, <1>11, <1>12, <1>13, <1>14, <1>15, <1>16, <1>17, <1>20, <1>21, <1>22 DEF Acts
<1>8. cooling' = cooling \/ cooling' = TRUE
  <2>1. CASE Start(c) \/ AreaFails(c) \/ LookUpBatch(c) \/ ResolutionFails(c) \/ BeginRouting(c) \/ EnterProvider(c)
    BY <2>1, Zenon DEF Start, AreaFails, LookUpBatch, ResolutionFails, BeginRouting, EnterProvider, EnterProviderIf
  <2>2. CASE Adapt(c) \/ AttemptFails(c) \/ Deadline(c)
    BY <2>2, Zenon DEF Adapt, AttemptFails, AttemptFailsWith, Deadline
  <2>3. ASSUME NEW k \in Tasks, StartLookup(c, k) \/ FinishLookup(c, k) PROVE cooling' = cooling
    BY <2>3, Zenon DEF StartLookup, FinishLookup
  <2>4. ASSUME NEW i \in Stages, NEW k \in Tasks, StartRequest(c, i, k) \/ StartWalking(c, i, k) \/ FinishRequest(c, i, k)
        PROVE  cooling' = cooling \/ cooling' = TRUE
    BY <2>4, Zenon DEF StartRequest, StartRequestIf, StartWalking, FinishRequest
  <2> QED
    BY <2>1, <2>2, <2>3, <2>4 DEF Acts
<1> QED
  BY <1>7, <1>8

LEMMA ActsAlone ==
  ASSUME Types, NEW c \in Calls, Asked(c), Acts(c), NEW d \in Calls \ {c}
  PROVE  Same(d)
<1>1. task'[d] = task[d]
  BY ActsOnTasks
<1>2. ASSUME NEW f, NEW g, DOMAIN f = Calls, Only(c, f, g) PROVE g[d] = f[d]
  BY <1>2 DEF Only
<1>3. WritesOwn(c)
  BY OwnWrites
<1>4. /\ request'[d] = request[d] /\ phase'[d] = phase[d] /\ at'[d] = at[d] /\ raised'[d] = raised[d]
      /\ merged'[d] = merged[d] /\ warnings'[d] = warnings[d] /\ result'[d] = result[d]
  BY <1>2, <1>3, Functions, Zenon DEF WritesOwn
<1> QED
  BY <1>1, <1>4 DEF Same

LEMMA EndsFacts ==
  ASSUME Types, NEW c \in Calls, NEW how, NEW m, NEW n, Finish(c, how, m, n)
  PROVE  Ends(c, how, m, n)
BY Functions DEF Finish, Ends

LEMMA Attempting ==
  ASSUME Types, NEW c \in Calls, Asked(c), phase[c] = "attempting"
  PROVE  at[c] \in Stages \ {0} /\ at[c] \in 1..Last /\ Ours(c) \in Names
<1>1. at \in [Calls -> Stages]
  BY DEF Types
<1>2. at[c] > 0
  BY DEF Asked
<1>3. at[c] \in Stages \ {0}
  BY <1>1, <1>2, Sizes
<1> QED
  BY <1>3, InChain DEF Ours

LEMMA EnterMoves ==
  ASSUME Types, NEW c \in Calls, Asked(c), EnterProvider(c)
  PROVE  request'[c] = request[c] /\ (Unable(c) \/ Crashes(c) \/ Asks(c))
<1> DEFINE can == Supports(Ours(c), request[c])
<1>1. /\ phase[c] = "attempting" /\ Fresh(c) /\ UNCHANGED <<request, at, merged, warnings>>
      /\ \/ ~can /\ UNCHANGED <<phase, task, result>> /\ raised' = [raised EXCEPT ![c] = Raising(Unsupported(Ours(c)), Ours(c))]
         \/ can /\ UNCHANGED <<phase, task, result>> /\ raised' = [raised EXCEPT ![c] = Raising(UnknownRef, Ours(c))]
         \/ can /\ UNCHANGED task /\ Finish(c, "crash", Context(c), {})
         \/ /\ can /\ UNCHANGED <<phase, result, raised>>
            /\ task' = [task EXCEPT ![c][at[c]] =
                  [k \in DOMAIN @ |-> IF k \in AtOnce(Ours(c), request[c]) THEN "wait" ELSE @[k]]]
  BY Zenon DEF EnterProvider, EnterProviderIf, Ours
<1>2. Ours(c) \in Names
  BY <1>1, Attempting
<1>3. /\ Raising(Unsupported(Ours(c)), Ours(c)) \in {"error", "failed", "timed out"}
      /\ Raising(UnknownRef, Ours(c)) = "error"
  BY <1>2, RaisingFacts
<1>4. CASE ~can /\ UNCHANGED <<phase, task, result>> /\ raised' = [raised EXCEPT ![c] = Raising(Unsupported(Ours(c)), Ours(c))]
  BY <1>1, <1>3, <1>4, Functions DEF Unable, GoesOn, Keeps
<1>5. CASE can /\ UNCHANGED <<phase, task, result>> /\ raised' = [raised EXCEPT ![c] = Raising(UnknownRef, Ours(c))]
  BY <1>1, <1>3, <1>5, Functions DEF Unable, GoesOn, Keeps
<1>6. CASE can /\ UNCHANGED task /\ Finish(c, "crash", Context(c), {})
  BY <1>1, <1>6, EndsFacts DEF Crashes, Keeps
<1>7. CASE /\ can /\ UNCHANGED <<phase, result, raised>>
           /\ task' = [task EXCEPT ![c][at[c]] =
                  [k \in DOMAIN @ |-> IF k \in AtOnce(Ours(c), request[c]) THEN "wait" ELSE @[k]]]
  BY <1>1, <1>7, Zenon DEF Asks, GoesOn, Keeps
<1> QED
  BY <1>1, <1>4, <1>5, <1>6, <1>7

LEMMA CallMoves ==
  ASSUME Types, NEW c \in Calls, Asked(c), CallStep(c) \/ AreaFails(c) \/ Deadline(c)
  PROVE  request'[c] = request[c] /\ (Moved(c) \/ LookUpBatch(c))
<1>1. request' = request
  BY DEF CallStep, Start, LookUpBatch, ResolutionFails, BeginRouting, EnterProvider, EnterProviderIf, Adapt, AttemptFails,
         AttemptFailsWith, AreaFails, Deadline
<1>2. ASSUME Start(c) PROVE Accepted(c) \/ EndsEarly(c)
  <2>1. /\ phase[c] = "new" /\ UNCHANGED <<request, at, task, merged, warnings>>
        /\ \/ Valid(request[c]) /\ phase' = [phase EXCEPT ![c] = "resolving"] /\ UNCHANGED <<raised, result>>
           \/ Ends(c, "invalid", {}, {})
    BY <1>2, EndsFacts DEF Start
  <2> QED
    BY <2>1, Functions DEF Accepted, EndsEarly, Keeps
<1>3. ASSUME AreaFails(c) \/ ResolutionFails(c) PROVE EndsEarly(c)
  <2>1. /\ phase[c] = "resolving" /\ UNCHANGED <<at, task, merged, warnings>>
        /\ \E how \in {"error", "crash"}, m \in {{}, Context(c)} : Ends(c, how, m, {})
    BY <1>3, EndsFacts DEF AreaFails, ResolutionFails
  <2> QED
    BY <2>1 DEF EndsEarly, Keeps
<1>4. ASSUME BeginRouting(c) PROVE Sets(c)
  BY <1>4, Functions DEF BeginRouting, Sets
<1>5. ASSUME EnterProvider(c) PROVE Unable(c) \/ Crashes(c) \/ Asks(c)
  BY <1>5, EnterMoves
<1>6. ASSUME Adapt(c) PROVE Answers(c) \/ Rejects(c)
  <2> DEFINE own == merged[c] \cup Recorded(c, at[c])
             notes == warnings[c] \cup OwnWarnings(Ours(c), request[c])
  <2>1. /\ phase[c] = "attempting" /\ raised[c] = "nothing" /\ Complete(c, at[c]) /\ UNCHANGED <<request, at, task>>
        /\ \/ /\ merged' = [merged EXCEPT ![c] = own]
              /\ warnings' = [warnings EXCEPT ![c] = notes]
              /\ Finish(c, "ok", Context(c) \cup Recorded(c, at[c]), warnings'[c])
           \/ /\ \E e : raised' = [raised EXCEPT ![c] = Raising(e, Ours(c))]
              /\ UNCHANGED <<phase, merged, warnings, result>>
    BY <1>6, Zenon DEF Adapt, Complete, Ours
  <2>2. Ours(c) \in Names
    BY <2>1, Attempting
  <2>3. CASE /\ merged' = [merged EXCEPT ![c] = own]
             /\ warnings' = [warnings EXCEPT ![c] = notes]
             /\ Finish(c, "ok", Context(c) \cup Recorded(c, at[c]), warnings'[c])
    <3>1. merged'[c] = own /\ warnings'[c] = notes
      BY <2>3, Functions
    <3> QED
      BY <2>1, <2>3, <3>1, EndsFacts DEF Answers
  <2>4. CASE /\ \E e : raised' = [raised EXCEPT ![c] = Raising(e, Ours(c))]
             /\ UNCHANGED <<phase, merged, warnings, result>>
    <3>1. raised'[c] \in {"error", "failed", "timed out"}
      BY <2>2, <2>4, Functions, RaisingFacts
    <3> QED
      BY <2>1, <2>4, <3>1 DEF Rejects, GoesOn, Keeps
  <2> QED
    BY <2>1, <2>3, <2>4
<1>7. ASSUME AttemptFails(c) PROVE PassesOn(c) \/ GivesUp(c)
  <2>1. /\ phase[c] = "attempting" /\ raised[c] # "nothing" /\ UNCHANGED <<request, task>>
        /\ merged' = [merged EXCEPT ![c] = @ \cup Recorded(c, at[c])]
        /\ \/ /\ at[c] < Last /\ raised[c] # "error"
              /\ at' = [at EXCEPT ![c] = @ + 1]
              /\ warnings' = [warnings EXCEPT ![c] = @ \cup {} \cup {<<raised[c], Ours(c)>>}]
              /\ raised' = [raised EXCEPT ![c] = "nothing"]
              /\ UNCHANGED <<phase, result>>
           \/ /\ Finish(c, "error", Context(c) \cup Recorded(c, at[c]), {})
              /\ UNCHANGED <<at, warnings>>
    BY <1>7, Zenon DEF AttemptFails, AttemptFailsWith, Ours
  <2>2. raised[c] \in {"failed", "timed out"} \/ raised[c] = "error"
    BY <2>1 DEF Types
  <2>3. merged'[c] = merged[c] \cup Recorded(c, at[c])
    BY <2>1, Functions
  <2>4. CASE /\ at[c] < Last /\ raised[c] # "error"
             /\ at' = [at EXCEPT ![c] = @ + 1]
             /\ warnings' = [warnings EXCEPT ![c] = @ \cup {} \cup {<<raised[c], Ours(c)>>}]
             /\ raised' = [raised EXCEPT ![c] = "nothing"]
             /\ UNCHANGED <<phase, result>>
    BY <2>1, <2>2, <2>3, <2>4, Functions DEF PassesOn, GoesOn
  <2>5. CASE /\ Finish(c, "error", Context(c) \cup Recorded(c, at[c]), {})
             /\ UNCHANGED <<at, warnings>>
    BY <2>1, <2>3, <2>5, EndsFacts DEF GivesUp
  <2> QED
    BY <2>1, <2>4, <2>5
<1>8. ASSUME Deadline(c) PROVE Expires(c)
  <2>1. /\ phase[c] \in {"resolving", "attempting"} /\ UNCHANGED <<at, merged, warnings>>
        /\ Finish(c, "deadline", merged[c] \cup {<<0, k>> : k \in {n \in 1..MaxTasks : task'[c][0][n] \in Finished}}, {})
    BY <1>8, Zenon DEF Deadline
  <2>2. Recorded(c, 0)' = {<<0, k>> : k \in {n \in 1..MaxTasks : task'[c][0][n] \in Finished}}
    BY DEF Recorded, In
  <2> QED
    BY <1>8, <2>1, <2>2, EndsFacts DEF Expires, Keeps
<1> QED
  BY <1>1, <1>2, <1>3, <1>4, <1>5, <1>6, <1>7, <1>8 DEF CallStep, Moved

LEMMA ActsMove ==
  ASSUME Types, NEW c \in Calls, Asked(c), Acts(c)
  PROVE  request'[c] = request[c] /\ Moved(c)
<1>1. 0 \in Stages /\ TaskTypes
  <2>1. TaskTypes
    BY DEF Types
  <2> QED
    BY <2>1, Sizes
<1>2. ASSUME LookUpBatch(c) PROVE request'[c] = request[c] /\ LooksUp(c)
  <2>1. UNCHANGED <<request, phase, at, raised, merged, warnings, result>>
    BY <1>2 DEF LookUpBatch
  <2>2. \A j \in Stages \ {0} : task'[c][j] = task[c][j]
    BY <1>1, <1>2, LookUpBatchEffect
  <2>3. warnings'[c] = warnings[c] \cup {} /\ {} \in SUBSET ({"ambiguous"} \X Tasks)
    BY <2>1
  <2> QED
    BY <2>1, <2>2, <2>3 DEF LooksUp, GoesOn
<1>3. ASSUME NEW k \in Tasks, StartLookup(c, k) \/ FinishLookup(c, k)
      PROVE  request'[c] = request[c] /\ LooksUp(c)
  <2>1. /\ UNCHANGED <<request, phase, at, merged, result>>
        /\ \E s \in {"sent", "ok", "failed"} : Settle(c, 0, k, s)
        /\ UNCHANGED warnings \/ warnings' = [warnings EXCEPT ![c] = @ \cup {<<"ambiguous", k>>}]
        /\ \/ UNCHANGED raised
           \/ Awaits(c, 0) /\ raised' = [raised EXCEPT ![c] = "error"]
    <3>1. CASE StartLookup(c, k)
      BY <3>1 DEF StartLookup
    <3>2. CASE FinishLookup(c, k)
      BY <3>2, Zenon DEF FinishLookup
    <3> QED
      BY <1>3, <3>1, <3>2
  <2>2. \A j \in Stages \ {0} : task'[c][j] = task[c][j]
    <3>1. PICK s \in {"sent", "ok", "failed"} : Settle(c, 0, k, s)
      BY <2>1
    <3>2. s \in TaskStates
      BY DEF TaskStates
    <3> QED
      BY <1>1, <3>1, <3>2, SettleEffect
  <2>3. \E n \in SUBSET ({"ambiguous"} \X Tasks) : warnings'[c] = warnings[c] \cup n
    <3>1. CASE UNCHANGED warnings
      <4>1. warnings'[c] = warnings[c] \cup {} /\ {} \in SUBSET ({"ambiguous"} \X Tasks)
        BY <3>1
      <4> QED
        BY <4>1
    <3>2. CASE warnings' = [warnings EXCEPT ![c] = @ \cup {<<"ambiguous", k>>}]
      <4>1. warnings'[c] = warnings[c] \cup {<<"ambiguous", k>>}
        BY <3>2, Functions
      <4>2. {<<"ambiguous", k>>} \in SUBSET ({"ambiguous"} \X Tasks)
        OBVIOUS
      <4> QED
        BY <4>1, <4>2
    <3> QED
      BY <2>1, <3>1, <3>2
  <2>4. \/ raised'[c] = raised[c]
        \/ phase[c] = "resolving" /\ raised'[c] = "error"
    <3>1. ASSUME Awaits(c, 0) PROVE phase[c] = "resolving"
      <4>1. phase[c] = "attempting" => at[c] \in Stages \ {0}
        BY Attempting
      <4> QED
        BY <3>1, <4>1 DEF Awaits
    <3> QED
      BY <2>1, <3>1, Functions
  <2> QED
    BY <2>1, <2>2, <2>3, <2>4 DEF LooksUp, GoesOn
<1>4. ASSUME NEW i \in Stages, NEW k \in Tasks, StartRequest(c, i, k) \/ StartWalking(c, i, k)
      PROVE  request'[c] = request[c] /\ Requesting(c)
  <2>1. /\ UNCHANGED <<request, phase, at, raised, merged, warnings, result>>
        /\ i > 0 /\ task[c][i][k] \in InFlight
        /\ \E s \in {"paced", "sent"} : Settle(c, i, k, s)
    BY <1>4 DEF StartRequest, StartRequestIf, StartWalking, InFlight
  <2>2. i \in Stages \ {0} /\ {"paced", "sent"} \subseteq InFlight
    BY <2>1 DEF InFlight
  <2> QED
    BY <2>1, <2>2 DEF Requesting, GoesOn, Keeps
<1>5. ASSUME NEW i \in Stages, NEW k \in Tasks, FinishRequest(c, i, k)
      PROVE  request'[c] = request[c] /\ (Succeeding(c) \/ Failing(c))
  <2>1. /\ UNCHANGED <<request, phase, at, merged, warnings, result>>
        /\ i > 0 /\ task[c][i][k] = "sent"
        /\ \/ Succeeds(c, i, k) /\ UNCHANGED raised
           \/ \E e : /\ Settle(c, i, k, IF NeedsOperator(e) THEN "refused" ELSE "failed")
                     /\ raised' = IF Awaits(c, i) /\ raised[c] = "nothing"
                                  THEN [raised EXCEPT ![c] = Raising(e, Chain[i])] ELSE raised
    BY <1>5, Zenon DEF FinishRequest, Succeeds
  <2>2. i \in Stages \ {0} /\ Chain[i] \in Names
    BY <2>1, InChain
  <2>3. CASE Succeeds(c, i, k) /\ UNCHANGED raised
    BY <2>1, <2>2, <2>3 DEF Succeeding, GoesOn, Keeps
  <2>4. ASSUME NEW e, Settle(c, i, k, IF NeedsOperator(e) THEN "refused" ELSE "failed"),
               raised' = IF Awaits(c, i) /\ raised[c] = "nothing"
                         THEN [raised EXCEPT ![c] = Raising(e, Chain[i])] ELSE raised
        PROVE  Failing(c)
    <3> DEFINE s == IF NeedsOperator(e) THEN "refused" ELSE "failed"
    <3>1. s \in {"failed", "refused"} /\ Settle(c, i, k, s)
      BY <2>4
    <3>2. IF Awaits(c, i) /\ raised[c] = "nothing"
          THEN raised'[c] \in {"error", "failed", "timed out"} /\ (s = "refused" => raised'[c] = "error")
          ELSE raised'[c] = raised[c]
      BY <2>2, <2>4, RaisingFacts, Functions
    <3> HIDE DEF s
    <3> QED
      BY <2>1, <2>2, <3>1, <3>2 DEF Failing, GoesOn, Keeps
  <2> QED
    BY <2>1, <2>3, <2>4
<1>6. ASSUME CallStep(c) \/ AreaFails(c) \/ Deadline(c) PROVE request'[c] = request[c] /\ Moved(c)
  BY <1>2, <1>6, CallMoves DEF Moved
<1> QED
  BY <1>2, <1>3, <1>4, <1>5, <1>6 DEF Acts, Moved, CallStep

\* How far the call gets in a step.
Stays(c) == GoesOn(c) /\ at'[c] = at[c] /\ merged'[c] = merged[c] /\ (raised'[c] = raised[c] \/ phase[c] \in {"resolving", "attempting"})
Over(c) == /\ phase[c] # "done" /\ phase'[c] = "done" /\ at'[c] = at[c] /\ raised'[c] = "nothing"
           /\ result'[c].how # "none" /\ (result'[c].how = "ok" => Answers(c))

LEMMA HowFar ==
  ASSUME NEW c \in Calls, Moved(c)
  PROVE  Stays(c) \/ Accepted(c) \/ Sets(c) \/ PassesOn(c) \/ Over(c)
<1>1. CASE LooksUp(c) \/ Requesting(c) \/ Succeeding(c)
  BY <1>1, Zenon DEF LooksUp, Requesting, Succeeding, Keeps, Stays
<1>2. CASE Failing(c)
  <2>1. GoesOn(c) /\ at'[c] = at[c] /\ merged'[c] = merged[c] /\ \E i : IF Awaits(c, i) /\ raised[c] = "nothing" THEN TRUE ELSE raised'[c] = raised[c]
    BY <1>2 DEF Failing, Keeps
  <2> QED
    BY <2>1 DEF Stays, Awaits
<1>3. CASE Unable(c) \/ Asks(c) \/ Rejects(c)
  BY <1>3 DEF Unable, Asks, Rejects, Keeps, Stays
<1>4. CASE EndsEarly(c)
  <2>1. PICK how \in {"invalid", "error", "crash"}, m \in SUBSET Context(c) : Ends(c, how, m, {})
    BY <1>4 DEF EndsEarly
  <2> QED
    BY <1>4, <2>1 DEF EndsEarly, Keeps, Ends, Over
<1>6. CASE Crashes(c) \/ Expires(c)
  BY <1>6 DEF Crashes, Expires, Keeps, Ends, Over
<1>7. CASE GivesUp(c)
  BY <1>7 DEF GivesUp, Ends, Over
<1>5. CASE Answers(c)
  BY <1>5 DEF Answers, Ends, Over
<1> QED
  BY <1>1, <1>2, <1>3, <1>4, <1>5, <1>6, <1>7 DEF Moved

LEMMA NotNone ==
  ASSUME TaskTypes, NEW c \in Calls, NEW i \in Stages, NEW X
  PROVE  (In(c, i, TaskStates \ {"none"}) \subseteq X) <=> \A k \in Tasks : task[c][i][k] # "none" => k \in X
<1>1. \A k \in Tasks : task[c][i][k] \in TaskStates
  BY DEF TaskTypes
<1> QED
  BY <1>1 DEF In, Tasks

LEMMA AskedStep ==
  ASSUME Types, NEW c \in Calls, Asked(c), Acts(c)
  PROVE  Asked(c)'
<1>1. /\ TaskTypes /\ TaskTypes' /\ 0 \in Stages /\ Tasks' = Tasks
      /\ at[c] \in Stages /\ (phase[c] = "attempting" => at[c] \in 1..Last)
  <2>1. TaskTypes /\ at \in [Calls -> Stages]
    BY DEF Types
  <2> QED
    BY <2>1, ActsOnTasks, Sizes, Attempting DEF Tasks
<1>2. /\ request'[c] = request[c] /\ Moved(c)
      /\ Stays(c) \/ Accepted(c) \/ Sets(c) \/ PassesOn(c) \/ Over(c)
  BY ActsMove, HowFar
<1>3. \A i \in Stages, k \in Tasks : Moves(c, i, k)
  BY ActsOnTasks
<1>0. /\ phase[c] \in Phases
      /\ phase[c] \in {"new", "resolving"} => at[c] = 0
      /\ phase[c] = "attempting" => at[c] > 0
      /\ phase[c] \in {"resolving", "attempting"} => Valid(request[c])
      /\ phase[c] = "done" <=> result[c].how # "none"
      /\ phase[c] \in {"new", "done"} => raised[c] = "nothing"
  <2>1. phase \in [Calls -> Phases]
    BY DEF Types
  <2> QED
    BY <2>1, Zenon DEF Asked
<1>16. at[c] \in Nat /\ 1 \in Stages
  BY <1>1, Sizes
<1> DEFINE Scalars ==
      /\ phase'[c] \in {"new", "resolving"} => at'[c] = 0
      /\ phase'[c] = "attempting" => at'[c] > 0
      /\ phase'[c] \in {"resolving", "attempting"} => Valid(request[c])
      /\ phase'[c] = "done" <=> result'[c].how # "none"
      /\ phase'[c] \in {"new", "done"} => raised'[c] = "nothing"
      /\ at'[c] = at[c] \/ (at'[c] = at[c] + 1 /\ task'[c] = task[c])
<1>4. Scalars
  <2>1. ASSUME Stays(c) PROVE Scalars
    BY <1>0, <2>1 DEF Stays, GoesOn
  <2>2. ASSUME Accepted(c) PROVE Scalars
    BY <1>0, <2>2 DEF Accepted, Keeps
  <2>3. ASSUME Sets(c) PROVE Scalars
    BY <1>0, <2>3 DEF Sets
  <2>4. ASSUME PassesOn(c) PROVE Scalars
    <3>1. phase[c] = "attempting" /\ phase'[c] = phase[c] /\ result'[c] = result[c] /\ at'[c] = at[c] + 1 /\ task'[c] = task[c]
      BY <2>4, Zenon DEF PassesOn, GoesOn
    <3>2. at[c] + 1 > 0 /\ at[c] + 1 # 0
      BY <1>16
    <3> QED
      BY <1>0, <3>1, <3>2
  <2>5. ASSUME Over(c) PROVE Scalars
    BY <1>0, <2>5 DEF Over
  <2> QED
    BY <1>2, <2>1, <2>2, <2>3, <2>4, <2>5
<1> HIDE DEF Scalars
<1>14. at[c] \in Nat /\ (at'[c] = at[c] \/ (at'[c] = at[c] + 1 /\ task'[c] = task[c]))
  BY <1>1, <1>4, Sizes DEF Scalars
<1>5. ASSUME NEW i \in Stages, Untouched(c, i), i > 0, i # at[c] \/ phase[c] # "attempting" PROVE Untouched(c, i)'
  <2>1. In(c, i, InFlight) = {}
    BY <1>5 DEF Untouched, In, InFlight, Tasks
  <2> QED
    BY <1>1, <1>3, <1>5, <2>1 DEF Moves, Begins, Untouched, InFlight
<1>6. phase'[c] = "new" => Untouched(c, 0)'
  <2>1. phase'[c] = "new" => phase[c] = "new"
    BY <1>2 DEF Stays, Accepted, Sets, PassesOn, Over, GoesOn
  <2>2. ASSUME phase[c] = "new" PROVE Untouched(c, 0)'
    <3>1. Untouched(c, 0)
      BY <2>2 DEF Asked
    <3> QED
      BY <1>1, <1>3, <2>2, <3>1 DEF Moves, Begins, Untouched, InFlight
  <2> QED
    BY <2>1, <2>2
<1>7. ASSUME NEW i \in Stages \ {0}, i > at'[c] PROVE Untouched(c, i)'
  <2>1. i \in Nat /\ i > 0 /\ i > at[c]
    BY <1>7, <1>14, Sizes
  <2>2. Untouched(c, i)
    BY <2>1 DEF Asked
  <2> QED
    BY <1>5, <1>14, <2>1, <2>2
<1>9. ASSUME NEW j, j = at'[c], phase'[c] = "attempting", ~Untouched(c, j)' PROVE Supports(Chain[j], request[c])
  <2>1. CASE j = at[c] /\ phase[c] = "attempting"
    <3>1. CASE Untouched(c, j)
      <4>1. PICK k \in Tasks : task'[c][j][k] # "none"
        BY <1>9 DEF Untouched
      <4>2. Begins(c, j, k)
        BY <1>1, <1>3, <2>1, <3>1, <4>1 DEF Moves, Untouched, InFlight
      <4>3. In(c, j, InFlight) = {}
        BY <3>1 DEF Untouched, In, InFlight, Tasks
      <4>4. j > 0
        BY <1>0, <2>1
      <4> QED
        BY <4>2, <4>3, <4>4 DEF Begins
    <3>2. CASE ~Untouched(c, j)
      BY <2>1, <3>2 DEF Asked
    <3> QED
      BY <3>1, <3>2
  <2>2. CASE ~(j = at[c] /\ phase[c] = "attempting")
    <3>1. task'[c] = task[c] /\ j > at[c] /\ j \in Stages \ {0}
      <4>1. ~Stays(c) /\ ~Accepted(c) /\ ~Over(c)
        BY <1>9, <2>2 DEF Stays, Accepted, Over, GoesOn
      <4>2. CASE Sets(c)
        BY <1>0, <1>9, <1>16, <4>2 DEF Sets
      <4>3. CASE PassesOn(c)
        <5>1. at[c] < Last /\ at'[c] = at[c] + 1 /\ task'[c] = task[c]
          BY <4>3, Zenon DEF PassesOn
        <5> QED
          BY <1>9, <1>16, <5>1, Sizes
      <4> QED
        BY <1>2, <4>1, <4>2, <4>3
    <3>2. Untouched(c, j)
      BY <3>1 DEF Asked
    <3> QED
      BY <1>9, <3>1, <3>2 DEF Untouched
  <2> QED
    BY <2>1, <2>2
<1>10. \A k \in Tasks : task'[c][0][k] # "none" => k \in 1..request[c].texts
  <2>1. \A k \in Tasks : task[c][0][k] # "none" => k \in 1..request[c].texts
    BY <1>1, NotNone DEF Asked
  <2> QED
    BY <1>1, <1>3, <2>1 DEF Moves, Begins, InFlight
<1>11. ASSUME NEW i \in Stages \ {0} PROVE \A k \in Tasks : task'[c][i][k] # "none" => k \in Wanted(Chain[i], request[c])
  <2>1. \A k \in Tasks : task[c][i][k] # "none" => k \in Wanted(Chain[i], request[c])
    BY <1>1, NotNone DEF Asked
  <2> QED
    BY <1>1, <1>3, <2>1 DEF Moves, Begins, InFlight
<1>12. /\ In(c, 0, TaskStates \ {"none"})' \subseteq 1..request[c].texts
       /\ \A i \in Stages \ {0} : In(c, i, TaskStates \ {"none"})' \subseteq Wanted(Chain[i], request[c])
  BY <1>1, <1>10, <1>11 DEF In, Tasks
<1>13. ASSUME phase'[c] = "attempting" \/ result'[c].how = "ok" PROVE In(c, 0, {"ok"})' = 1..request[c].texts
  <2>1. In(c, 0, {"ok"}) = 1..request[c].texts
    BY <1>2, <1>13 DEF Asked, Stays, Accepted, Sets, PassesOn, Over, GoesOn, Answers
  <2>2. \A k \in 1..request[c].texts : k \in Tasks /\ task[c][0][k] = "ok"
    BY <2>1 DEF In, Tasks
  <2>3. \A k \in 1..request[c].texts : task'[c][0][k] = "ok"
    BY <1>1, <1>3, <2>2 DEF Moves, InFlight
  <2> QED
    BY <1>10, <2>2, <2>3 DEF In, Tasks
<1>15. phase'[c] = "attempting" /\ ~(Untouched(c, at[c])') => Supports(Chain[at'[c]], request[c])
  BY <1>9 DEF Untouched
<1> QED
  BY <1>2, <1>4, <1>6, <1>7, <1>12, <1>13, <1>15 DEF Asked, Scalars

\* What a stage has come to lasts.
LEMMA Lasting ==
  ASSUME Types, NEW c \in Calls, Asked(c), Acts(c), NEW i \in Stages
  PROVE  /\ Recorded(c, i) \subseteq Recorded(c, i)'
         /\ In(c, i, {"failed", "refused"}) \subseteq In(c, i, {"failed", "refused"})'
         /\ In(c, i, {"ok"}) \subseteq In(c, i, {"ok"})'
         /\ Broken(c, i) => Broken(c, i)'
         /\ i > 0 /\ Complete(c, i) => Complete(c, i)'
         /\ Chain[i]' = Chain[i]
<1>1. \A k \in Tasks : Moves(c, i, k)
  BY ActsOnTasks
<1>2. ASSUME NEW S, S \cap InFlight = {}, "none" \notin S PROVE In(c, i, S) \subseteq In(c, i, S)'
  BY <1>1, <1>2 DEF In, Moves, Tasks
<1>3. /\ In(c, i, {"failed", "refused"}) \subseteq In(c, i, {"failed", "refused"})'
      /\ In(c, i, {"ok"}) \subseteq In(c, i, {"ok"})'
      /\ In(c, i, Finished) \subseteq In(c, i, Finished)'
  BY <1>2 DEF InFlight, Finished
<1>4. Recorded(c, i) \subseteq Recorded(c, i)'
  BY <1>3 DEF Recorded
<1>5. ASSUME i > 0, Complete(c, i) PROVE Complete(c, i)'
  <2>1. Asked(c)' /\ request'[c] = request[c] /\ i \in Stages \ {0}
    BY <1>5, AskedStep, ActsMove, Sizes
  <2>2. In(c, i, TaskStates \ {"none"})' \subseteq Wanted(Chain[i], request[c])
    BY <2>1 DEF Asked
  <2>3. In(c, i, {"ok"})' \subseteq In(c, i, TaskStates \ {"none"})'
    BY DEF In, TaskStates
  <2> QED
    BY <1>3, <1>5, <2>1, <2>2, <2>3 DEF Complete
<1>6. Chain[i]' = Chain[i]
  BY DEF Chain, IfConfigured
<1> QED
  BY <1>3, <1>4, <1>5, <1>6 DEF Broken

\* Why an error is raised.
Raises(c) ==
  /\ phase[c] = "attempting" /\ raised[c] = "nothing" /\ GoesOn(c) /\ at'[c] = at[c]
  /\ raised'[c] \in {"error", "failed", "timed out"}
  /\ \/ Unable(c) \/ Rejects(c)
     \/ \E k \in Tasks, s \in {"failed", "refused"} :
          /\ task[c][at[c]][k] = "sent" /\ Settle(c, at[c], k, s)
          /\ s = "refused" => raised'[c] = "error"

LEMMA RaisedWhy ==
  ASSUME NEW c \in Calls, Moved(c)
  PROVE  \/ raised'[c] = raised[c]
         \/ raised'[c] = "nothing"
         \/ phase[c] = "resolving" /\ GoesOn(c) /\ raised'[c] = "error" /\ at'[c] = at[c]
         \/ Raises(c)
<1>1. CASE LooksUp(c) \/ Requesting(c) \/ Succeeding(c) \/ Accepted(c) \/ Sets(c) \/ PassesOn(c) \/ Asks(c)
  BY <1>1, Zenon DEF LooksUp, Requesting, Succeeding, Accepted, Sets, PassesOn, Asks
<1>2. CASE Failing(c)
  <2>1. PICK i \in Stages \ {0}, k \in Tasks, s \in {"failed", "refused"} :
          /\ task[c][i][k] = "sent" /\ Settle(c, i, k, s)
          /\ IF Awaits(c, i) /\ raised[c] = "nothing"
             THEN raised'[c] \in {"error", "failed", "timed out"} /\ (s = "refused" => raised'[c] = "error")
             ELSE raised'[c] = raised[c]
    BY <1>2, Zenon DEF Failing
  <2>2. CASE Awaits(c, i) /\ raised[c] = "nothing"
    BY <1>2, <2>1, <2>2 DEF Failing, Awaits, Keeps, Raises
  <2> QED
    BY <2>1, <2>2
<1>3. CASE Unable(c) \/ Rejects(c)
  BY <1>3 DEF Unable, Rejects, Raises, Keeps, Fresh
<1>4. CASE EndsEarly(c) \/ Crashes(c) \/ Answers(c) \/ GivesUp(c) \/ Expires(c)
  BY <1>4, Zenon DEF EndsEarly, Crashes, Answers, GivesUp, Expires, Ends
<1> QED
  BY <1>1, <1>2, <1>3, <1>4 DEF Moved

LEMMA PathStep ==
  ASSUME Types, NEW c \in Calls, Asked(c), PathTaken(c), Acts(c)
  PROVE  PathTaken(c)'
<1>1. /\ request'[c] = request[c] /\ Moved(c)
      /\ Stays(c) \/ Accepted(c) \/ Sets(c) \/ PassesOn(c) \/ Over(c)
  BY ActsMove, HowFar
<1>2. \A i \in Stages \ {0} : (Passed(c, i) => Passed(c, i)') /\ (Complete(c, i) => Complete(c, i)') /\ Chain[i]' = Chain[i]
  <2>1. ASSUME NEW i \in Stages \ {0} PROVE (Passed(c, i) => Passed(c, i)') /\ (Complete(c, i) => Complete(c, i)') /\ Chain[i]' = Chain[i]
    <3>1. i > 0
      BY Sizes
    <3>2. /\ Broken(c, i) => Broken(c, i)'
          /\ Complete(c, i) => Complete(c, i)'
          /\ Chain[i]' = Chain[i]
      BY <3>1, Lasting
    <3>3. Supports(Chain[i], request[c])' = Supports(Chain[i], request[c])
      BY <1>1, <3>2 DEF Supports
    <3> QED
      BY <3>2, <3>3, Zenon DEF Passed
  <2> QED
    BY <2>1
<1>3. /\ at[c] \in Stages /\ at[c] \in Nat /\ (phase[c] = "attempting" => at[c] \in Stages \ {0})
      /\ phase[c] \in {"new", "resolving"} => at[c] = 0
      /\ phase[c] \in {"new", "done"} => raised[c] = "nothing"
      /\ phase[c] \in Phases
  <2>1. at \in [Calls -> Stages] /\ phase \in [Calls -> Phases]
    BY DEF Types
  <2>2. phase[c] \in {"new", "resolving"} => at[c] = 0
    BY DEF Asked
  <2>3. phase[c] \in {"new", "done"} => raised[c] = "nothing"
    BY DEF Asked
  <2> QED
    BY <2>1, <2>2, <2>3, Sizes, Attempting
<1>4. ASSUME NEW j \in Stages \ {0}, j < at'[c] PROVE Passed(c, j)'
  <2>1. CASE j < at[c]
    BY <1>2, <2>1 DEF PathTaken
  <2>2. CASE ~(j < at[c])
    <3>1. at'[c] # at[c]
      BY <1>4, <2>2
    <3>2. ~Stays(c) /\ ~Accepted(c) /\ ~Over(c)
      BY <3>1 DEF Stays, Accepted, Over, Keeps
    <3>3. ~Sets(c)
      BY <1>3, <1>4, <2>2, Sizes DEF Sets
    <3>4. phase[c] = "attempting" /\ raised[c] \in {"failed", "timed out"} /\ at'[c] = at[c] + 1
      <4>1. PassesOn(c)
        BY <1>1, <3>2, <3>3
      <4> QED
        BY <4>1, Zenon DEF PassesOn
    <3>5. j = at[c]
      <4>1. j \in Nat
        BY Sizes
      <4>2. at[c] \in Nat /\ at'[c] = at[c] + 1
        BY <1>3, <3>4, Zenon
      <4> QED
        BY <1>4, <2>2, <4>1, <4>2
    <3> QED
      BY <1>2, <3>4, <3>5 DEF PathTaken
  <2> QED
    BY <2>1, <2>2
<1>5. phase'[c] = "resolving" => raised'[c] \in {"nothing", "error"}
  <2>1. phase'[c] = "resolving" => phase[c] = "resolving" \/ Accepted(c)
    BY <1>1 DEF Stays, Sets, PassesOn, Over, GoesOn
  <2>2. CASE Accepted(c)
    BY <1>3, <2>2 DEF Accepted
  <2>3. CASE phase[c] = "resolving"
    <3>1. raised[c] \in {"nothing", "error"}
      BY <2>3 DEF PathTaken
    <3> QED
      BY <1>1, <2>3, <3>1, RaisedWhy DEF Raises
  <2> QED
    BY <2>1, <2>2, <2>3
<1>6. ASSUME phase'[c] = "attempting", raised'[c] \in {"failed", "timed out"}, NEW i, i = at'[c] PROVE Passed(c, i)'
  <2>1. CASE Raises(c)
    <3>1. i = at[c] /\ i \in Stages \ {0} /\ phase[c] = "attempting"
      BY <1>3, <1>6, <2>1 DEF Raises
    <3>2. CASE Unable(c) \/ Rejects(c)
      <4>1. Passed(c, i)
        BY <1>6, <3>1, <3>2 DEF Unable, Rejects, Passed, Ours
      <4> QED
        BY <1>2, <3>1, <4>1
    <3>3. ASSUME NEW k \in Tasks, Settle(c, at[c], k, "failed") PROVE Passed(c, i)'
      <4>1. TaskTypes /\ task'[c][i] = [task[c][i] EXCEPT ![k] = "failed"]
        <5>1. TaskTypes
          BY DEF Types
        <5>2. "failed" \in TaskStates
          BY DEF TaskStates
        <5> QED
          BY <3>1, <3>3, <5>1, <5>2, SettleEffect
      <4>2. DOMAIN task[c][i] = Tasks
        BY <3>1, <4>1 DEF TaskTypes
      <4>3. task'[c][i][k] = "failed"
        BY <4>1, <4>2
      <4>4. Broken(c, i)'
        BY <4>3 DEF Broken, In, Tasks
      <4> QED
        BY <4>4 DEF Passed
    <3>4. Unable(c) \/ Rejects(c) \/ \E k \in Tasks : Settle(c, at[c], k, "failed")
      BY <1>6, <2>1 DEF Raises
    <3> QED
      BY <3>2, <3>3, <3>4
  <2>2. CASE ~Raises(c)
    <3>1. raised'[c] = raised[c]
      BY <1>1, <1>6, <2>2, RaisedWhy
    <3>2. phase[c] = "attempting" /\ at'[c] = at[c]
      <4>1. ~Accepted(c) /\ ~Over(c) /\ ~PassesOn(c)
        BY <1>6 DEF Accepted, Over, PassesOn
      <4>2. ~Sets(c)
        BY <1>6, <3>1 DEF Sets, PathTaken
      <4> QED
        BY <1>1, <1>6, <4>1, <4>2 DEF Stays, GoesOn
    <3>3. Passed(c, i)
      BY <1>6, <3>1, <3>2 DEF PathTaken
    <3> QED
      BY <1>2, <1>3, <1>6, <3>2, <3>3
  <2> QED
    BY <2>1, <2>2
<1>7. ASSUME result'[c].how = "ok", NEW i, i = at'[c] PROVE i > 0 /\ Supports(Chain[i], request[c]) /\ Complete(c, i)'
  <2>1. CASE Over(c)
    <3>1. Answers(c) /\ i = at[c]
      BY <1>7, <2>1 DEF Over
    <3>2. phase[c] = "attempting" /\ Complete(c, i)
      BY <3>1, Zenon DEF Answers
    <3>3. i \in Stages \ {0}
      BY <1>3, <3>1, <3>2
    <3>4. request[c] \in Requests
      BY DEF Types
    <3>5. ~Untouched(c, i)
      BY <3>2, <3>4, WantedFacts DEF Untouched, Complete, In, Tasks
    <3>6. Supports(Chain[i], request[c])
      BY <3>1, <3>2, <3>5 DEF Asked
    <3> QED
      BY <1>2, <3>2, <3>3, <3>6, Sizes
  <2>2. CASE ~Over(c)
    <3>1. result[c].how = "ok"
      BY <1>1, <1>7, <2>2, Zenon DEF Stays, Accepted, Sets, PassesOn, GoesOn
    <3>2. phase[c] = "done"
      BY <3>1 DEF Asked
    <3>3. at'[c] = at[c]
      BY <1>1, <2>2, <3>2 DEF Stays, Accepted, Sets, PassesOn
    <3>4. i > 0 /\ Supports(Chain[i], request[c]) /\ Complete(c, i)
      BY <1>7, <3>1, <3>3 DEF PathTaken
    <3> QED
      BY <1>2, <1>3, <1>7, <3>3, <3>4
  <2> QED
    BY <2>1, <2>2
<1>8. Stages' = Stages
  BY DEF Stages, Last, Chain, IfConfigured
<1>9. \A i : Supports(Chain[i], request[c])' = Supports(Chain[i], request'[c])
  BY DEF Supports, Chain, IfConfigured
<1> QED
  BY <1>1, <1>4, <1>5, <1>6, <1>7, <1>8 DEF PathTaken

LEMMA RefusalStep ==
  ASSUME Types, NEW c \in Calls, Asked(c), RefusalHeard(c), Acts(c), NEW i \in Stages \ {0}, OneByOne(c, i)
  PROVE  Heard(c, i)'
<1> DEFINE F == In(c, i, InFlight)
           R == In(c, i, {"refused"})
<1>1. /\ Moved(c) /\ Heard(c, i) /\ TaskTypes
      /\ phase[c] = "attempting" => at[c] \in Stages \ {0}
      /\ phase[c] \in {"new", "resolving"} => at[c] = 0
      /\ Tasks \subseteq Nat
  <2>1. TaskTypes
    BY DEF Types
  <2>2. phase[c] \in {"new", "resolving"} => at[c] = 0
    BY DEF Asked
  <2> QED
    BY <2>1, <2>2, ActsMove, Attempting DEF RefusalHeard, Tasks
<1>2. /\ \A k \in Tasks : task[c][i][k] \in TaskStates
      /\ DOMAIN task[c][i] = Tasks
  <2>1. TaskTypes
    BY <1>1
  <2>2. task[c][i] \in [Tasks -> TaskStates]
    BY <2>1 DEF TaskTypes
  <2> QED
    BY <2>2
<1>3. /\ F = {k \in Tasks : task[c][i][k] \in InFlight}
      /\ R = {k \in Tasks : task[c][i][k] = "refused"}
      /\ In(c, i, InFlight)' = {k \in Tasks : task'[c][i][k] \in InFlight}
      /\ In(c, i, {"refused"})' = {k \in Tasks : task'[c][i][k] = "refused"}
      /\ Broken(c, i) <=> \E k \in Tasks : task[c][i][k] \in {"failed", "refused"}
      /\ Broken(c, i)' <=> \E k \in Tasks : task'[c][i][k] \in {"failed", "refused"}
  BY DEF In, Broken, Tasks
<1>4. /\ F # {} =>
           /\ at[c] = i /\ phase[c] = "attempting" /\ raised[c] = "nothing" /\ ~Broken(c, i)
           /\ \A k, n \in F : k = n
      /\ R # {} =>
           /\ at[c] = i
           /\ \/ phase[c] = "attempting" /\ raised[c] = "error"
              \/ phase[c] = "done" /\ result[c].how # "ok"
  BY <1>1 DEF Heard
<1> DEFINE Good ==
      /\ In(c, i, InFlight)' # {} =>
           /\ at'[c] = i /\ phase'[c] = "attempting" /\ raised'[c] = "nothing" /\ ~(Broken(c, i)')
           /\ \A k, n \in In(c, i, InFlight)' : k = n
      /\ In(c, i, {"refused"})' # {} =>
           /\ at'[c] = i
           /\ \/ phase'[c] = "attempting" /\ raised'[c] = "error"
              \/ phase'[c] = "done" /\ result'[c].how # "ok"
<1> SUFFICES Good
  BY DEF Heard
<1> HIDE DEF F, R
<1>5. ASSUME \A k \in Tasks : task'[c][i][k] = task[c][i][k],
             F # {} => at'[c] = at[c] /\ phase'[c] = phase[c] /\ raised'[c] = raised[c],
             R # {} => /\ at'[c] = at[c]
                       /\ \/ phase'[c] = phase[c] /\ raised'[c] = raised[c] /\ result'[c] = result[c]
                          \/ phase'[c] = "done" /\ result'[c].how # "ok"
      PROVE  Good
  <2>1. /\ In(c, i, InFlight)' = F /\ In(c, i, {"refused"})' = R /\ (Broken(c, i)' <=> Broken(c, i))
    BY <1>3, <1>5
  <2> QED
    BY <1>4, <1>5, <2>1
<1> HIDE DEF Good
<1>6. ASSUME Fresh(c), at[c] = i PROVE F = {} /\ R = {} /\ \A k \in Tasks : task[c][i][k] = "none"
  <2>1. \A k \in Tasks : task[c][i][k] = "none"
    BY <1>2, <1>6 DEF Fresh, In, Tasks
  <2> QED
    BY <1>3, <2>1 DEF InFlight
<1>7. ASSUME Complete(c, i) PROVE F = {}
  <2>1. \A k \in Tasks : task[c][i][k] # "none" => k \in Wanted(Chain[i], request[c])
    BY <1>1, NotNone DEF Asked
  <2>2. \A k \in Wanted(Chain[i], request[c]) : task[c][i][k] = "ok"
    BY <1>7 DEF Complete, In
  <2> QED
    BY <1>3, <2>1, <2>2 DEF InFlight
<1>8. ASSUME Accepted(c) \/ EndsEarly(c) \/ Sets(c) PROVE Good
  <2>1. phase[c] \in {"new", "resolving"} /\ task'[c] = task[c]
    BY <1>8 DEF Accepted, EndsEarly, Sets
  <2>2. F = {} /\ R = {}
    BY <1>1, <1>4, <2>1
  <2> QED
    BY <1>5, <2>1, <2>2
<1>9. ASSUME LooksUp(c) PROVE Good
  <2>1. /\ task'[c][i] = task[c][i] /\ at'[c] = at[c] /\ phase'[c] = phase[c] /\ result'[c] = result[c]
        /\ raised'[c] = raised[c] \/ phase[c] = "resolving"
    BY <1>9, Zenon DEF LooksUp, GoesOn
  <2>2. phase[c] = "resolving" => F = {} /\ R = {}
    BY <1>1, <1>4
  <2> QED
    BY <1>5, <2>1, <2>2
<1>10. ASSUME Unable(c) \/ Crashes(c) PROVE Good
  <2>1. /\ task'[c] = task[c] /\ at'[c] = at[c] /\ phase[c] = "attempting" /\ Fresh(c)
        /\ raised[c] = "nothing"
    BY <1>10 DEF Unable, Crashes, Keeps, Fresh
  <2>2. F = {} /\ R = {}
    BY <1>4, <1>6, <2>1
  <2> QED
    BY <1>5, <2>1, <2>2
<1>11. ASSUME Answers(c) \/ Rejects(c) PROVE Good
  <2>1. /\ task'[c] = task[c] /\ at'[c] = at[c] /\ phase[c] = "attempting" /\ Complete(c, at[c])
        /\ raised[c] = "nothing"
    BY <1>11, Zenon DEF Answers, Rejects, Keeps
  <2>2. F = {} /\ R = {}
    BY <1>4, <1>7, <2>1
  <2> QED
    BY <1>5, <2>1, <2>2
<1>12. ASSUME PassesOn(c) \/ GivesUp(c) PROVE Good
  <2>1. /\ task'[c] = task[c] /\ phase[c] = "attempting" /\ raised[c] # "nothing"
        /\ \/ raised[c] # "error"
           \/ at'[c] = at[c] /\ phase'[c] = "done" /\ result'[c].how = "error"
    <3>1. CASE PassesOn(c)
      BY <3>1 DEF PassesOn
    <3>2. CASE GivesUp(c)
      BY <3>2 DEF GivesUp, Ends
    <3> QED
      BY <1>12, <3>1, <3>2
  <2>2. F = {} /\ (raised[c] # "error" => R = {})
    BY <1>4, <2>1
  <2> QED
    BY <1>5, <2>1, <2>2
<1>13. ASSUME Expires(c) PROVE Good
  <2>1. /\ phase[c] \in {"resolving", "attempting"} /\ at'[c] = at[c]
        /\ phase'[c] = "done" /\ result'[c].how = "deadline" /\ Deadline(c)
    BY <1>13 DEF Expires, Keeps, Ends
  <2>2. at[c] \in Stages
    BY DEF Types
  <2>3. CASE i # at[c]
    <3>1. task'[c][i] = task[c][i]
      BY <1>1, <2>1, <2>2, <2>3, DeadlineEffect
    <3>2. F = {} /\ R = {}
      BY <1>4, <2>3
    <3> QED
      BY <1>5, <3>1, <3>2
  <2>4. CASE i = at[c] /\ raised[c] # "nothing"
    <3>1. task'[c] = task[c]
      BY <1>1, <2>1, <2>2, <2>4, DeadlineEffect
    <3>2. F = {}
      BY <1>4, <2>4
    <3> QED
      BY <1>5, <2>1, <3>1, <3>2
  <2>5. CASE i = at[c] /\ raised[c] = "nothing"
    <3>1. \A k \in Tasks : task'[c][i][k] =
                IF task[c][i][k] = "sent" THEN "cancelled"
                ELSE IF task[c][i][k] \in {"wait", "paced"} THEN "dropped" ELSE task[c][i][k]
      BY <1>1, <2>1, <2>2, <2>5, DeadlineEffect
    <3>2. In(c, i, InFlight)' = {}
      BY <1>3, <3>1 DEF InFlight
    <3>3. R = {}
      BY <1>1, <1>4, <2>1, <2>5
    <3>4. In(c, i, {"refused"})' = {}
      BY <1>3, <3>1, <3>3
    <3> QED
      BY <3>2, <3>4 DEF Good
  <2> QED
    BY <2>3, <2>4, <2>5
<1>14. ASSUME Requesting(c) PROVE Good
  <2>1. /\ at'[c] = at[c] /\ phase'[c] = phase[c] /\ result'[c] = result[c] /\ raised'[c] = raised[c]
    BY <1>14, Zenon DEF Requesting, GoesOn, Keeps
  <2>2. PICK j \in Stages \ {0}, k \in Tasks, s \in InFlight : task[c][j][k] \in InFlight /\ Settle(c, j, k, s)
    BY <1>14 DEF Requesting
  <2>3. /\ \A h \in Stages \ {j} : task'[c][h] = task[c][h]
        /\ task'[c][j] = [task[c][j] EXCEPT ![k] = s]
    <3>1. s \in TaskStates
      BY DEF InFlight, TaskStates
    <3> QED
      BY <1>1, <2>2, <3>1, SettleEffect
  <2>4. CASE i = j
    <3>1. /\ \A n \in Tasks \ {k} : task'[c][i][n] = task[c][i][n]
          /\ task'[c][i][k] \in InFlight /\ task[c][i][k] \in InFlight
      BY <1>2, <2>2, <2>3, <2>4
    <3>2. /\ In(c, i, InFlight)' = F /\ In(c, i, {"refused"})' = R /\ (Broken(c, i)' <=> Broken(c, i))
      BY <1>3, <3>1 DEF InFlight
    <3> QED
      BY <1>4, <2>1, <3>2 DEF Good
  <2>5. CASE i # j
    BY <1>5, <2>1, <2>3, <2>5
  <2> QED
    BY <2>4, <2>5
<1>15. ASSUME Succeeding(c) PROVE Good
  <2>1. /\ at'[c] = at[c] /\ phase'[c] = phase[c] /\ result'[c] = result[c] /\ raised'[c] = raised[c]
    BY <1>15, Zenon DEF Succeeding, GoesOn, Keeps
  <2>2. PICK j \in Stages \ {0}, k \in Tasks : task[c][j][k] = "sent" /\ Succeeds(c, j, k)
    BY <1>15 DEF Succeeding
  <2>3. /\ \A h \in Stages \ {j} : task'[c][h] = task[c][h]
        /\ task'[c][j][k] = "ok"
        /\ \A n \in Tasks \ {k} : task'[c][j][n] = IF Follows(c, j, k, n) THEN "wait" ELSE task[c][j][n]
    BY <1>1, <2>2, SuccessEffect
  <2>4. CASE i = j
    <3>1. F = {k} /\ R = {}
      BY <1>3, <1>4, <2>2, <2>4 DEF InFlight
    <3>2. at[c] = i /\ phase[c] = "attempting" /\ raised[c] = "nothing" /\ ~Broken(c, i)
      BY <1>4, <3>1
    <3>3. In(c, i, {"refused"})' = {} /\ ~(Broken(c, i)')
      BY <1>3, <2>3, <2>4, <3>1, <3>2
    <3>4. \A n \in In(c, i, InFlight)' : n = k + 1
      BY <1>3, <2>3, <2>4, <3>1 DEF Follows, InFlight
    <3> QED
      BY <2>1, <3>2, <3>3, <3>4 DEF Good
  <2>5. CASE i # j
    BY <1>5, <2>1, <2>3, <2>5
  <2> QED
    BY <2>4, <2>5
<1>16. ASSUME Failing(c) PROVE Good
  <2>1. /\ at'[c] = at[c] /\ phase'[c] = phase[c] /\ result'[c] = result[c]
    BY <1>16, Zenon DEF Failing, GoesOn, Keeps
  <2>2. PICK j \in Stages \ {0}, k \in Tasks, s \in {"failed", "refused"} :
          /\ task[c][j][k] = "sent" /\ Settle(c, j, k, s)
          /\ IF Awaits(c, j) /\ raised[c] = "nothing"
             THEN raised'[c] \in {"error", "failed", "timed out"} /\ (s = "refused" => raised'[c] = "error")
             ELSE raised'[c] = raised[c]
    BY <1>16, Zenon DEF Failing
  <2>6. task[c][j][k] = "sent" /\ Settle(c, j, k, s) /\ s \in {"failed", "refused"}
    BY <2>2, Zenon
  <2>3. /\ \A h \in Stages \ {j} : task'[c][h] = task[c][h]
        /\ task'[c][j] = [task[c][j] EXCEPT ![k] = s]
    <3>1. s \in TaskStates
      BY DEF TaskStates
    <3> QED
      BY <1>1, <2>6, <3>1, SettleEffect
  <2>4. CASE i = j
    <3>1. F = {k} /\ R = {}
      BY <1>3, <1>4, <2>4, <2>6 DEF InFlight
    <3>2. at[c] = i /\ phase[c] = "attempting" /\ raised[c] = "nothing"
      BY <1>4, <3>1
    <3>3. s = "refused" => raised'[c] = "error"
      BY <2>2, <2>4, <3>2 DEF Awaits
    <3>4. /\ \A n \in Tasks \ {k} : task'[c][i][n] = task[c][i][n]
          /\ task'[c][i][k] = s
      BY <1>2, <2>3, <2>4
    <3>5. In(c, i, InFlight)' = {} /\ (s = "failed" => In(c, i, {"refused"})' = {})
      BY <1>3, <3>1, <3>4 DEF InFlight
    <3> QED
      BY <2>1, <2>6, <3>2, <3>3, <3>5 DEF Good
  <2>5. CASE i # j
    <3>1. raised'[c] = raised[c] \/ (Awaits(c, j) /\ raised[c] = "nothing")
      BY <2>2
    <3>2. (Awaits(c, j) /\ raised[c] = "nothing") => F = {} /\ R = {}
      BY <1>4, <2>5 DEF Awaits
    <3> QED
      BY <1>5, <2>1, <2>3, <2>5, <3>1, <3>2
  <2> QED
    BY <2>4, <2>5
<1>17. ASSUME Asks(c) PROVE Good
  <2>1. /\ at'[c] = at[c] /\ phase'[c] = phase[c] /\ result'[c] = result[c] /\ raised'[c] = raised[c]
        /\ phase[c] = "attempting" /\ Fresh(c) /\ raised[c] = "nothing" /\ at[c] \in Stages
    BY <1>1, <1>17, Zenon DEF Asks, GoesOn, Keeps, Fresh
  <2>2. AtOnce(Ours(c), request[c]) \in SUBSET Tasks
    <3>1. request[c] \in Requests
      BY DEF Types
    <3> QED
      BY <3>1, WantedFacts
  <2>3. Untouched(c, at[c])
    <3>1. \A k \in Tasks : task[c][at[c]][k] \in TaskStates
      BY <1>1, <2>1 DEF TaskTypes
    <3> QED
      BY <2>1, <3>1 DEF Untouched, Fresh, In, Tasks
  <2>4. /\ \A j \in Stages \ {at[c]} : task'[c][j] = task[c][j]
        /\ \A k \in Tasks : task'[c][at[c]][k] = IF k \in AtOnce(Ours(c), request[c]) THEN "wait" ELSE "none"
    BY <1>1, <1>17, <2>1, <2>2, <2>3, EnterEffect DEF Asks
  <2>5. CASE i = at[c]
    <3>1. \A k \in Tasks : task'[c][i][k] = IF k = 1 THEN "wait" ELSE "none"
      BY <2>4, <2>5 DEF OneByOne, Ours
    <3>2. /\ In(c, i, InFlight)' \subseteq {1} /\ In(c, i, {"refused"})' = {} /\ ~(Broken(c, i)')
      BY <1>3, <3>1 DEF InFlight
    <3> QED
      BY <2>1, <2>5, <3>2 DEF Good
  <2>6. CASE i # at[c]
    BY <1>5, <2>1, <2>4, <2>6
  <2> QED
    BY <2>5, <2>6
<1> QED
  BY <1>1, <1>8, <1>9, <1>10, <1>11, <1>12, <1>13, <1>14, <1>15, <1>16, <1>17 DEF Moved

LEMMA OfFacts ==
  /\ \A p, a, b : Of(p, a \cup b) = Of(p, a) \cup Of(p, b)
  /\ \A p, a : (\A w \in a : w[1] = "ambiguous") => Of(p, a) = {}
  /\ \A p, q, r : Of(p, OwnWarnings(q, r)) = IF p = q THEN OwnWarnings(q, r) ELSE {}
  /\ \A p, q : \A how \in {"failed", "timed out"} : Of(p, {<<how, q>>}) = IF p = q THEN {<<how, q>>} ELSE {}
<1>1. \A p, a, b : Of(p, a \cup b) = Of(p, a) \cup Of(p, b)
  BY DEF Of
<1>2. \A p, a : (\A w \in a : w[1] = "ambiguous") => Of(p, a) = {}
  BY DEF Of
<1>3. ASSUME NEW p, NEW q, NEW how \in {"failed", "timed out", "static times"}
      PROVE  Of(p, {<<how, q>>}) = IF p = q THEN {<<how, q>>} ELSE {}
  <2>1. <<how, q>>[1] # "ambiguous" /\ <<how, q>>[2] = q
    OBVIOUS
  <2> QED
    BY <2>1 DEF Of
<1>4. ASSUME NEW p, NEW q, NEW r PROVE Of(p, OwnWarnings(q, r)) = IF p = q THEN OwnWarnings(q, r) ELSE {}
  <2>1. OwnWarnings(q, r) = {} \/ OwnWarnings(q, r) = {<<"static times", q>>}
    BY DEF OwnWarnings
  <2>2. Of(p, {}) = {}
    BY DEF Of
  <2> QED
    BY <1>3, <2>1, <2>2
<1> QED
  BY <1>1, <1>2, <1>3, <1>4

\* The warnings ws tell of the providers before the one at n, and no others.
Passing(ws, n) ==
  \A j \in Stages \ {0} :
    /\ j < n => \E how \in {"failed", "timed out"} : Of(Chain[j], ws) = {<<how, Chain[j]>>}
    /\ j >= n => Of(Chain[j], ws) = {}

LEMMA StoryStep ==
  ASSUME Types, NEW c \in Calls, Asked(c), StoryTold(c), Acts(c)
  PROVE  StoryTold(c)'
<1>1. /\ Moved(c) /\ request'[c] = request[c] /\ at[c] \in Nat
      /\ phase[c] = "attempting" => at[c] \in Stages \ {0}
      /\ Stages = 0..Last /\ Last \in Nat
  <2>1. at \in [Calls -> Stages]
    BY DEF Types
  <2> QED
    BY <2>1, ActsMove, Attempting, Sizes
<1>2. /\ phase[c] = "attempting" => Passing(warnings[c], at[c])
      /\ phase[c] \in {"new", "resolving"} => \A w \in warnings[c] : w[1] = "ambiguous"
      /\ result[c].how = "ok" =>
           \A j \in Stages \ {0} :
             /\ j < at[c] => \E how \in {"failed", "timed out"} : Of(Chain[j], result[c].warnings) = {<<how, Chain[j]>>}
             /\ j = at[c] => Of(Chain[j], result[c].warnings) = OwnWarnings(Chain[j], request[c])
             /\ j > at[c] => Of(Chain[j], result[c].warnings) = {}
  BY DEF StoryTold, Passing
<1> DEFINE Good ==
      /\ phase'[c] = "attempting" => Passing(warnings'[c], at'[c])
      /\ phase'[c] \in {"new", "resolving"} => \A w \in warnings'[c] : w[1] = "ambiguous"
      /\ result'[c].how = "ok" =>
           \A j \in Stages \ {0} :
             /\ j < at'[c] => \E how \in {"failed", "timed out"} : Of(Chain[j], result'[c].warnings) = {<<how, Chain[j]>>}
             /\ j = at'[c] => Of(Chain[j], result'[c].warnings) = OwnWarnings(Chain[j], request[c])
             /\ j > at'[c] => Of(Chain[j], result'[c].warnings) = {}
<1> SUFFICES Good
  <2>1. Chain' = Chain /\ Stages' = Stages /\ Passing(warnings'[c], at'[c]) = Passing(warnings[c], at[c])'
    BY DEF Chain, IfConfigured, Stages, Last, Passing, Of
  <2>2. \A p, ws : Of(p, ws)' = Of(p, ws)
    BY DEF Of
  <2> QED
    BY <1>1, <2>1, <2>2 DEF StoryTold, Passing, OwnWarnings
<1>3. ASSUME GoesOn(c), at'[c] = at[c], warnings'[c] = warnings[c] PROVE Good
  BY <1>2, <1>3 DEF GoesOn
<1> HIDE DEF Good
<1>4. CASE Requesting(c) \/ Succeeding(c) \/ Failing(c) \/ Unable(c) \/ Asks(c) \/ Rejects(c)
  <2>1. GoesOn(c) /\ Keeps(c)
    BY <1>4, Zenon DEF Requesting, Succeeding, Failing, Unable, Asks, Rejects
  <2> QED
    BY <1>3, <2>1 DEF Keeps
<1>5. CASE LooksUp(c)
  <2>1. PICK n \in SUBSET ({"ambiguous"} \X Tasks) : warnings'[c] = warnings[c] \cup n
    BY <1>5 DEF LooksUp
  <2>2. \A w \in n : w[1] = "ambiguous"
    OBVIOUS
  <2>3. ASSUME NEW p PROVE Of(p, warnings'[c]) = Of(p, warnings[c])
    <3>1. Of(p, warnings[c] \cup n) = Of(p, warnings[c]) \cup Of(p, n) /\ Of(p, n) = {}
      BY <2>2 DEF Of
    <3> QED
      BY <2>1, <3>1
  <2>4. GoesOn(c) /\ at'[c] = at[c]
    BY <1>5 DEF LooksUp
  <2>5. Passing(warnings[c], at[c]) => Passing(warnings'[c], at[c])
    BY <2>3 DEF Passing
  <2> QED
    BY <1>2, <2>1, <2>2, <2>4, <2>5 DEF Good, GoesOn
<1>6. CASE Accepted(c)
  <2>1. /\ phase[c] = "new" /\ phase'[c] = "resolving" /\ warnings'[c] = warnings[c]
        /\ result'[c] = result[c]
    BY <1>6 DEF Accepted, Keeps
  <2>2. result[c].how # "ok"
    BY <2>1 DEF Asked
  <2> QED
    BY <1>2, <2>1, <2>2 DEF Good
<1>7. CASE EndsEarly(c) \/ Crashes(c) \/ GivesUp(c) \/ Expires(c)
  <2>1. phase'[c] = "done" /\ result'[c].how # "ok"
    <3>1. CASE EndsEarly(c)
      <4>1. PICK how \in {"invalid", "error", "crash"}, m \in SUBSET Context(c) : Ends(c, how, m, {})
        BY <3>1 DEF EndsEarly
      <4> QED
        BY <4>1 DEF Ends
    <3>2. CASE Crashes(c) \/ GivesUp(c) \/ Expires(c)
      BY <3>2 DEF Crashes, GivesUp, Expires, Ends
    <3> QED
      BY <1>7, <3>1, <3>2
  <2> QED
    BY <2>1 DEF Good
<1>8. CASE Sets(c)
  <2>1. /\ phase[c] = "resolving" /\ phase'[c] = "attempting" /\ at'[c] = 1
        /\ warnings'[c] = warnings[c] /\ result'[c] = result[c]
    BY <1>8, Zenon DEF Sets
  <2>2. \A p : Of(p, warnings[c]) = {}
    BY <1>2, <2>1, OfFacts
  <2>3. \A j \in Stages \ {0} : ~(j < 1)
    BY <1>1
  <2>4. result[c].how # "ok"
    BY <2>1 DEF Asked
  <2>5. Passing(warnings'[c], 1)
    BY <2>1, <2>2, <2>3 DEF Passing
  <2> QED
    BY <2>1, <2>4, <2>5 DEF Good
<1>9. \A i, j \in Stages \ {0} : Chain[i] = Chain[j] => i = j
  <2>1. \A i \in Stages \ {0} : i \in DOMAIN Chain
    BY ChainFacts, InChain DEF Last
  <2> QED
    BY <2>1, ChainFacts DEF Distinct
<1>10. CASE Answers(c)
  <2>1. /\ phase[c] = "attempting" /\ at'[c] = at[c] /\ phase'[c] = "done"
        /\ result'[c].warnings = warnings[c] \cup OwnWarnings(Chain[at[c]], request[c])
    BY <1>10 DEF Answers, Ends, Ours
  <2>3. ASSUME NEW j \in Stages \ {0}
        PROVE  Of(Chain[j], result'[c].warnings) =
                 IF j = at[c] THEN Of(Chain[j], warnings[c]) \cup OwnWarnings(Chain[j], request[c])
                 ELSE Of(Chain[j], warnings[c])
    <3> DEFINE own == OwnWarnings(Chain[at[c]], request[c])
    <3>1. Of(Chain[j], warnings[c] \cup own) = Of(Chain[j], warnings[c]) \cup Of(Chain[j], own)
      BY DEF Of
    <3>2. Of(Chain[j], own) = IF Chain[j] = Chain[at[c]] THEN own ELSE {}
      BY OfFacts, Zenon
    <3>3. Chain[j] = Chain[at[c]] <=> j = at[c]
      BY <1>1, <1>9, <2>1
    <3>4. result'[c].warnings = warnings[c] \cup own
      BY <2>1
    <3> HIDE DEF own
    <3>5. CASE j = at[c]
      <4>1. own = OwnWarnings(Chain[j], request[c])
        BY <3>5 DEF own
      <4> QED
        BY <3>1, <3>2, <3>4, <3>5, <4>1
    <3>6. CASE j # at[c]
      BY <3>1, <3>2, <3>3, <3>4, <3>6
    <3> QED
      BY <3>5, <3>6
  <2>4. Passing(warnings[c], at[c])
    BY <1>2, <2>1
  <2>5. \A j \in Stages \ {0} : j \in Nat
    BY <1>1
  <2>6. ASSUME NEW j \in Stages \ {0}
        PROVE  /\ j < at[c] => \E how \in {"failed", "timed out"} : Of(Chain[j], result'[c].warnings) = {<<how, Chain[j]>>}
               /\ j = at[c] => Of(Chain[j], result'[c].warnings) = OwnWarnings(Chain[j], request[c])
               /\ j > at[c] => Of(Chain[j], result'[c].warnings) = {}
    <3>1. /\ j < at[c] => \E how \in {"failed", "timed out"} : Of(Chain[j], warnings[c]) = {<<how, Chain[j]>>}
          /\ j >= at[c] => Of(Chain[j], warnings[c]) = {}
      BY <2>4 DEF Passing
    <3>2. j \in Nat /\ at[c] \in Nat
      BY <1>1, <2>5
    <3>3. CASE j < at[c]
      <4>1. j # at[c] /\ ~(j > at[c])
        BY <3>2, <3>3
      <4> QED
        BY <2>3, <3>1, <3>3, <4>1
    <3>4. CASE j = at[c]
      <4>1. j >= at[c] /\ ~(j < at[c]) /\ ~(j > at[c])
        BY <3>2, <3>4
      <4> QED
        BY <2>3, <3>1, <3>4, <4>1
    <3>5. CASE j > at[c]
      <4>1. j >= at[c] /\ ~(j < at[c]) /\ j # at[c]
        BY <3>2, <3>5
      <4> QED
        BY <2>3, <3>1, <4>1
    <3> QED
      BY <3>2, <3>3, <3>4, <3>5
  <2> QED
    BY <2>1, <2>6 DEF Good
<1>11. CASE PassesOn(c)
  <2>1. /\ phase[c] = "attempting" /\ raised[c] \in {"failed", "timed out"}
        /\ phase'[c] = "attempting" /\ result'[c] = result[c] /\ at'[c] = at[c] + 1
        /\ warnings'[c] = warnings[c] \cup {<<raised[c], Chain[at[c]]>>}
    BY <1>11, Zenon DEF PassesOn, GoesOn, Ours
  <2>2. ASSUME NEW j \in Stages \ {0}
        PROVE  Of(Chain[j], warnings'[c]) =
                 IF j = at[c] THEN Of(Chain[j], warnings[c]) \cup {<<raised[c], Chain[j]>>}
                 ELSE Of(Chain[j], warnings[c])
    <3> DEFINE new == {<<raised[c], Chain[at[c]]>>}
    <3>1. Of(Chain[j], warnings[c] \cup new) = Of(Chain[j], warnings[c]) \cup Of(Chain[j], new)
      BY DEF Of
    <3>2. Of(Chain[j], new) = IF Chain[j] = Chain[at[c]] THEN new ELSE {}
      BY <2>1, OfFacts
    <3>3. Chain[j] = Chain[at[c]] <=> j = at[c]
      BY <1>1, <1>9, <2>1
    <3>4. warnings'[c] = warnings[c] \cup new
      BY <2>1
    <3> HIDE DEF new
    <3>5. CASE j = at[c]
      <4>1. new = {<<raised[c], Chain[j]>>}
        BY <3>5 DEF new
      <4> QED
        BY <3>1, <3>2, <3>4, <3>5, <4>1
    <3>6. CASE j # at[c]
      BY <3>1, <3>2, <3>3, <3>4, <3>6
    <3> QED
      BY <3>5, <3>6
  <2>3. Passing(warnings[c], at[c])
    BY <1>2, <2>1
  <2>4. result[c].how # "ok"
    BY <2>1 DEF Asked
  <2>5. ASSUME NEW j \in Stages \ {0}
        PROVE  /\ j < at'[c] => \E how \in {"failed", "timed out"} : Of(Chain[j], warnings'[c]) = {<<how, Chain[j]>>}
               /\ j >= at'[c] => Of(Chain[j], warnings'[c]) = {}
    <3>1. j \in Nat
      BY <1>1
    <3>2. /\ j < at[c] => \E how \in {"failed", "timed out"} : Of(Chain[j], warnings[c]) = {<<how, Chain[j]>>}
          /\ j >= at[c] => Of(Chain[j], warnings[c]) = {}
      BY <2>3 DEF Passing
    <3>3. at[c] \in Nat /\ at'[c] = at[c] + 1
      BY <1>1, <2>1, Zenon
    <3>4. CASE j < at[c]
      <4>1. j # at[c] /\ ~(j >= at[c] + 1)
        BY <3>1, <3>3, <3>4
      <4> QED
        BY <2>2, <3>2, <3>3, <3>4, <4>1
    <3>5. CASE j = at[c]
      <4>1. j >= at[c] /\ ~(j >= at[c] + 1)
        BY <3>1, <3>3, <3>5
      <4>2. raised[c] \in {"failed", "timed out"}
        BY <2>1
      <4>3. Of(Chain[j], warnings'[c]) = {<<raised[c], Chain[j]>>}
        BY <2>2, <3>2, <3>5, <4>1
      <4> QED
        BY <3>3, <4>1, <4>2, <4>3
    <3>6. CASE j > at[c]
      <4>1. j >= at[c] /\ ~(j < at[c] + 1) /\ j # at[c]
        BY <3>1, <3>3, <3>6
      <4>2. Of(Chain[j], warnings'[c]) = {}
        BY <2>2, <3>2, <4>1
      <4> QED
        BY <3>3, <4>1, <4>2
    <3>7. j < at[c] \/ j = at[c] \/ j > at[c]
      BY <3>1, <3>3
    <3> QED
      BY <3>4, <3>5, <3>6, <3>7
  <2>6. Passing(warnings'[c], at'[c])
    BY <2>5 DEF Passing
  <2> QED
    BY <2>1, <2>4, <2>6 DEF Good
<1> QED
  BY <1>1, <1>4, <1>5, <1>6, <1>7, <1>8, <1>10, <1>11 DEF Moved

\* A stage that has not been asked for is asked for only by the attempt that is on.
LEMMA StaysUntouched ==
  ASSUME Types, NEW c \in Calls, Asked(c), Acts(c), NEW i \in Stages \ {0}, Untouched(c, i),
         i # at[c] \/ phase[c] # "attempting" \/ raised[c] # "nothing"
  PROVE  Untouched(c, i)'
<1>1. In(c, i, InFlight) = {}
  BY DEF Untouched, In, InFlight, Tasks
<1>2. /\ \A k \in Tasks : Moves(c, i, k)
      /\ i > 0 /\ Tasks' = Tasks
  BY ActsOnTasks, Sizes DEF Tasks
<1> QED
  BY <1>1, <1>2 DEF Moves, Begins, Untouched, InFlight

\* The end of a stage, when it is merged.
LEMMA ToldNow ==
  ASSUME Types, NEW c \in Calls, Asked(c), NEW i \in Stages \ {0}, NEW ts, \A t \in ts : t[1] # i,
         Untouched(c, i) \/ Complete(c, i) \/ Broken(c, i)
  PROVE  /\ Told(c, i, ts \cup Recorded(c, i))
         /\ Complete(c, i) => Counted(ts \cup Recorded(c, i), i) = {i} \X Wanted(Chain[i], request[c])
<1>1. TaskTypes
  BY DEF Types
<1>2. Counted(ts \cup Recorded(c, i), i) = Recorded(c, i)
  <2>1. \A t \in Recorded(c, i) : t[1] = i
    BY DEF Recorded
  <2> QED
    BY <2>1 DEF Counted
<1>3. ASSUME Complete(c, i) PROVE Recorded(c, i) = {i} \X Wanted(Chain[i], request[c])
  <2>1. In(c, i, TaskStates \ {"none"}) \subseteq Wanted(Chain[i], request[c])
    BY DEF Asked
  <2>2. In(c, i, {"ok"}) \subseteq In(c, i, Finished) /\ In(c, i, Finished) \subseteq In(c, i, TaskStates \ {"none"})
    BY DEF In, Finished, TaskStates
  <2>3. In(c, i, Finished) = Wanted(Chain[i], request[c])
    BY <1>3, <2>1, <2>2 DEF Complete
  <2> QED
    BY <2>3 DEF Recorded
<1>4. ASSUME Broken(c, i) PROVE \E k \in In(c, i, {"failed", "refused"}) : <<i, k>> \in ts \cup Recorded(c, i)
  <2>1. PICK k : k \in In(c, i, {"failed", "refused"})
    BY <1>4 DEF Broken
  <2>2. k \in In(c, i, Finished)
    BY <2>1 DEF In, Finished
  <2> QED
    BY <2>1, <2>2 DEF Recorded
<1> QED
  BY <1>2, <1>3, <1>4 DEF Told

\* What is told of a stage stays told.
LEMMA ToldMore ==
  ASSUME NEW c, NEW j, NEW ts, NEW more, Told(c, j, ts), \A t \in more : t[1] # j
  PROVE  Told(c, j, ts \cup more)
<1>1. Counted(ts \cup more, j) = Counted(ts, j)
  BY DEF Counted
<1> QED
  BY <1>1 DEF Told

LEMMA ToldLasts ==
  ASSUME Types, NEW c \in Calls, Asked(c), Acts(c), NEW j \in Stages \ {0}, NEW ts, Told(c, j, ts),
         j # at[c] \/ phase[c] # "attempting"
  PROVE  Told(c, j, ts)'
<1>1. Untouched(c, j) => Untouched(c, j)'
  BY StaysUntouched
<1>2. In(c, j, {"failed", "refused"}) \subseteq In(c, j, {"failed", "refused"})' /\ Chain[j]' = Chain[j]
  BY Lasting
<1>3. request'[c] = request[c]
  BY ActsMove
<1>4. Wanted(Chain[j], request[c])' = Wanted(Chain[j], request[c])
  BY <1>2, <1>3 DEF Wanted
<1> QED
  BY <1>1, <1>2, <1>4 DEF Told, Counted

\* Everything a call reports was recorded.
LEMMA ReportedWasRecorded ==
  ASSUME Types, NEW c \in Calls, Asked(c), Metrics(c)
  PROVE  /\ \A t \in Context(c) : t \in Recorded(c, t[1])
         /\ at[c] \in Stages => \A t \in Context(c) \cup Recorded(c, at[c]) : t \in Recorded(c, t[1])
<1>1. \A t \in merged[c] : t \in Recorded(c, t[1])
  BY DEF Metrics
<1>2. ASSUME NEW i PROVE \A t \in Recorded(c, i) : t \in Recorded(c, t[1])
  <2>1. \A t \in Recorded(c, i) : t[1] = i
    BY DEF Recorded
  <2> QED
    BY <2>1
<1> QED
  BY <1>1, <1>2 DEF Context

LEMMA MetricsStep ==
  ASSUME Types, NEW c \in Calls, Asked(c), Metrics(c), Acts(c)
  PROVE  Metrics(c)'
<1>1. /\ Moved(c) /\ request'[c] = request[c] /\ Asked(c)'
      /\ Stays(c) \/ Accepted(c) \/ Sets(c) \/ PassesOn(c) \/ Over(c)
  BY ActsMove, HowFar, AskedStep
<1>2. /\ at[c] \in Nat /\ at[c] \in Stages /\ 0 \in Stages
      /\ phase[c] = "attempting" => at[c] \in Stages \ {0}
      /\ phase[c] \in {"new", "resolving"} => at[c] = 0
      /\ phase[c] \in {"new", "done"} => raised[c] = "nothing"
      /\ phase[c] = "done" <=> result[c].how # "none"
  <2>1. at \in [Calls -> Stages]
    BY DEF Types
  <2>2. phase[c] \in {"new", "resolving"} => at[c] = 0
    BY DEF Asked
  <2>3. phase[c] \in {"new", "done"} => raised[c] = "nothing"
    BY DEF Asked
  <2>4. phase[c] = "done" <=> result[c].how # "none"
    BY DEF Asked
  <2> QED
    BY <2>1, <2>2, <2>3, <2>4, Sizes, Attempting
<1>3. \A i \in Stages \ {0} : i \in Nat /\ i > 0
  BY Sizes
<1>4. \A i \in Stages : Recorded(c, i) \subseteq Recorded(c, i)'
  BY Lasting
<1>5. merged[c] \subseteq Stages \X Tasks /\ result[c].metrics \subseteq Stages \X Tasks
  BY DEF Types, Results
<1>6. /\ \A t \in merged[c] : t \in Recorded(c, t[1]) /\ 0 < t[1] /\ (phase[c] # "done" => t[1] < at[c])
      /\ \A t \in result[c].metrics : t \in Recorded(c, t[1])
  BY DEF Metrics
<1>7. phase[c] = "attempting" => \A t \in merged[c] : t[1] # at[c]
  BY <1>2, <1>6
\* The stage of an error.
<1>8. ASSUME phase[c] = "attempting", raised[c] # "nothing"
      PROVE  Untouched(c, at[c]) \/ Complete(c, at[c]) \/ Broken(c, at[c])
  BY <1>8 DEF Metrics
\* The context of the tool, with the end of the attempt.
<1> DEFINE all == Context(c) \cup Recorded(c, at[c])
<1>9. ASSUME phase[c] = "attempting", Untouched(c, at[c]) \/ Complete(c, at[c]) \/ Broken(c, at[c])
      PROVE  /\ \A j \in Stages \ {0} : j <= at[c] => Told(c, j, all)
             /\ Complete(c, at[c]) => Counted(all, at[c]) = {at[c]} \X Wanted(Chain[at[c]], request[c])
             /\ Counted(all, 0) = Recorded(c, 0)
  <2>1. \A i : \A t \in Recorded(c, i) : t[1] = i
    BY DEF Recorded
  <2>2. \A t \in Context(c) : t[1] # at[c]
    <3>1. \A t \in merged[c] : t[1] # at[c]
      BY <1>7, <1>9
    <3>2. at[c] # 0
      BY <1>2, <1>9
    <3> QED
      BY <2>1, <3>1, <3>2 DEF Context
  <2>3. /\ Told(c, at[c], all)
        /\ Complete(c, at[c]) => Counted(all, at[c]) = {at[c]} \X Wanted(Chain[at[c]], request[c])
    BY <1>2, <1>9, <2>2, ToldNow
  <2>4. ASSUME NEW j \in Stages \ {0}, j <= at[c] PROVE Told(c, j, all)
    <3>1. CASE j = at[c]
      BY <2>3, <3>1
    <3>2. CASE j < at[c]
      <4>1. Told(c, j, merged[c])
        BY <1>9, <3>2 DEF Metrics
      <4>2. \A t \in Recorded(c, 0) : t[1] # j
        BY <1>3, <2>1
      <4>3. Told(c, j, Context(c))
        BY <4>1, <4>2, ToldMore DEF Context
      <4>4. \A t \in Recorded(c, at[c]) : t[1] # j
        BY <1>2, <1>3, <2>1, <3>2
      <4> QED
        BY <4>3, <4>4, ToldMore
    <3> QED
      BY <1>2, <1>3, <2>4, <3>1, <3>2
  <2>5. Counted(all, 0) = Recorded(c, 0)
    <3>1. \A t \in merged[c] : t[1] # 0
      BY <1>6
    <3>2. \A t \in Recorded(c, at[c]) : t[1] # 0
      BY <1>2, <1>9, <2>1
    <3> QED
      BY <2>1, <3>1, <3>2 DEF Counted, Context
  <2> QED
    BY <2>3, <2>4, <2>5
<1> HIDE DEF all
<1>10. ASSUME NEW t \in merged'[c] PROVE t \in Recorded(c, t[1])' /\ 0 < t[1] /\ (phase'[c] # "done" => t[1] < at'[c])
  <2>1. \A n \in Stages : \A u \in Recorded(c, n) : u[1] = n
    BY DEF Recorded
  <2>2. CASE t \in merged[c]
    <3>1. t[1] \in Stages /\ t \in Recorded(c, t[1]) /\ 0 < t[1] /\ (phase[c] # "done" => t[1] < at[c])
      BY <1>5, <1>6, <2>2
    <3>2. t \in Recorded(c, t[1])'
      <4> DEFINE i == t[1]
      <4>1. i \in Stages /\ t \in Recorded(c, i)
        BY <3>1
      <4> HIDE DEF i
      <4>2. t \in Recorded(c, i)'
        BY <1>4, <4>1
      <4> QED
        BY <4>2 DEF i, Recorded, In
    <3>3. (phase'[c] # "done" => phase[c] # "done" /\ (at'[c] = at[c] \/ at'[c] = at[c] + 1))
      <4>1. CASE Stays(c) \/ Over(c)
        BY <4>1 DEF Stays, Over, GoesOn
      <4>2. CASE Accepted(c)
        BY <4>2 DEF Accepted, Keeps
      <4>3. CASE Sets(c)
        BY <1>2, <4>3 DEF Sets
      <4>4. CASE PassesOn(c)
        BY <4>4 DEF PassesOn
      <4> QED
        BY <1>1, <4>1, <4>2, <4>3, <4>4
    <3>4. t[1] \in Nat
      BY <3>1, Sizes
    <3> QED
      BY <1>2, <3>1, <3>2, <3>3, <3>4
  <2>3. CASE t \notin merged[c]
    <3>1. phase[c] = "attempting" /\ t \in Recorded(c, at[c]) /\ (phase'[c] = "done" \/ at'[c] = at[c] + 1)
      <4>1. CASE Accepted(c) \/ EndsEarly(c) \/ LooksUp(c) \/ Requesting(c) \/ Succeeding(c) \/ Failing(c) \/ Sets(c)
        BY <2>3, <4>1, Zenon DEF Accepted, EndsEarly, LooksUp, Requesting, Succeeding, Failing, Sets, Keeps
      <4>2. CASE Unable(c) \/ Crashes(c) \/ Asks(c) \/ Rejects(c) \/ Expires(c)
        BY <2>3, <4>2, Zenon DEF Unable, Crashes, Asks, Rejects, Expires, Keeps
      <4>3. CASE Answers(c) \/ GivesUp(c)
        BY <2>3, <4>3 DEF Answers, GivesUp, Ends
      <4>4. CASE PassesOn(c)
        BY <2>3, <4>4 DEF PassesOn
      <4> QED
        BY <1>1, <4>1, <4>2, <4>3, <4>4 DEF Moved
    <3>2. t[1] = at[c] /\ at[c] \in Stages \ {0}
      BY <1>2, <2>1, <3>1
    <3>3. PICK i \in Stages : i = at[c] /\ t \in Recorded(c, i) /\ t[1] = i
      BY <1>2, <3>1, <3>2
    <3>4. t \in Recorded(c, i)'
      BY <1>4, <3>3
    <3>5. t \in Recorded(c, t[1])'
      BY <3>3, <3>4 DEF Recorded, In
    <3>6. 0 < t[1] /\ (phase'[c] # "done" => t[1] < at'[c])
      BY <1>2, <1>3, <3>1, <3>2
    <3> QED
      BY <3>5, <3>6
  <2> QED
    BY <2>2, <2>3
<1>11. ASSUME phase'[c] = "attempting", NEW j \in Stages \ {0}, j < at'[c], NEW ts, ts = merged'[c] PROVE Told(c, j, ts)'
  <2>1. CASE Stays(c)
    <3>1. phase[c] = "attempting" /\ j < at[c] /\ ts = merged[c]
      BY <1>11, <2>1 DEF Stays, GoesOn
    <3>2. Told(c, j, ts)
      BY <3>1 DEF Metrics
    <3>3. j # at[c]
      BY <1>2, <1>3, <3>1
    <3> QED
      BY <3>2, <3>3, ToldLasts
  <2>2. CASE PassesOn(c)
    <3>1. /\ phase[c] = "attempting" /\ raised[c] # "nothing" /\ at'[c] = at[c] + 1 /\ task'[c] = task[c]
          /\ merged'[c] = merged[c] \cup Recorded(c, at[c])
      BY <2>2 DEF PassesOn
    <3>4. ts = merged[c] \cup Recorded(c, at[c])
      BY <1>11, <3>1, Zenon
    <3>2. Told(c, j, ts)
      <4>1. CASE j = at[c]
        <5>1. \A t \in merged[c] : t[1] # j
          BY <1>7, <3>1, <4>1
        <5>2. Untouched(c, j) \/ Complete(c, j) \/ Broken(c, j)
          BY <1>8, <3>1, <4>1
        <5>3. Told(c, j, merged[c] \cup Recorded(c, j))
          BY <5>1, <5>2, ToldNow
        <5> QED
          BY <3>4, <4>1, <5>3
      <4>2. CASE j < at[c]
        <5>1. Told(c, j, merged[c])
          BY <3>1, <4>2 DEF Metrics
        <5>2. \A t \in Recorded(c, at[c]) : t[1] # j
          BY <1>2, <1>3, <4>2 DEF Recorded
        <5> QED
          BY <3>4, <5>1, <5>2, ToldMore
      <4>3. at'[c] = at[c] + 1
        BY <3>1
      <4>4. j = at[c] \/ j < at[c]
        BY <1>2, <1>3, <1>11, <4>3
      <4> QED
        BY <4>1, <4>2, <4>4
    <3>3. Wanted(Chain[j], request[c])' = Wanted(Chain[j], request[c])
      BY <1>1 DEF Wanted, Chain, IfConfigured
    <3> QED
      BY <3>1, <3>2, <3>3 DEF Told, Untouched, In, Counted, Tasks
  <2>3. CASE Sets(c)
    BY <1>3, <1>11, <2>3 DEF Sets
  <2>4. ~Accepted(c) /\ ~Over(c)
    BY <1>11 DEF Accepted, Over
  <2> QED
    BY <1>1, <2>1, <2>2, <2>3, <2>4
<1>12. ASSUME phase'[c] = "attempting", raised'[c] # "nothing", NEW i, i = at'[c]
       PROVE  Untouched(c, i)' \/ Complete(c, i)' \/ Broken(c, i)'
  <2>1. CASE Raises(c)
    <3>1. i = at[c] /\ i \in Stages \ {0} /\ phase[c] = "attempting"
      BY <1>2, <1>12, <2>1 DEF Raises
    <3>2. CASE Unable(c)
      <4>1. TaskTypes /\ Fresh(c) /\ task'[c] = task[c]
        BY <3>2 DEF Unable, Types
      <4>2. \A k \in Tasks : task[c][i][k] \in TaskStates
        BY <3>1, <4>1 DEF TaskTypes
      <4>3. Untouched(c, i)'
        BY <3>1, <4>1, <4>2 DEF Untouched, Fresh, In, Tasks
      <4> QED
        BY <4>3
    <3>3. CASE Rejects(c)
      <4>1. Complete(c, i)
        BY <3>1, <3>3 DEF Rejects
      <4> QED
        BY <1>3, <3>1, <4>1, Lasting
    <3>4. ASSUME NEW k \in Tasks, NEW s \in {"failed", "refused"}, Settle(c, at[c], k, s) PROVE Broken(c, i)'
      <4>1. TaskTypes /\ s \in TaskStates
        BY DEF Types, TaskStates
      <4>2. task'[c][i] = [task[c][i] EXCEPT ![k] = s] /\ DOMAIN task[c][i] = Tasks
        BY <3>1, <3>4, <4>1, SettleEffect DEF TaskTypes
      <4>3. task'[c][i][k] = s
        BY <4>2
      <4> QED
        BY <4>3 DEF Broken, In, Tasks
    <3> QED
      BY <2>1, <3>2, <3>3, <3>4 DEF Raises
  <2>2. CASE ~Raises(c)
    <3>1. raised'[c] = raised[c] \/ (phase[c] = "resolving" /\ phase'[c] = phase[c])
      BY <1>1, <1>12, <2>2, RaisedWhy DEF GoesOn
    <3>2. raised'[c] = raised[c]
      BY <1>12, <3>1
    <3>3. Stays(c) \/ Sets(c)
      BY <1>1, <1>12 DEF Accepted, PassesOn, Over
    <3>4. CASE Stays(c)
      <4>1. i = at[c] /\ phase[c] = "attempting" /\ raised[c] # "nothing" /\ i \in Stages \ {0}
        BY <1>2, <1>12, <3>2, <3>4 DEF Stays, GoesOn
      <4>2. Untouched(c, i) \/ Complete(c, i) \/ Broken(c, i)
        BY <1>8, <4>1
      <4> QED
        BY <1>3, <4>1, <4>2, Lasting, StaysUntouched
    <3>5. CASE Sets(c)
      <4>1. i = 1 /\ at[c] = 0 /\ task'[c] = task[c] /\ i \in Stages \ {0}
        BY <1>2, <1>12, <3>5, Sizes DEF Sets
      <4>2. Untouched(c, i)
        BY <4>1 DEF Asked
      <4> QED
        BY <4>1, <4>2 DEF Untouched, Tasks
    <3> QED
      BY <3>3, <3>4, <3>5
  <2> QED
    BY <2>1, <2>2
<1>13. ASSUME NEW t \in result'[c].metrics PROVE t \in Recorded(c, t[1])'
  <2>1. CASE t \in Recorded(c, t[1]) /\ t[1] \in Stages
    <3> DEFINE i == t[1]
    <3>1. i \in Stages /\ t \in Recorded(c, i)
      BY <2>1
    <3> HIDE DEF i
    <3>2. t \in Recorded(c, i)'
      BY <1>4, <3>1
    <3> QED
      BY <3>2 DEF i, Recorded, In
  <2>2. CASE result'[c] = result[c]
    <3>1. t \in Recorded(c, t[1]) /\ t[1] \in Stages
      BY <1>5, <1>6, <1>13, <2>2
    <3> QED
      BY <2>1, <3>1
  <2>3. CASE t \in Context(c) \cup Recorded(c, at[c])
    <3>1. t \in Recorded(c, t[1])
      BY <1>2, <2>3, ReportedWasRecorded
    <3>2. t[1] \in Stages
      BY <1>2, <1>5, <2>3 DEF Context, Recorded
    <3> QED
      BY <2>1, <3>1, <3>2
  <2>4. CASE Expires(c)
    <3>1. t \in merged[c] \/ t \in Recorded(c, 0)'
      BY <1>13, <2>4 DEF Expires, Ends
    <3>2. CASE t \in merged[c]
      BY <2>3, <3>2 DEF Context
    <3>3. CASE t \in Recorded(c, 0)'
      BY <3>3 DEF Recorded, In
    <3> QED
      BY <3>1, <3>2, <3>3
  <2>5. CASE Crashes(c) \/ GivesUp(c) \/ Answers(c)
    <3>1. result'[c].metrics \in {Context(c), Context(c) \cup Recorded(c, at[c])}
      BY <2>5 DEF Crashes, GivesUp, Answers, Ends
    <3> QED
      BY <1>13, <2>3, <3>1
  <2>6. CASE EndsEarly(c)
    <3>1. PICK how \in {"invalid", "error", "crash"}, m \in SUBSET Context(c) : Ends(c, how, m, {})
      BY <2>6 DEF EndsEarly
    <3>2. t \in Context(c)
      BY <1>13, <3>1 DEF Ends
    <3> QED
      BY <2>3, <3>2
  <2>7. CASE Accepted(c) \/ LooksUp(c) \/ Requesting(c) \/ Succeeding(c) \/ Failing(c) \/ Sets(c)
    BY <2>2, <2>7, Zenon DEF Accepted, LooksUp, Requesting, Succeeding, Failing, Sets, GoesOn
  <2>8. CASE Unable(c) \/ Asks(c) \/ Rejects(c) \/ PassesOn(c)
    BY <2>2, <2>8, Zenon DEF Unable, Asks, Rejects, PassesOn, GoesOn
  <2> QED
    BY <1>1, <2>4, <2>5, <2>6, <2>7, <2>8 DEF Moved
<1>14. ASSUME result'[c].how \in {"ok", "error"}
       PROVE  \/ result'[c] = result[c] /\ phase[c] = "done" /\ at'[c] = at[c]
              \/ Answers(c) \/ GivesUp(c)
              \/ at'[c] = 0 /\ result'[c].how # "ok"
  <2>1. CASE EndsEarly(c)
    <3>1. PICK how \in {"invalid", "error", "crash"}, m \in SUBSET Context(c) : Ends(c, how, m, {})
      BY <2>1 DEF EndsEarly
    <3> QED
      BY <1>2, <2>1, <3>1 DEF EndsEarly, Keeps, Ends
  <2>2. CASE Crashes(c) \/ Expires(c)
    BY <1>14, <2>2 DEF Crashes, Expires, Ends
  <2>3. CASE Accepted(c) \/ Sets(c) \/ PassesOn(c)
    <3>1. result'[c] = result[c] /\ phase[c] # "done"
      BY <2>3 DEF Accepted, Sets, PassesOn, GoesOn
    <3> QED
      BY <1>2, <1>14, <3>1
  <2>4. CASE LooksUp(c) \/ Requesting(c) \/ Succeeding(c) \/ Failing(c) \/ Unable(c) \/ Asks(c) \/ Rejects(c)
    <3>1. result'[c] = result[c] /\ at'[c] = at[c]
      BY <2>4, Zenon DEF LooksUp, Requesting, Succeeding, Failing, Unable, Asks, Rejects, GoesOn, Keeps
    <3> QED
      BY <1>2, <1>14, <3>1
  <2> QED
    BY <1>1, <2>1, <2>2, <2>3, <2>4 DEF Moved
<1>15. ASSUME Answers(c) \/ GivesUp(c)
       PROVE  /\ phase[c] = "attempting" /\ at'[c] = at[c] /\ task'[c] = task[c]
              /\ result'[c].metrics = all
              /\ Untouched(c, at[c]) \/ Complete(c, at[c]) \/ Broken(c, at[c])
              /\ result'[c].how = "ok" => Complete(c, at[c])
  <2>1. CASE Answers(c)
    BY <2>1 DEF Answers, Ends, all
  <2>2. CASE GivesUp(c)
    BY <1>8, <2>2 DEF GivesUp, Ends, all
  <2> QED
    BY <1>15, <2>1, <2>2
<1>16. \A j : Wanted(Chain[j], request[c])' = Wanted(Chain[j], request[c])
  BY <1>1 DEF Wanted, Chain, IfConfigured
<1>17. ASSUME result'[c].how \in {"ok", "error"}, NEW j \in Stages \ {0}, j <= at'[c], NEW ts, ts = result'[c].metrics
       PROVE  Told(c, j, ts)'
  <2>1. CASE result'[c] = result[c] /\ phase[c] = "done" /\ at'[c] = at[c]
    <3>1. Told(c, j, ts)
      BY <1>17, <2>1 DEF Metrics
    <3> QED
      BY <2>1, <3>1, ToldLasts
  <2>2. CASE Answers(c) \/ GivesUp(c)
    <3>1. Told(c, j, ts) /\ task'[c] = task[c]
      BY <1>9, <1>15, <1>17, <2>2
    <3> QED
      BY <1>16, <3>1 DEF Told, Untouched, In, Counted, Tasks
  <2>3. at'[c] # 0
    BY <1>3, <1>17
  <2> QED
    BY <1>14, <1>17, <2>1, <2>2, <2>3
<1>18. ASSUME result'[c].how = "ok", NEW i, i = at'[c], NEW ts, ts = result'[c].metrics
       PROVE  /\ Counted(ts, 0) = {0} \X (1..request[c].texts)
              /\ Counted(ts, i) = {i} \X Wanted(Chain[i], request[c])
  <2>1. CASE result'[c] = result[c] /\ phase[c] = "done" /\ at'[c] = at[c]
    BY <1>18, <2>1 DEF Metrics
  <2>2. CASE Answers(c) \/ GivesUp(c)
    <3>1. /\ phase[c] = "attempting" /\ i = at[c] /\ ts = all /\ Complete(c, at[c])
      BY <1>15, <1>18, <2>2
    <3>2. /\ Counted(ts, i) = {i} \X Wanted(Chain[i], request[c])
          /\ Counted(ts, 0) = Recorded(c, 0)
      BY <1>9, <3>1
    <3>3. In(c, 0, {"ok"}) = 1..request[c].texts /\ In(c, 0, TaskStates \ {"none"}) \subseteq 1..request[c].texts
      BY <3>1 DEF Asked
    <3>4. In(c, 0, {"ok"}) \subseteq In(c, 0, Finished) /\ In(c, 0, Finished) \subseteq In(c, 0, TaskStates \ {"none"})
      BY DEF In, Finished, TaskStates
    <3>5. Recorded(c, 0) = {0} \X (1..request[c].texts)
      <4>1. In(c, 0, Finished) = 1..request[c].texts
        BY <3>3, <3>4
      <4>2. ASSUME NEW S, In(c, 0, Finished) = S PROVE Recorded(c, 0) = {0} \X S
        BY <4>2 DEF Recorded
      <4> QED
        BY <4>1, <4>2
    <3> QED
      BY <3>2, <3>5
  <2> QED
    BY <1>14, <1>18, <2>1, <2>2
<1>19. /\ Stages' = Stages /\ Chain' = Chain
       /\ \A j \in Stages : Recorded(c, j)' = {<<j, k>> : k \in In(c, j, Finished)'}
  BY DEF Stages, Last, Chain, IfConfigured, Recorded, Finished
<1> QED
  <2>1. \A ts, j : Counted(ts, j)' = Counted(ts, j)
    BY DEF Counted
  <2>2. result'[c].how = "ok" => /\ Counted(result'[c].metrics, 0) = {0} \X (1..request[c].texts)
                                 /\ Counted(result'[c].metrics, at'[c]) = {at'[c]} \X Wanted(Chain[at'[c]], request[c])
    BY <1>18, Zenon
  <2>3. result'[c].how \in {"ok", "error"} => \A j \in Stages \ {0} : j <= at'[c] => Told(c, j, result[c].metrics)'
    BY <1>17 DEF Told, Counted
  <2>4. phase'[c] = "attempting" => \A j \in Stages \ {0} : j < at'[c] => Told(c, j, merged[c])'
    BY <1>11 DEF Told, Counted
  <2>5. phase'[c] = "attempting" /\ raised'[c] # "nothing" =>
          Untouched(c, at[c])' \/ Complete(c, at[c])' \/ Broken(c, at[c])'
    BY <1>12 DEF Untouched, Complete, Broken, In
  <2> QED
    BY <1>1, <1>10, <1>13, <1>16, <1>19, <2>1, <2>2, <2>3, <2>4, <2>5 DEF Metrics

LEMMA RecordedTypes ==
  ASSUME NEW c, NEW i \in Stages
  PROVE  Recorded(c, i) \subseteq Stages \X Tasks /\ Recorded(c, i)' \subseteq Stages \X Tasks
BY DEF Recorded, In, Tasks, MaxTasks

LEMMA TypesStep ==
  ASSUME Types, NEW c \in Calls, Asked(c), Acts(c)
  PROVE  Types'
<1>1. Moved(c) /\ WritesOwn(c) /\ TaskTypes' /\ (cooling' = cooling \/ cooling' = TRUE)
  BY ActsMove, OwnWrites, ActsOnTasks
<1>2. ASSUME NEW f, NEW g, NEW S, f \in [Calls -> S], Only(c, f, g), g[c] \in S PROVE g \in [Calls -> S]
  BY <1>2 DEF Only
<1>3. /\ phase \in [Calls -> Phases]
      /\ at \in [Calls -> Stages]
      /\ raised \in [Calls -> {"nothing", "error", "failed", "timed out"}]
      /\ merged \in [Calls -> SUBSET (Stages \X Tasks)]
      /\ warnings \in [Calls -> SUBSET Notes]
      /\ result \in [Calls -> Results]
      /\ request \in [Calls -> Requests] /\ cooling \in BOOLEAN
  BY DEF Types
<1>4. /\ phase[c] \in Phases /\ at[c] \in Stages /\ raised[c] \in {"nothing", "error", "failed", "timed out"}
      /\ merged[c] \in SUBSET (Stages \X Tasks) /\ warnings[c] \in SUBSET Notes /\ result[c] \in Results
  BY <1>3
<1>5. 0 \in Stages /\ 1 \in Stages /\ Stages = 0..Last
  BY Sizes
<1>6. /\ Recorded(c, 0) \subseteq Stages \X Tasks /\ Recorded(c, 0)' \subseteq Stages \X Tasks
      /\ Recorded(c, at[c]) \subseteq Stages \X Tasks /\ Context(c) \subseteq Stages \X Tasks
  BY <1>4, <1>5, RecordedTypes DEF Context
<1>7. ASSUME NEW how \in {"invalid", "error", "crash", "deadline", "ok"}, NEW m \in SUBSET (Stages \X Tasks), NEW n \in SUBSET Notes,
             Ends(c, how, m, n)
      PROVE  phase'[c] \in Phases /\ raised'[c] \in {"nothing", "error", "failed", "timed out"} /\ result'[c] \in Results
  BY <1>7 DEF Ends, Phases, Results
<1> DEFINE Good == /\ phase'[c] \in Phases /\ at'[c] \in Stages /\ raised'[c] \in {"nothing", "error", "failed", "timed out"}
                   /\ merged'[c] \in SUBSET (Stages \X Tasks) /\ warnings'[c] \in SUBSET Notes /\ result'[c] \in Results
<1>8. ASSUME Accepted(c) \/ Requesting(c) \/ Succeeding(c) \/ Asks(c) \/ Unable(c) \/ Rejects(c) PROVE Good
  BY <1>4, <1>8 DEF Accepted, Requesting, Succeeding, Asks, Unable, Rejects, Keeps, GoesOn, Phases
<1>9. ASSUME Failing(c) PROVE Good
  <2>1. GoesOn(c) /\ Keeps(c) /\ raised'[c] \in {raised[c], "error", "failed", "timed out"}
    BY <1>9 DEF Failing
  <2> QED
    BY <1>4, <2>1 DEF Keeps, GoesOn
<1>10. ASSUME LooksUp(c) PROVE Good
  <2>1. PICK n \in SUBSET ({"ambiguous"} \X Tasks) : warnings'[c] = warnings[c] \cup n
    BY <1>10 DEF LooksUp
  <2>2. n \subseteq Notes
    BY DEF Notes
  <2>3. GoesOn(c) /\ at'[c] = at[c] /\ merged'[c] = merged[c] /\ raised'[c] \in {raised[c], "error"}
    BY <1>10 DEF LooksUp
  <2> QED
    BY <1>4, <2>1, <2>2, <2>3 DEF GoesOn
<1>11. ASSUME Sets(c) PROVE Good
  BY <1>4, <1>5, <1>11 DEF Sets, Phases
<1>12. ASSUME EndsEarly(c) PROVE Good
  <2>1. PICK how \in {"invalid", "error", "crash"}, m \in SUBSET Context(c) : Ends(c, how, m, {})
    BY <1>12 DEF EndsEarly
  <2>2. m \in SUBSET (Stages \X Tasks) /\ {} \in SUBSET Notes /\ Keeps(c)
    BY <1>6, <1>12 DEF EndsEarly
  <2> QED
    BY <1>4, <1>7, <2>1, <2>2 DEF Keeps
<1>13. ASSUME Crashes(c) PROVE Good
  <2>1. Ends(c, "crash", Context(c), {}) /\ Keeps(c)
    BY <1>13 DEF Crashes
  <2>2. Context(c) \in SUBSET (Stages \X Tasks) /\ {} \in SUBSET Notes
    BY <1>6
  <2>3. phase'[c] \in Phases /\ raised'[c] \in {"nothing", "error", "failed", "timed out"} /\ result'[c] \in Results
    BY <1>7, <2>1, <2>2
  <2> QED
    BY <1>4, <2>1, <2>3 DEF Keeps
<1>14. ASSUME Expires(c) PROVE Good
  <2>1. merged[c] \cup Recorded(c, 0)' \in SUBSET (Stages \X Tasks)
    BY <1>4, <1>6
  <2>2. Ends(c, "deadline", merged[c] \cup Recorded(c, 0)', {}) /\ Keeps(c)
    BY <1>14 DEF Expires
  <2>3. {} \in SUBSET Notes
    OBVIOUS
  <2>4. phase'[c] \in Phases /\ raised'[c] \in {"nothing", "error", "failed", "timed out"} /\ result'[c] \in Results
    BY <1>7, <2>1, <2>2, <2>3
  <2> QED
    BY <1>4, <2>2, <2>4 DEF Keeps
<1>15. ASSUME GivesUp(c) PROVE Good
  <2>1. Context(c) \cup Recorded(c, at[c]) \in SUBSET (Stages \X Tasks)
    BY <1>6
  <2>2. /\ Ends(c, "error", Context(c) \cup Recorded(c, at[c]), {}) /\ at'[c] = at[c] /\ warnings'[c] = warnings[c]
        /\ merged'[c] = merged[c] \cup Recorded(c, at[c])
    BY <1>15 DEF GivesUp
  <2>3. {} \in SUBSET Notes
    OBVIOUS
  <2>4. phase'[c] \in Phases /\ raised'[c] \in {"nothing", "error", "failed", "timed out"} /\ result'[c] \in Results
    BY <1>7, <2>1, <2>2, <2>3
  <2> QED
    BY <1>4, <1>6, <2>2, <2>4
<1>16. ASSUME Answers(c) PROVE Good
  <2>1. phase[c] = "attempting"
    BY <1>16 DEF Answers
  <2>2. Ours(c) \in Names
    BY <2>1, Attempting
  <2>3. OwnWarnings(Ours(c), request[c]) \subseteq Notes
    <3>1. OwnWarnings(Ours(c), request[c]) \subseteq {<<"static times", Ours(c)>>}
      BY DEF OwnWarnings
    <3>2. <<"static times", Ours(c)>> \in Notes
      BY <2>2 DEF Notes, Kinds
    <3> QED
      BY <3>1, <3>2
  <2>4. /\ Ends(c, "ok", Context(c) \cup Recorded(c, at[c]), warnings'[c]) /\ at'[c] = at[c]
        /\ warnings'[c] = warnings[c] \cup OwnWarnings(Ours(c), request[c])
        /\ merged'[c] = merged[c] \cup Recorded(c, at[c])
    BY <1>16 DEF Answers
  <2>5. warnings'[c] \in SUBSET Notes /\ Context(c) \cup Recorded(c, at[c]) \in SUBSET (Stages \X Tasks)
    BY <1>4, <1>6, <2>3, <2>4
  <2> QED
    BY <1>4, <1>6, <1>7, <2>4, <2>5
<1>17. ASSUME PassesOn(c) PROVE Good
  <2>1. /\ phase[c] = "attempting" /\ raised[c] \in {"failed", "timed out"} /\ at[c] < Last
        /\ GoesOn(c) /\ at'[c] = at[c] + 1 /\ raised'[c] = "nothing"
        /\ merged'[c] = merged[c] \cup Recorded(c, at[c])
        /\ warnings'[c] = warnings[c] \cup {<<raised[c], Ours(c)>>}
    BY <1>17, Zenon DEF PassesOn
  <2>2. Ours(c) \in Names
    BY <2>1, Attempting
  <2>3. <<raised[c], Ours(c)>> \in Notes
    BY <2>1, <2>2 DEF Notes, Kinds
  <2>4. at[c] + 1 \in Stages
    <3>1. at[c] \in 0..Last /\ Last \in Nat /\ at[c] < Last
      BY <1>4, <1>5, <2>1, Sizes
    <3> QED
      BY <1>5, <3>1
  <2>5. at'[c] \in Stages /\ warnings'[c] \in SUBSET Notes /\ merged'[c] \in SUBSET (Stages \X Tasks)
    BY <1>4, <1>6, <2>1, <2>3, <2>4
  <2> QED
    BY <1>4, <2>1, <2>5 DEF GoesOn
<1>18. Good
  BY <1>1, <1>8, <1>9, <1>10, <1>11, <1>12, <1>13, <1>14, <1>15, <1>16, <1>17 DEF Moved
<1> HIDE DEF Good
<1>19. /\ phase' \in [Calls -> Phases]
       /\ at' \in [Calls -> Stages]
       /\ raised' \in [Calls -> {"nothing", "error", "failed", "timed out"}]
       /\ merged' \in [Calls -> SUBSET (Stages \X Tasks)]
       /\ warnings' \in [Calls -> SUBSET Notes]
       /\ result' \in [Calls -> Results]
       /\ request' \in [Calls -> Requests] /\ cooling' \in BOOLEAN
  <2>1. /\ Only(c, phase, phase') /\ Only(c, at, at') /\ Only(c, raised, raised')
        /\ Only(c, merged, merged') /\ Only(c, warnings, warnings') /\ Only(c, result, result') /\ request' = request
    BY <1>1, Zenon DEF WritesOwn
  <2>2. /\ phase'[c] \in Phases /\ at'[c] \in Stages /\ raised'[c] \in {"nothing", "error", "failed", "timed out"}
        /\ merged'[c] \in SUBSET (Stages \X Tasks) /\ warnings'[c] \in SUBSET Notes /\ result'[c] \in Results
    BY <1>18, Zenon DEF Good
  <2>3. phase' \in [Calls -> Phases]
    BY <1>2, <1>3, <2>1, <2>2, Zenon
  <2>4. at' \in [Calls -> Stages]
    BY <1>2, <1>3, <2>1, <2>2, Zenon
  <2>5. raised' \in [Calls -> {"nothing", "error", "failed", "timed out"}]
    BY <1>2, <1>3, <2>1, <2>2, Zenon
  <2>6. merged' \in [Calls -> SUBSET (Stages \X Tasks)]
    BY <1>2, <1>3, <2>1, <2>2, Zenon
  <2>7. warnings' \in [Calls -> SUBSET Notes]
    BY <1>2, <1>3, <2>1, <2>2, Zenon
  <2>8. result' \in [Calls -> Results]
    BY <1>2, <1>3, <2>1, <2>2, Zenon
  <2>9. request' \in [Calls -> Requests] /\ cooling' \in BOOLEAN
    BY <1>1, <1>3, <2>1
  <2> QED
    BY <2>3, <2>4, <2>5, <2>6, <2>7, <2>8, <2>9
<1> QED
  BY <1>1, <1>19 DEF Types

------------------------------------------------------------------------------
(* The walking server of OSRM.                                              *)

\* A walking request takes the lock when nobody has it, and leaves when a second has passed.
LEMMA WalkingStarts ==
  ASSUME Types, NEW c \in Calls, Asked(c), Acts(c), NEW i \in Stages \ {0}, NEW k \in Tasks,
         Paced(Chain[i], request[c]), task'[c][i][k] \in {"paced", "sent"}
  PROVE  \/ task'[c][i][k] = task[c][i][k]
         \/ task'[c][i][k] = "paced" /\ WalkingHolders = {}
         \/ task'[c][i][k] = "sent" /\ task[c][i][k] = "paced" /\ ~cooling
<1> DEFINE Goal == \/ task'[c][i][k] = task[c][i][k]
                   \/ task'[c][i][k] = "paced" /\ WalkingHolders = {}
                   \/ task'[c][i][k] = "sent" /\ task[c][i][k] = "paced" /\ ~cooling
<1>1. TaskTypes /\ 0 \in Stages /\ at[c] \in Stages /\ DOMAIN task[c][i] = Tasks
  <2>1. TaskTypes
    BY DEF Types
  <2>2. at \in [Calls -> Stages]
    BY DEF Types
  <2> QED
    BY <2>1, <2>2, Sizes DEF TaskTypes
<1>2. ASSUME NEW j \in Stages, NEW n \in Tasks, NEW s \in TaskStates, Settle(c, j, n, s)
      PROVE  task'[c][i][k] = task[c][i][k] \/ (j = i /\ n = k /\ task'[c][i][k] = s)
  <2>1. /\ \A h \in Stages \ {j} : task'[c][h] = task[c][h]
        /\ task'[c][j] = [task[c][j] EXCEPT ![n] = s]
    BY <1>1, <1>2, SettleEffect
  <2> QED
    BY <1>1, <2>1
<1>3. ASSUME Start(c) \/ AreaFails(c) \/ ResolutionFails(c) \/ BeginRouting(c) \/ Adapt(c) \/ AttemptFails(c)
      PROVE  Goal
  <2>1. task' = task
    BY <1>3, Zenon DEF Start, AreaFails, ResolutionFails, BeginRouting, Adapt, AttemptFails, AttemptFailsWith
  <2> QED
    BY <2>1
<1>4. ASSUME LookUpBatch(c) PROVE Goal
  BY <1>1, <1>4, LookUpBatchEffect
<1>5. ASSUME EnterProvider(c) PROVE Goal
  <2>1. request'[c] = request[c] /\ (Unable(c) \/ Crashes(c) \/ Asks(c))
    BY <1>5, EnterMoves
  <2>2. CASE Unable(c) \/ Crashes(c)
    BY <2>2, Zenon DEF Unable, Crashes
  <2>3. CASE Asks(c)
    <3>1. phase[c] = "attempting" /\ Fresh(c)
      BY <2>3, Zenon DEF Asks
    <3>2. AtOnce(Ours(c), request[c]) \in SUBSET Tasks
      <4>1. request[c] \in Requests
        BY DEF Types
      <4> QED
        BY <4>1, WantedFacts
    <3>3. Untouched(c, at[c])
      <4>1. \A n \in Tasks : task[c][at[c]][n] \in TaskStates
        BY <1>1 DEF TaskTypes
      <4> QED
        BY <3>1, <4>1 DEF Untouched, Fresh, In, Tasks
    <3>4. /\ \A j \in Stages \ {at[c]} : task'[c][j] = task[c][j]
          /\ \A n \in Tasks : task'[c][at[c]][n] = IF n \in AtOnce(Ours(c), request[c]) THEN "wait" ELSE "none"
      BY <1>1, <2>3, <3>2, <3>3, EnterEffect DEF Asks
    <3> QED
      BY <3>4
  <2> QED
    BY <2>1, <2>2, <2>3
<1>6. ASSUME Deadline(c) PROVE Goal
  BY <1>1, <1>6, DeadlineEffect
<1>7. ASSUME NEW n \in Tasks, StartLookup(c, n) \/ FinishLookup(c, n) PROVE Goal
  <2>1. PICK s \in {"sent", "ok", "failed"} : Settle(c, 0, n, s)
    BY <1>7 DEF StartLookup, FinishLookup
  <2>2. s \in TaskStates
    BY DEF TaskStates
  <2> QED
    BY <1>1, <1>2, <2>1, <2>2
<1>8. ASSUME NEW j \in Stages, NEW n \in Tasks, StartRequest(c, j, n) PROVE Goal
  <2>1. PICK s \in {"paced", "sent"} : Settle(c, j, n, s) /\ (Paced(Chain[j], request[c]) => s = "paced" /\ WalkingHolders = {})
    BY <1>8, Zenon DEF StartRequest, StartRequestIf
  <2>2. s \in TaskStates
    BY DEF TaskStates
  <2> QED
    BY <1>2, <2>1, <2>2
<1>9. ASSUME NEW j \in Stages, NEW n \in Tasks, StartWalking(c, j, n) PROVE Goal
  <2>1. task[c][j][n] = "paced" /\ ~cooling /\ Settle(c, j, n, "sent") /\ "sent" \in TaskStates
    BY <1>9 DEF StartWalking, TaskStates
  <2> QED
    BY <1>2, <2>1
<1>10. ASSUME NEW j \in Stages, NEW n \in Tasks, FinishRequest(c, j, n) PROVE Goal
  <2>1. PICK s \in {"refused", "failed"} : Succeeds(c, j, n) \/ Settle(c, j, n, s)
    BY <1>10, Zenon DEF FinishRequest, Succeeds
  <2>2. s \in TaskStates
    BY DEF TaskStates
  <2>3. CASE Settle(c, j, n, s)
    BY <1>2, <2>2, <2>3
  <2>4. CASE Succeeds(c, j, n)
    <3>1. /\ \A h \in Stages \ {j} : task'[c][h] = task[c][h]
          /\ task'[c][j][n] = "ok"
          /\ \A h \in Tasks \ {n} : task'[c][j][h] = IF Follows(c, j, n, h) THEN "wait" ELSE task[c][j][h]
      BY <1>1, <2>4, SuccessEffect
    <3> QED
      BY <3>1
  <2> QED
    BY <2>1, <2>3, <2>4
<1> HIDE DEF Goal
<1>11. Goal
  BY <1>3, <1>4, <1>5, <1>6, <1>7, <1>8, <1>9, <1>10 DEF Acts
<1> QED
  BY <1>11 DEF Goal

LEMMA HoldersFrame ==
  ASSUME NEW d \in Calls, Same(d)
  PROVE  (d \in WalkingHolders' <=> d \in WalkingHolders) /\ (d \in WalkingSent' <=> d \in WalkingSent)
<1>1. \A i : Paced(Chain[i], request[d])' = Paced(Chain[i], request[d])
  BY DEF Same, Paced, Chain, IfConfigured
<1>2. \A i, S : In(d, i, S)' = In(d, i, S)
  BY DEF Same, In
<1>3. Stages' = Stages
  BY DEF Stages, Last, Chain, IfConfigured
<1> QED
  BY <1>1, <1>2, <1>3 DEF WalkingHolders, WalkingSent

LEMMA WalkerStep ==
  ASSUME Types, NEW c \in Calls, Asked(c), Acts(c), OneWalker
  PROVE  /\ OneWalker'
         /\ WalkingSent' \ WalkingSent # {} => ~cooling /\ WalkingSent' = {c}
<1>1. /\ request'[c] = request[c] /\ \A d \in Calls \ {c} : Same(d)
      /\ Stages' = Stages /\ \A i : Paced(Chain[i], request[c])' = Paced(Chain[i], request[c])
  BY ActsMove, ActsAlone DEF Stages, Last, Chain, IfConfigured, Paced
<1>2. \A d \in Calls \ {c} : (d \in WalkingHolders' <=> d \in WalkingHolders) /\ (d \in WalkingSent' <=> d \in WalkingSent)
  BY <1>1, HoldersFrame
<1>3. c \in WalkingHolders' => c \in WalkingHolders \/ WalkingHolders = {}
  <2>1. ASSUME c \in WalkingHolders' PROVE c \in WalkingHolders \/ WalkingHolders = {}
    <3>1. PICK i \in Stages \ {0} : Paced(Chain[i], request[c]) /\ In(c, i, {"paced", "sent"})' # {}
      BY <1>1, <2>1 DEF WalkingHolders
    <3>2. PICK k \in Tasks : task'[c][i][k] \in {"paced", "sent"}
      BY <3>1 DEF In, Tasks
    <3>3. task[c][i][k] \in {"paced", "sent"} \/ WalkingHolders = {}
      BY <3>1, <3>2, WalkingStarts
    <3>4. task[c][i][k] \in {"paced", "sent"} => In(c, i, {"paced", "sent"}) # {}
      BY DEF In, Tasks
    <3> QED
      BY <3>1, <3>3, <3>4 DEF WalkingHolders
  <2> QED
    BY <2>1
<1>4. WalkingHolders \subseteq Calls /\ WalkingHolders' \subseteq Calls /\ WalkingSent \subseteq Calls /\ WalkingSent' \subseteq Calls
  BY DEF WalkingHolders, WalkingSent
<1>5. OneWalker'
  BY <1>2, <1>3, <1>4 DEF OneWalker
<1>6. ASSUME NEW d \in WalkingSent' \ WalkingSent PROVE ~cooling /\ WalkingSent' = {c}
  <2>1. d = c
    BY <1>2, <1>4
  <2>2. PICK i \in Stages \ {0} : Paced(Chain[i], request[c]) /\ In(c, i, {"sent"})' # {}
    BY <1>1, <2>1 DEF WalkingSent
  <2>3. PICK k \in Tasks : task'[c][i][k] = "sent"
    BY <2>2 DEF In, Tasks
  <2>4. task[c][i][k] # "sent"
    <3>1. task[c][i][k] = "sent" => In(c, i, {"sent"}) # {}
      BY DEF In, Tasks
    <3> QED
      BY <2>1, <2>2, <3>1 DEF WalkingSent
  <2>5. task[c][i][k] = "paced" /\ ~cooling
    BY <2>2, <2>3, <2>4, WalkingStarts
  <2>6. c \in WalkingHolders
    <3>1. In(c, i, {"paced", "sent"}) # {}
      BY <2>5 DEF In, Tasks
    <3> QED
      BY <2>2, <3>1 DEF WalkingHolders
  <2>7. WalkingSent \subseteq WalkingHolders
    <3>1. \A e, j : In(e, j, {"sent"}) \subseteq In(e, j, {"paced", "sent"})
      BY DEF In
    <3> QED
      BY <3>1 DEF WalkingSent, WalkingHolders
  <2>8. \A e \in WalkingSent' : e = c
    BY <1>2, <1>4, <2>6, <2>7 DEF OneWalker
  <2> QED
    BY <2>1, <2>5, <2>8
<1> QED
  BY <1>5, <1>6

------------------------------------------------------------------------------
(* The invariant.                                                           *)

\* What holds of a call holds after the steps of the others.
LEMMA CallFrame ==
  ASSUME NEW d \in Calls, Same(d)
  PROVE  /\ Asked(d) => Asked(d)'
         /\ PathTaken(d) => PathTaken(d)'
         /\ RefusalHeard(d) => RefusalHeard(d)'
         /\ StoryTold(d) => StoryTold(d)'
         /\ Metrics(d) => Metrics(d)'
<1>1. /\ request'[d] = request[d] /\ phase'[d] = phase[d] /\ at'[d] = at[d] /\ raised'[d] = raised[d]
      /\ merged'[d] = merged[d] /\ warnings'[d] = warnings[d] /\ result'[d] = result[d]
  BY DEF Same
<1>2. Stages' = Stages /\ Chain' = Chain
  BY DEF Stages, Last, Chain, IfConfigured
<1>3. \A i, S : In(d, i, S)' = In(d, i, S)
  BY DEF Same, In
<1>4. \A i : Untouched(d, i)' <=> Untouched(d, i)
  BY DEF Same, Untouched, Tasks, MaxTasks
<1>5. \A i : Recorded(d, i)' = Recorded(d, i)
  BY <1>3 DEF Recorded, Finished
<1>6. \A i : /\ Broken(d, i)' <=> Broken(d, i)
             /\ Complete(d, i)' <=> Complete(d, i)
             /\ OneByOne(d, i)' <=> OneByOne(d, i)
             /\ Supports(Chain[i], request[d])' <=> Supports(Chain[i], request[d])
             /\ Wanted(Chain[i], request[d])' = Wanted(Chain[i], request[d])
             /\ OwnWarnings(Chain[i], request[d])' = OwnWarnings(Chain[i], request[d])
  BY <1>1, <1>2, <1>3 DEF Broken, Complete, OneByOne, Supports, Wanted, AtOnce, OwnWarnings
<1>7. \A i, ts : (Counted(ts, i)' = Counted(ts, i)) /\ (Told(d, i, ts)' <=> Told(d, i, ts))
  BY <1>3, <1>4, <1>6 DEF Told, Counted
<1>8. (Valid(request[d])' <=> Valid(request[d])) /\ \A p, ws : Of(p, ws)' = Of(p, ws)
  BY <1>1 DEF Valid, Of
<1>9. Asked(d) => Asked(d)'
  BY <1>1, <1>2, <1>3, <1>4, <1>6, <1>8 DEF Asked, TaskStates
<1>10. PathTaken(d) => PathTaken(d)'
  BY <1>1, <1>2, <1>6 DEF PathTaken, Passed
<1>11. RefusalHeard(d) => RefusalHeard(d)'
  BY <1>1, <1>2, <1>3, <1>6 DEF RefusalHeard, Heard, InFlight
<1>12. StoryTold(d) => StoryTold(d)'
  BY <1>1, <1>2, <1>6, <1>8 DEF StoryTold
<1>13. Metrics(d) => Metrics(d)'
  BY <1>1, <1>2, <1>4, <1>5, <1>6, <1>7 DEF Metrics
<1> QED
  BY <1>9, <1>10, <1>11, <1>12, <1>13

LEMMA InitInv == Init => IInv
<1> SUFFICES ASSUME Init PROVE IInv
  OBVIOUS
<1> DEFINE none == [k \in 1..MaxTasks |-> "none"]
           blank == [i \in Stages |-> none]
<1>1. /\ phase = [c \in Calls |-> "new"] /\ at = [c \in Calls |-> 0] /\ task = [c \in Calls |-> blank]
      /\ raised = [c \in Calls |-> "nothing"] /\ merged = [c \in Calls |-> {}] /\ warnings = [c \in Calls |-> {}]
      /\ result = [c \in Calls |-> NoResult] /\ cooling = FALSE
      /\ request \in [Calls -> Requests]
  BY ScenariosAreArguments DEF Init
<1>2. none \in [Tasks -> TaskStates]
  BY DEF Tasks, TaskStates
<1>3. blank \in [Stages -> [Tasks -> TaskStates]] /\ \A i \in Stages, k \in Tasks : blank[i][k] = "none"
  BY <1>2 DEF Tasks
<1> HIDE DEF none, blank
<1>4. TaskTypes /\ \A c \in Calls, i \in Stages, k \in Tasks : task[c][i][k] = "none"
  BY <1>1, <1>3 DEF TaskTypes
<1>5. \A c \in Calls, i \in Stages : Untouched(c, i)
  BY <1>4 DEF Untouched
<1>6. ASSUME NEW c \in Calls, NEW i \in Stages, NEW S, "none" \notin S PROVE In(c, i, S) = {}
  BY <1>4, <1>6 DEF In, Tasks
<1>7. 0 \in Stages
  BY Sizes
<1>8. NoResult \in Results /\ NoResult.how = "none" /\ NoResult.metrics = {}
  BY DEF NoResult, Results
<1>9. Types
  BY <1>1, <1>4, <1>7, <1>8 DEF Types, Phases
<1>10. ASSUME NEW c \in Calls PROVE Asked(c) /\ PathTaken(c) /\ RefusalHeard(c) /\ StoryTold(c) /\ Metrics(c)
  <2>1. /\ phase[c] = "new" /\ at[c] = 0 /\ raised[c] = "nothing" /\ merged[c] = {} /\ warnings[c] = {} /\ result[c] = NoResult
    BY <1>1
  <2>2. \A i \in Stages : In(c, i, TaskStates \ {"none"}) = {} /\ In(c, i, InFlight) = {} /\ In(c, i, {"refused"}) = {}
    BY <1>6 DEF InFlight
  <2>3. Asked(c)
    BY <1>5, <1>7, <1>8, <2>1, <2>2 DEF Asked
  <2>4. \A j \in Stages \ {0} : ~(j < 0)
    BY Sizes
  <2>5. PathTaken(c)
    BY <1>8, <2>1, <2>4 DEF PathTaken
  <2>6. RefusalHeard(c)
    BY <2>2 DEF RefusalHeard, Heard
  <2>7. StoryTold(c)
    BY <1>8, <2>1 DEF StoryTold
  <2>8. Metrics(c)
    BY <1>8, <2>1 DEF Metrics
  <2> QED
    BY <2>3, <2>5, <2>6, <2>7, <2>8
<1>11. OneWalker
  <2>1. \A c \in Calls, i \in Stages : In(c, i, {"paced", "sent"}) = {}
    BY <1>6
  <2> QED
    BY <2>1 DEF OneWalker, WalkingHolders
<1> QED
  BY <1>9, <1>10, <1>11 DEF IInv, CallInv

LEMMA StepInv == IInv /\ [Next]_vars => IInv'
<1> SUFFICES ASSUME IInv, [Next]_vars PROVE IInv'
  OBVIOUS
<1>1. Types /\ OneWalker /\ \A c \in Calls : Asked(c) /\ PathTaken(c) /\ RefusalHeard(c) /\ StoryTold(c) /\ Metrics(c)
  BY DEF IInv, CallInv
<1>2. CASE Idle
  <2>1. \A d \in Calls : Same(d)
    BY <1>2 DEF Idle, Same
  <2>2. CallInv'
    BY <1>1, <2>1, CallFrame DEF CallInv
  <2>3. OneWalker'
    <3>1. WalkingHolders \subseteq Calls /\ WalkingHolders' \subseteq Calls
      BY DEF WalkingHolders
    <3> QED
      BY <1>1, <2>1, <3>1, HoldersFrame DEF OneWalker
  <2>4. Types'
    BY <1>1, <1>2 DEF Idle, Types, TaskTypes
  <2> QED
    BY <2>2, <2>3, <2>4 DEF IInv
<1>3. ASSUME NEW c \in Calls, Acts(c) PROVE IInv'
  <2>1. Types' /\ OneWalker'
    BY <1>1, <1>3, TypesStep, WalkerStep
  <2>2. Asked(c)' /\ PathTaken(c)' /\ StoryTold(c)' /\ Metrics(c)'
    BY <1>1, <1>3, AskedStep, PathStep, StoryStep, MetricsStep
  <2>3. RefusalHeard(c)'
    <3>1. Stages' = Stages /\ \A i : OneByOne(c, i)' <=> OneByOne(c, i)
      <4>1. request'[c] = request[c]
        BY <1>1, <1>3, ActsMove
      <4>2. Stages' = Stages /\ Chain' = Chain
        BY DEF Stages, Last, Chain, IfConfigured
      <4> QED
        BY <4>1, <4>2 DEF OneByOne, AtOnce, Wanted
    <3> QED
      BY <1>1, <1>3, <3>1, RefusalStep DEF RefusalHeard
  <2>4. ASSUME NEW d \in Calls \ {c} PROVE Asked(d)' /\ PathTaken(d)' /\ RefusalHeard(d)' /\ StoryTold(d)' /\ Metrics(d)'
    BY <1>1, <1>3, ActsAlone, CallFrame
  <2> QED
    BY <2>1, <2>2, <2>3, <2>4 DEF IInv, CallInv
<1> QED
  BY <1>2, <1>3, OneCallActs

\* Everything the proofs know of a reachable state, for every chain of providers, any
\* number of concurrent calls and any limits.
THEOREM Invariance == Spec => []IInv
<1>1. Init => IInv
  BY InitInv
<1>2. IInv /\ [Next]_vars => IInv'
  BY StepInv
<1> QED
  BY <1>1, <1>2, PTL DEF Spec

------------------------------------------------------------------------------
\* An answer comes from the first provider of the chain that could give one: route
\* never skips a provider that would have answered, and never asks one after it.
THEOREM FirstAbleAnswersAlways == Spec => []FirstAbleAnswers
<1>1. IInv => FirstAbleAnswers
  <2> SUFFICES ASSUME IInv, NEW c \in Calls, result[c].how = "ok"
               PROVE  /\ Supports(Chain[at[c]], request[c])
                      /\ In(c, at[c], {"ok"}) = Wanted(Chain[at[c]], request[c])
                      /\ \A j \in 1..(at[c] - 1) : Supports(Chain[j], request[c]) =>
                           \/ In(c, j, {"failed", "refused"}) # {}
                           \/ In(c, j, {"ok"}) = Wanted(Chain[j], request[c])
                      /\ \A j \in (at[c] + 1)..Last : In(c, j, {"none"}) = 1..MaxTasks
    BY DEF FirstAbleAnswers
  <2>1. Types /\ Asked(c) /\ PathTaken(c)
    BY DEF IInv, CallInv
  <2>2. at[c] \in Nat /\ at[c] <= Last /\ Stages = 0..Last /\ Last \in Nat
    <3>1. at[c] \in Stages
      BY <2>1 DEF Types
    <3> QED
      BY <3>1, Sizes
  <2>3. at[c] > 0 /\ Supports(Chain[at[c]], request[c]) /\ Complete(c, at[c])
    BY <2>1 DEF PathTaken
  <2>4. ASSUME NEW j \in 1..(at[c] - 1) PROVE Passed(c, j)
    <3>1. j \in Stages \ {0} /\ j < at[c]
      BY <2>2
    <3> QED
      BY <2>1, <3>1 DEF PathTaken
  <2>5. ASSUME NEW j \in (at[c] + 1)..Last PROVE In(c, j, {"none"}) = 1..MaxTasks
    <3>1. j \in Stages \ {0} /\ j > at[c]
      BY <2>2
    <3>2. Untouched(c, j)
      BY <2>1, <3>1 DEF Asked
    <3> QED
      BY <3>2 DEF Untouched, In, Tasks
  <2> QED
    BY <2>3, <2>4, <2>5 DEF Complete, Passed, Broken
<1> QED
  BY <1>1, Invariance, PTL

\* Of a provider that is asked one request at a time, a refusal ends the call: the
\* coordinator does not ask the next provider, whose answer would hide the defect.
THEOREM RefusalEndsCallAlways == Spec => []RefusalEndsCall
<1>1. IInv => RefusalEndsCall
  <2> SUFFICES ASSUME IInv, NEW c \in Calls, NEW i \in Stages \ {0},
                      Cardinality(AtOnce(Chain[i], request[c])) = 1, In(c, i, {"refused"}) # {}
               PROVE  at[c] = i /\ result[c].how # "ok"
    BY DEF RefusalEndsCall
  <2>1. Types /\ Asked(c) /\ RefusalHeard(c)
    BY DEF IInv, CallInv
  <2>2. request[c] \in Requests
    BY <2>1 DEF Types
  <2>3. OneByOne(c, i)
    <3>1. request[c].size \in Nat /\ request[c].size >= 1
      BY <2>2, RoutingConstants DEF Requests
    <3>2. Cardinality(1..request[c].size) = request[c].size
      BY <3>1, FS_Interval
    <3> QED
      BY <3>1, <3>2 DEF OneByOne, AtOnce, Wanted
  <2>4. Heard(c, i)
    BY <2>1, <2>3 DEF RefusalHeard
  <2>5. phase[c] = "attempting" => result[c].how # "ok"
    BY <2>1 DEF Asked
  <2> QED
    BY <2>4, <2>5 DEF Heard
<1> QED
  BY <1>1, Invariance, PTL

\* The warnings of an answer tell which providers were passed over and how, and the
\* provider's own: those of an attempt that failed are dropped with its context.
THEOREM WarningsTellThePathAlways == Spec => []WarningsTellThePath
<1>1. IInv => WarningsTellThePath
  <2> SUFFICES ASSUME IInv, NEW c \in Calls, result[c].how = "ok"
               PROVE  /\ Of(Chain[at[c]], result[c].warnings) = OwnWarnings(Chain[at[c]], request[c])
                      /\ \A j \in 1..(at[c] - 1) : \E how \in {"failed", "timed out"} :
                           Of(Chain[j], result[c].warnings) = {<<how, Chain[j]>>}
                      /\ \A j \in (at[c] + 1)..Last : Of(Chain[j], result[c].warnings) = {}
    BY DEF WarningsTellThePath, Of
  <2>1. Types /\ PathTaken(c) /\ StoryTold(c)
    BY DEF IInv, CallInv
  <2>2. at[c] \in Nat /\ at[c] <= Last /\ Stages = 0..Last /\ Last \in Nat
    <3>1. at[c] \in Stages
      BY <2>1 DEF Types
    <3> QED
      BY <3>1, Sizes
  <2>3. at[c] > 0
    BY <2>1 DEF PathTaken
  <2>4. \A j \in Stages \ {0} :
          /\ j < at[c] => \E how \in {"failed", "timed out"} : Of(Chain[j], result[c].warnings) = {<<how, Chain[j]>>}
          /\ j = at[c] => Of(Chain[j], result[c].warnings) = OwnWarnings(Chain[j], request[c])
          /\ j > at[c] => Of(Chain[j], result[c].warnings) = {}
    BY <2>1 DEF StoryTold
  <2>5. at[c] \in Stages \ {0}
    BY <2>2, <2>3
  <2>6. \A j \in 1..(at[c] - 1) : j \in Stages \ {0} /\ j < at[c]
    BY <2>2
  <2>7. \A j \in (at[c] + 1)..Last : j \in Stages \ {0} /\ j > at[c]
    BY <2>2
  <2> QED
    BY <2>4, <2>5, <2>6, <2>7
<1> QED
  BY <1>1, Invariance, PTL

\* The metrics of a result count only requests that were made, and all those an answer
\* stands on: merging the context of each attempt loses none and invents none.
THEOREM MetricsAddUpAlways == Spec => []MetricsAddUp
<1>1. IInv => MetricsAddUp
  <2> SUFFICES ASSUME IInv, NEW c \in Calls
               PROVE  /\ \A i \in Stages : Counted(result[c].metrics, i) \subseteq Recorded(c, i)
                      /\ result[c].how = "ok" =>
                           /\ Counted(result[c].metrics, 0) = {0} \X (1..request[c].texts)
                           /\ Counted(result[c].metrics, at[c]) = {at[c]} \X Wanted(Chain[at[c]], request[c])
                      /\ result[c].how \in {"ok", "error"} =>
                           \A i \in 1..at[c] : In(c, i, Finished) # {} =>
                             \/ Counted(result[c].metrics, i) = {i} \X Wanted(Chain[i], request[c])
                             \/ \E k \in In(c, i, {"failed", "refused"}) : <<i, k>> \in Counted(result[c].metrics, i)
    BY DEF MetricsAddUp, Counted
  <2>1. Types /\ Metrics(c)
    BY DEF IInv, CallInv
  <2>2. \A i \in Stages : Counted(result[c].metrics, i) \subseteq Recorded(c, i)
    BY <2>1 DEF Metrics, Counted
  <2>3. ASSUME result[c].how \in {"ok", "error"}, NEW i \in 1..at[c], In(c, i, Finished) # {}
        PROVE  \/ Counted(result[c].metrics, i) = {i} \X Wanted(Chain[i], request[c])
               \/ \E k \in In(c, i, {"failed", "refused"}) : <<i, k>> \in Counted(result[c].metrics, i)
    <3>1. at[c] \in Stages
      BY <2>1 DEF Types
    <3>2. i \in Stages \ {0} /\ i <= at[c]
      BY <3>1, Sizes
    <3>3. Told(c, i, result[c].metrics)
      BY <2>1, <2>3, <3>2 DEF Metrics
    <3>4. ~Untouched(c, i)
      BY <2>3 DEF Untouched, In, Finished, Tasks
    <3> QED
      BY <3>3, <3>4 DEF Told, Counted
  <2>4. result[c].how = "ok" =>
          /\ Counted(result[c].metrics, 0) = {0} \X (1..request[c].texts)
          /\ Counted(result[c].metrics, at[c]) = {at[c]} \X Wanted(Chain[at[c]], request[c])
    BY <2>1 DEF Metrics
  <2> QED
    BY <2>2, <2>3, <2>4
<1> QED
  BY <1>1, Invariance, PTL

\* The lock of the OSRM client paces the walking requests of all calls of the process:
\* one call at a time asks, a second after the request before.
THEOREM WalkingIsPacedAlways == Spec => WalkingIsPaced
<1> DEFINE Paces == WalkingSent' \ WalkingSent # {} => ~cooling /\ Cardinality(WalkingSent') = 1
<1>1. IInv /\ [Next]_vars => [Paces]_vars
  <2> SUFFICES ASSUME IInv, [Next]_vars PROVE Paces
    OBVIOUS
  <2>1. Types /\ OneWalker /\ \A c \in Calls : Asked(c)
    BY DEF IInv, CallInv
  <2>2. CASE Idle
    <3>1. WalkingSent' \subseteq Calls
      BY DEF WalkingSent
    <3>2. \A d \in Calls : Same(d)
      BY <2>2 DEF Idle, Same
    <3> QED
      BY <3>1, <3>2, HoldersFrame
  <2>3. ASSUME NEW c \in Calls, Acts(c) PROVE Paces
    <3>1. WalkingSent' \ WalkingSent # {} => ~cooling /\ WalkingSent' = {c}
      BY <2>1, <2>3, WalkerStep
    <3>2. Cardinality({c}) = 1
      BY FS_Singleton
    <3> QED
      BY <3>1, <3>2
  <2> QED
    BY <2>2, <2>3, OneCallActs
<1>2. Spec => [][Next]_vars
  BY DEF Spec
<1> QED
  BY <1>1, <1>2, Invariance, PTL DEF WalkingIsPaced
=============================================================================
